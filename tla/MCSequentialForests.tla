---- MODULE MCSequentialForests ----
(* A small instance of SequentialForests for TLC. *)
EXTENDS SequentialForests

(* Vertices of all heights; the pool's elements have them too.             *)
SomeHeights == << 1, 3, 2, 1,  2, 1, 3, 1, 1, 2 >>

Pairs == {<<u, v>> \in Vertices \X Vertices : u # v}
Single == {<<e>> : e \in Pairs}
LinkBatches == Single \cup {<< <<1, 2>>, <<3, 2>> >>, << <<2, 4>>, <<4, 3>> >>}
CutBatches == Single \cup {<< <<1, 2>>, <<2, 3>> >>, << <<4, 3>>, <<2, 4>> >>}
FewQuestions == {<<1, 4>>, <<4, 2>>, <<3, 1>>, <<2, 3>>, <<3, 4>>, <<2, 1>>}

(* Splay trees have many shapes, lists few.                                *)
FewChanges ==
  [s \in {"link-cut", "splay", "skip list", "list"} |->
     CASE s = "list" -> 6 [] s = "splay" -> 3 [] OTHER -> 4]
====
