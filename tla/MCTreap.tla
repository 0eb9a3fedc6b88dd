---- MODULE MCTreap ----
(* A small instance of Treap for TLC. *)
EXTENDS Treap

(* Six nodes; 5 and 2 have the same priority.                              *)
Nodes6 == <<4, 1, 6, 3, 5, 2>>
Priorities == [v \in 1 .. 6 |-> <<4, 3, 6, 1, 3, 5>>[v]]

(* Ascending, mixed and single positions                                   *)
SomeBatches ==
  { <<1, 2, 3, 4, 5>>, <<4, 2, 5, 1, 3>>, <<5, 4, 3, 2>>, <<5, 3, 2>>, <<1, 2, 4>>,
    <<3, 1, 5>>, <<3, 4>>, <<2>> }
====
