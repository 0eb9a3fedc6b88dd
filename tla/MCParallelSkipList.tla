---- MODULE MCParallelSkipList ----
(* Small instances of ParallelSkipList for TLC. *)
EXTENDS ParallelSkipList, TLC

CONSTANTS Heights, Orders   \* the arrangements: each height with each order

MCElements4 == 1 .. 4
MCElements3 == 1 .. 3

MCShapes == {ShapeOf(h, o) : h \in Heights, o \in Orders}

(* Heights of the elements 1, 2, ... *)
Towers4 == {<<1, 2, 1, 3>>, <<3, 1, 3, 2>>}
Towers3 == {<<1, 2, 3>>, <<3, 1, 2>>, <<2, 2, 2>>}
RingsAndPath4 == {Ring(4), TwoRings(2, 4), Path(4)}
RingAndPath3 == {Ring(3), Path(3)}

ThreadSymmetry == Permutations(Threads)
====
