---- MODULE MCListAllocator ----
(* A small instance of ListAllocator for TLC. *)
EXTENDS ListAllocator, TLC

Symmetry == Permutations(Workers)
====
