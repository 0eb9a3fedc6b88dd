---- MODULE MCConcurrentStack ----
(* A small instance of ConcurrentStack for TLC. *)
EXTENDS ConcurrentStack, TLC

Symmetry == Permutations(Threads)
====
