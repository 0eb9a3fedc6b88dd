---- MODULE SkipList ----
(***************************************************************************)
(* The sequential skip list of sequence/skip_list (skip_list_base.hpp), as *)
(* operators on the elements' pointers: l[e].next[k] and l[e].prev[k] are  *)
(* e's neighbors at level k.  Elements are compared by their addresses.    *)
(* The code counts levels from 0, here they start at 1.                    *)
(***************************************************************************)
EXTENDS Integers, Sequences

CONSTANTS Null, Height   \* Height[e] levels for the element e

NewElement(e) == [next |-> [k \in 1 .. Height[e] |-> Null],
                  prev |-> [k \in 1 .. Height[e] |-> Null]]

(* The first element above level k on the way along dir ("prev": to the    *)
(* left, "next": to the right) from e on, e included; start ends a cycle.  *)
RECURSIVE Parent(_, _, _, _, _)
Parent(l, e, start, k, dir) ==
  LET n == l[e][dir][k]
  IN IF Height[e] > k THEN e
     ELSE IF n \in {Null, start} THEN Null
     ELSE Parent(l, n, start, k, dir)

FindLeftParent(l, e, k) == Parent(l, e, e, k, "prev")
FindRightParent(l, e, k) == Parent(l, e, e, k, "next")

(* FindRepresentative goes right along the top level of the element it is  *)
(* at, seen being the lowest element of that level it passed.              *)
RECURSIVE WalkRight(_, _, _, _)
WalkRight(l, e, k, seen) ==
  LET n == l[e].next[k]
      low == IF seen = Null \/ e < seen THEN e ELSE seen
  IN IF n = Null \/ seen = e THEN [at |-> e, level |-> k, cycle |-> seen = e]
     ELSE IF k < Height[n] THEN WalkRight(l, n, Height[n], Null)
     ELSE WalkRight(l, n, k, low)

RECURSIVE WalkLeft(_, _, _)
WalkLeft(l, e, k) ==
  LET n == l[e].prev[k] IN IF n = Null THEN e ELSE WalkLeft(l, n, Height[n])

FindRepresentative(l, e) ==
  LET w == WalkRight(l, e, Height[e], Null)
  IN IF w.cycle THEN w.at ELSE WalkLeft(l, w.at, w.level)

RECURSIVE JoinFrom(_, _, _, _)
JoinFrom(l, left, right, k) ==
  LET m == [[l EXCEPT ![left].next[k] = right] EXCEPT ![right].prev[k] = left]
  IN IF Null \in {left, right} THEN l
     ELSE JoinFrom(m, FindLeftParent(m, left, k), FindRightParent(m, right, k), k + 1)

Join(l, left, right) == JoinFrom(l, left, right, 1)

RECURSIVE SplitFrom(_, _, _)
SplitFrom(l, e, k) ==
  LET n == l[e].next[k]
      m == [[l EXCEPT ![e].next[k] = Null] EXCEPT ![n].prev[k] = Null]
  IN IF e = Null THEN l
     ELSE IF n = Null THEN l
     ELSE SplitFrom(m, FindLeftParent(m, e, k), k + 1)

(* Splits right after e; its successor starts the right part.              *)
Split(l, e) == [links |-> SplitFrom(l, e, 1), right |-> l[e].next[1]]
====
