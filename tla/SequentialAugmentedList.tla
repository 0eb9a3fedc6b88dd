---- MODULE SequentialAugmentedList ----
(***************************************************************************)
(* The sequential augmented skip list (augmented_skip_list.cpp), which     *)
(* updates its sums after each join and each split: l[e].vals[k] counts    *)
(* the elements from e to before its right neighbor at level k.            *)
(***************************************************************************)
EXTENDS SkipList

CONSTANT Elements

(* Every element is a list of its own.                                     *)
Empty ==
  [e \in Elements |->
     [next |-> NewElement(e).next, prev |-> NewElement(e).prev,
      vals |-> [k \in 1 .. Height[e] |-> 1]]]

(* The parent and what there is up to it: a left parent's own value is     *)
(* counted, a right parent's is not.                                       *)
RECURSIVE ParentAndSum(_, _, _, _, _, _)
ParentAndSum(l, e, start, k, dir, sum) ==
  LET n == l[e][dir][k]
      with == sum + l[e].vals[k]
  IN IF Height[e] > k THEN [node |-> e, sum |-> IF dir = "prev" THEN with ELSE sum]
     ELSE IF n \in {Null, start} THEN [node |-> Null, sum |-> with]
     ELSE ParentAndSum(l, n, start, k, dir, with)

FindLeftParentAndSum(l, e, k) == ParentAndSum(l, e, e, k, "prev", 0)
FindRightParentAndSum(l, e, k) == ParentAndSum(l, e, e, k, "next", 0)

(* The last loop of joins and splits: the sums of the left parents above.  *)
RECURSIVE Refresh(_, _, _, _)
Refresh(l, e, k, sum) ==
  LET m == [l EXCEPT ![e].vals[k] = sum]
      up == FindLeftParentAndSum(m, e, k)
  IN IF e = Null THEN l ELSE Refresh(m, up.node, k + 1, up.sum)

RECURSIVE JoinAndSum(_, _, _, _, _)
JoinAndSum(l, left, right, k, sum) ==
  LET m == [[l EXCEPT ![left].next[k] = right, ![left].vals[k] = sum]
              EXCEPT ![right].prev[k] = left]
      a == FindLeftParentAndSum(m, left, k)
      b == FindRightParentAndSum(m, right, k)
  IN IF Null \in {left, right} THEN Refresh(l, left, k, sum)
     ELSE JoinAndSum(m, a.node, b.node, k + 1, a.sum + b.sum)

(* One join and one split of a batch.                                      *)
JoinOne(l, left, right) == JoinAndSum(l, left, right, 1, l[left].vals[1])

RECURSIVE SplitAndSum(_, _, _, _)
SplitAndSum(l, e, k, sum) ==
  LET n == l[e].next[k]
      m == [[l EXCEPT ![e].next[k] = Null, ![e].vals[k] = sum] EXCEPT ![n].prev[k] = Null]
      up == FindLeftParentAndSum(m, e, k)
  IN IF e = Null THEN l
     ELSE IF n = Null THEN Refresh(l, e, k, sum)
     ELSE SplitAndSum(m, up.node, k + 1, up.sum)

SplitOne(l, e) == SplitAndSum(l, e, 1, l[e].vals[1])

(* The top level from its first element to the end, or round to root, then *)
(* back to the first element, going down where there is no left neighbor.  *)
RECURSIVE SumRight(_, _, _, _, _)
SumRight(l, e, root, k, sum) ==
  IF e \in {Null, root} THEN [sum |-> sum, end |-> e]
  ELSE SumRight(l, l[e].next[k], root, k, sum + l[e].vals[k])

RECURSIVE SumLeft(_, _, _, _)
SumLeft(l, e, k, sum) ==
  LET n == l[e].prev[k]
  IN IF k = 0 THEN sum
     ELSE IF n = Null THEN SumLeft(l, e, k - 1, sum)
     ELSE SumLeft(l, n, k, sum + l[n].vals[k])

GetSum(l, e) ==
  LET root == FindRepresentative(l, e)
      k == Height[root]
      right == SumRight(l, l[root].next[k], root, k, l[root].vals[k])
  IN IF right.end = root THEN right.sum ELSE SumLeft(l, root, k, right.sum)
====
