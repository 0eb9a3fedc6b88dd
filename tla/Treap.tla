---- MODULE Treap ----
(***************************************************************************)
(* The batch-parallel treap (treap.cpp): sequences kept in the order of    *)
(* trees that are heaps of random priorities.  Batches of splits are       *)
(* grouped by tree and then divided at a pivot; batches of joins make      *)
(* chains of trees, each joined by the one iteration that starts it.       *)
(*                                                                         *)
(* The branches of a parallel recursion and the iterations of a parallel   *)
(* loop take steps in any order.                                           *)
(***************************************************************************)
EXTENDS Integers, Sequences, ParallelPrimitives

CONSTANTS Line,      \* the nodes, in the order that the caller joins them
          Priority,  \* of every node
          Batches,   \* sequences of positions in Line to join or to split at
          kSplitSequentialThreshold,
          kSplitOneTreeSequentialThreshold,
          kJoinSequentialThreshold,
          Null

Nodes == {Line[i] : i \in DOMAIN Line}
Ref == Nodes \cup {Null}

VARIABLES
  tree,             \* parent and child of every node
  right_joiner, has_left_joiner,
  op,               \* what is in progress
  branches,         \* of a batch of splits
  joins,            \* of this round
  walks,            \* the iterations of the loop over joins
  rest,             \* the joins left to the next round
  cuts              \* where the caller has cut Line

joiners == <<right_joiner, has_left_joiner>>
vars == <<tree, joiners, op, branches, joins, walks, rest, cuts>>

Gaps == 1 .. Len(Line) - 1

Init ==
  /\ tree = [parent |-> [v \in Nodes |-> Null], child |-> [v \in Nodes |-> [i \in 0 .. 1 |-> Null]]]
  /\ right_joiner = [v \in Nodes |-> Null]
  /\ has_left_joiner = [v \in Nodes |-> FALSE]
  /\ op = "idle" /\ branches = {} /\ joins = <<>> /\ walks = <<>> /\ rest = <<>>
  /\ cuts = Gaps

----
(* Operations on single trees *)

AssignChild(t, v, i, c) ==
  [parent |-> IF c = Null THEN t.parent ELSE [t.parent EXCEPT ![c] = v],
   child |-> [t.child EXCEPT ![v][i] = c]]

RECURSIVE GetRoot(_, _)
GetRoot(t, v) == IF t.parent[v] = Null THEN v ELSE GetRoot(t, t.parent[v])

RECURSIVE JoinRoots(_, _, _)
JoinRoots(t, lesser, greater) ==
  LET onRight == JoinRoots(t, t.child[lesser][1], greater)
      onLeft == JoinRoots(t, lesser, t.child[greater][0])
  IN IF lesser = Null THEN [tree |-> t, root |-> greater]
     ELSE IF greater = Null THEN [tree |-> t, root |-> lesser]
     ELSE IF Priority[lesser] > Priority[greater]
     THEN [tree |-> AssignChild(onRight.tree, lesser, 1, onRight.root), root |-> lesser]
     ELSE [tree |-> AssignChild(onLeft.tree, greater, 0, onLeft.root), root |-> greater]

Join(t, lesser, greater) == JoinRoots(t, GetRoot(t, lesser), GetRoot(t, greater)).tree

Detach(t, v) == [t EXCEPT !.parent[v] = Null]

(* The way from a node up to the root takes the path apart: what was       *)
(* reached from its right child belongs to lesser, the rest to greater.    *)
RECURSIVE SplitUp(_, _, _, _, _)
SplitUp(t, current, fromRight, lesser, greater) ==
  LET p == t.parent[current]
      side == IF t.child[p][1] = current THEN 1 ELSE 0
      apart == IF p = Null THEN t ELSE Detach(AssignChild(t, p, side, Null), current)
      left == JoinRoots(apart, current, lesser)
      right == JoinRoots(apart, greater, current)
      joined == IF fromRight THEN left.tree ELSE right.tree
      newLesser == IF fromRight THEN left.root ELSE lesser
      newGreater == IF fromRight THEN greater ELSE right.root
  IN IF p = Null THEN [tree |-> joined, lesser |-> newLesser, greater |-> newGreater]
     ELSE SplitUp(joined, p, side = 1, newLesser, newGreater)

Split(t, v) ==
  LET right == t.child[v][1]
      apart == IF right = Null THEN t ELSE AssignChild(Detach(t, right), v, 1, Null)
  IN SplitUp(apart, v, TRUE, Null, right)

----
(* BatchSplit *)

ToArray(s) == [i \in 0 .. Len(s) - 1 |-> s[i + 1]]
ToSeq(A) == [i \in 1 .. Length(A) |-> A[i - 1]]
Packed(s, flag(_)) == ToSeq(pack(ToArray(s), [i \in 0 .. Len(s) - 1 |-> flag(i + 1)]))

(* A call of BatchSplitOneTree; a short one splits one after the other.    *)
Branch(splits) ==
  [each |-> Len(splits) < kSplitOneTreeSequentialThreshold, splits |-> splits]

Running(branch) == branch.splits # <<>>

(* The splits sorted by tree, and the branch for those from i on           *)
SplitsByTree(splits) ==
  LET A == [i \in 0 .. Len(splits) - 1 |-> <<GetRoot(tree, splits[i + 1]), splits[i + 1]>>]
  IN iSort(A, maxFirst(A) + 1)

RECURSIVE BinarySearch(_, _, _, _)
BinarySearch(A, tree_, lo, hi) ==
  LET mid == lo + (hi - lo) \div 2 IN
  IF lo >= hi THEN lo
  ELSE IF A[mid][1] = tree_ THEN BinarySearch(A, tree_, mid + 1, hi)
  ELSE BinarySearch(A, tree_, lo, mid)

SplitsOnTree(A, i) ==
  LET right_endpoint == BinarySearch(A, A[i][1], i + 1, Length(A))
  IN [j \in 1 .. right_endpoint - i |-> A[i + j - 1][2]]

BatchSplit(splits) ==
  /\ op = "idle"
  /\ op' = "split"
  /\ branches' =
       IF Len(splits) < kSplitSequentialThreshold
       THEN {[each |-> TRUE, splits |-> splits]}
       ELSE LET A == SplitsByTree(splits)
                first == {i \in DOMAIN A : i = 0 \/ A[i][1] # A[i - 1][1]}
            IN {Branch(SplitsOnTree(A, i)) : i \in first}
  /\ cuts' = cuts \cup {i \in Gaps : \E j \in DOMAIN splits : splits[j] = Line[i]}
  /\ UNCHANGED <<tree, joiners, joins, walks, rest>>

SplitNext(b) ==
  /\ b.each
  /\ tree' = Split(tree, Head(b.splits)).tree
  /\ branches' = (branches \ {b}) \cup {c \in {[b EXCEPT !.splits = Tail(@)]} : Running(c)}
  /\ UNCHANGED <<joiners, op, joins, walks, rest, cuts>>

(* A random split divides the others into two branches.                    *)
SplitPivot(b, pivot) ==
  /\ ~b.each
  /\ LET s == Split(tree, b.splits[pivot])
         right(i) == GetRoot(s.tree, b.splits[i]) = s.greater
         left(i) == ~right(i) /\ i # pivot
     IN /\ tree' = s.tree
        /\ branches' = (branches \ {b})
             \cup {c \in {Branch(Packed(b.splits, right)), Branch(Packed(b.splits, left))} : Running(c)}
  /\ UNCHANGED <<joiners, op, joins, walks, rest, cuts>>

EndSplit ==
  /\ op = "split" /\ branches = {}
  /\ op' = "idle"
  /\ UNCHANGED <<tree, joiners, branches, joins, walks, rest, cuts>>

----
(* BatchJoin *)

(* Short batches, and what is left of long ones, one after the other       *)
RECURSIVE JoinAll(_, _)
JoinAll(t, s) ==
  IF s = <<>> THEN t ELSE JoinAll(Join(t, Head(s)[1], Head(s)[2]), Tail(s))

(* A round or the sequential rest, as its length says                      *)
Recurse(s) ==
  /\ walks' = <<>> /\ rest' = <<>>
  /\ IF Len(s) < kJoinSequentialThreshold
     THEN tree' = JoinAll(tree, s) /\ joins' = <<>> /\ op' = "idle"
     ELSE joins' = s /\ op' = "mark" /\ UNCHANGED tree

BatchJoin(s) ==
  /\ op = "idle"
  /\ Recurse(s)
  /\ UNCHANGED <<joiners, branches>>

(* The joins that a round does not ignore link the roots of their trees.   *)
Mark(ignored) ==
  /\ op = "mark" /\ op' = "join"
  /\ LET taken == DOMAIN joins \ ignored
         left_root(i) == GetRoot(tree, joins[i][1])
         right_root(i) == GetRoot(tree, joins[i][2])
     IN /\ right_joiner' =
             [v \in Nodes |->
                IF \E i \in taken : left_root(i) = v
                THEN right_root(CHOOSE i \in taken : left_root(i) = v) ELSE right_joiner[v]]
        /\ has_left_joiner' =
             [v \in Nodes |-> has_left_joiner[v] \/ \E i \in taken : right_root(i) = v]
        /\ walks' = [i \in taken |->
                       [at |-> "test", current |-> left_root(i), next |-> Null, next_next |-> Null]]
  /\ rest' = Packed(joins, LAMBDA i : i \in ignored)
  /\ UNCHANGED <<tree, branches, joins, cuts>>

Ends(i) == walks' = [j \in DOMAIN walks \ {i} |-> walks[j]]

Becomes(i, w) == IF w.next = Null THEN Ends(i) ELSE walks' = [walks EXCEPT ![i] = w]

At(i, at) == walks[i].at = at

(* An iteration whose tree has something to its left leaves it to another. *)
Test(i) ==
  /\ At(i, "test")
  /\ IF has_left_joiner[walks[i].current] THEN Ends(i) ELSE walks' = [walks EXCEPT ![i].at = "start"]
  /\ UNCHANGED <<tree, joiners, op, branches, joins, rest, cuts>>

Start(i) ==
  /\ At(i, "start")
  /\ LET v == walks[i].current IN
     /\ Becomes(i, [walks[i] EXCEPT !.at = "link", !.next = right_joiner[v]])
     /\ right_joiner' = [right_joiner EXCEPT ![v] = Null]
  /\ UNCHANGED <<tree, has_left_joiner, op, branches, joins, rest, cuts>>

(* Mutant: the link is left, for an iteration that comes late to follow.   *)
LinkLeft(i) ==
  /\ At(i, "link")
  /\ walks' = [walks EXCEPT ![i].at = "clear", ![i].next_next = right_joiner[walks[i].next]]
  /\ UNCHANGED <<tree, joiners, op, branches, joins, rest, cuts>>

Link(i) ==
  /\ At(i, "link")
  /\ LET v == walks[i].next IN
     /\ walks' = [walks EXCEPT ![i].at = "clear", ![i].next_next = right_joiner[v]]
     /\ right_joiner' = [right_joiner EXCEPT ![v] = Null]
  /\ UNCHANGED <<tree, has_left_joiner, op, branches, joins, rest, cuts>>

(* Mutant: the flag is left for the next round.                            *)
ClearNever(i) ==
  /\ At(i, "clear")
  /\ walks' = [walks EXCEPT ![i].at = "join"]
  /\ UNCHANGED <<tree, joiners, op, branches, joins, rest, cuts>>

(* From here on an iteration that has not tested this tree will start at   *)
(* it.                                                                     *)
Clear(i) ==
  /\ At(i, "clear")
  /\ has_left_joiner' = [has_left_joiner EXCEPT ![walks[i].next] = FALSE]
  /\ walks' = [walks EXCEPT ![i].at = "join"]
  /\ UNCHANGED <<tree, right_joiner, op, branches, joins, rest, cuts>>

JoinNext(i) ==
  /\ At(i, "join")
  /\ LET w == walks[i]
         j == JoinRoots(tree, w.current, w.next)
     IN /\ tree' = j.tree
        /\ Becomes(i, [at |-> "link", current |-> j.root, next |-> w.next_next, next_next |-> Null])
  /\ UNCHANGED <<joiners, op, branches, joins, rest, cuts>>

EndRound ==
  /\ op = "join" /\ DOMAIN walks = {}
  /\ Recurse(rest)
  /\ UNCHANGED <<joiners, branches, cuts>>

----
(* The caller joins lists that are next to each other in Line, naming any  *)
(* node of each: the nearest or the farthest.                              *)
PieceOf(i) == {k \in DOMAIN Line : \A g \in Smaller(i, k) .. (IF i < k THEN k ELSE i) - 1 : g \notin cuts}

JoinArgs(batch, far) ==
  [j \in DOMAIN batch |->
     LET g == batch[j] IN
     IF far THEN <<Line[Min(PieceOf(g))], Line[Max(PieceOf(g + 1))]>> ELSE <<Line[g], Line[g + 1]>>]

Places(batch) == {batch[j] : j \in DOMAIN batch}

Call ==
  \E batch \in Batches :
    \/ BatchSplit([j \in DOMAIN batch |-> Line[batch[j]]])
    \/ /\ Places(batch) \subseteq cuts
       /\ cuts' = cuts \ Places(batch)
       /\ \E far \in BOOLEAN : BatchJoin(JoinArgs(batch, far))

Next ==
  \/ Call
  \/ \E b \in branches : SplitNext(b) \/ \E pivot \in DOMAIN b.splits : SplitPivot(b, pivot)
  \/ EndSplit
  \/ \E ignored \in SUBSET DOMAIN joins : Mark(ignored)
  \/ \E i \in DOMAIN walks : Test(i) \/ Start(i) \/ Link(i) \/ Clear(i) \/ JoinNext(i)
  \/ EndRound

Spec == Init /\ [][Next]_vars

----
(* Properties *)

(* Branches that run at once never touch one tree: neither two branches of *)
(* splits nor two iterations that join, whatever an iteration that comes   *)
(* late reads of a chain that another is already walking.                  *)
TreesOf(b) == {GetRoot(tree, b.splits[j]) : j \in DOMAIN b.splits}
Joining(i) == walks[i].at \in {"link", "clear", "join"}
Held(i) == {walks[i].current, walks[i].next, walks[i].next_next} \ {Null}
BranchesApart ==
  /\ \A b, c \in branches : b # c => TreesOf(b) \cap TreesOf(c) = {}
  /\ \A i, j \in DOMAIN walks : i # j /\ Joining(i) /\ Joining(j) => Held(i) \cap Held(j) = {}

(* After every batch the trees are the caller's lists: each in the order   *)
(* of Line, a heap, with parents and children that agree, and no joiner is *)
(* left over for the next batch.                                           *)
RECURSIVE Inorder(_)
Inorder(v) ==
  IF v = Null THEN <<>> ELSE Inorder(tree.child[v][0]) \o <<v>> \o Inorder(tree.child[v][1])

Pieces == {LET p == PieceOf(i) IN SubSeq(Line, Min(p), Max(p)) : i \in DOMAIN Line}

Child(v, c) == \E i \in 0 .. 1 : tree.child[v][i] = c

ListsAsCaller ==
  op = "idle" =>
    /\ {Inorder(v) : v \in {u \in Nodes : tree.parent[u] = Null}} = Pieces
    /\ \A v, c \in Nodes : tree.parent[c] = v <=> Child(v, c)
    /\ \A v, c \in Nodes : Child(v, c) => Priority[v] >= Priority[c]
    /\ \A v \in Nodes : right_joiner[v] = Null /\ ~has_left_joiner[v]
====
