---- MODULE SplayTree ----
(***************************************************************************)
(* The splay trees of sequence/splay_tree, as operators from the nodes     *)
(* that exist to the nodes that exist: a deleted node leaves the domain.   *)
(***************************************************************************)
EXTENDS Integers, Sequences, Functions

CONSTANT Null

NewNode == [parent |-> Null, child |-> <<Null, Null>>]

AssignChild(t, n, i, v) ==
  LET up == IF v = Null THEN t ELSE [t EXCEPT ![v].parent = n]
  IN [up EXCEPT ![n].child[i] = v]

Rotate(t, n) ==
  LET p == t[n].parent
      g == t[p].parent
      near == IF t[p].child[1] = n THEN 1 ELSE 2   \* !rotate_direction
      far == 3 - near                              \* rotate_direction
      up == [t EXCEPT ![n].parent = g]
      hung == IF g = Null THEN up
              ELSE [up EXCEPT ![g].child = <<IF @[1] = p THEN n ELSE @[1],
                                             IF @[2] = p THEN n ELSE @[2]>>]
  IN AssignChild(AssignChild(hung, p, near, hung[n].child[far]), n, far, p)

(* Two rotations at a time: the parent first when both go the same way.    *)
RECURSIVE Splay(_, _)
Splay(t, n) ==
  LET p == t[n].parent
      pp == t[p].parent
      zigzig == (t[pp].child[1] = p) = (t[p].child[1] = n)
      halfway == IF pp = Null THEN t ELSE Rotate(t, IF zigzig THEN p ELSE n)
  IN IF p = Null THEN t ELSE Splay(Rotate(halfway, n), n)

RECURSIVE Outermost(_, _, _)
Outermost(t, n, i) ==
  IF t[n].child[i] = Null THEN n ELSE Outermost(t, t[n].child[i], i)

(* The first (i = 1) or last (i = 2) node of the tree of n, brought to the *)
(* root.                                                                   *)
GetExtreme(t, n, i) ==
  LET s == Splay(t, n)
      m == Outermost(s, n, i)
  IN [nodes |-> Splay(s, m), node |-> m]

GetMin(t, n) == GetExtreme(t, n, 1)
GetMax(t, n) == GetExtreme(t, n, 2)

(* Splits right after n, which stays the root of the left part.            *)
Split(t, n) ==
  LET s == Splay(t, n)
      right == s[n].child[2]
      apart == IF right = Null THEN s ELSE [s EXCEPT ![right].parent = Null]
  IN [nodes |-> [apart EXCEPT ![n].child[2] = Null], right |-> right]

Join(t, lesser, greater) ==
  IF Null \in {lesser, greater} THEN t
  ELSE LET m == GetMax(Splay(Splay(t, lesser), greater), lesser)
       IN AssignChild(m.nodes, m.node, 2, greater)

(* Deletes the last node of the tree of n; rest is what it leaves, if any. *)
DeleteMax(t, n) ==
  LET m == GetMax(t, n)
      rest == m.nodes[m.node].child[1]
      apart == IF rest = Null THEN m.nodes ELSE [m.nodes EXCEPT ![rest].parent = Null]
  IN [nodes |-> Restrict(apart, DOMAIN apart \ {m.node}), rest |-> rest]
====
