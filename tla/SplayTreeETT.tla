---- MODULE SplayTreeETT ----
(***************************************************************************)
(* The sequential Euler tour tree over splay trees (splay_tree_ett.cpp).   *)
(* Here a tour is a sequence, not a cycle, which starts where the last     *)
(* operation left it.  The node made for the edge <<u, v>> is called       *)
(* <<u, v>>, the node of a vertex v <<v, v>>: edges, the map from edges    *)
(* to nodes, is then the nodes of the first kind that exist.               *)
(***************************************************************************)
EXTENDS SplayTree

CONSTANT Vertices

(* The tree with every vertex on its own.                                  *)
Empty == [n \in {<<v, v>> : v \in Vertices} |-> NewNode]

IsConnected(t, u, v) ==
  LET a == GetMin(t, <<u, u>>)
      b == GetMin(a.nodes, <<v, v>>)
  IN [tree |-> b.nodes, answer |-> a.node = b.node]

(* u's tour is opened after u, v's after v, and v's goes into u's gap,     *)
(* its second half first, between the two new nodes.                       *)
Link(t, u, v) ==
  LET new == [n \in DOMAIN t \cup {<<u, v>>, <<v, u>>} |->
                IF n \in DOMAIN t THEN t[n] ELSE NewNode]
      us == Split(new, <<u, u>>)
      vs == Split(us.nodes, <<v, v>>)
      Append2(s, n) == Join(s, <<u, u>>, n)
  IN Append2(Append2(Append2(Append2(Append2(vs.nodes,
       <<u, v>>), vs.right), <<v, v>>), <<v, u>>), us.right)

(* The first nodes of the trees of a and b, found in either order (the     *)
(* operands of != are evaluated in an unspecified one).                    *)
Ends(t, a, b, aFirst) ==
  LET x == GetMin(t, IF aFirst THEN a ELSE b)
      y == GetMin(x.nodes, IF aFirst THEN b ELSE a)
  IN [nodes |-> y.nodes, differ |-> x.node # y.node]

(* The tour is opened after uv and after vu; what lay between them is one  *)
(* tree, the rest is joined up as the other.                               *)
Cut(t, u, v, uvFirst) ==
  LET uv == <<u, v>>
      vu == <<v, u>>
      uvs == Split(t, uv)
      ends == Ends(uvs.nodes, uv, vu, uvFirst)   \* uv_vu_in_order: ends.differ
      vus == Split(ends.nodes, vu)
      uvLeft == DeleteMax(vus.nodes, uv)
      vuLeft == DeleteMax(uvLeft.nodes, vu)
  IN IF ends.differ THEN Join(vuLeft.nodes, uvLeft.rest, vus.right)
     ELSE Join(vuLeft.nodes, vuLeft.rest, uvs.right)
====
