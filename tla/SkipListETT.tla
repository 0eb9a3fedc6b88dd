---- MODULE SkipListETT ----
(***************************************************************************)
(* The sequential Euler tour tree over skip lists (skip_list_ett.cpp).     *)
(* The tours are cycles.  The elements are 1 .. 3n - 2: the vertices' own, *)
(* 1 .. n, and those the constructor puts into node_pool, which links take *)
(* two at a time and cuts give back.                                       *)
(***************************************************************************)
EXTENDS SkipList, Functions, SequencesExt

CONSTANT NumVertices

LOCAL Vertices == 1 .. NumVertices
LOCAL Elements == 1 .. 3 * NumVertices - 2

(* Every vertex is a cycle of its own; the pool's last is taken first.     *)
Empty ==
  [links |-> FoldLeft(LAMBDA l, v : Join(l, v, v),
                      [e \in Elements |-> NewElement(e)],
                      [v \in Vertices |-> v]),
   pool |-> [i \in 1 .. 2 * (NumVertices - 1) |-> NumVertices + i],
   edges |-> <<>>]

IsConnected(t, u, v) ==
  [tree |-> t,
   answer |-> FindRepresentative(t.links, u) = FindRepresentative(t.links, v)]

Link(t, u, v) ==
  LET uv == t.pool[Len(t.pool)]
      vu == t.pool[Len(t.pool) - 1]
      us == Split(t.links, u)
      vs == Split(us.links, v)
  IN [links |-> Join(Join(Join(Join(vs.links, u, uv), uv, vs.right), v, vu),
                     vu, us.right),
      pool |-> SubSeq(t.pool, 1, Len(t.pool) - 2),
      edges |-> (<<u, v>> :> uv) @@ (<<v, u>> :> vu) @@ t.edges]

Cut(t, u, v) ==
  LET uv == t.edges[<<u, v>>]
      vu == t.edges[<<v, u>>]
      uLeft == t.links[uv].prev[1]
      vLeft == t.links[vu].prev[1]
      uvs == Split(t.links, uv)
      vus == Split(uvs.links, vu)
      cleared == Split(Split(vus.links, uLeft).links, vLeft).links
  IN [links |-> Join(Join(cleared, uLeft, vus.right), vLeft, uvs.right),
      pool |-> t.pool \o <<uv, vu>>,
      edges |-> Restrict(t.edges, DOMAIN t.edges \ {<<u, v>>, <<v, u>>})]
====
