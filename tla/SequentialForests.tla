---- MODULE SequentialForests ----
(***************************************************************************)
(* The sequential structures that the benchmarks compare the parallel ones *)
(* with: a link-cut tree, Euler tour trees over splay trees and over skip  *)
(* lists, and the augmented skip list, whose lists are a forest of paths.  *)
(* They have the same interface, and a batch is what its operations do one *)
(* after another.                                                          *)
(***************************************************************************)
EXTENDS Integers, Sequences, FiniteSets

CONSTANTS
  NumVertices,
  Height,      \* the heights of the skip list's elements
  Null,
  Links,       \* the batches of edges a caller may ask to link
  Cuts,        \* and to cut
  Questions,   \* the pairs of vertices it may ask about
  MaxChanges   \* bound: batches of links and cuts, of each structure

Vertices == 1 .. NumVertices

LinkCut == INSTANCE LinkCutTree
SplayETT == INSTANCE SplayTreeETT
SkipETT == INSTANCE SkipListETT
List == INSTANCE SequentialAugmentedList WITH Elements <- Vertices

VARIABLES
  structure,  \* which of the four it is
  tree,       \* its nodes
  forest,     \* the edges the caller has linked and not cut
  changes     \* how many batches of links and cuts there were

vars == <<structure, tree, forest, changes>>

Init ==
  /\ structure \in {"link-cut", "splay", "skip list", "list"}
  /\ tree = CASE structure = "link-cut" -> LinkCut!NewTree
              [] structure = "splay" -> SplayETT!Empty
              [] structure = "skip list" -> SkipETT!Empty
              [] structure = "list" -> List!Empty
  /\ forest = {}
  /\ changes = 0

Ask(t, u, v) ==
  CASE structure = "link-cut" -> LinkCut!Connected(t, u, v)
    [] structure = "splay" -> SplayETT!IsConnected(t, u, v)
    [] structure = "skip list" -> SkipETT!IsConnected(t, u, v)
    [] structure = "list" ->
         [tree |-> t,
          answer |-> List!FindRepresentative(t, u) = List!FindRepresentative(t, v)]

Link(t, u, v) ==
  CASE structure = "link-cut" -> LinkCut!Link(t, u, v)
    [] structure = "splay" -> SplayETT!Link(t, u, v)
    [] structure = "skip list" -> SkipETT!Link(t, u, v)
    [] structure = "list" -> List!JoinOne(t, u, v)

Cut(t, u, v, uvFirst) ==
  CASE structure = "link-cut" -> LinkCut!Cut(t, u, v)
    [] structure = "splay" -> SplayETT!Cut(t, u, v, uvFirst)
    [] structure = "skip list" -> SkipETT!Cut(t, u, v)
    [] structure = "list" -> List!SplitOne(t, u)

RECURSIVE LinkAll(_, _)
LinkAll(t, links) ==
  IF links = <<>> THEN t
  ELSE LinkAll(Link(t, links[1][1], links[1][2]), Tail(links))

RECURSIVE CutAll(_, _, _)
CutAll(t, cuts, uvFirst) ==
  IF cuts = <<>> THEN t
  ELSE CutAll(Cut(t, cuts[1][1], cuts[1][2], uvFirst), Tail(cuts), uvFirst)

(* The caller's side.                                                      *)
Edge(e) == {e[1], e[2]}
EdgeSet(batch) == {Edge(batch[i]) : i \in DOMAIN batch}

Caller ==
  INSTANCE DynamicForest WITH
    Edges <- {Edge(e) : e \in Vertices \X Vertices},
    graph <- forest,
    trees <- {}

(* A list is joined from its last element to the first of another, and     *)
(* split after an element that has a successor, which the cut names.       *)
Joinable(links) ==
  structure = "list" =>
    /\ \A i \in DOMAIN links :
         tree[links[i][1]].next[1] = Null /\ tree[links[i][2]].prev[1] = Null
    /\ \A i, j \in DOMAIN links :
         i # j => links[i][1] # links[j][1] /\ links[i][2] # links[j][2]
Splittable(cuts) ==
  structure = "list" =>
    \A i \in DOMAIN cuts : tree[cuts[i][1]].next[1] = cuts[i][2]

(* Nothing is linked that closes a cycle and nothing cut that is not there.*)
BatchLink ==
  /\ changes < MaxChanges[structure]
  /\ \E links \in Links :
       /\ Joinable(links)
       /\ EdgeSet(links) \cap forest = {}
       /\ Caller!IsForest(forest \cup EdgeSet(links))
       /\ tree' = LinkAll(tree, links)
       /\ forest' = forest \cup EdgeSet(links)
  /\ changes' = changes + 1
  /\ UNCHANGED structure

Orders == IF structure = "splay" THEN BOOLEAN ELSE {TRUE}
BatchCut ==
  /\ changes < MaxChanges[structure]
  /\ \E cuts \in Cuts, uvFirst \in Orders :
       /\ EdgeSet(cuts) \subseteq forest
       /\ Splittable(cuts)
       /\ tree' = CutAll(tree, cuts, uvFirst)
       /\ forest' = forest \ EdgeSet(cuts)
  /\ changes' = changes + 1
  /\ UNCHANGED structure

(* A question changes the shape of a splay tree and of a link-cut tree.    *)
BatchConnected ==
  /\ \E q \in Questions : tree' = Ask(tree, q[1], q[2]).tree
  /\ UNCHANGED <<structure, forest, changes>>

Next == BatchLink \/ BatchCut \/ BatchConnected

Spec == Init /\ [][Next]_vars

(* After any batches and questions, two vertices are answered to be        *)
(* connected exactly when the edges linked and not cut connect them, and   *)
(* the size a list answers (GetSum) is that of its path: the rotations of  *)
(* the splay trees, the put-off reversals, the order in which tours are    *)
(* opened and closed, reused elements and updated sums lose nothing.       *)
AnswersAsCaller ==
  LET Trees == Caller!Trees(forest)
  IN /\ \A v \in Vertices : \A u \in 1 .. v - 1 :
          Ask(tree, u, v).answer <=> \E S \in Trees : {u, v} \subseteq S
     /\ structure = "list" =>
          \A S \in Trees : \A v \in S : List!GetSum(tree, v) = Cardinality(S)
====
