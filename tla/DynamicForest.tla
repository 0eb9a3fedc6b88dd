---- MODULE DynamicForest ----
(***************************************************************************)
(* What a dynamic-trees structure promises (euler_tour_tree.hpp): it keeps *)
(* a forest; edges are added that close no cycle, edges that are present   *)
(* are removed, and between operations it knows which vertices are         *)
(* connected.  Nobody asks while an operation runs, and it ends.           *)
(***************************************************************************)
EXTENDS Integers, FiniteSets

CONSTANTS Vertices, Edges   \* an edge is a set of two vertices

VARIABLES graph,  \* the edges of the forest
          trees   \* the vertex sets of its trees; {} while an operation runs

vars == <<graph, trees>>

(* The parts of the vertices that are closed under the edges and have no   *)
(* smaller such part within them.                                          *)
Closed(G, S) == \A e \in G : e \subseteq S \/ e \cap S = {}
Trees(G) ==
  {S \in (SUBSET Vertices) \ {{}} :
     /\ Closed(G, S)
     /\ \A T \in (SUBSET S) \ {{}, S} : ~Closed(G, T)}

(* As many edges as vertices less trees: no edge closes a cycle.           *)
IsForest(G) == Cardinality(G) + Cardinality(Trees(G)) = Cardinality(Vertices)

Init == graph = {} /\ trees = {{v} : v \in Vertices}

Change ==
  /\ graph' \in SUBSET Edges
  /\ graph' # graph
  /\ \/ graph' \subseteq graph
     \/ graph \subseteq graph' /\ IsForest(graph')

Begin == trees # {} /\ Change /\ trees' = {}

End == trees = {} /\ trees' # {} /\ trees' = Trees(graph) /\ UNCHANGED graph

(* An operation that nothing can be observed in the middle of.             *)
Whole == trees # {} /\ Change /\ trees' = Trees(graph')

Next == Begin \/ End \/ Whole

Spec == Init /\ [][Next]_vars /\ []<>(trees # {})
====
