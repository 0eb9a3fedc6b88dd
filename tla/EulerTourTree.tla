---- MODULE EulerTourTree ----
(***************************************************************************)
(* The batch-parallel Euler tour tree (euler_tour_tree.cpp).               *)
(*                                                                         *)
(* The tour of a tree is a cyclic sequence of the loop (v, v) of each of   *)
(* its vertices and of both directions of each of its edges.  The          *)
(* sequences are the lists of ParallelSkipList, seen at level 0: the       *)
(* pointers GetNextElement and GetPreviousElement read.  What a Join or a  *)
(* Split does above level 0 is settled there.                              *)
(*                                                                         *)
(* An operation is a sequence of parallel_for loops.  In the loops whose   *)
(* iterations touch different elements an iteration is one step; in the    *)
(* loop of BatchCutRecurse that splits, iterations meet at the elements    *)
(* next to the cut edges, and there every read, CAS and buffered store is  *)
(* a step.                                                                 *)
(***************************************************************************)
EXTENDS Integers, FiniteSets, Sequences

CONSTANTS NumVertices, \* num_vertices_
          Sequential,  \* the longest batch that is worked off sequentially (75)
          Batches      \* the batches the caller may pass: sequences of edges

ASSUME SomeVertices == NumVertices \in Nat \ {0}
ASSUME SequentialLimit == Sequential \in Nat

Vertices == 1 .. NumVertices
Element == Vertices \X Vertices
Null == <<0, 0>>
Ref == Element \cup {Null}

Loop(u) == <<u, u>>
Loops == {Loop(u) : u \in Vertices}
Twin(uv) == <<uv[2], uv[1]>>
(* The key of an edge in the edge map.                                     *)
Key(uv) == IF uv[1] < uv[2] THEN uv ELSE Twin(uv)

ASSUME BatchesOfDistinctEdges ==
  \A b \in Batches :
    /\ b \in Seq(Element \ Loops)
    /\ \A i, j \in DOMAIN b : i # j => Key(b[i]) # Key(b[j])

VARIABLES
  next, prev,  \* the neighbours of every element at level 0
  live,        \* the elements of edges that are allocated
  edges,       \* the keys in the edge map
  mark,        \* the elements whose split_mark_ is true
  stage,       \* the loop that runs, or "idle"
  batch,       \* BatchLink: links_both_dirs; BatchCut: the cuts of this round
  todo,        \* the iterations of the loop that have not run
  successors,  \* split_successors
  ignored,     \* the cuts left for the next round
  targets,     \* join_targets: for every iteration, its joins
  cutter,      \* the iterations of the loop that splits
  forest       \* the edges the caller has asked for

lists == <<next, prev>>
memory == <<live, edges, mark>>
scratch == <<successors, ignored, targets>>
vars == <<lists, memory, stage, batch, todo, scratch, cutter, forest>>

Cutter == [pc : {"uv", "vu", "uvPrev", "uvCut", "vuPrev", "vuCut", "done"},
           predecessor : Ref,
           pending : Ref]   \* the element whose prev it is about to clear

TypeOK ==
  /\ next \in [Element -> Ref]
  /\ prev \in [Element -> Ref]
  /\ live \in SUBSET (Element \ Loops)
  /\ edges \in SUBSET {e \in Element : e[1] < e[2]}
  /\ mark \in SUBSET (Element \ Loops)
  /\ stage \in {"idle", "linkSplit", "linkJoin", "cutTargets", "cutSplit", "cutJoin"}
  /\ batch \in Seq(Element \ Loops)
  /\ todo \in SUBSET DOMAIN batch
  /\ successors \in [DOMAIN batch -> Ref]
  /\ ignored \in SUBSET DOMAIN batch
  /\ targets \in [DOMAIN batch -> Seq(Ref \X Ref)]
  /\ cutter \in [DOMAIN batch -> Cutter]
  /\ forest \in SUBSET {e \in Element : e[1] < e[2]}

----
(* Trees *)

Neighbours(F, u) == {v \in Vertices : Key(<<u, v>>) \in F}

Tree(F, u) ==
  LET reach[k \in 0 .. NumVertices] ==
        IF k = 0 THEN {u}
        ELSE UNION {{v} \cup Neighbours(F, v) : v \in reach[k - 1]}
  IN reach[NumVertices]

(* The edges of b can be added to F one after the other without a cycle.   *)
Acyclic(F, b) ==
  \A i \in DOMAIN b :
    b[i][2] \notin Tree(F \cup {Key(b[j]) : j \in 1 .. i - 1}, b[i][1])

Keys(b) == {Key(b[i]) : i \in DOMAIN b}

----
(* Sequences: Join and Split as ParallelSkipList has them at level 0.      *)

Split(s, x) ==
  LET n == s.next[x] IN
  IF n = Null THEN s
  ELSE [next |-> [s.next EXCEPT ![x] = Null],
        prev |-> [s.prev EXCEPT ![n] = Null]]

Join(s, x, y) ==
  IF x = Null \/ y = Null \/ s.next[x] # Null THEN s
  ELSE [next |-> [s.next EXCEPT ![x] = y],
        prev |-> [s.prev EXCEPT ![y] = IF @ = Null THEN x ELSE @]]

JoinAll(s, joins) ==
  LET joined[k \in 0 .. Len(joins)] ==
        IF k = 0 THEN s ELSE Join(joined[k - 1], joins[k][1], joins[k][2])
  IN joined[Len(joins)]

Sequences == [next |-> next, prev |-> prev]

SetSequences(s) == next' = s.next /\ prev' = s.prev

(* The constructor of the elements of an edge.                             *)
Fresh(s, uv) ==
  [next |-> [s.next EXCEPT ![uv] = Null, ![Twin(uv)] = Null],
   prev |-> [s.prev EXCEPT ![uv] = Null, ![Twin(uv)] = Null]]

Arcs(b) == UNION {{b[i], Twin(b[i])} : i \in DOMAIN b}

----
(* Link and Cut, and the batches that are worked off sequentially          *)

Linked(s, uv) ==
  LET u == Loop(uv[1])
      v == Loop(uv[2])
      s0 == Fresh(s, uv)
      u_right == s0.next[u]
      s1 == Split(s0, u)
      v_right == s1.next[v]
  IN JoinAll(Split(s1, v),
       << <<u, uv>>, <<uv, v_right>>, <<v, Twin(uv)>>, <<Twin(uv), u_right>> >>)

CutOff(s, uv) ==
  LET vu == Twin(uv)
      u_left == s.prev[uv]
      v_left == s.prev[vu]
      v_right == s.next[uv]
      s1 == Split(s, uv)
      u_right == s1.next[vu]
      s2 == Split(Split(Split(s1, vu), u_left), v_left)
  IN JoinAll(s2, << <<u_left, u_right>>, <<v_left, v_right>> >>)

LinkAll(s, b) ==
  LET linked[k \in 0 .. Len(b)] == IF k = 0 THEN s ELSE Linked(linked[k - 1], b[k])
  IN linked[Len(b)]

CutAll(s, b) ==
  LET cut[k \in 0 .. Len(b)] == IF k = 0 THEN s ELSE CutOff(cut[k - 1], b[k])
  IN cut[Len(b)]

Rest ==
  /\ stage' = "idle"
  /\ batch' = <<>>
  /\ todo' = {}
  /\ successors' = <<>>
  /\ ignored' = {}
  /\ targets' = <<>>
  /\ cutter' = <<>>

LinkSequential(b) ==
  /\ stage = "idle"
  /\ Len(b) <= Sequential
  /\ Acyclic(forest, b)
  /\ forest' = forest \cup Keys(b)
  /\ SetSequences(LinkAll(Sequences, b))
  /\ live' = live \cup Arcs(b)
  /\ edges' = edges \cup Keys(b)
  /\ mark' = mark \ Arcs(b)
  /\ Rest

CutNow(b) ==
  /\ SetSequences(CutAll(Sequences, b))
  /\ live' = live \ Arcs(b)
  /\ edges' = edges \ Keys(b)
  /\ UNCHANGED mark

CutSequential(b) ==
  /\ stage = "idle"
  /\ Len(b) <= Sequential
  /\ Keys(b) \subseteq forest
  /\ forest' = forest \ Keys(b)
  /\ CutNow(b)
  /\ Rest

----
(* BatchLink *)

(* links_both_dirs: both directions of every link, sorted by first vertex. *)
Leaving(b, u) ==
  LET leaving[k \in 0 .. Len(b)] ==
        IF k = 0 THEN <<>>
        ELSE IF b[k][1] = u THEN Append(leaving[k - 1], b[k])
        ELSE IF b[k][2] = u THEN Append(leaving[k - 1], Twin(b[k]))
        ELSE leaving[k - 1]
  IN leaving[Len(b)]

BothDirections(b) ==
  LET sorted[u \in 0 .. NumVertices] ==
        IF u = 0 THEN <<>> ELSE sorted[u - 1] \o Leaving(b, u)
  IN sorted[NumVertices]

(* An operation on the batch b begins with the loop `first`.               *)
Begin(first, b, left_out) ==
  /\ stage' = first
  /\ batch' = b
  /\ todo' = DOMAIN b
  /\ successors' = [i \in DOMAIN b |-> Null]
  /\ ignored' = left_out
  /\ targets' = [i \in DOMAIN b |-> <<>>]
  /\ cutter' = [i \in DOMAIN b |->
                  [pc |-> "uv", predecessor |-> Null, pending |-> Null]]

BatchLink(b) ==
  /\ stage = "idle"
  /\ Len(b) > Sequential
  /\ Acyclic(forest, b)
  /\ forest' = forest \cup Keys(b)
  /\ Begin("linkSplit", BothDirections(b), {})
  /\ UNCHANGED <<lists, memory>>

FirstOfVertex(i) == i = 1 \/ batch[i - 1][1] # batch[i][1]
LastOfVertex(i) == i = Len(batch) \/ batch[i + 1][1] # batch[i][1]

(* Mistake: the edge is inserted by the direction with the larger vertex   *)
(* first.                                                                  *)
LinkSplitUnordered(i) ==
  LET uv == batch[i]
      u == Loop(uv[1])
      split == IF LastOfVertex(i) THEN Split(Sequences, u) ELSE Sequences
      new == IF uv # Key(uv) THEN {uv, Twin(uv)} ELSE {}
  IN
  /\ stage = "linkSplit"
  /\ i \in todo
  /\ successors' = [successors EXCEPT ![i] =
                      IF LastOfVertex(i) THEN next[u] ELSE Null]
  /\ SetSequences(IF new = {} THEN split ELSE Fresh(split, uv))
  /\ live' = live \cup new
  /\ edges' = edges \cup (IF new = {} THEN {} ELSE {uv})
  /\ mark' = mark \ new
  /\ todo' = todo \ {i}
  /\ UNCHANGED <<stage, batch, ignored, targets, cutter, forest>>

(* One iteration: the split of the vertex, in the last iteration of its    *)
(* group, and the elements of the edge, in one of its two iterations.      *)
LinkSplit(i) ==
  LET uv == batch[i]
      u == Loop(uv[1])
      split == IF LastOfVertex(i) THEN Split(Sequences, u) ELSE Sequences
      new == IF uv = Key(uv) THEN {uv, Twin(uv)} ELSE {}
  IN
  /\ stage = "linkSplit"
  /\ i \in todo
  /\ successors' = [successors EXCEPT ![i] =
                      IF LastOfVertex(i) THEN next[u] ELSE Null]
  /\ SetSequences(IF new = {} THEN split ELSE Fresh(split, uv))
  /\ live' = live \cup new
  /\ edges' = edges \cup (IF new = {} THEN {} ELSE {uv})
  /\ mark' = mark \ new
  /\ todo' = todo \ {i}
  /\ UNCHANGED <<stage, batch, ignored, targets, cutter, forest>>

StartLinkJoin ==
  /\ stage = "linkSplit"
  /\ todo = {}
  /\ stage' = "linkJoin"
  /\ todo' = DOMAIN batch
  /\ UNCHANGED <<lists, memory, batch, scratch, cutter, forest>>

(* Mistake: the tour goes on from (u, v), not from (v, u).                 *)
LinkJoinsUntwinned(i) ==
  LET uv == batch[i] IN
  (IF FirstOfVertex(i) THEN << <<Loop(uv[1]), uv>> >> ELSE <<>>)
    \o << <<uv, IF LastOfVertex(i) THEN successors[i] ELSE batch[i + 1]>> >>

(* The joins of iteration i.                                               *)
LinkJoins(i) ==
  LET uv == batch[i] IN
  (IF FirstOfVertex(i) THEN << <<Loop(uv[1]), uv>> >> ELSE <<>>)
    \o << <<Twin(uv), IF LastOfVertex(i) THEN successors[i] ELSE batch[i + 1]>> >>

LinkJoin(i) ==
  /\ stage = "linkJoin"
  /\ i \in todo
  /\ SetSequences(JoinAll(Sequences, LinkJoins(i)))
  /\ todo' = todo \ {i}
  /\ UNCHANGED <<memory, stage, batch, scratch, cutter, forest>>

EndLink ==
  /\ stage = "linkJoin"
  /\ todo = {}
  /\ Rest
  /\ UNCHANGED <<lists, memory, forest>>

----
(* BatchCut *)

(* Mistake: every cut is marked, the ignored ones too.                     *)
RoundMarkingAll(b) ==
  \E left_out \in SUBSET DOMAIN b :
    /\ Begin("cutTargets", b, left_out)
    /\ mark' = mark \cup Arcs(b)

(* A round of BatchCutRecurse: the cuts that are not ignored are marked.   *)
Round(b) ==
  \E left_out \in SUBSET DOMAIN b :
    /\ Begin("cutTargets", b, left_out)
    /\ mark' = mark \cup UNION {{b[i], Twin(b[i])} : i \in DOMAIN b \ left_out}

BatchCut(b) ==
  /\ stage = "idle"
  /\ Len(b) > Sequential
  /\ Keys(b) \subseteq forest
  /\ forest' = forest \ Keys(b)
  /\ Round(b)
  /\ UNCHANGED <<lists, live, edges>>

Chosen == DOMAIN batch \ ignored

(* Mistake: the walk goes past the cut edge, not past its twin.            *)
RightTargetUntwinned(e) ==
  LET walk[k \in 0 .. Cardinality(mark)] ==
        IF k = 0 THEN e
        ELSE LET at == walk[k - 1]
             IN IF at \in mark THEN next[at] ELSE at
  IN walk[Cardinality(mark)]

(* From e past the cut edges, each time to the element after the twin.     *)
RightTarget(e) ==
  LET walk[k \in 0 .. Cardinality(mark)] ==
        IF k = 0 THEN e
        ELSE LET at == walk[k - 1]
             IN IF at \in mark THEN next[Twin(at)] ELSE at
  IN walk[Cardinality(mark)]

(* Mistake: an element that is cut itself is joined to.                    *)
TargetUnmarked(uv) == << <<prev[uv], RightTarget(next[Twin(uv)])>> >>

(* What is to follow the element before uv, if that one stays.             *)
Target(uv) ==
  IF prev[uv] \in mark THEN <<>>
  ELSE << <<prev[uv], RightTarget(next[Twin(uv)])>> >>

CutTargets ==
  /\ stage = "cutTargets"
  /\ targets' = [i \in DOMAIN batch |->
       IF i \in ignored THEN <<>> ELSE Target(batch[i]) \o Target(Twin(batch[i]))]
  /\ stage' = "cutSplit"
  /\ todo' = Chosen
  /\ UNCHANGED <<lists, memory, batch, successors, ignored, cutter, forest>>

At(i, from) == stage = "cutSplit" /\ i \in todo /\ cutter[i].pc = from

(* x->Split(): the CAS of next; the store that clears prev is pending.     *)
(* The CAS drains the store buffer; there is none when next is null.  The  *)
(* read and the CAS are one step: nobody joins in this loop, so a CAS that *)
(* fails has met the null that the read would have met.                    *)
CutNext(i, x, to) ==
  /\ \/ /\ next[x] # Null
        /\ cutter[i].pending = Null
        /\ next' = [next EXCEPT ![x] = Null]
        /\ cutter' = [cutter EXCEPT ![i].pc = to, ![i].pending = next[x]]
     \/ /\ next[x] = Null
        /\ cutter' = [cutter EXCEPT ![i].pc = to]
        /\ UNCHANGED next
  /\ UNCHANGED <<prev, memory, stage, batch, todo, scratch, forest>>

(* The store becomes visible.                                              *)
ClearPrev(i) ==
  /\ stage = "cutSplit"
  /\ cutter[i].pending # Null
  /\ prev' = [prev EXCEPT ![cutter[i].pending] = Null]
  /\ cutter' = [cutter EXCEPT ![i].pending = Null]
  /\ UNCHANGED <<next, memory, stage, batch, todo, scratch, forest>>

(* e->GetPreviousElement(), which is split too unless it is null.          *)
ReadPrevious(i, e, found, none) ==
  LET p == IF cutter[i].pending = e THEN Null ELSE prev[e] IN
  /\ cutter' = [cutter EXCEPT ![i].pc = IF p = Null THEN none ELSE found,
                              ![i].predecessor = p]
  /\ UNCHANGED <<lists, memory, stage, batch, todo, scratch, forest>>

SplitEdge(i) == At(i, "uv") /\ CutNext(i, batch[i], "vu")
SplitTwin(i) == At(i, "vu") /\ CutNext(i, Twin(batch[i]), "uvPrev")

ReadEdgePrevious(i) ==
  At(i, "uvPrev") /\ ReadPrevious(i, batch[i], "uvCut", "vuPrev")
(* Mistake: the element before the predecessor is split.                   *)
SplitEdgePreviousTooFar(i) ==
  LET p == cutter[i].predecessor IN
  At(i, "uvCut") /\ CutNext(i, IF prev[p] = Null THEN p ELSE prev[p], "vuPrev")
SplitEdgePrevious(i) ==
  At(i, "uvCut") /\ CutNext(i, cutter[i].predecessor, "vuPrev")

(* Mistake: the predecessor of the twin is not looked at.                  *)
ReadTwinPreviousNever(i) ==
  /\ At(i, "vuPrev")
  /\ cutter' = [cutter EXCEPT ![i].pc = "done"]
  /\ UNCHANGED <<lists, memory, stage, batch, todo, scratch, forest>>
ReadTwinPrevious(i) ==
  At(i, "vuPrev") /\ ReadPrevious(i, Twin(batch[i]), "vuCut", "done")
SplitTwinPrevious(i) ==
  At(i, "vuCut") /\ CutNext(i, cutter[i].predecessor, "done")

EndIteration(i) ==
  /\ At(i, "done")
  /\ cutter[i].pending = Null
  /\ todo' = todo \ {i}
  /\ UNCHANGED <<lists, memory, stage, batch, scratch, cutter, forest>>

StartCutJoin ==
  /\ stage = "cutSplit"
  /\ todo = {}
  /\ stage' = "cutJoin"
  /\ todo' = Chosen
  /\ UNCHANGED <<lists, memory, batch, scratch, cutter, forest>>

(* The elements of the edge are freed, then its joins are made.            *)
CutJoin(i) ==
  /\ stage = "cutJoin"
  /\ i \in todo
  /\ live' = live \ {batch[i], Twin(batch[i])}
  /\ edges' = edges \ {Key(batch[i])}
  /\ SetSequences(JoinAll(Sequences, targets[i]))
  /\ todo' = todo \ {i}
  /\ UNCHANGED <<mark, stage, batch, scratch, cutter, forest>>

(* next_cuts: the ignored cuts, in their order.                            *)
NextCuts ==
  LET left[k \in 0 .. Len(batch)] ==
        IF k = 0 THEN <<>>
        ELSE IF k \in ignored THEN Append(left[k - 1], batch[k]) ELSE left[k - 1]
  IN left[Len(batch)]

CutRest ==
  /\ stage = "cutJoin"
  /\ todo = {}
  /\ Len(NextCuts) <= Sequential
  /\ CutNow(NextCuts)
  /\ Rest
  /\ UNCHANGED forest

CutAgain ==
  /\ stage = "cutJoin"
  /\ todo = {}
  /\ Len(NextCuts) > Sequential
  /\ Round(NextCuts)
  /\ UNCHANGED <<lists, live, edges, forest>>

----

Init ==
  /\ next = [e \in Element |-> IF e \in Loops THEN e ELSE Null]
  /\ prev = [e \in Element |-> IF e \in Loops THEN e ELSE Null]
  /\ live = {}
  /\ edges = {}
  /\ mark = {}
  /\ stage = "idle"
  /\ batch = <<>>
  /\ todo = {}
  /\ successors = <<>>
  /\ ignored = {}
  /\ targets = <<>>
  /\ cutter = <<>>
  /\ forest = {}

Iteration(i) ==
  \/ LinkSplit(i) \/ LinkJoin(i)
  \/ SplitEdge(i) \/ SplitTwin(i)
  \/ ReadEdgePrevious(i) \/ SplitEdgePrevious(i)
  \/ ReadTwinPrevious(i) \/ SplitTwinPrevious(i)
  \/ ClearPrev(i) \/ EndIteration(i)
  \/ CutJoin(i)

Barrier ==
  StartLinkJoin \/ EndLink \/ CutTargets \/ StartCutJoin \/ CutRest \/ CutAgain

Call ==
  \E b \in Batches :
    LinkSequential(b) \/ CutSequential(b) \/ BatchLink(b) \/ BatchCut(b)

Next == (\E i \in DOMAIN batch : Iteration(i)) \/ Barrier \/ Call

Spec == Init /\ [][Next]_vars

(* The workers go on with the iterations there are.  Each cut is ignored   *)
(* with probability 1/100, independently in each round: a recursion that   *)
(* goes on and on does not ignore all of its cuts each time.               *)
FairSpec ==
  /\ Spec
  /\ WF_vars(\E i \in DOMAIN batch : Iteration(i))
  /\ WF_vars(Barrier)
  /\ SF_vars(CutAgain /\ ignored' # DOMAIN batch')

----

(* The elements of the tour that the loop of u is in.                      *)
Tour(u) ==
  LET reach[k \in 0 .. 3 * NumVertices] ==
        IF k = 0 THEN {Loop(u)}
        ELSE UNION {IF e = Null THEN {Null} ELSE {e, next[e]} : e \in reach[k - 1]}
  IN reach[3 * NumVertices]

(* One list has one representative, and different lists have different     *)
(* ones (FoundRepresentative of ParallelSkipList).                         *)
IsConnected(u, v) == Loop(v) \in Tour(u)

(* Between operations the lists are Euler tours of exactly the trees of    *)
(* the forest that the caller has built: each is one cycle over the loops  *)
(* and both directions of the edges of one tree, and each element ends     *)
(* where the next one starts.  Hence IsConnected answers for the forest.   *)
ToursAreTrees ==
  stage = "idle" =>
    \A u \in Vertices :
      LET tree == Tree(forest, u) IN
      /\ Tour(u) = {e \in Element : /\ e[1] \in tree
                                    /\ e \in Loops \/ Key(e) \in forest}
      /\ \A e \in Tour(u) : prev[next[e]] = e /\ next[e][1] = e[2]

(* The elements that BatchCutRecurse has yet to free in this round.        *)
Doomed ==
  IF stage = "cutJoin" THEN UNION {{batch[i], Twin(batch[i])} : i \in todo}
  ELSE {}

Staying == (Loops \cup live) \ Doomed

(* When the joins of a loop begin, and until its last one, the joins to    *)
(* be made pair up exactly the open ends of the lists: every last element  *)
(* is the left and every first element the right of one of them.  So the   *)
(* contract of Join holds for all of them at once, whatever the order of   *)
(* the iterations, and no list is left open.                               *)
JoinsMatchEnds ==
  stage \in {"linkJoin", "cutJoin"} =>
    LET joins == [i \in todo |-> IF stage = "linkJoin" THEN LinkJoins(i) ELSE targets[i]]
        all == UNION {{<<i, k>> : k \in DOMAIN joins[i]} : i \in todo}
        left == [j \in all |-> joins[j[1]][j[2]][1]]
        right == [j \in all |-> joins[j[1]][j[2]][2]]
    IN /\ \A j, k \in all : j # k => left[j] # left[k] /\ right[j] # right[k]
       /\ {left[j] : j \in all} = {e \in Staying : next[e] = Null}
       /\ {right[j] : j \in all} = {e \in Staying : prev[e] = Null}

(* No element is freed while a neighbour can still be reached through it:  *)
(* from the first free on, nothing that stays leads to an element that is  *)
(* freed or about to be.                                                   *)
FreedUnreachable ==
  stage \in {"idle", "cutJoin"} =>
    \A e \in Staying : {next[e], prev[e]} \subseteq Staying \cup {Null}

(* BatchCut opens the tours at the cut edges and nowhere else, although an *)
(* iteration takes the predecessor of its edge from a list that the others *)
(* are taking apart.                                                       *)
CutsOnlyMarked ==
  [][stage = "cutSplit" =>
       \A e \in Element : next'[e] # next[e] => e \in mark \/ next[e] \in mark]_vars

(* The marks of a round are those of the edges it cuts: an edge left for   *)
(* the next round is not mistaken for a cut one, and no mark outlives its  *)
(* edge.                                                                   *)
MarksAreCuts ==
  mark \cap live =
    IF stage \in {"cutTargets", "cutSplit"}
    THEN UNION {{batch[i], Twin(batch[i])} : i \in Chosen}
    ELSE Doomed

(* To its caller the structure is the forest of DynamicForest: when an     *)
(* operation ends the vertices in one tour are those of one tree, and      *)
(* every operation ends; the walks to the join targets and the recursion   *)
(* on the ignored cuts do not go on for ever.                              *)
Forest ==
  INSTANCE DynamicForest WITH
    Edges <- {{e[1], e[2]} : e \in Element \ Loops},
    graph <- {{e[1], e[2]} : e \in forest},
    trees <- IF stage = "idle"
             THEN {{v \in Vertices : IsConnected(u, v)} : u \in Vertices}
             ELSE {}

Implements == Forest!Spec
====
