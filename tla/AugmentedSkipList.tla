---- MODULE AugmentedSkipList ----
(***************************************************************************)
(* The batch-parallel skip list with sums (augmented_skip_list.cpp).       *)
(*                                                                         *)
(* The joins of a BatchJoin and the splits of a BatchSplit are complete    *)
(* before any sum is touched (a barrier lies between), and at a barrier    *)
(* the links are those of SkipListGeometry (ParallelSkipList checks it).   *)
(* So a batch changes `bonds` in one step, and what interleaves here are   *)
(* the workers that walk up the list, mark the nodes to update and race    *)
(* for them.  After a second barrier each topmost node is updated by one   *)
(* worker; the nodes below different topmost nodes are disjoint, and such  *)
(* an update is one step.                                                  *)
(***************************************************************************)
EXTENDS SkipListGeometry, Sequences, FiniteSetsExt

CONSTANTS Threads,   \* the workers
          Values,    \* the values an element may be given
          MaxBatch,  \* the longest batch
          Setups     \* what the run starts from: [shape, crew]

NA == -1

ASSUME ThreadsAreFinite == IsFiniteSet(Threads)
ASSUME BatchesAreBounded == MaxBatch \in Nat \ {0}
ASSUME SetupsAreShapes == \A s \in Setups : s.shape \in Shapes /\ s.crew \in Nat \ {0}

VARIABLES
  shape, bonds, \* the arrangement, and what is joined in it
  crew,         \* how many workers the runtime gives the program
  value,        \* values_[level] of every element
  mark,         \* update_level_ of every element
  stage,        \* the parallel_for that runs, or "idle"
  batch,        \* the elements of the batch
  todo,         \* the iterations of that parallel_for not yet begun
  tops,         \* top_nodes
  walker        \* the iteration each worker is in

list == <<shape, bonds, crew>>
vars == <<list, value, mark, stage, batch, todo, tops, walker>>

height == shape.height
next == LinksOf(shape, bonds)
prev == BackLinksOf(shape, bonds)

Rest == [pc |-> "rest", item |-> 0, curr |-> Null, level |-> 0, seen |-> NA]

Walker == [pc : {"rest", "read", "claim", "lower"},
           item : 0 .. MaxBatch,
           curr : Ref,
           level : Level,
           seen : Level \cup {NA}]   \* curr_update_level

(* A batch, as the pool of iterations sees it: the order does not matter.  *)
Batches ==
  {b \in UNION {[1 .. n -> Elements] : n \in 1 .. MaxBatch} :
     \A i, j \in DOMAIN b : i < j => b[i] <= b[j]}

Distinct(b) == \A i, j \in DOMAIN b : i # j => b[i] # b[j]
Of(b) == {b[i] : i \in DOMAIN b}

TypeOK ==
  /\ bonds \in SUBSET Elements
  /\ value \in [Level -> [Elements -> Nat]]
  /\ mark \in [Elements -> Level \cup {NA}]
  /\ stage \in {"idle", "walk", "down", "split"}
  /\ batch \in Batches \cup {<<>>}
  /\ todo \in SUBSET DOMAIN batch
  /\ tops \in [DOMAIN batch -> Ref]
  /\ walker \in [Threads -> Walker]

AllRest == todo = {} /\ \A t \in Threads : walker[t] = Rest

----
(* BatchUpdate: walking up *)

Walk(b) ==
  /\ stage' = "walk"
  /\ batch' = b
  /\ todo' = DOMAIN b
  /\ tops' = [i \in DOMAIN b |-> Null]

(* BatchJoin: the joins, then BatchUpdate(join_lefts, nullptr).            *)
BatchJoin(b) ==
  /\ stage = "idle"
  /\ Distinct(b)
  /\ \A x \in Of(b) : x \notin bonds /\ shape.right[0][x] # Null
  /\ bonds' = bonds \cup Of(b)
  /\ Walk(b)
  /\ UNCHANGED <<shape, crew, value, mark, walker>>

(* BatchUpdate with new values, which are stored first.                    *)
BatchUpdate(b, new_values) ==
  /\ stage = "idle"
  /\ Distinct(b)
  /\ value' = [value EXCEPT ![0] =
       [x \in Elements |-> IF \E i \in DOMAIN b : b[i] = x
                           THEN new_values[CHOOSE i \in DOMAIN b : b[i] = x]
                           ELSE @[x]]]
  /\ Walk(b)
  /\ UNCHANGED <<list, mark, walker>>

Pick(t) ==
  /\ stage = "walk"
  /\ walker[t] = Rest
  /\ Cardinality({u \in Threads : walker[u] # Rest}) < crew
  /\ \E i \in todo :
       /\ todo' = todo \ {i}
       /\ walker' = [walker EXCEPT ![t] =
            [Rest EXCEPT !.pc = "read", !.item = i, !.curr = batch[i]]]
  /\ UNCHANGED <<list, value, mark, stage, batch, tops>>

ReadMark(t) ==
  /\ walker[t].pc = "read"
  /\ walker' = [walker EXCEPT ![t] =
       [@ EXCEPT !.pc = "claim", !.seen = mark[walker[t].curr]]]
  /\ UNCHANGED <<list, value, mark, stage, batch, todo, tops>>

LeftParent(x, l) == FirstTaller(height, prev[l], l, x)

(* Mistake: the walk goes on one level too high.                           *)
ClaimLevelUp(t) ==
  LET w == walker[t]
      parent == LeftParent(w.curr, height[w.curr] - 1)
  IN
  /\ w.pc = "claim"
  /\ w.seen = NA
  /\ mark[w.curr] = NA
  /\ mark' = [mark EXCEPT ![w.curr] = w.level]
  /\ IF parent = Null
     THEN /\ tops' = [tops EXCEPT ![w.item] = w.curr]
          /\ walker' = [walker EXCEPT ![t] = Rest]
     ELSE /\ walker' = [walker EXCEPT ![t] =
               [w EXCEPT !.pc = "read", !.curr = parent,
                         !.level = height[w.curr] + 1, !.seen = NA]]
          /\ UNCHANGED tops
  /\ UNCHANGED <<list, value, stage, batch, todo>>

(* Mistake: a plain store in place of the CAS of update_level_.            *)
ClaimStored(t) ==
  LET w == walker[t]
      parent == LeftParent(w.curr, height[w.curr] - 1)
  IN
  /\ w.pc = "claim"
  /\ w.seen = NA
  /\ mark' = [mark EXCEPT ![w.curr] = w.level]
  /\ IF parent = Null
     THEN /\ tops' = [tops EXCEPT ![w.item] = w.curr]
          /\ walker' = [walker EXCEPT ![t] = Rest]
     ELSE /\ walker' = [walker EXCEPT ![t] =
               [w EXCEPT !.pc = "read", !.curr = parent,
                         !.level = height[w.curr], !.seen = NA]]
          /\ UNCHANGED tops
  /\ UNCHANGED <<list, value, stage, batch, todo>>

(* The CAS of update_level_ succeeds, and the walk goes on or is at a node *)
(* without left parent.                                                    *)
Claim(t) ==
  LET w == walker[t]
      parent == LeftParent(w.curr, height[w.curr] - 1)
  IN
  /\ w.pc = "claim"
  /\ w.seen = NA
  /\ mark[w.curr] = NA
  /\ mark' = [mark EXCEPT ![w.curr] = w.level]
  /\ IF parent = Null
     THEN /\ tops' = [tops EXCEPT ![w.item] = w.curr]
          /\ walker' = [walker EXCEPT ![t] = Rest]
     ELSE /\ walker' = [walker EXCEPT ![t] =
               [w EXCEPT !.pc = "read", !.curr = parent,
                         !.level = height[w.curr], !.seen = NA]]
          /\ UNCHANGED tops
  /\ UNCHANGED <<list, value, stage, batch, todo>>

(* Mistake: a mark that is too high is left as it is.                      *)
LeaveUnlowered(t) ==
  LET w == walker[t] IN
  /\ w.pc = "claim"
  /\ w.seen # NA \/ mark[w.curr] # NA
  /\ walker' = [walker EXCEPT ![t] = Rest]
  /\ UNCHANGED <<list, value, mark, stage, batch, todo, tops>>

(* Another iteration has claimed the node.  What decides whether its mark  *)
(* is lowered is the mark that was read, not the one the CAS met.          *)
Leave(t) ==
  LET w == walker[t] IN
  /\ w.pc = "claim"
  /\ w.seen # NA \/ mark[w.curr] # NA
  /\ IF w.seen > w.level
     THEN walker' = [walker EXCEPT ![t] = [w EXCEPT !.pc = "lower"]]
     ELSE walker' = [walker EXCEPT ![t] = Rest]
  /\ UNCHANGED <<list, value, mark, stage, batch, todo, tops>>

(* writeMin: retried until the mark is no higher than the walk's level.    *)
Lower(t) ==
  LET w == walker[t] IN
  /\ w.pc = "lower"
  /\ mark' = [mark EXCEPT ![w.curr] = IF w.level < @ THEN w.level ELSE @]
  /\ walker' = [walker EXCEPT ![t] = Rest]
  /\ UNCHANGED <<list, value, stage, batch, todo, tops>>

----
(* BatchUpdate: updating top down *)

StartDown ==
  /\ stage = "walk"
  /\ AllRest
  /\ stage' = "down"
  /\ todo' = {i \in DOMAIN tops : tops[i] # Null}
  /\ UNCHANGED <<list, value, mark, batch, tops, walker>>

(* The nodes one level down that the node of x at level l sums up.         *)
Children(x, l) ==
  {c \in Elements : height[c] >= l /\ LeftParent(c, l - 1) = x}

(* The elements whose nodes at level l UpdateTopDown recomputes when it is *)
(* called on the topmost node of x.                                        *)
Visited(x) ==
  LET visited[l \in Level] ==
        IF l >= height[x] THEN {}
        ELSE IF l = height[x] - 1 THEN {x}
        ELSE UNION {{c \in Children(y, l + 1) :
                       /\ mark[c] < l + 1
                       /\ c = y \/ mark[c] # NA} : y \in visited[l + 1]}
  IN visited

Recomputed(visited) ==
  LET sums[l \in Level] ==
        IF l = 0 THEN value[0]
        ELSE [y \in Elements |->
               IF y \in visited[l]
               THEN MapThenSumSet(LAMBDA c : sums[l - 1][c], Children(y, l))
               ELSE value[l][y]]
  IN sums

UpdateTopDown(i) ==
  /\ stage = "down"
  /\ i \in todo
  /\ value' = [l \in Level |-> Recomputed(Visited(tops[i]))[l]]
  /\ mark' = [y \in Elements |->
                IF y \in Visited(tops[i])[height[y] - 1] THEN NA ELSE mark[y]]
  /\ todo' = todo \ {i}
  /\ UNCHANGED <<list, stage, batch, tops, walker>>

Finish ==
  /\ stage' = "idle"
  /\ batch' = <<>>
  /\ tops' = <<>>
  /\ todo' = {}

EndUpdate ==
  /\ stage = "down"
  /\ todo = {}
  /\ Finish
  /\ UNCHANGED <<list, value, mark, walker>>

----
(* BatchSplit *)

BatchSplit(b) ==
  /\ stage = "idle"
  /\ bonds' = bonds \ Of(b)
  /\ stage' = "split"
  /\ batch' = b
  /\ todo' = DOMAIN b
  /\ tops' = [i \in DOMAIN b |-> Null]
  /\ UNCHANGED <<shape, crew, value, mark, walker>>

(* The walk left and up from a split: every node that it passes on the     *)
(* right end of the list is given the sum of the elements after it.        *)
Suffixes(x) ==
  LET walk[k \in Nat] ==
        IF k = 0
        THEN [curr |-> x, level |-> 0, sum |-> value[0][x], value |-> value]
        ELSE LET w == walk[k - 1]
                 p == prev[w.level][w.curr]
             IN IF w.curr = Null THEN w
                ELSE IF w.level < height[w.curr] - 1
                THEN [w EXCEPT !.level = @ + 1,
                               !.value[w.level + 1][w.curr] = w.sum]
                ELSE [w EXCEPT !.curr = p,
                               !.sum = IF p = Null THEN @
                                       ELSE @ + w.value[w.level][p]]
  IN walk[(MaxHeight + 1) * Cardinality(Elements)].value

(* One iteration.  Only the first of several for one element proceeds.     *)
(* Different split elements end different lists by now, so the walks of    *)
(* two iterations share no node.                                           *)
UpdateSplit(i) ==
  LET x == batch[i] IN
  /\ stage = "split"
  /\ i \in todo
  /\ IF mark[x] = NA
     THEN /\ mark' = [mark EXCEPT ![x] = 0]
          /\ value' = Suffixes(x)
     ELSE UNCHANGED <<mark, value>>
  /\ todo' = todo \ {i}
  /\ UNCHANGED <<list, stage, batch, tops, walker>>

(* Mistake: the marks of the splits are not taken back.                    *)
EndSplitMarked ==
  /\ stage = "split"
  /\ todo = {}
  /\ Finish
  /\ UNCHANGED <<list, value, mark, walker>>

EndSplit ==
  /\ stage = "split"
  /\ todo = {}
  /\ mark' = [x \in Elements |-> IF x \in Of(batch) THEN NA ELSE mark[x]]
  /\ Finish
  /\ UNCHANGED <<list, value, walker>>

----

Init ==
  /\ \E s \in Setups : shape = s.shape /\ crew = s.crew
  /\ bonds = {}
  /\ value = [l \in Level |-> [x \in Elements |-> 1]]
  /\ mark = [x \in Elements |-> NA]
  /\ stage = "idle"
  /\ batch = <<>>
  /\ todo = {}
  /\ tops = <<>>
  /\ walker = [t \in Threads |-> Rest]

Work ==
  \/ \E t \in Threads : Pick(t) \/ ReadMark(t) \/ Claim(t) \/ Leave(t) \/ Lower(t)
  \/ StartDown
  \/ \E i \in DOMAIN batch : UpdateTopDown(i) \/ UpdateSplit(i)
  \/ EndUpdate
  \/ EndSplit

Call ==
  \E b \in Batches :
    \/ BatchJoin(b)
    \/ BatchSplit(b)
    \/ \E new_values \in [DOMAIN b -> Values] : BatchUpdate(b, new_values)

Next == Work \/ Call

Spec == Init /\ [][Next]_vars

(* A walk that read NA finds its node claimed for a higher level, and does *)
(* not lower the mark: the update will not come down to where the walk     *)
(* came from.  A mark of 1 is low enough for every walk, since no sum is   *)
(* computed at level 0.                                                    *)
MissesMark(t) ==
  LET w == walker[t] IN
  /\ Leave(t)
  /\ w.seen = NA
  /\ mark[w.curr] > w.level
  /\ mark[w.curr] > 1

NoMarkMissed == \A t \in Threads : ~MissesMark(t)

----
(* Queries *)

SumOver(S, l) == MapThenSumSet(LAMBDA x : value[l][x], S)

(* Mistake: the walk ends at the first element of the top level.           *)
SumLeftOnTop(x) ==
  LET back[c \in Elements, l \in -1 .. MaxHeight - 1] ==
        IF l < 0 \/ prev[l][c] = Null THEN 0
        ELSE value[l][prev[l][c]] + back[prev[l][c], l]
  IN back[x, height[x] - 1]

(* GetSum's walk back from the representative to the head of the list,     *)
(* going down a level whenever there is no previous element.               *)
SumLeftOf(x) ==
  LET back[c \in Elements, l \in -1 .. MaxHeight - 1] ==
        IF l < 0 THEN 0
        ELSE IF prev[l][c] = Null THEN back[c, l - 1]
        ELSE value[l][prev[l][c]] + back[prev[l][c], l]
  IN back[x, height[x] - 1]

GetSum(x) ==
  LET root == Representative(shape, bonds, x)
      level == height[root] - 1
      across == Reached(next[level], root)
      circular == \A y \in across : next[level][y] # Null
  IN SumOver(across, level) + IF circular THEN 0 ELSE SumLeftOf(root)

(* Mistake: the left end moves before its value is added.                  *)
SubsequenceSumLate(left, right) ==
  LET Min2(a, b) == IF a < b THEN a ELSE b
      walk[k \in Nat] ==
        IF k = 0 THEN [left |-> left, right |-> right, sum |-> value[0][right]]
        ELSE LET w == walk[k - 1]
                 level == Min2(height[w.left], height[w.right]) - 1
             IN IF w.left = w.right THEN w
                ELSE IF level = height[w.left] - 1
                THEN LET n == next[level][w.left]
                     IN [w EXCEPT !.left = n, !.sum = @ + value[level][n]]
                ELSE LET r == prev[level][w.right]
                     IN [w EXCEPT !.right = r, !.sum = @ + value[level][r]]
  IN walk[Cardinality(Elements)].sum

GetSubsequenceSum(left, right) ==
  LET Min2(a, b) == IF a < b THEN a ELSE b
      walk[k \in Nat] ==
        IF k = 0 THEN [left |-> left, right |-> right, sum |-> value[0][right]]
        ELSE LET w == walk[k - 1]
                 level == Min2(height[w.left], height[w.right]) - 1
             IN IF w.left = w.right THEN w
                ELSE IF level = height[w.left] - 1
                THEN [w EXCEPT !.left = next[level][w.left],
                               !.sum = @ + value[level][w.left]]
                ELSE LET r == prev[level][w.right]
                     IN [w EXCEPT !.right = r, !.sum = @ + value[level][r]]
  IN walk[Cardinality(Elements)].sum

----

(* The elements from x on that the node of x at level l stands for: those  *)
(* before the next element that reaches level l.                           *)
Covered(x, l) ==
  LET right == RightOf(shape, bonds)
      run[k \in Nat] ==
        IF k = 0 THEN {x}
        ELSE LET so_far == run[k - 1]
             IN so_far \cup
                  {y \in Elements : height[y] <= l /\ \E z \in so_far : right[z] = y}
  IN run[Cardinality(Elements)]

(* Between batches every node of every tower holds the sum of the values   *)
(* it stands for: a walk that loses the race for a shared ancestor still   *)
(* gets every level of it updated, and nobody updates a node too early.    *)
SumsExact ==
  stage = "idle" =>
    \A x \in Elements : \A l \in 0 .. height[x] - 1 :
      value[l][x] = SumOver(Covered(x, l), 0)

(* GetSum, asked of any element of a path or a ring, returns the sum of    *)
(* the whole list (augmented_skip_list.hpp: "Get result of applying the    *)
(* augmentation function over the whole list that the element lives in").  *)
GetSumOfList ==
  stage = "idle" =>
    \A x \in Elements : GetSum(x) = SumOver(ListOf(shape, bonds, x), 0)

(* The elements from x up to y.                                            *)
Between(x, y) ==
  LET right == RightOf(shape, bonds)
      run[k \in Nat] ==
        IF k = 0 THEN {x}
        ELSE LET so_far == run[k - 1]
             IN so_far \cup {z \in Elements : \E w \in so_far \ {y} : right[w] = z}
  IN run[Cardinality(Elements)]

(* GetSubsequenceSum returns the sum of the elements from left to right,   *)
(* both included, wherever their towers make its two ends move.            *)
SubsequenceSums ==
  stage = "idle" =>
    \A x \in Elements : \A y \in Reached(RightOf(shape, bonds), x) :
      GetSubsequenceSum(x, y) = SumOver(Between(x, y), 0)

(* Every mark of a batch is taken back before the batch ends, on every     *)
(* path: a mark left over would make a later BatchSplit skip its update,   *)
(* and a later BatchUpdate stop there.                                     *)
MarksCleared == stage = "idle" => \A x \in Elements : mark[x] = NA

(* The ancestors of an element: itself, the parent of its topmost node,    *)
(* and so on.                                                              *)
Ancestors(x) ==
  LET up[k \in Nat] ==
        IF k = 0 THEN {x}
        ELSE (UNION {{y, LeftParent(y, height[y] - 1)} : y \in up[k - 1]}) \ {Null}
  IN up[MaxHeight]

(* When the walks have ended, top_nodes holds each ancestor without left   *)
(* parent exactly once, whichever walk got there first: none is updated    *)
(* twice at the same time, and none is forgotten.                          *)
TopsAreRoots ==
  stage = "walk" /\ AllRest =>
    LET ancestors == UNION {Ancestors(x) : x \in Of(batch)} IN
    /\ {tops[i] : i \in DOMAIN tops} \ {Null} =
         {y \in ancestors : LeftParent(y, height[y] - 1) = Null}
    /\ \A i, j \in DOMAIN tops : i # j /\ tops[i] # Null => tops[i] # tops[j]
====
