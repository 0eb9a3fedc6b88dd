---- MODULE AugmentedSkipListProofs ----
(***************************************************************************)
(* The theorems of AugmentedSkipList: the marks of the walks.              *)
(*                                                                         *)
(* A walk that claims a node goes on to its parent, and one that finds a   *)
(* node claimed relies on the walk before it.  So at every time each       *)
(* marked node has a marked parent or a walk that is at the parent, and    *)
(* when the walks have ended the marks lead up to the topmost nodes.  The  *)
(* updates from the topmost nodes take the marks back if a parent's mark   *)
(* is no higher than the child's topmost level: then the update comes down *)
(* to the child.  A walk that loses the race for a mark lowers it, unless  *)
(* it has read the mark before it was set.  This one step, MissesMark,     *)
(* breaks the properties, and the theorems say that nothing else does: any *)
(* number of workers, any towers and every other outcome of the races.     *)
(***************************************************************************)
EXTENDS AugmentedSkipList, SkipListGeometryProofs

----
(* The parent of the topmost node of every element.                        *)
Up == [x \in Elements |-> LeftParent(x, height[x] - 1)]

Marked(x) == mark[x] # NA

Arranged ==
  /\ shape \in ShapeType
  /\ bonds \in SUBSET Elements

Typed ==
  /\ mark \in [Elements -> Level \cup {NA}]
  /\ stage \in {"idle", "walk", "down", "split"}
  /\ batch \in Batches \cup {<<>>}
  /\ todo \in SUBSET DOMAIN batch
  /\ tops \in [DOMAIN batch -> Ref]
  /\ walker \in [Threads -> Walker]

Busy(t) == walker[t].pc # "rest"

(* A walk is at a node of the level it has reached, and its iteration has
   begun and not found a topmost node.                                     *)
OnItsWay(t) ==
  /\ stage = "walk"
  /\ walker[t].curr \in Elements
  /\ walker[t].level < height[walker[t].curr]
  /\ walker[t].item \in DOMAIN batch \ todo
  /\ tops[walker[t].item] = Null

(* A mark that was read is only ever lowered.                              *)
SawMark(t) ==
  /\ walker[t].pc = "lower" => walker[t].seen # NA
  /\ walker[t].pc \in {"claim", "lower"} /\ walker[t].seen # NA =>
       Marked(walker[t].curr) /\ mark[walker[t].curr] <= walker[t].seen

Walks ==
  /\ \A t \in Threads : IF Busy(t) THEN OnItsWay(t) /\ SawMark(t) ELSE walker[t] = Rest
  /\ \A t, u \in Threads : t # u /\ Busy(t) /\ Busy(u) => walker[t].item # walker[u].item

(* What a worker alone reads is still so when it claims.                   *)
Alone ==
  crew = 1 =>
    /\ \A t, u \in Threads : Busy(t) /\ Busy(u) => t = u
    /\ \A t \in Threads :
         walker[t].pc = "claim" /\ walker[t].seen = NA => ~Marked(walker[t].curr)

MarksLow == \A x \in Elements : mark[x] < height[x]

Unbegun == stage = "walk" => \A i \in todo : tops[i] = Null

(* What holds whoever wins the races.                                      *)
Base == Typed /\ Arranged /\ Walks /\ Alone /\ MarksLow /\ Unbegun

----
(* A mark no higher than level is at x, or a walk will see to it.          *)
SeenTo(x, level) ==
  \/ Marked(x) /\ mark[x] <= level
  \/ \E t \in Threads : Busy(t) /\ walker[t].curr = x /\ walker[t].level <= level

Lineage == UNION {Ancestors(x) : x \in Of(batch)}

WalkInv ==
  /\ \A i \in DOMAIN batch \ todo : SeenTo(batch[i], height[batch[i]])
  /\ \A x \in Elements :
       Marked(x) => IF Up[x] = Null THEN \E i \in DOMAIN batch : tops[i] = x
                    ELSE SeenTo(Up[x], height[x])
  /\ \A i \in DOMAIN batch :
       tops[i] # Null => i \notin todo /\ Marked(tops[i]) /\ Up[tops[i]] = Null
  /\ \A i, j \in DOMAIN batch : i # j /\ tops[i] # Null => tops[i] # tops[j]
  /\ \A x \in Elements : Marked(x) => x \in Lineage
  /\ \A t \in Threads : Busy(t) => walker[t].curr \in Lineage

(* Every marked element has marked ancestors, low enough to be visited, up
   to a topmost node that is still to be updated.                          *)
DownInv ==
  /\ \A i \in todo : tops[i] # Null
  /\ \A x \in Elements :
       Marked(x) => IF Up[x] = Null THEN \E i \in todo : tops[i] = x
                    ELSE Marked(Up[x]) /\ mark[Up[x]] <= height[x]

SplitInv == \A x \in Elements : Marked(x) => x \in Of(batch)

(* What holds as long as no mark is missed.                                *)
MarkInv ==
  /\ stage = "idle" => \A x \in Elements : ~Marked(x)
  /\ stage = "walk" => WalkInv
  /\ stage = "down" => DownInv
  /\ stage = "split" => SplitInv

IInv == Base /\ MarkInv

----
(* Parents *)

LEMMA Heights ==
  ASSUME Arranged
  PROVE  /\ height \in [Elements -> 1 .. MaxHeight]
         /\ MaxHeight \in Nat \ {0}
         /\ Null \notin Elements
         /\ \A l \in Level : prev[l] \in [Elements -> Ref]
BY ElementsAreAddresses, HeightsArePositive
   DEF Arranged, ShapeType, height, prev, BackLinksOf, Links, Ref, Null

LEMMA LeftParentFacts ==
  ASSUME Arranged, NEW x \in Elements, NEW l \in Level
  PROVE  /\ LeftParent(x, l) \in Ref
         /\ LeftParent(x, l) # Null => height[LeftParent(x, l)] > l + 1
         /\ height[x] > l + 1 => LeftParent(x, l) = x
<1>1. height \in [Elements -> Int] /\ prev[l] \in [Elements -> Ref] /\ l \in Int
  BY Heights DEF Level
<1> QED BY <1>1, Taller DEF LeftParent

LEMMA UpFacts ==
  ASSUME Arranged, NEW x \in Elements
  PROVE  /\ Up[x] = LeftParent(x, height[x] - 1)
         /\ Up[x] \in Ref
         /\ Up[x] # Null => Up[x] \in Elements /\ height[Up[x]] > height[x]
         /\ height[x] \in 1 .. MaxHeight /\ height[x] - 1 \in Level
<1>1. height[x] \in 1 .. MaxHeight /\ MaxHeight \in Nat
  BY Heights
<1>2. height[x] - 1 \in Level /\ (height[x] - 1) + 1 = height[x]
  BY <1>1 DEF Level
<1>3. Up[x] = LeftParent(x, height[x] - 1)
  BY DEF Up
<1> QED BY <1>1, <1>2, <1>3, LeftParentFacts DEF Ref

LEMMA SameUp ==
  ASSUME UNCHANGED <<shape, bonds>>
  PROVE  Up' = Up /\ height' = height /\ \A x, l : LeftParent(x, l)' = LeftParent(x, l)
<1>1. height' = height /\ prev' = prev
  BY DEF height, prev
<1>2. \A x, l : LeftParent(x, l)' = LeftParent(x, l)
  BY <1>1 DEF LeftParent
<1> QED BY <1>1, <1>2 DEF Up

----
(* Ancestors *)

(* The ancestors in as many steps as there are levels.                     *)
LEMMA AncestorSteps ==
  ASSUME Arranged, NEW x \in Elements
  PROVE  \E f : /\ f[0] = {x}
                /\ \A k \in Nat : /\ f[k] \in SUBSET Elements
                                  /\ f[k + 1] = {y \in Elements : \E z \in f[k] : y = z \/ y = Up[z]}
                /\ Ancestors(x) = f[MaxHeight]
<1> DEFINE Step(S) == (UNION {{y, LeftParent(y, height[y] - 1)} : y \in S}) \ {Null}
           Wider(S) == {y \in Elements : \E z \in S : y = z \/ y = Up[z]}
           up == CHOOSE up : up = [k \in Nat |-> IF k = 0 THEN {x} ELSE Step(up[k - 1])]
<1>1. ASSUME NEW S \in SUBSET Elements PROVE Step(S) = Wider(S)
  <2>1. \A y \in S : y \in Elements /\ LeftParent(y, height[y] - 1) = Up[y] /\ Up[y] \in Ref /\ y # Null
    BY UpFacts, Heights
  <2> QED BY <2>1, Heights DEF Ref
<1>2. \A S \in SUBSET Elements : Step(S) \in SUBSET Elements /\ Step(S) = Wider(S)
  BY <1>1
<1> HIDE DEF Step
<1>3. PICK G : \A k \in Nat : \A S \in SUBSET Elements : G[<<k, S>>] = Step(S)
  <2> DEFINE H == [ks \in Nat \X SUBSET Elements |-> Step(ks[2])]
  <2>1. \A k \in Nat : \A S \in SUBSET Elements : H[<<k, S>>] = Step(S)
    OBVIOUS
  <2> HIDE DEF H
  <2> QED BY <2>1
<1>4. \A k \in Nat : \A S \in SUBSET Elements : G[<<k, S>>] \in SUBSET Elements
  BY <1>2, <1>3
<1>5. {x} \in SUBSET Elements
  OBVIOUS
<1>6. PICK f : /\ OnNaturals(f)
               /\ f[0] = {x}
               /\ \A k \in Nat : f[k] \in SUBSET Elements /\ f[k + 1] = G[<<k, f[k]>>]
  <2> DEFINE Subsets == SUBSET Elements
             base == {x}
  <2>1. base \in Subsets /\ \A k \in Nat : \A S \in Subsets : G[<<k, S>>] \in Subsets
    BY <1>4, <1>5
  <2> HIDE DEF Subsets, base
  <2>2. \E f : /\ OnNaturals(f)
               /\ f[0] = base
               /\ \A k \in Nat : f[k] \in Subsets /\ f[k + 1] = G[<<k, f[k]>>]
    BY <2>1, Recursion
  <2> QED BY <2>2 DEF Subsets, base
<1>7. \A k \in Nat : f[k] \in SUBSET Elements /\ f[k + 1] = Step(f[k])
  BY <1>3, <1>6
<1>8. f = [k \in Nat |-> IF k = 0 THEN {x} ELSE Step(f[k - 1])]
  <2>1. f = [k \in Nat |-> f[k]]
    BY <1>6 DEF OnNaturals
  <2>2. \A k \in Nat \ {0} : k - 1 \in Nat /\ (k - 1) + 1 = k
    OBVIOUS
  <2>3. \A k \in Nat : f[k] = IF k = 0 THEN {x} ELSE Step(f[k - 1])
    BY <1>6, <1>7, <2>2
  <2> QED BY <2>1, <2>3, Zenon
<1>9. up = [k \in Nat |-> IF k = 0 THEN {x} ELSE Step(up[k - 1])]
  BY <1>8, Zenon DEF up
<1>10. Ancestors(x) = up[MaxHeight]
  BY Zenon DEF Ancestors, up, Step
<1> HIDE DEF up
<1>11. up[0] = {x} /\ \A k \in Nat : up[k + 1] = Step(up[k])
  <2>1. \A k \in Nat : k + 1 \in Nat /\ k + 1 # 0 /\ (k + 1) - 1 = k
    OBVIOUS
  <2> QED BY <1>9, <2>1
<1>12. \A k \in Nat : up[k] \in SUBSET Elements
  <2> DEFINE T == {k \in Nat : up[k] \in SUBSET Elements}
  <2>1. 0 \in T /\ \A k \in Nat : k \in T => k + 1 \in T
    BY <1>2, <1>5, <1>11
  <2> HIDE DEF T
  <2>2. \A k \in Nat : k \in T
    BY <2>1, Induction
  <2> QED BY <2>2 DEF T
<1>13. \A k \in Nat : up[k + 1] = Wider(up[k])
  BY <1>2, <1>11, <1>12
<1> QED BY <1>10, <1>11, <1>12, <1>13

(* An element is its own ancestor, and so is the parent of an ancestor: a
   tower has no more ancestors than there are levels.                      *)
LEMMA AncestorsUp ==
  ASSUME Arranged, NEW x \in Elements
  PROVE  /\ Ancestors(x) \in SUBSET Elements
         /\ x \in Ancestors(x)
         /\ \A y \in Ancestors(x) : Up[y] # Null => Up[y] \in Ancestors(x)
<1>1. PICK f : /\ f[0] = {x}
               /\ \A k \in Nat : /\ f[k] \in SUBSET Elements
                                 /\ f[k + 1] = {y \in Elements : \E z \in f[k] : y = z \/ y = Up[z]}
               /\ Ancestors(x) = f[MaxHeight]
  BY AncestorSteps
<1>2. MaxHeight \in Nat \ {0} /\ height \in [Elements -> 1 .. MaxHeight] /\ Null \notin Elements
  BY Heights
<1>3. \A j \in Nat : \A k \in Nat : f[k] \subseteq f[k + j]
  <2> DEFINE T == {j \in Nat : \A k \in Nat : f[k] \subseteq f[k + j]}
  <2>1. 0 \in T
    OBVIOUS
  <2>2. ASSUME NEW j \in Nat, j \in T PROVE j + 1 \in T
    <3>1. ASSUME NEW k \in Nat PROVE f[k] \subseteq f[k + (j + 1)]
      <4>1. k + j \in Nat /\ k + (j + 1) = (k + j) + 1 /\ f[k] \subseteq f[k + j]
        BY <2>2
      <4>2. f[k + j] \subseteq f[(k + j) + 1]
        BY <1>1, <4>1
      <4> QED BY <4>1, <4>2
    <3> QED BY <3>1
  <2> HIDE DEF T
  <2>3. \A j \in Nat : j \in T
    BY <2>1, <2>2, Induction
  <2> QED BY <2>3 DEF T
<1>4. \A j, k \in Nat : j <= k => f[j] \subseteq f[k]
  <2> SUFFICES ASSUME NEW j \in Nat, NEW k \in Nat, j <= k PROVE f[j] \subseteq f[k]
    OBVIOUS
  <2>1. k - j \in Nat /\ j + (k - j) = k
    OBVIOUS
  <2> QED BY <2>1, <1>3
<1>5. \A k \in Nat : \A y \in f[k] : \E j \in Nat : j < height[y] /\ y \in f[j]
  <2> DEFINE T == {k \in Nat : \A y \in f[k] : \E j \in Nat : j < height[y] /\ y \in f[j]}
  <2>1. 0 \in T
    <3>1. ASSUME NEW y \in f[0] PROVE 0 < height[y]
      BY <1>1, <1>2
    <3> QED BY <3>1
  <2>2. ASSUME NEW k \in Nat, k \in T PROVE k + 1 \in T
    <3>1. ASSUME NEW y \in f[k + 1] PROVE \E j \in Nat : j < height[y] /\ y \in f[j]
      <4>1. PICK z \in f[k] : y \in Elements /\ (y = z \/ y = Up[z])
        BY <1>1
      <4>2. PICK j \in Nat : j < height[z] /\ z \in f[j]
        BY <2>2
      <4>3. CASE y = z
        BY <4>2, <4>3
      <4>4. CASE y = Up[z]
        <5>1. z \in Elements
          BY <1>1
        <5>2. y # Null
          BY <4>1, <1>2
        <5>3. height[y] > height[z] /\ height[y] \in Int /\ height[z] \in Int
          BY <4>4, <5>1, <5>2, UpFacts
        <5>4. y \in f[j + 1]
          BY <1>1, <4>1, <4>2, <4>4
        <5>5. j + 1 \in Nat /\ j + 1 < height[y]
          BY <4>2, <5>3
        <5> QED BY <5>4, <5>5
      <4> QED BY <4>1, <4>3, <4>4
    <3> QED BY <3>1
  <2> HIDE DEF T
  <2>3. \A k \in Nat : k \in T
    BY <2>1, <2>2, Induction
  <2> QED BY <2>3 DEF T
<1>6. ASSUME NEW y \in Ancestors(x), Up[y] # Null PROVE Up[y] \in Ancestors(x)
  <2>1. y \in Elements /\ y \in f[MaxHeight]
    BY <1>1, <1>2
  <2>2. PICK j \in Nat : j < height[y] /\ y \in f[j]
    BY <1>2, <1>5, <2>1
  <2>3. Up[y] \in Elements
    BY <1>6, <2>1, UpFacts
  <2>4. Up[y] \in f[j + 1] /\ j + 1 \in Nat
    BY <1>1, <2>2, <2>3
  <2>5. j + 1 <= MaxHeight
    BY <1>2, <2>1, <2>2
  <2> QED BY <1>1, <1>2, <1>4, <2>4, <2>5
<1>7. x \in Ancestors(x)
  <2>1. 0 <= MaxHeight /\ x \in f[0]
    BY <1>1, <1>2
  <2> QED BY <1>1, <1>2, <1>4, <2>1, SMTT(60)
<1> QED BY <1>1, <1>2, <1>6, <1>7

(* They are the fewest elements of which this is true.                     *)
LEMMA AncestorsLeast ==
  ASSUME Arranged, NEW x \in Elements, NEW T, x \in T,
         \A y \in T \cap Elements : Up[y] # Null => Up[y] \in T
  PROVE  Ancestors(x) \subseteq T
<1>1. PICK f : /\ f[0] = {x}
               /\ \A k \in Nat : /\ f[k] \in SUBSET Elements
                                 /\ f[k + 1] = {y \in Elements : \E z \in f[k] : y = z \/ y = Up[z]}
               /\ Ancestors(x) = f[MaxHeight]
  BY AncestorSteps
<1> DEFINE N == {k \in Nat : f[k] \subseteq T}
<1>2. 0 \in N
  BY <1>1
<1>3. ASSUME NEW k \in Nat, k \in N PROVE k + 1 \in N
  <2>1. ASSUME NEW y \in f[k + 1] PROVE y \in T
    <3>1. PICK z \in f[k] : y \in Elements /\ (y = z \/ y = Up[z])
      BY <1>1
    <3>2. z \in T \cap Elements /\ y # Null
      BY <1>1, <1>3, <3>1, Heights
    <3> QED BY <3>1, <3>2
  <2> QED BY <2>1
<1> HIDE DEF N
<1>4. \A k \in Nat : k \in N
  BY <1>2, <1>3, Induction
<1>5. MaxHeight \in N
  BY <1>4, Heights
<1> QED BY <1>1, <1>5 DEF N

LEMMA BatchElements ==
  ASSUME Typed
  PROVE  /\ \A i \in DOMAIN batch : batch[i] \in Elements /\ i \in 0 .. MaxBatch
         /\ Of(batch) \in SUBSET Elements
<1>1. ASSUME NEW i \in DOMAIN batch PROVE batch[i] \in Elements /\ i \in 0 .. MaxBatch
  <2>1. CASE batch = <<>>
    BY <2>1
  <2>2. CASE batch # <<>>
    <3>1. PICK n \in 1 .. MaxBatch : batch \in [1 .. n -> Elements]
      BY <2>2 DEF Typed, Batches
    <3> QED BY <3>1, BatchesAreBounded
  <2> QED BY <2>1, <2>2
<1> QED BY <1>1 DEF Of

LEMMA LineageFacts ==
  ASSUME Typed, Arranged
  PROVE  /\ Lineage \in SUBSET Elements
         /\ \A i \in DOMAIN batch : batch[i] \in Lineage
         /\ \A y \in Lineage : Up[y] # Null => Up[y] \in Lineage
         /\ \A T : /\ \A i \in DOMAIN batch : batch[i] \in T
                   /\ \A y \in T \cap Elements : Up[y] # Null => Up[y] \in T
                   => Lineage \subseteq T
<1>1. \A x \in Of(batch) : x \in Elements
  BY BatchElements
<1>2. \A x \in Of(batch) : /\ Ancestors(x) \in SUBSET Elements
                           /\ x \in Ancestors(x)
                           /\ \A y \in Ancestors(x) : Up[y] # Null => Up[y] \in Ancestors(x)
  BY <1>1, AncestorsUp
<1>3. \A i \in DOMAIN batch : batch[i] \in Of(batch)
  BY DEF Of
<1>4. ASSUME NEW T, \A i \in DOMAIN batch : batch[i] \in T,
             \A y \in T \cap Elements : Up[y] # Null => Up[y] \in T
      PROVE  Lineage \subseteq T
  <2>1. ASSUME NEW x \in Of(batch) PROVE Ancestors(x) \subseteq T
    <3>1. x \in T
      BY <1>4 DEF Of
    <3> QED BY <1>1, <1>4, <3>1, AncestorsLeast
  <2> QED BY <2>1 DEF Lineage
<1> QED BY <1>2, <1>3, <1>4 DEF Lineage

----
(* The nodes an update visits *)

Entered(y, l) == {c \in Children(y, l + 1) : mark[c] < l + 1 /\ (c = y \/ mark[c] # NA)}

(* At the level of the topmost node there is that node only, and from each
   level it goes on to the one below.                                      *)
LEMMA VisitedLevels ==
  ASSUME Arranged, NEW x \in Elements
  PROVE  \A l \in Level :
           /\ l >= height[x] => Visited(x)[l] = {}
           /\ l = height[x] - 1 => Visited(x)[l] = {x}
           /\ ~(l >= height[x]) /\ l # height[x] - 1 =>
                Visited(x)[l] = UNION {Entered(y, l) : y \in Visited(x)[l + 1]}
<1> DEFINE top == height[x] - 1
           Entering(S, l) == UNION {Entered(y, l) : y \in S}
           At(v, l) == IF l >= height[x] THEN {} ELSE IF l = height[x] - 1 THEN {x} ELSE Entering(v[l + 1], l)
           visited == CHOOSE visited : visited = [l \in Level |-> At(visited, l)]
           Subsets == SUBSET Elements
           base == {x}
<1>1. height[x] \in 1 .. MaxHeight /\ MaxHeight \in Nat /\ top \in Nat
  BY Heights
<1>2. \A S \in Subsets : \A l : Entering(S, l) \in Subsets
  BY DEF Entered, Children
<1> HIDE DEF Entering
<1>3. base \in Subsets
  OBVIOUS
<1> HIDE DEF Subsets, base
<1>4. PICK G : \A k \in Nat : \A S \in Subsets : G[<<k, S>>] = Entering(S, (top - 1) - k)
  <2> DEFINE H == [ks \in Nat \X Subsets |-> Entering(ks[2], (top - 1) - ks[1])]
  <2>1. \A k \in Nat : \A S \in Subsets : H[<<k, S>>] = Entering(S, (top - 1) - k)
    OBVIOUS
  <2> HIDE DEF H, top
  <2> QED BY <2>1
<1>5. \A k \in Nat : \A S \in Subsets : G[<<k, S>>] \in Subsets
  BY <1>2, <1>4
<1>6. PICK f : /\ OnNaturals(f)
               /\ f[0] = base
               /\ \A k \in Nat : f[k] \in Subsets /\ f[k + 1] = G[<<k, f[k]>>]
  BY <1>3, <1>5, Recursion
<1>7. \A k \in Nat : f[k + 1] = Entering(f[k], (top - 1) - k)
  BY <1>4, <1>6
<1> DEFINE g == [l \in Level |-> IF l >= height[x] THEN {} ELSE f[top - l]]
<1>8. ASSUME NEW l \in Level PROVE g[l] = At(g, l)
  <2>1. l \in Nat
    BY DEF Level
  <2>2. CASE l >= height[x]
    BY <2>2
  <2>3. CASE l = height[x] - 1
    <3>1. top - l = 0 /\ ~(l >= height[x])
      BY <1>1, <2>3
    <3> QED BY <2>3, <3>1, <1>6 DEF base
  <2>4. CASE l < height[x] - 1
    <3>1. /\ ~(l >= height[x]) /\ l # height[x] - 1
          /\ l + 1 \in Level /\ ~(l + 1 >= height[x])
          /\ (top - 1) - l \in Nat
          /\ top - (l + 1) = (top - 1) - l
          /\ ((top - 1) - l) + 1 = top - l
          /\ (top - 1) - ((top - 1) - l) = l
      BY <1>1, <2>1, <2>4 DEF Level
    <3> HIDE DEF top
    <3>2. g[l + 1] = f[(top - 1) - l]
      BY <3>1
    <3>3. f[top - l] = Entering(f[(top - 1) - l], l)
      BY <1>7, <3>1
    <3>4. g[l] = f[top - l]
      BY <3>1
    <3> QED BY <3>1, <3>2, <3>3, <3>4
  <2> QED BY <1>1, <2>1, <2>2, <2>3, <2>4
<1>9. g = [l \in Level |-> At(g, l)]
  <2>1. g = [l \in Level |-> g[l]]
    OBVIOUS
  <2> HIDE DEF g, At
  <2> QED BY <1>8, <2>1, Zenon
<1>10. visited = [l \in Level |-> At(visited, l)]
  <2> HIDE DEF g, At
  <2> QED BY <1>9, Zenon DEF visited
<1>11. Visited(x) = visited
  BY Zenon DEF Visited, visited, At, Entering, Entered
<1> HIDE DEF visited
<1>12. \A l \in Level : visited[l] = At(visited, l)
  <2> HIDE DEF At
  <2> QED BY <1>10
<1>13. \A l \in Level : l = height[x] - 1 => ~(l >= height[x])
  BY <1>1
<1> QED BY <1>11, <1>12, <1>13, Zenon DEF Entering

(* What is visited at a level reaches it, and is no taller than the topmost
   node.                                                                   *)
LEMMA VisitedReach ==
  ASSUME Arranged, NEW x \in Elements, NEW l \in Level, NEW y \in Visited(x)[l]
  PROVE  y \in Elements /\ l < height[x]
<1>1. l < height[x]
  <2>1. l \in Int /\ height[x] \in Int
    BY Heights DEF Level
  <2>2. ~(l >= height[x])
    BY VisitedLevels
  <2> QED BY <2>1, <2>2
<1>2. CASE l = height[x] - 1
  BY <1>1, <1>2, VisitedLevels
<1>3. CASE l # height[x] - 1
  <2>1. ~(l >= height[x])
    <3>1. l \in Int /\ height[x] \in Int
      BY Heights DEF Level
    <3> QED BY <1>1, <3>1
  <2>2. y \in UNION {Entered(z, l) : z \in Visited(x)[l + 1]}
    BY <1>3, <2>1, VisitedLevels
  <2> QED BY <1>1, <2>2 DEF Entered, Children
<1> QED BY <1>2, <1>3

(* An update that visits the topmost node of an element comes down to those
   of its marked children, if its mark is low enough.                      *)
LEMMA VisitedDown ==
  ASSUME Arranged, Typed, MarksLow, NEW r \in Elements, NEW x \in Elements,
         Up[x] # Null, Marked(x), mark[Up[x]] <= height[x],
         Up[x] \in Visited(r)[height[Up[x]] - 1]
  PROVE  x \in Visited(r)[height[x] - 1]
<1> DEFINE p == Up[x]
<1>1. /\ p \in Elements
      /\ height[x] \in 1 .. MaxHeight /\ height[p] \in 1 .. MaxHeight /\ MaxHeight \in Nat
      /\ height[p] > height[x]
      /\ height[p] - 1 \in Level /\ height[x] \in Level /\ height[x] - 1 \in Level
      /\ LeftParent(x, height[x] - 1) = p
  BY UpFacts, Heights DEF Level
<1>2. height[p] - 1 < height[r] /\ height[r] \in Int
  BY <1>1, VisitedReach, Heights
<1>3. mark[p] \in Int /\ mark[x] \in Int
  BY <1>1 DEF Typed, Level, NA
<1> HIDE DEF p
<1>4. p \in Visited(r)[height[p] - 1] /\ mark[p] <= height[x]
  BY DEF p
<1>5. ASSUME NEW l \in Level, l >= height[x], l < height[p] - 1, p \in Visited(r)[l + 1]
      PROVE  p \in Visited(r)[l]
  <2>1. l \in Nat /\ l + 1 \in Level /\ l < height[r] - 1 /\ l # height[r] - 1 /\ ~(l >= height[r])
    BY <1>1, <1>2, <1>5 DEF Level
  <2>2. LeftParent(p, l) = p
    <3>1. height[p] > l + 1
      BY <1>1, <1>5, <2>1
    <3> QED BY <1>1, <3>1, LeftParentFacts
  <2>3. p \in Children(p, l + 1)
    <3>1. (l + 1) - 1 = l /\ height[p] >= l + 1
      BY <1>1, <1>5, <2>1
    <3> QED BY <1>1, <2>2, <3>1 DEF Children
  <2>4. p \in Entered(p, l)
    <3>1. mark[p] < l + 1
      BY <1>1, <1>3, <1>4, <1>5, <2>1
    <3> QED BY <2>3, <3>1 DEF Entered
  <2>5. Visited(r)[l] = UNION {Entered(y, l) : y \in Visited(r)[l + 1]}
    BY <2>1, VisitedLevels, Zenon
  <2> QED BY <1>5, <2>4, <2>5
<1>6. \A k \in Nat : k <= (height[p] - 1) - height[x] => p \in Visited(r)[(height[p] - 1) - k]
  <2> DEFINE T == {k \in Nat : k <= (height[p] - 1) - height[x] => p \in Visited(r)[(height[p] - 1) - k]}
  <2>1. 0 \in T
    <3>1. (height[p] - 1) - 0 = height[p] - 1
      BY <1>1
    <3> QED BY <1>4, <3>1
  <2>2. ASSUME NEW k \in Nat, k \in T PROVE k + 1 \in T
    <3>1. SUFFICES ASSUME k + 1 <= (height[p] - 1) - height[x]
                   PROVE  p \in Visited(r)[(height[p] - 1) - (k + 1)]
      OBVIOUS
    <3> DEFINE l == (height[p] - 1) - (k + 1)
    <3>2. l \in Level /\ l >= height[x] /\ l < height[p] - 1 /\ l + 1 = (height[p] - 1) - k
      BY <1>1, <3>1 DEF Level
    <3>3. k <= (height[p] - 1) - height[x]
      BY <1>1, <3>1
    <3>4. p \in Visited(r)[l + 1]
      BY <2>2, <3>2, <3>3
    <3> HIDE DEF l
    <3>5. p \in Visited(r)[l]
      BY <1>5, <3>2, <3>4
    <3> QED BY <3>5 DEF l
  <2> HIDE DEF T
  <2>3. \A k \in Nat : k \in T
    BY <2>1, <2>2, Induction
  <2> QED BY <2>3 DEF T
<1>7. p \in Visited(r)[height[x]]
  <2>1. (height[p] - 1) - height[x] \in Nat /\ (height[p] - 1) - ((height[p] - 1) - height[x]) = height[x]
    BY <1>1
  <2> QED BY <1>6, <2>1
<1> DEFINE l == height[x] - 1
<1>8. l \in Level /\ l + 1 = height[x] /\ l # height[r] - 1 /\ ~(l >= height[r])
  BY <1>1, <1>2
<1> HIDE DEF l
<1>9. x \in Entered(p, l)
  <2>1. LeftParent(x, (l + 1) - 1) = p /\ height[x] >= l + 1
    BY <1>1, <1>8
  <2>2. mark[x] < l + 1 /\ mark[x] # NA
    BY <1>8 DEF MarksLow, Marked
  <2> QED BY <2>1, <2>2 DEF Entered, Children
<1>10. Visited(r)[l] = UNION {Entered(y, l) : y \in Visited(r)[l + 1]}
  BY <1>8, VisitedLevels, Zenon
<1> QED BY <1>7, <1>8, <1>9, <1>10 DEF l

(* Every update begins with the mark of the topmost node.                  *)
LEMMA VisitedTop ==
  ASSUME Arranged, NEW r \in Elements
  PROVE  r \in Visited(r)[height[r] - 1]
<1>1. height[r] \in 1 .. MaxHeight /\ height[r] - 1 \in Level /\ ~(height[r] - 1 >= height[r])
  BY UpFacts
<1> QED BY <1>1, VisitedLevels

----
(* Steps of one walk *)

LEMMA SameGeometry ==
  ASSUME UNCHANGED <<list, batch>>
  PROVE  Up' = Up /\ height' = height /\ Lineage' = Lineage
<1>1. UNCHANGED <<shape, bonds>> /\ batch' = batch
  BY DEF list
<1>2. Up' = Up /\ height' = height
  BY <1>1, SameUp
<1>3. Lineage' = Lineage
  BY <1>1 DEF Lineage, Ancestors, LeftParent, height, prev, Of
<1> QED BY <1>2, <1>3

LEMMA NumbersOf ==
  ASSUME Typed, Arranged
  PROVE  /\ NA = -1
         /\ MaxHeight \in Nat \ {0}
         /\ \A x \in Elements : /\ height[x] \in 1 .. MaxHeight
                                /\ mark[x] \in Int /\ (mark[x] \in Level \/ mark[x] = NA)
         /\ \A t \in Threads : /\ walker[t].level \in Level /\ walker[t].level \in Nat
                               /\ walker[t].seen \in Int
                               /\ walker[t].seen \in Level \/ walker[t].seen = NA
BY Heights DEF Typed, Walker, Level, NA

(* What is seen to remains so when a walk goes on from a node that is then
   marked low enough.                                                      *)
LEMMA SeenStays ==
  ASSUME Typed, Arranged, Typed', NEW t \in Threads,
         \A x \in Elements : Marked(x) => Marked(x)' /\ mark'[x] <= mark[x],
         \A u \in Threads \ {t} : walker'[u] = walker[u],
         \/ Busy(t)' /\ walker'[t].curr = walker[t].curr /\ walker'[t].level = walker[t].level
         \/ Busy(t) => /\ mark'[walker[t].curr] # NA
                       /\ mark'[walker[t].curr] <= walker[t].level \/ mark'[walker[t].curr] <= 1,
         Busy(t) => walker[t].curr \in Elements,
         NEW x \in Elements, NEW level \in Nat \ {0}, SeenTo(x, level)
  PROVE  SeenTo(x, level)'
<1>1. mark'[x] \in Int /\ mark[x] \in Int /\ walker[t].level \in Int
  BY NumbersOf DEF Typed, Level, NA
<1>2. CASE Marked(x) /\ mark[x] <= level
  BY <1>1, <1>2 DEF SeenTo
<1>3. ASSUME NEW u \in Threads, Busy(u), walker[u].curr = x, walker[u].level <= level
      PROVE  SeenTo(x, level)'
  <2>1. CASE u # t
    BY <1>3, <2>1 DEF SeenTo, Busy
  <2>2. CASE u = t /\ Busy(t)' /\ walker'[t].curr = walker[t].curr /\ walker'[t].level = walker[t].level
    BY <1>3, <2>2 DEF SeenTo
  <2>3. CASE /\ u = t /\ mark'[walker[t].curr] # NA
             /\ mark'[walker[t].curr] <= walker[t].level \/ mark'[walker[t].curr] <= 1
    <3>1. walker[t].curr = x /\ walker[t].level <= level
      BY <1>3, <2>3
    <3>2. Marked(x)'
      BY <2>3, <3>1 DEF Marked
    <3>3. mark'[x] <= walker[t].level \/ mark'[x] <= 1
      BY <2>3, <3>1
    <3>4. mark'[x] <= level
      BY <1>1, <3>1, <3>3
    <3> QED BY <3>2, <3>4 DEF SeenTo
  <2> QED BY <1>3, <2>1, <2>2, <2>3
<1> QED BY <1>2, <1>3 DEF SeenTo

(* A step that claims nothing.                                             *)
LEMMA WalkKept ==
  ASSUME Base, WalkInv, Typed', NEW t \in Threads,
         UNCHANGED <<list, batch, todo, tops>>,
         \A x \in Elements : Marked(x)' = Marked(x) /\ (Marked(x) => mark'[x] <= mark[x]),
         \A u \in Threads \ {t} : walker'[u] = walker[u],
         Busy(t),
         Busy(t)' => walker'[t].curr = walker[t].curr /\ walker'[t].level = walker[t].level,
         ~Busy(t)' => /\ mark'[walker[t].curr] # NA
                      /\ mark'[walker[t].curr] <= walker[t].level \/ mark'[walker[t].curr] <= 1
  PROVE  WalkInv'
<1>1. Typed /\ Arranged /\ WalkInv /\ Walks
  BY DEF Base
<1>2. Up' = Up /\ height' = height /\ Lineage' = Lineage
  BY SameGeometry
<1>3. \A x \in Elements : \A level \in Nat \ {0} : SeenTo(x, level) => SeenTo(x, level)'
  <2>1. walker[t].curr \in Elements
    BY <1>1 DEF Walks, OnItsWay
  <2>2. \/ Busy(t)' /\ walker'[t].curr = walker[t].curr /\ walker'[t].level = walker[t].level
        \/ Busy(t) => /\ mark'[walker[t].curr] # NA
                      /\ mark'[walker[t].curr] <= walker[t].level \/ mark'[walker[t].curr] <= 1
    OBVIOUS
  <2>3. \A x \in Elements : Marked(x) => Marked(x)' /\ mark'[x] <= mark[x]
    OBVIOUS
  <2> QED BY <1>1, <2>1, <2>2, <2>3, SeenStays
<1>4. \A x \in Elements : height[x] \in Nat \ {0} /\ Up[x] \in Ref
  BY <1>1, UpFacts
<1>5. (\A i \in DOMAIN batch \ todo : SeenTo(batch[i], height[batch[i]]))'
  <2> SUFFICES ASSUME NEW i \in DOMAIN batch \ todo PROVE SeenTo(batch[i], height[batch[i]])'
    OBVIOUS
  <2>1. batch[i] \in Elements /\ SeenTo(batch[i], height[batch[i]])
    BY <1>1, BatchElements DEF WalkInv
  <2>2. \A l \in Nat \ {0} : SeenTo(batch[i], l) => SeenTo(batch[i], l)'
    BY <1>3, <2>1
  <2> DEFINE x == batch[i]
             l == height[x]
  <2>3. l \in Nat \ {0} /\ l' = l /\ x' = x
    BY <1>2, <1>4, <2>1
  <2>4. SeenTo(x, l)'
    BY <1>2, <1>4, <2>1, <2>2 DEF SeenTo
  <2> QED BY <2>4
<1>6. (\A x \in Elements :
         Marked(x) => IF Up[x] = Null THEN \E i \in DOMAIN batch : tops[i] = x
                      ELSE SeenTo(Up[x], height[x]))'
  <2> SUFFICES ASSUME NEW x \in Elements, Marked(x)'
               PROVE  (IF Up[x] = Null THEN \E i \in DOMAIN batch : tops[i] = x
                       ELSE SeenTo(Up[x], height[x]))'
    OBVIOUS
  <2>1. CASE Up[x] = Null
    BY <1>1, <1>2, <2>1 DEF WalkInv
  <2>2. CASE Up[x] # Null
    <3>1. SeenTo(Up[x], height[x]) /\ Up[x] \in Elements
      BY <1>1, <1>4, <2>2 DEF WalkInv, Ref
    <3>2. SeenTo(Up[x], height[x])'
      BY <1>2, <1>3, <1>4, <3>1 DEF SeenTo
    <3> QED BY <1>2, <2>2, <3>2
  <2> QED BY <2>1, <2>2
<1>7. \A i \in DOMAIN batch : tops[i] \in Ref
  BY <1>1 DEF Typed
<1>8. (\A i \in DOMAIN batch :
         tops[i] # Null => i \notin todo /\ Marked(tops[i]) /\ Up[tops[i]] = Null)'
  <2> SUFFICES ASSUME NEW i \in DOMAIN batch, tops[i] # Null
               PROVE  i \notin todo /\ Marked(tops[i])' /\ Up[tops[i]] = Null
    BY <1>2 DEF Marked
  <2>1. tops[i] \in Elements /\ i \notin todo /\ Marked(tops[i]) /\ Up[tops[i]] = Null
    BY <1>1, <1>7 DEF WalkInv, Ref
  <2> QED BY <2>1
<1>9. (\A i, j \in DOMAIN batch : i # j /\ tops[i] # Null => tops[i] # tops[j])'
  BY <1>1 DEF WalkInv
<1>10. (\A x \in Elements : Marked(x) => x \in Lineage)'
  BY <1>1, <1>2 DEF WalkInv
<1>11. (\A u \in Threads : Busy(u) => walker[u].curr \in Lineage)'
  BY <1>1, <1>2 DEF WalkInv, Busy
<1> QED BY <1>5, <1>6, <1>8, <1>9, <1>10, <1>11 DEF WalkInv

LEMMA ReadMarkKeeps ==
  ASSUME Base, NEW t \in Threads, ReadMark(t)
  PROVE  Base' /\ (MarkInv => MarkInv')
<1> DEFINE w == walker[t]
           v == [w EXCEPT !.pc = "claim", !.seen = mark[w.curr]]
<1>1. /\ Typed /\ Arranged /\ Walks /\ Alone /\ MarksLow
      /\ w.pc = "read"
      /\ walker' = [walker EXCEPT ![t] = v]
      /\ UNCHANGED <<list, value, mark, stage, batch, todo, tops>>
  BY DEF Base, ReadMark
<1>2. Busy(t) /\ OnItsWay(t) /\ stage = "walk" /\ w \in Walker /\ w.curr \in Elements
  BY <1>1 DEF Walks, Busy, OnItsWay, Typed
<1>3. v \in Walker /\ v.pc = "claim" /\ v.seen = mark[w.curr] /\ v.curr = w.curr /\ v.level = w.level /\ v.item = w.item
  BY <1>1, <1>2 DEF Walker, Typed
<1>4. walker'[t] = v /\ \A u \in Threads \ {t} : walker'[u] = walker[u]
  BY <1>1 DEF Typed
<1> HIDE DEF v
<1>5. Typed'
  <2>1. walker' \in [Threads -> Walker]
    BY <1>1, <1>3 DEF Typed
  <2> QED BY <1>1, <2>1 DEF Typed
<1>6. height' = height /\ Arranged' /\ MarksLow'
  BY <1>1 DEF list, Arranged, MarksLow, height
<1>7. Walks'
  <2>1. ASSUME NEW u \in Threads
        PROVE  IF Busy(u)' THEN OnItsWay(u)' /\ SawMark(u)' ELSE walker'[u] = Rest
    <3>1. CASE u = t
      <4>1. mark[w.curr] \in Int
        BY <1>1, <1>2, NumbersOf
      <4> QED BY <1>1, <1>2, <1>3, <1>4, <1>6, <3>1, <4>1 DEF Busy, OnItsWay, SawMark, Marked
    <3>2. CASE u # t
      BY <1>1, <1>4, <1>6, <3>2 DEF Walks, Busy, OnItsWay, SawMark, Marked
    <3> QED BY <3>1, <3>2
  <2>2. \A u \in Threads : Busy(u)' = Busy(u) /\ walker'[u].item = walker[u].item
    BY <1>2, <1>3, <1>4 DEF Busy
  <2>3. \A s, u \in Threads : s # u /\ Busy(s)' /\ Busy(u)' => walker'[s].item # walker'[u].item
    BY <1>1, <2>2 DEF Walks
  <2> QED BY <2>1, <2>3 DEF Walks
<1>8. Alone'
  <2>1. \A u \in Threads : Busy(u)' = Busy(u)
    BY <1>2, <1>3, <1>4 DEF Busy
  <2>2. crew' = crew
    BY <1>1 DEF list
  <2>3. ASSUME crew = 1, NEW u \in Threads, walker'[u].pc = "claim", walker'[u].seen = NA
        PROVE  ~Marked(walker[u].curr)'
    <3>1. CASE u = t
      BY <1>1, <1>3, <1>4, <2>3, <3>1 DEF Marked
    <3>2. CASE u # t
      BY <1>1, <1>4, <2>3, <3>2 DEF Marked, Alone
    <3> QED BY <3>1, <3>2
  <2> QED BY <1>1, <2>1, <2>2, <2>3 DEF Alone
<1>9. Unbegun'
  BY <1>1 DEF Base, Unbegun
<1>10. ASSUME MarkInv PROVE WalkInv'
  <2>0. WalkInv
    BY <1>2, <1>10 DEF MarkInv
  <2>1. \A x \in Elements : Marked(x)' = Marked(x) /\ (Marked(x) => mark'[x] <= mark[x])
    BY <1>1, NumbersOf DEF Marked
  <2>2. Busy(t)' /\ walker'[t].curr = walker[t].curr /\ walker'[t].level = walker[t].level
    BY <1>3, <1>4 DEF Busy
  <2> QED BY <1>1, <1>2, <1>4, <1>5, <2>0, <2>1, <2>2, WalkKept
<1> QED BY <1>1, <1>2, <1>5, <1>6, <1>7, <1>8, <1>9, <1>10 DEF Base, MarkInv

(* A walk that leaves a claimed node, having read its mark or not, leaves a
   mark that is low enough; or else it goes on to lower the mark.          *)
LEMMA LeaveKeeps ==
  ASSUME Base, NEW t \in Threads, Leave(t)
  PROVE  Base' /\ (MarkInv /\ ~MissesMark(t) => MarkInv')
<1> DEFINE w == walker[t]
           v == IF w.seen > w.level THEN [w EXCEPT !.pc = "lower"] ELSE Rest
<1>1. /\ Typed /\ Arranged /\ Walks /\ Alone /\ MarksLow
      /\ w.pc = "claim"
      /\ w.seen # NA \/ mark[w.curr] # NA
      /\ walker' = [walker EXCEPT ![t] = v]
      /\ UNCHANGED <<list, value, mark, stage, batch, todo, tops>>
  BY DEF Base, Leave
<1>2. Busy(t) /\ OnItsWay(t) /\ SawMark(t) /\ stage = "walk" /\ w \in Walker /\ w.curr \in Elements
  BY <1>1 DEF Walks, Busy, OnItsWay, Typed
<1>3. /\ w.seen \in Int /\ w.level \in Nat /\ mark[w.curr] \in Int /\ height[w.curr] \in Int
      /\ NA = -1
  BY <1>1, <1>2, NumbersOf
<1>4. Marked(w.curr)
  BY <1>1, <1>2 DEF SawMark, Marked
<1>5. v \in Walker
  <2>1. Rest \in Walker
    BY BatchesAreBounded, HeightsArePositive DEF Walker, Rest, Ref, Level, NA
  <2>2. [w EXCEPT !.pc = "lower"] \in Walker
    BY <1>2 DEF Walker
  <2> QED BY <2>1, <2>2
<1>6. w.seen > w.level => /\ v.pc = "lower" /\ v.seen = w.seen /\ v.curr = w.curr
                          /\ v.level = w.level /\ v.item = w.item
  BY <1>2 DEF Walker
<1>7. ~(w.seen > w.level) => v = Rest
  OBVIOUS
<1>8. walker'[t] = v /\ \A u \in Threads \ {t} : walker'[u] = walker[u]
  BY <1>1 DEF Typed
<1> HIDE DEF v
<1>9. Typed'
  <2>1. walker' \in [Threads -> Walker]
    BY <1>1, <1>5 DEF Typed
  <2> QED BY <1>1, <2>1 DEF Typed
<1>10. height' = height /\ Arranged' /\ MarksLow'
  BY <1>1 DEF list, Arranged, MarksLow, height
<1>11. Busy(t)' => /\ walker'[t].curr = w.curr /\ walker'[t].level = w.level
                   /\ walker'[t].item = w.item /\ walker'[t].seen = w.seen /\ w.seen > w.level
                   /\ walker'[t].pc = "lower"
  BY <1>6, <1>7, <1>8 DEF Busy, Rest
<1>12. ~Busy(t)' => walker'[t] = Rest /\ ~(w.seen > w.level)
  BY <1>6, <1>7, <1>8 DEF Busy
<1>13. Walks'
  <2>1. ASSUME NEW u \in Threads
        PROVE  IF Busy(u)' THEN OnItsWay(u)' /\ SawMark(u)' ELSE walker'[u] = Rest
    <3>1. CASE u = t /\ Busy(t)'
      <4>1. w.seen # NA
        BY <1>3, <1>11, <3>1
      <4>2. SawMark(t)'
        BY <1>1, <1>2, <1>11, <3>1, <4>1 DEF SawMark, Marked
      <4>3. OnItsWay(t)'
        BY <1>1, <1>2, <1>10, <1>11, <3>1 DEF OnItsWay
      <4> QED BY <3>1, <4>2, <4>3
    <3>2. CASE u # t
      BY <1>1, <1>8, <1>10, <3>2 DEF Walks, Busy, OnItsWay, SawMark, Marked
    <3> QED BY <1>12, <3>1, <3>2
  <2>2. \A u \in Threads : Busy(u)' => Busy(u) /\ walker'[u].item = walker[u].item
    BY <1>2, <1>8, <1>11 DEF Busy
  <2>3. \A s, u \in Threads : s # u /\ Busy(s)' /\ Busy(u)' => walker'[s].item # walker'[u].item
    BY <1>1, <2>2 DEF Walks
  <2> QED BY <2>1, <2>3 DEF Walks
<1>14. Alone'
  <2>1. \A u \in Threads : Busy(u)' => Busy(u)
    BY <1>2, <1>8 DEF Busy
  <2>2. crew' = crew
    BY <1>1 DEF list
  <2>3. ASSUME crew = 1, NEW u \in Threads, walker'[u].pc = "claim", walker'[u].seen = NA
        PROVE  ~Marked(walker[u].curr)'
    <3>1. u # t
      BY <1>11, <1>12, <2>3 DEF Rest
    <3> QED BY <1>1, <1>8, <2>3, <3>1 DEF Marked, Alone
  <2> QED BY <1>1, <2>1, <2>2, <2>3 DEF Alone
<1>15. Unbegun'
  BY <1>1 DEF Base, Unbegun
<1>16. ASSUME MarkInv, ~MissesMark(t) PROVE WalkInv'
  <2>0. WalkInv
    BY <1>2, <1>16 DEF MarkInv
  <2>1. \A x \in Elements : Marked(x)' = Marked(x) /\ (Marked(x) => mark'[x] <= mark[x])
    BY <1>1, NumbersOf DEF Marked
  <2>2. ASSUME ~Busy(t)' PROVE mark'[w.curr] <= w.level \/ mark'[w.curr] <= 1
    <3>1. CASE w.seen # NA
      <4>1. mark[w.curr] <= w.seen /\ ~(w.seen > w.level)
        BY <1>1, <1>2, <1>12, <2>2, <3>1 DEF SawMark
      <4> QED BY <1>1, <1>3, <4>1
    <3>2. CASE w.seen = NA
      <4>1. ~(mark[w.curr] > w.level) \/ ~(mark[w.curr] > 1)
        BY <1>16, <3>2 DEF MissesMark
      <4> QED BY <1>1, <1>3, <4>1
    <3> QED BY <3>1, <3>2
  <2>3. mark'[w.curr] # NA
    BY <1>1, <1>4 DEF Marked
  <2> QED BY <1>1, <1>2, <1>8, <1>9, <1>11, <2>0, <2>1, <2>2, <2>3, WalkKept
<1> QED BY <1>1, <1>2, <1>9, <1>10, <1>13, <1>14, <1>15, <1>16 DEF Base, MarkInv

LEMMA LowerKeeps ==
  ASSUME Base, NEW t \in Threads, Lower(t)
  PROVE  Base' /\ (MarkInv => MarkInv')
<1> DEFINE w == walker[t]
           low == IF w.level < mark[w.curr] THEN w.level ELSE mark[w.curr]
<1>1. /\ Typed /\ Arranged /\ Walks /\ Alone /\ MarksLow
      /\ w.pc = "lower"
      /\ walker' = [walker EXCEPT ![t] = Rest]
      /\ mark' = [mark EXCEPT ![w.curr] = low]
      /\ UNCHANGED <<list, value, stage, batch, todo, tops>>
  BY DEF Base, Lower
<1>2. Busy(t) /\ OnItsWay(t) /\ SawMark(t) /\ stage = "walk" /\ w \in Walker /\ w.curr \in Elements
  BY <1>1 DEF Walks, Busy, OnItsWay, Typed
<1>3. /\ w.level \in Nat /\ w.level \in Level /\ NA = -1
      /\ \A x \in Elements : mark[x] \in Int /\ height[x] \in Int /\ (mark[x] \in Level \/ mark[x] = NA)
  BY <1>1, <1>2, NumbersOf
<1>4. Marked(w.curr)
  BY <1>1, <1>2 DEF SawMark
<1>5. walker'[t] = Rest /\ \A u \in Threads \ {t} : walker'[u] = walker[u]
  BY <1>1 DEF Typed
<1>6. low \in Level /\ low <= w.level /\ low <= mark[w.curr] /\ low # NA /\ low \in Int
  BY <1>2, <1>3, <1>4 DEF Marked, Level
<1>7. mark'[w.curr] = low /\ \A x \in Elements \ {w.curr} : mark'[x] = mark[x]
  BY <1>1, <1>2 DEF Typed
<1>8. \A x \in Elements : Marked(x)' = Marked(x) /\ mark'[x] <= mark[x] /\ mark'[x] \in Int
  BY <1>3, <1>4, <1>6, <1>7 DEF Marked
<1> HIDE DEF low
<1>9. Typed'
  <2>1. Rest \in Walker
    BY BatchesAreBounded, HeightsArePositive DEF Walker, Rest, Ref, Level, NA
  <2>2. walker' \in [Threads -> Walker]
    BY <1>1, <2>1 DEF Typed
  <2>3. mark' \in [Elements -> Level \cup {NA}]
    BY <1>1, <1>6 DEF Typed
  <2> QED BY <1>1, <2>2, <2>3 DEF Typed
<1>10. height' = height /\ Arranged'
  BY <1>1 DEF list, Arranged, height
<1>11. MarksLow'
  <2> SUFFICES ASSUME NEW x \in Elements PROVE mark'[x] < height[x]
    BY <1>10 DEF MarksLow
  <2> QED BY <1>1, <1>3, <1>8 DEF MarksLow
<1>12. \A u \in Threads : Busy(u)' => u # t /\ Busy(u)
  BY <1>5 DEF Busy, Rest
<1>13. Walks'
  <2>1. ASSUME NEW u \in Threads
        PROVE  IF Busy(u)' THEN OnItsWay(u)' /\ SawMark(u)' ELSE walker'[u] = Rest
    <3>1. CASE u # t /\ Busy(u)
      <4>1. OnItsWay(u) /\ SawMark(u) /\ walker'[u] = walker[u]
        BY <1>1, <1>5, <3>1 DEF Walks
      <4>2. OnItsWay(u)'
        BY <1>1, <1>10, <4>1 DEF OnItsWay
      <4>3. SawMark(u)'
        <5>1. walker[u].curr \in Elements /\ walker[u].seen \in Int
          BY <1>1, <4>1, NumbersOf DEF OnItsWay
        <5>2. \A x \in Elements : /\ mark[x] # NA => mark'[x] # NA
                                  /\ mark'[x] <= mark[x] /\ mark'[x] \in Int /\ mark[x] \in Int
          BY <1>3, <1>8 DEF Marked
        <5>3. walker[u].seen # NA /\ walker[u].pc \in {"claim", "lower"} =>
                mark[walker[u].curr] # NA /\ mark[walker[u].curr] <= walker[u].seen
          BY <4>1 DEF SawMark, Marked
        <5>4. walker[u].seen # NA /\ walker[u].pc \in {"claim", "lower"} =>
                mark'[walker[u].curr] # NA /\ mark'[walker[u].curr] <= walker[u].seen
          BY <5>1, <5>2, <5>3
        <5>5. walker[u].pc = "lower" => walker[u].seen # NA
          BY <4>1 DEF SawMark
        <5>6. walker[u].pc \in {"claim", "lower"} /\ walker[u].seen # NA =>
                mark'[walker'[u].curr] # NA /\ mark'[walker'[u].curr] <= walker[u].seen
          BY <4>1, <5>4
        <5>7. walker'[u] = walker[u]
          BY <4>1
        <5> QED BY <5>5, <5>6, <5>7 DEF SawMark, Marked
      <4>4. Busy(u)'
        BY <3>1, <4>1 DEF Busy
      <4> QED BY <4>2, <4>3, <4>4
    <3>2. CASE u # t /\ ~Busy(u)
      BY <1>1, <1>5, <3>2 DEF Walks, Busy
    <3> QED BY <1>5, <1>12, <3>1, <3>2
  <2>2. \A s, u \in Threads : s # u /\ Busy(s)' /\ Busy(u)' => walker'[s].item # walker'[u].item
    BY <1>1, <1>5, <1>12 DEF Walks
  <2> QED BY <2>1, <2>2 DEF Walks
<1>14. Alone'
  <2>1. ASSUME crew = 1, NEW u \in Threads, walker'[u].pc = "claim" PROVE FALSE
    <3>1. u # t /\ Busy(u)
      BY <1>5, <2>1 DEF Rest, Busy
    <3> QED BY <1>1, <1>2, <2>1, <3>1 DEF Alone
  <2>2. crew' = crew
    BY <1>1 DEF list
  <2> QED BY <1>1, <1>12, <2>1, <2>2 DEF Alone
<1>15. Unbegun'
  BY <1>1 DEF Base, Unbegun
<1>16. ASSUME MarkInv PROVE WalkInv'
  <2>0. WalkInv
    BY <1>2, <1>16 DEF MarkInv
  <2>1. \A x \in Elements : Marked(x)' = Marked(x) /\ (Marked(x) => mark'[x] <= mark[x])
    BY <1>8
  <2>2. mark'[w.curr] <= w.level /\ mark'[w.curr] # NA
    BY <1>2, <1>4, <1>6, <1>7, <1>8 DEF Marked
  <2>3. ~Busy(t)'
    BY <1>12
  <2> QED BY <1>1, <1>2, <1>5, <1>9, <2>0, <2>1, <2>2, <2>3, WalkKept
<1> QED BY <1>1, <1>2, <1>9, <1>10, <1>11, <1>13, <1>14, <1>15, <1>16 DEF Base, MarkInv

(* A claim sets the mark to the level of the walk, and either the walk is at
   the parent next or the node is a topmost one.                           *)
LEMMA ClaimKeeps ==
  ASSUME Base, NEW t \in Threads, Claim(t)
  PROVE  Base' /\ (MarkInv => MarkInv')
<1> DEFINE w == walker[t]
           c == w.curr
           above == [w EXCEPT !.pc = "read", !.curr = Up[c], !.level = height[c], !.seen = NA]
           v == IF Up[c] = Null THEN Rest ELSE above
           i == w.item
<1>1. Typed /\ Arranged /\ Walks /\ Alone /\ MarksLow /\ w.pc = "claim" /\ w.seen = NA
  BY DEF Base, Claim
<1>2. Busy(t) /\ OnItsWay(t) /\ stage = "walk" /\ w \in Walker /\ c \in Elements
  BY <1>1 DEF Walks, Busy, OnItsWay, Typed
<1>3. /\ mark[c] = NA
      /\ mark' = [mark EXCEPT ![c] = w.level]
      /\ UNCHANGED <<list, value, stage, batch, todo>>
  BY DEF Claim
<1>4. /\ walker' = [walker EXCEPT ![t] = v]
      /\ tops' = IF Up[c] = Null THEN [tops EXCEPT ![i] = c] ELSE tops
  <2>1. Up[c] = LeftParent(c, height[c] - 1)
    BY <1>1, <1>2, UpFacts
  <2> QED BY <2>1 DEF Claim
<1>6. /\ w.level \in Level /\ w.level \in Nat /\ NA = -1 /\ MaxHeight \in Nat \ {0}
      /\ \A x \in Elements : mark[x] \in Int /\ height[x] \in 1 .. MaxHeight /\ (mark[x] \in Level \/ mark[x] = NA)
  BY <1>1, NumbersOf
<1>7. Up[c] \in Ref /\ (Up[c] # Null => Up[c] \in Elements /\ height[Up[c]] > height[c])
  BY <1>1, <1>2, UpFacts
<1>8. Up' = Up /\ height' = height /\ Lineage' = Lineage
  BY <1>3, SameGeometry
<1>9. v \in Walker
  <2>1. Rest \in Walker
    BY BatchesAreBounded, HeightsArePositive DEF Walker, Rest, Ref, Level, NA
  <2>2. ASSUME Up[c] # Null PROVE above \in Walker
    <3>1. height[c] \in Level
      BY <1>2, <1>6, <1>7, <2>2 DEF Level
    <3> QED BY <1>2, <1>7, <3>1 DEF Walker
  <2> QED BY <2>1, <2>2
<1>10. Up[c] # Null => v.pc = "read" /\ v.curr = Up[c] /\ v.level = height[c] /\ v.item = i
  BY <1>2 DEF Walker
<1>11. Up[c] = Null => v = Rest
  OBVIOUS
<1>12. walker'[t] = v /\ \A u \in Threads \ {t} : walker'[u] = walker[u]
  BY <1>1, <1>4 DEF Typed
<1> HIDE DEF v
<1>13. mark'[c] = w.level /\ \A x \in Elements \ {c} : mark'[x] = mark[x]
  BY <1>1, <1>2, <1>3 DEF Typed
<1>14. w.level < height[c] /\ i \in DOMAIN batch \ todo /\ tops[i] = Null
  BY <1>2 DEF OnItsWay
<1>15. /\ Up[c] = Null => tops'[i] = c
       /\ Up[c] # Null => tops'[i] = Null
       /\ \A j \in DOMAIN batch \ {i} : tops'[j] = tops[j]
  BY <1>1, <1>4, <1>14 DEF Typed
<1>16. Typed'
  <2>1. walker' \in [Threads -> Walker]
    BY <1>1, <1>4, <1>9 DEF Typed
  <2>2. mark' \in [Elements -> Level \cup {NA}]
    BY <1>1, <1>3, <1>6 DEF Typed
  <2>3. tops' \in [DOMAIN batch -> Ref]
    BY <1>1, <1>2, <1>4 DEF Typed, Ref
  <2> QED BY <1>1, <1>3, <2>1, <2>2, <2>3 DEF Typed
<1>17. Arranged'
  BY <1>1, <1>3 DEF list, Arranged, height
<1>18. MarksLow'
  <2> SUFFICES ASSUME NEW x \in Elements PROVE mark'[x] < height[x]
    BY <1>8 DEF MarksLow
  <2> QED BY <1>1, <1>13, <1>14 DEF MarksLow
<1>19. Busy(t)' => Up[c] # Null
  BY <1>11, <1>12 DEF Busy, Rest
<1>20. \A u \in Threads : Busy(u)' => Busy(u) /\ walker'[u].item = walker[u].item
  BY <1>2, <1>10, <1>12, <1>19 DEF Busy
<1>21. Walks'
  <2>1. ASSUME NEW u \in Threads
        PROVE  IF Busy(u)' THEN OnItsWay(u)' /\ SawMark(u)' ELSE walker'[u] = Rest
    <3>1. CASE u = t /\ Up[c] # Null
      <4>1. Busy(t)' /\ SawMark(t)'
        BY <1>10, <1>12, <3>1 DEF Busy, SawMark
      <4>2. OnItsWay(t)'
        BY <1>2, <1>3, <1>7, <1>8, <1>10, <1>12, <1>14, <1>15, <3>1 DEF OnItsWay
      <4> QED BY <3>1, <4>1, <4>2
    <3>2. CASE u = t /\ Up[c] = Null
      BY <1>11, <1>12, <3>2 DEF Busy, Rest
    <3>3. CASE u # t /\ Busy(u)
      <4>1. OnItsWay(u) /\ SawMark(u) /\ walker'[u] = walker[u]
        BY <1>1, <1>12, <3>3 DEF Walks
      <4>2. walker[u].item # i
        BY <1>1, <1>2, <3>3 DEF Walks
      <4>3. OnItsWay(u)'
        BY <1>3, <1>8, <1>15, <4>1, <4>2 DEF OnItsWay
      <4>4. SawMark(u)'
        <5>1. walker[u].curr \in Elements
          BY <4>1 DEF OnItsWay
        <5>2. walker[u].pc \in {"claim", "lower"} /\ walker[u].seen # NA =>
                mark'[walker[u].curr] # NA /\ mark'[walker[u].curr] <= walker[u].seen
          BY <1>3, <1>13, <4>1, <5>1 DEF SawMark, Marked
        <5> QED BY <4>1, <5>2 DEF SawMark, Marked
      <4>5. Busy(u)'
        BY <3>3, <4>1 DEF Busy
      <4> QED BY <4>3, <4>4, <4>5
    <3>4. CASE u # t /\ ~Busy(u)
      BY <1>1, <1>12, <3>4 DEF Walks, Busy
    <3> QED BY <1>7, <3>1, <3>2, <3>3, <3>4
  <2>2. \A s, u \in Threads : s # u /\ Busy(s)' /\ Busy(u)' => walker'[s].item # walker'[u].item
    BY <1>1, <1>20 DEF Walks
  <2> QED BY <2>1, <2>2 DEF Walks
<1>22. Alone'
  <2>1. ASSUME crew = 1, NEW u \in Threads, walker'[u].pc = "claim" PROVE FALSE
    <3>1. Busy(u)'
      BY <2>1 DEF Busy
    <3>2. u = t
      BY <1>1, <1>2, <1>20, <2>1, <3>1 DEF Alone
    <3> QED BY <1>10, <1>12, <1>19, <2>1, <3>1, <3>2
  <2>2. crew' = crew
    BY <1>3 DEF list
  <2> QED BY <1>1, <1>20, <2>1, <2>2 DEF Alone
<1>23. \A x \in Elements : \A level \in Nat \ {0} : SeenTo(x, level) => SeenTo(x, level)'
  <2>1. \A x \in Elements : Marked(x) => Marked(x)' /\ mark'[x] <= mark[x]
    BY <1>3, <1>6, <1>13 DEF Marked
  <2>2. /\ mark'[walker[t].curr] # NA
        /\ mark'[walker[t].curr] <= walker[t].level \/ mark'[walker[t].curr] <= 1
    BY <1>6, <1>13
  <2> QED BY <1>1, <1>2, <1>12, <1>16, <2>1, <2>2, SeenStays
<1>24. \A x \in Elements : height[x] \in Nat \ {0} /\ Up[x] \in Ref
  BY <1>1, UpFacts
<1>25. Unbegun'
  BY <1>3, <1>14, <1>15, <1>1 DEF Base, Unbegun, Typed
<1>26. ASSUME WalkInv PROVE WalkInv'
  <2>1. (\A j \in DOMAIN batch \ todo : SeenTo(batch[j], height[batch[j]]))'
    <3> SUFFICES ASSUME NEW j \in DOMAIN batch \ todo PROVE SeenTo(batch[j], height[batch[j]])'
      BY <1>3
    <3>1. batch[j] \in Elements /\ SeenTo(batch[j], height[batch[j]])
      BY <1>1, <1>26, BatchElements DEF WalkInv
    <3>2. \A l \in Nat \ {0} : SeenTo(batch[j], l) => SeenTo(batch[j], l)'
      BY <1>3, <1>23, <3>1 DEF SeenTo
    <3> QED BY <1>3, <1>8, <1>24, <3>1, <3>2 DEF SeenTo
  <2>2. (\A x \in Elements :
           Marked(x) => IF Up[x] = Null THEN \E j \in DOMAIN batch : tops[j] = x
                        ELSE SeenTo(Up[x], height[x]))'
    <3> SUFFICES ASSUME NEW x \in Elements, Marked(x)'
                 PROVE  IF Up[x] = Null THEN \E j \in DOMAIN batch : tops'[j] = x
                        ELSE SeenTo(Up[x], height[x])'
      BY <1>3, <1>8
    <3>1. CASE x = c /\ Up[c] = Null
      BY <1>14, <1>15, <3>1
    <3>2. CASE x = c /\ Up[c] # Null
      <4>1. Busy(t)' /\ walker'[t].curr = Up[c] /\ walker'[t].level = height[c]
        BY <1>10, <1>12, <3>2 DEF Busy
      <4>2. SeenTo(Up[x], height[x])'
        BY <1>8, <1>24, <3>2, <4>1 DEF SeenTo
      <4> QED BY <3>2, <4>2
    <3>3. CASE x # c
      <4>1. Marked(x)
        BY <1>13, <3>3 DEF Marked
      <4>2. CASE Up[x] = Null
        <5>1. PICK j \in DOMAIN batch : tops[j] = x
          BY <1>26, <4>1, <4>2 DEF WalkInv
        <5>2. j # i
          BY <1>14, <5>1, ElementsAreAddresses DEF Null
        <5> QED BY <1>15, <4>2, <5>1, <5>2
      <4>3. CASE Up[x] # Null
        <5>1. SeenTo(Up[x], height[x]) /\ Up[x] \in Elements
          BY <1>26, <1>24, <4>1, <4>3 DEF WalkInv, Ref
        <5>2. SeenTo(Up[x], height[x])'
          BY <1>8, <1>23, <1>24, <5>1 DEF SeenTo
        <5> QED BY <4>3, <5>2
      <4> QED BY <4>2, <4>3
    <3> QED BY <3>1, <3>2, <3>3
  <2>3. \A j \in DOMAIN batch : tops[j] \in Ref
    BY <1>1 DEF Typed
  <2>4. \A j \in DOMAIN batch : tops[j] # Null => /\ tops[j] \in Elements /\ tops[j] # c
                                                 /\ j \notin todo /\ Marked(tops[j]) /\ Up[tops[j]] = Null
    BY <1>3, <1>26, <2>3 DEF WalkInv, Marked, Ref
  <2>5. ASSUME NEW j \in DOMAIN batch, tops'[j] # Null
         PROVE  j \notin todo /\ mark'[tops'[j]] # NA /\ Up[tops'[j]] = Null
    <3>1. CASE j = i
      BY <1>6, <1>13, <1>14, <1>15, <2>5, <3>1
    <3>2. CASE j # i
      <4>1. tops'[j] = tops[j] /\ tops[j] # Null
        BY <1>15, <2>5, <3>2
      <4> QED BY <1>13, <2>4, <4>1 DEF Marked
    <3> QED BY <3>1, <3>2
  <2>6. (\A j \in DOMAIN batch :
           tops[j] # Null => j \notin todo /\ Marked(tops[j]) /\ Up[tops[j]] = Null)'
    BY <1>3, <1>8, <2>5 DEF Marked
  <2>7. (\A j, k \in DOMAIN batch : j # k /\ tops[j] # Null => tops[j] # tops[k])'
    <3> SUFFICES ASSUME NEW j \in DOMAIN batch, NEW k \in DOMAIN batch, j # k, tops'[j] # Null
                 PROVE  tops'[j] # tops'[k]
      BY <1>3
    <3>1. CASE j # i /\ k # i
      BY <1>26, <1>15, <3>1 DEF WalkInv
    <3>2. CASE j = i
      <4>1. tops'[j] = c /\ tops'[k] = tops[k]
        BY <1>7, <1>15, <3>2
      <4> QED BY <2>4, <4>1
    <3>3. CASE k = i /\ j # i
      <4>1. tops'[j] = tops[j] /\ tops[j] # Null /\ tops[j] # c /\ tops'[k] \in {c, Null}
        BY <1>15, <2>4, <3>3
      <4> QED BY <4>1
    <3> QED BY <3>1, <3>2, <3>3
  <2>8. c \in Lineage
    BY <1>2, <1>26 DEF WalkInv
  <2>9. (\A x \in Elements : Marked(x) => x \in Lineage)'
    <3>1. ASSUME NEW x \in Elements, mark'[x] # NA PROVE x \in Lineage
      BY <1>26, <1>13, <2>8, <3>1 DEF WalkInv, Marked
    <3> QED BY <1>8, <3>1 DEF Marked
  <2>10. (\A u \in Threads : Busy(u) => walker[u].curr \in Lineage)'
    <3>1. ASSUME NEW u \in Threads, Busy(u)' PROVE walker'[u].curr \in Lineage
      <4>1. CASE u = t
        <5>1. Up[c] # Null /\ walker'[u].curr = Up[c]
          BY <1>10, <1>12, <1>19, <3>1, <4>1
        <5> QED BY <1>1, <2>8, <5>1, LineageFacts
      <4>2. CASE u # t
        BY <1>26, <1>12, <1>20, <3>1, <4>2 DEF WalkInv
      <4> QED BY <4>1, <4>2
    <3> QED BY <1>8, <3>1
  <2> QED BY <2>1, <2>2, <2>6, <2>7, <2>9, <2>10 DEF WalkInv
<1> QED BY <1>2, <1>3, <1>16, <1>17, <1>18, <1>21, <1>22, <1>25, <1>26 DEF Base, MarkInv

LEMMA PickKeeps ==
  ASSUME Base, NEW t \in Threads, Pick(t)
  PROVE  Base' /\ (MarkInv => MarkInv')
<1>1. /\ Typed /\ Arranged /\ Walks /\ Alone /\ MarksLow /\ Unbegun
      /\ stage = "walk" /\ walker[t] = Rest
      /\ Cardinality({u \in Threads : walker[u] # Rest}) < crew
      /\ UNCHANGED <<list, value, mark, stage, batch, tops>>
  BY DEF Base, Pick
<1>2. PICK i \in todo : /\ todo' = todo \ {i}
                        /\ walker' = [walker EXCEPT ![t] =
                             [Rest EXCEPT !.pc = "read", !.item = i, !.curr = batch[i]]]
  BY DEF Pick
<1> DEFINE v == [Rest EXCEPT !.pc = "read", !.item = i, !.curr = batch[i]]
<1>0. todo' = todo \ {i} /\ i \in todo
  BY <1>2
<1>3. i \in DOMAIN batch /\ batch[i] \in Elements /\ i \in 0 .. MaxBatch
  BY <1>1, BatchElements DEF Typed
<1>4. /\ v \in Walker /\ v.pc = "read" /\ v.curr = batch[i] /\ v.item = i /\ v.level = 0 /\ v.seen = NA
  <2>1. Rest \in Walker /\ Rest.level = 0 /\ Rest.seen = NA
    BY BatchesAreBounded, HeightsArePositive DEF Walker, Rest, Ref, Level, NA
  <2>2. batch[i] \in Ref
    BY <1>3 DEF Ref
  <2> QED BY <1>3, <2>1, <2>2 DEF Walker
<1>5. walker'[t] = v /\ \A u \in Threads \ {t} : walker'[u] = walker[u]
  BY <1>1, <1>2 DEF Typed
<1>6. walker' = [walker EXCEPT ![t] = v]
  BY <1>2
<1> HIDE DEF v
<1>7. Up' = Up /\ height' = height /\ Lineage' = Lineage
  BY <1>1, SameGeometry
<1>8. Typed' /\ Arranged' /\ MarksLow'
  <2>1. walker' \in [Threads -> Walker]
    BY <1>1, <1>4, <1>6 DEF Typed
  <2> QED BY <1>1, <1>2, <1>7, <2>1 DEF Typed, Arranged, MarksLow, list
<1>9. ~Busy(t) /\ Busy(t)'
  BY <1>1, <1>4, <1>5 DEF Busy, Rest
<1>10. tops[i] = Null
  BY <1>0, <1>1 DEF Unbegun
<1>11. \A x \in Elements : height[x] \in Nat \ {0} /\ Up[x] \in Ref
  BY <1>1, UpFacts
<1>12. Walks'
  <2>1. ASSUME NEW u \in Threads
        PROVE  IF Busy(u)' THEN OnItsWay(u)' /\ SawMark(u)' ELSE walker'[u] = Rest
    <3>1. CASE u = t
      <4>1. OnItsWay(t)'
        <5>1. 0 < height[batch[i]]
          BY <1>3, <1>11
        <5> QED BY <1>0, <1>1, <1>3, <1>4, <1>5, <1>7, <1>10, <5>1 DEF OnItsWay
      <4>2. SawMark(t)'
        BY <1>4, <1>5 DEF SawMark
      <4> QED BY <1>9, <3>1, <4>1, <4>2
    <3>2. CASE u # t /\ Busy(u)
      <4>1. OnItsWay(u) /\ SawMark(u) /\ walker'[u] = walker[u]
        BY <1>1, <1>5, <3>2 DEF Walks
      <4>2. OnItsWay(u)'
        BY <1>0, <1>1, <1>7, <4>1 DEF OnItsWay
      <4>3. SawMark(u)' /\ Busy(u)'
        BY <1>1, <3>2, <4>1 DEF SawMark, Marked, Busy
      <4> QED BY <4>2, <4>3
    <3>3. CASE u # t /\ ~Busy(u)
      BY <1>1, <1>5, <3>3 DEF Walks, Busy
    <3> QED BY <3>1, <3>2, <3>3
  <2>2. \A u \in Threads \ {t} : Busy(u)' => Busy(u) /\ walker'[u].item = walker[u].item /\ walker[u].item # i
    BY <1>1, <1>2, <1>5 DEF Busy, Walks, OnItsWay
  <2>3. \A s, u \in Threads : s # u /\ Busy(s)' /\ Busy(u)' => walker'[s].item # walker'[u].item
    BY <1>1, <1>4, <1>5, <2>2 DEF Walks
  <2> QED BY <2>1, <2>3 DEF Walks
<1>13. Alone'
  <2>1. ASSUME crew = 1, NEW u \in Threads, Busy(u) PROVE FALSE
    <3> DEFINE B == {s \in Threads : walker[s] # Rest}
    <3>1. IsFiniteSet(B)
      BY ThreadsAreFinite, FS_Subset
    <3>2. u \in B
      BY <2>1 DEF Busy, Rest
    <3>3. Cardinality(B) \in Nat /\ Cardinality(B) # 0
      BY <3>1, <3>2, FS_CardinalityType, FS_EmptySet
    <3> QED BY <1>1, <2>1, <3>3
  <2>2. crew' = crew
    BY <1>1 DEF list
  <2>3. ASSUME crew = 1, NEW u \in Threads, Busy(u)' PROVE u = t
    BY <1>5, <2>1, <2>3 DEF Busy
  <2>4. ASSUME crew = 1, NEW u \in Threads, walker'[u].pc = "claim" PROVE FALSE
    <3>1. u = t
      BY <2>3, <2>4 DEF Busy
    <3> QED BY <1>4, <1>5, <2>4, <3>1
  <2> QED BY <2>2, <2>3, <2>4 DEF Alone
<1>14. \A x \in Elements : \A level \in Nat : SeenTo(x, level) => SeenTo(x, level)'
  <2> SUFFICES ASSUME NEW x \in Elements, NEW level \in Nat, SeenTo(x, level) PROVE SeenTo(x, level)'
    OBVIOUS
  <2>1. CASE Marked(x) /\ mark[x] <= level
    BY <1>1, <2>1 DEF SeenTo, Marked
  <2>2. ASSUME NEW u \in Threads, Busy(u), walker[u].curr = x, walker[u].level <= level
        PROVE  SeenTo(x, level)'
    <3>1. walker'[u] = walker[u]
      BY <1>5, <1>9, <2>2
    <3> QED BY <2>2, <3>1 DEF SeenTo, Busy
  <2> QED BY <2>1, <2>2 DEF SeenTo
<1>15. Unbegun'
  BY <1>0, <1>1 DEF Unbegun
<1>16. ASSUME WalkInv PROVE WalkInv'
  <2>1. (\A j \in DOMAIN batch \ todo : SeenTo(batch[j], height[batch[j]]))'
    <3> SUFFICES ASSUME NEW j \in DOMAIN batch \ todo' PROVE SeenTo(batch[j], height[batch[j]])'
      BY <1>1
    <3>1. batch[j] \in Elements /\ height[batch[j]] \in Nat
      BY <1>1, <1>11, BatchElements
    <3>2. CASE j = i
      <4>1. walker'[t].curr = batch[j] /\ walker'[t].level <= height[batch[j]]
        BY <1>4, <1>5, <3>1, <3>2
      <4> QED BY <1>1, <1>7, <1>9, <4>1 DEF SeenTo
    <3>3. CASE j # i
      <4>1. SeenTo(batch[j], height[batch[j]])
        BY <1>16, <1>1, <1>2, <3>3 DEF WalkInv
      <4>2. \A l \in Nat : SeenTo(batch[j], l) => SeenTo(batch[j], l)'
        BY <1>1, <1>14, <3>1 DEF SeenTo
      <4> QED BY <1>1, <1>7, <3>1, <4>1, <4>2 DEF SeenTo
    <3> QED BY <3>2, <3>3
  <2>2. (\A x \in Elements :
           Marked(x) => IF Up[x] = Null THEN \E j \in DOMAIN batch : tops[j] = x
                        ELSE SeenTo(Up[x], height[x]))'
    <3> SUFFICES ASSUME NEW x \in Elements, Marked(x)'
                 PROVE  IF Up[x] = Null THEN \E j \in DOMAIN batch : tops[j] = x
                        ELSE SeenTo(Up[x], height[x])'
      BY <1>1, <1>7
    <3>1. Marked(x)
      BY <1>1 DEF Marked
    <3>2. CASE Up[x] = Null
      BY <1>16, <1>1, <3>1, <3>2 DEF WalkInv
    <3>3. CASE Up[x] # Null
      <4>1. SeenTo(Up[x], height[x]) /\ Up[x] \in Elements /\ height[x] \in Nat
        BY <1>16, <1>1, <1>11, <3>1, <3>3 DEF WalkInv, Ref
      <4>2. SeenTo(Up[x], height[x])'
        BY <1>7, <1>14, <4>1 DEF SeenTo
      <4> QED BY <3>3, <4>2
    <3> QED BY <3>2, <3>3
  <2>3. (\A j \in DOMAIN batch :
           tops[j] # Null => j \notin todo /\ Marked(tops[j]) /\ Up[tops[j]] = Null)'
    <3>1. \A j \in DOMAIN batch : tops[j] # Null => j \notin todo' /\ mark'[tops[j]] # NA /\ Up[tops[j]] = Null
      BY <1>16, <1>1, <1>2 DEF WalkInv, Marked
    <3> QED BY <1>1, <1>7, <3>1 DEF Marked
  <2>4. (\A j, k \in DOMAIN batch : j # k /\ tops[j] # Null => tops[j] # tops[k])'
    BY <1>16, <1>1 DEF WalkInv
  <2>5. (\A x \in Elements : Marked(x) => x \in Lineage)'
    <3>1. \A x \in Elements : mark'[x] # NA => x \in Lineage
      BY <1>16, <1>1 DEF WalkInv, Marked
    <3> QED BY <1>7, <3>1 DEF Marked
  <2>6. (\A u \in Threads : Busy(u) => walker[u].curr \in Lineage)'
    <3>1. ASSUME NEW u \in Threads, Busy(u)' PROVE walker'[u].curr \in Lineage
      <4>1. CASE u = t
        BY <1>1, <1>3, <1>4, <1>5, <4>1, LineageFacts
      <4>2. CASE u # t
        BY <1>16, <1>1, <1>5, <3>1, <4>2 DEF WalkInv, Busy
      <4> QED BY <4>1, <4>2
    <3> QED BY <1>7, <3>1
  <2> QED BY <2>1, <2>2, <2>3, <2>4, <2>5, <2>6 DEF WalkInv
<1> QED BY <1>1, <1>8, <1>12, <1>13, <1>15, <1>16 DEF Base, MarkInv

----
(* The steps between the walks *)

(* Where nobody walks the workers rest, and a step in which they go on
   resting keeps what is said of walks.                                    *)
LEMMA AtRest ==
  ASSUME Base, stage # "walk"
  PROVE  \A t \in Threads : ~Busy(t) /\ walker[t] = Rest
BY DEF Base, Walks, OnItsWay

LEMMA RestingOn ==
  ASSUME \A t \in Threads : ~Busy(t) /\ walker[t] = Rest, walker' = walker
  PROVE  Walks' /\ Alone'
<1>1. \A t \in Threads : ~Busy(t)' /\ walker'[t] = Rest
  BY DEF Busy
<1> QED BY <1>1 DEF Walks, Alone, Busy

(* A batch of walks begins without marks.                                  *)
LEMMA WalkBegins ==
  ASSUME Base, stage = "idle", NEW b \in Batches, Walk(b), Arranged',
         UNCHANGED <<shape, mark, walker>>
  PROVE  Base' /\ (MarkInv => MarkInv')
<1>1. Typed /\ MarksLow
  BY DEF Base
<1>2. \A t \in Threads : ~Busy(t) /\ walker[t] = Rest
  BY AtRest
<1>3. Typed'
  BY <1>1 DEF Typed, Walk, Ref
<1>4. MarksLow'
  BY <1>1 DEF MarksLow, height
<1>5. MarkInv => \A x \in Elements : ~Marked(x)'
  BY DEF MarkInv, Marked
<1>6. MarkInv => WalkInv'
  <2>1. todo' = DOMAIN batch' /\ \A i \in DOMAIN batch' : tops'[i] = Null
    BY DEF Walk
  <2>2. \A t \in Threads : ~Busy(t)'
    BY <1>2 DEF Busy
  <2> QED BY <1>5, <2>1, <2>2 DEF WalkInv
<1>7. stage' = "walk" /\ Unbegun'
  BY DEF Walk, Unbegun
<1> QED BY <1>2, <1>3, <1>4, <1>6, <1>7, RestingOn DEF Base, MarkInv

LEMMA JoinKeeps ==
  ASSUME Base, NEW b \in Batches, BatchJoin(b)
  PROVE  Base' /\ (MarkInv => MarkInv')
<1>1. stage = "idle" /\ Walk(b) /\ bonds' = bonds \cup Of(b) /\ UNCHANGED <<shape, crew, mark, walker>>
  BY DEF BatchJoin
<1>2. Of(b) \subseteq Elements
  BY DEF Batches, Of
<1>3. Arranged'
  BY <1>1, <1>2 DEF Base, Arranged, height
<1> QED BY <1>1, <1>3, WalkBegins

LEMMA UpdateKeeps ==
  ASSUME Base, NEW b \in Batches, NEW new_values, BatchUpdate(b, new_values)
  PROVE  Base' /\ (MarkInv => MarkInv')
<1>1. stage = "idle" /\ Walk(b) /\ UNCHANGED <<list, mark, walker>>
  BY DEF BatchUpdate
<1>2. Arranged' /\ shape' = shape
  BY <1>1 DEF Base, Arranged, height, list
<1> QED BY <1>1, <1>2, WalkBegins

LEMMA StartDownKeeps ==
  ASSUME Base, StartDown
  PROVE  Base' /\ (MarkInv => MarkInv')
<1>1. /\ Typed /\ Arranged /\ MarksLow /\ stage = "walk"
      /\ \A t \in Threads : walker[t] = Rest
      /\ stage' = "down"
      /\ todo' = {i \in DOMAIN tops : tops[i] # Null}
      /\ UNCHANGED <<list, value, mark, batch, tops, walker>>
  BY DEF Base, StartDown, AllRest
<1>2. \A t \in Threads : ~Busy(t) /\ walker[t] = Rest
  BY <1>1 DEF Busy, Rest
<1>3. Typed'
  BY <1>1 DEF Typed
<1>4. Up' = Up /\ height' = height
  BY <1>1, SameGeometry
<1>5. Arranged' /\ MarksLow'
  BY <1>1, <1>4 DEF Arranged, MarksLow, list
<1>6. ASSUME MarkInv PROVE DownInv'
  <2>3. WalkInv
    BY <1>1, <1>6 DEF MarkInv
  <2>0. \A i \in todo' : tops'[i] # Null
    BY <1>1
  <2> SUFFICES ASSUME NEW x \in Elements, mark[x] # NA
               PROVE  IF Up[x] = Null THEN \E i \in todo' : tops[i] = x
                      ELSE mark[Up[x]] # NA /\ mark[Up[x]] <= height[x]
    BY <1>1, <1>4, <2>0 DEF DownInv, Marked
  <2>1. IF Up[x] = Null THEN \E i \in DOMAIN batch : tops[i] = x ELSE SeenTo(Up[x], height[x])
    BY <2>3 DEF WalkInv, Marked
  <2>2. x # Null /\ DOMAIN tops = DOMAIN batch
    BY <1>1, Heights DEF Typed
  <2> QED BY <1>1, <1>2, <2>1, <2>2 DEF SeenTo, Marked
<1> QED BY <1>1, <1>2, <1>3, <1>5, <1>6, RestingOn DEF Base, MarkInv, Unbegun

(* An update takes back the mark of its topmost node, and of a node with
   its parent's.                                                           *)
LEMMA UpdateTopDownKeeps ==
  ASSUME Base, NEW i \in DOMAIN batch, UpdateTopDown(i)
  PROVE  Base' /\ (MarkInv => MarkInv')
<1> DEFINE r == tops[i]
           gone == {y \in Elements : y \in Visited(r)[height[y] - 1]}
<1>1. /\ Typed /\ Arranged /\ MarksLow
      /\ stage = "down" /\ i \in todo
      /\ mark' = [y \in Elements |-> IF y \in Visited(r)[height[y] - 1] THEN NA ELSE mark[y]]
      /\ todo' = todo \ {i}
      /\ UNCHANGED <<list, stage, batch, tops, walker>>
  BY DEF Base, UpdateTopDown
<1>2. \A y \in Elements : mark'[y] = IF y \in gone THEN NA ELSE mark[y]
  BY <1>1
<1>3. ASSUME NEW x \in Elements, Marked(x), Up[x] # Null, mark[Up[x]] <= height[x],
             r \in Elements, Up[x] \in gone
      PROVE  x \in gone
  BY <1>1, <1>3, VisitedDown
<1>4. r \in Elements => r \in gone
  BY <1>1, VisitedTop
<1> HIDE DEF gone
<1>5. \A t \in Threads : ~Busy(t) /\ walker[t] = Rest
  BY <1>1, AtRest
<1>6. Up' = Up /\ height' = height
  BY <1>1, SameGeometry
<1>7. Arranged'
  BY <1>1, <1>6 DEF Arranged, list
<1>8. Typed'
  <2>1. mark' \in [Elements -> Level \cup {NA}]
    BY <1>1 DEF Typed
  <2> QED BY <1>1, <2>1 DEF Typed
<1>9. MarksLow'
  <2> SUFFICES ASSUME NEW y \in Elements PROVE mark'[y] < height[y]
    BY <1>6 DEF MarksLow
  <2>1. NA < height[y]
    BY <1>1, NumbersOf
  <2> QED BY <1>1, <1>2, <2>1 DEF MarksLow
<1>10. ASSUME DownInv PROVE DownInv'
  <2>4. r \in Elements
    BY <1>1, <1>10 DEF Typed, DownInv, Ref
  <2>0. \A j \in todo' : tops'[j] # Null
    BY <1>10, <1>1 DEF DownInv
  <2> SUFFICES ASSUME NEW x \in Elements, mark'[x] # NA
               PROVE  IF Up[x] = Null THEN \E j \in todo' : tops[j] = x
                      ELSE mark'[Up[x]] # NA /\ mark'[Up[x]] <= height[x]
    BY <1>1, <1>6, <2>0 DEF DownInv, Marked
  <2>1. x \notin gone /\ Marked(x)
    BY <1>2 DEF Marked
  <2>2. CASE Up[x] = Null
    <3>1. PICK j \in todo : tops[j] = x
      BY <1>10, <1>1, <2>1, <2>2 DEF DownInv
    <3>2. j # i
      BY <2>4, <1>4, <2>1, <3>1
    <3> QED BY <1>1, <2>2, <3>1, <3>2
  <2>3. CASE Up[x] # Null
    <3>1. Marked(Up[x]) /\ mark[Up[x]] <= height[x] /\ Up[x] \in Elements
      BY <1>10, <1>1, <2>1, <2>3, UpFacts DEF DownInv
    <3>2. Up[x] \notin gone
      BY <2>4, <1>3, <2>1, <2>3, <3>1
    <3>3. mark'[Up[x]] = mark[Up[x]]
      BY <1>2, <3>1, <3>2
    <3> QED BY <2>3, <3>1, <3>3 DEF Marked
  <2> QED BY <2>2, <2>3
<1> QED BY <1>1, <1>5, <1>7, <1>8, <1>9, <1>10, RestingOn DEF Base, MarkInv, Unbegun

LEMMA EmptyBatch ==
  ASSUME Finish, Typed, mark' \in [Elements -> Level \cup {NA}], walker' = walker
  PROVE  Typed'
<1>1. DOMAIN <<>> = {} /\ <<>> \in [DOMAIN <<>> -> Ref]
  OBVIOUS
<1> QED BY <1>1 DEF Finish, Typed

(* When the updates have ended no mark is left: the tallest marked element
   would have a marked parent, or be a topmost node still to be updated.   *)
LEMMA EndUpdateKeeps ==
  ASSUME Base, EndUpdate
  PROVE  Base' /\ (MarkInv => MarkInv')
<1>1. /\ Typed /\ Arranged /\ MarksLow /\ stage = "down" /\ todo = {}
      /\ Finish /\ UNCHANGED <<list, value, mark, walker>>
  BY DEF Base, EndUpdate
<1>2. \A x \in Elements : height[x] \in 1 .. MaxHeight
  BY <1>1, Heights
<1>3. MaxHeight \in Nat
  BY HeightsArePositive
<1>4. ASSUME DownInv, NEW z \in Elements, Marked(z) PROVE FALSE
  <2> DEFINE T == {MaxHeight - height[x] : x \in {y \in Elements : Marked(y)}}
  <2>1. T \subseteq Nat /\ T # {}
    BY <1>2, <1>3, <1>4
  <2>2. PICK m \in T : \A n \in T : m <= n
    BY <2>1, LeastNumber
  <2>3. PICK x \in Elements : Marked(x) /\ m = MaxHeight - height[x]
    BY <2>2
  <2>4. Up[x] # Null /\ Marked(Up[x])
    BY <1>1, <1>4, <2>3 DEF DownInv
  <2>5. Up[x] \in Elements /\ height[Up[x]] > height[x]
    BY <1>1, <2>3, <2>4, UpFacts
  <2>6. MaxHeight - height[Up[x]] \in T
    BY <2>4, <2>5
  <2>7. MaxHeight - height[x] <= MaxHeight - height[Up[x]]
    BY <2>2, <2>3, <2>6
  <2> QED BY <1>2, <1>3, <2>3, <2>5, <2>7
<1>5. Typed'
  BY <1>1, EmptyBatch DEF Typed
<1>6. Arranged' /\ MarksLow'
  BY <1>1 DEF Arranged, MarksLow, height, list
<1>7. DownInv => \A x \in Elements : ~Marked(x)'
  BY <1>1, <1>4 DEF Marked
<1>8. Walks' /\ Alone'
  BY <1>1, AtRest, RestingOn
<1>9. stage' = "idle"
  BY <1>1 DEF Finish
<1> QED BY <1>1, <1>5, <1>6, <1>7, <1>8, <1>9 DEF Base, MarkInv, Unbegun

LEMMA SplitKeeps ==
  ASSUME Base, NEW b \in Batches, BatchSplit(b)
  PROVE  Base' /\ (MarkInv => MarkInv')
<1>1. /\ Typed /\ Arranged /\ MarksLow /\ stage = "idle"
      /\ bonds' = bonds \ Of(b) /\ stage' = "split" /\ batch' = b
      /\ todo' = DOMAIN b /\ tops' = [i \in DOMAIN b |-> Null]
      /\ UNCHANGED <<shape, crew, value, mark, walker>>
  BY DEF Base, BatchSplit
<1>2. Typed'
  BY <1>1 DEF Typed, Ref
<1>3. Arranged' /\ MarksLow'
  BY <1>1 DEF Arranged, MarksLow, height
<1>4. MarkInv => SplitInv'
  BY <1>1 DEF MarkInv, SplitInv, Marked
<1>5. Walks' /\ Alone'
  BY <1>1, AtRest, RestingOn
<1> QED BY <1>1, <1>2, <1>3, <1>4, <1>5 DEF Base, MarkInv, Unbegun

LEMMA UpdateSplitKeeps ==
  ASSUME Base, NEW i \in DOMAIN batch, UpdateSplit(i)
  PROVE  Base' /\ (MarkInv => MarkInv')
<1> DEFINE x == batch[i]
<1>1. /\ Typed /\ Arranged /\ MarksLow /\ stage = "split"
      /\ mark' = [mark EXCEPT ![x] = 0] \/ mark' = mark
      /\ todo' = todo \ {i}
      /\ UNCHANGED <<list, stage, batch, tops, walker>>
  BY DEF Base, UpdateSplit
<1>2. x \in Elements /\ x \in Of(batch) /\ 0 \in Level
  BY <1>1, BatchElements, HeightsArePositive DEF Of, Level
<1> HIDE DEF x
<1>3. Typed'
  <2>1. mark' \in [Elements -> Level \cup {NA}]
    BY <1>1, <1>2 DEF Typed
  <2> QED BY <1>1, <2>1 DEF Typed
<1>4. height' = height /\ Arranged'
  BY <1>1 DEF Arranged, height, list
<1>5. \A y \in Elements : mark'[y] = mark[y] \/ (y = x /\ mark'[y] = 0)
  BY <1>1, <1>2 DEF Typed
<1>6. MarksLow'
  <2> SUFFICES ASSUME NEW y \in Elements PROVE mark'[y] < height[y]
    BY <1>4 DEF MarksLow
  <2>1. 0 < height[y]
    BY <1>1, Heights
  <2> QED BY <1>1, <1>5, <2>1 DEF MarksLow
<1>7. ASSUME SplitInv PROVE SplitInv'
  <2>1. \A y \in Elements : mark'[y] # NA => y \in Of(batch)
    BY <1>2, <1>5, <1>7 DEF SplitInv, Marked
  <2>2. Of(batch)' = Of(batch)
    BY <1>1 DEF Of
  <2> QED BY <2>1, <2>2 DEF SplitInv, Marked
<1>8. Walks' /\ Alone'
  BY <1>1, AtRest, RestingOn
<1> QED BY <1>1, <1>3, <1>4, <1>6, <1>7, <1>8 DEF Base, MarkInv, Unbegun

LEMMA EndSplitKeeps ==
  ASSUME Base, EndSplit
  PROVE  Base' /\ (MarkInv => MarkInv')
<1>1. /\ Typed /\ Arranged /\ MarksLow /\ stage = "split"
      /\ mark' = [x \in Elements |-> IF x \in Of(batch) THEN NA ELSE mark[x]]
      /\ Finish /\ UNCHANGED <<list, value, walker>>
  BY DEF Base, EndSplit
<1>2. SplitInv => \A x \in Elements : mark'[x] = NA
  BY <1>1 DEF SplitInv, Marked
<1>3. mark' \in [Elements -> Level \cup {NA}]
  BY <1>1 DEF Typed
<1>4. Typed'
  BY <1>1, <1>3, EmptyBatch
<1>5. height' = height /\ Arranged'
  BY <1>1 DEF Arranged, height, list
<1>6. MarksLow'
  <2>1. \A x \in Elements : NA < height[x]
    BY <1>1, NumbersOf
  <2> QED BY <1>1, <1>5, <2>1 DEF MarksLow
<1>7. Walks' /\ Alone'
  BY <1>1, AtRest, RestingOn
<1>8. stage' = "idle"
  BY <1>1 DEF Finish
<1> QED BY <1>1, <1>2, <1>4, <1>5, <1>6, <1>7, <1>8 DEF Base, MarkInv, Marked, Unbegun

LEMMA StutterKeeps ==
  ASSUME Base, UNCHANGED vars
  PROVE  Base' /\ (MarkInv => MarkInv')
<1>1. UNCHANGED <<list, mark, stage, batch, todo, tops, walker>>
  BY DEF vars
<1>2. Up' = Up /\ height' = height /\ Lineage' = Lineage
  BY <1>1, SameGeometry
<1>3. \A x, l : SeenTo(x, l)' = SeenTo(x, l)
  BY <1>1 DEF SeenTo, Marked, Busy
<1>4. Base'
  BY <1>1, <1>2 DEF Base, Unbegun, Typed, Arranged, Walks, Alone, MarksLow, Busy, OnItsWay, SawMark, Marked, list
<1>5. ASSUME MarkInv, stage = "walk" PROVE WalkInv'
  BY <1>1, <1>2, <1>3, <1>5 DEF MarkInv, WalkInv, SeenTo, Marked, Busy
<1>6. ASSUME MarkInv, stage = "down" PROVE DownInv'
  BY <1>1, <1>2, <1>6 DEF MarkInv, DownInv, Marked
<1>7. ASSUME MarkInv, stage = "split" PROVE SplitInv'
  BY <1>1, <1>7 DEF MarkInv, SplitInv, Marked, Of
<1> QED BY <1>1, <1>4, <1>5, <1>6, <1>7 DEF MarkInv, Marked

----
(* The theorems *)

LEMMA InitKeeps ==
  ASSUME Init
  PROVE  IInv
<1>1. PICK s \in Setups : shape = s.shape /\ crew = s.crew
  BY DEF Init
<1>2. Arranged
  BY <1>1, SetupsAreShapes, ShapesAreWellFormed DEF Init, Arranged, WellFormed, height
<1>3. \A t \in Threads : ~Busy(t) /\ walker[t] = Rest
  BY DEF Init, Busy, Rest
<1>4. Rest \in Walker
  BY BatchesAreBounded, HeightsArePositive DEF Walker, Rest, Ref, Level, NA
<1>5. Typed
  <2>1. walker \in [Threads -> Walker]
    BY <1>4 DEF Init
  <2>2. DOMAIN <<>> = {} /\ <<>> \in [DOMAIN <<>> -> Ref]
    OBVIOUS
  <2> QED BY <2>1, <2>2 DEF Init, Typed
<1>6. \A x \in Elements : ~Marked(x)
  BY DEF Init, Marked
<1>7. MarksLow
  <2>1. \A x \in Elements : NA < height[x]
    BY <1>2, <1>5, NumbersOf
  <2> QED BY <2>1 DEF Init, MarksLow
<1>8. Walks /\ Alone
  BY <1>3 DEF Walks, Alone, Busy
<1>9. stage = "idle"
  BY DEF Init
<1> QED BY <1>2, <1>5, <1>6, <1>7, <1>8, <1>9 DEF IInv, Base, MarkInv, Unbegun

LEMMA StepKeeps ==
  ASSUME Base, [Next]_vars
  PROVE  Base' /\ (MarkInv /\ [NoMarkMissed]_vars => MarkInv')
<1>1. CASE UNCHANGED vars
  BY <1>1, StutterKeeps
<1>2. CASE Next
  <2> DEFINE Kept == Base' /\ (MarkInv => MarkInv')
             KeptInTime == Base' /\ (MarkInv /\ [NoMarkMissed]_vars => MarkInv')
  <2>1. ASSUME NEW t \in Threads, Pick(t) \/ ReadMark(t) \/ Claim(t) \/ Lower(t)
        PROVE  Kept
    BY <2>1, PickKeeps, ReadMarkKeeps, ClaimKeeps, LowerKeeps
  <2>2. ASSUME NEW t \in Threads, Leave(t) PROVE KeptInTime
    <3>1. Base' /\ (MarkInv /\ ~MissesMark(t) => MarkInv')
      BY <2>2, LeaveKeeps
    <3>2. NoMarkMissed => ~MissesMark(t)
      BY DEF NoMarkMissed
    <3>3. UNCHANGED vars => (MarkInv => MarkInv')
      BY StutterKeeps
    <3> QED BY <3>1, <3>2, <3>3
  <2>3. ASSUME NEW i \in DOMAIN batch, UpdateTopDown(i) \/ UpdateSplit(i) PROVE Kept
    <3>1. ASSUME UpdateTopDown(i) PROVE Kept
      BY <3>1, UpdateTopDownKeeps
    <3>2. ASSUME UpdateSplit(i) PROVE Kept
      BY <3>2, UpdateSplitKeeps
    <3> QED BY <2>3, <3>1, <3>2
  <2>4. ASSUME StartDown \/ EndUpdate \/ EndSplit PROVE Kept
    <3>1. StartDown => Kept
      BY StartDownKeeps
    <3>2. EndUpdate => Kept
      BY EndUpdateKeeps
    <3>3. EndSplit => Kept
      BY EndSplitKeeps
    <3> QED BY <2>4, <3>1, <3>2, <3>3
  <2>5. ASSUME NEW b \in Batches, BatchJoin(b) \/ BatchSplit(b) PROVE Kept
    <3>1. ASSUME BatchJoin(b) PROVE Kept
      BY <3>1, JoinKeeps
    <3>2. ASSUME BatchSplit(b) PROVE Kept
      BY <3>2, SplitKeeps
    <3> QED BY <2>5, <3>1, <3>2
  <2>6. ASSUME NEW b \in Batches, NEW new_values \in [DOMAIN b -> Values], BatchUpdate(b, new_values)
        PROVE  Kept
    BY <2>6, UpdateKeeps
  <2> HIDE DEF Kept, KeptInTime
  <2>7. Kept => KeptInTime
    BY DEF Kept, KeptInTime
  <2>8. ASSUME Work PROVE KeptInTime
    BY <2>1, <2>2, <2>3, <2>4, <2>7, <2>8 DEF Work
  <2>9. ASSUME Call PROVE KeptInTime
    BY <2>5, <2>6, <2>7, <2>9 DEF Call
  <2>10. KeptInTime
    BY <1>2, <2>8, <2>9 DEF Next
  <2> QED BY <2>10 DEF KeptInTime
<1> QED BY <1>1, <1>2

(* What holds whoever wins the races: the walks are where they should be,
   on levels that their nodes have.                                        *)
LEMMA InductiveWalks == Spec => []Base
<1>1. Init => Base
  BY InitKeeps DEF IInv
<1>2. Base /\ [Next]_vars => Base'
  BY StepKeeps
<1> QED BY <1>1, <1>2, PTL DEF Spec

(* MissesMark takes a second worker and a tower of three levels: without
   them the theorems below hold of every behaviour.                        *)
THEOREM MarksMissedHigh ==
  Spec => [][\A t \in Threads : MissesMark(t) => crew # 1 /\ height[walker[t].curr] > 2]_vars
<1>1. ASSUME Base, NEW t \in Threads, MissesMark(t)
      PROVE  crew # 1 /\ height[walker[t].curr] > 2
  <2>1. /\ walker[t].pc = "claim" /\ walker[t].seen = NA
        /\ mark[walker[t].curr] # NA /\ mark[walker[t].curr] > 1
    BY <1>1 DEF MissesMark, Leave
  <2>2. crew # 1
    BY <1>1, <2>1 DEF Base, Alone, Marked
  <2>3. walker[t].curr \in Elements
    BY <1>1, <2>1 DEF Base, Walks, Busy, OnItsWay
  <2>4. /\ mark[walker[t].curr] < height[walker[t].curr]
        /\ mark[walker[t].curr] \in Int /\ height[walker[t].curr] \in Int
    <3>1. Typed /\ Arranged /\ MarksLow
      BY <1>1 DEF Base
    <3> QED BY <2>3, <3>1, NumbersOf DEF MarksLow
  <2> QED BY <2>1, <2>2, <2>4
<1>2. Base /\ [Next]_vars =>
        [\A t \in Threads : MissesMark(t) => crew # 1 /\ height[walker[t].curr] > 2]_vars
  BY <1>1
<1> QED BY <1>2, InductiveWalks, PTL DEF Spec

(* Whatever step breaks the invariant of the marks is a walk that leaves a
   mark too high.                                                          *)
THEOREM OnlyMissesBreakMarks ==
  Spec => [][MarkInv /\ ~MarkInv' => \E t \in Threads : MissesMark(t)]_vars
<1>1. Base /\ [Next]_vars =>
        [MarkInv /\ ~MarkInv' => \E t \in Threads : MissesMark(t)]_vars
  <2>1. NoMarkMissed \/ \E t \in Threads : MissesMark(t)
    BY DEF NoMarkMissed
  <2> QED BY <2>1, StepKeeps
<1> QED BY <1>1, InductiveWalks, PTL DEF Spec

(* The inductive invariant, as long as no walk leaves a mark too high that
   it has read as NA.                                                      *)
THEOREM InductiveMarks == Spec /\ [][NoMarkMissed]_vars => []IInv
<1>1. Init => IInv
  BY InitKeeps
<1>2. IInv /\ [Next]_vars /\ [NoMarkMissed]_vars => IInv'
  BY StepKeeps DEF IInv
<1> QED BY <1>1, <1>2, PTL DEF Spec

(* MarksCleared: no batch leaves a mark behind (update_level_), whichever
   walk won the races for them and in whatever order the topmost nodes were
   updated, unless a walk has missed a mark.                               *)
THEOREM MarksTakenBack == Spec /\ [][NoMarkMissed]_vars => []MarksCleared
<1>1. IInv => MarksCleared
  BY DEF IInv, MarkInv, MarksCleared, Marked
<1> QED BY <1>1, InductiveMarks, PTL

(* TopsAreRoots: when the walks of BatchUpdate have ended, top_nodes holds
   each topmost node above an element of the batch once, unless a walk has
   missed a mark.                                                          *)
THEOREM TopsOfWalks == Spec /\ [][NoMarkMissed]_vars => []TopsAreRoots
<1>1. ASSUME IInv, stage = "walk", AllRest
      PROVE  /\ {tops[i] : i \in DOMAIN tops} \ {Null} =
                  {y \in Lineage : LeftParent(y, height[y] - 1) = Null}
             /\ \A i, j \in DOMAIN tops : i # j /\ tops[i] # Null => tops[i] # tops[j]
  <2>1. Typed /\ Arranged /\ WalkInv /\ todo = {} /\ \A t \in Threads : ~Busy(t)
    BY <1>1 DEF IInv, Base, MarkInv, AllRest, Busy, Rest
  <2>2. DOMAIN tops = DOMAIN batch
    BY <2>1 DEF Typed
  <2>3. \A y \in Lineage : y \in Elements /\ LeftParent(y, height[y] - 1) = Up[y] /\ y # Null
    BY <2>1, LineageFacts, UpFacts, Heights
  <2> DEFINE T == {x \in Elements : Marked(x)}
  <2>4. Lineage \subseteq T
    <3>1. \A i \in DOMAIN batch : batch[i] \in T
      BY <2>1, BatchElements DEF WalkInv, SeenTo
    <3>2. \A y \in T \cap Elements : Up[y] # Null => Up[y] \in T
      BY <2>1, UpFacts DEF WalkInv, SeenTo
    <3> HIDE DEF T
    <3> QED BY <2>1, <3>1, <3>2, LineageFacts
  <2>5. ASSUME NEW i \in DOMAIN batch, tops[i] # Null
        PROVE  tops[i] \in Lineage /\ Up[tops[i]] = Null
    <3>1. tops[i] \in Elements
      BY <2>1, <2>5 DEF Typed, Ref
    <3> QED BY <2>1, <2>5, <3>1 DEF WalkInv
  <2>6. ASSUME NEW y \in Lineage, Up[y] = Null PROVE \E i \in DOMAIN batch : tops[i] = y
    BY <2>1, <2>3, <2>4, <2>6 DEF WalkInv
  <2> HIDE DEF T
  <2>7. {tops[i] : i \in DOMAIN tops} \ {Null} = {y \in Lineage : LeftParent(y, height[y] - 1) = Null}
    BY <2>2, <2>3, <2>5, <2>6
  <2>8. \A i, j \in DOMAIN tops : i # j /\ tops[i] # Null => tops[i] # tops[j]
    BY <2>1, <2>2 DEF WalkInv
  <2> QED BY <2>7, <2>8
<1>2. IInv => TopsAreRoots
  BY <1>1 DEF TopsAreRoots, Lineage
<1> QED BY <1>2, InductiveMarks, PTL
====
