---- MODULE ParallelSkipListProofs ----
(***************************************************************************)
(* The theorems of ParallelSkipList, in five layers: what each call knows  *)
(* of the arrangement, the links that are there, those that are still to   *)
(* come or to go, what the callers are told, and FindRepresentative.       *)
(***************************************************************************)
EXTENDS ParallelSkipList, SkipListGeometryProofs

(***************************************************************************)
(* The inductive invariant.  What a thread may know about the elements its *)
(* call is at depends on the arrangement only, never on the links that the *)
(* other threads are changing: this is what makes it stable.               *)
(***************************************************************************)

(* A join is about to link neighbours of the arrangement, and its searches *)
(* stay below the parents of those two.                                    *)
JoinFrame(f, s) ==
  /\ f.pc = "JoinTest" =>
       /\ f.left # Null => Tower(s, f.left, f.level)
       /\ f.left # Null /\ f.right # Null => Joined(s, f.level, f.left, f.right)
  /\ f.pc \in {"JoinNext", "JoinPrev", "JoinLeft"} =>
       Joined(s, f.level, f.left, f.right)
  /\ f.pc = "JoinLeft" =>
       /\ Tower(s, f.at, f.level)
       /\ s.lpar[f.level][f.at] = s.lpar[f.level][f.left]
  /\ f.pc = "JoinRight" =>
       /\ Joined(s, f.level, s.left[f.level][f.right], f.right)
       /\ Tower(s, f.at, f.level)
       /\ s.rpar[f.level][f.at] = s.rpar[f.level][f.right]
       /\ f.left # Null =>
            /\ Tower(s, f.left, f.level + 1)
            /\ s.lpar[f.level][s.left[f.level][f.right]] = f.left

SplitFrame(f, s) ==
  /\ f.pc = "SplitTest" /\ f.left # Null => Tower(s, f.left, f.level)
  /\ f.pc \in {"SplitNext", "SplitPrev", "SplitLeft"} =>
       Joined(s, f.level, f.left, f.right)
  /\ f.pc = "SplitLeft" => Tower(s, f.at, f.level)

FindFrame(f, s) ==
  f.pc \in {"FindForward", "FindBackward"} => Tower(s, f.at, f.level)

FrameOK(f, s) ==
  /\ f \in Frame
  /\ f.pc = "idle" => f = Idle
  /\ JoinFrame(f, s)
  /\ SplitFrame(f, s)
  /\ FindFrame(f, s)

(* Only Split buffers a store, and what it stores is null.                 *)
StoreOK(p) ==
  p = NoStore \/ (p.level \in Level /\ p.element \in Elements /\ p.value = Null)

IInv ==
  /\ TypeOK
  /\ shape \in Shapes
  /\ LinksInShape
  /\ \A t \in Threads : FrameOK(frame[t], shape)
  /\ \A t \in Threads : StoreOK(pending[t])
  /\ phase = "quiet" => Quiet

----

----

StoreType == [level : Level, element : Ref, value : Ref]

LEMMA IdleIsOK == ASSUME NEW s PROVE FrameOK(Idle, s)
BY Basics, HeightsArePositive
   DEF FrameOK, Frame, Idle, PC, Ref, JoinFrame, SplitFrame, FindFrame

(* A step of a call: its own frame stays sound and the others' are not     *)
(* touched; what it does to the links and the buffers is left open.        *)
LEMMA CallStep ==
  ASSUME IInv, NEW t \in Threads, NEW f,
         frame[t].pc # "idle", FrameOK(f, shape), Becomes(t, f),
         next' \in Links, prev' \in Links, LinksInShape',
         pending' \in [Threads -> StoreType],
         \A u \in Threads : StoreOK(pending'[u]),
         answers' \in [Elements -> Nat],
         UNCHANGED <<phase, shape, bonds, before>>
  PROVE  IInv'
<1>1. f \in Frame /\ frame \in [Threads -> Frame]
  BY DEF FrameOK, IInv, TypeOK
<1>2. frame' \in [Threads -> Frame]
  BY <1>1 DEF Becomes
<1>3. \A u \in Threads : FrameOK(frame'[u], shape')
  <2> SUFFICES ASSUME NEW u \in Threads PROVE FrameOK(frame'[u], shape)
    OBVIOUS
  <2>1. frame'[u] = IF u = t THEN f ELSE frame[u]
    BY <1>1 DEF Becomes
  <2> QED BY <2>1 DEF IInv
<1>4. TypeOK'
  BY <1>2 DEF TypeOK, IInv, StoreType
<1>5. phase # "quiet"
  BY DEF IInv, Quiet, Idle
<1> QED BY <1>3, <1>4, <1>5 DEF IInv

(* The steps that only move on in the call.                                *)
LEMMA LocalStep ==
  ASSUME IInv, NEW t \in Threads, NEW f,
         frame[t].pc # "idle", FrameOK(f, shape), Becomes(t, f),
         UNCHANGED <<shared, pending, caller>>
  PROVE  IInv'
<1>1. /\ next' = next /\ prev' = prev /\ pending' = pending
      /\ UNCHANGED <<phase, shape, bonds, before>> /\ answers' = answers
  BY DEF shared, caller
<1>2. LinksInShape'
  BY <1>1 DEF LinksInShape, IInv
<1> QED BY <1>1, <1>2, CallStep DEF IInv, TypeOK, StoreType

(* What a back-link read returns is null or the neighbour.                 *)
LEMMA ReadPrevInShape ==
  ASSUME IInv, NEW t \in Threads, NEW l \in Level, NEW x \in Elements
  PROVE  ReadPrev(t, l, x) \in {Null, shape.left[l][x]}
<1>1. pending[t] = NoStore \/ pending[t].value = Null
  BY DEF IInv, StoreOK
<1> QED BY <1>1 DEF ReadPrev, NoStore, IInv, LinksInShape

(* One round of FindLeftParent at an element at that is in the tower.      *)
LEMMA SearchLeft ==
  ASSUME NEW s \in Shapes, NEW l \in Level, NEW at, Tower(s, at, l),
         NEW n \in {Null, s.left[l][at]}
  PROVE  /\ s.height[at] > l + 1 =>
              Tower(s, at, l + 1) /\ s.lpar[l][at] = at
         /\ ~(s.height[at] > l + 1) /\ n # Null =>
              Tower(s, n, l) /\ s.lpar[l][n] = s.lpar[l][at]
<1>1. at \in Elements
  BY DEF Tower
<1>2. n # Null => n \in Elements /\ Tower(s, n, l)
  BY <1>1, ShapeFacts DEF Ref, Joined
<1> QED BY <1>1, <1>2, ParentFacts DEF Tower

LEMMA SearchRight ==
  ASSUME NEW s \in Shapes, NEW l \in Level, NEW at, Tower(s, at, l),
         NEW n \in {Null, s.right[l][at]}
  PROVE  /\ s.height[at] > l + 1 =>
              Tower(s, at, l + 1) /\ s.rpar[l][at] = at
         /\ ~(s.height[at] > l + 1) /\ n # Null =>
              Tower(s, n, l) /\ s.rpar[l][n] = s.rpar[l][at]
<1>1. at \in Elements
  BY DEF Tower
<1>2. n # Null => n \in Elements /\ Tower(s, n, l)
  BY <1>1, ShapeFacts DEF Ref, Joined
<1> QED BY <1>1, <1>2, ParentFacts DEF Tower

(* Reaching a level bounds it.                                             *)
LEMMA TowerLevel ==
  ASSUME NEW s \in Shapes, NEW l \in 0 .. MaxHeight, NEW x, Tower(s, x, l)
  PROVE  l \in Level /\ l + 1 \in 0 .. MaxHeight
<1>1. s.height[x] \in 1 .. MaxHeight
  BY ShapeFacts, Basics DEF Tower
<1> QED BY <1>1, HeightsArePositive DEF Tower, Level

----
(* Join *)

LEMMA StartJoinStep ==
  ASSUME IInv, NEW t \in Threads, NEW x \in Elements, StartJoin(t, x)
  PROVE  IInv'
<1> DEFINE f == [Idle EXCEPT !.pc = "JoinTest", !.from = x, !.left = x,
                             !.right = shape.right[0][x]]
<1>1. Joined(shape, 0, x, shape.right[0][x])
  BY ShapeFacts, Basics DEF StartJoin, IInv, Ref
<1>2. f \in Frame
  <2>1. Idle \in Frame
    BY IdleIsOK DEF FrameOK
  <2>2. x \in Ref /\ shape.right[0][x] \in Ref
    BY <1>1 DEF Ref, Joined, Tower
  <2> QED BY <2>1, <2>2 DEF Frame, PC
<1>3. FrameOK(f, shape)
  BY <1>1, <1>2 DEF FrameOK, Idle, JoinFrame, SplitFrame, FindFrame, Joined
<1>4. frame \in [Threads -> Frame] /\ frame' = [frame EXCEPT ![t] = f]
  BY DEF StartJoin, Becomes, IInv, TypeOK
<1>5. \A u \in Threads : FrameOK(frame'[u], shape')
  BY <1>3, <1>4 DEF StartJoin, IInv
<1>6. bonds' \in SUBSET Elements
  BY DEF StartJoin, IInv, TypeOK
<1>7. /\ next' = next /\ prev' = prev /\ pending' = pending
      /\ UNCHANGED <<phase, shape, before, answers>>
  BY DEF StartJoin, shared
<1>8. TypeOK'
  BY <1>2, <1>4, <1>6, <1>7 DEF IInv, TypeOK
<1>9. LinksInShape'
  BY <1>7 DEF LinksInShape, IInv
<1> QED BY <1>5, <1>7, <1>8, <1>9 DEF IInv, StartJoin

LEMMA JoinTestStep ==
  ASSUME IInv, NEW t \in Threads, JoinTest(t)
  PROVE  IInv'
<1> DEFINE f == frame[t]
<1>1. FrameOK(f, shape) /\ f.pc = "JoinTest"
  BY DEF IInv, JoinTest
<1>2. CASE /\ f.left # Null /\ f.right # Null
           /\ Becomes(t, [f EXCEPT !.pc = "JoinNext"])
  <2>1. FrameOK([f EXCEPT !.pc = "JoinNext"], shape)
    BY <1>1, <1>2 DEF FrameOK, Frame, PC, JoinFrame, SplitFrame, FindFrame
  <2> QED BY <1>1, <1>2, <2>1, LocalStep DEF JoinTest
<1>3. CASE Becomes(t, [f EXCEPT !.pc = "done"])
  <2>1. FrameOK([f EXCEPT !.pc = "done"], shape)
    BY <1>1 DEF FrameOK, Frame, PC, JoinFrame, SplitFrame, FindFrame
  <2> QED BY <1>1, <1>3, <2>1, LocalStep DEF JoinTest
<1> QED BY <1>2, <1>3 DEF JoinTest

LEMMA JoinNextStep ==
  ASSUME IInv, NEW t \in Threads, JoinNext(t)
  PROVE  IInv'
<1> DEFINE f == frame[t]
<1>1. FrameOK(f, shape) /\ f.pc = "JoinNext" /\ Joined(shape, f.level, f.left, f.right)
  BY DEF IInv, JoinNext, FrameOK, JoinFrame
<1>2. /\ prev' = prev /\ pending' = pending /\ answers' = answers
      /\ UNCHANGED <<phase, shape, bonds, before>>
  BY DEF JoinNext, caller
<1>3. CASE /\ next' = [next EXCEPT ![f.level][f.left] = f.right]
           /\ Becomes(t, [f EXCEPT !.pc = "JoinPrev"])
  <2>1. FrameOK([f EXCEPT !.pc = "JoinPrev"], shape)
    BY <1>1 DEF FrameOK, Frame, PC, JoinFrame, SplitFrame, FindFrame
  <2>2. f.right \in Ref /\ next \in Links
    BY <1>1 DEF Joined, Tower, Ref, IInv, TypeOK
  <2>3. next' \in Links
    BY <1>3, <2>2 DEF Links
  <2>4. \A l \in Level : \A x \in Elements :
          next'[l][x] = IF l = f.level /\ x = f.left THEN f.right ELSE next[l][x]
    BY <1>3, <2>2 DEF Links
  <2>5. LinksInShape'
    BY <1>1, <1>2, <2>4, SMTT(60) DEF LinksInShape, IInv, Joined
  <2> QED BY <1>1, <1>2, <1>3, <2>1, <2>3, <2>5, CallStep DEF IInv, TypeOK, StoreType
<1>4. CASE Becomes(t, [f EXCEPT !.pc = "done"]) /\ UNCHANGED next
  <2>1. FrameOK([f EXCEPT !.pc = "done"], shape)
    BY <1>1 DEF FrameOK, Frame, PC, JoinFrame, SplitFrame, FindFrame
  <2> QED BY <1>1, <1>2, <1>4, <2>1, LocalStep DEF shared, caller
<1> QED BY <1>3, <1>4 DEF JoinNext

LEMMA JoinPrevStep ==
  ASSUME IInv, NEW t \in Threads, JoinPrev(t)
  PROVE  IInv'
<1> DEFINE f == frame[t]
           g == [f EXCEPT !.pc = "JoinLeft", !.at = f.left]
<1>1. FrameOK(f, shape) /\ f.pc = "JoinPrev" /\ Joined(shape, f.level, f.left, f.right)
  BY DEF IInv, JoinPrev, FrameOK, JoinFrame
<1>2. /\ next' = next /\ pending' = pending /\ answers' = answers
      /\ UNCHANGED <<phase, shape, bonds, before>> /\ Becomes(t, g)
      /\ prev' = [prev EXCEPT ![f.level][f.right] = IF @ = Null THEN f.left ELSE @]
  BY DEF JoinPrev, caller
<1>3. FrameOK(g, shape)
  BY <1>1 DEF FrameOK, Frame, PC, JoinFrame, SplitFrame, FindFrame, Joined
<1>4. f.left \in Ref /\ prev \in Links
  BY <1>1 DEF Joined, Tower, Ref, IInv, TypeOK
<1>5. prev' \in Links
  BY <1>2, <1>4 DEF Links
<1>6. \A l \in Level : \A x \in Elements :
        prev'[l][x] = IF l = f.level /\ x = f.right /\ prev[l][x] = Null
                      THEN f.left ELSE prev[l][x]
  BY <1>2, <1>4 DEF Links
<1>7. shape.left[f.level][f.right] = f.left
  BY <1>1, ShapeFacts DEF Joined, Tower, IInv
<1>8. LinksInShape'
  <2>1. /\ \A l \in Level : \A x \in Elements :
             /\ next[l][x] \in {Null, shape.right[l][x]}
             /\ prev[l][x] \in {Null, shape.left[l][x]}
        /\ next' = next /\ shape' = shape
    BY <1>2 DEF LinksInShape, IInv
  <2>2. ASSUME NEW l \in Level, NEW x \in Elements
        PROVE  prev'[l][x] \in {Null, shape.left[l][x]}
    <3>1. CASE l = f.level /\ x = f.right /\ prev[l][x] = Null
      BY <1>6, <1>7, <3>1, Zenon
    <3>2. CASE ~(l = f.level /\ x = f.right /\ prev[l][x] = Null)
      BY <1>6, <2>1, <3>2, Zenon
    <3> QED BY <3>1, <3>2
  <2> QED BY <2>1, <2>2, Zenon DEF LinksInShape
<1> QED BY <1>1, <1>2, <1>3, <1>5, <1>8, CallStep DEF IInv, TypeOK, StoreType

LEMMA JoinLeftStep ==
  ASSUME IInv, NEW t \in Threads, JoinLeft(t)
  PROVE  IInv'
<1> DEFINE f == frame[t]
           n == ReadPrev(t, f.level, f.at)
           up == [f EXCEPT !.pc = "JoinRight", !.left = Parent(f), !.at = f.right]
           on == [f EXCEPT !.at = n]
<1>1. /\ FrameOK(f, shape) /\ f.pc = "JoinLeft"
      /\ Joined(shape, f.level, f.left, f.right)
      /\ Tower(shape, f.at, f.level)
      /\ shape.lpar[f.level][f.at] = shape.lpar[f.level][f.left]
  BY DEF IInv, JoinLeft, FrameOK, JoinFrame
<1>2. f.level \in Level /\ f.at \in Elements
  BY <1>1 DEF Joined, Tower
<1>3. n \in {Null, shape.left[f.level][f.at]}
  BY <1>2, ReadPrevInShape
<1>4. shape.left[f.level][f.right] = f.left
  BY <1>1, ShapeFacts, SMTT(60) DEF Joined, Tower, IInv
<1>5. CASE Becomes(t, up)
  <2>1. Parent(f) # Null => /\ Tower(shape, Parent(f), f.level + 1)
                            /\ shape.lpar[f.level][f.left] = Parent(f)
    BY <1>1, <1>2, <1>3, SearchLeft, SMTT(60) DEF Parent, IInv
  <2>2. Parent(f) \in Ref /\ f.right \in Ref
    BY <1>1, <1>2 DEF Parent, Ref, Joined, Tower
  <2>3. up \in Frame
    BY <1>1, <2>2 DEF FrameOK, Frame, PC
  <2>4. FrameOK(up, shape)
    BY <1>1, <1>4, <2>1, <2>3
       DEF FrameOK, Frame, JoinFrame, SplitFrame, FindFrame, Joined
  <2> QED BY <1>1, <1>5, <2>4, LocalStep DEF JoinLeft
<1>6. CASE ~SearchEnds(f, f.left, n) /\ Becomes(t, on)
  <2>1. Tower(shape, n, f.level) /\ shape.lpar[f.level][n] = shape.lpar[f.level][f.at]
    BY <1>1, <1>2, <1>3, <1>6, SearchLeft, ZenonT(60) DEF SearchEnds, IInv
  <2>2. on \in Frame
    BY <1>1, <2>1 DEF FrameOK, Frame, Ref, Tower
  <2>3. FrameOK(on, shape)
    BY <1>1, <2>1, <2>2 DEF FrameOK, Frame, JoinFrame, SplitFrame, FindFrame
  <2> QED BY <1>1, <1>6, <2>3, LocalStep DEF JoinLeft
<1> QED BY <1>5, <1>6 DEF JoinLeft

LEMMA JoinRightStep ==
  ASSUME IInv, NEW t \in Threads, JoinRight(t)
  PROVE  IInv'
<1> DEFINE f == frame[t]
           n == next[f.level][f.at]
           x == shape.left[f.level][f.right]
           up == [f EXCEPT !.pc = "JoinTest", !.right = Parent(f), !.at = Null,
                           !.level = @ + 1]
           on == [f EXCEPT !.at = n]
<1>1. /\ FrameOK(f, shape) /\ f.pc = "JoinRight"
      /\ Joined(shape, f.level, x, f.right)
      /\ Tower(shape, f.at, f.level)
      /\ shape.rpar[f.level][f.at] = shape.rpar[f.level][f.right]
      /\ f.left # Null => /\ Tower(shape, f.left, f.level + 1)
                          /\ shape.lpar[f.level][x] = f.left
  BY DEF IInv, JoinRight, FrameOK, JoinFrame
<1>2. /\ f.level \in Level /\ f.at \in Elements /\ f.right \in Elements
      /\ x \in Elements /\ shape.right[f.level][x] = f.right
      /\ f.level + 1 \in 0 .. MaxHeight
  <2>1. /\ f.level \in Level /\ f.at \in Elements /\ f.right \in Elements
        /\ x \in Elements /\ shape.right[f.level][x] = f.right
    BY <1>1, Zenon DEF Joined, Tower
  <2>2. \A l \in Level : l + 1 \in 0 .. MaxHeight
    BY HeightsArePositive DEF Level
  <2> QED BY <2>1, <2>2, Zenon
<1>3. n \in {Null, shape.right[f.level][f.at]}
  BY <1>2 DEF IInv, LinksInShape
<1>4. CASE Becomes(t, up)
  <2>1. Parent(f) # Null => /\ Tower(shape, Parent(f), f.level + 1)
                            /\ shape.rpar[f.level][f.right] = Parent(f)
    <3> SUFFICES ASSUME Parent(f) # Null
                 PROVE  /\ Tower(shape, Parent(f), f.level + 1)
                        /\ shape.rpar[f.level][f.right] = Parent(f)
      OBVIOUS
    <3>1. Parent(f) = f.at /\ shape.height[f.at] > f.level + 1
      BY DEF Parent
    <3>2. shape \in Shapes
      BY DEF IInv
    <3>3. shape.rpar[f.level][f.at] = f.at
      BY <1>2, <3>1, <3>2, ParentFacts
    <3>4. Tower(shape, f.at, f.level + 1)
      BY <1>1, <3>1 DEF Tower
    <3> QED BY <1>1, <3>1, <3>3, <3>4
  <2>2. f.left # Null /\ Parent(f) # Null =>
          Joined(shape, f.level + 1, f.left, Parent(f))
    <3> SUFFICES ASSUME f.left # Null, Parent(f) # Null
                 PROVE  Joined(shape, f.level + 1, f.left, Parent(f))
      OBVIOUS
    <3>1. f.level + 1 \in Level
      BY <1>1, <1>2, TowerLevel DEF IInv
    <3>2. f.left \in Elements /\ Parent(f) \in Elements /\ f.right # Null
      BY <1>1, <1>2, <2>1, Basics DEF Tower
    <3>3. shape.right[f.level + 1][f.left] = Parent(f)
      <4>1. /\ shape.right[f.level][x] # Null
            /\ shape.lpar[f.level][x] = f.left
            /\ shape.rpar[f.level][shape.right[f.level][x]] = Parent(f)
        BY <1>1, <1>2, <2>1, <3>2
      <4>2. shape \in Shapes
        BY DEF IInv
      <4> HIDE DEF x, n, up, on
      <4>3. \A p, q \in Elements :
              /\ f.level + 1 \in Level
              /\ shape.right[f.level][x] # Null
              /\ shape.lpar[f.level][x] = p
              /\ shape.rpar[f.level][shape.right[f.level][x]] = q
              => shape.right[f.level + 1][p] = q
        BY <1>2, <4>2, ParentFacts
      <4> QED BY <3>1, <3>2, <4>1, <4>3
    <3> QED BY <1>1, <2>1, <3>1, <3>3 DEF Joined
  <2>3. Parent(f) \in Ref /\ Null \in Ref
    BY <1>2 DEF Parent, Ref
  <2>4. up \in Frame
    BY <1>1, <1>2, <2>3 DEF FrameOK, Frame, PC
  <2>5. FrameOK(up, shape)
    BY <1>1, <1>2, <2>2, <2>4 DEF FrameOK, Frame, JoinFrame, SplitFrame, FindFrame
  <2> QED BY <1>1, <1>4, <2>5, LocalStep DEF JoinRight
<1>5. CASE ~SearchEnds(f, f.right, n) /\ Becomes(t, on)
  <2>0. ~(shape.height[f.at] > f.level + 1) /\ n # Null /\ shape \in Shapes
    BY <1>5 DEF SearchEnds, IInv
  <2>1. Tower(shape, n, f.level) /\ shape.rpar[f.level][n] = shape.rpar[f.level][f.at]
    <3> HIDE DEF n, x, up, on
    <3>1. \A l \in Level : \A y \in Elements :
            /\ Tower(shape, y, l) /\ ~(shape.height[y] > l + 1)
            /\ shape.right[l][y] # Null
            => /\ Tower(shape, shape.right[l][y], l)
               /\ shape.rpar[l][shape.right[l][y]] = shape.rpar[l][y]
      BY <2>0, SearchRight
    <3> HIDE DEF f
    <3> QED BY <1>1, <1>2, <1>3, <2>0, <3>1
  <2>2. on \in Frame
    BY <1>1, <2>1 DEF FrameOK, Frame, Ref, Tower
  <2>3. FrameOK(on, shape)
    BY <1>1, <2>1, <2>2 DEF FrameOK, Frame, JoinFrame, SplitFrame, FindFrame
  <2> QED BY <1>1, <1>5, <2>3, LocalStep DEF JoinRight
<1> QED BY <1>4, <1>5 DEF JoinRight

----
(* Split *)

LEMMA StartSplitStep ==
  ASSUME IInv, NEW t \in Threads, NEW x \in Elements, StartSplit(t, x)
  PROVE  IInv'
<1> DEFINE f == [Idle EXCEPT !.pc = "SplitTest", !.from = x, !.left = x]
<1>1. Tower(shape, x, 0)
  BY ShapeFacts, Basics DEF IInv, Tower
<1>2. f \in Frame
  <2>1. Idle \in Frame /\ x \in Ref
    BY IdleIsOK DEF FrameOK, Ref
  <2> QED BY <2>1 DEF Frame, PC
<1>3. FrameOK(f, shape)
  BY <1>1, <1>2 DEF FrameOK, Idle, JoinFrame, SplitFrame, FindFrame
<1>4. frame \in [Threads -> Frame] /\ frame' = [frame EXCEPT ![t] = f]
  BY DEF StartSplit, Becomes, IInv, TypeOK
<1>5. \A u \in Threads : FrameOK(frame'[u], shape')
  BY <1>3, <1>4 DEF StartSplit, IInv
<1>6. bonds' \in SUBSET Elements
  BY DEF StartSplit, IInv, TypeOK
<1>7. /\ next' = next /\ prev' = prev /\ pending' = pending
      /\ UNCHANGED <<phase, shape, before, answers>>
  BY DEF StartSplit, shared
<1>8. TypeOK'
  BY <1>2, <1>4, <1>6, <1>7 DEF IInv, TypeOK
<1>9. LinksInShape'
  BY <1>7 DEF LinksInShape, IInv
<1> QED BY <1>5, <1>7, <1>8, <1>9 DEF IInv, StartSplit

LEMMA SplitTestStep ==
  ASSUME IInv, NEW t \in Threads, SplitTest(t)
  PROVE  IInv'
<1> DEFINE f == frame[t]
           n == next[f.level][f.left]
           cut == [f EXCEPT !.pc = "SplitNext", !.right = n]
           end == [f EXCEPT !.pc = "done", !.right = Null]
<1>1. /\ FrameOK(f, shape) /\ f.pc = "SplitTest"
      /\ f.left # Null => Tower(shape, f.left, f.level)
  BY DEF IInv, SplitTest, FrameOK, SplitFrame
<1>2. CASE f.left # Null /\ n # Null /\ Becomes(t, cut)
  <2>1. f.level \in Level /\ f.left \in Elements
    BY <1>1, <1>2, TowerLevel DEF IInv, FrameOK, Frame, Tower
  <2>2. n = shape.right[f.level][f.left] /\ n \in Elements
    BY <1>2, <2>1, ShapeFacts DEF IInv, LinksInShape, Ref
  <2>3. Joined(shape, f.level, f.left, n)
    BY <2>1, <2>2, ShapeFacts DEF IInv
  <2>4. cut \in Frame
    BY <1>1, <2>2 DEF FrameOK, Frame, PC, Ref
  <2>5. FrameOK(cut, shape)
    BY <1>1, <2>3, <2>4 DEF FrameOK, Frame, JoinFrame, SplitFrame, FindFrame
  <2> QED BY <1>1, <1>2, <2>5, LocalStep DEF SplitTest
<1>3. CASE Becomes(t, end)
  <2>1. end \in Frame
    BY <1>1 DEF FrameOK, Frame, PC, Ref
  <2>2. FrameOK(end, shape)
    BY <1>1, <2>1 DEF FrameOK, Frame, JoinFrame, SplitFrame, FindFrame
  <2> QED BY <1>1, <1>3, <2>2, LocalStep DEF SplitTest
<1> QED BY <1>2, <1>3 DEF SplitTest

LEMMA SplitNextStep ==
  ASSUME IInv, NEW t \in Threads, SplitNext(t)
  PROVE  IInv'
<1> DEFINE f == frame[t]
           won == [f EXCEPT !.pc = "SplitPrev",
                            !.result = IF f.level = 0 THEN f.right ELSE @]
<1>1. /\ FrameOK(f, shape) /\ f.pc = "SplitNext"
      /\ Joined(shape, f.level, f.left, f.right)
  BY DEF IInv, SplitNext, FrameOK, SplitFrame
<1>2. /\ prev' = prev /\ pending' = pending /\ answers' = answers
      /\ UNCHANGED <<phase, shape, bonds, before>>
  BY DEF SplitNext, caller
<1>3. CASE /\ next' = [next EXCEPT ![f.level][f.left] = Null]
           /\ Becomes(t, won)
  <2>1. won \in Frame
    BY <1>1 DEF FrameOK, Frame, PC
  <2>2. FrameOK(won, shape)
    BY <1>1, <2>1 DEF FrameOK, Frame, JoinFrame, SplitFrame, FindFrame
  <2>3. Null \in Ref /\ next \in Links
    BY DEF Ref, IInv, TypeOK
  <2>4. next' \in Links
    BY <1>3, <2>3 DEF Links
  <2>5. \A l \in Level : \A x \in Elements : next'[l][x] \in {Null, next[l][x]}
    BY <1>3, <2>3 DEF Links
  <2>6. LinksInShape'
    BY <1>2, <2>5 DEF LinksInShape, IInv
  <2> QED BY <1>1, <1>2, <1>3, <2>2, <2>4, <2>6, CallStep DEF IInv, TypeOK, StoreType
<1>4. CASE Becomes(t, [f EXCEPT !.pc = "done"]) /\ UNCHANGED next
  <2>1. FrameOK([f EXCEPT !.pc = "done"], shape)
    BY <1>1 DEF FrameOK, Frame, PC, JoinFrame, SplitFrame, FindFrame
  <2> QED BY <1>1, <1>2, <1>4, <2>1, LocalStep DEF shared, caller
<1> QED BY <1>3, <1>4 DEF SplitNext

LEMMA SplitPrevStep ==
  ASSUME IInv, NEW t \in Threads, SplitPrev(t)
  PROVE  IInv'
<1> DEFINE f == frame[t]
           g == [f EXCEPT !.pc = "SplitLeft", !.at = f.left]
           store == [level |-> f.level, element |-> f.right, value |-> Null]
<1>1. /\ FrameOK(f, shape) /\ f.pc = "SplitPrev"
      /\ Joined(shape, f.level, f.left, f.right)
  BY DEF IInv, SplitPrev, FrameOK, SplitFrame
<1>2. /\ next' = next /\ prev' = prev /\ answers' = answers
      /\ UNCHANGED <<phase, shape, bonds, before>> /\ Becomes(t, g)
      /\ pending' = [pending EXCEPT ![t] = store]
  BY DEF SplitPrev, shared, caller
<1>3. FrameOK(g, shape)
  BY <1>1 DEF FrameOK, Frame, PC, JoinFrame, SplitFrame, FindFrame, Joined
<1>4. StoreOK(store) /\ store \in StoreType
  BY <1>1 DEF Joined, Tower, StoreOK, StoreType, Ref
<1>5. /\ pending' \in [Threads -> StoreType]
      /\ \A u \in Threads : StoreOK(pending'[u])
  BY <1>2, <1>4 DEF IInv, TypeOK, StoreType
<1>6. LinksInShape'
  BY <1>2 DEF LinksInShape, IInv
<1> QED BY <1>1, <1>2, <1>3, <1>5, <1>6, CallStep DEF IInv, TypeOK

LEMMA SplitLeftStep ==
  ASSUME IInv, NEW t \in Threads, SplitLeft(t)
  PROVE  IInv'
<1> DEFINE f == frame[t]
           n == ReadPrev(t, f.level, f.at)
           up == [f EXCEPT !.pc = "SplitTest", !.left = Parent(f), !.at = Null,
                           !.level = @ + 1]
           on == [f EXCEPT !.at = n]
<1>1. /\ FrameOK(f, shape) /\ f.pc = "SplitLeft"
      /\ Joined(shape, f.level, f.left, f.right)
      /\ Tower(shape, f.at, f.level)
  BY DEF IInv, SplitLeft, FrameOK, SplitFrame
<1>2. f.level \in Level /\ f.at \in Elements /\ f.level + 1 \in 0 .. MaxHeight
  BY <1>1, HeightsArePositive DEF Joined, Tower, Level
<1>3. n \in {Null, shape.left[f.level][f.at]}
  BY <1>2, ReadPrevInShape
<1>4. CASE Becomes(t, up)
  <2>1. Parent(f) # Null => Tower(shape, Parent(f), f.level + 1)
    BY <1>1, <1>2, <1>3, SearchLeft DEF Parent, IInv
  <2>2. Parent(f) \in Ref /\ Null \in Ref
    BY <1>2 DEF Parent, Ref
  <2>3. up \in Frame
    BY <1>1, <1>2, <2>2 DEF FrameOK, Frame, PC
  <2>4. FrameOK(up, shape)
    BY <1>1, <1>2, <2>1, <2>3 DEF FrameOK, Frame, JoinFrame, SplitFrame, FindFrame
  <2> QED BY <1>1, <1>4, <2>4, LocalStep DEF SplitLeft
<1>5. CASE ~SearchEnds(f, f.left, n) /\ Becomes(t, on)
  <2>1. Tower(shape, n, f.level)
    BY <1>1, <1>2, <1>3, <1>5, SearchLeft, SMTT(60) DEF SearchEnds, IInv
  <2>2. on \in Frame
    BY <1>1, <2>1 DEF FrameOK, Frame, Ref, Tower
  <2>3. FrameOK(on, shape)
    BY <1>1, <2>1, <2>2 DEF FrameOK, Frame, JoinFrame, SplitFrame, FindFrame
  <2> QED BY <1>1, <1>5, <2>3, LocalStep DEF SplitLeft
<1> QED BY <1>4, <1>5 DEF SplitLeft

----
(* FindRepresentative *)

LEMMA StartFindStep ==
  ASSUME IInv, NEW t \in Threads, NEW x \in Elements, StartFind(t, x)
  PROVE  IInv'
<1> DEFINE top == shape.height[x] - 1
           f == [Idle EXCEPT !.pc = "FindForward", !.from = x, !.at = x,
                             !.level = top]
<1>1. shape.height[x] \in 1 .. MaxHeight
  BY ShapeFacts, Basics DEF IInv
<1>2. top \in 0 .. MaxHeight /\ shape.height[x] > top
  BY <1>1, HeightsArePositive
<1>3. Tower(shape, x, top)
  BY <1>2 DEF Tower
<1>4. f \in Frame
  <2>1. Idle \in Frame /\ x \in Ref
    BY IdleIsOK DEF FrameOK, Ref
  <2> HIDE DEF top
  <2> QED BY <1>2, <2>1 DEF Frame, PC
<1>5. FrameOK(f, shape)
  <2> HIDE DEF top
  <2> QED BY <1>3, <1>4 DEF FrameOK, Idle, JoinFrame, SplitFrame, FindFrame
<1>6. frame \in [Threads -> Frame] /\ frame' = [frame EXCEPT ![t] = f]
  BY DEF StartFind, Becomes, IInv, TypeOK
<1>7. /\ next' = next /\ prev' = prev /\ pending' = pending
      /\ UNCHANGED <<phase, shape, bonds, before, answers>>
  BY DEF StartFind, shared, caller
<1> HIDE DEF f
<1>8. \A u \in Threads : FrameOK(frame'[u], shape')
  BY <1>5, <1>6, <1>7 DEF IInv
<1>9. TypeOK'
  BY <1>4, <1>6, <1>7 DEF IInv, TypeOK
<1>10. LinksInShape'
  BY <1>7 DEF LinksInShape, IInv
<1> QED BY <1>7, <1>8, <1>9, <1>10 DEF IInv, StartFind

(* The neighbour of an element at the top of its tower reaches that level. *)
LEMMA NeighbourTop ==
  ASSUME NEW s \in Shapes, NEW l \in Level, NEW at \in Elements,
         NEW n \in {s.right[l][at], s.left[l][at]}, n # Null
  PROVE  /\ Tower(s, n, l)
         /\ s.height[n] - 1 \in 0 .. MaxHeight
         /\ Tower(s, n, s.height[n] - 1)
<1>1. n \in Elements /\ Tower(s, n, l)
  BY ShapeFacts DEF Ref, Joined
<1>2. s.height[n] \in 1 .. MaxHeight
  BY <1>1, ShapeFacts
<1> QED BY <1>1, <1>2, HeightsArePositive DEF Tower

LEMMA FindForwardStep ==
  ASSUME IInv, NEW t \in Threads, FindForward(t)
  PROVE  IInv'
<1> DEFINE f == frame[t]
           n == next[f.level][f.at]
           top == shape.height[n] - 1
           climb == [f EXCEPT !.at = n, !.seen = Null, !.level = top]
           on == [f EXCEPT !.at = n, !.seen = IF @ = Null \/ f.at < @
                                              THEN f.at ELSE @]
           end == [f EXCEPT !.pc = "done", !.result = f.seen]
           back == [f EXCEPT !.pc = "FindBackward"]
<1>1. FrameOK(f, shape) /\ f.pc = "FindForward" /\ Tower(shape, f.at, f.level)
  BY DEF IInv, FindForward, FrameOK, FindFrame
<1>2. f \in Frame /\ f.level \in Level /\ f.at \in Elements /\ shape \in Shapes
  BY <1>1, TowerLevel DEF IInv, FrameOK, Frame, Tower
<1>3. n # Null => /\ Tower(shape, n, f.level) /\ top \in 0 .. MaxHeight
                  /\ Tower(shape, n, top)
  <2>1. n \in {Null, shape.right[f.level][f.at]}
    BY <1>2 DEF IInv, LinksInShape
  <2> HIDE DEF n
  <2> QED BY <1>2, <2>1, NeighbourTop
<1>4. CASE n # Null /\ Becomes(t, climb)
  <2>1. n \in Ref /\ Null \in Ref
    BY <1>3, <1>4 DEF Tower, Ref
  <2> HIDE DEF n, top
  <2>2. climb \in Frame
    BY <1>2, <1>3, <1>4, <2>1 DEF Frame
  <2>3. FrameOK(climb, shape)
    BY <1>1, <1>3, <1>4, <2>2 DEF FrameOK, Frame, JoinFrame, SplitFrame, FindFrame
  <2> QED BY <1>1, <1>4, <2>3, LocalStep DEF FindForward
<1>5. CASE n # Null /\ Becomes(t, on)
  <2>1. n \in Ref /\ f.at \in Ref
    BY <1>2, <1>3, <1>5 DEF Tower, Ref
  <2> HIDE DEF n
  <2>2. on \in Frame
    BY <1>2, <2>1 DEF Frame
  <2>3. FrameOK(on, shape)
    BY <1>1, <1>3, <1>5, <2>2 DEF FrameOK, Frame, JoinFrame, SplitFrame, FindFrame
  <2> QED BY <1>1, <1>5, <2>3, LocalStep DEF FindForward
<1>6. CASE Becomes(t, end)
  <2>1. end \in Frame
    BY <1>2 DEF Frame, PC
  <2>2. FrameOK(end, shape)
    BY <1>1, <2>1 DEF FrameOK, Frame, JoinFrame, SplitFrame, FindFrame
  <2> QED BY <1>1, <1>6, <2>2, LocalStep DEF FindForward
<1>7. CASE Becomes(t, back)
  <2>1. back \in Frame
    BY <1>2 DEF Frame, PC
  <2>2. FrameOK(back, shape)
    BY <1>1, <2>1 DEF FrameOK, Frame, JoinFrame, SplitFrame, FindFrame
  <2> QED BY <1>1, <1>7, <2>2, LocalStep DEF FindForward
<1> QED BY <1>4, <1>5, <1>6, <1>7 DEF FindForward

LEMMA FindBackwardStep ==
  ASSUME IInv, NEW t \in Threads, FindBackward(t)
  PROVE  IInv'
<1> DEFINE f == frame[t]
           n == ReadPrev(t, f.level, f.at)
           top == shape.height[n] - 1
           on == [f EXCEPT !.at = n, !.level = top]
           end == [f EXCEPT !.pc = "done", !.result = f.at]
<1>1. FrameOK(f, shape) /\ f.pc = "FindBackward" /\ Tower(shape, f.at, f.level)
  BY DEF IInv, FindBackward, FrameOK, FindFrame
<1>2. f \in Frame /\ f.level \in Level /\ f.at \in Elements /\ shape \in Shapes
  BY <1>1, TowerLevel DEF IInv, FrameOK, Frame, Tower
<1>3. n # Null => top \in 0 .. MaxHeight /\ Tower(shape, n, top)
  <2>1. n \in {Null, shape.left[f.level][f.at]}
    BY <1>2, ReadPrevInShape
  <2> HIDE DEF n
  <2> QED BY <1>2, <2>1, NeighbourTop
<1>4. CASE n # Null /\ Becomes(t, on)
  <2>1. n \in Ref
    BY <1>3, <1>4 DEF Tower, Ref
  <2> HIDE DEF n, top
  <2>2. on \in Frame
    BY <1>2, <1>3, <1>4, <2>1 DEF Frame
  <2>3. FrameOK(on, shape)
    BY <1>1, <1>3, <1>4, <2>2 DEF FrameOK, Frame, JoinFrame, SplitFrame, FindFrame
  <2> QED BY <1>1, <1>4, <2>3, LocalStep DEF FindBackward
<1>5. CASE Becomes(t, end)
  <2>1. f.at \in Ref
    BY <1>2 DEF Ref
  <2>2. end \in Frame
    BY <1>2, <2>1 DEF Frame, PC
  <2>3. FrameOK(end, shape)
    BY <1>1, <2>2 DEF FrameOK, Frame, JoinFrame, SplitFrame, FindFrame
  <2> QED BY <1>1, <1>5, <2>3, LocalStep DEF FindBackward
<1> QED BY <1>4, <1>5 DEF FindBackward

----
(* Returns, the store buffers and the barriers *)

LEMMA ReturnStep ==
  ASSUME IInv, NEW t \in Threads, Return(t)
  PROVE  IInv'
<1>1. frame[t].pc # "idle" /\ Becomes(t, Idle) /\ FrameOK(Idle, shape)
  BY IdleIsOK DEF Return
<1>2. /\ next' = next /\ prev' = prev /\ pending' = pending
      /\ UNCHANGED <<phase, shape, bonds, before>>
  BY DEF Return, shared
<1>3. answers' \in [Elements -> Nat]
  <2> DEFINE x == frame[t].from
  <2>1. answers \in [Elements -> Nat]
    BY DEF IInv, TypeOK
  <2>2. answers' = answers \/ answers' = [answers EXCEPT ![x] = @ + 1]
    BY DEF Return
  <2> HIDE DEF x
  <2> QED BY <2>1, <2>2
<1>4. LinksInShape'
  BY <1>2 DEF LinksInShape, IInv
<1> QED BY <1>1, <1>2, <1>3, <1>4, CallStep DEF IInv, TypeOK, StoreType

LEMMA FlushStep ==
  ASSUME IInv, NEW t \in Threads, Flush(t)
  PROVE  IInv'
<1> DEFINE p == pending[t]
<1>1. p.level \in Level /\ p.element \in Elements /\ p.value = Null
  BY DEF IInv, StoreOK, Flush
<1>2. prev \in Links /\ Null \in Ref
  BY DEF IInv, TypeOK, Ref
<1>3. /\ prev' = [prev EXCEPT ![p.level][p.element] = Null]
      /\ next' = next /\ frame' = frame
      /\ UNCHANGED <<phase, shape, bonds, before, answers>>
      /\ pending' = [pending EXCEPT ![t] = NoStore]
  BY <1>1 DEF Flush, caller
<1>4. prev' \in Links
  BY <1>2, <1>3 DEF Links
<1>5. \A l \in Level : \A x \in Elements : prev'[l][x] \in {Null, prev[l][x]}
  BY <1>2, <1>3 DEF Links
<1>6. LinksInShape'
  BY <1>3, <1>5 DEF LinksInShape, IInv
<1>7. NoStore \in StoreType /\ StoreOK(NoStore)
  BY Basics DEF NoStore, StoreType, StoreOK, Ref
<1>8. /\ pending' \in [Threads -> StoreType]
      /\ \A u \in Threads : StoreOK(pending'[u])
  BY <1>3, <1>7 DEF IInv, TypeOK, StoreType
<1>9. TypeOK'
  BY <1>3, <1>4, <1>8 DEF IInv, TypeOK, StoreType
<1>10. phase # "quiet"
  BY DEF Flush, IInv, Quiet
<1> QED BY <1>3, <1>6, <1>8, <1>9, <1>10 DEF IInv

LEMMA BeginPhaseStep ==
  ASSUME IInv, NEW p \in {"join", "split", "find"}, NEW s \in Shapes,
         BeginPhase(p, s)
  PROVE  IInv'
<1>1. /\ next' = next /\ prev' = prev /\ pending' = pending /\ frame' = frame
      /\ phase' = p /\ shape' = s /\ before' = bonds /\ bonds' = bonds
      /\ answers' = [x \in Elements |-> 0]
  BY DEF BeginPhase, shared
<1>2. Quiet
  BY DEF BeginPhase, IInv
<1>3. \A u \in Threads : FrameOK(frame'[u], s)
  BY <1>1, <1>2, IdleIsOK DEF Quiet
<1>4. TypeOK'
  BY <1>1, ShapeFacts DEF IInv, TypeOK
<1>5. LinksInShape'
  <2> SUFFICES ASSUME NEW l \in Level, NEW x \in Elements
               PROVE  /\ next[l][x] \in {Null, s.right[l][x]}
                      /\ prev[l][x] \in {Null, s.left[l][x]}
    BY <1>1 DEF LinksInShape
  <2> QED BY DEF BeginPhase, LinksOf, BackLinksOf
<1> QED BY <1>1, <1>3, <1>4, <1>5 DEF IInv

LEMMA EndPhaseStep ==
  ASSUME IInv, EndPhase
  PROVE  IInv'
<1>1. /\ next' = next /\ prev' = prev /\ pending' = pending /\ frame' = frame
      /\ phase' = "quiet" /\ UNCHANGED <<shape, bonds, before, answers>>
  BY DEF EndPhase, shared
<1>2. Quiet'
  BY <1>1 DEF EndPhase, Quiet
<1>3. TypeOK' /\ LinksInShape'
  BY <1>1 DEF IInv, TypeOK, LinksInShape
<1> QED BY <1>1, <1>2, <1>3 DEF IInv

LEMMA InitIInv == Init => IInv
<1> SUFFICES ASSUME Init PROVE IInv
  OBVIOUS
<1>1. shape \in Shapes /\ shape \in ShapeType
  BY ShapeFacts DEF Init
<1>2. NoStore \in StoreType /\ Null \in Ref /\ Idle \in Frame
  BY Basics, IdleIsOK DEF NoStore, StoreType, Ref, FrameOK
<1>3. TypeOK
  BY <1>1, <1>2 DEF Init, TypeOK, Links, StoreType
<1>4. LinksInShape
  BY DEF Init, LinksInShape
<1>5. \A t \in Threads : FrameOK(frame[t], shape) /\ StoreOK(pending[t])
  BY IdleIsOK DEF Init, StoreOK
<1>6. Quiet
  BY DEF Init, Quiet
<1> QED BY <1>1, <1>3, <1>4, <1>5, <1>6 DEF IInv

LEMMA NextIInv == IInv /\ [Next]_vars => IInv'
<1> SUFFICES ASSUME IInv, [Next]_vars PROVE IInv'
  OBVIOUS
<1>1. ASSUME NEW t \in Threads, Step(t) PROVE IInv'
  BY <1>1, JoinTestStep, JoinNextStep, JoinPrevStep, JoinLeftStep, JoinRightStep,
     SplitTestStep, SplitNextStep, SplitPrevStep, SplitLeftStep,
     FindForwardStep, FindBackwardStep, ReturnStep
     DEF Step
<1>2. ASSUME NEW t \in Threads, Flush(t) PROVE IInv'
  BY <1>2, FlushStep
<1>3. ASSUME NEW t \in Threads, NEW x \in Elements, Start(t, x) PROVE IInv'
  BY <1>3, StartJoinStep, StartSplitStep, StartFindStep DEF Start
<1>4. ASSUME NEW p \in {"join", "split", "find"}, NEW s \in Shapes, BeginPhase(p, s)
      PROVE  IInv'
  BY <1>4, BeginPhaseStep
<1>5. CASE EndPhase
  BY <1>5, EndPhaseStep
<1>6. CASE UNCHANGED vars
  BY <1>6 DEF vars, caller, IInv, TypeOK, LinksInShape, Quiet
<1> QED BY <1>1, <1>2, <1>3, <1>4, <1>5, <1>6 DEF Next

(* What each frame knows of the arrangement holds in every behaviour.      *)
THEOREM Invariance == Spec => []IInv
BY InitIInv, NextIInv, PTL DEF Spec

(* In every behaviour, for every set of elements, threads and arrangements,*)
(* the variables of the list and of the calls have their types.            *)
THEOREM TypeCorrect == Spec => []TypeOK
<1>1. IInv => TypeOK
  BY DEF IInv
<1> QED BY <1>1, Invariance, PTL

(* No interleaving of Joins, or of Splits, ever links two elements that    *)
(* are not neighbours at that level.                                       *)
THEOREM NoWrongLink == Spec => []LinksInShape
<1>1. IInv => LinksInShape
  BY DEF IInv
<1> QED BY <1>1, Invariance, PTL

(* Every neighbour access of every call is to an existing element within   *)
(* the bounds of its neighbour array.                                      *)
THEOREM AccessesInBounds == Spec => []InBounds
<1>1. IInv => InBounds
  <2>1. SUFFICES ASSUME IInv, NEW t \in Threads, NEW f, f = frame[t], NEW x,
                        \/ f.pc \in {"JoinNext", "JoinPrev", "SplitNext", "SplitPrev"}
                           /\ x \in {f.left, f.right}
                        \/ f.pc \in {"JoinTest", "SplitTest"} /\ f.left # Null /\ x = f.left
                        \/ f.pc \in {"JoinLeft", "JoinRight", "SplitLeft",
                                     "FindForward", "FindBackward"} /\ x = f.at
                 PROVE  x # Null /\ shape.height[x] > f.level
    BY DEF InBounds
  <2>2. FrameOK(f, shape)
    BY <2>1 DEF IInv
  <2>3. Tower(shape, x, f.level)
    BY <2>1, <2>2 DEF FrameOK, JoinFrame, SplitFrame, FindFrame, Joined
  <2> QED BY <2>3, Basics DEF Tower
<1> QED BY <1>1, Invariance, PTL

----
(***************************************************************************)
(* What the links say at every moment of a phase: a join phase links, and  *)
(* a split phase cuts, no more than it was asked to, and the two           *)
(* directions of a link appear and go in the right order.  At level 0 this *)
(* makes Joins and Splits those of AtomicLists.                            *)
(***************************************************************************)
JoinPCs == {"JoinTest", "JoinNext", "JoinPrev", "JoinLeft", "JoinRight"}
SplitPCs == {"SplitTest", "SplitNext", "SplitPrev", "SplitLeft"}
FindPCs == {"FindForward", "FindBackward"}

InPhase(f, p) ==
  /\ f.pc \in JoinPCs => p = "join"
  /\ f.pc \in SplitPCs => p = "split"
  /\ f.pc \in FindPCs => p = "find"

(* What the links n tell a join: the elements its search for a left parent *)
(* has passed, and then all that its search for the right parent leaves    *)
(* behind, are joined with what they skip.                                 *)
JoinLinks(f, s, B, n) ==
  LET l == f.level
      steps == s.steps[f.level]
  IN
  /\ f.pc \in JoinPCs \ {"JoinRight"} /\ f.left # Null /\ f.right # Null =>
       Spanned(s, B, l, f.left)
  /\ f.pc = "JoinPrev" => n[l][f.left] = f.right
  /\ f.pc = "JoinLeft" /\ s.lpar[l][f.left] # Null =>
       /\ steps[f.at] <= steps[f.left]
       /\ \A c \in Below(s, l, s.lpar[l][f.left]) :
            steps[f.at] <= steps[c] /\ steps[c] <= steps[f.left] =>
              Spanned(s, B, l, c)
  /\ f.pc = "JoinRight" /\ f.left # Null /\ s.height[f.at] > l + 1 =>
       \A c \in Below(s, l, f.left) : Spanned(s, B, l, c)
  /\ f.pc = "JoinRight" /\ f.left # Null /\ ~(s.height[f.at] > l + 1) =>
       /\ s.lpar[l][f.at] = f.left
       /\ \A c \in Below(s, l, f.left) :
            steps[c] < steps[f.at] => Spanned(s, B, l, c)
       /\ ~(s.height[f.right] > l + 1)
       /\ steps[f.right] <= steps[f.at]

(* A split is at an element whose link skips one that has been split, and  *)
(* its search stays below the left parent of that element.                 *)
SplitLinks(f, s, B, n) ==
  LET l == f.level IN
  /\ f.pc \in SplitPCs /\ f.left # Null => ~Spanned(s, B, l, f.left)
  /\ f.pc = "SplitPrev" => n[l][f.left] = Null
  /\ f.pc = "SplitLeft" =>
       /\ s.lpar[l][f.at] = s.lpar[l][f.left]
       /\ s.lpar[l][f.left] # Null => s.steps[l][f.at] <= s.steps[l][f.left]

(* A buffered store clears the back link of a link that has been cut.      *)
StoreLinks(p, ph, s, n) ==
  p # NoStore =>
    /\ ph = "split"
    /\ s.left[p.level][p.element] # Null
    /\ n[p.level][s.left[p.level][p.element]] = Null

(* NeverBeyondRequest, with the requested links spelled out.               *)
NotBeyond(ph, s, B, n) ==
  \A l \in Level : \A x \in Elements :
    /\ ph = "join" /\ n[l][x] # Null => Spanned(s, B, l, x)
    /\ ph = "split" /\ Spanned(s, B, l, x) => n[l][x] = s.right[l][x]

LinkInv ==
  /\ PointersPaired
  /\ NotBeyond(phase, shape, bonds, next)
  /\ \A t \in Threads : InPhase(frame[t], phase)
  /\ \A t \in Threads : JoinLinks(frame[t], shape, bonds, next)
  /\ \A t \in Threads : SplitLinks(frame[t], shape, bonds, next)
  /\ \A t \in Threads : StoreLinks(pending[t], phase, shape, next)

----
----
(* What the other threads know stays true *)

GrowsOnly(n, m) ==
  \A l \in Level : \A x \in Elements : n[l][x] # Null => m[l][x] = n[l][x]

ShrinksOnly(n, m) ==
  \A l \in Level : \A x \in Elements : n[l][x] = Null => m[l][x] = Null

LEMMA JoinLinksKept ==
  ASSUME NEW f, NEW s, FrameOK(f, s), NEW B, NEW n, NEW C, NEW m,
         JoinLinks(f, s, B, n), B \subseteq C, GrowsOnly(n, m)
  PROVE  JoinLinks(f, s, C, m)
<1>1. \A l, x : Spanned(s, B, l, x) => Spanned(s, C, l, x)
  BY DEF Spanned
<1>2. f.pc = "JoinPrev" =>
        f.level \in Level /\ f.left \in Elements /\ f.right \in Elements
  BY DEF FrameOK, JoinFrame, Joined, Tower
<1>3. f.pc = "JoinPrev" => m[f.level][f.left] = f.right
  BY <1>2, Basics DEF JoinLinks, GrowsOnly
<1> QED BY <1>1, <1>3 DEF JoinLinks

LEMMA SplitLinksKept ==
  ASSUME NEW f, NEW s, FrameOK(f, s), NEW B, NEW n, NEW C, NEW m,
         SplitLinks(f, s, B, n), C \subseteq B, ShrinksOnly(n, m)
  PROVE  SplitLinks(f, s, C, m)
<1>1. \A l, x : Spanned(s, C, l, x) => Spanned(s, B, l, x)
  BY DEF Spanned
<1>2. f.pc = "SplitPrev" => f.level \in Level /\ f.left \in Elements
  BY DEF FrameOK, SplitFrame, Joined, Tower
<1>3. f.pc = "SplitPrev" => m[f.level][f.left] = Null
  BY <1>2 DEF SplitLinks, ShrinksOnly
<1> QED BY <1>1, <1>3 DEF SplitLinks

(* A frame of another kind of call is not concerned.                       *)
LEMMA NotConcerned ==
  ASSUME NEW f, NEW s, NEW B, NEW n
  PROVE  /\ f.pc \notin JoinPCs => JoinLinks(f, s, B, n)
         /\ f.pc \notin SplitPCs => SplitLinks(f, s, B, n)
BY DEF JoinLinks, SplitLinks, JoinPCs, SplitPCs

(* A step of thread t that leaves its frame at f keeps the invariant, when *)
(* what it does to the links goes in the direction of the phase.           *)
LEMMA LinkStep ==
  ASSUME IInv, LinkInv, NEW t \in Threads, NEW f, Becomes(t, f),
         UNCHANGED <<phase, shape>>,
         InPhase(f, phase),
         JoinLinks(f, shape, bonds', next'), SplitLinks(f, shape, bonds', next'),
         PointersPaired', NotBeyond(phase, shape, bonds', next'),
         \A u \in Threads : StoreLinks(pending'[u], phase, shape, next'),
         phase = "join" => bonds \subseteq bonds' /\ GrowsOnly(next, next'),
         phase = "split" => bonds' \subseteq bonds /\ ShrinksOnly(next, next')
  PROVE  LinkInv'
<1>1. frame \in [Threads -> Frame]
  BY DEF IInv, TypeOK
<1>2. \A u \in Threads : frame'[u] = IF u = t THEN f ELSE frame[u]
  BY <1>1 DEF Becomes
<1>3. ASSUME NEW u \in Threads
      PROVE  InPhase(frame'[u], phase)
  BY <1>2 DEF LinkInv
<1>4. ASSUME NEW u \in Threads
      PROVE  JoinLinks(frame'[u], shape, bonds', next')
  <2>1. FrameOK(frame[u], shape) /\ JoinLinks(frame[u], shape, bonds, next)
    BY DEF IInv, LinkInv
  <2>2. CASE phase = "join"
    BY <1>2, <2>1, <2>2, JoinLinksKept
  <2>3. CASE phase # "join"
    <3>1. frame[u].pc \notin JoinPCs
      BY <2>3 DEF LinkInv, InPhase
    <3> QED BY <1>2, <3>1, NotConcerned
  <2> QED BY <2>2, <2>3
<1>5. ASSUME NEW u \in Threads
      PROVE  SplitLinks(frame'[u], shape, bonds', next')
  <2>1. FrameOK(frame[u], shape) /\ SplitLinks(frame[u], shape, bonds, next)
    BY DEF IInv, LinkInv
  <2>2. CASE phase = "split"
    BY <1>2, <2>1, <2>2, SplitLinksKept
  <2>3. CASE phase # "split"
    <3>1. frame[u].pc \notin SplitPCs
      BY <2>3 DEF LinkInv, InPhase
    <3> QED BY <1>2, <3>1, NotConcerned
  <2> QED BY <2>2, <2>3
<1> QED BY <1>3, <1>4, <1>5 DEF LinkInv

(* The steps that only move on in the call.                                *)
LEMMA LocalLinkStep ==
  ASSUME IInv, LinkInv, NEW t \in Threads, NEW f, Becomes(t, f),
         InPhase(f, phase),
         JoinLinks(f, shape, bonds, next), SplitLinks(f, shape, bonds, next),
         UNCHANGED <<shared, pending, phase, shape, bonds>>
  PROVE  LinkInv'
<1>1. next' = next /\ prev' = prev /\ UNCHANGED <<pending, phase, shape, bonds>>
  BY DEF shared
<1>2. PointersPaired'
  BY <1>1 DEF LinkInv, PointersPaired
<1>3. NotBeyond(phase, shape, bonds', next')
  BY <1>1 DEF LinkInv
<1>4. GrowsOnly(next, next') /\ ShrinksOnly(next, next')
  BY <1>1 DEF GrowsOnly, ShrinksOnly
<1> QED BY <1>1, <1>2, <1>3, <1>4, LinkStep DEF LinkInv

LEMMA NotBeyondRequest == IInv /\ LinkInv => NeverBeyondRequest
<1> SUFFICES ASSUME IInv, LinkInv PROVE NeverBeyondRequest
  OBVIOUS
<1>1. \A l \in Level : \A x \in Elements :
        Requested[l][x] = IF Spanned(shape, bonds, l, x) THEN shape.right[l][x]
                          ELSE Null
  BY DEF Requested, LinksOf, Spanned
<1>2. \A l \in Level : \A x \in Elements : next[l][x] \in {Null, shape.right[l][x]}
  BY DEF IInv, LinksInShape
<1> QED BY <1>1, <1>2 DEF NeverBeyondRequest, LinkInv, NotBeyond

----
(* Join *)

LEMMA StartJoinLinks ==
  ASSUME IInv, LinkInv, NEW t \in Threads, NEW x \in Elements, StartJoin(t, x)
  PROVE  LinkInv'
<1> DEFINE f == [Idle EXCEPT !.pc = "JoinTest", !.from = x, !.left = x,
                             !.right = shape.right[0][x]]
<1>1. /\ Becomes(t, f) /\ next' = next /\ prev' = prev /\ pending' = pending
      /\ UNCHANGED <<phase, shape>> /\ phase = "join" /\ bonds' = bonds \cup {x}
  BY DEF StartJoin, shared
<1>2. f.pc = "JoinTest" /\ f.level = 0 /\ f.left = x
  BY DEF Idle
<1>3. Spanned(shape, bonds', 0, x)
  BY <1>1, SpanFacts DEF IInv
<1> HIDE DEF f
<1>4. InPhase(f, phase) /\ SplitLinks(f, shape, bonds', next')
  BY <1>1, <1>2 DEF InPhase, SplitLinks, SplitPCs, FindPCs
<1>5. JoinLinks(f, shape, bonds', next')
  BY <1>2, <1>3 DEF JoinLinks
<1>6. NotBeyond(phase, shape, bonds', next')
  BY <1>1 DEF LinkInv, NotBeyond, Spanned
<1>7. PointersPaired'
  BY <1>1 DEF LinkInv, PointersPaired
<1>8. GrowsOnly(next, next')
  BY <1>1 DEF GrowsOnly
<1> QED BY <1>1, <1>4, <1>5, <1>6, <1>7, <1>8, LinkStep DEF LinkInv

LEMMA JoinTestLinks ==
  ASSUME IInv, LinkInv, NEW t \in Threads, JoinTest(t)
  PROVE  LinkInv'
<1> DEFINE f == frame[t]
           g == [f EXCEPT !.pc = "JoinNext"]
           h == [f EXCEPT !.pc = "done"]
<1>1. /\ f.pc = "JoinTest" /\ f \in Frame
      /\ InPhase(f, phase) /\ JoinLinks(f, shape, bonds, next)
      /\ UNCHANGED <<shared, pending, phase, shape, bonds>>
  BY DEF JoinTest, LinkInv, caller, IInv, TypeOK
<1>2. CASE f.left # Null /\ f.right # Null /\ Becomes(t, g)
  <2>1. g.pc = "JoinNext" /\ g.level = f.level /\ g.left = f.left
    BY <1>1 DEF Frame
  <2> HIDE DEF g
  <2>2. InPhase(g, phase) /\ SplitLinks(g, shape, bonds, next)
    BY <1>1, <2>1 DEF InPhase, SplitLinks, JoinPCs, SplitPCs, FindPCs
  <2>3. JoinLinks(g, shape, bonds, next)
    BY <1>1, <1>2, <2>1 DEF JoinLinks, JoinPCs
  <2> QED BY <1>1, <1>2, <2>2, <2>3, LocalLinkStep
<1>3. CASE Becomes(t, h)
  <2>1. h.pc = "done"
    BY <1>1 DEF Frame
  <2> HIDE DEF h
  <2>2. InPhase(h, phase) /\ h.pc \notin JoinPCs /\ h.pc \notin SplitPCs
    BY <2>1 DEF InPhase, JoinPCs, SplitPCs, FindPCs
  <2> QED BY <1>1, <1>3, <2>2, NotConcerned, LocalLinkStep
<1> QED BY <1>2, <1>3 DEF JoinTest

LEMMA JoinNextLinks ==
  ASSUME IInv, LinkInv, NEW t \in Threads, JoinNext(t)
  PROVE  LinkInv'
<1> DEFINE f == frame[t]
           g == [f EXCEPT !.pc = "JoinPrev"]
           h == [f EXCEPT !.pc = "done"]
<1>1. /\ f.pc = "JoinNext" /\ f \in Frame /\ Joined(shape, f.level, f.left, f.right)
      /\ InPhase(f, phase) /\ JoinLinks(f, shape, bonds, next)
      /\ prev' = prev /\ UNCHANGED <<pending, phase, shape, bonds>>
  BY DEF JoinNext, LinkInv, caller, IInv, TypeOK, FrameOK, JoinFrame
<1>2. /\ phase = "join" /\ f.level \in Level /\ f.left \in Elements
      /\ f.right \in Elements /\ f.left # Null /\ f.right # Null
  BY <1>1, Basics DEF InPhase, JoinPCs, Joined, Tower
<1>3. Spanned(shape, bonds, f.level, f.left)
  BY <1>1, <1>2 DEF JoinLinks, JoinPCs
<1>4. CASE /\ next[f.level][f.left] = Null
           /\ next' = [next EXCEPT ![f.level][f.left] = f.right]
           /\ Becomes(t, g)
  <2>1. \A l \in Level : \A x \in Elements :
          next'[l][x] = IF l = f.level /\ x = f.left THEN f.right ELSE next[l][x]
    BY <1>2, <1>4 DEF Links, IInv, TypeOK
  <2>2. g.pc = "JoinPrev" /\ g.level = f.level /\ g.left = f.left /\ g.right = f.right
    BY <1>1 DEF Frame
  <2> HIDE DEF g
  <2>3. InPhase(g, phase) /\ SplitLinks(g, shape, bonds, next')
    BY <1>2, <2>2 DEF InPhase, SplitLinks, JoinPCs, SplitPCs, FindPCs
  <2>4. JoinLinks(g, shape, bonds, next')
    BY <1>2, <1>3, <2>1, <2>2 DEF JoinLinks
  <2>5. PointersPaired'
    BY <1>1, <1>2, <1>4, <2>1, Basics DEF PointersPaired, LinkInv
  <2>6. NotBeyond(phase, shape, bonds, next')
    BY <1>2, <1>3, <2>1 DEF NotBeyond, LinkInv
  <2>7. GrowsOnly(next, next')
    BY <1>4, <2>1 DEF GrowsOnly
  <2>8. \A u \in Threads : StoreLinks(pending[u], phase, shape, next')
    BY <1>2 DEF StoreLinks, LinkInv
  <2> QED BY <1>1, <1>2, <1>4, <2>3, <2>4, <2>5, <2>6, <2>7, <2>8, LinkStep
<1>5. CASE Becomes(t, h) /\ UNCHANGED next
  <2>1. h.pc = "done"
    BY <1>1 DEF Frame
  <2> HIDE DEF h
  <2>2. InPhase(h, phase) /\ h.pc \notin JoinPCs /\ h.pc \notin SplitPCs
    BY <2>1 DEF InPhase, JoinPCs, SplitPCs, FindPCs
  <2>3. UNCHANGED shared
    BY <1>1, <1>5 DEF shared
  <2> QED BY <1>1, <1>5, <2>2, <2>3, NotConcerned, LocalLinkStep
<1> QED BY <1>4, <1>5 DEF JoinNext

(* The search for the left parent begins: nothing has been passed yet.     *)
LEMMA JoinPrevLinks ==
  ASSUME IInv, LinkInv, NEW t \in Threads, JoinPrev(t)
  PROVE  LinkInv'
<1> DEFINE f == frame[t]
           g == [f EXCEPT !.pc = "JoinLeft", !.at = f.left]
<1>1. /\ f.pc = "JoinPrev" /\ f \in Frame /\ Joined(shape, f.level, f.left, f.right)
      /\ InPhase(f, phase) /\ JoinLinks(f, shape, bonds, next)
      /\ next' = next /\ UNCHANGED <<pending, phase, shape, bonds>> /\ Becomes(t, g)
      /\ prev' = [prev EXCEPT ![f.level][f.right] = IF @ = Null THEN f.left ELSE @]
  BY DEF JoinPrev, LinkInv, caller, IInv, TypeOK, FrameOK, JoinFrame
<1>2. /\ phase = "join" /\ f.level \in Level /\ f.left \in Elements
      /\ f.right \in Elements /\ f.left # Null /\ f.right # Null
  BY <1>1, Basics DEF InPhase, JoinPCs, Joined, Tower
<1>3. /\ Spanned(shape, bonds, f.level, f.left)
      /\ next[f.level][f.left] = f.right
  BY <1>1, <1>2 DEF JoinLinks, JoinPCs
<1>4. \A l \in Level : \A x \in Elements :
        prev'[l][x] = IF l = f.level /\ x = f.right /\ prev[l][x] = Null
                      THEN f.left ELSE prev[l][x]
  BY <1>1, <1>2 DEF Links, IInv, TypeOK
<1>5. /\ g.pc = "JoinLeft" /\ g.level = f.level /\ g.left = f.left
      /\ g.right = f.right /\ g.at = f.left
  BY <1>1 DEF Frame
<1> HIDE DEF g
<1>6. InPhase(g, phase) /\ SplitLinks(g, shape, bonds, next)
  BY <1>2, <1>5 DEF InPhase, SplitLinks, JoinPCs, SplitPCs, FindPCs
<1>7. JoinLinks(g, shape, bonds, next)
  <2> DEFINE p == shape.lpar[f.level][f.left]
             steps == shape.steps[f.level]
  <2>1. ASSUME p # Null
        PROVE  /\ steps[f.left] <= steps[f.left]
               /\ \A c \in Below(shape, f.level, p) :
                    steps[f.left] <= steps[c] /\ steps[c] <= steps[f.left] =>
                      Spanned(shape, bonds, f.level, c)
    <3>1. p \in Elements
      BY <1>2, <2>1, ShapeFacts DEF IInv, Ref
    <3>2. \A c \in Below(shape, f.level, p) : steps[c] \in Nat
      BY <1>2, <2>1, StepFacts DEF Below, IInv
    <3>3. f.left \in Below(shape, f.level, p)
      BY <1>2 DEF Below
    <3>4. ASSUME NEW c \in Below(shape, f.level, p), steps[c] = steps[f.left]
          PROVE  c = f.left
      BY <1>2, <3>1, <3>3, <3>4, OneAtEachStep DEF IInv
    <3> HIDE DEF f, p, steps
    <3>5. \A c \in Below(shape, f.level, p) :
            steps[f.left] <= steps[c] /\ steps[c] <= steps[f.left] => c = f.left
      BY <3>2, <3>3, <3>4
    <3> QED BY <1>3, <3>2, <3>3, <3>5
  <2> QED BY <1>3, <1>5, <2>1 DEF JoinLinks
<1>8. PointersPaired'
  BY <1>1, <1>2, <1>3, <1>4, Basics, SMTT(60) DEF PointersPaired, LinkInv
<1>9. GrowsOnly(next, next')
  BY <1>1 DEF GrowsOnly
<1> QED BY <1>1, <1>2, <1>6, <1>7, <1>8, <1>9, LinkStep DEF LinkInv

(* A read of a back link returns nothing, or what is there.                *)
LEMMA ReadPrevFacts ==
  ASSUME IInv, NEW t \in Threads, NEW l \in Level, NEW x \in Elements,
         ReadPrev(t, l, x) # Null
  PROVE  /\ ReadPrev(t, l, x) = prev[l][x]
         /\ prev[l][x] = shape.left[l][x]
         /\ prev[l][x] \in Elements
<1>1. pending[t] = NoStore \/ pending[t].value = Null
  BY DEF IInv, StoreOK
<1>2. ReadPrev(t, l, x) = prev[l][x]
  BY <1>1 DEF ReadPrev, NoStore
<1>3. prev[l][x] \in Ref
  BY DEF IInv, TypeOK, Links
<1> QED BY <1>2, <1>3 DEF Ref, IInv, LinksInShape

(* One link further to the right: the neighbour is the next element below  *)
(* the parent, or all the elements below it have been passed.              *)
LEMMA PassedOneMore ==
  ASSUME NEW s \in Shapes, NEW l \in Level, NEW p \in Elements,
         NEW m \in Below(s, l, p), NEW y \in Elements, s.right[l][m] = y,
         NEW B,
         \A c \in Below(s, l, p) : s.steps[l][c] <= s.steps[l][m] => Spanned(s, B, l, c)
  PROVE  /\ s.height[y] > l + 1 => \A c \in Below(s, l, p) : Spanned(s, B, l, c)
         /\ ~(s.height[y] > l + 1) =>
              /\ s.lpar[l][y] = p
              /\ s.steps[l][y] = s.steps[l][m] + 1
              /\ \A c \in Below(s, l, p) :
                   s.steps[l][c] < s.steps[l][y] => Spanned(s, B, l, c)
<1>1. \A c \in Below(s, l, p) :
        c \in Elements /\ s.lpar[l][c] = p /\ p # Null /\ s.steps[l][c] \in Nat
  BY Basics, StepFacts DEF Below
<1>2. CASE s.height[y] > l + 1
  BY <1>2, LastBelow
<1>3. CASE ~(s.height[y] > l + 1)
  <2>1. s.left[l][y] = m
    BY <1>1, ShapeFacts
  <2>2. s.lpar[l][y] = p
    BY <1>1, <1>3, <2>1, ParentFacts, Basics
  <2>3. s.steps[l][y] = s.steps[l][m] + 1
    BY <1>1, <1>3, <2>1, <2>2, StepFacts
  <2> QED BY <1>1, <1>3, <2>2, <2>3
<1> QED BY <1>2, <1>3

LEMMA JoinLeftLinks ==
  ASSUME IInv, LinkInv, NEW t \in Threads, JoinLeft(t)
  PROVE  LinkInv'
<1> DEFINE f == frame[t]
           l == f.level
           n == ReadPrev(t, l, f.at)
           p == shape.lpar[l][f.left]
           steps == shape.steps[l]
           up == [f EXCEPT !.pc = "JoinRight", !.left = Parent(f), !.at = f.right]
           on == [f EXCEPT !.at = n]
<1>1. /\ f.pc = "JoinLeft" /\ f \in Frame /\ Joined(shape, l, f.left, f.right)
      /\ Tower(shape, f.at, l) /\ shape.lpar[l][f.at] = p
      /\ InPhase(f, phase) /\ JoinLinks(f, shape, bonds, next)
      /\ UNCHANGED <<shared, pending, phase, shape, bonds>>
  BY DEF JoinLeft, LinkInv, caller, IInv, TypeOK, FrameOK, JoinFrame
<1>2. /\ phase = "join" /\ l \in Level /\ f.left \in Elements /\ f.at \in Elements
      /\ f.right \in Elements /\ f.left # Null /\ f.right # Null /\ f.at # Null
      /\ shape \in Shapes
  BY <1>1, Basics DEF InPhase, JoinPCs, Joined, Tower, IInv
<1>3. Spanned(shape, bonds, l, f.left)
  BY <1>1, <1>2 DEF JoinLinks, JoinPCs
<1>4. p # Null =>
        /\ p \in Elements /\ f.left \in Below(shape, l, p)
        /\ f.at \in Below(shape, l, p)
        /\ \A c \in Below(shape, l, p) : c \in Elements /\ steps[c] \in Nat
  <2>1. p \in Ref
    BY <1>2, ShapeFacts
  <2>2. p # Null => p \in Elements
    BY <2>1 DEF Ref
  <2>3. p # Null => \A c \in Below(shape, l, p) : c \in Elements /\ steps[c] \in Nat
    BY <1>2, StepFacts DEF Below
  <2> QED BY <1>1, <1>2, <2>2, <2>3 DEF Below
<1>5. p # Null =>
        /\ steps[f.at] <= steps[f.left]
        /\ \A c \in Below(shape, l, p) :
             steps[f.at] <= steps[c] /\ steps[c] <= steps[f.left] =>
               Spanned(shape, bonds, l, c)
  BY <1>1 DEF JoinLinks
<1>6. CASE Becomes(t, up)
  <2>1. /\ up.pc = "JoinRight" /\ up.level = l /\ up.left = Parent(f)
        /\ up.right = f.right /\ up.at = f.right
    BY <1>1 DEF Frame
  <2> HIDE DEF up
  <2>2. InPhase(up, phase) /\ SplitLinks(up, shape, bonds, next)
    BY <1>2, <2>1 DEF InPhase, SplitLinks, JoinPCs, SplitPCs, FindPCs
  <2>3. CASE Parent(f) = Null
    <3>1. JoinLinks(up, shape, bonds, next)
      BY <2>1, <2>3 DEF JoinLinks
    <3> QED BY <1>1, <1>6, <2>2, <3>1, LocalLinkStep
  <2>4. CASE Parent(f) # Null
    <3>1. Parent(f) = f.at /\ shape.height[f.at] > l + 1
      BY <2>4 DEF Parent
    <3>2. p = f.at
      BY <1>1, <1>2, <3>1, ParentFacts
    <3>3. steps[f.at] = 0
      <4>1. \A y \in Elements :
              shape.lpar[l][y] # Null /\ shape.height[y] > l + 1 => steps[y] = 0
        BY <1>2, StepFacts
      <4> HIDE DEF p, steps
      <4>2. shape.lpar[l][f.at] = f.at
        BY <1>2, <3>1, ParentFacts
      <4> QED BY <1>2, <3>1, <4>1, <4>2
    <3>4. \A c \in Below(shape, l, p) :
            steps[c] <= steps[f.left] => Spanned(shape, bonds, l, c)
      BY <1>2, <1>4, <1>5, <3>2, <3>3
    <3>5. shape.right[l][f.left] = f.right
      BY <1>1 DEF Joined
    <3>6. /\ shape.height[f.right] > l + 1 =>
               \A c \in Below(shape, l, p) : Spanned(shape, bonds, l, c)
          /\ ~(shape.height[f.right] > l + 1) =>
               /\ shape.lpar[l][f.right] = p
               /\ \A c \in Below(shape, l, p) :
                    steps[c] < steps[f.right] => Spanned(shape, bonds, l, c)
      <4>1. p \in Elements /\ f.left \in Below(shape, l, p)
        BY <1>2, <1>4, <3>2
      <4> HIDE DEF f, p, l
      <4> QED BY <1>2, <3>4, <3>5, <4>1, PassedOneMore
    <3>7. ~(shape.height[f.right] > l + 1) => steps[f.right] <= steps[f.right]
      <4>1. \A y \in Elements : shape.lpar[l][y] # Null => steps[y] \in Nat
        BY <1>2, StepFacts
      <4> HIDE DEF p, steps
      <4> QED BY <1>2, <3>2, <3>6, <4>1
    <3>8. JoinLinks(up, shape, bonds, next)
      BY <2>1, <3>1, <3>2, <3>6, <3>7 DEF JoinLinks
    <3> QED BY <1>1, <1>6, <2>2, <3>8, LocalLinkStep
  <2> QED BY <2>3, <2>4
<1>7. CASE ~SearchEnds(f, f.left, n) /\ Becomes(t, on)
  <2>1. n # Null /\ ~(shape.height[f.at] > l + 1)
    BY <1>7 DEF SearchEnds
  <2>2. n = prev[l][f.at] /\ n = shape.left[l][f.at] /\ n \in Elements
    BY <1>2, <2>1, ReadPrevFacts
  <2>3. next[l][n] = f.at
    <3>1. PointersPaired
      BY DEF LinkInv
    <3>2. prev[l][f.at] = n
      BY <2>2
    <3> HIDE DEF n, f, l
    <3> QED BY <1>2, <2>2, <3>1, <3>2 DEF PointersPaired
  <2>4. Spanned(shape, bonds, l, n)
    BY <1>2, <2>2, <2>3 DEF LinkInv, NotBeyond
  <2>5. /\ on.pc = "JoinLeft" /\ on.level = l /\ on.left = f.left
        /\ on.right = f.right /\ on.at = n
    BY <1>1 DEF Frame
  <2> HIDE DEF on, n
  <2>6. InPhase(on, phase) /\ SplitLinks(on, shape, bonds, next)
    BY <1>2, <2>5 DEF InPhase, SplitLinks, JoinPCs, SplitPCs, FindPCs
  <2>7. ASSUME p # Null
        PROVE  /\ steps[n] <= steps[f.left]
               /\ \A c \in Below(shape, l, p) :
                    steps[n] <= steps[c] /\ steps[c] <= steps[f.left] =>
                      Spanned(shape, bonds, l, c)
    <3>1. steps[f.at] = steps[n] + 1 /\ steps[n] \in Nat /\ n \in Below(shape, l, p)
      <4>1. shape.lpar[l][f.at] # Null
        BY <1>1, <2>7
      <4>2. /\ shape.lpar[l][n] = shape.lpar[l][f.at]
            /\ steps[f.at] = steps[n] + 1
            /\ steps[n] \in Nat
        <5> DEFINE k == shape.left[l][f.at]
        <5>1. /\ shape.lpar[l][k] = shape.lpar[l][f.at]
              /\ shape.steps[l][f.at] = shape.steps[l][k] + 1
              /\ shape.steps[l][k] \in Nat
          <6> HIDE DEF f, l
          <6> QED BY <1>2, <2>1, <4>1, StepFacts
        <5> QED BY <2>2, <5>1
      <4> QED BY <1>1, <2>2, <4>2 DEF Below
    <3>2. ASSUME NEW c \in Below(shape, l, p), steps[c] = steps[n]
          PROVE  c = n
      BY <1>2, <1>4, <2>7, <3>1, <3>2, OneAtEachStep
    <3> HIDE DEF p, steps
    <3> QED BY <1>4, <1>5, <2>4, <2>7, <3>1, <3>2
  <2>8. JoinLinks(on, shape, bonds, next)
    BY <1>3, <2>5, <2>7 DEF JoinLinks
  <2> QED BY <1>1, <1>7, <2>6, <2>8, LocalLinkStep
<1> QED BY <1>6, <1>7 DEF JoinLeft

LEMMA JoinRightLinks ==
  ASSUME IInv, LinkInv, NEW t \in Threads, JoinRight(t)
  PROVE  LinkInv'
<1> DEFINE f == frame[t]
           l == f.level
           n == next[f.level][f.at]
           p == f.left
           steps == shape.steps[l]
           up == [f EXCEPT !.pc = "JoinTest", !.right = Parent(f),
                           !.at = Null, !.level = @ + 1]
           on == [f EXCEPT !.at = n]
<1>1. /\ f.pc = "JoinRight" /\ f \in Frame
      /\ Joined(shape, l, shape.left[l][f.right], f.right)
      /\ Tower(shape, f.at, l)
      /\ p # Null => Tower(shape, p, l + 1)
      /\ InPhase(f, phase) /\ JoinLinks(f, shape, bonds, next)
      /\ UNCHANGED <<shared, pending, phase, shape, bonds>>
  BY DEF JoinRight, LinkInv, caller, IInv, TypeOK, FrameOK, JoinFrame
<1>2. /\ phase = "join" /\ l \in Level /\ f.at \in Elements
      /\ f.right \in Elements /\ f.right # Null /\ f.at # Null
      /\ shape \in Shapes
  BY <1>1, Basics DEF InPhase, JoinPCs, Joined, Tower, IInv
<1>3. p # Null /\ shape.height[f.at] > l + 1 =>
        \A c \in Below(shape, l, p) : Spanned(shape, bonds, l, c)
  BY <1>1 DEF JoinLinks
<1>4. p # Null /\ ~(shape.height[f.at] > l + 1) =>
        /\ shape.lpar[l][f.at] = p
        /\ \A c \in Below(shape, l, p) :
             steps[c] < steps[f.at] => Spanned(shape, bonds, l, c)
        /\ ~(shape.height[f.right] > l + 1)
        /\ steps[f.right] <= steps[f.at]
  BY <1>1 DEF JoinLinks
<1>5. CASE Becomes(t, up)
  <2>1. /\ up.pc = "JoinTest" /\ up.level = l + 1 /\ up.left = p
        /\ up.right = Parent(f)
    BY <1>1 DEF Frame
  <2> HIDE DEF up
  <2>2. InPhase(up, phase) /\ SplitLinks(up, shape, bonds, next)
    BY <1>2, <2>1 DEF InPhase, SplitLinks, JoinPCs, SplitPCs, FindPCs
  <2>3. ASSUME p # Null, Parent(f) # Null
        PROVE  Spanned(shape, bonds, l + 1, p)
    <3>1. shape.height[f.at] > l + 1
      BY <2>3 DEF Parent
    <3>2. p \in Elements /\ shape.height[p] > l + 1
      BY <1>1, <2>3 DEF Tower
    <3>3. l + 1 \in Level
      <4>1. shape.height[p] \in 1 .. MaxHeight
        BY <1>2, <3>2, ShapeFacts
      <4> QED BY <1>2, <3>2, <4>1, HeightsArePositive DEF Level
    <3> QED BY <1>2, <1>3, <2>3, <3>1, <3>2, <3>3, SpanFacts
  <2>4. JoinLinks(up, shape, bonds, next)
    BY <2>1, <2>3 DEF JoinLinks
  <2> QED BY <1>1, <1>5, <2>2, <2>4, LocalLinkStep
<1>6. CASE ~SearchEnds(f, f.right, n) /\ Becomes(t, on)
  <2>1. n # Null /\ ~(shape.height[f.at] > l + 1)
    BY <1>6 DEF SearchEnds
  <2>2. n = shape.right[l][f.at] /\ n \in Elements
    <3>1. n \in {Null, shape.right[l][f.at]}
      BY <1>2 DEF IInv, LinksInShape
    <3> QED BY <1>2, <2>1, <3>1, ShapeFacts DEF Ref
  <2>3. Spanned(shape, bonds, l, f.at)
    BY <1>2, <2>1 DEF LinkInv, NotBeyond
  <2>4. /\ on.pc = "JoinRight" /\ on.level = l /\ on.left = p
        /\ on.right = f.right /\ on.at = n
    BY <1>1 DEF Frame
  <2> HIDE DEF on, n
  <2>5. InPhase(on, phase) /\ SplitLinks(on, shape, bonds, next)
    BY <1>2, <2>4 DEF InPhase, SplitLinks, JoinPCs, SplitPCs, FindPCs
  <2>6. ASSUME p # Null
        PROVE  /\ shape.height[n] > l + 1 =>
                    \A c \in Below(shape, l, p) : Spanned(shape, bonds, l, c)
               /\ ~(shape.height[n] > l + 1) =>
                    /\ shape.lpar[l][n] = p
                    /\ \A c \in Below(shape, l, p) :
                         steps[c] < steps[n] => Spanned(shape, bonds, l, c)
                    /\ ~(shape.height[f.right] > l + 1)
                    /\ steps[f.right] <= steps[n]
    <3>1. p \in Elements /\ f.at \in Below(shape, l, p)
      BY <1>1, <1>2, <1>4, <2>1, <2>6 DEF Tower, Below
    <3>2. \A c \in Below(shape, l, p) : c \in Elements /\ steps[c] \in Nat
      BY <1>2, <2>6, StepFacts DEF Below
    <3>3. \A c \in Below(shape, l, p) :
            steps[c] <= steps[f.at] => Spanned(shape, bonds, l, c)
      <4>1. ASSUME NEW c \in Below(shape, l, p), steps[c] = steps[f.at]
            PROVE  c = f.at
        BY <1>2, <3>1, <4>1, OneAtEachStep
      <4> HIDE DEF steps, p
      <4> QED BY <1>4, <2>1, <2>3, <2>6, <3>1, <3>2, <4>1
    <3>4. /\ shape.height[n] > l + 1 =>
               \A c \in Below(shape, l, p) : Spanned(shape, bonds, l, c)
          /\ ~(shape.height[n] > l + 1) =>
               /\ shape.lpar[l][n] = p
               /\ steps[n] = steps[f.at] + 1
               /\ \A c \in Below(shape, l, p) :
                    steps[c] < steps[n] => Spanned(shape, bonds, l, c)
      <4>1. shape.right[l][f.at] = n
        BY <2>2
      <4> QED BY <1>2, <2>2, <3>1, <3>3, <4>1, PassedOneMore
    <3>5. ~(shape.height[n] > l + 1) => steps[f.right] <= steps[n]
      <4>1. steps[f.right] \in Int
        BY <1>2 DEF ShapeType, IInv, TypeOK
      <4> HIDE DEF steps, p
      <4> QED BY <1>4, <2>1, <2>6, <3>1, <3>2, <3>4, <4>1
    <3> QED BY <1>4, <2>1, <2>6, <3>4, <3>5
  <2>7. JoinLinks(on, shape, bonds, next)
    BY <2>4, <2>6 DEF JoinLinks
  <2> QED BY <1>1, <1>6, <2>5, <2>7, LocalLinkStep
<1> QED BY <1>5, <1>6 DEF JoinRight

----
(* Split *)

(* The buffered stores remain sound while links are cut.                   *)
LEMMA StoreLinksKept ==
  ASSUME IInv, LinkInv, NEW m, ShrinksOnly(next, m)
  PROVE  \A u \in Threads : StoreLinks(pending[u], phase, shape, m)
<1> SUFFICES ASSUME NEW u \in Threads, pending[u] # NoStore
             PROVE  StoreLinks(pending[u], phase, shape, m)
  BY DEF StoreLinks
<1> DEFINE l == pending[u].level
           y == pending[u].element
           x == shape.left[l][y]
<1>1. phase = "split" /\ x # Null /\ next[l][x] = Null
  BY DEF LinkInv, StoreLinks
<1>2. l \in Level /\ y \in Elements
  BY DEF IInv, StoreOK
<1>3. x \in Elements
  <2>1. x \in Ref
    BY <1>2, ShapeFacts DEF IInv
  <2> QED BY <1>1, <2>1 DEF Ref
<1>4. m[l][x] = Null
  BY <1>1, <1>2, <1>3 DEF ShrinksOnly
<1> QED BY <1>1, <1>4 DEF StoreLinks

LEMMA StartSplitLinks ==
  ASSUME IInv, LinkInv, NEW t \in Threads, NEW x \in Elements, StartSplit(t, x)
  PROVE  LinkInv'
<1> DEFINE f == [Idle EXCEPT !.pc = "SplitTest", !.from = x, !.left = x]
<1>1. /\ Becomes(t, f) /\ next' = next /\ prev' = prev /\ pending' = pending
      /\ UNCHANGED <<phase, shape>> /\ phase = "split" /\ bonds' = bonds \ {x}
  BY DEF StartSplit, shared
<1>2. f.pc = "SplitTest" /\ f.level = 0 /\ f.left = x
  BY DEF Idle
<1>3. ~Spanned(shape, bonds', 0, x)
  <2>1. Spanned(shape, bonds', 0, x) <=> x \in bonds'
    BY SpanFacts DEF IInv
  <2> QED BY <1>1, <2>1
<1> HIDE DEF f
<1>4. InPhase(f, phase) /\ JoinLinks(f, shape, bonds', next')
  BY <1>1, <1>2 DEF InPhase, JoinLinks, JoinPCs, FindPCs
<1>5. SplitLinks(f, shape, bonds', next')
  BY <1>2, <1>3 DEF SplitLinks
<1>6. NotBeyond(phase, shape, bonds', next')
  BY <1>1 DEF LinkInv, NotBeyond, Spanned
<1>7. PointersPaired'
  BY <1>1 DEF LinkInv, PointersPaired
<1>8. ShrinksOnly(next, next')
  BY <1>1 DEF ShrinksOnly
<1> QED BY <1>1, <1>4, <1>5, <1>6, <1>7, <1>8, LinkStep DEF LinkInv

LEMMA SplitTestLinks ==
  ASSUME IInv, LinkInv, NEW t \in Threads, SplitTest(t)
  PROVE  LinkInv'
<1> DEFINE f == frame[t]
           n == IF f.left = Null THEN Null ELSE next[f.level][f.left]
           g == [f EXCEPT !.pc = "SplitNext", !.right = n]
           h == [f EXCEPT !.pc = "done", !.right = Null]
<1>1. /\ f.pc = "SplitTest" /\ f \in Frame
      /\ InPhase(f, phase) /\ SplitLinks(f, shape, bonds, next)
      /\ UNCHANGED <<shared, pending, phase, shape, bonds>>
  BY DEF SplitTest, LinkInv, caller, IInv, TypeOK
<1>2. CASE n # Null /\ Becomes(t, g)
  <2>1. g.pc = "SplitNext" /\ g.level = f.level /\ g.left = f.left
    BY <1>1 DEF Frame
  <2> HIDE DEF g, n
  <2>2. InPhase(g, phase) /\ JoinLinks(g, shape, bonds, next)
    BY <1>1, <2>1 DEF InPhase, JoinLinks, JoinPCs, SplitPCs, FindPCs
  <2>3. SplitLinks(g, shape, bonds, next)
    BY <1>1, <2>1 DEF SplitLinks, SplitPCs
  <2> QED BY <1>1, <1>2, <2>2, <2>3, LocalLinkStep
<1>3. CASE Becomes(t, h)
  <2>1. h.pc = "done"
    BY <1>1 DEF Frame
  <2> HIDE DEF h
  <2>2. InPhase(h, phase) /\ h.pc \notin JoinPCs /\ h.pc \notin SplitPCs
    BY <2>1 DEF InPhase, JoinPCs, SplitPCs, FindPCs
  <2> QED BY <1>1, <1>3, <2>2, NotConcerned, LocalLinkStep
<1> QED BY <1>2, <1>3 DEF SplitTest

LEMMA SplitNextLinks ==
  ASSUME IInv, LinkInv, NEW t \in Threads, SplitNext(t)
  PROVE  LinkInv'
<1> DEFINE f == frame[t]
           g == [f EXCEPT !.pc = "SplitPrev",
                          !.result = IF f.level = 0 THEN f.right ELSE @]
           h == [f EXCEPT !.pc = "done"]
<1>1. /\ f.pc = "SplitNext" /\ f \in Frame /\ Joined(shape, f.level, f.left, f.right)
      /\ InPhase(f, phase) /\ SplitLinks(f, shape, bonds, next)
      /\ prev' = prev /\ UNCHANGED <<pending, phase, shape, bonds>>
  BY DEF SplitNext, LinkInv, caller, IInv, TypeOK, FrameOK, SplitFrame
<1>2. /\ phase = "split" /\ f.level \in Level /\ f.left \in Elements
      /\ f.left # Null
  BY <1>1, Basics DEF InPhase, SplitPCs, Joined, Tower
<1>3. ~Spanned(shape, bonds, f.level, f.left)
  BY <1>1, <1>2 DEF SplitLinks, SplitPCs
<1>4. CASE /\ next' = [next EXCEPT ![f.level][f.left] = Null]
           /\ Becomes(t, g)
  <2>1. \A l \in Level : \A x \in Elements :
          next'[l][x] = IF l = f.level /\ x = f.left THEN Null ELSE next[l][x]
    BY <1>2, <1>4 DEF Links, IInv, TypeOK
  <2>2. g.pc = "SplitPrev" /\ g.level = f.level /\ g.left = f.left
    BY <1>1 DEF Frame
  <2> HIDE DEF g
  <2>3. InPhase(g, phase) /\ JoinLinks(g, shape, bonds, next')
    BY <1>2, <2>2 DEF InPhase, JoinLinks, JoinPCs, SplitPCs, FindPCs
  <2>4. SplitLinks(g, shape, bonds, next')
    BY <1>2, <1>3, <2>1, <2>2 DEF SplitLinks
  <2>5. PointersPaired'
    BY <1>1, <1>2, <2>1, Basics DEF PointersPaired, LinkInv
  <2>6. NotBeyond(phase, shape, bonds, next')
    BY <1>2, <1>3, <2>1 DEF NotBeyond, LinkInv
  <2>7. ShrinksOnly(next, next')
    BY <2>1 DEF ShrinksOnly
  <2>8. \A u \in Threads : StoreLinks(pending[u], phase, shape, next')
    BY <2>7, StoreLinksKept
  <2> QED BY <1>1, <1>2, <1>4, <2>3, <2>4, <2>5, <2>6, <2>7, <2>8, LinkStep
<1>5. CASE Becomes(t, h) /\ UNCHANGED next
  <2>1. h.pc = "done"
    BY <1>1 DEF Frame
  <2> HIDE DEF h
  <2>2. InPhase(h, phase) /\ h.pc \notin JoinPCs /\ h.pc \notin SplitPCs
    BY <2>1 DEF InPhase, JoinPCs, SplitPCs, FindPCs
  <2>3. UNCHANGED shared
    BY <1>1, <1>5 DEF shared
  <2> QED BY <1>1, <1>5, <2>2, <2>3, NotConcerned, LocalLinkStep
<1> QED BY <1>4, <1>5 DEF SplitNext

LEMMA SplitPrevLinks ==
  ASSUME IInv, LinkInv, NEW t \in Threads, SplitPrev(t)
  PROVE  LinkInv'
<1> DEFINE f == frame[t]
           p == [level |-> f.level, element |-> f.right, value |-> Null]
           g == [f EXCEPT !.pc = "SplitLeft", !.at = f.left]
<1>1. /\ f.pc = "SplitPrev" /\ f \in Frame /\ Joined(shape, f.level, f.left, f.right)
      /\ InPhase(f, phase) /\ SplitLinks(f, shape, bonds, next)
      /\ next' = next /\ prev' = prev /\ UNCHANGED <<phase, shape, bonds>>
      /\ Becomes(t, g) /\ pending' = [pending EXCEPT ![t] = p]
  BY DEF SplitPrev, LinkInv, shared, caller, IInv, TypeOK, FrameOK, SplitFrame
<1>2. /\ phase = "split" /\ f.level \in Level /\ f.left \in Elements
      /\ f.right \in Elements /\ f.left # Null
  BY <1>1, Basics DEF InPhase, SplitPCs, Joined, Tower
<1>3. ~Spanned(shape, bonds, f.level, f.left) /\ next[f.level][f.left] = Null
  BY <1>1, <1>2 DEF SplitLinks, SplitPCs
<1>4. shape.left[f.level][f.right] = f.left
  BY <1>1, <1>2, ShapeFacts DEF Joined, IInv
<1>5. \A u \in Threads : StoreLinks(pending'[u], phase, shape, next)
  <2>1. StoreLinks(p, phase, shape, next)
    BY <1>2, <1>3, <1>4 DEF StoreLinks
  <2>2. \A u \in Threads : pending'[u] = IF u = t THEN p ELSE pending[u]
    BY <1>1 DEF IInv, TypeOK
  <2> HIDE DEF p
  <2> QED BY <2>1, <2>2 DEF LinkInv
<1>6. /\ g.pc = "SplitLeft" /\ g.level = f.level /\ g.left = f.left /\ g.at = f.left
  BY <1>1 DEF Frame
<1> HIDE DEF g
<1>7. InPhase(g, phase) /\ JoinLinks(g, shape, bonds, next)
  BY <1>2, <1>6 DEF InPhase, JoinLinks, JoinPCs, SplitPCs, FindPCs
<1>8. SplitLinks(g, shape, bonds, next)
  <2>1. shape.steps[f.level][f.left] \in Nat
    BY <1>2 DEF IInv, TypeOK, ShapeType
  <2> QED BY <1>3, <1>6, <2>1 DEF SplitLinks
<1>9. PointersPaired' /\ ShrinksOnly(next, next')
  BY <1>1 DEF PointersPaired, LinkInv, ShrinksOnly
<1> QED BY <1>1, <1>2, <1>5, <1>7, <1>8, <1>9, LinkStep DEF LinkInv

LEMMA SplitLeftLinks ==
  ASSUME IInv, LinkInv, NEW t \in Threads, SplitLeft(t)
  PROVE  LinkInv'
<1> DEFINE f == frame[t]
           l == f.level
           n == ReadPrev(t, l, f.at)
           p == shape.lpar[l][f.left]
           up == [f EXCEPT !.pc = "SplitTest", !.left = Parent(f), !.at = Null,
                           !.level = @ + 1]
           on == [f EXCEPT !.at = n]
<1>1. /\ f.pc = "SplitLeft" /\ f \in Frame /\ Joined(shape, l, f.left, f.right)
      /\ Tower(shape, f.at, l)
      /\ InPhase(f, phase) /\ SplitLinks(f, shape, bonds, next)
      /\ UNCHANGED <<shared, pending, phase, shape, bonds>>
  BY DEF SplitLeft, LinkInv, caller, IInv, TypeOK, FrameOK, SplitFrame
<1>2. /\ phase = "split" /\ l \in Level /\ f.left \in Elements /\ f.at \in Elements
      /\ f.left # Null /\ f.at # Null /\ shape \in Shapes
  BY <1>1, Basics DEF InPhase, SplitPCs, Joined, Tower, IInv
<1>3. /\ ~Spanned(shape, bonds, l, f.left)
      /\ shape.lpar[l][f.at] = p
      /\ p # Null => shape.steps[l][f.at] <= shape.steps[l][f.left]
  BY <1>1, <1>2 DEF SplitLinks, SplitPCs
<1>4. CASE Becomes(t, up)
  <2>1. up.pc = "SplitTest" /\ up.level = l + 1 /\ up.left = Parent(f)
    BY <1>1 DEF Frame
  <2> HIDE DEF up
  <2>2. InPhase(up, phase) /\ JoinLinks(up, shape, bonds, next)
    BY <1>2, <2>1 DEF InPhase, JoinLinks, JoinPCs, SplitPCs, FindPCs
  <2>3. ASSUME Parent(f) # Null
        PROVE  ~Spanned(shape, bonds, l + 1, Parent(f))
    <3>1. Parent(f) = f.at /\ shape.height[f.at] > l + 1
      BY <2>3 DEF Parent
    <3>2. f.left \in Below(shape, l, f.at)
      BY <1>2, <1>3, <3>1, ParentFacts DEF Below
    <3>3. l + 1 \in Level
      <4>1. shape.height[f.at] \in 1 .. MaxHeight
        BY <1>2, ShapeFacts
      <4> QED BY <1>2, <3>1, <4>1, HeightsArePositive DEF Level
    <3> QED BY <1>2, <1>3, <3>1, <3>2, <3>3, SpanFacts
  <2>4. SplitLinks(up, shape, bonds, next)
    BY <2>1, <2>3 DEF SplitLinks
  <2> QED BY <1>1, <1>4, <2>2, <2>4, LocalLinkStep
<1>5. CASE ~SearchEnds(f, f.left, n) /\ Becomes(t, on)
  <2>1. n # Null /\ ~(shape.height[f.at] > l + 1)
    BY <1>5 DEF SearchEnds
  <2>2. n = shape.left[l][f.at] /\ n \in Elements
    BY <1>2, <2>1, ReadPrevFacts
  <2>3. on.pc = "SplitLeft" /\ on.level = l /\ on.left = f.left /\ on.at = n
    BY <1>1 DEF Frame
  <2> HIDE DEF on, n
  <2>4. InPhase(on, phase) /\ JoinLinks(on, shape, bonds, next)
    BY <1>2, <2>3 DEF InPhase, JoinLinks, JoinPCs, SplitPCs, FindPCs
  <2>5. shape.lpar[l][n] = p
    BY <1>2, <1>3, <2>1, <2>2, ParentFacts
  <2>6. p # Null => shape.steps[l][n] <= shape.steps[l][f.left]
    <3>1. ASSUME p # Null
          PROVE  /\ shape.steps[l][f.at] = shape.steps[l][n] + 1
                 /\ shape.steps[l][n] \in Nat /\ shape.steps[l][f.left] \in Nat
      <4>1. f.at \in Elements /\ f.left \in Elements /\ l \in Level /\ shape \in Shapes
            /\ shape.lpar[l][f.at] = p /\ shape.lpar[l][f.left] = p
            /\ ~(shape.height[f.at] > l + 1) /\ n = shape.left[l][f.at]
        BY <1>2, <1>3, <2>1, <2>2
      <4> HIDE DEF f, l, p
      <4>2. PICK x, y \in Elements : x = f.at /\ y = f.left
        BY <4>1
      <4>3. shape.steps[l][x] = shape.steps[l][n] + 1 /\ shape.steps[l][n] \in Nat
        BY <3>1, <4>1, <4>2, StepBefore
      <4>4. shape.steps[l][y] \in Nat
        BY <3>1, <4>1, <4>2, StepFacts
      <4> QED BY <4>2, <4>3, <4>4
    <3> HIDE DEF f, l, p
    <3> QED BY <1>3, <3>1
  <2>7. SplitLinks(on, shape, bonds, next)
    BY <1>3, <2>3, <2>5, <2>6 DEF SplitLinks
  <2> QED BY <1>1, <1>5, <2>4, <2>7, LocalLinkStep
<1> QED BY <1>4, <1>5 DEF SplitLeft

----
(* Searches, returns, the store buffers and the barriers *)

LEMMA StartFindLinks ==
  ASSUME IInv, LinkInv, NEW t \in Threads, NEW x \in Elements, StartFind(t, x)
  PROVE  LinkInv'
<1> DEFINE f == [Idle EXCEPT !.pc = "FindForward", !.from = x, !.at = x,
                             !.level = shape.height[x] - 1]
<1>1. /\ phase = "find" /\ Becomes(t, f)
      /\ UNCHANGED <<shared, pending, phase, shape, bonds>>
  BY DEF StartFind, caller
<1>2. f.pc = "FindForward"
  BY DEF Idle
<1> HIDE DEF f
<1>3. InPhase(f, phase) /\ f.pc \notin JoinPCs /\ f.pc \notin SplitPCs
  BY <1>1, <1>2 DEF InPhase, JoinPCs, SplitPCs
<1> QED BY <1>1, <1>3, NotConcerned, LocalLinkStep

(* Whatever a search does next, it is still a search, or done.             *)
LEMMA FindLinks ==
  ASSUME IInv, LinkInv, NEW t \in Threads, FindForward(t) \/ FindBackward(t)
  PROVE  LinkInv'
<1>1. /\ frame[t].pc \in FindPCs /\ frame[t] \in Frame /\ InPhase(frame[t], phase)
      /\ UNCHANGED <<shared, pending, phase, shape, bonds>>
  BY DEF FindForward, FindBackward, FindPCs, LinkInv, caller, IInv, TypeOK
<1> DEFINE f == frame'[t]
<1>2. Becomes(t, f) /\ f.pc \in FindPCs \cup {"done"}
  <2>1. frame \in [Threads -> Frame]
    BY DEF IInv, TypeOK
  <2>2. CASE FindForward(t)
    <3> DEFINE g == frame[t]
               n == next[g.level][g.at]
               top == shape.height[n] - 1
               low == IF g.seen = Null \/ g.at < g.seen THEN g.at ELSE g.seen
    <3>1. \/ Becomes(t, [g EXCEPT !.at = n, !.seen = Null, !.level = top])
          \/ Becomes(t, [g EXCEPT !.at = n, !.seen = low])
          \/ Becomes(t, [g EXCEPT !.pc = "done", !.result = g.seen])
          \/ Becomes(t, [g EXCEPT !.pc = "FindBackward"])
      BY <2>2 DEF FindForward
    <3> HIDE DEF n, top, low
    <3>2. /\ [g EXCEPT !.at = n, !.seen = Null, !.level = top].pc = g.pc
          /\ [g EXCEPT !.at = n, !.seen = low].pc = g.pc
          /\ [g EXCEPT !.pc = "done", !.result = g.seen].pc = "done"
          /\ [g EXCEPT !.pc = "FindBackward"].pc = "FindBackward"
      BY <1>1 DEF Frame
    <3>3. PICK h : Becomes(t, h) /\ h.pc \in {g.pc, "done", "FindBackward"}
      BY <3>1, <3>2
    <3>4. f = h
      BY <2>1, <3>3 DEF Becomes
    <3> QED BY <1>1, <3>3, <3>4 DEF FindPCs
  <2>3. CASE FindBackward(t)
    <3> DEFINE g == frame[t]
               n == ReadPrev(t, g.level, g.at)
               top == shape.height[n] - 1
    <3>1. \/ Becomes(t, [g EXCEPT !.at = n, !.level = top])
          \/ Becomes(t, [g EXCEPT !.pc = "done", !.result = g.at])
      BY <2>3 DEF FindBackward
    <3> HIDE DEF n, top
    <3>2. /\ [g EXCEPT !.at = n, !.level = top].pc = g.pc
          /\ [g EXCEPT !.pc = "done", !.result = g.at].pc = "done"
      BY <1>1 DEF Frame
    <3>3. PICK h : Becomes(t, h) /\ h.pc \in {g.pc, "done"}
      BY <3>1, <3>2
    <3>4. f = h
      BY <2>1, <3>3 DEF Becomes
    <3> QED BY <1>1, <3>3, <3>4 DEF FindPCs
  <2> QED BY <2>2, <2>3
<1> HIDE DEF f
<1>3. InPhase(f, phase) /\ f.pc \notin JoinPCs /\ f.pc \notin SplitPCs
  BY <1>1, <1>2 DEF InPhase, JoinPCs, SplitPCs, FindPCs
<1> QED BY <1>1, <1>2, <1>3, NotConcerned, LocalLinkStep

LEMMA IdleLinks ==
  ASSUME NEW p, NEW s, NEW B, NEW n
  PROVE  InPhase(Idle, p) /\ JoinLinks(Idle, s, B, n) /\ SplitLinks(Idle, s, B, n)
<1>1. Idle.pc = "idle"
  BY DEF Idle
<1> QED BY <1>1 DEF InPhase, JoinLinks, SplitLinks, JoinPCs, SplitPCs, FindPCs

LEMMA ReturnLinks ==
  ASSUME IInv, LinkInv, NEW t \in Threads, Return(t)
  PROVE  LinkInv'
<1>1. Becomes(t, Idle) /\ UNCHANGED <<shared, pending, phase, shape, bonds>>
  BY DEF Return
<1> QED BY <1>1, IdleLinks, LocalLinkStep

LEMMA FlushLinks ==
  ASSUME IInv, LinkInv, NEW t \in Threads, Flush(t)
  PROVE  LinkInv'
<1> DEFINE p == pending[t]
           k == p.level
           y == p.element
<1>1. /\ k \in Level /\ y \in Elements /\ p.value = Null /\ p # NoStore
      /\ StoreLinks(p, phase, shape, next)
  BY DEF IInv, StoreOK, Flush, LinkInv
<1>2. /\ next' = next /\ UNCHANGED <<phase, shape, bonds>> /\ frame' = frame
      /\ prev' = [prev EXCEPT ![k][y] = Null]
      /\ pending' = [pending EXCEPT ![t] = NoStore]
  BY <1>1 DEF Flush, caller
<1>3. phase = "split" /\ next[k][shape.left[k][y]] = Null
  BY <1>1 DEF StoreLinks
<1>4. \A l \in Level : \A z \in Elements :
        prev'[l][z] = IF l = k /\ z = y THEN Null ELSE prev[l][z]
  BY <1>1, <1>2 DEF IInv, TypeOK, Links
<1>5. \A u \in Threads : StoreLinks(pending'[u], phase, shape, next)
  <2>1. \A u \in Threads : pending'[u] = IF u = t THEN NoStore ELSE pending[u]
    BY <1>2 DEF IInv, TypeOK
  <2> QED BY <2>1 DEF LinkInv, StoreLinks
<1>6. PointersPaired'
  <2> SUFFICES ASSUME NEW l \in Level, NEW x \in Elements, NEW z \in Elements,
                      next[l][x] = z
               PROVE  prev'[l][z] = x
    BY <1>2, <1>3 DEF PointersPaired
  <2>1. prev[l][z] = x
    BY <1>3 DEF LinkInv, PointersPaired
  <2>2. z # Null /\ shape.right[l][x] = z
    BY Basics DEF IInv, LinksInShape
  <2>3. shape.left[l][z] = x
    BY <2>2, ShapeFacts DEF IInv
  <2>4. ~(l = k /\ z = y)
    BY <1>3, <2>2, <2>3
  <2> QED BY <1>4, <2>1, <2>4
<1>7. Becomes(t, frame[t])
  BY <1>2 DEF Becomes, IInv, TypeOK
<1>8. ShrinksOnly(next, next')
  BY <1>2 DEF ShrinksOnly
<1> QED BY <1>2, <1>3, <1>5, <1>6, <1>7, <1>8, LinkStep DEF LinkInv

LEMMA BeginPhaseLinks ==
  ASSUME IInv, LinkInv, NEW p \in {"join", "split", "find"}, NEW s \in Shapes,
         BeginPhase(p, s)
  PROVE  LinkInv'
<1>1. /\ next' = next /\ prev' = prev /\ pending' = pending /\ frame' = frame
      /\ phase' = p /\ shape' = s /\ bonds' = bonds
      /\ next = LinksOf(s, bonds) /\ prev = BackLinksOf(s, bonds)
  BY DEF BeginPhase, shared
<1>2. Quiet
  BY DEF BeginPhase, IInv
<1>3. \A l \in Level : \A x \in Elements :
        /\ next[l][x] = IF Spanned(s, bonds, l, x) THEN s.right[l][x] ELSE Null
        /\ prev[l][x] = IF s.left[l][x] # Null /\ Spanned(s, bonds, l, s.left[l][x])
                        THEN s.left[l][x] ELSE Null
  BY <1>1 DEF LinksOf, BackLinksOf, Spanned
<1>4. PointersPaired'
  <2> SUFFICES ASSUME NEW l \in Level, NEW x \in Elements, NEW y \in Elements
               PROVE  (prev[l][y] = x <=> next[l][x] = y)
    BY <1>1 DEF PointersPaired
  <2>1. x # Null /\ y # Null
    BY Basics
  <2>2. s.right[l][x] = y <=> s.left[l][y] = x
    BY ShapeFacts
  <2> QED BY <1>3, <2>1, <2>2
<1>5. NotBeyond(p, s, bonds, next)
  BY <1>3 DEF NotBeyond
<1>6. \A u \in Threads : StoreLinks(pending[u], p, s, next)
  BY <1>2 DEF Quiet, StoreLinks
<1> QED BY <1>1, <1>2, <1>4, <1>5, <1>6, IdleLinks DEF LinkInv, Quiet

LEMMA EndPhaseLinks ==
  ASSUME IInv, LinkInv, EndPhase
  PROVE  LinkInv'
<1>1. /\ next' = next /\ prev' = prev /\ pending' = pending /\ frame' = frame
      /\ phase' = "quiet" /\ UNCHANGED <<shape, bonds>> /\ Quiet
  BY DEF EndPhase, shared
<1>2. PointersPaired' /\ NotBeyond("quiet", shape, bonds, next)
  BY <1>1 DEF PointersPaired, NotBeyond
<1>3. \A u \in Threads : StoreLinks(pending[u], "quiet", shape, next)
  BY <1>1 DEF Quiet, StoreLinks
<1> QED BY <1>1, <1>2, <1>3, IdleLinks DEF LinkInv, Quiet

LEMMA InitLinks == Init => LinkInv
<1> SUFFICES ASSUME Init PROVE LinkInv
  OBVIOUS
<1>1. PointersPaired /\ NotBeyond(phase, shape, bonds, next)
  BY DEF Init, PointersPaired, NotBeyond
<1>2. \A u \in Threads : StoreLinks(pending[u], phase, shape, next)
  BY DEF Init, StoreLinks
<1> QED BY <1>1, <1>2, IdleLinks DEF LinkInv, Init

LEMMA NextLinks == IInv /\ LinkInv /\ [Next]_vars => LinkInv'
<1> SUFFICES ASSUME IInv, LinkInv, [Next]_vars PROVE LinkInv'
  OBVIOUS
<1>1. ASSUME NEW t \in Threads, Step(t) PROVE LinkInv'
  BY <1>1, JoinTestLinks, JoinNextLinks, JoinPrevLinks, JoinLeftLinks,
     JoinRightLinks, SplitTestLinks, SplitNextLinks, SplitPrevLinks,
     SplitLeftLinks, FindLinks, ReturnLinks
     DEF Step
<1>2. ASSUME NEW t \in Threads, Flush(t) PROVE LinkInv'
  BY <1>2, FlushLinks
<1>3. ASSUME NEW t \in Threads, NEW x \in Elements, Start(t, x) PROVE LinkInv'
  BY <1>3, StartJoinLinks, StartSplitLinks, StartFindLinks DEF Start
<1>4. ASSUME NEW p \in {"join", "split", "find"}, NEW s \in Shapes, BeginPhase(p, s)
      PROVE  LinkInv'
  BY <1>4, BeginPhaseLinks
<1>5. CASE EndPhase
  BY <1>5, EndPhaseLinks
<1>6. CASE UNCHANGED vars
  <2>1. /\ next' = next /\ prev' = prev /\ pending' = pending /\ frame' = frame
        /\ UNCHANGED <<phase, shape, bonds>>
    BY <1>6 DEF vars, caller
  <2> QED BY <2>1 DEF LinkInv, PointersPaired
<1> QED BY <1>1, <1>2, <1>3, <1>4, <1>5, <1>6 DEF Next

(* Links and back links agree as the kind of the phase allows, and every   *)
(* link that is made or missing has a call to answer for it.               *)
THEOREM LinkInvariance == Spec => [](IInv /\ LinkInv)
<1>1. Spec => []IInv /\ Init /\ [][Next]_vars
  BY Invariance DEF Spec
<1>2. []IInv /\ Init /\ [][Next]_vars => []LinkInv
  BY InitLinks, NextLinks, PTL
<1> QED BY <1>1, <1>2, PTL

(* In a join phase a back link never precedes the link it belongs to, in a *)
(* split phase it never disappears before it.                              *)
THEOREM LinksPaired == Spec => []PointersPaired
<1>1. LinkInv => PointersPaired
  BY DEF LinkInv
<1> QED BY <1>1, LinkInvariance, PTL

(* Joins link only over elements that have been joined, and splits cut     *)
(* only links that skip an element that has been split.                    *)
THEOREM OnlyWhatIsAsked == Spec => []NeverBeyondRequest
BY NotBeyondRequest, LinkInvariance, PTL

(***************************************************************************)
(* What a barrier finds: every link that is still missing in a join phase, *)
(* or still in place in a split phase, is the business of some call that   *)
(* has not returned; so when all have returned none is.                    *)
(***************************************************************************)

(* Join: the first link of an element, the link one level up over elements *)
(* that are all linked, and the back link that belongs to a link.          *)
MissesBottom(B, n, x) == x \in B /\ n[0][x] = Null

MissesAbove(s, n, l, p) ==
  /\ l + 1 \in Level
  /\ s.right[l + 1][p] # Null
  /\ n[l + 1][p] = Null
  /\ \A c \in Below(s, l, p) : n[l][c] # Null

MissesBack(n, pr, l, x, y) == n[l][x] = y /\ pr[l][y] = Null

LinksBottom(f, x) ==
  /\ f.pc \in {"JoinTest", "JoinNext"}
  /\ f.level = 0
  /\ f.left = x
  /\ f.right # Null

LinksAbove(f, s, l, p) ==
  \/ f.pc \in {"JoinPrev", "JoinLeft"} /\ f.level = l /\ s.lpar[l][f.left] = p
  \/ f.pc = "JoinRight" /\ f.level = l /\ f.left = p
  \/ /\ f.pc \in {"JoinTest", "JoinNext"}
     /\ f.level = l + 1
     /\ f.left = p
     /\ f.right # Null

LinksBack(f, l, x) == f.pc = "JoinPrev" /\ f.level = l /\ f.left = x

JoinsToCome ==
  /\ \A x \in Elements :
       MissesBottom(bonds, next, x) => \E t \in Threads : LinksBottom(frame[t], x)
  /\ \A l \in Level : \A p \in Elements :
       MissesAbove(shape, next, l, p) =>
         \E t \in Threads : LinksAbove(frame[t], shape, l, p)
  /\ \A l \in Level : \A x, y \in Elements :
       MissesBack(next, prev, l, x, y) => \E t \in Threads : LinksBack(frame[t], l, x)

(* Split: the first link of an element, the link one level up over an      *)
(* element whose own link is cut, and the back link of a link that is cut. *)
KeepsBottom(B, n, x) == x \notin B /\ n[0][x] # Null

KeepsAbove(s, n, l, p, c) ==
  /\ l + 1 \in Level
  /\ n[l + 1][p] # Null
  /\ c \in Below(s, l, p)
  /\ n[l][c] = Null

KeepsBack(n, pr, l, x, y) == pr[l][y] = x /\ n[l][x] = Null

CutsBottom(f, x) ==
  f.pc \in {"SplitTest", "SplitNext"} /\ f.level = 0 /\ f.left = x

(* The search for p begins at c or to the left of it, where no other split *)
(* can have cut its way off unless that one cuts the link above itself.    *)
CutsAbove(f, s, l, p, c) ==
  \/ /\ f.pc \in {"SplitPrev", "SplitLeft"}
     /\ f.level = l
     /\ s.lpar[l][f.left] = p
     /\ s.steps[l][f.left] <= s.steps[l][c]
  \/ f.pc \in {"SplitTest", "SplitNext"} /\ f.level = l + 1 /\ f.left = p

ClearsBack(f, st, l, y) ==
  \/ f.pc = "SplitPrev" /\ f.level = l /\ f.right = y
  \/ st = [level |-> l, element |-> y, value |-> Null]

SplitsToCome ==
  /\ \A x \in Elements :
       KeepsBottom(bonds, next, x) => \E t \in Threads : CutsBottom(frame[t], x)
  /\ \A l \in Level : \A p, c \in Elements :
       KeepsAbove(shape, next, l, p, c) =>
         \E t \in Threads : CutsAbove(frame[t], shape, l, p, c)
  /\ \A l \in Level : \A x, y \in Elements :
       KeepsBack(next, prev, l, x, y) =>
         \E t \in Threads : ClearsBack(frame[t], pending[t], l, y)

Canonical(n, pr, s, B) == n = LinksOf(s, B) /\ pr = BackLinksOf(s, B)

BarrierInv ==
  /\ \A x \in bonds : shape.right[0][x] # Null
  /\ phase = "join" => JoinsToCome
  /\ phase = "split" => SplitsToCome
  /\ phase \in {"quiet", "find"} => Canonical(next, prev, shape, bonds)

----
(* Join *)

(* A step of thread t to the frame g, in a join phase: what is missing     *)
(* after it is t's business, or was missing before and not t's, or is that *)
(* of some other thread.                                                   *)
LEMMA JoinBarrier ==
  ASSUME IInv, BarrierInv, phase = "join",
         NEW t \in Threads, NEW g, Becomes(t, g),
         UNCHANGED <<phase, shape>>,
         \A x \in bonds' : shape.right[0][x] # Null,
         \A x \in Elements :
           MissesBottom(bonds', next', x) =>
             \/ LinksBottom(g, x)
             \/ MissesBottom(bonds, next, x) /\ ~LinksBottom(frame[t], x),
         \A l \in Level : \A p \in Elements :
           MissesAbove(shape, next', l, p) =>
             \/ LinksAbove(g, shape, l, p)
             \/ /\ MissesAbove(shape, next, l, p)
                /\ ~LinksAbove(frame[t], shape, l, p)
             \/ \E u \in Threads \ {t} : LinksAbove(frame[u], shape, l, p),
         \A l \in Level : \A x, y \in Elements :
           MissesBack(next', prev', l, x, y) =>
             \/ LinksBack(g, l, x)
             \/ MissesBack(next, prev, l, x, y) /\ ~LinksBack(frame[t], l, x)
  PROVE  BarrierInv'
<1>1. \A u \in Threads : frame'[u] = IF u = t THEN g ELSE frame[u]
  BY DEF Becomes, IInv, TypeOK
<1>2. JoinsToCome
  BY DEF BarrierInv
<1>3. ASSUME NEW x \in Elements, MissesBottom(bonds', next', x)
      PROVE  \E u \in Threads : LinksBottom(frame'[u], x)
  BY <1>1, <1>2, <1>3 DEF JoinsToCome
<1>4. ASSUME NEW l \in Level, NEW p \in Elements, MissesAbove(shape, next', l, p)
      PROVE  \E u \in Threads : LinksAbove(frame'[u], shape, l, p)
  BY <1>1, <1>2, <1>4 DEF JoinsToCome
<1>5. ASSUME NEW l \in Level, NEW x \in Elements, NEW y \in Elements,
             MissesBack(next', prev', l, x, y)
      PROVE  \E u \in Threads : LinksBack(frame'[u], l, x)
  BY <1>1, <1>2, <1>5 DEF JoinsToCome
<1>6. JoinsToCome'
  BY <1>3, <1>4, <1>5 DEF JoinsToCome
<1> QED BY <1>6 DEF BarrierInv

(* The steps that leave the links alone.                                   *)
LEMMA LocalJoinBarrier ==
  ASSUME IInv, BarrierInv, phase = "join",
         NEW t \in Threads, NEW g, Becomes(t, g),
         UNCHANGED <<shared, phase, shape, bonds>>,
         \A x \in Elements :
           MissesBottom(bonds, next, x) /\ LinksBottom(frame[t], x) => LinksBottom(g, x),
         \A l \in Level : \A p \in Elements :
           MissesAbove(shape, next, l, p) /\ LinksAbove(frame[t], shape, l, p) =>
             \/ LinksAbove(g, shape, l, p)
             \/ \E u \in Threads \ {t} : LinksAbove(frame[u], shape, l, p),
         \A l \in Level : \A x, y \in Elements :
           MissesBack(next, prev, l, x, y) /\ LinksBack(frame[t], l, x) =>
             LinksBack(g, l, x)
  PROVE  BarrierInv'
<1>1. next' = next /\ prev' = prev /\ UNCHANGED <<phase, shape, bonds>>
  BY DEF shared
<1>2. \A x \in bonds' : shape.right[0][x] # Null
  BY <1>1 DEF BarrierInv
<1> QED BY <1>1, <1>2, JoinBarrier

LEMMA StartJoinBarrier ==
  ASSUME IInv, LinkInv, BarrierInv,
         NEW t \in Threads, NEW x \in Elements, StartJoin(t, x)
  PROVE  BarrierInv'
<1> DEFINE g == [Idle EXCEPT !.pc = "JoinTest", !.from = x, !.left = x,
                             !.right = shape.right[0][x]]
<1>1. /\ Becomes(t, g) /\ next' = next /\ prev' = prev
      /\ UNCHANGED <<phase, shape>> /\ phase = "join" /\ bonds' = bonds \cup {x}
      /\ frame[t].pc = "idle" /\ shape.right[0][x] # Null
  BY DEF StartJoin, shared, Idle
<1>2. g.pc = "JoinTest" /\ g.level = 0 /\ g.left = x /\ g.right = shape.right[0][x]
  BY DEF Idle
<1> HIDE DEF g
<1>3. LinksBottom(g, x)
  BY <1>1, <1>2 DEF LinksBottom
<1>4. /\ \A y : ~LinksBottom(frame[t], y)
      /\ \A l, p : ~LinksAbove(frame[t], shape, l, p)
      /\ \A l, y : ~LinksBack(frame[t], l, y)
  BY <1>1 DEF LinksBottom, LinksAbove, LinksBack
<1>5. \A y \in Elements :
        MissesBottom(bonds', next', y) => y = x \/ MissesBottom(bonds, next, y)
  BY <1>1 DEF MissesBottom
<1>6. \A y \in bonds' : shape.right[0][y] # Null
  BY <1>1 DEF BarrierInv
<1> QED BY <1>1, <1>3, <1>4, <1>5, <1>6, JoinBarrier

LEMMA JoinTestBarrier ==
  ASSUME IInv, LinkInv, BarrierInv, NEW t \in Threads, JoinTest(t)
  PROVE  BarrierInv'
<1> DEFINE f == frame[t]
           g == [f EXCEPT !.pc = "JoinNext"]
           h == [f EXCEPT !.pc = "done"]
<1>1. /\ f.pc = "JoinTest" /\ f \in Frame /\ phase = "join"
      /\ UNCHANGED <<shared, phase, shape, bonds>>
  BY DEF JoinTest, caller, IInv, TypeOK, LinkInv, InPhase, JoinPCs
<1>2. CASE Becomes(t, g)
  <2>1. /\ g.pc = "JoinNext" /\ g.level = f.level /\ g.left = f.left
        /\ g.right = f.right
    BY <1>1 DEF Frame
  <2> HIDE DEF g
  <2>2. /\ \A x : LinksBottom(f, x) => LinksBottom(g, x)
        /\ \A l, p : LinksAbove(f, shape, l, p) => LinksAbove(g, shape, l, p)
        /\ \A l, x : ~LinksBack(f, l, x)
    BY <1>1, <2>1 DEF LinksBottom, LinksAbove, LinksBack
  <2> QED BY <1>1, <1>2, <2>2, LocalJoinBarrier
<1>3. CASE /\ ~(f.left # Null /\ f.right # Null /\ next[f.level][f.left] = Null)
           /\ Becomes(t, h)
  <2>1. \A x \in Elements : MissesBottom(bonds, next, x) => ~LinksBottom(f, x)
    BY <1>3, Basics DEF MissesBottom, LinksBottom
  <2>2. \A l \in Level : \A p \in Elements :
          MissesAbove(shape, next, l, p) => ~LinksAbove(f, shape, l, p)
    BY <1>1, <1>3, Basics DEF MissesAbove, LinksAbove
  <2>3. \A l, x : ~LinksBack(f, l, x)
    BY <1>1 DEF LinksBack
  <2> QED BY <1>1, <1>3, <2>1, <2>2, <2>3, LocalJoinBarrier
<1> QED BY <1>2, <1>3 DEF JoinTest

LEMMA JoinNextBarrier ==
  ASSUME IInv, LinkInv, BarrierInv, NEW t \in Threads, JoinNext(t)
  PROVE  BarrierInv'
<1> DEFINE f == frame[t]
           g == [f EXCEPT !.pc = "JoinPrev"]
           h == [f EXCEPT !.pc = "done"]
<1>1. /\ f.pc = "JoinNext" /\ f \in Frame /\ phase = "join"
      /\ Joined(shape, f.level, f.left, f.right)
      /\ prev' = prev /\ UNCHANGED <<phase, shape, bonds>>
  BY DEF JoinNext, caller, IInv, TypeOK, LinkInv, InPhase, JoinPCs, FrameOK, JoinFrame
<1>2. /\ f.level \in Level /\ f.left \in Elements /\ f.right \in Elements
      /\ f.left # Null /\ f.right # Null
  BY <1>1, Basics DEF Joined, Tower
<1>3. \A l, x : ~LinksBack(f, l, x)
  BY <1>1 DEF LinksBack
<1>4. CASE /\ next[f.level][f.left] = Null
           /\ next' = [next EXCEPT ![f.level][f.left] = f.right]
           /\ Becomes(t, g)
  <2>1. \A l \in Level : \A x \in Elements :
          next'[l][x] = IF l = f.level /\ x = f.left THEN f.right ELSE next[l][x]
    BY <1>2, <1>4 DEF Links, IInv, TypeOK
  <2>2. g.pc = "JoinPrev" /\ g.level = f.level /\ g.left = f.left
    BY <1>1 DEF Frame
  <2> HIDE DEF g
  <2>3. \A x \in Elements :
          MissesBottom(bonds, next', x) =>
            MissesBottom(bonds, next, x) /\ ~LinksBottom(f, x)
    BY <1>2, <2>1, Basics DEF MissesBottom, LinksBottom
  <2>4. ASSUME NEW l \in Level, NEW p \in Elements,
               MissesAbove(shape, next', l, p)
        PROVE  \/ LinksAbove(g, shape, l, p)
               \/ /\ MissesAbove(shape, next, l, p)
                  /\ ~LinksAbove(f, shape, l, p)
    <3>1. CASE l = f.level /\ f.left \in Below(shape, l, p)
      BY <2>2, <3>1 DEF LinksAbove, Below
    <3>2. CASE ~(l = f.level /\ f.left \in Below(shape, l, p))
      <4>1. \A c \in Below(shape, l, p) : next'[l][c] = next[l][c]
        BY <2>1, <3>2 DEF Below
      <4>2. ~(f.level = l + 1 /\ f.left = p)
        BY <1>2, <2>1, <2>4 DEF MissesAbove
      <4>3. next'[l + 1][p] = next[l + 1][p]
        BY <2>1, <2>4, <4>2 DEF MissesAbove
      <4> QED BY <1>1, <2>4, <4>1, <4>2, <4>3 DEF MissesAbove, LinksAbove
    <3> QED BY <3>1, <3>2
  <2>5. ASSUME NEW l \in Level, NEW x \in Elements, NEW y \in Elements,
               MissesBack(next', prev, l, x, y)
        PROVE  LinksBack(g, l, x) \/ MissesBack(next, prev, l, x, y)
    BY <2>1, <2>2, <2>5 DEF MissesBack, LinksBack
  <2>6. \A x \in bonds' : shape.right[0][x] # Null
    BY <1>1 DEF BarrierInv
  <2> QED BY <1>1, <1>3, <1>4, <2>3, <2>4, <2>5, <2>6, JoinBarrier
<1>5. CASE /\ next[f.level][f.left] # Null
           /\ Becomes(t, h) /\ UNCHANGED next
  <2>1. \A x \in Elements : MissesBottom(bonds, next, x) => ~LinksBottom(f, x)
    BY <1>5 DEF MissesBottom, LinksBottom
  <2>2. \A l \in Level : \A p \in Elements :
          MissesAbove(shape, next, l, p) => ~LinksAbove(f, shape, l, p)
    BY <1>1, <1>5 DEF MissesAbove, LinksAbove
  <2>3. UNCHANGED <<shared, phase, shape, bonds>>
    BY <1>1, <1>5 DEF shared
  <2> QED BY <1>1, <1>3, <1>5, <2>1, <2>2, <2>3, LocalJoinBarrier
<1> QED BY <1>4, <1>5 DEF JoinNext

LEMMA JoinPrevBarrier ==
  ASSUME IInv, LinkInv, BarrierInv, NEW t \in Threads, JoinPrev(t)
  PROVE  BarrierInv'
<1> DEFINE f == frame[t]
           g == [f EXCEPT !.pc = "JoinLeft", !.at = f.left]
<1>1. /\ f.pc = "JoinPrev" /\ f \in Frame /\ phase = "join"
      /\ Joined(shape, f.level, f.left, f.right)
      /\ next[f.level][f.left] = f.right
      /\ next' = next /\ UNCHANGED <<phase, shape, bonds>> /\ Becomes(t, g)
      /\ prev' = [prev EXCEPT ![f.level][f.right] = IF @ = Null THEN f.left ELSE @]
  BY DEF JoinPrev, caller, IInv, TypeOK, LinkInv, InPhase, JoinPCs, FrameOK,
         JoinFrame, JoinLinks
<1>2. /\ f.level \in Level /\ f.left \in Elements /\ f.right \in Elements
      /\ f.left # Null /\ f.right # Null
  BY <1>1, Basics DEF Joined, Tower
<1>3. \A l \in Level : \A x \in Elements :
        prev'[l][x] = IF l = f.level /\ x = f.right /\ prev[l][x] = Null
                      THEN f.left ELSE prev[l][x]
  BY <1>1, <1>2 DEF Links, IInv, TypeOK
<1>4. g.pc = "JoinLeft" /\ g.level = f.level /\ g.left = f.left
  BY <1>1 DEF Frame
<1> HIDE DEF g
<1>5. /\ \A x : ~LinksBottom(f, x)
      /\ \A l, p : LinksAbove(f, shape, l, p) => LinksAbove(g, shape, l, p)
  BY <1>1, <1>4 DEF LinksBottom, LinksAbove
<1>6. ASSUME NEW l \in Level, NEW x \in Elements, NEW y \in Elements,
             MissesBack(next, prev', l, x, y)
      PROVE  MissesBack(next, prev, l, x, y) /\ ~LinksBack(f, l, x)
  BY <1>1, <1>2, <1>3, <1>6 DEF MissesBack, LinksBack
<1>7. \A x \in bonds' : shape.right[0][x] # Null
  BY <1>1 DEF BarrierInv
<1> QED BY <1>1, <1>5, <1>6, <1>7, JoinBarrier

(* No store is buffered outside a split phase.                             *)
LEMMA ReadPrevIsPrev ==
  ASSUME IInv, LinkInv, phase # "split", NEW t \in Threads,
         NEW l \in Level, NEW x \in Elements
  PROVE  ReadPrev(t, l, x) = prev[l][x]
<1>1. pending[t] = NoStore
  BY DEF LinkInv, StoreLinks
<1> QED BY <1>1, Basics DEF ReadPrev, NoStore

LEMMA JoinLeftBarrier ==
  ASSUME IInv, LinkInv, BarrierInv, NEW t \in Threads, JoinLeft(t)
  PROVE  BarrierInv'
<1> DEFINE f == frame[t]
           l == f.level
           n == ReadPrev(t, l, f.at)
           p == shape.lpar[l][f.left]
           steps == shape.steps[l]
           up == [f EXCEPT !.pc = "JoinRight", !.left = Parent(f), !.at = f.right]
           on == [f EXCEPT !.at = n]
<1>1. /\ f.pc = "JoinLeft" /\ f \in Frame /\ phase = "join"
      /\ Joined(shape, l, f.left, f.right)
      /\ Tower(shape, f.at, l) /\ shape.lpar[l][f.at] = p
      /\ JoinLinks(f, shape, bonds, next)
      /\ UNCHANGED <<shared, phase, shape, bonds>>
  BY DEF JoinLeft, caller, IInv, TypeOK, LinkInv, InPhase, JoinPCs, FrameOK,
         JoinFrame
<1>2. /\ l \in Level /\ f.left \in Elements /\ f.at \in Elements
      /\ f.left # Null /\ f.at # Null /\ shape \in Shapes
  BY <1>1, Basics DEF Joined, Tower, IInv
<1>3. /\ \A x : ~LinksBottom(f, x)
      /\ \A k, x : ~LinksBack(f, k, x)
      /\ \A k, q : LinksAbove(f, shape, k, q) => k = l /\ q = p
  BY <1>1 DEF LinksBottom, LinksBack, LinksAbove
<1>4. CASE SearchEnds(f, f.left, n) /\ Becomes(t, up)
  <2>1. up.pc = "JoinRight" /\ up.level = l /\ up.left = Parent(f)
    BY <1>1 DEF Frame
  <2> HIDE DEF up
  <2>2. ASSUME p \in Elements, MissesAbove(shape, next, l, p)
        PROVE  \/ LinksAbove(up, shape, l, p)
               \/ \E u \in Threads \ {t} : LinksAbove(frame[u], shape, l, p)
    <3>1. CASE shape.height[f.at] > l + 1
      <4>1. Parent(f) = f.at /\ p = f.at
        BY <1>1, <1>2, <3>1, ParentFacts DEF Parent
      <4> QED BY <2>1, <4>1 DEF LinksAbove
    <3>2. CASE ~(shape.height[f.at] > l + 1)
      <4> DEFINE k == shape.left[l][f.at]
      <4>0. shape.lpar[l][f.at] # Null
        BY <1>1, <2>2, Basics
      <4>1. /\ k \in Elements /\ shape.lpar[l][k] = p
            /\ shape.right[l][k] = f.at
            /\ shape.steps[l][f.at] = shape.steps[l][k] + 1
            /\ shape.steps[l][k] \in Nat
        <5>1. f.at \in Elements /\ l \in Level /\ shape \in Shapes /\ p # Null
              /\ shape.lpar[l][f.at] = p /\ ~(shape.height[f.at] > l + 1)
          BY <1>1, <1>2, <3>2, <4>0
        <5> HIDE DEF f, l, p
        <5>2. PICK y \in Elements : y = f.at
          BY <5>1
        <5>3. /\ shape.left[l][y] \in Elements
              /\ shape.lpar[l][shape.left[l][y]] = p
              /\ shape.right[l][shape.left[l][y]] = y
              /\ shape.steps[l][y] = shape.steps[l][shape.left[l][y]] + 1
              /\ shape.steps[l][shape.left[l][y]] \in Nat
          BY <5>1, <5>2, StepBefore, SMTT(60)
        <5> QED BY <5>2, <5>3
      <4>2. shape.steps[l][f.at] <= shape.steps[l][f.left]
        BY <1>1, <4>0 DEF JoinLinks
      <4>3. prev[l][f.at] = Null
        <5>1. n = prev[l][f.at]
          BY <1>1, <1>2, ReadPrevIsPrev
        <5>2. n \in {Null, f.left}
          BY <1>4, <3>2 DEF SearchEnds
        <5>3. n \in {Null, k}
          BY <1>2, ReadPrevInShape
        <5>4. k # f.left
          <6> HIDE DEF f, l, k
          <6> QED BY <4>1, <4>2
        <5> QED BY <5>1, <5>2, <5>3, <5>4
      <4>4. k \in Below(shape, l, p)
        BY <4>1 DEF Below
      <4>5. next[l][k] = f.at
        <5>1. next[l][k] # Null
          BY <2>2, <4>4 DEF MissesAbove
        <5>2. next[l][k] \in {Null, shape.right[l][k]}
          BY <1>2, <4>1 DEF IInv, LinksInShape
        <5> QED BY <4>1, <5>1, <5>2
      <4>6. MissesBack(next, prev, l, k, f.at)
        BY <4>3, <4>5 DEF MissesBack
      <4>7. PICK u \in Threads : LinksBack(frame[u], l, k)
        <5> HIDE DEF f, l, k
        <5> QED BY <1>1, <1>2, <4>1, <4>6 DEF BarrierInv, JoinsToCome
      <4>8. u # t
        BY <1>3, <4>7
      <4>9. LinksAbove(frame[u], shape, l, p)
        BY <4>1, <4>7 DEF LinksBack, LinksAbove
      <4> QED BY <4>8, <4>9
    <3> QED BY <3>1, <3>2
  <2>3. ASSUME NEW k \in Level, NEW q \in Elements,
               MissesAbove(shape, next, k, q), LinksAbove(f, shape, k, q)
        PROVE  \/ LinksAbove(up, shape, k, q)
               \/ \E u \in Threads \ {t} : LinksAbove(frame[u], shape, k, q)
    BY <1>3, <2>2, <2>3
  <2> QED BY <1>1, <1>3, <1>4, <2>3, LocalJoinBarrier
<1>5. CASE Becomes(t, on)
  <2>1. on.pc = "JoinLeft" /\ on.level = l /\ on.left = f.left
    BY <1>1 DEF Frame
  <2> HIDE DEF on
  <2>2. \A k, q : LinksAbove(f, shape, k, q) => LinksAbove(on, shape, k, q)
    BY <1>1, <2>1 DEF LinksAbove
  <2> QED BY <1>1, <1>3, <1>5, <2>2, LocalJoinBarrier
<1> QED BY <1>4, <1>5 DEF JoinLeft

LEMMA JoinRightBarrier ==
  ASSUME IInv, LinkInv, BarrierInv, NEW t \in Threads, JoinRight(t)
  PROVE  BarrierInv'
<1> DEFINE f == frame[t]
           l == f.level
           n == next[l][f.at]
           p == f.left
           up == [f EXCEPT !.pc = "JoinTest", !.right = Parent(f),
                           !.at = Null, !.level = @ + 1]
           on == [f EXCEPT !.at = n]
<1>1. /\ f.pc = "JoinRight" /\ f \in Frame /\ phase = "join"
      /\ Tower(shape, f.at, l) /\ f.right \in Elements
      /\ JoinLinks(f, shape, bonds, next)
      /\ UNCHANGED <<shared, phase, shape, bonds>>
  BY DEF JoinRight, caller, IInv, TypeOK, LinkInv, InPhase, JoinPCs, FrameOK,
         JoinFrame, Joined, Tower
<1>2. /\ l \in Level /\ f.at \in Elements /\ f.at # Null /\ shape \in Shapes
  BY <1>1, Basics, TowerLevel DEF Tower, IInv, Frame
<1>3. /\ \A x : ~LinksBottom(f, x)
      /\ \A k, x : ~LinksBack(f, k, x)
      /\ \A k, q : LinksAbove(f, shape, k, q) => k = l /\ q = p
  BY <1>1 DEF LinksBottom, LinksBack, LinksAbove
<1>4. CASE SearchEnds(f, f.right, n) /\ Becomes(t, up)
  <2>1. /\ up.pc = "JoinTest" /\ up.level = l + 1 /\ up.left = p
        /\ up.right = Parent(f)
    BY <1>1 DEF Frame
  <2> HIDE DEF up
  <2>2. ASSUME p \in Elements, MissesAbove(shape, next, l, p)
        PROVE  LinksAbove(up, shape, l, p)
    <3>1. CASE shape.height[f.at] > l + 1
      BY <1>2, <2>1, <3>1 DEF LinksAbove, Parent
    <3>2. CASE ~(shape.height[f.at] > l + 1)
      <4>1. /\ shape.lpar[l][f.at] = p
            /\ ~(shape.height[f.right] > l + 1)
            /\ shape.steps[l][f.right] <= shape.steps[l][f.at]
        BY <1>1, <2>2, <3>2, Basics DEF JoinLinks
      <4>2. n # Null
        BY <1>2, <2>2, <4>1 DEF MissesAbove, Below
      <4>3. n = f.right
        BY <1>4, <3>2, <4>2 DEF SearchEnds
      <4>4. n = shape.right[l][f.at]
        <5>1. n \in {Null, shape.right[l][f.at]}
          BY <1>2 DEF IInv, LinksInShape
        <5> QED BY <4>2, <5>1
      <4>5. shape.left[l][f.right] = f.at
        <5>1. \A y \in Elements :
                shape.right[l][y] # Null => shape.left[l][shape.right[l][y]] = y
          BY <1>2, LeftOfRight
        <5> HIDE DEF n, l
        <5> QED BY <1>2, <4>2, <4>3, <4>4, <5>1
      <4>6. shape.lpar[l][f.right] = p
        <5>1. \A y \in Elements :
                ~(shape.height[y] > l + 1) /\ shape.left[l][y] # Null =>
                  shape.lpar[l][y] = shape.lpar[l][shape.left[l][y]]
          BY <1>2, ParentFacts
        <5> HIDE DEF n, l, p
        <5> QED BY <1>1, <1>2, <4>1, <4>5, <5>1
      <4>7. shape.lpar[l][f.right] # Null
        BY <2>2, <4>6, Basics
      <4>8. /\ shape.steps[l][f.right] = shape.steps[l][f.at] + 1
            /\ shape.steps[l][f.at] \in Nat
        <5>1. f.right \in Elements /\ l \in Level /\ shape \in Shapes
          BY <1>1, <1>2
        <5> HIDE DEF f, l
        <5>2. PICK y \in Elements : y = f.right
          BY <5>1
        <5>3. /\ shape.steps[l][y] = shape.steps[l][shape.left[l][y]] + 1
              /\ shape.steps[l][shape.left[l][y]] \in Nat
          BY <4>1, <4>7, <5>1, <5>2, StepFacts
        <5> QED BY <4>5, <5>2, <5>3
      <4> HIDE DEF f, l
      <4> QED BY <4>1, <4>8
    <3> QED BY <3>1, <3>2
  <2>3. ASSUME NEW k \in Level, NEW q \in Elements,
               MissesAbove(shape, next, k, q), LinksAbove(f, shape, k, q)
        PROVE  LinksAbove(up, shape, k, q)
    BY <1>3, <2>2, <2>3
  <2> QED BY <1>1, <1>3, <1>4, <2>3, LocalJoinBarrier
<1>5. CASE Becomes(t, on)
  <2>1. on.pc = "JoinRight" /\ on.level = l /\ on.left = p
    BY <1>1 DEF Frame
  <2> HIDE DEF on
  <2>2. \A k, q : LinksAbove(f, shape, k, q) => LinksAbove(on, shape, k, q)
    BY <1>1, <2>1 DEF LinksAbove
  <2> QED BY <1>1, <1>3, <1>5, <2>2, LocalJoinBarrier
<1> QED BY <1>4, <1>5 DEF JoinRight

----
(* Split *)

LEMMA SplitBarrier ==
  ASSUME IInv, BarrierInv, phase = "split",
         NEW t \in Threads, NEW g, Becomes(t, g),
         UNCHANGED <<phase, shape>>, bonds' \subseteq bonds,
         \A u \in Threads \ {t} : pending'[u] = pending[u],
         \A x \in Elements :
           KeepsBottom(bonds', next', x) =>
             \/ CutsBottom(g, x)
             \/ KeepsBottom(bonds, next, x) /\ ~CutsBottom(frame[t], x),
         \A l \in Level : \A p, c \in Elements :
           KeepsAbove(shape, next', l, p, c) =>
             \/ CutsAbove(g, shape, l, p, c)
             \/ /\ KeepsAbove(shape, next, l, p, c)
                /\ ~CutsAbove(frame[t], shape, l, p, c)
             \/ \E u \in Threads \ {t} : CutsAbove(frame[u], shape, l, p, c),
         \A l \in Level : \A x, y \in Elements :
           KeepsBack(next', prev', l, x, y) =>
             \/ ClearsBack(g, pending'[t], l, y)
             \/ /\ KeepsBack(next, prev, l, x, y)
                /\ ~ClearsBack(frame[t], pending[t], l, y)
  PROVE  BarrierInv'
<1>1. \A u \in Threads : frame'[u] = IF u = t THEN g ELSE frame[u]
  BY DEF Becomes, IInv, TypeOK
<1>2. SplitsToCome
  BY DEF BarrierInv
<1>3. ASSUME NEW x \in Elements, KeepsBottom(bonds', next', x)
      PROVE  \E u \in Threads : CutsBottom(frame'[u], x)
  BY <1>1, <1>2, <1>3 DEF SplitsToCome
<1>4. ASSUME NEW l \in Level, NEW p \in Elements, NEW c \in Elements,
             KeepsAbove(shape, next', l, p, c)
      PROVE  \E u \in Threads : CutsAbove(frame'[u], shape, l, p, c)
  BY <1>1, <1>2, <1>4 DEF SplitsToCome
<1>5. ASSUME NEW l \in Level, NEW x \in Elements, NEW y \in Elements,
             KeepsBack(next', prev', l, x, y)
      PROVE  \E u \in Threads : ClearsBack(frame'[u], pending'[u], l, y)
  <2>1. CASE ClearsBack(g, pending'[t], l, y)
    BY <1>1, <2>1
  <2>2. CASE /\ KeepsBack(next, prev, l, x, y)
             /\ ~ClearsBack(frame[t], pending[t], l, y)
    BY <1>1, <1>2, <2>2 DEF SplitsToCome
  <2> QED BY <1>5, <2>1, <2>2
<1>6. SplitsToCome'
  BY <1>3, <1>4, <1>5 DEF SplitsToCome
<1> QED BY <1>6 DEF BarrierInv

LEMMA LocalSplitBarrier ==
  ASSUME IInv, BarrierInv, phase = "split",
         NEW t \in Threads, NEW g, Becomes(t, g),
         UNCHANGED <<shared, pending, phase, shape, bonds>>,
         \A x \in Elements :
           KeepsBottom(bonds, next, x) /\ CutsBottom(frame[t], x) => CutsBottom(g, x),
         \A l \in Level : \A p, c \in Elements :
           KeepsAbove(shape, next, l, p, c) /\ CutsAbove(frame[t], shape, l, p, c) =>
             \/ CutsAbove(g, shape, l, p, c)
             \/ \E u \in Threads \ {t} : CutsAbove(frame[u], shape, l, p, c),
         frame[t].pc # "SplitPrev"
  PROVE  BarrierInv'
<1>1. next' = next /\ prev' = prev /\ UNCHANGED <<pending, phase, shape, bonds>>
  BY DEF shared
<1>2. \A l, y : ClearsBack(frame[t], pending[t], l, y) => ClearsBack(g, pending[t], l, y)
  BY DEF ClearsBack
<1> QED BY <1>1, <1>2, SplitBarrier

LEMMA StartSplitBarrier ==
  ASSUME IInv, LinkInv, BarrierInv,
         NEW t \in Threads, NEW x \in Elements, StartSplit(t, x)
  PROVE  BarrierInv'
<1> DEFINE g == [Idle EXCEPT !.pc = "SplitTest", !.from = x, !.left = x]
<1>1. /\ Becomes(t, g) /\ next' = next /\ prev' = prev /\ pending' = pending
      /\ UNCHANGED <<phase, shape>> /\ phase = "split" /\ bonds' = bonds \ {x}
      /\ frame[t].pc = "idle"
  BY DEF StartSplit, shared, Idle
<1>2. g.pc = "SplitTest" /\ g.level = 0 /\ g.left = x
  BY DEF Idle
<1> HIDE DEF g
<1>3. CutsBottom(g, x)
  BY <1>2 DEF CutsBottom
<1>4. /\ \A y : ~CutsBottom(frame[t], y)
      /\ \A l, p, c : ~CutsAbove(frame[t], shape, l, p, c)
      /\ \A l, y : ClearsBack(frame[t], pending[t], l, y) =>
                     ClearsBack(g, pending[t], l, y)
  BY <1>1 DEF CutsBottom, CutsAbove, ClearsBack
<1>5. \A y \in Elements :
        KeepsBottom(bonds', next', y) => y = x \/ KeepsBottom(bonds, next, y)
  BY <1>1 DEF KeepsBottom
<1> QED BY <1>1, <1>3, <1>4, <1>5, SplitBarrier

LEMMA SplitTestBarrier ==
  ASSUME IInv, LinkInv, BarrierInv, NEW t \in Threads, SplitTest(t)
  PROVE  BarrierInv'
<1> DEFINE f == frame[t]
           n == IF f.left = Null THEN Null ELSE next[f.level][f.left]
           g == [f EXCEPT !.pc = "SplitNext", !.right = n]
           h == [f EXCEPT !.pc = "done", !.right = Null]
<1>1. /\ f.pc = "SplitTest" /\ f \in Frame /\ phase = "split"
      /\ UNCHANGED <<shared, pending, phase, shape, bonds>>
  BY DEF SplitTest, caller, IInv, TypeOK, LinkInv, InPhase, SplitPCs
<1>2. CASE Becomes(t, g)
  <2>1. g.pc = "SplitNext" /\ g.level = f.level /\ g.left = f.left
    BY <1>1 DEF Frame
  <2> HIDE DEF g
  <2>2. /\ \A x : CutsBottom(f, x) => CutsBottom(g, x)
        /\ \A l, p, c : CutsAbove(f, shape, l, p, c) => CutsAbove(g, shape, l, p, c)
    BY <1>1, <2>1 DEF CutsBottom, CutsAbove
  <2> QED BY <1>1, <1>2, <2>2, LocalSplitBarrier
<1>3. CASE n = Null /\ Becomes(t, h)
  <2>1. f.left # Null => next[f.level][f.left] = Null
    BY <1>3
  <2>2. \A x \in Elements : KeepsBottom(bonds, next, x) => ~CutsBottom(f, x)
    BY <2>1, Basics DEF KeepsBottom, CutsBottom
  <2>3. \A l \in Level : \A p, c \in Elements :
          KeepsAbove(shape, next, l, p, c) => ~CutsAbove(f, shape, l, p, c)
    BY <1>1, <2>1, Basics DEF KeepsAbove, CutsAbove
  <2> QED BY <1>1, <1>3, <2>2, <2>3, LocalSplitBarrier
<1> QED BY <1>2, <1>3 DEF SplitTest

LEMMA SplitNextBarrier ==
  ASSUME IInv, LinkInv, BarrierInv, NEW t \in Threads, SplitNext(t)
  PROVE  BarrierInv'
<1> DEFINE f == frame[t]
           g == [f EXCEPT !.pc = "SplitPrev",
                          !.result = IF f.level = 0 THEN f.right ELSE @]
           h == [f EXCEPT !.pc = "done"]
<1>1. /\ f.pc = "SplitNext" /\ f \in Frame /\ phase = "split"
      /\ Joined(shape, f.level, f.left, f.right)
      /\ prev' = prev /\ UNCHANGED <<pending, phase, shape, bonds>>
  BY DEF SplitNext, caller, IInv, TypeOK, LinkInv, InPhase, SplitPCs, FrameOK,
         SplitFrame
<1>2. /\ f.level \in Level /\ f.left \in Elements /\ f.right \in Elements
      /\ f.left # Null /\ f.right # Null
      /\ shape.right[f.level][f.left] = f.right
  BY <1>1, Basics DEF Joined, Tower
<1>3. CASE /\ next' = [next EXCEPT ![f.level][f.left] = Null]
           /\ Becomes(t, g)
  <2>1. \A l \in Level : \A x \in Elements :
          next'[l][x] = IF l = f.level /\ x = f.left THEN Null ELSE next[l][x]
    BY <1>2, <1>3 DEF Links, IInv, TypeOK
  <2>2. /\ g.pc = "SplitPrev" /\ g.level = f.level /\ g.left = f.left
        /\ g.right = f.right
    BY <1>1 DEF Frame
  <2> HIDE DEF g
  <2>3. \A x \in Elements :
          KeepsBottom(bonds, next', x) =>
            KeepsBottom(bonds, next, x) /\ ~CutsBottom(f, x)
    BY <1>2, <2>1, Basics DEF KeepsBottom, CutsBottom
  <2>4. ASSUME NEW l \in Level, NEW p \in Elements, NEW c \in Elements,
               KeepsAbove(shape, next', l, p, c)
        PROVE  \/ CutsAbove(g, shape, l, p, c)
               \/ /\ KeepsAbove(shape, next, l, p, c)
                  /\ ~CutsAbove(f, shape, l, p, c)
    <3>1. CASE l = f.level /\ c = f.left
      <4>1. shape.steps[l][c] \in Nat
        BY DEF IInv, TypeOK, ShapeType
      <4> QED BY <2>2, <2>4, <3>1, <4>1 DEF CutsAbove, KeepsAbove, Below
    <3>2. CASE ~(l = f.level /\ c = f.left)
      <4>1. ~(f.level = l + 1 /\ f.left = p)
        BY <1>2, <2>1, <2>4 DEF KeepsAbove
      <4>2. next'[l + 1][p] = next[l + 1][p] /\ next'[l][c] = next[l][c]
        BY <2>1, <2>4, <3>2, <4>1 DEF KeepsAbove
      <4> QED BY <1>1, <2>4, <4>1, <4>2 DEF KeepsAbove, CutsAbove
    <3> QED BY <3>1, <3>2
  <2>5. ASSUME NEW l \in Level, NEW x \in Elements, NEW y \in Elements,
               KeepsBack(next', prev, l, x, y)
        PROVE  \/ ClearsBack(g, pending[t], l, y)
               \/ /\ KeepsBack(next, prev, l, x, y)
                  /\ ~ClearsBack(f, pending[t], l, y)
    <3>1. shape.right[l][x] = y
      <4>1. prev[l][y] = x /\ x # Null
        BY <2>5, Basics DEF KeepsBack
      <4>2. shape.left[l][y] = x
        BY <4>1 DEF IInv, LinksInShape
      <4> QED BY <4>2, ShapeFacts DEF IInv
    <3>2. CASE l = f.level /\ x = f.left
      BY <1>2, <2>2, <3>1, <3>2 DEF ClearsBack
    <3>3. CASE ~(l = f.level /\ x = f.left)
      <4>1. KeepsBack(next, prev, l, x, y)
        BY <2>1, <2>5, <3>3 DEF KeepsBack
      <4>2. ClearsBack(f, pending[t], l, y) => ClearsBack(g, pending[t], l, y)
        BY <1>1 DEF ClearsBack
      <4> QED BY <4>1, <4>2
    <3> QED BY <3>2, <3>3
  <2> QED BY <1>1, <1>3, <2>3, <2>4, <2>5, SplitBarrier
<1>4. CASE /\ next[f.level][f.left] # f.right
           /\ Becomes(t, h) /\ UNCHANGED next
  <2>1. next[f.level][f.left] = Null
    <3>1. next[f.level][f.left] \in {Null, shape.right[f.level][f.left]}
      BY <1>2 DEF IInv, LinksInShape
    <3> QED BY <1>2, <1>4, <3>1
  <2>2. \A x \in Elements : KeepsBottom(bonds, next, x) => ~CutsBottom(f, x)
    BY <2>1 DEF KeepsBottom, CutsBottom
  <2>3. \A l \in Level : \A p, c \in Elements :
          KeepsAbove(shape, next, l, p, c) => ~CutsAbove(f, shape, l, p, c)
    BY <1>1, <2>1 DEF KeepsAbove, CutsAbove
  <2>4. UNCHANGED <<shared, pending, phase, shape, bonds>>
    BY <1>1, <1>4 DEF shared
  <2> QED BY <1>1, <1>4, <2>2, <2>3, <2>4, LocalSplitBarrier
<1> QED BY <1>3, <1>4 DEF SplitNext

LEMMA SplitPrevBarrier ==
  ASSUME IInv, LinkInv, BarrierInv, NEW t \in Threads, SplitPrev(t)
  PROVE  BarrierInv'
<1> DEFINE f == frame[t]
           st == [level |-> f.level, element |-> f.right, value |-> Null]
           g == [f EXCEPT !.pc = "SplitLeft", !.at = f.left]
<1>1. /\ f.pc = "SplitPrev" /\ f \in Frame /\ phase = "split"
      /\ next' = next /\ prev' = prev /\ UNCHANGED <<phase, shape, bonds>>
      /\ Becomes(t, g) /\ pending[t] = NoStore
      /\ pending' = [pending EXCEPT ![t] = st]
  BY DEF SplitPrev, shared, caller, IInv, TypeOK, LinkInv, InPhase, SplitPCs, Drained
<1>2. pending'[t] = st /\ \A u \in Threads \ {t} : pending'[u] = pending[u]
  BY <1>1 DEF IInv, TypeOK
<1>3. g.pc = "SplitLeft" /\ g.level = f.level /\ g.left = f.left
  BY <1>1 DEF Frame
<1> HIDE DEF g
<1>4. /\ \A x : ~CutsBottom(f, x)
      /\ \A l, p, c : CutsAbove(f, shape, l, p, c) => CutsAbove(g, shape, l, p, c)
  BY <1>1, <1>3 DEF CutsBottom, CutsAbove
<1>5. \A l, y : y \in Elements /\ ClearsBack(f, pending[t], l, y) =>
                  ClearsBack(g, pending'[t], l, y)
  BY <1>1, <1>2, Basics DEF ClearsBack, NoStore
<1> QED BY <1>1, <1>2, <1>4, <1>5, SplitBarrier

(* A search that finds the back link gone leaves the link above to the     *)
(* split that cut it there, which is further to the left.                  *)
LEMMA SplitLeftBarrier ==
  ASSUME IInv, LinkInv, BarrierInv, NEW t \in Threads, SplitLeft(t)
  PROVE  BarrierInv'
<1> DEFINE f == frame[t]
           l == f.level
           n == ReadPrev(t, l, f.at)
           p == shape.lpar[l][f.left]
           up == [f EXCEPT !.pc = "SplitTest", !.left = Parent(f), !.at = Null,
                           !.level = @ + 1]
           on == [f EXCEPT !.at = n]
<1>1. /\ f.pc = "SplitLeft" /\ f \in Frame /\ phase = "split"
      /\ Joined(shape, l, f.left, f.right) /\ Tower(shape, f.at, l)
      /\ SplitLinks(f, shape, bonds, next)
      /\ UNCHANGED <<shared, pending, phase, shape, bonds>>
  BY DEF SplitLeft, caller, IInv, TypeOK, LinkInv, InPhase, SplitPCs, FrameOK,
         SplitFrame
<1>2. /\ l \in Level /\ f.left \in Elements /\ f.at \in Elements
      /\ f.left # Null /\ f.at # Null /\ shape \in Shapes
  BY <1>1, Basics DEF Joined, Tower, IInv
<1>3. /\ \A x : ~CutsBottom(f, x)
      /\ \A k, q, c : CutsAbove(f, shape, k, q, c) =>
           k = l /\ q = p /\ shape.steps[l][f.left] <= shape.steps[l][c]
  BY <1>1 DEF CutsBottom, CutsAbove
<1>4. CASE SearchEnds(f, f.left, n) /\ Becomes(t, up)
  <2>1. up.pc = "SplitTest" /\ up.level = l + 1 /\ up.left = Parent(f)
    BY <1>1 DEF Frame
  <2> HIDE DEF up
  <2>2. ASSUME p \in Elements, NEW c \in Elements, KeepsAbove(shape, next, l, p, c),
               shape.steps[l][f.left] <= shape.steps[l][c]
        PROVE  \/ CutsAbove(up, shape, l, p, c)
               \/ \E u \in Threads \ {t} : CutsAbove(frame[u], shape, l, p, c)
    <3>0. shape.lpar[l][f.at] = p /\ p # Null
      BY <1>1, <2>2, Basics DEF SplitLinks
    <3>1. CASE shape.height[f.at] > l + 1
      <4>1. Parent(f) = f.at /\ p = f.at
        BY <1>2, <3>0, <3>1, ParentFacts DEF Parent
      <4> QED BY <2>1, <4>1 DEF CutsAbove
    <3>2. CASE ~(shape.height[f.at] > l + 1)
      <4> DEFINE k == shape.left[l][f.at]
      <4>0. shape.lpar[l][f.at] # Null
        BY <3>0
      <4>1. /\ k \in Elements /\ shape.lpar[l][k] = p
            /\ shape.right[l][k] = f.at
            /\ shape.steps[l][f.at] = shape.steps[l][k] + 1
            /\ shape.steps[l][k] \in Nat
        <5>1. f.at \in Elements /\ l \in Level /\ shape \in Shapes /\ p # Null
              /\ shape.lpar[l][f.at] = p /\ ~(shape.height[f.at] > l + 1)
          BY <1>2, <3>0, <3>2
        <5> HIDE DEF f, l, p
        <5>2. PICK y \in Elements : y = f.at
          BY <5>1
        <5>3. /\ shape.left[l][y] \in Elements
              /\ shape.lpar[l][shape.left[l][y]] = p
              /\ shape.right[l][shape.left[l][y]] = y
              /\ shape.steps[l][y] = shape.steps[l][shape.left[l][y]] + 1
              /\ shape.steps[l][shape.left[l][y]] \in Nat
          BY <5>1, <5>2, StepBefore, SMTT(60)
        <5> QED BY <5>2, <5>3
      <4>2. shape.steps[l][f.at] <= shape.steps[l][f.left]
        BY <1>1, <3>0 DEF SplitLinks
      <4>3. n = Null
        <5>1. n \in {Null, f.left}
          BY <1>4, <3>2 DEF SearchEnds
        <5>2. n \in {Null, k}
          BY <1>2, ReadPrevInShape
        <5>3. k # f.left
          <6> HIDE DEF f, l, k
          <6> QED BY <4>1, <4>2
        <5> QED BY <5>1, <5>2, <5>3
      <4>4. next[l][k] = Null
        <5>1. CASE prev[l][f.at] = Null
          <6>1. next[l][k] # f.at
            <7>1. prev[l][f.at] # k
              BY <4>1, <5>1, Basics
            <7>2. PointersPaired
              BY DEF LinkInv
            <7> HIDE DEF f, l, k
            <7> QED BY <1>1, <1>2, <4>1, <7>1, <7>2 DEF PointersPaired
          <6>2. next[l][k] \in {Null, shape.right[l][k]}
            BY <1>2, <4>1 DEF IInv, LinksInShape
          <6> QED BY <4>1, <6>1, <6>2
        <5>2. CASE prev[l][f.at] # Null
          <6>1. pending[t].level = l /\ pending[t].element = f.at
            BY <4>3, <5>2 DEF ReadPrev
          <6>2. pending[t] # NoStore
            BY <1>2, <6>1 DEF NoStore
          <6>3. StoreLinks(pending[t], phase, shape, next)
            BY DEF LinkInv
          <6> QED BY <6>1, <6>2, <6>3 DEF StoreLinks
        <5> QED BY <5>1, <5>2
      <4>5. KeepsAbove(shape, next, l, p, k)
        BY <2>2, <4>1, <4>4 DEF KeepsAbove, Below
      <4>6. PICK u \in Threads : CutsAbove(frame[u], shape, l, p, k)
        <5> HIDE DEF f, l, k, p
        <5> QED BY <1>1, <1>2, <2>2, <4>1, <4>5 DEF BarrierInv, SplitsToCome
      <4>7. shape.steps[l][f.left] \in Nat /\ shape.steps[l][c] \in Nat
        BY <1>2 DEF ShapeType, IInv, TypeOK
      <4>8. \A i \in Nat : i <= shape.steps[l][k] =>
              i < shape.steps[l][f.left] /\ i <= shape.steps[l][c]
        <5> HIDE DEF f, l, k
        <5> QED BY <2>2, <4>1, <4>2, <4>7
      <4>9. frame[u].pc \in {"SplitPrev", "SplitLeft"} /\ frame[u].level = l =>
              shape.steps[l][frame[u].left] \in Nat
        <5>1. FrameOK(frame[u], shape)
          BY DEF IInv
        <5>2. frame[u].pc \in {"SplitPrev", "SplitLeft"} => frame[u].left \in Elements
          BY <5>1 DEF FrameOK, SplitFrame, Joined, Tower
        <5> QED BY <1>2, <5>2 DEF ShapeType, IInv, TypeOK
      <4>10. CutsAbove(frame[u], shape, l, p, c)
        BY <4>6, <4>8, <4>9 DEF CutsAbove
      <4>11. u # t
        <5>1. u = t => shape.steps[l][f.left] <= shape.steps[l][k]
          BY <1>3, <4>6
        <5>2. ~(shape.steps[l][f.left] <= shape.steps[l][k])
          <6> HIDE DEF f, l, k
          <6> QED BY <4>1, <4>7, <4>8
        <5> QED BY <5>1, <5>2
      <4> QED BY <4>10, <4>11
    <3> QED BY <3>1, <3>2
  <2>3. ASSUME NEW k \in Level, NEW q \in Elements, NEW c \in Elements,
               KeepsAbove(shape, next, k, q, c), CutsAbove(f, shape, k, q, c)
        PROVE  \/ CutsAbove(up, shape, k, q, c)
               \/ \E u \in Threads \ {t} : CutsAbove(frame[u], shape, k, q, c)
    BY <1>3, <2>2, <2>3
  <2> QED BY <1>1, <1>3, <1>4, <2>3, LocalSplitBarrier
<1>5. CASE Becomes(t, on)
  <2>1. on.pc = "SplitLeft" /\ on.level = l /\ on.left = f.left
    BY <1>1 DEF Frame
  <2> HIDE DEF on
  <2>2. \A k, q, c : CutsAbove(f, shape, k, q, c) => CutsAbove(on, shape, k, q, c)
    BY <1>1, <2>1 DEF CutsAbove
  <2> QED BY <1>1, <1>3, <1>5, <2>2, LocalSplitBarrier
<1> QED BY <1>4, <1>5 DEF SplitLeft

----
(* Returns, the store buffers and the barriers *)

LEMMA ReturnBarrier ==
  ASSUME IInv, LinkInv, BarrierInv, NEW t \in Threads, Return(t)
  PROVE  BarrierInv'
<1>1. /\ frame[t].pc = "done" /\ Becomes(t, Idle)
      /\ UNCHANGED <<shared, pending, phase, shape, bonds>>
  BY DEF Return
<1>2. /\ \A x : ~LinksBottom(frame[t], x) /\ ~CutsBottom(frame[t], x)
      /\ \A l, p : ~LinksAbove(frame[t], shape, l, p)
      /\ \A l, x : ~LinksBack(frame[t], l, x)
      /\ \A l, p, c : ~CutsAbove(frame[t], shape, l, p, c)
  BY <1>1 DEF LinksBottom, LinksAbove, LinksBack, CutsBottom, CutsAbove
<1>3. CASE phase = "join"
  BY <1>1, <1>2, <1>3, LocalJoinBarrier
<1>4. CASE phase = "split"
  BY <1>1, <1>2, <1>4, LocalSplitBarrier
<1>5. CASE phase \notin {"join", "split"}
  BY <1>1, <1>5 DEF shared, BarrierInv
<1> QED BY <1>3, <1>4, <1>5

LEMMA FlushBarrier ==
  ASSUME IInv, LinkInv, BarrierInv, NEW t \in Threads, Flush(t)
  PROVE  BarrierInv'
<1> DEFINE st == pending[t]
           k == st.level
           y == st.element
<1>1. /\ k \in Level /\ y \in Elements /\ st.value = Null /\ st # NoStore
      /\ phase = "split"
  BY DEF IInv, StoreOK, Flush, LinkInv, StoreLinks
<1>2. /\ next' = next /\ UNCHANGED <<phase, shape, bonds>> /\ frame' = frame
      /\ prev' = [prev EXCEPT ![k][y] = Null]
      /\ pending' = [pending EXCEPT ![t] = NoStore]
  BY <1>1 DEF Flush, caller
<1>3. \A l \in Level : \A z \in Elements :
        prev'[l][z] = IF l = k /\ z = y THEN Null ELSE prev[l][z]
  BY <1>1, <1>2 DEF IInv, TypeOK, Links
<1>4. \A u \in Threads \ {t} : pending'[u] = pending[u]
  BY <1>2 DEF IInv, TypeOK
<1>5. Becomes(t, frame[t])
  BY <1>2 DEF Becomes, IInv, TypeOK
<1>6. ASSUME NEW l \in Level, NEW x \in Elements, NEW z \in Elements,
             KeepsBack(next, prev', l, x, z)
      PROVE  /\ KeepsBack(next, prev, l, x, z)
             /\ ClearsBack(frame[t], pending[t], l, z) =>
                  ClearsBack(frame[t], pending'[t], l, z)
  <2>1. ~(l = k /\ z = y) /\ KeepsBack(next, prev, l, x, z)
    BY <1>3, <1>6, Basics DEF KeepsBack
  <2>2. pending[t] # [level |-> l, element |-> z, value |-> Null]
    BY <2>1
  <2> QED BY <2>1, <2>2 DEF ClearsBack
<1> QED BY <1>1, <1>2, <1>4, <1>5, <1>6, SplitBarrier

(* Searches change nothing.                                                *)
LEMMA FindBarrier ==
  ASSUME IInv, LinkInv, BarrierInv, NEW t \in Threads,
         FindForward(t) \/ FindBackward(t) \/ \E x \in Elements : StartFind(t, x)
  PROVE  BarrierInv'
<1>1. phase = "find" /\ UNCHANGED <<shared, pending, caller>>
  BY DEF FindForward, FindBackward, StartFind, LinkInv, InPhase, FindPCs
<1>2. next' = next /\ prev' = prev /\ UNCHANGED <<phase, shape, bonds>>
  BY <1>1 DEF shared, caller
<1> QED BY <1>1, <1>2 DEF BarrierInv

(* When no call is left, level by level, no link that was asked for is     *)
(* missing.                                                                *)
LEMMA AllLinked ==
  ASSUME IInv, LinkInv, JoinsToCome, Quiet, phase = "join",
         \A x \in bonds : shape.right[0][x] # Null
  PROVE  \A l \in Level : \A x \in Elements :
           Spanned(shape, bonds, l, x) /\ shape.right[l][x] # Null => next[l][x] # Null
<1> DEFINE Missing(l) == \E x \in Elements :
             /\ Spanned(shape, bonds, l, x)
             /\ shape.right[l][x] # Null
             /\ next[l][x] = Null
           T == {l \in Nat : l \in Level /\ Missing(l)}
<1>1. SUFFICES ASSUME NEW k \in Level, Missing(k) PROVE FALSE
  OBVIOUS
<1>2. k \in T
  BY <1>1, Basics
<1>3. PICK m \in T : \A i \in T : m <= i
  <2> HIDE DEF Missing
  <2>1. T \subseteq Nat /\ T # {}
    BY <1>2
  <2> HIDE DEF T
  <2> QED BY <2>1, LeastNumber
<1>4. PICK x \in Elements : /\ Spanned(shape, bonds, m, x)
                            /\ shape.right[m][x] # Null
                            /\ next[m][x] = Null
  OBVIOUS
<1>5. \A t \in Threads : frame[t].pc = "idle"
  BY DEF Quiet, Idle
<1>6. m # 0
  <2>1. SUFFICES ASSUME m = 0 PROVE FALSE
    OBVIOUS
  <2>2. x \in bonds
    BY <1>4, <2>1, SpanFacts DEF IInv
  <2>3. MissesBottom(bonds, next, x)
    BY <1>4, <2>1, <2>2 DEF MissesBottom
  <2>4. PICK t \in Threads : LinksBottom(frame[t], x)
    BY <2>3 DEF JoinsToCome
  <2> QED BY <1>5, <2>4 DEF LinksBottom
<1> DEFINE l == m - 1
<1>7. l \in Level /\ l \in Nat /\ m \in Level /\ m = l + 1 /\ l < m
  BY <1>6, HeightsArePositive DEF Level
<1> HIDE DEF l
<1>8. ASSUME NEW c \in Below(shape, l, x) PROVE next[l][c] # Null
  <2>1. c \in Elements /\ shape.lpar[l][c] = x
    BY DEF Below
  <2>2. ChildrenLinked(shape)
    BY ShapesAreWellFormed DEF IInv, WellFormed
  <2>3. shape.right[l][c] # Null
    BY <1>4, <1>7, <2>1, <2>2 DEF ChildrenLinked
  <2>4. Spanned(shape, bonds, l, c)
    BY <1>4, <1>7, SpanFacts DEF IInv
  <2>5. l \notin T
    <3> HIDE DEF T
    <3> QED BY <1>3, <1>7
  <2> QED BY <1>7, <2>1, <2>3, <2>4, <2>5
<1>9. MissesAbove(shape, next, l, x)
  BY <1>4, <1>7, <1>8 DEF MissesAbove
<1>10. PICK t \in Threads : LinksAbove(frame[t], shape, l, x)
  BY <1>7, <1>9 DEF JoinsToCome
<1> QED BY <1>5, <1>10 DEF LinksAbove

(* Links that are those asked for, each with its back link.                *)
LEMMA LinksCanonical ==
  ASSUME IInv,
         \A l \in Level : \A x \in Elements :
           next[l][x] # Null <=>
             Spanned(shape, bonds, l, x) /\ shape.right[l][x] # Null,
         \A l \in Level : \A x, y \in Elements : prev[l][y] = x <=> next[l][x] = y
  PROVE  Canonical(next, prev, shape, bonds)
<1>1. ASSUME NEW l \in Level, NEW x \in Elements
      PROVE  next[l][x] = IF Spanned(shape, bonds, l, x) THEN shape.right[l][x]
                          ELSE Null
  <2>1. next[l][x] \in {Null, shape.right[l][x]}
    BY DEF IInv, LinksInShape
  <2> QED BY <2>1
<1>2. ASSUME NEW l \in Level, NEW y \in Elements
      PROVE  prev[l][y] = IF /\ shape.left[l][y] # Null
                             /\ Spanned(shape, bonds, l, shape.left[l][y])
                          THEN shape.left[l][y] ELSE Null
  <2>1. prev[l][y] \in {Null, shape.left[l][y]} /\ y # Null
    BY Basics DEF IInv, LinksInShape
  <2>2. CASE shape.left[l][y] = Null
    BY <2>1, <2>2
  <2>3. CASE shape.left[l][y] # Null
    <3>1. PICK x \in Elements : x = shape.left[l][y]
      BY <2>3, ShapeFacts DEF Ref, IInv
    <3>2. shape.right[l][x] = y /\ x # Null
      BY <2>3, <3>1, ShapeFacts DEF IInv
    <3>3. next[l][x] = y <=> Spanned(shape, bonds, l, x)
      BY <1>1, <2>1, <3>2
    <3>4. prev[l][y] = x <=> next[l][x] = y
      OBVIOUS
    <3> QED BY <2>1, <3>1, <3>2, <3>3, <3>4
  <2> QED BY <2>2, <2>3
<1>3. next \in Links /\ prev \in Links
  BY DEF IInv, TypeOK
<1>4. next = LinksOf(shape, bonds)
  BY <1>1, <1>3 DEF LinksOf, Spanned, Links
<1>5. prev = BackLinksOf(shape, bonds)
  BY <1>2, <1>3 DEF BackLinksOf, Spanned, Links
<1> QED BY <1>4, <1>5 DEF Canonical

LEMMA JoinsAreDone ==
  ASSUME IInv, LinkInv, JoinsToCome, Quiet, phase = "join",
         \A x \in bonds : shape.right[0][x] # Null
  PROVE  Canonical(next, prev, shape, bonds)
<1>1. ASSUME NEW l \in Level, NEW x \in Elements
      PROVE  next[l][x] # Null <=>
               Spanned(shape, bonds, l, x) /\ shape.right[l][x] # Null
  <2>1. next[l][x] \in {Null, shape.right[l][x]}
    BY DEF IInv, LinksInShape
  <2>2. next[l][x] # Null => Spanned(shape, bonds, l, x)
    BY DEF LinkInv, NotBeyond
  <2> QED BY <2>1, <2>2, AllLinked
<1>2. ASSUME NEW l \in Level, NEW x \in Elements, NEW y \in Elements
      PROVE  prev[l][y] = x <=> next[l][x] = y
  <2>1. PointersPaired
    BY DEF LinkInv
  <2>2. prev[l][y] = x => next[l][x] = y
    BY <2>1 DEF PointersPaired
  <2>3. next[l][x] = y => prev[l][y] # Null
    <3>1. SUFFICES ASSUME MissesBack(next, prev, l, x, y) PROVE FALSE
      BY DEF MissesBack
    <3>2. PICK t \in Threads : LinksBack(frame[t], l, x)
      BY <3>1 DEF JoinsToCome
    <3> QED BY <3>2 DEF LinksBack, Quiet, Idle
  <2>4. next[l][x] = y => shape.right[l][x] = y
    BY Basics DEF IInv, LinksInShape
  <2>5. shape.right[l][x] = y => shape.left[l][y] = x
    BY ShapeFacts DEF IInv
  <2>6. prev[l][y] \in {Null, shape.left[l][y]}
    BY DEF IInv, LinksInShape
  <2> QED BY <2>2, <2>3, <2>4, <2>5, <2>6
<1> QED BY <1>1, <1>2, LinksCanonical

(* When no call is left, level by level, no link is left that skips an     *)
(* element that has been split.                                            *)
LEMMA AllCut ==
  ASSUME IInv, LinkInv, SplitsToCome, Quiet, phase = "split"
  PROVE  \A l \in Level : \A x \in Elements :
           next[l][x] # Null => Spanned(shape, bonds, l, x)
<1> DEFINE Left(l) == \E x \in Elements :
             next[l][x] # Null /\ ~Spanned(shape, bonds, l, x)
           T == {l \in Nat : l \in Level /\ Left(l)}
<1>1. SUFFICES ASSUME NEW k \in Level, Left(k) PROVE FALSE
  OBVIOUS
<1>2. k \in T
  BY <1>1, Basics
<1>3. PICK m \in T : \A i \in T : m <= i
  <2> HIDE DEF Left
  <2>1. T \subseteq Nat /\ T # {}
    BY <1>2
  <2> HIDE DEF T
  <2> QED BY <2>1, LeastNumber
<1>4. PICK x \in Elements : next[m][x] # Null /\ ~Spanned(shape, bonds, m, x)
  OBVIOUS
<1>5. \A t \in Threads : frame[t].pc = "idle"
  BY DEF Quiet, Idle
<1>6. m # 0
  <2>1. SUFFICES ASSUME m = 0 PROVE FALSE
    OBVIOUS
  <2>2. x \notin bonds
    BY <1>4, <2>1, SpanFacts DEF IInv
  <2>3. KeepsBottom(bonds, next, x)
    BY <1>4, <2>1, <2>2 DEF KeepsBottom
  <2>4. PICK t \in Threads : CutsBottom(frame[t], x)
    BY <2>3 DEF SplitsToCome
  <2> QED BY <1>5, <2>4 DEF CutsBottom
<1> DEFINE l == m - 1
<1>7. l \in Level /\ l \in Nat /\ m \in Level /\ m = l + 1 /\ l < m
  BY <1>6, HeightsArePositive DEF Level
<1> HIDE DEF l
<1>8. PICK c \in Below(shape, l, x) : ~Spanned(shape, bonds, l, c)
  BY <1>4, <1>7, SpanFacts DEF IInv
<1>9. c \in Elements
  BY DEF Below
<1>10. next[l][c] = Null
  <2>1. l \notin T
    <3> HIDE DEF T
    <3> QED BY <1>3, <1>7
  <2> QED BY <1>7, <1>8, <1>9, <2>1
<1>11. KeepsAbove(shape, next, l, x, c)
  BY <1>4, <1>7, <1>8, <1>10 DEF KeepsAbove
<1>12. PICK t \in Threads : CutsAbove(frame[t], shape, l, x, c)
  BY <1>7, <1>9, <1>11 DEF SplitsToCome
<1> QED BY <1>5, <1>12 DEF CutsAbove

LEMMA SplitsAreDone ==
  ASSUME IInv, LinkInv, SplitsToCome, Quiet, phase = "split"
  PROVE  Canonical(next, prev, shape, bonds)
<1>1. ASSUME NEW l \in Level, NEW x \in Elements
      PROVE  next[l][x] # Null <=>
               Spanned(shape, bonds, l, x) /\ shape.right[l][x] # Null
  <2>1. next[l][x] \in {Null, shape.right[l][x]}
    BY DEF IInv, LinksInShape
  <2>2. Spanned(shape, bonds, l, x) => next[l][x] = shape.right[l][x]
    BY DEF LinkInv, NotBeyond
  <2> QED BY <2>1, <2>2, AllCut
<1>2. ASSUME NEW l \in Level, NEW x \in Elements, NEW y \in Elements
      PROVE  prev[l][y] = x <=> next[l][x] = y
  <2>1. PointersPaired
    BY DEF LinkInv
  <2>2. next[l][x] = y => prev[l][y] = x
    BY <2>1 DEF PointersPaired
  <2>3. prev[l][y] = x => next[l][x] # Null
    <3>1. SUFFICES ASSUME KeepsBack(next, prev, l, x, y) PROVE FALSE
      BY DEF KeepsBack
    <3>2. PICK t \in Threads : ClearsBack(frame[t], pending[t], l, y)
      BY <3>1 DEF SplitsToCome
    <3>3. y # Null
      BY Basics
    <3> QED BY <3>2, <3>3 DEF ClearsBack, Quiet, Idle, NoStore
  <2>4. prev[l][y] = x => shape.left[l][y] = x
    BY Basics DEF IInv, LinksInShape
  <2>5. shape.left[l][y] = x => shape.right[l][x] = y
    BY ShapeFacts DEF IInv
  <2>6. next[l][x] \in {Null, shape.right[l][x]}
    BY DEF IInv, LinksInShape
  <2> QED BY <2>2, <2>3, <2>4, <2>5, <2>6
<1> QED BY <1>1, <1>2, LinksCanonical

----
(* Barriers *)

LEMMA CanonicalLinks ==
  ASSUME NEW s \in Shapes, NEW B, NEW n, NEW pr, Canonical(n, pr, s, B)
  PROVE  /\ \A l \in Level : \A x \in Elements :
              n[l][x] = IF Spanned(s, B, l, x) THEN s.right[l][x] ELSE Null
         /\ \A l \in Level : \A x, y \in Elements :
              pr[l][y] = x <=> n[l][x] = y
<1>1. \A l \in Level : \A x \in Elements :
        /\ n[l][x] = IF Spanned(s, B, l, x) THEN s.right[l][x] ELSE Null
        /\ pr[l][x] = IF s.left[l][x] # Null /\ Spanned(s, B, l, s.left[l][x])
                       THEN s.left[l][x] ELSE Null
  BY DEF Canonical, LinksOf, BackLinksOf, Spanned
<1>2. ASSUME NEW l \in Level, NEW x \in Elements, NEW y \in Elements
      PROVE  pr[l][y] = x <=> n[l][x] = y
  <2>1. x # Null /\ y # Null
    BY Basics
  <2>2. s.right[l][x] = y <=> s.left[l][y] = x
    BY ShapeFacts
  <2> QED BY <1>1, <2>1, <2>2
<1> QED BY <1>1, <1>2

LEMMA BeginPhaseBarrier ==
  ASSUME IInv, LinkInv, BarrierInv, NEW p \in {"join", "split", "find"},
         NEW s \in Shapes, BeginPhase(p, s)
  PROVE  BarrierInv'
<1>1. /\ next' = next /\ prev' = prev /\ phase' = p /\ shape' = s
      /\ bonds' = bonds /\ phase = "quiet" /\ Canonical(next, prev, s, bonds)
  BY DEF BeginPhase, shared, Canonical
<1>2. Canonical(next, prev, shape, bonds) /\ shape \in Shapes
  BY <1>1 DEF BarrierInv, IInv
<1>3. /\ \A l \in Level : \A x \in Elements :
           next[l][x] = IF Spanned(s, bonds, l, x) THEN s.right[l][x] ELSE Null
      /\ \A l \in Level : \A x, y \in Elements : prev[l][y] = x <=> next[l][x] = y
  BY <1>1, CanonicalLinks
<1>4. \A x \in bonds : next[0][x] = s.right[0][x] /\ s.right[0][x] # Null
  <2> SUFFICES ASSUME NEW x \in bonds
               PROVE  next[0][x] = s.right[0][x] /\ s.right[0][x] # Null
    OBVIOUS
  <2>1. x \in Elements /\ 0 \in Level
    BY Basics DEF IInv, TypeOK
  <2>2. next[0][x] = shape.right[0][x] /\ shape.right[0][x] # Null
    BY <1>2, <2>1, CanonicalLinks, SpanFacts DEF BarrierInv
  <2>3. next[0][x] = s.right[0][x]
    BY <1>3, <2>1, SpanFacts
  <2> QED BY <2>2, <2>3
<1>5. CASE p = "join"
  <2>1. \A x \in Elements : ~MissesBottom(bonds, next, x)
    BY <1>4 DEF MissesBottom
  <2>2. ASSUME NEW l \in Level, NEW x \in Elements, MissesAbove(s, next, l, x)
        PROVE  FALSE
    <3>1. \A c \in Below(s, l, x) : next[l][c] # Null /\ c \in Elements
      BY <2>2 DEF MissesAbove, Below
    <3>2. \A c \in Below(s, l, x) : Spanned(s, bonds, l, c)
      BY <1>3, <3>1
    <3>3. Spanned(s, bonds, l + 1, x)
      BY <2>2, <3>2, SpanFacts DEF MissesAbove
    <3> QED BY <1>3, <2>2, <3>3 DEF MissesAbove
  <2>3. \A l \in Level : \A x, y \in Elements : ~MissesBack(next, prev, l, x, y)
    BY <1>3, Basics DEF MissesBack
  <2>4. JoinsToCome'
    BY <1>1, <2>1, <2>2, <2>3 DEF JoinsToCome
  <2> QED BY <1>1, <1>4, <1>5, <2>4 DEF BarrierInv
<1>6. CASE p = "split"
  <2>1. \A x \in Elements : ~KeepsBottom(bonds, next, x)
    BY <1>3, SpanFacts, Basics DEF KeepsBottom
  <2>2. ASSUME NEW l \in Level, NEW x \in Elements, NEW c \in Elements,
               KeepsAbove(s, next, l, x, c)
        PROVE  FALSE
    <3>1. Spanned(s, bonds, l + 1, x) /\ s.right[l + 1][x] # Null
      BY <1>3, <2>2 DEF KeepsAbove
    <3>2. Spanned(s, bonds, l, c)
      BY <2>2, <3>1, SpanFacts DEF KeepsAbove
    <3>3. ChildrenLinked(s)
      BY ShapesAreWellFormed DEF WellFormed
    <3>4. s.right[l][c] # Null
      BY <2>2, <3>1, <3>3 DEF KeepsAbove, Below, ChildrenLinked
    <3> QED BY <1>3, <2>2, <3>2, <3>4 DEF KeepsAbove
  <2>3. \A l \in Level : \A x, y \in Elements : ~KeepsBack(next, prev, l, x, y)
    BY <1>3, Basics DEF KeepsBack
  <2>4. SplitsToCome'
    BY <1>1, <2>1, <2>2, <2>3 DEF SplitsToCome
  <2> QED BY <1>1, <1>4, <1>6, <2>4 DEF BarrierInv
<1>7. CASE p = "find"
  BY <1>1, <1>4, <1>7 DEF BarrierInv
<1> QED BY <1>5, <1>6, <1>7

LEMMA EndPhaseBarrier ==
  ASSUME IInv, LinkInv, BarrierInv, EndPhase
  PROVE  BarrierInv'
<1>1. /\ next' = next /\ prev' = prev /\ phase' = "quiet" /\ phase # "quiet"
      /\ UNCHANGED <<shape, bonds>> /\ Quiet
  BY DEF EndPhase, shared
<1>2. phase \in {"join", "split", "find"}
  BY <1>1 DEF IInv, TypeOK
<1>3. Canonical(next, prev, shape, bonds)
  BY <1>1, <1>2, JoinsAreDone, SplitsAreDone DEF BarrierInv
<1>4. \A x \in bonds : shape.right[0][x] # Null
  BY DEF BarrierInv
<1> QED BY <1>1, <1>3, <1>4 DEF BarrierInv

(* A link skips at least the element that it leaves.                       *)
LEMMA NoneCovered ==
  ASSUME NEW s \in Shapes
  PROVE  \A l \in Level : \A x \in Elements :
           Spanned(s, {}, l, x) => s.right[l][x] = Null
<1> DEFINE Empty(l) == \E x \in Elements :
             Spanned(s, {}, l, x) /\ s.right[l][x] # Null
           T == {l \in Nat : l \in Level /\ Empty(l)}
<1>1. SUFFICES ASSUME NEW k \in Level, Empty(k) PROVE FALSE
  OBVIOUS
<1>2. k \in T
  BY <1>1, Basics
<1>3. PICK m \in T : \A i \in T : m <= i
  <2> HIDE DEF Empty
  <2>1. T \subseteq Nat /\ T # {}
    BY <1>2
  <2> HIDE DEF T
  <2> QED BY <2>1, LeastNumber
<1>4. PICK x \in Elements : Spanned(s, {}, m, x) /\ s.right[m][x] # Null
  OBVIOUS
<1>5. m # 0
  BY <1>4, SpanFacts
<1> DEFINE l == m - 1
<1>6. l \in Level /\ l \in Nat /\ m \in Level /\ m = l + 1 /\ l < m
  BY <1>5, HeightsArePositive DEF Level
<1> HIDE DEF l
<1>7. s.height[x] > l + 1
  BY <1>4, <1>6, ShapesAreWellFormed DEF WellFormed, Tall
<1>8. s.lpar[l][x] = x
  BY <1>6, <1>7, ParentFacts
<1>9. Spanned(s, {}, l, x)
  BY <1>4, <1>6, <1>8, SpanFacts DEF Below
<1>10. s.right[l][x] # Null
  BY <1>4, <1>6, <1>8, ShapesAreWellFormed DEF WellFormed, ChildrenLinked
<1>11. l \in T
  BY <1>6, <1>9, <1>10
<1> HIDE DEF T
<1> QED BY <1>3, <1>6, <1>11

LEMMA InitBarrier == Init => BarrierInv
<1> SUFFICES ASSUME Init PROVE BarrierInv
  OBVIOUS
<1>1. /\ phase = "quiet" /\ shape \in Shapes /\ bonds = {}
      /\ next = [l \in Level |-> [x \in Elements |-> Null]]
      /\ prev = [l \in Level |-> [x \in Elements |-> Null]]
  BY DEF Init
<1>2. \A l \in Level : \A x \in Elements :
        shape.span[l][x] \subseteq bonds => shape.right[l][x] = Null
  BY <1>1, NoneCovered DEF Spanned
<1>3. next = LinksOf(shape, bonds)
  BY <1>1, <1>2 DEF LinksOf
<1>4. \A l \in Level : \A y \in Elements :
        shape.left[l][y] # Null => ~(shape.span[l][shape.left[l][y]] \subseteq bonds)
  <2> SUFFICES ASSUME NEW l \in Level, NEW y \in Elements,
                      shape.left[l][y] # Null
               PROVE  ~(shape.span[l][shape.left[l][y]] \subseteq bonds)
    OBVIOUS
  <2>1. PICK x \in Elements : x = shape.left[l][y]
    BY <1>1, ShapeFacts DEF Ref
  <2>2. shape.right[l][x] = y /\ y # Null
    BY <1>1, <2>1, ShapeFacts, Basics
  <2> QED BY <1>2, <2>1, <2>2
<1>5. prev = BackLinksOf(shape, bonds)
  BY <1>1, <1>4 DEF BackLinksOf
<1> QED BY <1>1, <1>3, <1>5 DEF BarrierInv, Canonical

LEMMA NextBarrier == IInv /\ LinkInv /\ BarrierInv /\ [Next]_vars => BarrierInv'
<1> SUFFICES ASSUME IInv, LinkInv, BarrierInv, [Next]_vars PROVE BarrierInv'
  OBVIOUS
<1>1. ASSUME NEW t \in Threads, Step(t) PROVE BarrierInv'
  BY <1>1, JoinTestBarrier, JoinNextBarrier, JoinPrevBarrier, JoinLeftBarrier,
     JoinRightBarrier, SplitTestBarrier, SplitNextBarrier, SplitPrevBarrier,
     SplitLeftBarrier, FindBarrier, ReturnBarrier
     DEF Step
<1>2. ASSUME NEW t \in Threads, Flush(t) PROVE BarrierInv'
  BY <1>2, FlushBarrier
<1>3. ASSUME NEW t \in Threads, NEW x \in Elements, Start(t, x) PROVE BarrierInv'
  BY <1>3, StartJoinBarrier, StartSplitBarrier, FindBarrier DEF Start
<1>4. ASSUME NEW p \in {"join", "split", "find"}, NEW s \in Shapes, BeginPhase(p, s)
      PROVE  BarrierInv'
  BY <1>4, BeginPhaseBarrier
<1>5. CASE EndPhase
  BY <1>5, EndPhaseBarrier
<1>6. CASE UNCHANGED vars
  <2>1. /\ next' = next /\ prev' = prev /\ pending' = pending /\ frame' = frame
        /\ UNCHANGED <<phase, shape, bonds>>
    BY <1>6 DEF vars, caller
  <2> QED BY <2>1 DEF BarrierInv, JoinsToCome, SplitsToCome
<1> QED BY <1>1, <1>2, <1>3, <1>4, <1>5, <1>6 DEF Next

(* While a phase runs, each link that is not as a barrier must find it has *)
(* a call under way that is going to put it right.                         *)
THEOREM BarrierInvariance == Spec => [](IInv /\ LinkInv /\ BarrierInv)
<1>1. Spec => [](IInv /\ LinkInv) /\ Init /\ [][Next]_vars
  BY LinkInvariance DEF Spec
<1>2. [](IInv /\ LinkInv) /\ Init /\ [][Next]_vars => []BarrierInv
  BY InitBarrier, NextBarrier, PTL
<1> QED BY <1>1, <1>2, PTL

(* At every barrier, whatever the calls of the phase did to each other,    *)
(* the list is at every level and in both directions the skip list of what *)
(* has been joined: no join has missed a link, no split has left one.      *)
THEOREM BarriersAreCanonical == Spec => []QuietIsCanonical
<1>1. BarrierInv => QuietIsCanonical
  BY DEF BarrierInv, Canonical, QuietIsCanonical, Requested
<1> QED BY <1>1, BarrierInvariance, PTL

----
(***************************************************************************)
(* What the calls of a phase mean at level 0: the links that decide which  *)
(* elements a list has and what a Split returns.                           *)
(***************************************************************************)
(* The call has not yet done what it was made for.                         *)
JoinStart(f) == f.level = 0 /\ f.pc \in {"JoinTest", "JoinNext"}
SplitStart(f) == f.level = 0 /\ f.pc \in {"SplitTest", "SplitNext"}

JoinCall(f, s, B, n) ==
  /\ f.pc # "idle" => f.from \in B /\ f.result = Null
  /\ JoinStart(f) => /\ f.left = f.from
                     /\ f.right = s.right[0][f.from]
                     /\ n[0][f.from] = Null

SplitCall(f, s, B, n, b, a) ==
  /\ f.pc # "idle" => f.from \in Elements \ B
  /\ SplitStart(f) => f.left = f.from /\ f.result = Null
  /\ f.result # Null => /\ f.result = s.right[0][f.from]
                        /\ n[0][f.from] = Null
                        /\ f.from \in b
                        /\ a[f.from] = 0

(* The thread has the successor that x had.                                *)
Holds(f, x) == f.result # Null /\ f.from = x

JoinCalls ==
  /\ \A t \in Threads : JoinCall(frame[t], shape, bonds, next)
  /\ \A t, u \in Threads :
       t # u /\ frame[t].pc # "idle" => frame[u].from # frame[t].from

(* A successor is in one place: where it was at the start of the phase, or *)
(* with the one thread that took it, or with the caller.                   *)
SplitCalls ==
  /\ \A t \in Threads : SplitCall(frame[t], shape, bonds, next, before, answers)
  /\ \A t, u \in Threads :
       frame[t].result # Null /\ frame[u].result # Null /\ frame[u].from = frame[t].from
         => t = u
  /\ \A x \in Elements :
       /\ answers[x] \in {0, 1}
       /\ answers[x] = 1 => x \in before \ bonds /\ next[0][x] = Null
       /\ x \in before /\ next[0][x] = Null =>
            answers[x] = 1 \/ \E t \in Threads : Holds(frame[t], x)
       /\ next[0][x] # Null => x \in before
  /\ bonds \subseteq before

CallInv ==
  /\ phase = "join" => JoinCalls
  /\ phase = "split" => SplitCalls

----
(* The steps within a call that do not touch level 0.                      *)
SameCall(f, g) ==
  /\ f.pc # "idle" /\ g.pc # "idle"
  /\ g.from = f.from /\ g.result = f.result
  /\ JoinStart(g) => JoinStart(f) /\ g.left = f.left /\ g.right = f.right
  /\ SplitStart(g) => SplitStart(f) /\ g.left = f.left

Within(t) ==
  /\ next'[0] = next[0]
  /\ UNCHANGED caller
  /\ \A u \in Threads : u # t => frame'[u] = frame[u]
  /\ SameCall(frame[t], frame'[t])

LEMMA WithinKeepsCalls ==
  ASSUME CallInv, NEW t \in Threads, Within(t)
  PROVE  CallInv'
<1> DEFINE f == frame[t]
           g == frame'[t]
<1>1. /\ next'[0] = next[0] /\ SameCall(f, g)
      /\ UNCHANGED <<phase, shape, bonds, before, answers>>
      /\ \A u \in Threads : u # t => frame'[u] = frame[u]
  BY DEF Within, caller
<1>2. CASE phase = "join"
  <2>1. JoinCalls
    BY <1>2 DEF CallInv
  <2>2. \A u \in Threads : JoinCall(frame'[u], shape, bonds, next')
    BY <1>1, <2>1 DEF JoinCalls, JoinCall, SameCall
  <2>3. \A u \in Threads : /\ frame'[u].from = frame[u].from
                           /\ frame'[u].pc # "idle" => frame[u].pc # "idle"
    BY <1>1 DEF SameCall
  <2>4. \A u, v \in Threads :
          u # v /\ frame'[u].pc # "idle" => frame'[v].from # frame'[u].from
    BY <2>1, <2>3 DEF JoinCalls
  <2>5. JoinCalls'
    BY <1>1, <2>2, <2>4 DEF JoinCalls
  <2> QED BY <1>1, <1>2, <2>5 DEF CallInv
<1>3. CASE phase = "split"
  <2>1. SplitCalls
    BY <1>3 DEF CallInv
  <2>2. \A u \in Threads : SplitCall(frame'[u], shape, bonds, next', before, answers)
    BY <1>1, <2>1 DEF SplitCalls, SplitCall, SameCall
  <2>3. \A u \in Threads : /\ frame'[u].from = frame[u].from
                           /\ frame'[u].result = frame[u].result
    BY <1>1 DEF SameCall
  <2>4. \A u, v \in Threads :
          frame'[u].result # Null /\ frame'[v].result # Null
          /\ frame'[v].from = frame'[u].from => u = v
    BY <2>1, <2>3 DEF SplitCalls
  <2>5. \A x \in Elements : (\E u \in Threads : Holds(frame[u], x)) =>
                              \E u \in Threads : Holds(frame'[u], x)
    BY <2>3 DEF Holds
  <2>6. SplitCalls'
    BY <1>1, <2>1, <2>2, <2>4, <2>5 DEF SplitCalls
  <2> QED BY <1>1, <1>3, <2>6 DEF CallInv
<1>4. CASE phase \notin {"join", "split"}
  BY <1>1, <1>4 DEF CallInv
<1> QED BY <1>2, <1>3, <1>4

(* Where a join is before it has linked its element.                       *)
LEMMA AtJoinStart ==
  ASSUME IInv, LinkInv, BarrierInv, CallInv, NEW t \in Threads, JoinStart(frame[t])
  PROVE  /\ phase = "join"
         /\ frame[t].from \in Elements
         /\ frame[t].left = frame[t].from
         /\ frame[t].right = shape.right[0][frame[t].from]
         /\ frame[t].right # Null
         /\ next[0][frame[t].from] = Null
<1>1. phase = "join"
  BY DEF JoinStart, LinkInv, InPhase, JoinPCs
<1>2. JoinCall(frame[t], shape, bonds, next) /\ frame[t].pc # "idle"
  BY <1>1 DEF CallInv, JoinCalls, JoinStart
<1>3. frame[t].from \in bonds /\ bonds \subseteq Elements
  BY <1>2 DEF JoinCall, IInv, TypeOK
<1> QED BY <1>1, <1>2, <1>3 DEF JoinCall, BarrierInv

LEMMA AtSplitStart ==
  ASSUME IInv, LinkInv, CallInv, NEW t \in Threads, SplitStart(frame[t])
  PROVE  /\ phase = "split"
         /\ frame[t].from \in Elements
         /\ frame[t].left = frame[t].from
         /\ frame[t].result = Null
<1>1. phase = "split"
  BY DEF SplitStart, LinkInv, InPhase, SplitPCs
<1>2. SplitCall(frame[t], shape, bonds, next, before, answers) /\ frame[t].pc # "idle"
  BY <1>1 DEF CallInv, SplitCalls, SplitStart
<1> QED BY <1>1, <1>2 DEF SplitCall

(* Such a step, that is not the one at which the call takes effect either. *)
Stutter(t) ==
  /\ Within(t)
  /\ JoinStart(frame[t]) <=> JoinStart(frame'[t])
  /\ SplitStart(frame[t]) <=> SplitStart(frame'[t])

LEMMA StutterStep ==
  ASSUME NEW t \in Threads, NEW g, frame \in [Threads -> Frame], Becomes(t, g),
         next'[0] = next[0], UNCHANGED caller,
         SameCall(frame[t], g),
         JoinStart(frame[t]) => JoinStart(g),
         SplitStart(frame[t]) => SplitStart(g)
  PROVE  Stutter(t)
<1>1. /\ frame'[t] = g
      /\ \A u \in Threads : u # t => frame'[u] = frame[u]
  BY DEF Becomes
<1> QED BY <1>1 DEF Stutter, Within, SameCall

LEMMA JoinTestStutters ==
  ASSUME IInv, LinkInv, BarrierInv, CallInv, NEW t \in Threads, JoinTest(t)
  PROVE  Stutter(t)
<1> DEFINE f == frame[t]
           g == [f EXCEPT !.pc = "JoinNext"]
           h == [f EXCEPT !.pc = "done"]
           unlinked == /\ f.left # Null
                       /\ f.right # Null
                       /\ next[f.level][f.left] = Null
<1>1. /\ f.pc = "JoinTest" /\ f \in Frame /\ frame \in [Threads -> Frame]
      /\ next' = next /\ UNCHANGED caller
      /\ (unlinked /\ Becomes(t, g)) \/ (~unlinked /\ Becomes(t, h))
  BY DEF JoinTest, shared, IInv, TypeOK
<1>2. /\ g.pc = "JoinNext" /\ h.pc = "done"
      /\ g.from = f.from /\ g.result = f.result /\ g.level = f.level
      /\ g.left = f.left /\ g.right = f.right
      /\ h.from = f.from /\ h.result = f.result
  BY <1>1 DEF Frame
<1>3. JoinStart(f) => unlinked
  <2>1. SUFFICES ASSUME JoinStart(f) PROVE unlinked
    OBVIOUS
  <2>2. f.level = 0 /\ f.left = f.from /\ f.left # Null
    BY <2>1, AtJoinStart, Basics DEF JoinStart
  <2> QED BY <2>1, <2>2, AtJoinStart
<1> HIDE DEF g, h, unlinked
<1>4. CASE Becomes(t, g)
  <2>1. SameCall(f, g) /\ (JoinStart(f) => JoinStart(g)) /\ ~SplitStart(f)
    BY <1>1, <1>2 DEF SameCall, JoinStart, SplitStart
  <2> QED BY <1>1, <1>4, <2>1, StutterStep
<1>5. CASE ~unlinked /\ Becomes(t, h)
  <2>1. SameCall(f, h) /\ ~JoinStart(f) /\ ~SplitStart(f)
    BY <1>1, <1>2, <1>3, <1>5 DEF SameCall, JoinStart, SplitStart
  <2> QED BY <1>1, <1>5, <2>1, StutterStep
<1> QED BY <1>1, <1>4, <1>5

LEMMA JoinNextStutters ==
  ASSUME IInv, NEW t \in Threads, JoinNext(t), frame[t].level # 0
  PROVE  Stutter(t)
<1> DEFINE f == frame[t]
           g == [f EXCEPT !.pc = "JoinPrev"]
           h == [f EXCEPT !.pc = "done"]
<1>1. /\ f.pc = "JoinNext" /\ f \in Frame /\ frame \in [Threads -> Frame]
      /\ UNCHANGED caller /\ f.level # 0
      /\ \/ next' = [next EXCEPT ![f.level][f.left] = f.right] /\ Becomes(t, g)
         \/ next' = next /\ Becomes(t, h)
  BY DEF JoinNext, IInv, TypeOK
<1>2. /\ g.pc = "JoinPrev" /\ h.pc = "done"
      /\ g.from = f.from /\ g.result = f.result
      /\ h.from = f.from /\ h.result = f.result
  BY <1>1 DEF Frame
<1>3. next'[0] = next[0]
  BY <1>1, Basics DEF IInv, TypeOK, Links
<1> HIDE DEF g, h
<1>4. /\ SameCall(f, g) /\ SameCall(f, h)
      /\ ~JoinStart(f) /\ ~SplitStart(f)
  BY <1>1, <1>2 DEF SameCall, JoinStart, SplitStart
<1> QED BY <1>1, <1>3, <1>4, StutterStep

LEMMA JoinPrevStutters ==
  ASSUME IInv, NEW t \in Threads, JoinPrev(t)
  PROVE  Stutter(t)
<1> DEFINE f == frame[t]
           g == [f EXCEPT !.pc = "JoinLeft", !.at = f.left]
<1>1. /\ f.pc = "JoinPrev" /\ f \in Frame /\ frame \in [Threads -> Frame]
      /\ UNCHANGED caller /\ next' = next /\ Becomes(t, g)
  BY DEF JoinPrev, IInv, TypeOK
<1>2. g.pc = "JoinLeft" /\ g.from = f.from /\ g.result = f.result
  BY <1>1 DEF Frame
<1> HIDE DEF g
<1>3. SameCall(f, g) /\ ~JoinStart(f) /\ ~SplitStart(f)
  BY <1>1, <1>2 DEF SameCall, JoinStart, SplitStart
<1> QED BY <1>1, <1>3, StutterStep

LEMMA JoinLeftStutters ==
  ASSUME IInv, NEW t \in Threads, JoinLeft(t)
  PROVE  Stutter(t)
<1> DEFINE f == frame[t]
           n == ReadPrev(t, f.level, f.at)
           g == [f EXCEPT !.pc = "JoinRight", !.left = Parent(f), !.at = f.right]
           h == [f EXCEPT !.at = n]
<1>1. /\ f.pc = "JoinLeft" /\ f \in Frame /\ frame \in [Threads -> Frame]
      /\ UNCHANGED caller /\ next' = next /\ (Becomes(t, g) \/ Becomes(t, h))
  BY DEF JoinLeft, IInv, TypeOK, shared
<1>2. /\ g.pc = "JoinRight" /\ g.from = f.from /\ g.result = f.result
      /\ h.pc = f.pc /\ h.from = f.from /\ h.result = f.result
  BY <1>1 DEF Frame
<1> HIDE DEF g, h
<1>3. SameCall(f, g) /\ SameCall(f, h) /\ ~JoinStart(f) /\ ~SplitStart(f)
  BY <1>1, <1>2 DEF SameCall, JoinStart, SplitStart
<1> QED BY <1>1, <1>3, StutterStep

LEMMA JoinRightStutters ==
  ASSUME IInv, NEW t \in Threads, JoinRight(t)
  PROVE  Stutter(t)
<1> DEFINE f == frame[t]
           n == next[f.level][f.at]
           g == [f EXCEPT !.pc = "JoinTest", !.right = Parent(f), !.at = Null,
                          !.level = @ + 1]
           h == [f EXCEPT !.at = n]
<1>1. /\ f.pc = "JoinRight" /\ f \in Frame /\ frame \in [Threads -> Frame]
      /\ UNCHANGED caller /\ next' = next /\ (Becomes(t, g) \/ Becomes(t, h))
  BY DEF JoinRight, IInv, TypeOK, shared
<1>2. /\ g.pc = "JoinTest" /\ g.from = f.from /\ g.result = f.result
      /\ g.level = f.level + 1 /\ f.level \in Nat
      /\ h.pc = f.pc /\ h.from = f.from /\ h.result = f.result
  BY <1>1, HeightsArePositive DEF Frame
<1> HIDE DEF g, h
<1>3. SameCall(f, g) /\ SameCall(f, h) /\ ~JoinStart(f) /\ ~SplitStart(f)
  BY <1>1, <1>2 DEF SameCall, JoinStart, SplitStart
<1> QED BY <1>1, <1>3, StutterStep

LEMMA SplitPrevStutters ==
  ASSUME IInv, NEW t \in Threads, SplitPrev(t)
  PROVE  Stutter(t)
<1> DEFINE f == frame[t]
           g == [f EXCEPT !.pc = "SplitLeft", !.at = f.left]
<1>1. /\ f.pc = "SplitPrev" /\ f \in Frame /\ frame \in [Threads -> Frame]
      /\ UNCHANGED caller /\ next' = next /\ Becomes(t, g)
  BY DEF SplitPrev, IInv, TypeOK, shared
<1>2. g.pc = "SplitLeft" /\ g.from = f.from /\ g.result = f.result
  BY <1>1 DEF Frame
<1> HIDE DEF g
<1>3. SameCall(f, g) /\ ~JoinStart(f) /\ ~SplitStart(f)
  BY <1>1, <1>2 DEF SameCall, JoinStart, SplitStart
<1> QED BY <1>1, <1>3, StutterStep

LEMMA SplitLeftStutters ==
  ASSUME IInv, NEW t \in Threads, SplitLeft(t)
  PROVE  Stutter(t)
<1> DEFINE f == frame[t]
           n == ReadPrev(t, f.level, f.at)
           g == [f EXCEPT !.pc = "SplitTest", !.left = Parent(f), !.at = Null,
                          !.level = @ + 1]
           h == [f EXCEPT !.at = n]
<1>1. /\ f.pc = "SplitLeft" /\ f \in Frame /\ frame \in [Threads -> Frame]
      /\ UNCHANGED caller /\ next' = next /\ (Becomes(t, g) \/ Becomes(t, h))
  BY DEF SplitLeft, IInv, TypeOK, shared
<1>2. /\ g.pc = "SplitTest" /\ g.from = f.from /\ g.result = f.result
      /\ g.level = f.level + 1 /\ f.level \in Nat
      /\ h.pc = f.pc /\ h.from = f.from /\ h.result = f.result
  BY <1>1, HeightsArePositive DEF Frame
<1> HIDE DEF g, h
<1>3. SameCall(f, g) /\ SameCall(f, h) /\ ~JoinStart(f) /\ ~SplitStart(f)
  BY <1>1, <1>2 DEF SameCall, JoinStart, SplitStart
<1> QED BY <1>1, <1>3, StutterStep

(* The test of a split: it goes on, or it finds the link gone.             *)
LEMMA SplitTestMoves ==
  ASSUME IInv, LinkInv, CallInv, NEW t \in Threads, SplitTest(t)
  PROVE  \/ Stutter(t)
         \/ /\ SplitStart(frame[t]) /\ next[0][frame[t].from] = Null
            /\ Within(t)
            /\ next' = next /\ frame'[t].pc = "done"
<1> DEFINE f == frame[t]
           n == IF f.left = Null THEN Null ELSE next[f.level][f.left]
           g == [f EXCEPT !.pc = "SplitNext", !.right = n]
           h == [f EXCEPT !.pc = "done", !.right = Null]
<1>1. /\ f.pc = "SplitTest" /\ f \in Frame /\ frame \in [Threads -> Frame]
      /\ UNCHANGED caller /\ next' = next
      /\ (Becomes(t, g) \/ (n = Null /\ Becomes(t, h)))
  BY DEF SplitTest, IInv, TypeOK, shared
<1>2. /\ g.pc = "SplitNext" /\ g.from = f.from /\ g.result = f.result
      /\ g.level = f.level /\ g.left = f.left
      /\ h.pc = "done" /\ h.from = f.from /\ h.result = f.result
  BY <1>1 DEF Frame
<1>3. n = Null /\ SplitStart(f) => next[0][f.from] = Null
  <2>1. SUFFICES ASSUME n = Null, SplitStart(f) PROVE next[0][f.from] = Null
    OBVIOUS
  <2>2. f.level = 0 /\ f.left = f.from /\ f.left # Null
    BY <2>1, AtSplitStart, Basics DEF SplitStart
  <2> QED BY <2>1, <2>2
<1> HIDE DEF g, h, n
<1>4. /\ SameCall(f, g) /\ SameCall(f, h) /\ ~JoinStart(f)
      /\ SplitStart(f) => SplitStart(g)
  BY <1>1, <1>2 DEF SameCall, JoinStart, SplitStart
<1>5. CASE Becomes(t, g)
  BY <1>1, <1>4, <1>5, StutterStep
<1>6. CASE n = Null /\ Becomes(t, h)
  <2>1. /\ frame'[t] = h
        /\ \A u \in Threads : u # t => frame'[u] = frame[u]
    BY <1>1, <1>6 DEF Becomes
  <2>2. Within(t)
    BY <1>1, <1>4, <2>1 DEF Within
  <2>3. CASE SplitStart(f)
    BY <1>1, <1>2, <1>3, <1>6, <2>1, <2>2, <2>3
  <2>4. CASE ~SplitStart(f)
    BY <1>1, <1>4, <1>6, <2>4, StutterStep
  <2> QED BY <2>3, <2>4
<1> QED BY <1>1, <1>5, <1>6

----
(* The steps that touch level 0, and those that begin or end a call        *)

(* The join takes effect: no other one can have linked its element.        *)
LEMMA JoinNextLinksFirst ==
  ASSUME IInv, LinkInv, BarrierInv, CallInv, NEW t \in Threads, JoinNext(t),
         frame[t].level = 0
  PROVE  LET x == frame[t].from IN
         /\ JoinStart(frame[t]) /\ UNCHANGED caller
         /\ \A y \in Elements :
              next'[0][y] = IF y = x THEN shape.right[0][x] ELSE next[0][y]
         /\ next'[0] = [next[0] EXCEPT ![x] = shape.right[0][x]]
         /\ \A u \in Threads : u # t => frame'[u] = frame[u]
         /\ frame'[t].pc = "JoinPrev" /\ frame'[t].from = x
         /\ frame'[t].result = frame[t].result
<1> DEFINE f == frame[t]
           x == f.from
           g == [f EXCEPT !.pc = "JoinPrev"]
           h == [f EXCEPT !.pc = "done"]
<1>1. /\ f.pc = "JoinNext" /\ f \in Frame /\ frame \in [Threads -> Frame]
      /\ UNCHANGED caller /\ f.level = 0
      /\ \/ /\ next' = [next EXCEPT ![f.level][f.left] = f.right]
            /\ Becomes(t, g)
         \/ next[f.level][f.left] # Null
  BY DEF JoinNext, IInv, TypeOK
<1>2. /\ f.left = x /\ x \in Elements /\ f.right = shape.right[0][x]
      /\ next[0][x] = Null /\ JoinStart(f)
  BY <1>1, AtJoinStart DEF JoinStart
<1>3. next' = [next EXCEPT ![0][x] = shape.right[0][x]] /\ Becomes(t, g)
  BY <1>1, <1>2
<1>4. /\ g.pc = "JoinPrev" /\ g.from = x /\ g.result = f.result
      /\ frame'[t] = g
      /\ \A u \in Threads : u # t => frame'[u] = frame[u]
  <2>1. g.pc = "JoinPrev" /\ g.from = x /\ g.result = f.result
    BY <1>1 DEF Frame
  <2> HIDE DEF g
  <2> QED BY <1>1, <1>3, <2>1 DEF Becomes
<1> HIDE DEF g, x
<1>5. /\ next'[0] = [next[0] EXCEPT ![x] = shape.right[0][x]]
      /\ next[0] \in [Elements -> Ref]
  BY <1>3, Basics DEF IInv, TypeOK, Links
<1>6. \A y \in Elements :
        next'[0][y] = IF y = x THEN shape.right[0][x] ELSE next[0][y]
  BY <1>5
<1> QED BY <1>1, <1>2, <1>4, <1>5, <1>6 DEF x

LEMMA JoinNextCalls ==
  ASSUME IInv, LinkInv, BarrierInv, CallInv, NEW t \in Threads, JoinNext(t),
         frame[t].level = 0
  PROVE  CallInv'
<1> DEFINE f == frame[t]
           x == f.from
           g == frame'[t]
<1>1. /\ JoinStart(f) /\ UNCHANGED <<phase, shape, bonds>>
      /\ \A y \in Elements :
           next'[0][y] = IF y = x THEN shape.right[0][x] ELSE next[0][y]
      /\ \A u \in Threads : u # t => frame'[u] = frame[u]
      /\ g.pc = "JoinPrev" /\ g.from = x /\ g.result = f.result
  BY JoinNextLinksFirst DEF caller
<1>2. phase = "join" /\ JoinCalls /\ f.pc # "idle"
  BY <1>1, AtJoinStart DEF CallInv, JoinStart
<1> HIDE DEF x, g
<1>3. \A u \in Threads : JoinCall(frame'[u], shape, bonds, next')
  <2> SUFFICES ASSUME NEW u \in Threads
               PROVE  JoinCall(frame'[u], shape, bonds, next')
    OBVIOUS
  <2>1. CASE u = t
    BY <1>1, <1>2, <2>1 DEF JoinCalls, JoinCall, JoinStart, g, x
  <2>2. CASE u # t
    <3>1. JoinCall(frame[u], shape, bonds, next) /\ frame[u].from # x
      BY <1>2, <2>2 DEF JoinCalls, x
    <3>2. JoinStart(frame[u]) => frame[u].from \in Elements
      BY AtJoinStart
    <3> QED BY <1>1, <2>2, <3>1, <3>2 DEF JoinCall
  <2> QED BY <2>1, <2>2
<1>4. \A u \in Threads : /\ frame'[u].from = frame[u].from
                         /\ frame'[u].pc # "idle" => frame[u].pc # "idle"
  BY <1>1, <1>2 DEF g, x
<1>5. \A u, v \in Threads :
        u # v /\ frame'[u].pc # "idle" => frame'[v].from # frame'[u].from
  BY <1>2, <1>4 DEF JoinCalls
<1>6. JoinCalls'
  BY <1>1, <1>3, <1>5 DEF JoinCalls
<1> QED BY <1>1, <1>2, <1>6 DEF CallInv

(* The split takes the successor, or it is another that took it.           *)
LEMMA SplitNextMoves ==
  ASSUME IInv, LinkInv, BarrierInv, CallInv, NEW t \in Threads, SplitNext(t)
  PROVE  LET x == frame[t].from IN
         \/ Stutter(t)
         \/ /\ SplitStart(frame[t]) /\ next[0][x] = Null
            /\ Within(t)
            /\ next' = next /\ frame'[t].pc = "done"
         \/ /\ SplitStart(frame[t]) /\ UNCHANGED caller
            /\ next[0][x] = shape.right[0][x] /\ next[0][x] # Null
            /\ \A y \in Elements : next'[0][y] = IF y = x THEN Null ELSE next[0][y]
            /\ next'[0] = [next[0] EXCEPT ![x] = Null]
            /\ \A u \in Threads : u # t => frame'[u] = frame[u]
            /\ frame'[t].pc = "SplitPrev" /\ frame'[t].from = x
            /\ frame'[t].result = next[0][x]
<1> DEFINE f == frame[t]
           x == f.from
           g == [f EXCEPT !.pc = "SplitPrev",
                          !.result = IF f.level = 0 THEN f.right ELSE @]
           h == [f EXCEPT !.pc = "done"]
<1>1. /\ f.pc = "SplitNext" /\ f \in Frame /\ frame \in [Threads -> Frame]
      /\ Joined(shape, f.level, f.left, f.right)
      /\ UNCHANGED caller
      /\ \/ /\ next[f.level][f.left] = f.right
            /\ next' = [next EXCEPT ![f.level][f.left] = Null]
            /\ Becomes(t, g)
         \/ /\ next[f.level][f.left] # f.right
            /\ next' = next
            /\ Becomes(t, h)
  BY DEF SplitNext, IInv, TypeOK, FrameOK, SplitFrame
<1>2. /\ f.left \in Elements /\ f.right \in Elements /\ f.right # Null
      /\ shape.right[f.level][f.left] = f.right /\ f.level \in Level
  BY <1>1, Basics DEF Joined, Tower
<1>3. /\ g.pc = "SplitPrev" /\ g.from = x /\ h.pc = "done" /\ h.from = x
      /\ h.result = f.result
      /\ g.result = IF f.level = 0 THEN f.right ELSE f.result
  BY <1>1 DEF Frame
<1> HIDE DEF g, h
<1>4. CASE f.level # 0
  <2>1. next'[0] = next[0]
    BY <1>1, <1>4, Basics DEF IInv, TypeOK, Links
  <2>2. SameCall(f, g) /\ SameCall(f, h) /\ ~JoinStart(f) /\ ~SplitStart(f)
    BY <1>1, <1>3, <1>4 DEF SameCall, JoinStart, SplitStart
  <2>3. Becomes(t, g) \/ Becomes(t, h)
    BY <1>1
  <2>4. Stutter(t)
    BY <1>1, <2>1, <2>2, <2>3, StutterStep
  <2> QED BY <2>4
<1>5. CASE f.level = 0
  <2>1. SplitStart(f) /\ ~JoinStart(f)
    BY <1>1, <1>5 DEF SplitStart, JoinStart
  <2>2. f.left = x /\ x \in Elements
    BY <2>1, AtSplitStart
  <2>3. CASE next[f.level][f.left] # f.right
    <3>1. next[0][x] \in {Null, shape.right[0][x]}
      BY <1>2, <1>5, <2>2 DEF IInv, LinksInShape
    <3>2. next[0][x] = Null
      BY <1>2, <1>5, <2>2, <2>3, <3>1
    <3>3. Becomes(t, h) /\ next' = next
      BY <1>1, <2>3
    <3>4. frame'[t] = h /\ \A u \in Threads : u # t => frame'[u] = frame[u]
      BY <1>1, <3>3 DEF Becomes
    <3>5. SameCall(f, h)
      BY <1>1, <1>3 DEF SameCall, JoinStart, SplitStart
    <3>6. Within(t)
      BY <1>1, <3>3, <3>4, <3>5 DEF Within
    <3> QED BY <1>3, <2>1, <3>2, <3>3, <3>4, <3>6
  <2>4. CASE next[f.level][f.left] = f.right
    <3>1. Becomes(t, g) /\ next' = [next EXCEPT ![0][x] = Null]
      BY <1>1, <1>5, <2>2, <2>4
    <3>2. frame'[t] = g /\ \A u \in Threads : u # t => frame'[u] = frame[u]
      BY <1>1, <3>1 DEF Becomes
    <3>3. next[0][x] = f.right /\ shape.right[0][x] = f.right
      BY <1>2, <1>5, <2>2, <2>4
    <3> HIDE DEF x
    <3>4. /\ next'[0] = [next[0] EXCEPT ![x] = Null]
          /\ next[0] \in [Elements -> Ref]
      BY <3>1, Basics DEF IInv, TypeOK, Links
    <3>5. \A y \in Elements : next'[0][y] = IF y = x THEN Null ELSE next[0][y]
      BY <3>4
    <3> QED BY <1>1, <1>2, <1>3, <1>5, <2>1, <3>2, <3>3, <3>4, <3>5 DEF x
  <2> QED BY <2>3, <2>4
<1> QED BY <1>4, <1>5

LEMMA SplitNextCalls ==
  ASSUME IInv, LinkInv, BarrierInv, CallInv, NEW t \in Threads, SplitNext(t)
  PROVE  CallInv'
<1> DEFINE f == frame[t]
           x == f.from
           g == frame'[t]
<1>1. CASE Within(t)
  BY <1>1, WithinKeepsCalls
<1>2. CASE /\ SplitStart(frame[t]) /\ UNCHANGED caller
           /\ next[0][x] = shape.right[0][x] /\ next[0][x] # Null
           /\ \A y \in Elements : next'[0][y] = IF y = x THEN Null ELSE next[0][y]
           /\ \A u \in Threads : u # t => frame'[u] = frame[u]
           /\ frame'[t].pc = "SplitPrev" /\ frame'[t].from = x
           /\ frame'[t].result = next[0][x]
  <2>1. /\ phase = "split" /\ SplitCalls /\ x \in Elements /\ f.pc # "idle"
        /\ f.result = Null
        /\ UNCHANGED <<phase, shape, bonds, before, answers>>
    BY <1>2, AtSplitStart DEF CallInv, SplitStart, caller
  <2>2. x \in Elements \ bonds /\ x \in before /\ answers[x] = 0
    BY <1>2, <2>1 DEF SplitCalls, SplitCall
  <2>3. \A u \in Threads : frame[u].result # Null => frame[u].from # x
    BY <1>2, <2>1 DEF SplitCalls, SplitCall
  <2>4. \A u \in Threads :
          u # t => frame'[u] = frame[u]
                   /\ SplitCall(frame[u], shape, bonds, next, before, answers)
    BY <1>2, <2>1 DEF SplitCalls
  <2>5. /\ g.pc = "SplitPrev" /\ g.from = x /\ g.result = shape.right[0][x]
        /\ g.result # Null
    BY <1>2
  <2> HIDE DEF x, g
  <2>6. \A u \in Threads :
          SplitCall(frame'[u], shape, bonds, next', before, answers)
    <3> SUFFICES ASSUME NEW u \in Threads
                 PROVE  SplitCall(frame'[u], shape, bonds, next', before, answers)
      OBVIOUS
    <3>1. CASE u = t
      <4>1. SplitCall(g, shape, bonds, next', before, answers)
        BY <1>2, <2>1, <2>2, <2>5 DEF SplitCall, SplitStart
      <4> QED BY <3>1, <4>1 DEF g
    <3>2. CASE u # t
      <4>1. frame[u].result # Null => frame[u].from \in Elements
        BY <2>4, <3>2 DEF SplitCall, IInv, FrameOK, Idle
      <4> QED BY <1>2, <2>4, <3>2, <4>1 DEF SplitCall
    <3> QED BY <3>1, <3>2
  <2>7. \A u, v \in Threads :
          frame'[u].result # Null /\ frame'[v].result # Null
          /\ frame'[v].from = frame'[u].from => u = v
    BY <2>1, <2>3, <2>4, <2>5 DEF SplitCalls, g
  <2>8. \A y \in Elements :
          (y = x \/ \E u \in Threads : Holds(frame[u], y)) =>
             \E u \in Threads : Holds(frame'[u], y)
    BY <2>1, <2>4, <2>5 DEF Holds, g
  <2>9. \A y \in Elements :
         /\ answers[y] \in {0, 1}
         /\ answers[y] = 1 => y \in before \ bonds /\ next'[0][y] = Null
         /\ y \in before /\ next'[0][y] = Null =>
              answers[y] = 1 \/ \E u \in Threads : Holds(frame'[u], y)
         /\ next'[0][y] # Null => y \in before
    BY <1>2, <2>1, <2>8 DEF SplitCalls
  <2>10. SplitCalls'
    BY <2>1, <2>6, <2>7, <2>9 DEF SplitCalls
  <2> QED BY <2>1, <2>10 DEF CallInv
<1> QED BY <1>1, <1>2, SplitNextMoves DEF Stutter

LEMMA StartJoinCalls ==
  ASSUME IInv, LinkInv, BarrierInv, CallInv,
         NEW t \in Threads, NEW x \in Elements, StartJoin(t, x)
  PROVE  CallInv'
<1> DEFINE g == [Idle EXCEPT !.pc = "JoinTest", !.from = x, !.left = x,
                             !.right = shape.right[0][x]]
<1>1. /\ phase = "join" /\ x \notin bonds /\ bonds' = bonds \cup {x}
      /\ next' = next /\ UNCHANGED <<phase, shape>> /\ Becomes(t, g)
      /\ frame \in [Threads -> Frame] /\ frame[t].pc = "idle"
  BY DEF StartJoin, shared, IInv, TypeOK, Idle
<1>2. /\ g.pc = "JoinTest" /\ g.from = x /\ g.left = x /\ g.result = Null
      /\ g.right = shape.right[0][x]
  BY DEF Idle
<1> HIDE DEF g
<1>3. \A u \in Threads : frame'[u] = IF u = t THEN g ELSE frame[u]
  BY <1>1 DEF Becomes
<1>4. JoinCalls
  BY <1>1 DEF CallInv
<1>5. next[0][x] = Null
  <2>1. next[0][x] # Null => Spanned(shape, bonds, 0, x)
    BY <1>1, Basics DEF LinkInv, NotBeyond
  <2> QED BY <1>1, <2>1, SpanFacts DEF IInv
<1>6. \A u \in Threads : frame[u].pc # "idle" => frame[u].from # x
  BY <1>1, <1>4 DEF JoinCalls, JoinCall
<1>7. \A u \in Threads : JoinCall(frame'[u], shape, bonds', next)
  <2>1. JoinCall(g, shape, bonds', next)
    BY <1>1, <1>2, <1>5 DEF JoinCall
  <2>2. \A u \in Threads : JoinCall(frame[u], shape, bonds', next)
    BY <1>1, <1>4 DEF JoinCalls, JoinCall
  <2> QED BY <1>3, <2>1, <2>2
<1>8. \A u, v \in Threads :
        u # v /\ frame'[u].pc # "idle" => frame'[v].from # frame'[u].from
  <2> SUFFICES ASSUME NEW u \in Threads, NEW v \in Threads, u # v,
                      frame'[u].pc # "idle"
               PROVE  frame'[v].from # frame'[u].from
    OBVIOUS
  <2>1. \A w \in Threads : frame[w].pc = "idle" => frame[w].from = Null
    BY DEF IInv, FrameOK, Idle
  <2>2. x # Null
    BY Basics
  <2> QED BY <1>2, <1>3, <1>4, <1>6, <2>1, <2>2 DEF JoinCalls
<1>9. JoinCalls'
  BY <1>1, <1>7, <1>8 DEF JoinCalls
<1> QED BY <1>1, <1>9 DEF CallInv

LEMMA StartSplitCalls ==
  ASSUME IInv, LinkInv, BarrierInv, CallInv,
         NEW t \in Threads, NEW x \in Elements, StartSplit(t, x)
  PROVE  CallInv'
<1> DEFINE g == [Idle EXCEPT !.pc = "SplitTest", !.from = x, !.left = x]
<1>1. /\ phase = "split" /\ bonds' = bonds \ {x} /\ next' = next
      /\ UNCHANGED <<phase, shape, before, answers>> /\ Becomes(t, g)
      /\ frame \in [Threads -> Frame] /\ frame[t].pc = "idle"
      /\ frame[t].result = Null
  BY DEF StartSplit, shared, IInv, TypeOK, Idle
<1>2. g.pc = "SplitTest" /\ g.from = x /\ g.left = x /\ g.result = Null
  BY DEF Idle
<1> HIDE DEF g
<1>3. \A u \in Threads : frame'[u] = IF u = t THEN g ELSE frame[u]
  BY <1>1 DEF Becomes
<1>4. SplitCalls
  BY <1>1 DEF CallInv
<1>5. \A u \in Threads : SplitCall(frame'[u], shape, bonds', next, before, answers)
  <2>1. SplitCall(g, shape, bonds', next, before, answers)
    BY <1>1, <1>2 DEF SplitCall
  <2>2. \A u \in Threads : SplitCall(frame[u], shape, bonds', next, before, answers)
    BY <1>1, <1>4 DEF SplitCalls, SplitCall
  <2> QED BY <1>3, <2>1, <2>2
<1>6. \A u, v \in Threads :
        frame'[u].result # Null /\ frame'[v].result # Null
        /\ frame'[v].from = frame'[u].from => u = v
  BY <1>2, <1>3, <1>4 DEF SplitCalls
<1>7. \A y \in Elements : (\E u \in Threads : Holds(frame[u], y)) =>
                            \E u \in Threads : Holds(frame'[u], y)
  BY <1>1, <1>3 DEF Holds
<1>8. SplitCalls'
  BY <1>1, <1>4, <1>5, <1>6, <1>7 DEF SplitCalls
<1> QED BY <1>1, <1>8 DEF CallInv

LEMMA ReturnCalls ==
  ASSUME IInv, CallInv, NEW t \in Threads, Return(t)
  PROVE  CallInv'
<1> DEFINE f == frame[t]
           x == f.from
<1>1. /\ f.pc = "done" /\ Becomes(t, Idle) /\ next' = next
      /\ UNCHANGED <<phase, shape, bonds, before>>
      /\ answers' = IF phase = "split" /\ f.result # Null
                    THEN [answers EXCEPT ![x] = @ + 1]
                    ELSE answers
      /\ frame \in [Threads -> Frame] /\ answers \in [Elements -> Nat]
  BY DEF Return, shared, IInv, TypeOK
<1>2. \A u \in Threads : frame'[u] = IF u = t THEN Idle ELSE frame[u]
  BY <1>1 DEF Becomes
<1>3. Idle.pc = "idle" /\ Idle.from = Null /\ Idle.result = Null
  BY DEF Idle
<1>4. CASE phase = "join"
  <2>1. JoinCalls
    BY <1>4 DEF CallInv
  <2>2. \A u \in Threads : JoinCall(frame'[u], shape, bonds, next)
    BY <1>2, <1>3, <2>1 DEF JoinCalls, JoinCall, JoinStart
  <2>3. \A u, v \in Threads :
          u # v /\ frame'[u].pc # "idle" => frame'[v].from # frame'[u].from
    <3> SUFFICES ASSUME NEW u \in Threads, NEW v \in Threads, u # v,
                        frame'[u].pc # "idle"
                 PROVE  frame'[v].from # frame'[u].from
      OBVIOUS
    <3>1. frame'[u] = frame[u]
      BY <1>2, <1>3
    <3>2. frame[u].from # Null
      BY <2>1, <3>1, Basics DEF JoinCalls, JoinCall, IInv, TypeOK
    <3> QED BY <1>2, <1>3, <2>1, <3>1, <3>2 DEF JoinCalls
  <2>4. JoinCalls'
    BY <1>1, <2>2, <2>3 DEF JoinCalls
  <2> QED BY <1>1, <1>4, <2>4 DEF CallInv
<1>5. CASE phase = "split"
  <2>1. SplitCalls
    BY <1>5 DEF CallInv
  <2>2. f.pc # "idle" /\ SplitCall(f, shape, bonds, next, before, answers)
    BY <1>1, <2>1 DEF SplitCalls
  <2>3. x \in Elements \ bonds
    BY <2>2 DEF SplitCall
  <2>4. f.result # Null => x \in before /\ next[0][x] = Null /\ answers[x] = 0
    BY <2>2 DEF SplitCall
  <2>5. \A u \in Threads :
          u # t /\ f.result # Null /\ frame[u].result # Null => frame[u].from # x
    BY <2>1 DEF SplitCalls
  <2> HIDE DEF x
  <2>6. \A y \in Elements :
          answers'[y] = IF y = x /\ f.result # Null THEN 1 ELSE answers[y]
    BY <1>1, <1>5, <2>3, <2>4
  <2>7. \A u \in Threads :
          SplitCall(frame'[u], shape, bonds, next, before, answers')
    <3> SUFFICES ASSUME NEW u \in Threads
                 PROVE  SplitCall(frame'[u], shape, bonds, next, before, answers')
      OBVIOUS
    <3>1. CASE u = t
      <4>1. SplitCall(Idle, shape, bonds, next, before, answers')
        BY <1>3 DEF SplitCall, SplitStart
      <4> QED BY <1>2, <3>1, <4>1
    <3>2. CASE u # t
      <4>1. SplitCall(frame[u], shape, bonds, next, before, answers)
        BY <2>1 DEF SplitCalls
      <4>2. frame[u].result # Null => frame[u].from \in Elements
        BY <4>1 DEF SplitCall, IInv, FrameOK, Idle
      <4> QED BY <1>2, <2>5, <2>6, <3>2, <4>1, <4>2 DEF SplitCall
    <3> QED BY <3>1, <3>2
  <2>8. \A u, v \in Threads :
          frame'[u].result # Null /\ frame'[v].result # Null
          /\ frame'[v].from = frame'[u].from => u = v
    BY <1>2, <1>3, <2>1 DEF SplitCalls
  <2>9. ASSUME NEW y \in Elements
        PROVE  /\ answers'[y] \in {0, 1}
               /\ answers'[y] = 1 => y \in before \ bonds /\ next[0][y] = Null
               /\ y \in before /\ next[0][y] = Null =>
                    answers'[y] = 1 \/ \E u \in Threads : Holds(frame'[u], y)
               /\ next[0][y] # Null => y \in before
    <3>1. CASE y = x /\ f.result # Null
      BY <2>3, <2>4, <2>6, <3>1
    <3>2. CASE ~(y = x /\ f.result # Null)
      <4>1. answers'[y] = answers[y]
        BY <2>6, <3>2
      <4>2. \A u \in Threads : Holds(frame[u], y) => Holds(frame'[u], y)
        BY <1>2, <3>2 DEF Holds, x
      <4> QED BY <2>1, <4>1, <4>2 DEF SplitCalls
    <3> QED BY <3>1, <3>2
  <2>10. SplitCalls'
    BY <1>1, <2>1, <2>7, <2>8, <2>9 DEF SplitCalls
  <2> QED BY <1>1, <1>5, <2>10 DEF CallInv
<1>6. CASE phase \notin {"join", "split"}
  BY <1>1, <1>6 DEF CallInv
<1> QED BY <1>4, <1>5, <1>6

LEMMA BeginPhaseCalls ==
  ASSUME IInv, BarrierInv, NEW p \in {"join", "split", "find"},
         NEW s \in Shapes, BeginPhase(p, s)
  PROVE  CallInv'
<1>1. /\ next' = next /\ phase' = p /\ shape' = s /\ bonds' = bonds
      /\ before' = bonds /\ answers' = [x \in Elements |-> 0]
      /\ frame' = frame /\ next = LinksOf(s, bonds) /\ bonds \subseteq Elements
      /\ phase = "quiet" /\ Canonical(next, prev, s, bonds)
  BY DEF BeginPhase, shared, IInv, TypeOK, Canonical
<1>2. \A u \in Threads : frame[u] = Idle
  BY <1>1 DEF IInv, Quiet
<1>3. Idle.pc = "idle" /\ Idle.from = Null /\ Idle.result = Null
  BY DEF Idle
<1>4. JoinCalls'
  <2>1. \A u \in Threads : JoinCall(frame[u], s, bonds, next)
    BY <1>2, <1>3 DEF JoinCall, JoinStart
  <2> QED BY <1>1, <1>2, <1>3, <2>1 DEF JoinCalls
<1>5. SplitCalls'
  <2>1. \A u \in Threads : SplitCall(frame[u], s, bonds, next, bonds, answers')
    BY <1>2, <1>3 DEF SplitCall, SplitStart
  <2>2. ASSUME NEW y \in Elements
        PROVE  /\ answers'[y] = 0
               /\ y \in bonds => next[0][y] # Null
               /\ next[0][y] # Null => y \in bonds
    <3>1. Spanned(s, bonds, 0, y) <=> y \in bonds
      BY SpanFacts
    <3>2. next[0][y] = IF Spanned(s, bonds, 0, y) THEN s.right[0][y] ELSE Null
      BY <1>1, Basics, CanonicalLinks
    <3>3. y \in bonds => next[0][y] # Null
      <4>1. SUFFICES ASSUME y \in bonds PROVE next[0][y] # Null
        OBVIOUS
      <4>2. Canonical(next, prev, shape, bonds) /\ shape.right[0][y] # Null
        BY <1>1, <4>1 DEF BarrierInv
      <4>3. Spanned(shape, bonds, 0, y)
        BY <4>1, SpanFacts DEF IInv
      <4> QED BY <4>2, <4>3, Basics, CanonicalLinks DEF IInv
    <3> QED BY <1>1, <3>1, <3>2, <3>3
  <2> QED BY <1>1, <1>2, <1>3, <2>1, <2>2 DEF SplitCalls
<1> QED BY <1>4, <1>5 DEF CallInv

LEMMA InitCalls == Init => CallInv
BY DEF Init, CallInv

LEMMA NextCalls ==
  IInv /\ LinkInv /\ BarrierInv /\ CallInv /\ [Next]_vars => CallInv'
<1> SUFFICES ASSUME IInv, LinkInv, BarrierInv, CallInv, [Next]_vars PROVE CallInv'
  OBVIOUS
<1>1. ASSUME NEW t \in Threads, Stutter(t) PROVE CallInv'
  BY <1>1, WithinKeepsCalls DEF Stutter
<1>2. ASSUME NEW t \in Threads,
             FindForward(t) \/ FindBackward(t) \/ \E x \in Elements : StartFind(t, x)
      PROVE  CallInv'
  <2>1. phase = "find" /\ phase' = phase
    BY <1>2 DEF FindForward, FindBackward, StartFind, caller, LinkInv, InPhase, FindPCs
  <2> QED BY <2>1 DEF CallInv
<1>3. ASSUME NEW t \in Threads, Step(t) PROVE CallInv'
  <2>1. ASSUME JoinNext(t) PROVE CallInv'
    BY <1>1, <2>1, JoinNextStutters, JoinNextCalls
  <2>2. ASSUME SplitTest(t) PROVE CallInv'
    BY <2>2, SplitTestMoves, WithinKeepsCalls DEF Stutter
  <2> QED BY <1>1, <1>2, <1>3, <2>1, <2>2, JoinTestStutters, JoinPrevStutters,
             JoinLeftStutters, JoinRightStutters, SplitNextCalls,
             SplitPrevStutters, SplitLeftStutters, ReturnCalls
             DEF Step
<1>4. ASSUME NEW t \in Threads, Flush(t) PROVE CallInv'
  <2>1. next' = next /\ frame' = frame /\ UNCHANGED <<phase, shape, bonds, before, answers>>
    BY <1>4 DEF Flush, caller
  <2> QED BY <2>1 DEF CallInv, JoinCalls, SplitCalls
<1>5. ASSUME NEW t \in Threads, NEW x \in Elements, Start(t, x) PROVE CallInv'
  BY <1>2, <1>5, StartJoinCalls, StartSplitCalls DEF Start
<1>6. ASSUME NEW p \in {"join", "split", "find"}, NEW s \in Shapes, BeginPhase(p, s)
      PROVE  CallInv'
  BY <1>6, BeginPhaseCalls
<1>7. CASE EndPhase
  BY <1>7 DEF EndPhase, CallInv
<1>8. CASE UNCHANGED vars
  <2>1. next' = next /\ frame' = frame /\ UNCHANGED <<phase, shape, bonds, before, answers>>
    BY <1>8 DEF vars, caller
  <2> QED BY <2>1 DEF CallInv, JoinCalls, SplitCalls
<1> QED BY <1>3, <1>4, <1>5, <1>6, <1>7, <1>8 DEF Next

(* Every answer given and every call under way agrees with what has been   *)
(* joined and split so far.                                                *)
THEOREM CallInvariance == Spec => [](IInv /\ LinkInv /\ BarrierInv /\ CallInv)
<1>1. Spec => [](IInv /\ LinkInv /\ BarrierInv) /\ Init /\ [][Next]_vars
  BY BarrierInvariance DEF Spec
<1>2. [](IInv /\ LinkInv /\ BarrierInv) /\ Init /\ [][Next]_vars => []CallInv
  BY InitCalls, NextCalls, PTL
<1> QED BY <1>1, <1>2, PTL

LEMMA CallsAnswered == IInv /\ BarrierInv /\ CallInv => SplitAnswers
<1> SUFFICES ASSUME IInv, BarrierInv, CallInv, phase = "split" PROVE SplitAnswers
  BY DEF SplitAnswers
<1>1. SplitCalls /\ SplitsToCome
  BY DEF CallInv, BarrierInv
<1>2. \A t \in Threads : frame[t].result # Null =>
        frame[t].result = shape.right[0][frame[t].from]
  BY <1>1 DEF SplitCalls, SplitCall
<1>3. ASSUME NEW x \in Elements, Quiet, x \in before \ bonds
      PROVE  answers[x] = 1
  <2>1. \A t \in Threads : frame[t].pc = "idle" /\ frame[t].result = Null
    BY <1>3 DEF Quiet, Idle
  <2>2. ~KeepsBottom(bonds, next, x)
    BY <1>1, <2>1 DEF SplitsToCome, CutsBottom
  <2>3. next[0][x] = Null
    BY <1>3, <2>2 DEF KeepsBottom
  <2> QED BY <1>1, <1>3, <2>1, <2>3 DEF SplitCalls, Holds
<1>4. \A x \in Elements : answers[x] <= 1
  BY <1>1 DEF SplitCalls
<1>5. \A x \in Elements : answers[x] = 1 => x \in before \ bonds
  BY <1>1 DEF SplitCalls
<1> QED BY <1>2, <1>3, <1>4, <1>5 DEF SplitAnswers

(* However many Splits of an element run at once, exactly one returns its  *)
(* successor.                                                              *)
THEOREM OneSplitAnswers == Spec => []SplitAnswers
BY CallsAnswered, CallInvariance, PTL

----
(* Atomicity *)

(* CallOf, of a frame f in phase p.                                        *)
CallAs(f, p, s) ==
  IF f.pc = "idle" \/ p = "find" THEN Lists!NoCall
  ELSE [op |-> p,
        x |-> f.from,
        y |-> IF p = "join" THEN s.right[0][f.from] ELSE Null,
        taken |-> ~(JoinStart(f) \/ SplitStart(f)),
        result |-> f.result]

Calls == [t \in Threads |-> CallOf(t)]

LEMMA CallIs ==
  ASSUME NEW t, frame[t] \in Frame
  PROVE  CallOf(t) = CallAs(frame[t], phase, shape)
<1>1. frame[t].level \in Nat
  BY HeightsArePositive DEF Frame
<1>2. (frame[t].level > 0
         \/ frame[t].pc \notin {"JoinTest", "JoinNext", "SplitTest", "SplitNext"})
      = ~(JoinStart(frame[t]) \/ SplitStart(frame[t]))
  BY <1>1 DEF JoinStart, SplitStart
<1> QED BY <1>2 DEF CallOf, CallAs, Lists!NoCall

LEMMA CallsAre ==
  ASSUME IInv
  PROVE  Calls = [u \in Threads |-> CallAs(frame[u], phase, shape)]
BY CallIs DEF IInv, TypeOK, Calls

(* A step within the call of one thread, as the caller sees it.            *)
LEMMA OneCallMoves ==
  ASSUME IInv, IInv', NEW t \in Threads, UNCHANGED <<phase, shape>>,
         \A u \in Threads : u # t => frame'[u] = frame[u]
  PROVE  Calls' = [Calls EXCEPT ![t] = CallAs(frame'[t], phase, shape)]
<1>1. Calls = [u \in Threads |-> CallAs(frame[u], phase, shape)]
  BY CallsAre
<1>2. \A u \in Threads : frame'[u] \in Frame
  BY DEF IInv, TypeOK
<1>3. \A u \in Threads : CallOf(u)' = CallAs(frame'[u], phase, shape)
  <2> SUFFICES ASSUME NEW u \in Threads
               PROVE  CallOf(u)' = CallAs(frame'[u], phase, shape)
    OBVIOUS
  <2>1. frame'[u].level \in Nat
    BY <1>2, HeightsArePositive DEF Frame
  <2>2. (frame'[u].level > 0
           \/ frame'[u].pc \notin {"JoinTest", "JoinNext", "SplitTest", "SplitNext"})
        = ~(JoinStart(frame'[u]) \/ SplitStart(frame'[u]))
    BY <2>1 DEF JoinStart, SplitStart
  <2> QED BY <2>2 DEF CallOf, CallAs, Lists!NoCall
<1>4. Calls' = [u \in Threads |-> CallAs(frame'[u], phase, shape)]
  BY <1>3 DEF Calls
<1> QED BY <1>1, <1>4

(* The caller sees nothing of a step that leaves all calls as they are.    *)
LEMMA NothingSeen ==
  ASSUME IInv, NEW g \in [Threads -> Frame], NEW p, NEW s,
         g = frame', p = phase', s = shape',
         \A u \in Threads : CallAs(g[u], p, s) = CallAs(frame[u], phase, shape)
  PROVE  Calls' = Calls
<1>1. Calls = [u \in Threads |-> CallAs(frame[u], phase, shape)]
  BY CallsAre
<1>2. \A u \in Threads : CallOf(u)' = CallAs(g[u], p, s)
  <2> SUFFICES ASSUME NEW u \in Threads
               PROVE  CallOf(u)' = CallAs(g[u], p, s)
    OBVIOUS
  <2>1. g[u].level \in Nat
    BY HeightsArePositive DEF Frame
  <2>2. (g[u].level > 0
           \/ g[u].pc \notin {"JoinTest", "JoinNext", "SplitTest", "SplitNext"})
        = ~(JoinStart(g[u]) \/ SplitStart(g[u]))
    BY <2>1 DEF JoinStart, SplitStart
  <2> QED BY <2>2 DEF CallOf, CallAs, Lists!NoCall
<1> QED BY <1>1, <1>2 DEF Calls

LEMMA StutterRefines ==
  ASSUME IInv, IInv', NEW t \in Threads, Stutter(t)
  PROVE  next'[0] = next[0] /\ Calls' = Calls
<1> DEFINE f == frame[t]
           g == frame'[t]
<1>1. /\ next'[0] = next[0] /\ UNCHANGED <<phase, shape>>
      /\ \A u \in Threads : u # t => frame'[u] = frame[u]
      /\ f.pc # "idle" /\ g.pc # "idle" /\ g.from = f.from /\ g.result = f.result
      /\ JoinStart(f) <=> JoinStart(g)
      /\ SplitStart(f) <=> SplitStart(g)
  BY DEF Stutter, Within, SameCall, caller
<1>2. (~(JoinStart(g) \/ SplitStart(g))) = ~(JoinStart(f) \/ SplitStart(f))
  BY <1>1
<1>3. CallAs(g, phase, shape) = CallAs(f, phase, shape)
  BY <1>1, <1>2 DEF CallAs
<1>4. Calls' = [Calls EXCEPT ![t] = CallAs(frame[t], phase, shape)]
  BY <1>1, <1>3, OneCallMoves
<1>5. Calls = [u \in Threads |-> CallAs(frame[u], phase, shape)]
  BY CallsAre
<1> QED BY <1>1, <1>4, <1>5

(* The record of a call, before and after it has taken effect.           *)
OpenCall(o, a, b, r) == [op |-> o, x |-> a, y |-> b, taken |-> FALSE, result |-> r]
TakenCall(o, a, b, r) == [op |-> o, x |-> a, y |-> b, taken |-> TRUE, result |-> r]

Took(c) == [c EXCEPT !.taken = TRUE]
Taken(c, r) == [c EXCEPT !.taken = TRUE, !.result = r]

LEMMA CallTaken ==
  ASSUME NEW o, NEW a, NEW b, NEW q, NEW r
  PROVE  /\ Taken(OpenCall(o, a, b, q), r) = TakenCall(o, a, b, r)
         /\ Took(OpenCall(o, a, b, q)) = TakenCall(o, a, b, q)
<1> DEFINE D == {"op", "x", "y", "taken", "result"}
           c == OpenCall(o, a, b, q)
           d == Took(c)
           e == Taken(c, r)
<1>1. /\ c.op = o /\ c.x = a /\ c.y = b /\ c.result = q
      /\ DOMAIN c = D /\ c = [i \in D |-> c[i]]
  BY DEF OpenCall
<1> HIDE DEF c
<1>2. DOMAIN d = D /\ DOMAIN e = D
  BY <1>1 DEF Taken, Took
<1>3. d = [i \in DOMAIN d |-> d[i]] /\ e = [i \in DOMAIN e |-> e[i]]
  BY <1>1, <1>2 DEF Taken, Took
<1>4. d.op = o /\ d.x = a /\ d.y = b /\ d.taken = TRUE /\ d.result = q
  BY <1>1 DEF Took
<1>5. e.op = o /\ e.x = a /\ e.y = b /\ e.taken = TRUE /\ e.result = r
  BY <1>1 DEF Taken, Took
<1> HIDE DEF d, e
<1>6. d = TakenCall(o, a, b, q)
  BY <1>2, <1>3, <1>4 DEF TakenCall
<1>7. e = TakenCall(o, a, b, r)
  BY <1>2, <1>3, <1>5 DEF TakenCall
<1> QED BY <1>6, <1>7 DEF c, d, e

(* A call that is made, and what of a call can be seen without knowing     *)
(* whether it has taken effect.                                            *)
LEMMA NewCall ==
  ASSUME NEW o, NEW a, NEW b
  PROVE  /\ [Lists!NoCall EXCEPT !.op = o, !.x = a, !.y = b] = OpenCall(o, a, b, Null)
         /\ [Lists!NoCall EXCEPT !.op = o, !.x = a] = OpenCall(o, a, Null, Null)
<1> DEFINE D == {"op", "x", "y", "taken", "result"}
           c == Lists!NoCall
           d == [c EXCEPT !.op = o, !.x = a, !.y = b]
           e == [c EXCEPT !.op = o, !.x = a]
<1>1. /\ c.y = Null /\ c.taken = FALSE /\ c.result = Null
      /\ DOMAIN c = D /\ c = [i \in D |-> c[i]]
  BY DEF Lists!NoCall
<1> HIDE DEF c
<1>2. DOMAIN d = D /\ DOMAIN e = D
  BY <1>1
<1>3. d = [i \in DOMAIN d |-> d[i]] /\ e = [i \in DOMAIN e |-> e[i]]
  BY <1>1, <1>2
<1>4. d.op = o /\ d.x = a /\ d.y = b /\ d.taken = FALSE /\ d.result = Null
  BY <1>1
<1>5. e.op = o /\ e.x = a /\ e.y = Null /\ e.taken = FALSE /\ e.result = Null
  BY <1>1
<1> HIDE DEF d, e
<1>6. d = OpenCall(o, a, b, Null)
  BY <1>2, <1>3, <1>4 DEF OpenCall
<1>7. e = OpenCall(o, a, Null, Null)
  BY <1>2, <1>3, <1>5 DEF OpenCall
<1> QED BY <1>6, <1>7 DEF c, d, e

LEMMA SeenOf ==
  ASSUME NEW f, NEW p, NEW s
  PROVE  IF f.pc = "idle" \/ p = "find"
         THEN CallAs(f, p, s) = Lists!NoCall
         ELSE /\ CallAs(f, p, s).op = p
              /\ CallAs(f, p, s).x = f.from
              /\ CallAs(f, p, s).y = IF p = "join" THEN s.right[0][f.from] ELSE Null
<1> DEFINE y == IF p = "join" THEN s.right[0][f.from] ELSE Null
<1>1. CASE f.pc = "idle" \/ p = "find"
  BY <1>1 DEF CallAs
<1>2. CASE ~(f.pc = "idle" \/ p = "find") /\ (JoinStart(f) \/ SplitStart(f))
  <2>1. ~(~(JoinStart(f) \/ SplitStart(f)))
    BY <1>2
  <2>2. CallAs(f, p, s) = OpenCall(p, f.from, y, f.result)
    BY <1>2, <2>1 DEF CallAs, OpenCall
  <2> HIDE DEF y
  <2>3. /\ CallAs(f, p, s).op = p
        /\ CallAs(f, p, s).x = f.from
        /\ CallAs(f, p, s).y = y
    BY <2>2 DEF OpenCall
  <2> QED BY <1>2, <2>3 DEF y
<1>3. CASE ~(f.pc = "idle" \/ p = "find") /\ ~(JoinStart(f) \/ SplitStart(f))
  <2>1. CallAs(f, p, s) = TakenCall(p, f.from, y, f.result)
    BY <1>3 DEF CallAs, TakenCall
  <2> HIDE DEF y
  <2>2. /\ CallAs(f, p, s).op = p
        /\ CallAs(f, p, s).x = f.from
        /\ CallAs(f, p, s).y = y
    BY <2>1 DEF TakenCall
  <2> QED BY <1>3, <2>2 DEF y
<1> QED BY <1>1, <1>2, <1>3

(* A split that finds its link gone has taken effect all the same.         *)
LEMMA DetachNothing ==
  ASSUME IInv, IInv', LinkInv, CallInv, NEW t \in Threads,
         SplitStart(frame[t]), next[0][frame[t].from] = Null,
         Within(t), next' = next, frame'[t].pc = "done"
  PROVE  Lists!Detach(t)
<1> DEFINE f == frame[t]
           g == frame'[t]
           x == f.from
<1>1. /\ phase = "split" /\ x \in Elements /\ f.result = Null /\ f.pc # "idle"
      /\ ~(~(JoinStart(f) \/ SplitStart(f)))
  BY AtSplitStart DEF SplitStart
<1>2. /\ UNCHANGED <<phase, shape>>
      /\ \A u \in Threads : u # t => frame'[u] = frame[u]
      /\ g.from = x /\ g.result = Null /\ g.pc = "done"
  BY <1>1 DEF Within, SameCall, caller
<1>3. Calls' = [Calls EXCEPT ![t] = CallAs(g, phase, shape)]
  BY <1>2, OneCallMoves
<1>4. Calls[t] = CallAs(f, phase, shape)
  BY CallsAre
<1>5. CallAs(f, phase, shape) = OpenCall("split", x, Null, Null)
  BY <1>1 DEF CallAs, OpenCall
<1>6. CallAs(g, phase, shape) = TakenCall("split", x, Null, Null)
  BY <1>1, <1>2 DEF CallAs, TakenCall, JoinStart, SplitStart
<1>7. next[0] \in [Elements -> Ref] /\ next[0][x] = Null
  BY Basics DEF IInv, TypeOK, Links
<1> HIDE DEF x, g, f
<1>8. next'[0] = [next[0] EXCEPT ![x] = Null]
  BY <1>7
<1>9. Calls' = [Calls EXCEPT ![t] = Taken(@, next[0][Calls[t].x])]
  <2>1. Calls[t].x = x
    BY <1>4, <1>5 DEF OpenCall
  <2>2. Taken(Calls[t], next[0][Calls[t].x]) = TakenCall("split", x, Null, Null)
    BY <1>4, <1>5, <1>7, <2>1, CallTaken
  <2> QED BY <1>3, <1>6, <2>2
<1>10. Calls[t].op = "split" /\ Calls[t].taken = FALSE /\ Calls[t].x = x
  BY <1>4, <1>5 DEF OpenCall
<1> QED BY <1>8, <1>9, <1>10 DEF Lists!Detach, Calls, Taken

LEMMA DetachSuccessor ==
  ASSUME IInv, IInv', LinkInv, CallInv, NEW t \in Threads,
         SplitStart(frame[t]), UNCHANGED caller,
         next'[0] = [next[0] EXCEPT ![frame[t].from] = Null],
         \A u \in Threads : u # t => frame'[u] = frame[u],
         frame'[t].pc = "SplitPrev", frame'[t].from = frame[t].from,
         frame'[t].result = next[0][frame[t].from]
  PROVE  Lists!Detach(t)
<1> DEFINE f == frame[t]
           g == frame'[t]
           x == f.from
           y == next[0][x]
<1>1. /\ phase = "split" /\ f.result = Null /\ f.pc # "idle"
      /\ ~(~(JoinStart(f) \/ SplitStart(f)))
      /\ UNCHANGED <<phase, shape>>
  BY AtSplitStart DEF SplitStart, caller
<1>2. Calls' = [Calls EXCEPT ![t] = CallAs(g, phase, shape)]
  BY <1>1, OneCallMoves
<1>3. Calls[t] = CallAs(f, phase, shape)
  BY CallsAre
<1>4. CallAs(f, phase, shape) = OpenCall("split", x, Null, Null)
  BY <1>1 DEF CallAs, OpenCall
<1>5. CallAs(g, phase, shape) = TakenCall("split", x, Null, y)
  BY <1>1 DEF CallAs, TakenCall, JoinStart, SplitStart
<1> HIDE DEF x, g, f, y
<1>6. next'[0] = [next[0] EXCEPT ![x] = Null]
  BY DEF x, f
<1>7. Calls' = [Calls EXCEPT ![t] = Taken(@, next[0][Calls[t].x])]
  <2>1. next[0][Calls[t].x] = y
    BY <1>3, <1>4 DEF OpenCall, y
  <2>2. Taken(Calls[t], next[0][Calls[t].x]) = TakenCall("split", x, Null, y)
    BY <1>3, <1>4, <2>1, CallTaken
  <2> QED BY <1>2, <1>5, <2>2
<1>8. Calls[t].op = "split" /\ Calls[t].taken = FALSE /\ Calls[t].x = x
  BY <1>3, <1>4 DEF OpenCall
<1> QED BY <1>6, <1>7, <1>8 DEF Lists!Detach, Calls, Taken

LEMMA JoinConcatenates ==
  ASSUME IInv, IInv', LinkInv, BarrierInv, CallInv, NEW t \in Threads, JoinNext(t),
         frame[t].level = 0
  PROVE  Lists!Concatenate(t)
<1> DEFINE f == frame[t]
           g == frame'[t]
           x == f.from
           y == shape.right[0][x]
<1>1. /\ JoinStart(f) /\ UNCHANGED <<phase, shape>>
      /\ next'[0] = [next[0] EXCEPT ![x] = y]
      /\ \A u \in Threads : u # t => frame'[u] = frame[u]
      /\ g.pc = "JoinPrev" /\ g.from = x /\ g.result = f.result
  BY JoinNextLinksFirst DEF caller
<1>2. phase = "join" /\ f.pc # "idle" /\ ~(~(JoinStart(f) \/ SplitStart(f)))
  BY <1>1, AtJoinStart DEF JoinStart
<1>3. Calls' = [Calls EXCEPT ![t] = CallAs(g, phase, shape)]
  BY <1>1, OneCallMoves
<1>4. Calls[t] = CallAs(f, phase, shape)
  BY CallsAre
<1>5. CallAs(f, phase, shape) = OpenCall("join", x, y, f.result)
  BY <1>2 DEF CallAs, OpenCall
<1>6. CallAs(g, phase, shape) = TakenCall("join", x, y, f.result)
  BY <1>1, <1>2 DEF CallAs, TakenCall, JoinStart, SplitStart
<1> HIDE DEF x, g, f, y
<1>7. Calls' = [Calls EXCEPT ![t] = Took(@)]
  <2>1. Took(Calls[t]) = TakenCall("join", x, y, f.result)
    BY <1>4, <1>5, CallTaken
  <2> QED BY <1>3, <1>6, <2>1
<1>8. /\ Calls[t].op = "join" /\ Calls[t].taken = FALSE
      /\ Calls[t].x = x /\ Calls[t].y = y
  BY <1>4, <1>5 DEF OpenCall
<1> QED BY <1>1, <1>7, <1>8 DEF Lists!Concatenate, Calls, Took

LEMMA StartJoinCalled ==
  ASSUME IInv, IInv', LinkInv, CallInv, NEW t \in Threads, NEW x \in Elements,
         StartJoin(t, x)
  PROVE  Lists!CallJoin(t, x, shape.right[0][x]) /\ shape.right[0][x] \in Elements
<1> DEFINE f == frame[t]
           g == [Idle EXCEPT !.pc = "JoinTest", !.from = x, !.left = x,
                             !.right = shape.right[0][x]]
           y == shape.right[0][x]
<1>1. /\ phase = "join" /\ x \notin bonds /\ next' = next
      /\ UNCHANGED <<phase, shape>> /\ Becomes(t, g)
      /\ frame \in [Threads -> Frame] /\ f.pc = "idle" /\ y # Null
  BY DEF StartJoin, shared, IInv, TypeOK, Idle
<1>2. g.pc = "JoinTest" /\ g.from = x /\ g.result = Null /\ g.level = 0
  BY DEF Idle
<1> HIDE DEF g
<1>3. frame'[t] = g /\ \A u \in Threads : u # t => frame'[u] = frame[u]
  BY <1>1 DEF Becomes
<1>4. y \in Elements
  BY <1>1, ShapeFacts, Basics DEF Ref, IInv
<1>5. Calls' = [Calls EXCEPT ![t] = CallAs(g, phase, shape)]
  BY <1>1, <1>3, OneCallMoves
<1>6. CallAs(g, phase, shape) = [Lists!NoCall EXCEPT !.op = "join", !.x = x, !.y = y]
  <2>1. ~(~(JoinStart(g) \/ SplitStart(g)))
    BY <1>2 DEF JoinStart
  <2>2. CallAs(g, phase, shape) = OpenCall("join", x, y, Null)
    BY <1>1, <1>2, <2>1 DEF CallAs, OpenCall
  <2> QED BY <2>2, NewCall
<1>7. \A u \in Threads : Calls[u] = CallAs(frame[u], phase, shape)
  BY CallsAre
<1>8. Calls[t] = Lists!NoCall
  BY <1>1, <1>7 DEF CallAs
<1>9. \A z \in Elements : next[0][z] # Null =>
        z \in bonds /\ next[0][z] = shape.right[0][z]
  <2>1. \A z \in Elements : next[0][z] # Null => Spanned(shape, bonds, 0, z)
    BY <1>1, Basics DEF LinkInv, NotBeyond
  <2>2. \A z \in Elements : next[0][z] \in {Null, shape.right[0][z]}
    BY Basics DEF IInv, LinksInShape
  <2> QED BY <2>1, <2>2, SpanFacts DEF IInv
<1>10. \A z \in Elements : shape.right[0][z] = y => z = x
  <2>1. \A z \in Elements : shape.right[0][z] = y => shape.left[0][y] = z
    BY <1>4, ShapeFacts, Basics DEF IInv
  <2> QED BY <2>1
<1>11. next[0][x] = Null /\ \A z \in Elements : next[0][z] # y
  BY <1>1, <1>9, <1>10
<1>12. ASSUME NEW u \in Threads
       PROVE  /\ Calls[u].op \in {"none", "join"}
              /\ Calls[u].x # x
              /\ Calls[u].y # y
  <2>1. CASE frame[u].pc = "idle"
    <3>1. Calls[u] = Lists!NoCall
      BY <1>7, <2>1 DEF CallAs
    <3> QED BY <1>1, <3>1, Basics DEF Lists!NoCall
  <2>2. CASE frame[u].pc # "idle"
    <3>1. frame[u].from \in bonds /\ frame[u].from \in Elements
      BY <1>1, <2>2 DEF CallInv, JoinCalls, JoinCall, IInv, TypeOK
    <3>2. /\ Calls[u].op = "join" /\ Calls[u].x = frame[u].from
          /\ Calls[u].y = shape.right[0][frame[u].from]
      BY <1>1, <1>7, <2>2, SeenOf
    <3> QED BY <1>1, <1>10, <3>1, <3>2
  <2> QED BY <2>1, <2>2
<1> HIDE DEF y
<1>13. Lists!CallJoin(t, x, y)
  BY <1>1, <1>5, <1>6, <1>8, <1>11, <1>12 DEF Lists!CallJoin, Calls
<1> QED BY <1>4, <1>13 DEF y

LEMMA StartSplitCalled ==
  ASSUME IInv, IInv', LinkInv, CallInv, NEW t \in Threads, NEW x \in Elements,
         StartSplit(t, x)
  PROVE  Lists!CallSplit(t, x)
<1> DEFINE f == frame[t]
           g == [Idle EXCEPT !.pc = "SplitTest", !.from = x, !.left = x]
<1>1. /\ phase = "split" /\ next' = next
      /\ UNCHANGED <<phase, shape>> /\ Becomes(t, g)
      /\ frame \in [Threads -> Frame] /\ f.pc = "idle"
  BY DEF StartSplit, shared, IInv, TypeOK, Idle
<1>2. g.pc = "SplitTest" /\ g.from = x /\ g.result = Null /\ g.level = 0
  BY DEF Idle
<1> HIDE DEF g
<1>3. frame'[t] = g /\ \A u \in Threads : u # t => frame'[u] = frame[u]
  BY <1>1 DEF Becomes
<1>4. Calls' = [Calls EXCEPT ![t] = CallAs(g, phase, shape)]
  BY <1>1, <1>3, OneCallMoves
<1>5. CallAs(g, phase, shape) = [Lists!NoCall EXCEPT !.op = "split", !.x = x]
  <2>1. ~(~(JoinStart(g) \/ SplitStart(g)))
    BY <1>2 DEF SplitStart
  <2>2. CallAs(g, phase, shape) = OpenCall("split", x, Null, Null)
    BY <1>1, <1>2, <2>1 DEF CallAs, OpenCall
  <2> QED BY <2>2, NewCall
<1>6. \A u \in Threads : Calls[u] = CallAs(frame[u], phase, shape)
  BY CallsAre
<1>7. Calls[t] = Lists!NoCall
  BY <1>1, <1>6 DEF CallAs
<1>8. \A u \in Threads : Calls[u].op \in {"none", "split"}
  BY <1>1, <1>6, SeenOf DEF Lists!NoCall
<1> QED BY <1>1, <1>4, <1>5, <1>7, <1>8 DEF Lists!CallSplit, Calls

(* A search is no call of the lists', so neither is its return.            *)
LEMMA ReturnSeen ==
  ASSUME IInv, IInv', NEW t \in Threads, Return(t)
  PROVE  \/ Lists!Return(t)
         \/ next'[0] = next[0] /\ Calls' = Calls
<1> DEFINE f == frame[t]
<1>1. /\ f.pc = "done" /\ Becomes(t, Idle) /\ next' = next
      /\ UNCHANGED <<phase, shape>> /\ frame \in [Threads -> Frame]
  BY DEF Return, shared, IInv, TypeOK
<1>2. frame'[t] = Idle /\ \A u \in Threads : u # t => frame'[u] = frame[u]
  BY <1>1 DEF Becomes
<1>3. Calls' = [Calls EXCEPT ![t] = CallAs(Idle, phase, shape)]
  BY <1>1, <1>2, OneCallMoves
<1>4. CallAs(Idle, phase, shape) = Lists!NoCall
  BY DEF CallAs, Idle
<1>5. Calls = [u \in Threads |-> CallAs(frame[u], phase, shape)]
  BY CallsAre
<1>6. CASE phase = "find"
  <2>1. CallAs(f, phase, shape) = Lists!NoCall
    BY <1>6 DEF CallAs
  <2>2. Calls[t] = Lists!NoCall
    BY <1>5, <2>1
  <2>3. Calls = [Calls EXCEPT ![t] = Calls[t]]
    BY <1>5
  <2> QED BY <1>1, <1>3, <1>4, <2>2, <2>3
<1>7. CASE phase # "find"
  <2>1. f.pc # "idle" /\ ~(JoinStart(f) \/ SplitStart(f))
    BY <1>1 DEF JoinStart, SplitStart
  <2>2. Calls[t].taken = TRUE
    BY <1>5, <1>7, <2>1 DEF CallAs
  <2> QED BY <1>1, <1>3, <1>4, <2>2 DEF Lists!Return, Calls
<1> QED BY <1>6, <1>7

(* The searches, the barriers and the store buffers are not seen.          *)
LEMMA SearchNotSeen ==
  ASSUME IInv, IInv', LinkInv, NEW t \in Threads,
         FindForward(t) \/ FindBackward(t) \/ \E x \in Elements : StartFind(t, x)
  PROVE  next'[0] = next[0] /\ Calls' = Calls
<1>1. phase = "find" /\ next' = next /\ UNCHANGED <<phase, shape>>
  BY DEF FindForward, FindBackward, StartFind, shared, caller, LinkInv, InPhase,
         FindPCs
<1>2. frame' \in [Threads -> Frame]
  BY DEF IInv, TypeOK
<1>3. \A f : CallAs(f, phase, shape) = Lists!NoCall
  BY <1>1 DEF CallAs
<1> QED BY <1>1, <1>2, <1>3, NothingSeen

LEMMA BarrierNotSeen ==
  ASSUME IInv, IInv',
         \/ EndPhase
         \/ \E p \in {"join", "split", "find"}, s \in Shapes : BeginPhase(p, s)
  PROVE  next'[0] = next[0] /\ Calls' = Calls
<1>1. next' = next /\ frame' = frame /\ Quiet
  BY DEF EndPhase, BeginPhase, shared, IInv
<1>2. \A u \in Threads : frame[u].pc = "idle"
  BY <1>1 DEF Quiet, Idle
<1>3. frame' \in [Threads -> Frame]
  BY DEF IInv, TypeOK
<1>4. \A u \in Threads : \A p, s : CallAs(frame[u], p, s) = Lists!NoCall
  BY <1>2 DEF CallAs
<1> QED BY <1>1, <1>3, <1>4, NothingSeen

LEMMA UnchangedNotSeen ==
  ASSUME IInv, IInv', UNCHANGED <<next, frame, phase, shape>>
  PROVE  next'[0] = next[0] /\ Calls' = Calls
<1>1. frame' \in [Threads -> Frame]
  BY DEF IInv, TypeOK
<1> QED BY <1>1, NothingSeen

LEMMA InitRefines == Init => Lists!Init
<1> SUFFICES ASSUME Init PROVE Lists!Init
  OBVIOUS
<1>1. IInv
  BY InitIInv
<1>2. Calls = [t \in Threads |-> CallAs(frame[t], phase, shape)]
  BY <1>1, CallsAre
<1>3. \A t \in Threads : CallAs(frame[t], phase, shape) = Lists!NoCall
  BY DEF Init, Idle, CallAs
<1>4. next[0] = [x \in Elements |-> Null]
  BY Basics DEF Init
<1> QED BY <1>2, <1>3, <1>4 DEF Lists!Init, Calls

LEMMA StepRefines ==
  /\ IInv /\ LinkInv /\ BarrierInv /\ CallInv /\ IInv'
  /\ [Next]_vars
  => [Lists!Next]_(Lists!vars)
<1> SUFFICES ASSUME IInv, LinkInv, BarrierInv, CallInv, IInv', [Next]_vars
             PROVE  Lists!Next \/ (next'[0] = next[0] /\ Calls' = Calls)
  BY DEF Lists!vars, Calls
<1>1. ASSUME NEW t \in Threads, Stutter(t)
      PROVE  next'[0] = next[0] /\ Calls' = Calls
  BY <1>1, StutterRefines
<1>2. ASSUME NEW t \in Threads, Step(t)
      PROVE  Lists!Next \/ (next'[0] = next[0] /\ Calls' = Calls)
  <2>1. CASE JoinNext(t)
    <3>1. CASE frame[t].level = 0
      BY <2>1, <3>1, JoinConcatenates DEF Lists!Next
    <3>2. CASE frame[t].level # 0
      BY <1>1, <2>1, <3>2, JoinNextStutters
    <3> QED BY <3>1, <3>2
  <2>2. CASE SplitTest(t)
    <3>1. Stutter(t) \/ Lists!Detach(t)
      BY <2>2, SplitTestMoves, DetachNothing
    <3> QED BY <1>1, <3>1 DEF Lists!Next
  <2>3. CASE SplitNext(t)
    <3>1. Stutter(t) \/ Lists!Detach(t)
      BY <2>3, SplitNextMoves, DetachNothing, DetachSuccessor
    <3> QED BY <1>1, <3>1 DEF Lists!Next
  <2>4. CASE Return(t)
    BY <2>4, ReturnSeen DEF Lists!Next
  <2>5. CASE FindForward(t) \/ FindBackward(t)
    BY <2>5, SearchNotSeen
  <2>6. CASE \/ JoinTest(t) \/ JoinPrev(t) \/ JoinLeft(t) \/ JoinRight(t)
            \/ SplitPrev(t) \/ SplitLeft(t)
    BY <1>1, <2>6, JoinTestStutters, JoinPrevStutters, JoinLeftStutters,
       JoinRightStutters, SplitPrevStutters, SplitLeftStutters
  <2> QED BY <1>2, <2>1, <2>2, <2>3, <2>4, <2>5, <2>6 DEF Step
<1>3. ASSUME NEW t \in Threads, Flush(t)
      PROVE  next'[0] = next[0] /\ Calls' = Calls
  BY <1>3, UnchangedNotSeen DEF Flush, caller
<1>4. ASSUME NEW t \in Threads, NEW x \in Elements, Start(t, x)
      PROVE  Lists!Next \/ (next'[0] = next[0] /\ Calls' = Calls)
  <2>1. CASE StartJoin(t, x)
    BY <2>1, StartJoinCalled DEF Lists!Next
  <2>2. CASE StartSplit(t, x)
    BY <2>2, StartSplitCalled DEF Lists!Next
  <2>3. CASE StartFind(t, x)
    BY <2>3, SearchNotSeen
  <2> QED BY <1>4, <2>1, <2>2, <2>3 DEF Start
<1>5. ASSUME NEW p \in {"join", "split", "find"}, NEW s \in Shapes, BeginPhase(p, s)
      PROVE  next'[0] = next[0] /\ Calls' = Calls
  BY <1>5, BarrierNotSeen
<1>6. CASE EndPhase
  BY <1>6, BarrierNotSeen
<1>7. CASE UNCHANGED vars
  BY <1>7, UnchangedNotSeen DEF vars, shared, caller
<1> QED BY <1>2, <1>3, <1>4, <1>5, <1>6, <1>7 DEF Next

(* Joins and Splits are atomic: whatever number of workers run them on     *)
(* whatever elements and towers, the successors at level 0 and the results *)
(* are those of calls that each take effect at one instant.                *)
THEOREM Atomicity == Spec => Implements
<1>1. Spec => /\ Init /\ [][Next]_vars
              /\ [](IInv /\ LinkInv /\ BarrierInv /\ CallInv)
  BY CallInvariance DEF Spec
<1>2. Init => Lists!Init
  BY InitRefines
<1>3. /\ IInv /\ LinkInv /\ BarrierInv /\ CallInv /\ IInv'
      /\ [Next]_vars
      => [Lists!Next]_(Lists!vars)
  BY StepRefines
<1> QED BY <1>1, <1>2, <1>3, PTL DEF Implements, Lists!Spec

----
(***************************************************************************)
(* FindRepresentative.  A search stays in its list and on the topmost      *)
(* level of the element it is at.  What it has seen since it climbed is a  *)
(* chain of links of that level: when the chain closes, the list is a ring *)
(* and these are its tallest elements.  When it ends, so does the list,    *)
(* and no element to the right is taller.                                  *)
(***************************************************************************)

(* The elements that a search has passed on its level since it climbed.    *)
Passed(W, f, s, B) ==
  /\ f.seen \in W
  /\ \A z \in W : /\ f.seen <= z /\ s.height[z] = f.level + 1
                  /\ s.right[f.level][z] \in W \cup {f.at} /\ Spanned(s, B, f.level, z)

SearchKnows(f, s, B) ==
  /\ f.pc \in FindPCs =>
       /\ f.from \in Elements
       /\ f.at \in ListOf(s, B, f.from)
       /\ s.height[f.at] = f.level + 1
  /\ f.pc = "FindForward" /\ f.seen # Null =>
       \E W \in SUBSET ListOf(s, B, f.from) : Passed(W, f, s, B)
  /\ f.pc = "FindBackward" =>
       /\ ~(ListOf(s, B, f.from) \subseteq B)
       /\ \A z \in Reached(RightOf(s, B), f.at) : ~(s.height[z] > f.level + 1)
  /\ f.pc = "done" => f.result = Representative(s, B, f.from)

FindInv == phase = "find" => \A t \in Threads : SearchKnows(frame[t], shape, bonds)

(* A step of a search: its own frame stays sound.                          *)
LEMMA SearchStep ==
  ASSUME IInv, FindInv, NEW t \in Threads, NEW f, Becomes(t, f),
         UNCHANGED <<phase, shape, bonds>>, SearchKnows(f, shape, bonds)
  PROVE  FindInv'
<1>1. frame \in [Threads -> Frame] /\ frame' = [frame EXCEPT ![t] = f]
  BY DEF IInv, TypeOK, Becomes
<1>2. ASSUME NEW u \in Threads, phase = "find" PROVE SearchKnows(frame'[u], shape, bonds)
  <2>1. frame'[u] = IF u = t THEN f ELSE frame[u]
    BY <1>1
  <2> QED BY <2>1, <1>2 DEF FindInv
<1> QED BY <1>2 DEF FindInv

LEMMA StartFindKnows ==
  ASSUME IInv, FindInv, NEW t \in Threads, NEW x \in Elements, StartFind(t, x)
  PROVE  FindInv'
<1> DEFINE f == [Idle EXCEPT !.pc = "FindForward", !.from = x, !.at = x,
                             !.level = shape.height[x] - 1]
<1>1. /\ f.pc = "FindForward" /\ f.from = x /\ f.at = x /\ f.seen = Null
      /\ f.level = shape.height[x] - 1
  BY DEF Idle
<1>2. UNCHANGED <<phase, shape, bonds>> /\ Becomes(t, f)
  BY DEF StartFind, caller
<1> HIDE DEF f
<1>3. shape \in Shapes /\ bonds \in SUBSET Elements
  BY DEF IInv, TypeOK
<1>4. x \in ListOf(shape, bonds, x) /\ shape.height[x] = (shape.height[x] - 1) + 1
  <2>1. x \in ListOf(shape, bonds, x)
    BY <1>3, ListLeast
  <2>2. shape.height[x] \in 1 .. MaxHeight
    BY <1>3, ShapeFacts, Basics
  <2> QED BY <2>1, <2>2
<1>5. SearchKnows(f, shape, bonds)
  BY <1>1, <1>4 DEF SearchKnows
<1> QED BY <1>2, <1>5, SearchStep

(* What a search reads, at the element it is at.                           *)
LEMMA SearchReads ==
  ASSUME IInv, LinkInv, BarrierInv, FindInv, NEW t \in Threads, frame[t].pc \in FindPCs
  PROVE  LET f == frame[t]
             n == next[f.level][f.at]
             p == ReadPrev(t, f.level, f.at)
         IN
         /\ phase = "find" /\ shape \in Shapes /\ bonds \in SUBSET Elements
         /\ \A x \in bonds : shape.right[0][x] # Null
         /\ f \in Frame /\ f.level \in Level /\ f.at \in Elements
         /\ SearchKnows(f, shape, bonds)
         /\ n # Null => /\ n \in Elements /\ shape.right[f.level][f.at] = n
                        /\ Spanned(shape, bonds, f.level, f.at)
         /\ n = Null => ~Spanned(shape, bonds, f.level, f.at)
         /\ p = BackLinksOf(shape, bonds)[f.level][f.at]
         /\ p # Null => /\ p \in Elements /\ shape.right[f.level][p] = f.at
                        /\ Spanned(shape, bonds, f.level, p)
<1> DEFINE f == frame[t]
           l == f.level
           at == f.at
<1>1. phase = "find"
  BY DEF LinkInv, InPhase
<1>2. /\ shape \in Shapes /\ bonds \in SUBSET Elements
      /\ \A x \in bonds : shape.right[0][x] # Null
      /\ next = LinksOf(shape, bonds) /\ prev = BackLinksOf(shape, bonds)
  BY <1>1 DEF IInv, TypeOK, BarrierInv, Canonical
<1>3. FrameOK(f, shape) /\ f \in Frame /\ f.pc \in FindPCs
  BY DEF IInv, FrameOK
<1>4. SearchKnows(f, shape, bonds)
  BY <1>1 DEF FindInv
<1>5. Tower(shape, at, l) /\ l \in 0 .. MaxHeight
  BY <1>3 DEF FrameOK, FindFrame, FindPCs, Frame
<1>6. l \in Level /\ at \in Elements /\ shape.height[at] > l
  BY <1>2, <1>5, TowerLevel DEF Tower
<1>7. next[l][at] = IF Spanned(shape, bonds, l, at) THEN shape.right[l][at] ELSE Null
  BY <1>2, <1>6 DEF LinksOf, Spanned
<1>8. /\ ReadPrev(t, l, at) = prev[l][at]
      /\ prev[l][at] = IF shape.left[l][at] # Null /\ Spanned(shape, bonds, l, shape.left[l][at])
                       THEN shape.left[l][at] ELSE Null
  <2>1. ReadPrev(t, l, at) = prev[l][at]
    <3> HIDE DEF l, at
    <3> QED BY <1>1, <1>6, ReadPrevIsPrev
  <2>2. \A i \in Level : \A x \in Elements :
          prev[i][x] = IF shape.left[i][x] # Null /\ Spanned(shape, bonds, i, shape.left[i][x])
                       THEN shape.left[i][x] ELSE Null
    BY <1>2 DEF BackLinksOf, Spanned
  <2> HIDE DEF l, at
  <2> QED BY <1>6, <2>1, <2>2
<1>9. Spanned(shape, bonds, l, at) => shape.right[l][at] # Null
  BY <1>2, <1>6, SpannedLinked
<1>10. /\ shape.right[l][at] # Null => shape.right[l][at] \in Elements
       /\ shape.left[l][at] # Null => /\ shape.left[l][at] \in Elements
                                      /\ shape.right[l][shape.left[l][at]] = at
  <2> HIDE DEF f, l, at
  <2>1. shape.right[l][at] \in Ref /\ shape.left[l][at] \in Ref
    BY <1>2, <1>6, ShapeFacts
  <2>2. \A x \in Elements : shape.left[l][at] = x => shape.right[l][x] = at
    BY <1>2, <1>6, ShapeFacts
  <2> QED BY <2>1, <2>2 DEF Ref
<1> HIDE DEF f, l, at
<1>11. /\ next[l][at] # Null => /\ next[l][at] \in Elements /\ shape.right[l][at] = next[l][at]
                                /\ Spanned(shape, bonds, l, at)
       /\ next[l][at] = Null => ~Spanned(shape, bonds, l, at)
  BY <1>7, <1>9, <1>10
<1>12. ReadPrev(t, l, at) = BackLinksOf(shape, bonds)[l][at]
  BY <1>2, <1>8
<1>13. ReadPrev(t, l, at) # Null =>
         /\ ReadPrev(t, l, at) \in Elements /\ shape.right[l][ReadPrev(t, l, at)] = at
         /\ Spanned(shape, bonds, l, ReadPrev(t, l, at))
  BY <1>8, <1>10
<1> QED BY <1>1, <1>2, <1>3, <1>4, <1>6, <1>11, <1>12, <1>13 DEF f, l, at

LEMMA FindForwardKnows ==
  ASSUME IInv, LinkInv, BarrierInv, FindInv, NEW t \in Threads, FindForward(t)
  PROVE  FindInv'
<1> DEFINE f == frame[t]
           n == next[f.level][f.at]
           L == ListOf(shape, bonds, f.from)
           climb == [f EXCEPT !.at = n, !.seen = Null, !.level = shape.height[n] - 1]
           on == [f EXCEPT !.at = n, !.seen = IF @ = Null \/ f.at < @ THEN f.at ELSE @]
           end == [f EXCEPT !.pc = "done", !.result = f.seen]
           back == [f EXCEPT !.pc = "FindBackward"]
<1>1. f.pc = "FindForward" /\ UNCHANGED <<phase, shape, bonds>>
  BY DEF FindForward, caller
<1>2. \/ n # Null /\ f.level < shape.height[n] - 1 /\ Becomes(t, climb)
      \/ n # Null /\ f.seen # f.at /\ ~(f.level < shape.height[n] - 1) /\ Becomes(t, on)
      \/ f.seen = f.at /\ Becomes(t, end)
      \/ n = Null /\ f.seen # f.at /\ Becomes(t, back)
  BY DEF FindForward
<1>3. /\ phase = "find" /\ shape \in Shapes /\ bonds \in SUBSET Elements
      /\ f \in Frame /\ f.level \in Level /\ f.at \in Elements
      /\ SearchKnows(f, shape, bonds)
      /\ n # Null => /\ n \in Elements /\ shape.right[f.level][f.at] = n
                     /\ Spanned(shape, bonds, f.level, f.at)
      /\ n = Null => ~Spanned(shape, bonds, f.level, f.at)
  <2>1. frame[t].pc \in FindPCs
    BY <1>1 DEF FindPCs
  <2> QED BY <2>1, SearchReads
<1>4. f.from \in Elements /\ f.at \in L /\ shape.height[f.at] = f.level + 1
  BY <1>1, <1>3 DEF SearchKnows, FindPCs
<1>5. f.seen # Null => \E W \in SUBSET L : Passed(W, f, shape, bonds)
  BY <1>1, <1>3 DEF SearchKnows
<1>6. /\ L \in SUBSET Elements /\ Elements \subseteq Int /\ f.level \in Int /\ Null \notin Elements
      /\ \A y \in Elements : shape.height[y] \in Int
  <2>1. L \in SUBSET Elements
    BY <1>3, <1>4, ListLeast
  <2>2. \A y \in Elements : shape.height[y] \in Int
    BY <1>3, Basics, ShapeFacts
  <2>3. f.level \in Int /\ Elements \subseteq Int /\ Null \notin Elements
    <3>1. f.level \in Level
      BY <1>3
    <3>2. Elements \subseteq Int /\ Null \notin Elements /\ Level \subseteq Int
      BY Basics
    <3> QED BY <3>1, <3>2
  <2> QED BY <2>1, <2>2, <2>3
<1>7. ASSUME n # Null PROVE n \in L /\ shape.height[n] > f.level
  <2>1. shape.height[n] > f.level /\ n \in Reached(RightOf(shape, bonds), f.at)
    BY <1>3, <1>7, LinkReaches
  <2>2. n \in ListOf(shape, bonds, f.at)
    BY <2>1 DEF ListOf
  <2> QED BY <1>3, <1>4, <2>1, <2>2, OneList
<1>8. CASE n # Null /\ f.level < shape.height[n] - 1 /\ Becomes(t, climb)
  <2>1. /\ climb.pc = "FindForward" /\ climb.from = f.from /\ climb.at = n /\ climb.seen = Null
        /\ climb.level = shape.height[n] - 1
    BY <1>1, <1>3 DEF Frame
  <2> HIDE DEF climb, n
  <2>2. shape.height[n] = (shape.height[n] - 1) + 1
    <3>1. n \in Elements
      BY <1>3, <1>8
    <3>2. shape.height[n] \in Int
      BY <1>6, <3>1
    <3> QED BY <3>2
  <2>3. SearchKnows(climb, shape, bonds)
    BY <1>4, <1>7, <1>8, <2>1, <2>2 DEF SearchKnows
  <2> QED BY <1>1, <1>8, <2>3, SearchStep
<1>9. CASE n # Null /\ f.seen # f.at /\ ~(f.level < shape.height[n] - 1) /\ Becomes(t, on)
  <2> DEFINE seen == IF f.seen = Null \/ f.at < f.seen THEN f.at ELSE f.seen
  <2>1. /\ on.pc = "FindForward" /\ on.from = f.from /\ on.at = n /\ on.seen = seen
        /\ on.level = f.level
    BY <1>1, <1>3 DEF Frame
  <2> HIDE DEF on, n
  <2>2. shape.height[n] = f.level + 1
    <3>1. n \in Elements /\ shape.height[n] > f.level
      BY <1>3, <1>7, <1>9
    <3>2. shape.height[n] \in Int /\ f.level \in Int
      BY <1>6, <3>1
    <3> QED BY <3>1, <3>2, <1>9
  <2>3. PICK V \in SUBSET L : IF f.seen = Null THEN V = {} ELSE Passed(V, f, shape, bonds)
    BY <1>5
  <2>4. PICK W \in SUBSET L : W = V \cup {f.at}
    BY <1>4
  <2>5. seen \in W /\ f.seen \in Int /\ f.at \in Int /\ seen \in Int
    <3>1. f.seen \in Ref /\ Null \in Int
      BY <1>3 DEF Frame, Null
    <3>2. f.seen # Null => f.seen \in V
      BY <2>3 DEF Passed
    <3> QED BY <3>1, <3>2, <2>4, <1>3, <1>6 DEF Ref
  <2>6. seen <= f.at /\ (f.seen # Null => seen <= f.seen)
    BY <2>5
  <2>7. ASSUME NEW z \in V
        PROVE  /\ seen <= z /\ shape.height[z] = f.level + 1
               /\ shape.right[f.level][z] \in W /\ Spanned(shape, bonds, f.level, z)
    <3>1. f.seen # Null /\ Passed(V, f, shape, bonds)
      BY <2>3
    <3>2. /\ f.seen <= z /\ shape.height[z] = f.level + 1
          /\ shape.right[f.level][z] \in V \cup {f.at} /\ Spanned(shape, bonds, f.level, z)
      BY <3>1 DEF Passed
    <3>3. z \in Int
      BY <1>6
    <3>4. seen <= z
      <4> HIDE DEF seen
      <4> QED BY <2>5, <2>6, <3>1, <3>2, <3>3
    <3> QED BY <3>2, <3>4, <2>4
  <2> HIDE DEF seen
  <2>8. Passed(W, on, shape, bonds)
    <3>1. n = shape.right[f.level][f.at] /\ Spanned(shape, bonds, f.level, f.at)
      BY <1>3, <1>9
    <3>2. \A z \in W : /\ seen <= z /\ shape.height[z] = f.level + 1
                       /\ shape.right[f.level][z] \in W \cup {n}
                       /\ Spanned(shape, bonds, f.level, z)
      BY <1>4, <2>4, <2>6, <2>7, <3>1
    <3> QED BY <2>1, <2>5, <3>2 DEF Passed
  <2>9. SearchKnows(on, shape, bonds)
    BY <1>4, <1>7, <1>9, <2>1, <2>2, <2>8 DEF SearchKnows
  <2> QED BY <1>1, <1>9, <2>9, SearchStep
<1>10. CASE f.seen = f.at /\ Becomes(t, end)
  <2>1. end.pc = "done" /\ end.from = f.from /\ end.result = f.seen
    BY <1>3 DEF Frame
  <2>2. f.seen # Null
    BY <1>3, <1>6, <1>10
  <2>3. PICK W \in SUBSET L : Passed(W, f, shape, bonds)
    BY <1>5, <2>2
  <2>4. \A z \in W : /\ f.seen <= z /\ shape.height[z] = f.level + 1
                     /\ shape.right[f.level][z] \in W /\ Spanned(shape, bonds, f.level, z)
    BY <2>3, <1>10 DEF Passed
  <2>5. f.seen \in W
    BY <2>3 DEF Passed
  <2>6. Representative(shape, bonds, f.from) = f.seen
    BY <1>3, <1>4, <2>4, <2>5, LowestOfRing
  <2> HIDE DEF end
  <2>7. SearchKnows(end, shape, bonds)
    BY <2>1, <2>6 DEF SearchKnows, FindPCs
  <2> QED BY <1>1, <1>10, <2>7, SearchStep
<1>11. CASE n = Null /\ f.seen # f.at /\ Becomes(t, back)
  <2>1. /\ back.pc = "FindBackward" /\ back.from = f.from /\ back.at = f.at
        /\ back.level = f.level
    BY <1>3 DEF Frame
  <2>2. /\ Reached(RightOf(shape, bonds), f.at) \subseteq shape.span[f.level][f.at]
        /\ \E e \in Reached(RightOf(shape, bonds), f.at) : e \notin bonds
    BY <1>3, <1>4, <1>6, <1>11, EndsWithin
  <2>3. ~(L \subseteq bonds)
    <3>1. Reached(RightOf(shape, bonds), f.at) \subseteq ListOf(shape, bonds, f.at)
      BY DEF ListOf
    <3>2. ListOf(shape, bonds, f.at) = L
      BY <1>3, <1>4, OneList
    <3> QED BY <2>2, <3>1, <3>2
  <2>4. \A z \in Reached(RightOf(shape, bonds), f.at) : ~(shape.height[z] > f.level + 1)
    <3>0. shape.height[f.at] > f.level
      BY <1>4, <1>6
    <3>1. Skips(shape, f.level, f.at)
      BY <1>3, <3>0, Skipped
    <3>2. \A z \in shape.span[f.level][f.at] : z \in Elements /\ (z = f.at \/ ~(shape.height[z] > f.level))
      BY <3>1 DEF Skips
    <3>3. \A z \in shape.span[f.level][f.at] : ~(shape.height[z] > f.level + 1)
      <4> SUFFICES ASSUME NEW z \in shape.span[f.level][f.at]
                   PROVE  ~(shape.height[z] > f.level + 1)
        OBVIOUS
      <4>1. shape.height[z] \in Int /\ (z = f.at \/ ~(shape.height[z] > f.level))
        BY <3>2, <1>6
      <4> QED BY <4>1, <1>4, <1>6
    <3> QED BY <3>3, <2>2
  <2> HIDE DEF back, n
  <2>5. SearchKnows(back, shape, bonds)
    BY <1>4, <2>1, <2>3, <2>4 DEF SearchKnows
  <2> QED BY <1>1, <1>11, <2>5, SearchStep
<1> QED BY <1>2, <1>8, <1>9, <1>10, <1>11

LEMMA FindBackwardKnows ==
  ASSUME IInv, LinkInv, BarrierInv, FindInv, NEW t \in Threads, FindBackward(t)
  PROVE  FindInv'
<1> DEFINE f == frame[t]
           n == ReadPrev(t, f.level, f.at)
           R == RightOf(shape, bonds)
           L == ListOf(shape, bonds, f.from)
           on == [f EXCEPT !.at = n, !.level = shape.height[n] - 1]
           end == [f EXCEPT !.pc = "done", !.result = f.at]
<1>1. f.pc = "FindBackward" /\ UNCHANGED <<phase, shape, bonds>>
  BY DEF FindBackward, caller
<1>2. \/ n # Null /\ Becomes(t, on)
      \/ n = Null /\ Becomes(t, end)
  BY DEF FindBackward
<1>3. /\ phase = "find" /\ shape \in Shapes /\ bonds \in SUBSET Elements
      /\ f \in Frame /\ f.level \in Level /\ f.at \in Elements
      /\ SearchKnows(f, shape, bonds)
      /\ n = BackLinksOf(shape, bonds)[f.level][f.at]
      /\ n # Null => /\ n \in Elements /\ shape.right[f.level][n] = f.at
                     /\ Spanned(shape, bonds, f.level, n)
  <2>1. frame[t].pc \in FindPCs
    BY <1>1 DEF FindPCs
  <2> QED BY <2>1, SearchReads
<1>4. /\ f.from \in Elements /\ f.at \in L /\ shape.height[f.at] = f.level + 1
      /\ ~(L \subseteq bonds)
      /\ \A z \in Reached(R, f.at) : ~(shape.height[z] > f.level + 1)
  BY <1>1, <1>3 DEF SearchKnows, FindPCs
<1>5. /\ L \in SUBSET Elements /\ f.level \in Int
      /\ \A y \in Elements : shape.height[y] \in Int
  <2>1. L \in SUBSET Elements
    BY <1>3, <1>4, ListLeast
  <2>2. \A y \in Elements : shape.height[y] \in Int
    BY <1>3, Basics, ShapeFacts
  <2>3. f.level \in Int
    <3>1. f.level \in Level /\ Level \subseteq Int
      BY <1>3, Basics
    <3> QED BY <3>1
  <2> QED BY <2>1, <2>2, <2>3
<1>6. CASE n # Null /\ Becomes(t, on)
  <2>1. /\ on.pc = "FindBackward" /\ on.from = f.from /\ on.at = n
        /\ on.level = shape.height[n] - 1
    BY <1>1, <1>3 DEF Frame
  <2> HIDE DEF on, n, L, R
  <2>2. /\ shape.height[n] > f.level /\ f.at \in Reached(R, n)
        /\ Reached(R, n) \subseteq shape.span[f.level][n] \cup Reached(R, f.at)
    BY <1>3, <1>6, LinkReaches DEF R
  <2>3. n \in L
    <3>1. f.at \in ListOf(shape, bonds, n)
      BY <2>2 DEF ListOf, R
    <3>2. ListOf(shape, bonds, f.at) = ListOf(shape, bonds, n)
      BY <1>3, <1>6, <3>1, OneList
    <3>3. ListOf(shape, bonds, f.at) = L
      BY <1>3, <1>4, OneList DEF L
    <3>4. n \in ListOf(shape, bonds, n)
      BY <1>3, <1>6, ListLeast
    <3> QED BY <1>3, <1>6, <3>2, <3>3, <3>4
  <2>4. \A z \in Reached(R, n) : ~(shape.height[z] > shape.height[n])
    <3>1. Skips(shape, f.level, n)
      BY <1>3, <1>6, <2>2, Skipped
    <3>2. \A z \in shape.span[f.level][n] : z \in Elements /\ (z = n \/ ~(shape.height[z] > f.level))
      BY <3>1 DEF Skips
    <3>3. Reached(R, f.at) \in SUBSET Elements
      BY <1>3, Neighbours, ReachedLeast DEF R
    <3>4. shape.height[n] \in Int /\ n \in Elements
      BY <1>3, <1>5, <1>6
    <3>5. \A z \in shape.span[f.level][n] : ~(shape.height[z] > shape.height[n])
      BY <3>2, <3>4, <2>2, <1>5
    <3>6. \A z \in Reached(R, f.at) : ~(shape.height[z] > shape.height[n])
      BY <3>3, <3>4, <2>2, <1>4, <1>5
    <3> QED BY <3>5, <3>6, <2>2
  <2>5. shape.height[n] = (shape.height[n] - 1) + 1
    <3>1. n \in Elements
      BY <1>3, <1>6
    <3>2. shape.height[n] \in Int
      BY <1>5, <3>1
    <3> QED BY <3>2
  <2>6. SearchKnows(on, shape, bonds)
    BY <1>4, <2>1, <2>3, <2>4, <2>5 DEF SearchKnows, L, R
  <2> QED BY <1>1, <1>6, <2>6, SearchStep
<1>7. CASE n = Null /\ Becomes(t, end)
  <2>1. end.pc = "done" /\ end.from = f.from /\ end.result = f.at
    BY <1>3 DEF Frame
  <2>2. Representative(shape, bonds, f.from) = f.at
    BY <1>3, <1>4, <1>7, LeftmostTallest
  <2> HIDE DEF end
  <2>3. SearchKnows(end, shape, bonds)
    BY <2>1, <2>2 DEF SearchKnows, FindPCs
  <2> QED BY <1>1, <1>7, <2>3, SearchStep
<1> QED BY <1>2, <1>6, <1>7

LEMMA IdleKnows ==
  ASSUME NEW s, NEW B
  PROVE  SearchKnows(Idle, s, B)
BY DEF SearchKnows, Idle, FindPCs

(* Joins and splits are not searches.                                      *)
LEMMA OtherPhases ==
  ASSUME LinkInv, NEW t \in Threads,
         \/ frame[t].pc \in JoinPCs \cup SplitPCs /\ phase' = phase
         \/ phase \in {"join", "split"} /\ phase' = phase
  PROVE  FindInv'
BY DEF LinkInv, InPhase, FindInv

LEMMA NextKnows ==
  IInv /\ LinkInv /\ BarrierInv /\ FindInv /\ [Next]_vars => FindInv'
<1> SUFFICES ASSUME IInv, LinkInv, BarrierInv, FindInv, [Next]_vars PROVE FindInv'
  OBVIOUS
<1>1. ASSUME NEW t \in Threads,
             \/ JoinTest(t) \/ JoinNext(t) \/ JoinPrev(t) \/ JoinLeft(t) \/ JoinRight(t)
             \/ SplitTest(t) \/ SplitNext(t) \/ SplitPrev(t) \/ SplitLeft(t)
      PROVE  FindInv'
  <2>1. frame[t].pc \in JoinPCs \cup SplitPCs /\ phase' = phase
    BY <1>1 DEF JoinTest, JoinNext, JoinPrev, JoinLeft, JoinRight, SplitTest, SplitNext,
                SplitPrev, SplitLeft, JoinPCs, SplitPCs, caller
  <2> QED BY <2>1, OtherPhases
<1>2. ASSUME NEW t \in Threads, Return(t) PROVE FindInv'
  <2>1. UNCHANGED <<phase, shape, bonds>> /\ Becomes(t, Idle)
    BY <1>2 DEF Return
  <2> QED BY <2>1, IdleKnows, SearchStep
<1>3. ASSUME NEW t \in Threads, Flush(t) PROVE FindInv'
  <2>1. frame' = frame /\ UNCHANGED <<phase, shape, bonds>>
    BY <1>3 DEF Flush, caller
  <2> QED BY <2>1 DEF FindInv
<1>4. ASSUME NEW t \in Threads, NEW x \in Elements, Start(t, x) PROVE FindInv'
  <2>1. CASE StartJoin(t, x)
    BY <2>1, OtherPhases DEF StartJoin
  <2>2. CASE StartSplit(t, x)
    BY <2>2, OtherPhases DEF StartSplit
  <2>3. CASE StartFind(t, x)
    BY <2>3, StartFindKnows
  <2> QED BY <1>4, <2>1, <2>2, <2>3 DEF Start
<1>5. ASSUME NEW p \in {"join", "split", "find"}, NEW s \in Shapes, BeginPhase(p, s)
      PROVE  FindInv'
  <2>1. phase = "quiet" /\ frame' = frame
    BY <1>5 DEF BeginPhase
  <2>2. \A t \in Threads : frame[t] = Idle
    BY <2>1 DEF IInv, Quiet
  <2> QED BY <2>1, <2>2, IdleKnows DEF FindInv
<1>6. CASE EndPhase
  BY <1>6 DEF EndPhase, FindInv
<1>7. CASE UNCHANGED vars
  BY <1>7 DEF vars, caller, FindInv
<1>8. ASSUME NEW t \in Threads, Step(t) PROVE FindInv'
  BY <1>8, <1>1, <1>2, FindForwardKnows, FindBackwardKnows DEF Step
<1> QED BY <1>3, <1>4, <1>5, <1>6, <1>7, <1>8 DEF Next

(* A search stays in the list it was called on, and knows what its steps   *)
(* have told it, at every moment of every run (FindRepresentative).       *)
THEOREM FindInvariance == Spec => [](IInv /\ LinkInv /\ BarrierInv /\ FindInv)
<1>1. Spec => [](IInv /\ LinkInv /\ BarrierInv) /\ Init /\ [][Next]_vars
  BY BarrierInvariance DEF Spec
<1>2. Init => FindInv
  BY DEF Init, FindInv
<1>3. [](IInv /\ LinkInv /\ BarrierInv) /\ Init /\ [][Next]_vars => []FindInv
  BY <1>2, NextKnows, PTL
<1> QED BY <1>1, <1>3, PTL

(* FindRepresentative returns the representative of the list it is called  *)
(* on, from every element of every list, whatever the shape of its towers. *)
THEOREM RepresentativeFound == Spec => []FoundRepresentative
<1>1. FindInv => FoundRepresentative
  BY DEF FindInv, SearchKnows, FoundRepresentative
<1> QED BY <1>1, FindInvariance, PTL
====
