---- MODULE ParallelSkipList ----
(***************************************************************************)
(* The phase-concurrent skip list of ElementBase (skip_list_base.hpp).     *)
(*                                                                         *)
(* Joins run concurrently with joins, splits with splits and searches with *)
(* searches; a barrier (the end of a parallel_for) separates the phases.   *)
(* Every read, CAS and store of a neighbour pointer is a step of its own.  *)
(*                                                                         *)
(* `shape` is the caller's side: the arrangement that the joins of a phase *)
(* build up or that its splits take apart.  It says which links the        *)
(* elements would have at every level if all of them were joined.  `bonds` *)
(* are the elements that the caller has joined to their right neighbour in *)
(* that arrangement and not split off again.                               *)
(***************************************************************************)
EXTENDS SkipListGeometry

CONSTANT Threads   \* the workers

VARIABLES
  next, prev,   \* neighbors_[level].next and .prev of every element
  pending,      \* the store of a thread that is still in its store buffer
  frame,        \* the call a thread executes: position and local variables
  phase,        \* what the current parallel_for runs
  shape, bonds, \* the caller's arrangement and what is joined in it
  before,       \* bonds at the start of the phase
  answers       \* Split calls on an element that returned a successor

shared == <<next, prev>>
caller == <<phase, shape, bonds, before, answers>>
vars == <<next, prev, pending, frame, caller>>

NoStore == [level |-> 0, element |-> Null, value |-> Null]

PC == {"idle", "done",
       "JoinTest", "JoinNext", "JoinPrev", "JoinLeft", "JoinRight",
       "SplitTest", "SplitNext", "SplitPrev", "SplitLeft",
       "FindForward", "FindBackward"}

Frame == [pc : PC,
          from : Ref,        \* the element the call was made on
          level : 0 .. MaxHeight,
          left : Ref,        \* Join's left; Split's current_element
          right : Ref,       \* Join's right; Split's next
          at : Ref,          \* current_element of a search
          seen : Ref,        \* FindRepresentative's seen_element
          result : Ref]      \* Split's successor; the representative found

Idle == [pc |-> "idle", from |-> Null, level |-> 0, left |-> Null,
         right |-> Null, at |-> Null, seen |-> Null, result |-> Null]

TypeOK ==
  /\ next \in Links
  /\ prev \in Links
  /\ pending \in [Threads -> [level : Level, element : Ref, value : Ref]]
  /\ frame \in [Threads -> Frame]
  /\ phase \in {"quiet", "join", "split", "find"}
  /\ shape \in ShapeType
  /\ bonds \in SUBSET Elements
  /\ before \in SUBSET Elements
  /\ answers \in [Elements -> Nat]

Quiet == /\ \A t \in Threads : frame[t] = Idle
         /\ \A t \in Threads : pending[t] = NoStore

(* A call's frame moves on; everything the caller keeps stays.             *)
Becomes(t, f) == frame' = [frame EXCEPT ![t] = f]

(* x86-TSO: a thread reads its own pending store, the others do not.       *)
ReadPrev(t, l, x) ==
  IF pending[t].level = l /\ pending[t].element = x THEN pending[t].value
  ELSE prev[l][x]

(* A CAS on an x86 drains the store buffer of the thread that executes it. *)
Drained(t) == pending[t] = NoStore

Flush(t) ==
  /\ pending[t] # NoStore
  /\ prev' = [prev EXCEPT ![pending[t].level][pending[t].element]
                = pending[t].value]
  /\ pending' = [pending EXCEPT ![t] = NoStore]
  /\ UNCHANGED <<next, frame, caller>>

----
(* Join *)

StartJoin(t, x) ==
  /\ phase = "join"
  /\ frame[t] = Idle
  /\ shape.right[0][x] # Null
  /\ x \notin bonds
  /\ bonds' = bonds \cup {x}
  /\ Becomes(t, [Idle EXCEPT !.pc = "JoinTest", !.from = x, !.left = x,
                             !.right = shape.right[0][x]])
  /\ UNCHANGED <<shared, pending, phase, shape, before, answers>>

JoinTest(t) ==
  LET f == frame[t]
      unlinked == /\ f.left # Null
                  /\ f.right # Null
                  /\ next[f.level][f.left] = Null
  IN
  /\ f.pc = "JoinTest"
  /\ \/ unlinked /\ Becomes(t, [f EXCEPT !.pc = "JoinNext"])
     \/ ~unlinked /\ Becomes(t, [f EXCEPT !.pc = "done"])
  /\ UNCHANGED <<shared, pending, caller>>

JoinNext(t) ==
  LET f == frame[t] IN
  /\ f.pc = "JoinNext"
  /\ Drained(t)
  /\ \/ /\ next[f.level][f.left] = Null
        /\ next' = [next EXCEPT ![f.level][f.left] = f.right]
        /\ Becomes(t, [f EXCEPT !.pc = "JoinPrev"])
     \/ /\ next[f.level][f.left] # Null
        /\ Becomes(t, [f EXCEPT !.pc = "done"])
        /\ UNCHANGED next
  /\ UNCHANGED <<prev, pending, caller>>

(* Mistake: a plain store in place of the CAS of prev.                     *)
JoinPrevStored(t) ==
  LET f == frame[t] IN
  /\ f.pc = "JoinPrev"
  /\ Drained(t)
  /\ pending' = [pending EXCEPT ![t] = [level |-> f.level, element |-> f.right,
                                        value |-> f.left]]
  /\ Becomes(t, [f EXCEPT !.pc = "JoinLeft", !.at = f.left])
  /\ UNCHANGED <<shared, caller>>

(* The result of CASPrev is not looked at.                                 *)
JoinPrev(t) ==
  LET f == frame[t] IN
  /\ f.pc = "JoinPrev"
  /\ Drained(t)
  /\ prev' = [prev EXCEPT ![f.level][f.right] = IF @ = Null THEN f.left ELSE @]
  /\ Becomes(t, [f EXCEPT !.pc = "JoinLeft", !.at = f.left])
  /\ UNCHANGED <<next, pending, caller>>

(* Mistake: the search does not stop when it is back at its start.         *)
SearchEndsAtNull(f, start, n) == shape.height[f.at] > f.level + 1 \/ n = Null

(* One round of FindLeftParent, or of FindRightParent, started at `start`  *)
(* and now at f.at, where `n` is the neighbour it reads: it returns the    *)
(* parent or null, or it goes on to n.                                     *)
SearchEnds(f, start, n) ==
  shape.height[f.at] > f.level + 1 \/ n \in {Null, start}

(* Mistake: `>=` for `>`.                                                  *)
ParentAtSameLevel(f) ==
  IF shape.height[f.at] >= f.level + 1 THEN f.at ELSE Null

Parent(f) == IF shape.height[f.at] > f.level + 1 THEN f.at ELSE Null

JoinLeft(t) ==
  LET f == frame[t]
      n == ReadPrev(t, f.level, f.at)
  IN
  /\ f.pc = "JoinLeft"
  /\ \/ /\ SearchEnds(f, f.left, n)
        /\ Becomes(t, [f EXCEPT !.pc = "JoinRight", !.left = Parent(f),
                                !.at = f.right])
     \/ /\ ~SearchEnds(f, f.left, n)
        /\ Becomes(t, [f EXCEPT !.at = n])
  /\ UNCHANGED <<shared, pending, caller>>

(* Mistake: the right parent is searched to the left.                      *)
JoinRightBackward(t) ==
  LET f == frame[t]
      n == ReadPrev(t, f.level, f.at)
  IN
  /\ f.pc = "JoinRight"
  /\ \/ /\ SearchEnds(f, f.right, n)
        /\ Becomes(t, [f EXCEPT !.pc = "JoinTest", !.right = Parent(f),
                                !.at = Null, !.level = @ + 1])
     \/ /\ ~SearchEnds(f, f.right, n)
        /\ Becomes(t, [f EXCEPT !.at = n])
  /\ UNCHANGED <<shared, pending, caller>>

JoinRight(t) ==
  LET f == frame[t]
      n == next[f.level][f.at]
  IN
  /\ f.pc = "JoinRight"
  /\ \/ /\ SearchEnds(f, f.right, n)
        /\ Becomes(t, [f EXCEPT !.pc = "JoinTest", !.right = Parent(f),
                                !.at = Null, !.level = @ + 1])
     \/ /\ ~SearchEnds(f, f.right, n)
        /\ Becomes(t, [f EXCEPT !.at = n])
  /\ UNCHANGED <<shared, pending, caller>>

----
(* Split *)

(* Several threads may split the same element.                             *)
StartSplit(t, x) ==
  /\ phase = "split"
  /\ frame[t] = Idle
  /\ bonds' = bonds \ {x}
  /\ Becomes(t, [Idle EXCEPT !.pc = "SplitTest", !.from = x, !.left = x])
  /\ UNCHANGED <<shared, pending, phase, shape, before, answers>>

(* Mistake: the back link is cleared before the CAS of next.               *)
SplitTestClearsPrev(t) ==
  LET f == frame[t]
      n == IF f.left = Null THEN Null ELSE next[f.level][f.left]
  IN
  /\ f.pc = "SplitTest"
  /\ \/ /\ n # Null
        /\ prev' = [prev EXCEPT ![f.level][n] = Null]
        /\ Becomes(t, [f EXCEPT !.pc = "SplitNext", !.right = n])
     \/ /\ n = Null
        /\ Becomes(t, [f EXCEPT !.pc = "done", !.right = Null])
        /\ UNCHANGED prev
  /\ UNCHANGED <<next, pending, caller>>

SplitTest(t) ==
  LET f == frame[t]
      n == IF f.left = Null THEN Null ELSE next[f.level][f.left]
  IN
  /\ f.pc = "SplitTest"
  /\ \/ /\ n # Null
        /\ Becomes(t, [f EXCEPT !.pc = "SplitNext", !.right = n])
     \/ /\ n = Null
        /\ Becomes(t, [f EXCEPT !.pc = "done", !.right = Null])
  /\ UNCHANGED <<shared, pending, caller>>

(* Mistake: next is cleared by a store, whatever it holds by now.          *)
SplitNextStored(t) ==
  LET f == frame[t] IN
  /\ f.pc = "SplitNext"
  /\ Drained(t)
  /\ next' = [next EXCEPT ![f.level][f.left] = Null]
  /\ Becomes(t, [f EXCEPT !.pc = "SplitPrev",
                          !.result = IF f.level = 0 THEN f.right ELSE @])
  /\ UNCHANGED <<prev, pending, caller>>

(* Mistake: the successor is taken from whatever level is cut last.        *)
SplitNextAnyLevel(t) ==
  LET f == frame[t] IN
  /\ f.pc = "SplitNext"
  /\ Drained(t)
  /\ \/ /\ next[f.level][f.left] = f.right
        /\ next' = [next EXCEPT ![f.level][f.left] = Null]
        /\ Becomes(t, [f EXCEPT !.pc = "SplitPrev", !.result = f.right])
     \/ /\ next[f.level][f.left] # f.right
        /\ Becomes(t, [f EXCEPT !.pc = "done"])
        /\ UNCHANGED next
  /\ UNCHANGED <<prev, pending, caller>>

SplitNext(t) ==
  LET f == frame[t] IN
  /\ f.pc = "SplitNext"
  /\ Drained(t)
  /\ \/ /\ next[f.level][f.left] = f.right
        /\ next' = [next EXCEPT ![f.level][f.left] = Null]
        /\ Becomes(t, [f EXCEPT !.pc = "SplitPrev",
                                !.result = IF f.level = 0 THEN f.right ELSE @])
     \/ /\ next[f.level][f.left] # f.right
        /\ Becomes(t, [f EXCEPT !.pc = "done"])
        /\ UNCHANGED next
  /\ UNCHANGED <<prev, pending, caller>>

(* Mistake: the level is incremented before the back link is cleared.      *)
SplitPrevLevelUp(t) ==
  LET f == frame[t] IN
  /\ f.pc = "SplitPrev"
  /\ Drained(t)
  /\ pending' = [pending EXCEPT ![t] = [level |-> f.level + 1,
                                        element |-> f.right, value |-> Null]]
  /\ Becomes(t, [f EXCEPT !.pc = "SplitLeft", !.at = f.left])
  /\ UNCHANGED <<shared, caller>>

(* Mistake: the parent is searched from the successor.                     *)
SplitPrevFromNext(t) ==
  LET f == frame[t] IN
  /\ f.pc = "SplitPrev"
  /\ Drained(t)
  /\ pending' = [pending EXCEPT ![t] = [level |-> f.level, element |-> f.right,
                                        value |-> Null]]
  /\ Becomes(t, [f EXCEPT !.pc = "SplitLeft", !.at = f.right])
  /\ UNCHANGED <<shared, caller>>

(* A plain store: it goes to the store buffer, and Flush performs it.      *)
SplitPrev(t) ==
  LET f == frame[t] IN
  /\ f.pc = "SplitPrev"
  /\ Drained(t)
  /\ pending' = [pending EXCEPT ![t] = [level |-> f.level, element |-> f.right,
                                        value |-> Null]]
  /\ Becomes(t, [f EXCEPT !.pc = "SplitLeft", !.at = f.left])
  /\ UNCHANGED <<shared, caller>>

SplitLeft(t) ==
  LET f == frame[t]
      n == ReadPrev(t, f.level, f.at)
  IN
  /\ f.pc = "SplitLeft"
  /\ \/ /\ SearchEnds(f, f.left, n)
        /\ Becomes(t, [f EXCEPT !.pc = "SplitTest", !.left = Parent(f),
                                !.at = Null, !.level = @ + 1])
     \/ /\ ~SearchEnds(f, f.left, n)
        /\ Becomes(t, [f EXCEPT !.at = n])
  /\ UNCHANGED <<shared, pending, caller>>

----
(* FindRepresentative *)

StartFind(t, x) ==
  /\ phase = "find"
  /\ frame[t] = Idle
  /\ Becomes(t, [Idle EXCEPT !.pc = "FindForward", !.from = x, !.at = x,
                             !.level = shape.height[x] - 1])
  /\ UNCHANGED <<shared, pending, caller>>

(* Mistake: seen_element is the first one seen, not the lowest address.    *)
FindForwardFirstSeen(t) ==
  LET f == frame[t]
      n == next[f.level][f.at]
  IN
  /\ f.pc = "FindForward"
  /\ \/ /\ n # Null
        /\ f.seen # f.at
        /\ IF f.level < shape.height[n] - 1
           THEN Becomes(t, [f EXCEPT !.at = n, !.seen = Null,
                                     !.level = shape.height[n] - 1])
           ELSE Becomes(t, [f EXCEPT !.at = n,
                                     !.seen = IF @ = Null THEN f.at ELSE @])
     \/ /\ f.seen = f.at
        /\ Becomes(t, [f EXCEPT !.pc = "done", !.result = f.seen])
     \/ /\ n = Null
        /\ f.seen # f.at
        /\ Becomes(t, [f EXCEPT !.pc = "FindBackward"])
  /\ UNCHANGED <<shared, pending, caller>>

(* A round of the loop that walks up while moving forward, or its end.     *)
FindForward(t) ==
  LET f == frame[t]
      n == next[f.level][f.at]
  IN
  /\ f.pc = "FindForward"
  /\ \/ /\ n # Null
        /\ f.seen # f.at
        /\ IF f.level < shape.height[n] - 1
           THEN Becomes(t, [f EXCEPT !.at = n, !.seen = Null,
                                     !.level = shape.height[n] - 1])
           ELSE Becomes(t, [f EXCEPT !.at = n,
                                     !.seen = IF @ = Null \/ f.at < @
                                              THEN f.at ELSE @])
     \/ /\ f.seen = f.at
        /\ Becomes(t, [f EXCEPT !.pc = "done", !.result = f.seen])
     \/ /\ n = Null
        /\ f.seen # f.at
        /\ Becomes(t, [f EXCEPT !.pc = "FindBackward"])
  /\ UNCHANGED <<shared, pending, caller>>

(* A round of the loop that walks up while moving backward, or its end.    *)
FindBackward(t) ==
  LET f == frame[t]
      n == ReadPrev(t, f.level, f.at)
  IN
  /\ f.pc = "FindBackward"
  /\ \/ /\ n # Null
        /\ Becomes(t, [f EXCEPT !.at = n, !.level = shape.height[n] - 1])
     \/ /\ n = Null
        /\ Becomes(t, [f EXCEPT !.pc = "done", !.result = f.at])
  /\ UNCHANGED <<shared, pending, caller>>

----

(* A call hands its result to the caller.                                  *)
Return(t) ==
  LET f == frame[t] IN
  /\ f.pc = "done"
  /\ answers' = IF phase = "split" /\ f.result # Null
                THEN [answers EXCEPT ![f.from] = @ + 1]
                ELSE answers
  /\ Becomes(t, Idle)
  /\ UNCHANGED <<shared, pending, phase, shape, bonds, before>>

(* The caller starts a parallel_for.  It may aim at any arrangement that   *)
(* the lists it has are part of.                                           *)
BeginPhase(p, s) ==
  /\ phase = "quiet"
  /\ s.height = shape.height
  /\ next = LinksOf(s, bonds)
  /\ prev = BackLinksOf(s, bonds)
  /\ phase' = p
  /\ shape' = s
  /\ before' = bonds
  /\ answers' = [x \in Elements |-> 0]
  /\ UNCHANGED <<shared, pending, frame, bonds>>

(* The barrier at its end: all calls have returned and all stores are      *)
(* visible.                                                                *)
EndPhase ==
  /\ phase # "quiet"
  /\ Quiet
  /\ phase' = "quiet"
  /\ UNCHANGED <<shared, pending, frame, shape, bonds, before, answers>>

Init ==
  /\ next = [l \in Level |-> [x \in Elements |-> Null]]
  /\ prev = [l \in Level |-> [x \in Elements |-> Null]]
  /\ pending = [t \in Threads |-> NoStore]
  /\ frame = [t \in Threads |-> Idle]
  /\ phase = "quiet"
  /\ shape \in Shapes
  /\ bonds = {}
  /\ before = {}
  /\ answers = [x \in Elements |-> 0]

(* What a thread does within a call.                                       *)
Step(t) ==
  \/ JoinTest(t) \/ JoinNext(t) \/ JoinPrev(t) \/ JoinLeft(t) \/ JoinRight(t)
  \/ SplitTest(t) \/ SplitNext(t) \/ SplitPrev(t) \/ SplitLeft(t)
  \/ FindForward(t) \/ FindBackward(t)
  \/ Return(t)

Start(t, x) == StartJoin(t, x) \/ StartSplit(t, x) \/ StartFind(t, x)

Next ==
  \/ \E t \in Threads : Step(t) \/ Flush(t)
  \/ \E t \in Threads, x \in Elements : Start(t, x)
  \/ \E p \in {"join", "split", "find"}, s \in Shapes : BeginPhase(p, s)
  \/ EndPhase

Spec == Init /\ [][Next]_vars

(* Workers are preempted but never stopped, and a store buffer drains.     *)
FairSpec == Spec /\ \A t \in Threads : WF_vars(Step(t)) /\ WF_vars(Flush(t))

----

(* The links that the caller has asked for so far.                         *)
Requested == LinksOf(shape, bonds)

(* Whatever element and level a thread is about to read or write, the      *)
(* element is not null and its neighbour array reaches that level          *)
(* (neighbors_ has height_ entries).                                       *)
InBounds ==
  \A t \in Threads :
    LET f == frame[t]
        Reaches(x) == x # Null /\ shape.height[x] > f.level
    IN /\ f.pc \in {"JoinNext", "JoinPrev"} => Reaches(f.left) /\ Reaches(f.right)
       /\ f.pc \in {"SplitNext", "SplitPrev"} => Reaches(f.left) /\ Reaches(f.right)
       /\ f.pc \in {"JoinTest", "SplitTest"} /\ f.left # Null => Reaches(f.left)
       /\ f.pc \in {"JoinLeft", "JoinRight", "SplitLeft",
                    "FindForward", "FindBackward"} => Reaches(f.at)

(* No call, however it interleaves with the others, ever links two         *)
(* elements that are not neighbours at that level of the arrangement:      *)
(* FindLeftParent and FindRightParent never pair the wrong parents, even   *)
(* when they run over links that other calls are about to change.          *)
LinksInShape ==
  \A l \in Level : \A x \in Elements :
    /\ next[l][x] \in {Null, shape.right[l][x]}
    /\ prev[l][x] \in {Null, shape.left[l][x]}

(* At a barrier the list is exactly the skip list of what was joined, at   *)
(* every level and in both directions: concurrent Joins have not           *)
(* collectively missed a link at a higher level (the worry of the comment  *)
(* in Join), and Splits have left none behind (the comment in Split).      *)
QuietIsCanonical ==
  phase = "quiet" => /\ next = Requested
                     /\ prev = BackLinksOf(shape, bonds)

(* A join phase never links over elements nobody has asked to join, and a  *)
(* split phase never cuts a link that skips no split element, although     *)
(* Split searches parents over paths that other Splits have already cut.   *)
NeverBeyondRequest ==
  \A l \in Level : \A x \in Elements :
    /\ phase = "join" /\ next[l][x] # Null => Requested[l][x] = next[l][x]
    /\ phase = "split" /\ Requested[l][x] # Null => next[l][x] = Requested[l][x]

(* Whatever has been joined can be walked forward as soon as it can be     *)
(* walked backward, and whatever is cut is cut in the forward direction    *)
(* first: no thread finds x through a back link of an element that x no    *)
(* longer (Split), or not yet (Join), leads to.                            *)
PointersPaired ==
  \A l \in Level : \A x, y \in Elements :
    /\ phase = "join" /\ prev[l][y] = x => next[l][x] = y
    /\ phase = "split" /\ next[l][x] = y => prev[l][y] = x

(* Of the Splits of one element, however many run at once, exactly one     *)
(* returns a successor, and it is the element's; none does if the element  *)
(* had no successor.  EulerTourTree relies on it when a batch cuts two     *)
(* adjacent edges.                                                         *)
SplitAnswers ==
  phase = "split" =>
    /\ \A t \in Threads : frame[t].result # Null =>
         frame[t].result = shape.right[0][frame[t].from]
    /\ \A x \in Elements :
         /\ answers[x] <= 1
         /\ Quiet => (answers[x] = 1 <=> x \in before \ bonds)

(* FindRepresentative finds it from every element of every list that       *)
(* joins and splits leave behind, whatever the shape of the towers it      *)
(* walks over; in particular it terminates on cycles (CallsReturn).        *)
FoundRepresentative ==
  \A t \in Threads :
    frame[t].pc = "done" /\ phase = "find" =>
      frame[t].result = Representative(shape, bonds, frame[t].from)

(* Every call returns: no search goes around a cycle for ever, although    *)
(* its start element may be cut out of the cycle while it walks.           *)
CallsReturn ==
  \A t \in Threads : frame[t].pc # "idle" ~> frame[t].pc = "idle"

(* Joins and Splits are atomic: at level 0 the list behaves as if each of  *)
(* them took effect at one instant, a Join with the CAS of its first link, *)
(* a Split with the CAS that removes it or with the read that finds it     *)
(* gone.  Which phase runs and the higher levels are not visible.          *)
CallOf(t) ==
  LET f == frame[t] IN
  IF f.pc = "idle" \/ phase = "find"
  THEN [op |-> "none", x |-> Null, y |-> Null, taken |-> FALSE, result |-> Null]
  ELSE [op |-> phase,
        x |-> f.from,
        y |-> IF phase = "join" THEN shape.right[0][f.from] ELSE Null,
        taken |-> f.level > 0
          \/ f.pc \notin {"JoinTest", "JoinNext", "SplitTest", "SplitNext"},
        result |-> f.result]

Lists == INSTANCE AtomicLists WITH succ <- next[0],
                                   call <- [t \in Threads |-> CallOf(t)]

Implements == Lists!Spec
====
