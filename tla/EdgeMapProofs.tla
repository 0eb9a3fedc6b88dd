---- MODULE EdgeMapProofs ----
EXTENDS EdgeMap, TLAPS

(***************************************************************************)
(* The inductive invariant.  A call has passed over slots that are taken   *)
(* by other keys.  Within a phase nobody empties them or puts its key in   *)
(* them, so what the call knows of them stays true while others work.      *)
(***************************************************************************)
Passed(t) ==
  \A x \in Before(h[t], KeyOf(t)) : table[x].key \notin {empty_key, KeyOf(t)}

InsertOK(t) ==
  /\ call[t].arc \in Keys
  /\ call[t].edge = call[t].arc
  /\ pc[t] \in {"probe", "claim", "store"}
  /\ pc[t] = "probe" => ~InTable(KeyOf(t)) \/ ~Buried
  /\ pc[t] = "claim" => /\ ~InTable(KeyOf(t))
                        /\ Held(h[t]) \/ table[h[t]].key = seen[t]
  /\ pc[t] = "store" => table[h[t]].key = KeyOf(t)

FindOK(t) == pc[t] = "probe" /\ InTable(KeyOf(t))

DeleteOK(t) ==
  /\ call[t].arc \in Keys
  /\ pc[t] \in {"probe", "bury"}
  /\ pc[t] = "bury" => table[h[t]].key = KeyOf(t)

ThreadOK(t) ==
  /\ pc[t] = "idle" <=> ~Busy(t)
  /\ Busy(t) =>
       /\ Passed(t)
       /\ call[t].op = "Insert" => InsertOK(t)
       /\ call[t].op = "Find" => FindOK(t)
       /\ call[t].op = "Delete" => DeleteOK(t)

(* One kind of call at a time, and no key twice unless it is looked up.    *)
PhaseOK ==
  \A t, u \in Threads : t # u /\ Busy(t) /\ Busy(u) =>
    /\ call[t].op = call[u].op
    /\ call[t].op # "Find" => KeyOf(t) # KeyOf(u)

(* EdgeMap::Insert stores under a key the element of that direction.       *)
ValuesOK == \A s \in Slots : Stored(s) => table[s].value = table[s].key

(* The elements of an edge live from the call that inserts it until the    *)
(* call that deletes it.                                                   *)
Doing(op, k) == \E t \in Threads : Busy(t) /\ call[t].op = op /\ KeyOf(t) = k

LiveOK ==
  \A a \in Arcs : a \in live <=>
    /\ InTable(Key(a)) \/ Doing("Insert", Key(a))
    /\ ~Doing("Delete", Key(a))

IInv ==
  /\ TypeOK
  /\ KeysCanBeFound
  /\ \A t \in Threads : ThreadOK(t)
  /\ PhaseOK
  /\ ValuesOK
  /\ LiveOK

----

(* An edge has two directions, of which one is its key.                    *)
LEMMA ArcFacts ==
  /\ Keys \subseteq Arcs
  /\ \A k \in Keys : Key(k) = k
  /\ \A k \in Keys : k # empty_key /\ k # tombstone
  /\ empty_key # tombstone
  /\ \A a \in Arcs :
       /\ Key(a) \in Keys
       /\ Reverse(a) \in Arcs
       /\ Reverse(Reverse(a)) = a
       /\ Reverse(a) # a
       /\ Key(Reverse(a)) = Key(a)
       /\ a = Key(a) \/ a = Reverse(Key(a))
       /\ a[1] > a[2] <=> a # Key(a)
<1>1. \A k \in Keys : /\ k[1] \in Nat /\ k[2] \in Nat /\ k[1] < k[2]
                      /\ k = <<k[1], k[2]>>
  BY KeysOrdered
<1>2. \A k \in Keys : Key(k) = k /\ k # empty_key /\ k # tombstone
  BY <1>1 DEF Key, empty_key, tombstone
<1>3. \A k \in Keys :
        LET r == Reverse(k) IN
        /\ r[1] = k[2] /\ r[2] = k[1]
        /\ Reverse(r) = k /\ r # k /\ Key(r) = k /\ r[1] > r[2]
  BY <1>1 DEF Key, Reverse
<1>4. empty_key # tombstone
  BY DEF empty_key, tombstone
<1>5. ASSUME NEW a \in Arcs
      PROVE  /\ Key(a) \in Keys
             /\ Reverse(a) \in Arcs
             /\ Reverse(Reverse(a)) = a
             /\ Reverse(a) # a
             /\ Key(Reverse(a)) = Key(a)
             /\ a = Key(a) \/ a = Reverse(Key(a))
             /\ a[1] > a[2] <=> a # Key(a)
  <2>1. PICK k \in Keys : a = k \/ a = Reverse(k)
    BY DEF Arcs
  <2>2. k \in Arcs /\ Reverse(k) \in Arcs
    BY DEF Arcs
  <2> QED BY <1>1, <1>2, <1>3, <2>1, <2>2
<1> QED BY <1>2, <1>4, <1>5 DEF Arcs

(* How far a slot is from the first one that is probed for a key.          *)
Distance(s, k) == (s - firstIndex[k]) % Capacity

(* Probing visits the slots in the order of their distance, and begins     *)
(* again after the last one.                                               *)
LEMMA ProbeFacts ==
  ASSUME NEW k \in Keys
  PROVE  /\ firstIndex[k] \in Slots
         /\ Distance(firstIndex[k], k) = 0
         /\ \A s \in Slots :
              /\ Distance(s, k) \in Slots
              /\ incrementIndex(s) \in Slots
              /\ \/ Distance(incrementIndex(s), k) = 0
                 \/ Distance(incrementIndex(s), k) = Distance(s, k) + 1
         /\ \A s, x \in Slots : Distance(s, k) = Distance(x, k) => s = x
<1>1. firstIndex[k] \in Slots
  BY HashesIntoTable
<1>2. \A a \in Int : /\ 0 <= a /\ a < Capacity => a % Capacity = a
                     /\ a < 0 /\ -Capacity <= a => a % Capacity = a + Capacity
  BY TableNotEmpty
<1>3. \A s \in Slots : Distance(s, k) = IF s < firstIndex[k]
                                        THEN s - firstIndex[k] + Capacity
                                        ELSE s - firstIndex[k]
  BY <1>1, <1>2, TableNotEmpty DEF Slots, Distance
<1>4. Capacity % Capacity = 0
  BY TableNotEmpty
<1>5. \A s \in Slots : incrementIndex(s) = IF s = Capacity - 1 THEN 0 ELSE s + 1
  BY <1>2, <1>4, TableNotEmpty DEF Slots, incrementIndex
<1> QED BY <1>1, <1>3, <1>5, TableNotEmpty DEF Slots

(* What is before a slot in the probe order of a key.                      *)
LEMMA BeforeFacts ==
  ASSUME NEW k \in Keys
  PROVE  /\ Before(firstIndex[k], k) = {}
         /\ \A s \in Slots :
              /\ Before(s, k) \subseteq Slots \ {s}
              /\ Before(incrementIndex(s), k) \subseteq Before(s, k) \cup {s}
         /\ \A s, x \in Slots : s = x \/ s \in Before(x, k) \/ x \in Before(s, k)
<1>1. \A s, x \in Slots : x \in Before(s, k) <=> Distance(x, k) < Distance(s, k)
  BY DEF Before, Distance
<1>2. \A s \in Slots : Before(s, k) \subseteq Slots /\ Distance(s, k) \in Int
  BY ProbeFacts, TableNotEmpty DEF Before, Slots
<1>3. \A s \in Slots : Distance(s, k) >= 0
  BY ProbeFacts DEF Slots
<1>4. Before(firstIndex[k], k) = {}
  BY <1>1, <1>2, <1>3, ProbeFacts
<1>5. ASSUME NEW s \in Slots
      PROVE  Before(incrementIndex(s), k) \subseteq Before(s, k) \cup {s}
  <2> SUFFICES ASSUME NEW x \in Slots, x \in Before(incrementIndex(s), k), x # s
               PROVE  x \in Before(s, k)
    BY <1>2, ProbeFacts
  <2>1. Distance(x, k) < Distance(incrementIndex(s), k)
    BY <1>1, ProbeFacts
  <2>2. Distance(x, k) # Distance(s, k)
    BY ProbeFacts
  <2>3. \/ Distance(incrementIndex(s), k) = 0
        \/ Distance(incrementIndex(s), k) = Distance(s, k) + 1
    BY ProbeFacts
  <2>4. /\ Distance(x, k) \in Int /\ Distance(s, k) \in Int
        /\ Distance(x, k) >= 0
    BY <1>2, <1>3
  <2>5. Distance(x, k) < Distance(s, k)
    BY <2>1, <2>2, <2>3, <2>4
  <2> QED BY <1>1, <2>5
<1>6. ASSUME NEW s \in Slots, NEW x \in Slots
      PROVE  s = x \/ s \in Before(x, k) \/ x \in Before(s, k)
  <2>1. Distance(s, k) = Distance(x, k) => s = x
    BY ProbeFacts
  <2>2. Distance(s, k) \in Int /\ Distance(x, k) \in Int
    BY <1>2
  <2> QED BY <1>1, <2>1, <2>2
<1>7. ASSUME NEW s \in Slots
      PROVE  Before(s, k) \subseteq Slots \ {s}
  <2>1. s \notin Before(s, k)
    BY <1>1, <1>2
  <2> QED BY <1>2, <2>1
<1> QED BY <1>4, <1>5, <1>6, <1>7

----

(* What a request says, and what its key is.                               *)
LEMMA CallFacts ==
  ASSUME IInv, NEW t \in Threads, Busy(t)
  PROVE  /\ call[t] \in Requests
         /\ call[t].op \in {"Insert", "Find", "Delete"}
         /\ call[t].arc \in Arcs
         /\ KeyOf(t) = Key(call[t].arc)
         /\ KeyOf(t) \in Keys
         /\ call[t].op # "Find" => KeyOf(t) = call[t].arc
<1>1. call[t] \in Requests
  BY DEF IInv, TypeOK, Busy
<1>2. call[t].op \in {"Insert", "Find", "Delete"} /\ call[t].arc \in Arcs
  BY <1>1 DEF Requests
<1>3. call[t].op # "Find" => call[t].arc \in Keys
  BY <1>2 DEF IInv, ThreadOK, InsertOK, DeleteOK
<1> QED BY <1>1, <1>2, <1>3, ArcFacts DEF KeyOf

(* A call moves on: nothing changes but where its thread is.               *)
LEMMA MoveStep ==
  ASSUME IInv, NEW t \in Threads, Busy(t), NEW p, NEW s \in Slots,
         NEW x \in {empty_key, tombstone},
         p \in {"probe", "claim", "bury"}, pc[t] # "store",
         pc' = [pc EXCEPT ![t] = p],
         h' = [h EXCEPT ![t] = s],
         seen' = [seen EXCEPT ![t] = x],
         reply' = Absent,
         UNCHANGED <<table, call, live>>,
         ThreadOK(t)'
  PROVE  IInv'
<1> USE DEF IInv
<1>1. TypeOK'
  BY DEF TypeOK
<1>2. KeysCanBeFound'
  BY DEF KeysCanBeFound, Held, Before
<1>3. ASSUME NEW u \in Threads PROVE ThreadOK(u)'
  <2>1. CASE u = t
    BY <2>1
  <2>2. CASE u # t
    <3>1. pc'[u] = pc[u] /\ h'[u] = h[u] /\ seen'[u] = seen[u]
      BY <2>2 DEF TypeOK
    <3> QED BY <3>1 DEF ThreadOK, Busy, Passed, InsertOK, FindOK, DeleteOK,
                KeyOf, Before, InTable, Buried, Held
  <2> QED BY <2>1, <2>2
<1>4. PhaseOK'
  BY DEF PhaseOK, Busy, KeyOf
<1>5. ValuesOK'
  <2>1. \A u \in Threads : pc'[u] = "store" => pc[u] = "store" /\ h'[u] = h[u]
    BY DEF TypeOK
  <2>2. \A u \in Threads : pc[u] = "store" => pc'[u] = "store" /\ h'[u] = h[u]
    BY DEF TypeOK
  <2> QED BY <2>1, <2>2 DEF ValuesOK, Stored, Held
<1>6. LiveOK'
  BY DEF LiveOK, InTable, Doing, Busy, KeyOf
<1> QED BY <1>1, <1>2, <1>3, <1>4, <1>5, <1>6

(* What a call may do to the keys: an insert takes a slot that holds no    *)
(* edge, a delete buries its own key.                                      *)
KeyStep(t) ==
  \A x \in Slots :
    \/ table'[x].key = table[x].key
    \/ /\ call[t].op = "Insert" /\ ~Held(x)
       /\ table'[x].key = KeyOf(t)
    \/ /\ call[t].op = "Delete" /\ table[x].key = KeyOf(t)
       /\ table'[x].key = tombstone

(* Such a step leaves sound what every other thread knows.                 *)
LEMMA OthersStep ==
  ASSUME IInv, NEW t \in Threads, Busy(t), KeyStep(t),
         NEW u \in Threads, u # t,
         call'[u] = call[u], pc'[u] = pc[u], h'[u] = h[u], seen'[u] = seen[u]
  PROVE  ThreadOK(u)'
<1>1. CASE ~Busy(u)
  BY <1>1 DEF IInv, ThreadOK, Busy
<1>2. CASE Busy(u)
  <2>1. ThreadOK(u) /\ Busy(u)' /\ KeyOf(u)' = KeyOf(u)
    BY <1>2 DEF IInv, Busy, KeyOf
  <2>2. /\ call[t].op = call[u].op
        /\ call[t].op # "Find" => KeyOf(t) # KeyOf(u)
    BY <1>2 DEF IInv, PhaseOK
  <2>3. /\ KeyOf(u) \in Keys /\ KeyOf(t) \in Keys
        /\ h[u] \in Slots
    BY <1>2, CallFacts DEF IInv, TypeOK
  <2>4. \A x \in Slots :
          /\ table[x].key = KeyOf(u) <=> table'[x].key = KeyOf(u)
          /\ table[x].key # empty_key => table'[x].key # empty_key
          /\ Held(x) /\ call[t].op = "Insert" => table'[x].key = table[x].key
          /\ table'[x].key = table[x].key
             \/ table'[x].key \in Keys \/ call[t].op = "Delete"
    BY <2>2, <2>3, ArcFacts DEF KeyStep, Held
  <2>5. InTable(KeyOf(u))' <=> InTable(KeyOf(u))
    BY <2>1, <2>4 DEF InTable
  <2>6. Passed(u)'
    BY <1>2, <2>1, <2>4 DEF ThreadOK, Passed, Before
  <2>7. ASSUME call[u].op = "Insert" PROVE InsertOK(u)'
    <3>1. ~Buried => ~Buried'
      BY <2>2, <2>3, <2>7, ArcFacts DEF Buried, KeyStep
    <3>2. Held(h[u]) \/ table[h[u]].key = seen[u]
          => Held(h[u])' \/ table'[h[u]].key = seen[u]
      BY <2>2, <2>3, <2>4, <2>7 DEF Held
    <3> QED BY <1>2, <2>1, <2>3, <2>4, <2>5, <2>7, <3>1, <3>2
            DEF ThreadOK, InsertOK, Held
  <2>8. call[u].op = "Find" => FindOK(u)'
    BY <1>2, <2>1, <2>5 DEF ThreadOK, FindOK
  <2>9. call[u].op = "Delete" => DeleteOK(u)'
    BY <1>2, <2>1, <2>3, <2>4 DEF ThreadOK, DeleteOK
  <2> QED BY <1>2, <2>1, <2>6, <2>7, <2>8, <2>9 DEF ThreadOK
<1> QED BY <1>1, <1>2

(* The elements that are alive after a step that leaves live alone.        *)
LEMMA LiveStep ==
  ASSUME IInv, UNCHANGED live,
         \A k \in Keys :
           /\ InTable(k) \/ Doing("Insert", k)
           /\ ~Doing("Delete", k)
           <=>
           /\ InTable(k)' \/ Doing("Insert", k)'
           /\ ~Doing("Delete", k)'
  PROVE  LiveOK'
BY ArcFacts DEF IInv, LiveOK

(* A call that returns and has left the table alone.                       *)
LEMMA ReturnStep ==
  ASSUME IInv, NEW t \in Threads, Busy(t), pc[t] # "store",
         NEW value \in Arcs \cup {Yes, No, Absent},
         Return(t, value), UNCHANGED <<table, live>>,
         call[t].op = "Insert" => InTable(KeyOf(t)),
         call[t].op = "Delete" => ~InTable(KeyOf(t))
  PROVE  IInv'
<1> USE DEF IInv
<1>0. /\ \A u \in Threads : u # t => /\ call'[u] = call[u] /\ pc'[u] = pc[u]
                                     /\ h'[u] = h[u] /\ seen'[u] = seen[u]
      /\ call'[t] = Absent /\ pc'[t] = "idle"
  BY DEF Return, TypeOK
<1>1. TypeOK'
  BY TableNotEmpty DEF TypeOK, Return, Slots
<1>2. KeysCanBeFound'
  BY DEF KeysCanBeFound, Held, Before
<1>3. ASSUME NEW u \in Threads PROVE ThreadOK(u)'
  <2>1. CASE u = t
    BY <1>0, <2>1 DEF ThreadOK, Busy
  <2>2. CASE u # t
    BY <1>0, <2>2, OthersStep DEF KeyStep
  <2> QED BY <2>1, <2>2
<1>4. PhaseOK'
  BY <1>0 DEF PhaseOK, Busy, KeyOf
<1>5. ValuesOK'
  BY <1>0 DEF ValuesOK, Stored, Held
<1>6. LiveOK'
  <2> SUFFICES ASSUME NEW k \in Keys
               PROVE  /\ InTable(k) \/ Doing("Insert", k)
                      /\ ~Doing("Delete", k)
                      <=>
                      /\ InTable(k)' \/ Doing("Insert", k)'
                      /\ ~Doing("Delete", k)'
    BY LiveStep
  <2>1. \A u \in Threads : u # t => (Busy(u)' <=> Busy(u)) /\ KeyOf(u)' = KeyOf(u)
    BY <1>0 DEF Busy, KeyOf
  <2>2. ~Busy(t)' /\ InTable(k)' = InTable(k)
    BY <1>0 DEF Busy, InTable
  <2>3. call[t].op # "Find" /\ KeyOf(t) = k =>
          \A u \in Threads : u # t /\ Busy(u) => KeyOf(u) # k /\ call[u].op = call[t].op
    BY DEF PhaseOK
  <2> QED BY <1>0, <2>1, <2>2, <2>3 DEF Doing
<1> QED BY <1>1, <1>2, <1>3, <1>4, <1>5, <1>6

(* A key is not in the table when its probe sequence meets an empty slot   *)
(* before it.                                                              *)
LEMMA EmptyMeansAbsent ==
  ASSUME IInv, NEW t \in Threads, Busy(t), table[h[t]].key = empty_key
  PROVE  ~InTable(KeyOf(t))
<1> SUFFICES ASSUME NEW s \in Slots, table[s].key = KeyOf(t) PROVE FALSE
  BY DEF InTable
<1>1. KeyOf(t) \in Keys /\ h[t] \in Slots
  BY CallFacts DEF IInv, TypeOK
<1>2. s \notin Before(h[t], KeyOf(t))
  BY DEF IInv, ThreadOK, Passed
<1>3. h[t] \notin Before(s, KeyOf(t))
  BY <1>1 DEF IInv, KeysCanBeFound, Held
<1>4. s # h[t]
  BY <1>1, ArcFacts
<1> QED BY <1>1, <1>2, <1>3, <1>4, BeforeFacts

(* A call that passes over a slot which another key has taken.             *)
LEMMA GoOnStep ==
  ASSUME IInv, NEW t \in Threads, Busy(t), pc[t] \in {"probe", "claim"},
         GoOn(t), UNCHANGED live,
         table[h[t]].key \notin {empty_key, KeyOf(t)},
         call[t].op = "Insert" => ~InTable(KeyOf(t)) \/ ~Buried
  PROVE  IInv'
<1>1. /\ KeyOf(t) \in Keys /\ h[t] \in Slots
      /\ seen[t] \in {empty_key, tombstone}
  BY CallFacts DEF IInv, TypeOK
<1>2. incrementIndex(h[t]) \in Slots
  BY <1>1, ProbeFacts
<1>3. /\ pc' = [pc EXCEPT ![t] = "probe"]
      /\ h' = [h EXCEPT ![t] = incrementIndex(h[t])]
      /\ seen' = [seen EXCEPT ![t] = seen[t]]
      /\ reply' = Absent
      /\ UNCHANGED <<table, call, live>>
  BY DEF GoOn, IInv, TypeOK
<1>4. pc'[t] = "probe" /\ h'[t] = incrementIndex(h[t])
  BY <1>3 DEF IInv, TypeOK
<1>5. Passed(t)'
  <2>1. Passed(t)
    BY DEF IInv, ThreadOK
  <2>2. Before(h'[t], KeyOf(t)) \subseteq Before(h[t], KeyOf(t)) \cup {h[t]}
    BY <1>1, <1>4, BeforeFacts
  <2> QED BY <1>3, <2>1, <2>2 DEF Passed, KeyOf, Before
<1>6. ThreadOK(t)'
  BY <1>3, <1>4, <1>5 DEF IInv, ThreadOK, Busy, InsertOK, FindOK, DeleteOK,
     KeyOf, InTable, Buried
<1> QED BY <1>1, <1>2, <1>3, <1>6, MoveStep

LEMMA InsertProbeStep ==
  ASSUME IInv, NEW t \in Threads, Busy(t), InsertProbe(t) PROVE IInv'
<1> DEFINE key == table[h[t]].key
<1>1. /\ pc[t] = "probe" /\ call[t].op = "Insert" /\ UNCHANGED live
  BY DEF InsertProbe, At
<1>2. InsertOK(t) /\ Passed(t)
  BY <1>1 DEF IInv, ThreadOK
<1>3. h[t] \in Slots /\ KeyOf(t) \in Keys /\ key \in Keys \cup {empty_key, tombstone}
  BY CallFacts DEF IInv, TypeOK
<1>4. CASE FreeToInsert(key) /\ seen' = [seen EXCEPT ![t] = key]
           /\ pc' = [pc EXCEPT ![t] = "claim"] /\ reply' = Absent
           /\ UNCHANGED <<table, call, h>>
  <2>1. /\ pc'[t] = "claim" /\ seen'[t] = key /\ h' = [h EXCEPT ![t] = h[t]]
        /\ key \in {empty_key, tombstone}
    BY <1>4 DEF IInv, TypeOK, FreeToInsert
  <2>2. ~InTable(KeyOf(t))
    <3>1. key = tombstone => Buried
      BY <1>3 DEF Buried
    <3> QED BY <1>1, <1>2, <2>1, <3>1, EmptyMeansAbsent DEF InsertOK
  <2>3. ThreadOK(t)'
    BY <1>1, <1>2, <1>4, <2>1, <2>2 DEF ThreadOK, Busy, InsertOK, KeyOf, InTable,
       Passed, Before, Held
  <2> QED BY <1>1, <1>3, <1>4, <2>1, <2>3, MoveStep
<1>5. CASE key = KeyOf(t) /\ Return(t, No) /\ UNCHANGED table
  <2>1. InTable(KeyOf(t))
    BY <1>3, <1>5 DEF InTable
  <2> QED BY <1>1, <1>5, <2>1, ReturnStep
<1>6. CASE ~FreeToInsert(key) /\ key # KeyOf(t) /\ GoOn(t)
  BY <1>1, <1>2, <1>6, GoOnStep DEF FreeToInsert, InsertOK
<1> QED BY <1>4, <1>5, <1>6 DEF InsertProbe

LEMMA FindProbeStep ==
  ASSUME IInv, NEW t \in Threads, Busy(t), FindProbe(t) PROVE IInv'
<1> DEFINE kv == table[h[t]]
<1>1. pc[t] = "probe" /\ call[t].op = "Find" /\ UNCHANGED live
  BY DEF FindProbe, At
<1>2. h[t] \in Slots /\ KeyOf(t) \in Keys
  BY CallFacts DEF IInv, TypeOK
<1>3. kv.key # empty_key
  BY <1>1, EmptyMeansAbsent DEF IInv, ThreadOK, FindOK
<1>4. CASE kv.key = KeyOf(t)
  <2>1. Held(h[t]) /\ ~\E u \in Threads : pc[u] = "store" /\ h[u] = h[t]
    <3>1. ASSUME NEW u \in Threads, pc[u] = "store" PROVE FALSE
      <4>1. Busy(u) /\ call[u].op = "Find"
        BY <1>1, <3>1 DEF IInv, ThreadOK, PhaseOK
      <4> QED BY <3>1, <4>1 DEF IInv, ThreadOK, FindOK
    <3> QED BY <1>2, <1>4, <3>1 DEF Held
  <2>2. kv.value = kv.key
    BY <1>2, <2>1 DEF IInv, ValuesOK, Stored
  <2>3. PICK v \in Arcs : Return(t, v) /\ UNCHANGED table
    BY <1>2, <1>4, <2>2, ArcFacts DEF FindProbe, Twin
  <2> QED BY <1>1, <2>3, ReturnStep
<1>5. CASE kv.key # KeyOf(t)
  <2>1. GoOn(t)
    BY <1>3, <1>5 DEF FindProbe
  <2> QED BY <1>1, <1>3, <1>5, <2>1, GoOnStep
<1> QED BY <1>4, <1>5

LEMMA DeleteProbeStep ==
  ASSUME IInv, NEW t \in Threads, Busy(t), DeleteProbe(t) PROVE IInv'
<1> DEFINE key == table[h[t]].key
<1>1. pc[t] = "probe" /\ call[t].op = "Delete" /\ UNCHANGED live
  BY DEF DeleteProbe, At
<1>2. DeleteOK(t) /\ Passed(t)
  BY <1>1 DEF IInv, ThreadOK
<1>3. h[t] \in Slots /\ seen[t] \in {empty_key, tombstone}
  BY DEF IInv, TypeOK
<1>4. CASE key = empty_key /\ Return(t, No) /\ UNCHANGED table
  BY <1>1, <1>4, EmptyMeansAbsent, ReturnStep
<1>5. CASE key = KeyOf(t) /\ pc' = [pc EXCEPT ![t] = "bury"] /\ reply' = Absent
           /\ UNCHANGED <<table, call, h, seen>>
  <2>1. /\ pc'[t] = "bury" /\ h' = [h EXCEPT ![t] = h[t]]
        /\ seen' = [seen EXCEPT ![t] = seen[t]]
    BY <1>5 DEF IInv, TypeOK
  <2>2. ThreadOK(t)'
    BY <1>1, <1>2, <1>5, <2>1 DEF ThreadOK, Busy, DeleteOK, KeyOf, Passed, Before
  <2> QED BY <1>1, <1>3, <1>5, <2>1, <2>2, MoveStep
<1>6. CASE key \notin {empty_key, KeyOf(t)} /\ GoOn(t)
  BY <1>1, <1>6, GoOnStep
<1> QED BY <1>4, <1>5, <1>6 DEF DeleteProbe

(* The CAS that takes the slot: the key is in no other one, and none of    *)
(* the slots passed over is empty.                                         *)
LEMMA InsertTakes ==
  ASSUME IInv, NEW t \in Threads, Busy(t), call[t].op = "Insert", pc[t] = "claim",
         table[h[t]].key = seen[t],
         table' = [table EXCEPT ![h[t]].key = KeyOf(t)],
         pc' = [pc EXCEPT ![t] = "store"], reply' = Absent,
         UNCHANGED <<call, h, seen, live>>
  PROVE  IInv'
<1> USE DEF IInv
<1>1. /\ h[t] \in Slots /\ KeyOf(t) \in Keys
      /\ table[h[t]].key \in {empty_key, tombstone}
      /\ call[t].op # "Find" /\ call[t].op # "Delete"
  BY CallFacts DEF TypeOK
<1>2. /\ pc'[t] = "store"
      /\ \A u \in Threads : u # t => pc'[u] = pc[u]
      /\ \A x \in Slots : /\ table'[x].value = table[x].value
                          /\ table'[x].key = IF x = h[t] THEN KeyOf(t) ELSE table[x].key
  BY <1>1 DEF TypeOK
<1>3. ~InTable(KeyOf(t)) /\ Passed(t) /\ InsertOK(t)
  BY DEF ThreadOK, InsertOK
<1>4. ~Held(h[t])
  BY <1>1, ArcFacts DEF Held
<1>5. TypeOK'
  BY <1>1 DEF TypeOK
<1>6. KeysCanBeFound'
  <2> SUFFICES ASSUME NEW s \in Slots, Held(s)'
               PROVE  /\ \A x \in Before(s, table'[s].key) : table'[x].key # empty_key
                      /\ \A x \in Slots \ {s} : table'[x].key # table'[s].key
    BY DEF KeysCanBeFound, Before
  <2>1. CASE s = h[t]
    BY <1>1, <1>2, <1>3, <2>1, ArcFacts DEF Passed, Before, InTable
  <2>2. CASE s # h[t]
    <3>1. table'[s].key = table[s].key /\ Held(s)
      BY <1>2, <2>2 DEF Held
    <3> QED BY <1>1, <1>2, <1>3, <2>2, <3>1, ArcFacts
            DEF KeysCanBeFound, InTable, Before
  <2> QED BY <2>1, <2>2
<1>7. ASSUME NEW u \in Threads PROVE ThreadOK(u)'
  <2>1. CASE u = t
    <3>1. Passed(t)'
      BY <1>1, <1>2, <1>3, BeforeFacts, SMTT(60) DEF Passed, Before, KeyOf
    <3> QED BY <1>1, <1>2, <1>3, <2>1, <3>1
            DEF ThreadOK, Busy, InsertOK, KeyOf
  <2>2. CASE u # t
    BY <1>1, <1>2, <1>4, <2>2, OthersStep DEF KeyStep
  <2> QED BY <2>1, <2>2
<1>8. PhaseOK'
  BY DEF PhaseOK, Busy, KeyOf
<1>9. ValuesOK'
  <2> SUFFICES ASSUME NEW s \in Slots, Stored(s)'
               PROVE  table'[s].value = table'[s].key
    BY DEF ValuesOK
  <2>1. s # h[t] /\ table'[s].key = table[s].key /\ Held(s)
    BY <1>2 DEF Stored, Held
  <2>2. Stored(s)
    BY <1>2, <2>1 DEF Stored
  <2> QED BY <1>2, <2>1, <2>2 DEF ValuesOK
<1>10. LiveOK'
  <2> SUFFICES ASSUME NEW k \in Keys
               PROVE  /\ InTable(k) \/ Doing("Insert", k)
                      /\ ~Doing("Delete", k)
                      <=>
                      /\ InTable(k)' \/ Doing("Insert", k)'
                      /\ ~Doing("Delete", k)'
    BY LiveStep
  <2>1. \A op : Doing(op, k)' <=> Doing(op, k)
    BY DEF Doing, Busy, KeyOf
  <2>2. k # KeyOf(t) => (InTable(k)' <=> InTable(k))
    BY <1>1, <1>2, ArcFacts DEF InTable
  <2>3. k = KeyOf(t) => Doing("Insert", k)
    BY DEF Doing
  <2> QED BY <2>1, <2>2, <2>3
<1> QED BY <1>5, <1>6, <1>7, <1>8, <1>9, <1>10

LEMMA InsertClaimStep ==
  ASSUME IInv, NEW t \in Threads, Busy(t), InsertClaim(t) PROVE IInv'
<1>1. pc[t] = "claim" /\ call[t].op = "Insert" /\ UNCHANGED live
  BY DEF InsertClaim, At
<1>2. InsertOK(t) /\ h[t] \in Slots /\ KeyOf(t) \in Keys
  BY <1>1, CallFacts DEF IInv, ThreadOK, TypeOK
<1>3. CASE table[h[t]].key # seen[t] /\ GoOn(t)
  <2>1. Held(h[t]) /\ ~InTable(KeyOf(t))
    BY <1>1, <1>2, <1>3 DEF InsertOK
  <2>2. table[h[t]].key \notin {empty_key, KeyOf(t)}
    BY <1>2, <2>1, ArcFacts DEF InTable, Held
  <2> QED BY <1>1, <1>3, <2>1, <2>2, GoOnStep
<1>4. CASE ~(table[h[t]].key # seen[t] /\ GoOn(t))
  BY <1>1, <1>4, InsertTakes DEF InsertClaim
<1> QED BY <1>3, <1>4

LEMMA InsertStoreStep ==
  ASSUME IInv, NEW t \in Threads, Busy(t), InsertStore(t) PROVE IInv'
<1> USE DEF IInv
<1>1. /\ pc[t] = "store" /\ call[t].op = "Insert" /\ UNCHANGED live
      /\ table' = [table EXCEPT ![h[t]].value = call[t].edge]
      /\ Return(t, Yes)
  BY DEF InsertStore, At
<1>2. /\ h[t] \in Slots /\ KeyOf(t) \in Keys /\ KeyOf(t) \in Arcs
      /\ call[t].edge = KeyOf(t)
      /\ table[h[t]].key = KeyOf(t)
      /\ call[t].op # "Find" /\ call[t].op # "Delete"
  BY <1>1, CallFacts, ArcFacts DEF TypeOK, ThreadOK, InsertOK
<1>3. /\ \A u \in Threads : u # t => /\ call'[u] = call[u] /\ pc'[u] = pc[u]
                                     /\ h'[u] = h[u] /\ seen'[u] = seen[u]
      /\ call'[t] = Absent /\ pc'[t] = "idle"
  BY <1>1 DEF Return, TypeOK
<1>4. \A x \in Slots :
        /\ table'[x].key = table[x].key
        /\ table'[x].value = IF x = h[t] THEN KeyOf(t) ELSE table[x].value
  BY <1>1, <1>2 DEF TypeOK
<1>5. TypeOK'
  BY <1>1, <1>2, TableNotEmpty DEF TypeOK, Return, Slots
<1>6. KeysCanBeFound'
  BY <1>4 DEF KeysCanBeFound, Held, Before
<1>7. ASSUME NEW u \in Threads PROVE ThreadOK(u)'
  <2>1. CASE u = t
    BY <1>3, <2>1 DEF ThreadOK, Busy
  <2>2. CASE u # t
    BY <1>3, <1>4, <2>2, OthersStep DEF KeyStep
  <2> QED BY <2>1, <2>2
<1>8. PhaseOK'
  BY <1>3 DEF PhaseOK, Busy, KeyOf
<1>9. ValuesOK'
  <2> SUFFICES ASSUME NEW s \in Slots, Stored(s)'
               PROVE  table'[s].value = table'[s].key
    BY DEF ValuesOK
  <2>1. s # h[t] => Stored(s)
    BY <1>3, <1>4 DEF Stored, Held
  <2> QED BY <1>2, <1>4, <2>1 DEF ValuesOK
<1>10. LiveOK'
  <2> SUFFICES ASSUME NEW k \in Keys
               PROVE  /\ InTable(k) \/ Doing("Insert", k)
                      /\ ~Doing("Delete", k)
                      <=>
                      /\ InTable(k)' \/ Doing("Insert", k)'
                      /\ ~Doing("Delete", k)'
    BY <1>1, LiveStep
  <2>1. \A u \in Threads : u # t => (Busy(u)' <=> Busy(u)) /\ KeyOf(u)' = KeyOf(u)
    BY <1>3 DEF Busy, KeyOf
  <2>2. ~Busy(t)' /\ (InTable(k)' <=> InTable(k))
    BY <1>3, <1>4 DEF Busy, InTable
  <2>3. k = KeyOf(t) => InTable(k)
    BY <1>2 DEF InTable
  <2> QED BY <1>1, <1>3, <2>1, <2>2, <2>3 DEF Doing
<1> QED BY <1>5, <1>6, <1>7, <1>8, <1>9, <1>10

LEMMA DeleteBuryStep ==
  ASSUME IInv, NEW t \in Threads, Busy(t), DeleteBury(t) PROVE IInv'
<1> USE DEF IInv
<1>1. /\ pc[t] = "bury" /\ call[t].op = "Delete" /\ UNCHANGED live
      /\ table' = [table EXCEPT ![h[t]].key = tombstone]
      /\ Return(t, Yes)
  BY DEF DeleteBury, At
<1>2. /\ h[t] \in Slots /\ KeyOf(t) \in Keys
      /\ table[h[t]].key = KeyOf(t)
  BY <1>1, CallFacts DEF TypeOK, ThreadOK, DeleteOK
<1>3. /\ \A u \in Threads : u # t => /\ call'[u] = call[u] /\ pc'[u] = pc[u]
                                     /\ h'[u] = h[u] /\ seen'[u] = seen[u]
      /\ call'[t] = Absent /\ pc'[t] = "idle"
  BY <1>1 DEF Return, TypeOK
<1>4. \A x \in Slots :
        /\ table'[x].key = IF x = h[t] THEN tombstone ELSE table[x].key
        /\ table'[x].value = table[x].value
  BY <1>1, <1>2 DEF TypeOK
<1>5. TypeOK'
  <2>1. table' \in [Slots -> [key : Keys \cup {empty_key, tombstone},
                             value : Arcs \cup {Absent}]]
    BY <1>1, <1>2 DEF TypeOK
  <2> QED BY <1>1, <2>1, TableNotEmpty DEF TypeOK, Return, Slots
<1>6. KeysCanBeFound'
  <2> SUFFICES ASSUME NEW s \in Slots, Held(s)'
               PROVE  /\ \A x \in Before(s, table'[s].key) : table'[x].key # empty_key
                      /\ \A x \in Slots \ {s} : table'[x].key # table'[s].key
    BY DEF KeysCanBeFound, Before
  <2>1. s # h[t] /\ table'[s].key = table[s].key /\ Held(s)
    BY <1>2, <1>4, ArcFacts DEF Held
  <2> QED BY <1>4, <2>1, ArcFacts DEF KeysCanBeFound, Held, Before
<1>7. ASSUME NEW u \in Threads PROVE ThreadOK(u)'
  <2>1. CASE u = t
    BY <1>3, <2>1 DEF ThreadOK, Busy
  <2>2. CASE u # t
    BY <1>1, <1>2, <1>3, <1>4, <2>2, OthersStep DEF KeyStep
  <2> QED BY <2>1, <2>2
<1>8. PhaseOK'
  BY <1>3 DEF PhaseOK, Busy, KeyOf
<1>9. ValuesOK'
  <2> SUFFICES ASSUME NEW s \in Slots, Stored(s)'
               PROVE  table'[s].value = table'[s].key
    BY DEF ValuesOK
  <2>1. s # h[t] /\ table'[s].key = table[s].key
    BY <1>2, <1>4, ArcFacts DEF Stored, Held
  <2>2. \A u \in Threads : pc[u] = "store" => pc'[u] = "store" /\ h'[u] = h[u]
    BY <1>1, <1>3
  <2>3. Stored(s)
    BY <2>1, <2>2 DEF Stored, Held
  <2> QED BY <1>4, <2>1, <2>3 DEF ValuesOK
<1>10. LiveOK'
  <2> SUFFICES ASSUME NEW k \in Keys
               PROVE  /\ InTable(k) \/ Doing("Insert", k)
                      /\ ~Doing("Delete", k)
                      <=>
                      /\ InTable(k)' \/ Doing("Insert", k)'
                      /\ ~Doing("Delete", k)'
    BY <1>1, LiveStep
  <2>1. \A u \in Threads : u # t => (Busy(u)' <=> Busy(u)) /\ KeyOf(u)' = KeyOf(u)
    BY <1>3 DEF Busy, KeyOf
  <2>2. ~Busy(t)'
    BY <1>3 DEF Busy
  <2>3. k # KeyOf(t) => (InTable(k)' <=> InTable(k))
    BY <1>2, <1>4, ArcFacts DEF InTable
  <2>4. ASSUME k = KeyOf(t) PROVE ~InTable(k)' /\ Doing("Delete", k) /\ ~Doing("Insert", k)'
    <3>1. ~InTable(k)'
      BY <1>2, <1>4, <2>4, ArcFacts DEF InTable, KeysCanBeFound, Held
    <3>2. Doing("Delete", k)
      BY <1>1, <2>4 DEF Doing
    <3>3. ~Doing("Insert", k)'
      BY <1>1, <1>3, <2>1, <2>2, <2>4 DEF Doing, PhaseOK
    <3> QED BY <3>1, <3>2, <3>3
  <2> QED BY <1>1, <1>3, <2>1, <2>2, <2>3, <2>4 DEF Doing
<1> QED BY <1>5, <1>6, <1>7, <1>8, <1>9, <1>10

(* A request begins at the first slot of its key.                          *)
LEMMA RequestStep ==
  ASSUME IInv, NEW t \in Threads, NEW r \in Requests, Request(t, r),
         r.op # "Find" => r.arc \in Keys /\ ~InUse(Key(r.arc)),
         r.op = "Insert" => r.edge = r.arc /\ (~InTable(Key(r.arc)) \/ ~Buried),
         r.op = "Find" => InTable(Key(r.arc)),
         live' \subseteq Arcs, LiveOK'
  PROVE  IInv'
<1> USE DEF IInv
<1>1. /\ r.op \in {"Insert", "Find", "Delete"} /\ r.arc \in Arcs
      /\ Key(r.arc) \in Keys /\ r # Absent
  BY ArcFacts, ValuesDiffer DEF Requests
<1>2. /\ \A u \in Threads : u # t => /\ call'[u] = call[u] /\ pc'[u] = pc[u]
                                     /\ h'[u] = h[u]
      /\ call'[t] = r /\ pc'[t] = "probe" /\ h'[t] = firstIndex[Key(r.arc)]
      /\ UNCHANGED <<table, seen>> /\ ~Busy(t)
  BY DEF Request, TypeOK
<1>3. TypeOK'
  BY <1>1, HashesIntoTable DEF TypeOK, Request
<1>4. KeysCanBeFound'
  BY <1>2 DEF KeysCanBeFound, Held, Before
<1>5. Busy(t)' /\ KeyOf(t)' = Key(r.arc)
  BY <1>1, <1>2 DEF Busy, KeyOf
<1>6. ASSUME NEW u \in Threads PROVE ThreadOK(u)'
  <2>1. CASE u = t
    <3>1. Passed(t)'
      BY <1>1, <1>2, <1>5, BeforeFacts DEF Passed, Before
    <3> QED BY <1>1, <1>2, <1>5, <2>1, <3>1
            DEF ThreadOK, InsertOK, FindOK, DeleteOK, InTable, Buried
  <2>2. CASE u # t
    <3>1. ThreadOK(u)
      OBVIOUS
    <3> QED BY <1>2, <2>2, <3>1 DEF ThreadOK, Busy, Passed, InsertOK, FindOK,
            DeleteOK, KeyOf, Before, InTable, Buried, Held
  <2> QED BY <2>1, <2>2
<1>7. PhaseOK'
  <2> SUFFICES ASSUME NEW u \in Threads, NEW v \in Threads, u # v,
                      Busy(u)', Busy(v)'
               PROVE  /\ call'[u].op = call'[v].op
                      /\ call'[u].op # "Find" => KeyOf(u)' # KeyOf(v)'
    BY DEF PhaseOK
  <2>1. \A w \in Threads : w # t => (Busy(w)' <=> Busy(w)) /\ KeyOf(w)' = KeyOf(w)
    BY <1>2 DEF Busy, KeyOf
  <2>2. \A w \in Threads : w # t /\ Busy(w) =>
          /\ call[w].op = r.op
          /\ r.op # "Find" => KeyOf(w) # Key(r.arc)
    BY DEF Request, InPhase, InUse, KeyOf
  <2> QED BY <1>2, <1>5, <2>1, <2>2 DEF PhaseOK
<1>8. ValuesOK'
  <2>1. \A u \in Threads : pc[u] = "store" => pc'[u] = "store" /\ h'[u] = h[u]
    BY <1>2 DEF ThreadOK
  <2> QED BY <1>2, <2>1 DEF ValuesOK, Stored, Held
<1> QED BY <1>3, <1>4, <1>6, <1>7, <1>8

(* What the calls on their way are once r is one of them.                  *)
LEMMA RequestDoing ==
  ASSUME IInv, NEW t \in Threads, NEW r \in Requests, Request(t, r),
         NEW op, NEW k
  PROVE  Doing(op, k)' <=> Doing(op, k) \/ (r.op = op /\ Key(r.arc) = k)
<1>1. /\ \A u \in Threads : u # t => call'[u] = call[u]
      /\ call'[t] = r /\ r # Absent /\ ~Busy(t)
  BY ValuesDiffer DEF Request, IInv, TypeOK
<1>2. \A u \in Threads : u # t => (Busy(u)' <=> Busy(u)) /\ KeyOf(u)' = KeyOf(u)
  BY <1>1 DEF Busy, KeyOf
<1>3. Busy(t)' /\ KeyOf(t)' = Key(r.arc)
  BY <1>1 DEF Busy, KeyOf
<1> QED BY <1>1, <1>2, <1>3 DEF Doing

LEMMA InsertCallStep ==
  ASSUME IInv, NEW t \in Threads, Insert(t) PROVE IInv'
<1>1. PICK uv \in Arcs :
        /\ ~InUse(Key(uv))
        /\ IF InTable(Key(uv)) THEN ~Buried ELSE Cardinality(Edges) < MaxEdges
        /\ live' = IF InTable(Key(uv)) THEN live ELSE live \cup {uv, Twin(uv)}
        /\ Request(t, [op |-> "Insert", arc |-> Key(uv),
                       edge |-> IF uv[1] > uv[2] THEN Twin(uv) ELSE uv])
  BY DEF Insert
<1> DEFINE k == Key(uv)
           r == [op |-> "Insert", arc |-> k, edge |-> k]
<1>2. k \in Keys /\ k \in Arcs /\ Key(k) = k
  BY ArcFacts
<1>3. (IF uv[1] > uv[2] THEN Twin(uv) ELSE uv) = k
  BY DEF Key, Twin
<1>4. Request(t, r) /\ r \in Requests
  BY <1>1, <1>2, <1>3 DEF Requests
<1>5. live' \subseteq Arcs
  BY <1>1, ArcFacts DEF IInv, TypeOK, Twin
<1>6. LiveOK'
  <2> SUFFICES ASSUME NEW a \in Arcs
               PROVE  a \in live' <=>
                        /\ InTable(Key(a)) \/ Doing("Insert", Key(a))'
                        /\ ~Doing("Delete", Key(a))'
    BY <1>1 DEF LiveOK, InTable, Request
  <2>1. /\ Doing("Insert", Key(a))' <=> Doing("Insert", Key(a)) \/ Key(a) = k
        /\ Doing("Delete", Key(a))' <=> Doing("Delete", Key(a))
    BY <1>2, <1>4, RequestDoing
  <2>2. ~Doing("Delete", k)
    BY <1>1 DEF Doing, InUse, KeyOf
  <2>3. Key(a) = k <=> a \in {uv, Twin(uv)}
    BY ArcFacts DEF Twin
  <2> QED BY <1>1, <2>1, <2>2, <2>3 DEF IInv, LiveOK
<1> QED BY <1>1, <1>2, <1>4, <1>5, <1>6, RequestStep

LEMMA FindCallStep ==
  ASSUME IInv, NEW t \in Threads, Find(t) PROVE IInv'
<1>1. PICK a \in Arcs : /\ InTable(Key(a)) /\ UNCHANGED live
                        /\ Request(t, [op |-> "Find", arc |-> a])
  BY DEF Find
<1> DEFINE r == [op |-> "Find", arc |-> a]
<1>2. r \in Requests /\ r.op = "Find" /\ r.arc = a
  BY DEF Requests
<1>3. LiveOK'
  <2>1. \A op, k : op # "Find" => (Doing(op, k)' <=> Doing(op, k))
    BY <1>1, <1>2, RequestDoing
  <2> QED BY <1>1, <2>1 DEF IInv, LiveOK, InTable, Request
<1> QED BY <1>1, <1>2, <1>3, RequestStep DEF IInv, TypeOK

LEMMA DeleteCallStep ==
  ASSUME IInv, NEW t \in Threads, Delete(t) PROVE IInv'
<1>1. PICK a \in Arcs : /\ ~InUse(Key(a))
                        /\ Request(t, [op |-> "Delete", arc |-> Key(a)])
                        /\ live' = {e \in live : Key(e) # Key(a)}
  BY DEF Delete
<1> DEFINE k == Key(a)
           r == [op |-> "Delete", arc |-> k]
<1>2. k \in Keys /\ k \in Arcs /\ Key(k) = k
  BY ArcFacts
<1>3. r \in Requests
  BY <1>2 DEF Requests
<1>4. LiveOK'
  <2>1. \A l : /\ Doing("Insert", l)' <=> Doing("Insert", l)
               /\ Doing("Delete", l)' <=> Doing("Delete", l) \/ l = k
    BY <1>1, <1>2, <1>3, RequestDoing
  <2> QED BY <1>1, <2>1 DEF IInv, LiveOK, InTable, Request
<1> QED BY <1>1, <1>2, <1>3, <1>4, RequestStep DEF IInv, TypeOK

(* While nobody works the slots that hold keys are those of the elements   *)
(* that are alive, one for each edge.                                      *)
LEMMA FreedIsLive ==
  ASSUME IInv, Quiet
  PROVE  /\ Freed = live
         /\ \A s, x \in Slots :
              s # x /\ Held(s) /\ Held(x) => table[s].value # table[x].value
<1>1. \A t \in Threads : pc[t] = "idle" /\ ~Busy(t)
  BY DEF Quiet, IInv, ThreadOK
<1>2. \A s \in Slots : Held(s) => table[s].value = table[s].key
  BY <1>1 DEF IInv, ValuesOK, Stored
<1>3. \A a \in Arcs : a \in live <=> InTable(Key(a))
  BY <1>1 DEF IInv, LiveOK, Doing
<1>4. ASSUME NEW a PROVE a \in Freed <=> a \in live
  <2>1. ASSUME a \in Freed PROVE a \in live
    <3>1. PICK s \in Slots : Held(s) /\ a \in {table[s].value, Twin(table[s].value)}
      BY <2>1 DEF Freed
    <3>2. table[s].key \in Keys /\ a \in {table[s].key, Reverse(table[s].key)}
      BY <1>2, <3>1 DEF Held, Twin
    <3>3. a \in Arcs /\ Key(a) = table[s].key
      BY <3>2, ArcFacts
    <3> QED BY <1>3, <3>3 DEF InTable
  <2>2. ASSUME a \in live PROVE a \in Freed
    <3>1. a \in Arcs /\ Key(a) \in Keys /\ a \in {Key(a), Reverse(Key(a))}
      BY <2>2, ArcFacts DEF IInv, TypeOK
    <3>2. PICK s \in Slots : table[s].key = Key(a)
      BY <1>3, <2>2, <3>1 DEF InTable
    <3>3. Held(s) /\ a \in {table[s].value, Twin(table[s].value)}
      BY <1>2, <3>1, <3>2 DEF Held, Twin
    <3> QED BY <3>3 DEF Freed
  <2> QED BY <2>1, <2>2
<1>5. Freed = live
  BY <1>4
<1> QED BY <1>2, <1>5 DEF IInv, KeysCanBeFound

LEMMA RebuildStep == ASSUME IInv, Rebuild PROVE IInv'
<1>1. /\ live' = {} /\ table' = Cleared /\ reply' = Absent
      /\ UNCHANGED <<call, pc, h, seen>>
  BY FreedIsLive DEF Rebuild
<1>2. \A t \in Threads : pc[t] = "idle" /\ ~Busy(t) /\ ~Busy(t)'
  BY <1>1 DEF Rebuild, Quiet, IInv, ThreadOK, Busy
<1>3. \A s \in Slots : table'[s].key = empty_key /\ ~Held(s)'
  BY <1>1, ArcFacts DEF Cleared, Held
<1>4. TypeOK'
  BY <1>1 DEF IInv, TypeOK, Cleared
<1>5. \A t \in Threads : ThreadOK(t)'
  BY <1>1, <1>2 DEF ThreadOK
<1>6. LiveOK'
  BY <1>1, <1>2, <1>3, ArcFacts DEF LiveOK, InTable, Doing
<1> QED BY <1>2, <1>3, <1>4, <1>5, <1>6 DEF IInv, KeysCanBeFound, PhaseOK, ValuesOK, Stored

----

LEMMA InitInv == Init => IInv
<1> SUFFICES ASSUME Init PROVE IInv
  OBVIOUS
<1>1. \A t \in Threads : ~Busy(t) /\ pc[t] = "idle"
  BY DEF Init, Busy
<1>2. \A s \in Slots : table[s].key = empty_key /\ ~Held(s)
  BY ArcFacts DEF Init, Cleared, Held
<1>3. TypeOK
  BY TableNotEmpty DEF Init, TypeOK, Cleared, Slots
<1>4. LiveOK
  BY <1>1, <1>2, ArcFacts DEF Init, LiveOK, InTable, Doing
<1> QED BY <1>1, <1>2, <1>3, <1>4
        DEF IInv, KeysCanBeFound, ThreadOK, PhaseOK, ValuesOK, Stored

LEMMA NextInv == IInv /\ [Next]_vars => IInv'
<1> SUFFICES ASSUME IInv, [Next]_vars PROVE IInv'
  OBVIOUS
<1>1. CASE Rebuild
  BY <1>1, RebuildStep
<1>2. ASSUME NEW t \in Threads, Insert(t) \/ Find(t) \/ Delete(t)
      PROVE  IInv'
  BY <1>2, InsertCallStep, FindCallStep, DeleteCallStep
<1>3. ASSUME NEW t \in Threads, Step(t)
      PROVE  IInv'
  <2>1. Busy(t)
    BY <1>3 DEF Step, InsertProbe, InsertClaim, InsertStore, FindProbe,
       DeleteProbe, DeleteBury, At, IInv, ThreadOK
  <2> QED BY <1>3, <2>1, InsertProbeStep, InsertClaimStep, InsertStoreStep,
          FindProbeStep, DeleteProbeStep, DeleteBuryStep DEF Step
<1>4. CASE UNCHANGED vars
  BY <1>4, SMTT(60) DEF vars, thread, IInv, TypeOK, KeysCanBeFound, Held, Before, ThreadOK,
     Busy, Passed, InsertOK, FindOK, DeleteOK, KeyOf, InTable, Buried, PhaseOK,
     ValuesOK, Stored, LiveOK, Doing
<1> QED BY <1>1, <1>2, <1>3, <1>4 DEF Next

(* Keys, tombstones, values and the calls under way agree at every step.   *)
THEOREM Invariance == Spec => []IInv
BY InitInv, NextInv, PTL DEF Spec

(* Slots hold edges or one of the two special keys, requests and replies   *)
(* are what EdgeMap takes and gives, and no index leaves the table.        *)
THEOREM TypeCorrect == Spec => []TypeOK
<1>1. IInv => TypeOK
  BY DEF IInv
<1> QED BY <1>1, Invariance, PTL

(* At every step of concurrent inserts and deletes each edge that is in    *)
(* the table is in one slot, and no slot probed before it is empty.        *)
THEOREM KeysFound == Spec => []KeysCanBeFound
<1>1. IInv => KeysCanBeFound
  BY DEF IInv
<1> QED BY <1>1, Invariance, PTL

(* FreeElements, run between phases, frees every element that is alive,    *)
(* once, and nothing else.                                                 *)
THEOREM FreesExactlyLive == Spec => []FreesWhatIsLive
<1>1. IInv => FreesWhatIsLive
  BY FreedIsLive DEF FreesWhatIsLive
<1> QED BY <1>1, Invariance, PTL

----
(***************************************************************************)
(* The refinement of EdgeDictionary.                                       *)
(***************************************************************************)

InDict(k) == \E s \in Slots : table[s].key = k /\ Stored(s)

(* What the dictionary holds: an arc is there with the element of its own  *)
(* direction.                                                              *)
DictIs == Dict = [a \in Arcs |-> IF InDict(Key(a)) THEN a ELSE Absent]

LEMMA DictFacts == IInv => DictIs
<1> SUFFICES ASSUME IInv, NEW a \in Arcs, InDict(Key(a))
             PROVE  LET v == table[CHOOSE s \in Slots : table[s].key = Key(a)].value IN
                    (IF a = Key(a) THEN v ELSE Twin(v)) = a
  BY DEF DictIs, Dict, InDict
<1>1. PICK s \in Slots : table[s].key = Key(a) /\ Stored(s)
  BY DEF InDict
<1>2. \A x \in Slots : table[x].key = Key(a) => x = s
  BY <1>1, ArcFacts DEF IInv, KeysCanBeFound, Held
<1>3. (CHOOSE x \in Slots : table[x].key = Key(a)) = s
  BY <1>1, <1>2
<1>4. table[s].value = Key(a)
  BY <1>1 DEF IInv, ValuesOK
<1> QED BY <1>3, <1>4, ArcFacts DEF Twin

LEMMA DictFactsNext == IInv' => DictIs'
BY DictFacts, PTL

(* A step after which the same edges are in the dictionary.                *)
LEMMA DictSame ==
  ASSUME IInv, IInv', \A k \in Keys : InDict(k)' <=> InDict(k)
  PROVE  Dict' = Dict
BY DictFacts, DictFactsNext, ArcFacts DEF DictIs

(* Requests, and the steps within a call, are no steps of the dictionary.  *)
LEMMA CallRefines ==
  ASSUME IInv, IInv', NEW t \in Threads, NEW r \in Requests, Request(t, r)
  PROVE  Dictionary!Call(t)
<1>1. /\ ~Busy(t) /\ r # Absent /\ reply' = Absent
      /\ call' = [call EXCEPT ![t] = r] /\ call'[t] = r
  BY ValuesDiffer DEF Request, IInv, TypeOK
<1>2. \A s \in Slots : Stored(s)' <=> Stored(s)
  <2>1. \A u \in Threads : /\ pc'[u] = "store" <=> pc[u] = "store"
                           /\ pc[u] = "store" => h'[u] = h[u]
    BY <1>1 DEF Request, IInv, TypeOK, ThreadOK
  <2> QED BY <2>1 DEF Stored, Held, Request
<1>3. Dict' = Dict
  BY <1>2, DictSame DEF InDict, Request
<1> QED BY <1>1, <1>3 DEF Dictionary!Call, Busy

LEMMA SilentRefines ==
  ASSUME IInv, IInv', reply' = Absent, UNCHANGED call,
         \A s \in Slots : table'[s].key = table[s].key /\ (Stored(s)' <=> Stored(s))
  PROVE  Dictionary!Forget
<1>1. Dict' = Dict
  BY DictSame DEF InDict
<1> QED BY <1>1 DEF Dictionary!Forget

LEMMA GoOnRefines ==
  ASSUME IInv, IInv', NEW t \in Threads, pc[t] # "store", GoOn(t)
  PROVE  Dictionary!Forget
<1>1. \A u \in Threads : /\ pc'[u] = "store" <=> pc[u] = "store"
                         /\ pc[u] = "store" => h'[u] = h[u]
  BY DEF GoOn, IInv, TypeOK
<1> QED BY <1>1, SilentRefines DEF GoOn, Stored, Held

(* A return that leaves the table as it is changes nothing that is stored. *)
LEMMA ReturnKeepsDict ==
  ASSUME IInv, IInv', NEW t \in Threads, pc[t] # "store", NEW value,
         Return(t, value), UNCHANGED table
  PROVE  Dict' = Dict
<1>1. \A u \in Threads : /\ pc'[u] = "store" <=> pc[u] = "store"
                         /\ pc[u] = "store" => h'[u] = h[u]
  BY DEF Return, IInv, TypeOK
<1> QED BY <1>1, DictSame DEF InDict, Stored, Held

LEMMA InsertProbeRefines ==
  ASSUME IInv, IInv', NEW t \in Threads, Busy(t), InsertProbe(t)
  PROVE  Dictionary!Forget \/ Dictionary!Insert(t)
<1> DEFINE key == table[h[t]].key
<1>1. pc[t] = "probe" /\ call[t].op = "Insert"
  BY DEF InsertProbe, At
<1>2. CASE pc' = [pc EXCEPT ![t] = "claim"] /\ reply' = Absent
           /\ UNCHANGED <<table, call, h>>
  <2>1. \A u \in Threads : pc'[u] = "store" <=> pc[u] = "store"
    BY <1>1, <1>2 DEF IInv, TypeOK
  <2> QED BY <1>2, <2>1, SilentRefines DEF Stored, Held
<1>3. CASE key = KeyOf(t) /\ Return(t, No) /\ UNCHANGED table
  <2>1. /\ h[t] \in Slots /\ KeyOf(t) \in Keys /\ KeyOf(t) \in Arcs
        /\ Key(KeyOf(t)) = KeyOf(t) /\ call[t].edge = KeyOf(t)
    BY <1>1, CallFacts, ArcFacts DEF IInv, TypeOK, ThreadOK, InsertOK
  <2>2. ASSUME NEW u \in Threads, pc[u] = "store", h[u] = h[t] PROVE FALSE
    <3>1. Busy(u) /\ call[u].op = "Insert" /\ KeyOf(u) # KeyOf(t)
      BY <1>1, <2>2 DEF IInv, ThreadOK, PhaseOK
    <3>2. table[h[u]].key = KeyOf(u)
      BY <2>2, <3>1 DEF IInv, ThreadOK, InsertOK
    <3> QED BY <1>3, <2>2, <3>1, <3>2
  <2>3. InDict(KeyOf(t))
    BY <1>3, <2>1, <2>2 DEF InDict, Stored, Held
  <2>4. Dict[KeyOf(t)] # Absent
    BY <2>1, <2>3, DictFacts, ValuesDiffer DEF DictIs
  <2>5. Dict' = Dict
    BY <1>1, <1>3, ReturnKeepsDict
  <2> QED BY <1>1, <1>3, <2>1, <2>4, <2>5
          DEF Dictionary!Insert, Dictionary!Serves, Dictionary!Returns, Return, Busy
<1>4. CASE GoOn(t)
  BY <1>1, <1>4, GoOnRefines
<1> QED BY <1>2, <1>3, <1>4 DEF InsertProbe

LEMMA InsertClaimRefines ==
  ASSUME IInv, IInv', NEW t \in Threads, Busy(t), InsertClaim(t)
  PROVE  Dictionary!Forget
<1>1. pc[t] = "claim" /\ call[t].op = "Insert"
  BY DEF InsertClaim, At
<1>2. CASE GoOn(t)
  BY <1>1, <1>2, GoOnRefines
<1>3. CASE /\ table[h[t]].key = seen[t]
           /\ table' = [table EXCEPT ![h[t]].key = KeyOf(t)]
           /\ pc' = [pc EXCEPT ![t] = "store"] /\ reply' = Absent
           /\ UNCHANGED <<call, h, seen>>
  <2>1. h[t] \in Slots /\ seen[t] \in {empty_key, tombstone}
    BY DEF IInv, TypeOK
  <2>2. /\ \A s \in Slots : s # h[t] => table'[s].key = table[s].key
        /\ \A u \in Threads : u # t => pc'[u] = pc[u]
        /\ pc'[t] = "store" /\ h' = h
    BY <1>3 DEF IInv, TypeOK
  <2>3. ~Stored(h[t]) /\ ~Stored(h[t])'
    BY <1>3, <2>1, <2>2, ArcFacts DEF Stored, Held
  <2>4. \A s \in Slots : s # h[t] => (Stored(s)' <=> Stored(s))
    BY <1>1, <2>2 DEF Stored, Held
  <2>5. Dict' = Dict
    BY <2>2, <2>3, <2>4, DictSame DEF InDict
  <2> QED BY <1>3, <2>5 DEF Dictionary!Forget
<1> QED BY <1>2, <1>3 DEF InsertClaim

(* An insert takes effect when it stores its value.                        *)
LEMMA InsertStoreRefines ==
  ASSUME IInv, IInv', NEW t \in Threads, Busy(t), InsertStore(t)
  PROVE  Dictionary!Insert(t)
<1>0. PICK k \in Keys : k = KeyOf(t)
  BY CallFacts
<1>1. /\ pc[t] = "store" /\ call[t].op = "Insert"
      /\ table' = [table EXCEPT ![h[t]].value = call[t].edge]
      /\ Return(t, Yes)
  BY DEF InsertStore, At
<1>2. /\ h[t] \in Slots /\ k \in Arcs /\ Key(k) = k
      /\ call[t].edge = k /\ table[h[t]].key = k
  BY <1>0, <1>1, CallFacts, ArcFacts DEF IInv, TypeOK, ThreadOK, InsertOK
<1>3. /\ \A s \in Slots : table'[s].key = table[s].key
      /\ \A u \in Threads : u # t => pc'[u] = pc[u] /\ h'[u] = h[u]
      /\ pc'[t] = "idle"
  BY <1>1, <1>2 DEF IInv, TypeOK, Return
<1>4. \A s \in Slots : table[s].key = k => s = h[t]
  BY <1>2 DEF IInv, KeysCanBeFound, Held
<1>5. ~InDict(k)
  BY <1>1, <1>4 DEF InDict, Stored
<1>6. InDict(k)'
  <2>1. ASSUME NEW u \in Threads, u # t, pc[u] = "store", h[u] = h[t] PROVE FALSE
    <3>1. Busy(u) /\ call[u].op = "Insert" /\ KeyOf(u) # KeyOf(t)
      BY <1>1, <2>1 DEF IInv, ThreadOK, PhaseOK
    <3>2. table[h[u]].key = KeyOf(u)
      BY <2>1, <3>1 DEF IInv, ThreadOK, InsertOK
    <3> QED BY <1>0, <1>2, <2>1, <3>1, <3>2
  <2> QED BY <1>2, <1>3, <2>1 DEF InDict, Stored, Held
<1>7. ASSUME NEW l \in Keys, l # k PROVE InDict(l)' <=> InDict(l)
  <2>1. \A s \in Slots : s # h[t] => (Stored(s)' <=> Stored(s))
    BY <1>3 DEF Stored, Held
  <2> QED BY <1>2, <1>3, <1>7, <2>1 DEF InDict
<1>8. Dict' = [Dict EXCEPT ![k] = k, ![Reverse(k)] = Reverse(k)]
  <2>1. \A a \in Arcs : Key(a) = k <=> a = k \/ a = Reverse(k)
    BY <1>2, ArcFacts
  <2> QED BY <1>2, <1>5, <1>6, <1>7, <2>1, DictFacts, DictFactsNext, ArcFacts DEF DictIs
<1>9. Dict[k] = Absent
  BY <1>2, <1>5, DictFacts DEF DictIs
<1>10. Dictionary!Reverse(k) = Reverse(k)
  BY DEF Dictionary!Reverse, Reverse
<1> QED BY <1>1, <1>2, <1>8, <1>9, <1>10
        DEF Dictionary!Insert, Dictionary!Serves, Dictionary!Returns, Return, Busy

LEMMA FindProbeRefines ==
  ASSUME IInv, IInv', NEW t \in Threads, Busy(t), FindProbe(t)
  PROVE  Dictionary!Forget \/ Dictionary!Find(t)
<1> DEFINE kv == table[h[t]]
<1>1. pc[t] = "probe" /\ call[t].op = "Find"
  BY DEF FindProbe, At
<1>2. /\ h[t] \in Slots /\ KeyOf(t) \in Keys /\ call[t].arc \in Arcs
      /\ KeyOf(t) = Key(call[t].arc)
  BY CallFacts DEF IInv, TypeOK
<1>3. CASE kv.key \in {KeyOf(t), empty_key}
  <2>1. kv.key = KeyOf(t)
    BY <1>1, <1>3, EmptyMeansAbsent DEF IInv, ThreadOK, FindOK
  <2>2. Stored(h[t])
    <3>1. ASSUME NEW u \in Threads, pc[u] = "store" PROVE FALSE
      <4>1. Busy(u) /\ call[u].op = "Find"
        BY <1>1, <3>1 DEF IInv, ThreadOK, PhaseOK
      <4> QED BY <3>1, <4>1 DEF IInv, ThreadOK, FindOK
    <3> QED BY <1>2, <2>1, <3>1 DEF Stored, Held
  <2>3. kv.value = Key(call[t].arc)
    BY <1>2, <2>1, <2>2 DEF IInv, ValuesOK
  <2>4. Return(t, call[t].arc) /\ UNCHANGED table
    BY <1>2, <2>1, <2>3, ArcFacts DEF FindProbe, Twin
  <2>5. Dict[call[t].arc] = call[t].arc
    BY <1>2, <2>1, <2>2, DictFacts DEF DictIs, InDict
  <2>6. Dict' = Dict
    BY <1>1, <2>4, ReturnKeepsDict
  <2> QED BY <1>1, <2>4, <2>5, <2>6
          DEF Dictionary!Find, Dictionary!Serves, Dictionary!Returns, Return, Busy
<1>4. CASE kv.key \notin {KeyOf(t), empty_key}
  BY <1>1, <1>4, GoOnRefines DEF FindProbe
<1> QED BY <1>3, <1>4

LEMMA DeleteProbeRefines ==
  ASSUME IInv, IInv', NEW t \in Threads, Busy(t), DeleteProbe(t)
  PROVE  Dictionary!Forget \/ Dictionary!Delete(t)
<1> DEFINE key == table[h[t]].key
<1>1. pc[t] = "probe" /\ call[t].op = "Delete"
  BY DEF DeleteProbe, At
<1>2. CASE key = empty_key /\ Return(t, No) /\ UNCHANGED table
  <2>1. PICK a \in Arcs : a = call[t].arc /\ Key(a) = KeyOf(t)
    BY CallFacts
  <2>2. ~InDict(Key(a)) /\ Key(Reverse(a)) = Key(a) /\ Reverse(a) \in Arcs
    BY <1>2, <2>1, EmptyMeansAbsent, ArcFacts DEF InDict, InTable
  <2>3. Dict = [b \in Arcs |-> IF InDict(Key(b)) THEN b ELSE Absent]
    BY DictFacts DEF DictIs
  <2>4. Dict[a] = Absent /\ Dict[Reverse(a)] = Absent
    BY <2>2, <2>3
  <2>5. Dict = [Dict EXCEPT ![a] = Absent, ![Reverse(a)] = Absent]
    BY <2>3, <2>4
  <2>6. Dict' = Dict
    BY <1>1, <1>2, ReturnKeepsDict
  <2>7. Dictionary!Reverse(a) = Reverse(a)
    BY DEF Dictionary!Reverse, Reverse
  <2> QED BY <1>1, <1>2, <2>1, <2>4, <2>5, <2>6, <2>7
          DEF Dictionary!Delete, Dictionary!Serves, Dictionary!Returns, Return, Busy
<1>3. CASE pc' = [pc EXCEPT ![t] = "bury"] /\ reply' = Absent
           /\ UNCHANGED <<table, call, h, seen>>
  <2>1. \A u \in Threads : pc'[u] = "store" <=> pc[u] = "store"
    BY <1>1, <1>3 DEF IInv, TypeOK
  <2> QED BY <1>3, <2>1, SilentRefines DEF Stored, Held
<1>4. CASE GoOn(t)
  BY <1>1, <1>4, GoOnRefines
<1> QED BY <1>2, <1>3, <1>4 DEF DeleteProbe

(* A delete takes effect when it writes the tombstone.                     *)
LEMMA DeleteBuryRefines ==
  ASSUME IInv, IInv', NEW t \in Threads, Busy(t), DeleteBury(t)
  PROVE  Dictionary!Delete(t)
<1>1. /\ pc[t] = "bury" /\ call[t].op = "Delete"
      /\ table' = [table EXCEPT ![h[t]].key = tombstone]
      /\ Return(t, Yes)
  BY DEF DeleteBury, At
<1>2. PICK k \in Keys : k = KeyOf(t)
  BY CallFacts
<1>3. /\ h[t] \in Slots /\ k \in Arcs /\ Key(k) = k
      /\ call[t].arc = k /\ table[h[t]].key = k
  BY <1>1, <1>2, CallFacts, ArcFacts DEF IInv, TypeOK, ThreadOK, DeleteOK
<1>4. /\ \A s \in Slots : table'[s].key = IF s = h[t] THEN tombstone ELSE table[s].key
      /\ \A u \in Threads : u # t => pc'[u] = pc[u] /\ h'[u] = h[u]
      /\ pc'[t] = "idle"
  BY <1>1, <1>3 DEF IInv, TypeOK, Return
<1>5. \A s \in Slots : table[s].key = k => s = h[t]
  BY <1>3 DEF IInv, KeysCanBeFound, Held
<1>6. ASSUME NEW u \in Threads, pc[u] = "store" PROVE FALSE
  <2>1. Busy(u) /\ call[u].op = "Delete"
    BY <1>1, <1>6 DEF IInv, ThreadOK, PhaseOK
  <2> QED BY <1>6, <2>1 DEF IInv, ThreadOK, DeleteOK
<1>7. InDict(k)
  BY <1>3, <1>6 DEF InDict, Stored, Held
<1>8. ~InDict(k)'
  BY <1>4, <1>5, ArcFacts DEF InDict
<1>9. ASSUME NEW l \in Keys, l # k PROVE InDict(l)' <=> InDict(l)
  <2>1. \A s \in Slots : s # h[t] => (Stored(s)' <=> Stored(s))
    BY <1>1, <1>4, <1>6 DEF Stored, Held
  <2> QED BY <1>3, <1>4, <1>9, <2>1, ArcFacts DEF InDict
<1>10. Dict' = [Dict EXCEPT ![k] = Absent, ![Reverse(k)] = Absent]
  <2>1. \A a \in Arcs : Key(a) = k <=> a = k \/ a = Reverse(k)
    BY <1>3, ArcFacts
  <2> QED BY <1>3, <1>7, <1>8, <1>9, <2>1, DictFacts, DictFactsNext, ArcFacts DEF DictIs
<1>11. Dict[k] # Absent
  BY <1>3, <1>7, DictFacts, ValuesDiffer DEF DictIs
<1>12. Dictionary!Reverse(k) = Reverse(k)
  BY DEF Dictionary!Reverse, Reverse
<1> QED BY <1>1, <1>3, <1>10, <1>11, <1>12
        DEF Dictionary!Delete, Dictionary!Serves, Dictionary!Returns, Return, Busy

LEMMA RebuildRefines ==
  ASSUME IInv, IInv', Rebuild
  PROVE  Dictionary!Clear
<1>1. \A k \in Keys : ~InDict(k)'
  BY ArcFacts DEF Rebuild, Cleared, InDict
<1>2. Dict' = [a \in Arcs |-> Absent]
  BY <1>1, DictFactsNext, ArcFacts DEF DictIs
<1> QED BY <1>2 DEF Dictionary!Clear, Rebuild, Quiet, Busy

LEMMA InitRefines == Init => Dictionary!Init
<1> SUFFICES ASSUME Init PROVE Dictionary!Init
  OBVIOUS
<1>1. IInv
  BY InitInv
<1>2. \A k \in Keys : ~InDict(k)
  BY ArcFacts DEF Init, Cleared, InDict
<1>3. Dict = [a \in Arcs |-> Absent]
  BY <1>1, <1>2, DictFacts, ArcFacts DEF DictIs
<1> QED BY <1>3 DEF Init, Dictionary!Init

LEMMA StepRefines ==
  IInv /\ IInv' /\ [Next]_vars => [Dictionary!Next]_(Dictionary!vars)
<1> SUFFICES ASSUME IInv, IInv', [Next]_vars
             PROVE  Dictionary!Next \/ UNCHANGED Dictionary!vars
  OBVIOUS
<1>1. CASE Rebuild
  BY <1>1, RebuildRefines DEF Dictionary!Next
<1>2. ASSUME NEW t \in Threads, Insert(t) \/ Find(t) \/ Delete(t)
      PROVE  Dictionary!Next
  <2>1. \E r \in Requests : Request(t, r)
    <3>1. CASE Insert(t)
      BY <3>1, ArcFacts DEF Insert, Requests, Twin
    <3>2. CASE Find(t)
      BY <3>2 DEF Find, Requests
    <3>3. CASE Delete(t)
      BY <3>3, ArcFacts DEF Delete, Requests
    <3> QED BY <1>2, <3>1, <3>2, <3>3
  <2> QED BY <2>1, CallRefines DEF Dictionary!Next
<1>3. ASSUME NEW t \in Threads, Step(t)
      PROVE  Dictionary!Next
  <2>1. Busy(t)
    BY <1>3 DEF Step, InsertProbe, InsertClaim, InsertStore, FindProbe,
       DeleteProbe, DeleteBury, At, IInv, ThreadOK
  <2> QED BY <1>3, <2>1, InsertProbeRefines, InsertClaimRefines, InsertStoreRefines,
          FindProbeRefines, DeleteProbeRefines, DeleteBuryRefines
          DEF Step, Dictionary!Next
<1>4. CASE UNCHANGED vars
  <2>1. Dict' = Dict
    BY <1>4, DictSame DEF vars, thread, InDict, Stored, Held
  <2> QED BY <1>4, <2>1 DEF vars, thread, Dictionary!vars
<1> QED BY <1>1, <1>2, <1>3, <1>4 DEF Next

(* The table, used by any number of threads, is a dictionary each of whose *)
(* calls takes effect at one moment.                                       *)
THEOREM Refinement == Spec => Implements
<1>1. Spec => []IInv /\ Init /\ [][Next]_vars
  BY Invariance DEF Spec
<1>2. Init => Dictionary!Init
  BY InitRefines
<1>3. IInv /\ IInv' /\ [Next]_vars => [Dictionary!Next]_(Dictionary!vars)
  BY StepRefines
<1> QED BY <1>1, <1>2, <1>3, PTL DEF Implements, Dictionary!Spec
====
