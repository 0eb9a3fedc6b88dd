---- MODULE EdgeMap ----
(***************************************************************************)
(* The edge map of the Euler tour tree (edge_map.cpp) on the concurrent    *)
(* hash table with linear probing (concurrentMap.h).                       *)
(*                                                                         *)
(* The table is phase-concurrent: the parallel_for loops that use it make  *)
(* calls of one kind at a time.  Within a phase every read of a slot,      *)
(* every CAS on a key and every store is a step.  A deleted key leaves a   *)
(* tombstone, which only an insert takes again, and its stale value.       *)
(***************************************************************************)
EXTENDS Integers, FiniteSets

CONSTANTS Threads,
          Keys,        \* the edges <<u, v>> with u < v
          Capacity,    \* capacity; mask is Capacity - 1
          firstIndex,  \* H(k) & mask, for every key
          MaxEdges,    \* the most edges the caller's forest ever has
          Yes, No,     \* the replies true and false
          Absent       \* no element, no request, no reply

Slots == 0 .. Capacity - 1

(* Vertices are numbered from 0, so that the two special keys are no edges. *)
ASSUME KeysOrdered == Keys \subseteq {k \in Nat \X Nat : k[1] < k[2]}
ASSUME TableNotEmpty == Capacity \in Nat \ {0}
ASSUME HashesIntoTable == firstIndex \in [Keys -> Slots]
(* A forest has less edges than vertices, and the constructor makes the    *)
(* table larger than that.                                                 *)
ASSUME TableLarger == MaxEdges < Capacity

empty_key == <<-1, -1>>
tombstone == <<-2, -2>>

Reverse(a) == <<a[2], a[1]>>
Arcs == Keys \cup {Reverse(k) : k \in Keys}
(* An element is named by the direction of the edge it stands for.         *)
Twin(e) == Reverse(e)
Key(a) == IF a[1] > a[2] THEN Reverse(a) ELSE a

Requests == [op : {"Insert"}, arc : Arcs, edge : Arcs]
              \cup [op : {"Find", "Delete"}, arc : Arcs]

ASSUME ValuesDiffer ==
  /\ Yes # No
  /\ {Yes, No, Absent} \cap Arcs = {}
  /\ Absent \notin {Yes, No} \cup Requests

VARIABLES
  table,  \* a key and a value in every slot
  call,   \* the request of every thread, or Absent
  pc, h,  \* where it is, and its slot
  seen,   \* the key it read there
  reply,  \* what a call gave that has just returned
  live    \* the elements the Euler tour tree has allocated for edges

thread == <<call, pc, h, seen, reply>>
vars == <<table, thread, live>>

TypeOK ==
  /\ table \in [Slots -> [key : Keys \cup {empty_key, tombstone},
                          value : Arcs \cup {Absent}]]
  /\ call \in [Threads -> Requests \cup {Absent}]
  /\ pc \in [Threads -> {"idle", "probe", "claim", "store", "bury"}]
  /\ h \in [Threads -> Slots]
  /\ seen \in [Threads -> {empty_key, tombstone}]
  /\ reply \in Arcs \cup {Yes, No, Absent}
  /\ live \subseteq Arcs

Cleared == [s \in Slots |-> [key |-> empty_key, value |-> Absent]]

Init ==
  /\ table = Cleared
  /\ call = [t \in Threads |-> Absent]
  /\ pc = [t \in Threads |-> "idle"]
  /\ h = [t \in Threads |-> 0]
  /\ seen = [t \in Threads |-> empty_key]
  /\ reply = Absent
  /\ live = {}

----
(* Calls *)

Busy(t) == call[t] # Absent
Quiet == \A t \in Threads : ~Busy(t)
InPhase(op) == \A t \in Threads : Busy(t) => call[t].op = op
InUse(k) == \E t \in Threads : Busy(t) /\ Key(call[t].arc) = k

(* Mutant: only empty slots are told apart.                                *)
HeldNotEmpty(s) == table[s].key # empty_key

Held(s) == table[s].key \in Keys
InTable(k) == \E s \in Slots : table[s].key = k
EmptyLeft == \E s \in Slots : table[s].key = empty_key
Buried == \E s \in Slots : table[s].key = tombstone

(* The edges in the table and those on their way.                          *)
Edges == {k \in Keys : InTable(k) \/ (InUse(k) /\ InPhase("Insert"))}

Request(t, r) ==
  /\ ~Busy(t) /\ InPhase(r.op)
  /\ call' = [call EXCEPT ![t] = r]
  /\ pc' = [pc EXCEPT ![t] = "probe"]
  /\ h' = [h EXCEPT ![t] = firstIndex[Key(r.arc)]]
  /\ reply' = Absent
  /\ UNCHANGED <<table, seen>>

(* A new edge, with new elements; or one that is there, which is refused   *)
(* as long as no tombstone can come before it.  No edge twice in a phase.  *)
(* EdgeMap::Insert passes the direction u < v and its element on.          *)
Insert(t) ==
  \E uv \in Arcs :
    /\ ~InUse(Key(uv))
    /\ IF InTable(Key(uv)) THEN ~Buried
       ELSE Cardinality(Edges) < MaxEdges
    /\ live' = IF InTable(Key(uv)) THEN live ELSE live \cup {uv, Twin(uv)}
    /\ Request(t, [op |-> "Insert", arc |-> Key(uv),
                   edge |-> IF uv[1] > uv[2] THEN Twin(uv) ELSE uv])

(* EdgeMap::Find reads the value of what find returns without asking       *)
(* whether there is one: it is called for edges that are there.            *)
Find(t) ==
  \E a \in Arcs :
    /\ InTable(Key(a))
    /\ Request(t, [op |-> "Find", arc |-> a])
    /\ UNCHANGED live

(* Cut and BatchCut delete an edge that is there, each one once, and free  *)
(* its elements; any other edge only ends while an empty slot is left.     *)
Delete(t) ==
  \E a \in Arcs :
    /\ ~InUse(Key(a)) /\ (InTable(Key(a)) \/ EmptyLeft)
    /\ Request(t, [op |-> "Delete", arc |-> Key(a)])
    /\ live' = {e \in live : Key(e) # Key(a)}

----
(* The hash table *)

KeyOf(t) == Key(call[t].arc)

(* Mutant: the index is not masked.                                       *)
incrementIndexUnmasked(i) == i + 1

incrementIndex(i) == (i + 1) % Capacity

GoOn(t) ==
  /\ h' = [h EXCEPT ![t] = incrementIndex(@)]
  /\ pc' = [pc EXCEPT ![t] = "probe"]
  /\ UNCHANGED <<table, call, seen>>
  /\ reply' = Absent

Return(t, value) ==
  /\ call' = [call EXCEPT ![t] = Absent]
  /\ pc' = [pc EXCEPT ![t] = "idle"]
  /\ h' = [h EXCEPT ![t] = 0]
  /\ seen' = [seen EXCEPT ![t] = empty_key]
  /\ reply' = value

At(t, p, op) == pc[t] = p /\ call[t].op = op /\ UNCHANGED live

(* Mutant: tombstones are never taken again.                               *)
FreeToInsertEmptyOnly(key) == key = empty_key

FreeToInsert(key) == key \in {empty_key, tombstone}

(* insert *)
InsertProbe(t) ==
  /\ At(t, "probe", "Insert")
  /\ LET key == table[h[t]].key IN
     \/ /\ FreeToInsert(key)
        /\ seen' = [seen EXCEPT ![t] = key]
        /\ pc' = [pc EXCEPT ![t] = "claim"]
        /\ reply' = Absent
        /\ UNCHANGED <<table, call, h>>
     \/ key = KeyOf(t) /\ Return(t, No) /\ UNCHANGED table
     \/ ~FreeToInsert(key) /\ key # KeyOf(t) /\ GoOn(t)

(* Mutant: the key is stored without a CAS.                                *)
InsertClaimStored(t) ==
  /\ At(t, "claim", "Insert")
  /\ table' = [table EXCEPT ![h[t]].key = KeyOf(t)]
  /\ pc' = [pc EXCEPT ![t] = "store"]
  /\ reply' = Absent
  /\ UNCHANGED <<call, h, seen>>

(* The CAS on the key.  When it fails the slot is passed over.             *)
InsertClaim(t) ==
  /\ At(t, "claim", "Insert")
  /\ \/ /\ table[h[t]].key = seen[t]
        /\ table' = [table EXCEPT ![h[t]].key = KeyOf(t)]
        /\ pc' = [pc EXCEPT ![t] = "store"]
        /\ reply' = Absent
        /\ UNCHANGED <<call, h, seen>>
     \/ table[h[t]].key # seen[t] /\ GoOn(t)

InsertStore(t) ==
  /\ At(t, "store", "Insert")
  /\ table' = [table EXCEPT ![h[t]].value = call[t].edge]
  /\ Return(t, Yes)

(* find, in a phase in which nobody writes                                 *)
FindProbe(t) ==
  /\ At(t, "probe", "Find")
  /\ LET r == call[t]
         kv == table[h[t]]
         found == IF r.arc[1] > r.arc[2] THEN Twin(kv.value) ELSE kv.value IN
     IF kv.key \in {KeyOf(t), empty_key}
     THEN /\ Return(t, IF kv.key = KeyOf(t) THEN found ELSE Absent)
          /\ UNCHANGED table
     ELSE GoOn(t)

(* deleteVal *)
DeleteProbe(t) ==
  /\ At(t, "probe", "Delete")
  /\ LET key == table[h[t]].key IN
     \/ key = empty_key /\ Return(t, No) /\ UNCHANGED table
     \/ /\ key = KeyOf(t)
        /\ pc' = [pc EXCEPT ![t] = "bury"]
        /\ reply' = Absent
        /\ UNCHANGED <<table, call, h, seen>>
     \/ key \notin {empty_key, KeyOf(t)} /\ GoOn(t)

(* Mutant: the slot is emptied.                                            *)
DeleteBuryEmpty(t) ==
  /\ At(t, "bury", "Delete")
  /\ table' = [table EXCEPT ![h[t]].key = empty_key]
  /\ Return(t, Yes)

DeleteBury(t) ==
  /\ At(t, "bury", "Delete")
  /\ table' = [table EXCEPT ![h[t]].key = tombstone]
  /\ Return(t, Yes)

----
(* FreeElements frees the elements of every slot that holds a key.         *)
Freed == UNION {{table[s].value, Twin(table[s].value)} : s \in {x \in Slots : Held(x)}}

(* The destructor of the tree, and the construction of the next one.       *)
Rebuild ==
  /\ Quiet
  /\ live' = live \ Freed
  /\ table' = Cleared
  /\ reply' = Absent
  /\ UNCHANGED <<call, pc, h, seen>>

Step(t) ==
  \/ InsertProbe(t) \/ InsertClaim(t) \/ InsertStore(t)
  \/ FindProbe(t)
  \/ DeleteProbe(t) \/ DeleteBury(t)

Next == Rebuild \/ \E t \in Threads : Insert(t) \/ Find(t) \/ Delete(t) \/ Step(t)

Spec == Init /\ [][Next]_vars

(* A worker of the pool that runs a call goes on with it.                  *)
FairSpec == Spec /\ \A t \in Threads : WF_vars(Step(t))

----
(* Properties *)

(* A key can be found: it is in one slot, and none of the slots that are   *)
(* probed before it is empty.  Holds at every step of a phase, so that a   *)
(* delete that left its slot empty, or two inserts that took one key,      *)
(* would break it.                                                         *)
Before(s, k) == {x \in Slots : (x - firstIndex[k]) % Capacity < (s - firstIndex[k]) % Capacity}
KeysCanBeFound ==
  \A s \in Slots : Held(s) =>
    LET k == table[s].key IN
    /\ \A x \in Before(s, k) : table[x].key # empty_key
    /\ \A x \in Slots \ {s} : table[x].key # k

(* Between phases FreeElements would free exactly the elements that are    *)
(* allocated, each once: stale values under tombstones are not freed       *)
(* again, and no edge of the forest is forgotten.                          *)
FreesWhatIsLive ==
  Quiet =>
    /\ Freed = live
    /\ \A s, x \in Slots : s # x /\ Held(s) /\ Held(x) => table[s].value # table[x].value

(* Every call returns, also when inserts and deletes have left a table     *)
(* without a single empty slot.                                            *)
CallsReturn == \A t \in Threads : pc[t] # "idle" ~> pc[t] = "idle"

(* The table implements a dictionary: an insert takes effect when it has   *)
(* stored its value, a delete when the tombstone is written.               *)
Stored(s) == Held(s) /\ ~\E t \in Threads : pc[t] = "store" /\ h[t] = s
Dict ==
  [a \in Arcs |->
     IF \E s \in Slots : table[s].key = Key(a) /\ Stored(s)
     THEN LET v == table[CHOOSE s \in Slots : table[s].key = Key(a)].value IN
          IF a = Key(a) THEN v ELSE Twin(v)
     ELSE Absent]
Dictionary == INSTANCE EdgeDictionary WITH dict <- Dict, Callers <- Threads
Implements == Dictionary!Spec
====
