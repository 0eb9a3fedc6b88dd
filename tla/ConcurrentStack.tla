---- MODULE ConcurrentStack ----
(***************************************************************************)
(* The concurrent stack (concurrent_stack.h): two linked stacks, a with    *)
(* the values and b with spare nodes.  A push takes a node from b and      *)
(* gives it to a, a pop the other way round.  Each of the two reads the    *)
(* head, follows or sets a link, and swings the head with a CAS of 128     *)
(* bits over the node and a counter.                                       *)
(*                                                                         *)
(* The copy of the head is two reads of 64 bits, in the order of their     *)
(* addresses, as compilers for x86-64 emit them where they do not use one  *)
(* read of 128 bits.                                                       *)
(***************************************************************************)
EXTENDS Integers, FiniteSets, Sequences

CONSTANTS Threads,
          MaxNodes,    \* the nodes that malloc has memory for
          Initial,     \* this many values have been pushed at first
          MaxCalls,    \* bounds the calls of push and pop
          Empty,       \* the result of a pop that finds nothing
          Null

ASSUME Bounds ==
  /\ MaxNodes \in Nat /\ Initial \in Nat /\ MaxCalls \in Nat
  /\ Initial <= MaxNodes
ASSUME FiniteThreads == IsFiniteSet(Threads)

Nodes == 1 .. MaxNodes
ASSUME NullIsNoNode == Null \notin Nodes

(* Every push has a value of its own: its number, or 0 and below for the   *)
(* values that have been pushed at first.                                  *)
Values == 1 - Initial .. MaxCalls

Ref == Nodes \cup {Null}
Sides == {"a", "b"}

VARIABLES
  head,                 \* of each side, a node and a counter
  value, next, length,  \* of every node
  allocated,            \* the nodes that malloc gave and free has not taken back
  calls,                \* how many calls there have been
  op, pc,               \* the call of every thread, and where it is
  stage,                \* whether it takes its node or gives it
  x,                    \* its node
  arg,                  \* the value it pushes, or has popped
  old,                  \* its copy of the head
  link                  \* the next node of the head it read

nodes == <<value, next, length, allocated>>
vars == <<head, nodes, calls, op, pc, stage, x, arg, old, link>>

Counters == 0 .. 2 * (Initial + MaxCalls)
Heads == [node : Ref, counter : Counters]

TypeOK ==
  /\ head \in [Sides -> Heads]
  /\ value \in [Nodes -> Values \cup {Empty}]
  /\ next \in [Nodes -> Ref]
  /\ length \in [Nodes -> 0 .. MaxNodes]
  /\ allocated \in SUBSET Nodes
  /\ calls \in 0 .. MaxCalls
  /\ op \in [Threads -> {"idle", "push", "pop"}]
  /\ pc \in [Threads -> {"head", "counter", "read", "swing"}]
  /\ stage \in [Threads -> {"take", "give"}]
  /\ x \in [Threads -> Ref]
  /\ arg \in [Threads -> Values \cup {Empty}]
  /\ old \in [Threads -> Heads]
  /\ link \in [Threads -> Ref]

NoHead == [node |-> Null, counter |-> 0]

(* A stack onto which the nodes 1 to k were pushed.                        *)
Pushed(k) ==
  /\ head = [a |-> [node |-> IF k = 0 THEN Null ELSE k, counter |-> k], b |-> NoHead]
  /\ allocated = 1 .. k
  /\ next = [n \in Nodes |-> IF n \in 2 .. k THEN n - 1 ELSE Null]
  /\ length = [n \in Nodes |-> IF n <= k THEN n ELSE 0]
  /\ value = [n \in Nodes |-> IF n <= k THEN 1 - n ELSE Empty]

Init ==
  /\ Pushed(Initial)
  /\ calls = 0
  /\ op = [t \in Threads |-> "idle"]
  /\ pc = [t \in Threads |-> "head"]
  /\ stage = [t \in Threads |-> "take"]
  /\ x = [t \in Threads |-> Null]
  /\ arg = [t \in Threads |-> Empty]
  /\ old = [t \in Threads |-> NoHead]
  /\ link = [t \in Threads |-> Null]

----
(* The side a thread works on: a push takes from b, a pop from a.          *)
Side(t) == IF (op[t] = "push") = (stage[t] = "take") THEN "b" ELSE "a"

At(t, p) == op[t] # "idle" /\ pc[t] = p

Goes(t, p) == pc' = [pc EXCEPT ![t] = p]

Quiet == \A t \in Threads : op[t] = "idle"

Start(t, o, v) ==
  /\ op[t] = "idle"
  /\ calls < MaxCalls
  /\ calls' = calls + 1
  /\ op' = [op EXCEPT ![t] = o]
  /\ arg' = [arg EXCEPT ![t] = v]
  /\ UNCHANGED <<head, nodes, pc, stage, x, old, link>>

Push(t) == Start(t, "push", calls + 1)
Pop(t) == Start(t, "pop", Empty)

(* oldHead = head: the half with the node, then the half with the counter *)
ReadNode(t) ==
  /\ At(t, "head")
  /\ old' = [old EXCEPT ![t].node = head[Side(t)].node]
  /\ Goes(t, "counter")
  /\ UNCHANGED <<head, nodes, calls, op, stage, x, arg, link>>

ReadCounter(t) ==
  /\ At(t, "counter")
  /\ old' = [old EXCEPT ![t].counter = head[Side(t)].counter]
  /\ Goes(t, "read")
  /\ UNCHANGED <<head, nodes, calls, op, stage, x, arg, link>>

Forget(t) ==
  /\ old' = [old EXCEPT ![t] = NoHead]
  /\ link' = [link EXCEPT ![t] = Null]
  /\ Goes(t, "head")

Return(t) ==
  /\ op' = [op EXCEPT ![t] = "idle"]
  /\ stage' = [stage EXCEPT ![t] = "take"]
  /\ x' = [x EXCEPT ![t] = Null]
  /\ arg' = [arg EXCEPT ![t] = Empty]
  /\ Forget(t)

(* Mutant: a push sets the value of a node from malloc only.               *)
TookSpareAsItIs(t, n) ==
  /\ x' = [x EXCEPT ![t] = n]
  /\ stage' = [stage EXCEPT ![t] = "give"]
  /\ IF op[t] = "push"
     THEN /\ value' = [value EXCEPT ![n] = IF pc[t] = "read" THEN arg[t] ELSE @]
          /\ UNCHANGED arg
     ELSE arg' = [arg EXCEPT ![t] = value[n]] /\ UNCHANGED value
  /\ Forget(t)
  /\ UNCHANGED op

(* The node is the thread's own: a push sets its value, a pop reads it.    *)
Took(t, n) ==
  /\ x' = [x EXCEPT ![t] = n]
  /\ stage' = [stage EXCEPT ![t] = "give"]
  /\ IF op[t] = "push"
     THEN value' = [value EXCEPT ![n] = arg[t]] /\ UNCHANGED arg
     ELSE arg' = [arg EXCEPT ![t] = value[n]] /\ UNCHANGED value
  /\ Forget(t)
  /\ UNCHANGED op

(* Any free node is as good as another.                                    *)
malloc == CHOOSE n \in Nodes : n \notin allocated

(* The inner pop finds nothing: an outer pop returns, a push asks malloc.  *)
TakeNothing(t) ==
  /\ At(t, "read") /\ stage[t] = "take" /\ old[t].node = Null
  /\ \/ /\ op[t] = "pop"
        /\ Return(t)
        /\ UNCHANGED nodes
     \/ /\ op[t] = "push"
        /\ allocated # Nodes
        /\ LET n == malloc IN Took(t, n) /\ allocated' = allocated \cup {n}
        /\ UNCHANGED <<next, length>>
  /\ UNCHANGED <<head, calls>>

(* result->next, of a node that may be anywhere by now                     *)
TakeNext(t) ==
  /\ At(t, "read") /\ stage[t] = "take" /\ old[t].node # Null
  /\ link' = [link EXCEPT ![t] = next[old[t].node]]
  /\ Goes(t, "swing")
  /\ UNCHANGED <<head, nodes, calls, op, stage, x, arg, old>>

(* Mutant: the length of no node is 1.                                     *)
LengthFromOne(n) == IF n = Null THEN 1 ELSE length[n] + 1

Length(n) == IF n = Null THEN 0 ELSE length[n]

(* Mutant: the length is counted on from the one the node had before.      *)
GiveLinkOwnLength(t) ==
  /\ At(t, "read") /\ stage[t] = "give"
  /\ next' = [next EXCEPT ![x[t]] = old[t].node]
  /\ length' = [length EXCEPT ![x[t]] = Length(x[t]) + 1]
  /\ Goes(t, "swing")
  /\ UNCHANGED <<head, value, allocated, calls, op, stage, x, arg, old, link>>

GiveLink(t) ==
  /\ At(t, "read") /\ stage[t] = "give"
  /\ next' = [next EXCEPT ![x[t]] = old[t].node]
  /\ length' = [length EXCEPT ![x[t]] = Length(old[t].node) + 1]
  /\ Goes(t, "swing")
  /\ UNCHANGED <<head, value, allocated, calls, op, stage, x, arg, old, link>>

(* Mutant: only the node is compared.                                      *)
CASNode(t, n) ==
  /\ head[Side(t)].node = old[t].node
  /\ head' = [head EXCEPT ![Side(t)] = [node |-> n, counter |-> old[t].counter + 1]]

(* __sync_bool_compare_and_swap_16: both halves are compared and replaced. *)
CAS(t, n) ==
  /\ head[Side(t)] = old[t]
  /\ head' = [head EXCEPT ![Side(t)] = [node |-> n, counter |-> old[t].counter + 1]]

Retry(t) ==
  /\ At(t, "swing") /\ head[Side(t)] # old[t]
  /\ Forget(t)
  /\ UNCHANGED <<head, nodes, calls, op, stage, x, arg>>

TakeSwing(t) ==
  /\ At(t, "swing") /\ stage[t] = "take" /\ CAS(t, link[t])
  /\ Took(t, old[t].node)
  /\ UNCHANGED <<next, length, allocated, calls>>

size(side) == Length(head[side].node)

GiveSwing(t) ==
  /\ At(t, "swing") /\ stage[t] = "give" /\ CAS(t, x[t])
  /\ Return(t)
  /\ UNCHANGED <<nodes, calls>>

----
(* The nodes from n on, followed no longer than they can be.               *)
Behind(n, to) ==
  LET node[k \in 1 .. MaxNodes + 1] ==
        IF k = 1 THEN n ELSE IF node[k - 1] = Null THEN Null ELSE to[node[k - 1]]
      count == Cardinality({k \in 1 .. MaxNodes + 1 : node[k] # Null})
  IN [k \in 1 .. count |-> node[k]]

Chain(side) == Behind(head[side].node, next)

Linked(side) == LET c == Chain(side) IN {c[i] : i \in DOMAIN c}

(* clear assumes that no push or pop is in progress.  Each pop counts.     *)
clear ==
  /\ Quiet /\ allocated # {} /\ calls < MaxCalls
  /\ calls' = calls + 1
  /\ head' = [s \in Sides |-> [node |-> Null, counter |-> head[s].counter + Len(Chain(s))]]
  /\ allocated' = allocated \ (Linked("a") \cup Linked("b"))
  /\ value' = [n \in Nodes |-> IF n \in allocated' THEN value[n] ELSE Empty]
  /\ next' = [n \in Nodes |-> IF n \in allocated' THEN next[n] ELSE Null]
  /\ length' = [n \in Nodes |-> IF n \in allocated' THEN length[n] ELSE 0]
  /\ UNCHANGED <<op, pc, stage, x, arg, old, link>>

Step(t) ==
  \/ Push(t) \/ Pop(t)
  \/ ReadNode(t) \/ ReadCounter(t)
  \/ TakeNothing(t) \/ TakeNext(t) \/ TakeSwing(t)
  \/ GiveLink(t) \/ GiveSwing(t)
  \/ Retry(t)

(* Stopping at the bounds: no call may start, or malloc has no node left.  *)
Stop ==
  /\ \A t \in Threads :
       \/ op[t] = "idle"
       \/ At(t, "read") /\ stage[t] = "take" /\ old[t].node = Null /\ allocated = Nodes
  /\ UNCHANGED vars

Next == clear \/ Stop \/ \E t \in Threads : Step(t)

Spec == Init /\ [][Next]_vars

----
(* Properties *)

(* Every node that malloc gave is in one place: in a, in b, or with the    *)
(* one thread that took it and has not given it yet.  A pop that swung the *)
(* head to a link that was out of date would put a node in two places or   *)
(* lose the nodes behind it.                                               *)
Holders(n) == {t \in Threads : stage[t] = "give" /\ x[t] = n}
NodesInOnePlace ==
  LET linked == [s \in Sides |-> Linked(s)] IN
  \A n \in Nodes :
    Cardinality({s \in Sides : n \in linked[s]}) + Cardinality(Holders(n))
      = IF n \in allocated THEN 1 ELSE 0

(* size() of either side is the number of nodes behind its head, at every  *)
(* step: the length a push wrote down was read from the node that is still *)
(* the head when its CAS succeeds.                                         *)
SizeExact == \A s \in Sides : size(s) = Len(Chain(s))

(* The stack is a stack: a push takes effect when its CAS on a succeeds, a *)
(* pop when its CAS on a succeeds or it has read that a is empty.          *)
Contents == LET c == Chain("a") IN [i \in DOMAIN c |-> value[c[i]]]
Task(t) ==
  LET emptied == pc[t] \in {"counter", "read"} /\ old[t].node = Null
      at == IF op[t] # "pop" THEN op[t]
            ELSE IF stage[t] = "give" \/ emptied THEN "popped" ELSE "pop"
  IN [at |-> at, value |-> arg[t]]
Abstract == INSTANCE Stack WITH contents <- Contents, task <- [t \in Threads |-> Task(t)]
Implements == Abstract!Spec
====
