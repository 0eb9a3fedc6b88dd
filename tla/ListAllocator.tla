---- MODULE ListAllocator ----
(***************************************************************************)
(* The allocator of blocks of one size (list_allocator.h).  Every worker   *)
(* has a list of free blocks of its own.  One that runs out takes a list   *)
(* of list_length blocks from a global stack, or makes one of new memory;  *)
(* one that grows to twice that length gives its second half to the stack. *)
(*                                                                         *)
(* The stack is one of Stack: its pushes and pops are steps.               *)
(***************************************************************************)
EXTENDS Integers, FiniteSets, Sequences

CONSTANTS Workers,
          list_length,
          default_alloc_size,
          max_blocks,  \* beyond so many blocks the program gives up
          MaxMoves,    \* bounds the growths and the lives of the allocator
          Null,
          Data         \* what the owner of a block writes over its link

ASSUME SomeWorkers == IsFiniteSet(Workers) /\ Workers # {}
ASSUME ListLengths == list_length \in Nat \ {0, 1}  \* 2 ^ 16 in the code
ASSUME Bounds == default_alloc_size \in Nat /\ max_blocks \in Nat /\ MaxMoves \in Nat

num_lists == Cardinality(Workers) + (default_alloc_size + list_length - 1) \div list_length

(* Every growth is of list_length blocks, also the last, which fails.      *)
Blocks == 1 .. num_lists * list_length + (MaxMoves + 1) * list_length
ASSUME LinksDiffer == Null \notin Blocks /\ Data \notin Blocks /\ Null # Data

VARIABLES
  initialized, blocks_allocated,
  pool_roots,     \* the first blocks of the memory to give back
  memory,         \* the memory aligned_alloc gave and free has not taken back
  global_stack,   \* the first blocks of its lists
  next,           \* of every block
  sz, head, mid,  \* of every worker
  pc, arg,        \* what it is doing, and the block it frees
  used,           \* the blocks that the program holds
  moves, exited

lists == <<sz, head, mid>>
pools == <<initialized, blocks_allocated, pool_roots, memory>>
vars == <<pools, global_stack, next, lists, pc, arg, used, moves, exited>>

(* aligned_alloc gives memory that follows what it gave before.            *)
Extent(regions) == UNION {r.start .. r.start + r.blocks - 1 : r \in regions}
Fresh == Cardinality(Extent(memory)) + 1
Region(n) == [start |-> Fresh, blocks |-> n]

TypeOK ==
  /\ initialized \in BOOLEAN /\ exited \in BOOLEAN
  /\ blocks_allocated \in 0 .. Cardinality(Blocks)
  /\ pool_roots \in SUBSET Blocks
  /\ memory \subseteq [start : Blocks, blocks : Blocks]
  /\ global_stack \in Seq(Blocks)
  /\ next \in [Blocks -> Blocks \cup {Null, Data}]
  /\ sz \in [Workers -> 0 .. 2 * list_length]
  /\ head \in [Workers -> Blocks \cup {Null}]
  /\ mid \in [Workers -> Blocks \cup {Null}]
  /\ pc \in [Workers -> {"idle", "grow", "grown", "halved"}]
  /\ arg \in [Workers -> Blocks \cup {Null}]
  /\ used \in SUBSET Blocks
  /\ moves \in 0 .. MaxMoves

Init ==
  /\ initialized = FALSE /\ blocks_allocated = 0 /\ pool_roots = {} /\ memory = {}
  /\ global_stack = <<>> /\ next = [b \in Blocks |-> Data]
  /\ sz = [w \in Workers |-> 0]
  /\ head = [w \in Workers |-> Null]
  /\ mid = [w \in Workers |-> Null]
  /\ pc = [w \in Workers |-> "idle"]
  /\ arg = [w \in Workers |-> Null]
  /\ used = {} /\ moves = 0 /\ exited = FALSE

----
Quiet == \A w \in Workers : pc[w] = "idle"

At(w, p) == ~exited /\ initialized /\ pc[w] = p

Goes(w, p) == pc' = [pc EXCEPT ![w] = p]

(* The links of a list of n blocks from start on                           *)
Links(start, n) == [b \in start .. start + n - 1 |-> IF b = start + n - 1 THEN Null ELSE b + 1]

Linked(links) == [b \in Blocks |-> IF b \in DOMAIN links THEN links[b] ELSE next[b]]

initialize_list(start) == Linked(Links(start, list_length))

(* Links of several lists that follow one another                          *)
initialize_lists(start, n) ==
  LET end(b) == \E i \in 1 .. n : b = start + i * list_length - 1 IN
  Linked([b \in start .. start + n * list_length - 1 |-> IF end(b) THEN Null ELSE b + 1])

(* init, which does nothing the second time, with its call of reserve.     *)
init ==
  /\ ~exited /\ ~initialized /\ moves < MaxMoves
  /\ initialized' = TRUE
  /\ LET n == num_lists * list_length IN
     /\ blocks_allocated' = n
     /\ n <= max_blocks
     /\ memory' = memory \cup {Region(n)}
     /\ pool_roots' = {Fresh}
     /\ next' = initialize_lists(Fresh, num_lists)
     /\ global_stack' = [i \in 1 .. num_lists |-> Fresh + (i - 1) * list_length]
  /\ sz' = [w \in Workers |-> 0]
  /\ head' = [w \in Workers |-> Null]
  /\ mid' = [w \in Workers |-> Null]
  /\ moves' = moves + 1
  /\ UNCHANGED <<pc, arg, used, exited>>

(* The program has given its blocks back before, and no call is in         *)
(* progress.                                                               *)
finish ==
  /\ ~exited /\ initialized /\ Quiet /\ used = {}
  /\ memory' = {r \in memory : r.start \notin pool_roots}
  /\ pool_roots' = {} /\ global_stack' = <<>>
  /\ blocks_allocated' = 0 /\ initialized' = FALSE
  /\ next' = [b \in Blocks |-> Data]
  /\ sz' = [w \in Workers |-> 0]
  /\ head' = [w \in Workers |-> Null]
  /\ mid' = [w \in Workers |-> Null]
  /\ UNCHANGED <<pc, arg, used, moves, exited>>

----
(* alloc takes the first block of a list of n blocks with links l.         *)
Take(w, first, n, l) ==
  /\ sz' = [sz EXCEPT ![w] = n - 1]
  /\ head' = [head EXCEPT ![w] = l[first]]
  /\ next' = [l EXCEPT ![first] = Data]
  /\ used' = used \cup {first}
  /\ UNCHANGED mid

AllocLocal(w) ==
  /\ At(w, "idle") /\ sz[w] # 0
  /\ Take(w, head[w], sz[w], next)
  /\ UNCHANGED <<pools, global_stack, pc, arg, moves, exited>>

AllocList(w) ==
  /\ At(w, "idle") /\ sz[w] = 0 /\ global_stack # <<>>
  /\ Take(w, Head(global_stack), list_length, next)
  /\ global_stack' = Tail(global_stack)
  /\ UNCHANGED <<pools, pc, arg, moves, exited>>

(* Mutant: get_list does not try the global stack.                         *)
AllocGrowAlways(w) ==
  /\ At(w, "idle") /\ sz[w] = 0 /\ moves < MaxMoves
  /\ Goes(w, "grow")
  /\ moves' = moves + 1
  /\ UNCHANGED <<pools, global_stack, next, lists, arg, used, exited>>

(* get_list finds the global stack empty.                                  *)
AllocGrow(w) ==
  /\ At(w, "idle") /\ sz[w] = 0 /\ global_stack = <<>> /\ moves < MaxMoves
  /\ Goes(w, "grow")
  /\ moves' = moves + 1
  /\ UNCHANGED <<pools, global_stack, next, lists, arg, used, exited>>

(* allocate_blocks, up to the addition, which is atomic                    *)
Grow(w) ==
  /\ At(w, "grow")
  /\ memory' = memory \cup {Region(list_length)}
  /\ arg' = [arg EXCEPT ![w] = Fresh]
  /\ blocks_allocated' = blocks_allocated + list_length
  /\ Goes(w, "grown")
  /\ UNCHANGED <<initialized, pool_roots, global_stack, next, lists, used, moves, exited>>

(* It compares the sum of all workers.                                     *)
TooMany(w) ==
  /\ At(w, "grown") /\ blocks_allocated > max_blocks
  /\ exited' = TRUE
  /\ UNCHANGED <<pools, global_stack, next, lists, pc, arg, used, moves>>

(* Mutant: the memory of later lists is not kept track of.                 *)
GrownForgotten(w) ==
  /\ At(w, "grown") /\ blocks_allocated <= max_blocks
  /\ Take(w, arg[w], list_length, initialize_list(arg[w]))
  /\ arg' = [arg EXCEPT ![w] = Null]
  /\ Goes(w, "idle")
  /\ UNCHANGED <<initialized, blocks_allocated, pool_roots, memory, global_stack, moves, exited>>

Grown(w) ==
  /\ At(w, "grown") /\ blocks_allocated <= max_blocks
  /\ pool_roots' = pool_roots \cup {arg[w]}
  /\ Take(w, arg[w], list_length, initialize_list(arg[w]))
  /\ arg' = [arg EXCEPT ![w] = Null]
  /\ Goes(w, "idle")
  /\ UNCHANGED <<initialized, blocks_allocated, memory, global_stack, moves, exited>>

(* free puts a block before the others.                                    *)
Put(w, b, n, l) ==
  /\ next' = [l EXCEPT ![b] = head[w]]
  /\ head' = [head EXCEPT ![w] = b]
  /\ sz' = [sz EXCEPT ![w] = n + 1]

(* Mutant: the head is taken for mid one block too early.                  *)
NewMidEarly(w) == IF sz[w] = list_length THEN head[w] ELSE mid[w]

(* The list is one longer than the part to keep: its head will be last.    *)
NewMid(w) == IF sz[w] = list_length + 1 THEN head[w] ELSE mid[w]

(* Mutant: a half is given away one block too late.                        *)
FreeOneMore(w, b) ==
  /\ At(w, "idle")
  /\ used' = used \ {b}
  /\ mid' = [mid EXCEPT ![w] = NewMid(w)]
  /\ Put(w, b, sz[w], next)
  /\ UNCHANGED <<pools, global_stack, pc, arg, moves, exited>>

Free(w, b) ==
  /\ At(w, "idle") /\ sz[w] # 2 * list_length
  /\ used' = used \ {b}
  /\ mid' = [mid EXCEPT ![w] = NewMid(w)]
  /\ Put(w, b, sz[w], next)
  /\ UNCHANGED <<pools, global_stack, pc, arg, moves, exited>>

(* Mutant: the half begins with mid itself.                                *)
FreeHalfWithMid(w, b) ==
  /\ At(w, "idle") /\ sz[w] = 2 * list_length
  /\ used' = used \ {b}
  /\ global_stack' = <<mid[w]>> \o global_stack
  /\ arg' = [arg EXCEPT ![w] = b]
  /\ Goes(w, "halved")
  /\ UNCHANGED <<pools, next, lists, moves, exited>>

(* The half that follows mid is in the global stack before mid is made the *)
(* last.                                                                   *)
FreeHalf(w, b) ==
  /\ At(w, "idle") /\ sz[w] = 2 * list_length
  /\ used' = used \ {b}
  /\ global_stack' = <<next[mid[w]]>> \o global_stack
  /\ arg' = [arg EXCEPT ![w] = b]
  /\ Goes(w, "halved")
  /\ UNCHANGED <<pools, next, lists, moves, exited>>

Halved(w) ==
  /\ At(w, "halved")
  /\ Put(w, arg[w], list_length, [next EXCEPT ![mid[w]] = Null])
  /\ arg' = [arg EXCEPT ![w] = Null]
  /\ Goes(w, "idle")
  /\ UNCHANGED <<pools, global_stack, mid, used, moves, exited>>

(* The program may free any block it holds.  They are alike, in no list and *)
(* with no link, so that it is enough to free one of them.                 *)
Freeable == IF used = {} THEN {} ELSE {CHOOSE b \in used : TRUE}

Step(w) ==
  \/ AllocLocal(w) \/ AllocList(w) \/ AllocGrow(w)
  \/ Grow(w) \/ TooMany(w) \/ Grown(w)
  \/ \E b \in Freeable : Free(w, b) \/ FreeHalf(w, b)
  \/ Halved(w)

Next == init \/ finish \/ \E w \in Workers : Step(w)

Spec == Init /\ [][Next]_vars

----
num_used_blocks ==
  LET total[W \in SUBSET Workers] ==
        IF W = {} THEN 0 ELSE LET w == CHOOSE v \in W : TRUE IN sz[w] + total[W \ {w}]
  IN blocks_allocated - Len(global_stack) * list_length - total[Workers]

----
(* Properties *)

(* The first n blocks of a list that has the links to                      *)
FirstOf(first, n, to) ==
  LET block[i \in 1 .. n] ==
        IF i = 1 THEN first
        ELSE LET b == block[i - 1] IN IF b \in Blocks THEN to[b] ELSE Data
  IN [i \in 1 .. n |-> block[i]]

BlocksOf(s) == {s[i] : i \in DOMAIN s}

(* A worker that gives its second half away has kept the first.            *)
Kept(w) == IF pc[w] = "halved" THEN list_length ELSE sz[w]
Local(w) == FirstOf(head[w], Kept(w), next)
InGlobal(i) == FirstOf(global_stack[i], list_length, next)

(* The owner's blocks, the one that free was called with and the new ones  *)
(* that alloc has not linked yet                                           *)
InHand(w) ==
  CASE pc[w] = "halved" -> {arg[w]}
    [] pc[w] = "grown" -> arg[w] .. arg[w] + list_length - 1
    [] OTHER -> {}

(* Every block is in one place, and in one only: with the program, in the  *)
(* list of one worker or in one list of the global stack.                  *)
BlocksInOnePlace ==
  LET places == [w \in Workers |-> BlocksOf(Local(w))]
      listed == [i \in DOMAIN global_stack |-> BlocksOf(InGlobal(i))]
      count(b) ==
        Cardinality({w \in Workers : b \in places[w]})
          + Cardinality({w \in Workers : b \in InHand(w)})
          + Cardinality({i \in DOMAIN listed : b \in listed[i]})
          + (IF b \in used THEN 1 ELSE 0)
  IN \A b \in Blocks : count(b) = IF b \in Extent(memory) THEN 1 ELSE 0

(* A list is as long as its user will believe: one of the global stack has *)
(* list_length blocks and ends there, one of a worker has sz.  The half    *)
(* that follows mid is whole after every order of alloc and free.          *)
LinkOfLast(s) == s[Len(s)] \in Blocks /\ next[s[Len(s)]] = Null
ListsWhole ==
  /\ \A i \in DOMAIN global_stack : LinkOfLast(InGlobal(i))
  /\ \A w \in Workers :
       pc[w] # "halved" => IF sz[w] = 0 THEN head[w] = Null ELSE LinkOfLast(Local(w))

(* The books are right: num_used_blocks whenever no call is in progress,   *)
(* and finish gives all memory back, also that of lists made after init.   *)
MemoryAccounted ==
  /\ Quiet => num_used_blocks = Cardinality(used)
  /\ ~initialized => memory = {}

(* A worker makes a new list only when no list is left in the global      *)
(* stack, so that the others keep at most 2 * list_length blocks each from *)
(* it: memory grows only when all blocks but those are in use.             *)
GrowsWhenNeeded ==
  [][\A w \in Workers :
       pc[w] = "idle" /\ pc'[w] = "grow" =>
         Cardinality(used) >= blocks_allocated
           - 2 * list_length * (Cardinality(Workers) - 1)]_vars
====
