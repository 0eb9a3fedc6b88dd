---- MODULE ListAllocatorProofs ----
(***************************************************************************)
(* What the allocator keeps for any number of workers, any list length and *)
(* any bounds: each block has one place, each list is whole, the books are *)
(* right and memory grows only when it is needed.                          *)
(***************************************************************************)
EXTENDS ListAllocator, NaturalsInduction, FiniteSetTheorems, TLAPS

(* s is a list of n different blocks that follow the links to from first.  *)
IsList(s, first, n, to) ==
  /\ s \in [1 .. n -> Blocks]
  /\ \A i, j \in 1 .. n : s[i] = s[j] => i = j
  /\ n # 0 => s[1] = first
  /\ \A i \in 1 .. n - 1 : to[s[i]] = s[i + 1]

(***************************************************************************)
(* The inductive invariant.  mid is the block that a half follows whenever *)
(* the list is longer than the part to keep and one: it counts from the    *)
(* end of the list, which neither alloc nor free touches.                  *)
(***************************************************************************)
WorkerOK(w) ==
  /\ IsList(Local(w), head[w], Kept(w), next)
  /\ Kept(w) = 0 => head[w] = Null
  /\ pc[w] # "halved" =>
       /\ sz[w] # 0 => next[Local(w)[sz[w]]] = Null
       /\ sz[w] > list_length + 1 => mid[w] = Local(w)[sz[w] - list_length]
  /\ pc[w] = "halved" => /\ sz[w] = 2 * list_length
                         /\ mid[w] = Local(w)[list_length]
                         /\ arg[w] \in Blocks
  /\ pc[w] \in {"grow", "grown"} => sz[w] = 0
  /\ pc[w] = "grown" => arg[w] \in Blocks /\ arg[w] + list_length - 1 \in Blocks

(* A list of the global stack has list_length blocks and ends there.       *)
ListOK(i) ==
  /\ IsList(InGlobal(i), global_stack[i], list_length, next)
  /\ next[InGlobal(i)[list_length]] = Null

(* The blocks in the list of a worker, those in a list of the global stack, *)
(* and all that a worker has                                               *)
Own(w) == BlocksOf(Local(w))
Listed(i) == BlocksOf(InGlobal(i))
Holding(w) == Own(w) \cup InHand(w)

(* No block has two places, and those given out so far have one.           *)
PlacesOK ==
  /\ \A w \in Workers : \A b \in Own(w) : b \notin InHand(w)
  /\ \A v, w \in Workers : \A b \in Holding(v) : b \in Holding(w) => v = w
  /\ \A i, j \in DOMAIN global_stack : \A b \in Listed(i) : b \in Listed(j) => i = j
  /\ \A i \in DOMAIN global_stack : \A w \in Workers : \A b \in Listed(i) : b \notin Holding(w)
  /\ \A b \in used : /\ \A w \in Workers : b \notin Holding(w)
                     /\ \A i \in DOMAIN global_stack : b \notin Listed(i)
  /\ \A b \in Blocks : b \in 1 .. blocks_allocated <=>
       \/ b \in used
       \/ \E w \in Workers : b \in Holding(w)
       \/ \E i \in DOMAIN global_stack : b \in Listed(i)

(* Each worker that is about to grow has made a move for it.               *)
Growing == {w \in Workers : pc[w] = "grow"}

(* The memory is the blocks given out so far.  What is not to be given back *)
(* yet is in the hands of a worker, and the moves made so far bound it.    *)
MemoryOK ==
  /\ Extent(memory) = 1 .. blocks_allocated
  /\ \A r \in memory :
       \/ r.start \in pool_roots
       \/ \E w \in Workers : pc[w] = "grown" /\ arg[w] = r.start
  /\ blocks_allocated + Cardinality(Growing) * list_length
       <= num_lists * list_length + moves * list_length
  /\ ~initialized => Quiet /\ memory = {}

(* The inductive invariant                                                 *)
IInv ==
  /\ TypeOK
  /\ \A w \in Workers : WorkerOK(w)
  /\ \A i \in DOMAIN global_stack : ListOK(i)
  /\ PlacesOK
  /\ MemoryOK

----
(* Numbers *)

(* A set of numbers has a least element.                                   *)
LEMMA LeastNumber ==
  ASSUME NEW T, T \subseteq Nat, T # {}
  PROVE  \E m \in T : \A n \in T : m <= n
<1> DEFINE R == OpToRel(<, Nat)
<1>1. IsWellFoundedOn(R, Nat)
  BY NatLessThanWellFounded
<1>2. \A a, b \in Nat : a < b => <<a, b>> \in R
  BY DEF OpToRel
<1> HIDE DEF R
<1>3. PICK m \in T : \A n \in T : ~(<<n, m>> \in R)
  BY <1>1, WFMin
<1>4. ASSUME NEW n \in T, ~(m <= n) PROVE FALSE
  <2>1. m \in Nat /\ n \in Nat /\ n < m
    BY <1>4
  <2> QED BY <2>1, <1>2, <1>3
<1> QED BY <1>4

(* Products with the list length.                                          *)
LEMMA Products ==
  /\ \A k \in Nat : k * list_length \in Nat /\ (k + 1) * list_length = k * list_length + list_length
  /\ \A i, j \in Nat : i <= j => i * list_length <= j * list_length
<1>1. list_length \in Nat
  BY ListLengths
<1>2. ASSUME NEW k \in Nat
      PROVE  k * list_length \in Nat /\ (k + 1) * list_length = k * list_length + list_length
  BY <1>1
<1>3. ASSUME NEW i \in Nat, NEW j \in Nat, i <= j
      PROVE  i * list_length <= j * list_length
  <2>1. PICK d \in Nat : j = i + d
    <3>1. j - i \in Nat /\ j = i + (j - i)
      BY <1>3
    <3> QED BY <3>1
  <2>2. j * list_length = i * list_length + d * list_length
    BY <1>1, <2>1
  <2>3. i * list_length \in Nat /\ d * list_length \in Nat
    BY <1>1
  <2> QED BY <2>2, <2>3
<1> QED BY <1>2, <1>3

(* There are lists for each worker, and room for each move.                *)
LEMMA SizeFacts ==
  /\ list_length \in Nat /\ list_length >= 2 /\ MaxMoves \in Nat
  /\ num_lists \in Nat /\ num_lists >= 1
  /\ num_lists * list_length \in Nat /\ num_lists * list_length >= list_length
  /\ Blocks = 1 .. num_lists * list_length + MaxMoves * list_length + list_length
  /\ Cardinality(Blocks) = num_lists * list_length + MaxMoves * list_length + list_length
<1>1. list_length \in Nat /\ list_length >= 2 /\ MaxMoves \in Nat /\ default_alloc_size \in Nat
  BY ListLengths, Bounds
<1>2. Cardinality(Workers) \in Nat /\ Cardinality(Workers) # 0
  BY SomeWorkers, FS_CardinalityType, FS_EmptySet
<1>3. default_alloc_size + list_length - 1 \in Nat
  BY <1>1
<1>4. (default_alloc_size + list_length - 1) \div list_length \in Nat
  BY <1>1, <1>3
<1>5. num_lists \in Nat /\ num_lists >= 1
  BY <1>2, <1>4 DEF num_lists
<1> HIDE DEF num_lists
<1>6. /\ num_lists * list_length \in Nat
      /\ 1 * list_length <= num_lists * list_length
      /\ MaxMoves * list_length \in Nat
      /\ (MaxMoves + 1) * list_length = MaxMoves * list_length + list_length
  BY <1>1, <1>5, Products
<1>7. Blocks = 1 .. num_lists * list_length + MaxMoves * list_length + list_length
  <2>1. num_lists * list_length + (MaxMoves + 1) * list_length
          = num_lists * list_length + MaxMoves * list_length + list_length
    BY <1>1, <1>6
  <2> QED BY <2>1 DEF Blocks
<1>8. Cardinality(Blocks) = num_lists * list_length + MaxMoves * list_length + list_length
  <2> DEFINE k == num_lists * list_length + MaxMoves * list_length + list_length
  <2>1. k \in Nat /\ k >= 1 /\ Blocks = 1 .. k
    BY <1>1, <1>6, <1>7
  <2> HIDE DEF k
  <2>2. Cardinality(1 .. k) = k
    BY <2>1, FS_Interval
  <2> QED BY <2>1, <2>2 DEF k
<1>9. num_lists * list_length >= list_length
  BY <1>1, <1>6
<1> QED BY <1>1, <1>5, <1>6, <1>7, <1>8, <1>9

----
(* Lists *)

(* The first n blocks are the list of n blocks that follows the links.     *)
LEMMA FirstOfIs ==
  ASSUME NEW first, NEW n \in Nat, NEW to, NEW s, IsList(s, first, n, to)
  PROVE  FirstOf(first, n, to) = s
<1> DEFINE K == 1 .. n
           Solves(g) == g = [i \in K |->
             IF i = 1 THEN first
             ELSE LET b == g[i - 1] IN IF b \in Blocks THEN to[b] ELSE Data]
           block == CHOOSE g : Solves(g)
<1>1. s \in [K -> Blocks] /\ s = [i \in K |-> s[i]] /\ \A i \in K : s[i] \in Blocks
  BY DEF IsList
<1>2. ASSUME NEW i \in K
      PROVE  s[i] = IF i = 1 THEN first
                    ELSE IF s[i - 1] \in Blocks THEN to[s[i - 1]] ELSE Data
  <2>1. CASE i = 1
    BY <1>2, <2>1 DEF IsList
  <2>2. CASE i # 1
    <3>1. i - 1 \in 1 .. n - 1 /\ i - 1 \in K /\ (i - 1) + 1 = i
      BY <1>2, <2>2
    <3>2. to[s[i - 1]] = s[(i - 1) + 1]
      BY <3>1 DEF IsList
    <3>3. s[i - 1] \in Blocks
      BY <1>1, <3>1
    <3> QED BY <2>2, <3>1, <3>2, <3>3
  <2> QED BY <2>1, <2>2
<1>3. Solves(s)
  BY <1>1, <1>2
<1>4. Solves(block)
  BY <1>3
<1> HIDE DEF block
<1>5. ASSUME NEW k \in K, block[k] # s[k] PROVE FALSE
  <2> DEFINE T == {j \in K : block[j] # s[j]}
  <2>1. T \subseteq Nat /\ T # {}
    BY <1>5
  <2>2. PICK m \in T : \A j \in T : m <= j
    BY <2>1, LeastNumber
  <2>3. m \in K /\ block[m] # s[m]
    BY <2>2
  <2>4. block[m] = IF m = 1 THEN first
                   ELSE IF block[m - 1] \in Blocks THEN to[block[m - 1]] ELSE Data
    BY <1>4, <2>3
  <2>5. m # 1
    BY <1>2, <2>3, <2>4
  <2>6. m - 1 \in K /\ m - 1 \notin T
    BY <2>2, <2>5
  <2>7. block[m - 1] = s[m - 1]
    BY <2>6
  <2>8. s[m] = IF m = 1 THEN first
               ELSE IF s[m - 1] \in Blocks THEN to[s[m - 1]] ELSE Data
    BY <1>2, <2>3
  <2> QED BY <2>3, <2>4, <2>5, <2>7, <2>8
<1>6. [i \in K |-> block[i]] = s
  BY <1>1, <1>5
<1> QED BY <1>6 DEF FirstOf, block

(* The places of a list, and its blocks                                    *)
LEMMA ListFacts ==
  ASSUME NEW first, NEW n \in Nat, NEW to, NEW s, IsList(s, first, n, to)
  PROVE  /\ DOMAIN s = 1 .. n /\ s \in Seq(Blocks) /\ Len(s) = n
         /\ \A i \in 1 .. n : s[i] \in Blocks /\ s[i] \in BlocksOf(s)
         /\ \A b : b \in BlocksOf(s) <=> \E i \in 1 .. n : s[i] = b
         /\ BlocksOf(s) \subseteq Blocks
         /\ n # 0 => first \in Blocks /\ first = s[1] /\ first \in BlocksOf(s)
<1>1. /\ s \in [1 .. n -> Blocks] /\ DOMAIN s = 1 .. n
      /\ n # 0 => s[1] = first /\ 1 \in 1 .. n
  BY DEF IsList
<1>2. s \in Seq(Blocks) /\ Len(s) = n
  BY <1>1
<1>3. \A i \in 1 .. n : s[i] \in Blocks /\ s[i] \in BlocksOf(s)
  BY <1>1 DEF BlocksOf
<1> QED BY <1>1, <1>2, <1>3 DEF BlocksOf

(* Only the links of its own blocks matter to a list, but for the last.    *)
LEMMA ListSame ==
  ASSUME NEW first, NEW n \in Nat, NEW to, NEW to2, NEW s, IsList(s, first, n, to),
         \A i \in 1 .. n : i # n => to2[s[i]] = to[s[i]]
  PROVE  IsList(s, first, n, to2)
<1>1. \A i \in 1 .. n - 1 : i \in 1 .. n /\ i # n
  OBVIOUS
<1> QED BY <1>1 DEF IsList

(* Without its first block a list follows the link of that block.          *)
LEMMA ListTail ==
  ASSUME NEW first, NEW n \in Nat, n # 0, NEW to, NEW to2, NEW s, IsList(s, first, n, to),
         \A i \in 1 .. n : i # 1 => to2[s[i]] = to[s[i]],
         NEW d, d = [i \in 1 .. n - 1 |-> s[i + 1]]
  PROVE  /\ IsList(d, to[first], n - 1, to2) /\ n - 1 \in Nat
         /\ BlocksOf(d) = BlocksOf(s) \ {first}
<1>1. /\ s \in [1 .. n -> Blocks] /\ s[1] = first
      /\ \A i, j \in 1 .. n : s[i] = s[j] => i = j
      /\ \A i \in 1 .. n - 1 : to[s[i]] = s[i + 1]
      /\ n - 1 \in Nat
  BY DEF IsList
<1>2. /\ \A i \in 1 .. n - 1 : i + 1 \in 1 .. n /\ i + 1 # 1 /\ d[i] = s[i + 1]
      /\ \A i, j \in 1 .. n - 1 : i + 1 = j + 1 => i = j
      /\ \A i \in 1 .. n - 1 - 1 : i \in 1 .. n - 1 /\ i + 1 \in 1 .. n - 1
      /\ n - 1 # 0 => 1 \in 1 .. n - 1
  OBVIOUS
<1>3. d \in [1 .. n - 1 -> Blocks]
  BY <1>1, <1>2
<1>4. \A i, j \in 1 .. n - 1 : d[i] = d[j] => i = j
  BY <1>1, <1>2
<1>5. n - 1 # 0 => d[1] = to[first]
  BY <1>1, <1>2
<1>6. ASSUME NEW i \in 1 .. n - 1 - 1 PROVE to2[d[i]] = d[i + 1]
  <2>1. d[i] = s[i + 1] /\ d[i + 1] = s[(i + 1) + 1] /\ i + 1 \in 1 .. n - 1
    BY <1>2
  <2>2. to[s[i + 1]] = s[(i + 1) + 1]
    BY <1>1, <2>1
  <2>3. to2[s[i + 1]] = to[s[i + 1]]
    BY <1>2
  <2> QED BY <2>1, <2>2, <2>3
<1>7. IsList(d, to[first], n - 1, to2)
  BY <1>3, <1>4, <1>5, <1>6 DEF IsList
<1>8. DOMAIN d = 1 .. n - 1 /\ DOMAIN s = 1 .. n
  BY <1>1, <1>3
<1>9. ASSUME NEW i \in 1 .. n - 1 PROVE s[i + 1] \in BlocksOf(s) \ {first} /\ d[i] = s[i + 1]
  <2>1. i + 1 \in 1 .. n /\ 1 \in 1 .. n /\ i + 1 # 1
    OBVIOUS
  <2> QED BY <1>1, <1>2, <1>8, <2>1 DEF BlocksOf
<1>10. ASSUME NEW i \in 1 .. n, s[i] # first PROVE s[i] \in BlocksOf(d)
  <2>1. i - 1 \in 1 .. n - 1 /\ (i - 1) + 1 = i
    BY <1>1, <1>10
  <2>2. d[i - 1] = s[i]
    BY <1>2, <2>1
  <2> QED BY <1>8, <2>1, <2>2 DEF BlocksOf
<1>11. BlocksOf(d) = BlocksOf(s) \ {first}
  BY <1>8, <1>9, <1>10 DEF BlocksOf
<1> QED BY <1>1, <1>7, <1>11

(* A block in front, linked to the first one.                              *)
LEMMA ListCons ==
  ASSUME NEW first, NEW n \in Nat, NEW to, NEW to2, NEW s, IsList(s, first, n, to),
         \A i \in 1 .. n : i # n => to2[s[i]] = to[s[i]],
         NEW b \in Blocks, b \notin BlocksOf(s), to2[b] = first,
         NEW k \in Nat, k = n + 1,
         NEW d, d \in [1 .. k -> Blocks], d[1] = b, \A i \in 1 .. n : d[i + 1] = s[i]
  PROVE  IsList(d, b, k, to2)
<1>1. /\ s \in [1 .. n -> Blocks] /\ DOMAIN s = 1 .. n
      /\ n # 0 => s[1] = first
      /\ \A i, j \in 1 .. n : s[i] = s[j] => i = j
      /\ \A i \in 1 .. n - 1 : to[s[i]] = s[i + 1]
      /\ \A i \in 1 .. n : s[i] # b
  BY DEF IsList, BlocksOf
<1>2. /\ \A i \in 1 .. k : i # 1 => i - 1 \in 1 .. n
      /\ \A i, j \in 1 .. k : i - 1 = j - 1 => i = j
      /\ 1 \in 1 .. k /\ k - 1 = n /\ k # 0
      /\ \A i \in 1 .. n : i \in 1 .. k /\ i + 1 \in 1 .. k /\ i + 1 # 1 /\ i + 1 - 1 = i
  OBVIOUS
<1>3. d \in [1 .. k -> Blocks] /\ DOMAIN d = 1 .. k
  OBVIOUS
<1>4. /\ d[1] = b
      /\ \A i \in 1 .. k : i # 1 => d[i] = s[i - 1]
      /\ \A i \in 1 .. n : d[i + 1] = s[i]
  <2>1. \A i \in 1 .. k : (i - 1) + 1 = i
    OBVIOUS
  <2> QED BY <1>2, <2>1
<1>5. \A i, j \in 1 .. k : d[i] = d[j] => i = j
  <2> SUFFICES ASSUME NEW i \in 1 .. k, NEW j \in 1 .. k, d[i] = d[j] PROVE i = j
    OBVIOUS
  <2>1. CASE i = 1 \/ j = 1
    BY <1>1, <1>2, <1>4, <2>1
  <2>2. CASE i # 1 /\ j # 1
    <3>1. i - 1 \in 1 .. n /\ j - 1 \in 1 .. n /\ s[i - 1] = s[j - 1]
      BY <1>2, <1>4, <2>2
    <3>2. i - 1 = j - 1
      BY <1>1, <3>1
    <3> QED BY <1>2, <3>2
  <2> QED BY <2>1, <2>2
<1>6. ASSUME NEW i \in 1 .. n PROVE to2[d[i]] = d[i + 1]
  <2>1. CASE i = 1
    <3>1. n # 0
      BY <2>1
    <3> QED BY <1>1, <1>4, <2>1, <3>1
  <2>2. CASE i # 1
    <3>1. i - 1 \in 1 .. n - 1 /\ (i - 1) + 1 = i /\ i - 1 # n /\ i - 1 \in 1 .. n
      BY <2>2
    <3>2. d[i] = s[i - 1] /\ d[i + 1] = s[i]
      BY <1>2, <1>4, <2>2
    <3>3. to2[s[i - 1]] = s[(i - 1) + 1]
      BY <1>1, <3>1
    <3> QED BY <3>1, <3>2, <3>3
  <2> QED BY <2>1, <2>2
<1>7. IsList(d, b, k, to2)
  <2>1. \A i \in 1 .. k - 1 : to2[d[i]] = d[i + 1]
    BY <1>2, <1>6
  <2>2. k # 0 => d[1] = b
    BY <1>4
  <2> QED BY <1>3, <1>5, <2>1, <2>2 DEF IsList
<1> QED BY <1>7

(* Its blocks.                                                             *)
LEMMA ConsBlocks ==
  ASSUME NEW n \in Nat, NEW k \in Nat, k = n + 1, NEW s, DOMAIN s = 1 .. n, NEW b,
         NEW d, DOMAIN d = 1 .. k, d[1] = b, \A i \in 1 .. n : d[i + 1] = s[i]
  PROVE  BlocksOf(d) = BlocksOf(s) \cup {b}
<1>1. ASSUME NEW i \in 1 .. k PROVE d[i] \in BlocksOf(s) \cup {b}
  <2>1. CASE i # 1
    <3>1. i - 1 \in 1 .. n /\ (i - 1) + 1 = i
      BY <2>1
    <3>2. d[i] = s[i - 1]
      BY <3>1
    <3> QED BY <3>1, <3>2 DEF BlocksOf
  <2> QED BY <2>1
<1>2. ASSUME NEW i \in 1 .. n PROVE s[i] \in BlocksOf(d)
  <2>1. i + 1 \in DOMAIN d /\ d[i + 1] = s[i]
    OBVIOUS
  <2> QED BY <2>1 DEF BlocksOf
<1>3. b \in BlocksOf(d)
  <2>1. 1 \in DOMAIN d
    OBVIOUS
  <2> QED BY <2>1 DEF BlocksOf
<1>4. BlocksOf(d) = {d[i] : i \in 1 .. k} /\ BlocksOf(s) = {s[i] : i \in 1 .. n}
  BY DEF BlocksOf
<1> QED BY <1>1, <1>2, <1>3, <1>4

(* c and d are the first n elements of s and the n that follow.            *)
Halves(s, n, c, d) ==
  /\ DOMAIN c = 1 .. n /\ \A i \in 1 .. n : c[i] = s[i]
  /\ DOMAIN d = 1 .. n /\ \A i \in 1 .. n : d[i] = s[n + i]
  /\ c = [i \in 1 .. n |-> c[i]] /\ d = [i \in 1 .. n |-> d[i]]

(* The two halves of a list are lists, the second from where the first     *)
(* leads.                                                                  *)
LEMMA ListHalves ==
  ASSUME NEW first, NEW n \in Nat, n # 0, NEW k \in Nat, k = n + n, NEW to, NEW s,
         IsList(s, first, k, to), NEW c, NEW d, Halves(s, n, c, d), NEW g, g = to[s[n]]
  PROVE  IsList(c, first, n, to) /\ IsList(d, g, n, to)
<1>1. /\ s \in [1 .. n + n -> Blocks]
      /\ s[1] = first
      /\ \A i, j \in 1 .. n + n : s[i] = s[j] => i = j
      /\ \A i \in 1 .. n + n - 1 : to[s[i]] = s[i + 1]
  BY DEF IsList
<1>2. /\ \A i \in 1 .. n : i \in 1 .. n + n
      /\ \A i \in 1 .. n : n + i \in 1 .. n + n
      /\ \A i \in 1 .. n - 1 : i \in 1 .. n /\ i + 1 \in 1 .. n /\ i \in 1 .. n + n - 1
      /\ \A i \in 1 .. n - 1 : /\ i \in 1 .. n /\ i + 1 \in 1 .. n /\ n + i \in 1 .. n + n - 1
                               /\ n + (i + 1) = (n + i) + 1
      /\ \A i, j \in 1 .. n : n + i = n + j => i = j
      /\ 1 \in 1 .. n /\ n \in 1 .. n + n - 1
  OBVIOUS
<1>3. /\ c \in [1 .. n -> Blocks] /\ \A i \in 1 .. n : c[i] = s[i]
      /\ d \in [1 .. n -> Blocks] /\ \A i \in 1 .. n : d[i] = s[n + i]
  BY <1>1, <1>2 DEF Halves
<1>4. IsList(c, first, n, to)
  BY <1>1, <1>2, <1>3, SMTT(60) DEF IsList
<1>5. d[1] = g
  BY <1>1, <1>2, <1>3
<1>6. \A i, j \in 1 .. n : d[i] = d[j] => i = j
  BY <1>1, <1>2, <1>3
<1>7. ASSUME NEW i \in 1 .. n - 1 PROVE to[d[i]] = d[i + 1]
  <2>1. d[i] = s[n + i] /\ d[i + 1] = s[n + (i + 1)] /\ n + i \in 1 .. n + n - 1
    BY <1>2, <1>3
  <2>2. to[s[n + i]] = s[(n + i) + 1]
    BY <1>1, <2>1
  <2> QED BY <1>2, <2>1, <2>2
<1>8. IsList(d, g, n, to)
  BY <1>3, <1>5, <1>6, <1>7 DEF IsList
<1> QED BY <1>4, <1>8

(* They share no block.                                                    *)
LEMMA BlocksOfHalves ==
  ASSUME NEW first, NEW n \in Nat, n # 0, NEW k \in Nat, k = n + n, NEW to, NEW s,
         IsList(s, first, k, to), NEW c, NEW d, Halves(s, n, c, d)
  PROVE  /\ BlocksOf(s) = BlocksOf(c) \cup BlocksOf(d)
         /\ \A b \in BlocksOf(c) : b \notin BlocksOf(d)
<1>1. DOMAIN s = 1 .. n + n /\ \A i, j \in 1 .. n + n : s[i] = s[j] => i = j
  BY DEF IsList
<1>2. /\ \A i \in 1 .. n : i \in 1 .. n + n
      /\ \A i \in 1 .. n : n + i \in 1 .. n + n
      /\ \A i, j \in 1 .. n : i # n + j
      /\ \A i \in 1 .. n + n : i \in 1 .. n \/ (i - n \in 1 .. n /\ n + (i - n) = i)
  OBVIOUS
<1>3. /\ DOMAIN c = 1 .. n /\ \A i \in 1 .. n : c[i] = s[i]
      /\ DOMAIN d = 1 .. n /\ \A i \in 1 .. n : d[i] = s[n + i]
  BY DEF Halves
<1>4. /\ BlocksOf(c) = {c[i] : i \in 1 .. n} /\ BlocksOf(d) = {d[i] : i \in 1 .. n}
      /\ BlocksOf(s) = {s[i] : i \in 1 .. n + n}
  BY <1>1, <1>3 DEF BlocksOf
<1>5. BlocksOf(s) = BlocksOf(c) \cup BlocksOf(d)
  <2>1. ASSUME NEW i \in 1 .. n + n PROVE s[i] \in BlocksOf(c) \cup BlocksOf(d)
    <3>1. CASE i \in 1 .. n
      BY <1>3, <1>4, <3>1
    <3>2. CASE i - n \in 1 .. n /\ n + (i - n) = i
      <4>1. d[i - n] = s[i]
        BY <1>3, <3>2
      <4> QED BY <1>4, <3>2, <4>1
    <3> QED BY <1>2, <3>1, <3>2
  <2>2. \A i \in 1 .. n : c[i] \in BlocksOf(s)
    BY <1>2, <1>3, <1>4
  <2>3. \A i \in 1 .. n : d[i] \in BlocksOf(s)
    BY <1>2, <1>3, <1>4
  <2>4. \A x \in BlocksOf(s) : x \in BlocksOf(c) \cup BlocksOf(d)
    BY <1>4, <2>1
  <2>5. \A x \in BlocksOf(c) \cup BlocksOf(d) : x \in BlocksOf(s)
    BY <1>4, <2>2, <2>3
  <2> QED BY <2>4, <2>5
<1>6. \A b \in BlocksOf(c) : b \notin BlocksOf(d)
  <2>1. \A i, j \in 1 .. n : s[i] # s[n + j]
    BY <1>1, <1>2
  <2>2. \A i, j \in 1 .. n : c[i] # d[j]
    BY <1>3, <2>1
  <2> QED BY <1>4, <2>2
<1> QED BY <1>5, <1>6

----
(* The lists of the workers and of the global stack *)

(* How long the list of a worker is                                        *)
LEMMA KeptFacts ==
  ASSUME TypeOK, NEW w \in Workers
  PROVE  /\ Kept(w) \in Nat /\ Kept(w) <= 2 * list_length
         /\ sz[w] \in Nat /\ sz[w] <= 2 * list_length
         /\ pc[w] # "halved" => Kept(w) = sz[w]
         /\ pc[w] = "halved" => Kept(w) = list_length
<1>1. sz[w] \in 0 .. 2 * list_length /\ list_length \in Nat
  BY SizeFacts DEF TypeOK
<1> QED BY <1>1 DEF Kept

(* The list of a worker, named                                             *)
LEMMA LocalFacts ==
  ASSUME TypeOK, NEW w \in Workers, WorkerOK(w)
  PROVE  /\ IsList(Local(w), head[w], Kept(w), next)
         /\ DOMAIN Local(w) = 1 .. Kept(w)
         /\ \A i \in 1 .. Kept(w) : Local(w)[i] \in Blocks /\ Local(w)[i] \in Own(w)
         /\ \A b \in Own(w) : b \in Blocks /\ \E i \in 1 .. Kept(w) : Local(w)[i] = b
<1>1. Kept(w) \in Nat
  BY KeptFacts
<1>2. IsList(Local(w), head[w], Kept(w), next)
  BY DEF WorkerOK
<1>3. PICK s : s = Local(w)
  OBVIOUS
<1>n. PICK n \in Nat : n = Kept(w)
  BY <1>1
<1>4. IsList(s, head[w], n, next)
  BY <1>2, <1>3, <1>n
<1>5. /\ DOMAIN s = 1 .. n /\ \A i \in 1 .. n : s[i] \in Blocks
      /\ \A b : b \in BlocksOf(s) <=> \E i \in 1 .. n : s[i] = b
  <2>1. DOMAIN s = 1 .. n
    BY <1>4, ListFacts
  <2>2. \A i \in 1 .. n : s[i] \in Blocks
    BY <1>4, ListFacts
  <2> QED BY <2>1, <2>2 DEF BlocksOf
<1>6. Own(w) = BlocksOf(s)
  BY <1>3 DEF Own
<1> QED BY <1>2, <1>3, <1>n, <1>5, <1>6

(* A list of the global stack                                              *)
LEMMA ListedFacts ==
  ASSUME NEW i \in DOMAIN global_stack, ListOK(i)
  PROVE  /\ global_stack[i] \in Listed(i)
         /\ \A b \in Listed(i) : b \in Blocks
<1>1. list_length \in Nat /\ list_length # 0
  BY SizeFacts
<1>2. IsList(InGlobal(i), global_stack[i], list_length, next)
  BY DEF ListOK
<1>3. PICK s : s = InGlobal(i)
  OBVIOUS
<1>4. IsList(s, global_stack[i], list_length, next) /\ Listed(i) = BlocksOf(s)
  BY <1>2, <1>3 DEF Listed
<1>5. global_stack[i] \in BlocksOf(s)
  BY <1>1, <1>4, ListFacts
<1>6. BlocksOf(s) \subseteq Blocks
  BY <1>1, <1>4, ListFacts
<1> QED BY <1>4, <1>5, <1>6

(* A worker that makes no step keeps its list while no other worker        *)
(* changes the links of its blocks.                                        *)
LEMMA WorkerKept ==
  ASSUME TypeOK, NEW v \in Workers, WorkerOK(v),
         head'[v] = head[v], sz'[v] = sz[v], pc'[v] = pc[v], mid'[v] = mid[v], arg'[v] = arg[v],
         \A b \in Own(v) : next'[b] = next[b]
  PROVE  /\ WorkerOK(v)' /\ Local(v)' = Local(v)
         /\ Own(v)' = Own(v) /\ InHand(v)' = InHand(v) /\ Holding(v)' = Holding(v)
<1> DEFINE s == Local(v)
           n == Kept(v)
<1>1. n \in Nat /\ Kept(v)' = n
  BY KeptFacts DEF Kept
<1>2. /\ IsList(s, head[v], n, next)
      /\ \A i \in 1 .. n : s[i] \in Own(v)
  BY LocalFacts
<1>3. \A i \in 1 .. n : next'[s[i]] = next[s[i]]
  BY <1>2
<1> HIDE DEF n
<1>4. ASSUME NEW t, t = s PROVE IsList(t, head[v], n, next')
  BY <1>1, <1>2, <1>3, <1>4, ListSame
<1>5. Local(v)' = FirstOf(head[v], n, next')
  BY <1>1 DEF Local
<1>6. Local(v)' = s
  <2> HIDE DEF s
  <2>1. PICK t : t = s
    OBVIOUS
  <2>2. FirstOf(head[v], n, next') = t
    BY <1>1, <1>4, <2>1, FirstOfIs
  <2> QED BY <1>5, <2>1, <2>2
<1>7. Own(v)' = Own(v) /\ InHand(v)' = InHand(v) /\ Holding(v)' = Holding(v)
  <2>1. Own(v)' = Own(v)
    BY <1>6 DEF Own, BlocksOf
  <2>2. InHand(v)' = InHand(v)
    BY DEF InHand
  <2> QED BY <2>1, <2>2 DEF Holding
<1>8. IsList(Local(v)', head'[v], Kept(v)', next')
  BY <1>1, <1>4, <1>6
<1>9. pc[v] # "halved" => n = sz[v]
  BY KeptFacts DEF n
<1>10. \A i \in 1 .. n : next'[s[i]] = next[s[i]]
  BY <1>3
<1>11. /\ Kept(v) = 0 => head[v] = Null
       /\ pc[v] # "halved" =>
            /\ sz[v] # 0 => next[Local(v)[sz[v]]] = Null
            /\ sz[v] > list_length + 1 => mid[v] = Local(v)[sz[v] - list_length]
       /\ pc[v] = "halved" => /\ sz[v] = 2 * list_length
                              /\ mid[v] = Local(v)[list_length]
                              /\ arg[v] \in Blocks
       /\ pc[v] \in {"grow", "grown"} => sz[v] = 0
       /\ pc[v] = "grown" => arg[v] \in Blocks /\ arg[v] + list_length - 1 \in Blocks
  BY DEF WorkerOK
<1>12. Kept(v)' = 0 => head'[v] = Null
  BY <1>1, <1>11 DEF n
<1>13. pc'[v] # "halved" /\ sz'[v] # 0 => next'[Local(v)'[sz'[v]]] = Null
  <2>1. pc[v] # "halved" /\ sz[v] # 0 => sz[v] \in 1 .. n
    BY <1>1, <1>9
  <2> QED BY <1>6, <1>10, <1>11, <2>1
<1>14. pc'[v] # "halved" /\ sz'[v] > list_length + 1 => mid'[v] = Local(v)'[sz'[v] - list_length]
  BY <1>6, <1>11
<1>15. WorkerOK(v)'
  BY <1>6, <1>8, <1>11, <1>12, <1>13, <1>14 DEF WorkerOK
<1> QED BY <1>6, <1>7, <1>15

(* The same of a list of the global stack, which may have moved.           *)
LEMMA ListKept ==
  ASSUME NEW i, NEW j, ListOK(i), global_stack'[j] = global_stack[i],
         \A b \in Listed(i) : next'[b] = next[b]
  PROVE  ListOK(j)' /\ Listed(j)' = Listed(i)
<1> DEFINE s == InGlobal(i)
<1>1. list_length \in Nat /\ list_length \in 1 .. list_length
  BY SizeFacts
<1>2. IsList(s, global_stack[i], list_length, next) /\ next[s[list_length]] = Null
  BY DEF ListOK
<1>3. PICK t : t = s
  OBVIOUS
<1> HIDE DEF s
<1>4. \A k \in 1 .. list_length : t[k] \in BlocksOf(t)
  BY <1>1, <1>2, <1>3, ListFacts
<1>5. \A k \in 1 .. list_length : next'[t[k]] = next[t[k]]
  BY <1>3, <1>4 DEF Listed, s
<1>6. IsList(t, global_stack'[j], list_length, next')
  BY <1>1, <1>2, <1>3, <1>5, ListSame
<1>7. InGlobal(j)' = t
  BY <1>1, <1>6, FirstOfIs DEF InGlobal
<1>8. Listed(j)' = BlocksOf(t) /\ Listed(i) = BlocksOf(t)
  BY <1>3, <1>7 DEF Listed, BlocksOf, s
<1>9. next'[t[list_length]] = Null
  BY <1>1, <1>2, <1>3, <1>5
<1>10. ListOK(j)'
  BY <1>6, <1>7, <1>9 DEF ListOK
<1> QED BY <1>8, <1>10

(* What a worker has left when it takes the first of a list of n blocks,   *)
(* of its own or a new one.                                                *)
LEMMA Taken ==
  ASSUME TypeOK, NEW w \in Workers,
         NEW first, NEW n \in Nat, n # 0, n <= 2 * list_length, NEW l, NEW s,
         l \in [Blocks -> Blocks \cup {Null, Data}],
         IsList(s, first, n, l), l[s[n]] = Null, n > list_length + 1 => mid[w] = s[n - list_length],
         Take(w, first, n, l), pc'[w] = "idle"
  PROVE  /\ WorkerOK(w)' /\ Own(w)' = BlocksOf(s) \ {first}
         /\ first \in BlocksOf(s) /\ first \in Blocks
         /\ \A v \in Workers : v # w => sz'[v] = sz[v] /\ head'[v] = head[v]
         /\ \A b \in Blocks : b # first => next'[b] = l[b]
         /\ next' \in [Blocks -> Blocks \cup {Null, Data}]
         /\ sz' \in [Workers -> 0 .. 2 * list_length]
         /\ head' \in [Workers -> Blocks \cup {Null}]
         /\ mid' = mid /\ used' = used \cup {first}
<1>1. /\ sz' = [sz EXCEPT ![w] = n - 1]
      /\ head' = [head EXCEPT ![w] = l[first]]
      /\ next' = [l EXCEPT ![first] = Data]
      /\ used' = used \cup {first} /\ mid' = mid
  BY DEF Take
<1>2. /\ sz \in [Workers -> 0 .. 2 * list_length]
      /\ head \in [Workers -> Blocks \cup {Null}]
      /\ list_length \in Nat /\ list_length >= 2
  BY SizeFacts DEF TypeOK
<1>3. /\ \A i \in 1 .. n : s[i] \in Blocks /\ s[i] \in BlocksOf(s)
      /\ first \in Blocks /\ first = s[1] /\ first \in BlocksOf(s)
  <2>1. \A i \in 1 .. n : s[i] \in Blocks /\ s[i] \in BlocksOf(s)
    BY ListFacts
  <2>2. first \in Blocks /\ first = s[1] /\ first \in BlocksOf(s)
    BY ListFacts
  <2> QED BY <2>1, <2>2
<1>4. \A i \in 1 .. n : i # 1 => s[i] # first
  <2>1. 1 \in 1 .. n
    OBVIOUS
  <2> QED BY <1>3, <2>1 DEF IsList
<1>5. \A b \in Blocks : b # first => next'[b] = l[b]
  BY <1>1
<1>6. \A i \in 1 .. n : i # 1 => next'[s[i]] = l[s[i]]
  BY <1>3, <1>4, <1>5
<1>7. PICK d : d = [i \in 1 .. n - 1 |-> s[i + 1]]
  OBVIOUS
<1>8. IsList(d, l[first], n - 1, next') /\ n - 1 \in Nat /\ BlocksOf(d) = BlocksOf(s) \ {first}
  BY <1>6, <1>7, ListTail, SMTT(30)
<1>9. sz'[w] = n - 1 /\ head'[w] = l[first] /\ Kept(w)' = n - 1
  BY <1>1, <1>2 DEF Kept
<1>10. Local(w)' = d
  BY <1>8, <1>9, FirstOfIs DEF Local
<1>11. Own(w)' = BlocksOf(s) \ {first}
  BY <1>8, <1>10 DEF Own
<1>12. ASSUME n - 1 # 0 PROVE next'[d[n - 1]] = Null /\ l[first] \in Blocks
  <2>1. n - 1 \in 1 .. n - 1 /\ (n - 1) + 1 = n /\ n \in 1 .. n /\ n # 1 /\ n - 1 \in Nat
    BY <1>12
  <2>2. d[n - 1] = s[n]
    BY <1>7, <2>1
  <2> QED BY <1>6, <1>8, <1>12, <2>1, <2>2, ListFacts
<1>13. ASSUME n - 1 = 0 PROVE l[first] = Null
  <2>1. n = 1
    BY <1>13
  <2> QED BY <1>3, <2>1
<1>14. ASSUME n - 1 > list_length + 1 PROVE mid'[w] = d[n - 1 - list_length]
  <2>1. /\ n > list_length + 1 /\ n - 1 - list_length \in 1 .. n - 1
        /\ (n - 1 - list_length) + 1 = n - list_length
    BY <1>2, <1>14
  <2> QED BY <1>1, <1>7, <2>1
<1>15. WorkerOK(w)'
  <2>1. IsList(Local(w)', head'[w], Kept(w)', next')
    BY <1>8, <1>9, <1>10
  <2>2. Kept(w)' = 0 => head'[w] = Null
    BY <1>9, <1>13
  <2>3. sz'[w] # 0 => next'[Local(w)'[sz'[w]]] = Null
    BY <1>9, <1>10, <1>12
  <2>4. sz'[w] > list_length + 1 => mid'[w] = Local(w)'[sz'[w] - list_length]
    BY <1>9, <1>10, <1>14
  <2> QED BY <2>1, <2>2, <2>3, <2>4 DEF WorkerOK
<1>16. l[first] \in Blocks \cup {Null}
  BY <1>12, <1>13
<1>17. n - 1 \in 0 .. 2 * list_length
  BY <1>2
<1> QED BY <1>1, <1>2, <1>3, <1>5, <1>11, <1>15, <1>16, <1>17

(* What a worker has when it has put a block before the n others.          *)
LEMMA PutThere ==
  ASSUME TypeOK, NEW w \in Workers,
         NEW b \in Blocks, NEW n \in Nat, n < 2 * list_length, NEW l, NEW s,
         l \in [Blocks -> Blocks \cup {Null, Data}],
         IsList(s, head[w], n, l), b \notin BlocksOf(s),
         n # 0 => l[s[n]] = Null, n = 0 => head[w] = Null,
         n > list_length => mid'[w] = s[n - list_length],
         Put(w, b, n, l), pc'[w] = "idle"
  PROVE  /\ WorkerOK(w)' /\ Own(w)' = BlocksOf(s) \cup {b}
         /\ \A v \in Workers : v # w => sz'[v] = sz[v] /\ head'[v] = head[v]
         /\ \A c \in Blocks : c # b => next'[c] = l[c]
         /\ next' \in [Blocks -> Blocks \cup {Null, Data}]
         /\ sz' \in [Workers -> 0 .. 2 * list_length]
         /\ head' \in [Workers -> Blocks \cup {Null}]
<1>1. /\ next' = [l EXCEPT ![b] = head[w]]
      /\ head' = [head EXCEPT ![w] = b]
      /\ sz' = [sz EXCEPT ![w] = n + 1]
  BY DEF Put
<1>2. /\ sz \in [Workers -> 0 .. 2 * list_length]
      /\ head \in [Workers -> Blocks \cup {Null}]
      /\ list_length \in Nat /\ list_length >= 2
  BY SizeFacts DEF TypeOK
<1>3. \A i \in 1 .. n : s[i] \in Blocks /\ s[i] \in BlocksOf(s) /\ s[i] # b
  <2>1. \A i \in 1 .. n : s[i] \in Blocks /\ s[i] \in BlocksOf(s)
    BY ListFacts
  <2> QED BY <2>1
<1>4. next'[b] = head[w] /\ \A c \in Blocks : c # b => next'[c] = l[c]
  BY <1>1
<1>5. \A i \in 1 .. n : next'[s[i]] = l[s[i]]
  BY <1>3, <1>4
<1>k. PICK k \in Nat : k = n + 1
  OBVIOUS
<1>6. PICK d : d = [i \in 1 .. k |-> IF i = 1 THEN b ELSE s[i - 1]]
  OBVIOUS
<1>7. IsList(d, b, k, next') /\ BlocksOf(d) = BlocksOf(s) \cup {b}
  <2>1. \A i \in 1 .. n : i # n => next'[s[i]] = l[s[i]]
    BY <1>5
  <2>2. next'[b] = head[w]
    BY <1>4
  <2>3. IsList(s, head[w], n, l) /\ b \in Blocks /\ b \notin BlocksOf(s)
    OBVIOUS
  <2>4. d \in [1 .. k -> Blocks] /\ d[1] = b /\ \A i \in 1 .. n : d[i + 1] = s[i]
    <3>1. 1 \in 1 .. k /\ \A i \in 1 .. k : i # 1 => i - 1 \in 1 .. n
      BY <1>k
    <3>2. \A i \in 1 .. n : i + 1 \in 1 .. k /\ i + 1 # 1 /\ (i + 1) - 1 = i
      BY <1>k
    <3> QED BY <1>3, <1>6, <3>1, <3>2
  <2>5. ASSUME NEW f, f = head[w], NEW to2, to2 = next' PROVE IsList(d, b, k, to2)
    <3>1. IsList(s, f, n, l) /\ to2[b] = f /\ \A i \in 1 .. n : i # n => to2[s[i]] = l[s[i]]
      BY <2>1, <2>2, <2>3, <2>5
    <3> QED BY <1>k, <2>3, <2>4, <3>1, ListCons
  <2>6. DOMAIN s = 1 .. n /\ DOMAIN d = 1 .. k
    BY <2>3, <2>4 DEF IsList
  <2>8. /\ n \in Nat /\ k \in Nat /\ k = n + 1 /\ DOMAIN s = 1 .. n /\ DOMAIN d = 1 .. k
        /\ d[1] = b /\ \A i \in 1 .. n : d[i + 1] = s[i]
    BY <1>k, <2>4, <2>6
  <2>7. BlocksOf(d) = BlocksOf(s) \cup {b}
    BY <2>8, ConsBlocks, SMTT(60)
  <2> QED BY <2>5, <2>7
<1>8. k \in Nat /\ k # 0 /\ k \in 1 .. k /\ k \in 0 .. 2 * list_length
  BY <1>2, <1>k
<1>9. sz'[w] = k /\ head'[w] = b /\ Kept(w)' = k
  BY <1>1, <1>2, <1>k DEF Kept
<1>10. Local(w)' = d
  BY <1>7, <1>8, <1>9, FirstOfIs DEF Local
<1>11. Own(w)' = BlocksOf(s) \cup {b}
  BY <1>7, <1>10 DEF Own
<1>12. next'[d[k]] = Null
  <2>1. CASE n = 0
    <3>1. k = 1
      BY <1>k, <2>1
    <3>2. d[k] = b
      BY <1>6, <3>1
    <3> QED BY <1>4, <2>1, <3>2
  <2>2. CASE n # 0
    <3>1. k \in 1 .. k /\ k # 1 /\ (k) - 1 = n /\ n \in 1 .. n
      BY <1>k, <2>2
    <3>2. d[k] = s[n]
      BY <1>6, <3>1
    <3> QED BY <1>5, <2>2, <3>1, <3>2
  <2> QED BY <2>1, <2>2
<1>13. ASSUME k > list_length + 1 PROVE mid'[w] = d[k - list_length]
  <2>1. /\ n > list_length /\ k - list_length \in 1 .. k
        /\ k - list_length # 1 /\ (k - list_length) - 1 = n - list_length
    BY <1>2, <1>k, <1>13
  <2>2. d[k - list_length] = s[n - list_length]
    BY <1>6, <2>1
  <2> QED BY <2>1, <2>2
<1>14. WorkerOK(w)'
  <2>1. IsList(Local(w)', head'[w], Kept(w)', next')
    BY <1>7, <1>9, <1>10
  <2>2. Kept(w)' # 0
    BY <1>8, <1>9
  <2>3. next'[Local(w)'[sz'[w]]] = Null
    BY <1>9, <1>10, <1>12
  <2>4. sz'[w] > list_length + 1 => mid'[w] = Local(w)'[sz'[w] - list_length]
    BY <1>9, <1>10, <1>13
  <2> QED BY <2>1, <2>2, <2>3, <2>4 DEF WorkerOK
<1> QED BY <1>1, <1>2, <1>4, <1>8, <1>11, <1>14

(* The workers that make no step keep what they hold, as a step changes    *)
(* the links of no block of theirs.                                        *)
LEMMA OthersKept ==
  ASSUME TypeOK, \A v \in Workers : WorkerOK(v), NEW w \in Workers,
         \A v \in Workers : v # w =>
           /\ head'[v] = head[v] /\ sz'[v] = sz[v] /\ pc'[v] = pc[v]
           /\ mid'[v] = mid[v] /\ arg'[v] = arg[v],
         \A v \in Workers : v # w => \A b \in Own(v) : next'[b] = next[b]
  PROVE  \A v \in Workers : v # w =>
           /\ WorkerOK(v)' /\ Own(v)' = Own(v)
           /\ InHand(v)' = InHand(v) /\ Holding(v)' = Holding(v)
<1> SUFFICES ASSUME NEW v \in Workers, v # w
             PROVE  /\ WorkerOK(v)' /\ Own(v)' = Own(v)
                    /\ InHand(v)' = InHand(v) /\ Holding(v)' = Holding(v)
  OBVIOUS
<1>1. /\ head'[v] = head[v] /\ sz'[v] = sz[v] /\ pc'[v] = pc[v]
      /\ mid'[v] = mid[v] /\ arg'[v] = arg[v]
  OBVIOUS
<1>2. \A b \in Own(v) : next'[b] = next[b]
  OBVIOUS
<1> QED BY <1>1, <1>2, WorkerKept

(* The lists of the global stack while no step changes it or their links   *)
LEMMA ListsKept ==
  ASSUME \A i \in DOMAIN global_stack : ListOK(i), global_stack' = global_stack,
         \A i \in DOMAIN global_stack : \A b \in Listed(i) : next'[b] = next[b]
  PROVE  \A i \in DOMAIN global_stack : ListOK(i)' /\ Listed(i)' = Listed(i)
<1> SUFFICES ASSUME NEW i \in DOMAIN global_stack PROVE ListOK(i)' /\ Listed(i)' = Listed(i)
  OBVIOUS
<1>1. global_stack'[i] = global_stack[i]
  OBVIOUS
<1> QED BY <1>1, ListKept

(* Blocks that one worker takes from the program or gives to it.           *)
LEMMA PlacesMoved ==
  ASSUME PlacesOK, NEW w \in Workers,
         \A v \in Workers : v # w =>
           Own(v)' = Own(v) /\ InHand(v)' = InHand(v) /\ Holding(v)' = Holding(v),
         \A b \in Own(w)' : b \notin InHand(w)',
         global_stack' = global_stack, blocks_allocated' = blocks_allocated,
         \A i \in DOMAIN global_stack : Listed(i)' = Listed(i),
         Holding(w)' \cup used' = Holding(w) \cup used,
         \A b \in used' : b \notin Holding(w)'
  PROVE  PlacesOK'
<1>1. /\ \A v \in Workers : \A b \in Own(v) : b \notin InHand(v)
      /\ \A u, v \in Workers : \A b \in Holding(u) : b \in Holding(v) => u = v
      /\ \A i, j \in DOMAIN global_stack : \A b \in Listed(i) : b \in Listed(j) => i = j
      /\ \A i \in DOMAIN global_stack : \A v \in Workers : \A b \in Listed(i) : b \notin Holding(v)
      /\ \A b \in used : /\ \A v \in Workers : b \notin Holding(v)
                         /\ \A i \in DOMAIN global_stack : b \notin Listed(i)
      /\ \A b \in Blocks : b \in 1 .. blocks_allocated <=>
           \/ b \in used
           \/ \E v \in Workers : b \in Holding(v)
           \/ \E i \in DOMAIN global_stack : b \in Listed(i)
  BY DEF PlacesOK
<1>2. \A v \in Workers : \A b \in Own(v)' : b \notin InHand(v)'
  BY <1>1
<1>3. \A b \in Holding(w)' : b \in Holding(w) \/ b \in used
  OBVIOUS
<1>4. \A u, v \in Workers : \A b \in Holding(u)' : b \in Holding(v)' => u = v
  BY <1>1, <1>3
<1>5. \A i, j \in DOMAIN global_stack' : \A b \in Listed(i)' : b \in Listed(j)' => i = j
  BY <1>1
<1>6. \A i \in DOMAIN global_stack' : \A v \in Workers : \A b \in Listed(i)' : b \notin Holding(v)'
  BY <1>1, <1>3
<1>7. \A b \in used' : b \in Holding(w) \/ b \in used
  OBVIOUS
<1>8. \A b \in used' : /\ \A v \in Workers : b \notin Holding(v)'
                       /\ \A i \in DOMAIN global_stack' : b \notin Listed(i)'
  BY <1>1, <1>7
<1>9. ASSUME NEW b \in Blocks
      PROVE  b \in 1 .. blocks_allocated' <=>
               \/ b \in used'
               \/ \E v \in Workers : b \in Holding(v)'
               \/ \E i \in DOMAIN global_stack' : b \in Listed(i)'
  <2>1. (b \in used' \/ b \in Holding(w)') <=> (b \in used \/ b \in Holding(w))
    OBVIOUS
  <2>2. (\E i \in DOMAIN global_stack' : b \in Listed(i)')
          <=> \E i \in DOMAIN global_stack : b \in Listed(i)
    OBVIOUS
  <2>3. (b \in used' \/ \E v \in Workers : b \in Holding(v)')
          <=> (b \in used \/ \E v \in Workers : b \in Holding(v))
    BY <2>1
  <2> QED BY <1>1, <2>2, <2>3
<1> QED BY <1>2, <1>4, <1>5, <1>6, <1>8, <1>9 DEF PlacesOK

(* The memory while no list is made                                        *)
LEMMA MemoryKept ==
  ASSUME TypeOK, MemoryOK, NEW w \in Workers, initialized,
         UNCHANGED <<pools, moves>>,
         pc[w] \notin {"grow", "grown"}, pc'[w] \notin {"grow", "grown"},
         \A v \in Workers : v # w => pc'[v] = pc[v] /\ arg'[v] = arg[v]
  PROVE  MemoryOK'
<1>1. /\ initialized' = initialized /\ memory' = memory /\ pool_roots' = pool_roots
      /\ blocks_allocated' = blocks_allocated /\ moves' = moves
  BY DEF pools
<1>2. Growing' = Growing
  BY DEF Growing
<1>3. Extent(memory') = Extent(memory)
  BY <1>1
<1>4. \A v \in Workers : pc[v] = "grown" => pc'[v] = "grown" /\ arg'[v] = arg[v]
  OBVIOUS
<1>5. /\ Extent(memory) = 1 .. blocks_allocated
      /\ \A r \in memory :
           \/ r.start \in pool_roots
           \/ \E v \in Workers : pc[v] = "grown" /\ arg[v] = r.start
      /\ blocks_allocated + Cardinality(Growing) * list_length
           <= num_lists * list_length + moves * list_length
  BY DEF MemoryOK
<1>6. \A r \in memory' :
        \/ r.start \in pool_roots'
        \/ \E v \in Workers : pc'[v] = "grown" /\ arg'[v] = r.start
  BY <1>1, <1>4, <1>5
<1>7. blocks_allocated' + Cardinality(Growing') * list_length
        <= num_lists * list_length + moves' * list_length
  BY <1>1, <1>2, <1>5
<1>8. Extent(memory)' = 1 .. blocks_allocated'
  BY <1>1, <1>5 DEF Extent
<1> QED BY <1>1, <1>6, <1>7, <1>8 DEF MemoryOK

----
(* The actions *)

(* A worker takes the first block of its own list.                         *)
LEMMA AllocLocalStep ==
  ASSUME IInv, NEW w \in Workers, AllocLocal(w)
  PROVE  IInv'
<1>1. /\ TypeOK /\ PlacesOK /\ MemoryOK
      /\ \A v \in Workers : WorkerOK(v)
      /\ \A i \in DOMAIN global_stack : ListOK(i)
  BY DEF IInv
<1>2. /\ ~exited /\ initialized /\ pc[w] = "idle" /\ sz[w] # 0
      /\ Take(w, head[w], sz[w], next)
      /\ UNCHANGED <<pools, moves>>
      /\ global_stack' = global_stack /\ pc' = pc /\ arg' = arg /\ exited' = exited
  BY DEF AllocLocal, At
<1>3. PICK s : s = Local(w)
  OBVIOUS
<1>4. PICK n \in Nat : n = sz[w] /\ n <= 2 * list_length /\ Kept(w) = n
  BY <1>1, <1>2, KeptFacts
<1>5. /\ IsList(s, head[w], n, next) /\ next[s[n]] = Null
      /\ n > list_length + 1 => mid[w] = s[n - list_length]
  BY <1>1, <1>2, <1>3, <1>4 DEF WorkerOK
<1>6. PICK first : first = head[w]
  OBVIOUS
<1>7. /\ IsList(s, first, n, next) /\ Take(w, first, n, next) /\ n # 0 /\ pc'[w] = "idle"
      /\ next \in [Blocks -> Blocks \cup {Null, Data}]
  BY <1>1, <1>2, <1>4, <1>5, <1>6 DEF TypeOK
<1>8. /\ WorkerOK(w)' /\ Own(w)' = BlocksOf(s) \ {first}
      /\ first \in BlocksOf(s) /\ first \in Blocks
      /\ \A v \in Workers : v # w => sz'[v] = sz[v] /\ head'[v] = head[v]
      /\ \A b \in Blocks : b # first => next'[b] = next[b]
      /\ next' \in [Blocks -> Blocks \cup {Null, Data}]
      /\ sz' \in [Workers -> 0 .. 2 * list_length]
      /\ head' \in [Workers -> Blocks \cup {Null}]
      /\ mid' = mid /\ used' = used \cup {first}
  BY <1>1, <1>4, <1>5, <1>7, Taken
<1>9. TypeOK'
  BY <1>1, <1>2, <1>8 DEF TypeOK, pools
<1>10. Own(w) = BlocksOf(s) /\ InHand(w) = {} /\ InHand(w)' = {}
  BY <1>2, <1>3 DEF Own, InHand
<1>11. first \in Holding(w)
  BY <1>8, <1>10 DEF Holding
<1>12. /\ \A v \in Workers : \A b \in Own(v) : b \in Blocks /\ b \in Holding(v)
       /\ \A i \in DOMAIN global_stack : \A b \in Listed(i) : b \in Blocks
  <2>1. \A v \in Workers : \A b \in Own(v) : b \in Blocks
    BY <1>1, LocalFacts
  <2>2. \A i \in DOMAIN global_stack : \A b \in Listed(i) : b \in Blocks
    BY <1>1, ListedFacts
  <2> QED BY <2>1, <2>2 DEF Holding
<1>13. /\ \A v \in Workers : v # w => \A b \in Own(v) : next'[b] = next[b]
       /\ \A i \in DOMAIN global_stack : \A b \in Listed(i) : next'[b] = next[b]
  <2>1. \A v \in Workers : v # w => first \notin Holding(v)
    BY <1>1, <1>11 DEF PlacesOK
  <2>2. \A i \in DOMAIN global_stack : first \notin Listed(i)
    BY <1>1, <1>11 DEF PlacesOK
  <2> QED BY <1>8, <1>12, <2>1, <2>2
<1>14. \A v \in Workers : v # w =>
         /\ WorkerOK(v)' /\ Own(v)' = Own(v)
         /\ InHand(v)' = InHand(v) /\ Holding(v)' = Holding(v)
  BY <1>1, <1>2, <1>8, <1>13, OthersKept
<1>15. \A i \in DOMAIN global_stack : ListOK(i)' /\ Listed(i)' = Listed(i)
  BY <1>1, <1>2, <1>13, ListsKept
<1>16. PlacesOK'
  <2>1. Holding(w) = BlocksOf(s) /\ Holding(w)' = BlocksOf(s) \ {first}
    BY <1>8, <1>10 DEF Holding
  <2>2. Holding(w)' \cup used' = Holding(w) \cup used
    BY <1>8, <2>1
  <2>3. \A b \in used' : b \notin Holding(w)'
    BY <1>1, <1>8, <2>1 DEF PlacesOK
  <2>4. \A b \in Own(w)' : b \notin InHand(w)'
    BY <1>10
  <2>5. blocks_allocated' = blocks_allocated
    BY <1>2 DEF pools
  <2> QED BY <1>1, <1>2, <1>14, <1>15, <2>2, <2>3, <2>4, <2>5, PlacesMoved
<1>17. MemoryOK'
  BY <1>1, <1>2, MemoryKept
<1>18. \A v \in Workers : WorkerOK(v)'
  BY <1>8, <1>14
<1>19. \A i \in DOMAIN global_stack' : ListOK(i)'
  BY <1>2, <1>15
<1> QED BY <1>9, <1>16, <1>17, <1>18, <1>19 DEF IInv

(* Parts of the invariant                                                  *)
LEMMA InvFacts ==
  ASSUME IInv
  PROVE  /\ TypeOK /\ PlacesOK /\ MemoryOK
         /\ \A v \in Workers : WorkerOK(v)
         /\ \A i \in DOMAIN global_stack : ListOK(i)
         /\ \A v \in Workers : \A b \in Own(v) : b \in Blocks /\ b \in Holding(v)
         /\ \A i \in DOMAIN global_stack : \A b \in Listed(i) : b \in Blocks
         /\ \A v \in Workers : \A b \in Own(v) : b \notin InHand(v)
         /\ \A u, v \in Workers : \A b \in Holding(u) : b \in Holding(v) => u = v
         /\ \A i, j \in DOMAIN global_stack : \A b \in Listed(i) : b \in Listed(j) => i = j
         /\ \A i \in DOMAIN global_stack : \A v \in Workers : \A b \in Listed(i) : b \notin Holding(v)
         /\ \A b \in used : /\ \A v \in Workers : b \notin Holding(v)
                            /\ \A i \in DOMAIN global_stack : b \notin Listed(i)
         /\ \A b \in Blocks : b \in 1 .. blocks_allocated <=>
              \/ b \in used
              \/ \E v \in Workers : b \in Holding(v)
              \/ \E i \in DOMAIN global_stack : b \in Listed(i)
<1>1. /\ TypeOK /\ PlacesOK /\ MemoryOK
      /\ \A v \in Workers : WorkerOK(v)
      /\ \A i \in DOMAIN global_stack : ListOK(i)
  BY DEF IInv
<1>2. \A v \in Workers : \A b \in Own(v) : b \in Blocks
  BY <1>1, LocalFacts
<1>3. \A i \in DOMAIN global_stack : \A b \in Listed(i) : b \in Blocks
  BY <1>1, ListedFacts
<1> QED BY <1>1, <1>2, <1>3 DEF Holding, PlacesOK

(* A worker takes the first list of the global stack.                      *)
LEMMA AllocListStep ==
  ASSUME IInv, NEW w \in Workers, AllocList(w)
  PROVE  IInv'
<1>1. /\ TypeOK /\ PlacesOK /\ MemoryOK
      /\ \A v \in Workers : WorkerOK(v)
      /\ \A i \in DOMAIN global_stack : ListOK(i)
  BY DEF IInv
<1>2. /\ ~exited /\ initialized /\ pc[w] = "idle" /\ sz[w] = 0 /\ global_stack # <<>>
      /\ Take(w, Head(global_stack), list_length, next)
      /\ UNCHANGED <<pools, moves>>
      /\ global_stack' = Tail(global_stack) /\ pc' = pc /\ arg' = arg /\ exited' = exited
  BY DEF AllocList, At
<1>3. /\ global_stack \in Seq(Blocks) /\ global_stack' \in Seq(Blocks)
      /\ 1 \in DOMAIN global_stack /\ global_stack[1] = Head(global_stack)
      /\ \A i \in DOMAIN global_stack' :
           i + 1 \in DOMAIN global_stack /\ i + 1 # 1 /\ global_stack'[i] = global_stack[i + 1]
      /\ \A i \in DOMAIN global_stack : i # 1 =>
           i - 1 \in DOMAIN global_stack' /\ (i - 1) + 1 = i
      /\ \A i, j \in DOMAIN global_stack' : i + 1 = j + 1 => i = j
  BY <1>1, <1>2 DEF TypeOK
<1>4. PICK s, first : s = InGlobal(1) /\ first = Head(global_stack)
  OBVIOUS
<1>5. PICK n \in Nat : n = list_length /\ n <= 2 * list_length /\ n # 0 /\ ~(n > list_length + 1)
  BY SizeFacts
<1>6. /\ IsList(s, first, n, next) /\ next[s[n]] = Null
      /\ Take(w, first, n, next) /\ pc'[w] = "idle"
      /\ next \in [Blocks -> Blocks \cup {Null, Data}]
  BY <1>1, <1>2, <1>3, <1>4, <1>5 DEF ListOK, TypeOK
<1>7. /\ WorkerOK(w)' /\ Own(w)' = BlocksOf(s) \ {first}
      /\ first \in BlocksOf(s) /\ first \in Blocks
      /\ \A v \in Workers : v # w => sz'[v] = sz[v] /\ head'[v] = head[v]
      /\ \A b \in Blocks : b # first => next'[b] = next[b]
      /\ next' \in [Blocks -> Blocks \cup {Null, Data}]
      /\ sz' \in [Workers -> 0 .. 2 * list_length]
      /\ head' \in [Workers -> Blocks \cup {Null}]
      /\ mid' = mid /\ used' = used \cup {first}
  BY <1>1, <1>5, <1>6, Taken
<1>8. TypeOK'
  BY <1>1, <1>2, <1>3, <1>7 DEF TypeOK, pools
<1>9. Listed(1) = BlocksOf(s)
  BY <1>4 DEF Listed
<1>10. Holding(w) = {}
  <2>1. Kept(w) = 0 /\ InHand(w) = {}
    BY <1>2 DEF Kept, InHand
  <2>2. 1 .. 0 = {}
    OBVIOUS
  <2>3. Own(w) = {}
    BY <1>1, <2>1, <2>2, LocalFacts
  <2> QED BY <2>1, <2>3 DEF Holding
<1>11. InHand(w)' = {} /\ Holding(w)' = BlocksOf(s) \ {first}
  BY <1>2, <1>7 DEF Holding, InHand
<1>12. /\ \A v \in Workers : \A b \in Own(v) : b \in Blocks /\ b \in Holding(v)
       /\ \A i \in DOMAIN global_stack : \A b \in Listed(i) : b \in Blocks
  BY InvFacts
<1>13. /\ \A v \in Workers : v # w => \A b \in Own(v) : next'[b] = next[b]
       /\ \A i \in DOMAIN global_stack : i # 1 => \A b \in Listed(i) : next'[b] = next[b]
  <2>1. \A v \in Workers : first \notin Holding(v)
    BY <1>3, <1>7, <1>9, InvFacts
  <2>2. \A i \in DOMAIN global_stack : i # 1 => first \notin Listed(i)
    BY <1>3, <1>7, <1>9, InvFacts
  <2> QED BY <1>7, <1>12, <2>1, <2>2
<1>14. \A v \in Workers : v # w =>
         /\ WorkerOK(v)' /\ Own(v)' = Own(v)
         /\ InHand(v)' = InHand(v) /\ Holding(v)' = Holding(v)
  BY <1>1, <1>2, <1>7, <1>13, OthersKept
<1>15. \A i \in DOMAIN global_stack' : ListOK(i)' /\ Listed(i)' = Listed(i + 1)
  <2> SUFFICES ASSUME NEW i \in DOMAIN global_stack' PROVE ListOK(i)' /\ Listed(i)' = Listed(i + 1)
    OBVIOUS
  <2>1. PICK j \in DOMAIN global_stack : j = i + 1 /\ j # 1 /\ global_stack'[i] = global_stack[j]
    BY <1>3
  <2>2. ListOK(j) /\ \A b \in Listed(j) : next'[b] = next[b]
    BY <1>1, <1>13, <2>1
  <2> QED BY <2>1, <2>2, ListKept
<1>16. PlacesOK'
  <2>1. \A v \in Workers : \A b \in Own(v)' : b \notin InHand(v)'
    BY <1>11, <1>14, InvFacts
  <2>2. \A u, v \in Workers : \A b \in Holding(u)' : b \in Holding(v)' => u = v
    <3>1. \A v \in Workers : v # w => \A b \in Holding(v)' : b \notin Holding(w)'
      BY <1>3, <1>9, <1>11, <1>14, InvFacts
    <3>2. \A u, v \in Workers : u # w /\ v # w =>
            \A b \in Holding(u)' : b \in Holding(v)' => u = v
      BY <1>14, InvFacts
    <3> QED BY <3>1, <3>2
  <2>3. \A i, j \in DOMAIN global_stack' : \A b \in Listed(i)' : b \in Listed(j)' => i = j
    <3> SUFFICES ASSUME NEW i \in DOMAIN global_stack', NEW j \in DOMAIN global_stack',
                        NEW b \in Listed(i)', b \in Listed(j)'
                 PROVE  i = j
      OBVIOUS
    <3>1. b \in Listed(i + 1) /\ b \in Listed(j + 1)
      BY <1>15
    <3>2. i + 1 = j + 1
      BY <1>3, <3>1, InvFacts
    <3> QED BY <1>3, <3>2
  <2>4. \A i \in DOMAIN global_stack' : \A v \in Workers : \A b \in Listed(i)' : b \notin Holding(v)'
    <3> SUFFICES ASSUME NEW i \in DOMAIN global_stack', NEW v \in Workers, NEW b \in Listed(i)'
                 PROVE  b \notin Holding(v)'
      OBVIOUS
    <3>1. b \in Listed(i + 1) /\ i + 1 \in DOMAIN global_stack /\ i + 1 # 1
      BY <1>3, <1>15
    <3>2. b \notin Listed(1) /\ \A u \in Workers : b \notin Holding(u)
      BY <1>3, <3>1, InvFacts
    <3> QED BY <1>9, <1>11, <1>14, <3>2
  <2>5. \A b \in used' : /\ \A v \in Workers : b \notin Holding(v)'
                         /\ \A i \in DOMAIN global_stack' : b \notin Listed(i)'
    <3> SUFFICES ASSUME NEW b \in used'
                 PROVE  /\ \A v \in Workers : b \notin Holding(v)'
                        /\ \A i \in DOMAIN global_stack' : b \notin Listed(i)'
      OBVIOUS
    <3>1. /\ \A v \in Workers : b \notin Holding(v)
          /\ \A i \in DOMAIN global_stack : i # 1 => b \notin Listed(i)
          /\ b # first => b \notin Listed(1)
      BY <1>3, <1>7, <1>9, InvFacts
    <3>2. \A i \in DOMAIN global_stack' : b \notin Listed(i)'
      BY <1>3, <1>15, <3>1
    <3> QED BY <1>9, <1>11, <1>14, <3>1, <3>2
  <2>6. ASSUME NEW b \in Blocks
        PROVE  b \in 1 .. blocks_allocated' <=>
                 \/ b \in used'
                 \/ \E v \in Workers : b \in Holding(v)'
                 \/ \E i \in DOMAIN global_stack' : b \in Listed(i)'
    <3>1. (\E v \in Workers : b \in Holding(v)')
            <=> (b \in Listed(1) /\ b # first) \/ \E v \in Workers : b \in Holding(v)
      BY <1>9, <1>10, <1>11, <1>14
    <3>2. (\E i \in DOMAIN global_stack' : b \in Listed(i)')
            <=> \E i \in DOMAIN global_stack : i # 1 /\ b \in Listed(i)
      <4>1. ASSUME NEW i \in DOMAIN global_stack', b \in Listed(i)'
            PROVE  \E j \in DOMAIN global_stack : j # 1 /\ b \in Listed(j)
        BY <1>3, <1>15, <4>1
      <4>2. ASSUME NEW j \in DOMAIN global_stack, j # 1, b \in Listed(j)
            PROVE  \E i \in DOMAIN global_stack' : b \in Listed(i)'
        <5>1. j - 1 \in DOMAIN global_stack' /\ (j - 1) + 1 = j
          BY <1>3, <4>2
        <5>2. Listed(j - 1)' = Listed((j - 1) + 1)
          BY <1>15, <5>1
        <5> QED BY <4>2, <5>1, <5>2
      <4> QED BY <4>1, <4>2
    <3>3. b \in used' <=> b \in used \/ b = first
      BY <1>7
    <3>4. (\E i \in DOMAIN global_stack : b \in Listed(i))
            <=> b \in Listed(1) \/ \E i \in DOMAIN global_stack : i # 1 /\ b \in Listed(i)
      BY <1>3
    <3>5. b = first => b \in Listed(1)
      BY <1>7, <1>9
    <3>6. blocks_allocated' = blocks_allocated
      BY <1>2 DEF pools
    <3>7. b \in 1 .. blocks_allocated <=>
            \/ b \in used
            \/ \E v \in Workers : b \in Holding(v)
            \/ \E i \in DOMAIN global_stack : b \in Listed(i)
      BY InvFacts
    <3> QED BY <3>1, <3>2, <3>3, <3>4, <3>5, <3>6, <3>7
  <2> QED BY <2>1, <2>2, <2>3, <2>4, <2>5, <2>6 DEF PlacesOK
<1>17. MemoryOK'
  BY <1>1, <1>2, MemoryKept
<1>18. \A v \in Workers : WorkerOK(v)'
  BY <1>7, <1>14
<1>19. \A i \in DOMAIN global_stack' : ListOK(i)'
  BY <1>15
<1> QED BY <1>8, <1>16, <1>17, <1>18, <1>19 DEF IInv

(* New memory follows the memory there is, and there is room for it.       *)
LEMMA MemoryFacts ==
  ASSUME TypeOK, MemoryOK
  PROVE  /\ blocks_allocated \in Nat /\ moves \in Nat /\ moves <= MaxMoves
         /\ IsFiniteSet(Growing) /\ Cardinality(Growing) \in Nat
         /\ Cardinality(Growing) * list_length \in Nat
         /\ Fresh = blocks_allocated + 1
         /\ blocks_allocated + Cardinality(Growing) * list_length + list_length <= Cardinality(Blocks)
<1>1. blocks_allocated \in Nat /\ moves \in Nat /\ moves <= MaxMoves
  BY SizeFacts DEF TypeOK
<1>2. IsFiniteSet(Growing) /\ Cardinality(Growing) \in Nat
  <2>1. Growing \subseteq Workers
    BY DEF Growing
  <2> QED BY <2>1, SomeWorkers, FS_Subset, FS_CardinalityType
<1>3. Cardinality(Growing) * list_length \in Nat
  BY <1>2, Products
<1>4. Fresh = blocks_allocated + 1
  <2>1. Extent(memory) = 1 .. blocks_allocated
    BY DEF MemoryOK
  <2>2. Cardinality(1 .. blocks_allocated) = blocks_allocated
    <3>1. CASE blocks_allocated = 0
      <4>1. 1 .. blocks_allocated = {}
        BY <3>1
      <4> QED BY <3>1, <4>1, FS_EmptySet
    <3>2. CASE blocks_allocated >= 1
      BY <1>1, <3>2, FS_Interval
    <3> QED BY <1>1, <3>1, <3>2
  <2> QED BY <2>1, <2>2 DEF Fresh
<1>5. moves * list_length <= MaxMoves * list_length
  BY <1>1, SizeFacts, Products
<1>6. blocks_allocated + Cardinality(Growing) * list_length
        <= num_lists * list_length + moves * list_length
  BY DEF MemoryOK
<1>7. /\ moves * list_length \in Nat /\ MaxMoves * list_length \in Nat
      /\ num_lists * list_length \in Nat /\ list_length \in Nat
      /\ Cardinality(Blocks) = num_lists * list_length + MaxMoves * list_length + list_length
  BY <1>1, SizeFacts, Products
<1>8. blocks_allocated + Cardinality(Growing) * list_length + list_length <= Cardinality(Blocks)
  <2>1. PICK a, b, c, d, e \in Nat :
          /\ a = Cardinality(Growing) * list_length /\ b = moves * list_length
          /\ c = MaxMoves * list_length /\ d = num_lists * list_length /\ e = blocks_allocated
    BY <1>1, <1>3, <1>7
  <2>2. e + a <= d + b /\ b <= c
    BY <1>5, <1>6, <2>1
  <2>3. e + a + list_length <= d + c + list_length
    BY <1>7, <2>2
  <2> QED BY <1>7, <2>1, <2>3
<1> QED BY <1>1, <1>2, <1>3, <1>4, <1>8

(* A worker finds no list.                                                 *)
LEMMA AllocGrowStep ==
  ASSUME IInv, NEW w \in Workers, AllocGrow(w)
  PROVE  IInv'
<1>1. /\ TypeOK /\ PlacesOK /\ MemoryOK
      /\ \A v \in Workers : WorkerOK(v)
      /\ \A i \in DOMAIN global_stack : ListOK(i)
  BY DEF IInv
<1>2. /\ ~exited /\ initialized /\ pc[w] = "idle" /\ sz[w] = 0
      /\ moves < MaxMoves /\ moves' = moves + 1
      /\ pc' = [pc EXCEPT ![w] = "grow"]
      /\ UNCHANGED <<initialized, blocks_allocated, pool_roots, memory, global_stack, next,
                     sz, head, mid, arg, used, exited>>
  BY DEF AllocGrow, At, Goes, pools, lists
<1>3. pc \in [Workers -> {"idle", "grow", "grown", "halved"}] /\ moves \in Nat /\ MaxMoves \in Nat
  BY <1>1, MemoryFacts, SizeFacts DEF TypeOK
<1>4. pc'[w] = "grow" /\ \A v \in Workers : v # w => pc'[v] = pc[v]
  BY <1>2, <1>3
<1>5. TypeOK'
  BY <1>1, <1>2, <1>3 DEF TypeOK
<1>6. \A v \in Workers : v # w =>
        /\ WorkerOK(v)' /\ Own(v)' = Own(v)
        /\ InHand(v)' = InHand(v) /\ Holding(v)' = Holding(v)
  BY <1>1, <1>2, <1>4, OthersKept
<1>7. Kept(w)' = Kept(w) /\ InHand(w) = {} /\ InHand(w)' = {}
  BY <1>2, <1>4 DEF Kept, InHand
<1>8. Local(w)' = Local(w)
  BY <1>2, <1>7 DEF Local
<1>9. Own(w)' = Own(w) /\ Holding(w)' = Holding(w)
  BY <1>7, <1>8 DEF Own, BlocksOf, Holding
<1>10. WorkerOK(w)'
  <2>1. IsList(Local(w), head[w], Kept(w), next) /\ (Kept(w) = 0 => head[w] = Null)
    BY <1>1 DEF WorkerOK
  <2>2. IsList(Local(w)', head'[w], Kept(w)', next') /\ (Kept(w)' = 0 => head'[w] = Null)
    BY <1>2, <1>7, <1>8, <2>1
  <2>3. sz'[w] = 0 /\ ~(0 > list_length + 1)
    BY <1>2, SizeFacts
  <2> QED BY <1>4, <2>2, <2>3 DEF WorkerOK
<1>11. \A i \in DOMAIN global_stack : ListOK(i)' /\ Listed(i)' = Listed(i)
  BY <1>1, <1>2, ListsKept
<1>12. PlacesOK'
  <2>1. \A b \in Own(w)' : b \notin InHand(w)'
    BY <1>7
  <2>2. \A b \in used' : b \notin Holding(w)'
    BY <1>2, <1>9, InvFacts
  <2> QED BY <1>1, <1>2, <1>6, <1>9, <1>11, <2>1, <2>2, PlacesMoved
<1>13. MemoryOK'
  <2>1. Growing' = Growing \cup {w} /\ w \notin Growing
    BY <1>2, <1>4 DEF Growing
  <2>2. IsFiniteSet(Growing) /\ Cardinality(Growing) \in Nat /\ blocks_allocated \in Nat
    BY <1>1, MemoryFacts
  <2>3. Cardinality(Growing') = Cardinality(Growing) + 1
    BY <2>1, <2>2, FS_AddElement
  <2>4. PICK a, m \in Nat : a = Cardinality(Growing) * list_length /\ m = moves * list_length
    BY <1>3, <2>2, Products
  <2>5. /\ Cardinality(Growing') * list_length = a + list_length
        /\ moves' * list_length = m + list_length
    BY <1>2, <1>3, <2>2, <2>3, <2>4, Products
  <2>6. blocks_allocated + a <= num_lists * list_length + m
    BY <1>1, <2>4 DEF MemoryOK
  <2>7. PICK d \in Nat : d = num_lists * list_length
    BY SizeFacts
  <2>8. blocks_allocated + (a + list_length) <= d + (m + list_length)
    BY <2>2, <2>6, <2>7, SizeFacts
  <2>9. blocks_allocated' + Cardinality(Growing') * list_length
          <= num_lists * list_length + moves' * list_length
    BY <1>2, <2>5, <2>7, <2>8
  <2>10. Extent(memory)' = 1 .. blocks_allocated'
    BY <1>1, <1>2 DEF MemoryOK, Extent
  <2>11. \A r \in memory' :
           \/ r.start \in pool_roots'
           \/ \E v \in Workers : pc'[v] = "grown" /\ arg'[v] = r.start
    <3>1. \A v \in Workers : pc[v] = "grown" => pc'[v] = "grown"
      BY <1>2, <1>4
    <3> QED BY <1>1, <1>2, <3>1 DEF MemoryOK
  <2> QED BY <1>2, <2>9, <2>10, <2>11 DEF MemoryOK
<1>14. \A v \in Workers : WorkerOK(v)'
  BY <1>6, <1>10
<1>15. \A i \in DOMAIN global_stack' : ListOK(i)'
  BY <1>2, <1>11
<1> QED BY <1>5, <1>12, <1>13, <1>14, <1>15 DEF IInv

(* A worker gets the memory for a list.                                    *)
LEMMA GrowStep ==
  ASSUME IInv, NEW w \in Workers, Grow(w)
  PROVE  IInv'
<1>1. /\ TypeOK /\ PlacesOK /\ MemoryOK
      /\ \A v \in Workers : WorkerOK(v)
      /\ \A i \in DOMAIN global_stack : ListOK(i)
  BY DEF IInv
<1>a. PICK a \in Nat : a = blocks_allocated /\ Fresh = a + 1
  BY <1>1, MemoryFacts
<1>2. PICK r : /\ a = blocks_allocated /\ r = Region(list_length)
               /\ r = [start |-> a + 1, blocks |-> list_length]
               /\ Fresh = a + 1 /\ a \in Nat
  BY <1>a DEF Region
<1>3. /\ ~exited /\ initialized /\ pc[w] = "grow"
      /\ memory' = memory \cup {r}
      /\ arg' = [arg EXCEPT ![w] = a + 1]
      /\ blocks_allocated' = a + list_length
      /\ pc' = [pc EXCEPT ![w] = "grown"]
      /\ UNCHANGED <<initialized, pool_roots, global_stack, next, sz, head, mid, used, moves, exited>>
  BY <1>2 DEF Grow, At, Goes, lists
<1>4. /\ pc \in [Workers -> {"idle", "grow", "grown", "halved"}]
      /\ arg \in [Workers -> Blocks \cup {Null}]
      /\ list_length \in Nat /\ list_length >= 2
  BY <1>1, SizeFacts DEF TypeOK
<1>5. /\ pc'[w] = "grown" /\ arg'[w] = a + 1
      /\ \A v \in Workers : v # w => pc'[v] = pc[v] /\ arg'[v] = arg[v]
  BY <1>3, <1>4
<1>6. /\ IsFiniteSet(Growing) /\ Cardinality(Growing) \in Nat
      /\ Growing' = Growing \ {w} /\ w \in Growing
  BY <1>1, <1>3, <1>5, MemoryFacts DEF Growing
<1>7. PICK k \in Nat : k = Cardinality(Growing') /\ Cardinality(Growing) = k + 1
  <2>1. IsFiniteSet(Growing \ {w}) /\ Cardinality(Growing \ {w}) = Cardinality(Growing) - 1
    BY <1>6, FS_RemoveElement
  <2>2. Cardinality(Growing \ {w}) \in Nat
    BY <2>1, FS_CardinalityType
  <2>3. Cardinality(Growing) = Cardinality(Growing \ {w}) + 1
    BY <1>6, <2>1, <2>2
  <2> QED BY <1>6, <2>2, <2>3
<1>8. PICK g \in Nat : /\ g = k * list_length
                       /\ Cardinality(Growing) * list_length = g + list_length
  BY <1>7, Products
<1>9. PICK top \in Nat : top = Cardinality(Blocks) /\ Blocks = 1 .. top
  <2>1. Cardinality(Blocks) \in Nat /\ Blocks = 1 .. Cardinality(Blocks)
    BY <1>4, SizeFacts, Products
  <2> QED BY <2>1
<1>10. a + (g + list_length) + list_length <= top
  BY <1>1, <1>2, <1>8, <1>9, MemoryFacts
<1>11. /\ a + 1 \in Blocks /\ a + list_length \in Blocks /\ a + 1 + list_length - 1 \in Blocks
       /\ list_length \in Blocks /\ a + list_length \in 0 .. top
       /\ \A b \in a + 1 .. a + 1 + list_length - 1 : b \in Blocks /\ b \notin 1 .. a
       /\ \A b \in Nat : b \in 1 .. a + list_length <=>
            b \in 1 .. a \/ b \in a + 1 .. a + 1 + list_length - 1
  <2>1. PICK l \in Nat : l = list_length /\ l >= 2
    BY <1>4
  <2>2. a + (g + l) + l <= top
    BY <1>10, <2>1
  <2>3. a + l + l <= top
    BY <2>2
  <2>4. /\ a + 1 \in 1 .. top /\ a + l \in 1 .. top /\ a + 1 + l - 1 \in 1 .. top
        /\ l \in 1 .. top /\ a + l \in 0 .. top
    BY <2>1, <2>3
  <2>5. \A b \in a + 1 .. a + 1 + l - 1 : b \in 1 .. top /\ b \notin 1 .. a
    BY <2>1, <2>3
  <2>6. \A b \in Nat : b \in 1 .. a + l <=> b \in 1 .. a \/ b \in a + 1 .. a + 1 + l - 1
    BY <2>1
  <2> QED BY <1>9, <2>1, <2>4, <2>5, <2>6
<1>12. TypeOK'
  <2>1. r \in [start : Blocks, blocks : Blocks]
    BY <1>2, <1>11
  <2>2. memory' \subseteq [start : Blocks, blocks : Blocks]
    BY <1>1, <1>3, <2>1 DEF TypeOK
  <2>3. blocks_allocated' \in 0 .. Cardinality(Blocks)
    BY <1>3, <1>9, <1>11
  <2>4. arg' \in [Workers -> Blocks \cup {Null}] /\ pc' \in [Workers -> {"idle", "grow", "grown", "halved"}]
    BY <1>3, <1>4, <1>11
  <2> QED BY <1>1, <1>3, <2>2, <2>3, <2>4 DEF TypeOK
<1>13. \A v \in Workers : v # w =>
        /\ WorkerOK(v)' /\ Own(v)' = Own(v)
        /\ InHand(v)' = InHand(v) /\ Holding(v)' = Holding(v)
  BY <1>1, <1>3, <1>5, OthersKept
<1>14. Kept(w)' = Kept(w) /\ InHand(w) = {} /\ InHand(w)' = a + 1 .. a + 1 + list_length - 1
  BY <1>3, <1>5 DEF Kept, InHand
<1>15. Local(w)' = Local(w)
  BY <1>3, <1>14 DEF Local
<1>16. sz[w] = 0 /\ Own(w) = {} /\ Own(w)' = {} /\ Holding(w)' = a + 1 .. a + 1 + list_length - 1
  <2>1. sz[w] = 0
    BY <1>1, <1>3 DEF WorkerOK
  <2>2. Kept(w) = 0 /\ 1 .. 0 = {}
    BY <1>3, <2>1 DEF Kept
  <2>3. Own(w) = {}
    BY <1>1, <2>2, LocalFacts
  <2>4. Own(w)' = {}
    BY <1>15, <2>3 DEF Own, BlocksOf
  <2> QED BY <1>14, <2>1, <2>3, <2>4 DEF Holding
<1>17. WorkerOK(w)'
  <2>1. IsList(Local(w), head[w], Kept(w), next) /\ (Kept(w) = 0 => head[w] = Null)
    BY <1>1 DEF WorkerOK
  <2>2. IsList(Local(w)', head'[w], Kept(w)', next') /\ (Kept(w)' = 0 => head'[w] = Null)
    BY <1>3, <1>14, <1>15, <2>1
  <2>3. sz'[w] = 0 /\ ~(0 > list_length + 1)
    BY <1>3, <1>4, <1>16
  <2>4. arg'[w] \in Blocks /\ arg'[w] + list_length - 1 \in Blocks
    BY <1>5, <1>11
  <2> QED BY <1>5, <2>2, <2>3, <2>4 DEF WorkerOK
<1>18. \A i \in DOMAIN global_stack : ListOK(i)' /\ Listed(i)' = Listed(i)
  BY <1>1, <1>3, ListsKept
<1>19. \A b \in Blocks : b \notin 1 .. a =>
         /\ b \notin used /\ \A v \in Workers : b \notin Holding(v)
         /\ \A i \in DOMAIN global_stack : b \notin Listed(i)
  BY <1>2, InvFacts
<1>20. \A b \in Holding(w)' :
         /\ b \notin used /\ \A v \in Workers : b \notin Holding(v)
         /\ \A i \in DOMAIN global_stack : b \notin Listed(i)
  BY <1>11, <1>16, <1>19
<1>21. Holding(w) = {}
  BY <1>14, <1>16 DEF Holding
<1>22. PlacesOK'
  <2>1. \A v \in Workers : \A b \in Own(v)' : b \notin InHand(v)'
    BY <1>13, <1>16, InvFacts
  <2>2. \A u, v \in Workers : \A b \in Holding(u)' : b \in Holding(v)' => u = v
    <3>1. \A v \in Workers : v # w => \A b \in Holding(v)' : b \notin Holding(w)'
      BY <1>13, <1>20
    <3>2. \A u, v \in Workers : u # w /\ v # w =>
            \A b \in Holding(u)' : b \in Holding(v)' => u = v
      BY <1>13, InvFacts
    <3> QED BY <3>1, <3>2
  <2>3. \A i, j \in DOMAIN global_stack' : \A b \in Listed(i)' : b \in Listed(j)' => i = j
    BY <1>3, <1>18, InvFacts
  <2>4. \A i \in DOMAIN global_stack' : \A v \in Workers : \A b \in Listed(i)' : b \notin Holding(v)'
    BY <1>3, <1>13, <1>18, <1>20, InvFacts
  <2>5. \A b \in used' : /\ \A v \in Workers : b \notin Holding(v)'
                         /\ \A i \in DOMAIN global_stack' : b \notin Listed(i)'
    BY <1>3, <1>13, <1>18, <1>20, InvFacts
  <2>6. ASSUME NEW b \in Blocks
        PROVE  b \in 1 .. blocks_allocated' <=>
                 \/ b \in used'
                 \/ \E v \in Workers : b \in Holding(v)'
                 \/ \E i \in DOMAIN global_stack' : b \in Listed(i)'
    <3>1. b \in 1 .. blocks_allocated' <=> b \in 1 .. a \/ b \in Holding(w)'
      BY <1>3, <1>9, <1>11, <1>16
    <3>2. b \in 1 .. a <=>
            \/ b \in used
            \/ \E v \in Workers : b \in Holding(v)
            \/ \E i \in DOMAIN global_stack : b \in Listed(i)
      BY <1>2, InvFacts
    <3>3. (\E v \in Workers : b \in Holding(v)')
            <=> b \in Holding(w)' \/ \E v \in Workers : b \in Holding(v)
      BY <1>13, <1>21
    <3>4. (\E i \in DOMAIN global_stack' : b \in Listed(i)')
            <=> \E i \in DOMAIN global_stack : b \in Listed(i)
      BY <1>3, <1>18
    <3>5. b \in used' <=> b \in used
      BY <1>3
    <3> QED BY <3>1, <3>2, <3>3, <3>4, <3>5
  <2> QED BY <2>1, <2>2, <2>3, <2>4, <2>5, <2>6 DEF PlacesOK
<1>23. MemoryOK'
  <2>1. blocks_allocated' + Cardinality(Growing') * list_length
          <= num_lists * list_length + moves' * list_length
    <3>1. a + (g + list_length) <= num_lists * list_length + moves * list_length
      BY <1>1, <1>2, <1>8 DEF MemoryOK
    <3>2. a + (g + list_length) = (a + list_length) + g
      BY <1>4
    <3> QED BY <1>3, <1>7, <1>8, <3>1, <3>2
  <2>2. Extent(memory)' = 1 .. blocks_allocated'
    <3>1. Extent(memory)' = Extent(memory) \cup (r.start .. r.start + r.blocks - 1)
      BY <1>3 DEF Extent
    <3>2. r.start = a + 1 /\ r.blocks = list_length
      BY <1>2
    <3>3. Extent(memory) = 1 .. a
      BY <1>1, <1>2 DEF MemoryOK
    <3>4. 1 .. a + list_length = (1 .. a) \cup (a + 1 .. a + 1 + list_length - 1)
      BY <1>4
    <3> QED BY <1>3, <3>1, <3>2, <3>3, <3>4
  <2>3. \A q \in memory' :
           \/ q.start \in pool_roots'
           \/ \E v \in Workers : pc'[v] = "grown" /\ arg'[v] = q.start
    <3> SUFFICES ASSUME NEW q \in memory'
                 PROVE  \/ q.start \in pool_roots'
                        \/ \E v \in Workers : pc'[v] = "grown" /\ arg'[v] = q.start
      OBVIOUS
    <3>1. CASE q = r
      <4>1. pc'[w] = "grown" /\ arg'[w] = q.start
        BY <1>2, <1>5, <3>1
      <4> QED BY <4>1
    <3>2. CASE q \in memory
      <4>1. \A v \in Workers : pc[v] = "grown" => pc'[v] = "grown" /\ arg'[v] = arg[v]
        BY <1>3, <1>5
      <4>2. \/ q.start \in pool_roots
            \/ \E v \in Workers : pc[v] = "grown" /\ arg[v] = q.start
        BY <1>1, <3>2 DEF MemoryOK
      <4> QED BY <1>3, <4>1, <4>2
    <3> QED BY <1>3, <3>1, <3>2
  <2> QED BY <1>3, <2>1, <2>2, <2>3 DEF MemoryOK
<1>24. \A v \in Workers : WorkerOK(v)'
  BY <1>13, <1>17
<1>25. \A i \in DOMAIN global_stack' : ListOK(i)'
  BY <1>3, <1>18
<1> QED BY <1>12, <1>22, <1>23, <1>24, <1>25 DEF IInv

(* There are too many blocks.                                              *)
LEMMA TooManyStep ==
  ASSUME IInv, NEW w \in Workers, TooMany(w)
  PROVE  IInv'
<1>1. /\ exited' = TRUE
      /\ UNCHANGED <<initialized, blocks_allocated, pool_roots, memory, global_stack, next,
                     sz, head, mid, pc, arg, used, moves>>
  BY DEF TooMany, pools, lists
<1>2. TypeOK'
  BY <1>1 DEF IInv, TypeOK
<1>3. \A v \in Workers : Local(v)' = Local(v) /\ Kept(v)' = Kept(v) /\ InHand(v)' = InHand(v)
  BY <1>1 DEF Local, Kept, InHand
<1>4. \A i \in DOMAIN global_stack : InGlobal(i)' = InGlobal(i)
  BY <1>1 DEF InGlobal
<1>5. \A v \in Workers : WorkerOK(v)'
  BY <1>1, <1>3 DEF IInv, WorkerOK
<1>6. \A i \in DOMAIN global_stack' : ListOK(i)'
  BY <1>1, <1>4 DEF IInv, ListOK
<1>7. PlacesOK'
  <2>1. \A v \in Workers : Own(v)' = Own(v) /\ Holding(v)' = Holding(v)
    BY <1>3 DEF Own, Holding, BlocksOf
  <2>2. \A i \in DOMAIN global_stack : Listed(i)' = Listed(i)
    BY <1>4 DEF Listed, BlocksOf
  <2> QED BY <1>1, <1>3, <2>1, <2>2 DEF IInv, PlacesOK
<1>8. MemoryOK'
  <2>1. Growing' = Growing /\ Extent(memory)' = Extent(memory) /\ (Quiet <=> Quiet')
    BY <1>1 DEF Growing, Extent, Quiet
  <2> QED BY <1>1, <2>1 DEF IInv, MemoryOK
<1> QED BY <1>2, <1>5, <1>6, <1>7, <1>8 DEF IInv

(* initialize_list makes a list of the new blocks.                         *)
LEMMA NewList ==
  ASSUME TypeOK, NEW a \in Blocks, a + list_length - 1 \in Blocks,
         NEW l, l = initialize_list(a)
  PROVE  /\ l \in [Blocks -> Blocks \cup {Null, Data}]
         /\ \E s : /\ IsList(s, a, list_length, l) /\ l[s[list_length]] = Null
                   /\ BlocksOf(s) = a .. a + list_length - 1
                   /\ \A b \in Blocks : b \notin BlocksOf(s) => l[b] = next[b]
<1>1. PICK n \in Nat : n = list_length /\ n >= 2
  BY SizeFacts
<1>2. PICK top \in Nat : Blocks = 1 .. top
  <2>1. Cardinality(Blocks) \in Nat /\ Blocks = 1 .. Cardinality(Blocks)
    BY SizeFacts, Products
  <2> QED BY <2>1
<1>3. a \in Nat /\ a >= 1 /\ a + n - 1 <= top
  BY <1>1, <1>2
<1>4. \A j \in 1 .. n : a + j - 1 \in Blocks /\ a + j - 1 \in a .. a + n - 1
  BY <1>2, <1>3
<1>5. \A b \in a .. a + n - 1 : b \in Blocks /\ b - a + 1 \in 1 .. n /\ a + (b - a + 1) - 1 = b
  BY <1>2, <1>3
<1>6. PICK s : /\ DOMAIN s = 1 .. n
               /\ \A j \in 1 .. n : s[j] = a + j - 1
               /\ s \in [1 .. n -> Blocks]
  <2>1. [j \in 1 .. n |-> a + j - 1] \in [1 .. n -> Blocks]
    BY <1>4
  <2> QED BY <2>1
<1>7. BlocksOf(s) = a .. a + n - 1
  <2>1. \A j \in 1 .. n : s[j] \in a .. a + n - 1
    BY <1>4, <1>6
  <2>2. ASSUME NEW b \in a .. a + n - 1 PROVE \E j \in DOMAIN s : s[j] = b
    BY <1>5, <1>6
  <2>3. BlocksOf(s) = {s[j] : j \in 1 .. n}
    BY <1>6 DEF BlocksOf
  <2> QED BY <1>6, <2>1, <2>2, <2>3
<1>8. \A b \in Blocks : l[b] = IF b \in a .. a + n - 1
                               THEN IF b = a + n - 1 THEN Null ELSE b + 1 ELSE next[b]
  BY <1>1 DEF initialize_list, Linked, Links
<1>9. l \in [Blocks -> Blocks \cup {Null, Data}]
  <2>1. l = [b \in Blocks |-> l[b]]
    BY <1>1 DEF initialize_list, Linked
  <2>2. next \in [Blocks -> Blocks \cup {Null, Data}]
    BY DEF TypeOK
  <2>3. \A b \in a .. a + n - 1 : b # a + n - 1 => b + 1 \in Blocks
    BY <1>2, <1>3
  <2>4. \A b \in Blocks : l[b] \in Blocks \cup {Null, Data}
    BY <1>8, <2>2, <2>3
  <2> QED BY <2>1, <2>4
<1>10. \A i, j \in 1 .. n : s[i] = s[j] => i = j
  BY <1>3, <1>6
<1>11. ASSUME NEW i \in 1 .. n - 1 PROVE l[s[i]] = s[i + 1]
  <2>1. /\ i \in 1 .. n /\ i + 1 \in 1 .. n /\ a + i - 1 # a + n - 1
        /\ (a + i - 1) + 1 = a + (i + 1) - 1
    BY <1>3
  <2>2. /\ s[i] = a + i - 1 /\ s[i + 1] = a + (i + 1) - 1
        /\ s[i] \in a .. a + n - 1 /\ s[i] \in Blocks
    BY <1>4, <1>6, <2>1
  <2>3. l[s[i]] = s[i] + 1
    BY <1>8, <2>1, <2>2
  <2> QED BY <2>1, <2>2, <2>3
<1>12. s[1] = a /\ s[n] = a + n - 1
  <2>1. 1 \in 1 .. n /\ n \in 1 .. n /\ a + 1 - 1 = a
    BY <1>1, <1>3
  <2> QED BY <1>6, <2>1
<1>13. l[s[n]] = Null
  <2>1. a + n - 1 \in a .. a + n - 1
    BY <1>1, <1>3
  <2> QED BY <1>5, <1>8, <1>12, <2>1
<1>14. IsList(s, a, n, l)
  BY <1>6, <1>10, <1>11, <1>12 DEF IsList
<1> QED BY <1>1, <1>7, <1>8, <1>9, <1>13, <1>14

(* A worker takes the first block of the list it has made.                 *)
LEMMA GrownStep ==
  ASSUME IInv, NEW w \in Workers, Grown(w)
  PROVE  IInv'
<1>1. /\ TypeOK /\ PlacesOK /\ MemoryOK
      /\ \A v \in Workers : WorkerOK(v)
      /\ \A i \in DOMAIN global_stack : ListOK(i)
  BY DEF IInv
<1>2. PICK a, l : a = arg[w] /\ l = initialize_list(arg[w])
  OBVIOUS
<1>3. /\ ~exited /\ initialized /\ pc[w] = "grown"
      /\ pool_roots' = pool_roots \cup {a}
      /\ Take(w, a, list_length, l)
      /\ arg' = [arg EXCEPT ![w] = Null]
      /\ pc' = [pc EXCEPT ![w] = "idle"]
      /\ UNCHANGED <<initialized, blocks_allocated, memory, global_stack, moves, exited>>
  BY <1>2 DEF Grown, At, Goes
<1>4. /\ pc \in [Workers -> {"idle", "grow", "grown", "halved"}]
      /\ arg \in [Workers -> Blocks \cup {Null}]
  BY <1>1 DEF TypeOK
<1>5. /\ pc'[w] = "idle" /\ arg'[w] = Null
      /\ \A v \in Workers : v # w => pc'[v] = pc[v] /\ arg'[v] = arg[v]
  BY <1>3, <1>4
<1>6. a \in Blocks /\ a + list_length - 1 \in Blocks
  BY <1>1, <1>2, <1>3 DEF WorkerOK
<1>7. PICK s : /\ l \in [Blocks -> Blocks \cup {Null, Data}]
               /\ IsList(s, a, list_length, l) /\ l[s[list_length]] = Null
               /\ BlocksOf(s) = a .. a + list_length - 1
               /\ \A b \in Blocks : b \notin BlocksOf(s) => l[b] = next[b]
  <2>1. l = initialize_list(a)
    BY <1>2
  <2> QED BY <1>1, <1>6, <2>1, NewList
<1>8. PICK n \in Nat : n = list_length /\ n <= 2 * list_length /\ n # 0 /\ ~(n > list_length + 1)
  BY SizeFacts
<1>9. /\ WorkerOK(w)' /\ Own(w)' = BlocksOf(s) \ {a}
      /\ a \in BlocksOf(s) /\ a \in Blocks
      /\ \A v \in Workers : v # w => sz'[v] = sz[v] /\ head'[v] = head[v]
      /\ \A b \in Blocks : b # a => next'[b] = l[b]
      /\ next' \in [Blocks -> Blocks \cup {Null, Data}]
      /\ sz' \in [Workers -> 0 .. 2 * list_length]
      /\ head' \in [Workers -> Blocks \cup {Null}]
      /\ mid' = mid /\ used' = used \cup {a}
  <2>1. /\ IsList(s, a, n, l) /\ l[s[n]] = Null /\ Take(w, a, n, l) /\ pc'[w] = "idle"
        /\ n > list_length + 1 => mid[w] = s[n - list_length]
    BY <1>3, <1>5, <1>7, <1>8
  <2> QED BY <1>1, <1>7, <1>8, <2>1, Taken
<1>10. TypeOK'
  BY <1>1, <1>3, <1>4, <1>6, <1>9 DEF TypeOK
<1>11. InHand(w) = BlocksOf(s) /\ InHand(w)' = {} /\ Own(w) = {}
  <2>1. InHand(w) = BlocksOf(s)
    BY <1>2, <1>3, <1>7 DEF InHand
  <2>2. InHand(w)' = {}
    BY <1>5 DEF InHand
  <2>3. Kept(w) = 0 /\ 1 .. 0 = {}
    BY <1>1, <1>3 DEF Kept, WorkerOK
  <2> QED BY <1>1, <2>1, <2>2, <2>3, LocalFacts
<1>12. Holding(w) = BlocksOf(s) /\ Holding(w)' = BlocksOf(s) \ {a}
  BY <1>9, <1>11 DEF Holding
<1>13. /\ \A v \in Workers : v # w => \A b \in Own(v) : next'[b] = next[b]
       /\ \A i \in DOMAIN global_stack : \A b \in Listed(i) : next'[b] = next[b]
  <2>1. \A v \in Workers : v # w => \A b \in Own(v) : b \in Blocks /\ b \notin BlocksOf(s)
    BY <1>12, InvFacts
  <2>2. \A i \in DOMAIN global_stack : \A b \in Listed(i) : b \in Blocks /\ b \notin BlocksOf(s)
    BY <1>12, InvFacts
  <2>3. \A b \in Blocks : b \notin BlocksOf(s) => next'[b] = next[b]
    BY <1>7, <1>9
  <2> QED BY <2>1, <2>2, <2>3
<1>14. \A v \in Workers : v # w =>
         /\ WorkerOK(v)' /\ Own(v)' = Own(v)
         /\ InHand(v)' = InHand(v) /\ Holding(v)' = Holding(v)
  BY <1>1, <1>5, <1>9, <1>13, OthersKept
<1>15. \A i \in DOMAIN global_stack : ListOK(i)' /\ Listed(i)' = Listed(i)
  BY <1>1, <1>3, <1>13, ListsKept
<1>16. PlacesOK'
  <2>1. Holding(w)' \cup used' = Holding(w) \cup used
    BY <1>9, <1>12
  <2>2. \A b \in used' : b \notin Holding(w)'
    BY <1>9, <1>12, InvFacts
  <2>3. \A b \in Own(w)' : b \notin InHand(w)'
    BY <1>11
  <2> QED BY <1>1, <1>3, <1>14, <1>15, <2>1, <2>2, <2>3, PlacesMoved
<1>17. MemoryOK'
  <2>1. Growing' = Growing
    BY <1>3, <1>5 DEF Growing
  <2>2. Extent(memory)' = Extent(memory)
    BY <1>3 DEF Extent
  <2>3. blocks_allocated' + Cardinality(Growing') * list_length
          <= num_lists * list_length + moves' * list_length
    BY <1>1, <1>3, <2>1 DEF MemoryOK
  <2>4. ASSUME NEW r \in memory'
        PROVE  \/ r.start \in pool_roots'
               \/ \E v \in Workers : pc'[v] = "grown" /\ arg'[v] = r.start
    <3>1. \/ r.start \in pool_roots
          \/ \E v \in Workers : pc[v] = "grown" /\ arg[v] = r.start
      BY <1>1, <1>3 DEF MemoryOK
    <3> QED BY <1>2, <1>3, <1>5, <3>1
  <2> QED BY <1>1, <1>3, <2>2, <2>3, <2>4 DEF MemoryOK
<1>18. \A v \in Workers : WorkerOK(v)'
  BY <1>9, <1>14
<1>19. \A i \in DOMAIN global_stack' : ListOK(i)'
  BY <1>3, <1>15
<1> QED BY <1>10, <1>16, <1>17, <1>18, <1>19 DEF IInv

(* A worker puts a block before those of its list.                         *)
LEMMA FreeStep ==
  ASSUME IInv, NEW w \in Workers, NEW b \in used, Free(w, b)
  PROVE  IInv'
<1>1. /\ TypeOK /\ PlacesOK /\ MemoryOK
      /\ \A v \in Workers : WorkerOK(v)
      /\ \A i \in DOMAIN global_stack : ListOK(i)
  BY DEF IInv
<1>2. /\ ~exited /\ initialized /\ pc[w] = "idle" /\ sz[w] # 2 * list_length
      /\ used' = used \ {b}
      /\ mid' = [mid EXCEPT ![w] = NewMid(w)]
      /\ Put(w, b, sz[w], next)
      /\ UNCHANGED <<pools, moves>>
      /\ global_stack' = global_stack /\ pc' = pc /\ arg' = arg /\ exited' = exited
  BY DEF Free, At
<1>3. b \in Blocks /\ mid \in [Workers -> Blocks \cup {Null}] /\ head \in [Workers -> Blocks \cup {Null}]
  BY <1>1 DEF TypeOK
<1>4. mid'[w] = NewMid(w) /\ \A v \in Workers : v # w => mid'[v] = mid[v]
  BY <1>2, <1>3
<1>5. PICK s : s = Local(w)
  OBVIOUS
<1>6. PICK n \in Nat : n = sz[w] /\ n < 2 * list_length /\ Kept(w) = n
  <2>1. sz[w] \in Nat /\ sz[w] <= 2 * list_length /\ Kept(w) = sz[w]
    BY <1>1, <1>2, KeptFacts
  <2>2. sz[w] < 2 * list_length
    BY <1>2, <2>1, SizeFacts, SMTT(60)
  <2> QED BY <2>1, <2>2
<1>7. /\ IsList(s, head[w], n, next) /\ (n = 0 => head[w] = Null)
      /\ n # 0 => next[s[n]] = Null
      /\ n > list_length + 1 => mid[w] = s[n - list_length]
  BY <1>1, <1>2, <1>5, <1>6 DEF WorkerOK
<1>8. n > list_length => mid'[w] = s[n - list_length]
  <2>1. CASE n = list_length + 1
    <3>1. n # 0 /\ n - list_length = 1
      BY <2>1, SizeFacts
    <3>2. s[1] = head[w]
      BY <1>7, <3>1 DEF IsList
    <3> QED BY <1>4, <1>6, <2>1, <3>1, <3>2 DEF NewMid
  <2>2. CASE n > list_length + 1
    <3>1. n # list_length + 1
      BY <2>2, SizeFacts
    <3> QED BY <1>4, <1>6, <1>7, <2>2, <3>1 DEF NewMid
  <2>3. n > list_length => n = list_length + 1 \/ n > list_length + 1
    BY SizeFacts
  <2> QED BY <2>1, <2>2, <2>3
<1>9. Own(w) = BlocksOf(s) /\ InHand(w) = {} /\ InHand(w)' = {} /\ Holding(w) = BlocksOf(s)
  BY <1>2, <1>5 DEF Own, InHand, Holding
<1>10. b \notin BlocksOf(s)
  BY <1>9, InvFacts
<1>11. /\ WorkerOK(w)' /\ Own(w)' = BlocksOf(s) \cup {b}
       /\ \A v \in Workers : v # w => sz'[v] = sz[v] /\ head'[v] = head[v]
       /\ \A c \in Blocks : c # b => next'[c] = next[c]
       /\ next' \in [Blocks -> Blocks \cup {Null, Data}]
       /\ sz' \in [Workers -> 0 .. 2 * list_length]
       /\ head' \in [Workers -> Blocks \cup {Null}]
  <2>1. next \in [Blocks -> Blocks \cup {Null, Data}] /\ pc'[w] = "idle" /\ Put(w, b, n, next)
    BY <1>1, <1>2, <1>6 DEF TypeOK
  <2> QED BY <1>1, <1>3, <1>6, <1>7, <1>8, <1>10, <2>1, PutThere
<1>12. TypeOK'
  <2>1. NewMid(w) \in Blocks \cup {Null}
    BY <1>3 DEF NewMid
  <2>2. mid' \in [Workers -> Blocks \cup {Null}]
    BY <1>2, <1>3, <2>1
  <2> QED BY <1>1, <1>2, <1>11, <2>2 DEF TypeOK, pools
<1>13. /\ \A v \in Workers : v # w => \A c \in Own(v) : next'[c] = next[c]
       /\ \A i \in DOMAIN global_stack : \A c \in Listed(i) : next'[c] = next[c]
  <2>1. \A v \in Workers : \A c \in Own(v) : c \in Blocks /\ c # b
    BY InvFacts
  <2>2. \A i \in DOMAIN global_stack : \A c \in Listed(i) : c \in Blocks /\ c # b
    BY InvFacts
  <2> QED BY <1>11, <2>1, <2>2
<1>14. \A v \in Workers : v # w =>
         /\ WorkerOK(v)' /\ Own(v)' = Own(v)
         /\ InHand(v)' = InHand(v) /\ Holding(v)' = Holding(v)
  BY <1>1, <1>2, <1>4, <1>11, <1>13, OthersKept
<1>15. \A i \in DOMAIN global_stack : ListOK(i)' /\ Listed(i)' = Listed(i)
  BY <1>1, <1>2, <1>13, ListsKept
<1>16. PlacesOK'
  <2>1. Holding(w)' = BlocksOf(s) \cup {b}
    BY <1>9, <1>11 DEF Holding
  <2>2. Holding(w)' \cup used' = Holding(w) \cup used
    BY <1>2, <1>9, <2>1
  <2>3. \A c \in used' : c \notin Holding(w)'
    BY <1>2, <1>9, <2>1, InvFacts
  <2>4. \A c \in Own(w)' : c \notin InHand(w)'
    BY <1>9
  <2>5. blocks_allocated' = blocks_allocated
    BY <1>2 DEF pools
  <2> QED BY <1>1, <1>2, <1>14, <1>15, <2>2, <2>3, <2>4, <2>5, PlacesMoved
<1>17. MemoryOK'
  BY <1>1, <1>2, MemoryKept
<1>18. \A v \in Workers : WorkerOK(v)'
  BY <1>11, <1>14
<1>19. \A i \in DOMAIN global_stack' : ListOK(i)'
  BY <1>2, <1>15
<1> QED BY <1>12, <1>16, <1>17, <1>18, <1>19 DEF IInv

(* A worker makes mid the last of its list and puts the block before it.   *)
LEMMA HalvedStep ==
  ASSUME IInv, NEW w \in Workers, Halved(w)
  PROVE  IInv'
<1>1. /\ TypeOK /\ PlacesOK /\ MemoryOK
      /\ \A v \in Workers : WorkerOK(v)
      /\ \A i \in DOMAIN global_stack : ListOK(i)
  BY DEF IInv
<1>2. PICK b, l, m : b = arg[w] /\ m = mid[w] /\ l = [next EXCEPT ![m] = Null]
  OBVIOUS
<1>3. /\ ~exited /\ initialized /\ pc[w] = "halved"
      /\ Put(w, b, list_length, l)
      /\ arg' = [arg EXCEPT ![w] = Null]
      /\ pc' = [pc EXCEPT ![w] = "idle"]
      /\ UNCHANGED <<pools, moves>>
      /\ global_stack' = global_stack /\ mid' = mid /\ used' = used /\ exited' = exited
  BY <1>2 DEF Halved, At, Goes
<1>4. /\ pc \in [Workers -> {"idle", "grow", "grown", "halved"}]
      /\ arg \in [Workers -> Blocks \cup {Null}]
      /\ next \in [Blocks -> Blocks \cup {Null, Data}]
  BY <1>1 DEF TypeOK
<1>5. /\ pc'[w] = "idle" /\ arg'[w] = Null
      /\ \A v \in Workers : v # w => pc'[v] = pc[v] /\ arg'[v] = arg[v]
  BY <1>3, <1>4
<1>6. PICK s : s = Local(w)
  OBVIOUS
<1>7. PICK n \in Nat : /\ n = list_length /\ n < 2 * list_length /\ n # 0 /\ Kept(w) = n
                       /\ ~(n > list_length)
  BY <1>1, <1>3, KeptFacts, SizeFacts
<1>8. IsList(s, head[w], n, next) /\ m = s[n] /\ b \in Blocks
  BY <1>1, <1>2, <1>3, <1>6, <1>7 DEF WorkerOK
<1>9. /\ \A i \in 1 .. n : s[i] \in Blocks /\ s[i] \in BlocksOf(s)
      /\ \A i, j \in 1 .. n : s[i] = s[j] => i = j
      /\ n \in 1 .. n
  <2>1. \A i \in 1 .. n : s[i] \in Blocks /\ s[i] \in BlocksOf(s)
    BY <1>8, ListFacts
  <2> QED BY <1>7, <1>8, <2>1 DEF IsList
<1>10. /\ m \in Blocks /\ m \in BlocksOf(s) /\ l[m] = Null
       /\ \A c \in Blocks : c # m => l[c] = next[c]
       /\ l \in [Blocks -> Blocks \cup {Null, Data}]
  <2>1. m \in Blocks /\ m \in BlocksOf(s)
    BY <1>8, <1>9
  <2> QED BY <1>2, <1>4, <2>1
<1>11. IsList(s, head[w], n, l)
  <2>1. \A i \in 1 .. n : i # n => l[s[i]] = next[s[i]]
    BY <1>8, <1>9, <1>10
  <2> QED BY <1>8, <2>1, ListSame
<1>12. Own(w) = BlocksOf(s) /\ InHand(w) = {b} /\ InHand(w)' = {} /\ Holding(w) = BlocksOf(s) \cup {b}
  BY <1>2, <1>3, <1>5, <1>6 DEF Own, InHand, Holding
<1>13. b \notin BlocksOf(s)
  BY <1>12, InvFacts
<1>14. /\ WorkerOK(w)' /\ Own(w)' = BlocksOf(s) \cup {b}
       /\ \A v \in Workers : v # w => sz'[v] = sz[v] /\ head'[v] = head[v]
       /\ \A c \in Blocks : c # b => next'[c] = l[c]
       /\ next' \in [Blocks -> Blocks \cup {Null, Data}]
       /\ sz' \in [Workers -> 0 .. 2 * list_length]
       /\ head' \in [Workers -> Blocks \cup {Null}]
  <2>1. Put(w, b, n, l) /\ l[s[n]] = Null /\ ~(n > list_length)
    BY <1>3, <1>7, <1>8, <1>10
  <2> QED BY <1>1, <1>5, <1>7, <1>8, <1>10, <1>11, <1>13, <2>1, PutThere
<1>15. TypeOK'
  BY <1>1, <1>3, <1>4, <1>14 DEF TypeOK, pools
<1>16. \A c \in Blocks : c \notin Holding(w) => next'[c] = next[c]
  BY <1>10, <1>12, <1>14
<1>17. /\ \A v \in Workers : v # w => \A c \in Own(v) : next'[c] = next[c]
       /\ \A i \in DOMAIN global_stack : \A c \in Listed(i) : next'[c] = next[c]
  <2>1. \A v \in Workers : v # w => \A c \in Own(v) : c \in Blocks /\ c \notin Holding(w)
    BY InvFacts
  <2>2. \A i \in DOMAIN global_stack : \A c \in Listed(i) : c \in Blocks /\ c \notin Holding(w)
    BY InvFacts
  <2> QED BY <1>16, <2>1, <2>2
<1>18. \A v \in Workers : v # w =>
         /\ WorkerOK(v)' /\ Own(v)' = Own(v)
         /\ InHand(v)' = InHand(v) /\ Holding(v)' = Holding(v)
  BY <1>1, <1>3, <1>5, <1>14, <1>17, OthersKept
<1>19. \A i \in DOMAIN global_stack : ListOK(i)' /\ Listed(i)' = Listed(i)
  BY <1>1, <1>3, <1>17, ListsKept
<1>20. PlacesOK'
  <2>1. Holding(w)' = Holding(w)
    BY <1>12, <1>14 DEF Holding
  <2>2. Holding(w)' \cup used' = Holding(w) \cup used
    BY <1>3, <2>1
  <2>3. \A c \in used' : c \notin Holding(w)'
    BY <1>3, <2>1, InvFacts
  <2>4. \A c \in Own(w)' : c \notin InHand(w)'
    BY <1>12
  <2>5. blocks_allocated' = blocks_allocated
    BY <1>3 DEF pools
  <2> QED BY <1>1, <1>3, <1>18, <1>19, <2>2, <2>3, <2>4, <2>5, PlacesMoved
<1>21. MemoryOK'
  BY <1>1, <1>3, <1>5, MemoryKept
<1>22. \A v \in Workers : WorkerOK(v)'
  BY <1>14, <1>18
<1>23. \A i \in DOMAIN global_stack' : ListOK(i)'
  BY <1>3, <1>19
<1> QED BY <1>15, <1>20, <1>21, <1>22, <1>23 DEF IInv

(* A worker gives the second half of its list to the global stack.         *)
LEMMA FreeHalfStep ==
  ASSUME IInv, NEW w \in Workers, NEW b \in used, FreeHalf(w, b)
  PROVE  IInv'
<1>1. /\ TypeOK /\ PlacesOK /\ MemoryOK
      /\ \A v \in Workers : WorkerOK(v)
      /\ \A i \in DOMAIN global_stack : ListOK(i)
  BY DEF IInv
<1>2. PICK first : first = next[mid[w]]
  OBVIOUS
<1>3. /\ ~exited /\ initialized /\ pc[w] = "idle" /\ sz[w] = 2 * list_length
      /\ used' = used \ {b}
      /\ global_stack' = <<first>> \o global_stack
      /\ arg' = [arg EXCEPT ![w] = b]
      /\ pc' = [pc EXCEPT ![w] = "halved"]
      /\ UNCHANGED <<pools, moves>>
      /\ next' = next /\ sz' = sz /\ head' = head /\ mid' = mid /\ exited' = exited
  BY <1>2 DEF FreeHalf, At, Goes, lists
<1>4. /\ b \in Blocks /\ pc \in [Workers -> {"idle", "grow", "grown", "halved"}]
      /\ arg \in [Workers -> Blocks \cup {Null}] /\ global_stack \in Seq(Blocks)
  BY <1>1 DEF TypeOK
<1>5. /\ pc'[w] = "halved" /\ arg'[w] = b
      /\ \A v \in Workers : v # w => pc'[v] = pc[v] /\ arg'[v] = arg[v]
  BY <1>3, <1>4
<1>6. PICK s : s = Local(w)
  OBVIOUS
<1>7. PICK n \in Nat : n = list_length /\ n >= 2
  BY SizeFacts
<1>8. PICK k \in Nat : k = n + n /\ k = sz[w] /\ Kept(w) = k /\ k - n = n /\ k > n + 1 /\ k # 0
  BY <1>1, <1>3, <1>7, KeptFacts
<1>9. IsList(s, head[w], k, next) /\ next[s[k]] = Null /\ mid[w] = s[n]
  <2>1. sz[w] > list_length + 1 /\ sz[w] - list_length = n /\ sz[w] # 0
    BY <1>7, <1>8
  <2> QED BY <1>1, <1>3, <1>6, <1>8, <2>1 DEF WorkerOK
<1>10. k = n + n /\ IsList(s, head[w], k, next) /\ n # 0 /\ n \in Nat
  BY <1>7, <1>8, <1>9
<1>11. PICK c, d : /\ IsList(c, head[w], n, next) /\ c[n] = s[n]
                   /\ IsList(d, next[s[n]], n, next) /\ d[n] = s[k]
                   /\ BlocksOf(s) = BlocksOf(c) \cup BlocksOf(d)
                   /\ \A x \in BlocksOf(c) : x \notin BlocksOf(d)
  <2>1. PICK f, to, g : f = head[w] /\ to = next /\ g = to[s[n]]
    OBVIOUS
  <2>2. IsList(s, f, k, to) /\ n \in Nat /\ n # 0 /\ k \in Nat /\ k = n + n /\ g = to[s[n]]
    BY <1>8, <1>10, <2>1
  <2>3. PICK c, d : Halves(s, n, c, d)
    <3>1. PICK c, d : c = [i \in 1 .. n |-> s[i]] /\ d = [i \in 1 .. n |-> s[n + i]]
      OBVIOUS
    <3>2. Halves(s, n, c, d)
      BY <3>1 DEF Halves
    <3> QED BY <3>2
  <2>4. IsList(c, f, n, to) /\ IsList(d, g, n, to)
    BY <2>2, <2>3, ListHalves
  <2>5. c[n] = s[n] /\ d[n] = s[k]
    BY <2>2, <2>3 DEF Halves
  <2>6. BlocksOf(s) = BlocksOf(c) \cup BlocksOf(d)
    BY <2>2, <2>3, BlocksOfHalves
  <2>7. \A x \in BlocksOf(c) : x \notin BlocksOf(d)
    BY <2>2, <2>3, BlocksOfHalves
  <2> QED BY <2>1, <2>4, <2>5, <2>6, <2>7
<1>12. IsList(d, first, n, next) /\ next[d[n]] = Null
  BY <1>2, <1>8, <1>9, <1>11
<1>13. first \in Blocks
  <2>1. PICK to : IsList(d, first, n, to)
    BY <1>12
  <2> QED BY <1>7, <2>1, ListFacts
<1>14. /\ global_stack' \in Seq(Blocks) /\ 1 \in DOMAIN global_stack' /\ global_stack'[1] = first
       /\ \A i \in DOMAIN global_stack :
            i + 1 \in DOMAIN global_stack' /\ i + 1 # 1 /\ global_stack'[i + 1] = global_stack[i]
       /\ \A i \in DOMAIN global_stack' : i # 1 =>
            i - 1 \in DOMAIN global_stack /\ (i - 1) + 1 = i /\ global_stack'[i] = global_stack[i - 1]
       /\ \A i, j \in DOMAIN global_stack' : i - 1 = j - 1 => i = j
  <2>1. PICK g : g = global_stack
    OBVIOUS
  <2>2. PICK m \in Nat : m = Len(g) /\ g \in Seq(Blocks) /\ DOMAIN g = 1 .. m
    BY <1>4, <2>1
  <2>3. PICK h : h = <<first>> \o g
    OBVIOUS
  <2>4. h \in Seq(Blocks) /\ Len(h) = m + 1 /\ DOMAIN h = 1 .. m + 1
    BY <1>13, <2>2, <2>3
  <2>5. h[1] = first /\ \A i \in 1 .. m : h[i + 1] = g[i]
    BY <1>13, <2>2, <2>3
  <2>6. /\ 1 \in 1 .. m + 1 /\ \A i \in 1 .. m : i + 1 \in 1 .. m + 1 /\ i + 1 # 1
        /\ \A i \in 1 .. m + 1 : i # 1 => i - 1 \in 1 .. m /\ (i - 1) + 1 = i
        /\ \A i, j \in 1 .. m + 1 : i - 1 = j - 1 => i = j
    OBVIOUS
  <2>7. \A i \in 1 .. m + 1 : i # 1 => h[i] = g[i - 1]
    BY <2>5, <2>6
  <2> QED BY <1>3, <2>1, <2>2, <2>3, <2>4, <2>5, <2>6, <2>7
<1>15. TypeOK'
  BY <1>1, <1>3, <1>4, <1>14 DEF TypeOK, pools
<1>16. Kept(w)' = n /\ Local(w)' = c /\ Own(w)' = BlocksOf(c) /\ InHand(w)' = {b}
  <2>1. Kept(w)' = n
    BY <1>5, <1>7 DEF Kept
  <2>2. Local(w)' = FirstOf(head[w], n, next)
    BY <1>3, <2>1 DEF Local
  <2>3. Local(w)' = c
    BY <1>11, <2>2, FirstOfIs
  <2>4. InHand(w)' = {b}
    BY <1>5 DEF InHand
  <2> QED BY <2>1, <2>3, <2>4 DEF Own
<1>17. WorkerOK(w)'
  <2>1. IsList(Local(w)', head'[w], Kept(w)', next')
    BY <1>3, <1>11, <1>16
  <2>2. Kept(w)' # 0
    BY <1>7, <1>16
  <2>3. sz'[w] = 2 * list_length /\ mid'[w] = Local(w)'[list_length] /\ arg'[w] \in Blocks
    BY <1>3, <1>4, <1>5, <1>7, <1>9, <1>11, <1>16
  <2> QED BY <1>5, <2>1, <2>2, <2>3 DEF WorkerOK
<1>18. /\ Own(w) = BlocksOf(s) /\ InHand(w) = {} /\ Holding(w) = BlocksOf(s)
       /\ Holding(w)' = BlocksOf(c) \cup {b}
  BY <1>3, <1>6, <1>16 DEF Own, InHand, Holding
<1>19. \A v \in Workers : v # w =>
         /\ WorkerOK(v)' /\ Own(v)' = Own(v)
         /\ InHand(v)' = InHand(v) /\ Holding(v)' = Holding(v)
  BY <1>1, <1>3, <1>5, OthersKept
<1>20. ListOK(1)' /\ Listed(1)' = BlocksOf(d)
  <2>1. InGlobal(1)' = FirstOf(first, list_length, next)
    BY <1>3, <1>14 DEF InGlobal
  <2>2. InGlobal(1)' = d
    BY <1>7, <1>12, <2>1, FirstOfIs
  <2>3. IsList(InGlobal(1)', global_stack'[1], list_length, next') /\ next'[InGlobal(1)'[list_length]] = Null
    BY <1>3, <1>7, <1>12, <1>14, <2>2
  <2> QED BY <2>2, <2>3 DEF ListOK, Listed
<1>21. \A i \in DOMAIN global_stack' : i # 1 => ListOK(i)' /\ Listed(i)' = Listed(i - 1)
  <2> SUFFICES ASSUME NEW i \in DOMAIN global_stack', i # 1
               PROVE  ListOK(i)' /\ Listed(i)' = Listed(i - 1)
    OBVIOUS
  <2>1. PICK j \in DOMAIN global_stack : j = i - 1 /\ global_stack'[i] = global_stack[j]
    BY <1>14
  <2>2. ListOK(j) /\ \A x \in Listed(j) : next'[x] = next[x]
    BY <1>1, <1>3
  <2> QED BY <2>1, <2>2, ListKept
<1>22. PlacesOK'
  <2>1. b \notin BlocksOf(s)
    BY <1>18, InvFacts
  <2>2. \A v \in Workers : \A x \in Own(v)' : x \notin InHand(v)'
    <3>1. \A x \in Own(w)' : x \notin InHand(w)'
      BY <1>11, <1>16, <2>1
    <3>2. \A v \in Workers : v # w => \A x \in Own(v)' : x \notin InHand(v)'
      BY <1>19, InvFacts
    <3> QED BY <3>1, <3>2
  <2>3. \A x \in Holding(w)' : x \in Holding(w) \/ x = b
    BY <1>11, <1>18
  <2>4. /\ \A v \in Workers : b \notin Holding(v)
        /\ \A i \in DOMAIN global_stack : b \notin Listed(i)
    BY InvFacts
  <2>5. \A u, v \in Workers : \A x \in Holding(u)' : x \in Holding(v)' => u = v
    <3>1. \A v \in Workers : v # w => \A x \in Holding(v)' : x \notin Holding(w)'
      BY <1>19, <2>3, <2>4, InvFacts
    <3>2. \A u, v \in Workers : u # w /\ v # w =>
            \A x \in Holding(u)' : x \in Holding(v)' => u = v
      BY <1>19, InvFacts
    <3> QED BY <3>1, <3>2
  <2>6. \A x \in BlocksOf(d) : /\ x \in Holding(w) /\ x \notin Holding(w)' /\ x # b
    BY <1>11, <1>18, <2>1
  <2>7. \A i, j \in DOMAIN global_stack' : \A x \in Listed(i)' : x \in Listed(j)' => i = j
    <3> SUFFICES ASSUME NEW i \in DOMAIN global_stack', NEW j \in DOMAIN global_stack',
                        NEW x \in Listed(i)', x \in Listed(j)'
                 PROVE  i = j
      OBVIOUS
    <3>1. CASE i # 1 /\ j # 1
      <4>1. x \in Listed(i - 1) /\ x \in Listed(j - 1)
        BY <1>21, <3>1
      <4>2. i - 1 = j - 1
        BY <1>14, <3>1, <4>1, InvFacts
      <4> QED BY <1>14, <4>2
    <3>2. CASE i = 1 /\ j # 1
      <4>1. x \in Holding(w) /\ x \in Listed(j - 1) /\ j - 1 \in DOMAIN global_stack
        BY <1>14, <1>20, <1>21, <2>6, <3>2
      <4> QED BY <4>1, InvFacts
    <3>3. CASE i # 1 /\ j = 1
      <4>1. x \in Holding(w) /\ x \in Listed(i - 1) /\ i - 1 \in DOMAIN global_stack
        BY <1>14, <1>20, <1>21, <2>6, <3>3
      <4> QED BY <4>1, InvFacts
    <3> QED BY <3>1, <3>2, <3>3
  <2>8. \A i \in DOMAIN global_stack' : \A v \in Workers : \A x \in Listed(i)' : x \notin Holding(v)'
    <3> SUFFICES ASSUME NEW i \in DOMAIN global_stack', NEW v \in Workers, NEW x \in Listed(i)'
                 PROVE  x \notin Holding(v)'
      OBVIOUS
    <3>1. CASE i = 1
      BY <1>19, <1>20, <2>6, <3>1, InvFacts
    <3>2. CASE i # 1
      <4>1. x \in Listed(i - 1) /\ i - 1 \in DOMAIN global_stack
        BY <1>14, <1>21, <3>2
      <4>2. x # b /\ \A u \in Workers : x \notin Holding(u)
        BY <2>4, <4>1, InvFacts
      <4> QED BY <1>19, <2>3, <4>2
    <3> QED BY <3>1, <3>2
  <2>9. \A x \in used' : /\ \A v \in Workers : x \notin Holding(v)'
                         /\ \A i \in DOMAIN global_stack' : x \notin Listed(i)'
    <3> SUFFICES ASSUME NEW x \in used'
                 PROVE  /\ \A v \in Workers : x \notin Holding(v)'
                        /\ \A i \in DOMAIN global_stack' : x \notin Listed(i)'
      OBVIOUS
    <3>1. /\ x # b /\ \A v \in Workers : x \notin Holding(v)
          /\ \A i \in DOMAIN global_stack : x \notin Listed(i)
      BY <1>3, InvFacts
    <3>2. \A i \in DOMAIN global_stack' : x \notin Listed(i)'
      BY <1>14, <1>20, <1>21, <2>6, <3>1
    <3> QED BY <1>19, <2>3, <3>1, <3>2
  <2>10. ASSUME NEW x \in Blocks
        PROVE  x \in 1 .. blocks_allocated' <=>
                 \/ x \in used'
                 \/ \E v \in Workers : x \in Holding(v)'
                 \/ \E i \in DOMAIN global_stack' : x \in Listed(i)'
    <3>1. (\E i \in DOMAIN global_stack' : x \in Listed(i)')
            <=> x \in BlocksOf(d) \/ \E i \in DOMAIN global_stack : x \in Listed(i)
      <4>1. ASSUME NEW i \in DOMAIN global_stack', x \in Listed(i)'
            PROVE  x \in BlocksOf(d) \/ \E j \in DOMAIN global_stack : x \in Listed(j)
        BY <1>14, <1>20, <1>21, <4>1
      <4>2. ASSUME NEW j \in DOMAIN global_stack, x \in Listed(j)
            PROVE  \E i \in DOMAIN global_stack' : x \in Listed(i)'
        <5>1. j + 1 \in DOMAIN global_stack' /\ j + 1 # 1 /\ (j + 1) - 1 = j
          BY <1>4, <1>14
        <5>2. Listed(j + 1)' = Listed((j + 1) - 1)
          BY <1>21, <5>1
        <5> QED BY <4>2, <5>1, <5>2
      <4>3. x \in BlocksOf(d) => x \in Listed(1)'
        BY <1>20
      <4> QED BY <1>14, <4>1, <4>2, <4>3
    <3>2. (\E v \in Workers : x \in Holding(v)')
            <=> x \in BlocksOf(c) \/ x = b \/ \E v \in Workers : v # w /\ x \in Holding(v)
      BY <1>18, <1>19
    <3>3. (\E v \in Workers : x \in Holding(v))
            <=> x \in BlocksOf(s) \/ \E v \in Workers : v # w /\ x \in Holding(v)
      BY <1>18
    <3>4. x \in used <=> x \in used' \/ x = b
      BY <1>3
    <3>5. blocks_allocated' = blocks_allocated
      BY <1>3 DEF pools
    <3>6. x \in 1 .. blocks_allocated <=>
            \/ x \in used
            \/ \E v \in Workers : x \in Holding(v)
            \/ \E i \in DOMAIN global_stack : x \in Listed(i)
      BY InvFacts
    <3>7. x \in BlocksOf(s) <=> x \in BlocksOf(c) \/ x \in BlocksOf(d)
      BY <1>11
    <3> QED BY <3>1, <3>2, <3>3, <3>4, <3>5, <3>6, <3>7
  <2> QED BY <2>2, <2>5, <2>7, <2>8, <2>9, <2>10 DEF PlacesOK
<1>23. MemoryOK'
  BY <1>1, <1>3, <1>5, MemoryKept
<1>24. \A v \in Workers : WorkerOK(v)'
  BY <1>17, <1>19
<1>25. \A i \in DOMAIN global_stack' : ListOK(i)'
  BY <1>20, <1>21
<1> QED BY <1>15, <1>22, <1>23, <1>24, <1>25 DEF IInv

(* initialize_lists makes lists that follow one another.                   *)
LEMMA NewLists ==
  ASSUME TypeOK, NEW l, l = initialize_lists(1, num_lists)
  PROVE  /\ l \in [Blocks -> Blocks \cup {Null, Data}]
         /\ \A i \in 1 .. num_lists : \E s :
              /\ IsList(s, 1 + (i - 1) * list_length, list_length, l)
              /\ l[s[list_length]] = Null
              /\ BlocksOf(s) = 1 + (i - 1) * list_length .. i * list_length
<1>1. PICK n \in Nat : n = list_length /\ n >= 2
  BY SizeFacts
<1>2. PICK m \in Nat : m = num_lists /\ m >= 1
  BY SizeFacts
<1>3. PICK t \in Nat : t = m * n /\ t >= n
  BY <1>1, <1>2, SizeFacts
<1>4. PICK top \in Nat : Blocks = 1 .. top /\ t < top
  <2>1. MaxMoves * list_length \in Nat
    BY SizeFacts, Products
  <2>2. PICK x \in Nat : x = MaxMoves * list_length
    BY <2>1
  <2>3. Blocks = 1 .. t + x + n /\ t < t + x + n /\ t + x + n \in Nat
    BY <1>1, <1>2, <1>3, <2>2, SizeFacts
  <2> QED BY <2>3
<1>5. /\ \A k \in Nat : k * n \in Nat /\ (k + 1) * n = k * n + n
      /\ \A i, j \in Nat : i <= j => i * n <= j * n
  BY <1>1, Products
<1>6. \A b \in Blocks : l[b] = IF b \in 1 .. t
                               THEN IF \E k \in 1 .. m : b = k * n THEN Null ELSE b + 1
                               ELSE next[b]
  <2>1. 1 + t - 1 = t
    BY <1>3
  <2>2. \A k \in 1 .. m : 1 + k * n - 1 = k * n
    BY <1>5
  <2>3. \A b \in Blocks : l[b] = IF b \in 1 .. 1 + t - 1
                                 THEN IF \E k \in 1 .. m : b = 1 + k * n - 1 THEN Null ELSE b + 1
                                 ELSE next[b]
    BY <1>1, <1>2, <1>3 DEF initialize_lists, Linked
  <2> QED BY <2>1, <2>2, <2>3
<1>7. l \in [Blocks -> Blocks \cup {Null, Data}]
  <2>1. l = [b \in Blocks |-> l[b]]
    BY DEF initialize_lists, Linked
  <2>2. next \in [Blocks -> Blocks \cup {Null, Data}]
    BY DEF TypeOK
  <2>3. \A b \in 1 .. t : b + 1 \in Blocks
    BY <1>4
  <2>4. \A b \in Blocks : l[b] \in Blocks \cup {Null, Data}
    BY <1>6, <2>2, <2>3
  <2> QED BY <2>1, <2>4
<1>8. ASSUME NEW i \in 1 .. m
      PROVE  \E s : /\ IsList(s, 1 + (i - 1) * n, n, l) /\ l[s[n]] = Null
                    /\ BlocksOf(s) = 1 + (i - 1) * n .. i * n
  <2>1. PICK p \in Nat : p = i - 1 /\ i = p + 1
    <3>1. i - 1 \in Nat /\ i = (i - 1) + 1
      BY <1>2
    <3> QED BY <3>1
  <2>2. PICK c \in Nat : c = p * n /\ i * n = c + n
    BY <1>5, <2>1
  <2>3. c + n <= t
    <3>1. i \in Nat /\ m \in Nat /\ i <= m
      BY <1>2
    <3>2. i * n <= m * n
      BY <1>5, <3>1
    <3> QED BY <1>3, <2>2, <3>2
  <2>4. PICK s : s = [j \in 1 .. n |-> c + j]
    OBVIOUS
  <2>5. /\ s \in [1 .. n -> Blocks] /\ DOMAIN s = 1 .. n
        /\ \A j \in 1 .. n : s[j] = c + j
        /\ \A j \in 1 .. n : c + j \in 1 .. t /\ c + j \in Blocks
    <3>1. \A j \in 1 .. n : c + j \in 1 .. t /\ c + j \in Blocks
      BY <1>4, <2>3
    <3> QED BY <2>4, <3>1
  <2>6. \A x, y \in 1 .. n : s[x] = s[y] => x = y
    BY <2>5
  <2>7. ASSUME NEW j \in 1 .. n - 1, NEW k \in 1 .. m PROVE c + j # k * n
    <3>1. k \in Nat /\ i \in Nat /\ k * n \in Nat
      BY <1>2, <1>5
    <3>2. CASE k <= p
      <4>1. k * n <= p * n
        BY <1>5, <3>1, <3>2
      <4>2. k * n <= c
        BY <2>2, <4>1
      <4> QED BY <3>1, <4>2
    <3>3. CASE i <= k
      <4>1. i * n <= k * n
        BY <1>5, <3>1, <3>3
      <4>2. c + n <= k * n
        BY <2>2, <4>1
      <4> QED BY <1>1, <3>1, <4>2
    <3> QED BY <2>1, <3>1, <3>2, <3>3
  <2>8. ASSUME NEW j \in 1 .. n - 1 PROVE l[s[j]] = s[j + 1]
    <3>1. j \in 1 .. n /\ j + 1 \in 1 .. n /\ (c + j) + 1 = c + (j + 1)
      BY <1>1
    <3>2. c + j \in 1 .. t /\ c + j \in Blocks
      BY <2>5, <3>1
    <3>3. l[c + j] = (c + j) + 1
      BY <1>6, <2>7, <3>2
    <3> QED BY <2>5, <3>1, <3>3
  <2>9. s[1] = 1 + (i - 1) * n /\ s[n] = i * n
    <3>1. 1 \in 1 .. n /\ n \in 1 .. n
      BY <1>1
    <3>2. s[1] = c + 1 /\ s[n] = c + n
      BY <2>5, <3>1
    <3>3. c + 1 = 1 + c
      OBVIOUS
    <3> QED BY <2>1, <2>2, <3>2, <3>3
  <2>10. l[s[n]] = Null
    <3>1. c + n \in 1 .. t /\ c + n \in Blocks
      BY <1>1, <2>5
    <3>2. i * n \in 1 .. t /\ i * n \in Blocks
      BY <2>2, <3>1
    <3> QED BY <1>6, <2>9, <3>2
  <2>11. IsList(s, 1 + (i - 1) * n, n, l)
    BY <2>5, <2>6, <2>8, <2>9 DEF IsList
  <2>12. BlocksOf(s) = 1 + (i - 1) * n .. i * n
    <3>1. 1 + (i - 1) * n = c + 1
      BY <2>1, <2>2
    <3>2. \A j \in 1 .. n : s[j] \in c + 1 .. c + n
      BY <2>5
    <3>3. ASSUME NEW b \in c + 1 .. c + n PROVE \E j \in 1 .. n : s[j] = b
      <4>1. b - c \in 1 .. n /\ c + (b - c) = b
        OBVIOUS
      <4> QED BY <2>5, <4>1
    <3>4. BlocksOf(s) = {s[j] : j \in 1 .. n}
      BY <2>5 DEF BlocksOf
    <3>5. BlocksOf(s) = c + 1 .. c + n
      BY <3>2, <3>3, <3>4
    <3> QED BY <2>2, <3>1, <3>5
  <2> QED BY <2>10, <2>11, <2>12
<1> QED BY <1>1, <1>2, <1>7, <1>8

(* The lists have each block of the first memory, and each once.           *)
LEMMA Intervals ==
  /\ \A i, j \in 1 .. num_lists : \A b \in 1 + (i - 1) * list_length .. i * list_length :
       b \in 1 + (j - 1) * list_length .. j * list_length => i = j
  /\ \A b \in Nat : b \in 1 .. num_lists * list_length <=>
       \E i \in 1 .. num_lists : b \in 1 + (i - 1) * list_length .. i * list_length
<1>1. PICK n \in Nat : n = list_length /\ n >= 2
  BY SizeFacts
<1>2. PICK m \in Nat : m = num_lists /\ m >= 1
  BY SizeFacts
<1>3. /\ \A k \in Nat : k * n \in Nat /\ (k + 1) * n = k * n + n
      /\ \A i, j \in Nat : i <= j => i * n <= j * n
  BY <1>1, Products
<1>4. ASSUME NEW i \in 1 .. m, NEW j \in 1 .. m, i < j,
             NEW b \in 1 + (i - 1) * n .. i * n, b \in 1 + (j - 1) * n .. j * n
      PROVE  FALSE
  <2>1. i \in Nat /\ j - 1 \in Nat /\ i <= j - 1 /\ i * n \in Nat /\ (j - 1) * n \in Nat
    BY <1>2, <1>3, <1>4
  <2>2. i * n <= (j - 1) * n
    BY <1>3, <2>1
  <2>3. i - 1 \in Nat /\ j \in Nat
    BY <1>2, <1>4
  <2>4. (i - 1) * n \in Nat /\ j * n \in Nat
    BY <1>3, <2>3
  <2>5. b <= i * n /\ b >= 1 + (j - 1) * n /\ b \in Int
    BY <1>4, <2>1, <2>4
  <2> QED BY <2>1, <2>2, <2>5
<1>5. ASSUME NEW i \in 1 .. m, NEW j \in 1 .. m,
             NEW b \in 1 + (i - 1) * n .. i * n, b \in 1 + (j - 1) * n .. j * n
      PROVE  i = j
  <2>1. i < j \/ j < i \/ i = j
    BY <1>2
  <2> QED BY <1>4, <1>5, <2>1
<1>6. ASSUME NEW b \in 1 .. m * n PROVE \E i \in 1 .. m : b \in 1 + (i - 1) * n .. i * n
  <2> DEFINE T == {i \in Nat : b <= i * n}
  <2>1. m * n \in Nat /\ b \in Nat /\ b <= m * n /\ b >= 1
    BY <1>3
  <2>2. T \subseteq Nat /\ T # {}
    BY <2>1
  <2>3. PICK i \in T : \A j \in T : i <= j
    BY <2>2, LeastNumber
  <2>4. i \in Nat /\ b <= i * n /\ i * n \in Nat
    BY <1>3, <2>3
  <2>5. i # 0
    BY <2>1, <2>4
  <2>6. i - 1 \in Nat /\ (i - 1) * n \in Nat /\ ~(b <= (i - 1) * n)
    <3>1. i - 1 \in Nat /\ ~(i <= i - 1)
      BY <2>4, <2>5
    <3>2. i - 1 \notin T
      BY <2>3, <3>1
    <3> QED BY <1>3, <3>1, <3>2
  <2>7. i <= m
    BY <2>1, <2>3
  <2>8. i \in 1 .. m /\ b \in 1 + (i - 1) * n .. i * n
    BY <2>1, <2>4, <2>5, <2>6, <2>7
  <2> QED BY <2>8
<1>7. ASSUME NEW i \in 1 .. m, NEW b \in 1 + (i - 1) * n .. i * n PROVE b \in 1 .. m * n
  <2>1. i \in Nat /\ m \in Nat /\ i <= m /\ i - 1 \in Nat
    BY <1>2
  <2>2. i * n <= m * n /\ i * n \in Nat /\ m * n \in Nat /\ (i - 1) * n \in Nat
    BY <1>3, <2>1
  <2> QED BY <2>2
<1> QED BY <1>1, <1>2, <1>5, <1>6, <1>7

(* Without its memory the allocator has no blocks.                         *)
LEMMA Uninitialized ==
  ASSUME IInv, ~initialized
  PROVE  /\ Quiet /\ memory = {} /\ blocks_allocated = 0 /\ used = {} /\ Growing = {}
         /\ Fresh = 1
<1>1. /\ TypeOK /\ MemoryOK /\ Quiet /\ memory = {}
  BY DEF IInv, MemoryOK
<1>2. blocks_allocated = 0
  <2>1. Extent({}) = {}
    BY DEF Extent
  <2>2. 1 .. blocks_allocated = {} /\ blocks_allocated \in Nat
    BY <1>1, <2>1, MemoryFacts DEF MemoryOK
  <2>3. blocks_allocated >= 1 => 1 \in 1 .. blocks_allocated
    BY <2>2
  <2> QED BY <2>2, <2>3
<1>3. used = {}
  <2>1. \A b \in Blocks : b \in used => b \in 1 .. blocks_allocated
    BY InvFacts
  <2>2. used \subseteq Blocks /\ 1 .. 0 = {}
    BY <1>1 DEF TypeOK
  <2> QED BY <1>2, <2>1, <2>2
<1>4. Growing = {}
  BY <1>1 DEF Growing, Quiet
<1>5. Fresh = 1
  BY <1>1, <1>2, MemoryFacts
<1> QED BY <1>1, <1>2, <1>3, <1>4, <1>5

(* A worker without blocks                                                 *)
LEMMA Bare ==
  ASSUME \A v \in Workers : pc'[v] = "idle",
         sz' = [v \in Workers |-> 0], head' = [v \in Workers |-> Null]
  PROVE  \A v \in Workers : WorkerOK(v)' /\ Holding(v)' = {} /\ Own(v)' = {}
<1> SUFFICES ASSUME NEW v \in Workers PROVE WorkerOK(v)' /\ Holding(v)' = {} /\ Own(v)' = {}
  OBVIOUS
<1>1. pc'[v] = "idle" /\ sz'[v] = 0 /\ head'[v] = Null
  OBVIOUS
<1>2. Kept(v)' = 0 /\ InHand(v)' = {}
  BY <1>1 DEF Kept, InHand
<1>3. 1 .. 0 = {} /\ 1 .. 0 - 1 = {} /\ ~(0 > list_length + 1)
  BY SizeFacts
<1>4. PICK e : e = [i \in 1 .. 0 |-> Null]
  OBVIOUS
<1>5. DOMAIN e = {} /\ e \in [1 .. 0 -> Blocks]
  BY <1>3, <1>4
<1>6. IsList(e, Null, 0, next')
  BY <1>3, <1>5 DEF IsList
<1>7. Local(v)' = e
  BY <1>1, <1>2, <1>6, FirstOfIs DEF Local
<1>8. Own(v)' = {} /\ Holding(v)' = {}
  BY <1>2, <1>5, <1>7 DEF Own, BlocksOf, Holding
<1>9. WorkerOK(v)'
  <2>1. IsList(Local(v)', head'[v], Kept(v)', next')
    BY <1>1, <1>2, <1>6, <1>7
  <2> QED BY <1>1, <1>3, <2>1 DEF WorkerOK
<1> QED BY <1>8, <1>9

(* The first memory is in lists of the global stack.                       *)
LEMMA InitStep ==
  ASSUME IInv, init
  PROVE  IInv'
<1>1. /\ TypeOK /\ Quiet /\ memory = {} /\ used = {} /\ Growing = {} /\ Fresh = 1
  <2>1. ~initialized
    BY DEF init
  <2> QED BY <2>1, Uninitialized, InvFacts
<1>2. PICK n \in Nat : n = list_length /\ n >= 2
  BY SizeFacts
<1>3. PICK m \in Nat : m = num_lists /\ m >= 1
  BY SizeFacts
<1>4. PICK t \in Nat : t = num_lists * list_length /\ t = m * n /\ t >= n
  BY <1>2, <1>3, SizeFacts
<1>5. PICK r, l : /\ r = Region(t) /\ r = [start |-> 1, blocks |-> t]
                  /\ l = initialize_lists(1, num_lists)
  BY <1>1 DEF Region
<1>6. /\ ~exited /\ moves < MaxMoves /\ initialized' = TRUE
      /\ blocks_allocated' = t /\ memory' = {r} /\ pool_roots' = {1}
      /\ next' = l
      /\ global_stack' = [i \in 1 .. m |-> 1 + (i - 1) * list_length]
      /\ sz' = [w \in Workers |-> 0]
      /\ head' = [w \in Workers |-> Null]
      /\ mid' = [w \in Workers |-> Null]
      /\ moves' = moves + 1 /\ pc' = pc /\ arg' = arg /\ used' = used /\ exited' = exited
  BY <1>1, <1>3, <1>4, <1>5 DEF init
<1>7. PICK top \in Nat : /\ top = Cardinality(Blocks) /\ Blocks = 1 .. top /\ t < top
  <2>1. MaxMoves * list_length \in Nat
    BY SizeFacts, Products
  <2>2. PICK x \in Nat : x = MaxMoves * list_length
    BY <2>1
  <2>3. Cardinality(Blocks) = t + x + n /\ Blocks = 1 .. t + x + n
    BY <1>2, <1>4, <2>2, SizeFacts
  <2>4. t + x + n \in Nat /\ t < t + x + n
    BY <1>2
  <2> QED BY <2>3, <2>4
<1>8. /\ l \in [Blocks -> Blocks \cup {Null, Data}]
      /\ \A i \in 1 .. m : \E s :
           /\ IsList(s, 1 + (i - 1) * list_length, list_length, l)
           /\ l[s[list_length]] = Null
           /\ BlocksOf(s) = 1 + (i - 1) * list_length .. i * list_length
  BY <1>1, <1>3, <1>5, NewLists
<1>9. /\ DOMAIN global_stack' = 1 .. m
      /\ \A i \in 1 .. m : global_stack'[i] = 1 + (i - 1) * list_length
      /\ global_stack' \in Seq(Blocks)
  <2>1. \A i \in 1 .. m : 1 + (i - 1) * list_length \in Blocks
    <3> SUFFICES ASSUME NEW i \in 1 .. m PROVE 1 + (i - 1) * list_length \in Blocks
      OBVIOUS
    <3>1. PICK s : IsList(s, 1 + (i - 1) * list_length, list_length, l)
      BY <1>8
    <3>2. PICK f : f = 1 + (i - 1) * list_length
      OBVIOUS
    <3>3. f \in Blocks
      BY <1>2, <3>1, <3>2, ListFacts
    <3> QED BY <3>2, <3>3
  <2> QED BY <1>3, <1>6, <2>1
<1>10. \A i \in 1 .. m : /\ ListOK(i)'
                         /\ Listed(i)' = 1 + (i - 1) * list_length .. i * list_length
  <2> SUFFICES ASSUME NEW i \in 1 .. m
               PROVE  ListOK(i)' /\ Listed(i)' = 1 + (i - 1) * list_length .. i * list_length
    OBVIOUS
  <2>1. PICK s : /\ IsList(s, 1 + (i - 1) * list_length, list_length, l)
                 /\ l[s[list_length]] = Null
                 /\ BlocksOf(s) = 1 + (i - 1) * list_length .. i * list_length
    BY <1>8
  <2>2. PICK f : f = global_stack'[i] /\ f = 1 + (i - 1) * list_length
    BY <1>9
  <2>3. IsList(s, f, n, l)
    BY <1>2, <2>1, <2>2
  <2>4. FirstOf(f, n, l) = s
    BY <2>3, FirstOfIs
  <2>5. InGlobal(i)' = s
    BY <1>2, <1>6, <2>2, <2>4 DEF InGlobal
  <2>6. IsList(InGlobal(i)', global_stack'[i], list_length, next') /\ next'[InGlobal(i)'[list_length]] = Null
    BY <1>2, <1>6, <2>1, <2>2, <2>3, <2>5
  <2> QED BY <2>1, <2>5, <2>6 DEF ListOK, Listed
<1>11. \A v \in Workers : pc'[v] = "idle"
  BY <1>1, <1>6 DEF Quiet
<1>12. \A v \in Workers : WorkerOK(v)' /\ Holding(v)' = {} /\ Own(v)' = {}
  BY <1>6, <1>11, Bare
<1>13. TypeOK'
  <2>0. t >= 1 /\ t \in Nat /\ top \in Nat /\ t < top /\ Blocks = 1 .. top
    BY <1>2, <1>4, <1>7
  <2>1. 1 \in Blocks /\ t \in Blocks /\ t \in 0 .. top
    BY <2>0
  <2>2. memory' \subseteq [start : Blocks, blocks : Blocks]
    BY <1>5, <1>6, <2>1
  <2>3. moves \in Nat /\ MaxMoves \in Nat /\ 0 \in 0 .. 2 * list_length
    BY <1>1, SizeFacts DEF TypeOK
  <2>4. moves' \in 0 .. MaxMoves
    BY <1>6, <2>3
  <2>5. sz' \in [Workers -> 0 .. 2 * list_length]
    BY <1>6, <2>3
  <2> QED BY <1>1, <1>6, <1>7, <1>8, <1>9, <2>1, <2>2, <2>4, <2>5 DEF TypeOK
<1>14. PlacesOK'
  <2>1. \A i, j \in DOMAIN global_stack' : \A b \in Listed(i)' : b \in Listed(j)' => i = j
    <3> SUFFICES ASSUME NEW i \in DOMAIN global_stack', NEW j \in DOMAIN global_stack',
                        NEW b \in Listed(i)', b \in Listed(j)'
                 PROVE  i = j
      OBVIOUS
    <3>1. i \in 1 .. num_lists /\ j \in 1 .. num_lists
      BY <1>3, <1>9
    <3>2. /\ b \in 1 + (i - 1) * list_length .. i * list_length
          /\ b \in 1 + (j - 1) * list_length .. j * list_length
      BY <1>9, <1>10
    <3> QED BY <3>1, <3>2, Intervals
  <2>2. \A b \in Blocks : b \in 1 .. blocks_allocated' <=> \E i \in DOMAIN global_stack' : b \in Listed(i)'
    <3>1. \A b \in Blocks : b \in Nat
      BY <1>7
    <3>2. \A b \in Nat : b \in 1 .. t <=> \E i \in 1 .. m : b \in 1 + (i - 1) * list_length .. i * list_length
      BY <1>3, <1>4, Intervals
    <3> QED BY <1>6, <1>9, <1>10, <3>1, <3>2, ZenonT(60)
  <2> QED BY <1>1, <1>6, <1>12, <2>1, <2>2 DEF PlacesOK
<1>15. MemoryOK'
  <2>1. Extent(memory)' = 1 .. blocks_allocated'
    <3>1. Extent({r}) = r.start .. r.start + r.blocks - 1
      BY DEF Extent
    <3>2. r.start = 1 /\ r.blocks = t /\ 1 + t - 1 = t
      BY <1>5
    <3>3. Extent(memory)' = Extent({r})
      BY <1>6 DEF Extent
    <3> QED BY <1>6, <3>1, <3>2, <3>3
  <2>2. \A q \in memory' : q.start \in pool_roots'
    BY <1>5, <1>6
  <2>3. Growing' = {} /\ Cardinality(Growing') = 0
    BY <1>11, FS_EmptySet DEF Growing
  <2>4. moves' \in Nat
    BY <1>1, <1>6 DEF TypeOK
  <2>5. PICK x \in Nat : x = moves' * list_length
    BY <2>4, Products
  <2>6. 0 * list_length = 0
    BY SizeFacts
  <2>7. blocks_allocated' + Cardinality(Growing') * list_length
          <= num_lists * list_length + moves' * list_length
    <3>1. t + 0 <= t + x
      OBVIOUS
    <3> QED BY <1>4, <1>6, <2>3, <2>5, <2>6, <3>1
  <2> QED BY <1>6, <2>1, <2>2, <2>7 DEF MemoryOK
<1>16. \A i \in DOMAIN global_stack' : ListOK(i)'
  BY <1>9, <1>10
<1> QED BY <1>12, <1>13, <1>14, <1>15, <1>16 DEF IInv

(* All memory is given back.                                               *)
LEMMA FinishStep ==
  ASSUME IInv, finish
  PROVE  IInv'
<1>1. TypeOK /\ MemoryOK
  BY DEF IInv
<1>2. /\ ~exited /\ Quiet /\ used = {} /\ initialized' = FALSE /\ blocks_allocated' = 0
      /\ memory' = {r \in memory : r.start \notin pool_roots}
      /\ pool_roots' = {} /\ global_stack' = <<>>
      /\ next' = [b \in Blocks |-> Data]
      /\ sz' = [w \in Workers |-> 0]
      /\ head' = [w \in Workers |-> Null]
      /\ mid' = [w \in Workers |-> Null]
      /\ moves' = moves /\ pc' = pc /\ arg' = arg /\ used' = used /\ exited' = exited
  BY DEF finish
<1>3. \A v \in Workers : pc'[v] = "idle"
  BY <1>2 DEF Quiet
<1>4. memory' = {}
  BY <1>1, <1>2, <1>3 DEF MemoryOK
<1>5. \A v \in Workers : WorkerOK(v)' /\ Holding(v)' = {} /\ Own(v)' = {}
  BY <1>2, <1>3, Bare
<1>6. DOMAIN global_stack' = {} /\ global_stack' \in Seq(Blocks)
  BY <1>2
<1>7. TypeOK'
  <2>1. 0 \in 0 .. 2 * list_length /\ 0 \in 0 .. Cardinality(Blocks)
    <3>1. Cardinality(Blocks) \in Nat
      BY SizeFacts, Products
    <3> QED BY <3>1, SizeFacts
  <2>2. sz' \in [Workers -> 0 .. 2 * list_length]
    BY <1>2, <2>1
  <2> QED BY <1>1, <1>2, <1>4, <1>6, <2>1, <2>2 DEF TypeOK
<1>8. PlacesOK'
  <2>1. 1 .. 0 = {}
    OBVIOUS
  <2> QED BY <1>2, <1>5, <1>6, <2>1 DEF PlacesOK
<1>9. MemoryOK'
  <2>1. Extent(memory)' = 1 .. blocks_allocated'
    <3>1. Extent({}) = {} /\ 1 .. 0 = {}
      BY DEF Extent
    <3>2. Extent(memory)' = Extent({})
      BY <1>4 DEF Extent
    <3> QED BY <1>2, <3>1, <3>2
  <2>2. Growing' = {} /\ Cardinality(Growing') = 0 /\ Quiet'
    BY <1>3, FS_EmptySet DEF Growing, Quiet
  <2>3. moves' \in Nat
    BY <1>1, <1>2 DEF TypeOK
  <2>4. PICK x, y \in Nat : x = moves' * list_length /\ y = num_lists * list_length
    BY <2>3, SizeFacts, Products
  <2>5. 0 * list_length = 0 /\ 0 + 0 <= y + x
    BY <2>4, SizeFacts
  <2>6. blocks_allocated' + Cardinality(Growing') * list_length
          <= num_lists * list_length + moves' * list_length
    BY <1>2, <2>2, <2>4, <2>5
  <2> QED BY <1>4, <2>1, <2>2, <2>6 DEF MemoryOK
<1>10. \A i \in DOMAIN global_stack' : ListOK(i)'
  BY <1>6
<1> QED BY <1>5, <1>7, <1>8, <1>9, <1>10 DEF IInv

(* Nothing happens.                                                        *)
LEMMA StutterStep ==
  ASSUME IInv, UNCHANGED vars
  PROVE  IInv'
<1>1. UNCHANGED <<initialized, blocks_allocated, pool_roots, memory, global_stack, next,
                  sz, head, mid, pc, arg, used, moves, exited>>
  BY DEF vars, pools, lists
<1>2. TypeOK'
  BY <1>1 DEF IInv, TypeOK
<1>3. \A v \in Workers : Local(v)' = Local(v) /\ Kept(v)' = Kept(v) /\ InHand(v)' = InHand(v)
  BY <1>1 DEF Local, Kept, InHand
<1>4. \A i \in DOMAIN global_stack : InGlobal(i)' = InGlobal(i)
  BY <1>1 DEF InGlobal
<1>5. \A v \in Workers : WorkerOK(v)'
  BY <1>1, <1>3 DEF IInv, WorkerOK
<1>6. \A i \in DOMAIN global_stack' : ListOK(i)'
  BY <1>1, <1>4 DEF IInv, ListOK
<1>7. PlacesOK'
  <2>1. \A v \in Workers : Own(v)' = Own(v) /\ Holding(v)' = Holding(v)
    BY <1>3 DEF Own, Holding, BlocksOf
  <2>2. \A i \in DOMAIN global_stack : Listed(i)' = Listed(i)
    BY <1>4 DEF Listed, BlocksOf
  <2> QED BY <1>1, <1>3, <2>1, <2>2 DEF IInv, PlacesOK
<1>8. MemoryOK'
  <2>1. Growing' = Growing /\ Extent(memory)' = Extent(memory) /\ (Quiet <=> Quiet')
    BY <1>1 DEF Growing, Extent, Quiet
  <2> QED BY <1>1, <2>1 DEF IInv, MemoryOK
<1> QED BY <1>2, <1>5, <1>6, <1>7, <1>8 DEF IInv

----
(* Without memory, blocks and lists the invariant holds.                   *)
LEMMA Begins ==
  ASSUME Init
  PROVE  IInv
<1>1. /\ initialized = FALSE /\ blocks_allocated = 0 /\ pool_roots = {} /\ memory = {}
      /\ global_stack = <<>> /\ next = [b \in Blocks |-> Data]
      /\ sz = [w \in Workers |-> 0]
      /\ head = [w \in Workers |-> Null]
      /\ mid = [w \in Workers |-> Null]
      /\ pc = [w \in Workers |-> "idle"]
      /\ arg = [w \in Workers |-> Null]
      /\ used = {} /\ moves = 0 /\ exited = FALSE
  BY DEF Init
<1>2. DOMAIN global_stack = {} /\ global_stack \in Seq(Blocks)
  BY <1>1
<1>3. TypeOK
  <2>1. 0 \in 0 .. 2 * list_length /\ 0 \in 0 .. Cardinality(Blocks) /\ 0 \in 0 .. MaxMoves
    <3>1. Cardinality(Blocks) \in Nat
      BY SizeFacts, Products
    <3> QED BY <3>1, SizeFacts
  <2>2. sz \in [Workers -> 0 .. 2 * list_length]
    BY <1>1, <2>1
  <2> QED BY <1>1, <1>2, <2>1, <2>2 DEF TypeOK
<1>4. ASSUME NEW v \in Workers PROVE WorkerOK(v) /\ Holding(v) = {} /\ Own(v) = {}
  <2>1. pc[v] = "idle" /\ sz[v] = 0 /\ head[v] = Null
    BY <1>1
  <2>2. Kept(v) = 0 /\ InHand(v) = {}
    BY <2>1 DEF Kept, InHand
  <2>3. 1 .. 0 = {} /\ 1 .. 0 - 1 = {} /\ ~(0 > list_length + 1)
    BY SizeFacts
  <2>4. PICK e : e = [i \in 1 .. 0 |-> Null]
    OBVIOUS
  <2>5. DOMAIN e = {} /\ e \in [1 .. 0 -> Blocks]
    BY <2>3, <2>4
  <2>6. IsList(e, Null, 0, next)
    BY <2>3, <2>5 DEF IsList
  <2>7. Local(v) = e
    BY <2>1, <2>2, <2>6, FirstOfIs DEF Local
  <2>8. Own(v) = {} /\ Holding(v) = {}
    BY <2>2, <2>5, <2>7 DEF Own, BlocksOf, Holding
  <2>9. IsList(Local(v), head[v], Kept(v), next)
    BY <2>1, <2>2, <2>6, <2>7
  <2> QED BY <2>1, <2>3, <2>8, <2>9 DEF WorkerOK
<1>5. PlacesOK
  <2>1. 1 .. 0 = {}
    OBVIOUS
  <2> QED BY <1>1, <1>2, <1>4, <2>1 DEF PlacesOK
<1>6. MemoryOK
  <2>1. Extent(memory) = 1 .. blocks_allocated
    <3>1. 1 .. 0 = {}
      OBVIOUS
    <3> QED BY <1>1, <3>1 DEF Extent
  <2>2. Growing = {} /\ Cardinality(Growing) = 0 /\ Quiet
    BY <1>1, FS_EmptySet DEF Growing, Quiet
  <2>3. PICK y \in Nat : y = num_lists * list_length
    BY SizeFacts
  <2>4. 0 * list_length = 0 /\ 0 + 0 <= y + 0
    BY SizeFacts
  <2>5. blocks_allocated + Cardinality(Growing) * list_length
          <= num_lists * list_length + moves * list_length
    BY <1>1, <2>2, <2>3, <2>4
  <2> QED BY <1>1, <2>1, <2>2, <2>5 DEF MemoryOK
<1>7. \A i \in DOMAIN global_stack : ListOK(i)
  BY <1>2
<1> QED BY <1>3, <1>4, <1>5, <1>6, <1>7 DEF IInv

(* Every list of every worker and of the global stack is as long as its   *)
(* user believes and ends there, whatever the workers do in whatever       *)
(* order.                                                                  *)
THEOREM Invariance == Spec => []IInv
<1>1. Init => IInv
  BY Begins
<1>2. IInv /\ [Next]_vars => IInv'
  <2> SUFFICES ASSUME IInv, [Next]_vars PROVE IInv'
    OBVIOUS
  <2>1. CASE init
    BY <2>1, InitStep
  <2>2. CASE finish
    BY <2>2, FinishStep
  <2>3. ASSUME NEW w \in Workers, Step(w) PROVE IInv'
    <3>1. CASE AllocLocal(w)
      BY <3>1, AllocLocalStep
    <3>2. CASE AllocList(w)
      BY <3>2, AllocListStep
    <3>3. CASE AllocGrow(w)
      BY <3>3, AllocGrowStep
    <3>4. CASE Grow(w)
      BY <3>4, GrowStep
    <3>5. CASE TooMany(w)
      BY <3>5, TooManyStep
    <3>6. CASE Grown(w)
      BY <3>6, GrownStep
    <3>7. ASSUME NEW b \in Freeable, Free(w, b) \/ FreeHalf(w, b) PROVE IInv'
      <4>1. b \in used
        BY DEF Freeable
      <4>2. CASE Free(w, b)
        BY <4>1, <4>2, FreeStep
      <4>3. CASE FreeHalf(w, b)
        BY <4>1, <4>3, FreeHalfStep
      <4> QED BY <3>7, <4>2, <4>3
    <3>8. CASE Halved(w)
      BY <3>8, HalvedStep
    <3> QED BY <2>3, <3>1, <3>2, <3>3, <3>4, <3>5, <3>6, <3>7, <3>8 DEF Step
  <2>4. CASE UNCHANGED vars
    BY <2>4, StutterStep
  <2> QED BY <2>1, <2>2, <2>3, <2>4 DEF Next
<1> QED BY <1>1, <1>2, PTL DEF Spec

(* The type invariant                                                      *)
THEOREM TypeCorrect == Spec => []TypeOK
<1>1. IInv => TypeOK
  BY DEF IInv
<1> QED BY <1>1, Invariance, PTL

(* No worker takes a list of the global stack for longer or shorter than   *)
(* it is, nor its own: the half that follows mid is whole whatever the     *)
(* order in which the worker has allocated and freed.                      *)
THEOREM WholeLists == Spec => []ListsWhole
<1>1. ASSUME NEW f, NEW n \in Nat, n # 0, NEW s, IsList(s, f, n, next), next[s[n]] = Null
      PROVE  LinkOfLast(s)
  <2>1. Len(s) = n
    BY <1>1, ListFacts
  <2>n. n \in 1 .. n
    BY <1>1
  <2>2. s[n] \in Blocks
    BY <1>1, <2>n, ListFacts
  <2> QED BY <1>1, <2>1, <2>2 DEF LinkOfLast
<1>2. IInv => ListsWhole
  <2> SUFFICES ASSUME IInv PROVE ListsWhole
    OBVIOUS
  <2>1. ASSUME NEW i \in DOMAIN global_stack PROVE LinkOfLast(InGlobal(i))
    <3>1. ListOK(i) /\ list_length \in Nat /\ list_length # 0
      BY InvFacts, SizeFacts
    <3>2. /\ IsList(InGlobal(i), global_stack[i], list_length, next)
          /\ next[InGlobal(i)[list_length]] = Null
      BY <3>1 DEF ListOK
    <3> QED BY <1>1, <3>1, <3>2
  <2>2. ASSUME NEW w \in Workers, pc[w] # "halved"
        PROVE  IF sz[w] = 0 THEN head[w] = Null ELSE LinkOfLast(Local(w))
    <3>1. WorkerOK(w) /\ sz[w] \in Nat /\ Kept(w) = sz[w]
      BY <2>2, InvFacts, KeptFacts
    <3>2. /\ IsList(Local(w), head[w], sz[w], next) /\ (sz[w] = 0 => head[w] = Null)
          /\ sz[w] # 0 => next[Local(w)[sz[w]]] = Null
      BY <2>2, <3>1 DEF WorkerOK
    <3> QED BY <1>1, <3>1, <3>2
  <2> QED BY <2>1, <2>2 DEF ListsWhole
<1> QED BY <1>2, Invariance, PTL

(* Each block is with the program, in the list of one worker, in the hands *)
(* of one, or in one list of the global stack: no order in which workers   *)
(* allocate, grow and free makes two owners of a block or none.            *)
THEOREM OnePlace == Spec => []BlocksInOnePlace
<1>1. IInv => BlocksInOnePlace
  <2> SUFFICES ASSUME IInv, NEW b \in Blocks
               PROVE  Cardinality({w \in Workers : b \in Own(w)})
                        + Cardinality({w \in Workers : b \in InHand(w)})
                        + Cardinality({i \in DOMAIN global_stack : b \in Listed(i)})
                        + (IF b \in used THEN 1 ELSE 0)
                          = IF b \in Extent(memory) THEN 1 ELSE 0
    <3>1. /\ \A c, w : w \in Workers => (c \in [v \in Workers |-> BlocksOf(Local(v))][w] <=> c \in Own(w))
          /\ \A c, i : i \in DOMAIN global_stack =>
               (c \in [j \in DOMAIN global_stack |-> BlocksOf(InGlobal(j))][i] <=> c \in Listed(i))
      BY DEF Own, Listed
    <3>2. DOMAIN [j \in DOMAIN global_stack |-> BlocksOf(InGlobal(j))] = DOMAIN global_stack
      OBVIOUS
    <3> QED BY <3>1, <3>2 DEF BlocksInOnePlace
  <2> DEFINE O == {w \in Workers : b \in Own(w)}
             H == {w \in Workers : b \in InHand(w)}
             G == {i \in DOMAIN global_stack : b \in Listed(i)}
             u == IF b \in used THEN 1 ELSE 0
             e == IF b \in Extent(memory) THEN 1 ELSE 0
  <2>1. Cardinality({}) = 0 /\ \A x : Cardinality({x}) = 1
    BY FS_EmptySet, FS_Singleton
  <2>2. \A w \in Workers : b \in Holding(w) <=> b \in Own(w) \/ b \in InHand(w)
    BY DEF Holding
  <2>3. Extent(memory) = 1 .. blocks_allocated
    BY InvFacts DEF MemoryOK
  <2>4. CASE \E w \in Workers : b \in Holding(w)
    <3>1. PICK w \in Workers : b \in Holding(w)
      BY <2>4
    <3>2. G = {} /\ u = 0 /\ e = 1
      BY <2>3, <3>1, InvFacts
    <3>3. \/ O = {w} /\ H = {}
          \/ O = {} /\ H = {w}
      BY <2>2, <3>1, InvFacts
    <3> HIDE DEF O, H, G, u, e
    <3>4. CASE O = {w} /\ H = {}
      <4>1. Cardinality(O) = 1 /\ Cardinality(H) = 0 /\ Cardinality(G) = 0
        BY <2>1, <3>2, <3>4
      <4> QED BY <3>2, <4>1 DEF O, H, G, u, e
    <3>5. CASE O = {} /\ H = {w}
      <4>1. Cardinality(O) = 0 /\ Cardinality(H) = 1 /\ Cardinality(G) = 0
        BY <2>1, <3>2, <3>5
      <4> QED BY <3>2, <4>1 DEF O, H, G, u, e
    <3> QED BY <3>3, <3>4, <3>5
  <2>5. CASE \E i \in DOMAIN global_stack : b \in Listed(i)
    <3>1. PICK i \in DOMAIN global_stack : b \in Listed(i)
      BY <2>5
    <3>2. O = {} /\ H = {} /\ u = 0 /\ e = 1
      BY <2>2, <2>3, <3>1, InvFacts
    <3>3. G = {i}
      BY <3>1, InvFacts
    <3> HIDE DEF O, H, G, u, e
    <3>4. Cardinality(O) = 0 /\ Cardinality(H) = 0 /\ Cardinality(G) = 1
      BY <2>1, <3>2, <3>3
    <3> QED BY <3>2, <3>4 DEF O, H, G, u, e
  <2>6. CASE /\ ~\E w \in Workers : b \in Holding(w)
             /\ ~\E i \in DOMAIN global_stack : b \in Listed(i)
    <3>1. O = {} /\ H = {} /\ G = {}
      BY <2>2, <2>6
    <3>2. u = e /\ (u = 0 \/ u = 1)
      BY <2>3, <2>6, InvFacts
    <3> HIDE DEF O, H, G, u, e
    <3>3. Cardinality(O) = 0 /\ Cardinality(H) = 0 /\ Cardinality(G) = 0
      BY <2>1, <3>1
    <3>4. Cardinality(O) + Cardinality(H) + Cardinality(G) + u = e
      BY <3>2, <3>3
    <3> QED BY <3>4 DEF O, H, G, u, e
  <2> QED BY <2>4, <2>5, <2>6
<1> QED BY <1>1, Invariance, PTL

----
(* The books *)

(* There are finitely many blocks.                                         *)
LEMMA BlocksFinite ==
  ASSUME NEW S, S \subseteq Blocks
  PROVE  IsFiniteSet(S) /\ Cardinality(S) \in Nat
<1>1. PICK top \in Nat : Blocks = 1 .. top
  <2>1. Cardinality(Blocks) \in Nat /\ Blocks = 1 .. Cardinality(Blocks)
    BY SizeFacts, Products
  <2> QED BY <2>1
<1>2. IsFiniteSet(Blocks)
  BY <1>1, FS_Interval
<1> QED BY <1>2, FS_Subset, FS_CardinalityType

(* Two sets that share no block                                            *)
LEMMA Together ==
  ASSUME NEW S, NEW T, S \subseteq Blocks, T \subseteq Blocks
  PROVE  /\ Cardinality(S \cup T) <= Cardinality(S) + Cardinality(T)
         /\ (\A b \in S : b \notin T) => Cardinality(S \cup T) = Cardinality(S) + Cardinality(T)
<1>1. IsFiniteSet(S) /\ IsFiniteSet(T) /\ Cardinality(S) \in Nat /\ Cardinality(T) \in Nat
  BY BlocksFinite
<1>2. Cardinality(S \cup T) = Cardinality(S) + Cardinality(T) - Cardinality(S \cap T)
  BY <1>1, FS_Union
<1>3. Cardinality(S \cap T) \in Nat
  <2>1. S \cap T \subseteq Blocks
    OBVIOUS
  <2> QED BY <2>1, BlocksFinite
<1>4. Cardinality(S \cup T) <= Cardinality(S) + Cardinality(T)
  BY <1>1, <1>2, <1>3
<1>5. ASSUME \A b \in S : b \notin T
      PROVE  Cardinality(S \cup T) = Cardinality(S) + Cardinality(T)
  <2>1. S \cap T = {}
    BY <1>5
  <2>2. Cardinality(S \cap T) = 0
    BY <2>1, FS_EmptySet
  <2> QED BY <1>1, <1>2, <2>2
<1> QED BY <1>4, <1>5

(* A list has as many blocks as it has places.                             *)
LEMMA ListCount ==
  ASSUME NEW first, NEW n \in Nat, NEW to, NEW s, IsList(s, first, n, to)
  PROVE  Cardinality(BlocksOf(s)) = n
<1>1. /\ s \in [1 .. n -> Blocks] /\ DOMAIN s = 1 .. n
      /\ \A i, j \in 1 .. n : s[i] = s[j] => i = j
  BY DEF IsList
<1>2. BlocksOf(s) = {s[i] : i \in 1 .. n}
  BY <1>1 DEF BlocksOf
<1>3. s \in [1 .. n -> BlocksOf(s)]
  BY <1>1, <1>2
<1>4. s \in Bijection(1 .. n, BlocksOf(s))
  BY <1>1, <1>2, <1>3 DEF Bijection, Injection, Surjection, IsInjective
<1>5. ExistsBijection(1 .. n, BlocksOf(s))
  BY <1>4 DEF ExistsBijection
<1> QED BY <1>5, FS_CountingElements

(* The blocks in the list of a worker                                      *)
LEMMA OwnCount ==
  ASSUME TypeOK, NEW w \in Workers, WorkerOK(w)
  PROVE  Own(w) \subseteq Blocks /\ Cardinality(Own(w)) = Kept(w)
<1>1. IsList(Local(w), head[w], Kept(w), next) /\ Kept(w) \in Nat
  BY LocalFacts, KeptFacts
<1>2. PICK s, n : s = Local(w) /\ n = Kept(w)
  OBVIOUS
<1>3. Own(w) = BlocksOf(s) /\ IsList(s, head[w], n, next) /\ n \in Nat
  BY <1>1, <1>2 DEF Own
<1>4. Cardinality(BlocksOf(s)) = n
  BY <1>3, ListCount
<1> QED BY <1>2, <1>3, <1>4, LocalFacts

(* The lists of the global stack have list_length blocks each.             *)
LEMMA GlobalCount ==
  ASSUME IInv, NEW G, G = UNION {Listed(i) : i \in DOMAIN global_stack}
  PROVE  G \subseteq Blocks /\ Cardinality(G) = Len(global_stack) * list_length
<1> DEFINE Upto(k) == UNION {Listed(i) : i \in 1 .. k}
<1>1. /\ \A i \in DOMAIN global_stack : Listed(i) \subseteq Blocks
      /\ \A i, j \in DOMAIN global_stack : \A b \in Listed(i) : b \in Listed(j) => i = j
  BY InvFacts
<1>2. \A i \in DOMAIN global_stack : Cardinality(Listed(i)) = list_length
  <2> SUFFICES ASSUME NEW i \in DOMAIN global_stack PROVE Cardinality(Listed(i)) = list_length
    OBVIOUS
  <2>1. IsList(InGlobal(i), global_stack[i], list_length, next)
    BY InvFacts DEF ListOK
  <2>2. PICK s, n : s = InGlobal(i) /\ n = list_length
    OBVIOUS
  <2>3. IsList(s, global_stack[i], n, next) /\ n \in Nat
    BY <2>1, <2>2, SizeFacts
  <2>4. Cardinality(BlocksOf(s)) = n
    BY <2>3, ListCount
  <2> QED BY <2>2, <2>4 DEF Listed
<1>3. PICK m \in Nat : m = Len(global_stack) /\ DOMAIN global_stack = 1 .. m
  <2>1. global_stack \in Seq(Blocks)
    BY InvFacts DEF TypeOK
  <2> QED BY <2>1
<1>4. ASSUME NEW k \in Nat, k <= m PROVE Upto(k) \subseteq Blocks
  <2>1. \A i \in 1 .. k : i \in 1 .. m
    BY <1>4
  <2> QED BY <1>1, <1>3, <2>1
<1>5. ASSUME NEW x \in Nat, x <= m, Cardinality(Upto(x)) # x * list_length PROVE FALSE
  <2> DEFINE T == {k \in Nat : k <= m /\ Cardinality(Upto(k)) # k * list_length}
  <2>1. T \subseteq Nat /\ T # {}
    BY <1>5
  <2>2. PICK k \in T : \A j \in T : k <= j
    BY <2>1, LeastNumber
  <2>3. k \in Nat /\ k <= m /\ Cardinality(Upto(k)) # k * list_length
    BY <2>2
  <2>4. k # 0
    <3>1. ASSUME k = 0 PROVE FALSE
      <4>1. 1 .. 0 = {} /\ 0 * list_length = 0
        BY SizeFacts
      <4>2. Upto(k) = {}
        BY <3>1, <4>1
      <4>3. Cardinality(Upto(k)) = 0
        BY <4>2, FS_EmptySet
      <4> QED BY <2>3, <3>1, <4>1, <4>3
    <3> QED BY <3>1
  <2>5. PICK p \in Nat : k = p + 1
    <3>1. k - 1 \in Nat /\ k = (k - 1) + 1
      BY <2>3, <2>4
    <3> QED BY <3>1
  <2>6. p <= m /\ p \notin T
    BY <2>2, <2>3, <2>5
  <2>7. Cardinality(Upto(p)) = p * list_length
    BY <2>6
  <2>8. Upto(k) = Upto(p) \cup Listed(k)
    <3>1. \A i : i \in 1 .. k <=> i \in 1 .. p \/ i = k
      BY <2>5
    <3> QED BY <3>1
  <2>9. k \in 1 .. m /\ \A i \in 1 .. p : i \in 1 .. m /\ i # k
    BY <2>3, <2>5
  <2>10. \A b \in Upto(p) : b \notin Listed(k)
    BY <1>1, <1>3, <2>9
  <2>11. Upto(p) \subseteq Blocks /\ Listed(k) \subseteq Blocks /\ Cardinality(Listed(k)) = list_length
    BY <1>1, <1>2, <1>3, <1>4, <2>6, <2>9
  <2> HIDE DEF Upto
  <2>12. Cardinality(Upto(k)) = Cardinality(Upto(p)) + list_length
    BY <2>8, <2>10, <2>11, Together
  <2>13. (p + 1) * list_length = p * list_length + list_length
    BY Products
  <2> QED BY <2>3, <2>5, <2>7, <2>12, <2>13
<1>6. G = Upto(m)
  BY <1>3
<1>7. Cardinality(Upto(m)) = m * list_length
  <2> HIDE DEF Upto
  <2> QED BY <1>5
<1> QED BY <1>3, <1>4, <1>6, <1>7

(* The blocks of some of the workers                                       *)
OwnOf(V) == UNION {Own(v) : v \in V}

(* The workers' lists share no block, so that the number of blocks adds up. *)
LEMMA OwnOfFacts ==
  ASSUME IInv, NEW V, V \subseteq Workers
  PROVE  /\ OwnOf(V) \subseteq Blocks
         /\ V = {} => OwnOf(V) = {}
         /\ \A w \in V : Cardinality(OwnOf(V)) = Kept(w) + Cardinality(OwnOf(V \ {w}))
<1>1. /\ \A v \in Workers : Own(v) \subseteq Blocks
      /\ \A u, v \in Workers : \A b \in Own(u) : b \in Own(v) => u = v
  BY InvFacts DEF Holding
<1>2. OwnOf(V) \subseteq Blocks
  BY <1>1 DEF OwnOf
<1>3. V = {} => OwnOf(V) = {}
  BY DEF OwnOf
<1>4. ASSUME NEW w \in V
      PROVE  Cardinality(OwnOf(V)) = Kept(w) + Cardinality(OwnOf(V \ {w}))
  <2>1. OwnOf(V) = Own(w) \cup OwnOf(V \ {w})
    BY DEF OwnOf
  <2>2. Own(w) \subseteq Blocks /\ OwnOf(V \ {w}) \subseteq Blocks
    BY <1>1 DEF OwnOf
  <2>3. \A b \in Own(w) : b \notin OwnOf(V \ {w})
    BY <1>1 DEF OwnOf
  <2>4. Cardinality(Own(w)) = Kept(w)
    BY InvFacts, OwnCount
  <2> QED BY <2>1, <2>2, <2>3, <2>4, Together
<1> QED BY <1>2, <1>3, <1>4

(* num_used_blocks adds the sizes of the workers' lists, one after the     *)
(* other: that is the number of their blocks while no half is on its way.  *)
LEMMA SumOfSizes ==
  ASSUME IInv, Quiet
  PROVE  num_used_blocks =
           blocks_allocated - Len(global_stack) * list_length - Cardinality(OwnOf(Workers))
<1> DEFINE Sums(g) == g = [W \in SUBSET Workers |->
             IF W = {} THEN 0 ELSE LET w == CHOOSE v \in W : TRUE IN sz[w] + g[W \ {w}]]
           total == CHOOSE g : Sums(g)
           g0 == [W \in SUBSET Workers |-> Cardinality(OwnOf(W))]
<1>1. \A w \in Workers : Kept(w) = sz[w] /\ sz[w] \in Nat
  BY InvFacts, KeptFacts DEF Quiet
<1>2. \A W \in SUBSET Workers : Cardinality(OwnOf(W)) \in Nat
  BY OwnOfFacts, BlocksFinite
<1>3. ASSUME NEW W \in SUBSET Workers
      PROVE  Cardinality(OwnOf(W)) = IF W = {} THEN 0
                ELSE LET w == CHOOSE v \in W : TRUE IN sz[w] + Cardinality(OwnOf(W \ {w}))
  <2>1. CASE W = {}
    <3>1. OwnOf(W) = {}
      BY <2>1, OwnOfFacts
    <3> QED BY <2>1, <3>1, FS_EmptySet
  <2>2. CASE W # {}
    <3>1. PICK w \in W : w = CHOOSE v \in W : TRUE
      BY <2>2
    <3>2. Cardinality(OwnOf(W)) = Kept(w) + Cardinality(OwnOf(W \ {w}))
      BY OwnOfFacts
    <3> QED BY <1>1, <2>2, <3>1, <3>2
  <2> QED BY <2>1, <2>2
<1>4. Sums(g0)
  <2>1. ASSUME NEW W \in SUBSET Workers
        PROVE  Cardinality(OwnOf(W)) = IF W = {} THEN 0
                 ELSE LET w == CHOOSE v \in W : TRUE IN sz[w] + g0[W \ {w}]
    <3>1. CASE W = {}
      BY <1>3, <3>1
    <3>2. CASE W # {}
      <4>1. PICK w \in W : w = CHOOSE v \in W : TRUE
        BY <3>2
      <4>2. W \ {w} \in SUBSET Workers
        OBVIOUS
      <4>3. g0[W \ {w}] = Cardinality(OwnOf(W \ {w}))
        BY <4>2
      <4> QED BY <1>3, <3>2, <4>1, <4>3
    <3> QED BY <3>1, <3>2
  <2> QED BY <2>1
<1>5. Sums(total)
  BY <1>4
<1> HIDE DEF total
<1>6. ASSUME NEW V \in SUBSET Workers, total[V] # Cardinality(OwnOf(V)) PROVE FALSE
  <2> DEFINE Wrong(W) == total[W] # Cardinality(OwnOf(W))
             T == {Cardinality(W) : W \in {X \in SUBSET Workers : Wrong(X)}}
  <2>1. \A W \in SUBSET Workers : IsFiniteSet(W) /\ Cardinality(W) \in Nat
    BY SomeWorkers, FS_Subset, FS_CardinalityType
  <2>2. T \subseteq Nat /\ T # {}
    BY <1>6, <2>1
  <2>3. PICK k \in T : \A j \in T : k <= j
    BY <2>2, LeastNumber
  <2>4. PICK W \in SUBSET Workers : Wrong(W) /\ k = Cardinality(W)
    BY <2>3
  <2>5. total[W] = IF W = {} THEN 0
                   ELSE LET w == CHOOSE v \in W : TRUE IN sz[w] + total[W \ {w}]
    BY <1>5
  <2>6. W # {}
    <3>1. ASSUME W = {} PROVE FALSE
      <4>1. total[W] = 0 /\ Cardinality(OwnOf(W)) = 0
        BY <1>3, <2>5, <3>1
      <4> QED BY <2>4, <4>1
    <3> QED BY <3>1
  <2>7. PICK w \in W : w = CHOOSE v \in W : TRUE
    BY <2>6
  <2>8. Cardinality(W \ {w}) = k - 1 /\ k \in Nat /\ Cardinality(W \ {w}) \in Nat /\ W \ {w} \in SUBSET Workers
    BY <2>1, <2>4, FS_RemoveElement
  <2>9. Cardinality(W \ {w}) \notin T
    BY <2>3, <2>8
  <2>10. ~Wrong(W \ {w})
    BY <2>8, <2>9
  <2>11. total[W \ {w}] = Cardinality(OwnOf(W \ {w}))
    BY <2>10
  <2>12. total[W] = sz[w] + total[W \ {w}] /\ Cardinality(OwnOf(W)) = sz[w] + Cardinality(OwnOf(W \ {w}))
    BY <1>3, <2>5, <2>6, <2>7
  <2> QED BY <2>4, <2>11, <2>12
<1>7. total[Workers] = Cardinality(OwnOf(Workers))
  BY <1>6
<1>8. num_used_blocks = blocks_allocated - Len(global_stack) * list_length - total[Workers]
  BY DEF num_used_blocks, total
<1> QED BY <1>7, <1>8

(* The blocks of the allocator are with the program, in the lists of the   *)
(* workers, in their hands or in the lists of the global stack.            *)
LEMMA AllBlocks ==
  ASSUME IInv, NEW H, H = UNION {Holding(v) : v \in Workers}
  PROVE  /\ H \subseteq Blocks /\ used \subseteq Blocks
         /\ blocks_allocated = Cardinality(used) + Cardinality(H) + Len(global_stack) * list_length
<1>1. PICK G : G = UNION {Listed(i) : i \in DOMAIN global_stack}
  OBVIOUS
<1>2. G \subseteq Blocks /\ Cardinality(G) = Len(global_stack) * list_length
  BY <1>1, GlobalCount
<1>3. used \subseteq Blocks
  BY InvFacts DEF TypeOK
<1>4. blocks_allocated \in Nat /\ 1 .. blocks_allocated \subseteq Blocks
  <2>1. blocks_allocated \in 0 .. Cardinality(Blocks)
    BY InvFacts DEF TypeOK
  <2>2. Cardinality(Blocks) \in Nat /\ Blocks = 1 .. Cardinality(Blocks)
    BY SizeFacts, Products
  <2>3. PICK top \in Nat : top = Cardinality(Blocks)
    BY <2>2
  <2>4. blocks_allocated \in 0 .. top /\ Blocks = 1 .. top
    BY <2>1, <2>2, <2>3
  <2> QED BY <2>4
<1>5. \A v \in Workers : InHand(v) \subseteq Blocks
  <2> SUFFICES ASSUME NEW v \in Workers PROVE InHand(v) \subseteq Blocks
    OBVIOUS
  <2>1. CASE pc[v] = "halved"
    <3>1. arg[v] \in Blocks /\ InHand(v) = {arg[v]}
      BY <2>1, InvFacts DEF WorkerOK, InHand
    <3> QED BY <3>1
  <2>2. CASE pc[v] = "grown"
    <3>1. arg[v] \in Blocks /\ arg[v] + list_length - 1 \in Blocks
      BY <2>2, InvFacts DEF WorkerOK
    <3>2. InHand(v) = arg[v] .. arg[v] + list_length - 1
      BY <2>2 DEF InHand
    <3>3. PICK top \in Nat : Blocks = 1 .. top
      <4>1. Cardinality(Blocks) \in Nat /\ Blocks = 1 .. Cardinality(Blocks)
        BY SizeFacts, Products
      <4> QED BY <4>1
    <3>4. PICK a, n \in Nat : a = arg[v] /\ n = list_length
      BY <3>1, <3>3, SizeFacts
    <3>5. a .. a + n - 1 \subseteq 1 .. top
      <4>1. a \in 1 .. top /\ a + n - 1 \in 1 .. top
        BY <3>1, <3>3, <3>4
      <4> QED BY <3>4, <4>1
    <3> QED BY <3>2, <3>3, <3>4, <3>5
  <2>3. CASE pc[v] # "halved" /\ pc[v] # "grown"
    BY <2>3 DEF InHand
  <2> QED BY <2>1, <2>2, <2>3
<1>6. H \subseteq Blocks
  <2>1. \A v \in Workers : Holding(v) \subseteq Blocks
    BY <1>5, InvFacts DEF Holding
  <2> QED BY <2>1
<1>7. \A b \in Blocks : b \in 1 .. blocks_allocated <=> b \in used \/ b \in H \/ b \in G
  <2>1. \A b : b \in H <=> \E v \in Workers : b \in Holding(v)
    OBVIOUS
  <2>2. \A b : b \in G <=> \E i \in DOMAIN global_stack : b \in Listed(i)
    BY <1>1
  <2> QED BY <2>1, <2>2, InvFacts
<1>8. 1 .. blocks_allocated = (used \cup H) \cup G
  BY <1>2, <1>3, <1>4, <1>6, <1>7
<1>9. \A b \in used : b \notin H
  BY InvFacts
<1>10. \A b \in used \cup H : b \notin G
  BY <1>1, InvFacts
<1>11. Cardinality(1 .. blocks_allocated) = blocks_allocated
  <2>1. CASE blocks_allocated = 0
    <3>1. 1 .. blocks_allocated = {}
      BY <2>1
    <3> QED BY <2>1, <3>1, FS_EmptySet
  <2>2. CASE blocks_allocated >= 1
    BY <1>4, <2>2, FS_Interval
  <2> QED BY <1>4, <2>1, <2>2
<1>12. Cardinality(used \cup H) = Cardinality(used) + Cardinality(H)
  BY <1>3, <1>6, <1>9, Together
<1>13. used \cup H \subseteq Blocks
  BY <1>3, <1>6
<1>14. Cardinality((used \cup H) \cup G) = Cardinality(used \cup H) + Cardinality(G)
  BY <1>2, <1>10, <1>13, Together
<1> QED BY <1>2, <1>3, <1>6, <1>8, <1>11, <1>12, <1>14

(* The books are right: num_used_blocks counts the blocks of the program   *)
(* whenever no call is in progress, and after finish no memory is left,    *)
(* also none of the lists that were made after init.                       *)
THEOREM BooksRight == Spec => []MemoryAccounted
<1>1. IInv => MemoryAccounted
  <2> SUFFICES ASSUME IInv PROVE MemoryAccounted
    OBVIOUS
  <2>1. ASSUME Quiet PROVE num_used_blocks = Cardinality(used)
    <3>1. \A v \in Workers : Holding(v) = Own(v)
      BY <2>1 DEF Quiet, Holding, InHand
    <3>2. PICK H : H = UNION {Holding(v) : v \in Workers}
      OBVIOUS
    <3>3. H = OwnOf(Workers)
      BY <3>1, <3>2 DEF OwnOf
    <3>4. /\ H \subseteq Blocks /\ used \subseteq Blocks
          /\ blocks_allocated = Cardinality(used) + Cardinality(H) + Len(global_stack) * list_length
      BY <3>2, AllBlocks
    <3>5. Cardinality(used) \in Nat /\ Cardinality(H) \in Nat
      BY <3>4, BlocksFinite
    <3>6. PICK g \in Nat : g = Len(global_stack) * list_length
      <4>1. Len(global_stack) \in Nat
        BY InvFacts DEF TypeOK
      <4> QED BY <4>1, Products
    <3>7. num_used_blocks = blocks_allocated - g - Cardinality(H)
      BY <2>1, <3>3, <3>6, SumOfSizes
    <3> QED BY <3>4, <3>5, <3>6, <3>7
  <2>2. ~initialized => memory = {}
    BY InvFacts DEF MemoryOK
  <2> QED BY <2>1, <2>2 DEF MemoryAccounted
<1> QED BY <1>1, Invariance, PTL

----
(* Growth *)

(* No worker has more than two lists' blocks.                              *)
LEMMA HoldingCount ==
  ASSUME IInv, NEW v \in Workers
  PROVE  Holding(v) \subseteq Blocks /\ Cardinality(Holding(v)) <= 2 * list_length
<1>1. WorkerOK(v) /\ TypeOK
  BY InvFacts
<1>2. Own(v) \subseteq Blocks /\ Cardinality(Own(v)) = Kept(v)
  BY <1>1, OwnCount
<1>3. Kept(v) \in Nat /\ sz[v] \in 0 .. 2 * list_length /\ list_length \in Nat /\ list_length >= 2
  BY <1>1, KeptFacts, SizeFacts, ListLengths DEF TypeOK
<1>4. CASE pc[v] = "halved"
  <2>1. arg[v] \in Blocks /\ InHand(v) = {arg[v]} /\ Kept(v) = list_length
    BY <1>1, <1>4 DEF WorkerOK, InHand, Kept
  <2>2. Cardinality(InHand(v)) = 1 /\ InHand(v) \subseteq Blocks
    BY <2>1, FS_Singleton
  <2>3. Cardinality(Holding(v)) <= Cardinality(Own(v)) + Cardinality(InHand(v))
    BY <1>2, <2>2, Together DEF Holding
  <2>4. Holding(v) \subseteq Blocks
    BY <1>2, <2>2 DEF Holding
  <2>5. Cardinality(Holding(v)) \in Nat
    BY <2>4, BlocksFinite
  <2>6. Cardinality(Holding(v)) <= list_length + 1
    BY <1>2, <2>1, <2>2, <2>3
  <2> QED BY <1>3, <2>4, <2>5, <2>6
<1>5. CASE pc[v] = "grown"
  <2>1. arg[v] \in Blocks /\ arg[v] + list_length - 1 \in Blocks /\ Kept(v) = 0
    BY <1>1, <1>5 DEF WorkerOK, Kept
  <2>2. InHand(v) = arg[v] .. arg[v] + list_length - 1
    BY <1>5 DEF InHand
  <2>3. PICK top \in Nat : Blocks = 1 .. top
    <3>1. Cardinality(Blocks) \in Nat /\ Blocks = 1 .. Cardinality(Blocks)
      BY SizeFacts, Products
    <3> QED BY <3>1
  <2>4. PICK a, n \in Nat : a = arg[v] /\ n = list_length
    BY <1>3, <2>1, <2>3
  <2>5. a .. a + n - 1 \subseteq Blocks
    <3>1. a \in 1 .. top /\ a + n - 1 \in 1 .. top
      BY <2>1, <2>3, <2>4
    <3> QED BY <2>3, <2>4, <3>1
  <2>6. Cardinality(a .. a + n - 1) = n
    <3>1. a \in Int /\ a + n - 1 \in Int /\ a <= a + n - 1
      BY <1>3, <2>4
    <3>2. PICK z \in Int : z = a + n - 1
      BY <3>1
    <3>3. Cardinality(a .. z) = z - a + 1
      BY <3>1, <3>2, FS_Interval, SMTT(30)
    <3> QED BY <2>4, <3>2, <3>3, SMTT(60)
  <2>7. Cardinality(Own(v)) = 0 /\ Own(v) = {}
    <3>1. IsFiniteSet(Own(v)) /\ Cardinality(Own(v)) = 0
      BY <1>2, <2>1, BlocksFinite
    <3> QED BY <3>1, FS_EmptySet
  <2>8. Holding(v) = a .. a + n - 1
    BY <2>2, <2>4, <2>7 DEF Holding
  <2> QED BY <1>3, <2>4, <2>5, <2>6, <2>8
<1>6. CASE pc[v] # "halved" /\ pc[v] # "grown"
  <2>1. Holding(v) = Own(v) /\ Kept(v) = sz[v]
    BY <1>6 DEF Holding, InHand, Kept
  <2> QED BY <1>2, <1>3, <2>1
<1> QED BY <1>4, <1>5, <1>6

(* So many workers have no more than so many lists.                        *)
LEMMA HoldingsCount ==
  ASSUME IInv, NEW V \in SUBSET Workers
  PROVE  /\ UNION {Holding(v) : v \in V} \subseteq Blocks
         /\ Cardinality(UNION {Holding(v) : v \in V}) <= Cardinality(V) * (2 * list_length)
<1> DEFINE Of(W) == UNION {Holding(v) : v \in W}
<1>1. \A v \in Workers : Holding(v) \subseteq Blocks /\ Cardinality(Holding(v)) <= 2 * list_length
  BY HoldingCount
<1>2. \A W \in SUBSET Workers : Of(W) \subseteq Blocks
  BY <1>1
<1>3. \A W \in SUBSET Workers : IsFiniteSet(W) /\ Cardinality(W) \in Nat
  BY SomeWorkers, FS_Subset, FS_CardinalityType
<1>4. \A W \in SUBSET Workers : \A w \in W : Of(W) = Of(W \ {w}) \cup Holding(w)
  OBVIOUS
<1>5. Of({}) = {}
  OBVIOUS
<1> HIDE DEF Of
<1>6. ASSUME ~(Cardinality(Of(V)) <= Cardinality(V) * (2 * list_length)) PROVE FALSE
  <2> DEFINE TooLarge(W) == ~(Cardinality(Of(W)) <= Cardinality(W) * (2 * list_length))
             T == {Cardinality(W) : W \in {X \in SUBSET Workers : TooLarge(X)}}
  <2>1. T \subseteq Nat /\ T # {}
    BY <1>3, <1>6
  <2>2. PICK k \in T : \A j \in T : k <= j
    BY <2>1, LeastNumber
  <2>3. PICK W \in SUBSET Workers : TooLarge(W) /\ k = Cardinality(W)
    BY <2>2
  <2>4. k \in Nat /\ list_length \in Nat
    BY <1>3, <2>3, SizeFacts
  <2>5. W # {}
    <3>1. ASSUME W = {} PROVE FALSE
      <4>1. Cardinality(Of(W)) = 0 /\ Cardinality(W) = 0
        BY <1>5, <3>1, FS_EmptySet
      <4>2. 0 * (2 * list_length) = 0
        BY <2>4
      <4> QED BY <2>3, <4>1, <4>2
    <3> QED BY <3>1
  <2>6. PICK w \in W : TRUE
    BY <2>5
  <2>7. PICK U \in SUBSET Workers : U = W \ {w}
    OBVIOUS
  <2>8. Cardinality(U) = k - 1 /\ Cardinality(U) \in Nat
    BY <1>3, <2>3, <2>7, FS_RemoveElement
  <2>9. ~TooLarge(U)
    BY <2>2, <2>4, <2>8
  <2>10. PICK p \in Nat : p = Cardinality(U) /\ k = p + 1
    BY <2>4, <2>8
  <2>11. Cardinality(Of(U)) <= p * (2 * list_length)
    BY <2>9, <2>10
  <2>12. Of(W) = Of(U) \cup Holding(w) /\ Of(U) \subseteq Blocks /\ Of(W) \subseteq Blocks
         /\ Holding(w) \subseteq Blocks /\ Cardinality(Holding(w)) <= 2 * list_length
    BY <1>1, <1>2, <1>4, <2>7
  <2>13. Cardinality(Of(W)) <= Cardinality(Of(U)) + Cardinality(Holding(w))
    BY <2>12, Together
  <2>14. PICK x, y, z \in Nat : /\ x = Cardinality(Of(W)) /\ y = Cardinality(Of(U))
                                /\ z = Cardinality(Holding(w))
    BY <2>12, BlocksFinite
  <2>15. PICK q, l \in Nat : q = p * (2 * list_length) /\ l = 2 * list_length
    BY <2>4, <2>10
  <2>16. (p + 1) * (2 * list_length) = q + l
    BY <2>4, <2>10, <2>15
  <2>17. x <= q + l
    BY <2>11, <2>12, <2>13, <2>14, <2>15
  <2> QED BY <2>3, <2>10, <2>14, <2>16, <2>17
<1> QED BY <1>2, <1>6 DEF Of

(* One that finds the global stack empty has no block: at most two lists   *)
(* of each of the others are not in use.                                   *)
LEMMA FewBlocksLeft ==
  ASSUME IInv, NEW w \in Workers, AllocGrow(w)
  PROVE  Cardinality(used) >= blocks_allocated
           - 2 * list_length * (Cardinality(Workers) - 1)
<1>1. pc[w] = "idle" /\ sz[w] = 0 /\ global_stack = <<>>
  BY DEF AllocGrow, At
<1>2. Holding(w) = {}
  <2>1. Cardinality(Own(w)) = 0 /\ Own(w) \subseteq Blocks
    <3>1. Kept(w) = 0
      BY <1>1 DEF Kept
    <3> QED BY <3>1, InvFacts, OwnCount
  <2>2. Own(w) = {}
    BY <2>1, BlocksFinite, FS_EmptySet
  <2> QED BY <1>1, <2>2 DEF Holding, InHand
<1>3. PICK H, V : H = UNION {Holding(v) : v \in Workers} /\ V = Workers \ {w}
  OBVIOUS
<1>4. H = UNION {Holding(v) : v \in V}
  BY <1>2, <1>3
<1>5. /\ H \subseteq Blocks /\ used \subseteq Blocks
      /\ blocks_allocated = Cardinality(used) + Cardinality(H) + Len(global_stack) * list_length
  BY <1>3, AllBlocks
<1>6. Len(global_stack) * list_length = 0
  BY <1>1, SizeFacts
<1>7. Cardinality(V) = Cardinality(Workers) - 1 /\ Cardinality(Workers) \in Nat /\ Cardinality(V) \in Nat
  BY <1>3, SomeWorkers, FS_RemoveElement, FS_Subset, FS_CardinalityType
<1>8. Cardinality(H) <= Cardinality(V) * (2 * list_length)
  <2>1. V \in SUBSET Workers
    BY <1>3
  <2> QED BY <1>4, <2>1, HoldingsCount
<1>9. PICK k \in Nat : k = Cardinality(V) /\ k = Cardinality(Workers) - 1
  BY <1>7
<1>10. k * (2 * list_length) = 2 * list_length * k /\ k * (2 * list_length) \in Nat
  BY <1>9, SizeFacts
<1>11. PICK x, y, z \in Nat : x = Cardinality(used) /\ y = Cardinality(H) /\ z = 2 * list_length * k
  BY <1>5, <1>10, BlocksFinite
<1>12. blocks_allocated = x + y /\ y <= z
  BY <1>5, <1>6, <1>8, <1>9, <1>10, <1>11
<1>13. x >= blocks_allocated - z
  BY <1>12
<1> QED BY <1>9, <1>11, <1>13

(* A worker makes a new list only if the program holds all blocks but two  *)
(* lists for each of the other workers.                                    *)
THEOREM GrowthNeeded == Spec => GrowsWhenNeeded
<1> DEFINE Needed == \A w \in Workers :
             pc[w] = "idle" /\ pc'[w] = "grow" =>
               Cardinality(used) >= blocks_allocated
                 - 2 * list_length * (Cardinality(Workers) - 1)
<1>1. IInv /\ [Next]_vars => [Needed]_vars
  <2> SUFFICES ASSUME IInv, Next, NEW w \in Workers, pc[w] = "idle", pc'[w] = "grow"
               PROVE  Cardinality(used) >= blocks_allocated
                        - 2 * list_length * (Cardinality(Workers) - 1)
    OBVIOUS
  <2>1. pc \in [Workers -> {"idle", "grow", "grown", "halved"}]
    BY InvFacts DEF TypeOK
  <2>2. ~UNCHANGED pc
    OBVIOUS
  <2>3. PICK u \in Workers : Step(u)
    BY <2>2 DEF Next, init, finish
  <2>4. ASSUME NEW p, Goes(u, p) PROVE p = "grow"
    BY <2>1, <2>4 DEF Goes
  <2>5. \/ Goes(u, "grow") /\ AllocGrow(u)
        \/ UNCHANGED pc
        \/ Goes(u, "grown") \/ Goes(u, "idle") \/ Goes(u, "halved")
    BY <2>3 DEF Step, AllocLocal, AllocList, AllocGrow, Grow, TooMany, Grown, Free, FreeHalf, Halved
  <2>6. Goes(u, "grow") /\ AllocGrow(u)
    BY <2>2, <2>4, <2>5
  <2>7. u = w
    BY <2>1, <2>6 DEF Goes
  <2> QED BY <2>6, <2>7, FewBlocksLeft
<1>2. QED
  BY <1>1, Invariance, PTL DEF Spec, GrowsWhenNeeded

====
