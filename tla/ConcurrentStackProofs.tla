---- MODULE ConcurrentStackProofs ----
EXTENDS ConcurrentStack, NaturalsInduction, FiniteSetTheorems, TLAPS

(* Different nodes.                                                        *)
Apart(c) == \A i, j \in DOMAIN c : c[i] = c[j] => i = j

(* The sequence c follows the links to, from n to the last one.            *)
Follows(c, n, to) ==
  /\ c \in Seq(Nodes)
  /\ Apart(c)
  /\ n = IF c = <<>> THEN Null ELSE c[1]
  /\ \A i \in DOMAIN c : to[c[i]] = IF i = Len(c) THEN Null ELSE c[i + 1]

(***************************************************************************)
(* The inductive invariant.  The counter of a head never goes back, so a   *)
(* thread whose copy still equals the head knows that the head has not     *)
(* moved since it read the counter; the link of a node changes only while  *)
(* a thread has the node to itself.                                        *)
(***************************************************************************)
TypeInv ==
  /\ head \in [Sides -> [node : Ref, counter : Nat]]
  /\ value \in [Nodes -> Values \cup {Empty}]
  /\ next \in [Nodes -> Ref]
  /\ length \in [Nodes -> Nat]
  /\ allocated \in SUBSET Nodes
  /\ calls \in 0 .. MaxCalls
  /\ op \in [Threads -> {"idle", "push", "pop"}]
  /\ pc \in [Threads -> {"head", "counter", "read", "swing"}]
  /\ stage \in [Threads -> {"take", "give"}]
  /\ x \in [Threads -> Ref]
  /\ arg \in [Threads -> Values \cup {Empty}]
  /\ old \in [Threads -> [node : Ref, counter : Nat]]
  /\ link \in [Threads -> Ref]

Holds(t) == stage[t] = "give"

(* What a thread knows of its node and of its copy of a head.              *)
CallOK(t) ==
  /\ op[t] = "idle" => /\ pc[t] = "head" /\ stage[t] = "take"
                       /\ x[t] = Null /\ arg[t] = Empty
  /\ op[t] = "push" => /\ arg[t] \in Values
                       /\ Holds(t) => value[x[t]] = arg[t]
  /\ op[t] = "pop" /\ ~Holds(t) => arg[t] = Empty

CopyOK(t) ==
  /\ pc[t] \in {"read", "swing"} => old[t].counter <= head[Side(t)].counter
  /\ pc[t] = "swing" /\ ~Holds(t) =>
       /\ old[t].node # Null
       /\ head[Side(t)] = old[t] => link[t] = next[old[t].node]
  /\ pc[t] = "swing" /\ Holds(t) =>
       /\ next[x[t]] = old[t].node
       /\ head[Side(t)] = old[t] => length[x[t]] = Length(old[t].node) + 1

(* Each node that malloc gave is in one place.                             *)
PlacesOK ==
  /\ \A t \in Threads : Holds(t) => x[t] \in allocated
  /\ \A t, u \in Threads : Holds(t) /\ Holds(u) /\ x[t] = x[u] => t = u
  /\ \A s \in Sides : \A n \in Linked(s) : n \in allocated
  /\ \A s \in Sides : \A t \in Threads : Holds(t) => x[t] \notin Linked(s)
  /\ \A n \in Linked("a") : n \notin Linked("b")
  /\ \A n \in allocated :
       \/ \E s \in Sides : n \in Linked(s)
       \/ \E t \in Threads : Holds(t) /\ x[t] = n

ChainsOK == \A s \in Sides : Follows(Chain(s), head[s].node, next)

LengthsOK ==
  \A s \in Sides : \A i \in DOMAIN Chain(s) :
    length[Chain(s)[i]] = Len(Chain(s)) - i + 1

IInv ==
  /\ TypeInv
  /\ \A t \in Threads : CallOK(t)
  /\ \A t \in Threads : CopyOK(t)
  /\ ChainsOK
  /\ PlacesOK
  /\ LengthsOK

----
(* A set of numbers has a least element.                                   *)
LEMMA LeastNumber ==
  ASSUME NEW T, T \subseteq Nat, T # {}
  PROVE  \E m \in T : \A n \in T : m <= n
<1> DEFINE R == OpToRel(<, Nat)
<1>1. IsWellFoundedOn(R, Nat)
  BY NatLessThanWellFounded
<1>2. \A a, b \in Nat : a < b => <<a, b>> \in R
  BY DEF OpToRel
<1> HIDE DEF R
<1>3. PICK m \in T : \A n \in T : ~(<<n, m>> \in R)
  BY <1>1, WFMin
<1>4. ASSUME NEW n \in T, ~(m <= n) PROVE FALSE
  <2>1. m \in Nat /\ n \in Nat /\ n < m
    BY <1>4
  <2> QED BY <2>1, <1>2, <1>3
<1> QED BY <1>4

(* There are at most as many different nodes as nodes.                     *)
LEMMA ApartBounded ==
  ASSUME NEW c \in Seq(Nodes), Apart(c)
  PROVE  Len(c) \in Nat /\ Len(c) <= MaxNodes
<1>1. Len(c) \in Nat /\ DOMAIN c = 1 .. Len(c) /\ c \in [1 .. Len(c) -> Nodes]
  OBVIOUS
<1>2. c \in Injection(1 .. Len(c), Nodes)
  BY <1>1 DEF Apart, Injection, IsInjective
<1>3. IsFiniteSet(Nodes) /\ Cardinality(Nodes) = MaxNodes
  BY FS_Interval, Bounds DEF Nodes
<1>4. Cardinality(1 .. Len(c)) = Len(c)
  BY <1>1, FS_Interval, SMTT(60)
<1>5. Cardinality(1 .. Len(c)) <= Cardinality(Nodes)
  BY <1>2, <1>3, FS_Injection
<1> QED BY <1>1, <1>3, <1>4, <1>5

(* The nodes behind n are the sequence that follows the links from n.      *)
LEMMA BehindIs ==
  ASSUME NEW n, NEW to, NEW c, Follows(c, n, to)
  PROVE  Behind(n, to) = c
<1> DEFINE K == 1 .. MaxNodes + 1
           Solves(g) == g = [k \in K |-> IF k = 1 THEN n
                           ELSE IF g[k - 1] = Null THEN Null ELSE to[g[k - 1]]]
           e == [k \in K |-> IF k <= Len(c) THEN c[k] ELSE Null]
           node == CHOOSE g : Solves(g)
           Some == {k \in K : node[k] # Null}
<1>1. /\ c \in Seq(Nodes) /\ Len(c) \in Nat /\ Len(c) <= MaxNodes /\ DOMAIN c = 1 .. Len(c)
      /\ \A i \in 1 .. Len(c) : c[i] # Null
  BY ApartBounded, NullIsNoNode DEF Follows
<1>2. \A k \in K : e[k] = IF k = 1 THEN n ELSE IF e[k - 1] = Null THEN Null ELSE to[e[k - 1]]
  <2> SUFFICES ASSUME NEW k \in K
               PROVE  e[k] = IF k = 1 THEN n ELSE IF e[k - 1] = Null THEN Null ELSE to[e[k - 1]]
    OBVIOUS
  <2>1. k = 1 \/ k - 1 \in K
    BY Bounds
  <2>2. CASE k = 1
    <3>1. c = <<>> <=> Len(c) = 0
      BY <1>1
    <3> QED BY <1>1, <2>2, <3>1 DEF Follows
  <2>3. CASE k # 1 /\ k <= Len(c)
    BY <1>1, <2>1, <2>3 DEF Follows
  <2>4. CASE k # 1 /\ ~(k <= Len(c)) /\ k - 1 = Len(c)
    BY <1>1, <2>1, <2>4 DEF Follows
  <2>5. CASE k # 1 /\ ~(k <= Len(c)) /\ k - 1 # Len(c)
    BY <1>1, <2>1, <2>5
  <2> QED BY <2>2, <2>3, <2>4, <2>5
<1>3. Solves(e)
  BY <1>2
<1>4. Solves(node)
  BY <1>3
<1> HIDE DEF node
<1>5. ASSUME NEW k \in K, node[k] # e[k] PROVE FALSE
  <2> DEFINE T == {j \in K : node[j] # e[j]}
  <2>1. T \subseteq Nat /\ T # {}
    BY <1>5
  <2>2. PICK m \in T : \A j \in T : m <= j
    BY <2>1, LeastNumber
  <2>3. m \in K /\ node[m] # e[m]
    BY <2>2
  <2>4. node[m] = IF m = 1 THEN n ELSE IF node[m - 1] = Null THEN Null ELSE to[node[m - 1]]
    BY <1>4, <2>3
  <2>5. m # 1
    BY <1>2, <2>3, <2>4
  <2>6. m - 1 \in K /\ m - 1 \notin T
    BY <2>2, <2>5, Bounds
  <2>7. node[m - 1] = e[m - 1]
    BY <2>6
  <2>8. e[m] = IF m = 1 THEN n ELSE IF e[m - 1] = Null THEN Null ELSE to[e[m - 1]]
    BY <1>2, <2>3
  <2> HIDE DEF e
  <2> QED BY <2>3, <2>4, <2>5, <2>7, <2>8
<1>6. \A k \in K : node[k] = e[k]
  BY <1>5
<1>7. Some = 1 .. Len(c)
  BY <1>1, <1>6, Bounds
<1>8. Cardinality(1 .. Len(c)) = Len(c)
  BY <1>1, FS_Interval, SMTT(60)
<1>9. \A k \in 1 .. Len(c) : node[k] = c[k]
  BY <1>1, <1>6, Bounds
<1> HIDE DEF Some
<1>10. Cardinality(Some) = Len(c)
  BY <1>7, <1>8
<1>11. [k \in 1 .. Cardinality(Some) |-> node[k]] = c
  BY <1>1, <1>9, <1>10
<1> QED BY <1>11 DEF Behind, node, Some

LEMMA FollowsFacts ==
  ASSUME NEW n, NEW to, NEW c, Follows(c, n, to)
  PROVE  /\ c \in Seq(Nodes) /\ Len(c) \in Nat /\ DOMAIN c = 1 .. Len(c)
         /\ \A i \in 1 .. Len(c) : c[i] \in Nodes /\ c[i] # Null
         /\ c = <<>> <=> Len(c) = 0
         /\ n = Null <=> c = <<>>
         /\ n # Null => n = c[1] /\ 1 \in 1 .. Len(c)
<1>1. c \in Seq(Nodes) /\ n = IF c = <<>> THEN Null ELSE c[1]
  BY DEF Follows
<1>2. /\ Len(c) \in Nat /\ DOMAIN c = 1 .. Len(c)
      /\ c = <<>> <=> Len(c) = 0
      /\ \A i \in 1 .. Len(c) : c[i] \in Nodes
  BY <1>1
<1>3. c # <<>> => 1 \in 1 .. Len(c)
  BY <1>2
<1> QED BY <1>1, <1>2, <1>3, NullIsNoNode

(* Links of other nodes do not matter.                                     *)
LEMMA FollowsSame ==
  ASSUME NEW n, NEW to, NEW to2, NEW c, Follows(c, n, to),
         \A i \in DOMAIN c : to2[c[i]] = to[c[i]]
  PROVE  Follows(c, n, to2)
BY DEF Follows

(* Without its first node, a sequence follows the link of that node.       *)
LEMMA FollowsTail ==
  ASSUME NEW n, NEW to, NEW c, Follows(c, n, to), n # Null
  PROVE  /\ Follows(Tail(c), to[n], to)
         /\ Len(Tail(c)) = Len(c) - 1
         /\ \A i \in 1 .. Len(c) - 1 : Tail(c)[i] = c[i + 1]
         /\ \A i \in DOMAIN Tail(c) : Tail(c)[i] # n
<1>1. /\ c \in Seq(Nodes) /\ Len(c) \in Nat /\ DOMAIN c = 1 .. Len(c)
      /\ 1 \in 1 .. Len(c) /\ n = c[1] /\ c # <<>>
  BY FollowsFacts
<1>2. PICK k \in Nat : k = Len(c) - 1
  <2>1. Len(c) - 1 \in Nat
    BY <1>1
  <2> QED BY <2>1
<1>3. /\ Tail(c) \in Seq(Nodes) /\ Len(Tail(c)) = k /\ DOMAIN Tail(c) = 1 .. k
      /\ \A i \in 1 .. k : Tail(c)[i] = c[i + 1]
      /\ Tail(c) = <<>> <=> k = 0
  BY <1>1, <1>2
<1>4. DOMAIN c = 1 .. k + 1 /\ Len(c) = k + 1
  BY <1>1, <1>2
<1>5. /\ \A i, j \in 1 .. k + 1 : c[i] = c[j] => i = j
      /\ \A i \in 1 .. k + 1 : to[c[i]] = IF i = k + 1 THEN Null ELSE c[i + 1]
  BY <1>4 DEF Follows, Apart
<1> DEFINE d == Tail(c)
<1> HIDE DEF d
<1>6. /\ d \in Seq(Nodes) /\ Len(d) = k /\ DOMAIN d = 1 .. k
      /\ \A i \in 1 .. k : d[i] = c[i + 1]
      /\ d = <<>> <=> k = 0
  BY <1>3 DEF d
<1>7. /\ \A i \in 1 .. k : i + 1 \in 1 .. k + 1 /\ i + 1 # 1
      /\ \A i \in 1 .. k : i # k => i + 1 \in 1 .. k
      /\ \A i, j \in 1 .. k : i + 1 = j + 1 => i = j
      /\ \A i \in 1 .. k : i + 1 = k + 1 <=> i = k
      /\ 1 \in 1 .. k + 1
      /\ k # 0 => 1 \in 1 .. k
      /\ 1 = k + 1 <=> k = 0
  OBVIOUS
<1>8. Apart(d)
  BY <1>5, <1>6, <1>7, SMTT(60) DEF Apart
<1>9. to[n] = IF d = <<>> THEN Null ELSE d[1]
  <2>1. to[n] = IF k = 0 THEN Null ELSE c[1 + 1]
    BY <1>1, <1>5, <1>7
  <2> QED BY <1>6, <1>7, <2>1
<1>10. \A i \in 1 .. k : to[d[i]] = IF i = Len(d) THEN Null ELSE d[i + 1]
  <2> SUFFICES ASSUME NEW i \in 1 .. k
               PROVE  to[d[i]] = IF i = k THEN Null ELSE d[i + 1]
    BY <1>6
  <2>1. to[d[i]] = IF i = k THEN Null ELSE c[(i + 1) + 1]
    BY <1>5, <1>6, <1>7
  <2>2. i # k => d[i + 1] = c[(i + 1) + 1]
    BY <1>6, <1>7
  <2> QED BY <2>1, <2>2
<1>11. \A i \in 1 .. k : d[i] # n
  BY <1>1, <1>5, <1>6, <1>7
<1>12. Follows(d, to[n], to)
  BY <1>6, <1>8, <1>9, <1>10 DEF Follows
<1>13. Follows(Tail(c), to[n], to)
  BY <1>12 DEF d
<1>14. \A i \in DOMAIN Tail(c) : Tail(c)[i] # n
  BY <1>6, <1>11 DEF d
<1> QED BY <1>2, <1>3, <1>13, <1>14

(* A node in front, linked to the first one.                               *)
LEMMA FollowsPushed ==
  ASSUME NEW n, NEW to, NEW c, Follows(c, n, to), NEW m \in Nodes,
         to[m] = n, \A i \in DOMAIN c : c[i] # m
  PROVE  /\ Follows(<<m>> \o c, m, to)
         /\ Len(<<m>> \o c) = Len(c) + 1
         /\ (<<m>> \o c)[1] = m
         /\ \A i \in 1 .. Len(c) : (<<m>> \o c)[i + 1] = c[i]
<1>1. /\ c \in Seq(Nodes) /\ Len(c) \in Nat /\ DOMAIN c = 1 .. Len(c)
      /\ c = <<>> <=> Len(c) = 0
  BY FollowsFacts
<1>2. /\ \A i, j \in 1 .. Len(c) : c[i] = c[j] => i = j
      /\ \A i \in 1 .. Len(c) : to[c[i]] = IF i = Len(c) THEN Null ELSE c[i + 1]
      /\ n = IF c = <<>> THEN Null ELSE c[1]
  BY <1>1 DEF Follows, Apart
<1> DEFINE d == <<m>> \o c
<1>3. /\ d \in Seq(Nodes) /\ Len(d) = Len(c) + 1 /\ DOMAIN d = 1 .. Len(c) + 1
      /\ d[1] = m
      /\ \A i \in 1 .. Len(c) : d[i + 1] = c[i]
      /\ d # <<>>
  BY <1>1
<1> HIDE DEF d
<1>4. \A k \in 1 .. Len(c) + 1 : k = 1 \/ (k - 1 \in 1 .. Len(c) /\ d[k] = c[k - 1])
  <2> SUFFICES ASSUME NEW k \in 1 .. Len(c) + 1, k # 1
               PROVE  k - 1 \in 1 .. Len(c) /\ d[k] = c[k - 1]
    OBVIOUS
  <2>1. k - 1 \in 1 .. Len(c) /\ (k - 1) + 1 = k
    BY <1>1
  <2> QED BY <1>3, <2>1
<1>5. Apart(d)
  <2> SUFFICES ASSUME NEW i \in 1 .. Len(c) + 1, NEW j \in 1 .. Len(c) + 1, d[i] = d[j]
               PROVE  i = j
    BY <1>3 DEF Apart
  <2>1. CASE i = 1 /\ j = 1
    BY <2>1
  <2>2. CASE i = 1 /\ j # 1
    BY <1>1, <1>3, <1>4, <2>2
  <2>3. CASE i # 1 /\ j = 1
    BY <1>1, <1>3, <1>4, <2>3
  <2>4. CASE i # 1 /\ j # 1
    <3>1. /\ i - 1 \in 1 .. Len(c) /\ d[i] = c[i - 1]
          /\ j - 1 \in 1 .. Len(c) /\ d[j] = c[j - 1]
      BY <1>4, <2>4
    <3>2. i - 1 = j - 1
      BY <1>2, <3>1
    <3> QED BY <1>1, <3>2
  <2> QED BY <2>1, <2>2, <2>3, <2>4
<1>6. \A k \in 1 .. Len(c) + 1 : to[d[k]] = IF k = Len(d) THEN Null ELSE d[k + 1]
  <2> SUFFICES ASSUME NEW k \in 1 .. Len(c) + 1
               PROVE  to[d[k]] = IF k = Len(d) THEN Null ELSE d[k + 1]
    OBVIOUS
  <2>1. CASE k = 1
    <3>1. to[d[k]] = n
      BY <1>3, <2>1
    <3>2. Len(c) # 0 => 1 \in 1 .. Len(c)
      BY <1>1
    <3>3. Len(c) # 0 => d[1 + 1] = c[1]
      BY <1>3, <3>2
    <3>4. Len(d) = 1 <=> Len(c) = 0
      BY <1>1, <1>3
    <3> QED BY <1>1, <1>2, <2>1, <3>1, <3>3, <3>4
  <2>2. CASE k # 1
    <3>1. k - 1 \in 1 .. Len(c) /\ d[k] = c[k - 1]
      BY <1>4, <2>2
    <3>2. to[d[k]] = IF k - 1 = Len(c) THEN Null ELSE c[(k - 1) + 1]
      BY <1>2, <3>1
    <3>3. k - 1 # Len(c) => d[k + 1] = c[k]
      BY <1>1, <1>3
    <3> QED BY <1>1, <1>3, <3>2, <3>3
  <2> QED BY <2>1, <2>2
<1>7. Follows(d, m, to)
  BY <1>3, <1>5, <1>6 DEF Follows
<1> QED BY <1>3, <1>7 DEF d

----
(* What the invariant says of the chains. *)

LEMMA SideFacts ==
  ASSUME TypeInv, NEW t \in Threads
  PROVE  /\ Side(t) \in Sides
         /\ op[t] = "push" => Side(t) = IF Holds(t) THEN "a" ELSE "b"
         /\ op[t] = "pop" => Side(t) = IF Holds(t) THEN "b" ELSE "a"
<1>1. /\ stage[t] \in {"take", "give"}
      /\ "a" \in Sides /\ "b" \in Sides
  BY DEF TypeInv, Sides
<1>2. stage[t] = "take" <=> ~Holds(t)
  BY <1>1 DEF Holds
<1>3. CASE op[t] = "push"
  BY <1>1, <1>2, <1>3 DEF Side
<1>4. CASE op[t] # "push"
  BY <1>1, <1>2, <1>4 DEF Side
<1> QED BY <1>3, <1>4

LEMMA ChainFacts ==
  ASSUME IInv, NEW s \in Sides
  PROVE  /\ Follows(Chain(s), head[s].node, next)
         /\ Chain(s) \in Seq(Nodes) /\ Len(Chain(s)) \in Nat
         /\ DOMAIN Chain(s) = 1 .. Len(Chain(s))
         /\ head[s].node = Null <=> Chain(s) = <<>>
         /\ head[s].node # Null => /\ head[s].node \in Linked(s)
                                   /\ head[s].node = Chain(s)[1]
                                   /\ 1 \in 1 .. Len(Chain(s))
         /\ \A n : n \in Linked(s) <=> \E i \in 1 .. Len(Chain(s)) : Chain(s)[i] = n
         /\ Linked(s) \subseteq Nodes
<1>1. Follows(Chain(s), head[s].node, next)
  BY DEF IInv, ChainsOK
<1> QED BY <1>1, FollowsFacts DEF Linked

(* Chains stay as they are while no head is swung and the links change of  *)
(* nodes only that are not linked.                                         *)
LEMMA SameChains ==
  ASSUME IInv, UNCHANGED head,
         \A s \in Sides : \A n \in Linked(s) : next'[n] = next[n]
  PROVE  /\ \A s \in Sides : Chain(s)' = Chain(s) /\ Linked(s)' = Linked(s)
         /\ ChainsOK'
<1> SUFFICES ASSUME NEW s \in Sides
             PROVE  /\ Chain(s)' = Chain(s) /\ Linked(s)' = Linked(s)
                    /\ Follows(Chain(s)', head'[s].node, next')
  BY DEF ChainsOK
<1>1. \A i \in DOMAIN Chain(s) : next'[Chain(s)[i]] = next[Chain(s)[i]]
  BY DEF Linked
<1>2. Follows(Chain(s), head'[s].node, next')
  BY <1>1, ChainFacts, FollowsSame
<1>3. Chain(s)' = Chain(s)
  BY <1>2, BehindIs DEF Chain
<1> QED BY <1>2, <1>3 DEF Linked

(* The other threads' variables are as they were.                          *)
Others(t) ==
  \A u \in Threads \ {t} :
    /\ op'[u] = op[u] /\ pc'[u] = pc[u] /\ stage'[u] = stage[u]
    /\ x'[u] = x[u] /\ arg'[u] = arg[u] /\ old'[u] = old[u] /\ link'[u] = link[u]

LEMMA OtherCalls ==
  ASSUME IInv, NEW t \in Threads, Others(t), NEW u \in Threads \ {t},
         Holds(u) => value'[x[u]] = value[x[u]]
  PROVE  CallOK(u)'
<1>1. CallOK(u)
  BY DEF IInv
<1> QED BY <1>1 DEF Others, CallOK, Holds

(* Copies of heads, in a step that swings none of them.                    *)
LEMMA OtherCopies ==
  ASSUME IInv, NEW t \in Threads, Others(t), NEW u \in Threads \ {t},
         UNCHANGED head,
         \A n \in Nodes : next'[n] # next[n] \/ length'[n] # length[n] =>
           /\ n # x[u]
           /\ \A s \in Sides : n \notin Linked(s)
  PROVE  CopyOK(u)'
<1>1. CopyOK(u) /\ Side(u) \in Sides /\ Side(u)' = Side(u) /\ Holds(u)' = Holds(u)
  BY DEF IInv, Others, Side, Sides, Holds
<1>2. /\ pc'[u] = pc[u] /\ old'[u] = old[u] /\ link'[u] = link[u] /\ x'[u] = x[u]
      /\ head' = head
  BY DEF Others
<1>3. ASSUME head[Side(u)] = old[u], old[u].node # Null
      PROVE  /\ next'[old[u].node] = next[old[u].node]
             /\ length'[old[u].node] = length[old[u].node]
  BY <1>1, <1>3, ChainFacts
<1>4. ASSUME Holds(u), pc[u] = "swing"
      PROVE  next'[x[u]] = next[x[u]] /\ length'[x[u]] = length[x[u]]
  BY <1>4 DEF IInv, PlacesOK, TypeInv
<1> HIDE DEF IInv
<1>5. CASE ~(pc[u] = "swing")
  BY <1>1, <1>2, <1>5 DEF CopyOK
<1>6. CASE pc[u] = "swing" /\ ~Holds(u)
  BY <1>1, <1>2, <1>3, <1>6 DEF CopyOK
<1>7. CASE pc[u] = "swing" /\ Holds(u)
  BY <1>1, <1>2, <1>3, <1>4, <1>7 DEF CopyOK, Length
<1> QED BY <1>5, <1>6, <1>7

(* A swing of a head counts, so that it does not equal an earlier copy.    *)
LEMMA SwingCopies ==
  ASSUME IInv, NEW t \in Threads, Others(t), NEW u \in Threads \ {t},
         NEW n \in Ref, CAS(t, n), UNCHANGED <<next, length>>
  PROVE  CopyOK(u)'
<1>1. /\ CopyOK(u) /\ Side(u) \in Sides /\ Side(u)' = Side(u) /\ Holds(u)' = Holds(u)
      /\ Side(t) \in Sides
  BY DEF IInv, Others, Side, Sides, Holds
<1>2. /\ pc'[u] = pc[u] /\ old'[u] = old[u] /\ link'[u] = link[u] /\ x'[u] = x[u]
  BY DEF Others
<1>3. /\ head \in [Sides -> [node : Ref, counter : Nat]]
      /\ old[u].counter \in Nat
  BY DEF IInv, TypeInv
<1>4. Side(u) # Side(t) => head'[Side(u)] = head[Side(u)]
  BY <1>1, <1>3 DEF CAS
<1>5. Side(u) = Side(t) => /\ head'[Side(u)].counter = head[Side(u)].counter + 1
                           /\ head[Side(u)].counter \in Nat
  BY <1>1, <1>3 DEF CAS
<1> QED BY <1>1, <1>2, <1>3, <1>4, <1>5 DEF CopyOK, Length

----
(* One lemma for each step. *)

LEMMA InitOK == Init => IInv
<1> SUFFICES ASSUME Init PROVE IInv
  OBVIOUS
<1> DEFINE c == [i \in 1 .. Initial |-> Initial - i + 1]
<1>1. /\ Initial \in Nat /\ MaxNodes \in Nat /\ Initial <= MaxNodes
      /\ 1 .. Initial \subseteq Nodes /\ (Initial = 0 \/ Initial \in Nodes)
      /\ \A i \in 1 .. Initial : /\ Initial - i + 1 \in 1 .. Initial
                                 /\ i # Initial => Initial - i + 1 \in 2 .. Initial
                                 /\ i = Initial => Initial - i + 1 = 1
      /\ \A i \in Nodes : i <= Initial <=> i \in 1 .. Initial
      /\ \A i \in 2 .. Initial : i - 1 \in 1 .. Initial /\ i - 1 \in Nodes
      /\ \A i \in 1 .. Initial : i \in Nodes
  BY Bounds DEF Nodes
<1>2. /\ head = [a |-> [node |-> IF Initial = 0 THEN Null ELSE Initial, counter |-> Initial],
                 b |-> NoHead]
      /\ allocated = 1 .. Initial
      /\ next = [n \in Nodes |-> IF n \in 2 .. Initial THEN n - 1 ELSE Null]
      /\ length = [n \in Nodes |-> IF n <= Initial THEN n ELSE 0]
      /\ value = [n \in Nodes |-> IF n <= Initial THEN 1 - n ELSE Empty]
  BY DEF Init, Pushed
<1>3. /\ head \in [Sides -> [node : Ref, counter : Nat]]
      /\ head["a"].node = (IF Initial = 0 THEN Null ELSE Initial) /\ head["b"].node = Null
  BY <1>1, <1>2 DEF Sides, NoHead, Ref
<1>4. \A n \in 1 .. Initial : 1 - n \in Values
  BY <1>1, Bounds DEF Values
<1>5. TypeInv
  <2>1. value \in [Nodes -> Values \cup {Empty}]
    BY <1>1, <1>2, <1>4
  <2>2. next \in [Nodes -> Ref] /\ allocated \in SUBSET Nodes
    <3>1. \A n \in Nodes : (IF n \in 2 .. Initial THEN n - 1 ELSE Null) \in Ref
      BY <1>1 DEF Ref
    <3> QED BY <1>1, <1>2, <3>1
  <2>3. length \in [Nodes -> Nat]
    BY <1>1, <1>2
  <2> QED BY <1>3, <2>1, <2>2, <2>3, Bounds DEF TypeInv, Init, NoHead, Ref
<1>6. \A t \in Threads : CallOK(t) /\ CopyOK(t) /\ ~Holds(t)
  BY DEF Init, CallOK, CopyOK, Holds
<1>7. Follows(c, head["a"].node, next)
  <2>1. c \in Seq(Nodes) /\ Len(c) = Initial /\ DOMAIN c = 1 .. Initial
    <3>1. c \in [1 .. Initial -> Nodes]
      BY <1>1
    <3> QED BY <1>1, <3>1
  <2>2. c = <<>> <=> Initial = 0
    BY <1>1, <2>1
  <2>3. \A i \in 1 .. Initial : c[i] = Initial - i + 1
    OBVIOUS
  <2> HIDE DEF c
  <2>4. Apart(c)
    BY <1>1, <2>1, <2>3 DEF Apart
  <2>5. head["a"].node = IF c = <<>> THEN Null ELSE c[1]
    BY <1>1, <1>3, <2>2, <2>3
  <2>6. \A i \in 1 .. Initial : next[c[i]] = IF i = Initial THEN Null ELSE c[i + 1]
    <3> SUFFICES ASSUME NEW i \in 1 .. Initial
                 PROVE  next[c[i]] = IF i = Initial THEN Null ELSE c[i + 1]
      OBVIOUS
    <3>1. c[i] \in 1 .. Initial /\ c[i] \in Nodes
      BY <1>1, <2>3
    <3>2. CASE i = Initial
      <4>1. c[i] = 1 /\ 1 \notin 2 .. Initial
        BY <1>1, <2>3, <3>2
      <4> QED BY <1>2, <3>1, <3>2, <4>1
    <3>3. CASE i # Initial
      <4>1. /\ c[i] \in 2 .. Initial /\ i + 1 \in 1 .. Initial
            /\ Initial - (i + 1) + 1 = (Initial - i + 1) - 1
        BY <1>1, <2>3, <3>3
      <4>2. c[i + 1] = c[i] - 1
        BY <2>3, <4>1
      <4> QED BY <1>2, <3>1, <3>3, <4>1, <4>2
    <3> QED BY <3>2, <3>3
  <2> QED BY <2>1, <2>4, <2>5, <2>6 DEF Follows
<1>8. Follows(<<>>, head["b"].node, next)
  BY <1>3 DEF Follows, Apart
<1>9. Chain("a") = c /\ Chain("b") = <<>>
  BY <1>7, <1>8, BehindIs DEF Chain
<1>10. ChainsOK
  BY <1>7, <1>8, <1>9 DEF ChainsOK, Sides
<1>11. Linked("b") = {}
  BY <1>9 DEF Linked
<1>12. Linked("a") = 1 .. Initial
  <2>1. DOMAIN c = 1 .. Initial
    OBVIOUS
  <2>2. \A n \in 1 .. Initial : Initial - n + 1 \in 1 .. Initial /\ c[Initial - n + 1] = n
    BY <1>1
  <2>3. \A i \in 1 .. Initial : c[i] \in 1 .. Initial
    BY <1>1
  <2> HIDE DEF c
  <2>4. Linked("a") = {c[i] : i \in 1 .. Initial}
    BY <1>9, <2>1 DEF Linked
  <2> QED BY <2>2, <2>3, <2>4
<1>13. PlacesOK
  BY <1>2, <1>6, <1>11, <1>12 DEF PlacesOK, Sides
<1>14. LengthsOK
  <2>1. \A n \in 1 .. Initial : length[n] = n
    BY <1>1, <1>2
  <2>2. \A i \in 1 .. Initial : c[i] \in 1 .. Initial /\ c[i] = Initial - i + 1
    BY <1>1
  <2>3. Len(c) = Initial /\ DOMAIN c = 1 .. Initial
    BY <1>1
  <2> HIDE DEF c
  <2>4. \A i \in DOMAIN c : length[c[i]] = Len(c) - i + 1
    BY <2>1, <2>2, <2>3
  <2>5. DOMAIN Chain("b") = {}
    BY <1>9
  <2> QED BY <1>9, <2>4, <2>5 DEF LengthsOK, Sides
<1> QED BY <1>5, <1>6, <1>10, <1>13, <1>14 DEF IInv

(* A call that begins.                                                     *)
LEMMA StartOK ==
  ASSUME IInv, NEW t \in Threads, NEW o \in {"push", "pop"},
         NEW v \in Values \cup {Empty}, o = "push" => v \in Values, o = "pop" => v = Empty,
         Start(t, o, v)
  PROVE  IInv'
<1>1. TypeInv /\ TypeInv'
  <2>1. TypeInv
    BY DEF IInv
  <2>2. calls' \in 0 .. MaxCalls
    BY <2>1, Bounds DEF TypeInv, Start
  <2>3. op' \in [Threads -> {"idle", "push", "pop"}]
    BY <2>1 DEF TypeInv, Start
  <2>4. arg' \in [Threads -> Values \cup {Empty}]
    BY <2>1 DEF TypeInv, Start
  <2> QED BY <2>1, <2>2, <2>3, <2>4 DEF TypeInv, Start, nodes
<1>2. Others(t)
  BY <1>1 DEF Others, Start, TypeInv
<1>3. /\ op[t] = "idle" /\ op'[t] = o /\ arg'[t] = v
      /\ UNCHANGED <<head, value, next, length, allocated, pc, stage, x, old, link>>
  BY <1>1 DEF Start, TypeInv, nodes
<1>4. pc[t] = "head" /\ ~Holds(t)
  BY <1>3 DEF IInv, CallOK, Holds
<1>5. \A u \in Threads : CallOK(u)' /\ CopyOK(u)'
  <2>1. CallOK(t)' /\ CopyOK(t)'
    BY <1>3, <1>4 DEF CallOK, CopyOK, Holds
  <2>2. \A u \in Threads \ {t} : CallOK(u)' /\ CopyOK(u)'
    BY <1>2, <1>3, OtherCalls, OtherCopies
  <2> QED BY <2>1, <2>2
<1>6. (\A s \in Sides : Chain(s)' = Chain(s) /\ Linked(s)' = Linked(s)) /\ ChainsOK'
  BY <1>3, SameChains
<1>7. PlacesOK'
  BY <1>3, <1>6 DEF IInv, PlacesOK, Holds, Sides
<1>8. LengthsOK'
  BY <1>3, <1>6 DEF IInv, LengthsOK
<1> QED BY <1>1, <1>5, <1>6, <1>7, <1>8 DEF IInv

(* A step that swings no head, links no node and takes none.               *)
LEMMA LocalOK ==
  ASSUME IInv, TypeInv', NEW t \in Threads, Others(t), CallOK(t)', CopyOK(t)',
         UNCHANGED <<head, nodes, calls>>, Holds(t)' = Holds(t), x'[t] = x[t]
  PROVE  IInv'
<1>1. UNCHANGED <<head, value, next, length, allocated>>
  BY DEF nodes
<1>2. \A u \in Threads \ {t} : CallOK(u)' /\ CopyOK(u)'
  BY <1>1, OtherCalls, OtherCopies
<1>3. \A u \in Threads : Holds(u)' = Holds(u) /\ x'[u] = x[u]
  BY DEF Others, Holds
<1>4. (\A s \in Sides : Chain(s)' = Chain(s) /\ Linked(s)' = Linked(s)) /\ ChainsOK'
  BY <1>1, SameChains
<1>5. PlacesOK'
  BY <1>1, <1>3, <1>4 DEF IInv, PlacesOK, Sides
<1>6. LengthsOK'
  BY <1>1, <1>4 DEF IInv, LengthsOK
<1> QED BY <1>2, <1>4, <1>5, <1>6 DEF IInv

LEMMA ReadNodeOK ==
  ASSUME IInv, NEW t \in Threads, ReadNode(t)
  PROVE  IInv'
<1>1. TypeInv /\ CallOK(t) /\ Side(t) \in Sides
  BY SideFacts DEF IInv
<1>2. /\ op[t] # "idle" /\ UNCHANGED <<head, nodes, calls, op, stage, x, arg, link>>
      /\ pc' = [pc EXCEPT ![t] = "counter"]
      /\ old' = [old EXCEPT ![t].node = head[Side(t)].node]
  BY DEF ReadNode, At, Goes
<1>3. head[Side(t)].node \in Ref
  BY <1>1 DEF TypeInv
<1>4. old' \in [Threads -> [node : Ref, counter : Nat]]
  BY <1>1, <1>2, <1>3 DEF TypeInv
<1>5. TypeInv' /\ Others(t)
  BY <1>1, <1>2, <1>4 DEF TypeInv, Others, nodes
<1>6. pc'[t] = "counter"
  BY <1>1, <1>2 DEF TypeInv
<1>7. CallOK(t)' /\ CopyOK(t)'
  BY <1>1, <1>2, <1>6 DEF CallOK, CopyOK, Holds, nodes
<1> QED BY <1>2, <1>5, <1>7, LocalOK DEF Holds

LEMMA ReadCounterOK ==
  ASSUME IInv, NEW t \in Threads, ReadCounter(t)
  PROVE  IInv'
<1>1. TypeInv /\ CallOK(t) /\ Side(t) \in Sides
  BY SideFacts DEF IInv
<1>2. /\ op[t] # "idle" /\ UNCHANGED <<head, nodes, calls, op, stage, x, arg, link>>
      /\ pc' = [pc EXCEPT ![t] = "read"]
      /\ old' = [old EXCEPT ![t].counter = head[Side(t)].counter]
  BY DEF ReadCounter, At, Goes
<1>3. head[Side(t)].counter \in Nat
  BY <1>1 DEF TypeInv
<1>4. /\ old' \in [Threads -> [node : Ref, counter : Nat]]
      /\ old'[t].counter = head[Side(t)].counter
  BY <1>1, <1>2, <1>3 DEF TypeInv
<1>5. TypeInv' /\ Others(t)
  BY <1>1, <1>2, <1>4 DEF TypeInv, Others, nodes
<1>6. pc'[t] = "read" /\ Side(t)' = Side(t)
  BY <1>1, <1>2 DEF TypeInv, Side
<1>7. CallOK(t)' /\ CopyOK(t)'
  BY <1>1, <1>2, <1>3, <1>4, <1>6 DEF CallOK, CopyOK, Holds, nodes
<1> QED BY <1>2, <1>5, <1>7, LocalOK DEF Holds

LEMMA TakeNextOK ==
  ASSUME IInv, NEW t \in Threads, TakeNext(t)
  PROVE  IInv'
<1>1. TypeInv /\ CallOK(t) /\ CopyOK(t) /\ Side(t) \in Sides
  BY SideFacts DEF IInv
<1>2. /\ op[t] # "idle" /\ pc[t] = "read" /\ old[t].node # Null /\ ~Holds(t)
      /\ UNCHANGED <<head, nodes, calls, op, stage, x, arg, old>>
      /\ pc' = [pc EXCEPT ![t] = "swing"]
      /\ link' = [link EXCEPT ![t] = next[old[t].node]]
  BY DEF TakeNext, At, Goes, Holds
<1>3. old[t].node \in Nodes /\ next[old[t].node] \in Ref
  BY <1>1, <1>2 DEF TypeInv, Ref
<1>4. TypeInv' /\ Others(t)
  BY <1>1, <1>2, <1>3 DEF TypeInv, Others, nodes
<1>5. /\ pc'[t] = "swing" /\ Side(t)' = Side(t) /\ link'[t] = next[old[t].node]
      /\ Holds(t)' = Holds(t)
  BY <1>1, <1>2 DEF TypeInv, Side, Holds
<1>6. CallOK(t)' /\ CopyOK(t)'
  BY <1>1, <1>2, <1>5 DEF CallOK, CopyOK, nodes
<1> QED BY <1>2, <1>4, <1>5, <1>6, LocalOK

LEMMA RetryOK ==
  ASSUME IInv, NEW t \in Threads, Retry(t)
  PROVE  IInv'
<1>1. TypeInv /\ CallOK(t)
  BY DEF IInv
<1>2. /\ op[t] # "idle"
      /\ UNCHANGED <<head, nodes, calls, op, stage, x, arg>>
      /\ pc' = [pc EXCEPT ![t] = "head"] /\ link' = [link EXCEPT ![t] = Null]
      /\ old' = [old EXCEPT ![t] = NoHead]
  BY DEF Retry, At, Goes, Forget
<1>3. TypeInv' /\ Others(t)
  BY <1>1, <1>2 DEF TypeInv, Others, nodes, NoHead, Ref
<1>4. pc'[t] = "head"
  BY <1>1, <1>2 DEF TypeInv
<1>5. CallOK(t)' /\ CopyOK(t)'
  BY <1>1, <1>2, <1>4 DEF CallOK, CopyOK, Holds, nodes
<1> QED BY <1>2, <1>3, <1>5, LocalOK DEF Holds

(* The node is linked while the thread has it to itself.                   *)
LEMMA GiveLinkOK ==
  ASSUME IInv, NEW t \in Threads, GiveLink(t)
  PROVE  IInv'
<1>1. TypeInv /\ CallOK(t) /\ CopyOK(t) /\ Side(t) \in Sides /\ PlacesOK
  BY SideFacts DEF IInv
<1>2. /\ op[t] # "idle" /\ pc[t] = "read" /\ Holds(t)
      /\ next' = [next EXCEPT ![x[t]] = old[t].node]
      /\ length' = [length EXCEPT ![x[t]] = Length(old[t].node) + 1]
      /\ pc' = [pc EXCEPT ![t] = "swing"]
      /\ UNCHANGED <<head, value, allocated, calls, op, stage, x, arg, old, link>>
  BY DEF GiveLink, At, Goes, Holds
<1>3. /\ x[t] \in Nodes /\ x[t] \in allocated
      /\ \A s \in Sides : x[t] \notin Linked(s)
      /\ \A u \in Threads \ {t} : Holds(u) => x[u] # x[t]
  BY <1>1, <1>2 DEF PlacesOK, TypeInv
<1>4. /\ old[t].node \in Ref /\ Length(old[t].node) \in Nat
      /\ next'[x[t]] = old[t].node /\ length'[x[t]] = Length(old[t].node) + 1
      /\ \A n \in Nodes \ {x[t]} : next'[n] = next[n] /\ length'[n] = length[n]
  BY <1>1, <1>2, <1>3 DEF TypeInv, Ref, Length
<1>5. TypeInv' /\ Others(t)
  <2>1. next' \in [Nodes -> Ref]
    BY <1>1, <1>2, <1>4 DEF TypeInv
  <2>2. length' \in [Nodes -> Nat]
    <3>1. Length(old[t].node) + 1 \in Nat
      BY <1>4
    <3>2. length \in [Nodes -> Nat]
      BY <1>1 DEF TypeInv
    <3> QED BY <1>2, <3>1, <3>2
  <2>3. pc' \in [Threads -> {"head", "counter", "read", "swing"}]
    BY <1>1, <1>2 DEF TypeInv
  <2>4. Others(t)
    BY <1>1, <1>2 DEF TypeInv, Others
  <2>5. TypeInv'
    BY <1>1, <1>2, <2>1, <2>2, <2>3 DEF TypeInv
  <2> QED BY <2>4, <2>5
<1>6. /\ pc'[t] = "swing" /\ \A u \in Threads : Side(u)' = Side(u) /\ Holds(u)' = Holds(u)
  BY <1>1, <1>2 DEF TypeInv, Side, Holds
<1>7. CallOK(t)'
  BY <1>1, <1>2 DEF CallOK, Holds
<1>8. CopyOK(t)'
  <2>1. head[Side(t)] = old[t] => old[t].node # x[t]
    BY <1>1, <1>3, <1>4, ChainFacts, NullIsNoNode
  <2>2. old[t].node # x[t] => Length(old[t].node)' = Length(old[t].node)
    BY <1>2, <1>4 DEF Length, Ref
  <2> QED BY <1>1, <1>2, <1>4, <1>6, <2>1, <2>2 DEF CopyOK
<1>9. \A u \in Threads \ {t} : CallOK(u)' /\ CopyOK(u)'
  <2> SUFFICES ASSUME NEW u \in Threads \ {t} PROVE CallOK(u)' /\ CopyOK(u)'
    OBVIOUS
  <2>1. CallOK(u)'
    BY <1>2, <1>5, OtherCalls
  <2>2. CASE Holds(u)
    BY <1>2, <1>3, <1>4, <1>5, <2>1, <2>2, OtherCopies
  <2>3. CASE ~Holds(u)
    <3>1. CopyOK(u) /\ Side(u) \in Sides
      BY <1>1, SideFacts DEF IInv
    <3>2. head[Side(u)] = old[u] /\ old[u].node # Null => next'[old[u].node] = next[old[u].node]
      BY <1>3, <1>4, <3>1, ChainFacts
    <3> QED BY <1>2, <1>5, <1>6, <2>1, <2>3, <3>1, <3>2 DEF CopyOK, Others
  <2> QED BY <2>2, <2>3, <2>1
<1>10. (\A s \in Sides : Chain(s)' = Chain(s) /\ Linked(s)' = Linked(s)) /\ ChainsOK'
  <2>1. \A s \in Sides : \A n \in Linked(s) : next'[n] = next[n]
    BY <1>3, <1>4, ChainFacts
  <2> QED BY <1>2, <2>1, SameChains
<1>11. PlacesOK'
  BY <1>1, <1>2, <1>6, <1>10 DEF PlacesOK, Sides
<1>12. LengthsOK'
  <2>1. \A s \in Sides : \A i \in DOMAIN Chain(s) : length'[Chain(s)[i]] = length[Chain(s)[i]]
    BY <1>3, <1>4, ChainFacts DEF Linked
  <2> QED BY <1>10, <2>1 DEF IInv, LengthsOK
<1> QED BY <1>5, <1>7, <1>8, <1>9, <1>10, <1>11, <1>12 DEF IInv

(* A thread takes node n: from side s, where it came first, or from malloc.*)
LEMMA TakesOK ==
  ASSUME IInv, NEW t \in Threads, op[t] # "idle", ~Holds(t),
         NEW n \in Nodes, Took(t, n), UNCHANGED <<next, length, calls>>,
         \A u \in Threads : Holds(u) => x[u] # n,
         \A u \in Threads \ {t} : CopyOK(u)',
         head' \in [Sides -> [node : Ref, counter : Nat]],
         ChainsOK', LengthsOK',
         allocated' = allocated \cup {n},
         \A s \in Sides : Linked(s)' = Linked(s) \ {n}
  PROVE  IInv'
<1>1. TypeInv /\ CallOK(t) /\ PlacesOK
  BY DEF IInv
<1>2. /\ pc' = [pc EXCEPT ![t] = "head"] /\ link' = [link EXCEPT ![t] = Null]
      /\ old' = [old EXCEPT ![t] = NoHead]
      /\ x' = [x EXCEPT ![t] = n] /\ stage' = [stage EXCEPT ![t] = "give"]
      /\ op' = op
      /\ op[t] = "push" => value' = [value EXCEPT ![n] = arg[t]] /\ arg' = arg
      /\ op[t] # "push" => arg' = [arg EXCEPT ![t] = value[n]] /\ value' = value
  BY DEF Took, Forget, Goes
<1>3. arg[t] \in Values \cup {Empty} /\ value[n] \in Values \cup {Empty}
  BY <1>1 DEF TypeInv
<1>4. value' \in [Nodes -> Values \cup {Empty}] /\ arg' \in [Threads -> Values \cup {Empty}]
  BY <1>1, <1>2, <1>3 DEF TypeInv
<1>5. TypeInv'
  <2>1. /\ pc' \in [Threads -> {"head", "counter", "read", "swing"}]
        /\ link' \in [Threads -> Ref] /\ x' \in [Threads -> Ref]
        /\ stage' \in [Threads -> {"take", "give"}]
        /\ old' \in [Threads -> [node : Ref, counter : Nat]]
    BY <1>1, <1>2 DEF TypeInv, Ref, NoHead
  <2> QED BY <1>1, <1>2, <1>4, <2>1 DEF TypeInv
<1>6. Others(t)
  BY <1>1, <1>2 DEF TypeInv, Others
<1>7. /\ pc'[t] = "head" /\ Holds(t)' /\ x'[t] = n /\ op'[t] = op[t]
      /\ \A u \in Threads \ {t} : Holds(u)' = Holds(u) /\ x'[u] = x[u]
      /\ op[t] = "push" => value'[n] = arg[t] /\ arg'[t] = arg[t]
      /\ \A m \in Nodes \ {n} : value'[m] = value[m]
  BY <1>1, <1>2 DEF TypeInv, Holds
<1>8. CallOK(t)' /\ CopyOK(t)'
  BY <1>1, <1>7 DEF CallOK, CopyOK
<1>9. \A u \in Threads \ {t} : CallOK(u)'
  <2> SUFFICES ASSUME NEW u \in Threads \ {t} PROVE CallOK(u)'
    OBVIOUS
  <2>1. Holds(u) => x[u] \in Nodes /\ x[u] # n
    BY <1>1 DEF PlacesOK, TypeInv
  <2> QED BY <1>6, <1>7, <2>1, OtherCalls
<1>10. PlacesOK'
  <2>1. \A u \in Threads : Holds(u)' => x'[u] \in allocated'
    BY <1>1, <1>7 DEF PlacesOK
  <2>2. \A u, v \in Threads : Holds(u)' /\ Holds(v)' /\ x'[u] = x'[v] => u = v
    BY <1>1, <1>7 DEF PlacesOK
  <2>3. /\ \A s \in Sides : \A m \in Linked(s)' : m \in allocated'
        /\ \A s \in Sides : \A u \in Threads : Holds(u)' => x'[u] \notin Linked(s)'
    BY <1>1, <1>7 DEF PlacesOK
  <2>4. \A m \in Linked("a")' : m \notin Linked("b")'
    BY <1>1 DEF PlacesOK, Sides
  <2>5. \A m \in allocated' : \/ \E s \in Sides : m \in Linked(s)'
                             \/ \E u \in Threads : Holds(u)' /\ x'[u] = m
    <3> SUFFICES ASSUME NEW m \in allocated', m # n
                 PROVE  \/ \E s \in Sides : m \in Linked(s)'
                        \/ \E u \in Threads : Holds(u)' /\ x'[u] = m
      BY <1>7
    <3>1. \/ \E s \in Sides : m \in Linked(s)
          \/ \E u \in Threads : Holds(u) /\ x[u] = m
      BY <1>1 DEF PlacesOK
    <3> QED BY <1>7, <3>1
  <2> QED BY <2>1, <2>2, <2>3, <2>4, <2>5 DEF PlacesOK
<1> QED BY <1>5, <1>8, <1>9, <1>10 DEF IInv

LEMMA TakeNothingOK ==
  ASSUME IInv, NEW t \in Threads, TakeNothing(t)
  PROVE  IInv'
<1>1. TypeInv /\ CallOK(t) /\ PlacesOK
  BY DEF IInv
<1>2. op[t] # "idle" /\ ~Holds(t) /\ UNCHANGED <<head, calls>>
  BY DEF TakeNothing, At, Holds
<1>3. CASE op[t] = "pop" /\ Return(t) /\ UNCHANGED nodes
  <2>1. /\ op' = [op EXCEPT ![t] = "idle"] /\ stage' = [stage EXCEPT ![t] = "take"]
        /\ x' = [x EXCEPT ![t] = Null] /\ arg' = [arg EXCEPT ![t] = Empty]
        /\ pc' = [pc EXCEPT ![t] = "head"] /\ link' = [link EXCEPT ![t] = Null]
        /\ old' = [old EXCEPT ![t] = NoHead]
        /\ UNCHANGED <<head, value, next, length, allocated, calls>>
    BY <1>2, <1>3 DEF Return, Forget, Goes, nodes
  <2>2. TypeInv' /\ Others(t)
    BY <1>1, <2>1 DEF TypeInv, Others, NoHead, Ref
  <2>3. /\ pc'[t] = "head" /\ ~Holds(t)' /\ op'[t] = "idle" /\ x'[t] = Null /\ arg'[t] = Empty
        /\ stage'[t] = "take"
        /\ \A u \in Threads \ {t} : Holds(u)' = Holds(u) /\ x'[u] = x[u]
    BY <1>1, <2>1 DEF TypeInv, Holds
  <2>4. CallOK(t)' /\ CopyOK(t)'
    BY <2>3 DEF CallOK, CopyOK
  <2>5. \A u \in Threads \ {t} : CallOK(u)' /\ CopyOK(u)'
    BY <2>1, <2>2, OtherCalls, OtherCopies
  <2>6. (\A s \in Sides : Chain(s)' = Chain(s) /\ Linked(s)' = Linked(s)) /\ ChainsOK'
    BY <2>1, SameChains
  <2>7. PlacesOK'
    BY <1>1, <1>2, <2>1, <2>3, <2>6 DEF PlacesOK, Sides
  <2>8. LengthsOK'
    BY <2>1, <2>6 DEF IInv, LengthsOK
  <2> QED BY <2>2, <2>4, <2>5, <2>6, <2>7, <2>8 DEF IInv
<1>4. CASE /\ allocated # Nodes
           /\ Took(t, malloc) /\ allocated' = allocated \cup {malloc}
           /\ UNCHANGED <<next, length>>
  <2>1. malloc \in Nodes /\ malloc \notin allocated
    BY <1>1, <1>4 DEF malloc, TypeInv
  <2>2. (\A s \in Sides : Chain(s)' = Chain(s) /\ Linked(s)' = Linked(s)) /\ ChainsOK'
    BY <1>2, <1>4, SameChains
  <2>3. LengthsOK'
    BY <1>4, <2>2 DEF IInv, LengthsOK
  <2>4. Others(t)
    BY <1>1, <1>4 DEF Others, TypeInv, Took, Forget, Goes
  <2>5. \A u \in Threads \ {t} : CopyOK(u)'
    BY <1>2, <1>4, <2>4, OtherCopies
  <2>6. /\ \A u \in Threads : Holds(u) => x[u] # malloc
        /\ \A s \in Sides : Linked(s)' = Linked(s) \ {malloc}
    BY <1>1, <2>1, <2>2 DEF PlacesOK
  <2>7. head' \in [Sides -> [node : Ref, counter : Nat]]
    BY <1>1, <1>2 DEF TypeInv
  <2> QED BY <1>2, <1>4, <2>1, <2>2, <2>3, <2>5, <2>6, <2>7, TakesOK
<1> QED BY <1>3, <1>4 DEF TakeNothing

(* A head that is swung away from its side leaves the other one.           *)
LEMMA SwingFacts ==
  ASSUME IInv, NEW t \in Threads, NEW n \in Ref, CAS(t, n), UNCHANGED next
  PROVE  /\ head' \in [Sides -> [node : Ref, counter : Nat]]
         /\ head[Side(t)].node = old[t].node
         /\ head'[Side(t)].node = n
         /\ head'[Side(t)].counter = head[Side(t)].counter + 1
         /\ \A s \in Sides \ {Side(t)} :
              /\ head'[s] = head[s] /\ Chain(s)' = Chain(s) /\ Linked(s)' = Linked(s)
              /\ Follows(Chain(s)', head'[s].node, next')
<1>1. /\ head \in [Sides -> [node : Ref, counter : Nat]] /\ Side(t) \in Sides
      /\ old[t] \in [node : Ref, counter : Nat] /\ head[Side(t)] = old[t]
      /\ head' = [head EXCEPT ![Side(t)] = [node |-> n, counter |-> old[t].counter + 1]]
  BY SideFacts DEF IInv, TypeInv, CAS
<1>2. [node |-> n, counter |-> old[t].counter + 1] \in [node : Ref, counter : Nat]
  BY <1>1
<1>3. /\ head' \in [Sides -> [node : Ref, counter : Nat]]
      /\ head'[Side(t)] = [node |-> n, counter |-> old[t].counter + 1]
      /\ \A s \in Sides \ {Side(t)} : head'[s] = head[s]
  BY <1>1, <1>2
<1>4. \A s \in Sides \ {Side(t)} :
        /\ Chain(s)' = Chain(s) /\ Linked(s)' = Linked(s)
        /\ Follows(Chain(s)', head'[s].node, next')
  <2> SUFFICES ASSUME NEW s \in Sides \ {Side(t)}
               PROVE  /\ Chain(s)' = Chain(s) /\ Linked(s)' = Linked(s)
                      /\ Follows(Chain(s)', head'[s].node, next')
    OBVIOUS
  <2>1. Chain(s)' = Chain(s)
    BY <1>3 DEF Chain
  <2> QED BY <1>3, <2>1, ChainFacts DEF Linked
<1> QED BY <1>1, <1>3, <1>4

LEMMA TakeSwingOK ==
  ASSUME IInv, NEW t \in Threads, TakeSwing(t), NEW s \in Sides, s = Side(t)
  PROVE  /\ IInv'
         /\ Chain(s) # <<>> /\ old[t].node = Chain(s)[1]
         /\ Chain(s)' = Tail(Chain(s))
         /\ \A r \in Sides \ {s} : Chain(r)' = Chain(r)
<1> DEFINE n == old[t].node
<1>1. TypeInv /\ CallOK(t) /\ CopyOK(t) /\ PlacesOK /\ LengthsOK /\ Side(t) \in Sides
  BY SideFacts DEF IInv
<1>2. /\ op[t] # "idle" /\ pc[t] = "swing" /\ ~Holds(t) /\ CAS(t, link[t])
      /\ Took(t, n) /\ UNCHANGED <<next, length, allocated, calls>>
  BY DEF TakeSwing, At, Holds
<1>3. /\ head[s] = old[t] /\ n # Null /\ n \in Nodes /\ link[t] = next[n] /\ link[t] \in Ref
  BY <1>1, <1>2 DEF CopyOK, CAS, TypeInv, Ref
<1>4. Others(t)
  BY <1>1, <1>2 DEF Others, TypeInv, Took, Forget, Goes
<1>5. \A u \in Threads \ {t} : CopyOK(u)'
  BY <1>2, <1>3, <1>4, SwingCopies
<1>6. /\ head' \in [Sides -> [node : Ref, counter : Nat]] /\ head'[s].node = next[n]
      /\ \A r \in Sides \ {s} : /\ Chain(r)' = Chain(r) /\ Linked(r)' = Linked(r)
                                /\ Follows(Chain(r)', head'[r].node, next')
  BY <1>2, <1>3, SwingFacts
<1> DEFINE c == Chain(s)
           d == Tail(c)
<1>7. /\ Follows(c, n, next) /\ Len(c) \in Nat /\ 1 \in 1 .. Len(c) /\ n = c[1]
      /\ c # <<>> /\ n \in Linked(s)
      /\ \A m : m \in Linked(s) <=> \E i \in 1 .. Len(c) : c[i] = m
  BY <1>1, <1>3, ChainFacts
<1>8. /\ Follows(d, next[n], next) /\ Len(d) = Len(c) - 1
      /\ \A i \in 1 .. Len(c) - 1 : d[i] = c[i + 1]
      /\ \A i \in DOMAIN d : d[i] # n
  BY <1>3, <1>7, FollowsTail
<1>9. Chain(s)' = d
  <2>1. Chain(s)' = Behind(head'[s].node, next')
    BY DEF Chain
  <2>2. Follows(d, head'[s].node, next')
    BY <1>2, <1>6, <1>8
  <2> QED BY <2>1, <2>2, BehindIs
<1>10. ChainsOK'
  BY <1>2, <1>6, <1>8, <1>9 DEF ChainsOK
<1> HIDE DEF c, d
<1>11. DOMAIN d = 1 .. Len(c) - 1
  BY <1>8, FollowsFacts
<1>12. Linked(s)' = Linked(s) \ {n}
  <2>1. \A m : m \in Linked(s)' <=> \E i \in 1 .. Len(c) - 1 : d[i] = m
    BY <1>9, <1>11 DEF Linked
  <2>2. ASSUME NEW i \in 1 .. Len(c) - 1 PROVE d[i] \in Linked(s) /\ d[i] # n
    <3>1. i + 1 \in 1 .. Len(c)
      BY <1>7
    <3> QED BY <1>7, <1>8, <1>11, <3>1
  <2>3. ASSUME NEW i \in 1 .. Len(c), c[i] # n
        PROVE  \E j \in 1 .. Len(c) - 1 : d[j] = c[i]
    <3>1. i # 1
      BY <1>7, <2>3
    <3>2. i - 1 \in 1 .. Len(c) - 1 /\ (i - 1) + 1 = i
      BY <1>7, <3>1
    <3>3. d[i - 1] = c[i]
      BY <1>8, <3>2
    <3> QED BY <3>2, <3>3
  <2> QED BY <1>7, <2>1, <2>2, <2>3
<1>13. \A r \in Sides : Linked(r)' = Linked(r) \ {n}
  BY <1>1, <1>6, <1>7, <1>12 DEF PlacesOK, Sides
<1>14. LengthsOK'
  <2>1. ASSUME NEW i \in DOMAIN d PROVE length[d[i]] = Len(d) - i + 1
    <3>1. i + 1 \in 1 .. Len(c) /\ d[i] = c[i + 1]
      BY <1>7, <1>8, <1>11
    <3>2. length[c[i + 1]] = Len(c) - (i + 1) + 1
      <4>1. \A j \in 1 .. Len(c) : length[c[j]] = Len(c) - j + 1
        BY <1>1, ChainFacts DEF LengthsOK, c
      <4> QED BY <3>1, <4>1
    <3> QED BY <1>7, <1>8, <1>11, <3>1, <3>2
  <2> QED BY <1>1, <1>2, <1>6, <1>9, <2>1 DEF LengthsOK
<1>15. /\ allocated' = allocated \cup {n}
       /\ \A u \in Threads : Holds(u) => x[u] # n
  BY <1>1, <1>2, <1>7 DEF PlacesOK
<1>16. IInv'
  BY <1>2, <1>3, <1>5, <1>6, <1>10, <1>13, <1>14, <1>15, TakesOK
<1> QED BY <1>6, <1>7, <1>9, <1>16 DEF c, d

LEMMA GiveSwingOK ==
  ASSUME IInv, NEW t \in Threads, GiveSwing(t), NEW s \in Sides, s = Side(t)
  PROVE  /\ IInv'
         /\ Chain(s)' = <<x[t]>> \o Chain(s)
         /\ \A r \in Sides \ {s} : Chain(r)' = Chain(r)
<1> DEFINE n == old[t].node
           m == x[t]
<1>1. TypeInv /\ CallOK(t) /\ CopyOK(t) /\ PlacesOK /\ LengthsOK /\ Side(t) \in Sides
  BY SideFacts DEF IInv
<1>2. /\ op[t] # "idle" /\ pc[t] = "swing" /\ Holds(t) /\ CAS(t, m)
      /\ op' = [op EXCEPT ![t] = "idle"] /\ stage' = [stage EXCEPT ![t] = "take"]
      /\ x' = [x EXCEPT ![t] = Null] /\ arg' = [arg EXCEPT ![t] = Empty]
      /\ pc' = [pc EXCEPT ![t] = "head"] /\ link' = [link EXCEPT ![t] = Null]
      /\ old' = [old EXCEPT ![t] = NoHead]
      /\ UNCHANGED <<value, next, length, allocated, calls>>
  BY DEF GiveSwing, At, Holds, Return, Forget, Goes, nodes
<1>3. /\ head[s] = old[t] /\ m \in Nodes /\ m \in Ref /\ m \in allocated /\ next[m] = n
      /\ length[m] = Length(n) + 1
      /\ \A r \in Sides : m \notin Linked(r)
  BY <1>1, <1>2 DEF CopyOK, CAS, TypeInv, Ref, PlacesOK
<1>4. /\ head' \in [Sides -> [node : Ref, counter : Nat]] /\ head'[s].node = m
      /\ \A r \in Sides \ {s} : /\ Chain(r)' = Chain(r) /\ Linked(r)' = Linked(r)
                                /\ Follows(Chain(r)', head'[r].node, next')
  BY <1>2, <1>3, SwingFacts
<1>5. TypeInv'
  <2>1. /\ op' \in [Threads -> {"idle", "push", "pop"}]
        /\ pc' \in [Threads -> {"head", "counter", "read", "swing"}]
        /\ link' \in [Threads -> Ref] /\ x' \in [Threads -> Ref]
        /\ stage' \in [Threads -> {"take", "give"}]
        /\ arg' \in [Threads -> Values \cup {Empty}]
        /\ old' \in [Threads -> [node : Ref, counter : Nat]]
    BY <1>1, <1>2 DEF TypeInv, Ref, NoHead
  <2> QED BY <1>1, <1>2, <1>4, <2>1 DEF TypeInv
<1>6. Others(t)
  BY <1>1, <1>2 DEF TypeInv, Others
<1>7. /\ pc'[t] = "head" /\ ~Holds(t)' /\ op'[t] = "idle" /\ x'[t] = Null /\ arg'[t] = Empty
      /\ stage'[t] = "take"
      /\ \A u \in Threads \ {t} : Holds(u)' = Holds(u) /\ x'[u] = x[u]
  BY <1>1, <1>2 DEF TypeInv, Holds
<1>8. CallOK(t)' /\ CopyOK(t)'
  BY <1>7 DEF CallOK, CopyOK
<1>9. \A u \in Threads \ {t} : CallOK(u)' /\ CopyOK(u)'
  BY <1>2, <1>3, <1>6, OtherCalls, SwingCopies
<1> DEFINE c == Chain(s)
           d == <<m>> \o c
<1>10. /\ Follows(c, n, next) /\ Len(c) \in Nat /\ DOMAIN c = 1 .. Len(c)
       /\ n = Null <=> c = <<>>
       /\ n # Null => n = c[1] /\ 1 \in 1 .. Len(c)
       /\ \A i \in DOMAIN c : c[i] # m
       /\ \A k : k \in Linked(s) <=> \E i \in 1 .. Len(c) : c[i] = k
  BY <1>1, <1>3, ChainFacts DEF Linked
<1>11. /\ Follows(d, m, next) /\ Len(d) = Len(c) + 1 /\ d[1] = m
       /\ \A i \in 1 .. Len(c) : d[i + 1] = c[i]
  BY <1>3, <1>10, FollowsPushed
<1>12. Chain(s)' = d
  <2>1. Chain(s)' = Behind(head'[s].node, next')
    BY DEF Chain
  <2>2. Follows(d, head'[s].node, next')
    BY <1>2, <1>4, <1>11
  <2> QED BY <2>1, <2>2, BehindIs
<1>13. ChainsOK'
  BY <1>2, <1>4, <1>11, <1>12 DEF ChainsOK
<1>14. c = <<>> <=> Len(c) = 0
  BY <1>10, FollowsFacts
<1> HIDE DEF c, d
<1>15. DOMAIN d = 1 .. Len(c) + 1
  BY <1>11, FollowsFacts
<1>16. \A i \in DOMAIN d : i = 1 \/ (i - 1 \in 1 .. Len(c) /\ d[i] = c[i - 1])
  <2> SUFFICES ASSUME NEW i \in DOMAIN d, i # 1
               PROVE  i - 1 \in 1 .. Len(c) /\ d[i] = c[i - 1]
    OBVIOUS
  <2>1. i - 1 \in 1 .. Len(c) /\ (i - 1) + 1 = i
    BY <1>10, <1>15
  <2> QED BY <1>11, <2>1
<1>17. Linked(s)' = Linked(s) \cup {m}
  <2>1. \A k : k \in Linked(s)' <=> \E i \in DOMAIN d : d[i] = k
    BY <1>12 DEF Linked
  <2>2. /\ 1 \in DOMAIN d
        /\ \A i \in 1 .. Len(c) : i + 1 \in DOMAIN d
    BY <1>10, <1>15
  <2>3. ASSUME NEW k \in Linked(s)' PROVE k \in Linked(s) \cup {m}
    <3>1. PICK i \in DOMAIN d : d[i] = k
      BY <2>1, <2>3
    <3> QED BY <1>10, <1>11, <1>16, <3>1
  <2>4. m \in Linked(s)'
    BY <1>11, <2>1, <2>2
  <2>5. ASSUME NEW k \in Linked(s) PROVE k \in Linked(s)'
    <3>1. PICK i \in 1 .. Len(c) : c[i] = k
      BY <1>10, <2>5
    <3> QED BY <1>11, <2>1, <2>2, <3>1
  <2> HIDE DEF m
  <2> QED BY <2>3, <2>4, <2>5
<1>18. LengthsOK'
  <2>1. \A j \in 1 .. Len(c) : length[c[j]] = Len(c) - j + 1
    BY <1>1, <1>10 DEF LengthsOK, c
  <2>2. length[m] = Len(c) + 1
    <3>1. CASE n = Null
      BY <1>3, <1>10, <1>14, <3>1 DEF Length
    <3>2. CASE n # Null
      BY <1>3, <1>10, <2>1, <3>2 DEF Length
    <3> QED BY <3>1, <3>2
  <2>3. ASSUME NEW i \in DOMAIN d PROVE length[d[i]] = Len(d) - i + 1
    <3>1. CASE i = 1
      BY <1>10, <1>11, <2>2, <3>1
    <3>2. CASE i # 1
      <4>1. i - 1 \in 1 .. Len(c) /\ d[i] = c[i - 1]
        BY <1>16, <3>2
      <4>2. length[c[i - 1]] = Len(c) - (i - 1) + 1
        BY <2>1, <4>1
      <4> QED BY <1>10, <1>11, <1>15, <4>1, <4>2
    <3> QED BY <3>1, <3>2
  <2>4. \A i \in DOMAIN Chain(s)' : length'[Chain(s)'[i]] = Len(Chain(s)') - i + 1
    BY <1>2, <1>12, <2>3
  <2>5. \A r \in Sides \ {s} : \A i \in DOMAIN Chain(r)' :
          length'[Chain(r)'[i]] = Len(Chain(r)') - i + 1
    BY <1>1, <1>2, <1>4 DEF LengthsOK
  <2> QED BY <2>4, <2>5 DEF LengthsOK
<1>19. PlacesOK'
  <2>1. /\ \A u \in Threads : Holds(u)' => u # t /\ Holds(u) /\ x'[u] = x[u] /\ x[u] # m
        /\ \A r \in Sides : Linked(r)' = IF r = s THEN Linked(r) \cup {m} ELSE Linked(r)
    BY <1>1, <1>2, <1>4, <1>7, <1>17 DEF PlacesOK
  <2>2. \A u \in Threads : Holds(u)' => x'[u] \in allocated'
    BY <1>1, <1>2, <2>1 DEF PlacesOK
  <2>3. \A u, v \in Threads : Holds(u)' /\ Holds(v)' /\ x'[u] = x'[v] => u = v
    BY <1>1, <2>1 DEF PlacesOK
  <2>4. /\ \A r \in Sides : \A k \in Linked(r)' : k \in allocated'
        /\ \A r \in Sides : \A u \in Threads : Holds(u)' => x'[u] \notin Linked(r)'
    BY <1>1, <1>2, <1>3, <2>1 DEF PlacesOK
  <2>5. \A k \in Linked("a")' : k \notin Linked("b")'
    BY <1>1, <1>3, <2>1 DEF PlacesOK, Sides
  <2>6. \A k \in allocated' : \/ \E r \in Sides : k \in Linked(r)'
                             \/ \E u \in Threads : Holds(u)' /\ x'[u] = k
    <3> SUFFICES ASSUME NEW k \in allocated, k # m
                 PROVE  \/ \E r \in Sides : k \in Linked(r)'
                        \/ \E u \in Threads : Holds(u)' /\ x'[u] = k
      BY <1>1, <1>2, <2>1
    <3>1. \/ \E r \in Sides : k \in Linked(r)
          \/ \E u \in Threads : Holds(u) /\ x[u] = k
      BY <1>1 DEF PlacesOK
    <3> QED BY <1>7, <2>1, <3>1
  <2> QED BY <2>2, <2>3, <2>4, <2>5, <2>6 DEF PlacesOK
<1>20. IInv'
  BY <1>5, <1>8, <1>9, <1>13, <1>18, <1>19 DEF IInv
<1> QED BY <1>4, <1>12, <1>20 DEF c, d

LEMMA ClearOK ==
  ASSUME IInv, clear
  PROVE  IInv' /\ \A s \in Sides : Chain(s)' = <<>>
<1>1. TypeInv /\ PlacesOK
  BY DEF IInv
<1>2. /\ Quiet /\ calls < MaxCalls /\ calls' = calls + 1
      /\ head' = [s \in Sides |-> [node |-> Null, counter |-> head[s].counter + Len(Chain(s))]]
      /\ allocated' = allocated \ (Linked("a") \cup Linked("b"))
      /\ value' = [n \in Nodes |-> IF n \in allocated' THEN value[n] ELSE Empty]
      /\ next' = [n \in Nodes |-> IF n \in allocated' THEN next[n] ELSE Null]
      /\ length' = [n \in Nodes |-> IF n \in allocated' THEN length[n] ELSE 0]
      /\ UNCHANGED <<op, pc, stage, x, arg, old, link>>
  BY DEF clear
<1>3. \A t \in Threads : op[t] = "idle" /\ ~Holds(t) /\ CallOK(t)
  BY <1>2 DEF Quiet, IInv, CallOK, Holds
<1>4. allocated' = {}
  BY <1>1, <1>2, <1>3 DEF PlacesOK, Sides
<1>5. TypeInv'
  <2>1. \A s \in Sides : head[s].counter + Len(Chain(s)) \in Nat
    <3> SUFFICES ASSUME NEW s \in Sides PROVE head[s].counter + Len(Chain(s)) \in Nat
      OBVIOUS
    <3>1. head[s].counter \in Nat /\ Len(Chain(s)) \in Nat
      BY <1>1, ChainFacts DEF TypeInv
    <3> QED BY <3>1
  <2>2. head' \in [Sides -> [node : Ref, counter : Nat]]
    BY <1>2, <2>1 DEF Ref
  <2>3. calls' \in 0 .. MaxCalls
    BY <1>1, <1>2, Bounds DEF TypeInv
  <2>4. /\ value' \in [Nodes -> Values \cup {Empty}] /\ next' \in [Nodes -> Ref]
        /\ length' \in [Nodes -> Nat] /\ allocated' \in SUBSET Nodes
    BY <1>2, <1>4 DEF Ref
  <2> QED BY <1>1, <1>2, <2>2, <2>3, <2>4 DEF TypeInv
<1>6. \A t \in Threads : CallOK(t)' /\ CopyOK(t)' /\ ~Holds(t)'
  BY <1>2, <1>3 DEF CallOK, CopyOK, Holds
<1>7. \A s \in Sides : Follows(<<>>, head'[s].node, next')
  BY <1>2 DEF Follows, Apart
<1>8. \A s \in Sides : Chain(s)' = <<>>
  BY <1>7, BehindIs DEF Chain
<1>9. ChainsOK'
  BY <1>7, <1>8 DEF ChainsOK
<1>10. \A s \in Sides : Linked(s)' = {}
  BY <1>8 DEF Linked
<1>11. PlacesOK'
  BY <1>4, <1>6, <1>10 DEF PlacesOK, Sides
<1>12. LengthsOK'
  BY <1>8 DEF LengthsOK
<1> QED BY <1>5, <1>6, <1>8, <1>9, <1>11, <1>12 DEF IInv

LEMMA StutterOK == IInv /\ UNCHANGED vars => IInv'
<1> SUFFICES ASSUME IInv, UNCHANGED vars PROVE IInv'
  OBVIOUS
<1>1. UNCHANGED <<head, value, next, length, allocated, calls, op, pc, stage, x, arg, old, link>>
  BY DEF vars, nodes
<1>2. \A s \in Sides : Chain(s)' = Chain(s) /\ Linked(s)' = Linked(s)
  BY <1>1, SameChains
<1>3. \A t \in Threads : CallOK(t)' /\ CopyOK(t)'
  BY <1>1 DEF IInv, CallOK, CopyOK, Side, Holds, Length
<1>4. TypeInv'
  BY <1>1 DEF IInv, TypeInv
<1>5. ChainsOK'
  BY <1>1, SameChains
<1>6. PlacesOK'
  BY <1>1, <1>2 DEF IInv, PlacesOK, Holds, Sides
<1>7. LengthsOK'
  BY <1>1, <1>2 DEF IInv, LengthsOK
<1> QED BY <1>3, <1>4, <1>5, <1>6, <1>7 DEF IInv

LEMMA StepOK ==
  ASSUME IInv, NEW t \in Threads, Step(t)
  PROVE  IInv'
<1>1. CASE Push(t)
  <2>1. calls + 1 \in Values
    BY <1>1, Bounds DEF IInv, TypeInv, Push, Start, Values
  <2> QED BY <1>1, <2>1, StartOK DEF Push
<1>2. CASE Pop(t)
  BY <1>2, StartOK DEF Pop
<1>3. CASE ReadNode(t) \/ ReadCounter(t) \/ TakeNext(t) \/ Retry(t)
  BY <1>3, ReadNodeOK, ReadCounterOK, TakeNextOK, RetryOK
<1>4. CASE TakeNothing(t) \/ GiveLink(t)
  BY <1>4, TakeNothingOK, GiveLinkOK
<1>5. Side(t) \in Sides
  BY SideFacts DEF IInv
<1>6. CASE TakeSwing(t)
  BY <1>5, <1>6, TakeSwingOK
<1>7. CASE GiveSwing(t)
  BY <1>5, <1>7, GiveSwingOK
<1> QED BY <1>1, <1>2, <1>3, <1>4, <1>6, <1>7 DEF Step

(* In every behaviour the chains, the nodes' places and the copies of the  *)
(* heads agree.                                                            *)
THEOREM Invariance == Spec => []IInv
<1>1. Init => IInv
  BY InitOK
<1>2. IInv /\ [Next]_vars => IInv'
  <2> SUFFICES ASSUME IInv, [Next]_vars PROVE IInv'
    OBVIOUS
  <2>1. CASE clear
    BY <2>1, ClearOK
  <2>2. CASE Stop \/ UNCHANGED vars
    BY <2>2, StutterOK DEF Stop
  <2>3. CASE \E t \in Threads : Step(t)
    BY <2>3, StepOK
  <2> QED BY <2>1, <2>2, <2>3 DEF Next
<1> QED BY <1>1, <1>2, PTL DEF Spec

(* size() of either side is the number of nodes behind its head, at every  *)
(* step of concurrent pushes and pops.                                     *)
THEOREM SizesExact == Spec => []SizeExact
<1>1. IInv => SizeExact
  <2> SUFFICES ASSUME IInv, NEW s \in Sides PROVE size(s) = Len(Chain(s))
    BY DEF SizeExact
  <2>1. CASE head[s].node = Null
    BY <2>1, ChainFacts, FollowsFacts DEF size, Length
  <2>2. CASE head[s].node # Null
    <3>1. /\ head[s].node = Chain(s)[1] /\ 1 \in DOMAIN Chain(s)
          /\ Len(Chain(s)) \in Nat
      BY <2>2, ChainFacts
    <3>2. length[Chain(s)[1]] = Len(Chain(s)) - 1 + 1
      BY <3>1 DEF IInv, LengthsOK
    <3> QED BY <2>2, <3>1, <3>2 DEF size, Length
  <2> QED BY <2>1, <2>2
<1> QED BY <1>1, Invariance, PTL

(* Each node that malloc gave is linked on one side or in the hands of the *)
(* one thread that took it: no pop loses a node or takes one twice.        *)
THEOREM OnePlace == Spec => []NodesInOnePlace
<1>1. IInv => NodesInOnePlace
  <2> SUFFICES ASSUME IInv, NEW n \in Nodes
               PROVE  Cardinality({s \in Sides : n \in Linked(s)}) + Cardinality(Holders(n))
                        = IF n \in allocated THEN 1 ELSE 0
    BY DEF NodesInOnePlace
  <2> DEFINE S == {s \in Sides : n \in Linked(s)}
             H == Holders(n)
  <2>1. PlacesOK
    BY DEF IInv
  <2>2. Cardinality({}) = 0 /\ \A e : Cardinality({e}) = 1
    BY FS_EmptySet, FS_Singleton
  <2>3. CASE \E s \in Sides : n \in Linked(s)
    <3>1. PICK s \in Sides : n \in Linked(s)
      BY <2>3
    <3>2. S = {s}
      BY <2>1, <3>1 DEF PlacesOK, Sides
    <3>3. H = {}
      BY <2>1, <3>1 DEF PlacesOK, Holders, Holds
    <3>4. n \in allocated
      BY <2>1, <3>1 DEF PlacesOK
    <3> HIDE DEF S, H
    <3>5. Cardinality(S) = 1 /\ Cardinality(H) = 0
      BY <2>2, <3>2, <3>3
    <3>6. Cardinality(S) + Cardinality(H) = 1
      BY <3>5
    <3> QED BY <3>4, <3>6 DEF S, H
  <2>4. CASE \E t \in Threads : Holds(t) /\ x[t] = n
    <3>1. PICK t \in Threads : Holds(t) /\ x[t] = n
      BY <2>4
    <3>2. S = {}
      BY <2>1, <3>1 DEF PlacesOK
    <3>3. H = {t}
      BY <2>1, <3>1 DEF PlacesOK, Holders, Holds
    <3>4. n \in allocated
      BY <2>1, <3>1 DEF PlacesOK
    <3> HIDE DEF S, H
    <3>5. Cardinality(S) = 0 /\ Cardinality(H) = 1
      BY <2>2, <3>2, <3>3
    <3>6. Cardinality(S) + Cardinality(H) = 1
      BY <3>5
    <3> QED BY <3>4, <3>6 DEF S, H
  <2>5. CASE /\ ~\E s \in Sides : n \in Linked(s)
             /\ ~\E t \in Threads : Holds(t) /\ x[t] = n
    <3>1. S = {} /\ H = {}
      BY <2>5 DEF Holders, Holds
    <3>2. n \notin allocated
      BY <2>1, <2>5 DEF PlacesOK
    <3> HIDE DEF S, H
    <3>3. Cardinality(S) = 0 /\ Cardinality(H) = 0
      BY <2>2, <3>1
    <3>4. Cardinality(S) + Cardinality(H) = 0
      BY <3>3
    <3> QED BY <3>2, <3>4 DEF S, H
  <2> QED BY <2>3, <2>4, <2>5
<1> QED BY <1>1, Invariance, PTL

----
(***************************************************************************)
(* The refinement of Stack.  A push takes effect with its CAS on a, a pop  *)
(* with its CAS on a or when it reads that a is empty; all other steps     *)
(* leave the contents and the tasks as they are.                           *)
(***************************************************************************)
Tasks == [t \in Threads |-> Task(t)]
Emptied(t) == pc[t] \in {"counter", "read"} /\ old[t].node = Null

LEMMA TaskFacts ==
  ASSUME NEW t \in Threads
  PROVE  /\ Tasks[t] = Task(t)
         /\ op[t] # "pop" => Task(t) = [at |-> op[t], value |-> arg[t]]
         /\ op[t] = "pop" /\ (Holds(t) \/ Emptied(t)) => Task(t) = [at |-> "popped", value |-> arg[t]]
         /\ op[t] = "pop" /\ ~Holds(t) /\ ~Emptied(t) => Task(t) = [at |-> "pop", value |-> arg[t]]
BY DEF Tasks, Task, Holds, Emptied

LEMMA ContentsFacts ==
  ASSUME IInv
  PROVE  /\ Contents \in Seq(Values \cup {Empty})
         /\ Len(Contents) = Len(Chain("a"))
         /\ \A i \in 1 .. Len(Chain("a")) : Contents[i] = value[Chain("a")[i]]
         /\ Contents = <<>> <=> head["a"].node = Null
<1>1. /\ Chain("a") \in Seq(Nodes) /\ Len(Chain("a")) \in Nat
      /\ DOMAIN Chain("a") = 1 .. Len(Chain("a"))
      /\ head["a"].node = Null <=> Chain("a") = <<>>
      /\ \A i \in 1 .. Len(Chain("a")) : Chain("a")[i] \in Nodes
  BY ChainFacts DEF Sides
<1> DEFINE c == Chain("a")
           d == Contents
<1>2. d = [i \in 1 .. Len(c) |-> value[c[i]]]
  BY <1>1 DEF Contents
<1>3. value \in [Nodes -> Values \cup {Empty}]
  BY DEF IInv, TypeInv
<1> HIDE DEF c, d
<1>4. \A i \in 1 .. Len(c) : value[c[i]] \in Values \cup {Empty}
  BY <1>1, <1>3 DEF c
<1>5. d \in [1 .. Len(c) -> Values \cup {Empty}]
  BY <1>2, <1>4
<1>6. /\ d \in Seq(Values \cup {Empty}) /\ Len(d) = Len(c)
      /\ \A i \in 1 .. Len(c) : d[i] = value[c[i]]
  BY <1>1, <1>2, <1>5 DEF c
<1>7. d = <<>> <=> Len(d) = 0
  BY <1>6
<1>8. c = <<>> <=> Len(c) = 0
  BY <1>1 DEF c
<1> QED BY <1>1, <1>6, <1>7, <1>8 DEF c, d

LEMMA ContentsFactsNext ==
  IInv' => (/\ Contents \in Seq(Values \cup {Empty})
            /\ Len(Contents) = Len(Chain("a"))
            /\ \A i \in 1 .. Len(Chain("a")) : Contents[i] = value[Chain("a")[i]]
            /\ Contents = <<>> <=> head["a"].node = Null)'
<1>1. IInv => /\ Contents \in Seq(Values \cup {Empty})
              /\ Len(Contents) = Len(Chain("a"))
              /\ \A i \in 1 .. Len(Chain("a")) : Contents[i] = value[Chain("a")[i]]
              /\ Contents = <<>> <=> head["a"].node = Null
  BY ContentsFacts
<1> QED BY <1>1, PTL

LEMMA SameContents ==
  ASSUME IInv, Chain("a")' = Chain("a"), \A n \in Linked("a") : value'[n] = value[n]
  PROVE  Contents' = Contents
<1>1. \A i \in DOMAIN Chain("a") : value'[Chain("a")[i]] = value[Chain("a")[i]]
  BY DEF Linked
<1> QED BY <1>1 DEF Contents

LEMMA OtherTasks ==
  ASSUME NEW t \in Threads, Others(t), NEW u \in Threads \ {t}
  PROVE  Tasks'[u] = Tasks[u]
<1>1. Task(u)' = Task(u)
  BY DEF Others, Task
<1> QED BY <1>1 DEF Tasks

(* A step that the stack does not see.                                     *)
LEMMA UnseenStep ==
  ASSUME IInv, NEW t \in Threads, Others(t), Task(t)' = Task(t),
         Chain("a")' = Chain("a"), \A n \in Linked("a") : value'[n] = value[n]
  PROVE  UNCHANGED <<Contents, Tasks>>
<1>1. \A u \in Threads : Task(u)' = Task(u)
  <2>1. \A u \in Threads \ {t} : Task(u)' = Task(u)
    BY DEF Others, Task
  <2> QED BY <2>1
<1> QED BY <1>1, SameContents DEF Tasks

(* A step of the stack by thread t.                                        *)
LEMMA SeenStep ==
  ASSUME NEW t \in Threads, Others(t), NEW from, NEW to, NEW v, NEW values,
         Tasks[t].at = from, Tasks'[t] = [at |-> to, value |-> v], v \in values
  PROVE  Abstract!Goes(t, from, to, values)
<1>1. Tasks'[t] \in [at : {to}, value : values]
  OBVIOUS
<1>2. \A u \in Threads \ {t} : Tasks'[u] = Tasks[u]
  BY OtherTasks
<1> QED BY <1>1, <1>2 DEF Abstract!Goes, Tasks

LEMMA InitRefines == Init => Abstract!Init
<1> SUFFICES ASSUME Init PROVE Abstract!Init
  OBVIOUS
<1>1. IInv
  BY InitOK
<1>2. \A t \in Threads : op[t] = "idle" /\ arg[t] = Empty
  BY DEF Init
<1>3. Tasks = [t \in Threads |-> Abstract!Idle]
  BY <1>2 DEF Tasks, Task, Abstract!Idle
<1>4. \A n \in allocated : value[n] \in Values
  <2>1. \A n \in 1 .. Initial : n \in Nodes /\ n <= Initial /\ 1 - n \in Values
    BY Bounds DEF Nodes, Values
  <2> QED BY <2>1 DEF Init, Pushed
<1>5. /\ Contents \in Seq(Values \cup {Empty}) /\ Len(Contents) \in Nat
      /\ DOMAIN Contents = 1 .. Len(Contents)
      /\ \A i \in 1 .. Len(Contents) : Contents[i] = value[Chain("a")[i]]
                                     /\ Chain("a")[i] \in Linked("a")
  <2>1. DOMAIN Chain("a") = 1 .. Len(Chain("a")) /\ Len(Chain("a")) \in Nat
    BY <1>1, ChainFacts DEF Sides
  <2>2. \A i \in 1 .. Len(Chain("a")) : Chain("a")[i] \in Linked("a")
    BY <2>1 DEF Linked
  <2> QED BY <1>1, <2>1, <2>2, ContentsFacts
<1>6. \A i \in 1 .. Len(Contents) : Contents[i] \in Values
  BY <1>1, <1>4, <1>5 DEF IInv, PlacesOK, Sides
<1>7. Contents \in Seq(Values)
  BY <1>5, <1>6
<1> QED BY <1>3, <1>7 DEF Abstract!Init, Tasks

LEMMA CallsRefine ==
  ASSUME IInv, NEW t \in Threads, Push(t) \/ Pop(t)
  PROVE  Abstract!CallPush(t) \/ Abstract!CallPop(t)
<1>1. /\ op[t] = "idle" /\ UNCHANGED <<head, value, next, pc, stage, x, old, link>>
      /\ TypeInv /\ ~Holds(t) /\ pc[t] = "head"
  BY DEF Push, Pop, Start, nodes, IInv, CallOK, Holds
<1>2. Contents' = Contents
  BY <1>1 DEF Contents, Chain
<1>3. Others(t) /\ Tasks[t].at = "idle"
  BY <1>1, TaskFacts DEF Others, Push, Pop, Start, TypeInv
<1>4. CASE Push(t)
  <2>1. op'[t] = "push" /\ arg'[t] = calls + 1 /\ calls + 1 \in Values
    BY <1>1, <1>4, Bounds DEF Push, Start, TypeInv, Values
  <2>2. Tasks'[t] = [at |-> "push", value |-> calls + 1]
    BY <2>1 DEF Tasks, Task
  <2> QED BY <1>2, <1>3, <2>1, <2>2, SeenStep DEF Abstract!CallPush
<1>5. CASE Pop(t)
  <2>1. op'[t] = "pop" /\ arg'[t] = Empty
    BY <1>1, <1>5 DEF Pop, Start, TypeInv
  <2>2. Tasks'[t] = [at |-> "pop", value |-> Empty]
    BY <1>1, <2>1 DEF Tasks, Task, Holds
  <2> QED BY <1>2, <1>3, <2>1, <2>2, SeenStep DEF Abstract!CallPop
<1> QED BY <1>4, <1>5

(* To read that a is empty is the moment of a pop that finds nothing.      *)
LEMMA ReadNodeRefines ==
  ASSUME IInv, NEW t \in Threads, ReadNode(t)
  PROVE  Abstract!PopNothing(t) \/ UNCHANGED <<Contents, Tasks>>
<1>1. /\ TypeInv /\ CallOK(t)
      /\ op[t] # "idle" /\ pc[t] = "head"
      /\ UNCHANGED <<head, value, next, op, stage, x, arg, link>>
      /\ pc' = [pc EXCEPT ![t] = "counter"]
      /\ old' = [old EXCEPT ![t].node = head[Side(t)].node]
  BY DEF IInv, ReadNode, At, Goes, nodes
<1>2. Others(t) /\ ~Emptied(t)
  BY <1>1 DEF Others, TypeInv, Emptied
<1>3. /\ op'[t] = op[t] /\ arg'[t] = arg[t] /\ Holds(t)' = Holds(t) /\ pc'[t] = "counter"
      /\ old'[t].node = head[Side(t)].node
  BY <1>1 DEF TypeInv, Holds
<1>4. Chain("a")' = Chain("a") /\ value' = value /\ Contents' = Contents
  BY <1>1 DEF Chain, Contents
<1>5. CASE op[t] = "pop" /\ ~Holds(t) /\ head["a"].node = Null
  <2>1. Side(t) = "a" /\ arg[t] = Empty
    BY <1>1, <1>5, SideFacts DEF CallOK
  <2>2. Emptied(t)'
    BY <1>3, <1>5, <2>1 DEF Emptied
  <2>3. Tasks[t] = [at |-> "pop", value |-> Empty]
    BY <1>2, <1>5, <2>1, TaskFacts
  <2>4. Tasks'[t] = [at |-> "popped", value |-> Empty]
    BY <1>3, <1>5, <2>1, <2>2 DEF Tasks, Task, Emptied
  <2>5. Contents = <<>>
    BY <1>5, ContentsFacts
  <2>6. Abstract!Goes(t, "pop", "popped", {Empty})
    BY <1>2, <2>3, <2>4, SeenStep
  <2> QED BY <1>4, <2>5, <2>6 DEF Abstract!PopNothing
<1>6. CASE ~(op[t] = "pop" /\ ~Holds(t) /\ head["a"].node = Null)
  <2>1. Task(t)' = Task(t)
    <3>1. CASE op[t] = "pop" /\ ~Holds(t)
      <4>1. Side(t) = "a"
        BY <1>1, <3>1, SideFacts
      <4>2. old'[t].node # Null
        BY <1>3, <1>6, <3>1, <4>1
      <4> QED BY <1>2, <1>3, <3>1, <4>2 DEF Task, Holds, Emptied
    <3>2. CASE ~(op[t] = "pop" /\ ~Holds(t))
      BY <1>3, <3>2 DEF Task, Holds
    <3> QED BY <3>1, <3>2
  <2> QED BY <1>2, <1>4, <2>1, UnseenStep
<1> QED BY <1>5, <1>6

LEMMA UnseenRefines ==
  ASSUME IInv, NEW t \in Threads,
         ReadCounter(t) \/ TakeNext(t) \/ GiveLink(t) \/ Retry(t)
  PROVE  UNCHANGED <<Contents, Tasks>>
<1>1. TypeInv
  BY DEF IInv
<1>2. Others(t) /\ Chain("a")' = Chain("a") /\ value' = value
  <2>1. CASE ReadCounter(t) \/ TakeNext(t) \/ Retry(t)
    BY <1>1, <2>1 DEF ReadCounter, TakeNext, Retry, Forget, Goes, nodes, Chain, Others, TypeInv
  <2>2. CASE GiveLink(t)
    <3>1. /\ next' = [next EXCEPT ![x[t]] = old[t].node] /\ head' = head /\ value' = value
          /\ Holds(t)
      BY <2>2 DEF GiveLink, Holds
    <3>2. x[t] \in Nodes /\ \A s \in Sides : x[t] \notin Linked(s)
      BY <1>1, <3>1 DEF IInv, PlacesOK, TypeInv
    <3>3. \A s \in Sides : \A n \in Linked(s) : next'[n] = next[n]
      BY <1>1, <3>1, <3>2, ChainFacts DEF TypeInv
    <3>4. Chain("a")' = Chain("a")
      BY <3>1, <3>3, SameChains DEF Sides
    <3>5. Others(t)
      BY <1>1, <2>2 DEF GiveLink, Goes, Others, TypeInv
    <3> QED BY <3>1, <3>4, <3>5
  <2> QED BY <2>1, <2>2
<1>3. Task(t)' = Task(t)
  <2>1. op'[t] = op[t] /\ arg'[t] = arg[t] /\ stage'[t] = stage[t]
    BY DEF ReadCounter, TakeNext, GiveLink, Retry
  <2>2. CASE Holds(t)
    BY <2>1, <2>2 DEF Task, Holds
  <2>3. CASE ~Holds(t)
    <3>1. Emptied(t)' <=> Emptied(t)
      <4>1. CASE ReadCounter(t)
        <5>1. pc[t] = "counter" /\ pc'[t] = "read" /\ old'[t].node = old[t].node
          BY <1>1, <4>1 DEF ReadCounter, At, Goes, TypeInv
        <5> QED BY <5>1 DEF Emptied
      <4>2. CASE TakeNext(t)
        <5>1. old[t].node # Null /\ old' = old
          BY <1>1, <4>2 DEF TakeNext, At, Goes, TypeInv
        <5> QED BY <5>1 DEF Emptied
      <4>3. CASE Retry(t)
        <5>1. pc[t] = "swing" /\ pc'[t] = "head"
          BY <1>1, <4>3 DEF Retry, Forget, At, Goes, TypeInv
        <5> QED BY <5>1 DEF Emptied
      <4>4. CASE GiveLink(t)
        BY <2>3, <4>4 DEF GiveLink, Holds
      <4> QED BY <4>1, <4>2, <4>3, <4>4
    <3> QED BY <2>1, <2>3, <3>1 DEF Task, Holds, Emptied
  <2> QED BY <2>2, <2>3
<1> QED BY <1>2, <1>3, UnseenStep

(* A call that ends: its task is idle and its argument gone.               *)
LEMMA ReturnFacts ==
  ASSUME IInv, NEW t \in Threads, Return(t)
  PROVE  /\ Others(t)
         /\ Tasks'[t] = [at |-> "idle", value |-> Empty]
<1>1. /\ op' = [op EXCEPT ![t] = "idle"] /\ arg' = [arg EXCEPT ![t] = Empty]
      /\ stage' = [stage EXCEPT ![t] = "take"] /\ x' = [x EXCEPT ![t] = Null]
      /\ pc' = [pc EXCEPT ![t] = "head"] /\ link' = [link EXCEPT ![t] = Null]
      /\ old' = [old EXCEPT ![t] = NoHead]
  BY DEF Return, Forget, Goes
<1>2. Others(t) /\ op'[t] = "idle" /\ arg'[t] = Empty
  BY <1>1 DEF Others, IInv, TypeInv
<1>3. Task(t)' = [at |-> "idle", value |-> Empty]
  BY <1>2 DEF Task
<1> QED BY <1>2, <1>3 DEF Tasks

(* A push that takes a node changes a value that is not on a.              *)
LEMMA TookRefines ==
  ASSUME IInv, NEW t \in Threads, op[t] = "push", NEW n \in Nodes, Took(t, n),
         n \notin Linked("a"), Chain("a")' = Chain("a")
  PROVE  UNCHANGED <<Contents, Tasks>>
<1>1. /\ TypeInv /\ op' = op /\ arg' = arg /\ value' = [value EXCEPT ![n] = arg[t]]
  BY DEF IInv, Took
<1>2. Others(t)
  BY <1>1 DEF Others, Took, Forget, Goes, TypeInv
<1>3. Task(t)' = Task(t)
  BY <1>1 DEF Task
<1>4. \A m \in Linked("a") : value'[m] = value[m]
  BY <1>1, ChainFacts DEF TypeInv, Sides
<1> QED BY <1>2, <1>3, <1>4, UnseenStep

LEMMA TakeNothingRefines ==
  ASSUME IInv, NEW t \in Threads, TakeNothing(t)
  PROVE  Abstract!Return(t) \/ UNCHANGED <<Contents, Tasks>>
<1>1. /\ TypeInv /\ PlacesOK
      /\ head' = head /\ pc[t] = "read" /\ old[t].node = Null
  BY DEF IInv, TakeNothing, At
<1>2. CASE op[t] = "pop" /\ Return(t) /\ UNCHANGED nodes
  <2>1. Tasks[t].at = "popped"
    BY <1>1, <1>2, TaskFacts DEF Emptied
  <2>2. Contents' = Contents
    BY <1>1, <1>2 DEF nodes, Contents, Chain
  <2>3. Abstract!Goes(t, "popped", "idle", {Empty})
    BY <1>2, <2>1, ReturnFacts, SeenStep
  <2> QED BY <2>2, <2>3 DEF Abstract!Return
<1>3. CASE op[t] = "push" /\ allocated # Nodes /\ Took(t, malloc) /\ UNCHANGED <<next, length>>
  <2>1. malloc \in Nodes /\ malloc \notin allocated
    BY <1>1, <1>3 DEF malloc, TypeInv
  <2>2. malloc \notin Linked("a")
    BY <1>1, <2>1 DEF PlacesOK, Sides
  <2>3. Chain("a")' = Chain("a")
    BY <1>1, <1>3 DEF Chain
  <2> QED BY <1>3, <2>1, <2>2, <2>3, TookRefines
<1> QED BY <1>2, <1>3 DEF TakeNothing

(* A pop takes effect when it swings the head of a to the second value.    *)
LEMMA TakeSwingRefines ==
  ASSUME IInv, NEW t \in Threads, TakeSwing(t)
  PROVE  Abstract!Pop(t) \/ UNCHANGED <<Contents, Tasks>>
<1>1. /\ TypeInv /\ PlacesOK /\ CallOK(t) /\ CopyOK(t)
      /\ op[t] # "idle" /\ pc[t] = "swing" /\ ~Holds(t)
      /\ Took(t, old[t].node)
  BY DEF IInv, TakeSwing, At, Holds
<1>2. old[t].node \in Nodes
  BY <1>1 DEF CopyOK, TypeInv, Ref
<1>3. CASE op[t] = "push"
  <2>1. Side(t) = "b" /\ "a" \in Sides /\ "b" \in Sides
    BY <1>1, <1>3, SideFacts DEF Sides
  <2>2. /\ Chain("a")' = Chain("a")
        /\ Chain("b") # <<>> /\ old[t].node = Chain("b")[1]
    BY <2>1, TakeSwingOK
  <2>3. old[t].node \in Linked("b")
    BY <2>1, <2>2, ChainFacts
  <2>4. old[t].node \notin Linked("a")
    BY <1>1, <2>3 DEF PlacesOK
  <2> QED BY <1>1, <1>2, <1>3, <2>2, <2>4, TookRefines
<1>4. CASE op[t] = "pop"
  <2>1. Side(t) = "a" /\ "a" \in Sides
    BY <1>1, <1>4, SideFacts DEF Sides
  <2>2. /\ Chain("a")' = Tail(Chain("a")) /\ IInv'
        /\ Chain("a") # <<>> /\ old[t].node = Chain("a")[1]
    BY <2>1, TakeSwingOK
  <2>3. /\ op' = op /\ value' = value /\ stage' = [stage EXCEPT ![t] = "give"]
        /\ arg' = [arg EXCEPT ![t] = value[old[t].node]]
    BY <1>1, <1>4 DEF Took
  <2>4. Others(t)
    BY <1>1, <1>4 DEF Others, Took, Forget, Goes, TypeInv
  <2>5. Tasks[t].at = "pop"
    BY <1>1, <1>4, TaskFacts DEF Emptied
  <2>6. op'[t] = "pop" /\ stage'[t] = "give" /\ arg'[t] = value[Chain("a")[1]]
    BY <1>1, <1>4, <2>2, <2>3 DEF TypeInv
  <2>7. Tasks'[t] = [at |-> "popped", value |-> value[Chain("a")[1]]]
    BY <2>6 DEF Tasks, Task
  <2>8. /\ Chain("a") \in Seq(Nodes) /\ Len(Chain("a")) \in Nat
        /\ DOMAIN Chain("a") = 1 .. Len(Chain("a")) /\ 1 \in 1 .. Len(Chain("a"))
    BY <2>1, <2>2, ChainFacts
  <2> DEFINE c == Chain("a")
             d == Contents
             e == Contents'
  <2>9. /\ d \in Seq(Values \cup {Empty}) /\ Len(d) = Len(c)
        /\ \A i \in 1 .. Len(c) : d[i] = value[c[i]]
    BY ContentsFacts
  <2>10. /\ e \in Seq(Values \cup {Empty}) /\ Len(e) = Len(Tail(c))
         /\ \A i \in 1 .. Len(Tail(c)) : e[i] = value[Tail(c)[i]]
    BY <2>2, <2>3, ContentsFactsNext
  <2> HIDE DEF c, d, e
  <2>11. Len(Tail(c)) = Len(c) - 1 /\ \A i \in 1 .. Len(c) - 1 : Tail(c)[i] = c[i + 1]
    BY <2>8 DEF c
  <2>12. \A i \in 1 .. Len(c) - 1 : i + 1 \in 1 .. Len(c)
    BY <2>8 DEF c
  <2>13. d # <<>> /\ Head(d) = value[c[1]]
    BY <2>8, <2>9 DEF c
  <2>14. /\ Tail(d) \in Seq(Values \cup {Empty}) /\ Len(Tail(d)) = Len(c) - 1
         /\ \A i \in 1 .. Len(c) - 1 : Tail(d)[i] = d[i + 1]
    BY <2>9, <2>13
  <2>15. \A i \in 1 .. Len(c) - 1 : e[i] = Tail(d)[i]
    BY <2>9, <2>10, <2>11, <2>12, <2>14
  <2>16. e = Tail(d)
    BY <2>10, <2>11, <2>14, <2>15
  <2>17. Contents # <<>> /\ Contents' = Tail(Contents) /\ Head(Contents) = value[Chain("a")[1]]
    BY <2>13, <2>16 DEF c, d, e
  <2>18. Abstract!Goes(t, "pop", "popped", {Head(Contents)})
    BY <2>4, <2>5, <2>7, <2>17, SeenStep
  <2> QED BY <2>17, <2>18 DEF Abstract!Pop
<1> QED BY <1>1, <1>3, <1>4 DEF TypeInv

(* A push takes effect when it swings the head of a to its node.           *)
LEMMA GiveSwingRefines ==
  ASSUME IInv, NEW t \in Threads, GiveSwing(t)
  PROVE  Abstract!Push(t) \/ Abstract!Return(t)
<1>1. /\ TypeInv /\ CallOK(t)
      /\ op[t] # "idle" /\ Holds(t) /\ Return(t) /\ value' = value
  BY DEF IInv, GiveSwing, At, Holds, nodes
<1>2. CASE op[t] = "pop"
  <2>1. Side(t) = "b" /\ "a" \in Sides /\ "b" \in Sides
    BY <1>1, <1>2, SideFacts DEF Sides
  <2>2. Chain("a")' = Chain("a")
    BY <2>1, GiveSwingOK
  <2>3. Contents' = Contents
    BY <1>1, <2>2, SameContents
  <2>4. Tasks[t].at = "popped"
    BY <1>1, <1>2, TaskFacts
  <2>5. Abstract!Goes(t, "popped", "idle", {Empty})
    BY <1>1, <2>4, ReturnFacts, SeenStep
  <2> QED BY <2>3, <2>5 DEF Abstract!Return
<1>3. CASE op[t] = "push"
  <2>1. Side(t) = "a" /\ "a" \in Sides
    BY <1>1, <1>3, SideFacts DEF Sides
  <2>2. Chain("a")' = <<x[t]>> \o Chain("a") /\ IInv'
    BY <2>1, GiveSwingOK
  <2>3. Tasks[t] = [at |-> "push", value |-> arg[t]] /\ value[x[t]] = arg[t]
        /\ arg[t] \in Values \cup {Empty} /\ x[t] \in Nodes
    BY <1>1, <1>3, TaskFacts DEF CallOK, IInv, PlacesOK, TypeInv
  <2>4. Abstract!Goes(t, "push", "idle", {Empty})
    BY <1>1, <2>3, ReturnFacts, SeenStep
  <2>5. /\ Chain("a") \in Seq(Nodes) /\ Len(Chain("a")) \in Nat
        /\ DOMAIN Chain("a") = 1 .. Len(Chain("a"))
    BY <2>1, ChainFacts
  <2> DEFINE c == Chain("a")
             d == Contents
             e == Contents'
             f == <<x[t]>> \o c
             g == <<arg[t]>> \o d
  <2>6. /\ d \in Seq(Values \cup {Empty}) /\ Len(d) = Len(c)
        /\ \A i \in 1 .. Len(c) : d[i] = value[c[i]]
    BY ContentsFacts
  <2>7. /\ e \in Seq(Values \cup {Empty}) /\ Len(e) = Len(f)
        /\ \A i \in 1 .. Len(f) : e[i] = value[f[i]]
    BY <1>1, <2>2, ContentsFactsNext
  <2> HIDE DEF c, d, e
  <2>8. /\ Len(f) = Len(c) + 1 /\ f[1] = x[t]
        /\ \A i \in 1 .. Len(c) : f[i + 1] = c[i]
    BY <2>3, <2>5 DEF c
  <2>9. /\ g \in Seq(Values \cup {Empty}) /\ Len(g) = Len(c) + 1 /\ g[1] = arg[t]
        /\ \A i \in 1 .. Len(c) : g[i + 1] = d[i]
    BY <2>3, <2>6
  <2> HIDE DEF f, g
  <2>10. ASSUME NEW i \in 1 .. Len(c) + 1 PROVE e[i] = g[i]
    <3>1. CASE i = 1
      BY <2>3, <2>7, <2>8, <2>9, <3>1
    <3>2. CASE i # 1
      <4>1. i - 1 \in 1 .. Len(c) /\ (i - 1) + 1 = i
        BY <2>5, <3>2 DEF c
      <4>2. e[i] = value[c[i - 1]] /\ g[i] = d[i - 1]
        BY <2>7, <2>8, <2>9, <4>1
      <4> QED BY <2>6, <4>1, <4>2
    <3> QED BY <3>1, <3>2
  <2>11. e = g
    BY <2>7, <2>8, <2>9, <2>10
  <2>12. Contents' = <<Tasks[t].value>> \o Contents
    BY <2>3, <2>11 DEF d, e, g
  <2> QED BY <2>4, <2>12 DEF Abstract!Push, Tasks
<1> QED BY <1>1, <1>2, <1>3 DEF TypeInv

LEMMA ClearRefines ==
  ASSUME IInv, clear
  PROVE  Abstract!Clear
<1>1. \A t \in Threads : op[t] = "idle" /\ arg[t] = Empty
  BY DEF clear, Quiet, IInv, CallOK
<1>2. UNCHANGED <<op, pc, stage, x, arg, old, link>>
  BY DEF clear
<1>3. Tasks' = Tasks
  BY <1>2 DEF Tasks, Task
<1>4. \A t \in Threads : Tasks[t] = Abstract!Idle
  BY <1>1, TaskFacts DEF Abstract!Idle
<1>5. IInv' /\ Chain("a")' = <<>>
  BY ClearOK DEF Sides
<1>6. Contents' = <<>>
  BY <1>5 DEF Contents
<1> QED BY <1>3, <1>4, <1>6 DEF Abstract!Clear, Tasks

LEMMA StepRefines ==
  IInv /\ [Next]_vars => [Abstract!Next]_(Abstract!vars)
<1> SUFFICES ASSUME IInv, [Next]_vars PROVE [Abstract!Next]_(Abstract!vars)
  OBVIOUS
<1>1. CASE clear
  BY <1>1, ClearRefines DEF Abstract!Next
<1>2. CASE Stop \/ UNCHANGED vars
  <2>1. UNCHANGED <<Contents, Tasks>>
    BY <1>2 DEF Stop, vars, nodes, Contents, Chain, Tasks, Task
  <2> QED BY <2>1 DEF Abstract!vars, Tasks
<1>3. ASSUME NEW t \in Threads, Step(t) PROVE [Abstract!Next]_(Abstract!vars)
  <2>1. CASE Push(t) \/ Pop(t)
    BY <2>1, CallsRefine DEF Abstract!Next
  <2>2. CASE ReadNode(t)
    BY <2>2, ReadNodeRefines DEF Abstract!Next, Abstract!vars, Tasks
  <2>3. CASE ReadCounter(t) \/ TakeNext(t) \/ GiveLink(t) \/ Retry(t)
    BY <2>3, UnseenRefines DEF Abstract!vars, Tasks
  <2>4. CASE TakeNothing(t)
    BY <2>4, TakeNothingRefines DEF Abstract!Next, Abstract!vars, Tasks
  <2>5. CASE TakeSwing(t)
    BY <2>5, TakeSwingRefines DEF Abstract!Next, Abstract!vars, Tasks
  <2>6. CASE GiveSwing(t)
    BY <2>6, GiveSwingRefines DEF Abstract!Next
  <2> QED BY <1>3, <2>1, <2>2, <2>3, <2>4, <2>5, <2>6 DEF Step
<1> QED BY <1>1, <1>2, <1>3 DEF Next

(* The concurrent stack is a stack: for every number of threads and nodes, *)
(* each push and pop takes effect at one moment of its call.               *)
THEOREM Refinement == Spec => Implements
<1>1. Init => Abstract!Init
  BY InitRefines
<1>2. IInv /\ [Next]_vars => [Abstract!Next]_(Abstract!vars)
  BY StepRefines
<1> QED BY <1>1, <1>2, Invariance, PTL DEF Spec, Implements, Abstract!Spec

----
(***************************************************************************)
(* The bounds of TypeOK.  A head counts each call once and each pop that   *)
(* clear makes.  A length that was read from a node on its way elsewhere   *)
(* may be wrong, but never more than there are nodes: a thread that reads  *)
(* from a node another thread has taken has had its own node for longer.   *)
(***************************************************************************)

(* The calls that have yet to swing the head of s.                         *)
Before(s) == {t \in Threads : op[t] # "idle" /\ (Holds(t) => Side(t) = s)}

CountsBounded ==
  /\ \A s \in Sides :
       head[s].counter + Len(Chain(s)) + 2 * Cardinality(Before(s)) <= 2 * (Initial + calls)
  /\ \A t \in Threads : old[t].counter <= 2 * (Initial + calls)

(* The threads that hold a node, the one that has had it longest first.    *)
InOrder(q) ==
  /\ \A i, j \in DOMAIN q : q[i] = q[j] => i = j
  /\ \A t \in Threads : Holds(t) <=> \E i \in DOMAIN q : q[i] = t
  /\ \A i \in DOMAIN q : length[x[q[i]]] <= MaxNodes - i + 1
  /\ \A i, j \in DOMAIN q :
       pc[q[i]] \in {"counter", "read"} /\ old[q[i]].node = x[q[j]] => i < j

LengthsBounded ==
  /\ \A n \in Nodes : length[n] <= MaxNodes
  /\ \A n \in Nodes \ allocated : length[n] = 0
  /\ \A t \in Threads : pc[t] \in {"counter", "read"} => old[t].node \in allocated \cup {Null}
  /\ \E q \in Seq(Threads) : InOrder(q)

LEMMA BeforeFinite ==
  ASSUME NEW s
  PROVE  IsFiniteSet(Before(s)) /\ Cardinality(Before(s)) \in Nat
<1>1. Before(s) \in SUBSET Threads
  BY DEF Before
<1> QED BY <1>1, FiniteThreads, FS_Subset, FS_CardinalityType

(* A part of a finite set, and a part that lacks an element.               *)
LEMMA FewerBefore ==
  ASSUME NEW S, NEW T, IsFiniteSet(S), T \subseteq S
  PROVE  /\ Cardinality(T) \in Nat /\ Cardinality(S) \in Nat
         /\ Cardinality(T) <= Cardinality(S)
         /\ \A t \in S \ T : Cardinality(T) + 1 <= Cardinality(S)
<1>1. /\ IsFiniteSet(T) /\ Cardinality(T) \in Nat /\ Cardinality(S) \in Nat
      /\ Cardinality(T) <= Cardinality(S)
  BY FS_Subset, FS_CardinalityType
<1>2. ASSUME NEW t \in S \ T PROVE Cardinality(T) + 1 <= Cardinality(S)
  <2>1. T \in SUBSET (S \ {t}) /\ IsFiniteSet(S \ {t})
    BY <1>2, FS_RemoveElement
  <2>2. Cardinality(S \ {t}) = Cardinality(S) - 1
    BY <1>2, FS_RemoveElement
  <2>3. Cardinality(T) <= Cardinality(S \ {t})
    BY <2>1, FS_Subset
  <2> QED BY <1>1, <2>2, <2>3
<1> QED BY <1>1, <1>2

(* The bound of one side after a step that swings no head and begins no    *)
(* call.                                                                   *)
LEMMA CountsKept ==
  ASSUME IInv, CountsBounded, UNCHANGED <<head, calls>>,
         \A s \in Sides : Chain(s)' = Chain(s) /\ Before(s)' \subseteq Before(s),
         \A t \in Threads : \/ old'[t].counter = old[t].counter
                            \/ old'[t].counter = 0
                            \/ \E s \in Sides : old'[t].counter = head[s].counter
  PROVE  CountsBounded'
<1>1. /\ \A s \in Sides : head[s].counter \in Nat /\ Len(Chain(s)) \in Nat
      /\ calls \in Nat /\ Initial \in Nat
  BY ChainFacts, Bounds DEF IInv, TypeInv
<1>2. ASSUME NEW s \in Sides
      PROVE  /\ Cardinality(Before(s)') \in Nat /\ Cardinality(Before(s)) \in Nat
             /\ Cardinality(Before(s)') <= Cardinality(Before(s))
  <2>1. IsFiniteSet(Before(s)) /\ Before(s)' \subseteq Before(s)
    BY BeforeFinite
  <2> QED BY <2>1, FewerBefore
<1>3. ASSUME NEW s \in Sides
      PROVE  /\ head[s].counter + Len(Chain(s)) + 2 * Cardinality(Before(s)') <= 2 * (Initial + calls)
             /\ head[s].counter <= 2 * (Initial + calls)
  <2>1. head[s].counter + Len(Chain(s)) + 2 * Cardinality(Before(s)) <= 2 * (Initial + calls)
    BY DEF CountsBounded
  <2> QED BY <1>1, <1>2, <2>1, SMTT(60)
<1>4. \A t \in Threads : old'[t].counter <= 2 * (Initial + calls)
  BY <1>1, <1>3 DEF CountsBounded
<1> QED BY <1>3, <1>4 DEF CountsBounded

LEMMA StartCounts ==
  ASSUME IInv, CountsBounded, NEW t \in Threads, NEW o, NEW v, Start(t, o, v)
  PROVE  CountsBounded'
<1>1. /\ UNCHANGED <<head, next, stage, old>> /\ calls' = calls + 1
      /\ op' = [op EXCEPT ![t] = o]
      /\ op \in [Threads -> {"idle", "push", "pop"}] /\ calls \in Nat /\ Initial \in Nat
  BY Bounds DEF Start, IInv, TypeInv, nodes
<1>2. ASSUME NEW s \in Sides
      PROVE  head'[s].counter + Len(Chain(s)') + 2 * Cardinality(Before(s)') <= 2 * (Initial + calls')
  <2>1. Chain(s)' = Chain(s)
    BY <1>1 DEF Chain
  <2>2. \A u \in Threads \ {t} : u \in Before(s)' <=> u \in Before(s)
    BY <1>1 DEF Before, Holds, Side
  <2>3. Before(s)' \subseteq Before(s) \cup {t}
    BY <2>2 DEF Before
  <2>4. /\ IsFiniteSet(Before(s) \cup {t}) /\ Cardinality(Before(s)) \in Nat
        /\ Cardinality(Before(s) \cup {t}) <= Cardinality(Before(s)) + 1
        /\ Cardinality(Before(s) \cup {t}) \in Nat
    <3>1. IsFiniteSet(Before(s)) /\ Cardinality(Before(s)) \in Nat
      BY BeforeFinite
    <3>2. /\ IsFiniteSet(Before(s) \cup {t})
          /\ Cardinality(Before(s) \cup {t}) =
               IF t \in Before(s) THEN Cardinality(Before(s)) ELSE Cardinality(Before(s)) + 1
      BY <3>1, FS_AddElement
    <3> QED BY <3>1, <3>2
  <2>5. Cardinality(Before(s)') \in Nat /\ Cardinality(Before(s)') <= Cardinality(Before(s)) + 1
    BY <2>3, <2>4, FewerBefore
  <2>6. head[s].counter \in Nat /\ Len(Chain(s)) \in Nat
    BY ChainFacts DEF IInv, TypeInv
  <2>7. head[s].counter + Len(Chain(s)) + 2 * Cardinality(Before(s)) <= 2 * (Initial + calls)
    BY DEF CountsBounded
  <2>8. /\ head'[s].counter = head[s].counter /\ calls' = calls + 1
        /\ calls \in Nat /\ Initial \in Nat
    BY <1>1
  <2>9. Cardinality(Before(s)) \in Nat
    BY <2>4
  <2>10. head[s].counter + Len(Chain(s)) + 2 * Cardinality(Before(s)') <= 2 * (Initial + (calls + 1))
    BY <2>5, <2>6, <2>7, <2>8, <2>9, SMTT(60)
  <2> QED BY <2>1, <2>8, <2>10
<1>3. ASSUME NEW u \in Threads PROVE old'[u].counter <= 2 * (Initial + calls')
  <2>1. old[u].counter \in Nat /\ old[u].counter <= 2 * (Initial + calls)
    BY DEF CountsBounded, IInv, TypeInv
  <2> QED BY <1>1, <2>1
<1> QED BY <1>2, <1>3 DEF CountsBounded

LEMMA LocalCounts ==
  ASSUME IInv, CountsBounded, NEW t \in Threads,
         ReadNode(t) \/ ReadCounter(t) \/ TakeNext(t) \/ GiveLink(t) \/ Retry(t)
           \/ TakeNothing(t)
  PROVE  CountsBounded'
<1>1. TypeInv /\ UNCHANGED <<head, calls>>
  BY DEF IInv, ReadNode, ReadCounter, TakeNext, GiveLink, Retry, TakeNothing
<1>2. \A s \in Sides : Chain(s)' = Chain(s)
  <2>1. CASE GiveLink(t)
    <3>1. /\ next' = [next EXCEPT ![x[t]] = old[t].node] /\ Holds(t)
      BY <2>1 DEF GiveLink, Holds
    <3>2. x[t] \in Nodes /\ \A s \in Sides : x[t] \notin Linked(s)
      BY <1>1, <3>1 DEF IInv, PlacesOK, TypeInv
    <3>3. \A s \in Sides : \A n \in Linked(s) : next'[n] = next[n]
      BY <1>1, <3>1, <3>2, ChainFacts DEF TypeInv
    <3> QED BY <1>1, <3>3, SameChains
  <2>2. CASE ~GiveLink(t)
    BY <1>1, <2>2 DEF Chain, ReadNode, ReadCounter, TakeNext, Retry, TakeNothing, nodes
  <2> QED BY <2>1, <2>2
<1>3. ASSUME NEW s \in Sides PROVE Before(s)' \subseteq Before(s)
  <2>1. CASE UNCHANGED <<op, stage>>
    BY <2>1 DEF Before, Holds, Side
  <2>2. CASE TakeNothing(t)
    <3>1. /\ op[t] # "idle" /\ ~Holds(t)
          /\ \A u \in Threads \ {t} : op'[u] = op[u] /\ stage'[u] = stage[u]
      BY <1>1, <2>2 DEF TakeNothing, At, Holds, Return, Took, TypeInv
    <3> QED BY <3>1 DEF Before, Holds, Side
  <2> QED BY <2>1, <2>2 DEF ReadNode, ReadCounter, TakeNext, GiveLink, Retry
<1>4. ASSUME NEW u \in Threads
      PROVE  \/ old'[u].counter = old[u].counter
             \/ old'[u].counter = 0
             \/ \E s \in Sides : old'[u].counter = head[s].counter
  <2>1. CASE old' = [old EXCEPT ![t].node = head[Side(t)].node]
    BY <1>1, <2>1 DEF TypeInv
  <2>2. CASE old' = [old EXCEPT ![t].counter = head[Side(t)].counter]
    BY <1>1, <2>2, SideFacts DEF TypeInv
  <2>3. CASE old' = [old EXCEPT ![t] = NoHead] \/ old' = old
    BY <1>1, <2>3 DEF TypeInv, NoHead
  <2> QED BY <2>1, <2>2, <2>3
          DEF ReadNode, ReadCounter, TakeNext, GiveLink, Retry, TakeNothing, Took, Return, Forget
<1> QED BY <1>1, <1>2, <1>3, <1>4, CountsKept

(* A swing counts one.  A pop shortens its side; a push makes it longer,   *)
(* but is then done.                                                       *)
LEMMA SwingCounts ==
  ASSUME IInv, CountsBounded, NEW t \in Threads, TakeSwing(t) \/ GiveSwing(t)
  PROVE  CountsBounded'
<1>1. /\ TypeInv /\ Side(t) \in Sides /\ calls' = calls /\ next' = next
      /\ calls \in Nat /\ Initial \in Nat /\ op[t] # "idle"
  BY SideFacts, Bounds DEF IInv, TypeInv, TakeSwing, GiveSwing, nodes, At
<1>2. PICK s \in Sides : s = Side(t)
  BY <1>1
<1>3. /\ \A r \in Sides : head[r].counter \in Nat /\ Len(Chain(r)) \in Nat
      /\ \A r \in Sides : IsFiniteSet(Before(r)) /\ Cardinality(Before(r)) \in Nat
      /\ \A r \in Sides :
           head[r].counter + Len(Chain(r)) + 2 * Cardinality(Before(r)) <= 2 * (Initial + calls)
  BY ChainFacts, BeforeFinite DEF IInv, TypeInv, CountsBounded
<1>4. /\ \A u \in Threads \ {t} : op'[u] = op[u] /\ stage'[u] = stage[u]
      /\ old' = [old EXCEPT ![t] = NoHead]
  BY <1>1 DEF TakeSwing, GiveSwing, Took, Return, Forget, TypeInv
<1>5. /\ head'[s].counter = head[s].counter + 1
      /\ \A r \in Sides \ {s} : head'[r] = head[r] /\ Chain(r)' = Chain(r)
  <2>1. CASE TakeSwing(t)
    <3>1. CAS(t, link[t]) /\ link[t] \in Ref
      BY <1>1, <2>1 DEF TakeSwing, TypeInv
    <3> QED BY <1>1, <1>2, <3>1, SwingFacts
  <2>2. CASE GiveSwing(t)
    <3>1. CAS(t, x[t]) /\ x[t] \in Ref
      BY <1>1, <2>2 DEF GiveSwing, TypeInv
    <3> QED BY <1>1, <1>2, <3>1, SwingFacts
  <2> QED BY <2>1, <2>2
<1>6. \A r \in Sides : \A u \in Threads \ {t} : u \in Before(r)' <=> u \in Before(r)
  BY <1>4 DEF Before, Holds, Side
<1>7. \A r \in Sides : /\ Cardinality(Before(r)') \in Nat
                       /\ Cardinality(Before(r)') <= Cardinality(Before(r))
  <2> SUFFICES ASSUME NEW r \in Sides PROVE Before(r)' \subseteq Before(r)
    BY <1>3, FewerBefore
  <2>1. CASE TakeSwing(t)
    <3>1. t \in Before(r)
      BY <1>1, <2>1 DEF TakeSwing, Before, Holds
    <3> QED BY <1>6, <3>1 DEF Before
  <2>2. CASE GiveSwing(t)
    <3>1. t \notin Before(r)'
      BY <1>1, <2>2 DEF GiveSwing, Return, Before, TypeInv
    <3> QED BY <1>6, <3>1 DEF Before
  <2> QED BY <2>1, <2>2
<1>8. head'[s].counter + Len(Chain(s)') + 2 * Cardinality(Before(s)') <= 2 * (Initial + calls)
  <2> DEFINE n == head[s].counter
             k == Len(Chain(s))
             b == Cardinality(Before(s))
             c == Cardinality(Before(s)')
  <2>1. /\ n \in Nat /\ k \in Nat /\ b \in Nat /\ c \in Nat /\ c <= b
        /\ n + k + 2 * b <= 2 * (Initial + calls)
    BY <1>3, <1>7
  <2>2. Initial \in Nat /\ calls \in Nat /\ head'[s].counter = n + 1
    BY <1>1, <1>5
  <2>3. CASE TakeSwing(t)
    <3>1. /\ Chain(s) # <<>> /\ Chain(s)' = Tail(Chain(s)) /\ Chain(s) \in Seq(Nodes)
      BY <1>2, <2>3, TakeSwingOK, ChainFacts
    <3>2. Len(Chain(s)') = Len(Chain(s)) - 1
      BY <3>1
    <3> HIDE DEF n, k, b, c
    <3>3. (n + 1) + (k - 1) + 2 * c <= 2 * (Initial + calls)
      BY <2>1, <2>2
    <3> QED BY <2>2, <3>2, <3>3 DEF k, c
  <2>4. CASE GiveSwing(t)
    <3>1. Chain(s)' = <<x[t]>> \o Chain(s) /\ Chain(s) \in Seq(Nodes) /\ x[t] \in Ref
      BY <1>1, <1>2, <2>4, GiveSwingOK, ChainFacts DEF TypeInv
    <3>2. Len(Chain(s)') = Len(Chain(s)) + 1
      BY <3>1 DEF Ref
    <3>3. t \notin Before(s)'
      BY <1>1, <2>4 DEF GiveSwing, Return, Before, TypeInv
    <3>4. Before(s)' \subseteq Before(s) /\ t \in Before(s) \ Before(s)'
      BY <1>1, <1>2, <1>6, <3>3 DEF Before
    <3>5. Cardinality(Before(s)') + 1 <= Cardinality(Before(s))
      BY <1>3, <3>4, FewerBefore
    <3> HIDE DEF n, k, b, c
    <3>6. (n + 1) + (k + 1) + 2 * c <= 2 * (Initial + calls)
      <4>1. c + 1 <= b
        BY <3>5 DEF b, c
      <4> QED BY <2>1, <2>2, <4>1
    <3> QED BY <2>2, <3>2, <3>6 DEF k, c
  <2> QED BY <2>3, <2>4
<1>9. \A r \in Sides \ {s} :
        head'[r].counter + Len(Chain(r)') + 2 * Cardinality(Before(r)') <= 2 * (Initial + calls)
  <2> SUFFICES ASSUME NEW r \in Sides \ {s}
               PROVE  head[r].counter + Len(Chain(r)) + 2 * Cardinality(Before(r)') <= 2 * (Initial + calls)
    BY <1>5
  <2>1. /\ head[r].counter \in Nat /\ Len(Chain(r)) \in Nat
        /\ Cardinality(Before(r)) \in Nat /\ Cardinality(Before(r)') \in Nat
        /\ Cardinality(Before(r)') <= Cardinality(Before(r))
        /\ head[r].counter + Len(Chain(r)) + 2 * Cardinality(Before(r)) <= 2 * (Initial + calls)
    BY <1>3, <1>7
  <2>2. Initial \in Nat /\ calls \in Nat
    BY <1>1
  <2> QED BY <2>1, <2>2, SMTT(60)
<1>10. \A u \in Threads : old'[u].counter <= 2 * (Initial + calls)
  <2>1. \A u \in Threads : old'[u] = old[u] \/ old'[u].counter = 0
    BY <1>1, <1>4 DEF TypeInv, NoHead
  <2> QED BY <1>1, <2>1 DEF CountsBounded
<1> QED BY <1>1, <1>8, <1>9, <1>10 DEF CountsBounded

LEMMA ClearCounts ==
  ASSUME IInv, CountsBounded, clear
  PROVE  CountsBounded'
<1>1. /\ \A t \in Threads : op[t] = "idle"
      /\ UNCHANGED <<op, old>> /\ calls' = calls + 1
      /\ head' = [s \in Sides |-> [node |-> Null, counter |-> head[s].counter + Len(Chain(s))]]
      /\ calls \in Nat /\ Initial \in Nat
  BY Bounds DEF clear, Quiet, IInv, TypeInv
<1>2. ASSUME NEW s \in Sides
      PROVE  head'[s].counter + Len(Chain(s)') + 2 * Cardinality(Before(s)') <= 2 * (Initial + calls')
  <2>1. Chain(s)' = <<>> /\ Before(s)' = {} /\ Before(s) = {}
    BY <1>1, ClearOK DEF Before
  <2>2. Len(Chain(s)') = 0 /\ Cardinality(Before(s)') = 0 /\ Cardinality(Before(s)) = 0
    BY <2>1, FS_EmptySet
  <2>3. head[s].counter + Len(Chain(s)) + 2 * 0 <= 2 * (Initial + calls)
    BY <2>2 DEF CountsBounded
  <2>4. head[s].counter \in Nat /\ Len(Chain(s)) \in Nat
    BY ChainFacts DEF IInv, TypeInv
  <2>5. head'[s].counter = head[s].counter + Len(Chain(s))
    BY <1>1
  <2> QED BY <1>1, <2>2, <2>3, <2>4, <2>5
<1>3. ASSUME NEW u \in Threads PROVE old'[u].counter <= 2 * (Initial + calls')
  <2>1. old[u].counter \in Nat /\ old[u].counter <= 2 * (Initial + calls)
    BY DEF CountsBounded, IInv, TypeInv
  <2> QED BY <1>1, <2>1
<1> QED BY <1>2, <1>3 DEF CountsBounded

(* Two sequences of different nodes without a common one.                  *)
LEMMA ApartJoined ==
  ASSUME NEW c \in Seq(Nodes), NEW d \in Seq(Nodes), Apart(c), Apart(d),
         \A i \in DOMAIN c, j \in DOMAIN d : c[i] # d[j]
  PROVE  Len(c) \in Nat /\ Len(d) \in Nat /\ Len(c) + Len(d) <= MaxNodes
<1> DEFINE e == c \o d
<1>1. PICK k \in Nat, n \in Nat : k = Len(c) /\ n = Len(d)
  OBVIOUS
<1>2. /\ DOMAIN c = 1 .. k /\ DOMAIN d = 1 .. n
      /\ e \in Seq(Nodes) /\ Len(e) = k + n /\ DOMAIN e = 1 .. k + n
      /\ \A i \in 1 .. k + n : e[i] = IF i <= k THEN c[i] ELSE d[i - k]
  BY <1>1
<1> HIDE DEF e
<1>3. /\ \A i, j \in 1 .. k : c[i] = c[j] => i = j
      /\ \A i, j \in 1 .. n : d[i] = d[j] => i = j
      /\ \A i \in 1 .. k, j \in 1 .. n : c[i] # d[j]
  BY <1>2 DEF Apart
<1>4. ASSUME NEW i \in 1 .. k + n, NEW j \in 1 .. k + n, e[i] = e[j], i <= j
      PROVE  i = j
  <2>1. CASE j <= k
    <3>1. i \in 1 .. k /\ j \in 1 .. k
      BY <1>4, <2>1
    <3> QED BY <1>2, <1>3, <1>4, <2>1, <3>1
  <2>2. CASE i <= k /\ ~(j <= k)
    <3>1. i \in 1 .. k /\ j - k \in 1 .. n
      BY <1>4, <2>2
    <3> QED BY <1>2, <1>3, <1>4, <2>2, <3>1
  <2>3. CASE ~(i <= k)
    <3>1. i - k \in 1 .. n /\ j - k \in 1 .. n /\ ~(j <= k)
      BY <1>4, <2>3
    <3>2. i - k = j - k
      BY <1>2, <1>3, <1>4, <2>3, <3>1
    <3> QED BY <3>2
  <2> QED BY <2>1, <2>2, <2>3
<1>5. ASSUME NEW i \in 1 .. k + n, NEW j \in 1 .. k + n, e[i] = e[j]
      PROVE  i = j
  <2>1. i <= j \/ j <= i
    OBVIOUS
  <2> QED BY <1>4, <1>5, <2>1
<1>6. Apart(e)
  BY <1>2, <1>5 DEF Apart
<1>7. k + n <= MaxNodes
  BY <1>2, <1>6, ApartBounded
<1> QED BY <1>1, <1>7

(* A chain and the nodes that threads hold are not more than all nodes.    *)
LEMMA RoomFacts ==
  ASSUME IInv, NEW q \in Seq(Threads), InOrder(q), NEW s \in Sides
  PROVE  /\ Len(q) \in Nat /\ DOMAIN q = 1 .. Len(q) /\ Len(Chain(s)) \in Nat
         /\ Len(Chain(s)) + Len(q) <= MaxNodes
         /\ \A i \in 1 .. Len(q) : q[i] \in Threads /\ Holds(q[i]) /\ x[q[i]] \in Nodes
         /\ \A i, j \in 1 .. Len(q) : x[q[i]] = x[q[j]] => i = j
<1>1. Len(q) \in Nat /\ DOMAIN q = 1 .. Len(q) /\ \A i \in 1 .. Len(q) : q[i] \in Threads
  OBVIOUS
<1>2. \A i \in 1 .. Len(q) : Holds(q[i]) /\ x[q[i]] \in Nodes
  BY <1>1 DEF InOrder, IInv, PlacesOK, TypeInv
<1>3. \A i, j \in 1 .. Len(q) : x[q[i]] = x[q[j]] => i = j
  BY <1>1, <1>2 DEF InOrder, IInv, PlacesOK
<1> DEFINE d == [i \in 1 .. Len(q) |-> x[q[i]]]
<1>4. d \in Seq(Nodes) /\ Len(d) = Len(q) /\ DOMAIN d = 1 .. Len(q)
  BY <1>1, <1>2
<1>5. \A i \in 1 .. Len(q) : d[i] = x[q[i]]
  OBVIOUS
<1> HIDE DEF d
<1>6. Apart(d)
  BY <1>3, <1>4, <1>5 DEF Apart
<1>7. /\ Chain(s) \in Seq(Nodes) /\ Apart(Chain(s))
      /\ \A i \in DOMAIN Chain(s) : Chain(s)[i] \in Linked(s)
  BY ChainFacts DEF Follows, Linked
<1>8. \A i \in DOMAIN Chain(s), j \in DOMAIN d : Chain(s)[i] # d[j]
  BY <1>1, <1>2, <1>4, <1>5, <1>7 DEF IInv, PlacesOK
<1>9. Len(Chain(s)) \in Nat /\ Len(Chain(s)) + Len(d) <= MaxNodes
  BY <1>4, <1>6, <1>7, <1>8, ApartJoined
<1> QED BY <1>1, <1>2, <1>3, <1>4, <1>9

(* A step after which the same threads hold the same nodes.                *)
LEMMA OrderKept ==
  ASSUME IInv, NEW t \in Threads, Others(t), Holds(t)' = Holds(t), Holds(t) => x'[t] = x[t],
         NEW q \in Seq(Threads), InOrder(q),
         \A i \in DOMAIN q : length'[x[q[i]]] <= MaxNodes - i + 1,
         \/ pc'[t] \notin {"counter", "read"}
         \/ pc[t] \in {"counter", "read"} /\ old'[t].node = old[t].node
         \/ \A u \in Threads : Holds(u) => old'[t].node # x[u]
  PROVE  InOrder(q)'
<1>1. Len(q) \in Nat /\ DOMAIN q = 1 .. Len(q) /\ \A i \in 1 .. Len(q) : q[i] \in Threads
  OBVIOUS
<1>2. \A u \in Threads : (Holds(u)' <=> Holds(u)) /\ (Holds(u) => x'[u] = x[u])
  BY DEF Others, Holds
<1>3. /\ \A i, j \in DOMAIN q : q[i] = q[j] => i = j
      /\ \A u \in Threads : Holds(u) <=> \E i \in DOMAIN q : q[i] = u
      /\ \A i, j \in DOMAIN q :
           pc[q[i]] \in {"counter", "read"} /\ old[q[i]].node = x[q[j]] => i < j
  BY DEF InOrder
<1>4. \A i \in DOMAIN q : Holds(q[i]) /\ x'[q[i]] = x[q[i]]
  BY <1>1, <1>2, <1>3
<1>5. \A i, j \in DOMAIN q :
        pc'[q[i]] \in {"counter", "read"} /\ old'[q[i]].node = x'[q[j]] => i < j
  <2> SUFFICES ASSUME NEW i \in DOMAIN q, NEW j \in DOMAIN q,
                      pc'[q[i]] \in {"counter", "read"}, old'[q[i]].node = x'[q[j]]
               PROVE  i < j
    OBVIOUS
  <2>1. CASE q[i] = t
    BY <1>1, <1>3, <1>4, <2>1
  <2>2. CASE q[i] # t
    BY <1>1, <1>3, <1>4, <2>2 DEF Others
  <2> QED BY <2>1, <2>2
<1> QED BY <1>1, <1>2, <1>3, <1>4, <1>5 DEF InOrder

(* A step that sets no length and takes or gives no node.                  *)
LEMMA PlainLengths ==
  ASSUME IInv, LengthsBounded, NEW t \in Threads, Others(t), Holds(t)' = Holds(t),
         Holds(t) => x'[t] = x[t], UNCHANGED <<length, allocated>>,
         \/ pc'[t] \notin {"counter", "read"}
         \/ pc[t] \in {"counter", "read"} /\ old'[t].node = old[t].node
         \/ /\ old'[t].node \in allocated \cup {Null}
            /\ \A u \in Threads : Holds(u) => old'[t].node # x[u]
  PROVE  LengthsBounded'
<1>1. PICK q \in Seq(Threads) : InOrder(q)
  BY DEF LengthsBounded
<1>2. InOrder(q)'
  BY <1>1, OrderKept DEF InOrder
<1>3. \A u \in Threads : pc'[u] \in {"counter", "read"} => old'[u].node \in allocated' \cup {Null}
  BY DEF LengthsBounded, Others
<1> QED BY <1>2, <1>3 DEF LengthsBounded

LEMMA LocalLengths ==
  ASSUME IInv, LengthsBounded, NEW t \in Threads,
         \/ Push(t) \/ Pop(t) \/ ReadNode(t) \/ ReadCounter(t) \/ TakeNext(t) \/ Retry(t)
         \/ TakeNothing(t) /\ op[t] = "pop"
  PROVE  LengthsBounded'
<1>1. TypeInv /\ PlacesOK /\ CallOK(t)
  BY DEF IInv
<1>2. CASE Push(t) \/ Pop(t)
  <2>1. /\ Others(t) /\ Holds(t)' = Holds(t) /\ x'[t] = x[t] /\ UNCHANGED <<length, allocated>>
        /\ pc'[t] = "head"
    BY <1>1, <1>2 DEF Push, Pop, Start, nodes, Others, TypeInv, Holds, CallOK
  <2> QED BY <2>1, PlainLengths
<1>3. CASE ReadNode(t)
  <2>1. /\ Others(t) /\ Holds(t)' = Holds(t) /\ x'[t] = x[t] /\ UNCHANGED <<length, allocated>>
        /\ old'[t].node = head[Side(t)].node
    BY <1>1, <1>3 DEF ReadNode, Goes, nodes, Others, TypeInv, Holds
  <2>2. head[Side(t)].node # Null => head[Side(t)].node \in Linked(Side(t)) /\ Side(t) \in Sides
    BY <1>1, SideFacts, ChainFacts
  <2>3. Side(t) \in Sides
    BY <1>1, SideFacts
  <2>4. /\ old'[t].node \in allocated \cup {Null}
        /\ \A u \in Threads : Holds(u) => old'[t].node # x[u]
    BY <1>1, <2>1, <2>2, <2>3, NullIsNoNode DEF PlacesOK, TypeInv
  <2> QED BY <2>1, <2>4, PlainLengths
<1>4. CASE ReadCounter(t)
  <2>1. /\ Others(t) /\ Holds(t)' = Holds(t) /\ x'[t] = x[t] /\ UNCHANGED <<length, allocated>>
        /\ pc[t] = "counter" /\ old'[t].node = old[t].node
    BY <1>1, <1>4 DEF ReadCounter, At, Goes, nodes, Others, TypeInv, Holds
  <2> QED BY <2>1, PlainLengths
<1>5. CASE TakeNext(t) \/ Retry(t)
  <2>1. /\ Others(t) /\ Holds(t)' = Holds(t) /\ x'[t] = x[t] /\ UNCHANGED <<length, allocated>>
        /\ pc'[t] \in {"swing", "head"}
    BY <1>1, <1>5 DEF TakeNext, Retry, Forget, Goes, nodes, Others, TypeInv, Holds
  <2> QED BY <2>1, PlainLengths
<1>6. CASE TakeNothing(t) /\ op[t] = "pop"
  <2>1. Return(t) /\ UNCHANGED nodes /\ ~Holds(t)
    BY <1>6 DEF TakeNothing, Holds
  <2>2. /\ Others(t) /\ stage'[t] = "take" /\ UNCHANGED <<length, allocated>> /\ pc'[t] = "head"
    BY <1>1, <2>1, ReturnFacts DEF Return, Forget, Goes, nodes, TypeInv
  <2>3. stage[t] = "take" /\ Holds(t)' = Holds(t)
    BY <1>1, <2>1, <2>2 DEF TypeInv, Holds
  <2> QED BY <2>1, <2>2, <2>3, PlainLengths
<1> QED BY <1>2, <1>3, <1>4, <1>5, <1>6

(* The length written is one more than one that was read from a node on a  *)
(* side, or held for less time than the thread's own.                      *)
LEMMA GiveLinkLengths ==
  ASSUME IInv, LengthsBounded, NEW t \in Threads, GiveLink(t)
  PROVE  LengthsBounded'
<1>1. TypeInv /\ PlacesOK /\ LengthsOK
  BY DEF IInv
<1>2. /\ pc[t] = "read" /\ Holds(t) /\ x[t] \in Nodes /\ x[t] \in allocated
      /\ length' = [length EXCEPT ![x[t]] = Length(old[t].node) + 1]
      /\ pc' = [pc EXCEPT ![t] = "swing"]
      /\ UNCHANGED <<allocated, stage, x, op, arg, old, link>>
  BY <1>1 DEF GiveLink, At, Goes, Holds, PlacesOK, TypeInv
<1>3. Others(t) /\ pc'[t] = "swing" /\ Holds(t)' = Holds(t)
  BY <1>1, <1>2 DEF Others, TypeInv, Holds
<1>4. PICK q \in Seq(Threads) : InOrder(q)
  BY DEF LengthsBounded
<1>5. /\ Len(q) \in Nat /\ DOMAIN q = 1 .. Len(q) /\ Len(q) <= MaxNodes /\ MaxNodes \in Nat
      /\ \A s \in Sides : Len(Chain(s)) \in Nat /\ Len(Chain(s)) + Len(q) <= MaxNodes
      /\ \A i \in 1 .. Len(q) : q[i] \in Threads /\ x[q[i]] \in Nodes
      /\ \A i, j \in 1 .. Len(q) : x[q[i]] = x[q[j]] => i = j
  <2>1. /\ Len(q) \in Nat /\ DOMAIN q = 1 .. Len(q) /\ MaxNodes \in Nat
        /\ \A i \in 1 .. Len(q) : q[i] \in Threads /\ x[q[i]] \in Nodes
        /\ \A i, j \in 1 .. Len(q) : x[q[i]] = x[q[j]] => i = j
    BY <1>4, RoomFacts, Bounds DEF Sides
  <2>2. \A s \in Sides : Len(Chain(s)) \in Nat /\ Len(Chain(s)) + Len(q) <= MaxNodes
    BY <1>4, RoomFacts
  <2>3. Len(q) <= MaxNodes
    <3>1. Len(Chain("a")) \in Nat /\ Len(Chain("a")) + Len(q) <= MaxNodes
      BY <2>2 DEF Sides
    <3> QED BY <2>1, <3>1
  <2> QED BY <2>1, <2>2, <2>3
<1>6. PICK k \in 1 .. Len(q) : q[k] = t
  BY <1>2, <1>4, <1>5 DEF InOrder
<1>7. Length(old[t].node) \in Nat /\ Length(old[t].node) + 1 <= MaxNodes - k + 1
  <2>1. old[t].node \in allocated \cup {Null}
    BY <1>2 DEF LengthsBounded
  <2>2. CASE old[t].node = Null
    <3>1. Length(old[t].node) = 0
      BY <2>2 DEF Length
    <3> QED BY <1>5, <3>1
  <2>3. CASE old[t].node # Null
    <3>1. /\ old[t].node \in Nodes /\ length[old[t].node] \in Nat
          /\ Length(old[t].node) = length[old[t].node]
      BY <1>1, <2>1, <2>3 DEF TypeInv, Length
    <3>2. CASE \E s \in Sides : old[t].node \in Linked(s)
      <4>1. PICK s \in Sides : old[t].node \in Linked(s)
        BY <3>2
      <4>2. PICK i \in 1 .. Len(Chain(s)) : Chain(s)[i] = old[t].node
        BY <4>1, ChainFacts
      <4>3. length[old[t].node] = Len(Chain(s)) - i + 1
        BY <1>1, <4>2, ChainFacts DEF LengthsOK
      <4>4. Len(Chain(s)) \in Nat /\ Len(Chain(s)) + Len(q) <= MaxNodes
        BY <1>5
      <4> QED BY <1>5, <3>1, <4>3, <4>4
    <3>3. CASE \E u \in Threads : Holds(u) /\ x[u] = old[t].node
      <4>1. PICK u \in Threads : Holds(u) /\ x[u] = old[t].node
        BY <3>3
      <4>2. PICK j \in 1 .. Len(q) : q[j] = u
        BY <1>4, <1>5, <4>1 DEF InOrder
      <4>3. k < j
        BY <1>2, <1>4, <1>5, <1>6, <4>1, <4>2, SMTT(60) DEF InOrder
      <4>4. length[old[t].node] <= MaxNodes - j + 1
        BY <1>4, <1>5, <4>1, <4>2 DEF InOrder
      <4> QED BY <1>5, <3>1, <4>3, <4>4
    <3> QED BY <1>1, <2>1, <2>3, <3>2, <3>3 DEF PlacesOK
  <2> QED BY <2>2, <2>3
<1>8. /\ length'[x[t]] = Length(old[t].node) + 1
      /\ \A n \in Nodes \ {x[t]} : length'[n] = length[n]
  BY <1>1, <1>2 DEF TypeInv
<1>9. \A i \in DOMAIN q : length'[x[q[i]]] <= MaxNodes - i + 1
  <2> SUFFICES ASSUME NEW i \in 1 .. Len(q) PROVE length'[x[q[i]]] <= MaxNodes - i + 1
    BY <1>5
  <2>1. CASE i = k
    BY <1>6, <1>7, <1>8, <2>1
  <2>2. CASE i # k
    BY <1>4, <1>5, <1>6, <1>8, <2>2 DEF InOrder
  <2> QED BY <2>1, <2>2
<1>10. InOrder(q)'
  BY <1>2, <1>3, <1>4, <1>9, OrderKept
<1>11. \A n \in Nodes : length'[n] <= MaxNodes
  <2>1. Length(old[t].node) + 1 <= MaxNodes
    BY <1>5, <1>7
  <2> QED BY <1>8, <2>1 DEF LengthsBounded
<1>12. \A n \in Nodes \ allocated' : length'[n] = 0
  BY <1>2, <1>8 DEF LengthsBounded
<1>13. \A u \in Threads : pc'[u] \in {"counter", "read"} => old'[u].node \in allocated' \cup {Null}
  BY <1>2, <1>3 DEF LengthsBounded, Others
<1> QED BY <1>10, <1>11, <1>12, <1>13 DEF LengthsBounded

(* A thread that takes a node has it for the least time.                   *)
LEMMA TakesLengths ==
  ASSUME IInv, LengthsBounded, NEW t \in Threads, ~Holds(t),
         NEW n \in Nodes, Took(t, n), UNCHANGED length, allocated' = allocated \cup {n},
         \A u \in Threads : Holds(u) => x[u] # n,
         \E s \in Sides : length[n] <= Len(Chain(s))
  PROVE  LengthsBounded'
<1>1. TypeInv
  BY DEF IInv
<1>2. /\ pc' = [pc EXCEPT ![t] = "head"] /\ x' = [x EXCEPT ![t] = n]
      /\ stage' = [stage EXCEPT ![t] = "give"]
      /\ Others(t)
  BY <1>1 DEF Took, Forget, Goes, Others, TypeInv
<1>3. /\ pc'[t] = "head" /\ x'[t] = n /\ Holds(t)'
      /\ \A u \in Threads \ {t} : (Holds(u)' <=> Holds(u)) /\ x'[u] = x[u]
  BY <1>1, <1>2 DEF TypeInv, Holds
<1>4. PICK q \in Seq(Threads) : InOrder(q)
  BY DEF LengthsBounded
<1>5. PICK s \in Sides : length[n] <= Len(Chain(s))
  OBVIOUS
<1>6. /\ Len(q) \in Nat /\ DOMAIN q = 1 .. Len(q) /\ MaxNodes \in Nat
      /\ Len(Chain(s)) \in Nat /\ Len(Chain(s)) + Len(q) <= MaxNodes
      /\ \A i \in 1 .. Len(q) : q[i] \in Threads /\ Holds(q[i])
      /\ length[n] \in Nat
  BY <1>1, <1>4, RoomFacts, Bounds DEF TypeInv
<1> DEFINE r == Append(q, t)
<1>7. /\ r \in Seq(Threads) /\ Len(r) = Len(q) + 1 /\ DOMAIN r = 1 .. Len(q) + 1
      /\ r[Len(q) + 1] = t /\ \A i \in 1 .. Len(q) : r[i] = q[i]
  BY <1>6
<1> HIDE DEF r
<1>8. PICK k \in Nat : k = Len(q)
  BY <1>6
<1>9. /\ DOMAIN r = 1 .. k + 1 /\ r[k + 1] = t
      /\ \A i \in 1 .. k : r[i] = q[i] /\ q[i] \in Threads /\ q[i] # t /\ x'[q[i]] = x[q[i]]
      /\ DOMAIN q = 1 .. k /\ length[n] + k <= MaxNodes
      /\ \A i \in 1 .. k : x[q[i]] # n
  BY <1>3, <1>5, <1>6, <1>7, <1>8
<1>10. /\ \A i, j \in 1 .. k : q[i] = q[j] => i = j
       /\ \A u \in Threads : Holds(u) <=> \E i \in 1 .. k : q[i] = u
       /\ \A i \in 1 .. k : length[x[q[i]]] <= MaxNodes - i + 1
       /\ \A i, j \in 1 .. k :
            pc[q[i]] \in {"counter", "read"} /\ old[q[i]].node = x[q[j]] => i < j
  BY <1>4, <1>9 DEF InOrder
<1>11. \A i \in 1 .. k + 1 : i \in 1 .. k \/ i = k + 1
  OBVIOUS
<1>12. InOrder(r)'
  <2>1. \A i, j \in 1 .. k + 1 : r[i] = r[j] => i = j
    BY <1>9, <1>10, <1>11
  <2>2. \A u \in Threads : Holds(u)' <=> \E i \in 1 .. k + 1 : r[i] = u
    <3> SUFFICES ASSUME NEW u \in Threads
                 PROVE  Holds(u)' <=> \E i \in 1 .. k + 1 : r[i] = u
      OBVIOUS
    <3>1. k + 1 \in 1 .. k + 1 /\ \A i \in 1 .. k : i \in 1 .. k + 1
      OBVIOUS
    <3>2. CASE u = t
      BY <1>3, <1>9, <3>1, <3>2
    <3>3. CASE u # t
      BY <1>3, <1>9, <1>10, <1>11, <3>1, <3>3
    <3> QED BY <3>2, <3>3
  <2>3. \A i \in 1 .. k + 1 : length'[x'[r[i]]] <= MaxNodes - i + 1
    <3> SUFFICES ASSUME NEW i \in 1 .. k + 1 PROVE length[x'[r[i]]] <= MaxNodes - i + 1
      OBVIOUS
    <3>1. CASE i = k + 1
      <4>1. x'[r[i]] = n
        BY <1>3, <1>9, <3>1
      <4>2. length[n] <= MaxNodes - (k + 1) + 1
        BY <1>6, <1>9
      <4> QED BY <3>1, <4>1, <4>2
    <3>2. CASE i \in 1 .. k
      BY <1>9, <1>10, <3>2
    <3> QED BY <1>11, <3>1, <3>2
  <2>4. \A i, j \in 1 .. k + 1 :
          pc'[r[i]] \in {"counter", "read"} /\ old'[r[i]].node = x'[r[j]] => i < j
    <3> SUFFICES ASSUME NEW i \in 1 .. k + 1, NEW j \in 1 .. k + 1,
                        pc'[r[i]] \in {"counter", "read"}, old'[r[i]].node = x'[r[j]]
                 PROVE  i < j
      OBVIOUS
    <3>1. i \in 1 .. k
      BY <1>3, <1>9, <1>11
    <3>2. /\ r[i] \in Threads \ {t} /\ r[i] = q[i]
      BY <1>9, <3>1
    <3>3. pc[q[i]] \in {"counter", "read"} /\ old'[q[i]].node = old[q[i]].node
      BY <1>2, <3>2 DEF Others
    <3>4. CASE j \in 1 .. k
      BY <1>9, <1>10, <3>1, <3>2, <3>3, <3>4
    <3>5. CASE j = k + 1
      BY <3>1, <3>5
    <3> QED BY <1>11, <3>4, <3>5
  <2> QED BY <1>9, <2>1, <2>2, <2>3, <2>4 DEF InOrder
<1>13. \A u \in Threads : pc'[u] \in {"counter", "read"} => old'[u].node \in allocated' \cup {Null}
  BY <1>2, <1>3 DEF LengthsBounded, Others
<1> QED BY <1>7, <1>12, <1>13 DEF LengthsBounded

LEMMA TakeLengths ==
  ASSUME IInv, LengthsBounded, NEW t \in Threads, TakeNothing(t) \/ TakeSwing(t)
  PROVE  LengthsBounded'
<1>1. TypeInv /\ PlacesOK /\ LengthsOK /\ Side(t) \in Sides
  BY SideFacts DEF IInv
<1>2. CASE TakeNothing(t) /\ op[t] = "pop"
  BY <1>2, LocalLengths
<1>3. CASE TakeNothing(t) /\ op[t] # "pop"
  <2>1. /\ ~Holds(t) /\ allocated # Nodes /\ Took(t, malloc) /\ UNCHANGED length
        /\ allocated' = allocated \cup {malloc}
    BY <1>3 DEF TakeNothing, Holds
  <2>2. malloc \in Nodes /\ malloc \notin allocated
    BY <1>1, <2>1 DEF malloc, TypeInv
  <2>3. length[malloc] = 0 /\ \A u \in Threads : Holds(u) => x[u] # malloc
    BY <1>1, <2>2 DEF LengthsBounded, PlacesOK
  <2>4. length[malloc] <= Len(Chain(Side(t)))
    BY <1>1, <2>3, ChainFacts
  <2> QED BY <1>1, <2>1, <2>2, <2>3, <2>4, TakesLengths
<1>4. CASE TakeSwing(t)
  <2> DEFINE n == old[t].node
  <2>1. /\ ~Holds(t) /\ Took(t, n) /\ UNCHANGED <<length, allocated>>
    BY <1>4 DEF TakeSwing, Holds
  <2>2. PICK s \in Sides : s = Side(t)
    BY <1>1
  <2>3. Chain(s) # <<>> /\ n = Chain(s)[1]
    BY <1>4, <2>2, TakeSwingOK
  <2>4. 1 \in DOMAIN Chain(s) /\ Len(Chain(s)) \in Nat /\ n \in Linked(s) /\ n \in Nodes
    BY <2>3, ChainFacts
  <2>5. length[n] = Len(Chain(s)) - 1 + 1
    BY <1>1, <2>3, <2>4 DEF LengthsOK
  <2>6. length[n] <= Len(Chain(s))
    BY <2>4, <2>5
  <2>7. allocated' = allocated \cup {n} /\ \A u \in Threads : Holds(u) => x[u] # n
    BY <1>1, <2>1, <2>4 DEF PlacesOK
  <2> QED BY <2>1, <2>4, <2>6, <2>7, TakesLengths
<1> QED BY <1>2, <1>3, <1>4

(* A thread that gives its node leaves the order.                          *)
LEMMA GiveSwingLengths ==
  ASSUME IInv, LengthsBounded, NEW t \in Threads, GiveSwing(t)
  PROVE  LengthsBounded'
<1>1. TypeInv
  BY DEF IInv
<1>2. Holds(t) /\ Return(t) /\ UNCHANGED <<length, allocated>>
  BY DEF GiveSwing, Holds, nodes
<1>3. /\ Others(t) /\ stage'[t] = "take" /\ pc'[t] = "head" /\ ~Holds(t)'
  BY <1>1, <1>2, ReturnFacts DEF Return, Forget, Goes, TypeInv, Holds
<1>4. \A u \in Threads \ {t} : /\ Holds(u)' <=> Holds(u)
                               /\ x'[u] = x[u] /\ pc'[u] = pc[u] /\ old'[u] = old[u]
  BY <1>3 DEF Others, Holds
<1>5. PICK q \in Seq(Threads) : InOrder(q)
  BY DEF LengthsBounded
<1>6. PICK m \in Nat : m = Len(q)
  OBVIOUS
<1>7. DOMAIN q = 1 .. m /\ \A i \in 1 .. m : q[i] \in Threads
  BY <1>6
<1>8. /\ \A i, j \in 1 .. m : q[i] = q[j] => i = j
      /\ \A u \in Threads : Holds(u) <=> \E i \in 1 .. m : q[i] = u
      /\ \A i \in 1 .. m : length[x[q[i]]] <= MaxNodes - i + 1
      /\ \A i, j \in 1 .. m :
           pc[q[i]] \in {"counter", "read"} /\ old[q[i]].node = x[q[j]] => i < j
  BY <1>5, <1>7 DEF InOrder
<1>9. PICK k \in 1 .. m : q[k] = t
  BY <1>2, <1>8
<1> DEFINE was(i) == IF i < k THEN i ELSE i + 1
           r == [i \in 1 .. m - 1 |-> q[was(i)]]
<1>10. /\ \A i \in 1 .. m - 1 : was(i) \in 1 .. m /\ was(i) # k /\ was(i) >= i
       /\ \A i, j \in 1 .. m - 1 : was(i) < was(j) => i < j
       /\ \A i, j \in 1 .. m - 1 : was(i) = was(j) => i = j
       /\ m - 1 \in Nat
  BY <1>9
<1>11. \A j \in 1 .. m : j # k => \E i \in 1 .. m - 1 : was(i) = j
  <2> SUFFICES ASSUME NEW j \in 1 .. m, j # k PROVE \E i \in 1 .. m - 1 : was(i) = j
    OBVIOUS
  <2>1. CASE j < k
    BY <1>9, <2>1, SMTT(60)
  <2>2. CASE ~(j < k)
    <3>1. j - 1 \in 1 .. m - 1 /\ was(j - 1) = j
      BY <1>9, <2>2
    <3> QED BY <3>1
  <2> QED BY <2>1, <2>2
<1>12. \A i \in 1 .. m - 1 : r[i] = q[was(i)] /\ was(i) \in 1 .. m
  BY <1>10
<1>13. r \in Seq(Threads) /\ DOMAIN r = 1 .. m - 1
  <2>1. \A i \in 1 .. m - 1 : q[was(i)] \in Threads
    BY <1>7, <1>10
  <2> QED BY <1>10, <2>1
<1> HIDE DEF was, r
<1>14. \A i \in 1 .. m - 1 : /\ r[i] \in Threads \ {t}
                             /\ x'[r[i]] = x[q[was(i)]] /\ pc'[r[i]] = pc[q[was(i)]]
                             /\ old'[r[i]] = old[q[was(i)]]
  <2> SUFFICES ASSUME NEW i \in 1 .. m - 1
               PROVE  /\ r[i] \in Threads \ {t}
                      /\ x'[r[i]] = x[q[was(i)]] /\ pc'[r[i]] = pc[q[was(i)]]
                      /\ old'[r[i]] = old[q[was(i)]]
    OBVIOUS
  <2>1. r[i] = q[was(i)] /\ was(i) \in 1 .. m /\ was(i) # k
    BY <1>10, <1>12
  <2>2. r[i] \in Threads \ {t}
    BY <1>7, <1>8, <1>9, <2>1
  <2> QED BY <1>4, <2>1, <2>2
<1>15. InOrder(r)'
  <2>1. \A i, j \in 1 .. m - 1 : r[i] = r[j] => i = j
    BY <1>8, <1>10, <1>12, SMTT(60)
  <2>2. ASSUME NEW u \in Threads
        PROVE  Holds(u)' <=> \E i \in 1 .. m - 1 : r[i] = u
    <3>1. CASE u = t
      BY <1>3, <1>14, <3>1
    <3>2. CASE u # t
      <4>1. ASSUME Holds(u) PROVE \E i \in 1 .. m - 1 : r[i] = u
        <5>1. PICK j \in 1 .. m : q[j] = u
          BY <1>8, <4>1
        <5>2. PICK i \in 1 .. m - 1 : was(i) = j
          BY <1>9, <1>11, <3>2, <5>1
        <5> QED BY <1>12, <5>1, <5>2
      <4>2. ASSUME NEW i \in 1 .. m - 1, r[i] = u PROVE Holds(u)
        BY <1>8, <1>12, <4>2
      <4> QED BY <1>4, <3>2, <4>1, <4>2
    <3> QED BY <3>1, <3>2
  <2>3. ASSUME NEW i \in 1 .. m - 1 PROVE length'[x'[r[i]]] <= MaxNodes - i + 1
    <3>1. /\ length'[x'[r[i]]] = length[x[q[was(i)]]] /\ was(i) \in 1 .. m /\ was(i) >= i
      BY <1>2, <1>10, <1>14
    <3>2. length[x[q[was(i)]]] <= MaxNodes - was(i) + 1
      BY <1>8, <3>1
    <3>3. x[q[was(i)]] \in Nodes /\ length[x[q[was(i)]]] \in Nat /\ MaxNodes \in Nat
      <4>1. Holds(q[was(i)]) /\ q[was(i)] \in Threads
        BY <1>7, <1>8, <3>1
      <4> QED BY <1>1, <4>1, Bounds DEF IInv, PlacesOK, TypeInv
    <3> QED BY <3>1, <3>2, <3>3
  <2>4. ASSUME NEW i \in 1 .. m - 1, NEW j \in 1 .. m - 1,
               pc'[r[i]] \in {"counter", "read"}, old'[r[i]].node = x'[r[j]]
        PROVE  i < j
    <3>1. /\ pc[q[was(i)]] \in {"counter", "read"} /\ old[q[was(i)]].node = x[q[was(j)]]
          /\ was(i) \in 1 .. m /\ was(j) \in 1 .. m
      BY <1>12, <1>14, <2>4
    <3>2. was(i) < was(j)
      BY <1>8, <3>1
    <3> QED BY <1>10, <3>2
  <2> QED BY <1>13, <2>1, <2>2, <2>3, <2>4 DEF InOrder
<1>16. \A u \in Threads : pc'[u] \in {"counter", "read"} => old'[u].node \in allocated' \cup {Null}
  BY <1>2, <1>3, <1>4 DEF LengthsBounded
<1> QED BY <1>2, <1>13, <1>15, <1>16 DEF LengthsBounded

(* Nobody holds a node at first, and when the stack is cleared.            *)
LEMMA NobodyHolds ==
  ASSUME \A t \in Threads : ~Holds(t)
  PROVE  \E q \in Seq(Threads) : InOrder(q)
<1>1. <<>> \in Seq(Threads) /\ DOMAIN <<>> = {}
  OBVIOUS
<1>2. InOrder(<<>>)
  BY <1>1 DEF InOrder
<1> QED BY <1>1, <1>2

LEMMA ClearLengths ==
  ASSUME IInv, LengthsBounded, clear
  PROVE  LengthsBounded'
<1>1. /\ allocated' = allocated \ (Linked("a") \cup Linked("b"))
      /\ length' = [n \in Nodes |-> IF n \in allocated' THEN length[n] ELSE 0]
      /\ \A t \in Threads : pc'[t] = "head" /\ stage'[t] = "take"
      /\ \A t \in Threads : ~Holds(t)
      /\ PlacesOK
  BY DEF clear, Quiet, IInv, CallOK, Holds
<1>2. allocated' = {}
  BY <1>1 DEF PlacesOK, Sides
<1>3. \A n \in Nodes : length'[n] = 0
  BY <1>1, <1>2
<1>4. \E q \in Seq(Threads) : InOrder(q)'
  <2>1. \A t \in Threads : ~Holds(t)'
    BY <1>1 DEF Holds
  <2>2. <<>> \in Seq(Threads) /\ DOMAIN <<>> = {}
    OBVIOUS
  <2>3. InOrder(<<>>)'
    BY <2>1, <2>2 DEF InOrder
  <2> QED BY <2>2, <2>3
<1> QED BY <1>1, <1>3, <1>4, Bounds DEF LengthsBounded

LEMMA InitBounds == Init => CountsBounded /\ LengthsBounded
<1> SUFFICES ASSUME Init PROVE CountsBounded /\ LengthsBounded
  OBVIOUS
<1>1. /\ Pushed(Initial) /\ calls = 0 /\ Initial \in Nat /\ MaxNodes \in Nat /\ Initial <= MaxNodes
      /\ \A t \in Threads : /\ op[t] = "idle" /\ pc[t] = "head" /\ stage[t] = "take"
                            /\ old[t] = NoHead
  BY Bounds DEF Init
<1>2. IInv
  BY InitOK
<1>3. CountsBounded
  <2>1. \A s \in Sides : Before(s) = {}
    BY <1>1 DEF Before
  <2>2. head["a"].counter = Initial /\ head["b"].counter = 0
    BY <1>1 DEF Pushed, NoHead
  <2>3. \A s \in Sides : Cardinality(Before(s)) = 0
    BY <2>1, FS_EmptySet
  <2>4. Len(Chain("a")) \in Nat /\ Len(Chain("a")) <= Initial
    <3>1. CASE Initial = 0
      <4>1. head["a"].node = Null
        BY <1>1, <3>1 DEF Pushed
      <4>2. Chain("a") = <<>>
        BY <1>2, <4>1, ChainFacts DEF Sides
      <4> QED BY <1>1, <4>2
    <3>2. CASE Initial # 0
      <4>1. head["a"].node = Initial /\ Initial \in Nodes /\ length[Initial] = Initial
        BY <1>1, <3>2 DEF Pushed, Nodes
      <4>2. /\ Chain("a")[1] = Initial /\ 1 \in DOMAIN Chain("a") /\ Len(Chain("a")) \in Nat
        BY <1>2, <4>1, NullIsNoNode, ChainFacts DEF Sides
      <4>3. length[Chain("a")[1]] = Len(Chain("a")) - 1 + 1
        BY <1>2, <4>2 DEF IInv, LengthsOK, Sides
      <4> QED BY <1>1, <4>1, <4>2, <4>3
    <3> QED BY <3>1, <3>2
  <2>5. Len(Chain("b")) = 0
    <3>1. head["b"].node = Null
      BY <1>1 DEF Pushed, NoHead
    <3>2. Chain("b") = <<>>
      BY <1>2, <3>1, ChainFacts DEF Sides
    <3> QED BY <3>2
  <2>6. \A s \in Sides :
          head[s].counter + Len(Chain(s)) + 2 * Cardinality(Before(s)) <= 2 * (Initial + calls)
    <3>1. Initial + Len(Chain("a")) + 2 * 0 <= 2 * (Initial + 0) /\ 0 + 0 + 2 * 0 <= 2 * (Initial + 0)
      BY <1>1, <2>4
    <3>2. \A s \in Sides : s = "a" \/ s = "b"
      BY DEF Sides
    <3> QED BY <1>1, <2>2, <2>3, <2>5, <3>1, <3>2
  <2>7. \A t \in Threads : old[t].counter <= 2 * (Initial + calls)
    BY <1>1 DEF NoHead
  <2> QED BY <2>6, <2>7 DEF CountsBounded
<1>4. LengthsBounded
  <2>1. \A n \in Nodes : length[n] <= MaxNodes /\ (n \notin allocated => length[n] = 0)
    BY <1>1 DEF Pushed, Nodes
  <2>2. \E q \in Seq(Threads) : InOrder(q)
    BY <1>1, NobodyHolds DEF Holds
  <2> QED BY <1>1, <2>1, <2>2 DEF LengthsBounded
<1> QED BY <1>3, <1>4

LEMMA StutterBounds ==
  ASSUME CountsBounded, LengthsBounded, UNCHANGED vars
  PROVE  CountsBounded' /\ LengthsBounded'
<1>1. UNCHANGED <<head, value, next, length, allocated, calls, op, pc, stage, x, arg, old, link>>
  BY DEF vars, nodes
<1>2. CountsBounded'
  BY <1>1 DEF CountsBounded, Chain, Before, Holds, Side
<1>3. LengthsBounded'
  BY <1>1 DEF LengthsBounded, InOrder, Holds
<1> QED BY <1>2, <1>3

LEMMA StepBounds ==
  ASSUME IInv, CountsBounded, LengthsBounded, [Next]_vars
  PROVE  CountsBounded' /\ LengthsBounded'
<1>1. CASE clear
  BY <1>1, ClearCounts, ClearLengths
<1>2. CASE Stop \/ UNCHANGED vars
  BY <1>2, StutterBounds DEF Stop
<1>3. CASE \E t \in Threads : Step(t)
  <2>1. PICK t \in Threads : Step(t)
    BY <1>3
  <2>2. CASE Push(t) \/ Pop(t)
    BY <2>2, StartCounts, LocalLengths DEF Push, Pop
  <2>3. CASE ReadNode(t) \/ ReadCounter(t) \/ TakeNext(t) \/ Retry(t)
    BY <2>3, LocalCounts, LocalLengths
  <2>4. CASE TakeNothing(t)
    BY <2>4, LocalCounts, TakeLengths
  <2>5. CASE GiveLink(t)
    BY <2>5, LocalCounts, GiveLinkLengths
  <2>6. CASE TakeSwing(t) \/ GiveSwing(t)
    BY <2>6, SwingCounts, TakeLengths, GiveSwingLengths
  <2> QED BY <2>1, <2>2, <2>3, <2>4, <2>5, <2>6 DEF Step
<1> QED BY <1>1, <1>2, <1>3 DEF Next

(* Every variable has its type at every step: the counters are at most two *)
(* for each value and call, and no length that a push writes is more than  *)
(* there are nodes, though it may have read a length that is out of date.  *)
THEOREM TypeCorrect == Spec => []TypeOK
<1>1. Spec => [](IInv /\ CountsBounded /\ LengthsBounded)
  <2>1. Init => CountsBounded /\ LengthsBounded
    BY InitBounds
  <2>2. IInv /\ (CountsBounded /\ LengthsBounded) /\ [Next]_vars
          => (CountsBounded /\ LengthsBounded)'
    BY StepBounds
  <2> QED BY <2>1, <2>2, Invariance, PTL DEF Spec
<1>2. IInv /\ CountsBounded /\ LengthsBounded => TypeOK
  <2> SUFFICES ASSUME IInv, CountsBounded, LengthsBounded PROVE TypeOK
    OBVIOUS
  <2>1. /\ TypeInv /\ Initial \in Nat /\ MaxCalls \in Nat /\ MaxNodes \in Nat
        /\ calls \in Nat /\ calls <= MaxCalls
    BY Bounds DEF IInv, TypeInv
  <2>2. \A k \in Nat : k <= 2 * (Initial + calls) => k \in Counters
    BY <2>1 DEF Counters
  <2>3. ASSUME NEW s \in Sides PROVE head[s].counter \in Counters
    <3>1. /\ head[s].counter \in Nat /\ Len(Chain(s)) \in Nat /\ Cardinality(Before(s)) \in Nat
      BY <2>1, ChainFacts, BeforeFinite DEF TypeInv
    <3>2. head[s].counter + Len(Chain(s)) + 2 * Cardinality(Before(s)) <= 2 * (Initial + calls)
      BY DEF CountsBounded
    <3>3. head[s].counter <= 2 * (Initial + calls)
      BY <2>1, <3>1, <3>2
    <3> QED BY <2>2, <3>1, <3>3
  <2>4. head \in [Sides -> Heads]
    BY <2>1, <2>3 DEF TypeInv, Heads
  <2>5. \A t \in Threads : old[t].counter \in Counters
    BY <2>1, <2>2 DEF TypeInv, CountsBounded
  <2>6. old \in [Threads -> Heads]
    BY <2>1, <2>5 DEF TypeInv, Heads
  <2>7. length \in [Nodes -> 0 .. MaxNodes]
    <3>1. \A n \in Nodes : length[n] \in 0 .. MaxNodes
      BY <2>1 DEF TypeInv, LengthsBounded
    <3> QED BY <2>1, <3>1 DEF TypeInv
  <2> QED BY <2>1, <2>4, <2>6, <2>7 DEF TypeInv, TypeOK
<1> QED BY <1>1, <1>2, PTL

====
