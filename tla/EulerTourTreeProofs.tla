---- MODULE EulerTourTreeProofs ----
(***************************************************************************)
(* The theorems of EulerTourTree: for every number of vertices, all        *)
(* batches and every interleaving of the iterations.                       *)
(*                                                                         *)
(* Links and cuts one by one are recursions over a batch; each step of one *)
(* turns tours into tours.  The loops that split are shown to leave lists  *)
(* that the joins of the loop that follows fit: those of BatchLink because *)
(* a group of arcs has one first and one last iteration, those of          *)
(* BatchCutRecurse because the walk of RightTarget from cut edge to cut    *)
(* edge goes one-to-one from the ends that are opened to the beginnings.   *)
(* A join that fits leaves the others fitting, so that any order will do.  *)
(***************************************************************************)
EXTENDS EulerTourTree, NaturalsInduction, FiniteSetTheorems, TLAPS

----
(* Numbers *)

(* A set of numbers has a least element.                                   *)
LEMMA LeastNumber ==
  ASSUME NEW T, T \subseteq Nat, T # {}
  PROVE  \E m \in T : \A n \in T : m <= n
<1> DEFINE R == OpToRel(<, Nat)
<1>1. IsWellFoundedOn(R, Nat)
  BY NatLessThanWellFounded
<1>2. \A a, b \in Nat : a < b => <<a, b>> \in R
  BY DEF OpToRel
<1> HIDE DEF R
<1>3. PICK m \in T : \A n \in T : ~(<<n, m>> \in R)
  BY <1>1, WFMin
<1>4. ASSUME NEW n \in T, ~(m <= n) PROVE FALSE
  <2>1. m \in Nat /\ n \in Nat /\ n < m
    BY <1>4
  <2> QED BY <2>1, <1>2, <1>3
<1> QED BY <1>4

(* Induction up to m, over the set of the numbers a formula holds of.      *)
LEMMA Induction ==
  ASSUME NEW m \in Nat, NEW T, 0 \in T, \A n \in 0 .. m - 1 : n \in T => n + 1 \in T
  PROVE  \A n \in 0 .. m : n \in T
<1> DEFINE Bad == {n \in 0 .. m : n \notin T}
<1>1. SUFFICES ASSUME Bad # {} PROVE FALSE
  OBVIOUS
<1>2. PICK k \in Bad : \A n \in Bad : k <= n
  <2>1. Bad \subseteq Nat
    OBVIOUS
  <2> QED BY <2>1, <1>1, LeastNumber
<1>3. k # 0 /\ k \in 0 .. m
  BY <1>2
<1>4. k - 1 \in 0 .. m - 1 /\ k - 1 \notin Bad
  BY <1>2, <1>3
<1>5. k - 1 \in T
  BY <1>4
<1>6. (k - 1) + 1 \in T /\ (k - 1) + 1 = k
  BY <1>3, <1>4, <1>5
<1> QED BY <1>2, <1>6

(* f is a function on the numbers from 0 to m, a solution of the recursion
   that begins with base and goes on with G.                               *)
OnNumbers(f, m) == f = [k \in 0 .. m |-> f[k]]
Solution(f, m, base, R, G) ==
  /\ OnNumbers(f, m)
  /\ f[0] = base
  /\ \A k \in 1 .. m : f[k - 1] \in R[k - 1] /\ f[k] = G[<<k, f[k - 1]>>]

(* A recursion over the numbers from 0 to m whose k-th step leads from R[k - 1]
   into R[k] has a solution.                                               *)
LEMMA Recursion ==
  ASSUME NEW m \in Nat, NEW base, NEW R, NEW G, base \in R[0],
         \A k \in 1 .. m : \A x \in R[k - 1] : G[<<k, x>>] \in R[k]
  PROVE  \E f : Solution(f, m, base, R, G)
<1> DEFINE S == UNION {R[k] : k \in 0 .. m}
           Partial(n) == {f \in [0 .. n -> S] :
                            /\ f[0] = base
                            /\ \A k \in 0 .. n : f[k] \in R[k]
                            /\ \A k \in 1 .. n : f[k] = G[<<k, f[k - 1]>>]}
           T == {n \in 0 .. m : Partial(n) # {}}
<1>1. 0 \in T
  <2>1. base \in S
    OBVIOUS
  <2> HIDE DEF S
  <2>2. [k \in 0 .. 0 |-> base] \in Partial(0)
    BY <2>1
  <2> QED BY <2>2
<1>2. ASSUME NEW n \in 0 .. m - 1, n \in T PROVE n + 1 \in T
  <2>1. PICK f : f \in Partial(n)
    BY <1>2
  <2> DEFINE g == [k \in 0 .. n + 1 |-> IF k = n + 1 THEN G[<<n + 1, f[n]>>] ELSE f[k]]
  <2>2. n \in Nat /\ n + 1 \in 1 .. m /\ n \in 0 .. n /\ f \in [0 .. n -> S] /\ f[n] \in R[n]
    BY <2>1
  <2>3. G[<<n + 1, f[n]>>] \in R[n + 1]
    <3>1. (n + 1) - 1 = n
      BY <2>2
    <3> QED BY <2>2, <3>1
  <2>4. G[<<n + 1, f[n]>>] \in S
    BY <2>2, <2>3
  <2> HIDE DEF S
  <2>5. g \in [0 .. n + 1 -> S]
    <3>1. ASSUME NEW k \in 0 .. n + 1 PROVE g[k] \in S
      <4>1. CASE k = n + 1
        BY <4>1, <2>4
      <4>2. CASE k # n + 1
        <5>1. k \in 0 .. n
          BY <4>2, <2>2
        <5> QED BY <5>1, <4>2, <2>2
      <4> QED BY <4>1, <4>2
    <3> QED BY <3>1
  <2>6. g[0] = base /\ g[n + 1] = G[<<n + 1, f[n]>>] /\ \A k \in 0 .. n : g[k] = f[k]
    BY <2>1, <2>2
  <2> HIDE DEF g
  <2>7. ASSUME NEW k \in 1 .. n + 1 PROVE g[k] = G[<<k, g[k - 1]>>]
    <3>1. CASE k = n + 1
      <4>1. k - 1 = n
        BY <3>1, <2>2
      <4> QED BY <3>1, <4>1, <2>2, <2>6
    <3>2. CASE k # n + 1
      <4>1. k \in 1 .. n /\ k \in 0 .. n /\ k - 1 \in 0 .. n
        BY <3>2, <2>2
      <4> QED BY <4>1, <2>1, <2>6
    <3> QED BY <3>1, <3>2
  <2>8. ASSUME NEW k \in 0 .. n + 1 PROVE g[k] \in R[k]
    <3>1. CASE k = n + 1
      BY <3>1, <2>3, <2>6
    <3>2. CASE k # n + 1
      <4>1. k \in 0 .. n
        BY <3>2, <2>2
      <4> QED BY <4>1, <2>1, <2>6
    <3> QED BY <3>1, <3>2
  <2>9. g \in Partial(n + 1)
    BY <2>5, <2>6, <2>7, <2>8
  <2>10. n + 1 \in 0 .. m
    BY <2>2
  <2> QED BY <2>9, <2>10
<1> HIDE DEF Partial
<1>3. m \in T
  <2>1. \A n \in 0 .. m : n \in T
    BY <1>1, <1>2, Induction
  <2> QED BY <2>1
<1>4. PICK f : f \in Partial(m)
  BY <1>3
<1>5. /\ f \in [0 .. m -> S]
      /\ f[0] = base
      /\ \A k \in 0 .. m : f[k] \in R[k]
      /\ \A k \in 1 .. m : f[k] = G[<<k, f[k - 1]>>]
  BY <1>4 DEF Partial
<1>6. \A k \in 1 .. m : k - 1 \in 0 .. m
  OBVIOUS
<1>7. OnNumbers(f, m)
  BY <1>5 DEF OnNumbers
<1> QED BY <1>5, <1>6, <1>7 DEF Solution

----
(* Elements *)

(* The other direction of an element, and the key of its edge.             *)
LEMMA Elements ==
  /\ Null \notin Element
  /\ \A e \in Element :
       /\ e[1] \in Vertices /\ e[2] \in Vertices /\ e = <<e[1], e[2]>>
       /\ Twin(e) \in Element /\ Twin(Twin(e)) = e
       /\ Twin(e)[1] = e[2] /\ Twin(e)[2] = e[1]
       /\ e \in Loops <=> e[1] = e[2]
       /\ Twin(e) \in Loops <=> e \in Loops
       /\ Twin(e) = e <=> e \in Loops
       /\ Key(e) \in {e, Twin(e)} /\ Key(Twin(e)) = Key(e)
       /\ e \notin Loops => Key(e)[1] < Key(e)[2]
  /\ \A e, f \in Element : Key(e) = Key(f) <=> f = e \/ f = Twin(e)
  /\ \A e, f \in Element : Twin(e) = Twin(f) => e = f
  /\ \A u \in Vertices : Loop(u) \in Loops /\ Loop(u) \in Element /\ Loop(u)[1] = u /\ Loop(u)[2] = u
  /\ \A e \in Loops : e \in Element /\ e[1] = e[2] /\ e = Loop(e[1])
<1>1. Vertices \subseteq Nat \ {0} /\ \A u, v \in Vertices : u < v \/ u = v \/ v < u
  BY SomeVertices DEF Vertices
<1>2. Null \notin Element
  BY <1>1 DEF Null, Element
<1>3. ASSUME NEW e \in Element
      PROVE  e[1] \in Vertices /\ e[2] \in Vertices /\ e = <<e[1], e[2]>>
  BY DEF Element
<1>4. ASSUME NEW u \in Vertices
      PROVE Loop(u) \in Loops /\ Loop(u) \in Element /\ Loop(u)[1] = u /\ Loop(u)[2] = u
  BY DEF Loop, Loops, Element
<1>5. ASSUME NEW e \in Loops PROVE e \in Element /\ e[1] = e[2] /\ e = Loop(e[1])
  BY DEF Loop, Loops, Element
<1>6. ASSUME NEW e \in Element PROVE e \in Loops <=> e[1] = e[2]
  <2>1. ASSUME e[1] = e[2] PROVE e \in Loops
    BY <2>1, <1>3 DEF Loops, Loop
  <2> QED BY <2>1, <1>5
<1>7. ASSUME NEW e \in Element
      PROVE  Twin(e) \in Element /\ Twin(Twin(e)) = e /\ Twin(e)[1] = e[2] /\ Twin(e)[2] = e[1]
  BY <1>3 DEF Twin, Element
<1>8. ASSUME NEW e \in Element, NEW f \in Element, e[1] = f[1], e[2] = f[2] PROVE e = f
  BY <1>8, <1>3
<1>9. ASSUME NEW e \in Element
      PROVE /\ Twin(e) \in Loops <=> e \in Loops
            /\ Twin(e) = e <=> e \in Loops
  BY <1>6, <1>7, <1>8
<1>10. ASSUME NEW e \in Element
       PROVE  Key(e) \in {e, Twin(e)} /\ (e \notin Loops => Key(e)[1] < Key(e)[2]) /\ Key(Twin(e)) = Key(e)
  <2>1. e[1] \in Nat /\ e[2] \in Nat
    BY <1>1, <1>3
  <2> QED BY <2>1, <1>6, <1>7, <1>9 DEF Key
<1>11. ASSUME NEW e \in Element, NEW f \in Element, Twin(e) = Twin(f) PROVE e = f
  BY <1>7, <1>11
<1>12. ASSUME NEW e \in Element, NEW f \in Element PROVE Key(e) = Key(f) <=> f = e \/ f = Twin(e)
  <2>1. ASSUME Key(e) = Key(f) PROVE f = e \/ f = Twin(e)
    BY <2>1, <1>7, <1>10, <1>11
  <2> QED BY <2>1, <1>10
<1> QED BY <1>2, <1>3, <1>4, <1>5, <1>6, <1>7, <1>9, <1>10, <1>11, <1>12

----
(* Lists *)

(* The pointers at level 0.                                                *)
State == [next : [Element -> Ref], prev : [Element -> Ref]]

(* The pointers of the elements of S lead to elements of S, next and prev  *)
(* are inverse, and an element ends where the next one starts.             *)
Proper(s, S) ==
  /\ \A e \in S : s.next[e] \in S \cup {Null} /\ s.prev[e] \in S \cup {Null}
  /\ \A e, f \in S : s.next[e] = f <=> s.prev[f] = e
  /\ \A e \in S : s.next[e] # Null => s.next[e][1] = e[2]

(* No list is open.                                                        *)
Whole(s, S) == \A e \in S : s.next[e] # Null /\ s.prev[e] # Null

(* r is s with no pointers between x and the element after it.             *)
Opened(r, s, x, S) ==
  /\ \A e \in S : r.next[e] = IF e = x THEN Null ELSE s.next[e]
  /\ \A e \in S : r.prev[e] = IF s.prev[e] = x THEN Null ELSE s.prev[e]

(* Split clears the pointers between x and the element after it.           *)
LEMMA SplitProper ==
  ASSUME NEW s \in State, NEW S \in SUBSET Element, Proper(s, S), NEW x \in S, NEW r, r = Split(s, x)
  PROVE  r \in State /\ Proper(r, S) /\ Opened(r, s, x, S)
<1>1. Null \notin Element
  BY Elements
<1>2. s.next \in [Element -> Ref] /\ s.prev \in [Element -> Ref] /\ Null \in Ref
  BY DEF State, Ref
<1>3. CASE s.next[x] = Null
  <2>1. r = s
    BY <1>3 DEF Split
  <2>2. \A e \in S : s.prev[e] # x
    BY <1>1, <1>3 DEF Proper
  <2> QED BY <2>1, <2>2, <1>3 DEF Opened
<1>4. CASE s.next[x] # Null
  <2>1. PICK n \in S : n = s.next[x]
    BY <1>4 DEF Proper
  <2>2. /\ r.next = [s.next EXCEPT ![x] = Null] /\ r.prev = [s.prev EXCEPT ![n] = Null]
        /\ r = [next |-> r.next, prev |-> r.prev]
    BY <1>4, <2>1 DEF Split
  <2>3. r \in State
    BY <2>2, <1>2 DEF State
  <2>4. \A e \in S : s.prev[e] = x <=> e = n
    BY <2>1 DEF Proper
  <2>5. \A e \in S : r.next[e] = IF e = x THEN Null ELSE s.next[e]
    BY <2>2, <1>2
  <2>6. \A e \in S : r.prev[e] = IF s.prev[e] = x THEN Null ELSE s.prev[e]
    BY <2>2, <2>4, <1>2
  <2>7. Proper(r, S)
    <3>1. \A e \in S : e # Null
      BY <1>1
    <3> QED BY <2>1, <2>4, <2>5, <2>6, <3>1 DEF Proper
  <2> QED BY <2>3, <2>5, <2>6, <2>7 DEF Opened
<1> QED BY <1>3, <1>4

(* Join closes the lists at an element without a next and one without a prev. *)
LEMMA JoinProper ==
  ASSUME NEW s \in State, NEW S \in SUBSET Element, Proper(s, S), NEW x \in S, NEW y \in S,
         s.next[x] = Null, s.prev[y] = Null, x[2] = y[1], NEW r, r = Join(s, x, y)
  PROVE  /\ r \in State /\ Proper(r, S)
         /\ \A e \in S : r.next[e] = IF e = x THEN y ELSE s.next[e]
         /\ \A e \in S : r.prev[e] = IF e = y THEN x ELSE s.prev[e]
<1>1. Null \notin Element
  BY Elements
<1>2. s.next \in [Element -> Ref] /\ s.prev \in [Element -> Ref] /\ x \in Ref /\ y \in Ref
  BY DEF State, Ref
<1>3. r = [next |-> [s.next EXCEPT ![x] = y], prev |-> [s.prev EXCEPT ![y] = IF @ = Null THEN x ELSE @]]
  BY <1>1 DEF Join
<1>4. /\ r.next = [s.next EXCEPT ![x] = y] /\ r.prev = [s.prev EXCEPT ![y] = x]
      /\ r = [next |-> r.next, prev |-> r.prev]
  BY <1>3
<1>5. r \in State
  BY <1>4, <1>2 DEF State
<1>6. /\ \A e \in S : r.next[e] = IF e = x THEN y ELSE s.next[e]
      /\ \A e \in S : r.prev[e] = IF e = y THEN x ELSE s.prev[e]
  BY <1>4, <1>2
<1>7. Proper(r, S)
  <2>1. \A e \in S : e # Null
    BY <1>1
  <2> QED BY <1>6, <2>1 DEF Proper
<1> QED BY <1>5, <1>6, <1>7

(* The elements of a new edge are lists of their own.                      *)
LEMMA FreshProper ==
  ASSUME NEW s \in State, NEW S \in SUBSET Element, Proper(s, S), NEW uv \in Element \ Loops,
         uv \notin S, Twin(uv) \notin S, NEW r, r = Fresh(s, uv)
  PROVE  /\ r \in State /\ Proper(r, S \cup {uv, Twin(uv)})
         /\ \A e \in S : r.next[e] = s.next[e] /\ r.prev[e] = s.prev[e]
         /\ \A e \in {uv, Twin(uv)} : r.next[e] = Null /\ r.prev[e] = Null
<1>1. Null \notin Element /\ uv \in Element /\ Twin(uv) \in Element /\ uv # Twin(uv)
  BY Elements
<1> DEFINE vu == Twin(uv)
<1> HIDE DEF vu
<1>2. s.next \in [Element -> Ref] /\ s.prev \in [Element -> Ref] /\ Null \in Ref
  BY DEF State, Ref
<1>3. /\ r.next = [s.next EXCEPT ![uv] = Null, ![vu] = Null]
      /\ r.prev = [s.prev EXCEPT ![uv] = Null, ![vu] = Null]
      /\ r = [next |-> r.next, prev |-> r.prev]
  BY DEF Fresh, vu
<1>4. vu \in Element /\ vu \notin S
  BY <1>1 DEF vu
<1>5. r \in State
  BY <1>2, <1>3, <1>4 DEF State
<1>6. /\ \A e \in S : r.next[e] = s.next[e] /\ r.prev[e] = s.prev[e]
      /\ r.next[uv] = Null /\ r.prev[uv] = Null /\ r.next[vu] = Null /\ r.prev[vu] = Null
  BY <1>1, <1>2, <1>3, <1>4
<1>7. Proper(r, S \cup {uv, vu})
  <2>1. \A e \in S \cup {uv, vu} : e # Null
    BY <1>1, <1>4
  <2> QED BY <1>6, <2>1 DEF Proper
<1> QED BY <1>5, <1>6, <1>7 DEF vu

(* A part of the elements that the pointers do not leave.                  *)
LEMMA ProperPart ==
  ASSUME NEW s, NEW S, NEW P \in SUBSET S, Proper(s, S),
         \A e \in P : s.next[e] \in P \cup {Null} /\ s.prev[e] \in P \cup {Null}
  PROVE  Proper(s, P)
BY DEF Proper

(* JoinAll makes the joins one after the other.                            *)
LEMMA JoinsInTurn ==
  ASSUME NEW s \in State, NEW joins \in Seq(Ref \X Ref)
  PROVE  \E f : /\ f[0] = s
                /\ \A k \in 1 .. Len(joins) : f[k] = Join(f[k - 1], joins[k][1], joins[k][2])
                /\ JoinAll(s, joins) = f[Len(joins)]
<1> DEFINE joined[k \in 0 .. Len(joins)] ==
             IF k = 0 THEN s ELSE Join(joined[k - 1], joins[k][1], joins[k][2])
<1> HIDE DEF joined
<1>1. PICK m \in Nat : m = Len(joins)
  OBVIOUS
<1>2. ASSUME NEW t \in State, NEW k \in 1 .. m PROVE Join(t, joins[k][1], joins[k][2]) \in State
  <2>1. PICK x \in Ref, y \in Ref : x = joins[k][1] /\ y = joins[k][2]
    BY <1>1
  <2>2. Join(t, x, y) \in State
    <3>1. t.next \in [Element -> Ref] /\ t.prev \in [Element -> Ref] /\ t = [next |-> t.next, prev |-> t.prev]
      BY DEF State
    <3>2. CASE x = Null \/ y = Null \/ t.next[x] # Null
      BY <3>2 DEF Join
    <3>3. CASE ~(x = Null \/ y = Null \/ t.next[x] # Null)
      <4>1. [t.next EXCEPT ![x] = y] \in [Element -> Ref]
        BY <3>1
      <4>2. [t.prev EXCEPT ![y] = IF @ = Null THEN x ELSE @] \in [Element -> Ref]
        BY <3>1
      <4> QED BY <3>3, <4>1, <4>2 DEF Join, State
    <3> QED BY <3>2, <3>3
  <2> QED BY <2>1, <2>2
<1>3. PICK G : \A k \in 1 .. m, t \in State : G[<<k, t>>] = Join(t, joins[k][1], joins[k][2])
  <2> DEFINE H == [kt \in (1 .. m) \X State |-> Join(kt[2], joins[kt[1]][1], joins[kt[1]][2])]
  <2>1. \A k \in 1 .. m, t \in State : H[<<k, t>>] = Join(t, joins[k][1], joins[k][2])
    OBVIOUS
  <2> QED BY <2>1
<1>4. PICK R : \A k \in 0 .. m : R[k] = State
  <2>1. \A k \in 0 .. m : [l \in 0 .. m |-> State][k] = State
    OBVIOUS
  <2> QED BY <2>1
<1>5. s \in R[0] /\ \A k \in 1 .. m : \A t \in R[k - 1] : G[<<k, t>>] \in R[k]
  BY <1>2, <1>3, <1>4
<1>6. PICK f : Solution(f, m, s, R, G)
  BY <1>5, Recursion
<1>7. f[0] = s /\ \A k \in 1 .. m : f[k] = Join(f[k - 1], joins[k][1], joins[k][2])
  <2>1. \A k \in 1 .. m : k - 1 \in 0 .. m
    OBVIOUS
  <2> QED BY <2>1, <1>3, <1>4, <1>6 DEF Solution
<1>8. f = [k \in 0 .. m |-> IF k = 0 THEN s ELSE Join(f[k - 1], joins[k][1], joins[k][2])]
  <2>1. \A k \in 0 .. m : f[k] = IF k = 0 THEN s ELSE Join(f[k - 1], joins[k][1], joins[k][2])
    BY <1>7
  <2>2. f = [k \in 0 .. m |-> f[k]]
    BY <1>6 DEF Solution, OnNumbers
  <2> QED BY <2>1, <2>2, Zenon
<1>9. joined = [k \in 0 .. m |-> IF k = 0 THEN s ELSE Join(joined[k - 1], joins[k][1], joins[k][2])]
  BY <1>8, <1>1, Zenon DEF joined
<1>10. joined[0] = s /\ \A k \in 1 .. m : joined[k] = Join(joined[k - 1], joins[k][1], joins[k][2])
  BY <1>9
<1>11. JoinAll(s, joins) = joined[Len(joins)]
  BY Zenon DEF JoinAll, joined
<1> QED BY <1>1, <1>10, <1>11

(* Two and four joins.                                                     *)
LEMMA TwoJoins ==
  ASSUME NEW s \in State, NEW a \in Ref, NEW b \in Ref, NEW c \in Ref, NEW d \in Ref
  PROVE  JoinAll(s, << <<a, b>>, <<c, d>> >>) = Join(Join(s, a, b), c, d)
<1> DEFINE joins == << <<a, b>>, <<c, d>> >>
<1>1. joins \in Seq(Ref \X Ref) /\ Len(joins) = 2 /\ joins[1] = <<a, b>> /\ joins[2] = <<c, d>>
  OBVIOUS
<1> HIDE DEF joins
<1>2. PICK f : /\ f[0] = s
               /\ \A k \in 1 .. Len(joins) : f[k] = Join(f[k - 1], joins[k][1], joins[k][2])
               /\ JoinAll(s, joins) = f[Len(joins)]
  BY <1>1, JoinsInTurn
<1>3. f[1] = Join(f[0], a, b) /\ f[2] = Join(f[1], c, d)
  BY <1>1, <1>2
<1> QED BY <1>1, <1>2, <1>3 DEF joins

(* Two and four joins.                                                     *)
LEMMA FourJoins ==
  ASSUME NEW s \in State, NEW a \in Ref \X Ref, NEW b \in Ref \X Ref, NEW c \in Ref \X Ref, NEW d \in Ref \X Ref
  PROVE  JoinAll(s, <<a, b, c, d>>) =
           Join(Join(Join(Join(s, a[1], a[2]), b[1], b[2]), c[1], c[2]), d[1], d[2])
<1> DEFINE joins == <<a, b, c, d>>
<1>1. joins \in Seq(Ref \X Ref) /\ Len(joins) = 4 /\ joins[1] = a /\ joins[2] = b /\ joins[3] = c /\ joins[4] = d
  OBVIOUS
<1> HIDE DEF joins
<1>2. PICK f : /\ f[0] = s
               /\ \A k \in 1 .. Len(joins) : f[k] = Join(f[k - 1], joins[k][1], joins[k][2])
               /\ JoinAll(s, joins) = f[Len(joins)]
  BY <1>1, JoinsInTurn
<1>3. /\ f[1] = Join(f[0], a[1], a[2]) /\ f[2] = Join(f[1], b[1], b[2])
      /\ f[3] = Join(f[2], c[1], c[2]) /\ f[4] = Join(f[3], d[1], d[2])
  BY <1>1, <1>2
<1> QED BY <1>1, <1>2, <1>3 DEF joins

(* Link inserts the new edge into the tours of its ends and leaves no list open. *)
LEMMA LinkedProper ==
  ASSUME NEW s \in State, NEW S \in SUBSET Element, Proper(s, S), Whole(s, S), Loops \subseteq S,
         NEW uv \in Element \ Loops, uv \notin S, Twin(uv) \notin S
  PROVE  /\ Linked(s, uv) \in State
         /\ Proper(Linked(s, uv), S \cup {uv, Twin(uv)})
         /\ Whole(Linked(s, uv), S \cup {uv, Twin(uv)})
         /\ \A e \in S \ Loops : Linked(s, uv).next[e] = s.next[e]
         /\ Linked(s, uv).next[uv] = s.next[Loop(uv[2])]
         /\ Linked(s, uv).next[Twin(uv)] = s.next[Loop(uv[1])]
<1>1. /\ Null \notin Element /\ uv \in Element /\ Twin(uv) \in Element /\ uv # Twin(uv)
      /\ uv[1] # uv[2] /\ Twin(uv)[1] = uv[2] /\ Twin(uv)[2] = uv[1]
      /\ uv[1] \in Vertices /\ uv[2] \in Vertices
  BY Elements
<1>2. PICK u \in S, v \in S : u = Loop(uv[1]) /\ v = Loop(uv[2]) /\ u[1] = uv[1] /\ u[2] = uv[1] /\ v[1] = uv[2] /\ v[2] = uv[2]
  BY <1>1, Elements
<1>3. PICK vu \in Element : vu = Twin(uv)
  BY <1>1
<1> DEFINE A == S \cup {uv, vu}
<1>4. A \in SUBSET Element /\ S \subseteq A /\ uv \in A /\ vu \in A /\ u \in A /\ v \in A
      /\ u # v /\ uv # vu /\ u # uv /\ u # vu /\ v # uv /\ v # vu
  BY <1>1, <1>2, <1>3
<1>5. PICK ur \in S, vr \in S : ur = s.next[u] /\ vr = s.next[v]
  BY <1>2 DEF Proper, Whole
<1>6. /\ ur # vr /\ ur[1] = uv[1] /\ vr[1] = uv[2] /\ ur # uv /\ ur # vu /\ vr # uv /\ vr # vu
      /\ s.prev[ur] = u /\ s.prev[vr] = v
  <2>1. ur[1] = uv[1] /\ vr[1] = uv[2] /\ s.prev[ur] = u /\ s.prev[vr] = v
    BY <1>1, <1>2, <1>5 DEF Proper, Whole
  <2>2. ur # vr
    BY <2>1, <1>1
  <2> QED BY <2>1, <2>2, <1>3
<1>7. PICK s0 : s0 = Fresh(s, uv)
  OBVIOUS
<1>8. /\ s0 \in State /\ Proper(s0, A)
      /\ \A e \in S : s0.next[e] = s.next[e] /\ s0.prev[e] = s.prev[e]
      /\ s0.next[uv] = Null /\ s0.prev[uv] = Null /\ s0.next[vu] = Null /\ s0.prev[vu] = Null
  BY <1>3, <1>7, FreshProper
<1>9. PICK s1 : s1 = Split(s0, u)
  OBVIOUS
<1>10. s1 \in State /\ Proper(s1, A) /\ Opened(s1, s0, u, A)
  BY <1>4, <1>8, <1>9, SplitProper
<1>11. PICK s2 : s2 = Split(s1, v)
  OBVIOUS
<1>12. s2 \in State /\ Proper(s2, A) /\ Opened(s2, s1, v, A)
  BY <1>4, <1>10, <1>11, SplitProper
<1>13. s0.next[u] = ur /\ s1.next[v] = vr
  BY <1>2, <1>4, <1>5, <1>8, <1>10 DEF Opened
<1>14. Linked(s, uv) = Join(Join(Join(Join(s2, u, uv), uv, vr), v, vu), vu, ur)
  <2>1. Linked(s, uv) = JoinAll(s2, << <<u, uv>>, <<uv, vr>>, <<v, vu>>, <<vu, ur>> >>)
    BY <1>2, <1>3, <1>7, <1>9, <1>11, <1>13 DEF Linked
  <2>2. u \in Ref /\ v \in Ref /\ uv \in Ref /\ vu \in Ref /\ ur \in Ref /\ vr \in Ref
    BY <1>1, <1>3 DEF Ref
  <2>3. <<u, uv>> \in Ref \X Ref /\ <<uv, vr>> \in Ref \X Ref /\ <<v, vu>> \in Ref \X Ref /\ <<vu, ur>> \in Ref \X Ref
    BY <2>2
  <2>4. JoinAll(s2, << <<u, uv>>, <<uv, vr>>, <<v, vu>>, <<vu, ur>> >>)
          = Join(Join(Join(Join(s2, u, uv), uv, vr), v, vu), vu, ur)
    BY <2>3, <1>12, FourJoins
  <2> QED BY <2>1, <2>4
<1>15. /\ \A e \in A : s2.next[e] = Null <=> e \in {u, v, uv, vu}
       /\ \A e \in A : s2.prev[e] = Null <=> e \in {ur, vr, uv, vu}
  <2>1. \A e \in S : s.next[e] # Null /\ s.prev[e] # Null
    BY DEF Whole
  <2>2. \A e \in S : (s.prev[e] = u => e = ur) /\ (s.prev[e] = v => e = vr)
    BY <1>2, <1>5 DEF Proper
  <2>3. \A e \in S : s2.next[e] = Null <=> e \in {u, v}
    BY <2>1, <1>4, <1>8, <1>10, <1>12 DEF Opened
  <2>4. \A e \in S : s2.prev[e] = Null <=> e \in {ur, vr}
    BY <2>1, <2>2, <1>4, <1>6, <1>8, <1>10, <1>12 DEF Opened
  <2>5. s2.next[uv] = Null /\ s2.next[vu] = Null /\ s2.prev[uv] = Null /\ s2.prev[vu] = Null
    BY <1>4, <1>8, <1>10, <1>12 DEF Opened
  <2> QED BY <2>3, <2>4, <2>5, <1>2, <1>5, <1>6, <1>4
<1>16. ur \in A /\ vr \in A /\ vu[1] = uv[2] /\ vu[2] = uv[1]
  BY <1>1, <1>3
<1> HIDE DEF A
<1>17. PICK j1 : j1 = Join(s2, u, uv)
  OBVIOUS
<1>18. /\ j1 \in State /\ Proper(j1, A)
       /\ \A e \in A : j1.next[e] = IF e = u THEN uv ELSE s2.next[e]
       /\ \A e \in A : j1.prev[e] = IF e = uv THEN u ELSE s2.prev[e]
  BY <1>17, <1>12, <1>15, <1>2, <1>4, JoinProper
<1>19. PICK j2 : j2 = Join(j1, uv, vr)
  OBVIOUS
<1>20. /\ j2 \in State /\ Proper(j2, A)
       /\ \A e \in A : j2.next[e] = IF e = uv THEN vr ELSE j1.next[e]
       /\ \A e \in A : j2.prev[e] = IF e = vr THEN uv ELSE j1.prev[e]
  <2>1. j1.next[uv] = Null /\ j1.prev[vr] = Null
    BY <1>18, <1>15, <1>4, <1>6, <1>16
  <2> QED BY <2>1, <1>19, <1>18, <1>4, <1>6, <1>16, JoinProper
<1>21. PICK j3 : j3 = Join(j2, v, vu)
  OBVIOUS
<1>22. /\ j3 \in State /\ Proper(j3, A)
       /\ \A e \in A : j3.next[e] = IF e = v THEN vu ELSE j2.next[e]
       /\ \A e \in A : j3.prev[e] = IF e = vu THEN v ELSE j2.prev[e]
  <2>1. j2.next[v] = Null /\ j2.prev[vu] = Null
    BY <1>20, <1>18, <1>15, <1>4, <1>6, <1>16
  <2> QED BY <2>1, <1>21, <1>20, <1>2, <1>4, <1>6, <1>16, JoinProper
<1>23. PICK j4 : j4 = Join(j3, vu, ur)
  OBVIOUS
<1>24. /\ j4 \in State /\ Proper(j4, A)
       /\ \A e \in A : j4.next[e] = IF e = vu THEN ur ELSE j3.next[e]
       /\ \A e \in A : j4.prev[e] = IF e = ur THEN vu ELSE j3.prev[e]
  <2>1. j3.next[vu] = Null /\ j3.prev[ur] = Null
    BY <1>22, <1>20, <1>18, <1>15, <1>4, <1>6, <1>16
  <2> QED BY <2>1, <1>23, <1>22, <1>2, <1>4, <1>6, <1>16, JoinProper
<1>25. Whole(j4, A)
  <2>1. uv # Null /\ vu # Null /\ u # Null /\ v # Null /\ ur # Null /\ vr # Null
    BY <1>1, <1>2, <1>3, <1>5
  <2>2. ASSUME NEW e \in A PROVE j4.next[e] # Null
    BY <2>1, <1>15, <1>18, <1>20, <1>22, <1>24
  <2>3. ASSUME NEW e \in A PROVE j4.prev[e] # Null
    BY <2>1, <1>15, <1>18, <1>20, <1>22, <1>24
  <2> QED BY <2>2, <2>3 DEF Whole
<1>26. Linked(s, uv) = j4
  BY <1>14, <1>17, <1>19, <1>21, <1>23
<1>27. ASSUME NEW e \in S \ Loops PROVE j4.next[e] = s.next[e]
  <2>1. e \in A /\ e \notin {u, v, uv, vu}
    BY <1>1, <1>2, <1>3, <1>4, Elements
  <2>2. s2.next[e] = s.next[e]
    BY <2>1, <1>8, <1>10, <1>12 DEF Opened
  <2> QED BY <2>1, <2>2, <1>18, <1>20, <1>22, <1>24
<1>28. j4.next[uv] = vr /\ j4.next[vu] = ur
  BY <1>4, <1>18, <1>20, <1>22, <1>24
<1> QED BY <1>2, <1>3, <1>5, <1>24, <1>25, <1>26, <1>27, <1>28 DEF A

(* Cut takes an edge out of its tour and leaves no list open.  The edge of *)
(* a leaf, whose directions are next to each other, is no exception: the   *)
(* join of what is freed is one that nothing that stays leads to.          *)
LEMMA CutOffProper ==
  ASSUME NEW s \in State, NEW S \in SUBSET Element, Proper(s, S), Whole(s, S),
         NEW uv \in S \ Loops, Twin(uv) \in S
  PROVE  /\ CutOff(s, uv) \in State
         /\ Proper(CutOff(s, uv), S \ {uv, Twin(uv)})
         /\ Whole(CutOff(s, uv), S \ {uv, Twin(uv)})
         /\ \A e \in S \ {uv, Twin(uv)} :
              CutOff(s, uv).next[e] = IF s.next[e] = uv THEN s.next[Twin(uv)]
                                      ELSE IF s.next[e] = Twin(uv) THEN s.next[uv] ELSE s.next[e]
<1>1. /\ Null \notin Element /\ uv \in S /\ Twin(uv) \in S /\ uv # Twin(uv)
      /\ uv[1] # uv[2] /\ Twin(uv)[1] = uv[2] /\ Twin(uv)[2] = uv[1]
  BY Elements
<1>2. PICK vu \in S : vu = Twin(uv)
  BY <1>1
<1>3. PICK ul \in S, vl \in S, vr \in S, ur \in S :
        ul = s.prev[uv] /\ vl = s.prev[vu] /\ vr = s.next[uv] /\ ur = s.next[vu]
  BY <1>1, <1>2 DEF Proper, Whole
<1>4. /\ s.next[ul] = uv /\ s.next[vl] = vu /\ s.prev[vr] = uv /\ s.prev[ur] = vu
      /\ ul[2] = uv[1] /\ vl[2] = uv[2] /\ vr[1] = uv[2] /\ ur[1] = uv[1]
      /\ uv[2] = vu[1] /\ uv[1] = vu[2] /\ uv # vu /\ uv[1] # uv[2]
  <2>1. /\ s.next[ul] = uv /\ s.next[vl] = vu /\ s.prev[vr] = uv /\ s.prev[ur] = vu
    BY <1>2, <1>3 DEF Proper
  <2>2. ul[2] = uv[1] /\ vl[2] = vu[1] /\ vr[1] = uv[2] /\ ur[1] = vu[2]
    <3>1. \A e \in S : s.next[e][1] = e[2]
      BY DEF Proper, Whole
    <3> QED BY <3>1, <2>1, <1>1, <1>2, <1>3
  <2> QED BY <2>1, <2>2, <1>1, <1>2
<1>5. ul # uv /\ vl # vu /\ vr # uv /\ ur # vu /\ ul # vl /\ ur # vr
  BY <1>4
<1>6. PICK s1 : s1 = Split(s, uv)
  OBVIOUS
<1>7. s1 \in State /\ Proper(s1, S) /\ Opened(s1, s, uv, S)
  BY <1>1, <1>6, SplitProper
<1>8. PICK s2 : s2 = Split(s1, vu)
  OBVIOUS
<1>9. s2 \in State /\ Proper(s2, S) /\ Opened(s2, s1, vu, S)
  BY <1>7, <1>8, SplitProper
<1>10. PICK s3 : s3 = Split(s2, ul)
  OBVIOUS
<1>11. s3 \in State /\ Proper(s3, S) /\ Opened(s3, s2, ul, S)
  BY <1>9, <1>10, SplitProper
<1>12. PICK s4 : s4 = Split(s3, vl)
  OBVIOUS
<1>13. s4 \in State /\ Proper(s4, S) /\ Opened(s4, s3, vl, S)
  BY <1>11, <1>12, SplitProper
<1>14. s1.next[vu] = ur
  BY <1>3, <1>4, <1>7 DEF Opened
<1>15. CutOff(s, uv) = Join(Join(s4, ul, ur), vl, vr)
  <2>1. CutOff(s, uv) = JoinAll(s4, << <<ul, ur>>, <<vl, vr>> >>)
    BY <1>2, <1>3, <1>6, <1>8, <1>10, <1>12, <1>14 DEF CutOff
  <2>2. ul \in Ref /\ ur \in Ref /\ vl \in Ref /\ vr \in Ref
    BY <1>3 DEF Ref
  <2> QED BY <2>1, <2>2, <1>13, TwoJoins
<1>16. /\ \A e \in S : s4.next[e] = IF e \in {uv, vu, ul, vl} THEN Null ELSE s.next[e]
       /\ \A e \in S : s4.prev[e] = IF e \in {vr, ur, uv, vu} THEN Null ELSE s.prev[e]
  <2>1. \A e \in S : s4.next[e] = IF e \in {uv, vu, ul, vl} THEN Null ELSE s.next[e]
    BY <1>7, <1>9, <1>11, <1>13 DEF Opened
  <2>2. \A e \in S : s4.prev[e] = IF s.prev[e] \in {uv, vu, ul, vl} THEN Null ELSE s.prev[e]
    <3>1. uv # Null /\ vu # Null /\ ul # Null /\ vl # Null
      BY <1>1, <1>2, <1>3
    <3> QED BY <3>1, <1>7, <1>9, <1>11, <1>13 DEF Opened
  <2>3. \A e \in S : s.prev[e] \in {uv, vu, ul, vl} <=> e \in {vr, ur, uv, vu}
    BY <1>1, <1>2, <1>3, <1>4 DEF Proper
  <2> QED BY <2>1, <2>2, <2>3
<1>17. PICK j1 : j1 = Join(s4, ul, ur)
  OBVIOUS
<1>18. /\ j1 \in State /\ Proper(j1, S)
       /\ \A e \in S : j1.next[e] = IF e = ul THEN ur ELSE s4.next[e]
       /\ \A e \in S : j1.prev[e] = IF e = ur THEN ul ELSE s4.prev[e]
  <2>1. s4.next[ul] = Null /\ s4.prev[ur] = Null /\ ul[2] = ur[1]
    BY <1>3, <1>4, <1>16
  <2> QED BY <2>1, <1>13, <1>17, JoinProper
<1>19. PICK j2 : j2 = Join(j1, vl, vr)
  OBVIOUS
<1>20. /\ j2 \in State /\ Proper(j2, S)
       /\ \A e \in S : j2.next[e] = IF e = vl THEN vr ELSE j1.next[e]
       /\ \A e \in S : j2.prev[e] = IF e = vr THEN vl ELSE j1.prev[e]
  <2>1. j1.next[vl] = Null /\ j1.prev[vr] = Null /\ vl[2] = vr[1]
    BY <1>3, <1>4, <1>5, <1>16, <1>18
  <2> QED BY <2>1, <1>18, <1>19, JoinProper
<1> DEFINE P == S \ {uv, vu}
<1>21. ASSUME NEW e \in P PROVE j2.next[e] \in P
  <2>1. CASE e = ul
    <3>1. ur # uv
      BY <2>1, <1>3, <1>4
    <3> QED BY <2>1, <3>1, <1>3, <1>5, <1>18, <1>20
  <2>2. CASE e = vl
    <3>1. vr # vu
      BY <2>2, <1>3, <1>4
    <3> QED BY <2>2, <3>1, <1>3, <1>5, <1>20
  <2>3. CASE e # ul /\ e # vl
    <3>1. j2.next[e] = s.next[e]
      BY <2>3, <1>16, <1>18, <1>20
    <3>2. s.next[e] \in S /\ s.next[e] # uv /\ s.next[e] # vu
      BY <2>3, <1>1, <1>2, <1>3 DEF Proper, Whole
    <3> QED BY <3>1, <3>2
  <2> QED BY <2>1, <2>2, <2>3
<1>22. ASSUME NEW e \in P PROVE j2.prev[e] \in P
  <2>1. CASE e = ur
    <3>1. ul # vu
      BY <2>1, <1>3, <1>4
    <3> QED BY <2>1, <3>1, <1>3, <1>5, <1>18, <1>20
  <2>2. CASE e = vr
    <3>1. vl # uv
      BY <2>2, <1>3, <1>4
    <3> QED BY <2>2, <3>1, <1>3, <1>5, <1>20
  <2>3. CASE e # ur /\ e # vr
    <3>1. j2.prev[e] = s.prev[e]
      BY <2>3, <1>16, <1>18, <1>20
    <3>2. s.prev[e] \in S /\ s.prev[e] # uv /\ s.prev[e] # vu
      BY <2>3, <1>1, <1>2, <1>3 DEF Proper, Whole
    <3> QED BY <3>1, <3>2
  <2> QED BY <2>1, <2>2, <2>3
<1>23. Whole(j2, P)
  BY <1>1, <1>21, <1>22 DEF Whole
<1>24. Proper(j2, P)
  BY <1>20, <1>21, <1>22, ProperPart
<1>25. CutOff(s, uv) = j2
  BY <1>15, <1>17, <1>19
<1>26. ASSUME NEW e \in P
       PROVE  j2.next[e] = IF s.next[e] = uv THEN ur ELSE IF s.next[e] = vu THEN vr ELSE s.next[e]
  <2>1. (s.next[e] = uv <=> e = ul) /\ (s.next[e] = vu <=> e = vl)
    BY <1>1, <1>2, <1>3 DEF Proper
  <2> QED BY <2>1, <1>1, <1>2, <1>4, <1>5, <1>16, <1>18, <1>20
<1> QED BY <1>2, <1>3, <1>20, <1>23, <1>24, <1>25, <1>26

----
(* Batches that are worked off sequentially *)

(* A sequence of edges, none of them twice.                                *)
EdgeList(b) ==
  /\ b \in Seq(Element \ Loops)
  /\ \A i, j \in DOMAIN b : i # j => Key(b[i]) # Key(b[j])

(* The states of the lists in which those of S are tours.                  *)
Tours(S) == {s \in State : Proper(s, S) /\ Whole(s, S)}

(* The elements of the first k edges.                                      *)
ArcsTo(b, k) == {e \in Element : \E i \in 1 .. k : Key(e) = Key(b[i])}

(* The arcs of a sequence of edges are the elements with its keys.         *)
LEMMA ArcsOfKeys ==
  ASSUME NEW b, EdgeList(b)
  PROVE  /\ Len(b) \in Nat /\ DOMAIN b = 1 .. Len(b)
         /\ \A i \in DOMAIN b : b[i] \in Element \ Loops /\ b[i] \in Element
         /\ Arcs(b) = {e \in Element : Key(e) \in Keys(b)}
         /\ Arcs(b) = ArcsTo(b, Len(b))
         /\ Arcs(b) \subseteq Element \ Loops
<1>1. Len(b) \in Nat /\ DOMAIN b = 1 .. Len(b) /\ \A i \in DOMAIN b : b[i] \in Element \ Loops /\ b[i] \in Element
  BY DEF EdgeList
<1>2. ASSUME NEW e PROVE e \in Arcs(b) <=> \E i \in DOMAIN b : e = b[i] \/ e = Twin(b[i])
  BY DEF Arcs
<1>3. ASSUME NEW e PROVE e \in Arcs(b) <=> e \in Element /\ \E i \in DOMAIN b : Key(e) = Key(b[i])
  <2>1. ASSUME NEW i \in DOMAIN b, e = b[i] \/ e = Twin(b[i]) PROVE e \in Element /\ Key(e) = Key(b[i])
    BY <2>1, <1>1, Elements
  <2>2. ASSUME NEW i \in DOMAIN b, e \in Element, Key(e) = Key(b[i]) PROVE e = b[i] \/ e = Twin(b[i])
    BY <2>2, <1>1, Elements
  <2> QED BY <1>2, <2>1, <2>2
<1>4. Arcs(b) = {e \in Element : Key(e) \in Keys(b)}
  BY <1>3 DEF Keys
<1>5. Arcs(b) = ArcsTo(b, Len(b))
  BY <1>1, <1>3 DEF ArcsTo
<1>6. Arcs(b) \subseteq Element \ Loops
  <2>1. ASSUME NEW i \in DOMAIN b PROVE b[i] \in Element \ Loops /\ Twin(b[i]) \in Element \ Loops
    BY <1>1, Elements
  <2> QED BY <1>2, <2>1
<1> QED BY <1>1, <1>4, <1>5, <1>6

(* One more edge.                                                          *)
LEMMA ArcsStep ==
  ASSUME NEW b, EdgeList(b)
  PROVE  /\ ArcsTo(b, 0) = {}
         /\ \A k \in 1 .. Len(b) :
              /\ ArcsTo(b, k) = ArcsTo(b, k - 1) \cup {b[k], Twin(b[k])}
              /\ b[k] \notin ArcsTo(b, k - 1) /\ Twin(b[k]) \notin ArcsTo(b, k - 1)
              /\ b[k] \in Element \ Loops /\ b[k] \in Arcs(b) /\ Twin(b[k]) \in Arcs(b)
<1>1. ArcsTo(b, 0) = {}
  BY DEF ArcsTo
<1>2. ASSUME NEW k \in 1 .. Len(b)
      PROVE  /\ ArcsTo(b, k) = ArcsTo(b, k - 1) \cup {b[k], Twin(b[k])}
             /\ b[k] \notin ArcsTo(b, k - 1) /\ Twin(b[k]) \notin ArcsTo(b, k - 1)
             /\ b[k] \in Element \ Loops /\ b[k] \in Arcs(b) /\ Twin(b[k]) \in Arcs(b)
  <2>1. k \in DOMAIN b /\ b[k] \in Element \ Loops
    BY ArcsOfKeys
  <2>2. \A i : i \in 1 .. k <=> i \in 1 .. k - 1 \/ i = k
    BY ArcsOfKeys
  <2>3. \A e \in Element : Key(e) = Key(b[k]) <=> e = b[k] \/ e = Twin(b[k])
    BY <2>1, Elements
  <2>4. b[k] \in Element /\ Twin(b[k]) \in Element /\ Key(Twin(b[k])) = Key(b[k])
    BY <2>1, Elements
  <2>5. ASSUME NEW i \in 1 .. k - 1 PROVE Key(b[i]) # Key(b[k])
    <3>1. i \in DOMAIN b /\ i # k
      BY ArcsOfKeys
    <3> QED BY <2>1, <3>1 DEF EdgeList
  <2>6. ArcsTo(b, k) = ArcsTo(b, k - 1) \cup {b[k], Twin(b[k])}
    BY <2>2, <2>3, <2>4 DEF ArcsTo
  <2>7. b[k] \notin ArcsTo(b, k - 1) /\ Twin(b[k]) \notin ArcsTo(b, k - 1)
    BY <2>4, <2>5 DEF ArcsTo
  <2>8. b[k] \in Arcs(b) /\ Twin(b[k]) \in Arcs(b)
    BY <2>1 DEF Arcs
  <2> QED BY <2>1, <2>6, <2>7, <2>8
<1> QED BY <1>1, <1>2

(* Linking the edges of a batch one by one leads from tours to tours.      *)
LEMMA LinkAllSteps ==
  ASSUME NEW b, EdgeList(b), NEW S \in SUBSET Element, Loops \subseteq S, S \cap Arcs(b) = {},
         NEW s \in Tours(S)
  PROVE  \E f : /\ f[0] = s
                /\ \A k \in 1 .. Len(b) : f[k] = Linked(f[k - 1], b[k])
                /\ \A k \in 0 .. Len(b) : f[k] \in Tours(S \cup ArcsTo(b, k))
                /\ LinkAll(s, b) = f[Len(b)]
<1> DEFINE linked[k \in 0 .. Len(b)] == IF k = 0 THEN s ELSE Linked(linked[k - 1], b[k])
<1> HIDE DEF linked
<1>1. PICK m \in Nat : m = Len(b)
  BY ArcsOfKeys
<1>2. PICK R : \A k \in 0 .. m : R[k] = Tours(S \cup ArcsTo(b, k))
  <2>1. \A k \in 0 .. m : [l \in 0 .. m |-> Tours(S \cup ArcsTo(b, l))][k] = Tours(S \cup ArcsTo(b, k))
    OBVIOUS
  <2> QED BY <2>1
<1>3. s \in R[0]
  <2>1. S \cup ArcsTo(b, 0) = S
    BY ArcsStep
  <2> QED BY <2>1, <1>2
<1>4. ASSUME NEW k \in 1 .. m, NEW t \in R[k - 1] PROVE t \in State /\ Linked(t, b[k]) \in R[k]
  <2>1. k - 1 \in 0 .. m /\ k \in 0 .. m
    OBVIOUS
  <2>2. PICK A \in SUBSET Element : A = S \cup ArcsTo(b, k - 1)
    BY DEF ArcsTo
  <2>3. t \in State /\ Proper(t, A) /\ Whole(t, A) /\ Loops \subseteq A
    BY <1>2, <2>1, <2>2 DEF Tours
  <2>4. PICK uv \in Element \ Loops : uv = b[k] /\ uv \notin A /\ Twin(uv) \notin A
    BY <1>1, <2>2, ArcsStep
  <2>5. Linked(t, uv) \in Tours(A \cup {uv, Twin(uv)})
    BY <2>3, <2>4, LinkedProper DEF Tours
  <2>6. A \cup {uv, Twin(uv)} = S \cup ArcsTo(b, k)
    BY <1>1, <2>2, <2>4, ArcsStep
  <2> QED BY <1>2, <2>1, <2>3, <2>4, <2>5, <2>6
<1>5. PICK G : \A k \in 1 .. m, t \in State : G[<<k, t>>] = Linked(t, b[k])
  <2> DEFINE H == [kt \in (1 .. m) \X State |-> Linked(kt[2], b[kt[1]])]
  <2>1. \A k \in 1 .. m, t \in State : H[<<k, t>>] = Linked(t, b[k])
    OBVIOUS
  <2> QED BY <2>1
<1>6. PICK f : Solution(f, m, s, R, G)
  BY <1>3, <1>4, <1>5, Recursion
<1>7. f[0] = s /\ \A k \in 1 .. m : f[k] = Linked(f[k - 1], b[k])
  BY <1>4, <1>5, <1>6 DEF Solution
<1>8. f = [k \in 0 .. m |-> IF k = 0 THEN s ELSE Linked(f[k - 1], b[k])]
  <2>1. \A k \in 0 .. m : f[k] = IF k = 0 THEN s ELSE Linked(f[k - 1], b[k])
    BY <1>7
  <2>2. f = [k \in 0 .. m |-> f[k]]
    BY <1>6 DEF Solution, OnNumbers
  <2> QED BY <2>1, <2>2, Zenon
<1>9. linked = [k \in 0 .. m |-> IF k = 0 THEN s ELSE Linked(linked[k - 1], b[k])]
  BY <1>8, <1>1, Zenon DEF linked
<1>10. linked[0] = s /\ \A k \in 1 .. m : linked[k] = Linked(linked[k - 1], b[k])
  BY <1>9
<1> DEFINE T == {k \in 0 .. m : linked[k] \in R[k]}
<1>11. 0 \in T
  BY <1>3, <1>10
<1>12. ASSUME NEW k \in 0 .. m - 1, k \in T PROVE k + 1 \in T
  <2>1. PICK l \in 1 .. m : l = k + 1 /\ l - 1 = k
    OBVIOUS
  <2>2. linked[l] = Linked(linked[l - 1], b[l]) /\ linked[l - 1] \in R[l - 1]
    BY <1>10, <1>12, <2>1
  <2>3. linked[l] \in R[l] /\ l \in 0 .. m
    BY <1>4, <2>2
  <2> QED BY <2>1, <2>3
<1>13. \A k \in 0 .. m : k \in T
  <2> HIDE DEF T
  <2> QED BY <1>11, <1>12, Induction
<1>14. LinkAll(s, b) = linked[Len(b)]
  BY Zenon DEF LinkAll, linked
<1>15. \A k \in 0 .. m : linked[k] \in Tours(S \cup ArcsTo(b, k))
  BY <1>2, <1>13
<1> QED BY <1>1, <1>10, <1>14, <1>15

(* Linking all the edges of a batch, one by one, leaves tours.             *)
LEMMA LinkAllTours ==
  ASSUME NEW b, EdgeList(b), NEW S \in SUBSET Element, Loops \subseteq S, S \cap Arcs(b) = {},
         NEW s \in Tours(S)
  PROVE  LinkAll(s, b) \in Tours(S \cup Arcs(b))
<1>1. PICK m \in Nat : m = Len(b)
  BY ArcsOfKeys
<1>2. PICK f : f[m] \in Tours(S \cup ArcsTo(b, m)) /\ LinkAll(s, b) = f[m]
  <2>1. m \in 0 .. m
    OBVIOUS
  <2> QED BY <2>1, <1>1, LinkAllSteps
<1> QED BY <1>1, <1>2, ArcsOfKeys

(* Cutting the edges of a batch one by one leads from tours to tours.      *)
LEMMA CutAllSteps ==
  ASSUME NEW b, EdgeList(b), NEW S \in SUBSET Element, Arcs(b) \subseteq S, NEW s \in Tours(S)
  PROVE  \E f : /\ f[0] = s
                /\ \A k \in 1 .. Len(b) : f[k] = CutOff(f[k - 1], b[k])
                /\ \A k \in 0 .. Len(b) : f[k] \in Tours(S \ ArcsTo(b, k))
                /\ CutAll(s, b) = f[Len(b)]
<1> DEFINE cut[k \in 0 .. Len(b)] == IF k = 0 THEN s ELSE CutOff(cut[k - 1], b[k])
<1> HIDE DEF cut
<1>1. PICK m \in Nat : m = Len(b)
  BY ArcsOfKeys
<1>2. PICK R : \A k \in 0 .. m : R[k] = Tours(S \ ArcsTo(b, k))
  <2>1. \A k \in 0 .. m : [l \in 0 .. m |-> Tours(S \ ArcsTo(b, l))][k] = Tours(S \ ArcsTo(b, k))
    OBVIOUS
  <2> QED BY <2>1
<1>3. s \in R[0]
  <2>1. S \ ArcsTo(b, 0) = S
    BY ArcsStep
  <2> QED BY <2>1, <1>2
<1>4. ASSUME NEW k \in 1 .. m, NEW t \in R[k - 1] PROVE t \in State /\ CutOff(t, b[k]) \in R[k]
  <2>1. k - 1 \in 0 .. m /\ k \in 0 .. m
    OBVIOUS
  <2>2. PICK A \in SUBSET Element : A = S \ ArcsTo(b, k - 1)
    OBVIOUS
  <2>3. t \in State /\ Proper(t, A) /\ Whole(t, A)
    BY <1>2, <2>1, <2>2 DEF Tours
  <2>4. PICK uv \in A \ Loops : uv = b[k] /\ Twin(uv) \in A
    BY <1>1, <2>2, ArcsStep
  <2>5. CutOff(t, uv) \in Tours(A \ {uv, Twin(uv)})
    BY <2>3, <2>4, CutOffProper DEF Tours
  <2>6. A \ {uv, Twin(uv)} = S \ ArcsTo(b, k)
    BY <1>1, <2>2, <2>4, ArcsStep
  <2> QED BY <1>2, <2>1, <2>3, <2>4, <2>5, <2>6
<1>5. PICK G : \A k \in 1 .. m, t \in State : G[<<k, t>>] = CutOff(t, b[k])
  <2> DEFINE H == [kt \in (1 .. m) \X State |-> CutOff(kt[2], b[kt[1]])]
  <2>1. \A k \in 1 .. m, t \in State : H[<<k, t>>] = CutOff(t, b[k])
    OBVIOUS
  <2> QED BY <2>1
<1>6. PICK f : Solution(f, m, s, R, G)
  BY <1>3, <1>4, <1>5, Recursion
<1>7. f[0] = s /\ \A k \in 1 .. m : f[k] = CutOff(f[k - 1], b[k])
  BY <1>4, <1>5, <1>6 DEF Solution
<1>8. f = [k \in 0 .. m |-> IF k = 0 THEN s ELSE CutOff(f[k - 1], b[k])]
  <2>1. \A k \in 0 .. m : f[k] = IF k = 0 THEN s ELSE CutOff(f[k - 1], b[k])
    BY <1>7
  <2>2. f = [k \in 0 .. m |-> f[k]]
    BY <1>6 DEF Solution, OnNumbers
  <2> QED BY <2>1, <2>2, Zenon
<1>9. cut = [k \in 0 .. m |-> IF k = 0 THEN s ELSE CutOff(cut[k - 1], b[k])]
  BY <1>8, <1>1, Zenon DEF cut
<1>10. cut[0] = s /\ \A k \in 1 .. m : cut[k] = CutOff(cut[k - 1], b[k])
  BY <1>9
<1> DEFINE T == {k \in 0 .. m : cut[k] \in R[k]}
<1>11. 0 \in T
  BY <1>3, <1>10
<1>12. ASSUME NEW k \in 0 .. m - 1, k \in T PROVE k + 1 \in T
  <2>1. PICK l \in 1 .. m : l = k + 1 /\ l - 1 = k
    OBVIOUS
  <2>2. cut[l] = CutOff(cut[l - 1], b[l]) /\ cut[l - 1] \in R[l - 1]
    BY <1>10, <1>12, <2>1
  <2>3. cut[l] \in R[l] /\ l \in 0 .. m
    BY <1>4, <2>2
  <2> QED BY <2>1, <2>3
<1>13. \A k \in 0 .. m : k \in T
  <2> HIDE DEF T
  <2> QED BY <1>11, <1>12, Induction
<1>14. CutAll(s, b) = cut[Len(b)]
  BY Zenon DEF CutAll, cut
<1>15. \A k \in 0 .. m : cut[k] \in Tours(S \ ArcsTo(b, k))
  BY <1>2, <1>13
<1> QED BY <1>1, <1>10, <1>14, <1>15

(* Cutting all the edges of a batch, one by one, leaves tours.             *)
LEMMA CutAllTours ==
  ASSUME NEW b, EdgeList(b), NEW S \in SUBSET Element, Arcs(b) \subseteq S, NEW s \in Tours(S)
  PROVE  CutAll(s, b) \in Tours(S \ Arcs(b))
<1>1. PICK m \in Nat : m = Len(b)
  BY ArcsOfKeys
<1>2. PICK f : f[m] \in Tours(S \ ArcsTo(b, m)) /\ CutAll(s, b) = f[m]
  <2>1. m \in 0 .. m
    OBVIOUS
  <2> QED BY <2>1, <1>1, CutAllSteps
<1> QED BY <1>1, <1>2, ArcsOfKeys

----
(* The batches of the parallel loops *)

(* The sequence q runs through the elements of A, each once.               *)
Enumerates(q, A) ==
  /\ q \in Seq(Element \ Loops)
  /\ \A i, j \in DOMAIN q : i # j => q[i] # q[j]
  /\ \A i \in DOMAIN q : q[i] \in A
  /\ \A e \in A : \E i \in DOMAIN q : q[i] = e

(* By the first vertex, as the code's integer sort leaves them.            *)
Sorted(q) == \A i, j \in DOMAIN q : i < j => q[i][1] <= q[j][1]

Enumerations(A) == {q \in Seq(Element \ Loops) : Enumerates(q, A) /\ Sorted(q)}

(* An element appended to an enumeration.                                  *)
LEMMA AppendEnumerates ==
  ASSUME NEW A, NEW q, Enumerates(q, A), NEW e \in Element \ Loops, e \notin A
  PROVE  Enumerates(Append(q, e), A \cup {e})
<1> DEFINE p == Append(q, e)
<1>1. PICK n \in Nat : n = Len(q) /\ DOMAIN q = 1 .. n
  BY DEF Enumerates
<1>2. /\ p \in Seq(Element \ Loops) /\ DOMAIN p = 1 .. n + 1 /\ p[n + 1] = e
      /\ \A i \in 1 .. n : p[i] = q[i]
  BY <1>1 DEF Enumerates
<1> HIDE DEF p
<1>3. \A i : i \in 1 .. n + 1 <=> i \in 1 .. n \/ i = n + 1
  BY <1>1
<1>4. \A i \in 1 .. n : q[i] \in A
  BY <1>1 DEF Enumerates
<1>5. ASSUME NEW i \in DOMAIN p, NEW j \in DOMAIN p, i # j PROVE p[i] # p[j]
  <2>1. CASE i \in 1 .. n /\ j \in 1 .. n
    BY <2>1, <1>1, <1>2, <1>5 DEF Enumerates
  <2>2. CASE i = n + 1
    <3>1. j \in 1 .. n
      BY <2>2, <1>2, <1>3, <1>5
    <3> QED BY <2>2, <3>1, <1>2, <1>4
  <2>3. CASE j = n + 1
    <3>1. i \in 1 .. n
      BY <2>3, <1>2, <1>3, <1>5
    <3> QED BY <2>3, <3>1, <1>2, <1>4
  <2> QED BY <1>2, <1>3, <2>1, <2>2, <2>3
<1>6. ASSUME NEW i \in DOMAIN p PROVE p[i] \in A \cup {e}
  BY <1>2, <1>3, <1>4
<1>7. ASSUME NEW f \in A \cup {e} PROVE \E i \in DOMAIN p : p[i] = f
  <2>1. CASE f \in A
    <3>1. PICK i \in 1 .. n : q[i] = f
      BY <2>1, <1>1 DEF Enumerates
    <3> QED BY <3>1, <1>2, <1>3
  <2>2. CASE f = e
    BY <2>2, <1>2, <1>3
  <2> QED BY <2>1, <2>2
<1> QED BY <1>2, <1>5, <1>6, <1>7 DEF p, Enumerates

(* Two enumerations one after the other.                                   *)
LEMMA ConcatEnumerates ==
  ASSUME NEW A, NEW B, NEW q, NEW r, q \in Enumerations(A), r \in Enumerations(B),
         A \subseteq Element, B \subseteq Element, \A e \in A, f \in B : e[1] < f[1]
  PROVE  q \o r \in Enumerations(A \cup B)
<1> DEFINE p == q \o r
<1>1. PICK n \in Nat, m \in Nat : n = Len(q) /\ DOMAIN q = 1 .. n /\ m = Len(r) /\ DOMAIN r = 1 .. m
  BY DEF Enumerations, Enumerates
<1>2. /\ p \in Seq(Element \ Loops) /\ DOMAIN p = 1 .. n + m
      /\ \A i \in 1 .. n : p[i] = q[i]
      /\ \A i \in 1 .. m : p[n + i] = r[i]
  BY <1>1 DEF Enumerations, Enumerates
<1>3. \A e \in Element : e[1] \in Int
  <2>1. Vertices \subseteq Int
    BY SomeVertices DEF Vertices
  <2> QED BY <2>1, Elements
<1> HIDE DEF p
<1>4. \A i \in DOMAIN p : i \in 1 .. n \/ \E k \in 1 .. m : i = n + k
  <2>1. ASSUME NEW i \in 1 .. n + m, i \notin 1 .. n PROVE i - n \in 1 .. m /\ i = n + (i - n)
    BY <2>1, <1>1
  <2> QED BY <2>1, <1>2
<1>5. (\A i \in 1 .. n : q[i] \in A) /\ (\A i \in 1 .. m : r[i] \in B)
  BY <1>1 DEF Enumerations, Enumerates
<1>6. ASSUME NEW i \in DOMAIN p, NEW j \in DOMAIN p, i < j PROVE p[i] # p[j] /\ p[i][1] <= p[j][1]
  <2>1. CASE i \in 1 .. n /\ j \in 1 .. n
    <3>1. q[i] # q[j] /\ q[i][1] <= q[j][1]
      BY <2>1, <1>1, <1>6 DEF Enumerations, Enumerates, Sorted
    <3> QED BY <2>1, <3>1, <1>2
  <2>2. CASE i \in 1 .. n /\ j \notin 1 .. n
    <3>1. PICK k \in 1 .. m : j = n + k
      BY <2>2, <1>4
    <3>2. p[i] \in A /\ p[j] \in B
      BY <2>2, <3>1, <1>2, <1>5
    <3> QED BY <3>2, <1>3
  <2>3. CASE i \notin 1 .. n
    <3>1. PICK k \in 1 .. m : i = n + k
      BY <2>3, <1>4
    <3>2. j \notin 1 .. n
      BY <3>1, <1>6
    <3>3. PICK l \in 1 .. m : j = n + l
      BY <3>2, <1>4
    <3>4. k < l
      BY <3>1, <3>3, <1>6
    <3>5. r[k] # r[l] /\ r[k][1] <= r[l][1]
      BY <3>4, <1>1 DEF Enumerations, Enumerates, Sorted
    <3> QED BY <3>1, <3>3, <3>5, <1>2
  <2> QED BY <2>1, <2>2, <2>3
<1>7. \A i, j \in DOMAIN p : i # j => p[i] # p[j]
  <2>1. \A i, j \in DOMAIN p : i # j => i < j \/ j < i
    BY <1>2
  <2> QED BY <2>1, <1>6
<1>8. ASSUME NEW i \in DOMAIN p PROVE p[i] \in A \cup B
  BY <1>2, <1>4, <1>5
<1>9. ASSUME NEW f \in A \cup B PROVE \E i \in DOMAIN p : p[i] = f
  <2>1. CASE f \in A
    <3>1. PICK i \in 1 .. n : q[i] = f
      BY <2>1, <1>1 DEF Enumerations, Enumerates
    <3>2. i \in DOMAIN p
      BY <1>2
    <3> QED BY <3>1, <3>2, <1>2
  <2>2. CASE f \in B
    <3>1. PICK i \in 1 .. m : r[i] = f
      BY <2>2, <1>1 DEF Enumerations, Enumerates
    <3>2. n + i \in DOMAIN p
      BY <1>2
    <3> QED BY <3>1, <3>2, <1>2
  <2> QED BY <2>1, <2>2
<1>10. Sorted(p)
  BY <1>6 DEF Sorted
<1>11. Enumerates(p, A \cup B)
  BY <1>2, <1>7, <1>8, <1>9 DEF Enumerates
<1> QED BY <1>2, <1>10, <1>11 DEF p, Enumerations

(* The arcs of a batch that leave u.                                       *)
LEMMA LeavingArcs ==
  ASSUME NEW b, EdgeList(b), NEW u \in Vertices
  PROVE  Leaving(b, u) \in Enumerations({e \in Arcs(b) : e[1] = u})
<1> DEFINE leaving[k \in 0 .. Len(b)] ==
        IF k = 0 THEN <<>>
        ELSE IF b[k][1] = u THEN Append(leaving[k - 1], b[k])
        ELSE IF b[k][2] = u THEN Append(leaving[k - 1], Twin(b[k]))
        ELSE leaving[k - 1]
     Put(q, k) == IF b[k][1] = u THEN Append(q, b[k])
                  ELSE IF b[k][2] = u THEN Append(q, Twin(b[k])) ELSE q
<1> HIDE DEF leaving
<1>1. PICK m \in Nat : m = Len(b)
  BY ArcsOfKeys
<1> DEFINE A(k) == {e \in ArcsTo(b, k) : e[1] = u}
           E(k) == {q \in Seq(Element \ Loops) : Enumerates(q, A(k))}
<1>2. PICK R : \A k \in 0 .. m : R[k] = E(k)
  <2> HIDE DEF E
  <2>1. \A k \in 0 .. m : [l \in 0 .. m |-> E(l)][k] = E(k)
    OBVIOUS
  <2> QED BY <2>1
<1>3. <<>> \in R[0]
  <2>1. A(0) = {}
    BY ArcsStep
  <2>2. Enumerates(<<>>, {})
    BY DEF Enumerates
  <2>3. R[0] = E(0) /\ <<>> \in Seq(Element \ Loops)
    <3> HIDE DEF E
    <3> QED BY <1>2
  <2> QED BY <2>1, <2>2, <2>3
<1>4. ASSUME NEW k \in 1 .. m, NEW q \in R[k - 1]
      PROVE  q \in Seq(Element \ Loops) /\ Put(q, k) \in R[k]
  <2>1. k - 1 \in 0 .. m /\ k \in 0 .. m
    OBVIOUS
  <2>2. q \in Seq(Element \ Loops) /\ Enumerates(q, A(k - 1))
    BY <1>2, <2>1
  <2>3. /\ ArcsTo(b, k) = ArcsTo(b, k - 1) \cup {b[k], Twin(b[k])}
        /\ b[k] \notin ArcsTo(b, k - 1) /\ Twin(b[k]) \notin ArcsTo(b, k - 1)
        /\ b[k] \in Element \ Loops
    BY <1>1, ArcsStep
  <2>4. Twin(b[k])[1] = b[k][2] /\ Twin(b[k]) \in Element \ Loops /\ b[k][1] # b[k][2]
    BY <2>3, Elements
  <2>5. CASE b[k][1] = u
    <3>1. A(k) = A(k - 1) \cup {b[k]}
      BY <2>3, <2>4, <2>5
    <3>2. b[k] \notin A(k - 1)
      BY <2>3
    <3>3. Enumerates(Append(q, b[k]), A(k))
      <4> HIDE DEF A
      <4> QED BY <2>2, <2>3, <3>1, <3>2, AppendEnumerates
    <3>4. Append(q, b[k]) \in E(k)
      BY <2>2, <2>3, <3>3
    <3> QED BY <1>2, <2>1, <2>2, <2>5, <3>4
  <2>6. CASE b[k][1] # u /\ b[k][2] = u
    <3>1. A(k) = A(k - 1) \cup {Twin(b[k])}
      BY <2>3, <2>4, <2>6
    <3>2. Twin(b[k]) \notin A(k - 1)
      BY <2>3
    <3>3. Enumerates(Append(q, Twin(b[k])), A(k))
      <4> HIDE DEF A
      <4> QED BY <2>2, <2>4, <3>1, <3>2, AppendEnumerates
    <3>4. Append(q, Twin(b[k])) \in E(k)
      BY <2>2, <2>4, <3>3
    <3> QED BY <1>2, <2>1, <2>2, <2>6, <3>4
  <2>7. CASE b[k][1] # u /\ b[k][2] # u
    <3>1. A(k) = A(k - 1)
      BY <2>3, <2>4, <2>7
    <3>2. Put(q, k) = q
      BY <2>7
    <3>3. q \in E(k)
      BY <2>2, <3>1
    <3> QED BY <1>2, <2>1, <2>2, <3>2, <3>3
  <2> QED BY <2>5, <2>6, <2>7
<1>5. PICK G : \A k \in 1 .. m, q \in Seq(Element \ Loops) : G[<<k, q>>] = Put(q, k)
  <2> DEFINE H == [kq \in (1 .. m) \X Seq(Element \ Loops) |-> Put(kq[2], kq[1])]
  <2>1. \A k \in 1 .. m, q \in Seq(Element \ Loops) : H[<<k, q>>] = Put(q, k)
    <3>1. TAKE k \in 1 .. m, q \in Seq(Element \ Loops)
    <3>2. <<k, q>> \in (1 .. m) \X Seq(Element \ Loops) /\ <<k, q>>[1] = k /\ <<k, q>>[2] = q
      OBVIOUS
    <3> HIDE DEF Put
    <3>3. H[<<k, q>>] = Put(<<k, q>>[2], <<k, q>>[1])
      BY <3>2, Zenon
    <3> QED BY <3>2, <3>3
  <2> HIDE DEF H, Put
  <2> QED BY <2>1
<1> HIDE DEF E, A
<1>6. PICK f : Solution(f, m, <<>>, R, G)
  <2> HIDE DEF Put
  <2> QED BY <1>3, <1>4, <1>5, Recursion
<1>7. f[0] = <<>> /\ \A k \in 1 .. m : f[k] = Put(f[k - 1], k)
  <2> HIDE DEF Put
  <2> QED BY <1>4, <1>5, <1>6 DEF Solution
<1>8. f = [k \in 0 .. m |-> IF k = 0 THEN <<>> ELSE Put(f[k - 1], k)]
  <2> HIDE DEF Put
  <2>1. \A k \in 0 .. m : f[k] = IF k = 0 THEN <<>> ELSE Put(f[k - 1], k)
    BY <1>7
  <2>2. f = [k \in 0 .. m |-> f[k]]
    BY <1>6 DEF Solution, OnNumbers
  <2> QED BY <2>1, <2>2, Zenon
<1>9. leaving = [k \in 0 .. m |-> IF k = 0 THEN <<>> ELSE Put(leaving[k - 1], k)]
  BY <1>8, <1>1, Zenon DEF leaving
<1>10. leaving[0] = <<>> /\ \A k \in 1 .. m : leaving[k] = Put(leaving[k - 1], k)
  <2> HIDE DEF Put
  <2> QED BY <1>9
<1> DEFINE T == {k \in 0 .. m : leaving[k] \in R[k]}
<1>11. 0 \in T
  BY <1>3, <1>10
<1>12. ASSUME NEW k \in 0 .. m - 1, k \in T PROVE k + 1 \in T
  <2> HIDE DEF Put
  <2>1. PICK l \in 1 .. m : l = k + 1 /\ l - 1 = k
    OBVIOUS
  <2>2. leaving[l] = Put(leaving[l - 1], l) /\ leaving[l - 1] \in R[l - 1]
    BY <1>10, <1>12, <2>1
  <2>3. leaving[l] \in R[l] /\ l \in 0 .. m
    BY <1>4, <2>2
  <2> QED BY <2>1, <2>3
<1>13. m \in T
  <2>1. \A k \in 0 .. m : k \in T
    BY <1>11, <1>12, Induction
  <2> QED BY <2>1
<1>14. Leaving(b, u) = leaving[m]
  BY Zenon, <1>1 DEF Leaving, leaving
<1>15. Leaving(b, u) \in Seq(Element \ Loops) /\ Enumerates(Leaving(b, u), {e \in Arcs(b) : e[1] = u})
  <2>1. ArcsTo(b, m) = Arcs(b)
    BY <1>1, ArcsOfKeys
  <2>2. leaving[m] \in E(m)
    BY <1>2, <1>13
  <2> QED BY <1>14, <2>1, <2>2 DEF E, A
<1>16. Sorted(Leaving(b, u))
  <2> DEFINE q == Leaving(b, u)
  <2>1. \A i \in DOMAIN q : q[i][1] = u
    BY <1>15 DEF Enumerates
  <2>2. u \in Int
    BY SomeVertices DEF Vertices
  <2> QED BY <2>1, <2>2 DEF Sorted
<1> QED BY <1>15, <1>16 DEF Enumerations

(* links_both_dirs runs through the arcs of the batch, sorted by first vertex. *)
LEMMA BothDirectionsSorted ==
  ASSUME NEW b, EdgeList(b)
  PROVE  BothDirections(b) \in Enumerations(Arcs(b))
<1> DEFINE sorted[u \in 0 .. NumVertices] ==
              IF u = 0 THEN <<>> ELSE sorted[u - 1] \o Leaving(b, u)
<1> HIDE DEF sorted
<1>1. PICK m \in Nat : m = NumVertices /\ Vertices = 1 .. m
  BY SomeVertices DEF Vertices
<1> DEFINE A(k) == {e \in Arcs(b) : e[1] <= k}
<1>2. PICK R : \A k \in 0 .. m : R[k] = Enumerations(A(k))
  <2> HIDE DEF A
  <2>1. \A k \in 0 .. m : [l \in 0 .. m |-> Enumerations(A(l))][k] = Enumerations(A(k))
    OBVIOUS
  <2> QED BY <2>1
<1>3. \A e \in Arcs(b) : e \in Element /\ e[1] \in 1 .. m
  BY <1>1, ArcsOfKeys, Elements
<1>4. <<>> \in R[0]
  <2>1. A(0) = {}
    BY <1>3
  <2>2. Enumerates(<<>>, {}) /\ Sorted(<<>>)
    BY DEF Enumerates, Sorted
  <2>3. <<>> \in Seq(Element \ Loops)
    OBVIOUS
  <2>4. R[0] = Enumerations(A(0))
    <3> HIDE DEF A
    <3> QED BY <1>2
  <2> QED BY <2>1, <2>2, <2>3, <2>4 DEF Enumerations
<1>5. ASSUME NEW k \in 1 .. m, NEW q \in R[k - 1]
      PROVE  q \in Seq(Element \ Loops) /\ q \o Leaving(b, k) \in R[k]
  <2>1. k - 1 \in 0 .. m /\ k \in 0 .. m
    OBVIOUS
  <2>2. q \in Enumerations(A(k - 1)) /\ q \in Seq(Element \ Loops)
    BY <1>2, <2>1 DEF Enumerations
  <2> DEFINE B == {e \in Arcs(b) : e[1] = k}
  <2>3. Leaving(b, k) \in Enumerations(B)
    BY <1>1, LeavingArcs
  <2>4. A(k) = A(k - 1) \cup B
    BY <1>3
  <2>5. A(k - 1) \subseteq Element /\ B \subseteq Element /\ \A e \in A(k - 1), f \in B : e[1] < f[1]
    BY <1>3
  <2> HIDE DEF A, B
  <2>6. q \o Leaving(b, k) \in Enumerations(A(k - 1) \cup B)
    BY <2>2, <2>3, <2>5, ConcatEnumerates
  <2> QED BY <1>2, <2>1, <2>2, <2>4, <2>6
<1>6. PICK G : \A k \in 1 .. m, q \in Seq(Element \ Loops) : G[<<k, q>>] = q \o Leaving(b, k)
  <2> DEFINE H == [kq \in (1 .. m) \X Seq(Element \ Loops) |-> kq[2] \o Leaving(b, kq[1])]
  <2>1. \A k \in 1 .. m, q \in Seq(Element \ Loops) : H[<<k, q>>] = q \o Leaving(b, k)
    OBVIOUS
  <2> QED BY <2>1
<1> HIDE DEF A
<1>7. PICK f : Solution(f, m, <<>>, R, G)
  BY <1>4, <1>5, <1>6, Recursion
<1>8. f[0] = <<>> /\ \A k \in 1 .. m : f[k] = f[k - 1] \o Leaving(b, k)
  BY <1>5, <1>6, <1>7 DEF Solution
<1>9. f = [k \in 0 .. m |-> IF k = 0 THEN <<>> ELSE f[k - 1] \o Leaving(b, k)]
  <2>1. \A k \in 0 .. m : f[k] = IF k = 0 THEN <<>> ELSE f[k - 1] \o Leaving(b, k)
    <3>1. TAKE k \in 0 .. m
    <3>2. k # 0 => k \in 1 .. m
      OBVIOUS
    <3> QED BY <3>2, <1>8, Zenon
  <2>2. f = [k \in 0 .. m |-> f[k]]
    BY <1>7 DEF Solution, OnNumbers
  <2> QED BY <2>1, <2>2, Zenon
<1>10. sorted = [k \in 0 .. m |-> IF k = 0 THEN <<>> ELSE sorted[k - 1] \o Leaving(b, k)]
  BY <1>9, <1>1, Zenon DEF sorted
<1>11. sorted[0] = <<>> /\ \A k \in 1 .. m : sorted[k] = sorted[k - 1] \o Leaving(b, k)
  <2>1. 0 \in 0 .. m /\ \A k \in 1 .. m : k \in 0 .. m /\ k # 0
    OBVIOUS
  <2>2. \A k \in 0 .. m : sorted[k] = IF k = 0 THEN <<>> ELSE sorted[k - 1] \o Leaving(b, k)
    BY <1>10, Zenon
  <2> QED BY <2>1, <2>2, Zenon
<1> DEFINE T == {k \in 0 .. m : sorted[k] \in R[k]}
<1>12. 0 \in T
  BY <1>4, <1>11
<1>13. ASSUME NEW k \in 0 .. m - 1, k \in T PROVE k + 1 \in T
  <2>1. PICK l \in 1 .. m : l = k + 1 /\ l - 1 = k
    OBVIOUS
  <2>2. sorted[l] = sorted[l - 1] \o Leaving(b, l) /\ sorted[l - 1] \in R[l - 1]
    BY <1>11, <1>13, <2>1
  <2>3. sorted[l] \in R[l] /\ l \in 0 .. m
    BY <1>5, <2>2
  <2> QED BY <2>1, <2>3
<1>14. m \in T
  <2>1. \A k \in 0 .. m : k \in T
    BY <1>12, <1>13, Induction
  <2> QED BY <2>1
<1>15. BothDirections(b) = sorted[m]
  BY Zenon, <1>1 DEF BothDirections, sorted
<1>16. A(m) = Arcs(b)
  BY <1>3 DEF A
<1> QED BY <1>2, <1>14, <1>15, <1>16

----
(* The inductive invariant *)

(* The directions of the edges in F.                                       *)
Of(F) == {e \in Element \ Loops : Key(e) \in F}

(* The k-th join of each iteration i in D.                                 *)
Indices(T, D) == UNION {{<<i, k>> : k \in DOMAIN T[i]} : i \in D}

(* The joins J of T pair up the open ends of the lists of S.               *)
Fits(s, S, T, J) ==
  /\ \A j \in J : LET x == T[j[1]][j[2]][1]
                      y == T[j[1]][j[2]][2]
                  IN x \in S /\ y \in S /\ s.next[x] = Null /\ s.prev[y] = Null /\ x[2] = y[1]
  /\ \A j, k \in J : j # k => /\ T[j[1]][j[2]][1] # T[k[1]][k[2]][1]
                              /\ T[j[1]][j[2]][2] # T[k[1]][k[2]][2]
  /\ \A e \in S : s.next[e] = Null => \E j \in J : T[j[1]][j[2]][1] = e
  /\ \A e \in S : s.prev[e] = Null => \E j \in J : T[j[1]][j[2]][2] = e

(* The elements there are.                                                 *)
Placed == Loops \cup live

(* Between operations the elements are those of the forest, in tours.      *)
Idle ==
  stage = "idle" =>
    live = Of(forest) /\ mark \cap live = {} /\ Sequences \in Tours(Placed)

(* BatchLink *)

NewArcs == {batch[i] : i \in DOMAIN batch}

(* The batch has both directions of new edges, sorted.                     *)
LinkBatch ==
  stage \in {"linkSplit", "linkJoin"} =>
    /\ batch \in Enumerations(NewArcs)
    /\ \A e \in NewArcs : Twin(e) \in NewArcs
    /\ NewArcs \subseteq Of(forest)
    /\ mark \cap live = {}
    /\ Proper(Sequences, Placed)

(* Iteration i is over.                                                    *)
Ran(i) == i \in DOMAIN batch \ todo

(* The lists are open at the new elements and where the iterations that    *)
(* are over have split them; what came there is remembered.                *)
LinkSplitting ==
  stage = "linkSplit" =>
    /\ live = Of(forest) \ {e \in NewArcs : \E i \in todo : batch[i] = Key(e)}
    /\ \A e \in Placed :
         next[e] = Null <=> \/ e \in NewArcs
                            \/ \E i \in DOMAIN batch : Ran(i) /\ LastOfVertex(i) /\ e = Loop(batch[i][1])
    /\ \A e \in Placed :
         prev[e] = Null <=> \/ e \in NewArcs
                            \/ \E i \in DOMAIN batch : Ran(i) /\ LastOfVertex(i) /\ e = successors[i]
    /\ \A i \in DOMAIN batch :
         Ran(i) /\ LastOfVertex(i) =>
           successors[i] \in Placed \ NewArcs /\ successors[i][1] = batch[i][1]

(* The joins of BatchLink, and that those still to be made fit.            *)
LinkTargets == [i \in DOMAIN batch |-> LinkJoins(i)]

LinkJoining ==
  stage = "linkJoin" =>
    live = Of(forest) /\ Fits(Sequences, Placed, LinkTargets, Indices(LinkTargets, todo))

(* BatchCut *)

(* The batch has edges that the caller has cut.                            *)
CutBatch ==
  stage \in {"cutTargets", "cutSplit", "cutJoin"} =>
    /\ EdgeList(batch)
    /\ Keys(batch) \cap forest = {}
    /\ todo \subseteq Chosen \/ stage = "cutTargets"

(* The elements of the edges that are cut in this round.                   *)
CutArcs == {e \in Element : \E i \in Chosen : Key(e) = Key(batch[i])}

(* The cuts of the round are marked, the tours still whole.                *)
CutStarting ==
  stage = "cutTargets" =>
    /\ live = Of(forest) \cup Arcs(batch)
    /\ mark \cap live = CutArcs
    /\ Sequences \in Tours(Placed)
    /\ \A i \in DOMAIN batch : cutter[i].pc = "uv" /\ cutter[i].pending = Null

(* The tours of s, opened around the elements of M.                        *)
OpenedAt(s, M) ==
  [next |-> [e \in Element |-> IF e \in M \/ s.next[e] \in M THEN Null ELSE s.next[e]],
   prev |-> [e \in Element |-> IF e \in M \/ s.prev[e] \in M THEN Null ELSE s.prev[e]]]

(* Between the tours s of the beginning and OpenedAt(s, CutArcs).          *)
Between(s) ==
  /\ \A e \in Placed :
       \/ next[e] = s.next[e]
       \/ next[e] = Null /\ (e \in CutArcs \/ s.next[e] \in CutArcs)
  /\ \A e \in Placed :
       \/ prev[e] = s.prev[e]
       \/ prev[e] = Null /\ (e \in CutArcs \/ s.prev[e] \in CutArcs)
  /\ \A e \in Placed : prev[e] = Null => next[s.prev[e]] = Null
  /\ \A e \in Placed : next[e] = Null =>
        prev[s.next[e]] = Null \/ \E i \in todo : cutter[i].pending = s.next[e]
  /\ \A i \in DOMAIN batch :
        LET f == cutter[i].pending IN
        f # Null => i \in todo /\ f \in Placed /\ next[s.prev[f]] = Null

(* Iteration i is past the steps before those of pcs.                      *)
Past(i, pcs) == i \notin todo \/ cutter[i].pc \in pcs

(* How far iteration i of the loop that splits is.                         *)
ProgressOf(s, i) ==
  LET uv == batch[i]
      vu == Twin(uv)
  IN /\ Past(i, {"vu", "uvPrev", "uvCut", "vuPrev", "vuCut", "done"}) => next[uv] = Null
     /\ Past(i, {"uvPrev", "uvCut", "vuPrev", "vuCut", "done"}) => next[vu] = Null
     /\ Past(i, {"vuPrev", "vuCut", "done"}) => next[s.prev[uv]] = Null
     /\ Past(i, {"done"}) => next[s.prev[vu]] = Null
     /\ cutter[i].pc = "uvCut" => cutter[i].predecessor = s.prev[uv]
     /\ cutter[i].pc = "vuCut" => cutter[i].predecessor = s.prev[vu]

(* How far the loop that splits is.                                        *)
Progress(s) == \A i \in Chosen : ProgressOf(s, i)

(* There are tours that the loop is taking apart, and the targets are      *)
(* those that fit when they are taken apart at all the cuts.               *)
CutSplitting ==
  stage = "cutSplit" =>
    /\ live = Of(forest) \cup Arcs(batch)
    /\ mark \cap live = CutArcs
    /\ \E s \in Tours(Placed) :
         /\ Fits(OpenedAt(s, CutArcs), Placed \ CutArcs, targets, Indices(targets, Chosen))
         /\ Between(s) /\ Progress(s)

(* What stays is in lists that the joins still to be made fit.             *)
CutJoining ==
  stage = "cutJoin" =>
    /\ live = Of(forest) \cup {e \in Element : \E i \in ignored \cup todo : Key(e) = Key(batch[i])}
    /\ mark \cap live = Doomed
    /\ Proper(Sequences, Staying)
    /\ Fits(Sequences, Staying, targets, Indices(targets, todo))

(* The inductive invariant.                                                *)
IInv ==
  /\ TypeOK
  /\ Idle
  /\ LinkBatch /\ LinkSplitting /\ LinkJoining
  /\ CutBatch /\ CutStarting /\ CutSplitting /\ CutJoining

----
(* The operators of BatchLink and BatchCut *)

(* The cuts left for the next round are those that are ignored.            *)
LEMMA NextCutsList ==
  ASSUME EdgeList(batch), ignored \subseteq DOMAIN batch
  PROVE  EdgeList(NextCuts) /\ Keys(NextCuts) = {Key(batch[i]) : i \in ignored}
<1> DEFINE left[k \in 0 .. Len(batch)] ==
        IF k = 0 THEN <<>>
        ELSE IF k \in ignored THEN Append(left[k - 1], batch[k]) ELSE left[k - 1]
     Put(q, k) == IF k \in ignored THEN Append(q, batch[k]) ELSE q
     K(k) == {Key(batch[i]) : i \in {j \in ignored : j <= k}}
     E(k) == {q \in Seq(Element \ Loops) : EdgeList(q) /\ Keys(q) = K(k)}
<1> HIDE DEF left
<1>1. PICK m \in Nat : m = Len(batch) /\ DOMAIN batch = 1 .. m
  BY ArcsOfKeys
<1>2. PICK R : \A k \in 0 .. m : R[k] = E(k)
  <2> HIDE DEF E
  <2>1. \A k \in 0 .. m : [l \in 0 .. m |-> E(l)][k] = E(k)
    OBVIOUS
  <2> QED BY <2>1
<1>3. <<>> \in R[0]
  <2>1. K(0) = {}
    BY <1>1
  <2>2. EdgeList(<<>>) /\ Keys(<<>>) = {}
    BY DEF EdgeList, Keys
  <2>3. R[0] = E(0) /\ <<>> \in Seq(Element \ Loops)
    <3> HIDE DEF E
    <3> QED BY <1>2
  <2> QED BY <2>1, <2>2, <2>3
<1>4. ASSUME NEW k \in 1 .. m, NEW q \in R[k - 1]
      PROVE  q \in Seq(Element \ Loops) /\ Put(q, k) \in R[k]
  <2>1. k - 1 \in 0 .. m /\ k \in 0 .. m /\ k \in DOMAIN batch
    BY <1>1
  <2>2. q \in Seq(Element \ Loops) /\ EdgeList(q) /\ Keys(q) = K(k - 1)
    BY <1>2, <2>1
  <2>3. CASE k \in ignored
    <3>1. PICK e \in Element \ Loops : e = batch[k]
      BY <2>1, ArcsOfKeys
    <3>2. Key(e) \notin Keys(q)
      <4>1. ASSUME NEW j \in ignored, j <= k - 1 PROVE Key(batch[j]) # Key(e)
        <5>1. j \in DOMAIN batch /\ j # k
          BY <1>1, <4>1
        <5> QED BY <5>1, <2>1, <3>1 DEF EdgeList
      <4> QED BY <4>1, <2>2
    <3>3. PICK n \in Nat : n = Len(q) /\ DOMAIN q = 1 .. n
      BY <2>2
    <3>4. PICK p : p = Append(q, e)
      OBVIOUS
    <3>5. /\ p \in Seq(Element \ Loops) /\ DOMAIN p = 1 .. n + 1 /\ p[n + 1] = e
          /\ \A i \in 1 .. n : p[i] = q[i]
      BY <2>2, <3>3, <3>4
    <3>6. \A i : i \in 1 .. n + 1 <=> i \in 1 .. n \/ i = n + 1
      BY <3>3
    <3>7. Keys(p) = Keys(q) \cup {Key(e)}
      BY <3>3, <3>5, <3>6 DEF Keys
    <3>8. EdgeList(p)
      <4>1. \A i \in 1 .. n : Key(p[i]) # Key(e)
        BY <3>2, <3>3, <3>5 DEF Keys
      <4>2. \A i, j \in 1 .. n : i # j => Key(p[i]) # Key(p[j])
        BY <2>2, <3>3, <3>5 DEF EdgeList
      <4> QED BY <4>1, <4>2, <3>5, <3>6 DEF EdgeList
    <3>9. K(k) = K(k - 1) \cup {Key(e)}
      <4>1. \A j \in ignored : j <= k <=> j <= k - 1 \/ j = k
        BY <1>1
      <4> QED BY <4>1, <2>3, <3>1
    <3>10. p \in E(k)
      <4> HIDE DEF K
      <4> QED BY <2>2, <3>5, <3>7, <3>8, <3>9
    <3> QED BY <1>2, <2>1, <2>2, <2>3, <3>1, <3>4, <3>10
  <2>4. CASE k \notin ignored
    <3>1. K(k) = K(k - 1)
      <4>1. \A j \in ignored : j <= k <=> j <= k - 1
        BY <1>1, <2>4
      <4> QED BY <4>1
    <3>2. q \in E(k)
      <4> HIDE DEF K
      <4> QED BY <2>2, <3>1
    <3> QED BY <1>2, <2>1, <2>2, <2>4, <3>2
  <2> QED BY <2>3, <2>4
<1>5. PICK G : \A k \in 1 .. m, q \in Seq(Element \ Loops) : G[<<k, q>>] = Put(q, k)
  <2> DEFINE H == [kq \in (1 .. m) \X Seq(Element \ Loops) |-> Put(kq[2], kq[1])]
  <2>1. \A k \in 1 .. m, q \in Seq(Element \ Loops) : H[<<k, q>>] = Put(q, k)
    <3>1. TAKE k \in 1 .. m, q \in Seq(Element \ Loops)
    <3>2. <<k, q>> \in (1 .. m) \X Seq(Element \ Loops) /\ <<k, q>>[1] = k /\ <<k, q>>[2] = q
      OBVIOUS
    <3> HIDE DEF Put
    <3>3. H[<<k, q>>] = Put(<<k, q>>[2], <<k, q>>[1])
      BY <3>2, Zenon
    <3> QED BY <3>2, <3>3
  <2> HIDE DEF H, Put
  <2> QED BY <2>1
<1> HIDE DEF E
<1>6. PICK f : Solution(f, m, <<>>, R, G)
  <2> HIDE DEF Put
  <2> QED BY <1>3, <1>4, <1>5, Recursion
<1>7. f[0] = <<>> /\ \A k \in 1 .. m : f[k] = Put(f[k - 1], k)
  <2> HIDE DEF Put
  <2> QED BY <1>4, <1>5, <1>6 DEF Solution
<1>8. f = [k \in 0 .. m |-> IF k = 0 THEN <<>> ELSE Put(f[k - 1], k)]
  <2> HIDE DEF Put
  <2>1. \A k \in 0 .. m : f[k] = IF k = 0 THEN <<>> ELSE Put(f[k - 1], k)
    BY <1>7
  <2>2. f = [k \in 0 .. m |-> f[k]]
    BY <1>6 DEF Solution, OnNumbers
  <2> QED BY <2>1, <2>2, Zenon
<1>9. left = [k \in 0 .. m |-> IF k = 0 THEN <<>> ELSE Put(left[k - 1], k)]
  BY <1>8, <1>1, Zenon DEF left
<1>10. left[0] = <<>> /\ \A k \in 1 .. m : left[k] = Put(left[k - 1], k)
  <2> HIDE DEF Put
  <2> QED BY <1>9
<1> DEFINE T == {k \in 0 .. m : left[k] \in R[k]}
<1>11. 0 \in T
  BY <1>3, <1>10
<1>12. ASSUME NEW k \in 0 .. m - 1, k \in T PROVE k + 1 \in T
  <2> HIDE DEF Put
  <2>1. PICK l \in 1 .. m : l = k + 1 /\ l - 1 = k
    OBVIOUS
  <2>2. left[l] = Put(left[l - 1], l) /\ left[l - 1] \in R[l - 1]
    BY <1>10, <1>12, <2>1
  <2>3. left[l] \in R[l] /\ l \in 0 .. m
    BY <1>4, <2>2
  <2> QED BY <2>1, <2>3
<1>13. m \in T
  <2>1. \A k \in 0 .. m : k \in T
    BY <1>11, <1>12, Induction
  <2> QED BY <2>1
<1>14. NextCuts = left[m]
  BY Zenon, <1>1 DEF NextCuts, left
<1>15. K(m) = {Key(batch[i]) : i \in ignored}
  <2>1. \A j \in ignored : j <= m
    BY <1>1
  <2> QED BY <2>1
<1>16. left[m] \in E(m)
  BY <1>2, <1>13
<1> QED BY <1>14, <1>15, <1>16 DEF E

(* The recursion that computes a tree.                                     *)
LEMMA TreeReach ==
  ASSUME NEW F, NEW u \in Vertices
  PROVE  \E reach : /\ reach[0] = {u}
                    /\ \A k \in 1 .. NumVertices :
                         reach[k] = UNION {{v} \cup Neighbours(F, v) : v \in reach[k - 1]}
                    /\ Tree(F, u) = reach[NumVertices]
<1> DEFINE reach[k \in 0 .. NumVertices] ==
        IF k = 0 THEN {u}
        ELSE UNION {{v} \cup Neighbours(F, v) : v \in reach[k - 1]}
     Step(U) == UNION {{v} \cup Neighbours(F, v) : v \in U}
<1> HIDE DEF reach
<1>1. PICK m \in Nat \ {0} : m = NumVertices
  BY SomeVertices
<1>2. PICK R : \A k \in 0 .. m : R[k] = SUBSET Vertices
  <2>1. \A k \in 0 .. m : [l \in 0 .. m |-> SUBSET Vertices][k] = SUBSET Vertices
    OBVIOUS
  <2> QED BY <2>1
<1>3. {u} \in R[0]
  BY <1>2
<1>4. ASSUME NEW k \in 1 .. m, NEW U \in R[k - 1] PROVE U \in SUBSET Vertices /\ Step(U) \in R[k]
  <2>1. k - 1 \in 0 .. m /\ k \in 0 .. m
    OBVIOUS
  <2>2. U \in SUBSET Vertices
    BY <1>2, <2>1
  <2>3. Step(U) \in SUBSET Vertices
    BY <2>2 DEF Neighbours
  <2> QED BY <1>2, <2>1, <2>2, <2>3
<1>5. PICK G : \A k \in 1 .. m, U \in SUBSET Vertices : G[<<k, U>>] = Step(U)
  <2> DEFINE H == [kU \in (1 .. m) \X SUBSET Vertices |-> Step(kU[2])]
  <2>1. \A k \in 1 .. m, U \in SUBSET Vertices : H[<<k, U>>] = Step(U)
    <3>1. TAKE k \in 1 .. m, U \in SUBSET Vertices
    <3>2. <<k, U>> \in (1 .. m) \X SUBSET Vertices /\ <<k, U>>[2] = U
      OBVIOUS
    <3> HIDE DEF Step
    <3>3. H[<<k, U>>] = Step(<<k, U>>[2])
      BY <3>2, Zenon
    <3> QED BY <3>2, <3>3
  <2> HIDE DEF H, Step
  <2> QED BY <2>1
<1> HIDE DEF Step
<1>6. PICK f : Solution(f, m, {u}, R, G)
  <2>1. PICK base : base = {u}
    OBVIOUS
  <2>2. base \in R[0] /\ \A k \in 1 .. m : \A U \in R[k - 1] : G[<<k, U>>] \in R[k]
    BY <1>3, <1>4, <1>5, <2>1
  <2>3. \E f : Solution(f, m, base, R, G)
    BY <2>2, Recursion
  <2> QED BY <2>1, <2>3
<1>7. f[0] = {u} /\ \A k \in 1 .. m : f[k] = Step(f[k - 1])
  BY <1>4, <1>5, <1>6 DEF Solution
<1>8. f = [k \in 0 .. m |-> IF k = 0 THEN {u} ELSE Step(f[k - 1])]
  <2>1. \A k \in 0 .. m : f[k] = IF k = 0 THEN {u} ELSE Step(f[k - 1])
    BY <1>7
  <2>2. f = [k \in 0 .. m |-> f[k]]
    BY <1>6 DEF Solution, OnNumbers
  <2> QED BY <2>1, <2>2, Zenon
<1>9. reach = [k \in 0 .. m |-> IF k = 0 THEN {u} ELSE Step(reach[k - 1])]
  BY <1>8, <1>1, Zenon DEF reach, Step
<1>10. reach[0] = {u} /\ \A k \in 1 .. m : reach[k] = Step(reach[k - 1])
  BY <1>9
<1>11. Tree(F, u) = reach[NumVertices]
  BY Zenon DEF Tree, reach
<1> QED BY <1>1, <1>10, <1>11 DEF Step

(* A vertex is in one tree with its neighbours.                            *)
LEMMA TreeOfNeighbours ==
  ASSUME NEW F, NEW u \in Vertices
  PROVE  Neighbours(F, u) \subseteq Tree(F, u)
<1> DEFINE Step(U) == UNION {{v} \cup Neighbours(F, v) : v \in U}
<1>1. PICK m \in Nat \ {0} : m = NumVertices
  BY SomeVertices
<1>10. PICK reach : /\ reach[0] = {u} /\ \A k \in 1 .. m : reach[k] = Step(reach[k - 1])
                    /\ Tree(F, u) = reach[m]
  BY <1>1, TreeReach
<1> HIDE DEF Step
<1> DEFINE T == {k \in 0 .. m : u \in reach[k]}
<1>11. 0 \in T
  BY <1>10
<1>12. ASSUME NEW k \in 0 .. m - 1, k \in T PROVE k + 1 \in T
  <2>1. PICK l \in 1 .. m : l = k + 1 /\ l - 1 = k
    OBVIOUS
  <2>2. u \in Step(reach[l - 1])
    BY <1>12, <2>1 DEF Step
  <2>3. l \in 0 .. m /\ u \in reach[l]
    BY <1>10, <2>2
  <2> QED BY <2>1, <2>3
<1>13. m - 1 \in T
  <2>1. \A k \in 0 .. m : k \in T
    BY <1>11, <1>12, Induction
  <2>2. m - 1 \in 0 .. m
    OBVIOUS
  <2> QED BY <2>1, <2>2
<1>14. Neighbours(F, u) \subseteq reach[m]
  <2>1. Neighbours(F, u) \subseteq Step(reach[m - 1])
    BY <1>13 DEF Step
  <2>2. m \in 1 .. m
    OBVIOUS
  <2> QED BY <2>1, <2>2, <1>10
<1> QED BY <1>10, <1>14

(* A batch that closes no cycle has no edge that is there already.         *)
LEMMA NoOldEdge ==
  ASSUME NEW b, EdgeList(b), NEW F, Acyclic(F, b)
  PROVE  Keys(b) \cap F = {}
<1>1. SUFFICES ASSUME NEW i \in DOMAIN b, Key(b[i]) \in F PROVE FALSE
  BY DEF Keys
<1>2. PICK H : H = F \cup {Key(b[j]) : j \in 1 .. i - 1}
  OBVIOUS
<1>3. b[i] \in Element /\ b[i][1] \in Vertices /\ b[i][2] \in Vertices /\ b[i] = <<b[i][1], b[i][2]>>
  BY ArcsOfKeys, Elements
<1>4. b[i][2] \notin Tree(H, b[i][1])
  BY <1>2 DEF Acyclic
<1>5. b[i][2] \in Neighbours(H, b[i][1])
  BY <1>1, <1>2, <1>3 DEF Neighbours
<1> QED BY <1>3, <1>4, <1>5, TreeOfNeighbours

----
(* The walks to the join targets *)

(* The lists of S are tours in which the elements of M are marked.         *)
Marked(S, M) ==
  /\ S \in SUBSET Element /\ mark \in SUBSET Element
  /\ Sequences \in Tours(S)
  /\ M = mark \cap S
  /\ \A a \in M : Twin(a) \in M

(* The element after the twin of a.                                        *)
After(a) == next[Twin(a)]

(* From a marked element to the one after its twin and back.               *)
LEMMA AfterFacts ==
  ASSUME NEW S, NEW M, Marked(S, M)
  PROVE  /\ M \subseteq S /\ IsFiniteSet(mark) /\ Cardinality(mark) \in Nat
         /\ \A a \in M : /\ Twin(a) \in M /\ After(a) \in S /\ prev[After(a)] = Twin(a)
                         /\ After(a)[1] = a[1]
         /\ \A a, c \in M : After(a) = After(c) => a = c
         /\ \A f \in S : prev[f] \in S /\ next[f] \in S
         /\ \A f \in S : prev[f] \in M => Twin(prev[f]) \in M /\ After(Twin(prev[f])) = f
<1>1. IsFiniteSet(mark) /\ Cardinality(mark) \in Nat
  <2>1. IsFiniteSet(Vertices)
    BY SomeVertices, FS_Interval DEF Vertices
  <2>2. IsFiniteSet(Element)
    BY <2>1, FS_Product DEF Element
  <2> QED BY <2>2, FS_Subset, FS_CardinalityType DEF Marked
<1>2. M \subseteq S /\ M \subseteq Element /\ S \subseteq Element /\ \A a \in M : Twin(a) \in M
  BY DEF Marked
<1>3. /\ \A e \in S : next[e] \in S /\ prev[e] \in S
      /\ \A e, f \in S : next[e] = f <=> prev[f] = e
      /\ \A e \in S : next[e][1] = e[2]
  <2>1. Sequences.next = next /\ Sequences.prev = prev
    BY DEF Sequences
  <2>2. Proper(Sequences, S) /\ Whole(Sequences, S)
    BY DEF Marked, Tours
  <2> QED BY <2>1, <2>2 DEF Proper, Whole
<1>4. \A e \in M : Twin(Twin(e)) = e /\ Twin(e)[2] = e[1]
  BY <1>2, Elements
<1>5. ASSUME NEW a \in M
      PROVE  Twin(a) \in M /\ After(a) \in S /\ prev[After(a)] = Twin(a) /\ After(a)[1] = a[1]
  BY <1>2, <1>3, <1>4 DEF After
<1>6. ASSUME NEW a \in M, NEW c \in M, After(a) = After(c) PROVE a = c
  BY <1>4, <1>5, <1>6
<1>7. ASSUME NEW f \in S, prev[f] \in M PROVE Twin(prev[f]) \in M /\ After(Twin(prev[f])) = f
  BY <1>2, <1>3, <1>4, <1>7 DEF After
<1> QED BY <1>1, <1>2, <1>3, <1>5, <1>6, <1>7

(* Marked elements that are all gone to from among themselves lead to      *)
(* nothing else: there is no way out of a cycle.                           *)
LEMMA Retraced ==
  ASSUME NEW S, NEW M, Marked(S, M), NEW Q \in SUBSET M,
         \A x \in Q : prev[x] \in M /\ Twin(prev[x]) \in Q, NEW y \in Q
  PROVE  After(y) \in Q
<1>1. IsFiniteSet(Q)
  BY AfterFacts, FS_Subset DEF Marked
<1> DEFINE f == [x \in Q |-> Twin(prev[x])]
<1>2. f \in [Q -> Q]
  OBVIOUS
<1>3. ASSUME NEW x \in Q PROVE After(f[x]) = x
  BY AfterFacts
<1> HIDE DEF f
<1>4. f \in Injection(Q, Q)
  <2>1. ASSUME NEW x \in Q, NEW z \in Q, f[x] = f[z] PROVE x = z
    <3>1. After(f[x]) = x /\ After(f[z]) = z
      BY <1>3
    <3> QED BY <2>1, <3>1
  <2> QED BY <1>2, <2>1 DEF Injection, IsInjective
<1>5. f \in Surjection(Q, Q)
  BY <1>1, <1>4, FS_Injection
<1>6. PICK x \in Q : f[x] = y
  BY <1>5 DEF Surjection
<1> QED BY <1>3, <1>6

(* w is the walk past the marked elements, from the one after a's twin.    *)
WalkFrom(w, a) ==
  /\ w[0] = After(a)
  /\ \A k \in 1 .. Cardinality(mark) :
        w[k] = IF w[k - 1] \in mark THEN After(w[k - 1]) ELSE w[k - 1]

(* RightTarget is the end of the walk.                                     *)
LEMMA RightTargetWalk ==
  ASSUME NEW S, NEW M, Marked(S, M), NEW a \in M
  PROVE  \E w : WalkFrom(w, a) /\ RightTarget(After(a)) = w[Cardinality(mark)]
<1> DEFINE walk[k \in 0 .. Cardinality(mark)] ==
        IF k = 0 THEN After(a)
        ELSE LET at == walk[k - 1]
             IN IF at \in mark THEN next[Twin(at)] ELSE at
     Step(e) == IF e \in mark THEN After(e) ELSE e
<1> HIDE DEF walk
<1>1. PICK m \in Nat : m = Cardinality(mark)
  BY AfterFacts
<1>2. PICK base : base = After(a)
  OBVIOUS
<1>3. PICK R : \A k \in 0 .. m : R[k] = S
  <2>1. \A k \in 0 .. m : [l \in 0 .. m |-> S][k] = S
    OBVIOUS
  <2> QED BY <2>1
<1>4. base \in R[0]
  BY <1>2, <1>3, AfterFacts
<1>5. ASSUME NEW e \in S PROVE Step(e) \in S
  <2>1. e \in mark => e \in M
    BY DEF Marked
  <2> QED BY <2>1, AfterFacts
<1>6. PICK G : \A k \in 1 .. m, e \in S : G[<<k, e>>] = Step(e)
  <2> DEFINE H == [ke \in (1 .. m) \X S |-> Step(ke[2])]
  <2>1. \A k \in 1 .. m, e \in S : H[<<k, e>>] = Step(e)
    <3>1. TAKE k \in 1 .. m, e \in S
    <3>2. <<k, e>> \in (1 .. m) \X S /\ <<k, e>>[2] = e
      OBVIOUS
    <3> HIDE DEF Step
    <3>3. H[<<k, e>>] = Step(<<k, e>>[2])
      BY <3>2, Zenon
    <3> QED BY <3>2, <3>3
  <2> HIDE DEF H, Step
  <2> QED BY <2>1
<1> HIDE DEF Step
<1>7. \A k \in 1 .. m : \A e \in R[k - 1] : e \in S /\ G[<<k, e>>] \in R[k]
  <2>1. \A k \in 1 .. m : k - 1 \in 0 .. m /\ k \in 0 .. m
    OBVIOUS
  <2>2. ASSUME NEW k \in 1 .. m, NEW e \in R[k - 1] PROVE e \in S /\ G[<<k, e>>] \in R[k]
    <3>1. e \in S /\ R[k] = S
      BY <2>1, <1>3
    <3>2. G[<<k, e>>] = Step(e)
      BY <3>1, <1>6
    <3> QED BY <3>1, <3>2, <1>5
  <2> QED BY <2>2
<1>8. PICK f : Solution(f, m, base, R, G)
  BY <1>4, <1>7, Recursion
<1>9. f[0] = base /\ \A k \in 1 .. m : f[k] = Step(f[k - 1])
  BY <1>6, <1>7, <1>8 DEF Solution
<1>10. f = [k \in 0 .. m |-> IF k = 0 THEN base ELSE Step(f[k - 1])]
  <2>1. \A k \in 0 .. m : f[k] = IF k = 0 THEN base ELSE Step(f[k - 1])
    BY <1>9
  <2>2. f = [k \in 0 .. m |-> f[k]]
    BY <1>8 DEF Solution, OnNumbers
  <2> QED BY <2>1, <2>2, Zenon
<1>11. walk = [k \in 0 .. m |-> IF k = 0 THEN base ELSE Step(walk[k - 1])]
  BY <1>1, <1>2, <1>10, ZenonT(60) DEF walk, Step, After
<1>12. walk[0] = base /\ \A k \in 1 .. m : walk[k] = Step(walk[k - 1])
  BY <1>11
<1>13. WalkFrom(walk, a)
  BY <1>1, <1>2, <1>12 DEF WalkFrom, Step
<1>14. RightTarget(After(a)) = walk[Cardinality(mark)]
  BY Zenon DEF RightTarget, walk
<1> QED BY <1>13, <1>14

(* The walk stays in the lists, comes from marked elements, and keeps to   *)
(* one vertex.                                                             *)
LEMMA WalkStays ==
  ASSUME NEW S, NEW M, Marked(S, M), NEW a \in M, NEW w, WalkFrom(w, a)
  PROVE  \A k \in 0 .. Cardinality(mark) :
           w[k] \in S /\ prev[w[k]] \in M /\ w[k][1] = a[1] /\ (w[k] \in mark <=> w[k] \in M)
<1>1. PICK m \in Nat : m = Cardinality(mark)
  BY AfterFacts
<1> DEFINE T == {k \in 0 .. m : w[k] \in S /\ prev[w[k]] \in M /\ w[k][1] = a[1]}
<1>2. 0 \in T
  BY AfterFacts DEF WalkFrom
<1>3. \A e \in S : e \in mark <=> e \in M
  BY DEF Marked
<1>4. ASSUME NEW k \in 0 .. m - 1, k \in T PROVE k + 1 \in T
  <2>1. PICK l \in 1 .. m : l = k + 1 /\ l - 1 = k
    OBVIOUS
  <2>2. w[l] = IF w[k] \in mark THEN After(w[k]) ELSE w[k]
    BY <1>1, <2>1 DEF WalkFrom
  <2>3. w[k] \in S /\ prev[w[k]] \in M /\ w[k][1] = a[1]
    BY <1>4
  <2>4. w[l] \in S /\ prev[w[l]] \in M /\ w[l][1] = a[1]
    <3>1. CASE w[k] \in mark
      BY <3>1, <2>2, <2>3, <1>3, AfterFacts
    <3>2. CASE w[k] \notin mark
      BY <3>2, <2>2, <2>3
    <3> QED BY <3>1, <3>2
  <2>5. l \in 0 .. m
    OBVIOUS
  <2> QED BY <2>1, <2>4, <2>5
<1>5. \A k \in 0 .. m : k \in T
  BY <1>2, <1>4, Induction
<1> QED BY <1>1, <1>3, <1>5

(* The walk leaves the marked elements when it begins beside a, to which   *)
(* none of them leads: it is too long to be at different ones all the time. *)
LEMMA WalkLeaves ==
  ASSUME NEW S, NEW M, Marked(S, M), NEW a \in M, prev[a] \notin M, NEW w, WalkFrom(w, a)
  PROVE  w[Cardinality(mark)] \notin M
<1>1. PICK m \in Nat : m = Cardinality(mark)
  BY AfterFacts
<1> DEFINE V(k) == {w[j] : j \in 0 .. k}
           T == {k \in 0 .. m :
                   w[k] \in M => V(k) \subseteq M \ {a} /\ IsFiniteSet(V(k)) /\ Cardinality(V(k)) = k + 1
                                 /\ \A j \in 0 .. k - 1 : w[j] # w[k]}
<1>2. \A x \in M : After(x) # a
  BY AfterFacts
<1>3. 0 \in T
  <2>1. V(0) = {w[0]}
    OBVIOUS
  <2>2. w[0] # a
    BY <1>2 DEF WalkFrom
  <2>3. IsFiniteSet(V(0)) /\ Cardinality(V(0)) = 1
    BY <2>1, FS_Singleton
  <2>4. \A j \in 0 .. 0 - 1 : FALSE
    OBVIOUS
  <2> HIDE DEF V
  <2> QED BY <2>1, <2>2, <2>3, <2>4
<1>4. ASSUME NEW k \in 0 .. m - 1, k \in T PROVE k + 1 \in T
  <2>1. PICK l \in 1 .. m : l = k + 1 /\ l - 1 = k
    OBVIOUS
  <2>2. w[l] = IF w[k] \in mark THEN After(w[k]) ELSE w[k]
    BY <1>1, <2>1 DEF WalkFrom
  <2>3. \A j \in 0 .. m : w[j] \in mark <=> w[j] \in M
    BY <1>1, WalkStays
  <2>4. SUFFICES ASSUME w[l] \in M
                 PROVE  V(l) \subseteq M \ {a} /\ IsFiniteSet(V(l)) /\ Cardinality(V(l)) = l + 1
                        /\ \A j \in 0 .. l - 1 : w[j] # w[l]
    BY <2>1
  <2>5. w[k] \in M /\ w[l] = After(w[k])
    <3>1. k \in 0 .. m
      OBVIOUS
    <3> QED BY <3>1, <2>2, <2>3, <2>4
  <2>6. V(k) \subseteq M \ {a} /\ IsFiniteSet(V(k)) /\ Cardinality(V(k)) = k + 1 /\ \A j \in 0 .. k - 1 : w[j] # w[k]
    BY <1>4, <2>5
  <2>7. V(l) = V(k) \cup {w[l]}
    <3>1. \A j : j \in 0 .. l <=> j \in 0 .. k \/ j = l
      BY <2>1
    <3> QED BY <3>1
  <2>8. ASSUME NEW j \in 0 .. k PROVE w[j] # w[l]
    <3>1. CASE j = 0
      <4>1. w[k] # a
        BY <2>6
      <4>2. w[0] = After(a)
        BY DEF WalkFrom
      <4> QED BY <3>1, <4>1, <4>2, <2>5, AfterFacts
    <3>2. CASE j # 0
      <4>1. PICK i \in 0 .. k - 1 : i = j - 1
        BY <3>2
      <4>2. w[i] \in M \ {a}
        BY <2>6
      <4>3. w[j] = After(w[i])
        <5>1. j \in 1 .. m /\ i = j - 1
          BY <3>2, <4>1
        <5>2. w[i] \in mark
          BY <4>2 DEF Marked
        <5> QED BY <1>1, <5>1, <5>2 DEF WalkFrom
      <4>4. w[i] # w[k]
        BY <2>6
      <4> QED BY <4>2, <4>3, <4>4, <2>5, AfterFacts
    <3> QED BY <3>1, <3>2
  <2>9. w[l] \notin V(k) /\ w[l] # a
    BY <2>5, <2>8, <1>2
  <2>10. \A j \in 0 .. l - 1 : w[j] # w[l]
    BY <2>1, <2>8
  <2> HIDE DEF V
  <2>11. IsFiniteSet(V(l)) /\ Cardinality(V(l)) = l + 1
    BY <2>1, <2>6, <2>7, <2>9, FS_AddElement
  <2> QED BY <2>4, <2>6, <2>7, <2>9, <2>10, <2>11
<1>5. m \in T
  <2> HIDE DEF T
  <2>1. \A k \in 0 .. m : k \in T
    BY <1>3, <1>4, Induction
  <2> QED BY <2>1
<1>6. ASSUME w[m] \in M PROVE FALSE
  <2>1. V(m) \subseteq mark /\ Cardinality(V(m)) = m + 1
    <3> HIDE DEF V
    <3> QED BY <1>5, <1>6 DEF Marked
  <2> HIDE DEF V
  <2>2. Cardinality(V(m)) <= Cardinality(mark)
    BY <2>1, AfterFacts, FS_Subset
  <2> QED BY <1>1, <2>1, <2>2
<1> QED BY <1>1, <1>6

(* Where the walk is out of the marked elements, it stays.                 *)
LEMMA WalkRests ==
  ASSUME NEW S, NEW M, Marked(S, M), NEW a \in M, NEW w, WalkFrom(w, a),
         NEW k \in 0 .. Cardinality(mark), w[k] \notin M
  PROVE  w[Cardinality(mark)] = w[k]
<1>1. PICK m \in Nat : m = Cardinality(mark)
  BY AfterFacts
<1>2. w[k] \notin mark
  BY WalkStays
<1> DEFINE T == {j \in 0 .. m : j < k \/ w[j] = w[k]}
<1>3. 0 \in T
  BY <1>1
<1>4. ASSUME NEW j \in 0 .. m - 1, j \in T PROVE j + 1 \in T
  <2>1. PICK l \in 1 .. m : l = j + 1 /\ l - 1 = j
    OBVIOUS
  <2>2. w[l] = IF w[j] \in mark THEN After(w[j]) ELSE w[j]
    BY <1>1, <2>1 DEF WalkFrom
  <2>3. CASE l < k
    BY <2>1, <2>3
  <2>4. CASE ~(l < k)
    <3>1. l = k \/ ~(j < k)
      BY <1>1, <2>1, <2>4
    <3> QED BY <3>1, <2>1, <2>2, <1>2, <1>4
  <2> QED BY <2>3, <2>4
<1>5. m \in T
  <2> HIDE DEF T
  <2>1. \A j \in 0 .. m : j \in T
    BY <1>3, <1>4, Induction
  <2> QED BY <2>1
<1> QED BY <1>1, <1>5

(* The marked elements the walk passes, a the first of them.               *)
Passed(w, a, M) == {a} \cup ({w[k] : k \in 0 .. Cardinality(mark)} \cap M)

(* From an element it passes the walk goes on to another one or ends; it   *)
(* has come to each of them, and to its end, from one it has passed.       *)
LEMMA PassedFacts ==
  ASSUME NEW S, NEW M, Marked(S, M), NEW a \in M, prev[a] \notin M, NEW w, WalkFrom(w, a)
  PROVE  /\ Passed(w, a, M) \subseteq M
         /\ \A x \in Passed(w, a, M) : After(x) \in Passed(w, a, M) \/ After(x) = w[Cardinality(mark)]
         /\ \A x \in Passed(w, a, M) : x = a \/ \E y \in Passed(w, a, M) : After(y) = x
         /\ \E y \in Passed(w, a, M) : After(y) = w[Cardinality(mark)]
<1>1. PICK m \in Nat : m = Cardinality(mark)
  BY AfterFacts
<1>2. PICK P : P = Passed(w, a, M)
  OBVIOUS
<1>3. P \subseteq M /\ a \in P /\ \A k \in 0 .. m : w[k] \in M => w[k] \in P
  BY <1>1, <1>2 DEF Passed
<1>4. \A x \in P : x = a \/ \E k \in 0 .. m : x = w[k] /\ w[k] \in M
  BY <1>1, <1>2 DEF Passed
<1>5. w[m] \notin M
  BY <1>1, WalkLeaves
<1>6. ASSUME NEW x \in P
      PROVE  \E k \in 0 .. m : After(x) = w[k]
  <2>1. CASE x = a
    BY <2>1 DEF WalkFrom
  <2>2. CASE x # a
    <3>1. PICK k \in 0 .. m : x = w[k] /\ w[k] \in M
      BY <2>2, <1>4
    <3>2. PICK l \in 1 .. m : l = k + 1 /\ l - 1 = k
      <4>1. k # m
        BY <3>1, <1>5
      <4>2. k + 1 \in 1 .. m /\ (k + 1) - 1 = k
        BY <4>1, <3>1
      <4> QED BY <4>2
    <3>3. w[l] = After(x)
      BY <1>1, <3>1, <3>2 DEF WalkFrom, Marked
    <3> QED BY <3>3
  <2> QED BY <2>1, <2>2
<1>7. ASSUME NEW x \in P PROVE After(x) \in P \/ After(x) = w[m]
  <2>1. PICK k \in 0 .. m : After(x) = w[k]
    BY <1>6
  <2>2. CASE w[k] \in M
    BY <2>1, <2>2, <1>3
  <2>3. CASE w[k] \notin M
    BY <2>1, <2>3, <1>1, WalkRests
  <2> QED BY <2>2, <2>3
<1>8. ASSUME NEW k \in 0 .. m, w[k] \in M \/ k = m
      PROVE  \E y \in P : After(y) = w[k]
  <2> DEFINE T == {j \in 0 .. m : w[j] = w[k]}
  <2>1. PICK j \in T : \A i \in T : j <= i
    <3>1. T \subseteq Nat /\ T # {}
      OBVIOUS
    <3> QED BY <3>1, LeastNumber
  <2>2. CASE j = 0
    BY <2>1, <2>2, <1>3 DEF WalkFrom
  <2>3. CASE j # 0
    <3>1. PICK i \in 0 .. m : i = j - 1
      BY <2>1, <2>3
    <3>2. w[i] # w[j]
      BY <2>1, <3>1
    <3>3. w[j] = IF w[i] \in mark THEN After(w[i]) ELSE w[i]
      <4>1. j \in 1 .. m
        BY <2>1, <2>3
      <4> QED BY <4>1, <3>1, <1>1 DEF WalkFrom
    <3>4. w[i] \in M /\ After(w[i]) = w[j]
      BY <3>1, <3>2, <3>3, <1>1, WalkStays
    <3> QED BY <3>1, <3>4, <2>1, <1>3
  <2> QED BY <2>2, <2>3
<1>9. ASSUME NEW x \in P PROVE x = a \/ \E y \in P : After(y) = x
  BY <1>4, <1>8
<1>10. \E y \in P : After(y) = w[m]
  <2>1. m \in 0 .. m
    OBVIOUS
  <2> QED BY <2>1, <1>8
<1> QED BY <1>1, <1>2, <1>3, <1>7, <1>9, <1>10

(* The elements that come after one that is cut and are not cut.           *)
Starts(S, M) == {f \in S \ M : prev[f] \in M}
(* The cut elements that come after one that is not.                       *)
Ends(M) == {a \in M : prev[a] \notin M}

(* RightTarget finds for each tour that ends at a cut the one that is to   *)
(* follow: another one for each of them, and each of them for some.        *)
LEMMA TargetsOneToOne ==
  ASSUME NEW S, NEW M, Marked(S, M)
  PROVE  /\ \A a \in Ends(M) : RightTarget(After(a)) \in Starts(S, M) /\ RightTarget(After(a))[1] = a[1]
         /\ \A a, c \in Ends(M) : RightTarget(After(a)) = RightTarget(After(c)) => a = c
         /\ \A f \in Starts(S, M) : \E a \in Ends(M) : RightTarget(After(a)) = f
<1>1. PICK m \in Nat : m = Cardinality(mark)
  BY AfterFacts
<1>2. PICK W : \A a \in M : WalkFrom(W[a], a) /\ RightTarget(After(a)) = W[a][m]
  <2> DEFINE V == [a \in M |-> CHOOSE w : WalkFrom(w, a) /\ RightTarget(After(a)) = w[m]]
  <2>1. ASSUME NEW a \in M PROVE WalkFrom(V[a], a) /\ RightTarget(After(a)) = V[a][m]
    <3>1. \E w : WalkFrom(w, a) /\ RightTarget(After(a)) = w[m]
      BY <1>1, RightTargetWalk
    <3>2. V[a] = CHOOSE w : WalkFrom(w, a) /\ RightTarget(After(a)) = w[m]
      OBVIOUS
    <3> HIDE DEF V
    <3> QED BY <3>1, <3>2
  <2> HIDE DEF V
  <2> QED BY <2>1
<1>3. PICK P : \A a \in M : P[a] = Passed(W[a], a, M)
  <2>1. \A a \in M : [c \in M |-> Passed(W[c], c, M)][a] = Passed(W[a], a, M)
    OBVIOUS
  <2> QED BY <2>1
<1>4. ASSUME NEW a \in Ends(M)
      PROVE  /\ a \in M /\ prev[a] \notin M /\ a \in P[a] /\ P[a] \subseteq M
             /\ \A x \in P[a] : After(x) \in P[a] \/ After(x) = RightTarget(After(a))
             /\ \A x \in P[a] : x = a \/ \E y \in P[a] : After(y) = x
             /\ \E y \in P[a] : After(y) = RightTarget(After(a))
             /\ RightTarget(After(a)) \in S \ M
             /\ prev[RightTarget(After(a))] \in M
             /\ RightTarget(After(a))[1] = a[1]
  <2>1. a \in M /\ prev[a] \notin M
    BY DEF Ends
  <2>2. PICK w : w = W[a] /\ WalkFrom(w, a) /\ RightTarget(After(a)) = w[m] /\ P[a] = Passed(w, a, M)
    BY <1>2, <1>3, <2>1
  <2>3. a \in P[a]
    BY <2>2 DEF Passed
  <2>4. w[m] \in S /\ prev[w[m]] \in M /\ w[m][1] = a[1] /\ w[m] \notin M
    <3>1. m \in 0 .. m
      OBVIOUS
    <3> QED BY <3>1, <1>1, <2>1, <2>2, WalkStays, WalkLeaves
  <2>5. /\ P[a] \subseteq M
        /\ \A x \in P[a] : After(x) \in P[a] \/ After(x) = w[m]
        /\ \A x \in P[a] : x = a \/ \E y \in P[a] : After(y) = x
        /\ \E y \in P[a] : After(y) = w[m]
    BY <1>1, <2>1, <2>2, PassedFacts
  <2> QED BY <2>1, <2>2, <2>3, <2>4, <2>5
<1>5. ASSUME NEW a \in Ends(M), NEW c \in Ends(M), RightTarget(After(a)) = RightTarget(After(c)), a # c
      PROVE  FALSE
  <2>1. PICK Q : Q = P[a] \cap P[c]
    OBVIOUS
  <2>2. Q \in SUBSET M
    BY <1>4, <2>1
  <2>3. ASSUME NEW x \in Q PROVE prev[x] \in M /\ Twin(prev[x]) \in Q
    <3>1. x \in P[a] /\ x \in P[c] /\ x \in S /\ x \in M
      BY <2>1, <2>2, AfterFacts
    <3>2. \A y \in M : After(y) # a /\ After(y) # c
      BY <1>4, AfterFacts
    <3>3. x # a /\ x # c
      BY <3>1, <3>2, <1>4, <1>5
    <3>4. PICK y \in P[a], z \in P[c] : After(y) = x /\ After(z) = x
      BY <3>1, <3>3, <1>4
    <3>5. y \in M /\ z \in M /\ y = z
      BY <3>4, <1>4, AfterFacts
    <3>6. prev[x] = Twin(y) /\ Twin(y) \in M /\ Twin(prev[x]) = y
      <4>1. prev[x] = Twin(y) /\ Twin(y) \in M
        BY <3>4, <3>5, AfterFacts
      <4>2. Twin(prev[x]) \in M /\ After(Twin(prev[x])) = x
        BY <4>1, <3>1, AfterFacts
      <4> QED BY <4>1, <4>2, <3>4, <3>5, AfterFacts
    <3> QED BY <3>4, <3>5, <3>6, <2>1
  <2>4. PICK y \in Q : After(y) = RightTarget(After(a))
    <3>1. PICK y \in P[a], z \in P[c] : After(y) = RightTarget(After(a)) /\ After(z) = RightTarget(After(c))
      BY <1>4
    <3>2. y = z
      BY <3>1, <1>4, <1>5, AfterFacts
    <3> QED BY <3>1, <3>2, <2>1
  <2>5. After(y) \in Q
    BY <2>2, <2>3, Retraced
  <2> QED BY <2>2, <2>4, <2>5, <1>4
<1>6. ASSUME NEW f \in Starts(S, M), \A a \in Ends(M) : RightTarget(After(a)) # f
      PROVE  FALSE
  <2>1. f \in S /\ f \notin M /\ prev[f] \in M
    BY DEF Starts
  <2>2. PICK Q : Q = {x \in M : \A a \in Ends(M) : x \notin P[a]}
    OBVIOUS
  <2>3. Q \in SUBSET M
    BY <2>2
  <2>4. ASSUME NEW y \in M, After(y) \in Q \/ After(y) = f PROVE y \in Q
    <3>1. ASSUME NEW a \in Ends(M), y \in P[a] PROVE FALSE
      <4>1. After(y) \in P[a] \/ After(y) = RightTarget(After(a))
        BY <3>1, <1>4
      <4>2. After(y) # f => After(y) \in M
        BY <2>3, <2>4
      <4> QED BY <4>1, <4>2, <1>4, <1>6, <2>1, <2>2, <2>4, <3>1
    <3> QED BY <3>1, <2>2
  <2>5. ASSUME NEW x \in Q PROVE prev[x] \in M /\ Twin(prev[x]) \in Q
    <3>1. x \in M /\ x \in S
      BY <2>3, AfterFacts
    <3>2. prev[x] \in M
      <4>1. x \notin Ends(M)
        BY <1>4, <2>2
      <4> QED BY <4>1, <3>1 DEF Ends
    <3>3. Twin(prev[x]) \in M /\ After(Twin(prev[x])) = x
      BY <3>1, <3>2, AfterFacts
    <3> QED BY <3>2, <3>3, <2>4
  <2>6. PICK y \in M : y = Twin(prev[f]) /\ After(y) = f
    BY <2>1, AfterFacts
  <2>7. y \in Q
    BY <2>4, <2>6
  <2>8. After(y) \in Q
    BY <2>3, <2>5, <2>7, Retraced
  <2> QED BY <2>1, <2>3, <2>6, <2>8
<1>7. \A a \in Ends(M) : RightTarget(After(a)) \in Starts(S, M) /\ RightTarget(After(a))[1] = a[1]
  BY <1>4 DEF Starts
<1> QED BY <1>5, <1>6, <1>7

----
(* Joins *)

(* What join j is to join.                                                 *)
Left(T, j) == T[j[1]][j[2]][1]
Right(T, j) == T[j[1]][j[2]][2]

(* Fits, in terms of the ends that a join joins.                           *)
LEMMA FitsMeans ==
  ASSUME NEW s, NEW S, NEW T, NEW J
  PROVE  Fits(s, S, T, J) <=>
           /\ \A j \in J : /\ Left(T, j) \in S /\ Right(T, j) \in S
                           /\ s.next[Left(T, j)] = Null /\ s.prev[Right(T, j)] = Null
                           /\ Left(T, j)[2] = Right(T, j)[1]
           /\ \A j, k \in J : j # k => Left(T, j) # Left(T, k) /\ Right(T, j) # Right(T, k)
           /\ \A e \in S : s.next[e] = Null => \E j \in J : Left(T, j) = e
           /\ \A e \in S : s.prev[e] = Null => \E j \in J : Right(T, j) = e
BY DEF Fits, Left, Right

(* Proper and Fits are about the pointers of the elements of S.            *)
LEMMA SameLists ==
  ASSUME NEW s, NEW t, NEW S, NEW T, NEW J, \A e \in S : s.next[e] = t.next[e] /\ s.prev[e] = t.prev[e]
  PROVE  /\ Proper(s, S) => Proper(t, S)
         /\ Whole(s, S) => Whole(t, S)
         /\ Fits(s, S, T, J) => Fits(t, S, T, J)
<1>1. Proper(s, S) => Proper(t, S)
  BY DEF Proper
<1>2. Whole(s, S) => Whole(t, S)
  BY DEF Whole
<1>3. ASSUME Fits(s, S, T, J) PROVE Fits(t, S, T, J)
  <2>1. /\ \A j \in J : /\ Left(T, j) \in S /\ Right(T, j) \in S
                        /\ s.next[Left(T, j)] = Null /\ s.prev[Right(T, j)] = Null
                        /\ Left(T, j)[2] = Right(T, j)[1]
        /\ \A j, k \in J : j # k => Left(T, j) # Left(T, k) /\ Right(T, j) # Right(T, k)
        /\ \A e \in S : s.next[e] = Null => \E j \in J : Left(T, j) = e
        /\ \A e \in S : s.prev[e] = Null => \E j \in J : Right(T, j) = e
    BY <1>3, FitsMeans
  <2>2. \A j \in J : t.next[Left(T, j)] = Null /\ t.prev[Right(T, j)] = Null
    BY <2>1
  <2>3. /\ \A e \in S : t.next[e] = Null => \E j \in J : Left(T, j) = e
        /\ \A e \in S : t.prev[e] = Null => \E j \in J : Right(T, j) = e
    BY <2>1
  <2> QED BY <2>1, <2>2, <2>3, FitsMeans
<1> QED BY <1>1, <1>2, <1>3

(* A join that fits leaves the others fitting.                             *)
LEMMA JoinOne ==
  ASSUME NEW s \in State, NEW S \in SUBSET Element, Proper(s, S), NEW T, NEW J, Fits(s, S, T, J),
         NEW j \in J, NEW r, r = Join(s, Left(T, j), Right(T, j))
  PROVE  r \in State /\ Proper(r, S) /\ Fits(r, S, T, J \ {j})
<1>1. /\ \A i \in J : /\ Left(T, i) \in S /\ Right(T, i) \in S
                      /\ s.next[Left(T, i)] = Null /\ s.prev[Right(T, i)] = Null
                      /\ Left(T, i)[2] = Right(T, i)[1]
      /\ \A i, k \in J : i # k => Left(T, i) # Left(T, k) /\ Right(T, i) # Right(T, k)
      /\ \A e \in S : s.next[e] = Null => \E i \in J : Left(T, i) = e
      /\ \A e \in S : s.prev[e] = Null => \E i \in J : Right(T, i) = e
  BY FitsMeans
<1>2. PICK x \in S, y \in S : x = Left(T, j) /\ y = Right(T, j)
  BY <1>1
<1>3. s.next[x] = Null /\ s.prev[y] = Null /\ x[2] = y[1]
  BY <1>1, <1>2
<1>4. /\ r \in State /\ Proper(r, S)
      /\ \A e \in S : r.next[e] = IF e = x THEN y ELSE s.next[e]
      /\ \A e \in S : r.prev[e] = IF e = y THEN x ELSE s.prev[e]
  BY <1>2, <1>3, JoinProper
<1>5. x # Null /\ y # Null
  BY Elements
<1>6. \A i \in J \ {j} : Left(T, i) # x /\ Right(T, i) # y
  BY <1>1, <1>2
<1>7. \A i \in J \ {j} : r.next[Left(T, i)] = Null /\ r.prev[Right(T, i)] = Null
  BY <1>1, <1>4, <1>6
<1>8. \A e \in S : r.next[e] = Null => \E i \in J \ {j} : Left(T, i) = e
  BY <1>1, <1>2, <1>4, <1>5
<1>9. \A e \in S : r.prev[e] = Null => \E i \in J \ {j} : Right(T, i) = e
  BY <1>1, <1>2, <1>4, <1>5
<1>10. Fits(r, S, T, J \ {j})
  BY <1>1, <1>7, <1>8, <1>9, FitsMeans
<1> QED BY <1>4, <1>10

(* The joins of one iteration.                                             *)
LEMMA JoinIteration ==
  ASSUME NEW s \in State, NEW S \in SUBSET Element, Proper(s, S), NEW T, NEW D,
         Fits(s, S, T, Indices(T, D)), NEW i \in D, T[i] \in Seq(Ref \X Ref),
         NEW r, r = JoinAll(s, T[i])
  PROVE  r \in State /\ Proper(r, S) /\ Fits(r, S, T, Indices(T, D \ {i}))
<1>1. PICK joins \in Seq(Ref \X Ref) : joins = T[i]
  OBVIOUS
<1>2. PICK m \in Nat : m = Len(joins) /\ DOMAIN joins = 1 .. m
  OBVIOUS
<1>3. PICK f : /\ f[0] = s
               /\ \A k \in 1 .. Len(joins) : f[k] = Join(f[k - 1], joins[k][1], joins[k][2])
               /\ JoinAll(s, joins) = f[Len(joins)]
  BY JoinsInTurn
<1> DEFINE J(k) == {j \in Indices(T, D) : j[1] = i => j[2] > k}
           N == {k \in 0 .. m : f[k] \in State /\ Proper(f[k], S) /\ Fits(f[k], S, T, J(k))}
<1>4. \A l, k : <<l, k>> \in Indices(T, D) <=> l \in D /\ k \in DOMAIN T[l]
  BY DEF Indices
<1>5. \A j \in Indices(T, D) : j = <<j[1], j[2]>> /\ j[1] \in D /\ j[2] \in DOMAIN T[j[1]]
  BY DEF Indices
<1>6. J(0) = Indices(T, D)
  BY <1>1, <1>2, <1>5
<1>7. 0 \in N
  <2> HIDE DEF J
  <2>1. f[0] \in State /\ Proper(f[0], S) /\ Fits(f[0], S, T, J(0))
    BY <1>3, <1>6
  <2> QED BY <2>1
<1>8. ASSUME NEW k \in 0 .. m - 1, k \in N PROVE k + 1 \in N
  <2>1. PICK l \in 1 .. m : l = k + 1 /\ l - 1 = k
    OBVIOUS
  <2>2. PICK j : j = <<i, l>>
    OBVIOUS
  <2>3. j \in J(k)
    BY <1>1, <1>2, <1>4, <2>1, <2>2
  <2>4. J(k) \ {j} = J(l)
    <3>1. ASSUME NEW n \in Indices(T, D) PROVE (n[1] = i => n[2] > k) /\ n # j <=> (n[1] = i => n[2] > l)
      <4>1. n = <<n[1], n[2]>> /\ (n[1] = i => n[2] \in 1 .. m)
        BY <1>1, <1>2, <1>5
      <4>2. n[1] = i => (n[2] > k <=> n[2] > l \/ n[2] = l)
        BY <4>1, <2>1
      <4>3. n # j <=> ~(n[1] = i /\ n[2] = l)
        BY <4>1, <2>2
      <4>4. n[1] = i => (n[2] > l => n[2] # l)
        BY <4>1
      <4> QED BY <4>2, <4>3, <4>4
    <3> QED BY <3>1
  <2>5. f[l] = Join(f[k], Left(T, j), Right(T, j))
    BY <1>1, <1>2, <1>3, <2>1, <2>2 DEF Left, Right
  <2>6. f[k] \in State /\ Proper(f[k], S) /\ Fits(f[k], S, T, J(k))
    BY <1>8
  <2> HIDE DEF J
  <2>7. PICK g, K : g = f[k] /\ K = J(k)
    OBVIOUS
  <2>8. f[l] \in State /\ Proper(f[l], S) /\ Fits(f[l], S, T, K \ {j})
    BY <2>3, <2>5, <2>6, <2>7, JoinOne
  <2>9. f[l] \in State /\ Proper(f[l], S) /\ Fits(f[l], S, T, J(l))
    BY <2>4, <2>7, <2>8
  <2>10. l \in N
    BY <2>9
  <2> QED BY <2>1, <2>10
<1>9. m \in N
  <2> HIDE DEF N
  <2>1. \A k \in 0 .. m : k \in N
    BY <1>7, <1>8, Induction
  <2> QED BY <2>1
<1>10. J(m) = Indices(T, D \ {i})
  <2>1. ASSUME NEW j PROVE j \in J(m) <=> j \in Indices(T, D) /\ j[1] # i
    BY <1>1, <1>2, <1>5
  <2>2. ASSUME NEW j PROVE j \in Indices(T, D \ {i}) <=> j \in Indices(T, D) /\ j[1] # i
    BY DEF Indices
  <2> QED BY <2>1, <2>2
<1>11. r = f[m]
  BY <1>1, <1>2, <1>3
<1> HIDE DEF J
<1> QED BY <1>9, <1>10, <1>11

(* When all joins are made no list is open.                                *)
LEMMA NoneOpen ==
  ASSUME NEW s, NEW S, NEW T, NEW D, D = {}, Fits(s, S, T, Indices(T, D))
  PROVE  Whole(s, S)
<1>1. Indices(T, D) = {}
  BY DEF Indices
<1> QED BY <1>1, FitsMeans DEF Whole

(* The elements of a concatenation.                                        *)
LEMMA ConcatFacts ==
  ASSUME NEW U, NEW a \in Seq(U), NEW b \in Seq(U), NEW n \in Nat, NEW m \in Nat, n = Len(a), m = Len(b),
         NEW c, c = a \o b
  PROVE  /\ c \in Seq(U) /\ Len(c) = n + m
         /\ \A i \in 1 .. n : c[i] = a[i]
         /\ \A i \in 1 .. m : c[n + i] = b[i]
OBVIOUS

(* A sequence of two.                                                      *)
LEMMA OneAndOne ==
  ASSUME NEW p, NEW q
  PROVE  <<p>> \o <<q>> = <<p, q>>
<1>1. PICK U : p \in U /\ q \in U
  <2>1. p \in {p, q} /\ q \in {p, q}
    OBVIOUS
  <2> QED BY <2>1
<1>2. <<p>> \in Seq(U) /\ <<q>> \in Seq(U) /\ <<p, q>> \in Seq(U)
  BY <1>1
<1>3. Len(<<p>>) = 1 /\ Len(<<q>>) = 1 /\ Len(<<p, q>>) = 2
  OBVIOUS
<1>4. PICK a \in Seq(U), b \in Seq(U), c \in Seq(U) : a = <<p>> /\ b = <<q>> /\ c = <<p, q>>
  BY <1>2
<1>5. Len(a) = 1 /\ Len(b) = 1 /\ Len(c) = 2 /\ a[1] = p /\ b[1] = q /\ c[1] = p /\ c[2] = q
  BY <1>3, <1>4
<1>6. PICK n \in Nat, m \in Nat : n = Len(a) /\ m = Len(b) /\ n = 1 /\ m = 1
  BY <1>5
<1>7. PICK d : d = a \o b
  OBVIOUS
<1>8. /\ d \in Seq(U) /\ Len(d) = n + m
      /\ \A i \in 1 .. n : d[i] = a[i]
      /\ \A i \in 1 .. m : d[n + i] = b[i]
  BY <1>4, <1>6, <1>7, ConcatFacts
<1>9. d \in Seq(U) /\ Len(d) = 2 /\ d[1] = p /\ d[2] = q
  <2>1. 1 \in 1 .. n /\ 1 \in 1 .. m /\ n + 1 = 2 /\ n + m = 2
    BY <1>6
  <2>2. d[1] = a[1] /\ d[n + 1] = b[1] /\ Len(d) = n + m
    BY <1>8, <2>1
  <2> QED BY <1>5, <1>8, <2>1, <2>2
<1>10. d = c
  BY <1>5, <1>9
<1> QED BY <1>4, <1>7, <1>10, Zenon

(* The joins of a round of cuts fit the tours opened at the cuts.          *)
LEMMA TargetsFit ==
  ASSUME NEW S, NEW M, Marked(S, M), EdgeList(batch), NEW D \in SUBSET DOMAIN batch,
         M = {e \in Element : \E i \in D : Key(e) = Key(batch[i])},
         NEW T, \A i \in D : T[i] = Target(batch[i]) \o Target(Twin(batch[i]))
  PROVE  Fits(OpenedAt(Sequences, M), S \ M, T, Indices(T, D))
<1>1. \A i \in D : /\ batch[i] \in M /\ Twin(batch[i]) \in M /\ batch[i] # Twin(batch[i])
                   /\ Twin(Twin(batch[i])) = batch[i]
  BY ArcsOfKeys, Elements
<1>2. ASSUME NEW a \in M
      PROVE  Target(a) = IF a \in Ends(M) THEN << <<prev[a], RightTarget(After(a))>> >> ELSE <<>>
  <2>1. prev[a] \in mark <=> prev[a] \in M
    BY AfterFacts DEF Marked
  <2> QED BY <2>1 DEF Target, Ends, After
<1> DEFINE Own(j) == IF j[2] = 1 /\ batch[j[1]] \in Ends(M) THEN batch[j[1]] ELSE Twin(batch[j[1]])
           J == Indices(T, D)
<1>3. ASSUME NEW i \in D, NEW k \in DOMAIN T[i]
      PROVE  /\ k \in {1, 2}
             /\ Own(<<i, k>>) \in Ends(M)
             /\ T[i][k] = <<prev[Own(<<i, k>>)], RightTarget(After(Own(<<i, k>>)))>>
             /\ k = 2 => batch[i] \in Ends(M)
  <2>1. PICK a, c : a = batch[i] /\ c = Twin(batch[i]) /\ a \in M /\ c \in M
    BY <1>1
  <2>2. PICK p, q : p = <<prev[a], RightTarget(After(a))>> /\ q = <<prev[c], RightTarget(After(c))>>
    OBVIOUS
  <2>3. T[i] = (IF a \in Ends(M) THEN <<p>> ELSE <<>>) \o (IF c \in Ends(M) THEN <<q>> ELSE <<>>)
    BY <1>2, <2>1, <2>2
  <2>4. CASE a \in Ends(M) /\ c \in Ends(M)
    <3>1. T[i] = <<p>> \o <<q>>
      BY <2>3, <2>4
    <3>2. <<p>> \o <<q>> = <<p, q>>
      BY OneAndOne
    <3> QED BY <3>1, <3>2, <2>1, <2>2, <2>4
  <2>5. CASE a \in Ends(M) /\ c \notin Ends(M)
    <3>1. T[i] = <<p>>
      BY <2>3, <2>5
    <3> QED BY <3>1, <2>1, <2>2, <2>5
  <2>6. CASE a \notin Ends(M) /\ c \in Ends(M)
    <3>1. T[i] = <<q>>
      BY <2>3, <2>6
    <3> QED BY <3>1, <2>1, <2>2, <2>6
  <2>7. CASE a \notin Ends(M) /\ c \notin Ends(M)
    <3>1. T[i] = <<>>
      BY <2>3, <2>7
    <3> QED BY <3>1
  <2> QED BY <2>4, <2>5, <2>6, <2>7
<1>4. ASSUME NEW a \in Ends(M) PROVE \E i \in D : \E k \in DOMAIN T[i] : Own(<<i, k>>) = a
  <2>1. a \in M
    BY DEF Ends
  <2>2. PICK i \in D : a = batch[i] \/ a = Twin(batch[i])
    <3>1. PICK i \in D : Key(a) = Key(batch[i]) /\ a \in Element /\ batch[i] \in Element
      BY <2>1, ArcsOfKeys
    <3>2. a = batch[i] \/ a = Twin(batch[i])
      BY <3>1, Elements
    <3> QED BY <3>2
  <2>3. PICK b \in M, c \in M : b = batch[i] /\ c = Twin(batch[i]) /\ b # c
    BY <1>1
  <2>4. PICK p, q : p = <<prev[b], RightTarget(After(b))>> /\ q = <<prev[c], RightTarget(After(c))>>
    OBVIOUS
  <2>5. T[i] = (IF b \in Ends(M) THEN <<p>> ELSE <<>>) \o (IF c \in Ends(M) THEN <<q>> ELSE <<>>)
    BY <1>2, <2>3, <2>4
  <2>6. CASE a = b
    <3>1. 1 \in DOMAIN T[i]
      BY <2>3, <2>5, <2>6
    <3> QED BY <3>1, <2>3, <2>6
  <2>7. CASE a = c /\ b \notin Ends(M)
    <3>1. 1 \in DOMAIN T[i]
      BY <2>3, <2>5, <2>7
    <3> QED BY <3>1, <2>3, <2>7
  <2>8. CASE a = c /\ b \in Ends(M)
    <3>1. c \in Ends(M)
      BY <2>8
    <3>2. T[i] = <<p>> \o <<q>>
      BY <2>5, <2>8, <3>1
    <3>3. <<p>> \o <<q>> = <<p, q>>
      BY OneAndOne
    <3>4. 2 \in DOMAIN T[i]
      BY <3>2, <3>3
    <3> QED BY <3>4, <2>3, <2>8
  <2> QED BY <2>2, <2>3, <2>6, <2>7, <2>8
<1>5. ASSUME NEW i \in D, NEW k \in DOMAIN T[i], NEW l \in D, NEW n \in DOMAIN T[l],
             Own(<<i, k>>) = Own(<<l, n>>)
      PROVE  i = l /\ k = n
  <2>1. i = l
    <3>1. Own(<<i, k>>) = batch[i] \/ Own(<<i, k>>) = Twin(batch[i])
      OBVIOUS
    <3>2. Own(<<l, n>>) = batch[l] \/ Own(<<l, n>>) = Twin(batch[l])
      OBVIOUS
    <3>3. Key(Own(<<i, k>>)) = Key(batch[i]) /\ Key(Own(<<l, n>>)) = Key(batch[l])
      <4>1. Key(Twin(batch[i])) = Key(batch[i]) /\ Key(Twin(batch[l])) = Key(batch[l])
        BY ArcsOfKeys, Elements
      <4> HIDE DEF Own
      <4> QED BY <3>1, <3>2, <4>1
    <3> HIDE DEF Own
    <3> QED BY <1>5, <3>3 DEF EdgeList
  <2>2. ASSUME k # n PROVE FALSE
    <3>1. k \in {1, 2} /\ n \in {1, 2} /\ (k = 2 \/ n = 2 => batch[i] \in Ends(M))
      BY <2>1, <1>3
    <3>2. batch[i] \in Ends(M)
      BY <2>2, <3>1
    <3>3. Own(<<i, 1>>) = batch[i] /\ Own(<<i, 2>>) = Twin(batch[i])
      BY <3>2
    <3>4. Own(<<i, 1>>) = Own(<<i, 2>>)
      <4> HIDE DEF Own
      <4>1. Own(<<i, k>>) = Own(<<i, n>>)
        BY <1>5, <2>1
      <4>2. k \in {1, 2} /\ n \in {1, 2}
        BY <3>1
      <4>3. (k = 1 /\ n = 2) \/ (k = 2 /\ n = 1)
        BY <2>2, <4>2
      <4>4. CASE k = 1 /\ n = 2
        BY <4>1, <4>4
      <4>5. CASE k = 2 /\ n = 1
        BY <4>1, <4>5
      <4> QED BY <4>3, <4>4, <4>5
    <3> QED BY <3>3, <3>4, <1>1
  <2> QED BY <2>1, <2>2
<1> HIDE DEF Own
<1>6. \A j : j \in J <=> \E i \in D : \E k \in DOMAIN T[i] : j = <<i, k>>
  BY DEF Indices
<1>7. ASSUME NEW j \in J
      PROVE  Own(j) \in Ends(M) /\ Left(T, j) = prev[Own(j)] /\ Right(T, j) = RightTarget(After(Own(j)))
  <2>1. PICK i \in D : \E k \in DOMAIN T[i] : j = <<i, k>>
    BY <1>6
  <2>2. PICK k \in DOMAIN T[i] : j = <<i, k>>
    BY <2>1
  <2>3. j[1] = i /\ j[2] = k
    BY <2>2
  <2>4. Own(j) \in Ends(M) /\ T[i][k] = <<prev[Own(j)], RightTarget(After(Own(j)))>>
    BY <2>2, <1>3
  <2> QED BY <2>3, <2>4 DEF Left, Right
<1>8. ASSUME NEW j \in J, NEW k \in J, j # k PROVE Own(j) # Own(k)
  BY <1>5, <1>6, <1>8
<1>9. \A a \in Ends(M) : \E j \in J : Own(j) = a
  BY <1>4, <1>6
<1> HIDE DEF J
<1>10. M \subseteq S /\ S \subseteq Element /\ Null \notin Element
  BY AfterFacts, Elements DEF Marked
<1> DEFINE o == OpenedAt(Sequences, M)
<1>11. \A e \in S : /\ o.next[e] = IF e \in M \/ next[e] \in M THEN Null ELSE next[e]
                    /\ o.prev[e] = IF e \in M \/ prev[e] \in M THEN Null ELSE prev[e]
  BY <1>10 DEF OpenedAt, Sequences
<1> HIDE DEF o
<1>12. /\ \A e \in S : next[e] \in S /\ prev[e] \in S
       /\ \A e, f \in S : next[e] = f <=> prev[f] = e
       /\ \A e \in S : next[e][1] = e[2]
  <2>1. Sequences.next = next /\ Sequences.prev = prev
    BY DEF Sequences
  <2>2. Proper(Sequences, S) /\ Whole(Sequences, S)
    BY DEF Marked, Tours
  <2> QED BY <2>1, <2>2 DEF Proper, Whole
<1>13. ASSUME NEW a \in Ends(M)
       PROVE /\ prev[a] \in S \ M /\ next[prev[a]] = a /\ a[1] = prev[a][2]
             /\ RightTarget(After(a)) \in S \ M /\ prev[RightTarget(After(a))] \in M
             /\ RightTarget(After(a))[1] = a[1]
  <2>1. a \in M /\ a \in S /\ prev[a] \notin M
    BY <1>10 DEF Ends
  <2>2. prev[a] \in S /\ next[prev[a]] = a /\ a[1] = prev[a][2]
    <3>1. PICK p \in S : p = prev[a]
      BY <2>1, <1>12
    <3>2. next[p] = a /\ next[p][1] = p[2]
      BY <3>1, <2>1, <1>12
    <3> QED BY <3>1, <3>2
  <2>3. RightTarget(After(a)) \in Starts(S, M) /\ RightTarget(After(a))[1] = a[1]
    BY TargetsOneToOne
  <2> QED BY <2>1, <2>2, <2>3 DEF Starts
<1>14. ASSUME NEW j \in J
       PROVE  /\ Left(T, j) \in S \ M /\ Right(T, j) \in S \ M
              /\ o.next[Left(T, j)] = Null /\ o.prev[Right(T, j)] = Null
              /\ Left(T, j)[2] = Right(T, j)[1]
  <2>1. PICK a \in Ends(M) : Left(T, j) = prev[a] /\ Right(T, j) = RightTarget(After(a))
    BY <1>7
  <2>2. a \in M
    BY DEF Ends
  <2> QED BY <2>1, <2>2, <1>11, <1>13
<1>15. ASSUME NEW j \in J, NEW k \in J, j # k PROVE Left(T, j) # Left(T, k) /\ Right(T, j) # Right(T, k)
  <2>1. PICK a \in Ends(M) : a = Own(j) /\ Left(T, j) = prev[a] /\ Right(T, j) = RightTarget(After(a))
    BY <1>7
  <2>2. PICK c \in Ends(M) : c = Own(k) /\ Left(T, k) = prev[c] /\ Right(T, k) = RightTarget(After(c))
    BY <1>7
  <2>3. a # c
    BY <1>8, <1>15, <2>1, <2>2
  <2>4. prev[a] # prev[c]
    BY <1>13, <2>3
  <2>5. RightTarget(After(a)) # RightTarget(After(c))
    BY <2>3, TargetsOneToOne
  <2> QED BY <2>1, <2>2, <2>4, <2>5
<1>16. ASSUME NEW e \in S \ M, o.next[e] = Null PROVE \E j \in J : Left(T, j) = e
  <2>1. next[e] \in M /\ prev[next[e]] = e
    BY <1>10, <1>11, <1>12, <1>16
  <2>2. PICK a \in Ends(M) : a = next[e]
    BY <2>1 DEF Ends
  <2>3. PICK j \in J : Own(j) = a
    BY <1>9
  <2> QED BY <2>1, <2>2, <2>3, <1>7
<1>17. ASSUME NEW f \in S \ M, o.prev[f] = Null PROVE \E j \in J : Right(T, j) = f
  <2>1. f \in Starts(S, M)
    BY <1>10, <1>11, <1>12, <1>17 DEF Starts
  <2>2. PICK a \in Ends(M) : RightTarget(After(a)) = f
    BY <2>1, TargetsOneToOne
  <2>3. PICK j \in J : Own(j) = a
    BY <1>9
  <2> QED BY <2>2, <2>3, <1>7
<1>18. Fits(o, S \ M, T, J)
  BY <1>14, <1>15, <1>16, <1>17, FitsMeans
<1> QED BY <1>18 DEF o, J

----
(* The beginning and the end of an operation *)

(* A definition of the lists as a whole.                                   *)
LEMMA ListsSet ==
  ASSUME NEW s \in State, next' = s.next, prev' = s.prev
  PROVE  Sequences' = s /\ next' \in [Element -> Ref] /\ prev' \in [Element -> Ref]
BY DEF State, Sequences

(* The lists are a state of the lists.                                     *)
LEMMA ListsState ==
  ASSUME next \in [Element -> Ref], prev \in [Element -> Ref]
  PROVE  Sequences \in State /\ Sequences.next = next /\ Sequences.prev = prev
BY DEF State, Sequences

(* The elements of the edges of a forest with more edges, and with less.   *)
LEMMA OfKeys ==
  ASSUME NEW F, NEW b, EdgeList(b)
  PROVE  /\ Of(F \cup Keys(b)) = Of(F) \cup Arcs(b)
         /\ Of(F \ Keys(b)) = Of(F) \ Arcs(b)
         /\ Keys(b) \cap F = {} => Of(F) \cap Arcs(b) = {}
         /\ Keys(b) \subseteq F => Arcs(b) \subseteq Of(F)
         /\ Keys(b) \subseteq {e \in Element : e[1] < e[2]}
<1>1. Arcs(b) = {e \in Element : Key(e) \in Keys(b)} /\ Arcs(b) \subseteq Element \ Loops
  BY ArcsOfKeys
<1>2. Keys(b) \subseteq {e \in Element : e[1] < e[2]}
  <2>1. ASSUME NEW i \in DOMAIN b PROVE Key(b[i]) \in {e \in Element : e[1] < e[2]}
    <3>1. PICK e \in Element : e = b[i] /\ e \notin Loops
      BY ArcsOfKeys
    <3>2. Key(e) \in Element /\ Key(e)[1] < Key(e)[2]
      BY <3>1, Elements
    <3> QED BY <3>1, <3>2
  <2> QED BY <2>1 DEF Keys
<1>3. Of(F \cup Keys(b)) = Of(F) \cup Arcs(b)
  BY <1>1 DEF Of
<1>4. Of(F \ Keys(b)) = Of(F) \ Arcs(b)
  BY <1>1 DEF Of
<1>5. Keys(b) \cap F = {} => Of(F) \cap Arcs(b) = {}
  BY <1>1 DEF Of
<1>6. Keys(b) \subseteq F => Arcs(b) \subseteq Of(F)
  BY <1>1 DEF Of
<1> QED BY <1>2, <1>3, <1>4, <1>5, <1>6

(* The structure at rest, with tours of the forest.                        *)
LEMMA AtRest ==
  ASSUME Rest, next' \in [Element -> Ref], prev' \in [Element -> Ref],
         live' = Of(forest'), edges' \in SUBSET {e \in Element : e[1] < e[2]},
         mark' \in SUBSET (Element \ Loops), forest' \in SUBSET {e \in Element : e[1] < e[2]},
         mark' \cap live' = {}, Sequences' \in Tours(Placed')
  PROVE  IInv'
<1>1. /\ stage' = "idle" /\ batch' = <<>> /\ todo' = {} /\ successors' = <<>>
      /\ ignored' = {} /\ targets' = <<>> /\ cutter' = <<>>
  BY DEF Rest
<1>2. live' \in SUBSET (Element \ Loops)
  BY DEF Of
<1>3. TypeOK'
  <2>1. DOMAIN batch' = {} /\ batch' \in Seq(Element \ Loops)
    BY <1>1
  <2>2. successors' \in [DOMAIN batch' -> Ref] /\ targets' \in [DOMAIN batch' -> Seq(Ref \X Ref)]
        /\ cutter' \in [DOMAIN batch' -> Cutter]
    BY <1>1, <2>1
  <2> QED BY <1>1, <1>2, <2>1, <2>2 DEF TypeOK
<1>4. Idle'
  BY DEF Idle
<1>5. LinkBatch' /\ LinkSplitting' /\ LinkJoining'
  BY <1>1 DEF LinkBatch, LinkSplitting, LinkJoining
<1>6. CutBatch' /\ CutStarting' /\ CutSplitting' /\ CutJoining'
  BY <1>1 DEF CutBatch, CutStarting, CutSplitting, CutJoining
<1> QED BY <1>3, <1>4, <1>5, <1>6 DEF IInv

(* The tours of the loops alone, at the start.                             *)
LEMMA InitIInv ==
  ASSUME Init
  PROVE  IInv
<1>1. /\ next = [e \in Element |-> IF e \in Loops THEN e ELSE Null]
      /\ prev = [e \in Element |-> IF e \in Loops THEN e ELSE Null]
      /\ live = {} /\ edges = {} /\ mark = {} /\ stage = "idle" /\ batch = <<>> /\ todo = {}
      /\ successors = <<>> /\ ignored = {} /\ targets = <<>> /\ cutter = <<>> /\ forest = {}
  BY DEF Init
<1>2. next \in [Element -> Ref] /\ prev \in [Element -> Ref]
  BY <1>1 DEF Ref
<1>3. TypeOK
  <2>1. DOMAIN batch = {} /\ batch \in Seq(Element \ Loops)
    BY <1>1
  <2>2. successors \in [DOMAIN batch -> Ref] /\ targets \in [DOMAIN batch -> Seq(Ref \X Ref)]
        /\ cutter \in [DOMAIN batch -> Cutter]
    BY <1>1, <2>1
  <2> QED BY <1>1, <1>2, <2>1, <2>2 DEF TypeOK
<1>4. Idle
  <2>1. Placed = Loops /\ live = Of(forest) /\ mark \cap live = {}
    BY <1>1 DEF Placed, Of
  <2>2. \A e \in Loops : e \in Element /\ e[1] = e[2] /\ next[e] = e /\ prev[e] = e /\ e # Null
    BY <1>1, Elements
  <2>3. Proper(Sequences, Loops) /\ Whole(Sequences, Loops)
    BY <1>2, <2>2, ListsState DEF Proper, Whole
  <2> QED BY <1>2, <2>1, <2>3, ListsState DEF Idle, Tours
<1>5. LinkBatch /\ LinkSplitting /\ LinkJoining
  BY <1>1 DEF LinkBatch, LinkSplitting, LinkJoining
<1>6. CutBatch /\ CutStarting /\ CutSplitting /\ CutJoining
  BY <1>1 DEF CutBatch, CutStarting, CutSplitting, CutJoining
<1> QED BY <1>3, <1>4, <1>5, <1>6 DEF IInv

(* Nothing happens.                                                        *)
LEMMA StutterIInv ==
  ASSUME IInv, UNCHANGED vars
  PROVE  IInv'
<1>1. /\ next' = next /\ prev' = prev /\ live' = live /\ edges' = edges /\ mark' = mark
      /\ stage' = stage /\ batch' = batch /\ todo' = todo /\ successors' = successors
      /\ ignored' = ignored /\ targets' = targets /\ cutter' = cutter /\ forest' = forest
  BY DEF vars, lists, memory, scratch
<1>2. TypeOK'
  BY <1>1 DEF IInv, TypeOK
<1>3. Placed' = Placed /\ Sequences' = Sequences /\ NewArcs' = NewArcs
      /\ Chosen' = Chosen /\ CutArcs' = CutArcs /\ Staying' = Staying /\ Doomed' = Doomed
  BY <1>1 DEF Placed, Sequences, NewArcs, Chosen, CutArcs, Staying, Doomed
<1>4. Idle' /\ LinkBatch'
  BY <1>1, <1>3 DEF IInv, Idle, LinkBatch
<1>5. LinkSplitting'
  BY <1>1, <1>3 DEF IInv, LinkSplitting, Ran, LastOfVertex
<1>6. LinkTargets' = LinkTargets
  BY <1>1 DEF LinkTargets, LinkJoins, FirstOfVertex, LastOfVertex
<1>7. LinkJoining'
  BY <1>1, <1>3, <1>6 DEF IInv, LinkJoining
<1>8. CutBatch' /\ CutStarting' /\ CutJoining'
  BY <1>1, <1>3 DEF IInv, CutBatch, CutStarting, CutJoining
<1>9. CutSplitting'
  <2>1. ASSUME NEW CONSTANT s, Between(s) /\ Progress(s) PROVE Between(s)' /\ Progress(s)'
    BY <1>1, <1>3, <2>1 DEF Between, Progress, ProgressOf, Past
  <2> QED BY <1>1, <1>3, <2>1 DEF IInv, CutSplitting
<1> QED BY <1>2, <1>4, <1>5, <1>7, <1>8, <1>9 DEF IInv

----
(* The steps *)

(* The edges of a batch, cut one by one from whole tours.                  *)
LEMMA CutNowTours ==
  ASSUME TypeOK, NEW b, EdgeList(b), Arcs(b) \subseteq live, Sequences \in Tours(Placed), CutNow(b)
  PROVE  /\ next' \in [Element -> Ref] /\ prev' \in [Element -> Ref]
         /\ Sequences' \in Tours(Placed')
         /\ live' = live \ Arcs(b) /\ mark' = mark
         /\ edges' \in SUBSET {e \in Element : e[1] < e[2]}
<1>1. Placed \in SUBSET Element /\ Arcs(b) \subseteq Placed
  BY Elements DEF TypeOK, Placed
<1>2. PICK s : s = CutAll(Sequences, b)
  OBVIOUS
<1>3. s \in Tours(Placed \ Arcs(b))
  BY <1>1, <1>2, CutAllTours
<1>4. s \in State /\ next' = s.next /\ prev' = s.prev
  BY <1>2, <1>3 DEF CutNow, SetSequences, Tours
<1>5. live' = live \ Arcs(b) /\ mark' = mark /\ edges' = edges \ Keys(b)
  BY DEF CutNow
<1>6. Placed' = Placed \ Arcs(b)
  BY <1>5, ArcsOfKeys DEF Placed
<1>7. Sequences' = s /\ next' \in [Element -> Ref] /\ prev' \in [Element -> Ref]
  BY <1>4, ListsSet
<1>8. edges' \in SUBSET {e \in Element : e[1] < e[2]}
  BY <1>5 DEF TypeOK
<1> QED BY <1>3, <1>5, <1>6, <1>7, <1>8

(* A round of cuts begins.                                                 *)
LEMMA RoundIInv ==
  ASSUME TypeOK, NEW b, EdgeList(b), Round(b), next' = next, prev' = prev, live' = live, edges' = edges,
         forest' \in SUBSET {e \in Element : e[1] < e[2]}, Keys(b) \cap forest' = {},
         live = Of(forest') \cup Arcs(b), mark \cap live = {}, Sequences \in Tours(Placed)
  PROVE  IInv'
<1>1. PICK left_out \in SUBSET DOMAIN b :
        /\ Begin("cutTargets", b, left_out)
        /\ mark' = mark \cup UNION {{b[i], Twin(b[i])} : i \in DOMAIN b \ left_out}
  BY DEF Round
<1>2. /\ stage' = "cutTargets" /\ batch' = b /\ todo' = DOMAIN b
      /\ successors' = [i \in DOMAIN b |-> Null] /\ ignored' = left_out
      /\ targets' = [i \in DOMAIN b |-> <<>>]
      /\ cutter' = [i \in DOMAIN b |-> [pc |-> "uv", predecessor |-> Null, pending |-> Null]]
  BY <1>1 DEF Begin
<1>3. b \in Seq(Element \ Loops) /\ \A i \in DOMAIN b : b[i] \in Element \ Loops /\ Twin(b[i]) \in Element \ Loops
  BY ArcsOfKeys, Elements DEF EdgeList
<1>4. mark' \in SUBSET (Element \ Loops)
  BY <1>1, <1>3 DEF TypeOK
<1>5. TypeOK'
  <2>1. Null \in Ref /\ <<>> \in Seq(Ref \X Ref)
    BY DEF Ref
  <2>2. [pc |-> "uv", predecessor |-> Null, pending |-> Null] \in Cutter
    BY <2>1 DEF Cutter
  <2>3. successors' \in [DOMAIN batch' -> Ref] /\ targets' \in [DOMAIN batch' -> Seq(Ref \X Ref)]
        /\ cutter' \in [DOMAIN batch' -> Cutter] /\ todo' \in SUBSET DOMAIN batch'
        /\ ignored' \in SUBSET DOMAIN batch'
    BY <1>2, <2>1, <2>2
  <2> QED BY <1>2, <1>3, <1>4, <2>3 DEF TypeOK
<1>6. CutBatch'
  BY <1>2 DEF CutBatch
<1>7. mark' \cap live' = CutArcs'
  <2>1. \A e : e \in mark' \cap live' <=>
               e \in live /\ \E i \in DOMAIN b \ left_out : e = b[i] \/ e = Twin(b[i])
    BY <1>1
  <2>2. ASSUME NEW e, NEW i \in DOMAIN b
        PROVE e = b[i] \/ e = Twin(b[i]) <=> e \in Element /\ Key(e) = Key(b[i])
    BY <1>3, Elements
  <2>3. \A i \in DOMAIN b : b[i] \in live /\ Twin(b[i]) \in live
    BY DEF Arcs
  <2>4. CutArcs' = {e \in Element : \E i \in DOMAIN b \ left_out : Key(e) = Key(b[i])}
    BY <1>2 DEF CutArcs, Chosen
  <2> QED BY <2>1, <2>2, <2>3, <2>4
<1>8. Placed' = Placed /\ Sequences' = Sequences
  BY DEF Placed, Sequences
<1>9. CutStarting'
  BY <1>2, <1>7, <1>8 DEF CutStarting
<1>10. Idle' /\ LinkBatch' /\ LinkSplitting' /\ LinkJoining' /\ CutSplitting' /\ CutJoining'
  BY <1>2 DEF Idle, LinkBatch, LinkSplitting, LinkJoining, CutSplitting, CutJoining
<1> QED BY <1>5, <1>6, <1>9, <1>10 DEF IInv

(* The batches are sequences of edges.                                     *)
LEMMA BatchesAreLists ==
  ASSUME NEW b \in Batches
  PROVE  EdgeList(b)
BY BatchesOfDistinctEdges DEF EdgeList

(* Links, one by one.                                                      *)
LEMMA LinkSequentialIInv ==
  ASSUME IInv, NEW b \in Batches, LinkSequential(b)
  PROVE  IInv'
<1>1. EdgeList(b)
  BY BatchesAreLists
<1>2. TypeOK /\ stage = "idle"
  BY DEF IInv, LinkSequential
<1>3. live = Of(forest) /\ mark \cap live = {} /\ Sequences \in Tours(Placed)
  BY <1>2 DEF IInv, Idle
<1>4. Keys(b) \cap forest = {}
  BY <1>1, NoOldEdge DEF LinkSequential
<1>5. Placed \in SUBSET Element /\ Loops \subseteq Placed
  BY <1>2, Elements DEF TypeOK, Placed
<1>6. Placed \cap Arcs(b) = {}
  BY <1>1, <1>3, <1>4, OfKeys, ArcsOfKeys, ZenonT(60) DEF Placed
<1>7. PICK s : s = LinkAll(Sequences, b)
  OBVIOUS
<1>8. s \in Tours(Placed \cup Arcs(b))
  BY <1>1, <1>3, <1>5, <1>6, <1>7, LinkAllTours
<1>9. /\ next' = s.next /\ prev' = s.prev /\ forest' = forest \cup Keys(b)
      /\ live' = live \cup Arcs(b) /\ edges' = edges \cup Keys(b) /\ mark' = mark \ Arcs(b) /\ Rest
  BY <1>7 DEF LinkSequential, SetSequences
<1>10. s \in State
  BY <1>8 DEF Tours
<1>11. Sequences' = s /\ next' \in [Element -> Ref] /\ prev' \in [Element -> Ref]
  BY <1>9, <1>10, ListsSet
<1>12. Placed' = Placed \cup Arcs(b)
  BY <1>9 DEF Placed
<1>13. live' = Of(forest')
  BY <1>1, <1>3, <1>9, OfKeys
<1>14. Keys(b) \subseteq {e \in Element : e[1] < e[2]}
  BY <1>1, OfKeys
<1>15. /\ edges' \in SUBSET {e \in Element : e[1] < e[2]} /\ forest' \in SUBSET {e \in Element : e[1] < e[2]}
       /\ mark' \in SUBSET (Element \ Loops)
  BY <1>2, <1>9, <1>14 DEF TypeOK
<1>16. mark' \cap live' = {}
  BY <1>3, <1>9
<1>17. Sequences' \in Tours(Placed')
  BY <1>8, <1>11, <1>12
<1> QED BY <1>9, <1>11, <1>13, <1>15, <1>16, <1>17, AtRest

(* Cuts, one by one.                                                       *)
LEMMA CutSequentialIInv ==
  ASSUME IInv, NEW b \in Batches, CutSequential(b)
  PROVE  IInv'
<1>1. EdgeList(b)
  BY BatchesAreLists
<1>2. TypeOK /\ stage = "idle"
  BY DEF IInv, CutSequential
<1>3. live = Of(forest) /\ mark \cap live = {} /\ Sequences \in Tours(Placed)
  BY <1>2 DEF IInv, Idle
<1>4. Keys(b) \subseteq forest /\ forest' = forest \ Keys(b) /\ CutNow(b) /\ Rest
  BY DEF CutSequential
<1>5. Arcs(b) \subseteq live
  BY <1>1, <1>3, <1>4, OfKeys
<1>6. /\ next' \in [Element -> Ref] /\ prev' \in [Element -> Ref]
      /\ Sequences' \in Tours(Placed')
      /\ live' = live \ Arcs(b) /\ mark' = mark
      /\ edges' \in SUBSET {e \in Element : e[1] < e[2]}
  BY <1>1, <1>2, <1>3, <1>4, <1>5, CutNowTours
<1>7. live' = Of(forest')
  BY <1>1, <1>3, <1>4, <1>6, OfKeys
<1>8. forest' \in SUBSET {e \in Element : e[1] < e[2]} /\ mark' \in SUBSET (Element \ Loops) /\ mark' \cap live' = {}
  BY <1>2, <1>3, <1>4, <1>6 DEF TypeOK
<1> QED BY <1>4, <1>6, <1>7, <1>8, AtRest

(* The first round of a batch of cuts.                                     *)
LEMMA BatchCutIInv ==
  ASSUME IInv, NEW b \in Batches, BatchCut(b)
  PROVE  IInv'
<1>1. EdgeList(b)
  BY BatchesAreLists
<1>2. TypeOK /\ stage = "idle"
  BY DEF IInv, BatchCut
<1>3. live = Of(forest) /\ mark \cap live = {} /\ Sequences \in Tours(Placed)
  BY <1>2 DEF IInv, Idle
<1>4. /\ Keys(b) \subseteq forest /\ forest' = forest \ Keys(b) /\ Round(b)
      /\ next' = next /\ prev' = prev /\ live' = live /\ edges' = edges
  BY DEF BatchCut, lists
<1>5. live = Of(forest') \cup Arcs(b)
  BY <1>1, <1>3, <1>4, OfKeys
<1>6. forest' \in SUBSET {e \in Element : e[1] < e[2]} /\ Keys(b) \cap forest' = {}
  BY <1>2, <1>4 DEF TypeOK
<1> QED BY <1>1, <1>2, <1>3, <1>4, <1>5, <1>6, RoundIInv

(* The loop that splits begins: no list is open yet.                       *)
LEMMA BatchLinkIInv ==
  ASSUME IInv, NEW b \in Batches, BatchLink(b)
  PROVE  IInv'
<1>1. EdgeList(b)
  BY BatchesAreLists
<1>2. TypeOK /\ stage = "idle"
  BY DEF IInv, BatchLink
<1>3. live = Of(forest) /\ mark \cap live = {} /\ Sequences \in Tours(Placed)
  BY <1>2 DEF IInv, Idle
<1>4. Keys(b) \cap forest = {}
  BY <1>1, NoOldEdge DEF BatchLink
<1>5. PICK q \in Seq(Element \ Loops) : q = BothDirections(b) /\ Enumerates(q, Arcs(b)) /\ Sorted(q)
  BY <1>1, BothDirectionsSorted DEF Enumerations
<1>6. /\ forest' = forest \cup Keys(b) /\ stage' = "linkSplit" /\ batch' = q /\ todo' = DOMAIN q
      /\ successors' = [i \in DOMAIN q |-> Null] /\ ignored' = {}
      /\ targets' = [i \in DOMAIN q |-> <<>>]
      /\ cutter' = [i \in DOMAIN q |-> [pc |-> "uv", predecessor |-> Null, pending |-> Null]]
      /\ next' = next /\ prev' = prev /\ live' = live /\ edges' = edges /\ mark' = mark
  BY <1>5 DEF BatchLink, Begin, lists, memory
<1>7. TypeOK'
  <2>1. Null \in Ref /\ <<>> \in Seq(Ref \X Ref)
    BY DEF Ref
  <2>2. [pc |-> "uv", predecessor |-> Null, pending |-> Null] \in Cutter
    BY <2>1 DEF Cutter
  <2>3. successors' \in [DOMAIN batch' -> Ref] /\ targets' \in [DOMAIN batch' -> Seq(Ref \X Ref)]
        /\ cutter' \in [DOMAIN batch' -> Cutter] /\ todo' \in SUBSET DOMAIN batch'
        /\ ignored' \in SUBSET DOMAIN batch'
    BY <1>6, <2>1, <2>2
  <2>4. forest' \in SUBSET {e \in Element : e[1] < e[2]}
    BY <1>1, <1>2, <1>6, OfKeys DEF TypeOK
  <2> QED BY <1>2, <1>6, <2>3, <2>4 DEF TypeOK
<1>8. NewArcs' = Arcs(b)
  BY <1>5, <1>6 DEF NewArcs, Enumerates
<1>9. \A e \in Arcs(b) : Twin(e) \in Arcs(b) /\ Key(e) \in Arcs(b)
  <2>1. Arcs(b) = {e \in Element : Key(e) \in Keys(b)}
    BY <1>1, ArcsOfKeys
  <2>2. ASSUME NEW e \in Arcs(b) PROVE Twin(e) \in Arcs(b) /\ Key(e) \in Arcs(b)
    <3>1. e \in Element /\ Twin(e) \in Element /\ Key(Twin(e)) = Key(e) /\ Key(e) \in {e, Twin(e)}
      BY <2>1, Elements
    <3> QED BY <2>1, <3>1
  <2> QED BY <2>2
<1>10. Of(forest') = Of(forest) \cup Arcs(b) /\ Of(forest) \cap Arcs(b) = {}
  BY <1>1, <1>4, <1>6, OfKeys
<1>11. Placed' = Placed /\ Sequences' = Sequences
  BY <1>6 DEF Placed, Sequences
<1>12. Proper(Sequences, Placed) /\ Whole(Sequences, Placed)
  BY <1>3 DEF Tours
<1>13. LinkBatch'
  <2>1. batch' \in Enumerations(NewArcs')
    BY <1>5, <1>6, <1>8 DEF Enumerations
  <2> QED BY <1>3, <1>6, <1>8, <1>9, <1>10, <1>11, <1>12, <2>1 DEF LinkBatch
<1>14. LinkSplitting'
  <2>1. live' = Of(forest') \ {e \in NewArcs' : \E i \in todo' : batch'[i] = Key(e)}
    <3>1. \A e \in Arcs(b) : \E i \in DOMAIN q : q[i] = Key(e)
      BY <1>5, <1>9 DEF Enumerates
    <3> QED BY <1>3, <1>6, <1>8, <1>10, <3>1
  <2>2. \A i : ~Ran(i)'
    BY <1>6 DEF Ran
  <2>3. \A e \in Placed' : e \notin NewArcs' /\ next'[e] # Null /\ prev'[e] # Null
    <3>1. \A e \in Placed : next[e] # Null /\ prev[e] # Null
      BY <1>2, <1>12, ListsState DEF Whole, TypeOK
    <3>2. Placed \cap Arcs(b) = {}
      BY <1>1, <1>3, <1>10, ArcsOfKeys DEF Placed
    <3> QED BY <1>6, <1>8, <1>11, <3>1, <3>2
  <2> QED BY <2>1, <2>2, <2>3 DEF LinkSplitting
<1>15. Idle' /\ LinkJoining' /\ CutBatch' /\ CutStarting' /\ CutSplitting' /\ CutJoining'
  BY <1>6 DEF Idle, LinkJoining, CutBatch, CutStarting, CutSplitting, CutJoining
<1> QED BY <1>7, <1>13, <1>14, <1>15 DEF IInv

(* A group is the arcs that leave one vertex: it has one first and one     *)
(* last iteration.                                                         *)
LEMMA Groups ==
  ASSUME batch \in Enumerations(NewArcs)
  PROVE  /\ \A i, k \in DOMAIN batch : batch[i][1] = batch[k][1] =>
              /\ LastOfVertex(i) /\ LastOfVertex(k) => i = k
              /\ FirstOfVertex(i) /\ FirstOfVertex(k) => i = k
         /\ \A i \in DOMAIN batch : \E k \in DOMAIN batch : FirstOfVertex(k) /\ batch[k][1] = batch[i][1]
         /\ \A i \in DOMAIN batch : \E k \in DOMAIN batch : LastOfVertex(k) /\ batch[k][1] = batch[i][1]
<1>1. batch \in Seq(Element \ Loops) /\ Sorted(batch)
  BY DEF Enumerations
<1>2. PICK n \in Nat : n = Len(batch) /\ DOMAIN batch = 1 .. n
  BY <1>1
<1>3. \A i \in 1 .. n : batch[i][1] \in Nat
  <2>1. \A i \in 1 .. n : batch[i] \in Element
    BY <1>1, <1>2
  <2> QED BY <2>1, Elements DEF Vertices
<1>4. \A i, k \in 1 .. n : i < k => batch[i][1] <= batch[k][1]
  BY <1>1, <1>2 DEF Sorted
<1>5. ASSUME NEW i \in 1 .. n, NEW k \in 1 .. n, batch[i][1] = batch[k][1], i < k
      PROVE  ~LastOfVertex(i) /\ ~FirstOfVertex(k)
  <2>1. PICK l \in 1 .. n, m \in 1 .. n : l = i + 1 /\ m = k - 1
    BY <1>5
  <2>2. batch[i][1] <= batch[l][1] /\ batch[l][1] <= batch[k][1]
    <3>1. i < l /\ (l < k \/ l = k)
      BY <1>5, <2>1
    <3>2. batch[i][1] <= batch[l][1]
      BY <3>1, <1>4
    <3>3. l < k => batch[l][1] <= batch[k][1]
      BY <1>4
    <3> QED BY <3>1, <3>2, <3>3, <1>3
  <2>3. batch[i][1] <= batch[m][1] /\ batch[m][1] <= batch[k][1]
    <3>1. m < k /\ (i < m \/ i = m)
      BY <1>5, <2>1
    <3>2. batch[m][1] <= batch[k][1]
      BY <3>1, <1>4
    <3>3. i < m => batch[i][1] <= batch[m][1]
      BY <1>4
    <3> QED BY <3>1, <3>2, <3>3, <1>3
  <2>4. batch[l][1] = batch[i][1] /\ batch[m][1] = batch[k][1]
    <3>1. batch[l][1] \in Nat /\ batch[m][1] \in Nat /\ batch[i][1] \in Nat /\ batch[k][1] \in Nat
      BY <1>3
    <3> QED BY <3>1, <2>2, <2>3, <1>5
  <2>5. i # n /\ k # 1
    BY <1>5
  <2> QED BY <1>2, <2>1, <2>4, <2>5 DEF LastOfVertex, FirstOfVertex
<1>6. ASSUME NEW i \in 1 .. n, NEW k \in 1 .. n, batch[i][1] = batch[k][1],
             (LastOfVertex(i) /\ LastOfVertex(k)) \/ (FirstOfVertex(i) /\ FirstOfVertex(k))
      PROVE  i = k
  <2>1. i < k \/ i = k \/ k < i
    OBVIOUS
  <2>2. ~(i < k)
    BY <1>5, <1>6
  <2>3. ~(k < i)
    BY <1>5, <1>6
  <2> QED BY <2>1, <2>2, <2>3
<1>7. ASSUME NEW i \in 1 .. n
      PROVE  \E k \in 1 .. n : FirstOfVertex(k) /\ batch[k][1] = batch[i][1]
  <2> DEFINE N == {l \in 1 .. n : batch[l][1] = batch[i][1]}
  <2>1. PICK k \in N : \A l \in N : k <= l
    <3>1. i \in N /\ N \subseteq Nat
      OBVIOUS
    <3> HIDE DEF N
    <3> QED BY <3>1, LeastNumber
  <2>2. CASE k = 1
    BY <2>1, <2>2 DEF FirstOfVertex
  <2>3. CASE k # 1
    <3>1. PICK l \in 1 .. n : l = k - 1
      BY <2>3
    <3>2. ~(k <= l)
      BY <3>1
    <3>3. batch[l][1] # batch[k][1]
      BY <2>1, <3>2
    <3> QED BY <3>1, <3>3 DEF FirstOfVertex
  <2> QED BY <2>2, <2>3
<1>8. ASSUME NEW i \in 1 .. n
      PROVE  \E k \in 1 .. n : LastOfVertex(k) /\ batch[k][1] = batch[i][1]
  <2> DEFINE N == {l \in 0 .. n - 1 : batch[n - l][1] = batch[i][1]}
  <2>1. PICK m \in N : \A l \in N : m <= l
    <3>1. n - i \in N
      <4>1. n - (n - i) = i /\ n - i \in 0 .. n - 1
        OBVIOUS
      <4> QED BY <4>1
    <3>2. N \subseteq Nat
      OBVIOUS
    <3> HIDE DEF N
    <3> QED BY <3>1, <3>2, LeastNumber
  <2>2. PICK k \in 1 .. n : k = n - m
    OBVIOUS
  <2>3. CASE k = n
    BY <1>2, <2>1, <2>2, <2>3 DEF LastOfVertex
  <2>4. CASE k # n
    <3>1. PICK l \in 0 .. n - 1 : l = m - 1 /\ n - l = k + 1
      BY <2>2, <2>4
    <3>2. ~(m <= l)
      BY <3>1
    <3>3. batch[n - l][1] # batch[i][1]
      BY <2>1, <3>2
    <3>4. batch[k][1] = batch[i][1]
      BY <2>1, <2>2
    <3> QED BY <3>1, <3>3, <3>4 DEF LastOfVertex
  <2> QED BY <2>3, <2>4
<1>9. DOMAIN batch = 1 .. n
  BY <1>2
<1> QED BY <1>9, <1>6, <1>7, <1>8

(* An iteration splits the list at its vertex, if it is the last one of    *)
(* the vertex, and has not been split there before; it makes the elements  *)
(* of its edge, if it is the one of the two directions that does.          *)
LEMMA LinkSplitIInv ==
  ASSUME IInv, NEW i \in DOMAIN batch, LinkSplit(i)
  PROVE  IInv'
<1>1. TypeOK /\ LinkBatch /\ LinkSplitting /\ stage = "linkSplit" /\ i \in todo
  BY DEF IInv, LinkSplit
<1>2. /\ batch \in Enumerations(NewArcs) /\ \A e \in NewArcs : Twin(e) \in NewArcs
      /\ NewArcs \subseteq Of(forest) /\ mark \cap live = {} /\ Proper(Sequences, Placed)
  BY <1>1 DEF LinkBatch
<1>3. /\ live = Of(forest) \ {e \in NewArcs : \E k \in todo : batch[k] = Key(e)}
      /\ \A e \in Placed :
           next[e] = Null <=> \/ e \in NewArcs
                              \/ \E k \in DOMAIN batch : Ran(k) /\ LastOfVertex(k) /\ e = Loop(batch[k][1])
      /\ \A e \in Placed :
           prev[e] = Null <=> \/ e \in NewArcs
                              \/ \E k \in DOMAIN batch : Ran(k) /\ LastOfVertex(k) /\ e = successors[k]
      /\ \A k \in DOMAIN batch :
           Ran(k) /\ LastOfVertex(k) =>
             successors[k] \in Placed \ NewArcs /\ successors[k][1] = batch[k][1]
  BY <1>1 DEF LinkSplitting
<1>4. /\ \A j, k \in DOMAIN batch : j # k => batch[j] # batch[k]
      /\ \A k \in DOMAIN batch : batch[k] \in NewArcs
      /\ \A e \in NewArcs : \E k \in DOMAIN batch : batch[k] = e
      /\ \A k \in DOMAIN batch : batch[k] \in Element \ Loops
  BY <1>2 DEF Enumerations, Enumerates
<1>5. PICK uv \in Element \ Loops : uv = batch[i] /\ uv \in NewArcs
  BY <1>4
<1>6. PICK u \in Loops : u = Loop(uv[1]) /\ u \in Element /\ u[1] = uv[1] /\ u[2] = uv[1]
  BY Elements
<1>7. PICK new : new = (IF uv = Key(uv) THEN {uv, Twin(uv)} ELSE {}) /\ new \subseteq NewArcs
  BY <1>2, <1>5
<1>8. PICK t : t = (IF LastOfVertex(i) THEN Split(Sequences, u) ELSE Sequences)
  OBVIOUS
<1>9. PICK r : r = (IF new = {} THEN t ELSE Fresh(t, uv))
  OBVIOUS
<1>10. /\ successors' = [successors EXCEPT ![i] = IF LastOfVertex(i) THEN next[u] ELSE Null]
       /\ next' = r.next /\ prev' = r.prev /\ live' = live \cup new
       /\ edges' = edges \cup (IF new = {} THEN {} ELSE {uv})
       /\ mark' = mark \ new /\ todo' = todo \ {i}
       /\ stage' = stage /\ batch' = batch /\ ignored' = ignored /\ targets' = targets
       /\ cutter' = cutter /\ forest' = forest
  BY <1>5, <1>6, <1>7, <1>8, <1>9 DEF LinkSplit, SetSequences
<1>11. Sequences \in State /\ Sequences.next = next /\ Sequences.prev = prev
       /\ Placed \in SUBSET Element /\ u \in Placed
  <2>1. Placed \in SUBSET Element
    BY <1>1, Elements DEF TypeOK, Placed
  <2> QED BY <1>1, <2>1, ListsState DEF TypeOK, Placed
<1>12. Null \notin Element /\ Twin(uv) \in Element \ Loops /\ uv # Twin(uv) /\ Key(Twin(uv)) = Key(uv)
       /\ Twin(uv) \in NewArcs /\ Key(Key(uv)) = Key(uv)
  <2>1. Key(uv) \in {uv, Twin(uv)} /\ Key(Twin(uv)) = Key(uv)
    BY Elements
  <2> QED BY <1>2, <1>5, <2>1, Elements
<1>13. new # {} => uv \notin Placed /\ Twin(uv) \notin Placed
  BY <1>1, <1>3, <1>5, <1>7, <1>12 DEF Placed
<1>14. /\ t \in State /\ Proper(t, Placed)
       /\ \A e \in Placed : t.next[e] = IF LastOfVertex(i) /\ e = u THEN Null ELSE next[e]
       /\ \A e \in Placed : t.prev[e] = IF LastOfVertex(i) /\ prev[e] = u THEN Null ELSE prev[e]
  <2>1. CASE LastOfVertex(i)
    <3>1. t = Split(Sequences, u)
      BY <1>8, <2>1
    <3>2. t \in State /\ Proper(t, Placed) /\ Opened(t, Sequences, u, Placed)
      BY <1>2, <1>11, <3>1, SplitProper
    <3> QED BY <1>11, <2>1, <3>2 DEF Opened
  <2>2. CASE ~LastOfVertex(i)
    BY <1>2, <1>8, <1>11, <2>2
  <2> QED BY <2>1, <2>2
<1>15. Placed' = Placed \cup new
  BY <1>10 DEF Placed
<1>16. /\ r \in State /\ Proper(r, Placed \cup new)
       /\ \A e \in Placed : r.next[e] = t.next[e] /\ r.prev[e] = t.prev[e]
       /\ \A e \in new : r.next[e] = Null /\ r.prev[e] = Null
  <2>1. CASE new = {}
    <3>1. r = t /\ Placed \cup new = Placed
      BY <1>9, <2>1
    <3> QED BY <1>14, <2>1, <3>1
  <2>2. CASE new # {}
    <3>1. new = {uv, Twin(uv)} /\ r = Fresh(t, uv)
      BY <1>7, <1>9, <2>2
    <3> QED BY <1>11, <1>13, <1>14, <2>2, <3>1, FreshProper
  <2> QED BY <2>1, <2>2
<1>17. Sequences' = r /\ next' \in [Element -> Ref] /\ prev' \in [Element -> Ref]
  BY <1>10, <1>16, ListsSet
<1>18. NewArcs' = NewArcs /\ \A k : LastOfVertex(k)' <=> LastOfVertex(k)
  BY <1>10 DEF NewArcs, LastOfVertex
<1>19. \A k : Ran(k)' <=> Ran(k) \/ k = i
  BY <1>10 DEF Ran
<1>20. ~Ran(i)
  BY <1>1 DEF Ran
<1>21. ASSUME LastOfVertex(i)
       PROVE  /\ next[u] \in Placed \ NewArcs /\ next[u][1] = uv[1]
              /\ \A e \in Placed : prev[e] = u <=> e = next[u]
  <2>1. ASSUME NEW k \in DOMAIN batch, Ran(k), LastOfVertex(k), u = Loop(batch[k][1]) PROVE FALSE
    <3>1. batch[k][1] = uv[1]
      <4>1. batch[k] \in Element
        BY <1>4
      <4>2. batch[k][1] \in Vertices
        BY <4>1, Elements
      <4> QED BY <1>6, <2>1, <4>2, Elements
    <3> QED BY <1>2, <1>5, <1>20, <1>21, <2>1, <3>1, Groups
  <2>2. u \notin NewArcs
    BY <1>4, <1>6
  <2>3. next[u] # Null
    BY <1>3, <1>11, <2>1, <2>2
  <2>4. next[u] \in Placed /\ next[u][1] = u[2] /\ \A e \in Placed : prev[e] = u <=> e = next[u]
    BY <1>2, <1>11, <2>3 DEF Proper
  <2>5. prev[next[u]] # Null
    BY <1>12, <2>4, <1>11
  <2>6. next[u] \notin NewArcs
    BY <1>3, <2>4, <2>5
  <2> QED BY <1>6, <2>4, <2>6
<1>22. TypeOK'
  <2>1. next[u] \in Ref /\ Null \in Ref
    BY <1>1, <1>6 DEF TypeOK, Ref
  <2>2. successors' \in [DOMAIN batch -> Ref]
    BY <1>1, <1>10, <2>1 DEF TypeOK
  <2>3. new \subseteq Element \ Loops
    BY <1>7, <1>12
  <2>4. new # {} => uv \in {e \in Element : e[1] < e[2]}
    <3>1. uv = Key(uv) => uv[1] < uv[2]
      BY Elements
    <3> QED BY <1>7, <3>1
  <2>5. edges' \in SUBSET {e \in Element : e[1] < e[2]}
    BY <1>1, <1>10, <2>4 DEF TypeOK
  <2>6. live' \in SUBSET (Element \ Loops) /\ mark' \in SUBSET (Element \ Loops) /\ todo' \in SUBSET DOMAIN batch
    BY <1>1, <1>10, <2>3 DEF TypeOK
  <2> QED BY <1>1, <1>10, <1>17, <2>2, <2>5, <2>6 DEF TypeOK
<1>23. LinkBatch'
  <2>1. mark' \cap live' = {}
    BY <1>2, <1>10
  <2>2. Proper(Sequences', Placed')
    BY <1>15, <1>16, <1>17
  <2> QED BY <1>2, <1>10, <1>18, <2>1, <2>2 DEF LinkBatch
<1>24. LinkSplitting'
  <2>1. live' = Of(forest') \ {e \in NewArcs' : \E k \in todo' : batch'[k] = Key(e)}
    <3>1. ASSUME NEW e \in NewArcs PROVE batch[i] = Key(e) <=> e \in new
      <4>1. e \in Element
        BY <1>4
      <4>2. CASE uv = Key(uv)
        BY <1>5, <1>7, <1>12, <4>1, <4>2, Elements
      <4>3. CASE uv # Key(uv)
        <5>1. Key(Key(e)) = Key(e)
          <6>1. Key(e) \in {e, Twin(e)} /\ Key(Twin(e)) = Key(e)
            BY <4>1, Elements
          <6> QED BY <6>1
        <5> QED BY <1>5, <1>7, <4>3, <5>1
      <4> QED BY <4>2, <4>3
    <3>2. ASSUME NEW e \in NewArcs, NEW k \in todo, batch[k] = Key(e), e \in new PROVE k = i
      <4>1. k \in DOMAIN batch
        BY <1>1 DEF TypeOK
      <4> QED BY <1>4, <3>1, <3>2, <4>1
    <3>3. ASSUME NEW e \in NewArcs
          PROVE  (\E k \in todo \ {i} : batch[k] = Key(e)) <=> (\E k \in todo : batch[k] = Key(e)) /\ e \notin new
      BY <3>1, <3>2
    <3>4. live' = Of(forest) \ {e \in NewArcs : \E k \in todo \ {i} : batch[k] = Key(e)}
      BY <1>2, <1>3, <1>7, <1>10, <3>3
    <3> QED BY <1>10, <1>18, <3>4
  <2>2. ASSUME NEW e \in Placed'
        PROVE next'[e] = Null <=> \/ e \in NewArcs
                                  \/ \E k \in DOMAIN batch : (Ran(k) \/ k = i) /\ LastOfVertex(k) /\ e = Loop(batch[k][1])
    <3>1. CASE e \in new
      BY <1>7, <1>10, <1>16, <3>1
    <3>2. CASE e \in Placed
      <4>1. next'[e] = Null <=> (LastOfVertex(i) /\ e = u) \/ next[e] = Null
        BY <1>10, <1>14, <1>16, <3>2
      <4> QED BY <1>3, <1>5, <1>6, <3>2, <4>1
    <3> QED BY <1>15, <3>1, <3>2
  <2>3. PICK succ : succ = successors' /\ \A k \in DOMAIN batch : 
           succ[k] = IF k = i THEN (IF LastOfVertex(i) THEN next[u] ELSE Null) ELSE successors[k]
    <3>1. successors \in [DOMAIN batch -> Ref]
      BY <1>1 DEF TypeOK
    <3>2. PICK old, value : old = successors /\ value = IF LastOfVertex(i) THEN next[u] ELSE Null
      OBVIOUS
    <3>3. \A k \in DOMAIN batch : [old EXCEPT ![i] = value][k] = IF k = i THEN value ELSE old[k]
      BY <3>1, <3>2
    <3>4. successors' = [old EXCEPT ![i] = value]
      BY <1>10, <3>2
    <3> QED BY <3>2, <3>3, <3>4
  <2>4. ASSUME NEW e \in Placed'
        PROVE prev'[e] = Null <=> \/ e \in NewArcs
                                  \/ \E k \in DOMAIN batch : (Ran(k) \/ k = i) /\ LastOfVertex(k) /\ e = succ[k]
    <3>1. CASE e \in new
      BY <1>7, <1>10, <1>16, <3>1
    <3>2. CASE e \in Placed
      <4>1. prev'[e] = Null <=> (LastOfVertex(i) /\ e = next[u]) \/ prev[e] = Null
        BY <1>10, <1>14, <1>16, <1>21, <3>2
      <4>2. (\E k \in DOMAIN batch : (Ran(k) \/ k = i) /\ LastOfVertex(k) /\ e = succ[k]) <=>
              \/ LastOfVertex(i) /\ e = next[u]
              \/ \E k \in DOMAIN batch : Ran(k) /\ LastOfVertex(k) /\ e = successors[k]
        BY <1>20, <2>3
      <4> QED BY <1>3, <3>2, <4>1, <4>2
    <3> QED BY <1>15, <3>1, <3>2
  <2>5. ASSUME NEW k \in DOMAIN batch, Ran(k) \/ k = i, LastOfVertex(k)
        PROVE  succ[k] \in Placed' \ NewArcs /\ succ[k][1] = batch[k][1]
    BY <1>3, <1>5, <1>15, <1>20, <1>21, <2>3, <2>5
  <2> QED BY <1>10, <1>18, <1>19, <2>1, <2>2, <2>3, <2>4, <2>5 DEF LinkSplitting
<1>25. Idle' /\ LinkJoining' /\ CutBatch' /\ CutStarting' /\ CutSplitting' /\ CutJoining'
  BY <1>1, <1>10 DEF Idle, LinkJoining, CutBatch, CutStarting, CutSplitting, CutJoining
<1> QED BY <1>22, <1>23, <1>24, <1>25 DEF IInv

(* What follows the twin of the i-th arc.                                  *)
Following(i) == IF LastOfVertex(i) THEN successors[i] ELSE batch[i + 1]

(* The joins of an iteration of BatchLink: to its arc, if it is the first  *)
(* of its vertex, and from the twin of the arc.                            *)
LEMMA LinkTargetsAre ==
  ASSUME TypeOK, NEW T, T = LinkTargets, NEW i \in DOMAIN batch
  PROVE  /\ T[i] \in Seq(Ref \X Ref)
         /\ FirstOfVertex(i) => /\ DOMAIN T[i] = {1, 2}
                                /\ Left(T, <<i, 1>>) = Loop(batch[i][1]) /\ Right(T, <<i, 1>>) = batch[i]
                                /\ Left(T, <<i, 2>>) = Twin(batch[i]) /\ Right(T, <<i, 2>>) = Following(i)
         /\ ~FirstOfVertex(i) => /\ DOMAIN T[i] = {1}
                                 /\ Left(T, <<i, 1>>) = Twin(batch[i]) /\ Right(T, <<i, 1>>) = Following(i)
<1>1. PICK uv \in Element : uv = batch[i]
  BY DEF TypeOK
<1>2. PICK q \in Ref \X Ref : q = <<Twin(uv), Following(i)>>
  <2>1. Twin(uv) \in Ref
    BY Elements DEF Ref
  <2>2. CASE LastOfVertex(i)
    BY <2>1, <2>2 DEF TypeOK, Following
  <2>3. CASE ~LastOfVertex(i)
    <3>1. batch \in Seq(Element \ Loops) /\ i \in 1 .. Len(batch) /\ i # Len(batch)
      BY <2>3 DEF TypeOK, LastOfVertex
    <3>2. i + 1 \in DOMAIN batch
      BY <3>1
    <3>3. batch[i + 1] \in Ref
      BY <3>1, <3>2 DEF Ref
    <3> QED BY <2>1, <2>3, <3>3 DEF Following
  <2> QED BY <2>2, <2>3
<1>3. PICK p \in Ref \X Ref : p = <<Loop(uv[1]), uv>>
  <2>1. Loop(uv[1]) \in Ref /\ uv \in Ref
    BY Elements DEF Ref
  <2> QED BY <2>1
<1>4. T[i] = (IF FirstOfVertex(i) THEN <<p>> ELSE <<>>) \o <<q>>
  BY <1>1, <1>2, <1>3 DEF LinkTargets, LinkJoins, Following
<1>5. p[1] = Loop(uv[1]) /\ p[2] = uv /\ q[1] = Twin(uv) /\ q[2] = Following(i)
  BY <1>2, <1>3
<1>6. CASE FirstOfVertex(i)
  <2>1. T[i] = <<p>> \o <<q>>
    BY <1>4, <1>6
  <2>2. T[i] = <<p, q>>
    BY <2>1, OneAndOne
  <2> QED BY <1>1, <1>5, <1>6, <2>2 DEF Left, Right
<1>7. CASE ~FirstOfVertex(i)
  <2>1. T[i] = <<q>>
    BY <1>4, <1>7
  <2> QED BY <1>1, <1>5, <1>7, <2>1 DEF Left, Right
<1> QED BY <1>6, <1>7

(* When the loop that splits has ended, the joins that the other one is to *)
(* make fit.                                                               *)
LEMMA LinkTargetsFit ==
  ASSUME TypeOK, LinkBatch, LinkSplitting, stage = "linkSplit", todo = {}
  PROVE  live = Of(forest) /\ Fits(Sequences, Placed, LinkTargets, Indices(LinkTargets, DOMAIN batch))
<1>1. /\ batch \in Enumerations(NewArcs) /\ \A e \in NewArcs : Twin(e) \in NewArcs
      /\ NewArcs \subseteq Of(forest) /\ Proper(Sequences, Placed)
  BY DEF LinkBatch
<1>2. live = Of(forest) /\ \A i \in DOMAIN batch : Ran(i)
  BY DEF LinkSplitting, Ran
<1>3. /\ \A e \in Placed :
           next[e] = Null <=> \/ e \in NewArcs
                              \/ \E k \in DOMAIN batch : LastOfVertex(k) /\ e = Loop(batch[k][1])
      /\ \A e \in Placed :
           prev[e] = Null <=> \/ e \in NewArcs
                              \/ \E k \in DOMAIN batch : LastOfVertex(k) /\ e = successors[k]
      /\ \A k \in DOMAIN batch :
           LastOfVertex(k) => successors[k] \in Placed \ NewArcs /\ successors[k][1] = batch[k][1]
  BY <1>2 DEF LinkSplitting
<1>4. /\ batch \in Seq(Element \ Loops)
      /\ \A j, k \in DOMAIN batch : j # k => batch[j] # batch[k]
      /\ \A k \in DOMAIN batch : batch[k] \in NewArcs
      /\ \A e \in NewArcs : \E k \in DOMAIN batch : batch[k] = e
      /\ \A k \in DOMAIN batch : batch[k] \in Element \ Loops
  BY <1>1 DEF Enumerations, Enumerates
<1>5. PICK n \in Nat : n = Len(batch) /\ DOMAIN batch = 1 .. n
  BY <1>4
<1>6. Sequences.next = next /\ Sequences.prev = prev /\ NewArcs \subseteq Placed /\ Loops \subseteq Placed
      /\ Placed \subseteq Element /\ NewArcs \cap Loops = {}
  BY <1>1, <1>2, ListsState, Elements DEF TypeOK, Placed, Of
<1>7. PICK T : T = LinkTargets
  OBVIOUS
<1>8. PICK J : J = Indices(T, DOMAIN batch)
  OBVIOUS
<1>9. ASSUME NEW i \in DOMAIN batch
      PROVE  /\ FirstOfVertex(i) => /\ DOMAIN T[i] = {1, 2}
                                    /\ Left(T, <<i, 1>>) = Loop(batch[i][1]) /\ Right(T, <<i, 1>>) = batch[i]
                                    /\ Left(T, <<i, 2>>) = Twin(batch[i]) /\ Right(T, <<i, 2>>) = Following(i)
             /\ ~FirstOfVertex(i) => /\ DOMAIN T[i] = {1}
                                     /\ Left(T, <<i, 1>>) = Twin(batch[i]) /\ Right(T, <<i, 1>>) = Following(i)
  BY <1>7, LinkTargetsAre
<1> DEFINE OfLoop(j, i) == /\ FirstOfVertex(i) /\ j = <<i, 1>>
                           /\ Left(T, j) = Loop(batch[i][1]) /\ Right(T, j) = batch[i]
           OfTwin(j, i) == /\ j = <<i, IF FirstOfVertex(i) THEN 2 ELSE 1>>
                           /\ Left(T, j) = Twin(batch[i]) /\ Right(T, j) = Following(i)
<1>10. \A i, k : <<i, k>> \in J <=> i \in DOMAIN batch /\ k \in DOMAIN T[i]
  BY <1>8 DEF Indices
<1>11. ASSUME NEW j \in J PROVE \E i \in DOMAIN batch : OfLoop(j, i) \/ OfTwin(j, i)
  <2>1. PICK i \in DOMAIN batch : \E k \in DOMAIN T[i] : j = <<i, k>>
    BY <1>8 DEF Indices
  <2>2. PICK k \in DOMAIN T[i] : j = <<i, k>>
    BY <2>1
  <2>3. CASE FirstOfVertex(i)
    <3>1. k = 1 \/ k = 2
      BY <1>9, <2>3
    <3> QED BY <1>9, <2>2, <2>3, <3>1
  <2>4. CASE ~FirstOfVertex(i)
    <3>1. k = 1
      BY <1>9, <2>4
    <3> QED BY <1>9, <2>2, <2>4, <3>1
  <2> QED BY <2>3, <2>4
<1>12. ASSUME NEW i \in DOMAIN batch PROVE \E j \in J : OfTwin(j, i)
  <2>1. CASE FirstOfVertex(i)
    <3>1. <<i, 2>> \in J
      BY <1>9, <1>10, <2>1
    <3> QED BY <1>9, <2>1, <3>1
  <2>2. CASE ~FirstOfVertex(i)
    <3>1. <<i, 1>> \in J
      BY <1>9, <1>10, <2>2
    <3> QED BY <1>9, <2>2, <3>1
  <2> QED BY <2>1, <2>2
<1>13. ASSUME NEW i \in DOMAIN batch, FirstOfVertex(i) PROVE \E j \in J : OfLoop(j, i)
  <2>1. <<i, 1>> \in J
    BY <1>9, <1>13, <1>10
  <2> QED BY <1>9, <1>13, <2>1
<1>14. /\ \A j, i : OfLoop(j, i) => /\ FirstOfVertex(i) /\ j = <<i, 1>>
                                    /\ Left(T, j) = Loop(batch[i][1]) /\ Right(T, j) = batch[i]
       /\ \A j, i : OfTwin(j, i) => Left(T, j) = Twin(batch[i]) /\ Right(T, j) = Following(i)
       /\ \A j, k, i : OfTwin(j, i) /\ OfTwin(k, i) => j = k
  OBVIOUS
<1> HIDE DEF OfLoop, OfTwin
<1>15. ASSUME NEW i \in DOMAIN batch
       PROVE  /\ Loop(batch[i][1]) \in Placed /\ Loop(batch[i][1]) \in Loops /\ next[Loop(batch[i][1])] = Null
              /\ Loop(batch[i][1])[2] = batch[i][1] /\ Loop(batch[i][1])[1] = batch[i][1]
              /\ batch[i] \in Placed /\ prev[batch[i]] = Null
              /\ Twin(batch[i]) \in NewArcs /\ Twin(batch[i]) \in Placed /\ next[Twin(batch[i])] = Null
              /\ Twin(batch[i])[2] = batch[i][1]
  <2>1. PICK e \in Element : e = batch[i] /\ e \in NewArcs
    BY <1>4
  <2>2. PICK u \in Vertices : u = e[1]
    BY Elements
  <2>3. Loop(u) \in Loops /\ Loop(u)[1] = u /\ Loop(u)[2] = u /\ Twin(e)[2] = u
    BY <2>2, Elements
  <2>4. next[Loop(u)] = Null
    <3>1. PICK k \in DOMAIN batch : LastOfVertex(k) /\ batch[k][1] = u
      BY <1>1, <2>1, <2>2, Groups
    <3> QED BY <1>3, <1>6, <2>3, <3>1
  <2>5. Twin(e) \in NewArcs
    BY <1>1, <2>1
  <2> QED BY <1>3, <1>6, <2>1, <2>2, <2>3, <2>4, <2>5
<1>16. ASSUME NEW i \in DOMAIN batch, ~LastOfVertex(i)
       PROVE  /\ i + 1 \in DOMAIN batch /\ Following(i) = batch[i + 1]
              /\ ~FirstOfVertex(i + 1) /\ batch[i + 1][1] = batch[i][1]
  <2>1. i # n /\ i \in 1 .. n /\ batch[i + 1][1] = batch[i][1]
    BY <1>5, <1>16 DEF LastOfVertex
  <2>2. i + 1 \in 1 .. n /\ i + 1 # 1 /\ (i + 1) - 1 = i
    BY <2>1
  <2> QED BY <1>5, <1>16, <2>1, <2>2 DEF FirstOfVertex, Following
<1>17. ASSUME NEW i \in DOMAIN batch, LastOfVertex(i)
       PROVE  /\ Following(i) = successors[i] /\ Following(i) \in Placed \ NewArcs
              /\ Following(i)[1] = batch[i][1] /\ prev[Following(i)] = Null
  BY <1>3, <1>17 DEF Following
<1>18. ASSUME NEW i \in DOMAIN batch
       PROVE  /\ Following(i) \in Placed /\ prev[Following(i)] = Null /\ Following(i)[1] = batch[i][1]
              /\ \A k \in DOMAIN batch : FirstOfVertex(k) => batch[k] # Following(i)
  <2>1. CASE LastOfVertex(i)
    BY <1>4, <1>17, <2>1
  <2>2. CASE ~LastOfVertex(i)
    <3>1. PICK l \in DOMAIN batch : l = i + 1 /\ Following(i) = batch[l] /\ ~FirstOfVertex(l) /\ batch[l][1] = batch[i][1]
      BY <1>16, <2>2
    <3> QED BY <1>4, <1>15, <3>1
  <2> QED BY <2>1, <2>2
<1>19. ASSUME NEW i \in DOMAIN batch, NEW k \in DOMAIN batch, Following(i) = Following(k) PROVE i = k
  <2>1. CASE LastOfVertex(i) /\ LastOfVertex(k)
    <3>1. batch[i][1] = batch[k][1]
      BY <1>17, <1>19, <2>1
    <3> QED BY <1>1, <2>1, <3>1, Groups
  <2>2. CASE ~LastOfVertex(i) /\ ~LastOfVertex(k)
    <3>1. i + 1 \in DOMAIN batch /\ k + 1 \in DOMAIN batch /\ batch[i + 1] = batch[k + 1]
      BY <1>16, <1>19, <2>2
    <3>2. i + 1 = k + 1 /\ i \in Nat /\ k \in Nat
      BY <1>4, <1>5, <3>1
    <3> QED BY <3>2
  <2>3. ASSUME NEW l \in DOMAIN batch, NEW m \in DOMAIN batch, LastOfVertex(l), ~LastOfVertex(m),
               Following(l) = Following(m)
        PROVE  FALSE
    BY <1>4, <1>16, <1>17, <2>3
  <2> QED BY <1>19, <2>1, <2>2, <2>3
<1>20. ASSUME NEW j \in J
       PROVE  /\ Left(T, j) \in Placed /\ Right(T, j) \in Placed
              /\ next[Left(T, j)] = Null /\ prev[Right(T, j)] = Null /\ Left(T, j)[2] = Right(T, j)[1]
  <2>1. PICK i \in DOMAIN batch : OfLoop(j, i) \/ OfTwin(j, i)
    BY <1>11
  <2> QED BY <2>1, <1>14, <1>15, <1>18
<1>21. ASSUME NEW j \in J, NEW k \in J, j # k PROVE Left(T, j) # Left(T, k) /\ Right(T, j) # Right(T, k)
  <2>1. PICK i \in DOMAIN batch : OfLoop(j, i) \/ OfTwin(j, i)
    BY <1>11
  <2>2. PICK l \in DOMAIN batch : OfLoop(k, l) \/ OfTwin(k, l)
    BY <1>11
  <2>3. CASE OfLoop(j, i) /\ OfLoop(k, l)
    <3>1. i # l /\ FirstOfVertex(i) /\ FirstOfVertex(l)
      BY <1>14, <1>21, <2>3
    <3>2. batch[i][1] # batch[l][1]
      BY <1>1, <3>1, Groups
    <3>3. batch[i] # batch[l] /\ Loop(batch[i][1]) # Loop(batch[l][1])
      BY <3>2, <1>15
    <3> QED BY <3>3, <1>14, <2>3
  <2>4. CASE OfTwin(j, i) /\ OfTwin(k, l)
    <3>1. i # l
      BY <1>14, <1>21, <2>4
    <3>2. Following(i) # Following(l)
      BY <3>1, <1>19
    <3>3. Twin(batch[i]) # Twin(batch[l])
      BY <3>1, <1>4, Elements
    <3> QED BY <3>2, <3>3, <1>14, <2>4
  <2>5. ASSUME NEW x, NEW y, NEW a \in DOMAIN batch, NEW b \in DOMAIN batch, OfLoop(x, a), OfTwin(y, b)
        PROVE  Left(T, x) # Left(T, y) /\ Right(T, x) # Right(T, y)
    <3>1. Left(T, x) = Loop(batch[a][1]) /\ Right(T, x) = batch[a] /\ FirstOfVertex(a)
          /\ Left(T, y) = Twin(batch[b]) /\ Right(T, y) = Following(b)
      BY <1>14, <2>5
    <3>2. Loop(batch[a][1]) # Twin(batch[b])
      BY <1>6, <1>15
    <3>3. batch[a] # Following(b)
      BY <1>18, <3>1
    <3> QED BY <3>1, <3>2, <3>3
  <2> QED BY <2>1, <2>2, <2>3, <2>4, <2>5
<1>22. ASSUME NEW e \in Placed, next[e] = Null PROVE \E j \in J : Left(T, j) = e
  <2>1. CASE e \in NewArcs
    <3>1. Twin(e) \in NewArcs /\ Twin(Twin(e)) = e
      BY <1>1, <1>6, <2>1, Elements
    <3>2. PICK i \in DOMAIN batch : batch[i] = Twin(e)
      BY <1>4, <3>1
    <3> QED BY <1>12, <1>14, <3>1, <3>2
  <2>2. CASE e \notin NewArcs
    <3>1. PICK k \in DOMAIN batch : LastOfVertex(k) /\ e = Loop(batch[k][1])
      BY <1>3, <1>22, <2>2
    <3>2. PICK i \in DOMAIN batch : FirstOfVertex(i) /\ batch[i][1] = batch[k][1]
      BY <1>1, Groups
    <3> QED BY <1>13, <1>14, <3>1, <3>2
  <2> QED BY <2>1, <2>2
<1>23. ASSUME NEW e \in Placed, prev[e] = Null PROVE \E j \in J : Right(T, j) = e
  <2>1. CASE e \in NewArcs
    <3>1. PICK i \in DOMAIN batch : batch[i] = e
      BY <1>4, <2>1
    <3>2. CASE FirstOfVertex(i)
      BY <1>13, <1>14, <3>1, <3>2
    <3>3. CASE ~FirstOfVertex(i)
      <4>1. PICK k \in DOMAIN batch : k = i - 1 /\ k + 1 = i /\ ~LastOfVertex(k)
        <5>1. i # 1 /\ i \in 1 .. n /\ batch[i - 1][1] = batch[i][1]
          BY <1>5, <3>3 DEF FirstOfVertex
        <5>2. i - 1 \in 1 .. n /\ (i - 1) + 1 = i /\ i - 1 # n
          BY <5>1
        <5> QED BY <1>5, <5>1, <5>2 DEF LastOfVertex
      <4>2. Following(k) = e
        BY <1>16, <3>1, <4>1
      <4> QED BY <1>12, <1>14, <4>2
    <3> QED BY <3>2, <3>3
  <2>2. CASE e \notin NewArcs
    <3>1. PICK k \in DOMAIN batch : LastOfVertex(k) /\ e = successors[k]
      BY <1>3, <1>23, <2>2
    <3> QED BY <1>12, <1>14, <1>17, <3>1
  <2> QED BY <2>1, <2>2
<1>24. Fits(Sequences, Placed, T, J)
  BY <1>6, <1>20, <1>21, <1>22, <1>23, FitsMeans
<1> QED BY <1>2, <1>7, <1>8, <1>24

(* The loop that joins begins.                                             *)
LEMMA StartLinkJoinIInv ==
  ASSUME IInv, StartLinkJoin
  PROVE  IInv'
<1>1. TypeOK /\ LinkBatch /\ LinkSplitting /\ stage = "linkSplit" /\ todo = {}
  BY DEF IInv, StartLinkJoin
<1>2. /\ stage' = "linkJoin" /\ todo' = DOMAIN batch
      /\ next' = next /\ prev' = prev /\ live' = live /\ edges' = edges /\ mark' = mark
      /\ batch' = batch /\ successors' = successors /\ ignored' = ignored /\ targets' = targets
      /\ cutter' = cutter /\ forest' = forest
  BY DEF StartLinkJoin, lists, memory, scratch
<1>3. live = Of(forest) /\ Fits(Sequences, Placed, LinkTargets, Indices(LinkTargets, DOMAIN batch))
  BY <1>1, LinkTargetsFit
<1>4. TypeOK'
  BY <1>1, <1>2 DEF TypeOK
<1>5. Placed' = Placed /\ Sequences' = Sequences /\ NewArcs' = NewArcs
  BY <1>2 DEF Placed, Sequences, NewArcs
<1>6. LinkTargets' = LinkTargets
  BY <1>2 DEF LinkTargets, LinkJoins, FirstOfVertex, LastOfVertex
<1>7. LinkBatch'
  BY <1>1, <1>2, <1>5 DEF LinkBatch
<1>8. LinkJoining'
  BY <1>2, <1>3, <1>5, <1>6 DEF LinkJoining
<1>9. Idle' /\ LinkSplitting' /\ CutBatch' /\ CutStarting' /\ CutSplitting' /\ CutJoining'
  BY <1>2 DEF Idle, LinkSplitting, CutBatch, CutStarting, CutSplitting, CutJoining
<1> QED BY <1>4, <1>7, <1>8, <1>9 DEF IInv

(* An iteration makes its joins; the others still fit.                     *)
LEMMA LinkJoinIInv ==
  ASSUME IInv, NEW i \in DOMAIN batch, LinkJoin(i)
  PROVE  IInv'
<1>1. TypeOK /\ LinkBatch /\ LinkJoining /\ stage = "linkJoin" /\ i \in todo
  BY DEF IInv, LinkJoin
<1>2. PICK T : T = LinkTargets
  OBVIOUS
<1>3. T[i] = LinkJoins(i) /\ T[i] \in Seq(Ref \X Ref)
  <2>1. T[i] = LinkJoins(i)
    BY <1>2 DEF LinkTargets
  <2> QED BY <1>1, <1>2, <2>1, LinkTargetsAre
<1>4. PICK r : r = JoinAll(Sequences, T[i])
  OBVIOUS
<1>5. /\ next' = r.next /\ prev' = r.prev /\ todo' = todo \ {i} /\ stage' = stage
      /\ live' = live /\ edges' = edges /\ mark' = mark
      /\ batch' = batch /\ successors' = successors /\ ignored' = ignored /\ targets' = targets
      /\ cutter' = cutter /\ forest' = forest
  BY <1>3, <1>4 DEF LinkJoin, SetSequences, memory, scratch
<1>6. PICK s \in State, S \in SUBSET Element : s = Sequences /\ S = Placed
  <2>1. Placed \in SUBSET Element
    BY <1>1, Elements DEF TypeOK, Placed
  <2> QED BY <1>1, <2>1, ListsState DEF TypeOK
<1>7. live = Of(forest) /\ Fits(s, S, T, Indices(T, todo)) /\ Proper(s, S)
  BY <1>1, <1>2, <1>6 DEF LinkJoining, LinkBatch
<1>8. r \in State /\ Proper(r, S) /\ Fits(r, S, T, Indices(T, todo \ {i}))
  BY <1>1, <1>3, <1>4, <1>6, <1>7, JoinIteration
<1>9. Sequences' = r /\ next' \in [Element -> Ref] /\ prev' \in [Element -> Ref]
  BY <1>5, <1>8, ListsSet
<1>10. TypeOK'
  BY <1>1, <1>5, <1>9 DEF TypeOK
<1>11. Placed' = S /\ NewArcs' = NewArcs /\ LinkTargets' = T
  BY <1>2, <1>5, <1>6 DEF Placed, NewArcs, LinkTargets, LinkJoins, FirstOfVertex, LastOfVertex
<1>12. LinkBatch'
  BY <1>1, <1>5, <1>8, <1>9, <1>11 DEF LinkBatch
<1>13. LinkJoining'
  BY <1>5, <1>7, <1>8, <1>9, <1>11 DEF LinkJoining
<1>14. Idle' /\ LinkSplitting' /\ CutBatch' /\ CutStarting' /\ CutSplitting' /\ CutJoining'
  BY <1>1, <1>5 DEF Idle, LinkSplitting, CutBatch, CutStarting, CutSplitting, CutJoining
<1> QED BY <1>10, <1>12, <1>13, <1>14 DEF IInv

(* When all joins are made the lists are the tours of the forest.          *)
LEMMA EndLinkIInv ==
  ASSUME IInv, EndLink
  PROVE  IInv'
<1>1. TypeOK /\ LinkBatch /\ LinkJoining /\ stage = "linkJoin" /\ todo = {} /\ Rest
  BY DEF IInv, EndLink
<1>2. /\ next' = next /\ prev' = prev /\ live' = live /\ edges' = edges /\ mark' = mark /\ forest' = forest
  BY DEF EndLink, lists, memory
<1>3. live = Of(forest) /\ mark \cap live = {} /\ Proper(Sequences, Placed)
      /\ Fits(Sequences, Placed, LinkTargets, Indices(LinkTargets, todo))
  BY <1>1 DEF LinkJoining, LinkBatch
<1>4. PICK s, S, T, D : s = Sequences /\ S = Placed /\ T = LinkTargets /\ D = todo
  OBVIOUS
<1>5. Whole(s, S)
  BY <1>1, <1>3, <1>4, NoneOpen
<1>6. Sequences \in Tours(Placed)
  BY <1>1, <1>3, <1>4, <1>5, ListsState DEF Tours, TypeOK
<1>7. Placed' = Placed /\ Sequences' = Sequences
  BY <1>2 DEF Placed, Sequences
<1>8. Sequences' \in Tours(Placed')
  BY <1>6, <1>7
<1> QED BY <1>1, <1>2, <1>3, <1>8, AtRest DEF TypeOK

(* The elements that are cut.                                              *)
LEMMA CutArcsAre ==
  ASSUME EdgeList(batch), ignored \subseteq DOMAIN batch
  PROVE  /\ CutArcs \subseteq Arcs(batch) /\ CutArcs \subseteq Element \ Loops
         /\ \A i \in Chosen : /\ batch[i] \in CutArcs /\ Twin(batch[i]) \in CutArcs
                              /\ batch[i] \in Element /\ Twin(batch[i]) \in Element
         /\ \A e \in CutArcs : \E i \in Chosen : e = batch[i] \/ e = Twin(batch[i])
         /\ \A e \in CutArcs : Twin(e) \in CutArcs
<1>1. Chosen \subseteq DOMAIN batch /\ \A i \in Chosen : batch[i] \in Element \ Loops /\ batch[i] \in Element
  BY ArcsOfKeys DEF Chosen
<1>2. Arcs(batch) = {e \in Element : Key(e) \in Keys(batch)} /\ Arcs(batch) \subseteq Element \ Loops
  BY ArcsOfKeys
<1>3. CutArcs \subseteq Arcs(batch)
  BY <1>1, <1>2 DEF CutArcs, Keys
<1>4. ASSUME NEW i \in Chosen
      PROVE  batch[i] \in CutArcs /\ Twin(batch[i]) \in CutArcs /\ Twin(batch[i]) \in Element
  <2>1. batch[i] \in Element /\ Twin(batch[i]) \in Element /\ Key(Twin(batch[i])) = Key(batch[i])
    BY <1>1, Elements
  <2> QED BY <2>1 DEF CutArcs
<1>5. ASSUME NEW e \in CutArcs PROVE \E i \in Chosen : e = batch[i] \/ e = Twin(batch[i])
  <2>1. PICK i \in Chosen : Key(e) = Key(batch[i]) /\ e \in Element /\ batch[i] \in Element
    BY <1>1 DEF CutArcs
  <2>2. e = batch[i] \/ e = Twin(batch[i])
    BY <2>1, Elements
  <2> QED BY <2>2
<1>6. ASSUME NEW e \in CutArcs PROVE Twin(e) \in CutArcs
  <2>1. e \in Element /\ Twin(e) \in Element /\ Key(Twin(e)) = Key(e)
    BY Elements DEF CutArcs
  <2> QED BY <2>1 DEF CutArcs
<1> QED BY <1>1, <1>2, <1>3, <1>4, <1>5, <1>6

(* Two joins or fewer.                                                     *)
LEMMA TargetType ==
  ASSUME NEW S, NEW M, Marked(S, M), NEW a \in M
  PROVE  Target(a) \in Seq(Ref \X Ref)
<1>1. CASE prev[a] \in mark
  BY <1>1 DEF Target
<1>2. CASE prev[a] \notin mark
  <2>1. a \in Ends(M)
    BY <1>2 DEF Ends, Marked
  <2>2. a \in S /\ prev[a] \in S /\ S \subseteq Element
    BY AfterFacts, ZenonT(60) DEF Marked
  <2>3. RightTarget(After(a)) \in S
    BY <2>1, TargetsOneToOne DEF Starts
  <2>4. <<prev[a], RightTarget(After(a))>> \in Ref \X Ref
    BY <2>2, <2>3 DEF Ref
  <2>5. Target(a) = << <<prev[a], RightTarget(After(a))>> >>
    BY <1>2 DEF Target, After
  <2> QED BY <2>4, <2>5
<1> QED BY <1>1, <1>2

(* The targets are computed while the tours are whole; they are those of   *)
(* these tours, whatever becomes of them.                                  *)
LEMMA CutTargetsIInv ==
  ASSUME IInv, CutTargets
  PROVE  IInv'
<1>1. TypeOK /\ CutBatch /\ CutStarting /\ stage = "cutTargets"
  BY DEF IInv, CutTargets
<1>2. /\ EdgeList(batch) /\ Keys(batch) \cap forest = {}
      /\ live = Of(forest) \cup Arcs(batch) /\ mark \cap live = CutArcs
      /\ Sequences \in Tours(Placed)
      /\ \A i \in DOMAIN batch : cutter[i].pc = "uv" /\ cutter[i].pending = Null
  BY <1>1 DEF CutBatch, CutStarting
<1>3. PICK T : T = [i \in DOMAIN batch |->
                      IF i \in ignored THEN <<>> ELSE Target(batch[i]) \o Target(Twin(batch[i]))]
  OBVIOUS
<1>4. /\ targets' = T /\ stage' = "cutSplit" /\ todo' = Chosen
      /\ next' = next /\ prev' = prev /\ live' = live /\ edges' = edges /\ mark' = mark
      /\ batch' = batch /\ successors' = successors /\ ignored' = ignored
      /\ cutter' = cutter /\ forest' = forest
  BY <1>3 DEF CutTargets, lists, memory
<1>5. ignored \subseteq DOMAIN batch /\ Chosen \subseteq DOMAIN batch
  BY <1>1 DEF TypeOK, Chosen
<1>6. PICK s, S, M : s \in Tours(Placed) /\ s = Sequences /\ S = Placed /\ M = CutArcs
  BY <1>2
<1>7. Marked(S, M)
  <2>1. S \in SUBSET Element /\ mark \in SUBSET Element /\ mark \cap Loops = {}
    BY <1>1, <1>6, Elements DEF TypeOK, Placed
  <2>2. M = mark \cap S
    BY <1>2, <1>6, <2>1 DEF Placed
  <2>3. \A a \in M : Twin(a) \in M
    BY <1>2, <1>5, <1>6, CutArcsAre
  <2> QED BY <1>2, <1>6, <2>1, <2>2, <2>3 DEF Marked
<1>8. \A i \in Chosen : batch[i] \in M /\ Twin(batch[i]) \in M
  BY <1>2, <1>5, <1>6, CutArcsAre
<1>9. \A i \in Chosen : T[i] = Target(batch[i]) \o Target(Twin(batch[i]))
  BY <1>3 DEF Chosen
<1>10. T \in [DOMAIN batch -> Seq(Ref \X Ref)]
  <2>1. ASSUME NEW i \in Chosen PROVE T[i] \in Seq(Ref \X Ref)
    <3>1. PICK p \in Seq(Ref \X Ref), q \in Seq(Ref \X Ref) :
             p = Target(batch[i]) /\ q = Target(Twin(batch[i]))
      BY <1>7, <1>8, TargetType
    <3>2. p \o q \in Seq(Ref \X Ref)
      OBVIOUS
    <3> QED BY <1>9, <3>1, <3>2
  <2>2. ASSUME NEW i \in ignored PROVE T[i] \in Seq(Ref \X Ref)
    BY <1>3, <1>5
  <2>3. \A i \in DOMAIN batch : T[i] \in Seq(Ref \X Ref)
    BY <2>1, <2>2 DEF Chosen
  <2>4. T = [i \in DOMAIN batch |-> T[i]]
    BY <1>3
  <2> QED BY <2>3, <2>4
<1>11. TypeOK'
  BY <1>1, <1>4, <1>5, <1>10 DEF TypeOK
<1>12. M = {e \in Element : \E i \in Chosen : Key(e) = Key(batch[i])}
  BY <1>6 DEF CutArcs
<1>13. Fits(OpenedAt(s, M), S \ M, T, Indices(T, Chosen))
  BY <1>2, <1>5, <1>6, <1>7, <1>9, <1>12, TargetsFit
<1>14. Placed' = S /\ CutArcs' = M /\ Chosen' = Chosen
  BY <1>4, <1>6 DEF Placed, CutArcs, Chosen
<1>15. Between(s)'
  <2>1. s.next = next /\ s.prev = prev
    BY <1>1, <1>6, ListsState DEF TypeOK
  <2>2. \A e \in S : next[e] # Null /\ prev[e] # Null
    BY <1>2, <1>6, <2>1 DEF Tours, Whole
  <2> QED BY <1>2, <1>4, <1>14, <2>1, <2>2 DEF Between
<1>16. Progress(s)'
  <2>1. \A i \in Chosen : cutter[i].pc = "uv"
    BY <1>2, <1>5
  <2> QED BY <1>4, <1>14, <2>1 DEF Progress, ProgressOf, Past
<1>17. CutSplitting'
  BY <1>2, <1>4, <1>6, <1>13, <1>14, <1>15, <1>16 DEF CutSplitting
<1>18. CutBatch'
  BY <1>2, <1>4, <1>14 DEF CutBatch
<1>19. Idle' /\ LinkBatch' /\ LinkSplitting' /\ LinkJoining' /\ CutStarting' /\ CutJoining'
  BY <1>4 DEF Idle, LinkBatch, LinkSplitting, LinkJoining, CutStarting, CutJoining
<1> QED BY <1>11, <1>17, <1>18, <1>19 DEF IInv

(* The tours s that are being taken apart, and where.                      *)
LEMMA TakenApart ==
  ASSUME IInv, stage = "cutSplit", NEW s \in Tours(Placed)
  PROVE  /\ CutArcs \subseteq Placed /\ Placed \subseteq Element /\ Null \notin Placed
         /\ \A e \in Placed : /\ s.next[e] \in Placed /\ s.prev[e] \in Placed
                              /\ s.next[s.prev[e]] = e /\ s.prev[s.next[e]] = e
         /\ \A i \in Chosen : /\ batch[i] \in CutArcs /\ Twin(batch[i]) \in CutArcs
                              /\ batch[i] \in Placed /\ Twin(batch[i]) \in Placed
         /\ \A e \in CutArcs : \E i \in Chosen : e = batch[i] \/ e = Twin(batch[i])
         /\ Chosen \subseteq DOMAIN batch /\ todo \subseteq Chosen
<1>1. TypeOK /\ CutBatch /\ CutSplitting
  BY DEF IInv
<1>2. /\ EdgeList(batch) /\ todo \subseteq Chosen /\ live = Of(forest) \cup Arcs(batch)
      /\ ignored \subseteq DOMAIN batch /\ Chosen \subseteq DOMAIN batch
  BY <1>1 DEF CutBatch, CutSplitting, TypeOK, Chosen
<1>3. Placed \subseteq Element /\ Arcs(batch) \subseteq Placed
  BY <1>1, <1>2, Elements DEF TypeOK, Placed
<1>4. /\ CutArcs \subseteq Arcs(batch)
      /\ \A i \in Chosen : batch[i] \in CutArcs /\ Twin(batch[i]) \in CutArcs
      /\ \A e \in CutArcs : \E i \in Chosen : e = batch[i] \/ e = Twin(batch[i])
  BY <1>2, CutArcsAre
<1>5. \A e \in Placed : /\ s.next[e] \in Placed /\ s.prev[e] \in Placed
                        /\ s.next[s.prev[e]] = e /\ s.prev[s.next[e]] = e
  BY DEF Tours, Proper, Whole
<1> QED BY <1>2, <1>3, <1>4, <1>5, Elements

(* The parts of the invariant that no step of the loop changes.            *)
LEMMA SplitStep ==
  ASSUME IInv, stage = "cutSplit",
         stage' = stage, batch' = batch, live' = live, edges' = edges, mark' = mark, successors' = successors,
         ignored' = ignored, targets' = targets, forest' = forest, todo' \subseteq todo,
         next' \in [Element -> Ref], prev' \in [Element -> Ref], cutter' \in [DOMAIN batch -> Cutter],
         NEW CONSTANT s \in Tours(Placed),
         Fits(OpenedAt(s, CutArcs), Placed \ CutArcs, targets, Indices(targets, Chosen)),
         Between(s)', Progress(s)'
  PROVE  IInv'
<1>1. TypeOK /\ CutBatch /\ CutSplitting
  BY DEF IInv
<1>2. Placed' = Placed /\ CutArcs' = CutArcs /\ Chosen' = Chosen
  BY DEF Placed, CutArcs, Chosen
<1>3. TypeOK'
  BY <1>1 DEF TypeOK
<1>4. CutBatch'
  BY <1>1, <1>2 DEF CutBatch
<1>5. CutSplitting'
  BY <1>1, <1>2 DEF CutSplitting
<1>6. Idle' /\ LinkBatch' /\ LinkSplitting' /\ LinkJoining' /\ CutStarting' /\ CutJoining'
  BY DEF Idle, LinkBatch, LinkSplitting, LinkJoining, CutStarting, CutJoining
<1> QED BY <1>3, <1>4, <1>5, <1>6 DEF IInv

(* What has been opened stays open: the other iterations are where they    *)
(* were.                                                                   *)
LEMMA OthersProgress ==
  ASSUME IInv, stage = "cutSplit", NEW CONSTANT s \in Tours(Placed), Progress(s),
         NEW k \in Chosen, batch' = batch, cutter'[k] = cutter[k], k \in todo' <=> k \in todo,
         \A e \in Placed : next[e] = Null => next'[e] = Null
  PROVE  ProgressOf(s, k)'
<1>1. PICK uv \in Placed, vu \in Placed : uv = batch[k] /\ vu = Twin(batch[k])
  BY TakenApart
<1>2. PICK a \in Placed, c \in Placed : a = s.prev[uv] /\ c = s.prev[vu]
  BY TakenApart
<1>3. ProgressOf(s, k)
  BY DEF Progress
<1>4. /\ next[uv] = Null => next'[uv] = Null
      /\ next[vu] = Null => next'[vu] = Null
      /\ next[a] = Null => next'[a] = Null
      /\ next[c] = Null => next'[c] = Null
  OBVIOUS
<1>5. /\ Past(k, {"vu", "uvPrev", "uvCut", "vuPrev", "vuCut", "done"}) => next[uv] = Null
      /\ Past(k, {"uvPrev", "uvCut", "vuPrev", "vuCut", "done"}) => next[vu] = Null
      /\ Past(k, {"vuPrev", "vuCut", "done"}) => next[a] = Null
      /\ Past(k, {"done"}) => next[c] = Null
      /\ cutter[k].pc = "uvCut" => cutter[k].predecessor = a
      /\ cutter[k].pc = "vuCut" => cutter[k].predecessor = c
  BY <1>1, <1>2, <1>3 DEF ProgressOf
<1>6. \A pcs : Past(k, pcs)' <=> Past(k, pcs)
  BY DEF Past
<1> QED BY <1>1, <1>2, <1>4, <1>5, <1>6 DEF ProgressOf

(* x->Split() opens the tours at x, where they are to be opened.           *)
LEMMA CutNextKeeps ==
  ASSUME IInv, stage = "cutSplit", NEW i \in todo, NEW x, NEW to, CutNext(i, x, to),
         to \in {"vu", "uvPrev", "vuPrev", "done"},
         NEW CONSTANT s \in Tours(Placed),
         Fits(OpenedAt(s, CutArcs), Placed \ CutArcs, targets, Indices(targets, Chosen)),
         Between(s), Progress(s),
         x \in Placed, x \in CutArcs \/ s.next[x] \in CutArcs,
         /\ next'[x] = Null /\ cutter'[i].pc = to /\ batch' = batch /\ todo' = todo
         /\ \A e \in Placed : next[e] = Null => next'[e] = Null
         => ProgressOf(s, i)'
  PROVE  IInv' /\ \A e \in Element : next'[e] # next[e] => e = x /\ next[e] = s.next[x]
<1>1. TypeOK
  BY DEF IInv
<1>2. /\ prev' = prev /\ live' = live /\ edges' = edges /\ mark' = mark /\ stage' = stage /\ batch' = batch
      /\ todo' = todo /\ successors' = successors /\ ignored' = ignored /\ targets' = targets /\ forest' = forest
  BY DEF CutNext, memory, scratch
<1>3. /\ CutArcs \subseteq Placed /\ Placed \subseteq Element /\ Null \notin Placed
      /\ \A e \in Placed : /\ s.next[e] \in Placed /\ s.prev[e] \in Placed
                           /\ s.next[s.prev[e]] = e /\ s.prev[s.next[e]] = e
      /\ Chosen \subseteq DOMAIN batch /\ todo \subseteq Chosen
  BY TakenApart
<1>4. /\ next \in [Element -> Ref] /\ prev \in [Element -> Ref] /\ cutter \in [DOMAIN batch -> Cutter]
      /\ i \in DOMAIN batch /\ x \in Element /\ Null \in Ref /\ next[x] \in Ref
  BY <1>1, <1>3 DEF TypeOK, Ref
<1>5. /\ \A e \in Placed :
           \/ next[e] = s.next[e]
           \/ next[e] = Null /\ (e \in CutArcs \/ s.next[e] \in CutArcs)
      /\ \A e \in Placed :
           \/ prev[e] = s.prev[e]
           \/ prev[e] = Null /\ (e \in CutArcs \/ s.prev[e] \in CutArcs)
      /\ \A e \in Placed : prev[e] = Null => next[s.prev[e]] = Null
      /\ \A e \in Placed : next[e] = Null =>
            prev[s.next[e]] = Null \/ \E k \in todo : cutter[k].pending = s.next[e]
      /\ \A k \in DOMAIN batch :
            cutter[k].pending # Null =>
              /\ k \in todo /\ cutter[k].pending \in Placed
              /\ next[s.prev[cutter[k].pending]] = Null
  BY DEF Between
<1>6. PICK pending :
        /\ \/ next[x] # Null /\ cutter[i].pending = Null /\ pending = s.next[x]
           \/ next[x] = Null /\ pending = cutter[i].pending
        /\ pending \in Ref
        /\ next' = [next EXCEPT ![x] = Null]
        /\ cutter' = [cutter EXCEPT ![i].pc = to, ![i].pending = pending]
  <2>1. CASE next[x] # Null
    <3>1. next[x] = s.next[x]
      BY <1>5, <2>1
    <3> QED BY <1>4, <2>1, <3>1 DEF CutNext
  <2>2. CASE next[x] = Null
    <3>1. next' = [next EXCEPT ![x] = Null]
      BY <1>4, <2>2 DEF CutNext
    <3>2. cutter' = [cutter EXCEPT ![i].pc = to]
      BY <2>2 DEF CutNext
    <3>3. cutter[i] \in Cutter /\ cutter[i].pending \in Ref
      BY <1>4 DEF Cutter
    <3>4. [cutter EXCEPT ![i].pc = to] = [cutter EXCEPT ![i].pc = to, ![i].pending = cutter[i].pending]
      BY <1>4, <3>3 DEF Cutter
    <3> QED BY <2>2, <3>1, <3>2, <3>3, <3>4
  <2> QED BY <2>1, <2>2
<1>7. /\ next' \in [Element -> Ref] /\ next'[x] = Null
      /\ \A e \in Element : e # x => next'[e] = next[e]
  BY <1>4, <1>6
<1>8. /\ cutter' \in [DOMAIN batch -> Cutter]
      /\ cutter'[i].pc = to /\ cutter'[i].pending = pending
      /\ \A k \in DOMAIN batch : k # i => cutter'[k] = cutter[k]
  <2>1. [cutter[i] EXCEPT !.pc = to, !.pending = pending] \in Cutter
    <3>1. cutter[i] \in Cutter
      BY <1>4
    <3> QED BY <1>6, <3>1 DEF Cutter
  <2>2. [cutter[i] EXCEPT !.pc = to, !.pending = pending].pc = to
        /\ [cutter[i] EXCEPT !.pc = to, !.pending = pending].pending = pending
    <3>1. cutter[i] \in Cutter
      BY <1>4
    <3> QED BY <3>1 DEF Cutter
  <2>3. cutter' = [cutter EXCEPT ![i] = [cutter[i] EXCEPT !.pc = to, !.pending = pending]]
    BY <1>4, <1>6
  <2> QED BY <1>4, <2>1, <2>2, <2>3
<1>9. \A e \in Placed : next[e] = Null => next'[e] = Null
  BY <1>3, <1>7
<1>10. Placed' = Placed /\ CutArcs' = CutArcs /\ Chosen' = Chosen
  BY <1>2 DEF Placed, CutArcs, Chosen
<1>11. Between(s)'
  <2>1. ASSUME NEW e \in Placed
        PROVE  \/ next'[e] = s.next[e]
               \/ next'[e] = Null /\ (e \in CutArcs \/ s.next[e] \in CutArcs)
    BY <1>3, <1>5, <1>7
  <2>2. ASSUME NEW e \in Placed, prev'[e] = Null PROVE next'[s.prev[e]] = Null
    BY <1>2, <1>3, <1>5, <1>9, <2>2
  <2>3. ASSUME NEW e \in Placed, next'[e] = Null
        PROVE  prev'[s.next[e]] = Null \/ \E k \in todo : cutter'[k].pending = s.next[e]
    <3>1. s.next[e] # Null /\ \A k \in todo : k \in DOMAIN batch
      BY <1>3
    <3>2. CASE next[e] = Null
      <4>1. CASE prev[s.next[e]] = Null
        BY <1>2, <4>1
      <4>2. CASE \E k \in todo : cutter[k].pending = s.next[e]
        <5>1. PICK k \in todo : cutter[k].pending = s.next[e]
          BY <4>2
        <5>2. cutter'[k].pending = s.next[e]
          BY <1>6, <1>8, <3>1, <5>1
        <5> QED BY <5>2
      <4> QED BY <1>5, <3>2, <4>1, <4>2
    <3>3. CASE next[e] # Null
      <4>1. e = x
        BY <1>3, <1>7, <2>3, <3>3
      <4>2. pending = s.next[e]
        BY <1>6, <3>3, <4>1
      <4> QED BY <1>8, <4>2
    <3> QED BY <3>2, <3>3
  <2>4. ASSUME NEW k \in DOMAIN batch, cutter'[k].pending # Null
        PROVE  /\ k \in todo /\ cutter'[k].pending \in Placed
               /\ next'[s.prev[cutter'[k].pending]] = Null
    <3>1. CASE k # i
      <4>1. cutter'[k] = cutter[k]
        BY <1>8, <3>1
      <4>2. PICK f \in Placed : f = cutter[k].pending /\ k \in todo /\ next[s.prev[f]] = Null /\ s.prev[f] \in Placed
        BY <1>3, <1>5, <2>4, <4>1
      <4> QED BY <1>9, <4>1, <4>2
    <3>2. CASE k = i /\ next[x] # Null
      <4>1. cutter'[k].pending = s.next[x] /\ s.prev[s.next[x]] = x
        BY <1>3, <1>6, <1>8, <3>2
      <4> QED BY <1>3, <1>7, <3>2, <4>1
    <3>3. CASE k = i /\ next[x] = Null
      <4>1. cutter'[k].pending = cutter[k].pending
        BY <1>6, <1>8, <3>3
      <4>2. PICK f \in Placed : f = cutter[k].pending /\ k \in todo /\ next[s.prev[f]] = Null /\ s.prev[f] \in Placed
        BY <1>3, <1>5, <2>4, <4>1
      <4> QED BY <1>9, <4>1, <4>2
    <3> QED BY <3>1, <3>2, <3>3
  <2> QED BY <1>2, <1>5, <1>10, <2>1, <2>2, <2>3, <2>4 DEF Between
<1>12. Progress(s)'
  <2>1. ASSUME NEW k \in Chosen PROVE ProgressOf(s, k)'
    <3>1. CASE k = i
      BY <1>2, <1>7, <1>8, <1>9, <3>1
    <3>2. CASE k # i
      <4>1. k \in DOMAIN batch
        BY <1>3
      <4>2. cutter'[k] = cutter[k]
        BY <1>8, <3>2, <4>1
      <4> QED BY <1>2, <1>9, <4>2, OthersProgress
    <3> QED BY <3>1, <3>2
  <2> QED BY <1>10, <2>1 DEF Progress
<1>13. IInv'
  BY <1>1, <1>2, <1>4, <1>7, <1>8, <1>11, <1>12, SplitStep
<1>14. ASSUME NEW e \in Element, next'[e] # next[e] PROVE e = x /\ next[e] = s.next[x]
  BY <1>3, <1>5, <1>7, <1>14
<1> QED BY <1>13, <1>14

(* The invariant of the loop that splits, with the tours s there were.     *)
Splitting(s) ==
  /\ s \in Tours(Placed)
  /\ Fits(OpenedAt(s, CutArcs), Placed \ CutArcs, targets, Indices(targets, Chosen))
  /\ Between(s) /\ Progress(s)

(* Tours are opened beside marked elements only.                           *)
LeftMarked == \A e \in Element : next'[e] # next[e] => e \in mark \/ next[e] \in mark

(* An iteration knows the ends of its edge.                                *)
LEMMA EndsOfEdge ==
  ASSUME IInv, stage = "cutSplit", NEW s, Splitting(s), NEW i \in todo
  PROVE  /\ i \in Chosen
         /\ \E uv \in CutArcs, vu \in CutArcs, a \in Placed, c \in Placed :
              /\ uv = batch[i] /\ vu = Twin(batch[i]) /\ a = s.prev[uv] /\ c = s.prev[vu]
              /\ uv \in Placed /\ vu \in Placed /\ s.next[a] = uv /\ s.next[c] = vu
<1>1. s \in Tours(Placed)
  BY DEF Splitting
<1>2. /\ CutArcs \subseteq Placed
      /\ \A e \in Placed : s.prev[e] \in Placed /\ s.next[s.prev[e]] = e
      /\ \A k \in Chosen : batch[k] \in CutArcs /\ Twin(batch[k]) \in CutArcs
      /\ todo \subseteq Chosen
  BY <1>1, TakenApart
<1>3. PICK uv \in CutArcs, vu \in CutArcs : uv = batch[i] /\ vu = Twin(batch[i])
  BY <1>2
<1>4. PICK a \in Placed, c \in Placed : a = s.prev[uv] /\ c = s.prev[vu] /\ s.next[a] = uv /\ s.next[c] = vu
  BY <1>2
<1> QED BY <1>2, <1>3, <1>4

(* One of the four splits of an iteration: where the tours are opened an   *)
(* element is marked.                                                      *)
LEMMA CutNextIInv ==
  ASSUME IInv, stage = "cutSplit", NEW i \in todo, NEW x, NEW to, CutNext(i, x, to),
         to \in {"vu", "uvPrev", "vuPrev", "done"},
         NEW CONSTANT s, Splitting(s), x \in Placed, x \in CutArcs \/ s.next[x] \in CutArcs,
         /\ next'[x] = Null /\ cutter'[i].pc = to /\ batch' = batch /\ todo' = todo
         /\ \A e \in Placed : next[e] = Null => next'[e] = Null
         => ProgressOf(s, i)'
  PROVE  IInv' /\ LeftMarked
<1>1. /\ s \in Tours(Placed)
      /\ Fits(OpenedAt(s, CutArcs), Placed \ CutArcs, targets, Indices(targets, Chosen))
      /\ Between(s) /\ Progress(s)
  BY DEF Splitting
<1>2. IInv' /\ \A e \in Element : next'[e] # next[e] => e = x /\ next[e] = s.next[x]
  BY <1>1, CutNextKeeps
<1>3. CutArcs \subseteq mark
  BY DEF IInv, CutSplitting
<1> QED BY <1>2, <1>3 DEF LeftMarked

(* The edge itself.                                                        *)
LEMMA SplitEdgeIInv ==
  ASSUME IInv, NEW i, SplitEdge(i)
  PROVE  IInv' /\ LeftMarked
<1>1. stage = "cutSplit" /\ i \in todo /\ CutNext(i, batch[i], "vu")
  BY DEF SplitEdge, At
<1>2. PICK s : Splitting(s)
  BY <1>1 DEF IInv, CutSplitting, Splitting
<1>3. PICK uv \in CutArcs, vu \in CutArcs, a \in Placed, c \in Placed :
        /\ uv = batch[i] /\ vu = Twin(batch[i]) /\ a = s.prev[uv] /\ c = s.prev[vu] /\ uv \in Placed
  BY <1>1, <1>2, EndsOfEdge
<1>4. ASSUME next'[uv] = Null, cutter'[i].pc = "vu", batch' = batch, todo' = todo
      PROVE  ProgressOf(s, i)'
  BY <1>1, <1>3, <1>4 DEF ProgressOf, Past
<1> QED BY <1>1, <1>2, <1>3, <1>4, CutNextIInv

(* Its twin.                                                               *)
LEMMA SplitTwinIInv ==
  ASSUME IInv, NEW i, SplitTwin(i)
  PROVE  IInv' /\ LeftMarked
<1>1. stage = "cutSplit" /\ i \in todo /\ CutNext(i, Twin(batch[i]), "uvPrev") /\ cutter[i].pc = "vu"
  BY DEF SplitTwin, At
<1>2. PICK s : Splitting(s)
  BY <1>1 DEF IInv, CutSplitting, Splitting
<1>3. PICK uv \in CutArcs, vu \in CutArcs, a \in Placed, c \in Placed :
        /\ i \in Chosen /\ uv = batch[i] /\ vu = Twin(batch[i]) /\ a = s.prev[uv] /\ c = s.prev[vu]
        /\ uv \in Placed /\ vu \in Placed
  BY <1>1, <1>2, EndsOfEdge
<1>4. ProgressOf(s, i)
  BY <1>2, <1>3 DEF Splitting, Progress
<1>5. next[uv] = Null
  BY <1>1, <1>3, <1>4 DEF ProgressOf, Past
<1>6. ASSUME next'[vu] = Null, next'[uv] = Null, cutter'[i].pc = "uvPrev", batch' = batch, todo' = todo
      PROVE  ProgressOf(s, i)'
  BY <1>1, <1>3, <1>6 DEF ProgressOf, Past
<1> QED BY <1>1, <1>2, <1>3, <1>5, <1>6, CutNextIInv

(* The element before the edge: still the one of the tours there were.     *)
LEMMA SplitEdgePreviousIInv ==
  ASSUME IInv, NEW i, SplitEdgePrevious(i)
  PROVE  IInv' /\ LeftMarked
<1>1. stage = "cutSplit" /\ i \in todo /\ CutNext(i, cutter[i].predecessor, "vuPrev") /\ cutter[i].pc = "uvCut"
  BY DEF SplitEdgePrevious, At
<1>2. PICK s : Splitting(s)
  BY <1>1 DEF IInv, CutSplitting, Splitting
<1>3. PICK uv \in CutArcs, vu \in CutArcs, a \in Placed, c \in Placed :
        /\ i \in Chosen /\ uv = batch[i] /\ vu = Twin(batch[i]) /\ a = s.prev[uv] /\ c = s.prev[vu]
        /\ uv \in Placed /\ vu \in Placed /\ s.next[a] = uv
  BY <1>1, <1>2, EndsOfEdge
<1>4. ProgressOf(s, i)
  BY <1>2, <1>3 DEF Splitting, Progress
<1>5. next[uv] = Null /\ next[vu] = Null /\ cutter[i].predecessor = a
  BY <1>1, <1>3, <1>4 DEF ProgressOf, Past
<1>6. ASSUME next'[a] = Null, next'[vu] = Null, next'[uv] = Null, cutter'[i].pc = "vuPrev", batch' = batch, todo' = todo
      PROVE  ProgressOf(s, i)'
  BY <1>1, <1>3, <1>6 DEF ProgressOf, Past
<1> QED BY <1>1, <1>2, <1>3, <1>5, <1>6, CutNextIInv

(* The element before the twin.                                            *)
LEMMA SplitTwinPreviousIInv ==
  ASSUME IInv, NEW i, SplitTwinPrevious(i)
  PROVE  IInv' /\ LeftMarked
<1>1. stage = "cutSplit" /\ i \in todo /\ CutNext(i, cutter[i].predecessor, "done") /\ cutter[i].pc = "vuCut"
  BY DEF SplitTwinPrevious, At
<1>2. PICK s : Splitting(s)
  BY <1>1 DEF IInv, CutSplitting, Splitting
<1>3. PICK uv \in CutArcs, vu \in CutArcs, a \in Placed, c \in Placed :
        /\ i \in Chosen /\ uv = batch[i] /\ vu = Twin(batch[i]) /\ a = s.prev[uv] /\ c = s.prev[vu]
        /\ uv \in Placed /\ vu \in Placed /\ s.next[c] = vu
  BY <1>1, <1>2, EndsOfEdge
<1>4. ProgressOf(s, i)
  BY <1>2, <1>3 DEF Splitting, Progress
<1>5. next[uv] = Null /\ next[vu] = Null /\ next[a] = Null /\ cutter[i].predecessor = c
  BY <1>1, <1>3, <1>4 DEF ProgressOf, Past
<1>6. ASSUME next'[c] = Null, next'[a] = Null, next'[vu] = Null, next'[uv] = Null, cutter'[i].pc = "done",
             batch' = batch, todo' = todo
      PROVE  ProgressOf(s, i)'
  BY <1>1, <1>3, <1>6 DEF ProgressOf, Past
<1> QED BY <1>1, <1>2, <1>3, <1>5, <1>6, CutNextIInv

(* What iteration i finds before an element that a was before.             *)
Looked(i, a, found, none) ==
  /\ cutter'[i].predecessor = Null => cutter'[i].pc = none /\ next[a] = Null
  /\ cutter'[i].predecessor # Null => cutter'[i].pc = found /\ cutter'[i].predecessor = a
  /\ next' = next /\ batch' = batch /\ todo' = todo

(* The predecessor an iteration reads is the one there was, unless the     *)
(* tours have been opened before the element already.                      *)
LEMMA ReadPreviousIInv ==
  ASSUME IInv, stage = "cutSplit", NEW i \in todo, NEW CONSTANT s, Splitting(s),
         NEW e \in Placed, NEW found, NEW none, ReadPrevious(i, e, found, none),
         found \in {"uvCut", "vuCut"}, none \in {"vuPrev", "done"},
         NEW a, a = s.prev[e], Looked(i, a, found, none) => ProgressOf(s, i)'
  PROVE  IInv' /\ LeftMarked
<1>1. TypeOK
  BY DEF IInv
<1>2. /\ next' = next /\ prev' = prev /\ live' = live /\ edges' = edges /\ mark' = mark
      /\ stage' = stage /\ batch' = batch /\ todo' = todo /\ successors' = successors
      /\ ignored' = ignored /\ targets' = targets /\ forest' = forest
  BY DEF ReadPrevious, lists, memory, scratch
<1>3. PICK p : /\ p = IF cutter[i].pending = e THEN Null ELSE prev[e]
               /\ cutter' = [cutter EXCEPT ![i].pc = IF p = Null THEN none ELSE found, ![i].predecessor = p]
  BY DEF ReadPrevious
<1>4. /\ s \in Tours(Placed)
      /\ Fits(OpenedAt(s, CutArcs), Placed \ CutArcs, targets, Indices(targets, Chosen))
      /\ Between(s) /\ Progress(s)
  BY DEF Splitting
<1>5. /\ CutArcs \subseteq Placed /\ Placed \subseteq Element /\ Null \notin Placed
      /\ Chosen \subseteq DOMAIN batch /\ todo \subseteq Chosen
  BY <1>4, TakenApart
<1>6. /\ next \in [Element -> Ref] /\ prev \in [Element -> Ref] /\ cutter \in [DOMAIN batch -> Cutter]
      /\ i \in DOMAIN batch /\ Null \in Ref /\ prev[e] \in Ref
  BY <1>1, <1>5 DEF TypeOK, Ref
<1>7. (p = Null => next[s.prev[e]] = Null) /\ (p # Null => p = s.prev[e])
  <2>1. /\ prev[e] = s.prev[e] \/ prev[e] = Null
        /\ prev[e] = Null => next[s.prev[e]] = Null
        /\ cutter[i].pending # Null => next[s.prev[cutter[i].pending]] = Null
    BY <1>4, <1>6 DEF Between
  <2> QED BY <1>3, <1>5, <2>1
<1>8. /\ cutter' \in [DOMAIN batch -> Cutter]
      /\ cutter'[i].pc = (IF p = Null THEN none ELSE found) /\ cutter'[i].predecessor = p
      /\ cutter'[i].pending = cutter[i].pending
      /\ \A k \in DOMAIN batch : k # i => cutter'[k] = cutter[k]
  <2>1. PICK pc, old : pc = (IF p = Null THEN none ELSE found) /\ old = cutter[i]
    OBVIOUS
  <2>2. old \in Cutter /\ p \in Ref /\ pc \in {"uvCut", "vuCut", "vuPrev", "done"}
    BY <1>3, <1>6, <2>1
  <2>3. PICK new : new = [old EXCEPT !.pc = pc, !.predecessor = p]
    OBVIOUS
  <2>4. new \in Cutter /\ new.pc = pc /\ new.predecessor = p /\ new.pending = old.pending
    BY <2>2, <2>3 DEF Cutter
  <2>5. cutter' = [cutter EXCEPT ![i] = new]
    BY <1>3, <1>6, <2>1, <2>3
  <2> QED BY <1>6, <2>1, <2>4, <2>5
<1>9. Placed' = Placed /\ CutArcs' = CutArcs /\ Chosen' = Chosen
  BY <1>2 DEF Placed, CutArcs, Chosen
<1>10. Between(s)'
  <2>1. \A k \in DOMAIN batch : cutter'[k].pending = cutter[k].pending
    BY <1>8
  <2>2. \A k \in todo : cutter'[k].pending = cutter[k].pending
    BY <1>5, <2>1
  <2> QED BY <1>2, <1>4, <1>9, <2>1, <2>2 DEF Between
<1>11. Progress(s)'
  <2>1. ASSUME NEW k \in Chosen PROVE ProgressOf(s, k)'
    <3>1. CASE k = i
      <4>1. Looked(i, a, found, none)
        BY <1>2, <1>7, <1>8 DEF Looked
      <4> QED BY <3>1, <4>1
    <3>2. CASE k # i
      <4>1. cutter'[k] = cutter[k]
        BY <1>5, <1>8, <3>2
      <4> QED BY <1>2, <1>4, <4>1, OthersProgress
    <3> QED BY <3>1, <3>2
  <2> QED BY <1>9, <2>1 DEF Progress
<1>12. IInv'
  BY <1>2, <1>4, <1>6, <1>8, <1>10, <1>11, SplitStep
<1> QED BY <1>2, <1>12 DEF LeftMarked

(* Before the edge.                                                        *)
LEMMA ReadEdgePreviousIInv ==
  ASSUME IInv, NEW i, ReadEdgePrevious(i)
  PROVE  IInv' /\ LeftMarked
<1>1. stage = "cutSplit" /\ i \in todo /\ ReadPrevious(i, batch[i], "uvCut", "vuPrev") /\ cutter[i].pc = "uvPrev"
  BY DEF ReadEdgePrevious, At
<1>2. PICK s : Splitting(s)
  BY <1>1 DEF IInv, CutSplitting, Splitting
<1>3. PICK uv \in CutArcs, vu \in CutArcs, a \in Placed, c \in Placed :
        /\ i \in Chosen /\ uv = batch[i] /\ vu = Twin(batch[i]) /\ a = s.prev[uv] /\ c = s.prev[vu]
        /\ uv \in Placed /\ vu \in Placed
  BY <1>1, <1>2, EndsOfEdge
<1>4. ProgressOf(s, i)
  BY <1>2, <1>3 DEF Splitting, Progress
<1>5. next[uv] = Null /\ next[vu] = Null
  BY <1>1, <1>3, <1>4 DEF ProgressOf, Past
<1>6. ASSUME Looked(i, a, "uvCut", "vuPrev") PROVE ProgressOf(s, i)'
  BY <1>1, <1>3, <1>5, <1>6 DEF ProgressOf, Past, Looked
<1> QED BY <1>1, <1>2, <1>3, <1>6, ReadPreviousIInv

(* Before the twin.                                                        *)
LEMMA ReadTwinPreviousIInv ==
  ASSUME IInv, NEW i, ReadTwinPrevious(i)
  PROVE  IInv' /\ LeftMarked
<1>1. stage = "cutSplit" /\ i \in todo /\ ReadPrevious(i, Twin(batch[i]), "vuCut", "done") /\ cutter[i].pc = "vuPrev"
  BY DEF ReadTwinPrevious, At
<1>2. PICK s : Splitting(s)
  BY <1>1 DEF IInv, CutSplitting, Splitting
<1>3. PICK uv \in CutArcs, vu \in CutArcs, a \in Placed, c \in Placed :
        /\ i \in Chosen /\ uv = batch[i] /\ vu = Twin(batch[i]) /\ a = s.prev[uv] /\ c = s.prev[vu]
        /\ uv \in Placed /\ vu \in Placed
  BY <1>1, <1>2, EndsOfEdge
<1>4. ProgressOf(s, i)
  BY <1>2, <1>3 DEF Splitting, Progress
<1>5. next[uv] = Null /\ next[vu] = Null /\ next[a] = Null
  BY <1>1, <1>3, <1>4 DEF ProgressOf, Past
<1>6. ASSUME Looked(i, c, "vuCut", "done") PROVE ProgressOf(s, i)'
  BY <1>1, <1>3, <1>5, <1>6 DEF ProgressOf, Past, Looked
<1> QED BY <1>1, <1>2, <1>3, <1>6, ReadPreviousIInv

(* The pending store clears the prev of an element that the tours have     *)
(* been opened before.                                                     *)
LEMMA ClearPrevIInv ==
  ASSUME IInv, NEW i \in DOMAIN batch, ClearPrev(i)
  PROVE  IInv' /\ LeftMarked
<1>1. TypeOK /\ stage = "cutSplit" /\ cutter[i].pending # Null
  BY DEF IInv, ClearPrev
<1>2. PICK s : Splitting(s)
  BY <1>1 DEF IInv, CutSplitting, Splitting
<1>3. PICK f : f = cutter[i].pending
  OBVIOUS
<1>4. /\ next' = next /\ live' = live /\ edges' = edges /\ mark' = mark
      /\ stage' = stage /\ batch' = batch /\ todo' = todo /\ successors' = successors
      /\ ignored' = ignored /\ targets' = targets /\ forest' = forest
      /\ prev' = [prev EXCEPT ![f] = Null] /\ cutter' = [cutter EXCEPT ![i].pending = Null]
  BY <1>3 DEF ClearPrev, memory, scratch
<1>5. /\ s \in Tours(Placed)
      /\ Fits(OpenedAt(s, CutArcs), Placed \ CutArcs, targets, Indices(targets, Chosen))
      /\ Between(s) /\ Progress(s)
  BY <1>2 DEF Splitting
<1>6. /\ CutArcs \subseteq Placed /\ Placed \subseteq Element /\ Null \notin Placed
      /\ \A e \in Placed : /\ s.next[e] \in Placed /\ s.prev[e] \in Placed
                           /\ s.next[s.prev[e]] = e /\ s.prev[s.next[e]] = e
      /\ Chosen \subseteq DOMAIN batch /\ todo \subseteq Chosen
  BY <1>1, <1>5, TakenApart
<1>7. /\ next \in [Element -> Ref] /\ prev \in [Element -> Ref] /\ cutter \in [DOMAIN batch -> Cutter]
      /\ Null \in Ref
  BY <1>1 DEF TypeOK, Ref
<1>8. /\ \A e \in Placed :
           \/ next[e] = s.next[e]
           \/ next[e] = Null /\ (e \in CutArcs \/ s.next[e] \in CutArcs)
      /\ \A e \in Placed :
           \/ prev[e] = s.prev[e]
           \/ prev[e] = Null /\ (e \in CutArcs \/ s.prev[e] \in CutArcs)
      /\ \A e \in Placed : prev[e] = Null => next[s.prev[e]] = Null
      /\ \A e \in Placed : next[e] = Null =>
            prev[s.next[e]] = Null \/ \E k \in todo : cutter[k].pending = s.next[e]
      /\ \A k \in DOMAIN batch :
            cutter[k].pending # Null =>
              /\ k \in todo /\ cutter[k].pending \in Placed
              /\ next[s.prev[cutter[k].pending]] = Null
  BY <1>5 DEF Between
<1>9. f \in Placed /\ i \in todo /\ next[s.prev[f]] = Null /\ s.prev[f] \in Placed
  BY <1>1, <1>3, <1>6, <1>8
<1>10. f \in CutArcs \/ s.prev[f] \in CutArcs
  <2>1. PICK a \in Placed : a = s.prev[f] /\ s.next[a] = f
    BY <1>6, <1>9
  <2>2. next[a] = Null /\ f # Null
    BY <1>6, <1>9, <2>1
  <2> QED BY <1>8, <2>1, <2>2
<1>11. prev' \in [Element -> Ref] /\ prev'[f] = Null /\ \A e \in Element : e # f => prev'[e] = prev[e]
  BY <1>4, <1>6, <1>7, <1>9
<1>12. /\ cutter' \in [DOMAIN batch -> Cutter]
       /\ cutter'[i].pending = Null /\ cutter'[i].pc = cutter[i].pc
       /\ cutter'[i].predecessor = cutter[i].predecessor
       /\ \A k \in DOMAIN batch : k # i => cutter'[k] = cutter[k]
  <2>1. PICK old \in Cutter : old = cutter[i]
    BY <1>7
  <2>2. PICK new : new = [old EXCEPT !.pending = Null]
    OBVIOUS
  <2>3. new \in Cutter /\ new.pc = old.pc /\ new.predecessor = old.predecessor /\ new.pending = Null
    BY <1>7, <2>2 DEF Cutter
  <2>4. cutter' = [cutter EXCEPT ![i] = new]
    BY <1>4, <1>7, <2>1, <2>2
  <2> QED BY <1>7, <2>1, <2>3, <2>4
<1>13. Placed' = Placed /\ CutArcs' = CutArcs /\ Chosen' = Chosen
  BY <1>4 DEF Placed, CutArcs, Chosen
<1>14. Between(s)'
  <2>1. ASSUME NEW e \in Placed
        PROVE  \/ prev'[e] = s.prev[e]
               \/ prev'[e] = Null /\ (e \in CutArcs \/ s.prev[e] \in CutArcs)
    BY <1>6, <1>8, <1>10, <1>11
  <2>2. ASSUME NEW e \in Placed, prev'[e] = Null PROVE next[s.prev[e]] = Null
    BY <1>6, <1>8, <1>9, <1>11, <2>2
  <2>3. ASSUME NEW e \in Placed, next[e] = Null
        PROVE  prev'[s.next[e]] = Null \/ \E k \in todo : cutter'[k].pending = s.next[e]
    <3>1. PICK g \in Placed : g = s.next[e] /\ g \in Element
      BY <1>6
    <3>2. CASE prev[g] = Null
      BY <1>11, <3>1, <3>2
    <3>3. CASE \E k \in todo : cutter[k].pending = g
      <4>1. PICK k \in todo : cutter[k].pending = g
        BY <3>3
      <4>2. CASE k = i
        BY <1>3, <1>11, <3>1, <4>1, <4>2
      <4>3. CASE k # i
        BY <1>6, <1>12, <3>1, <4>1, <4>3
      <4> QED BY <4>2, <4>3
    <3> QED BY <1>8, <2>3, <3>1, <3>2, <3>3
  <2>4. ASSUME NEW k \in DOMAIN batch, cutter'[k].pending # Null
        PROVE  /\ k \in todo /\ cutter'[k].pending \in Placed
               /\ next[s.prev[cutter'[k].pending]] = Null
    <3>1. cutter'[k] = cutter[k]
      BY <1>12, <2>4
    <3> QED BY <1>8, <2>4, <3>1
  <2> QED BY <1>4, <1>8, <1>13, <2>1, <2>2, <2>3, <2>4 DEF Between
<1>15. Progress(s)'
  <2>1. ASSUME NEW k \in Chosen PROVE ProgressOf(s, k)'
    <3>1. CASE k = i
      <4>1. ProgressOf(s, i)
        BY <1>5, <3>1 DEF Progress
      <4>2. ProgressOf(s, i)'
        BY <1>4, <1>12, <4>1 DEF ProgressOf, Past
      <4> QED BY <3>1, <4>2
    <3>2. CASE k # i
      <4>1. cutter'[k] = cutter[k]
        BY <1>6, <1>12, <3>2
      <4> QED BY <1>1, <1>4, <1>5, <4>1, OthersProgress
    <3> QED BY <3>1, <3>2
  <2> QED BY <1>13, <2>1 DEF Progress
<1>16. IInv'
  BY <1>1, <1>4, <1>5, <1>7, <1>11, <1>12, <1>14, <1>15, SplitStep
<1> QED BY <1>4, <1>16 DEF LeftMarked

(* An iteration that ends has made its four splits.                        *)
LEMMA EndIterationIInv ==
  ASSUME IInv, NEW i \in DOMAIN batch, EndIteration(i)
  PROVE  IInv' /\ LeftMarked
<1>1. TypeOK /\ stage = "cutSplit" /\ i \in todo /\ cutter[i].pc = "done" /\ cutter[i].pending = Null
  BY DEF IInv, EndIteration, At
<1>2. PICK s : Splitting(s)
  BY <1>1 DEF IInv, CutSplitting, Splitting
<1>3. /\ next' = next /\ prev' = prev /\ live' = live /\ edges' = edges /\ mark' = mark
      /\ stage' = stage /\ batch' = batch /\ todo' = todo \ {i} /\ successors' = successors
      /\ ignored' = ignored /\ targets' = targets /\ forest' = forest /\ cutter' = cutter
  BY DEF EndIteration, lists, memory, scratch
<1>4. /\ s \in Tours(Placed)
      /\ Fits(OpenedAt(s, CutArcs), Placed \ CutArcs, targets, Indices(targets, Chosen))
      /\ Between(s) /\ Progress(s)
  BY <1>2 DEF Splitting
<1>5. /\ Null \notin Placed /\ \A e \in Placed : s.next[e] \in Placed
      /\ todo \subseteq Chosen
  BY <1>1, <1>4, TakenApart
<1>6. Placed' = Placed /\ CutArcs' = CutArcs /\ Chosen' = Chosen
  BY <1>3 DEF Placed, CutArcs, Chosen
<1>7. Between(s)'
  <2>1. ASSUME NEW e \in Placed, next[e] = Null
        PROVE  prev[s.next[e]] = Null \/ \E k \in todo \ {i} : cutter[k].pending = s.next[e]
    <3>1. prev[s.next[e]] = Null \/ \E k \in todo : cutter[k].pending = s.next[e]
      BY <1>4, <2>1 DEF Between
    <3>2. s.next[e] # Null
      BY <1>5
    <3> QED BY <1>1, <3>1, <3>2
  <2>2. /\ \A e \in Placed :
             \/ next[e] = s.next[e]
             \/ next[e] = Null /\ (e \in CutArcs \/ s.next[e] \in CutArcs)
        /\ \A e \in Placed :
             \/ prev[e] = s.prev[e]
             \/ prev[e] = Null /\ (e \in CutArcs \/ s.prev[e] \in CutArcs)
        /\ \A e \in Placed : prev[e] = Null => next[s.prev[e]] = Null
    BY <1>4 DEF Between
  <2>3. ASSUME NEW k \in DOMAIN batch, cutter[k].pending # Null
        PROVE  k \in todo \ {i} /\ cutter[k].pending \in Placed /\ next[s.prev[cutter[k].pending]] = Null
    BY <1>1, <1>4, <2>3 DEF Between
  <2> QED BY <1>3, <1>6, <2>1, <2>2, <2>3 DEF Between
<1>8. Progress(s)'
  <2>1. ASSUME NEW k \in Chosen PROVE ProgressOf(s, k)'
    <3>1. CASE k = i
      <4>1. ProgressOf(s, i)
        BY <1>4, <3>1 DEF Progress
      <4>2. ProgressOf(s, i)'
        BY <1>1, <1>3, <4>1 DEF ProgressOf, Past
      <4> QED BY <3>1, <4>2
    <3>2. CASE k # i
      BY <1>1, <1>3, <1>4, <3>2, OthersProgress
    <3> QED BY <3>1, <3>2
  <2> QED BY <1>6, <2>1 DEF Progress
<1>9. IInv'
  <2>1. /\ next' \in [Element -> Ref] /\ prev' \in [Element -> Ref] /\ cutter' \in [DOMAIN batch -> Cutter]
        /\ todo' \subseteq todo
    BY <1>1, <1>3 DEF TypeOK
  <2> QED BY <1>1, <1>3, <1>4, <1>7, <1>8, <2>1, SplitStep
<1> QED BY <1>3, <1>9 DEF LeftMarked

(* The tours of s, opened around the elements of M, are lists of the       *)
(* others.                                                                 *)
LEMMA OpenedAtProper ==
  ASSUME NEW S \in SUBSET Element, NEW s \in Tours(S), NEW M \in SUBSET S
  PROVE  Proper(OpenedAt(s, M), S \ M)
<1> DEFINE o == OpenedAt(s, M)
<1>1. /\ \A e \in S : s.next[e] \in S /\ s.prev[e] \in S
      /\ \A e, f \in S : s.next[e] = f <=> s.prev[f] = e
      /\ \A e \in S : s.next[e][1] = e[2]
  BY DEF Tours, Proper, Whole
<1>2. \A e \in S \ M : /\ o.next[e] = IF s.next[e] \in M THEN Null ELSE s.next[e]
                       /\ o.prev[e] = IF s.prev[e] \in M THEN Null ELSE s.prev[e]
  BY DEF OpenedAt
<1>3. \A e \in S : e # Null
  BY Elements
<1> HIDE DEF o
<1>4. Proper(o, S \ M)
  BY <1>1, <1>2, <1>3 DEF Proper
<1> QED BY <1>4 DEF o

(* When the loop that splits has ended the tours are opened around the cut *)
(* edges and nowhere else, which is what the targets fit.                  *)
LEMMA StartCutJoinIInv ==
  ASSUME IInv, StartCutJoin
  PROVE  IInv'
<1>1. TypeOK /\ CutBatch /\ CutSplitting /\ stage = "cutSplit" /\ todo = {}
  BY DEF IInv, StartCutJoin
<1>2. PICK s : Splitting(s)
  BY <1>1 DEF CutSplitting, Splitting
<1>3. /\ next' = next /\ prev' = prev /\ live' = live /\ edges' = edges /\ mark' = mark
      /\ stage' = "cutJoin" /\ batch' = batch /\ todo' = Chosen /\ successors' = successors
      /\ ignored' = ignored /\ targets' = targets /\ forest' = forest /\ cutter' = cutter
  BY DEF StartCutJoin, lists, memory, scratch
<1>4. PICK S, M : S = Placed /\ M = CutArcs /\ S \in SUBSET Element /\ M \in SUBSET S
  BY <1>1, <1>2, TakenApart DEF Splitting
<1>5. /\ s \in Tours(S) /\ s \in Tours(Placed)
      /\ Fits(OpenedAt(s, M), S \ M, targets, Indices(targets, Chosen))
      /\ Between(s) /\ Progress(s)
  BY <1>2, <1>4 DEF Splitting
<1>6. /\ \A e \in S : /\ s.next[e] \in S /\ s.prev[e] \in S
                      /\ s.next[s.prev[e]] = e /\ s.prev[s.next[e]] = e
      /\ \A i \in Chosen : batch[i] \in M /\ Twin(batch[i]) \in M
      /\ \A e \in M : \E i \in Chosen : e = batch[i] \/ e = Twin(batch[i])
      /\ Chosen \subseteq DOMAIN batch
  BY <1>1, <1>4, <1>5, TakenApart
<1>7. ASSUME NEW e \in M PROVE next[e] = Null /\ next[s.prev[e]] = Null
  <2>1. PICK i \in Chosen : e = batch[i] \/ e = Twin(batch[i])
    BY <1>6
  <2>2. ProgressOf(s, i)
    BY <1>5 DEF Progress
  <2> QED BY <1>1, <2>1, <2>2 DEF ProgressOf, Past
<1>8. ASSUME NEW e \in S \ M
      PROVE  /\ next[e] = IF s.next[e] \in M THEN Null ELSE s.next[e]
             /\ prev[e] = IF s.prev[e] \in M THEN Null ELSE s.prev[e]
  <2>1. /\ next[e] = s.next[e] \/ (next[e] = Null /\ (e \in M \/ s.next[e] \in M))
        /\ prev[e] = s.prev[e] \/ (prev[e] = Null /\ (e \in M \/ s.prev[e] \in M))
    BY <1>4, <1>5 DEF Between
  <2>2. s.prev[e] \in M => prev[e] = Null
    <3>1. ASSUME NEW a \in M, a = s.prev[e] PROVE prev[e] = Null
      <4>1. next[a] = Null /\ s.next[a] = e /\ a \in Placed
        BY <1>4, <1>6, <1>7, <3>1
      <4>2. prev[s.next[a]] = Null \/ \E k \in todo : cutter[k].pending = s.next[a]
        BY <1>5, <4>1 DEF Between
      <4> QED BY <1>1, <4>1, <4>2
    <3> QED BY <3>1
  <2>3. s.next[e] \in M => next[e] = Null
    BY <1>6, <1>7
  <2> QED BY <2>1, <2>2, <2>3
<1>9. PICK o, c : o = OpenedAt(s, M) /\ c = Sequences
  OBVIOUS
<1>10. \A e \in S \ M : o.next[e] = c.next[e] /\ o.prev[e] = c.prev[e]
  <2>1. \A e \in S \ M : /\ o.next[e] = IF s.next[e] \in M THEN Null ELSE s.next[e]
                         /\ o.prev[e] = IF s.prev[e] \in M THEN Null ELSE s.prev[e]
    BY <1>4, <1>9 DEF OpenedAt
  <2>2. c.next = next /\ c.prev = prev
    BY <1>1, <1>9, ListsState DEF TypeOK
  <2> QED BY <1>8, <2>1, <2>2
<1>11. PICK P, T, J : P = S \ M /\ T = targets /\ J = Indices(targets, Chosen)
  OBVIOUS
<1>12. Proper(o, P) /\ Fits(o, P, T, J)
  BY <1>4, <1>5, <1>9, <1>11, OpenedAtProper
<1>13. Proper(c, P) /\ Fits(c, P, T, J)
  BY <1>10, <1>11, <1>12, SameLists
<1>14. TypeOK'
  BY <1>1, <1>3, <1>6 DEF TypeOK
<1>15. /\ EdgeList(batch) /\ Keys(batch) \cap forest = {} /\ ignored \subseteq DOMAIN batch
       /\ live = Of(forest) \cup Arcs(batch) /\ mark \cap live = M
  BY <1>1, <1>4 DEF CutBatch, CutSplitting, TypeOK
<1>16. Doomed' = M
  <2>1. Doomed' = UNION {{batch[i], Twin(batch[i])} : i \in Chosen}
    BY <1>3 DEF Doomed
  <2> QED BY <1>6, <2>1
<1>17. Staying' = P
  BY <1>3, <1>4, <1>11, <1>16 DEF Staying, Placed
<1>18. Chosen' = Chosen /\ Sequences' = c
  BY <1>3, <1>9 DEF Chosen, Sequences
<1>19. CutBatch'
  BY <1>3, <1>15, <1>18 DEF CutBatch
<1>20. live = Of(forest) \cup {e \in Element : \E i \in ignored \cup Chosen : Key(e) = Key(batch[i])}
  <2>1. Arcs(batch) = {e \in Element : Key(e) \in Keys(batch)}
    BY <1>15, ArcsOfKeys
  <2>2. ignored \cup Chosen = DOMAIN batch
    BY <1>15 DEF Chosen
  <2> QED BY <1>15, <2>1, <2>2 DEF Keys
<1>21. CutJoining'
  BY <1>3, <1>11, <1>13, <1>15, <1>16, <1>17, <1>18, <1>20 DEF CutJoining
<1>22. Idle' /\ LinkBatch' /\ LinkSplitting' /\ LinkJoining' /\ CutStarting' /\ CutSplitting'
  BY <1>3 DEF Idle, LinkBatch, LinkSplitting, LinkJoining, CutStarting, CutSplitting
<1> QED BY <1>14, <1>19, <1>21, <1>22 DEF IInv

(* An iteration frees its edge and makes its joins; the others still fit.  *)
LEMMA CutJoinIInv ==
  ASSUME IInv, NEW i \in DOMAIN batch, CutJoin(i)
  PROVE  IInv'
<1>1. TypeOK /\ CutBatch /\ CutJoining /\ stage = "cutJoin" /\ i \in todo
  BY DEF IInv, CutJoin
<1>2. PICK T, r : T = targets /\ r = JoinAll(Sequences, T[i])
  OBVIOUS
<1>3. PICK K : K = {batch[i], Twin(batch[i])}
  OBVIOUS
<1>4. /\ next' = r.next /\ prev' = r.prev /\ todo' = todo \ {i} /\ stage' = stage
      /\ live' = live \ K /\ edges' = edges \ {Key(batch[i])} /\ mark' = mark
      /\ batch' = batch /\ successors' = successors /\ ignored' = ignored /\ targets' = targets
      /\ cutter' = cutter /\ forest' = forest
  BY <1>2, <1>3 DEF CutJoin, SetSequences, scratch
<1>5. /\ EdgeList(batch) /\ Keys(batch) \cap forest = {} /\ todo \subseteq Chosen
      /\ live = Of(forest) \cup {e \in Element : \E k \in ignored \cup todo : Key(e) = Key(batch[k])}
      /\ mark \cap live = Doomed /\ Proper(Sequences, Staying)
      /\ Fits(Sequences, Staying, targets, Indices(targets, todo))
      /\ ignored \subseteq DOMAIN batch /\ todo \subseteq DOMAIN batch
  BY <1>1 DEF CutBatch, CutJoining, TypeOK
<1>6. PICK s \in State, S \in SUBSET Element : s = Sequences /\ S = Staying
  <2>1. Staying \in SUBSET Element
    BY <1>1, Elements DEF TypeOK, Staying
  <2> QED BY <1>1, <2>1, ListsState DEF TypeOK
<1>7. T[i] \in Seq(Ref \X Ref)
  BY <1>1, <1>2 DEF TypeOK
<1>8. Fits(s, S, T, Indices(T, todo)) /\ Proper(s, S)
  BY <1>2, <1>5, <1>6
<1>9. r \in State /\ Proper(r, S) /\ Fits(r, S, T, Indices(T, todo \ {i}))
  BY <1>1, <1>2, <1>6, <1>7, <1>8, JoinIteration
<1>10. Sequences' = r /\ next' \in [Element -> Ref] /\ prev' \in [Element -> Ref]
  BY <1>4, <1>9, ListsSet
<1>11. TypeOK'
  BY <1>1, <1>4, <1>10 DEF TypeOK
<1>12. \A e \in Element : e \in K <=> Key(e) = Key(batch[i])
  <2>1. batch[i] \in Element
    BY <1>5, ArcsOfKeys
  <2> QED BY <1>3, <2>1, Elements
<1>13. \A k \in DOMAIN batch : k # i => batch[k] \notin K /\ Twin(batch[k]) \notin K
  <2>1. ASSUME NEW k \in DOMAIN batch, k # i PROVE batch[k] \notin K /\ Twin(batch[k]) \notin K
    <3>1. Key(batch[k]) # Key(batch[i])
      BY <1>5, <2>1 DEF EdgeList
    <3>2. batch[k] \in Element /\ Twin(batch[k]) \in Element /\ Key(Twin(batch[k])) = Key(batch[k])
      BY <1>5, ArcsOfKeys, Elements
    <3> QED BY <1>12, <3>1, <3>2
  <2> QED BY <2>1
<1>14. K \cap Loops = {} /\ K \subseteq Doomed /\ Doomed' = Doomed \ K
  <2>1. K \cap Loops = {}
    BY <1>3, <1>5, ArcsOfKeys, Elements
  <2>2. Doomed = UNION {{batch[k], Twin(batch[k])} : k \in todo}
    BY <1>1 DEF Doomed
  <2>3. Doomed' = UNION {{batch[k], Twin(batch[k])} : k \in todo \ {i}}
    BY <1>1, <1>4 DEF Doomed
  <2>4. ASSUME NEW e PROVE e \in Doomed' <=> e \in Doomed /\ e \notin K
    <3>1. e \in Doomed <=> \E k \in todo : e = batch[k] \/ e = Twin(batch[k])
      BY <2>2
    <3>2. e \in Doomed' <=> \E k \in todo \ {i} : e = batch[k] \/ e = Twin(batch[k])
      BY <2>3
    <3> QED BY <1>1, <1>3, <1>5, <1>13, <3>1, <3>2
  <2>5. Doomed' = Doomed \ K
    BY <2>4
  <2>6. K \subseteq Doomed
    BY <1>1, <1>3, <2>2
  <2> QED BY <2>1, <2>5, <2>6
<1>15. Staying' = S
  BY <1>4, <1>6, <1>14 DEF Staying
<1>16. live' = Of(forest') \cup {e \in Element : \E k \in ignored' \cup todo' : Key(e) = Key(batch'[k])}
  <2>1. Key(batch[i]) \in Keys(batch) /\ i \notin ignored
    BY <1>1, <1>5 DEF Keys, Chosen
  <2>2. \A e \in Of(forest) : e \notin K
    BY <1>5, <1>12, <2>1 DEF Of
  <2>3. \A k \in ignored \cup (todo \ {i}) : k \in DOMAIN batch /\ k # i
    BY <1>5, <2>1
  <2>4. \A k \in ignored \cup (todo \ {i}) : Key(batch[k]) # Key(batch[i])
    BY <1>5, <2>3 DEF EdgeList
  <2>5. live \ K = Of(forest) \cup {e \in Element : \E k \in ignored \cup (todo \ {i}) : Key(e) = Key(batch[k])}
    <3>1. ASSUME NEW e \in Element
          PROVE (\E k \in ignored \cup todo : Key(e) = Key(batch[k])) /\ e \notin K
                  <=> \E k \in ignored \cup (todo \ {i}) : Key(e) = Key(batch[k])
      BY <1>12, <2>4
    <3>2. Of(forest) \subseteq Element /\ live \subseteq Element
      BY <1>5 DEF Of
    <3> QED BY <1>5, <2>2, <3>1, <3>2
  <2> QED BY <1>4, <2>5
<1>17. Chosen' = Chosen
  BY <1>4 DEF Chosen
<1>18. CutBatch'
  BY <1>1, <1>4, <1>5, <1>17 DEF CutBatch
<1>19. CutJoining'
  <2>1. mark' \cap live' = Doomed'
    BY <1>4, <1>5, <1>14
  <2> QED BY <1>2, <1>4, <1>9, <1>10, <1>15, <1>16, <2>1 DEF CutJoining
<1>20. Idle' /\ LinkBatch' /\ LinkSplitting' /\ LinkJoining' /\ CutStarting' /\ CutSplitting'
  BY <1>1, <1>4 DEF Idle, LinkBatch, LinkSplitting, LinkJoining, CutStarting, CutSplitting
<1> QED BY <1>11, <1>18, <1>19, <1>20 DEF IInv

(* When all joins of a round are made the lists are tours again, of the    *)
(* forest and the edges that were ignored.                                 *)
LEMMA RoundOver ==
  ASSUME IInv, stage = "cutJoin", todo = {}
  PROVE  /\ TypeOK /\ EdgeList(NextCuts) /\ Keys(NextCuts) \cap forest = {}
         /\ live = Of(forest) \cup Arcs(NextCuts) /\ Of(forest) \cap Arcs(NextCuts) = {}
         /\ mark \cap live = {} /\ Sequences \in Tours(Placed)
<1>1. /\ TypeOK /\ EdgeList(batch) /\ Keys(batch) \cap forest = {} /\ ignored \subseteq DOMAIN batch
      /\ live = Of(forest) \cup {e \in Element : \E k \in ignored \cup todo : Key(e) = Key(batch[k])}
      /\ mark \cap live = Doomed /\ Proper(Sequences, Staying)
      /\ Fits(Sequences, Staying, targets, Indices(targets, todo))
  BY DEF IInv, CutBatch, CutJoining, TypeOK
<1>2. Doomed = {} /\ Staying = Placed
  BY DEF Doomed, Staying, Placed
<1>3. PICK s, S, T, D : s = Sequences /\ S = Staying /\ T = targets /\ D = todo
  OBVIOUS
<1>4. Whole(s, S)
  BY <1>1, <1>3, NoneOpen
<1>5. Sequences \in Tours(Placed)
  BY <1>1, <1>2, <1>3, <1>4, ListsState DEF Tours, TypeOK
<1>6. PICK b : b = NextCuts
  OBVIOUS
<1>7. EdgeList(b) /\ Keys(b) = {Key(batch[i]) : i \in ignored}
  BY <1>1, <1>6, NextCutsList
<1>8. Keys(b) \cap forest = {}
  BY <1>1, <1>7 DEF Keys
<1>9. Arcs(b) = {e \in Element : \E k \in ignored \cup todo : Key(e) = Key(batch[k])}
  BY <1>7, ArcsOfKeys
<1>10. Of(forest) \cap Arcs(b) = {}
  BY <1>7, <1>8, OfKeys
<1> QED BY <1>1, <1>2, <1>5, <1>6, <1>7, <1>8, <1>9, <1>10

(* The rest is cut one by one.                                             *)
LEMMA CutRestIInv ==
  ASSUME IInv, CutRest
  PROVE  IInv'
<1>1. stage = "cutJoin" /\ todo = {} /\ CutNow(NextCuts) /\ Rest /\ forest' = forest
  BY DEF CutRest
<1>2. PICK b : b = NextCuts
  OBVIOUS
<1>3. /\ TypeOK /\ EdgeList(b) /\ live = Of(forest) \cup Arcs(b) /\ Of(forest) \cap Arcs(b) = {}
      /\ mark \cap live = {} /\ Sequences \in Tours(Placed)
  BY <1>1, <1>2, RoundOver
<1>4. /\ next' \in [Element -> Ref] /\ prev' \in [Element -> Ref]
      /\ Sequences' \in Tours(Placed')
      /\ live' = live \ Arcs(b) /\ mark' = mark
      /\ edges' \in SUBSET {e \in Element : e[1] < e[2]}
  BY <1>1, <1>2, <1>3, CutNowTours
<1>5. live' = Of(forest') /\ mark' \cap live' = {}
  BY <1>1, <1>3, <1>4
<1>6. forest' \in SUBSET {e \in Element : e[1] < e[2]} /\ mark' \in SUBSET (Element \ Loops)
  BY <1>1, <1>3, <1>4 DEF TypeOK
<1> QED BY <1>1, <1>4, <1>5, <1>6, AtRest

(* The next round begins.                                                  *)
LEMMA CutAgainIInv ==
  ASSUME IInv, CutAgain
  PROVE  IInv'
<1>1. /\ stage = "cutJoin" /\ todo = {} /\ Round(NextCuts) /\ forest' = forest
      /\ next' = next /\ prev' = prev /\ live' = live /\ edges' = edges
  BY DEF CutAgain, lists
<1>2. PICK b : b = NextCuts
  OBVIOUS
<1>3. /\ TypeOK /\ EdgeList(b) /\ Keys(b) \cap forest = {} /\ live = Of(forest) \cup Arcs(b)
      /\ mark \cap live = {} /\ Sequences \in Tours(Placed)
  BY <1>1, <1>2, RoundOver
<1>4. forest' \in SUBSET {e \in Element : e[1] < e[2]}
  BY <1>1, <1>3 DEF TypeOK
<1> QED BY <1>1, <1>2, <1>3, <1>4, RoundIInv

----
(* The theorems *)

(* In the loop that splits nothing else happens.                           *)
LEMMA NextIInv ==
  ASSUME IInv, [Next]_vars
  PROVE  IInv' /\ (stage = "cutSplit" => LeftMarked)
<1>1. ASSUME NEW i \in DOMAIN batch, Iteration(i) PROVE IInv' /\ (stage = "cutSplit" => LeftMarked)
  <2>1. CASE LinkSplit(i)
    BY <2>1, LinkSplitIInv DEF LinkSplit
  <2>2. CASE LinkJoin(i)
    BY <2>2, LinkJoinIInv DEF LinkJoin
  <2>3. CASE SplitEdge(i)
    BY <2>3, SplitEdgeIInv
  <2>4. CASE SplitTwin(i)
    BY <2>4, SplitTwinIInv
  <2>5. CASE ReadEdgePrevious(i)
    BY <2>5, ReadEdgePreviousIInv
  <2>6. CASE SplitEdgePrevious(i)
    BY <2>6, SplitEdgePreviousIInv
  <2>7. CASE ReadTwinPrevious(i)
    BY <2>7, ReadTwinPreviousIInv
  <2>8. CASE SplitTwinPrevious(i)
    BY <2>8, SplitTwinPreviousIInv
  <2>9. CASE ClearPrev(i)
    BY <2>9, ClearPrevIInv
  <2>10. CASE EndIteration(i)
    BY <2>10, EndIterationIInv
  <2>11. CASE CutJoin(i)
    BY <2>11, CutJoinIInv DEF CutJoin
  <2> QED BY <1>1, <2>1, <2>2, <2>3, <2>4, <2>5, <2>6, <2>7, <2>8, <2>9, <2>10, <2>11 DEF Iteration
<1>2. ASSUME Barrier PROVE IInv' /\ (stage = "cutSplit" => LeftMarked)
  <2>1. CASE StartLinkJoin
    BY <2>1, StartLinkJoinIInv DEF StartLinkJoin
  <2>2. CASE EndLink
    BY <2>2, EndLinkIInv DEF EndLink
  <2>3. CASE CutTargets
    BY <2>3, CutTargetsIInv DEF CutTargets
  <2>4. CASE StartCutJoin
    <3>1. next' = next
      BY <2>4 DEF StartCutJoin, lists
    <3> QED BY <2>4, <3>1, StartCutJoinIInv DEF LeftMarked
  <2>5. CASE CutRest
    BY <2>5, CutRestIInv DEF CutRest
  <2>6. CASE CutAgain
    BY <2>6, CutAgainIInv DEF CutAgain
  <2> QED BY <1>2, <2>1, <2>2, <2>3, <2>4, <2>5, <2>6 DEF Barrier
<1>3. ASSUME Call PROVE IInv' /\ (stage = "cutSplit" => LeftMarked)
  <2>1. PICK b \in Batches : LinkSequential(b) \/ CutSequential(b) \/ BatchLink(b) \/ BatchCut(b)
    BY <1>3 DEF Call
  <2>2. CASE LinkSequential(b)
    BY <2>2, LinkSequentialIInv DEF LinkSequential
  <2>3. CASE CutSequential(b)
    BY <2>3, CutSequentialIInv DEF CutSequential
  <2>4. CASE BatchLink(b)
    BY <2>4, BatchLinkIInv DEF BatchLink
  <2>5. CASE BatchCut(b)
    BY <2>5, BatchCutIInv DEF BatchCut
  <2> QED BY <2>1, <2>2, <2>3, <2>4, <2>5
<1>4. ASSUME UNCHANGED vars PROVE IInv' /\ (stage = "cutSplit" => LeftMarked)
  <2>1. next' = next
    BY <1>4 DEF vars, lists
  <2> QED BY <1>4, <2>1, StutterIInv DEF LeftMarked
<1> QED BY <1>1, <1>2, <1>3, <1>4 DEF Next

(* The inductive invariant holds in every state of every execution.        *)
THEOREM Inductive == Spec => []IInv
<1>1. Init => IInv
  BY InitIInv
<1>2. IInv /\ [Next]_vars => IInv'
  BY NextIInv
<1> QED BY <1>1, <1>2, PTL DEF Spec

(* The variables keep their types, whatever the batches and however the    *)
(* iterations interleave.                                                  *)
THEOREM TypeCorrect == Spec => []TypeOK
<1>1. IInv => TypeOK
  BY DEF IInv
<1> QED BY <1>1, Inductive, PTL

(* In every execution the marks among the allocated elements are those of  *)
(* the edges that the round cuts: none is left when an operation ends, and *)
(* no edge put off for the next round has one (BatchCutRecurse).           *)
THEOREM MarksRight == Spec => []MarksAreCuts
<1>1. ASSUME IInv PROVE MarksAreCuts
  <2>1. TypeOK
    BY <1>1 DEF IInv
  <2>2. CASE stage = "idle"
    BY <1>1, <2>2 DEF IInv, Idle, MarksAreCuts, Doomed
  <2>3. CASE stage \in {"linkSplit", "linkJoin"}
    BY <1>1, <2>3 DEF IInv, LinkBatch, MarksAreCuts, Doomed
  <2>4. CASE stage \in {"cutTargets", "cutSplit"}
    <3>1. mark \cap live = CutArcs /\ EdgeList(batch) /\ ignored \subseteq DOMAIN batch
      BY <1>1, <2>4 DEF IInv, CutBatch, CutStarting, CutSplitting, TypeOK
    <3>2. CutArcs = UNION {{batch[i], Twin(batch[i])} : i \in Chosen}
      BY <3>1, CutArcsAre
    <3> QED BY <2>4, <3>1, <3>2 DEF MarksAreCuts
  <2>5. CASE stage = "cutJoin"
    BY <1>1, <2>5 DEF IInv, CutJoining, MarksAreCuts
  <2> QED BY <2>1, <2>2, <2>3, <2>4, <2>5 DEF TypeOK
<1> QED BY <1>1, Inductive, PTL

(* In every execution, while a loop that joins runs, the joins to be made  *)
(* and the open ends of the lists are the same: BatchLink and              *)
(* BatchCutRecurse call Join within its contract in whatever order their   *)
(* iterations run, and leave no list open.                                 *)
THEOREM JoinsFit == Spec => []JoinsMatchEnds
<1>1. ASSUME IInv, stage \in {"linkJoin", "cutJoin"}
      PROVE  LET joins == [i \in todo |-> IF stage = "linkJoin" THEN LinkJoins(i) ELSE targets[i]]
                 all == UNION {{<<i, k>> : k \in DOMAIN joins[i]} : i \in todo}
                 left == [j \in all |-> joins[j[1]][j[2]][1]]
                 right == [j \in all |-> joins[j[1]][j[2]][2]]
             IN /\ \A j, k \in all : j # k => left[j] # left[k] /\ right[j] # right[k]
                /\ {left[j] : j \in all} = {e \in Staying : next[e] = Null}
                /\ {right[j] : j \in all} = {e \in Staying : prev[e] = Null}
  <2> DEFINE joins == [i \in todo |-> IF stage = "linkJoin" THEN LinkJoins(i) ELSE targets[i]]
             all == UNION {{<<i, k>> : k \in DOMAIN joins[i]} : i \in todo}
             left == [j \in all |-> joins[j[1]][j[2]][1]]
             right == [j \in all |-> joins[j[1]][j[2]][2]]
  <2>1. TypeOK /\ todo \subseteq DOMAIN batch
    BY <1>1 DEF IInv, TypeOK
  <2>2. PICK T : T = IF stage = "linkJoin" THEN LinkTargets ELSE targets
    OBVIOUS
  <2>3. \A i \in todo : joins[i] = T[i]
    BY <2>1, <2>2 DEF LinkTargets
  <2>4. PICK s : s = Sequences /\ s.next = next /\ s.prev = prev
    BY <2>1, ListsState DEF TypeOK
  <2>5. Fits(s, Staying, T, Indices(T, todo))
    <3>1. CASE stage = "linkJoin"
      <4>1. Staying = Placed
        BY <3>1 DEF Staying, Doomed, Placed
      <4> QED BY <1>1, <2>2, <2>4, <3>1, <4>1 DEF IInv, LinkJoining
    <3>2. CASE stage = "cutJoin"
      BY <1>1, <2>2, <2>4, <3>2 DEF IInv, CutJoining
    <3> QED BY <1>1, <3>1, <3>2
  <2>6. all = Indices(T, todo)
    <3>1. \A j : j \in all <=> \E i \in todo : \E k \in DOMAIN joins[i] : j = <<i, k>>
      OBVIOUS
    <3>2. \A j : j \in Indices(T, todo) <=> \E i \in todo : \E k \in DOMAIN T[i] : j = <<i, k>>
      BY DEF Indices
    <3> HIDE DEF joins, all
    <3> QED BY <2>3, <3>1, <3>2
  <2>7. ASSUME NEW j \in all PROVE left[j] = Left(T, j) /\ right[j] = Right(T, j)
    <3>1. j[1] \in todo
      OBVIOUS
    <3>2. left[j] = joins[j[1]][j[2]][1] /\ right[j] = joins[j[1]][j[2]][2]
      OBVIOUS
    <3> HIDE DEF joins, all, left, right
    <3> QED BY <2>3, <3>1, <3>2 DEF Left, Right
  <2> HIDE DEF joins, all, left, right
  <2>8. /\ \A j \in all : /\ Left(T, j) \in Staying /\ Right(T, j) \in Staying
                          /\ next[Left(T, j)] = Null /\ prev[Right(T, j)] = Null
        /\ \A j, k \in all : j # k => Left(T, j) # Left(T, k) /\ Right(T, j) # Right(T, k)
        /\ \A e \in Staying : next[e] = Null => \E j \in all : Left(T, j) = e
        /\ \A e \in Staying : prev[e] = Null => \E j \in all : Right(T, j) = e
    BY <2>4, <2>5, <2>6, FitsMeans
  <2>9. \A j, k \in all : j # k => left[j] # left[k] /\ right[j] # right[k]
    BY <2>7, <2>8
  <2>10. {left[j] : j \in all} = {e \in Staying : next[e] = Null}
    BY <2>7, <2>8
  <2>11. {right[j] : j \in all} = {e \in Staying : prev[e] = Null}
    BY <2>7, <2>8
  <2> QED BY <2>9, <2>10, <2>11 DEF joins, all, left, right
<1>2. IInv => JoinsMatchEnds
  BY <1>1 DEF JoinsMatchEnds
<1> QED BY <1>2, Inductive, PTL

(* In every execution nothing that stays leads to an element that is freed *)
(* or about to be, from the first free of a round on.                      *)
THEOREM NoDanglingNeighbour == Spec => []FreedUnreachable
<1>1. ASSUME IInv PROVE FreedUnreachable
  <2>1. TypeOK
    BY <1>1 DEF IInv
  <2>2. ASSUME stage \in {"idle", "cutJoin"} PROVE Proper(Sequences, Staying)
    <3>1. CASE stage = "idle"
      <4>1. Staying = Placed
        BY <3>1 DEF Staying, Placed, Doomed
      <4> QED BY <1>1, <3>1, <4>1 DEF IInv, Idle, Tours
    <3>2. CASE stage = "cutJoin"
      BY <1>1, <3>2 DEF IInv, CutJoining
    <3> QED BY <2>2, <3>1, <3>2
  <2>3. ASSUME stage \in {"idle", "cutJoin"}, NEW e \in Staying
        PROVE  {next[e], prev[e]} \subseteq Staying \cup {Null}
    BY <2>1, <2>2, <2>3, ListsState DEF Proper, TypeOK
  <2> QED BY <2>3 DEF FreedUnreachable
<1> QED BY <1>1, Inductive, PTL

(* In every execution BatchCutRecurse opens the tours at the marked        *)
(* elements and nowhere else.                                              *)
THEOREM OnlyAtCuts == Spec => CutsOnlyMarked
<1>1. IInv /\ [Next]_vars =>
        [stage = "cutSplit" =>
           \A e \in Element : next'[e] # next[e] => e \in mark \/ next[e] \in mark]_vars
  BY NextIInv DEF LeftMarked
<1> QED BY <1>1, Inductive, PTL DEF Spec, CutsOnlyMarked
====
