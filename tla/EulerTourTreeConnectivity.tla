---- MODULE EulerTourTreeConnectivity ----
(***************************************************************************)
(* EulerTourTree keeps one tour per tree: ToursAreTrees, and that its      *)
(* steps are those of DynamicForest.                                       *)
(*                                                                         *)
(* The rotation of an element is the one after its twin; it begins at the  *)
(* same vertex.  What the joins and splits keep is that no edges at a      *)
(* vertex make a ring of rotations that the loop of the vertex is not in   *)
(* (NoRing).  This is a property of each vertex on its own, which is why   *)
(* the iterations of a batch cannot harm each other: BatchLink puts the    *)
(* arcs of a vertex into its rotation after the loop, and RightTarget      *)
(* follows the rotation past the arcs that are cut.  In a forest it        *)
(* implies that a tour comes to the whole tree: if it passed some edges in *)
(* one direction only, each of these edges would lead to another one, and  *)
(* a forest has leaves.                                                    *)
(***************************************************************************)
EXTENDS EulerTourTreeProofs

----
(* Closures *)

(* A set is closed under G, which gives the elements next to one.          *)
ClosedUnder(C, G, U) == \A e \in C \cap U : G[e] \subseteq C

(* A set that grows by the neighbours of its elements is closed after as   *)
(* many steps as there are elements, and is the least that is.             *)
LEMMA Growing ==
  ASSUME NEW U, IsFiniteSet(U), NEW m \in Nat, Cardinality(U) <= m, NEW x \in U,
         NEW G \in [U -> SUBSET U], NEW R, R[0] = {x},
         \A k \in 1 .. m : R[k] = R[k - 1] \cup UNION {G[e] : e \in R[k - 1]}
  PROVE  /\ x \in R[m] /\ R[m] \subseteq U
         /\ ClosedUnder(R[m], G, U)
         /\ \A C : x \in C /\ ClosedUnder(C, G, U) => R[m] \subseteq C
<1> DEFINE Next1(k) == R[k] \cup UNION {G[e] : e \in R[k]}
<1>1. ASSUME NEW k \in 0 .. m - 1 PROVE k + 1 \in 0 .. m /\ R[k + 1] = Next1(k)
  <2>1. PICK l \in 1 .. m : l = k + 1 /\ l - 1 = k
    OBVIOUS
  <2> QED BY <2>1
<1> DEFINE A == {k \in 0 .. m : x \in R[k] /\ R[k] \subseteq U}
<1>2. \A k \in 0 .. m : k \in A
  <2>1. 0 \in A
    OBVIOUS
  <2>2. ASSUME NEW k \in 0 .. m - 1, k \in A PROVE k + 1 \in A
    <3>1. x \in Next1(k) /\ Next1(k) \subseteq U
      BY <2>2
    <3> QED BY <1>1, <3>1
  <2> HIDE DEF A
  <2> QED BY <2>1, <2>2, Induction
<1> DEFINE Stable(k) == \A e \in R[k] : G[e] \subseteq R[k]
           B == {k \in 0 .. m : Stable(k) \/ Cardinality(R[k]) >= k + 1}
<1>3. \A k \in 0 .. m : IsFiniteSet(R[k]) /\ Cardinality(R[k]) \in Nat /\ Cardinality(R[k]) <= Cardinality(U)
  BY <1>2, FS_Subset, FS_CardinalityType
<1>4. \A k \in 0 .. m : k \in B
  <2>1. 0 \in B
    <3>1. Cardinality({x}) = 1
      BY FS_Singleton
    <3> QED BY <3>1
  <2>2. ASSUME NEW k \in 0 .. m - 1, k \in B PROVE k + 1 \in B
    <3>1. k \in 0 .. m /\ k + 1 \in 0 .. m /\ R[k + 1] = Next1(k) /\ R[k] \subseteq Next1(k)
      BY <1>1
    <3>2. CASE Stable(k)
      <4>1. R[k + 1] = R[k]
        BY <3>1, <3>2
      <4> QED BY <4>1, <3>1, <3>2
    <3>3. CASE ~Stable(k)
      <4>1. R[k] # R[k + 1]
        BY <3>1, <3>3
      <4>2. Cardinality(R[k]) >= k + 1
        BY <2>2, <3>3
      <4>3. Cardinality(R[k]) < Cardinality(R[k + 1])
        <5>1. PICK P, Q : P = R[k] /\ Q = R[k + 1]
          OBVIOUS
        <5>2. P \in SUBSET Q /\ P # Q /\ IsFiniteSet(Q) /\ IsFiniteSet(P)
          BY <5>1, <4>1, <3>1, <1>3
        <5>3. Cardinality(P) <= Cardinality(Q) /\ Cardinality(P) # Cardinality(Q)
          BY <5>2, FS_Subset
        <5>4. Cardinality(P) \in Nat /\ Cardinality(Q) \in Nat
          BY <5>2, FS_CardinalityType
        <5>5. Cardinality(P) < Cardinality(Q)
          BY <5>3, <5>4
        <5> QED BY <5>1, <5>5
      <4>4. PICK c \in Nat, d \in Nat : c = Cardinality(R[k]) /\ d = Cardinality(R[k + 1])
        BY <3>1, <1>3
      <4>5. d >= (k + 1) + 1
        BY <4>2, <4>3, <4>4, <3>1
      <4> QED BY <4>4, <4>5, <3>1
    <3> QED BY <3>2, <3>3
  <2> HIDE DEF B
  <2> QED BY <2>1, <2>2, Induction
<1>5. m \in 0 .. m
  OBVIOUS
<1>6. Stable(m)
  <2>1. Cardinality(R[m]) <= m
    BY <1>3, <1>5, FS_CardinalityType
  <2> QED BY <2>1, <1>3, <1>4, <1>5
<1>7. ASSUME NEW C, x \in C, ClosedUnder(C, G, U) PROVE R[m] \subseteq C
  <2> DEFINE D == {k \in 0 .. m : R[k] \subseteq C}
  <2>1. 0 \in D
    BY <1>7
  <2>2. ASSUME NEW k \in 0 .. m - 1, k \in D PROVE k + 1 \in D
    <3>1. Next1(k) \subseteq C
      BY <2>2, <1>2, <1>7 DEF ClosedUnder
    <3> QED BY <3>1, <1>1
  <2>3. \A k \in 0 .. m : k \in D
    <3> HIDE DEF D
    <3> QED BY <2>1, <2>2, Induction
  <2> QED BY <2>3, <1>5
<1> QED BY <1>2, <1>5, <1>6, <1>7 DEF ClosedUnder

----
(* Rotations *)

(* No arcs of A go to one another in a ring of rotations: with n[Twin(e)]  *)
(* after e, every set of them is left from one of its elements.            *)
NoRing(n, A) == \A C \in SUBSET A : (\A e \in C : n[Twin(e)] \in C) => C = {}

(* The direction of an edge and its twin are there together.               *)
TwinClosed(S) == \A e \in S : Twin(e) \in S

(* NoRing is about the pointers of A only.                                 *)
LEMMA NoRingSame ==
  ASSUME NEW n, NEW A, TwinClosed(A), NoRing(n, A), NEW m, \A e \in A : m[e] = n[e]
  PROVE  NoRing(m, A)
BY DEF NoRing, TwinClosed

(* Link puts the two directions of an edge into the rotations of its ends, *)
(* between the loop and what comes after it.                               *)
LEMMA LinkedNoRing ==
  ASSUME NEW s \in State, NEW S \in SUBSET Element, Proper(s, S), Whole(s, S), Loops \subseteq S,
         TwinClosed(S), NoRing(s.next, S \ Loops),
         NEW uv \in Element \ Loops, uv \notin S, Twin(uv) \notin S
  PROVE  NoRing(Linked(s, uv).next, (S \cup {uv, Twin(uv)}) \ Loops)
<1>1. PICK n : n = Linked(s, uv).next
  OBVIOUS
<1>2. /\ \A e \in S \ Loops : n[e] = s.next[e]
      /\ n[uv] = s.next[Loop(uv[2])] /\ n[Twin(uv)] = s.next[Loop(uv[1])]
  <2>1. /\ \A e \in S \ Loops : Linked(s, uv).next[e] = s.next[e]
        /\ Linked(s, uv).next[uv] = s.next[Loop(uv[2])]
        /\ Linked(s, uv).next[Twin(uv)] = s.next[Loop(uv[1])]
    BY LinkedProper
  <2> QED BY <1>1, <2>1
<1>3. \A e \in S : s.next[e] \in S
  BY DEF Proper, Whole
<1>4. Loop(uv[1]) \in S /\ Loop(uv[2]) \in S /\ Twin(Twin(uv)) = uv
  BY Elements
<1>5. n[uv] \in S /\ n[Twin(uv)] \in S
  BY <1>2, <1>3, <1>4
<1>6. SUFFICES ASSUME NEW C \in SUBSET ((S \cup {uv, Twin(uv)}) \ Loops), \A e \in C : n[Twin(e)] \in C
               PROVE  C = {}
  BY <1>1 DEF NoRing
<1> DEFINE D == C \cap S
<1>7. ASSUME NEW e \in D PROVE s.next[Twin(e)] \in D
  <2>1. e \in S \ Loops /\ Twin(e) \in S \ Loops
    BY <1>6, Elements DEF TwinClosed
  <2>2. n[Twin(e)] \in C /\ n[Twin(e)] = s.next[Twin(e)]
    BY <1>2, <1>6, <2>1
  <2> QED BY <2>1, <2>2, <1>3
<1>8. D = {}
  <2>1. D \in SUBSET (S \ Loops)
    BY <1>6
  <2> HIDE DEF D
  <2> QED BY <1>7, <2>1 DEF NoRing
<1>9. ASSUME NEW e \in {uv, Twin(uv)} PROVE e \notin C
  <2>1. n[Twin(e)] \in S
    BY <1>4, <1>5
  <2> QED BY <2>1, <1>6, <1>8
<1> QED BY <1>6, <1>8, <1>9

(* Cut takes them out.                                                     *)
LEMMA CutOffNoRing ==
  ASSUME NEW s \in State, NEW S \in SUBSET Element, Proper(s, S), Whole(s, S),
         TwinClosed(S), NoRing(s.next, S \ Loops),
         NEW uv \in S \ Loops, Twin(uv) \in S
  PROVE  NoRing(CutOff(s, uv).next, (S \ {uv, Twin(uv)}) \ Loops)
<1>1. PICK n : n = CutOff(s, uv).next
  OBVIOUS
<1>2. PICK vu : vu = Twin(uv) /\ Twin(vu) = uv /\ vu \in S \ Loops
  BY Elements
<1>3. \A e \in S \ {uv, vu} : n[e] = IF s.next[e] = uv THEN s.next[vu]
                                     ELSE IF s.next[e] = vu THEN s.next[uv] ELSE s.next[e]
  <2>1. \A e \in S \ {uv, Twin(uv)} :
          CutOff(s, uv).next[e] = IF s.next[e] = uv THEN s.next[Twin(uv)]
                                  ELSE IF s.next[e] = Twin(uv) THEN s.next[uv] ELSE s.next[e]
    BY CutOffProper
  <2> QED BY <2>1, <1>1, <1>2
<1>4. SUFFICES ASSUME NEW C \in SUBSET ((S \ {uv, vu}) \ Loops), \A e \in C : n[Twin(e)] \in C
               PROVE  C = {}
  BY <1>1, <1>2 DEF NoRing
<1> DEFINE D == C \cup {x \in {uv, vu} : s.next[Twin(x)] \in C}
<1>5. ASSUME NEW e \in C PROVE s.next[Twin(e)] \in D
  <2>1. Twin(e) \in S \ {uv, vu}
    BY <1>2, <1>4, Elements DEF TwinClosed
  <2>2. n[Twin(e)] \in C
    BY <1>4
  <2>3. CASE s.next[Twin(e)] = uv
    BY <2>1, <2>2, <2>3, <1>2, <1>3
  <2>4. CASE s.next[Twin(e)] = vu /\ vu # uv
    BY <2>1, <2>2, <2>4, <1>2, <1>3
  <2>5. CASE s.next[Twin(e)] # vu /\ s.next[Twin(e)] # uv
    BY <2>1, <2>2, <2>5, <1>3
  <2> QED BY <2>3, <2>4, <2>5
<1>6. \A e \in D : s.next[Twin(e)] \in D
  BY <1>5
<1>7. D \in SUBSET (S \ Loops)
  BY <1>2, <1>4
<1>8. D = {}
  <2> HIDE DEF D
  <2> QED BY <1>6, <1>7 DEF NoRing
<1> QED BY <1>8

(* The arcs of a batch, and of a part of it, in both directions.           *)
LEMMA ArcsTwins ==
  ASSUME NEW b, NEW k, NEW S \in SUBSET Element, TwinClosed(S)
  PROVE  TwinClosed(S \cup ArcsTo(b, k)) /\ TwinClosed(S \ ArcsTo(b, k))
BY Elements DEF TwinClosed, ArcsTo

(* Links one by one.                                                       *)
LEMMA LinkAllNoRing ==
  ASSUME NEW b, EdgeList(b), NEW S \in SUBSET Element, Loops \subseteq S, S \cap Arcs(b) = {},
         NEW s \in Tours(S), TwinClosed(S), NoRing(s.next, S \ Loops)
  PROVE  NoRing(LinkAll(s, b).next, (S \cup Arcs(b)) \ Loops)
<1>1. PICK m \in Nat : m = Len(b)
  BY ArcsOfKeys
<1>2. PICK f : /\ f[0] = s
               /\ \A k \in 1 .. m : f[k] = Linked(f[k - 1], b[k])
               /\ \A k \in 0 .. m : f[k] \in Tours(S \cup ArcsTo(b, k))
               /\ LinkAll(s, b) = f[m]
  <2>1. \E f : /\ f[0] = s
               /\ \A k \in 1 .. Len(b) : f[k] = Linked(f[k - 1], b[k])
               /\ \A k \in 0 .. Len(b) : f[k] \in Tours(S \cup ArcsTo(b, k))
               /\ LinkAll(s, b) = f[Len(b)]
    BY LinkAllSteps
  <2> QED BY <1>1, <2>1
<1> DEFINE T == {k \in 0 .. m : NoRing(f[k].next, (S \cup ArcsTo(b, k)) \ Loops)}
<1>3. 0 \in T
  <2>1. S \cup ArcsTo(b, 0) = S
    BY ArcsStep
  <2>2. NoRing(f[0].next, (S \cup ArcsTo(b, 0)) \ Loops)
    BY <2>1, <1>2
  <2>3. 0 \in 0 .. m
    OBVIOUS
  <2> QED BY <2>2, <2>3
<1>4. ASSUME NEW k \in 0 .. m - 1, k \in T PROVE k + 1 \in T
  <2>1. PICK l \in 1 .. m : l = k + 1 /\ l - 1 = k
    OBVIOUS
  <2>2. PICK A \in SUBSET Element : A = S \cup ArcsTo(b, k)
    BY DEF ArcsTo
  <2>3. PICK t : t = f[k] /\ f[l] = Linked(t, b[l])
    BY <1>2, <2>1
  <2>4. t \in State /\ Proper(t, A) /\ Whole(t, A) /\ Loops \subseteq A
    BY <1>2, <2>2, <2>3 DEF Tours
  <2>5. TwinClosed(A) /\ NoRing(t.next, A \ Loops)
    BY <1>4, <2>2, <2>3, ArcsTwins
  <2>6. PICK uv \in Element \ Loops : uv = b[l] /\ uv \notin A /\ Twin(uv) \notin A
    BY <1>1, <2>1, <2>2, ArcsStep
  <2>7. NoRing(Linked(t, uv).next, (A \cup {uv, Twin(uv)}) \ Loops)
    BY <2>4, <2>5, <2>6, LinkedNoRing
  <2>8. A \cup {uv, Twin(uv)} = S \cup ArcsTo(b, l)
    BY <1>1, <2>1, <2>2, <2>6, ArcsStep
  <2>9. NoRing(f[l].next, (S \cup ArcsTo(b, l)) \ Loops) /\ l \in 0 .. m
    BY <2>3, <2>6, <2>7, <2>8
  <2> QED BY <2>1, <2>9
<1>5. m \in T
  <2> HIDE DEF T
  <2>1. \A k \in 0 .. m : k \in T
    BY <1>3, <1>4, Induction
  <2> QED BY <2>1
<1>6. ArcsTo(b, m) = Arcs(b)
  BY <1>1, ArcsOfKeys
<1> QED BY <1>2, <1>5, <1>6

(* Cuts one by one.                                                        *)
LEMMA CutAllNoRing ==
  ASSUME NEW b, EdgeList(b), NEW S \in SUBSET Element, Arcs(b) \subseteq S,
         NEW s \in Tours(S), TwinClosed(S), NoRing(s.next, S \ Loops)
  PROVE  NoRing(CutAll(s, b).next, (S \ Arcs(b)) \ Loops)
<1>1. PICK m \in Nat : m = Len(b)
  BY ArcsOfKeys
<1>2. PICK f : /\ f[0] = s
               /\ \A k \in 1 .. m : f[k] = CutOff(f[k - 1], b[k])
               /\ \A k \in 0 .. m : f[k] \in Tours(S \ ArcsTo(b, k))
               /\ CutAll(s, b) = f[m]
  BY <1>1, CutAllSteps
<1> DEFINE T == {k \in 0 .. m : NoRing(f[k].next, (S \ ArcsTo(b, k)) \ Loops)}
<1>3. 0 \in T
  <2>1. S \ ArcsTo(b, 0) = S
    BY ArcsStep
  <2>2. NoRing(f[0].next, (S \ ArcsTo(b, 0)) \ Loops)
    BY <2>1, <1>2
  <2>3. 0 \in 0 .. m
    OBVIOUS
  <2> QED BY <2>2, <2>3
<1>4. ASSUME NEW k \in 0 .. m - 1, k \in T PROVE k + 1 \in T
  <2>1. PICK l \in 1 .. m : l = k + 1 /\ l - 1 = k
    OBVIOUS
  <2>2. PICK A \in SUBSET Element : A = S \ ArcsTo(b, k)
    OBVIOUS
  <2>3. PICK t : t = f[k] /\ f[l] = CutOff(t, b[l])
    BY <1>2, <2>1
  <2>4. t \in State /\ Proper(t, A) /\ Whole(t, A)
    BY <1>2, <2>2, <2>3 DEF Tours
  <2>5. TwinClosed(A) /\ NoRing(t.next, A \ Loops)
    BY <1>4, <2>2, <2>3, ArcsTwins
  <2>6. PICK uv \in A \ Loops : uv = b[l] /\ Twin(uv) \in A
    BY <1>1, <2>1, <2>2, ArcsStep
  <2>7. NoRing(CutOff(t, uv).next, (A \ {uv, Twin(uv)}) \ Loops)
    BY <2>4, <2>5, <2>6, CutOffNoRing
  <2>8. A \ {uv, Twin(uv)} = S \ ArcsTo(b, l)
    BY <1>1, <2>1, <2>2, <2>6, ArcsStep
  <2>9. NoRing(f[l].next, (S \ ArcsTo(b, l)) \ Loops) /\ l \in 0 .. m
    BY <2>3, <2>6, <2>7, <2>8
  <2> QED BY <2>1, <2>9
<1>5. m \in T
  <2> HIDE DEF T
  <2>1. \A k \in 0 .. m : k \in T
    BY <1>3, <1>4, Induction
  <2> QED BY <2>1
<1>6. ArcsTo(b, m) = Arcs(b)
  BY <1>1, ArcsOfKeys
<1> QED BY <1>2, <1>5, <1>6

----
(* Trees and forests *)

(* The edges as the forest has them: the lesser vertex first.              *)
Edge == {e \in Element : e[1] < e[2]}

(* No edge of F has only one end in C.                                     *)
Uncut(F, C) == \A f \in F : f[1] \in C <=> f[2] \in C

(* Edges lie between different trees of the edges of lower rank.           *)
Ranked(F, K, r) ==
  /\ K \in Nat /\ r \in [F -> 0 .. K - 1]
  /\ \A e, f \in F : r[e] = r[f] => e = f
  /\ \A e \in F : \E C \in SUBSET Vertices :
        e[1] \in C /\ e[2] \notin C /\ Uncut({f \in F : r[f] < r[e]}, C)

(* A forest: its edges can be put in an order in which each joins two      *)
(* trees of the ones before.                                               *)
NoCycle(F) == \E K, r : Ranked(F, K, r)

(* A tree is the least set of vertices that no edge leaves.                *)
LEMMA TreeIs ==
  ASSUME NEW F \in SUBSET Edge, NEW u \in Vertices
  PROVE  /\ u \in Tree(F, u) /\ Tree(F, u) \subseteq Vertices
         /\ Uncut(F, Tree(F, u))
         /\ \A C : u \in C /\ Uncut(F, C) => Tree(F, u) \subseteq C
<1>1. PICK m \in Nat : m = NumVertices
  BY SomeVertices
<1>2. IsFiniteSet(Vertices) /\ Cardinality(Vertices) <= m
  BY <1>1, SomeVertices, FS_Interval DEF Vertices
<1>3. PICK R : /\ R[0] = {u}
               /\ \A k \in 1 .. m : R[k] = UNION {{v} \cup Neighbours(F, v) : v \in R[k - 1]}
               /\ Tree(F, u) = R[m]
  <2>1. \E R : /\ R[0] = {u}
               /\ \A k \in 1 .. NumVertices : R[k] = UNION {{v} \cup Neighbours(F, v) : v \in R[k - 1]}
               /\ Tree(F, u) = R[NumVertices]
    BY TreeReach
  <2> QED BY <1>1, <2>1
<1> DEFINE H == [v \in Vertices |-> Neighbours(F, v)]
<1>4. PICK G : G = H
  OBVIOUS
<1>5. G \in [Vertices -> SUBSET Vertices] /\ \A v \in Vertices : G[v] = Neighbours(F, v)
  BY <1>4 DEF Neighbours
<1> DEFINE A == {k \in 0 .. m : R[k] \subseteq Vertices}
<1>6. \A k \in 0 .. m : k \in A
  <2>1. 0 \in A
    BY <1>3
  <2>2. ASSUME NEW k \in 0 .. m - 1, k \in A PROVE k + 1 \in A
    <3>1. PICK l \in 1 .. m : l = k + 1 /\ l - 1 = k
      OBVIOUS
    <3>2. R[l] = UNION {{v} \cup Neighbours(F, v) : v \in R[k]}
      BY <1>3, <3>1
    <3>3. R[l] \subseteq Vertices
      BY <2>2, <3>2 DEF Neighbours
    <3> QED BY <3>1, <3>3
  <2> HIDE DEF A
  <2> QED BY <2>1, <2>2, Induction
<1>7. \A k \in 1 .. m : R[k] = R[k - 1] \cup UNION {G[v] : v \in R[k - 1]}
  <2>1. TAKE k \in 1 .. m
  <2>2. R[k - 1] \subseteq Vertices
    <3>1. k - 1 \in 0 .. m
      OBVIOUS
    <3> QED BY <3>1, <1>6
  <2>3. R[k] = UNION {{v} \cup Neighbours(F, v) : v \in R[k - 1]}
    BY <1>3
  <2>4. \A v \in R[k - 1] : G[v] = Neighbours(F, v)
    BY <2>2, <1>5
  <2> QED BY <2>3, <2>4
<1>8. /\ u \in R[m] /\ R[m] \subseteq Vertices
      /\ ClosedUnder(R[m], G, Vertices)
      /\ \A C : u \in C /\ ClosedUnder(C, G, Vertices) => R[m] \subseteq C
  BY <1>2, <1>3, <1>5, <1>7, Growing
<1>9. ASSUME NEW C PROVE Uncut(F, C) <=> ClosedUnder(C, G, Vertices)
  <2>1. ClosedUnder(C, G, Vertices) <=> \A v \in C \cap Vertices : \A w \in Vertices : Key(<<v, w>>) \in F => w \in C
    BY <1>5 DEF ClosedUnder, Neighbours
  <2>2. ASSUME Uncut(F, C), NEW v \in C \cap Vertices, NEW w \in Vertices, Key(<<v, w>>) \in F PROVE w \in C
    <3>1. Key(<<v, w>>) = <<v, w>> \/ Key(<<v, w>>) = <<w, v>>
      BY DEF Key, Twin
    <3> QED BY <2>2, <3>1 DEF Uncut
  <2>3. ASSUME ClosedUnder(C, G, Vertices), NEW f \in F PROVE f[1] \in C <=> f[2] \in C
    <3>1. f \in Element /\ f[1] < f[2] /\ f[1] \in Vertices /\ f[2] \in Vertices /\ f = <<f[1], f[2]>>
      BY Elements DEF Edge
    <3>2. Key(<<f[1], f[2]>>) = f
      BY <3>1 DEF Key
    <3>3. Key(<<f[2], f[1]>>) = f
      <4>1. Key(Twin(f)) = Key(f) /\ Twin(f) = <<f[2], f[1]>>
        BY <3>1, Elements DEF Twin
      <4> QED BY <4>1, <3>1, <3>2
    <3> QED BY <2>1, <2>3, <3>1, <3>2, <3>3
  <2> QED BY <2>1, <2>2, <2>3 DEF Uncut
<1> QED BY <1>3, <1>8, <1>9

(* There is no cycle without edges.                                        *)
LEMMA EmptyNoCycle == NoCycle({})
<1>1. PICK r : r \in [{} -> 0 .. 0 - 1]
  <2>1. [e \in {} |-> 0] \in [{} -> 0 .. 0 - 1]
    OBVIOUS
  <2> QED BY <2>1
<1>2. Ranked({}, 0, r)
  BY <1>1 DEF Ranked
<1> QED BY <1>2 DEF NoCycle

(* Taking edges away makes no cycle.                                       *)
LEMMA FewerNoCycle ==
  ASSUME NEW F, NoCycle(F), NEW E \in SUBSET F
  PROVE  NoCycle(E)
<1>1. PICK K, r : Ranked(F, K, r)
  BY DEF NoCycle
<1>2. PICK q : q = [e \in E |-> r[e]]
  OBVIOUS
<1>3. Ranked(E, K, q)
  BY <1>1, <1>2 DEF Ranked, Uncut
<1> QED BY <1>3 DEF NoCycle

(* Nor does an edge between two trees.                                     *)
LEMMA OneMoreNoCycle ==
  ASSUME NEW F, NoCycle(F), NEW e, NEW C \in SUBSET Vertices, Uncut(F, C), e[1] \in C, e[2] \notin C
  PROVE  NoCycle(F \cup {e})
<1>1. PICK K, r : Ranked(F, K, r)
  BY DEF NoCycle
<1>2. e \notin F
  BY DEF Uncut
<1> DEFINE E == F \cup {e}
<1>3. PICK q : q = [f \in E |-> IF f = e THEN K ELSE r[f]]
  OBVIOUS
<1>4. K \in Nat /\ K + 1 \in Nat /\ \A f \in F : r[f] \in 0 .. K - 1
  BY <1>1 DEF Ranked
<1>5. q[e] = K /\ \A f \in F : q[f] = r[f]
  BY <1>2, <1>3
<1>6. q \in [E -> 0 .. (K + 1) - 1]
  <2>1. \A f \in E : q[f] \in 0 .. (K + 1) - 1
    BY <1>4, <1>5
  <2> QED BY <2>1, <1>3
<1>7. ASSUME NEW f \in E, NEW g \in E, q[f] = q[g] PROVE f = g
  <2>1. \A h \in F : q[h] # K
    BY <1>4, <1>5
  <2> QED BY <2>1, <1>1, <1>5, <1>7 DEF Ranked
<1>8. ASSUME NEW f \in E
      PROVE  \E D \in SUBSET Vertices : f[1] \in D /\ f[2] \notin D /\ Uncut({g \in E : q[g] < q[f]}, D)
  <2>1. CASE f = e
    <3>1. {g \in E : q[g] < q[f]} = F
      BY <2>1, <1>4, <1>5
    <3> QED BY <2>1, <3>1
  <2>2. CASE f # e
    <3>1. {g \in E : q[g] < q[f]} = {g \in F : r[g] < r[f]}
      BY <2>2, <1>4, <1>5
    <3>2. \E D \in SUBSET Vertices : f[1] \in D /\ f[2] \notin D /\ Uncut({g \in F : r[g] < r[f]}, D)
      BY <2>2, <1>1 DEF Ranked
    <3> QED BY <3>1, <3>2
  <2> QED BY <2>1, <2>2
<1>9. Ranked(E, K + 1, q)
  BY <1>4, <1>6, <1>7, <1>8 DEF Ranked
<1> QED BY <1>9 DEF NoCycle

(* A batch that Acyclic accepts makes no cycle.                            *)
LEMMA BatchNoCycle ==
  ASSUME NEW F \in SUBSET Edge, NoCycle(F), NEW b, EdgeList(b), Acyclic(F, b)
  PROVE  NoCycle(F \cup Keys(b))
<1>1. PICK m \in Nat : m = Len(b) /\ DOMAIN b = 1 .. m
  BY ArcsOfKeys
<1> DEFINE Upto(k) == F \cup {Key(b[j]) : j \in 1 .. k}
           T == {k \in 0 .. m : NoCycle(Upto(k))}
<1>2. 0 \in T
  <2>1. Upto(0) = F
    OBVIOUS
  <2> QED BY <2>1
<1>3. ASSUME NEW k \in 0 .. m - 1, k \in T PROVE k + 1 \in T
  <2>1. PICK l \in 1 .. m : l = k + 1 /\ l - 1 = k
    OBVIOUS
  <2>2. PICK G : G = Upto(k)
    OBVIOUS
  <2>3. PICK e \in Element : e = b[l] /\ e \notin Loops
    BY <1>1, ArcsOfKeys
  <2>4. G \in SUBSET Edge
    <3>1. \A j \in 1 .. k : Key(b[j]) \in Keys(b)
      BY <1>1 DEF Keys
    <3>2. Keys(b) \subseteq Edge
      BY OfKeys DEF Edge
    <3> QED BY <2>2, <3>1, <3>2
  <2>5. e[1] \in Vertices /\ e[2] \notin Tree(G, e[1])
    BY <1>1, <2>1, <2>2, <2>3, Elements DEF Acyclic
  <2>6. PICK C \in SUBSET Vertices : e[1] \in C /\ e[2] \notin C /\ Uncut(G, C)
    BY <2>4, <2>5, TreeIs
  <2>7. NoCycle(G)
    BY <1>3, <2>2
  <2>8. NoCycle(G \cup {Key(e)})
    <3>1. e[1] \in Vertices /\ e[2] \in Vertices
      BY Elements
    <3>2. CASE Key(e) = e
      BY <3>2, <2>6, <2>7, OneMoreNoCycle
    <3>3. CASE Key(e) = Twin(e)
      <4>1. Key(e)[1] = e[2] /\ Key(e)[2] = e[1]
        BY <3>3, Elements
      <4>2. PICK D \in SUBSET Vertices : D = Vertices \ C
        OBVIOUS
      <4>3. Uncut(G, D)
        <5>1. \A g \in G : g[1] \in Vertices /\ g[2] \in Vertices
          BY <2>4, Elements DEF Edge
        <5> QED BY <5>1, <4>2, <2>6 DEF Uncut
      <4> QED BY <4>1, <4>2, <4>3, <3>1, <2>6, <2>7, OneMoreNoCycle
    <3> QED BY <3>2, <3>3, Elements
  <2>9. Upto(l) = G \cup {Key(e)}
    <3>1. \A j : j \in 1 .. l <=> j \in 1 .. k \/ j = l
      BY <2>1
    <3> QED BY <3>1, <2>2, <2>3
  <2> HIDE DEF Upto
  <2>10. NoCycle(Upto(l)) /\ l \in 0 .. m
    BY <2>1, <2>8, <2>9
  <2> QED BY <2>1, <2>10
<1>4. m \in T
  <2> HIDE DEF T
  <2>1. \A k \in 0 .. m : k \in T
    BY <1>2, <1>3, Induction
  <2> QED BY <2>1
<1>5. Upto(m) = F \cup Keys(b)
  BY <1>1 DEF Keys
<1> QED BY <1>4, <1>5


----
(* Tours of a forest *)

(* A set of edges in both directions that goes on at every vertex but one  *)
(* is empty: the edge of the highest rank in it has a side where the set   *)
(* goes on at every vertex but its own.                                    *)
LEMMA Leaves ==
  ASSUME NEW F \in SUBSET Edge, NEW K, NEW r, Ranked(F, K, r)
  PROVE  \A X \in SUBSET Of(F) : \A x :
           /\ TwinClosed(X)
           /\ \A e \in X : e[2] = x \/ \E f \in X : f[1] = e[2] /\ f # Twin(e)
           => X = {}
<1> DEFINE Goes(X, x) == \A e \in X : e[2] = x \/ \E f \in X : f[1] = e[2] /\ f # Twin(e)
           Below(X, m) == \A e \in X : r[Key(e)] < m
           T == {m \in 0 .. K : \A X \in SUBSET Of(F) : \A x :
                                  TwinClosed(X) /\ Below(X, m) /\ Goes(X, x) => X = {}}
<1>1. /\ K \in Nat /\ \A e \in F : r[e] \in 0 .. K - 1
      /\ \A e, f \in F : r[e] = r[f] => e = f
      /\ \A e \in F : \E C \in SUBSET Vertices :
            e[1] \in C /\ e[2] \notin C /\ Uncut({f \in F : r[f] < r[e]}, C)
  BY DEF Ranked
<1>2. \A e \in Of(F) : /\ Key(e) \in F /\ r[Key(e)] \in 0 .. K - 1
                       /\ e \in Element /\ Twin(e) \in Element /\ Twin(Twin(e)) = e
                       /\ e[1] \in Vertices /\ e[2] \in Vertices
                       /\ Twin(e)[1] = e[2] /\ Twin(e)[2] = e[1]
                       /\ Key(e) = e \/ Key(e) = Twin(e)
                       /\ Key(Twin(e)) = Key(e)
  BY <1>1, Elements DEF Of
<1>3. 0 \in T
  <2>1. ASSUME NEW X \in SUBSET Of(F), Below(X, 0) PROVE X = {}
    <3>1. \A e \in X : r[Key(e)] \in 0 .. K - 1 /\ r[Key(e)] < 0
      BY <2>1, <1>2
    <3> QED BY <3>1, <1>1
  <2>2. 0 \in 0 .. K
    BY <1>1
  <2> QED BY <2>1, <2>2
<1>4. ASSUME NEW m \in 0 .. K - 1, m \in T PROVE m + 1 \in T
  <2>1. ASSUME NEW X \in SUBSET Of(F), NEW x, TwinClosed(X), Below(X, m + 1), Goes(X, x), X # {} PROVE FALSE
    <3>1. m \in Nat /\ \A e \in X : r[Key(e)] < m \/ r[Key(e)] = m
      BY <2>1, <1>1, <1>2
    <3>2. PICK k \in X : r[Key(k)] = m
      <4>1. CASE Below(X, m)
        BY <4>1, <1>4, <2>1
      <4>2. CASE ~Below(X, m)
        BY <4>2, <3>1
      <4> QED BY <4>1, <4>2
    <3>3. PICK C \in SUBSET Vertices :
            Key(k)[1] \in C /\ Key(k)[2] \notin C /\ Uncut({f \in F : r[f] < m}, C)
      <4>1. PICK g \in F : g = Key(k) /\ r[g] = m
        BY <3>2, <1>2
      <4>2. \E C \in SUBSET Vertices : g[1] \in C /\ g[2] \notin C /\ Uncut({f \in F : r[f] < r[g]}, C)
        BY <1>1
      <4> QED BY <4>1, <4>2
    <3>4. \A g \in X : r[Key(g)] < m => (g[1] \in C <=> g[2] \in C)
      <4>1. ASSUME NEW g \in X, r[Key(g)] < m PROVE g[1] \in C <=> g[2] \in C
        <5>1. Key(g)[1] \in C <=> Key(g)[2] \in C
          BY <4>1, <3>3, <1>2 DEF Uncut
        <5> QED BY <5>1, <1>2
      <4> QED BY <4>1
    <3>5. PICK B : B = IF x \notin C THEN C ELSE Vertices \ C
      OBVIOUS
    <3>6. x \notin B /\ \A g \in X : r[Key(g)] < m => (g[1] \in B <=> g[2] \in B)
      BY <3>4, <3>5, <1>2
    <3>7. PICK a \in X : a[2] \in B /\ a[1] \notin B /\ Key(a) = Key(k)
      <4>1. (k[1] \in C <=> k[2] \notin C) /\ Twin(k) \in X /\ Key(Twin(k)) = Key(k)
        BY <3>3, <1>2, <2>1 DEF TwinClosed
      <4>2. (k[1] \in B <=> k[2] \notin B) /\ Twin(k)[1] = k[2] /\ Twin(k)[2] = k[1]
        BY <4>1, <3>5, <1>2
      <4> QED BY <4>1, <4>2
    <3>8. \A g \in X : r[Key(g)] = m => g = a \/ g = Twin(a)
      <4>1. ASSUME NEW g \in X, r[Key(g)] = m PROVE g = a \/ g = Twin(a)
        <5>1. Key(g) = Key(a)
          BY <4>1, <3>2, <3>7, <1>1, <1>2
        <5> QED BY <5>1, <1>2, Elements
      <4> QED BY <4>1
    <3> DEFINE Y == {g \in X : r[Key(g)] < m /\ g[1] \in B}
    <3>9. Y \in SUBSET Of(F) /\ TwinClosed(Y) /\ Below(Y, m)
      BY <2>1, <3>6, <1>2 DEF TwinClosed
    <3>10. ASSUME NEW g \in Y PROVE g[2] = a[2] \/ \E f \in Y : f[1] = g[2] /\ f # Twin(g)
      <4>1. g \in X /\ g[2] \in B /\ g[2] # x
        BY <3>6
      <4>2. PICK f \in X : f[1] = g[2] /\ f # Twin(g)
        BY <4>1, <2>1
      <4>3. CASE r[Key(f)] < m
        BY <4>1, <4>2, <4>3
      <4>4. CASE r[Key(f)] = m
        BY <4>1, <4>2, <4>4, <3>7, <3>8, <1>2
      <4> QED BY <4>3, <4>4, <3>1
    <3>11. Y = {}
      <4> HIDE DEF Y
      <4>1. Goes(Y, a[2])
        BY <3>10
      <4> HIDE DEF Goes, Below
      <4> QED BY <1>4, <3>9, <4>1
    <3>12. PICK f \in X : f[1] = a[2] /\ f # Twin(a)
      BY <3>6, <3>7, <2>1
    <3>13. f \in Y
      BY <3>1, <3>7, <3>8, <3>12
    <3> QED BY <3>11, <3>13
  <2>2. m + 1 \in 0 .. K
    BY <1>1
  <2> QED BY <2>1, <2>2
<1>5. K \in T
  <2> HIDE DEF T
  <2>1. \A m \in 0 .. K : m \in T
    BY <1>1, <1>3, <1>4, Induction
  <2> QED BY <2>1, <1>1
<1>6. \A X \in SUBSET Of(F) : Below(X, K)
  BY <1>1, <1>2
<1> QED BY <1>5, <1>6

(* A one-to-one function that stays within a finite set comes to all of it.*)
LEMMA ComesToAll ==
  ASSUME NEW Q, IsFiniteSet(Q), NEW n, \A e \in Q : n[e] \in Q,
         \A e, f \in Q : n[e] = n[f] => e = f
  PROVE  \A e \in Q : \E f \in Q : n[f] = e
<1> DEFINE h == [e \in Q |-> n[e]]
<1>1. h \in [Q -> Q] /\ \A e \in Q : h[e] = n[e]
  OBVIOUS
<1> HIDE DEF h
<1>2. h \in Injection(Q, Q)
  BY <1>1 DEF Injection, IsInjective
<1>3. h \in Surjection(Q, Q)
  BY <1>2, FS_Injection
<1> QED BY <1>1, <1>3 DEF Surjection

(* There are finitely many elements, and NumVertices vertices.             *)
LEMMA ElementsFinite ==
  IsFiniteSet(Vertices) /\ Cardinality(Vertices) = NumVertices /\ IsFiniteSet(Element)
<1>1. IsFiniteSet(Vertices) /\ Cardinality(Vertices) = NumVertices
  BY SomeVertices, FS_Interval DEF Vertices
<1> QED BY <1>1, FS_Product DEF Element

(* A set of elements that the tours neither enter nor leave has either all *)
(* or nothing of what begins at a vertex, and both directions of an edge   *)
(* or neither.                                                             *)
LEMMA ToursSpread ==
  ASSUME NEW F \in SUBSET Edge, NoCycle(F), NEW S, S = Loops \cup Of(F), NEW s \in Tours(S),
         NoRing(s.next, Of(F)), NEW T, \A e \in S : e \in T <=> s.next[e] \in T
  PROVE  /\ \A e \in S : e \in T <=> Loop(e[1]) \in T
         /\ \A e \in Of(F) : e \in T <=> Twin(e) \in T
<1> DEFINE sigma(f) == s.next[Twin(f)]
<1>1. /\ S \in SUBSET Element /\ Null \notin S
      /\ \A e \in S : /\ e \in Element /\ e[1] \in Vertices /\ e[2] \in Vertices
                      /\ Twin(e) \in S /\ Twin(Twin(e)) = e
                      /\ Twin(e)[1] = e[2] /\ Twin(e)[2] = e[1]
                      /\ Twin(e) = e <=> e \in Loops
      /\ \A v \in Vertices : Loop(v) \in S /\ Loop(v) \in Loops /\ Loop(v)[1] = v
      /\ \A e \in Loops : e = Loop(e[1]) /\ e[1] \in Vertices
      /\ \A e \in Of(F) : e \in S /\ e \notin Loops /\ Twin(e) \in Of(F)
      /\ \A e \in S : e \in Loops \/ e \in Of(F)
  <2>1. S \in SUBSET Element
    BY Elements DEF Of
  <2>2. \A e \in Of(F) : e \notin Loops /\ e \in Element /\ Twin(e) \in Of(F)
    BY Elements DEF Of
  <2>3. \A e \in Loops : Twin(e) = e /\ e \in Element
    BY Elements
  <2>4. \A e \in S : Twin(e) \in S
    BY <2>2, <2>3
  <2> QED BY <2>1, <2>2, <2>3, <2>4, Elements
<1>2. \A e \in S : s.next[e] \in S /\ s.next[e][1] = e[2]
  BY <1>1 DEF Tours, Proper, Whole
<1>3. \A e, f \in S : s.next[e] = s.next[f] => e = f
  BY <1>1, <1>2 DEF Tours, Proper, Whole
<1>4. \A e \in S : sigma(e) \in S /\ sigma(e)[1] = e[1] /\ (sigma(e) \in T <=> Twin(e) \in T)
  BY <1>1, <1>2
<1>5. \A e, f \in S : sigma(e) = sigma(f) => e = f
  BY <1>1, <1>3
<1>6. ASSUME NEW C \in SUBSET Of(F), \A e \in C : sigma(e) \in C PROVE C = {}
  BY <1>6 DEF NoRing
<1> DEFINE Bad == {e \in Of(F) : ~(e \in T <=> Twin(e) \in T)}
<1>7. Bad \in SUBSET Of(F) /\ TwinClosed(Bad)
  BY <1>1 DEF TwinClosed
<1>8. ASSUME NEW e \in Bad, \A f \in Bad : f[1] = e[2] => f = Twin(e) PROVE FALSE
  <2>1. PICK w \in Vertices : w = e[2]
    BY <1>1
  <2>2. PICK t \in Of(F) : t = Twin(e) /\ e = Twin(t) /\ t[1] = w
    BY <1>1, <2>1
  <2>3. PICK L \in S : L = Loop(w) /\ L[1] = w /\ L \notin Of(F) /\ Twin(L) = L
    BY <1>1, <2>1
  <2> DEFINE O == {f \in Of(F) : f[1] = w}
             C == {f \in O : ~(f \in T <=> L \in T)}
  <2>4. \A f \in O \cup {L} : f \in S /\ sigma(f) \in O \cup {L}
    <3>1. \A f \in S : f[1] = w => f \in O \cup {L}
      BY <1>1, <2>3
    <3>2. \A f \in O \cup {L} : f \in S /\ f[1] = w
      BY <1>1, <2>3
    <3> QED BY <3>1, <3>2, <1>4
  <2>5. \A f \in O \cup {L} : f # t => (sigma(f) \in T <=> f \in T)
    <3>1. \A f \in O : f # t => (Twin(f) \in T <=> f \in T)
      BY <1>8, <2>1, <2>2
    <3> QED BY <3>1, <1>4, <2>3, <2>4
  <2>6. t \in O /\ t \in S /\ ~(sigma(t) \in T <=> t \in T)
    BY <1>1, <1>4, <2>2
  <2>7. CASE t \notin C
    <3>1. \A f \in C : sigma(f) \in C
      BY <2>4, <2>5, <2>7
    <3>2. C = {}
      BY <1>6, <3>1
    <3>3. \A f \in O \cup {L} : f \in T <=> L \in T
      BY <3>2
    <3> QED BY <3>3, <2>4, <2>6
  <2>8. CASE t \in C
    <3> DEFINE D == (O \cup {L}) \ C
    <3>1. \A f \in D : f \in T <=> L \in T
      OBVIOUS
    <3>2. \A f \in D : sigma(f) \in D
      BY <2>4, <2>5, <2>8, <3>1
    <3>3. IsFiniteSet(D)
      <4>1. D \in SUBSET Element
        BY <1>1, <2>4
      <4> QED BY <4>1, ElementsFinite, FS_Subset
    <3>4. \A f \in D : \E g \in D : sigma(g) = f
      <4>1. PICK n : n = [f \in D |-> sigma(f)]
        OBVIOUS
      <4>2. \A f \in D : n[f] = sigma(f)
        BY <4>1
      <4>3. \A f \in D : n[f] \in D
        BY <4>2, <3>2
      <4>4. \A f, g \in D : n[f] = n[g] => f = g
        BY <4>2, <2>4, <1>5
      <4>5. \A f \in D : \E g \in D : n[g] = f
        <5> HIDE DEF D
        <5> QED BY <3>3, <4>3, <4>4, ComesToAll
      <4> QED BY <4>2, <4>5
    <3>5. \A f \in C : sigma(f) \in C
      <4>1. ASSUME NEW f \in C, sigma(f) \notin C PROVE FALSE
        <5>1. sigma(f) \in D
          BY <4>1, <2>4
        <5>2. PICK g \in D : sigma(g) = sigma(f)
          BY <5>1, <3>4
        <5>3. g = f
          BY <5>2, <2>4, <1>5
        <5> QED BY <5>3
      <4> QED BY <4>1
    <3>6. C = {}
      BY <1>6, <3>5
    <3> QED BY <3>6, <2>8
  <2> QED BY <2>7, <2>8
<1>9. Bad = {}
  <2>1. PICK K, r : Ranked(F, K, r)
    BY DEF NoCycle
  <2> HIDE DEF Bad
  <2>2. \A e \in Bad : e[2] = Null \/ \E f \in Bad : f[1] = e[2] /\ f # Twin(e)
    BY <1>8
  <2> QED BY <2>1, <2>2, <1>7, Leaves
<1>10. \A e \in Of(F) : e \in T <=> Twin(e) \in T
  BY <1>9
<1>11. \A e \in S : sigma(e) \in T <=> e \in T
  BY <1>1, <1>4, <1>10
<1> DEFINE C == {e \in Of(F) : ~(e \in T <=> Loop(e[1]) \in T)}
<1>12. \A e \in C : sigma(e) \in C
  <2>1. ASSUME NEW e \in C PROVE sigma(e) \in C
    <3>1. e \in S /\ sigma(e) \in S /\ sigma(e)[1] = e[1] /\ (sigma(e) \in T <=> e \in T)
      BY <1>1, <1>4, <1>11
    <3>2. ~(sigma(e) \in T <=> Loop(sigma(e)[1]) \in T)
      BY <3>1
    <3>3. sigma(e) \notin Loops
      BY <3>1, <3>2, <1>1
    <3> QED BY <1>1, <3>1, <3>2, <3>3
  <2> QED BY <2>1
<1>13. C = {}
  BY <1>6, <1>12
<1>14. \A e \in S : e \in T <=> Loop(e[1]) \in T
  BY <1>1, <1>13
<1> QED BY <1>10, <1>14

----
(* Counting *)

(* q has one vertex for each tree of F, and there are as many edges as     *)
(* vertices less trees.                                                    *)
Represents(q, F) ==
  /\ q \in [Vertices -> Vertices]
  /\ \A e \in F : q[e[1]] = q[e[2]]
  /\ \A u, v \in Vertices : q[u] = q[v] => \A C : Uncut(F, C) /\ u \in C => v \in C
  /\ IsFiniteSet(F)
  /\ Cardinality({q[v] : v \in Vertices}) + Cardinality(F) = NumVertices

(* Without edges each vertex represents itself.                            *)
LEMMA NoEdgesRepresented == \E q : Represents(q, {})
<1>1. PICK q : q = [v \in Vertices |-> v]
  OBVIOUS
<1>2. q \in [Vertices -> Vertices] /\ \A v \in Vertices : q[v] = v
  BY <1>1
<1>3. {q[v] : v \in Vertices} = Vertices
  BY <1>2
<1>4. IsFiniteSet({}) /\ Cardinality({}) = 0
  BY FS_EmptySet
<1>5. Represents(q, {})
  BY <1>2, <1>3, <1>4, ElementsFinite, SomeVertices DEF Represents
<1> QED BY <1>5

(* An edge between two trees makes them one.                               *)
LEMMA OneMoreRepresented ==
  ASSUME NEW F \in SUBSET Edge, NEW q, Represents(q, F), NEW e \in Edge,
         NEW C \in SUBSET Vertices, Uncut(F, C), e[1] \in C, e[2] \notin C
  PROVE  \E p : Represents(p, F \cup {e})
<1>1. e[1] \in Vertices /\ e[2] \in Vertices
  BY Elements DEF Edge
<1>2. /\ q \in [Vertices -> Vertices] /\ \A v \in Vertices : q[v] \in Vertices
      /\ \A f \in F : q[f[1]] = q[f[2]]
      /\ \A u, v \in Vertices : q[u] = q[v] => \A B : Uncut(F, B) /\ u \in B => v \in B
      /\ IsFiniteSet(F)
      /\ Cardinality({q[v] : v \in Vertices}) + Cardinality(F) = NumVertices
  BY DEF Represents
<1>3. PICK a \in Vertices : a = q[e[1]]
  BY <1>1, <1>2
<1>4. PICK b \in Vertices : b = q[e[2]]
  BY <1>1, <1>2
<1>5. a # b
  BY <1>1, <1>2, <1>3, <1>4
<1>6. e \notin F
  BY DEF Uncut
<1>7. PICK p : p = [v \in Vertices |-> IF q[v] = b THEN a ELSE q[v]]
  OBVIOUS
<1>8. p \in [Vertices -> Vertices] /\ \A v \in Vertices : p[v] = IF q[v] = b THEN a ELSE q[v]
  BY <1>2, <1>7
<1>9. ASSUME NEW f \in F \cup {e} PROVE p[f[1]] = p[f[2]]
  <2>1. CASE f = e
    BY <2>1, <1>1, <1>3, <1>4, <1>5, <1>8
  <2>2. CASE f \in F
    <3>1. f[1] \in Vertices /\ f[2] \in Vertices
      BY <2>2, Elements DEF Edge
    <3> QED BY <2>2, <3>1, <1>2, <1>8
  <2> QED BY <2>1, <2>2
<1>10. ASSUME NEW u \in Vertices, NEW v \in Vertices, p[u] = p[v],
              NEW B, Uncut(F \cup {e}, B), u \in B
       PROVE  v \in B
  <2>1. Uncut(F, B) /\ (e[1] \in B <=> e[2] \in B)
    BY <1>10 DEF Uncut
  <2>2. \A x, y \in Vertices : q[x] = q[y] => (x \in B <=> y \in B)
    BY <2>1, <1>2
  <2>3. q[u] = q[v] \/ (q[u] \in {a, b} /\ q[v] \in {a, b})
    BY <1>8, <1>10
  <2>4. CASE q[u] = q[v]
    BY <2>2, <2>4, <1>10
  <2>5. CASE q[u] \in {a, b} /\ q[v] \in {a, b}
    <3>1. u \in B <=> e[1] \in B
      BY <2>1, <2>2, <2>5, <1>1, <1>3, <1>4
    <3>2. v \in B <=> e[1] \in B
      BY <2>1, <2>2, <2>5, <1>1, <1>3, <1>4
    <3> QED BY <3>1, <3>2, <1>10
  <2> QED BY <2>3, <2>4, <2>5
<1>11. PICK I : I = {q[v] : v \in Vertices}
  OBVIOUS
<1>12. {p[v] : v \in Vertices} = I \ {b} /\ b \in I
  <2>1. \A x : x \in I <=> \E v \in Vertices : x = q[v]
    BY <1>11
  <2>2. \A x : x \in {p[v] : v \in Vertices} <=> \E v \in Vertices : x = p[v]
    OBVIOUS
  <2>3. ASSUME NEW v \in Vertices PROVE p[v] \in I \ {b}
    BY <2>1, <1>1, <1>3, <1>5, <1>8
  <2>4. ASSUME NEW x \in I \ {b} PROVE \E v \in Vertices : x = p[v]
    BY <2>1, <1>8
  <2> QED BY <2>1, <2>2, <2>3, <2>4, <1>1, <1>4
<1>13. IsFiniteSet(I) /\ Cardinality(I) \in Nat /\ Cardinality(I \ {b}) = Cardinality(I) - 1
  <2>1. I \in SUBSET Vertices
    BY <1>2, <1>11
  <2>2. IsFiniteSet(I)
    BY <2>1, ElementsFinite, FS_Subset
  <2> QED BY <2>2, <1>12, FS_RemoveElement, FS_CardinalityType
<1>14. IsFiniteSet(F \cup {e}) /\ Cardinality(F) \in Nat /\ Cardinality(F \cup {e}) = Cardinality(F) + 1
  BY <1>2, <1>6, FS_AddElement, FS_CardinalityType
<1>15. Cardinality({p[v] : v \in Vertices}) + Cardinality(F \cup {e}) = NumVertices
  <2>1. Cardinality({p[v] : v \in Vertices}) = Cardinality(I) - 1
    BY <1>12, <1>13
  <2>2. Cardinality(I) + Cardinality(F) = NumVertices
    BY <1>2, <1>11
  <2> QED BY <2>1, <2>2, <1>13, <1>14
<1>16. Represents(p, F \cup {e})
  BY <1>8, <1>9, <1>10, <1>14, <1>15 DEF Represents
<1> QED BY <1>16

(* A forest has representatives: add its edges in the order of their       *)
(* ranks.                                                                  *)
LEMMA ForestRepresented ==
  ASSUME NEW F \in SUBSET Edge, NoCycle(F)
  PROVE  \E q : Represents(q, F)
<1>1. PICK K, r : Ranked(F, K, r)
  BY DEF NoCycle
<1>2. /\ K \in Nat /\ \A e \in F : r[e] \in 0 .. K - 1
      /\ \A e, f \in F : r[e] = r[f] => e = f
      /\ \A e \in F : \E C \in SUBSET Vertices :
            e[1] \in C /\ e[2] \notin C /\ Uncut({f \in F : r[f] < r[e]}, C)
  BY <1>1 DEF Ranked
<1> DEFINE Below(m) == {f \in F : r[f] < m}
           T == {m \in 0 .. K : \E q : Represents(q, Below(m))}
<1>3. 0 \in T
  <2>1. Below(0) = {}
    BY <1>2
  <2>2. \E q : Represents(q, Below(0))
    BY <2>1, NoEdgesRepresented
  <2>3. 0 \in 0 .. K
    BY <1>2
  <2> HIDE DEF Below
  <2> QED BY <2>2, <2>3
<1>4. ASSUME NEW m \in 0 .. K - 1, m \in T PROVE m + 1 \in T
  <2>0. Below(m) \in SUBSET Edge
    OBVIOUS
  <2>1. m \in Nat /\ m + 1 \in 0 .. K /\ \A f \in F : r[f] \in Nat /\ (r[f] < m + 1 <=> r[f] < m \/ r[f] = m)
    BY <1>2
  <2>2. PICK G : G = Below(m)
    OBVIOUS
  <2>3. PICK q : Represents(q, G)
    BY <1>4, <2>2
  <2>4. CASE \E e \in F : r[e] = m
    <3>1. PICK e \in F : r[e] = m
      BY <2>4
    <3>2. Below(m + 1) = G \cup {e}
      BY <2>1, <2>2, <3>1, <1>2
    <3>3. PICK C \in SUBSET Vertices : e[1] \in C /\ e[2] \notin C /\ Uncut(G, C)
      <4>1. \E C \in SUBSET Vertices : e[1] \in C /\ e[2] \notin C /\ Uncut({f \in F : r[f] < r[e]}, C)
        BY <1>2
      <4> QED BY <4>1, <2>2, <3>1
    <3>4. \E p : Represents(p, G \cup {e})
      <4>1. G \in SUBSET Edge /\ e \in Edge
        BY <2>0, <2>2
      <4> QED BY <4>1, <2>3, <3>3, OneMoreRepresented
    <3> HIDE DEF Below
    <3>5. \E p : Represents(p, Below(m + 1))
      BY <3>2, <3>4
    <3> QED BY <2>1, <3>5
  <2>5. CASE ~\E e \in F : r[e] = m
    <3>1. Below(m + 1) = G
      BY <2>1, <2>2, <2>5
    <3> HIDE DEF Below
    <3>2. \E p : Represents(p, Below(m + 1))
      BY <2>3, <3>1
    <3> QED BY <2>1, <3>2
  <2> QED BY <2>4, <2>5
<1>5. K \in T
  <2> HIDE DEF T
  <2>1. \A m \in 0 .. K : m \in T
    BY <1>2, <1>3, <1>4, Induction
  <2> QED BY <2>1, <1>2
<1>6. Below(K) = F
  BY <1>2
<1> HIDE DEF Below
<1> QED BY <1>5, <1>6

(* A forest has fewer edges than vertices, and 3 * NumVertices elements    *)
(* are more than its tours have.                                           *)
LEMMA FewElements ==
  ASSUME NEW F \in SUBSET Edge, NoCycle(F), NEW S, S = Loops \cup Of(F)
  PROVE  IsFiniteSet(S) /\ Cardinality(S) <= 3 * NumVertices
<1>1. PICK q : Represents(q, F)
  BY ForestRepresented
<1>2. IsFiniteSet(F) /\ Cardinality(F) \in Nat /\ Cardinality(F) <= NumVertices
  <2>1. PICK I : I = {q[v] : v \in Vertices}
    OBVIOUS
  <2>2. I \in SUBSET Vertices /\ IsFiniteSet(F) /\ Cardinality(I) + Cardinality(F) = NumVertices
    BY <1>1, <2>1 DEF Represents
  <2>3. Cardinality(I) \in Nat /\ Cardinality(F) \in Nat
    BY <2>2, ElementsFinite, FS_Subset, FS_CardinalityType
  <2> QED BY <2>2, <2>3
<1>3. PICK W : W = {Twin(e) : e \in F}
  OBVIOUS
<1>4. \A e \in F : e \in Element /\ e \notin Loops /\ Key(e) = e /\ Twin(e) \in Element /\ Twin(Twin(e)) = e
  <2>1. TAKE e \in F
  <2>2. e \in Element /\ e[1] \in Nat /\ e[2] \in Nat /\ e[1] < e[2]
    <3>1. e \in Element /\ e[1] < e[2] /\ e[1] \in Vertices /\ e[2] \in Vertices
      BY Elements DEF Edge
    <3> QED BY <3>1 DEF Vertices
  <2>3. e[1] # e[2] /\ Key(e) = e
    BY <2>2 DEF Key
  <2> QED BY <2>2, <2>3, Elements
<1>5. IsFiniteSet(W) /\ Cardinality(W) \in Nat /\ Cardinality(W) <= Cardinality(F)
  <2> DEFINE h == [e \in W |-> Twin(e)]
  <2>1. h \in [W -> F] /\ \A e \in W : h[e] = Twin(e)
    BY <1>3, <1>4
  <2> HIDE DEF h
  <2>2. \A e, f \in W : h[e] = h[f] => e = f
    <3>1. \A e \in W : e \in Element
      BY <1>3, <1>4
    <3> QED BY <2>1, <3>1, Elements
  <2>3. h \in Injection(W, F)
    BY <2>1, <2>2 DEF Injection, IsInjective
  <2>4. IsFiniteSet(W) /\ Cardinality(W) <= Cardinality(F)
    BY <2>3, <1>2, FS_Injection
  <2> QED BY <2>4, FS_CardinalityType
<1>6. IsFiniteSet(Loops) /\ Cardinality(Loops) \in Nat /\ Cardinality(Loops) <= NumVertices
  <2> DEFINE h == [e \in Loops |-> e[1]]
  <2>1. h \in [Loops -> Vertices] /\ \A e \in Loops : h[e] = e[1]
    BY Elements
  <2> HIDE DEF h
  <2>2. \A e, f \in Loops : h[e] = h[f] => e = f
    BY <2>1, Elements
  <2>3. h \in Injection(Loops, Vertices)
    BY <2>1, <2>2 DEF Injection, IsInjective
  <2>4. IsFiniteSet(Loops) /\ Cardinality(Loops) <= Cardinality(Vertices)
    BY <2>3, ElementsFinite, FS_Injection
  <2> QED BY <2>4, ElementsFinite, FS_CardinalityType
<1>7. S = Loops \cup (F \cup W)
  <2>1. \A e \in Of(F) : e \in F \/ e \in W
    <3>1. ASSUME NEW e \in Of(F) PROVE e \in F \/ e \in W
      <4>1. e \in Element /\ Key(e) \in F /\ (Key(e) = e \/ Key(e) = Twin(e)) /\ Twin(Twin(e)) = e
        BY Elements DEF Of
      <4> QED BY <4>1, <1>3
    <3> QED BY <3>1
  <2>2. \A e \in F : e \in Of(F) /\ Twin(e) \in Of(F)
    BY <1>4, Elements DEF Of
  <2> QED BY <2>1, <2>2, <1>3
<1>8. IsFiniteSet(F \cup W) /\ Cardinality(F \cup W) \in Nat /\ Cardinality(F \cup W) <= Cardinality(F) + Cardinality(W)
  <2>1. IsFiniteSet(F \cup W) /\ Cardinality(F \cap W) \in Nat
           /\ Cardinality(F \cup W) = Cardinality(F) + Cardinality(W) - Cardinality(F \cap W)
    BY <1>2, <1>5, FS_Union, FS_Intersection, FS_CardinalityType
  <2> QED BY <2>1, <1>2, <1>5, FS_CardinalityType
<1>9. IsFiniteSet(S) /\ Cardinality(S) \in Nat /\ Cardinality(S) <= Cardinality(Loops) + Cardinality(F \cup W)
  <2>1. PICK V : V = F \cup W
    OBVIOUS
  <2>2. IsFiniteSet(V) /\ Cardinality(V) \in Nat
    BY <1>8, <2>1
  <2>3. IsFiniteSet(Loops \cup V) /\ Cardinality(Loops \cap V) \in Nat
           /\ Cardinality(Loops \cup V) = Cardinality(Loops) + Cardinality(V) - Cardinality(Loops \cap V)
    BY <1>6, <2>2, FS_Union, FS_Intersection, FS_CardinalityType
  <2>4. IsFiniteSet(Loops \cup V) /\ Cardinality(Loops \cup V) \in Nat /\ Cardinality(Loops \cup V) <= Cardinality(Loops) + Cardinality(V)
    BY <2>2, <2>3, <1>6, FS_CardinalityType
  <2> QED BY <2>1, <2>4, <1>7
<1> QED BY <1>2, <1>5, <1>6, <1>8, <1>9, SomeVertices

----
(* Tours and trees *)

(* The recursion that computes a tour.                                     *)
LEMMA TourReach ==
  ASSUME next \in [Element -> Ref], NEW u \in Vertices
  PROVE  \E reach : /\ reach[0] = {Loop(u)}
                    /\ \A k \in 1 .. 3 * NumVertices :
                         reach[k] = UNION {IF e = Null THEN {Null} ELSE {e, next[e]} : e \in reach[k - 1]}
                    /\ Tour(u) = reach[3 * NumVertices]
<1> DEFINE reach[k \in 0 .. 3 * NumVertices] ==
        IF k = 0 THEN {Loop(u)}
        ELSE UNION {IF e = Null THEN {Null} ELSE {e, next[e]} : e \in reach[k - 1]}
     Step(U) == UNION {IF e = Null THEN {Null} ELSE {e, next[e]} : e \in U}
<1> HIDE DEF reach
<1>1. PICK m \in Nat \ {0} : m = 3 * NumVertices
  BY SomeVertices
<1>2. PICK R : \A k \in 0 .. m : R[k] = SUBSET Ref
  <2>1. \A k \in 0 .. m : [l \in 0 .. m |-> SUBSET Ref][k] = SUBSET Ref
    OBVIOUS
  <2> QED BY <2>1
<1>3. {Loop(u)} \in R[0]
  BY <1>2, Elements DEF Ref
<1>4. ASSUME NEW k \in 1 .. m, NEW U \in R[k - 1] PROVE U \in SUBSET Ref /\ Step(U) \in R[k]
  <2>1. k - 1 \in 0 .. m /\ k \in 0 .. m
    OBVIOUS
  <2>2. U \in SUBSET Ref
    BY <1>2, <2>1
  <2>3. \A e \in Ref : e # Null => e \in Element /\ next[e] \in Ref
    BY DEF Ref
  <2>4. Step(U) \in SUBSET Ref
    BY <2>2, <2>3 DEF Ref
  <2> QED BY <1>2, <2>1, <2>2, <2>4
<1>5. PICK G : \A k \in 1 .. m, U \in SUBSET Ref : G[<<k, U>>] = Step(U)
  <2> DEFINE H == [kU \in (1 .. m) \X SUBSET Ref |-> Step(kU[2])]
  <2>1. \A k \in 1 .. m, U \in SUBSET Ref : H[<<k, U>>] = Step(U)
    <3>1. TAKE k \in 1 .. m, U \in SUBSET Ref
    <3>2. <<k, U>> \in (1 .. m) \X SUBSET Ref /\ <<k, U>>[2] = U
      OBVIOUS
    <3> HIDE DEF Step
    <3>3. H[<<k, U>>] = Step(<<k, U>>[2])
      BY <3>2, Zenon
    <3> QED BY <3>2, <3>3
  <2> HIDE DEF H, Step
  <2> QED BY <2>1
<1> HIDE DEF Step
<1>6. PICK f : Solution(f, m, {Loop(u)}, R, G)
  <2>1. PICK base : base = {Loop(u)}
    OBVIOUS
  <2>2. base \in R[0] /\ \A k \in 1 .. m : \A U \in R[k - 1] : G[<<k, U>>] \in R[k]
    BY <1>3, <1>4, <1>5, <2>1
  <2>3. \E f : Solution(f, m, base, R, G)
    BY <2>2, Recursion
  <2> QED BY <2>1, <2>3
<1>7. f[0] = {Loop(u)} /\ \A k \in 1 .. m : f[k] = Step(f[k - 1])
  BY <1>4, <1>5, <1>6 DEF Solution
<1>8. f = [k \in 0 .. m |-> IF k = 0 THEN {Loop(u)} ELSE Step(f[k - 1])]
  <2>1. \A k \in 0 .. m : f[k] = IF k = 0 THEN {Loop(u)} ELSE Step(f[k - 1])
    BY <1>7
  <2>2. f = [k \in 0 .. m |-> f[k]]
    BY <1>6 DEF Solution, OnNumbers
  <2> QED BY <2>1, <2>2, Zenon
<1>9. reach = [k \in 0 .. m |-> IF k = 0 THEN {Loop(u)} ELSE Step(reach[k - 1])]
  BY <1>8, <1>1, Zenon DEF reach, Step
<1>10. reach[0] = {Loop(u)} /\ \A k \in 1 .. m : reach[k] = Step(reach[k - 1])
  BY <1>9
<1>11. Tour(u) = reach[3 * NumVertices]
  BY Zenon DEF Tour, reach
<1> QED BY <1>1, <1>10, <1>11 DEF Step

(* A tour is the least set of elements that next does not leave; when      *)
(* the lists are tours, next does not enter it either.                     *)
LEMMA TourIs ==
  ASSUME NEW S \in SUBSET Element, Sequences \in Tours(S), Loops \subseteq S,
         IsFiniteSet(S), Cardinality(S) <= 3 * NumVertices, NEW u \in Vertices
  PROVE  /\ Loop(u) \in Tour(u) /\ Tour(u) \subseteq S
         /\ \A e \in S : e \in Tour(u) <=> next[e] \in Tour(u)
         /\ \A C : Loop(u) \in C /\ (\A e \in C \cap S : next[e] \in C) => Tour(u) \subseteq C
<1>1. /\ next \in [Element -> Ref]
      /\ Null \notin S
      /\ \A e \in S : next[e] \in S
      /\ \A e, f \in S : next[e] = next[f] => e = f
  <2>1. PICK s \in Tours(S) : s.next = next
    BY DEF Sequences
  <2>2. s.next \in [Element -> Ref] /\ Null \notin S
    BY Elements DEF Tours, State
  <2>3. \A e \in S : s.next[e] \in S /\ s.prev[s.next[e]] = e
    BY <2>2 DEF Tours, Proper, Whole
  <2>4. \A e, f \in S : s.next[e] = s.next[f] => e = f
    BY <2>3
  <2> QED BY <2>1, <2>2, <2>3, <2>4
<1>2. PICK m \in Nat : m = 3 * NumVertices
  BY SomeVertices
<1>3. PICK R : /\ R[0] = {Loop(u)}
               /\ \A k \in 1 .. m :
                    R[k] = UNION {IF e = Null THEN {Null} ELSE {e, next[e]} : e \in R[k - 1]}
               /\ Tour(u) = R[m]
  <2>1. \E R : /\ R[0] = {Loop(u)}
               /\ \A k \in 1 .. 3 * NumVertices :
                    R[k] = UNION {IF e = Null THEN {Null} ELSE {e, next[e]} : e \in R[k - 1]}
               /\ Tour(u) = R[3 * NumVertices]
    BY <1>1, TourReach
  <2> QED BY <1>2, <2>1
<1>4. PICK G : G = [e \in S |-> {next[e]}]
  OBVIOUS
<1>5. G \in [S -> SUBSET S] /\ \A e \in S : G[e] = {next[e]}
  BY <1>1, <1>4
<1>6. Loop(u) \in S
  BY Elements
<1> DEFINE A == {k \in 0 .. m : R[k] \subseteq S}
<1>7. \A k \in 0 .. m : k \in A
  <2>1. 0 \in A
    BY <1>3, <1>6
  <2>2. ASSUME NEW k \in 0 .. m - 1, k \in A PROVE k + 1 \in A
    <3>1. PICK l \in 1 .. m : l = k + 1 /\ l - 1 = k
      OBVIOUS
    <3>2. R[l] = UNION {IF e = Null THEN {Null} ELSE {e, next[e]} : e \in R[k]}
      BY <1>3, <3>1
    <3>3. R[l] \subseteq S
      BY <2>2, <3>2, <1>1
    <3> QED BY <3>1, <3>3
  <2> HIDE DEF A
  <2> QED BY <2>1, <2>2, Induction
<1>8. \A k \in 1 .. m : R[k] = R[k - 1] \cup UNION {G[e] : e \in R[k - 1]}
  <2>1. TAKE k \in 1 .. m
  <2>2. R[k - 1] \subseteq S
    <3>1. k - 1 \in 0 .. m
      OBVIOUS
    <3> QED BY <3>1, <1>7
  <2>3. R[k] = UNION {IF e = Null THEN {Null} ELSE {e, next[e]} : e \in R[k - 1]}
    BY <1>3
  <2>4. \A e \in R[k - 1] : G[e] = {next[e]} /\ e # Null
    BY <2>2, <1>1, <1>5
  <2> QED BY <2>3, <2>4
<1>9. PICK T : T = Tour(u)
  OBVIOUS
<1>10. /\ Loop(u) \in T /\ T \subseteq S
       /\ ClosedUnder(T, G, S)
       /\ \A C : Loop(u) \in C /\ ClosedUnder(C, G, S) => T \subseteq C
  <2>1. Cardinality(S) <= m
    BY <1>2
  <2>2. /\ Loop(u) \in R[m] /\ R[m] \subseteq S
        /\ ClosedUnder(R[m], G, S)
        /\ \A C : Loop(u) \in C /\ ClosedUnder(C, G, S) => R[m] \subseteq C
    BY <2>1, <1>3, <1>5, <1>6, <1>8, Growing
  <2> QED BY <2>2, <1>3, <1>9
<1>11. \A C : ClosedUnder(C, G, S) <=> \A e \in C \cap S : next[e] \in C
  BY <1>5 DEF ClosedUnder
<1>12. IsFiniteSet(T)
  BY <1>10, FS_Subset
<1>13. \A e \in T : next[e] \in T /\ e \in S
  BY <1>10, <1>11
<1>14. \A e \in T : \E f \in T : next[f] = e
  <2>1. PICK n : n = next
    OBVIOUS
  <2>2. \A e \in T : n[e] \in T
    BY <2>1, <1>13
  <2>3. \A e, f \in T : n[e] = n[f] => e = f
    BY <2>1, <1>1, <1>13
  <2>4. \A e \in T : \E f \in T : n[f] = e
    BY <2>2, <2>3, <1>12, ComesToAll
  <2> QED BY <2>1, <2>4
<1>15. \A e \in S : e \in T <=> next[e] \in T
  BY <1>1, <1>13, <1>14
<1> QED BY <1>9, <1>10, <1>11, <1>15

(* In a forest, tours without rings of rotations are those of the trees.   *)
LEMMA ToursOfForest ==
  ASSUME forest \in SUBSET Edge, NoCycle(forest), NEW S, S = Loops \cup Of(forest),
         Sequences \in Tours(S), NoRing(next, Of(forest)), NEW u \in Vertices
  PROVE  Tour(u) = {e \in S : e[1] \in Tree(forest, u)}
<1>1. S \in SUBSET Element /\ Loops \subseteq S
  BY Elements DEF Of
<1>2. IsFiniteSet(S) /\ Cardinality(S) <= 3 * NumVertices
  BY FewElements
<1>3. PICK T : T = Tour(u)
  OBVIOUS
<1>4. /\ Loop(u) \in T /\ T \subseteq S
      /\ \A e \in S : e \in T <=> next[e] \in T
      /\ \A C : Loop(u) \in C /\ (\A e \in C \cap S : next[e] \in C) => T \subseteq C
  BY <1>1, <1>2, <1>3, TourIs
<1>5. /\ \A e \in S : e \in T <=> Loop(e[1]) \in T
      /\ \A e \in Of(forest) : e \in T <=> Twin(e) \in T
  <2>1. PICK s \in Tours(S) : s = Sequences /\ s.next = next
    BY DEF Sequences
  <2>2. \A e \in S : e \in T <=> s.next[e] \in T
    BY <1>4, <2>1
  <2>3. NoRing(s.next, Of(forest))
    BY <2>1
  <2> QED BY <2>2, <2>3, ToursSpread
<1>6. PICK t : t = Tree(forest, u)
  OBVIOUS
<1>7. /\ u \in t /\ t \subseteq Vertices
      /\ Uncut(forest, t)
      /\ \A C : u \in C /\ Uncut(forest, C) => t \subseteq C
  BY <1>6, TreeIs
<1>8. \A f \in forest : f \in Of(forest) /\ f \in S /\ f \in Element /\ f[1] \in Vertices /\ f[2] \in Vertices
                        /\ Twin(f) \in S /\ Twin(f)[1] = f[2]
  <2>1. TAKE f \in forest
  <2>2. f \in Element /\ f[1] < f[2] /\ f[1] \in Vertices /\ f[2] \in Vertices
    BY Elements DEF Edge
  <2>3. f[1] # f[2] /\ Key(f) = f
    BY <2>2 DEF Key, Vertices
  <2>4. f \in Of(forest) /\ Twin(f) \in Of(forest)
    BY <2>2, <2>3, Elements DEF Of
  <2> QED BY <2>2, <2>4, Elements
<1>9. t \subseteq {v \in Vertices : Loop(v) \in T}
  <2> DEFINE P == {v \in Vertices : Loop(v) \in T}
  <2>1. \A f \in forest : f[1] \in P <=> f[2] \in P
    BY <1>5, <1>8
  <2>2. Uncut(forest, P)
    BY <2>1 DEF Uncut
  <2>3. u \in P
    BY <1>4
  <2> QED BY <1>7, <2>2, <2>3
<1>10. T \subseteq {e \in S : e[1] \in t}
  <2> DEFINE C == {e \in S : e[1] \in t}
  <2>1. Loop(u) \in C
    BY <1>1, <1>7, Elements
  <2>2. \A e \in S : next[e] \in S /\ next[e][1] = e[2]
    <3>1. Proper(Sequences, S) /\ Whole(Sequences, S)
      BY DEF Tours
    <3> QED BY <3>1 DEF Proper, Whole, Sequences
  <2>3. \A e \in S : e[1] \in t <=> e[2] \in t
    <3>1. \A e \in Of(forest) : e[1] \in t <=> e[2] \in t
      <4>1. TAKE e \in Of(forest)
      <4>2. Key(e) \in forest /\ e \in Element /\ (Key(e) = e \/ Key(e) = Twin(e)) /\ Twin(e)[1] = e[2] /\ Twin(e)[2] = e[1]
        BY Elements DEF Of
      <4>3. Key(e)[1] \in t <=> Key(e)[2] \in t
        BY <4>2, <1>7 DEF Uncut
      <4> QED BY <4>2, <4>3
    <3>2. \A e \in Loops : e[1] = e[2]
      BY Elements
    <3> QED BY <3>1, <3>2
  <2>4. \A e \in C \cap S : next[e] \in C
    BY <2>2, <2>3
  <2> QED BY <1>4, <2>1, <2>4
<1>11. {e \in S : e[1] \in t} \subseteq T
  BY <1>5, <1>9
<1> QED BY <1>3, <1>6, <1>10, <1>11

----
(* The invariant *)

(* Between operations, and until a batch of cuts takes the lists apart,    *)
(* there are no rings.                                                     *)
IdleRings == stage \in {"idle", "cutTargets"} => NoRing(next, live)

(* BatchLink does not touch the arcs there were, and leads to no new arc   *)
(* but from a loop or a new one.                                           *)
LinkRings ==
  stage \in {"linkSplit", "linkJoin"} =>
    LET old == Of(forest) \ NewArcs
    IN NoRing(next, old) /\ \A e \in old : next[e] \notin NewArcs

(* The new arcs of a vertex follow each other in the order of the batch,   *)
(* and the last one leads to what there was.                               *)
LinkOrder ==
  stage = "linkJoin" =>
    \A i \in DOMAIN batch :
      /\ next[Twin(batch[i])] \in {Null, Following(i)}
      /\ LastOfVertex(i) => successors[i] \notin NewArcs

(* While a round of cuts is under way there are pointers n without rings   *)
(* that the lists of what stays will have when all joins are made.         *)
SplitRings ==
  stage = "cutSplit" =>
    \E n : /\ NoRing(n, live \ CutArcs)
           /\ \A e \in live \ CutArcs : next[e] \in {Null, n[e]} \cup CutArcs
           /\ \A j \in Indices(targets, Chosen) : n[Left(targets, j)] = Right(targets, j)

(* The same for what stays, while the joins are made.                      *)
JoinRings ==
  stage = "cutJoin" =>
    \E n : /\ NoRing(n, Staying \ Loops)
           /\ \A e \in Staying \ Loops : next[e] \in {Null, n[e]}
           /\ \A j \in Indices(targets, todo) : n[Left(targets, j)] = Right(targets, j)

(* What makes the lists of each stage come to the tours of a forest.       *)
RInv ==
  /\ NoCycle(forest)
  /\ IdleRings /\ LinkRings /\ LinkOrder /\ SplitRings /\ JoinRings

(* At first there are no edges and no arcs.                                *)
LEMMA InitRInv ==
  ASSUME Init
  PROVE  RInv
<1>1. stage = "idle" /\ live = {} /\ forest = {}
  BY DEF Init
<1>2. NoRing(next, {})
  BY DEF NoRing
<1>3. NoCycle(forest)
  BY <1>1, EmptyNoCycle
<1> QED BY <1>1, <1>2, <1>3 DEF RInv, IdleRings, LinkRings, LinkOrder, SplitRings, JoinRings

(* A step that changes nothing.                                            *)
LEMMA StutterRInv ==
  ASSUME RInv, UNCHANGED vars
  PROVE  RInv'
<1>1. /\ next' = next /\ live' = live /\ stage' = stage /\ batch' = batch /\ todo' = todo
      /\ successors' = successors /\ ignored' = ignored /\ targets' = targets /\ forest' = forest
  BY DEF vars, lists, memory, scratch
<1>2. NewArcs' = NewArcs /\ CutArcs' = CutArcs /\ Chosen' = Chosen /\ Staying' = Staying
  BY <1>1 DEF NewArcs, CutArcs, Chosen, Staying, Doomed
<1>3. \A i : Following(i)' = Following(i) /\ (LastOfVertex(i)' <=> LastOfVertex(i))
  BY <1>1 DEF Following, LastOfVertex
<1>4. NoCycle(forest)' /\ IdleRings'
  BY <1>1 DEF RInv, IdleRings
<1>5. LinkRings' /\ LinkOrder'
  BY <1>1, <1>2, <1>3 DEF RInv, LinkRings, LinkOrder
<1>6. SplitRings' /\ JoinRings'
  BY <1>1, <1>2 DEF RInv, SplitRings, JoinRings
<1> QED BY <1>4, <1>5, <1>6 DEF RInv

(* The elements of edges come in twins.                                    *)
LEMMA TwinsOf ==
  ASSUME NEW F
  PROVE  TwinClosed(Of(F)) /\ TwinClosed(Loops \cup Of(F)) /\ Of(F) \in SUBSET (Element \ Loops)
BY Elements DEF TwinClosed, Of

(* What the sequential operations and the ends of the parallel ones owe.   *)
LEMMA RestRInv ==
  ASSUME Rest, NoCycle(forest'), NoRing(next', live')
  PROVE  RInv'
BY DEF Rest, RInv, IdleRings, LinkRings, LinkOrder, SplitRings, JoinRings

(* A short batch, linked one edge after the other: LinkRun keeps NoRing,   *)
(* and the caller closes no cycle.                                         *)
LEMMA LinkSequentialRInv ==
  ASSUME IInv, RInv, NEW b \in Batches, LinkSequential(b)
  PROVE  RInv'
<1>1. EdgeList(b)
  BY BatchesAreLists
<1>2. TypeOK /\ stage = "idle" /\ NoCycle(forest) /\ NoRing(next, live)
  BY DEF IInv, LinkSequential, RInv, IdleRings
<1>3. live = Of(forest) /\ Sequences \in Tours(Placed)
  BY <1>2 DEF IInv, Idle
<1>4. Keys(b) \cap forest = {}
  BY <1>1, NoOldEdge DEF LinkSequential
<1>5. PICK S, s : S \in SUBSET Element /\ s \in Tours(S) /\ S = Placed /\ s = Sequences /\ s.next = next
  <2>1. Placed \in SUBSET Element
    BY <1>2, Elements DEF TypeOK, Placed
  <2> QED BY <1>3, <2>1 DEF Sequences
<1>6. Loops \subseteq S /\ S \cap Arcs(b) = {} /\ S = Loops \cup Of(forest) /\ S \ Loops = live
  <2>1. Of(forest) \cap Arcs(b) = {} /\ Loops \cap Arcs(b) = {}
    BY <1>1, <1>4, OfKeys, ArcsOfKeys
  <2> QED BY <2>1, <1>3, <1>5, TwinsOf DEF Placed
<1>7. NoRing(LinkAll(s, b).next, (S \cup Arcs(b)) \ Loops)
  <2>1. TwinClosed(S) /\ NoRing(s.next, S \ Loops)
    BY <1>2, <1>5, <1>6, TwinsOf
  <2> QED BY <2>1, <1>1, <1>5, <1>6, LinkAllNoRing
<1>8. next' = LinkAll(s, b).next /\ live' = live \cup Arcs(b) /\ forest' = forest \cup Keys(b) /\ Rest
  BY <1>5 DEF LinkSequential, SetSequences
<1>9. (S \cup Arcs(b)) \ Loops = live'
  BY <1>1, <1>6, <1>8, ArcsOfKeys
<1>10. NoCycle(forest')
  <2>1. forest \in SUBSET Edge
    BY <1>2 DEF TypeOK, Edge
  <2>2. Acyclic(forest, b)
    BY DEF LinkSequential
  <2> QED BY <2>1, <2>2, <1>1, <1>2, <1>8, BatchNoCycle
<1> QED BY <1>7, <1>8, <1>9, <1>10, RestRInv

(* Cuts one by one, of a batch or of the rest of one.                      *)
LEMMA CutNowNoRing ==
  ASSUME TypeOK, NEW b, EdgeList(b), NEW F, live = Of(F), Arcs(b) \subseteq live,
         Sequences \in Tours(Placed), NoRing(next, live), CutNow(b)
  PROVE  NoRing(next', live')
<1>1. PICK S, s : S \in SUBSET Element /\ s \in Tours(S) /\ S = Placed /\ s = Sequences /\ s.next = next
  <2>1. Placed \in SUBSET Element
    BY Elements DEF TypeOK, Placed
  <2> QED BY <2>1 DEF Sequences
<1>2. S \ Loops = live /\ TwinClosed(S) /\ Arcs(b) \subseteq S /\ NoRing(s.next, S \ Loops)
  BY <1>1, TwinsOf DEF Placed
<1>3. NoRing(CutAll(s, b).next, (S \ Arcs(b)) \ Loops)
  BY <1>1, <1>2, CutAllNoRing
<1>4. next' = CutAll(s, b).next /\ live' = live \ Arcs(b)
  BY <1>1 DEF CutNow, SetSequences
<1>5. (S \ Arcs(b)) \ Loops = live'
  BY <1>2, <1>4
<1> QED BY <1>3, <1>4, <1>5

(* A short batch, cut one edge after the other.                            *)
LEMMA CutSequentialRInv ==
  ASSUME IInv, RInv, NEW b \in Batches, CutSequential(b)
  PROVE  RInv'
<1>1. EdgeList(b)
  BY BatchesAreLists
<1>2. TypeOK /\ stage = "idle" /\ NoCycle(forest) /\ NoRing(next, live)
  BY DEF IInv, CutSequential, RInv, IdleRings
<1>3. live = Of(forest) /\ Sequences \in Tours(Placed)
  BY <1>2 DEF IInv, Idle
<1>4. Keys(b) \subseteq forest /\ forest' = forest \ Keys(b) /\ CutNow(b) /\ Rest
  BY DEF CutSequential
<1>5. Arcs(b) \subseteq live
  BY <1>1, <1>3, <1>4, OfKeys
<1>6. NoRing(next', live')
  BY <1>1, <1>2, <1>3, <1>4, <1>5, CutNowNoRing
<1>7. NoCycle(forest')
  <2>1. forest \ Keys(b) \in SUBSET forest
    OBVIOUS
  <2> QED BY <2>1, <1>2, <1>4, FewerNoCycle
<1> QED BY <1>4, <1>6, <1>7, RestRInv

(* The first round of cuts has the lists as they were.                     *)
LEMMA BatchCutRInv ==
  ASSUME IInv, RInv, NEW b \in Batches, BatchCut(b)
  PROVE  RInv'
<1>1. stage = "idle" /\ NoCycle(forest) /\ NoRing(next, live)
  BY DEF BatchCut, RInv, IdleRings
<1>2. stage' = "cutTargets" /\ next' = next /\ live' = live /\ forest' = forest \ Keys(b)
  BY DEF BatchCut, Round, Begin, lists
<1>3. NoCycle(forest')
  <2>1. forest \ Keys(b) \in SUBSET forest
    OBVIOUS
  <2> QED BY <2>1, <1>1, <1>2, FewerNoCycle
<1> QED BY <1>1, <1>2, <1>3 DEF RInv, IdleRings, LinkRings, LinkOrder, SplitRings, JoinRings

(* BatchLink begins: the forest has the new edges, the lists do not yet.   *)
LEMMA BatchLinkRInv ==
  ASSUME IInv, RInv, NEW b \in Batches, BatchLink(b)
  PROVE  RInv'
<1>1. EdgeList(b)
  BY BatchesAreLists
<1>2. TypeOK /\ stage = "idle" /\ NoCycle(forest) /\ NoRing(next, live)
  BY DEF IInv, BatchLink, RInv, IdleRings
<1>3. live = Of(forest) /\ Sequences \in Tours(Placed)
  BY <1>2 DEF IInv, Idle
<1>4. Keys(b) \cap forest = {}
  BY <1>1, NoOldEdge DEF BatchLink
<1>5. PICK q \in Seq(Element \ Loops) : q = BothDirections(b) /\ Enumerates(q, Arcs(b)) /\ Sorted(q)
  BY <1>1, BothDirectionsSorted DEF Enumerations
<1>6. stage' = "linkSplit" /\ batch' = q /\ next' = next /\ forest' = forest \cup Keys(b)
  BY <1>5 DEF BatchLink, Begin, lists
<1>7. NewArcs' = Arcs(b)
  BY <1>5, <1>6 DEF NewArcs, Enumerates
<1>8. Of(forest') = Of(forest) \cup Arcs(b) /\ Of(forest) \cap Arcs(b) = {}
  BY <1>1, <1>4, <1>6, OfKeys
<1>9. Of(forest') \ NewArcs' = live
  BY <1>3, <1>7, <1>8
<1>10. \A e \in live : next[e] \notin Arcs(b)
  <2>1. Placed \cap Arcs(b) = {}
    BY <1>1, <1>3, <1>8, ArcsOfKeys DEF Placed
  <2>2. \A e \in Placed : next[e] \in Placed
    <3>1. Proper(Sequences, Placed) /\ Whole(Sequences, Placed) /\ Sequences.next = next
      BY <1>3 DEF Tours, Sequences
    <3> QED BY <3>1 DEF Proper, Whole
  <2> QED BY <2>1, <2>2 DEF Placed
<1>11. LinkRings'
  BY <1>2, <1>6, <1>7, <1>9, <1>10 DEF LinkRings
<1>12. NoCycle(forest')
  <2>1. forest \in SUBSET Edge
    BY <1>2 DEF TypeOK, Edge
  <2>2. Acyclic(forest, b)
    BY DEF BatchLink
  <2> QED BY <2>1, <2>2, <1>1, <1>2, <1>6, BatchNoCycle
<1> QED BY <1>6, <1>11, <1>12 DEF RInv, IdleRings, LinkOrder, SplitRings, JoinRings

----
(* The parallel links *)

(* Where the joins of an iteration change next.                            *)
LEMMA JoinsNext ==
  ASSUME NEW s \in State, NEW joins \in Seq(Ref \X Ref)
  PROVE  \A e \in Element :
            \/ JoinAll(s, joins).next[e] = s.next[e]
            \/ \E k \in DOMAIN joins : joins[k][1] = e /\ joins[k][2] = JoinAll(s, joins).next[e]
<1>1. PICK m \in Nat : m = Len(joins) /\ DOMAIN joins = 1 .. m
  OBVIOUS
<1>2. PICK f : /\ f[0] = s
               /\ \A k \in 1 .. m : f[k] = Join(f[k - 1], joins[k][1], joins[k][2])
               /\ JoinAll(s, joins) = f[m]
  <2>1. \E f : /\ f[0] = s
               /\ \A k \in 1 .. Len(joins) : f[k] = Join(f[k - 1], joins[k][1], joins[k][2])
               /\ JoinAll(s, joins) = f[Len(joins)]
    BY JoinsInTurn
  <2> QED BY <1>1, <2>1
<1> DEFINE Changed(t) == \A e \in Element : t.next[e] = s.next[e] \/ \E k \in 1 .. m : joins[k][1] = e /\ joins[k][2] = t.next[e]
           T == {k \in 0 .. m : f[k] \in State /\ Changed(f[k])}
<1>3. 0 \in T
  BY <1>2
<1>4. ASSUME NEW k \in 0 .. m - 1, k \in T PROVE k + 1 \in T
  <2>1. PICK l \in 1 .. m : l = k + 1 /\ l - 1 = k
    OBVIOUS
  <2>2. PICK t \in State : t = f[k] /\ Changed(t)
    BY <1>4
  <2>3. PICK x \in Ref, y \in Ref : x = joins[l][1] /\ y = joins[l][2]
    <3>1. joins[l] \in Ref \X Ref
      BY <1>1
    <3> QED BY <3>1
  <2>4. f[l] = Join(t, x, y)
    BY <1>2, <2>1, <2>2, <2>3
  <2>5. CASE x = Null \/ y = Null \/ t.next[x] # Null
    <3>1. f[l] = t
      BY <2>4, <2>5 DEF Join
    <3>2. f[l] \in State /\ Changed(f[l]) /\ l \in 0 .. m
      BY <2>2, <3>1
    <3> QED BY <2>1, <3>2
  <2>6. CASE ~(x = Null \/ y = Null \/ t.next[x] # Null)
    <3>1. x \in Element /\ y \in Element
      BY <2>6 DEF Ref
    <3>2. f[l] = [next |-> [t.next EXCEPT ![x] = y],
                  prev |-> [t.prev EXCEPT ![y] = IF @ = Null THEN x ELSE @]]
      BY <2>4, <2>6 DEF Join
    <3>3. f[l] \in State
      BY <3>1, <3>2 DEF State
    <3>4. \A e \in Element : f[l].next[e] = IF e = x THEN y ELSE t.next[e]
      BY <3>1, <3>2 DEF State
    <3>5. Changed(f[l])
      BY <2>2, <2>3, <3>4
    <3>6. l \in 0 .. m
      OBVIOUS
    <3> QED BY <2>1, <3>3, <3>5, <3>6
  <2> QED BY <2>5, <2>6
<1>5. m \in T
  <2> HIDE DEF T
  <2>1. \A k \in 0 .. m : k \in T
    BY <1>3, <1>4, Induction
  <2> QED BY <2>1
<1> QED BY <1>1, <1>2, <1>5

(* The splitting iterations open lists at loops only.                      *)
LEMMA LinkSplitRInv ==
  ASSUME IInv, RInv, NEW i \in DOMAIN batch, LinkSplit(i)
  PROVE  RInv'
<1>1. /\ TypeOK /\ LinkBatch /\ stage = "linkSplit" /\ NoCycle(forest)
      /\ LinkRings
  BY DEF IInv, LinkSplit, RInv
<1>2. stage' = stage /\ batch' = batch /\ forest' = forest
  BY DEF LinkSplit
<1>3. PICK uv \in Element \ Loops : uv = batch[i] /\ uv \in NewArcs /\ Twin(uv) \in NewArcs
  BY <1>1 DEF TypeOK, LinkBatch, NewArcs
<1>4. PICK old : old = Of(forest) \ NewArcs /\ old \in SUBSET (Element \ Loops)
  BY TwinsOf
<1>5. \A e \in old : next'[e] = next[e]
  <2>1. PICK u \in Loops : u = Loop(uv[1]) /\ u \in Element
    BY Elements
  <2>2. PICK s \in State : s = Sequences /\ s.next = next
    BY <1>1, ListsState DEF TypeOK
  <2>3. PICK t : t = IF LastOfVertex(i) THEN Split(s, u) ELSE s
    OBVIOUS
  <2>4. t.next \in [Element -> Ref] /\ \A e \in old : t.next[e] = next[e]
    <3>1. \A e \in old : e # u
      BY <1>4, <2>1
    <3>2. s.next \in [Element -> Ref] /\ Null \in Ref
      BY DEF State, Ref
    <3>3. CASE t = s
      BY <2>2, <3>2, <3>3
    <3>4. CASE t = Split(s, u) /\ s.next[u] # Null
      <4>1. t.next = [s.next EXCEPT ![u] = Null]
        BY <3>4 DEF Split
      <4> QED BY <4>1, <2>1, <2>2, <3>1, <3>2, <1>4
    <3>5. CASE t = Split(s, u) /\ s.next[u] = Null
      BY <2>2, <3>2, <3>5 DEF Split
    <3> QED BY <2>3, <3>3, <3>4, <3>5
  <2>5. next' = t.next \/ next' = Fresh(t, uv).next
    BY <1>3, <2>1, <2>2, <2>3 DEF LinkSplit, SetSequences
  <2>6. \A e \in old : e # uv /\ e # Twin(uv)
    BY <1>3, <1>4
  <2>7. \A e \in old : Fresh(t, uv).next[e] = t.next[e]
    BY <2>4, <2>6, <1>3, <1>4, Elements DEF Fresh
  <2> QED BY <2>4, <2>5, <2>7
<1>6. TwinClosed(old)
  <2>1. TwinClosed(Of(forest)) /\ \A e \in NewArcs : Twin(e) \in NewArcs
    BY <1>1, TwinsOf DEF LinkBatch
  <2>2. \A e \in Of(forest) : Twin(Twin(e)) = e
    BY Elements DEF Of
  <2> QED BY <1>4, <2>1, <2>2 DEF TwinClosed
<1>7. NoRing(next', old) /\ \A e \in old : next'[e] \notin NewArcs
  BY <1>1, <1>4, <1>5, <1>6, NoRingSame DEF LinkRings
<1>8. NewArcs' = NewArcs
  BY <1>2 DEF NewArcs
<1>9. LinkRings'
  BY <1>1, <1>2, <1>4, <1>7, <1>8 DEF LinkRings
<1> QED BY <1>1, <1>2, <1>9 DEF RInv, IdleRings, LinkOrder, SplitRings, JoinRings

(* When all are done no new arc leads anywhere.                            *)
LEMMA StartLinkJoinRInv ==
  ASSUME IInv, RInv, StartLinkJoin
  PROVE  RInv'
<1>1. /\ TypeOK /\ LinkBatch /\ LinkSplitting /\ stage = "linkSplit" /\ todo = {} /\ NoCycle(forest)
      /\ LinkRings
  BY DEF IInv, StartLinkJoin, RInv
<1>2. /\ stage' = "linkJoin" /\ batch' = batch /\ forest' = forest /\ next' = next /\ successors' = successors
  BY DEF StartLinkJoin, lists, memory, scratch
<1>3. NewArcs' = NewArcs /\ \A i : (LastOfVertex(i)' <=> LastOfVertex(i)) /\ Following(i)' = Following(i)
  BY <1>2 DEF NewArcs, LastOfVertex, Following
<1>4. LinkRings'
  BY <1>1, <1>2, <1>3 DEF LinkRings
<1>5. ASSUME NEW i \in DOMAIN batch
      PROVE  next[Twin(batch[i])] = Null /\ (LastOfVertex(i) => successors[i] \notin NewArcs)
  <2>1. batch[i] \in NewArcs /\ Twin(batch[i]) \in NewArcs
    BY <1>1 DEF LinkBatch, NewArcs
  <2>2. NewArcs \subseteq Placed
    BY <1>1 DEF LinkBatch, LinkSplitting, Placed
  <2>3. Ran(i)
    BY <1>1 DEF Ran
  <2> QED BY <1>1, <2>1, <2>2, <2>3 DEF LinkSplitting
<1>6. LinkOrder'
  BY <1>2, <1>3, <1>5 DEF LinkOrder
<1> QED BY <1>1, <1>2, <1>4, <1>6 DEF RInv, IdleRings, SplitRings, JoinRings

(* A joining iteration makes its arc lead to the one that follows at its   *)
(* vertex, or to what was after the loop.                                  *)
LEMMA LinkJoinRInv ==
  ASSUME IInv, RInv, NEW i \in DOMAIN batch, LinkJoin(i)
  PROVE  RInv'
<1>1. /\ TypeOK /\ LinkBatch /\ stage = "linkJoin" /\ NoCycle(forest)
      /\ LinkRings /\ LinkOrder
  BY DEF IInv, LinkJoin, RInv
<1>2. PICK T : T = LinkTargets
  OBVIOUS
<1>3. T[i] = LinkJoins(i) /\ T[i] \in Seq(Ref \X Ref)
  <2>1. T[i] = LinkJoins(i)
    BY <1>2 DEF LinkTargets
  <2> QED BY <1>1, <1>2, <2>1, LinkTargetsAre
<1>4. PICK s \in State : s = Sequences /\ s.next = next
  BY <1>1, ListsState DEF TypeOK
<1>5. /\ next' = JoinAll(s, T[i]).next /\ stage' = stage /\ batch' = batch /\ successors' = successors
      /\ forest' = forest
  BY <1>3, <1>4 DEF LinkJoin, SetSequences, memory, scratch
<1>6. ASSUME NEW e \in Element \ Loops
      PROVE  next'[e] = next[e] \/ (e = Twin(batch[i]) /\ next'[e] = Following(i))
  <2>1. \/ next'[e] = next[e]
        \/ \E k \in DOMAIN T[i] : Left(T, <<i, k>>) = e /\ Right(T, <<i, k>>) = next'[e]
    BY <1>3, <1>4, <1>5, JoinsNext DEF Left, Right
  <2>2. Loop(batch[i][1]) \in Loops
    BY <1>1, Elements DEF TypeOK
  <2>3. CASE FirstOfVertex(i)
    <3>1. /\ DOMAIN T[i] = {1, 2}
          /\ Left(T, <<i, 1>>) = Loop(batch[i][1]) /\ Right(T, <<i, 1>>) = batch[i]
          /\ Left(T, <<i, 2>>) = Twin(batch[i]) /\ Right(T, <<i, 2>>) = Following(i)
      BY <2>3, <1>1, <1>2, LinkTargetsAre
    <3> QED BY <3>1, <2>1, <2>2
  <2>4. CASE ~FirstOfVertex(i)
    <3>1. /\ DOMAIN T[i] = {1}
          /\ Left(T, <<i, 1>>) = Twin(batch[i]) /\ Right(T, <<i, 1>>) = Following(i)
      BY <2>4, <1>1, <1>2, LinkTargetsAre
    <3> QED BY <3>1, <2>1
  <2> QED BY <2>3, <2>4
<1>7. NewArcs' = NewArcs /\ \A k : (LastOfVertex(k)' <=> LastOfVertex(k)) /\ Following(k)' = Following(k)
  BY <1>5 DEF NewArcs, LastOfVertex, Following
<1>8. PICK old : old = Of(forest) \ NewArcs /\ old \in SUBSET (Element \ Loops)
  BY TwinsOf
<1>9. Twin(batch[i]) \in NewArcs
  BY <1>1 DEF LinkBatch, NewArcs
<1>10. \A e \in old : next'[e] = next[e]
  BY <1>6, <1>8, <1>9
<1>11. TwinClosed(old)
  <2>1. TwinClosed(Of(forest)) /\ \A e \in NewArcs : Twin(e) \in NewArcs
    BY <1>1, TwinsOf DEF LinkBatch
  <2>2. \A e \in Of(forest) : Twin(Twin(e)) = e
    BY Elements DEF Of
  <2> QED BY <1>8, <2>1, <2>2 DEF TwinClosed
<1>12. NoRing(next', old) /\ \A e \in old : next'[e] \notin NewArcs
  BY <1>1, <1>8, <1>10, <1>11, NoRingSame DEF LinkRings
<1>13. LinkRings'
  BY <1>1, <1>5, <1>7, <1>8, <1>12 DEF LinkRings
<1>14. ASSUME NEW k \in DOMAIN batch PROVE next'[Twin(batch[k])] \in {Null, Following(k)}
  <2>1. batch[k] \in Element \ Loops /\ batch[i] \in Element \ Loops /\ Twin(batch[k]) \in Element \ Loops
    BY <1>1, Elements DEF TypeOK
  <2>2. next[Twin(batch[k])] \in {Null, Following(k)}
    BY <1>1 DEF LinkOrder
  <2>3. Twin(batch[k]) = Twin(batch[i]) => k = i
    <3>1. \A a, c \in DOMAIN batch : a # c => batch[a] # batch[c]
      BY <1>1 DEF LinkBatch, Enumerations, Enumerates
    <3> QED BY <2>1, <3>1, Elements
  <2> QED BY <2>1, <2>2, <2>3, <1>6
<1>15. LinkOrder'
  BY <1>1, <1>5, <1>7, <1>14 DEF LinkOrder
<1> QED BY <1>1, <1>5, <1>13, <1>15 DEF RInv, IdleRings, SplitRings, JoinRings

(* The new arcs of a vertex lead, one after the other, out of the batch.   *)
LEMMA EndLinkRInv ==
  ASSUME IInv, RInv, EndLink
  PROVE  RInv'
<1>1. /\ TypeOK /\ LinkBatch /\ LinkJoining /\ stage = "linkJoin" /\ todo = {} /\ Rest /\ NoCycle(forest)
      /\ LinkRings /\ LinkOrder
  BY DEF IInv, EndLink, RInv
<1>2. next' = next /\ live' = live /\ forest' = forest
  BY DEF EndLink, lists, memory
<1>3. live = Of(forest) /\ \A e \in live : next[e] # Null
  <2>1. live = Of(forest) /\ Fits(Sequences, Placed, LinkTargets, Indices(LinkTargets, todo))
    BY <1>1 DEF LinkJoining
  <2>2. PICK s, S, T, D : s = Sequences /\ S = Placed /\ T = LinkTargets /\ D = todo
    OBVIOUS
  <2>3. Whole(s, S)
    BY <1>1, <2>1, <2>2, NoneOpen
  <2> QED BY <2>1, <2>2, <2>3, <1>1, ListsState DEF Whole, Placed, TypeOK
<1>4. SUFFICES ASSUME NEW C \in SUBSET Of(forest), \A e \in C : next[Twin(e)] \in C
               PROVE  C = {}
  <2>1. NoRing(next, Of(forest))
    BY <1>4 DEF NoRing
  <2> QED BY <2>1, <1>1, <1>2, <1>3, RestRInv
<1>5. PICK old : old = Of(forest) \ NewArcs /\ NoRing(next, old) /\ \A e \in old : next[e] \notin NewArcs
  BY <1>1 DEF LinkRings
<1>6. /\ TwinClosed(old)
      /\ \A e \in Of(forest) : Twin(e) \in Of(forest)
  <2>1. TwinClosed(Of(forest)) /\ \A e \in NewArcs : Twin(e) \in NewArcs
    BY <1>1, TwinsOf DEF LinkBatch
  <2>2. \A e \in Of(forest) : Twin(Twin(e)) = e
    BY Elements DEF Of
  <2> QED BY <1>5, <2>1, <2>2 DEF TwinClosed
<1>7. C \cap old = {}
  <2>1. \A e \in C \cap old : next[Twin(e)] \in C \cap old
    BY <1>4, <1>5, <1>6 DEF TwinClosed
  <2> QED BY <2>1, <1>5 DEF NoRing
<1>8. C \subseteq NewArcs
  BY <1>4, <1>5, <1>7
<1>9. PICK m \in Nat : m = Len(batch) /\ DOMAIN batch = 1 .. m
  BY <1>1 DEF TypeOK
<1>10. SUFFICES ASSUME NEW c \in C PROVE FALSE
  OBVIOUS
<1> DEFINE I == {k \in 0 .. m - 1 : batch[m - k] \in C}
<1>11. I # {} /\ I \subseteq Nat
  <2>1. PICK i \in 1 .. m : batch[i] = c
    BY <1>8, <1>9 DEF NewArcs
  <2>2. m - i \in 0 .. m - 1 /\ m - (m - i) = i
    OBVIOUS
  <2>3. m - i \in I
    BY <2>1, <2>2
  <2>4. I \subseteq Nat
    OBVIOUS
  <2> QED BY <2>3, <2>4
<1>12. PICK k \in I : \A l \in I : k <= l
  <2> HIDE DEF I
  <2> QED BY <1>11, LeastNumber
<1>13. PICK i \in 1 .. m : i = m - k /\ batch[i] \in C
  BY <1>12
<1>14. next[Twin(batch[i])] \in C /\ next[Twin(batch[i])] # Null
  BY <1>3, <1>4, <1>6, <1>13
<1>15. next[Twin(batch[i])] = Following(i) /\ (LastOfVertex(i) => successors[i] \notin NewArcs)
  BY <1>1, <1>9, <1>14 DEF LinkOrder
<1>16. ~LastOfVertex(i)
  BY <1>8, <1>14, <1>15 DEF Following
<1>17. i # m /\ batch[i + 1] \in C
  BY <1>9, <1>14, <1>15, <1>16 DEF Following, LastOfVertex
<1>18. k - 1 \in I
  BY <1>13, <1>17
<1> QED BY <1>12, <1>18

----
(* The parallel cuts *)

(* The two pairs of targets of an edge, as one list.                       *)
TargetsOf(a, c) == Target(a) \o Target(c)

(* A target of BatchCutRecurse is the end of the walk past the marked      *)
(* elements that follow the one it is the target of.                       *)
LEMMA TargetsAre ==
  ASSUME NEW S, NEW M, Marked(S, M), NEW a \in M, NEW c \in M,
         NEW q, q = TargetsOf(a, c)
  PROVE  \A k \in DOMAIN q : \E x \in Ends(M) : q[k] = <<prev[x], RightTarget(After(x))>>
<1>1. ASSUME NEW x \in M
      PROVE  Target(x) = IF x \in Ends(M) THEN << <<prev[x], RightTarget(After(x))>> >> ELSE <<>>
  <2>1. prev[x] \in mark <=> prev[x] \in M
    <3>1. x \in S /\ prev[x] \in S
      BY AfterFacts
    <3>2. M = mark \cap S
      BY DEF Marked
    <3> QED BY <3>1, <3>2
  <2> QED BY <2>1 DEF Target, Ends, After
<1>2. PICK p, r : p = <<prev[a], RightTarget(After(a))>> /\ r = <<prev[c], RightTarget(After(c))>>
  OBVIOUS
<1>3. q = (IF a \in Ends(M) THEN <<p>> ELSE <<>>) \o (IF c \in Ends(M) THEN <<r>> ELSE <<>>)
  BY <1>1, <1>2 DEF TargetsOf
<1>4. CASE a \in Ends(M) /\ c \in Ends(M)
  <2>1. q = <<p>> \o <<r>>
    BY <1>3, <1>4
  <2>2. q = <<p, r>>
    BY <2>1, OneAndOne
  <2> QED BY <2>2, <1>2, <1>4
<1>5. CASE a \in Ends(M) /\ c \notin Ends(M)
  <2>1. q = <<p>>
    BY <1>3, <1>5
  <2> QED BY <2>1, <1>2, <1>5
<1>6. CASE a \notin Ends(M) /\ c \in Ends(M)
  <2>1. q = <<r>>
    BY <1>3, <1>6
  <2> QED BY <2>1, <1>2, <1>6
<1>7. CASE a \notin Ends(M) /\ c \notin Ends(M)
  <2>1. q = <<>>
    BY <1>3, <1>7
  <2> QED BY <2>1
<1> QED BY <1>4, <1>5, <1>6, <1>7

(* Past the marked elements, the rotations of the others have no ring: one *)
(* would have been a ring before, with the elements that RightTarget       *)
(* passes put back.                                                        *)
LEMMA PastMarked ==
  ASSUME NEW S, NEW M, Marked(S, M), TwinClosed(S), NoRing(next, S \ Loops), M \cap Loops = {},
         NEW n, \A e \in S \ M : n[e] = IF next[e] \in M THEN RightTarget(After(next[e])) ELSE next[e]
  PROVE  NoRing(n, (S \ M) \ Loops)
<1>1. /\ M \subseteq S /\ S \in SUBSET Element
      /\ \A a \in M : Twin(a) \in M
      /\ \A f \in S : next[f] \in S /\ prev[next[f]] = f
  <2>1. PICK s \in Tours(S) : s = Sequences /\ s.next = next /\ s.prev = prev
    BY DEF Sequences, Marked
  <2>2. \A f \in S : s.next[f] \in S /\ s.prev[s.next[f]] = f
    <3>1. Null \notin S
      BY Elements DEF Marked
    <3> QED BY <3>1 DEF Tours, Proper, Whole
  <2> QED BY <2>1, <2>2 DEF Marked
<1>2. SUFFICES ASSUME NEW C \in SUBSET ((S \ M) \ Loops), \A e \in C : n[Twin(e)] \in C
               PROVE  C = {}
  BY DEF NoRing
<1> DEFINE Back(x) == \E a \in Ends(M) : \E w : /\ WalkFrom(w, a) /\ w[Cardinality(mark)] \in C
                                                 /\ x \in Passed(w, a, M)
           D == C \cup {x \in M : Back(x)}
<1>3. ASSUME NEW e \in C PROVE next[Twin(e)] \in D
  <2>1. Twin(e) \in S \ M
    <3>1. Twin(Twin(e)) = e
      BY <1>1, Elements
    <3> QED BY <3>1, <1>1 DEF TwinClosed
  <2>2. PICK a \in S : a = next[Twin(e)] /\ prev[a] = Twin(e)
    BY <2>1, <1>1
  <2>3. n[Twin(e)] \in C /\ n[Twin(e)] = IF a \in M THEN RightTarget(After(a)) ELSE a
    BY <1>2, <2>1, <2>2
  <2>4. CASE a \notin M
    BY <2>2, <2>3, <2>4
  <2>5. CASE a \in M
    <3>1. a \in Ends(M)
      BY <2>1, <2>2, <2>5 DEF Ends
    <3>2. PICK w : WalkFrom(w, a) /\ RightTarget(After(a)) = w[Cardinality(mark)]
      BY <2>5, RightTargetWalk
    <3>3. a \in Passed(w, a, M)
      BY DEF Passed
    <3>4. Back(a)
      BY <2>3, <2>5, <3>1, <3>2, <3>3
    <3> QED BY <2>2, <2>5, <3>4
  <2> QED BY <2>4, <2>5
<1>4. ASSUME NEW x \in M, Back(x) PROVE next[Twin(x)] \in D
  <2>1. PICK a, w : /\ a \in Ends(M) /\ WalkFrom(w, a) /\ w[Cardinality(mark)] \in C
                    /\ x \in Passed(w, a, M)
    BY <1>4
  <2>2. a \in M /\ prev[a] \notin M
    BY <2>1 DEF Ends
  <2>3. /\ Passed(w, a, M) \subseteq M
        /\ After(x) \in Passed(w, a, M) \/ After(x) = w[Cardinality(mark)]
    BY <2>1, <2>2, PassedFacts
  <2>4. CASE After(x) \in Passed(w, a, M)
    <3>1. Back(After(x)) /\ After(x) \in M
      BY <2>1, <2>3, <2>4
    <3> QED BY <3>1 DEF After
  <2>5. CASE After(x) = w[Cardinality(mark)]
    BY <2>1, <2>5 DEF After
  <2> QED BY <2>3, <2>4, <2>5
<1>5. D \in SUBSET (S \ Loops) /\ \A e \in D : next[Twin(e)] \in D
  <2>1. D \in SUBSET (S \ Loops)
    BY <1>1
  <2> QED BY <2>1, <1>3, <1>4
<1>6. D = {}
  <2> HIDE DEF D
  <2> QED BY <1>5 DEF NoRing
<1> QED BY <1>6

(* The walks of RightTarget take cut arcs out of the rotations, which      *)
(* makes no ring: the lists to come are those of the walks.                *)
LEMMA CutTargetsRInv ==
  ASSUME IInv, RInv, CutTargets
  PROVE  RInv'
<1>1. TypeOK /\ CutBatch /\ CutStarting /\ stage = "cutTargets" /\ NoCycle(forest) /\ NoRing(next, live)
  BY DEF IInv, CutTargets, RInv, IdleRings
<1>2. /\ EdgeList(batch)
      /\ live = Of(forest) \cup Arcs(batch) /\ mark \cap live = CutArcs
      /\ Sequences \in Tours(Placed)
  BY <1>1 DEF CutBatch, CutStarting
<1>3. PICK T : T = [i \in DOMAIN batch |->
                      IF i \in ignored THEN <<>> ELSE Target(batch[i]) \o Target(Twin(batch[i]))]
  OBVIOUS
<1>4. /\ targets' = T /\ stage' = "cutSplit" /\ next' = next /\ live' = live
      /\ batch' = batch /\ ignored' = ignored /\ forest' = forest
  BY <1>3 DEF CutTargets, lists, memory
<1>5. ignored \subseteq DOMAIN batch /\ Chosen \subseteq DOMAIN batch
  BY <1>1 DEF TypeOK, Chosen
<1>6. PICK S, M : S = Placed /\ M = CutArcs
  OBVIOUS
<1>7. Marked(S, M) /\ M \cap Loops = {} /\ S \ Loops = live
  <2>1. S \in SUBSET Element /\ mark \in SUBSET Element /\ mark \cap Loops = {} /\ S \ Loops = live
    BY <1>1, <1>6, Elements DEF TypeOK, Placed
  <2>2. M = mark \cap S
    BY <1>2, <1>6, <2>1 DEF Placed
  <2>3. \A a \in M : Twin(a) \in M
    BY <1>2, <1>5, <1>6, CutArcsAre
  <2> QED BY <1>2, <1>6, <2>1, <2>2, <2>3 DEF Marked
<1>8. \A i \in Chosen : batch[i] \in M /\ Twin(batch[i]) \in M
  BY <1>2, <1>5, <1>6, CutArcsAre
<1>9. \A i \in Chosen : T[i] = Target(batch[i]) \o Target(Twin(batch[i]))
  BY <1>3 DEF Chosen
<1>10. PICK n : \A e \in S : n[e] = IF next[e] \in M THEN RightTarget(After(next[e])) ELSE next[e]
  <2> DEFINE h == [e \in S |-> IF next[e] \in M THEN RightTarget(After(next[e])) ELSE next[e]]
  <2>1. \A e \in S : h[e] = IF next[e] \in M THEN RightTarget(After(next[e])) ELSE next[e]
    OBVIOUS
  <2> HIDE DEF h
  <2> QED BY <2>1
<1>11. NoRing(n, (S \ M) \ Loops)
  <2>1. TwinClosed(S)
    <3>1. \A e \in Arcs(batch) : Twin(e) \in Arcs(batch)
      <4>1. Arcs(batch) = {e \in Element : Key(e) \in Keys(batch)}
        BY <1>2, ArcsOfKeys
      <4> QED BY <4>1, Elements
    <3>2. TwinClosed(Loops \cup Of(forest))
      BY TwinsOf
    <3> QED BY <3>1, <3>2, <1>2, <1>6 DEF TwinClosed, Placed
  <2> QED BY <2>1, <1>1, <1>7, <1>10, PastMarked
<1>12. ASSUME NEW j \in Indices(T, Chosen) PROVE n[Left(T, j)] = Right(T, j)
  <2>1. PICK i, k : i \in Chosen /\ k \in DOMAIN T[i] /\ j = <<i, k>>
    BY DEF Indices
  <2>2. PICK q : q = T[i]
    OBVIOUS
  <2>3. PICK a \in M, c \in M : q = TargetsOf(a, c)
    BY <1>8, <1>9, <2>1, <2>2 DEF TargetsOf
  <2>4. PICK x \in Ends(M) : q[k] = <<prev[x], RightTarget(After(x))>>
    <3>1. k \in DOMAIN q
      BY <2>1, <2>2
    <3>2. Marked(S, M)
      BY <1>7
    <3>3. \A l \in DOMAIN q : \E x \in Ends(M) : q[l] = <<prev[x], RightTarget(After(x))>>
      BY <3>2, <2>3, TargetsAre
    <3> QED BY <3>1, <3>3
  <2>5. x \in M /\ x \in S /\ prev[x] \in S /\ next[prev[x]] = x
    <3>1. PICK s \in Tours(S) : s = Sequences /\ s.next = next /\ s.prev = prev
      BY <1>7 DEF Sequences, Marked
    <3>2. \A f \in S : s.prev[f] \in S /\ s.next[s.prev[f]] = f
      <4>1. Null \notin S
        BY <1>7, Elements DEF Marked
      <4> QED BY <4>1 DEF Tours, Proper, Whole
    <3>3. x \in M /\ x \in S
      BY <1>7 DEF Ends, Marked
    <3> QED BY <3>1, <3>2, <3>3
  <2>6. Left(T, j) = prev[x] /\ Right(T, j) = RightTarget(After(x))
    BY <2>1, <2>2, <2>4 DEF Left, Right
  <2> QED BY <1>10, <2>5, <2>6
<1>13. CutArcs' = M /\ Chosen' = Chosen
  BY <1>4, <1>6 DEF CutArcs, Chosen
<1>14. \A e \in live \ M : next[e] \in {Null, n[e]} \cup M
  <2>1. live \subseteq S
    BY <1>6 DEF Placed
  <2> QED BY <2>1, <1>10
<1>15. live \ M = (S \ M) \ Loops
  BY <1>7
<1>16. /\ NoRing(n, live' \ CutArcs')
       /\ \A e \in live' \ CutArcs' : next'[e] \in {Null, n[e]} \cup CutArcs'
       /\ \A j \in Indices(targets', Chosen') : n[Left(targets', j)] = Right(targets', j)
  BY <1>4, <1>11, <1>12, <1>13, <1>14, <1>15
<1>17. SplitRings'
  BY <1>16 DEF SplitRings
<1> QED BY <1>1, <1>4, <1>17 DEF RInv, IdleRings, LinkRings, LinkOrder, JoinRings

(* The loop that splits only opens the lists.                              *)
LEMMA SplittingRInv ==
  ASSUME RInv, stage = "cutSplit", stage' = stage, batch' = batch, ignored' = ignored,
         targets' = targets, live' = live, forest' = forest,
         \A e \in live : next'[e] \in {Null, next[e]}
  PROVE  RInv'
<1>1. NoCycle(forest) /\ SplitRings
  BY DEF RInv
<1>2. PICK n : /\ NoRing(n, live \ CutArcs)
               /\ \A e \in live \ CutArcs : next[e] \in {Null, n[e]} \cup CutArcs
               /\ \A j \in Indices(targets, Chosen) : n[Left(targets, j)] = Right(targets, j)
  BY <1>1 DEF SplitRings
<1>3. CutArcs' = CutArcs /\ Chosen' = Chosen
  BY DEF CutArcs, Chosen
<1>4. /\ NoRing(n, live' \ CutArcs')
      /\ \A e \in live' \ CutArcs' : next'[e] \in {Null, n[e]} \cup CutArcs'
      /\ \A j \in Indices(targets', Chosen') : n[Left(targets', j)] = Right(targets', j)
  BY <1>2, <1>3
<1>5. SplitRings'
  BY <1>4 DEF SplitRings
<1> QED BY <1>1, <1>5 DEF RInv, IdleRings, LinkRings, LinkOrder, JoinRings

(* The iterations that take the lists apart set pointers to null only.     *)
LEMMA SplitStepRInv ==
  ASSUME IInv, RInv, NEW i \in DOMAIN batch,
         \/ SplitEdge(i) \/ SplitTwin(i) \/ ReadEdgePrevious(i) \/ SplitEdgePrevious(i)
         \/ ReadTwinPrevious(i) \/ SplitTwinPrevious(i) \/ ClearPrev(i) \/ EndIteration(i)
  PROVE  RInv'
<1>1. next \in [Element -> Ref] /\ live \subseteq Element
  BY DEF IInv, TypeOK
<1>2. CASE \E x, to : At(i, cutter[i].pc) /\ CutNext(i, x, to)
  <2>1. PICK x, to : At(i, cutter[i].pc) /\ CutNext(i, x, to)
    BY <1>2
  <2>2. /\ stage = "cutSplit" /\ stage' = stage /\ batch' = batch /\ ignored' = ignored
        /\ targets' = targets /\ live' = live /\ forest' = forest
    BY <2>1 DEF CutNext, At, memory, scratch
  <2>3. next' = next \/ next' = [next EXCEPT ![x] = Null]
    BY <2>1 DEF CutNext
  <2>4. \A e \in live : next'[e] \in {Null, next[e]}
    BY <2>3, <1>1
  <2> QED BY <2>2, <2>4, SplittingRInv
<1>3. CASE \/ ReadEdgePrevious(i) \/ ReadTwinPrevious(i) \/ ClearPrev(i) \/ EndIteration(i)
  <2>1. /\ stage = "cutSplit" /\ stage' = stage /\ batch' = batch /\ ignored' = ignored
        /\ targets' = targets /\ live' = live /\ forest' = forest /\ next' = next
    BY <1>3 DEF ReadEdgePrevious, ReadTwinPrevious, ReadPrevious, ClearPrev, EndIteration, At, lists, memory, scratch
  <2>2. \A e \in live : next'[e] \in {Null, next[e]}
    BY <2>1
  <2> QED BY <2>1, <2>2, SplittingRInv
<1>4. CASE SplitEdge(i) \/ SplitTwin(i) \/ SplitEdgePrevious(i) \/ SplitTwinPrevious(i)
  BY <1>2, <1>4 DEF SplitEdge, SplitTwin, SplitEdgePrevious, SplitTwinPrevious, At
<1> QED BY <1>3, <1>4

(* When all are done what stays leads to what stays.                       *)
LEMMA StartCutJoinRInv ==
  ASSUME IInv, IInv', RInv, StartCutJoin
  PROVE  RInv'
<1>1. TypeOK /\ CutBatch /\ CutSplitting /\ stage = "cutSplit" /\ NoCycle(forest) /\ SplitRings
  BY DEF IInv, RInv, StartCutJoin
<1>2. /\ next' = next /\ live' = live /\ stage' = "cutJoin" /\ batch' = batch /\ todo' = Chosen
      /\ targets' = targets /\ forest' = forest
  BY DEF StartCutJoin, lists, memory, scratch
<1>3. PICK n : /\ NoRing(n, live \ CutArcs)
               /\ \A e \in live \ CutArcs : next[e] \in {Null, n[e]} \cup CutArcs
               /\ \A j \in Indices(targets, Chosen) : n[Left(targets, j)] = Right(targets, j)
  BY <1>1 DEF SplitRings
<1>4. /\ \A i \in Chosen : batch[i] \in CutArcs /\ Twin(batch[i]) \in CutArcs
      /\ \A e \in CutArcs : \E i \in Chosen : e = batch[i] \/ e = Twin(batch[i])
      /\ CutArcs \subseteq Element \ Loops
  <2>1. EdgeList(batch) /\ ignored \subseteq DOMAIN batch
    BY <1>1 DEF CutBatch, TypeOK
  <2> QED BY <2>1, CutArcsAre
<1>5. Doomed' = CutArcs
  BY <1>2, <1>4 DEF Doomed
<1>6. PICK R : R = Staying' /\ R = (Loops \cup live) \ CutArcs
  BY <1>2, <1>5 DEF Staying
<1>7. R \ Loops = live \ CutArcs
  <2>1. live \cap Loops = {}
    BY <1>1 DEF TypeOK
  <2> QED BY <2>1, <1>6
<1>8. \A e \in R : next[e] \in R \cup {Null}
  <2>1. Proper(Sequences, Staying)'
    BY <1>2 DEF IInv, CutJoining
  <2>2. Proper(Sequences', R)
    BY <2>1, <1>6
  <2>3. Sequences'.next = next
    BY <1>2 DEF Sequences
  <2> QED BY <2>2, <2>3 DEF Proper
<1>9. \A e \in R \ Loops : next[e] \in {Null, n[e]}
  <2>1. Null \notin CutArcs
    BY <1>4, Elements
  <2> QED BY <2>1, <1>3, <1>6, <1>7, <1>8
<1>10. /\ NoRing(n, Staying' \ Loops)
       /\ \A e \in Staying' \ Loops : next'[e] \in {Null, n[e]}
       /\ \A j \in Indices(targets', todo') : n[Left(targets', j)] = Right(targets', j)
  BY <1>2, <1>3, <1>6, <1>7, <1>9
<1>11. JoinRings'
  BY <1>10 DEF JoinRings
<1> QED BY <1>1, <1>2, <1>11 DEF RInv, IdleRings, LinkRings, LinkOrder, SplitRings

(* A joining iteration makes one of the pointers that were to come.        *)
LEMMA CutJoinRInv ==
  ASSUME IInv, RInv, NEW i \in DOMAIN batch, CutJoin(i)
  PROVE  RInv'
<1>1. TypeOK /\ CutBatch /\ stage = "cutJoin" /\ i \in todo /\ NoCycle(forest) /\ JoinRings
  BY DEF IInv, RInv, CutJoin
<1>2. PICK T : T = targets /\ T[i] \in Seq(Ref \X Ref)
  BY <1>1 DEF TypeOK
<1>3. PICK s \in State : s = Sequences /\ s.next = next
  BY <1>1, ListsState DEF TypeOK
<1>4. /\ next' = JoinAll(s, T[i]).next /\ todo' = todo \ {i} /\ stage' = stage
      /\ live' = live \ {batch[i], Twin(batch[i])}
      /\ batch' = batch /\ targets' = targets /\ forest' = forest
  BY <1>2, <1>3 DEF CutJoin, SetSequences, scratch
<1>5. PICK n : /\ NoRing(n, Staying \ Loops)
               /\ \A e \in Staying \ Loops : next[e] \in {Null, n[e]}
               /\ \A j \in Indices(T, todo) : n[Left(T, j)] = Right(T, j)
  BY <1>1, <1>2 DEF JoinRings
<1>6. Staying' = Staying
  <2>1. EdgeList(batch) /\ todo \subseteq DOMAIN batch
    BY <1>1 DEF CutBatch, TypeOK
  <2>2. ASSUME NEW k \in todo, k # i
        PROVE  {batch[k], Twin(batch[k])} \cap {batch[i], Twin(batch[i])} = {}
    <3>1. Key(batch[k]) # Key(batch[i])
      BY <2>1, <2>2 DEF EdgeList
    <3>2. batch[k] \in Element /\ batch[i] \in Element
      BY <2>1, ArcsOfKeys
    <3> QED BY <3>1, <3>2, Elements
  <2>3. Doomed = UNION {{batch[k], Twin(batch[k])} : k \in todo}
    BY <1>1 DEF Doomed
  <2>4. Doomed' = UNION {{batch[k], Twin(batch[k])} : k \in todo \ {i}}
    BY <1>1, <1>4 DEF Doomed
  <2>5. Doomed = Doomed' \cup {batch[i], Twin(batch[i])}
    BY <1>1, <2>3, <2>4
  <2>6. Doomed' \cap {batch[i], Twin(batch[i])} = {}
    BY <2>2, <2>4
  <2>7. batch[i] \notin Loops /\ Twin(batch[i]) \notin Loops
    BY <2>1, ArcsOfKeys, Elements
  <2>8. Staying' = (Loops \cup live') \ Doomed' /\ Staying = (Loops \cup live) \ Doomed
    BY DEF Staying
  <2> QED BY <1>4, <2>5, <2>6, <2>7, <2>8
<1>7. \A e \in Staying \ Loops : next'[e] \in {Null, n[e]}
  <2>1. TAKE e \in Staying \ Loops
  <2>2. e \in Element
    BY <1>1 DEF Staying, TypeOK
  <2>3. \/ next'[e] = next[e]
        \/ \E k \in DOMAIN T[i] : T[i][k][1] = e /\ T[i][k][2] = next'[e]
    BY <1>2, <1>3, <1>4, <2>2, JoinsNext
  <2>4. ASSUME NEW k \in DOMAIN T[i], T[i][k][1] = e, T[i][k][2] = next'[e] PROVE next'[e] = n[e]
    <3>1. PICK j : j = <<i, k>> /\ j \in Indices(T, todo)
      <4>1. <<i, k>> \in {<<i, l>> : l \in DOMAIN T[i]}
        OBVIOUS
      <4>2. <<i, k>> \in Indices(T, todo)
        BY <4>1, <1>1 DEF Indices
      <4> QED BY <4>2
    <3>2. Left(T, j) = e /\ Right(T, j) = next'[e]
      BY <2>4, <3>1 DEF Left, Right
    <3> QED BY <3>1, <3>2, <1>5
  <2> QED BY <2>3, <2>4, <1>5
<1>8. \A j \in Indices(T, todo \ {i}) : j \in Indices(T, todo)
  BY DEF Indices
<1>9. /\ NoRing(n, Staying' \ Loops)
      /\ \A e \in Staying' \ Loops : next'[e] \in {Null, n[e]}
      /\ \A j \in Indices(targets', todo') : n[Left(targets', j)] = Right(targets', j)
  BY <1>2, <1>4, <1>5, <1>6, <1>7, <1>8
<1>10. JoinRings'
  BY <1>9 DEF JoinRings
<1> QED BY <1>1, <1>4, <1>10 DEF RInv, IdleRings, LinkRings, LinkOrder, SplitRings

(* When all joins of a round are made, no list is open and n is next.      *)
LEMMA RoundOverNoRing ==
  ASSUME IInv, RInv, stage = "cutJoin", todo = {}
  PROVE  NoRing(next, live)
<1>1. PICK n : /\ NoRing(n, Staying \ Loops)
               /\ \A e \in Staying \ Loops : next[e] \in {Null, n[e]}
  BY DEF RInv, JoinRings
<1>2. /\ TypeOK /\ EdgeList(NextCuts)
      /\ live = Of(forest) \cup Arcs(NextCuts)
      /\ Sequences \in Tours(Placed)
  BY RoundOver
<1>3. Staying \ Loops = live
  BY <1>2 DEF TypeOK, Staying, Doomed
<1>4. \A e \in live : next[e] # Null
  <2>1. Whole(Sequences, Placed) /\ Sequences.next = next
    BY <1>2 DEF Tours, Sequences
  <2> QED BY <2>1 DEF Whole, Placed
<1>5. TwinClosed(live)
  <2>1. PICK b : b = NextCuts
    OBVIOUS
  <2>2. live = Of(forest \cup Keys(b))
    BY <1>2, <2>1, OfKeys
  <2> QED BY <2>2, TwinsOf
<1>6. \A e \in live : next[e] = n[e]
  BY <1>1, <1>3, <1>4
<1>7. PICK A : A = live
  OBVIOUS
<1>8. NoRing(next, A)
  BY <1>1, <1>3, <1>5, <1>6, <1>7, NoRingSame
<1> QED BY <1>7, <1>8

(* The recursion on few ignored cuts, which cuts them one by one.          *)
LEMMA CutRestRInv ==
  ASSUME IInv, RInv, CutRest
  PROVE  RInv'
<1>1. stage = "cutJoin" /\ todo = {} /\ CutNow(NextCuts) /\ Rest /\ forest' = forest
  BY DEF CutRest
<1>2. NoCycle(forest) /\ NoRing(next, live)
  BY <1>1, RoundOverNoRing DEF RInv
<1>3. PICK b : b = NextCuts
  OBVIOUS
<1>4. TypeOK /\ EdgeList(b) /\ live = Of(forest) \cup Arcs(b) /\ Sequences \in Tours(Placed)
  BY <1>1, <1>3, RoundOver
<1>5. PICK F : live = Of(F)
  BY <1>4, OfKeys
<1>6. NoRing(next', live')
  BY <1>1, <1>2, <1>3, <1>4, <1>5, CutNowNoRing
<1> QED BY <1>1, <1>2, <1>6, RestRInv

(* The recursion on the ignored cuts.                                      *)
LEMMA CutAgainRInv ==
  ASSUME IInv, RInv, CutAgain
  PROVE  RInv'
<1>1. /\ stage = "cutJoin" /\ todo = {} /\ stage' = "cutTargets" /\ next' = next /\ live' = live
      /\ forest' = forest
  BY DEF CutAgain, Round, Begin, lists
<1>2. NoCycle(forest) /\ NoRing(next, live)
  BY <1>1, RoundOverNoRing DEF RInv
<1> QED BY <1>1, <1>2 DEF RInv, IdleRings, LinkRings, LinkOrder, SplitRings, JoinRings

(* Every step keeps RInv.                                                  *)
LEMMA NextRInv ==
  ASSUME IInv, IInv', RInv, [Next]_vars
  PROVE  RInv'
<1>1. ASSUME NEW i \in DOMAIN batch, Iteration(i) PROVE RInv'
  <2>1. CASE LinkSplit(i)
    BY <2>1, LinkSplitRInv
  <2>2. CASE LinkJoin(i)
    BY <2>2, LinkJoinRInv
  <2>3. CASE CutJoin(i)
    BY <2>3, CutJoinRInv
  <2>4. CASE ~(LinkSplit(i) \/ LinkJoin(i) \/ CutJoin(i))
    BY <1>1, <2>4, SplitStepRInv DEF Iteration
  <2> QED BY <2>1, <2>2, <2>3, <2>4
<1>2. ASSUME Barrier PROVE RInv'
  BY <1>2, StartLinkJoinRInv, EndLinkRInv, CutTargetsRInv, StartCutJoinRInv, CutRestRInv, CutAgainRInv
     DEF Barrier
<1>3. ASSUME Call PROVE RInv'
  BY <1>3, LinkSequentialRInv, CutSequentialRInv, BatchLinkRInv, BatchCutRInv DEF Call
<1> QED BY <1>1, <1>2, <1>3, StutterRInv DEF Next

----
(* The theorems *)

(* There is never a ring of rotations without its loop: Link and Cut, the  *)
(* batches of links whose iterations race, and the joins past the cut      *)
(* edges keep it so.                                                       *)
THEOREM InductiveRings == Spec => [](IInv /\ RInv)
<1>1. Init => IInv /\ RInv
  BY InitIInv, InitRInv
<1>2. IInv /\ RInv /\ [Next]_vars => (IInv /\ RInv)'
  BY NextIInv, NextRInv
<1> QED BY <1>1, <1>2, PTL DEF Spec

(* Between operations a tour comes to the whole tree, and links are        *)
(* paired there (ToursAreTrees).                                           *)
LEMMA ToursAtRest ==
  ASSUME IInv, RInv, stage = "idle", NEW u \in Vertices
  PROVE  /\ Tour(u) = {e \in Element : e[1] \in Tree(forest, u) /\ (e \in Loops \/ Key(e) \in forest)}
         /\ \A e \in Tour(u) : prev[next[e]] = e /\ next[e][1] = e[2]
<1>1. TypeOK /\ live = Of(forest) /\ Sequences \in Tours(Placed) /\ NoCycle(forest) /\ NoRing(next, live)
  BY DEF IInv, Idle, RInv, IdleRings
<1>2. PICK S : S = Loops \cup Of(forest) /\ S = Placed
  BY <1>1 DEF Placed
<1>3. forest \in SUBSET Edge
  BY <1>1 DEF TypeOK, Edge
<1>4. Tour(u) = {e \in S : e[1] \in Tree(forest, u)}
  BY <1>1, <1>2, <1>3, ToursOfForest
<1>5. \A e : e \in S <=> e \in Element /\ (e \in Loops \/ Key(e) \in forest)
  BY <1>2, Elements DEF Of
<1>6. \A e \in S : prev[next[e]] = e /\ next[e][1] = e[2]
  <2>1. PICK s \in Tours(S) : s = Sequences /\ s.next = next /\ s.prev = prev
    BY <1>1, <1>2 DEF Sequences
  <2>2. Null \notin S
    BY <1>2, Elements DEF Of
  <2>3. \A e \in S : s.prev[s.next[e]] = e /\ s.next[e][1] = e[2]
    BY <2>2 DEF Tours, Proper, Whole
  <2> QED BY <2>1, <2>3
<1> QED BY <1>4, <1>5, <1>6

(* Between operations the lists are Euler tours of exactly the trees of    *)
(* the forest that the caller has built, whatever batches came before and  *)
(* however their iterations interleaved (BatchLink, BatchCutRecurse,       *)
(* IsConnected).                                                           *)
THEOREM ToursTrees == Spec => []ToursAreTrees
<1>1. IInv /\ RInv => ToursAreTrees
  <2>1. SUFFICES ASSUME IInv, RInv, stage = "idle", NEW u \in Vertices
                 PROVE  /\ Tour(u) = {e \in Element : e[1] \in Tree(forest, u) /\ (e \in Loops \/ Key(e) \in forest)}
                        /\ \A e \in Tour(u) : prev[next[e]] = e /\ next[e][1] = e[2]
    BY DEF ToursAreTrees
  <2> QED BY <2>1, ToursAtRest
<1> QED BY <1>1, InductiveRings, PTL

----
(* The refinement of DynamicForest *)

(* The edges of F as DynamicForest has them.                               *)
Graph(F) == {{e[1], e[2]} : e \in F}
(* The trees of F.                                                         *)
TreesOf(F) == {Tree(F, u) : u \in Vertices}

(* The ends of an edge.                                                    *)
LEMMA EdgeParts ==
  ASSUME NEW e \in Edge
  PROVE  /\ e \in Element /\ e[1] \in Vertices /\ e[2] \in Vertices /\ e = <<e[1], e[2]>>
         /\ e[1] \in Nat /\ e[2] \in Nat /\ e[1] < e[2] /\ e \notin Loops
<1>1. e \in Element /\ e[1] < e[2] /\ e[1] \in Vertices /\ e[2] \in Vertices /\ e = <<e[1], e[2]>>
  BY Elements DEF Edge
<1>2. e[1] \in Nat /\ e[2] \in Nat
  BY <1>1 DEF Vertices
<1> QED BY <1>1, <1>2, Elements

(* Different edges have different ends.                                    *)
LEMMA EndsDiffer ==
  ASSUME NEW e \in Edge, NEW f \in Edge, {e[1], e[2]} = {f[1], f[2]}
  PROVE  e = f
<1>1. e[1] \in Nat /\ e[2] \in Nat /\ e[1] < e[2] /\ e = <<e[1], e[2]>>
  BY EdgeParts
<1>2. f[1] \in Nat /\ f[2] \in Nat /\ f[1] < f[2] /\ f = <<f[1], f[2]>>
  BY EdgeParts
<1>3. e[1] = f[1] /\ e[2] = f[2]
  BY <1>1, <1>2
<1> QED BY <1>1, <1>2, <1>3

(* The graph of F has the inclusions and the closed sets of F.             *)
LEMMA GraphFacts ==
  ASSUME NEW F \in SUBSET Edge
  PROVE  /\ Graph(F) \in SUBSET {{e[1], e[2]} : e \in Element \ Loops}
         /\ \A E \in SUBSET Edge : E \subseteq F <=> Graph(E) \subseteq Graph(F)
         /\ \A S : Forest!Closed(Graph(F), S) <=> Uncut(F, S)
<1>1. Graph(F) \in SUBSET {{e[1], e[2]} : e \in Element \ Loops}
  BY EdgeParts DEF Graph
<1>2. ASSUME NEW E \in SUBSET Edge, Graph(E) \subseteq Graph(F) PROVE E \subseteq F
  <2>1. SUFFICES ASSUME NEW e \in E PROVE e \in F
    OBVIOUS
  <2>2. {e[1], e[2]} \in Graph(F)
    BY <1>2 DEF Graph
  <2>3. PICK f \in F : {e[1], e[2]} = {f[1], f[2]}
    BY <2>2 DEF Graph
  <2>4. e = f
    BY <2>3, EndsDiffer
  <2> QED BY <2>4
<1>3. ASSUME NEW E \in SUBSET F PROVE Graph(E) \subseteq Graph(F)
  BY DEF Graph
<1>4. ASSUME NEW S PROVE Forest!Closed(Graph(F), S) <=> Uncut(F, S)
  <2>1. Forest!Closed(Graph(F), S) <=> \A e \in F : {e[1], e[2]} \subseteq S \/ {e[1], e[2]} \cap S = {}
    BY DEF Forest!Closed, Graph
  <2> QED BY <2>1 DEF Uncut
<1> QED BY <1>1, <1>2, <1>3, <1>4

(* The trees are the least parts of the vertices that no edge leaves.      *)
LEMMA TreesAre ==
  ASSUME NEW F \in SUBSET Edge
  PROVE  Forest!Trees(Graph(F)) = TreesOf(F) /\ TreesOf(F) # {}
<1>1. \A S : Forest!Closed(Graph(F), S) <=> Uncut(F, S)
  BY GraphFacts
<1>2. ASSUME NEW u \in Vertices, NEW T, T \subseteq Tree(F, u), Uncut(F, T), T # {}
      PROVE  T = Tree(F, u)
  <2>1. CASE u \in T
    BY <1>2, <2>1, TreeIs
  <2>2. CASE u \notin T
    <3>1. PICK D : D = Vertices \ T
      OBVIOUS
    <3>2. Uncut(F, D)
      <4>1. \A f \in F : f[1] \in Vertices /\ f[2] \in Vertices
        BY EdgeParts
      <4> QED BY <4>1, <1>2, <3>1 DEF Uncut
    <3>3. Tree(F, u) \subseteq D
      BY <2>2, <3>1, <3>2, TreeIs
    <3> QED BY <1>2, <3>1, <3>3
  <2> QED BY <2>1, <2>2
<1>3. ASSUME NEW u \in Vertices PROVE Tree(F, u) \in Forest!Trees(Graph(F))
  <2>1. PICK S : S = Tree(F, u)
    OBVIOUS
  <2>2. S \in SUBSET Vertices /\ S # {} /\ Uncut(F, S)
    BY <2>1, TreeIs
  <2>3. \A T \in SUBSET S : T # {} /\ T # S => ~Uncut(F, T)
    BY <1>2, <2>1
  <2>4. S \in Forest!Trees(Graph(F))
    BY <1>1, <2>2, <2>3 DEF Forest!Trees
  <2> QED BY <2>1, <2>4
<1>4. ASSUME NEW S \in Forest!Trees(Graph(F)) PROVE \E u \in Vertices : S = Tree(F, u)
  <2>1. /\ S \in SUBSET Vertices /\ S # {} /\ Uncut(F, S)
        /\ \A T \in SUBSET S : T # {} /\ T # S => ~Uncut(F, T)
    BY <1>1 DEF Forest!Trees
  <2>2. PICK u \in Vertices : u \in S
    BY <2>1
  <2>3. PICK T : T = Tree(F, u)
    OBVIOUS
  <2>4. T \subseteq S /\ T # {} /\ Uncut(F, T)
    BY <2>1, <2>2, <2>3, TreeIs
  <2>5. T = S
    BY <2>1, <2>4
  <2> QED BY <2>3, <2>5
<1>5. Vertices # {}
  BY SomeVertices DEF Vertices
<1> QED BY <1>3, <1>4, <1>5 DEF TreesOf

(* Two vertices have the same representative if they have the same tree.   *)
LEMMA ForestCounted ==
  ASSUME NEW F \in SUBSET Edge, NoCycle(F)
  PROVE  Forest!IsForest(Graph(F))
<1>1. PICK q : Represents(q, F)
  BY ForestRepresented
<1>2. /\ q \in [Vertices -> Vertices]
      /\ \A e \in F : q[e[1]] = q[e[2]]
      /\ \A u, v \in Vertices : q[u] = q[v] => \A C : Uncut(F, C) /\ u \in C => v \in C
      /\ IsFiniteSet(F)
      /\ Cardinality({q[v] : v \in Vertices}) + Cardinality(F) = NumVertices
  BY <1>1 DEF Represents
<1>3. ASSUME NEW u \in Vertices, NEW v \in Vertices
      PROVE  q[u] = q[v] <=> Tree(F, u) = Tree(F, v)
  <2>1. ASSUME q[u] = q[v] PROVE Tree(F, u) = Tree(F, v)
    <3>1. Uncut(F, Tree(F, u)) /\ u \in Tree(F, u) /\ Uncut(F, Tree(F, v)) /\ v \in Tree(F, v)
      BY TreeIs
    <3>2. v \in Tree(F, u) /\ u \in Tree(F, v)
      BY <1>2, <2>1, <3>1
    <3>3. Tree(F, v) \subseteq Tree(F, u)
      BY <3>1, <3>2, TreeIs
    <3>4. Tree(F, u) \subseteq Tree(F, v)
      BY <3>1, <3>2, TreeIs
    <3> QED BY <3>3, <3>4
  <2>2. ASSUME Tree(F, u) = Tree(F, v) PROVE q[u] = q[v]
    <3>1. PICK C : C = {w \in Vertices : q[w] = q[u]}
      OBVIOUS
    <3>2. Uncut(F, C)
      <4>1. \A f \in F : f[1] \in Vertices /\ f[2] \in Vertices
        BY EdgeParts
      <4> QED BY <4>1, <1>2, <3>1 DEF Uncut
    <3>3. Tree(F, u) \subseteq C
      BY <3>1, <3>2, TreeIs
    <3>4. v \in Tree(F, u)
      BY <2>2, TreeIs
    <3> QED BY <3>1, <3>3, <3>4
  <2> QED BY <2>1, <2>2
<1>4. PICK I : I = {q[v] : v \in Vertices} /\ IsFiniteSet(I)
  <2>1. {q[v] : v \in Vertices} \in SUBSET Vertices
    BY <1>2
  <2> QED BY <2>1, ElementsFinite, FS_Subset
<1>5. PICK at : \A x \in I : at[x] \in Vertices /\ q[at[x]] = x
  <2> DEFINE h == [x \in I |-> CHOOSE v \in Vertices : q[v] = x]
  <2>1. \A x \in I : h[x] \in Vertices /\ q[h[x]] = x
    BY <1>4
  <2> HIDE DEF h
  <2> QED BY <2>1
<1>6. PICK g : g = [x \in I |-> Tree(F, at[x])]
  OBVIOUS
<1>7. PICK W : W = TreesOf(F)
  OBVIOUS
<1>8. g \in [I -> W] /\ \A x \in I : g[x] = Tree(F, at[x])
  BY <1>5, <1>6, <1>7 DEF TreesOf
<1>9. g \in Injection(I, W)
  <2>1. \A x, y \in I : g[x] = g[y] => x = y
    BY <1>3, <1>5, <1>8
  <2> QED BY <2>1, <1>8 DEF Injection, IsInjective
<1>10. g \in Surjection(I, W)
  <2>1. ASSUME NEW t \in W PROVE \E x \in I : g[x] = t
    <3>1. PICK u \in Vertices : t = Tree(F, u)
      BY <1>7 DEF TreesOf
    <3>2. PICK x \in I : x = q[u]
      BY <1>4
    <3>3. Tree(F, at[x]) = Tree(F, u)
      BY <1>3, <1>5, <3>2
    <3> QED BY <1>8, <3>1, <3>3
  <2> QED BY <2>1, <1>8 DEF Surjection
<1>11. Cardinality(W) = Cardinality(I)
  <2>1. g \in Bijection(I, W)
    BY <1>9, <1>10 DEF Bijection
  <2>2. ExistsBijection(I, W)
    BY <2>1 DEF ExistsBijection
  <2> QED BY <2>2, <1>4, FS_Bijection
<1>12. PICK G : G = Graph(F)
  OBVIOUS
<1>13. Cardinality(G) = Cardinality(F)
  <2>1. PICK p : p = [e \in F |-> {e[1], e[2]}]
    OBVIOUS
  <2>2. p \in [F -> G] /\ (\A e \in F : p[e] = {e[1], e[2]}) /\ \A x \in G : \E e \in F : p[e] = x
    BY <2>1, <1>12 DEF Graph
  <2>3. \A e, f \in F : p[e] = p[f] => e = f
    BY <2>2, EndsDiffer
  <2>4. p \in Bijection(F, G)
    BY <2>2, <2>3 DEF Bijection, Injection, Surjection, IsInjective
  <2>5. ExistsBijection(F, G)
    BY <2>4 DEF ExistsBijection
  <2> QED BY <2>5, <1>2, FS_Bijection
<1>14. Cardinality(F) \in Nat /\ Cardinality(I) \in Nat
  BY <1>2, <1>4, FS_CardinalityType
<1>15. Cardinality(G) + Cardinality(W) = Cardinality(Vertices)
  BY <1>2, <1>4, <1>11, <1>13, <1>14, ElementsFinite
<1>16. Forest!Trees(G) = W
  BY <1>7, <1>12, TreesAre
<1>17. Cardinality(Forest!Trees(G)) = Cardinality(W)
  BY <1>16
<1>18. Forest!IsForest(G)
  <2>1. ASSUME NEW X PROVE Forest!Cardinality(X) = Cardinality(X)
    BY DEF Forest!Cardinality, Cardinality
  <2>2. Forest!Cardinality(G) = Cardinality(G) /\ Forest!Cardinality(Vertices) = Cardinality(Vertices)
    BY <2>1
  <2>3. Forest!Cardinality(Forest!Trees(G)) = Cardinality(Forest!Trees(G))
    BY <2>1
  <2> QED BY <1>15, <1>17, <2>2, <2>3 DEF Forest!IsForest
<1> QED BY <1>12, <1>18

(* What IsConnected answers.                                               *)
Answers == {{v \in Vertices : IsConnected(u, v)} : u \in Vertices}

(* Between operations it answers for the trees of the forest.              *)
Answered == stage = "idle" => Answers = TreesOf(forest)

(* That is ToursAreTrees, in terms of DynamicForest.                       *)
LEMMA AnswersAtRest ==
  ASSUME IInv, RInv
  PROVE  Answered
<1> SUFFICES ASSUME stage = "idle" PROVE Answers = TreesOf(forest)
  BY DEF Answered
<1>1. forest \in SUBSET Edge
  BY DEF IInv, TypeOK, Edge
<1>2. ASSUME NEW u \in Vertices PROVE {v \in Vertices : IsConnected(u, v)} = Tree(forest, u)
  <2>1. PICK t : t = Tree(forest, u) /\ t \subseteq Vertices
    BY <1>1, TreeIs
  <2>2. Tour(u) = {e \in Element : e[1] \in t /\ (e \in Loops \/ Key(e) \in forest)}
    BY <2>1, ToursAtRest
  <2>3. \A v \in Vertices : Loop(v) \in Tour(u) <=> v \in t
    BY <2>2, Elements
  <2> QED BY <2>1, <2>3 DEF IsConnected
<1> QED BY <1>2 DEF Answers, TreesOf

(* The steps, as the caller sees them.                                     *)
LEMMA StepKinds ==
  ASSUME IInv, [Next]_vars
  PROVE  \/ forest' = forest /\ (stage = "idle" => stage' = "idle")
         \/ stage = "idle" /\ forest' # forest /\ (forest' \subseteq forest \/ forest \subseteq forest')
<1>1. ASSUME NEW i \in DOMAIN batch, Iteration(i) PROVE forest' = forest /\ stage # "idle"
  BY <1>1 DEF Iteration, LinkSplit, LinkJoin, SplitEdge, SplitTwin, ReadEdgePrevious, SplitEdgePrevious,
              ReadTwinPrevious, SplitTwinPrevious, ReadPrevious, CutNext, ClearPrev, EndIteration, CutJoin, At
<1>2. ASSUME Barrier PROVE forest' = forest /\ stage # "idle"
  BY <1>2 DEF Barrier, StartLinkJoin, EndLink, CutTargets, StartCutJoin, CutRest, CutAgain
<1>3. ASSUME NEW b \in Batches, LinkSequential(b) \/ CutSequential(b)
      PROVE  /\ stage = "idle" /\ stage' = "idle"
             /\ forest' \subseteq forest \/ forest \subseteq forest'
  BY <1>3 DEF LinkSequential, CutSequential, Rest
<1>4. ASSUME NEW b \in Batches, BatchLink(b) \/ BatchCut(b)
      PROVE  stage = "idle" /\ forest' # forest /\ (forest' \subseteq forest \/ forest \subseteq forest')
  <2>1. EdgeList(b)
    BY BatchesAreLists
  <2>2. Len(b) > Sequential
    BY <1>4 DEF BatchLink, BatchCut
  <2>3. 1 \in DOMAIN b
    BY <2>1, <2>2, ArcsOfKeys, SequentialLimit
  <2>4. Key(b[1]) \in Keys(b)
    BY <2>3 DEF Keys
  <2>5. CASE BatchLink(b)
    <3>1. Keys(b) \cap forest = {}
      BY <2>1, <2>5, NoOldEdge DEF BatchLink
    <3> QED BY <2>4, <2>5, <3>1 DEF BatchLink
  <2>6. CASE BatchCut(b)
    BY <2>4, <2>6 DEF BatchCut
  <2> QED BY <1>4, <2>5, <2>6
<1>5. ASSUME UNCHANGED vars PROVE forest' = forest /\ stage' = stage
  BY <1>5 DEF vars
<1> QED BY <1>1, <1>2, <1>3, <1>4, <1>5 DEF Next, Call

(* No edges, and a tree for each vertex.                                   *)
LEMMA InitForest ==
  ASSUME Init
  PROVE  Forest!Init
<1>1. IInv /\ RInv /\ stage = "idle" /\ forest = {}
  BY InitIInv, InitRInv DEF Init
<1>2. Answers = TreesOf({})
  BY <1>1, AnswersAtRest DEF Answered
<1>3. ASSUME NEW u \in Vertices PROVE Tree({}, u) = {u}
  <2>1. Uncut({}, {u}) /\ {} \in SUBSET Edge
    BY DEF Uncut
  <2> QED BY <2>1, TreeIs
<1>4. TreesOf({}) = {{v} : v \in Vertices}
  BY <1>3 DEF TreesOf
<1> QED BY <1>1, <1>2, <1>4 DEF Forest!Init, Answers

(* An iteration or a barrier in the middle of an operation stutters, the   *)
(* last one ends it; Link and Cut, and short batches, are whole.           *)
LEMMA NextForest ==
  ASSUME IInv, RInv, Answered, IInv', RInv', Answered', [Next]_vars
  PROVE  [Forest!Next]_Forest!vars
<1> DEFINE graph == {{e[1], e[2]} : e \in forest}
           trees == IF stage = "idle" THEN Answers ELSE {}
<1>1. forest \in SUBSET Edge /\ forest' \in SUBSET Edge /\ NoCycle(forest')
  BY DEF IInv, TypeOK, Edge, RInv
<1>2. graph = Graph(forest) /\ graph' = Graph(forest')
  BY DEF Graph
<1>3. /\ stage = "idle" => trees = Forest!Trees(graph) /\ trees # {}
      /\ stage # "idle" => trees = {}
  BY <1>1, <1>2, TreesAre DEF Answered
<1>4. /\ stage' = "idle" => trees' = Forest!Trees(graph') /\ trees' # {}
      /\ stage' # "idle" => trees' = {}
  <2>1. stage' = "idle" => Answers' = TreesOf(forest')
    BY DEF Answered
  <2> QED BY <2>1, <1>1, <1>2, TreesAre
<1>5. CASE forest' = forest /\ (stage = "idle" => stage' = "idle")
  BY <1>3, <1>4, <1>5 DEF Forest!Next, Forest!End, Forest!vars, Answers
<1>6. CASE stage = "idle" /\ forest' # forest /\ (forest' \subseteq forest \/ forest \subseteq forest')
  <2>1. Forest!IsForest(graph')
    BY <1>1, <1>2, ForestCounted
  <2>2. graph' \in SUBSET {{e[1], e[2]} : e \in Element \ Loops}
    BY <1>1, <1>2, GraphFacts
  <2>3. graph' # graph /\ (graph' \subseteq graph \/ graph \subseteq graph')
    BY <1>1, <1>2, <1>6, GraphFacts
  <2>4. Forest!Change
    BY <2>1, <2>2, <2>3 DEF Forest!Change
  <2> QED BY <1>3, <1>4, <1>6, <2>4 DEF Forest!Next, Forest!Begin, Forest!Whole, Forest!vars, Answers
<1> QED BY <1>5, <1>6, StepKinds

(* To its caller the structure behaves as DynamicForest: each operation    *)
(* adds edges without a cycle or takes edges away, and when it ends        *)
(* IsConnected answers for the trees of the edges there are.  (That it     *)
(* ends is the rest of Implements.)                                        *)
THEOREM StepsOfForest == Spec => Forest!Init /\ [][Forest!Next]_Forest!vars
<1>1. Init => Forest!Init
  BY InitForest
<1>2. IInv /\ RInv => Answered
  BY AnswersAtRest
<1>3. IInv /\ RInv /\ Answered /\ (IInv /\ RInv /\ Answered)' /\ [Next]_vars => [Forest!Next]_Forest!vars
  BY NextForest
<1> QED BY <1>1, <1>2, <1>3, InductiveRings, PTL DEF Spec
====
