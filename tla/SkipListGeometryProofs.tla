---- MODULE SkipListGeometryProofs ----
(***************************************************************************)
(* What the arrangements of SkipListGeometry have in common, as lemmas for *)
(* the modules that prove something about skip lists.                      *)
(***************************************************************************)
EXTENDS SkipListGeometry, NaturalsInduction, FiniteSetTheorems, TLAPS

(* Numbers *)

(* A set of numbers has a least element.                                   *)
LEMMA LeastNumber ==
  ASSUME NEW T, T \subseteq Nat, T # {}
  PROVE  \E m \in T : \A n \in T : m <= n
<1> DEFINE R == OpToRel(<, Nat)
<1>1. IsWellFoundedOn(R, Nat)
  BY NatLessThanWellFounded
<1>2. \A a, b \in Nat : a < b => <<a, b>> \in R
  BY DEF OpToRel
<1> HIDE DEF R
<1>3. PICK m \in T : \A n \in T : ~(<<n, m>> \in R)
  BY <1>1, WFMin
<1>4. ASSUME NEW n \in T, ~(m <= n) PROVE FALSE
  <2>1. m \in Nat /\ n \in Nat /\ n < m
    BY <1>4
  <2> QED BY <2>1, <1>2, <1>3
<1> QED BY <1>4

(* Induction, over the set of the numbers a formula holds of.              *)
LEMMA Induction ==
  ASSUME NEW T, 0 \in T, \A n \in Nat : n \in T => n + 1 \in T
  PROVE  \A n \in Nat : n \in T
<1> DEFINE Bad == {n \in Nat : n \notin T}
<1>1. SUFFICES ASSUME Bad # {} PROVE FALSE
  OBVIOUS
<1>2. PICK k \in Bad : \A n \in Bad : k <= n
  BY <1>1, LeastNumber
<1>3. k # 0 /\ k \in Nat
  BY <1>2
<1>4. k - 1 \in Nat /\ k - 1 \notin Bad
  BY <1>2, <1>3
<1>5. (k - 1) + 1 \in T /\ (k - 1) + 1 = k
  BY <1>3, <1>4
<1> QED BY <1>2, <1>5

(* f begins with base and goes on with G, up to n.                         *)
Begun(n, S, base, G) ==
  {f \in [0 .. n -> S] : f[0] = base /\ \A k \in 0 .. n - 1 : f[k + 1] = G[<<k, f[k]>>]}

LEMMA BegunAlike ==
  ASSUME NEW S, NEW base \in S, NEW G, NEW n \in Nat,
         NEW f \in Begun(n, S, base, G), NEW g \in Begun(n + 1, S, base, G)
  PROVE  f[n] = g[n]
<1> DEFINE T == {k \in Nat : k <= n => f[k] = g[k]}
<1>1. 0 \in T
  BY DEF Begun
<1>2. ASSUME NEW k \in Nat, k \in T PROVE k + 1 \in T
  <2>1. SUFFICES ASSUME k + 1 <= n PROVE f[k + 1] = g[k + 1]
    OBVIOUS
  <2>2. k \in 0 .. n - 1 /\ k \in 0 .. (n + 1) - 1 /\ f[k] = g[k]
    BY <2>1, <1>2
  <2> QED BY <2>2 DEF Begun
<1>3. n \in T
  <2> HIDE DEF T
  <2> QED BY <1>1, <1>2, Induction
<1> QED BY <1>3

LEMMA BegunAll ==
  ASSUME NEW S, NEW base \in S, NEW G, \A k \in Nat : \A x \in S : G[<<k, x>>] \in S, NEW n \in Nat
  PROVE  Begun(n, S, base, G) # {}
<1> DEFINE T == {k \in Nat : Begun(k, S, base, G) # {}}
<1>1. 0 \in T
  <2>1. [k \in 0 .. 0 |-> base] \in Begun(0, S, base, G)
    BY DEF Begun
  <2> QED BY <2>1
<1>2. ASSUME NEW m \in Nat, m \in T PROVE m + 1 \in T
  <2>1. PICK f : f \in Begun(m, S, base, G)
    BY <1>2
  <2> DEFINE g == [k \in 0 .. m + 1 |-> IF k = m + 1 THEN G[<<m, f[m]>>] ELSE f[k]]
  <2>2. f \in [0 .. m -> S] /\ f[0] = base /\ m \in 0 .. m
    BY <2>1 DEF Begun
  <2>3. G[<<m, f[m]>>] \in S
    BY <2>2
  <2>4. g \in [0 .. m + 1 -> S]
    <3>1. ASSUME NEW k \in 0 .. m + 1 PROVE g[k] \in S
      <4>1. k = m + 1 \/ k \in 0 .. m
        OBVIOUS
      <4> QED BY <4>1, <2>2, <2>3
    <3> QED BY <3>1
  <2>5. g[0] = base
    BY <2>2
  <2>6. ASSUME NEW k \in 0 .. (m + 1) - 1 PROVE g[k + 1] = G[<<k, g[k]>>]
    <3>1. CASE k = m
      BY <3>1
    <3>2. CASE k # m
      <4>1. k \in 0 .. m - 1 /\ k # m + 1 /\ k + 1 # m + 1 /\ k \in 0 .. m + 1 /\ k + 1 \in 0 .. m + 1
        BY <3>2
      <4>2. f[k + 1] = G[<<k, f[k]>>]
        BY <4>1, <2>1 DEF Begun
      <4> QED BY <4>1, <4>2
    <3> QED BY <3>1, <3>2
  <2> HIDE DEF g
  <2>7. g \in Begun(m + 1, S, base, G)
    BY <2>4, <2>5, <2>6 DEF Begun
  <2> QED BY <2>7
<1> HIDE DEF T
<1>3. n \in T
  BY <1>1, <1>2, Induction
<1> QED BY <1>3 DEF T

OnNaturals(f) == f = [k \in Nat |-> f[k]]

(* A recursion over the naturals has a solution.                           *)
LEMMA Recursion ==
  ASSUME NEW S, NEW base \in S, NEW G, \A k \in Nat : \A x \in S : G[<<k, x>>] \in S
  PROVE  \E f : /\ OnNaturals(f)
                /\ f[0] = base
                /\ \A k \in Nat : f[k] \in S /\ f[k + 1] = G[<<k, f[k]>>]
<1> DEFINE h == [n \in Nat |-> CHOOSE f : f \in Begun(n, S, base, G)]
           F == [n \in Nat |-> h[n][n]]
<1>1. ASSUME NEW n \in Nat PROVE h[n] \in Begun(n, S, base, G)
  <2>1. \E f : f \in Begun(n, S, base, G)
    BY BegunAll
  <2> QED BY <2>1
<1> HIDE DEF h
<1>2. F[0] = base
  <2>1. h[0][0] = base
    BY <1>1 DEF Begun
  <2> QED BY <2>1
<1>3. ASSUME NEW k \in Nat PROVE F[k] \in S /\ F[k + 1] = G[<<k, F[k]>>]
  <2>1. k + 1 \in Nat /\ k \in 0 .. (k + 1) - 1 /\ k \in 0 .. k
    OBVIOUS
  <2>2. h[k] \in Begun(k, S, base, G) /\ h[k + 1] \in Begun(k + 1, S, base, G)
    BY <2>1, <1>1
  <2>3. h[k][k] = h[k + 1][k]
    BY <2>2, BegunAlike
  <2>4. h[k + 1][k + 1] = G[<<k, h[k + 1][k]>>]
    BY <2>1, <2>2 DEF Begun
  <2>5. h[k][k] \in S
    BY <2>1, <2>2 DEF Begun
  <2> QED BY <2>1, <2>3, <2>4, <2>5
<1>4. OnNaturals(F)
  BY DEF OnNaturals
<1> HIDE DEF F
<1> QED BY <1>2, <1>3, <1>4

----
(* Arrangements *)

Tower(s, x, l) == x \in Elements /\ s.height[x] > l

Joined(s, l, x, y) ==
  Tower(s, x, l) /\ Tower(s, y, l) /\ l \in Level /\ s.right[l][x] = y

(* The link leaving x at level l skips elements of B only.                 *)
Spanned(s, B, l, x) == s.span[l][x] \subseteq B

(* The elements whose left parent is p.                                    *)
Below(s, l, p) == {c \in Elements : s.lpar[l][c] = p}

(* Every element, level and height is a number, and null is no element.    *)
LEMMA Basics ==
  /\ Elements \subseteq Int
  /\ Null \notin Elements
  /\ 0 \in Level
  /\ Level \subseteq Nat
  /\ \A l \in Level : l < MaxHeight
BY ElementsAreAddresses, HeightsArePositive DEF Null, Level

(* The facts about an arrangement that the steps use, one by one.          *)
LEMMA ShapeFacts ==
  ASSUME NEW s \in Shapes
  PROVE  /\ s \in ShapeType
         /\ \A l \in Level : \A x \in Elements :
              /\ s.right[l][x] \in Ref
              /\ s.left[l][x] \in Ref
              /\ s.lpar[l][x] \in Ref
              /\ s.rpar[l][x] \in Ref
              /\ s.height[x] \in 1 .. MaxHeight
         /\ \A l \in Level : \A x, y \in Elements :
              s.right[l][x] = y => Joined(s, l, x, y) /\ s.left[l][y] = x
         /\ \A l \in Level : \A x, y \in Elements :
              s.left[l][y] = x => s.right[l][x] = y
<1>1. WellFormed(s)
  BY ShapesAreWellFormed
<1>2. s \in ShapeType
  BY <1>1 DEF WellFormed
<1>3. \A l \in Level : \A x \in Elements :
        /\ s.right[l][x] \in Ref
        /\ s.left[l][x] \in Ref
        /\ s.lpar[l][x] \in Ref
        /\ s.rpar[l][x] \in Ref
        /\ s.height[x] \in 1 .. MaxHeight
  BY <1>2 DEF ShapeType, Links
<1>4. \A l \in Level : \A x, y \in Elements :
        s.right[l][x] = y <=> s.left[l][y] = x
  BY <1>1 DEF WellFormed, Doubly
<1>5. \A l \in Level : \A x, y \in Elements :
        s.right[l][x] = y => Joined(s, l, x, y) /\ s.left[l][y] = x
  BY <1>1, <1>4, Basics DEF WellFormed, Tall, Joined, Tower
<1> QED BY <1>2, <1>3, <1>4, <1>5

(* The left parent of an element: the element itself or that of its left   *)
(* neighbour; likewise to the right; and parents of neighbours are linked. *)
LEMMA ParentFacts ==
  ASSUME NEW s \in Shapes, NEW l \in Level, NEW x \in Elements
  PROVE  /\ s.height[x] > l + 1 => s.lpar[l][x] = x /\ s.rpar[l][x] = x
         /\ ~(s.height[x] > l + 1) /\ s.left[l][x] # Null =>
              s.lpar[l][x] = s.lpar[l][s.left[l][x]]
         /\ ~(s.height[x] > l + 1) /\ s.right[l][x] # Null =>
              s.rpar[l][x] = s.rpar[l][s.right[l][x]]
         /\ \A p, q \in Elements :
              /\ l + 1 \in Level
              /\ s.right[l][x] # Null
              /\ s.lpar[l][x] = p
              /\ s.rpar[l][s.right[l][x]] = q
              => s.right[l + 1][p] = q
<1>1. WellFormed(s)
  BY ShapesAreWellFormed
<1>2. s.lpar[l][x] = IF s.height[x] > l + 1 THEN x
                     ELSE IF s.left[l][x] = Null THEN Null
                     ELSE s.lpar[l][s.left[l][x]]
  BY <1>1 DEF WellFormed, LeftParents
<1>3. s.rpar[l][x] = IF s.height[x] > l + 1 THEN x
                     ELSE IF s.right[l][x] = Null THEN Null
                     ELSE s.rpar[l][s.right[l][x]]
  BY <1>1 DEF WellFormed, RightParents
<1>4. \A p, q \in Elements :
        /\ l + 1 \in Level
        /\ s.right[l][x] # Null
        /\ s.lpar[l][x] = p
        /\ s.rpar[l][s.right[l][x]] = q
        => s.right[l + 1][p] = q
  BY <1>1 DEF WellFormed, ParentsLinked
<1> QED BY <1>2, <1>3, <1>4

LEMMA SpanFacts ==
  ASSUME NEW s \in Shapes, NEW B
  PROVE  /\ \A x \in Elements : Spanned(s, B, 0, x) <=> x \in B
         /\ \A l \in Level : \A p \in Elements :
              l + 1 \in Level =>
                (Spanned(s, B, l + 1, p) <=>
                   \A c \in Below(s, l, p) : Spanned(s, B, l, c))
<1>1. Spans(s)
  BY ShapesAreWellFormed DEF WellFormed
<1> QED BY <1>1 DEF Spans, Spanned, Below

LEMMA LeftOfRight ==
  ASSUME NEW s \in Shapes, NEW l \in Level, NEW x \in Elements, s.right[l][x] # Null
  PROVE  s.left[l][s.right[l][x]] = x
<1>1. PICK y \in Elements : s.right[l][x] = y
  BY ShapeFacts DEF Ref
<1> QED BY <1>1, ShapeFacts

(* How many links lead from the left parent to an element.                 *)
LEMMA StepFacts ==
  ASSUME NEW s \in Shapes, NEW l \in Level, NEW x \in Elements,
         s.lpar[l][x] # Null
  PROVE  /\ s.steps[l][x] \in Nat
         /\ s.height[x] > l + 1 => s.steps[l][x] = 0 /\ s.lpar[l][x] = x
         /\ ~(s.height[x] > l + 1) =>
              /\ s.left[l][x] \in Elements
              /\ s.lpar[l][s.left[l][x]] = s.lpar[l][x]
              /\ s.right[l][s.left[l][x]] = x
              /\ s.steps[l][x] = s.steps[l][s.left[l][x]] + 1
              /\ s.steps[l][s.left[l][x]] \in Nat
<1>1. WellFormed(s)
  BY ShapesAreWellFormed
<1>2. s.lpar[l][x] = IF s.height[x] > l + 1 THEN x
                     ELSE IF s.left[l][x] = Null THEN Null
                     ELSE s.lpar[l][s.left[l][x]]
  BY <1>1 DEF WellFormed, LeftParents
<1>3. s.steps[l][x] = IF s.height[x] > l + 1 THEN 0
                      ELSE s.steps[l][s.left[l][x]] + 1
  BY <1>1 DEF WellFormed, LeftSteps
<1>4. \A y \in Elements : s.steps[l][y] \in Nat
  BY <1>1 DEF WellFormed, ShapeType
<1>5. s.left[l][x] # Null => s.left[l][x] \in Elements
  BY ShapeFacts DEF Ref
<1>6. s.left[l][x] # Null => s.right[l][s.left[l][x]] = x
  BY <1>5, ShapeFacts
<1> QED BY <1>2, <1>3, <1>4, <1>5, <1>6

(* The element before a short one has the same left parent and is one step *)
(* nearer to it.                                                           *)
LEMMA StepBefore ==
  ASSUME NEW s \in Shapes, NEW l \in Level, NEW x \in Elements, NEW p, p # Null,
         s.lpar[l][x] = p, ~(s.height[x] > l + 1)
  PROVE  /\ s.left[l][x] \in Elements
         /\ s.lpar[l][s.left[l][x]] = p
         /\ s.right[l][s.left[l][x]] = x
         /\ s.steps[l][x] = s.steps[l][s.left[l][x]] + 1
         /\ s.steps[l][s.left[l][x]] \in Nat
BY StepFacts

LEMMA StepBelow ==
  ASSUME NEW s \in Shapes, NEW l \in Level, NEW p \in Elements,
         NEW x \in Below(s, l, p), ~(s.height[x] > l + 1)
  PROVE  /\ s.left[l][x] \in Below(s, l, p)
         /\ s.right[l][s.left[l][x]] = x
         /\ s.steps[l][s.left[l][x]] \in Nat
         /\ s.steps[l][x] = s.steps[l][s.left[l][x]] + 1
<1>1. x \in Elements /\ s.lpar[l][x] = p /\ p # Null
  BY Basics DEF Below
<1> QED BY <1>1, StepBefore DEF Below

(* No two elements are equally far from their common left parent.          *)
LEMMA OneAtEachStep ==
  ASSUME NEW s \in Shapes, NEW l \in Level, NEW p \in Elements,
         NEW x \in Below(s, l, p), NEW y \in Below(s, l, p),
         s.steps[l][x] = s.steps[l][y]
  PROVE  x = y
<1> DEFINE Twice(n) == \E a, b \in Below(s, l, p) :
                         a # b /\ s.steps[l][a] = n /\ s.steps[l][b] = n
           T == {n \in Nat : Twice(n)}
<1>0. \A a \in Below(s, l, p) : a \in Elements /\ s.lpar[l][a] = p /\ p # Null
  BY Basics DEF Below
<1>1. SUFFICES ASSUME x # y PROVE FALSE
  OBVIOUS
<1>2. s.steps[l][x] \in T
  BY <1>0, <1>1, StepFacts
<1>3. PICK m \in T : \A n \in T : m <= n
  <2> HIDE DEF Twice
  <2>1. T \subseteq Nat /\ T # {}
    BY <1>2
  <2> HIDE DEF T
  <2> QED BY <2>1, LeastNumber
<1>4. PICK a, b \in Below(s, l, p) :
        a # b /\ s.steps[l][a] = m /\ s.steps[l][b] = m
  OBVIOUS
<1>5. ~(s.height[a] > l + 1) /\ ~(s.height[b] > l + 1)
  BY <1>0, <1>4, StepFacts
<1> DEFINE c == s.left[l][a]
           d == s.left[l][b]
<1>6. /\ c \in Below(s, l, p) /\ s.right[l][c] = a
      /\ s.steps[l][c] \in Nat /\ s.steps[l][a] = s.steps[l][c] + 1
  BY <1>4, <1>5, StepBelow
<1>7. /\ d \in Below(s, l, p) /\ s.right[l][d] = b
      /\ s.steps[l][d] \in Nat /\ s.steps[l][b] = s.steps[l][d] + 1
  BY <1>4, <1>5, StepBelow
<1>8. c # d /\ s.steps[l][c] = s.steps[l][d]
  <2> HIDE DEF T, c, d
  <2>1. s.steps[l][c] + 1 = s.steps[l][d] + 1
    BY <1>4, <1>6, <1>7, Zenon
  <2> QED BY <1>4, <1>6, <1>7, <2>1
<1>9. s.steps[l][c] \in T
  BY <1>6, <1>7, <1>8
<1> HIDE DEF T, c
<1> QED BY <1>3, <1>4, <1>6, <1>9

(* The element whose right neighbour reaches the level above is the last   *)
(* below its parent.                                                       *)
LEMMA LastBelow ==
  ASSUME NEW s \in Shapes, NEW l \in Level, NEW p \in Elements,
         NEW m \in Below(s, l, p),
         s.right[l][m] = Null \/ s.height[s.right[l][m]] > l + 1
  PROVE  \A c \in Below(s, l, p) : s.steps[l][c] <= s.steps[l][m]
<1> DEFINE T == {n \in Nat : \E c \in Below(s, l, p) :
                   s.steps[l][c] = n /\ n > s.steps[l][m]}
<1>0. \A a \in Below(s, l, p) :
        a \in Elements /\ s.lpar[l][a] = p /\ p # Null /\ s.steps[l][a] \in Nat
  BY Basics, StepFacts DEF Below
<1>1. SUFFICES ASSUME NEW c \in Below(s, l, p), ~(s.steps[l][c] <= s.steps[l][m])
               PROVE  FALSE
  OBVIOUS
<1>2. s.steps[l][c] \in T
  BY <1>0, <1>1
<1>3. PICK n \in T : \A k \in T : n <= k
  <2>1. T \subseteq Nat /\ T # {}
    BY <1>2
  <2> HIDE DEF T
  <2> QED BY <2>1, LeastNumber
<1>4. PICK d \in Below(s, l, p) : s.steps[l][d] = n /\ n > s.steps[l][m]
  OBVIOUS
<1>5. ~(s.height[d] > l + 1)
  BY <1>0, <1>4, StepFacts
<1> DEFINE e == s.left[l][d]
<1>6. /\ e \in Below(s, l, p) /\ s.right[l][e] = d
      /\ s.steps[l][e] \in Nat /\ s.steps[l][d] = s.steps[l][e] + 1
  BY <1>5, StepBelow
<1>7. s.steps[l][e] = s.steps[l][m]
  <2>1. s.steps[l][e] > s.steps[l][m] => s.steps[l][e] \in T
    BY <1>6
  <2>2. s.steps[l][m] \in Nat
    BY <1>0
  <2> HIDE DEF T, e
  <2> QED BY <2>1, <2>2, <1>3, <1>4, <1>6
<1>8. e = m
  BY <1>6, <1>7, OneAtEachStep
<1>9. d # Null
  BY <1>0, Basics
<1> QED BY <1>5, <1>6, <1>8, <1>9

----
(* Walks *)

(* The walk that repeats one step.                                         *)
LEMMA WalkWithin ==
  ASSUME NEW S, NEW base \in S, NEW Step \in [S -> S]
  PROVE  \E f : /\ OnNaturals(f)
                /\ f[0] = base
                /\ \A k \in Nat : f[k] \in S /\ f[k + 1] = Step[f[k]]
<1>1. PICK G : \A k \in Nat : \A y \in S : G[<<k, y>>] = Step[y]
  <2> DEFINE H == [ky \in Nat \X S |-> Step[ky[2]]]
  <2>1. \A k \in Nat : \A y \in S : H[<<k, y>>] = Step[y]
    OBVIOUS
  <2> HIDE DEF H
  <2> QED BY <2>1
<1>2. \A k \in Nat : \A y \in S : G[<<k, y>>] \in S
  BY <1>1
<1>3. PICK f : /\ OnNaturals(f)
               /\ f[0] = base
               /\ \A k \in Nat : f[k] \in S /\ f[k + 1] = G[<<k, f[k]>>]
  BY <1>2, Recursion
<1>4. \A k \in Nat : f[k + 1] = Step[f[k]]
  BY <1>1, <1>3
<1> QED BY <1>3, <1>4, Zenon

(* A search for a taller element ends at one, or with Null; it ends at once
   where it begins at one.                                                 *)
LEMMA Taller ==
  ASSUME NEW h \in [Elements -> Int], NEW to \in [Elements -> Ref], NEW l \in Int, NEW x \in Elements
  PROVE  /\ FirstTaller(h, to, l, x) \in Ref
         /\ FirstTaller(h, to, l, x) # Null => h[FirstTaller(h, to, l, x)] > l + 1
         /\ h[x] > l + 1 => FirstTaller(h, to, l, x) = x
<1> DEFINE Step(at) == IF at = Null \/ h[at] > l + 1 THEN at ELSE to[at]
           walk == CHOOSE walk : walk = [k \in Nat |-> IF k = 0 THEN x ELSE Step(walk[k - 1])]
           n == Cardinality(Elements)
<1>1. n \in Nat
  BY ElementsAreFinite, FS_CardinalityType
<1>2. PICK G \in [Ref -> Ref] : \A y \in Ref : G[y] = Step(y)
  <2> DEFINE H == [y \in Ref |-> Step(y)]
  <2>1. \A y \in Ref : Step(y) \in Ref
    BY DEF Ref
  <2>2. H \in [Ref -> Ref] /\ \A y \in Ref : H[y] = Step(y)
    <3> HIDE DEF Step
    <3> QED BY <2>1
  <2> HIDE DEF H, Step
  <2> QED BY <2>2
<1>4. x \in Ref
  BY DEF Ref
<1>5. PICK f : /\ OnNaturals(f)
               /\ f[0] = x
               /\ \A k \in Nat : f[k] \in Ref /\ f[k + 1] = G[f[k]]
  <2> HIDE DEF n, walk, Step
  <2> QED BY <1>4, WalkWithin
<1>6. \A k \in Nat \ {0} : f[k] = Step(f[k - 1])
  <2> SUFFICES ASSUME NEW k \in Nat \ {0} PROVE f[k] = Step(f[k - 1])
    OBVIOUS
  <2>1. k - 1 \in Nat /\ (k - 1) + 1 = k
    OBVIOUS
  <2> HIDE DEF Step
  <2>2. f[k] = G[f[k - 1]] /\ f[k - 1] \in Ref
    BY <1>5, <2>1
  <2> QED BY <2>1, <2>2, <1>2
<1>7. f = [k \in Nat |-> IF k = 0 THEN x ELSE Step(f[k - 1])]
  <2> HIDE DEF Step
  <2>1. f = [k \in Nat |-> f[k]]
    BY <1>5 DEF OnNaturals
  <2>2. \A k \in Nat : f[k] = IF k = 0 THEN x ELSE Step(f[k - 1])
    BY <1>5, <1>6
  <2> QED BY <2>1, <2>2, Zenon
<1>8. walk = [k \in Nat |-> IF k = 0 THEN x ELSE Step(walk[k - 1])]
  <2> HIDE DEF Step
  <2> QED BY <1>7, Zenon DEF walk
<1>9. FirstTaller(h, to, l, x) = IF walk[n] # Null /\ h[walk[n]] > l + 1 THEN walk[n] ELSE Null
  BY Zenon DEF FirstTaller, walk, Step
<1> HIDE DEF walk
<1>10. \A k \in Nat : walk[k] \in Ref
  <2> DEFINE T == {k \in Nat : walk[k] \in Ref}
  <2>1. 0 \in T
    BY <1>4, <1>8
  <2>2. ASSUME NEW k \in Nat, k \in T PROVE k + 1 \in T
    <3>1. walk[k + 1] = Step(walk[k])
      <4>1. k + 1 \in Nat /\ k + 1 # 0 /\ (k + 1) - 1 = k
        OBVIOUS
      <4> HIDE DEF Step
      <4> QED BY <1>8, <4>1
    <3>2. walk[k] \in Ref
      BY <2>2
    <3> QED BY <3>1, <3>2 DEF Ref
  <2> HIDE DEF T
  <2>3. \A k \in Nat : k \in T
    BY <2>1, <2>2, Induction
  <2> QED BY <2>3 DEF T
<1>11. ASSUME h[x] > l + 1 PROVE walk[n] = x
  <2> DEFINE T == {k \in Nat : walk[k] = x}
  <2>1. 0 \in T
    BY <1>8
  <2>2. ASSUME NEW k \in Nat, k \in T PROVE k + 1 \in T
    <3>1. walk[k + 1] = Step(walk[k])
      <4>1. k + 1 \in Nat /\ k + 1 # 0 /\ (k + 1) - 1 = k
        OBVIOUS
      <4> HIDE DEF Step
      <4> QED BY <1>8, <4>1
    <3> QED BY <3>1, <2>2, <1>11
  <2> HIDE DEF T
  <2>3. \A k \in Nat : k \in T
    BY <2>1, <2>2, Induction
  <2> QED BY <1>1, <2>3 DEF T
<1>12. x # Null
  BY ElementsAreAddresses DEF Null
<1> QED BY <1>1, <1>9, <1>10, <1>11, <1>12 DEF Ref

----
(* What is reached *)

(* A set that grows by the neighbours of its elements is closed after as   *)
(* many steps as there are elements, and is the least that is.             *)
LEMMA Growing ==
  ASSUME NEW U, IsFiniteSet(U), NEW x \in U, NEW G \in [U -> SUBSET U],
         NEW R, R[0] = {x}, \A k \in Nat : R[k + 1] = R[k] \cup UNION {G[e] : e \in R[k]}
  PROVE  LET last == R[Cardinality(U)] IN
         /\ x \in last /\ last \subseteq U
         /\ \A e \in last : G[e] \subseteq last
         /\ \A C : x \in C /\ (\A e \in C \cap U : G[e] \subseteq C) => last \subseteq C
<1> DEFINE m == Cardinality(U)
           Grown(k) == R[k] \cup UNION {G[e] : e \in R[k]}
           A == {k \in Nat : x \in R[k] /\ R[k] \subseteq U}
           Stable(k) == \A e \in R[k] : G[e] \subseteq R[k]
           B == {k \in Nat : Stable(k) \/ Cardinality(R[k]) >= k + 1}
<1>1. m \in Nat
  BY FS_CardinalityType
<1>2. \A k \in Nat : k \in A
  <2>1. 0 \in A
    OBVIOUS
  <2>2. ASSUME NEW k \in Nat, k \in A PROVE k + 1 \in A
    <3>1. x \in Grown(k) /\ Grown(k) \subseteq U
      BY <2>2
    <3> QED BY <3>1
  <2> HIDE DEF A
  <2> QED BY <2>1, <2>2, Induction
<1>3. \A k \in Nat : IsFiniteSet(R[k]) /\ Cardinality(R[k]) \in Nat /\ Cardinality(R[k]) <= m
  BY <1>2, FS_Subset, FS_CardinalityType
<1>4. \A k \in Nat : k \in B
  <2>1. 0 \in B
    <3>1. Cardinality({x}) = 1
      BY FS_Singleton
    <3>2. Cardinality(R[0]) >= 0 + 1
      BY <3>1
    <3> HIDE DEF Stable
    <3> QED BY <3>2
  <2>2. ASSUME NEW k \in Nat, k \in B PROVE k + 1 \in B
    <3>1. k + 1 \in Nat /\ R[k + 1] = Grown(k) /\ R[k] \subseteq Grown(k)
      OBVIOUS
    <3>2. CASE Stable(k)
      <4>1. R[k + 1] = R[k]
        BY <3>1, <3>2
      <4> QED BY <4>1, <3>1, <3>2
    <3>3. CASE ~Stable(k)
      <4>1. R[k] # R[k + 1]
        BY <3>1, <3>3
      <4>2. Cardinality(R[k]) >= k + 1
        BY <2>2, <3>3
      <4>3. PICK P, Q : P = R[k] /\ Q = R[k + 1]
        OBVIOUS
      <4>4. P \in SUBSET Q /\ P # Q /\ IsFiniteSet(Q) /\ IsFiniteSet(P)
        BY <4>3, <4>1, <3>1, <1>3
      <4>5. Cardinality(P) <= Cardinality(Q) /\ Cardinality(P) # Cardinality(Q)
        BY <4>4, FS_Subset
      <4>6. Cardinality(P) \in Nat /\ Cardinality(Q) \in Nat
        BY <4>4, FS_CardinalityType
      <4>7. Cardinality(Q) >= (k + 1) + 1
        BY <4>2, <4>3, <4>5, <4>6
      <4> QED BY <4>3, <4>7, <3>1
    <3> QED BY <3>2, <3>3
  <2> HIDE DEF B
  <2> QED BY <2>1, <2>2, Induction
<1>5. Stable(m)
  <2>1. m \in B /\ Cardinality(R[m]) <= m /\ Cardinality(R[m]) \in Nat
    BY <1>1, <1>3, <1>4
  <2> HIDE DEF Stable, m
  <2> QED BY <2>1, <1>1
<1>6. ASSUME NEW C, x \in C, \A e \in C \cap U : G[e] \subseteq C PROVE R[m] \subseteq C
  <2> DEFINE D == {k \in Nat : R[k] \subseteq C}
  <2>1. 0 \in D
    BY <1>6
  <2>2. ASSUME NEW k \in Nat, k \in D PROVE k + 1 \in D
    <3>1. R[k] \subseteq U
      BY <1>2
    <3>2. Grown(k) \subseteq C
      BY <2>2, <3>1, <1>6
    <3> QED BY <3>2
  <2> HIDE DEF D
  <2>3. m \in D
    BY <2>1, <2>2, <1>1, Induction
  <2> QED BY <2>3 DEF D
<1>7. x \in R[m] /\ R[m] \subseteq U
  BY <1>1, <1>2
<1> QED BY <1>5, <1>6, <1>7

Closed(T, to) == \A y \in T : to[y] # Null => to[y] \in T

(* Reached is the least set that holds x and, with an element, the next.   *)
LEMMA ReachedLeast ==
  ASSUME NEW to \in [Elements -> Ref], NEW x \in Elements
  PROVE  /\ x \in Reached(to, x) /\ Reached(to, x) \in SUBSET Elements
         /\ Closed(Reached(to, x), to)
         /\ \A T \in SUBSET Elements : x \in T /\ Closed(T, to) => Reached(to, x) \subseteq T
<1> DEFINE Grown(X) == (UNION {{y, to[y]} : y \in X}) \ {Null}
           reached == CHOOSE reached :
             reached = [k \in Nat |-> IF k = 0 THEN {x} ELSE Grown(reached[k - 1])]
           Sets == SUBSET Elements
<1>1. Null \notin Elements /\ {x} \in Sets /\ \A X \in Sets : Grown(X) \in Sets
  BY Basics DEF Ref
<1>2. PICK f : /\ OnNaturals(f)
               /\ f[0] = {x}
               /\ \A k \in Nat : f[k] \in Sets /\ f[k + 1] = Grown(f[k])
  <2>1. PICK G \in [Sets -> Sets] : \A X \in Sets : G[X] = Grown(X)
    <3> DEFINE H == [X \in Sets |-> Grown(X)]
    <3>1. H \in [Sets -> Sets] /\ \A X \in Sets : H[X] = Grown(X)
      <4> HIDE DEF Grown, Sets
      <4> QED BY <1>1
    <3> HIDE DEF H
    <3> QED BY <3>1
  <2> HIDE DEF Grown, Sets, reached
  <2>2. PICK base \in Sets : base = {x}
    BY <1>1
  <2>3. PICK f : /\ OnNaturals(f)
                 /\ f[0] = base
                 /\ \A k \in Nat : f[k] \in Sets /\ f[k + 1] = G[f[k]]
    BY WalkWithin
  <2>4. \A k \in Nat : f[k + 1] = Grown(f[k])
    BY <2>1, <2>3
  <2> QED BY <2>2, <2>3, <2>4, Zenon
<1>3. f = [k \in Nat |-> IF k = 0 THEN {x} ELSE Grown(f[k - 1])]
  <2> HIDE DEF Grown, Sets, reached
  <2>1. f = [k \in Nat |-> f[k]]
    BY <1>2 DEF OnNaturals
  <2>2. ASSUME NEW k \in Nat PROVE f[k] = IF k = 0 THEN {x} ELSE Grown(f[k - 1])
    <3>1. CASE k = 0
      BY <3>1, <1>2
    <3>2. CASE k # 0
      <4>1. k - 1 \in Nat /\ (k - 1) + 1 = k
        BY <3>2
      <4>2. f[(k - 1) + 1] = Grown(f[k - 1])
        BY <4>1, <1>2
      <4> QED BY <3>2, <4>1, <4>2
    <3> QED BY <3>1, <3>2
  <2> QED BY <2>1, <2>2, Zenon
<1>4. reached = [k \in Nat |-> IF k = 0 THEN {x} ELSE Grown(reached[k - 1])]
  <2> HIDE DEF Grown
  <2> QED BY <1>3, Zenon DEF reached
<1>5. Reached(to, x) = reached[Cardinality(Elements)]
  BY Zenon DEF Reached, reached, Grown
<1> HIDE DEF reached
<1>6. reached[0] = {x} /\ \A k \in Nat : reached[k + 1] = Grown(reached[k])
  <2> HIDE DEF Grown
  <2>1. 0 \in Nat /\ reached[0] = IF 0 = 0 THEN {x} ELSE Grown(reached[0 - 1])
    BY <1>4, Zenon
  <2>2. ASSUME NEW k \in Nat PROVE reached[k + 1] = Grown(reached[k])
    <3>1. k + 1 \in Nat /\ k + 1 # 0 /\ (k + 1) - 1 = k
      OBVIOUS
    <3>2. reached[k + 1] = IF k + 1 = 0 THEN {x} ELSE Grown(reached[(k + 1) - 1])
      BY <3>1, <1>4, Zenon
    <3> QED BY <3>1, <3>2
  <2> QED BY <2>1, <2>2
<1>7. \A k \in Nat : reached[k] \in Sets
  <2> DEFINE T == {k \in Nat : reached[k] \in Sets}
  <2> HIDE DEF Sets, Grown
  <2>1. 0 \in T
    BY <1>1, <1>6
  <2>2. ASSUME NEW k \in Nat, k \in T PROVE k + 1 \in T
    BY <2>2, <1>1, <1>6
  <2> HIDE DEF T
  <2>3. \A k \in Nat : k \in T
    BY <2>1, <2>2, Induction
  <2> QED BY <2>3 DEF T
<1>8. PICK G \in [Elements -> SUBSET Elements] : \A y \in Elements : G[y] = {to[y]} \ {Null}
  <2> DEFINE H == [y \in Elements |-> {to[y]} \ {Null}]
  <2>1. H \in [Elements -> SUBSET Elements]
    BY DEF Ref
  <2>2. \A y \in Elements : H[y] = {to[y]} \ {Null}
    OBVIOUS
  <2> HIDE DEF H
  <2> QED BY <2>1, <2>2
<1>9. \A k \in Nat : reached[k + 1] = reached[k] \cup UNION {G[e] : e \in reached[k]}
  <2> SUFFICES ASSUME NEW k \in Nat
               PROVE  reached[k + 1] = reached[k] \cup UNION {G[e] : e \in reached[k]}
    OBVIOUS
  <2>1. reached[k] \in SUBSET Elements /\ reached[k + 1] = Grown(reached[k])
    BY <1>6, <1>7
  <2>2. \A X \in SUBSET Elements : Grown(X) = X \cup UNION {G[e] : e \in X}
    BY <1>1, <1>8
  <2> HIDE DEF Grown
  <2> QED BY <2>1, <2>2
<1> DEFINE last == reached[Cardinality(Elements)]
<1> HIDE DEF Grown, Sets
<1>10. /\ x \in last /\ last \subseteq Elements
       /\ \A e \in last : G[e] \subseteq last
       /\ \A C : x \in C /\ (\A e \in C \cap Elements : G[e] \subseteq C) => last \subseteq C
  BY <1>6, <1>9, ElementsAreFinite, Growing, Zenon
<1> HIDE DEF last
<1>11. Closed(last, to)
  BY <1>8, <1>10 DEF Closed
<1>12. ASSUME NEW T \in SUBSET Elements, x \in T, Closed(T, to) PROVE last \subseteq T
  <2>1. \A e \in T \cap Elements : G[e] \subseteq T
    BY <1>8, <1>12 DEF Closed
  <2> QED BY <2>1, <1>10, <1>12
<1> QED BY <1>5, <1>10, <1>11, <1>12 DEF last

LEMMA ReachedOn ==
  ASSUME NEW to \in [Elements -> Ref], NEW x \in Elements, NEW y \in Reached(to, x)
  PROVE  y \in Elements /\ Reached(to, y) \subseteq Reached(to, x)
BY ReachedLeast

(* Everything reached but x is next to something that is.                  *)
LEMMA ReachedNext ==
  ASSUME NEW to \in [Elements -> Ref], NEW x \in Elements, NEW y \in Reached(to, x), y # x
  PROVE  \E z \in Reached(to, x) : to[z] = y
<1> DEFINE T == {y1 \in Reached(to, x) : y1 = x \/ \E z \in Reached(to, x) : to[z] = y1}
<1>1. x \in T /\ T \in SUBSET Elements
  BY ReachedLeast
<1>2. Closed(T, to)
  BY ReachedLeast DEF Closed
<1> HIDE DEF T
<1>3. Reached(to, x) \subseteq T
  BY <1>1, <1>2, ReachedLeast
<1> QED BY <1>3 DEF T

LEMMA ReachedAtEnd ==
  ASSUME NEW to \in [Elements -> Ref], NEW x \in Elements, to[x] = Null
  PROVE  Reached(to, x) = {x}
<1>1. PICK T \in SUBSET Elements : T = {x}
  OBVIOUS
<1>2. Closed(T, to)
  BY <1>1 DEF Closed
<1> QED BY <1>1, <1>2, ReachedLeast

(* An end that is reached is reached from everything else that is.         *)
LEMMA EndReached ==
  ASSUME NEW to \in [Elements -> Ref], NEW x \in Elements,
         NEW e \in Reached(to, x), to[e] = Null, NEW w \in Reached(to, x)
  PROVE  e \in Reached(to, w)
<1> DEFINE T == {v \in Elements : e \in Reached(to, v)}
<1>1. x \in T /\ T \in SUBSET Elements
  OBVIOUS
<1>2. Closed(T, to)
  <2> SUFFICES ASSUME NEW v \in T, to[v] # Null PROVE to[v] \in T
    BY DEF Closed
  <2>1. PICK n \in Elements : n = to[v]
    BY DEF Ref
  <2>2. e # v
    OBVIOUS
  <2>3. PICK y \in Reached(to, v) : to[y] = e
    BY <2>2, ReachedNext
  <2> DEFINE V == {v} \cup Reached(to, n)
  <2>4. v \in V /\ V \in SUBSET Elements /\ Closed(V, to)
    BY <2>1, ReachedLeast DEF Closed
  <2> HIDE DEF V
  <2>5. Reached(to, v) \subseteq V
    BY <2>4, ReachedLeast
  <2>6. e \in Reached(to, n)
    BY <2>2, <2>5 DEF V
  <2> QED BY <2>1, <2>6
<1> HIDE DEF T
<1>3. Reached(to, x) \subseteq T
  BY <1>1, <1>2, ReachedLeast
<1> QED BY <1>3 DEF T

LEMMA OneEnd ==
  ASSUME NEW to \in [Elements -> Ref], NEW x \in Elements,
         NEW e \in Reached(to, x), to[e] = Null, NEW f \in Reached(to, x), to[f] = Null
  PROVE  e = f
<1>1. e \in Reached(to, f) /\ f \in Elements
  BY EndReached, ReachedLeast
<1> QED BY <1>1, ReachedAtEnd

(* What leads back from the next leads back from everything reached.       *)
LEMMA ReachedBack ==
  ASSUME NEW to \in [Elements -> Ref], NEW fro \in [Elements -> Ref],
         \A a, b \in Elements : to[a] = b => fro[b] = a,
         NEW x \in Elements, NEW y \in Reached(to, x)
  PROVE  x \in Reached(fro, y)
<1> DEFINE T == {v \in Elements : x \in Reached(fro, v)}
<1>1. x \in T /\ T \in SUBSET Elements
  BY ReachedLeast
<1>2. Closed(T, to)
  <2> SUFFICES ASSUME NEW v \in T, to[v] # Null PROVE to[v] \in T
    BY DEF Closed
  <2>1. PICK n \in Elements : n = to[v]
    BY DEF Ref
  <2>2. fro[n] = v /\ v # Null
    BY <2>1, Basics
  <2>3. v \in Reached(fro, n)
    BY <2>1, <2>2, ReachedLeast DEF Closed
  <2>4. x \in Reached(fro, n)
    BY <2>1, <2>3, ReachedOn
  <2> QED BY <2>1, <2>4
<1> HIDE DEF T
<1>3. Reached(to, x) \subseteq T
  BY <1>1, <1>2, ReachedLeast
<1> QED BY <1>3 DEF T

----
(* Lists *)

LEMMA Neighbours ==
  ASSUME NEW s \in Shapes, NEW B \in SUBSET Elements
  PROVE  /\ RightOf(s, B) \in [Elements -> Ref]
         /\ LeftOf(s, B) \in [Elements -> Ref]
         /\ \A a, b \in Elements : RightOf(s, B)[a] = b <=> LeftOf(s, B)[b] = a
         /\ \A a, b \in Elements : RightOf(s, B)[a] = b <=> a \in B /\ s.right[0][a] = b
         /\ \A a \in Elements : RightOf(s, B)[a] = IF a \in B THEN s.right[0][a] ELSE Null
<1>1. 0 \in Level /\ Null \notin Elements
  BY Basics
<1>2. /\ \A x \in Elements : s.right[0][x] \in Ref /\ s.left[0][x] \in Ref
      /\ \A x, y \in Elements : s.right[0][x] = y <=> s.left[0][y] = x
  BY <1>1, ShapeFacts
<1>3. \A a \in Elements : RightOf(s, B)[a] = IF a \in B THEN s.right[0][a] ELSE Null
  BY DEF RightOf
<1>4. \A a \in Elements : LeftOf(s, B)[a] = IF s.left[0][a] \in B THEN s.left[0][a] ELSE Null
  BY DEF LeftOf
<1>5. RightOf(s, B) \in [Elements -> Ref] /\ LeftOf(s, B) \in [Elements -> Ref]
  BY <1>2 DEF RightOf, LeftOf, Ref
<1> QED BY <1>1, <1>2, <1>3, <1>4, <1>5

(* The list of x is the least set that holds x and, with an element, its   *)
(* neighbours to both sides.                                               *)
LEMMA ListLeast ==
  ASSUME NEW s \in Shapes, NEW B \in SUBSET Elements, NEW x \in Elements
  PROVE  LET L == ListOf(s, B, x) IN
         /\ x \in L /\ L \in SUBSET Elements
         /\ Closed(L, RightOf(s, B)) /\ Closed(L, LeftOf(s, B))
         /\ \A T \in SUBSET Elements :
              x \in T /\ Closed(T, RightOf(s, B)) /\ Closed(T, LeftOf(s, B)) => L \subseteq T
<1> DEFINE R == RightOf(s, B)
           F == LeftOf(s, B)
           L == Reached(R, x) \cup Reached(F, x)
<1>1. /\ R \in [Elements -> Ref] /\ F \in [Elements -> Ref]
      /\ \A a, b \in Elements : R[a] = b <=> F[b] = a
  BY Neighbours
<1>2. L = ListOf(s, B, x)
  BY DEF ListOf
<1> HIDE DEF R, F
<1>3. /\ x \in Reached(R, x) /\ Reached(R, x) \in SUBSET Elements /\ Closed(Reached(R, x), R)
      /\ x \in Reached(F, x) /\ Reached(F, x) \in SUBSET Elements /\ Closed(Reached(F, x), F)
      /\ \A T \in SUBSET Elements : x \in T /\ Closed(T, R) => Reached(R, x) \subseteq T
      /\ \A T \in SUBSET Elements : x \in T /\ Closed(T, F) => Reached(F, x) \subseteq T
  BY <1>1, ReachedLeast
<1>4. ASSUME NEW y \in Reached(F, x), R[y] # Null PROVE R[y] \in L
  <2>1. CASE y = x
    BY <2>1, <1>3, <1>4 DEF Closed
  <2>2. CASE y # x
    <3>1. PICK z \in Reached(F, x) : F[z] = y
      BY <2>2, <1>1, ReachedNext
    <3>2. R[y] = z
      BY <3>1, <1>1, <1>3
    <3> QED BY <3>2
  <2> QED BY <2>1, <2>2
<1>5. ASSUME NEW y \in Reached(R, x), F[y] # Null PROVE F[y] \in L
  <2>1. CASE y = x
    BY <2>1, <1>3, <1>5 DEF Closed
  <2>2. CASE y # x
    <3>1. PICK z \in Reached(R, x) : R[z] = y
      BY <2>2, <1>1, ReachedNext
    <3>2. F[y] = z
      BY <3>1, <1>1, <1>3
    <3> QED BY <3>2
  <2> QED BY <2>1, <2>2
<1>6. Closed(L, R) /\ Closed(L, F)
  BY <1>3, <1>4, <1>5 DEF Closed
<1> QED BY <1>2, <1>3, <1>6 DEF R, F

(* Every element of a list has the same list.                              *)
LEMMA OneList ==
  ASSUME NEW s \in Shapes, NEW B \in SUBSET Elements, NEW x \in Elements,
         NEW y \in ListOf(s, B, x)
  PROVE  y \in Elements /\ ListOf(s, B, y) = ListOf(s, B, x)
<1>1. y \in Elements
  BY ListLeast
<1>2. ListOf(s, B, y) \subseteq ListOf(s, B, x)
  BY <1>1, ListLeast
<1>3. x \in ListOf(s, B, y)
  <2> DEFINE R == RightOf(s, B)
             F == LeftOf(s, B)
  <2>1. /\ R \in [Elements -> Ref] /\ F \in [Elements -> Ref]
        /\ \A a, b \in Elements : R[a] = b <=> F[b] = a
    BY Neighbours
  <2> HIDE DEF R, F
  <2>2. y \in Reached(R, x) => x \in Reached(F, y)
    BY <2>1, ReachedBack
  <2>3. y \in Reached(F, x) => x \in Reached(R, y)
    BY <2>1, ReachedBack
  <2> QED BY <2>2, <2>3 DEF ListOf, R, F
<1>4. ListOf(s, B, x) \subseteq ListOf(s, B, y)
  BY <1>1, <1>3, ListLeast
<1> QED BY <1>1, <1>2, <1>4

----
(* What a link skips *)

(* The right neighbour of y at level 0 is there, and no taller than l.     *)
GoesOn(s, l, y) == s.right[0][y] # Null /\ ~(s.height[s.right[0][y]] > l)

ClosedUpTo(s, l, T) == \A y \in T : GoesOn(s, l, y) => s.right[0][y] \in T

(* The elements that the link leaving p at level l skips: p and, to the    *)
(* right of it, what comes before the next element that reaches the level, *)
(* which is the one that the link leads to.                                *)
Skips(s, l, p) ==
  /\ p \in s.span[l][p] /\ s.span[l][p] \in SUBSET Elements
  /\ \A y \in s.span[l][p] : y = p \/ ~(s.height[y] > l)
  /\ ClosedUpTo(s, l, s.span[l][p])
  /\ \A y \in s.span[l][p] :
       s.right[0][y] # Null /\ ~GoesOn(s, l, y) => s.right[0][y] = s.right[l][p]
  /\ \A T \in SUBSET Elements : p \in T /\ ClosedUpTo(s, l, T) => s.span[l][p] \subseteq T
  /\ s.right[l][p] # Null => s.left[0][s.right[l][p]] \in s.span[l][p]

LEMMA SkipsFirst ==
  ASSUME NEW s \in Shapes, NEW p \in Elements
  PROVE  Skips(s, 0, p)
<1>1. s.span[0][p] = {p}
  BY ShapesAreWellFormed DEF WellFormed, Spans
<1>2. 0 \in Level /\ Null \notin Elements
  BY Basics
<1>3. \A y \in Elements : ~GoesOn(s, 0, y)
  <2> SUFFICES ASSUME NEW y \in Elements, s.right[0][y] # Null PROVE s.height[s.right[0][y]] > 0
    BY DEF GoesOn
  <2>1. s.right[0][y] \in Elements
    BY <1>2, ShapeFacts DEF Ref
  <2>2. s.height[s.right[0][y]] \in 1 .. MaxHeight
    BY <1>2, <2>1, ShapeFacts
  <2> QED BY <2>2
<1>4. s.right[0][p] # Null => s.left[0][s.right[0][p]] = p
  BY <1>2, LeftOfRight
<1> QED BY <1>1, <1>3, <1>4 DEF Skips, ClosedUpTo

(* Below a parent: the parent itself, and elements that reach the level    *)
(* and no further.                                                         *)
LEMMA BelowFacts ==
  ASSUME NEW s \in Shapes, NEW l \in Level, NEW p \in Elements, s.height[p] > l + 1
  PROVE  /\ p \in Below(s, l, p)
         /\ \A c \in Below(s, l, p) :
              /\ c \in Elements /\ s.height[c] > l /\ s.steps[l][c] \in Nat
              /\ c = p \/ ~(s.height[c] > l + 1)
              /\ c = p <=> s.steps[l][c] = 0
<1>1. p # Null /\ s.lpar[l][p] = p /\ l \in Int
  BY Basics, ParentFacts
<1>2. ASSUME NEW c \in Elements, s.lpar[l][c] = p
      PROVE  /\ s.height[c] > l /\ s.steps[l][c] \in Nat
             /\ c = p \/ ~(s.height[c] > l + 1)
             /\ c = p <=> s.steps[l][c] = 0
  <2>0. s.height[c] \in Int
    BY ShapeFacts
  <2>1. CASE s.height[c] > l + 1
    <3>1. s.steps[l][c] = 0 /\ s.lpar[l][c] = c
      BY <1>1, <1>2, <2>1, StepFacts
    <3> QED BY <1>1, <1>2, <2>0, <2>1, <3>1
  <2>2. CASE ~(s.height[c] > l + 1)
    <3>1. /\ s.left[l][c] \in Elements /\ s.steps[l][c] = s.steps[l][s.left[l][c]] + 1
          /\ s.steps[l][s.left[l][c]] \in Nat /\ s.steps[l][c] \in Nat
      BY <1>1, <1>2, <2>2, StepFacts
    <3>2. s.left[l][c] # Null
      BY <3>1, Basics
    <3>3. s.height[c] > l
      BY <3>2, ShapesAreWellFormed DEF WellFormed, Tall
    <3>4. s.steps[l][c] # 0
      BY <3>1
    <3>5. c # p
      BY <2>2
    <3> QED BY <2>2, <3>1, <3>3, <3>4, <3>5
  <2> QED BY <2>1, <2>2
<1> QED BY <1>1, <1>2 DEF Below

(* Elements that each follow another one all follow one.                   *)
LEMMA AllFollow ==
  ASSUME NEW Q \in SUBSET Elements, NEW h \in [Q -> Q],
         \A x, y \in Q : h[x] = h[y] => x = y
  PROVE  \A y \in Q : \E x \in Q : h[x] = y
<1>1. IsFiniteSet(Q)
  BY ElementsAreFinite, FS_Subset
<1>2. h \in Injection(Q, Q)
  BY DEF Injection, IsInjective
<1>3. h \in Surjection(Q, Q)
  BY <1>1, <1>2, FS_Injection
<1> QED BY <1>3 DEF Surjection

(* The link of a parent leads where that of its last child leads.          *)
LEMMA LastChild ==
  ASSUME NEW s \in Shapes, NEW l \in Level, l + 1 \in Level, NEW p \in Elements,
         s.height[p] > l + 1, s.right[l + 1][p] # Null
  PROVE  \E c \in Below(s, l, p) : s.right[l][c] = s.right[l + 1][p]
<1> DEFINE C == Below(s, l, p)
           h == [c \in C |-> s.right[l][c]]
<1>1. ASSUME NEW c \in C
      PROVE  s.right[l][c] \in Elements /\ s.rpar[l][s.right[l][c]] = s.right[l + 1][p]
  <2>1. c \in Elements /\ s.lpar[l][c] = p
    BY DEF Below
  <2>2. s.right[l][c] # Null /\ s.rpar[l][s.right[l][c]] = s.right[l + 1][p]
    BY <2>1, ShapesAreWellFormed DEF WellFormed, ChildrenLinked
  <2> QED BY <2>1, <2>2, ShapeFacts DEF Ref
<1>2. SUFFICES ASSUME \A c \in C : ~(s.height[s.right[l][c]] > l + 1) PROVE FALSE
  BY <1>1, ParentFacts
<1>3. ASSUME NEW c \in C PROVE s.right[l][c] \in C /\ s.left[l][s.right[l][c]] = c
  <2>1. c \in Elements /\ s.lpar[l][c] = p
    BY DEF Below
  <2>2. PICK d \in Elements : d = s.right[l][c]
    BY <1>1
  <2>3. s.left[l][d] = c /\ c # Null /\ ~(s.height[d] > l + 1)
    BY <1>2, <2>1, <2>2, ShapeFacts, Basics
  <2>4. s.lpar[l][d] = p
    BY <2>1, <2>3, ParentFacts
  <2> QED BY <2>2, <2>3, <2>4 DEF Below
<1>4. p \in C /\ C \in SUBSET Elements
  BY BelowFacts DEF Below
<1>5. h \in [C -> C] /\ \A x, y \in C : h[x] = h[y] => x = y
  BY <1>3
<1>6. \A c \in C : h[c] # p
  BY <1>2
<1> HIDE DEF C, h
<1> QED BY <1>4, <1>5, <1>6, AllFollow

LEMMA SkipsAbove ==
  ASSUME NEW s \in Shapes, NEW l \in Level, l + 1 \in Level,
         \A c \in Elements : s.height[c] > l => Skips(s, l, c),
         NEW p \in Elements, s.height[p] > l + 1
  PROVE  Skips(s, l + 1, p)
<1> DEFINE C == Below(s, l, p)
           S == s.span[l + 1][p]
<1>1. S = UNION {s.span[l][c] : c \in C}
  BY ShapesAreWellFormed DEF WellFormed, Spans, Below
<1>2. /\ p \in C
      /\ \A c \in C : /\ c \in Elements /\ s.height[c] > l /\ s.steps[l][c] \in Nat
                      /\ c = p \/ ~(s.height[c] > l + 1)
                      /\ c = p <=> s.steps[l][c] = 0
  BY BelowFacts
<1>3. \A c \in C : Skips(s, l, c) /\ c \in s.span[l][c]
  BY <1>2 DEF Skips
<1>4. /\ 0 \in Level /\ l \in Int /\ Null \notin Elements /\ p # Null
      /\ \A x \in Elements : s.height[x] \in Int
  BY Basics, ShapeFacts
<1>5. \A y \in S : \E c \in C : y \in s.span[l][c]
  BY <1>1
<1>6. \A c \in C : s.span[l][c] \subseteq S
  BY <1>1
<1> HIDE DEF C, S
<1>7. p \in S /\ S \in SUBSET Elements
  <2>1. \A c \in C : s.span[l][c] \in SUBSET Elements
    BY <1>3 DEF Skips
  <2> QED BY <2>1, <1>2, <1>3, <1>5, <1>6
<1>8. ASSUME NEW y \in S, y # p PROVE ~(s.height[y] > l + 1)
  <2>1. PICK c \in C : y \in s.span[l][c]
    BY <1>5
  <2>2. y = c \/ ~(s.height[y] > l)
    BY <2>1, <1>3 DEF Skips
  <2> QED BY <2>2, <1>2, <1>4, <1>7, <1>8
<1>9. ASSUME NEW y \in S, s.right[0][y] # Null
      PROVE  IF GoesOn(s, l + 1, y) THEN s.right[0][y] \in S
             ELSE s.right[0][y] = s.right[l + 1][p]
  <2>1. PICK c \in C : y \in s.span[l][c]
    BY <1>5
  <2>2. Skips(s, l, c) /\ c \in Elements /\ s.lpar[l][c] = p
    BY <1>2, <1>3, <2>1 DEF C, Below
  <2>3. PICK r \in Elements : r = s.right[0][y]
    BY <1>4, <1>7, <1>9, ShapeFacts DEF Ref
  <2>4. CASE GoesOn(s, l, y)
    <3>1. r \in S
      BY <2>1, <2>2, <2>3, <2>4, <1>6 DEF Skips, ClosedUpTo
    <3>2. ~(s.height[r] > l + 1)
      BY <2>3, <2>4, <1>4 DEF GoesOn
    <3> QED BY <2>3, <3>1, <3>2, <1>9 DEF GoesOn
  <2>5. CASE ~GoesOn(s, l, y)
    <3>1. r = s.right[l][c] /\ r # Null
      BY <2>1, <2>2, <2>3, <2>5, <1>9 DEF Skips
    <3>2. s.left[l][r] = c /\ c # Null
      BY <3>1, <2>2, <1>4, ShapeFacts
    <3>3. CASE s.height[r] > l + 1
      <4>1. s.rpar[l][r] = r
        BY <3>3, ParentFacts
      <4>2. s.right[l + 1][p] = r
        BY <3>1, <4>1, <2>2, ParentFacts
      <4> QED BY <4>2, <3>3, <2>3 DEF GoesOn
    <3>4. CASE ~(s.height[r] > l + 1)
      <4>1. s.lpar[l][r] = p
        BY <3>2, <3>4, <2>2, <1>4, ParentFacts
      <4>2. r \in S
        BY <4>1, <1>3, <1>6 DEF C, Below
      <4> QED BY <4>2, <3>4, <2>3, <1>9 DEF GoesOn
    <3> QED BY <3>3, <3>4
  <2> QED BY <2>4, <2>5
<1>10. ASSUME NEW T \in SUBSET Elements, p \in T, ClosedUpTo(s, l + 1, T) PROVE S \subseteq T
  <2>1. ClosedUpTo(s, l, T)
    <3>1. ASSUME NEW y \in T, GoesOn(s, l, y) PROVE GoesOn(s, l + 1, y)
      <4>1. s.right[0][y] \in Elements
        BY <1>4, <3>1, ShapeFacts DEF Ref, GoesOn
      <4> QED BY <3>1, <4>1, <1>4 DEF GoesOn
    <3> QED BY <3>1, <1>10 DEF ClosedUpTo
  <2> DEFINE Ks == {k \in Nat : \A c \in C : s.steps[l][c] = k => c \in T}
  <2>2. 0 \in Ks
    BY <1>2, <1>10
  <2>3. ASSUME NEW k \in Nat, k \in Ks PROVE k + 1 \in Ks
    <3> SUFFICES ASSUME NEW c \in C, s.steps[l][c] = k + 1 PROVE c \in T
      OBVIOUS
    <3>1. ~(s.height[c] > l + 1) /\ c \in Elements
      BY <1>2
    <3>2. PICK b \in C : s.right[l][b] = c /\ s.steps[l][c] = s.steps[l][b] + 1
      BY <3>1, StepBelow DEF C
    <3>3. s.steps[l][b] = k
      BY <3>2, <1>2
    <3>4. s.span[l][b] \subseteq T
      BY <3>3, <2>1, <2>3, <1>3 DEF Skips
    <3>5. s.left[0][c] \in s.span[l][b]
      BY <3>1, <3>2, <1>3, <1>4 DEF Skips
    <3>6. PICK y \in T : y = s.left[0][c]
      BY <3>4, <3>5
    <3>7. s.right[0][y] = c /\ c # Null
      BY <3>1, <3>6, <1>4, ShapeFacts
    <3>8. GoesOn(s, l + 1, y)
      BY <3>1, <3>7 DEF GoesOn
    <3> QED BY <3>7, <3>8, <1>10 DEF ClosedUpTo
  <2> HIDE DEF Ks
  <2>4. \A k \in Nat : k \in Ks
    BY <2>2, <2>3, Induction
  <2>5. \A c \in C : c \in T
    BY <2>4, <1>2 DEF Ks
  <2>6. \A c \in C : s.span[l][c] \subseteq T
    BY <2>1, <2>5, <1>3 DEF Skips
  <2> QED BY <2>6, <1>5
<1>11. ASSUME s.right[l + 1][p] # Null PROVE s.left[0][s.right[l + 1][p]] \in S
  <2>1. PICK c \in C : s.right[l][c] = s.right[l + 1][p]
    BY <1>11, LastChild DEF C
  <2>2. s.left[0][s.right[l][c]] \in s.span[l][c]
    BY <2>1, <1>3, <1>11 DEF Skips
  <2> QED BY <2>1, <2>2, <1>6
<1> QED BY <1>7, <1>8, <1>9, <1>10, <1>11 DEF Skips, ClosedUpTo, S, GoesOn

LEMMA SkipsAll ==
  ASSUME NEW s \in Shapes
  PROVE  \A l \in Level : \A p \in Elements : s.height[p] > l => Skips(s, l, p)
<1> DEFINE T == {l \in Nat : l \in Level => \A p \in Elements : s.height[p] > l => Skips(s, l, p)}
<1>1. 0 \in T
  BY SkipsFirst
<1>2. ASSUME NEW l \in Nat, l \in T PROVE l + 1 \in T
  <2> SUFFICES ASSUME l + 1 \in Level, NEW p \in Elements, s.height[p] > l + 1
               PROVE  Skips(s, l + 1, p)
    OBVIOUS
  <2>1. l \in Level
    BY HeightsArePositive DEF Level
  <2> QED BY <1>2, <2>1, SkipsAbove
<1> HIDE DEF T
<1>3. \A l \in Nat : l \in T
  BY <1>1, <1>2, Induction
<1> QED BY <1>3, Basics DEF T

LEMMA Skipped ==
  ASSUME NEW s \in Shapes, NEW l \in Level, NEW p \in Elements, s.height[p] > l
  PROVE  Skips(s, l, p)
BY SkipsAll

LEMMA SkipsBack ==
  ASSUME NEW s \in Shapes, NEW l \in Level, NEW p \in Elements, s.height[p] > l,
         NEW y \in s.span[l][p], y # p
  PROVE  s.left[0][y] \in s.span[l][p]
<1> DEFINE S == s.span[l][p]
           T == {x \in S : x = p \/ \E z \in S : s.right[0][z] = x}
<1>1. Skips(s, l, p)
  BY Skipped
<1>2. T \in SUBSET Elements /\ p \in T /\ ClosedUpTo(s, l, T)
  BY <1>1 DEF Skips, ClosedUpTo
<1>3. S \subseteq T
  BY <1>1, <1>2 DEF Skips
<1>4. PICK z \in S : s.right[0][z] = y
  BY <1>3
<1>5. z \in Elements /\ y \in Elements /\ 0 \in Level
  BY <1>1, Basics DEF Skips
<1>6. s.left[0][y] = z
  BY <1>4, <1>5, ShapeFacts
<1> QED BY <1>6

(* A link is followed at level 0 too.                                      *)
LEMMA LinkReaches ==
  ASSUME NEW s \in Shapes, NEW B \in SUBSET Elements, NEW l \in Level, NEW p \in Elements,
         NEW q \in Elements, s.right[l][p] = q, Spanned(s, B, l, p)
  PROVE  /\ s.height[p] > l /\ s.height[q] > l
         /\ q \in Reached(RightOf(s, B), p)
         /\ Reached(RightOf(s, B), p) \subseteq s.span[l][p] \cup Reached(RightOf(s, B), q)
<1> DEFINE R == RightOf(s, B)
           S == s.span[l][p]
           X == Reached(R, p)
           Y == Reached(R, q)
<1>1. s.height[p] > l /\ s.height[q] > l
  BY ShapeFacts DEF Joined, Tower
<1>2. Skips(s, l, p) /\ S \subseteq B
  BY <1>1, Skipped DEF Spanned
<1>3. /\ R \in [Elements -> Ref] /\ q # Null /\ 0 \in Level
      /\ \A a \in Elements : R[a] = IF a \in B THEN s.right[0][a] ELSE Null
  BY Neighbours, Basics
<1> HIDE DEF R
<1>4. /\ p \in X /\ X \in SUBSET Elements /\ Closed(X, R)
      /\ q \in Y /\ Y \in SUBSET Elements /\ Closed(Y, R)
      /\ \A T \in SUBSET Elements : p \in T /\ Closed(T, R) => X \subseteq T
  BY <1>3, ReachedLeast
<1> HIDE DEF X, Y
<1>5. S \subseteq X
  <2> DEFINE T == X \cap S
  <2>1. T \in SUBSET Elements /\ p \in T
    BY <1>2, <1>4 DEF Skips
  <2>2. ClosedUpTo(s, l, T)
    BY <1>2, <1>3, <1>4 DEF Skips, ClosedUpTo, Closed, GoesOn
  <2> HIDE DEF T
  <2>3. S \subseteq T
    BY <1>2, <2>1, <2>2 DEF Skips
  <2> QED BY <2>3 DEF T
<1>6. q \in X
  <2>1. PICK y \in S : y = s.left[0][q]
    BY <1>2, <1>3 DEF Skips
  <2>2. s.right[0][y] = q /\ y \in B
    BY <1>2, <1>3, <2>1, ShapeFacts DEF Skips
  <2> QED BY <1>3, <1>4, <1>5, <2>2 DEF Closed
<1>7. X \subseteq S \cup Y
  <2>1. S \cup Y \in SUBSET Elements /\ p \in S \cup Y
    BY <1>2, <1>4 DEF Skips
  <2>2. ASSUME NEW y \in S, R[y] # Null PROVE R[y] \in S \cup Y
    <3>1. R[y] = s.right[0][y]
      BY <1>2, <1>3
    <3>2. CASE GoesOn(s, l, y)
      BY <3>1, <3>2, <1>2 DEF Skips, ClosedUpTo
    <3>3. CASE ~GoesOn(s, l, y)
      BY <3>1, <3>3, <2>2, <1>2, <1>4 DEF Skips
    <3> QED BY <3>2, <3>3
  <2>3. Closed(S \cup Y, R)
    BY <2>2, <1>4 DEF Closed
  <2> QED BY <2>1, <2>3, <1>4
<1> QED BY <1>1, <1>6, <1>7 DEF X, Y, R

(* Where a link is missing, the list ends among the elements it would skip. *)
LEMMA EndsWithin ==
  ASSUME NEW s \in Shapes, NEW B \in SUBSET Elements, NEW l \in Level, NEW p \in Elements,
         s.height[p] > l, ~Spanned(s, B, l, p)
  PROVE  /\ Reached(RightOf(s, B), p) \subseteq s.span[l][p]
         /\ \E e \in Reached(RightOf(s, B), p) : e \notin B
<1> DEFINE R == RightOf(s, B)
           S == s.span[l][p]
           to == [y \in Elements |-> IF y \in B /\ GoesOn(s, l, y) THEN s.right[0][y] ELSE Null]
           X == Reached(to, p)
<1>1. Skips(s, l, p) /\ ~(S \subseteq B)
  BY Skipped DEF Spanned
<1>2. /\ R \in [Elements -> Ref] /\ 0 \in Level
      /\ \A a \in Elements : R[a] = IF a \in B THEN s.right[0][a] ELSE Null
  BY Neighbours, Basics
<1>3. /\ to \in [Elements -> Ref]
      /\ \A y \in Elements : to[y] = IF y \in B /\ GoesOn(s, l, y) THEN s.right[0][y] ELSE Null
  BY <1>2, ShapeFacts DEF Ref
<1> HIDE DEF R, to
<1>4. /\ p \in X /\ X \in SUBSET Elements /\ Closed(X, to)
      /\ \A T \in SUBSET Elements : p \in T /\ Closed(T, to) => X \subseteq T
  BY <1>3, ReachedLeast
<1> HIDE DEF X
<1>5. X \subseteq S
  <2>1. S \in SUBSET Elements /\ p \in S
    BY <1>1 DEF Skips
  <2>2. Closed(S, to)
    BY <1>1, <1>3, <2>1 DEF Skips, Closed, ClosedUpTo
  <2> QED BY <2>1, <2>2, <1>4
<1>6. PICK e \in X : e \notin B
  <2> SUFFICES ASSUME X \subseteq B PROVE FALSE
    OBVIOUS
  <2>1. ClosedUpTo(s, l, X)
    BY <1>3, <1>4 DEF Closed, ClosedUpTo, GoesOn
  <2>2. S \subseteq X
    BY <1>1, <1>4, <2>1 DEF Skips
  <2> QED BY <2>2, <1>1
<1>7. ASSUME NEW y \in X, y \in B, s.right[0][y] # Null PROVE GoesOn(s, l, y)
  <2> SUFFICES ASSUME ~GoesOn(s, l, y) PROVE FALSE
    OBVIOUS
  <2>1. to[y] = Null /\ to[e] = Null
    BY <1>3, <1>4, <1>6
  <2>2. y = e
    <3> HIDE DEF S
    <3> QED BY <2>1, <1>3, <1>6, OneEnd DEF X
  <2> QED BY <2>2, <1>6, <1>7
<1>8. Closed(X, R)
  <2> SUFFICES ASSUME NEW y \in X, R[y] # Null PROVE R[y] \in X
    BY DEF Closed
  <2>1. y \in B /\ y \in Elements /\ R[y] = s.right[0][y]
    BY <1>2, <1>4
  <2>2. GoesOn(s, l, y)
    BY <2>1, <1>7
  <2>3. to[y] = s.right[0][y]
    BY <1>3, <2>1, <2>2
  <2> QED BY <1>4, <2>1, <2>3 DEF Closed
<1>9. Reached(R, p) \subseteq X
  BY <1>2, <1>4, <1>8, ReachedLeast
<1>10. e \in Reached(R, p)
  <2>1. Closed(Reached(R, p), to)
    <3>1. Reached(R, p) \in SUBSET Elements /\ Closed(Reached(R, p), R)
      BY <1>2, ReachedLeast
    <3> QED BY <3>1, <1>2, <1>3 DEF Closed
  <2>2. p \in Reached(R, p) /\ Reached(R, p) \in SUBSET Elements
    BY <1>2, ReachedLeast
  <2> QED BY <2>1, <2>2, <1>4, <1>6
<1> QED BY <1>5, <1>6, <1>9, <1>10 DEF R

(* An element that is joined with all it skips has a link.                 *)
LEMMA SpannedLinked ==
  ASSUME NEW s \in Shapes, NEW B \in SUBSET Elements, \A x \in B : s.right[0][x] # Null,
         NEW l \in Level, NEW p \in Elements, s.height[p] > l, Spanned(s, B, l, p)
  PROVE  s.right[l][p] # Null
<1> DEFINE S == s.span[l][p]
           h == [y \in S |-> s.right[0][y]]
<1>1. Skips(s, l, p) /\ S \subseteq B
  BY Skipped DEF Spanned
<1>2. p \in S /\ S \in SUBSET Elements /\ 0 \in Level
  BY <1>1, Basics DEF Skips
<1>3. SUFFICES ASSUME s.right[l][p] = Null PROVE FALSE
  OBVIOUS
<1>4. \A y \in S : GoesOn(s, l, y) /\ s.right[0][y] \in S
  BY <1>1, <1>3 DEF Skips, ClosedUpTo
<1>5. \A x, y \in S : s.right[0][x] = s.right[0][y] => x = y
  <2> HIDE DEF S
  <2>1. \A x, y \in Elements : s.right[0][x] = y => s.left[0][y] = x
    BY <1>2, ShapeFacts
  <2>2. \A x \in S : x \in Elements /\ s.right[0][x] \in Elements
    BY <1>2, <1>4
  <2>3. \A x \in S : s.left[0][s.right[0][x]] = x
    BY <2>1, <2>2
  <2> QED BY <2>3
<1>6. h \in [S -> S] /\ (\A x, y \in S : h[x] = h[y] => x = y) /\ \A y \in S : h[y] # p
  BY <1>4, <1>5 DEF GoesOn
<1> HIDE DEF S, h
<1> QED BY <1>2, <1>6, AllFollow

(* To the left of the leftmost element of a level there are only elements  *)
(* that do not reach the level.                                            *)
LeftmostAt(s, l) ==
  \A x \in Elements : s.height[x] > l /\ s.left[l][x] = Null =>
    \A y \in Reached(s.left[0], x) : y = x \/ ~(s.height[y] > l)

LEMMA LeftmostAbove ==
  ASSUME NEW s \in Shapes, NEW l \in Level, l + 1 \in Level, LeftmostAt(s, l)
  PROVE  LeftmostAt(s, l + 1)
<1> DEFINE F == s.left[0]
<1> SUFFICES ASSUME NEW x \in Elements, s.height[x] > l + 1, s.left[l + 1][x] = Null,
                    NEW y \in Reached(F, x)
             PROVE  y = x \/ ~(s.height[y] > l + 1)
  BY DEF LeftmostAt
<1>1. /\ 0 \in Level /\ l \in Int /\ Null \notin Elements
      /\ \A z \in Elements : s.height[z] \in Int
  BY Basics, ShapeFacts
<1>2. F \in [Elements -> Ref]
  <2>1. s.left \in Links
    BY ShapeFacts DEF ShapeType
  <2> QED BY <2>1, <1>1 DEF Links
<1> HIDE DEF F
<1>3. y \in Elements
  BY <1>2, ReachedLeast
<1>4. CASE s.left[l][x] = Null
  BY <1>1, <1>3, <1>4 DEF LeftmostAt, F
<1>5. CASE s.left[l][x] # Null
  <2> DEFINE V == {v \in Elements : s.height[v] > l /\ s.lpar[l][v] = Null}
             Low(z) == \E v \in V : \/ z \in s.span[l][v]
                                    \/ s.left[l][v] = Null /\ z \in Reached(F, v)
             Y == {x} \cup {z \in Elements : Low(z)}
  <2>1. PICK w \in Elements : w = s.left[l][x]
    BY <1>5, ShapeFacts DEF Ref
  <2>2. s.right[l][w] = x /\ x # Null /\ s.height[w] > l
    BY <2>1, <1>1, ShapeFacts DEF Joined, Tower
  <2>3. s.lpar[l][w] = Null
    <3> SUFFICES ASSUME s.lpar[l][w] # Null PROVE FALSE
      OBVIOUS
    <3>1. PICK p \in Elements : p = s.lpar[l][w]
      BY ShapeFacts DEF Ref
    <3>2. s.rpar[l][x] = x
      BY ParentFacts
    <3>3. s.right[l + 1][p] = x
      BY <2>2, <3>1, <3>2, ParentFacts
    <3>4. s.left[l + 1][x] = p
      BY <3>3, ShapeFacts
    <3> QED BY <3>4, <1>1
  <2>4. w \in V
    BY <2>2, <2>3
  <2>5. ASSUME NEW v \in V
        PROVE  /\ Skips(s, l, v) /\ v \in s.span[l][v] /\ ~(s.height[v] > l + 1)
               /\ s.left[l][v] # Null => s.left[l][v] \in V /\ s.right[l][s.left[l][v]] = v
    <3>1. Skips(s, l, v) /\ v \in s.span[l][v]
      BY Skipped DEF Skips
    <3>2. ~(s.height[v] > l + 1)
      BY <1>1, ParentFacts
    <3>3. ASSUME s.left[l][v] # Null
          PROVE  s.left[l][v] \in V /\ s.right[l][s.left[l][v]] = v
      <4>1. PICK u \in Elements : u = s.left[l][v]
        BY <3>3, ShapeFacts DEF Ref
      <4>2. s.right[l][u] = v /\ s.height[u] > l
        BY <4>1, ShapeFacts DEF Joined, Tower
      <4>3. s.lpar[l][u] = Null
        BY <3>2, <3>3, <4>1, ParentFacts
      <4> QED BY <4>1, <4>2, <4>3
    <3> QED BY <3>1, <3>2, <3>3
  <2>6. ASSUME NEW z \in Elements, Low(z) PROVE ~(s.height[z] > l + 1)
    <3>1. PICK v \in V : \/ z \in s.span[l][v]
                         \/ s.left[l][v] = Null /\ z \in Reached(F, v)
      BY <2>6
    <3>2. z = v \/ ~(s.height[z] > l)
      <4>1. CASE z \in s.span[l][v]
        BY <4>1, <2>5 DEF Skips
      <4>2. CASE s.left[l][v] = Null /\ z \in Reached(F, v)
        BY <4>2 DEF LeftmostAt, F
      <4> QED BY <3>1, <4>1, <4>2
    <3> QED BY <3>2, <2>5, <1>1
  <2>7. ASSUME NEW z \in Elements, Low(z), F[z] # Null PROVE F[z] \in Elements /\ Low(F[z])
    <3>1. PICK v \in V : \/ z \in s.span[l][v]
                         \/ s.left[l][v] = Null /\ z \in Reached(F, v)
      BY <2>7
    <3>2. F[z] \in Elements
      BY <2>7, <1>2 DEF Ref
    <3>3. CASE s.left[l][v] = Null /\ z \in Reached(F, v)
      <4>1. F[z] \in Reached(F, v)
        BY <3>3, <2>7, <1>2, ReachedLeast DEF Closed
      <4> QED BY <3>2, <3>3, <4>1
    <3>4. CASE z \in s.span[l][v] /\ z # v
      <4>1. F[z] \in s.span[l][v]
        BY <3>4, SkipsBack DEF F
      <4> QED BY <3>2, <4>1
    <3>5. CASE z = v /\ s.left[l][v] = Null
      <4>1. v \in Reached(F, v) /\ Closed(Reached(F, v), F)
        BY <1>2, ReachedLeast
      <4>2. F[z] \in Reached(F, v)
        BY <3>5, <4>1, <2>7 DEF Closed
      <4> QED BY <3>2, <3>5, <4>2
    <3>6. CASE z = v /\ s.left[l][v] # Null
      <4>1. PICK u \in V : u = s.left[l][v] /\ s.right[l][u] = v
        BY <3>6, <2>5
      <4>2. s.left[0][v] \in s.span[l][u]
        BY <4>1, <2>5, <1>1 DEF Skips
      <4> QED BY <3>2, <3>6, <4>1, <4>2 DEF F
    <3> QED BY <3>1, <3>3, <3>4, <3>5, <3>6
  <2>8. F[x] # Null => F[x] \in Elements /\ Low(F[x])
    <3>1. s.left[0][x] \in s.span[l][w]
      BY <2>2, <2>4, <2>5 DEF Skips
    <3>2. F[x] \in s.span[l][w]
      BY <3>1 DEF F
    <3>3. F[x] # Null => F[x] \in Elements
      BY <1>2 DEF Ref
    <3> QED BY <2>4, <3>2, <3>3
  <2> HIDE DEF Low
  <2>9. Y \in SUBSET Elements /\ x \in Y /\ Closed(Y, F)
    BY <2>7, <2>8 DEF Closed
  <2>10. y \in Y
    <3> HIDE DEF Y
    <3> QED BY <2>9, <1>2, ReachedLeast
  <2> QED BY <2>6, <2>10
<1> QED BY <1>4, <1>5

LEMMA Leftmost ==
  ASSUME NEW s \in Shapes
  PROVE  \A l \in Level : LeftmostAt(s, l)
<1> DEFINE T == {l \in Nat : l \in Level => LeftmostAt(s, l)}
<1>1. 0 \in T
  <2> SUFFICES ASSUME NEW x \in Elements, s.left[0][x] = Null, NEW y \in Reached(s.left[0], x)
               PROVE  y = x
    BY DEF LeftmostAt
  <2>1. s.left[0] \in [Elements -> Ref]
    <3>1. s.left \in Links
      BY ShapeFacts DEF ShapeType
    <3> QED BY <3>1, Basics DEF Links
  <2> QED BY <2>1, ReachedAtEnd
<1>2. ASSUME NEW l \in Nat, l \in T PROVE l + 1 \in T
  <2> SUFFICES ASSUME l + 1 \in Level PROVE LeftmostAt(s, l + 1)
    OBVIOUS
  <2>1. l \in Level
    BY HeightsArePositive DEF Level
  <2> QED BY <1>2, <2>1, LeftmostAbove
<1> HIDE DEF T
<1>3. \A l \in Nat : l \in T
  BY <1>1, <1>2, Induction
<1> QED BY <1>3, Basics DEF T

(* Where no link comes in, there are to the left in the list only elements *)
(* that do not reach the level.                                            *)
LEMMA BeginsBefore ==
  ASSUME NEW s \in Shapes, NEW B \in SUBSET Elements, NEW l \in Level, NEW x \in Elements,
         s.height[x] > l, BackLinksOf(s, B)[l][x] = Null,
         NEW y \in Reached(LeftOf(s, B), x)
  PROVE  y = x \/ ~(s.height[y] > l)
<1> DEFINE R == RightOf(s, B)
           F == LeftOf(s, B)
<1>1. /\ 0 \in Level /\ l \in Int /\ Null \notin Elements
      /\ \A z \in Elements : s.height[z] \in Int
  BY Basics, ShapeFacts
<1>2. /\ R \in [Elements -> Ref] /\ F \in [Elements -> Ref]
      /\ \A a, b \in Elements : R[a] = b <=> F[b] = a
  BY Neighbours
<1>3. \A a \in Elements : F[a] # Null => F[a] = s.left[0][a]
  BY DEF LeftOf
<1> HIDE DEF R, F
<1>4. y \in Elements
  BY <1>2, ReachedLeast DEF F
<1>5. CASE s.left[l][x] = Null
  <2> DEFINE X == Reached(s.left[0], x)
  <2>1. s.left[0] \in [Elements -> Ref]
    <3>1. s.left \in Links
      BY ShapeFacts DEF ShapeType
    <3> QED BY <3>1, Basics DEF Links
  <2>2. x \in X /\ X \in SUBSET Elements /\ Closed(X, s.left[0])
    BY <2>1, ReachedLeast
  <2> HIDE DEF X
  <2>3. Closed(X, F)
    BY <2>2, <1>3 DEF Closed
  <2>4. y \in X
    BY <2>2, <2>3, <1>2, ReachedLeast DEF F
  <2> QED BY <2>4, <1>5, Leftmost DEF X, LeftmostAt
<1>6. CASE s.left[l][x] # Null
  <2>1. PICK n \in Elements : n = s.left[l][x]
    BY <1>6, ShapeFacts DEF Ref
  <2>2. s.right[l][n] = x /\ x # Null /\ s.height[n] > l
    BY <2>1, <1>1, ShapeFacts DEF Joined, Tower
  <2>3. ~Spanned(s, B, l, n)
    BY <1>6, <2>1 DEF BackLinksOf, Spanned
  <2> DEFINE S == s.span[l][n]
             X == Reached(F, x)
             T == X \cap ({x} \cup S)
  <2>4. Skips(s, l, n)
    BY <2>2, Skipped
  <2>5. /\ x \in X /\ X \in SUBSET Elements /\ Closed(X, F)
        /\ \A Q \in SUBSET Elements : x \in Q /\ Closed(Q, F) => X \subseteq Q
    BY <1>2, ReachedLeast
  <2>6. n \in X => n = x
    <3> SUFFICES ASSUME n \in X PROVE n = x
      OBVIOUS
    <3>1. x \in Reached(R, n)
      BY <1>2, ReachedBack
    <3>2. x \in S
      BY <2>2, <2>3, <3>1, EndsWithin DEF R
    <3> QED BY <3>2, <2>4 DEF Skips
  <2> HIDE DEF X
  <2>7. Closed(T, F)
    <3> SUFFICES ASSUME NEW z \in T, F[z] # Null PROVE F[z] \in T
      BY DEF Closed
    <3>1. F[z] \in X /\ F[z] = s.left[0][z]
      BY <1>3, <2>5 DEF Closed
    <3>2. CASE z = x
      BY <3>1, <3>2, <2>2, <2>4 DEF Skips
    <3>3. CASE z # x
      <4>1. z \in S /\ z # n
        BY <3>3, <2>6
      <4>2. s.left[0][z] \in S
        BY <4>1, <2>2, SkipsBack
      <4> QED BY <3>1, <4>2
    <3> QED BY <3>2, <3>3
  <2>8. X \subseteq T
    <3>1. x \in T /\ T \in SUBSET Elements
      BY <2>5
    <3> HIDE DEF T
    <3> QED BY <3>1, <2>5, <2>7
  <2>9. y \in X
    BY DEF X, F
  <2>10. y = x \/ y \in S
    BY <2>8, <2>9
  <2>11. y = n => y = x
    BY <2>6, <2>9
  <2> QED BY <2>4, <2>10, <2>11 DEF Skips
<1> QED BY <1>5, <1>6

(* Links that lead around make a list of what they skip.                   *)
LEMMA RingOfLinks ==
  ASSUME NEW s \in Shapes, NEW B \in SUBSET Elements, NEW l \in Level, NEW W \in SUBSET Elements,
         \A z \in W : s.right[l][z] \in W /\ Spanned(s, B, l, z), NEW w \in W
  PROVE  /\ ListOf(s, B, w) \subseteq B
         /\ \A y \in ListOf(s, B, w) : y \in W \/ ~(s.height[y] > l)
<1> DEFINE R == RightOf(s, B)
           F == LeftOf(s, B)
           V == UNION {s.span[l][z] : z \in W}
           h == [z \in W |-> s.right[l][z]]
<1>1. 0 \in Level /\ Null \notin Elements
  BY Basics
<1>2. ASSUME NEW z \in W PROVE Skips(s, l, z) /\ s.height[z] > l /\ s.span[l][z] \subseteq B
  <2>1. z \in Elements /\ s.right[l][z] \in Elements /\ s.span[l][z] \subseteq B
    BY DEF Spanned
  <2>2. s.height[z] > l
    BY <2>1, ShapeFacts DEF Joined, Tower
  <2> QED BY <2>1, <2>2, Skipped
<1>3. \A y \in W : \E x \in W : s.right[l][x] = y
  <2>1. h \in [W -> W] /\ \A x, y \in W : h[x] = h[y] => x = y
    BY ShapeFacts
  <2> HIDE DEF h
  <2>2. \A y \in W : \E x \in W : h[x] = y
    BY <2>1, AllFollow
  <2> QED BY <2>2 DEF h
<1>4. w \in V /\ V \in SUBSET Elements /\ V \subseteq B
  BY <1>2 DEF Skips
<1>5. \A y \in V : y \in W \/ ~(s.height[y] > l)
  BY <1>2 DEF Skips
<1>6. /\ \A a \in Elements : R[a] = IF a \in B THEN s.right[0][a] ELSE Null
      /\ \A a \in Elements : F[a] # Null => F[a] = s.left[0][a]
  BY Neighbours DEF LeftOf
<1>7. W \subseteq V
  BY <1>2 DEF Skips
<1>8. ASSUME NEW y \in V, R[y] # Null PROVE R[y] \in V
  <2>1. PICK z \in W : y \in s.span[l][z]
    OBVIOUS
  <2>2. R[y] = s.right[0][y]
    BY <1>4, <1>6
  <2>3. CASE GoesOn(s, l, y)
    BY <1>2, <2>1, <2>2, <2>3 DEF Skips, ClosedUpTo
  <2>4. CASE ~GoesOn(s, l, y)
    <3>1. R[y] = s.right[l][z]
      BY <1>2, <1>8, <2>1, <2>2, <2>4 DEF Skips
    <3> QED BY <1>7, <3>1
  <2> QED BY <2>3, <2>4
<1>9. ASSUME NEW y \in V, F[y] # Null PROVE F[y] \in V
  <2>1. PICK z \in W : y \in s.span[l][z]
    OBVIOUS
  <2>2. F[y] = s.left[0][y] /\ s.left[0][y] # Null
    BY <1>4, <1>6, <1>9
  <2>3. CASE y # z
    BY <1>2, <2>1, <2>2, <2>3, SkipsBack
  <2>4. CASE y = z
    <3>1. PICK x \in W : s.right[l][x] = y
      BY <1>3, <2>4
    <3>2. s.left[0][y] \in s.span[l][x]
      BY <1>1, <1>2, <1>4, <3>1 DEF Skips
    <3> QED BY <2>2, <3>2
  <2> QED BY <2>3, <2>4
<1> HIDE DEF V
<1>10. Closed(V, R) /\ Closed(V, F)
  BY <1>8, <1>9 DEF Closed
<1>11. ListOf(s, B, w) \subseteq V
  BY <1>4, <1>10, ListLeast
<1> QED BY <1>4, <1>5, <1>11

----
(* Representatives *)

(* Where the tallest links lead around, the representative is the lowest   *)
(* address they lead to.                                                   *)
LEMMA LowestOfRing ==
  ASSUME NEW s \in Shapes, NEW B \in SUBSET Elements, NEW l \in Level, NEW x \in Elements,
         NEW W \in SUBSET ListOf(s, B, x), NEW m \in W,
         \A z \in W : /\ m <= z /\ s.height[z] = l + 1
                      /\ s.right[l][z] \in W /\ Spanned(s, B, l, z)
  PROVE  Representative(s, B, x) = m
<1> DEFINE L == ListOf(s, B, x)
           Tallest == {y \in L : \A z \in L : s.height[z] <= s.height[y]}
<1>1. W \in SUBSET Elements /\ L \in SUBSET Elements /\ m \in Elements /\ m \in L
  BY ListLeast
<1>2. ListOf(s, B, m) = L
  BY <1>1, OneList
<1>3. L \subseteq B /\ \A y \in L : y \in W \/ ~(s.height[y] > l)
  BY <1>1, <1>2, RingOfLinks
<1>4. l \in Int /\ Elements \subseteq Int /\ \A y \in Elements : s.height[y] \in Int
  BY Basics, ShapeFacts
<1> HIDE DEF L
<1>5. Tallest = W
  <2>1. \A y \in L : s.height[y] <= l + 1 /\ (s.height[y] = l + 1 => y \in W)
    BY <1>1, <1>3, <1>4
  <2>2. \A y \in W : y \in L /\ s.height[y] = l + 1
    BY DEF L
  <2>3. \A y \in W : y \in Tallest
    BY <2>1, <2>2
  <2>4. \A y \in Tallest : s.height[y] >= s.height[m]
    BY <1>1
  <2>5. \A y \in Tallest : y \in W
    BY <2>1, <2>2, <2>4, <1>1, <1>4
  <2> QED BY <2>3, <2>5
<1>6. Representative(s, B, x) =
        CHOOSE y \in Tallest :
          \A z \in Tallest : IF L \subseteq B THEN y <= z ELSE z \in Reached(RightOf(s, B), y)
  BY DEF Representative, L
<1> HIDE DEF Tallest
<1>7. \A y \in W : (\A z \in W : IF L \subseteq B THEN y <= z ELSE z \in Reached(RightOf(s, B), y))
                     <=> y = m
  <2> SUFFICES ASSUME NEW y \in W PROVE (\A z \in W : y <= z) <=> y = m
    BY <1>3
  <2>1. y \in Int /\ m \in Int /\ m <= y
    BY <1>1, <1>4
  <2> QED BY <2>1
<1> QED BY <1>5, <1>6, <1>7

(* In a list with ends the representative is the element that no link of   *)
(* its topmost level leads to, when none to its right is taller.           *)
LEMMA LeftmostTallest ==
  ASSUME NEW s \in Shapes, NEW B \in SUBSET Elements, NEW l \in Level, NEW x \in Elements,
         ~(ListOf(s, B, x) \subseteq B),
         NEW at \in ListOf(s, B, x), s.height[at] = l + 1, BackLinksOf(s, B)[l][at] = Null,
         \A z \in Reached(RightOf(s, B), at) : ~(s.height[z] > l + 1)
  PROVE  Representative(s, B, x) = at
<1> DEFINE L == ListOf(s, B, x)
           R == RightOf(s, B)
           F == LeftOf(s, B)
           Tallest == {y \in L : \A z \in L : s.height[z] <= s.height[y]}
<1>1. L \in SUBSET Elements /\ at \in Elements /\ at \in L
  BY ListLeast
<1>2. L = Reached(R, at) \cup Reached(F, at)
  BY <1>1, OneList DEF ListOf
<1>3. l \in Int /\ Elements \subseteq Int /\ \A y \in Elements : s.height[y] \in Int
  BY Basics, ShapeFacts
<1>4. \A y \in Reached(F, at) : y = at \/ ~(s.height[y] > l)
  BY <1>1, <1>3, BeginsBefore
<1>5. /\ R \in [Elements -> Ref] /\ F \in [Elements -> Ref]
      /\ \A a, b \in Elements : R[a] = b <=> F[b] = a
  BY Neighbours
<1>6. Representative(s, B, x) =
        CHOOSE y \in Tallest :
          \A z \in Tallest : IF L \subseteq B THEN y <= z ELSE z \in Reached(R, y)
  BY DEF Representative
<1> HIDE DEF L, R, F
<1>7. \A y \in L : s.height[y] <= l + 1
  BY <1>1, <1>2, <1>3, <1>4 DEF R, F
<1>8. at \in Tallest
  BY <1>1, <1>7
<1>9. \A y \in Tallest : y \in L /\ s.height[y] = l + 1
  BY <1>1, <1>3, <1>7
<1>10. \A z \in Tallest : z \in Reached(R, at)
  <2> SUFFICES ASSUME NEW z \in Tallest, z \notin Reached(R, at) PROVE FALSE
    OBVIOUS
  <2>1. z \in Reached(F, at)
    BY <1>2
  <2>2. z = at \/ ~(s.height[z] > l)
    BY <1>4, <2>1
  <2>3. at \in Reached(R, at)
    BY <1>1, <1>5, ReachedLeast
  <2> QED BY <2>2, <2>3, <1>3, <1>9
<1>11. ASSUME NEW y \in Tallest, at \in Reached(R, y) PROVE y = at
  <2>1. y \in Reached(F, at)
    <3>1. y \in Elements
      BY <1>1
    <3> HIDE DEF Tallest
    <3> QED BY <3>1, <1>5, <1>11, ReachedBack
  <2>2. y = at \/ ~(s.height[y] > l)
    BY <1>4, <2>1
  <2> QED BY <2>2, <1>3, <1>9
<1> HIDE DEF Tallest
<1>12. ~(L \subseteq B)
  BY DEF L
<1>13. \A y \in Tallest : (\A z \in Tallest : IF L \subseteq B THEN y <= z ELSE z \in Reached(R, y))
                           <=> y = at
  BY <1>8, <1>10, <1>11, <1>12
<1> QED BY <1>6, <1>8, <1>13, Zenon
====
