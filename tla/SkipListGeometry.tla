---- MODULE SkipListGeometry ----
(***************************************************************************)
(* The geometry of skip lists: which links a set of elements of given      *)
(* heights has at every level.  An arrangement is an order of the elements *)
(* at level 0 together with everything that follows from it.               *)
(***************************************************************************)
EXTENDS Integers, FiniteSets

CONSTANTS Elements,    \* the elements; an element is its address
          MaxHeight,   \* the height of the tallest element
          Shapes       \* the arrangements the caller may ask for

Null == 0

Level == 0 .. MaxHeight - 1
Ref == Elements \cup {Null}
Links == [Level -> [Elements -> Ref]]

(***************************************************************************)
(* An arrangement: the neighbours of every element at every level when     *)
(* everything is joined, the parents that FindLeftParent and               *)
(* FindRightParent then find, how many links lead from the left parent to  *)
(* the element (`steps`), and the elements that the link leaving p at      *)
(* level l skips (`span`, p included).                                     *)
(***************************************************************************)
ShapeType ==
  [height : [Elements -> 1 .. MaxHeight],
   right : Links, left : Links, lpar : Links, rpar : Links,
   steps : [Level -> [Elements -> Nat]],
   span : [Level -> [Elements -> SUBSET Elements]]]

Doubly(s) ==
  \A l \in Level : \A x, y \in Elements :
    s.right[l][x] = y <=> s.left[l][y] = x

Tall(s) ==
  \A l \in Level : \A x \in Elements :
    (s.right[l][x] # Null \/ s.left[l][x] # Null) => s.height[x] > l

LeftParents(s) ==
  \A l \in Level : \A x \in Elements :
    s.lpar[l][x] = IF s.height[x] > l + 1 THEN x
                   ELSE IF s.left[l][x] = Null THEN Null
                   ELSE s.lpar[l][s.left[l][x]]

RightParents(s) ==
  \A l \in Level : \A x \in Elements :
    s.rpar[l][x] = IF s.height[x] > l + 1 THEN x
                   ELSE IF s.right[l][x] = Null THEN Null
                   ELSE s.rpar[l][s.right[l][x]]

ParentsLinked(s) ==
  \A l \in Level : \A x, p, q \in Elements :
    /\ l + 1 \in Level
    /\ s.right[l][x] # Null
    /\ s.lpar[l][x] = p
    /\ s.rpar[l][s.right[l][x]] = q
    => s.right[l + 1][p] = q

(* A left parent is reached: it is the element or some links away.         *)
LeftSteps(s) ==
  \A l \in Level : \A x \in Elements :
    s.lpar[l][x] # Null =>
      s.steps[l][x] = IF s.height[x] > l + 1 THEN 0
                      ELSE s.steps[l][s.left[l][x]] + 1

(* Where a parent has a right neighbour, so has every element below it,    *)
(* and that neighbour is their right parent.                               *)
ChildrenLinked(s) ==
  \A l \in Level : \A x, p \in Elements :
    l + 1 \in Level /\ s.right[l + 1][p] # Null /\ s.lpar[l][x] = p =>
      /\ s.right[l][x] # Null
      /\ s.rpar[l][s.right[l][x]] = s.right[l + 1][p]

Spans(s) ==
  /\ \A x \in Elements : s.span[0][x] = {x}
  /\ \A l \in Level : \A p \in Elements :
       l + 1 \in Level =>
         s.span[l + 1][p] =
           UNION {s.span[l][c] : c \in {x \in Elements : s.lpar[l][x] = p}}

WellFormed(s) ==
  /\ s \in ShapeType
  /\ Doubly(s)
  /\ Tall(s)
  /\ LeftParents(s)
  /\ RightParents(s)
  /\ LeftSteps(s)
  /\ ParentsLinked(s)
  /\ ChildrenLinked(s)
  /\ Spans(s)

ASSUME ElementsAreAddresses == Elements \subseteq Nat \ {0}
ASSUME ElementsAreFinite == IsFiniteSet(Elements)
ASSUME HeightsArePositive == MaxHeight \in Nat \ {0}
ASSUME ShapesAreWellFormed == \A s \in Shapes : WellFormed(s)

(* The links an arrangement has when exactly the elements B are joined to  *)
(* their right neighbour: those that skip joined elements only.            *)
LinksOf(s, B) ==
  [l \in Level |-> [p \in Elements |->
    IF s.span[l][p] \subseteq B THEN s.right[l][p] ELSE Null]]

BackLinksOf(s, B) ==
  [l \in Level |-> [q \in Elements |->
    IF s.left[l][q] # Null /\ s.span[l][s.left[l][q]] \subseteq B
    THEN s.left[l][q] ELSE Null]]

----

(* The neighbours of x at level 0 when exactly the elements B are joined,  *)
(* and the elements reached from x in either direction, x included.        *)
RightOf(s, B) == [x \in Elements |-> IF x \in B THEN s.right[0][x] ELSE Null]
LeftOf(s, B) ==
  [x \in Elements |-> IF s.left[0][x] \in B THEN s.left[0][x] ELSE Null]

Reached(to, x) ==
  LET reached[k \in Nat] ==
        IF k = 0 THEN {x}
        ELSE (UNION {{y, to[y]} : y \in reached[k - 1]}) \ {Null}
  IN reached[Cardinality(Elements)]

ListOf(s, B, x) == Reached(RightOf(s, B), x) \cup Reached(LeftOf(s, B), x)

(* What FindRepresentative promises: in a cycle the lowest address among   *)
(* the tallest elements, otherwise the leftmost of the tallest; therefore  *)
(* the same element for every element of a list.                           *)
Representative(s, B, x) ==
  LET list == ListOf(s, B, x)
      tallest == {y \in list : \A z \in list : s.height[z] <= s.height[y]}
  IN CHOOSE y \in tallest :
       \A z \in tallest :
         IF list \subseteq B THEN y <= z ELSE z \in Reached(RightOf(s, B), y)

----

(* x when it reaches level l + 1, else the first element in direction `to` *)
(* that does, or Null; a search around a cycle ends at its start.          *)
FirstTaller(height, to, l, x) ==
  LET walk[k \in Nat] ==
        IF k = 0 THEN x
        ELSE LET at == walk[k - 1]
             IN IF at = Null \/ height[at] > l + 1 THEN at ELSE to[at]
      last == walk[Cardinality(Elements)]
  IN IF last # Null /\ height[last] > l + 1 THEN last ELSE Null

Backward(right) ==
  [y \in Elements |->
    IF \E x \in Elements : right[x] = y
    THEN CHOOSE x \in Elements : right[x] = y
    ELSE Null]

Parents(height, to, l) == [x \in Elements |-> FirstTaller(height, to, l, x)]

(* The links one level up: from p to the parent of its right neighbour.    *)
Above(height, right, l) ==
  [p \in Elements |->
    IF height[p] > l + 1 /\ right[p] # Null
    THEN FirstTaller(height, right, l, right[p])
    ELSE Null]

ShapeOf(height, order) ==
  LET right[l \in Level] ==
        IF l = 0 THEN order ELSE Above(height, right[l - 1], l - 1)
      left == [l \in Level |-> Backward(right[l])]
      lpar == [l \in Level |-> Parents(height, left[l], l)]
      steps == [l \in Level |->
        LET count[x \in Elements] ==
              IF lpar[l][x] \in {x, Null} THEN 0 ELSE count[left[l][x]] + 1
        IN [x \in Elements |-> count[x]]]
      span[l \in Level] ==
        IF l = 0 THEN [x \in Elements |-> {x}]
        ELSE [p \in Elements |->
               UNION {span[l - 1][c] :
                        c \in {x \in Elements : lpar[l - 1][x] = p}}]
  IN [height |-> height,
      right |-> right,
      left |-> left,
      lpar |-> lpar,
      rpar |-> [l \in Level |-> Parents(height, right[l], l)],
      steps |-> steps,
      span |-> span]

(* Orders of the elements 1 .. n at level 0.                               *)
Path(n) == [x \in 1 .. n |-> IF x = n THEN Null ELSE x + 1]
Ring(n) == [x \in 1 .. n |-> IF x = n THEN 1 ELSE x + 1]
(* Two rings: 1 .. m and m + 1 .. n.                                       *)
TwoRings(m, n) ==
  [x \in 1 .. n |-> IF x = m THEN 1 ELSE IF x = n THEN m + 1 ELSE x + 1]
====
