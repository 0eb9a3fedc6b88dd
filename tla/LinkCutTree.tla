---- MODULE LinkCutTree ----
(***************************************************************************)
(* The sequential link-cut tree of dynamic_trees/link_cut_tree: a splay    *)
(* tree for each preferred path, joined by path parents, with reversals    *)
(* put off in flip bits.  Every operation rearranges the tree, a question  *)
(* too, so each is an operator from a tree to a tree.                      *)
(* (cut_from_par and lca are not reached from LinkCutTree.)                *)
(***************************************************************************)
EXTENDS Integers, Sequences

CONSTANTS Vertices, Null

NewTree == [v \in Vertices |-> [par |-> Null, c |-> <<Null, Null>>, flip |-> FALSE]]

Children(t, n) == {t[n].c[1], t[n].c[2]} \ {Null}

(* The parent in the splay tree; a path parent is none.                    *)
get_real_par(t, n) ==
  LET p == t[n].par IN IF p # Null /\ n \in Children(t, p) THEN p ELSE Null

SetParent(t, m, n) == IF m = Null THEN t ELSE [t EXCEPT ![m].par = n]
fix_c(t, n) == SetParent(SetParent(t, t[n].c[1], n), t[n].c[2], n)

(* The reversal of n's subtree goes one level down.                        *)
Toggle(t, m) == IF m = Null THEN t ELSE [t EXCEPT ![m].flip = ~@]

(* Mutant: the reversal does not reach the second child.                   *)
PushOnce(t, n) ==
  IF ~t[n].flip THEN t
  ELSE Toggle([t EXCEPT ![n].flip = FALSE, ![n].c = <<@[2], @[1]>>], t[n].c[1])

push_flip(t, n) ==
  IF ~t[n].flip THEN t
  ELSE Toggle(Toggle([t EXCEPT ![n].flip = FALSE, ![n].c = <<@[2], @[1]>>],
                     t[n].c[1]), t[n].c[2])

(* The child pointers of n to x, if any, are set to y.                     *)
Replace(t, n, x, y) ==
  [t EXCEPT ![n].c = <<IF @[1] = x THEN y ELSE @[1], IF @[2] = x THEN y ELSE @[2]>>]

(* n takes the place of its parent p, whose path parent it takes over;     *)
(* near is the side of p it was on.                                        *)
Hang(t, n, p, g) ==
  IF g # Null /\ p \in Children(t, g) THEN fix_c(Replace(t, g, p, n), g) ELSE t
Turn(t, n, p, near) ==
  [t EXCEPT ![p].c[near] = t[n].c[3 - near], ![n].c[3 - near] = p]
RotUnder(t, n, p) ==
  fix_c(fix_c(Turn(Hang([t EXCEPT ![n].par = t[p].par], n, p, t[p].par),
                   n, p, IF t[p].c[1] = n THEN 1 ELSE 2), p), n)
rot(t, n) == RotUnder(t, n, get_real_par(t, n))

(* Reversals are pushed from the grandparent down before n is rotated over *)
(* its parent, and before that the parent, or n, over the grandparent.     *)
PushPath(t, n, p, gp) ==
  push_flip(push_flip(IF gp = Null THEN t ELSE push_flip(t, gp), p), n)
Halfway(t, n, p, gp) ==
  IF gp = Null THEN t
  ELSE rot(t, IF (t[gp].c[1] = p) = (t[p].c[1] = n) THEN p ELSE n)

RECURSIVE SplayUnder(_, _, _)
SplayUnder(t, n, p) ==
  IF p = Null THEN t
  ELSE LET Rise(gp) == rot(Halfway(PushPath(t, n, p, gp), n, p, gp), n)
           Again(r) == SplayUnder(r, n, get_real_par(r, n))
       IN Again(Rise(get_real_par(t, p)))

SplayFrom(t, n) == SplayUnder(t, n, get_real_par(t, n))
splay(t, n) == SplayFrom(push_flip(t, n), n)

(* The path from the root to n becomes preferred and n the root of its     *)
(* splay tree: curr is the top of the next path above.                     *)
RECURSIVE ExposeFrom(_, _, _, _)
ExposeFrom(t, n, curr, pref) ==
  IF curr = Null THEN t
  ELSE LET Above(s) == ExposeFrom(s, n, s[n].par, n)
       IN Above(splay(fix_c([splay(t, curr) EXCEPT ![curr].c[2] = pref], curr), n))

expose(t, n) == ExposeFrom(t, n, n, Null)

(* n becomes the root of its tree: the preferred path to it is reversed.   *)
evert(t, n) == push_flip([expose(t, n) EXCEPT ![n].flip = ~@], n)

RECURSIVE Leftmost(_, _)
Leftmost(t, n) ==   \* flips are pushed along the way down
  LET Down(p) == IF p[n].c[1] = Null THEN [tree |-> p, root |-> n]
                 ELSE Leftmost(p, p[n].c[1])
  IN Down(push_flip(t, n))

get_root(t, n) ==
  LET Found(l) == [tree |-> splay(l.tree, l.root), root |-> l.root]
  IN Found(Leftmost(expose(t, n), n))

(* verts[u].link(&verts[v])                                                *)
Link(t, u, v) == [expose(evert(t, v), u) EXCEPT ![v].par = u]

(* verts[u].cut(&verts[v])                                                 *)
Cut(t, u, v) ==
  fix_c(Replace([evert(evert(t, v), u) EXCEPT ![v].par = Null], u, v, Null), u)

Connected(t, u, v) ==
  LET Second(a, b) == [tree |-> b.tree, answer |-> a.root = b.root]
      First(a) == Second(a, get_root(a.tree, v))
  IN First(get_root(t, u))
====
