# TLA+ models of the batch-parallel Euler tour tree

These modules model and verify the code of *Batch-parallel Euler tour trees*
(ALENEX 2019): a phase-concurrent skip list, the same list with sums, the
dynamic forest built on it, the hash table and allocators below it, and the
parallel and sequential structures it is compared with. Paths below are relative to the repository's own
`src/` directory. The models keep the control of the code (every read, CAS,
store, guard, early return and barrier that other actors can observe) and
abstract its data: an element is a number or a pair, a height is a constant.

## 1. Inventory

| Component | State | Operations | Called by |
|---|---|---|---|
| **Parallel skip list** `sequence/parallel_skip_list`, `ElementBase` | per element `neighbors_[level].{prev,next}`, `height_` | `Join`, `Split`, `FindRepresentative`, `GetNextElement`, `GetPreviousElement` | many threads at once, in phases: joins with joins, splits with splits, queries with queries |
| **Augmented skip list** `augmented_skip_list.cpp` | the above, `values_[level]`, `update_level_` | `BatchJoin`, `BatchSplit`, `BatchUpdate`, `GetSum`, `GetSubsequenceSum` | one caller; every batch runs several `parallel_for` loops |
| **Parallel Euler tour tree** `dynamic_trees/parallel_euler_tour_tree` | `vertices_`, the elements of edges (`twin_`, `split_mark_`), `edges_` | `Link`, `Cut`, `BatchLink`, `BatchCut`, `IsConnected` | one caller; loops of `Join`s or `Split`s |
| **Edge map / hash table** `edge_map.cpp`, `concurrentMap.h` | an open-addressed table with tombstones | `insert`, `find`, `deleteVal`, `FreeElements` | loops of the Euler tour tree, one kind of call per phase |
| **List allocator, concurrent stack** `list_allocator.h`, `concurrent_stack.h` | per worker a free list, its size and `mid`; a global stack of lists; its head and counter | `alloc`, `free`, `reserve`, `init`, `finish`; `push`, `pop` | every constructor and destructor of an element |
| **Array allocator** `concurrent_array_allocator.hpp` | six list allocators, one per size | `Allocate`, `Free`, life cycle | `ElementBase`, `AugmentedElement` |
| **Parallel treap** `sequence/parallel_treap` | nodes, `right_joiner_`, `has_left_joiner_` | `Join`, `Split`, `BatchJoin`, `BatchSplit` | benchmarks |
| **PBBS primitives** `utils.h`, `blockRadixSort.h`, `transpose.h` | none | `scan`, `pack`, radix sort | batches of the treap and of the Euler tour tree |
| **Sequential baselines** skip list, splay tree, their Euler tour trees, link-cut tree | pointers, heights, flips | join, split, link, cut, questions | benchmarks |

How they interact. An operation of the Euler tour tree is a series of
`parallel_for` loops whose iterations call `Join` or `Split`; the end of a loop
is a barrier, and nothing else synchronises the threads. Joins, splits and
searches communicate through the neighbour pointers only. The tree decides from
one barrier's pointers (`join_targets`, `split_successors`, `edge_elements`)
what to do after the next one. Elements of edges are allocated in one loop,
found through the map in another, freed in a third.

What is hard, and what makes each part correct:

* *Skip list.* A `Join` links level 0, searches the two parents over links that
  other joins are making, and links them one level up; of two joins below the
  same gap one must find both parents, or the level above stays open. `Split`
  clears `prev` with a plain store that waits in a store buffer, and walks over
  paths that are already cut. Correct: no wrong link, no missing link at a
  barrier, one winner among concurrent splits, one representative per list.
* *Augmented list.* Walks race for shared ancestors with a mark; the marks must
  select exactly the nodes to recompute and be gone afterwards.
* *Euler tour tree.* Adjacent edges are cut at once: predecessors vanish while
  they are read, join targets are chosen before the cuts, elements are freed
  while others join. Correct: after each operation the tours are exactly the
  trees of the forest asked for, and no freed element is reachable.
* *Hash table.* Lost CASes, tombstones, a table without an empty slot. Correct:
  a key is in one slot and can be found from its first one at every step, and
  `FreeElements` frees exactly what is allocated.
* *Concurrent stack and allocator.* A head of 128 bits copied in halves, a link
  read from a node that has moved, a list cut at `mid`, memory that several
  workers add at once. Correct: every node and block is in exactly one place,
  the stack is a stack, and memory is added only when needed.
* *Treap.* Branches that read flags other branches reset. Correct: two branches
  never work on one tree, and after a batch the trees are the caller's lists.
* *Sequential baselines.* Every operation, a question too, rearranges a splay
  tree or a link-cut tree, and reversals are put off. Correct: the answers are
  those of the forest asked for.

`PROJECT.json` lists each hazard at its line with the properties that cover it.

## 2. Modules

```
SkipListGeometry                               <- SkipListGeometryProofs
  +- ParallelSkipList     => AtomicLists       <- ParallelSkipListProofs
  +- AugmentedSkipList                         <- AugmentedSkipListProofs

EulerTourTree             => DynamicForest     <- EulerTourTreeProofs
                                               <- EulerTourTreeConnectivity
EdgeMap                   => EdgeDictionary    <- EdgeMapProofs
ConcurrentStack           => Stack             <- ConcurrentStackProofs
ListAllocator                                  <- ListAllocatorProofs

ParallelPrimitives
  +- Treap

SequentialForests
  +- LinkCutTree
  +- SplayTreeETT  +- SplayTree
  +- SkipListETT   +- SkipList
  +- SequentialAugmentedList  +- SkipList
```

The indented modules of the skip lists and of the treap extend the one above
them; those of the sequential forests are parts of it. `=>` leads to the abstract
specification that a module implements, `<-` to the module of its proofs (section
5). The proofs of the two skip lists also extend those of their geometry.

**SkipListGeometry** has no state. An *arrangement* is an order of the elements
at level 0 (a path, a ring, several rings) and all that follows from it: the
neighbours at each level, the parents `FindLeftParent` and `FindRightParent`
find when everything is joined, the elements a link skips. `WellFormed` states
the laws the proofs use; `ShapeOf` computes an arrangement from heights and
order for TLC, and the assumption `ShapesAreWellFormed` makes TLC check that it
satisfies the laws. `LinksOf(s, B)` are the links when only the elements `B` are
joined to their right neighbour.

**ParallelSkipList** models `skip_list_base.hpp`.

| Model | Code |
|---|---|
| `next[l][x]`, `prev[l][x]` | `x->neighbors_[l].next`, `.prev` |
| `pending[t]` | the store of `next->neighbors_[level].prev = nullptr` (line 284) while it is in the x86 store buffer; a CAS drains the buffer, its own thread reads it |
| `frame[t]` | where a thread is in its call, with the locals |
| `JoinTest`, `JoinNext`, `JoinPrev`, `JoinLeft`, `JoinRight` | the loop of `Join`, one action for each shared access; `JoinLeft` and `JoinRight` are rounds of the two searches |
| `SplitTest`, `SplitNext`, `SplitPrev`, `SplitLeft` | the loop of `Split` |
| `FindForward`, `FindBackward` | the two loops of `FindRepresentative` |
| `Flush` | the store buffer becomes visible |
| `BeginPhase`, `EndPhase` | the caller's `parallel_for` and its barrier |

The caller is modelled by its obligation, the comment of `Join`: each left is
unique and ends a list, each right is unique and starts one. Such a caller is
always building some arrangement; `BeginPhase` picks any that fits the present
links, `bonds` records what has been joined, and joins and splits come in any
order and number. Several threads may split one element at once.

**AtomicLists** is the abstract specification of the level-0 sequence: lists on
which `Join` and `Split` take effect at one instant between call and return.

**AugmentedSkipList** models `augmented_skip_list.cpp`. The joins or splits of a
batch are over (barrier) before any sum is touched, so a batch changes `bonds`
in one step, using what ParallelSkipList establishes at a barrier. What
interleaves is the walk up: `ReadMark` (line 142), `Claim` and `Leave` (the CAS
of line 143 and its failure), `Lower` (`writeMin`). `UpdateTopDown` is one step
per topmost node: the nodes below different topmost nodes are disjoint, which
`TopsAreRoots` checks. The same holds for the walks of `BatchSplit`, which are
in different lists. `GetSum` uses the representative as a function; that
`FindRepresentative` computes it is `FoundRepresentative` above.

**EulerTourTree** models `euler_tour_tree.cpp` over level 0 of the lists. Element
`(u, v)` is the pair; `twin_` swaps it. Loops whose iterations touch disjoint
elements run one iteration per step (`LinkSplit`, `LinkJoin`, `CutJoin`); those
that only read are one step (`CutTargets`). In the splitting loop of
`BatchCutRecurse` each iteration is an actor of its own (`cutter[i]`), as if
every one ran on a worker of its own, and each read of a predecessor, CAS and
buffered store is a step. `Round` leaves out any subset of the cuts, as the
random numbers may. Batches up to `Sequential` (75 in the code) take the
sequential path, `Link` or `Cut` of one after the other in one step: nothing runs beside it.
The edge map is the set of its keys.

**DynamicForest** is the abstract specification of a dynamic-trees structure: a
forest, and between operations the vertex sets of its trees.

**EdgeMap** models `edge_map.cpp` on `concurrentMap.h`. Every read of a slot
(`InsertProbe`, `FindProbe`, `DeleteProbe`), the CAS on its key (`InsertClaim`),
the store of the value (`InsertStore`) and of the tombstone (`DeleteBury`) is a
step. Hash values are a constant function into the table. Calls of one kind run
at a time, as the loops of the Euler tour tree make them; `live` is what that tree
has allocated, and `Rebuild` is its destructor with `FreeElements`. **EdgeDictionary**
is the abstract map: each call takes effect at one instant.

**ConcurrentStack** models `concurrent_stack.h`: two linked stacks, of values and
of spare nodes, and `push` and `pop` that move a node from one to the other
(`stage`). The copy of a head is two reads (`ReadNode`, `ReadCounter`), then the
link is read or written (`TakeNext`, `GiveLink`) and the head swung
(`TakeSwing`, `GiveSwing`, `Retry`). `clear` runs when no call does. **Stack** is
the abstract stack it refines.

**ListAllocator** models `list_allocator.h` with the global stack as Stack has it:
the workers' `head`, `mid` and `sz`, `init`, `reserve`, `alloc` with `get_list`
and `allocate_blocks`, `free` with the half it gives away, `finish`,
`num_used_blocks`. A worker's own list is its own; the steps that others can see
are the pushes and pops and the additions to `blocks_allocated`.

**Treap** models `treap.cpp`. `BatchSplit` groups its splits by tree with the sort
of **ParallelPrimitives**, and then every recursive call is a member of `branches`
that splits at a pivot or does its splits one by one. `BatchJoin` runs rounds of
`BatchJoinRecurse`: `Mark` sets the joiners of those not ignored, and each
iteration (`walks[i]`) tests, starts a chain, links, clears a flag and joins, a
step each. **ParallelPrimitives** has `scan`, `pack` and the radix sort as
operators on arrays, with the places that blocks write to.

**SequentialForests** composes the sequential structures, which are operators from
a tree to a tree (**LinkCutTree**, **SplayTree** with **SplayTreeETT**, **SkipList**
with **SkipListETT** and **SequentialAugmentedList**). `Init` chooses one of the
four; `BatchLink`, `BatchCut` and `BatchConnected` do to it what the source's loops
do; `forest` is what the caller has asked for. Deleted nodes leave the domain, so
that using one is an error of the run.

Operators whose comment starts with "Mistake:" or "Mutant:" are variants of a definition with
a plausible bug. No specification uses them; each shows that a property fails
when the code has that bug (`"mutants"` in `PROJECT.json`).

## 3. Runs

| Run | Instance | What it shows |
|---|---|---|
| `list_threads` | 3 threads, 3 elements, towers up to 3, path and ring | safety of every interleaving |
| `list_barriers` | 2 threads, 4 elements, path, ring, two rings | complete levels at barriers, representatives |
| `list_live` | 2 threads, 3 elements | calls return; `Join`/`Split` implement AtomicLists |
| `sums` | 4 elements, batches up to 3, 3 workers on towers of up to 4, 2 on towers of 2, 1 alone | sums, marks and top nodes, as long as no walk misses a mark (section 4) |
| `sums_stale` | 2 workers on towers of 3 | **violation**: a stale sum (below) |
| `ett_batches` | 4 vertices, all sets of up to 3 of 5 edges | tours, joins, marks, freed elements |
| `ett_forest` | 4 vertices, seven chosen batches | the tree implements DynamicForest and every operation ends |
| `edge_map` | 2 threads, 4 keys, 4 slots | keys can be found, what is freed is live, calls return, EdgeDictionary is implemented |
| `concurrent_stack` | 3 threads, 4 nodes, 2 values at first, 4 calls | nodes in one place, exact sizes, Stack is implemented |
| `list_allocator` | 2 workers, lists of 2, 6 blocks, 3 growths or lives | blocks in one place, whole lists, memory accounted for, no growth without need |
| `treap` | 6 nodes, eight batches of up to 5, all thresholds small | branches apart, lists as the caller's |
| `sequential` | 4 vertices; 3 or 4 batches of links and cuts (6 for the list), any questions between | answers and sizes as the caller's |

*Properties worth reading first.* `QuietIsCanonical`: after a phase of joins every
level is complete, after splits nothing is left (the worry of the comments at
lines 250 and 277). `NeverBeyondRequest`: a split that walks over a cut path may
do extra work but never cuts too much. `SplitAnswers`: one of several concurrent
splits returns the successor. `Implements`: linearizability. `SumsExact`:
every node at every level holds its sum. `JoinsMatchEnds`: the join targets
chosen before any cut pair up exactly the ends that are open after all cuts,
whatever the order. `CutsOnlyMarked`, `FreedUnreachable`, `ToursAreTrees`.
`KeysCanBeFound`, at every step of a phase and not only between phases. `NodesInOnePlace`: the counter makes
every CAS fail that would swing the head to a link out of date, also when the two
halves of the copy are of different times. `BranchesApart`: two iterations of
`BatchJoin` never hold one tree, although one may read a flag of a chain that
another is already walking.

*Bounds and why they suffice.* Three elements with towers 1 to 3 have the
interesting gap: two level-0 joins below one link of level 1 or 2. Three threads
let two splits of one element meet a third next to it. Four elements give two
rings and searches that cross a low element. Four elements with towers of up to four
and three walks let a mark be claimed, lowered twice and met by a walk from yet another
level; `sums` takes the steps that satisfy `NoMarkMissed` (`ACTION_CONSTRAINT`),
since without it the finding below ends the run; it leaves out no step of one worker or
of towers of two levels (`MarksMissedHigh`). In the tree, four vertices have the
path (adjacent cuts in a chain), the star (all cuts around one loop) and two
separate edges; with `Sequential = 1` batches of two and three take the parallel
path, with up to all of their cuts ignored and rounds of recursion on two or
three. In the edge map each two of the four keys share their first slot and every
slot gets used, so that probes wrap around and in the end no slot is empty: the
case in which only the key or a tombstone ends a probe. Four calls of three threads
are enough for a node to be popped, moved and pushed again between another's read
of the head and its CAS, with spare nodes running out; in the allocator lists of
two, halves given away, taken by the other worker, growth up to and beyond
`max_blocks`, and a second `init` after `finish` all happen. Six treap nodes give
chains of five joins with any ignored, and splits that recurse twice; the sort's
block sizes are so small that a batch is sorted in several blocks and digits. Four
vertices give the splay trees zig, zig-zig and zig-zag rotations on up to ten
nodes, and cuts in both orders of an edge's two nodes.
Counters of the skip list need no bound: `answers` is reset each phase. Threads are
symmetric in the runs that check invariants only.

*Fairness.* `ParallelSkipList!FairSpec` is weakly fair to the steps of each thread
inside a call and to each store buffer: Cilk's workers are preempted, never
stopped, and a store buffer drains. Starting calls and phases is not fair.
`EulerTourTree!FairSpec` is weakly fair to the iterations together and to the
barriers, and strongly fair to a recursion that ignores fewer than all of its
cuts: each cut is ignored with probability 1/100, so an endless series of rounds
that each ignore everything has probability zero. `EdgeMap!FairSpec` is weakly fair
to the steps of each thread inside a call; the calls are not fair. `MaxNodes`,
`MaxCalls`, `MaxMoves` and `MaxChanges` bound the others, which have invariants,
action properties and safety refinements only.

*Stopping.* Deadlock is not checked in `list_allocator` alone: the program exits
when it has too many blocks, and the bound `MaxMoves` ends the rest.

## 4. What the runs found

`BatchUpdate` decides with the value of `update_level_` it read *before* its CAS
whether to lower the mark (`augmented_skip_list.cpp`, lines 142, 143, 156). If it
read `NA` and then lost the CAS to a walk that claims the element for a higher
level, `curr_update_level` is -1, `writeMin` is skipped and the lower levels are
not recomputed: `GetSum` and `GetSubsequenceSum` return old values. The race needs
an element of height three or more and two walks that arrive at different levels. Run
`sums_stale` shows the interleaving.

The update does not come down to the marked elements below either, so their marks
stay: later batches find them, take their elements for claimed and stop there, and
`MarksCleared` and `TopsAreRoots` fail as well. The step is the action `MissesMark`
of `AugmentedSkipList`. Nothing else goes wrong: `sums` checks all races with
that step left out, and `OnlyMissesBreakMarks` proves that no other step
ever breaks the invariant of the marks.

## 5. Proofs

TLC checks a small instance; the theorems below hold for every value of the
constants that meets the named assumptions of the modules (`ASSUME`), which TLC
evaluates in each run. All rest on TLAPS's SMT, Zenon and LS4 backends.

| Module | Theorem | States |
|---|---|---|
| `ParallelSkipListProofs` | `TypeCorrect`, `NoWrongLink`, `AccessesInBounds`, `RepresentativeFound` | `[]TypeOK`, `[]LinksInShape`, `[]InBounds`, `[]FoundRepresentative` |
| | `LinksPaired`, `OnlyWhatIsAsked`, `BarriersAreCanonical`, `OneSplitAnswers`, `Atomicity` | `[]PointersPaired`, `[]NeverBeyondRequest`, `[]QuietIsCanonical`, `[]SplitAnswers`, `Implements` (AtomicLists) |
| `AugmentedSkipListProofs` | `OnlyMissesBreakMarks`, `MarksMissedHigh` | only the step `MissesMark` breaks the invariant of the marks; it takes two workers and a tower of three |
| | `MarksTakenBack`, `TopsOfWalks`, `InductiveMarks` | `[]MarksCleared`, `[]TopsAreRoots`, their invariant, under `[][NoMarkMissed]_vars` |
| `EulerTourTreeProofs` | `TypeCorrect`, `JoinsFit`, `NoDanglingNeighbour`, `MarksRight`, `OnlyAtCuts` | `[]TypeOK`, `[]JoinsMatchEnds`, `[]FreedUnreachable`, `[]MarksAreCuts`, `CutsOnlyMarked` |
| `EulerTourTreeConnectivity` | `ToursTrees`, `StepsOfForest`, `InductiveRings` | `[]ToursAreTrees`, the steps of `Implements` (DynamicForest), the invariant of both |
| `EdgeMapProofs` | `TypeCorrect`, `KeysFound`, `FreesExactlyLive`, `Refinement` | `[]TypeOK`, `[]KeysCanBeFound`, `[]FreesWhatIsLive`, `Implements` (EdgeDictionary) |
| `ConcurrentStackProofs` | `TypeCorrect`, `OnePlace`, `SizesExact`, `Refinement` | `[]TypeOK`, `[]NodesInOnePlace`, `[]SizeExact`, `Implements` (Stack) |
| `ListAllocatorProofs` | `TypeCorrect`, `OnePlace`, `WholeLists`, `BooksRight`, `GrowthNeeded` | `[]TypeOK`, `[]BlocksInOnePlace`, `[]ListsWhole`, `[]MemoryAccounted`, `GrowsWhenNeeded` |

Each module proves an inductive invariant (`Invariance`, and `LinkInvariance`,
`BarrierInvariance`, `CallInvariance`, `FindInvariance` for the list, `InductiveRings` for the tours) with one lemma per action,
which TLC had checked as an invariant of a run first; the theorems follow from it.

**The skip list** has its proof in five layers, each using those before.

* `IInv`: `LinksInShape` is not inductive alone, for that `JoinNext` makes a right
  link depends on what the searches have found. `FrameOK` adds what each frame
  knows: the pair a join is about to link are neighbours in the arrangement, and a
  search at an element has the same parent as the element it began at. All this
  speaks of the arrangement, which no step within a phase changes, and not of the
  links others are changing; so a thread's step cannot disturb another's frame.
* `LinkInv`: the present links. A join that has searched to an element has passed
  only joined ones (`JoinLinks`), so the link one level up skips joined elements
  only; a split stays below a link that skips a split element (`SplitLinks`). How
  far a search has come is counted by `steps` of the arrangement.
* `BarrierInv`: every missing link of a join phase, and every link of a split
  phase that should go, is the business of some call under way (`JoinsToCome`,
  `SplitsToCome`), a buffered store included. Of two joins below one gap, the one
  that links level l last finds both parents. At a barrier no call is under way,
  so nothing is missing or left.
* `CallInv`: the successor of a split element is in one place, at its link, with
  the one thread that took it, or with the caller. `Atomicity` maps each step to
  one of AtomicLists or to a stutter: a Join takes effect with its CAS at level 0,
  a Split with its CAS or with the read of null that ends it.
* `FindInv`: a search stays in the list it was called on (`ListOf`) and on the
  topmost level of the element it is at. The elements it has passed since it last
  climbed (`Passed`) make a chain of links of that level, all of one height and none
  below `seen_element`. Comes the chain back to `seen_element`, it is a ring of
  links, which skips every element of the list, and none that a link skips is taller:
  so these are the tallest elements, and `seen_element` the lowest of them. That it is
  set back to null at each climb loses nothing, since the elements passed before
  are not among the tallest. Meets the search a null instead, then the list ends,
  and no element to the right is taller; walking back along the topmost level keeps
  this true, and where there is nothing more to the left, is the leftmost.

`SkipListGeometryProofs` has the lemmas about arrangements for this and for the
augmented list: what `WalkLeft` and `WalkRight` find, that `Reached` and `ListOf` are
the least closed sets (`ReachedLeast`, `ListLeast`) and `ListOf` is the same from
all elements of a list (`OneList`), and what a link skips (`Skipped`): all that lies
between its ends, nothing as tall as its level. An injective map of a finite set to
itself hits every element (`AllFollow`); hence a link that is there leads somewhere,
and links that close make the whole list (`RingOfLinks`).

Assumptions: finitely many elements, which are positive numbers (addresses), the
maximal height is positive, the arrangements are well formed. `WellFormed` states laws of skip
lists (neighbours are paired, parents are where walking finds them, a link one
level up skips what the links below it skip); TLC evaluates it for every
arrangement of the runs, which `ShapeOf` computes from heights and an order.

**The augmented list.** `Base` holds of every behaviour: walks are at elements, on
levels these have, each with an item of its own, and marks are below the top of a
tower. `MarkInv` is what `MissesMark` breaks (section 4). Every step keeps `Base`, and
every step but that one keeps `MarkInv` (`OnlyMissesBreakMarks`, a theorem about `Spec`
alone), so `MarksTakenBack` and `TopsOfWalks` assume of a behaviour that no walk misses
a mark (`[][NoMarkMissed]_vars`) and nothing of workers or towers. One worker, or
towers of two levels, never miss one (`MarksMissedHigh`). `SeenTo(x, l)`: x has a
mark no higher than l, or a walk is at x that will put one there or leave one in
place. In `WalkInv`, the part of `MarkInv` about walks, it holds of the parent of every
marked node, at the level from which the update must come down to the node. When all
walks have ended only marks are left, and `DownInv` holds: up from every marked node
lead marks, each low enough, to a topmost node that is still to be updated. Updating
one takes back, with the mark of a node, the marks of all marked nodes below it
(`VisitedDown`), so that the rest is as before; at the end the tallest marked node
would have to be one still to be updated. `Lineage`, the ancestors, is complete after as many
rounds as there are levels, for each is taller than the one before (`AncestorsUp`).
Assumptions: those of the skip list, finitely many workers, batches of at least one.

**The Euler tour tree.** `IInv` has one conjunct per stage. Between operations the
lists are tours (`Tours`: links paired, every element ends where the next begins,
no end open) of exactly the elements of the forest (`Idle`). `Fits` says that a set
of joins pairs up the open ends of the lists one-to-one; a join that fits leaves the
others fitting, so every order of the iterations will do (`JoinIteration`), and when
none is left no end is open and the lists are tours again.

* In `BatchLink` the sorted batch enumerates both directions of the new edges, so
  the arcs of a vertex form one group with one first and one last iteration. The
  ends that the splitting loop opens are the new elements, the loop of each group
  and its remembered successor (`LinkSplitting`), which the joins of the groups fit.
* In `BatchCutRecurse` the targets are read from whole tours s, which are then taken
  apart. `RightTarget` goes from an opened end past the cut edges; this walk is
  one-to-one (`TargetsOneToOne`) and ends within as many steps as there are marks
  (`WalkLeaves`: it never comes back to an element), so the targets fit
  `OpenedAt(s, CutArcs)`, the tours opened around every cut edge. While the loop
  splits, `CutSplitting` says that there are such tours s: each pointer is that of s
  or null next to a cut edge (`Between`), a cleared `next` has its `prev` cleared or
  in some buffer, and an iteration past the split of a predecessor has found it or
  has found it already split, a null read from a list that others take apart
  included (`Progress`). So the loop ends in `OpenedAt(s, CutArcs)`, whatever the
  interleaving. TLC checked this with s as a history variable.

`IInv` says that the lists are tours of the elements of the forest, not that the
elements of one tree are in one tour; `RInv` does. The *rotation* of an arc e is the
element after its twin: it begins at the vertex e begins at. `NoRing(n, A)` says
that no arcs of A go to one another in a ring of rotations, so that the rotations
around each vertex lead through all its arcs to its loop.

* Why `NoRing` and not "two tours become one" and "one becomes two": many iterations
  link and cut at once, and in the middle of a batch the lists are fragments of no
  forest in particular. A ring of rotations lies around a single vertex, so that what
  the iterations at one vertex do cannot make one at another, and their order does not
  matter. In a `BatchLink` the new arcs of a vertex follow one another in the order of
  the batch and the last leads to what was after the loop (`LinkOrder`). In a
  `BatchCutRecurse` the walk of `RightTarget` follows the rotation past the cut arcs,
  which takes them out of it. `SplitRings` and `JoinRings` speak of the lists n that
  there will be when all joins are made, because the present ones are open.
* `NoCycle`: the edges have ranks such that each joins two trees of the edges of lower
  rank. The caller of `BatchLink` promises that its edges close no cycle; linked
  or cut, the edges keep ranks.
* From both (`ToursSpread`): the set of elements that a tour comes to is
  closed under `next`. If it had the one direction of some edges and not the other,
  each of these edges would, by its rotations, lead to another one of them at its other
  end; but a part of a forest has a leaf (`Leaves`). So it has both directions of all
  its edges and thus all arcs of its vertices, and spreads over the tree.
* `Tour` and `Tree` compute closures in a fixed number of rounds. A closure that grows
  is complete after as many rounds as there are elements (`Growing`), and a forest has
  fewer edges than vertices (`FewElements`), so `3 * NumVertices` rounds are enough.
* `DynamicForest` counts the trees and describes them as least closed sets. `TreesAre`
  and `ForestCounted` (each edge merges two classes of representatives) give its
  notions from `Tree` and `NoCycle`; `NextForest` maps each step.

The batches worked off sequentially, `JoinAll` and the sorting are recursions over
a batch: `Recursion` gives the equations of such a function and `Induction` its
invariants. Assumptions: at least one vertex, a natural limit, batches of distinct
edges.

**The edge map.** A call has passed slots taken by other keys; `Passed` stays true
because within a phase nobody empties a slot or puts the call's key into one,
which needs `PhaseOK` (one kind of call, no key twice). `InsertOK` and `DeleteOK`
say what a thread knows between the read of a slot and its CAS or store, `LiveOK`
ties the allocated elements to the keys and to the calls under way. The
refinement maps the table to the set of stored keys: an insert takes effect with
the store of its value, a delete with its tombstone. Assumptions: the table is larger
than the number of edges (`TableLarger`), keys, `empty_key` and `tombstone`
differ, the hash gives a slot. The guards of `Insert`, `Find` and
`Delete` leave out calls that no caller makes and that the table would not stand: the
insert of a key that is there while there are tombstones (it would take one of them
and store the key twice), a `find` of an absent key, and a `deleteVal` of an absent
key when no slot is empty (it would not end).

**The concurrent stack.** `Chain(s)` is the sequence of the nodes of a side. The
counter of a head never goes back, so a thread whose copy equals the head knows
that the head has not moved since it read the counter, also when the other half of
the copy is older (`CopyOK`); a node's link changes only while one thread has
the node to itself (`PlacesOK`). The bounds of `TypeOK` need more: a length read
from a node that has moved may be wrong, but the threads that hold nodes can be put
in an order in which each reads only from those behind it, and the i-th has a
length of at most `MaxNodes - i + 1` (`LengthsBounded`). Assumptions: finitely many
threads, natural bounds, null is no node.

**The list allocator.** `WorkerOK` says where `mid` points: it counts from the end
of the list, which neither `alloc` nor `free` touches, and so stays right while the
list grows and shrinks before it. `PlacesOK` lists the places a block can be in,
the hands of a worker in the middle of a call included. `MemoryOK` bounds the
memory by the moves, for workers that have decided to grow and have not yet.
Counting lemmas (`Together`, `GlobalCount`, `OwnOfFacts`, `SumOfSizes`) turn the
partition into the numbers of `num_used_blocks` and `GrowsWhenNeeded`.
Assumptions: finitely many workers, lists of at least two blocks (2^16 in the
code), natural bounds.

Where an argument needs induction (sums and chains of any length, walks of any
number of steps), a least counterexample is derived to be impossible: `LeastNumber`
takes it from the well-foundedness of the naturals (`WFMin`).

*Only model-checked.* Liveness: `CallsReturn`, and that the operations of the Euler
tour tree and of the edge map end; the initial state and the steps of the Euler tour
tree's `Implements`, which includes it, are proved. The sums of the augmented list, `SumsExact`,
`GetSumOfList` and `SubsequenceSums`, and with them its `TypeOK`. The treap
and the sequential forests, which are recursive functions of trees.

## 6. Not modelled

* The life cycle of `Initialize` and `Finish` (`skip_list_base.hpp:128`,
  `augmented_skip_list.cpp`): a second `Initialize` in one process would use
  allocators that `Finish` has deleted. No program of the repository does it; it
  is the first model still to write. The array allocator only chooses among six
  list allocators by `log2_up`.
* `list_allocator::rand_shuffle` (for testing, never called), the hash table's
  `del` and `count`, and the arithmetic of the hash functions: any hash is allowed.
* Of the sequential structures, `Append`, `GetSuccessor` and `DeleteMin` of the
  splay tree, `lca` and `cut_from_par` of the link-cut tree, which the dynamic
  trees do not use, the destructors, and joins that close an augmented list to a
  ring.
* Benchmarks, graph generators, the static connectivity code, and the PBBS
  primitives that nothing modelled calls: they keep no state the library relies on.
* The distribution of heights and priorities, work and depth bounds.

The models take x86-TSO as the memory model (the code is built for it and uses
`__sync` builtins); a compiler that reorders the plain accesses is not modelled.

## 7. Plan

1. The life cycle of `Initialize` and `Finish` with two owners; the allocation and
   the edge map in `EulerTourTree` replaced by calls of `ListAllocator` and
   `EdgeMap`.
2. Proofs about the augmented list: `SumsExact` under `[][NoMarkMissed]_vars`.
