---- MODULE MCAugmentedSkipList ----
(* Small instances of AugmentedSkipList for TLC. *)
EXTENDS AugmentedSkipList, TLC

MCElements == 1 .. 4

Setup(heights, order, crew_) == [shape |-> ShapeOf(heights, order), crew |-> crew_]

(* Towers of at most two levels, two workers.                              *)
Low == {Setup(<<2, 1, 1, 2>>, Ring(4), 2), Setup(<<1, 2, 1, 1>>, Path(4), 2)}
(* Towers of three levels, one worker.                                     *)
High == {Setup(<<3, 1, 2, 1>>, TwoRings(2, 4), 1), Setup(<<1, 2, 3, 2>>, Path(4), 1)}
(* Towers of three levels, two workers.                                    *)
HighRace == {Setup(<<3, 1, 2, 1>>, Path(4), 2)}
(* Towers of up to four levels, three workers.                             *)
HighRaces ==
  {Setup(<<3, 1, 2, 1>>, Path(4), 3), Setup(<<1, 3, 2, 3>>, Ring(4), 3),
   Setup(<<2, 3, 1, 3>>, TwoRings(2, 4), 3), Setup(<<4, 1, 3, 2>>, Path(4), 3)}

AllSetups == Low \cup High \cup HighRaces

ShapesOfAll == {s.shape : s \in AllSetups}
ShapesOfHighRace == {s.shape : s \in HighRace}

ThreadSymmetry == Permutations(Threads)
====
