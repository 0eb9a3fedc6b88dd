---- MODULE MCEulerTourTree ----
(* Small instances of EulerTourTree for TLC. *)
EXTENDS EulerTourTree

(* Paths, stars and edges far apart, and single edges, on four vertices.   *)
FewBatches ==
  { << <<1, 2>>, <<2, 3>>, <<3, 4>> >>, << <<2, 1>>, <<2, 3>>, <<4, 2>> >>,
    << <<3, 4>>, <<1, 2>> >>, << <<1, 2>>, <<3, 2>> >>,
    << <<2, 3>> >>, << <<1, 3>> >>, << <<4, 1>> >> }

(* Every set of up to three of five edges, in one order and direction.     *)
FiveEdges == << <<1, 2>>, <<1, 3>>, <<4, 1>>, <<2, 3>>, <<2, 4>> >>
ManyBatches ==
  {[i \in DOMAIN s |-> FiveEdges[s[i]]] :
     s \in {t \in UNION {[1 .. n -> 1 .. 5] : n \in 1 .. 3} :
              \A i, j \in DOMAIN t : i < j => t[i] < t[j]}}
====
