---- MODULE MCEdgeMap ----
(* A small instance of EdgeMap for TLC. *)
EXTENDS EdgeMap

(* The edges of a square, of which two are linked at a time.  Each two     *)
(* share their first slot; every slot gets used, so that in the end none   *)
(* is empty, and probes wrap around the end of the table.                  *)
Square == {<<1, 2>>, <<2, 3>>, <<3, 4>>, <<1, 4>>}
Hashes ==
  [k \in Square |-> IF 1 \in {k[1], k[2]} THEN 1 ELSE 3]
====
