------------------------------ MODULE MCMeters ------------------------------
(***************************************************************************)
(* Meters for TLC: a fast and a slow bucket.                               *)
(***************************************************************************)
EXTENDS Meters

MCConfigOf ==
  [k \in Keys |-> IF k = "draw" THEN [capacity |-> 2, refillPerSec |-> 2]
                  ELSE [capacity |-> 1, refillPerSec |-> 1]]

=============================================================================
