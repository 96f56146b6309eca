----------------------------- MODULE MCGateway -----------------------------
(* Small instances of Gateway. *)
EXTENDS Gateway

MCTokens ==
  {[room |-> "A", user |-> "u", exp |-> 1, genuine |-> TRUE],
   [room |-> "B", user |-> "v", exp |-> 2, genuine |-> TRUE],
   [room |-> "A", user |-> "w", exp |-> 2, genuine |-> FALSE]}
MCRooms == {"A", "B"}
MCDrawConfig == [capacity |-> 1, refillPerSec |-> 1]
MCCursorConfig == [capacity |-> 1, refillPerSec |-> 2]

=============================================================================
