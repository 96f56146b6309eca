----------------------------- MODULE MCPresence -----------------------------
(***************************************************************************)
(* Presence for TLC: sockets are interchangeable (safety runs only).       *)
(***************************************************************************)
EXTENDS Presence, TLC

SocketSymmetry == Permutations(Sockets)

=============================================================================
