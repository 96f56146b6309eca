---------------------------- MODULE MCWhiteboard ----------------------------
(***************************************************************************)
(* Whiteboard for TLC: clients are interchangeable.                        *)
(***************************************************************************)
EXTENDS Whiteboard, TLC

ClientSymmetry == Permutations(Clients)

=============================================================================
