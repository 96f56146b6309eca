----------------------------- MODULE MCCompaction -----------------------------
(***************************************************************************)
(* Compaction for TLC: the slots of the compactions are interchangeable.   *)
(***************************************************************************)
EXTENDS Compaction, TLC

CompactorSymmetry == Permutations(Compactors)

=============================================================================
