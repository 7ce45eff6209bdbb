------------------------- MODULE MCMemoryCompaction -------------------------
(* Instances of MemoryCompaction for TLC. *)
EXTENDS MemoryCompaction, TLC

IdSymmetry == Permutations(Summaries)
=============================================================================
