-------------------------- MODULE MCToolApprovals --------------------------
(* Instances of ToolApprovals for TLC. *)
EXTENDS ToolApprovals, TLC

\* Ids are random UUIDs and requests have no identity.
IdSymmetry == Permutations(Approvals) \cup Permutations(Requests)
=============================================================================
