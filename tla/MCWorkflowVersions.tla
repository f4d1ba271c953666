------------------------- MODULE MCWorkflowVersions -------------------------
(* Instances of WorkflowVersions for TLC. *)
EXTENDS WorkflowVersions, TLC

Symmetry == Permutations(Publishers) \cup Permutations(Runs) \cup Permutations(Runnable)
=============================================================================
