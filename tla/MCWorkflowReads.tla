-------------------------- MODULE MCWorkflowReads --------------------------
(* Small instances of WorkflowReads, and so of WorkflowEdit, for TLC. *)
EXTENDS WorkflowReads, TLC

(* Edits and runs are interchangeable. *)
Symmetry == Permutations(Editors) \cup Permutations(Runs)
=============================================================================
