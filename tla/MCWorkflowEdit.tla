-------------------------- MODULE MCWorkflowEdit --------------------------
(* The smallest instance of WorkflowEdit in which an edit meets a run. *)
EXTENDS WorkflowEdit, TLC

(* Edits and runs are interchangeable. *)
Symmetry == Permutations(Editors) \cup Permutations(Runs)
=============================================================================
