-------------------------- MODULE MCWorkflowWithKeys --------------------------
(* Values of WorkflowWithKeys's constants for TLC. *)
EXTENDS WorkflowWithKeys, TLC

(* Requests are rows with generated ids that ask for the same day.          *)
Symmetry == Permutations(Requests) \union Permutations(Workers) \union Permutations(Entries)

SameDay == [r \in Requests |-> {1}]
OneDay == [r \in Requests |-> 1]
================================================================================
