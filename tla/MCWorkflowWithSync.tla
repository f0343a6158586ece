-------------------------- MODULE MCWorkflowWithSync --------------------------
(* Values of WorkflowWithSync's constants for TLC. *)
EXTENDS WorkflowWithSync, TLC

CONSTANTS r1, r2, r3

(* r1 and r2 ask for the same, and entries are names.                       *)
Symmetry == Permutations({r1, r2}) \union Permutations(Entries)

(* Two leaves of the same two days, and one of another day. *)
MixedDays == [r \in Requests |-> IF r = r3 THEN {3} ELSE {1, 2}]
MixedDur == [r \in Requests |-> IF r = r3 THEN 1 ELSE 2]
================================================================================
