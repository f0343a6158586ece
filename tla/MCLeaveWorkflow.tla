--------------------------- MODULE MCLeaveWorkflow ---------------------------
(* Values of LeaveWorkflow's constants for TLC. *)
EXTENDS LeaveWorkflow, TLC

CONSTANTS r1, r2

(* Handlers are interchangeable, and so are unused HCM entry ids. *)
Symmetry == Permutations(Workers) \union Permutations(Entries)

UnitDur == [r \in Requests |-> 1]
OwnDays == [r \in Requests |-> IF r = r1 THEN {1} ELSE {2}]
==============================================================================
