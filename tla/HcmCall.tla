-------------------------------- MODULE HcmCall --------------------------------
(***************************************************************************)
(* What the service's handlers take a call of Workday to be.  A call that  *)
(* changes something does so at most once; one that is answered has done   *)
(* it, one that is refused has not, and of one that fails for any other    *)
(* reason nobody knows.  LeaveWorkflow's HCM calls end in these ways.      *)
(***************************************************************************)
CONSTANTS Callers

Kinds == {"read", "write"}
Failures == {"unavailable", "transport"}
Outcomes == {"none", "ok", "validation"} \union Failures

VARIABLES waiting,  \* calls that have not returned
          kind,     \* does the call change anything?
          acted,    \* has Workday carried it out?
          outcome   \* how the last call of each caller ended

vars == <<waiting, kind, acted, outcome>>

Init == /\ waiting = {}
        /\ kind = [c \in Callers |-> "read"]
        /\ acted = [c \in Callers |-> FALSE]
        /\ outcome = [c \in Callers |-> "none"]

Call(c) == /\ c \notin waiting
           /\ waiting' = waiting \union {c}
           /\ \E k \in Kinds : kind' = [kind EXCEPT ![c] = k]
           /\ acted' = [acted EXCEPT ![c] = FALSE]
           /\ outcome' = [outcome EXCEPT ![c] = "none"]

Act(c) == /\ c \in waiting
          /\ kind[c] = "write"
          /\ ~acted[c]
          /\ acted' = [acted EXCEPT ![c] = TRUE]
          /\ UNCHANGED <<waiting, kind, outcome>>

Return(c) == /\ c \in waiting
             /\ waiting' = waiting \ {c}
             /\ \E o \in Outcomes \ {"none"} :
                  /\ o = "ok" => kind[c] = "read" \/ acted[c]
                  /\ o = "validation" => ~acted[c]
                  /\ outcome' = [outcome EXCEPT ![c] = o]
             /\ UNCHANGED <<kind, acted>>

Next == \E c \in Callers : Call(c) \/ Act(c) \/ Return(c)

Spec == Init /\ [][Next]_vars
================================================================================
