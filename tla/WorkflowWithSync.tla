--------------------------- MODULE WorkflowWithSync ---------------------------
(***************************************************************************)
(* The leave request workflow and the nightly sync at work on one ledger.  *)
(*                                                                         *)
(* HCM knows the entries it was sent, one for each day, but nothing of the *)
(* reservations of requests in flight, which are rows of the ledger.       *)
(* reconcileBalanceKey takes the difference for drift and books it, so     *)
(* that a pending reservation costs nothing from the next night on.        *)
(* TimeOffSync has the whole sync; here are the steps that meet the ledger *)
(* of the workflow, for its balance key.                                   *)
(***************************************************************************)
EXTENDS LeaveWorkflow

CONSTANT MaxAdjustments  \* bound on the adjustments booked

ASSUME OpeningAssumption == Opening \in Int /\ MaxAdjustments \in Nat

(* Every day of a leave counts as one.                                     *)
ASSUME WholeDaysAssumption == \A r \in Requests : Dur[r] = Cardinality(Days[r])

VARIABLES
  stage,   \* the call the sync awaits next
  answer,  \* the balance fetchBalances answered with
  drift,   \* what it is going to book
  adjusted \* how many adjustments have been booked

syncing == <<stage, answer, drift, adjusted>>

HcmBalance == Opening - Cardinality((UNION {posted[r] : r \in Requests}) \ deleted)

InitWithSync ==
  Init /\ stage = "idle" /\ answer = 0 /\ drift = 0 /\ adjusted = 0

AtRest == \A p \in Procs : pc[p] = "idle"

(* The drift is booked with the wrong sign. *)
MutCompare ==
  /\ stage = "compare"
  /\ drift' = LedgerSum - answer
  /\ stage' = IF drift' = 0 THEN "idle" ELSE "adjust"
  /\ answer' = 0
  /\ UNCHANGED <<work, other, adjusted>>

FetchBalances ==
  /\ stage = "idle"
  /\ adjusted < MaxAdjustments
  /\ Isolated => AtRest
  /\ answer' = HcmBalance
  /\ stage' = "compare"
  /\ UNCHANGED <<work, other, drift, adjusted>>

Compare ==
  /\ stage = "compare"
  /\ drift' = answer - LedgerSum
  /\ stage' = IF drift' = 0 THEN "idle" ELSE "adjust"
  /\ answer' = 0
  /\ UNCHANGED <<work, other, adjusted>>

(* The SYNC_ADJUSTMENT is a row of the ledger that belongs to no request.  *)
Adjust ==
  /\ stage = "adjust"
  /\ other' = other + drift
  /\ stage' = "idle"
  /\ drift' = 0
  /\ adjusted' = adjusted + 1
  /\ UNCHANGED <<work, answer>>

(* A handler or a job of the workflow goes on, or time does.               *)
Workflow ==
  /\ Isolated => stage = "idle"
  /\ Act
  /\ UNCHANGED <<other, syncing>>

NextWithSync == Workflow \/ FetchBalances \/ Compare \/ Adjust

SpecWithSync == InitWithSync /\ [][NextWithSync]_<<vars, syncing>>
--------------------------------------------------------------------------------
(* What the ledger still holds back of a request and HCM has not, or not   *)
(* any longer, deducted.                                                   *)
Held(r) == CASE status[r] \in InFlight -> Dur[r]
             [] status[r] = "APPROVED" -> Cardinality(posted[r] \intersect deleted)
             [] OTHER -> 0

(* However requests and nightly adjustments follow each other, an employee *)
(* is never short of days HCM would grant: at rest the ledger shows at     *)
(* least HCM's balance less what requests in flight hold.  (It may show    *)
(* more, when a sync has booked a reservation away.)                       *)
NeverShort ==
  AtRest /\ stage = "idle" => LedgerSum + MapThenSumSet(Held, Requests) >= HcmBalance

(* Confirmed usage never exceeds the balance, unless the policy allows it, *)
(* the retry job, which checks no balance, may have posted a request, a    *)
(* sync has booked a reservation away or a late rejection has credited the *)
(* employee with leave that was never charged.                             *)
UsageWithinBalance ==
  \/ AllowsNegative
  \/ adjusted > 0
  \/ \E r \in Requests : WasDeferred(r) \/ RejectedLate(r)
  \/ Opening + MapThenSumSet(Charged, Requests) >= 0
================================================================================
