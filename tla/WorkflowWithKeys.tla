--------------------------- MODULE WorkflowWithKeys ---------------------------
(***************************************************************************)
(* The POST endpoints of leave requests: a call passes withIdempotency     *)
(* (Idempotency), which looks its Idempotency-Key up, then runs the        *)
(* handler of the workflow (LeaveWorkflow) for as many steps as it takes,  *)
(* and stores the response of one that succeeded (approvals and leave      *)
(* requests controllers).                                                  *)
(*                                                                         *)
(* What an hour or a day changes is left out: a record of a key lives for  *)
(* 24 hours, within which the calls are made, and the jobs take no keys.   *)
(***************************************************************************)
EXTENDS LeaveWorkflow

CONSTANTS
  HeaderKeys, NoKey, NoRecord,
  MaxRuns  \* bound on handlers that are run

VARIABLES
  store, runs, stage, key, body, seen, mine, reply, \* of Idempotency
  made   \* history: of each request, the key and the body it was created by

wrapper == <<store, runs, stage, key, body, seen, mine, reply>>
rest    == <<rows, ledger, other, notices, hcm, locals>> \* of LeaveWorkflow, all but faults
keyed   == <<vars, wrapper, made>>

(* Route and body of a call; a request is created by what it asks for.     *)
Body(name, r) == IF name \in {"create", "draft"} THEN <<name, Days[r]>> ELSE <<name, r>>

CallBodies == {Body(name, r) : name \in Calls, r \in Requests}

Wrapped == INSTANCE Idempotency WITH
  Callers <- Workers, Keys <- HeaderKeys, Bodies <- CallBodies, TTL <- 1,
  pc <- stage

InitWithKeys == /\ Init
                /\ Wrapped!Init
                /\ made = [r \in Requests |-> NoRecord]
--------------------------------------------------------------------------------
(* A call arrives; a patient client has no other copy of it in work.       *)
Arrive(p) ==
  /\ Wrapped!Arrive(p)
  /\ \/ key'[p] = NoKey
     \/ \A q \in Workers : stage[q] # "idle" => key[q] # key'[p]
  /\ UNCHANGED <<vars, made>>

(* The wrapper before the handler and after it.                            *)
LookUp(p) == /\ Wrapped!Miss(p) \/ Wrapped!Replay(p) \/ Wrapped!Conflict(p)
             /\ UNCHANGED <<vars, made>>

Store(p) == Wrapped!Save(p) /\ UNCHANGED <<vars, made>>

WrapperFails(p) == Wrapped!QueryFails(p) /\ UNCHANGED <<rest, made>>

(* The handler the route names starts, or throws before it has changed     *)
(* anything.                                                               *)
Enter(p) ==
  /\ stage[p] = "handler"
  /\ Cardinality(DOMAIN runs) + Cardinality({q \in Workers : pc[q] # "idle"}) < MaxRuns
  /\ Begin(p)
  /\ body[p] = Body(op'[p], req'[p])
  /\ UNCHANGED <<other, wrapper, made>>

Refuse(p) ==
  /\ pc[p] = "idle"
  /\ Wrapped!HandlerThrows(p)
  /\ UNCHANGED <<vars, made>>

(* A step of the handler, which may be the one that inserts its request.   *)
Created(p) == req[p] \in Requests /\ status[req[p]] = "absent" /\ status'[req[p]] # "absent"

Work(p) ==
  /\ Step(p)
  /\ pc'[p] # "idle"
  /\ made' = IF Created(p) THEN [made EXCEPT ![req[p]] = <<key[p], body[p]>>] ELSE made
  /\ UNCHANGED <<other, wrapper>>

(* The handler returns: its last call is the audit row or a notification.  *)
Succeed(p) ==
  /\ Audit(p) \/ Notify(p)
  /\ pc'[p] = "idle"
  /\ Wrapped!Handle(p)
  /\ UNCHANGED <<other, made>>

Throw(p) ==
  /\ \/ Step(p) /\ pc[p] \notin {"audit", "notify"}
     \/ QueryFails(p)
  /\ pc'[p] = "idle"
  /\ Wrapped!Respond(p, 0)
  /\ UNCHANGED <<other, store, runs, key, body, made>>

(* The service dies, with the wrapped calls and the handlers in them.      *)
Die ==
  /\ Wrapped!Crash
  /\ \/ Crash /\ UNCHANGED other
     \/ (\A p \in Procs : pc[p] = "idle") /\ UNCHANGED rest
  /\ UNCHANGED made

NextWithKeys ==
  \/ \E p \in Workers : \/ Arrive(p) \/ LookUp(p) \/ Store(p) \/ WrapperFails(p)
                        \/ Enter(p) \/ Refuse(p) \/ Work(p) \/ Succeed(p) \/ Throw(p)
  \/ Die

SpecWithKeys == InitWithKeys /\ [][NextWithKeys]_keyed
--------------------------------------------------------------------------------
(* The effect of a call is there.                                          *)
Done(p) ==
  LET name == body[p][1]
      r == body[p][2]
  IN  CASE name = "approve" -> notices[r] \intersect {"APPROVED", "APPROVED_PENDING_HCM_UPDATE"} # {}
        [] name = "reject"  -> "reject" \in ledger[r]
        [] name = "cancel"  -> "CANCELLED" \in notices[r]
        [] OTHER            -> \E q \in Requests : made[q] = <<key[p], body[p]>>

(* A client that is told of a success finds done what this very call asked *)
(* for, be the answer its own handler's or replayed, also when the service *)
(* died between the effect and the answer.                                 *)
ToldIsDone == \A p \in Workers : reply[p] # 0 => Done(p)

SameCall(r, q) == made[r] # NoRecord /\ made[r] = made[q] /\ made[r][1] # NoKey

(* Copies of a create under one key make one request, unless a database    *)
(* call failed or the service died.                                        *)
CreatedOnce ==
  \A r, q \in Requests : r # q /\ SameCall(r, q) => faults > 0

(* Not even then do copies of a create, sent again because the answer was  *)
(* lost, leave two requests that take the employee's days.                 *)
ActiveOnce ==
  \A r, q \in Requests :
    r # q /\ SameCall(r, q) => status[r] \notin Active \/ status[q] \notin Active
================================================================================
