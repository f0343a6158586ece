----------------------------- MODULE LeaveWorkflow -----------------------------
(***************************************************************************)
(* The life of a leave request: the handlers of leave-request.service.ts   *)
(* and approval.service.ts, run concurrently against the database and the  *)
(* HCM (Workday).                                                          *)
(*                                                                         *)
(* The handlers use no database transaction, so every awaited prisma call  *)
(* is one atomic step of a handler and every await a point where another   *)
(* handler may run.  A handler is a process whose pc names the next        *)
(* awaited call.  Early returns and thrown errors end the handler.         *)
(*                                                                         *)
(* The model has the requests of one balance key (employee, leave type,    *)
(* dimensions); the balance check reads only that key.  A row of the       *)
(* ledger is represented by the idempotency key it carries, which the      *)
(* schema makes unique: adding a key twice adds one row (appendLedgerEntry *)
(* itself is the subject of LedgerAppend).                                 *)
(***************************************************************************)
EXTENDS Integers, FiniteSets, FiniteSetsExt

CONSTANTS
  Requests,        \* leave requests an employee may file
  Workers,         \* concurrent API handlers
  Jobs,            \* concurrent runs of the hcm-approval-retry job
  Entries,         \* HCM time-off entry ids still unused (bounds the posts)
  NoRequest, NoEntry,
  Dur,             \* durationDays of each request
  Days,            \* the calendar days each request covers
  Opening,         \* ledger balance before any of the requests
  AllowsNegative,  \* the policy's allowsNegativeBalance
  Window,          \* HCM_APPROVAL_RETRY_WINDOW_HOURS, in clock ticks
  Calls,           \* API operations the clients use
  Replies,         \* how HCM calls may end
  LostReplies,     \* requests HCM may act on while the caller sees a failure
  Isolated,        \* do calls about one request never overlap in time?
  MaxFaults        \* bound on failing database calls and crashes

Procs == Workers \union Jobs

Statuses == {"absent", "DRAFT", "PENDING", "APPROVED_PENDING_HCM_UPDATE",
             "APPROVED", "REJECTED", "CANCELLED"}

Decisions == {"none", "PENDING", "APPROVED", "REJECTED"}

ApiCalls == {"create", "draft", "approve", "reject", "cancel"}

(* Why a reservation is released: the suffix of its idempotency key.       *)
Causes == {"approve", "reject", "cancel", "hcm-fail", "expired"}

Debits == {"reservation", "usage"}

Keys == Debits \union Causes \union {"reversal"}

(* pc labels, named for the awaited call that comes next.                  *)
Labels == {"idle", "ledger", "flight", "tally", "reservations", "releases",
           "refresh", "insert", "reserve", "chain", "decide", "post",
           "release", "usage", "approved", "defer", "close", "correct",
           "reverse", "cancelled", "audit", "notify", "loop", "count", "sweep"}

ASSUME ProcsAssumption == Workers \intersect Jobs = {}
ASSUME RequestsAssumption == /\ IsFiniteSet(Requests)
                             /\ NoRequest \notin Requests
ASSUME EntriesAssumption == NoEntry \notin Entries
ASSUME DurAssumption == Dur \in [Requests -> Nat]
ASSUME WindowAssumption == Window \in Nat \ {0}
ASSUME CallsAssumption == Calls \subseteq ApiCalls
ASSUME FlagsAssumption == /\ LostReplies \subseteq Requests
                          /\ Isolated \in BOOLEAN
                          /\ MaxFaults \in Nat

VARIABLES
  status,    \* LeaveRequest.status
  decision,  \* Approval.decision of the request's only approval step
  hcmRef,    \* LeaveRequest.hcmReferenceId
  left,      \* ticks until hcmRetryDeadlineAt
  ledger,    \* idempotency keys of the request's rows in the ledger
  other,     \* the sum of the ledger's rows that belong to no request
  notices,   \* statuses the notifications of the request have reported
  posted,    \* HCM: entries created for the request by requestTimeOff
  deleted,   \* HCM: entries removed by correctTimeOffEntry
  pc,        \* where each handler is
  op,        \* which handler it is
  req,       \* the request it works on
  ref,       \* the HCM entry it holds in a local variable
  cause,     \* why it releases the reservation, if it does
  avail,     \* the available balance computed so far
  flight,    \* the in-flight requests it read
  todo,      \* requests a job still has to process
  overdue,   \* requests whose deadline is not after the job's `now`
  faults     \* failures so far

rows   == <<status, decision, hcmRef, left>>
hcm    == <<posted, deleted>>
call   == <<op, req, ref, cause>>
check  == <<avail, flight>>
batch  == <<todo, overdue>>
locals == <<pc, call, check, batch>>
work   == <<rows, ledger, notices, hcm, locals, faults>>
vars   == <<work, other>>

--------------------------------------------------------------------------------
InFlight == {"PENDING", "APPROVED_PENDING_HCM_UPDATE"}
Active == InFlight \union {"APPROVED"}

(* The amount a ledger row contributes, and what a request's rows sum to.  *)
Amount(r, k) == IF k \notin ledger[r] THEN 0
                ELSE IF k \in Debits THEN -Dur[r] ELSE Dur[r]

Released(r) == Amount(r, "approve") + Amount(r, "reject") + Amount(r, "cancel")
               + Amount(r, "hcm-fail") + Amount(r, "expired")

Net(r) == Amount(r, "reservation") + Amount(r, "usage")
          + Amount(r, "reversal") + Released(r)

LedgerSum == other + MapThenSumSet(Net, Requests)

(* Mutated form of Overlaps: approved requests are forgotten. *)
MutOverlaps(r) == \E q \in Requests : /\ status[q] \in InFlight
                                      /\ Days[q] \intersect Days[r] # {}

Overlaps(r) == \E q \in Requests : /\ status[q] \in Active
                                   /\ Days[q] \intersect Days[r] # {}

Free == Entries \ UNION {posted[r] : r \in Requests}

Busy(r) == \E p \in Procs : req[p] = r \/ r \in todo[p]

--------------------------------------------------------------------------------
Init ==
  /\ status = [r \in Requests |-> "absent"]
  /\ decision = [r \in Requests |-> "none"]
  /\ hcmRef = [r \in Requests |-> NoEntry]
  /\ left = [r \in Requests |-> 0]
  /\ ledger = [r \in Requests |-> {}]
  /\ notices = [r \in Requests |-> {}]
  /\ other = Opening
  /\ posted = [r \in Requests |-> {}]
  /\ deleted = {}
  /\ pc = [p \in Procs |-> "idle"]
  /\ op = [p \in Procs |-> "none"]
  /\ req = [p \in Procs |-> NoRequest]
  /\ ref = [p \in Procs |-> NoEntry]
  /\ cause = [p \in Procs |-> "none"]
  /\ avail = [p \in Procs |-> 0]
  /\ flight = [p \in Procs |-> {}]
  /\ todo = [p \in Procs |-> {}]
  /\ overdue = [p \in Procs |-> {}]
  /\ faults = 0

At(p, label) == pc[p] = label
Goto(p, label) == pc' = [pc EXCEPT ![p] = label]

(* The handler returns or throws: its local variables are gone.            *)
Finish(p) ==
  /\ Goto(p, "idle")
  /\ op' = [op EXCEPT ![p] = "none"]
  /\ req' = [req EXCEPT ![p] = NoRequest]
  /\ ref' = [ref EXCEPT ![p] = NoEntry]
  /\ cause' = [cause EXCEPT ![p] = "none"]
  /\ avail' = [avail EXCEPT ![p] = 0]
  /\ flight' = [flight EXCEPT ![p] = {}]
  /\ todo' = [todo EXCEPT ![p] = {}]
  /\ overdue' = [overdue EXCEPT ![p] = {}]

(* The retry job turns to its next request: only its lists survive.        *)
Continue(p, label) ==
  /\ Goto(p, label)
  /\ req' = [req EXCEPT ![p] = NoRequest]
  /\ ref' = [ref EXCEPT ![p] = NoEntry]
  /\ cause' = [cause EXCEPT ![p] = "none"]
  /\ UNCHANGED <<op, check, batch>>

Start(p, name, r, e, c, label) ==
  /\ At(p, "idle")
  /\ p \in Workers
  /\ name \in Calls
  /\ Isolated => ~Busy(r)
  /\ op' = [op EXCEPT ![p] = name]
  /\ req' = [req EXCEPT ![p] = r]
  /\ ref' = [ref EXCEPT ![p] = e]
  /\ cause' = [cause EXCEPT ![p] = c]
  /\ Goto(p, label)
  /\ UNCHANGED <<rows, ledger, notices, hcm, check, batch, faults>>

Append(r, k) == ledger' = [ledger EXCEPT ![r] = @ \union {k}]
SetStatus(r, s) == status' = [status EXCEPT ![r] = s]
--------------------------------------------------------------------------------
(* Mutated forms: plausible bugs in the definition each one names.  No     *)
(* specification uses them; they show that the properties can fail.        *)

(* The reservation is no longer skipped for drafts. *)
MutInsert(p) ==
  /\ At(p, "insert")
  /\ SetStatus(req[p], IF op[p] = "draft" THEN "DRAFT" ELSE "PENDING")
  /\ Goto(p, "reserve")
  /\ UNCHANGED <<decision, hcmRef, left, ledger, notices, hcm, call, check, batch, faults>>

(* An approval books the usage without releasing the reservation. *)
MutRelease(p) ==
  /\ At(p, "release")
  /\ IF cause[p] = "approve" THEN UNCHANGED ledger ELSE Append(req[p], cause[p])
  /\ Goto(p, CASE cause[p] = "approve" -> "usage"
               [] cause[p] \in {"reject", "cancel"} -> "audit"
               [] OTHER -> "notify")
  /\ UNCHANGED <<rows, notices, hcm, call, check, batch, faults>>

(* The entry id HCM returned is not stored. *)
MutSetApproved(p) ==
  /\ At(p, "approved")
  /\ SetStatus(req[p], "APPROVED")
  /\ Goto(p, IF op[p] = "approve" THEN "audit" ELSE "notify")
  /\ UNCHANGED <<decision, hcmRef, left, ledger, notices, hcm, call, check, batch, faults>>

(* A refused post is taken for a success. *)
MutPostRefused(p) ==
  /\ At(p, "post")
  /\ "validation" \in Replies
  /\ cause' = [cause EXCEPT ![p] = "approve"]
  /\ Goto(p, "release")
  /\ UNCHANGED <<rows, ledger, notices, hcm, op, req, ref, check, batch, faults>>

(* The deadline is one unit too late. *)
MutDefer(p) ==
  /\ At(p, "defer")
  /\ SetStatus(req[p], "APPROVED_PENDING_HCM_UPDATE")
  /\ left' = [left EXCEPT ![req[p]] = Window + 1]
  /\ overdue' = [q \in Procs |-> overdue[q] \ {req[p]}]
  /\ Goto(p, "audit")
  /\ UNCHANGED <<decision, hcmRef, ledger, notices, hcm, call, check, todo, faults>>

(* A rejection forgets the reservation. *)
MutClose(p) ==
  /\ At(p, "close")
  /\ SetStatus(req[p], "REJECTED")
  /\ Goto(p, "notify")
  /\ UNCHANGED <<decision, hcmRef, left, ledger, notices, hcm, call, check, batch, faults>>

(* The query for expired requests lost its condition on the status. *)
MutSweep(p) ==
  /\ At(p, "loop")
  /\ todo[p] = {}
  /\ Isolated => \A r \in overdue[p] : ~Busy(r)
  /\ todo' = [todo EXCEPT ![p] = {r \in overdue[p] : status[r] # "absent"}]
  /\ overdue' = [overdue EXCEPT ![p] = {}]
  /\ Goto(p, "sweep")
  /\ UNCHANGED <<rows, ledger, notices, hcm, call, check, faults>>

(* The query for expired requests finds none. *)
MutSweepNone(p) ==
  /\ At(p, "loop")
  /\ todo[p] = {}
  /\ overdue' = [overdue EXCEPT ![p] = {}]
  /\ Goto(p, "sweep")
  /\ UNCHANGED <<rows, ledger, notices, hcm, call, check, todo, faults>>

(* A failed correction does not stop the cancellation. *)
MutCorrect(p) ==
  /\ At(p, "correct")
  /\ \/ UNCHANGED deleted
     \/ "ok" \in Replies /\ deleted' = deleted \union {ref[p]}
  /\ Goto(p, "reverse")
  /\ UNCHANGED <<rows, ledger, notices, posted, call, check, batch, faults>>

(* A cancellation does not release the reservation. *)
MutSetCancelled(p) ==
  /\ At(p, "cancelled")
  /\ SetStatus(req[p], "CANCELLED")
  /\ Goto(p, "audit")
  /\ UNCHANGED <<decision, hcmRef, left, ledger, notices, hcm, call, check, batch, faults>>

(* An approved request is cancelled without a word to HCM. *)
MutBeginCancel(p, r) ==
  \/ /\ status[r] = "APPROVED"
     /\ Start(p, "cancel", r, hcmRef[r], "none", "reverse")
  \/ /\ status[r] \in InFlight
     /\ Start(p, "cancel", r, NoEntry, "cancel", "cancelled")

--------------------------------------------------------------------------------
(* Entry of each handler: its first read and the errors it throws at once. *)

(* The row's id is generated by the database, so no two calls create r.    *)
BeginCreate(p, r) ==
  /\ status[r] = "absent"
  /\ \A q \in Procs : req[q] # r
  /\ ~Overlaps(r)
  /\ \/ Start(p, "create", r, NoEntry, "none", "ledger")
     \/ Start(p, "draft", r, NoEntry, "none", "insert")

BeginApprove(p, r) ==
  /\ decision[r] = "PENDING"
  /\ status[r] = "PENDING"
  /\ Start(p, "approve", r, NoEntry, "none", "decide")

(* rejectLeaveRequest looks at the approval only, not at the status: a     *)
(* request cancelled while it was pending can still be rejected.           *)
BeginReject(p, r) ==
  /\ decision[r] = "PENDING"
  /\ Start(p, "reject", r, NoEntry, "reject", "decide")

BeginCancel(p, r) ==
  \/ /\ status[r] = "APPROVED"
     /\ hcmRef[r] # NoEntry
     /\ Start(p, "cancel", r, hcmRef[r], "none", "correct")
  \/ /\ status[r] \in InFlight
     /\ Start(p, "cancel", r, NoEntry, "cancel", "cancelled")
  \/ /\ status[r] = "DRAFT"
     /\ Start(p, "cancel", r, NoEntry, "none", "cancelled")

(* `now` is read and the first query issued in the same turn.  A request   *)
(* deferred later gets a deadline after this job's `now`.                  *)
BeginRetry(p) ==
  /\ At(p, "idle")
  /\ p \in Jobs
  /\ LET found == {r \in Requests : /\ status[r] = "APPROVED_PENDING_HCM_UPDATE"
                                    /\ left[r] > 0}
     IN  /\ Isolated => \A r \in found : ~Busy(r)
         /\ todo' = [todo EXCEPT ![p] = found]
  /\ overdue' = [overdue EXCEPT ![p] = {r \in Requests : left[r] = 0}]
  /\ op' = [op EXCEPT ![p] = "retry"]
  /\ Goto(p, "loop")
  /\ UNCHANGED <<rows, ledger, notices, hcm, req, ref, cause, check, faults>>
--------------------------------------------------------------------------------
(* checkAvailableBalance: three reads of the database, then a comparison.  *)

(* Mutated form of Judge: any balance that is not negative will do. *)
MutJudge(p, amount) ==
  /\ UNCHANGED <<rows, ledger, notices, hcm, faults>>
  /\ IF AllowsNegative \/ amount >= 0
     THEN /\ Goto(p, IF op[p] = "create" THEN "refresh" ELSE "post")
          /\ UNCHANGED <<call, check, batch>>
     ELSE Finish(p)

Judge(p, amount) ==
  /\ UNCHANGED <<rows, ledger, notices, hcm, faults>>
  /\ IF AllowsNegative \/ amount >= Dur[req[p]]
     THEN /\ Goto(p, IF op[p] = "create" THEN "refresh" ELSE "post")
          /\ avail' = [avail EXCEPT ![p] = 0]
          /\ flight' = [flight EXCEPT ![p] = {}]
          /\ UNCHANGED <<call, batch>>
     ELSE Finish(p)

ReadLedger(p) ==
  /\ At(p, "ledger")
  /\ avail' = [avail EXCEPT ![p] = LedgerSum]
  /\ Goto(p, "flight")
  /\ UNCHANGED <<rows, ledger, notices, hcm, call, flight, batch, faults>>

ReadFlight(p) ==
  LET found == {r \in Requests : status[r] \in InFlight}
  IN  /\ At(p, "flight")
      /\ IF found = {}
         THEN Judge(p, avail[p])
         ELSE /\ flight' = [flight EXCEPT ![p] = found]
              /\ Goto(p, "tally")
              /\ UNCHANGED <<rows, ledger, notices, hcm, call, avail, batch, faults>>

(* pendingBalance subtracts what is held by the in-flight requests; its    *)
(* two queries are issued together and answered in either order.           *)
Reserved(p) == MapThenSumSet(LAMBDA r : Amount(r, "reservation"), flight[p])
Freed(p) == MapThenSumSet(Released, flight[p])

ReadHeld(p) ==
  \/ /\ At(p, "tally")
     /\ \/ /\ avail' = [avail EXCEPT ![p] = @ - Reserved(p)]
           /\ Goto(p, "releases")
        \/ /\ avail' = [avail EXCEPT ![p] = @ - Freed(p)]
           /\ Goto(p, "reservations")
     /\ UNCHANGED <<rows, ledger, notices, hcm, call, flight, batch, faults>>
  \/ At(p, "releases") /\ Judge(p, avail[p] - Freed(p))
  \/ At(p, "reservations") /\ Judge(p, avail[p] - Reserved(p))

(* fetchBalances: unavailability is caught, any other error ends the       *)
(* handler, and an answer is not used.                                     *)
Refresh(p) ==
  /\ At(p, "refresh")
  /\ \/ /\ Replies \intersect {"ok", "unavailable"} # {}
        /\ Goto(p, IF op[p] = "create" THEN "insert" ELSE "ledger")
        /\ UNCHANGED <<call, check, batch>>
     \/ /\ Replies \intersect {"validation", "transport"} # {}
        /\ Finish(p)
  /\ UNCHANGED <<rows, ledger, notices, hcm, faults>>
--------------------------------------------------------------------------------
(* createLeaveRequest                                                      *)

Insert(p) ==
  /\ At(p, "insert")
  /\ IF op[p] = "draft"
     THEN SetStatus(req[p], "DRAFT") /\ Goto(p, "audit")
     ELSE SetStatus(req[p], "PENDING") /\ Goto(p, "reserve")
  /\ UNCHANGED <<decision, hcmRef, left, ledger, notices, hcm, call, check, batch, faults>>

Reserve(p) ==
  /\ At(p, "reserve")
  /\ Append(req[p], "reservation")
  /\ Goto(p, "chain")
  /\ UNCHANGED <<rows, notices, hcm, call, check, batch, faults>>

(* buildApprovalChain: the manager is the only approver.                   *)
CreateApproval(p) ==
  /\ At(p, "chain")
  /\ decision' = [decision EXCEPT ![req[p]] = "PENDING"]
  /\ Goto(p, "notify")
  /\ UNCHANGED <<status, hcmRef, left, ledger, notices, hcm, call, check, batch, faults>>
--------------------------------------------------------------------------------
(* approveLeaveRequest, rejectLeaveRequest and the retry job               *)

(* approval.update is keyed by id alone.                                   *)
Decide(p) ==
  /\ At(p, "decide")
  /\ IF op[p] = "approve"
     THEN decision' = [decision EXCEPT ![req[p]] = "APPROVED"] /\ Goto(p, "refresh")
     ELSE decision' = [decision EXCEPT ![req[p]] = "REJECTED"] /\ Goto(p, "close")
  /\ UNCHANGED <<status, hcmRef, left, ledger, notices, hcm, call, check, batch, faults>>

(* The job picks the next request of its list.                             *)
NextPending(p) ==
  /\ At(p, "loop")
  /\ \E r \in todo[p] :
       /\ req' = [req EXCEPT ![p] = r]
       /\ todo' = [todo EXCEPT ![p] = @ \ {r}]
  /\ Goto(p, "post")
  /\ UNCHANGED <<rows, ledger, notices, hcm, op, ref, cause, check, overdue, faults>>

(* Workday makes an entry of each day of a requestTimeOff.                 *)
Post(p, new) ==
  /\ new \subseteq Free
  /\ Cardinality(new) = Cardinality(Days[req[p]])
  /\ posted' = [posted EXCEPT ![req[p]] = @ \union new]

(* requestTimeOff is accepted and answered; of the ids in the answer the   *)
(* first is kept.                                                          *)
PostAccepted(p) ==
  /\ At(p, "post")
  /\ "ok" \in Replies
  /\ \E new \in SUBSET Free :
       /\ Post(p, new)
       /\ \E e \in new : ref' = [ref EXCEPT ![p] = e]
  /\ cause' = [cause EXCEPT ![p] = "approve"]
  /\ Goto(p, "release")
  /\ UNCHANGED <<rows, ledger, notices, deleted, op, req, check, batch, faults>>

(* HcmValidationError: the approver gets an error, the job rejects.        *)
PostRefused(p) ==
  /\ At(p, "post")
  /\ "validation" \in Replies
  /\ IF op[p] = "approve"
     THEN Finish(p)
     ELSE /\ cause' = [cause EXCEPT ![p] = "hcm-fail"]
          /\ Goto(p, "close")
          /\ UNCHANGED <<op, req, ref, check, batch>>
  /\ UNCHANGED <<rows, ledger, notices, hcm, faults>>

(* The call fails for another reason: HcmUnavailableError, or the error    *)
(* fetch raises when the transport breaks, which is no HcmUnavailableError.*)
(* The approver's request is deferred, the job counts its attempt.         *)
PostFailed(p) ==
  /\ At(p, "post")
  /\ \/ UNCHANGED posted
     \/ /\ req[p] \in LostReplies
        /\ \E new \in SUBSET Free : Post(p, new)
  /\ \/ /\ op[p] = "retry"
        /\ Replies \intersect {"unavailable", "transport"} # {}
        /\ Goto(p, "count")
        /\ UNCHANGED <<call, check, batch>>
     \/ /\ op[p] = "approve"
        /\ "unavailable" \in Replies
        /\ Goto(p, "defer")
        /\ UNCHANGED <<call, check, batch>>
     \/ /\ op[p] = "approve"
        /\ "transport" \in Replies
        /\ Finish(p)
  /\ UNCHANGED <<rows, ledger, notices, deleted, faults>>

(* The job increments hcmRetryCount, which nothing reads, and goes on.     *)
CountAttempt(p) ==
  /\ At(p, "count")
  /\ Continue(p, "loop")
  /\ UNCHANGED <<rows, ledger, notices, hcm, faults>>

(* appendLedgerEntry of the RESERVATION_RELEASE; on approval the first     *)
(* half of convertPendingReservationToConfirmedUsage.                      *)
Release(p) ==
  /\ At(p, "release")
  /\ Append(req[p], cause[p])
  /\ Goto(p, CASE cause[p] = "approve" -> "usage"
               [] cause[p] \in {"reject", "cancel"} -> "audit"
               [] OTHER -> "notify")
  /\ UNCHANGED <<rows, notices, hcm, call, check, batch, faults>>

ConfirmUsage(p) ==
  /\ At(p, "usage")
  /\ Append(req[p], "usage")
  /\ Goto(p, "approved")
  /\ UNCHANGED <<rows, notices, hcm, call, check, batch, faults>>

(* leaveRequest.update is keyed by id alone, as are all that follow.       *)
SetApproved(p) ==
  /\ At(p, "approved")
  /\ SetStatus(req[p], "APPROVED")
  /\ hcmRef' = [hcmRef EXCEPT ![req[p]] = ref[p]]
  /\ Goto(p, IF op[p] = "approve" THEN "audit" ELSE "notify")
  /\ UNCHANGED <<decision, left, ledger, notices, hcm, call, check, batch, faults>>

Defer(p) ==
  /\ At(p, "defer")
  /\ SetStatus(req[p], "APPROVED_PENDING_HCM_UPDATE")
  /\ left' = [left EXCEPT ![req[p]] = Window]
  /\ overdue' = [q \in Procs |-> overdue[q] \ {req[p]}]
  /\ Goto(p, "audit")
  /\ UNCHANGED <<decision, hcmRef, ledger, notices, hcm, call, check, todo, faults>>

Close(p) ==
  /\ At(p, "close")
  /\ SetStatus(req[p], "REJECTED")
  /\ Goto(p, "release")
  /\ UNCHANGED <<decision, hcmRef, left, ledger, notices, hcm, call, check, batch, faults>>

(* The job's second query, once its list is done: the expired requests.    *)
Sweep(p) ==
  /\ At(p, "loop")
  /\ todo[p] = {}
  /\ LET found == {r \in overdue[p] : status[r] = "APPROVED_PENDING_HCM_UPDATE"}
     IN  /\ Isolated => \A r \in found : ~Busy(r)
         /\ todo' = [todo EXCEPT ![p] = found]
  /\ overdue' = [overdue EXCEPT ![p] = {}]
  /\ Goto(p, "sweep")
  /\ UNCHANGED <<rows, ledger, notices, hcm, call, check, faults>>

NextExpired(p) ==
  /\ At(p, "sweep")
  /\ \E r \in todo[p] :
       /\ req' = [req EXCEPT ![p] = r]
       /\ todo' = [todo EXCEPT ![p] = @ \ {r}]
  /\ cause' = [cause EXCEPT ![p] = "expired"]
  /\ Goto(p, "close")
  /\ UNCHANGED <<rows, ledger, notices, hcm, op, ref, check, overdue, faults>>

EndRetry(p) ==
  /\ At(p, "sweep")
  /\ todo[p] = {}
  /\ Finish(p)
  /\ UNCHANGED <<rows, ledger, notices, hcm, faults>>
--------------------------------------------------------------------------------
(* cancelLeaveRequest                                                      *)

Correct(p) ==
  /\ At(p, "correct")
  /\ \/ /\ "ok" \in Replies
        /\ deleted' = deleted \union {ref[p]}
        /\ Goto(p, "reverse")
        /\ UNCHANGED <<call, check, batch>>
     \/ /\ Replies \ {"ok"} # {}
        /\ deleted' \in {deleted} \union
                        (IF req[p] \in LostReplies THEN {deleted \union {ref[p]}} ELSE {})
        /\ Finish(p)
  /\ UNCHANGED <<rows, ledger, notices, posted, faults>>

Reverse(p) ==
  /\ At(p, "reverse")
  /\ Append(req[p], "reversal")
  /\ Goto(p, "cancelled")
  /\ UNCHANGED <<rows, notices, hcm, call, check, batch, faults>>

SetCancelled(p) ==
  /\ At(p, "cancelled")
  /\ SetStatus(req[p], "CANCELLED")
  /\ Goto(p, IF cause[p] = "cancel" THEN "release" ELSE "audit")
  /\ UNCHANGED <<decision, hcmRef, left, ledger, notices, hcm, call, check, batch, faults>>
--------------------------------------------------------------------------------
(* The status a handler reports in its notification.                       *)
Written(p) == CASE op[p] = "create" -> "PENDING"
                [] op[p] = "cancel" -> "CANCELLED"
                [] cause[p] = "approve" -> "APPROVED"
                [] cause[p] = "none" -> "APPROVED_PENDING_HCM_UPDATE"
                [] OTHER -> "REJECTED"

(* The audit row is written; no handler reads the log, which is left out.  *)
(* The retry job never gets here.                                          *)
Audit(p) ==
  /\ At(p, "audit")
  /\ IF op[p] \in {"create", "draft"}
     THEN Finish(p)
     ELSE Goto(p, "notify") /\ UNCHANGED <<call, check, batch>>
  /\ UNCHANGED <<rows, ledger, notices, hcm, faults>>

Notify(p) ==
  /\ At(p, "notify")
  /\ notices' = [notices EXCEPT ![req[p]] = @ \union {Written(p)}]
  /\ CASE op[p] = "create" -> Goto(p, "audit") /\ UNCHANGED <<call, check, batch>>
       [] op[p] = "retry" -> Continue(p, IF cause[p] = "expired" THEN "sweep" ELSE "loop")
       [] OTHER -> Finish(p)
  /\ UNCHANGED <<rows, ledger, hcm, faults>>
--------------------------------------------------------------------------------
(* Failures and time                                                       *)

(* A database call throws.  The job catches the error while it is recording*)
(* a successful post and counts a failed attempt; everywhere else, in that *)
(* catch block too, the handler ends.                                      *)
QueryFails(p) ==
  /\ pc[p] \notin {"idle", "post", "correct", "refresh", "sweep"}
  /\ ~(pc[p] = "loop" /\ todo[p] # {})
  /\ faults < MaxFaults
  /\ faults' = faults + 1
  /\ IF op[p] = "retry" /\ cause[p] = "approve"
     THEN /\ Goto(p, "count")
          /\ ref' = [ref EXCEPT ![p] = NoEntry]
          /\ cause' = [cause EXCEPT ![p] = "none"]
          /\ UNCHANGED <<op, req, check, batch>>
     ELSE Finish(p)
  /\ UNCHANGED <<rows, ledger, notices, hcm>>

(* The service process dies with every handler in it.                      *)
Crash ==
  /\ \E p \in Procs : pc[p] # "idle"
  /\ faults < MaxFaults
  /\ faults' = faults + 1
  /\ pc' = [p \in Procs |-> "idle"]
  /\ op' = [p \in Procs |-> "none"]
  /\ req' = [p \in Procs |-> NoRequest]
  /\ ref' = [p \in Procs |-> NoEntry]
  /\ cause' = [p \in Procs |-> "none"]
  /\ avail' = [p \in Procs |-> 0]
  /\ flight' = [p \in Procs |-> {}]
  /\ todo' = [p \in Procs |-> {}]
  /\ overdue' = [p \in Procs |-> {}]
  /\ UNCHANGED <<rows, ledger, notices, hcm>>

Tick ==
  /\ \E r \in Requests : left[r] > 0
  /\ left' = [r \in Requests |-> IF left[r] > 0 THEN left[r] - 1 ELSE 0]
  /\ UNCHANGED <<status, decision, hcmRef, ledger, notices, hcm, locals, faults>>
--------------------------------------------------------------------------------
Begin(p) == \E r \in Requests : \/ BeginCreate(p, r) \/ BeginApprove(p, r)
                                \/ BeginReject(p, r) \/ BeginCancel(p, r)

Step(p) ==
  \/ ReadLedger(p) \/ ReadFlight(p) \/ ReadHeld(p) \/ Refresh(p)
  \/ Insert(p) \/ Reserve(p) \/ CreateApproval(p)
  \/ Decide(p) \/ PostAccepted(p) \/ PostRefused(p) \/ PostFailed(p) \/ CountAttempt(p)
  \/ Release(p) \/ ConfirmUsage(p) \/ SetApproved(p) \/ Defer(p) \/ Close(p)
  \/ NextPending(p) \/ Sweep(p) \/ NextExpired(p) \/ EndRetry(p)
  \/ Correct(p) \/ Reverse(p) \/ SetCancelled(p)
  \/ Audit(p) \/ Notify(p)

Act ==
  \/ \E p \in Procs : Begin(p) \/ BeginRetry(p) \/ Step(p) \/ QueryFails(p)
  \/ Crash
  \/ Tick

(* None of these writes a row of the ledger that is no request's.          *)
Next == Act /\ UNCHANGED other

Spec == Init /\ [][Next]_vars

(* A handler that is scheduled runs on (single-threaded event loop, every  *)
(* awaited call settles), the cron job is started again and again, and     *)
(* time passes.  Clients owe nothing: Begin is not fair.                   *)
FairSpec ==
  /\ Spec
  /\ \A p \in Procs : WF_work(Step(p))
  /\ \A p \in Jobs : WF_work(BeginRetry(p))
  /\ WF_work(Tick)
--------------------------------------------------------------------------------
(* Properties                                                              *)

(* Every variable has its type; avail and other, which are sums, are left  *)
(* out.                                                                    *)
StoreTypeOK ==
  /\ status \in [Requests -> Statuses]
  /\ decision \in [Requests -> Decisions]
  /\ hcmRef \in [Requests -> Entries \union {NoEntry}]
  /\ left \in [Requests -> 0..Window]
  /\ ledger \in [Requests -> SUBSET Keys]
  /\ notices \in [Requests -> SUBSET Statuses]
  /\ posted \in [Requests -> SUBSET Entries]
  /\ deleted \subseteq Entries
  /\ faults \in 0..MaxFaults

LocalTypeOK ==
  /\ pc \in [Procs -> Labels]
  /\ op \in [Procs -> ApiCalls \union {"retry", "none"}]
  /\ req \in [Procs -> Requests \union {NoRequest}]
  /\ ref \in [Procs -> Entries \union {NoEntry}]
  /\ cause \in [Procs -> Causes \union {"none"}]
  /\ DOMAIN avail = Procs
  /\ flight \in [Procs -> SUBSET Requests]
  /\ todo \in [Procs -> SUBSET Requests]
  /\ overdue \in [Procs -> SUBSET Requests]

TypeOK == StoreTypeOK /\ LocalTypeOK

(* A request never costs the employee more than its duration, however      *)
(* approvals, retries, crashes and lost replies interleave: the pending    *)
(* reservation is released before the usage is booked, and both once.      *)
NeverDoubleCharged == \A r \in Requests : Net(r) >= -Dur[r]

(* An APPROVED request has its usage in the ledger and the id of an entry  *)
(* HCM created for it, the one a cancellation will have to delete.         *)
ApprovedIsBacked ==
  \A r \in Requests : status[r] = "APPROVED" => /\ "usage" \in ledger[r]
                                                /\ hcmRef[r] \in posted[r]

(* Usage is confirmed only for leave HCM has accepted.                     *)
ChargedOnlyIfPosted ==
  \A r \in Requests : "usage" \in ledger[r] => posted[r] # {}

(* Usage is given back only for leave that was charged, and after one of   *)
(* its HCM entries was deleted.                                            *)
ReversedOnlyAfterDeletion ==
  \A r \in Requests : "reversal" \in ledger[r] =>
      /\ "usage" \in ledger[r]
      /\ posted[r] \intersect deleted # {}

(* An employee told of an approval has been charged, and one told of a     *)
(* rejection has had the reservation released for that very reason.        *)
NoticesAreTrue ==
  \A r \in Requests :
    /\ "APPROVED" \in notices[r] => "usage" \in ledger[r]
    /\ "REJECTED" \in notices[r] =>
         ledger[r] \intersect {"reject", "hcm-fail", "expired"} # {}

(* A draft costs nothing and never reaches an approver or HCM.             *)
DraftsUntouched ==
  \A r \in Requests : status[r] = "DRAFT" => /\ ledger[r] = {}
                                             /\ posted[r] = {}
                                             /\ decision[r] = "none"

(* What the interleavings rest on, handler by handler.                     *)
BeforeInsert == {"ledger", "flight", "tally", "reservations", "releases",
                 "refresh", "insert"}

AtWork(p) == pc[p] \notin {"idle", "loop", "sweep"}

HandlerOK(p) ==
  /\ AtWork(p) <=> req[p] \in Requests
  /\ pc[p] = "release" => cause[p] \in Causes
  /\ pc[p] = "usage" => cause[p] = "approve" /\ "approve" \in ledger[req[p]]
  /\ pc[p] = "approved" => cause[p] = "approve" /\ "usage" \in ledger[req[p]]
  /\ pc[p] \in {"release", "usage", "approved"} /\ cause[p] = "approve"
       => ref[p] \in posted[req[p]]
  /\ pc[p] \in {"correct", "reverse"} => /\ "usage" \in ledger[req[p]]
                                         /\ ref[p] \in posted[req[p]]
                                         /\ cause[p] = "none"
  /\ pc[p] = "reverse" => ref[p] \in deleted
  /\ cause[p] = "none" \/ pc[p] \in {"decide", "close", "release", "usage", "approved",
                                    "cancelled", "audit", "notify"}
  /\ pc[p] = "decide" => <<op[p], cause[p]>> \in {<<"approve", "none">>, <<"reject", "reject">>}
  /\ pc[p] = "cancelled" => cause[p] \in {"cancel", "none"}
  /\ cause[p] = "cancel" => op[p] = "cancel"
  /\ pc[p] = "close" => cause[p] \in {"reject", "hcm-fail", "expired"}
  /\ pc[p] \in {"audit", "notify"} /\ cause[p] \in Causes
       => cause[p] \in ledger[req[p]]
  /\ pc[p] \in {"audit", "notify"} /\ cause[p] = "approve"
       => "usage" \in ledger[req[p]]

HandlerInv == \A p \in Procs : HandlerOK(p)

(* The usage row follows the release of the reservation.                   *)
ConversionInv ==
  \A r \in Requests : "usage" \in ledger[r] => "approve" \in ledger[r]

(* A creator has still to insert its row; only it knows a request that has *)
(* no row yet, and nothing but a cancellation works on a draft.            *)
CreatorOK(p) ==
  /\ pc[p] = "insert" => op[p] \in {"create", "draft"}
  /\ op[p] \in {"create", "draft"} /\ pc[p] \in BeforeInsert => status[req[p]] = "absent"

AbsentOK(r) ==
  status[r] = "absent" =>
    /\ ledger[r] = {} /\ posted[r] = {} /\ decision[r] = "none"
    /\ \A p \in Procs :
         /\ r \notin todo[p]
         /\ req[p] = r => \/ op[p] = "create" /\ pc[p] \in BeforeInsert
                          \/ op[p] = "draft" /\ pc[p] = "insert"
         /\ \A q \in Procs : req[p] = r /\ req[q] = r => p = q

DraftOK(r) ==
  status[r] = "DRAFT" =>
    /\ ledger[r] = {} /\ posted[r] = {} /\ decision[r] = "none"
    /\ \A p \in Procs :
         /\ r \notin todo[p]
         /\ req[p] = r => /\ <<op[p], pc[p]>> \in {<<"draft", "audit">>, <<"cancel", "cancelled">>}
                         /\ cause[p] = "none"

NewcomerInv == /\ \A p \in Procs : CreatorOK(p)
               /\ \A r \in Requests : AbsentOK(r) /\ DraftOK(r)

(* The inductive invariant behind the properties above.                    *)
IndInv == /\ TypeOK
          /\ ApprovedIsBacked
          /\ ChargedOnlyIfPosted
          /\ ReversedOnlyAfterDeletion
          /\ NoticesAreTrue
          /\ HandlerInv
          /\ ConversionInv
          /\ NewcomerInv
--------------------------------------------------------------------------------
(* What the service promises of calls that do not overlap in time.         *)

(* Rejected although cancelled before: a second release was booked, and    *)
(* the employee credited with the duration.                                *)
RejectedLate(r) == {"cancel", "reject"} \subseteq ledger[r]

(* At rest, the ledger holds the price of a request that is in flight or   *)
(* approved (one left PENDING by a rejected or broken HCM call included),  *)
(* and nothing of one that is closed or was never submitted, unless it was *)
(* rejected late.                                                          *)
SettledAccounting ==
  \A r \in Requests :
    ~Busy(r) /\ ~RejectedLate(r)
      => Net(r) = IF status[r] \in Active THEN -Dur[r] ELSE 0

(* At rest, HCM has an entry for each day of an approved request, among    *)
(* them the one whose id the request holds, and none for a request that is *)
(* not approved.  Of a cancelled leave of several days it may still have   *)
(* entries, but not the one whose id was kept.                             *)
HcmAgrees ==
  \A r \in Requests \ LostReplies :
    LET live == posted[r] \ deleted
    IN  ~Busy(r) =>
          IF status[r] = "APPROVED"
          THEN hcmRef[r] \in live /\ Cardinality(live) = Cardinality(Days[r])
          ELSE /\ hcmRef[r] \notin live
               /\ \/ live = {}
                  \/ status[r] = "CANCELLED" /\ Cardinality(Days[r]) > 1

(* The transitions of the lifecycle diagram (docs/spec.md).                *)
Diagram ==
  {<<"absent", "DRAFT">>, <<"absent", "PENDING">>, <<"DRAFT", "CANCELLED">>,
   <<"PENDING", "APPROVED">>, <<"PENDING", "APPROVED_PENDING_HCM_UPDATE">>,
   <<"PENDING", "REJECTED">>, <<"PENDING", "CANCELLED">>,
   <<"APPROVED_PENDING_HCM_UPDATE", "APPROVED">>,
   <<"APPROVED_PENDING_HCM_UPDATE", "REJECTED">>,
   <<"APPROVED_PENDING_HCM_UPDATE", "CANCELLED">>,
   <<"APPROVED", "CANCELLED">>}

Along(edges) ==
  \A r \in Requests : \/ status'[r] = status[r]
                      \/ <<status[r], status'[r]>> \in edges

(* But for late rejections, a request changes status along the diagram:    *)
(* none leaves REJECTED, a cancelled one is never taken up again, and an   *)
(* approval is never turned into a rejection.                              *)
LifecycleSaveLateRejection ==
  [][Along(Diagram \union {<<"CANCELLED", "REJECTED">>})]_status

(* Requests that are in flight or approved have no day in common.          *)
NoActiveOverlap ==
  \A r, q \in Requests : r # q /\ status[r] \in Active /\ status[q] \in Active
                            => Days[r] \intersect Days[q] = {}

WasDeferred(r) == \/ status[r] = "APPROVED_PENDING_HCM_UPDATE"
                  \/ "APPROVED_PENDING_HCM_UPDATE" \in notices[r]

Charged(r) == Amount(r, "usage") + Amount(r, "reversal")

(* A request approved while HCM was down does not stay in limbo: the retry *)
(* job, run often enough, posts it or gives it up when its window ends.    *)
DeferredIsSettled ==
  \A r \in Requests : status[r] = "APPROVED_PENDING_HCM_UPDATE"
                       ~> status[r] # "APPROVED_PENDING_HCM_UPDATE"
--------------------------------------------------------------------------------
(* What the documents promise and the code does not keep.                  *)

(* Reservations count against the balance: together with confirmed usage   *)
(* they never exceed it.                                                   *)
ReservedWithinBalance == AllowsNegative \/ LedgerSum >= 0
================================================================================
