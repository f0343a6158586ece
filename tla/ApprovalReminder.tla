---------------------------- MODULE ApprovalReminder ----------------------------
(***************************************************************************)
(* The job that reminds approvers of requests pending for 48 business      *)
(* hours (approval-reminder.service.ts), started by cron whether or not    *)
(* its last run has ended (jobs.scheduler.ts).                             *)
(*                                                                         *)
(* Time is counted in hours, of which a day has DayHours (24 in the code); *)
(* day 0 is a Monday.  Whether a reminder was sent before is looked up     *)
(* among the newest Recent notifications of the kind (200 in the code,     *)
(* notification.service.ts), so that only these are kept here.             *)
(***************************************************************************)
EXTENDS Integers, FiniteSets, Sequences

CONSTANTS
  Approvals,
  Runs,       \* runs of the job that may overlap
  NoApproval,
  DayHours,
  Overdue,    \* OVERDUE_BUSINESS_HOURS
  Holidays,   \* days that are active holidays, of any location
  Recent,
  FirstHour, LastHour, \* bounds on the clock
  MaxFaults   \* bound on failing queries

ASSUME ApprovalsAssumption == NoApproval \notin Approvals
ASSUME HoursAssumption == DayHours \in Nat \ {0} /\ Overdue \in Nat
ASSUME RecentAssumption == Recent \in Nat \ {0}
ASSUME BoundsAssumption == /\ FirstHour \in Nat /\ LastHour \in Nat /\ FirstHour <= LastHour
                           /\ MaxFaults \in Nat

Labels == {"idle", "holidays", "approvals", "loop", "email", "create"}

VARIABLES
  now,       \* the clock
  decision,  \* of each approval, "none" before it is requested
  submitted, \* the hour of submittedAt
  recent,    \* the newest APPROVAL_OVERDUE notifications, oldest first: the
             \* approval and (history) the run that created it
  reminded,  \* history: approvals ever reminded of
  pc,        \* the awaited query each run is at
  asof,      \* `now` of the run
  todo,      \* overdue approvals still to process
  item,      \* the one it is at
  faults

store  == <<decision, submitted>>
sent   == <<recent, reminded>>
locals == <<pc, asof, todo, item>>
vars   == <<now, store, sent, locals, faults>>
--------------------------------------------------------------------------------
(* Mutated form of isBusinessHour: Saturdays are business days. *)
MutIsBusinessHour(h) ==
  LET day == h \div DayHours IN day % 7 < 6 /\ day \notin Holidays

isBusinessHour(h) ==
  LET day == h \div DayHours IN day % 7 < 5 /\ day \notin Holidays

countBusinessHours(start, end) ==
  Cardinality({h \in start..(end - 1) : isBusinessHour(h)})

IsOverdue(a, at) == countBusinessHours(submitted[a], at) >= Overdue

notificationExists(a) == \E i \in 1..Len(recent) : recent[i][1] = a

Init ==
  /\ now = FirstHour
  /\ decision = [a \in Approvals |-> "none"]
  /\ submitted = [a \in Approvals |-> 0]
  /\ recent = <<>>
  /\ reminded = {}
  /\ pc = [p \in Runs |-> "idle"]
  /\ asof = [p \in Runs |-> 0]
  /\ todo = [p \in Runs |-> {}]
  /\ item = [p \in Runs |-> NoApproval]
  /\ faults = 0

Goto(p, label) == pc' = [pc EXCEPT ![p] = label]

Finish(p) ==
  /\ Goto(p, "idle")
  /\ asof' = [asof EXCEPT ![p] = 0]
  /\ todo' = [todo EXCEPT ![p] = {}]
  /\ item' = [item EXCEPT ![p] = NoApproval]
--------------------------------------------------------------------------------
(* Mutated forms: plausible bugs in the definition each one names.         *)

(* The lookup comes after the notification instead of before. *)
MutCheck(p) ==
  /\ pc[p] = "loop"
  /\ \E a \in todo[p] :
       /\ todo' = [todo EXCEPT ![p] = @ \ {a}]
       /\ item' = [item EXCEPT ![p] = a]
       /\ Goto(p, "email")
  /\ UNCHANGED <<now, store, sent, asof, faults>>

(* The run ends with the first approval it need not remind of. *)
MutSkip(p) ==
  /\ pc[p] = "loop"
  /\ \E a \in todo[p] :
       IF notificationExists(a)
       THEN Finish(p)
       ELSE /\ item' = [item EXCEPT ![p] = a]
            /\ todo' = [todo EXCEPT ![p] = @ \ {a}]
            /\ Goto(p, "email")
            /\ UNCHANGED asof
  /\ UNCHANGED <<now, store, sent, faults>>
--------------------------------------------------------------------------------
(* The workflow (LeaveWorkflow), as far as the job sees it.                *)
Submit(a) ==
  /\ decision[a] = "none"
  /\ decision' = [decision EXCEPT ![a] = "PENDING"]
  /\ submitted' = [submitted EXCEPT ![a] = now]
  /\ UNCHANGED <<now, sent, locals, faults>>

Decide(a) ==
  /\ decision[a] = "PENDING"
  /\ decision' = [decision EXCEPT ![a] = "decided"]
  /\ UNCHANGED <<now, submitted, sent, locals, faults>>

Tick ==
  /\ now < LastHour
  /\ now' = now + 1
  /\ UNCHANGED <<store, sent, locals, faults>>

Begin(p) ==
  /\ pc[p] = "idle"
  /\ Goto(p, "holidays")
  /\ UNCHANGED <<now, store, sent, asof, todo, item, faults>>

(* `now` is read once the holidays are there.                              *)
ReadHolidays(p) ==
  /\ pc[p] = "holidays"
  /\ asof' = [asof EXCEPT ![p] = now]
  /\ Goto(p, "approvals")
  /\ UNCHANGED <<now, store, sent, todo, item, faults>>

(* The pending approvals; those not overdue are passed over without a call.*)
ReadApprovals(p) ==
  /\ pc[p] = "approvals"
  /\ todo' = [todo EXCEPT ![p] = {a \in Approvals : /\ decision[a] = "PENDING"
                                                    /\ IsOverdue(a, asof[p])}]
  /\ asof' = [asof EXCEPT ![p] = 0]
  /\ Goto(p, "loop")
  /\ UNCHANGED <<now, store, sent, item, faults>>

Check(p) ==
  /\ pc[p] = "loop"
  /\ \E a \in todo[p] :
       /\ todo' = [todo EXCEPT ![p] = @ \ {a}]
       /\ IF notificationExists(a)
          THEN UNCHANGED <<pc, item>>
          ELSE item' = [item EXCEPT ![p] = a] /\ Goto(p, "email")
  /\ UNCHANGED <<now, store, sent, asof, faults>>

(* createNotification: the recipient's address, then the row.              *)
ReadEmail(p) ==
  /\ pc[p] = "email"
  /\ Goto(p, "create")
  /\ UNCHANGED <<now, store, sent, asof, todo, item, faults>>

Create(p) ==
  /\ pc[p] = "create"
  /\ LET all == Append(recent, <<item[p], p>>)
     IN  recent' = IF Len(all) > Recent THEN Tail(all) ELSE all
  /\ reminded' = reminded \union {item[p]}
  /\ item' = [item EXCEPT ![p] = NoApproval]
  /\ Goto(p, "loop")
  /\ UNCHANGED <<now, store, asof, todo, faults>>

End(p) ==
  /\ pc[p] = "loop"
  /\ todo[p] = {}
  /\ Finish(p)
  /\ UNCHANGED <<now, store, sent, faults>>

(* A query throws: the scheduler logs the error, the next run starts anew. *)
Fails(p) ==
  /\ pc[p] # "idle"
  /\ faults < MaxFaults
  /\ faults' = faults + 1
  /\ Finish(p)
  /\ UNCHANGED <<now, store, sent>>

Step(p) == \/ ReadHolidays(p) \/ ReadApprovals(p) \/ Check(p)
           \/ ReadEmail(p) \/ Create(p) \/ End(p)

Next == \/ \E a \in Approvals : Submit(a) \/ Decide(a)
        \/ \E p \in Runs : Begin(p) \/ Step(p) \/ Fails(p)
        \/ Tick

Spec == Init /\ [][Next]_vars

(* Cron starts the job again and again, and every query is answered.       *)
FairSpec == Spec /\ \A p \in Runs : WF_vars(Begin(p)) /\ WF_vars(Step(p))
--------------------------------------------------------------------------------
TypeOK ==
  /\ now \in 0..LastHour
  /\ decision \in [Approvals -> {"none", "PENDING", "decided"}]
  /\ submitted \in [Approvals -> 0..LastHour]
  /\ recent \in Seq(Approvals \X Runs)
  /\ reminded \subseteq Approvals
  /\ pc \in [Runs -> Labels]
  /\ asof \in [Runs -> 0..LastHour]
  /\ todo \in [Runs -> SUBSET Approvals]
  /\ item \in [Runs -> Approvals \union {NoApproval}]
  /\ faults \in 0..MaxFaults

Sent(a, p) == \E i \in 1..Len(recent) : recent[i] = <<a, p>>

(* Among the newest notifications an approver finds at most one from each  *)
(* of the runs that overlap; one run alone does not repeat a reminder that *)
(* is still among them.                                                    *)
OnePerRun ==
  \A i, j \in 1..Len(recent) : recent[i] = recent[j] => i = j

(* A run that is going to remind of an approval has not done so.           *)
Undone(p) == pc[p] \in {"email", "create"} => item[p] \in Approvals /\ ~Sent(item[p], p)

IndInv == TypeOK /\ OnePerRun /\ \A p \in Runs : Undone(p)

(* The hours of open days since the submission, as <<day, hour of the day>>.*)
OpenHours(a) ==
  {s \in ((submitted[a] \div DayHours)..((now - 1) \div DayHours)) \X (0..(DayHours - 1)) :
     LET hour == DayHours * s[1] + s[2]
     IN  s[1] % 7 \in 0..4 /\ s[1] \notin Holidays /\ submitted[a] <= hour /\ hour < now}

(* An approver is reminded when Overdue business hours have begun since the*)
(* submission, and no hour of a weekend or a holiday is one of them.       *)
NotBeforeTwoDays ==
  \A a \in reminded : Cardinality(OpenHours(a)) >= Overdue

(* An approval that is overdue does not stay so without a reminder,        *)
(* although runs overlap, fail and find older reminders in the way.        *)
OverdueIsReminded ==
  \A a \in Approvals :
    decision[a] = "PENDING" /\ IsOverdue(a, now)
      ~> a \in reminded \/ decision[a] = "decided"
================================================================================
