-------------------------- MODULE LeaveWorkflowProofs --------------------------
(* Proofs about LeaveWorkflow, for any requests, handlers and bounds, and  *)
(* about WorkflowWithSync, whose steps are those of the workflow and of a  *)
(* sync.                                                                   *)
EXTENDS WorkflowWithSync, FiniteSetTheorems, TLAPS

(* Types and the label a handler is at are preserved together: what a      *)
(* handler appends to the ledger is a key because of where it is.          *)
LEMMA TypeInit == Init => TypeOK
  BY WindowAssumption, FlagsAssumption
  DEF Init, TypeOK, StoreTypeOK, LocalTypeOK, Statuses, Decisions, Keys, Labels, Causes, Debits, ApiCalls

LEMMA FinishType ==
  ASSUME LocalTypeOK, NEW p \in Procs, Finish(p)
  PROVE  LocalTypeOK'
<1>1. pc' \in [Procs -> Labels]
  BY DEF LocalTypeOK, Finish, Goto, Labels
<1>2. QED
  BY <1>1 DEF LocalTypeOK, Finish

LEMMA ContinueType ==
  ASSUME LocalTypeOK, NEW p \in Procs, NEW l \in Labels, Continue(p, l)
  PROVE  LocalTypeOK'
  BY DEF LocalTypeOK, Continue, Goto, check, batch

LEMMA SameStoreType ==
  ASSUME StoreTypeOK, UNCHANGED <<rows, ledger, notices, hcm, faults>>
  PROVE  StoreTypeOK'
  BY DEF StoreTypeOK, rows, hcm

LEMMA StartType ==
  ASSUME TypeOK, NEW p \in Procs, NEW r \in Requests,
         \/ BeginCreate(p, r) \/ BeginApprove(p, r)
         \/ BeginReject(p, r) \/ BeginCancel(p, r)
  PROVE  TypeOK'
<1>1. PICK n \in ApiCalls, e \in Entries \union {NoEntry}, c \in Causes \union {"none"}, l \in Labels :
        Start(p, n, r, e, c, l)
  BY DEF BeginCreate, BeginApprove, BeginReject, BeginCancel, TypeOK, StoreTypeOK, ApiCalls, Causes, Labels
<1>2. QED
  BY <1>1, CallsAssumption DEF Start, At, Goto, TypeOK, StoreTypeOK, LocalTypeOK, rows, hcm, check, batch

LEMMA JudgeType ==
  ASSUME TypeOK, NEW p \in Procs, NEW n, Judge(p, n)
  PROVE  TypeOK'
<1>1. StoreTypeOK'
  BY SameStoreType DEF Judge, TypeOK
<1>2. CASE Finish(p)
  BY <1>1, <1>2, FinishType DEF TypeOK
<1>3. CASE ~Finish(p)
  BY <1>1, <1>3 DEF Judge, TypeOK, LocalTypeOK, Goto, call, batch, Labels
<1>4. QED
  BY <1>2, <1>3

LEMMA WrittenType == ASSUME NEW p PROVE Written(p) \in Statuses
  BY DEF Written, Statuses

LEMMA StepType ==
  ASSUME TypeOK, HandlerInv, NEW p \in Procs, Step(p)
  PROVE  TypeOK'
<1> USE DEF TypeOK, StoreTypeOK, LocalTypeOK, At, Goto, rows, hcm, call, check, batch
<1>1. CASE ReadLedger(p)
  BY <1>1 DEF ReadLedger, Labels
<1>2. CASE ReadFlight(p)
  <2>1. CASE Judge(p, avail[p])
    BY <2>1, JudgeType
  <2>2. CASE ~Judge(p, avail[p])
    <3>1. PICK found \in SUBSET Requests : flight' = [flight EXCEPT ![p] = found]
      BY <1>2, <2>2 DEF ReadFlight
    <3>2. LocalTypeOK'
      BY <1>2, <2>2, <3>1 DEF ReadFlight, Labels
    <3>3. QED
      BY <1>2, <2>2, <3>2 DEF ReadFlight
  <2>3. QED
    BY <2>1, <2>2
<1>3. CASE ReadHeld(p)
  <2>1. CASE At(p, "tally")
    BY <1>3, <2>1 DEF ReadHeld, Labels
  <2>2. CASE ~At(p, "tally")
    BY <1>3, <2>2, JudgeType DEF ReadHeld
  <2>3. QED
    BY <2>1, <2>2
<1>4. CASE Refresh(p)
  <2>1. StoreTypeOK'
    BY <1>4, SameStoreType DEF Refresh
  <2>2. LocalTypeOK'
    BY <1>4, FinishType DEF Refresh, Labels
  <2>3. QED
    BY <2>1, <2>2
<1>5. CASE Insert(p)
  <2>1. StoreTypeOK'
    BY <1>5 DEF Insert, SetStatus, Statuses
  <2>2. LocalTypeOK'
    BY <1>5 DEF Insert, Labels
  <2>3. QED
    BY <2>1, <2>2
<1>6. CASE Reserve(p)
  BY <1>6 DEF Reserve, Append, Labels, Keys, Debits
<1>7. CASE CreateApproval(p)
  BY <1>7 DEF CreateApproval, Labels, Decisions
<1>8. CASE Decide(p)
  BY <1>8 DEF Decide, Labels, Decisions
<1>9. CASE PostAccepted(p)
  <2>1. PICK new \in SUBSET Entries, e \in Entries :
          /\ posted' = [posted EXCEPT ![req[p]] = @ \union new]
          /\ ref' = [ref EXCEPT ![p] = e]
    BY <1>9 DEF PostAccepted, Post, Free
  <2>2. posted' \in [Requests -> SUBSET Entries]
    BY <2>1
  <2>3. StoreTypeOK'
    BY <1>9, <2>2 DEF PostAccepted
  <2>4. LocalTypeOK'
    BY <1>9, <2>1 DEF PostAccepted, Labels, Causes
  <2>5. QED
    BY <2>3, <2>4
<1>10. CASE PostRefused(p)
  <2>1. StoreTypeOK'
    BY <1>10, SameStoreType DEF PostRefused
  <2>2. LocalTypeOK'
    BY <1>10, FinishType DEF PostRefused, Labels, Causes
  <2>3. QED
    BY <2>1, <2>2
<1>11. CASE PostFailed(p)
  <2>1. posted' \in [Requests -> SUBSET Entries]
    BY <1>11 DEF PostFailed, Post, Free
  <2>2. StoreTypeOK'
    BY <1>11, <2>1 DEF PostFailed
  <2>3. "count" \in Labels /\ "defer" \in Labels
    BY DEF Labels
  <2>4. LocalTypeOK'
    BY <1>11, <2>3, FinishType DEF PostFailed
  <2>5. QED
    BY <2>2, <2>4
<1>12. CASE Release(p)
  BY <1>12 DEF Release, Append, HandlerInv, HandlerOK, Labels, Keys
<1>13. CASE ConfirmUsage(p)
  BY <1>13 DEF ConfirmUsage, Append, Labels, Keys, Debits
<1>14. CASE SetApproved(p)
  BY <1>14 DEF SetApproved, SetStatus, Labels, Statuses
<1>15. CASE Defer(p)
  <2>1. StoreTypeOK'
    <3>1. left' \in [Requests -> 0..Window]
      <4>1. Window \in 0..Window
        BY WindowAssumption
      <4>2. QED
        BY <1>15, <4>1 DEF Defer
    <3>2. status' \in [Requests -> Statuses]
      BY <1>15 DEF Defer, SetStatus, Statuses
    <3>3. QED
      BY <1>15, <3>1, <3>2 DEF Defer
  <2>2. LocalTypeOK'
    BY <1>15 DEF Defer, Labels
  <2>3. QED
    BY <2>1, <2>2
<1>16. CASE Close(p)
  BY <1>16 DEF Close, SetStatus, Labels, Statuses
<1>17. CASE NextPending(p)
  BY <1>17 DEF NextPending, Labels
<1>18. CASE Sweep(p)
  BY <1>18 DEF Sweep, Labels
<1>19. CASE NextExpired(p)
  BY <1>19 DEF NextExpired, Labels, Causes
<1>20. CASE EndRetry(p)
  BY <1>20, FinishType, SameStoreType DEF EndRetry
<1>21. CASE Correct(p)
  <2>1. deleted' \subseteq deleted \union {ref[p]}
    BY <1>21 DEF Correct
  <2>2. ref[p] \in Entries
    BY <1>21 DEF Correct, HandlerInv, HandlerOK, AtWork
  <2>3. StoreTypeOK'
    BY <1>21, <2>1, <2>2 DEF Correct
  <2>4. LocalTypeOK'
    BY <1>21, FinishType DEF Correct, Labels
  <2>5. QED
    BY <2>3, <2>4
<1>22. CASE Reverse(p)
  BY <1>22 DEF Reverse, Append, Labels, Keys
<1>23. CASE SetCancelled(p)
  BY <1>23 DEF SetCancelled, SetStatus, Labels, Statuses
<1>24. CASE Audit(p)
  <2>1. StoreTypeOK'
    BY <1>24 DEF Audit
  <2>2. LocalTypeOK'
    BY <1>24, FinishType DEF Audit, Labels
  <2>3. QED
    BY <2>1, <2>2
<1>25. CASE Notify(p)
  <2>1. StoreTypeOK'
    <3>1. Written(p) \in Statuses
      BY WrittenType
    <3>2. notices' \in [Requests -> SUBSET Statuses]
      BY <1>25, <3>1 DEF Notify
    <3>3. QED
      BY <1>25, <3>2 DEF Notify
  <2>2. "loop" \in Labels /\ "sweep" \in Labels /\ "audit" \in Labels
    BY DEF Labels
  <2>3. LocalTypeOK'
    BY <1>25, <2>2, FinishType, ContinueType DEF Notify
  <2>4. QED
    BY <2>1, <2>3
<1>26. CASE CountAttempt(p)
  <2>1. "loop" \in Labels
    BY DEF Labels
  <2>2. QED
    BY <1>26, <2>1, ContinueType, SameStoreType DEF CountAttempt
<1>27. QED
  BY <1>1, <1>2, <1>3, <1>4, <1>5, <1>6, <1>7, <1>8, <1>9, <1>10, <1>11, <1>12,
     <1>13, <1>14, <1>15, <1>16, <1>17, <1>18, <1>19, <1>20, <1>21, <1>22, <1>23,
     <1>24, <1>25, <1>26 DEF Step

LEMMA TypeStep == TypeOK /\ HandlerInv /\ [Act]_work => TypeOK'
<1> SUFFICES ASSUME TypeOK, HandlerInv, [Act]_work PROVE TypeOK'
  OBVIOUS
<1>1. ASSUME NEW p \in Procs, Begin(p) PROVE TypeOK'
  BY <1>1, StartType DEF Begin
<1>2. ASSUME NEW p \in Procs, BeginRetry(p) PROVE TypeOK'
  BY <1>2 DEF BeginRetry, TypeOK, StoreTypeOK, LocalTypeOK, At, Goto, rows, hcm, check, Labels
<1>3. ASSUME NEW p \in Procs, Step(p) PROVE TypeOK'
  BY <1>3, StepType
<1>4. ASSUME NEW p \in Procs, QueryFails(p) PROVE TypeOK'
  <2>1. StoreTypeOK'
    BY <1>4, FlagsAssumption DEF QueryFails, TypeOK, StoreTypeOK, rows, hcm
  <2>2. "count" \in Labels
    BY DEF Labels
  <2>3. LocalTypeOK'
    BY <1>4, <2>2, FinishType DEF QueryFails, TypeOK, LocalTypeOK, Goto, check, batch
  <2>4. QED
    BY <2>1, <2>3 DEF TypeOK
<1>5. CASE Crash
  BY <1>5, FlagsAssumption DEF Crash, TypeOK, StoreTypeOK, LocalTypeOK, rows, hcm, Labels
<1>6. CASE Tick
  BY <1>6, WindowAssumption DEF Tick, TypeOK, StoreTypeOK, LocalTypeOK, hcm, locals, call, check, batch
<1>7. CASE UNCHANGED work
  BY <1>7 DEF TypeOK, StoreTypeOK, LocalTypeOK, work, rows, hcm, locals, call, check, batch
<1>8. QED
  BY <1>1, <1>2, <1>3, <1>4, <1>5, <1>6, <1>7 DEF Act
--------------------------------------------------------------------------------
Others(p) ==
  \A q \in Procs \ {p} : /\ pc'[q] = pc[q] /\ op'[q] = op[q] /\ req'[q] = req[q]
                         /\ ref'[q] = ref[q] /\ cause'[q] = cause[q]
                         /\ todo'[q] = todo[q]

(* Which steps write what: all others leave the store alone.               *)
LEMMA Effects ==
  ASSUME NEW p \in Procs, Step(p)
  PROVE  /\ UNCHANGED ledger \/ Reserve(p) \/ Release(p) \/ ConfirmUsage(p) \/ Reverse(p)
         /\ \/ UNCHANGED <<status, hcmRef>> \/ Insert(p) \/ SetApproved(p)
            \/ Defer(p) \/ Close(p) \/ SetCancelled(p)
         /\ UNCHANGED posted \/ PostAccepted(p) \/ PostFailed(p)
         /\ UNCHANGED deleted \/ Correct(p)
         /\ UNCHANGED decision \/ CreateApproval(p) \/ Decide(p)
         /\ UNCHANGED notices \/ Notify(p)
<1> USE DEF rows, hcm
<1>1. CASE ReadLedger(p)
  BY <1>1 DEF ReadLedger
<1>2. CASE ReadFlight(p)
  BY <1>2 DEF ReadFlight, Judge, Finish
<1>3. CASE ReadHeld(p)
  BY <1>3 DEF ReadHeld, Judge, Finish
<1>4. CASE Refresh(p)
  BY <1>4 DEF Refresh, Finish
<1>5. CASE Insert(p)
  BY <1>5 DEF Insert, SetStatus
<1>6. CASE Reserve(p)
  BY <1>6 DEF Reserve, Append
<1>7. CASE CreateApproval(p)
  BY <1>7 DEF CreateApproval
<1>8. CASE Decide(p)
  BY <1>8 DEF Decide
<1>9. CASE PostAccepted(p)
  BY <1>9 DEF PostAccepted
<1>10. CASE PostRefused(p)
  BY <1>10 DEF PostRefused, Finish
<1>11. CASE PostFailed(p)
  BY <1>11 DEF PostFailed, Finish
<1>12. CASE Release(p)
  BY <1>12 DEF Release, Append
<1>13. CASE ConfirmUsage(p)
  BY <1>13 DEF ConfirmUsage, Append
<1>14. CASE SetApproved(p)
  BY <1>14 DEF SetApproved, SetStatus
<1>15. CASE Defer(p)
  BY <1>15 DEF Defer, SetStatus
<1>16. CASE Close(p)
  BY <1>16 DEF Close, SetStatus
<1>17. CASE NextPending(p)
  BY <1>17 DEF NextPending
<1>18. CASE Sweep(p)
  BY <1>18 DEF Sweep
<1>19. CASE NextExpired(p)
  BY <1>19 DEF NextExpired
<1>20. CASE EndRetry(p)
  BY <1>20 DEF EndRetry, Finish
<1>21. CASE Correct(p)
  BY <1>21 DEF Correct, Finish
<1>22. CASE Reverse(p)
  BY <1>22 DEF Reverse, Append
<1>23. CASE SetCancelled(p)
  BY <1>23 DEF SetCancelled, SetStatus
<1>24. CASE Audit(p)
  BY <1>24 DEF Audit, Finish
<1>25. CASE Notify(p)
  BY <1>25 DEF Notify, Finish, Continue
<1>26. CASE CountAttempt(p)
  BY <1>26 DEF CountAttempt, Continue
<1>27. QED
  BY <1>1, <1>2, <1>3, <1>4, <1>5, <1>6, <1>7, <1>8, <1>9, <1>10, <1>11, <1>12, <1>13, <1>14,
     <1>15, <1>16, <1>17, <1>18, <1>19, <1>20, <1>21, <1>22, <1>23, <1>24, <1>25, <1>26 DEF Step

(* A step of one handler leaves the local variables of the others alone.   *)
LEMMA StepOthers ==
  ASSUME TypeOK, NEW p \in Procs, Step(p)
  PROVE  Others(p)
<1> USE DEF TypeOK, LocalTypeOK, Others, Goto, call, batch
<1>1. CASE ReadLedger(p)
  BY <1>1 DEF ReadLedger
<1>2. CASE ReadFlight(p)
  BY <1>2 DEF ReadFlight, Judge, Finish
<1>3. CASE ReadHeld(p)
  BY <1>3 DEF ReadHeld, Judge, Finish
<1>4. CASE Refresh(p)
  BY <1>4 DEF Refresh, Finish
<1>5. CASE Insert(p)
  BY <1>5 DEF Insert, SetStatus
<1>6. CASE Reserve(p)
  BY <1>6 DEF Reserve, Append
<1>7. CASE CreateApproval(p)
  BY <1>7 DEF CreateApproval
<1>8. CASE Decide(p)
  BY <1>8 DEF Decide
<1>9. CASE PostAccepted(p)
  BY <1>9 DEF PostAccepted
<1>10. CASE PostRefused(p)
  BY <1>10 DEF PostRefused, Finish
<1>11. CASE PostFailed(p)
  BY <1>11 DEF PostFailed, Finish
<1>12. CASE Release(p)
  BY <1>12 DEF Release, Append
<1>13. CASE ConfirmUsage(p)
  BY <1>13 DEF ConfirmUsage, Append
<1>14. CASE SetApproved(p)
  BY <1>14 DEF SetApproved, SetStatus
<1>15. CASE Defer(p)
  BY <1>15 DEF Defer, SetStatus
<1>16. CASE Close(p)
  BY <1>16 DEF Close, SetStatus
<1>17. CASE NextPending(p)
  BY <1>17 DEF NextPending
<1>18. CASE Sweep(p)
  BY <1>18 DEF Sweep
<1>19. CASE NextExpired(p)
  BY <1>19 DEF NextExpired
<1>20. CASE EndRetry(p)
  BY <1>20 DEF EndRetry, Finish
<1>21. CASE Correct(p)
  BY <1>21 DEF Correct, Finish
<1>22. CASE Reverse(p)
  BY <1>22 DEF Reverse, Append
<1>23. CASE SetCancelled(p)
  BY <1>23 DEF SetCancelled, SetStatus
<1>24. CASE Audit(p)
  BY <1>24 DEF Audit, Finish
<1>25. CASE Notify(p)
  BY <1>25 DEF Notify, Finish, Continue
<1>26. CASE CountAttempt(p)
  BY <1>26 DEF CountAttempt, Continue
<1>27. QED
  BY <1>1, <1>2, <1>3, <1>4, <1>5, <1>6, <1>7, <1>8, <1>9, <1>10, <1>11, <1>12, <1>13, <1>14,
     <1>15, <1>16, <1>17, <1>18, <1>19, <1>20, <1>21, <1>22, <1>23, <1>24, <1>25, <1>26 DEF Step
(* What was booked, posted or deleted stays so.                            *)
Monotone == /\ \A r \in Requests : ledger[r] \subseteq ledger'[r] /\ posted[r] \subseteq posted'[r]
            /\ deleted \subseteq deleted'

LEMMA StepMonotone ==
  ASSUME TypeOK, NEW p \in Procs, Step(p)
  PROVE  Monotone
<1>1. \A r \in Requests : ledger[r] \subseteq ledger'[r]
  BY Effects DEF Reserve, Release, ConfirmUsage, Reverse, Append, TypeOK, StoreTypeOK
<1>2. \A r \in Requests : posted[r] \subseteq posted'[r]
  BY Effects DEF PostAccepted, PostFailed, Post, TypeOK, StoreTypeOK
<1>3. deleted \subseteq deleted'
  BY Effects DEF Correct
<1>4. QED
  BY <1>1, <1>2, <1>3 DEF Monotone

(* A handler no step of which is taken stays in order.                     *)
LEMMA HandlerKept ==
  ASSUME TypeOK, NEW q \in Procs, HandlerOK(q), Monotone,
         pc'[q] = pc[q], op'[q] = op[q], req'[q] = req[q], ref'[q] = ref[q], cause'[q] = cause[q]
  PROVE  HandlerOK(q)'
  BY DEF HandlerOK, AtWork, Monotone, TypeOK, LocalTypeOK, Causes

LEMMA HandlerFinished ==
  ASSUME TypeOK, NEW p \in Procs, Finish(p)
  PROVE  HandlerOK(p)'
  BY RequestsAssumption DEF Finish, Goto, HandlerOK, AtWork, TypeOK, LocalTypeOK

LEMMA HandlerContinued ==
  ASSUME TypeOK, NEW p \in Procs, NEW l \in {"loop", "sweep"}, Continue(p, l)
  PROVE  HandlerOK(p)'
  BY RequestsAssumption DEF Continue, Goto, HandlerOK, AtWork, TypeOK, LocalTypeOK

LEMMA HandlerJudged ==
  ASSUME TypeOK, NEW p \in Procs, NEW n, HandlerOK(p), AtWork(p), cause[p] = "none", Judge(p, n)
  PROVE  HandlerOK(p)'
<1>1. CASE Finish(p)
  BY <1>1, HandlerFinished
<1>2. CASE ~Finish(p)
  BY <1>2 DEF Judge, Goto, HandlerOK, AtWork, TypeOK, LocalTypeOK, call
<1>3. QED
  BY <1>1, <1>2

LEMMA HandlerStep ==
  ASSUME TypeOK, HandlerInv, ConversionInv, NEW p \in Procs, Step(p)
  PROVE  HandlerOK(p)'
<1> USE DEF TypeOK, StoreTypeOK, LocalTypeOK, HandlerOK, AtWork, At, Goto, Causes, rows, hcm, call
<1>0. HandlerOK(p)
  BY DEF HandlerInv
<1>1. CASE ReadLedger(p)
  BY <1>0, <1>1 DEF ReadLedger
<1>2. CASE ReadFlight(p)
  BY <1>0, <1>2, HandlerJudged DEF ReadFlight
<1>3. CASE ReadHeld(p)
  BY <1>0, <1>3, HandlerJudged DEF ReadHeld
<1>4. CASE Refresh(p)
  BY <1>0, <1>4, HandlerFinished DEF Refresh
<1>5. CASE Insert(p)
  BY <1>0, <1>5 DEF Insert, SetStatus
<1>6. CASE Reserve(p)
  BY <1>0, <1>6 DEF Reserve, Append
<1>7. CASE CreateApproval(p)
  BY <1>0, <1>7 DEF CreateApproval
<1>8. CASE Decide(p)
  BY <1>0, <1>8 DEF Decide
<1>9. CASE PostAccepted(p)
  BY <1>0, <1>9 DEF PostAccepted, Post
<1>10. CASE PostRefused(p)
  BY <1>0, <1>10, HandlerFinished DEF PostRefused
<1>11. CASE PostFailed(p)
  BY <1>0, <1>11, HandlerFinished DEF PostFailed
<1>12. CASE Release(p)
  BY <1>0, <1>12 DEF Release, Append
<1>13. CASE ConfirmUsage(p)
  BY <1>0, <1>13 DEF ConfirmUsage, Append
<1>14. CASE SetApproved(p)
  BY <1>0, <1>14 DEF SetApproved, SetStatus, ConversionInv
<1>15. CASE Defer(p)
  BY <1>0, <1>15 DEF Defer, SetStatus
<1>16. CASE Close(p)
  BY <1>0, <1>16 DEF Close, SetStatus
<1>17. CASE NextPending(p)
  BY <1>0, <1>17 DEF NextPending
<1>18. CASE Sweep(p)
  BY <1>0, <1>18 DEF Sweep
<1>19. CASE NextExpired(p)
  BY <1>0, <1>19 DEF NextExpired
<1>20. CASE EndRetry(p)
  BY <1>0, <1>20, HandlerFinished DEF EndRetry
<1>21. CASE Correct(p)
  BY <1>0, <1>21, HandlerFinished DEF Correct
<1>22. CASE Reverse(p)
  BY <1>0, <1>22 DEF Reverse, Append
<1>23. CASE SetCancelled(p)
  BY <1>0, <1>23 DEF SetCancelled, SetStatus
<1>24. CASE Audit(p)
  BY <1>0, <1>24, HandlerFinished DEF Audit
<1>25. CASE Notify(p)
  BY <1>0, <1>25, HandlerFinished, HandlerContinued DEF Notify
<1>26. CASE CountAttempt(p)
  BY <1>0, <1>26, HandlerContinued DEF CountAttempt
<1>27. QED
  BY <1>1, <1>2, <1>3, <1>4, <1>5, <1>6, <1>7, <1>8, <1>9, <1>10, <1>11, <1>12, <1>13, <1>14,
     <1>15, <1>16, <1>17, <1>18, <1>19, <1>20, <1>21, <1>22, <1>23, <1>24, <1>25, <1>26 DEF Step
--------------------------------------------------------------------------------
(* What the entry of a handler does.                                       *)
LEMMA BeginStarts ==
  ASSUME TypeOK, NEW p \in Procs, NEW r \in Requests,
         \/ BeginCreate(p, r) \/ BeginApprove(p, r)
         \/ BeginReject(p, r) \/ BeginCancel(p, r)
  PROVE  \E n \in ApiCalls, e \in Entries \union {NoEntry}, c \in Causes \union {"none"}, l \in Labels :
           Start(p, n, r, e, c, l)
  BY DEF BeginCreate, BeginApprove, BeginReject, BeginCancel, TypeOK, StoreTypeOK,
         ApiCalls, Causes, Labels

LEMMA BeginOthers ==
  ASSUME TypeOK, NEW p \in Procs, Begin(p)
  PROVE  Others(p)
<1>1. PICK r \in Requests, n \in ApiCalls, e \in Entries \union {NoEntry},
           c \in Causes \union {"none"}, l \in Labels : Start(p, n, r, e, c, l)
  BY BeginStarts DEF Begin
<1>2. QED
  BY <1>1 DEF Start, Goto, Others, TypeOK, LocalTypeOK, batch

LEMMA BeginHandler ==
  ASSUME TypeOK, ApprovedIsBacked, NEW p \in Procs, Begin(p)
  PROVE  HandlerOK(p)'
<1> USE DEF TypeOK, StoreTypeOK, LocalTypeOK, HandlerOK, AtWork, Causes, Start, Goto, rows, hcm
<1>1. PICK r \in Requests : \/ BeginCreate(p, r) \/ BeginApprove(p, r)
                            \/ BeginReject(p, r) \/ BeginCancel(p, r)
  BY DEF Begin
<1>2. CASE BeginCreate(p, r)
  BY <1>2 DEF BeginCreate
<1>3. CASE BeginApprove(p, r)
  BY <1>3 DEF BeginApprove
<1>4. CASE BeginReject(p, r)
  BY <1>4 DEF BeginReject
<1>5. CASE BeginCancel(p, r)
  BY <1>5 DEF BeginCancel, ApprovedIsBacked
<1>6. QED
  BY <1>1, <1>2, <1>3, <1>4, <1>5

LEMMA SameStoreMonotone ==
  ASSUME UNCHANGED <<ledger, hcm>>
  PROVE  Monotone
  BY DEF Monotone, hcm

LEMMA HandlerNext ==
  TypeOK /\ ApprovedIsBacked /\ ConversionInv /\ HandlerInv /\ [Act]_work => HandlerInv'
<1> SUFFICES ASSUME TypeOK, ApprovedIsBacked, ConversionInv, HandlerInv, [Act]_work
             PROVE  HandlerInv'
  OBVIOUS
<1>1. ASSUME NEW p \in Procs, Monotone, Others(p), HandlerOK(p)'
      PROVE  HandlerInv'
  BY <1>1, HandlerKept DEF HandlerInv, Others
<1>2. ASSUME NEW p \in Procs, Begin(p) PROVE HandlerInv'
  <2>1. Monotone
    BY <1>2, SameStoreMonotone DEF Begin, BeginCreate, BeginApprove, BeginReject, BeginCancel, Start
  <2>2. QED
    BY <1>1, <1>2, <2>1, BeginOthers, BeginHandler
<1>3. ASSUME NEW p \in Procs, BeginRetry(p) PROVE HandlerInv'
  <2>1. Monotone
    BY <1>3, SameStoreMonotone DEF BeginRetry
  <2>2. Others(p)
    BY <1>3 DEF BeginRetry, Goto, Others, TypeOK, LocalTypeOK
  <2>3. HandlerOK(p)'
    BY <1>3, RequestsAssumption
    DEF BeginRetry, At, Goto, HandlerInv, HandlerOK, AtWork, TypeOK, LocalTypeOK, Causes
  <2>4. QED
    BY <1>1, <2>1, <2>2, <2>3
<1>4. ASSUME NEW p \in Procs, Step(p) PROVE HandlerInv'
  BY <1>1, <1>4, StepMonotone, StepOthers, HandlerStep
<1>5. ASSUME NEW p \in Procs, QueryFails(p) PROVE HandlerInv'
  <2>1. Monotone
    BY <1>5, SameStoreMonotone DEF QueryFails
  <2>2. Others(p)
    BY <1>5 DEF QueryFails, Finish, Goto, Others, TypeOK, LocalTypeOK, batch
  <2>3. HandlerOK(p)'
    BY <1>5, HandlerFinished
    DEF QueryFails, Goto, HandlerInv, HandlerOK, AtWork, TypeOK, LocalTypeOK
  <2>4. QED
    BY <1>1, <2>1, <2>2, <2>3
<1>6. CASE Crash
  BY <1>6, RequestsAssumption DEF Crash, HandlerInv, HandlerOK, AtWork
<1>7. CASE Tick
  BY <1>7, SameStoreMonotone, HandlerKept DEF Tick, HandlerInv, hcm, locals, call
<1>8. CASE UNCHANGED work
  BY <1>8, SameStoreMonotone, HandlerKept DEF HandlerInv, work, locals, call
<1>9. QED
  BY <1>2, <1>3, <1>4, <1>5, <1>6, <1>7, <1>8 DEF Act
--------------------------------------------------------------------------------
(* The invariants of the store.  Only Step writes what they speak of.      *)
Store == <<status, decision, hcmRef, ledger, notices, hcm>>

LEMMA OnlyStepWrites ==
  ASSUME [Act]_work
  PROVE  UNCHANGED Store \/ \E p \in Procs : Step(p)
<1>1. ASSUME NEW p \in Procs, Begin(p) PROVE UNCHANGED Store
  BY <1>1 DEF Begin, BeginCreate, BeginApprove, BeginReject, BeginCancel, Start, Store, rows, hcm
<1>2. ASSUME NEW p \in Procs, BeginRetry(p) PROVE UNCHANGED Store
  BY <1>2 DEF BeginRetry, Store, rows, hcm
<1>3. ASSUME NEW p \in Procs, QueryFails(p) PROVE UNCHANGED Store
  BY <1>3 DEF QueryFails, Store, rows, hcm
<1>4. CASE Crash
  BY <1>4 DEF Crash, Store, rows, hcm
<1>5. CASE Tick
  BY <1>5 DEF Tick, Store, hcm
<1>6. CASE UNCHANGED work
  BY <1>6 DEF Store, work, rows, hcm
<1>7. QED
  BY <1>1, <1>2, <1>3, <1>4, <1>5, <1>6 DEF Act

LEMMA ConversionStep ==
  ASSUME TypeOK, HandlerInv, ConversionInv, NEW p \in Procs, Step(p)
  PROVE  ConversionInv'
<1>1. CASE ConfirmUsage(p)
  BY <1>1 DEF ConfirmUsage, At, Append, HandlerInv, HandlerOK, ConversionInv, TypeOK, StoreTypeOK
<1>2. CASE ~ConfirmUsage(p)
  BY <1>2, Effects DEF Reserve, Release, Reverse, At, Append, HandlerInv, HandlerOK, Causes,
                       ConversionInv, TypeOK, StoreTypeOK
<1>3. QED
  BY <1>1, <1>2

LEMMA ChargedStep ==
  ASSUME TypeOK, HandlerInv, ChargedOnlyIfPosted, NEW p \in Procs, Step(p)
  PROVE  ChargedOnlyIfPosted'
<1>1. CASE ConfirmUsage(p)
  BY <1>1 DEF ConfirmUsage, At, Append, HandlerInv, HandlerOK, ChargedOnlyIfPosted,
              TypeOK, StoreTypeOK, hcm
<1>2. CASE ~ConfirmUsage(p)
  BY <1>2, Effects, StepMonotone
  DEF Reserve, Release, Reverse, At, Append, HandlerInv, HandlerOK, Causes,
      ChargedOnlyIfPosted, TypeOK, StoreTypeOK, Monotone
<1>3. QED
  BY <1>1, <1>2

LEMMA ApprovedStep ==
  ASSUME TypeOK, HandlerInv, ApprovedIsBacked, NEW p \in Procs, Step(p)
  PROVE  ApprovedIsBacked'
<1>1. CASE SetApproved(p)
  BY <1>1 DEF SetApproved, SetStatus, At, HandlerInv, HandlerOK, ApprovedIsBacked,
              TypeOK, StoreTypeOK, hcm
<1>2. CASE ~SetApproved(p)
  BY <1>2, Effects, StepMonotone
  DEF Insert, Defer, Close, SetCancelled, SetStatus, ApprovedIsBacked, Monotone,
      TypeOK, StoreTypeOK
<1>3. QED
  BY <1>1, <1>2

LEMMA ReversedStep ==
  ASSUME TypeOK, HandlerInv, ReversedOnlyAfterDeletion, NEW p \in Procs, Step(p)
  PROVE  ReversedOnlyAfterDeletion'
<1>1. CASE Reverse(p)
  BY <1>1 DEF Reverse, At, Append, HandlerInv, HandlerOK, ReversedOnlyAfterDeletion,
              TypeOK, StoreTypeOK, hcm
<1>2. CASE ~Reverse(p)
  <2>1. \A r \in Requests : "reversal" \in ledger'[r] => "reversal" \in ledger[r]
    BY <1>2, Effects DEF Reserve, Release, ConfirmUsage, At, Append, HandlerInv, HandlerOK, Causes,
                         TypeOK, StoreTypeOK
  <2>2. QED
    BY <2>1, StepMonotone DEF Monotone, ReversedOnlyAfterDeletion
<1>3. QED
  BY <1>1, <1>2

LEMMA NoticesStep ==
  ASSUME TypeOK, HandlerInv, NoticesAreTrue, NEW p \in Procs, Step(p)
  PROVE  NoticesAreTrue'
<1>1. CASE Notify(p)
  <2>1. /\ req[p] \in Requests
        /\ ledger' = ledger
        /\ notices' = [notices EXCEPT ![req[p]] = @ \union {Written(p)}]
    BY <1>1 DEF Notify, At, HandlerInv, HandlerOK, AtWork
  <2>2. Written(p) = "APPROVED" => "usage" \in ledger[req[p]]
    BY <1>1 DEF Notify, At, Written, HandlerInv, HandlerOK, Causes
  <2>3. Written(p) = "REJECTED" => ledger[req[p]] \intersect {"reject", "hcm-fail", "expired"} # {}
    <3>1. /\ pc[p] = "notify"
          /\ HandlerOK(p)
          /\ cause[p] \in Causes \union {"none"}
      BY <1>1 DEF Notify, At, HandlerInv, TypeOK, LocalTypeOK
    <3>2. ASSUME Written(p) = "REJECTED"
          PROVE  cause[p] \in {"reject", "hcm-fail", "expired"}
      BY <3>1, <3>2 DEF Written, HandlerOK, Causes
    <3>3. cause[p] \in Causes => cause[p] \in ledger[req[p]]
      BY <3>1 DEF HandlerOK
    <3>4. QED
      BY <3>2, <3>3 DEF Causes
  <2>4. \A r \in Requests, s \in {"APPROVED", "REJECTED"} :
          s \in notices'[r] =>
             s \in notices[r] \/ (r = req[p] /\ s = Written(p))
    <3>1. \A r \in Requests : notices'[r] = IF r = req[p]
                                         THEN notices[r] \union {Written(p)}
                                         ELSE notices[r]
      BY <2>1 DEF TypeOK, StoreTypeOK
    <3>3. ASSUME NEW r \in Requests, NEW s, s \in notices'[r],
                 s \notin notices[r]
          PROVE  r = req[p] /\ s = Written(p)
      <4>1. r = req[p]
        BY <3>1, <3>3
      <4>2. s = Written(p)
        BY <3>1, <3>3, <4>1
      <4>3. QED
        BY <4>1, <4>2
    <3>4. QED
      BY <3>3
  <2>5. QED
    BY <2>1, <2>2, <2>3, <2>4 DEF NoticesAreTrue
<1>2. CASE ~Notify(p)
  <2>1. \A r \in Requests, s \in Statuses :
          s \in notices'[r] => s \in notices[r]
    BY <1>2, Effects
  <2>2. QED
    BY <2>1, StepMonotone DEF Monotone, NoticesAreTrue, Statuses
<1>3. QED
  BY <1>1, <1>2
--------------------------------------------------------------------------------
(* Newcomers: requests that have no row yet, and drafts.                   *)
Newcomer == {r \in Requests : status[r] \in {"absent", "DRAFT"}}

Same(r) == /\ status'[r] = status[r] /\ ledger'[r] = ledger[r]
           /\ posted'[r] = posted[r] /\ decision'[r] = decision[r]

(* What a step may do to the requests: it writes only those of its own     *)
(* request, and takes up only requests that were found by a query.         *)
LEMMA StepReach ==
  ASSUME TypeOK, NEW p \in Procs, Step(p)
  PROVE  /\ \A r \in Requests \ {req[p]} : Same(r)
         /\ req'[p] \in {req[p], NoRequest} \union todo[p]
         /\ todo'[p] \subseteq todo[p] \union {r \in Requests : r \notin Newcomer}
         /\ op'[p] \in {op[p], "none"}
         /\ Insert(p) \/ Same(req[p]) \/ status'[req[p]] = status[req[p]]
              \/ status'[req[p]] \notin {"absent", "DRAFT"}
<1> USE DEF TypeOK, StoreTypeOK, LocalTypeOK, Goto, Same, rows, hcm, call, batch
<1>1. CASE ReadLedger(p)
  BY <1>1 DEF ReadLedger
<1>2. CASE ReadFlight(p)
  BY <1>2 DEF ReadFlight, Judge, Finish
<1>3. CASE ReadHeld(p)
  BY <1>3 DEF ReadHeld, Judge, Finish
<1>4. CASE Refresh(p)
  BY <1>4 DEF Refresh, Finish
<1>5. CASE Insert(p)
  BY <1>5 DEF Insert, SetStatus
<1>6. CASE Reserve(p)
  BY <1>6 DEF Reserve, Append
<1>7. CASE CreateApproval(p)
  BY <1>7 DEF CreateApproval
<1>8. CASE Decide(p)
  BY <1>8 DEF Decide
<1>9. CASE PostAccepted(p)
  BY <1>9 DEF PostAccepted, Post
<1>10. CASE PostRefused(p)
  BY <1>10 DEF PostRefused, Finish
<1>11. CASE PostFailed(p)
  BY <1>11 DEF PostFailed, Post, Finish
<1>12. CASE Release(p)
  BY <1>12 DEF Release, Append
<1>13. CASE ConfirmUsage(p)
  BY <1>13 DEF ConfirmUsage, Append
<1>14. CASE SetApproved(p)
  BY <1>14 DEF SetApproved, SetStatus
<1>15. CASE Defer(p)
  BY <1>15 DEF Defer, SetStatus
<1>16. CASE Close(p)
  BY <1>16 DEF Close, SetStatus
<1>17. CASE NextPending(p)
  BY <1>17 DEF NextPending
<1>18. CASE Sweep(p)
  BY <1>18 DEF Sweep, Newcomer
<1>19. CASE NextExpired(p)
  BY <1>19 DEF NextExpired
<1>20. CASE EndRetry(p)
  BY <1>20 DEF EndRetry, Finish
<1>21. CASE Correct(p)
  BY <1>21 DEF Correct, Finish
<1>22. CASE Reverse(p)
  BY <1>22 DEF Reverse, Append
<1>23. CASE SetCancelled(p)
  BY <1>23 DEF SetCancelled, SetStatus
<1>24. CASE Audit(p)
  BY <1>24 DEF Audit, Finish
<1>25. CASE Notify(p)
  BY <1>25 DEF Notify, Finish, Continue
<1>26. CASE CountAttempt(p)
  BY <1>26 DEF CountAttempt, Continue
<1>27. QED
  BY <1>1, <1>2, <1>3, <1>4, <1>5, <1>6, <1>7, <1>8, <1>9, <1>10, <1>11, <1>12, <1>13, <1>14,
     <1>15, <1>16, <1>17, <1>18, <1>19, <1>20, <1>21, <1>22, <1>23, <1>24, <1>25, <1>26 DEF Step

(* A handler keeps clear of newcomers: its request is none.                *)
Clear(q) == /\ req'[q] \in Requests => req'[q] \notin Newcomer
            /\ pc'[q] # "insert"
            /\ ~(op'[q] \in {"create", "draft"} /\ pc'[q] \in BeforeInsert)

Still(q) == /\ req'[q] = req[q] /\ op'[q] = op[q]
            /\ pc'[q] = pc[q] /\ cause'[q] = cause[q]

(* The creation of a request goes on. *)
Creating(q) == /\ req'[q] = req[q] /\ op'[q] = op[q] /\ op[q] = "create"
               /\ req[q] \in Requests /\ status[req[q]] = "absent"
               /\ pc[q] \in BeforeInsert /\ pc'[q] \in BeforeInsert

Queried == \A q \in Procs : todo'[q] \subseteq todo[q] \union (Requests \ Newcomer)

(* Newcomers no handler touches.  *)
LEMMA NewcomerQuiet ==
  ASSUME TypeOK, HandlerInv, NewcomerInv, Queried,
         \A r \in Requests : Same(r) \/ (status[r] \notin {"absent", "DRAFT"} /\ status'[r] \notin {"absent", "DRAFT"}),
         \A q \in Procs : Still(q) \/ Clear(q) \/ Creating(q)
  PROVE  NewcomerInv'
<1>1. \A r \in Requests : status'[r] \in {"absent", "DRAFT"} => Same(r) /\ r \in Newcomer
  BY DEF Same, Newcomer
<1>2. ASSUME NEW q \in Procs PROVE CreatorOK(q)'
  <2>1. CASE Clear(q)
    BY <2>1 DEF CreatorOK, Clear
  <2>2. CASE Creating(q)
    BY <2>2 DEF CreatorOK, Creating, Same, Newcomer
  <2>3. CASE Still(q)
    <3>1. CreatorOK(q)
      BY DEF NewcomerInv
    <3>2. QED
      BY <2>3, <3>1 DEF CreatorOK, Still, Same, HandlerInv, HandlerOK, AtWork, BeforeInsert
  <2>4. QED
    BY <1>2, <2>1, <2>2, <2>3
<1>3. ASSUME NEW r \in Requests, status'[r] = "absent" PROVE AbsentOK(r)'
  <2>1. Same(r) /\ r \in Newcomer /\ AbsentOK(r)
    BY <1>1, <1>3 DEF NewcomerInv
  <2>2. ASSUME NEW q \in Procs, req'[q] = r PROVE req[q] = r /\ (Still(q) \/ Creating(q))
    BY <2>1, <2>2 DEF Clear, Still, Creating
  <2>3. \A q \in Procs : r \notin todo'[q]
    BY <1>3, <2>1 DEF Queried, AbsentOK, Same
  <2>4. QED
    BY <1>3, <2>1, <2>2, <2>3 DEF AbsentOK, Same, Still, Creating
<1>4. ASSUME NEW r \in Requests, status'[r] = "DRAFT" PROVE DraftOK(r)'
  <2>1. Same(r) /\ r \in Newcomer /\ DraftOK(r)
    BY <1>1, <1>4 DEF NewcomerInv
  <2>2. ASSUME NEW q \in Procs, req'[q] = r PROVE req[q] = r /\ Still(q)
    BY <1>4, <2>1, <2>2 DEF Clear, Still, Creating, Same
  <2>3. \A q \in Procs : r \notin todo'[q]
    BY <1>4, <2>1 DEF Queried, DraftOK, Same
  <2>4. QED
    BY <1>4, <2>1, <2>2, <2>3 DEF DraftOK, Same, Still
<1>5. QED
  BY <1>2, <1>3, <1>4 DEF NewcomerInv, AbsentOK, DraftOK

(* The request inserted becomes a draft or a pending request.              *)
LEMMA NewcomerInsert ==
  ASSUME TypeOK, HandlerInv, NewcomerInv, NEW p \in Procs, Insert(p)
  PROVE  NewcomerInv'
<1> USE DEF TypeOK, StoreTypeOK, LocalTypeOK
<1>1. /\ req[p] \in Requests /\ pc[p] = "insert" /\ cause[p] = "none"
      /\ op[p] \in {"create", "draft"} /\ status[req[p]] = "absent"
  BY DEF Insert, At, HandlerInv, HandlerOK, AtWork, NewcomerInv, CreatorOK, BeforeInsert
<1>2. AbsentOK(req[p])
  BY <1>1 DEF NewcomerInv
<1>3. /\ UNCHANGED <<decision, ledger, posted, req, op, cause, todo>>
      /\ status' = [status EXCEPT ![req[p]] = IF op[p] = "draft" THEN "DRAFT" ELSE "PENDING"]
      /\ pc' = [pc EXCEPT ![p] = IF op[p] = "draft" THEN "audit" ELSE "reserve"]
  BY DEF Insert, SetStatus, Goto, rows, hcm, call, batch
<1>4. \A q \in Procs \ {p} : req[q] # req[p]
  BY <1>1, <1>2 DEF AbsentOK
<1>5. ASSUME NEW q \in Procs PROVE CreatorOK(q)'
  <2>1. CreatorOK(q)
    BY DEF NewcomerInv
  <2>2. QED
    BY <1>1, <1>3, <1>4, <2>1 DEF CreatorOK, BeforeInsert
<1>6. ASSUME NEW r \in Requests PROVE AbsentOK(r)'
  <2>1. AbsentOK(r)
    BY DEF NewcomerInv
  <2>2. QED
    BY <1>1, <1>3, <1>4, <2>1 DEF AbsentOK
<1>7. ASSUME NEW r \in Requests PROVE DraftOK(r)'
  <2>1. DraftOK(r)
    BY DEF NewcomerInv
  <2>2. CASE r = req[p]
    BY <1>1, <1>2, <1>3, <1>4, <2>2 DEF AbsentOK, DraftOK
  <2>3. CASE r # req[p]
    BY <1>1, <1>3, <2>1, <2>3 DEF DraftOK
  <2>4. QED
    BY <2>2, <2>3
<1>8. QED
  BY <1>5, <1>6, <1>7 DEF NewcomerInv

(* The label of a handler says which step it takes.                        *)
LEMMA StepAt ==
  ASSUME NEW p \in Procs, Step(p)
  PROVE  /\ pc[p] \in BeforeInsert =>
              ReadLedger(p) \/ ReadFlight(p) \/ ReadHeld(p) \/ Refresh(p) \/ Insert(p)
         /\ pc[p] = "audit" => Audit(p)
         /\ pc[p] = "cancelled" => SetCancelled(p)
  BY DEF Step, At, BeforeInsert, Reserve, CreateApproval, Decide, PostAccepted, PostRefused,
         PostFailed, CountAttempt, Release, ConfirmUsage, SetApproved, Defer, Close, NextPending, Sweep,
         NextExpired, EndRetry, Correct, Reverse, SetCancelled, Audit, Notify,
         ReadLedger, ReadFlight, ReadHeld, Refresh, Insert

(* Only creation and approval check the balance, and only creation inserts. *)
LEMMA StepTo ==
  ASSUME TypeOK, NEW p \in Procs, Step(p)
  PROVE  /\ pc'[p] \in BeforeInsert => pc[p] \in BeforeInsert \/ Decide(p)
         /\ pc'[p] = "insert" => pc[p] \in BeforeInsert /\ op[p] = "create"
<1> USE DEF TypeOK, LocalTypeOK, At, Goto, BeforeInsert
<1>1. CASE ReadLedger(p)
  BY <1>1 DEF ReadLedger
<1>2. CASE ReadFlight(p)
  BY <1>2 DEF ReadFlight, Judge, Finish
<1>3. CASE ReadHeld(p)
  BY <1>3 DEF ReadHeld, Judge, Finish
<1>4. CASE Refresh(p)
  BY <1>4 DEF Refresh, Finish
<1>5. CASE Insert(p)
  BY <1>5 DEF Insert
<1>6. CASE Reserve(p)
  BY <1>6 DEF Reserve
<1>7. CASE CreateApproval(p)
  BY <1>7 DEF CreateApproval
<1>8. CASE Decide(p)
  BY <1>8 DEF Decide
<1>9. CASE PostAccepted(p)
  BY <1>9 DEF PostAccepted
<1>10. CASE PostRefused(p)
  BY <1>10 DEF PostRefused, Finish
<1>11. CASE PostFailed(p)
  BY <1>11 DEF PostFailed, Finish
<1>12. CASE Release(p)
  BY <1>12 DEF Release
<1>13. CASE ConfirmUsage(p)
  BY <1>13 DEF ConfirmUsage
<1>14. CASE SetApproved(p)
  BY <1>14 DEF SetApproved
<1>15. CASE Defer(p)
  BY <1>15 DEF Defer
<1>16. CASE Close(p)
  BY <1>16 DEF Close
<1>17. CASE NextPending(p)
  BY <1>17 DEF NextPending
<1>18. CASE Sweep(p)
  BY <1>18 DEF Sweep
<1>19. CASE NextExpired(p)
  BY <1>19 DEF NextExpired
<1>20. CASE EndRetry(p)
  BY <1>20 DEF EndRetry, Finish
<1>21. CASE Correct(p)
  BY <1>21 DEF Correct, Finish
<1>22. CASE Reverse(p)
  BY <1>22 DEF Reverse
<1>23. CASE SetCancelled(p)
  BY <1>23 DEF SetCancelled
<1>24. CASE Audit(p)
  BY <1>24 DEF Audit, Finish
<1>25. CASE Notify(p)
  BY <1>25 DEF Notify, Finish, Continue
<1>26. CASE CountAttempt(p)
  BY <1>26 DEF CountAttempt, Continue
<1>27. QED
  BY <1>1, <1>2, <1>3, <1>4, <1>5, <1>6, <1>7, <1>8, <1>9, <1>10, <1>11, <1>12, <1>13, <1>14,
     <1>15, <1>16, <1>17, <1>18, <1>19, <1>20, <1>21, <1>22, <1>23, <1>24, <1>25, <1>26 DEF Step

(* A handler that ends or takes up a request in flight is clear of newcomers. *)
LEMMA FinishClear ==
  ASSUME TypeOK, NEW p \in Procs, Finish(p)
  PROVE  Clear(p)
  BY RequestsAssumption DEF Finish, Goto, Clear, BeforeInsert, TypeOK, LocalTypeOK

LEMMA NewcomerStep ==
  ASSUME TypeOK, HandlerInv, NewcomerInv, NEW p \in Procs, Step(p)
  PROVE  NewcomerInv'
<1> USE DEF TypeOK, StoreTypeOK, LocalTypeOK
<1>0. HandlerOK(p) /\ CreatorOK(p)
  BY DEF HandlerInv, NewcomerInv
<1>1. CASE Insert(p)
  BY <1>1, NewcomerInsert
<1>2. ASSUME ~Insert(p),
             Same(req[p]) \/ (req[p] \in Requests => req[p] \notin Newcomer /\ status'[req[p]] \notin {"absent", "DRAFT"}),
             Clear(p) \/ Creating(p)
      PROVE  NewcomerInv'
  <2>1. Queried
    BY StepOthers, StepReach DEF Others, Queried
  <2>2. \A q \in Procs : Still(q) \/ Clear(q) \/ Creating(q)
    BY <1>2, StepOthers DEF Others, Still
  <2>3. \A r \in Requests : Same(r) \/ (status[r] \notin {"absent", "DRAFT"} /\ status'[r] \notin {"absent", "DRAFT"})
    BY <1>2, StepReach DEF Newcomer
  <2>4. QED
    BY <2>1, <2>2, <2>3, NewcomerQuiet
<1>3. CASE req[p] \in Requests /\ status[req[p]] = "absent" /\ ~Insert(p)
  <2>1. /\ pc[p] \in BeforeInsert
        /\ op[p] = "create" \/ pc[p] = "insert"
    BY <1>3 DEF NewcomerInv, AbsentOK, BeforeInsert
  <2>2. ReadLedger(p) \/ ReadFlight(p) \/ ReadHeld(p) \/ Refresh(p)
    BY <1>3, <2>1, StepAt
  <2>3. op[p] = "create"
    BY <2>1, <2>2 DEF ReadLedger, ReadFlight, ReadHeld, Refresh, Judge, At
  <2>4. Same(req[p])
    BY <2>2 DEF ReadLedger, ReadFlight, ReadHeld, Refresh, Judge, Finish, Same, rows, hcm
  <2>5. ASSUME ~Finish(p) PROVE Creating(p)
    BY <1>3, <2>1, <2>2, <2>3, <2>5
    DEF ReadLedger, ReadFlight, ReadHeld, Refresh, Judge, Goto, Creating, BeforeInsert, call
  <2>6. QED
    BY <1>2, <1>3, <2>4, <2>5, FinishClear
<1>4. CASE req[p] \in Requests /\ status[req[p]] = "DRAFT"
  <2>1. CASE <<op[p], pc[p]>> = <<"draft", "audit">>
    <3>1. Audit(p) /\ op[p] = "draft"
      BY <2>1, StepAt
    <3>2. Finish(p) /\ Same(req[p]) /\ ~Insert(p)
      BY <3>1 DEF Audit, Insert, At, Same, rows, hcm
    <3>3. QED
      BY <1>2, <3>2, FinishClear
  <2>2. CASE <<op[p], pc[p]>> = <<"cancel", "cancelled">>
    <3>1. SetCancelled(p)
      BY <2>2, StepAt
    <3>2. /\ status' = [status EXCEPT ![req[p]] = "CANCELLED"]
          /\ UNCHANGED <<ledger, posted, decision, todo, req, op, cause>>
          /\ pc' = [pc EXCEPT ![p] = IF cause[p] = "cancel" THEN "release" ELSE "audit"]
      BY <3>1 DEF SetCancelled, SetStatus, Goto, rows, hcm, call, batch
    <3>3. ASSUME NEW q \in Procs PROVE CreatorOK(q)'
      BY <1>4, <2>2, <3>2 DEF NewcomerInv, CreatorOK, BeforeInsert
    <3>4. ASSUME NEW r \in Requests PROVE AbsentOK(r)' /\ DraftOK(r)'
      <4>1. AbsentOK(r) /\ DraftOK(r)
        BY DEF NewcomerInv
      <4>2. CASE r = req[p]
        BY <1>4, <3>2, <4>2 DEF AbsentOK, DraftOK
      <4>3. CASE r # req[p]
        BY <1>4, <3>2, <4>1, <4>3 DEF AbsentOK, DraftOK
      <4>4. QED
        BY <4>2, <4>3
    <3>5. QED
      BY <3>3, <3>4 DEF NewcomerInv
  <2>3. QED
    BY <1>4, <2>1, <2>2 DEF NewcomerInv, DraftOK
<1>5. CASE req[p] \in Requests => req[p] \notin Newcomer
  <2>1. ~Insert(p)
    BY <1>0, <1>5 DEF Insert, At, CreatorOK, HandlerOK, AtWork, BeforeInsert, Newcomer
  <2>2. \A r \in todo[p] : r \in Requests \ Newcomer
    BY DEF NewcomerInv, AbsentOK, DraftOK, Newcomer
  <2>3. Clear(p)
    <3>1. req'[p] \in Requests => req'[p] \notin Newcomer
      BY <1>5, <2>2, StepReach, RequestsAssumption
    <3>2. op[p] \in {"create", "draft"} => pc[p] \notin BeforeInsert /\ ~Decide(p)
      BY <1>0, <1>5 DEF CreatorOK, HandlerOK, AtWork, BeforeInsert, Newcomer, Decide, At
    <3>3. pc'[p] # "insert" /\ ~(op'[p] \in {"create", "draft"} /\ pc'[p] \in BeforeInsert)
      BY <3>2, StepTo, StepReach
    <3>4. QED
      BY <3>1, <3>3 DEF Clear
  <2>4. QED
    BY <1>2, <1>5, <2>1, <2>3, StepReach DEF Newcomer
<1>6. QED
  BY <1>1, <1>3, <1>4, <1>5 DEF Newcomer

LEMMA NewcomerNext ==
  TypeOK /\ HandlerInv /\ NewcomerInv /\ [Act]_work => NewcomerInv'
<1> SUFFICES ASSUME TypeOK, HandlerInv, NewcomerInv, [Act]_work
             PROVE  NewcomerInv'
  OBVIOUS
<1>1. ASSUME UNCHANGED <<status, ledger, posted, decision>>, Queried,
             \A q \in Procs : Still(q) \/ Clear(q)
      PROVE  NewcomerInv'
  BY <1>1, NewcomerQuiet DEF Same
<1>2. ASSUME NEW p \in Procs, Begin(p) PROVE NewcomerInv'
  <2>1. PICK r \in Requests : \/ BeginCreate(p, r) \/ BeginApprove(p, r)
                              \/ BeginReject(p, r) \/ BeginCancel(p, r)
    BY <1>2 DEF Begin
  <2>2. CASE BeginCreate(p, r) \/ status[r] = "DRAFT"
    <3>1. /\ UNCHANGED <<status, ledger, posted, decision, todo>>
          /\ req' = [req EXCEPT ![p] = r]
          /\ cause' = [cause EXCEPT ![p] = "none"]
          /\ \/ /\ status[r] = "absent"
                /\ \A q \in Procs : req[q] # r
                /\ \/ op' = [op EXCEPT ![p] = "create"] /\ pc' = [pc EXCEPT ![p] = "ledger"]
                   \/ op' = [op EXCEPT ![p] = "draft"] /\ pc' = [pc EXCEPT ![p] = "insert"]
             \/ /\ status[r] = "DRAFT"
                /\ op' = [op EXCEPT ![p] = "cancel"]
                /\ pc' = [pc EXCEPT ![p] = "cancelled"]
      BY <2>1, <2>2 DEF BeginCreate, BeginApprove, BeginReject, BeginCancel, Start, Goto,
                       NewcomerInv, DraftOK, InFlight, rows, hcm, batch
    <3>2. ASSUME NEW q \in Procs PROVE CreatorOK(q)'
      BY <3>1 DEF NewcomerInv, CreatorOK, BeforeInsert, TypeOK, LocalTypeOK
    <3>3. ASSUME NEW s \in Requests PROVE AbsentOK(s)'
      BY <3>1 DEF NewcomerInv, AbsentOK, BeforeInsert, TypeOK, LocalTypeOK
    <3>4. ASSUME NEW s \in Requests PROVE DraftOK(s)'
      BY <3>1 DEF NewcomerInv, DraftOK, TypeOK, LocalTypeOK
    <3>5. QED
      BY <3>2, <3>3, <3>4 DEF NewcomerInv
  <2>3. CASE ~BeginCreate(p, r) /\ status[r] # "DRAFT"
    <3>1. r \notin Newcomer
      BY <2>1, <2>3 DEF NewcomerInv, AbsentOK, Newcomer, InFlight,
                         BeginApprove, BeginReject, BeginCancel
    <3>2. Clear(p)
      BY <2>1, <2>3, <3>1 DEF BeginApprove, BeginReject, BeginCancel, Start, Goto, Clear,
                             BeforeInsert, TypeOK, LocalTypeOK
    <3>3. /\ UNCHANGED <<status, ledger, posted, decision>>
          /\ UNCHANGED todo
      BY <2>1, <2>3 DEF BeginApprove, BeginReject, BeginCancel, Start, rows, hcm, batch
    <3>4. QED
      BY <1>1, <1>2, <3>2, <3>3, BeginOthers DEF Others, Still, Queried
  <2>4. QED
    BY <2>2, <2>3
<1>3. ASSUME NEW p \in Procs, BeginRetry(p) PROVE NewcomerInv'
  <2>1. Clear(p) /\ UNCHANGED <<status, ledger, posted, decision>>
    BY <1>3, RequestsAssumption DEF BeginRetry, At, Goto, Clear, BeforeInsert, TypeOK, LocalTypeOK, rows, hcm,
       HandlerInv, HandlerOK, AtWork
  <2>2. Queried
    BY <1>3 DEF BeginRetry, Queried, Newcomer, TypeOK, LocalTypeOK
  <2>3. \A q \in Procs \ {p} : Still(q)
    BY <1>3 DEF BeginRetry, Goto, Still, TypeOK, LocalTypeOK
  <2>4. QED
    BY <1>1, <2>1, <2>2, <2>3
<1>4. ASSUME NEW p \in Procs, Step(p) PROVE NewcomerInv'
  BY <1>4, NewcomerStep
<1>5. ASSUME NEW p \in Procs, QueryFails(p) PROVE NewcomerInv'
  <2>1. Clear(p)
    <3>1. CASE op[p] = "retry"
      <4>1. req[p] \in Requests => req[p] \notin Newcomer
        BY <3>1 DEF NewcomerInv, AbsentOK, DraftOK, Newcomer
      <4>2. QED
        BY <1>5, <3>1, <4>1, FinishClear
        DEF QueryFails, Goto, Clear, BeforeInsert, TypeOK, LocalTypeOK
    <3>2. CASE op[p] # "retry"
      BY <1>5, <3>2, FinishClear DEF QueryFails
    <3>3. QED
      BY <3>1, <3>2
  <2>2. UNCHANGED <<status, ledger, posted, decision>> /\ Queried
    BY <1>5 DEF QueryFails, Finish, Queried, TypeOK, LocalTypeOK, rows, hcm, batch
  <2>3. \A q \in Procs \ {p} : Still(q)
    BY <1>5 DEF QueryFails, Finish, Goto, Still, TypeOK, LocalTypeOK
  <2>4. QED
    BY <1>1, <2>1, <2>2, <2>3
<1>6. CASE Crash
  BY <1>1, <1>6, RequestsAssumption DEF Crash, Clear, Queried, BeforeInsert, rows, hcm
<1>7. CASE Tick
  BY <1>1, <1>7 DEF Tick, Still, Queried, hcm, locals, call, batch
<1>8. CASE UNCHANGED work
  BY <1>1, <1>8 DEF work, Still, Queried, rows, hcm, locals, call, batch
<1>9. QED
  BY <1>2, <1>3, <1>4, <1>5, <1>6, <1>7, <1>8 DEF Act
--------------------------------------------------------------------------------
LEMMA IndInit == Init => IndInv
<1> SUFFICES ASSUME Init PROVE IndInv
  OBVIOUS
<1>1. TypeOK
  BY TypeInit
<1>2. ApprovedIsBacked /\ ChargedOnlyIfPosted /\ ReversedOnlyAfterDeletion /\ NoticesAreTrue
      /\ ConversionInv
  BY DEF Init, ApprovedIsBacked, ChargedOnlyIfPosted, ReversedOnlyAfterDeletion, NoticesAreTrue,
         ConversionInv
<1>3. HandlerInv
  BY RequestsAssumption DEF Init, HandlerInv, HandlerOK, AtWork
<1>4. NewcomerInv
  BY RequestsAssumption DEF Init, NewcomerInv, CreatorOK, AbsentOK, DraftOK, BeforeInsert
<1>5. QED
  BY <1>1, <1>2, <1>3, <1>4 DEF IndInv

LEMMA IndNext == IndInv /\ [Act]_work => IndInv'
<1> SUFFICES ASSUME IndInv, [Act]_work PROVE IndInv'
  OBVIOUS
<1>1. /\ TypeOK /\ HandlerInv /\ ConversionInv /\ NewcomerInv /\ ApprovedIsBacked
      /\ ChargedOnlyIfPosted /\ ReversedOnlyAfterDeletion /\ NoticesAreTrue
  BY DEF IndInv
<1>2. TypeOK' /\ HandlerInv' /\ NewcomerInv'
  BY <1>1, TypeStep, HandlerNext, NewcomerNext
<1>3. /\ ConversionInv' /\ ApprovedIsBacked' /\ ChargedOnlyIfPosted'
      /\ ReversedOnlyAfterDeletion' /\ NoticesAreTrue'
  <2>1. CASE UNCHANGED Store
    BY <1>1, <2>1 DEF Store, hcm, ConversionInv, ApprovedIsBacked, ChargedOnlyIfPosted,
                      ReversedOnlyAfterDeletion, NoticesAreTrue
  <2>2. ASSUME NEW p \in Procs, Step(p)
        PROVE  /\ ConversionInv' /\ ApprovedIsBacked' /\ ChargedOnlyIfPosted'
               /\ ReversedOnlyAfterDeletion' /\ NoticesAreTrue'
    BY <1>1, <2>2, ConversionStep, ApprovedStep, ChargedStep, ReversedStep, NoticesStep
  <2>3. QED
    BY <2>1, <2>2, OnlyStepWrites
<1>4. QED
  BY <1>2, <1>3 DEF IndInv

(* The inductive invariant holds in every reachable state.                 *)
THEOREM IndInvariant == Spec => []IndInv
<1>1. [Next]_vars => [Act]_work
  BY DEF Next, vars
<1>2. QED
  BY <1>1, IndInit, IndNext, PTL DEF Spec

(* Every variable of the store and of the handlers keeps its type.         *)
THEOREM TypeInvariant == Spec => []TypeOK
<1>1. IndInv => TypeOK
  BY DEF IndInv
<1>2. QED
  BY <1>1, IndInvariant, PTL

(* APPROVED means charged, and posted to HCM under the id that is stored.  *)
THEOREM ApprovedBacked == Spec => []ApprovedIsBacked
<1>1. IndInv => ApprovedIsBacked
  BY DEF IndInv
<1>2. QED
  BY <1>1, IndInvariant, PTL

(* No usage is booked for leave HCM has not accepted.                      *)
THEOREM ChargesArePosted == Spec => []ChargedOnlyIfPosted
<1>1. IndInv => ChargedOnlyIfPosted
  BY DEF IndInv
<1>2. QED
  BY <1>1, IndInvariant, PTL

(* No usage is given back before an HCM entry of the leave was deleted.    *)
THEOREM ReversalsFollowDeletion == Spec => []ReversedOnlyAfterDeletion
<1>1. IndInv => ReversedOnlyAfterDeletion
  BY DEF IndInv
<1>2. QED
  BY <1>1, IndInvariant, PTL

(* No employee is told of a decision the ledger does not bear out.         *)
THEOREM NoticesTrue == Spec => []NoticesAreTrue
<1>1. IndInv => NoticesAreTrue
  BY DEF IndInv
<1>2. QED
  BY <1>1, IndInvariant, PTL

(* A draft has no effect on the ledger, the approver or HCM.               *)
THEOREM DraftsStayUntouched == Spec => []DraftsUntouched
<1>1. IndInv => DraftsUntouched
  BY DEF IndInv, NewcomerInv, DraftOK, DraftsUntouched
<1>2. QED
  BY <1>1, IndInvariant, PTL

(* What a request's ledger rows sum to, when its usage follows a release.  *)
LEMMA NetBound ==
  ASSUME NEW r \in Requests, "usage" \in ledger[r] => "approve" \in ledger[r]
  PROVE  Net(r) >= -Dur[r]
<1>1. Dur[r] \in Nat
  BY DurAssumption
<1>2. \A k \in Causes \union {"reversal"} : Amount(r, k) \in {0, Dur[r]}
  BY DEF Amount, Debits, Causes
<1>3. \A k \in Debits : Amount(r, k) \in {0, -Dur[r]}
  BY DEF Amount, Debits
<1>4. Amount(r, "usage") + Amount(r, "approve") >= 0
  BY <1>1 DEF Amount, Debits
<1>5. Released(r) >= Amount(r, "approve") /\ Released(r) \in Int
  BY <1>1, <1>2 DEF Released, Causes
<1>6. QED
  BY <1>1, <1>2, <1>3, <1>4, <1>5 DEF Net, Debits, Causes

(* No interleaving of handlers, retries, crashes and lost replies makes a  *)
(* request cost more than its duration.                                    *)
THEOREM NoDoubleCharge == Spec => []NeverDoubleCharged
<1>1. IndInv => NeverDoubleCharged
  BY NetBound DEF IndInv, ConversionInv, NeverDoubleCharged
<1>2. QED
  BY <1>1, IndInvariant, PTL
--------------------------------------------------------------------------------
(* A sync writes no row of a request and no handler's local variables.     *)
LEMMA SyncLeavesWork ==
  FetchBalances \/ Compare \/ Adjust \/ UNCHANGED <<vars, syncing>> => UNCHANGED work
BY DEF FetchBalances, Compare, Adjust, vars

(* The invariant of the workflow holds with syncs at work on its ledger:   *)
(* an approval stays backed by its usage and its HCM entry, a usage is     *)
(* booked after its release, and what employees are told is true, whatever *)
(* adjustments are booked in between.                                      *)
THEOREM InvariantWithSync == SpecWithSync => []IndInv
<1>1. InitWithSync => IndInv
  BY IndInit DEF InitWithSync
<1>2. ASSUME IndInv, [NextWithSync]_<<vars, syncing>> PROVE IndInv'
  <2>1. CASE Workflow
    BY <1>2, <2>1, IndNext DEF Workflow
  <2>2. CASE FetchBalances \/ Compare \/ Adjust \/ UNCHANGED <<vars, syncing>>
    BY <1>2, <2>2, SyncLeavesWork, IndNext
  <2>3. QED
    BY <1>2, <2>1, <2>2 DEF NextWithSync
<1>3. QED
  BY <1>1, <1>2, PTL DEF SpecWithSync
--------------------------------------------------------------------------------
(* Calls that do not overlap in time: the hypotheses of the theorems about *)
(* the promises of the service.                                            *)
IsolatedCalls == Isolated /\ MaxFaults = 0

Refusals == {"reject", "hcm-fail", "expired"}

Holds(p, r) == req[p] = r \/ r \in todo[p]

(* A handler in the middle of booking an approval, and one that has left   *)
(* the ledger behind or ahead of the status.                               *)
Converting(p) == pc[p] \in {"usage", "approved"} \/ (pc[p] = "release" /\ cause[p] = "approve")

Undoing(p) == pc[p] = "reverse" \/ (pc[p] = "cancelled" /\ status[req[p]] = "APPROVED")

Midway(p) == \/ pc[p] \in {"reserve", "release", "usage", "approved"}
             \/ pc[p] = "cancelled" /\ status[req[p]] = "APPROVED"

(* The rows a request has when no handler is in the middle of booking.     *)
Settled(r) ==
  CASE status[r] \in {"absent", "DRAFT"} -> ledger[r] = {}
    [] status[r] \in InFlight -> ledger[r] = {"reservation"}
    [] status[r] = "APPROVED" -> ledger[r] = {"reservation", "approve", "usage"}
    [] status[r] = "REJECTED" -> \/ \E c \in Refusals : ledger[r] = {"reservation", c}
                                 \/ ledger[r] = {"reservation", "cancel", "reject"}
    [] OTHER -> \/ ledger[r] = {"reservation", "cancel"}
                \/ /\ decision[r] # "PENDING"
                   /\ ledger[r] \in {{}, {"reservation", "approve", "usage", "reversal"}}

(* What a handler may rely on about its request, call by call, when no     *)
(* other handler touches it.                                               *)
PositionOK(p) ==
  LET r == req[p]
      decided == decision[r] # "PENDING"
      late == cause[p] = "reject" /\ ledger[r] = {"reservation", "cancel"}
  IN  /\ pc[p] \in {"loop", "count", "sweep"} => op[p] = "retry"
      /\ pc[p] \in BeforeInsert => \/ op[p] = "create"
                                   \/ op[p] = "draft" /\ pc[p] = "insert"
                                   \/ op[p] = "approve" /\ status[r] = "PENDING" /\ decided
      /\ pc[p] = "reserve" => status[r] = "PENDING" /\ ledger[r] = {}
      /\ pc[p] = "chain" => status[r] = "PENDING"
      /\ pc[p] = "decide" => ~decided /\ (op[p] = "approve" => status[r] = "PENDING")
      /\ pc[p] = "post" => /\ decided
                           /\ \/ op[p] = "approve" /\ status[r] = "PENDING"
                              \/ op[p] = "retry" /\ status[r] = "APPROVED_PENDING_HCM_UPDATE"
      /\ pc[p] = "defer" => decided /\ status[r] = "PENDING"
      /\ pc[p] = "close" => decided /\ (status[r] \in InFlight \/ (status[r] = "CANCELLED" /\ late))
      /\ Converting(p) => decided /\ status[r] \in InFlight
      /\ pc[p] = "release" => /\ ledger[r] = {"reservation"} \/ late
                              /\ cause[p] = "cancel" => status[r] = "CANCELLED"
                              /\ cause[p] \in Refusals => status[r] = "REJECTED"
      /\ pc[p] = "usage" => ledger[r] = {"reservation", "approve"}
      /\ pc[p] = "approved" => ledger[r] = {"reservation", "approve", "usage"}
      /\ pc[p] \in {"correct", "reverse"} => status[r] = "APPROVED"
      /\ pc[p] = "correct" => ref[p] = hcmRef[r]
      /\ pc[p] = "cancelled" =>
           \/ cause[p] = "cancel" /\ status[r] \in InFlight
           \/ cause[p] = "none" /\ status[r] = "DRAFT"
           \/ /\ cause[p] = "none" /\ status[r] = "APPROVED"
              /\ ledger[r] = {"reservation", "approve", "usage", "reversal"}

(* One handler at a time holds a request, the job finds deferred requests  *)
(* as it listed them, and what nobody is booking is settled.               *)
SerialOK(r) ==
  /\ \A p, q \in Procs : Holds(p, r) /\ Holds(q, r) => p = q
  /\ \A p \in Procs : r \in todo[p] => req[p] # r /\ status[r] = "APPROVED_PENDING_HCM_UPDATE"
  /\ decision[r] = "PENDING" => status[r] \in {"PENDING", "CANCELLED"}
  /\ (\A p \in Procs : req[p] = r => ~Midway(p)) => Settled(r)

SerialInv == (\A p \in Procs : PositionOK(p)) /\ (\A r \in Requests : SerialOK(r))

(* Every day of a leave has its entry; all of them, or all but one.        *)
Whole(r) == Cardinality(posted[r]) = Cardinality(Days[r]) /\ posted[r] \intersect deleted = {}

Cut(r) == /\ Cardinality(posted[r]) = Cardinality(Days[r])
          /\ posted[r] \intersect deleted = {hcmRef[r]}

(* The entries a request has when no handler converts or cancels it.       *)
Kept(r) == CASE status[r] = "APPROVED" -> Whole(r)
             [] status[r] = "CANCELLED" -> posted[r] = {} \/ (Cut(r) /\ "usage" \in ledger[r])
             [] OTHER -> posted[r] = {}

EntriesOK(r) ==
  /\ \A p \in Procs : req[p] = r /\ Converting(p) => Whole(r)
  /\ \A p \in Procs : req[p] = r /\ Undoing(p) => Cut(r)
  /\ (\A p \in Procs : req[p] = r => ~Converting(p) /\ ~Undoing(p)) => Kept(r)

(* No entry is of two requests, and only entries of requests are deleted.  *)
Apart == /\ \A r, q \in Requests : r # q => posted[r] \intersect posted[q] = {}
         /\ \A e \in deleted : \E r \in Requests : e \in posted[r]

EntriesInv == Apart /\ \A r \in Requests \ LostReplies : EntriesOK(r)

(* How a step of a handler that holds r at most on its list changes that.  *)
Passive(q, r) ==
  /\ Holds(q, r)' => Holds(q, r)
  /\ r \in todo'[q] => r \in todo[q] /\ req'[q] # r
  /\ req[q] = r => ~Midway(q) \/ (req'[q] = r /\ Midway(q)' = Midway(q))

LEMMA SerialQuiet ==
  ASSUME NEW r \in Requests, SerialOK(r), Same(r), \A q \in Procs : Passive(q, r)
  PROVE  SerialOK(r)'
<1>1. \A p, q \in Procs : Holds(p, r)' /\ Holds(q, r)' => p = q
  BY DEF SerialOK, Passive
<1>2. \A p \in Procs : r \in todo'[p] => req'[p] # r /\ status'[r] = "APPROVED_PENDING_HCM_UPDATE"
  BY DEF SerialOK, Passive, Same
<1>3. decision'[r] = "PENDING" => status'[r] \in {"PENDING", "CANCELLED"}
  BY DEF SerialOK, Same
<1>4. ASSUME \A p \in Procs : req'[p] = r => ~Midway(p)' PROVE Settled(r)'
  <2>1. \A p \in Procs : req[p] = r => ~Midway(p)
    BY <1>4 DEF Passive
  <2>2. QED
    BY <2>1 DEF SerialOK, Settled, Same
<1>5. QED
  BY <1>1, <1>2, <1>3, <1>4 DEF SerialOK

(* What a step takes in hand, or lets go.                                  *)
LEMMA StepTakes ==
  ASSUME TypeOK, NEW p \in Procs, Step(p)
  PROVE  \/ Sweep(p)
         \/ req'[p] \in {req[p], NoRequest} /\ todo'[p] \in {todo[p], {}}
         \/ /\ NextPending(p) \/ NextExpired(p)
            /\ req'[p] \in todo[p] /\ todo'[p] = todo[p] \ {req'[p]}
<1> USE DEF TypeOK, LocalTypeOK, call, batch
<1>1. CASE ReadLedger(p)
  BY <1>1 DEF ReadLedger
<1>2. CASE ReadFlight(p)
  BY <1>2 DEF ReadFlight, Judge, Finish
<1>3. CASE ReadHeld(p)
  BY <1>3 DEF ReadHeld, Judge, Finish
<1>4. CASE Refresh(p)
  BY <1>4 DEF Refresh, Finish
<1>5. CASE Insert(p)
  BY <1>5 DEF Insert
<1>6. CASE Reserve(p)
  BY <1>6 DEF Reserve
<1>7. CASE CreateApproval(p)
  BY <1>7 DEF CreateApproval
<1>8. CASE Decide(p)
  BY <1>8 DEF Decide
<1>9. CASE PostAccepted(p)
  BY <1>9 DEF PostAccepted
<1>10. CASE PostRefused(p)
  BY <1>10 DEF PostRefused, Finish
<1>11. CASE PostFailed(p)
  BY <1>11 DEF PostFailed, Finish
<1>12. CASE Release(p)
  BY <1>12 DEF Release
<1>13. CASE ConfirmUsage(p)
  BY <1>13 DEF ConfirmUsage
<1>14. CASE SetApproved(p)
  BY <1>14 DEF SetApproved
<1>15. CASE Defer(p)
  BY <1>15 DEF Defer
<1>16. CASE Close(p)
  BY <1>16 DEF Close
<1>17. CASE NextPending(p)
  BY <1>17 DEF NextPending
<1>18. CASE NextExpired(p)
  BY <1>18 DEF NextExpired
<1>19. CASE EndRetry(p)
  BY <1>19 DEF EndRetry, Finish
<1>20. CASE Correct(p)
  BY <1>20 DEF Correct, Finish
<1>21. CASE Reverse(p)
  BY <1>21 DEF Reverse
<1>22. CASE SetCancelled(p)
  BY <1>22 DEF SetCancelled
<1>23. CASE Audit(p)
  BY <1>23 DEF Audit, Finish
<1>24. CASE Notify(p)
  BY <1>24 DEF Notify, Finish, Continue
<1>25. CASE CountAttempt(p)
  BY <1>25 DEF CountAttempt, Continue
<1>26. QED
  BY <1>1, <1>2, <1>3, <1>4, <1>5, <1>6, <1>7, <1>8, <1>9, <1>10, <1>11, <1>12, <1>13, <1>14,
     <1>15, <1>16, <1>17, <1>18, <1>19, <1>20, <1>21, <1>22, <1>23, <1>24, <1>25 DEF Step

(* The id a request holds is written by handlers of its own only.          *)
LEMMA HcmRefKept ==
  ASSUME TypeOK, NEW p \in Procs, Step(p), NEW r \in Requests
  PROVE  /\ r # req[p] => hcmRef'[r] = hcmRef[r]
         /\ SetApproved(p) \/ hcmRef' = hcmRef
<1>1. UNCHANGED hcmRef \/ SetApproved(p)
  BY Effects DEF Insert, Defer, Close, SetCancelled
<1>2. CASE SetApproved(p)
  BY <1>2 DEF SetApproved, TypeOK, StoreTypeOK
<1>3. QED
  BY <1>1, <1>2

(* The requests a step is not about stay as they are.                      *)
LEMMA SerialElsewhere ==
  ASSUME TypeOK, NEW p \in Procs, Step(p), ~Sweep(p), NEW r \in Requests, r # req[p], SerialOK(r)
  PROVE  SerialOK(r)'
<1>1. Same(r) /\ Others(p)
  BY StepReach, StepOthers
<1>2. ASSUME NEW q \in Procs \ {p} PROVE Passive(q, r)
  <2>1. UNCHANGED <<pc[q], req[q], cause[q], todo[q]>>
    BY <1>1, <1>2 DEF Others
  <2>2. QED
    BY <1>1, <2>1 DEF Passive, Holds, Midway, SerialOK, Same
<1>3. Passive(p, r)
  BY StepTakes, RequestsAssumption DEF Passive, Holds, SerialOK
<1>4. QED
  BY <1>1, <1>2, <1>3, SerialQuiet

LEMMA SerialOwn ==
  ASSUME TypeOK, NEW p \in Procs, NEW r \in Requests, r = req[p], SerialOK(r), Others(p),
         req'[p] \in {r, NoRequest}, todo'[p] \subseteq todo[p],
         decision'[r] = "PENDING" => status'[r] \in {"PENDING", "CANCELLED"},
         (req'[p] = r => ~Midway(p)') => Settled(r)'
  PROVE  SerialOK(r)'
<1>1. \A q \in Procs : Holds(q, r)' => Holds(q, r)
  BY RequestsAssumption DEF Others, Holds
<1>2. \A q \in Procs : r \notin todo'[q]
  BY DEF Others, SerialOK, Holds
<1>3. QED
  BY <1>1, <1>2 DEF SerialOK

LEMMA PositionElsewhere ==
  ASSUME TypeOK, HandlerInv, SerialInv, NEW p \in Procs, Step(p), NEW q \in Procs \ {p}
  PROVE  PositionOK(q)'
<1>1. UNCHANGED <<pc[q], op[q], req[q], ref[q], cause[q]>>
  BY StepOthers DEF Others
<1>2. PositionOK(q) /\ HandlerOK(q)
  BY DEF SerialInv, HandlerInv
<1>3. CASE req[q] \in Requests
  <2>1. req[q] # req[p]
    BY <1>3 DEF SerialInv, SerialOK, Holds
  <2>2. Same(req[q]) /\ hcmRef'[req[q]] = hcmRef[req[q]]
    BY <1>3, <2>1, StepReach, HcmRefKept
  <2>3. QED
    BY <1>1, <1>2, <2>2 DEF PositionOK, Converting, Same
<1>4. CASE req[q] \notin Requests
  BY <1>1, <1>2, <1>4 DEF PositionOK, Converting, HandlerOK, AtWork, BeforeInsert
<1>5. QED
  BY <1>3, <1>4

(* What a step of a handler owes its own request.                          *)
OwnOK(p, r) ==
  /\ PositionOK(p)'
  /\ decision'[r] = "PENDING" => status'[r] \in {"PENDING", "CANCELLED"}
  /\ (req'[p] = r => ~Midway(p)') => Settled(r)'

(* A handler that books nothing goes on to a call that relies on no more.  *)
LEMMA OwnSame ==
  ASSUME NEW p \in Procs, NEW r \in Requests, SerialOK(r), Same(r), Settled(r), PositionOK(p)'
  PROVE  OwnOK(p, r)
  BY DEF OwnOK, Same, Settled, SerialOK

LEMMA OwnFinish ==
  ASSUME TypeOK, NEW p \in Procs, NEW r \in Requests, SerialOK(r), Same(r), Settled(r), Finish(p)
  PROVE  OwnOK(p, r)
<1>1. pc'[p] = "idle"
  BY DEF Finish, Goto, TypeOK, LocalTypeOK
<1>2. PositionOK(p)'
  BY <1>1 DEF PositionOK, Converting, BeforeInsert
<1>3. QED
  BY <1>2, OwnSame

LEMMA OwnJudge ==
  ASSUME TypeOK, NEW p \in Procs, NEW r \in Requests, r = req[p], SerialOK(r), Settled(r),
         PositionOK(p), CreatorOK(p), pc[p] \in {"flight", "releases", "reservations"}, NEW n, Judge(p, n)
  PROVE  OwnOK(p, r)
<1>1. Same(r)
  BY DEF Judge, Same, rows, hcm
<1>2. CASE Finish(p)
  BY <1>1, <1>2, OwnFinish
<1>3. CASE ~Finish(p)
  <2>1. /\ UNCHANGED <<status, decision, ledger, op, req, cause>>
        /\ pc'[p] = IF op[p] = "create" THEN "refresh" ELSE "post"
    BY <1>3 DEF Judge, Goto, rows, call, TypeOK, LocalTypeOK
  <2>2. \/ op[p] = "create"
        \/ op[p] = "approve" /\ status[r] = "PENDING" /\ decision[r] # "PENDING"
    BY DEF PositionOK, BeforeInsert
  <2>3. QED
    BY <1>1, <2>1, <2>2, OwnSame DEF PositionOK, Converting, BeforeInsert
<1>4. QED
  BY <1>2, <1>3


(* The label a handler is at, where it goes, and nothing of a call changes. *)
LEMMA OwnPosted ==
  ASSUME NEW p \in Procs, NEW r \in Requests, SerialOK(r), Settled(r), PositionOK(p)',
         UNCHANGED <<status, ledger, decision>>
  PROVE  OwnOK(p, r)
  BY DEF OwnOK, Settled, SerialOK

LEMMA OwnContinue ==
  ASSUME TypeOK, NEW p \in Procs, NEW r \in Requests, SerialOK(r), Settled(r), op[p] = "retry",
         UNCHANGED <<status, ledger, decision>>, NEW l \in {"loop", "sweep"}, Continue(p, l)
  PROVE  OwnOK(p, r)
<1>1. pc'[p] = l /\ op'[p] = op[p]
  BY DEF Continue, Goto, TypeOK, LocalTypeOK
<1>2. PositionOK(p)'
  BY <1>1 DEF PositionOK, Converting, BeforeInsert
<1>3. QED
  BY <1>2, OwnPosted

LEMMA OwnStep ==
  ASSUME TypeOK, NEW p \in Procs, Step(p), NEW r \in Requests, r = req[p],
         HandlerOK(p), CreatorOK(p), PositionOK(p), SerialOK(r)
  PROVE  OwnOK(p, r)
<1> USE DEF TypeOK, StoreTypeOK, LocalTypeOK, At, Goto, rows, hcm, call
<1>0. ~Midway(p) => Settled(r)
  BY DEF SerialOK, Holds
<1>a. AtWork(p)
  BY DEF HandlerOK
<1>1. CASE ReadLedger(p)
  <2>1. Settled(r) /\ Same(r)
    BY <1>0, <1>1 DEF ReadLedger, Midway, Same
  <2>2. PositionOK(p)'
    BY <1>1, <2>1 DEF ReadLedger, PositionOK, Converting, BeforeInsert
  <2>3. QED
    BY <2>1, <2>2, OwnSame
<1>2. CASE ReadFlight(p)
  <2>1. Settled(r) /\ pc[p] = "flight"
    BY <1>0, <1>2 DEF ReadFlight, Midway
  <2>2. CASE Judge(p, avail[p])
    BY <2>1, <2>2, OwnJudge
  <2>3. CASE ~Judge(p, avail[p])
    <3>1. Same(r)
      BY <1>2, <2>3 DEF ReadFlight, Same
    <3>2. PositionOK(p)'
      BY <1>2, <2>3, <3>1 DEF ReadFlight, PositionOK, Converting, BeforeInsert
    <3>3. QED
      BY <2>1, <3>1, <3>2, OwnSame
  <2>4. QED
    BY <2>2, <2>3
<1>3. CASE ReadHeld(p)
  <2>1. Settled(r) /\ pc[p] \in {"tally", "releases", "reservations"}
    BY <1>0, <1>3 DEF ReadHeld, Midway
  <2>2. CASE At(p, "tally")
    <3>1. Same(r)
      BY <1>3, <2>2 DEF ReadHeld, Same
    <3>2. PositionOK(p)'
      BY <1>3, <2>2, <3>1 DEF ReadHeld, PositionOK, Converting, BeforeInsert
    <3>3. QED
      BY <2>1, <3>1, <3>2, OwnSame
  <2>3. CASE ~At(p, "tally")
    BY <1>3, <2>1, <2>3, OwnJudge DEF ReadHeld
  <2>4. QED
    BY <2>2, <2>3
<1>4. CASE Refresh(p)
  <2>1. Settled(r) /\ Same(r)
    BY <1>0, <1>4 DEF Refresh, Midway, Same
  <2>2. CASE Finish(p)
    BY <2>1, <2>2, OwnFinish
  <2>3. CASE ~Finish(p)
    <3>1. PositionOK(p)'
      BY <1>4, <2>1, <2>3 DEF Refresh, PositionOK, Converting, BeforeInsert
    <3>2. QED
      BY <2>1, <3>1, OwnSame
  <2>4. QED
    BY <2>2, <2>3
<1>5. CASE Insert(p)
  <2>1. Settled(r) /\ status[r] = "absent" /\ op[p] \in {"create", "draft"}
    BY <1>0, <1>5 DEF Insert, Midway, CreatorOK, BeforeInsert
  <2>2. decision[r] # "PENDING"
    BY <2>1 DEF SerialOK
  <2>3. ledger[r] = {}
    BY <2>1 DEF Settled, InFlight
  <2>4. /\ UNCHANGED <<ledger, decision, req, cause, op>>
        /\ \/ status'[r] = "DRAFT" /\ pc'[p] = "audit"
           \/ status'[r] = "PENDING" /\ pc'[p] = "reserve"
    BY <1>5 DEF Insert, SetStatus
  <2>5. PositionOK(p)'
    BY <2>3, <2>4 DEF PositionOK, Converting, BeforeInsert
  <2>6. QED
    BY <2>2, <2>3, <2>4, <2>5 DEF OwnOK, Settled, InFlight, Midway
<1>6. CASE Reserve(p)
  <2>1. status[r] = "PENDING" /\ ledger[r] = {}
    BY <1>6 DEF Reserve, PositionOK
  <2>2. PositionOK(p)'
    BY <1>6, <2>1 DEF Reserve, Append, PositionOK, Converting, BeforeInsert
  <2>3. QED
    BY <1>6, <2>1, <2>2 DEF Reserve, Append, OwnOK, Settled, InFlight
<1>7. CASE CreateApproval(p)
  <2>1. Settled(r) /\ status[r] = "PENDING"
    BY <1>0, <1>7 DEF CreateApproval, Midway, PositionOK
  <2>2. PositionOK(p)'
    BY <1>7 DEF CreateApproval, PositionOK, Converting, BeforeInsert
  <2>3. QED
    BY <1>7, <2>1, <2>2 DEF CreateApproval, OwnOK, Settled, InFlight
<1>8. CASE Decide(p)
  <2>1. /\ Settled(r) /\ decision[r] = "PENDING" /\ status[r] \in {"PENDING", "CANCELLED"}
        /\ op[p] = "approve" => status[r] = "PENDING"
    BY <1>0, <1>8 DEF Decide, Midway, PositionOK, SerialOK
  <2>2. /\ decision'[r] # "PENDING" /\ UNCHANGED <<status, ledger, op, req, cause>>
        /\ \/ op[p] = "approve" /\ pc'[p] = "refresh"
           \/ op[p] # "approve" /\ pc'[p] = "close" /\ cause[p] = "reject"
    BY <1>8 DEF Decide, HandlerOK
  <2>3. status[r] = "CANCELLED" => ledger[r] = {"reservation", "cancel"}
    BY <2>1 DEF Settled, InFlight
  <2>4. PositionOK(p)'
    BY <2>1, <2>2, <2>3 DEF PositionOK, Converting, BeforeInsert, InFlight
  <2>5. QED
    BY <2>1, <2>2, <2>4 DEF OwnOK, Settled
<1>9. CASE PostAccepted(p)
  <2>1. /\ Settled(r) /\ decision[r] # "PENDING"
        /\ status[r] \in InFlight
    BY <1>0, <1>9 DEF PostAccepted, Midway, PositionOK, InFlight
  <2>2. ledger[r] = {"reservation"}
    BY <2>1 DEF Settled, InFlight
  <2>3. /\ pc'[p] = "release" /\ cause'[p] = "approve" /\ UNCHANGED <<status, ledger, decision, req>>
    BY <1>9 DEF PostAccepted
  <2>4. PositionOK(p)'
    BY <2>1, <2>2, <2>3 DEF PositionOK, Converting, BeforeInsert, Refusals
  <2>5. QED
    BY <2>1, <2>3, <2>4, OwnPosted
<1>10. CASE PostRefused(p)
  <2>1. Settled(r) /\ Same(r) /\ decision[r] # "PENDING" /\ status[r] \in InFlight
    BY <1>0, <1>10 DEF PostRefused, Midway, PositionOK, InFlight, Same
  <2>2. CASE Finish(p)
    BY <2>1, <2>2, OwnFinish
  <2>3. CASE ~Finish(p)
    <3>1. PositionOK(p)'
      BY <1>10, <2>1, <2>3 DEF PostRefused, PositionOK, Converting, BeforeInsert
    <3>2. QED
      BY <2>1, <3>1, OwnSame
  <2>4. QED
    BY <2>2, <2>3
<1>11. CASE PostFailed(p)
  <2>1. /\ Settled(r) /\ decision[r] # "PENDING"
        /\ UNCHANGED <<status, ledger, decision>>
    BY <1>0, <1>11 DEF PostFailed, Midway, PositionOK
  <2>2. CASE op[p] = "retry" /\ pc' = [pc EXCEPT ![p] = "count"] /\ UNCHANGED call
    <3>1. PositionOK(p)'
      BY <2>2 DEF PositionOK, Converting, BeforeInsert
    <3>2. QED
      BY <2>1, <3>1, OwnPosted
  <2>3. CASE Finish(p)
    <3>1. pc'[p] = "idle"
      BY <2>3 DEF Finish
    <3>2. PositionOK(p)'
      BY <3>1 DEF PositionOK, Converting, BeforeInsert
    <3>3. QED
      BY <2>1, <3>2, OwnPosted
  <2>4. CASE op[p] = "approve" /\ pc' = [pc EXCEPT ![p] = "defer"] /\ UNCHANGED call
    <3>1. status[r] = "PENDING"
      BY <1>11, <2>4 DEF PostFailed, PositionOK
    <3>2. PositionOK(p)'
      BY <2>1, <2>4, <3>1 DEF PositionOK, Converting, BeforeInsert
    <3>3. QED
      BY <2>1, <3>2, OwnPosted
  <2>5. QED
    BY <1>11, <2>2, <2>3, <2>4 DEF PostFailed
<1>12. CASE Release(p)
  <2>1. /\ cause[p] \in Causes
        /\ \/ ledger[r] = {"reservation"}
           \/ cause[p] = "reject" /\ ledger[r] = {"reservation", "cancel"}
        /\ cause[p] = "cancel" => status[r] = "CANCELLED"
        /\ cause[p] \in Refusals => status[r] = "REJECTED"
        /\ cause[p] = "approve" => decision[r] # "PENDING" /\ status[r] \in InFlight
    BY <1>12 DEF Release, PositionOK, HandlerOK, Converting
  <2>2. /\ \/ ledger'[r] = {"reservation", cause[p]}
           \/ cause[p] = "reject" /\ ledger'[r] = {"reservation", "cancel", "reject"}
        /\ UNCHANGED <<status, decision, req, cause, op>>
        /\ pc'[p] = CASE cause[p] = "approve" -> "usage"
                      [] cause[p] \in {"reject", "cancel"} -> "audit"
                      [] OTHER -> "notify"
    BY <1>12, <2>1 DEF Release, Append
  <2>3. PositionOK(p)'
    BY <2>1, <2>2 DEF PositionOK, Converting, BeforeInsert
  <2>4. CASE cause[p] = "approve"
    BY <2>1, <2>2, <2>3, <2>4 DEF OwnOK, Midway, InFlight, SerialOK
  <2>5. CASE cause[p] = "cancel"
    BY <2>1, <2>2, <2>3, <2>5 DEF OwnOK, Settled, InFlight
  <2>6. CASE cause[p] \in Refusals
    BY <2>1, <2>2, <2>3, <2>6 DEF OwnOK, Settled, InFlight, SerialOK
  <2>7. QED
    BY <2>1, <2>4, <2>5, <2>6 DEF Causes, Refusals
<1>13. CASE ConfirmUsage(p)
  <2>1. /\ ledger[r] = {"reservation", "approve"} /\ cause[p] = "approve"
        /\ decision[r] # "PENDING" /\ status[r] \in InFlight
    BY <1>13 DEF ConfirmUsage, PositionOK, HandlerOK, Converting
  <2>2. /\ ledger'[r] = {"reservation", "approve", "usage"} /\ pc'[p] = "approved"
        /\ UNCHANGED <<status, decision, req, cause, op>>
    BY <1>13, <2>1 DEF ConfirmUsage, Append
  <2>3. PositionOK(p)'
    BY <2>1, <2>2 DEF PositionOK, Converting, BeforeInsert
  <2>4. QED
    BY <2>1, <2>2, <2>3 DEF OwnOK, Midway, SerialOK
<1>14. CASE SetApproved(p)
  <2>1. ledger[r] = {"reservation", "approve", "usage"} /\ decision[r] # "PENDING"
    BY <1>14 DEF SetApproved, PositionOK, Converting
  <2>2. /\ status'[r] = "APPROVED" /\ pc'[p] \in {"audit", "notify"}
        /\ UNCHANGED <<ledger, decision>>
    BY <1>14 DEF SetApproved, SetStatus
  <2>3. PositionOK(p)'
    BY <2>2 DEF PositionOK, Converting, BeforeInsert
  <2>4. QED
    BY <2>1, <2>2, <2>3 DEF OwnOK, Settled, InFlight
<1>15. CASE Defer(p)
  <2>1. Settled(r) /\ status[r] = "PENDING" /\ decision[r] # "PENDING"
    BY <1>0, <1>15 DEF Defer, PositionOK, Midway
  <2>2. /\ status'[r] = "APPROVED_PENDING_HCM_UPDATE" /\ pc'[p] = "audit"
        /\ UNCHANGED <<ledger, decision>>
    BY <1>15 DEF Defer, SetStatus
  <2>3. PositionOK(p)'
    BY <2>2 DEF PositionOK, Converting, BeforeInsert
  <2>4. QED
    BY <2>1, <2>2, <2>3 DEF OwnOK, Settled, InFlight
<1>16. CASE Close(p)
  <2>1. /\ Settled(r) /\ decision[r] # "PENDING" /\ cause[p] \in Refusals
        /\ \/ status[r] \in InFlight
           \/ cause[p] = "reject" /\ ledger[r] = {"reservation", "cancel"}
    BY <1>0, <1>16 DEF Close, PositionOK, Midway, HandlerOK, Refusals
  <2>2. \/ ledger[r] = {"reservation"}
        \/ cause[p] = "reject" /\ ledger[r] = {"reservation", "cancel"}
    BY <2>1 DEF Settled, InFlight
  <2>3. /\ status'[r] = "REJECTED" /\ pc'[p] = "release"
        /\ UNCHANGED <<ledger, decision, req, cause, op>>
    BY <1>16 DEF Close, SetStatus
  <2>4. PositionOK(p)'
    BY <2>1, <2>2, <2>3 DEF PositionOK, Converting, BeforeInsert, Refusals
  <2>5. QED
    BY <2>1, <2>3, <2>4 DEF OwnOK, Midway
<1>17. CASE Correct(p)
  <2>1. Settled(r) /\ Same(r) /\ status[r] = "APPROVED"
    BY <1>0, <1>17 DEF Correct, Midway, PositionOK, Same
  <2>2. CASE Finish(p)
    BY <2>1, <2>2, OwnFinish
  <2>3. CASE ~Finish(p)
    <3>1. PositionOK(p)'
      BY <1>17, <2>1, <2>3 DEF Correct, PositionOK, Converting, BeforeInsert
    <3>2. QED
      BY <2>1, <3>1, OwnSame
  <2>4. QED
    BY <2>2, <2>3
<1>18. CASE Reverse(p)
  <2>1. Settled(r) /\ status[r] = "APPROVED" /\ cause[p] = "none"
    BY <1>0, <1>18 DEF Reverse, Midway, PositionOK, HandlerOK
  <2>2. ledger[r] = {"reservation", "approve", "usage"}
    BY <2>1 DEF Settled, InFlight
  <2>3. /\ ledger'[r] = {"reservation", "approve", "usage", "reversal"} /\ pc'[p] = "cancelled"
        /\ UNCHANGED <<status, decision, req, cause, op>>
    BY <1>18, <2>2 DEF Reverse, Append
  <2>4. PositionOK(p)'
    BY <2>1, <2>3 DEF PositionOK, Converting, BeforeInsert
  <2>5. QED
    BY <2>1, <2>3, <2>4 DEF OwnOK, Midway, SerialOK
<1>19. CASE SetCancelled(p)
  <2>1. /\ status'[r] = "CANCELLED" /\ UNCHANGED <<ledger, decision, req, cause, op>>
        /\ pc'[p] = IF cause[p] = "cancel" THEN "release" ELSE "audit"
    BY <1>19 DEF SetCancelled, SetStatus
  <2>2. CASE cause[p] = "cancel"
    <3>1. ledger[r] = {"reservation"}
      BY <1>0, <1>19, <2>2 DEF SetCancelled, PositionOK, Midway, Settled, InFlight
    <3>2. PositionOK(p)'
      BY <2>1, <2>2, <3>1 DEF PositionOK, Converting, BeforeInsert, Refusals
    <3>3. QED
      BY <2>1, <2>2, <3>2 DEF OwnOK, Midway
  <2>3. CASE cause[p] # "cancel"
    <3>1. /\ ledger[r] \in {{}, {"reservation", "approve", "usage", "reversal"}}
          /\ decision[r] # "PENDING"
      <4>1. CASE status[r] = "APPROVED"
        BY <1>19, <2>3, <4>1 DEF SetCancelled, PositionOK, InFlight, SerialOK
      <4>2. CASE status[r] # "APPROVED"
        BY <1>0, <1>19, <2>3, <4>2 DEF SetCancelled, PositionOK, Midway, Settled, InFlight, SerialOK
      <4>3. QED
        BY <4>1, <4>2
    <3>2. PositionOK(p)'
      BY <2>1, <2>3 DEF PositionOK, Converting, BeforeInsert
    <3>3. QED
      BY <2>1, <3>1, <3>2 DEF OwnOK, Settled, InFlight
  <2>4. QED
    BY <2>2, <2>3
<1>20. CASE Audit(p)
  <2>1. Settled(r) /\ Same(r)
    BY <1>0, <1>20 DEF Audit, Midway, Same
  <2>2. CASE Finish(p)
    BY <2>1, <2>2, OwnFinish
  <2>3. CASE ~Finish(p)
    <3>1. PositionOK(p)'
      BY <1>20, <2>3 DEF Audit, PositionOK, Converting, BeforeInsert
    <3>2. QED
      BY <2>1, <3>1, OwnSame
  <2>4. QED
    BY <2>2, <2>3
<1>21. CASE Notify(p)
  <2>1. Settled(r) /\ Same(r) /\ UNCHANGED <<status, ledger, decision>>
    BY <1>0, <1>21 DEF Notify, Midway, Same
  <2>2. CASE Finish(p)
    BY <2>1, <2>2, OwnFinish
  <2>3. CASE op[p] = "retry" /\ \E l \in {"loop", "sweep"} : Continue(p, l)
    BY <2>1, <2>3, OwnContinue
  <2>4. CASE op[p] = "create"
    <3>1. PositionOK(p)'
      BY <1>21, <2>4 DEF Notify, PositionOK, Converting, BeforeInsert
    <3>2. QED
      BY <2>1, <3>1, OwnSame
  <2>5. QED
    BY <1>21, <2>2, <2>3, <2>4 DEF Notify
<1>22. CASE CountAttempt(p)
  <2>1. Settled(r) /\ op[p] = "retry" /\ Continue(p, "loop") /\ UNCHANGED <<status, ledger, decision>>
    BY <1>0, <1>22 DEF CountAttempt, Midway, PositionOK
  <2>2. QED
    BY <2>1, OwnContinue
<1>23. QED
  BY <1>a, <1>1, <1>2, <1>3, <1>4, <1>5, <1>6, <1>7, <1>8, <1>9, <1>10, <1>11, <1>12, <1>13, <1>14,
     <1>15, <1>16, <1>17, <1>18, <1>19, <1>20, <1>21, <1>22
  DEF Step, AtWork, NextPending, Sweep, NextExpired, EndRetry


(* A query adds to the job's list requests no handler holds.               *)
LEMMA SerialQuery ==
  ASSUME TypeOK, SerialInv, NEW p \in Procs, req[p] \notin Requests, Others(p), req'[p] = req[p],
         UNCHANGED Store, NEW found \in SUBSET Requests, todo'[p] = found,
         \A r \in found : ~Busy(r) /\ status[r] = "APPROVED_PENDING_HCM_UPDATE",
         NEW r \in Requests
  PROVE  SerialOK(r)'
<1>1. Same(r)
  BY DEF Same, Store, hcm
<1>2. SerialOK(r)
  BY DEF SerialInv
<1>3. CASE r \notin found
  <2>1. ASSUME NEW q \in Procs PROVE Passive(q, r)
    <3>1. CASE q = p
      BY <1>3, <3>1 DEF Passive, Holds
    <3>2. CASE q # p
      <4>1. UNCHANGED <<pc[q], req[q], cause[q], todo[q]>>
        BY <3>2 DEF Others
      <4>2. QED
        BY <1>1, <1>2, <4>1 DEF Passive, Holds, Midway, SerialOK, Same
    <3>3. QED
      BY <3>1, <3>2
  <2>2. QED
    BY <1>1, <1>2, <2>1, SerialQuiet
<1>4. CASE r \in found
  <2>1. \A q \in Procs : req[q] # r /\ r \notin todo[q]
    BY <1>4 DEF Busy
  <2>2. \A q \in Procs : req'[q] # r /\ (r \in todo'[q] => q = p)
    BY <2>1 DEF Others
  <2>3. status'[r] = "APPROVED_PENDING_HCM_UPDATE"
    BY <1>1, <1>4 DEF Same
  <2>4. Settled(r)'
    BY <1>1, <1>2, <2>1 DEF SerialOK, Settled, Same
  <2>5. QED
    BY <1>1, <1>2, <2>2, <2>3, <2>4 DEF SerialOK, Holds, Same
<1>5. QED
  BY <1>3, <1>4

LEMMA SerialStep ==
  ASSUME TypeOK, HandlerInv, NewcomerInv, SerialInv, Isolated, NEW p \in Procs, Step(p)
  PROVE  SerialInv'
<1>1. HandlerOK(p) /\ CreatorOK(p) /\ PositionOK(p)
  BY DEF HandlerInv, NewcomerInv, SerialInv
<1>2. Others(p)
  BY StepOthers
<1>3. ASSUME NEW r \in Requests, r = req[p] PROVE SerialOK(r)' /\ PositionOK(p)'
  <2>1. SerialOK(r)
    BY DEF SerialInv
  <2>2. OwnOK(p, r)
    BY <1>1, <1>3, <2>1, OwnStep
  <2>3. AtWork(p)
    BY <1>1, <1>3 DEF HandlerOK
  <2>4. req'[p] \in {r, NoRequest} /\ todo'[p] \subseteq todo[p]
    BY <1>3, <2>3, StepTakes DEF AtWork, Sweep, NextPending, NextExpired, At
  <2>5. QED
    BY <1>2, <1>3, <2>1, <2>2, <2>4, SerialOwn DEF OwnOK
<1>4. ASSUME NEW r \in Requests, r # req[p] PROVE SerialOK(r)'
  <2>1. CASE Sweep(p)
    <3>1. req[p] \notin Requests
      BY <1>1, <2>1 DEF Sweep, At, HandlerOK, AtWork
    <3>2. /\ UNCHANGED Store /\ req'[p] = req[p]
          /\ todo'[p] = {s \in overdue[p] : status[s] = "APPROVED_PENDING_HCM_UPDATE"}
          /\ \A s \in todo'[p] : ~Busy(s) /\ status[s] = "APPROVED_PENDING_HCM_UPDATE"
      BY <2>1 DEF Sweep, Store, rows, hcm, call, TypeOK, LocalTypeOK
    <3>3. todo'[p] \subseteq Requests
      BY <3>2 DEF TypeOK, LocalTypeOK
    <3>4. QED
      BY <1>2, <3>1, <3>2, <3>3, SerialQuery
  <2>2. CASE ~Sweep(p)
    BY <1>4, <2>2, SerialElsewhere DEF SerialInv
  <2>3. QED
    BY <2>1, <2>2
<1>5. PositionOK(p)'
  <2>1. CASE req[p] \in Requests
    BY <1>3, <2>1
  <2>2. CASE req[p] \notin Requests
    <3>1. pc[p] \in {"loop", "sweep", "idle"}
      BY <1>1, <2>2 DEF HandlerOK, AtWork
    <3>2. NextPending(p) \/ Sweep(p) \/ NextExpired(p) \/ EndRetry(p)
      BY <3>1 DEF Step, At, Reserve, CreateApproval, Decide, PostAccepted, PostRefused,
         PostFailed, CountAttempt, Release, ConfirmUsage, SetApproved, Defer, Close, Correct, Reverse,
         SetCancelled, Audit, Notify, ReadLedger, ReadFlight, ReadHeld, Refresh, Insert
    <3>3. op[p] = "retry" \/ EndRetry(p)
      BY <1>1, <3>1, <3>2 DEF PositionOK, NextPending, Sweep, NextExpired, At
    <3>4. CASE EndRetry(p)
      BY <3>4 DEF EndRetry, Finish, Goto, PositionOK, Converting, BeforeInsert, TypeOK, LocalTypeOK
    <3>5. CASE Sweep(p)
      BY <3>3, <3>5 DEF Sweep, EndRetry, Goto, call, PositionOK, Converting, BeforeInsert, TypeOK,
                        LocalTypeOK, At
    <3>6. CASE NextPending(p) \/ NextExpired(p)
      <4>1. PICK r \in todo[p] : req'[p] = r
        BY <3>6 DEF NextPending, NextExpired, TypeOK, LocalTypeOK
      <4>2. r \in Requests /\ status[r] = "APPROVED_PENDING_HCM_UPDATE" /\ decision[r] # "PENDING"
        BY <4>1 DEF SerialInv, SerialOK, TypeOK, LocalTypeOK
      <4>3. /\ UNCHANGED <<status, ledger, decision, op>>
            /\ \/ pc'[p] = "post"
               \/ pc'[p] = "close"
        BY <3>6 DEF NextPending, NextExpired, Goto, rows, TypeOK, LocalTypeOK
      <4>4. op[p] = "retry"
        BY <3>3, <3>6, <4>1 DEF NextPending, NextExpired, EndRetry, At
      <4>5. QED
        BY <4>1, <4>2, <4>3, <4>4 DEF PositionOK, Converting, BeforeInsert, InFlight
    <3>7. QED
      BY <3>2, <3>4, <3>5, <3>6
  <2>3. QED
    BY <2>1, <2>2
<1>6. QED
  BY <1>3, <1>4, <1>5, PositionElsewhere DEF SerialInv

LEMMA SerialBegin ==
  ASSUME TypeOK, HandlerInv, SerialInv, Isolated, NEW p \in Procs, Begin(p)
  PROVE  SerialInv'
<1>1. PICK r \in Requests : \/ BeginCreate(p, r) \/ BeginApprove(p, r)
                            \/ BeginReject(p, r) \/ BeginCancel(p, r)
  BY DEF Begin
<1>2. PICK n \in ApiCalls, e \in Entries \union {NoEntry}, c \in Causes \union {"none"}, l \in Labels :
        Start(p, n, r, e, c, l)
  BY <1>1, BeginStarts
<1>3. Others(p) /\ UNCHANGED Store /\ req'[p] = r /\ todo' = todo
  BY <1>2, BeginOthers DEF Start, Store, rows, hcm, batch, TypeOK, LocalTypeOK
<1>4. ~Busy(r) /\ pc[p] = "idle"
  BY <1>2 DEF Start, At
<1>5. SerialOK(r)
  BY DEF SerialInv
<1>6. PositionOK(p)'
  <2> USE DEF Start, Goto, TypeOK, LocalTypeOK, rows
  <2>1. CASE BeginCreate(p, r)
    BY <2>1 DEF BeginCreate, PositionOK, Converting, BeforeInsert
  <2>2. CASE BeginApprove(p, r)
    BY <2>2 DEF BeginApprove, PositionOK, Converting, BeforeInsert
  <2>3. CASE BeginReject(p, r)
    BY <1>5, <2>3 DEF BeginReject, PositionOK, Converting, BeforeInsert, SerialOK
  <2>4. CASE BeginCancel(p, r)
    BY <2>4 DEF BeginCancel, PositionOK, Converting, BeforeInsert
  <2>5. QED
    BY <1>1, <2>1, <2>2, <2>3, <2>4
<1>7. ASSUME NEW q \in Procs \ {p} PROVE PositionOK(q)'
  <2>1. UNCHANGED <<pc[q], op[q], req[q], ref[q], cause[q], status, decision, hcmRef, ledger>>
    BY <1>3 DEF Others, Store
  <2>2. PositionOK(q)
    BY DEF SerialInv
  <2>3. QED
    BY <2>1, <2>2 DEF PositionOK, Converting
<1>8. ASSUME NEW s \in Requests, s # r PROVE SerialOK(s)'
  <2>1. Same(s) /\ SerialOK(s)
    BY <1>3 DEF Same, Store, hcm, SerialInv
  <2>2. req[p] \notin Requests
    BY <1>4 DEF HandlerInv, HandlerOK, AtWork
  <2>3. ASSUME NEW q \in Procs PROVE Passive(q, s)
    BY <1>3, <1>8, <2>1, <2>2 DEF Passive, Holds, Others, Midway, SerialOK, Same, Store
  <2>4. QED
    BY <2>1, <2>3, SerialQuiet
<1>9. SerialOK(r)'
  <2>1. \A q \in Procs : req[q] # r /\ r \notin todo[q]
    BY <1>4 DEF Busy
  <2>2. \A q \in Procs : r \notin todo'[q] /\ (req'[q] = r => q = p)
    BY <1>3, <2>1 DEF Others
  <2>3. Settled(r)'
    BY <1>3, <1>5, <2>1 DEF SerialOK, Settled, Store
  <2>4. QED
    BY <1>3, <1>5, <2>2, <2>3 DEF SerialOK, Holds, Store
<1>10. QED
  BY <1>6, <1>7, <1>8, <1>9 DEF SerialInv

LEMMA SerialRetry ==
  ASSUME TypeOK, HandlerInv, SerialInv, Isolated, NEW p \in Procs, BeginRetry(p)
  PROVE  SerialInv'
<1>1. req[p] \notin Requests
  BY DEF BeginRetry, At, HandlerInv, HandlerOK, AtWork
<1>2. Others(p) /\ UNCHANGED Store /\ req'[p] = req[p] /\ pc'[p] = "loop" /\ op'[p] = "retry"
  BY DEF BeginRetry, Others, Goto, Store, rows, hcm, TypeOK, LocalTypeOK
<1>3. /\ todo'[p] = {s \in Requests : status[s] = "APPROVED_PENDING_HCM_UPDATE" /\ left[s] > 0}
      /\ \A s \in todo'[p] : ~Busy(s) /\ status[s] = "APPROVED_PENDING_HCM_UPDATE"
  BY DEF BeginRetry, TypeOK, LocalTypeOK
<1>4. \A r \in Requests : SerialOK(r)'
  BY <1>1, <1>2, <1>3, SerialQuery
<1>5. PositionOK(p)'
  BY <1>2 DEF PositionOK, Converting, BeforeInsert
<1>6. ASSUME NEW q \in Procs \ {p} PROVE PositionOK(q)'
  BY <1>2 DEF SerialInv, PositionOK, Converting, Others, Store
<1>7. QED
  BY <1>4, <1>5, <1>6 DEF SerialInv

LEMMA SerialInit == Init => SerialInv
<1> SUFFICES ASSUME Init PROVE SerialInv
  OBVIOUS
<1>1. ASSUME NEW p \in Procs PROVE PositionOK(p)
  BY DEF Init, PositionOK, Converting, BeforeInsert
<1>2. ASSUME NEW r \in Requests PROVE SerialOK(r)
  <2>1. \A p \in Procs : ~Holds(p, r)
    BY RequestsAssumption DEF Init, Holds
  <2>2. status[r] = "absent" /\ ledger[r] = {} /\ decision[r] = "none"
    BY DEF Init
  <2>3. QED
    BY <2>1, <2>2 DEF SerialOK, Settled, Holds, InFlight
<1>3. QED
  BY <1>1, <1>2 DEF SerialInv

LEMMA SerialNext ==
  ASSUME IsolatedCalls, IndInv, SerialInv, [Act]_work
  PROVE  SerialInv'
<1>1. TypeOK /\ HandlerInv /\ NewcomerInv /\ Isolated
  BY DEF IndInv, IsolatedCalls
<1>2. ASSUME NEW p \in Procs, Begin(p) \/ BeginRetry(p) \/ Step(p) PROVE SerialInv'
  BY <1>1, <1>2, SerialBegin, SerialRetry, SerialStep
<1>3. CASE Tick \/ UNCHANGED work
  <2>1. UNCHANGED <<status, decision, hcmRef, ledger, pc, op, req, ref, cause, todo>>
    BY <1>3 DEF Tick, work, rows, locals, call, batch
  <2>2. ASSUME NEW p \in Procs PROVE PositionOK(p)'
    BY <2>1 DEF SerialInv, PositionOK, Converting
  <2>3. ASSUME NEW r \in Requests PROVE SerialOK(r)'
    BY <2>1 DEF SerialInv, SerialOK, Settled, Holds, Midway
  <2>4. QED
    BY <2>2, <2>3 DEF SerialInv
<1>4. ~(faults < MaxFaults)
  BY <1>1 DEF IsolatedCalls, TypeOK, StoreTypeOK
<1>5. QED
  BY <1>2, <1>3, <1>4 DEF Act, QueryFails, Crash


(* The invariants hold with syncs at work on the ledger, too.              *)
LEMMA SerialWithSync ==
  ASSUME IsolatedCalls
  PROVE  SpecWithSync => [](IndInv /\ SerialInv)
<1>1. InitWithSync => IndInv /\ SerialInv
  BY IndInit, SerialInit DEF InitWithSync
<1>2. ASSUME IndInv, SerialInv, [NextWithSync]_<<vars, syncing>> PROVE IndInv' /\ SerialInv'
  <2>1. [Act]_work
    BY <1>2, SyncLeavesWork DEF NextWithSync, Workflow
  <2>2. QED
    BY <1>2, <2>1, IndNext, SerialNext
<1>3. QED
  BY <1>1, <1>2, PTL DEF SpecWithSync

LEMMA SettledNet ==
  ASSUME NEW r \in Requests, Settled(r), ~RejectedLate(r)
  PROVE  Net(r) = IF status[r] \in Active THEN -Dur[r] ELSE 0
<1>1. Dur[r] \in Nat
  BY DurAssumption
<1>2. CASE ledger[r] = {}
  BY <1>1, <1>2 DEF Settled, Net, Released, Amount, Active, InFlight
<1>3. CASE ledger[r] = {"reservation"}
  <2>1. status[r] \in InFlight
    BY <1>3 DEF Settled, InFlight, Refusals
  <2>2. Net(r) = -Dur[r]
    BY <1>1, <1>3 DEF Net, Released, Amount, Debits
  <2>3. QED
    BY <2>1, <2>2 DEF Active, InFlight
<1>4. CASE ledger[r] = {"reservation", "approve", "usage"}
  <2>1. status[r] = "APPROVED"
    BY <1>4 DEF Settled, InFlight, Refusals
  <2>2. Net(r) = -Dur[r]
    BY <1>1, <1>4 DEF Net, Released, Amount, Debits
  <2>3. QED
    BY <2>1, <2>2 DEF Active, InFlight
<1>5. CASE \E c \in Refusals \union {"cancel"} : ledger[r] = {"reservation", c}
  BY <1>1, <1>5 DEF Settled, Net, Released, Amount, Debits, Active, InFlight, Refusals
<1>6. CASE ledger[r] = {"reservation", "approve", "usage", "reversal"}
  <2>1. status[r] \notin InFlight \union {"APPROVED"}
    BY <1>6 DEF Settled, InFlight, Refusals
  <2>2. Net(r) = 0
    BY <1>1, <1>6 DEF Net, Released, Amount, Debits
  <2>3. QED
    BY <2>1, <2>2 DEF Active, InFlight
<1>7. QED
  BY <1>2, <1>3, <1>4, <1>5, <1>6 DEF Settled, Refusals, InFlight, RejectedLate

(* A late rejection leaves a credit.                                       *)
LEMMA LateNet ==
  ASSUME NEW r \in Requests, Settled(r), RejectedLate(r)
  PROVE  status[r] = "REJECTED" /\ Net(r) = Dur[r]
<1>1. ledger[r] = {"reservation", "cancel", "reject"} /\ status[r] = "REJECTED"
  BY DEF Settled, RejectedLate, Refusals, InFlight
<1>2. Dur[r] \in Nat
  BY DurAssumption
<1>3. QED
  BY <1>1, <1>2 DEF Net, Released, Amount, Debits

(* When calls do not overlap, the ledger of a request at rest shows its    *)
(* price while it is in flight or approved, and nothing before and after,  *)
(* whatever HCM has answered on the way and even if the answer was lost,   *)
(* save for a request rejected after it was cancelled.                     *)
THEOREM AccountsAreSettled ==
  ASSUME IsolatedCalls
  PROVE  SpecWithSync => []SettledAccounting
<1>1. SerialInv => SettledAccounting
  BY SettledNet DEF SerialInv, SerialOK, SettledAccounting, Busy
<1>2. QED
  BY <1>1, SerialWithSync, PTL

(* Every status a handler writes is an arrow of the diagram, except that a *)
(* late rejection takes up a request cancelled while it was pending.       *)
LEMMA DiagramStep ==
  ASSUME TypeOK, HandlerInv, NewcomerInv, SerialInv, NEW p \in Procs, Step(p), NEW r \in Requests
  PROVE  \/ status'[r] = status[r]
         \/ <<status[r], status'[r]>> \in Diagram
         \/ /\ r = req[p] /\ Close(p) /\ ledger[r] = {"reservation", "cancel"}
            /\ status[r] = "CANCELLED" /\ status'[r] = "REJECTED"
<1>1. CASE r # req[p]
  BY <1>1, StepReach DEF Same
<1>2. CASE r = req[p]
  <2>1. HandlerOK(p) /\ CreatorOK(p) /\ PositionOK(p)
    BY DEF HandlerInv, NewcomerInv, SerialInv
  <2>2. CASE Insert(p)
    BY <1>2, <2>1, <2>2 DEF Insert, SetStatus, At, CreatorOK, BeforeInsert, Diagram, TypeOK, StoreTypeOK
  <2>3. CASE SetApproved(p)
    BY <1>2, <2>1, <2>3
    DEF SetApproved, SetStatus, At, PositionOK, Converting, InFlight, Diagram, TypeOK, StoreTypeOK
  <2>4. CASE Defer(p)
    BY <1>2, <2>1, <2>4 DEF Defer, SetStatus, At, PositionOK, Diagram, TypeOK, StoreTypeOK
  <2>5. CASE Close(p)
    BY <1>2, <2>1, <2>5
    DEF Close, SetStatus, At, PositionOK, InFlight, Diagram, TypeOK, StoreTypeOK
  <2>6. CASE SetCancelled(p)
    BY <1>2, <2>1, <2>6
    DEF SetCancelled, SetStatus, At, PositionOK, InFlight, Diagram, TypeOK, StoreTypeOK
  <2>7. QED
    BY <2>2, <2>3, <2>4, <2>5, <2>6, Effects
<1>3. QED
  BY <1>1, <1>2

(* When calls do not overlap, a request changes status along the diagram   *)
(* of the documents, or from CANCELLED to REJECTED by a late rejection.    *)
THEOREM LifecycleFollowed ==
  ASSUME IsolatedCalls
  PROVE  SpecWithSync => LifecycleSaveLateRejection
<1> DEFINE Moves == Along(Diagram \union {<<"CANCELLED", "REJECTED">>})
<1>1. ASSUME IndInv, SerialInv, [NextWithSync]_<<vars, syncing>> PROVE [Moves]_status
  <2>1. [Act]_work
    BY <1>1, SyncLeavesWork DEF NextWithSync, Workflow
  <2>2. CASE UNCHANGED Store
    BY <2>2 DEF Store
  <2>3. ASSUME NEW p \in Procs, Step(p) PROVE Moves
    BY <1>1, <2>3, DiagramStep DEF IndInv, Along
  <2>4. QED
    BY <2>1, <2>2, <2>3, OnlyStepWrites
<1>2. QED
  BY <1>1, SerialWithSync, PTL DEF SpecWithSync, LifecycleSaveLateRejection

--------------------------------------------------------------------------------
(* The entries HCM has of a request.                                       *)
Calm(q, r) == /\ (req'[q] = r /\ Converting(q)') <=> (req[q] = r /\ Converting(q))
              /\ (req'[q] = r /\ Undoing(q)') <=> (req[q] = r /\ Undoing(q))

LEMMA EntriesQuiet ==
  ASSUME NEW r \in Requests, EntriesOK(r), status'[r] = status[r], posted'[r] = posted[r],
         posted'[r] \intersect deleted' = posted[r] \intersect deleted,
         hcmRef'[r] = hcmRef[r], ledger[r] \subseteq ledger'[r],
         \A q \in Procs : Calm(q, r)
  PROVE  EntriesOK(r)'
<1>1. /\ Whole(r)' <=> Whole(r)
      /\ Cut(r)' <=> Cut(r)
  BY DEF Whole, Cut
<1>2. \A q \in Procs : req'[q] = r /\ Converting(q)' => Whole(r)'
  BY <1>1 DEF Calm, EntriesOK
<1>3. \A q \in Procs : req'[q] = r /\ Undoing(q)' => Cut(r)'
  BY <1>1 DEF Calm, EntriesOK
<1>4. ASSUME \A q \in Procs : req'[q] = r => ~Converting(q)' /\ ~Undoing(q)'
      PROVE  Kept(r)'
  BY <1>1, <1>4 DEF Calm, EntriesOK, Kept
<1>5. QED
  BY <1>2, <1>3, <1>4 DEF EntriesOK

(* What a step adds to the entries, and what it deletes.                   *)
LEMMA StepEntries ==
  ASSUME TypeOK, HandlerInv, NEW p \in Procs, Step(p)
  PROVE  /\ UNCHANGED deleted
            \/ /\ Correct(p) /\ req[p] \in Requests /\ ref[p] \in posted[req[p]]
               /\ deleted' = deleted \union {ref[p]} /\ UNCHANGED posted
         /\ UNCHANGED posted
            \/ /\ PostAccepted(p) \/ (PostFailed(p) /\ req[p] \in LostReplies)
               /\ req[p] \in Requests /\ UNCHANGED deleted
               /\ \E new \in SUBSET Free : Post(p, new)
<1>1. HandlerOK(p)
  BY DEF HandlerInv
<1>2. CASE Correct(p)
  BY <1>1, <1>2 DEF Correct, HandlerOK, AtWork, At
<1>3. CASE PostAccepted(p)
  <2>1. \E new \in SUBSET Free : Post(p, new)
    BY <1>3 DEF PostAccepted
  <2>2. UNCHANGED deleted /\ pc[p] = "post"
    BY <1>3 DEF PostAccepted, At
  <2>3. QED
    BY <1>1, <1>3, <2>1, <2>2 DEF HandlerOK, AtWork
<1>4. CASE PostFailed(p)
  BY <1>1, <1>4 DEF PostFailed, HandlerOK, AtWork, At
<1>5. CASE ~Correct(p) /\ ~PostAccepted(p) /\ ~PostFailed(p)
  BY <1>5, Effects
<1>6. QED
  BY <1>2, <1>3, <1>4, <1>5

LEMMA ApartStep ==
  ASSUME TypeOK, HandlerInv, Apart, NEW p \in Procs, Step(p)
  PROVE  /\ Apart'
         /\ \A r \in Requests \ {req[p]} : posted'[r] \intersect deleted' = posted[r] \intersect deleted
<1>1. CASE UNCHANGED <<posted, deleted>>
  BY <1>1 DEF Apart
<1>2. CASE /\ req[p] \in Requests /\ ref[p] \in posted[req[p]]
           /\ deleted' = deleted \union {ref[p]} /\ UNCHANGED posted
  BY <1>2 DEF Apart
<1>3. CASE req[p] \in Requests /\ UNCHANGED deleted /\ \E new \in SUBSET Free : Post(p, new)
  <2>1. PICK new \in SUBSET Free : Post(p, new)
    BY <1>3
  <2>2. /\ posted'[req[p]] = posted[req[p]] \union new
        /\ \A r \in Requests \ {req[p]} : posted'[r] = posted[r]
    BY <1>3, <2>1 DEF Post, TypeOK, StoreTypeOK
  <2>3. \A r \in Requests : new \intersect posted[r] = {}
    BY <2>1 DEF Free
  <2>4. \A e \in deleted' : \E r \in Requests : e \in posted'[r]
    BY <1>3, <2>2 DEF Apart
  <2>5. QED
    BY <1>3, <2>2, <2>3, <2>4 DEF Apart
<1>4. QED
  BY <1>1, <1>2, <1>3, StepEntries


LEMMA OwnEntries ==
  ASSUME NEW p \in Procs, NEW r \in Requests, r = req[p], SerialOK(r), Others(p),
         req'[p] = r /\ Converting(p)' => Whole(r)',
         req'[p] = r /\ Undoing(p)' => Cut(r)',
         (req'[p] = r => ~Converting(p)' /\ ~Undoing(p)') => Kept(r)'
  PROVE  EntriesOK(r)'
<1>1. \A q \in Procs \ {p} : req'[q] # r
  BY DEF SerialOK, Holds, Others
<1>2. QED
  BY <1>1 DEF EntriesOK

LEMMA EntriesOwnStep ==
  ASSUME TypeOK, HandlerInv, NewcomerInv, SerialInv, Apart, NEW p \in Procs, Step(p),
         NEW r \in Requests \ LostReplies, r = req[p], EntriesOK(r)
  PROVE  EntriesOK(r)'
<1> USE DEF TypeOK, StoreTypeOK, LocalTypeOK, At, Goto, rows, hcm, call
<1>a. HandlerOK(p) /\ CreatorOK(p) /\ PositionOK(p) /\ SerialOK(r) /\ Others(p)
  BY StepOthers DEF HandlerInv, NewcomerInv, SerialInv
<1>b. AtWork(p)
  BY <1>a DEF HandlerOK
<1>c. \A q \in Procs : req[q] = r => q = p
  BY <1>a DEF SerialOK, Holds
<1>d. ~Converting(p) /\ ~Undoing(p) => Kept(r)
  BY <1>c DEF EntriesOK
<1>e. ASSUME UNCHANGED <<status, posted, deleted>>, Calm(p, r), ~SetApproved(p) PROVE EntriesOK(r)'
  <2>1. ASSUME NEW q \in Procs \ {p} PROVE Calm(q, r)
    BY <1>a, <1>c DEF Calm, Others
  <2>2. hcmRef'[r] = hcmRef[r] /\ ledger[r] \subseteq ledger'[r]
    BY <1>e, HcmRefKept, StepMonotone DEF Monotone
  <2>3. QED
    BY <1>e, <2>1, <2>2, EntriesQuiet
<1>f. ASSUME UNCHANGED <<status, posted, deleted>>, ~Converting(p), ~Undoing(p),
             pc'[p] \notin {"release", "usage", "approved", "reverse", "cancelled"}
      PROVE  EntriesOK(r)'
  BY <1>e, <1>f DEF Calm, Converting, Undoing, SetApproved
<1>1. CASE pc[p] \in BeforeInsert /\ ~Insert(p)
  <2>1. pc[p] # "insert" /\ ~Converting(p) /\ ~Undoing(p)
    BY <1>1, StepAt DEF BeforeInsert, Converting, Undoing, ReadLedger, ReadFlight, ReadHeld, Refresh, Judge
  <2>2. UNCHANGED <<status, posted, deleted>>
    BY <1>1, StepAt DEF ReadLedger, ReadFlight, ReadHeld, Refresh, Judge
  <2>3. pc'[p] \in BeforeInsert \union {"post", "idle"}
    BY <1>1, StepAt DEF ReadLedger, ReadFlight, ReadHeld, Refresh, Judge, Finish, BeforeInsert
  <2>4. QED
    BY <1>f, <2>1, <2>2, <2>3 DEF BeforeInsert
<1>2. CASE Insert(p)
  <2>1. status[r] = "absent" /\ ~Converting(p) /\ ~Undoing(p)
    BY <1>a, <1>2 DEF Insert, CreatorOK, BeforeInsert, Converting, Undoing
  <2>2. posted[r] = {}
    BY <1>d, <2>1 DEF Kept
  <2>3. status'[r] \in {"DRAFT", "PENDING"} /\ posted'[r] = {} /\ pc'[p] \in {"audit", "reserve"}
    BY <1>2, <2>2 DEF Insert, SetStatus
  <2>4. QED
    BY <1>a, <2>3, OwnEntries DEF Kept, Converting, Undoing
<1>3. CASE Reserve(p) \/ CreateApproval(p) \/ Decide(p)
  <2>1. /\ UNCHANGED <<status, posted, deleted>> /\ pc[p] \in {"reserve", "chain", "decide"}
        /\ pc'[p] \in {"chain", "notify", "refresh", "close"}
    BY <1>3 DEF Reserve, CreateApproval, Decide
  <2>2. QED
    BY <1>f, <2>1 DEF Converting, Undoing
<1>4. CASE PostAccepted(p)
  <2>1. /\ ~Converting(p) /\ ~Undoing(p) /\ status[r] \in InFlight /\ status' = status
        /\ deleted' = deleted /\ pc'[p] = "release"
    BY <1>a, <1>4 DEF PostAccepted, PositionOK, InFlight, Converting, Undoing
  <2>2. posted[r] = {}
    BY <1>d, <2>1 DEF Kept, InFlight
  <2>3. PICK new \in SUBSET Free : Post(p, new)
    BY <1>4 DEF PostAccepted
  <2>4. posted'[r] = new /\ Cardinality(new) = Cardinality(Days[r])
    BY <2>2, <2>3 DEF Post
  <2>5. new \intersect deleted = {}
    BY <2>3 DEF Free, Apart
  <2>6. Whole(r)' /\ ~Undoing(p)'
    BY <2>1, <2>4, <2>5 DEF Whole, Undoing
  <2>7. req'[p] = r /\ Converting(p)'
    BY <1>4, <2>1 DEF PostAccepted, Converting
  <2>8. QED
    BY <1>a, <2>6, <2>7, OwnEntries
<1>5. CASE PostRefused(p) \/ PostFailed(p)
  <2>1. UNCHANGED <<status, posted, deleted>> /\ pc[p] = "post"
    BY <1>5 DEF PostRefused, PostFailed
  <2>2. pc'[p] \in {"idle", "close", "count", "defer"}
    BY <1>5 DEF PostRefused, PostFailed, Finish
  <2>3. QED
    BY <1>f, <2>1, <2>2 DEF Converting, Undoing
<1>6. CASE Release(p)
  <2>1. UNCHANGED <<status, posted, deleted, req, cause>> /\ ~Undoing(p) /\ cause[p] \in Causes
    BY <1>a, <1>6 DEF Release, Undoing, HandlerOK
  <2>2. CASE cause[p] = "approve"
    <3>1. pc[p] = "release" /\ pc'[p] = "usage"
      BY <1>6, <2>2 DEF Release
    <3>2. QED
      BY <1>e, <2>1, <2>2, <3>1 DEF Calm, Converting, Undoing, SetApproved
  <2>3. CASE cause[p] # "approve"
    <3>1. pc[p] = "release" /\ pc'[p] \in {"audit", "notify"}
      BY <1>6, <2>1, <2>3 DEF Release
    <3>2. QED
      BY <1>f, <2>1, <2>3, <3>1 DEF Converting
  <2>4. QED
    BY <2>2, <2>3
<1>7. CASE ConfirmUsage(p)
  BY <1>e, <1>7 DEF ConfirmUsage, Calm, Converting, Undoing, SetApproved
<1>8. CASE SetApproved(p)
  <2>1. Whole(r)
    BY <1>8 DEF SetApproved, Converting, EntriesOK
  <2>2. /\ status'[r] = "APPROVED" /\ UNCHANGED <<posted, deleted>>
        /\ pc'[p] \in {"audit", "notify"}
    BY <1>8 DEF SetApproved, SetStatus
  <2>3. Whole(r)'
    BY <2>1, <2>2 DEF Whole
  <2>4. QED
    BY <1>a, <2>2, <2>3, OwnEntries DEF Kept, Converting, Undoing
<1>9. CASE Defer(p) \/ Close(p)
  <2>1. /\ ~Converting(p) /\ ~Undoing(p)
        /\ \/ status[r] \in InFlight
           \/ status[r] = "CANCELLED" /\ ledger[r] = {"reservation", "cancel"}
        /\ pc[p] = "close" => cause[p] # "approve"
    BY <1>a, <1>9 DEF Defer, Close, PositionOK, HandlerOK, InFlight, Converting, Undoing
  <2>2. posted[r] = {}
    BY <1>d, <2>1 DEF Kept, InFlight
  <2>3. /\ status'[r] \in {"APPROVED_PENDING_HCM_UPDATE", "REJECTED"} /\ posted'[r] = {}
        /\ pc'[p] = "audit" \/ (pc'[p] = "release" /\ cause'[p] # "approve")
    BY <1>9, <2>1, <2>2 DEF Defer, Close, SetStatus
  <2>4. QED
    BY <1>a, <2>3, OwnEntries DEF Kept, Converting, Undoing
<1>10. CASE Correct(p)
  <2>1. /\ ~Converting(p) /\ ~Undoing(p) /\ status[r] = "APPROVED"
        /\ ref[p] \in posted[r] /\ ref[p] = hcmRef[r]
    BY <1>a, <1>10 DEF Correct, PositionOK, HandlerOK, Converting, Undoing
  <2>2. Whole(r)
    BY <1>d, <2>1 DEF Kept
  <2>3. CASE Finish(p) /\ UNCHANGED deleted
    BY <1>f, <1>10, <2>1, <2>3 DEF Correct, Finish
  <2>4. CASE ~(Finish(p) /\ UNCHANGED deleted)
    <3>1. /\ deleted' = deleted \union {ref[p]} /\ pc'[p] = "reverse"
          /\ UNCHANGED <<status, posted, req, hcmRef>>
      BY <1>10, <2>4 DEF Correct
    <3>2. posted'[r] \intersect deleted' = {ref[p]}
      BY <2>1, <2>2, <3>1 DEF Whole
    <3>3. Cut(r)'
      BY <2>1, <2>2, <3>1, <3>2 DEF Cut, Whole
    <3>4. QED
      BY <1>a, <3>1, <3>3, OwnEntries DEF Converting, Undoing
  <2>5. QED
    BY <2>3, <2>4
<1>11. CASE Reverse(p)
  <2>1. Cut(r) /\ status[r] = "APPROVED"
    BY <1>a, <1>11 DEF Reverse, PositionOK, Undoing, EntriesOK
  <2>2. UNCHANGED <<status, posted, deleted, req>> /\ pc[p] = "reverse" /\ pc'[p] = "cancelled"
    BY <1>11 DEF Reverse
  <2>3. QED
    BY <1>e, <2>1, <2>2 DEF Calm, Converting, Undoing, SetApproved
<1>12. CASE SetCancelled(p)
  <2>1. /\ UNCHANGED <<posted, deleted, cause, req, hcmRef, ledger>> /\ status'[r] = "CANCELLED"
        /\ pc'[p] = "audit" \/ (pc'[p] = "release" /\ cause'[p] = "cancel")
    BY <1>12 DEF SetCancelled, SetStatus
  <2>2. ~Converting(p)' /\ ~Undoing(p)'
    BY <2>1 DEF Converting, Undoing
  <2>3. posted[r] = {} \/ (Cut(r) /\ "usage" \in ledger[r])
    <3>1. CASE status[r] = "APPROVED"
      BY <1>a, <1>12, <3>1 DEF SetCancelled, Undoing, EntriesOK, PositionOK, InFlight
    <3>2. CASE status[r] # "APPROVED"
      BY <1>d, <1>12, <3>2 DEF SetCancelled, Undoing, Converting, Kept
    <3>3. QED
      BY <3>1, <3>2
  <2>4. posted'[r] = {} \/ (Cut(r)' /\ "usage" \in ledger'[r])
    BY <2>1, <2>3 DEF Cut
  <2>5. QED
    BY <1>a, <2>1, <2>2, <2>4, OwnEntries DEF Kept
<1>13. CASE Audit(p) \/ Notify(p)
  <2>1. UNCHANGED <<status, posted, deleted>> /\ pc[p] \in {"audit", "notify"}
    BY <1>13 DEF Audit, Notify
  <2>2. pc'[p] \in {"idle", "notify", "audit", "loop", "sweep"}
    BY <1>13 DEF Audit, Notify, Finish, Continue
  <2>3. QED
    BY <1>f, <2>1, <2>2 DEF Converting, Undoing
<1>14. CASE CountAttempt(p)
  BY <1>f, <1>14 DEF CountAttempt, Continue, Converting, Undoing
<1>15. QED
  BY <1>b, <1>1, <1>2, <1>3, <1>4, <1>5, <1>6, <1>7, <1>8, <1>9, <1>10, <1>11, <1>12, <1>13, <1>14
  DEF Step, AtWork, NextPending, Sweep, NextExpired, EndRetry, BeforeInsert, ReadLedger, ReadFlight,
      ReadHeld, Refresh


LEMMA EntriesStep ==
  ASSUME TypeOK, HandlerInv, NewcomerInv, SerialInv, EntriesInv, NEW p \in Procs, Step(p)
  PROVE  EntriesInv'
<1>1. Apart'
  BY ApartStep DEF EntriesInv
<1>2. ASSUME NEW r \in Requests \ LostReplies, r = req[p] PROVE EntriesOK(r)'
  BY <1>2, EntriesOwnStep DEF EntriesInv
<1>3. ASSUME NEW r \in Requests \ LostReplies, r # req[p] PROVE EntriesOK(r)'
  <2>1. Same(r) /\ Others(p) /\ EntriesOK(r)
    BY <1>3, StepReach, StepOthers DEF EntriesInv
  <2>2. posted'[r] \intersect deleted' = posted[r] \intersect deleted
    BY <1>3, ApartStep DEF EntriesInv
  <2>3. ASSUME NEW q \in Procs \ {p} PROVE Calm(q, r)
    BY <2>1 DEF Calm, Converting, Undoing, Others, Same
  <2>4. Calm(p, r)
    <3>1. CASE req'[p] = r
      <4>1. NextPending(p) \/ NextExpired(p)
        BY <1>3, <3>1, StepTakes, RequestsAssumption DEF Sweep, call
      <4>2. pc'[p] = "post" \/ pc'[p] = "close"
        BY <4>1 DEF NextPending, NextExpired, Goto, TypeOK, LocalTypeOK
      <4>3. QED
        BY <1>3, <4>2 DEF Calm, Converting, Undoing
    <3>2. CASE req'[p] # r
      BY <1>3, <3>2 DEF Calm
    <3>3. QED
      BY <3>1, <3>2
  <2>5. hcmRef'[r] = hcmRef[r]
    BY <1>3, HcmRefKept
  <2>6. QED
    BY <2>1, <2>2, <2>3, <2>4, <2>5, EntriesQuiet DEF Same
<1>4. QED
  BY <1>1, <1>2, <1>3 DEF EntriesInv

LEMMA EntriesNext ==
  ASSUME IsolatedCalls, IndInv, SerialInv, EntriesInv, [Act]_work
  PROVE  EntriesInv'
<1>1. TypeOK /\ HandlerInv /\ NewcomerInv /\ Isolated
  BY DEF IndInv, IsolatedCalls
<1>2. ASSUME NEW p \in Procs, Step(p) PROVE EntriesInv'
  BY <1>1, <1>2, EntriesStep
<1>3. ASSUME UNCHANGED <<status, posted, deleted, hcmRef, ledger>>,
             \A r \in Requests, q \in Procs : Calm(q, r)
      PROVE  EntriesInv'
  BY <1>3, EntriesQuiet DEF EntriesInv, Apart
<1>4. ASSUME NEW p \in Procs, Begin(p) PROVE EntriesInv'
  <2>1. PICK r \in Requests : \/ BeginCreate(p, r) \/ BeginApprove(p, r)
                              \/ BeginReject(p, r) \/ BeginCancel(p, r)
    BY <1>4 DEF Begin
  <2>2. PICK n \in ApiCalls, e \in Entries \union {NoEntry}, c \in Causes \union {"none"}, l \in Labels :
          Start(p, n, r, e, c, l)
    BY <1>1, <2>1, BeginStarts
  <2>3. UNCHANGED <<status, posted, deleted, hcmRef, ledger>> /\ Others(p)
    BY <1>1, <1>4, <2>2, BeginOthers DEF Start, rows, hcm
  <2>4. pc[p] = "idle" /\ ~Converting(p) /\ ~Undoing(p)
    BY <2>2 DEF Start, At, Converting, Undoing
  <2>5. \/ pc'[p] \in {"ledger", "insert", "decide", "correct"}
        \/ pc'[p] = "cancelled" /\ status[r] # "APPROVED"
    BY <1>1, <2>1 DEF BeginCreate, BeginApprove, BeginReject, BeginCancel, Start, Goto, InFlight,
                      TypeOK, LocalTypeOK
  <2>6. req'[p] = r
    BY <1>1, <2>2 DEF Start, TypeOK, LocalTypeOK
  <2>7. ~Converting(p)' /\ ~Undoing(p)'
    BY <2>3, <2>5, <2>6 DEF Converting, Undoing
  <2>8. \A s \in Requests, q \in Procs : Calm(q, s)
    BY <2>3, <2>4, <2>7 DEF Calm, Others, Converting, Undoing
  <2>9. QED
    BY <1>3, <2>3, <2>8
<1>5. ASSUME NEW p \in Procs, BeginRetry(p) PROVE EntriesInv'
  <2>1. /\ UNCHANGED <<status, posted, deleted, hcmRef, ledger, req, cause>>
        /\ pc[p] = "idle" /\ pc'[p] = "loop"
        /\ \A q \in Procs \ {p} : pc'[q] = pc[q]
    BY <1>1, <1>5 DEF BeginRetry, At, Goto, rows, hcm, TypeOK, LocalTypeOK
  <2>2. \A s \in Requests, q \in Procs : Calm(q, s)
    BY <2>1 DEF Calm, Converting, Undoing
  <2>3. QED
    BY <1>3, <2>1, <2>2
<1>6. CASE Tick \/ UNCHANGED work
  <2>1. UNCHANGED <<status, posted, deleted, hcmRef, ledger, pc, req, cause>>
    BY <1>6 DEF Tick, work, rows, hcm, locals, call
  <2>2. \A s \in Requests, q \in Procs : Calm(q, s)
    BY <2>1 DEF Calm, Converting, Undoing
  <2>3. QED
    BY <1>3, <2>1, <2>2
<1>7. ~(faults < MaxFaults)
  BY <1>1 DEF IsolatedCalls, TypeOK, StoreTypeOK
<1>8. QED
  BY <1>2, <1>4, <1>5, <1>6, <1>7 DEF Act, QueryFails, Crash

LEMMA EntriesInit == Init => EntriesInv
  BY DEF Init, EntriesInv, Apart, EntriesOK, Kept, Converting, Undoing

LEMMA EntriesAgree ==
  ASSUME IsFiniteSet(Entries), TypeOK, ApprovedIsBacked, EntriesInv,
         NEW r \in Requests \ LostReplies, ~Busy(r)
  PROVE  LET live == posted[r] \ deleted
         IN  IF status[r] = "APPROVED"
             THEN hcmRef[r] \in live /\ Cardinality(live) = Cardinality(Days[r])
             ELSE /\ hcmRef[r] \notin live
                  /\ \/ live = {}
                     \/ status[r] = "CANCELLED" /\ Cardinality(Days[r]) > 1
<1> DEFINE live == posted[r] \ deleted
<1>1. Kept(r)
  BY DEF EntriesInv, EntriesOK, Busy
<1>2. CASE status[r] = "APPROVED"
  <2>1. Whole(r)
    BY <1>1, <1>2 DEF Kept
  <2>2. live = posted[r]
    BY <2>1 DEF Whole
  <2>3. hcmRef[r] \in live /\ Cardinality(live) = Cardinality(Days[r])
    BY <1>2, <2>1, <2>2 DEF ApprovedIsBacked, Whole
  <2>4. QED
    BY <1>2, <2>3
<1>3. CASE status[r] = "CANCELLED" /\ posted[r] # {}
  <2>1. Cut(r)
    BY <1>1, <1>3 DEF Kept
  <2>2. hcmRef[r] \in posted[r] /\ hcmRef[r] \notin live /\ live = posted[r] \ {hcmRef[r]}
    BY <2>1 DEF Cut
  <2>3. IsFiniteSet(posted[r])
    BY FS_Subset DEF TypeOK, StoreTypeOK
  <2>4. /\ Cardinality(live) = Cardinality(Days[r]) - 1
        /\ IsFiniteSet(live) /\ Cardinality(live) \in Nat /\ Cardinality(Days[r]) \in Nat
    BY <2>1, <2>2, <2>3, FS_RemoveElement, FS_CardinalityType DEF Cut
  <2>5. live = {} \/ Cardinality(live) # 0
    BY <2>4, FS_EmptySet
  <2>6. live = {} \/ Cardinality(Days[r]) > 1
    BY <2>4, <2>5
  <2>7. QED
    BY <1>3, <2>2, <2>6
<1>4. CASE status[r] # "APPROVED" /\ ~(status[r] = "CANCELLED" /\ posted[r] # {})
  <2>1. posted[r] = {}
    BY <1>1, <1>4 DEF Kept
  <2>2. QED
    BY <1>4, <2>1
<1>5. QED
  BY <1>2, <1>3, <1>4

(* When calls do not overlap and no reply was lost, HCM has an entry for   *)
(* each day of an approved request, and none for any other, but for what   *)
(* is left of a cancelled leave of several days.                           *)
THEOREM EntriesMatch ==
  ASSUME IsolatedCalls, IsFiniteSet(Entries)
  PROVE  SpecWithSync => []HcmAgrees
<1>1. InitWithSync => EntriesInv
  BY EntriesInit DEF InitWithSync
<1>2. ASSUME IndInv, SerialInv, EntriesInv, [NextWithSync]_<<vars, syncing>> PROVE EntriesInv'
  BY <1>2, SyncLeavesWork, EntriesNext DEF NextWithSync, Workflow
<1>3. IndInv /\ EntriesInv => HcmAgrees
  BY EntriesAgree DEF IndInv, HcmAgrees
<1>4. QED
  BY <1>1, <1>2, <1>3, SerialWithSync, PTL DEF SpecWithSync

--------------------------------------------------------------------------------
(* Requests on the same days.                                              *)
OneWorker == \A p, q \in Workers : p = q

(* Only API handlers create, and what a creator checked first still holds  *)
(* when it inserts the row.                                                *)
CreatorClear(p) ==
  op[p] \in {"create", "draft"} => p \in Workers /\ (pc[p] \in BeforeInsert => ~Overlaps(req[p]))

OverlapInv == NoActiveOverlap /\ \A p \in Procs : CreatorClear(p)

(* Only an insertion makes a request active.                               *)
LEMMA ActiveStep ==
  ASSUME TypeOK, SerialInv, NEW p \in Procs, Step(p), ~Insert(p), NEW r \in Requests,
         status'[r] \in Active
  PROVE  status[r] \in Active
<1> USE DEF SetStatus, At, Active, InFlight, TypeOK, StoreTypeOK
<1>1. CASE r # req[p]
  BY <1>1, StepReach DEF Same
<1>2. CASE r = req[p]
  <2>1. PositionOK(p)
    BY DEF SerialInv
  <2>2. CASE SetApproved(p)
    BY <1>2, <2>1, <2>2 DEF SetApproved, PositionOK, Converting
  <2>3. CASE Defer(p)
    BY <1>2, <2>1, <2>3 DEF Defer, PositionOK
  <2>4. CASE Close(p)
    BY <1>2, <2>4 DEF Close
  <2>5. CASE SetCancelled(p)
    BY <1>2, <2>5 DEF SetCancelled
  <2>6. QED
    BY <2>2, <2>3, <2>4, <2>5, Effects
<1>3. QED
  BY <1>1, <1>2

(* A handler that is still creating was creating the same request before.  *)
LEMMA StepCreates ==
  ASSUME TypeOK, HandlerInv, NEW p \in Procs, Step(p), op'[p] \in {"create", "draft"},
         pc'[p] \in BeforeInsert, HandlerOK(p)'
  PROVE  op[p] = op'[p] /\ pc[p] \in BeforeInsert /\ req'[p] = req[p]
<1>1. op[p] = op'[p]
  BY StepReach
<1>2. pc[p] \in BeforeInsert
  BY <1>1, StepTo DEF Decide, At, HandlerInv, HandlerOK
<1>3. req'[p] \in Requests
  BY DEF HandlerOK, AtWork, BeforeInsert
<1>4. QED
  BY <1>1, <1>2, <1>3, StepTakes, RequestsAssumption
  DEF Sweep, NextPending, NextExpired, At, BeforeInsert

LEMMA OverlapStep ==
  ASSUME OneWorker, TypeOK, HandlerInv, NewcomerInv, SerialInv, OverlapInv, HandlerInv',
         NEW p \in Procs, Step(p)
  PROVE  OverlapInv'
<1>1. Others(p)
  BY StepOthers
<1>2. op'[p] \in {"create", "draft"} => op[p] = op'[p] /\ p \in Workers
  BY StepReach DEF OverlapInv, CreatorClear
<1>3. CASE ~Insert(p)
  <2>1. \A r \in Requests : status'[r] \in Active => status[r] \in Active
    BY <1>3, ActiveStep
  <2>2. \A r : Overlaps(r)' => Overlaps(r)
    BY <2>1 DEF Overlaps
  <2>3. NoActiveOverlap'
    BY <2>1 DEF OverlapInv, NoActiveOverlap
  <2>4. CreatorClear(p)'
    BY <1>2, <2>2, StepCreates DEF OverlapInv, CreatorClear, HandlerInv
  <2>5. ASSUME NEW q \in Procs \ {p} PROVE CreatorClear(q)'
    BY <1>1, <2>2 DEF OverlapInv, CreatorClear, Others
  <2>6. QED
    BY <2>3, <2>4, <2>5 DEF OverlapInv
<1>4. CASE Insert(p)
  <2>1. op[p] \in {"create", "draft"} /\ pc[p] \in BeforeInsert /\ req[p] \in Requests
    BY <1>4 DEF Insert, At, NewcomerInv, CreatorOK, BeforeInsert, HandlerInv, HandlerOK, AtWork
  <2>2. p \in Workers /\ ~Overlaps(req[p])
    BY <2>1 DEF OverlapInv, CreatorClear
  <2>3. ASSUME NEW r \in Requests, NEW q \in Requests, r # q, status'[r] \in Active, status'[q] \in Active
        PROVE  Days[r] \intersect Days[q] = {}
    <3>1. \A s \in Requests \ {req[p]} : status'[s] = status[s]
      BY StepReach DEF Same
    <3>2. CASE r = req[p]
      BY <2>2, <2>3, <3>1, <3>2 DEF Overlaps
    <3>3. CASE q = req[p]
      BY <2>2, <2>3, <3>1, <3>3 DEF Overlaps
    <3>4. CASE r # req[p] /\ q # req[p]
      BY <2>3, <3>1, <3>4 DEF OverlapInv, NoActiveOverlap
    <3>5. QED
      BY <3>2, <3>3, <3>4
  <2>4. CreatorClear(p)'
    BY <1>2, <1>4 DEF Insert, Goto, CreatorClear, BeforeInsert, TypeOK, LocalTypeOK
  <2>5. ASSUME NEW q \in Procs \ {p} PROVE CreatorClear(q)'
    BY <1>1, <2>2 DEF OneWorker, OverlapInv, CreatorClear, Others
  <2>6. QED
    BY <2>3, <2>4, <2>5 DEF OverlapInv, NoActiveOverlap
<1>5. QED
  BY <1>3, <1>4

LEMMA OverlapNext ==
  ASSUME IsolatedCalls, OneWorker, IndInv, SerialInv, OverlapInv, IndInv', [Act]_work
  PROVE  OverlapInv'
<1>1. TypeOK /\ HandlerInv /\ NewcomerInv /\ HandlerInv'
  BY DEF IndInv
<1>2. ASSUME NEW p \in Procs, Step(p) PROVE OverlapInv'
  BY <1>1, <1>2, OverlapStep
<1>3. ASSUME status' = status, \A p \in Procs : CreatorClear(p)' PROVE OverlapInv'
  BY <1>3 DEF OverlapInv, NoActiveOverlap
<1>4. ASSUME NEW p \in Procs, Begin(p) PROVE OverlapInv'
  <2>1. PICK r \in Requests : \/ BeginCreate(p, r) \/ BeginApprove(p, r)
                              \/ BeginReject(p, r) \/ BeginCancel(p, r)
    BY <1>4 DEF Begin
  <2>2. PICK n \in ApiCalls, e \in Entries \union {NoEntry}, c \in Causes \union {"none"}, l \in Labels :
          Start(p, n, r, e, c, l)
    BY <1>1, <2>1, BeginStarts
  <2>3. status' = status /\ Others(p) /\ p \in Workers /\ req'[p] = r
    BY <1>1, <1>4, <2>2, BeginOthers DEF Start, rows, TypeOK, LocalTypeOK
  <2>4. op'[p] \in {"create", "draft"} => ~Overlaps(r)
    BY <1>1, <2>1 DEF BeginCreate, BeginApprove, BeginReject, BeginCancel, Start, TypeOK, LocalTypeOK
  <2>5. CreatorClear(p)'
    BY <2>3, <2>4 DEF CreatorClear, Overlaps
  <2>6. ASSUME NEW q \in Procs \ {p} PROVE CreatorClear(q)'
    BY <2>3 DEF OverlapInv, CreatorClear, Others, Overlaps
  <2>7. QED
    BY <1>3, <2>3, <2>5, <2>6
<1>5. ASSUME NEW p \in Procs, BeginRetry(p) PROVE OverlapInv'
  <2>1. /\ UNCHANGED <<status, req>> /\ op'[p] = "retry"
        /\ \A q \in Procs \ {p} : pc'[q] = pc[q] /\ op'[q] = op[q]
    BY <1>1, <1>5 DEF BeginRetry, Goto, rows, TypeOK, LocalTypeOK
  <2>2. ASSUME NEW q \in Procs PROVE CreatorClear(q)'
    BY <2>1 DEF OverlapInv, CreatorClear, Overlaps
  <2>3. QED
    BY <1>3, <2>1, <2>2
<1>6. CASE Tick \/ UNCHANGED work
  <2>1. UNCHANGED <<status, pc, op, req>>
    BY <1>6 DEF Tick, work, rows, locals, call
  <2>2. ASSUME NEW q \in Procs PROVE CreatorClear(q)'
    BY <2>1 DEF OverlapInv, CreatorClear, Overlaps
  <2>3. QED
    BY <1>3, <2>1, <2>2
<1>7. ~(faults < MaxFaults)
  BY <1>1 DEF IsolatedCalls, TypeOK, StoreTypeOK
<1>8. QED
  BY <1>2, <1>4, <1>5, <1>6, <1>7 DEF Act, QueryFails, Crash

LEMMA OverlapInit == Init => OverlapInv
  BY DEF Init, OverlapInv, NoActiveOverlap, CreatorClear, Active, InFlight

(* When one API handler runs at a time, requests in flight or approved     *)
(* never share a day: the check at the start of a creation is still true   *)
(* when the row is inserted, and no closed request comes back.             *)
THEOREM OverlapsRefused ==
  ASSUME IsolatedCalls, OneWorker
  PROVE  SpecWithSync => []NoActiveOverlap
<1>1. InitWithSync => OverlapInv
  BY OverlapInit DEF InitWithSync
<1>2. ASSUME IndInv, SerialInv, OverlapInv, IndInv', [NextWithSync]_<<vars, syncing>>
      PROVE  OverlapInv'
  BY <1>2, SyncLeavesWork, OverlapNext DEF NextWithSync, Workflow
<1>3. OverlapInv => NoActiveOverlap
  BY DEF OverlapInv
<1>4. QED
  BY <1>1, <1>2, <1>3, SerialWithSync, PTL DEF SpecWithSync

--------------------------------------------------------------------------------
(* Finite sums.  tlapm cannot instantiate the induction theorems of the    *)
(* library, but it can use the well-founded order they rest on.            *)
(* Induction over a finite set: T stands for the predicate. *)
LEMMA SetInduction ==
  ASSUME NEW S, IsFiniteSet(S), NEW T,
         \A s \in SUBSET S : (\A t \in SUBSET s : t # s => t \in T) => s \in T
  PROVE  S \in T
<1> SUFFICES ASSUME S \notin T PROVE FALSE
  OBVIOUS
<1> DEFINE wrong == (SUBSET S) \ T
<1>1. IsWellFoundedOn(StrictSubsetOrdering(S), FiniteSubsetsOf(S))
  BY FS_StrictSubsetOrderingWellFounded
<1>2. wrong \subseteq FiniteSubsetsOf(S) /\ wrong # {} BY FS_FiniteSubsetsOfFinite
<1> HIDE DEF wrong
<1>3. PICK s \in wrong : \A t \in wrong : <<t, s>> \notin StrictSubsetOrdering(S)
  BY <1>1, <1>2, WFMin
<1> QED BY <1>3 DEF StrictSubsetOrdering, wrong

(* Sums as the library computes them: an element is chosen, its number     *)
(* added to the sum of the others.                                         *)
Pick(s) == CHOOSE x \in s : TRUE

Adds(g, f, S) ==
  g = [s \in SUBSET S |-> IF s = {} THEN 0 ELSE f[Pick(s)] + g[s \ {Pick(s)}]]

Total(f, S) == (CHOOSE g : Adds(g, f, S))[S]

LEMMA Picked ==
  ASSUME NEW S, S # {}
  PROVE  Pick(S) \in S /\ S \ {Pick(S)} \in SUBSET S /\ S \ {Pick(S)} # S
BY DEF Pick

(* Two such functions agree where both are defined. *)
LEMMA AddsUnique ==
  ASSUME NEW f, NEW A, NEW B, NEW g, NEW h, Adds(g, f, A), Adds(h, f, B),
         NEW S, IsFiniteSet(S), S \subseteq A, S \subseteq B
  PROVE  g[S] = h[S]
<1> DEFINE T == {s \in SUBSET S : g[s] = h[s]}
<1>1. ASSUME NEW s \in SUBSET S, \A t \in SUBSET s : t # s => t \in T
      PROVE  s \in T
  <2>1. /\ g[s] = IF s = {} THEN 0 ELSE f[Pick(s)] + g[s \ {Pick(s)}]
        /\ h[s] = IF s = {} THEN 0 ELSE f[Pick(s)] + h[s \ {Pick(s)}]
    BY DEF Adds
  <2> QED BY <1>1, <2>1, Picked
<1> HIDE DEF T
<1>2. S \in T BY <1>1, SetInduction
<1> QED BY <1>2 DEF T

LEMMA AddsExists ==
  ASSUME NEW f, NEW S, IsFiniteSet(S)
  PROVE  \E g : Adds(g, f, S)
<1> DEFINE T == {s \in SUBSET S : \E g : Adds(g, f, s)}
           C(s) == CHOOSE g : Adds(g, f, s)
<1>1. ASSUME NEW U \in SUBSET S, \A t \in SUBSET U : t # U => t \in T
      PROVE  U \in T
  <2> DEFINE G == [s \in SUBSET U |-> IF s = {} THEN 0
                                      ELSE f[Pick(s)] + C(s \ {Pick(s)})[s \ {Pick(s)}]]
  <2>2. \A s \in SUBSET U : s # U => Adds(C(s), f, s) BY <1>1
  <2> HIDE DEF C
  <2>3. ASSUME NEW s \in SUBSET U, s # U PROVE G[s] = C(s)[s]
    <3>1. Adds(C(s), f, s) BY <2>2, <2>3
    <3>2. C(s)[s] = IF s = {} THEN 0 ELSE f[Pick(s)] + C(s)[s \ {Pick(s)}] BY <3>1 DEF Adds
    <3>3. ASSUME s # {} PROVE C(s)[s \ {Pick(s)}] = C(s \ {Pick(s)})[s \ {Pick(s)}]
      <4>1. s \ {Pick(s)} \in SUBSET s /\ s \ {Pick(s)} \in SUBSET U /\ s \ {Pick(s)} # U
        BY <2>3, <3>3, Picked
      <4>2. Adds(C(s \ {Pick(s)}), f, s \ {Pick(s)}) BY <2>2, <4>1
      <4>3. IsFiniteSet(s \ {Pick(s)}) BY <4>1, FS_Subset
      <4> QED BY <3>1, <4>1, <4>2, <4>3, AddsUnique
    <3> QED BY <3>2, <3>3
  <2>4. ASSUME NEW s \in SUBSET U, s # {}
        PROVE  G[s \ {Pick(s)}] = C(s \ {Pick(s)})[s \ {Pick(s)}]
    <3>1. s \ {Pick(s)} \in SUBSET U /\ s \ {Pick(s)} # U BY <2>4, Picked
    <3> HIDE DEF G
    <3> QED BY <3>1, <2>3
  <2>5. Adds(G, f, U) BY <2>4 DEF Adds
  <2> QED BY <2>5
<1> HIDE DEF T
<1>2. S \in T BY <1>1, SetInduction
<1> QED BY <1>2 DEF T

(* How a sum is made up. *)
LEMMA TotalStep ==
  ASSUME NEW f, NEW S, IsFiniteSet(S)
  PROVE  Total(f, S) = IF S = {} THEN 0 ELSE f[Pick(S)] + Total(f, S \ {Pick(S)})
<1> DEFINE g == CHOOSE k : Adds(k, f, S)
           T == S \ {Pick(S)}
           h == CHOOSE k : Adds(k, f, T)
<1>1. IsFiniteSet(T) /\ T \subseteq S BY FS_Subset
<1>2. Adds(g, f, S) BY AddsExists
<1>3. Adds(h, f, T) BY <1>1, AddsExists
<1>4. g[T] = h[T] BY <1>1, <1>2, <1>3, AddsUnique
<1>5. g[S] = IF S = {} THEN 0 ELSE f[Pick(S)] + g[T] BY <1>2 DEF Adds
<1> QED BY <1>4, <1>5 DEF Total

(* Sums of integers are integers, and may be taken in any order. *)
LEMMA TotalInt ==
  ASSUME NEW S, IsFiniteSet(S), NEW f, \A x \in S : f[x] \in Int
  PROVE  Total(f, S) \in Int
<1> DEFINE T == {s \in SUBSET S : Total(f, s) \in Int}
<1>1. ASSUME NEW s \in SUBSET S, \A t \in SUBSET s : t # s => t \in T
      PROVE  s \in T
  <2>1. Total(f, s) = IF s = {} THEN 0 ELSE f[Pick(s)] + Total(f, s \ {Pick(s)})
    BY FS_Subset, TotalStep
  <2> QED BY <1>1, <2>1, Picked
<1> HIDE DEF T
<1>2. S \in T BY <1>1, SetInduction
<1> QED BY <1>2 DEF T

LEMMA TotalRemove ==
  ASSUME NEW S, IsFiniteSet(S), NEW f, \A x \in S : f[x] \in Int, NEW a \in S
  PROVE  Total(f, S) = f[a] + Total(f, S \ {a})
<1> DEFINE T == {s \in SUBSET S : \A x \in s : Total(f, s) = f[x] + Total(f, s \ {x})}
<1>1. ASSUME NEW s \in SUBSET S, \A t \in SUBSET s : t # s => t \in T
      PROVE  s \in T
  <2> SUFFICES ASSUME NEW x \in s PROVE Total(f, s) = f[x] + Total(f, s \ {x})
    OBVIOUS
  <2> DEFINE y == Pick(s)
  <2>1. IsFiniteSet(s) /\ \A t \in SUBSET s : IsFiniteSet(t) BY FS_Subset
  <2>2. Total(f, s) = f[y] + Total(f, s \ {y}) BY <2>1, TotalStep
  <2>3. y \in s
    <3>1. s # {} OBVIOUS
    <3> QED BY <3>1, Picked
  <2>4. CASE x = y BY <2>2, <2>4
  <2>5. CASE x # y
    <3>1. s \ {y} \in T /\ s \ {x} \in T BY <1>1, <2>3
    <3>2. (s \ {y}) \ {x} = (s \ {x}) \ {y} OBVIOUS
    <3>3. Total(f, s \ {y}) = f[x] + Total(f, (s \ {x}) \ {y}) BY <2>5, <3>1, <3>2
    <3>4. Total(f, s \ {x}) = f[y] + Total(f, (s \ {x}) \ {y}) BY <2>3, <2>5, <3>1
    <3>5. Total(f, (s \ {x}) \ {y}) \in Int BY <2>1, TotalInt
    <3>6. f[x] \in Int /\ f[y] \in Int BY <2>3
    <3> QED BY <2>2, <3>3, <3>4, <3>5, <3>6
  <2> QED BY <2>4, <2>5
<1> HIDE DEF T
<1>2. S \in T BY <1>1, SetInduction
<1> QED BY <1>2 DEF T

(* Sums compared or added number by number. *)
LEMMA TotalAtMost ==
  ASSUME NEW S, IsFiniteSet(S), NEW f, NEW g,
         \A x \in S : f[x] \in Int /\ g[x] \in Int /\ f[x] <= g[x]
  PROVE  Total(f, S) <= Total(g, S)
<1> DEFINE T == {s \in SUBSET S : Total(f, s) <= Total(g, s)}
<1>1. ASSUME NEW s \in SUBSET S, \A t \in SUBSET s : t # s => t \in T
      PROVE  s \in T
  <2>1. IsFiniteSet(s) /\ IsFiniteSet(s \ {Pick(s)}) BY FS_Subset
  <2>2. /\ Total(f, s) = IF s = {} THEN 0 ELSE f[Pick(s)] + Total(f, s \ {Pick(s)})
        /\ Total(g, s) = IF s = {} THEN 0 ELSE g[Pick(s)] + Total(g, s \ {Pick(s)})
    BY <2>1, TotalStep
  <2>3. Total(f, s \ {Pick(s)}) \in Int /\ Total(g, s \ {Pick(s)}) \in Int
    BY <2>1, TotalInt
  <2>4. CASE s = {} BY <2>2, <2>4
  <2>5. CASE s # {}
    <3>1. Pick(s) \in s /\ s \ {Pick(s)} \in T BY <1>1, <2>5, Picked
    <3>2. f[Pick(s)] \in Int /\ g[Pick(s)] \in Int /\ f[Pick(s)] <= g[Pick(s)] BY <3>1
    <3> QED BY <2>2, <2>3, <2>5, <3>1, <3>2
  <2> QED BY <2>4, <2>5
<1> HIDE DEF T
<1>2. S \in T BY <1>1, SetInduction
<1> QED BY <1>2 DEF T

LEMMA TotalPlus ==
  ASSUME NEW S, IsFiniteSet(S), NEW f, NEW g, NEW h,
         \A x \in S : f[x] \in Int /\ g[x] \in Int /\ h[x] = f[x] + g[x]
  PROVE  Total(h, S) = Total(f, S) + Total(g, S)
<1> DEFINE T == {s \in SUBSET S : Total(h, s) = Total(f, s) + Total(g, s)}
<1>1. ASSUME NEW s \in SUBSET S, \A t \in SUBSET s : t # s => t \in T
      PROVE  s \in T
  <2>1. IsFiniteSet(s) /\ IsFiniteSet(s \ {Pick(s)}) BY FS_Subset
  <2>2. /\ Total(f, s) = IF s = {} THEN 0 ELSE f[Pick(s)] + Total(f, s \ {Pick(s)})
        /\ Total(g, s) = IF s = {} THEN 0 ELSE g[Pick(s)] + Total(g, s \ {Pick(s)})
        /\ Total(h, s) = IF s = {} THEN 0 ELSE h[Pick(s)] + Total(h, s \ {Pick(s)})
    BY <2>1, TotalStep
  <2>3. Total(f, s \ {Pick(s)}) \in Int /\ Total(g, s \ {Pick(s)}) \in Int
    BY <2>1, TotalInt
  <2>4. CASE s = {} BY <2>2, <2>4
  <2>5. CASE s # {}
    <3>1. Pick(s) \in s /\ s \ {Pick(s)} \in T BY <1>1, <2>5, Picked
    <3>2. f[Pick(s)] \in Int /\ g[Pick(s)] \in Int /\ h[Pick(s)] = f[Pick(s)] + g[Pick(s)]
      BY <3>1
    <3> QED BY <2>2, <2>3, <2>5, <3>1, <3>2
  <2> QED BY <2>4, <2>5
<1> HIDE DEF T
<1>2. S \in T BY <1>1, SetInduction
<1> QED BY <1>2 DEF T

(* Noughts add up to nought. *)
LEMMA TotalZero ==
  ASSUME NEW S, IsFiniteSet(S), NEW f, \A x \in S : f[x] = 0
  PROVE  Total(f, S) = 0
<1>1. \A x \in S : f[x] \in Int /\ f[x] \in Int /\ f[x] = f[x] + f[x]
  OBVIOUS
<1>2. Total(f, S) = Total(f, S) + Total(f, S)
  BY <1>1, TotalPlus
<1>3. Total(f, S) \in Int
  BY <1>1, TotalInt
<1>4. \A n \in Int : n = n + n => n = 0
  OBVIOUS
<1>5. QED
  BY <1>2, <1>3, <1>4

(* Only the numbers of the elements matter. *)
LEMMA TotalSame ==
  ASSUME NEW S, IsFiniteSet(S), NEW f, NEW g, \A x \in S : f[x] = g[x]
  PROVE  Total(f, S) = Total(g, S)
<1> DEFINE T == {s \in SUBSET S : Total(f, s) = Total(g, s)}
<1>1. ASSUME NEW s \in SUBSET S, \A t \in SUBSET s : t # s => t \in T
      PROVE  s \in T
  <2>1. IsFiniteSet(s) BY FS_Subset
  <2>2. /\ Total(f, s) = IF s = {} THEN 0 ELSE f[Pick(s)] + Total(f, s \ {Pick(s)})
        /\ Total(g, s) = IF s = {} THEN 0 ELSE g[Pick(s)] + Total(g, s \ {Pick(s)})
    BY <2>1, TotalStep
  <2>3. ASSUME s # {} PROVE f[Pick(s)] = g[Pick(s)] /\ s \ {Pick(s)} \in T
    BY <1>1, <2>3, Picked
  <2> QED BY <2>2, <2>3
<1> HIDE DEF T
<1>2. S \in T BY <1>1, SetInduction
<1> QED BY <1>2 DEF T

(* The elements that count nothing may be left out. *)
LEMMA TotalOfSome ==
  ASSUME NEW S, IsFiniteSet(S), NEW A, A \subseteq S, NEW f, NEW g,
         \A x \in A : f[x] \in Int,
         \A x \in S : g[x] = IF x \in A THEN f[x] ELSE 0
  PROVE  Total(f, A) = Total(g, S)
<1> DEFINE T == {s \in SUBSET S : Total(f, s \intersect A) = Total(g, s)}
<1>1. ASSUME NEW s \in SUBSET S, \A t \in SUBSET s : t # s => t \in T
      PROVE  s \in T
  <2> DEFINE y == Pick(s)
  <2>1. IsFiniteSet(s) /\ \A t \in SUBSET s : IsFiniteSet(t) BY FS_Subset
  <2>2. CASE s = {}
    <3>1. s \intersect A = {} BY <2>2
    <3> QED BY <2>1, <2>2, <3>1, TotalStep
  <2>3. CASE s # {}
    <3>1. y \in s /\ s \ {y} \in T BY <1>1, <2>3, Picked
    <3>2. Total(g, s) = g[y] + Total(g, s \ {y}) BY <2>1, <2>3, TotalStep
    <3>3. Total(f, (s \ {y}) \intersect A) = Total(g, s \ {y}) BY <3>1
    <3>4. Total(f, (s \ {y}) \intersect A) \in Int BY <2>1, TotalInt
    <3>5. CASE y \in A
      <4>1. (s \ {y}) \intersect A = (s \intersect A) \ {y} OBVIOUS
      <4>2. Total(f, s \intersect A) = f[y] + Total(f, (s \intersect A) \ {y})
        BY <2>1, <3>1, <3>5, TotalRemove
      <4> QED BY <3>1, <3>2, <3>3, <3>5, <4>1, <4>2
    <3>6. CASE y \notin A
      <4>1. (s \ {y}) \intersect A = s \intersect A BY <3>6
      <4>2. g[y] = 0 BY <3>1, <3>6
      <4> HIDE DEF y
      <4>3. Total(f, s \intersect A) = Total(g, s \ {y}) BY <3>3, <4>1
      <4>4. Total(g, s \ {y}) \in Int BY <3>3, <3>4
      <4>5. Total(g, s) = Total(g, s \ {y}) BY <3>2, <4>2, <4>4
      <4> QED BY <4>3, <4>5
    <3> QED BY <3>5, <3>6
  <2> QED BY <2>2, <2>3
<1> HIDE DEF T
<1>2. S \in T BY <1>1, SetInduction
<1>3. S \intersect A = A OBVIOUS
<1> QED BY <1>2, <1>3 DEF T

(* Disjoint finite sets together have as many elements as the sum of what  *)
(* each has.                                                               *)
LEMMA TotalOfUnion ==
  ASSUME NEW S, IsFiniteSet(S), NEW F, \A x \in S : IsFiniteSet(F[x]),
         \A x, y \in S : x # y => F[x] \intersect F[y] = {},
         NEW f, \A x \in S : f[x] = Cardinality(F[x])
  PROVE  Cardinality(UNION {F[x] : x \in S}) = Total(f, S)
<1> DEFINE U(s) == UNION {F[x] : x \in s}
           T == {s \in SUBSET S : IsFiniteSet(U(s)) /\ Cardinality(U(s)) = Total(f, s)}
<1>1. ASSUME NEW s \in SUBSET S, \A t \in SUBSET s : t # s => t \in T
      PROVE  s \in T
  <2> DEFINE y == Pick(s)
  <2>1. IsFiniteSet(s) BY FS_Subset
  <2>2. Total(f, s) = IF s = {} THEN 0 ELSE f[y] + Total(f, s \ {y}) BY <2>1, TotalStep
  <2>3. CASE s = {}
    <3>1. U(s) = {} BY <2>3
    <3> QED BY <2>2, <2>3, <3>1, FS_EmptySet
  <2>4. CASE s # {}
    <3>1. y \in s /\ s \ {y} \in T BY <1>1, <2>4, Picked
    <3>2. U(s) = F[y] \union U(s \ {y}) BY <3>1
    <3>3. F[y] \intersect U(s \ {y}) = {}
      <4>1. \A x \in s \ {y} : F[y] \intersect F[x] = {} BY <3>1
      <4> HIDE DEF y
      <4> QED BY <4>1
    <3>4. /\ IsFiniteSet(F[y]) /\ IsFiniteSet(U(s \ {y}))
          /\ Cardinality(U(s \ {y})) = Total(f, s \ {y})
      BY <3>1
    <3>5. f[y] = Cardinality(F[y]) BY <3>1
    <3> HIDE DEF U, y
    <3>6. IsFiniteSet(U(s)) /\ Cardinality(U(s)) = Cardinality(F[y]) + Cardinality(U(s \ {y}))
      <4>1. Cardinality({}) = 0 BY FS_EmptySet
      <4>2. Cardinality(F[y]) \in Nat /\ Cardinality(U(s \ {y})) \in Nat
        BY <3>4, FS_CardinalityType
      <4>3. /\ IsFiniteSet(F[y] \union U(s \ {y}))
            /\ Cardinality(F[y] \union U(s \ {y})) =
                 Cardinality(F[y]) + Cardinality(U(s \ {y}))
                   - Cardinality(F[y] \intersect U(s \ {y}))
        BY <3>4, FS_Union
      <4>4. IsFiniteSet(U(s)) /\ Cardinality(U(s)) = Cardinality(F[y] \union U(s \ {y}))
        BY <3>2, <4>3
      <4>5. Cardinality(F[y] \intersect U(s \ {y})) = 0 BY <3>3, <4>1
      <4> QED BY <4>2, <4>3, <4>4, <4>5
    <3> QED BY <2>2, <2>4, <3>4, <3>5, <3>6
  <2> QED BY <2>3, <2>4
<1> HIDE DEF T
<1>2. S \in T BY <1>1, SetInduction
<1> QED BY <1>2 DEF T

(* The sums of the model in these terms. *)
NetOf == [r \in Requests |-> Net(r)]
HeldOf == [r \in Requests |-> Held(r)]
ChargedOf == [r \in Requests |-> Charged(r)]

LEMMA NetSum == MapThenSumSet(Net, Requests) = Total(NetOf, Requests)
<1> DEFINE Sums(g) == g = [s \in SUBSET Requests |-> IF s = {} THEN 0
                                                     ELSE Net(Pick(s)) + g[s \ {Pick(s)}]]
           k == CHOOSE g : Sums(g)
           h == CHOOSE g : Adds(g, NetOf, Requests)
<1>1. \A s \in SUBSET Requests : s # {} => NetOf[Pick(s)] = Net(Pick(s))
  BY Picked DEF NetOf
<1>2. \A g : Adds(g, NetOf, Requests) <=> Sums(g)
  BY <1>1 DEF Adds
<1>3. \E g : Adds(g, NetOf, Requests)
  BY RequestsAssumption, AddsExists
<1>4. Adds(k, NetOf, Requests) /\ Adds(h, NetOf, Requests)
  <2>1. Sums(k)
    BY <1>2, <1>3
  <2>2. QED
    BY <1>2, <1>3, <2>1
<1>5. MapThenSumSet(Net, Requests) = k[Requests]
  BY DEF MapThenSumSet, MapThenFoldSet, Pick
<1>6. Total(NetOf, Requests) = h[Requests]
  BY DEF Total
<1> HIDE DEF k, h
<1>7. k[Requests] = h[Requests]
  BY <1>4, RequestsAssumption, AddsUnique
<1>8. QED
  BY <1>5, <1>6, <1>7

LEMMA HeldSum == MapThenSumSet(Held, Requests) = Total(HeldOf, Requests)
<1> DEFINE Sums(g) == g = [s \in SUBSET Requests |-> IF s = {} THEN 0
                                                     ELSE Held(Pick(s)) + g[s \ {Pick(s)}]]
           k == CHOOSE g : Sums(g)
           h == CHOOSE g : Adds(g, HeldOf, Requests)
<1>1. \A s \in SUBSET Requests : s # {} => HeldOf[Pick(s)] = Held(Pick(s))
  BY Picked DEF HeldOf
<1>2. \A g : Adds(g, HeldOf, Requests) <=> Sums(g)
  BY <1>1 DEF Adds
<1>3. \E g : Adds(g, HeldOf, Requests)
  BY RequestsAssumption, AddsExists
<1>4. Adds(k, HeldOf, Requests) /\ Adds(h, HeldOf, Requests)
  <2>1. Sums(k)
    BY <1>2, <1>3
  <2>2. QED
    BY <1>2, <1>3, <2>1
<1>5. MapThenSumSet(Held, Requests) = k[Requests]
  BY DEF MapThenSumSet, MapThenFoldSet, Pick
<1>6. Total(HeldOf, Requests) = h[Requests]
  BY DEF Total
<1> HIDE DEF k, h
<1>7. k[Requests] = h[Requests]
  BY <1>4, RequestsAssumption, AddsUnique
<1>8. QED
  BY <1>5, <1>6, <1>7

LEMMA ChargedSum == MapThenSumSet(Charged, Requests) = Total(ChargedOf, Requests)
<1> DEFINE Sums(g) == g = [s \in SUBSET Requests |-> IF s = {} THEN 0
                                                     ELSE Charged(Pick(s)) + g[s \ {Pick(s)}]]
           k == CHOOSE g : Sums(g)
           h == CHOOSE g : Adds(g, ChargedOf, Requests)
<1>1. \A s \in SUBSET Requests : s # {} => ChargedOf[Pick(s)] = Charged(Pick(s))
  BY Picked DEF ChargedOf
<1>2. \A g : Adds(g, ChargedOf, Requests) <=> Sums(g)
  BY <1>1 DEF Adds
<1>3. \E g : Adds(g, ChargedOf, Requests)
  BY RequestsAssumption, AddsExists
<1>4. Adds(k, ChargedOf, Requests) /\ Adds(h, ChargedOf, Requests)
  <2>1. Sums(k)
    BY <1>2, <1>3
  <2>2. QED
    BY <1>2, <1>3, <2>1
<1>5. MapThenSumSet(Charged, Requests) = k[Requests]
  BY DEF MapThenSumSet, MapThenFoldSet, Pick
<1>6. Total(ChargedOf, Requests) = h[Requests]
  BY DEF Total
<1> HIDE DEF k, h
<1>7. k[Requests] = h[Requests]
  BY <1>4, RequestsAssumption, AddsUnique
<1>8. QED
  BY <1>5, <1>6, <1>7
--------------------------------------------------------------------------------
(* What HCM deducts for a request; and by how much the ledger is ahead of  *)
(* HCM once it is closed: HCM goes on deducting what is left of a cancelled*)
(* leave, and a late rejection is a credit HCM knows nothing of.           *)
Deducted(r) == Cardinality(posted[r] \ deleted)
Remains(r) == IF RejectedLate(r) THEN Dur[r]
              ELSE IF status[r] = "CANCELLED" /\ posted[r] # {} /\ Dur[r] > 0 THEN Dur[r] - 1
              ELSE 0

DeductedOf == [r \in Requests |-> Deducted(r)]
RemainsOf == [r \in Requests |-> Remains(r)]

(* The adjustments have taken from the ledger no more than by what it was  *)
(* ahead; between the calls of a sync nothing moves what it compares.      *)
AdjustedOK ==
  /\ stage \in {"idle", "compare", "adjust"}
  /\ other \in Int
  /\ other + Total(RemainsOf, Requests) >= Opening
  /\ stage # "idle" => AtRest
  /\ stage = "compare" => answer = HcmBalance
  /\ stage = "adjust" => drift = HcmBalance - LedgerSum

RestInv == IndInv /\ SerialInv /\ EntriesInv

(* At rest the ledger and HCM differ by what requests in flight hold, by   *)
(* what remains of cancelled ones and by the credit of late rejections.    *)
LEMMA RestBalance ==
  ASSUME LostReplies = {}, IsFiniteSet(Entries), RestInv, AtRest, NEW r \in Requests
  PROVE  /\ Net(r) \in Int /\ Held(r) \in Nat /\ Deducted(r) \in Nat /\ Remains(r) \in Nat
         /\ Net(r) + Held(r) + Deducted(r) = Remains(r)
<1>1. /\ Dur[r] \in Nat /\ Dur[r] = Cardinality(Days[r])
      /\ IsFiniteSet(posted[r])
  BY DurAssumption, WholeDaysAssumption, FS_Subset DEF RestInv, IndInv, TypeOK, StoreTypeOK
<1>2. Settled(r)
  BY DEF RestInv, SerialInv, SerialOK, Midway, AtRest
<1>3. Kept(r)
  BY DEF RestInv, EntriesInv, EntriesOK, Converting, Undoing, AtRest
<1>4. ~RejectedLate(r) => Net(r) = IF status[r] \in Active THEN -Dur[r] ELSE 0
  BY <1>2, SettledNet
<1>5. RejectedLate(r) => status[r] = "REJECTED" /\ Net(r) = Dur[r]
  BY <1>2, LateNet
<1>6. Cardinality({}) = 0
  BY FS_EmptySet
<1>7. CASE status[r] = "APPROVED"
  <2>1. posted[r] \ deleted = posted[r] /\ posted[r] \intersect deleted = {}
        /\ Cardinality(posted[r]) = Dur[r]
    BY <1>1, <1>3, <1>7 DEF Kept, Whole
  <2>2. Held(r) = 0 /\ Deducted(r) = Dur[r] /\ Remains(r) = 0
    BY <1>6, <1>7, <1>5, <2>1 DEF Held, Deducted, Remains, InFlight
  <2>3. QED
    BY <1>1, <1>4, <1>7, <1>5, <2>2 DEF Active
<1>8. CASE status[r] = "CANCELLED" /\ posted[r] # {}
  <2>1. PICK e \in posted[r] : posted[r] \intersect deleted = {e}
    <3>1. posted[r] \intersect deleted = {hcmRef[r]}
      BY <1>3, <1>8 DEF Kept, Cut
    <3>2. QED
      BY <3>1
  <2>2. Cardinality(posted[r]) = Dur[r]
    BY <1>1, <1>3, <1>8 DEF Kept, Cut
  <2>3. posted[r] \ deleted = posted[r] \ {e}
    BY <2>1
  <2>4. Deducted(r) = Dur[r] - 1 /\ Dur[r] > 0
    <3>1. Cardinality(posted[r] \ {e}) = Cardinality(posted[r]) - 1
      BY <1>1, FS_RemoveElement
    <3>2. Cardinality(posted[r] \ {e}) \in Nat
      BY <1>1, FS_RemoveElement, FS_CardinalityType
    <3>3. Deducted(r) = Cardinality(posted[r] \ {e})
      BY <2>3 DEF Deducted
    <3>4. QED
      BY <1>1, <2>2, <3>1, <3>2, <3>3
  <2>5. Held(r) = 0 /\ Remains(r) = Dur[r] - 1
    BY <1>8, <1>5, <2>4 DEF Held, Remains, InFlight
  <2>6. Net(r) = 0
    BY <1>4, <1>8, <1>5 DEF Active, InFlight
  <2>7. QED
    BY <1>1, <2>4, <2>5, <2>6
<1>9. CASE status[r] # "APPROVED" /\ ~(status[r] = "CANCELLED" /\ posted[r] # {})
  <2>1. posted[r] = {}
    BY <1>3, <1>9 DEF Kept
  <2>2. Deducted(r) = 0 /\ Remains(r) = IF RejectedLate(r) THEN Dur[r] ELSE 0
    <3>1. posted[r] \ deleted = {}
      BY <2>1
    <3>2. QED
      BY <1>6, <2>1, <3>1 DEF Deducted, Remains
  <2>3. Held(r) = IF status[r] \in InFlight THEN Dur[r] ELSE 0
    BY <1>9 DEF Held
  <2>4. CASE RejectedLate(r)
    BY <1>1, <1>5, <2>2, <2>3, <2>4 DEF InFlight
  <2>5. CASE ~RejectedLate(r)
    BY <1>1, <1>4, <1>9, <2>2, <2>3, <2>5 DEF Active
  <2>6. QED
    BY <2>4, <2>5
<1>10. QED
  BY <1>7, <1>8, <1>9

(* HCM's balance is what it opened with less what it deducts.              *)
LEMMA HcmDeducts ==
  ASSUME LostReplies = {}, IsFiniteSet(Entries), RestInv
  PROVE  HcmBalance = Opening - Total(DeductedOf, Requests)
<1> DEFINE live == [r \in Requests |-> posted[r] \ deleted]
<1>1. \A r \in Requests : IsFiniteSet(live[r])
  <2>1. \A r \in Requests : posted[r] \ deleted \in SUBSET Entries
    BY DEF RestInv, IndInv, TypeOK, StoreTypeOK
  <2>2. QED
    BY <2>1, FS_Subset
<1>2. \A r, q \in Requests : r # q => live[r] \intersect live[q] = {}
  BY DEF RestInv, EntriesInv, Apart
<1>3. \A r \in Requests : DeductedOf[r] = Cardinality(live[r])
  BY DEF DeductedOf, Deducted
<1>4. UNION {live[r] : r \in Requests} = (UNION {posted[r] : r \in Requests}) \ deleted
  <2> DEFINE L == UNION {live[r] : r \in Requests}
             P == UNION {posted[r] : r \in Requests}
  <2>1. \A r \in Requests : live[r] = posted[r] \ deleted
    OBVIOUS
  <2>2. \A e : e \in L <=> \E r \in Requests : e \in live[r]
    OBVIOUS
  <2>3. \A e : e \in P <=> \E r \in Requests : e \in posted[r]
    OBVIOUS
  <2>4. L = P \ deleted
    <3> HIDE DEF L, P, live
    <3>1. QED
      BY <2>1, <2>2, <2>3
  <2>5. QED
    BY <2>4
<1> HIDE DEF live
<1>5. Cardinality(UNION {live[r] : r \in Requests}) = Total(DeductedOf, Requests)
  BY <1>1, <1>2, <1>3, RequestsAssumption, TotalOfUnion
<1>6. QED
  BY <1>4, <1>5 DEF HcmBalance

LEMMA RestTotals ==
  ASSUME LostReplies = {}, IsFiniteSet(Entries), RestInv, AtRest
  PROVE  /\ Total(NetOf, Requests) \in Int /\ Total(DeductedOf, Requests) \in Int
         /\ Total(RemainsOf, Requests) \in Int /\ Total(HeldOf, Requests) \in Int
         /\ Total(HeldOf, Requests) >= 0
         /\ Total(NetOf, Requests) + Total(HeldOf, Requests) + Total(DeductedOf, Requests)
              = Total(RemainsOf, Requests)
<1> DEFINE both == [r \in Requests |-> NetOf[r] + HeldOf[r]]
           none == [r \in Requests |-> 0]
<1>1. \A r \in Requests : /\ NetOf[r] \in Int /\ HeldOf[r] \in Int /\ DeductedOf[r] \in Int
                          /\ RemainsOf[r] \in Int /\ HeldOf[r] >= 0
                          /\ RemainsOf[r] = both[r] + DeductedOf[r]
                          /\ both[r] = NetOf[r] + HeldOf[r] /\ both[r] \in Int
  BY RestBalance DEF NetOf, HeldOf, DeductedOf, RemainsOf
<1>2. \A r \in Requests : none[r] = 0 /\ none[r] \in Int /\ none[r] <= HeldOf[r]
  BY <1>1
<1> HIDE DEF both, none
<1>3. /\ Total(NetOf, Requests) \in Int /\ Total(DeductedOf, Requests) \in Int
      /\ Total(RemainsOf, Requests) \in Int /\ Total(HeldOf, Requests) \in Int
  BY <1>1, RequestsAssumption, TotalInt
<1>4. Total(both, Requests) = Total(NetOf, Requests) + Total(HeldOf, Requests)
  BY <1>1, RequestsAssumption, TotalPlus
<1>5. Total(RemainsOf, Requests) = Total(both, Requests) + Total(DeductedOf, Requests)
  BY <1>1, RequestsAssumption, TotalPlus
<1>6. Total(none, Requests) <= Total(HeldOf, Requests)
  BY <1>1, <1>2, RequestsAssumption, TotalAtMost
<1>7. Total(none, Requests) = 0
  BY <1>2, RequestsAssumption, TotalZero
<1>8. QED
  BY <1>3, <1>4, <1>5, <1>6, <1>7

LEMMA AdjustedInit == ASSUME InitWithSync PROVE AdjustedOK
<1>1. \A r \in Requests : RemainsOf[r] = 0
  BY DEF InitWithSync, Init, RemainsOf, Remains, RejectedLate
<1>2. Total(RemainsOf, Requests) = 0
  BY <1>1, TotalZero, RequestsAssumption
<1>3. QED
  BY <1>2, OpeningAssumption DEF AdjustedOK, InitWithSync, Init

(* The sum of the ledger, now and after a step.                            *)
LEMMA LedgerTotal == LedgerSum = other + Total(NetOf, Requests)
BY NetSum DEF LedgerSum

LEMMA LedgerTotalNext == (LedgerSum = other + Total(NetOf, Requests))'
BY LedgerTotal, PTL

(* What a sync compares does not move while the workflow rests.            *)
LEMMA SameBalances ==
  ASSUME UNCHANGED <<posted, deleted, ledger, other>>
  PROVE  HcmBalance' = HcmBalance /\ LedgerSum' = LedgerSum
<1>1. NetOf' = NetOf
  BY DEF NetOf, Net, Released, Amount
<1>2. HcmBalance' = HcmBalance
  BY DEF HcmBalance
<1>3. QED
  BY <1>1, <1>2, LedgerTotal, LedgerTotalNext

(* A request cancelled after its approval stays cancelled, a late rejection*)
(* is never undone, and no entry is forgotten.                             *)
LEMMA RemainsGrow ==
  ASSUME LostReplies = {}, RestInv, [Act]_work, NEW r \in Requests
  PROVE  Remains(r) \in Int /\ Remains(r)' \in Int /\ Remains(r) <= Remains(r)'
<1>1. TypeOK /\ HandlerInv /\ NewcomerInv /\ SerialInv
  BY DEF RestInv, IndInv
<1>2. /\ posted[r] \subseteq posted'[r] /\ ledger[r] \subseteq ledger'[r]
      /\ status[r] = "CANCELLED" => posted[r] = {} \/ status'[r] = "CANCELLED"
  <2>1. CASE UNCHANGED Store
    BY <2>1 DEF Store, hcm
  <2>2. ASSUME NEW p \in Procs, Step(p)
        PROVE  /\ posted[r] \subseteq posted'[r] /\ ledger[r] \subseteq ledger'[r]
               /\ status[r] = "CANCELLED" => posted[r] = {} \/ status'[r] = "CANCELLED"
    <3>1. posted[r] \subseteq posted'[r] /\ ledger[r] \subseteq ledger'[r]
      BY <1>1, <2>2, StepMonotone DEF Monotone
    <3>2. CASE r = req[p] /\ Close(p) /\ ledger[r] = {"reservation", "cancel"} /\ status[r] = "CANCELLED"
      <4>1. \A q \in Procs : req[q] = r => q = p
        BY <1>1, <3>2 DEF SerialInv, SerialOK, Holds
      <4>2. ~Converting(p) /\ ~Undoing(p)
        BY <3>2 DEF Close, At, Converting, Undoing
      <4>3. Kept(r)
        BY <4>1, <4>2 DEF RestInv, EntriesInv, EntriesOK
      <4>4. QED
        BY <3>1, <3>2, <4>3 DEF Kept
    <3>3. CASE ~(r = req[p] /\ Close(p) /\ ledger[r] = {"reservation", "cancel"} /\ status[r] = "CANCELLED")
      BY <1>1, <2>2, <3>1, <3>3, DiagramStep DEF Diagram
    <3>4. QED
      BY <3>2, <3>3
  <2>3. QED
    BY <1>1, <2>1, <2>2, OnlyStepWrites
<1>3. Dur[r] \in Nat
  BY DurAssumption
<1>4. RejectedLate(r) => RejectedLate(r)'
  BY <1>2 DEF RejectedLate
<1>5. CASE RejectedLate(r)
  BY <1>3, <1>4, <1>5 DEF Remains
<1>6. CASE ~RejectedLate(r) /\ status[r] = "CANCELLED" /\ posted[r] # {}
  <2>1. posted'[r] # {} /\ status'[r] = "CANCELLED"
    BY <1>2, <1>6
  <2>2. QED
    BY <1>3, <1>6, <2>1 DEF Remains
<1>7. CASE ~RejectedLate(r) /\ ~(status[r] = "CANCELLED" /\ posted[r] # {})
  <2>1. Remains(r) = 0
    BY <1>7 DEF Remains
  <2>2. Remains(r)' \in Nat
    BY <1>3 DEF Remains
  <2>3. QED
    BY <2>1, <2>2
<1>8. QED
  BY <1>5, <1>6, <1>7

LEMMA AdjustedNext ==
  ASSUME IsolatedCalls, LostReplies = {}, IsFiniteSet(Entries), RestInv, AdjustedOK,
         [NextWithSync]_<<vars, syncing>>
  PROVE  AdjustedOK'
<1>1. CASE Workflow
  <2>1. stage = "idle" /\ stage' = "idle" /\ other' = other /\ [Act]_work
    BY <1>1 DEF Workflow, IsolatedCalls, syncing, AdjustedOK
  <2>2. \A r \in Requests : RemainsOf[r] \in Int /\ RemainsOf'[r] \in Int /\ RemainsOf[r] <= RemainsOf'[r]
    BY <2>1, RemainsGrow DEF RemainsOf
  <2>3. /\ Total(RemainsOf, Requests) <= Total(RemainsOf', Requests)
        /\ Total(RemainsOf, Requests) \in Int /\ Total(RemainsOf', Requests) \in Int
    BY <2>2, RequestsAssumption, TotalAtMost, TotalInt
  <2>4. QED
    BY <2>1, <2>3, OpeningAssumption DEF AdjustedOK
<1>2. ASSUME UNCHANGED <<work, other>>
      PROVE  /\ RemainsOf' = RemainsOf /\ AtRest' = AtRest
             /\ HcmBalance' = HcmBalance /\ LedgerSum' = LedgerSum
  <2>1. UNCHANGED <<status, posted, deleted, ledger, pc, other>>
    BY <1>2 DEF work, rows, hcm, locals
  <2>2. QED
    BY <2>1, SameBalances DEF RemainsOf, Remains, RejectedLate, AtRest
<1>3. CASE FetchBalances
  <2>1. /\ UNCHANGED <<work, other>> /\ stage' = "compare" /\ answer' = HcmBalance
        /\ Isolated => AtRest
    BY <1>3 DEF FetchBalances
  <2>2. QED
    BY <1>2, <2>1 DEF AdjustedOK, IsolatedCalls
<1>4. CASE Compare
  <2>1. /\ UNCHANGED <<work, other>> /\ stage = "compare" /\ stage' \in {"idle", "adjust"}
        /\ drift' = answer - LedgerSum
    BY <1>4 DEF Compare
  <2>2. QED
    BY <1>2, <2>1 DEF AdjustedOK
<1>5. CASE Adjust
  <2>1. UNCHANGED work /\ stage = "adjust" /\ stage' = "idle" /\ other' = other + drift
    BY <1>5 DEF Adjust
  <2>2. AtRest /\ drift = HcmBalance - LedgerSum
    BY <2>1 DEF AdjustedOK
  <2>3. RemainsOf' = RemainsOf
    BY <2>1 DEF work, rows, hcm, RemainsOf, Remains, RejectedLate
  <2>4. other' = Opening - Total(DeductedOf, Requests) - Total(NetOf, Requests)
    BY <2>1, <2>2, HcmDeducts, LedgerTotal, RestTotals, OpeningAssumption DEF AdjustedOK
  <2>5. other' \in Int /\ other' + Total(RemainsOf, Requests) >= Opening
    BY <2>2, <2>4, RestTotals, OpeningAssumption
  <2>6. QED
    BY <2>1, <2>3, <2>5 DEF AdjustedOK
<1>6. CASE UNCHANGED <<vars, syncing>>
  <2>1. UNCHANGED <<work, other, stage, answer, drift>>
    BY <1>6 DEF vars, syncing
  <2>2. QED
    BY <1>2, <2>1 DEF AdjustedOK
<1>7. QED
  BY <1>1, <1>3, <1>4, <1>5, <1>6 DEF NextWithSync

(* When calls do not overlap and no reply is lost, the ledger never shows  *)
(* less than HCM would grant and requests in flight hold, however often a  *)
(* sync has run in between.                                                *)
THEOREM NeverShortOfDays ==
  ASSUME IsolatedCalls, LostReplies = {}, IsFiniteSet(Entries)
  PROVE  SpecWithSync => []NeverShort
<1>1. InitWithSync => RestInv /\ AdjustedOK
  BY IndInit, SerialInit, EntriesInit, AdjustedInit DEF InitWithSync, RestInv
<1>2. ASSUME RestInv, AdjustedOK, [NextWithSync]_<<vars, syncing>> PROVE RestInv' /\ AdjustedOK'
  <2>1. [Act]_work
    BY <1>2, SyncLeavesWork DEF NextWithSync, Workflow
  <2>2. IndInv' /\ SerialInv' /\ EntriesInv'
    BY <1>2, <2>1, IndNext, SerialNext, EntriesNext DEF RestInv
  <2>3. QED
    BY <1>2, <2>2, AdjustedNext DEF RestInv
<1>3. RestInv /\ AdjustedOK => NeverShort
  <2> SUFFICES ASSUME RestInv, AdjustedOK, AtRest
               PROVE  LedgerSum + MapThenSumSet(Held, Requests) >= HcmBalance
    BY DEF NeverShort
  <2>1. QED
    BY HcmDeducts, LedgerTotal, HeldSum, RestTotals, OpeningAssumption DEF AdjustedOK
<1>4. QED
  BY <1>1, <1>2, <1>3, PTL DEF SpecWithSync
--------------------------------------------------------------------------------
(* What a step makes of the handler's label.                               *)
LEMMA StepInto ==
  ASSUME TypeOK, NEW p \in Procs, Step(p)
  PROVE  /\ pc'[p] = "flight" => ReadLedger(p)
         /\ pc'[p] = "tally" => ReadFlight(p)
         /\ pc'[p] \in {"releases", "reservations"} => ReadHeld(p)
         /\ pc'[p] = "post" => ReadFlight(p) \/ ReadHeld(p) \/ NextPending(p)
         /\ pc'[p] = "release" => PostAccepted(p) \/ Close(p) \/ SetCancelled(p)
         /\ pc'[p] = "usage" => Release(p)
         /\ pc'[p] = "defer" => PostFailed(p) /\ op[p] = "approve" /\ op'[p] = "approve"
         /\ pc[p] = "notify" => Notify(p)
<1> USE DEF TypeOK, LocalTypeOK, At, Goto, call
<1>1. CASE ReadLedger(p)
  BY <1>1 DEF ReadLedger
<1>2. CASE ReadFlight(p)
  BY <1>2 DEF ReadFlight, Judge, Finish
<1>3. CASE ReadHeld(p)
  BY <1>3 DEF ReadHeld, Judge, Finish
<1>4. CASE Refresh(p)
  BY <1>4 DEF Refresh, Finish
<1>5. CASE Insert(p)
  BY <1>5 DEF Insert
<1>6. CASE Reserve(p)
  BY <1>6 DEF Reserve
<1>7. CASE CreateApproval(p)
  BY <1>7 DEF CreateApproval
<1>8. CASE Decide(p)
  BY <1>8 DEF Decide
<1>9. CASE PostAccepted(p)
  BY <1>9 DEF PostAccepted
<1>10. CASE PostRefused(p)
  BY <1>10 DEF PostRefused, Finish
<1>11. CASE PostFailed(p)
  BY <1>11 DEF PostFailed, Finish
<1>12. CASE Release(p)
  BY <1>12 DEF Release
<1>13. CASE ConfirmUsage(p)
  BY <1>13 DEF ConfirmUsage
<1>14. CASE SetApproved(p)
  BY <1>14 DEF SetApproved
<1>15. CASE Defer(p)
  BY <1>15 DEF Defer
<1>16. CASE Close(p)
  BY <1>16 DEF Close
<1>17. CASE NextPending(p)
  BY <1>17 DEF NextPending
<1>18. CASE Sweep(p)
  BY <1>18 DEF Sweep
<1>19. CASE NextExpired(p)
  BY <1>19 DEF NextExpired
<1>20. CASE EndRetry(p)
  BY <1>20 DEF EndRetry, Finish
<1>21. CASE Correct(p)
  BY <1>21 DEF Correct, Finish
<1>22. CASE Reverse(p)
  BY <1>22 DEF Reverse
<1>23. CASE SetCancelled(p)
  BY <1>23 DEF SetCancelled
<1>24. CASE Audit(p)
  BY <1>24 DEF Audit, Finish
<1>25. CASE Notify(p)
  BY <1>25 DEF Notify, Finish, Continue
<1>26. CASE CountAttempt(p)
  BY <1>26 DEF CountAttempt, Continue
<1>27. QED
  BY <1>1, <1>2, <1>3, <1>4, <1>5, <1>6, <1>7, <1>8, <1>9, <1>10, <1>11, <1>12, <1>13, <1>14,
     <1>15, <1>16, <1>17, <1>18, <1>19, <1>20, <1>21, <1>22, <1>23, <1>24, <1>25, <1>26 DEF Step

(* That a request was deferred is on record: in its status, then in what   *)
(* its handler goes on to tell.  Only API handlers work on the others.     *)
Telling(p, r) == /\ req[p] = r /\ pc[p] \in {"audit", "notify"}
                 /\ op[p] = "approve" /\ cause[p] = "none"

Recorded(r) ==
  status[r] = "APPROVED_PENDING_HCM_UPDATE" =>
    "APPROVED_PENDING_HCM_UPDATE" \in notices[r] \/ \E p \in Procs : Telling(p, r)

RoleOK(p) == /\ req[p] \in Requests => p \in Workers \/ WasDeferred(req[p])
             /\ pc[p] = "defer" => op[p] = "approve"

DeferralInv == (\A r \in Requests : Recorded(r)) /\ (\A p \in Procs : RoleOK(p))

(* Who tells of a deferral leaves the status alone, and leaves a record.   *)
LEMMA TellingStep ==
  ASSUME TypeOK, NEW p \in Procs, Step(p), NEW r \in Requests, Telling(p, r)
  PROVE  /\ UNCHANGED status
         /\ Telling(p, r)' \/ "APPROVED_PENDING_HCM_UPDATE" \in notices'[r]
<1> USE DEF TypeOK, StoreTypeOK, LocalTypeOK, Telling, rows
<1>1. CASE pc[p] = "audit"
  BY <1>1, StepAt DEF Audit, Goto, call
<1>2. CASE pc[p] = "notify"
  BY <1>2, StepInto DEF Notify, Written
<1>3. QED
  BY <1>1, <1>2

LEMMA NoticesKept ==
  ASSUME TypeOK, NEW p \in Procs, Step(p), NEW r \in Requests
  PROVE  notices[r] \subseteq notices'[r]
BY Effects DEF Notify, TypeOK, StoreTypeOK

LEMMA DeferredStays ==
  ASSUME TypeOK, SerialInv, DeferralInv, NEW p \in Procs, Step(p), NEW r \in Requests, WasDeferred(r)
  PROVE  WasDeferred(r)'
<1>1. CASE "APPROVED_PENDING_HCM_UPDATE" \in notices[r]
  BY <1>1, NoticesKept DEF WasDeferred
<1>2. CASE r # req[p]
  BY <1>2, StepReach, NoticesKept DEF WasDeferred, Same
<1>3. CASE r = req[p] /\ "APPROVED_PENDING_HCM_UPDATE" \notin notices[r]
  <2>1. status[r] = "APPROVED_PENDING_HCM_UPDATE"
    BY <1>3 DEF WasDeferred
  <2>2. PICK q \in Procs : Telling(q, r)
    BY <1>3, <2>1 DEF DeferralInv, Recorded
  <2>3. q = p
    BY <1>3, <2>2 DEF SerialInv, SerialOK, Holds, Telling
  <2>4. QED
    BY <2>1, <2>2, <2>3, TellingStep DEF WasDeferred
<1>4. QED
  BY <1>1, <1>2, <1>3

LEMMA DeferralStep ==
  ASSUME TypeOK, HandlerInv, SerialInv, DeferralInv, NEW p \in Procs, Step(p)
  PROVE  DeferralInv'
<1>1. Others(p)
  BY StepOthers
<1>2. ASSUME NEW r \in Requests PROVE Recorded(r)'
  <2>1. SUFFICES ASSUME status'[r] = "APPROVED_PENDING_HCM_UPDATE",
                        "APPROVED_PENDING_HCM_UPDATE" \notin notices'[r]
                 PROVE  \E q \in Procs : Telling(q, r)'
    BY DEF Recorded
  <2>2. CASE r = req[p] /\ Defer(p)
    <3>1. op[p] = "approve" /\ cause[p] = "none"
      BY <2>2 DEF Defer, At, HandlerInv, HandlerOK, DeferralInv, RoleOK, TypeOK, LocalTypeOK
    <3>2. Telling(p, r)'
      BY <2>2, <3>1 DEF Defer, Goto, call, Telling, TypeOK, LocalTypeOK
    <3>3. QED
      BY <3>2
  <2>3. CASE ~(r = req[p] /\ Defer(p))
    <3>1. status[r] = "APPROVED_PENDING_HCM_UPDATE"
      <4>1. CASE r # req[p]
        BY <2>1, <4>1, StepReach DEF Same
      <4>2. CASE r = req[p] /\ ~Defer(p)
        BY <2>1, <4>2, Effects DEF Insert, SetApproved, Close, SetCancelled, SetStatus, TypeOK, StoreTypeOK
      <4>3. QED
        BY <2>3, <4>1, <4>2
    <3>2. PICK q \in Procs : Telling(q, r)
      BY <2>1, <3>1, NoticesKept DEF DeferralInv, Recorded
    <3>3. CASE q = p
      BY <2>1, <3>2, <3>3, TellingStep
    <3>4. CASE q # p
      BY <1>1, <3>2, <3>4 DEF Others, Telling
    <3>5. QED
      BY <3>3, <3>4
  <2>4. QED
    BY <2>2, <2>3
<1>3. ASSUME NEW q \in Procs \ {p} PROVE RoleOK(q)'
  BY <1>1, DeferredStays DEF DeferralInv, RoleOK, Others
<1>4. RoleOK(p)'
  <2>1. ASSUME NEW r \in Requests, r = req'[p] PROVE p \in Workers \/ WasDeferred(r)'
    <3>1. CASE r = req[p]
      BY <3>1, DeferredStays DEF DeferralInv, RoleOK
    <3>2. CASE r # req[p]
      <4>1. r \in todo[p]
        BY <2>1, <3>2, StepReach, RequestsAssumption
      <4>2. QED
        BY <4>1, DeferredStays DEF SerialInv, SerialOK, WasDeferred
    <3>3. QED
      BY <3>1, <3>2
  <2>2. req'[p] \in Requests => p \in Workers \/ WasDeferred(req[p])'
    BY <2>1 DEF WasDeferred
  <2>3. QED
    BY <2>2, StepInto DEF RoleOK
<1>5. QED
  BY <1>2, <1>3, <1>4 DEF DeferralInv


LEMMA DeferralInit == Init => DeferralInv
  BY RequestsAssumption DEF Init, DeferralInv, Recorded, RoleOK

(* Nothing else writes a status or a notice, or takes a request in hand.   *)
LEMMA DeferralQuiet ==
  ASSUME DeferralInv, UNCHANGED <<status, notices>>,
         NEW p \in Procs, \A q \in Procs \ {p} : UNCHANGED <<pc[q], op[q], req[q], cause[q]>>,
         \A r \in Requests : ~Telling(p, r),
         req'[p] \in Requests => p \in Workers, pc'[p] # "defer"
  PROVE  DeferralInv'
<1>1. \A r \in Requests : WasDeferred(r)' <=> WasDeferred(r)
  BY DEF WasDeferred
<1>2. ASSUME NEW r \in Requests, NEW q \in Procs, Telling(q, r) PROVE Telling(q, r)'
  BY <1>2 DEF Telling
<1>3. \A r \in Requests : Recorded(r)'
  BY <1>2 DEF DeferralInv, Recorded
<1>4. ASSUME NEW q \in Procs PROVE RoleOK(q)'
  BY DEF DeferralInv, RoleOK, WasDeferred
<1>5. QED
  BY <1>3, <1>4 DEF DeferralInv

LEMMA DeferralNext ==
  ASSUME IsolatedCalls, IndInv, SerialInv, DeferralInv, [Act]_work
  PROVE  DeferralInv'
<1>1. TypeOK /\ HandlerInv
  BY DEF IndInv
<1>2. ASSUME NEW p \in Procs, Step(p) PROVE DeferralInv'
  BY <1>1, <1>2, DeferralStep
<1>3. ASSUME NEW p \in Procs, Begin(p) PROVE DeferralInv'
  <2>1. PICK r \in Requests : \/ BeginCreate(p, r) \/ BeginApprove(p, r)
                              \/ BeginReject(p, r) \/ BeginCancel(p, r)
    BY <1>3 DEF Begin
  <2>2. /\ UNCHANGED <<status, notices>> /\ Others(p)
        /\ p \in Workers /\ pc[p] = "idle" /\ pc'[p] # "defer"
    BY <1>1, <1>3, <2>1, BeginOthers
    DEF BeginCreate, BeginApprove, BeginReject, BeginCancel, Start, At, Goto, rows, TypeOK, LocalTypeOK
  <2>3. QED
    BY <1>3, <2>2, DeferralQuiet DEF Others, Telling
<1>4. ASSUME NEW p \in Procs, BeginRetry(p) PROVE DeferralInv'
  <2>1. /\ UNCHANGED <<status, notices, req, cause>> /\ pc[p] = "idle" /\ pc'[p] = "loop"
        /\ \A q \in Procs \ {p} : pc'[q] = pc[q] /\ op'[q] = op[q]
    BY <1>1, <1>4 DEF BeginRetry, At, Goto, rows, TypeOK, LocalTypeOK
  <2>2. req[p] \notin Requests
    BY <1>1, <2>1 DEF HandlerInv, HandlerOK, AtWork
  <2>3. QED
    BY <1>4, <2>1, <2>2, DeferralQuiet DEF Telling
<1>5. CASE Tick \/ UNCHANGED work
  <2>1. UNCHANGED <<status, notices, pc, op, req, cause>>
    BY <1>5 DEF Tick, work, rows, locals, call
  <2>2. QED
    BY <2>1 DEF DeferralInv, Recorded, RoleOK, Telling, WasDeferred
<1>6. ~(faults < MaxFaults)
  BY <1>1 DEF IsolatedCalls, TypeOK, StoreTypeOK
<1>7. QED
  BY <1>2, <1>3, <1>4, <1>5, <1>6 DEF Act, QueryFails, Crash

--------------------------------------------------------------------------------
(* What is owed to requests in flight, and what there is to spend, which   *)
(* HCM would show.                                                         *)
Awaiting == {r \in Requests : status[r] \in InFlight}
OwedOf == [r \in Requests |-> IF r \in Awaiting THEN Dur[r] ELSE 0]
Owed == Total(OwedOf, Requests)
Grant == Opening + Total(ChargedOf, Requests)

LEMMA AmountInt ==
  ASSUME NEW r \in Requests
  PROVE  /\ \A k : Amount(r, k) \in Int
         /\ Net(r) \in Int /\ Charged(r) \in Int /\ OwedOf[r] \in Int
         /\ ChargedOf[r] = Charged(r) /\ NetOf[r] = Net(r)
<1>1. \A k : Amount(r, k) \in Int
  BY DurAssumption DEF Amount
<1>2. QED
  BY <1>1, DurAssumption DEF Net, Released, Charged, OwedOf, ChargedOf, NetOf

LEMMA FundsInt == Owed \in Int /\ Grant \in Int
<1>1. Total(OwedOf, Requests) \in Int /\ Total(ChargedOf, Requests) \in Int
  <2>1. \A r \in Requests : OwedOf[r] \in Int /\ ChargedOf[r] \in Int
    BY AmountInt
  <2>2. QED
    BY <2>1, RequestsAssumption, TotalInt
<1>2. QED
  BY <1>1, OpeningAssumption DEF Owed, Grant

(* When nobody is booking, the ledger has what there is to spend less what *)
(* is owed, if no adjustment is in it.                                     *)
LEMMA SettledFunds ==
  ASSUME other = Opening, \A r \in Requests : Settled(r) /\ ~RejectedLate(r)
  PROVE  LedgerSum = Grant - Owed
<1>1. ASSUME NEW r \in Requests PROVE Charged(r) = Net(r) + OwedOf[r]
  <2>1. Settled(r) /\ ~RejectedLate(r) /\ Dur[r] \in Nat
    BY DurAssumption
  <2>2. Net(r) = IF status[r] \in Active THEN -Dur[r] ELSE 0
    BY <2>1, SettledNet
  <2>3. Charged(r) = IF status[r] = "APPROVED" THEN -Dur[r] ELSE 0
    BY <2>1 DEF Settled, Charged, Amount, Debits, InFlight, Refusals
  <2>4. QED
    BY <2>1, <2>2, <2>3 DEF OwedOf, Awaiting, Active, InFlight
<1>2. \A r \in Requests : /\ NetOf[r] \in Int /\ OwedOf[r] \in Int
                          /\ ChargedOf[r] = NetOf[r] + OwedOf[r]
  BY <1>1, AmountInt
<1>3. Total(ChargedOf, Requests) = Total(NetOf, Requests) + Total(OwedOf, Requests)
  BY <1>2, RequestsAssumption, TotalPlus
<1>4. Total(NetOf, Requests) \in Int /\ Total(OwedOf, Requests) \in Int
  BY <1>2, RequestsAssumption, TotalInt
<1>5. QED
  BY <1>3, <1>4, LedgerTotal, OpeningAssumption DEF Grant, Owed


(* The sums of the balance check, in the same terms.                       *)
AmountOf(k) == [r \in Requests |-> Amount(r, k)]
ReleasedOf == [r \in Requests |-> Released(r)]

LEMMA ReservedSum ==
  ASSUME NEW p, flight[p] \subseteq Requests
  PROVE  Reserved(p) = Total(AmountOf("reservation"), flight[p])
<1> DEFINE S == flight[p]
           f == AmountOf("reservation")
           Sums(g) == g = [s \in SUBSET S |->
                             IF s = {} THEN 0 ELSE Amount(Pick(s), "reservation") + g[s \ {Pick(s)}]]
           k == CHOOSE g : Sums(g)
           h == CHOOSE g : Adds(g, f, S)
<1>1. \A s \in SUBSET S : s # {} => f[Pick(s)] = Amount(Pick(s), "reservation")
  BY Picked DEF AmountOf
<1>2. IsFiniteSet(S)
  BY RequestsAssumption, FS_Subset
<1>3. Reserved(p) = k[S]
  BY DEF Reserved, MapThenSumSet, MapThenFoldSet, Pick
<1>4. Total(f, S) = h[S]
  BY DEF Total
<1>5. \A g : Adds(g, f, S) <=> Sums(g)
  <2> HIDE DEF f, S
  <2>1. QED
    BY <1>1 DEF Adds
<1>6. \E g : Adds(g, f, S)
  BY <1>2, AddsExists
<1> HIDE DEF f, S
<1>7. Adds(k, f, S) /\ Adds(h, f, S)
  <2>1. Sums(k)
    BY <1>5, <1>6
  <2>2. QED
    BY <1>5, <1>6, <2>1
<1> HIDE DEF k, h
<1>8. k[S] = h[S]
  BY <1>2, <1>7, AddsUnique
<1>9. QED
  BY <1>3, <1>4, <1>8 DEF f, S

LEMMA FreedSum ==
  ASSUME NEW p, flight[p] \subseteq Requests
  PROVE  Freed(p) = Total(ReleasedOf, flight[p])
<1> DEFINE S == flight[p]
           Sums(g) == g = [s \in SUBSET S |->
                             IF s = {} THEN 0 ELSE Released(Pick(s)) + g[s \ {Pick(s)}]]
           k == CHOOSE g : Sums(g)
           h == CHOOSE g : Adds(g, ReleasedOf, S)
<1>1. \A s \in SUBSET S : s # {} => ReleasedOf[Pick(s)] = Released(Pick(s))
  BY Picked DEF ReleasedOf
<1>2. IsFiniteSet(S)
  BY RequestsAssumption, FS_Subset
<1>3. Freed(p) = k[S]
  BY DEF Freed, MapThenSumSet, MapThenFoldSet, Pick
<1>4. Total(ReleasedOf, S) = h[S]
  BY DEF Total
<1>5. \A g : Adds(g, ReleasedOf, S) <=> Sums(g)
  <2> HIDE DEF S
  <2>1. QED
    BY <1>1 DEF Adds
<1>6. \E g : Adds(g, ReleasedOf, S)
  BY <1>2, AddsExists
<1> HIDE DEF S
<1>7. Adds(k, ReleasedOf, S) /\ Adds(h, ReleasedOf, S)
  <2>1. Sums(k)
    BY <1>5, <1>6
  <2>2. QED
    BY <1>5, <1>6, <2>1
<1> HIDE DEF k, h
<1>8. k[S] = h[S]
  BY <1>2, <1>7, AddsUnique
<1>9. QED
  BY <1>3, <1>4, <1>8 DEF S

(* Of requests that wait, settled, all that is owed is held in reservations. *)
LEMMA WaitingSums ==
  ASSUME NEW p, flight[p] = Awaiting, \A r \in Requests : Settled(r)
  PROVE  Reserved(p) = -Owed /\ Freed(p) = 0
<1> DEFINE held == [r \in Requests |-> IF r \in Awaiting THEN Amount(r, "reservation") ELSE 0]
           freed == [r \in Requests |-> IF r \in Awaiting THEN Released(r) ELSE 0]
           both == [r \in Requests |-> 0]
<1>1. Awaiting \subseteq Requests
  BY DEF Awaiting
<1>2. ASSUME NEW r \in Awaiting
      PROVE  Amount(r, "reservation") = -Dur[r] /\ Released(r) = 0 /\ Dur[r] \in Int
  <2>1. ledger[r] = {"reservation"} /\ Dur[r] \in Nat
    BY DurAssumption DEF Awaiting, Settled, InFlight
  <2>2. QED
    BY <2>1 DEF Amount, Released, Debits
<1>3. \A r \in Requests : /\ held[r] \in Int /\ OwedOf[r] \in Int
                          /\ both[r] = held[r] + OwedOf[r] /\ freed[r] = 0 /\ both[r] = 0
  BY <1>2 DEF OwedOf
<1>4. Total(AmountOf("reservation"), Awaiting) = Total(held, Requests)
  <2>1. \A r \in Awaiting : AmountOf("reservation")[r] \in Int
    BY <1>1, AmountInt DEF AmountOf
  <2>2. \A r \in Requests : held[r] = IF r \in Awaiting THEN AmountOf("reservation")[r] ELSE 0
    BY DEF AmountOf
  <2> HIDE DEF held
  <2>3. QED
    BY <1>1, <2>1, <2>2, RequestsAssumption, TotalOfSome
<1>5. Total(ReleasedOf, Awaiting) = Total(freed, Requests)
  <2>1. \A r \in Awaiting : ReleasedOf[r] \in Int
    BY <1>1, AmountInt DEF ReleasedOf, Released
  <2>2. \A r \in Requests : freed[r] = IF r \in Awaiting THEN ReleasedOf[r] ELSE 0
    BY DEF ReleasedOf
  <2> HIDE DEF freed
  <2>3. QED
    BY <1>1, <2>1, <2>2, RequestsAssumption, TotalOfSome
<1> HIDE DEF held, freed, both
<1>6. Total(both, Requests) = Total(held, Requests) + Total(OwedOf, Requests)
  BY <1>3, RequestsAssumption, TotalPlus
<1>7. Total(both, Requests) = 0 /\ Total(freed, Requests) = 0
  BY <1>3, TotalZero, RequestsAssumption
<1>8. Total(held, Requests) \in Int /\ Total(OwedOf, Requests) \in Int
  BY <1>3, RequestsAssumption, TotalInt
<1>9. QED
  BY <1>1, <1>4, <1>5, <1>6, <1>7, <1>8, ReservedSum, FreedSum DEF Owed

--------------------------------------------------------------------------------
(* The policy allows no debt, no adjustment was booked, none was deferred  *)
(* and none rejected late.                                                 *)
Plain == ~AllowsNegative /\ adjusted = 0 /\ \A r \in Requests : ~WasDeferred(r) /\ ~RejectedLate(r)

Spending(p) == pc[p] \in {"post", "usage"} \/ (pc[p] = "release" /\ cause[p] = "approve")

(* What the balance check has computed so far is true, and there is enough *)
(* for whoever has passed it.                                              *)
FundsOK(p) ==
  /\ pc[p] \in {"flight", "tally", "reservations"} => avail[p] = Grant - Owed
  /\ pc[p] = "releases" => avail[p] = Grant
  /\ pc[p] \in {"tally", "releases", "reservations"} => flight[p] = Awaiting
  /\ Spending(p) => Grant >= Dur[req[p]]

Funded == other = Opening /\ Grant >= 0 /\ \A p \in Procs : FundsOK(p)

FundsInv == DeferralInv /\ adjusted \in Nat /\ (Plain => Funded)

LEMMA AtRestFunds ==
  ASSUME NEW p, ~AtWork(p)
  PROVE  FundsOK(p)
BY DEF AtWork, FundsOK, Spending

(* While nothing was deferred, one handler at a time works on requests,    *)
(* and unless it is booking every request is settled.                      *)
LEMMA OneAtWork ==
  ASSUME OneWorker, HandlerInv, DeferralInv, Plain, NEW p \in Procs, AtWork(p)
  PROVE  \A q \in Procs \ {p} : ~AtWork(q) /\ req[q] \notin Requests
<1>1. \A q \in Procs : req[q] \in Requests <=> AtWork(q)
  BY DEF HandlerInv, HandlerOK
<1>2. \A q \in Procs : req[q] \in Requests => q \in Workers
  BY DEF DeferralInv, RoleOK, Plain
<1>3. QED
  BY <1>1, <1>2 DEF OneWorker

LEMMA AllSettled ==
  ASSUME OneWorker, HandlerInv, SerialInv, DeferralInv, Plain, NEW p \in Procs, AtWork(p), ~Midway(p)
  PROVE  \A r \in Requests : Settled(r)
BY OneAtWork DEF SerialInv, SerialOK

(* Grant and Owed depend on the statuses and the ledger.                   *)
LEMMA SameFunds ==
  ASSUME UNCHANGED <<status, ledger>>
  PROVE  Grant' = Grant /\ Owed' = Owed /\ Awaiting' = Awaiting
<1>1. Awaiting' = Awaiting
  BY DEF Awaiting
<1>2. ChargedOf' = ChargedOf
  BY DEF ChargedOf, Charged, Amount
<1>3. OwedOf' = OwedOf
  BY <1>1 DEF OwedOf
<1>4. QED
  BY <1>1, <1>2, <1>3 DEF Grant, Owed


(* Only a confirmed usage takes from what there is to spend.               *)
LEMMA GrantStep ==
  ASSUME TypeOK, HandlerInv, SerialInv, NEW p \in Procs, Step(p), Grant >= 0, FundsOK(p)
  PROVE  Grant' >= 0
<1> USE DEF TypeOK, StoreTypeOK, At, Append
<1>1. CASE ConfirmUsage(p)
  <2> DEFINE r == req[p]
  <2>1. /\ r \in Requests /\ ledger[r] = {"reservation", "approve"}
        /\ ledger' = [ledger EXCEPT ![r] = @ \union {"usage"}]
        /\ Grant >= Dur[r] /\ Dur[r] \in Nat
    BY <1>1, DurAssumption
    DEF ConfirmUsage, HandlerInv, HandlerOK, AtWork, SerialInv, PositionOK, FundsOK, Spending
  <2> HIDE DEF r
  <2>2. \A q \in Requests \ {r} : ChargedOf'[q] = ChargedOf[q]
    BY <2>1 DEF ChargedOf, Charged, Amount
  <2>3. ChargedOf[r] = 0 /\ ChargedOf'[r] = -Dur[r]
    BY <2>1 DEF ChargedOf, Charged, Amount, Debits
  <2>4. \A q \in Requests : ChargedOf[q] \in Int /\ ChargedOf'[q] \in Int
    BY <2>1, <2>2, <2>3, AmountInt
  <2>5. IsFiniteSet(Requests \ {r})
    BY RequestsAssumption, FS_Subset
  <2>6. Total(ChargedOf, Requests \ {r}) = Total(ChargedOf', Requests \ {r})
    BY <2>2, <2>5, TotalSame
  <2>7. /\ Total(ChargedOf, Requests) = ChargedOf[r] + Total(ChargedOf, Requests \ {r})
        /\ Total(ChargedOf', Requests) = ChargedOf'[r] + Total(ChargedOf', Requests \ {r})
    BY <2>1, <2>4, RequestsAssumption, TotalRemove
  <2>8. Total(ChargedOf, Requests \ {r}) \in Int
    BY <2>4, <2>5, TotalInt
  <2>9. QED
    BY <2>1, <2>3, <2>6, <2>7, <2>8, OpeningAssumption DEF Grant
<1>2. CASE ~ConfirmUsage(p)
  <2>1. ASSUME NEW r \in Requests
        PROVE  ChargedOf[r] \in Int /\ ChargedOf'[r] \in Int /\ ChargedOf[r] <= ChargedOf'[r]
    <3>1. Dur[r] \in Nat
      BY DurAssumption
    <3>2. "usage" \in ledger'[r] <=> "usage" \in ledger[r]
      BY <1>2, Effects DEF Reserve, Release, Reverse, HandlerInv, HandlerOK, Causes
    <3>3. "reversal" \in ledger[r] => "reversal" \in ledger'[r]
      BY StepMonotone DEF Monotone
    <3>4. QED
      BY <3>1, <3>2, <3>3 DEF ChargedOf, Charged, Amount, Debits
  <2>2. Total(ChargedOf, Requests) <= Total(ChargedOf', Requests)
    BY <2>1, RequestsAssumption, TotalAtMost
  <2>3. Total(ChargedOf, Requests) \in Int /\ Total(ChargedOf', Requests) \in Int
    BY <2>1, RequestsAssumption, TotalInt
  <2>4. QED
    BY <2>2, <2>3, OpeningAssumption DEF Grant
<1>3. QED
  BY <1>1, <1>2

(* A handler that passes the balance check has found enough to spend.      *)
LEMMA JudgeFunds ==
  ASSUME TypeOK, NEW p \in Procs, ~AllowsNegative, Judge(p, Grant), pc'[p] = "post"
  PROVE  UNCHANGED <<status, ledger>> /\ req'[p] = req[p] /\ Grant >= Dur[req[p]]
BY DEF Judge, Finish, Goto, rows, call, TypeOK, LocalTypeOK

LEMMA FundsRead ==
  ASSUME TypeOK, NEW p \in Procs, FundsOK(p), other = Opening, ~AllowsNegative,
         \A r \in Requests : Settled(r) /\ ~RejectedLate(r),
         ReadLedger(p) \/ ReadFlight(p) \/ ReadHeld(p)
  PROVE  FundsOK(p)'
<1> USE DEF TypeOK, LocalTypeOK, At, Goto, rows, call
<1>1. UNCHANGED <<status, ledger, req, cause>> \/ pc'[p] = "idle"
  BY DEF ReadLedger, ReadFlight, ReadHeld, Judge, Finish
<1>2. CASE pc'[p] = "idle"
  BY <1>2 DEF FundsOK, Spending
<1>3. CASE UNCHANGED <<status, ledger, req, cause>> /\ pc'[p] # "idle"
  <2>1. Grant' = Grant /\ Owed' = Owed /\ Awaiting' = Awaiting /\ Grant \in Int /\ Owed \in Int
    BY <1>3, SameFunds, FundsInt
  <2>2. CASE ReadLedger(p)
    <3>1. pc'[p] = "flight" /\ avail'[p] = LedgerSum
      BY <2>2 DEF ReadLedger
    <3>2. QED
      BY <2>1, <3>1, SettledFunds DEF FundsOK, Spending
  <2>3. CASE ReadFlight(p) /\ Awaiting # {}
    <3>1. pc[p] = "flight" /\ pc'[p] = "tally" /\ avail'[p] = avail[p] /\ flight'[p] = Awaiting
      BY <2>3 DEF ReadFlight, Awaiting
    <3>2. QED
      BY <2>1, <3>1 DEF FundsOK, Spending
  <2>4. CASE ReadFlight(p) /\ Awaiting = {}
    <3>1. pc[p] = "flight" /\ Judge(p, avail[p])
      BY <2>4 DEF ReadFlight, Awaiting
    <3>2. Owed = 0
      <4>1. \A r \in Requests : OwedOf[r] = 0
        BY <2>4 DEF OwedOf
      <4>2. QED
        BY <4>1, TotalZero, RequestsAssumption DEF Owed
    <3>3. Judge(p, Grant)
      BY <2>1, <3>1, <3>2 DEF FundsOK
    <3>4. pc'[p] \in {"refresh", "post"}
      BY <1>3, <3>3 DEF Judge, Finish
    <3>5. QED
      BY <1>3, <2>1, <3>3, <3>4, JudgeFunds DEF FundsOK, Spending
  <2>5. CASE ReadHeld(p)
    <3>1. pc[p] \in {"tally", "releases", "reservations"} /\ flight[p] = Awaiting
      BY <2>5 DEF ReadHeld, FundsOK
    <3>2. Reserved(p) = -Owed /\ Freed(p) = 0
      BY <3>1, WaitingSums
    <3>3. CASE pc[p] = "tally"
      <4>1. /\ flight'[p] = Awaiting
            /\ \/ pc'[p] = "releases" /\ avail'[p] = avail[p] - Reserved(p)
               \/ pc'[p] = "reservations" /\ avail'[p] = avail[p] - Freed(p)
        BY <2>5, <3>1, <3>3 DEF ReadHeld
      <4>2. QED
        BY <2>1, <3>2, <3>3, <4>1 DEF FundsOK, Spending
    <3>4. CASE pc[p] \in {"releases", "reservations"}
      <4>1. \/ pc[p] = "releases" /\ Judge(p, avail[p] - Freed(p))
            \/ pc[p] = "reservations" /\ Judge(p, avail[p] - Reserved(p))
        <5> HIDE DEF Judge, Freed, Reserved
        <5>1. pc[p] # "tally"
          BY <3>4
        <5>2. QED
          BY <2>5, <5>1, Zenon DEF ReadHeld
      <4>2. Judge(p, Grant)
        <5>1. pc[p] = "releases" => avail[p] - Freed(p) = Grant
          BY <2>1, <3>2 DEF FundsOK
        <5>2. pc[p] = "reservations" => avail[p] - Reserved(p) = Grant
          BY <2>1, <3>2 DEF FundsOK
        <5>3. QED
          BY <4>1, <5>1, <5>2
      <4>3. pc'[p] \in {"refresh", "post"}
        BY <1>3, <4>2 DEF Judge, Finish
      <4>4. QED
        BY <1>3, <2>1, <4>2, <4>3, JudgeFunds DEF FundsOK, Spending
    <3>5. QED
      BY <3>1, <3>3, <3>4
  <2>6. QED
    BY <2>2, <2>3, <2>4, <2>5
<1>4. QED
  BY <1>1, <1>2, <1>3


(* Past the check, what was found enough stays so until it is booked.      *)
LEMMA FundsSpend ==
  ASSUME TypeOK, NEW p \in Procs, Step(p), AtWork(p), HandlerOK(p), FundsOK(p),
         ~ReadLedger(p), ~ReadFlight(p), ~ReadHeld(p)
  PROVE  FundsOK(p)'
<1> USE DEF TypeOK, StoreTypeOK, LocalTypeOK, At, Goto, rows, call
<1>1. pc'[p] \notin {"flight", "tally", "releases", "reservations"}
  BY StepInto
<1>2. pc'[p] # "post"
  BY StepInto DEF NextPending, AtWork
<1>3. CASE pc'[p] = "release"
  <2>1. CASE PostAccepted(p)
    <3>1. UNCHANGED <<status, ledger, req>> /\ Grant >= Dur[req[p]]
      BY <2>1 DEF PostAccepted, FundsOK, Spending
    <3>2. QED
      BY <1>1, <3>1, SameFunds DEF FundsOK
  <2>2. CASE Close(p) \/ SetCancelled(p)
    <3>1. cause'[p] # "approve"
      BY <2>2 DEF Close, SetCancelled, HandlerOK
    <3>2. QED
      BY <1>1, <1>3, <3>1 DEF FundsOK, Spending
  <2>3. QED
    BY <1>3, <2>1, <2>2, StepInto
<1>4. CASE pc'[p] = "usage"
  <2>1. Release(p)
    BY <1>4, StepInto
  <2>2. UNCHANGED <<status, req>> /\ cause[p] = "approve" /\ pc[p] = "release"
    BY <1>4, <2>1 DEF Release
  <2>3. \A r \in Requests : ledger'[r] = ledger[r] \/ ledger'[r] = ledger[r] \union {"approve"}
    BY <2>1, <2>2 DEF Release, Append
  <2>4. ChargedOf' = ChargedOf
    BY <2>3 DEF ChargedOf, Charged, Amount
  <2>5. Grant' = Grant /\ Grant >= Dur[req[p]]
    BY <2>2, <2>4 DEF Grant, FundsOK, Spending
  <2>6. QED
    BY <1>1, <2>2, <2>5 DEF FundsOK
<1>5. QED
  BY <1>1, <1>2, <1>3, <1>4 DEF FundsOK, Spending

LEMMA FundsStep ==
  ASSUME OneWorker, IndInv, SerialInv, DeferralInv, Plain, Funded, other' = other,
         NEW p \in Procs, Step(p), HandlerInv'
  PROVE  Funded'
<1>1. TypeOK /\ HandlerInv /\ Others(p)
  BY StepOthers DEF IndInv
<1>2. FundsOK(p) /\ HandlerOK(p)
  BY <1>1 DEF Funded, HandlerInv
<1>3. other' = Opening /\ Grant' >= 0
  BY <1>1, <1>2, GrantStep DEF Funded
<1>4. CASE AtWork(p)
  <2>1. ASSUME NEW q \in Procs \ {p} PROVE FundsOK(q)'
    <3>1. ~AtWork(q)'
      BY <1>1, <1>4, OneAtWork DEF AtWork, Others
    <3>2. QED
      BY <3>1 DEF AtWork, FundsOK, Spending
  <2>2. ASSUME ReadLedger(p) \/ ReadFlight(p) \/ ReadHeld(p) PROVE FundsOK(p)'
    <3>1. ~Midway(p)
      BY <2>2 DEF ReadLedger, ReadFlight, ReadHeld, At, Midway
    <3>2. \A r \in Requests : Settled(r)
      BY <1>1, <1>4, <3>1, AllSettled
    <3>3. QED
      BY <1>1, <1>2, <2>2, <3>2, FundsRead DEF Funded, Plain
  <2>3. FundsOK(p)'
    BY <1>1, <1>2, <1>4, <2>2, FundsSpend
  <2>4. QED
    BY <1>3, <2>1, <2>3 DEF Funded
<1>5. CASE ~AtWork(p)
  <2>1. NextPending(p) \/ Sweep(p) \/ NextExpired(p) \/ EndRetry(p)
    BY <1>5 DEF AtWork, Step, At, Reserve, CreateApproval, Decide, PostAccepted, PostRefused,
       PostFailed, CountAttempt, Release, ConfirmUsage, SetApproved, Defer, Close, Correct, Reverse,
       SetCancelled, Audit, Notify, ReadLedger, ReadFlight, ReadHeld, Refresh, Insert
  <2>2. todo[p] = {}
    <3>1. \A r \in todo[p] : r \in Requests /\ status[r] = "APPROVED_PENDING_HCM_UPDATE"
      BY <1>1 DEF SerialInv, SerialOK, TypeOK, LocalTypeOK
    <3>2. QED
      BY <3>1 DEF Plain, WasDeferred
  <2>3. CASE Sweep(p)
    <3>1. UNCHANGED <<status, ledger, req, cause, avail, flight>> /\ pc'[p] = "sweep"
      BY <1>1, <2>3 DEF Sweep, Goto, rows, call, check, TypeOK, LocalTypeOK
    <3>2. ASSUME NEW q \in Procs PROVE FundsOK(q)'
      BY <1>1, <3>1, SameFunds DEF Others, Funded, FundsOK, Spending
    <3>3. QED
      BY <1>3, <3>2 DEF Funded
  <2>4. CASE EndRetry(p)
    <3>1. /\ UNCHANGED <<status, ledger>> /\ pc'[p] = "idle"
          /\ \A q \in Procs \ {p} : avail'[q] = avail[q] /\ flight'[q] = flight[q]
      BY <1>1, <2>4 DEF EndRetry, Finish, Goto, rows, TypeOK, LocalTypeOK
    <3>2. ASSUME NEW q \in Procs PROVE FundsOK(q)'
      BY <1>1, <3>1, SameFunds DEF Others, Funded, FundsOK, Spending
    <3>3. QED
      BY <1>3, <3>2 DEF Funded
  <2>5. QED
    BY <2>1, <2>2, <2>3, <2>4 DEF NextPending, NextExpired
<1>6. QED
  BY <1>4, <1>5


(* A step of the workflow, whosever it is.                                 *)
LEMMA FundsAct ==
  ASSUME IsolatedCalls, OneWorker, IndInv, SerialInv, DeferralInv, Plain, Funded, other' = other,
         [Act]_work, IndInv'
  PROVE  Funded'
<1>1. TypeOK /\ HandlerInv'
  BY DEF IndInv
<1>2. ASSUME NEW p \in Procs, Step(p) PROVE Funded'
  BY <1>1, <1>2, FundsStep
<1>3. ASSUME UNCHANGED <<status, ledger, avail, flight>>, NEW p \in Procs, Others(p),
             ~Spending(p)', pc'[p] \notin {"flight", "tally", "releases", "reservations"}
      PROVE  Funded'
  <2>1. Grant' = Grant /\ Owed' = Owed /\ Awaiting' = Awaiting
    BY <1>3, SameFunds
  <2>2. ASSUME NEW q \in Procs \ {p} PROVE FundsOK(q)'
    BY <1>3, <2>1 DEF Others, Funded, FundsOK, Spending
  <2>3. FundsOK(p)'
    BY <1>3 DEF FundsOK
  <2>4. QED
    BY <2>1, <2>2, <2>3 DEF Funded
<1>4. ASSUME NEW p \in Procs, Begin(p) PROVE Funded'
  <2>1. PICK r \in Requests : \/ BeginCreate(p, r) \/ BeginApprove(p, r)
                              \/ BeginReject(p, r) \/ BeginCancel(p, r)
    BY <1>4 DEF Begin
  <2>2. /\ UNCHANGED <<status, ledger, avail, flight>>
        /\ pc'[p] \in {"ledger", "insert", "decide", "correct", "cancelled"}
    BY <1>1, <2>1
    DEF BeginCreate, BeginApprove, BeginReject, BeginCancel, Start, Goto, rows, check, TypeOK, LocalTypeOK
  <2>3. QED
    BY <1>1, <1>3, <1>4, <2>2, BeginOthers DEF Spending
<1>5. ASSUME NEW p \in Procs, BeginRetry(p) PROVE Funded'
  <2>1. UNCHANGED <<status, ledger, avail, flight>> /\ Others(p) /\ pc'[p] = "loop"
    BY <1>1, <1>5 DEF BeginRetry, Goto, Others, rows, check, TypeOK, LocalTypeOK
  <2>2. QED
    BY <1>3, <1>5, <2>1 DEF Spending
<1>6. CASE Tick \/ UNCHANGED work
  <2>1. UNCHANGED <<status, ledger, avail, flight, pc, req, cause>>
    BY <1>6 DEF Tick, work, rows, locals, call, check
  <2>2. QED
    BY <2>1, SameFunds DEF Funded, FundsOK, Spending
<1>7. ~(faults < MaxFaults)
  BY <1>1 DEF IsolatedCalls, TypeOK, StoreTypeOK
<1>8. QED
  BY <1>2, <1>4, <1>5, <1>6, <1>7 DEF Act, QueryFails, Crash

LEMMA FundsNext ==
  ASSUME IsolatedCalls, OneWorker, IndInv, SerialInv, FundsInv, [NextWithSync]_<<vars, syncing>>, IndInv'
  PROVE  FundsInv'
<1>1. [Act]_work
  BY SyncLeavesWork DEF NextWithSync, Workflow
<1>2. DeferralInv'
  BY <1>1, DeferralNext DEF FundsInv
<1>3. adjusted' \in Nat /\ (adjusted' = 0 => adjusted = 0 /\ other' = other)
  BY DEF FundsInv, NextWithSync, Workflow, FetchBalances, Compare, Adjust, vars, syncing
<1>4. ASSUME NEW r \in Requests, WasDeferred(r) PROVE WasDeferred(r)'
  <2>1. CASE UNCHANGED Store
    BY <1>4, <2>1 DEF Store, WasDeferred
  <2>2. ASSUME NEW p \in Procs, Step(p) PROVE WasDeferred(r)'
    BY <1>4, <2>2, DeferredStays DEF IndInv, FundsInv
  <2>3. QED
    BY <1>1, <2>1, <2>2, OnlyStepWrites
<1>5. ASSUME NEW r \in Requests, RejectedLate(r) PROVE RejectedLate(r)'
  <2>1. CASE UNCHANGED Store
    BY <1>5, <2>1 DEF Store, RejectedLate
  <2>2. ASSUME NEW p \in Procs, Step(p) PROVE RejectedLate(r)'
    BY <1>5, <2>2, StepMonotone DEF IndInv, Monotone, RejectedLate
  <2>3. QED
    BY <1>1, <2>1, <2>2, OnlyStepWrites
<1>6. Plain' => Plain
  BY <1>3, <1>4, <1>5 DEF Plain
<1>7. ASSUME Plain' PROVE Funded'
  BY <1>1, <1>3, <1>6, <1>7, FundsAct DEF FundsInv, Plain
<1>8. QED
  BY <1>2, <1>3, <1>7 DEF FundsInv

LEMMA FundsInit ==
  ASSUME Opening >= 0, InitWithSync
  PROVE  FundsInv
<1>1. DeferralInv
  BY DeferralInit DEF InitWithSync
<1>2. Grant = Opening
  <2>1. \A r \in Requests : ChargedOf[r] = 0
    BY DEF InitWithSync, Init, ChargedOf, Charged, Amount
  <2>2. QED
    BY <2>1, TotalZero, RequestsAssumption, OpeningAssumption DEF Grant
<1>3. \A p \in Procs : FundsOK(p)
  BY DEF InitWithSync, Init, FundsOK, Spending
<1>4. QED
  BY <1>1, <1>2, <1>3 DEF InitWithSync, Init, FundsInv, Funded

(* When one API handler runs at a time, confirmed usage stays within the   *)
(* balance, whatever was created, approved, rejected and cancelled before  *)
(* (but for late rejections, whose credit the check takes for real): the   *)
(* check reads the ledger, the requests in flight and what is held for     *)
(* them one after the other and yet sees one state, and what it has found  *)
(* enough is still there when the usage is booked after the post to HCM.   *)
THEOREM UsageCovered ==
  ASSUME IsolatedCalls, OneWorker, Opening >= 0
  PROVE  SpecWithSync => []UsageWithinBalance
<1>1. InitWithSync => FundsInv
  BY FundsInit
<1>2. ASSUME IndInv, SerialInv, FundsInv, IndInv', [NextWithSync]_<<vars, syncing>> PROVE FundsInv'
  BY <1>2, FundsNext
<1>3. FundsInv => UsageWithinBalance
  <2> SUFFICES ASSUME FundsInv, Plain PROVE Opening + MapThenSumSet(Charged, Requests) >= 0
    BY DEF UsageWithinBalance, Plain, FundsInv
  <2>1. QED
    BY ChargedSum DEF FundsInv, Funded, Grant
<1>4. QED
  BY <1>1, <1>2, <1>3, SerialWithSync, PTL DEF SpecWithSync
================================================================================
