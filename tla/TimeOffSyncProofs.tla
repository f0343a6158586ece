---------------------------- MODULE TimeOffSyncProofs ----------------------------
(* Proofs about TimeOffSync, for any syncs, balance keys and bounds. *)
EXTENDS TimeOffSync, SequenceTheorems, TLAPS

(* Types, the row a sync works on and the row of the flag: they hold       *)
(* whatever fails.                                                         *)
Base == TypeOK /\ KeyKnown /\ RowKnown

(* Writing the flag leaves its row in place.                               *)
LEMMA Written ==
  ASSUME NEW s \in Seq(BOOLEAN), s # <<>>, NEW b \in BOOLEAN
  PROVE  /\ [s EXCEPT ![1] = b] \in Seq(BOOLEAN)
         /\ [s EXCEPT ![1] = b] # <<>>
         /\ Head([s EXCEPT ![1] = b]) = b
<1> DEFINE f == [s EXCEPT ![1] = b]
<1>1. 1 \in 1..Len(s)
  BY EmptySeq, LenProperties
<1>2. f \in Seq(BOOLEAN) /\ Len(f) = Len(s) /\ f[1] = b
  BY <1>1, ExceptSeq
<1>3. f # <<>>
  <2>1. Len(s) # 0
    BY <1>1
  <2>2. QED
    BY <1>2, <2>1, EmptySeq
<1>4. Head(f) = f[1]
  BY <1>2, <1>3
<1>5. QED
  BY <1>2, <1>3, <1>4

(* The first sync creates the row.                                         *)
LEMMA Created ==
  ASSUME NEW s \in Seq(BOOLEAN)
  PROVE  Append(s, TRUE) \in Seq(BOOLEAN) /\ Append(s, TRUE) # <<>>
<1>1. Append(s, TRUE) \in Seq(BOOLEAN) /\ Len(Append(s, TRUE)) = Len(s) + 1 /\ Len(s) \in Nat
  OBVIOUS
<1>2. Append(s, TRUE) # <<>>
  <2>1. Len(Append(s, TRUE)) # 0
    BY <1>1
  <2>2. QED
    BY <2>1, EmptySeq
<1>3. QED
  BY <1>1, <1>2

LEMMA BaseInit == Init => Base
<1> SUFFICES ASSUME Init PROVE Base
  OBVIOUS
<1> USE DEF Init
<1>1. ledger \in [Keys -> Int]
  <2>1. PICK d \in [Imported -> Drift] :
          ledger = [k \in Keys |-> IF k \in Imported THEN d[k] ELSE 0]
    OBVIOUS
  <2>2. \A k \in Imported : d[k] \in Int
    BY DriftAssumption
  <2>3. QED
    BY <2>1, <2>2
<1>2. 0 \in 0..MaxFaults /\ 0 \in 0..MaxEdits
  BY LimitsAssumption
<1>3. flags \in Seq(BOOLEAN)
  OBVIOUS
<1>4. page \in [Syncs -> [Keys -> Int]] /\ clean \in [Syncs -> BOOLEAN]
  OBVIOUS
<1>5. lost \in BOOLEAN
  OBVIOUS
<1>6. QED
  BY <1>1, <1>2, <1>3, <1>4, <1>5 DEF Base, TypeOK, KeyKnown, RowKnown, Labels

LEMMA BaseNext == Base /\ [Next]_vars => Base'
<1> SUFFICES ASSUME Base, [Next]_vars PROVE Base'
  OBVIOUS
<1> USE DEF Base, TypeOK, KeyKnown, RowKnown, Goto, store, locals, history, Labels
<1>1. ASSUME NEW p \in Syncs, Begin(p) PROVE Base'
  BY <1>1 DEF Begin
<1>2. ASSUME NEW p \in Syncs, Precheck(p) PROVE Base'
  BY <1>2 DEF Precheck
<1>3. ASSUME NEW p \in Syncs, Check(p) PROVE Base'
  <2>1. (~Locked /\ flags # <<>>) \in BOOLEAN
    BY DEF Locked
  <2>2. QED
    BY <1>3, <2>1 DEF Check
<1>4. ASSUME NEW p \in Syncs, Lock(p) PROVE Base'
  <2>1. flags' \in Seq(BOOLEAN) /\ flags' # <<>>
    <3>1. CASE found[p]
      BY <1>4, <3>1, Written DEF Lock
    <3>2. CASE ~found[p]
      BY <1>4, <3>2, Created DEF Lock
    <3>3. QED
      BY <3>1, <3>2
  <2>2. QED
    BY <1>4, <2>1 DEF Lock
<1>5. ASSUME NEW p \in Syncs, CreateRun(p) PROVE Base'
  BY <1>5 DEF CreateRun
<1>6. ASSUME NEW p \in Syncs, Import(p) PROVE Base'
  BY <1>6 DEF Import
<1>7. ASSUME NEW p \in Syncs, FetchBalances(p) PROVE Base'
  BY <1>7 DEF FetchBalances
<1>8. ASSUME NEW p \in Syncs, Row(p) PROVE Base'
  <2>1. PICK k \in todo[p] :
          /\ todo' = [todo EXCEPT ![p] = @ \ {k}]
          /\ \/ k \in Imported /\ key' = [key EXCEPT ![p] = k] /\ pc' = [pc EXCEPT ![p] = "sum"]
             \/ UNCHANGED <<key, pc>>
    BY <1>8 DEF Row
  <2>2. /\ todo' \in [Syncs -> SUBSET Keys]
        /\ pc' \in [Syncs -> Labels] /\ key' \in [Syncs -> Keys \union {NoKey}]
        /\ KeyKnown'
    <3>1. CASE UNCHANGED <<key, pc>>
      BY <2>1, <3>1
    <3>2. CASE /\ k \in Imported /\ key' = [key EXCEPT ![p] = k]
               /\ pc' = [pc EXCEPT ![p] = "sum"]
      <4>1. k \in Keys
        BY <3>2, KeysAssumption
      <4>2. todo' \in [Syncs -> SUBSET Keys] /\ pc' \in [Syncs -> Labels]
        BY <2>1, <3>2
      <4>3. key' \in [Syncs -> Keys \union {NoKey}]
        BY <3>2, <4>1
      <4>4. KeyKnown'
        BY <3>2
      <4>5. QED
        BY <4>2, <4>3, <4>4
    <3>3. QED
      BY <2>1, <3>1, <3>2
  <2>3. RowKnown'
    BY <1>8, <2>1 DEF Row
  <2>4. QED
    BY <1>8, <2>2, <2>3 DEF Row
<1>9. ASSUME NEW p \in Syncs, Sum(p) PROVE Base'
  <2>1. page[p][key[p]] - ledger[key[p]] \in Int
    BY <1>9, KeysAssumption DEF Sum
  <2>2. QED
    BY <1>9, <2>1 DEF Sum
<1>10. ASSUME NEW p \in Syncs, Adjust(p) PROVE Base'
  <2>1. ledger[key[p]] + drift[p] \in Int
    BY <1>10, KeysAssumption DEF Adjust
  <2>2. QED
    BY <1>10, <2>1, KeysAssumption DEF Adjust
<1>11. ASSUME NEW p \in Syncs, Retire(p) PROVE Base'
  BY <1>11 DEF Retire, Leave
<1>12. ASSUME NEW p \in Syncs, Unlock(p) \/ Reopen(p) PROVE Base'
  <2>1. flags' \in Seq(BOOLEAN) /\ flags' # <<>>
    BY <1>12, Written DEF Unlock, Reopen
  <2>2. QED
    BY <1>12, <2>1 DEF Unlock, Reopen
<1>13. ASSUME NEW p \in Syncs, Succeed(p) \/ RecordFailure(p) PROVE Base'
  BY <1>13 DEF Succeed, RecordFailure
<1>14. ASSUME NEW p \in Syncs, Audit(p) PROVE Base'
  BY <1>14 DEF Audit
<1>15. ASSUME NEW p \in Syncs, Fails(p) PROVE Base'
  BY <1>15, LimitsAssumption DEF Fails, Leave, Tried
<1>16. CASE Crash
  BY <1>16, LimitsAssumption DEF Crash
<1>17. CASE Edit
  BY <1>17, LimitsAssumption, KeysAssumption DEF Edit
<1>18. CASE UNCHANGED vars
  BY <1>18 DEF vars
<1>19. QED
  BY <1>1, <1>2, <1>3, <1>4, <1>5, <1>6, <1>7, <1>8, <1>9, <1>10, <1>11, <1>12, <1>13, <1>14,
     <1>15, <1>16, <1>17, <1>18 DEF Next, Step
--------------------------------------------------------------------------------
(* The flag.                                                               *)
LEMMA LockInit == Init => NoOrphanLock
  BY DEF Init, NoOrphanLock, Locked

LEMMA LockNext ==
  ASSUME IndInv, [Next]_vars
  PROVE  NoOrphanLock'
<1> USE DEF IndInv, TypeOK, Goto, store, locals, history
(* A sync that moves on while the flags stay as they are.                  *)
<1>1. ASSUME NEW p \in Syncs, UNCHANGED <<flags, lost>>,
             \A q \in Syncs \ {p} : pc'[q] = pc[q],
             Holding(p) => Holding(p)'
      PROVE  NoOrphanLock'
  BY <1>1 DEF NoOrphanLock, Locked, Holding
<1>2. ASSUME NEW p \in Syncs,
             Begin(p) \/ Precheck(p) \/ Check(p) \/ CreateRun(p) \/ Import(p) \/ FetchBalances(p)
               \/ Row(p) \/ Sum(p) \/ Adjust(p) \/ Retire(p) \/ Succeed(p) \/ Audit(p)
               \/ RecordFailure(p)
      PROVE  NoOrphanLock'
  <2>1. /\ UNCHANGED <<flags, lost>>
        /\ \A q \in Syncs \ {p} : pc'[q] = pc[q]
        /\ Holding(p) => Holding(p)'
    BY <1>2 DEF Begin, Precheck, Check, CreateRun, Import, FetchBalances, Row, Sum, Adjust, Retire,
       Leave, Succeed, Audit, RecordFailure, Holding
  <2>2. QED
    BY <1>1, <2>1
<1>3. ASSUME NEW p \in Syncs, Lock(p) PROVE NoOrphanLock'
  <2>1. Holding(p)'
    BY <1>3 DEF Lock, Holding
  <2>2. QED
    BY <2>1 DEF NoOrphanLock
<1>4. ASSUME NEW p \in Syncs, Unlock(p) \/ Reopen(p) PROVE NoOrphanLock'
  <2>1. flags # <<>>
    BY <1>4 DEF Unlock, Reopen, RowKnown
  <2>2. flags' = [flags EXCEPT ![1] = FALSE]
    BY <1>4 DEF Unlock, Reopen
  <2>3. ~Head(flags')
    BY <2>1, <2>2, Written
  <2>4. QED
    BY <2>3 DEF NoOrphanLock, Locked
<1>5. ASSUME NEW p \in Syncs, Fails(p) PROVE NoOrphanLock'
  <2>1. /\ UNCHANGED flags
        /\ \A q \in Syncs \ {p} : pc'[q] = pc[q]
        /\ pc'[p] = IF pc[p] \in Tried THEN "failed" ELSE "idle"
        /\ lost' = (lost \/ (Holding(p) /\ pc[p] \notin Tried))
    BY <1>5 DEF Fails, Leave
  <2>2. CASE Holding(p) /\ pc[p] \notin Tried
    BY <2>1, <2>2 DEF NoOrphanLock
  <2>3. CASE ~(Holding(p) /\ pc[p] \notin Tried)
    <3>1. lost' = lost
      BY <2>1, <2>3
    <3>2. Holding(p) => Holding(p)'
      BY <2>1, <2>3 DEF Holding
    <3>3. QED
      BY <1>1, <2>1, <3>1, <3>2
  <2>4. QED
    BY <2>2, <2>3
<1>6. CASE Crash
  BY <1>6 DEF Crash, NoOrphanLock, Locked
<1>7. CASE Edit \/ UNCHANGED vars
  BY <1>7 DEF Edit, vars, NoOrphanLock, Locked, Holding
<1>8. QED
  BY <1>2, <1>3, <1>4, <1>5, <1>6, <1>7 DEF Next, Step
--------------------------------------------------------------------------------
(* What a sync has achieved that nobody has interfered with.               *)
Working == TypeOK /\ KeyKnown /\ \A p \in Syncs : Progress(p)

(* The sync takes a step itself.                                           *)
LEMMA OwnProgress ==
  ASSUME Working, NEW p \in Syncs, Begin(p) \/ Step(p) \/ Fails(p), clean'[p]
  PROVE  Progress(p)'
<1> USE DEF Working, TypeOK, KeyKnown, Goto, store, locals, history
<1>1. CASE Begin(p) \/ Precheck(p) \/ Check(p) \/ Lock(p) \/ CreateRun(p) \/ Import(p)
             \/ Unlock(p) \/ Succeed(p) \/ Audit(p) \/ RecordFailure(p) \/ Reopen(p)
  <2>1. CASE Unlock(p)
    BY <1>1, <2>1 DEF Unlock, Progress, Agree
  <2>2. CASE ~Unlock(p)
    <3>1. pc'[p] \in {"idle", "precheck", "check", "lock", "run", "import", "fetch", "audit", "reopen"}
      BY <1>1, <2>2 DEF Begin, Precheck, Check, Lock, CreateRun, Import, Succeed, Audit, RecordFailure,
         Reopen
    <3>2. QED
      BY <3>1 DEF Progress
  <2>3. QED
    BY <2>1, <2>2
<1>2. CASE FetchBalances(p)
  BY <1>2, KeysAssumption DEF FetchBalances, Progress
<1>3. CASE Row(p)
  BY <1>3 DEF Row, Progress
<1>4. CASE Sum(p)
  <2>1. page[p] = hcm /\ key[p] \in Imported /\ drift'[p] = hcm[key[p]] - ledger[key[p]]
    BY <1>4, KeysAssumption DEF Sum, Progress
  <2>2. drift'[p] = 0 => ledger[key[p]] = hcm[key[p]]
    BY <2>1, KeysAssumption
  <2>3. QED
    BY <1>4, <2>1, <2>2 DEF Sum, Progress
<1>5. CASE Adjust(p)
  <2>1. clean[p] /\ key[p] \in Imported /\ key[p] \in Keys /\ drift[p] = hcm[key[p]] - ledger[key[p]]
    BY <1>5, KeysAssumption DEF Adjust, Progress
  <2>2. ledger'[key[p]] = hcm[key[p]]
    BY <1>5, <2>1 DEF Adjust
  <2>3. \A k \in Keys : k # key[p] => ledger'[k] = ledger[k]
    BY <1>5 DEF Adjust
  <2>4. QED
    BY <1>5, <2>1, <2>2, <2>3, KeysAssumption DEF Adjust, Progress
<1>6. CASE Retire(p)
  <2>1. Agree
    BY <1>6 DEF Retire, Progress, Agree
  <2>2. QED
    BY <1>6, <2>1 DEF Retire, Leave, Progress, Agree
<1>7. CASE Fails(p)
  BY <1>7 DEF Fails, Leave, Progress
<1>8. QED
  BY <1>1, <1>2, <1>3, <1>4, <1>5, <1>6, <1>7 DEF Step

(* Another sync takes a step: if it books, this one is no longer clean.    *)
LEMMA OthersProgress ==
  ASSUME Working, NEW p \in Syncs, NEW q \in Syncs \ {p}, Begin(q) \/ Step(q) \/ Fails(q), clean'[p]
  PROVE  Progress(p)'
<1> USE DEF Working, TypeOK, Goto, store, locals, history
<1>1. /\ ~Adjust(q)
      /\ UNCHANGED <<clean[p], ledger, hcm, pc[p], page[p], todo[p], key[p], drift[p]>>
  BY DEF Begin, Step, Fails, Leave, Precheck, Check, Lock, CreateRun, Import, FetchBalances, Row, Sum,
     Adjust, Retire, Unlock, Succeed, Audit, RecordFailure, Reopen
<1>2. QED
  BY <1>1 DEF Progress, Agree

LEMMA ProgressNext ==
  ASSUME Working, [Next]_vars, NEW p \in Syncs
  PROVE  Progress(p)'
<1> SUFFICES ASSUME clean'[p] PROVE Progress(p)'
  BY DEF Progress
<1>1. CASE \E q \in Syncs : Begin(q) \/ Step(q) \/ Fails(q)
  BY <1>1, OwnProgress, OthersProgress
<1>2. CASE Crash
  BY <1>2 DEF Crash, Progress, Working, TypeOK, store
<1>3. CASE Edit
  BY <1>3 DEF Edit
<1>4. CASE UNCHANGED vars
  BY <1>4 DEF vars, store, locals, history, Progress, Agree, Working
<1>5. QED
  BY <1>1, <1>2, <1>3, <1>4 DEF Next

LEMMA ProgressInit == Init => \A p \in Syncs : Progress(p)
  BY DEF Init, Progress

(* A sync nobody interferes with makes progress row by row.                *)
THEOREM ProgressInvariant == Spec => [](Base /\ Working)
<1>1. Init => Base /\ Working
  BY BaseInit, ProgressInit DEF Base, Working
<1>2. Base /\ Working /\ [Next]_vars => Base' /\ Working'
  BY BaseNext, ProgressNext DEF Base, Working
<1>3. QED
  BY <1>1, <1>2, PTL DEF Spec

(* A sync that reports success has brought the ledger to HCM's balances,   *)
(* whatever fails and whoever else syncs, unless someone has booked since  *)
(* it asked for them.                                                      *)
THEOREM LedgerMatchesHcm == Spec => MatchesAfterSync
<1>1. ASSUME Working, [Next]_vars, NEW p \in Syncs, run'[p] = "SUCCESS", run[p] # "SUCCESS", clean[p]
      PROVE  Agree'
  <2>1. Succeed(p)
    BY <1>1 DEF Working, TypeOK, Next, Step, vars, store, Begin, Precheck, Check, Lock, CreateRun,
       Import, FetchBalances, Row, Sum, Adjust, Retire, Unlock, Succeed, Audit, RecordFailure,
       Reopen, Fails, Crash, Edit
  <2>2. QED
    BY <1>1, <2>1 DEF Succeed, Working, Progress, Agree
<1>2. Working /\ [Next]_vars =>
        [\A p \in Syncs : run'[p] = "SUCCESS" /\ run[p] # "SUCCESS" /\ clean[p]
                            => Agree']_run
  BY <1>1
<1>3. Spec => []Working
  BY ProgressInvariant, PTL
<1>4. QED
  BY <1>2, <1>3, PTL DEF Spec, MatchesAfterSync
--------------------------------------------------------------------------------
(* The invariant of the sync.                                              *)
THEOREM IndInvariant == Spec => []IndInv
<1>1. Init => IndInv
  BY BaseInit, LockInit, ProgressInit DEF IndInv, Base
<1>2. IndInv /\ [Next]_vars => IndInv'
  BY BaseNext, LockNext, ProgressNext DEF IndInv, Base, Working
<1>3. QED
  BY <1>1, <1>2, PTL DEF Spec

(* The flag is never left set by a sync that has ended in an orderly way.  *)
THEOREM LockIsHeld == Spec => []NoOrphanLock
<1>1. IndInv => NoOrphanLock
  BY DEF IndInv
<1>2. QED
  BY <1>1, IndInvariant, PTL
================================================================================
