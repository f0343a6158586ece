------------------------------- MODULE TimeOffSync -------------------------------
(***************************************************************************)
(* runTimeOffSync (sync.service.ts), started by the nightly job and by the *)
(* API: the syncInProgress flag that is meant to keep runs apart, the run  *)
(* row, the catch block, and the reconciliation of the ledger with HCM's   *)
(* balances (balance-sync.service.ts).                                     *)
(*                                                                         *)
(* The model has the balance keys of one employee, some of a leave type    *)
(* that was not imported; those have no row in the ledger.  It is known by *)
(* the sum of its rows; the import of employees, leave types and policies  *)
(* is a call that may fail.  findFirst, a scan without order, answers with *)
(* the oldest row of time_off_sync_state.                                  *)
(***************************************************************************)
EXTENDS Integers, Sequences

CONSTANTS
  Nightly,   \* runs started by the cron job
  Manual,    \* runs started by POST /api/v1/sync/time-off
  Keys,      \* balance keys HCM answers with: leave type and dimensions
  Imported,  \* those whose leave type has a row
  NoKey,
  Drift,     \* what ledger and HCM may differ by at first
  MaxFaults, \* bound on failures
  MaxEdits   \* bound on bookings in the ledger and in HCM from elsewhere

Syncs == Nightly \union Manual

Labels == {"idle", "precheck", "check", "lock", "run", "import", "fetch", "row",
           "sum", "adjust", "unlock", "success", "audit", "failed", "reopen"}

(* The calls inside the try block. *)
Tried == {"import", "fetch", "row", "sum", "adjust", "unlock", "success", "audit"}

ASSUME KeysAssumption == NoKey \notin Keys /\ Imported \subseteq Keys
ASSUME DriftAssumption == Drift \subseteq Int
ASSUME LimitsAssumption == MaxFaults \in Nat /\ MaxEdits \in Nat

VARIABLES
  flags,   \* time_off_sync_state: syncInProgress of each row
  run,     \* sync_runs: the status of the run each sync started last
  hcm,     \* HCM's balance of each key
  ledger,  \* the sum of the ledger rows of each key
  pc,      \* the awaited call each sync is at
  found,   \* did it find a row of time_off_sync_state?
  page,    \* the balances fetchBalances answered with
  todo,    \* the rows of the answer still to reconcile
  key,     \* the row it is at
  drift,   \* what it is going to book for this row
  clean,   \* history: has nobody else booked since the sync fetched?
  lost,    \* history: has a sync ended without a chance to clear the flag?
  faults, edits

store   == <<flags, run, hcm, ledger>>
locals  == <<pc, found, page, todo, key, drift>>
history == <<clean, lost>>
vars    == <<store, locals, history, faults, edits>>

Locked == flags # <<>> /\ Head(flags)

Init ==
  /\ flags = <<>>
  /\ run = [p \in Syncs |-> "none"]
  /\ hcm = [k \in Keys |-> 0]
  /\ \E d \in [Imported -> Drift] :
       ledger = [k \in Keys |-> IF k \in Imported THEN d[k] ELSE 0]
  /\ pc = [p \in Syncs |-> "idle"]
  /\ found = [p \in Syncs |-> FALSE]
  /\ page = [p \in Syncs |-> [k \in Keys |-> 0]]
  /\ todo = [p \in Syncs |-> {}]
  /\ key = [p \in Syncs |-> NoKey]
  /\ drift = [p \in Syncs |-> 0]
  /\ clean = [p \in Syncs |-> FALSE]
  /\ lost = FALSE
  /\ faults = 0
  /\ edits = 0

Goto(p, label) == pc' = [pc EXCEPT ![p] = label]

(* The local variables go out of scope. *)
Leave(p, label) ==
  /\ Goto(p, label)
  /\ found' = [found EXCEPT ![p] = FALSE]
  /\ page' = [page EXCEPT ![p] = [k \in Keys |-> 0]]
  /\ todo' = [todo EXCEPT ![p] = {}]
  /\ key' = [key EXCEPT ![p] = NoKey]
  /\ drift' = [drift EXCEPT ![p] = 0]
--------------------------------------------------------------------------------
(* Mutated forms of the steps below: plausible bugs.                       *)

(* A failed sync does not clear the flag. *)
MutReopen(p) ==
  /\ pc[p] = "reopen"
  /\ Goto(p, "idle")
  /\ UNCHANGED <<store, found, page, todo, key, drift, history, faults, edits>>

(* The drift is booked with the wrong sign. *)
MutSum(p) ==
  /\ pc[p] = "sum"
  /\ drift' = [drift EXCEPT ![p] = ledger[key[p]] - page[p][key[p]]]
  /\ Goto(p, IF drift'[p] = 0 THEN "row" ELSE "adjust")
  /\ UNCHANGED <<store, found, page, todo, key, history, faults, edits>>

(* The last row of the answer is not reconciled. *)
MutRow(p) ==
  /\ pc[p] = "row"
  /\ todo[p] # {}
  /\ \E k \in todo[p] :
       /\ todo' = [todo EXCEPT ![p] = @ \ {k}]
       /\ \/ /\ k \in Imported
             /\ key' = [key EXCEPT ![p] = k]
             /\ Goto(p, IF todo'[p] = {} THEN "row" ELSE "sum")
          \/ k \notin Imported /\ UNCHANGED <<key, pc>>
  /\ UNCHANGED <<store, found, page, drift, history, faults, edits>>

--------------------------------------------------------------------------------
Begin(p) ==
  /\ pc[p] = "idle"
  /\ Goto(p, IF p \in Nightly THEN "precheck" ELSE "check")
  /\ UNCHANGED <<store, found, page, todo, key, drift, history, faults, edits>>

(* NightlyHcmSyncService skips the sync when the flag is set. *)
Precheck(p) ==
  /\ pc[p] = "precheck"
  /\ Goto(p, IF Locked THEN "idle" ELSE "check")
  /\ UNCHANGED <<store, found, page, todo, key, drift, history, faults, edits>>

Check(p) ==
  /\ pc[p] = "check"
  /\ Goto(p, IF Locked THEN "idle" ELSE "lock")
  /\ found' = [found EXCEPT ![p] = ~Locked /\ flags # <<>>]
  /\ UNCHANGED <<store, page, todo, key, drift, history, faults, edits>>

(* The flag is set whatever it has become since it was read. *)
Lock(p) ==
  /\ pc[p] = "lock"
  /\ flags' = IF found[p] THEN [flags EXCEPT ![1] = TRUE] ELSE Append(flags, TRUE)
  /\ Goto(p, "run")
  /\ UNCHANGED <<run, hcm, ledger, found, page, todo, key, drift, history, faults, edits>>

CreateRun(p) ==
  /\ pc[p] = "run"
  /\ run' = [run EXCEPT ![p] = "IN_PROGRESS"]
  /\ Goto(p, "import")
  /\ UNCHANGED <<flags, hcm, ledger, found, page, todo, key, drift, history, faults, edits>>

Import(p) ==
  /\ pc[p] = "import"
  /\ Goto(p, "fetch")
  /\ UNCHANGED <<store, found, page, todo, key, drift, history, faults, edits>>

FetchBalances(p) ==
  /\ pc[p] = "fetch"
  /\ page' = [page EXCEPT ![p] = hcm]
  /\ todo' = [todo EXCEPT ![p] = Keys]
  /\ clean' = [clean EXCEPT ![p] = TRUE]
  /\ Goto(p, "row")
  /\ UNCHANGED <<store, found, key, drift, lost, faults, edits>>

(* The working copy of the next balance is updated, unless its leave type  *)
(* is unknown.                                                             *)
Row(p) ==
  /\ pc[p] = "row"
  /\ \E k \in todo[p] :
       /\ todo' = [todo EXCEPT ![p] = @ \ {k}]
       /\ \/ k \in Imported /\ key' = [key EXCEPT ![p] = k] /\ Goto(p, "sum")
          \/ k \notin Imported /\ UNCHANGED <<key, pc>>
  /\ UNCHANGED <<store, found, page, drift, history, faults, edits>>

Sum(p) ==
  /\ pc[p] = "sum"
  /\ drift' = [drift EXCEPT ![p] = page[p][key[p]] - ledger[key[p]]]
  /\ Goto(p, IF drift'[p] = 0 THEN "row" ELSE "adjust")
  /\ UNCHANGED <<store, found, page, todo, key, history, faults, edits>>

(* The key of the entry names the run and the balance key, so that         *)
(* appendLedgerEntry writes a row for each run.                            *)
Adjust(p) ==
  /\ pc[p] = "adjust"
  /\ ledger' = [ledger EXCEPT ![key[p]] = @ + drift[p]]
  /\ clean' = [q \in Syncs |-> clean[q] /\ q = p]
  /\ drift' = [drift EXCEPT ![p] = 0]
  /\ Goto(p, "row")
  /\ UNCHANGED <<flags, run, hcm, found, page, todo, key, lost, faults, edits>>

(* Workers HCM did not mention are made inactive. *)
Retire(p) ==
  /\ pc[p] = "row"
  /\ todo[p] = {}
  /\ Leave(p, "unlock")
  /\ UNCHANGED <<store, history, faults, edits>>

Unlock(p) ==
  /\ pc[p] = "unlock"
  /\ flags' = [flags EXCEPT ![1] = FALSE]
  /\ Goto(p, "success")
  /\ UNCHANGED <<run, hcm, ledger, found, page, todo, key, drift, history, faults, edits>>

Succeed(p) ==
  /\ pc[p] = "success"
  /\ run' = [run EXCEPT ![p] = "SUCCESS"]
  /\ Goto(p, "audit")
  /\ UNCHANGED <<flags, hcm, ledger, found, page, todo, key, drift, history, faults, edits>>

Audit(p) ==
  /\ pc[p] = "audit"
  /\ Goto(p, "idle")
  /\ UNCHANGED <<store, found, page, todo, key, drift, history, faults, edits>>
--------------------------------------------------------------------------------
(* The catch block.                                                        *)
RecordFailure(p) ==
  /\ pc[p] = "failed"
  /\ run' = [run EXCEPT ![p] = "FAILED"]
  /\ Goto(p, "reopen")
  /\ UNCHANGED <<flags, hcm, ledger, found, page, todo, key, drift, history, faults, edits>>

(* The flag is cleared, whoever has set it. *)
Reopen(p) ==
  /\ pc[p] = "reopen"
  /\ flags' = [flags EXCEPT ![1] = FALSE]
  /\ Goto(p, "idle")
  /\ UNCHANGED <<run, hcm, ledger, found, page, todo, key, drift, history, faults, edits>>

(* A sync that has set the flag and has not yet cleared it. *)
Holding(p) == pc[p] \in {"run", "import", "fetch", "row", "sum", "adjust", "unlock",
                         "failed", "reopen"}

(* A call throws: inside the try block the catch block runs, outside it    *)
(* the error ends the sync.                                                *)
Fails(p) ==
  /\ pc[p] # "idle"
  /\ faults < MaxFaults
  /\ faults' = faults + 1
  /\ lost' = (lost \/ (Holding(p) /\ pc[p] \notin Tried))
  /\ Leave(p, IF pc[p] \in Tried THEN "failed" ELSE "idle")
  /\ UNCHANGED <<store, clean, edits>>

(* The service process dies.                                               *)
Crash ==
  /\ faults < MaxFaults
  /\ faults' = faults + 1
  /\ lost' = (lost \/ \E p \in Syncs : Holding(p))
  /\ pc' = [p \in Syncs |-> "idle"]
  /\ found' = [p \in Syncs |-> FALSE]
  /\ page' = [p \in Syncs |-> [k \in Keys |-> 0]]
  /\ todo' = [p \in Syncs |-> {}]
  /\ key' = [p \in Syncs |-> NoKey]
  /\ drift' = [p \in Syncs |-> 0]
  /\ UNCHANGED <<store, clean, edits>>

(* Bookings of the workflow and of HCM's other users. *)
Edit ==
  /\ edits < MaxEdits
  /\ edits' = edits + 1
  /\ clean' = [p \in Syncs |-> FALSE]
  /\ \E k \in Imported :
       \/ ledger' = [ledger EXCEPT ![k] = @ - 1] /\ UNCHANGED hcm
       \/ hcm' = [hcm EXCEPT ![k] = @ - 1] /\ UNCHANGED ledger
  /\ UNCHANGED <<flags, run, locals, lost, faults>>

Step(p) ==
  \/ Precheck(p) \/ Check(p) \/ Lock(p) \/ CreateRun(p) \/ Import(p)
  \/ FetchBalances(p) \/ Row(p) \/ Sum(p) \/ Adjust(p) \/ Retire(p)
  \/ Unlock(p) \/ Succeed(p) \/ Audit(p) \/ RecordFailure(p) \/ Reopen(p)

Next == \/ \E p \in Syncs : Begin(p) \/ Step(p) \/ Fails(p)
        \/ Crash
        \/ Edit

Spec == Init /\ [][Next]_vars

(* Every awaited call settles, and the cron job starts the sync again and  *)
(* again.                                                                  *)
FairSpec ==
  /\ Spec
  /\ \A p \in Syncs : WF_vars(Step(p))
  /\ \A p \in Nightly : WF_vars(Begin(p))
--------------------------------------------------------------------------------
TypeOK ==
  /\ flags \in Seq(BOOLEAN)
  /\ run \in [Syncs -> {"none", "IN_PROGRESS", "SUCCESS", "FAILED"}]
  /\ hcm \in [Keys -> Int]
  /\ ledger \in [Keys -> Int]
  /\ pc \in [Syncs -> Labels]
  /\ found \in [Syncs -> BOOLEAN]
  /\ page \in [Syncs -> [Keys -> Int]]
  /\ todo \in [Syncs -> SUBSET Keys]
  /\ key \in [Syncs -> Keys \union {NoKey}]
  /\ drift \in [Syncs -> Int]
  /\ clean \in [Syncs -> BOOLEAN]
  /\ lost \in BOOLEAN
  /\ faults \in 0..MaxFaults
  /\ edits \in 0..MaxEdits

(* The flag is set only while a sync is on its way to clear it, also when  *)
(* syncs overlap and calls of the try block fail: no later sync is refused *)
(* for ever, unless the service has died or a call outside the try block   *)
(* has failed.                                                             *)
NoOrphanLock == Locked => lost \/ \E p \in Syncs : Holding(p)

(* Whoever is going to update the row of the flag knows that there is one. *)
RowKnown ==
  \A p \in Syncs :
    found[p] \/ pc[p] \notin {"idle", "precheck", "check", "lock"} => flags # <<>>

(* A sync that works on a row has one.                                     *)
KeyKnown == \A p \in Syncs : pc[p] \in {"sum", "adjust"} => key[p] \in Imported

Agree == \A k \in Imported : ledger[k] = hcm[k]

(* What a sync that nobody has interfered with has achieved so far.        *)
Progress(p) ==
  clean[p] =>
    /\ pc[p] \in {"row", "sum", "adjust"} =>
         /\ page[p] = hcm
         /\ \A k \in Imported \ todo[p] :
              \/ ledger[k] = hcm[k]
              \/ pc[p] # "row" /\ k = key[p]
    /\ pc[p] = "adjust" => drift[p] = hcm[key[p]] - ledger[key[p]]
    /\ pc[p] \in {"unlock", "success"} => Agree

IndInv == /\ TypeOK
          /\ KeyKnown
          /\ RowKnown
          /\ NoOrphanLock
          /\ \A p \in Syncs : Progress(p)

(* When a sync reports success, the ledger agrees with HCM for every leave *)
(* type that was imported, unless someone else has booked since the sync   *)
(* asked HCM: a handler, HCM's other users or a sync at the same time.     *)
MatchesAfterSync ==
  [][\A p \in Syncs : run'[p] = "SUCCESS" /\ run[p] # "SUCCESS" /\ clean[p]
                      => Agree']_run

(* Whatever drift bookings elsewhere, failures and overlapping syncs have  *)
(* caused, once the manual syncs pause the nightly ones remove it for good:*)
(* none is refused for ever, unless the flag was left behind, and none     *)
(* books the same difference twice.                                        *)
DriftHeals ==
  []~lost /\ <>[](\A p \in Manual : pc[p] = "idle") => <>[]Agree
================================================================================
