----------------------------- MODULE WorkforceSync -----------------------------
(***************************************************************************)
(* The part of runTimeOffSync (sync.service.ts) that brings in HCM's       *)
(* workers and leave policies, through the Workday adapter: TimeOffSync    *)
(* has it as its step Import, and the loop of every worker's balances.     *)
(*                                                                         *)
(* Workers are read page by page while HCM hires and dismisses.  Every     *)
(* worker ever imported keeps a row; those HCM did not list are made       *)
(* INACTIVE at the end.  There is one leave type and its policy, whose     *)
(* rules are deleted and created again for each worker entitled to it.     *)
(***************************************************************************)
EXTENDS Integers, FiniteSets, Sequences, SequencesExt

CONSTANTS
  Workers,     \* workers HCM may ever list
  Nobody,      \* no manager
  Entitled,    \* workers with an eligible absence type
  Syncs,
  Limit,       \* workers on a page
  RawStatuses, \* what HCM's status strings may contain
  Rosters,     \* what HCM lists at first
  Hierarchies, \* who manages whom at first
  MaxEdits,    \* bound on changes in HCM
  MaxFaults    \* bound on failing calls

Marks == {"TERMIN", "LEAVE", "INACTIVE"}

(* The rules fetchPolicies makes up, in their order.                       *)
Rules == <<"negative_balance", "eligibility">>

RuleTypes == {"negative_balance", "eligibility"}

ASSUME WorkersAssumption == Nobody \notin Workers /\ Entitled \subseteq Workers
ASSUME RawAssumption == RawStatuses \subseteq SUBSET Marks
ASSUME HcmAssumption == /\ Rosters \subseteq Seq(Workers) /\ \A s \in Rosters : IsInjective(s)
                        /\ Hierarchies \subseteq [Workers -> Workers \union {Nobody}]
ASSUME LimitAssumption == Limit \in Nat \ {0} /\ MaxEdits \in Nat /\ MaxFaults \in Nat

VARIABLES
  roster,   \* HCM: the workers it lists, in order
  raw,      \* HCM: the marks in each worker's status
  boss,     \* HCM: each worker's manager
  known,    \* workers with a row in employee_hcm_mappings
  status,   \* employmentStatus
  bossId,   \* managerExternalEmployeeId
  manager,  \* managerId
  policy,   \* does the policy have a row?
  rules,    \* how many rows of each type its rules have: no index is unique
  pc,       \* the call each sync awaits
  offset,   \* where its next page starts
  batch,    \* rows of the page still to upsert
  more,     \* hasMore of the page
  seen,     \* syncedExternalIds
  queue,    \* rows it read and has still to process
  cur,      \* the row it is at
  left,     \* rules it has still to create
  steady,   \* history: workers listed ever since it began
  shrunk,   \* history: has HCM dismissed anyone since it began?
  clean,    \* history: has nothing changed but by itself since it began?
  edits, faults

table   == <<known, status, bossId, manager>>
terms   == <<policy, rules>>
hcm     == <<roster, raw, boss>>
paging  == <<offset, batch, more, seen>>
loop    == <<queue, cur, left>>
history == <<steady, shrunk, clean>>
bounds  == <<edits, faults>>
vars    == <<hcm, table, terms, pc, paging, loop, history, bounds>>
--------------------------------------------------------------------------------
(* Mutated form of mapEmploymentStatus: its tests are in the wrong order.  *)
MutMapEmploymentStatus(marks) ==
  CASE "INACTIVE" \in marks -> "INACTIVE"
    [] "LEAVE" \in marks -> "ON_LEAVE"
    [] OTHER -> "ACTIVE"

(* The first substring that is found decides; the rest is taken for active.*)
mapEmploymentStatus(marks) ==
  CASE "TERMIN" \in marks -> "TERMINATED"
    [] "LEAVE" \in marks -> "ON_LEAVE"
    [] "INACTIVE" \in marks -> "INACTIVE"
    [] OTHER -> "ACTIVE"

Snapshot(w) ==
  [id |-> w, status |-> mapEmploymentStatus(raw[w]), boss |-> boss[w]]

(* The page that starts at offset i.                                       *)
Page(i) ==
  LET ids == SubSeq(roster, i + 1, IF i + Limit < Len(roster) THEN i + Limit ELSE Len(roster))
  IN  [k \in 1..Len(ids) |-> Snapshot(ids[k])]

NoRow == [id |-> Nobody, boss |-> Nobody, manager |-> Nobody]

Row(w) == [id |-> w, boss |-> bossId[w], manager |-> manager[w]]

Listed == Range(roster)

Managers(w) == {Nobody} \union (Workers \ {w})

Init ==
  /\ roster \in Rosters
  /\ raw = [w \in Workers |-> {}]
  /\ boss \in Hierarchies
  /\ known = {}
  /\ status = [w \in Workers |-> "ACTIVE"]
  /\ bossId = [w \in Workers |-> Nobody]
  /\ manager = [w \in Workers |-> Nobody]
  /\ policy = FALSE
  /\ rules = [t \in RuleTypes |-> 0]
  /\ pc = [s \in Syncs |-> "idle"]
  /\ offset = [s \in Syncs |-> 0]
  /\ batch = [s \in Syncs |-> <<>>]
  /\ more = [s \in Syncs |-> FALSE]
  /\ seen = [s \in Syncs |-> {}]
  /\ queue = [s \in Syncs |-> {}]
  /\ cur = [s \in Syncs |-> NoRow]
  /\ left = [s \in Syncs |-> <<>>]
  /\ steady = [s \in Syncs |-> {}]
  /\ shrunk = [s \in Syncs |-> FALSE]
  /\ clean = [s \in Syncs |-> FALSE]
  /\ edits = 0
  /\ faults = 0

Goto(s, label) == pc' = [pc EXCEPT ![s] = label]

(* Writing the tables disturbs whatever other sync is running.             *)
Writes(s) == clean' = [t \in Syncs |-> clean[t] /\ t = s]

(* Where a sync goes when it is done with a row of its list.               *)
Onward(s, rest, again, after) == Goto(s, IF rest = {} THEN after ELSE again)

AfterPage(b, m) == IF b # <<>> THEN "upsert" ELSE IF m THEN "page" ELSE "managers"
--------------------------------------------------------------------------------
(* Mutated forms: plausible bugs in the definition each one names.         *)

(* The next page starts one row too late. *)
MutFetchPage(s) ==
  /\ pc[s] = "page"
  /\ batch' = [batch EXCEPT ![s] = Page(offset[s])]
  /\ more' = [more EXCEPT ![s] = offset[s] + Len(batch'[s]) < Len(roster)]
  /\ offset' = [offset EXCEPT ![s] = @ + Limit + 1]
  /\ Goto(s, AfterPage(batch'[s], more'[s]))
  /\ UNCHANGED <<hcm, table, terms, seen, loop, history, bounds>>

(* The status of a worker is only written when the row is created. *)
MutUpsert(s) ==
  /\ pc[s] = "upsert"
  /\ LET snap == Head(batch[s])
     IN  /\ seen' = [seen EXCEPT ![s] = @ \union {snap.id}]
         /\ known' = known \union {snap.id}
         /\ status' = IF snap.id \in known THEN status
                      ELSE [status EXCEPT ![snap.id] = snap.status]
         /\ bossId' = IF snap.boss = Nobody THEN bossId
                      ELSE [bossId EXCEPT ![snap.id] = snap.boss]
  /\ batch' = [batch EXCEPT ![s] = Tail(@)]
  /\ Goto(s, AfterPage(batch'[s], more[s]))
  /\ Writes(s)
  /\ UNCHANGED <<hcm, manager, terms, offset, more, loop, steady, shrunk, bounds>>

(* The rules of the sync before are not deleted. *)
MutDeleteRules(s) ==
  /\ pc[s] = "delete"
  /\ left' = [left EXCEPT ![s] = Rules]
  /\ Goto(s, "create")
  /\ UNCHANGED <<hcm, table, terms, paging, queue, cur, history, bounds>>

(* Only the first rule of a policy is created again. *)
MutCreateRule(s) ==
  /\ pc[s] = "create"
  /\ rules' = [rules EXCEPT ![Head(left[s])] = @ + 1]
  /\ left' = [left EXCEPT ![s] = <<>>]
  /\ Onward(s, queue[s], "types", "retire")
  /\ UNCHANGED <<hcm, table, policy, paging, queue, cur, history, bounds>>
--------------------------------------------------------------------------------
Begin(s) ==
  /\ pc[s] = "idle"
  /\ Goto(s, "page")
  /\ steady' = [steady EXCEPT ![s] = Listed]
  /\ shrunk' = [shrunk EXCEPT ![s] = FALSE]
  /\ clean' = [clean EXCEPT ![s] = TRUE]
  /\ UNCHANGED <<hcm, table, terms, paging, loop, bounds>>

(* The offset moves on by a full page, however many rows came.             *)
FetchPage(s) ==
  /\ pc[s] = "page"
  /\ batch' = [batch EXCEPT ![s] = Page(offset[s])]
  /\ more' = [more EXCEPT ![s] = offset[s] + Len(batch'[s]) < Len(roster)]
  /\ offset' = [offset EXCEPT ![s] = @ + Limit]
  /\ Goto(s, AfterPage(batch'[s], more'[s]))
  /\ UNCHANGED <<hcm, table, terms, seen, loop, history, bounds>>

(* A manager missing in HCM's answer leaves the one of the row.            *)
Upsert(s) ==
  /\ pc[s] = "upsert"
  /\ LET snap == Head(batch[s])
     IN  /\ seen' = [seen EXCEPT ![s] = @ \union {snap.id}]
         /\ known' = known \union {snap.id}
         /\ status' = [status EXCEPT ![snap.id] = snap.status]
         /\ bossId' = IF snap.boss = Nobody THEN bossId
                      ELSE [bossId EXCEPT ![snap.id] = snap.boss]
  /\ batch' = [batch EXCEPT ![s] = Tail(@)]
  /\ Goto(s, AfterPage(batch'[s], more[s]))
  /\ Writes(s)
  /\ UNCHANGED <<hcm, manager, terms, offset, more, loop, steady, shrunk, bounds>>

(* The rows with a manager to resolve; the others take no call.            *)
ListManagers(s) ==
  /\ pc[s] = "managers"
  /\ queue' = [queue EXCEPT ![s] = {Row(w) : w \in {v \in known : bossId[v] # Nobody}}]
  /\ Onward(s, queue'[s], "find", "workers")
  /\ UNCHANGED <<hcm, table, terms, paging, cur, left, history, bounds>>

FindManager(s) ==
  /\ pc[s] = "find"
  /\ \E row \in queue[s] :
       /\ queue' = [queue EXCEPT ![s] = @ \ {row}]
       /\ IF row.boss \in known /\ row.manager # row.boss
          THEN cur' = [cur EXCEPT ![s] = row] /\ Goto(s, "assign")
          ELSE UNCHANGED cur /\ Onward(s, queue'[s], "find", "workers")
  /\ UNCHANGED <<hcm, table, terms, paging, left, history, bounds>>

Assign(s) ==
  /\ pc[s] = "assign"
  /\ manager' = [manager EXCEPT ![cur[s].id] = cur[s].boss]
  /\ cur' = [cur EXCEPT ![s] = NoRow]
  /\ Onward(s, queue[s], "find", "workers")
  /\ Writes(s)
  /\ UNCHANGED <<hcm, known, status, bossId, terms, paging, queue, left, steady, shrunk, bounds>>

ListWorkers(s) ==
  /\ pc[s] = "workers"
  /\ queue' = [queue EXCEPT ![s] = {[NoRow EXCEPT !.id = w] : w \in known}]
  /\ Onward(s, queue'[s], "types", "retire")
  /\ UNCHANGED <<hcm, table, terms, paging, cur, left, history, bounds>>

(* HCM answers for every worker imported, those no longer listed included. *)
FetchTypes(s) ==
  /\ pc[s] = "types"
  /\ \E row \in queue[s] :
       /\ queue' = [queue EXCEPT ![s] = @ \ {row}]
       /\ IF row.id \in Entitled
          THEN Goto(s, "policy")
          ELSE Onward(s, queue'[s], "types", "retire")
  /\ UNCHANGED <<hcm, table, terms, paging, cur, left, history, bounds>>

UpsertPolicy(s) ==
  /\ pc[s] = "policy"
  /\ policy' = TRUE
  /\ Goto(s, "delete")
  /\ UNCHANGED <<hcm, table, rules, paging, loop, history, bounds>>

DeleteRules(s) ==
  /\ pc[s] = "delete"
  /\ rules' = [t \in RuleTypes |-> 0]
  /\ left' = [left EXCEPT ![s] = Rules]
  /\ Goto(s, "create")
  /\ UNCHANGED <<hcm, table, policy, paging, queue, cur, history, bounds>>

CreateRule(s) ==
  /\ pc[s] = "create"
  /\ rules' = [rules EXCEPT ![Head(left[s])] = @ + 1]
  /\ left' = [left EXCEPT ![s] = Tail(@)]
  /\ IF Len(left[s]) > 1 THEN UNCHANGED pc ELSE Onward(s, queue[s], "types", "retire")
  /\ UNCHANGED <<hcm, table, policy, paging, queue, cur, history, bounds>>

(* Only the ACTIVE ones among the workers not seen are made INACTIVE.      *)
Retire(s) ==
  /\ pc[s] = "retire"
  /\ status' = [w \in Workers |-> IF w \in known \ seen[s] /\ status[w] = "ACTIVE"
                                  THEN "INACTIVE" ELSE status[w]]
  /\ Goto(s, "done")
  /\ Writes(s)
  /\ UNCHANGED <<hcm, known, bossId, manager, terms, paging, loop, steady, shrunk, bounds>>

Forget(s) ==
  /\ Goto(s, "idle")
  /\ offset' = [offset EXCEPT ![s] = 0]
  /\ batch' = [batch EXCEPT ![s] = <<>>]
  /\ more' = [more EXCEPT ![s] = FALSE]
  /\ seen' = [seen EXCEPT ![s] = {}]
  /\ queue' = [queue EXCEPT ![s] = {}]
  /\ cur' = [cur EXCEPT ![s] = NoRow]
  /\ left' = [left EXCEPT ![s] = <<>>]
  /\ steady' = [steady EXCEPT ![s] = {}]
  /\ shrunk' = [shrunk EXCEPT ![s] = FALSE]
  /\ clean' = [clean EXCEPT ![s] = FALSE]

(* The sync goes on as in TimeOffSync.                                     *)
End(s) ==
  /\ pc[s] = "done"
  /\ Forget(s)
  /\ UNCHANGED <<hcm, table, terms, bounds>>

Fails(s) ==
  /\ pc[s] \notin {"idle", "done"}
  /\ faults < MaxFaults
  /\ faults' = faults + 1
  /\ Forget(s)
  /\ UNCHANGED <<hcm, table, terms, edits>>
--------------------------------------------------------------------------------
(* HCM's own life.  A new worker may be listed anywhere.                   *)
Paging(s) == pc[s] \in {"page", "upsert"}

Edit ==
  /\ edits < MaxEdits
  /\ edits' = edits + 1
  /\ clean' = [s \in Syncs |-> FALSE]
  /\ UNCHANGED <<table, terms, pc, paging, loop, faults>>

Hire(w) ==
  /\ w \notin Listed
  /\ \E i \in 1..(Len(roster) + 1) : roster' = InsertAt(roster, i, w)
  /\ Edit
  /\ UNCHANGED <<raw, boss, steady, shrunk>>

Dismiss(w) ==
  /\ \E i \in DOMAIN roster : roster[i] = w /\ roster' = RemoveAt(roster, i)
  /\ steady' = [s \in Syncs |-> IF Paging(s) THEN steady[s] \ {w} ELSE steady[s]]
  /\ shrunk' = [s \in Syncs |-> shrunk[s] \/ Paging(s)]
  /\ Edit
  /\ UNCHANGED <<raw, boss>>

Update(w) ==
  /\ w \in Listed
  /\ \/ raw' \in {[raw EXCEPT ![w] = marks] : marks \in RawStatuses \ {raw[w]}} /\ UNCHANGED boss
     \/ boss' \in {[boss EXCEPT ![w] = v] : v \in Managers(w) \ {boss[w]}} /\ UNCHANGED raw
  /\ Edit
  /\ UNCHANGED <<roster, steady, shrunk>>

Step(s) ==
  \/ FetchPage(s) \/ Upsert(s) \/ ListManagers(s) \/ FindManager(s) \/ Assign(s)
  \/ ListWorkers(s) \/ FetchTypes(s) \/ UpsertPolicy(s) \/ DeleteRules(s)
  \/ CreateRule(s) \/ Retire(s) \/ End(s)

Next == \/ \E s \in Syncs : Begin(s) \/ Step(s) \/ Fails(s)
        \/ \E w \in Workers : Hire(w) \/ Dismiss(w) \/ Update(w)

Spec == Init /\ [][Next]_vars

(* The cron job starts the sync again and again, every call is answered.   *)
FairSpec == Spec /\ \A s \in Syncs : WF_vars(Begin(s)) /\ WF_vars(Step(s))
--------------------------------------------------------------------------------
(* A worker HCM lists all through the paging of a sync is seen by it,      *)
(* unless HCM dismissed somebody meanwhile, which may shift the worker     *)
(* from a page still to be read to one already read.                       *)
NobodyOverlooked ==
  \A s \in Syncs :
    ~Paging(s) /\ pc[s] # "idle" /\ ~shrunk[s] => steady[s] \subseteq seen[s]

(* A sync nothing has interfered with leaves exactly those workers ACTIVE  *)
(* whom HCM lists without a mark, and every listed worker with the manager *)
(* HCM names, if it knows the manager.                                     *)
MirrorsRoster ==
  \A s \in Syncs : pc[s] = "done" /\ clean[s] =>
    /\ Listed \subseteq known
    /\ \A w \in known : status[w] = "ACTIVE" <=> w \in Listed /\ raw[w] = {}
    /\ \A w \in Listed : boss[w] \in known => manager[w] = boss[w]

(* However often syncs overlap and fail between the deletion of the rules  *)
(* and their creation, a rule never has more rows than there are syncs to  *)
(* run at a time.                                                          *)
RulesDoNotPileUp == \A t \in RuleTypes : rules[t] <= Cardinality(Syncs)

Present == {t \in RuleTypes : rules[t] > 0}

(* The rules a failing or overlapping sync has left a policy without come  *)
(* back.                                                                   *)
RulesReturn == policy /\ Present # RuleTypes ~> Present = RuleTypes
================================================================================
