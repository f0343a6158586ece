# Verification of the time-off service

TLA+ models of the time-off microservice in this repository (NestJS, Prisma on
SQLite, Workday as HCM), the TLC runs that check them on small instances, and
TLAPS proofs of their safety properties for every value of the constants. Paths
are relative to the repository root. `PROJECT.json` is the machine-readable
index: the lines each definition models (`map`), the runs, one mutant per
property, the hazards, the findings and the theorems.

    tlc -workers 2 -config MCLeaveWorkflow_race.cfg MCLeaveWorkflow
    tlapm LeaveWorkflowProofs.tla

## 1. Inventory

The service is one node process. Its handlers are `async` functions on one
event loop and share a SQLite database. **No handler opens a transaction**:
every `await prisma.x.y(...)` is a statement of its own, and between two of
them any other handler may run. Nothing but the database, and Workday, survives
the process. Everything hard about this code comes from that.

| Component | State | Operations | Talks to |
|---|---|---|---|
| Leave request workflow (`leave-request.service.ts`, `approval.service.ts`) | `LeaveRequest` (status, `hcmReferenceId`, `hcmRetryDeadlineAt`), `Approval` | create, edit draft, cancel, approve, reject | ledger, balance check, HCM adapter, audit, notifications |
| Retry job (`hcm-approval-retry.service.ts`, `retryPendingHcmUpdates`) | none of its own | hourly: post deferred requests, reject expired ones | the same |
| Ledger (`ledger.service.ts`) | `LeaveBalanceLedger`, append-only, unique `idempotencyKey` | append, sum, pending balance, convert reservation to usage | - |
| Balance check (`balance.service.ts`) | - | three reads and a comparison | ledger |
| Idempotency (`idempotency.service.ts`) | `IdempotencyKey`, unique key, 24 h | wraps every POST handler | - |
| Sync (`sync.service.ts`, `balance-sync.service.ts`, `nightly-hcm-sync.service.ts`) | `TimeOffSyncState.syncInProgress`, `SyncRun`, working copies, imported employees, leave types, policies | nightly and manual sync | HCM adapter, ledger |
| Scheduler (`jobs.scheduler.ts`) | cron registrations | starts the three jobs, awaits none | jobs |
| Approval reminder (`approval-reminder.service.ts`) | notifications, the newest 200 of which are searched | remind approvers of overdue approvals | notifications |
| Policy engine (`policy-engine.ts`) | - (pure) | duration, policy choice, approval chain, validation | - |
| Workday client and adapter (`integrations/hcm/workday`) | - | fetch with retries, map errors, split leave into days | Workday |
| Audit log, notifications | rows only added | append | - |
| HTTP API, auth, serializers, OpenAPI, reports, read services | - | parse, authorise, read | services |

What makes each correct, and where it could fail:

* **Workflow.** The status follows the lifecycle diagram of `docs/spec.md`; the
  ledger holds exactly the price of a request in flight or approved; an approved
  request has an entry in HCM whose id it keeps; a deferred request is
  eventually settled. Hard: a status read before an await and used after it, two
  approvers, an approval against a cancellation against the retry job, a reply
  of HCM that is lost, a database call that fails after HCM has accepted.
* **Ledger.** Append-only, one row per key, although lookup and insert are two
  calls and the loser of a race has to come back with the winner's row.
* **Idempotency.** A reply is the result of the same body under the same key; a
  stored response is not replaced before it expires. Hard: two copies of a
  request at once, expiry between two awaits, a crash before the store.
* **Sync.** A successful sync leaves ledger and HCM equal; the flag is set only
  while a sync is going to clear it; workers are ACTIVE as HCM lists them, and a
  policy keeps its rules. Hard: overlapping syncs, any of some twenty kinds of call
  failing, HCM changing after it was read or between two pages, rules that are
  deleted before they are written again, reservations HCM knows nothing of.
* **Policy engine and draft edits.** A request's duration is that of its own
  dates, and what HCM is sent adds up to it. Hard: two edits that both read the
  old draft, holidays that are read again later, boundary days, ties.
* **Workday client.** A write acts at most once and its outcome is true; reads
  are retried, and every call ends. Hard: responses that are lost after Workday
  has acted, a token shared by all calls, four kinds of retry with one counter.
* **Reminder.** An approver is reminded of a request after two business days, and
  not again by the next run. Hard: overlapping runs, a lookup of what was sent
  that sees the newest rows only, weekends and holidays.

## 2. Modules

| Module | Models | Proofs |
|---|---|---|
| `LeaveWorkflow` | create, draft, approve, reject, cancel, the retry job, balance check and ledger rows, HCM, crashes, time | `LeaveWorkflowProofs` |
| `AtomicLedger` | abstract: `appendLedgerEntry` as one indivisible put-if-absent | |
| `LedgerAppend` | `appendLedgerEntry` as its three database calls | `LedgerAppendProofs` |
| `Idempotency` | `withIdempotency` | `IdempotencyProofs` |
| `TimeOffSync` | `runTimeOffSync`: the flag, the run row, the catch block, `reconcileBalanceKey`, the nightly job's own check | `TimeOffSyncProofs` |
| `WorkforceSync` | the import in `runTimeOffSync`: workers by the page, managers, absence types, policies and their rules, deactivation; the adapter's answers | `WorkforceSyncProofs` |
| `WorkflowWithSync` | `LeaveWorkflow` and the adjustments of a sync on one ledger | `LeaveWorkflowProofs` |
| `WorkflowWithKeys` | `LeaveWorkflow` inside `Idempotency`: the POST endpoints of the controllers, with clients that send a call again | |
| `ApprovalReminder` | the reminder job, `countBusinessHours`, the dedupe window | `ApprovalReminderProofs` |
| `HcmCall` | abstract: what handlers take a call of Workday to be | |
| `WorkdayClient` | `WorkdayHttpClient`: `request`, `postMultipart`, `getAccessToken` | `WorkdayClientProofs` |
| `PolicyEngine` | `policy-engine.ts` as operators: duration, days for HCM, overlap, choice of the policy | |
| `RequestTerms` | what a request says, from its creation over concurrent `updateLeaveRequest` calls to the days posted | `RequestTermsProofs` |
| `MC...` | values of the constants for TLC | |

The modules share one convention. A process (handler, job run, sync, request)
has a `pc` that **names the awaited call that comes next**; an action is that
call together with all the code up to the next await. Early returns and throws
are a jump to `idle`, and local variables are reset when they go out of scope.
Each module has a section of *mutated forms*, plausible bugs that no
specification uses: each property is shown to fail when one of them replaces
the action it mutates.

`LeaveWorkflow` uses the promise of `AtomicLedger`: a ledger row is represented
by the key it carries (`reservation` is `pending-reservation:{id}`, `usage` is
`confirmed-usage:{id}`, `reversal` is `usage-reversal:{id}:cancel`, and a release
is named by the last part of `reservation-release:{id}:approve`, `:reject`,
`:cancel`, `:hcm-fail`, `:expired`), and `Append` adds it to a set, so that a
second append changes nothing. `LedgerAppend` is
the reason why this is right. In the same way the HCM calls of `LeaveWorkflow`
end as `HcmCall` lets them, which `WorkdayClient` implements, and the durations,
days and overlaps it takes as constants are those of `PolicyEngine`.
`WorkflowWithSync` EXTENDS `LeaveWorkflow`: its actions are the workflow's `Act`
and three steps of the sync, and `other` is the part of the ledger that only the
sync writes. `WorkflowWithKeys` EXTENDS `LeaveWorkflow` too and has an INSTANCE of
`Idempotency` around it: `stage` is where a call is in the wrapper, `pc` where it is in
its handler, and both share `faults`, so that one bound covers a failure in either.
`TimeOffSync` has the whole of a sync and the bookings of everybody
else as one action `Edit`; `WorkforceSync` is its step `Import` in detail.

### LeaveWorkflow and the code

| Model | Code |
|---|---|
| `status`, `hcmRef`, `left` | `LeaveRequest.status`, `.hcmReferenceId`, time to `.hcmRetryDeadlineAt` |
| `decision` | `Approval.decision` of the only step (the chain builder names the manager) |
| `ledger[r]` | the request's ledger rows, each by the suffix of its key |
| `notices[r]` | the statuses told to the employee; audit rows are written at their await and read by nobody |
| `posted[r]`, `deleted` | entries in Workday, one per day of an accepted `requestTimeOff` (`Post`) |
| `other` | the sum of the ledger rows that belong to no request: the opening balance and adjustments |
| `Begin...` | the first query of a handler and the errors thrown at once |
| `ReadLedger`, `ReadFlight`, `ReadHeld`, `Judge` | `checkAvailableBalance`, `pendingBalance` (two queries in a `Promise.all`, in either order) |
| `Refresh` | `fetchBalances` of the working copy, whose answer no decision reads |
| `Insert`, `Reserve`, `CreateApproval` | `createLeaveRequest` |
| `Decide`, `Post...`, `Release`, `ConfirmUsage`, `SetApproved`, `Defer`, `Close` | `approveLeaveRequest`, `rejectLeaveRequest`, the job's loop |
| `BeginRetry`, `NextPending`, `Sweep`, `NextExpired`, `EndRetry` | `retryPendingHcmUpdates`: both queries, with one `now` |
| `Correct`, `Reverse`, `SetCancelled` | `cancelLeaveRequest` |
| `CountAttempt` | the job's increment of `hcmRetryCount`, which may throw as well |
| `QueryFails`, `Crash`, `Tick` | a prisma call throws; the process dies; an hour passes |

How a Workday call may end: accepted and answered (`ok`), refused
(`validation`, `HcmValidationError`), `unavailable` (`HcmUnavailableError`),
`transport` (whatever `fetch` throws, which the code does not convert); with
requests in `LostReplies`, the latter two also after HCM has acted. Abstracted:
dates are sets of days, durations numbers, policy validation an input already
passed, one balance key.

### The other modules and the code

* **`WorkdayClient`**: `pc` is the fetch or timer a call awaits, `hasToken` the
  field `accessToken`, `attempt` and `lastError` the loop's variables. `Serve`
  is Workday; it may act and answer 5xx. `Break` is a `fetch` that throws, before
  or after that. `Throw` is the catch block of `request`, and for a write the end
  of the call. `Sleep`/`Wake` are the timer and the loop's head. Abstracted:
  waiting times and error texts; statuses are five classes.
* **`PolicyEngine`**: dates are numbers of days, durations are in hours of a day
  of eight (the default `standardDayHours`); `Behind` shifts the week day for a
  server west of Greenwich. `ResolvePolicy` is the set of policies that may come
  first, as the query has no order.
* **`RequestTerms`**: `terms` and `duration` are the columns of the one request,
  `draft` and `price` the locals of an edit, `tables` the tables of holidays there
  have been. `Create` and `Cancel` are single actions here, since `LeaveWorkflow`
  has their steps; `Busy` are the employee's other active requests.
* **`TimeOffSync`**: `flags` is the table `time_off_sync_state`, of which two syncs
  may each create a row; HCM answers with a row of each of `Keys`, and those of a
  leave type the service has not imported (not in `Imported`) are skipped; `page`,
  `todo`, `key`, `drift` are locals of the loop. Two history variables, which no
  action reads: `clean[p]` (nobody else has booked since `p` asked HCM) and `lost` (a
  sync ended while it held the flag, by a crash or by a failure outside the try
  block).
* **`WorkforceSync`**: `known`, `status`, `bossId`, `manager` are the columns of
  `employee_hcm_mappings`, `rules` how many rows of each type the policy has (there is
  no unique index), `seen` the set `syncedExternalIds`. Workday is `roster`, `raw`
  (which of the searched words a status string contains) and `boss`, changed by
  `Hire`, `Dismiss`, `Update`. `steady`, `shrunk`, `clean` are history. One leave type
  with its policy.
* **`WorkflowWithSync`**: `answer` and `drift` are what the sync has read; `stage`
  its place. HCM's balance is the opening balance less its live entries.
* **`ApprovalReminder`**: `recent` is the result of the query of
  `notificationExists`; each entry also has the run that wrote it, which is history.
  A day has `DayHours` hours. The code counts an hour as soon as it has begun, so a
  reminder may be up to an hour early for `docs/spec.md:815` ("> 48 business hours");
  submissions are at the full hour here.
* **`WorkflowWithKeys`**: `Arrive`, `LookUp`, `Store`, `WrapperFails` are the wrapper;
  `Enter`, `Refuse`, `Work`, `Succeed`, `Throw` the handler it calls, from its first
  query to its return or throw. `Body` is what the key's hash covers: of a create
  what is asked for, of the other calls the request's id. `made` is history: by
  which key and body a request was created. Left out: a record's end of life (the
  calls are made within its 24 hours; `Idempotency` has the expiry) and the jobs,
  which take no keys.

## 3. Runs

All passing runs are exhaustive.

| Run | Question | Bounds and why they are enough |
|---|---|---|
| `race` | Do the safety properties, and the inductive invariant of the proofs, survive every interleaving with failures? | One request, two API handlers and one job run, two HCM entries, one database failure or crash, all replies, lost replies. The properties are about one request; handlers of other requests matter only through the balance check. Two handlers and a job give every pair that races in the code (approve/approve, approve/cancel, approve/job, ...), two entries a double post. About 1.1 million states. |
| `serial` | One actor at a time - a handler, the retry job, the nightly sync: do ledger, requests and HCM agree at rest, does the status follow the diagram, do active requests not overlap, does usage stay within the balance, is the employee never short? | Three requests (two for the same two days, one for another day) on a balance of two days: more is asked for than there is, every pair of requests is there, overlapping or not, and a leave of two days has a first entry and another. Three HCM entries, all replies; create, approve, reject and cancel, late rejections among them; the request of one day loses replies of HCM to posts and corrections, so that it may be posted twice; `HcmAgrees` is about the others. One adjustment, of either sign (the theorems are for any number). Two requests are alike, which the symmetry uses: 1.7 million states. |
| `keys` | Does a client that sends a call again under its key, also after a crash or a failure, get what it was told, and once? | Two requests for one day (the original and the copy), two clients, one key and none, one failure or crash in wrapper or handler, two handlers run. HCM answers well, since `Idempotency` sees only whether a handler returns. Calls about one request do not overlap, as in `serial`, and a client awaits an answer before it sends a copy. No `reject`, whose handler has the shape of `approve`. 705 000 states. |
| `live` | Is a deferred request eventually settled, however handlers interfere? | One request, two handlers, a job, no crash. |
| `ledger` | Is `appendLedgerEntry` atomic? | Three callers, so that a winner, a loser and a bystander race; two keys and none. |
| `idempotency` | Are replies faithful and stored responses kept? | Two concurrent requests, one key or none, two bodies, expiry after one tick, one failure or crash. Four executions: twice each. |
| `sync` | Is the flag ever set for nobody, does success mean agreement, does drift heal? | A nightly and a manual sync in every order, two balance keys, drift of either sign, one booking and one failure of any call, or crash, anywhere. One failure is what separates a flag left behind from one that is not; two overlapping syncs show the flag of one cleared by the other. A third key is of a leave type that is not imported. 1.5 million states. |
| `import` | Who is overlooked, what does a sync leave of HCM's roster, do rules stay away or pile up? | Two syncs and two workers on pages of one row, so that every worker but one is at a page boundary; one change in HCM (somebody is hired at any place, dismissed, given another status or manager) and one failing call. One change is all a page boundary needs to slip. Two syncs, one of which may fail, are what leaves a rule twice or not at all. 680 000 states. |
| `reminder` | Is an approver reminded when due, and once? | Two approvals, two overlapping runs, one failing query; a day is two hours and four are overdue, so that a count may begin and end within a day; a Friday, a weekend, a holiday and the days after. The window holds two notifications, so that it overflows. 705 000 states. |
| `client` | Does the client keep its promise, and does every call return? | Two concurrent calls, so that one may get the token the other asked for; five attempts, the code's number; every class of status, before and after Workday has acted. |
| `terms` | Do concurrent edits, posts and changing holidays keep dates, duration and posted days together? | Two edits (a winner and a loser); a Friday, Monday and Tuesday, so that a leave spans a weekend or ends on a boundary; two tables of holidays, local and global; three policies, each narrower than the one before. |
| `overbooking` | A violation: what the documents say and the code does not keep, section 7. | Two requests and one handler: it needs no two calls at once. |

Deadlock is checked in every passing run: no run may come to a state in which
nothing is left to do.

## 4. Fairness

`FairSpec` of `LeaveWorkflow`, `TimeOffSync`, `WorkforceSync` and `ApprovalReminder`:
weak fairness of each process's `Step` - the event loop runs on and every awaited call
settles (with an answer or an error: `fetch` and SQLite do not hang for ever) - and of
the start of a job, which cron repeats whether or not an earlier run has ended; in
`LeaveWorkflow` also of `Tick`. Clients owe nothing: `Begin` of an API call and of a
manual sync are not fair. `DeferredIsSettled` needs no reply of HCM to be fair: a post
may fail for ever, and the window's end settles the request. `DriftHeals` says what
remains of the sync's promise when bookings fall into its middle and syncs overlap:
manual syncs must pause eventually, the nightly ones do the rest, unless the flag was
left behind (`[]~lost`). `RulesReturn` and `OverdueIsReminded` say that what a failing
or overlapping run has left undone the next one does. `Edit` and `Fails` are bounded,
so both are eventually quiet.

`FairSpec` of `WorkdayClient`: weak fairness of each call's `Step` - timers fire,
and `fetch` settles, having a time limit of its own. Workday need never answer
well. `EveryCallReturns` is what the fairness of the handlers rests on.

## 5. Properties worth a word

* `NeverDoubleCharged` - two approvals, an approval and a retry, a retry after a
  lost reply may all convert the same reservation. What saves the ledger is the
  order in `convertPendingReservationToConfirmedUsage` (release first, then
  usage) together with the unique keys; swapping or dropping one write breaks it.
* `NoticesAreTrue`, `ApprovedIsBacked` - what an employee is told and what a
  cancellation relies on, although status updates go by id and overwrite each
  other.
* `SettledAccounting`, `HcmAgrees` - relate four pieces of state at rest. They
  are promises to callers that do not race, and are false otherwise. Both name what
  the code leaves behind even then: a request rejected after its cancellation
  (`RejectedLate`) is credited twice, and of a cancelled leave of several days HCM
  may keep all entries but the one whose id was kept. `HcmAgrees` would also hold if
  all of them were deleted.
* `LifecycleSaveLateRejection` - `CANCELLED -> REJECTED` is the only step off the
  diagram that calls one after the other can take.
* `ToldIsDone`, `CreatedOnce`, `ActiveOnce` - the wrapper promises nothing about
  effects, the handlers nothing about keys; together they do. After a crash between
  a handler and the store of its response the copy finds no record and runs the
  handler again: `approve` and `cancel` are then refused by the status, a create by
  its own first request, which has the days. Only a draft, which has no days, may be
  made twice. A failure in the middle of a create leaves a torn request behind, which
  has the days as well: `ActiveOnce` holds then too, `CreatedOnce` is for runs
  without a failure. All three are for clients that await an answer before they send
  a copy, which `Arrive` says; section 7 has what the others get.
* `OneAnswer` - two requests under one key may both run the handler, but only
  one result is ever told as a success: the loser of the unique index gets an
  error for something that was done.
* `NoOrphanLock` - each sync clears the flag of any other, which is wrong
  locally and yet never leaves the flag behind, but for a death of the service or
  a failure outside the try block, which it names as the only ways.
* `MatchesAfterSync` - success means agreement, except for what somebody else has
  booked since the fetch; that includes another sync, since two that overlap book
  one difference twice.
* `NeverShort` - an adjustment may book a reservation away and the release that
  follows adds it again, in any order with other requests; what the employee sees
  is never less than HCM's balance minus what is in flight.
* `NobodyOverlooked`, `MirrorsRoster` - the first names the one way a worker HCM
  lists can be missed; the second is what the sync is for, over paging, upsert,
  manager lookup and deactivation together.
* `RulesDoNotPileUp`, `RulesReturn` - rules are deleted and created one by one, and
  there is no unique index. Syncs that overlap may each create a rule after both have
  deleted it, and one that fails leaves some missing; the next deletion clears all of
  them away. The bound is reached: with two syncs a rule has two rows.
* `OnePerRun` - the lookup sees rows, not intentions: overlapping runs repeat each
  other's reminders, no run its own. It promises nothing of rows beyond the newest.
* `NotBeforeTwoDays` - the loop over hours never counts one of a weekend or a
  holiday, or one twice: the hours there have been of open days are as many as it
  takes.
* `ReadsArePatient` - 401 and 403 count among the failures that may pass, as in
  `docs/spec.md:1198` and `docs/trd.md:370`, although `docs/spec.md:1206` calls 4xx but
  429 permanent; the code retries them.
* `Truthful` - the retry loop is for reads only; with lost responses a retried
  write would act twice or be reported as refused after it has acted.
* `DurationFits`, `PostMatchesCharge` - an edit writes every column it has read,
  also those the client did not send, which loses the other edit but keeps the
  row consistent.

## 6. Proofs

Every safety property that a run checks is also proved, but for those of `keys`: all
for arbitrary sets of processes, requests, keys, calendars and bounds, from the
`ASSUME`s of the modules (sets are disjoint, requests are finite in number, durations
are natural numbers, rosters name a worker once) and from the hypotheses named below.

### The workflow with any interleaving and failure: `LeaveWorkflowProofs`, first part

`IndInv` is inductive; from it `TypeOK`, `NeverDoubleCharged`,
`ApprovedIsBacked`, `ChargedOnlyIfPosted`, `ReversedOnlyAfterDeletion`,
`NoticesAreTrue`, `DraftsUntouched`. The strengthening is `HandlerInv` (what a
handler at each await has already written: nobody deletes ledger rows or HCM
records, so it stays true whatever others do), `ConversionInv` (usage follows the
release; this alone gives `NeverDoubleCharged` by arithmetic) and `NewcomerInv`
(only its creator knows a request without a row, and only a cancellation works on
a draft; without it drafts could be approved). `InvariantWithSync` is the same
with syncs at work on the ledger: a step of the workflow is cited, and a sync
writes no row of a request.

### The promises to calls that do not overlap: second part

These are theorems about `SpecWithSync`, the workflow together with the nightly
sync. Their hypotheses are those under which the promise holds at all (section 7
has what happens otherwise), and each but the last line's is one the run
`serial` satisfies:

| Theorem | Property | Hypotheses |
|---|---|---|
| `AccountsAreSettled` | `SettledAccounting` | `IsolatedCalls` |
| `LifecycleFollowed` | `LifecycleSaveLateRejection` | `IsolatedCalls` |
| `EntriesMatch` | `HcmAgrees` | and finitely many HCM entries |
| `OverlapsRefused` | `NoActiveOverlap` | and `OneWorker` |
| `UsageCovered` | `UsageWithinBalance` | and `OneWorker`, `Opening >= 0` |
| `NeverShortOfDays` | `NeverShort` | and finitely many entries, no lost replies |

`IsolatedCalls` says that calls about one request do not overlap in time and that no
database call fails. It does not keep approvers from rejecting what was cancelled:
what that does to a request is excepted in the properties, by name. Furthermore, calls
about different requests still interleave freely, HCM may refuse, be unavailable or
lose replies, and a sync runs while no handler does. `OneWorker` says that one API
handler runs at a time (jobs besides it); two concurrent creates do break
`NoActiveOverlap`, and two concurrent approvals `UsageWithinBalance`.

* `SerialInv` is the invariant all of them rest on: `PositionOK` has what a handler at
  each call may rely on about its request, down to the exact rows of the ledger;
  `SerialOK` says that one handler at a time holds a request, as its own or on the
  job's list, and that a request which nobody is in the middle of booking is `Settled`
  (one rejected late with both its releases). The proof goes from a handler's own step
  (`OwnStep`) to the requests it is not about (`SerialQuiet`) and the queries that
  take up new ones (`SerialQuery`).
* `EntriesInv` adds HCM: a handler that converts has all entries of its leave
  (`Whole`), one that cancels has lost one (`Cut`), and no entry is of two requests.
* `OverlapInv`: between a creator's overlap check and its insertion nothing
  becomes active, since only an insertion makes a request active (`ActiveStep`).
* `FundsInv`: while nothing was deferred, adjusted or rejected late, the partial
  result of the balance check after each of its reads is what there is to spend
  (`Grant`), less what is owed to requests in flight as long as the reservations
  are not yet counted back; and whoever has passed the check finds enough until
  its usage is booked. `DeferralInv` says why a deferral, once it happened, is on
  record for good - otherwise the property could become false long after it was
  excused.
* `AdjustedOK`: whatever adjustments were booked, they have taken from the ledger
  no more than the entries that remain of cancelled leaves (`RemainsOf`).

The sums need induction over a finite set. The library's induction theorems take
an operator, which tlapm cannot instantiate; `SetInduction` takes a *set* for the
predicate and follows from the well-founded order of finite subsets.
`MapThenSumSet` is shown equal to `Total`, a sum over a function, and the lemmas
`TotalRemove`, `TotalPlus`, `TotalAtMost`, `TotalOfSome`, `TotalOfUnion` (sums may be
taken in any order, added, compared, restricted, and count disjoint sets) are
cited from then on.

### The other modules

* **`LedgerAppendProofs`**: `IndInv`, `AppendOnly`, and `Atomic`, the
  refinement of `AtomicLedger`. `WaitInv` says that a caller sent to its second
  lookup will find the winner, as rows are never deleted.
* **`IdempotencyProofs`**: `ReplayIsFaithful`, `LiveRecordKept`, `OneAnswer`.
  Needed: an execution not yet stored is in no record (`Fresh`), and whoever is
  about to delete a record knows an id that is either gone or expired (`Stale`) -
  deletion goes by id, not by key, and this is why.
* **`TimeOffSyncProofs`**: `NoOrphanLock` and `MatchesAfterSync`, for any number of
  overlapping syncs, bookings, failures and crashes, without a further assumption.
  `Progress` says that for a sync that is `clean` the answer of HCM is still true
  and the rows reconciled so far agree with it; whoever books ends `clean` for the
  others, so that it is inductive although syncs overlap.
* **`WorkforceSyncProofs`**: `TypeOK`, `NobodyOverlooked`, `MirrorsRoster`,
  `RulesDoNotPileUp`, for any roster, page size and number of syncs. `Covered` relates
  the offset of a paging sync to the places in the roster of the workers it has not
  yet seen: a hiring moves them further back, and only a dismissal moves one
  before the offset. `Mirrored` says, call by call, which part of the tables an
  undisturbed sync has brought to what HCM lists. For `RulesDoNotPileUp`
  (finitely many syncs), `PileInv` says that the rows of a rule, together with the
  syncs still going to create it (`Owing`), are no more than there are syncs.
* **`ApprovalReminderProofs`**: `OnePerRun`, for any number of runs and any size of
  the window, and `NotBeforeTwoDays`, for any calendar. `Undone` is the strengthening
  of the first: a run that has looked in vain for a reminder has not sent it; the
  lemma `NewestEntries` says what is among the newest rows after one more. For the
  second, whom a run has on its list was due when it looked (`DueInv`), and by the
  lemma `HoursAreOpen` the hours the loop has counted are as many hours of open days.
* **`WorkdayClientProofs`**: `Truthful`, the refinement of `HcmCall`, and
  `ReadsArePatient`. `EffectOK` is the strengthening: a write never sleeps, so it
  is sent once, and a refusal that has come means that Workday has not acted.
* **`RequestTermsProofs`**: `DurationFits`, `SharesNoDay`, `PendingIsFrozen`,
  `DocumentedAsDemanded`, `DurationAsSpecified`, `PostMatchesCharge`, for any
  calendars and policies. Two lemmas about `PolicyEngine` carry the first four: the
  two comparisons of `DatesOverlap` mean a shared day, and the points 4, 2, 1 put a
  narrower policy first. `IndInv` says that an edit on its way has priced and
  compared just the terms it will write, and that none is on its way for a
  submitted request; `Booked`, that what was posted was built from the request's own
  row. `DurationAsSpecified` is for a server that is not west of Greenwich
  (`Behind = 0`: elsewhere it is false, section 7); `PostMatchesCharge` for hours of
  a partial day that are whole numbers (`Hours \subseteq Int`; the code has decimals,
  but adds them the same way). The sum over the posted days is shown equal to the
  duration by a smallest counterexample.

`TypeOK`, `DraftsUntouched`, `AppendOnly`, `PendingIsFrozen` and the inductive
invariants of `WorkdayClient`, `RequestTerms`, `TimeOffSync` and `ApprovalReminder`
are proved and not among the runs' properties. The invariants behind the second part
(`SerialInv`, `EntriesInv`, `AdjustedOK`, `FundsInv`) were checked by TLC on the run
`serial` before they were proved, and `Booked` on `terms`.

Only model-checked: liveness (`DeferredIsSettled`, `DriftHeals`, `RulesReturn`,
`OverdueIsReminded`, `EveryCallReturns`), which is out of the prover's reach, since
it has neither `ENABLED` nor fairness; `ToldIsDone`, `CreatedOnce` and `ActiveOnce`,
whose proof would need an invariant across `LeaveWorkflow` and `Idempotency` (section
8); and `NeverShort` with lost replies, which the run `serial` has.

## 7. Known divergences

Shown by a run:

* `overbooking`: `pendingBalance` sums reservations, which are negative rows
  already part of the ledger sum they are subtracted from, so that pending
  requests do not reduce the available balance. `docs/trd.md:258`: "Compute
  available balance as the ledger-derived current balance minus pending
  reservations".

Read in the code, and the reason why a property above is stated for less than
one might wish:

* `rejectLeaveRequest` looks at the approval, never at the request, and a
  cancellation leaves the approval PENDING, so that a CANCELLED request becomes
  REJECTED (`approval.service.ts:210`; `docs/spec.md:647` ends the lifecycle in
  CANCELLED). No two calls need overlap for it. Its reservation is then released a
  second time, the employee is credited with the duration, and the balance check
  grants it to later requests. The runs have such rejections:
  `LifecycleSaveLateRejection` excepts that edge, `SettledAccounting` and
  `UsageWithinBalance` such requests (`RejectedLate`);
* a leave of several days has an entry of each day, of which only the first id is
  kept and deleted by a cancellation (`workday.adapter.ts:148`; `docs/trd.md:376` "to
  remove the approved Workday time-off entry from HCM", `docs/spec.md:1183` "On
  success persist time-off entry WIDs from response `days[]`"): `HcmAgrees` excepts
  the other entries of a cancelled leave;
* a request cancelled after the job has read its list is still posted
  (`approval.service.ts:310`; `docs/trd.md:375` "stop further HCM retry
  processing"): `HcmAgrees` is for calls about a request that do not overlap;
* two runs of the retry job, or a run and an approval, post one request twice
  (`approval.service.ts:295`; `docs/trd.md:399` "Hourly retries must be idempotent
  and safe to run concurrently with manual operational triggers"):
  `NeverDoubleCharged` says that the ledger survives it; HCM has two entries, as
  after a lost reply;
* a create sent again under its key while the first copy is in work makes a second
  request (`idempotency.service.ts:35`; `docs/trd.md:1233` "Idempotency keys on write
  endpoints prevent duplicate side effects"): `CreatedOnce` and `ActiveOnce` are for
  clients that await the answer;
* a cancellation or a rejection between the status check of an approval and its
  last update is overwritten by APPROVED (`approval.service.ts:78`): the status then
  says approved of what the employee has cancelled;
* an approve and a reject that both read the open approval overwrite each other
  (`approval.service.ts:82`, `:222`): `LifecycleSaveLateRejection` and `HcmAgrees` are
  for calls about a request that do not overlap;
* a transport error is no `HcmUnavailableError` and leaves the request PENDING after
  its approval was recorded (`approval.service.ts:199`; `docs/trd.md:370`); so does a
  refused post. No approver has it on the list any more; `SettledAccounting` counts it
  as in flight, which its status says;
* the retry job writes no audit rows (`docs/trd.md:377`);
* a create that fails between insert and reservation leaves a PENDING request
  that holds nothing (`docs/trd.md:972` "must be transactional"):
  `SettledAccounting` is checked without failing calls;
* concurrent creates both pass the overlap check (`leave-request.service.ts:88`):
  `NoActiveOverlap` is for one handler at a time;
* a deferred request's post is not preceded by a balance check, so that
  `UsageWithinBalance` is stated for runs in which none was deferred;
* of two copies that both ran the handler the second cannot store its response, and
  its client is told an error for something that was done
  (`idempotency.service.ts:54`); a draft sent again after a crash is made twice;
* two syncs that both read the flag before either sets it run together
  (`docs/spec.md:1081`); a booking between fetch and reconciliation makes a
  sync report success with a difference left (`docs/spec.md:793`: "After nightly
  sync, `ledgerBalance` must equal HCM `currentBalance` for each key"):
  `MatchesAfterSync` is for a sync since whose fetch nobody else has booked;
* a crash during a sync, or a failure of `syncRun.create`, leaves the flag set
  and every later sync refused (`docs/trd.md:995`): `NoOrphanLock` and `DriftHeals`
  except this case;
* HCM knows no reservations, so the nightly sync takes them for drift and books
  them away: the pending request no longer reduces the balance, and a second one
  may be approved beyond it (`balance-sync.service.ts:23`): `UsageWithinBalance` is
  for runs without an adjustment;
* HCM's rows of a leave type the service has not imported are skipped, and the sync
  ends as SUCCESS all the same (`sync.service.ts:178`; `docs/spec.md:793` "for each
  key"): `MatchesAfterSync` is about the imported types;
* overlapping syncs may leave a policy with rules it has twice, until the next sync
  (`sync.service.ts:159`): `RulesDoNotPileUp` bounds how many;
* workers are paged by offset: a dismissal during the paging hides a listed worker
  from the sync, which marks it INACTIVE until the next one (`sync.service.ts:65`):
  `NobodyOverlooked` is for pagings without a dismissal;
* only ACTIVE workers are deactivated: one that was ON_LEAVE when it disappeared
  stays so (`sync.service.ts:223`; `docs/spec.md:316` "Departed employees are
  marked inactive when absent from sync"): `MirrorsRoster` is about who is ACTIVE;
* a manager HCM has dropped is kept: an `undefined` field of an update changes
  nothing (`sync.service.ts:81`), and a worker is assigned the manager it had;
* of two overlapping syncs the one that read HCM first may write last
  (`sync.service.ts:68`): `MirrorsRoster` is for undisturbed syncs;
* HCM is asked for the absence types and balances of every worker ever imported
  (`sync.service.ts:111`): if it refuses to answer for one that has left, every
  sync fails;
* overlapping runs of the reminder job, and more than 200 newer reminders, repeat a
  reminder (`approval-reminder.service.ts:36`, `notification.service.ts:52`;
  `docs/spec.md:1094` wants a single-instance lock for jobs): `OnePerRun` bounds
  what overlapping runs may repeat, and nothing bounds it beyond the 200;
* `postMultipart` makes a validation error of 401, 403 and 429, and the request
  is not deferred (`workday.client.ts:132`; `docs/trd.md:370`, `docs/spec.md:1207`):
  `Refused` models the code;
* the cached token is never dropped: once Workday refuses it, every retry and
  every later call sends it again (`workday.client.ts:29`);
* a request without a location loses the holidays of every location
  (`policy-engine.ts:187`; `docs/spec.md:468`), and on a server west of Greenwich
  the week day is that of the day before (`policy-engine.ts:124`):
  `DurationAsSpecified` is for a request with a location, on a server that runs in
  UTC (`Behind = 0`);
* partial days are accepted on weekends and holidays, and any number of hours
  (`policy-engine.ts:109`; `docs/spec.md:663`);
* the holidays are read again for a post (`approval.service.ts:121`):
  `PostMatchesCharge` is for a table that has not changed in between;
* an edit saved after a cancellation changes the CANCELLED request, of two edits one
  may be lost, and an edit does not ask again for the documentation
  (`leave-request.service.ts:361`): `DocumentedAsDemanded` is for submitted requests;
* a policy's `employmentType` makes it more specific without ever being compared
  with the employee's (`policy-engine.ts:45`; `docs/spec.md:362`), and
  `effectiveFrom`, `effectiveTo` are not looked at.

## 8. Not modelled, and the plan

Next, in this order:

1. `RequestAccount` - an abstract account (reserve, charge, refund) that
   `LeaveWorkflow` with isolated calls implements, as a refinement.
2. The retry job besides several API handlers: `OverlapsRefused` and
   `UsageCovered` for handlers that run at once but whose creates and approvals do
   not.
3. `WorkflowWithKeys` with rejections and refusing replies of HCM, and a proof of
   `ToldIsDone`: the invariants of `LeaveWorkflow` and `Idempotency` hold in the
   composition and would be cited; new is what relates an execution to its effect.
4. `buildApprovalChain` with managers that change between create and approve.

Partly modelled: the balance view (`getEmployeeBalances` refreshes working copies
no decision reads), the audit log (rows are written at their await and read by
nobody; redaction is formatting), the controllers (the POST endpoints of leave
requests are `WorkflowWithKeys`, that of the sync is `Begin` in `TimeOffSync`; JSON:API
layout changes no state), the schema (tables that
no modelled service writes).

Not planned: reading endpoints, reports, serializers, OpenAPI, authentication,
configuration, logging and redaction change no state or look at one request
only; the Workday mock, the seed and the tools are not part of the service.
