------------------------- MODULE ApprovalReminderProofs -------------------------
(* Proofs about ApprovalReminder, for any approvals, runs and bounds. *)
EXTENDS ApprovalReminder, SequenceTheorems, FiniteSetTheorems, TLAPS

(* The newest notifications, after one more.                               *)
Newest(s, e) == LET all == Append(s, e) IN IF Len(all) > Recent THEN Tail(all) ELSE all

(* A window in which e has come last and k have left.                       *)
Moved(old, new, e, k) ==
  \A i \in 1..Len(new) :
    \/ i = Len(new) /\ new[i] = e
    \/ i # Len(new) /\ i + k \in 1..Len(old) /\ new[i] = old[i + k]

(* Each of the newest notifications is the new one, in the last place, or  *)
(* one that was among them, in the same order.                             *)
LEMMA NewestEntries ==
  ASSUME NEW S, NEW s \in Seq(S), NEW e \in S
  PROVE  /\ Newest(s, e) \in Seq(S)
         /\ \E k \in {0, 1} : Moved(s, Newest(s, e), e, k)
<1> DEFINE all == Append(s, e)
<1>1. /\ all \in Seq(S) /\ Len(all) = Len(s) + 1 /\ Len(s) \in Nat
      /\ all[Len(s) + 1] = e
      /\ \A i \in 1..Len(s) : all[i] = s[i]
  OBVIOUS
<1>2. CASE Len(all) > Recent
  <2>1. all # <<>>
    BY <1>1
  <2>2. /\ Tail(all) \in Seq(S)
        /\ Len(Tail(all)) = Len(s)
        /\ \A i \in 1..Len(s) : Tail(all)[i] = all[i + 1]
    BY <1>1, <2>1, HeadTailProperties
  <2>3. Newest(s, e) = Tail(all)
    BY <1>2 DEF Newest
  <2>4. \A i \in 1..Len(Tail(all)) :
          \/ i = Len(Tail(all)) /\ Tail(all)[i] = e
          \/ i # Len(Tail(all)) /\ i + 1 \in 1..Len(s) /\ Tail(all)[i] = s[i + 1]
    BY <1>1, <2>2
  <2>5. QED
    BY <2>2, <2>3, <2>4 DEF Moved
<1>3. CASE ~(Len(all) > Recent)
  <2>1. Newest(s, e) = all
    BY <1>3 DEF Newest
  <2>2. \A i \in 1..Len(all) :
          \/ i = Len(all) /\ all[i] = e
          \/ i # Len(all) /\ i + 0 \in 1..Len(s) /\ all[i] = s[i + 0]
    BY <1>1
  <2>3. QED
    BY <1>1, <2>1, <2>2 DEF Moved
<1>4. QED
  BY <1>2, <1>3

LEMMA InvInit == Init => IndInv
  BY BoundsAssumption, RecentAssumption DEF Init, IndInv, TypeOK, OnePerRun, Undone, Sent, Labels

(* A run that has looked in vain for a reminder of the approval has not    *)
(* sent it, for what it sent itself would be a reminder of the approval.   *)
LEMMA InvNext == IndInv /\ [Next]_vars => IndInv'
<1> SUFFICES ASSUME IndInv, [Next]_vars PROVE IndInv'
  OBVIOUS
<1> USE DEF IndInv, TypeOK, Labels, Goto, store, sent, locals
<1>1. ASSUME NEW a \in Approvals, Submit(a) \/ Decide(a) PROVE IndInv'
  BY <1>1 DEF Submit, Decide, OnePerRun, Undone, Sent
<1>2. CASE Tick
  <2>1. now' \in 0..LastHour
    BY <1>2, BoundsAssumption DEF Tick
  <2>2. QED
    BY <1>2, <2>1 DEF Tick, OnePerRun, Undone, Sent
<1>3. ASSUME NEW p \in Runs, Begin(p) \/ ReadHolidays(p) \/ ReadApprovals(p) PROVE IndInv'
  <2>1. 0 \in 0..LastHour
    BY BoundsAssumption
  <2>2. TypeOK' /\ UNCHANGED <<recent, item>>
    <3>1. CASE Begin(p)
      BY <3>1 DEF Begin
    <3>2. CASE ReadHolidays(p)
      BY <3>2 DEF ReadHolidays
    <3>3. CASE ReadApprovals(p)
      BY <2>1, <3>3 DEF ReadApprovals
    <3>4. QED
      BY <1>3, <3>1, <3>2, <3>3
  <2>3. \A q \in Runs : pc'[q] \in {"email", "create"} => pc'[q] = pc[q]
    BY <1>3 DEF Begin, ReadHolidays, ReadApprovals
  <2>4. QED
    BY <2>2, <2>3 DEF OnePerRun, Undone, Sent
<1>4. ASSUME NEW p \in Runs, Check(p) PROVE IndInv'
  <2>1. PICK a \in todo[p] :
          /\ todo' = [todo EXCEPT ![p] = @ \ {a}]
          /\ IF notificationExists(a)
             THEN UNCHANGED <<pc, item>>
             ELSE item' = [item EXCEPT ![p] = a] /\ Goto(p, "email")
    BY <1>4 DEF Check
  <2>2. a \in Approvals
    BY <2>1
  <2>3. UNCHANGED <<now, store, sent, asof, faults>>
    BY <1>4 DEF Check
  <2>4. TypeOK' /\ OnePerRun'
    BY <2>1, <2>2, <2>3 DEF OnePerRun
  <2>5. ASSUME NEW q \in Runs PROVE Undone(q)'
    <3>1. CASE notificationExists(a) \/ q # p
      BY <2>1, <2>3, <3>1 DEF Undone, Sent
    <3>2. CASE ~notificationExists(a) /\ q = p
      <4>1. item'[p] = a
        BY <2>1, <3>2
      <4>2. ~Sent(a, p)
        BY <3>2 DEF Sent, notificationExists
      <4>3. QED
        BY <2>2, <2>3, <3>2, <4>1, <4>2 DEF Undone, Sent
    <3>3. QED
      BY <3>1, <3>2
  <2>6. QED
    BY <2>4, <2>5
<1>5. ASSUME NEW p \in Runs, ReadEmail(p) PROVE IndInv'
  BY <1>5 DEF ReadEmail, OnePerRun, Undone, Sent
<1>6. ASSUME NEW p \in Runs, Create(p) PROVE IndInv'
  <2> DEFINE e == <<item[p], p>>
  <2>1. /\ item[p] \in Approvals
        /\ e \in Approvals \X Runs
        /\ \A i \in 1..Len(recent) : recent[i] # e
    BY <1>6 DEF Create, Undone, Sent
  <2>2. recent' = Newest(recent, e)
    BY <1>6 DEF Create, Newest
  <2>3. recent' \in Seq(Approvals \X Runs) /\ Len(recent) \in Nat /\ Len(recent') \in Nat
    BY <2>1, <2>2, NewestEntries
  <2>4. PICK k \in {0, 1} : Moved(recent, recent', e, k)
    BY <2>1, <2>2, NewestEntries
  <2>5. TypeOK'
    BY <1>6, <2>1, <2>3 DEF Create
  <2>6. OnePerRun'
    <3> SUFFICES ASSUME NEW i \in 1..Len(recent'), NEW j \in 1..Len(recent'), recent'[i] = recent'[j]
                 PROVE  i = j
      BY DEF OnePerRun
    <3>1. CASE i # Len(recent') /\ j # Len(recent')
      <4>1. i + k = j + k
        BY <2>4, <3>1 DEF OnePerRun, Moved
      <4>2. QED
        BY <2>3, <4>1
    <3>2. CASE i = Len(recent') \/ j = Len(recent')
      BY <2>1, <2>3, <2>4, <3>2 DEF Moved
    <3>3. QED
      BY <3>1, <3>2
  <2>7. ASSUME NEW q \in Runs PROVE Undone(q)'
    <3>1. CASE q = p
      BY <1>6, <3>1 DEF Create, Undone
    <3>2. CASE q # p
      <4>1. pc'[q] = pc[q] /\ item'[q] = item[q]
        BY <1>6, <3>2 DEF Create
      <4>2. ASSUME NEW i \in 1..Len(recent'), recent'[i] = <<item[q], q>>
            PROVE  Sent(item[q], q)
        <5>1. i # Len(recent')
          BY <2>4, <3>2, <4>2 DEF Moved
        <5>2. i + k \in 1..Len(recent) /\ recent[i + k] = recent'[i]
          BY <2>4, <4>2, <5>1 DEF Moved
        <5>3. QED
          BY <4>2, <5>2 DEF Sent
      <4>3. QED
        BY <4>1, <4>2 DEF Undone, Sent
    <3>3. QED
      BY <3>1, <3>2
  <2>8. QED
    BY <2>5, <2>6, <2>7
<1>7. ASSUME NEW p \in Runs, End(p) \/ Fails(p) PROVE IndInv'
  <2>1. 0 \in 0..LastHour /\ faults' \in 0..MaxFaults
    BY <1>7, BoundsAssumption DEF End, Fails
  <2>2. Finish(p) /\ UNCHANGED <<now, store, sent>>
    BY <1>7 DEF End, Fails
  <2>3. TypeOK' /\ OnePerRun'
    BY <2>1, <2>2 DEF Finish, OnePerRun
  <2>4. ASSUME NEW q \in Runs PROVE Undone(q)'
    <3>1. CASE q = p
      BY <2>2, <3>1 DEF Finish, Undone
    <3>2. CASE q # p
      BY <2>2, <3>2 DEF Finish, Undone, Sent
    <3>3. QED
      BY <3>1, <3>2
  <2>5. QED
    BY <2>3, <2>4
<1>8. CASE UNCHANGED vars
  BY <1>8 DEF vars, OnePerRun, Undone, Sent
<1>9. QED
  BY <1>1, <1>2, <1>3, <1>4, <1>5, <1>6, <1>7, <1>8 DEF Next, Step

(* Types, one reminder for each run, and what a run is about to send.      *)
THEOREM IndInvariant == Spec => []IndInv
<1>1. QED
  BY InvInit, InvNext, PTL DEF Spec

(* However many runs of the job overlap or fail, none of them repeats a    *)
(* reminder that is still among the newest Recent.                         *)
THEOREM RemindedOncePerRun == Spec => []OnePerRun
<1>1. IndInv => OnePerRun
  BY DEF IndInv
<1>2. QED
  BY <1>1, IndInvariant, PTL

--------------------------------------------------------------------------------
(* Reminders and business days.                                            *)

(* An approval a run has to remind of, or has reminded of.                 *)
Taken(a) == a \in reminded \/ \E p \in Runs : a \in todo[p] \/ item[p] = a

(* At some time until now it had been pending for the business hours.      *)
WasDue(a) == decision[a] # "none" /\ \E t \in 0..now : IsOverdue(a, t)

DueInv == /\ \A p \in Runs : asof[p] <= now
          /\ \A a \in Approvals : Taken(a) => WasDue(a)

LEMMA WasDueKept ==
  ASSUME TypeOK, NEW a \in Approvals, WasDue(a), now' \in Nat, now <= now',
         submitted'[a] = submitted[a], decision'[a] # "none"
  PROVE  WasDue(a)'
<1>1. PICK t \in 0..now : IsOverdue(a, t)
  BY DEF WasDue
<1>2. t \in 0..now' /\ IsOverdue(a, t)'
  BY <1>1 DEF TypeOK, IsOverdue, countBusinessHours
<1>3. QED
  BY <1>2 DEF WasDue

LEMMA DueInit == Init => DueInv
  BY BoundsAssumption, ApprovalsAssumption DEF Init, DueInv, Taken

LEMMA DueNext == IndInv /\ DueInv /\ [Next]_vars => DueInv'
<1> SUFFICES ASSUME IndInv, DueInv, [Next]_vars PROVE DueInv'
  OBVIOUS
<1> USE DEF IndInv, TypeOK, Goto, store, sent, locals
<1>1. ASSUME now' = now, UNCHANGED store, \A p \in Runs : asof'[p] <= now,
             \A a \in Approvals : Taken(a)' => Taken(a)
      PROVE  DueInv'
  BY <1>1 DEF DueInv, WasDue, IsOverdue
<1>2. ASSUME NEW a \in Approvals, Submit(a) PROVE DueInv'
  <2>1. ASSUME NEW b \in Approvals, Taken(b)' PROVE WasDue(b)'
    <3>1. WasDue(b)
      BY <1>2, <2>1 DEF Submit, DueInv, Taken
    <3>2. b # a
      BY <1>2, <3>1 DEF Submit, WasDue
    <3>3. submitted'[b] = submitted[b] /\ decision'[b] = decision[b] /\ now' = now
      BY <1>2, <3>2 DEF Submit
    <3>4. decision[b] # "none"
      BY <3>1 DEF WasDue
    <3>5. QED
      BY <3>1, <3>3, <3>4, WasDueKept
  <2>2. QED
    BY <1>2, <2>1 DEF Submit, DueInv
<1>3. ASSUME NEW a \in Approvals, Decide(a) PROVE DueInv'
  <2>1. ASSUME NEW b \in Approvals, Taken(b)' PROVE WasDue(b)'
    <3>1. WasDue(b)
      BY <1>3, <2>1 DEF Decide, DueInv, Taken
    <3>2. now' \in Nat /\ now <= now' /\ submitted'[b] = submitted[b]
      BY <1>3 DEF Decide
    <3>3. decision'[b] # "none"
      <4>1. decision[b] # "none"
        BY <3>1 DEF WasDue
      <4>2. QED
        BY <1>3, <4>1 DEF Decide
    <3>4. QED
      BY <3>1, <3>2, <3>3, WasDueKept
  <2>2. QED
    BY <1>3, <2>1 DEF Decide, DueInv
<1>4. CASE Tick
  <2>1. now' \in Nat /\ now <= now'
    BY <1>4 DEF Tick
  <2>2. ASSUME NEW b \in Approvals, Taken(b)' PROVE WasDue(b)'
    <3>1. WasDue(b)
      BY <1>4, <2>2 DEF Tick, DueInv, Taken
    <3>2. submitted'[b] = submitted[b] /\ decision'[b] # "none"
      BY <1>4, <3>1 DEF Tick, WasDue
    <3>3. QED
      BY <2>1, <3>1, <3>2, WasDueKept
  <2>3. \A p \in Runs : asof'[p] <= now'
    BY <1>4, BoundsAssumption DEF Tick, DueInv
  <2>4. QED
    BY <2>2, <2>3 DEF DueInv
<1>5. ASSUME NEW p \in Runs, Begin(p) \/ ReadHolidays(p) PROVE DueInv'
  <2>1. UNCHANGED <<now, store, reminded, todo, item>> /\ asof' \in {asof, [asof EXCEPT ![p] = now]}
    BY <1>5 DEF Begin, ReadHolidays
  <2>2. now <= now
    OBVIOUS
  <2>3. \A q \in Runs : asof'[q] <= now
    BY <2>1, <2>2 DEF DueInv
  <2>4. QED
    BY <1>1, <2>1, <2>3 DEF Taken
<1>6. ASSUME NEW p \in Runs, ReadApprovals(p) PROVE DueInv'
  <2>1. /\ UNCHANGED <<now, store, reminded, item>>
        /\ todo' = [todo EXCEPT ![p] = {a \in Approvals : decision[a] = "PENDING" /\ IsOverdue(a, asof[p])}]
        /\ asof' = [asof EXCEPT ![p] = 0]
    BY <1>6 DEF ReadApprovals
  <2>2. asof[p] \in 0..now
    BY DEF DueInv
  <2>3. ASSUME NEW b \in Approvals, Taken(b)' PROVE WasDue(b)'
    <3>1. CASE Taken(b)
      BY <2>1, <3>1 DEF DueInv, WasDue, IsOverdue
    <3>2. CASE ~Taken(b)
      <4>1. decision[b] = "PENDING" /\ IsOverdue(b, asof[p])
        BY <2>1, <2>3, <3>2 DEF Taken
      <4>2. WasDue(b)
        BY <2>2, <4>1 DEF WasDue
      <4>3. QED
        BY <2>1, <4>2 DEF WasDue, IsOverdue
    <3>3. QED
      BY <3>1, <3>2
  <2>4. \A q \in Runs : asof'[q] <= now'
    BY <2>1 DEF DueInv
  <2>5. QED
    BY <2>3, <2>4 DEF DueInv
<1>7. ASSUME NEW p \in Runs, Check(p) \/ ReadEmail(p) \/ Create(p) PROVE DueInv'
  <2>1. UNCHANGED <<now, store, asof>>
    BY <1>7 DEF Check, ReadEmail, Create
  <2>2. ASSUME NEW a \in Approvals, Taken(a)' PROVE Taken(a)
    <3>1. CASE Check(p)
      BY <2>2, <3>1 DEF Check, Taken
    <3>2. CASE ReadEmail(p)
      BY <2>2, <3>2 DEF ReadEmail, Taken
    <3>3. CASE Create(p)
      BY <2>2, <3>3, ApprovalsAssumption DEF Create, Taken
    <3>4. QED
      BY <1>7, <3>1, <3>2, <3>3
  <2>3. QED
    BY <1>1, <2>1, <2>2 DEF DueInv
<1>8. ASSUME NEW p \in Runs, End(p) \/ Fails(p) PROVE DueInv'
  <2>1. Finish(p) /\ UNCHANGED <<now, store, reminded>>
    BY <1>8 DEF End, Fails
  <2>2. \A a \in Approvals : Taken(a)' => Taken(a)
    BY <2>1, ApprovalsAssumption DEF Finish, Taken
  <2>3. \A q \in Runs : asof'[q] <= now
    BY <2>1 DEF Finish, DueInv
  <2>4. QED
    BY <1>1, <2>1, <2>2, <2>3
<1>9. CASE UNCHANGED vars
  <2>1. UNCHANGED <<now, store, asof, reminded, todo, item>>
    BY <1>9 DEF vars
  <2>2. QED
    BY <1>1, <2>1 DEF DueInv, Taken
<1>10. QED
  BY <1>2, <1>3, <1>4, <1>5, <1>6, <1>7, <1>8, <1>9 DEF Next, Step

(* Days and the hours they have.                                           *)
LEMMA DivMod ==
  ASSUME NEW h \in Nat, NEW n \in Nat \ {0}
  PROVE  /\ h \div n \in Nat /\ h % n \in 0..(n - 1)
         /\ h = (n * (h \div n)) + (h % n)
  OBVIOUS

LEMMA DivMonotone ==
  ASSUME NEW a \in Nat, NEW b \in Nat, a <= b, NEW n \in Nat \ {0}
  PROVE  a \div n <= b \div n
<1> SUFFICES ASSUME a \div n >= (b \div n) + 1 PROVE FALSE
  BY DivMod
<1> DEFINE x == n * (a \div n)
           y == n * (b \div n)
<1>1. x >= y + n
  <2>1. ASSUME NEW q \in Nat, NEW k \in Nat, k >= q + 1 PROVE n * k >= (n * q) + n
    BY <2>1
  <2>2. QED
    BY <2>1, DivMod
<1>2. a >= x /\ b < y + n /\ x \in Int /\ y \in Int
  BY DivMod
<1> HIDE DEF x, y
<1>3. QED
  BY <1>1, <1>2

(* Each business hour up to a time that has passed is an hour of an open   *)
(* day, and no two are the same.                                           *)
LEMMA HoursAreOpen ==
  ASSUME TypeOK, NEW a \in Approvals, NEW t \in 0..now
  PROVE  /\ countBusinessHours(submitted[a], t) <= Cardinality(OpenHours(a))
         /\ countBusinessHours(submitted[a], t) \in Nat
         /\ Cardinality(OpenHours(a)) \in Nat
<1> DEFINE hours == {h \in submitted[a]..(t - 1) : isBusinessHour(h)}
           days == (submitted[a] \div DayHours)..((now - 1) \div DayHours)
           f == [h \in hours |-> <<h \div DayHours, h % DayHours>>]
<1>1. /\ submitted[a] \in Nat /\ t \in Nat /\ now \in Nat /\ t <= now
      /\ DayHours \in Nat \ {0}
  BY HoursAssumption DEF TypeOK
<1>2. ASSUME NEW h \in hours PROVE f[h] \in OpenHours(a)
  <2>1. /\ h \in Nat /\ submitted[a] <= h /\ h <= now - 1 /\ now - 1 \in Nat /\ h < now
        /\ isBusinessHour(h)
    BY <1>1
  <2>2. h \div DayHours \in days
    <3>1. submitted[a] \div DayHours <= h \div DayHours
      BY <1>1, <2>1, DivMonotone
    <3>2. h \div DayHours <= (now - 1) \div DayHours
      BY <1>1, <2>1, DivMonotone
    <3>3. /\ submitted[a] \div DayHours \in Nat /\ h \div DayHours \in Nat
          /\ (now - 1) \div DayHours \in Nat
      BY <1>1, <2>1, DivMod
    <3> DEFINE x == submitted[a] \div DayHours
               y == h \div DayHours
               z == (now - 1) \div DayHours
    <3> HIDE DEF x, y, z
    <3>4. x <= y /\ y <= z /\ x \in Nat /\ y \in Nat /\ z \in Nat
      BY <3>1, <3>2, <3>3 DEF x, y, z
    <3>5. y \in x..z
      BY <3>4
    <3>6. QED
      BY <3>5 DEF x, y, z
  <2>3. (h \div DayHours) % 7 \in 0..4 /\ h \div DayHours \notin Holidays
    BY <1>1, <2>1, DivMod DEF isBusinessHour
  <2>4. h \in Nat /\ DayHours \in Nat \ {0}
    BY <1>1, <2>1
  <2> DEFINE d == h \div DayHours
             i == h % DayHours
  <2>5. f[h] = <<d, i>>
    OBVIOUS
  <2>10. i \in 0..(DayHours - 1) /\ h = (DayHours * d) + i
    BY <2>4, DivMod
  <2>11. d \in days /\ d % 7 \in 0..4 /\ d \notin Holidays
    BY <2>2, <2>3
  <2> HIDE DEF d, i, f
  <2>6. /\ d \in days /\ i \in 0..(DayHours - 1) /\ d % 7 \in 0..4 /\ d \notin Holidays
        /\ h = DayHours * d + i
    BY <2>10, <2>11
  <2>7. submitted[a] <= DayHours * d + i /\ DayHours * d + i < now
    BY <2>1, <2>6
  <2>8. <<d, i>> \in OpenHours(a)
    BY <2>6, <2>7 DEF OpenHours
  <2>9. QED
    BY <2>5, <2>8
<1>3. ASSUME NEW h \in hours, NEW k \in hours, f[h] = f[k] PROVE h = k
  <2>1. h \div DayHours = k \div DayHours /\ h % DayHours = k % DayHours
    BY <1>3
  <2>2. h \in Nat /\ k \in Nat
    BY <1>1
  <2>3. h = (DayHours * (h \div DayHours)) + (h % DayHours)
    BY <1>1, <2>2, DivMod
  <2>4. k = (DayHours * (k \div DayHours)) + (k % DayHours)
    BY <1>1, <2>2, DivMod
  <2>5. QED
    BY <2>1, <2>3, <2>4
<1>4. f \in [hours -> OpenHours(a)]
  BY <1>2
<1>5. f \in Injection(hours, OpenHours(a))
  BY <1>3, <1>4 DEF Injection, IsInjective
<1>6. IsFiniteSet(OpenHours(a))
  <2>1. IsFiniteSet(days)
    <3>1. submitted[a] \div DayHours \in Int /\ (now - 1) \div DayHours \in Int
      BY <1>1
    <3>2. QED
      BY <3>1, FS_Interval
  <2>2. IsFiniteSet(0..(DayHours - 1))
    BY <1>1, FS_Interval
  <2>3. IsFiniteSet(days \X (0..(DayHours - 1)))
    BY <2>1, <2>2, FS_Product
  <2>4. OpenHours(a) \subseteq days \X (0..(DayHours - 1))
    BY DEF OpenHours
  <2>5. QED
    BY <2>3, <2>4, FS_Subset
<1>7. /\ Cardinality(hours) <= Cardinality(OpenHours(a))
      /\ Cardinality(hours) \in Nat /\ Cardinality(OpenHours(a)) \in Nat
  BY <1>5, <1>6, FS_Injection, FS_CardinalityType
<1>8. QED
  BY <1>7 DEF countBusinessHours

(* No approver is reminded before Overdue business hours have begun since  *)
(* the submission, however long a run has been at work on its list.        *)
THEOREM RemindedAfterTwoDays == Spec => []NotBeforeTwoDays
<1>1. IndInv /\ DueInv => NotBeforeTwoDays
  <2> SUFFICES ASSUME IndInv, DueInv, NEW a \in reminded
               PROVE  Cardinality(OpenHours(a)) >= Overdue
    BY DEF NotBeforeTwoDays
  <2>1. a \in Approvals /\ WasDue(a)
    BY DEF IndInv, TypeOK, DueInv, Taken
  <2>2. PICK t \in 0..now : countBusinessHours(submitted[a], t) >= Overdue
    BY <2>1 DEF WasDue, IsOverdue
  <2>3. /\ countBusinessHours(submitted[a], t) <= Cardinality(OpenHours(a))
        /\ countBusinessHours(submitted[a], t) \in Nat
        /\ Cardinality(OpenHours(a)) \in Nat
    BY <2>1, HoursAreOpen DEF IndInv
  <2>4. QED
    BY <2>2, <2>3, HoursAssumption
<1>2. QED
  BY <1>1, DueInit, DueNext, IndInvariant, PTL DEF Spec
================================================================================
