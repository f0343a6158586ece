-------------------------- MODULE WorkforceSyncProofs --------------------------
(***************************************************************************)
(* Proofs about WorkforceSync, for any workers, rosters, hierarchies, page *)
(* size, number of overlapping syncs and bounds.                           *)
(***************************************************************************)
EXTENDS WorkforceSync, FiniteSetTheorems, SequenceTheorems, TLAPS

Statuses == {"ACTIVE", "ON_LEAVE", "TERMINATED", "INACTIVE"}

People == Workers \union {Nobody}

Snapshots == [id : Workers, status : Statuses, boss : People]

Rows == [id : Workers, boss : People, manager : People]

Labels == {"idle", "page", "upsert", "managers", "find", "assign", "workers",
           "types", "policy", "delete", "create", "retire", "done"}

HcmTypeOK ==
  /\ roster \in Seq(Workers)
  /\ raw \in [Workers -> SUBSET Marks]
  /\ boss \in [Workers -> People]

TableTypeOK ==
  /\ known \subseteq Workers
  /\ status \in [Workers -> Statuses]
  /\ bossId \in [Workers -> People]
  /\ manager \in [Workers -> People]
  /\ rules \in [RuleTypes -> Nat]

LocalTypeOK ==
  /\ pc \in [Syncs -> Labels]
  /\ offset \in [Syncs -> Nat]
  /\ batch \in [Syncs -> Seq(Snapshots)]
  /\ more \in [Syncs -> BOOLEAN]
  /\ seen \in [Syncs -> SUBSET Workers]
  /\ queue \in [Syncs -> SUBSET Rows]
  /\ cur \in [Syncs -> Rows \union {NoRow}]
  /\ left \in [Syncs -> Seq(RuleTypes)]
  /\ steady \in [Syncs -> SUBSET Workers]
  /\ shrunk \in [Syncs -> BOOLEAN]
  /\ clean \in [Syncs -> BOOLEAN]

(* What a sync is going to take the first element of is there.             *)
AtHand(s) ==
  /\ pc[s] = "upsert" => batch[s] # <<>>
  /\ pc[s] = "assign" => cur[s] \in Rows
  /\ pc[s] = "create" => left[s] # <<>>

(* The types of the variables, and that no sync ever reads past the end of *)
(* a page, a list of rules or an empty row.                                *)
TypeOK == HcmTypeOK /\ TableTypeOK /\ LocalTypeOK /\ \A s \in Syncs : AtHand(s)
--------------------------------------------------------------------------------
(* A worker's mark-free status, and no other, is taken for active.         *)
LEMMA StatusOf ==
  ASSUME NEW marks \in SUBSET Marks
  PROVE  /\ mapEmploymentStatus(marks) \in Statuses
         /\ mapEmploymentStatus(marks) = "ACTIVE" <=> marks = {}
  BY DEF mapEmploymentStatus, Statuses, Marks

LEMMA SnapshotType ==
  ASSUME HcmTypeOK, NEW w \in Workers
  PROVE  Snapshot(w) \in Snapshots /\ Snapshot(w).id = w
  BY StatusOf DEF HcmTypeOK, Snapshot, Snapshots

(* A page holds the workers listed after the offset, one page of them.     *)
LEMMA PageHolds ==
  ASSUME HcmTypeOK, NEW i \in Nat
  PROVE  /\ Page(i) \in Seq(Snapshots)
         /\ Len(Page(i)) <= Limit
         /\ \A k \in 1..Len(Page(i)) : i + k \in 1..Len(roster) /\ Page(i)[k] = Snapshot(roster[i + k])
         /\ \A k \in 1..Limit : i + k <= Len(roster) => k \in 1..Len(Page(i))
<1> DEFINE last == IF i + Limit < Len(roster) THEN i + Limit ELSE Len(roster)
           ids  == SubSeq(roster, i + 1, last)
<1>1. Len(roster) \in Nat /\ \A k \in 1..Len(roster) : roster[k] \in Workers
  BY LenProperties, ElementOfSeq DEF HcmTypeOK
<1>2. last \in Nat /\ last <= Len(roster) /\ last <= i + Limit
  BY <1>1, LimitAssumption
<1>3. \A k \in (i + 1)..last : roster[k] \in Workers
  BY <1>1, <1>2
<1> HIDE DEF last
<1>4. /\ ids \in Seq(Workers)
      /\ Len(ids) = IF i + 1 <= last THEN last - i ELSE 0
      /\ \A k \in 1..(last - i) : ids[k] = roster[i + k]
  <2>1. /\ ids \in Seq(Workers)
        /\ Len(ids) = IF i + 1 <= last THEN last - (i + 1) + 1 ELSE 0
        /\ \A k \in 1..(last - (i + 1) + 1) : ids[k] = roster[(i + 1) + k - 1]
    BY <1>2, <1>3, SubSeqProperties
  <2>2. last - (i + 1) + 1 = last - i /\ \A k \in Int : (i + 1) + k - 1 = i + k
    BY <1>2
  <2>3. QED
    BY <2>1, <2>2
<1> HIDE DEF ids
<1>5. Page(i) = [k \in 1..Len(ids) |-> Snapshot(ids[k])]
  BY DEF Page, ids, last
<1>6. Len(ids) \in Nat /\ \A k \in 1..Len(ids) : ids[k] = roster[i + k] /\ i + k \in 1..Len(roster)
  BY <1>1, <1>2, <1>4
<1>7. \A k \in 1..Len(ids) : Snapshot(ids[k]) \in Snapshots
  BY <1>1, <1>6, SnapshotType
<1>8. Page(i) \in Seq(Snapshots) /\ Len(Page(i)) = Len(ids)
  BY <1>5, <1>6, <1>7
<1>9. \A k \in 1..Limit : i + k <= Len(roster) => k \in 1..Len(ids)
  BY <1>1, <1>4, LimitAssumption DEF last
<1>10. Len(ids) <= Limit
  BY <1>1, <1>4, LimitAssumption DEF last
<1>11. QED
  BY <1>5, <1>6, <1>8, <1>9, <1>10
--------------------------------------------------------------------------------
(* A worker listed before a hire is listed after it, no earlier.           *)
LEMMA InsertShifts ==
  ASSUME NEW S, NEW seq \in Seq(S), NEW w \in S, NEW i \in 1..(Len(seq) + 1)
  PROVE  /\ InsertAt(seq, i, w) \in Seq(S)
         /\ Len(InsertAt(seq, i, w)) = Len(seq) + 1
         /\ \A k \in 1..Len(seq) : \/ InsertAt(seq, i, w)[k] = seq[k]
                                   \/ InsertAt(seq, i, w)[k + 1] = seq[k]
<1> DEFINE front == SubSeq(seq, 1, i - 1)
           back  == SubSeq(seq, i, Len(seq))
<1>1. Len(seq) \in Nat /\ \A k \in 1..Len(seq) : seq[k] \in S
  BY LenProperties, ElementOfSeq
<1>2. /\ front \in Seq(S)
      /\ Len(front) = i - 1
      /\ \A k \in 1..(i - 1) : front[k] = seq[k]
  BY <1>1
<1>3. /\ back \in Seq(S)
      /\ Len(back) = Len(seq) - i + 1
      /\ \A k \in 1..(Len(seq) - i + 1) : back[k] = seq[i + k - 1]
  BY <1>1
<1> HIDE DEF front, back
<1>4. <<w>> \in Seq(S) /\ Len(<<w>>) = 1
  OBVIOUS
<1>5. /\ front \o <<w>> \in Seq(S)
      /\ Len(front \o <<w>>) = i
      /\ \A k \in 1..(i - 1) : (front \o <<w>>)[k] = seq[k]
  BY <1>1, <1>2, <1>4, ConcatProperties
<1> DEFINE head == front \o <<w>>
<1> HIDE DEF head
<1>6. /\ head \o back \in Seq(S)
      /\ Len(head \o back) = Len(seq) + 1
      /\ \A k \in 1..(Len(seq) + 1) : (head \o back)[k]
                                        = IF k <= i THEN head[k] ELSE back[k - i]
  <2>1. head \in Seq(S) /\ Len(head) = i
    BY <1>5 DEF head
  <2>2. /\ head \o back \in Seq(S)
        /\ Len(head \o back) = Len(head) + Len(back)
        /\ \A k \in 1..(Len(head) + Len(back)) : (head \o back)[k]
              = IF k <= Len(head) THEN head[k] ELSE back[k - Len(head)]
    BY <1>3, <2>1, ConcatProperties
  <2>3. Len(head) + Len(back) = Len(seq) + 1
    BY <1>1, <1>3, <2>1
  <2>4. QED
    BY <2>1, <2>2, <2>3
<1>7. InsertAt(seq, i, w) = head \o back
  BY DEF InsertAt, front, back, head
<1>8. ASSUME NEW k \in 1..Len(seq)
      PROVE  \/ InsertAt(seq, i, w)[k] = seq[k]
             \/ InsertAt(seq, i, w)[k + 1] = seq[k]
  <2>1. CASE k < i
    <3>1. k \in 1..(Len(seq) + 1) /\ k <= i /\ k \in 1..(i - 1)
      BY <1>1, <2>1
    <3>2. head[k] = seq[k]
      BY <1>5, <3>1 DEF head
    <3>3. QED
      BY <1>6, <1>7, <3>1, <3>2
  <2>2. CASE k >= i
    <3>1. (k + 1) - i \in 1..(Len(seq) - i + 1) /\ i + ((k + 1) - i) - 1 = k
      BY <1>1, <2>2
    <3>2. back[(k + 1) - i] = seq[k]
      BY <1>3, <3>1
    <3>3. k + 1 \in 1..(Len(seq) + 1) /\ ~(k + 1 <= i)
      BY <1>1, <2>2
    <3>4. InsertAt(seq, i, w)[k + 1] = back[(k + 1) - i]
      BY <1>6, <1>7, <3>3
    <3>5. QED
      BY <3>2, <3>4
  <2>3. QED
    BY <1>1, <2>1, <2>2
<1>9. QED
  BY <1>6, <1>7, <1>8

LEMMA RemoveType ==
  ASSUME NEW S, NEW seq \in Seq(S), NEW i \in DOMAIN seq
  PROVE  RemoveAt(seq, i) \in Seq(S)
<1>1. Len(seq) \in Nat /\ i \in 1..Len(seq) /\ \A k \in 1..Len(seq) : seq[k] \in S
  BY LenProperties, ElementOfSeq
<1>2. SubSeq(seq, 1, i - 1) \in Seq(S)
  BY <1>1
<1>3. SubSeq(seq, i + 1, Len(seq)) \in Seq(S)
  BY <1>1
<1>4. QED
  BY <1>2, <1>3, ConcatProperties DEF RemoveAt
--------------------------------------------------------------------------------
LEMMA TypeInit == Init => TypeOK
<1> SUFFICES ASSUME Init PROVE TypeOK
  OBVIOUS
<1>1. roster \in Seq(Workers)
  BY HcmAssumption DEF Init
<1>2. boss \in [Workers -> People]
  BY HcmAssumption DEF Init, People
<1>3. QED
  BY <1>1, <1>2
  DEF Init, TypeOK, HcmTypeOK, TableTypeOK, LocalTypeOK, AtHand, Statuses, Labels, NoRow, People

(* A sync that ends or fails forgets everything of its own.                *)
LEMMA ForgetType ==
  ASSUME LocalTypeOK, NEW s \in Syncs, Forget(s)
  PROVE  LocalTypeOK'
<1>1. pc' \in [Syncs -> Labels]
  BY DEF LocalTypeOK, Forget, Goto, Labels
<1>2. batch' \in [Syncs -> Seq(Snapshots)] /\ left' \in [Syncs -> Seq(RuleTypes)]
  BY DEF LocalTypeOK, Forget
<1>3. offset' \in [Syncs -> Nat] /\ more' \in [Syncs -> BOOLEAN] /\ seen' \in [Syncs -> SUBSET Workers]
  BY DEF LocalTypeOK, Forget
<1>4. queue' \in [Syncs -> SUBSET Rows] /\ cur' \in [Syncs -> Rows \union {NoRow}]
  BY DEF LocalTypeOK, Forget
<1>5. /\ steady' \in [Syncs -> SUBSET Workers]
      /\ shrunk' \in [Syncs -> BOOLEAN]
      /\ clean' \in [Syncs -> BOOLEAN]
  BY DEF LocalTypeOK, Forget
<1>6. QED
  BY <1>1, <1>2, <1>3, <1>4, <1>5 DEF LocalTypeOK

LEMMA PageType ==
  ASSUME TypeOK, NEW s \in Syncs, FetchPage(s)
  PROVE  TypeOK'
<1>1. Page(offset[s]) \in Seq(Snapshots)
  BY PageHolds DEF TypeOK, LocalTypeOK
<1>2. batch' \in [Syncs -> Seq(Snapshots)] /\ batch'[s] = Page(offset[s])
  BY <1>1 DEF TypeOK, LocalTypeOK, FetchPage
<1>3. more' \in [Syncs -> BOOLEAN]
  BY DEF TypeOK, LocalTypeOK, FetchPage
<1>4. offset' \in [Syncs -> Nat]
  BY LimitAssumption DEF TypeOK, LocalTypeOK, FetchPage
<1>5. pc' = [pc EXCEPT ![s] = AfterPage(batch'[s], more'[s])]
  BY DEF FetchPage, Goto
<1>6. pc' \in [Syncs -> Labels] /\ \A t \in Syncs : AtHand(t)'
  BY <1>2, <1>5 DEF TypeOK, LocalTypeOK, AtHand, FetchPage, AfterPage, Labels, loop
<1>7. QED
  BY <1>2, <1>3, <1>4, <1>6
  DEF TypeOK, HcmTypeOK, TableTypeOK, LocalTypeOK, FetchPage, hcm, table, terms, loop, history

LEMMA UpsertType ==
  ASSUME TypeOK, NEW s \in Syncs, Upsert(s)
  PROVE  TypeOK'
<1> DEFINE snap == Head(batch[s])
<1>1. batch[s] \in Seq(Snapshots) /\ batch[s] # <<>>
  BY DEF TypeOK, LocalTypeOK, AtHand, Upsert
<1>2. snap \in Snapshots /\ Tail(batch[s]) \in Seq(Snapshots)
  BY <1>1, HeadTailProperties
<1>3. snap.id \in Workers /\ snap.status \in Statuses /\ snap.boss \in People
  BY <1>2 DEF Snapshots
<1> HIDE DEF snap
<1>4. TableTypeOK'
  BY <1>3 DEF TypeOK, TableTypeOK, Upsert, terms, snap
<1>5. batch' \in [Syncs -> Seq(Snapshots)] /\ seen' \in [Syncs -> SUBSET Workers]
  BY <1>2, <1>3 DEF TypeOK, LocalTypeOK, Upsert, snap
<1>6. pc' = [pc EXCEPT ![s] = AfterPage(batch'[s], more[s])]
  BY DEF Upsert, Goto
<1>7. pc' \in [Syncs -> Labels] /\ \A t \in Syncs : AtHand(t)'
  BY <1>5, <1>6 DEF TypeOK, LocalTypeOK, AtHand, Upsert, AfterPage, Labels, loop
<1>8. clean' \in [Syncs -> BOOLEAN]
  BY DEF TypeOK, LocalTypeOK, Upsert, Writes
<1>9. QED
  BY <1>4, <1>5, <1>7, <1>8 DEF TypeOK, HcmTypeOK, LocalTypeOK, Upsert, hcm, loop

LEMMA RowTypes ==
  ASSUME TableTypeOK, NEW w \in Workers
  PROVE  Row(w) \in Rows /\ [NoRow EXCEPT !.id = w] \in Rows
  BY DEF TableTypeOK, Row, Rows, NoRow, People

(* What reading the rows and going through them changes.                   *)
LEMMA ListEffects ==
  ASSUME TypeOK, NEW s \in Syncs, ListManagers(s) \/ ListWorkers(s)
  PROVE  \E rows \in SUBSET Rows, l \in {"find", "workers", "types", "retire"} :
           /\ queue' = [queue EXCEPT ![s] = rows]
           /\ Goto(s, l)
           /\ UNCHANGED <<hcm, table, terms, paging, cur, left, history, bounds>>
<1>1. CASE ListManagers(s)
  <2> DEFINE rows == {Row(w) : w \in {v \in known : bossId[v] # Nobody}}
  <2>1. rows \in SUBSET Rows
    BY RowTypes DEF TypeOK, TableTypeOK
  <2>2. queue' = [queue EXCEPT ![s] = rows]
    BY <1>1 DEF ListManagers
  <2> HIDE DEF rows
  <2>3. Goto(s, "find") \/ Goto(s, "workers")
    BY <1>1 DEF ListManagers, Onward
  <2>4. QED
    BY <1>1, <2>1, <2>2, <2>3 DEF ListManagers
<1>2. CASE ListWorkers(s)
  <2> DEFINE rows == {[NoRow EXCEPT !.id = w] : w \in known}
  <2>1. rows \in SUBSET Rows
    BY RowTypes DEF TypeOK, TableTypeOK
  <2>2. queue' = [queue EXCEPT ![s] = rows]
    BY <1>2 DEF ListWorkers
  <2> HIDE DEF rows
  <2>3. Goto(s, "types") \/ Goto(s, "retire")
    BY <1>2 DEF ListWorkers, Onward
  <2>4. QED
    BY <1>2, <2>1, <2>2, <2>3 DEF ListWorkers
<1>3. QED
  BY <1>1, <1>2

LEMMA TakeEffects ==
  ASSUME TypeOK, NEW s \in Syncs, FindManager(s) \/ FetchTypes(s)
  PROVE  \E row \in queue[s] :
           /\ queue' = [queue EXCEPT ![s] = @ \ {row}]
           /\ \/ cur' = [cur EXCEPT ![s] = row] /\ Goto(s, "assign")
              \/ /\ UNCHANGED cur
                 /\ \E l \in {"find", "workers", "policy", "types", "retire"} : Goto(s, l)
           /\ UNCHANGED <<hcm, table, terms, paging, left, history, bounds>>
<1>1. CASE FindManager(s)
  <2>1. PICK row \in queue[s] :
          /\ queue' = [queue EXCEPT ![s] = @ \ {row}]
          /\ IF row.boss \in known /\ row.manager # row.boss
             THEN cur' = [cur EXCEPT ![s] = row] /\ Goto(s, "assign")
             ELSE UNCHANGED cur /\ Onward(s, queue'[s], "find", "workers")
    BY <1>1 DEF FindManager
  <2>2. \/ cur' = [cur EXCEPT ![s] = row] /\ Goto(s, "assign")
        \/ UNCHANGED cur /\ \E l \in {"find", "workers", "policy", "types", "retire"} : Goto(s, l)
    BY <2>1 DEF Onward
  <2>3. QED
    BY <1>1, <2>1, <2>2 DEF FindManager
<1>2. CASE FetchTypes(s)
  <2>1. PICK row \in queue[s] :
          /\ queue' = [queue EXCEPT ![s] = @ \ {row}]
          /\ IF row.id \in Entitled
             THEN Goto(s, "policy")
             ELSE Onward(s, queue'[s], "types", "retire")
    BY <1>2 DEF FetchTypes
  <2>2. \E l \in {"find", "workers", "policy", "types", "retire"} : Goto(s, l)
    BY <2>1 DEF Onward
  <2>3. QED
    BY <1>2, <2>1, <2>2 DEF FetchTypes
<1>3. QED
  BY <1>1, <1>2

LEMMA RowsType ==
  ASSUME TypeOK, NEW s \in Syncs,
         ListManagers(s) \/ FindManager(s) \/ ListWorkers(s) \/ FetchTypes(s)
  PROVE  TypeOK'
<1>1. CASE ListManagers(s) \/ ListWorkers(s)
  <2>1. PICK rows \in SUBSET Rows, l \in {"find", "workers", "types", "retire"} :
           /\ queue' = [queue EXCEPT ![s] = rows]
           /\ Goto(s, l)
           /\ UNCHANGED <<hcm, table, terms, paging, cur, left, history, bounds>>
    BY <1>1, ListEffects
  <2>2. queue' \in [Syncs -> SUBSET Rows] /\ pc' \in [Syncs -> Labels]
    BY <2>1 DEF TypeOK, LocalTypeOK, Goto, Labels
  <2>3. \A t \in Syncs : AtHand(t)'
    BY <2>1 DEF TypeOK, LocalTypeOK, AtHand, Goto, paging
  <2>4. QED
    BY <2>1, <2>2, <2>3
    DEF TypeOK, HcmTypeOK, TableTypeOK, LocalTypeOK, hcm, table, terms, paging, history
<1>2. CASE FindManager(s) \/ FetchTypes(s)
  <2>1. PICK row \in queue[s] :
           /\ queue' = [queue EXCEPT ![s] = @ \ {row}]
           /\ \/ cur' = [cur EXCEPT ![s] = row] /\ Goto(s, "assign")
              \/ /\ UNCHANGED cur
                 /\ \E l \in {"find", "workers", "policy", "types", "retire"} : Goto(s, l)
           /\ UNCHANGED <<hcm, table, terms, paging, left, history, bounds>>
    BY <1>2, TakeEffects
  <2>2. row \in Rows
    BY <2>1 DEF TypeOK, LocalTypeOK
  <2>3. queue' \in [Syncs -> SUBSET Rows]
    BY <2>1 DEF TypeOK, LocalTypeOK
  <2>4. pc' \in [Syncs -> Labels] /\ cur' \in [Syncs -> Rows \union {NoRow}]
    BY <2>1, <2>2 DEF TypeOK, LocalTypeOK, Goto, Labels
  <2>5. \A t \in Syncs : AtHand(t)'
    BY <2>1, <2>2 DEF TypeOK, LocalTypeOK, AtHand, Goto, paging
  <2>6. QED
    BY <2>1, <2>3, <2>4, <2>5
    DEF TypeOK, HcmTypeOK, TableTypeOK, LocalTypeOK, hcm, table, terms, paging, history
<1>3. QED
  BY <1>1, <1>2

LEMMA AssignType ==
  ASSUME TypeOK, NEW s \in Syncs, Assign(s)
  PROVE  TypeOK'
<1>1. cur[s] \in Rows
  BY DEF Assign, TypeOK, AtHand
<1>2. TableTypeOK'
  BY <1>1 DEF TypeOK, TableTypeOK, Assign, Rows, terms
<1>3. PICK l \in {"find", "workers"} : Goto(s, l)
  BY DEF Assign, Onward
<1>4. pc' \in [Syncs -> Labels] /\ cur' \in [Syncs -> Rows \union {NoRow}] /\ clean' \in [Syncs -> BOOLEAN]
  BY <1>3 DEF TypeOK, LocalTypeOK, Assign, Goto, Labels, Writes
<1>5. \A t \in Syncs : AtHand(t)'
  BY <1>3 DEF TypeOK, LocalTypeOK, AtHand, Assign, Goto, paging
<1>6. QED
  BY <1>2, <1>4, <1>5 DEF TypeOK, HcmTypeOK, LocalTypeOK, Assign, hcm, paging

(* The steps that replace the rules of the policy.                         *)
LEMMA RulesType ==
  ASSUME TypeOK, NEW s \in Syncs, UpsertPolicy(s) \/ DeleteRules(s) \/ CreateRule(s)
  PROVE  TypeOK'
<1>1. Rules \in Seq(RuleTypes) /\ Rules # <<>>
  BY DEF Rules, RuleTypes
<1>2. CASE UpsertPolicy(s)
  <2>1. pc' \in [Syncs -> Labels] /\ \A t \in Syncs : AtHand(t)'
    BY <1>2 DEF TypeOK, LocalTypeOK, AtHand, UpsertPolicy, Goto, Labels, paging, loop
  <2>2. QED
    BY <1>2, <2>1
    DEF TypeOK, HcmTypeOK, TableTypeOK, LocalTypeOK, UpsertPolicy, hcm, table, paging, loop, history
<1>3. CASE DeleteRules(s)
  <2>1. left' \in [Syncs -> Seq(RuleTypes)] /\ left'[s] # <<>>
    BY <1>1, <1>3 DEF TypeOK, LocalTypeOK, DeleteRules
  <2>2. pc' \in [Syncs -> Labels] /\ \A t \in Syncs : AtHand(t)'
    BY <1>3, <2>1 DEF TypeOK, LocalTypeOK, AtHand, DeleteRules, Goto, Labels, paging
  <2>3. QED
    BY <1>3, <2>1, <2>2
    DEF TypeOK, HcmTypeOK, TableTypeOK, LocalTypeOK, DeleteRules, hcm, table, paging, history
<1>4. CASE CreateRule(s)
  <2>1. left[s] \in Seq(RuleTypes) /\ left[s] # <<>>
    BY <1>4 DEF TypeOK, LocalTypeOK, AtHand, CreateRule
  <2>2. /\ Head(left[s]) \in RuleTypes
        /\ Tail(left[s]) \in Seq(RuleTypes)
        /\ Len(left[s]) > 1 => Tail(left[s]) # <<>>
    <3>1. Len(Tail(left[s])) = Len(left[s]) - 1 /\ Len(left[s]) \in Nat
      BY <2>1, HeadTailProperties, LenProperties
    <3>2. \A n \in Nat : n > 1 => n - 1 # 0
      OBVIOUS
    <3>3. Len(left[s]) > 1 => Tail(left[s]) # <<>>
      BY <3>1, <3>2
    <3>4. QED
      BY <2>1, <3>3, HeadTailProperties
  <2>3. left' \in [Syncs -> Seq(RuleTypes)] /\ left'[s] = Tail(left[s])
    BY <1>4, <2>2 DEF TypeOK, LocalTypeOK, CreateRule
  <2>4. /\ pc' \in [Syncs -> Labels]
        /\ \A t \in Syncs \ {s} : pc'[t] = pc[t]
        /\ pc'[s] = "create" => Len(left[s]) > 1
        /\ pc'[s] \notin {"upsert", "assign"}
    BY <1>4 DEF TypeOK, LocalTypeOK, CreateRule, Onward, Goto, Labels
  <2>5. \A t \in Syncs : AtHand(t)'
    BY <1>4, <2>2, <2>3, <2>4 DEF TypeOK, LocalTypeOK, AtHand, CreateRule, paging
  <2>6. rules' \in [RuleTypes -> Nat]
    <3>1. rules' = [rules EXCEPT ![Head(left[s])] = @ + 1] /\ rules \in [RuleTypes -> Nat]
      BY <1>4 DEF CreateRule, TypeOK, TableTypeOK
    <3>2. QED
      BY <2>2, <3>1
  <2>7. QED
    BY <1>4, <2>3, <2>4, <2>5, <2>6
    DEF TypeOK, HcmTypeOK, TableTypeOK, LocalTypeOK, CreateRule, hcm, table, paging, history
<1>5. QED
  BY <1>2, <1>3, <1>4

LEMMA RetireType ==
  ASSUME TypeOK, NEW s \in Syncs, Retire(s)
  PROVE  TypeOK'
<1>1. status' \in [Workers -> Statuses]
  BY DEF TypeOK, TableTypeOK, Retire, Statuses
<1>2. pc' \in [Syncs -> Labels] /\ clean' \in [Syncs -> BOOLEAN]
  BY DEF TypeOK, LocalTypeOK, Retire, Goto, Labels, Writes
<1>3. \A t \in Syncs : AtHand(t)'
  BY DEF TypeOK, LocalTypeOK, AtHand, Retire, Goto, paging, loop
<1>4. QED
  BY <1>1, <1>2, <1>3
  DEF TypeOK, HcmTypeOK, TableTypeOK, LocalTypeOK, Retire, hcm, terms, paging, loop

(* A sync begins, ends or fails.                                           *)
LEMMA EndsType ==
  ASSUME TypeOK, NEW s \in Syncs, Begin(s) \/ End(s) \/ Fails(s)
  PROVE  TypeOK'
<1>1. CASE Begin(s)
  <2>1. Listed \in SUBSET Workers
    BY RangeOfSeq DEF TypeOK, HcmTypeOK, Listed
  <2>2. /\ steady' \in [Syncs -> SUBSET Workers]
        /\ shrunk' \in [Syncs -> BOOLEAN]
        /\ clean' \in [Syncs -> BOOLEAN]
    BY <1>1, <2>1 DEF TypeOK, LocalTypeOK, Begin
  <2>3. pc' \in [Syncs -> Labels] /\ \A t \in Syncs : AtHand(t)'
    BY <1>1 DEF TypeOK, LocalTypeOK, AtHand, Begin, Goto, Labels, paging, loop
  <2>4. QED
    BY <1>1, <2>2, <2>3
    DEF TypeOK, HcmTypeOK, TableTypeOK, LocalTypeOK, Begin, hcm, table, terms, paging, loop
<1>2. CASE End(s) \/ Fails(s)
  <2>1. Forget(s) /\ UNCHANGED <<hcm, table, terms>>
    BY <1>2 DEF End, Fails
  <2>2. \A t \in Syncs : AtHand(t)'
    BY <2>1 DEF TypeOK, LocalTypeOK, AtHand, Forget, Goto
  <2>3. QED
    BY <2>1, <2>2, ForgetType DEF TypeOK, HcmTypeOK, TableTypeOK, hcm, table, terms
<1>3. QED
  BY <1>1, <1>2

LEMMA HcmType ==
  ASSUME TypeOK, NEW w \in Workers, Hire(w) \/ Dismiss(w) \/ Update(w)
  PROVE  TypeOK'
<1>1. Edit
  BY DEF Hire, Dismiss, Update
<1>2. TableTypeOK' /\ \A t \in Syncs : AtHand(t)'
  BY <1>1 DEF TypeOK, TableTypeOK, AtHand, Edit, table, terms, paging, loop
<1>3. steady' \in [Syncs -> SUBSET Workers] /\ shrunk' \in [Syncs -> BOOLEAN]
  BY DEF TypeOK, LocalTypeOK, Hire, Dismiss, Update
<1>4. LocalTypeOK'
  BY <1>1, <1>3 DEF TypeOK, LocalTypeOK, Edit, paging, loop
<1>5. HcmTypeOK'
  <2>1. CASE Hire(w)
    BY <2>1, InsertShifts DEF TypeOK, HcmTypeOK, Hire
  <2>2. CASE Dismiss(w)
    BY <2>2, RemoveType DEF TypeOK, HcmTypeOK, Dismiss
  <2>3. CASE Update(w)
    <3>1. raw' \in [Workers -> SUBSET Marks]
      BY <2>3, RawAssumption DEF TypeOK, HcmTypeOK, Update
    <3>2. boss' \in [Workers -> People]
      BY <2>3 DEF TypeOK, HcmTypeOK, Update, Managers, People
    <3>3. QED
      BY <2>3, <3>1, <3>2 DEF TypeOK, HcmTypeOK, Update
  <2>4. QED
    BY <2>1, <2>2, <2>3
<1>6. QED
  BY <1>2, <1>4, <1>5 DEF TypeOK

LEMMA TypeStep ==
  ASSUME TypeOK, [Next]_vars
  PROVE  TypeOK'
<1>1. ASSUME NEW s \in Syncs, Step(s) PROVE TypeOK'
  BY <1>1, PageType, UpsertType, RowsType, AssignType, RulesType, RetireType, EndsType DEF Step
<1>2. CASE UNCHANGED vars
  BY <1>2 DEF vars, hcm, table, terms, paging, loop, history,
              TypeOK, HcmTypeOK, TableTypeOK, LocalTypeOK, AtHand
<1>3. QED
  BY <1>1, <1>2, EndsType, HcmType DEF Next

(* Whatever HCM lists, updates and dismisses meanwhile, and however syncs  *)
(* overlap and fail, a sync never takes the next row of an empty page.     *)
THEOREM TypeCorrect == Spec => []TypeOK
  BY TypeInit, TypeStep, PTL DEF Spec

--------------------------------------------------------------------------------
(* A sync that is not at work starts afresh.                               *)
Afresh(s) ==
  pc[s] = "idle" => offset[s] = 0 /\ batch[s] = <<>> /\ seen[s] = {} /\ ~clean[s]

(* A worker on a page still to be read, and on the page at hand.           *)
Ahead(s, w) == \E i \in (offset[s] + 1)..Len(roster) : roster[i] = w

OnPage(s, w) == \E k \in 1..Len(batch[s]) : batch[s][k].id = w

(* Unless HCM dismissed somebody, each worker it has listed all along is   *)
(* seen, or on the page at hand, or on one still to be read.               *)
Covered(s) ==
  ~shrunk[s] =>
    /\ pc[s] = "page" => \A w \in steady[s] : w \in seen[s] \/ Ahead(s, w)
    /\ pc[s] = "upsert" =>
         \A w \in steady[s] : w \in seen[s] \/ OnPage(s, w) \/ (more[s] /\ Ahead(s, w))
    /\ pc[s] \notin {"idle", "page", "upsert"} => steady[s] \subseteq seen[s]

CoverInv == \A s \in Syncs : Afresh(s) /\ Covered(s)

(* The rows whose manager a sync has still to look at or to assign.        *)
Pending(s) == queue[s] \union (IF pc[s] = "assign" THEN {cur[s]} ELSE {})

Resolved == {"workers", "types", "policy", "delete", "create", "retire", "done"}

Assigned == \A w \in Listed : boss[w] \in known => manager[w] = boss[w]

(* Every listed worker has the manager HCM names or is still to be looked  *)
(* at.                                                                     *)
Resolving(s) ==
  /\ \A row \in Pending(s) : row.boss = bossId[row.id]
  /\ \A w \in Listed : boss[w] \in known =>
       \/ manager[w] = boss[w]
       \/ \E row \in Pending(s) : row.id = w /\ row.manager # boss[w]

(* The row of a worker says what HCM says.                                 *)
Current(w) ==
  /\ status[w] = mapEmploymentStatus(raw[w])
  /\ boss[w] # Nobody => bossId[w] = boss[w]

(* What a sync nothing has interfered with has brought in so far.          *)
Mirrored(s) ==
  clean[s] =>
    /\ steady[s] = Listed /\ ~shrunk[s]
    /\ seen[s] \subseteq Listed \intersect known
    /\ \A k \in 1..Len(batch[s]) : \E w \in Listed : batch[s][k] = Snapshot(w)
    /\ \A w \in seen[s] : Current(w)
    /\ pc[s] \in {"find", "assign"} => Resolving(s)
    /\ pc[s] \in Resolved => Assigned
    /\ pc[s] = "done" =>
         \A w \in known : status[w] = "ACTIVE" <=> w \in Listed /\ raw[w] = {}

MirrorInv == \A s \in Syncs : Mirrored(s)

(* What a sync has of its own but for its history of interference.         *)
Own(s) == <<pc[s], offset[s], batch[s], more[s], seen[s], queue[s], cur[s], left[s],
            steady[s], shrunk[s]>>

(* A sync has its variables to itself, and knows of no write of another.   *)
LEMMA Elsewhere ==
  ASSUME TypeOK, NEW s \in Syncs, NEW t \in Syncs \ {s}, Begin(t) \/ Step(t) \/ Fails(t)
  PROVE  /\ UNCHANGED <<hcm, Own(s)>>
         /\ clean'[s] => clean[s] /\ UNCHANGED table
<1> USE DEF TypeOK, LocalTypeOK, Own, Goto, Onward, Writes, paging, loop, history
<1>1. CASE Begin(t)
  BY <1>1 DEF Begin
<1>2. CASE FetchPage(t)
  BY <1>2 DEF FetchPage
<1>3. CASE Upsert(t)
  BY <1>3 DEF Upsert
<1>4. CASE ListManagers(t)
  BY <1>4 DEF ListManagers
<1>5. CASE FindManager(t)
  BY <1>5 DEF FindManager
<1>6. CASE Assign(t)
  BY <1>6 DEF Assign
<1>7. CASE ListWorkers(t)
  BY <1>7 DEF ListWorkers
<1>8. CASE FetchTypes(t)
  BY <1>8 DEF FetchTypes
<1>9. CASE UpsertPolicy(t)
  BY <1>9 DEF UpsertPolicy
<1>10. CASE DeleteRules(t)
  BY <1>10 DEF DeleteRules
<1>11. CASE CreateRule(t)
  BY <1>11 DEF CreateRule
<1>12. CASE Retire(t)
  BY <1>12 DEF Retire
<1>13. CASE End(t) \/ Fails(t)
  BY <1>13 DEF End, Fails, Forget
<1>14. QED
  BY <1>1, <1>2, <1>3, <1>4, <1>5, <1>6, <1>7, <1>8, <1>9, <1>10, <1>11, <1>12, <1>13 DEF Step

(* What HCM's changes leave of a sync.                                     *)
LEMMA HcmEffects ==
  ASSUME TypeOK, NEW w \in Workers, Hire(w) \/ Dismiss(w) \/ Update(w), NEW s \in Syncs
  PROVE  /\ UNCHANGED <<table, pc[s], offset[s], batch[s], more[s], seen[s], queue[s], cur[s], left[s]>>
         /\ ~clean'[s]
         /\ shrunk'[s] \/ (shrunk'[s] = shrunk[s] /\ steady'[s] = steady[s])
         /\ ~shrunk'[s] /\ Paging(s) =>
              \A v \in Workers, i \in Nat :
                (\E k \in (i + 1)..Len(roster) : roster[k] = v)
                  => \E k \in (i + 1)..Len(roster') : roster'[k] = v
<1>1. Edit
  BY DEF Hire, Dismiss, Update
<1>2. UNCHANGED <<table, pc[s], offset[s], batch[s], more[s], seen[s], queue[s], cur[s], left[s]>> /\ ~clean'[s]
  BY <1>1 DEF Edit, paging, loop, TypeOK, LocalTypeOK
<1>3. shrunk'[s] \/ (shrunk'[s] = shrunk[s] /\ steady'[s] = steady[s])
  BY DEF Hire, Dismiss, Update, TypeOK, LocalTypeOK
<1>4. ASSUME ~shrunk'[s], Paging(s), NEW v \in Workers, NEW i \in Nat,
             NEW k \in (i + 1)..Len(roster), roster[k] = v
      PROVE  \E n \in (i + 1)..Len(roster') : roster'[n] = v
  <2>1. Len(roster) \in Nat /\ roster \in Seq(Workers)
    BY LenProperties DEF TypeOK, HcmTypeOK
  <2>2. CASE Hire(w)
    <3>1. PICK j \in 1..(Len(roster) + 1) : roster' = InsertAt(roster, j, w)
      BY <2>2 DEF Hire
    <3>2. /\ Len(roster') = Len(roster) + 1
          /\ \A n \in 1..Len(roster) : roster'[n] = roster[n] \/ roster'[n + 1] = roster[n]
      BY <2>1, <3>1, InsertShifts
    <3>3. k \in 1..Len(roster) /\ k \in (i + 1)..(Len(roster) + 1) /\ k + 1 \in (i + 1)..(Len(roster) + 1)
      BY <2>1
    <3>4. QED
      BY <1>4, <3>2, <3>3
  <2>3. CASE Dismiss(w)
    BY <1>4, <2>3 DEF Dismiss
  <2>4. CASE Update(w)
    BY <1>4, <2>4 DEF Update
  <2>5. QED
    BY <2>2, <2>3, <2>4
<1>5. QED
  BY <1>2, <1>3, <1>4

--------------------------------------------------------------------------------
LEMMA CoverElsewhere ==
  ASSUME NEW s \in Syncs, Afresh(s), Covered(s), UNCHANGED <<hcm, Own(s)>>, clean'[s] => clean[s]
  PROVE  Afresh(s)' /\ Covered(s)'
  BY DEF Afresh, Covered, Ahead, OnPage, Own, hcm

LEMMA CoverHcm ==
  ASSUME TypeOK, NEW w \in Workers, Hire(w) \/ Dismiss(w) \/ Update(w),
         NEW s \in Syncs, Afresh(s), Covered(s)
  PROVE  Afresh(s)' /\ Covered(s)'
<1>1. Afresh(s)'
  BY HcmEffects DEF Afresh
<1>2. ASSUME ~shrunk'[s] PROVE Covered(s)'
  <2>1. /\ UNCHANGED <<pc[s], offset[s], batch[s], more[s], seen[s]>>
        /\ steady'[s] = steady[s] /\ ~shrunk[s]
    BY <1>2, HcmEffects
  <2>2. offset[s] \in Nat /\ steady[s] \subseteq Workers
    BY DEF TypeOK, LocalTypeOK
  <2>3. Paging(s) => \A v \in steady[s] : Ahead(s, v) => Ahead(s, v)'
    <3>1. SUFFICES ASSUME Paging(s), NEW v \in steady[s], Ahead(s, v) PROVE Ahead(s, v)'
      OBVIOUS
    <3>2. \E k \in (offset[s] + 1)..Len(roster') : roster'[k] = v
      BY <1>2, <2>2, <3>1, HcmEffects DEF Ahead
    <3>3. QED
      BY <2>1, <3>2 DEF Ahead
  <2>4. QED
    BY <2>1, <2>3 DEF Covered, OnPage, Paging
<1>3. QED
  BY <1>1, <1>2 DEF Covered

(* A sync takes the next row of its page, or the next page.                *)
LEMMA CoverTurn ==
  ASSUME NEW s \in Syncs, Goto(s, AfterPage(batch'[s], more'[s])), pc[s] # "idle", LocalTypeOK,
         ~shrunk'[s] => \A w \in steady'[s] :
           w \in seen'[s] \/ OnPage(s, w)' \/ (more'[s] /\ Ahead(s, w)')
  PROVE  Afresh(s)' /\ Covered(s)'
<1>1. pc'[s] = AfterPage(batch'[s], more'[s])
  BY DEF Goto, LocalTypeOK
<1>2. batch'[s] = <<>> => \A w : ~OnPage(s, w)'
  BY DEF OnPage
<1>3. CASE batch'[s] # <<>>
  BY <1>1, <1>3 DEF AfterPage, Afresh, Covered
<1>4. CASE batch'[s] = <<>>
  BY <1>1, <1>2, <1>4 DEF AfterPage, Afresh, Covered
<1>5. QED
  BY <1>3, <1>4

LEMMA CoverPage ==
  ASSUME TypeOK, NEW s \in Syncs, Afresh(s), Covered(s), FetchPage(s)
  PROVE  Afresh(s)' /\ Covered(s)'
<1>1. /\ pc[s] = "page"
      /\ batch'[s] = Page(offset[s])
      /\ more'[s] = (offset[s] + Len(batch'[s]) < Len(roster))
      /\ offset'[s] = offset[s] + Limit
      /\ Goto(s, AfterPage(batch'[s], more'[s]))
      /\ UNCHANGED <<roster, seen, steady, shrunk>>
  BY DEF FetchPage, TypeOK, LocalTypeOK, hcm, history
<1>2. offset[s] \in Nat /\ Limit \in Nat /\ Len(roster) \in Nat
  BY LimitAssumption, LenProperties DEF TypeOK, LocalTypeOK, HcmTypeOK
<1>3. /\ Len(Page(offset[s])) <= Limit /\ Len(Page(offset[s])) \in Nat
      /\ \A k \in 1..Limit : offset[s] + k <= Len(roster) => k \in 1..Len(Page(offset[s]))
      /\ \A k \in 1..Len(Page(offset[s])) : Page(offset[s])[k].id = roster[offset[s] + k]
  <2>1. Page(offset[s]) \in Seq(Snapshots)
    BY <1>2, PageHolds DEF TypeOK
  <2>2. Len(Page(offset[s])) \in Nat
    BY <2>1, LenProperties
  <2>3. \A w : Snapshot(w).id = w
    BY DEF Snapshot
  <2>4. QED
    BY <1>2, <2>2, <2>3, PageHolds DEF TypeOK
<1>4. ASSUME ~shrunk'[s], NEW w \in steady'[s], w \notin seen'[s]
      PROVE  OnPage(s, w)' \/ (more'[s] /\ Ahead(s, w)')
  <2>1. PICK i \in (offset[s] + 1)..Len(roster) : roster[i] = w
    BY <1>1, <1>4 DEF Covered, Ahead
  <2>2. CASE i <= offset[s] + Limit
    <3>1. i - offset[s] \in 1..Limit /\ offset[s] + (i - offset[s]) = i
      BY <1>2, <2>2
    <3>2. i - offset[s] \in 1..Len(batch'[s]) /\ batch'[s][i - offset[s]].id = w
      BY <1>1, <1>2, <1>3, <2>1, <3>1
    <3>3. QED
      BY <3>2 DEF OnPage
  <2>3. CASE i > offset[s] + Limit
    <3>1. i \in (offset[s] + Limit + 1)..Len(roster)
      BY <1>2, <2>3
    <3>2. offset[s] + Len(batch'[s]) < Len(roster)
      BY <1>1, <1>2, <1>3, <2>3
    <3>3. QED
      BY <1>1, <2>1, <3>1, <3>2 DEF Ahead
  <2>4. QED
    BY <1>2, <2>2, <2>3
<1>5. QED
  BY <1>1, <1>4, CoverTurn DEF TypeOK

LEMMA UpsertEffects ==
  ASSUME TypeOK, NEW s \in Syncs, Upsert(s)
  PROVE  /\ Head(batch[s]) = batch[s][1] /\ 1 \in 1..Len(batch[s])
         /\ Head(batch[s]).id \in Workers
         /\ batch'[s] = Tail(batch[s])
         /\ \A k \in 1..Len(batch'[s]) : k + 1 \in 1..Len(batch[s]) /\ batch'[s][k] = batch[s][k + 1]
         /\ \A k \in 1..Len(batch[s]) : k = 1 \/ (k - 1 \in 1..Len(batch'[s]) /\ batch'[s][k - 1] = batch[s][k])
         /\ seen'[s] = seen[s] \union {Head(batch[s]).id}
         /\ Goto(s, AfterPage(batch'[s], more'[s]))
         /\ pc[s] = "upsert"
         /\ UNCHANGED <<hcm, manager, offset, more, queue, cur, steady, shrunk>>
         /\ clean'[s] = clean[s]
<1>1. batch[s] \in Seq(Snapshots) /\ batch[s] # <<>>
  BY DEF TypeOK, LocalTypeOK, AtHand, Upsert
<1>2. /\ Head(batch[s]) \in Snapshots
      /\ Len(Tail(batch[s])) = Len(batch[s]) - 1
      /\ \A k \in 1..Len(Tail(batch[s])) : Tail(batch[s])[k] = batch[s][k + 1]
  BY <1>1, HeadTailProperties
<1>3. Len(batch[s]) \in Nat /\ Len(batch[s]) >= 1
  BY <1>1, LenProperties, EmptySeq
<1>4. Head(batch[s]) = batch[s][1]
  BY <1>1
<1>5. batch'[s] = Tail(batch[s]) /\ Len(batch'[s]) = Len(batch[s]) - 1
  BY <1>2 DEF Upsert, TypeOK, LocalTypeOK
<1>6. \A k \in 1..Len(batch'[s]) : k + 1 \in 1..Len(batch[s]) /\ batch'[s][k] = batch[s][k + 1]
  BY <1>2, <1>3, <1>5
<1>7. ASSUME NEW k \in 1..Len(batch[s]), k # 1
      PROVE  k - 1 \in 1..Len(batch'[s]) /\ batch'[s][k - 1] = batch[s][k]
  <2>1. k - 1 \in 1..Len(batch'[s]) /\ (k - 1) + 1 = k
    BY <1>3, <1>5, <1>7
  <2>2. QED
    BY <1>6, <2>1
<1>8. /\ seen'[s] = seen[s] \union {Head(batch[s]).id}
      /\ Goto(s, AfterPage(batch'[s], more'[s]))
      /\ pc[s] = "upsert"
      /\ UNCHANGED <<hcm, manager, offset, more, queue, cur, steady, shrunk>>
      /\ clean'[s] = clean[s]
  BY DEF Upsert, TypeOK, LocalTypeOK, Writes, loop
<1>9. Head(batch[s]).id \in Workers
  BY <1>2 DEF Snapshots
<1>10. QED
  BY <1>3, <1>4, <1>5, <1>6, <1>7, <1>8, <1>9

LEMMA CoverUpsert ==
  ASSUME TypeOK, NEW s \in Syncs, Afresh(s), Covered(s), Upsert(s)
  PROVE  Afresh(s)' /\ Covered(s)'
<1>1. ASSUME ~shrunk'[s], NEW w \in steady'[s], w \notin seen'[s]
      PROVE  OnPage(s, w)' \/ (more'[s] /\ Ahead(s, w)')
  <2>1. OnPage(s, w) \/ (more[s] /\ Ahead(s, w))
    BY <1>1, UpsertEffects DEF Covered
  <2>2. CASE OnPage(s, w)
    <3>1. PICK k \in 1..Len(batch[s]) : batch[s][k].id = w
      BY <2>2 DEF OnPage
    <3>2. k # 1
      BY <1>1, <3>1, UpsertEffects
    <3>3. QED
      BY <3>1, <3>2, UpsertEffects DEF OnPage
  <2>3. CASE more[s] /\ Ahead(s, w)
    BY <2>3, UpsertEffects DEF Ahead, hcm
  <2>4. QED
    BY <2>1, <2>2, <2>3
<1>2. QED
  BY <1>1, UpsertEffects, CoverTurn DEF TypeOK

(* The steps of a sync after the last page.                                *)
LEMMA AfterEffects ==
  ASSUME TypeOK, NEW s \in Syncs, Step(s), ~FetchPage(s), ~Upsert(s), ~End(s)
  PROVE  /\ UNCHANGED <<hcm, offset, batch, more, seen, steady, shrunk>>
         /\ pc[s] \notin {"idle", "page", "upsert"} /\ pc'[s] \notin {"idle", "page", "upsert"}
         /\ clean'[s] = clean[s]
<1> USE DEF TypeOK, LocalTypeOK, Goto, Onward, Writes, paging, loop, history
<1>1. CASE ListManagers(s)
  BY <1>1 DEF ListManagers
<1>2. CASE FindManager(s)
  BY <1>2 DEF FindManager
<1>3. CASE Assign(s)
  BY <1>3 DEF Assign
<1>4. CASE ListWorkers(s)
  BY <1>4 DEF ListWorkers
<1>5. CASE FetchTypes(s)
  BY <1>5 DEF FetchTypes
<1>6. CASE UpsertPolicy(s)
  BY <1>6 DEF UpsertPolicy
<1>7. CASE DeleteRules(s)
  BY <1>7 DEF DeleteRules
<1>8. CASE CreateRule(s)
  BY <1>8 DEF CreateRule
<1>9. CASE Retire(s)
  BY <1>9 DEF Retire
<1>10. QED
  BY <1>1, <1>2, <1>3, <1>4, <1>5, <1>6, <1>7, <1>8, <1>9 DEF Step

LEMMA BeginEffects ==
  ASSUME TypeOK, NEW s \in Syncs, Begin(s)
  PROVE  /\ UNCHANGED <<hcm, table, offset, batch, more, seen, queue, cur>>
         /\ pc[s] = "idle" /\ pc'[s] = "page"
         /\ steady'[s] = Listed /\ ~shrunk'[s]
  BY DEF Begin, TypeOK, LocalTypeOK, Goto, paging, loop

LEMMA ListedIndex ==
  ASSUME HcmTypeOK, NEW w \in Listed
  PROVE  \E i \in 1..Len(roster) : roster[i] = w
  BY RangeEquality DEF HcmTypeOK, Listed

LEMMA CoverOwn ==
  ASSUME TypeOK, NEW s \in Syncs, Afresh(s), Covered(s), Begin(s) \/ Step(s) \/ Fails(s)
  PROVE  Afresh(s)' /\ Covered(s)'
<1>1. CASE Begin(s)
  <2>1. \A w \in steady'[s] : Ahead(s, w)'
    <3>1. offset'[s] = 0 /\ roster' = roster /\ 0 + 1 = 1
      BY <1>1, BeginEffects DEF Afresh, hcm
    <3>2. QED
      BY <1>1, <3>1, BeginEffects, ListedIndex DEF TypeOK, Ahead
  <2>2. QED
    BY <1>1, <2>1, BeginEffects DEF Afresh, Covered
<1>2. CASE End(s) \/ Fails(s)
  BY <1>2 DEF End, Fails, Forget, Goto, TypeOK, LocalTypeOK, Afresh, Covered
<1>3. CASE Step(s) /\ ~FetchPage(s) /\ ~Upsert(s) /\ ~End(s)
  BY <1>3, AfterEffects DEF Afresh, Covered
<1>4. QED
  BY <1>1, <1>2, <1>3, CoverPage, CoverUpsert

LEMMA CoverInit == Init => CoverInv
  BY DEF Init, CoverInv, Afresh, Covered

LEMMA CoverStep ==
  ASSUME TypeOK, CoverInv, [Next]_vars
  PROVE  CoverInv'
<1>1. SUFFICES ASSUME NEW s \in Syncs PROVE Afresh(s)' /\ Covered(s)'
  BY DEF CoverInv
<1>2. Afresh(s) /\ Covered(s)
  BY DEF CoverInv
<1>3. ASSUME NEW t \in Syncs, Begin(t) \/ Step(t) \/ Fails(t) PROVE Afresh(s)' /\ Covered(s)'
  <2>1. CASE t = s
    BY <1>2, <1>3, <2>1, CoverOwn
  <2>2. CASE t # s
    BY <1>2, <1>3, <2>2, Elsewhere, CoverElsewhere
  <2>3. QED
    BY <2>1, <2>2
<1>4. ASSUME NEW w \in Workers, Hire(w) \/ Dismiss(w) \/ Update(w) PROVE Afresh(s)' /\ Covered(s)'
  BY <1>2, <1>4, CoverHcm
<1>5. CASE UNCHANGED vars
  BY <1>2, <1>5, CoverElsewhere DEF vars, hcm, paging, loop, history, Own
<1>6. QED
  BY <1>3, <1>4, <1>5 DEF Next

(* However HCM hires and updates while a sync pages through its workers,   *)
(* and however many syncs page at once, none overlooks a worker listed all *)
(* along, unless HCM dismissed somebody meanwhile.                         *)
THEOREM NobodyIsOverlooked == Spec => []NobodyOverlooked
<1>1. CoverInv => NobodyOverlooked
  BY DEF CoverInv, Covered, NobodyOverlooked, Paging
<1>2. Spec => []CoverInv
  BY TypeCorrect, CoverInit, CoverStep, PTL DEF Spec
<1>3. QED
  BY <1>1, <1>2, PTL

--------------------------------------------------------------------------------
LEMMA MirrorElsewhere ==
  ASSUME NEW s \in Syncs, Mirrored(s), UNCHANGED <<hcm, Own(s)>>,
         clean'[s] => clean[s] /\ UNCHANGED table
  PROVE  Mirrored(s)'
<1> SUFFICES ASSUME clean'[s] PROVE Mirrored(s)'
  BY DEF Mirrored
<1>1. UNCHANGED <<roster, raw, boss, known, status, bossId, manager>> /\ clean[s]
  BY DEF hcm, table
<1>2. UNCHANGED <<pc[s], batch[s], seen[s], queue[s], cur[s], steady[s], shrunk[s]>>
  BY DEF Own
<1>3. UNCHANGED <<Pending(s), Listed, Assigned>>
  BY <1>1, <1>2 DEF Pending, Listed, Assigned
<1>4. \A w : Snapshot(w)' = Snapshot(w) /\ Current(w)' = Current(w)
  BY <1>1 DEF Snapshot, Current
<1>5. Resolving(s)' = Resolving(s)
  BY <1>1, <1>3 DEF Resolving
<1>6. QED
  BY <1>1, <1>2, <1>3, <1>4, <1>5 DEF Mirrored

LEMMA MirrorBegin ==
  ASSUME TypeOK, NEW s \in Syncs, Afresh(s), Begin(s)
  PROVE  Mirrored(s)'
<1>1. /\ batch'[s] = <<>> /\ seen'[s] = {} /\ pc'[s] = "page"
      /\ steady'[s] = Listed /\ Listed' = Listed /\ ~shrunk'[s]
  BY BeginEffects DEF Afresh, Listed, hcm
<1>2. QED
  BY <1>1 DEF Mirrored, Resolved

LEMMA MirrorPage ==
  ASSUME TypeOK, NEW s \in Syncs, Mirrored(s), FetchPage(s)
  PROVE  Mirrored(s)'
<1> SUFFICES ASSUME clean'[s] PROVE Mirrored(s)'
  BY DEF Mirrored
<1>1. /\ clean[s] /\ UNCHANGED <<hcm, table, seen, steady, shrunk>>
      /\ batch'[s] = Page(offset[s])
      /\ pc'[s] \in {"page", "upsert", "managers"}
  BY DEF FetchPage, TypeOK, LocalTypeOK, history, Goto, AfterPage
<1>2. UNCHANGED Listed /\ \A w : Snapshot(w)' = Snapshot(w) /\ Current(w)' = Current(w)
  BY <1>1 DEF hcm, table, Listed, Snapshot, Current
<1>3. ASSUME NEW k \in 1..Len(batch'[s])
      PROVE  \E w \in Listed : batch'[s][k] = Snapshot(w)
  <2>1. offset[s] + k \in 1..Len(roster) /\ batch'[s][k] = Snapshot(roster[offset[s] + k])
    BY <1>1, PageHolds DEF TypeOK, LocalTypeOK
  <2>2. roster[offset[s] + k] \in Listed
    BY <2>1, RangeEquality DEF TypeOK, HcmTypeOK, Listed
  <2>3. QED
    BY <2>1, <2>2
<1>4. known' = known
  BY <1>1 DEF table
<1>5. QED
  BY <1>1, <1>2, <1>3, <1>4 DEF Mirrored, Resolved

LEMMA MirrorUpsert ==
  ASSUME TypeOK, NEW s \in Syncs, Mirrored(s), Upsert(s)
  PROVE  Mirrored(s)'
<1> SUFFICES ASSUME clean'[s] PROVE Mirrored(s)'
  BY DEF Mirrored
<1>1. clean[s] /\ UNCHANGED <<hcm, steady, shrunk>>
  BY UpsertEffects
<1>2. pc'[s] \in {"page", "upsert", "managers"}
  BY UpsertEffects DEF TypeOK, LocalTypeOK, Goto, AfterPage
<1>3. UNCHANGED Listed /\ \A w : Snapshot(w)' = Snapshot(w)
  BY <1>1 DEF hcm, Listed, Snapshot
<1>4. PICK u \in Listed : Head(batch[s]) = Snapshot(u)
  BY <1>1, UpsertEffects DEF Mirrored
<1>5. /\ seen'[s] = seen[s] \union {u} /\ known' = known \union {u} /\ u \in Workers
      /\ status' = [status EXCEPT ![u] = mapEmploymentStatus(raw[u])]
      /\ bossId' = IF boss[u] = Nobody THEN bossId ELSE [bossId EXCEPT ![u] = boss[u]]
  <2>1. /\ Head(batch[s]).id = u
        /\ Head(batch[s]).status = mapEmploymentStatus(raw[u])
        /\ Head(batch[s]).boss = boss[u]
    BY <1>4 DEF Snapshot
  <2>2. u \in Workers /\ seen'[s] = seen[s] \union {u}
    BY <2>1, UpsertEffects
  <2>3. QED
    BY <2>1, <2>2 DEF Upsert
<1>6. Current(u)'
  BY <1>1, <1>5 DEF Current, hcm, TypeOK, TableTypeOK
<1>7. ASSUME NEW w \in seen[s], w # u PROVE Current(w)'
  <2>1. Current(w) /\ w \in Workers
    BY <1>1 DEF Mirrored, TypeOK, LocalTypeOK
  <2>2. status'[w] = status[w] /\ bossId'[w] = bossId[w]
    BY <1>5, <1>7, <2>1 DEF TypeOK, TableTypeOK
  <2>3. QED
    BY <1>1, <2>1, <2>2 DEF Current, hcm
<1>8. \A k \in 1..Len(batch'[s]) : \E w \in Listed : batch'[s][k] = Snapshot(w)
  BY <1>1, UpsertEffects DEF Mirrored
<1>9. seen'[s] \subseteq Listed \intersect known'
  BY <1>1, <1>5 DEF Mirrored
<1>10. QED
  BY <1>1, <1>2, <1>3, <1>5, <1>6, <1>7, <1>8, <1>9 DEF Mirrored, Resolved

(* When the last page is through, an undisturbed sync has seen everybody.  *)
LEMMA MirrorSeen ==
  ASSUME NEW s \in Syncs, Covered(s), Mirrored(s), clean[s], pc[s] \notin {"idle", "page", "upsert"}
  PROVE  /\ seen[s] = Listed /\ Listed \subseteq known
         /\ \A w \in Listed : Current(w)
  BY DEF Covered, Mirrored

(* A step after the last page that leaves the table leaves what the sync   *)
(* has brought in.                                                         *)
LEMMA MirrorKept ==
  ASSUME TypeOK, NEW s \in Syncs, Mirrored(s), clean'[s], clean[s],
         UNCHANGED <<hcm, table, batch, seen, steady, shrunk>>,
         pc'[s] \notin {"idle", "done"},
         pc'[s] \in {"find", "assign"} => Resolving(s)',
         pc'[s] \in Resolved => Assigned
  PROVE  Mirrored(s)'
<1>1. UNCHANGED <<Listed, Assigned, known>> /\ \A w : Snapshot(w)' = Snapshot(w) /\ Current(w)' = Current(w)
  BY DEF hcm, table, Listed, Assigned, Snapshot, Current
<1>2. QED
  BY <1>1 DEF Mirrored

LEMMA MirrorListManagers ==
  ASSUME TypeOK, NEW s \in Syncs, Covered(s), Mirrored(s), ListManagers(s)
  PROVE  Mirrored(s)'
<1> SUFFICES ASSUME clean'[s] PROVE Mirrored(s)'
  BY DEF Mirrored
<1>1. clean[s] /\ UNCHANGED <<hcm, table, batch, seen, steady, shrunk>> /\ pc[s] = "managers"
  BY DEF ListManagers, paging, history
<1>2. /\ queue'[s] = {Row(w) : w \in {v \in known : bossId[v] # Nobody}}
      /\ pc'[s] = IF queue'[s] = {} THEN "workers" ELSE "find"
  BY DEF ListManagers, Onward, Goto, TypeOK, LocalTypeOK
<1>3. seen[s] = Listed /\ Listed \subseteq known /\ \A w \in Listed : Current(w)
  BY <1>1, MirrorSeen
<1>4. ASSUME NEW w \in Listed, boss[w] \in known
      PROVE  /\ Row(w) \in queue'[s] /\ Row(w).id = w
             /\ Row(w).manager = manager[w]
  <2>1. boss[w] # Nobody
    BY <1>4, WorkersAssumption DEF TypeOK, TableTypeOK
  <2>2. bossId[w] = boss[w]
    BY <1>3, <2>1 DEF Current
  <2>3. QED
    BY <1>2, <1>3, <2>1, <2>2 DEF Row
<1>5. CASE queue'[s] = {}
  <2>1. Assigned
    BY <1>4, <1>5 DEF Assigned
  <2>2. QED
    BY <1>1, <1>2, <1>5, <2>1, MirrorKept
<1>6. CASE queue'[s] # {}
  <2>1. Pending(s)' = queue'[s]
    BY <1>2, <1>6 DEF Pending
  <2>2. \A row \in queue'[s] : row.boss = bossId[row.id]
    BY <1>2 DEF Row
  <2>3. Resolving(s)'
    BY <1>1, <1>4, <2>1, <2>2 DEF Resolving, hcm, table, Listed
  <2>4. QED
    BY <1>1, <1>2, <1>6, <2>3, MirrorKept DEF Resolved
<1>7. QED
  BY <1>5, <1>6

LEMMA MirrorFind ==
  ASSUME TypeOK, NEW s \in Syncs, Covered(s), Mirrored(s), FindManager(s)
  PROVE  Mirrored(s)'
<1> SUFFICES ASSUME clean'[s] PROVE Mirrored(s)'
  BY DEF Mirrored
<1>1. clean[s] /\ UNCHANGED <<hcm, table, batch, seen, steady, shrunk>> /\ pc[s] = "find"
  BY DEF FindManager, paging, history
<1>2. PICK row \in queue[s] :
        /\ queue' = [queue EXCEPT ![s] = @ \ {row}]
        /\ IF row.boss \in known /\ row.manager # row.boss
           THEN cur' = [cur EXCEPT ![s] = row] /\ Goto(s, "assign")
           ELSE UNCHANGED cur /\ Onward(s, queue'[s], "find", "workers")
  BY DEF FindManager
<1>3. queue'[s] = queue[s] \ {row} /\ row \in Rows
  BY <1>2 DEF TypeOK, LocalTypeOK
<1>4. Resolving(s) /\ Pending(s) = queue[s]
  BY <1>1 DEF Mirrored, Pending
<1>5. UNCHANGED <<Listed, boss, known, manager, bossId>>
  BY <1>1 DEF hcm, table, Listed
<1>6. seen[s] = Listed /\ \A w \in Listed : Current(w)
  BY <1>1, MirrorSeen
<1>7. CASE row.boss \in known /\ row.manager # row.boss
  <2>1. pc'[s] = "assign" /\ cur'[s] = row
    BY <1>2, <1>7 DEF Goto, TypeOK, LocalTypeOK
  <2>2. Pending(s)' = queue[s]
    BY <1>2, <1>3, <2>1 DEF Pending
  <2>3. Resolving(s)'
    BY <1>4, <1>5, <2>2 DEF Resolving
  <2>4. QED
    BY <1>1, <2>1, <2>3, MirrorKept DEF Resolved
<1>8. CASE ~(row.boss \in known /\ row.manager # row.boss)
  <2>1. pc'[s] = IF queue'[s] = {} THEN "workers" ELSE "find"
    BY <1>2, <1>8 DEF Onward, Goto, TypeOK, LocalTypeOK
  <2>2. ASSUME NEW w \in Listed, boss[w] \in known
        PROVE  manager[w] = boss[w] \/ \E other \in queue'[s] : other.id = w /\ other.manager # boss[w]
    <3>1. SUFFICES ASSUME manager[w] # boss[w]
                   PROVE  \E other \in queue'[s] : other.id = w /\ other.manager # boss[w]
      OBVIOUS
    <3>2. PICK other \in queue[s] : other.id = w /\ other.manager # boss[w]
      BY <1>4, <2>2, <3>1 DEF Resolving
    <3>3. other.boss = bossId[w]
      BY <1>4, <3>2 DEF Resolving
    <3>4. bossId[w] = boss[w]
      BY <1>6, <2>2, WorkersAssumption DEF Current, TypeOK, TableTypeOK
    <3>5. other # row
      BY <1>8, <2>2, <3>2, <3>3, <3>4
    <3>6. QED
      BY <1>3, <3>2, <3>5
  <2>3. CASE queue'[s] = {}
    <3>1. Assigned
      BY <2>2, <2>3 DEF Assigned
    <3>2. QED
      BY <1>1, <2>1, <2>3, <3>1, MirrorKept
  <2>4. CASE queue'[s] # {}
    <3>1. Pending(s)' = queue'[s] /\ queue'[s] \subseteq Pending(s)
      BY <1>3, <1>4, <2>1, <2>4 DEF Pending
    <3>2. Resolving(s)'
      BY <1>4, <1>5, <2>2, <3>1 DEF Resolving
    <3>3. QED
      BY <1>1, <2>1, <2>4, <3>2, MirrorKept DEF Resolved
  <2>5. QED
    BY <2>3, <2>4
<1>9. QED
  BY <1>7, <1>8

LEMMA MirrorAssign ==
  ASSUME TypeOK, NEW s \in Syncs, Covered(s), Mirrored(s), Assign(s)
  PROVE  Mirrored(s)'
<1> SUFFICES ASSUME clean'[s] PROVE Mirrored(s)'
  BY DEF Mirrored
<1>1. /\ clean[s] /\ UNCHANGED <<hcm, batch, seen, queue, steady, shrunk, known, status, bossId>>
      /\ pc[s] = "assign"
      /\ manager' = [manager EXCEPT ![cur[s].id] = cur[s].boss]
      /\ pc'[s] = IF queue[s] = {} THEN "workers" ELSE "find"
  BY DEF Assign, Writes, paging, Onward, Goto, TypeOK, LocalTypeOK
<1>2. Resolving(s) /\ Pending(s) = queue[s] \union {cur[s]} /\ Pending(s)' = queue[s]
  BY <1>1 DEF Mirrored, Pending
<1>3. seen[s] = Listed /\ \A w \in Listed : Current(w)
  BY <1>1, MirrorSeen
<1>4. cur[s] \in Rows /\ cur[s].boss = bossId[cur[s].id]
  BY <1>1, <1>2 DEF Resolving, TypeOK, AtHand
<1>5. ASSUME NEW w \in Listed, boss[w] \in known
      PROVE  manager'[w] = boss[w] \/ \E row \in queue[s] : row.id = w /\ row.manager # boss[w]
  <2>1. w \in Workers /\ bossId[w] = boss[w]
    BY <1>3, <1>5, WorkersAssumption DEF Current, TypeOK, TableTypeOK, LocalTypeOK
  <2>2. CASE w = cur[s].id
    BY <1>1, <1>4, <2>1, <2>2 DEF TypeOK, TableTypeOK
  <2>3. CASE w # cur[s].id
    <3>1. manager'[w] = manager[w]
      BY <1>1, <2>1, <2>3 DEF TypeOK, TableTypeOK
    <3>2. QED
      BY <1>2, <1>5, <2>3, <3>1 DEF Resolving
  <2>4. QED
    BY <2>2, <2>3
<1>6. UNCHANGED Listed /\ UNCHANGED boss /\ \A w : Snapshot(w)' = Snapshot(w) /\ Current(w)' = Current(w)
  BY <1>1 DEF hcm, Listed, Snapshot, Current
<1>7. pc'[s] = "find" => Resolving(s)'
  BY <1>1, <1>2, <1>5, <1>6 DEF Resolving
<1>8. pc'[s] = "workers" => Assigned'
  BY <1>1, <1>5, <1>6 DEF Assigned
<1>9. QED
  BY <1>1, <1>6, <1>7, <1>8 DEF Mirrored, Resolved

LEMMA MirrorLater ==
  ASSUME TypeOK, NEW s \in Syncs, Mirrored(s),
         \/ ListWorkers(s) \/ FetchTypes(s) \/ UpsertPolicy(s) \/ DeleteRules(s) \/ CreateRule(s)
  PROVE  Mirrored(s)'
<1> SUFFICES ASSUME clean'[s] PROVE Mirrored(s)'
  BY DEF Mirrored
<1>1. /\ clean[s] /\ UNCHANGED <<hcm, table, batch, seen, steady, shrunk>>
      /\ pc[s] \in {"workers", "types", "policy", "delete", "create"}
      /\ pc'[s] \in {"types", "policy", "delete", "create", "retire"}
  BY DEF ListWorkers, FetchTypes, UpsertPolicy, DeleteRules, CreateRule, Onward, Goto,
         paging, history, TypeOK, LocalTypeOK
<1>2. Assigned
  BY <1>1 DEF Mirrored, Resolved
<1>3. QED
  BY <1>1, <1>2, MirrorKept

LEMMA MirrorRetire ==
  ASSUME TypeOK, NEW s \in Syncs, Covered(s), Mirrored(s), Retire(s)
  PROVE  Mirrored(s)'
<1> SUFFICES ASSUME clean'[s] PROVE Mirrored(s)'
  BY DEF Mirrored
<1>1. /\ clean[s] /\ UNCHANGED <<hcm, batch, seen, steady, shrunk, known, bossId, manager>>
      /\ pc[s] = "retire" /\ pc'[s] = "done"
  BY DEF Retire, Writes, paging, Goto, TypeOK, LocalTypeOK
<1>2. /\ seen[s] = Listed /\ Listed \subseteq known /\ known \subseteq Workers
      /\ \A w \in Listed : Current(w)
  BY <1>1, MirrorSeen DEF TypeOK, TableTypeOK
<1>3. \A w \in known : status'[w] = IF w \notin Listed /\ status[w] = "ACTIVE" THEN "INACTIVE" ELSE status[w]
  BY <1>2 DEF Retire
<1>4. UNCHANGED <<Listed, Assigned, raw>> /\ \A w : Snapshot(w)' = Snapshot(w)
  BY <1>1 DEF hcm, Listed, Assigned, Snapshot
<1>5. \A w \in Listed : Current(w)'
  BY <1>1, <1>2, <1>3 DEF Current, hcm
<1>6. ASSUME NEW w \in known
      PROVE  status'[w] = "ACTIVE" <=> w \in Listed /\ raw[w] = {}
  <2>1. CASE w \in Listed
    BY <1>2, <1>3, <2>1, StatusOf DEF Current, TypeOK, HcmTypeOK
  <2>2. CASE w \notin Listed
    BY <1>3, <2>2
  <2>3. QED
    BY <2>1, <2>2
<1>7. Assigned
  BY <1>1 DEF Mirrored, Resolved
<1>8. QED
  BY <1>1, <1>2, <1>4, <1>5, <1>6, <1>7 DEF Mirrored, Resolved

LEMMA MirrorInit == Init => MirrorInv
  BY DEF Init, MirrorInv, Mirrored

LEMMA MirrorStep ==
  ASSUME TypeOK, CoverInv, MirrorInv, [Next]_vars
  PROVE  MirrorInv'
<1>1. SUFFICES ASSUME NEW s \in Syncs PROVE Mirrored(s)'
  BY DEF MirrorInv
<1>2. Afresh(s) /\ Covered(s) /\ Mirrored(s)
  BY DEF CoverInv, MirrorInv
<1>3. ASSUME NEW t \in Syncs, Begin(t) \/ Step(t) \/ Fails(t) PROVE Mirrored(s)'
  <2>1. CASE t # s
    BY <1>2, <1>3, <2>1, Elsewhere, MirrorElsewhere
  <2>2. CASE t = s /\ (End(s) \/ Fails(s))
    BY <2>2 DEF End, Fails, Forget, Mirrored, TypeOK, LocalTypeOK
  <2>3. CASE t = s /\ ~End(s) /\ ~Fails(s)
    BY <1>2, <1>3, <2>3, MirrorBegin, MirrorPage, MirrorUpsert, MirrorListManagers, MirrorFind,
       MirrorAssign, MirrorLater, MirrorRetire DEF Step
  <2>4. QED
    BY <2>1, <2>2, <2>3
<1>4. ASSUME NEW w \in Workers, Hire(w) \/ Dismiss(w) \/ Update(w) PROVE Mirrored(s)'
  BY <1>4, HcmEffects DEF Mirrored
<1>5. CASE UNCHANGED vars
  BY <1>2, <1>5, MirrorElsewhere DEF vars, hcm, table, paging, loop, history, Own
<1>6. QED
  BY <1>3, <1>4, <1>5 DEF Next

(* A sync nothing has interfered with ends with the tables as HCM has its  *)
(* workers: who is active, and who manages whom, whatever earlier syncs    *)
(* that failed half-way or overlapped have left there.                     *)
THEOREM RosterMirrored == Spec => []MirrorsRoster
<1>1. TypeOK /\ CoverInv /\ MirrorInv => MirrorsRoster
  <2> SUFFICES ASSUME TypeOK, CoverInv, MirrorInv, NEW s \in Syncs, pc[s] = "done", clean[s]
               PROVE  /\ Listed \subseteq known
                      /\ \A w \in known : status[w] = "ACTIVE" <=> w \in Listed /\ raw[w] = {}
                      /\ \A w \in Listed : boss[w] \in known => manager[w] = boss[w]
    BY DEF MirrorsRoster
  <2>1. Covered(s) /\ Mirrored(s)
    BY DEF CoverInv, MirrorInv
  <2>2. QED
    BY <2>1 DEF Covered, Mirrored, Assigned, Resolved
<1>2. Spec => [](TypeOK /\ CoverInv)
  BY TypeCorrect, CoverInit, CoverStep, PTL DEF Spec
<1>3. Spec => []MirrorInv
  BY <1>2, MirrorInit, MirrorStep, PTL DEF Spec
<1>4. QED
  BY <1>1, <1>2, <1>3, PTL

--------------------------------------------------------------------------------
(* The syncs that have still to create a rule of a type.                   *)
Owing(t) == {s \in Syncs : pc[s] = "create" /\ \E i \in 1..Len(left[s]) : left[s][i] = t}

(* Each sync under way adds at most one row of a type to those there are.  *)
PileInv ==
  /\ \A s \in Syncs : pc[s] = "create" => left[s] \in {Rules, Tail(Rules)}
  /\ \A t \in RuleTypes : rules[t] + Cardinality(Owing(t)) <= Cardinality(Syncs)

LEMMA OwingFinite ==
  ASSUME IsFiniteSet(Syncs), NEW t
  PROVE  IsFiniteSet(Owing(t)) /\ Cardinality(Owing(t)) \in Nat
         /\ Cardinality(Owing(t)) <= Cardinality(Syncs)
BY FS_Subset, FS_CardinalityType DEF Owing

LEMMA OwingShrinks ==
  ASSUME IsFiniteSet(Syncs), NEW t, Owing(t)' \subseteq Owing(t)
  PROVE  Cardinality(Owing(t)') <= Cardinality(Owing(t)) /\ Cardinality(Owing(t)') \in Nat
BY OwingFinite, FS_Subset, FS_CardinalityType

(* Only the deletion of the rules puts a sync before their creation.       *)
LEMMA RulesQuiet ==
  ASSUME TypeOK, [Next]_vars, \A s \in Syncs : ~DeleteRules(s) /\ ~CreateRule(s)
  PROVE  /\ rules' = rules
         /\ \A s \in Syncs : pc'[s] = "create" => pc[s] = "create" /\ left'[s] = left[s]
<1> USE DEF TypeOK, LocalTypeOK, Goto, Onward, terms, loop
<1>1. ASSUME NEW s \in Syncs, Step(s)
      PROVE  /\ rules' = rules
             /\ \A t \in Syncs : pc'[t] = "create" => pc[t] = "create" /\ left'[t] = left[t]
  <2>1. CASE FetchPage(s)
    BY <2>1 DEF FetchPage, AfterPage
  <2>2. CASE Upsert(s)
    BY <2>2 DEF Upsert, AfterPage
  <2>3. CASE ListManagers(s)
    BY <2>3 DEF ListManagers
  <2>4. CASE FindManager(s)
    BY <2>4 DEF FindManager
  <2>5. CASE Assign(s)
    BY <2>5 DEF Assign
  <2>6. CASE ListWorkers(s)
    BY <2>6 DEF ListWorkers
  <2>7. CASE FetchTypes(s)
    BY <2>7 DEF FetchTypes
  <2>8. CASE UpsertPolicy(s)
    BY <2>8 DEF UpsertPolicy
  <2>9. CASE Retire(s)
    BY <2>9 DEF Retire
  <2>10. CASE End(s)
    BY <2>10 DEF End, Forget
  <2>11. QED
    BY <1>1, <2>1, <2>2, <2>3, <2>4, <2>5, <2>6, <2>7, <2>8, <2>9, <2>10 DEF Step
<1>2. ASSUME NEW s \in Syncs, Begin(s) \/ Fails(s)
      PROVE  /\ rules' = rules
             /\ \A t \in Syncs : pc'[t] = "create" => pc[t] = "create" /\ left'[t] = left[t]
  BY <1>2 DEF Begin, Fails, Forget
<1>3. ASSUME NEW w \in Workers, Hire(w) \/ Dismiss(w) \/ Update(w)
      PROVE  UNCHANGED <<rules, pc, left>>
  BY <1>3 DEF Hire, Dismiss, Update, Edit
<1>4. QED
  BY <1>1, <1>2, <1>3 DEF Next, vars

LEMMA PileInit == ASSUME IsFiniteSet(Syncs), Init PROVE PileInv
<1>1. \A t \in RuleTypes : Owing(t) = {}
  BY DEF Init, Owing
<1>2. Cardinality({}) = 0 /\ Cardinality(Syncs) \in Nat
  BY FS_EmptySet, FS_CardinalityType
<1>3. \A t \in RuleTypes : rules[t] + Cardinality(Owing(t)) <= Cardinality(Syncs)
  <2>1. \A t \in RuleTypes : rules[t] = 0 /\ Cardinality(Owing(t)) = 0
    BY <1>1, <1>2 DEF Init
  <2>2. QED
    BY <1>2, <2>1
<1>4. QED
  BY <1>3 DEF Init, PileInv

LEMMA PileStep ==
  ASSUME IsFiniteSet(Syncs), TypeOK, PileInv, [Next]_vars
  PROVE  PileInv'
<1> DEFINE N == Cardinality(Syncs)
<1>0. N \in Nat /\ \A t \in RuleTypes : rules[t] \in Nat /\ Cardinality(Owing(t)) \in Nat
  BY FS_CardinalityType, OwingFinite DEF TypeOK, TableTypeOK
<1>1. ASSUME NEW s \in Syncs, DeleteRules(s) PROVE PileInv'
  <2>1. \A t \in Syncs : pc'[t] = "create" => left'[t] \in {Rules, Tail(Rules)}
    BY <1>1 DEF DeleteRules, Goto, PileInv, TypeOK, LocalTypeOK
  <2>2. ASSUME NEW t \in RuleTypes PROVE rules'[t] = 0 /\ Owing(t)' \subseteq Syncs
    BY <1>1 DEF DeleteRules, Owing
  <2>3. ASSUME NEW t \in RuleTypes PROVE rules'[t] + Cardinality(Owing(t)') <= N
    <3>1. Cardinality(Owing(t)') \in Nat /\ Cardinality(Owing(t)') <= N
      BY <2>2, FS_Subset, FS_CardinalityType
    <3>2. QED
      BY <1>0, <2>2, <3>1
  <2>4. QED
    BY <2>1, <2>3 DEF PileInv
<1>2. ASSUME NEW s \in Syncs, CreateRule(s) PROVE PileInv'
  <2>0. PICK h : h = Head(left[s])
    OBVIOUS
  <2>1. pc[s] = "create" /\ left[s] \in {Rules, Tail(Rules)} /\ left[s] # <<>>
    BY <1>2 DEF CreateRule, PileInv, TypeOK, AtHand
  <2>2. /\ rules' = [rules EXCEPT ![h] = @ + 1]
        /\ left' = [left EXCEPT ![s] = Tail(@)]
        /\ \A t \in Syncs \ {s} : pc'[t] = pc[t]
        /\ pc'[s] = "create" => Len(left[s]) > 1
    BY <1>2, <2>0 DEF CreateRule, Goto, Onward, TypeOK, LocalTypeOK
  <2>3. \/ left[s] = <<"negative_balance", "eligibility">>
        \/ left[s] = <<"eligibility">>
    BY <2>1 DEF Rules
  <2>4. /\ h \in RuleTypes /\ left[s][1] = h /\ 1 \in 1..Len(left[s])
        /\ \A i \in 1..Len(left'[s]) : left'[s][i] # h
        /\ \A i \in 1..Len(left'[s]) : \E j \in 1..Len(left[s]) : left[s][j] = left'[s][i]
        /\ pc'[s] = "create" => left'[s] = Tail(Rules)
    <3>1. left'[s] = Tail(left[s])
      BY <2>2 DEF TypeOK, LocalTypeOK
    <3>2. CASE left[s] = <<"negative_balance", "eligibility">>
      <4>1. h = "negative_balance" /\ Len(left[s]) = 2 /\ left'[s] = <<"eligibility">>
        BY <2>0, <3>1, <3>2
      <4>2. Len(left'[s]) = 1 /\ left'[s][1] = "eligibility" /\ left[s][2] = "eligibility"
            /\ left[s][1] = h
        BY <3>2, <4>1
      <4>3. \A i \in 1..Len(left'[s]) : i = 1
        BY <4>2
      <4>4. QED
        BY <3>1, <3>2, <4>1, <4>2, <4>3 DEF RuleTypes, Rules
    <3>3. CASE left[s] = <<"eligibility">>
      <4>1. h = "eligibility" /\ Len(left[s]) = 1 /\ left'[s] = <<>> /\ Len(left'[s]) = 0
            /\ left[s][1] = h
        BY <2>0, <3>1, <3>3
      <4>2. 1..0 = {} /\ pc'[s] # "create"
        BY <2>2, <4>1
      <4>3. QED
        BY <4>1, <4>2 DEF RuleTypes
    <3>4. QED
      BY <2>3, <3>2, <3>3
  <2>5. \A t \in Syncs \ {s} : pc'[t] = pc[t] /\ left'[t] = left[t]
    BY <2>2 DEF TypeOK, LocalTypeOK
  <2>6. ASSUME NEW t \in Syncs, pc'[t] = "create" PROVE left'[t] \in {Rules, Tail(Rules)}
    BY <2>4, <2>6, <2>5 DEF PileInv
  <2>7. ASSUME NEW t \in RuleTypes, t # h PROVE rules'[t] + Cardinality(Owing(t)') <= N
    <3>1. Owing(t)' \subseteq Owing(t)
      <4>1. SUFFICES ASSUME NEW c \in Syncs, c \in Owing(t)' PROVE c \in Owing(t)
        BY DEF Owing
      <4>2. CASE c = s
        <5>1. PICK i \in 1..Len(left'[s]) : left'[s][i] = t
          BY <4>1, <4>2 DEF Owing
        <5>2. \E j \in 1..Len(left[s]) : left[s][j] = t
          BY <2>4, <5>1
        <5>3. QED
          BY <2>1, <4>2, <5>2 DEF Owing
      <4>3. CASE c # s
        BY <2>5, <4>1, <4>3 DEF Owing
      <4>4. QED
        BY <4>2, <4>3
    <3>2. rules'[t] = rules[t]
      BY <2>2, <2>7 DEF TypeOK, TableTypeOK
    <3>3. QED
      BY <1>0, <3>1, <3>2, OwingShrinks DEF PileInv
  <2>8. rules'[h] + Cardinality(Owing(h)') <= N
    <3>1. s \in Owing(h) /\ Owing(h)' \subseteq Owing(h) \ {s}
      BY <2>1, <2>4, <2>5 DEF Owing
    <3>2. rules'[h] = rules[h] + 1
      BY <2>2, <2>4 DEF TypeOK, TableTypeOK
    <3>3. /\ IsFiniteSet(Owing(h) \ {s})
          /\ Cardinality(Owing(h) \ {s}) = Cardinality(Owing(h)) - 1
      BY <3>1, OwingFinite, FS_RemoveElement
    <3>4. Cardinality(Owing(h)') <= Cardinality(Owing(h)) - 1 /\ Cardinality(Owing(h)') \in Nat
      BY <3>1, <3>3, FS_Subset, FS_CardinalityType
    <3>5. QED
      BY <1>0, <2>4, <3>2, <3>4 DEF PileInv
  <2>9. \A t \in RuleTypes : rules'[t] + Cardinality(Owing(t)') <= N
    BY <2>7, <2>8
  <2>10. QED
    BY <2>6, <2>9 DEF PileInv
<1>3. CASE \A s \in Syncs : ~DeleteRules(s) /\ ~CreateRule(s)
  <2>1. /\ rules' = rules
        /\ \A s \in Syncs : pc'[s] = "create" => pc[s] = "create" /\ left'[s] = left[s]
    BY <1>3, RulesQuiet
  <2>2. ASSUME NEW t \in RuleTypes PROVE rules'[t] + Cardinality(Owing(t)') <= N
    <3>1. Owing(t)' \subseteq Owing(t)
      BY <2>1 DEF Owing
    <3>2. QED
      BY <1>0, <2>1, <3>1, OwingShrinks DEF PileInv
  <2>3. QED
    BY <2>1, <2>2 DEF PileInv
<1>4. QED
  BY <1>1, <1>2, <1>3

(* Among any number of syncs that delete and create the rules of a policy  *)
(* at once, and fail in between, no rule gets more rows than there are     *)
(* syncs: each deletion clears away what the others have left.             *)
THEOREM RulesStayBounded ==
  ASSUME IsFiniteSet(Syncs)
  PROVE  Spec => []RulesDoNotPileUp
<1>1. ASSUME TypeOK, PileInv PROVE RulesDoNotPileUp
  <2>1. ASSUME NEW t \in RuleTypes PROVE rules[t] <= Cardinality(Syncs)
    <3>1. rules[t] \in Nat /\ Cardinality(Owing(t)) \in Nat /\ Cardinality(Syncs) \in Nat
      BY <1>1, OwingFinite, FS_CardinalityType DEF TypeOK, TableTypeOK
    <3>2. QED
      BY <1>1, <3>1 DEF PileInv
  <2>2. QED
    BY <2>1 DEF RulesDoNotPileUp
<1>2. Spec => []PileInv
  BY PileInit, PileStep, TypeCorrect, PTL DEF Spec
<1>3. QED
  BY <1>1, <1>2, TypeCorrect, PTL
================================================================================
