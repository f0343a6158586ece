---------------------------- MODULE IdempotencyProofs ----------------------------
(* Proofs about Idempotency, for any callers, keys, bodies and bounds. *)
EXTENDS Idempotency, TLAPS

LEMMA IndInit == Init => IndInv
  BY BoundsAssumption
  DEF Init, IndInv, TypeOK, ReplayIsFaithful, StoreOK, RequestOK, Fresh, Stale

LEMMA TypeNext == IndInv /\ [Next]_vars => TypeOK'
<1> SUFFICES ASSUME IndInv, [Next]_vars PROVE TypeOK'
  OBVIOUS
<1> USE BoundsAssumption DEF IndInv, TypeOK, Respond, Goto
<1>1. ASSUME NEW c \in Callers, Arrive(c) PROVE TypeOK'
  BY <1>1 DEF Arrive
<1>2. ASSUME NEW c \in Callers, Miss(c) PROVE TypeOK'
  BY <1>2 DEF Miss
<1>3. ASSUME NEW c \in Callers, FindExpired(c) PROVE TypeOK'
  BY <1>3 DEF FindExpired, Expired, Record
<1>4. ASSUME NEW c \in Callers, Replay(c) PROVE TypeOK'
  BY <1>4 DEF Replay, Live, Record
<1>5. ASSUME NEW c \in Callers, Conflict(c) PROVE TypeOK'
  BY <1>5 DEF Conflict
<1>6. ASSUME NEW c \in Callers, Delete(c) PROVE TypeOK'
  <2>1. store' \in [Keys -> Record \union {NoRecord}]
    BY <1>6 DEF Delete
  <2>2. CASE Holds(key[c], seen[c])
    BY <1>6, <2>1, <2>2 DEF Delete
  <2>3. CASE ~Holds(key[c], seen[c])
    <3>1. Respond(c, 0) /\ UNCHANGED <<runs, key, body, faults>> /\ 0 \in 0..MaxRuns
      BY <1>6, <2>3 DEF Delete
    <3>2. QED
      BY <2>1, <3>1
  <2>4. QED
    BY <2>2, <2>3
<1>7. ASSUME NEW c \in Callers, Handle(c) PROVE TypeOK'
  <2>1. /\ Len(runs) + 1 \in 0..MaxRuns
        /\ Len(runs') <= MaxRuns
        /\ runs' \in Seq([key : Keys \union {NoKey}, body : Bodies])
    BY <1>7 DEF Handle
  <2>2. CASE key[c] = NoKey
    <3>1. Respond(c, Len(runs) + 1) /\ UNCHANGED <<store, key, body, faults>> /\ 0 \in 0..MaxRuns
      BY <1>7, <2>2 DEF Handle
    <3>2. QED
      BY <2>1, <3>1
  <2>3. CASE key[c] # NoKey
    BY <1>7, <2>1, <2>3 DEF Handle
  <2>4. QED
    BY <2>2, <2>3
<1>8. ASSUME NEW c \in Callers, HandlerThrows(c) PROVE TypeOK'
  BY <1>8 DEF HandlerThrows
<1>9. ASSUME NEW c \in Callers, Save(c) PROVE TypeOK'
  <2>1. CASE Respond(c, 0) /\ UNCHANGED store
    BY <1>9, <2>1 DEF Save
  <2>2. CASE ~(Respond(c, 0) /\ UNCHANGED store)
    <3>1. mine[c] \in 1..MaxRuns /\ mine[c] \in 0..MaxRuns
      <4>1. mine[c] \in DOMAIN runs
        BY <1>9 DEF Save, RequestOK, Ran
      <4>2. DOMAIN runs = 1..Len(runs) /\ Len(runs) \in Nat /\ Len(runs) <= MaxRuns
        OBVIOUS
      <4>3. QED
        BY <4>1, <4>2
    <3>2. [body |-> body[c], run |-> mine[c], life |-> TTL] \in Record
      BY <3>1 DEF Record
    <3>3. /\ store' = [store EXCEPT ![key[c]] = [body |-> body[c], run |-> mine[c], life |-> TTL]]
          /\ Respond(c, mine[c])
          /\ UNCHANGED <<runs, key, body, faults>>
      BY <1>9, <2>2 DEF Save
    <3>4. store' \in [Keys -> Record \union {NoRecord}]
      BY <3>2, <3>3
    <3>5. QED
      BY <3>1, <3>3, <3>4
  <2>3. QED
    BY <2>1, <2>2
<1>10. ASSUME NEW c \in Callers, QueryFails(c) PROVE TypeOK'
  BY <1>10 DEF QueryFails
<1>11. CASE Crash
  BY <1>11 DEF Crash
<1>12. CASE Tick
  <2>1. ASSUME NEW k \in Keys, Live(k)
        PROVE  [store[k] EXCEPT !.life = @ - 1] \in Record
    <3>1. store[k] \in Record /\ store[k].life \in 0..TTL /\ store[k].life > 0
      BY <2>1 DEF Live, Record
    <3>2. store[k].life - 1 \in 0..TTL
      BY <3>1
    <3>3. QED
      BY <3>1, <3>2 DEF Record
  <2>2. QED
    BY <1>12, <2>1 DEF Tick
<1>13. CASE UNCHANGED vars
  BY <1>13 DEF vars
<1>14. QED
  BY <1>1, <1>2, <1>3, <1>4, <1>5, <1>6, <1>7, <1>8, <1>9, <1>10, <1>11, <1>12, <1>13 DEF Next, Step

(* The log of executions only grows. *)
LEMMA RunsKept ==
  ASSUME IndInv, [Next]_vars
  PROVE  \A n \in DOMAIN runs : n \in DOMAIN runs' /\ runs'[n] = runs[n]
<1>1. UNCHANGED runs \/ \E c \in Callers : Handle(c)
  BY DEF Next, Step, Arrive, Miss, FindExpired, Replay, Conflict, Delete, HandlerThrows, Save,
         QueryFails, Crash, Tick, vars
<1>2. ASSUME NEW c \in Callers, Handle(c)
      PROVE  \A n \in DOMAIN runs : n \in DOMAIN runs' /\ runs'[n] = runs[n]
  <2>1. /\ runs \in Seq([key : Keys \union {NoKey}, body : Bodies])
        /\ runs' = Append(runs, [key |-> key[c], body |-> body[c]])
    BY <1>2 DEF IndInv, TypeOK, Handle
  <2>2. QED
    BY <2>1
<1>3. QED
  BY <1>1, <1>2

(* Two records that differ at most in what is left of their life. *)
SameRecord(k) == \/ store[k] = NoRecord /\ store'[k] = NoRecord
                 \/ /\ store[k] # NoRecord /\ store'[k] # NoRecord
                    /\ store'[k].run = store[k].run /\ store'[k].body = store[k].body
                    /\ store[k].life = 0 => store'[k].life = 0

(* Only Delete and Save change the key's record, and only of their own key. *)
LEMMA StoreEffects ==
  ASSUME IndInv, [Next]_vars
  PROVE  \/ \A k \in Keys : SameRecord(k)
         \/ \E c \in Callers : /\ Delete(c) /\ Holds(key[c], seen[c])
                               /\ store' = [store EXCEPT ![key[c]] = NoRecord]
         \/ \E c \in Callers : /\ Save(c) /\ store[key[c]] = NoRecord
                               /\ store' = [store EXCEPT ![key[c]] =
                                     [body |-> body[c], run |-> mine[c], life |-> TTL]]
<1>1. CASE UNCHANGED store
  BY <1>1 DEF SameRecord
<1>2. CASE Tick
  <2>1. ASSUME NEW k \in Keys PROVE SameRecord(k)
    <3>1. CASE Live(k)
      <4>1. store[k] \in Record
        BY <3>1 DEF Live, IndInv, TypeOK
      <4>2. store'[k] = [store[k] EXCEPT !.life = @ - 1] /\ store[k] # NoRecord /\ store[k].life > 0
        BY <1>2, <3>1 DEF Tick, Live
      <4>3. store'[k] \in Record
        BY <4>1, <4>2, BoundsAssumption DEF Record
      <4>4. store'[k] # NoRecord
        BY <4>3, RecordAssumption DEF Record
      <4>5. QED
        BY <4>1, <4>2, <4>4 DEF SameRecord, Record
    <3>2. CASE ~Live(k)
      BY <1>2, <3>2 DEF Tick, SameRecord
    <3>3. QED
      BY <3>1, <3>2
  <2>2. QED
    BY <2>1
<1>3. CASE \E c \in Callers : Delete(c) /\ store' # store
  BY <1>3 DEF Delete
<1>4. CASE \E c \in Callers : Save(c) /\ store' # store
  BY <1>4 DEF Save
<1>5. QED
  BY <1>1, <1>2, <1>3, <1>4 DEF Next, Step, Arrive, Miss, FindExpired, Replay, Conflict, Handle,
     HandlerThrows, QueryFails, Crash, vars

LEMMA StoreNext == IndInv /\ [Next]_vars => StoreOK'
<1> SUFFICES ASSUME IndInv, [Next]_vars, NEW k \in Keys, store'[k] # NoRecord
             PROVE  Ran(store[k].run, k, store[k].body)'
  BY DEF StoreOK
<1> USE DEF Ran
<1>1. CASE SameRecord(k)
  BY <1>1, RunsKept DEF SameRecord, IndInv, StoreOK
<1>2. ASSUME NEW c \in Callers, store' = [store EXCEPT ![key[c]] = NoRecord]
      PROVE  Ran(store[k].run, k, store[k].body)'
  BY <1>2, RunsKept DEF IndInv, TypeOK, StoreOK
<1>3. ASSUME NEW c \in Callers, Save(c),
             store' = [store EXCEPT ![key[c]] = [body |-> body[c], run |-> mine[c], life |-> TTL]]
      PROVE  Ran(store[k].run, k, store[k].body)'
  <2>1. Ran(mine[c], key[c], body[c])
    BY <1>3 DEF Save, IndInv, RequestOK
  <2>2. CASE k = key[c]
    BY <1>3, <2>1, <2>2, RunsKept DEF IndInv, TypeOK
  <2>3. CASE k # key[c]
    BY <1>3, <2>3, RunsKept DEF IndInv, TypeOK, StoreOK
  <2>4. QED
    BY <2>2, <2>3
<1>4. QED
  BY <1>1, <1>2, <1>3, StoreEffects

(* The local variables a step of c leaves alone. *)
Bystander(d) == /\ pc'[d] = pc[d] /\ key'[d] = key[d] /\ body'[d] = body[d]
                /\ seen'[d] = seen[d] /\ mine'[d] = mine[d] /\ reply'[d] = reply[d]

LEMMA Bystanders ==
  ASSUME IndInv, NEW c \in Callers, Arrive(c) \/ Step(c) \/ QueryFails(c)
  PROVE  \A d \in Callers \ {c} : Bystander(d)
  BY DEF IndInv, TypeOK, Step, Arrive, Miss, FindExpired, Replay, Conflict, Delete, Handle,
         HandlerThrows, Save, QueryFails, Respond, Goto, Bystander

(* What a step makes of the request that takes it. *)
LEMMA OwnRequest ==
  ASSUME IndInv, [Next]_vars, NEW c \in Callers, Arrive(c) \/ Step(c) \/ QueryFails(c)
  PROVE  RequestOK(c)' /\ (reply'[c] # 0 => Ran(reply[c], key[c], body[c])')
<1> USE DEF IndInv, TypeOK, RequestOK, ReplayIsFaithful, Ran, Respond, Goto
<1>1. CASE Arrive(c)
  BY <1>1 DEF Arrive
<1>2. CASE Miss(c)
  BY <1>2 DEF Miss
<1>3. CASE FindExpired(c)
  BY <1>3 DEF FindExpired, Expired, StoreOK
<1>4. CASE Replay(c)
  BY <1>4 DEF Replay, Live, StoreOK
<1>5. CASE Conflict(c)
  BY <1>5 DEF Conflict
<1>6. CASE Delete(c)
  BY <1>6 DEF Delete
<1>7. CASE Handle(c)
  BY <1>7 DEF Handle
<1>8. CASE HandlerThrows(c)
  BY <1>8 DEF HandlerThrows
<1>9. CASE Save(c)
  BY <1>9 DEF Save
<1>10. CASE QueryFails(c)
  BY <1>10 DEF QueryFails
<1>11. QED
  BY <1>1, <1>2, <1>3, <1>4, <1>5, <1>6, <1>7, <1>8, <1>9, <1>10 DEF Step

LEMMA Enters ==
  ASSUME IndInv, NEW c \in Callers, Arrive(c) \/ Step(c) \/ QueryFails(c)
  PROVE  /\ pc'[c] = "save" => Handle(c) /\ mine'[c] = Len(runs) + 1
         /\ pc'[c] = "delete" => FindExpired(c)
  BY DEF IndInv, TypeOK, Step, Arrive, Miss, FindExpired, Replay, Conflict, Delete, Handle,
         HandlerThrows, Save, QueryFails, Respond, Goto

(* The new execution is nowhere recorded yet. *)
LEMMA NewIsFresh ==
  ASSUME IndInv
  PROVE  /\ \A k \in Keys : ~Holds(k, Len(runs) + 1)
         /\ \A d \in Callers : /\ pc[d] = "delete" => seen[d] # Len(runs) + 1
                               /\ pc[d] = "save" => mine[d] # Len(runs) + 1
<1>1. Len(runs) + 1 \notin DOMAIN runs
  BY DEF IndInv, TypeOK
<1>2. QED
  BY <1>1 DEF IndInv, StoreOK, RequestOK, Ran, Holds

LEMMA HoldsNext ==
  ASSUME IndInv, [Next]_vars, NEW k \in Keys, NEW n, Holds(k, n)'
  PROVE  \/ Holds(k, n) /\ (store[k].life = 0 => store'[k].life = 0)
         \/ \E c \in Callers : Save(c) /\ key[c] = k /\ n = mine[c]
<1>1. CASE SameRecord(k)
  BY <1>1 DEF SameRecord, Holds
<1>2. ASSUME NEW c \in Callers, store' = [store EXCEPT ![key[c]] = NoRecord]
      PROVE  Holds(k, n) /\ store'[k] = store[k]
  BY <1>2 DEF IndInv, TypeOK, Holds
<1>3. ASSUME NEW c \in Callers, Save(c),
             store' = [store EXCEPT ![key[c]] = [body |-> body[c], run |-> mine[c], life |-> TTL]]
      PROVE  \/ Holds(k, n) /\ store'[k] = store[k]
             \/ key[c] = k /\ n = mine[c]
  BY <1>3 DEF IndInv, TypeOK, Holds
<1>4. QED
  BY <1>1, <1>2, <1>3, StoreEffects

(* While e takes a step, what the others remember stays fresh and stale.   *)
LEMMA FreshStep ==
  ASSUME IndInv, [Next]_vars, NEW e \in Callers, Arrive(e) \/ Step(e) \/ QueryFails(e),
         NEW c \in Callers
  PROVE  Fresh(c)'
<1> SUFFICES ASSUME pc'[c] = "save"
             PROVE  /\ \A k \in Keys : ~Holds(k, mine[c])'
                    /\ \A d \in Callers : /\ pc'[d] = "delete" => seen'[d] # mine'[c]
                                          /\ pc'[d] = "save" /\ mine'[d] = mine'[c] => c = d
  BY DEF Fresh
<1>1. CASE e = c
  <2>1. Handle(c) /\ mine'[c] = Len(runs) + 1
    BY <1>1, Enters
  <2>2. store' = store
    BY <2>1 DEF Handle
  <2>3. QED
    BY <1>1, <2>1, <2>2, NewIsFresh, Bystanders DEF Bystander, Holds
<1>2. CASE e # c
  <2>1. Bystander(c) /\ Fresh(c) /\ pc[c] = "save"
    BY <1>2, Bystanders DEF IndInv, Bystander
  <2>2. ASSUME NEW k \in Keys, Holds(k, mine[c])' PROVE FALSE
    <3>1. PICK n : n = mine[c]
      OBVIOUS
    <3>2. Holds(k, n)'
      BY <2>1, <2>2, <3>1 DEF Bystander, Holds
    <3>3. CASE Holds(k, n)
      BY <2>1, <3>1, <3>3 DEF Fresh
    <3>4. ASSUME NEW f \in Callers, Save(f), n = mine[f] PROVE FALSE
      <4>1. f = c
        BY <2>1, <3>1, <3>4 DEF Fresh, Save
      <4>2. pc'[c] # "save"
        BY <3>4, <4>1 DEF Save, Respond, Goto, IndInv, TypeOK
      <4>3. QED
        BY <4>2
    <3>5. QED
      BY <3>2, <3>3, <3>4, HoldsNext
  <2>3. ASSUME NEW d \in Callers
        PROVE  /\ pc'[d] = "delete" => seen'[d] # mine'[c]
               /\ pc'[d] = "save" /\ mine'[d] = mine'[c] => c = d
    <3>1. CASE d # e
      BY <2>1, <3>1, Bystanders DEF Bystander, Fresh
    <3>2. CASE d = e
      <4>1. ASSUME pc'[d] = "delete" PROVE seen'[d] # mine'[c]
        <5>1. FindExpired(d)
          BY <3>2, <4>1, Enters
        <5>2. key[d] \in Keys /\ Holds(key[d], seen'[d])
          BY <5>1 DEF FindExpired, Expired, Holds, IndInv, TypeOK
        <5>3. QED
          BY <2>1, <5>2 DEF Fresh, Bystander
      <4>2. pc'[d] = "save" => mine'[d] # mine'[c]
        BY <2>1, <3>2, Enters, NewIsFresh DEF Bystander
      <4>3. QED
        BY <4>1, <4>2
    <3>3. QED
      BY <3>1, <3>2
  <2>4. QED
    BY <2>2, <2>3
<1>3. QED
  BY <1>1, <1>2

LEMMA StaleStep ==
  ASSUME IndInv, [Next]_vars, NEW e \in Callers, Arrive(e) \/ Step(e) \/ QueryFails(e),
         NEW c \in Callers
  PROVE  Stale(c)'
<1> SUFFICES ASSUME pc'[c] = "delete", Holds(key[c], seen[c])'
             PROVE  store'[key'[c]].life = 0
  BY DEF Stale
<1>1. CASE e = c
  <2>1. FindExpired(c)
    BY <1>1, Enters
  <2>2. QED
    BY <2>1 DEF FindExpired, Expired
<1>2. CASE e # c
  <2>1. Bystander(c) /\ pc[c] = "delete" /\ Stale(c) /\ RequestOK(c)
    BY <1>2, Bystanders DEF IndInv, Bystander
  <2>2. PICK k, n : k = key[c] /\ n = seen[c] /\ k \in Keys
    BY <2>1 DEF RequestOK
  <2>3. Holds(k, n)'
    BY <2>1, <2>2 DEF Bystander, Holds
  <2>4. CASE Holds(k, n) /\ (store[k].life = 0 => store'[k].life = 0)
    BY <2>1, <2>2, <2>4 DEF Stale, Bystander
  <2>5. ASSUME NEW f \in Callers, Save(f), n = mine[f] PROVE FALSE
    BY <2>1, <2>2, <2>5 DEF Save, IndInv, Fresh
  <2>6. QED
    BY <2>2, <2>3, <2>4, <2>5, HoldsNext
<1>3. QED
  BY <1>1, <1>2

LEMMA RequestsNext ==
  IndInv /\ [Next]_vars => /\ ReplayIsFaithful'
                           /\ \A c \in Callers : RequestOK(c)' /\ Fresh(c)' /\ Stale(c)'
<1> SUFFICES ASSUME IndInv, [Next]_vars
             PROVE  /\ ReplayIsFaithful'
                    /\ \A c \in Callers : RequestOK(c)' /\ Fresh(c)' /\ Stale(c)'
  OBVIOUS
<1>1. ASSUME NEW e \in Callers, Arrive(e) \/ Step(e) \/ QueryFails(e)
      PROVE  /\ ReplayIsFaithful'
             /\ \A c \in Callers : RequestOK(c)' /\ Fresh(c)' /\ Stale(c)'
  <2>1. ASSUME NEW c \in Callers
        PROVE  RequestOK(c)' /\ (reply'[c] # 0 => Ran(reply[c], key[c], body[c])')
    <3>1. CASE c = e
      BY <1>1, <3>1, OwnRequest
    <3>2. CASE c # e
      <4>1. Bystander(c)
        BY <1>1, <3>2, Bystanders
      <4>2. RequestOK(c) /\ (reply[c] # 0 => Ran(reply[c], key[c], body[c]))
        BY DEF IndInv, ReplayIsFaithful
      <4>3. QED
        BY <4>1, <4>2, RunsKept DEF Bystander, RequestOK, Ran
    <3>3. QED
      BY <3>1, <3>2
  <2>2. QED
    BY <1>1, <2>1, FreshStep, StaleStep DEF ReplayIsFaithful
<1>2. CASE Crash
  BY <1>2 DEF Crash, ReplayIsFaithful, RequestOK, Fresh, Stale
<1>3. ASSUME UNCHANGED <<runs, pc, key, body, seen, mine, reply>>,
             \A k \in Keys : SameRecord(k)
      PROVE  /\ ReplayIsFaithful'
             /\ \A c \in Callers : RequestOK(c)' /\ Fresh(c)' /\ Stale(c)'
  <2>1. ReplayIsFaithful' /\ \A c \in Callers : RequestOK(c)'
    BY <1>3 DEF IndInv, ReplayIsFaithful, RequestOK, Ran
  <2>2. ASSUME NEW k \in Keys, NEW n PROVE Holds(k, n)' => Holds(k, n)
    BY <1>3 DEF SameRecord, Holds
  <2>3. ASSUME NEW c \in Callers PROVE Fresh(c)' /\ Stale(c)'
    BY <1>3, <2>2 DEF IndInv, RequestOK, Fresh, Stale, Holds, SameRecord
  <2>4. QED
    BY <2>1, <2>3
<1>4. CASE Tick
  <2>1. UNCHANGED <<runs, pc, key, body, seen, mine, reply>>
    BY <1>4 DEF Tick
  <2>2. \A k \in Keys : SameRecord(k)
    BY <1>4, StoreEffects DEF Tick, Delete, Save, Respond, Goto, IndInv, TypeOK
  <2>3. QED
    BY <1>3, <2>1, <2>2
<1>5. CASE UNCHANGED vars
  BY <1>3, <1>5 DEF vars, SameRecord
<1>6. QED
  BY <1>1, <1>2, <1>4, <1>5 DEF Next

THEOREM IndInvariant == Spec => []IndInv
<1>1. IndInv /\ [Next]_vars => IndInv'
  BY TypeNext, StoreNext, RequestsNext DEF IndInv
<1>2. QED
  BY IndInit, <1>1, PTL DEF Spec

(* Whatever overlaps, expires or crashes, a request is only ever answered  *)
(* with the result of its own body under its own key.                      *)
THEOREM RepliesAreFaithful == Spec => []ReplayIsFaithful
<1>1. IndInv => ReplayIsFaithful
  BY DEF IndInv
<1>2. QED
  BY <1>1, IndInvariant, PTL

(* A stored response survives until it expires.                            *)
THEOREM LiveRecordsStay == Spec => LiveRecordKept
<1>1. ASSUME IndInv, [Next]_vars, NEW k \in Keys, Live(k)
      PROVE  /\ store'[k] # NoRecord
             /\ store'[k].run = store[k].run
             /\ store'[k].body = store[k].body
  <2>1. CASE SameRecord(k)
    BY <1>1, <2>1 DEF SameRecord, Live
  <2>2. ASSUME NEW c \in Callers, Delete(c), Holds(key[c], seen[c]),
               store' = [store EXCEPT ![key[c]] = NoRecord]
        PROVE  store'[k] = store[k]
    <3>1. store[key[c]].life = 0
      BY <1>1, <2>2 DEF IndInv, Stale, Delete
    <3>2. key[c] # k
      BY <1>1, <3>1 DEF Live
    <3>3. QED
      BY <1>1, <2>2, <3>2 DEF IndInv, TypeOK
  <2>3. ASSUME NEW c \in Callers, store[key[c]] = NoRecord,
               store' = [store EXCEPT ![key[c]] =
                           [body |-> body[c], run |-> mine[c], life |-> TTL]]
        PROVE  store'[k] = store[k]
    BY <1>1, <2>3 DEF IndInv, TypeOK, Live
  <2>4. QED
    BY <1>1, <2>1, <2>2, <2>3, StoreEffects DEF Live
<1>2. IndInv /\ [Next]_vars =>
        [\A k \in Keys : Live(k) => /\ store'[k] # NoRecord
                                    /\ store'[k].run = store[k].run
                                    /\ store'[k].body = store[k].body]_store
  BY <1>1
<1>3. QED
  BY <1>2, IndInvariant, PTL DEF Spec, LiveRecordKept

(* While a response is stored, no other success is told under its key.     *)
THEOREM OneAnswerWhileStored == Spec => OneAnswer
<1>1. ASSUME IndInv, [Next]_vars, NEW c \in Callers, Live(key[c]), reply'[c] \notin {0, reply[c]}
      PROVE  reply'[c] = store[key[c]].run
  <2>1. PICK e \in Callers : Arrive(e) \/ Step(e) \/ QueryFails(e)
    BY <1>1 DEF Next, Crash, Tick, vars
  <2>2. e = c
    BY <1>1, <2>1, Bystanders DEF Bystander
  <2>3. Replay(c) \/ (Handle(c) /\ key[c] = NoKey) \/ (Save(c) /\ store[key[c]] = NoRecord)
    BY <1>1, <2>1, <2>2 DEF IndInv, TypeOK, Step, Arrive, Miss, FindExpired, Replay, Conflict,
       Delete, Handle, HandlerThrows, Save, QueryFails, Respond
  <2>4. Replay(c)
    BY <1>1, <2>3, KeysAssumption DEF Live
  <2>5. reply \in [Callers -> 0..MaxRuns] /\ reply' = [reply EXCEPT ![c] = store[key[c]].run]
    BY <1>1, <2>4 DEF Replay, Respond, IndInv, TypeOK
  <2>6. QED
    BY <2>5
<1>2. IndInv /\ [Next]_vars =>
        [\A c \in Callers : Live(key[c]) /\ reply'[c] \notin {0, reply[c]}
                               => reply'[c] = store[key[c]].run]_reply
  BY <1>1
<1>3. QED
  BY <1>2, IndInvariant, PTL DEF Spec, OneAnswer
================================================================================
