------------------------------- MODULE Idempotency -------------------------------
(***************************************************************************)
(* withIdempotency (idempotency.service.ts), the wrapper around the POST   *)
(* handlers: a key that was used before is answered from the stored        *)
(* response, another body under the key is a conflict, a new key runs the  *)
(* handler and stores its response.  Nothing holds the key while the       *)
(* handler runs.                                                           *)
(*                                                                         *)
(* The handler is one step: what it does inside is LeaveWorkflow's matter. *)
(* An execution is known by its index in the log `runs`.                   *)
(***************************************************************************)
EXTENDS Naturals, Sequences, FiniteSets

CONSTANTS
  Callers,     \* concurrent HTTP requests
  Keys,        \* values of the Idempotency-Key header
  NoKey,       \* the header is missing
  Bodies,      \* route and hash of the body: what a replay must agree on
  NoRecord,
  TTL,         \* life of a record, in clock ticks
  MaxRuns,     \* bound on executions of the handler
  MaxFaults    \* bound on crashes and failing database calls

ASSUME KeysAssumption == NoKey \notin Keys
ASSUME BoundsAssumption == TTL \in Nat \ {0} /\ MaxRuns \in Nat /\ MaxFaults \in Nat
ASSUME RecordAssumption ==
  NoRecord \notin [body : Bodies, run : 1..MaxRuns, life : 0..TTL]

VARIABLES
  store,    \* idempotency_keys: the record of each key
  runs,     \* the executions of the handler, in order
  pc,       \* the awaited call each request is at
  key, body,\* its header, its route and body
  seen,     \* the execution recorded in the expired record it has read
  mine,     \* its own execution of the handler
  reply,    \* its response: the execution whose result it carries, 0 if none
  faults

vars == <<store, runs, pc, key, body, seen, mine, reply, faults>>

Record == [body : Bodies, run : 1..MaxRuns, life : 0..TTL]

Live(k) == k \in Keys /\ store[k] # NoRecord /\ store[k].life > 0
Holds(k, n) == store[k] # NoRecord /\ store[k].run = n
Expired(k) == k \in Keys /\ store[k] # NoRecord /\ store[k].life = 0

Init == /\ store = [k \in Keys |-> NoRecord]
        /\ runs = <<>>
        /\ pc = [c \in Callers |-> "idle"]
        /\ key \in [Callers -> {NoKey}]
        /\ body \in [Callers -> Bodies]
        /\ seen = [c \in Callers |-> 0]
        /\ mine = [c \in Callers |-> 0]
        /\ reply = [c \in Callers |-> 0]
        /\ faults = 0

Goto(c, label) == pc' = [pc EXCEPT ![c] = label]

(* The response; n is 0 for an error.                                      *)
Respond(c, n) == /\ reply' = [reply EXCEPT ![c] = n]
                 /\ seen' = [seen EXCEPT ![c] = 0]
                 /\ mine' = [mine EXCEPT ![c] = 0]
                 /\ Goto(c, "idle")

(* A request arrives. *)
Arrive(c) ==
  /\ pc[c] = "idle"
  /\ \E k \in Keys \union {NoKey} :
       /\ key' = [key EXCEPT ![c] = k]
       /\ Goto(c, IF k = NoKey THEN "handler" ELSE "find")
  /\ \E b \in Bodies : body' = [body EXCEPT ![c] = b]
  /\ reply' = [reply EXCEPT ![c] = 0]
  /\ UNCHANGED <<store, runs, seen, mine, faults>>
--------------------------------------------------------------------------------
(* Mutated forms of the steps below: plausible bugs.                       *)

(* A record of the key answers whatever the body is. *)
MutReplay(c) ==
  /\ pc[c] = "find"
  /\ Live(key[c])
  /\ Respond(c, store[key[c]].run)
  /\ UNCHANGED <<store, runs, key, body, faults>>

(* The expired record is deleted by its key, whichever record that now is. *)
MutDelete(c) ==
  /\ pc[c] = "delete"
  /\ store' = [store EXCEPT ![key[c]] = NoRecord]
  /\ Goto(c, "handler")
  /\ UNCHANGED <<runs, key, body, seen, mine, reply, faults>>

(* The response is not stored. *)
MutForget(c) ==
  /\ pc[c] = "save"
  /\ Respond(c, mine[c])
  /\ UNCHANGED <<store, runs, key, body, faults>>

(* The response is stored with an upsert. *)
MutSave(c) ==
  /\ pc[c] = "save"
  /\ store' = [store EXCEPT ![key[c]] = [body |-> body[c], run |-> mine[c], life |-> TTL]]
  /\ Respond(c, mine[c])
  /\ UNCHANGED <<runs, key, body, faults>>
--------------------------------------------------------------------------------
(* The first query: nothing stored under the key. *)
Miss(c) ==
  /\ pc[c] = "find"
  /\ store[key[c]] = NoRecord
  /\ Goto(c, "handler")
  /\ UNCHANGED <<store, runs, key, body, seen, mine, reply, faults>>

(* The record is out of date: its id is remembered for the deletion. *)
FindExpired(c) ==
  /\ pc[c] = "find"
  /\ Expired(key[c])
  /\ seen' = [seen EXCEPT ![c] = store[key[c]].run]
  /\ Goto(c, "delete")
  /\ UNCHANGED <<store, runs, key, body, mine, reply, faults>>

Replay(c) ==
  /\ pc[c] = "find"
  /\ Live(key[c]) /\ store[key[c]].body = body[c]
  /\ Respond(c, store[key[c]].run)
  /\ UNCHANGED <<store, runs, key, body, faults>>

(* IDEMPOTENCY_CONFLICT *)
Conflict(c) ==
  /\ pc[c] = "find"
  /\ Live(key[c]) /\ store[key[c]].body # body[c]
  /\ Respond(c, 0)
  /\ UNCHANGED <<store, runs, key, body, faults>>

(* delete by id: it throws when another request has deleted the record.    *)
Delete(c) ==
  /\ pc[c] = "delete"
  /\ \/ /\ Holds(key[c], seen[c])
        /\ store' = [store EXCEPT ![key[c]] = NoRecord]
        /\ Goto(c, "handler")
        /\ UNCHANGED <<seen, mine, reply>>
     \/ /\ ~Holds(key[c], seen[c])
        /\ Respond(c, 0)
        /\ UNCHANGED store
  /\ UNCHANGED <<runs, key, body, faults>>

(* The handler succeeds; without a key its result is the response. *)
Handle(c) ==
  /\ pc[c] = "handler"
  /\ Len(runs) < MaxRuns
  /\ runs' = Append(runs, [key |-> key[c], body |-> body[c]])
  /\ IF key[c] = NoKey
     THEN Respond(c, Len(runs) + 1)
     ELSE /\ mine' = [mine EXCEPT ![c] = Len(runs) + 1]
          /\ Goto(c, "save")
          /\ UNCHANGED <<seen, reply>>
  /\ UNCHANGED <<store, key, body, faults>>

(* The handler throws: nothing is stored, a retry runs it again. *)
HandlerThrows(c) ==
  /\ pc[c] = "handler"
  /\ Respond(c, 0)
  /\ UNCHANGED <<store, runs, key, body, faults>>

(* create: the unique key refuses a second record, and the error becomes   *)
(* the response of a request that was carried out.                         *)
Save(c) ==
  /\ pc[c] = "save"
  /\ \/ /\ store[key[c]] = NoRecord
        /\ store' = [store EXCEPT ![key[c]] = [body |-> body[c], run |-> mine[c], life |-> TTL]]
        /\ Respond(c, mine[c])
     \/ /\ store[key[c]] # NoRecord
        /\ Respond(c, 0)
        /\ UNCHANGED store
  /\ UNCHANGED <<runs, key, body, faults>>

(* A database call of the wrapper throws. *)
QueryFails(c) ==
  /\ pc[c] \in {"find", "delete", "save"}
  /\ faults < MaxFaults
  /\ faults' = faults + 1
  /\ Respond(c, 0)
  /\ UNCHANGED <<store, runs, key, body>>

(* The service dies: every request is gone, the store remains. *)
Crash ==
  /\ \E c \in Callers : pc[c] # "idle"
  /\ faults < MaxFaults
  /\ faults' = faults + 1
  /\ pc' = [c \in Callers |-> "idle"]
  /\ seen' = [c \in Callers |-> 0]
  /\ mine' = [c \in Callers |-> 0]
  /\ reply' = [c \in Callers |-> 0]
  /\ UNCHANGED <<store, runs, key, body>>

Tick ==
  /\ \E k \in Keys : Live(k)
  /\ store' = [k \in Keys |-> IF Live(k) THEN [store[k] EXCEPT !.life = @ - 1] ELSE store[k]]
  /\ UNCHANGED <<runs, pc, key, body, seen, mine, reply, faults>>

Step(c) == \/ Miss(c) \/ FindExpired(c) \/ Replay(c) \/ Conflict(c) \/ Delete(c)
           \/ Handle(c) \/ HandlerThrows(c) \/ Save(c)

Next == \/ \E c \in Callers : Arrive(c) \/ Step(c) \/ QueryFails(c)
        \/ Crash
        \/ Tick

Spec == Init /\ [][Next]_vars
--------------------------------------------------------------------------------
TypeOK ==
  /\ store \in [Keys -> Record \union {NoRecord}]
  /\ runs \in Seq([key : Keys \union {NoKey}, body : Bodies])
  /\ Len(runs) <= MaxRuns
  /\ pc \in [Callers -> {"idle", "find", "delete", "handler", "save"}]
  /\ key \in [Callers -> Keys \union {NoKey}]
  /\ body \in [Callers -> Bodies]
  /\ seen \in [Callers -> 0..MaxRuns]
  /\ mine \in [Callers -> 0..MaxRuns]
  /\ reply \in [Callers -> 0..MaxRuns]
  /\ faults \in 0..MaxFaults

Ran(n, k, b) == n \in DOMAIN runs /\ runs[n] = [key |-> k, body |-> b]

(* A request is answered with the result of an execution of the handler on *)
(* its own body, under its own key: its own or one it replays.             *)
ReplayIsFaithful == \A c \in Callers : reply[c] # 0 => Ran(reply[c], key[c], body[c])

(* While a response is stored, nobody replaces it or deletes it, also not  *)
(* one that read an older record of the key and was slow to delete it.     *)
LiveRecordKept ==
  [][\A k \in Keys : Live(k) => /\ store'[k] # NoRecord
                                /\ store'[k].run = store[k].run
                                /\ store'[k].body = store[k].body]_store

(* While a response is stored, it is the only success a request with the   *)
(* key is told, also one that ran the handler a second time.               *)
OneAnswer ==
  [][\A c \in Callers : Live(key[c]) /\ reply'[c] \notin {0, reply[c]}
                           => reply'[c] = store[key[c]].run]_reply

(* What the three properties rest on.                                      *)
RequestOK(c) ==
  /\ pc[c] \in {"find", "delete", "save"} => key[c] \in Keys
  /\ pc[c] = "delete" => seen[c] \in DOMAIN runs
  /\ pc[c] = "save" => Ran(mine[c], key[c], body[c])

StoreOK == \A k \in Keys : store[k] # NoRecord => Ran(store[k].run, k, store[k].body)

(* An execution that is still to be stored is in no record, nor in one     *)
(* that somebody is about to delete; and what is to be deleted is expired. *)
Fresh(c) ==
  pc[c] = "save" =>
    /\ \A k \in Keys : ~Holds(k, mine[c])
    /\ \A d \in Callers : /\ pc[d] = "delete" => seen[d] # mine[c]
                          /\ pc[d] = "save" /\ mine[d] = mine[c] => c = d

Stale(c) == pc[c] = "delete" /\ Holds(key[c], seen[c]) => store[key[c]].life = 0

IndInv == /\ TypeOK
          /\ ReplayIsFaithful
          /\ StoreOK
          /\ \A c \in Callers : RequestOK(c) /\ Fresh(c) /\ Stale(c)
================================================================================
