----------------------------- MODULE WorkdayClient -----------------------------
(***************************************************************************)
(* WorkdayHttpClient (workday.client.ts): request, the retry loop of all   *)
(* reading calls, postMultipart, the single attempt of the calls that      *)
(* change something, and getAccessToken, whose token all calls share.      *)
(* It implements HcmCall.                                                  *)
(*                                                                         *)
(* A call awaits one fetch after the other.  Workday may carry a request   *)
(* out and its response be lost on the way, or be unreadable.              *)
(***************************************************************************)
EXTENDS Naturals

CONSTANTS
  Callers,    \* concurrent calls of the client
  MaxRetries  \* attempts of a reading call

ASSUME RetriesAssumption == MaxRetries \in Nat \ {0}

Kinds == {"read", "write"}
Failures == {"unavailable", "transport"}
Outcomes == {"none", "ok", "validation"} \union Failures

(* 2xx, 400 to 499 but for the next two, 401 and 403, 429, 500 and above.  *)
Responses == {"ok", "refused", "forbidden", "busy", "down"}

VARIABLES
  hasToken,   \* is an access token cached?
  pc,         \* what each call awaits
  kind,       \* request (read) or postMultipart (write)
  attempt,    \* attempts that have failed
  lastError,  \* the error the loop will throw
  response,   \* the response on its way
  acted,      \* has Workday carried the call out?
  outcome     \* how the last call of each caller ended

vars == <<hasToken, pc, kind, attempt, lastError, response, acted, outcome>>

Init ==
  /\ hasToken = FALSE
  /\ pc = [c \in Callers |-> "idle"]
  /\ kind = [c \in Callers |-> "read"]
  /\ attempt = [c \in Callers |-> 0]
  /\ lastError = [c \in Callers |-> "none"]
  /\ response = [c \in Callers |-> "none"]
  /\ acted = [c \in Callers |-> FALSE]
  /\ outcome = [c \in Callers |-> "none"]

Goto(c, label) == pc' = [pc EXCEPT ![c] = label]

(* A cached token is used as it is. *)
Authorized == IF hasToken THEN "send" ELSE "token"

Return(c, o) ==
  /\ Goto(c, "idle")
  /\ outcome' = [outcome EXCEPT ![c] = o]
  /\ attempt' = [attempt EXCEPT ![c] = 0]
  /\ lastError' = [lastError EXCEPT ![c] = "none"]
  /\ response' = [response EXCEPT ![c] = "none"]

(* The loop sleeps before the attempt is counted. *)
Sleep(c, e) ==
  /\ Goto(c, "sleep")
  /\ lastError' = [lastError EXCEPT ![c] = e]
  /\ response' = [response EXCEPT ![c] = "none"]
  /\ UNCHANGED <<outcome, attempt>>

(* Mutated form of Throw: one attempt fewer. *)
MutThrow(c, e) ==
  IF kind[c] = "read" /\ attempt[c] + 2 < MaxRetries THEN Sleep(c, e) ELSE Return(c, e)

(* Mutated form of Throw: a write is tried again as well. *)
MutThrowAgain(c, e) ==
  IF attempt[c] < MaxRetries - 1 THEN Sleep(c, e) ELSE Return(c, e)

(* An error is thrown: a read's catch block decides whether to go on, a    *)
(* write has none.                                                         *)
Throw(c, e) ==
  IF kind[c] = "read" /\ attempt[c] < MaxRetries - 1 THEN Sleep(c, e) ELSE Return(c, e)
--------------------------------------------------------------------------------
Call(c) ==
  /\ pc[c] = "idle"
  /\ \E k \in Kinds : kind' = [kind EXCEPT ![c] = k]
  /\ acted' = [acted EXCEPT ![c] = FALSE]
  /\ outcome' = [outcome EXCEPT ![c] = "none"]
  /\ Goto(c, Authorized)
  /\ UNCHANGED <<hasToken, attempt, lastError, response>>

(* The token request: every call that finds no token makes its own.        *)
Authorize(c) ==
  /\ pc[c] = "token"
  /\ \/ /\ hasToken' = TRUE
        /\ Goto(c, "send")
        /\ UNCHANGED <<attempt, lastError, response, outcome>>
     \/ /\ \E e \in Failures : Throw(c, e)
        /\ UNCHANGED hasToken
  /\ UNCHANGED <<kind, acted>>

(* Workday handles the request. *)
Serve(c) ==
  /\ pc[c] = "send"
  /\ \E r \in Responses :
       /\ response' = [response EXCEPT ![c] = r]
       /\ \E done \in BOOLEAN :
            /\ r = "ok" => done = (kind[c] = "write")
            /\ done => kind[c] = "write" /\ r \in {"ok", "down"}
            /\ acted' = [acted EXCEPT ![c] = done]
  /\ Goto(c, "reply")
  /\ UNCHANGED <<hasToken, kind, attempt, lastError, outcome>>

(* fetch, or reading the body of a 2xx response, throws. *)
Break(c) ==
  /\ pc[c] \in {"send", "reply"}
  /\ Throw(c, "transport")
  /\ UNCHANGED <<hasToken, kind, acted>>

Answered(c) ==
  /\ pc[c] = "reply"
  /\ response[c] = "ok"
  /\ Return(c, "ok")
  /\ UNCHANGED <<hasToken, kind, acted>>

(* HcmValidationError: thrown through the loop.  postMultipart takes every *)
(* status from 400 to 499 for one.                                         *)
Refused(c) ==
  /\ pc[c] = "reply"
  /\ \/ response[c] = "refused"
     \/ kind[c] = "write" /\ response[c] \in {"forbidden", "busy"}
  /\ Return(c, "validation")
  /\ UNCHANGED <<hasToken, kind, acted>>

Unavailable(c) ==
  /\ pc[c] = "reply"
  /\ \/ kind[c] = "read" /\ response[c] = "forbidden" /\ Throw(c, "unavailable")
     \/ kind[c] = "read" /\ response[c] = "down" /\ Sleep(c, "unavailable")
     \/ kind[c] = "read" /\ response[c] = "busy" /\ Sleep(c, lastError[c])
     \/ kind[c] = "write" /\ response[c] = "down" /\ Return(c, "unavailable")
  /\ UNCHANGED <<hasToken, kind, acted>>

(* Mutated form of Wake: the attempt is not counted. *)
MutWake(c) ==
  /\ pc[c] = "sleep"
  /\ Goto(c, Authorized)
  /\ UNCHANGED <<attempt, lastError, response, outcome, hasToken, kind, acted>>

Wake(c) ==
  /\ pc[c] = "sleep"
  /\ IF attempt[c] + 1 < MaxRetries
     THEN /\ attempt' = [attempt EXCEPT ![c] = @ + 1]
          /\ Goto(c, Authorized)
          /\ UNCHANGED <<lastError, response, outcome>>
     ELSE Return(c, IF lastError[c] = "none" THEN "unavailable" ELSE lastError[c])
  /\ UNCHANGED <<hasToken, kind, acted>>

Step(c) == \/ Authorize(c) \/ Serve(c) \/ Break(c) \/ Answered(c)
           \/ Refused(c) \/ Unavailable(c) \/ Wake(c)

Next == \E c \in Callers : Call(c) \/ Step(c)

Spec == Init /\ [][Next]_vars

(* Timers fire and fetch settles: it has a time limit of its own.          *)
FairSpec == Spec /\ \A c \in Callers : WF_vars(Step(c))
--------------------------------------------------------------------------------
TypeOK ==
  /\ hasToken \in BOOLEAN
  /\ pc \in [Callers -> {"idle", "token", "send", "reply", "sleep"}]
  /\ kind \in [Callers -> Kinds]
  /\ attempt \in [Callers -> 0..MaxRetries - 1]
  /\ lastError \in [Callers -> Failures \union {"none"}]
  /\ response \in [Callers -> Responses \union {"none"}]
  /\ acted \in [Callers -> BOOLEAN]
  /\ outcome \in [Callers -> Outcomes]

(* Workday has acted only on a write it was sent, which is not sent again; *)
(* a response that has come says whether.                                  *)
EffectOK(c) ==
  /\ pc[c] = "idle" => attempt[c] = 0
  /\ acted[c] => kind[c] = "write" /\ pc[c] \in {"idle", "reply"}
  /\ kind[c] = "write" => pc[c] # "sleep" /\ attempt[c] = 0
  /\ pc[c] = "reply" =>
       /\ response[c] \in Responses
       /\ response[c] = "ok" /\ kind[c] = "write" => acted[c]
       /\ response[c] \in {"refused", "forbidden", "busy"} => ~acted[c]

IndInv == TypeOK /\ \A c \in Callers : EffectOK(c)

(* Retries, lost responses and calls that share the token do not show: a   *)
(* call acts at most once, and its outcome tells the truth.                *)
Promise == INSTANCE HcmCall WITH waiting <- {c \in Callers : pc[c] # "idle"}
Truthful == Promise!Spec

(* A reading call gives up on a failure that may pass only after its last  *)
(* attempt (docs/spec.md: at most five).                                   *)
ReadsArePatient ==
  [][\A c \in Callers :
       pc[c] # "idle" /\ kind[c] = "read" /\ outcome'[c] \in Failures
         => attempt[c] = MaxRetries - 1]_<<pc, outcome>>

(* Every call returns, whatever Workday answers: the handlers' fairness    *)
(* rests on it.                                                            *)
EveryCallReturns == \A c \in Callers : pc[c] # "idle" ~> pc[c] = "idle"
================================================================================
