-------------------------- MODULE WorkdayClientProofs --------------------------
(* Proofs about WorkdayClient: its invariant, the refinement of HcmCall,   *)
(* and the patience of reading calls.                                      *)
EXTENDS WorkdayClient, TLAPS

(* The two ends of an attempt that failed. *)
LEMMA SleepInv ==
  ASSUME IndInv, NEW c \in Callers, NEW e \in Failures \union {"none"}, Sleep(c, e),
         kind[c] = "read", UNCHANGED <<kind, acted>>, hasToken' \in BOOLEAN
  PROVE  IndInv'
<1>1. TypeOK'
  BY DEF IndInv, TypeOK, Sleep, Goto
<1>2. \A d \in Callers : EffectOK(d)'
  BY DEF IndInv, TypeOK, Sleep, Goto, EffectOK
<1>3. QED
  BY <1>1, <1>2 DEF IndInv

LEMMA ReturnInv ==
  ASSUME IndInv, NEW c \in Callers, NEW o \in Outcomes, Return(c, o),
         UNCHANGED <<kind, acted>>, hasToken' \in BOOLEAN
  PROVE  IndInv'
<1>1. TypeOK'
  BY RetriesAssumption DEF IndInv, TypeOK, Return, Goto
<1>2. \A d \in Callers : EffectOK(d)'
  BY DEF IndInv, TypeOK, Return, Goto, EffectOK
<1>3. QED
  BY <1>1, <1>2 DEF IndInv

LEMMA ThrowInv ==
  ASSUME IndInv, NEW c \in Callers, NEW e \in Failures, Throw(c, e),
         UNCHANGED <<kind, acted>>, hasToken' \in BOOLEAN
  PROVE  IndInv'
<1>1. CASE kind[c] = "read" /\ attempt[c] < MaxRetries - 1
  BY <1>1, SleepInv DEF Throw
<1>2. CASE ~(kind[c] = "read" /\ attempt[c] < MaxRetries - 1)
  BY <1>2, ReturnInv DEF Throw, Outcomes
<1>3. QED
  BY <1>1, <1>2

LEMMA StepInv ==
  ASSUME IndInv, NEW c \in Callers, Call(c) \/ Step(c)
  PROVE  IndInv'
<1>1. CASE Call(c)
  <2>1. TypeOK'
    BY <1>1 DEF Call, Goto, Authorized, IndInv, TypeOK, Outcomes
  <2>2. \A d \in Callers : EffectOK(d)'
    BY <1>1 DEF Call, Goto, Authorized, IndInv, TypeOK, EffectOK
  <2>3. QED
    BY <2>1, <2>2 DEF IndInv
<1>2. CASE Authorize(c)
  <2>1. ASSUME hasToken' = TRUE, Goto(c, "send"),
               UNCHANGED <<attempt, lastError, response, outcome, kind, acted>>
        PROVE  IndInv'
    <3>1. pc[c] = "token"
      BY <1>2 DEF Authorize
    <3>2. TypeOK'
      BY <2>1 DEF Goto, IndInv, TypeOK
    <3>3. \A d \in Callers : EffectOK(d)'
      BY <2>1, <3>1 DEF Goto, IndInv, TypeOK, EffectOK
    <3>4. QED
      BY <3>2, <3>3 DEF IndInv
  <2>2. QED
    BY <1>2, <2>1, ThrowInv DEF Authorize, IndInv, TypeOK
<1>3. CASE Serve(c)
  <2>1. TypeOK'
    BY <1>3 DEF Serve, Goto, IndInv, TypeOK
  <2>2. \A d \in Callers : EffectOK(d)'
    BY <1>3 DEF Serve, Goto, IndInv, TypeOK, EffectOK, Kinds
  <2>3. QED
    BY <2>1, <2>2 DEF IndInv
<1>4. CASE Break(c)
  BY <1>4, ThrowInv DEF Break, Failures, IndInv, TypeOK
<1>5. CASE Answered(c)
  BY <1>5, ReturnInv DEF Answered, Outcomes, IndInv, TypeOK
<1>6. CASE Refused(c)
  BY <1>6, ReturnInv DEF Refused, Outcomes, IndInv, TypeOK
<1>7. CASE Unavailable(c)
  <2>1. /\ UNCHANGED <<kind, acted>>
        /\ hasToken' \in BOOLEAN
        /\ lastError[c] \in Failures \union {"none"}
    BY <1>7 DEF Unavailable, IndInv, TypeOK
  <2>2. "unavailable" \in Failures /\ "unavailable" \in Outcomes
    BY DEF Failures, Outcomes
  <2>3. QED
    BY <1>7, <2>1, <2>2, SleepInv, ReturnInv, ThrowInv DEF Unavailable
<1>8. CASE Wake(c)
  <2>1. CASE attempt[c] + 1 < MaxRetries
    <3>1. /\ pc[c] = "sleep"
          /\ attempt' = [attempt EXCEPT ![c] = @ + 1]
          /\ Goto(c, Authorized)
          /\ UNCHANGED <<lastError, response, outcome, hasToken, kind, acted>>
      BY <1>8, <2>1 DEF Wake
    <3>2. TypeOK'
      BY <2>1, <3>1, RetriesAssumption DEF Goto, Authorized, IndInv, TypeOK
    <3>3. \A d \in Callers : EffectOK(d)'
      BY <3>1 DEF Goto, Authorized, IndInv, TypeOK, EffectOK, Kinds
    <3>4. QED
      BY <3>2, <3>3 DEF IndInv
  <2>2. CASE ~(attempt[c] + 1 < MaxRetries)
    BY <1>8, <2>2, ReturnInv DEF Wake, Outcomes, Failures, IndInv, TypeOK
  <2>3. QED
    BY <2>1, <2>2
<1>9. QED
  BY <1>1, <1>2, <1>3, <1>4, <1>5, <1>6, <1>7, <1>8 DEF Step

(* What holds of every call between two awaits, for any number of callers  *)
(* and any limit of retries.                                               *)
THEOREM IndInvariant == Spec => []IndInv
<1>1. Init => IndInv
  <2>1. 0 \in 0..MaxRetries - 1
    BY RetriesAssumption
  <2>2. Init => TypeOK
    <3> SUFFICES ASSUME Init PROVE TypeOK
      OBVIOUS
    <3>1. attempt \in [Callers -> 0..MaxRetries - 1]
      BY <2>1 DEF Init
    <3>2. hasToken \in BOOLEAN /\ acted \in [Callers -> BOOLEAN]
      BY DEF Init
    <3>3. /\ pc \in [Callers -> {"idle", "token", "send", "reply", "sleep"}]
          /\ kind \in [Callers -> Kinds]
          /\ lastError \in [Callers -> Failures \union {"none"}]
      BY DEF Init, Kinds
    <3>4. response \in [Callers -> Responses \union {"none"}] /\ outcome \in [Callers -> Outcomes]
      BY DEF Init, Outcomes
    <3>5. QED
      BY <3>1, <3>2, <3>3, <3>4 DEF TypeOK
  <2>3. Init => \A c \in Callers : EffectOK(c)
    BY DEF Init, EffectOK
  <2>4. QED
    BY <2>2, <2>3 DEF IndInv
<1>2. IndInv /\ [Next]_vars => IndInv'
  <2>1. CASE UNCHANGED vars
    BY <2>1 DEF vars, IndInv, TypeOK, EffectOK
  <2>2. QED
    BY <2>1, StepInv DEF Next
<1>3. QED
  BY <1>1, <1>2, PTL DEF Spec
--------------------------------------------------------------------------------
(* The refinement of HcmCall.                                              *)
LEMMA ReturnRefines ==
  ASSUME IndInv, NEW c \in Callers, NEW o \in Outcomes \ {"none"}, Return(c, o),
         pc[c] # "idle", UNCHANGED <<kind, acted>>,
         o = "ok" => kind[c] = "read" \/ acted[c],
         o = "validation" => ~acted[c]
  PROVE  Promise!Return(c)
<1>1. {d \in Callers : pc'[d] # "idle"} = {d \in Callers : pc[d] # "idle"} \ {c}
  BY DEF Return, Goto, IndInv, TypeOK
<1>2. outcome' = [outcome EXCEPT ![c] = o]
  BY DEF Return
<1>3. QED
  BY <1>1, <1>2 DEF Promise!Return, Promise!Outcomes, Promise!Failures, Outcomes, Failures

LEMMA SleepRefines ==
  ASSUME IndInv, NEW c \in Callers, NEW e, Sleep(c, e), pc[c] # "idle",
         UNCHANGED <<kind, acted>>
  PROVE  UNCHANGED Promise!vars
<1>1. {d \in Callers : pc'[d] # "idle"} = {d \in Callers : pc[d] # "idle"}
  BY DEF Sleep, Goto, IndInv, TypeOK
<1>2. QED
  BY <1>1 DEF Sleep, Promise!vars

LEMMA ThrowRefines ==
  ASSUME IndInv, NEW c \in Callers, NEW e \in Failures, Throw(c, e), pc[c] # "idle",
         UNCHANGED <<kind, acted>>
  PROVE  Promise!Return(c) \/ UNCHANGED Promise!vars
BY SleepRefines, ReturnRefines DEF Throw, Outcomes, Failures

LEMMA MoveRefines ==
  ASSUME IndInv, NEW c \in Callers, NEW l, l # "idle", Goto(c, l), pc[c] # "idle"
  PROVE  {d \in Callers : pc'[d] # "idle"} = {d \in Callers : pc[d] # "idle"}
BY DEF Goto, IndInv, TypeOK

LEMMA StepRefines ==
  ASSUME IndInv, NEW c \in Callers, Call(c) \/ Step(c)
  PROVE  [Promise!Next]_Promise!vars
<1>1. CASE Call(c)
  <2>1. {d \in Callers : pc'[d] # "idle"} = {d \in Callers : pc[d] # "idle"} \union {c}
    BY <1>1 DEF Call, Goto, Authorized, IndInv, TypeOK
  <2>2. Promise!Call(c)
    BY <1>1, <2>1 DEF Call, Promise!Call, Kinds, Promise!Kinds
  <2>3. QED
    BY <2>2 DEF Promise!Next
<1>2. CASE Authorize(c)
  <2>1. pc[c] # "idle" /\ UNCHANGED <<kind, acted>>
    BY <1>2 DEF Authorize
  <2>2. ASSUME Goto(c, "send"), UNCHANGED outcome
        PROVE  UNCHANGED Promise!vars
    BY <2>1, <2>2, MoveRefines DEF Promise!vars
  <2>3. QED
    BY <1>2, <2>1, <2>2, ThrowRefines DEF Authorize, Promise!Next
<1>3. CASE Serve(c)
  <2>1. pc[c] = "send" /\ Goto(c, "reply") /\ UNCHANGED <<kind, outcome>>
    BY <1>3 DEF Serve
  <2>2. {d \in Callers : pc'[d] # "idle"} = {d \in Callers : pc[d] # "idle"}
    BY <2>1, MoveRefines
  <2>3. ~acted[c]
    BY <2>1 DEF IndInv, EffectOK
  <2>4. PICK done \in BOOLEAN : /\ done => kind[c] = "write"
                                /\ acted' = [acted EXCEPT ![c] = done]
    BY <1>3 DEF Serve
  <2>5. CASE done
    <3>1. Promise!Act(c)
      BY <2>1, <2>2, <2>3, <2>4, <2>5 DEF Promise!Act
    <3>2. QED
      BY <3>1 DEF Promise!Next
  <2>6. CASE ~done
    <3>1. acted' = acted
      BY <2>3, <2>4, <2>6 DEF IndInv, TypeOK
    <3>2. QED
      BY <2>1, <2>2, <3>1 DEF Promise!vars
  <2>7. QED
    BY <2>5, <2>6
<1>4. CASE Break(c)
  BY <1>4, ThrowRefines DEF Break, Failures, Promise!Next
<1>5. CASE Answered(c)
  <2>1. kind[c] = "read" \/ acted[c]
    BY <1>5 DEF Answered, IndInv, TypeOK, EffectOK, Kinds
  <2>2. Promise!Return(c)
    BY <1>5, <2>1, ReturnRefines DEF Answered, Outcomes
  <2>3. QED
    BY <2>2 DEF Promise!Next
<1>6. CASE Refused(c)
  <2>1. ~acted[c]
    BY <1>6 DEF Refused, IndInv, EffectOK
  <2>2. Promise!Return(c)
    BY <1>6, <2>1, ReturnRefines DEF Refused, Outcomes
  <2>3. QED
    BY <2>2 DEF Promise!Next
<1>7. CASE Unavailable(c)
  <2>1. pc[c] # "idle" /\ UNCHANGED <<kind, acted>>
    BY <1>7 DEF Unavailable
  <2>2. "unavailable" \in Failures /\ "unavailable" \in Outcomes \ {"none"}
    BY DEF Failures, Outcomes
  <2>3. QED
    BY <1>7, <2>1, <2>2, SleepRefines, ReturnRefines, ThrowRefines
       DEF Unavailable, Promise!Next
<1>8. CASE Wake(c)
  <2>1. pc[c] # "idle" /\ UNCHANGED <<kind, acted>>
    BY <1>8 DEF Wake
  <2>2. CASE attempt[c] + 1 < MaxRetries
    <3>1. Goto(c, Authorized) /\ UNCHANGED outcome /\ Authorized # "idle"
      BY <1>8, <2>2 DEF Wake, Authorized
    <3>2. QED
      BY <2>1, <3>1, MoveRefines DEF Promise!vars
  <2>3. CASE ~(attempt[c] + 1 < MaxRetries)
    <3>1. PICK e \in Failures : Return(c, e)
      BY <1>8, <2>3 DEF Wake, Failures, IndInv, TypeOK
    <3>2. Promise!Return(c)
      BY <2>1, <3>1, ReturnRefines DEF Outcomes, Failures
    <3>3. QED
      BY <3>2 DEF Promise!Next
  <2>4. QED
    BY <2>2, <2>3
<1>9. QED
  BY <1>1, <1>2, <1>3, <1>4, <1>5, <1>6, <1>7, <1>8 DEF Step

(* The client implements HcmCall: a call acts at most once, is refused     *)
(* only if it did not act, and answered only if it did.                    *)
THEOREM ClientIsTruthful == Spec => Truthful
<1>1. Init => Promise!Init
  BY DEF Init, Promise!Init
<1>2. IndInv /\ [Next]_vars => [Promise!Next]_Promise!vars
  <2>1. CASE UNCHANGED vars
    BY <2>1 DEF vars, Promise!vars
  <2>2. QED
    BY <2>1, StepRefines DEF Next
<1>3. QED
  BY <1>1, <1>2, IndInvariant, PTL DEF Spec, Truthful, Promise!Spec
--------------------------------------------------------------------------------
(* A reading call fails for a passing reason only at its last attempt.     *)
THEOREM PatientReads == Spec => ReadsArePatient
<1> DEFINE Patient == \A c \in Callers :
                        pc[c] # "idle" /\ kind[c] = "read" /\ outcome'[c] \in Failures
                          => attempt[c] = MaxRetries - 1
           Quiet == \A c \in Callers : pc[c] # "idle" => outcome[c] = "none"
<1>1. Init => Quiet
  BY DEF Init
<1>2. IndInv /\ Quiet /\ [Next]_vars => Quiet'
  <2> SUFFICES ASSUME IndInv, Quiet, [Next]_vars PROVE Quiet'
    OBVIOUS
  <2>1. CASE UNCHANGED vars
    BY <2>1 DEF vars
  <2>2. ASSUME NEW c \in Callers, Call(c) \/ Step(c) PROVE Quiet'
    BY <2>2 DEF Call, Step, Authorize, Serve, Break, Answered, Refused, Unavailable, Wake,
                Throw, Sleep, Return, Goto, IndInv, TypeOK
  <2>3. QED
    BY <2>1, <2>2 DEF Next
<1>3. IndInv /\ Quiet /\ [Next]_vars => [Patient]_<<pc, outcome>>
  <2> SUFFICES ASSUME IndInv, Quiet, [Next]_vars PROVE Patient \/ UNCHANGED <<pc, outcome>>
    OBVIOUS
  <2>1. CASE UNCHANGED vars
    BY <2>1 DEF vars
  <2>2. ASSUME NEW c \in Callers, Call(c) \/ Step(c) PROVE Patient
    <3>1. \A d \in Callers \ {c} : outcome'[d] = outcome[d]
      BY <2>2 DEF Call, Step, Authorize, Serve, Break, Answered, Refused, Unavailable, Wake,
                  Throw, Sleep, Return, IndInv, TypeOK
    <3>2. pc[c] # "idle" /\ kind[c] = "read" /\ outcome'[c] \in Failures
            => attempt[c] = MaxRetries - 1
      BY <2>2, RetriesAssumption
         DEF Call, Step, Authorize, Serve, Break, Answered, Refused, Unavailable, Wake,
             Throw, Sleep, Return, IndInv, TypeOK, Failures
    <3>3. QED
      BY <3>1, <3>2 DEF Failures
  <2>3. QED
    BY <2>1, <2>2 DEF Next
<1>4. QED
  BY <1>1, <1>2, <1>3, IndInvariant, PTL DEF Spec, ReadsArePatient
================================================================================
