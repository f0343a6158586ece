--------------------------- MODULE LedgerAppendProofs ---------------------------
(* Proofs about LedgerAppend, for any callers, keys, amounts and bound. *)
EXTENDS LedgerAppend, TLAPS

LEMMA IndInit == Init => IndInv
  BY DEF Init, IndInv, TypeOK, CountedOnce, WaitInv, Twins

(* Rows are only added, so a row found once is found again.                *)
LEMMA TwinsKept ==
  ASSUME NEW c \in Callers, NEW e, rows \in Seq(Entry),
         rows' = rows \/ (asked[c] \in Entry /\ rows' = Append(rows, asked[c])),
         Twins(e) # {}
  PROVE  Twins(e)' # {}
  BY DEF Twins

LEMMA IndNext == IndInv /\ [Next]_vars => IndInv'
<1> SUFFICES ASSUME IndInv, [Next]_vars PROVE IndInv'
  OBVIOUS
<1> USE DEF IndInv, TypeOK, WaitInv
<1>1. ASSUME NEW c \in Callers, Call(c) PROVE IndInv'
  <2>1. PICK e \in Entry : /\ asked' = [asked EXCEPT ![c] = e]
                           /\ Goto(c, IF e.key = NoKey THEN "insert" ELSE "find")
    BY <1>1 DEF Call
  <2>2. TypeOK' /\ CountedOnce'
    BY <1>1, <2>1 DEF Call, Goto, CountedOnce
  <2>3. WaitInv'
    BY <1>1, <2>1, EntryAssumption DEF Call, Goto, Twins
  <2>4. QED
    BY <2>2, <2>3
<1>2. ASSUME NEW c \in Callers, Find(c) PROVE IndInv'
  <2>1. CountedOnce' /\ rows' = rows
    BY <1>2 DEF Find, CountedOnce
  <2>2. \A n \in Twins(asked[c]) : n \in Nat
    BY DEF Twins
  <2>3. TypeOK'
    BY <1>2, <2>1, <2>2 DEF Find, Return, Goto
  <2>4. WaitInv'
    BY <1>2, EntryAssumption DEF Find, Return, Goto, Twins
  <2>5. QED
    BY <2>1, <2>3, <2>4
<1>3. ASSUME NEW c \in Callers, Insert(c) PROVE IndInv'
  <2>1. asked[c] \in Entry
    BY <1>3 DEF Insert
  <2>2. CASE Twins(asked[c]) = {}
    <3>1. /\ rows' = Append(rows, asked[c])
          /\ Return(c, Len(rows) + 1)
      BY <1>3, <2>2 DEF Insert
    <3>2. TypeOK'
      BY <2>1, <3>1 DEF Return, Goto
    <3>3. CountedOnce'
      BY <2>1, <2>2, <3>1 DEF CountedOnce, Twins
    <3>4. WaitInv'
      BY <2>1, <3>1, TwinsKept, EntryAssumption DEF Return, Goto
    <3>5. QED
      BY <3>2, <3>3, <3>4
  <2>3. CASE Twins(asked[c]) # {}
    BY <1>3, <2>3 DEF Insert, Goto, Twins, CountedOnce
  <2>4. QED
    BY <2>2, <2>3
<1>4. ASSUME NEW c \in Callers, Refind(c) PROVE IndInv'
  BY <1>4, EntryAssumption DEF Refind, Return, Goto, Twins, CountedOnce
<1>5. ASSUME NEW c \in Callers, Throw(c) PROVE IndInv'
  BY <1>5, EntryAssumption DEF Throw, Return, Goto, Twins, CountedOnce
<1>6. CASE UNCHANGED vars
  BY <1>6 DEF vars, CountedOnce, Twins
<1>7. QED
  BY <1>1, <1>2, <1>3, <1>4, <1>5, <1>6 DEF Next

THEOREM IndInvariant == Spec => []IndInv
  BY IndInit, IndNext, PTL DEF Spec

(* No step changes or removes a row.                                       *)
THEOREM LedgerIsAppendOnly == Spec => AppendOnly
<1>1. ASSUME IndInv, [Next]_vars
      PROVE  [/\ Len(rows') >= Len(rows)
              /\ SubSeq(rows', 1, Len(rows)) = rows]_rows
  <2>1. UNCHANGED rows \/ \E c \in Callers : asked[c] \in Entry /\ rows' = Append(rows, asked[c])
    BY <1>1 DEF Next, Call, Find, Insert, Refind, Throw, vars, IndInv, TypeOK, WaitInv
  <2>2. rows \in Seq(Entry)
    BY <1>1 DEF IndInv, TypeOK
  <2>3. QED
    BY <2>1, <2>2
<1>2. QED
  BY <1>1, IndInvariant, PTL DEF Spec, AppendOnly

(* appendLedgerEntry implements the atomic put-if-absent.                  *)
LEMMA StepSimulates ==
  ASSUME IndInv, [Next]_vars
  PROVE  [Promise!Next]_<<rows, asked, answer>>
<1> USE DEF IndInv, TypeOK, WaitInv, Promise!Next, Promise!Twins, Twins, Promise!Entry, Entry
<1>1. ASSUME NEW c \in Callers, Call(c) PROVE Promise!Call(c)
  BY <1>1 DEF Call, Promise!Call
<1>2. ASSUME NEW c \in Callers, Find(c) PROVE Promise!Put(c) \/ UNCHANGED <<rows, asked, answer>>
  BY <1>2 DEF Find, Return, Promise!Put
<1>3. ASSUME NEW c \in Callers, Insert(c) PROVE Promise!Put(c) \/ UNCHANGED <<rows, asked, answer>>
  BY <1>3 DEF Insert, Return, Promise!Put
<1>4. ASSUME NEW c \in Callers, Refind(c) PROVE Promise!Put(c)
  BY <1>4 DEF Refind, Return, Promise!Put
<1>5. ASSUME NEW c \in Callers, Throw(c) PROVE Promise!Fail(c)
  <2>1. answer' = answer
    BY <1>5 DEF Throw, Return
  <2>2. QED
    BY <1>5, <2>1 DEF Throw, Return, Promise!Fail
<1>6. QED
  BY <1>1, <1>2, <1>3, <1>4, <1>5 DEF Next, vars

THEOREM AppendIsAtomic == Spec => Atomic
<1>1. Init => Promise!Init
  BY DEF Init, Promise!Init
<1>2. QED
  BY <1>1, StepSimulates, IndInvariant, PTL DEF Spec, Atomic, Promise!Spec
================================================================================
