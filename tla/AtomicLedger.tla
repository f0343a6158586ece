------------------------------ MODULE AtomicLedger ------------------------------
(***************************************************************************)
(* What appendLedgerEntry promises its callers: an indivisible put-if-     *)
(* absent.  A call with an idempotency key answers with the row that bears *)
(* the key and writes one if there is none; a call without a key always    *)
(* writes.  A call may fail, and then it has written nothing.              *)
(*                                                                         *)
(* LeaveWorkflow and TimeOffSync rely on this promise: to them an append   *)
(* is one step.                                                            *)
(***************************************************************************)
EXTENDS Naturals, Sequences

CONSTANTS Callers, Keys, NoKey, Amounts, NoEntry

VARIABLES
  rows,     \* the rows of leave_balance_ledger, in the order they were written
  asked,    \* the entry each caller is waiting to see in the ledger
  answer    \* index in rows of the row its last call returned, 0 if it threw

Entry == [key : Keys \union {NoKey}, amount : Amounts]

(* The rows that stand for an entry already. *)
Twins(e) == {n \in DOMAIN rows : e.key # NoKey /\ rows[n].key = e.key}

Init == /\ rows = <<>>
        /\ asked = [c \in Callers |-> NoEntry]
        /\ answer = [c \in Callers |-> 0]

Call(c) == /\ asked[c] = NoEntry
           /\ \E e \in Entry : asked' = [asked EXCEPT ![c] = e]
           /\ answer' = [answer EXCEPT ![c] = 0]
           /\ UNCHANGED rows

Put(c) == /\ asked[c] # NoEntry
          /\ \/ \E n \in Twins(asked[c]) : /\ answer' = [answer EXCEPT ![c] = n]
                                           /\ UNCHANGED rows
             \/ /\ Twins(asked[c]) = {}
                /\ rows' = Append(rows, asked[c])
                /\ answer' = [answer EXCEPT ![c] = Len(rows) + 1]
          /\ asked' = [asked EXCEPT ![c] = NoEntry]

Fail(c) == /\ asked[c] # NoEntry
           /\ asked' = [asked EXCEPT ![c] = NoEntry]
           /\ UNCHANGED <<rows, answer>>

Next == \E c \in Callers : Call(c) \/ Put(c) \/ Fail(c)

Spec == Init /\ [][Next]_<<rows, asked, answer>>
================================================================================
