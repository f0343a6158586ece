------------------------------ MODULE LedgerAppend ------------------------------
(***************************************************************************)
(* appendLedgerEntry (ledger.service.ts) as the code runs it: a lookup by  *)
(* idempotency key, an insert that the unique index of the schema may      *)
(* refuse, and a second lookup.  Any caller may run between two of them.   *)
(* It implements AtomicLedger.                                             *)
(***************************************************************************)
EXTENDS Naturals, Sequences

CONSTANTS
  Callers,   \* concurrent calls of appendLedgerEntry
  Keys,      \* idempotency keys
  NoKey,     \* the key of a call that passes none
  Amounts,   \* amounts booked
  NoEntry,   \* a caller asks for nothing
  MaxRows    \* bound on the rows of the ledger

Entry == [key : Keys \union {NoKey}, amount : Amounts]

ASSUME KeysAssumption == NoKey \notin Keys
ASSUME EntryAssumption == NoEntry \notin Entry
ASSUME RowsAssumption == MaxRows \in Nat

VARIABLES rows, asked, answer,
          pc   \* the awaited call each caller is at

vars == <<rows, asked, answer, pc>>

Twins(e) == {n \in DOMAIN rows : e.key # NoKey /\ rows[n].key = e.key}

Init == /\ rows = <<>>
        /\ asked = [c \in Callers |-> NoEntry]
        /\ answer = [c \in Callers |-> 0]
        /\ pc = [c \in Callers |-> "idle"]

Goto(c, label) == pc' = [pc EXCEPT ![c] = label]

Return(c, n) == /\ answer' = [answer EXCEPT ![c] = n]
                /\ asked' = [asked EXCEPT ![c] = NoEntry]
                /\ Goto(c, "idle")

(* Mutated form of Insert: the unique index on the key is missing. *)
MutInsert(c) == /\ pc[c] = "insert"
                /\ Len(rows) < MaxRows
                /\ rows' = Append(rows, asked[c])
                /\ Return(c, Len(rows) + 1)

(* Mutated form of Refind: the entry that lost the race is written over    *)
(* the one that won.                                                       *)
MutRefind(c) == /\ pc[c] = "refind"
                /\ \E n \in Twins(asked[c]) : /\ rows' = [rows EXCEPT ![n] = asked[c]]
                                              /\ Return(c, n)

(* Mutated form of Throw: the failed insert is believed to be done. *)
MutThrow(c) == /\ pc[c] # "idle"
               /\ Return(c, Len(rows))
               /\ UNCHANGED rows

Call(c) == /\ pc[c] = "idle"
           /\ \E e \in Entry : /\ asked' = [asked EXCEPT ![c] = e]
                               /\ Goto(c, IF e.key = NoKey THEN "insert" ELSE "find")
           /\ answer' = [answer EXCEPT ![c] = 0]
           /\ UNCHANGED rows

Find(c) == /\ pc[c] = "find"
           /\ \/ \E n \in Twins(asked[c]) : Return(c, n)
              \/ /\ Twins(asked[c]) = {}
                 /\ Goto(c, "insert")
                 /\ UNCHANGED <<asked, answer>>
           /\ UNCHANGED rows

(* create: the unique index refuses a second row with the same key (P2002).*)
Insert(c) == /\ pc[c] = "insert"
             /\ \/ /\ Twins(asked[c]) = {}
                   /\ Len(rows) < MaxRows
                   /\ rows' = Append(rows, asked[c])
                   /\ Return(c, Len(rows) + 1)
                \/ /\ Twins(asked[c]) # {}
                   /\ Goto(c, "refind")
                   /\ UNCHANGED <<rows, asked, answer>>

(* The winner of the race is found: rows are never deleted.                *)
Refind(c) == /\ pc[c] = "refind"
             /\ \E n \in Twins(asked[c]) : Return(c, n)
             /\ UNCHANGED rows

(* Any of the three database calls may throw.                              *)
Throw(c) == /\ pc[c] # "idle"
            /\ Return(c, 0)
            /\ UNCHANGED rows

Next == \E c \in Callers : Call(c) \/ Find(c) \/ Insert(c) \/ Refind(c) \/ Throw(c)

Spec == Init /\ [][Next]_vars
--------------------------------------------------------------------------------
TypeOK == /\ rows \in Seq(Entry)
          /\ asked \in [Callers -> Entry \union {NoEntry}]
          /\ answer \in [Callers -> Nat]
          /\ pc \in [Callers -> {"idle", "find", "insert", "refind"}]

(* What the unique index keeps of the rows.                                *)
CountedOnce == \A m, n \in DOMAIN rows :
                 rows[m].key = rows[n].key /\ rows[m].key # NoKey => m = n

(* What the callers rely on between two awaits.                            *)
WaitInv == \A c \in Callers : /\ pc[c] = "idle" <=> asked[c] = NoEntry
                              /\ pc[c] = "find" => asked[c].key # NoKey
                              /\ pc[c] = "refind" => Twins(asked[c]) # {}
                              /\ pc[c] # "idle" => answer[c] = 0

IndInv == TypeOK /\ CountedOnce /\ WaitInv

(* Rows are only added: neither a retry nor a lost race changes a booking. *)
AppendOnly == [][/\ Len(rows') >= Len(rows)
                 /\ SubSeq(rows', 1, Len(rows)) = rows]_rows

(* Three database calls look like one indivisible put-if-absent.           *)
Promise == INSTANCE AtomicLedger
Atomic == Promise!Spec
================================================================================
