----------------------------- MODULE RequestTerms -----------------------------
(***************************************************************************)
(* What a leave request says: its dates and duration, from createLeave-    *)
(* Request over concurrent runs of updateLeaveRequest to the entries an    *)
(* approval or the retry job posts to HCM.                                 *)
(*                                                                         *)
(* Create is a single action, as LeaveWorkflow has the interleavings of    *)
(* createLeaveRequest; an edit is modelled call by call.  The holidays are *)
(* read again by each of them and by a post; someone may change them.      *)
(***************************************************************************)
EXTENDS PolicyEngine, FiniteSetsExt

CONSTANTS
  Editors,     \* concurrent updateLeaveRequest handlers
  Dates,       \* days a client asks for
  Hours,       \* partialDayHours of clients
  Locations,   \* locations of employees
  Calendars,   \* possible tables of active holidays
  Policies,    \* active policies of the leave type
  Department,  \* the employee's
  Busy         \* the employee's other active requests

ASSUME DatesAssumption == Dates \subseteq Int /\ Busy \subseteq [start : Int, end : Int]

Terms == [start : Dates, end : Dates, partial : {"NONE", "HALF", "HOURS"},
          hours : Hours, location : Locations \union {Anywhere}]
Blank == [start |-> 0, end |-> 0, partial |-> "NONE", hours |-> 0, location |-> Anywhere]

VARIABLES
  holidays,    \* the table of holidays
  tables,      \* every table there has been
  status,      \* LeaveRequest.status
  terms,       \* its dates, partial day and location
  duration,    \* its durationDays
  documented,  \* was documentationProvided?
  posted,      \* the entries of the last post
  pc,          \* what each edit awaits
  draft,       \* the terms it is going to write
  price        \* the duration it is going to write

request == <<status, terms, duration, documented>>
edits == <<pc, draft, price>>
vars == <<holidays, tables, request, posted, edits>>

Init ==
  /\ holidays \in Calendars
  /\ tables = {holidays}
  /\ status = "none"
  /\ terms = Blank
  /\ duration = 0
  /\ documented = FALSE
  /\ posted = {}
  /\ pc = [e \in Editors |-> "idle"]
  /\ draft = [e \in Editors |-> Blank]
  /\ price = [e \in Editors |-> 0]
--------------------------------------------------------------------------------
(* With no policy for the employee nothing is asked of the request. *)
PolicyAllows(t, cost, document) ==
  LET fitting == ResolvePolicy(Policies, Department, t.location)
  IN  \/ fitting = {}
      \/ \E p \in fitting : p.eligible /\ (RequiresDocumentation(p, cost) => document)

Overlapping(t) == \E b \in Busy : DatesOverlap(t, b)

Create ==
  /\ status = "none"
  /\ \E t \in Terms, document \in BOOLEAN, s \in {"DRAFT", "PENDING"} :
       /\ Accepted(t, holidays)
       /\ PolicyAllows(t, ComputeDuration(t, holidays), document)
       /\ ~Overlapping(t)
       /\ status' = s
       /\ terms' = t
       /\ duration' = ComputeDuration(t, holidays)
       /\ documented' = document
  /\ UNCHANGED <<holidays, tables, posted, edits>>

Goto(e, label) == pc' = [pc EXCEPT ![e] = label]

End(e) ==
  /\ Goto(e, "idle")
  /\ draft' = [draft EXCEPT ![e] = Blank]
  /\ price' = [price EXCEPT ![e] = 0]

(* Mutated form of BeginEdit: the status is not looked at. *)
MutBeginEdit(e) ==
  /\ pc[e] = "idle"
  /\ status # "none"
  /\ \E t \in Terms : draft' = [draft EXCEPT ![e] = t]
  /\ Goto(e, "holidays")
  /\ UNCHANGED <<holidays, tables, request, posted, price>>

(* The client changes any of the terms; what it leaves out the handler     *)
(* takes from the request it has read.                                     *)
BeginEdit(e) ==
  /\ pc[e] = "idle"
  /\ status = "DRAFT"
  /\ \E t \in Terms : draft' = [draft EXCEPT ![e] = t]
  /\ Goto(e, "holidays")
  /\ UNCHANGED <<holidays, tables, request, posted, price>>

ReadHolidays(e) ==
  /\ pc[e] = "holidays"
  /\ IF Accepted(draft[e], holidays)
     THEN /\ price' = [price EXCEPT ![e] = ComputeDuration(draft[e], holidays)]
          /\ Goto(e, "overlap")
          /\ UNCHANGED draft
     ELSE End(e)
  /\ UNCHANGED <<holidays, tables, request, posted>>

CheckOverlap(e) ==
  /\ pc[e] = "overlap"
  /\ IF Overlapping(draft[e]) THEN End(e) ELSE Goto(e, "save") /\ UNCHANGED <<draft, price>>
  /\ UNCHANGED <<holidays, tables, request, posted>>

(* Mutated form of Save: of the dates only the end is written.             *)
MutSave(e) ==
  /\ pc[e] = "save"
  /\ terms' = [terms EXCEPT !.end = draft[e].end]
  /\ duration' = price[e]
  /\ End(e)
  /\ UNCHANGED <<holidays, tables, status, documented, posted>>

(* By id, whatever the status is by now. *)
Save(e) ==
  /\ pc[e] = "save"
  /\ terms' = draft[e]
  /\ duration' = price[e]
  /\ End(e)
  /\ UNCHANGED <<holidays, tables, status, documented, posted>>

(* A call of an edit fails. *)
EditFails(e) ==
  /\ pc[e] # "idle"
  /\ End(e)
  /\ UNCHANGED <<holidays, tables, request, posted>>

(* What else a cancellation does is in LeaveWorkflow. *)
Cancel ==
  /\ status \in {"DRAFT", "PENDING"}
  /\ status' = "CANCELLED"
  /\ UNCHANGED <<holidays, tables, terms, duration, documented, posted, edits>>

(* An approval, or the job, builds the entries it posts; it may do so      *)
(* again.  The post itself is in LeaveWorkflow.                            *)
Post ==
  /\ status = "PENDING"
  /\ posted' = BuildHcmTimeOffDays(terms, duration, holidays)
  /\ UNCHANGED <<holidays, tables, request, edits>>

(* Someone changes the table of holidays. *)
Amend ==
  /\ holidays' \in Calendars
  /\ tables' = tables \union {holidays'}
  /\ UNCHANGED <<request, posted, edits>>

Next ==
  \/ Create \/ Cancel \/ Post \/ Amend
  \/ \E e \in Editors : \/ BeginEdit(e) \/ ReadHolidays(e) \/ CheckOverlap(e)
                        \/ Save(e) \/ EditFails(e)

Spec == Init /\ [][Next]_vars
--------------------------------------------------------------------------------
TypeOK ==
  /\ holidays \in Calendars
  /\ tables \subseteq Calendars
  /\ status \in {"none", "DRAFT", "PENDING", "CANCELLED"}
  /\ terms \in Terms \union {Blank}
  /\ documented \in BOOLEAN
  /\ pc \in [Editors -> {"idle", "holidays", "overlap", "save"}]
  /\ draft \in [Editors -> Terms \union {Blank}]
  /\ DOMAIN price = Editors

(* t lasts d under a table there has been. *)
Lasts(t, d) == \E h \in tables : Accepted(t, h) /\ d = ComputeDuration(t, h)

IndInv ==
  /\ TypeOK
  /\ holidays \in tables
  /\ status = "none" => terms = Blank /\ posted = {}
  /\ status = "none" => \A e \in Editors : pc[e] = "idle"
  /\ status # "none" => terms \in Terms /\ Lasts(terms, duration)
  /\ status = "PENDING" => \A e \in Editors : pc[e] = "idle"
  /\ status # "none" => ~Overlapping(terms)
  /\ \A e \in Editors :
       /\ pc[e] # "idle" => draft[e] \in Terms
       /\ pc[e] \in {"overlap", "save"} => Lasts(draft[e], price[e])
       /\ pc[e] = "save" => ~Overlapping(draft[e])

(* However edits overlap, the duration of a request is that of its own     *)
(* dates, under a table of holidays there has been: an edit writes all     *)
(* of the terms it has read.                                               *)
DurationFits == status # "none" => Lasts(terms, duration)

(* However edits overlap, a request never comes to share a day with one    *)
(* that was active before: what the code has two comparisons for.          *)
SharesNoDay ==
  status # "none" =>
    \A b \in Busy : (terms.start..terms.end) \intersect (b.start..b.end) = {}

(* A request that waits for its approval is not changed any more, not even *)
(* by an edit that began earlier.                                          *)
PendingIsFrozen == [][status = "PENDING" => UNCHANGED <<terms, duration>>]_vars

(* What is posted to HCM adds up to what the ledger charges, as long as    *)
(* nobody has changed the holidays in between.                             *)
PostMatchesCharge ==
  posted # {} /\ tables = {holidays} =>
    MapThenSumSet(LAMBDA day : day.quantity, posted) = duration

(* docs/spec.md: "business days between start/end minus holidays (per      *)
(* employee location)".  For a request that names its location; another    *)
(* one loses the holidays of every place.                                  *)
SpecDays(t, h) ==
  {d \in t.start..t.end :
     d % 7 \notin {5, 6} /\ \A x \in h : x.date = d => x.location \notin {t.location, Anywhere}}

DurationAsSpecified ==
  status # "none" /\ terms.partial = "NONE" /\ terms.location # Anywhere /\ tables = {holidays} =>
    duration = FullDay * Cardinality(SpecDays(terms, holidays))

(* p is for all that q is for, and for something narrower. *)
Narrower(p, q) ==
  /\ p # q
  /\ \A scope \in {"location", "department", "employmentType"} :
       q[scope] # Anywhere => p[scope] # Anywhere
  /\ \E scope \in {"location", "department", "employmentType"} :
       q[scope] = Anywhere /\ p[scope] # Anywhere

(* docs/spec.md: "most specific match wins".  A submitted request has the  *)
(* document that the narrowest policies for the employee all demand.       *)
DocumentedAsDemanded ==
  LET fitting == Candidates(Policies, Department, terms.location)
      narrowest == {p \in fitting : \A q \in fitting : ~Narrower(q, p)}
  IN  status = "PENDING" /\ narrowest # {} =>
        \E p \in narrowest : RequiresDocumentation(p, duration) => documented
================================================================================
