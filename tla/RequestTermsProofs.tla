-------------------------- MODULE RequestTermsProofs --------------------------
(***************************************************************************)
(* Proofs about RequestTerms, for any dates, tables of holidays, policies  *)
(* and number of concurrent edits, and in either time zone.                *)
(***************************************************************************)
EXTENDS RequestTerms, FiniteSetTheorems, TLAPS

(* The two comparisons of datesOverlap, and of the query that looks for    *)
(* overlapping requests, say what they are meant to say.                   *)
LEMMA OverlapIsASharedDay ==
  ASSUME NEW a, NEW b,
         a.start \in Int, a.end \in Int, b.start \in Int, b.end \in Int,
         a.start <= a.end, b.start <= b.end
  PROVE  DatesOverlap(a, b) <=> (a.start..a.end) \intersect (b.start..b.end) # {}
<1>1. ASSUME DatesOverlap(a, b)
      PROVE  (a.start..a.end) \intersect (b.start..b.end) # {}
  <2>1. CASE a.start <= b.start
    <3>1. b.start \in (a.start..a.end) \intersect (b.start..b.end)
      BY <1>1, <2>1 DEF DatesOverlap
    <3> QED BY <3>1
  <2>2. CASE b.start <= a.start
    <3>1. a.start \in (a.start..a.end) \intersect (b.start..b.end)
      BY <1>1, <2>2 DEF DatesOverlap
    <3> QED BY <3>1
  <2> QED BY <2>1, <2>2
<1>2. ASSUME NEW d \in (a.start..a.end) \intersect (b.start..b.end)
      PROVE  DatesOverlap(a, b)
  BY <1>2 DEF DatesOverlap
<1> QED BY <1>1, <1>2

(* A table there has been stays one. *)
LEMMA LastsStays ==
  ASSUME tables \subseteq tables', NEW t, NEW d, Lasts(t, d)
  PROVE  \E h \in tables' : Accepted(t, h) /\ d = ComputeDuration(t, h)
BY DEF Lasts

LEMMA InitHolds == Init => IndInv
<1> SUFFICES ASSUME Init PROVE IndInv
  OBVIOUS
<1>1. TypeOK BY DEF Init, TypeOK
<1>2. \A e \in Editors : pc[e] = "idle" BY DEF Init
<1> QED BY <1>1, <1>2 DEF Init, IndInv

LEMMA CreateHolds == IndInv /\ Create => IndInv'
<1> SUFFICES ASSUME IndInv, Create PROVE IndInv'
  OBVIOUS
<1> USE DEF IndInv
<1>1. PICK t \in Terms, document \in BOOLEAN, s \in {"DRAFT", "PENDING"} :
        /\ Accepted(t, holidays) /\ ~Overlapping(t)
        /\ status' = s /\ terms' = t /\ documented' = document
        /\ duration' = ComputeDuration(t, holidays)
  BY DEF Create
<1>2. status = "none" /\ UNCHANGED <<holidays, tables, posted, pc, draft, price>>
  BY DEF Create, edits
<1>3. TypeOK' BY <1>1, <1>2 DEF TypeOK
<1>4. Lasts(terms, duration)' BY <1>1, <1>2 DEF Lasts
<1>5. ~Overlapping(terms)' BY <1>1 DEF Overlapping
<1>6. \A e \in Editors : pc'[e] = "idle" BY <1>2
<1> QED BY <1>1, <1>2, <1>3, <1>4, <1>5, <1>6

(* What an edit that begins, goes on or ends does to its own record, and   *)
(* what it leaves alone.                                                   *)
LEMMA EditHolds ==
  ASSUME IndInv, NEW e \in Editors,
         UNCHANGED <<holidays, tables, status, posted, documented>>,
         NEW l \in {"idle", "holidays", "overlap", "save"}, pc' = [pc EXCEPT ![e] = l],
         NEW t \in Terms \union {Blank}, draft' = [draft EXCEPT ![e] = t],
         NEW p, DOMAIN price' = Editors,
         \A o \in Editors : price'[o] = IF o = e THEN p ELSE price[o],
         l # "idle" => t \in Terms,
         l \in {"overlap", "save"} => Lasts(t, p),
         l = "save" => ~Overlapping(t),
         l # "idle" => status \notin {"none", "PENDING"},
         \/ UNCHANGED <<terms, duration>>
         \/ /\ terms' \in Terms /\ ~Overlapping(terms') /\ Lasts(terms', duration')
            /\ status \notin {"none", "PENDING"}
  PROVE  IndInv'
<1> USE DEF IndInv
<1>1. TypeOK' BY DEF TypeOK
<1>2. (status # "none" => terms \in Terms /\ Lasts(terms, duration) /\ ~Overlapping(terms))'
  BY DEF Lasts, Overlapping
<1>3. ASSUME NEW o \in Editors
      PROVE  /\ pc'[o] # "idle" => draft'[o] \in Terms
             /\ pc'[o] \in {"overlap", "save"} => Lasts(draft[o], price[o])'
             /\ pc'[o] = "save" => ~Overlapping(draft[o])'
  <2>1. CASE o = e
    <3>1. pc'[o] = l /\ draft'[o] = t /\ price'[o] = p BY <2>1 DEF TypeOK
    <3> QED BY <3>1 DEF Lasts, Overlapping
  <2>2. CASE o # e
    <3>1. pc'[o] = pc[o] /\ draft'[o] = draft[o] /\ price'[o] = price[o]
      BY <2>2 DEF TypeOK
    <3> QED BY <3>1 DEF Lasts, Overlapping
  <2> QED BY <2>1, <2>2
<1>4. status \in {"none", "PENDING"} => \A o \in Editors : pc'[o] = "idle"
  BY DEF TypeOK
<1> QED BY <1>1, <1>2, <1>3, <1>4

LEMMA EndHolds ==
  ASSUME IndInv, NEW e \in Editors, End(e),
         UNCHANGED <<holidays, tables, status, posted, documented>>,
         \/ UNCHANGED <<terms, duration>>
         \/ /\ terms' \in Terms /\ ~Overlapping(terms') /\ Lasts(terms', duration')
            /\ status \notin {"none", "PENDING"}
  PROVE  IndInv'
<1>1. /\ DOMAIN price' = Editors
      /\ \A o \in Editors : price'[o] = IF o = e THEN 0 ELSE price[o]
  BY DEF End, IndInv, TypeOK
<1> QED BY <1>1, EditHolds DEF End, Goto

LEMMA StepHolds == IndInv /\ [Next]_vars => IndInv'
<1> SUFFICES ASSUME IndInv, [Next]_vars PROVE IndInv'
  OBVIOUS
<1>1. CASE Create BY <1>1, CreateHolds
<1>2. CASE Cancel
  <2> USE <1>2 DEF IndInv, Cancel, edits
  <2>1. TypeOK' BY DEF TypeOK
  <2>2. Lasts(terms, duration)' /\ ~Overlapping(terms)' BY DEF Lasts, Overlapping
  <2>3. \A e \in Editors : /\ pc'[e] \in {"overlap", "save"} => Lasts(draft[e], price[e])'
                           /\ pc'[e] = "save" => ~Overlapping(draft[e])'
    BY DEF Lasts, Overlapping
  <2> QED BY <2>1, <2>2, <2>3
<1>3. CASE Post
  <2> USE <1>3 DEF IndInv, Post, edits, request
  <2>1. TypeOK' BY DEF TypeOK
  <2>2. Lasts(terms, duration)' /\ ~Overlapping(terms)' BY DEF Lasts, Overlapping
  <2>3. \A e \in Editors : pc'[e] = "idle" OBVIOUS
  <2> QED BY <2>1, <2>2, <2>3
<1>4. CASE Amend
  <2> USE <1>4 DEF IndInv, Amend, edits, request
  <2>1. TypeOK' BY DEF TypeOK
  <2>2. tables \subseteq tables' /\ holidays' \in tables' OBVIOUS
  <2>3. status' # "none" => Lasts(terms, duration)' /\ ~Overlapping(terms)'
    BY <2>2, LastsStays DEF Lasts, Overlapping
  <2>4. \A e \in Editors : /\ pc'[e] \in {"overlap", "save"} => Lasts(draft[e], price[e])'
                           /\ pc'[e] = "save" => ~Overlapping(draft[e])'
    BY <2>2, LastsStays DEF Lasts, Overlapping
  <2> QED BY <2>1, <2>2, <2>3, <2>4
<1>5. ASSUME NEW e \in Editors, BeginEdit(e) PROVE IndInv'
  <2>1. PICK t \in Terms : draft' = [draft EXCEPT ![e] = t] BY <1>5 DEF BeginEdit
  <2>2. /\ pc' = [pc EXCEPT ![e] = "holidays"] /\ status = "DRAFT"
        /\ UNCHANGED <<holidays, tables, status, posted, documented, terms, duration>>
    BY <1>5 DEF BeginEdit, Goto, request
  <2>3. DOMAIN price' = Editors /\ \A o \in Editors : price'[o] = IF o = e THEN price[e] ELSE price[o]
    BY <1>5 DEF BeginEdit, IndInv, TypeOK
  <2> QED BY <2>1, <2>2, <2>3, EditHolds
<1>6. ASSUME NEW e \in Editors, ReadHolidays(e) PROVE IndInv'
  <2>1. CASE Accepted(draft[e], holidays)
    <3>1. Lasts(draft[e], ComputeDuration(draft[e], holidays))
      BY <2>1 DEF IndInv, Lasts
    <3>2. draft' = [draft EXCEPT ![e] = draft[e]]
      BY <1>6, <2>1 DEF ReadHolidays, IndInv, TypeOK
    <3>3. draft[e] \in Terms /\ status \notin {"none", "PENDING"}
      BY <1>6 DEF ReadHolidays, IndInv
    <3>4. /\ DOMAIN price' = Editors
          /\ \A o \in Editors : price'[o] = IF o = e THEN ComputeDuration(draft[e], holidays)
                                                    ELSE price[o]
      BY <1>6, <2>1 DEF ReadHolidays, IndInv, TypeOK
    <3>5. /\ pc' = [pc EXCEPT ![e] = "overlap"]
          /\ UNCHANGED <<holidays, tables, status, posted, documented, terms, duration>>
      BY <1>6, <2>1 DEF ReadHolidays, Goto, request
    <3> QED BY <3>1, <3>2, <3>3, <3>4, <3>5, EditHolds
  <2>2. CASE ~Accepted(draft[e], holidays)
    BY <1>6, <2>2, EndHolds DEF ReadHolidays, request
  <2> QED BY <2>1, <2>2
<1>7. ASSUME NEW e \in Editors, CheckOverlap(e) PROVE IndInv'
  <2>1. CASE Overlapping(draft[e])
    BY <1>7, <2>1, EndHolds DEF CheckOverlap, request
  <2>2. CASE ~Overlapping(draft[e])
    <3>1. draft' = [draft EXCEPT ![e] = draft[e]] /\ price' = price /\ DOMAIN price = Editors
      BY <1>7, <2>2 DEF CheckOverlap, IndInv, TypeOK
    <3>2. draft[e] \in Terms /\ status \notin {"none", "PENDING"} /\ Lasts(draft[e], price[e])
      BY <1>7 DEF CheckOverlap, IndInv
    <3>3. /\ pc' = [pc EXCEPT ![e] = "save"]
          /\ UNCHANGED <<holidays, tables, status, posted, documented, terms, duration>>
      BY <1>7, <2>2 DEF CheckOverlap, Goto, request
    <3>4. \A o \in Editors : price'[o] = IF o = e THEN price[e] ELSE price[o]
      BY <3>1
    <3> QED BY <2>2, <3>1, <3>2, <3>3, <3>4, EditHolds
  <2> QED BY <2>1, <2>2
<1>8. ASSUME NEW e \in Editors, Save(e) PROVE IndInv'
  <2>1. /\ terms' \in Terms /\ ~Overlapping(terms') /\ Lasts(terms', duration')
        /\ status \notin {"none", "PENDING"}
    BY <1>8 DEF Save, IndInv
  <2> QED BY <1>8, <2>1, EndHolds DEF Save
<1>9. ASSUME NEW e \in Editors, EditFails(e) PROVE IndInv'
  BY <1>9, EndHolds DEF EditFails, request
<1>10. CASE UNCHANGED vars
  <2> USE <1>10 DEF IndInv, vars, edits, request
  <2>1. TypeOK' BY DEF TypeOK
  <2>2. status' # "none" => Lasts(terms, duration)' /\ ~Overlapping(terms)'
    BY DEF Lasts, Overlapping
  <2>3. \A e \in Editors : /\ pc'[e] \in {"overlap", "save"} => Lasts(draft[e], price[e])'
                           /\ pc'[e] = "save" => ~Overlapping(draft[e])'
    BY DEF Lasts, Overlapping
  <2> QED BY <2>1, <2>2, <2>3
<1> QED BY <1>1, <1>2, <1>3, <1>4, <1>5, <1>6, <1>7, <1>8, <1>9, <1>10 DEF Next
--------------------------------------------------------------------------------
(* The inductive invariant: whoever is about to write terms has computed   *)
(* their duration and compared their days, and nobody is while the request *)
(* waits for its approval.                                                 *)
THEOREM IndInvariant == Spec => []IndInv
BY InitHolds, StepHolds, PTL DEF Spec

(* A request's duration is that of its own dates. *)
THEOREM DurationsFit == Spec => []DurationFits
<1>1. IndInv => DurationFits BY DEF IndInv, DurationFits
<1> QED BY <1>1, IndInvariant, PTL

(* No edit moves a request onto a day of another. *)
THEOREM NoDayShared == Spec => []SharesNoDay
<1>1. IndInv => SharesNoDay
  <2> SUFFICES ASSUME IndInv, status # "none", NEW b \in Busy,
                      NEW d \in (terms.start..terms.end) \intersect (b.start..b.end)
               PROVE  FALSE
    BY DEF SharesNoDay
  <2>1. /\ terms.start \in Int /\ terms.end \in Int
        /\ b.start \in Int /\ b.end \in Int
    BY DatesAssumption DEF IndInv, Terms
  <2>2. terms.start <= terms.end /\ b.start <= b.end BY <2>1
  <2>3. DatesOverlap(terms, b) BY <2>1, <2>2, OverlapIsASharedDay
  <2> QED BY <2>3 DEF IndInv, Overlapping
<1> QED BY <1>1, IndInvariant, PTL

(* The scores 4, 2 and 1 put the narrower policy first. *)
LEMMA NarrowerScoresMore ==
  ASSUME NEW p, NEW q, Narrower(q, p)
  PROVE  SpecificityScore(p) < SpecificityScore(q)
<1>1. /\ p.location # Anywhere => q.location # Anywhere
      /\ p.department # Anywhere => q.department # Anywhere
      /\ p.employmentType # Anywhere => q.employmentType # Anywhere
  BY DEF Narrower
<1>2. \/ p.location = Anywhere /\ q.location # Anywhere
      \/ p.department = Anywhere /\ q.department # Anywhere
      \/ p.employmentType = Anywhere /\ q.employmentType # Anywhere
  BY DEF Narrower
<1> QED BY <1>1, <1>2 DEF SpecificityScore, Weight

(* Scores are small numbers, so that some candidate has the highest.       *)
LEMMA SomePolicyIsFirst ==
  ASSUME NEW department, NEW location, Candidates(Policies, department, location) # {}
  PROVE  ResolvePolicy(Policies, department, location) # {}
<1> DEFINE fitting == Candidates(Policies, department, location)
           Reached(n) == \E p \in fitting : n <= SpecificityScore(p)
<1>1. \A p : SpecificityScore(p) \in 0..7 BY DEF SpecificityScore, Weight
<1> SUFFICES ASSUME ResolvePolicy(Policies, department, location) = {} PROVE FALSE
  OBVIOUS
<1>2. \A p \in fitting : \E q \in fitting : ~(SpecificityScore(q) <= SpecificityScore(p))
  BY DEF ResolvePolicy
<1>3. ASSUME NEW n \in Int, Reached(n) PROVE Reached(n + 1)
  BY <1>1, <1>2, <1>3
<1>4. Reached(0) BY <1>1
<1> HIDE DEF Reached
<1>5. Reached(4) BY <1>3, <1>4
<1>6. Reached(8) BY <1>3, <1>5
<1> QED BY <1>1, <1>6 DEF Reached

(* Submitted requests have the document the narrowest policy demands. *)
THEOREM DocumentsAreThere == Spec => []DocumentedAsDemanded
<1>1. Init => DocumentedAsDemanded BY DEF Init, DocumentedAsDemanded
<1>2. IndInv /\ DocumentedAsDemanded /\ [Next]_vars => DocumentedAsDemanded'
  <2> SUFFICES ASSUME IndInv, DocumentedAsDemanded, [Next]_vars, status' = "PENDING"
               PROVE  DocumentedAsDemanded'
    BY DEF DocumentedAsDemanded
  <2>1. CASE Create
    <3>1. PICK document \in BOOLEAN :
            /\ PolicyAllows(terms', duration', document)
            /\ documented' = document
      BY <2>1 DEF Create
    <3> DEFINE fitting == Candidates(Policies, Department, terms'.location)
               narrowest == {p \in fitting : \A q \in fitting : ~Narrower(q, p)}
    <3>2. SUFFICES ASSUME narrowest # {}
                   PROVE  \E p \in narrowest : RequiresDocumentation(p, duration') => documented'
      BY DEF DocumentedAsDemanded
    <3>3. CASE ResolvePolicy(Policies, Department, terms'.location) = {}
      BY <3>2, <3>3, SomePolicyIsFirst
    <3>4. ASSUME NEW p \in ResolvePolicy(Policies, Department, terms'.location),
                 RequiresDocumentation(p, duration') => document
          PROVE  \E r \in narrowest : RequiresDocumentation(r, duration') => documented'
      <4>1. p \in fitting /\ \A q \in fitting : SpecificityScore(q) <= SpecificityScore(p)
        BY <3>4 DEF ResolvePolicy
      <4>2. \A q : SpecificityScore(q) \in Int BY DEF SpecificityScore, Weight
      <4>3. \A q \in fitting : ~Narrower(q, p)
        BY <4>1, <4>2, NarrowerScoresMore
      <4> QED BY <3>1, <3>4, <4>1, <4>3
    <3> QED BY <3>1, <3>3, <3>4 DEF PolicyAllows
  <2>2. CASE ~Create
    <3>1. status = "PENDING" /\ UNCHANGED <<terms, duration, documented>>
      <4>1. CASE \E e \in Editors : ReadHolidays(e) \/ CheckOverlap(e) \/ Save(e) \/ EditFails(e)
        BY <4>1 DEF IndInv, ReadHolidays, CheckOverlap, Save, EditFails, request
      <4> QED BY <2>2, <4>1 DEF Next, Cancel, Post, Amend, BeginEdit, vars, request
    <3> QED BY <3>1 DEF DocumentedAsDemanded
  <2> QED BY <2>1, <2>2
<1> QED BY <1>1, <1>2, IndInvariant, PTL DEF Spec

(* No edit changes what an approver is looking at. *)
THEOREM PendingStays == Spec => PendingIsFrozen
<1>1. IndInv /\ [Next]_vars => [status = "PENDING" => UNCHANGED <<terms, duration>>]_vars
  <2> SUFFICES ASSUME IndInv, Next, status = "PENDING" PROVE UNCHANGED <<terms, duration>>
    OBVIOUS
  <2>1. CASE \E e \in Editors : ReadHolidays(e) \/ CheckOverlap(e) \/ Save(e) \/ EditFails(e)
    BY <2>1 DEF IndInv, ReadHolidays, CheckOverlap, Save, EditFails
  <2> QED BY <2>1 DEF Next, Create, Cancel, Post, Amend, BeginEdit, request
<1> QED BY <1>1, IndInvariant, PTL DEF Spec, PendingIsFrozen

--------------------------------------------------------------------------------
(* Induction over a finite set, in the form of its smallest counterexample.*)
LEMMA SmallestCounterexample ==
  ASSUME NEW S, IsFiniteSet(S), NEW T, T \subseteq SUBSET S, T # {}
  PROVE  \E s \in T : \A t \in T : t \subseteq s => t = s
<1>1. IsWellFoundedOn(StrictSubsetOrdering(S), FiniteSubsetsOf(S))
  BY FS_StrictSubsetOrderingWellFounded
<1>2. T \subseteq FiniteSubsetsOf(S) BY FS_FiniteSubsetsOfFinite
<1>3. PICK s \in T : \A t \in T : <<t, s>> \notin StrictSubsetOrdering(S)
  BY <1>1, <1>2, WFMin
<1> QED BY <1>3 DEF StrictSubsetOrdering

(* How the library adds up the quantities of a set of entries. *)
Pick(s) == CHOOSE x \in s : TRUE

Adding(S) ==
  CHOOSE g : g = [s \in SUBSET S |-> IF s = {} THEN 0 ELSE Pick(s).quantity + g[s \ {Pick(s)}]]

LEMMA SumIsAdding ==
  ASSUME NEW S
  PROVE  MapThenSumSet(LAMBDA day : day.quantity, S) = Adding(S)[S]
BY DEF MapThenSumSet, MapThenFoldSet, Pick, Adding

(* Entries of one quantity add up to as many times that quantity. *)
LEMMA SumOfEquals ==
  ASSUME NEW S, IsFiniteSet(S), NEW c \in Int, \A x \in S : x.quantity = c
  PROVE  MapThenSumSet(LAMBDA day : day.quantity, S) = c * Cardinality(S)
<1> DEFINE h == [s \in SUBSET S |-> c * Cardinality(s)]
           g == Adding(S)
           wrong == {s \in SUBSET S : g[s] # c * Cardinality(s)}
<1>1. ASSUME NEW s \in SUBSET S, s # {}
      PROVE  /\ Pick(s) \in s /\ s \ {Pick(s)} \in SUBSET S
             /\ c * Cardinality(s) = Pick(s).quantity + c * Cardinality(s \ {Pick(s)})
  <2>1. Pick(s) \in s BY <1>1 DEF Pick
  <2>2. IsFiniteSet(s) BY FS_Subset
  <2>3. Cardinality(s) \in Nat BY <2>2, FS_CardinalityType
  <2>4. Cardinality(s \ {Pick(s)}) = Cardinality(s) - 1 BY <2>1, <2>2, FS_RemoveElement
  <2>5. Pick(s).quantity = c BY <2>1
  <2> QED BY <2>1, <2>3, <2>4, <2>5
<1>2. c * Cardinality({}) = 0 BY FS_EmptySet
<1>3. h = [s \in SUBSET S |-> IF s = {} THEN 0 ELSE Pick(s).quantity + h[s \ {Pick(s)}]]
  BY <1>1, <1>2
<1>4. g = [s \in SUBSET S |-> IF s = {} THEN 0 ELSE Pick(s).quantity + g[s \ {Pick(s)}]]
  BY <1>3 DEF Adding
<1>5. wrong = {}
  <2> SUFFICES ASSUME wrong # {} PROVE FALSE
    OBVIOUS
  <2>1. PICK s \in wrong : \A t \in wrong : t \subseteq s => t = s
    <3>1. wrong \subseteq SUBSET S OBVIOUS
    <3> HIDE DEF wrong
    <3> QED BY <3>1, SmallestCounterexample
  <2> HIDE DEF g
  <2>2. s # {} BY <2>1, <1>2, <1>4
  <2>3. s \ {Pick(s)} \notin wrong BY <2>1, <2>2, <1>1
  <2>4. g[s] = Pick(s).quantity + g[s \ {Pick(s)}] BY <2>1, <2>2, <1>4
  <2> QED BY <2>1, <2>2, <2>3, <2>4, <1>1
<1> QED BY <1>5, SumIsAdding

--------------------------------------------------------------------------------
(* On a server that is not west of Greenwich the duration is the one       *)
(* docs/spec.md promises; the run MCRequestTerms has such a server, too.   *)
THEOREM DurationSpecified ==
  ASSUME Behind = 0
  PROVE  Spec => []DurationAsSpecified
<1>1. IndInv => DurationAsSpecified
  <2> SUFFICES ASSUME IndInv, status # "none", terms.partial = "NONE",
                      terms.location # Anywhere, tables = {holidays}
               PROVE  duration = FullDay * Cardinality(SpecDays(terms, holidays))
    BY DEF DurationAsSpecified
  <2>1. terms.start \in Int /\ terms.end \in Int
    BY DatesAssumption DEF IndInv, Terms
  <2>2. SpecDays(terms, holidays) = LeaveDays(terms, holidays)
    <3>1. ASSUME NEW d \in terms.start..terms.end
          PROVE  d % 7 \notin {5, 6} <=> (d - Behind) % 7 < 5
      BY <2>1
    <3> QED BY <3>1 DEF SpecDays, LeaveDays, IsBusinessDay, IsHoliday
  <2>3. duration = ComputeDuration(terms, holidays) BY DEF IndInv, Lasts
  <2> QED BY <2>2, <2>3 DEF ComputeDuration
<1> QED BY <1>1, IndInvariant, PTL

(* Whatever was posted is what the request said, under a table there has   *)
(* been, and the request has not changed since.                            *)
Booked ==
  posted # {} =>
    /\ status \in {"PENDING", "CANCELLED"}
    /\ \A e \in Editors : pc[e] = "idle"
    /\ \E h \in tables : posted = BuildHcmTimeOffDays(terms, duration, h)

LEMMA BookedHolds == IndInv /\ Booked /\ [Next]_vars => Booked'
<1> SUFFICES ASSUME IndInv, Booked, [Next]_vars, posted' # {} PROVE Booked'
  BY DEF Booked
<1>1. CASE Post
  <2>1. posted' = BuildHcmTimeOffDays(terms', duration', holidays) /\ status' = "PENDING"
    BY <1>1 DEF Post, request
  <2>2. holidays \in tables' /\ \A e \in Editors : pc'[e] = "idle"
    BY <1>1 DEF Post, request, edits, IndInv
  <2> QED BY <2>1, <2>2 DEF Booked
<1>2. CASE ~Post
  <2>1. posted' = posted
    BY <1>2 DEF Next, Create, Cancel, Amend, BeginEdit, ReadHolidays, CheckOverlap, Save,
                EditFails, vars
  <2>2. /\ status \in {"PENDING", "CANCELLED"} /\ status # "none"
        /\ \A e \in Editors : pc[e] = "idle"
    BY <2>1 DEF Booked
  <2>3. UNCHANGED <<terms, duration, pc>> /\ status' \in {"PENDING", "CANCELLED"}
    BY <1>2, <2>2 DEF Next, Create, Cancel, Amend, BeginEdit, ReadHolidays, CheckOverlap, Save,
                EditFails, vars, request, edits
  <2>4. tables \subseteq tables'
    BY <1>2 DEF Next, Create, Cancel, Amend, BeginEdit, ReadHolidays, CheckOverlap, Save,
                EditFails, vars
  <2> QED BY <2>1, <2>2, <2>3, <2>4 DEF Booked
<1> QED BY <1>1, <1>2

(* The entries of a full-day leave are as many as its days. *)
LEMMA EntriesCounted ==
  ASSUME NEW D, IsFiniteSet(D), NEW q
  PROVE  LET E == {[date |-> d, quantity |-> q] : d \in D}
         IN  IsFiniteSet(E) /\ Cardinality(E) = Cardinality(D)
<1> DEFINE E == {[date |-> d, quantity |-> q] : d \in D}
           f == [d \in D |-> [date |-> d, quantity |-> q]]
<1>1. f \in Bijection(D, E)
  <2>1. f \in [D -> E] OBVIOUS
  <2>2. \A c, d \in D : f[c] = f[d] => c = d
    <3>1. \A d \in D : f[d].date = d OBVIOUS
    <3> QED BY <3>1
  <2>3. \A x \in E : \E d \in D : f[d] = x OBVIOUS
  <2> HIDE DEF E, f
  <2>4. f \in Injection(D, E) BY <2>1, <2>2 DEF Injection, IsInjective
  <2>5. f \in Surjection(D, E) BY <2>1, <2>3 DEF Surjection
  <2> QED BY <2>4, <2>5 DEF Bijection
<1>2. ExistsBijection(D, E) BY <1>1 DEF ExistsBijection
<1> QED BY <1>2, FS_Bijection

(* What is posted adds up to what is charged.  The hours of a part of a    *)
(* day are whole numbers here, as everything the model counts.             *)
THEOREM PostsMatch ==
  ASSUME Hours \subseteq Int
  PROVE  Spec => []PostMatchesCharge
<1>1. Init => Booked BY DEF Init, Booked
<1>2. IndInv /\ Booked => PostMatchesCharge
  <2> SUFFICES ASSUME IndInv, Booked, posted # {}, tables = {holidays}
               PROVE  MapThenSumSet(LAMBDA day : day.quantity, posted) = duration
    BY DEF PostMatchesCharge
  <2>1. posted = BuildHcmTimeOffDays(terms, duration, holidays) /\ status # "none"
    BY DEF Booked
  <2>2. duration = ComputeDuration(terms, holidays) /\ terms \in Terms
    BY <2>1 DEF IndInv, Lasts
  <2>3. CASE terms.partial = "NONE"
    <3> DEFINE D == LeaveDays(terms, holidays)
    <3>1. IsFiniteSet(D)
      <4>1. terms.start \in Int /\ terms.end \in Int BY <2>2, DatesAssumption DEF Terms
      <4>2. IsFiniteSet(terms.start..terms.end) BY <4>1, FS_Interval
      <4> QED BY <4>2, FS_Subset DEF LeaveDays
    <3>2. posted = {[date |-> d, quantity |-> FullDay] : d \in D}
      BY <2>1, <2>3 DEF BuildHcmTimeOffDays
    <3> HIDE DEF D
    <3>3. IsFiniteSet(posted) /\ Cardinality(posted) = Cardinality(D)
      BY <3>1, <3>2, EntriesCounted
    <3>4. \A x \in posted : x.quantity = FullDay BY <3>2
    <3>5. MapThenSumSet(LAMBDA day : day.quantity, posted) = FullDay * Cardinality(posted)
      <4>1. FullDay \in Int BY DEF FullDay
      <4> QED BY <3>3, <3>4, <4>1, SumOfEquals
    <3>6. duration = FullDay * Cardinality(D)
      BY <2>2, <2>3 DEF ComputeDuration, D
    <3> QED BY <3>3, <3>5, <3>6
  <2>4. CASE terms.partial # "NONE"
    <3> DEFINE day == [date |-> terms.start,
                       quantity |-> IF terms.partial = "HALF" THEN HalfDay ELSE duration]
    <3>1. posted = {day} BY <2>1, <2>4 DEF BuildHcmTimeOffDays
    <3>2. day.quantity = duration /\ duration \in Int
      <4>1. terms.partial \in {"HALF", "HOURS"} /\ terms.hours \in Int BY <2>2, <2>4 DEF Terms
      <4> QED BY <2>2, <4>1 DEF ComputeDuration, HalfDay
    <3> HIDE DEF day
    <3>3. IsFiniteSet(posted) /\ Cardinality(posted) = 1 BY <3>1, FS_Singleton
    <3>4. MapThenSumSet(LAMBDA x : x.quantity, posted) = duration * Cardinality(posted)
      BY <3>1, <3>2, <3>3, SumOfEquals
    <3> QED BY <3>2, <3>3, <3>4
  <2> QED BY <2>3, <2>4
<1> QED BY <1>1, <1>2, BookedHolds, IndInvariant, PTL DEF Spec
================================================================================
