----------------------------- MODULE PolicyEngine -----------------------------
(***************************************************************************)
(* The calendar and the choice of a policy: policy-engine.ts.              *)
(*                                                                         *)
(* A date is a number of days, day 0 being a Monday; in the code it is     *)
(* midnight UTC, of which the week day is taken in the server's time zone, *)
(* one that does not change its offset during a leave.  Quantities are     *)
(* counted in hours of a day of eight.  A request's terms are a record of  *)
(* start, end, partial (HALF stands for AM and PM), hours and location.    *)
(***************************************************************************)
EXTENDS Integers, FiniteSets

CONSTANTS
  Behind,   \* 1 if the server's clock is west of Greenwich, else 0
  Anywhere  \* null: no location, or no scope

ASSUME BehindAssumption == Behind \in {0, 1}

FullDay == 8
HalfDay == 4

(* Mutated form of IsHoliday: holidays of other locations count as well. *)
MutIsHoliday(d, holidays, location) == \E h \in holidays : h.date = d

(* The location decides only if both have one. *)
IsHoliday(d, holidays, location) ==
  \E h \in holidays :
    /\ h.date = d
    /\ Anywhere \in {h.location, location} \/ h.location = location

IsBusinessDay(d, holidays, location) ==
  /\ (d - Behind) % 7 < 5
  /\ ~IsHoliday(d, holidays, location)

LeaveDays(terms, holidays) ==
  {d \in terms.start..terms.end : IsBusinessDay(d, holidays, terms.location)}

(* Does computeDurationDays return?  It never looks at the calendar for a  *)
(* partial day, nor at the hours.                                          *)
Accepted(terms, holidays) ==
  /\ terms.start <= terms.end
  /\ terms.partial = "HALF" => terms.start = terms.end
  /\ terms.partial = "NONE" => LeaveDays(terms, holidays) # {}

ComputeDuration(terms, holidays) ==
  CASE terms.partial = "HALF" -> HalfDay
    [] terms.partial = "HOURS" -> terms.hours
    [] OTHER -> FullDay * Cardinality(LeaveDays(terms, holidays))

(* Mutated form of BuildHcmTimeOffDays: the last day is left out. *)
MutBuildHcmTimeOffDays(terms, duration, holidays) ==
  IF terms.partial = "NONE"
  THEN {[date |-> d, quantity |-> FullDay] : d \in LeaveDays(terms, holidays) \ {terms.end}}
  ELSE {[date |-> terms.start,
         quantity |-> IF terms.partial = "HALF" THEN HalfDay ELSE duration]}

(* The entries of a leave in HCM: one a day. *)
BuildHcmTimeOffDays(terms, duration, holidays) ==
  IF terms.partial = "NONE"
  THEN {[date |-> d, quantity |-> FullDay] : d \in LeaveDays(terms, holidays)}
  ELSE {[date |-> terms.start,
         quantity |-> IF terms.partial = "HALF" THEN HalfDay ELSE duration]}

(* Mutated form of DatesOverlap: meeting in one day is no overlap. *)
MutDatesOverlap(a, b) == a.start < b.end /\ b.start < a.end

DatesOverlap(a, b) == a.start <= b.end /\ b.start <= a.end
--------------------------------------------------------------------------------
(* A policy of the leave type has scopes (location, department, and        *)
(* employmentType, which is never compared with the employee's), tells     *)
(* whether the employee is eligible and from which duration on it demands  *)
(* a document.                                                             *)
Candidates(policies, department, location) ==
  {p \in policies : /\ p.department \in {Anywhere, department}
                    /\ p.location = Anywhere \/ p.location = location}

Weight(scope, points) == IF scope = Anywhere THEN 0 ELSE points

SpecificityScore(p) ==
  Weight(p.location, 4) + Weight(p.department, 2) + Weight(p.employmentType, 1)

(* Mutated form of ResolvePolicy: the sort is the wrong way round. *)
MutResolvePolicy(policies, department, location) ==
  LET fitting == Candidates(policies, department, location)
  IN  {p \in fitting : \A q \in fitting : SpecificityScore(p) <= SpecificityScore(q)}

(* The policies that may come first: the query has no order, the sort is   *)
(* stable.                                                                 *)
ResolvePolicy(policies, department, location) ==
  LET fitting == Candidates(policies, department, location)
  IN  {p \in fitting : \A q \in fitting : SpecificityScore(q) <= SpecificityScore(p)}

RequiresDocumentation(p, duration) ==
  p.documentAfter # Anywhere /\ duration >= p.documentAfter
================================================================================
