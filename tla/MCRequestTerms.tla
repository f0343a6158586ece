---------------------------- MODULE MCRequestTerms ----------------------------
(* Values of RequestTerms's constants for TLC. *)
EXTENDS RequestTerms, TLC

CONSTANTS e1, e2, here, there, sales

Symmetry == Permutations(Editors)

(* A Friday, the Monday after and the Tuesday. *)
OverWeekend == {4, 7, 8}

(* No holiday; the Friday, at one location; the Monday, everywhere. *)
TwoCalendars == {{[date |-> 4, location |-> there]},
                 {[date |-> 4, location |-> here], [date |-> 7, location |-> Anywhere]}}

(* One for all, one for a location, one for a department there. *)
ThreePolicies ==
  {[location |-> Anywhere, department |-> Anywhere, employmentType |-> Anywhere,
    eligible |-> TRUE, documentAfter |-> Anywhere],
   [location |-> here, department |-> Anywhere, employmentType |-> Anywhere,
    eligible |-> FALSE, documentAfter |-> Anywhere],
   [location |-> here, department |-> sales, employmentType |-> Anywhere,
    eligible |-> TRUE, documentAfter |-> 2 * FullDay]}

OneBusyTuesday == {[start |-> 8, end |-> 8]}
================================================================================
