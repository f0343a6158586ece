SPECIFICATION Spec
CONSTANTS
  e1 = e1
  e2 = e2
  here = here
  there = there
  sales = sales
  Anywhere = Anywhere
  Behind = 0
  Editors = {e1, e2}
  Dates <- OverWeekend
  Hours = {3}
  Locations = {here}
  Calendars <- TwoCalendars
  Policies <- ThreePolicies
  Department = sales
  Busy <- OneBusyTuesday
SYMMETRY Symmetry
INVARIANTS
  DurationFits
  SharesNoDay
  PostMatchesCharge
  DurationAsSpecified
  DocumentedAsDemanded
