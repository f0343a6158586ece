SPECIFICATION FairSpec
CONSTANTS
  Approvals = {a1, a2}
  Runs = {p1, p2}
  NoApproval = NoApproval
  DayHours = 2
  Overdue = 4
  Holidays = {7}
  Recent = 2
  FirstHour = 8
  LastHour = 18
  MaxFaults = 1
INVARIANTS
  OnePerRun
  NotBeforeTwoDays
PROPERTIES
  OverdueIsReminded
