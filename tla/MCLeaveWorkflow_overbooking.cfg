SPECIFICATION Spec
CONSTANTS
  r1 = r1
  r2 = r2
  Requests = {r1, r2}
  Workers = {w1}
  Jobs = {}
  Entries = {e1, e2}
  NoRequest = NoRequest
  NoEntry = NoEntry
  Dur <- UnitDur
  Days <- OwnDays
  Opening = 1
  AllowsNegative = FALSE
  Window = 1
  Calls = {"create"}
  Replies = {"ok", "validation", "unavailable", "transport"}
  LostReplies = {}
  Isolated = FALSE
  MaxFaults = 0
CHECK_DEADLOCK FALSE
INVARIANTS
  ReservedWithinBalance
