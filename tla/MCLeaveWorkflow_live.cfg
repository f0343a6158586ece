SPECIFICATION FairSpec
CONSTANTS
  r1 = r1
  r2 = r2
  Requests = {r1}
  Workers = {w1, w2}
  Jobs = {j1}
  Entries = {e1, e2}
  NoRequest = NoRequest
  NoEntry = NoEntry
  Dur <- UnitDur
  Days <- OwnDays
  Opening = 1
  AllowsNegative = FALSE
  Window = 1
  Calls = {"create", "draft", "approve", "reject", "cancel"}
  Replies = {"ok", "validation", "unavailable", "transport"}
  LostReplies = {}
  Isolated = FALSE
  MaxFaults = 0
PROPERTIES
  DeferredIsSettled
