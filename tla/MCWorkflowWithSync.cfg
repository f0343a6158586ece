SPECIFICATION SpecWithSync
CONSTANTS
  r1 = r1
  r2 = r2
  r3 = r3
  Requests = {r1, r2, r3}
  Workers = {w1}
  Jobs = {j1}
  Entries = {e1, e2, e3}
  NoRequest = NoRequest
  NoEntry = NoEntry
  Dur <- MixedDur
  Days <- MixedDays
  Opening = 2
  AllowsNegative = FALSE
  Window = 1
  Calls = {"create", "approve", "reject", "cancel"}
  Replies = {"ok", "validation", "unavailable", "transport"}
  LostReplies = {r3}
  Isolated = TRUE
  MaxFaults = 0
  MaxAdjustments = 1
SYMMETRY Symmetry
INVARIANTS
  SettledAccounting
  HcmAgrees
  NoActiveOverlap
  UsageWithinBalance
  NeverShort
PROPERTIES
  LifecycleSaveLateRejection
