SPECIFICATION SpecWithKeys
CONSTANTS
  Requests = {r1, r2}
  Workers = {w1, w2}
  Jobs = {}
  Entries = {e1}
  NoRequest = NoRequest
  NoEntry = NoEntry
  Dur <- OneDay
  Days <- SameDay
  Opening = 1
  AllowsNegative = TRUE
  Window = 1
  Calls = {"create", "draft", "approve", "cancel"}
  Replies = {"ok"}
  LostReplies = {}
  Isolated = TRUE
  MaxFaults = 1
  HeaderKeys = {k1}
  NoKey = NoKey
  NoRecord = NoRecord
  MaxRuns = 2
SYMMETRY Symmetry
INVARIANTS
  ToldIsDone
  CreatedOnce
  ActiveOnce
