CONSTANTS
  c1 = c1
  c2 = c2
  k1 = k1
  b1 = b1
  b2 = b2
  Keys = {k1}
  NoKey = NoKey
  Bodies = {b1, b2}
  NoRecord = NoRecord
  Callers = {c1, c2}
  TTL = 1
  MaxRuns = 4
  MaxFaults = 1

SPECIFICATION Spec

INVARIANTS
  IndInv
  ReplayIsFaithful

PROPERTIES
  LiveRecordKept
  OneAnswer
