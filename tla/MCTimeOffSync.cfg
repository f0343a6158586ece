SPECIFICATION FairSpec
CONSTANTS
  night = night
  api = api
  k1 = k1
  k2 = k2
  k3 = k3
  NoKey = NoKey
  Nightly = {night}
  Manual = {api}
  Keys = {k1, k2, k3}
  Imported = {k1, k2}
  Drift <- Drifted
  MaxFaults = 1
  MaxEdits = 1
INVARIANTS
  NoOrphanLock
PROPERTIES
  MatchesAfterSync
  DriftHeals
