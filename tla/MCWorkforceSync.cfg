SPECIFICATION FairSpec
CONSTANTS
  w1 = w1
  w2 = w2
  Workers = {w1, w2}
  Nobody = Nobody
  Entitled = {w1, w2}
  Syncs = {s1, s2}
  Limit = 1
  RawStatuses <- Strings
  Rosters <- OneOrTwo
  Hierarchies <- FirstManages
  MaxEdits = 1
  MaxFaults = 1
INVARIANTS
  NobodyOverlooked
  MirrorsRoster
  RulesDoNotPileUp
PROPERTIES
  RulesReturn
