SPECIFICATION FairSpec
CONSTANTS
  c1 = c1
  c2 = c2
  Callers = {c1, c2}
  MaxRetries = 5
PROPERTIES
  Truthful
  ReadsArePatient
  EveryCallReturns
