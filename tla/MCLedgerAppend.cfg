CONSTANTS
  c1 = c1
  c2 = c2
  c3 = c3
  k1 = k1
  k2 = k2
  Callers = {c1, c2, c3}
  Keys = {k1, k2}
  NoKey = NoKey
  Amounts = {1, 2}
  NoEntry = NoEntry
  MaxRows = 3

SPECIFICATION Spec

INVARIANT IndInv

PROPERTIES
  Atomic
