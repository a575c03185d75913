SPECIFICATION Spec
CONSTANTS
  Digest = {d1, d2}
  Reader = {q}
  None = None
  SUMMARY_TRIES = 2
  MaxWrites = 3
  MaxStops = 1
  MaxLosses = 1
INVARIANT
  AccessPairs
CHECK_DEADLOCK FALSE
