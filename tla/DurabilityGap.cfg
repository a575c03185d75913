SPECIFICATION Spec
CONSTANTS
  p = p
  r = r
  c1 = c1
  c2 = c2
  f = f
  Puller = {p}
  Receiver = {r}
  Commit = {c1, c2}
  Content = {f}
  Dict = {c2}
  NoCount = NoCount
  MaxStops = 1
  MaxLosses = 1
  Wants <- MCWants
  Tree <- MCTree
INVARIANT
  DurableRefIsWhole
CHECK_DEADLOCK FALSE
