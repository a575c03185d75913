SPECIFICATION MCSpec
CONSTANTS
  p1 = p1
  p2 = p2
  a = a
  b = b
  c = c
  NoProc = NoProc
  NoTxn = NoTxn
  Process = {p1, p2}
  Txn = {a, b, c}
  ProcOf <- MCProcOf
  x1 = x1
  x2 = x2
  f = f
  Puller = {p}
  Receiver = {r}
  Stored = {x1, x2}
  Wants <- MCWants
  Tree <- MCTree
  Content = {f}
  Dict = {x2}
  NoCount = NoCount
  Digest = {d1, d2}
  Reader = {q}
  None = None
  SUMMARY_TRIES = 2
  MaxWrites = 3
  MaxStops = 1
  MaxLosses = 1
SYMMETRY MCSymmetry
INVARIANTS
  NoTornFile
  RefNamesDurable
  UnmarkedIsWhole
  ServedMatches
PROPERTIES
  LiveDirKept
CHECK_DEADLOCK FALSE
