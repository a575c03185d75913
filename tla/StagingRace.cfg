SPECIFICATION Spec
CONSTANTS
  p1 = p1
  p2 = p2
  a = a
  b = b
  c = c
  NoProc = NoProc
  NoTxn = NoTxn
  Process = {p1, p2}
  Txn = {a, b, c}
  ProcOf <- MCProcOf
INVARIANTS
  LiveDirStays
CHECK_DEADLOCK FALSE
