SPECIFICATION DropSpec
CONSTANTS
  p1 = p1
  p2 = p2
  w1 = w1
  g1 = g1
  c1 = c1
  c2 = c2
  c3 = c3
  d1 = d1
  d2 = d2
  f1 = f1
  Puller = {p1}
  Writer = {w1}
  Pruner = {g1}
  Commit = {c1, c3}
  Content = {d1, f1}
  Wants <- MCOwn
  Root <- MCRoot
  Below <- MCBelow
INVARIANTS
  SweepIsExclusive
CHECK_DEADLOCK FALSE
