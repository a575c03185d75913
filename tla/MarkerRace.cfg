SPECIFICATION Spec
CONSTANTS
  p1 = p1
  p2 = p2
  w1 = w1
  g1 = g1
  c1 = c1
  c2 = c2
  c3 = c3
  d1 = d1
  d2 = d2
  f1 = f1
  Puller = {p1, p2}
  Writer = {}
  Pruner = {}
  Commit = {c1}
  Content = {d1, f1}
  Wants <- MCSame
  Root <- MCRoot
  Below <- MCBelow
INVARIANTS
  UnmarkedIsComplete
CHECK_DEADLOCK FALSE
