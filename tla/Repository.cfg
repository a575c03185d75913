SPECIFICATION MCSpec
CONSTANTS
  p1 = p1
  p2 = p2
  w1 = w1
  g1 = g1
  c1 = c1
  c2 = c2
  c3 = c3
  d1 = d1
  d2 = d2
  f1 = f1
  k1 = k1
  k2 = k2
  k3 = k3
  None = None
  Checksum <- Chain
  Input <- MCInput
  h1 = h1
  h2 = h2
  h3 = h3
  h4 = h4
  heads = heads
  mirror = mirror
  key = key
  Session = {s1, s2}
  History <- MCHistory
  Parent <- MCParent
  Ref = {heads, mirror}
  Key = {key}
  Request <- MCRequest
  MaxLocal = 2
  Puller = {p1}
  Writer = {w1}
  Pruner = {g1}
  Commit = {c1, c3}
  Content = {d1, f1}
  Wants <- MCOwn
  Root <- MCRoot
  Below <- MCBelow
INVARIANTS
  UnmarkedIsComplete
  TipIsComplete
  WalkIsComplete
PROPERTIES
  OpenKeepsObjects
  RefMovesForward
  RefusalIsRight
  SignedOnce
CHECK_DEADLOCK FALSE
