SPECIFICATION MCSpec
CONSTANTS
  r1 = r1
  b1 = b1
  NoRun = NoRun
  Run = {r1, b1}
  Breaker = {b1}
  MaxRetries = 1
  MaxLate = 3
  w1 = w1
  w2 = w2
  c1 = c1
  c2 = c2
  d1 = d1
  d2 = d2
  f1 = f1
  m1 = m1
  n1 = n1
  None = None
  Writer = {w1, w2}
  Commit = {c1, c2}
  Tree = {d1, d2, f1}
  Name = {n1}
  RootOf <- MCRootOf
  FilesOf <- MCFilesOf
  History <- MCHistory
  MetaOf <- MCMetaOf
  CheckInterval = 2
  MaxRuns = 4
  MaxRot = 1
  Frames = 2
  Mirrors = 2
  MaxRedirects = 1
SYMMETRY MCWriters
CONSTRAINT MCFewLate
INVARIANTS
  HoldsItsLock
  ProbeVerdict
  CommitHasTree
  NamedCommitHeld
  StaleDeletesBounded
  BodyIsWhole
  SentAsSaid
PROPERTY
  ReleasedLockIsGone
CHECK_DEADLOCK FALSE
