SPECIFICATION MCSpec
CONSTANTS
  p1 = p1
  p2 = p2
  t1 = t1
  t2 = t2
  t3 = t3
  t4 = t4
  t5 = t5
  Process <- MCProcess
  Task <- MCTask
  ProcOf <- MCProcOf
  Limited <- MCLimited
  NoProcess = NoProcess
  NoTask = NoTask
  Frames = 2
  Mirrors = 1
  MaxRetries = 0
  MaxRedirects = 0
  q1 = q1
  q2 = q2
  q3 = q3
  q4 = q4
  Request = {q1, q2, q3, q4}
  Limit = 2
  Rank <- MCRank
  NoRequest = NoRequest
  Wait = {w1, w2}
  Waker = {k1, k2}
  NoWaker = NoWaker
INVARIANTS
  MutualExclusion
  NoLostWakeup
PROPERTIES
  WaiterProceeds
  WriterGoesOn
  UploadAnswers
  FirstRankIsServed
  SignalReachesAll
CHECK_DEADLOCK FALSE
