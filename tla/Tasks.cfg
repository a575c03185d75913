SPECIFICATION MCSpec
CONSTANTS
  p1 = p1
  p2 = p2
  t1 = t1
  t2 = t2
  t3 = t3
  t4 = t4
  t5 = t5
  Process <- MCProcess
  Task <- MCTask
  ProcOf <- MCProcOf
  Limited <- MCLimited
  g1 = g1
  g2 = g2
  e1 = e1
  e2 = e2
  e3 = e3
  ref = ref
  Guard = {g1, g2}
  Write = {e1, e2, e3, ref}
  GuardOf <- MCGuardOf
  Edit <- MCEdit
  NoGuard = NoGuard
  NoWrite = NoWrite
  Job = {j1, j2, j3}
  Session = {s1}
  Client = {r1, r2}
  MaxSessions = 1
  ParallelUploads = 1
  NoSession = NoSession
INVARIANTS
  WritesUnderLocks
  NoLostEdit
  CommitOwnsCore
  CommitIsKept
PROPERTIES
  RWSpec
  FreeLockIsTaken
  GuardReleases
  SettleSeesAll
  SettleReturns
  SessionIsReleased
CHECK_DEADLOCK FALSE
