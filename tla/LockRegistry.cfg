SPECIFICATION FairSpec
CONSTANTS
  c1 = c1
  c2 = c2
  i1 = i1
  i2 = i2
  i3 = i3
  l1 = l1
  l2 = l2
  l3 = l3
  Caller <- MCCaller
  Name <- MCName
  Inode <- MCInode
  Lock <- MCLock
  MaxRelinks = 2
  NoInode = NoInode
  NoLock = NoLock
  NoCaller = NoCaller
INVARIANTS
  HoldKeepsRecord
  OneLockPerInode
PROPERTY
  WaiterIsWoken
