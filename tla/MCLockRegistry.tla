--------------------------- MODULE MCLockRegistry ---------------------------
(* Two threads, two lock files and three inodes; other programs change    *)
(* the directory up to MaxRelinks times.                                   *)
EXTENDS LockRegistry

CONSTANTS c1, c2, i1, i2, i3, l1, l2, l3

MCCaller == {c1, c2}
MCName == {"lock", "update"}
MCInode == {i1, i2, i3}
MCLock == {l1, l2, l3}
=============================================================================
