--------------------------- MODULE MCCommitStore ----------------------------
(* Commits whose trees share a dirtree or a file below their dirtrees.    *)
EXTENDS CommitStore

CONSTANTS p1, p2, w1, g1, c1, c2, c3, d1, d2, f1

MCRoot == [c \in Commit |-> IF c = c2 THEN d2 ELSE d1]
MCBelow == [o \in Content |-> IF o = f1 THEN {} ELSE {f1}]
MCOwn == [x \in Fetcher |-> IF x = p1 THEN c1 ELSE IF x = p2 THEN c2 ELSE c3]
MCSame == [x \in Fetcher |-> c1]
=============================================================================
