---------------------------- MODULE MCDurability ----------------------------
(* A pull and a receive session whose trees share a file.                  *)
EXTENDS Durability

CONSTANTS p, r, c1, c2, f

MCWants == [x \in Fetcher |-> IF x = p THEN c1 ELSE c2]
MCTree == [x \in Commit |-> IF x = c1 THEN {f} ELSE Content]
=============================================================================
