----------------------------- MODULE MCStaging ------------------------------
(* Two transactions of one process, and one of another.                   *)
EXTENDS Staging, TLC

CONSTANTS p1, p2, a, b, c

MCProcOf == [t \in Txn |-> IF t = c THEN p2 ELSE p1]
MCSymmetry == Permutations({a, b})
=============================================================================
