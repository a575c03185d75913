------------------------------ MODULE RepoLock ------------------------------
(***************************************************************************)
(* The repository lock (crates/ostrya/src/lock.rs): an fcntl record lock   *)
(* on <repo>/.lock that belongs to a process, hold counts in each process  *)
(* that let its shared holders share the record lock, and the retry loop   *)
(* of acquire.                                                             *)
(*                                                                         *)
(* A task is one call of acquire and the LockGuard that the call returns.  *)
(* Each try_acquire and each release runs under the state mutex of its     *)
(* process and makes at most one kernel call, so each is one step.         *)
(***************************************************************************)
EXTENDS Naturals, LockCallers

VARIABLES
  record,     \* the record lock of each process on the file (the kernel)
  shared,     \* LockState::shared of each process
  exclusive,  \* LockState::exclusive of each process
  os,         \* LockState::os of each process
  waits,      \* the kind of lock that a task in the retry loop waits for
  holds       \* the kind of hold of the guard of a task

vars == <<record, shared, exclusive, os, waits, holds>>

Kind == {"shared", "exclusive"}
Effective == Kind \cup {"none"}

Init ==
  /\ record = [p \in Process |-> "none"]
  /\ shared = [p \in Process |-> 0]
  /\ exclusive = [p \in Process |-> 0]
  /\ os = [p \in Process |-> "none"]
  /\ waits = [t \in Task |-> "none"]
  /\ holds = [t \in Task |-> "none"]

-----------------------------------------------------------------------------
(***************************************************************************)
(* The kernel grants an F_SETLK request unless the lock of another process *)
(* conflicts with it.  The locks of one process never conflict: a request  *)
(* replaces the lock that the process has.                                 *)
(***************************************************************************)
KernelGrants(p, k) ==
  \A q \in Process \ {p} :
    record[q] = "none" \/ (k = "shared" /\ record[q] = "shared")

\* A mutant of Excluded: an exclusive acquire looks at exclusive holders only.
ExcludedByExclusive(p, k) == exclusive[p] > 0

\* The in-process rules: an exclusive holder excludes each acquire, a shared
\* holder excludes an exclusive one.
Excluded(p, k) ==
  \/ exclusive[p] > 0
  \/ k = "exclusive" /\ shared[p] > 0

\* A second shared holder joins the record lock of the first, with no request.
Joins(p, k) == k = "shared" /\ os[p] = "shared"

\* The task runs acquire for the kind k: the first attempt, or a retry.
Tries(t, k) == holds[t] = "none" /\ waits[t] \in {"none", k}

\* try_acquire returns Acquired, and acquire returns the guard.
TryAcquired(t, k) ==
  LET p == ProcOf[t]
  IN  /\ Tries(t, k)
      /\ ~Excluded(p, k)
      /\ Joins(p, k) \/ KernelGrants(p, k)
      /\ record' = [record EXCEPT ![p] = k]
      /\ os' = [os EXCEPT ![p] = k]
      /\ shared' = [shared EXCEPT ![p] = IF k = "shared" THEN @ + 1 ELSE @]
      /\ exclusive' = [exclusive EXCEPT ![p] = IF k = "exclusive" THEN @ + 1 ELSE @]
      /\ waits' = [waits EXCEPT ![t] = "none"]
      /\ holds' = [holds EXCEPT ![t] = k]

\* try_acquire returns WouldBlock: the task sleeps and tries again, or its
\* deadline has passed and acquire returns LockTimeout.
TryWouldBlock(t, k) ==
  LET p == ProcOf[t]
  IN  /\ Tries(t, k)
      /\ Excluded(p, k) \/ (~Joins(p, k) /\ ~KernelGrants(p, k))
      /\ \/ waits' = [waits EXCEPT ![t] = k]
         \/ t \in Limited /\ waits' = [waits EXCEPT ![t] = "none"]
      /\ UNCHANGED <<record, shared, exclusive, os, holds>>

\* The lock request fails with another error, which acquire returns; or the
\* caller drops the future of acquire in its sleep.
GiveUp(t) ==
  /\ waits[t] # "none"
  /\ waits' = [waits EXCEPT ![t] = "none"]
  /\ UNCHANGED <<record, shared, exclusive, os, holds>>

\* saturating_sub(1).
Less(n) == IF n > 0 THEN n - 1 ELSE 0

\* A mutant of Target: a release that keeps the record lock for the next
\* acquire.
TargetKept(p, s, e) == os[p]

\* The effective lock that the hold counts s and e call for.
Target(p, s, e) ==
  IF e > 0 THEN "exclusive" ELSE IF s > 0 THEN "shared" ELSE "none"

\* release makes a kernel call, F_UNLCK, when the effective lock changes.
Unlocks(p, target) == target # os[p]

\* The drop of a LockGuard.
Release(t) ==
  LET p == ProcOf[t]
      s == IF holds[t] = "shared" THEN Less(shared[p]) ELSE shared[p]
      e == IF holds[t] = "exclusive" THEN Less(exclusive[p]) ELSE exclusive[p]
      target == Target(p, s, e)
  IN  /\ holds[t] # "none"
      /\ shared' = [shared EXCEPT ![p] = s]
      /\ exclusive' = [exclusive EXCEPT ![p] = e]
      /\ os' = [os EXCEPT ![p] = target]
      /\ record' = IF Unlocks(p, target)
                   THEN [record EXCEPT ![p] = "none"]
                   ELSE record
      /\ holds' = [holds EXCEPT ![t] = "none"]
      /\ UNCHANGED waits

\* The process ends at any point.  The kernel drops its record lock.
ProcessEnds(p) ==
  /\ \E t \in Task : ProcOf[t] = p /\ (holds[t] # "none" \/ waits[t] # "none")
  /\ record' = [record EXCEPT ![p] = "none"]
  /\ shared' = [shared EXCEPT ![p] = 0]
  /\ exclusive' = [exclusive EXCEPT ![p] = 0]
  /\ os' = [os EXCEPT ![p] = "none"]
  /\ waits' = [t \in Task |-> IF ProcOf[t] = p THEN "none" ELSE waits[t]]
  /\ holds' = [t \in Task |-> IF ProcOf[t] = p THEN "none" ELSE holds[t]]

Next ==
  \/ \E t \in Task :
       \/ \E k \in Kind : TryAcquired(t, k) \/ TryWouldBlock(t, k)
       \/ GiveUp(t) \/ Release(t)
  \/ \E p \in Process : ProcessEnds(p)

Spec == Init /\ [][Next]_vars

(***************************************************************************)
(* The retry loop tries again as long as it waits, so an attempt that      *)
(* stays possible is made; and a guard is dropped in the end.  The loop    *)
(* gives no fairness between tasks: a waiter can lose every retry.         *)
(***************************************************************************)
Fairness ==
  \A t \in Task :
    /\ \A k \in Kind : WF_vars(waits[t] = k /\ TryAcquired(t, k))
    /\ WF_vars(Release(t))

FairSpec == Spec /\ Fairness

-----------------------------------------------------------------------------
TypeOK ==
  /\ record \in [Process -> Effective]
  /\ shared \in [Process -> Nat]
  /\ exclusive \in [Process -> Nat]
  /\ os \in [Process -> Effective]
  /\ waits \in [Task -> Effective]
  /\ holds \in [Task -> Effective]

Readers == {t \in Task : holds[t] = "shared"}
Writers == {t \in Task : holds[t] = "exclusive"}

(***************************************************************************)
(* An exclusive holder is the only holder of all tasks in all processes    *)
(* (the rules of LockKind).                                                *)
(***************************************************************************)
ReadersWriterExclusion ==
  \A t, u \in Task :
    holds[t] = "exclusive" /\ holds[u] # "none" => t = u

(***************************************************************************)
(* The process of each guard has a record lock of its kind, whatever the   *)
(* other guards of the process did, so that other programs are excluded    *)
(* for as long as the guard lives.                                         *)
(***************************************************************************)
HoldIsRecorded ==
  \A t \in Task : holds[t] # "none" => record[ProcOf[t]] = holds[t]

(***************************************************************************)
(* The inductive invariant: the counts count the guards, the effective     *)
(* lock follows the counts, the kernel agrees with it, and the locks of    *)
(* two processes do not conflict.                                          *)
(***************************************************************************)
HoldersOf(p, k) == {t \in Task : ProcOf[t] = p /\ holds[t] = k}

CountInv ==
  \A p \in Process :
    /\ shared[p] = Cardinality(HoldersOf(p, "shared"))
    /\ exclusive[p] = Cardinality(HoldersOf(p, "exclusive"))
    /\ exclusive[p] <= 1
    /\ exclusive[p] = 0 \/ shared[p] = 0

EffectiveInv ==
  \A p \in Process :
    /\ os[p] = Target(p, shared[p], exclusive[p])
    /\ record[p] = os[p]

KernelInv ==
  \A p, q \in Process :
    p # q /\ record[p] = "exclusive" => record[q] = "none"

Inv == TypeOK /\ CountInv /\ EffectiveInv /\ KernelInv

\* The holds implement the abstract lock.
RW == INSTANCE RWLock WITH readers <- Readers, writers <- Writers
RWSpec == RW!Spec

(***************************************************************************)
(* The lock is not left taken by nobody: while a task waits, it stops      *)
(* waiting or some task holds the lock.                                    *)
(***************************************************************************)
FreeLockIsTaken ==
  \A t \in Task :
    waits[t] # "none" ~>
      (waits[t] = "none" \/ \E u \in Task : holds[u] # "none")
=============================================================================
