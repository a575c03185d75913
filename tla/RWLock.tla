------------------------------- MODULE RWLock -------------------------------
(***************************************************************************)
(* What the repository lock promises (the rules of LockKind,               *)
(* crates/ostrya/src/lock.rs): many shared holders or one exclusive        *)
(* holder, over all the processes that have the repository open.           *)
(***************************************************************************)
CONSTANT Task  \* the callers that acquire the lock

VARIABLES
  readers,  \* the tasks with a shared hold
  writers   \* the tasks with an exclusive hold

vars == <<readers, writers>>

Init == readers = {} /\ writers = {}

\* A shared acquire waits while an exclusive holder exists.
AcquireShared(t) ==
  /\ t \notin readers \cup writers
  /\ writers = {}
  /\ readers' = readers \cup {t}
  /\ UNCHANGED writers

\* An exclusive acquire waits while any holder exists.
AcquireExclusive(t) ==
  /\ readers = {} /\ writers = {}
  /\ writers' = {t}
  /\ UNCHANGED readers

\* Holders give up their holds: one by the drop of its guard, or all the
\* holders of a process by its end.
Release(S) ==
  /\ readers' = readers \ S
  /\ writers' = writers \ S

Next ==
  \/ \E t \in Task : AcquireShared(t) \/ AcquireExclusive(t)
  \/ \E S \in SUBSET Task : Release(S)

Spec == Init /\ [][Next]_vars
=============================================================================
