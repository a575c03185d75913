---------------------------- MODULE LockCallers -----------------------------
(***************************************************************************)
(* The callers of a lock file: tasks of the processes that have one        *)
(* repository open (crates/ostrya/src/lock.rs, lock/update.rs).            *)
(***************************************************************************)
EXTENDS FiniteSets

CONSTANTS
  Process,  \* the processes that have the repository open
  Task,     \* the calls of acquire, or of acquire_update, in all processes
  ProcOf,   \* the process of each task
  Limited   \* the tasks whose wait has a deadline ([core] lock-timeout-secs)

ASSUME TaskAssumption == IsFiniteSet(Task)
ASSUME ProcOfAssumption == ProcOf \in [Task -> Process]
ASSUME LimitedAssumption == Limited \subseteq Task
=============================================================================
