------------------------------ MODULE MCTasks -------------------------------
(***************************************************************************)
(* The guards and jobs of a process: the guards of the repository lock,    *)
(* the update guard, the jobs of a transaction, and the receive sessions   *)
(* of a server.  They share no state, so a behaviour is one of them, as    *)
(* side says; the others rest in their initial states, where no step that  *)
(* fairness asks for is enabled.                                           *)
(*                                                                         *)
(* The lock: two processes, with three callers in one of them and two in   *)
(* the other.  Two update guards: one with two edits and a ref, one with   *)
(* an edit.  Three jobs.  One session with two requests, which is enough   *)
(* for a commit beside each other step.                                    *)
(***************************************************************************)
EXTENDS RepoLock

CONSTANTS
  p1, p2, t1, t2, t3, t4, t5,
  Guard, Write, GuardOf, Edit, NoGuard, NoWrite, g1, g2, e1, e2, e3, ref,
  Job,
  Session, Client, MaxSessions, ParallelUploads, NoSession

VARIABLES side

VARIABLES update, sharing, pruning, guard, inFlight, dirs, mutex, job, seen,
          closing, todo, config, edits, dirty, failed

guardVars == <<update, sharing, pruning, guard, inFlight, dirs, mutex, job, seen,
               closing, todo, config, edits, dirty, failed>>

Update == INSTANCE UpdateGuard WITH shared <- sharing

ASSUME WriteAssumption ==
  /\ GuardOf \in [Write -> Guard] /\ Edit \subseteq Write
  /\ NoGuard \notin Guard /\ NoWrite \notin Write

VARIABLES jjob, future, waker, orphans, taken, settle

jobsVars == <<jjob, future, waker, orphans, taken, settle>>

Jobs == INSTANCE Jobs WITH job <- jjob

VARIABLES closed, slot, committing, cancel, departing, state, inflight, core,
          signal, task, of, kind, rpc, parts, body, result

sessionVars == <<closed, slot, committing, cancel, departing, state, inflight, core,
                 signal, task, of, kind, rpc, parts, body, result>>

Receive == INSTANCE Sessions WITH pc <- rpc, holds <- parts, Request <- Client

ASSUME SessionAssumption ==
  MaxSessions \in Nat /\ ParallelUploads \in Nat \ {0} /\ NoSession \notin Session

MCProcess == {p1, p2}
MCTask == {t1, t2, t3, t4, t5}
MCProcOf == [t \in MCTask |-> IF t \in {t4, t5} THEN p2 ELSE p1]
MCLimited == {t2, t4}
MCGuardOf == [x \in Write |-> IF x = e3 THEN g2 ELSE g1]
MCEdit == Write \ {ref}

MCInit ==
  /\ side \in {"repo", "guard", "jobs", "session"}
  /\ Init /\ Update!Init /\ Jobs!Init /\ Receive!Init

MCNext ==
  \/ /\ side = "repo" /\ Next
     /\ UNCHANGED <<side, guardVars, jobsVars, sessionVars>>
  \/ /\ side = "guard" /\ Update!Next
     /\ UNCHANGED <<side, vars, jobsVars, sessionVars>>
  \/ /\ side = "jobs" /\ Jobs!Next
     /\ UNCHANGED <<side, vars, guardVars, sessionVars>>
  \/ /\ side = "session" /\ Receive!Next
     /\ UNCHANGED <<side, vars, guardVars, jobsVars>>

MCSpec ==
  /\ MCInit /\ [][MCNext]_<<side, vars, guardVars, jobsVars, sessionVars>>
  /\ Fairness /\ Update!Fairness /\ Jobs!Fairness /\ Receive!Fairness

-----------------------------------------------------------------------------
\* update.rs: a guard writes and syncs under both locks, and no prune runs then.
WritesUnderLocks == Update!WritesUnderLocks

\* update.rs: no edit of config is lost.
NoLostEdit == Update!NoLostEdit

\* update.rs: a guard that is gone releases both locks.
GuardReleases == Update!GuardReleases

\* jobs.rs: no job whose future dropped runs on when settle returns.
SettleSeesAll == Jobs!SettleSeesAll

\* jobs.rs: settle returns or is dropped.
SettleReturns == Jobs!SettleReturns

\* receive/service.rs: no step holds the core that a commit takes.
CommitOwnsCore == Receive!CommitOwnsCore

\* session.rs: nothing ends a session that commits.
CommitIsKept == Receive!CommitIsKept

\* session.rs: a session drops its transaction, also if its clients fall silent.
SessionIsReleased == Receive!SessionIsReleased
=============================================================================
