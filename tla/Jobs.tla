-------------------------------- MODULE Jobs --------------------------------
(***************************************************************************)
(* The blocking jobs of a transaction (crates/ostrya/src/jobs.rs).  A      *)
(* future that awaits a job can drop before the job ends.  The job runs on *)
(* and goes to the list of orphans, and settle waits for each orphan, so   *)
(* that a cleanup sees each name that the jobs created.                    *)
(*                                                                         *)
(* The list is a set here: a future drops once, so no job is twice in the  *)
(* list, and settle waits for each job it took, in whatever order.         *)
(***************************************************************************)
EXTENDS Naturals

CONSTANTS Job

VARIABLES
  job,      \* each job of the pool
  future,   \* the Tracked future of each job
  waker,    \* the waker of the last poll of the handle of each job
  orphans,  \* Jobs::orphans
  taken,    \* the orphans that settle has taken and not seen end
  settle    \* where the call of settle is

vars == <<job, future, waker, orphans, taken, settle>>

\* "taking": settle is about to take the list; "polling": it is about to poll
\* an orphan it took; "parked": that poll was pending.
TypeOK ==
  /\ job \in [Job -> {"unborn", "running", "ended"}]
  /\ future \in [Job -> {"none", "held", "resolved", "dropped"}]
  /\ waker \in [Job -> {"none", "caller", "noop", "settle"}]
  /\ orphans \subseteq Job /\ taken \subseteq Job
  /\ settle \in {"idle", "taking", "polling", "parked", "returned", "dropped"}

Init ==
  /\ job = [j \in Job |-> "unborn"]
  /\ future = [j \in Job |-> "none"]
  /\ waker = [j \in Job |-> "none"]
  /\ orphans = {} /\ taken = {}
  /\ settle = "idle"

\* Jobs::track of a job that starts.
Track(j) ==
  /\ job[j] = "unborn"
  /\ job' = [job EXCEPT ![j] = "running"]
  /\ future' = [future EXCEPT ![j] = "held"]
  /\ UNCHANGED <<waker, orphans, taken, settle>>

\* The job ends, and wakes the waker of the last poll of its handle.
End(j) ==
  /\ job[j] = "running"
  /\ job' = [job EXCEPT ![j] = "ended"]
  /\ settle' = IF waker[j] = "settle" /\ settle = "parked" THEN "polling" ELSE settle
  /\ UNCHANGED <<future, waker, orphans, taken>>

\* Tracked::poll.
PollTracked(j) ==
  /\ future[j] = "held"
  /\ IF job[j] = "ended"
     THEN future' = [future EXCEPT ![j] = "resolved"] /\ UNCHANGED waker
     ELSE waker' = [waker EXCEPT ![j] = "caller"] /\ UNCHANGED future
  /\ UNCHANGED <<job, orphans, taken, settle>>

\* Tracked::drop: one poll with no waker of each kept job, then the push.
DropTracked(j) ==
  LET kept == {i \in orphans : job[i] = "running"} IN
  /\ future[j] = "held"
  /\ future' = [future EXCEPT ![j] = "dropped"]
  /\ orphans' = kept \cup {j}
  /\ waker' = [i \in Job |-> IF i \in kept THEN "noop" ELSE waker[i]]
  /\ UNCHANGED <<job, taken, settle>>

\* A failed run calls settle.
Call ==
  /\ settle = "idle"
  /\ settle' = "taking"
  /\ UNCHANGED <<job, future, waker, orphans, taken>>

\* A mutant of Take: settle leaves the jobs it waits for in the list.
TakeCopy ==
  /\ settle = "taking"
  /\ settle' = IF \A j \in orphans : job[j] = "ended"
               THEN "returned" ELSE "polling"
  /\ taken' = orphans
  /\ UNCHANGED <<job, future, waker, orphans>>

\* settle takes the list, and returns when it is empty.
Take ==
  /\ settle = "taking"
  /\ settle' = IF orphans = {} THEN "returned" ELSE "polling"
  /\ taken' = orphans
  /\ orphans' = {}
  /\ UNCHANGED <<job, future, waker>>

\* A mutant of AfterLast: one pass over the list is enough.
AfterLastOnePass == "returned"

\* Where settle goes when it has seen each orphan it took end.
AfterLast == "taking"

\* settle polls an orphan that it took.
PollOrphan ==
  /\ settle = "polling"
  /\ \/ taken = {} /\ settle' = AfterLast /\ UNCHANGED <<waker, taken>>
     \/ \E j \in taken :
          IF job[j] = "ended"
          THEN taken' = taken \ {j} /\ UNCHANGED <<waker, settle>>
          ELSE /\ waker' = [waker EXCEPT ![j] = "settle"]
               /\ settle' = "parked"
               /\ UNCHANGED taken
  /\ UNCHANGED <<job, future, orphans>>

\* The task of settle is polled for another reason.
Repoll ==
  /\ settle = "parked"
  /\ settle' = "polling"
  /\ UNCHANGED <<job, future, waker, orphans, taken>>

\* The run that waits in settle drops, with the orphans it took.
DropSettle ==
  /\ settle \in {"taking", "polling", "parked"}
  /\ settle' = "dropped"
  /\ taken' = {}
  /\ UNCHANGED <<job, future, waker, orphans>>

Next ==
  \/ \E j \in Job : Track(j) \/ End(j) \/ PollTracked(j) \/ DropTracked(j)
  \/ Call \/ Take \/ PollOrphan \/ Repoll \/ DropSettle

Spec == Init /\ [][Next]_vars

\* A job ends, and the executor polls settle while it is woken.
Fairness ==
  /\ \A j \in Job : WF_vars(End(j))
  /\ WF_vars(Take) /\ WF_vars(PollOrphan)

-----------------------------------------------------------------------------
\* A job that runs on with no future is in the list, or settle waits for it,
\* unless settle was dropped with it.
Inv ==
  /\ TypeOK
  /\ \A j \in Job : future[j] # "none" => job[j] # "unborn"
  /\ settle # "dropped" =>
       \A j \in Job : future[j] = "dropped" /\ job[j] = "running" => j \in orphans \cup taken
  /\ taken # {} => settle \in {"polling", "parked"}

(***************************************************************************)
(* When settle returns, each job whose future dropped has ended, also one  *)
(* whose future dropped during the call, so no job creates a name behind   *)
(* the cleanup that follows (settle, Tracked::drop).                       *)
(***************************************************************************)
SettleSeesAll ==
  [][settle # "returned" /\ settle' = "returned"
       => \A j \in Job : future[j] = "dropped" => job[j] = "ended"]_vars

(***************************************************************************)
(* settle returns or is dropped: the poll with no waker of a drop beside   *)
(* it never takes the place of its own waker (Tracked::drop, settle).      *)
(***************************************************************************)
SettleReturns == settle = "taking" ~> settle \in {"returned", "dropped"}
=============================================================================
