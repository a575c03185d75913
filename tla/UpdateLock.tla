----------------------------- MODULE UpdateLock -----------------------------
(***************************************************************************)
(* The update lock of a repository (crates/ostrya/src/lock/update.rs): an  *)
(* exclusive fcntl record lock on <repo>/.update.lock, and inside each     *)
(* process a queue of waiters of which only the head makes lock requests.  *)
(*                                                                         *)
(* A task is one call of acquire_update and the UpdateLockHeld guard that  *)
(* the call returns.  A ticket is the task that took it, because a task    *)
(* has at most one place in the queue at a time.                           *)
(***************************************************************************)
EXTENDS Naturals, Sequences, LockCallers

CONSTANTS
  NoProcess, \* no process has the record lock
  NoTask     \* no task

ASSUME NoneAssumption == NoProcess \notin Process /\ NoTask \notin Task

VARIABLES
  record,  \* the process that has the record lock of the file (the kernel)
  held,    \* UpdateState::held of each process
  queue,   \* UpdateState::queue of each process: the tickets in order
  waker,   \* the waker in the queue entry of each task
  pc,      \* where each task is
  wakee    \* the waker that a task took from the queue and has not yet woken

vars == <<record, held, queue, waker, pc, wakee>>

(***************************************************************************)
(* "idle"       outside acquire_update, with no guard                      *)
(* "polling"    the executor runs the future next                          *)
(* "parked"     the last poll_turn was pending                             *)
(* "sleeping"   a contended head, in its wait of POLL_INTERVAL             *)
(* "holding"    the guard lives                                            *)
(* "releasing"  the drop of the guard has unlocked the record lock         *)
(* "waking"     the task has left the state mutex with a waker to wake     *)
(***************************************************************************)
Waiting == {"polling", "parked", "sleeping"}

PC == Waiting \cup {"idle", "holding", "releasing", "waking"}

Init ==
  /\ record = NoProcess
  /\ held = [p \in Process |-> FALSE]
  /\ queue = [p \in Process |-> <<>>]
  /\ waker = [t \in Task |-> FALSE]
  /\ pc = [t \in Task |-> "idle"]
  /\ wakee = [t \in Task |-> NoTask]

-----------------------------------------------------------------------------
IsHead(t) ==
  LET q == queue[ProcOf[t]]
  IN  q # <<>> /\ Head(q) = t

(***************************************************************************)
(* The kernel grants an exclusive F_SETLK request of a process unless      *)
(* another process has the lock.  It also grants a process the lock that   *)
(* the process has already.                                                *)
(***************************************************************************)
RecordFree(p) == record \in {NoProcess, p}

\* A mutant of MayRequest: poll_turn that does not look at the hold.
MayRequestHead(t) == IsHead(t)

\* Only the head makes a lock request, and only while no guard of its process
\* has the lock: the kernel would grant it a second time.
MayRequest(t) == IsHead(t) /\ ~held[ProcOf[t]]

\* A mutant of KeepWaker: the waker of the first pending poll only.
KeepWakerNever(t) == waker

\* The waker of the last pending poll, kept in the queue.
KeepWaker(t) == [waker EXCEPT ![t] = TRUE]

\* The queue without the one place of t (VecDeque::retain; tickets are unique).
Without(q, t) ==
  LET i == CHOOSE n \in 1..Len(q) : q[n] = t
  IN  [n \in 1..(Len(q) - 1) |-> IF n < i THEN q[n] ELSE q[n + 1]]

\* A waker belongs to one future: a wake that is on its way to a future that
\* has ended wakes nothing, even if the same caller enqueues again.
Disarm(w, t) == [u \in Task |-> IF w[u] = t THEN NoTask ELSE w[u]]

(***************************************************************************)
(* wake_head: the task t takes the waker of the head of the queue q, if    *)
(* the head left one, and wakes it after it leaves the mutex.  The future  *)
(* or the guard of t ends here.                                            *)
(***************************************************************************)
WakeHead(t, q) ==
  IF q # <<>> /\ waker[Head(q)]
  THEN /\ waker' = [waker EXCEPT ![Head(q)] = FALSE, ![t] = FALSE]
       /\ wakee' = [Disarm(wakee, t) EXCEPT ![t] = Head(q)]
       /\ pc' = [pc EXCEPT ![t] = "waking"]
  ELSE /\ waker' = [waker EXCEPT ![t] = FALSE]
       /\ wakee' = Disarm(wakee, t)
       /\ pc' = [pc EXCEPT ![t] = "idle"]

\* A mutant of HandsOver: a place that leaves never hands the turn on.
HandsOverNever(t) == FALSE

\* The place that leaves is the head, and no guard has the lock, so that no
\* release is going to wake the next head.
HandsOver(t) == IsHead(t) /\ ~held[ProcOf[t]]

(***************************************************************************)
(* The drop of a Place before its grant: the ticket leaves the queue, and  *)
(* a place that leaves the head hands the turn to the next waiter.         *)
(***************************************************************************)
Leave(t) ==
  LET p == ProcOf[t]
      rest == Without(queue[p], t)
  IN  /\ queue' = [queue EXCEPT ![p] = rest]
      /\ WakeHead(t, IF HandsOver(t) THEN rest ELSE <<>>)
      /\ UNCHANGED <<record, held>>

\* Place::enqueue, on the first poll of acquire_update.
Enqueue(t) ==
  /\ pc[t] = "idle"
  /\ queue' = [queue EXCEPT ![ProcOf[t]] = Append(@, t)]
  /\ pc' = [pc EXCEPT ![t] = "polling"]
  /\ UNCHANGED <<record, held, waker, wakee>>

\* poll_turn of the head while no guard of the process holds the lock: the
\* record lock request succeeds.
PollGranted(t) ==
  LET p == ProcOf[t]
  IN  /\ pc[t] = "polling"
      /\ MayRequest(t)
      /\ RecordFree(p)
      /\ record' = p
      /\ held' = [held EXCEPT ![p] = TRUE]
      /\ queue' = [queue EXCEPT ![p] = Tail(@)]
      /\ waker' = [waker EXCEPT ![t] = FALSE]
      /\ wakee' = Disarm(wakee, t)
      /\ pc' = [pc EXCEPT ![t] = "holding"]

\* The same poll while another process has the record lock.  The task waits
\* for the poll interval, or its deadline has passed and it gives up.
PollContended(t) ==
  /\ pc[t] = "polling"
  /\ MayRequest(t)
  /\ ~RecordFree(ProcOf[t])
  /\ \/ /\ pc' = [pc EXCEPT ![t] = "sleeping"]
        /\ UNCHANGED <<record, held, queue, waker, wakee>>
     \/ t \in Limited /\ Leave(t)

\* A poll before the turn of the task: it keeps its waker in the queue, or
\* its deadline timer is ready and it gives up.
PollPending(t) ==
  /\ pc[t] = "polling"
  /\ ~MayRequest(t)
  /\ \/ /\ waker' = KeepWaker(t)
        /\ pc' = [pc EXCEPT ![t] = "parked"]
        /\ UNCHANGED <<record, held, queue, wakee>>
     \/ t \in Limited /\ Leave(t)

\* The lock request fails with another error, and acquire_update returns it.
PollError(t) ==
  /\ pc[t] = "polling"
  /\ MayRequest(t)
  /\ Leave(t)

\* The POLL_INTERVAL timer of a contended head fires.
SleepEnds(t) ==
  /\ pc[t] = "sleeping"
  /\ pc' = [pc EXCEPT ![t] = "polling"]
  /\ UNCHANGED <<record, held, queue, waker, wakee>>

\* The deadline timer of a parked task fires, and the executor polls it.
DeadlineFires(t) ==
  /\ pc[t] = "parked" /\ t \in Limited
  /\ pc' = [pc EXCEPT ![t] = "polling"]
  /\ UNCHANGED <<record, held, queue, waker, wakee>>

\* The caller drops the future of acquire_update between two polls.
Cancel(t) ==
  /\ pc[t] \in Waiting
  /\ Leave(t)

\* The drop of UpdateLockHeld, first step: the record lock goes.
Unlock(t) ==
  /\ pc[t] = "holding"
  /\ record' = NoProcess
  /\ pc' = [pc EXCEPT ![t] = "releasing"]
  /\ UNCHANGED <<held, queue, waker, wakee>>

\* The drop of UpdateLockHeld, second step, under the state mutex.
ReleaseHold(t) ==
  LET p == ProcOf[t]
  IN  /\ pc[t] = "releasing"
      /\ held' = [held EXCEPT ![p] = FALSE]
      /\ WakeHead(t, queue[p])
      /\ UNCHANGED <<record, queue>>

\* waker.wake(), after the state mutex.  The woken task may have left.
Wake(t) ==
  /\ pc[t] = "waking"
  /\ pc' = [u \in Task |->
              IF u = t THEN "idle"
              ELSE IF u = wakee[t] /\ pc[u] = "parked" THEN "polling"
              ELSE pc[u]]
  /\ wakee' = [wakee EXCEPT ![t] = NoTask]
  /\ UNCHANGED <<record, held, queue, waker>>

\* The process ends at any point.  The kernel drops its record lock.
ProcessEnds(p) ==
  /\ \E t \in Task : ProcOf[t] = p /\ pc[t] # "idle"
  /\ record' = IF record = p THEN NoProcess ELSE record
  /\ held' = [held EXCEPT ![p] = FALSE]
  /\ queue' = [queue EXCEPT ![p] = <<>>]
  /\ waker' = [t \in Task |-> waker[t] /\ ProcOf[t] # p]
  /\ pc' = [t \in Task |-> IF ProcOf[t] = p THEN "idle" ELSE pc[t]]
  /\ wakee' = [t \in Task |-> IF ProcOf[t] = p THEN NoTask ELSE wakee[t]]

Poll(t) == PollGranted(t) \/ PollContended(t) \/ PollPending(t) \/ PollError(t)

Next ==
  \/ \E t \in Task :
       \/ Enqueue(t) \/ Poll(t) \/ SleepEnds(t) \/ DeadlineFires(t)
       \/ Cancel(t) \/ Unlock(t) \/ ReleaseHold(t) \/ Wake(t)
  \/ \E p \in Process : ProcessEnds(p)

Spec == Init /\ [][Next]_vars

(***************************************************************************)
(* The executor polls a woken task, timers fire, a started drop ends, and  *)
(* a holder does release: the guard of the update lock lives in a closure  *)
(* of the blocking pool or in a call that returns.  Nothing makes a caller *)
(* enqueue, cancel, or time out.                                           *)
(***************************************************************************)
Fairness ==
  \A t \in Task :
    /\ WF_vars(PollGranted(t) \/ PollContended(t) \/ PollPending(t))
    /\ WF_vars(SleepEnds(t))
    /\ WF_vars(Unlock(t))
    /\ WF_vars(ReleaseHold(t))
    /\ WF_vars(Wake(t))

FairSpec == Spec /\ Fairness

-----------------------------------------------------------------------------
TypeOK ==
  /\ record \in Process \cup {NoProcess}
  /\ held \in [Process -> BOOLEAN]
  /\ queue \in [Process -> Seq(Task)]
  /\ waker \in [Task -> BOOLEAN]
  /\ pc \in [Task -> PC]
  /\ wakee \in [Task -> Task \cup {NoTask}]

(***************************************************************************)
(* At most one guard of all processes lives while its record lock is in    *)
(* place, although the kernel never makes two tasks of one process exclude *)
(* each other (poll_turn, UpdateLockHeld::drop).                           *)
(***************************************************************************)
MutualExclusion ==
  \A t, u \in Task : pc[t] = "holding" /\ pc[u] = "holding" => t = u

(***************************************************************************)
(* No wakeup is lost.  Whenever a process has waiters and no guard, the    *)
(* head of its queue runs, or runs after a timer, or a task that left the  *)
(* state mutex is about to wake it.  A wake that goes to a place that has  *)
(* left, or a place that leaves the head with no wake, would leave the     *)
(* other waiters parked with the lock free.                                *)
(***************************************************************************)
NoLostWakeup ==
  \A p \in Process :
    queue[p] # <<>> /\ ~held[p] =>
      LET h == Head(queue[p])
      IN  \/ pc[h] \in {"polling", "sleeping"}
          \/ \E t \in Task : pc[t] = "waking" /\ wakee[t] = h

(***************************************************************************)
(* The inductive invariant.                                                *)
(***************************************************************************)
\* A process has a guard, or the drop of one, exactly while held is set; the
\* guard and the drop are never two; a guard has the record lock.
HoldInv ==
  /\ \A t \in Task : pc[t] \in {"holding", "releasing"} => held[ProcOf[t]]
  /\ \A t, u \in Task :
       /\ pc[t] \in {"holding", "releasing"}
       /\ pc[u] \in {"holding", "releasing"}
       /\ ProcOf[t] = ProcOf[u]
       => t = u
  /\ \A t \in Task : pc[t] = "holding" => record = ProcOf[t]

\* The queue of a process holds each waiting task of the process once, and
\* nothing else.
QueueInv ==
  /\ \A p \in Process : \A i \in DOMAIN queue[p] :
       ProcOf[queue[p][i]] = p /\ pc[queue[p][i]] \in Waiting
  /\ \A p \in Process : \A i, j \in DOMAIN queue[p] :
       queue[p][i] = queue[p][j] => i = j
  /\ \A t \in Task : pc[t] \in Waiting =>
       \E i \in DOMAIN queue[ProcOf[t]] : queue[ProcOf[t]][i] = t

WakePending(t) == \E u \in Task : pc[u] = "waking" /\ wakee[u] = t

\* A parked task left a waker in the queue, or someone took it and is going
\* to wake it; a parked head of a process with no guard is going to be woken.
WakeInv ==
  /\ \A t \in Task : pc[t] = "parked" => waker[t] \/ WakePending(t)
  /\ \A t \in Task :
       pc[t] = "parked" /\ MayRequest(t) => WakePending(t)

\* A wake stays inside its process.
WakeeInv ==
  \A t \in Task :
    pc[t] = "waking" /\ wakee[t] \in Task => ProcOf[wakee[t]] = ProcOf[t]

Inv == TypeOK /\ HoldInv /\ QueueInv /\ WakeInv /\ WakeeInv

(***************************************************************************)
(* Each waiter gets the lock, or gives up, once no other process takes the *)
(* record lock any more.  The queue gives no such promise against other    *)
(* processes that go on: a head can lose each retry (Repo::lock_update).   *)
(***************************************************************************)
WaiterProceeds ==
  \A t \in Task :
    <>[](record \in {ProcOf[t], NoProcess})
      => (pc[t] \in Waiting ~> pc[t] \notin Waiting)

=============================================================================
