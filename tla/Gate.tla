-------------------------------- MODULE Gate --------------------------------
(***************************************************************************)
(* The admission gate of the fetcher (crates/ostrya-fetch/src/gate.rs): a  *)
(* fixed number of permits, and a queue of waiters by priority and then by *)
(* arrival.  A permit that is released goes straight to the first waiter,  *)
(* which takes it at its next poll.                                        *)
(*                                                                         *)
(* A request is one Acquire future at a time, then the Permit that it      *)
(* gave.  The queue is the sequence of the waiting requests by arrival, so *)
(* a place in it stands for the sequence number of the WaitKey.            *)
(***************************************************************************)
EXTENDS Naturals, FiniteSets, SequencesExt

CONSTANTS
  Request,
  Limit,     \* the number of permits
  Rank,      \* the priority of each request
  NoRequest

VARIABLES
  free,     \* State::free
  waiting,  \* State::waiting, by arrival
  granted,  \* State::granted
  pc,       \* where each request is
  wakee     \* the request that a dropped permit or future has yet to wake

vars == <<free, waiting, granted, pc, wakee>>

(***************************************************************************)
(* "idle"; "polling", the executor polls the future next; "parked", the    *)
(* last poll was pending; "has", the permit; "waking", the drop has left   *)
(* the mutex with a waker to wake.                                         *)
(***************************************************************************)
TypeOK ==
  /\ free \in 0..Limit
  /\ waiting \in Seq(Request)
  /\ granted \subseteq Request
  /\ pc \in [Request -> {"idle", "polling", "parked", "has", "waking"}]
  /\ wakee \in [Request -> Request \cup {NoRequest}]

Init ==
  /\ free = Limit
  /\ waiting = <<>>
  /\ granted = {}
  /\ pc = [r \in Request |-> "idle"]
  /\ wakee = [r \in Request |-> NoRequest]

-----------------------------------------------------------------------------
Goes(r, s) == pc' = [pc EXCEPT ![r] = s]

Waits(r) == r \in Range(waiting)

\* The place i of the queue comes before the place j.
Before(q, i, j) == Rank[q[i]] > Rank[q[j]] \/ (Rank[q[i]] = Rank[q[j]] /\ i < j)

\* The request with the smallest WaitKey.
First(q) ==
  q[CHOOSE i \in DOMAIN q : \A j \in DOMAIN q \ {i} : Before(q, i, j)]

\* Acquire::poll of a future with no place in the queue.
PollNew(r) ==
  /\ pc[r] = "polling" /\ ~Waits(r) /\ r \notin granted
  /\ IF free > 0
     THEN free' = free - 1 /\ Goes(r, "has") /\ UNCHANGED waiting
     ELSE waiting' = Append(waiting, r) /\ Goes(r, "parked") /\ UNCHANGED free
  /\ UNCHANGED <<granted, wakee>>

\* Acquire::poll of a future with a place.
PollAgain(r) ==
  /\ pc[r] = "polling" /\ (Waits(r) \/ r \in granted)
  /\ granted' = granted \ {r}
  /\ Goes(r, IF r \in granted THEN "has" ELSE "parked")
  /\ UNCHANGED <<free, waiting, wakee>>

\* A future with no permit is polled for another reason.
Repoll(r) ==
  /\ pc[r] \in {"idle", "parked"}
  /\ Goes(r, "polling")
  /\ UNCHANGED <<free, waiting, granted, wakee>>

\* A waker that waits to be woken goes to nothing when its future ends.
Disarmed(r) == [a \in Request |-> IF wakee[a] = r THEN NoRequest ELSE wakee[a]]

\* State::hand_off by the drop of r: q is the queue, g the granted requests.
HandOff(r, q, g) ==
  IF q # <<>>
  THEN /\ waiting' = Remove(q, First(q))
       /\ granted' = g \cup {First(q)}
       /\ wakee' = [Disarmed(r) EXCEPT ![r] = First(q)]
       /\ Goes(r, "waking")
       /\ UNCHANGED free
  ELSE /\ free' = free + 1
       /\ waiting' = q
       /\ granted' = g
       /\ wakee' = Disarmed(r)
       /\ Goes(r, "idle")

\* Permit::drop.
Release(r) ==
  /\ pc[r] = "has"
  /\ HandOff(r, waiting, granted)

HandsOn(r) == r \in granted

\* Acquire::drop.
Drop(r) ==
  /\ pc[r] \in {"polling", "parked"}
  /\ IF HandsOn(r)
     THEN HandOff(r, waiting, granted \ {r})
     ELSE /\ waiting' = Remove(waiting, r)
          /\ granted' = granted \ {r}
          /\ wakee' = Disarmed(r)
          /\ Goes(r, "idle")
          /\ UNCHANGED free

\* A mutant of Woken: the wake is skipped.
WokenNever(r) == [pc EXCEPT ![r] = "idle"]

\* The wake makes a parked future run.
Woken(r) ==
  [a \in Request |-> IF a = r THEN "idle"
                     ELSE IF a = wakee[r] /\ pc[a] = "parked" THEN "polling"
                     ELSE pc[a]]

\* The drop of r wakes the request that it served, outside the mutex.
Wake(r) ==
  /\ pc[r] = "waking"
  /\ pc' = Woken(r)
  /\ wakee' = [wakee EXCEPT ![r] = NoRequest]
  /\ UNCHANGED <<free, waiting, granted>>

Next ==
  \E r \in Request :
    PollNew(r) \/ PollAgain(r) \/ Repoll(r) \/ Release(r) \/ Drop(r) \/ Wake(r)

Spec == Init /\ [][Next]_vars

(***************************************************************************)
(* The executor polls what is woken, a drop runs to its end, and a request *)
(* that has a permit ends.  Nothing polls a parked future again.           *)
(***************************************************************************)
Fairness ==
  \A r \in Request :
    /\ WF_vars(PollNew(r) \/ PollAgain(r))
    /\ WF_vars(Release(r))
    /\ WF_vars(Wake(r))

-----------------------------------------------------------------------------
\* A waiter of the highest priority gets its permit in the end, or is
\* dropped; a lower priority has no such promise (poll, release).
FirstRankIsServed ==
  \A r \in Request :
    (\A a \in Request : Rank[a] <= Rank[r])
      => (Waits(r) ~> pc[r] \notin {"polling", "parked"})
=============================================================================
