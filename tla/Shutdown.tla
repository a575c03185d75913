------------------------------ MODULE Shutdown ------------------------------
(***************************************************************************)
(* The signal that stops the connections of a server                       *)
(* (crates/ostrya-server/src/shutdown.rs).  Each connection races a Wait,  *)
(* which keeps one waker slot under the mutex of the signal and reads the  *)
(* flag of the signal with no lock.                                        *)
(***************************************************************************)
EXTENDS Naturals

CONSTANTS
  Wait,    \* the Wait futures
  Waker,   \* the wakers that the polls of one Wait may bring
  NoWaker

VARIABLES
  flag,     \* Shutdown::fired, the atomic
  fired,    \* State::fired
  waiters,  \* State::waiters: the waker in the slot of each Wait
  stored,   \* Wait::waker
  current,  \* the waker of the last poll of each Wait
  pc,       \* where each Wait is
  fire,     \* where the call of fire is
  woken     \* the wakers that fire took and has not woken yet

vars == <<flag, fired, waiters, stored, current, pc, fire, woken>>

\* "polling": the executor polls it next; "locking": its poll read no signal
\* and goes for the mutex; "parked": its last poll was pending.
TypeOK ==
  /\ flag \in BOOLEAN /\ fired \in BOOLEAN
  /\ waiters \in [Wait -> Waker \cup {NoWaker}]
  /\ stored \in [Wait -> Waker \cup {NoWaker}]
  /\ current \in [Wait -> Waker \cup {NoWaker}]
  /\ pc \in [Wait -> {"unborn", "polling", "locking", "parked", "ready", "dropped"}]
  /\ fire \in {"idle", "locked", "waking"}
  /\ woken \in SUBSET (Wait \X Waker)

Init ==
  /\ flag = FALSE /\ fired = FALSE
  /\ waiters = [w \in Wait |-> NoWaker]
  /\ stored = [w \in Wait |-> NoWaker]
  /\ current = [w \in Wait |-> NoWaker]
  /\ pc = [w \in Wait |-> "unborn"]
  /\ fire = "idle"
  /\ woken = {}

Goes(w, s) == pc' = [pc EXCEPT ![w] = s]

\* The first poll of a Wait, and a poll that no wake asked for, which may
\* come with another waker.
Polled(w) ==
  /\ pc[w] \in {"unborn", "parked"}
  /\ Goes(w, "polling")
  /\ \E k \in Waker : current' = [current EXCEPT ![w] = k]
  /\ UNCHANGED <<flag, fired, waiters, stored, fire, woken>>

\* A mutant of ReadFlag: the poll compares the wakers before it reads the flag.
ReadFlagLast(w) ==
  /\ pc[w] = "polling"
  /\ Goes(w, IF stored[w] = current[w] THEN "parked"
             ELSE IF flag THEN "ready" ELSE "locking")
  /\ UNCHANGED <<flag, fired, waiters, stored, current, fire, woken>>

\* Wait::poll before the mutex.
ReadFlag(w) ==
  /\ pc[w] = "polling"
  /\ Goes(w, IF flag THEN "ready"
             ELSE IF stored[w] = current[w] THEN "parked" ELSE "locking")
  /\ UNCHANGED <<flag, fired, waiters, stored, current, fire, woken>>

\* Wait::poll under the mutex.
Store(w) ==
  /\ pc[w] = "locking" /\ fire # "locked"
  /\ IF fired
     THEN Goes(w, "ready") /\ UNCHANGED <<waiters, stored>>
     ELSE /\ waiters' = [waiters EXCEPT ![w] = current[w]]
          /\ stored' = [stored EXCEPT ![w] = current[w]]
          /\ Goes(w, "parked")
  /\ UNCHANGED <<flag, fired, current, fire, woken>>

\* Wait::drop: its connection ended.
Drop(w) ==
  /\ pc[w] \in {"polling", "parked", "ready"} /\ fire # "locked"
  /\ waiters' = [waiters EXCEPT ![w] = NoWaker]
  /\ Goes(w, "dropped")
  /\ UNCHANGED <<flag, fired, stored, current, fire, woken>>

\* Shutdown::fire, under the mutex: the state of the signal.
Fire ==
  /\ fire = "idle"
  /\ fire' = "locked"
  /\ fired' = TRUE
  /\ UNCHANGED <<flag, waiters, stored, current, pc, woken>>

\* The store of the flag, the take of the slots, and the unlock.
TakeWaiters ==
  /\ fire = "locked"
  /\ fire' = "waking"
  /\ flag' = TRUE
  /\ woken' = {<<w, waiters[w]>> : w \in {v \in Wait : waiters[v] # NoWaker}}
  /\ waiters' = [w \in Wait |-> NoWaker]
  /\ UNCHANGED <<fired, stored, current, pc>>

\* The wake of one waker: a Wait that parked under it runs.
Wake ==
  \E p \in woken :
    /\ woken' = woken \ {p}
    /\ pc' = IF pc[p[1]] = "parked" /\ current[p[1]] = p[2]
             THEN [pc EXCEPT ![p[1]] = "polling"] ELSE pc
    /\ UNCHANGED <<flag, fired, waiters, stored, current, fire>>

Next ==
  \/ \E w \in Wait : Polled(w) \/ ReadFlag(w) \/ Store(w) \/ Drop(w)
  \/ Fire \/ TakeWaiters \/ Wake

Spec == Init /\ [][Next]_vars

\* A poll runs to its end, as does fire, and the executor polls what is
\* woken.  Nothing polls a parked Wait again.
Fairness ==
  /\ \A w \in Wait : WF_vars(ReadFlag(w)) /\ WF_vars(Store(w))
  /\ WF_vars(TakeWaiters) /\ WF_vars(Wake)

-----------------------------------------------------------------------------
(***************************************************************************)
(* The signal reaches each connection: a Wait that was polled completes or *)
(* drops after fire, whatever its polls raced with (fire, Wait::poll).     *)
(***************************************************************************)
SignalReachesAll ==
  \A w \in Wait :
    fired /\ pc[w] # "unborn" ~> pc[w] \in {"ready", "dropped"}
=============================================================================
