------------------------------ MODULE Sessions ------------------------------
(***************************************************************************)
(* The receive sessions of a server: the table of the endpoint             *)
(* (crates/ostrya-server/src/session.rs), its requests (receive.rs), and   *)
(* the service of each session (crates/ostrya/src/receive/service.rs).     *)
(* The mutex of the table and the mutex of a service are never held        *)
(* together: each action below is one hold of one of them.                 *)
(*                                                                         *)
(* Time is a choice: a deadline of the sweep has passed or has not.  The   *)
(* body of a request waits for its client at most once.  The signals are   *)
(* flags here: that they reach each waiter is the subject of Shutdown,     *)
(* whose protocol AbortSignal repeats.                                     *)
(***************************************************************************)
EXTENDS Naturals, FiniteSets

CONSTANTS
  Session,
  Request,
  MaxSessions,     \* SessionTable::max
  ParallelUploads, \* ReceiveService::parallel_uploads
  NoSession

VARIABLES
  closed,      \* State::closed of the table
  slot,        \* "pending" is a Reservation, "open" an Entry of the table
  committing,  \* Entry::committing
  cancel,      \* Entry::cancel: the signal fired
  departing,     \* where Entry::close of a removed entry is
  state,       \* State of the ReceiveService
  inflight,    \* the counts of State::Open, by kind
  core,        \* the references to the SessionCore, which has the transaction
  signal,      \* AbortSignal::fired
  task,        \* where the task of the commit is
  of,          \* the session that a request looked up
  kind,        \* the step that a request asks for
  pc,          \* where a request is
  holds,       \* the requests that hold a clone of the core
  body,        \* the body of a request
  result       \* how the step of a request ended: "no" until it does

vars == <<closed, slot, committing, cancel, departing, state, inflight, core,
          signal, task, of, kind, pc, holds, body, result>>

table == <<closed, slot, committing, cancel, departing>>
service == <<state, inflight, core, signal>>
request == <<of, kind, body, result>>

TypeOK ==
  /\ closed \in BOOLEAN
  /\ slot \in [Session -> {"free", "pending", "open", "ended"}]
  /\ committing \in [Session -> BOOLEAN]
  /\ cancel \in [Session -> BOOLEAN]
  /\ departing \in [Session -> {"no", "cancel", "abort", "over"}]
  /\ state \in [Session -> {"unborn", "open", "committing", "closed"}]
  /\ inflight \in [Session -> [{"have", "objects"} -> Nat]]
  /\ core \in [Session -> Nat]
  /\ signal \in [Session -> BOOLEAN]
  /\ task \in [Session -> {"none", "spawned", "running", "ending", "over"}]
  /\ of \in [Request -> Session \cup {NoSession}]
  /\ kind \in [Request -> {"have", "objects", "commit"}]
  /\ pc \in [Request -> {"new", "message", "enter", "step", "release", "uncount",
                         "begin", "task", "fail", "respond", "leave", "over"}]
  /\ holds \in SUBSET Request
  /\ body \in [Request -> {"unread", "waiting", "whole", "gone"}]
  /\ result \in [Request -> {"no", "ok", "err", "cut", "cancelled"}]

Init ==
  /\ closed = FALSE
  /\ slot = [s \in Session |-> "free"]
  /\ committing = [s \in Session |-> FALSE]
  /\ cancel = [s \in Session |-> FALSE]
  /\ departing = [s \in Session |-> "no"]
  /\ state = [s \in Session |-> "unborn"]
  /\ inflight = [s \in Session |-> [k \in {"have", "objects"} |-> 0]]
  /\ core = [s \in Session |-> 0]
  /\ signal = [s \in Session |-> FALSE]
  /\ task = [s \in Session |-> "none"]
  /\ of = [r \in Request |-> NoSession]
  /\ kind = [r \in Request |-> "have"]
  /\ pc = [r \in Request |-> "new"]
  /\ holds = {}
  /\ body = [r \in Request |-> "unread"]
  /\ result = [r \in Request |-> "no"]

-----------------------------------------------------------------------------
(* The service of a session, under its mutex.                              *)

\* close_locked and closed: an open session takes no more steps, its reads
\* fail, and the reference of the state goes.
CloseService(s) ==
  IF state[s] = "open"
  THEN /\ state' = [state EXCEPT ![s] = "closed"]
       /\ signal' = [signal EXCEPT ![s] = TRUE]
       /\ core' = [core EXCEPT ![s] = @ - 1]
  ELSE UNCHANGED <<state, signal, core>>

LimitOf(k) == IF k = "objects" THEN ParallelUploads ELSE 1

Goes(r, p) == pc' = [pc EXCEPT ![r] = p]

\* enter: the step counts and holds the core, or it is refused.  A step past
\* its limit ends the session.
Enter(r) ==
  LET s == of[r]
      k == kind[r] IN
  /\ pc[r] = "enter"
  /\ IF state[s] = "open" /\ inflight[s][k] < LimitOf(k)
     THEN /\ inflight' = [inflight EXCEPT ![s][k] = @ + 1]
          /\ core' = [core EXCEPT ![s] = @ + 1]
          /\ holds' = holds \cup {r}
          /\ Goes(r, "step")
          /\ UNCHANGED <<state, signal>>
     ELSE CloseService(s) /\ Goes(r, "fail") /\ UNCHANGED <<inflight, holds>>
  /\ UNCHANGED <<table, task, request>>

Body(r, b) == body' = [body EXCEPT ![r] = b]

\* The step future of r ends or drops with the outcome o.
Outcome(r, o) == result' = [result EXCEPT ![r] = o] /\ Body(r, "gone")

\* The step completes, and Step::end finds the session open or closed.  An
\* object stream completes when its body is whole.
StepEnds(r) ==
  /\ pc[r] = "step" /\ (kind[r] = "have" \/ body[r] = "whole")
  /\ Outcome(r, IF state[of[r]] = "closed" THEN "err" ELSE "ok")
  /\ Goes(r, "release")
  /\ UNCHANGED <<table, service, task, of, kind, holds>>

\* The step fails: Step::end closes the service.
StepFails(r) ==
  /\ pc[r] = "step"
  /\ Outcome(r, "err")
  /\ CloseService(of[r])
  /\ Goes(r, "release")
  /\ UNCHANGED <<table, inflight, task, of, kind, holds>>

\* Abortable::poll_read: the read of an object stream fails after the signal.
ReadFails(r) == kind[r] = "objects" /\ signal[of[r]] /\ StepFails(r)

\* Step::drop before its lock: the clone of the core goes.
Release(r) ==
  /\ pc[r] = "release"
  /\ holds' = holds \ {r}
  /\ core' = [core EXCEPT ![of[r]] = @ - 1]
  /\ Goes(r, "uncount")
  /\ UNCHANGED <<table, state, inflight, signal, task, request>>

\* Step::drop under its lock.  A step that did not end closes the session.
Uncount(r) ==
  LET s == of[r] IN
  /\ pc[r] = "uncount"
  /\ inflight' = IF state[s] = "open"
                 THEN [inflight EXCEPT ![s][kind[r]] = @ - 1] ELSE inflight
  /\ IF result[r] \in {"ok", "err"}
     THEN UNCHANGED <<state, signal, core>> ELSE CloseService(s)
  /\ Goes(r, CASE result[r] = "err" -> "fail"
               [] result[r] = "cut" -> "leave"
               [] OTHER -> "respond")
  /\ UNCHANGED <<table, task, request, holds>>

\* A mutant of Quiet: a have in flight does not hinder the commit.
QuietUploads(s) == state[s] = "open" /\ inflight[s]["objects"] = 0

\* The session is open and no step is in flight.
Quiet(s) == state[s] = "open" /\ \A k \in {"have", "objects"} : inflight[s][k] = 0

\* ReceiveService::commit: it takes the session if no step is in flight.
TaskStarts(s) ==
  /\ task[s] = "spawned"
  /\ IF Quiet(s)
     THEN /\ state' = [state EXCEPT ![s] = "committing"]
          /\ task' = [task EXCEPT ![s] = "running"]
          /\ UNCHANGED <<core, signal>>
     ELSE CloseService(s) /\ task' = [task EXCEPT ![s] = "ending"]
  /\ UNCHANGED <<table, inflight, request, pc, holds>>

\* finish returns, and Ending::drop closes the session.
TaskEnds(s) ==
  /\ task[s] = "running"
  /\ task' = [task EXCEPT ![s] = "ending"]
  /\ state' = [state EXCEPT ![s] = "closed"]
  /\ core' = [core EXCEPT ![s] = @ - 1]
  /\ UNCHANGED <<table, inflight, signal, request, pc, holds>>

-----------------------------------------------------------------------------
(* The table, under its mutex.                                             *)

In(p) == {s \in Session : slot[s] = p}

\* Takes the entries of ss from the table.  Entry::close of each follows.
Remove(ss) ==
  /\ slot' = [s \in Session |-> IF s \in ss THEN "ended" ELSE slot[s]]
  /\ departing' = [s \in Session |-> IF s \in ss THEN "cancel" ELSE departing[s]]

\* SessionTable::reserve.  The open request of a session has no Active.
Reserve(s) ==
  /\ slot[s] = "free" /\ ~closed
  /\ Cardinality(In("open")) + Cardinality(In("pending")) < MaxSessions
  /\ slot' = [slot EXCEPT ![s] = "pending"]
  /\ UNCHANGED <<closed, committing, cancel, departing, service, task, request, pc, holds>>

\* ReceiveService::hello opens the session transaction.
Hello(s) ==
  /\ slot[s] = "pending" /\ state[s] = "unborn"
  /\ state' = [state EXCEPT ![s] = "open"]
  /\ core' = [core EXCEPT ![s] = 1]
  /\ UNCHANGED <<table, inflight, signal, task, request, pc, holds>>

\* Reservation::insert, and abort of the service if the server stopped.
Insert(s) ==
  /\ slot[s] = "pending" /\ state[s] = "open"
  /\ slot' = [slot EXCEPT ![s] = IF closed THEN "ended" ELSE "open"]
  /\ IF closed THEN CloseService(s) ELSE UNCHANGED <<state, signal, core>>
  /\ UNCHANGED <<closed, committing, cancel, departing, inflight, task, request, pc, holds>>

\* The open fails or its request drops: the drop of the service, if it has
\* one, and of the Reservation.
Unreserve(s) ==
  /\ slot[s] = "pending"
  /\ slot' = [slot EXCEPT ![s] = "ended"]
  /\ CloseService(s)
  /\ UNCHANGED <<closed, committing, cancel, departing, inflight, task, request, pc, holds>>

\* lookup and track: a request finds its session and has an Active.
Lookup(r, s, k) ==
  /\ pc[r] = "new" /\ slot[s] = "open"
  /\ of' = [of EXCEPT ![r] = s]
  /\ kind' = [kind EXCEPT ![r] = k]
  /\ Goes(r, IF k = "objects" THEN "enter" ELSE "message")
  /\ UNCHANGED <<table, service, task, holds, body, result>>

\* Entry::active: the requests that found s and did not drop their Active.
Active(s) == {r \in Request : of[r] = s /\ pc[r] # "over"}

\* Entry::bodies: the tracked bodies that wait for the client.
Silent(s) == {r \in Active(s) : body[r] = "waiting"}

Reads(r) == pc[r] = "message" \/ (pc[r] = "step" /\ kind[r] = "objects")

\* BodyTrack::waiting.
BodyWaits(r) ==
  /\ Reads(r) /\ body[r] = "unread" /\ Body(r, "waiting")
  /\ UNCHANGED <<table, service, task, of, kind, pc, holds, result>>

\* BodyTrack::progress, to the end of the body.
BodyArrives(r) ==
  /\ Reads(r) /\ body[r] \in {"unread", "waiting"} /\ Body(r, "whole")
  /\ UNCHANGED <<table, service, task, of, kind, pc, holds, result>>

\* The message of a have or of a commit is read, and the body drops.
MessageRead(r) ==
  /\ pc[r] = "message" /\ body[r] = "whole" /\ Body(r, "gone")
  /\ Goes(r, IF kind[r] = "commit" THEN "begin" ELSE "enter")
  /\ UNCHANGED <<table, service, task, of, kind, holds, result>>

\* The body fails or holds another message.
MessageBad(r) ==
  /\ pc[r] = "message" /\ Body(r, "gone")
  /\ Goes(r, "fail")
  /\ UNCHANGED <<table, service, task, of, kind, holds, result>>

\* begin_commit, and the spawn of the task.
Begin(r) ==
  LET s == of[r] IN
  /\ pc[r] = "begin"
  /\ IF slot[s] = "open" /\ ~committing[s]
     THEN /\ committing' = [committing EXCEPT ![s] = TRUE]
          /\ task' = [task EXCEPT ![s] = "spawned"]
          /\ Goes(r, "task")
     ELSE Goes(r, "respond") /\ UNCHANGED <<committing, task>>
  /\ UNCHANGED <<closed, slot, cancel, departing, service, request, holds>>

\* The request joins its task.
Joined(r) ==
  /\ pc[r] = "task" /\ task[of[r]] = "over"
  /\ Goes(r, "respond")
  /\ UNCHANGED <<table, service, task, request, holds>>

\* CommitEnd::drop calls end.
TaskOver(s) ==
  /\ task[s] = "ending"
  /\ task' = [task EXCEPT ![s] = "over"]
  /\ Remove({s} \cap In("open"))
  /\ UNCHANGED <<closed, committing, cancel, service, request, pc, holds>>

\* A mutant of Endable: the flag of a commit is not read.
EndableAlways == In("open")

\* The entries that a failure, a DELETE, the sweep or the stop may end.
Endable == {s \in In("open") : ~committing[s]}

\* fail, for a request whose step failed.
Fail(r) ==
  /\ pc[r] = "fail"
  /\ Remove({of[r]} \cap Endable)
  /\ Goes(r, "respond")
  /\ UNCHANGED <<closed, committing, cancel, service, task, request, holds>>

\* complete, and the drop of the Active of a request with its response.
Respond(r) ==
  /\ pc[r] = "respond"
  /\ Goes(r, "over") /\ Body(r, "gone")
  /\ UNCHANGED <<table, service, task, of, kind, holds, result>>

\* The drop of the Active of a request with no response.
Leave(r) ==
  /\ pc[r] = "leave"
  /\ Remove({of[r]} \cap Endable)
  /\ Goes(r, "over") /\ Body(r, "gone")
  /\ UNCHANGED <<closed, committing, cancel, service, task, of, kind, holds, result>>

\* The connection drops the future of a request at an await: of its body, of
\* its step, of its task.
Disconnect(r) ==
  /\ pc[r] \in {"message", "step", "task"}
  /\ Outcome(r, "cut")
  /\ Goes(r, IF pc[r] = "step" THEN "release" ELSE "leave")
  /\ UNCHANGED <<table, service, task, of, kind, holds>>

\* cancellable: the session ended, and the step future drops.  The request
\* answers with the cause.
Cancelled(r) ==
  /\ pc[r] \in {"message", "step"} /\ cancel[of[r]]
  /\ Outcome(r, "cancelled")
  /\ Goes(r, IF pc[r] = "step" THEN "release" ELSE "respond")
  /\ UNCHANGED <<table, service, task, of, kind, holds>>

\* SessionTable::delete.
Delete(s) ==
  /\ s \in Endable /\ Remove({s})
  /\ UNCHANGED <<closed, committing, cancel, service, task, request, pc, holds>>

\* A mutant of Overdue: the sweep reads no body.
OverdueIdle(s) == s \in Endable /\ Active(s) = {}

\* expire: s has no request in progress, or a body that waits.
Overdue(s) == s \in Endable /\ (Active(s) = {} \/ Silent(s) # {})

\* One pass of the sweep, for an entry whose deadline passed.
Sweep(s) ==
  /\ Overdue(s) /\ Remove({s})
  /\ UNCHANGED <<closed, committing, cancel, service, task, request, pc, holds>>

\* close_all, at the stop of the server.
CloseAll ==
  /\ ~closed /\ closed' = TRUE
  /\ Remove(Endable)
  /\ UNCHANGED <<committing, cancel, service, task, request, pc, holds>>

\* Entry::close of a removed entry: first the cancel signal.
CloseCancels(s) ==
  /\ departing[s] = "cancel"
  /\ departing' = [departing EXCEPT ![s] = "abort"]
  /\ cancel' = [cancel EXCEPT ![s] = TRUE]
  /\ UNCHANGED <<closed, slot, committing, service, task, request, pc, holds>>

\* Then ReceiveService::abort, which leaves a commit alone.
CloseAborts(s) ==
  /\ departing[s] = "abort"
  /\ departing' = [departing EXCEPT ![s] = "over"]
  /\ CloseService(s)
  /\ UNCHANGED <<closed, slot, committing, cancel, inflight, task, request, pc, holds>>

-----------------------------------------------------------------------------
RequestStep(r) ==
  \/ Enter(r) \/ StepEnds(r) \/ ReadFails(r) \/ Release(r) \/ Uncount(r)
  \/ MessageRead(r) \/ Begin(r) \/ Joined(r) \/ Fail(r) \/ Respond(r) \/ Leave(r)
  \/ Cancelled(r) \/ BodyWaits(r)

SessionStep(s) ==
  \/ Hello(s) \/ Insert(s) \/ TaskStarts(s) \/ TaskEnds(s) \/ TaskOver(s)
  \/ Sweep(s) \/ CloseCancels(s) \/ CloseAborts(s)

Next ==
  \/ \E r \in Request : RequestStep(r)
  \/ \E r \in Request :
       \/ StepFails(r) \/ BodyArrives(r) \/ MessageBad(r) \/ Disconnect(r)
  \/ \E r \in Request, s \in Session, k \in {"have", "objects", "commit"} : Lookup(r, s, k)
  \/ \E s \in Session : SessionStep(s) \/ Reserve(s) \/ Unreserve(s) \/ Delete(s)
  \/ CloseAll

Spec == Init /\ [][Next]_vars

\* The executor polls what is ready (a poll of a body that has no bytes starts
\* its wait), the blocking pool and a commit come to
\* an end, and the sweep runs until the server stops.  Nothing is asked of a
\* client: it may never send a byte, and never close its connection.
Fairness ==
  /\ \A r \in Request : WF_vars(RequestStep(r))
  /\ \A s \in Session : WF_vars(SessionStep(s))

-----------------------------------------------------------------------------
(* What the service and the table keep between two holds of their mutexes. *)

\* The steps of s with a clone of the core, and those that the counts have.
HoldersOf(s) == {r \in holds : of[r] = s}
CountedOf(s, k) ==
  {r \in Request : of[r] = s /\ kind[r] = k /\ pc[r] \in {"step", "release", "uncount"}}

\* Where each request is, and the session it is of.
RequestInv ==
  /\ holds = {r \in Request : pc[r] \in {"step", "release"}}
  /\ \A r \in Request :
       /\ pc[r] # "new" => of[r] \in Session /\ state[of[r]] # "unborn"
       /\ pc[r] = "new" => of[r] = NoSession
       /\ pc[r] \in {"enter", "step", "release", "uncount"} => kind[r] # "commit"

\* The references to the core are those of the state and of the steps, and an
\* open session counts its steps.
CoreInv ==
  \A s \in Session :
    /\ IsFiniteSet(HoldersOf(s))
    /\ core[s] = Cardinality(HoldersOf(s)) + IF state[s] \in {"open", "committing"} THEN 1 ELSE 0
    /\ state[s] = "committing" => HoldersOf(s) = {}
    /\ state[s] \in {"unborn", "open"} =>
         \A k \in {"have", "objects"} :
           IsFiniteSet(CountedOf(s, k)) /\ inflight[s][k] = Cardinality(CountedOf(s, k))

\* A session that commits has its entry, and Entry::close is for removed entries.
TableInv ==
  \A s \in Session :
    /\ slot[s] = "open" => state[s] # "unborn"
    /\ task[s] # "none" => committing[s]
    /\ task[s] \in {"spawned", "running", "ending"} => slot[s] = "open"
    /\ task[s] = "running" <=> state[s] = "committing"
    /\ departing[s] # "no" => slot[s] = "ended"
    /\ cancel[s] => departing[s] \in {"abort", "over"}

Inv == TypeOK /\ RequestInv /\ CoreInv /\ TableInv

-----------------------------------------------------------------------------
(***************************************************************************)
(* A commit has the session for itself: while it runs, no step holds the   *)
(* core, so its try_unwrap does not fail (ReceiveService::commit,          *)
(* Step::drop).                                                            *)
(***************************************************************************)
CommitOwnsCore ==
  \A s \in Session :
    state[s] = "committing" => core[s] = 1 /\ \A r \in holds : of[r] # s

(***************************************************************************)
(* Nothing ends a session that commits: until the commit is over, its      *)
(* entry has its slot of the table and its cancel signal does not fire,    *)
(* whatever its other requests, a DELETE, the sweep and the stop of the    *)
(* server do (delete, fail, expire, close_all, Active::drop).              *)
(***************************************************************************)
CommitIsKept ==
  \A s \in Session :
    task[s] \in {"spawned", "running", "ending"} => slot[s] = "open" /\ ~cancel[s]

(***************************************************************************)
(* A session that opened drops its transaction, and with it its staging    *)
(* directory and its share of the repository lock, also if its clients     *)
(* fall silent (expire, close, cancellable, Step::drop, release).          *)
(***************************************************************************)
SessionIsReleased ==
  \A s \in Session : state[s] = "open" ~> core[s] = 0
=============================================================================
