------------------------------ MODULE MCWaits -------------------------------
(***************************************************************************)
(* Parties that wait until another one wakes them: the callers of the      *)
(* update lock of a repository, the writer and the caller of an upload,    *)
(* the requests at the admission gate of the fetcher, and the connections  *)
(* of a server that wait for its stop.  They share no state, so a          *)
(* behaviour is one of them, as side says; the others rest in an initial   *)
(* state.                                                                  *)
(*                                                                         *)
(* The lock: two processes, with three callers in one of them and two in   *)
(* the other.  The upload: one URL, no retry and no redirect; a connection *)
(* of the pool that gives the request back makes a second hand-over.  The  *)
(* gate: two requests of high priority and two of low priority for two     *)
(* permits.  The stop: two connections, each polled with two wakers.       *)
(***************************************************************************)
EXTENDS UpdateLock

CONSTANTS
  p1, p2, t1, t2, t3, t4, t5,
  Frames, Mirrors, MaxRetries, MaxRedirects,
  Request, Limit, Rank, NoRequest, q1, q2, q3, q4,
  Wait, Waker, NoWaker

VARIABLES side, whole, slot, wakers, writer, hyper, head, rounds, upload, sent

uploadVars == <<whole, slot, wakers, writer, hyper, head, rounds, upload, sent>>

Up == INSTANCE Upload

ASSUME UploadAssumption ==
  Frames \in Nat \ {0} /\ Mirrors \in Nat \ {0} /\ MaxRetries \in Nat /\ MaxRedirects \in Nat

VARIABLES free, waiting, granted, gpc, gwakee

gateVars == <<free, waiting, granted, gpc, gwakee>>

Gate == INSTANCE Gate WITH pc <- gpc, wakee <- gwakee

ASSUME GateAssumption ==
  Limit \in Nat /\ Rank \in [Request -> Nat] /\ NoRequest \notin Request

VARIABLES flag, fired, waiters, stored, current, spc, fire, woken

stopVars == <<flag, fired, waiters, stored, current, spc, fire, woken>>

Stop == INSTANCE Shutdown WITH pc <- spc

ASSUME WakerAssumption == NoWaker \notin Waker

MCProcess == {p1, p2}
MCTask == {t1, t2, t3, t4, t5}
MCProcOf == [t \in MCTask |-> IF t \in {t4, t5} THEN p2 ELSE p1]
MCLimited == {t2, t4}
MCRank == [r \in Request |-> IF r \in {q1, q2} THEN 2 ELSE 1]

MCInit ==
  /\ side \in {"update", "upload", "gate", "stop"}
  /\ Init /\ Up!Init /\ Gate!Init /\ Stop!Init
  /\ side # "upload" => whole /\ writer.written = 0 /\ rounds.count = 1

MCNext ==
  \/ side = "update" /\ Next /\ UNCHANGED <<side, uploadVars, gateVars, stopVars>>
  \/ side = "upload" /\ Up!Next /\ UNCHANGED <<side, vars, gateVars, stopVars>>
  \/ side = "gate" /\ Gate!Next /\ UNCHANGED <<side, vars, uploadVars, stopVars>>
  \/ side = "stop" /\ Stop!Next /\ UNCHANGED <<side, vars, uploadVars, gateVars>>

MCSpec ==
  /\ MCInit /\ [][MCNext]_<<side, vars, uploadVars, gateVars, stopVars>>
  /\ Fairness /\ Up!Fairness /\ Gate!Fairness /\ Stop!Fairness

-----------------------------------------------------------------------------
\* ostrya-fetch/src/lib.rs: no call of the writer waits for ever on a body that
\* is over, or on a frame whose stall window runs.
WriterGoesOn == Up!WriterGoesOn

\* ostrya-fetch/src/lib.rs: an upload ends once its body is given whole, has
\* ended or has failed.
UploadAnswers == Up!UploadAnswers

\* gate.rs: a waiter of the highest priority gets its permit, or is dropped.
FirstRankIsServed == Gate!FirstRankIsServed

\* shutdown.rs: the signal reaches each connection.
SignalReachesAll == Stop!SignalReachesAll
=============================================================================
