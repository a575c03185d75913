----------------------------- MODULE BucketLock -----------------------------
(***************************************************************************)
(* The writer lock of a bucket repository (crates/ostrya/src/bucket/       *)
(* lock.rs) over the conditional requests of the S3 client                 *)
(* (crates/ostrya-remote/src/s3/bucket.rs).                                *)
(*                                                                         *)
(* A run is one call that takes the lock: init, push, prune, fsck or       *)
(* summary, in a process of its own.  The id in the body of its lock is    *)
(* new, so the run stands for its id, its lock body and the ETag of it.    *)
(*                                                                         *)
(* An interrupted request, or one answered with a status to send again,    *)
(* is late: the server applies it at any later time, or never.  So a       *)
(* retry can race the request it repeats.                                  *)
(***************************************************************************)
EXTENDS Naturals, FiniteSets

CONSTANTS
  Run,         \* the runs
  Breaker,     \* the runs that got break_lock
  MaxRetries,  \* max_retries of the fetcher: the rounds after the first
  NoRun

ASSUME RunAssumption == NoRun \notin Run /\ Breaker \subseteq Run
ASSUME MaxRetriesAssumption == MaxRetries \in Nat

VARIABLES
  server,  \* what the server of the bucket honors; it never changes
  lock,    \* the run whose body the lock key holds
  probe,   \* TRUE if the probe key holds the probe body
  late,    \* the requests with an unknown outcome, not applied yet
  step,    \* where each run is
  part,    \* inside the step: before a request, or before a read after it
  round,   \* the number of requests of the step that the client repeated
  unsure,  \* TRUE after a request of the step with an unknown outcome
  target   \* the lock that break_lock read: its ETag

vars == <<server, lock, probe, late, step, part, round, unsure, target>>

\* none, match: the server honors If-None-Match, If-Match; etag: a read of
\* an object gives an ETag.
Server == [none : BOOLEAN, match : BOOLEAN, etag : BOOLEAN]

\* The steps that send put_if_absent, and the ones that send a delete.
PutStep == {"probe1", "probe2", "take"}
DeleteStep == {"break", "release"}
\* The steps that read the lock: before a break, after a break that matched
\* no lock, and before the delete of a release.
ReadStep == {"breakRead", "breakReread", "releaseRead"}
Ended == {"released", "lost", "locked", "noExclusion", "stopped"}
Step == PutStep \cup DeleteStep \cup ReadStep \cup {"held"} \cup Ended

\* "send": before a request; "refused": before the read after a 412 to an
\* unsure call; "cut": before the read after an interrupted put.
Part == {"send", "refused", "cut"}

\* etag is NoRun in a put, and in a delete with no condition.
Request ==
  [run : Run, step : PutStep \cup DeleteStep, round : Nat, etag : Run \cup {NoRun}]

TypeOK ==
  /\ server \in Server
  /\ lock \in Run \cup {NoRun}
  /\ probe \in BOOLEAN
  /\ late \subseteq Request
  /\ step \in [Run -> Step]
  /\ part \in [Run -> Part]
  /\ round \in [Run -> Nat]
  /\ unsure \in [Run -> BOOLEAN]
  /\ target \in [Run -> Run \cup {NoRun}]

\* The bucket is new or held the probe key before; no run has begun.
Init ==
  /\ server \in Server
  /\ lock = NoRun
  /\ probe \in BOOLEAN
  /\ late = {}
  /\ step = [r \in Run |-> "probe1"]
  /\ part = [r \in Run |-> "send"]
  /\ round = [r \in Run |-> 0]
  /\ unsure = [r \in Run |-> FALSE]
  /\ target = [r \in Run |-> NoRun]

-----------------------------------------------------------------------------
(* The server.                                                             *)

\* The key of a put request of the step s holds an object.
Occupied(s) == IF s = "take" THEN lock # NoRun ELSE probe

\* The server answers 412 to a put of the step s.
PutRefused(s) == server.none /\ Occupied(s)

\* The server writes the body of r to the key of the step s.
PutApplied(r, s) ==
  /\ lock' = IF s = "take" THEN r ELSE lock
  /\ probe' = (s # "take" \/ probe)

\* The server answers 412 to a delete with the condition etag.
DeleteRefused(etag) == server.match /\ etag # NoRun /\ lock # etag

\* The server deletes the lock.
DeleteApplied ==
  /\ lock' = NoRun
  /\ UNCHANGED probe

\* A late request reaches the server.
Deliver(q) ==
  /\ q \in late
  /\ late' = late \ {q}
  /\ \/ /\ q.step \in PutStep
        /\ IF PutRefused(q.step) THEN UNCHANGED <<lock, probe>> ELSE PutApplied(q.run, q.step)
     \/ /\ q.step \in DeleteStep
        /\ IF DeleteRefused(q.etag) THEN UNCHANGED <<lock, probe>> ELSE DeleteApplied
  /\ UNCHANGED <<server, step, part, round, unsure, target>>

-----------------------------------------------------------------------------
(* The client: put_if_absent and delete_if_match.                          *)

\* The condition of a delete of r: the ETag that the break or the release
\* read, or none.
Etag(r) ==
  CASE step[r] = "break" -> target[r]
    [] step[r] = "release" /\ server.etag -> r
    [] OTHER -> NoRun

\* The request that r sends now.
RequestOf(r) == [run |-> r, step |-> step[r], round |-> round[r], etag |-> Etag(r)]

\* The step of r ends, and s begins.
Goes(r, s) ==
  /\ step' = [step EXCEPT ![r] = s]
  /\ part' = [part EXCEPT ![r] = "send"]
  /\ round' = [round EXCEPT ![r] = 0]
  /\ unsure' = [unsure EXCEPT ![r] = FALSE]

\* The next round of the loop of a call.
Again(r, isUnsure) ==
  /\ round[r] < MaxRetries
  /\ round' = [round EXCEPT ![r] = @ + 1]
  /\ unsure' = [unsure EXCEPT ![r] = isUnsure]
  /\ part' = [part EXCEPT ![r] = "send"]
  /\ UNCHANGED step

\* A mutant of Proves: a read that finds the probe body counts as a 412.
ProvesOrMatches(out) == out \in {"present", "refused", "matches"}

\* The outcomes of the probe that show that the server honors the header.
Proves(out) == out \in {"present", "refused"}

\* A mutant of Takes: the take goes on over a lock of another run.
TakesAlways(out) == TRUE

\* The outcomes of put_if_absent that give the lock.
Takes(out) == out \in {"created", "matches", "refused"}

\* The step after a put of r with the outcome out: probe_exclusion and
\* take_lock.
AfterPut(r, out) ==
  IF step[r] = "take" THEN IF Takes(out) THEN "held" ELSE "locked"
  ELSE IF Proves(out) THEN IF r \in Breaker THEN "breakRead" ELSE "take"
  ELSE IF step[r] = "probe1" THEN "probe2"
  ELSE IF out = "created" THEN "noExclusion" ELSE "stopped"

\* The body of r at the key of its put: what compare finds.
Same(r) == IF step[r] = "take" THEN lock = r ELSE probe

\* A put of r that the server answers with a 2xx or a 412.
PutAnswered(r) ==
  /\ step[r] \in PutStep /\ part[r] = "send"
  /\ \/ /\ ~PutRefused(step[r])
        /\ PutApplied(r, step[r])
        /\ Goes(r, AfterPut(r, "created"))
     \/ /\ PutRefused(step[r])
        /\ UNCHANGED <<lock, probe>>
        /\ \/ ~unsure[r] /\ Goes(r, AfterPut(r, "present"))
           \/ unsure[r] /\ part' = [part EXCEPT ![r] = "refused"] /\ UNCHANGED <<step, round, unsure>>
  /\ UNCHANGED <<server, late, target>>

\* A 409 ConditionalRequestConflict: the server applied nothing.
PutConflict(r) ==
  /\ step[r] \in PutStep /\ part[r] = "send"
  /\ Again(r, unsure[r])
  /\ UNCHANGED <<server, lock, probe, late, target>>

\* An interrupted put: compare reads the key next.
PutCut(r) ==
  /\ step[r] \in PutStep /\ part[r] = "send"
  /\ late' = late \cup {RequestOf(r)}
  /\ part' = [part EXCEPT ![r] = "cut"]
  /\ UNCHANGED <<server, lock, probe, step, round, unsure, target>>

\* The read of compare after an interrupted put, or after a 412.
Compare(r) ==
  /\ \/ part[r] = "cut" /\ Same(r) /\ Goes(r, AfterPut(r, "matches"))
     \/ part[r] = "cut" /\ ~Same(r) /\ Occupied(step[r]) /\ Goes(r, AfterPut(r, "present"))
     \/ part[r] = "cut" /\ ~Occupied(step[r]) /\ Again(r, TRUE)
     \/ part[r] = "refused" /\ step[r] \in PutStep
        /\ Goes(r, AfterPut(r, IF Same(r) THEN "refused" ELSE "present"))
  /\ UNCHANGED <<server, lock, probe, late, target>>

\* A 408, 429 or 5xx to a put or a delete, or an interrupted delete: the
\* client sends it again.
Repeat(r) ==
  /\ step[r] \in PutStep \cup DeleteStep /\ part[r] = "send"
  /\ Again(r, TRUE)
  /\ late' = late \cup {RequestOf(r)}
  /\ UNCHANGED <<server, lock, probe, target>>

\* The step after a delete of r.
AfterDelete(r, deleted) ==
  CASE step[r] = "break" -> IF deleted THEN "take" ELSE "breakReread"
    [] OTHER -> IF deleted THEN "released" ELSE "lost"

\* A delete of r that the server answers with a 2xx, or with a 412 or as
\* absent.  bucket.delete has no condition, so no 412.
DeleteAnswered(r) ==
  /\ step[r] \in DeleteStep /\ part[r] = "send"
  /\ \/ ~DeleteRefused(Etag(r)) /\ DeleteApplied /\ Goes(r, AfterDelete(r, TRUE))
     \/ /\ DeleteRefused(Etag(r))
        /\ UNCHANGED <<lock, probe>>
        /\ \/ ~unsure[r] /\ Goes(r, AfterDelete(r, FALSE))
           \/ unsure[r] /\ part' = [part EXCEPT ![r] = "refused"] /\ UNCHANGED <<step, round, unsure>>
  /\ UNCHANGED <<server, late, target>>

\* A mutant of FoundGone: any 412 after an unsure delete is a success.
FoundGoneAlways == TRUE

\* The answer of exists in delete_if_match: the key holds no object.
FoundGone == lock = NoRun

\* delete_if_match reads the key after a 412 to an unsure delete.
DeleteExists(r) ==
  /\ step[r] \in DeleteStep /\ part[r] = "refused"
  /\ Goes(r, AfterDelete(r, FoundGone))
  /\ UNCHANGED <<server, lock, probe, late, target>>

-----------------------------------------------------------------------------
(* The lock: break_lock, check and release.                                *)

\* break_lock reads the lock.  With no ETag it fails.
BreakRead(r) ==
  /\ step[r] = "breakRead"
  /\ \/ lock = NoRun /\ Goes(r, "take") /\ UNCHANGED target
     \/ lock # NoRun /\ server.etag /\ Goes(r, "break") /\ target' = [target EXCEPT ![r] = lock]
     \/ lock # NoRun /\ ~server.etag /\ Goes(r, "stopped") /\ UNCHANGED target
  /\ UNCHANGED <<server, lock, probe, late>>

\* break_lock reads the lock again after a delete that matched no lock.
BreakReread(r) ==
  /\ step[r] = "breakReread"
  /\ Goes(r, IF lock = NoRun THEN "take" ELSE "locked")
  /\ UNCHANGED <<server, lock, probe, late, target>>

\* is_own: the lock that a read finds names the id of r.
IsOwn(r) == lock = r

\* WriterLock::check before a change; the caller stops when the lock is lost.
Check(r) ==
  /\ step[r] = "held"
  /\ IF IsOwn(r) THEN UNCHANGED <<step, part, round, unsure>> ELSE Goes(r, "lost")
  /\ UNCHANGED <<server, lock, probe, late, target>>

\* The caller ends its work, also with an error of its own: release_on_error.
Release(r) ==
  /\ step[r] = "held"
  /\ Goes(r, "releaseRead")
  /\ UNCHANGED <<server, lock, probe, late, target>>

\* release reads the lock before it deletes it.
ReleaseRead(r) ==
  /\ step[r] = "releaseRead"
  /\ Goes(r, IF IsOwn(r) THEN "release" ELSE "lost")
  /\ UNCHANGED <<server, lock, probe, late, target>>

\* The run ends with no release: a request or a read fails for good, the
\* process dies, or the caller drops the WriterLock.  A request of the step
\* may still arrive.
Stop(r) ==
  /\ step[r] \notin Ended
  /\ Goes(r, "stopped")
  /\ \/ UNCHANGED late
     \/ /\ step[r] \in PutStep \cup DeleteStep /\ part[r] = "send"
        /\ late' = late \cup {RequestOf(r)}
  /\ UNCHANGED <<server, lock, probe, target>>

RunNext(r) ==
  \/ PutAnswered(r) \/ PutConflict(r) \/ PutCut(r) \/ Compare(r) \/ Repeat(r)
  \/ DeleteAnswered(r) \/ DeleteExists(r)
  \/ BreakRead(r) \/ BreakReread(r) \/ Check(r) \/ Release(r) \/ ReleaseRead(r)
  \/ Stop(r)

Next == (\E r \in Run : RunNext(r)) \/ (\E q \in late : Deliver(q))

Spec == Init /\ [][Next]_vars

-----------------------------------------------------------------------------
(* Properties.                                                             *)

\* r goes on as the holder of the lock, before the delete of its release.
Holds(r) == step[r] \in {"held", "releaseRead"}

\* r sent, or can have sent, a request to the lock key.
Began(r) == step[r] \in {"take", "held", "releaseRead", "release"} \cup Ended

\* A break_lock of another run read the lock of r.
BreakRequested(r) == \E b \in Breaker \ {r} : target[b] = r

\* The probe key outlives the first probe, and only a server that honors
\* If-None-Match lets a run past the probe.
ProbeInv ==
  \A r \in Run :
    /\ step[r] \in {"take", "held", "releaseRead", "release", "breakRead", "break",
                   "breakReread", "released", "lost", "locked"} => server.none
    /\ step[r] = "probe2" => probe
    /\ step[r] = "noExclusion" => ~server.none

\* compare runs for a put, after a 412 only on a server that gives one.
PartInv ==
  \A r \in Run :
    /\ part[r] = "cut" => step[r] \in PutStep
    /\ part[r] = "refused" /\ step[r] \in PutStep => server.none

\* The lock in the key, and the late requests, are of runs that came so far.
LateInv ==
  /\ lock # NoRun => Began(lock) /\ server.none
  /\ \A q \in late :
       /\ q.step = "take" => Began(q.run) /\ server.none
       /\ q.step = "break" => q.run \in Breaker /\ q.etag = target[q.run] /\ q.etag # NoRun
       /\ q.step = "release" =>
            /\ step[q.run] \in {"release"} \cup Ended
            /\ server.etag => q.etag = q.run

\* A run aims its one break at another run, and only a Breaker does so.
TargetInv ==
  \A r \in Run :
    /\ target[r] # r
    /\ step[r] \in {"probe1", "probe2", "breakRead"} => target[r] = NoRun
    /\ step[r] = "break" => target[r] # NoRun
    /\ step[r] \in {"breakRead", "break", "breakReread"} => r \in Breaker
    /\ target[r] # NoRun => r \in Breaker

\* While a run goes on as the holder of the writer lock, the lock key holds
\* its lock, unless a run with break_lock read that lock to break it.  So two
\* writers run at the same time only after a break of the lock of one of
\* them, although requests are repeated, delayed and lost, and runs crash
\* at any point (take_lock, release, break_lock on a server that gives
\* ETags and honors If-Match).
HoldsItsLock ==
  server.match /\ server.etag => \A r \in Run : Holds(r) => lock = r \/ BreakRequested(r)

\* The strengthening of HoldsItsLock that is inductive.
Inv ==
  /\ TypeOK
  /\ ProbeInv
  /\ PartInv
  /\ LateInv
  /\ TargetInv
  /\ HoldsItsLock

\* probe_exclusion is right about the server: no run sends a request to the
\* lock key, and none holds the lock, on a server that ignores
\* If-None-Match; and no run fails with BucketNoExclusion on a server that
\* honors it.
ProbeVerdict ==
  /\ ~server.none => lock = NoRun /\ \A r \in Run : ~Holds(r)
  /\ server.none => \A r \in Run : step[r] # "noExclusion"

\* At the moment a release reports success, the lock of the run is not in
\* the key, whatever its delete requests met (release, delete_if_match).
ReleasedLockIsGone ==
  [][\A r \in Run : step[r] # "released" /\ step'[r] = "released" => lock' # r]_vars
=============================================================================
