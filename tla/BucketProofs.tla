---------------------------- MODULE BucketProofs ----------------------------
(***************************************************************************)
(* Proofs for the parts of a bucket repository, for every value of their   *)
(* constants.  The lock: a writer keeps it until a break of it, the probe  *)
(* is right about the server, and a release that succeeds leaves no lock   *)
(* of its run.  The upload: a request that hyper completes carries the     *)
(* whole body, and no hop of an upload sends it twice.  The writers: a     *)
(* commit in the bucket has its tree, a named commit is in the bucket, and *)
(* a prune that lost its lock soon stops.                                  *)
(***************************************************************************)
EXTENDS MCBucket, FiniteSetTheorems, WellFoundedInduction, TLAPS

-----------------------------------------------------------------------------
\* The writer lock.

\* A step of r that ends where it may end preserves the invariant, if the
\* server and the late requests do not change.
LEMMA GoesInv ==
  ASSUME Inv, NEW r \in Run, NEW s \in Step, Goes(r, s),
         UNCHANGED <<server, lock, probe, late, target>>,
         s = "probe2" => probe,
         s = "noExclusion" => ~server.none,
         s \notin {"probe1", "probe2", "noExclusion", "stopped"} => server.none,
         Began(r) => s \in {"take", "held", "releaseRead", "release"} \cup Ended,
         step[r] \in {"release"} \cup Ended => s \in {"release"} \cup Ended,
         s \in {"probe1", "probe2", "breakRead"} => target[r] = NoRun,
         s = "break" => target[r] # NoRun,
         s \in {"breakRead", "break", "breakReread"} => r \in Breaker,
         s \in {"held", "releaseRead"} => lock = r \/ Holds(r)
  PROVE  Inv'
PROOF
<1>0. /\ step' = [step EXCEPT ![r] = s]
      /\ server' = server /\ lock' = lock /\ probe' = probe /\ late' = late /\ target' = target
  BY DEF Goes
<1>1. TypeOK'
  BY <1>0 DEF Inv, TypeOK, Goes, Part
<1>2. step'[r] = s /\ \A u \in Run \ {r} : step'[u] = step[u]
  BY <1>0 DEF Inv, TypeOK
<1>3. ProbeInv'
  BY <1>0, <1>2 DEF Inv, ProbeInv
<1>4. LateInv'
  <2>2. \A u \in Run : Began(u) => Began(u)'
    BY <1>2 DEF Began
  <2>3. \A u \in Run : step[u] \in {"release"} \cup Ended => step'[u] \in {"release"} \cup Ended
    BY <1>2
  <2>4. \A q \in late : q.run \in Run
    BY DEF Inv, TypeOK, Request
  <2> QED
    BY <2>2, <2>3, <2>4, <1>0, <1>2 DEF Inv, LateInv, TypeOK
<1>7. PartInv'
  <2>1. part'[r] = "send" /\ \A u \in Run \ {r} : part'[u] = part[u]
    BY DEF Goes, Inv, TypeOK
  <2> QED
    BY <1>0, <1>2, <2>1 DEF Inv, PartInv
<1>5. TargetInv'
  BY <1>0, <1>2 DEF Inv, TargetInv
<1>6. HoldsItsLock'
  BY <1>0, <1>2 DEF Inv, HoldsItsLock, Holds, BreakRequested
<1> QED
  BY <1>1, <1>3, <1>4, <1>5, <1>6, <1>7 DEF Inv


\* What a put with an outcome leads to.
LEMMA AfterPutStep ==
  ASSUME Inv, NEW r \in Run, step[r] \in PutStep,
         NEW out \in {"created", "present", "matches", "refused"}
  PROVE  /\ AfterPut(r, out) \in Step
         /\ AfterPut(r, out) \in
              {"probe2", "breakRead", "take", "noExclusion", "held", "locked", "stopped"}
         /\ AfterPut(r, out) = "probe2" => step[r] = "probe1" /\ out \in {"created", "matches"}
         /\ AfterPut(r, out) = "noExclusion" => step[r] = "probe2" /\ out = "created"
         /\ AfterPut(r, out) \in {"breakRead", "take"} =>
              step[r] \in {"probe1", "probe2"} /\ out \in {"present", "refused"}
         /\ AfterPut(r, out) \in {"held", "locked"} => step[r] = "take"
         /\ AfterPut(r, out) = "held" => out # "present"
         /\ AfterPut(r, out) = "breakRead" => r \in Breaker
         /\ step[r] = "take" => AfterPut(r, out) \in {"held", "locked"}
PROOF
  BY DEF AfterPut, Takes, Proves, PutStep, Step, DeleteStep, ReadStep, Ended

\* What put_if_absent returns to a caller that got no lock written by it
\* now preserves the invariant: a 412, or a read of the key.
LEMMA PutReturnsInv ==
  ASSUME Inv, NEW r \in Run, step[r] \in PutStep,
         NEW out \in {"present", "matches", "refused"},
         Goes(r, AfterPut(r, out)),
         UNCHANGED <<server, lock, probe, late, target>>,
         out = "matches" \/ out = "refused" => Same(r),
         out \in {"present", "refused"} => server.none
  PROVE  Inv'
PROOF
<1> DEFINE s == AfterPut(r, out)
<1>1. s \in Step
  BY AfterPutStep
<1>2. s = "probe2" => probe
  BY AfterPutStep DEF Same
<1>3. s # "noExclusion"
  BY AfterPutStep
<1>4. s \notin {"probe1", "probe2", "noExclusion", "stopped"} => server.none
  BY AfterPutStep DEF Inv, ProbeInv
<1>5. Began(r) => s \in {"take", "held", "releaseRead", "release"} \cup Ended
  BY AfterPutStep DEF Began, PutStep, Ended
<1>6. step[r] \notin {"release"} \cup Ended
  BY DEF PutStep, Ended
<1>7. s # "break" /\ (s \in {"breakRead", "break", "breakReread"} => r \in Breaker)
  BY AfterPutStep
<1>8. s \in {"held", "releaseRead"} => lock = r
  BY AfterPutStep DEF Same
<1>9. s \in {"probe1", "probe2", "breakRead"} => target[r] = NoRun
  BY AfterPutStep DEF Inv, TargetInv
<1> QED
  BY <1>1, <1>2, <1>3, <1>4, <1>5, <1>6, <1>7, <1>8, <1>9, GoesInv

\* The same run goes on with another round, or with a read; the late
\* requests may grow by the request that it sent.
LEMMA StaysInv ==
  ASSUME Inv, NEW r \in Run, step[r] \in PutStep \cup DeleteStep,
         UNCHANGED <<server, lock, probe, step, target>>,
         late' \in {late, late \cup {RequestOf(r)}},
         part' \in [Run -> Part], round' \in [Run -> Nat], unsure' \in [Run -> BOOLEAN],
         PartInv'
  PROVE  Inv'
PROOF
<1>1. RequestOf(r) \in Request
  BY DEF RequestOf, Request, Etag, Inv, TypeOK
<1>2. TypeOK'
  BY <1>1 DEF Inv, TypeOK
<1>3. ProbeInv' /\ TargetInv' /\ HoldsItsLock'
  BY DEF Inv, ProbeInv, TargetInv, HoldsItsLock, Holds, BreakRequested
<1>4. LateInv'
  <2> DEFINE q == RequestOf(r)
  <2>1. q.run = r /\ q.step = step[r] /\ q.etag = Etag(r)
    BY DEF RequestOf
  <2>2. q.step = "take" => Began(r) /\ server.none
    BY <2>1 DEF Began, Inv, ProbeInv
  <2>3. q.step = "break" => r \in Breaker /\ q.etag = target[r] /\ q.etag # NoRun
    BY <2>1 DEF Inv, TargetInv, Etag
  <2>4. q.step = "release" /\ server.etag => q.etag = r
    BY <2>1 DEF Etag
  <2> QED
    BY <2>1, <2>2, <2>3, <2>4 DEF Inv, LateInv, Began
<1> QED
  BY <1>2, <1>3, <1>4 DEF Inv

(* Before any run has sent a request the invariant holds. *)
LEMMA InitInv == Init => Inv
PROOF
  BY RunAssumption DEF Init, Inv, TypeOK, ProbeInv, PartInv, LateInv, TargetInv,
     HoldsItsLock, Holds, Began,
     Step, PutStep, DeleteStep, ReadStep, Ended, Part

\* A put that the server answers preserves the invariant.
LEMMA PutAnsweredInv ==
  ASSUME Inv, NEW r \in Run, PutAnswered(r)
  PROVE  Inv'
PROOF
<1>0. step[r] \in PutStep /\ part[r] = "send"
  BY DEF PutAnswered
<1>1. CASE PutRefused(step[r]) /\ ~unsure[r]
  BY <1>0, <1>1, PutReturnsInv DEF PutAnswered, PutRefused
<1>2. CASE PutRefused(step[r]) /\ unsure[r]
  <2>1. part' = [part EXCEPT ![r] = "refused"]
    BY <1>2 DEF PutAnswered
  <2> QED
    <3>1. PartInv'
      BY <1>2, <2>1 DEF PutAnswered, PutRefused, Inv, TypeOK, PartInv
    <3> QED
      BY <1>0, <1>2, <2>1, <3>1, StaysInv DEF PutAnswered, Part, Inv, TypeOK
<1>3. CASE ~PutRefused(step[r])
  <2> DEFINE s == AfterPut(r, "created")
  <2>0. /\ Goes(r, s) /\ PutApplied(r, step[r])
        /\ server' = server /\ late' = late /\ target' = target
    BY <1>3 DEF PutAnswered
  <2>1. s \in Step /\ s \in {"probe2", "noExclusion", "held"}
    BY <1>0, AfterPutStep DEF AfterPut, Takes, Proves, PutStep
  <2>2. /\ s = "held" => step[r] = "take" /\ lock' = r /\ server.none /\ lock = NoRun
        /\ s # "held" => step[r] # "take" /\ lock' = lock /\ probe'
        /\ probe => probe'
    <3>1. step[r] = "take" => s = "held" /\ server.none
      BY <1>0, AfterPutStep, <2>1 DEF Inv, ProbeInv
    <3> QED
      BY <2>0, <3>1, <1>0, <1>3, AfterPutStep DEF PutApplied, PutRefused, Occupied, Inv, TypeOK
  <2>3. s = "noExclusion" => ~server.none
    BY <1>0, <1>3, AfterPutStep DEF PutRefused, Occupied, Inv, ProbeInv
  <2>4. step'[r] = s /\ \A u \in Run \ {r} : step'[u] = step[u]
    BY <2>0 DEF Goes, Inv, TypeOK
  <2>5. TypeOK'
    BY <2>0, <2>1, <2>2 DEF Inv, TypeOK, Goes, Part, PutApplied
  <2>6. ProbeInv'
    BY <2>0, <2>1, <2>2, <2>3, <2>4 DEF Inv, ProbeInv
  <2>7. LateInv'
    <3>2. \A u \in Run : Began(u) => Began(u)'
      BY <1>0, <2>1, <2>2, <2>4 DEF Began, PutStep, Ended
    <3>3. \A u \in Run :
            step[u] \in {"release"} \cup Ended => step'[u] \in {"release"} \cup Ended
      BY <1>0, <2>4 DEF PutStep, Ended
    <3>4. \A q \in late : q.run \in Run
      BY DEF Inv, TypeOK, Request
    <3>5. lock' # NoRun => Began(lock)' /\ server'.none
      BY <3>2, <2>0, <2>1, <2>2, <2>4 DEF Inv, LateInv, TypeOK, Began
    <3> QED
      BY <3>2, <3>3, <3>4, <3>5, <2>0, <2>4 DEF Inv, LateInv
  <2>8. TargetInv'
    <3>1. s = "probe2" => target[r] = NoRun
      BY <1>0, AfterPutStep DEF Inv, TargetInv
    <3> QED
      BY <2>0, <2>1, <2>4, <3>1 DEF Inv, TargetInv
  <2>9. HoldsItsLock'
    BY <2>0, <2>1, <2>2, <2>4, RunAssumption
       DEF Inv, HoldsItsLock, Holds, BreakRequested, TypeOK
  <2>10. PartInv'
    <3>1. part'[r] = "send" /\ \A u \in Run \ {r} : part'[u] = part[u]
      BY <2>0 DEF Goes, Inv, TypeOK
    <3> QED
      BY <2>0, <2>4, <3>1 DEF Inv, PartInv
  <2> QED
    BY <2>5, <2>6, <2>7, <2>8, <2>9, <2>10 DEF Inv
<1> QED
  BY <1>1, <1>2, <1>3

\* The reads of compare preserve the invariant.
LEMMA CompareInv ==
  ASSUME Inv, NEW r \in Run, Compare(r)
  PROVE  Inv'
PROOF
<1>0. step[r] \in PutStep /\ UNCHANGED <<server, lock, probe, late, target>>
  BY DEF Compare, Inv, PartInv
<1>1. CASE part[r] = "cut" /\ Same(r) /\ Goes(r, AfterPut(r, "matches"))
  BY <1>0, <1>1, PutReturnsInv
<1>2. CASE part[r] = "cut" /\ ~Same(r) /\ Occupied(step[r]) /\ Goes(r, AfterPut(r, "present"))
  <2>1. server.none
    BY <1>0, <1>2 DEF Same, Occupied, Inv, ProbeInv
  <2> QED
    BY <1>0, <1>2, <2>1, PutReturnsInv
<1>3. CASE part[r] = "cut" /\ ~Occupied(step[r]) /\ Again(r, TRUE)
  <2>1. PartInv'
    BY <1>0, <1>3 DEF Again, Inv, TypeOK, PartInv
  <2> QED
    BY <1>0, <1>3, <2>1, StaysInv DEF Again, Part, Inv, TypeOK
<1>4. CASE /\ part[r] = "refused"
           /\ Goes(r, AfterPut(r, IF Same(r) THEN "refused" ELSE "present"))
  <2>1. server.none
    BY <1>0, <1>4 DEF Inv, PartInv
  <2> QED
    BY <1>0, <1>4, <2>1, PutReturnsInv
<1> QED
  BY <1>1, <1>2, <1>3, <1>4 DEF Compare

\* A round that the client repeats, and a put that is cut, preserve the
\* invariant.
LEMMA RoundInv ==
  ASSUME Inv, NEW r \in Run, PutConflict(r) \/ PutCut(r) \/ Repeat(r)
  PROVE  Inv'
PROOF
<1>0. step[r] \in PutStep \cup DeleteStep
  BY DEF PutConflict, PutCut, Repeat
<1>1. CASE PutConflict(r)
  <2>1. PartInv'
    BY <1>1 DEF PutConflict, Again, Inv, TypeOK, PartInv
  <2> QED
    BY <1>0, <1>1, <2>1, StaysInv DEF PutConflict, Again, Part, Inv, TypeOK
<1>2. CASE PutCut(r)
  <2>1. PartInv'
    BY <1>2 DEF PutCut, Inv, TypeOK, PartInv
  <2> QED
    BY <1>0, <1>2, <2>1, StaysInv DEF PutCut, Part, Inv, TypeOK
<1>3. CASE Repeat(r)
  <2>1. PartInv'
    BY <1>3 DEF Repeat, Again, Inv, TypeOK, PartInv
  <2> QED
    BY <1>0, <1>3, <2>1, StaysInv DEF Repeat, Again, Part, Inv, TypeOK
<1> QED
  BY <1>1, <1>2, <1>3

\* What a delete leads to.
LEMMA AfterDeleteStep ==
  ASSUME NEW r \in Run, NEW d \in BOOLEAN, step[r] \in DeleteStep
  PROVE  /\ AfterDelete(r, d) \in Step
         /\ step[r] = "break" => AfterDelete(r, d) \in {"take", "breakReread"}
         /\ step[r] = "release" => AfterDelete(r, d) \in {"released", "lost"}
PROOF
  BY DEF AfterDelete, DeleteStep, Step, PutStep, ReadStep, Ended

\* A delete that removes nothing now ends as it may end.
LEMMA DeleteReturnsInv ==
  ASSUME Inv, NEW r \in Run, step[r] \in DeleteStep, NEW d \in BOOLEAN,
         Goes(r, AfterDelete(r, d)),
         UNCHANGED <<server, lock, probe, late, target>>
  PROVE  Inv'
PROOF
<1> DEFINE s == AfterDelete(r, d)
<1>1. s \in Step /\ s \in {"take", "breakReread", "released", "lost"}
  BY AfterDeleteStep DEF DeleteStep
<1>2. server.none
  BY DEF Inv, ProbeInv, DeleteStep
<1>3. step[r] = "break" => ~Began(r) /\ step[r] \notin {"release"} \cup Ended /\ r \in Breaker
  BY DEF Began, Ended, Inv, TargetInv
<1>4. step[r] = "release" => s \in Ended
  BY AfterDeleteStep DEF Ended
<1>5. Began(r) => s \in {"take", "held", "releaseRead", "release"} \cup Ended
  BY <1>3, <1>4 DEF DeleteStep
<1>6. step[r] \in {"release"} \cup Ended => s \in {"release"} \cup Ended
  BY <1>3, <1>4 DEF DeleteStep
<1>7. s \in {"breakRead", "break", "breakReread"} => r \in Breaker
  BY <1>1, <1>3, <1>4 DEF DeleteStep, Ended
<1>8. Goes(r, s)
  OBVIOUS
<1> HIDE DEF s
<1> QED
  BY <1>1, <1>2, <1>5, <1>6, <1>7, <1>8, GoesInv

\* The server deletes the lock in the key, at a request that it may apply:
\* only a break of the lock, or its own release, takes it from its run.
LEMMA DeletedHolds ==
  ASSUME Inv, lock' = NoRun, server' = server,
         \A u \in Run : target[u] # NoRun => target'[u] = target[u],
         \A u \in Run : Holds(u)' => Holds(u),
         NEW r \in Run, NEW etag \in Run \cup {NoRun}, ~DeleteRefused(etag),
         server.match /\ server.etag /\ lock # NoRun =>
           \/ r \in Breaker /\ target[r] = etag /\ etag # NoRun
           \/ etag = r /\ ~Holds(r)'
  PROVE  HoldsItsLock'
PROOF
<1> SUFFICES ASSUME server.match, server.etag, NEW u \in Run, Holds(u)'
             PROVE  BreakRequested(u)'
  BY DEF HoldsItsLock
<1>1. lock = u \/ BreakRequested(u)
  BY DEF Inv, HoldsItsLock
<1>2. CASE BreakRequested(u)
  BY <1>2, RunAssumption DEF BreakRequested
<1>3. CASE lock = u
  <2>1. lock # NoRun
    BY <1>3, RunAssumption
  <2>2. etag # NoRun => etag = u
    BY <1>3 DEF DeleteRefused
  <2>3. r \in Breaker /\ target[r] = u
    BY <2>1, <2>2, RunAssumption
  <2>4. target'[r] = u /\ r # u
    BY <2>3, RunAssumption DEF Inv, TargetInv
  <2> QED
    BY <2>3, <2>4 DEF BreakRequested
<1> QED
  BY <1>1, <1>2, <1>3

\* A delete that the server answers preserves the invariant.
LEMMA DeleteAnsweredInv ==
  ASSUME Inv, NEW r \in Run, DeleteAnswered(r)
  PROVE  Inv'
PROOF
<1>0. step[r] \in DeleteStep /\ part[r] = "send"
  BY DEF DeleteAnswered
<1>1. CASE DeleteRefused(Etag(r)) /\ ~unsure[r]
  BY <1>0, <1>1, DeleteReturnsInv DEF DeleteAnswered
<1>2. CASE DeleteRefused(Etag(r)) /\ unsure[r]
  <2>1. part' = [part EXCEPT ![r] = "refused"]
    BY <1>2 DEF DeleteAnswered
  <2>2. PartInv'
    BY <1>0, <1>2, <2>1 DEF DeleteAnswered, Inv, TypeOK, PartInv, PutStep, DeleteStep
  <2> QED
    BY <1>0, <1>2, <2>1, <2>2, StaysInv DEF DeleteAnswered, Part, Inv, TypeOK
<1>3. CASE ~DeleteRefused(Etag(r))
  <2> DEFINE s == AfterDelete(r, TRUE)
  <2>0. /\ Goes(r, s) /\ lock' = NoRun /\ probe' = probe
        /\ server' = server /\ late' = late /\ target' = target
    BY <1>3 DEF DeleteAnswered, DeleteApplied
  <2>1. /\ s \in Step
        /\ step[r] = "break" => s = "take"
        /\ step[r] = "release" => s = "released"
    BY <1>0, AfterDeleteStep DEF AfterDelete
  <2>2. step'[r] = s /\ \A u \in Run \ {r} : step'[u] = step[u]
    BY <2>0 DEF Goes, Inv, TypeOK
  <2>3. TypeOK'
    BY <2>0, <2>1 DEF Inv, TypeOK, Goes, Part
  <2>4. ProbeInv'
    BY <1>0, <2>0, <2>1, <2>2 DEF Inv, ProbeInv, DeleteStep
  <2>5. PartInv'
    <3>1. part'[r] = "send" /\ \A u \in Run \ {r} : part'[u] = part[u]
      BY <2>0 DEF Goes, Inv, TypeOK
    <3> QED
      BY <2>0, <2>2, <3>1 DEF Inv, PartInv
  <2>6. LateInv'
    <3>1. \A u \in Run : Began(u) => Began(u)'
      BY <1>0, <2>1, <2>2 DEF Began, DeleteStep, Ended
    <3>2. \A u \in Run :
            step[u] \in {"release"} \cup Ended => step'[u] \in {"release"} \cup Ended
      BY <1>0, <2>1, <2>2 DEF DeleteStep, Ended
    <3>3. \A q \in late : q.run \in Run
      BY DEF Inv, TypeOK, Request
    <3> QED
      BY <3>1, <3>2, <3>3, <2>0, <2>2 DEF Inv, LateInv
  <2>7. TargetInv'
    BY <1>0, <2>0, <2>1, <2>2 DEF Inv, TargetInv, DeleteStep
  <2>8. HoldsItsLock'
    <3>1. Etag(r) \in Run \cup {NoRun}
      BY DEF Etag, Inv, TypeOK
    <3>2. \A u \in Run : Holds(u)' => Holds(u)
      BY <1>0, <2>1, <2>2 DEF Holds, DeleteStep
    <3>3. server.match /\ server.etag =>
            \/ r \in Breaker /\ target[r] = Etag(r) /\ Etag(r) # NoRun
            \/ Etag(r) = r /\ ~Holds(r)'
      BY <1>0, <2>1, <2>2 DEF Etag, DeleteStep, Holds, Inv, TargetInv
    <3> QED
      BY <1>3, <2>0, <3>1, <3>2, <3>3, DeletedHolds
  <2> QED
    BY <2>3, <2>4, <2>5, <2>6, <2>7, <2>8 DEF Inv
<1> QED
  BY <1>1, <1>2, <1>3

\* The reads of break_lock, check and release preserve the invariant.
LEMMA ReadsInv ==
  ASSUME Inv, NEW r \in Run,
         BreakReread(r) \/ Check(r) \/ Release(r) \/ ReleaseRead(r) \/ DeleteExists(r)
  PROVE  Inv'
PROOF
<1> USE DEF Step, PutStep, DeleteStep, ReadStep, Ended
<1>1. CASE BreakReread(r)
  <2>1. server.none /\ ~Began(r) /\ step[r] = "breakReread"
    BY <1>1 DEF BreakReread, Inv, ProbeInv, Began
  <2>2. Goes(r, "take") \/ Goes(r, "locked")
    BY <1>1 DEF BreakReread
  <2> QED
    BY <1>1, <2>1, <2>2, GoesInv DEF BreakReread
<1>2. CASE Check(r)
  <2>1. server.none /\ step[r] = "held"
    BY <1>2 DEF Check, Inv, ProbeInv
  <2>2. CASE Goes(r, "lost")
    BY <1>2, <2>1, <2>2, GoesInv DEF Check
  <2>3. CASE UNCHANGED vars
    BY <2>3 DEF vars, Inv, TypeOK, ProbeInv, PartInv, LateInv, TargetInv, HoldsItsLock, Holds,
       BreakRequested, Began
  <2> QED
    BY <1>2, <2>2, <2>3 DEF Check, vars
<1>3. CASE Release(r)
  <2>1. server.none /\ step[r] = "held" /\ Holds(r)
    BY <1>3 DEF Release, Inv, ProbeInv, Holds
  <2> QED
    BY <1>3, <2>1, GoesInv DEF Release
<1>4. CASE ReleaseRead(r)
  <2>1. server.none /\ step[r] = "releaseRead"
    BY <1>4 DEF ReleaseRead, Inv, ProbeInv
  <2>2. Goes(r, "release") \/ Goes(r, "lost")
    BY <1>4 DEF ReleaseRead
  <2> QED
    BY <1>4, <2>1, <2>2, GoesInv DEF ReleaseRead
<1>5. CASE DeleteExists(r)
  BY <1>5, DeleteReturnsInv DEF DeleteExists, FoundGone
<1> QED
  BY <1>1, <1>2, <1>3, <1>4, <1>5

\* The first read of break_lock preserves the invariant: a run never aims
\* at its own lock, which is not written yet.
LEMMA BreakReadInv ==
  ASSUME Inv, NEW r \in Run, BreakRead(r)
  PROVE  Inv'
PROOF
<1>0. server.none /\ step[r] = "breakRead" /\ ~Began(r) /\ r \in Breaker
  BY DEF BreakRead, Inv, ProbeInv, TargetInv, Began, Ended
<1>1. CASE lock = NoRun
  <2>1. Goes(r, "take") /\ UNCHANGED <<server, lock, probe, late, target>>
    BY <1>1 DEF BreakRead
  <2> QED
    BY <1>0, <2>1, GoesInv DEF Step, PutStep, Ended
<1>2. CASE lock # NoRun /\ ~server.etag
  <2>1. Goes(r, "stopped") /\ UNCHANGED <<server, lock, probe, late, target>>
    BY <1>2 DEF BreakRead
  <2> QED
    BY <1>0, <2>1, GoesInv DEF Step, Ended
<1>3. CASE lock # NoRun /\ server.etag
  <2>0. /\ Goes(r, "break") /\ target' = [target EXCEPT ![r] = lock]
        /\ server' = server /\ lock' = lock /\ probe' = probe /\ late' = late
    BY <1>3 DEF BreakRead
  <2>1. lock \in Run /\ lock # r
    BY <1>0, <1>3 DEF Inv, TypeOK, LateInv
  <2>2. /\ step'[r] = "break" /\ target'[r] = lock
        /\ \A u \in Run \ {r} : step'[u] = step[u] /\ target'[u] = target[u]
    BY <2>0 DEF Goes, Inv, TypeOK
  <2>3. TypeOK'
    BY <2>0, <2>1 DEF Inv, TypeOK, Goes, Part, Step, DeleteStep
  <2>4. ProbeInv'
    BY <1>0, <2>0, <2>2 DEF Inv, ProbeInv
  <2>5. PartInv'
    <3>1. part'[r] = "send" /\ \A u \in Run \ {r} : part'[u] = part[u]
      BY <2>0 DEF Goes, Inv, TypeOK
    <3> QED
      BY <2>0, <2>2, <3>1 DEF Inv, PartInv
  <2>6. LateInv'
    <3>1. \A u \in Run : Began(u) => Began(u)'
      BY <1>0, <2>2 DEF Began
    <3>2. \A u \in Run :
            step[u] \in {"release"} \cup Ended => step'[u] \in {"release"} \cup Ended
      BY <1>0, <2>2 DEF Ended
    <3>3. \A q \in late : q.run \in Run /\ (q.step = "break" => q.run # r)
      BY <1>0 DEF Inv, TypeOK, Request, LateInv, TargetInv
    <3> QED
      BY <3>1, <3>2, <3>3, <2>0, <2>1, <2>2 DEF Inv, LateInv
  <2>7. TargetInv'
    BY <1>0, <1>3, <2>0, <2>1, <2>2 DEF Inv, TargetInv
  <2>8. HoldsItsLock'
    <3>1. \A u \in Run : BreakRequested(u) => BreakRequested(u)'
      BY <1>0, <2>2, RunAssumption DEF BreakRequested, Inv, TargetInv
    <3> QED
      BY <3>1, <2>0, <2>2 DEF Inv, HoldsItsLock, Holds
  <2> QED
    BY <2>3, <2>4, <2>5, <2>6, <2>7, <2>8 DEF Inv
<1> QED
  BY <1>1, <1>2, <1>3

\* The end of a run with no release preserves the invariant.
LEMMA StopInv ==
  ASSUME Inv, NEW r \in Run, Stop(r)
  PROVE  Inv'
PROOF
<1>0. /\ step' = [step EXCEPT ![r] = "stopped"]
      /\ server' = server /\ lock' = lock /\ probe' = probe /\ target' = target
  BY DEF Stop, Goes
<1>1. RequestOf(r) \in Request \/ late' = late
  BY DEF Stop, RequestOf, Request, Etag, Inv, TypeOK
<1>2. TypeOK'
  BY <1>0, <1>1 DEF Stop, Goes, Inv, TypeOK, Part, Step, Ended
<1>3. step'[r] = "stopped" /\ \A u \in Run \ {r} : step'[u] = step[u]
  BY <1>0 DEF Inv, TypeOK
<1>4. ProbeInv' /\ TargetInv'
  BY <1>0, <1>3 DEF Inv, ProbeInv, TargetInv
<1>5. PartInv'
  <2>1. part'[r] = "send" /\ \A u \in Run \ {r} : part'[u] = part[u]
    BY DEF Stop, Goes, Inv, TypeOK
  <2> QED
    BY <1>0, <1>3, <2>1 DEF Inv, PartInv
<1>6. LateInv'
  <2> DEFINE q0 == RequestOf(r)
  <2>1. \A u \in Run : Began(u) => Began(u)'
    BY <1>3 DEF Began, Ended
  <2>2. \A u \in Run :
          step[u] \in {"release"} \cup Ended => step'[u] \in {"release"} \cup Ended
    BY <1>3 DEF Ended
  <2>3. \A q \in late : q.run \in Run
    BY DEF Inv, TypeOK, Request
  <2>4. q0.run = r /\ q0.step = step[r] /\ q0.etag = Etag(r)
    BY DEF RequestOf
  <2>5. /\ q0.step = "take" => Began(r)' /\ server.none
        /\ q0.step = "break" => r \in Breaker /\ q0.etag = target[r] /\ q0.etag # NoRun
        /\ q0.step = "release" => step'[r] \in Ended /\ (server.etag => q0.etag = r)
    BY <1>3, <2>4 DEF Began, Ended, Inv, ProbeInv, TargetInv, Etag
  <2>6. late' \subseteq late \cup {q0}
    BY DEF Stop
  <2>7. lock' # NoRun => Began(lock)' /\ server'.none
    BY <1>0, <2>1 DEF Inv, LateInv, TypeOK
  <2> QED
    BY <2>1, <2>2, <2>3, <2>4, <2>5, <2>6, <2>7, <1>0 DEF Inv, LateInv
<1>7. HoldsItsLock'
  BY <1>0, <1>3 DEF Inv, HoldsItsLock, Holds, BreakRequested
<1> QED
  BY <1>2, <1>4, <1>5, <1>6, <1>7 DEF Inv

\* A late request that reaches the server preserves the invariant.
LEMMA DeliverInv ==
  ASSUME Inv, NEW q \in late, Deliver(q)
  PROVE  Inv'
PROOF
<1>0. /\ q \in Request /\ late' \subseteq late
      /\ server' = server /\ step' = step /\ part' = part /\ target' = target
  BY DEF Deliver, Inv, TypeOK
<1>1. q.run \in Run /\ q.etag \in Run \cup {NoRun} /\ q.step \in PutStep \cup DeleteStep
  BY <1>0 DEF Request
<1>2. /\ lock' \in {lock, NoRun, q.run} /\ (probe => probe') /\ probe' \in BOOLEAN
      /\ lock' = q.run /\ lock' # lock => q.step = "take"
  <2>1. CASE UNCHANGED <<lock, probe>>
    BY <2>1 DEF Inv, TypeOK
  <2>2. CASE PutApplied(q.run, q.step)
    <3>1. probe' \in BOOLEAN /\ (probe => probe')
      BY <2>2 DEF PutApplied
    <3> QED
      BY <2>2, <3>1 DEF PutApplied
  <2>3. CASE DeleteApplied
    BY <2>3, <1>1, RunAssumption DEF DeleteApplied, Inv, TypeOK
  <2> QED
    BY <2>1, <2>2, <2>3 DEF Deliver
<1>3. TypeOK'
  BY <1>0, <1>1, <1>2 DEF Deliver, Inv, TypeOK
<1>4. ProbeInv' /\ PartInv' /\ TargetInv'
  BY <1>0, <1>2 DEF Inv, ProbeInv, PartInv, TargetInv
<1>5. LateInv'
  <2>1. lock' # NoRun => Began(lock)' /\ server'.none
    BY <1>0, <1>1, <1>2 DEF Inv, LateInv, Began
  <2> QED
    BY <1>0, <2>1 DEF Inv, LateInv, Began
<1>6. HoldsItsLock'
  <2>1. CASE lock' = lock
    BY <1>0, <2>1 DEF Inv, HoldsItsLock, Holds, BreakRequested
  <2>2. CASE q.step \in PutStep /\ lock' # lock
    <3>1. q.step = "take" /\ ~PutRefused("take") /\ server.none
      BY <2>2, <1>1 DEF Deliver, PutApplied, PutStep, DeleteStep, Inv, LateInv
    <3>2. lock = NoRun
      BY <3>1 DEF PutRefused, Occupied
    <3> QED
      BY <3>2, <1>0, RunAssumption DEF Inv, HoldsItsLock, Holds, BreakRequested
  <2>3. CASE q.step \in DeleteStep /\ lock' # lock
    <3>1. lock' = NoRun /\ ~DeleteRefused(q.etag)
      BY <2>3, <1>1 DEF Deliver, DeleteApplied, PutStep, DeleteStep
    <3>2. server.match /\ server.etag =>
            \/ q.run \in Breaker /\ target[q.run] = q.etag /\ q.etag # NoRun
            \/ q.etag = q.run /\ ~Holds(q.run)'
      BY <2>3, <1>0 DEF Inv, LateInv, DeleteStep, Holds, Ended
    <3>3. \A u \in Run : Holds(u)' => Holds(u)
      BY <1>0 DEF Holds
    <3> QED
      BY <1>0, <1>1, <3>1, <3>2, <3>3, DeletedHolds
  <2> QED
    BY <1>1, <2>1, <2>2, <2>3
<1> QED
  BY <1>3, <1>4, <1>5, <1>6 DEF Inv

\* Every step preserves the invariant.
LEMMA NextInv == Inv /\ [Next]_vars => Inv'
PROOF
<1> SUFFICES ASSUME Inv, [Next]_vars PROVE Inv'
  OBVIOUS
<1>1. ASSUME NEW r \in Run, RunNext(r) PROVE Inv'
  BY <1>1, PutAnsweredInv, CompareInv, RoundInv, DeleteAnsweredInv, ReadsInv, BreakReadInv, StopInv
     DEF RunNext
<1>2. ASSUME NEW q \in late, Deliver(q) PROVE Inv'
  BY <1>2, DeliverInv
<1>3. CASE UNCHANGED vars
  BY <1>3 DEF vars, Inv, TypeOK, ProbeInv, PartInv, LateInv, TargetInv, HoldsItsLock, Holds,
     BreakRequested, Began
<1> QED
  BY <1>1, <1>2, <1>3 DEF Next

\* Inv is an invariant of the writer lock.
THEOREM Invariance == Spec => []Inv
PROOF
<1>1. Init => Inv
  BY InitInv
<1>2. Inv /\ [Next]_vars => Inv'
  BY NextInv
<1> QED
  BY <1>1, <1>2, PTL DEF Spec

\* A run that goes on as the holder of the writer lock has its lock in the
\* key until a break reads it, for any number of runs and of retries
\* (take_lock, break_lock, release).
THEOREM HolderKeepsLock == Spec => []HoldsItsLock
PROOF
<1>1. Inv => HoldsItsLock
  BY DEF Inv
<1> QED
  BY <1>1, Invariance, PTL

\* The probe lets no run write the lock on a server that ignores
\* If-None-Match, and refuses no server that honors it (probe_exclusion).
THEOREM ProbeIsRight == Spec => []ProbeVerdict
PROOF
<1>1. Inv => ProbeVerdict
  BY DEF Inv, ProbeVerdict, ProbeInv, LateInv, Holds
<1> QED
  BY <1>1, Invariance, PTL

\* A release that reports success leaves no lock of its run in the key
\* (release, delete_if_match).
THEOREM ReleaseRemoves == Spec => ReleasedLockIsGone
PROOF
<1> DEFINE A == \A r \in Run : step[r] # "released" /\ step'[r] = "released" => lock' # r
<1>1. Inv /\ [Next]_vars => [A]_vars
  <2> SUFFICES ASSUME Inv, Next, NEW r \in Run, step[r] # "released", step'[r] = "released"
               PROVE  lock' # r
    OBVIOUS
  <2>1. ASSUME NEW q \in late, Deliver(q) PROVE FALSE
    BY <2>1 DEF Deliver
  <2>2. PICK u \in Run : RunNext(u)
    BY <2>1 DEF Next
  <2>3. \A s : Goes(u, s) => u = r /\ s = "released"
    BY DEF Goes, Inv, TypeOK
  <2>4. step' # step
    OBVIOUS
  <2>5. DeleteAnswered(u) \/ DeleteExists(u)
    <3>1. \A out \in {"created", "present", "matches", "refused"} :
            step[u] \in PutStep => AfterPut(u, out) # "released"
      BY AfterPutStep
    <3>2. ~PutAnswered(u)
      BY <3>1, <2>3, <2>4 DEF PutAnswered
    <3>3. ~Compare(u)
      BY <3>1, <2>3, <2>4 DEF Compare, Again, Inv, PartInv
    <3>4. ~(PutConflict(u) \/ PutCut(u) \/ Repeat(u))
      BY <2>4 DEF PutConflict, PutCut, Repeat, Again
    <3>5. ~(BreakRead(u) \/ BreakReread(u) \/ Check(u) \/ Release(u) \/ ReleaseRead(u) \/ Stop(u))
      BY <2>3, <2>4 DEF BreakRead, BreakReread, Check, Release, ReleaseRead, Stop
    <3> QED
      BY <2>2, <3>2, <3>3, <3>4, <3>5 DEF RunNext
  <2>6. CASE DeleteAnswered(u)
    <3>1. ~DeleteRefused(Etag(u)) \/ (Goes(u, AfterDelete(u, FALSE)) /\ step[u] \in DeleteStep)
      BY <2>4, <2>6 DEF DeleteAnswered
    <3>2. AfterDelete(u, FALSE) # "released"
      BY <2>6 DEF DeleteAnswered, AfterDelete, DeleteStep
    <3>3. lock' = NoRun
      BY <2>3, <2>4, <2>6, <3>2 DEF DeleteAnswered, DeleteApplied
    <3> QED
      BY <3>3, RunAssumption
  <2>7. CASE DeleteExists(u)
    <3>1. AfterDelete(u, FoundGone) = "released"
      BY <2>3, <2>7 DEF DeleteExists
    <3>2. FoundGone
      BY <2>7, <3>1 DEF DeleteExists, AfterDelete, DeleteStep
    <3> QED
      BY <2>7, <3>2, RunAssumption DEF DeleteExists, FoundGone
  <2> QED
    BY <2>5, <2>6, <2>7
<1> QED
  BY <1>1, Invariance, PTL DEF Spec, ReleasedLockIsGone

-----------------------------------------------------------------------------
\* The upload.

\* The bounds of an upload are numbers, and it has a frame and a destination.
LEMMA UploadConstants ==
  Frames \in Nat \ {0} /\ Mirrors \in Nat \ {0} /\ MaxRedirects \in Nat /\ MaxRetries \in Nat
PROOF
  BY UploadAssumption, MaxRetriesAssumption

\* The least of a nonempty set of positions is one of them.
LEMMA FirstIsIn ==
  ASSUME NEW T \in SUBSET Nat, T # {}
  PROVE  Up!First(T) \in T
PROOF
<1>1. PICK x \in T : \A y \in T : ~(<<y, x>> \in OpToRel(<, Nat))
  BY NatLessThanWellFounded, WFMin, Zenon
<1>2. \A y \in T : y < x => <<y, x>> \in OpToRel(<, Nat)
  <2>1. SUFFICES ASSUME NEW y \in T, y < x PROVE <<y, x>> \in OpToRel(<, Nat)
    OBVIOUS
  <2>2. <<y, x>> \in Nat \X Nat /\ <<y, x>>[1] < <<y, x>>[2]
    BY <2>1
  <2> QED
    BY <2>2, Zenon DEF OpToRel
<1>3. \A y \in T : x <= y
  <2>1. \A y \in T : ~(y < x)
    BY <1>1, <1>2, Zenon
  <2> QED
    BY <2>1
<1> QED
  BY <1>3 DEF Up!First

\* The counts of frames are numbers.
LEMMA FrameCounts ==
  ASSUME Up!TypeOK
  PROVE  /\ hyper.got \in 0..Frames /\ slot.frame \in 0..Frames
         /\ writer.buffer \in {0, 1} /\ writer.written \in 0..Frames
PROOF
  BY DEF Up!TypeOK, Up!HyperType, Up!SlotType, Up!WriterType

-----------------------------------------------------------------------------
\* What the updates of the records leave in their fields.

\* The writer after a call that returned.
LEMMA Returns ==
  ASSUME writer \in Up!WriterType, NEW p \in {"idle", "failed", "closed", "dropped"},
         writer' = Up!Returned(p)
  PROVE  /\ writer' \in Up!WriterType
         /\ writer'.pc = p /\ writer'.call = "none"
         /\ writer'.buffer = writer.buffer /\ writer'.written = writer.written
PROOF
  BY DEF Up!WriterType, Up!Returned

\* The writer after a write that took a frame.
LEMMA Fills ==
  ASSUME writer \in Up!WriterType, writer.written < Frames, writer' = Up!Filled(writer)
  PROVE  /\ writer' \in Up!WriterType
         /\ writer'.pc = "idle" /\ writer'.call = "none"
         /\ writer'.buffer = 1 /\ writer'.written = writer.written + 1
PROOF
<1>1. writer.written \in 0..Frames
  BY DEF Up!WriterType
<1>2. writer.written + 1 \in 0..Frames
  BY <1>1, UploadConstants
<1>3. writer' = [writer EXCEPT !.pc = "idle", !.call = "none", !.buffer = 1,
                               !.written = writer.written + 1]
  BY DEF Up!WriterType, Up!Filled
<1> QED
  BY <1>2, <1>3 DEF Up!WriterType

\* The writer after a poll that parks it.
LEMMA Parks ==
  ASSUME Up!TypeOK, NEW s \in Up!SlotType, Up!WriterParks(s)
  PROVE  /\ writer' \in Up!WriterType
         /\ writer'.pc \in {"check", "parked"} /\ writer'.call = writer.call
         /\ writer'.buffer = writer.buffer /\ writer'.written = writer.written
         /\ wakers' \subseteq {"writer", "reader", "upload"}
PROOF
<1>1. Up!WindowRuns(s) \in BOOLEAN
  BY DEF Up!WindowRuns, Up!SlotType
<1>2. wakers' \subseteq {"writer", "reader", "upload"}
  BY DEF Up!TypeOK, Up!WriterParks
<1>3. writer \in Up!WriterType
  BY DEF Up!TypeOK
<1>4. PICK p \in {"check", "parked"} :
        writer' = [writer EXCEPT !.pc = p, !.timer = Up!WindowRuns(s)]
  BY DEF Up!WriterParks
<1> QED
  BY <1>1, <1>2, <1>3, <1>4 DEF Up!WriterType

\* The slot after an abort.
LEMMA Aborts ==
  ASSUME slot \in Up!SlotType, slot' = Up!AbortSlot(slot)
  PROVE  /\ slot' \in Up!SlotType /\ slot'.aborted
         /\ slot'.frame = slot.frame /\ slot'.closed = slot.closed
         /\ slot'.ended = slot.ended /\ slot'.polled = slot.polled
         /\ slot'.empty = slot.empty
PROOF
  BY DEF Up!SlotType, Up!AbortSlot

\* The slot after the drop of the body.
LEMMA BodyDrops ==
  ASSUME Up!TypeOK, Up!DropBody
  PROVE  /\ slot' \in Up!SlotType /\ slot'.aborted = slot.aborted
         /\ slot'.frame = slot.frame /\ slot'.closed = slot.closed
         /\ slot'.ended = slot.ended /\ slot'.polled = slot.polled
         /\ slot'.empty = slot.empty
         /\ wakers' \subseteq {"writer", "reader", "upload"}
PROOF
<1>1. slot \in Up!SlotType /\ slot' = [slot EXCEPT !.gone = TRUE]
  BY DEF Up!TypeOK, Up!DropBody
<1>2. wakers' \subseteq {"writer", "reader", "upload"}
  BY DEF Up!TypeOK, Up!DropBody
<1> QED
  BY <1>1, <1>2 DEF Up!SlotType

\* The upload after a move to another await.
LEMMA UploadGoesTo ==
  ASSUME upload \in Up!UploadType,
         NEW at \in {"idle", "attempt", "connect", "ready", "backoff", "poll", "watch",
                     "check", "parked", "headwait", "returned", "response", "over"},
         Up!UploadGoes(at)
  PROVE  /\ upload' \in Up!UploadType
         /\ upload'.at = at /\ upload'.followed = upload.followed
         /\ upload'.outcome = upload.outcome
PROOF
  BY DEF Up!UploadType, Up!UploadGoes

\* The upload after its end.
LEMMA Overs ==
  ASSUME upload \in Up!UploadType,
         NEW o \in {"answered", "interrupted", "unsent", "dropped"}, Up!Over(o)
  PROVE  /\ upload' \in Up!UploadType
         /\ upload'.at = "over" /\ upload'.followed = upload.followed
         /\ upload'.outcome = o
PROOF
  BY DEF Up!UploadType, Up!Over

-----------------------------------------------------------------------------
\* The parts of the invariant under steps of other parties.

\* A step that changes the writer alone and moves no frame.
LEMMA WriterMoves ==
  ASSUME Up!Inv, writer' \in Up!WriterType, Up!WriterInv',
         wakers' \subseteq {"writer", "reader", "upload"},
         writer'.buffer = writer.buffer, writer'.written = writer.written,
         UNCHANGED <<whole, slot, hyper, head, rounds, upload, sent>>
  PROVE  Up!Inv'
PROOF
<1>1. Up!TypeOK'
  BY DEF Up!Inv, Up!TypeOK
<1>2. Up!SlotInv'
  BY DEF Up!Inv, Up!SlotInv, Up!AtEnd
<1>3. Up!HyperInv' /\ Up!RoundsInv' /\ Up!SentInv'
  BY DEF Up!Inv, Up!HyperInv, Up!RoundsInv, Up!SentInv, Up!BeforeHandOver
<1> QED
  BY <1>1, <1>2, <1>3 DEF Up!Inv

\* The slot keeps its frames and its end, and fails only before its end.
SlotStays ==
  /\ slot' \in Up!SlotType
  /\ slot'.frame = slot.frame /\ slot'.closed = slot.closed
  /\ slot'.ended = slot.ended /\ slot'.polled = slot.polled
  /\ slot'.empty = slot.empty
  /\ slot'.aborted => slot.aborted \/ ~slot.ended

\* A slot that stays keeps what holds of the writer and the slot.
LEMMA SlotKept ==
  ASSUME Up!Inv, SlotStays, UNCHANGED <<whole, writer, hyper>>
  PROVE  Up!WriterInv' /\ Up!SlotInv'
PROOF
<1>1. Up!WriterInv'
  BY DEF Up!Inv, Up!WriterInv, SlotStays
<1>2. Up!SlotInv'
  <2>1. slot.ended => Up!AtEnd(slot)'
    BY DEF Up!Inv, Up!SlotInv, Up!AtEnd, SlotStays
  <2> QED
    BY <2>1 DEF Up!Inv, Up!SlotInv, SlotStays
<1> QED
  BY <1>1, <1>2

\* A step on the slot alone.
LEMMA SlotMoves ==
  ASSUME Up!Inv, SlotStays, wakers' \subseteq {"writer", "reader", "upload"},
         UNCHANGED <<whole, writer, hyper, head, rounds, upload, sent>>
  PROVE  Up!Inv'
PROOF
<1>1. Up!TypeOK'
  BY DEF Up!Inv, Up!TypeOK, SlotStays
<1>2. Up!WriterInv' /\ Up!SlotInv'
  BY SlotKept
<1>3. Up!HyperInv' /\ Up!RoundsInv' /\ Up!SentInv'
  BY DEF Up!Inv, Up!HyperInv, Up!RoundsInv, Up!SentInv, Up!BeforeHandOver, SlotStays
<1> QED
  BY <1>1, <1>2, <1>3 DEF Up!Inv

\* A slot that does not change stays.
LEMMA SameSlotStays ==
  ASSUME Up!Inv, slot' = slot
  PROVE  SlotStays
PROOF
  BY DEF Up!Inv, Up!TypeOK, SlotStays

\* A failure of a body with a frame, or of one that did not end.
LEMMA AbortStays ==
  ASSUME Up!Inv, slot' = Up!AbortSlot(slot), ~slot.ended
  PROVE  SlotStays
PROOF
<1>1. slot \in Up!SlotType
  BY DEF Up!Inv, Up!TypeOK
<1> QED
  BY <1>1, Aborts DEF SlotStays

\* The drop of the body leaves the frames of the slot.
LEMMA DropStays ==
  ASSUME Up!Inv, Up!DropBody
  PROVE  SlotStays /\ wakers' \subseteq {"writer", "reader", "upload"}
PROOF
<1>1. Up!TypeOK
  BY DEF Up!Inv
<1> QED
  BY <1>1, BodyDrops DEF SlotStays

\* The cut of a body leaves the frames of the slot.
LEMMA CutStays ==
  ASSUME Up!Inv, Up!Cut
  PROVE  SlotStays /\ wakers' \subseteq {"writer", "reader", "upload"}
PROOF
<1>1. wakers \subseteq {"writer", "reader", "upload"}
  BY DEF Up!Inv, Up!TypeOK
<1>2. CASE slot.ended
  BY <1>1, <1>2, SameSlotStays DEF Up!Cut
<1>3. CASE ~slot.ended
  BY <1>1, <1>3, AbortStays DEF Up!Cut
<1> QED
  BY <1>2, <1>3

\* A stall window runs on a body that did not end.
LEMMA WindowIsOpen ==
  ASSUME Up!Inv, Up!WindowRuns(slot)
  PROVE  ~slot.ended
PROOF
  BY FrameCounts DEF Up!Inv, Up!SlotInv, Up!AtEnd, Up!WindowRuns

-----------------------------------------------------------------------------
\* The writer.

\* The time of a stall window passes.
LEMMA TickInv == Up!Inv /\ Up!Tick => Up!Inv'
PROOF
<1> SUFFICES ASSUME Up!Inv, Up!Tick PROVE Up!Inv'
  OBVIOUS
<1>1. slot \in Up!SlotType /\ wakers \subseteq {"writer", "reader", "upload"}
  BY DEF Up!Inv, Up!TypeOK
<1>2. SlotStays
  BY <1>1 DEF Up!Tick, Up!SlotType, SlotStays
<1> QED
  BY <1>1, <1>2, SlotMoves DEF Up!Tick

\* Where a poll of a call starts.
LEMMA PollLeads ==
  ASSUME writer \in Up!WriterType, NEW c \in {"write", "flush", "close"}
  PROVE  /\ Up!PollOf(c) \in {"write", "hand", "taken", "close"}
         /\ Up!PollOf(c) = "write" => c = "write"
         /\ Up!PollOf(c) = "hand" => writer.buffer = 1
         /\ Up!PollOf(c) = "taken" => c = "flush" /\ writer.buffer = 0
         /\ Up!PollOf(c) = "close" => c = "close" /\ writer.buffer = 0
PROOF
<1>1. writer.buffer \in {0, 1}
  BY DEF Up!WriterType
<1>2. CASE c = "write"
  BY <1>2 DEF Up!PollOf
<1>3. CASE c # "write" /\ writer.buffer = 1
  BY <1>3 DEF Up!PollOf
<1>4. CASE c # "write" /\ writer.buffer = 0
  BY <1>4 DEF Up!PollOf
<1> QED
  BY <1>1, <1>2, <1>3, <1>4

\* A call of the writer begins.
LEMMA CallInv ==
  ASSUME Up!Inv, NEW c \in {"write", "flush", "close"}, Up!Call(c)
  PROVE  Up!Inv'
PROOF
<1>1. writer \in Up!WriterType /\ Up!WriterInv /\ wakers \subseteq {"writer", "reader", "upload"}
  BY DEF Up!Inv, Up!TypeOK
<1>2. /\ Up!PollOf(c) \in {"write", "hand", "taken", "close"}
      /\ Up!PollOf(c) = "write" => c = "write"
      /\ Up!PollOf(c) = "hand" => writer.buffer = 1
      /\ Up!PollOf(c) = "taken" => c = "flush" /\ writer.buffer = 0
      /\ Up!PollOf(c) = "close" => c = "close" /\ writer.buffer = 0
  BY <1>1, PollLeads
<1>5. /\ writer' \in Up!WriterType
      /\ writer'.pc = Up!PollOf(c) /\ writer'.call = c
      /\ writer'.buffer = writer.buffer /\ writer'.written = writer.written
  BY <1>1, <1>2 DEF Up!Call, Up!WriterType
<1>6. Up!WriterInv'
  BY <1>1, <1>2, <1>5 DEF Up!Call, Up!WriterInv
<1> QED
  BY <1>1, <1>5, <1>6, WriterMoves DEF Up!Call

\* A call that returns, or fails, at a step that leaves the slot.
LEMMA ReturnsInv ==
  ASSUME Up!Inv, NEW p \in {"idle", "failed", "closed"}, writer' = Up!Returned(p),
         ~whole, p = "closed" => slot.ended,
         wakers' \subseteq {"writer", "reader", "upload"},
         UNCHANGED <<whole, slot, hyper, head, rounds, upload, sent>>
  PROVE  Up!Inv'
PROOF
<1>1. writer \in Up!WriterType /\ Up!WriterInv
  BY DEF Up!Inv, Up!TypeOK
<1>2. /\ writer' \in Up!WriterType
      /\ writer'.pc = p /\ writer'.call = "none"
      /\ writer'.buffer = writer.buffer /\ writer'.written = writer.written
  BY <1>1, Returns
<1>3. Up!WriterInv'
  BY <1>1, <1>2 DEF Up!WriterInv
<1> QED
  BY <1>2, <1>3, WriterMoves

\* A call that parks.
LEMMA ParksInv ==
  ASSUME Up!Inv, writer.call # "none", Up!WriterParks(slot),
         UNCHANGED <<whole, slot, hyper, head, rounds, upload, sent>>
  PROVE  Up!Inv'
PROOF
<1>1. Up!TypeOK /\ slot \in Up!SlotType /\ Up!WriterInv
  BY DEF Up!Inv, Up!TypeOK
<1>2. /\ writer' \in Up!WriterType
      /\ writer'.pc \in {"check", "parked"} /\ writer'.call = writer.call
      /\ writer'.buffer = writer.buffer /\ writer'.written = writer.written
      /\ wakers' \subseteq {"writer", "reader", "upload"}
  BY <1>1, Parks
<1>3. Up!WriterInv'
  BY <1>1, <1>2 DEF Up!WriterInv
<1> QED
  BY <1>2, <1>3, WriterMoves

\* A poll of a write.
LEMMA PollWriteInv == Up!Inv /\ Up!PollWrite => Up!Inv'
PROOF
<1> SUFFICES ASSUME Up!Inv, Up!PollWrite PROVE Up!Inv'
  OBVIOUS
<1>0. Up!TypeOK /\ Up!WriterInv /\ Up!SlotInv /\ writer \in Up!WriterType
  BY DEF Up!Inv, Up!TypeOK
<1>u. UNCHANGED <<whole, slot, wakers, hyper, head, rounds, upload, sent>>
  BY DEF Up!PollWrite
<1>p. writer.pc = "write" /\ ~whole /\ wakers \subseteq {"writer", "reader", "upload"}
  BY <1>0 DEF Up!PollWrite, Up!WriterInv, Up!TypeOK
<1>1. CASE Up!Broken(slot) \/ slot.closed
  BY <1>1, <1>p, <1>u, ReturnsInv DEF Up!PollWrite, Up!WriterFails
<1>2. CASE ~(Up!Broken(slot) \/ slot.closed) /\ writer.buffer = 1
  <2>1. writer' = [writer EXCEPT !.pc = "hand"]
    BY <1>2 DEF Up!PollWrite
  <2>2. /\ writer' \in Up!WriterType
        /\ writer'.pc = "hand" /\ writer'.call = writer.call
        /\ writer'.buffer = writer.buffer /\ writer'.written = writer.written
    BY <1>0, <2>1 DEF Up!WriterType
  <2>3. Up!WriterInv'
    BY <1>0, <1>2, <1>u, <1>p, <2>2 DEF Up!WriterInv
  <2> QED
    BY <1>p, <1>u, <2>2, <2>3, WriterMoves
<1>3. CASE ~(Up!Broken(slot) \/ slot.closed) /\ writer.buffer # 1
  <2>1. writer' = Up!Filled(writer)
    BY <1>3 DEF Up!PollWrite
  <2>2. /\ writer' \in Up!WriterType
        /\ writer'.pc = "idle" /\ writer'.call = "none"
        /\ writer'.buffer = 1 /\ writer'.written = writer.written + 1
    BY <1>0, <1>p, <2>1, Fills DEF Up!WriterInv
  <2>3. Up!TypeOK'
    BY <1>0, <1>u, <2>2 DEF Up!TypeOK
  <2>4. Up!WriterInv'
    BY <1>0, <1>u, <1>p, <2>2 DEF Up!WriterInv
  <2>5. Up!SlotInv'
    BY <1>0, <1>3, <1>p, <1>u, <2>2, FrameCounts DEF Up!SlotInv, Up!AtEnd
  <2>6. Up!HyperInv' /\ Up!RoundsInv' /\ Up!SentInv'
    BY <1>u DEF Up!Inv, Up!HyperInv, Up!RoundsInv, Up!SentInv, Up!BeforeHandOver
  <2> QED
    BY <2>3, <2>4, <2>5, <2>6 DEF Up!Inv
<1> QED
  BY <1>1, <1>2, <1>3

\* A poll that hands a frame over to the slot.
LEMMA PollHandOverInv == Up!Inv /\ Up!PollHandOver => Up!Inv'
PROOF
<1> SUFFICES ASSUME Up!Inv, Up!PollHandOver PROVE Up!Inv'
  OBVIOUS
<1>0. Up!TypeOK /\ Up!WriterInv /\ Up!SlotInv /\ writer \in Up!WriterType /\ slot \in Up!SlotType
  BY DEF Up!Inv, Up!TypeOK
<1>u. UNCHANGED <<whole, hyper, head, rounds, upload, sent>>
  BY DEF Up!PollHandOver
<1>p. writer.pc = "hand" /\ writer.buffer = 1 /\ ~whole /\ writer.call # "none"
  BY <1>0 DEF Up!PollHandOver, Up!WriterInv
<1>c. ~slot.closed /\ ~slot.ended /\ wakers \subseteq {"writer", "reader", "upload"}
  BY <1>0, <1>p DEF Up!SlotInv, Up!AtEnd, Up!TypeOK
<1>1. CASE Up!Broken(slot) /\ Up!WriterFails /\ UNCHANGED <<slot, wakers>>
  BY <1>1, <1>p, <1>u, <1>c, ReturnsInv DEF Up!WriterFails
<1>2. CASE Up!WriterParks(slot) /\ UNCHANGED slot
  BY <1>2, <1>p, <1>u, ParksInv
<1>3. ASSUME slot.frame = 0,
             slot' = [slot EXCEPT !.frame = 1, !.ripe = FALSE],
             wakers' = wakers \ {"reader"},
             writer' = CASE writer.call = "write" -> Up!Filled(writer)
                       [] writer.call = "flush" -> [writer EXCEPT !.buffer = 0, !.pc = "taken"]
                       [] writer.call = "close" -> [writer EXCEPT !.buffer = 0, !.pc = "close"]
      PROVE  Up!Inv'
  <2>1. /\ slot' \in Up!SlotType /\ slot'.frame = 1 /\ ~slot'.closed /\ ~slot'.ended
        /\ slot'.polled = slot.polled
    <3>1. 1 \in 0..Frames
      BY UploadConstants
    <3> QED
      BY <1>0, <1>3, <1>c, <3>1 DEF Up!SlotType
  <2>2. /\ writer' \in Up!WriterType /\ Up!WriterInv'
        /\ writer'.written = writer.written + writer'.buffer
    <3>1. CASE writer.call = "write"
      <4>1. writer' = Up!Filled(writer) /\ writer.written < Frames
        BY <1>0, <1>3, <3>1 DEF Up!WriterInv
      <4>2. /\ writer' \in Up!WriterType
            /\ writer'.pc = "idle" /\ writer'.call = "none"
            /\ writer'.buffer = 1 /\ writer'.written = writer.written + 1
        BY <1>0, <4>1, Fills
      <4> QED
        BY <1>0, <1>u, <1>p, <4>2 DEF Up!WriterInv
    <3>2. CASE writer.call = "flush"
      <4>1. writer' = [writer EXCEPT !.buffer = 0, !.pc = "taken"]
        BY <1>3, <3>2
      <4>2. /\ writer' \in Up!WriterType
            /\ writer'.pc = "taken" /\ writer'.call = "flush"
            /\ writer'.buffer = 0 /\ writer'.written = writer.written
        BY <1>0, <3>2, <4>1 DEF Up!WriterType
      <4>3. writer.written \in Nat
        BY <1>0, FrameCounts
      <4> QED
        BY <1>0, <1>u, <1>p, <4>2, <4>3 DEF Up!WriterInv
    <3>3. CASE writer.call = "close"
      <4>1. writer' = [writer EXCEPT !.buffer = 0, !.pc = "close"]
        BY <1>3, <3>3
      <4>2. /\ writer' \in Up!WriterType
            /\ writer'.pc = "close" /\ writer'.call = "close"
            /\ writer'.buffer = 0 /\ writer'.written = writer.written
        BY <1>0, <3>3, <4>1 DEF Up!WriterType
      <4>3. writer.written \in Nat
        BY <1>0, FrameCounts
      <4> QED
        BY <1>0, <1>u, <1>p, <4>2, <4>3 DEF Up!WriterInv
    <3>4. writer.call \in {"write", "flush", "close"}
      BY <1>0, <1>p DEF Up!WriterType
    <3> QED
      BY <3>1, <3>2, <3>3, <3>4
  <2>3. Up!TypeOK'
    BY <1>0, <1>3, <1>u, <2>1, <2>2 DEF Up!TypeOK
  <2>4. Up!SlotInv'
    <3>1. writer'.buffer \in Nat
      BY <2>2 DEF Up!WriterType
    <3>2. hyper'.got + slot'.frame + writer'.buffer = writer'.written
      <4>1. hyper.got + slot.frame + writer.buffer = writer.written
        BY <1>0 DEF Up!SlotInv
      <4>2. hyper'.got = hyper.got
        BY <1>u
      <4>3. hyper.got \in Nat /\ writer.written \in Nat
        BY <1>0, FrameCounts
      <4>4. hyper.got + 1 = writer.written
        BY <1>3, <1>p, <4>1, <4>3
      <4> QED
        BY <2>1, <2>2, <3>1, <4>2, <4>3, <4>4
    <3> QED
      BY <1>p, <1>u, <2>1, <3>2 DEF Up!SlotInv
  <2>5. Up!HyperInv' /\ Up!RoundsInv' /\ Up!SentInv'
    BY <1>u, <1>c, <2>1 DEF Up!Inv, Up!HyperInv, Up!RoundsInv, Up!SentInv, Up!BeforeHandOver
  <2> QED
    BY <2>2, <2>3, <2>4, <2>5 DEF Up!Inv
<1> QED
  BY <1>1, <1>2, <1>3 DEF Up!PollHandOver

\* A poll that waits until the frame is taken.
LEMMA PollTakenInv == Up!Inv /\ Up!PollTaken => Up!Inv'
PROOF
<1> SUFFICES ASSUME Up!Inv, Up!PollTaken PROVE Up!Inv'
  OBVIOUS
<1>u. UNCHANGED <<whole, slot, hyper, head, rounds, upload, sent>>
  BY DEF Up!PollTaken
<1>p. /\ writer.pc = "taken" /\ ~whole /\ writer.call # "none"
      /\ wakers \subseteq {"writer", "reader", "upload"}
  BY DEF Up!Inv, Up!PollTaken, Up!WriterInv, Up!TypeOK
<1>1. CASE Up!WriterFails /\ UNCHANGED wakers
  BY <1>1, <1>p, <1>u, ReturnsInv DEF Up!WriterFails
<1>2. CASE writer' = Up!Returned("idle") /\ UNCHANGED wakers
  BY <1>2, <1>p, <1>u, ReturnsInv
<1>3. CASE Up!WriterParks(slot)
  BY <1>3, <1>p, <1>u, ParksInv
<1> QED
  BY <1>1, <1>2, <1>3 DEF Up!PollTaken

\* A poll of a close.
LEMMA PollCloseInv == Up!Inv /\ Up!PollClose => Up!Inv'
PROOF
<1> SUFFICES ASSUME Up!Inv, Up!PollClose PROVE Up!Inv'
  OBVIOUS
<1>0. Up!TypeOK /\ Up!WriterInv /\ Up!SlotInv /\ writer \in Up!WriterType /\ slot \in Up!SlotType
  BY DEF Up!Inv, Up!TypeOK
<1>u. UNCHANGED <<whole, hyper, head, rounds, upload, sent>>
  BY DEF Up!PollClose
<1>p. /\ writer.pc = "close" /\ writer.buffer = 0 /\ ~whole /\ writer.call = "close"
      /\ wakers \subseteq {"writer", "reader", "upload"}
  BY <1>0 DEF Up!PollClose, Up!WriterInv, Up!TypeOK
<1>s. /\ slot' \in Up!SlotType /\ slot'.frame = slot.frame /\ slot'.closed
      /\ slot'.ended = slot.ended /\ slot'.polled = slot.polled
      /\ slot'.empty = slot.empty /\ slot'.aborted = slot.aborted
  BY <1>0 DEF Up!PollClose, Up!SlotType
<1> DEFINE WriterEnds == /\ writer' \in Up!WriterType /\ Up!WriterInv'
                        /\ writer'.buffer = 0 /\ writer'.written = writer.written
                        /\ wakers' \subseteq {"writer", "reader", "upload"}
<1>w. WriterEnds
  <2>1. ASSUME NEW p \in {"failed", "closed"}, p = "closed" => slot.ended,
               writer' = Up!Returned(p),
               wakers' = IF slot.closed THEN wakers ELSE wakers \ {"reader"}
        PROVE  WriterEnds
    <3>1. /\ writer' \in Up!WriterType
          /\ writer'.pc = p /\ writer'.call = "none"
          /\ writer'.buffer = writer.buffer /\ writer'.written = writer.written
      BY <1>0, <2>1, Returns
    <3>2. Up!WriterInv'
      BY <1>0, <1>u, <1>p, <1>s, <2>1, <3>1 DEF Up!WriterInv
    <3> QED
      BY <1>p, <2>1, <3>1, <3>2
  <2>2. ASSUME Up!WriterParks(slot') PROVE WriterEnds
    <3>1. /\ writer' \in Up!WriterType
          /\ writer'.pc \in {"check", "parked"} /\ writer'.call = writer.call
          /\ writer'.buffer = writer.buffer /\ writer'.written = writer.written
          /\ wakers' \subseteq {"writer", "reader", "upload"}
      BY <1>0, <1>s, <2>2, Parks
    <3>2. Up!WriterInv'
      BY <1>0, <1>u, <1>p, <1>s, <3>1 DEF Up!WriterInv
    <3> QED
      BY <1>p, <3>1, <3>2
  <2> QED
    BY <2>1, <2>2 DEF Up!PollClose, Up!WriterFails
<1>1. Up!TypeOK'
  BY <1>0, <1>u, <1>s, <1>w DEF Up!TypeOK
<1>2. Up!SlotInv'
  BY <1>0, <1>u, <1>p, <1>s, <1>w DEF Up!SlotInv, Up!AtEnd
<1>3. Up!HyperInv' /\ Up!RoundsInv' /\ Up!SentInv'
  BY <1>u, <1>s DEF Up!Inv, Up!HyperInv, Up!RoundsInv, Up!SentInv, Up!BeforeHandOver
<1> QED
  BY <1>1, <1>2, <1>3, <1>w DEF Up!Inv

\* The writer looks at the stall window.
LEMMA WriterChecksStallInv == Up!Inv /\ Up!WriterChecksStall => Up!Inv'
PROOF
<1> SUFFICES ASSUME Up!Inv, Up!WriterChecksStall PROVE Up!Inv'
  OBVIOUS
<1>0. Up!TypeOK /\ Up!WriterInv /\ Up!SlotInv /\ writer \in Up!WriterType /\ slot \in Up!SlotType
  BY DEF Up!Inv, Up!TypeOK
<1>u. UNCHANGED <<whole, hyper, head, rounds, upload, sent>>
  BY DEF Up!WriterChecksStall
<1>p. /\ writer.pc = "check" /\ ~whole /\ writer.call # "none"
      /\ wakers \subseteq {"writer", "reader", "upload"}
  BY <1>0 DEF Up!WriterChecksStall, Up!WriterInv, Up!TypeOK
<1>1. CASE Up!WindowRuns(slot) /\ slot.ripe
  <2>1. /\ slot' = Up!AbortSlot(slot) /\ wakers' = wakers \ Up!AbortWakers
        /\ writer' = Up!Returned("failed")
    BY <1>1 DEF Up!WriterChecksStall, Up!WriterFails
  <2>2. SlotStays
    BY <1>1, <2>1, AbortStays, WindowIsOpen
  <2>3. /\ writer' \in Up!WriterType
        /\ writer'.pc = "failed" /\ writer'.call = "none"
        /\ writer'.buffer = writer.buffer /\ writer'.written = writer.written
    BY <1>0, <2>1, Returns
  <2>4. Up!TypeOK'
    BY <1>0, <1>p, <1>u, <2>1, <2>2, <2>3 DEF Up!TypeOK, SlotStays
  <2>5. Up!WriterInv'
    BY <1>0, <1>p, <1>u, <2>3 DEF Up!WriterInv
  <2>6. Up!SlotInv'
    <3>1. slot.ended => Up!AtEnd(slot)'
      BY <1>0, <2>2 DEF Up!SlotInv, Up!AtEnd, SlotStays
    <3> QED
      BY <1>0, <1>u, <2>2, <2>3, <3>1 DEF Up!SlotInv, SlotStays
  <2>7. Up!HyperInv' /\ Up!RoundsInv' /\ Up!SentInv'
    BY <1>u, <2>2 DEF Up!Inv, Up!HyperInv, Up!RoundsInv, Up!SentInv, Up!BeforeHandOver,
       SlotStays
  <2> QED
    BY <2>4, <2>5, <2>6, <2>7 DEF Up!Inv
<1>2. CASE ~(Up!WindowRuns(slot) /\ slot.ripe)
  <2>1. /\ writer' = [writer EXCEPT !.pc = "parked", !.timer = Up!WindowRuns(slot)]
        /\ UNCHANGED <<slot, wakers>>
    BY <1>2 DEF Up!WriterChecksStall
  <2>2. Up!WindowRuns(slot) \in BOOLEAN
    BY <1>0 DEF Up!WindowRuns, Up!SlotType
  <2>3. /\ writer' \in Up!WriterType
        /\ writer'.pc = "parked" /\ writer'.call = writer.call
        /\ writer'.buffer = writer.buffer /\ writer'.written = writer.written
    BY <1>0, <2>1, <2>2 DEF Up!WriterType
  <2>4. Up!WriterInv'
    BY <1>0, <1>p, <1>u, <2>1, <2>3 DEF Up!WriterInv
  <2> QED
    BY <1>p, <1>u, <2>1, <2>3, <2>4, WriterMoves
<1> QED
  BY <1>1, <1>2

\* A parked writer is polled again.
LEMMA WriterWakesInv == Up!Inv /\ Up!WriterWakes => Up!Inv'
PROOF
<1> SUFFICES ASSUME Up!Inv, Up!WriterWakes PROVE Up!Inv'
  OBVIOUS
<1>0. writer \in Up!WriterType /\ Up!WriterInv /\ wakers \subseteq {"writer", "reader", "upload"}
  BY DEF Up!Inv, Up!TypeOK
<1>1. writer.pc = "parked" /\ ~whole /\ writer.call \in {"write", "flush", "close"}
  BY <1>0 DEF Up!WriterWakes, Up!WriterInv, Up!WriterType
<1> DEFINE p == Up!PollOf(writer.call)
<1>2. /\ p \in {"write", "hand", "taken", "close"}
      /\ p = "write" => writer.call = "write"
      /\ p = "hand" => writer.buffer = 1
      /\ p = "taken" => writer.call = "flush" /\ writer.buffer = 0
      /\ p = "close" => writer.call = "close" /\ writer.buffer = 0
  BY <1>0, <1>1, PollLeads
<1>3. /\ writer' = [writer EXCEPT !.pc = p, !.timer = FALSE]
      /\ UNCHANGED <<whole, slot, wakers, hyper, head, rounds, upload, sent>>
  BY DEF Up!WriterWakes
<1> HIDE DEF p
<1>4. /\ writer' \in Up!WriterType
      /\ writer'.pc = p /\ writer'.call = writer.call
      /\ writer'.buffer = writer.buffer /\ writer'.written = writer.written
  BY <1>0, <1>2, <1>3 DEF Up!WriterType
<1>5. Up!WriterInv'
  BY <1>0, <1>1, <1>2, <1>3, <1>4 DEF Up!WriterInv
<1> QED
  BY <1>0, <1>3, <1>4, <1>5, WriterMoves

\* The future of a call is dropped.
LEMMA CancelCallInv == Up!Inv /\ Up!CancelCall => Up!Inv'
PROOF
<1> SUFFICES ASSUME Up!Inv, Up!CancelCall PROVE Up!Inv'
  OBVIOUS
<1>1. ~whole /\ wakers \subseteq {"writer", "reader", "upload"}
  BY DEF Up!Inv, Up!TypeOK, Up!WriterInv, Up!CancelCall
<1> QED
  BY <1>1, ReturnsInv DEF Up!CancelCall

\* The writer is dropped.
LEMMA DropWriterInv == Up!Inv /\ Up!DropWriter => Up!Inv'
PROOF
<1> SUFFICES ASSUME Up!Inv, Up!DropWriter PROVE Up!Inv'
  OBVIOUS
<1>0. Up!TypeOK /\ Up!WriterInv /\ Up!SlotInv /\ writer \in Up!WriterType /\ slot \in Up!SlotType
  BY DEF Up!Inv, Up!TypeOK
<1>u. UNCHANGED <<whole, hyper, head, rounds, upload, sent>>
  BY DEF Up!DropWriter
<1>1. /\ writer' \in Up!WriterType
      /\ writer'.pc = "dropped" /\ writer'.call = "none"
      /\ writer'.buffer = writer.buffer /\ writer'.written = writer.written
  BY <1>0, Returns DEF Up!DropWriter
<1>2. SlotStays
  <2>1. CASE slot.closed
    BY <2>1, SameSlotStays DEF Up!DropWriter, Up!Abandoned
  <2>2. CASE ~slot.closed
    <3>1. ~slot.ended
      BY <1>0, <2>2 DEF Up!SlotInv, Up!AtEnd
    <3> QED
      BY <2>2, <3>1, AbortStays DEF Up!DropWriter, Up!Abandoned
  <2> QED
    BY <2>1, <2>2
<1>3. wakers' \subseteq {"writer", "reader", "upload"}
  BY <1>0 DEF Up!DropWriter, Up!TypeOK
<1>4. Up!TypeOK'
  BY <1>0, <1>1, <1>2, <1>3, <1>u DEF Up!TypeOK, SlotStays
<1>5. Up!WriterInv'
  BY <1>0, <1>1, <1>u DEF Up!WriterInv, Up!DropWriter
<1>6. Up!SlotInv'
  <2>1. slot.ended => Up!AtEnd(slot)'
    BY <1>0, <1>2 DEF Up!SlotInv, Up!AtEnd, SlotStays
  <2> QED
    BY <1>0, <1>u, <1>1, <1>2, <2>1 DEF Up!SlotInv, SlotStays
<1>7. Up!HyperInv' /\ Up!RoundsInv' /\ Up!SentInv'
  BY <1>u, <1>2 DEF Up!Inv, Up!HyperInv, Up!RoundsInv, Up!SentInv, Up!BeforeHandOver,
     SlotStays
<1> QED
  BY <1>4, <1>5, <1>6, <1>7 DEF Up!Inv

-----------------------------------------------------------------------------
\* The connection.

\* A step of the connection with the request, after it began to write it:
\* it stays with hyper and keeps the counts and the end of the slot.
LEMMA HyperMoves ==
  ASSUME Up!Inv, SlotStays, hyper' \in Up!HyperType, hyper'.got = hyper.got,
         hyper'.complete = hyper.complete,
         hyper.at # "none", hyper'.at \notin {"none", "queued"},
         head' = head \/ head' \in {"answer", "withheld", "redirect", "refused", "error"},
         wakers' \subseteq {"writer", "reader", "upload"},
         sent' = sent \/ (sent' = sent + 1 /\ hyper.at = "queued"),
         UNCHANGED <<whole, writer, rounds, upload>>
  PROVE  Up!Inv'
PROOF
<1>1. Up!TypeOK'
  BY DEF Up!Inv, Up!TypeOK, SlotStays, Up!HeadType
<1>2. Up!WriterInv'
  BY DEF Up!Inv, Up!WriterInv, SlotStays
<1>3. Up!SlotInv'
  <2>1. slot.ended => Up!AtEnd(slot)'
    BY DEF Up!Inv, Up!SlotInv, Up!AtEnd, SlotStays
  <2> QED
    BY <2>1 DEF Up!Inv, Up!SlotInv, SlotStays
<1>4. ~Up!BeforeHandOver /\ head # "returned"
  BY DEF Up!Inv, Up!HyperInv
<1>5. Up!HyperInv'
  BY <1>4 DEF Up!Inv, Up!HyperInv, Up!BeforeHandOver, SlotStays
<1>6. Up!RoundsInv'
  BY DEF Up!Inv, Up!RoundsInv
<1>7. Up!SentInv'
  <2>1. sent \in Nat /\ upload.followed \in Nat
    BY UploadConstants DEF Up!Inv, Up!TypeOK, Up!UploadType
  <2>2. upload.outcome # "unsent"
    BY DEF Up!Inv, Up!SentInv
  <2> QED
    BY <2>1, <2>2 DEF Up!Inv, Up!SentInv
<1> QED
  BY <1>1, <1>2, <1>3, <1>5, <1>6, <1>7 DEF Up!Inv

\* The end of the body, which hyper sees and completes the request with.
LEMMA CompletesInv ==
  ASSUME Up!Inv, Up!AtEnd(slot), slot' \in Up!SlotType, slot'.ended,
         slot'.frame = slot.frame, slot'.closed = slot.closed,
         slot'.aborted = slot.aborted, slot'.polled \/ slot'.empty,
         hyper \in Up!HyperType,
         hyper' = [hyper EXCEPT !.at = "finished", !.complete = TRUE],
         hyper.at # "none",
         wakers' \subseteq {"writer", "reader", "upload"},
         sent' = sent \/ (sent' = sent + 1 /\ hyper.at = "queued"),
         UNCHANGED <<whole, writer, head, rounds, upload>>
  PROVE  Up!Inv'
PROOF
<1>0. /\ hyper' \in Up!HyperType /\ hyper'.got = hyper.got /\ hyper'.complete
      /\ hyper'.at = "finished"
  BY DEF Up!HyperType
<1>1. Up!TypeOK'
  BY <1>0 DEF Up!Inv, Up!TypeOK
<1>2. Up!WriterInv'
  BY DEF Up!Inv, Up!WriterInv
<1>3. Up!SlotInv'
  <2>1. Up!AtEnd(slot)'
    BY DEF Up!AtEnd
  <2> QED
    BY <1>0, <2>1 DEF Up!Inv, Up!SlotInv
<1>4. ~Up!BeforeHandOver /\ head # "returned"
  BY DEF Up!Inv, Up!HyperInv
<1>5. Up!HyperInv'
  BY <1>0, <1>4 DEF Up!Inv, Up!HyperInv, Up!BeforeHandOver
<1>6. Up!RoundsInv'
  BY DEF Up!Inv, Up!RoundsInv
<1>7. Up!SentInv'
  <2>1. sent \in Nat /\ upload.followed \in Nat
    BY UploadConstants DEF Up!Inv, Up!TypeOK, Up!UploadType
  <2>2. upload.outcome # "unsent"
    BY DEF Up!Inv, Up!SentInv
  <2> QED
    BY <1>0, <2>1, <2>2 DEF Up!Inv, Up!SentInv
<1> QED
  BY <1>1, <1>2, <1>3, <1>5, <1>6, <1>7 DEF Up!Inv

\* What hyper does with the answer of is_end_stream.
LEMMA AsksEndInv ==
  ASSUME Up!Inv, Up!AsksEnd, hyper.at \in {"queued", "asking"},
         sent' = sent \/ (sent' = sent + 1 /\ hyper.at = "queued"),
         UNCHANGED <<whole, writer, head, rounds, upload>>
  PROVE  Up!Inv'
PROOF
<1>0. /\ slot \in Up!SlotType /\ hyper \in Up!HyperType /\ Up!SlotInv
      /\ wakers \subseteq {"writer", "reader", "upload"}
  BY DEF Up!Inv, Up!TypeOK
<1>1. CASE Up!SaysEnd(slot)
  <2>1. /\ slot' = [Up!EndSlot(slot) EXCEPT !.gone = TRUE]
        /\ wakers' = wakers \ Up!EndWakers
        /\ hyper' = [hyper EXCEPT !.at = "finished", !.complete = TRUE]
    BY <1>1 DEF Up!AsksEnd
  <2>2. /\ slot' \in Up!SlotType /\ slot'.ended /\ slot'.frame = slot.frame
        /\ slot'.closed = slot.closed /\ slot'.aborted = slot.aborted
        /\ slot'.polled = slot.polled /\ slot'.empty = slot.empty
    BY <1>0, <2>1 DEF Up!SlotType, Up!EndSlot
  <2>3. Up!AtEnd(slot) /\ (slot.polled \/ slot.empty)
    BY <1>0, <1>1 DEF Up!SaysEnd, Up!SlotInv
  <2>4. slot'.polled \/ slot'.empty
    BY <2>2, <2>3
  <2>5. wakers' \subseteq {"writer", "reader", "upload"}
    BY <1>0, <2>1
  <2> QED
    BY <1>0, <2>1, <2>2, <2>3, <2>4, <2>5, CompletesInv
<1>2. CASE ~Up!SaysEnd(slot)
  <2>1. hyper' = [hyper EXCEPT !.at = "polling"] /\ UNCHANGED <<slot, wakers>>
    BY <1>2 DEF Up!AsksEnd
  <2>2. /\ hyper' \in Up!HyperType /\ hyper'.at = "polling" /\ hyper'.got = hyper.got
        /\ hyper'.complete = hyper.complete
    BY <1>0, <2>1 DEF Up!HyperType
  <2> QED
    BY <1>0, <2>1, <2>2, SameSlotStays, HyperMoves
<1> QED
  BY <1>1, <1>2

\* Hyper asks the body for a frame or for its end.
LEMMA HyperFramesInv == Up!Inv /\ (Up!HyperFrames \/ Up!HyperAsks) => Up!Inv'
PROOF
  BY AsksEndInv DEF Up!HyperFrames, Up!HyperAsks

\* A connection that fails, with a slot that stays.
LEMMA FailsInv ==
  ASSUME Up!Inv, SlotStays, Up!ConnectionFails, hyper.at # "none",
         wakers' \subseteq {"writer", "reader", "upload"},
         UNCHANGED <<whole, writer, rounds, upload, sent>>
  PROVE  Up!Inv'
PROOF
<1>1. hyper \in Up!HyperType
  BY DEF Up!Inv, Up!TypeOK
<1>2. /\ hyper' \in Up!HyperType /\ hyper'.at = "failed" /\ hyper'.got = hyper.got
      /\ hyper'.complete = hyper.complete
  BY <1>1 DEF Up!ConnectionFails, Up!HyperType
<1>3. head' = head \/ head' = "error"
  BY DEF Up!ConnectionFails
<1> QED
  BY <1>2, <1>3, HyperMoves

\* The connection fails.
LEMMA HyperFailsInv == Up!Inv /\ Up!HyperFails => Up!Inv'
PROOF
<1> SUFFICES ASSUME Up!Inv, Up!HyperFails PROVE Up!Inv'
  OBVIOUS
<1>1. hyper.at # "none"
  BY DEF Up!HyperFails, Up!Holds
<1> QED
  BY <1>1, DropStays, FailsInv DEF Up!HyperFails

\* Hyper meets a body that failed.
LEMMA PollFailedInv == Up!Inv /\ Up!PollFailed => Up!Inv'
PROOF
<1> SUFFICES ASSUME Up!Inv, Up!PollFailed PROVE Up!Inv'
  OBVIOUS
<1>0. Up!TypeOK /\ slot \in Up!SlotType /\ hyper \in Up!HyperType /\ Up!SlotInv
  BY DEF Up!Inv, Up!TypeOK
<1>u. UNCHANGED <<whole, writer, rounds, upload, sent>>
  BY DEF Up!PollFailed
<1>1. /\ slot' \in Up!SlotType /\ slot'.ended = slot.ended /\ slot'.frame = slot.frame
      /\ slot'.closed = slot.closed /\ slot'.aborted = slot.aborted
      /\ slot'.empty = slot.empty
  BY <1>0 DEF Up!PollFailed, Up!SlotType
<1>2. ~slot.ended
  BY <1>0 DEF Up!PollFailed, Up!SlotInv, Up!AtEnd
<1>3. /\ hyper' \in Up!HyperType /\ hyper'.at = "failed" /\ hyper'.got = hyper.got
      /\ hyper'.complete = hyper.complete
  BY <1>0 DEF Up!PollFailed, Up!ConnectionFails, Up!HyperType
<1>4. head' = head \/ head' = "error"
  BY DEF Up!PollFailed, Up!ConnectionFails
<1>5. Up!TypeOK'
  BY <1>0, <1>1, <1>3, <1>4, <1>u DEF Up!TypeOK, Up!PollFailed, Up!HeadType
<1>6. Up!WriterInv'
  BY <1>1, <1>u DEF Up!Inv, Up!WriterInv
<1>7. Up!SlotInv'
  BY <1>0, <1>1, <1>2, <1>3, <1>u DEF Up!SlotInv
<1>8. Up!HyperInv'
  <2>1. ~Up!BeforeHandOver /\ head # "returned"
    BY DEF Up!Inv, Up!HyperInv, Up!PollFailed
  <2> QED
    BY <1>1, <1>2, <1>3, <1>4, <1>u, <2>1 DEF Up!Inv, Up!HyperInv, Up!BeforeHandOver
<1>9. Up!RoundsInv' /\ Up!SentInv'
  BY <1>3, <1>u DEF Up!Inv, Up!RoundsInv, Up!SentInv, Up!PollFailed
<1> QED
  BY <1>5, <1>6, <1>7, <1>8, <1>9 DEF Up!Inv

\* Hyper takes the frame of the slot.
LEMMA PollFrameInv == Up!Inv /\ Up!PollFrame => Up!Inv'
PROOF
<1> SUFFICES ASSUME Up!Inv, Up!PollFrame PROVE Up!Inv'
  OBVIOUS
<1>0. Up!TypeOK /\ slot \in Up!SlotType /\ hyper \in Up!HyperType /\ Up!SlotInv
  BY DEF Up!Inv, Up!TypeOK
<1>u. UNCHANGED <<whole, writer, head, rounds, upload, sent>>
  BY DEF Up!PollFrame
<1>p. hyper.at = "polling" /\ ~slot.aborted /\ slot.frame > 0 /\ ~slot.ended
  BY <1>0, FrameCounts DEF Up!PollFrame, Up!SlotInv, Up!AtEnd
<1>n. /\ slot.frame \in 0..Frames /\ hyper.got \in 0..Frames /\ writer.buffer \in {0, 1}
      /\ writer.written \in 0..Frames
  BY <1>0, FrameCounts
<1>g. hyper.got + slot.frame + writer.buffer = writer.written
  BY <1>0 DEF Up!SlotInv
<1>1. hyper.got + 1 \in 0..Frames /\ slot.frame - 1 \in 0..Frames
  BY <1>p, <1>n, <1>g, UploadConstants
<1>2. /\ hyper' \in Up!HyperType /\ hyper'.at = "asking" /\ hyper'.got = hyper.got + 1
      /\ hyper'.complete = hyper.complete
  <2>1. hyper' = [hyper EXCEPT !.at = "asking", !.got = hyper.got + 1]
    BY <1>0 DEF Up!PollFrame, Up!HyperType
  <2> QED
    BY <1>0, <1>1, <2>1 DEF Up!HyperType
<1> DEFINE rest == [slot EXCEPT !.polled = TRUE, !.frame = slot.frame - 1, !.ripe = FALSE]
<1>3. /\ rest \in Up!SlotType /\ rest.polled /\ rest.frame = slot.frame - 1
      /\ rest.closed = slot.closed /\ rest.aborted = slot.aborted
      /\ rest.ended = slot.ended /\ rest.empty = slot.empty
  BY <1>0, <1>1 DEF Up!SlotType
<1>4. \/ slot' = rest
      \/ slot.closed /\ slot.frame = 1 /\ slot' = [rest EXCEPT !.ended = TRUE]
  <2>1. [slot EXCEPT !.polled = TRUE, !.frame = @ - 1, !.ripe = FALSE] = rest
    BY <1>0 DEF Up!SlotType
  <2> HIDE DEF rest
  <2>2. CASE slot.frame > 1
    BY <2>1, <2>2 DEF Up!PollFrame
  <2>3. CASE ~(slot.frame > 1)
    <3>1. slot.frame = 1
      BY <2>3, <1>p, <1>n
    <3> QED
      BY <2>1, <2>3, <3>1 DEF Up!PollFrame, Up!EndSlot
  <2> QED
    BY <2>2, <2>3
<1> HIDE DEF rest
<1>5. /\ slot' \in Up!SlotType /\ slot'.polled /\ slot'.frame = slot.frame - 1
      /\ slot'.closed = slot.closed /\ slot'.aborted = slot.aborted
      /\ slot'.ended => slot.closed /\ slot.frame = 1
  <2>1. CASE slot' = rest
    BY <1>3, <1>p, <2>1
  <2>2. CASE slot.closed /\ slot.frame = 1 /\ slot' = [rest EXCEPT !.ended = TRUE]
    BY <1>3, <2>2 DEF Up!SlotType
  <2> QED
    BY <1>4, <2>1, <2>2
<1>6. wakers' \subseteq {"writer", "reader", "upload"}
  BY <1>0 DEF Up!TypeOK, Up!PollFrame
<1>7. Up!TypeOK'
  BY <1>0, <1>2, <1>5, <1>6, <1>u DEF Up!TypeOK
<1>8. Up!WriterInv'
  BY <1>p, <1>u DEF Up!Inv, Up!WriterInv
<1>9. Up!SlotInv'
  <2>1. hyper'.got + slot'.frame + writer'.buffer = writer'.written
    <3>1. hyper'.got = hyper.got + 1 /\ slot'.frame = slot.frame - 1
      BY <1>2, <1>5
    <3>2. writer'.buffer = writer.buffer /\ writer'.written = writer.written
      BY <1>u
    <3> QED
      BY <1>n, <1>g, <3>1, <3>2
  <2>2. slot'.ended => Up!AtEnd(slot)'
    BY <1>5, <1>p DEF Up!AtEnd
  <2> QED
    BY <1>0, <1>5, <1>u, <2>1, <2>2 DEF Up!SlotInv
<1>10. Up!HyperInv'
  <2>1. ~Up!BeforeHandOver /\ head # "returned" /\ ~hyper.complete
    BY <1>p DEF Up!Inv, Up!HyperInv
  <2> QED
    BY <1>2, <1>u, <2>1 DEF Up!HyperInv, Up!BeforeHandOver
<1>11. Up!RoundsInv' /\ Up!SentInv'
  BY <1>2, <1>p, <1>u DEF Up!Inv, Up!RoundsInv, Up!SentInv
<1> QED
  BY <1>7, <1>8, <1>9, <1>10, <1>11 DEF Up!Inv

\* Hyper takes the end of the body.
LEMMA PollEndInv == Up!Inv /\ Up!PollEnd => Up!Inv'
PROOF
<1> SUFFICES ASSUME Up!Inv, Up!PollEnd PROVE Up!Inv'
  OBVIOUS
<1>0. Up!TypeOK /\ slot \in Up!SlotType /\ hyper \in Up!HyperType /\ Up!SlotInv
  BY DEF Up!Inv, Up!TypeOK
<1>u. UNCHANGED <<whole, writer, head, rounds, upload, sent>>
  BY DEF Up!PollEnd
<1>p. hyper.at = "polling" /\ ~slot.aborted /\ slot.frame = 0
  BY DEF Up!PollEnd
<1>1. CASE slot.closed
  <2>1. /\ slot' = [Up!EndSlot(slot) EXCEPT !.polled = TRUE, !.gone = TRUE]
        /\ wakers' = wakers \ Up!EndWakers
        /\ hyper' = [hyper EXCEPT !.at = "finished", !.complete = TRUE]
    BY <1>1 DEF Up!PollEnd
  <2>2. /\ slot' \in Up!SlotType /\ slot'.ended /\ slot'.frame = slot.frame
        /\ slot'.closed = slot.closed /\ slot'.aborted = slot.aborted /\ slot'.polled
    BY <1>0, <2>1 DEF Up!SlotType, Up!EndSlot
  <2>3. Up!AtEnd(slot)
    BY <1>1, <1>p DEF Up!AtEnd
  <2>4. wakers' \subseteq {"writer", "reader", "upload"}
    BY <1>0, <2>1 DEF Up!TypeOK
  <2> QED
    BY <1>0, <1>p, <1>u, <2>1, <2>2, <2>3, <2>4, CompletesInv
<1>2. CASE ~slot.closed
  <2>1. /\ slot' = [slot EXCEPT !.polled = TRUE]
        /\ wakers' = wakers \cup {"reader"}
        /\ hyper' = [hyper EXCEPT !.at = "parked"]
    BY <1>2 DEF Up!PollEnd
  <2>2. /\ slot' \in Up!SlotType /\ slot'.ended = slot.ended /\ slot'.frame = slot.frame
        /\ slot'.closed = slot.closed /\ slot'.aborted = slot.aborted
        /\ slot'.polled /\ slot'.empty = slot.empty
    BY <1>0, <2>1 DEF Up!SlotType
  <2>3. /\ hyper' \in Up!HyperType /\ hyper'.at = "parked" /\ hyper'.got = hyper.got
        /\ hyper'.complete = hyper.complete
    BY <1>0, <2>1 DEF Up!HyperType
  <2>4. Up!TypeOK'
    BY <1>0, <1>u, <2>1, <2>2, <2>3 DEF Up!TypeOK
  <2>5. Up!WriterInv'
    BY <1>u, <2>2 DEF Up!Inv, Up!WriterInv
  <2>6. Up!SlotInv'
    BY <1>0, <1>2, <1>u, <2>2, <2>3 DEF Up!SlotInv, Up!AtEnd
  <2>7. Up!HyperInv'
    <3>1. ~Up!BeforeHandOver /\ head # "returned"
      BY <1>p DEF Up!Inv, Up!HyperInv
    <3> QED
      BY <1>u, <2>2, <2>3, <3>1 DEF Up!Inv, Up!HyperInv, Up!BeforeHandOver
  <2>8. Up!RoundsInv' /\ Up!SentInv'
    BY <1>p, <1>u, <2>3 DEF Up!Inv, Up!RoundsInv, Up!SentInv
  <2> QED
    BY <2>4, <2>5, <2>6, <2>7, <2>8 DEF Up!Inv
<1> QED
  BY <1>1, <1>2

\* Hyper is woken for the body.
LEMMA HyperWakesInv == Up!Inv /\ Up!HyperWakes => Up!Inv'
PROOF
<1> SUFFICES ASSUME Up!Inv, Up!HyperWakes PROVE Up!Inv'
  OBVIOUS
<1>1. hyper \in Up!HyperType /\ wakers \subseteq {"writer", "reader", "upload"}
  BY DEF Up!Inv, Up!TypeOK
<1>2. /\ hyper' \in Up!HyperType /\ hyper'.at = "polling" /\ hyper'.got = hyper.got
      /\ hyper'.complete = hyper.complete
  BY <1>1 DEF Up!HyperWakes, Up!HyperType
<1> QED
  BY <1>1, <1>2, SameSlotStays, HyperMoves DEF Up!HyperWakes

\* A pooled connection gives the request back.
LEMMA GivesBackInv == Up!Inv /\ Up!GivesBack => Up!Inv'
PROOF
<1> SUFFICES ASSUME Up!Inv, Up!GivesBack PROVE Up!Inv'
  OBVIOUS
<1>0. Up!TypeOK /\ hyper \in Up!HyperType
  BY DEF Up!Inv, Up!TypeOK
<1>u. UNCHANGED <<whole, slot, wakers, writer, rounds, upload, sent>>
  BY DEF Up!GivesBack
<1>1. /\ hyper' \in Up!HyperType /\ hyper'.at = "none" /\ hyper'.got = hyper.got
      /\ hyper'.complete = hyper.complete
  BY <1>0 DEF Up!GivesBack, Up!HyperType
<1>2. Up!TypeOK'
  BY <1>0, <1>1, <1>u DEF Up!TypeOK, Up!GivesBack, Up!HeadType
<1>3. Up!WriterInv' /\ Up!RoundsInv'
  BY <1>u DEF Up!Inv, Up!WriterInv, Up!RoundsInv
<1>4. Up!SlotInv'
  BY <1>1, <1>u DEF Up!Inv, Up!SlotInv, Up!AtEnd
<1>5. Up!HyperInv'
  <2>1. ~Up!BeforeHandOver
    BY DEF Up!Inv, Up!HyperInv, Up!GivesBack
  <2> QED
    BY <1>1, <1>u, <2>1 DEF Up!Inv, Up!HyperInv, Up!BeforeHandOver, Up!GivesBack
<1>6. Up!SentInv'
  BY <1>1, <1>u DEF Up!Inv, Up!SentInv, Up!GivesBack
<1> QED
  BY <1>2, <1>3, <1>4, <1>5, <1>6 DEF Up!Inv

\* The server answers.
LEMMA RespondsInv == Up!Inv /\ Up!Responds => Up!Inv'
PROOF
<1> SUFFICES ASSUME Up!Inv, Up!Responds PROVE Up!Inv'
  OBVIOUS
<1>1. hyper \in Up!HyperType /\ wakers \subseteq {"writer", "reader", "upload"}
  BY DEF Up!Inv, Up!TypeOK
<1>2. /\ hyper.at \notin {"none", "queued"} /\ hyper' = hyper
      /\ head' \in {"answer", "withheld", "redirect", "refused"}
  BY DEF Up!Responds
<1> QED
  BY <1>1, <1>2, SameSlotStays, HyperMoves DEF Up!Responds

-----------------------------------------------------------------------------
\* The upload.

\* A step of the upload that leaves the request where it is.
LEMMA UploadMoves ==
  ASSUME Up!Inv, SlotStays, wakers' \subseteq {"writer", "reader", "upload"},
         upload' \in Up!UploadType, upload'.followed = upload.followed,
         upload'.outcome = "unsent" => upload'.at = "over" /\ hyper.at = "none",
         Up!BeforeHandOver' => Up!BeforeHandOver, Up!RoundsInv', rounds' \in Up!RoundsType,
         UNCHANGED <<whole, writer, hyper, head, sent>>
  PROVE  Up!Inv'
PROOF
<1>1. Up!TypeOK'
  BY DEF Up!Inv, Up!TypeOK, SlotStays
<1>2. Up!WriterInv' /\ Up!SlotInv'
  BY SlotKept
<1>3. Up!HyperInv'
  BY DEF Up!Inv, Up!HyperInv, SlotStays
<1>4. Up!SentInv'
  BY DEF Up!Inv, Up!SentInv
<1> QED
  BY <1>1, <1>2, <1>3, <1>4 DEF Up!Inv

\* The destination stays the one that is tried.
LEMMA RoundsStay ==
  ASSUME Up!Inv, UNCHANGED rounds,
         \/ upload'.at = "over"
         \/ upload.at \notin {"backoff", "over"} /\ upload'.at \notin {"backoff", "over"}
  PROVE  Up!RoundsInv' /\ rounds' \in Up!RoundsType
PROOF
<1>1. rounds' \in Up!RoundsType
  BY DEF Up!Inv, Up!TypeOK
<1>2. Up!RoundsInv'
  BY DEF Up!Inv, Up!RoundsInv
<1> QED
  BY <1>1, <1>2

\* An upload that ends, as unsent only with nothing sent.
LEMMA EndsInv ==
  ASSUME Up!Inv, NEW o \in {"answered", "interrupted", "unsent", "dropped"}, Up!Ends(o),
         o = "unsent" => hyper.at = "none",
         rounds' \in Up!RoundsType, rounds'.position <= rounds'.count,
         UNCHANGED <<whole, writer, hyper, head, sent>>
  PROVE  Up!Inv'
PROOF
<1>1. upload \in Up!UploadType /\ wakers \subseteq {"writer", "reader", "upload"}
  BY DEF Up!Inv, Up!TypeOK
<1>2. /\ upload' \in Up!UploadType
      /\ upload'.at = "over" /\ upload'.followed = upload.followed
      /\ upload'.outcome = o
  BY <1>1, Overs DEF Up!Ends
<1>3. SlotStays /\ wakers' \subseteq {"writer", "reader", "upload"}
  <2>1. CASE hyper.at = "none"
    BY <2>1, DropStays DEF Up!Ends
  <2>2. CASE hyper.at # "none"
    BY <1>1, <2>2, SameSlotStays DEF Up!Ends
  <2> QED
    BY <2>1, <2>2
<1>4. Up!RoundsInv' /\ ~Up!BeforeHandOver'
  BY <1>2 DEF Up!RoundsInv, Up!BeforeHandOver
<1> QED
  BY <1>2, <1>3, <1>4, UploadMoves

\* A response or an error ends the upload, and cuts the body.
LEMMA CutOverInv ==
  ASSUME Up!Inv, NEW o \in {"answered", "interrupted"}, Up!Over(o),
         SlotStays, wakers' \subseteq {"writer", "reader", "upload"},
         UNCHANGED <<whole, writer, hyper, head, rounds, sent>>
  PROVE  Up!Inv'
PROOF
<1>1. upload \in Up!UploadType
  BY DEF Up!Inv, Up!TypeOK
<1>2. /\ upload' \in Up!UploadType
      /\ upload'.at = "over" /\ upload'.followed = upload.followed
      /\ upload'.outcome = o
  BY <1>1, Overs
<1>3. ~Up!BeforeHandOver'
  BY <1>2 DEF Up!BeforeHandOver
<1> QED
  BY <1>2, <1>3, RoundsStay, UploadMoves

\* An attempt that fails before the hand-over goes on to the next destination
\* or the next round, or ends the upload.
LEMMA UnsentInv ==
  ASSUME Up!Inv, NEW failure \in {"retry", "fatal", "final"}, Up!Unsent(failure),
         Up!BeforeHandOver, upload.at # "backoff",
         UNCHANGED <<whole, writer, hyper, head, sent>>
  PROVE  Up!Inv'
PROOF
<1> DEFINE settled == IF failure = "fatal" THEN rounds.settled \cup {rounds.position}
                                           ELSE rounds.settled
           retryable == rounds.retryable \/ failure = "retry"
<1>0. /\ rounds \in Up!RoundsType /\ upload \in Up!UploadType /\ slot \in Up!SlotType
      /\ wakers \subseteq {"writer", "reader", "upload"}
  BY DEF Up!Inv, Up!TypeOK
<1>1. hyper.at = "none" /\ rounds.position <= rounds.count
  BY DEF Up!Inv, Up!HyperInv, Up!RoundsInv
<1>2. /\ rounds.count \in {1, Mirrors} /\ rounds.position \in 1..Mirrors
      /\ rounds.settled \in SUBSET (1..Mirrors) /\ rounds.round \in 0..MaxRetries
      /\ rounds.retryable \in BOOLEAN
  BY <1>0 DEF Up!RoundsType
<1>3. settled \in SUBSET (1..Mirrors) /\ retryable \in BOOLEAN
  BY <1>2
<1>4. rounds.position \notin rounds.settled /\ upload.at # "over"
  BY DEF Up!Inv, Up!RoundsInv, Up!BeforeHandOver
<1>o. upload.outcome # "unsent"
  BY <1>4 DEF Up!Inv, Up!SentInv
<1>5. retryable => \E i \in (1..rounds.count) \ settled : i <= rounds.position
  <2>1. CASE rounds.retryable
    <3>1. PICK i \in (1..rounds.count) \ rounds.settled : i < rounds.position
      BY <1>4, <2>1 DEF Up!Inv, Up!RoundsInv
    <3> QED
      BY <1>2, <3>1, UploadConstants
  <2>2. CASE failure = "retry"
    BY <1>1, <1>2, <1>4, <2>2, UploadConstants
  <2> QED
    BY <2>1, <2>2
<1>6. CASE Up!Ends("interrupted") /\ UNCHANGED rounds
  BY <1>0, <1>1, <1>6, EndsInv
<1>7. CASE Up!Ends("unsent") /\ UNCHANGED rounds
  BY <1>0, <1>1, <1>7, EndsInv
<1>8. ASSUME Up!Ahead(settled) # {},
             rounds' = [rounds EXCEPT !.settled = settled, !.retryable = retryable,
                                      !.position = Up!First(Up!Ahead(settled))],
             Up!UploadGoes("attempt"), UNCHANGED <<slot, wakers>>
      PROVE  Up!Inv'
  <2>1. Up!Ahead(settled) \in SUBSET Nat
    BY DEF Up!Ahead
  <2> DEFINE n == Up!First(Up!Ahead(settled))
  <2>2. n \in 1..rounds.count /\ n > rounds.position /\ n \notin settled
    BY <1>8, <2>1, FirstIsIn DEF Up!Ahead
  <2>3. n \in 1..Mirrors
    BY <1>2, <2>2, UploadConstants
  <2> HIDE DEF n
  <2>4. /\ rounds' \in Up!RoundsType /\ rounds'.count = rounds.count /\ rounds'.position = n
        /\ rounds'.settled = settled /\ rounds'.retryable = retryable
        /\ rounds'.round = rounds.round
    <3> HIDE DEF settled, retryable
    <3>1. rounds' = [rounds EXCEPT !.settled = settled, !.retryable = retryable,
                                   !.position = n]
      BY <1>8 DEF n
    <3> QED
      BY <1>0, <1>3, <2>3, <3>1 DEF Up!RoundsType
  <2>5. /\ upload' \in Up!UploadType
        /\ upload'.at = "attempt" /\ upload'.followed = upload.followed
        /\ upload'.outcome = upload.outcome
    BY <1>0, <1>8, UploadGoesTo
  <2>6. Up!RoundsInv'
    <3> HIDE DEF settled, retryable
    <3>1. rounds'.retryable => \E i \in (1..rounds'.count) \ rounds'.settled : i < rounds'.position
      BY <1>2, <1>5, <2>2, <2>4, UploadConstants
    <3>2. rounds'.position <= rounds'.count
      BY <1>2, <2>2, <2>4, UploadConstants
    <3> QED
      BY <2>2, <2>4, <2>5, <3>1, <3>2 DEF Up!RoundsInv
  <2> QED
    BY <1>0, <1>8, <1>o, <2>4, <2>5, <2>6, SameSlotStays, UploadMoves
<1>9. ASSUME rounds' = [rounds EXCEPT !.settled = settled, !.retryable = retryable],
             IF ~retryable \/ rounds.round >= MaxRetries
             THEN Up!Ends("unsent")
             ELSE Up!UploadGoes("backoff") /\ UNCHANGED <<slot, wakers>>
      PROVE  Up!Inv'
  <2>1. /\ rounds' \in Up!RoundsType /\ rounds'.count = rounds.count
        /\ rounds'.position = rounds.position
        /\ rounds'.settled = settled /\ rounds'.retryable = retryable
        /\ rounds'.round = rounds.round
    <3> HIDE DEF settled, retryable
    <3> QED
      BY <1>0, <1>3, <1>9 DEF Up!RoundsType
  <2>2. CASE ~retryable \/ rounds.round >= MaxRetries
    BY <1>1, <1>9, <2>1, <2>2, EndsInv
  <2>3. CASE ~(~retryable \/ rounds.round >= MaxRetries)
    <3>1. Up!UploadGoes("backoff") /\ UNCHANGED <<slot, wakers>>
      BY <1>9, <2>3
    <3>2. /\ upload' \in Up!UploadType
          /\ upload'.at = "backoff" /\ upload'.followed = upload.followed
          /\ upload'.outcome = upload.outcome
      BY <1>0, <3>1, UploadGoesTo
    <3>3. Up!RoundsInv'
      <4> HIDE DEF settled, retryable
      <4>1. rounds.round < MaxRetries
        BY <1>2, <2>3, UploadConstants
      <4>2. \E i \in (1..rounds'.count) \ rounds'.settled : TRUE
        BY <1>5, <2>1, <2>3
      <4> QED
        BY <1>1, <2>1, <2>3, <3>2, <4>1, <4>2 DEF Up!RoundsInv
    <3> QED
      BY <1>0, <1>o, <2>1, <3>1, <3>2, <3>3, SameSlotStays, UploadMoves
  <2> QED
    BY <2>2, <2>3
<1> QED
  BY <1>6, <1>7, <1>8, <1>9 DEF Up!Unsent

\* A step of the upload alone, from one place to another.
LEMMA UploadGoesInv ==
  ASSUME Up!Inv, upload' \in Up!UploadType, upload'.followed = upload.followed,
         upload'.outcome = upload.outcome,
         Up!BeforeHandOver' => Up!BeforeHandOver,
         upload.at \notin {"backoff", "over"}, upload'.at \notin {"backoff", "over"},
         wakers' \subseteq {"writer", "reader", "upload"},
         UNCHANGED <<whole, slot, writer, hyper, head, rounds, sent>>
  PROVE  Up!Inv'
PROOF
<1>1. upload.outcome # "unsent"
  BY DEF Up!Inv, Up!SentInv
<1> QED
  BY <1>1, SameSlotStays, RoundsStay, UploadMoves

\* The upload begins.
LEMMA BeginInv == Up!Inv /\ Up!Begin => Up!Inv'
PROOF
<1> SUFFICES ASSUME Up!Inv, Up!Begin PROVE Up!Inv'
  OBVIOUS
<1>0. upload \in Up!UploadType /\ wakers \subseteq {"writer", "reader", "upload"}
  BY DEF Up!Inv, Up!TypeOK
<1>1. /\ upload' \in Up!UploadType
      /\ upload'.at = "attempt" /\ upload'.followed = upload.followed
      /\ upload'.outcome = upload.outcome
  BY <1>0, UploadGoesTo DEF Up!Begin
<1> QED
  BY <1>0, <1>1, UploadGoesInv DEF Up!Begin, Up!BeforeHandOver

\* The wait before the next round ends.
LEMMA BackoffInv == Up!Inv /\ Up!Backoff => Up!Inv'
PROOF
<1> SUFFICES ASSUME Up!Inv, Up!Backoff PROVE Up!Inv'
  OBVIOUS
<1>0. /\ upload \in Up!UploadType /\ wakers \subseteq {"writer", "reader", "upload"}
      /\ rounds \in Up!RoundsType /\ upload.at = "backoff"
  BY DEF Up!Inv, Up!TypeOK, Up!Backoff
<1>1. /\ upload' \in Up!UploadType
      /\ upload'.at = "attempt" /\ upload'.followed = upload.followed
      /\ upload'.outcome = upload.outcome
  BY <1>0, UploadGoesTo DEF Up!Backoff
<1> DEFINE open == (1..rounds.count) \ rounds.settled
           n == Up!First(open)
<1>2. open # {} /\ rounds.round < MaxRetries
  BY <1>0 DEF Up!Inv, Up!RoundsInv
<1>3. n \in open
  BY <1>2, FirstIsIn
<1>4. /\ rounds.count \in {1, Mirrors} /\ rounds.round \in 0..MaxRetries
  BY <1>0 DEF Up!RoundsType
<1>5. n \in 1..Mirrors /\ n <= rounds.count /\ n \notin rounds.settled
  BY <1>3, <1>4, UploadConstants
<1> HIDE DEF n
<1>6. rounds.round + 1 \in 0..MaxRetries
  BY <1>2, <1>4, UploadConstants
<1>7. /\ rounds' \in Up!RoundsType /\ rounds'.count = rounds.count /\ rounds'.position = n
      /\ rounds'.settled = rounds.settled /\ ~rounds'.retryable
  <2>1. rounds' = [rounds EXCEPT !.round = rounds.round + 1, !.retryable = FALSE,
                                 !.position = n]
    BY <1>0 DEF Up!Backoff, Up!RoundsType, n
  <2> QED
    BY <1>0, <1>5, <1>6, <2>1 DEF Up!RoundsType
<1>8. Up!RoundsInv'
  BY <1>1, <1>5, <1>7 DEF Up!RoundsInv
<1>9. Up!BeforeHandOver /\ upload.outcome # "unsent"
  BY <1>0 DEF Up!Inv, Up!SentInv, Up!BeforeHandOver
<1> QED
  BY <1>0, <1>1, <1>7, <1>8, <1>9, SameSlotStays, UploadMoves DEF Up!Backoff

\* The steps of an attempt before its request is handed over.
LEMMA AttemptInv ==
  Up!Inv /\ (Up!Attempt \/ Up!Connect \/ Up!StaleConnection \/ Up!NotReady) => Up!Inv'
PROOF
<1> SUFFICES ASSUME Up!Inv, Up!Attempt \/ Up!Connect \/ Up!StaleConnection \/ Up!NotReady
             PROVE  Up!Inv'
  OBVIOUS
<1>0. upload \in Up!UploadType /\ wakers \subseteq {"writer", "reader", "upload"}
  BY DEF Up!Inv, Up!TypeOK
<1>1. Up!BeforeHandOver /\ upload.at \notin {"backoff", "over"}
  BY DEF Up!Attempt, Up!Connect, Up!StaleConnection, Up!NotReady, Up!BeforeHandOver
<1>2. UNCHANGED <<whole, writer, hyper, head, sent>>
  BY DEF Up!Attempt, Up!Connect, Up!StaleConnection, Up!NotReady
<1>3. ASSUME NEW failure \in {"retry", "fatal", "final"}, Up!Unsent(failure) PROVE Up!Inv'
  BY <1>1, <1>2, <1>3, UnsentInv
<1>4. ASSUME NEW a \in {"connect", "ready"}, NEW c \in {"idle", "shared", "new"},
             upload' = [upload EXCEPT !.at = a, !.conn = c] \/ Up!UploadGoes(a),
             UNCHANGED <<slot, wakers, rounds>>
      PROVE  Up!Inv'
  <2>1. /\ upload' \in Up!UploadType
        /\ upload'.at = a /\ upload'.followed = upload.followed
        /\ upload'.outcome = upload.outcome
    <3>1. CASE Up!UploadGoes(a)
      BY <1>0, <3>1, UploadGoesTo
    <3>2. CASE upload' = [upload EXCEPT !.at = a, !.conn = c]
      BY <1>0, <3>2 DEF Up!UploadType
    <3> QED
      BY <1>4, <3>1, <3>2
  <2> QED
    BY <1>0, <1>1, <1>2, <1>4, <2>1, UploadGoesInv
<1>5. CASE Up!Attempt
  BY <1>3, <1>4, <1>5 DEF Up!Attempt
<1>6. CASE Up!Connect
  BY <1>3, <1>4, <1>6 DEF Up!Connect
<1>7. CASE Up!StaleConnection
  BY <1>4, <1>7 DEF Up!StaleConnection
<1>8. CASE Up!NotReady
  BY <1>3, <1>8 DEF Up!NotReady
<1> QED
  BY <1>5, <1>6, <1>7, <1>8

\* The request is handed over to a connection.
LEMMA HandOverInv == Up!Inv /\ Up!HandOver => Up!Inv'
PROOF
<1> SUFFICES ASSUME Up!Inv, Up!HandOver PROVE Up!Inv'
  OBVIOUS
<1>0. /\ Up!TypeOK /\ upload \in Up!UploadType /\ slot \in Up!SlotType
      /\ hyper \in Up!HyperType /\ Up!SlotInv
  BY DEF Up!Inv, Up!TypeOK
<1>b. Up!BeforeHandOver /\ upload.at \notin {"backoff", "over"}
  BY DEF Up!HandOver, Up!BeforeHandOver
<1>u. UNCHANGED <<whole, writer, head, sent>>
  BY DEF Up!HandOver
<1>1. CASE slot.aborted
  BY <1>1, <1>b, <1>u, UnsentInv DEF Up!HandOver
<1>2. CASE ~slot.aborted
  <2>0. /\ slot' = Up!HandOverSlot(slot)
        /\ wakers' = wakers \ Up!HandOverWakers
        /\ hyper' = [hyper EXCEPT !.at = "queued"]
        /\ upload' = [upload EXCEPT !.at = "poll", !.handed = TRUE]
        /\ UNCHANGED rounds
    BY <1>2 DEF Up!HandOver
  <2>h. /\ hyper.at = "none" /\ head = "none" /\ hyper.got = 0 /\ ~hyper.complete
        /\ ~slot.ended /\ ~slot.polled
    BY <1>b DEF Up!Inv, Up!HyperInv
  <2>1. Up!AtEnd(slot) \in BOOLEAN
    BY <1>0 DEF Up!AtEnd, Up!SlotType
  <2>2. /\ slot' \in Up!SlotType /\ slot'.frame = slot.frame /\ slot'.closed = slot.closed
        /\ slot'.aborted = slot.aborted /\ ~slot'.ended /\ ~slot'.polled
    BY <1>0, <2>0, <2>1, <2>h DEF Up!SlotType, Up!HandOverSlot
  <2>3. /\ hyper' \in Up!HyperType /\ hyper'.at = "queued" /\ hyper'.got = hyper.got
        /\ hyper'.complete = hyper.complete
    BY <1>0, <2>0 DEF Up!HyperType
  <2>4. /\ upload' \in Up!UploadType /\ upload'.at = "poll"
        /\ upload'.followed = upload.followed /\ upload'.outcome = upload.outcome
    BY <1>0, <2>0 DEF Up!UploadType
  <2>5. Up!TypeOK'
    BY <1>0, <1>u, <2>0, <2>2, <2>3, <2>4 DEF Up!TypeOK
  <2>6. Up!WriterInv'
    BY <1>u, <2>2, <2>h DEF Up!Inv, Up!WriterInv
  <2>7. Up!SlotInv'
    BY <1>0, <1>u, <2>2, <2>3 DEF Up!SlotInv
  <2>8. Up!HyperInv'
    BY <1>u, <2>2, <2>3, <2>4, <2>h DEF Up!HyperInv, Up!BeforeHandOver
  <2>9. Up!RoundsInv'
    BY <1>b, <2>0, <2>4 DEF Up!Inv, Up!RoundsInv
  <2>10. Up!SentInv'
    BY <1>b, <1>u, <2>3, <2>4, <2>h DEF Up!Inv, Up!SentInv
  <2> QED
    BY <2>5, <2>6, <2>7, <2>8, <2>9, <2>10 DEF Up!Inv
<1> QED
  BY <1>1, <1>2

\* A deadline expires, the server falls silent, or the upload is dropped.
LEMMA ExpireInv == Up!Inv /\ (Up!Expire \/ Up!Silent \/ Up!DropUpload) => Up!Inv'
PROOF
<1> SUFFICES ASSUME Up!Inv, Up!Expire \/ Up!Silent \/ Up!DropUpload PROVE Up!Inv'
  OBVIOUS
<1>1. rounds \in Up!RoundsType /\ rounds.position <= rounds.count
  BY DEF Up!Inv, Up!TypeOK, Up!RoundsInv
<1>2. CASE Up!Expire
  <2>1. hyper.at = "none"
    BY <1>2 DEF Up!Expire, Up!Inv, Up!HyperInv, Up!BeforeHandOver
  <2> QED
    BY <1>1, <1>2, <2>1, EndsInv DEF Up!Expire
<1>3. CASE Up!Silent
  BY <1>1, <1>3, EndsInv DEF Up!Silent
<1>4. CASE Up!DropUpload
  BY <1>1, <1>4, EndsInv DEF Up!DropUpload
<1> QED
  BY <1>2, <1>3, <1>4

\* The upload is polled while hyper has the request.
LEMMA PollSendInv == Up!Inv /\ (Up!PollSend \/ Up!UploadWakes) => Up!Inv'
PROOF
<1> SUFFICES ASSUME Up!Inv, Up!PollSend \/ Up!UploadWakes PROVE Up!Inv'
  OBVIOUS
<1>0. upload \in Up!UploadType /\ wakers \subseteq {"writer", "reader", "upload"}
  BY DEF Up!Inv, Up!TypeOK
<1>1. CASE Up!PollSend
  <2>1. /\ upload' \in Up!UploadType
        /\ upload'.at = "watch" /\ upload'.followed = upload.followed
        /\ upload'.outcome = upload.outcome
    BY <1>0, <1>1, UploadGoesTo DEF Up!PollSend
  <2> QED
    BY <1>0, <1>1, <2>1, UploadGoesInv DEF Up!PollSend, Up!BeforeHandOver
<1>2. CASE Up!UploadWakes
  <2>1. /\ upload' \in Up!UploadType
        /\ upload'.at = "poll" /\ upload'.followed = upload.followed
        /\ upload'.outcome = upload.outcome
    BY <1>0, <1>2 DEF Up!UploadWakes, Up!UploadType
  <2> QED
    BY <1>0, <1>2, <2>1, UploadGoesInv DEF Up!UploadWakes, Up!BeforeHandOver
<1> QED
  BY <1>1, <1>2

\* The upload looks at its body.
LEMMA WatchInv == Up!Inv /\ Up!Watch => Up!Inv'
PROOF
<1> SUFFICES ASSUME Up!Inv, Up!Watch PROVE Up!Inv'
  OBVIOUS
<1>0. /\ upload \in Up!UploadType /\ wakers \subseteq {"writer", "reader", "upload"}
      /\ slot \in Up!SlotType /\ whole \in BOOLEAN
      /\ rounds \in Up!RoundsType /\ rounds.position <= rounds.count
  BY DEF Up!Inv, Up!TypeOK, Up!RoundsInv
<1>u. upload.at = "watch" /\ UNCHANGED <<whole, writer, hyper, head, rounds, sent>>
  BY DEF Up!Watch
<1>1. CASE Up!Ends("interrupted")
  BY <1>0, <1>1, <1>u, EndsInv
<1>2. CASE Up!UploadGoes("headwait") /\ UNCHANGED <<slot, wakers>>
  <2>1. /\ upload' \in Up!UploadType
        /\ upload'.at = "headwait" /\ upload'.followed = upload.followed
        /\ upload'.outcome = upload.outcome
    BY <1>0, <1>2, UploadGoesTo
  <2> QED
    BY <1>0, <1>2, <1>u, <2>1, UploadGoesInv DEF Up!BeforeHandOver
<1>3. ASSUME NEW a \in {"check", "parked"}, NEW t \in BOOLEAN,
             upload' = [upload EXCEPT !.at = a, !.timer = t],
             wakers' = wakers \cup {"upload"}, UNCHANGED slot
      PROVE  Up!Inv'
  <2>1. /\ upload' \in Up!UploadType
        /\ upload'.at = a /\ upload'.followed = upload.followed
        /\ upload'.outcome = upload.outcome
    BY <1>0, <1>3 DEF Up!UploadType
  <2>2. wakers' \subseteq {"writer", "reader", "upload"}
    BY <1>0, <1>3
  <2> QED
    BY <1>3, <1>u, <2>1, <2>2, UploadGoesInv DEF Up!BeforeHandOver
<1>4. (whole /\ Up!WindowRuns(slot)) \in BOOLEAN
  BY <1>0 DEF Up!WindowRuns, Up!SlotType
<1> QED
  BY <1>1, <1>2, <1>3, <1>4 DEF Up!Watch

\* The upload looks at the stall window.
LEMMA UploadChecksStallInv == Up!Inv /\ Up!UploadChecksStall => Up!Inv'
PROOF
<1> SUFFICES ASSUME Up!Inv, Up!UploadChecksStall PROVE Up!Inv'
  OBVIOUS
<1>0. upload \in Up!UploadType /\ wakers \subseteq {"writer", "reader", "upload"}
  BY DEF Up!Inv, Up!TypeOK
<1>u. upload.at = "check" /\ UNCHANGED <<whole, writer, hyper, head, rounds, sent>>
  BY DEF Up!UploadChecksStall
<1>1. CASE Up!WindowRuns(slot) /\ slot.ripe
  <2>1. /\ slot' = Up!AbortSlot(slot) /\ wakers' = wakers \ Up!AbortWakers
        /\ Up!Over("interrupted")
    BY <1>1 DEF Up!UploadChecksStall
  <2> QED
    BY <1>0, <1>1, <1>u, <2>1, WindowIsOpen, AbortStays, CutOverInv
<1>2. CASE ~(Up!WindowRuns(slot) /\ slot.ripe)
  <2>1. Up!UploadGoes("watch") /\ UNCHANGED <<slot, wakers>>
    BY <1>2 DEF Up!UploadChecksStall
  <2>2. /\ upload' \in Up!UploadType
        /\ upload'.at = "watch" /\ upload'.followed = upload.followed
        /\ upload'.outcome = upload.outcome
    BY <1>0, <2>1, UploadGoesTo
  <2> QED
    BY <1>0, <1>u, <2>1, <2>2, UploadGoesInv DEF Up!BeforeHandOver
<1> QED
  BY <1>1, <1>2

\* The upload takes back a request that hyper returned.
LEMMA TakeReturnedInv == Up!Inv /\ Up!TakeReturned => Up!Inv'
PROOF
<1> SUFFICES ASSUME Up!Inv, Up!TakeReturned PROVE Up!Inv'
  OBVIOUS
<1>0. /\ Up!TypeOK /\ upload \in Up!UploadType /\ slot \in Up!SlotType
      /\ hyper \in Up!HyperType /\ Up!SlotInv
  BY DEF Up!Inv, Up!TypeOK
<1>u. UNCHANGED <<whole, wakers, writer, rounds, sent>> /\ head' = "none"
  BY DEF Up!TakeReturned
<1>h. /\ hyper.at = "none" /\ hyper.got = 0 /\ ~hyper.complete
      /\ ~slot.ended /\ ~slot.polled
  BY DEF Up!Inv, Up!HyperInv, Up!TakeReturned, Up!GivenBack
<1>1. /\ slot' \in Up!SlotType /\ slot'.frame = slot.frame /\ slot'.closed = slot.closed
      /\ slot'.aborted = slot.aborted /\ ~slot'.ended /\ ~slot'.polled
  BY <1>0, <1>h DEF Up!SlotType, Up!TakeReturned, Up!WithdrawSlot
<1>2. /\ hyper' \in Up!HyperType /\ hyper'.at = "none" /\ hyper'.got = hyper.got
      /\ hyper'.complete = hyper.complete
  BY <1>0 DEF Up!HyperType, Up!TakeReturned
<1>3. /\ upload' \in Up!UploadType /\ upload'.at \in {"connect", "returned"}
      /\ upload'.followed = upload.followed /\ upload'.outcome = upload.outcome
  <2>1. PICK a \in {"connect", "returned"} :
          upload' = [upload EXCEPT !.handed = FALSE, !.at = a]
    BY DEF Up!TakeReturned
  <2> QED
    BY <1>0, <2>1 DEF Up!UploadType
<1>4. upload.at \in {"poll", "headwait"} /\ upload.outcome # "unsent"
  BY DEF Up!TakeReturned, Up!Resolves, Up!Inv, Up!SentInv
<1>5. Up!TypeOK'
  BY <1>0, <1>u, <1>1, <1>2, <1>3 DEF Up!TypeOK, Up!HeadType
<1>6. Up!WriterInv'
  BY <1>u, <1>1, <1>h DEF Up!Inv, Up!WriterInv
<1>7. Up!SlotInv'
  BY <1>0, <1>u, <1>1, <1>2 DEF Up!SlotInv
<1>8. Up!HyperInv'
  BY <1>u, <1>1, <1>2, <1>h DEF Up!HyperInv
<1>9. Up!RoundsInv'
  BY <1>u, <1>3, <1>4 DEF Up!Inv, Up!RoundsInv
<1>10. Up!SentInv'
  BY <1>u, <1>h, <1>2, <1>3, <1>4 DEF Up!Inv, Up!SentInv
<1> QED
  BY <1>5, <1>6, <1>7, <1>8, <1>9, <1>10 DEF Up!Inv

\* A request that came back unsent ends the upload or is sent again.
LEMMA ReturnedUnsentInv == Up!Inv /\ Up!ReturnedUnsent => Up!Inv'
PROOF
  BY UnsentInv DEF Up!ReturnedUnsent, Up!BeforeHandOver

\* The upload takes an error or an answer that it does not deliver.
LEMMA AnswerInv == Up!Inv /\ (Up!TakeError \/ Up!Undelivered \/ Up!Withheld) => Up!Inv'
PROOF
<1> SUFFICES ASSUME Up!Inv, Up!TakeError \/ Up!Undelivered \/ Up!Withheld PROVE Up!Inv'
  OBVIOUS
<1>1. CASE Up!TakeError
  BY <1>1, CutStays, CutOverInv DEF Up!TakeError
<1>2. CASE Up!Undelivered
  BY <1>2, CutStays, CutOverInv DEF Up!Undelivered
<1>3. CASE Up!Withheld
  BY <1>3, CutStays, CutOverInv DEF Up!Withheld
<1> QED
  BY <1>1, <1>2, <1>3

\* The upload follows a redirect.
LEMMA FollowInv == Up!Inv /\ Up!Follow => Up!Inv'
PROOF
<1> SUFFICES ASSUME Up!Inv, Up!Follow PROVE Up!Inv'
  OBVIOUS
<1>0. Up!TypeOK /\ upload \in Up!UploadType /\ Up!SlotInv /\ Up!WriterInv
  BY DEF Up!Inv, Up!TypeOK
<1>u. UNCHANGED <<whole, writer, rounds, sent>> /\ head' = "none" /\ wakers' = {}
  BY DEF Up!Follow
<1>w. whole /\ writer.pc = "none" /\ writer.buffer = 0
  BY <1>0 DEF Up!Follow, Up!IsRedirect, Up!WriterInv, Up!SlotInv
<1>n. writer.written \in 0..Frames /\ upload.followed \in 0..MaxRedirects
  BY <1>0, FrameCounts DEF Up!UploadType
<1>1. /\ slot' \in Up!SlotType /\ slot'.frame = writer.written /\ slot'.closed
      /\ ~slot'.ended /\ ~slot'.polled
  BY <1>n DEF Up!Follow, Up!WholeSlot, Up!EmptySlot, Up!SlotType
<1>2. /\ hyper' \in Up!HyperType /\ hyper'.at = "none" /\ hyper'.got = 0 /\ ~hyper'.complete
  BY UploadConstants DEF Up!Follow, Up!Unasked, Up!HyperType
<1>3. /\ upload' \in Up!UploadType /\ upload'.at = "attempt"
      /\ upload'.followed = upload.followed + 1 /\ upload'.outcome = upload.outcome
  <2>1. upload.followed + 1 \in 0..MaxRedirects
    BY <1>n, UploadConstants DEF Up!Follow
  <2>2. upload' = [upload EXCEPT !.at = "attempt", !.followed = upload.followed + 1]
    BY <1>0 DEF Up!Follow, Up!UploadType
  <2> QED
    BY <1>0, <2>1, <2>2 DEF Up!UploadType
<1>4. upload.at \in {"poll", "headwait"} /\ upload.outcome # "unsent"
  BY DEF Up!Follow, Up!Resolves, Up!Inv, Up!SentInv
<1>5. Up!TypeOK'
  BY <1>0, <1>u, <1>1, <1>2, <1>3 DEF Up!TypeOK, Up!HeadType
<1>6. Up!WriterInv'
  BY <1>0, <1>u, <1>w DEF Up!WriterInv
<1>7. Up!SlotInv'
  <2>1. hyper'.got + slot'.frame + writer'.buffer = writer'.written
    BY <1>u, <1>n, <1>w, <1>1, <1>2
  <2> QED
    BY <1>u, <1>w, <1>1, <2>1 DEF Up!SlotInv
<1>8. Up!HyperInv'
  BY <1>u, <1>1, <1>2 DEF Up!HyperInv
<1>9. Up!RoundsInv'
  BY <1>u, <1>3, <1>4 DEF Up!Inv, Up!RoundsInv
<1>10. Up!SentInv'
  <2>1. sent \in Nat /\ sent <= upload.followed + 1
    BY <1>0 DEF Up!TypeOK, Up!Inv, Up!SentInv
  <2> QED
    BY <1>u, <1>n, <1>3, <1>4, <2>1 DEF Up!SentInv
<1> QED
  BY <1>5, <1>6, <1>7, <1>8, <1>9, <1>10 DEF Up!Inv

\* The upload delivers its answer.
LEMMA DeliverUploadInv == Up!Inv /\ Up!Deliver => Up!Inv'
PROOF
<1> SUFFICES ASSUME Up!Inv, Up!Deliver PROVE Up!Inv'
  OBVIOUS
<1>0. upload \in Up!UploadType /\ wakers \subseteq {"writer", "reader", "upload"}
  BY DEF Up!Inv, Up!TypeOK
<1>1. /\ upload' \in Up!UploadType
      /\ upload'.at = "response" /\ upload'.followed = upload.followed
      /\ upload'.outcome = "answered"
  BY <1>0 DEF Up!Deliver, Up!UploadType
<1>2. upload.at \in {"poll", "headwait"} /\ ~Up!BeforeHandOver'
  BY <1>1 DEF Up!Deliver, Up!Resolves, Up!BeforeHandOver
<1> QED
  BY <1>0, <1>1, <1>2, SameSlotStays, RoundsStay, UploadMoves DEF Up!Deliver

\* The response ends.
LEMMA ResponseEndsInv == Up!Inv /\ Up!ResponseEnds => Up!Inv'
PROOF
<1> SUFFICES ASSUME Up!Inv, Up!ResponseEnds PROVE Up!Inv'
  OBVIOUS
<1>0. upload \in Up!UploadType
  BY DEF Up!Inv, Up!TypeOK
<1>1. /\ upload' \in Up!UploadType
      /\ upload'.at = "over" /\ upload'.followed = upload.followed
      /\ upload'.outcome = upload.outcome
  BY <1>0, UploadGoesTo DEF Up!ResponseEnds
<1>2. upload.outcome # "unsent" /\ ~Up!BeforeHandOver'
  BY <1>1 DEF Up!Inv, Up!SentInv, Up!ResponseEnds, Up!BeforeHandOver
<1> QED
  BY <1>1, <1>2, CutStays, RoundsStay, UploadMoves DEF Up!ResponseEnds

-----------------------------------------------------------------------------
\* The initial state of an upload.
LEMMA UploadInit == Up!Init => Up!Inv
PROOF
<1> SUFFICES ASSUME Up!Init PROVE Up!Inv
  OBVIOUS
<1>1. PICK n \in {0, Frames} :
       \/ /\ whole = TRUE /\ slot = Up!WholeSlot(n)
          /\ writer = [pc |-> "none", call |-> "none", buffer |-> 0, timer |-> FALSE,
                       written |-> n]
       \/ /\ whole = FALSE /\ slot = Up!EmptySlot
          /\ writer = [pc |-> "idle", call |-> "none", buffer |-> 0, timer |-> FALSE,
                       written |-> 0]
  BY DEF Up!Init
<1>n. n \in 0..Frames /\ 0 \in 0..Frames
  BY UploadConstants
<1>2. PICK k \in {1, Mirrors} :
        rounds = [count |-> k, position |-> 1, settled |-> {},
                  retryable |-> FALSE, round |-> 0]
  BY DEF Up!Init
<1>3. /\ hyper = Up!Unasked /\ head = "none" /\ wakers = {} /\ sent = 0
      /\ upload = [at |-> "idle", conn |-> "new", timer |-> FALSE, followed |-> 0,
                   handed |-> FALSE, outcome |-> "none"]
  BY DEF Up!Init
<1>4. /\ slot \in Up!SlotType /\ writer \in Up!WriterType /\ whole \in BOOLEAN
      /\ slot.frame = writer.written /\ writer.buffer = 0 /\ writer.call = "none"
      /\ whole <=> writer.pc = "none"
      /\ writer.pc \in {"none", "idle"}
      /\ whole => slot.closed
      /\ ~slot.ended /\ ~slot.polled /\ writer.written \in Nat
  <2>1. CASE /\ whole = TRUE /\ slot = Up!WholeSlot(n)
             /\ writer = [pc |-> "none", call |-> "none", buffer |-> 0, timer |-> FALSE,
                          written |-> n]
    <3>1. writer \in Up!WriterType /\ writer.pc = "none" /\ writer.written = n
      BY <2>1, <1>n DEF Up!WriterType
    <3>2. slot \in Up!SlotType /\ slot.frame = n /\ slot.closed /\ ~slot.ended /\ ~slot.polled
      BY <2>1, <1>n DEF Up!SlotType, Up!WholeSlot, Up!EmptySlot
    <3> QED
      BY <2>1, <1>n, <3>1, <3>2
  <2>2. CASE /\ whole = FALSE /\ slot = Up!EmptySlot
             /\ writer = [pc |-> "idle", call |-> "none", buffer |-> 0, timer |-> FALSE,
                          written |-> 0]
    <3>1. writer \in Up!WriterType /\ writer.pc = "idle" /\ writer.written = 0
      BY <2>2, <1>n DEF Up!WriterType
    <3>2. slot \in Up!SlotType /\ slot.frame = 0 /\ ~slot.ended /\ ~slot.polled
      BY <2>2, <1>n DEF Up!SlotType, Up!EmptySlot
    <3> QED
      BY <2>2, <1>n, <3>1, <3>2
  <2> QED
    BY <1>1, <2>1, <2>2
<1>5. rounds \in Up!RoundsType
  BY <1>2, UploadConstants DEF Up!RoundsType
<1>6. upload \in Up!UploadType /\ hyper \in Up!HyperType
  BY <1>3, <1>n, UploadConstants DEF Up!UploadType, Up!HyperType, Up!Unasked
<1>7. Up!TypeOK
  BY <1>3, <1>4, <1>5, <1>6 DEF Up!TypeOK, Up!HeadType
<1>8. Up!WriterInv
  BY <1>4 DEF Up!WriterInv
<1>9. Up!SlotInv
  <2>1. hyper.got = 0 /\ hyper.got + slot.frame + writer.buffer = writer.written
    BY <1>3, <1>4 DEF Up!Unasked
  <2> QED
    BY <1>4, <2>1 DEF Up!SlotInv
<1>10. Up!HyperInv
  BY <1>3, <1>4 DEF Up!HyperInv, Up!Unasked
<1>11. Up!RoundsInv
  BY <1>2, <1>3, UploadConstants DEF Up!RoundsInv
<1>12. Up!SentInv
  BY <1>3 DEF Up!SentInv
<1> QED
  BY <1>7, <1>8, <1>9, <1>10, <1>11, <1>12 DEF Up!Inv

\* A step that leaves the upload alone.
LEMMA UploadStutter == Up!Inv /\ UNCHANGED Up!vars => Up!Inv'
PROOF
<1> SUFFICES ASSUME Up!Inv, UNCHANGED Up!vars PROVE Up!Inv'
  OBVIOUS
<1>1. UNCHANGED <<whole, slot, wakers, writer, hyper, head, rounds, upload, sent>>
  BY DEF Up!vars
<1>2. wakers \subseteq {"writer", "reader", "upload"}
  BY DEF Up!Inv, Up!TypeOK
<1> QED
  BY <1>1, <1>2, SameSlotStays, SlotMoves

\* Each step of the upload keeps the invariant.
LEMMA UploadNext == Up!Inv /\ [Up!Next]_(Up!vars) => Up!Inv'
PROOF
<1> SUFFICES ASSUME Up!Inv, [Up!Next]_(Up!vars) PROVE Up!Inv'
  OBVIOUS
<1>1. CASE UNCHANGED Up!vars
  BY <1>1, UploadStutter
<1>2. CASE Up!Tick \/ Up!WriterStep \/ Up!CancelCall \/ Up!DropWriter
  BY <1>2, TickInv, PollWriteInv, PollHandOverInv, PollTakenInv, PollCloseInv,
     WriterChecksStallInv, WriterWakesInv, CancelCallInv, DropWriterInv DEF Up!WriterStep
<1>3. CASE \E c \in {"write", "flush", "close"} : Up!Call(c)
  BY <1>3, CallInv
<1>4. CASE Up!HyperStep
  BY <1>4, HyperFramesInv, PollFailedInv, PollFrameInv, PollEndInv, HyperWakesInv,
     HyperFailsInv, GivesBackInv, RespondsInv DEF Up!HyperStep
<1>5. CASE Up!Begin \/ Up!Expire \/ Up!ResponseEnds \/ Up!DropUpload
  BY <1>5, BeginInv, ExpireInv, ResponseEndsInv
<1>6. CASE Up!UploadStep
  BY <1>6, AttemptInv, HandOverInv, BackoffInv, PollSendInv, WatchInv,
     UploadChecksStallInv, ExpireInv, TakeReturnedInv, ReturnedUnsentInv, AnswerInv,
     FollowInv, DeliverUploadInv DEF Up!UploadStep
<1> QED
  BY <1>1, <1>2, <1>3, <1>4, <1>5, <1>6 DEF Up!Next

\* The invariant gives the two properties of an upload.
LEMMA UploadSafe == Up!Inv => Up!BodyIsWhole /\ Up!SentAsSaid
PROOF
<1> SUFFICES ASSUME Up!Inv PROVE Up!BodyIsWhole /\ Up!SentAsSaid
  OBVIOUS
<1>1. ASSUME slot.ended
      PROVE  /\ slot.closed /\ ~slot.aborted /\ hyper.got = writer.written
             /\ slot.polled \/ slot.empty
  <2>1. slot.closed /\ ~slot.aborted /\ slot.frame = 0 /\ writer.buffer = 0
        /\ (slot.polled \/ slot.empty)
    BY <1>1 DEF Up!Inv, Up!SlotInv, Up!AtEnd
  <2>2. hyper.got + slot.frame + writer.buffer = writer.written
    BY DEF Up!Inv, Up!SlotInv
  <2> QED
    BY <2>1, <2>2, FrameCounts DEF Up!Inv
<1>2. Up!BodyIsWhole
  BY <1>1 DEF Up!Inv, Up!HyperInv, Up!WriterInv, Up!BodyIsWhole
<1>3. Up!SentAsSaid
  BY UploadConstants DEF Up!Inv, Up!SentInv, Up!TypeOK, Up!UploadType, Up!SentAsSaid
<1> QED
  BY <1>2, <1>3

-----------------------------------------------------------------------------
\* A step of the run is a step of the upload, or leaves it at rest.
LEMMA UploadPart ==
  [MCNext]_<<side, vars, repoVars, uploadVars>> => [Up!Next]_(Up!vars)
PROOF
  BY DEF MCNext, uploadVars, Up!vars

\* In every state the frames add up, a body that ended is whole, and the
\* request is with hyper exactly once it was handed over (Up!Inv).
THEOREM UploadIsInvariant == MCSpec => []Up!Inv
PROOF
<1>1. MCInit => Up!Inv
  BY UploadInit DEF MCInit
<1>2. Up!Inv /\ [MCNext]_<<side, vars, repoVars, uploadVars>> => Up!Inv'
  BY UploadPart, UploadNext
<1> QED
  BY <1>1, <1>2, PTL DEF MCSpec

\* A request that hyper completes carries each frame that was written, and a
\* close that succeeds means that hyper has them (UploadWriter, BodyEnd).
THEOREM BodyArrivesWhole == MCSpec => []BodyIsWhole
PROOF
<1>1. Up!Inv => BodyIsWhole
  BY UploadSafe DEF BodyIsWhole
<1> QED
  BY <1>1, UploadIsInvariant, PTL

\* No hop sends its request twice, and an upload that fails as unsent on its
\* first hop sent nothing, in any round (upload_rounds, Error::is_unsent).
THEOREM NoHopSendsTwice == MCSpec => []SentAsSaid
PROOF
<1>1. Up!Inv => SentAsSaid
  BY UploadSafe DEF SentAsSaid
<1> QED
  BY <1>1, UploadIsInvariant, PTL

-----------------------------------------------------------------------------
\* The writers of the repository.

\* The assumptions on the constants of the repository.
LEMMA RepoConstants ==
  /\ RootOf \in [Commit -> Tree]
  /\ FilesOf \in [Tree -> SUBSET Tree]
  /\ History \in [Commit -> Seq(Commit)]
  /\ Commit \cap Tree = {} /\ (Commit \cup Tree) \cap Repo!Meta = {}
  /\ None \notin Commit \cup Writer \cup Repo!RefSet
  /\ "dead" \notin Writer
  /\ CheckInterval \in Nat
PROOF
  BY RepoAssumption

\* The objects of a tree are no commits and no metadata.
LEMMA TreeIsTree ==
  \A c \in Commit : Repo!TreeOf(c) \subseteq Tree
PROOF
  BY RepoConstants DEF Repo!TreeOf

\* What is left once the request r, whose turn it is, is sent.
LEMMA Turn ==
  ASSUME NEW T \in SUBSET Repo!Request, NEW r \in T, \A q \in T : r.at <= q.at
  PROVE  LET U == (T \ {r}) \cup Repo!Followers(r) IN
         /\ \A d, wh, k : ~Repo!Earlier(T, r, d, wh, k)
         /\ \A q \in Repo!Followers(r) : \A d, wh, k : ~Repo!Earlier(U, q, d, wh, k)
         /\ \A q \in T : \A d, wh, k :
              Repo!Earlier(T, q, d, wh, k) =>
                Repo!Earlier(U, q, d, wh, k) \/ (Repo!Is(r, d, wh) /\ r.key = k)
         /\ \A d, wh, k :
              Repo!Has(U, d, wh, k) =>
                Repo!Has(T, d, wh, k) \/ (d = "delete" /\ wh = "object" /\ k \in Repo!Meta)
PROOF
<1> DEFINE F == Repo!Followers(r)
           U == (T \ {r}) \cup F
<1>1. \A q \in T : q.at \in Nat
  BY DEF Repo!Request
<1>2. r.then \subseteq Repo!Meta
  BY DEF Repo!Request
<1>3. \A q \in F : q.at = r.at /\ q.do = "delete" /\ q.what = "object" /\ q.key \in Repo!Meta
  BY <1>2 DEF Repo!Followers, Repo!DeleteObjects, Repo!Delete
<1> HIDE DEF F
<1>4. \A d, wh, k : ~Repo!Earlier(T, r, d, wh, k)
  BY <1>1 DEF Repo!Earlier
<1>5. \A q \in F : \A d, wh, k : ~Repo!Earlier(U, q, d, wh, k)
  BY <1>1, <1>3 DEF Repo!Earlier
<1>6. ASSUME NEW q \in T, NEW d, NEW wh, NEW k, Repo!Earlier(T, q, d, wh, k)
      PROVE  Repo!Earlier(U, q, d, wh, k) \/ (Repo!Is(r, d, wh) /\ r.key = k)
  BY <1>6 DEF Repo!Earlier
<1>7. ASSUME NEW d, NEW wh, NEW k, Repo!Has(U, d, wh, k)
      PROVE  Repo!Has(T, d, wh, k) \/ (d = "delete" /\ wh = "object" /\ k \in Repo!Meta)
  BY <1>3, <1>7 DEF Repo!Has, Repo!Is
<1> QED
  BY <1>4, <1>5, <1>6, <1>7 DEF F

\* The request r of T, whose turn it is, is sent, and U is left.
Turns(T, U, r, kind) ==
  /\ Repo!TypeOK /\ ~strayed /\ Repo!CommitHasTree /\ Repo!NamedCommitHeld
  /\ T \in SUBSET Repo!Request /\ Repo!Formed(T) /\ Repo!Safe(T, kind)
  /\ r \in T /\ (\A q \in T : r.at <= q.at) /\ r.do # "check"
  /\ U = (T \ {r}) \cup Repo!Followers(r)
  /\ Repo!Effect(r)
  /\ repaired' =
       (repaired \cup (IF kind = "fsck" THEN Commit \cap objects ELSE {})) \ objects'

\* What it leaves is safe.
Stands(U, kind) ==
  /\ \A c \in Commit \cap objects' : c \in marker' \/ Repo!TreeOf(c) \subseteq objects'
  /\ Repo!Named(refs') \cup Repo!Named(summary') \subseteq objects' \cup repaired'
  /\ Repo!Safe(U, kind)'

\* The requests that are left are the other ones, and the followers of r.
LEMMA Left ==
  ASSUME NEW T, NEW U, NEW r, NEW kind, Turns(T, U, r, kind)
  PROVE  /\ \A q \in U : \/ q \in T /\ q # r
                        \/ q \in Repo!Followers(r)
         /\ \A q \in Repo!Followers(r) :
              /\ Repo!Is(q, "delete", "object") /\ q.key \in Repo!Meta
              /\ Repo!Is(r, "delete", "object")
         /\ \A d, wh, k : ~Repo!Earlier(T, r, d, wh, k)
         /\ \A q \in T : \A d, wh, k :
              Repo!Earlier(T, q, d, wh, k) =>
                Repo!Earlier(U, q, d, wh, k) \/ (Repo!Is(r, d, wh) /\ r.key = k)
         /\ \A d, wh, k :
              Repo!Has(U, d, wh, k) =>
                Repo!Has(T, d, wh, k) \/ (d = "delete" /\ wh = "object" /\ k \in Repo!Meta)
PROOF
<1>1. T \in SUBSET Repo!Request /\ r \in T /\ (\A q \in T : r.at <= q.at)
      /\ U = (T \ {r}) \cup Repo!Followers(r)
  BY DEF Turns
<1>2. \A q \in U : (q \in T /\ q # r) \/ q \in Repo!Followers(r)
  BY <1>1
<1>3. r.then \subseteq Repo!Meta
  BY <1>1 DEF Repo!Request
<1>5. r.then # {} => Repo!Is(r, "delete", "object")
  BY DEF Turns, Repo!Formed
<1>4. ASSUME NEW q \in Repo!Followers(r)
      PROVE  /\ Repo!Is(q, "delete", "object") /\ q.key \in Repo!Meta
             /\ Repo!Is(r, "delete", "object")
  BY <1>3, <1>5 DEF Repo!Followers, Repo!DeleteObjects, Repo!Delete, Repo!Is
<1> QED
  BY <1>1, <1>2, <1>4, Turn

\* What the parts of the bucket are after r.
LEMMA Effects ==
  ASSUME NEW r, Repo!Effect(r)
  PROVE  /\ Repo!Is(r, "put", "object") => objects' = objects \cup {r.key}
         /\ r.what = "object" /\ r.do # "put" => objects' = objects \ {r.key}
         /\ r.what # "object" => objects' = objects
         /\ Repo!Is(r, "put", "marker") => marker' = marker \cup {r.key}
         /\ r.what = "marker" /\ r.do # "put" => marker' = marker \ {r.key}
         /\ r.what # "marker" => marker' = marker
         /\ r.what # "ref" => refs' = refs
         /\ r.what = "ref" => refs' = [refs EXCEPT ![r.key] = r.value]
         /\ r.what # "summary" => summary' = summary
         /\ r.what = "summary" => summary' = r.value
PROOF
  BY DEF Repo!Effect, Repo!After, Repo!Is

\* The commits that a ref set names are commits.
LEMMA NamedIsCommit ==
  ASSUME NEW f \in Repo!RefSet \cup {None}
  PROVE  Repo!Named(f) \subseteq Commit
PROOF
  BY DEF Repo!Named, Repo!RefSet, Repo!Range

\* The requests left stand after the put of an object.
LEMMA PutObjectStands ==
  ASSUME NEW T, NEW U, NEW r, NEW kind, Turns(T, U, r, kind), Repo!Is(r, "put", "object")
  PROVE  Stands(U, kind)
PROOF
<1>0. /\ Repo!OneSided(T) /\ Repo!PutsWhole(T) /\ Repo!DeletesLoose(T)
      /\ Repo!UnmarksWhole(T) /\ Repo!NamesHeld(T, kind)
      /\ r \in T
  BY DEF Turns, Repo!Safe
<1>n. ~Repo!Is(r, "delete", "object")
  BY DEF Repo!Is
<1>u. \A q \in U : q \in T /\ q # r
  BY <1>n, Left
<1>1. /\ objects' = objects \cup {r.key} /\ marker' = marker
      /\ refs' = refs /\ summary' = summary
  BY Effects DEF Turns, Repo!Is
<1>2. \A d, wh, k : Repo!Has(U, d, wh, k) => Repo!Has(T, d, wh, k)
  BY <1>0, <1>u DEF Repo!Has
<1>3. \A q \in T : \A wh, k : ~(q.do = "delete" /\ q.what = "object")
  BY <1>0, <1>u DEF Repo!OneSided, Repo!Is
<1>4. \A q \in T : \A k :
        Repo!Earlier(T, q, "put", "object", k) =>
          Repo!Earlier(U, q, "put", "object", k) \/ r.key = k
  BY Left
<1>5. Repo!Has(T, "put", "object", r.key)
  BY <1>0, <1>u DEF Repo!Has
<1>6. \A d, wh, k : ~Repo!Earlier(T, r, d, wh, k)
  BY Left
<1>7. Repo!OneSided(U)'
  BY <1>0, <1>u DEF Repo!OneSided
<1>8. Repo!PutsWhole(U)'
  BY <1>0, <1>u, <1>1, <1>4 DEF Repo!PutsWhole
<1>9. Repo!DeletesLoose(U)'
  BY <1>0, <1>u, <1>3 DEF Repo!DeletesLoose, Repo!Is
<1>10. Repo!UnmarksWhole(U)'
  <2> SUFFICES ASSUME NEW q \in U, Repo!Is(q, "delete", "marker")
               PROVE  \/ q.key \notin objects' /\ ~Repo!Has(U, "put", "object", q.key)
                      \/ Repo!Earlier(U, q, "delete", "object", q.key)
                      \/ \A o \in Repo!TreeOf(q.key) :
                           /\ o \in objects' \/ Repo!Earlier(U, q, "put", "object", o)
                           /\ ~Repo!Has(U, "delete", "object", o)
    BY DEF Repo!UnmarksWhole
  <2>1. ~Repo!Earlier(T, q, "delete", "object", q.key)
    BY <1>3 DEF Repo!Earlier, Repo!Is
  <2> QED
    BY <1>0, <1>u, <1>1, <1>2, <1>4, <1>5, <2>1 DEF Repo!UnmarksWhole
<1>11. Repo!NamesHeld(U, kind)'
  BY <1>0, <1>u, <1>1, <1>3, <1>4 DEF Repo!NamesHeld, Repo!Is
<1>12. \A c \in Commit \cap objects' : c \in marker' \/ Repo!TreeOf(c) \subseteq objects'
  BY <1>0, <1>u, <1>1, <1>6 DEF Turns, Repo!CommitHasTree, Repo!PutsWhole
<1>13. Repo!Named(refs') \cup Repo!Named(summary') \subseteq objects' \cup repaired'
  BY <1>1 DEF Turns, Repo!NamedCommitHeld
<1> QED
  BY <1>7, <1>8, <1>9, <1>10, <1>11, <1>12, <1>13 DEF Stands, Repo!Safe

\* The requests left stand after the delete of an object.
LEMMA DeleteObjectStands ==
  ASSUME NEW T, NEW U, NEW r, NEW kind, Turns(T, U, r, kind), Repo!Is(r, "delete", "object")
  PROVE  Stands(U, kind)
PROOF
<1>0. /\ Repo!OneSided(T) /\ Repo!PutsWhole(T) /\ Repo!DeletesLoose(T)
      /\ Repo!UnmarksWhole(T) /\ Repo!NamesHeld(T, kind)
      /\ r \in T
  BY DEF Turns, Repo!Safe
<1>1. /\ objects' = objects \ {r.key} /\ marker' = marker
      /\ refs' = refs /\ summary' = summary
  BY Effects DEF Turns, Repo!Is
<1>u. \A q \in U : \/ q \in T /\ q # r
                   \/ Repo!Is(q, "delete", "object") /\ q.key \in Repo!Meta
  BY Left
<1>2. \A d, wh, k :
        Repo!Has(U, d, wh, k) =>
          Repo!Has(T, d, wh, k) \/ (d = "delete" /\ wh = "object" /\ k \in Repo!Meta)
  BY Left
<1>3. \A q \in T : q.do = "put" => q.what = "marker"
  BY <1>0 DEF Repo!OneSided
<1>4. \A q \in T : \A d, wh, k :
        Repo!Earlier(T, q, d, wh, k) =>
          Repo!Earlier(U, q, d, wh, k) \/ (d = "delete" /\ wh = "object" /\ r.key = k)
  BY Left DEF Repo!Is
<1>5. \A k : ~Repo!Has(T, "put", "object", k)
  BY <1>3 DEF Repo!Has, Repo!Is
<1>6. \A d, wh, k : ~Repo!Earlier(T, r, d, wh, k)
  BY Left
<1>7. \A q \in U : q.do = "put" => q.what = "marker"
  BY <1>3, <1>u DEF Repo!Is
<1>8. \A c \in Commit : \A o \in Repo!TreeOf(c) : o \notin Repo!Meta /\ o \notin Commit
  BY TreeIsTree, RepoConstants
<1>9. Repo!OneSided(U)'
  BY <1>7 DEF Repo!OneSided
<1>10. Repo!PutsWhole(U)'
  BY <1>7 DEF Repo!PutsWhole, Repo!Is
<1>11. Repo!DeletesLoose(U)'
  <2> SUFFICES ASSUME NEW q \in U, Repo!Is(q, "delete", "object"),
                      NEW c \in Commit \cap objects', q.key \in Repo!TreeOf(c)
               PROVE  \/ Repo!Earlier(U, q, "delete", "object", c)
                      \/ /\ c \in marker' \/ Repo!Earlier(U, q, "put", "marker", c)
                         /\ ~Repo!Has(U, "delete", "marker", c)
    BY DEF Repo!DeletesLoose
  <2>1. q \in T /\ q # r /\ c \in objects /\ c # r.key
    BY <1>u, <1>1, <1>8
  <2>2. \/ Repo!Earlier(T, q, "delete", "object", c)
        \/ /\ c \in marker \/ Repo!Earlier(T, q, "put", "marker", c)
           /\ ~Repo!Has(T, "delete", "marker", c)
    BY <2>1, <1>0 DEF Repo!DeletesLoose
  <2> QED
    BY <2>1, <2>2, <1>1, <1>2, <1>4
<1>12. Repo!UnmarksWhole(U)'
  <2> SUFFICES ASSUME NEW q \in U, Repo!Is(q, "delete", "marker")
               PROVE  \/ q.key \notin objects' /\ ~Repo!Has(U, "put", "object", q.key)
                      \/ Repo!Earlier(U, q, "delete", "object", q.key)
                      \/ \A o \in Repo!TreeOf(q.key) :
                           /\ o \in objects' \/ Repo!Earlier(U, q, "put", "object", o)
                           /\ ~Repo!Has(U, "delete", "object", o)
    BY DEF Repo!UnmarksWhole
  <2>1. q \in T /\ q.key \in Commit
    BY <1>u DEF Repo!Is, Turns, Repo!Formed
  <2>2. Repo!Has(T, "delete", "object", r.key)
    BY <1>0 DEF Repo!Has
  <2>3. ~Repo!Has(U, "put", "object", q.key)
    BY <1>2, <1>5
  <2>4. CASE q.key \notin objects
    BY <2>3, <2>4, <1>1
  <2>5. CASE Repo!Earlier(T, q, "delete", "object", q.key)
    BY <2>1, <2>3, <2>5, <1>1, <1>4
  <2>6. CASE \A o \in Repo!TreeOf(q.key) :
               /\ o \in objects \/ Repo!Earlier(T, q, "put", "object", o)
               /\ ~Repo!Has(T, "delete", "object", o)
    BY <2>1, <2>2, <2>6, <1>1, <1>2, <1>4, <1>8
  <2> QED
    BY <2>1, <2>4, <2>5, <2>6, <1>0 DEF Repo!UnmarksWhole
<1>13. Repo!Named(refs) \cup Repo!Named(summary) \subseteq Commit
  BY NamedIsCommit DEF Turns, Repo!TypeOK
<1>14. Repo!NamesHeld(U, kind)'
  <2>1. \A q \in U : ~Repo!Is(q, "put", "ref") /\ ~Repo!Is(q, "put", "summary")
    BY <1>7 DEF Repo!Is
  <2>2. ASSUME NEW q \in U, Repo!Is(q, "delete", "object"), kind # "fsck"
        PROVE  q.key \notin Repo!Named(refs) \cup Repo!Named(summary)
    BY <2>2, <1>u, <1>0, <1>13, RepoConstants DEF Repo!NamesHeld
  <2> QED
    BY <2>1, <2>2, <1>1 DEF Repo!NamesHeld
<1>15. \A c \in Commit \cap objects' : c \in marker' \/ Repo!TreeOf(c) \subseteq objects'
  BY <1>0, <1>1, <1>6 DEF Turns, Repo!CommitHasTree, Repo!DeletesLoose
<1>16. Repo!Named(refs') \cup Repo!Named(summary') \subseteq objects' \cup repaired'
  <2>1. /\ Repo!Named(refs) \cup Repo!Named(summary) \subseteq objects \cup repaired
        /\ repaired' = (repaired \cup (IF kind = "fsck" THEN Commit \cap objects ELSE {}))
                         \ objects'
    BY DEF Turns, Repo!NamedCommitHeld
  <2>2. kind # "fsck" => r.key \notin Repo!Named(refs) \cup Repo!Named(summary)
    BY <1>0 DEF Repo!NamesHeld
  <2> QED
    BY <2>1, <2>2, <1>1, <1>13
<1> QED
  BY <1>9, <1>10, <1>11, <1>12, <1>14, <1>15, <1>16 DEF Stands, Repo!Safe

\* A request that is no delete of an object has no followers.
LEMMA LeftAlone ==
  ASSUME NEW T, NEW U, NEW r, NEW kind, Turns(T, U, r, kind),
         ~Repo!Is(r, "delete", "object")
  PROVE  /\ Repo!OneSided(T) /\ Repo!PutsWhole(T) /\ Repo!DeletesLoose(T)
         /\ Repo!UnmarksWhole(T) /\ Repo!NamesHeld(T, kind)
         /\ r \in T /\ (\A q \in U : q \in T /\ q # r)
         /\ \A d, wh, k : ~Repo!Earlier(T, r, d, wh, k)
         /\ \A d, wh, k : Repo!Has(U, d, wh, k) => Repo!Has(T, d, wh, k)
         /\ Repo!OneSided(U)'
PROOF
<1>1. \A q \in U : q \in T /\ q # r
  BY Left
<1>2. \A d, wh, k : ~Repo!Earlier(T, r, d, wh, k)
  BY Left
<1>3. /\ Repo!OneSided(T) /\ Repo!PutsWhole(T) /\ Repo!DeletesLoose(T)
      /\ Repo!UnmarksWhole(T) /\ Repo!NamesHeld(T, kind)
      /\ r \in T
  BY DEF Turns, Repo!Safe
<1>4. \A d, wh, k : Repo!Has(U, d, wh, k) => Repo!Has(T, d, wh, k)
  BY <1>1 DEF Repo!Has
<1>5. Repo!OneSided(U)'
  BY <1>1, <1>3 DEF Repo!OneSided
<1> QED
  BY <1>1, <1>2, <1>3, <1>4, <1>5

\* The requests left stand after the put or the delete of a marker.
LEMMA MarkerStands ==
  ASSUME NEW T, NEW U, NEW r, NEW kind, Turns(T, U, r, kind), r.what = "marker"
  PROVE  Stands(U, kind)
PROOF
<1>n. ~Repo!Is(r, "delete", "object")
  BY DEF Repo!Is
<1>0. /\ Repo!OneSided(T) /\ Repo!PutsWhole(T) /\ Repo!DeletesLoose(T)
      /\ Repo!UnmarksWhole(T) /\ Repo!NamesHeld(T, kind)
      /\ r \in T /\ (\A q \in U : q \in T /\ q # r)
  BY <1>n, LeftAlone
<1>6. \A d, wh, k : ~Repo!Earlier(T, r, d, wh, k)
  BY Left
<1>2. \A d, wh, k : Repo!Has(U, d, wh, k) => Repo!Has(T, d, wh, k)
  BY <1>n, LeftAlone
<1>d. r.do = "put" \/ r.do = "delete"
  BY DEF Turns, Repo!Request
<1>1. /\ objects' = objects
      /\ r.do = "put" => marker' = marker \cup {r.key}
      /\ r.do = "delete" => marker' = marker \ {r.key}
      /\ refs' = refs /\ summary' = summary
  BY Effects DEF Turns, Repo!Is
<1>4. \A q \in T : \A d, wh, k :
        Repo!Earlier(T, q, d, wh, k) =>
          Repo!Earlier(U, q, d, wh, k) \/ (r.do = d /\ wh = "marker" /\ r.key = k)
  BY Left DEF Repo!Is
<1>7. Repo!OneSided(U)'
  BY <1>n, LeftAlone
<1>8. Repo!PutsWhole(U)'
  BY <1>0, <1>1, <1>4 DEF Repo!PutsWhole
<1>9. Repo!DeletesLoose(U)'
  <2> SUFFICES ASSUME NEW q \in U, Repo!Is(q, "delete", "object"),
                      NEW c \in Commit \cap objects', q.key \in Repo!TreeOf(c)
               PROVE  \/ Repo!Earlier(U, q, "delete", "object", c)
                      \/ /\ c \in marker' \/ Repo!Earlier(U, q, "put", "marker", c)
                         /\ ~Repo!Has(U, "delete", "marker", c)
    BY DEF Repo!DeletesLoose
  <2>1. \/ Repo!Earlier(T, q, "delete", "object", c)
        \/ /\ c \in marker \/ Repo!Earlier(T, q, "put", "marker", c)
           /\ ~Repo!Has(T, "delete", "marker", c)
    BY <1>0, <1>1 DEF Repo!DeletesLoose
  <2>2. r.do = "delete" => Repo!Has(T, "delete", "marker", r.key)
    BY <1>0 DEF Repo!Has, Repo!Is
  <2> QED
    BY <2>1, <2>2, <1>0, <1>1, <1>2, <1>4, <1>d
<1>10. Repo!UnmarksWhole(U)'
  BY <1>0, <1>1, <1>2, <1>4 DEF Repo!UnmarksWhole
<1>11. Repo!NamesHeld(U, kind)'
  BY <1>0, <1>1, <1>4 DEF Repo!NamesHeld
<1>12. \A c \in Commit \cap objects' : c \in marker' \/ Repo!TreeOf(c) \subseteq objects'
  <2>1. \A c \in Commit \cap objects : c \in marker \/ Repo!TreeOf(c) \subseteq objects
    BY DEF Turns, Repo!CommitHasTree
  <2>2. r.do = "delete" /\ r.key \in objects => Repo!TreeOf(r.key) \subseteq objects
    BY <1>0, <1>6 DEF Repo!UnmarksWhole, Repo!Is
  <2> QED
    BY <1>1, <1>d, <2>1, <2>2
<1>13. Repo!Named(refs') \cup Repo!Named(summary') \subseteq objects' \cup repaired'
  BY <1>1 DEF Turns, Repo!NamedCommitHeld
<1> QED
  BY <1>7, <1>8, <1>9, <1>10, <1>11, <1>12, <1>13 DEF Stands, Repo!Safe

\* A ref set with one more name.
LEMMA NamedAfter ==
  ASSUME NEW f \in Repo!RefSet, NEW n \in Name, NEW c \in Commit
  PROVE  Repo!Named([f EXCEPT ![n] = c]) \subseteq Repo!Named(f) \cup {c}
PROOF
<1>1. f # None
  BY RepoConstants
<1> QED
  BY <1>1 DEF Repo!Named, Repo!RefSet, Repo!Range

\* The requests left stand after the put of a ref, a summary or a signature.
LEMMA NameStands ==
  ASSUME NEW T, NEW U, NEW r, NEW kind, Turns(T, U, r, kind),
         r.what \notin {"object", "marker"}, r.do = "put"
  PROVE  Stands(U, kind)
PROOF
<1>n. ~Repo!Is(r, "delete", "object")
  BY DEF Repo!Is
<1>0. /\ Repo!OneSided(T) /\ Repo!PutsWhole(T) /\ Repo!DeletesLoose(T)
      /\ Repo!UnmarksWhole(T) /\ Repo!NamesHeld(T, kind)
      /\ r \in T /\ (\A q \in U : q \in T /\ q # r)
  BY <1>n, LeftAlone
<1>1. objects' = objects /\ marker' = marker
  BY Effects DEF Turns
<1>2. \A d, wh, k : Repo!Has(U, d, wh, k) => Repo!Has(T, d, wh, k)
  BY <1>n, LeftAlone
<1>3. \A q \in T : ~Repo!Is(q, "delete", "object")
  BY <1>0 DEF Repo!OneSided
<1>4. \A q \in T : \A d, wh, k :
        wh \in {"object", "marker"} /\ Repo!Earlier(T, q, d, wh, k) =>
          Repo!Earlier(U, q, d, wh, k)
  BY Left DEF Repo!Is
<1>6. \A d, wh, k : ~Repo!Earlier(T, r, d, wh, k)
  BY Left
<1>7. Repo!OneSided(U)'
  BY <1>n, LeftAlone
<1>8. Repo!PutsWhole(U)'
  BY <1>0, <1>1, <1>4 DEF Repo!PutsWhole
<1>9. Repo!DeletesLoose(U)'
  BY <1>0, <1>3 DEF Repo!DeletesLoose
<1>10. Repo!UnmarksWhole(U)'
  BY <1>0, <1>1, <1>2, <1>4 DEF Repo!UnmarksWhole
<1>11. Repo!NamesHeld(U, kind)'
  BY <1>0, <1>1, <1>3, <1>4 DEF Repo!NamesHeld
<1>12. \A c \in Commit \cap objects' : c \in marker' \/ Repo!TreeOf(c) \subseteq objects'
  BY <1>1 DEF Turns, Repo!CommitHasTree
<1>13. Repo!Named(refs') \cup Repo!Named(summary') \subseteq objects' \cup repaired'
  <2>1. Repo!Named(refs) \cup Repo!Named(summary) \subseteq objects \cup repaired
    BY DEF Turns, Repo!NamedCommitHeld
  <2>2. repaired \subseteq objects' \cup repaired' /\ objects \subseteq objects'
    BY <1>1 DEF Turns
  <2>3. CASE r.what = "ref"
    <3>1. r.key \in Name /\ r.value \in Commit /\ refs \in Repo!RefSet
      BY <2>3 DEF Turns, Repo!Formed, Repo!TypeOK
    <3>2. r.value \in objects
      BY <2>3, <1>0, <1>6 DEF Repo!NamesHeld, Repo!Is
    <3>3. refs' = [refs EXCEPT ![r.key] = r.value] /\ summary' = summary
      BY <2>3, Effects DEF Turns
    <3>4. Repo!Named(refs') \subseteq Repo!Named(refs) \cup {r.value}
      BY <3>1, <3>3, NamedAfter
    <3> QED
      BY <2>1, <2>2, <3>2, <3>3, <3>4
  <2>4. CASE r.what = "summary"
    <3>1. refs' = refs /\ summary' = r.value
      BY <2>4, Effects DEF Turns
    <3>2. Repo!Named(r.value) \subseteq objects
      BY <2>4, <1>0 DEF Repo!NamesHeld, Repo!Is
    <3> QED
      BY <2>1, <2>2, <3>1, <3>2
  <2>5. CASE r.what \notin {"ref", "summary"}
    <3>1. refs' = refs /\ summary' = summary
      BY <2>5, Effects DEF Turns
    <3> QED
      BY <2>1, <2>2, <3>1
  <2> QED
    BY <2>3, <2>4, <2>5
<1> QED
  BY <1>7, <1>8, <1>9, <1>10, <1>11, <1>12, <1>13 DEF Stands, Repo!Safe

\* The detached metadata of commits is metadata.
LEMMA MetasAreMeta == \A C : Repo!MetasOf(C) \subseteq Repo!Meta
PROOF
  BY DEF Repo!MetasOf, Repo!Meta, Repo!Range

\* The requests of a push.
LEMMA PushSafe ==
  ASSUME Repo!TypeOK, NEW n \in Name, NEW c \in Commit, NEW k \in 0..Len(History[c])
  PROVE  /\ Repo!PushSteps(n, c, k) \in SUBSET Repo!Request
         /\ Repo!Formed(Repo!PushSteps(n, c, k))
         /\ Repo!Safe(Repo!PushSteps(n, c, k), "push")
PROOF
<1> DEFINE S == Repo!PushSteps(n, c, k)
           offered == Repo!Offered(c, k)
           missing == offered \ objects
           marked == (offered \cap objects) \cap marker
           trees == {Repo!TreeOf(m) : m \in missing \cup marked}
           tree == (UNION trees) \ objects
           first == tree \cup Repo!MetasOf(missing \cup {c})
<1>1. offered \subseteq Commit /\ c \in offered
  BY RepoConstants DEF Repo!Offered
<1>2. first \subseteq Tree \cup Repo!Meta
  BY <1>1, TreeIsTree, MetasAreMeta
<1>3. \A m \in missing \cup marked : \A o \in Repo!TreeOf(m) : o \in objects \/ o \in first
  <2>1. \A m \in missing \cup marked : Repo!TreeOf(m) \in trees
    OBVIOUS
  <2> HIDE DEF trees, missing, marked
  <2>2. \A m \in missing \cup marked : \A o \in Repo!TreeOf(m) : o \in UNION trees
    BY <2>1
  <2> QED
    BY <2>2
<1>4. S = Repo!PutObjects(1, first) \cup Repo!PutObjects(2, missing)
            \cup {Repo!CheckLock(3)} \cup {Repo!Delete(4, "marker", m) : m \in marked}
            \cup (IF refs[n] = c THEN {} ELSE {Repo!Put(5, "ref", n, c)})
  BY DEF Repo!PushSteps
<1>m. missing \subseteq Commit /\ marked \subseteq Commit
      /\ (\A m \in missing : m \notin objects) /\ (\A m \in marked : m \in objects)
      /\ (c \in objects \/ c \in missing)
  BY <1>1
<1> HIDE DEF S, first, missing, marked, offered
<1>5. ASSUME NEW q \in S
      PROVE  /\ q.at \in 1..5 /\ q.weight = 0 /\ q.then = {} /\ q \in Repo!Request
             /\ \/ q.at = 1 /\ q.do = "put" /\ q.what = "object" /\ q.key \in first
                \/ q.at = 2 /\ q.do = "put" /\ q.what = "object" /\ q.key \in missing
                \/ q.at = 3 /\ q.do = "check" /\ q.what = "lock"
                \/ q.at = 4 /\ q.do = "delete" /\ q.what = "marker" /\ q.key \in marked
                \/ /\ q.at = 5 /\ q.do = "put" /\ q.what = "ref" /\ q.key = n
                   /\ q.value = c
  <2>1. CASE \E o \in first : q = Repo!Put(1, "object", o, None)
    BY <2>1, <1>2 DEF Repo!Put, Repo!Request, Repo!Object
  <2>2. CASE \E m \in missing : q = Repo!Put(2, "object", m, None)
    BY <2>2, <1>m DEF Repo!Put, Repo!Request, Repo!Object
  <2>3. CASE q = Repo!CheckLock(3)
    BY <2>3 DEF Repo!CheckLock, Repo!Request
  <2>4. CASE \E m \in marked : q = Repo!Delete(4, "marker", m)
    BY <2>4, <1>m DEF Repo!Delete, Repo!Request, Repo!Object
  <2>5. CASE q = Repo!Put(5, "ref", n, c)
    BY <2>5 DEF Repo!Put, Repo!Request
  <2> QED
    BY <1>4, <1>5, <2>1, <2>2, <2>3, <2>4, <2>5 DEF Repo!PutObjects
<1>6. /\ \A o \in first : \E q \in S : q.at = 1 /\ Repo!Is(q, "put", "object") /\ q.key = o
      /\ \A m \in missing : \E q \in S : q.at = 2 /\ Repo!Is(q, "put", "object") /\ q.key = m
  <2>1. \A o \in first : Repo!Put(1, "object", o, None) \in S
    BY <1>4 DEF Repo!PutObjects
  <2>2. \A m \in missing : Repo!Put(2, "object", m, None) \in S
    BY <1>4 DEF Repo!PutObjects
  <2> QED
    BY <2>1, <2>2 DEF Repo!Put, Repo!Is
<1>7. Repo!Formed(S)
  BY <1>2, <1>5, <1>m DEF Repo!Formed, Repo!Object
<1>8. Repo!OneSided(S)
  BY <1>5 DEF Repo!OneSided, Repo!Is
<1>9. Repo!PutsWhole(S)
  <2> SUFFICES ASSUME NEW q \in S, Repo!Is(q, "put", "object"), q.key \in Commit,
                      NEW o \in Repo!TreeOf(q.key), o \notin objects
               PROVE  Repo!Earlier(S, q, "put", "object", o)
    BY DEF Repo!PutsWhole
  <2>1. q.at = 2 /\ q.key \in missing
    BY <1>2, <1>5, RepoConstants DEF Repo!Is
  <2> QED
    BY <2>1, <1>3, <1>6 DEF Repo!Earlier
<1>10. Repo!DeletesLoose(S)
  BY <1>5 DEF Repo!DeletesLoose, Repo!Is
<1>11. Repo!UnmarksWhole(S)
  <2> SUFFICES ASSUME NEW q \in S, Repo!Is(q, "delete", "marker")
               PROVE  \A o \in Repo!TreeOf(q.key) :
                        /\ o \in objects \/ Repo!Earlier(S, q, "put", "object", o)
                        /\ ~Repo!Has(S, "delete", "object", o)
    BY DEF Repo!UnmarksWhole
  <2>1. q.at = 4 /\ q.key \in marked
    BY <1>5 DEF Repo!Is
  <2>2. \A o : ~Repo!Has(S, "delete", "object", o)
    BY <1>5 DEF Repo!Has, Repo!Is
  <2>3. \A o \in first : Repo!Earlier(S, q, "put", "object", o)
    BY <2>1, <1>6 DEF Repo!Earlier
  <2> QED
    BY <2>1, <2>2, <2>3, <1>3
<1>12. Repo!NamesHeld(S, "push")
  <2>1. \A q \in S : ~Repo!Is(q, "delete", "object") /\ ~Repo!Is(q, "put", "summary")
    BY <1>5 DEF Repo!Is
  <2>2. ASSUME NEW q \in S, Repo!Is(q, "put", "ref"), q.value \notin objects
        PROVE  Repo!Earlier(S, q, "put", "object", q.value)
    <3>1. q.at = 5 /\ q.value = c
      BY <2>2, <1>5 DEF Repo!Is
    <3> QED
      BY <2>2, <3>1, <1>m, <1>6 DEF Repo!Earlier
  <2> QED
    BY <2>1, <2>2 DEF Repo!NamesHeld
<1> QED
  BY <1>5, <1>7, <1>8, <1>9, <1>10, <1>11, <1>12 DEF S, Repo!Safe

\* The cardinality of the instance Repo is that of the theorems that are cited.
LEMMA SameCount == \A S : Repo!Cardinality(S) = Cardinality(S)
PROOF
  BY DEF Repo!Cardinality, Cardinality, IsFiniteSet, Repo!IsFiniteSet

\* The finite sets of the instance Repo are those of the theorems that are cited.
LEMMA SameFinite == \A S : Repo!IsFiniteSet(S) <=> IsFiniteSet(S)
PROOF
  BY DEF IsFiniteSet, Repo!IsFiniteSet

\* The metadata of one commit is at most one object.
LEMMA OneMeta ==
  ASSUME NEW c, NEW S, NEW X, X = Repo!MetasOf({c}) \cap S
  PROVE  \/ X = {} /\ Cardinality(X) = 0
         \/ \E m \in Repo!Meta : X = {m} /\ Cardinality(X) = 1
PROOF
<1>1. X \subseteq {MetaOf[c]} /\ X \subseteq Repo!Meta
  BY MetasAreMeta DEF Repo!MetasOf
<1>2. X = {} \/ X = {MetaOf[c]}
  BY <1>1
<1> QED
  BY <1>1, <1>2, FS_EmptySet, FS_Singleton

\* The fields of an item.
LEMMA ItemFields ==
  ASSUME NEW at, NEW what, NEW key, NEW metas, NEW q, q = Repo!Item(at, what, key, metas)
  PROVE  /\ q.at = at /\ q.do = "delete" /\ q.what = what /\ q.key = key /\ q.value = None
         /\ q.weight = 1 + Cardinality(metas) /\ q.then = metas
         /\ q = [at |-> at, do |-> "delete", what |-> what, key |-> key, value |-> None,
                 weight |-> 1 + Cardinality(metas), then |-> metas]
PROOF
<1>1. Repo!Cardinality(metas) = Cardinality(metas)
  BY SameCount
<1> QED
  BY <1>1 DEF Repo!Item

\* The requests of a prune.
LEMMA PruneSafe ==
  ASSUME Repo!TypeOK, NEW alone \in BOOLEAN, NEW k
  PROVE  /\ Repo!PruneSteps(alone, k) \in SUBSET Repo!Request
         /\ Repo!Formed(Repo!PruneSteps(alone, k))
         /\ Repo!Begun(Repo!PruneSteps(alone, k)) = {}
         /\ Repo!CommitHasTree /\ ~strayed => Repo!Safe(Repo!PruneSteps(alone, k), "prune")
PROOF
<1> DEFINE S == Repo!PruneSteps(alone, k)
           keep == Repo!Roots(alone, k)
           doomed == (Commit \cap objects) \ keep
           orphan == (objects \cap Repo!Meta) \ Repo!MetasOf(keep \cup objects)
           content == (Tree \cap objects) \ Repo!Kept(keep)
           loose == marker \ (objects \ doomed)
           metas(c) == Repo!MetasOf({c}) \cap objects
           A == {Repo!Item(2, "object", c, metas(c)) : c \in doomed}
           B == {Repo!Item(3, "object", o, {}) : o \in orphan}
           C == {Repo!Item(5, "object", o, {}) : o \in content}
           D == {Repo!Item(7, "marker", c, {}) : c \in loose}
<1>1. /\ S = Repo!CheckFirst(1, A \cup B) \cup Repo!CheckFirst(4, C)
              \cup Repo!CheckFirst(6, D)
  BY DEF Repo!PruneSteps
<1>2. Repo!Named(refs) \cup Repo!Named(summary) \subseteq keep
  BY DEF Repo!Roots
<1>3. \A c \in keep \cap objects :
        /\ RootOf[c] \in Repo!Kept(keep)
        /\ RootOf[c] \in objects => FilesOf[RootOf[c]] \subseteq Repo!Kept(keep)
  BY DEF Repo!Kept
<1>4. /\ doomed \subseteq Commit /\ orphan \subseteq Repo!Meta /\ content \subseteq Tree
      /\ loose \subseteq Commit
      /\ \A c \in doomed : c \notin keep
      /\ \A c \in Commit \cap objects : c \in keep \/ c \in doomed
      /\ \A c \in loose : c \in objects => c \in doomed
      /\ \A o \in content : o \notin Repo!Kept(keep)
  BY DEF Repo!TypeOK
<1> HIDE DEF S, keep, doomed, orphan, content, loose
<1>5. ASSUME NEW q \in S
      PROVE  \/ \E i \in {1, 4, 6} : q = Repo!CheckLock(i)
             \/ q \in A \/ q \in B \/ q \in C \/ q \in D
  <2> HIDE DEF A, B, C, D
  <2> QED
    BY <1>1, <1>5 DEF Repo!CheckFirst
<1>6. A \cup B \cup C \cup D \subseteq S
  <2> HIDE DEF A, B, C, D
  <2> QED
    BY <1>1 DEF Repo!CheckFirst
<1>0. Cardinality({}) = 0
  BY FS_EmptySet
<1>7. ASSUME NEW q \in S
      PROVE  /\ q.at \in 1..7 /\ q \in Repo!Request
             /\ \/ q.do = "check" /\ q.what = "lock" /\ q.weight = 0 /\ q.then = {}
                \/ /\ q.at = 2 /\ q.do = "delete" /\ q.what = "object" /\ q.key \in doomed
                   /\ \/ q.then = {} /\ q.weight = 1
                      \/ \E m \in Repo!Meta : q.then = {m} /\ q.weight = 2
                \/ /\ q.at = 3 /\ q.do = "delete" /\ q.what = "object" /\ q.key \in orphan
                   /\ q.then = {} /\ q.weight = 1
                \/ /\ q.at = 5 /\ q.do = "delete" /\ q.what = "object" /\ q.key \in content
                   /\ q.then = {} /\ q.weight = 1
                \/ /\ q.at = 7 /\ q.do = "delete" /\ q.what = "marker" /\ q.key \in loose
                   /\ q.then = {} /\ q.weight = 1
  <2>1. CASE \E i \in {1, 4, 6} : q = Repo!CheckLock(i)
    BY <2>1 DEF Repo!CheckLock, Repo!Request
  <2>2. CASE q \in A
    <3>1. PICK c \in doomed : q = Repo!Item(2, "object", c, metas(c))
      BY <2>2
    <3>2. /\ q.at = 2 /\ q.do = "delete" /\ q.what = "object" /\ q.key = c
          /\ q.weight = 1 + Cardinality(metas(c)) /\ q.then = metas(c)
      <4> HIDE DEF metas
      <4> QED
        BY <3>1, ItemFields
    <3>3. \/ metas(c) = {} /\ Cardinality(metas(c)) = 0
          \/ \E m \in Repo!Meta : metas(c) = {m} /\ Cardinality(metas(c)) = 1
      BY OneMeta
    <3>4. q = [at |-> 2, do |-> "delete", what |-> "object", key |-> c, value |-> None,
               weight |-> 1 + Cardinality(metas(c)), then |-> metas(c)]
      <4> HIDE DEF metas
      <4> QED
        BY <3>1, ItemFields
    <3> HIDE DEF metas
    <3>5. metas(c) \in SUBSET Repo!Meta /\ 1 + Cardinality(metas(c)) \in Nat
      BY <3>3
    <3>6. q \in Repo!Request
      BY <3>4, <3>5, <1>4 DEF Repo!Request, Repo!Object
    <3> QED
      BY <3>2, <3>3, <3>6
  <2>3. CASE q \in B
    <3>1. PICK o \in orphan : q = Repo!Item(3, "object", o, {})
      BY <2>3
    <3> QED
      BY <3>1, <1>0, <1>4, ItemFields DEF Repo!Request, Repo!Object
  <2>4. CASE q \in C
    <3>1. PICK o \in content : q = Repo!Item(5, "object", o, {})
      BY <2>4
    <3> QED
      BY <3>1, <1>0, <1>4, ItemFields DEF Repo!Request, Repo!Object
  <2>5. CASE q \in D
    <3>1. PICK c \in loose : q = Repo!Item(7, "marker", c, {})
      BY <2>5
    <3> QED
      BY <3>1, <1>0, <1>4, ItemFields DEF Repo!Request, Repo!Object
  <2> HIDE DEF A, B, C, D
  <2> QED
    BY <1>5, <2>1, <2>2, <2>3, <2>4, <2>5
<1>8. \A c \in doomed : \E q \in S : q.at = 2 /\ Repo!Is(q, "delete", "object") /\ q.key = c
  <2> SUFFICES ASSUME NEW c \in doomed
               PROVE  \E q \in S : q.at = 2 /\ Repo!Is(q, "delete", "object") /\ q.key = c
    OBVIOUS
  <2>1. Repo!Item(2, "object", c, metas(c)) \in S
    BY <1>6
  <2> QED
    BY <2>1, ItemFields DEF Repo!Is
<1> HIDE DEF A, B, C, D, metas
<1>9. Repo!Formed(S)
  BY <1>7, <1>4 DEF Repo!Formed, Repo!Object, Repo!Is
<1>10. Repo!Begun(S) = {}
  BY <1>7 DEF Repo!Begun
<1>11. ASSUME Repo!CommitHasTree, ~strayed
       PROVE  Repo!Safe(S, "prune")
  <2>1. Repo!OneSided(S)
    BY <1>7 DEF Repo!OneSided, Repo!Is
  <2>2. Repo!PutsWhole(S)
    BY <1>7 DEF Repo!PutsWhole, Repo!Is
  <2>3. Repo!DeletesLoose(S)
    <3> SUFFICES ASSUME NEW q \in S, Repo!Is(q, "delete", "object"),
                        NEW c \in Commit \cap objects, q.key \in Repo!TreeOf(c)
                 PROVE  \/ Repo!Earlier(S, q, "delete", "object", c)
                        \/ c \in marker /\ ~Repo!Has(S, "delete", "marker", c)
      BY DEF Repo!DeletesLoose
    <3>1. q.key \in Tree
      BY TreeIsTree
    <3>2. q.at = 5 /\ q.key \in content
      BY <3>1, <1>4, <1>7, RepoConstants DEF Repo!Is
    <3>3. CASE c \in doomed
      BY <3>2, <3>3, <1>8 DEF Repo!Earlier
    <3>4. CASE c \notin doomed
      <4>1. c \in keep \cap objects
        BY <3>4, <1>4
      <4>2. RootOf[c] \notin objects
        BY <3>2, <4>1, <1>3, <1>4 DEF Repo!TreeOf
      <4>3. c \in marker
        BY <4>2, <1>11 DEF Repo!CommitHasTree, Repo!TreeOf
      <4>4. ~Repo!Has(S, "delete", "marker", c)
        BY <3>4, <1>4, <1>7 DEF Repo!Has, Repo!Is
      <4> QED
        BY <4>3, <4>4
    <3> QED
      BY <3>3, <3>4
  <2>4. Repo!UnmarksWhole(S)
    <3> SUFFICES ASSUME NEW q \in S, Repo!Is(q, "delete", "marker")
                 PROVE  \/ q.key \notin objects /\ ~Repo!Has(S, "put", "object", q.key)
                        \/ Repo!Earlier(S, q, "delete", "object", q.key)
      BY DEF Repo!UnmarksWhole
    <3>1. q.at = 7 /\ q.key \in loose
      BY <1>7 DEF Repo!Is
    <3>2. ~Repo!Has(S, "put", "object", q.key)
      BY <1>7 DEF Repo!Has, Repo!Is
    <3> QED
      BY <3>1, <3>2, <1>4, <1>8 DEF Repo!Earlier
  <2>5. Repo!NamesHeld(S, "prune")
    <3>1. \A q \in S : ~Repo!Is(q, "put", "ref") /\ ~Repo!Is(q, "put", "summary")
      BY <1>7 DEF Repo!Is
    <3>2. Repo!Named(refs) \cup Repo!Named(summary) \subseteq Commit
      BY NamedIsCommit DEF Repo!TypeOK
    <3>3. \A q \in S : Repo!Is(q, "delete", "object") =>
            q.key \notin Repo!Named(refs) \cup Repo!Named(summary)
      BY <3>2, <1>2, <1>4, <1>7, RepoConstants DEF Repo!Is
    <3> QED
      BY <3>1, <3>3 DEF Repo!NamesHeld
  <2> QED
    BY <2>1, <2>2, <2>3, <2>4, <2>5 DEF Repo!Safe
<1> QED
  BY <1>7, <1>9, <1>10, <1>11 DEF S

\* What the repair of the fsck goes by: a commit that parses has an object
\* of its tree among the faulty ones, or has its whole tree, sound.
LEMMA FaultyTree ==
  ASSUME Repo!TypeOK, NEW c \in Repo!Checked
  PROVE  /\ c \in Repo!Attributed \/ Repo!TreeOf(c) \subseteq Repo!Sound
         /\ c \in Repo!Attributed \/ Repo!TreeOf(c) \cap Repo!Faulty = {}
PROOF
<1> DEFINE all == UNION {Repo!Reached(d) : d \in Repo!Checked}
<1>1. Repo!Reached(c) \subseteq all
  <2> DEFINE reached == {Repo!Reached(d) : d \in Repo!Checked}
  <2>1. Repo!Reached(c) \in reached
    OBVIOUS
  <2> HIDE DEF reached
  <2>2. \A o \in Repo!Reached(c) : o \in UNION reached
    BY <2>1
  <2> QED
    BY <2>2 DEF reached
<1>2. Repo!Faulty = all \ Repo!Sound
  BY DEF Repo!Faulty
<1> HIDE DEF all
<1>3. c \notin Repo!Attributed => Repo!Reached(c) \subseteq Repo!Sound
  BY <1>1, <1>2 DEF Repo!Attributed
<1>4. RootOf[c] \in Repo!Reached(c)
  BY DEF Repo!Reached
<1>5. Repo!Reached(c) \subseteq Repo!Sound => Repo!TreeOf(c) \subseteq Repo!Sound
  BY <1>4 DEF Repo!Reached, Repo!TreeOf
<1> QED
  BY <1>2, <1>3, <1>5

\* The faulty objects are objects of trees.
LEMMA FaultyIsTree == Repo!TypeOK => Repo!Faulty \subseteq Tree
PROOF
<1> SUFFICES ASSUME NEW o \in Repo!Faulty PROVE o \in Tree
  OBVIOUS
<1>1. PICK c \in Repo!Checked : o \in Repo!Reached(c)
  BY DEF Repo!Faulty
<1>2. c \in Commit
  BY <1>1 DEF Repo!Checked
<1> QED
  BY <1>1, <1>2, RepoConstants DEF Repo!Reached

\* The requests of the repair of the fsck.
LEMMA FsckSafe ==
  ASSUME Repo!TypeOK
  PROVE  /\ Repo!FsckSteps \in SUBSET Repo!Request
         /\ Repo!Formed(Repo!FsckSteps)
         /\ Repo!Safe(Repo!FsckSteps, "fsck")
PROOF
<1> DEFINE S == Repo!FsckSteps
           marks == Repo!Attributed \ marker
           sound == (Repo!Checked \cap marker) \ Repo!Attributed
           bad == Commit \cap corrupt
           tree == Repo!Faulty \cap objects
           A == {Repo!Put(2, "marker", c, None) : c \in marks}
           B == {Repo!Delete(3, "marker", c) : c \in sound}
           C == Repo!DeleteObjects(5, bad)
           D == Repo!DeleteObjects(6, tree)
<1>1. S = Repo!CheckFirst(1, A \cup B \cup Repo!CheckFirst(4, C \cup D))
  BY DEF Repo!FsckSteps
<1>2. /\ marks \subseteq Commit /\ sound \subseteq Commit /\ bad \subseteq Commit
      /\ tree \subseteq Tree
      /\ \A c \in sound : Repo!TreeOf(c) \subseteq objects /\ Repo!TreeOf(c) \cap tree = {}
      /\ \A c \in sound : c \notin Repo!Attributed
      /\ tree \subseteq Repo!Faulty
      /\ Repo!Attributed \subseteq marker \cup marks
      /\ \A c \in Commit \cap objects : c \in bad \/ c \in Repo!Checked
  BY FaultyTree, FaultyIsTree DEF Repo!Attributed, Repo!Checked, Repo!Sound, Repo!TypeOK
<1> HIDE DEF S, marks, sound, bad, tree
<1>3. ASSUME NEW q \in S
      PROVE  \/ \E i \in {1, 4} : q = Repo!CheckLock(i)
             \/ q \in A \/ q \in B \/ q \in C \/ q \in D
  <2> HIDE DEF A, B, C, D
  <2> QED
    BY <1>1, <1>3 DEF Repo!CheckFirst
<1>4. A \cup B \cup C \cup D \subseteq S
  <2> HIDE DEF A, B, C, D
  <2> QED
    BY <1>1 DEF Repo!CheckFirst
<1>5. ASSUME NEW q \in S
      PROVE  /\ q.at \in 1..6 /\ q.weight = 0 /\ q.then = {} /\ q \in Repo!Request
             /\ \/ q.do = "check" /\ q.what = "lock"
                \/ q.at = 2 /\ q.do = "put" /\ q.what = "marker" /\ q.key \in marks
                \/ q.at = 3 /\ q.do = "delete" /\ q.what = "marker" /\ q.key \in sound
                \/ q.at = 5 /\ q.do = "delete" /\ q.what = "object" /\ q.key \in bad
                \/ q.at = 6 /\ q.do = "delete" /\ q.what = "object" /\ q.key \in tree
  <2>1. CASE \E i \in {1, 4} : q = Repo!CheckLock(i)
    BY <2>1 DEF Repo!CheckLock, Repo!Request
  <2>2. CASE q \in A
    BY <2>2, <1>2 DEF Repo!Put, Repo!Request, Repo!Object
  <2>3. CASE q \in B
    BY <2>3, <1>2 DEF Repo!Delete, Repo!Request, Repo!Object
  <2>4. CASE q \in C
    BY <2>4, <1>2 DEF Repo!DeleteObjects, Repo!Delete, Repo!Request, Repo!Object
  <2>5. CASE q \in D
    BY <2>5, <1>2 DEF Repo!DeleteObjects, Repo!Delete, Repo!Request, Repo!Object
  <2> HIDE DEF A, B, C, D
  <2> QED
    BY <1>3, <2>1, <2>2, <2>3, <2>4, <2>5
<1>6. /\ \A c \in marks : \E q \in S : q.at = 2 /\ Repo!Is(q, "put", "marker") /\ q.key = c
      /\ \A c \in bad : \E q \in S : q.at = 5 /\ Repo!Is(q, "delete", "object") /\ q.key = c
  <2>1. \A c \in marks : Repo!Put(2, "marker", c, None) \in S
    BY <1>4
  <2>2. \A c \in bad : Repo!Delete(5, "object", c) \in S
    BY <1>4 DEF Repo!DeleteObjects
  <2> HIDE DEF A, B, C, D
  <2> QED
    BY <2>1, <2>2 DEF Repo!Put, Repo!Delete, Repo!Is
<1> HIDE DEF A, B, C, D
<1>7. Repo!Formed(S)
  BY <1>5, <1>2 DEF Repo!Formed, Repo!Object
<1>8. Repo!OneSided(S)
  BY <1>5 DEF Repo!OneSided, Repo!Is
<1>9. Repo!PutsWhole(S)
  BY <1>5 DEF Repo!PutsWhole, Repo!Is
<1>10. Repo!DeletesLoose(S)
  <2> SUFFICES ASSUME NEW q \in S, Repo!Is(q, "delete", "object"),
                      NEW c \in Commit \cap objects, q.key \in Repo!TreeOf(c)
               PROVE  \/ Repo!Earlier(S, q, "delete", "object", c)
                      \/ /\ c \in marker \/ Repo!Earlier(S, q, "put", "marker", c)
                         /\ ~Repo!Has(S, "delete", "marker", c)
    BY DEF Repo!DeletesLoose
  <2>1. q.at = 6 /\ q.key \in tree
    BY <1>2, <1>5, TreeIsTree, RepoConstants DEF Repo!Is
  <2>2. CASE c \in bad
    BY <2>1, <2>2, <1>6 DEF Repo!Earlier
  <2>3. CASE c \in Repo!Checked
    <3>1. c \in Repo!Attributed
      BY <2>1, <2>3, <1>2, FaultyTree
    <3>2. ~Repo!Has(S, "delete", "marker", c)
      BY <3>1, <1>2, <1>5 DEF Repo!Has, Repo!Is
    <3> QED
      BY <2>1, <3>1, <3>2, <1>2, <1>6 DEF Repo!Earlier
  <2> QED
    BY <2>2, <2>3, <1>2
<1>11. Repo!UnmarksWhole(S)
  <2> SUFFICES ASSUME NEW q \in S, Repo!Is(q, "delete", "marker"),
                      NEW o \in Repo!TreeOf(q.key)
               PROVE  o \in objects /\ ~Repo!Has(S, "delete", "object", o)
    BY DEF Repo!UnmarksWhole
  <2>1. q.key \in sound
    BY <1>5 DEF Repo!Is
  <2>2. o \in Tree
    BY <2>1, <1>2, TreeIsTree
  <2>3. ~Repo!Has(S, "delete", "object", o)
    BY <2>1, <2>2, <1>2, <1>5, RepoConstants DEF Repo!Has, Repo!Is
  <2> QED
    BY <2>1, <2>3, <1>2
<1>12. Repo!NamesHeld(S, "fsck")
  BY <1>5 DEF Repo!NamesHeld, Repo!Is
<1> QED
  BY <1>5, <1>7, <1>8, <1>9, <1>10, <1>11, <1>12 DEF S, Repo!Safe

\* The requests of the update of the summary.
LEMMA SummarySafe ==
  ASSUME Repo!TypeOK, NEW signed \in BOOLEAN, Repo!SummaryAllowed(signed)
  PROVE  /\ Repo!SummarySteps(signed) \in SUBSET Repo!Request
         /\ Repo!Formed(Repo!SummarySteps(signed))
         /\ Repo!Safe(Repo!SummarySteps(signed), "summary")
PROOF
<1> DEFINE S == Repo!SummarySteps(signed)
<1>1. ASSUME NEW q \in S
      PROVE  /\ q.weight = 0 /\ q.then = {} /\ q \in Repo!Request
             /\ \/ q.do = "check" /\ q.what = "lock"
                \/ q.do = "put" /\ q.what \in {"summary", "sig"} /\ q.value = refs
  <2>0. refs \in Repo!RefSet
    BY DEF Repo!TypeOK
  <2>1. \/ q = Repo!CheckLock(1) \/ q = Repo!Put(2, "summary", None, refs)
        \/ q = Repo!Put(3, "sig", None, refs)
    BY <1>1 DEF Repo!SummarySteps
  <2> QED
    BY <2>0, <2>1 DEF Repo!CheckLock, Repo!Put, Repo!Request
<1>2. Repo!Named(refs) \subseteq objects /\ refs \in Repo!RefSet
  BY DEF Repo!SummaryAllowed, Repo!Sound, Repo!TypeOK
<1> HIDE DEF S
<1>3. Repo!Formed(S)
  BY <1>1, <1>2 DEF Repo!Formed
<1>4. /\ Repo!OneSided(S) /\ Repo!PutsWhole(S) /\ Repo!DeletesLoose(S)
      /\ Repo!UnmarksWhole(S)
  BY <1>1 DEF Repo!OneSided, Repo!PutsWhole, Repo!DeletesLoose, Repo!UnmarksWhole, Repo!Is
<1>5. Repo!NamesHeld(S, "summary")
  BY <1>1, <1>2 DEF Repo!NamesHeld, Repo!Is
<1> QED
  BY <1>1, <1>3, <1>4, <1>5 DEF S, Repo!Safe

-----------------------------------------------------------------------------
\* The bucket stays what the safety of the requests is about.
Quiet == UNCHANGED <<objects, marker, refs, summary, strayed, repaired>>

\* Requests stay safe while the bucket stays.
LEMMA QuietSafe ==
  ASSUME NEW T, NEW kind, UNCHANGED <<objects, marker, refs, summary>>
  PROVE  Repo!Safe(T, kind) <=> Repo!Safe(T, kind)'
PROOF
  BY DEF Repo!Safe, Repo!OneSided, Repo!PutsWhole, Repo!DeletesLoose, Repo!UnmarksWhole,
         Repo!NamesHeld, Repo!Named

\* Commits and names stay held while the bucket stays.
LEMMA QuietHeld ==
  ASSUME Repo!Inv, Quiet
  PROVE  Repo!CommitHasTree' /\ Repo!NamedCommitHeld'
PROOF
  BY DEF Quiet, Repo!Inv, Repo!CommitHasTree, Repo!NamedCommitHeld, Repo!Named

\* A writer that a step passes over keeps its part of the invariant.
LEMMA OtherKeeps ==
  ASSUME NEW v \in Writer, Repo!WriterInv(v),
         todo'[v] = todo[v], op'[v] = op[v], counted'[v] = counted[v],
         lateDeletes'[v] = lateDeletes[v],
         holder' = v => holder = v,
         holder = v /\ ~strayed' => UNCHANGED <<objects, marker, refs, summary, strayed>>
  PROVE  Repo!WriterInv(v)'
PROOF
<1>1. Repo!Formed(todo[v])'
  BY DEF Repo!WriterInv, Repo!Formed
<1>2. (~Repo!Runs(v) => todo[v] = {} /\ counted[v] = 0)'
  BY DEF Repo!WriterInv, Repo!Runs
<1>3. (holder = v \/ op[v] = "locked" => lateDeletes[v] = 0)'
  BY DEF Repo!WriterInv
<1>4. ASSUME holder' = v, ~strayed'
      PROVE  Repo!Safe(todo[v], op[v])'
  <2> SUFFICES ASSUME NEW T, T = todo[v], NEW kind, kind = op[v]
               PROVE  Repo!Safe(todo[v], op[v])'
    OBVIOUS
  <2>1. Repo!Safe(T, kind)
    BY <1>4 DEF Repo!WriterInv
  <2>2. Repo!Safe(T, kind)'
    BY <2>1, <1>4, QuietSafe
  <2>3. todo'[v] = T /\ op'[v] = kind
    OBVIOUS
  <2> QED
    BY <2>2, <2>3
<1>5. Repo!Counts(v)'
  BY DEF Repo!WriterInv, Repo!Counts, Repo!Ready
<1> QED
  BY <1>1, <1>2, <1>3, <1>4, <1>5 DEF Repo!WriterInv

\* A run that ends, with or without its lock.
LEMMA EndsKeeps ==
  ASSUME Repo!Inv, NEW w \in Writer, Quiet, UNCHANGED <<corrupt, sig, lateDeletes>>,
         op' = [op EXCEPT ![w] = "idle"], todo' = [todo EXCEPT ![w] = {}],
         counted' = [counted EXCEPT ![w] = 0],
         holder' # w, holder' \in {holder, None, "dead"}
  PROVE  Repo!Inv'
PROOF
<1>1. Repo!TypeOK'
  <2>1. /\ todo' \in [Writer -> SUBSET Repo!Request] /\ counted' \in [Writer -> Nat]
        /\ op' \in [Writer -> {"idle", "locked", "push", "prune", "fsck", "summary"}]
        /\ holder' \in Writer \cup {None, "dead"}
    BY DEF Repo!Inv, Repo!TypeOK
  <2> QED
    BY <2>1 DEF Quiet, Repo!Inv, Repo!TypeOK
<1>2. ASSUME NEW v \in Writer, v # w
      PROVE  Repo!WriterInv(v)'
  <2>1. /\ todo'[v] = todo[v] /\ op'[v] = op[v] /\ counted'[v] = counted[v]
    BY <1>2 DEF Repo!Inv, Repo!TypeOK
  <2>2. holder' = v => holder = v
    BY RepoConstants
  <2> QED
    BY <2>1, <2>2, OtherKeeps DEF Quiet, Repo!Inv
<1>3. Repo!WriterInv(w)'
  <2>1. todo'[w] = {} /\ op'[w] = "idle" /\ counted'[w] = 0
    BY DEF Repo!Inv, Repo!TypeOK
  <2> QED
    BY <2>1 DEF Repo!WriterInv, Repo!Formed, Repo!Runs, Repo!Counts
<1> QED
  BY <1>1, <1>2, <1>3, QuietHeld DEF Repo!Inv

\* A writer releases the lock or stops.
LEMMA EndInv ==
  ASSUME Repo!Inv, NEW w \in Writer, Repo!Release(w) \/ Repo!Crash(w)
  PROVE  Repo!Inv'
PROOF
<1>1. holder' # w /\ holder' \in {holder, None, "dead"}
  BY RepoConstants DEF Repo!Release, Repo!Crash
<1> QED
  BY <1>1, EndsKeeps DEF Repo!Release, Repo!Crash, Quiet, Repo!bucket, Repo!history

\* A writer takes the lock, or breaks it.
LEMMA RepoLockInv ==
  ASSUME Repo!Inv, NEW w \in Writer, NEW b \in BOOLEAN, Repo!Lock(w, b)
  PROVE  Repo!Inv'
PROOF
<1>0. /\ op[w] = "idle" /\ holder' = w /\ op' = [op EXCEPT ![w] = "locked"]
      /\ lateDeletes' = [lateDeletes EXCEPT ![w] = 0]
      /\ UNCHANGED <<objects, corrupt, marker, refs, summary, sig, todo, counted, strayed,
                     repaired>>
  BY DEF Repo!Lock, Repo!bucket
<1>q. Quiet
  BY <1>0 DEF Quiet
<1>1. Repo!TypeOK'
  <2>1. /\ op' \in [Writer -> {"idle", "locked", "push", "prune", "fsck", "summary"}]
        /\ lateDeletes' \in [Writer -> Nat]
    BY <1>0 DEF Repo!Inv, Repo!TypeOK
  <2> QED
    BY <1>0, <2>1 DEF Repo!Inv, Repo!TypeOK
<1>2. ASSUME NEW v \in Writer, v # w
      PROVE  Repo!WriterInv(v)'
  <2>1. op'[v] = op[v] /\ lateDeletes'[v] = lateDeletes[v]
    BY <1>0, <1>2 DEF Repo!Inv, Repo!TypeOK
  <2> QED
    BY <1>0, <1>2, <2>1, OtherKeeps DEF Repo!Inv
<1>3. Repo!WriterInv(w)'
  <2>1. todo[w] = {} /\ counted[w] = 0
    BY <1>0 DEF Repo!Inv, Repo!WriterInv, Repo!Runs
  <2>2. todo'[w] = {} /\ op'[w] = "locked" /\ lateDeletes'[w] = 0 /\ counted'[w] = 0
    BY <1>0, <2>1 DEF Repo!Inv, Repo!TypeOK
  <2>3. Repo!Safe(todo[w], op[w])'
    BY <2>2 DEF Repo!Safe, Repo!OneSided, Repo!PutsWhole, Repo!DeletesLoose,
                Repo!UnmarksWhole, Repo!NamesHeld
  <2> QED
    BY <2>2, <2>3 DEF Repo!WriterInv, Repo!Formed, Repo!Runs, Repo!Counts
<1> QED
  BY <1>1, <1>2, <1>3, <1>q, QuietHeld DEF Repo!Inv

\* The bytes of an object go bad.
LEMMA RotInv ==
  ASSUME Repo!Inv, Repo!Rot
  PROVE  Repo!Inv'
PROOF
<1>0. /\ corrupt' \subseteq objects
      /\ UNCHANGED <<objects, marker, refs, summary, sig, holder, op, todo, counted, runs,
                     strayed, lateDeletes, repaired>>
  BY DEF Repo!Rot, Repo!history, Repo!Inv, Repo!TypeOK
<1>q. Quiet
  BY <1>0 DEF Quiet
<1>1. Repo!TypeOK'
  BY <1>0 DEF Repo!Inv, Repo!TypeOK
<1>2. ASSUME NEW v \in Writer PROVE Repo!WriterInv(v)'
  BY <1>0, OtherKeeps DEF Repo!Inv
<1> QED
  BY <1>1, <1>2, <1>q, QuietHeld DEF Repo!Inv

\* A run that begins with requests that are safe.
LEMMA BeginKeeps ==
  ASSUME Repo!Inv, NEW w \in Writer, NEW kind \in {"push", "prune", "fsck", "summary"},
         NEW S \in SUBSET Repo!Request, NEW allowed, Repo!Begin(w, kind, allowed, S),
         Repo!Formed(S), kind = "prune" => Repo!Begun(S) = {},
         ~strayed => Repo!Safe(S, kind)
  PROVE  Repo!Inv'
PROOF
<1>0. /\ op[w] = "locked" /\ op' = [op EXCEPT ![w] = kind]
      /\ todo' = [todo EXCEPT ![w] = S]
      /\ UNCHANGED <<objects, corrupt, marker, refs, summary, sig, holder, counted,
                     strayed, lateDeletes, repaired>>
  BY DEF Repo!Begin, Repo!bucket, Repo!history
<1>q. Quiet
  BY <1>0 DEF Quiet
<1>1. Repo!TypeOK'
  <2>1. /\ op' \in [Writer -> {"idle", "locked", "push", "prune", "fsck", "summary"}]
        /\ todo' \in [Writer -> SUBSET Repo!Request]
    BY <1>0 DEF Repo!Inv, Repo!TypeOK
  <2> QED
    BY <1>0, <2>1 DEF Repo!Inv, Repo!TypeOK
<1>2. ASSUME NEW v \in Writer, v # w
      PROVE  Repo!WriterInv(v)'
  <2>1. op'[v] = op[v] /\ todo'[v] = todo[v]
    BY <1>0, <1>2 DEF Repo!Inv, Repo!TypeOK
  <2> QED
    BY <1>0, <1>2, <2>1, OtherKeeps DEF Repo!Inv
<1>3. Repo!WriterInv(w)'
  <2>1. counted[w] = 0 /\ lateDeletes[w] = 0
    BY <1>0 DEF Repo!Inv, Repo!WriterInv, Repo!Runs
  <2>2. todo'[w] = S /\ op'[w] = kind /\ lateDeletes'[w] = 0 /\ counted'[w] = 0
    BY <1>0, <2>1 DEF Repo!Inv, Repo!TypeOK
  <2>3. ~strayed' => Repo!Safe(todo[w], op[w])'
    <3>1. ~strayed => Repo!Safe(S, kind)'
      BY <1>0, QuietSafe
    <3> QED
      BY <3>1, <2>2, <1>0
  <2>4. Repo!Formed(todo[w])'
    BY <2>2 DEF Repo!Formed
  <2>5. Repo!Counts(w)'
    <3>1. ASSUME kind = "prune" PROVE Repo!Begun(todo'[w]) = {}
      BY <2>2, <3>1
    <3>2. Repo!IsFiniteSet({}) /\ Repo!Cardinality({}) = 0
      BY SameFinite, SameCount, FS_EmptySet
    <3>3. 0 <= (IF CheckInterval > 2 THEN CheckInterval ELSE 2)
      BY RepoConstants
    <3> QED
      BY <2>2, <3>1, <3>2, <3>3 DEF Repo!Counts
  <2> QED
    BY <2>2, <2>3, <2>4, <2>5 DEF Repo!WriterInv, Repo!Runs
<1> QED
  BY <1>1, <1>2, <1>3, <1>q, QuietHeld DEF Repo!Inv

\* A run begins: what each kind of run plans is safe.
LEMMA RepoBeginInv ==
  ASSUME Repo!Inv, NEW w \in Writer,
         Repo!Push(w) \/ Repo!Prune(w) \/ Repo!Fsck(w) \/ Repo!Summary(w)
  PROVE  Repo!Inv'
PROOF
<1>0. Repo!TypeOK /\ Repo!CommitHasTree
  BY DEF Repo!Inv
<1>1. CASE Repo!Push(w)
  <2>1. PICK n \in Name, c \in Commit : \E k \in 0..Len(History[c]) :
          Repo!Begin(w, "push", Repo!PushAllowed(n, c, k), Repo!PushSteps(n, c, k))
    BY <1>1 DEF Repo!Push
  <2>2. PICK k \in 0..Len(History[c]) :
          Repo!Begin(w, "push", Repo!PushAllowed(n, c, k), Repo!PushSteps(n, c, k))
    BY <2>1
  <2>3. /\ Repo!PushSteps(n, c, k) \in SUBSET Repo!Request
        /\ Repo!Formed(Repo!PushSteps(n, c, k))
        /\ Repo!Safe(Repo!PushSteps(n, c, k), "push")
    BY <1>0, PushSafe
  <2> SUFFICES ASSUME NEW S, S = Repo!PushSteps(n, c, k),
                      NEW allowed, allowed = Repo!PushAllowed(n, c, k)
               PROVE  Repo!Inv'
    OBVIOUS
  <2>4. Repo!Begin(w, "push", allowed, S) /\ S \in SUBSET Repo!Request
        /\ Repo!Formed(S) /\ Repo!Safe(S, "push")
    BY <2>2, <2>3
  <2> QED
    BY <2>4, BeginKeeps
<1>2. CASE Repo!Prune(w)
  <2>1. PICK alone \in BOOLEAN, k \in 0..1 :
          Repo!Begin(w, "prune", Repo!PruneAllowed(alone, k), Repo!PruneSteps(alone, k))
    BY <1>2 DEF Repo!Prune
  <2>3. /\ Repo!PruneSteps(alone, k) \in SUBSET Repo!Request
        /\ Repo!Formed(Repo!PruneSteps(alone, k))
        /\ Repo!Begun(Repo!PruneSteps(alone, k)) = {}
        /\ ~strayed => Repo!Safe(Repo!PruneSteps(alone, k), "prune")
    BY <1>0, PruneSafe
  <2> SUFFICES ASSUME NEW S, S = Repo!PruneSteps(alone, k),
                      NEW allowed, allowed = Repo!PruneAllowed(alone, k)
               PROVE  Repo!Inv'
    OBVIOUS
  <2>4. Repo!Begin(w, "prune", allowed, S) /\ S \in SUBSET Repo!Request
        /\ Repo!Formed(S) /\ Repo!Begun(S) = {} /\ (~strayed => Repo!Safe(S, "prune"))
    BY <2>1, <2>3
  <2> QED
    BY <2>4, BeginKeeps
<1>3. CASE Repo!Fsck(w)
  <2>1. Repo!Begin(w, "fsck", TRUE, Repo!FsckSteps)
    BY <1>3 DEF Repo!Fsck
  <2>3. /\ Repo!FsckSteps \in SUBSET Repo!Request /\ Repo!Formed(Repo!FsckSteps)
        /\ Repo!Safe(Repo!FsckSteps, "fsck")
    BY <1>0, FsckSafe
  <2> SUFFICES ASSUME NEW S, S = Repo!FsckSteps
               PROVE  Repo!Inv'
    OBVIOUS
  <2>4. Repo!Begin(w, "fsck", TRUE, S) /\ S \in SUBSET Repo!Request
        /\ Repo!Formed(S) /\ Repo!Safe(S, "fsck")
    BY <2>1, <2>3
  <2> QED
    BY <2>4, BeginKeeps
<1>4. CASE Repo!Summary(w)
  <2>1. PICK signed \in BOOLEAN :
          Repo!Begin(w, "summary", Repo!SummaryAllowed(signed), Repo!SummarySteps(signed))
    BY <1>4 DEF Repo!Summary
  <2>2. Repo!SummaryAllowed(signed)
    BY <2>1 DEF Repo!Begin
  <2>3. /\ Repo!SummarySteps(signed) \in SUBSET Repo!Request
        /\ Repo!Formed(Repo!SummarySteps(signed))
        /\ Repo!Safe(Repo!SummarySteps(signed), "summary")
    BY <1>0, <2>2, SummarySafe
  <2> SUFFICES ASSUME NEW S, S = Repo!SummarySteps(signed),
                      NEW allowed, allowed = Repo!SummaryAllowed(signed)
               PROVE  Repo!Inv'
    OBVIOUS
  <2>4. Repo!Begin(w, "summary", allowed, S) /\ S \in SUBSET Repo!Request
        /\ Repo!Formed(S) /\ Repo!Safe(S, "summary")
    BY <2>1, <2>3
  <2> QED
    BY <2>4, BeginKeeps
<1> QED
  BY <1>1, <1>2, <1>3, <1>4

\* A check that is done leaves the other requests as safe as they were.
LEMMA CheckedSafe ==
  ASSUME NEW T, NEW U, NEW kind, Repo!Safe(T, kind), U \subseteq T,
         \A q \in T \ U : q.do = "check"
  PROVE  Repo!Safe(U, kind)
PROOF
<1>1. \A q \in T : q \in U \/ q.do = "check"
  OBVIOUS
<1>2. \A q, wh, k : Repo!Earlier(T, q, "put", wh, k) => Repo!Earlier(U, q, "put", wh, k)
  BY <1>1 DEF Repo!Earlier, Repo!Is
<1>3. \A q, wh, k : Repo!Earlier(T, q, "delete", wh, k) => Repo!Earlier(U, q, "delete", wh, k)
  BY <1>1 DEF Repo!Earlier, Repo!Is
<1>4. \A d, wh, k : Repo!Has(U, d, wh, k) => Repo!Has(T, d, wh, k)
  BY DEF Repo!Has
<1>5. Repo!OneSided(U)
  BY DEF Repo!Safe, Repo!OneSided
<1>6. Repo!PutsWhole(U)
  BY <1>2 DEF Repo!Safe, Repo!PutsWhole
<1>7. Repo!DeletesLoose(U)
  BY <1>2, <1>3, <1>4 DEF Repo!Safe, Repo!DeletesLoose
<1>8. Repo!UnmarksWhole(U)
  BY <1>2, <1>3, <1>4 DEF Repo!Safe, Repo!UnmarksWhole
<1>9. Repo!NamesHeld(U, kind)
  BY <1>2 DEF Repo!Safe, Repo!NamesHeld
<1> QED
  BY <1>5, <1>6, <1>7, <1>8, <1>9 DEF Repo!Safe

\* A check of the lock.
LEMMA RepoCheckInv ==
  ASSUME Repo!Inv, NEW w \in Writer, Repo!Check(w)
  PROVE  Repo!Inv'
PROOF
<1>0. /\ counted' = [counted EXCEPT ![w] = 0]
      /\ UNCHANGED <<objects, corrupt, marker, refs, summary, sig, holder, runs, strayed,
                     lateDeletes, repaired>>
  BY DEF Repo!Check, Repo!bucket, Repo!history
<1>q. Quiet
  BY <1>0 DEF Quiet
<1>1. CASE holder # w
  <2>1. todo' = [todo EXCEPT ![w] = {}] /\ op' = [op EXCEPT ![w] = "idle"]
    BY <1>1 DEF Repo!Check
  <2> QED
    BY <1>0, <1>1, <1>q, <2>1, EndsKeeps
<1>2. CASE holder = w
  <2>0. /\ todo' = [todo EXCEPT ![w] = @ \ {r \in Repo!Ready(w) : r.do = "check"}]
        /\ op' = op /\ Repo!Runs(w)
        /\ \A r \in Repo!Ready(w) : r.do = "check" \/ r.weight > 0
    BY <1>2 DEF Repo!Check
  <2> DEFINE U == todo[w] \ {r \in Repo!Ready(w) : r.do = "check"}
  <2>u. /\ todo'[w] = U /\ counted'[w] = 0 /\ todo[w] \in SUBSET Repo!Request
        /\ U \subseteq todo[w] /\ (\A q \in todo[w] \ U : q.do = "check")
    BY <1>0, <2>0 DEF Repo!Inv, Repo!TypeOK
  <2>1. Repo!TypeOK'
    <3>1. todo' \in [Writer -> SUBSET Repo!Request] /\ counted' \in [Writer -> Nat]
      BY <1>0, <2>0 DEF Repo!Inv, Repo!TypeOK
    <3> QED
      BY <1>0, <2>0, <3>1 DEF Repo!Inv, Repo!TypeOK
  <2>2. ASSUME NEW v \in Writer, v # w
        PROVE  Repo!WriterInv(v)'
    <3>1. todo'[v] = todo[v] /\ counted'[v] = counted[v]
      BY <1>0, <2>0, <2>2 DEF Repo!Inv, Repo!TypeOK
    <3> QED
      BY <1>0, <2>0, <3>1, OtherKeeps DEF Repo!Inv
  <2>3. Repo!WriterInv(w)'
    <3>0. Repo!WriterInv(w)
      BY DEF Repo!Inv
    <3>1. Repo!Formed(todo[w])'
      BY <2>u, <3>0 DEF Repo!WriterInv, Repo!Formed
    <3>2. lateDeletes'[w] = 0 /\ lateDeletes[w] = 0
      BY <1>0, <1>2, <3>0 DEF Repo!WriterInv
    <3>3. ASSUME ~strayed' PROVE Repo!Safe(todo[w], op[w])'
      <4> SUFFICES ASSUME NEW T, T = todo[w], NEW V, V = todo'[w], NEW kind, kind = op[w]
                   PROVE  Repo!Safe(todo[w], op[w])'
        OBVIOUS
      <4>1. Repo!Safe(T, kind)
        BY <1>0, <1>2, <3>0, <3>3 DEF Repo!WriterInv
      <4>2. V \subseteq T /\ \A q \in T \ V : q.do = "check"
        BY <2>u
      <4> HIDE DEF U
      <4>3. Repo!Safe(V, kind)
        BY <4>1, <4>2, CheckedSafe
      <4>4. Repo!Safe(V, kind)'
        BY <4>3, <1>0, QuietSafe
      <4>5. todo'[w] = V /\ op'[w] = kind
        BY <2>0
      <4> QED
        BY <4>4, <4>5
    <3>4. Repo!Counts(w)'
      <4> SUFFICES ASSUME op'[w] = "prune"
                   PROVE  /\ Repo!Begun(todo'[w]) = {}
                          /\ lateDeletes'[w] + 0 <= counted'[w]
                          /\ counted'[w] <= (IF CheckInterval > 2 THEN CheckInterval ELSE 2)
        <5>1. Repo!IsFiniteSet({}) /\ Repo!Cardinality({}) = 0
          BY SameFinite, SameCount, FS_EmptySet
        <5> QED
          BY <5>1 DEF Repo!Counts
      <4>1. Repo!Begun(todo[w]) \subseteq Repo!Ready(w)
        BY <2>0, <3>0 DEF Repo!WriterInv, Repo!Counts
      <4>2. Repo!Begun(todo[w]) = {}
        BY <4>1, <2>0 DEF Repo!Begun
      <4>3. Repo!Begun(todo'[w]) = {}
        BY <4>2, <2>u DEF Repo!Begun
      <4>4. 0 <= (IF CheckInterval > 2 THEN CheckInterval ELSE 2)
        BY RepoConstants
      <4> QED
        BY <4>3, <4>4, <3>2, <2>u
    <3> QED
      BY <3>1, <3>2, <3>3, <3>4, <2>0 DEF Repo!WriterInv, Repo!Runs
  <2> QED
    BY <2>1, <2>2, <2>3, <1>q, QuietHeld DEF Repo!Inv
<1> QED
  BY <1>1, <1>2

\* What a request that is sent does, whatever the lock.
LEMMA SendStep ==
  ASSUME Repo!Inv, NEW w \in Writer, Repo!Send(w)
  PROVE  \E r \in todo[w] :
           /\ r \in Repo!Request /\ r.do # "check"
           /\ \A q \in todo[w] : r.at <= q.at
           /\ r.weight = 0 \/ Repo!Fits(counted[w], r.weight)
           /\ Repo!Effect(r)
           /\ todo' = [todo EXCEPT ![w] = (todo[w] \ {r}) \cup Repo!Followers(r)]
           /\ todo'[w] = (todo[w] \ {r}) \cup Repo!Followers(r)
           /\ counted' = [counted EXCEPT ![w] = counted[w] + r.weight]
           /\ counted'[w] = counted[w] + r.weight
           /\ strayed' = (strayed \/ holder # w)
           /\ \/ lateDeletes' = lateDeletes
              \/ /\ lateDeletes' = [lateDeletes EXCEPT ![w] = lateDeletes[w] + 1]
                 /\ r.do = "delete" /\ holder # w
           /\ repaired' =
                (repaired \cup (IF op[w] = "fsck" THEN Commit \cap objects ELSE {})) \ objects'
           /\ UNCHANGED <<holder, op, runs>>
           /\ Repo!Runs(w)
PROOF
<1>1. PICK r \in Repo!Ready(w) :
       /\ r.do # "check"
       /\ r.weight = 0 \/ Repo!Fits(counted[w], r.weight)
       /\ Repo!Effect(r)
       /\ todo' = [todo EXCEPT ![w] = (todo[w] \ {r}) \cup Repo!Followers(r)]
       /\ counted' = [counted EXCEPT ![w] = counted[w] + r.weight]
       /\ strayed' = (strayed \/ holder # w)
       /\ lateDeletes' = IF r.do = "delete" /\ holder # w
                         THEN [lateDeletes EXCEPT ![w] = lateDeletes[w] + 1] ELSE lateDeletes
       /\ repaired' =
            (repaired \cup (IF op[w] = "fsck" THEN Commit \cap objects ELSE {})) \ objects'
  BY DEF Repo!Send
<1>2. UNCHANGED <<holder, op, runs>> /\ Repo!Runs(w)
  BY DEF Repo!Send
<1>3. r \in todo[w] /\ (\A q \in todo[w] : r.at <= q.at)
  BY <1>1 DEF Repo!Ready
<1>4. /\ todo \in [Writer -> SUBSET Repo!Request]
      /\ counted \in [Writer -> Nat]
  BY DEF Repo!Inv, Repo!TypeOK
<1>5. r \in Repo!Request
  BY <1>3, <1>4
<1>6. /\ todo'[w] = (todo[w] \ {r}) \cup Repo!Followers(r)
      /\ counted'[w] = counted[w] + r.weight
  BY <1>1, <1>4
<1>7. \/ lateDeletes' = lateDeletes
      \/ /\ lateDeletes' = [lateDeletes EXCEPT ![w] = lateDeletes[w] + 1]
         /\ r.do = "delete" /\ holder # w
  BY <1>1
<1> QED
  BY <1>1, <1>2, <1>3, <1>5, <1>6, <1>7

\* The followers of a request are requests that began.
LEMMA FollowerFields ==
  ASSUME NEW r \in Repo!Request, NEW q \in Repo!Followers(r)
  PROVE  /\ q \in Repo!Request /\ q.at = r.at /\ q.do = "delete" /\ q.what = "object"
         /\ q.key \in Repo!Meta /\ q.weight = 0 /\ q.then = {}
PROOF
<1>1. r.then \subseteq Repo!Meta /\ r.at \in Nat
  BY DEF Repo!Request
<1>2. PICK o \in r.then : q = Repo!Delete(r.at, "object", o)
  BY DEF Repo!Followers, Repo!DeleteObjects
<1> QED
  BY <1>1, <1>2 DEF Repo!Delete, Repo!Request, Repo!Object

\* The holder of the lock sends a request of its run.
LEMMA HolderSends ==
  ASSUME Repo!Inv, NEW w \in Writer, holder = w, ~strayed, NEW r \in todo[w], r.do # "check",
         \A q \in todo[w] : r.at <= q.at, Repo!Effect(r),
         todo'[w] = (todo[w] \ {r}) \cup Repo!Followers(r),
         repaired' =
           (repaired \cup (IF op[w] = "fsck" THEN Commit \cap objects ELSE {})) \ objects',
         op' = op
  PROVE  Repo!CommitHasTree' /\ Repo!NamedCommitHeld' /\ Repo!Safe(todo[w], op[w])'
PROOF
<1> SUFFICES ASSUME NEW T, T = todo[w], NEW U, U = todo'[w], NEW kind, kind = op[w]
             PROVE  Repo!CommitHasTree' /\ Repo!NamedCommitHeld'
                      /\ Repo!Safe(todo[w], op[w])'
  OBVIOUS
<1>1. Repo!TypeOK /\ Repo!CommitHasTree /\ Repo!NamedCommitHeld /\ Repo!WriterInv(w)
  BY DEF Repo!Inv
<1>2. T \in SUBSET Repo!Request
  BY <1>1 DEF Repo!TypeOK
<1>3. Repo!Formed(T) /\ Repo!Safe(T, kind)
  BY <1>1 DEF Repo!WriterInv
<1>4. Turns(T, U, r, kind)
  BY <1>1, <1>2, <1>3 DEF Turns
<1>5. r.do \in {"put", "delete"}
  BY <1>2 DEF Repo!Request
<1>6. r.do = "delete" => r.what \in {"object", "marker"}
  BY <1>3 DEF Repo!Formed
<1>7. Stands(U, kind)
  <2>1. CASE Repo!Is(r, "put", "object")
    BY <2>1, <1>4, PutObjectStands
  <2>2. CASE Repo!Is(r, "delete", "object")
    BY <2>2, <1>4, DeleteObjectStands
  <2>3. CASE r.what = "marker"
    BY <2>3, <1>4, MarkerStands
  <2>4. CASE r.what \notin {"object", "marker"} /\ r.do = "put"
    BY <2>4, <1>4, NameStands
  <2> QED
    BY <2>1, <2>2, <2>3, <2>4, <1>5, <1>6 DEF Repo!Is
<1>8. Repo!CommitHasTree'
  BY <1>7 DEF Stands, Repo!CommitHasTree
<1>9. Repo!NamedCommitHeld'
  BY <1>7 DEF Stands, Repo!NamedCommitHeld, Repo!Named
<1>10. Repo!Safe(U, kind)' /\ todo'[w] = U /\ op'[w] = kind
  BY <1>7 DEF Stands
<1> QED
  BY <1>8, <1>9, <1>10

\* The parts of the bucket keep their types.
LEMMA SendTypes ==
  ASSUME Repo!Inv, NEW w \in Writer, NEW r \in todo[w], Repo!Effect(r), r.do # "check",
         repaired' =
           (repaired \cup (IF op[w] = "fsck" THEN Commit \cap objects ELSE {})) \ objects'
  PROVE  /\ objects' \subseteq Repo!Object /\ corrupt' \subseteq objects'
         /\ marker' \subseteq Commit /\ refs' \in Repo!RefSet
         /\ summary' \in Repo!RefSet \cup {None} /\ sig' \in Repo!RefSet \cup {None}
         /\ repaired' \subseteq Commit
PROOF
<1>1. /\ objects \subseteq Repo!Object /\ corrupt \subseteq objects /\ marker \subseteq Commit
      /\ refs \in Repo!RefSet /\ summary \in Repo!RefSet \cup {None}
      /\ sig \in Repo!RefSet \cup {None} /\ repaired \subseteq Commit
  BY DEF Repo!Inv, Repo!TypeOK
<1>2. /\ r.what = "object" => r.key \in Repo!Object
      /\ r.what = "marker" => r.key \in Commit
      /\ r.what = "ref" => r.key \in Name /\ r.value \in Commit
      /\ r.what \in {"summary", "sig"} => r.value \in Repo!RefSet
  BY DEF Repo!Inv, Repo!WriterInv, Repo!Formed
<1>3. /\ objects' = Repo!After(r, "object", objects)
      /\ corrupt' = IF r.what = "object" THEN corrupt \ {r.key} ELSE corrupt
      /\ marker' = Repo!After(r, "marker", marker)
      /\ refs' = IF r.what = "ref" THEN [refs EXCEPT ![r.key] = r.value] ELSE refs
      /\ summary' = IF r.what = "summary" THEN r.value ELSE summary
      /\ sig' = IF r.what = "sig" THEN r.value ELSE sig
  BY DEF Repo!Effect
<1>4. objects' \subseteq Repo!Object /\ corrupt' \subseteq objects' /\ marker' \subseteq Commit
  BY <1>1, <1>2, <1>3 DEF Repo!After
<1>5. refs' \in Repo!RefSet
  BY <1>1, <1>2, <1>3 DEF Repo!RefSet
<1>6. summary' \in Repo!RefSet \cup {None} /\ sig' \in Repo!RefSet \cup {None}
  BY <1>1, <1>2, <1>3
<1>7. repaired' \subseteq Commit
  BY <1>1
<1> QED
  BY <1>4, <1>5, <1>6, <1>7

\* The deletes that a prune has begun, and its count, after one more request.
LEMMA SendCounts ==
  ASSUME NEW T \in SUBSET Repo!Request, Repo!Formed(T), NEW r \in T, NEW U, NEW n \in Nat,
         NEW l \in Nat, NEW m \in Nat,
         \A q \in T : r.at <= q.at, U = (T \ {r}) \cup Repo!Followers(r),
         r.weight = 0 \/ Repo!Fits(n, r.weight),
         m = l \/ (m = l + 1 /\ r.do = "delete"),
         \A q \in Repo!Begun(T) : \A p \in T : q.at <= p.at,
         IsFiniteSet(Repo!Begun(T)),
         l + Cardinality(Repo!Begun(T)) <= n,
         n <= (IF CheckInterval > 2 THEN CheckInterval ELSE 2)
  PROVE  /\ \A q \in Repo!Begun(U) : \A p \in U : q.at <= p.at
         /\ IsFiniteSet(Repo!Begun(U))
         /\ m + Cardinality(Repo!Begun(U)) <= n + r.weight
         /\ n + r.weight <= (IF CheckInterval > 2 THEN CheckInterval ELSE 2)
PROOF
<1> DEFINE B == Repo!Begun(T)
           F == Repo!Followers(r)
<1>0. r \in Repo!Request /\ r.at \in Nat /\ r.weight \in Nat
      /\ (\A q \in T : q.at \in Nat /\ q.weight \in Nat)
  BY DEF Repo!Request
<1>1. \A q \in F : q.at = r.at /\ q.do = "delete" /\ q.weight = 0
  BY <1>0, FollowerFields
<1>2. /\ r.weight > 0 => r.do = "delete"
      /\ \/ r.then = {} /\ r.weight <= 1
         \/ \E o \in Repo!Meta : r.then = {o} /\ r.weight = 2
  BY DEF Repo!Formed
<1>3. Repo!Begun(U) = (B \ {r}) \cup F
  <2>1. U = (T \ {r}) \cup F
    OBVIOUS
  <2> HIDE DEF F
  <2>2. \A q : q \in Repo!Begun(U) <=> q \in (B \ {r}) \cup F
    BY <1>1, <2>1 DEF Repo!Begun
  <2> QED
    BY <2>2
<1>4. \A q \in Repo!Begun(U) : \A p \in U : q.at <= p.at
  <2>1. \A q \in B : q \in T
    BY DEF Repo!Begun
  <2> HIDE DEF B, F
  <2>2. ASSUME NEW q \in Repo!Begun(U), NEW p \in U PROVE q.at <= p.at
    <3>1. q.at <= r.at /\ q.at \in Nat
      BY <1>0, <1>1, <1>3, <2>1 DEF B
    <3>2. r.at <= p.at /\ p.at \in Nat
      BY <1>0, <1>1 DEF F
    <3> QED
      BY <3>1, <3>2, <1>0
  <2> QED
    BY <2>2
<1>5. n + r.weight <= (IF CheckInterval > 2 THEN CheckInterval ELSE 2)
  BY <1>0, <1>2, RepoConstants DEF Repo!Fits
<1>6. Cardinality(B) \in Nat /\ IsFiniteSet(B)
  BY FS_CardinalityType
<1>9. l + Cardinality(B) <= n
  OBVIOUS
<1>10. r.weight = 0 \/ r.weight > 0
  BY <1>0
<1>7. CASE r.weight = 0
  <2>1. r.then = {}
    BY <1>2, <1>7
  <2>2. F = {}
    BY <2>1 DEF Repo!Followers, Repo!DeleteObjects
  <2>3. Repo!Begun(U) = B \ {r}
    BY <2>2, <1>3
  <2>4. IsFiniteSet(B \ {r})
        /\ Cardinality(B \ {r}) = (IF r \in B THEN Cardinality(B) - 1 ELSE Cardinality(B))
    BY <1>6, FS_RemoveElement
  <2>5. r.do = "delete" => r \in B
    BY <1>7 DEF Repo!Begun
  <2> HIDE DEF B, F
  <2>6. m + Cardinality(Repo!Begun(U)) <= n + r.weight
    <3> DEFINE x == Cardinality(B)
               y == Cardinality(B \ {r})
    <3>1. y = (IF r \in B THEN x - 1 ELSE x) /\ x \in Nat /\ l + x <= n
      BY <2>4, <1>6, <1>9
    <3> HIDE DEF x, y
    <3>2. m + y <= n + 0
      BY <3>1, <2>5
    <3> QED
      BY <3>2, <2>3, <1>7 DEF y
  <2> QED
    BY <2>3, <2>4, <2>6, <1>4, <1>5
<1>8. CASE r.weight > 0
  <2>1. r \notin B
    BY <1>8 DEF Repo!Begun
  <2>2. CASE r.then = {}
    <3>1. F = {}
      BY <2>2 DEF Repo!Followers, Repo!DeleteObjects
    <3>2. Repo!Begun(U) = B
      BY <2>1, <3>1, <1>3
    <3>3. r.weight = 1
      BY <1>0, <1>2, <1>8, <2>2
    <3>4. m + Cardinality(Repo!Begun(U)) <= n + r.weight
      BY <3>2, <3>3, <1>6
    <3> QED
      BY <3>2, <3>4, <1>4, <1>5
  <2>3. CASE \E o \in Repo!Meta : r.then = {o} /\ r.weight = 2
    <3>1. PICK o \in Repo!Meta : r.then = {o} /\ r.weight = 2
      BY <2>3
    <3>2. F = {Repo!Delete(r.at, "object", o)}
      BY <3>1 DEF Repo!Followers, Repo!DeleteObjects
    <3>3. Repo!Begun(U) = B \cup {Repo!Delete(r.at, "object", o)}
      BY <2>1, <3>2, <1>3
    <3> DEFINE f == Repo!Delete(r.at, "object", o)
    <3> HIDE DEF f, B
    <3>4. IsFiniteSet(B \cup {f})
          /\ Cardinality(B \cup {f}) = (IF f \in B THEN Cardinality(B) ELSE Cardinality(B) + 1)
      BY <1>6, FS_AddElement
    <3>5. Repo!Begun(U) = B \cup {f}
      BY <3>3 DEF f
    <3>6. m + Cardinality(Repo!Begun(U)) <= n + r.weight
      <4> DEFINE x == Cardinality(B)
                 y == Cardinality(B \cup {f})
      <4>1. y = (IF f \in B THEN x ELSE x + 1) /\ x \in Nat /\ l + x <= n
        BY <3>4, <1>6, <1>9
      <4> HIDE DEF x, y
      <4>2. m + y <= n + 2
        BY <4>1
      <4> QED
        BY <4>2, <3>5, <3>1 DEF y
    <3> QED
      BY <3>4, <3>5, <3>6, <1>4, <1>5
  <2> QED
    BY <2>2, <2>3, <1>2
<1> QED
  BY <1>7, <1>8, <1>10

\* A request is sent.
LEMMA RepoSendInv ==
  ASSUME Repo!Inv, NEW w \in Writer, Repo!Send(w)
  PROVE  Repo!Inv'
PROOF
<1>1. PICK r \in todo[w] :
        /\ r \in Repo!Request /\ r.do # "check"
        /\ \A q \in todo[w] : r.at <= q.at
        /\ r.weight = 0 \/ Repo!Fits(counted[w], r.weight)
        /\ Repo!Effect(r)
        /\ todo' = [todo EXCEPT ![w] = (todo[w] \ {r}) \cup Repo!Followers(r)]
        /\ todo'[w] = (todo[w] \ {r}) \cup Repo!Followers(r)
        /\ counted' = [counted EXCEPT ![w] = counted[w] + r.weight]
        /\ counted'[w] = counted[w] + r.weight
        /\ strayed' = (strayed \/ holder # w)
        /\ \/ lateDeletes' = lateDeletes
           \/ /\ lateDeletes' = [lateDeletes EXCEPT ![w] = lateDeletes[w] + 1]
              /\ r.do = "delete" /\ holder # w
        /\ repaired' =
             (repaired \cup (IF op[w] = "fsck" THEN Commit \cap objects ELSE {})) \ objects'
        /\ UNCHANGED <<holder, op, runs>>
        /\ Repo!Runs(w)
  BY SendStep
<1>2. /\ todo \in [Writer -> SUBSET Repo!Request] /\ counted \in [Writer -> Nat]
      /\ lateDeletes \in [Writer -> Nat] /\ strayed \in BOOLEAN
  BY DEF Repo!Inv, Repo!TypeOK
<1>3. r.weight \in Nat
  BY <1>1 DEF Repo!Request
<1>4. (todo[w] \ {r}) \cup Repo!Followers(r) \in SUBSET Repo!Request
  BY <1>1, <1>2, FollowerFields
<1>5. Repo!TypeOK'
  <2>1. /\ objects' \subseteq Repo!Object /\ corrupt' \subseteq objects'
        /\ marker' \subseteq Commit /\ refs' \in Repo!RefSet
        /\ summary' \in Repo!RefSet \cup {None} /\ sig' \in Repo!RefSet \cup {None}
        /\ repaired' \subseteq Commit
    BY <1>1, SendTypes
  <2>2. todo' \in [Writer -> SUBSET Repo!Request]
    BY <1>1, <1>2, <1>4
  <2>3. counted' \in [Writer -> Nat]
    BY <1>1, <1>2, <1>3
  <2>4. lateDeletes' \in [Writer -> Nat]
    BY <1>1, <1>2
  <2>5. /\ strayed' \in BOOLEAN /\ holder' \in Writer \cup {None, "dead"}
        /\ op' \in [Writer -> {"idle", "locked", "push", "prune", "fsck", "summary"}]
    BY <1>1, <1>2 DEF Repo!Inv, Repo!TypeOK
  <2> QED
    BY <2>1, <2>2, <2>3, <2>4, <2>5 DEF Repo!TypeOK
<1>6. ASSUME NEW v \in Writer, v # w
      PROVE  Repo!WriterInv(v)'
  <2>1. /\ todo'[v] = todo[v] /\ counted'[v] = counted[v]
        /\ lateDeletes'[v] = lateDeletes[v] /\ op'[v] = op[v]
    BY <1>1, <1>2, <1>6
  <2>2. holder' = v => holder = v
    BY <1>1
  <2>3. holder = v => strayed'
    BY <1>1, <1>6
  <2> QED
    BY <2>1, <2>2, <2>3, OtherKeeps DEF Repo!Inv
<1>7. holder = w /\ ~strayed =>
        Repo!CommitHasTree' /\ Repo!NamedCommitHeld' /\ Repo!Safe(todo[w], op[w])'
  BY <1>1, HolderSends
<1>8. ~(holder = w /\ ~strayed) => strayed'
  BY <1>1
<1>9. Repo!CommitHasTree' /\ Repo!NamedCommitHeld'
  BY <1>7, <1>8 DEF Repo!CommitHasTree, Repo!NamedCommitHeld
<1>10. Repo!WriterInv(w)'
  <2>0. Repo!WriterInv(w)
    BY DEF Repo!Inv
  <2>1. Repo!Formed(todo[w])'
    <3>1. ASSUME NEW q \in todo'[w]
          PROVE  \/ q \in todo[w]
                 \/ /\ q.do = "delete" /\ q.what = "object" /\ q.key \in Repo!Meta
                    /\ q.weight = 0 /\ q.then = {}
      BY <1>1, <3>1, FollowerFields
    <3> QED
      BY <2>0, <3>1 DEF Repo!WriterInv, Repo!Formed, Repo!Object
  <2>2. Repo!Runs(w)' /\ op'[w] # "locked"
    BY <1>1 DEF Repo!Runs
  <2>3. holder' = w => lateDeletes'[w] = 0
    BY <1>1, <2>0 DEF Repo!WriterInv
  <2>4. holder' = w /\ ~strayed' => Repo!Safe(todo[w], op[w])'
    BY <1>1, <1>7
  <2>5. Repo!Counts(w)'
    <3> SUFFICES ASSUME op'[w] = "prune" PROVE Repo!Counts(w)'
      BY DEF Repo!Counts
    <3> SUFFICES ASSUME NEW T, T = todo[w], NEW U, U = todo'[w]
                 PROVE  Repo!Counts(w)'
      OBVIOUS
    <3>1. /\ Repo!Begun(T) \subseteq Repo!Ready(w)
          /\ Repo!IsFiniteSet(Repo!Begun(T))
          /\ lateDeletes[w] + Repo!Cardinality(Repo!Begun(T)) <= counted[w]
          /\ counted[w] <= (IF CheckInterval > 2 THEN CheckInterval ELSE 2)
      BY <1>1, <2>0 DEF Repo!WriterInv, Repo!Counts
    <3>2. \A q \in Repo!Begun(T) : \A p \in T : q.at <= p.at
      BY <3>1 DEF Repo!Ready
    <3>3. IsFiniteSet(Repo!Begun(T)) /\ lateDeletes[w] + Cardinality(Repo!Begun(T)) <= counted[w]
      BY <3>1, SameFinite, SameCount
    <3>4. Repo!Formed(T) /\ T \in SUBSET Repo!Request
      BY <1>2, <2>0 DEF Repo!WriterInv
    <3>5. \/ lateDeletes'[w] = lateDeletes[w]
          \/ lateDeletes'[w] = lateDeletes[w] + 1 /\ r.do = "delete"
      BY <1>1, <1>2
    <3>6. U = (T \ {r}) \cup Repo!Followers(r) /\ r \in T /\ (\A q \in T : r.at <= q.at)
      BY <1>1
    <3>7. lateDeletes[w] \in Nat /\ lateDeletes'[w] \in Nat /\ counted[w] \in Nat
      BY <1>2, <3>5
    <3> SUFFICES ASSUME NEW l, l = lateDeletes[w], NEW m, m = lateDeletes'[w],
                        NEW n, n = counted[w]
                 PROVE  Repo!Counts(w)'
      OBVIOUS
    <3>8. /\ \A q \in Repo!Begun(U) : \A p \in U : q.at <= p.at
          /\ IsFiniteSet(Repo!Begun(U))
          /\ m + Cardinality(Repo!Begun(U)) <= n + r.weight
          /\ n + r.weight <= (IF CheckInterval > 2 THEN CheckInterval ELSE 2)
      <4>1. n \in Nat /\ l \in Nat /\ m \in Nat /\ (m = l \/ (m = l + 1 /\ r.do = "delete"))
        BY <3>5, <3>7
      <4>2. r.weight = 0 \/ Repo!Fits(n, r.weight)
        BY <1>1
      <4>3. l + Cardinality(Repo!Begun(T)) <= n
            /\ n <= (IF CheckInterval > 2 THEN CheckInterval ELSE 2)
        BY <3>1, <3>3
      <4> QED
        BY <4>1, <4>2, <4>3, <3>2, <3>3, <3>4, <3>6, SendCounts
    <3>9. Repo!IsFiniteSet(Repo!Begun(U)) /\ m + Repo!Cardinality(Repo!Begun(U)) <= n + r.weight
      BY <3>8, SameFinite, SameCount
    <3>10. \A q \in Repo!Begun(U) : q \in {x \in U : \A p \in U : x.at <= p.at}
      BY <3>8 DEF Repo!Begun
    <3>11. counted'[w] = n + r.weight
      BY <1>1
    <3> QED
      BY <3>8, <3>9, <3>10, <3>11 DEF Repo!Counts, Repo!Ready
  <2> QED
    BY <2>1, <2>2, <2>3, <2>4, <2>5 DEF Repo!WriterInv
<1> QED
  BY <1>5, <1>6, <1>9, <1>10 DEF Repo!Inv

\* The initial state of the repository.
LEMMA RepoInit == Repo!Init => Repo!Inv
PROOF
<1> SUFFICES ASSUME Repo!Init PROVE Repo!Inv
  OBVIOUS
<1>1. Repo!TypeOK
  BY DEF Repo!Init, Repo!TypeOK, Repo!RefSet
<1>2. Repo!CommitHasTree
  BY DEF Repo!Init, Repo!CommitHasTree
<1>3. Repo!NamedCommitHeld
  <2>1. Repo!Named(summary) = {}
    BY DEF Repo!Init, Repo!Named
  <2>2. Repo!Named(refs) = {}
    BY DEF Repo!Init, Repo!Named, Repo!Range
  <2> QED
    BY <2>1, <2>2 DEF Repo!NamedCommitHeld
<1>4. ASSUME NEW w \in Writer PROVE Repo!WriterInv(w)
  <2>1. /\ todo[w] = {} /\ op[w] = "idle" /\ counted[w] = 0 /\ lateDeletes[w] = 0
        /\ holder = None
    BY DEF Repo!Init
  <2>2. holder # w
    BY <2>1, RepoConstants
  <2> QED
    BY <2>1, <2>2 DEF Repo!WriterInv, Repo!Formed, Repo!Runs, Repo!Counts
<1> QED
  BY <1>1, <1>2, <1>3, <1>4 DEF Repo!Inv

\* Each step of the writers keeps the invariant.
LEMMA RepoNext == Repo!Inv /\ [Repo!Next]_(Repo!vars) => Repo!Inv'
PROOF
<1> SUFFICES ASSUME Repo!Inv, [Repo!Next]_(Repo!vars) PROVE Repo!Inv'
  OBVIOUS
<1>1. CASE UNCHANGED Repo!vars
  <2>0. UNCHANGED <<objects, corrupt, marker, refs, summary, sig, holder, op, todo, counted,
                    runs, strayed, lateDeletes, repaired>>
    BY <1>1 DEF Repo!vars
  <2>1. Repo!TypeOK'
    BY <2>0 DEF Repo!Inv, Repo!TypeOK
  <2>2. ASSUME NEW v \in Writer PROVE Repo!WriterInv(v)'
    BY <2>0, OtherKeeps DEF Repo!Inv
  <2>3. Quiet
    BY <2>0 DEF Quiet
  <2> QED
    BY <2>1, <2>2, <2>3, QuietHeld DEF Repo!Inv
<1>2. CASE Repo!Rot
  BY <1>2, RotInv
<1>3. ASSUME NEW w \in Writer, \E b \in BOOLEAN : Repo!Lock(w, b) PROVE Repo!Inv'
  BY <1>3, RepoLockInv
<1>4. ASSUME NEW w \in Writer,
             Repo!Push(w) \/ Repo!Prune(w) \/ Repo!Fsck(w) \/ Repo!Summary(w)
      PROVE  Repo!Inv'
  BY <1>4, RepoBeginInv
<1>5. ASSUME NEW w \in Writer, Repo!Check(w) PROVE Repo!Inv'
  BY <1>5, RepoCheckInv
<1>6. ASSUME NEW w \in Writer, Repo!Send(w) PROVE Repo!Inv'
  BY <1>6, RepoSendInv
<1>7. ASSUME NEW w \in Writer, Repo!Release(w) \/ Repo!Crash(w) PROVE Repo!Inv'
  BY <1>7, EndInv
<1> QED
  BY <1>1, <1>2, <1>3, <1>4, <1>5, <1>6, <1>7 DEF Repo!Next

\* A step of the run is a step of the writers, or leaves them at rest.
LEMMA RepoSteps ==
  [MCNext]_<<side, vars, repoVars, uploadVars>> => [Repo!Next]_(Repo!vars)
PROOF
  BY DEF MCNext, repoVars, Repo!vars

\* In every state the requests that the holder of the lock has left are safe
\* for the bucket, whatever of them it sends before it stops (Repo!Inv).
THEOREM RepoIsInvariant == MCSpec => []Repo!Inv
PROOF
<1>1. MCInit => Repo!Inv
  BY RepoInit DEF MCInit
<1>2. Repo!Inv /\ [MCNext]_<<side, vars, repoVars, uploadVars>> => Repo!Inv'
  BY RepoSteps, RepoNext
<1> QED
  BY <1>1, <1>2, PTL DEF MCSpec

\* Beside each push, prune, repair and stop, a commit in the bucket has its
\* whole tree or a marker, until a writer strays (upload_to_bucket,
\* fsck_repair, prune_apply).
THEOREM CommitsAreWhole == MCSpec => []CommitHasTree
PROOF
<1>1. Repo!Inv => CommitHasTree
  BY DEF Repo!Inv, CommitHasTree
<1> QED
  BY <1>1, RepoIsInvariant, PTL

\* Each commit that a ref or the summary names is in the bucket, or was
\* deleted by a repair (prune_walk, write_bucket_refs, write_summary).
THEOREM NamedCommitsStay == MCSpec => []NamedCommitHeld
PROOF
<1>1. Repo!Inv => NamedCommitHeld
  BY DEF Repo!Inv, NamedCommitHeld
<1> QED
  BY <1>1, RepoIsInvariant, PTL

\* A prune that lost its lock sends at most CHECK_INTERVAL more deletes, or
\* the deletes of one heavier item, for every CHECK_INTERVAL (groups).
THEOREM StalePruneStops == MCSpec => []StaleDeletesBounded
PROOF
<1>1. Repo!Inv => StaleDeletesBounded
  <2> SUFFICES ASSUME Repo!Inv, NEW w \in Writer, op[w] = "prune"
               PROVE  lateDeletes[w] <= (IF CheckInterval > 2 THEN CheckInterval ELSE 2)
    BY DEF StaleDeletesBounded, Repo!StaleDeletesBounded
  <2>1. /\ IsFiniteSet(Repo!Begun(todo[w]))
        /\ lateDeletes[w] + Cardinality(Repo!Begun(todo[w])) <= counted[w]
        /\ counted[w] <= (IF CheckInterval > 2 THEN CheckInterval ELSE 2)
    BY SameFinite, SameCount DEF Repo!Inv, Repo!WriterInv, Repo!Counts
  <2>2. Cardinality(Repo!Begun(todo[w])) \in Nat
    BY <2>1, FS_CardinalityType
  <2>3. lateDeletes[w] \in Nat /\ counted[w] \in Nat
    BY DEF Repo!Inv, Repo!TypeOK
  <2> QED
    BY <2>1, <2>2, <2>3, RepoConstants
<1> QED
  BY <1>1, RepoIsInvariant, PTL
=============================================================================
