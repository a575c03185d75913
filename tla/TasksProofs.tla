---------------------------- MODULE TasksProofs -----------------------------
(***************************************************************************)
(* Proofs about the guards and jobs of a process, for every number of      *)
(* update guards, writes, jobs, sessions and requests: the update guard    *)
(* (Update), the jobs of a transaction (Jobs) and the receive sessions     *)
(* (Receive).  The theorems are about the specification that the run       *)
(* checks, in which a step of one of them leaves the others alone.         *)
(***************************************************************************)
EXTENDS MCTasks, FiniteSetTheorems, TLAPS

-----------------------------------------------------------------------------
(* The update guard.                                                       *)

\* The finite sets of the instance Update are those of the theorems that are cited.
LEMMA UpdateFiniteSets ==
  \A S : (Update!IsFiniteSet(S) <=> IsFiniteSet(S)) /\ Update!Cardinality(S) = Cardinality(S)
PROOF
  BY DEF IsFiniteSet, Cardinality, Update!IsFiniteSet, Update!Cardinality

\* The empty set is the only set of no elements.
LEMMA UpdateEmptySet ==
  /\ Update!IsFiniteSet({}) /\ Update!Cardinality({}) = 0
  /\ \A S : Update!IsFiniteSet(S) => (Update!Cardinality(S) = 0 <=> S = {})
PROOF
  BY UpdateFiniteSets, FS_EmptySet

\* A finite set has a number of elements.
LEMMA UpdateCardinalityType ==
  ASSUME NEW S, Update!IsFiniteSet(S)
  PROVE  Update!Cardinality(S) \in Nat
PROOF
  BY UpdateFiniteSets, FS_CardinalityType

\* An element more.
LEMMA UpdateAddElement ==
  ASSUME NEW S, NEW x, Update!IsFiniteSet(S)
  PROVE  /\ Update!IsFiniteSet(S \cup {x})
         /\ x \notin S => Update!Cardinality(S \cup {x}) = Update!Cardinality(S) + 1
PROOF
  BY UpdateFiniteSets, FS_AddElement

\* An element less.
LEMMA UpdateRemoveElement ==
  ASSUME NEW S, NEW x, Update!IsFiniteSet(S)
  PROVE  /\ Update!IsFiniteSet(S \ {x})
         /\ x \in S => Update!Cardinality(S \ {x}) = Update!Cardinality(S) - 1
PROOF
  BY UpdateFiniteSets, FS_RemoveElement

\* The locks of a guard whose writes run or are not yet durable.
LEMMA GuardSafe ==
  ASSUME Update!Inv
  PROVE  Update!WritesUnderLocks /\ Update!NoLostEdit
PROOF
<1>1. Update!WritesUnderLocks
  <2> SUFFICES ASSUME NEW g \in Guard, Update!InFlightOf(g) # {} \/ ~(dirty[g] \subseteq failed[g])
               PROVE  update = g /\ g \in sharing /\ ~pruning
    BY DEF Update!WritesUnderLocks
  <2>1. Update!InFlightOf(g) # {} \/ dirs[g] # {} \/ todo[g] # {}
    BY DEF Update!Inv, Update!DirtyInv, Update!Unrecorded
  <2>2. guard[g] \in {"live", "gone"} /\ closing[g] \notin {"unlock", "unshare", "ended"}
    BY <2>1 DEF Update!Inv, Update!GuardInv
  <2> QED
    BY <2>2 DEF Update!Inv, Update!GuardInv, Update!PruneInv
<1> QED
  BY <1>1 DEF Update!Inv, Update!EditInv, Update!NoLostEdit

\* No guard has started.
LEMMA GuardInit == Update!Init => Update!Inv
PROOF
<1> SUFFICES ASSUME Update!Init PROVE Update!Inv
  OBVIOUS
<1>1. Update!TypeOK
  BY DEF Update!Init, Update!TypeOK
<1>2. \A g \in Guard : Update!InFlightOf(g) = {}
  BY DEF Update!Init, Update!InFlightOf, Update!Running
<1>3. Update!GuardInv
  BY <1>2, UpdateEmptySet, WriteAssumption DEF Update!Init, Update!GuardInv
<1> QED
  BY <1>1, <1>3 DEF Update!Init, Update!Inv, Update!PruneInv, Update!DirtyInv, Update!EditInv

\* A step of a guard that starts, changes and ends no job.
LEMMA GuardStepInv ==
  ASSUME Update!Inv, UNCHANGED <<Update!jobs, config, edits, inFlight>>, NEW g \in Guard,
         \/ Update!TakeShared(g) \/ Update!TakeUpdate(g) \/ Update!GiveUp(g)
         \/ Update!DropGuard(g) \/ Update!Finish(g)
         \/ Update!FinishUnrun(g) \/ Update!CloseStep(g)
  PROVE  Update!Inv'
PROOF
<1> USE WriteAssumption DEF Update!Inv, Update!locks, Update!writes, Update!jobs, Update!close,
        Update!disk
<1>0. \A h \in Guard : Update!InFlightOf(h)' = Update!InFlightOf(h)
  BY DEF Update!InFlightOf
<1>1. Update!EditInv'
  BY DEF Update!EditInv
<1>2. \A h \in Guard :
        Update!Unrecorded(h)' = Update!Unrecorded(h)
  BY <1>0 DEF Update!DirOf, Update!Unrecorded
<1>3. \A h \in Guard : inFlight[h] = 0 => Update!InFlightOf(h) = {}
  BY UpdateEmptySet DEF Update!GuardInv
<1>4. \A h \in Guard : Update!LastGone(h) => Update!InFlightOf(h) = {}
  BY DEF Update!LastGone, Update!InFlightOf
<1>5. CASE Update!TakeShared(g)
  <2>1. Update!TypeOK' /\ Update!PruneInv'
    BY <1>5 DEF Update!TakeShared, Update!TypeOK, Update!PruneInv
  <2>2. Update!GuardInv' BY <1>5, <1>0 DEF Update!TakeShared, Update!TypeOK, Update!GuardInv
  <2>3. Update!DirtyInv' BY <1>5, <1>2 DEF Update!TakeShared, Update!DirtyInv
  <2> QED BY <1>1, <2>1, <2>2, <2>3
<1>6. CASE Update!TakeUpdate(g)
  <2>1. Update!TypeOK' /\ Update!PruneInv'
    BY <1>6 DEF Update!TakeUpdate, Update!TypeOK, Update!PruneInv
  <2>2. Update!GuardInv' BY <1>6, <1>0 DEF Update!TakeUpdate, Update!TypeOK, Update!GuardInv
  <2>3. Update!DirtyInv' BY <1>6, <1>2 DEF Update!TakeUpdate, Update!DirtyInv
  <2> QED BY <1>1, <2>1, <2>2, <2>3
<1>7. CASE Update!GiveUp(g)
  <2>1. Update!TypeOK' /\ Update!PruneInv' BY <1>7 DEF Update!GiveUp, Update!TypeOK, Update!PruneInv
  <2>2. Update!GuardInv' BY <1>7, <1>0 DEF Update!GiveUp, Update!TypeOK, Update!GuardInv
  <2>3. Update!DirtyInv' BY <1>7, <1>2 DEF Update!GiveUp, Update!DirtyInv
  <2> QED BY <1>1, <2>1, <2>2, <2>3
<1>8. CASE Update!DropGuard(g)
  <2>1. Update!TypeOK' /\ Update!PruneInv'
    BY <1>8 DEF Update!DropGuard, Update!TypeOK, Update!PruneInv
  <2>2. Update!GuardInv' BY <1>8, <1>0 DEF Update!DropGuard, Update!TypeOK, Update!GuardInv
  <2>3. Update!DirtyInv' BY <1>8, <1>2 DEF Update!DropGuard, Update!DirtyInv
  <2> QED BY <1>1, <2>1, <2>2, <2>3
<1>9. CASE Update!Finish(g)
  <2>1. Update!TypeOK' /\ Update!PruneInv'
    BY <1>9 DEF Update!Finish, Update!Closes, Update!TypeOK, Update!PruneInv
  <2>2. Update!GuardInv'
    BY <1>9, <1>0, <1>3 DEF Update!Finish, Update!Closes, Update!Settled, Update!TypeOK,
       Update!GuardInv
  <2>3. Update!DirtyInv' BY <1>9, <1>2 DEF Update!Finish, Update!DirtyInv
  <2> QED BY <1>1, <2>1, <2>2, <2>3
<1>10. CASE Update!FinishUnrun(g)
  <2>1. Update!TypeOK' /\ Update!PruneInv'
    BY <1>10 DEF Update!FinishUnrun, Update!Closes, Update!TypeOK, Update!PruneInv
  <2>2. Update!GuardInv'
    BY <1>10, <1>0 DEF Update!FinishUnrun, Update!Closes, Update!TypeOK, Update!GuardInv
  <2>3. Update!DirtyInv' BY <1>10, <1>2 DEF Update!FinishUnrun, Update!DirtyInv
  <2> QED BY <1>1, <2>1, <2>2, <2>3
<1>11. CASE Update!FinishLooks(g)
  <2>1. Update!TypeOK' /\ Update!PruneInv'
    BY <1>11 DEF Update!FinishLooks, Update!TakesDirs, Update!Closes, Update!TypeOK,
       Update!PruneInv
  <2>2. Update!GuardInv'
    BY <1>11, <1>0, <1>3 DEF Update!FinishLooks, Update!TakesDirs, Update!Closes, Update!TypeOK,
       Update!GuardInv
  <2>3. Update!DirtyInv'
    BY <1>11, <1>2 DEF Update!FinishLooks, Update!TakesDirs, Update!TypeOK, Update!GuardInv,
       Update!DirtyInv
  <2> QED BY <1>1, <2>1, <2>2, <2>3
<1>12. CASE Update!DropHeld(g)
  <2>1. Update!TypeOK' /\ Update!PruneInv'
    BY <1>12 DEF Update!DropHeld, Update!TakesDirs, Update!Closes, Update!TypeOK, Update!PruneInv
  <2>2. Update!GuardInv'
    BY <1>12, <1>0, <1>4 DEF Update!DropHeld, Update!TakesDirs, Update!Closes, Update!TypeOK,
       Update!GuardInv
  <2>3. Update!DirtyInv'
    BY <1>12, <1>2 DEF Update!DropHeld, Update!TakesDirs, Update!TypeOK, Update!GuardInv,
       Update!DirtyInv
  <2> QED BY <1>1, <2>1, <2>2, <2>3
<1>13. CASE \E d \in Update!Dir : Update!Sync(g, d)
  <2>1. Update!TypeOK' /\ Update!PruneInv' BY <1>13 DEF Update!Sync, Update!TypeOK, Update!PruneInv
  <2>2. Update!GuardInv' BY <1>13, <1>0 DEF Update!Sync, Update!TypeOK, Update!GuardInv
  <2>3. Update!DirtyInv' BY <1>13, <1>2 DEF Update!Sync, Update!TypeOK, Update!DirtyInv
  <2> QED BY <1>1, <2>1, <2>2, <2>3
<1>14. CASE Update!Synced(g) \/ Update!ReleaseUpdate(g) \/ Update!ReleaseShared(g)
  <2>1. Update!TypeOK' /\ Update!PruneInv'
    BY <1>14 DEF Update!Synced, Update!ReleaseUpdate, Update!ReleaseShared, Update!Closes,
       Update!TypeOK, Update!PruneInv
  <2>2. Update!GuardInv'
    BY <1>14, <1>0 DEF Update!Synced, Update!ReleaseUpdate, Update!ReleaseShared, Update!Closes,
       Update!TypeOK, Update!GuardInv
  <2>3. Update!DirtyInv'
    BY <1>14, <1>2 DEF Update!Synced, Update!ReleaseUpdate, Update!ReleaseShared, Update!DirtyInv
  <2> QED BY <1>1, <2>1, <2>2, <2>3
<1> QED
  BY <1>5, <1>6, <1>7, <1>8, <1>9, <1>10, <1>11, <1>12, <1>13, <1>14 DEF Update!CloseStep

\* A job that goes from one state to another moves in and out of the jobs in
\* flight of its guard alone.
LEMMA InFlightMoves ==
  ASSUME Update!Inv, NEW w \in Write, NEW s \in Update!Running \cup {"ended"}, Update!Goes(w, s)
  PROVE  /\ \A h \in Guard : h # GuardOf[w] => Update!InFlightOf(h)' = Update!InFlightOf(h)
         /\ s \in Update!Running => Update!InFlightOf(GuardOf[w])' = Update!InFlightOf(GuardOf[w]) \cup {w}
         /\ s = "ended" => Update!InFlightOf(GuardOf[w])' = Update!InFlightOf(GuardOf[w]) \ {w}
PROOF
  BY WriteAssumption DEF Update!Inv, Update!TypeOK, Update!Goes, Update!InFlightOf, Update!Running

\* A step of a job that is in flight before and after it.
LEMMA RunStepInv ==
  ASSUME Update!Inv, NEW w \in Write, Update!ReadConfig(w) \/ Update!Put(w) \/ Update!PutFails(w) \/ Update!Record(w)
  PROVE  Update!Inv'
PROOF
<1> DEFINE g == GuardOf[w]
<1> USE WriteAssumption DEF Update!Inv, Update!locks, Update!writes, Update!jobs, Update!close,
        Update!disk
<1>0. g \in Guard
  OBVIOUS
<1>1. w \in Update!InFlightOf(g) /\ job[w] \in Update!Running /\ (job[w] = "read" => w \in Edit)
  BY <1>0 DEF Update!ReadConfig, Update!Put, Update!PutFails, Update!Record, Update!Writes,
     Update!InFlightOf, Update!Running, Update!EditInv
<1>2. \A h \in Guard : Update!InFlightOf(h)' = Update!InFlightOf(h)
  <2>1. PICK s \in Update!Running : Update!Goes(w, s)
    BY DEF Update!ReadConfig, Update!Put, Update!PutFails, Update!Record, Update!Running
  <2> QED
    BY <1>0, <1>1, <2>1, InFlightMoves
<1>3. Update!TypeOK'
  <2>1. CASE Update!ReadConfig(w)
    BY <2>1, <1>0 DEF Update!ReadConfig, Update!Goes, Update!TypeOK, Update!Running
  <2>2. CASE Update!Put(w)
    BY <2>2, <1>0 DEF Update!Put, Update!Unlocks, Update!Goes, Update!DirOf, Update!Dir,
       Update!TypeOK, Update!Running
  <2>3. CASE Update!PutFails(w)
    BY <2>3, <1>0 DEF Update!PutFails, Update!Unlocks, Update!Goes, Update!TypeOK, Update!Running
  <2>4. CASE Update!Record(w)
    BY <2>4, <1>0 DEF Update!Record, Update!Changed, Update!Goes, Update!DirOf, Update!Dir,
       Update!TypeOK, Update!Running
  <2> QED BY <2>1, <2>2, <2>3, <2>4
<1>4. Update!PruneInv'
  BY DEF Update!ReadConfig, Update!Put, Update!PutFails, Update!Record, Update!PruneInv
<1>5. Update!GuardInv'
  <2>1. CASE ~Update!Record(w)
    BY <2>1, <1>2 DEF Update!ReadConfig, Update!Put, Update!PutFails, Update!GuardInv
  <2>2. CASE Update!Record(w)
    BY <2>2, <1>0, <1>1, <1>2 DEF Update!Record, Update!TypeOK, Update!GuardInv
  <2> QED BY <2>1, <2>2
<1>6. Update!DirtyInv'
  <2>1. \A h \in Guard : h # g => Update!Unrecorded(h)' = Update!Unrecorded(h)
    BY <1>2 DEF Update!ReadConfig, Update!Put, Update!PutFails, Update!Record, Update!Goes,
       Update!Unrecorded, Update!InFlightOf, Update!TypeOK, Update!DirOf
  <2>2. CASE Update!ReadConfig(w) \/ Update!PutFails(w)
    <3>1. job[w] # "put" /\ job'[w] # "put"
      BY <2>2 DEF Update!ReadConfig, Update!PutFails, Update!Writes, Update!Goes, Update!TypeOK
    <3>2. Update!Unrecorded(g) \subseteq Update!Unrecorded(g)'
      BY <2>2, <3>1, <1>2, <1>0 DEF Update!ReadConfig, Update!PutFails, Update!Goes,
         Update!Unrecorded, Update!TypeOK, Update!DirOf, Update!InFlightOf
    <3> QED BY <2>1, <2>2, <3>2 DEF Update!ReadConfig, Update!PutFails, Update!DirtyInv
  <2>3. CASE Update!Put(w)
    <3>1. Update!Unrecorded(g) \cup {Update!DirOf(w)} \subseteq Update!Unrecorded(g)'
      BY <2>3, <1>1, <1>2, <1>0 DEF Update!Put, Update!Goes, Update!Unrecorded, Update!TypeOK,
         Update!DirOf, Update!InFlightOf
    <3> QED BY <2>1, <2>3, <3>1, <1>0 DEF Update!Put, Update!DirtyInv, Update!TypeOK
  <2>4. CASE Update!Record(w)
    <3>1. Update!Unrecorded(g) \subseteq Update!Unrecorded(g)' \cup {Update!DirOf(w)}
      BY <2>4, <1>1, <1>2, <1>0 DEF Update!Record, Update!Goes, Update!Unrecorded, Update!TypeOK,
         Update!DirOf, Update!InFlightOf
    <3> QED BY <2>1, <2>4, <3>1, <1>0 DEF Update!Record, Update!Changed, Update!DirtyInv,
       Update!TypeOK
  <2> QED BY <2>2, <2>3, <2>4
<1>7. Update!EditInv'
  <2>1. \A x, y \in Write : job[x] = "read" /\ job[y] = "read" => x = y
    <3> SUFFICES ASSUME NEW x \in Write, NEW y \in Write, job[x] = "read", job[y] = "read"
                 PROVE  x = y
      OBVIOUS
    <3>1. x \in Update!InFlightOf(GuardOf[x]) /\ y \in Update!InFlightOf(GuardOf[y])
      BY DEF Update!InFlightOf, Update!Running
    <3>2. GuardOf[x] = GuardOf[y]
      BY <3>1 DEF Update!GuardInv
    <3> QED BY <3>2 DEF Update!EditInv
  <2>2. CASE Update!ReadConfig(w)
    BY <2>2, <1>0 DEF Update!ReadConfig, Update!MayEdit, Update!Goes, Update!EditInv, Update!TypeOK
  <2>3. CASE Update!Put(w)
    <3>1. CASE w \in Edit
      BY <3>1, <2>1, <2>3 DEF Update!Put, Update!Writes, Update!Goes, Update!EditInv, Update!TypeOK
    <3>2. CASE w \notin Edit
      BY <3>2, <2>3 DEF Update!Put, Update!Writes, Update!Unlocks, Update!Goes, Update!EditInv,
         Update!TypeOK
    <3> QED BY <3>1, <3>2
  <2>4. CASE Update!PutFails(w)
    <3>1. CASE w \in Edit
      BY <3>1, <2>1, <2>4 DEF Update!PutFails, Update!Writes, Update!Goes, Update!EditInv,
         Update!TypeOK
    <3>2. CASE w \notin Edit
      BY <3>2, <2>4 DEF Update!PutFails, Update!Writes, Update!Unlocks, Update!Goes,
         Update!EditInv, Update!TypeOK
    <3> QED BY <3>1, <3>2
  <2>5. CASE Update!Record(w)
    BY <2>5 DEF Update!Record, Update!Goes, Update!EditInv, Update!TypeOK
  <2> QED BY <2>2, <2>3, <2>4, <2>5
<1> QED
  BY <1>3, <1>4, <1>5, <1>6, <1>7

\* The first poll of a write adds it to the jobs in flight, and the drop of
\* its InFlight takes it away.
LEMMA CountStepInv ==
  ASSUME Update!Inv, NEW w \in Write, Update!Start(w) \/ Update!EndFlight(w)
  PROVE  Update!Inv'
PROOF
<1> DEFINE g == GuardOf[w]
<1> USE WriteAssumption DEF Update!Inv, Update!locks, Update!writes, Update!jobs, Update!close,
        Update!disk
<1>0. g \in Guard
  OBVIOUS
<1>1. \A h \in Guard : h # g => Update!InFlightOf(h)' = Update!InFlightOf(h)
  BY InFlightMoves, <1>0 DEF Update!Start, Update!EndFlight, Update!Running
<1>2. Update!PruneInv'
  BY DEF Update!Start, Update!EndFlight, Update!PruneInv
<1>3. Update!EditInv'
  BY DEF Update!Start, Update!EndFlight, Update!Goes, Update!EditInv, Update!TypeOK
<1>4. job[w] # "put" /\ job'[w] # "put"
  BY DEF Update!Start, Update!EndFlight, Update!Goes, Update!TypeOK
<1>5. \A h \in Guard : Update!Unrecorded(h) \subseteq Update!Unrecorded(h)'
  BY <1>4 DEF Update!Start, Update!EndFlight, Update!Goes, Update!TypeOK, Update!Unrecorded,
     Update!InFlightOf, Update!DirOf, Update!Running
<1>6. Update!DirtyInv'
  BY <1>5 DEF Update!Start, Update!EndFlight, Update!DirtyInv
<1>7. CASE Update!Start(w)
  <2>1. Update!InFlightOf(g)' = Update!InFlightOf(g) \cup {w} /\ w \notin Update!InFlightOf(g)
    BY <1>7, InFlightMoves DEF Update!Start, Update!InFlightOf, Update!Running
  <2>2. Update!IsFiniteSet(Update!InFlightOf(g)')
          /\ Update!Cardinality(Update!InFlightOf(g)') = Update!Cardinality(Update!InFlightOf(g)) + 1
    BY <2>1, <1>0, UpdateAddElement DEF Update!GuardInv
  <2>3. Update!TypeOK'
    BY <1>7, <1>0 DEF Update!Start, Update!Goes, Update!TypeOK, Update!Running
  <2>4. Update!GuardInv'
    <3> SUFFICES ASSUME NEW h \in Guard PROVE Update!GuardInv!(h)'
      BY DEF Update!GuardInv
    <3>1. CASE h = g
      BY <3>1, <1>7, <1>0, <2>2, <2>1 DEF Update!Start, Update!GuardInv, Update!TypeOK
    <3>2. CASE h # g
      BY <3>2, <1>7, <1>0, <1>1 DEF Update!Start, Update!GuardInv, Update!TypeOK
    <3> QED BY <3>1, <3>2
  <2> QED BY <1>2, <1>3, <1>6, <2>3, <2>4
<1>8. CASE Update!EndFlight(w)
  <2>1. Update!InFlightOf(g)' = Update!InFlightOf(g) \ {w} /\ w \in Update!InFlightOf(g)
    BY <1>8, <1>0, InFlightMoves DEF Update!EndFlight, Update!InFlightOf, Update!Running
  <2>2. Update!IsFiniteSet(Update!InFlightOf(g)')
          /\ Update!Cardinality(Update!InFlightOf(g)') = Update!Cardinality(Update!InFlightOf(g)) - 1
    BY <2>1, <1>0, UpdateRemoveElement DEF Update!GuardInv
  <2>3. inFlight[g] - 1 \in Nat
    BY <2>2, <1>0, UpdateCardinalityType DEF Update!GuardInv
  <2>4. Update!TypeOK'
    BY <1>8, <1>0, <2>3 DEF Update!EndFlight, Update!Notified, Update!Goes, Update!TypeOK,
       Update!Running
  <2>5. Update!GuardInv'
    <3> SUFFICES ASSUME NEW h \in Guard PROVE Update!GuardInv!(h)'
      BY DEF Update!GuardInv
    <3>1. CASE h = g
      BY <3>1, <1>8, <1>0, <2>2, <2>1 DEF Update!EndFlight, Update!Notified, Update!GuardInv,
         Update!TypeOK
    <3>2. CASE h # g
      BY <3>2, <1>8, <1>0, <1>1 DEF Update!EndFlight, Update!Notified, Update!GuardInv,
         Update!TypeOK
    <3> QED BY <3>1, <3>2
  <2> QED BY <1>2, <1>3, <1>6, <2>4, <2>5
<1> QED
  BY <1>7, <1>8

\* Each step keeps the invariant of the guards.
LEMMA GuardNextInv == Update!Inv /\ [Update!Next]_(Update!vars) => Update!Inv'
PROOF
<1> SUFFICES ASSUME Update!Inv, [Update!Next]_(Update!vars) PROVE Update!Inv'
  OBVIOUS
<1>1. CASE UNCHANGED Update!vars \/ Update!Prune
  <2> USE DEF Update!vars, Update!locks, Update!writes, Update!jobs, Update!close, Update!disk,
          Update!Inv
  <2>1. \A g \in Guard : Update!InFlightOf(g)' = Update!InFlightOf(g) /\ Update!Unrecorded(g)' = Update!Unrecorded(g)
    BY <1>1 DEF Update!Prune, Update!InFlightOf, Update!Unrecorded, Update!DirOf
  <2>2. Update!TypeOK'
    BY <1>1 DEF Update!Prune, Update!TypeOK
  <2>3. Update!PruneInv'
    BY <1>1 DEF Update!Prune, Update!PruneInv, Update!TypeOK
  <2>4. Update!EditInv'
    BY <1>1 DEF Update!Prune, Update!EditInv
  <2>5. Update!GuardInv' /\ Update!DirtyInv'
    BY <1>1, <2>1 DEF Update!Prune, Update!GuardInv, Update!DirtyInv
  <2> QED BY <2>2, <2>3, <2>4, <2>5
<1>2. CASE \E g \in Guard :
        Update!TakeShared(g) \/ Update!TakeUpdate(g) \/ Update!GiveUp(g) \/ Update!DropGuard(g) \/ Update!Finish(g)
          \/ Update!FinishUnrun(g) \/ Update!CloseStep(g)
  <2>1. UNCHANGED <<Update!jobs, config, edits, inFlight>>
    BY <1>2 DEF Update!TakeShared, Update!TakeUpdate, Update!GiveUp, Update!DropGuard,
       Update!Finish, Update!FinishUnrun, Update!CloseStep, Update!disk, Update!FinishLooks,
       Update!DropHeld, Update!Synced, Update!ReleaseUpdate, Update!ReleaseShared, Update!Sync,
       Update!jobs, Update!writes
  <2> QED
    BY <1>2, <2>1, GuardStepInv
<1>3. CASE \E w \in Write : Update!Start(w) \/ Update!JobStep(w)
  BY <1>3, RunStepInv, CountStepInv DEF Update!JobStep
<1> QED
  BY <1>1, <1>2, <1>3 DEF Update!Next

-----------------------------------------------------------------------------
(* The jobs of a transaction.                                              *)

\* No job has started.
LEMMA JobsInit == Jobs!Init => Jobs!Inv
PROOF
  BY DEF Jobs!Init, Jobs!Inv, Jobs!TypeOK

\* Each step keeps the jobs that run with no future in the list, or in settle.
LEMMA JobsNextInv == Jobs!Inv /\ [Jobs!Next]_(Jobs!vars) => Jobs!Inv'
PROOF
<1> SUFFICES ASSUME Jobs!Inv, [Jobs!Next]_(Jobs!vars) PROVE Jobs!Inv'
  OBVIOUS
<1> USE DEF Jobs!Inv
<1>1. CASE UNCHANGED Jobs!vars
  BY <1>1 DEF Jobs!vars, Jobs!TypeOK
<1>2. ASSUME NEW j \in Job, Jobs!Track(j) \/ Jobs!End(j) \/ Jobs!PollTracked(j) PROVE Jobs!Inv'
  <2>1. CASE Jobs!Track(j) BY <2>1 DEF Jobs!Track, Jobs!TypeOK
  <2>2. CASE Jobs!End(j) BY <2>2 DEF Jobs!End, Jobs!TypeOK
  <2>3. CASE Jobs!PollTracked(j) BY <2>3 DEF Jobs!PollTracked, Jobs!TypeOK
  <2> QED BY <1>2, <2>1, <2>2, <2>3
<1>3. ASSUME NEW j \in Job, Jobs!DropTracked(j) PROVE Jobs!Inv'
  BY <1>3 DEF Jobs!DropTracked, Jobs!TypeOK
<1>4. CASE Jobs!Call \/ Jobs!Repoll \/ Jobs!DropSettle
  BY <1>4 DEF Jobs!Call, Jobs!Repoll, Jobs!DropSettle, Jobs!TypeOK
<1>5. CASE Jobs!Take
  BY <1>5 DEF Jobs!Take, Jobs!TypeOK
<1>6. CASE Jobs!PollOrphan
  BY <1>6 DEF Jobs!PollOrphan, Jobs!AfterLast, Jobs!TypeOK
<1> QED
  BY <1>1, <1>2, <1>3, <1>4, <1>5, <1>6 DEF Jobs!Next

\* settle returns in Take alone, with nothing in the list and nothing taken.
LEMMA JobsStep ==
  ASSUME Jobs!Inv, [Jobs!Next]_(Jobs!vars)
  PROVE  settle # "returned" /\ settle' = "returned"
           => \A j \in Job : future[j] = "dropped" => jjob[j] = "ended"
PROOF
<1> SUFFICES ASSUME settle # "returned", settle' = "returned", NEW j \in Job, future[j] = "dropped"
             PROVE  jjob[j] = "ended"
  OBVIOUS
<1>1. Jobs!Take
  BY DEF Jobs!Next, Jobs!vars, Jobs!Track, Jobs!End, Jobs!PollTracked, Jobs!DropTracked,
     Jobs!Call, Jobs!PollOrphan, Jobs!AfterLast, Jobs!Repoll, Jobs!DropSettle
<1>2. orphans = {} /\ taken = {} /\ settle = "taking"
  BY <1>1 DEF Jobs!Take, Jobs!Inv
<1> QED
  BY <1>2 DEF Jobs!Inv, Jobs!TypeOK

-----------------------------------------------------------------------------
(* The receive sessions.                                                   *)

\* The finite sets of the instance Receive are those of the theorems that are cited.
LEMMA ReceiveFiniteSets ==
  \A S : (Receive!IsFiniteSet(S) <=> IsFiniteSet(S)) /\ Receive!Cardinality(S) = Cardinality(S)
PROOF
  BY DEF IsFiniteSet, Cardinality, Receive!IsFiniteSet, Receive!Cardinality

\* The empty set is the only set of no elements.
LEMMA ReceiveEmptySet ==
  /\ Receive!IsFiniteSet({}) /\ Receive!Cardinality({}) = 0
  /\ \A S : Receive!IsFiniteSet(S) => (Receive!Cardinality(S) = 0 <=> S = {})
PROOF
  BY ReceiveFiniteSets, FS_EmptySet

\* A finite set has a number of elements.
LEMMA ReceiveCardinalityType ==
  ASSUME NEW S, Receive!IsFiniteSet(S)
  PROVE  Receive!Cardinality(S) \in Nat
PROOF
  BY ReceiveFiniteSets, FS_CardinalityType

\* An element more.
LEMMA ReceiveAddElement ==
  ASSUME NEW S, NEW x, Receive!IsFiniteSet(S)
  PROVE  /\ Receive!IsFiniteSet(S \cup {x})
         /\ x \notin S => Receive!Cardinality(S \cup {x}) = Receive!Cardinality(S) + 1
PROOF
  BY ReceiveFiniteSets, FS_AddElement

\* An element less.
LEMMA ReceiveRemoveElement ==
  ASSUME NEW S, NEW x, Receive!IsFiniteSet(S)
  PROVE  /\ Receive!IsFiniteSet(S \ {x})
         /\ x \in S => Receive!Cardinality(S \ {x}) = Receive!Cardinality(S) - 1
PROOF
  BY ReceiveFiniteSets, FS_RemoveElement

\* The places of a request.
Places == {"new", "message", "enter", "step", "release", "uncount", "begin", "task", "fail",
           "respond", "leave", "over"}

\* A commit takes the core that no step holds, and nothing removes its entry.
LEMMA SessionSafe == Receive!Inv => Receive!CommitOwnsCore /\ Receive!CommitIsKept
PROOF
<1> SUFFICES ASSUME Receive!Inv PROVE Receive!CommitOwnsCore /\ Receive!CommitIsKept
  OBVIOUS
<1>1. Receive!CommitOwnsCore
  <2> SUFFICES ASSUME NEW s \in Session, state[s] = "committing"
               PROVE  core[s] = 1 /\ \A r \in parts : of[r] # s
    BY DEF Receive!CommitOwnsCore
  <2>1. Receive!HoldersOf(s) = {} /\ core[s] = Receive!Cardinality(Receive!HoldersOf(s)) + 1
    BY DEF Receive!Inv, Receive!CoreInv
  <2>2. Receive!Cardinality({}) = 0
    BY ReceiveEmptySet
  <2>3. \A r \in parts : of[r] # s
    BY <2>1 DEF Receive!HoldersOf
  <2> QED BY <2>1, <2>2, <2>3
<1>2. Receive!CommitIsKept
  BY DEF Receive!Inv, Receive!TableInv, Receive!CommitIsKept
<1> QED BY <1>1, <1>2

\* No session has opened.
LEMMA SessionInit == Receive!Init => Receive!Inv
PROOF
<1> SUFFICES ASSUME Receive!Init PROVE Receive!Inv
  OBVIOUS
<1>1. Receive!TypeOK
  BY DEF Receive!Init, Receive!TypeOK
<1>2. \A s \in Session : Receive!HoldersOf(s) = {} /\ \A k \in {"have", "objects"} : Receive!CountedOf(s, k) = {}
  BY DEF Receive!Init, Receive!HoldersOf, Receive!CountedOf
<1>3. Receive!IsFiniteSet({}) /\ Receive!Cardinality({}) = 0
  BY ReceiveEmptySet
<1>4. Receive!CoreInv
  <2> SUFFICES ASSUME NEW s \in Session PROVE Receive!CoreInv!(s)
    BY DEF Receive!CoreInv
  <2>1. core[s] = 0 /\ state[s] = "unborn" /\ \A k \in {"have", "objects"} : inflight[s][k] = 0
    BY DEF Receive!Init
  <2> QED BY <1>2, <1>3, <2>1
<1> QED
  BY <1>1, <1>4 DEF Receive!Init, Receive!Inv, Receive!RequestInv, Receive!TableInv

\* What close_locked leaves to a session: the references of its steps, and
\* that of its state if it commits.
CloseLeaves ==
  /\ state' \in [Session -> {"unborn", "open", "committing", "closed"}]
  /\ signal' \in [Session -> BOOLEAN]
  /\ core' \in [Session -> Nat]
  /\ \A t \in Session :
       /\ Receive!HoldersOf(t)' = Receive!HoldersOf(t)
       /\ core'[t] = Receive!Cardinality(Receive!HoldersOf(t))
                       + IF state'[t] \in {"open", "committing"} THEN 1 ELSE 0
       /\ state'[t] = "committing" <=> state[t] = "committing"
       /\ state'[t] \in {"unborn", "open"} => state'[t] = state[t]
       /\ state'[t] = "unborn" <=> state[t] = "unborn"

\* close_locked takes one reference from an open session, and none from one that
\* commits.
LEMMA CloseServiceCore ==
  ASSUME Receive!Inv, NEW s \in Session, Receive!CloseService(s), UNCHANGED <<parts, of>>
  PROVE  CloseLeaves
PROOF
<1> USE DEF Receive!Inv, CloseLeaves
<1>1. \A t \in Session : Receive!HoldersOf(t)' = Receive!HoldersOf(t) /\ Receive!Cardinality(Receive!HoldersOf(t)) \in Nat
  BY ReceiveCardinalityType DEF Receive!HoldersOf, Receive!CoreInv
<1>2. CASE state[s] = "open"
  <2>1. core[s] = Receive!Cardinality(Receive!HoldersOf(s)) + 1
    BY <1>2 DEF Receive!CoreInv
  <2>2. /\ state' = [state EXCEPT ![s] = "closed"]
        /\ signal' = [signal EXCEPT ![s] = TRUE]
        /\ core' = [core EXCEPT ![s] = @ - 1]
    BY <1>2 DEF Receive!CloseService
  <2>3. core'[s] = Receive!Cardinality(Receive!HoldersOf(s)) /\ core' \in [Session -> Nat]
    BY <1>1, <2>1, <2>2 DEF Receive!TypeOK
  <2>4. \A t \in Session : t # s => core'[t] = core[t] /\ state'[t] = state[t]
    BY <2>2 DEF Receive!TypeOK
  <2>5. state'[s] = "closed" /\ state[s] = "open"
    BY <1>2, <2>2 DEF Receive!TypeOK
  <2>6. state' \in [Session -> {"unborn", "open", "committing", "closed"}]
          /\ signal' \in [Session -> BOOLEAN]
    BY <2>2 DEF Receive!TypeOK
  <2> QED BY <1>1, <2>3, <2>4, <2>5, <2>6 DEF Receive!CoreInv
<1>3. CASE state[s] # "open"
  BY <1>1, <1>3 DEF Receive!CloseService, Receive!TypeOK, Receive!CoreInv
<1> QED BY <1>2, <1>3

\* A step that leaves the counts, and who holds the core, as they are.
LEMMA SameCount ==
  ASSUME Receive!Inv, UNCHANGED <<of, inflight>>,
         \A s \in Session, k \in {"have", "objects"} :
           state'[s] \in {"unborn", "open"} => Receive!CountedOf(s, k)' = Receive!CountedOf(s, k),
         \A s \in Session :
           /\ Receive!HoldersOf(s)' = Receive!HoldersOf(s)
           /\ core'[s] = Receive!Cardinality(Receive!HoldersOf(s))
                           + IF state'[s] \in {"open", "committing"} THEN 1 ELSE 0
           /\ state'[s] = "committing" <=> state[s] = "committing"
           /\ state'[s] \in {"unborn", "open"} => state'[s] = state[s]
  PROVE  Receive!CoreInv'
PROOF
  BY DEF Receive!Inv, Receive!CoreInv

\* A step that leaves the service alone.
LEMMA SameService ==
  ASSUME Receive!Inv, UNCHANGED <<Receive!service, parts>>,
         \A s \in Session : Receive!HoldersOf(s)' = Receive!HoldersOf(s),
         \A s \in Session, k \in {"have", "objects"} : Receive!CountedOf(s, k)' = Receive!CountedOf(s, k)
  PROVE  Receive!CoreInv'
PROOF
  BY DEF Receive!Inv, Receive!CoreInv, Receive!service

\* A move of a request between two places that hold or count as much.
LEMMA SameParts ==
  ASSUME Receive!Inv, UNCHANGED <<of, kind, parts>>, NEW r \in Client, NEW p, Receive!Goes(r, p),
         p \in {"step", "release", "uncount"} <=> rpc[r] \in {"step", "release", "uncount"}
  PROVE  /\ \A s \in Session : Receive!HoldersOf(s)' = Receive!HoldersOf(s)
         /\ \A s \in Session, k \in {"have", "objects"} : Receive!CountedOf(s, k)' = Receive!CountedOf(s, k)
PROOF
  BY DEF Receive!Inv, Receive!TypeOK, Receive!Goes, Receive!HoldersOf, Receive!CountedOf

\* The steps of a request that change neither the service nor the table.
LEMMA MoveInv ==
  ASSUME Receive!Inv, NEW r \in Client,
         \/ Receive!StepEnds(r) \/ Receive!BodyWaits(r) \/ Receive!BodyArrives(r)
         \/ Receive!MessageRead(r) \/ Receive!MessageBad(r)
         \/ Receive!Joined(r) \/ Receive!Respond(r) \/ Receive!Disconnect(r) \/ Receive!Cancelled(r)
  PROVE  Receive!Inv'
PROOF
<1> USE DEF Receive!Inv, Receive!table, Receive!service, Receive!request
<1>1. UNCHANGED <<closed, slot, committing, cancel, departing, state, inflight, core, signal,
                  task, of, kind, parts>>
  BY DEF Receive!StepEnds, Receive!BodyWaits, Receive!BodyArrives, Receive!MessageRead,
     Receive!MessageBad, Receive!Joined, Receive!Respond, Receive!Disconnect, Receive!Cancelled
<1>2. Receive!TypeOK'
  <2>1. body' \in [Client -> {"unread", "waiting", "whole", "gone"}]
    BY DEF Receive!StepEnds, Receive!BodyWaits, Receive!BodyArrives, Receive!MessageRead,
       Receive!MessageBad, Receive!Joined, Receive!Respond, Receive!Disconnect,
       Receive!Cancelled, Receive!Outcome, Receive!Body, Receive!TypeOK
  <2>2. result' \in [Client -> {"no", "ok", "err", "cut", "cancelled"}]
    BY DEF Receive!StepEnds, Receive!BodyWaits, Receive!BodyArrives, Receive!MessageRead,
       Receive!MessageBad, Receive!Joined, Receive!Respond, Receive!Disconnect,
       Receive!Cancelled, Receive!Outcome, Receive!TypeOK
  <2>3. rpc' \in [Client -> Places]
    BY DEF Receive!StepEnds, Receive!BodyWaits, Receive!BodyArrives, Receive!MessageRead,
       Receive!MessageBad, Receive!Joined, Receive!Respond, Receive!Disconnect,
       Receive!Cancelled, Receive!Goes, Receive!TypeOK, Places
  <2> QED BY <1>1, <2>1, <2>2, <2>3 DEF Receive!TypeOK, Places
<1>3. Receive!TableInv'
  BY <1>1 DEF Receive!TableInv
<1>4. \E p : /\ Receive!Goes(r, p)
             /\ p \in {"step", "release", "uncount"} <=> rpc[r] \in {"step", "release", "uncount"}
             /\ p \in {"step", "release"} <=> rpc[r] \in {"step", "release"}
             /\ rpc[r] # "new" /\ p # "new"
             /\ p \in {"enter", "step", "release", "uncount"} => kind[r] # "commit"
  <2>1. CASE Receive!BodyWaits(r) \/ Receive!BodyArrives(r)
    BY <2>1 DEF Receive!BodyWaits, Receive!BodyArrives, Receive!Reads, Receive!Goes,
       Receive!TypeOK, Receive!RequestInv
  <2>2. CASE ~(Receive!BodyWaits(r) \/ Receive!BodyArrives(r))
    BY <2>2 DEF Receive!StepEnds, Receive!MessageRead, Receive!MessageBad, Receive!Joined,
       Receive!Respond, Receive!Disconnect, Receive!Cancelled, Receive!Goes, Receive!TypeOK,
       Receive!RequestInv
  <2> QED BY <2>1, <2>2
<1>5. PICK p : <1>4!(p)
  BY <1>4
<1>6. Receive!RequestInv'
  BY <1>1, <1>5 DEF Receive!Goes, Receive!RequestInv, Receive!TypeOK
<1>7. Receive!CoreInv'
  BY <1>1, <1>5, SameParts, SameService
<1> QED
  BY <1>2, <1>3, <1>6, <1>7

\* A request finds an open session, whose service exists.
LEMMA LookupInv ==
  ASSUME Receive!Inv, NEW r \in Client, NEW s \in Session, NEW k \in {"have", "objects", "commit"},
         Receive!Lookup(r, s, k)
  PROVE  Receive!Inv'
PROOF
<1> USE SessionAssumption DEF Receive!Inv, Receive!table, Receive!service, Receive!request
<1>1. Receive!TypeOK' /\ Receive!TableInv'
  BY DEF Receive!Lookup, Receive!Goes, Receive!TypeOK, Receive!TableInv
<1>2. Receive!RequestInv'
  BY DEF Receive!Lookup, Receive!Goes, Receive!TypeOK, Receive!RequestInv, Receive!TableInv
<1>3. \A t \in Session : Receive!HoldersOf(t)' = Receive!HoldersOf(t)
  BY DEF Receive!Lookup, Receive!HoldersOf, Receive!RequestInv, Receive!TypeOK
<1>4. \A t \in Session, j \in {"have", "objects"} : Receive!CountedOf(t, j)' = Receive!CountedOf(t, j)
  BY DEF Receive!Lookup, Receive!Goes, Receive!CountedOf, Receive!TypeOK
<1>5. Receive!CoreInv'
  BY <1>3, <1>4, SameService DEF Receive!Lookup
<1> QED BY <1>1, <1>2, <1>5

\* A removal of entries: none of them commits, or its commit ends.
LEMMA RemoveTable ==
  ASSUME Receive!Inv, NEW ss \in SUBSET Receive!In("open"), Receive!Remove(ss),
         UNCHANGED <<committing, cancel, state>>,
         task' \in [Session -> {"none", "spawned", "running", "ending", "over"}],
         \A s \in Session : /\ task'[s] # "none" => committing[s]
                            /\ task'[s] \in {"spawned", "running", "ending"} => task[s] = task'[s]
                            /\ task[s] = "running" => task'[s] = "running"
                            /\ s \in ss => task'[s] \in {"none", "over"}
  PROVE  Receive!TableInv'
PROOF
  BY DEF Receive!Inv, Receive!TypeOK, Receive!TableInv, Receive!Remove, Receive!In

\* A removal of entries that no request makes leaves the service alone.
LEMMA RemoveFrame ==
  ASSUME Receive!Inv, NEW ss, Receive!Remove(ss), Receive!TableInv', closed' \in BOOLEAN,
         task' \in [Session -> {"none", "spawned", "running", "ending", "over"}],
         UNCHANGED <<committing, cancel, Receive!service, Receive!request, rpc, parts>>
  PROVE  Receive!Inv'
PROOF
<1> USE DEF Receive!Inv, Receive!service, Receive!request
<1>1. slot' \in [Session -> {"free", "pending", "open", "ended"}]
        /\ departing' \in [Session -> {"no", "cancel", "abort", "over"}]
  BY DEF Receive!Remove, Receive!TypeOK
<1>2. Receive!TypeOK'
  BY <1>1 DEF Receive!TypeOK
<1>3. Receive!RequestInv'
  BY DEF Receive!RequestInv
<1>4. Receive!CoreInv'
  BY SameService DEF Receive!HoldersOf, Receive!CountedOf
<1> QED BY <1>2, <1>3, <1>4

\* The removals that requests, the sweep and the end of a commit make.
LEMMA RemoveInv ==
  ASSUME Receive!Inv, \/ \E r \in Client : Receive!Fail(r) \/ Receive!Leave(r)
              \/ \E s \in Session : Receive!TaskOver(s) \/ Receive!Delete(s) \/ Receive!Sweep(s)
  PROVE  Receive!Inv'
PROOF
<1> USE DEF Receive!Inv, Receive!table, Receive!service, Receive!request
<1>1. UNCHANGED <<committing, cancel, state, inflight, core, signal, of, kind, parts>>
  BY DEF Receive!Fail, Receive!Leave, Receive!TaskOver, Receive!Delete, Receive!Sweep
<1>2. \E ss \in SUBSET Receive!In("open") : Receive!Remove(ss) /\ Receive!TableInv'
  <2>1. CASE \E s \in Session : Receive!TaskOver(s)
    <3>1. PICK s \in Session : Receive!TaskOver(s)
      BY <2>1
    <3>2. Receive!TableInv'
      BY <1>1, <3>1, RemoveTable DEF Receive!TaskOver, Receive!TypeOK, Receive!TableInv
    <3> QED BY <3>1, <3>2 DEF Receive!TaskOver
  <2>2. CASE ~\E s \in Session : Receive!TaskOver(s)
    <3>1. UNCHANGED task /\ \E ss \in SUBSET Receive!Endable : Receive!Remove(ss)
      BY <2>2 DEF Receive!Fail, Receive!Leave, Receive!Delete, Receive!Sweep, Receive!Overdue
    <3>2. PICK ss \in SUBSET Receive!Endable : Receive!Remove(ss)
      BY <3>1
    <3>3. Receive!TableInv'
      BY <1>1, <3>1, <3>2, RemoveTable DEF Receive!Endable, Receive!In, Receive!TypeOK,
         Receive!TableInv
    <3> QED BY <3>2, <3>3 DEF Receive!Endable
  <2> QED BY <2>1, <2>2
<1>3. slot' \in [Session -> {"free", "pending", "open", "ended"}]
        /\ departing' \in [Session -> {"no", "cancel", "abort", "over"}]
  BY <1>2 DEF Receive!Remove, Receive!TypeOK
<1>4. CASE \E r \in Client : Receive!Fail(r) \/ Receive!Leave(r)
  <2>1. PICK r \in Client : Receive!Fail(r) \/ Receive!Leave(r)
    BY <1>4
  <2>2. \E p \in {"respond", "over"} : Receive!Goes(r, p) /\ rpc[r] \in {"fail", "leave"}
    BY <2>1 DEF Receive!Fail, Receive!Leave
  <2>3. Receive!TypeOK'
    BY <1>1, <1>3, <2>1, <2>2 DEF Receive!Fail, Receive!Leave, Receive!Body, Receive!Goes,
       Receive!TypeOK
  <2>4. Receive!RequestInv'
    BY <1>1, <2>2 DEF Receive!Goes, Receive!RequestInv, Receive!TypeOK
  <2>5. Receive!CoreInv'
    BY <1>1, <2>2, SameParts, SameService
  <2> QED BY <1>2, <2>3, <2>4, <2>5
<1>5. CASE ~\E r \in Client : Receive!Fail(r) \/ Receive!Leave(r)
  <2>1. closed' \in BOOLEAN /\ UNCHANGED <<rpc, body, result>>
    BY <1>5 DEF Receive!TaskOver, Receive!Delete, Receive!Sweep, Receive!TypeOK
  <2>2. task' \in [Session -> {"none", "spawned", "running", "ending", "over"}]
    BY <1>5 DEF Receive!TaskOver, Receive!Delete, Receive!Sweep, Receive!TypeOK
  <2> QED BY <1>1, <1>2, <2>1, <2>2, RemoveFrame
<1> QED BY <1>4, <1>5

\* The steps that close the service and leave the counts.
LEMMA CloseInv ==
  ASSUME Receive!Inv, NEW s \in Session, Receive!CloseService(s),
         \/ \E r \in Client : of[r] = s /\ Receive!StepFails(r)
         \/ \E r \in Client : of[r] = s /\ Receive!Enter(r) /\ Receive!Goes(r, "fail") /\ UNCHANGED <<inflight, parts>>
         \/ Receive!TaskStarts(s) /\ task' = [task EXCEPT ![s] = "ending"]
         \/ Receive!Unreserve(s) \/ Receive!CloseAborts(s) \/ Receive!Insert(s)
  PROVE  Receive!Inv'
PROOF
<1> USE DEF Receive!Inv, Receive!table, Receive!service, Receive!request
<1>1. UNCHANGED <<closed, committing, cancel, inflight, of, kind, parts>>
  BY DEF Receive!StepFails, Receive!Enter, Receive!TaskStarts, Receive!Unreserve,
     Receive!CloseAborts, Receive!Insert
<1>2. CloseLeaves
  BY <1>1, CloseServiceCore
<1>3. CASE \E r \in Client : of[r] = s /\ (Receive!StepFails(r) \/ (Receive!Enter(r) /\ Receive!Goes(r, "fail")))
  <2>1. PICK r \in Client : of[r] = s /\ (Receive!StepFails(r) \/ (Receive!Enter(r) /\ Receive!Goes(r, "fail")))
    BY <1>3
  <2>2. PICK p \in {"release", "fail"} :
          /\ Receive!Goes(r, p) /\ rpc[r] = IF p = "release" THEN "step" ELSE "enter"
    BY <2>1 DEF Receive!StepFails, Receive!Enter
  <2>3. UNCHANGED <<slot, departing, task>>
    BY <2>1 DEF Receive!StepFails, Receive!Enter
  <2>4. body' \in [Client -> {"unread", "waiting", "whole", "gone"}]
          /\ result' \in [Client -> {"no", "ok", "err", "cut", "cancelled"}]
    BY <2>1 DEF Receive!StepFails, Receive!Enter, Receive!Outcome, Receive!Body, Receive!TypeOK
  <2>5. rpc' \in [Client -> Places]
    BY <2>2 DEF Receive!Goes, Receive!TypeOK, Places
  <2>6. Receive!TypeOK'
    BY <1>1, <1>2, <2>3, <2>4, <2>5 DEF CloseLeaves, Receive!TypeOK, Places
  <2>7. Receive!TableInv'
    BY <1>1, <1>2, <2>3 DEF CloseLeaves, Receive!TableInv
  <2>8. Receive!RequestInv'
    BY <1>1, <1>2, <2>2 DEF CloseLeaves, Receive!Goes, Receive!RequestInv, Receive!TypeOK
  <2>9. Receive!CoreInv'
    BY <1>1, <1>2, <2>2, SameParts, SameCount DEF CloseLeaves
  <2> QED BY <2>6, <2>7, <2>8, <2>9
<1>4. CASE ~\E r \in Client : of[r] = s /\ (Receive!StepFails(r) \/ (Receive!Enter(r) /\ Receive!Goes(r, "fail")))
  <2>1. UNCHANGED <<rpc, body, result>>
    BY <1>4 DEF Receive!TaskStarts, Receive!Unreserve, Receive!CloseAborts, Receive!Insert
  <2>2. Receive!RequestInv'
    BY <1>1, <1>2, <2>1 DEF CloseLeaves, Receive!RequestInv
  <2>3. \A t \in Session, k \in {"have", "objects"} : Receive!CountedOf(t, k)' = Receive!CountedOf(t, k)
    BY <1>1, <2>1 DEF Receive!CountedOf
  <2>4. Receive!CoreInv'
    BY <1>1, <1>2, <2>3, SameCount DEF CloseLeaves
  <2>5. /\ slot' \in [Session -> {"free", "pending", "open", "ended"}]
        /\ departing' \in [Session -> {"no", "cancel", "abort", "over"}]
        /\ task' \in [Session -> {"none", "spawned", "running", "ending", "over"}]
    BY <1>4 DEF Receive!TaskStarts, Receive!Unreserve, Receive!CloseAborts, Receive!Insert,
       Receive!TypeOK
  <2>6. Receive!TypeOK'
    BY <1>1, <1>2, <2>1, <2>5 DEF CloseLeaves, Receive!TypeOK
  <2>7. Receive!TableInv'
    <3>1. CASE Receive!TaskStarts(s) /\ task' = [task EXCEPT ![s] = "ending"]
      BY <1>1, <1>2, <3>1 DEF CloseLeaves, Receive!TaskStarts, Receive!TableInv, Receive!TypeOK
    <3>2. CASE Receive!Unreserve(s)
      BY <1>1, <1>2, <3>2 DEF CloseLeaves, Receive!Unreserve, Receive!TableInv, Receive!TypeOK
    <3>3. CASE Receive!CloseAborts(s)
      BY <1>1, <1>2, <3>3 DEF CloseLeaves, Receive!CloseAborts, Receive!TableInv, Receive!TypeOK
    <3>4. CASE Receive!Insert(s)
      BY <1>1, <1>2, <3>4 DEF CloseLeaves, Receive!Insert, Receive!TableInv, Receive!TypeOK
    <3> QED BY <1>4, <3>1, <3>2, <3>3, <3>4
  <2> QED BY <2>2, <2>4, <2>6, <2>7
<1> QED BY <1>3, <1>4

\* A step counts and holds the core, or its refusal closes the session.
LEMMA EnterInv ==
  ASSUME Receive!Inv, NEW r \in Client, Receive!Enter(r)
  PROVE  Receive!Inv'
PROOF
<1> DEFINE s == of[r]
           k == kind[r]
<1> USE DEF Receive!Inv, Receive!table, Receive!service, Receive!request
<1>1. s \in Session /\ k \in {"have", "objects"} /\ rpc[r] = "enter" /\ state[s] # "unborn"
  BY DEF Receive!Enter, Receive!RequestInv, Receive!TypeOK
<1>2. CASE state[s] = "open" /\ inflight[s][k] < Receive!LimitOf(k)
  <2>1. /\ inflight' = [inflight EXCEPT ![s][k] = @ + 1]
        /\ core' = [core EXCEPT ![s] = @ + 1]
        /\ parts' = parts \cup {r}
        /\ Receive!Goes(r, "step")
        /\ UNCHANGED <<state, signal, Receive!table, task, Receive!request>>
    BY <1>2 DEF Receive!Enter
  <2>2. Receive!TypeOK'
    BY <1>1, <2>1 DEF Receive!Goes, Receive!TypeOK
  <2>3. Receive!RequestInv' /\ Receive!TableInv'
    BY <1>1, <2>1 DEF Receive!Goes, Receive!TypeOK, Receive!RequestInv, Receive!TableInv
  <2>4. Receive!HoldersOf(s)' = Receive!HoldersOf(s) \cup {r} /\ r \notin Receive!HoldersOf(s)
    BY <1>1, <2>1 DEF Receive!HoldersOf, Receive!RequestInv, Receive!TypeOK
  <2>5. Receive!CountedOf(s, k)' = Receive!CountedOf(s, k) \cup {r}
          /\ r \notin Receive!CountedOf(s, k)
    BY <1>1, <2>1 DEF Receive!CountedOf, Receive!Goes, Receive!TypeOK
  <2>6. \A t \in Session : t # s => Receive!HoldersOf(t)' = Receive!HoldersOf(t)
    BY <1>1, <2>1 DEF Receive!HoldersOf
  <2>7. \A t \in Session, j \in {"have", "objects"} :
          t # s \/ j # k => Receive!CountedOf(t, j)' = Receive!CountedOf(t, j)
    BY <1>1, <2>1 DEF Receive!CountedOf, Receive!Goes, Receive!TypeOK
  <2>8. Receive!IsFiniteSet(Receive!HoldersOf(s)')
          /\ Receive!Cardinality(Receive!HoldersOf(s)') = Receive!Cardinality(Receive!HoldersOf(s)) + 1
    BY <1>1, <2>4, ReceiveAddElement DEF Receive!CoreInv
  <2>9. Receive!IsFiniteSet(Receive!CountedOf(s, k)')
          /\ Receive!Cardinality(Receive!CountedOf(s, k)') = Receive!Cardinality(Receive!CountedOf(s, k)) + 1
    BY <1>1, <1>2, <2>5, ReceiveAddElement DEF Receive!CoreInv
  <2>10. Receive!CoreInv'
    <3> SUFFICES ASSUME NEW t \in Session PROVE Receive!CoreInv!(t)'
      BY DEF Receive!CoreInv
    <3>1. CASE t = s
      <4>1. core'[s] = Receive!Cardinality(Receive!HoldersOf(s)') + 1
        BY <1>1, <1>2, <2>1, <2>8, ReceiveCardinalityType DEF Receive!CoreInv, Receive!TypeOK
      <4>2. \A j \in {"have", "objects"} :
              Receive!IsFiniteSet(Receive!CountedOf(s, j)') /\ inflight'[s][j] = Receive!Cardinality(Receive!CountedOf(s, j)')
        BY <1>1, <1>2, <2>1, <2>7, <2>9 DEF Receive!CoreInv, Receive!TypeOK
      <4> QED BY <1>2, <2>1, <2>8, <3>1, <4>1, <4>2
    <3>2. CASE t # s
      BY <1>1, <2>1, <2>6, <2>7, <3>2 DEF Receive!CoreInv, Receive!TypeOK
    <3> QED BY <3>1, <3>2
  <2> QED BY <2>2, <2>3, <2>10
<1>3. CASE ~(state[s] = "open" /\ inflight[s][k] < Receive!LimitOf(k))
  <2>1. Receive!CloseService(s) /\ Receive!Goes(r, "fail") /\ UNCHANGED <<inflight, parts>>
    BY <1>3 DEF Receive!Enter
  <2> QED BY <1>1, <2>1, CloseInv
<1> QED BY <1>2, <1>3

\* Step::drop gives the clone of the core back before it takes the count away.
LEMMA ReleaseInv ==
  ASSUME Receive!Inv, NEW r \in Client, Receive!Release(r)
  PROVE  Receive!Inv'
PROOF
<1> DEFINE s == of[r]
<1> USE DEF Receive!Inv, Receive!table, Receive!service, Receive!request
<1>1. s \in Session /\ rpc[r] = "release" /\ r \in parts
  BY DEF Receive!Release, Receive!RequestInv, Receive!TypeOK
<1>2. Receive!HoldersOf(s)' = Receive!HoldersOf(s) \ {r} /\ r \in Receive!HoldersOf(s)
  BY <1>1 DEF Receive!Release, Receive!HoldersOf
<1>3. Receive!IsFiniteSet(Receive!HoldersOf(s)')
        /\ Receive!Cardinality(Receive!HoldersOf(s)') = Receive!Cardinality(Receive!HoldersOf(s)) - 1
  BY <1>1, <1>2, ReceiveRemoveElement DEF Receive!CoreInv
<1>4. Receive!Cardinality(Receive!HoldersOf(s)') \in Nat
        /\ Receive!Cardinality(Receive!HoldersOf(s)) \in Nat
  BY <1>1, <1>3, ReceiveCardinalityType DEF Receive!CoreInv
<1>5. core'[s] = Receive!Cardinality(Receive!HoldersOf(s)') + IF state[s] \in {"open", "committing"} THEN 1 ELSE 0
  BY <1>1, <1>3, <1>4 DEF Receive!Release, Receive!CoreInv, Receive!TypeOK
<1>6. core' \in [Session -> Nat]
  BY <1>1, <1>4, <1>5 DEF Receive!Release, Receive!TypeOK
<1>7. Receive!TypeOK'
  BY <1>1, <1>6 DEF Receive!Release, Receive!Goes, Receive!TypeOK
<1>8. Receive!RequestInv' /\ Receive!TableInv'
  BY <1>1 DEF Receive!Release, Receive!Goes, Receive!TypeOK, Receive!RequestInv, Receive!TableInv
<1>9. \A t \in Session : t # s => Receive!HoldersOf(t)' = Receive!HoldersOf(t)
  BY <1>1 DEF Receive!Release, Receive!HoldersOf
<1>10. \A t \in Session, j \in {"have", "objects"} : Receive!CountedOf(t, j)' = Receive!CountedOf(t, j)
  BY <1>1 DEF Receive!Release, Receive!CountedOf, Receive!Goes, Receive!TypeOK
<1>11. Receive!CoreInv'
  <2> SUFFICES ASSUME NEW t \in Session PROVE Receive!CoreInv!(t)'
    BY DEF Receive!CoreInv
  <2>1. CASE t = s
    BY <1>1, <1>2, <1>3, <1>5, <1>10, <2>1 DEF Receive!Release, Receive!CoreInv
  <2>2. CASE t # s
    BY <1>9, <1>10, <2>2 DEF Receive!Release, Receive!CoreInv, Receive!TypeOK
  <2> QED BY <2>1, <2>2
<1> QED BY <1>7, <1>8, <1>11

\* Step::drop takes the count away, and closes the session of a step that did
\* not end.
LEMMA UncountInv ==
  ASSUME Receive!Inv, NEW r \in Client, Receive!Uncount(r)
  PROVE  Receive!Inv'
PROOF
<1> DEFINE s == of[r]
           k == kind[r]
<1> USE DEF Receive!Inv, Receive!table, Receive!service, Receive!request
<1>1. s \in Session /\ k \in {"have", "objects"} /\ rpc[r] = "uncount" /\ r \notin parts
        /\ state[s] # "unborn"
  BY DEF Receive!Uncount, Receive!RequestInv, Receive!TypeOK
<1>2. UNCHANGED <<closed, slot, committing, cancel, departing, task, of, kind, body, result, parts>>
  BY DEF Receive!Uncount
<1>3. PICK p \in {"fail", "leave", "respond"} : Receive!Goes(r, p)
  BY DEF Receive!Uncount
<1>4. CloseLeaves
  <2>1. CASE Receive!CloseService(s)
    BY <1>1, <1>2, <2>1, CloseServiceCore
  <2>2. CASE UNCHANGED <<state, signal, core>>
    BY <1>2, <2>2 DEF CloseLeaves, Receive!CoreInv, Receive!HoldersOf, Receive!TypeOK
  <2> QED BY <2>1, <2>2 DEF Receive!Uncount
<1>5. Receive!CountedOf(s, k)' = Receive!CountedOf(s, k) \ {r} /\ r \in Receive!CountedOf(s, k)
  BY <1>1, <1>2, <1>3 DEF Receive!CountedOf, Receive!Goes, Receive!TypeOK
<1>6. \A t \in Session, j \in {"have", "objects"} :
        t # s \/ j # k => Receive!CountedOf(t, j)' = Receive!CountedOf(t, j)
  BY <1>1, <1>2, <1>3 DEF Receive!CountedOf, Receive!Goes, Receive!TypeOK
<1>7. state[s] = "open" =>
        /\ Receive!IsFiniteSet(Receive!CountedOf(s, k)')
        /\ Receive!Cardinality(Receive!CountedOf(s, k)') = inflight[s][k] - 1
        /\ inflight[s][k] - 1 \in Nat
  <2> SUFFICES ASSUME state[s] = "open"
               PROVE  /\ Receive!IsFiniteSet(Receive!CountedOf(s, k)')
                      /\ Receive!Cardinality(Receive!CountedOf(s, k)') = inflight[s][k] - 1
                      /\ inflight[s][k] - 1 \in Nat
    OBVIOUS
  <2>1. Receive!IsFiniteSet(Receive!CountedOf(s, k))
          /\ inflight[s][k] = Receive!Cardinality(Receive!CountedOf(s, k))
    BY <1>1 DEF Receive!CoreInv
  <2>2. Receive!IsFiniteSet(Receive!CountedOf(s, k)')
          /\ Receive!Cardinality(Receive!CountedOf(s, k)') = Receive!Cardinality(Receive!CountedOf(s, k)) - 1
    BY <1>5, <2>1, ReceiveRemoveElement
  <2>3. Receive!Cardinality(Receive!CountedOf(s, k)') \in Nat
    BY <2>2, ReceiveCardinalityType
  <2> QED BY <2>1, <2>2, <2>3
<1>8. inflight' = IF state[s] = "open" THEN [inflight EXCEPT ![s][k] = @ - 1] ELSE inflight
  BY DEF Receive!Uncount
<1>9. inflight' \in [Session -> [{"have", "objects"} -> Nat]]
  BY <1>1, <1>7, <1>8 DEF Receive!TypeOK
<1>10. Receive!TypeOK'
  BY <1>1, <1>2, <1>3, <1>4, <1>9 DEF CloseLeaves, Receive!Goes, Receive!TypeOK
<1>11. Receive!RequestInv' /\ Receive!TableInv'
  BY <1>1, <1>2, <1>3, <1>4 DEF CloseLeaves, Receive!Goes, Receive!TypeOK, Receive!RequestInv,
     Receive!TableInv
<1>12. Receive!CoreInv'
  <2> SUFFICES ASSUME NEW t \in Session PROVE Receive!CoreInv!(t)'
    BY DEF Receive!CoreInv
  <2>1. \A j \in {"have", "objects"} : state'[t] \in {"unborn", "open"} =>
          Receive!IsFiniteSet(Receive!CountedOf(t, j)') /\ inflight'[t][j] = Receive!Cardinality(Receive!CountedOf(t, j)')
    <3> SUFFICES ASSUME NEW j \in {"have", "objects"}, state'[t] \in {"unborn", "open"}
                 PROVE  Receive!IsFiniteSet(Receive!CountedOf(t, j)') /\ inflight'[t][j] = Receive!Cardinality(Receive!CountedOf(t, j)')
      OBVIOUS
    <3>1. state[t] = state'[t]
      BY <1>4 DEF CloseLeaves
    <3>2. CASE t = s /\ j = k
      <4>1. state[s] = "open"
        BY <1>1, <3>1, <3>2
      <4>2. inflight'[s][k] = inflight[s][k] - 1
        BY <1>1, <1>8, <4>1 DEF Receive!TypeOK
      <4> QED BY <1>2, <1>7, <3>2, <4>1, <4>2
    <3>3. CASE ~(t = s /\ j = k)
      BY <1>1, <1>6, <1>8, <3>1, <3>3 DEF Receive!CoreInv, Receive!TypeOK
    <3> QED BY <3>2, <3>3
  <2> QED BY <1>4, <2>1 DEF CloseLeaves, Receive!CoreInv
<1> QED BY <1>10, <1>11, <1>12

\* A commit starts when no step holds the core, and its end drops the core.
LEMMA CommitInv ==
  ASSUME Receive!Inv, NEW s \in Session, Receive!TaskStarts(s) \/ Receive!TaskEnds(s)
  PROVE  Receive!Inv'
PROOF
<1> USE DEF Receive!Inv, Receive!table, Receive!service, Receive!request
<1>1. CASE Receive!TaskStarts(s) /\ ~Receive!Quiet(s)
  BY <1>1, CloseInv DEF Receive!TaskStarts
<1>2. CASE ~(Receive!TaskStarts(s) /\ ~Receive!Quiet(s))
  <2>1. UNCHANGED <<Receive!table, inflight, signal, Receive!request, rpc, parts>>
    BY <1>2 DEF Receive!TaskStarts, Receive!TaskEnds
  <2>2. \A t \in Session : Receive!HoldersOf(t)' = Receive!HoldersOf(t)
    BY <2>1 DEF Receive!HoldersOf
  <2>3. \A t \in Session, j \in {"have", "objects"} : Receive!CountedOf(t, j)' = Receive!CountedOf(t, j)
    BY <2>1 DEF Receive!CountedOf
  <2>4. PICK q \in {"committing", "closed"} :
          /\ state' = [state EXCEPT ![s] = q]
          /\ task' = [task EXCEPT ![s] = IF q = "committing" THEN "running" ELSE "ending"]
          /\ q = "committing" => Receive!Quiet(s) /\ UNCHANGED core /\ task[s] = "spawned"
          /\ q = "closed" => task[s] = "running" /\ core' = [core EXCEPT ![s] = @ - 1]
    BY <1>2 DEF Receive!TaskStarts, Receive!TaskEnds
  <2>5. Receive!HoldersOf(s) = {}
    <3>1. CASE q = "closed"
      BY <2>4, <3>1 DEF Receive!TableInv, Receive!CoreInv
    <3>2. CASE q = "committing"
      <4>1. \A j \in {"have", "objects"} : Receive!CountedOf(s, j) = {}
        BY <2>4, <3>2, ReceiveEmptySet DEF Receive!Quiet, Receive!CoreInv
      <4>2. \A r \in Receive!HoldersOf(s) : r \in Receive!CountedOf(s, "have") \/ r \in Receive!CountedOf(s, "objects")
        BY DEF Receive!HoldersOf, Receive!CountedOf, Receive!RequestInv, Receive!TypeOK
      <4> QED BY <4>1, <4>2
    <3> QED BY <3>1, <3>2
  <2>6. Receive!Cardinality(Receive!HoldersOf(s)) = 0 /\ Receive!IsFiniteSet(Receive!HoldersOf(s))
    BY <2>5, ReceiveEmptySet
  <2>7. core'[s] = IF q = "committing" THEN 1 ELSE 0
    <3>1. core[s] = 1
      BY <2>4, <2>6 DEF Receive!Quiet, Receive!CoreInv, Receive!TableInv
    <3> QED BY <2>4, <3>1 DEF Receive!TypeOK
  <2>8. core' \in [Session -> Nat] /\ \A t \in Session : t # s => core'[t] = core[t]
    BY <2>4, <2>7 DEF Receive!TypeOK
  <2>9. Receive!TypeOK'
    BY <2>1, <2>4, <2>8 DEF Receive!TypeOK
  <2>10. Receive!RequestInv' /\ Receive!TableInv'
    <3>1. Receive!RequestInv'
      BY <2>1, <2>4 DEF Receive!RequestInv, Receive!TypeOK
    <3>2. Receive!TableInv'
      BY <2>1, <2>4 DEF Receive!TableInv, Receive!TypeOK
    <3> QED BY <3>1, <3>2
  <2>11. Receive!CoreInv'
    <3> SUFFICES ASSUME NEW t \in Session PROVE Receive!CoreInv!(t)'
      BY DEF Receive!CoreInv
    <3>1. CASE t = s
      <4>1. state'[s] = q
        BY <2>4 DEF Receive!TypeOK
      <4>2. core'[s] = Receive!Cardinality(Receive!HoldersOf(s)') + IF state'[s] \in {"open", "committing"} THEN 1 ELSE 0
        BY <2>2, <2>6, <2>7, <4>1
      <4> QED BY <2>2, <2>5, <2>6, <3>1, <4>1, <4>2
    <3>2. CASE t # s
      BY <2>1, <2>2, <2>3, <2>4, <2>8, <3>2 DEF Receive!CoreInv, Receive!TypeOK
    <3> QED BY <3>1, <3>2
  <2> QED BY <2>9, <2>10, <2>11
<1> QED BY <1>1, <1>2

\* The entries of the table come and go while the service rests.
LEMMA EntryInv ==
  ASSUME Receive!Inv,
         \/ \E r \in Client : Receive!Begin(r)
         \/ \E s \in Session : Receive!Reserve(s) \/ Receive!CloseCancels(s) \/ (Receive!Insert(s) /\ ~closed)
  PROVE  Receive!Inv'
PROOF
<1> USE DEF Receive!Inv, Receive!table, Receive!service, Receive!request
<1>1. UNCHANGED <<closed, state, inflight, core, signal, of, kind, body, result, parts>>
  BY DEF Receive!Begin, Receive!Reserve, Receive!CloseCancels, Receive!Insert
<1>2. CASE \E r \in Client : Receive!Begin(r)
  <2>1. PICK r \in Client : Receive!Begin(r)
    BY <1>2
  <2>2. PICK p \in {"task", "respond"} : Receive!Goes(r, p) /\ rpc[r] = "begin"
    BY <2>1 DEF Receive!Begin
  <2>3. of[r] \in Session
    BY <2>2 DEF Receive!RequestInv
  <2>4. Receive!TypeOK'
    <3>1. UNCHANGED <<slot, cancel, departing>>
      BY <2>1 DEF Receive!Begin
    <3>2. committing' \in [Session -> BOOLEAN]
      <4>1. UNCHANGED committing \/ committing' = [committing EXCEPT ![of[r]] = TRUE]
        BY <2>1 DEF Receive!Begin
      <4> QED BY <4>1 DEF Receive!TypeOK
    <3>3. task' \in [Session -> {"none", "spawned", "running", "ending", "over"}]
      BY <2>1, <2>3 DEF Receive!Begin, Receive!TypeOK
    <3>4. rpc' \in [Client -> Places]
      BY <2>2 DEF Receive!Goes, Receive!TypeOK, Places
    <3> QED BY <1>1, <3>1, <3>2, <3>3, <3>4 DEF Receive!TypeOK, Places
  <2>5. Receive!RequestInv'
    BY <1>1, <2>2 DEF Receive!Goes, Receive!RequestInv, Receive!TypeOK
  <2>6. Receive!TableInv'
    BY <1>1, <2>1, <2>3 DEF Receive!Begin, Receive!TableInv, Receive!TypeOK
  <2>7. Receive!CoreInv'
    BY <1>1, <2>2, SameParts, SameService
  <2> QED BY <2>4, <2>5, <2>6, <2>7
<1>3. CASE ~\E r \in Client : Receive!Begin(r)
  <2>1. UNCHANGED <<rpc, committing, task>>
    BY <1>3 DEF Receive!Reserve, Receive!CloseCancels, Receive!Insert
  <2>2. Receive!TypeOK'
    <3>1. slot' \in [Session -> {"free", "pending", "open", "ended"}]
      <4>1. UNCHANGED slot \/ \E s \in Session, v \in {"pending", "open"} : slot' = [slot EXCEPT ![s] = v]
        BY <1>3 DEF Receive!Reserve, Receive!CloseCancels, Receive!Insert
      <4> QED BY <4>1 DEF Receive!TypeOK
    <3>2. cancel' \in [Session -> BOOLEAN]
      <4>1. UNCHANGED cancel \/ \E s \in Session : cancel' = [cancel EXCEPT ![s] = TRUE]
        BY <1>3 DEF Receive!Reserve, Receive!CloseCancels, Receive!Insert
      <4> QED BY <4>1 DEF Receive!TypeOK
    <3>3. departing' \in [Session -> {"no", "cancel", "abort", "over"}]
      BY <1>3 DEF Receive!Reserve, Receive!CloseCancels, Receive!Insert, Receive!TypeOK
    <3> QED BY <1>1, <2>1, <3>1, <3>2, <3>3 DEF Receive!TypeOK
  <2>3. Receive!RequestInv'
    BY <1>1, <2>1 DEF Receive!RequestInv
  <2>4. Receive!TableInv'
    BY <1>1, <1>3, <2>1 DEF Receive!Reserve, Receive!CloseCancels, Receive!Insert,
       Receive!TableInv, Receive!TypeOK
  <2>5. Receive!CoreInv'
    BY <1>1, <2>1, SameService DEF Receive!HoldersOf, Receive!CountedOf
  <2> QED BY <2>2, <2>3, <2>4, <2>5
<1> QED BY <1>2, <1>3

\* A session opens with no step.
LEMMA HelloInv ==
  ASSUME Receive!Inv, NEW s \in Session, Receive!Hello(s)
  PROVE  Receive!Inv'
PROOF
<1> USE DEF Receive!Inv, Receive!table, Receive!service, Receive!request
<1>1. Receive!TypeOK'
  BY DEF Receive!Hello, Receive!TypeOK
<1>2. Receive!RequestInv' /\ Receive!TableInv'
  BY DEF Receive!Hello, Receive!RequestInv, Receive!TableInv, Receive!TypeOK
<1>3. Receive!HoldersOf(s) = {}
  BY DEF Receive!Hello, Receive!HoldersOf, Receive!RequestInv, Receive!TypeOK
<1>4. \A t \in Session : Receive!HoldersOf(t)' = Receive!HoldersOf(t)
  BY DEF Receive!Hello, Receive!HoldersOf
<1>5. \A t \in Session, j \in {"have", "objects"} : Receive!CountedOf(t, j)' = Receive!CountedOf(t, j)
  BY DEF Receive!Hello, Receive!CountedOf
<1>6. Receive!Cardinality(Receive!HoldersOf(s)) = 0
  BY <1>3, ReceiveEmptySet
<1>7. Receive!CoreInv'
  BY <1>4, <1>5, <1>6 DEF Receive!Hello, Receive!CoreInv, Receive!TypeOK
<1> QED BY <1>1, <1>2, <1>7

\* Each step keeps the invariant of the sessions.
LEMMA SessionNextInv == Receive!Inv /\ [Receive!Next]_(Receive!vars) => Receive!Inv'
PROOF
<1> SUFFICES ASSUME Receive!Inv, [Receive!Next]_(Receive!vars) PROVE Receive!Inv'
  OBVIOUS
<1>1. CASE UNCHANGED Receive!vars
  <2> USE <1>1 DEF Receive!vars, Receive!Inv
  <2>1. Receive!TypeOK' /\ Receive!RequestInv' /\ Receive!TableInv'
    BY DEF Receive!TypeOK, Receive!RequestInv, Receive!TableInv
  <2>2. Receive!CoreInv'
    BY SameService DEF Receive!service, Receive!HoldersOf, Receive!CountedOf
  <2> QED BY <2>1, <2>2
<1>2. CASE \E r \in Client : Receive!RequestStep(r) \/ Receive!StepFails(r) \/ Receive!BodyArrives(r) \/ Receive!MessageBad(r) \/ Receive!Disconnect(r)
  <2>1. PICK r \in Client : Receive!RequestStep(r) \/ Receive!StepFails(r) \/ Receive!BodyArrives(r) \/ Receive!MessageBad(r) \/ Receive!Disconnect(r)
    BY <1>2
  <2>2. CASE Receive!StepFails(r)
    BY <2>2, CloseInv DEF Receive!StepFails, Receive!Inv, Receive!RequestInv
  <2>3. CASE ~Receive!StepFails(r)
    BY <2>1, <2>3, MoveInv, EnterInv, ReleaseInv, UncountInv, RemoveInv, EntryInv DEF
       Receive!RequestStep, Receive!ReadFails
  <2> QED BY <2>2, <2>3
<1>3. CASE \E r \in Client, s \in Session, k \in {"have", "objects", "commit"} : Receive!Lookup(r, s, k)
  BY <1>3, LookupInv
<1>4. CASE \E s \in Session : Receive!SessionStep(s) \/ Receive!Reserve(s) \/ Receive!Unreserve(s) \/ Receive!Delete(s)
  <2>1. PICK s \in Session : Receive!SessionStep(s) \/ Receive!Reserve(s) \/ Receive!Unreserve(s) \/ Receive!Delete(s)
    BY <1>4
  <2>2. CASE Receive!Insert(s) /\ closed
    BY <2>2, CloseInv DEF Receive!Insert
  <2>3. CASE Receive!Unreserve(s) \/ Receive!CloseAborts(s)
    BY <2>3, CloseInv DEF Receive!Unreserve, Receive!CloseAborts
  <2>4. CASE ~(Receive!Insert(s) /\ closed) /\ ~(Receive!Unreserve(s) \/ Receive!CloseAborts(s))
    BY <2>1, <2>4, HelloInv, CommitInv, RemoveInv, EntryInv DEF Receive!SessionStep
  <2> QED BY <2>2, <2>3, <2>4
<1>5. CASE Receive!CloseAll
  <2>1. closed' = TRUE /\ Receive!Remove(Receive!Endable)
          /\ UNCHANGED <<committing, cancel, Receive!service, task, Receive!request, rpc, parts>>
    BY <1>5 DEF Receive!CloseAll
  <2>2. Receive!Endable \in SUBSET Receive!In("open") /\ \A s \in Receive!Endable : ~committing[s]
    BY DEF Receive!Endable
  <2>3. task \in [Session -> {"none", "spawned", "running", "ending", "over"}]
          /\ \A s \in Session : task[s] # "none" => committing[s]
    BY DEF Receive!Inv, Receive!TypeOK, Receive!TableInv
  <2>4. Receive!TableInv'
    BY <2>1, <2>2, <2>3, RemoveTable DEF Receive!service
  <2> QED
    BY <2>1, <2>3, <2>4, RemoveFrame
<1> QED
  BY <1>1, <1>2, <1>3, <1>4, <1>5 DEF Receive!Next

-----------------------------------------------------------------------------
(* A step of the composition is a step of each component, or leaves it     *)
(* alone.                                                                  *)

\* Each variable of a component changes in its own steps alone.
LEMMA ComponentSteps ==
  ASSUME [MCNext]_<<side, vars, guardVars, jobsVars, sessionVars>>
  PROVE  /\ [Update!Next]_(Update!vars)
         /\ [Jobs!Next]_(Jobs!vars)
         /\ [Receive!Next]_(Receive!vars)
PROOF
<1>1. [Update!Next]_guardVars /\ [Jobs!Next]_jobsVars /\ [Receive!Next]_sessionVars
  BY DEF MCNext
<1>2. UNCHANGED guardVars => UNCHANGED Update!vars
  BY DEF guardVars, Update!vars, Update!locks, Update!writes, Update!jobs, Update!close, Update!disk
<1>3. UNCHANGED jobsVars => UNCHANGED Jobs!vars
  BY DEF jobsVars, Jobs!vars
<1>4. UNCHANGED sessionVars => UNCHANGED Receive!vars
  BY DEF sessionVars, Receive!vars
<1> QED
  BY <1>1, <1>2, <1>3, <1>4

\* In every state the locks of a guard cover its writes, and config is what
\* its edits have read (update.rs).
THEOREM GuardIsInvariant == MCSpec => []Update!Inv
PROOF
<1>1. MCInit => Update!Inv
  BY GuardInit DEF MCInit
<1>2. Update!Inv /\ [MCNext]_<<side, vars, guardVars, jobsVars, sessionVars>> => Update!Inv'
  BY ComponentSteps, GuardNextInv
<1> QED
  BY <1>1, <1>2, PTL DEF MCSpec

\* No guard writes, or leaves a directory it changed unsynced, without both
\* locks, whatever futures drop (write, finish, finish_blocking, Held::drop).
THEOREM GuardHoldsLocks == MCSpec => []WritesUnderLocks
PROOF
<1>1. Update!Inv => WritesUnderLocks
  BY GuardSafe DEF WritesUnderLocks
<1> QED
  BY <1>1, GuardIsInvariant, PTL

\* No edit of config that a job wrote is lost (edit_config).
THEOREM EditsAreKept == MCSpec => []NoLostEdit
PROOF
<1>1. Update!Inv => NoLostEdit
  BY GuardSafe DEF NoLostEdit
<1> QED
  BY <1>1, GuardIsInvariant, PTL

\* When settle returns, no job whose future dropped runs on (Jobs::settle).
THEOREM SettleWaits == MCSpec => SettleSeesAll
PROOF
<1>1. MCInit => Jobs!Inv
  BY JobsInit DEF MCInit
<1>2. Jobs!Inv /\ [MCNext]_<<side, vars, guardVars, jobsVars, sessionVars>> => Jobs!Inv'
  BY ComponentSteps, JobsNextInv
<1>3. Jobs!Inv /\ [MCNext]_<<side, vars, guardVars, jobsVars, sessionVars>>
        => [settle # "returned" /\ settle' = "returned"
              => \A j \in Job : future[j] = "dropped" => jjob[j] = "ended"]_(Jobs!vars)
  BY ComponentSteps, JobsStep
<1> QED
  BY <1>1, <1>2, <1>3, PTL DEF MCSpec, SettleSeesAll, Jobs!SettleSeesAll

\* In every state the references to the core of a session are those of its
\* state and of its steps, and a session that commits has its entry.
THEOREM SessionIsInvariant == MCSpec => []Receive!Inv
PROOF
<1>1. MCInit => Receive!Inv
  BY SessionInit DEF MCInit
<1>2. Receive!Inv /\ [MCNext]_<<side, vars, guardVars, jobsVars, sessionVars>> => Receive!Inv'
  BY ComponentSteps, SessionNextInv
<1> QED
  BY <1>1, <1>2, PTL DEF MCSpec

\* No step holds the core of a session that commits (ReceiveService::commit).
THEOREM CommitHasCore == MCSpec => []CommitOwnsCore
PROOF
<1>1. Receive!Inv => CommitOwnsCore
  BY SessionSafe DEF CommitOwnsCore
<1> QED
  BY <1>1, SessionIsInvariant, PTL

\* Nothing ends a session that commits (SessionTable, Active::drop).
THEOREM CommitKeepsEntry == MCSpec => []CommitIsKept
PROOF
<1>1. Receive!Inv => CommitIsKept
  BY SessionSafe DEF CommitIsKept
<1> QED
  BY <1>1, SessionIsInvariant, PTL
=============================================================================
