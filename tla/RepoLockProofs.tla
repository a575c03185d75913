--------------------------- MODULE RepoLockProofs ---------------------------
(***************************************************************************)
(* Proofs that the repository lock excludes, that each guard has its       *)
(* record lock, and that the lock implements RWLock, for every number of   *)
(* processes and tasks.                                                    *)
(***************************************************************************)
EXTENDS RepoLock, FiniteSetTheorems, TLAPS

\* The guards of a process are finite in number.
LEMMA HoldersFinite ==
  ASSUME NEW p, NEW k
  PROVE  IsFiniteSet(HoldersOf(p, k)) /\ Cardinality(HoldersOf(p, k)) \in Nat
PROOF
<1>1. HoldersOf(p, k) \in SUBSET Task
  BY DEF HoldersOf
<1> QED
  BY <1>1, TaskAssumption, FS_Subset, FS_CardinalityType

\* A count of zero says that the process has no guard of the kind.
LEMMA ZeroHolders ==
  ASSUME Inv, NEW t \in Task
  PROVE  /\ shared[ProcOf[t]] = 0 => holds[t] # "shared"
         /\ exclusive[ProcOf[t]] = 0 => holds[t] # "exclusive"
PROOF
<1> DEFINE p == ProcOf[t]
<1>0. p \in Process
  BY ProcOfAssumption
<1>1. \A k \in Kind : Cardinality(HoldersOf(p, k)) = 0 => HoldersOf(p, k) = {}
  BY HoldersFinite, FS_EmptySet
<1>2. ASSUME shared[p] = 0 PROVE holds[t] # "shared"
  BY <1>0, <1>1, <1>2 DEF Inv, CountInv, HoldersOf, Kind
<1>3. ASSUME exclusive[p] = 0 PROVE holds[t] # "exclusive"
  BY <1>0, <1>1, <1>3 DEF Inv, CountInv, HoldersOf, Kind
<1> QED
  BY <1>2, <1>3

\* A guard raises the count of its kind above zero.
LEMMA CountOfGuard ==
  ASSUME Inv, NEW t \in Task
  PROVE  /\ holds[t] = "shared" => shared[ProcOf[t]] > 0 /\ exclusive[ProcOf[t]] = 0
         /\ holds[t] = "exclusive" => exclusive[ProcOf[t]] = 1 /\ shared[ProcOf[t]] = 0
PROOF
<1>1. ProcOf[t] \in Process
  BY ProcOfAssumption
<1>2. shared[ProcOf[t]] \in Nat /\ exclusive[ProcOf[t]] \in Nat
  BY <1>1 DEF Inv, TypeOK
<1> QED
  BY <1>1, <1>2, ZeroHolders DEF Inv, CountInv

(* With no holds and no record locks the invariant holds. *)
LEMMA InitInv == Init => Inv
PROOF
<1> SUFFICES ASSUME Init PROVE Inv
  OBVIOUS
<1>1. TypeOK
  BY DEF Init, TypeOK, Effective
<1>2. CountInv
  <2> SUFFICES ASSUME NEW p \in Process
               PROVE  /\ shared[p] = Cardinality(HoldersOf(p, "shared"))
                      /\ exclusive[p] = Cardinality(HoldersOf(p, "exclusive"))
                      /\ exclusive[p] = 0
    BY DEF CountInv
  <2>1. HoldersOf(p, "shared") = {} /\ HoldersOf(p, "exclusive") = {}
    BY DEF Init, HoldersOf
  <2> QED
    BY <2>1, FS_EmptySet DEF Init
<1>3. EffectiveInv
  BY DEF Init, EffectiveInv, Target
<1>4. KernelInv
  BY DEF Init, KernelInv
<1> QED
  BY <1>1, <1>2, <1>3, <1>4 DEF Inv

\* A successful attempt preserves the invariant.
LEMMA TryAcquiredInv ==
  ASSUME Inv, NEW t \in Task, NEW k \in Kind, TryAcquired(t, k)
  PROVE  Inv'
PROOF
<1> DEFINE p == ProcOf[t]
<1>0. p \in Process /\ holds[t] = "none" /\ ~Excluded(p, k)
  BY ProcOfAssumption DEF TryAcquired, Tries
<1>1. TypeOK'
  BY <1>0 DEF Inv, TypeOK, TryAcquired, Effective, Kind
<1>2. holds'[t] = k /\ \A u \in Task \ {t} : holds'[u] = holds[u]
  BY DEF Inv, TypeOK, TryAcquired
<1>3. /\ HoldersOf(p, k)' = HoldersOf(p, k) \cup {t}
      /\ \A q \in Process, j \in Kind :
           q # p \/ j # k => HoldersOf(q, j)' = HoldersOf(q, j)
  BY <1>0, <1>2 DEF HoldersOf, Kind
<1>4. Cardinality(HoldersOf(p, k)') = Cardinality(HoldersOf(p, k)) + 1
  <2>1. t \notin HoldersOf(p, k)
    BY <1>0 DEF HoldersOf, Kind
  <2> QED
    BY <2>1, <1>3, HoldersFinite, FS_AddElement
<1>5. /\ k = "shared" => exclusive[p] = 0
      /\ k = "exclusive" => exclusive[p] = 0 /\ shared[p] = 0
  BY <1>0 DEF Inv, TypeOK, Excluded, Kind
<1>6. /\ shared'[p] = IF k = "shared" THEN shared[p] + 1 ELSE shared[p]
      /\ exclusive'[p] = IF k = "exclusive" THEN exclusive[p] + 1 ELSE exclusive[p]
      /\ record'[p] = k /\ os'[p] = k
      /\ \A q \in Process \ {p} :
           /\ shared'[q] = shared[q] /\ exclusive'[q] = exclusive[q]
           /\ record'[q] = record[q] /\ os'[q] = os[q]
  BY <1>0 DEF Inv, TypeOK, TryAcquired
<1>7. CountInv'
  <2> SUFFICES ASSUME NEW q \in Process
               PROVE  /\ shared'[q] = Cardinality(HoldersOf(q, "shared")')
                      /\ exclusive'[q] = Cardinality(HoldersOf(q, "exclusive")')
                      /\ exclusive'[q] <= 1
                      /\ exclusive'[q] = 0 \/ shared'[q] = 0
    BY DEF CountInv
  <2>1. CASE q # p
    <3>1. /\ HoldersOf(q, "shared")' = HoldersOf(q, "shared")
          /\ HoldersOf(q, "exclusive")' = HoldersOf(q, "exclusive")
      BY <2>1, <1>3 DEF Kind
    <3> QED
      BY <2>1, <3>1, <1>6 DEF Inv, CountInv
  <2>2. CASE q = p /\ k = "shared"
    <3>1. HoldersOf(q, "exclusive")' = HoldersOf(q, "exclusive")
      BY <2>2, <1>3 DEF Kind
    <3> QED
      BY <2>2, <3>1, <1>0, <1>4, <1>5, <1>6 DEF Inv, TypeOK, CountInv
  <2>3. CASE q = p /\ k = "exclusive"
    <3>1. HoldersOf(q, "shared")' = HoldersOf(q, "shared")
      BY <2>3, <1>3 DEF Kind
    <3> QED
      BY <2>3, <3>1, <1>0, <1>4, <1>5, <1>6 DEF Inv, TypeOK, CountInv
  <2> QED
    BY <2>1, <2>2, <2>3 DEF Kind
<1>8. EffectiveInv'
  <2>1. Target(p, shared'[p], exclusive'[p]) = k
    BY <1>0, <1>5, <1>6 DEF Inv, TypeOK, Target, Kind
  <2> QED
    BY <2>1, <1>6 DEF Inv, EffectiveInv, Target
<1>9. KernelInv'
  <2>1. CASE KernelGrants(p, k)
    BY <2>1, <1>6 DEF KernelGrants, Inv, KernelInv, Kind
  <2>2. CASE Joins(p, k)
    <3>1. record[p] = k /\ k = "shared"
      BY <2>2, <1>0 DEF Joins, Inv, EffectiveInv
    <3> QED
      BY <3>1, <1>0, <1>6 DEF Inv, KernelInv
  <2> QED
    BY <2>1, <2>2 DEF TryAcquired
<1> QED
  BY <1>1, <1>7, <1>8, <1>9 DEF Inv

\* The drop of a guard preserves the invariant.
LEMMA ReleaseInv ==
  ASSUME Inv, NEW t \in Task, Release(t)
  PROVE  Inv'
PROOF
<1> DEFINE p == ProcOf[t]
           s == IF holds[t] = "shared" THEN Less(shared[p]) ELSE shared[p]
           e == IF holds[t] = "exclusive" THEN Less(exclusive[p]) ELSE exclusive[p]
<1>k. PICK k \in Kind : holds[t] = k
  BY DEF Release, Inv, TypeOK, Effective
<1>0. p \in Process /\ k \in Kind /\ holds[t] = k
  BY <1>k, ProcOfAssumption
<1>1. shared[p] \in Nat /\ exclusive[p] \in Nat
  BY <1>0 DEF Inv, TypeOK
<1>2. /\ k = "shared" => shared[p] > 0 /\ exclusive[p] = 0
      /\ k = "exclusive" => exclusive[p] = 1 /\ shared[p] = 0
  BY <1>0, CountOfGuard
<1>3. /\ s = IF k = "shared" THEN shared[p] - 1 ELSE shared[p]
      /\ e = 0 /\ s \in Nat
  BY <1>0, <1>1, <1>2 DEF Less, Kind
<1>4. /\ shared'[p] = s /\ exclusive'[p] = e /\ os'[p] = Target(p, s, e)
      /\ \A q \in Process \ {p} :
           /\ shared'[q] = shared[q] /\ exclusive'[q] = exclusive[q]
           /\ record'[q] = record[q] /\ os'[q] = os[q]
      /\ holds'[t] = "none" /\ \A u \in Task \ {t} : holds'[u] = holds[u]
  BY <1>0 DEF Inv, TypeOK, Release
<1>5. record'[p] = os'[p]
  <2>1. Target(p, s, e) \in {"none", "shared"}
    BY <1>3 DEF Target
  <2>2. os[p] = k /\ record[p] = os[p]
    BY <1>0, <1>1, <1>2 DEF Inv, EffectiveInv, Target, Kind
  <2>3. Target(p, s, e) # os[p] => Target(p, s, e) = "none"
    BY <2>2, <1>0, <1>2, <1>3 DEF Target, Kind
  <2> QED
    BY <2>2, <2>3, <1>0, <1>4 DEF Inv, TypeOK, Release, Unlocks
<1>6. TypeOK'
  <2>1. Target(p, s, e) \in Effective
    BY DEF Target, Effective, Kind
  <2> QED
    BY <2>1, <1>0, <1>3 DEF Inv, TypeOK, Release, Effective
<1>7. /\ HoldersOf(p, k)' = HoldersOf(p, k) \ {t}
      /\ \A q \in Process, j \in Kind :
           q # p \/ j # k => HoldersOf(q, j)' = HoldersOf(q, j)
  BY <1>0, <1>4 DEF HoldersOf, Kind
<1>8. Cardinality(HoldersOf(p, k)') = Cardinality(HoldersOf(p, k)) - 1
  <2>1. t \in HoldersOf(p, k)
    BY <1>0 DEF HoldersOf
  <2> QED
    BY <2>1, <1>7, HoldersFinite, FS_RemoveElement
<1>9. CountInv'
  <2> SUFFICES ASSUME NEW q \in Process
               PROVE  /\ shared'[q] = Cardinality(HoldersOf(q, "shared")')
                      /\ exclusive'[q] = Cardinality(HoldersOf(q, "exclusive")')
                      /\ exclusive'[q] <= 1
                      /\ exclusive'[q] = 0 \/ shared'[q] = 0
    BY DEF CountInv
  <2>1. CASE q # p
    <3>1. /\ HoldersOf(q, "shared")' = HoldersOf(q, "shared")
          /\ HoldersOf(q, "exclusive")' = HoldersOf(q, "exclusive")
      BY <2>1, <1>7 DEF Kind
    <3> QED
      BY <2>1, <3>1, <1>4 DEF Inv, CountInv
  <2>2. CASE q = p /\ k = "shared"
    <3>1. HoldersOf(q, "exclusive")' = HoldersOf(q, "exclusive")
      BY <2>2, <1>7 DEF Kind
    <3> QED
      BY <2>2, <3>1, <1>0, <1>2, <1>3, <1>4, <1>8 DEF Inv, CountInv
  <2>3. CASE q = p /\ k = "exclusive"
    <3>1. HoldersOf(q, "shared")' = HoldersOf(q, "shared")
      BY <2>3, <1>7 DEF Kind
    <3> QED
      BY <2>3, <3>1, <1>0, <1>2, <1>3, <1>4, <1>8 DEF Inv, CountInv
  <2> QED
    BY <2>1, <2>2, <2>3, <1>0 DEF Kind
<1>10. EffectiveInv'
  BY <1>4, <1>5 DEF Inv, EffectiveInv, Target
<1>11. KernelInv'
  <2>1. os'[p] = "none" \/ (os'[p] = "shared" /\ record[p] = "shared")
    <3>1. CASE k = "shared"
      <4>1. record[p] = "shared"
        BY <3>1, <1>0, <1>1, <1>2 DEF Inv, EffectiveInv, Target
      <4> HIDE DEF s, e
      <4> QED
        BY <4>1, <1>3, <1>4 DEF Target
    <3>2. CASE k = "exclusive"
      <4>1. s = 0 /\ e = 0
        BY <3>2, <1>2, <1>3
      <4> HIDE DEF s, e
      <4> QED
        BY <4>1, <1>4 DEF Target
    <3> QED
      BY <3>1, <3>2, <1>0 DEF Kind
  <2> QED
    BY <2>1, <1>0, <1>4, <1>5 DEF Inv, KernelInv
<1> QED
  BY <1>6, <1>9, <1>10, <1>11 DEF Inv

\* The end of a process preserves the invariant.
LEMMA ProcessEndsInv ==
  ASSUME Inv, NEW p \in Process, ProcessEnds(p)
  PROVE  Inv'
PROOF
<1>1. TypeOK'
  BY DEF Inv, TypeOK, ProcessEnds, Effective
<1>2. /\ shared'[p] = 0 /\ exclusive'[p] = 0 /\ os'[p] = "none" /\ record'[p] = "none"
      /\ \A q \in Process \ {p} :
           /\ shared'[q] = shared[q] /\ exclusive'[q] = exclusive[q]
           /\ record'[q] = record[q] /\ os'[q] = os[q]
  BY DEF Inv, TypeOK, ProcessEnds
<1>3. \A k \in Kind :
        /\ HoldersOf(p, k)' = {}
        /\ \A q \in Process \ {p} : HoldersOf(q, k)' = HoldersOf(q, k)
  BY DEF ProcessEnds, HoldersOf, Kind
<1>4. CountInv'
  <2> SUFFICES ASSUME NEW q \in Process
               PROVE  /\ shared'[q] = Cardinality(HoldersOf(q, "shared")')
                      /\ exclusive'[q] = Cardinality(HoldersOf(q, "exclusive")')
                      /\ exclusive'[q] <= 1
                      /\ exclusive'[q] = 0 \/ shared'[q] = 0
    BY DEF CountInv
  <2>1. CASE q = p
    BY <2>1, <1>2, <1>3, FS_EmptySet DEF Kind
  <2>2. CASE q # p
    BY <2>2, <1>2, <1>3 DEF Inv, CountInv, Kind
  <2> QED
    BY <2>1, <2>2
<1>5. EffectiveInv'
  BY <1>2 DEF Inv, EffectiveInv, Target
<1>6. KernelInv'
  BY <1>2 DEF Inv, KernelInv
<1> QED
  BY <1>1, <1>4, <1>5, <1>6 DEF Inv

\* A step of the retry loop that changes nothing but the wait.
LEMMA WaitInv ==
  ASSUME Inv, waits' \in [Task -> Effective],
         UNCHANGED <<record, shared, exclusive, os, holds>>
  PROVE  Inv'
PROOF
  BY DEF Inv, TypeOK, CountInv, EffectiveInv, KernelInv, HoldersOf, Target

\* Every step preserves the invariant.
LEMMA NextInv == Inv /\ [Next]_vars => Inv'
PROOF
<1> SUFFICES ASSUME Inv, [Next]_vars PROVE Inv'
  OBVIOUS
<1>1. CASE UNCHANGED vars
  BY <1>1, WaitInv DEF vars, Inv, TypeOK
<1>2. ASSUME NEW t \in Task, NEW k \in Kind, TryAcquired(t, k) PROVE Inv'
  BY <1>2, TryAcquiredInv
<1>3. ASSUME NEW t \in Task, NEW k \in Kind, TryWouldBlock(t, k) PROVE Inv'
  <2>1. waits' \in [Task -> Effective]
    BY <1>3 DEF TryWouldBlock, Inv, TypeOK, Effective
  <2> QED
    BY <1>3, <2>1, WaitInv DEF TryWouldBlock
<1>4. ASSUME NEW t \in Task, GiveUp(t) PROVE Inv'
  <2>1. waits' \in [Task -> Effective]
    BY <1>4 DEF GiveUp, Inv, TypeOK, Effective
  <2> QED
    BY <1>4, <2>1, WaitInv DEF GiveUp
<1>5. ASSUME NEW t \in Task, Release(t) PROVE Inv'
  BY <1>5, ReleaseInv
<1>6. ASSUME NEW p \in Process, ProcessEnds(p) PROVE Inv'
  BY <1>6, ProcessEndsInv
<1> QED
  BY <1>1, <1>2, <1>3, <1>4, <1>5, <1>6 DEF Next

\* The counts, the effective lock and the kernel agree in every reachable
\* state.
THEOREM Invariance == Spec => []Inv
PROOF
  BY InitInv, NextInv, PTL DEF Spec

\* Each guard has a record lock of its kind.
LEMMA InvRecorded == Inv => HoldIsRecorded
PROOF
<1> SUFFICES ASSUME Inv, NEW t \in Task, holds[t] # "none"
             PROVE  record[ProcOf[t]] = holds[t]
  BY DEF HoldIsRecorded
<1>1. ProcOf[t] \in Process /\ holds[t] \in Kind
  BY ProcOfAssumption DEF Inv, TypeOK, Effective
<1>2. shared[ProcOf[t]] \in Nat /\ exclusive[ProcOf[t]] \in Nat
  BY <1>1 DEF Inv, TypeOK
<1> QED
  BY <1>1, <1>2, CountOfGuard DEF Inv, EffectiveInv, Target, Kind

\* An exclusive guard is the only guard.
LEMMA InvExclusion == Inv => ReadersWriterExclusion
PROOF
<1> SUFFICES ASSUME Inv, NEW t \in Task, NEW u \in Task,
                    holds[t] = "exclusive", holds[u] # "none"
             PROVE  t = u
  BY DEF ReadersWriterExclusion
<1> DEFINE p == ProcOf[t]
<1>1. p \in Process /\ ProcOf[u] \in Process /\ holds[u] \in Kind
  BY ProcOfAssumption DEF Inv, TypeOK, Effective
<1>2. record[p] = "exclusive" /\ record[ProcOf[u]] = holds[u]
  BY InvRecorded DEF HoldIsRecorded
<1>3. ProcOf[u] = p
  BY <1>1, <1>2 DEF Inv, KernelInv
<1>4. holds[u] = "exclusive" /\ exclusive[p] = 1
  BY <1>1, <1>3, CountOfGuard DEF Kind
<1>5. PICK x : HoldersOf(p, "exclusive") = {x}
  BY <1>1, <1>4, HoldersFinite, FS_Singleton DEF Inv, CountInv
<1> QED
  BY <1>3, <1>4, <1>5 DEF HoldersOf

\* An exclusive holder of the repository lock is the only holder, over all
\* tasks of all processes.
THEOREM Exclusion == Spec => []ReadersWriterExclusion
PROOF
  BY Invariance, InvExclusion, PTL

\* No release by another guard of the process takes away the record lock of a
\* guard, and no acquire changes its kind.
THEOREM Recorded == Spec => []HoldIsRecorded
PROOF
  BY Invariance, InvRecorded, PTL

\* The initial states of the repository lock are initial states of RWLock.
LEMMA RefinesInit == Init => RW!Init
PROOF
  BY DEF Init, RW!Init, Readers, Writers

\* Each step of the repository lock is a step of RWLock or changes no hold.
LEMMA RefinesNext ==
  ASSUME Inv, Inv', [Next]_vars
  PROVE  [RW!Next]_(RW!vars)
PROOF
<1>1. CASE UNCHANGED vars
  BY <1>1 DEF vars, RW!vars, Readers, Writers
<1>2. ASSUME NEW t \in Task, NEW k \in Kind, TryAcquired(t, k)
      PROVE  RW!Next
  <2>1. holds[t] = "none" /\ holds'[t] = k /\ \A u \in Task \ {t} : holds'[u] = holds[u]
    BY <1>2 DEF TryAcquired, Tries, Inv, TypeOK
  <2>2. ReadersWriterExclusion'
    <3>1. Inv => ReadersWriterExclusion
      BY InvExclusion
    <3>2. Inv' => ReadersWriterExclusion'
      BY InvExclusion, PTL
    <3> QED
      BY <3>2
  <2>3. CASE k = "shared"
    <3>1. Writers = {} /\ t \notin Readers \cup Writers
      BY <2>1, <2>2, <2>3 DEF ReadersWriterExclusion, Writers, Readers
    <3>2. Readers' = Readers \cup {t} /\ Writers' = Writers
      BY <2>1, <2>3 DEF Readers, Writers
    <3>3. RW!AcquireShared(t)
      BY <3>1, <3>2 DEF RW!AcquireShared
    <3> QED
      BY <3>3 DEF RW!Next
  <2>4. CASE k = "exclusive"
    <3>1. Writers = {} /\ Readers = {}
      BY <2>1, <2>2, <2>4 DEF ReadersWriterExclusion, Writers, Readers
    <3>2. Readers' = Readers /\ Writers' = {t}
      BY <2>1, <2>4, <3>1 DEF Readers, Writers
    <3>3. RW!AcquireExclusive(t)
      BY <3>1, <3>2 DEF RW!AcquireExclusive
    <3> QED
      BY <3>3 DEF RW!Next
  <2> QED
    BY <2>3, <2>4 DEF Kind
<1>3. ASSUME NEW t \in Task, Release(t) PROVE RW!Next
  <2>1. holds'[t] = "none" /\ \A u \in Task \ {t} : holds'[u] = holds[u]
    BY <1>3 DEF Release, Inv, TypeOK
  <2>2. Readers' = Readers \ {t} /\ Writers' = Writers \ {t}
    BY <2>1 DEF Readers, Writers
  <2> QED
    BY <2>2 DEF RW!Next, RW!Release
<1>4. ASSUME NEW p \in Process, ProcessEnds(p) PROVE RW!Next
  <2> DEFINE S == {t \in Task : ProcOf[t] = p}
  <2>1. Readers' = Readers \ S /\ Writers' = Writers \ S
    BY <1>4 DEF ProcessEnds, Readers, Writers
  <2>2. S \in SUBSET Task
    OBVIOUS
  <2> QED
    BY <2>1, <2>2 DEF RW!Next, RW!Release
<1>5. ASSUME NEW t \in Task,
             GiveUp(t) \/ \E k \in Kind : TryWouldBlock(t, k)
      PROVE  UNCHANGED RW!vars
  BY <1>5 DEF GiveUp, TryWouldBlock, RW!vars, Readers, Writers
<1> QED
  BY <1>1, <1>2, <1>3, <1>4, <1>5 DEF Next

\* The repository lock implements the readers-writer lock of the rules of
\* LockKind.
THEOREM Refinement == Spec => RWSpec
PROOF
<1>1. Inv /\ Inv' /\ [Next]_vars => [RW!Next]_(RW!vars)
  BY RefinesNext
<1> QED
  BY <1>1, RefinesInit, Invariance, PTL DEF Spec, RWSpec, RW!Spec
=============================================================================
