-------------------------- MODULE RepositoryProofs --------------------------
(***************************************************************************)
(* Proofs about a local repository: about the commit store, for every      *)
(* number of pulls, writers and prunes and all trees, as long as each      *)
(* fetcher has a commit of its own, and about the commits of the receive   *)
(* sessions (R), for every number of sessions, history and messages.       *)
(***************************************************************************)
EXTENDS MCRepository, TLAPS

\* The tree of a commit is content.
LEMMA ClosureIsContent ==
  ASSUME NEW c \in Commit
  PROVE  Closure(c) \subseteq Content /\ c \notin Closure(c)
PROOF
  BY TreeAssumption, ObjectAssumption DEF Closure

\* The initial state satisfies the invariant.
LEMMA InitInv == Init => Inv
PROOF
  BY ActorAssumption DEF Init, Inv, TypeOK, LockInv, FetchInv, FetchOK, SweepInv, SweepOK,
     UnmarkedIsComplete, TipIsComplete, Complete, Open, Sweeping, Actor, Fetcher

\* While a fetcher is open, no prune has doomed objects.
LEMMA OpenExcludesSweep ==
  ASSUME TypeOK, LockInv, NEW a \in Fetcher, pc[a] \in Open, NEW p \in Pruner
  PROVE  pc[p] = "idle" /\ hold[p] = "none"
PROOF
  BY ActorAssumption DEF LockInv, TypeOK, Open, Sweeping, Actor, Fetcher

\* A step that leaves a fetcher, its marker and the presence of its commit
\* alone, and takes no object away, preserves what holds of the fetcher.
LEMMA FetchFrame ==
  ASSUME NEW b \in Fetcher, FetchOK(b),
         pc'[b] = pc[b], whole'[b] = whole[b], marked'[b] = marked[b], todo'[b] = todo[b],
         staged'[b] = staged[b], store \subseteq store',
         Wants[b] \in store' => Wants[b] \in store,
         Wants[b] \in mark => Wants[b] \in mark'
  PROVE  FetchOK(b)'
PROOF
  BY DEF FetchOK, Whole, Closure

\* A step that leaves a prune, the store and the refs alone.
LEMMA SweepFrame ==
  ASSUME NEW p \in Pruner, SweepOK(p), pc'[p] = pc[p], left'[p] = left[p], kept'[p] = kept[p],
         store' = store, tips' \subseteq tips
  PROVE  SweepOK(p)'
PROOF
  BY DEF SweepOK, Closure

\* The begin of a transaction preserves the invariant.
LEMMA BeginInv ==
  ASSUME Inv, NEW a \in Fetcher, Begin(a)
  PROVE  Inv'
PROOF
<1> USE ActorAssumption, ObjectAssumption, TreeAssumption DEF Inv, Begin, Goes
<1>1. TypeOK'
  <2>1. whole' \in [Fetcher -> BOOLEAN]
    <3> PICK f \in IF a \in Puller THEN BOOLEAN ELSE {TRUE} : whole' = [whole EXCEPT ![a] = f]
      OBVIOUS
    <3>1. f \in BOOLEAN
      OBVIOUS
    <3> QED
      BY <3>1 DEF TypeOK
  <2>2. todo' \in [Fetcher -> SUBSET Object]
    <3>1. {Wants[a]} \cup Closure(Wants[a]) \in SUBSET Object
      BY ClosureIsContent DEF Object
    <3> QED
      BY <3>1 DEF TypeOK
  <2> QED
    BY <2>1, <2>2 DEF TypeOK, Actor, Fetcher
<1>2. LockInv'
  BY DEF TypeOK, LockInv, MayShare, Actor, Fetcher, Open, Sweeping
<1>3. FetchInv'
  <2> SUFFICES ASSUME NEW b \in Fetcher PROVE FetchOK(b)'
    BY DEF FetchInv
  <2>1. CASE b = a
    BY <2>1, ClosureIsContent DEF FetchInv, FetchOK, TypeOK, Whole, Actor, Fetcher
  <2>2. CASE b # a
    BY <2>2, FetchFrame DEF FetchInv, TypeOK, Actor
  <2> QED
    BY <2>1, <2>2
<1>4. SweepInv'
  BY SweepFrame DEF SweepInv, TypeOK, Actor, Fetcher
<1>5. UnmarkedIsComplete' /\ TipIsComplete'
  BY DEF UnmarkedIsComplete, TipIsComplete, Complete, Closure
<1> QED
  BY <1>1, <1>2, <1>3, <1>4, <1>5

\* The state check of a pull preserves the invariant.
LEMMA CheckInv ==
  ASSUME Inv, NEW a \in Fetcher, Check(a)
  PROVE  Inv'
PROOF
<1> USE ActorAssumption, ObjectAssumption, TreeAssumption DEF Inv, Check, Goes
<1>1. TypeOK'
  <2>1. \A s \in Plans(a) : s \subseteq Object
    BY DEF Plans, Object, Closure
  <2> QED
    BY <2>1 DEF TypeOK, Actor, Fetcher
<1>2. LockInv'
  BY DEF TypeOK, LockInv, Actor, Fetcher, Open, Sweeping
<1>3. FetchInv'
  <2> SUFFICES ASSUME NEW b \in Fetcher PROVE FetchOK(b)'
    BY DEF FetchInv
  <2>1. CASE b = a
    <3>1. a \in Puller
      BY DEF LockInv, Fetcher
    <3>2. CASE Complete(Wants[a])
      <4>1. Closure(Wants[a]) \subseteq store /\ Wants[a] \in store
        BY <3>1, <3>2 DEF UnmarkedIsComplete, Complete
      <4>2. todo'[a] = {} /\ ~marked'[a] /\ pc'[a] = "stage"
        BY <3>2 DEF Plans, TypeOK, Actor, Fetcher
      <4> QED
        BY <2>1, <3>1, <3>2, <4>1, <4>2 DEF FetchInv, FetchOK, TypeOK, Whole, Closure, Actor, Fetcher
    <3>3. CASE ~Complete(Wants[a])
      <4>1. marked'[a] /\ pc'[a] = "mark" /\ whole'[a] = whole[a] /\ staged'[a] = {}
        BY <3>3 DEF FetchInv, FetchOK, TypeOK, Actor, Fetcher
      <4>2. /\ Wants[a] \in todo'[a]
            /\ whole[a] => Whole(Wants[a]) \subseteq todo'[a]
            /\ todo'[a] \cap Commit \subseteq {Wants[a]}
        <5> PICK s \in Plans(a) : todo' = [todo EXCEPT ![a] = s]
          OBVIOUS
        <5>1. todo'[a] = s
          BY DEF TypeOK
        <5>2. CASE whole[a]
          BY <3>3, <5>1, <5>2, ClosureIsContent DEF Plans, Whole
        <5>3. CASE ~whole[a]
          BY <3>3, <5>1, <5>3, ClosureIsContent DEF Plans
        <5> QED
          BY <5>2, <5>3
      <4> QED
        BY <2>1, <3>1, <4>1, <4>2 DEF FetchOK, Whole, Closure
    <3> QED
      BY <3>2, <3>3
  <2>2. CASE b # a
    BY <2>2, FetchFrame DEF FetchInv, TypeOK, Actor
  <2> QED
    BY <2>1, <2>2
<1>4. SweepInv'
  BY SweepFrame DEF SweepInv, TypeOK, Actor, Fetcher
<1>5. UnmarkedIsComplete' /\ TipIsComplete'
  BY DEF UnmarkedIsComplete, TipIsComplete, Complete, Closure
<1> QED
  BY <1>1, <1>2, <1>3, <1>4, <1>5

\* The write of a marker preserves the invariant.
LEMMA MarkInv ==
  ASSUME Inv, NEW a \in Fetcher, Mark(a)
  PROVE  Inv'
PROOF
<1> USE ActorAssumption, ObjectAssumption, TreeAssumption DEF Inv, Mark, Goes
<1>1. TypeOK'
  BY DEF TypeOK, Actor, Fetcher, Object
<1>2. LockInv'
  BY DEF TypeOK, LockInv, FetchInv, FetchOK, Actor, Fetcher, Open, Sweeping
<1>3. FetchInv'
  <2> SUFFICES ASSUME NEW b \in Fetcher PROVE FetchOK(b)'
    BY DEF FetchInv
  <2>1. CASE b = a
    BY <2>1 DEF FetchInv, FetchOK, TypeOK, Whole, Closure, Actor, Fetcher
  <2>2. CASE b # a
    BY <2>2, FetchFrame DEF FetchInv, TypeOK, Actor
  <2> QED
    BY <2>1, <2>2
<1>4. SweepInv'
  BY SweepFrame DEF SweepInv, TypeOK, Actor, Fetcher
<1>5. UnmarkedIsComplete' /\ TipIsComplete'
  BY DEF UnmarkedIsComplete, TipIsComplete, Complete, Closure
<1> QED
  BY <1>1, <1>2, <1>3, <1>4, <1>5

\* The staging of an object preserves the invariant.
LEMMA StageInv ==
  ASSUME Inv, NEW o \in Object, NEW a \in Fetcher, Stage(a, o)
  PROVE  Inv'
PROOF
<1> USE ActorAssumption, ObjectAssumption, TreeAssumption DEF Inv, Stage, Goes
<1>1. TypeOK'
  BY DEF TypeOK, Actor, Fetcher, Object
<1>2. LockInv'
  BY DEF TypeOK, LockInv, FetchInv, FetchOK, Actor, Fetcher, Open, Sweeping
<1>3. FetchInv'
  <2> SUFFICES ASSUME NEW b \in Fetcher PROVE FetchOK(b)'
    BY DEF FetchInv
  <2>1. CASE b = a
    BY <2>1 DEF FetchInv, FetchOK, TypeOK, Whole, Closure, Actor, Fetcher
  <2>2. CASE b # a
    BY <2>2, FetchFrame DEF FetchInv, TypeOK, Actor
  <2> QED
    BY <2>1, <2>2
<1>4. SweepInv'
  BY SweepFrame DEF SweepInv, TypeOK, Actor, Fetcher
<1>5. UnmarkedIsComplete' /\ TipIsComplete'
  BY DEF UnmarkedIsComplete, TipIsComplete, Complete, Closure
<1> QED
  BY <1>1, <1>2, <1>3, <1>4, <1>5

\* The start of the publication preserves the invariant.
LEMMA CommitTransactionInv ==
  ASSUME Inv, NEW a \in Fetcher, CommitTransaction(a)
  PROVE  Inv'
PROOF
<1> USE ActorAssumption, ObjectAssumption, TreeAssumption DEF Inv, CommitTransaction, Goes
<1>1. TypeOK'
  BY DEF TypeOK, Actor, Fetcher, Object
<1>2. LockInv'
  BY DEF TypeOK, LockInv, FetchInv, FetchOK, Actor, Fetcher, Open, Sweeping
<1>3. FetchInv'
  <2> SUFFICES ASSUME NEW b \in Fetcher PROVE FetchOK(b)'
    BY DEF FetchInv
  <2>1. CASE b = a
    BY <2>1 DEF FetchInv, FetchOK, TypeOK, Whole, Closure, Actor, Fetcher
  <2>2. CASE b # a
    BY <2>2, FetchFrame DEF FetchInv, TypeOK, Actor
  <2> QED
    BY <2>1, <2>2
<1>4. SweepInv'
  BY SweepFrame DEF SweepInv, TypeOK, Actor, Fetcher
<1>5. UnmarkedIsComplete' /\ TipIsComplete'
  BY DEF UnmarkedIsComplete, TipIsComplete, Complete, Closure
<1> QED
  BY <1>1, <1>2, <1>3, <1>4, <1>5

\* A rename into the store preserves the invariant: it is the commit of its
\* own fetcher that appears, under its marker.
LEMMA PublishInv ==
  ASSUME Inv, OwnCommits, NEW o \in Object, NEW a \in Fetcher, Publish(a, o)
  PROVE  Inv'
PROOF
<1> USE ActorAssumption, ObjectAssumption, TreeAssumption DEF Inv, Publish, Goes
<1>1. TypeOK'
  BY DEF TypeOK, Actor, Fetcher, Object
<1>2. LockInv'
  BY DEF TypeOK, LockInv, FetchInv, FetchOK, Actor, Fetcher, Open, Sweeping
<1>3. FetchInv'
  <2> SUFFICES ASSUME NEW b \in Fetcher PROVE FetchOK(b)'
    BY DEF FetchInv
  <2>1. CASE b = a
    BY <2>1 DEF FetchInv, FetchOK, TypeOK, Whole, Closure, Actor, Fetcher
  <2>2. CASE b # a
    <3>1. Wants[b] # o
      BY <2>2 DEF FetchInv, FetchOK, OwnCommits
    <3> QED
      BY <2>2, <3>1, FetchFrame DEF FetchInv, TypeOK, Actor
  <2> QED
    BY <2>1, <2>2
<1>4. SweepInv'
  BY OpenExcludesSweep DEF SweepInv, SweepOK, TypeOK, Open, Actor, Fetcher
<1>5. UnmarkedIsComplete' /\ TipIsComplete'
  <2>1. ASSUME NEW b \in Puller, Complete(Wants[b])'
        PROVE  Closure(Wants[b]) \subseteq store'
    <3>1. CASE o = Wants[b]
      <4>1. b = a /\ Wants[a] \in staged[a]
        BY <3>1 DEF FetchInv, FetchOK, OwnCommits, Fetcher
      <4>2. Wants[a] \in mark
        BY <4>1 DEF FetchInv, FetchOK
      <4> QED
        BY <2>1, <4>1, <4>2 DEF Complete
    <3>2. CASE o # Wants[b]
      BY <2>1, <3>2 DEF UnmarkedIsComplete, Complete
    <3> QED
      BY <3>1, <3>2
  <2> QED
    BY <2>1 DEF UnmarkedIsComplete, TipIsComplete, Closure
<1> QED
  BY <1>1, <1>2, <1>3, <1>4, <1>5

\* The end of a commit preserves the invariant: a ref names what the
\* transaction published or found.
LEMMA TailInv ==
  ASSUME Inv, NEW a \in Fetcher, WriteTail(a)
  PROVE  Inv'
PROOF
<1> USE ActorAssumption, ObjectAssumption, TreeAssumption DEF Inv, WriteTail, Goes, EndTransaction
<1>1. TypeOK'
  BY DEF TypeOK, Actor, Fetcher, Object
<1>2. LockInv'
  BY DEF TypeOK, LockInv, FetchInv, FetchOK, Actor, Fetcher, Open, Sweeping
<1>3. FetchInv'
  <2> SUFFICES ASSUME NEW b \in Fetcher PROVE FetchOK(b)'
    BY DEF FetchInv
  <2>1. CASE b = a
    BY <2>1 DEF FetchInv, FetchOK, TypeOK, Whole, Closure, Actor, Fetcher
  <2>2. CASE b # a
    BY <2>2, FetchFrame DEF FetchInv, TypeOK, Actor
  <2> QED
    BY <2>1, <2>2
<1>4. SweepInv'
  BY OpenExcludesSweep DEF SweepInv, SweepOK, TypeOK, Open, Actor, Fetcher
<1>5. UnmarkedIsComplete' /\ TipIsComplete'
  <2>1. Wants[a] \in store /\ (Wants[a] \notin mark => Closure(Wants[a]) \subseteq store)
    BY DEF FetchInv, FetchOK, Whole
  <2> QED
    BY <2>1 DEF UnmarkedIsComplete, TipIsComplete, Complete, Closure
<1> QED
  BY <1>1, <1>2, <1>3, <1>4, <1>5

\* The removal of the marker of a pull preserves the invariant.
LEMMA FinishInv ==
  ASSUME Inv, OwnCommits, NEW a \in Fetcher, Finish(a)
  PROVE  Inv'
PROOF
<1> USE ActorAssumption, ObjectAssumption, TreeAssumption DEF Inv, Finish, Goes, Completes
<1>1. TypeOK'
  BY DEF TypeOK, Actor, Fetcher, Object
<1>2. LockInv'
  BY DEF TypeOK, LockInv, FetchInv, FetchOK, Actor, Fetcher, Open, Sweeping
<1>3. FetchInv'
  <2> SUFFICES ASSUME NEW b \in Fetcher PROVE FetchOK(b)'
    BY DEF FetchInv
  <2>1. CASE b = a
    BY <2>1 DEF FetchInv, FetchOK, TypeOK, Whole, Closure, Actor, Fetcher
  <2>2. CASE b # a
    BY <2>2, FetchFrame DEF FetchInv, TypeOK, Actor, OwnCommits
  <2> QED
    BY <2>1, <2>2
<1>4. SweepInv'
  BY SweepFrame DEF SweepInv, TypeOK, Actor, Fetcher
<1>5. UnmarkedIsComplete' /\ TipIsComplete'
  BY DEF UnmarkedIsComplete, TipIsComplete, Complete, Closure, FetchInv, FetchOK, Fetcher
<1> QED
  BY <1>1, <1>2, <1>3, <1>4, <1>5

\* An error preserves the invariant.
LEMMA FailInv ==
  ASSUME Inv, NEW a \in Fetcher, Fail(a)
  PROVE  Inv'
PROOF
<1> USE ActorAssumption, ObjectAssumption, TreeAssumption DEF Inv, Fail, Goes, EndTransaction
<1>1. TypeOK'
  BY DEF TypeOK, Actor, Fetcher, Object
<1>2. LockInv'
  BY DEF TypeOK, LockInv, FetchInv, FetchOK, Actor, Fetcher, Open, Sweeping
<1>3. FetchInv'
  <2> SUFFICES ASSUME NEW b \in Fetcher PROVE FetchOK(b)'
    BY DEF FetchInv
  <2>1. CASE b = a
    BY <2>1 DEF FetchInv, FetchOK, TypeOK, Whole, Closure, Actor, Fetcher
  <2>2. CASE b # a
    BY <2>2, FetchFrame DEF FetchInv, TypeOK, Actor
  <2> QED
    BY <2>1, <2>2
<1>4. SweepInv'
  BY SweepFrame DEF SweepInv, TypeOK, Actor, Fetcher
<1>5. UnmarkedIsComplete' /\ TipIsComplete'
  BY DEF UnmarkedIsComplete, TipIsComplete, Complete, Closure
<1> QED
  BY <1>1, <1>2, <1>3, <1>4, <1>5

\* The look at the commit of a failed pull preserves the invariant.
LEMMA ProbeInv ==
  ASSUME Inv, NEW a \in Fetcher, Probe(a)
  PROVE  Inv'
PROOF
<1> USE ActorAssumption, ObjectAssumption, TreeAssumption DEF Inv, Probe, Goes, KeepsMarker
<1>1. TypeOK'
  BY DEF TypeOK, Actor, Fetcher, Object
<1>2. LockInv'
  BY DEF TypeOK, LockInv, FetchInv, FetchOK, Actor, Fetcher, Open, Sweeping
<1>3. FetchInv'
  <2> SUFFICES ASSUME NEW b \in Fetcher PROVE FetchOK(b)'
    BY DEF FetchInv
  <2>1. CASE b = a
    BY <2>1 DEF FetchInv, FetchOK, TypeOK, Whole, Closure, Actor, Fetcher
  <2>2. CASE b # a
    BY <2>2, FetchFrame DEF FetchInv, TypeOK, Actor
  <2> QED
    BY <2>1, <2>2
<1>4. SweepInv'
  BY SweepFrame DEF SweepInv, TypeOK, Actor, Fetcher
<1>5. UnmarkedIsComplete' /\ TipIsComplete'
  BY DEF UnmarkedIsComplete, TipIsComplete, Complete, Closure
<1> QED
  BY <1>1, <1>2, <1>3, <1>4, <1>5

\* The removal of the marker of an absent commit preserves the invariant.
LEMMA UnmarkInv ==
  ASSUME Inv, OwnCommits, NEW a \in Fetcher, Unmark(a)
  PROVE  Inv'
PROOF
<1> USE ActorAssumption, ObjectAssumption, TreeAssumption DEF Inv, Unmark, Goes
<1>1. TypeOK'
  BY DEF TypeOK, Actor, Fetcher, Object
<1>2. LockInv'
  BY DEF TypeOK, LockInv, FetchInv, FetchOK, Actor, Fetcher, Open, Sweeping
<1>3. FetchInv'
  <2> SUFFICES ASSUME NEW b \in Fetcher PROVE FetchOK(b)'
    BY DEF FetchInv
  <2>1. CASE b = a
    BY <2>1 DEF FetchInv, FetchOK, TypeOK, Whole, Closure, Actor, Fetcher
  <2>2. CASE b # a
    BY <2>2, FetchFrame DEF FetchInv, TypeOK, Actor, OwnCommits
  <2> QED
    BY <2>1, <2>2
<1>4. SweepInv'
  BY SweepFrame DEF SweepInv, TypeOK, Actor, Fetcher
<1>5. UnmarkedIsComplete' /\ TipIsComplete'
  BY DEF UnmarkedIsComplete, TipIsComplete, Complete, Closure, FetchInv, FetchOK, Fetcher
<1> QED
  BY <1>1, <1>2, <1>3, <1>4, <1>5

\* The end of a fetcher preserves the invariant.
LEMMA StopInv ==
  ASSUME Inv, NEW a \in Fetcher, Stop(a)
  PROVE  Inv'
PROOF
<1> USE ActorAssumption, ObjectAssumption, TreeAssumption DEF Inv, Stop, Goes, EndTransaction
<1>1. TypeOK'
  BY DEF TypeOK, Actor, Fetcher, Object
<1>2. LockInv'
  BY DEF TypeOK, LockInv, FetchInv, FetchOK, Actor, Fetcher, Open, Sweeping
<1>3. FetchInv'
  <2> SUFFICES ASSUME NEW b \in Fetcher PROVE FetchOK(b)'
    BY DEF FetchInv
  <2>1. CASE b = a
    BY <2>1 DEF FetchInv, FetchOK, TypeOK, Whole, Closure, Actor, Fetcher
  <2>2. CASE b # a
    BY <2>2, FetchFrame DEF FetchInv, TypeOK, Actor
  <2> QED
    BY <2>1, <2>2
<1>4. SweepInv'
  BY SweepFrame DEF SweepInv, TypeOK, Actor, Fetcher
<1>5. UnmarkedIsComplete' /\ TipIsComplete'
  BY DEF UnmarkedIsComplete, TipIsComplete, Complete, Closure
<1> QED
  BY <1>1, <1>2, <1>3, <1>4, <1>5

\* The removal of a ref preserves the invariant.
LEMMA UnrefInv ==
  ASSUME Inv, NEW c \in Commit, Unref(c)
  PROVE  Inv'
PROOF
<1> USE DEF Inv, Unref
<1>1. TypeOK' /\ LockInv'
  BY DEF TypeOK, LockInv
<1>2. FetchInv'
  BY FetchFrame DEF FetchInv
<1>3. SweepInv'
  BY SweepFrame DEF SweepInv
<1>4. UnmarkedIsComplete' /\ TipIsComplete'
  BY DEF UnmarkedIsComplete, TipIsComplete, Complete, Closure
<1> QED
  BY <1>1, <1>2, <1>3, <1>4

\* A prune that sweeps is the only holder, so no fetcher is open and no other
\* prune has doomed objects.
LEMMA SweepExcludes ==
  ASSUME TypeOK, LockInv, NEW p \in Pruner, pc[p] \in Sweeping
  PROVE  /\ hold[p] = "exclusive"
         /\ \A a \in Fetcher : pc[a] \notin Open
         /\ \A q \in Pruner \ {p} : pc[q] = "idle"
         /\ \A a \in Actor \ {p} : hold[a] = "none"
PROOF
  BY ActorAssumption DEF LockInv, TypeOK, Open, Sweeping, Actor, Fetcher

\* The exclusive acquire of a prune preserves the invariant.
LEMMA LockStepInv ==
  ASSUME Inv, NEW p \in Pruner, Lock(p)
  PROVE  Inv'
PROOF
<1> USE ActorAssumption DEF Inv, Lock, Goes
<1>1. TypeOK'
  BY DEF TypeOK, Actor
<1>2. LockInv'
  BY DEF TypeOK, LockInv, MayExclude, Actor, Fetcher, Open, Sweeping
<1>3. FetchInv'
  BY FetchFrame DEF FetchInv, TypeOK, Actor, Fetcher
<1>4. SweepInv'
  BY DEF SweepInv, SweepOK, TypeOK, Actor, Closure
<1>5. UnmarkedIsComplete' /\ TipIsComplete'
  BY DEF UnmarkedIsComplete, TipIsComplete, Complete, Closure
<1> QED
  BY <1>1, <1>2, <1>3, <1>4, <1>5

\* The walk preserves the invariant: it keeps each commit that a ref names,
\* and the tree of each complete commit that it keeps.
LEMMA PruneWalkInv ==
  ASSUME Inv, NEW p \in Pruner, Walk(p)
  PROVE  Inv'
PROOF
<1> USE ActorAssumption, ObjectAssumption, TreeAssumption DEF Inv, Goes
<1> PICK delete \in {{}} \cup {{c} : c \in (Commit \cap store) \ tips},
         weak \in SUBSET tips, refsAlone \in BOOLEAN, commitOnly \in BOOLEAN :
      LET view   == store \ delete
          roots  == (tips \ weak) \cup IF refsAlone THEN {} ELSE view \cap Commit
          keep   == UNION {Reach(c, view) : c \in roots}
          doomed == store \ keep
      IN  /\ left' = [left EXCEPT ![p] = IF commitOnly THEN doomed \cap Commit ELSE doomed]
          /\ kept' = [kept EXCEPT ![p] = view \cap keep \cap Commit]
          /\ tips' = tips \ (weak \ keep)
  BY DEF Walk
<1> DEFINE view   == store \ delete
           roots  == (tips \ weak) \cup IF refsAlone THEN {} ELSE view \cap Commit
           keep   == UNION {Reach(c, view) : c \in roots}
           doomed == store \ keep
           lost   == IF commitOnly THEN doomed \cap Commit ELSE doomed
<1>1. /\ pc[p] = "walk" /\ pc' = [pc EXCEPT ![p] = "sweep"]
      /\ left' = [left EXCEPT ![p] = lost]
      /\ kept' = [kept EXCEPT ![p] = view \cap keep \cap Commit]
      /\ tips' = tips \ (weak \ keep)
      /\ UNCHANGED <<store, mark, hold, whole, marked, todo, staged>>
  BY DEF Walk
<1>2. delete \subseteq Commit /\ delete \cap tips = {}
  OBVIOUS
<1>3. roots \subseteq Commit
  BY DEF TypeOK
<1>4. lost \subseteq store /\ lost \cap keep = {}
  OBVIOUS
<1>5. tips' \subseteq keep
  <2>1. \A c \in tips \ weak : c \in keep
    BY DEF Reach
  <2> QED
    BY <1>1, <2>1
<1>6. ASSUME NEW c \in (Commit \cap store) \ lost
      PROVE  c \in roots /\ c \in view /\ c \in keep
  <2>1. c \in keep
    OBVIOUS
  <2>2. PICK r \in roots : c \in Reach(r, view)
    <3> HIDE DEF roots, view
    <3> QED
      BY <2>1, Zenon
  <2>3. c = r
    BY <1>3, <2>2 DEF Reach
  <2> QED
    BY <1>2, <2>1, <2>3
<1>7. ASSUME NEW c \in (Commit \cap store) \ lost, Closure(c) \subseteq store
      PROVE  Closure(c) \subseteq keep
  <2>1. c \in roots /\ c \in view
    BY <1>6
  <2>2. Root[c] \in view
    BY <1>2, <1>7 DEF Closure
  <2>3. Closure(c) \subseteq Reach(c, view)
    BY <2>1, <2>2 DEF Closure, Reach
  <2> QED
    BY <2>1, <2>3
<1> HIDE DEF view, roots, keep, lost
<1>8. TypeOK'
  BY <1>1, <1>4 DEF TypeOK, Actor
<1>9. LockInv'
  BY <1>1 DEF TypeOK, LockInv, Actor, Fetcher, Open, Sweeping
<1>10. FetchInv'
  BY <1>1, FetchFrame DEF FetchInv, TypeOK, Actor, Fetcher
<1>11. SweepInv'
  <2> SUFFICES ASSUME NEW q \in Pruner PROVE SweepOK(q)'
    BY DEF SweepInv
  <2>1. CASE q = p
    <3>1. left'[p] = lost /\ kept'[p] = view \cap keep \cap Commit /\ pc'[p] = "sweep"
      BY <1>1 DEF TypeOK, Actor
    <3>2. lost \cap tips' = {}
      BY <1>4, <1>5
    <3>3. \A c \in (Commit \cap store) \ lost : Closure(c) \subseteq store => Closure(c) \cap lost = {}
      BY <1>4, <1>7
    <3>4. (Commit \cap store) \ lost \subseteq view \cap keep \cap Commit
      BY <1>6
    <3> QED
      BY <1>1, <2>1, <3>1, <3>2, <3>3, <3>4 DEF SweepOK, Closure
  <2>2. CASE q # p
    BY <1>1, <2>2, SweepFrame DEF SweepInv, TypeOK, Actor
  <2> QED
    BY <2>1, <2>2
<1>12. UnmarkedIsComplete' /\ TipIsComplete'
  BY <1>1 DEF UnmarkedIsComplete, TipIsComplete, Complete, Closure
<1> QED
  BY <1>8, <1>9, <1>10, <1>11, <1>12

\* The removal of a doomed object preserves the invariant: a commit goes
\* before its content, so what stays complete keeps its tree.
LEMMA SweepStepInv ==
  ASSUME Inv, NEW p \in Pruner, NEW o \in Object, Sweep(p, o)
  PROVE  Inv'
PROOF
<1> USE ActorAssumption, ObjectAssumption, TreeAssumption DEF Inv, Sweep
<1>1. /\ \A a \in Fetcher : pc[a] \notin Open
      /\ \A q \in Pruner \ {p} : pc[q] = "idle"
  BY SweepExcludes DEF Sweeping
<1>2. ASSUME NEW c \in Commit, c \in store', Closure(c) \subseteq store
      PROVE  Closure(c) \subseteq store'
  <2>1. CASE o \in Commit
    BY <1>2, <2>1, ClosureIsContent
  <2>2. CASE o \notin Commit
    BY <1>2, <2>2 DEF InPhase, SweepInv, SweepOK
  <2> QED
    BY <2>1, <2>2
<1>3. TypeOK'
  BY DEF TypeOK
<1>4. LockInv'
  BY DEF LockInv
<1>5. FetchInv'
  <2> SUFFICES ASSUME NEW b \in Fetcher PROVE FetchOK(b)'
    BY DEF FetchInv
  <2>1. Wants[b] \in Commit /\ FetchOK(b) /\ pc[b] \notin Open
    BY <1>1 DEF FetchInv
  <2> QED
    BY <1>2, <2>1 DEF FetchOK, Open, Whole, Closure
<1>6. SweepInv'
  <2> SUFFICES ASSUME NEW q \in Pruner PROVE SweepOK(q)'
    BY DEF SweepInv
  <2>1. CASE q = p
    BY <2>1 DEF SweepInv, SweepOK, TypeOK, Closure
  <2>2. CASE q # p
    BY <1>1, <2>2 DEF SweepInv, SweepOK, TypeOK
  <2> QED
    BY <2>1, <2>2
<1>7. UnmarkedIsComplete'
  BY <1>2 DEF UnmarkedIsComplete, Complete, Closure, Fetcher
<1>8. TipIsComplete'
  <2>1. \A c \in tips : c \in store' /\ c \in Commit
    BY DEF TipIsComplete, SweepInv, SweepOK, TypeOK
  <2> QED
    BY <1>2, <2>1 DEF TipIsComplete, Closure
<1> QED
  BY <1>3, <1>4, <1>5, <1>6, <1>7, <1>8

\* The end of the sweep preserves the invariant.
LEMMA EndSweepInv ==
  ASSUME Inv, NEW p \in Pruner, EndSweep(p)
  PROVE  Inv'
PROOF
<1> USE ActorAssumption DEF Inv, EndSweep, Goes
<1>1. hold[p] = "exclusive"
  BY SweepExcludes DEF Sweeping
<1>2. TypeOK'
  BY <1>1 DEF TypeOK, Actor
<1>3. LockInv'
  BY <1>1 DEF TypeOK, LockInv, Actor, Fetcher, Open, Sweeping
<1>4. FetchInv'
  BY FetchFrame DEF FetchInv, TypeOK, Actor, Fetcher
<1>5. SweepInv'
  BY <1>1 DEF SweepInv, SweepOK, TypeOK, Actor, Closure
<1>6. UnmarkedIsComplete' /\ TipIsComplete'
  BY DEF UnmarkedIsComplete, TipIsComplete, Complete, Closure
<1> QED
  BY <1>2, <1>3, <1>4, <1>5, <1>6

\* The removal of orphan markers preserves the invariant: it keeps the marker
\* of each commit that the store still holds.
LEMMA SweepMarkersInv ==
  ASSUME Inv, NEW p \in Pruner, SweepMarkers(p)
  PROVE  Inv'
PROOF
<1> USE ActorAssumption, TreeAssumption DEF Inv, SweepMarkers, Goes
<1>1. \A a \in Fetcher : pc[a] \notin Open
  BY SweepExcludes DEF Sweeping
<1>2. Commit \cap store \subseteq kept[p]
  BY DEF SweepInv, SweepOK
<1>3. TypeOK'
  BY DEF TypeOK, Actor
<1>4. LockInv'
  BY DEF TypeOK, LockInv, Actor, Fetcher, Open, Sweeping
<1>5. FetchInv'
  BY <1>1 DEF FetchInv, FetchOK, TypeOK, Open, Whole, Closure, Actor, Fetcher
<1>6. SweepInv'
  BY DEF SweepInv, SweepOK, TypeOK, Actor, Closure
<1>7. UnmarkedIsComplete' /\ TipIsComplete'
  BY <1>2 DEF UnmarkedIsComplete, TipIsComplete, Complete, Closure, TypeOK, Fetcher
<1> QED
  BY <1>3, <1>4, <1>5, <1>6, <1>7

\* The early end of a prune preserves the invariant.
LEMMA StopPruneInv ==
  ASSUME Inv, NEW p \in Pruner, StopPrune(p)
  PROVE  Inv'
PROOF
<1> USE ActorAssumption DEF Inv, StopPrune, Goes
<1>1. TypeOK'
  BY DEF TypeOK, Actor
<1>2. LockInv'
  BY DEF TypeOK, LockInv, Actor, Fetcher, Open, Sweeping
<1>3. FetchInv'
  BY FetchFrame DEF FetchInv, TypeOK, Actor, Fetcher
<1>4. SweepInv'
  BY DEF SweepInv, SweepOK, TypeOK, Actor, Closure
<1>5. UnmarkedIsComplete' /\ TipIsComplete'
  BY DEF UnmarkedIsComplete, TipIsComplete, Complete, Closure
<1> QED
  BY <1>1, <1>2, <1>3, <1>4, <1>5

\* Each step preserves the invariant.
LEMMA StepInv ==
  ASSUME OwnCommits, Inv, [Next]_vars
  PROVE  Inv'
PROOF
<1>1. CASE UNCHANGED vars
  BY <1>1 DEF vars, Inv, TypeOK, LockInv, FetchInv, FetchOK, SweepInv, SweepOK, Whole, Closure,
     UnmarkedIsComplete, TipIsComplete, Complete
<1>2. ASSUME NEW a \in Fetcher, FetcherNext(a)
      PROVE  Inv'
  BY <1>2, BeginInv, CheckInv, MarkInv, StageInv, CommitTransactionInv, PublishInv, TailInv,
     FinishInv, FailInv, ProbeInv, UnmarkInv, StopInv DEF FetcherNext
<1>3. ASSUME NEW p \in Pruner, PrunerNext(p)
      PROVE  Inv'
  BY <1>3, LockStepInv, PruneWalkInv, SweepStepInv, EndSweepInv, SweepMarkersInv, StopPruneInv
     DEF PrunerNext
<1>4. ASSUME NEW c \in Commit, Unref(c)
      PROVE  Inv'
  BY <1>4, UnrefInv
<1> QED
  BY <1>1, <1>2, <1>3, <1>4 DEF Next

\* The inductive invariant holds in every reachable state, when each fetcher
\* has a commit of its own.
THEOREM Invariance ==
  ASSUME OwnCommits
  PROVE  Spec => []Inv
PROOF
<1>1. Inv /\ [Next]_vars => Inv'
  BY StepInv
<1> QED
  BY <1>1, InitInv, PTL DEF Spec

\* No pull, failure, crash or prune leaves an incomplete commit without its
\* marker (pull.rs, Commit state; prune.rs, Sweep order).
THEOREM PartialIsMarked ==
  ASSUME OwnCommits
  PROVE  Spec => []UnmarkedIsComplete
PROOF
<1>1. Inv => UnmarkedIsComplete
  BY DEF Inv
<1> QED
  BY <1>1, Invariance, PTL

\* A ref names a commit of the store, complete unless it is marked
\* (Transaction::commit, prune).
THEOREM TipsStay ==
  ASSUME OwnCommits
  PROVE  Spec => []TipIsComplete
PROOF
<1>1. Inv => TipIsComplete
  BY DEF Inv
<1> QED
  BY <1>1, Invariance, PTL

\* A prune removes objects under an exclusive hold (prune.rs, Lock).
THEOREM SweepHoldsLock ==
  ASSUME OwnCommits
  PROVE  Spec => []SweepIsExclusive
PROOF
<1>1. Inv => SweepIsExclusive
  BY SweepExcludes DEF Inv, SweepIsExclusive, SweepInv, SweepOK, Sweeping
<1> QED
  BY <1>1, Invariance, PTL

\* No object leaves the store under an open transaction (LockKind).
THEOREM OpenTransactionsKeepObjects ==
  ASSUME OwnCommits
  PROVE  Spec => OpenKeepsObjects
PROOF
<1> DEFINE Keeps == (\E a \in Fetcher : pc[a] \in Open) => store \subseteq store'
<1>1. Inv /\ [Next]_vars => [Keeps]_vars
  <2> SUFFICES ASSUME Inv, Next, NEW a \in Fetcher, pc[a] \in Open
               PROVE  store \subseteq store'
    OBVIOUS
  <2>1. \A p \in Pruner : pc[p] = "idle"
    BY OpenExcludesSweep DEF Inv
  <2>2. ASSUME NEW b \in Fetcher, FetcherNext(b)
        PROVE  store \subseteq store'
    BY <2>2 DEF FetcherNext, Begin, Check, Mark, Stage, CommitTransaction, Publish, WriteTail, Finish,
       Fail, Probe, Unmark, Stop
  <2>3. ASSUME NEW p \in Pruner, PrunerNext(p)
        PROVE  store \subseteq store'
    BY <2>1, <2>3 DEF PrunerNext, Lock, Walk, Sweep, EndSweep, SweepMarkers, StopPrune
  <2> QED
    BY <2>2, <2>3 DEF Next, Unref
<1> QED
  BY <1>1, Invariance, PTL DEF Spec, OpenKeepsObjects

\* A step of the holds is a step of the repository lock.
LEMMA StepRefines ==
  ASSUME Inv, [Next]_vars
  PROVE  [RW!Next]_(RW!vars)
PROOF
<1> USE ActorAssumption DEF Inv, RW!Next, RW!vars
<1> DEFINE readers == {a \in Actor : hold[a] = "shared"}
           writers == {a \in Actor : hold[a] = "exclusive"}
<1>1. CASE hold' = hold
  BY <1>1
<1>2. ASSUME NEW a \in Actor, hold' = [hold EXCEPT ![a] = "none"]
      PROVE  RW!Next
  <2>1. readers' = readers \ {a} /\ writers' = writers \ {a}
    BY <1>2 DEF TypeOK
  <2> QED
    BY <2>1 DEF RW!Release
<1>3. ASSUME NEW a \in Fetcher, Begin(a)
      PROVE  RW!Next
  <2>1. hold[a] = "none" /\ a \in Actor
    BY <1>3 DEF LockInv, Open, Begin, Actor
  <2>2. readers' = readers \cup {a} /\ writers' = writers /\ writers = {}
    BY <1>3, <2>1 DEF TypeOK, Begin, MayShare
  <2> QED
    BY <2>1, <2>2 DEF RW!AcquireShared
<1>4. ASSUME NEW p \in Pruner, Lock(p)
      PROVE  RW!Next
  <2>1. readers = {} /\ writers = {} /\ readers' = {} /\ writers' = {p} /\ p \in Actor
    BY <1>4 DEF TypeOK, Lock, MayExclude, Actor
  <2> QED
    BY <2>1 DEF RW!AcquireExclusive
<1>5. ASSUME NEW a \in Fetcher, FetcherNext(a)
      PROVE  RW!Next \/ hold' = hold
  <2>1. a \in Actor
    BY DEF Actor
  <2>2. Begin(a) \/ hold' = hold \/ hold' = [hold EXCEPT ![a] = "none"]
    BY <1>5 DEF FetcherNext, Check, Mark, Stage, CommitTransaction, Publish, WriteTail, Finish, Fail,
       Probe, Unmark, Stop, EndTransaction
  <2> QED
    BY <1>2, <1>3, <2>1, <2>2
<1>6. ASSUME NEW p \in Pruner, PrunerNext(p)
      PROVE  RW!Next \/ hold' = hold
  <2>1. p \in Actor
    BY DEF Actor
  <2>2. Lock(p) \/ hold' = hold \/ hold' = [hold EXCEPT ![p] = "none"]
    BY <1>6 DEF PrunerNext, Walk, Sweep, EndSweep, SweepMarkers, StopPrune
  <2> QED
    BY <1>2, <1>4, <2>1, <2>2
<1> QED
  BY <1>1, <1>5, <1>6 DEF Next, Unref, vars

\* The store uses the lock within the rules that RepoLock implements.
THEOREM LockRefinement ==
  ASSUME OwnCommits
  PROVE  Spec => RWSpec
PROOF
<1>1. Init => RW!Init
  BY DEF Init, RW!Init
<1>2. Inv /\ [Next]_vars => [RW!Next]_(RW!vars)
  BY StepRefines
<1> QED
  BY <1>1, <1>2, Invariance, PTL DEF Spec, RWSpec, RW!Spec

-----------------------------------------------------------------------------
(* The receive sessions: the walks.                                        *)

\* A walk passes its start and what follows from it.
LEMMA PassedFacts ==
  ASSUME NEW s, NEW from \in SUBSET History, NEW target
  PROVE  /\ from \subseteq R!Passed(s, from, target)
         /\ R!Passed(s, from, target) \subseteq History
         /\ \A c \in R!Passed(s, from, target) \cap R!Known(s) :
              c = target \/ Parent[c] \in R!Passed(s, from, target) \cup {None}
PROOF
  BY ReceiveAssumption DEF R!Passed

\* A walk passes nothing else.
LEMMA PassedLeast ==
  ASSUME NEW s, NEW from, NEW target, NEW D \in SUBSET History, from \subseteq D,
         \A c \in D \cap R!Known(s) : Parent[c] \in D \cup {None}
  PROVE  R!Passed(s, from, target) \subseteq D
PROOF
  BY DEF R!Passed

\* The ancestors of a commit are closed under the known parents.
LEMMA DescendsClosed ==
  ASSUME NEW s, NEW new \in History
  PROVE  /\ R!Descends(s, new, new)
         /\ \A c \in History \cap R!Known(s) :
              R!Descends(s, new, c) => Parent[c] = None \/ R!Descends(s, new, Parent[c])
PROOF
  BY ReceiveAssumption DEF R!Descends

\* A chain goes on from where its walk stopped.
LEMMA ExtendOK ==
  ASSUME NEW s, NEW new \in History, NEW chain \in R!Chain, NEW from \in SUBSET History, NEW target,
         \/ chain = R!NoChain /\ from = {new}
         \/ R!ChainOK(s, new, chain) /\ from = chain.end
  PROVE  /\ R!Extend(s, chain, from, target) \in R!Chain
         /\ R!ChainOK(s, new, R!Extend(s, chain, from, target))
         /\ \A c \in R!Extend(s, chain, from, target).end : c = target \/ c \notin R!Known(s)
PROOF
<1> DEFINE P == R!Passed(s, from, target)
           E == {c \in P : c = target \/ c \notin R!Known(s)}
           D == {c \in History : R!Descends(s, new, c)}
           next == R!Extend(s, chain, from, target)
<1>1. next = [seen |-> chain.seen \cup P, end |-> E]
  BY DEF R!Extend
<1>2. /\ from \subseteq P /\ P \subseteq History
      /\ \A c \in P \cap R!Known(s) : c = target \/ Parent[c] \in P \cup {None}
  BY PassedFacts
<1>3. chain.seen \subseteq History
  BY DEF R!Chain
<1>4. /\ next.seen = chain.seen \cup P /\ next.end = E
      /\ next \in R!Chain
  <2> HIDE DEF next, P
  <2> QED
    BY <1>1, <1>2, <1>3 DEF R!Chain
<1>5. from \subseteq D
  BY DescendsClosed DEF R!ChainOK, R!NoChain, R!Chain
<1>6. P \subseteq D
  <2>1. \A c \in D \cap R!Known(s) : Parent[c] \in D \cup {None}
    BY DescendsClosed, ReceiveAssumption
  <2> QED
    BY <1>5, <2>1, PassedLeast
<1> HIDE DEF next, P
<1>7. new \in next.seen
  BY <1>2, <1>4 DEF R!ChainOK
<1>8. \A c \in next.seen : R!Descends(s, new, c)
  BY <1>4, <1>6 DEF R!ChainOK, R!NoChain
<1>9. ASSUME NEW c \in next.seen \ next.end
      PROVE  c \in R!Known(s) /\ Parent[c] \in next.seen \cup {None}
  <2>1. CASE c \in P
    BY <2>1, <1>2, <1>4, <1>9
  <2>2. CASE c \notin P
    BY <2>2, <1>2, <1>4, <1>9 DEF R!ChainOK, R!NoChain
  <2> QED
    BY <2>1, <2>2
<1>10. R!ChainOK(s, new, next)
  BY <1>4, <1>7, <1>8, <1>9 DEF R!ChainOK
<1> QED
  BY <1>4, <1>10 DEF next

\* A chain that was extended to a commit and lacks it, shows another history.
LEMMA ReachedOK ==
  ASSUME NEW s, NEW new \in History, NEW chain \in R!Chain, NEW current \in History,
         R!ChainOK(s, new, chain)
  PROVE  /\ R!Reached(s, chain, current) \in R!Chain
         /\ R!ChainOK(s, new, R!Reached(s, chain, current))
         /\ current \notin R!Reached(s, chain, current).seen => ~R!Descends(s, new, current)
PROOF
<1> DEFINE found == R!Reached(s, chain, current)
<1>1. /\ found \in R!Chain /\ R!ChainOK(s, new, found)
      /\ current \in found.seen \/ \A c \in found.end : c = current \/ c \notin R!Known(s)
  <2>1. CASE current \in chain.seen \/ chain.end = {}
    BY <2>1 DEF R!Reached
  <2>2. CASE ~(current \in chain.seen \/ chain.end = {})
    <3>1. found = R!Extend(s, chain, chain.end, current)
      BY <2>2 DEF R!Reached
    <3>2. chain.end \in SUBSET History
      BY DEF R!Chain
    <3> QED
      BY <3>1, <3>2, ExtendOK
  <2> QED
    BY <2>1, <2>2
<1> HIDE DEF found
<1>2. ASSUME current \notin found.seen
      PROVE  ~R!Descends(s, new, current)
  <2>1. found.seen \in SUBSET History /\ new \in found.seen /\ found.end \subseteq found.seen
    BY <1>1 DEF R!Chain, R!ChainOK
  <2>2. \A c \in found.seen \cap R!Known(s) : Parent[c] \in found.seen \cup {None}
    BY <1>1, <1>2, <2>1 DEF R!ChainOK
  <2> QED
    BY <1>2, <2>1, <2>2 DEF R!Descends
<1> QED
  BY <1>1, <1>2 DEF found

\* An ancestor stays one when commits are published.
LEMMA DescendsStays ==
  ASSUME NEW s, R!Known(s) \subseteq R!Known(s)'
  PROVE  \A new, c : R!Descends(s, new, c) => R!Descends(s, new, c)'
PROOF
  BY DEF R!Descends

-----------------------------------------------------------------------------
(* The receive sessions: the steps.                                        *)

\* A session keeps its invariant in a step of another one: what it checked
\* under the lock does not change, and no signature goes unrecorded.
LEMMA SessionFrame ==
  ASSUME NEW x \in Session, R!SessionInv(x),
         step'[x] = step[x], req'[x] = req[x], stored'[x] = stored[x],
         prepared'[x] = prepared[x], walks'[x] = walks[x], metas'[x] = metas[x],
         unwritten'[x] = unwritten[x],
         present \subseteq present', removed \subseteq removed',
         R!UnderLock(x) => holder' = holder /\ refs' = refs /\ dict' = dict,
         \A c \in History : dict[c] \subseteq dict'[c] \/ c \in removed'
  PROVE  R!SessionInv(x)'
PROOF
<1>1. R!Known(x) \subseteq R!Known(x)'
  BY DEF R!Known
<1>2. R!Distinct(req[x])'
  BY DEF R!SessionInv, R!Distinct, R!ToSet
<1>3. \A new, c : R!Descends(x, new, c) => R!Descends(x, new, c)'
  BY <1>1, DescendsStays
<1>4. R!WalkInv(x)'
  BY <1>1, <1>3 DEF R!SessionInv, R!WalkInv, R!ChainOK
<1>5. R!CheckInv(x)'
  <2>1. ASSUME NEW u \in unwritten[x]
        PROVE  R!Allowed(x, u, refs[u.name])'
    <3>1. R!Allowed(x, u, refs[u.name]) /\ refs' = refs
      BY DEF R!SessionInv, R!CheckInv
    <3> QED
      BY <1>3, <3>1 DEF R!Allowed, R!Forced
  <2> QED
    BY <2>1 DEF R!SessionInv, R!CheckInv, R!UnderLock, R!ToSet
<1>6. R!PlanInv(x)'
  BY DEF R!SessionInv, R!PlanInv, R!Signers, R!Signed, R!ToSet
<1>7. R!SignInv(x)'
  BY DEF R!SessionInv, R!SignInv, R!UnderLock, R!Signers, R!Signed, R!ToSet
<1> QED
  BY <1>2, <1>4, <1>5, <1>6, <1>7 DEF R!SessionInv

\* The other sessions keep their invariants in a step of s.
LEMMA OthersKeep ==
  ASSUME R!Inv, NEW s \in Session,
         \A x \in Session \ {s} :
           /\ step'[x] = step[x] /\ req'[x] = req[x] /\ stored'[x] = stored[x]
           /\ prepared'[x] = prepared[x] /\ walks'[x] = walks[x] /\ metas'[x] = metas[x]
           /\ unwritten'[x] = unwritten[x],
         present \subseteq present', removed' = removed,
         holder \in {s, None} \/ (holder' = holder /\ refs' = refs /\ dict' = dict),
         \A c \in History : dict[c] \subseteq dict'[c]
  PROVE  \A x \in Session \ {s} : R!SessionInv(x)'
PROOF
<1> SUFFICES ASSUME NEW x \in Session \ {s}
             PROVE  R!SessionInv(x)'
  OBVIOUS
<1>1. R!SessionInv(x)
  BY DEF R!Inv
<1>2. R!UnderLock(x) => holder' = holder /\ refs' = refs /\ dict' = dict
  BY <1>1, ReceiveAssumption DEF R!SessionInv, R!CheckInv
<1> QED
  BY <1>1, <1>2, SessionFrame

\* The walk of a pair, found or made.
LEMMA ChainOfOK ==
  ASSUME R!Inv, NEW s \in Session, NEW pair \in History \X History
  PROVE  /\ R!ChainOf(s, pair) \in R!Chain
         /\ R!ChainOK(s, pair[1], R!ChainOf(s, pair))
PROOF
<1>1. CASE pair \in DOMAIN walks[s]
  BY <1>1 DEF R!Inv, R!TypeOK, R!SessionInv, R!WalkInv, R!ChainOf
<1>2. CASE pair \notin DOMAIN walks[s]
  <2>1. R!NoChain \in R!Chain
    BY DEF R!NoChain, R!Chain
  <2>2. R!ChainOf(s, pair) = R!Extend(s, R!NoChain, {pair[1]}, pair[2])
    BY <1>2 DEF R!ChainOf
  <2> QED
    BY <2>1, <2>2, ExtendOK
<1> QED
  BY <1>1, <1>2

\* The walk of an update under the lock has the current commit exactly if the
\* new commit descends from it.
LEMMA WalkedOK ==
  ASSUME R!Inv, NEW s \in Session, NEW u \in R!Update, R!NeedsWalk(s, u, refs[u.name])
  PROVE  /\ R!PairOf(s, u) \in History \X History /\ R!PairOf(s, u)[1] = u.new
         /\ R!Walked(s, u) \in R!Chain
         /\ R!ChainOK(s, u.new, R!Walked(s, u))
         /\ refs[u.name] \notin R!Walked(s, u).seen => ~R!Descends(s, u.new, refs[u.name])
PROOF
<1>1. u.new \in History /\ refs[u.name] \in History
  BY DEF R!Inv, R!TypeOK, R!Update, R!NeedsWalk
<1>2. R!PairOf(s, u) \in History \X History /\ R!PairOf(s, u)[1] = u.new
  BY <1>1 DEF R!Inv, R!TypeOK, R!PairOf
<1>3. R!ChainOf(s, R!PairOf(s, u)) \in R!Chain /\ R!ChainOK(s, u.new, R!ChainOf(s, R!PairOf(s, u)))
  BY <1>2, ChainOfOK
<1> QED
  BY <1>1, <1>2, <1>3, ReachedOK DEF R!Walked

\* A message has updates.
LEMMA MessageUpdates ==
  ASSUME NEW q \in R!Message
  PROVE  \A u \in R!ToSet(q.updates) : u \in R!Update
PROOF
  BY DEF R!Message, R!ToSet

\* The update that is checked next is one of the message.
LEMMA NextIsUpdate ==
  ASSUME R!Inv, NEW s \in Session, R!Unchecked(s)
  PROVE  R!NextUpdate(s) \in R!Update /\ R!NextUpdate(s) \in R!ToSet(req[s].updates)
PROOF
<1>1. req[s].updates \in Seq(R!Update) /\ checked[s] \in Nat
  BY DEF R!Inv, R!TypeOK, R!Message
<1>2. checked[s] + 1 \in 1..Len(req[s].updates)
  BY <1>1 DEF R!Unchecked
<1> QED
  BY <1>1, <1>2 DEF R!NextUpdate, R!ToSet

\* check_ref fails exactly for what is not allowed.
LEMMA FailsIsRight ==
  ASSUME R!Inv, NEW s \in Session, NEW u \in R!Update
  PROVE  R!Fails(s, u) <=> ~R!Allowed(s, u, refs[u.name])
PROOF
<1>1. R!NeedsWalk(s, u, refs[u.name]) =>
        (refs[u.name] \notin R!Walked(s, u).seen <=> ~R!Descends(s, u.new, refs[u.name]))
  BY WalkedOK DEF R!ChainOK
<1>2. u.new = refs[u.name] /\ u.new # None => R!Descends(s, u.new, refs[u.name])
  BY DescendsClosed DEF R!Update
<1> QED
  BY <1>1, <1>2 DEF R!Fails, R!Mismatch, R!NeedsWalk, R!Allowed, R!Update, R!Rule

\* The initial state.
LEMMA ReceiveInit == R!Init => R!Inv
PROOF
<1> SUFFICES ASSUME R!Init
             PROVE  R!Inv
  OBVIOUS
<1>1. R!Idle \in R!Message
  BY DEF R!Idle, R!Message
<1>2. R!TypeOK
  BY <1>1, ReceiveAssumption DEF R!Init, R!TypeOK, R!NoKeys
<1>3. ASSUME NEW s \in Session
      PROVE  R!SessionInv(s)
  <2>1. R!Distinct(req[s]) /\ R!CheckInv(s)
    BY DEF R!Init, R!Idle, R!Distinct, R!ToSet, R!CheckInv, R!UnderLock
  <2>2. R!WalkInv(s)
    BY DEF R!Init, R!WalkInv
  <2>3. R!PlanInv(s) /\ R!SignInv(s)
    BY DEF R!Init, R!PlanInv, R!SignInv
  <2> QED
    BY <2>1, <2>2, <2>3 DEF R!SessionInv
<1> QED
  BY <1>2, <1>3 DEF R!Inv

\* A plan is one of the signatures that are stored then.
LEMMA PlanStep ==
  ASSUME R!Inv, NEW s \in Session, NEW q \in Request, R!Plan(s, q)
  PROVE  R!Inv'
PROOF
<1>1. q \in R!Message /\ R!Distinct(q)
  BY ReceiveAssumption
<1>2. R!TypeOK'
  <2>1. \A c \in History : R!Signers(q, c) \subseteq Key
    <3>1. \A u \in R!ToSet(q.updates) : u.rule.key \in Key \cup {None}
      BY <1>1, MessageUpdates DEF R!Update, R!Rule
    <3> QED
      BY <3>1 DEF R!Signers
  <2>2. prepared' \in [Session -> [History -> SUBSET Key]]
    BY <2>1 DEF R!Inv, R!TypeOK, R!Plan
  <2> QED
    BY <1>1, <2>2 DEF R!Inv, R!TypeOK, R!Plan, R!repoVars
<1>3. \A x \in Session \ {s} : R!SessionInv(x)'
  BY OthersKeep DEF R!Inv, R!TypeOK, R!Plan, R!repoVars
<1>4. R!SessionInv(s)'
  <2>1. R!SessionInv(s) /\ step[s] = "idle" /\ step'[s] = "planned" /\ req'[s] = q
        /\ stored'[s] = dict /\ walks' = walks /\ unwritten' = unwritten
        /\ dict' = dict /\ removed' = removed
    BY DEF R!Inv, R!TypeOK, R!Plan, R!repoVars
  <2>2. R!WalkInv(s)'
    BY <2>1 DEF R!SessionInv, R!WalkInv
  <2>3. R!CheckInv(s)'
    BY <2>1 DEF R!SessionInv, R!CheckInv, R!UnderLock
  <2>4. R!PlanInv(s)'
    <3>1. prepared'[s] = [c \in History |->
            {k \in R!Signers(q, c) : ~R!Signed(dict[c] \cup q.incoming[c], k)}]
      BY DEF R!Inv, R!TypeOK, R!Plan
    <3> QED
      BY <2>1, <3>1 DEF R!PlanInv, R!Signers, R!Signed, R!ToSet
  <2>5. R!SignInv(s)'
    BY <2>1 DEF R!SignInv
  <2>6. R!Distinct(req[s])'
    BY <1>1, <2>1 DEF R!Distinct, R!ToSet
  <2> QED
    BY <2>2, <2>3, <2>4, <2>5, <2>6 DEF R!SessionInv
<1> QED
  BY <1>2, <1>3, <1>4 DEF R!Inv

\* The tips are read.
LEMMA ReadTipsStep ==
  ASSUME R!Inv, NEW s \in Session, R!ReadTips(s)
  PROVE  R!Inv'
PROOF
<1>1. R!TypeOK'
  BY DEF R!Inv, R!TypeOK, R!ReadTips, R!repoVars
<1>2. \A x \in Session \ {s} : R!SessionInv(x)'
  BY OthersKeep DEF R!Inv, R!TypeOK, R!ReadTips, R!repoVars
<1>3. R!SessionInv(s)'
  <2>1. /\ R!SessionInv(s) /\ step[s] = "planned" /\ step'[s] = "tips"
        /\ UNCHANGED <<R!repoVars, holder, req, stored, prepared, walks, metas, unwritten>>
    BY DEF R!Inv, R!TypeOK, R!ReadTips, R!repoVars
  <2>2. R!WalkInv(s)' /\ R!Distinct(req[s])'
    BY <2>1 DEF R!SessionInv, R!WalkInv, R!Distinct, R!ToSet
  <2>3. R!CheckInv(s)'
    BY <2>1 DEF R!SessionInv, R!CheckInv, R!UnderLock
  <2>4. R!PlanInv(s)' /\ R!SignInv(s)'
    BY <2>1 DEF R!SessionInv, R!PlanInv, R!SignInv, R!Signers, R!Signed, R!ToSet, R!repoVars
  <2> QED
    BY <2>2, <2>3, <2>4 DEF R!SessionInv
<1> QED
  BY <1>1, <1>2, <1>3 DEF R!Inv

\* The walks before the lock make chains.
LEMMA WalkStep ==
  ASSUME R!Inv, NEW s \in Session, R!Walk(s)
  PROVE  R!Inv'
PROOF
<1>1. PICK pairs \in SUBSET (History \X History) :
        walks' = [walks EXCEPT ![s] = [pair \in pairs |-> R!ChainOf(s, pair)]]
  <2> DEFINE needed == {u \in R!ToSet(req[s].updates) :
                   /\ ~R!Forced(s, u) /\ ~u.rule.createOnly
                   /\ None \notin {u.new, read[s][u.name]} /\ u.new # read[s][u.name]}
             pairs == {<<u.new, read[s][u.name]>> : u \in needed}
  <2>1. \A u \in R!ToSet(req[s].updates) : u \in R!Update
    BY MessageUpdates DEF R!Inv, R!TypeOK
  <2>2. pairs \in SUBSET (History \X History)
    BY <2>1 DEF R!Inv, R!TypeOK, R!Update
  <2> QED
    BY <2>2 DEF R!Walk
<1>2. /\ walks'[s] = [pair \in pairs |-> R!ChainOf(s, pair)]
      /\ DOMAIN walks' = Session
      /\ \A x \in Session \ {s} : walks'[x] = walks[x]
  BY <1>1 DEF R!Inv, R!TypeOK
<1>3. \A pair \in pairs : R!ChainOf(s, pair) \in R!Chain /\ R!ChainOK(s, pair[1], R!ChainOf(s, pair))
  BY ChainOfOK
<1>4. R!TypeOK'
  <2>1. \A x \in Session : \A pair \in DOMAIN walks'[x] :
          pair \in History \X History /\ walks'[x][pair] \in R!Chain
    <3> TAKE x \in Session
    <3> TAKE pair \in DOMAIN walks'[x]
    <3>1. CASE x = s
      BY <3>1, <1>2, <1>3
    <3>2. CASE x # s
      BY <3>2, <1>2 DEF R!Inv, R!TypeOK
    <3> QED
      BY <3>1, <3>2
  <2> QED
    BY <1>2, <2>1 DEF R!Inv, R!TypeOK, R!Walk, R!repoVars
<1>5. \A x \in Session \ {s} : R!SessionInv(x)'
  BY <1>2, OthersKeep DEF R!Inv, R!TypeOK, R!Walk, R!repoVars
<1>6. R!SessionInv(s)'
  <2>1. /\ R!SessionInv(s) /\ step[s] = "tips" /\ step'[s] = "walked"
        /\ UNCHANGED <<R!repoVars, holder, req, stored, prepared, metas, unwritten>>
    BY DEF R!Inv, R!TypeOK, R!Walk, R!repoVars
  <2>2. R!WalkInv(s)'
    <3>1. \A pair \in pairs : R!ChainOK(s, pair[1], walks[s][pair])'
      BY <2>1, <1>2, <1>3 DEF R!ChainOK, R!Descends, R!Known, R!repoVars
    <3> QED
      BY <1>2, <2>1, <3>1 DEF R!WalkInv
  <2>3. R!CheckInv(s)' /\ R!Distinct(req[s])'
    BY <2>1 DEF R!SessionInv, R!CheckInv, R!UnderLock, R!Distinct, R!ToSet
  <2>4. R!PlanInv(s)' /\ R!SignInv(s)'
    BY <2>1 DEF R!SessionInv, R!PlanInv, R!SignInv, R!Signers, R!Signed, R!ToSet, R!repoVars
  <2> QED
    BY <2>2, <2>3, <2>4 DEF R!SessionInv
<1> QED
  BY <1>4, <1>5, <1>6 DEF R!Inv

\* A session takes the lock with nothing to write yet.
LEMMA LockStep ==
  ASSUME R!Inv, NEW s \in Session, R!Lock(s)
  PROVE  R!Inv'
PROOF
<1>1. R!TypeOK'
  BY DEF R!Inv, R!TypeOK, R!Lock, R!repoVars
<1>2. \A x \in Session \ {s} : R!SessionInv(x)'
  BY OthersKeep DEF R!Inv, R!TypeOK, R!Lock, R!repoVars
<1>3. R!SessionInv(s)'
  <2>1. /\ R!SessionInv(s) /\ step[s] = "walked" /\ step'[s] = "locked" /\ holder' = s
        /\ UNCHANGED <<R!repoVars, req, stored, prepared, walks, metas, unwritten>>
    BY DEF R!Inv, R!TypeOK, R!Lock, R!repoVars
  <2>2. R!WalkInv(s)' /\ R!Distinct(req[s])'
    BY <2>1 DEF R!SessionInv, R!WalkInv, R!ChainOK, R!Descends, R!Known, R!Distinct, R!ToSet,
       R!repoVars
  <2>3. R!CheckInv(s)'
    BY <2>1 DEF R!SessionInv, R!CheckInv, R!UnderLock
  <2>4. R!PlanInv(s)' /\ R!SignInv(s)'
    BY <2>1 DEF R!SessionInv, R!PlanInv, R!SignInv, R!Signers, R!Signed, R!ToSet, R!repoVars
  <2> QED
    BY <2>2, <2>3, <2>4 DEF R!SessionInv
<1> QED
  BY <1>1, <1>2, <1>3 DEF R!Inv

\* The walk that a check makes goes into the chains, and an update that it
\* passes is allowed.
LEMMA CheckRefStep ==
  ASSUME R!Inv, NEW s \in Session, R!CheckRef(s)
  PROVE  R!Inv'
PROOF
<1> DEFINE u == R!NextUpdate(s)
           pair0 == R!PairOf(s, u)
<1>1. u \in R!Update /\ u \in R!ToSet(req[s].updates)
  BY NextIsUpdate DEF R!CheckRef
<1>2. /\ R!SessionInv(s) /\ step[s] = "locked" /\ ~R!Fails(s, u)
      /\ checked' = [checked EXCEPT ![s] = @ + 1]
      /\ walks' = IF R!NeedsWalk(s, u, refs[u.name])
                  THEN [walks EXCEPT ![s] = [pair \in DOMAIN walks[s] \cup {pair0} |->
                          IF pair = pair0 THEN R!Walked(s, u) ELSE walks[s][pair]]]
                  ELSE walks
      /\ unwritten' = [unwritten EXCEPT ![s] =
           IF u.new = refs[u.name] THEN unwritten[s] ELSE unwritten[s] \cup {u}]
      /\ UNCHANGED <<R!repoVars, holder, step, req, stored, prepared, read, metas>>
  BY DEF R!Inv, R!TypeOK, R!CheckRef, R!Unchecked
<1>3. R!NeedsWalk(s, u, refs[u.name]) =>
        /\ pair0 \in History \X History /\ pair0[1] = u.new
        /\ R!Walked(s, u) \in R!Chain
        /\ R!ChainOK(s, u.new, R!Walked(s, u))
  BY <1>1, WalkedOK
<1>4. R!Allowed(s, u, refs[u.name])
  BY <1>1, <1>2, FailsIsRight
<1> HIDE DEF u, pair0
<1>5. /\ DOMAIN walks' = Session
      /\ \A x \in Session \ {s} : walks'[x] = walks[x]
      /\ \A pair \in DOMAIN walks'[s] :
           \/ pair \in DOMAIN walks[s] /\ walks'[s][pair] = walks[s][pair]
           \/ /\ R!NeedsWalk(s, u, refs[u.name])
              /\ pair = pair0 /\ walks'[s][pair] = R!Walked(s, u)
  <2>1. CASE R!NeedsWalk(s, u, refs[u.name])
    <3>1. walks'[s] = [pair \in DOMAIN walks[s] \cup {pair0} |->
                         IF pair = pair0 THEN R!Walked(s, u) ELSE walks[s][pair]]
      BY <1>2, <2>1 DEF R!Inv, R!TypeOK
    <3> QED
      BY <1>2, <2>1, <3>1 DEF R!Inv, R!TypeOK
  <2>2. CASE ~R!NeedsWalk(s, u, refs[u.name])
    BY <1>2, <2>2 DEF R!Inv, R!TypeOK
  <2> QED
    BY <2>1, <2>2
<1>6. R!TypeOK'
  <2>1. \A x \in Session : \A pair \in DOMAIN walks'[x] :
          pair \in History \X History /\ walks'[x][pair] \in R!Chain
    BY <1>3, <1>5 DEF R!Inv, R!TypeOK
  <2>2. checked' \in [Session -> Nat]
    BY <1>2 DEF R!Inv, R!TypeOK
  <2>3. unwritten' \in [Session -> SUBSET R!Update]
    BY <1>1, <1>2 DEF R!Inv, R!TypeOK
  <2> QED
    BY <1>2, <1>5, <2>1, <2>2, <2>3 DEF R!Inv, R!TypeOK, R!repoVars
<1>7. \A x \in Session \ {s} : R!SessionInv(x)'
  BY <1>2, <1>5, OthersKeep DEF R!Inv, R!TypeOK, R!repoVars
<1>8. R!SessionInv(s)'
  <2>1. R!WalkInv(s)'
    <3>1. \A pair \in DOMAIN walks'[s] : R!ChainOK(s, pair[1], walks'[s][pair])
      BY <1>2, <1>3, <1>5 DEF R!SessionInv, R!WalkInv
    <3> QED
      BY <1>2, <3>1 DEF R!WalkInv, R!ChainOK, R!Descends, R!Known, R!repoVars
  <2>2. R!CheckInv(s)'
    <3>1. /\ unwritten'[s] \subseteq unwritten[s] \cup {u}
          /\ \A v \in unwritten'[s] : R!Allowed(s, v, refs[v.name])
      BY <1>2, <1>4 DEF R!Inv, R!TypeOK, R!SessionInv, R!CheckInv
    <3>2. \A v \in unwritten'[s] : R!Allowed(s, v, refs[v.name])'
      BY <1>2, <3>1 DEF R!Allowed, R!Forced, R!Descends, R!Known, R!repoVars
    <3> QED
      BY <1>1, <1>2, <3>1, <3>2 DEF R!SessionInv, R!CheckInv, R!UnderLock, R!ToSet
  <2>3. R!PlanInv(s)' /\ R!SignInv(s)' /\ R!Distinct(req[s])'
    BY <1>2 DEF R!SessionInv, R!PlanInv, R!SignInv, R!Signers, R!Signed, R!Distinct, R!ToSet,
       R!repoVars
  <2> QED
    BY <2>1, <2>2, <2>3 DEF R!SessionInv
<1> QED
  BY <1>6, <1>7, <1>8 DEF R!Inv

\* A session that refuses an update writes nothing.
LEMMA RefuseStep ==
  ASSUME R!Inv, NEW s \in Session, R!Refuse(s)
  PROVE  R!Inv'
PROOF
<1>1. R!SessionInv(s) /\ step[s] = "locked" /\ holder = s
  BY DEF R!Inv, R!Refuse, R!Unchecked, R!SessionInv, R!CheckInv, R!UnderLock
<1>2. R!TypeOK'
  BY DEF R!Inv, R!TypeOK, R!Refuse, R!repoVars
<1>3. \A x \in Session \ {s} : R!SessionInv(x)'
  BY <1>1, OthersKeep DEF R!Inv, R!TypeOK, R!Refuse, R!repoVars
<1>4. R!SessionInv(s)'
  <2>1. /\ step'[s] = "refused" /\ unwritten'[s] = {}
        /\ UNCHANGED <<R!repoVars, req, stored, prepared, walks, metas>>
    BY DEF R!Inv, R!TypeOK, R!Refuse, R!repoVars
  <2>2. R!WalkInv(s)' /\ R!Distinct(req[s])'
    BY <1>1, <2>1 DEF R!SessionInv, R!WalkInv, R!ChainOK, R!Descends, R!Known, R!Distinct,
       R!ToSet, R!repoVars
  <2>3. R!CheckInv(s)' /\ R!PlanInv(s)' /\ R!SignInv(s)'
    BY <2>1 DEF R!CheckInv, R!UnderLock, R!PlanInv, R!SignInv
  <2> QED
    BY <2>2, <2>3 DEF R!SessionInv
<1> QED
  BY <1>2, <1>3, <1>4 DEF R!Inv

\* What is dropped from the plan is signed, and what stays is not.
LEMMA QueueStep ==
  ASSUME R!Inv, NEW s \in Session, R!Queue(s)
  PROVE  R!Inv'
PROOF
<1>1. /\ R!SessionInv(s) /\ step[s] = "locked" /\ step'[s] = "queued"
      /\ prepared'[s] = [c \in History |-> R!Kept(s, c)]
      /\ metas'[s] = {c \in History : req[s].incoming[c] # {} \/ R!Kept(s, c) # {}}
      /\ UNCHANGED <<R!repoVars, holder, req, stored, read, walks, checked, unwritten>>
  BY DEF R!Inv, R!TypeOK, R!Queue
<1>2. \A c \in History : R!Kept(s, c) \subseteq prepared[s][c]
  BY DEF R!Kept
<1>3. R!TypeOK'
  <2>1. prepared' \in [Session -> [History -> SUBSET Key]]
    <3>1. [c \in History |-> R!Kept(s, c)] \in [History -> SUBSET Key]
      BY <1>2 DEF R!Inv, R!TypeOK
    <3> QED
      BY <3>1 DEF R!Inv, R!TypeOK, R!Queue
  <2>2. metas' \in [Session -> SUBSET History]
    BY DEF R!Inv, R!TypeOK, R!Queue
  <2> QED
    BY <2>1, <2>2 DEF R!Inv, R!TypeOK, R!Queue, R!repoVars
<1>4. \A x \in Session \ {s} : R!SessionInv(x)'
  BY OthersKeep DEF R!Inv, R!TypeOK, R!Queue, R!repoVars
<1>5. R!SessionInv(s)'
  <2>1. R!WalkInv(s)' /\ R!Distinct(req[s])'
    BY <1>1 DEF R!SessionInv, R!WalkInv, R!ChainOK, R!Descends, R!Known, R!Distinct, R!ToSet,
       R!repoVars
  <2>2. R!CheckInv(s)'
    <3>1. \A u \in unwritten[s] : R!Allowed(s, u, refs[u.name])'
      BY <1>1 DEF R!SessionInv, R!CheckInv, R!Allowed, R!Forced, R!Descends, R!Known, R!repoVars
    <3> QED
      BY <1>1, <3>1 DEF R!SessionInv, R!CheckInv, R!UnderLock, R!ToSet, R!repoVars
  <2>3. R!PlanInv(s)'
    BY <1>1 DEF R!PlanInv
  <2>4. R!SignInv(s)'
    <3> SUFFICES ASSUME NEW c \in History
                 PROVE  /\ c \in metas'[s] =>
                             \A k \in prepared'[s][c] :
                               ~R!Signed(dict[c] \cup req[s].incoming[c], k)
                        /\ \A k \in R!Signers(req[s], c) :
                             \/ c \in removed \/ R!Signed(dict[c], k)
                             \/ c \in metas'[s] /\
                                  (k \in prepared'[s][c] \/ R!Signed(req[s].incoming[c], k))
      BY <1>1 DEF R!SignInv, R!Signed, R!Signers, R!ToSet, R!repoVars
    <3>1. /\ prepared[s][c] =
               {k \in R!Signers(req[s], c) : ~R!Signed(stored[s][c] \cup req[s].incoming[c], k)}
          /\ stored[s][c] \subseteq dict[c] \/ c \in removed
      BY <1>1 DEF R!SessionInv, R!PlanInv
    <3>2. \A k \in R!Kept(s, c) : ~R!Signed(dict[c] \cup req[s].incoming[c], k)
      BY <3>1 DEF R!Kept
    <3>3. ASSUME NEW k \in R!Signers(req[s], c)
          PROVE  \/ c \in removed \/ R!Signed(dict[c], k)
                 \/ c \in metas'[s] /\ (k \in prepared'[s][c] \/ R!Signed(req[s].incoming[c], k))
      <4>1. CASE R!Signed(stored[s][c] \cup req[s].incoming[c], k)
        BY <4>1, <3>1, <1>1 DEF R!Signed
      <4>2. CASE k \in R!Kept(s, c)
        BY <4>2, <1>1
      <4>3. CASE k \in prepared[s][c] \ R!Kept(s, c)
        BY <4>3, <1>1 DEF R!Kept, R!Signed
      <4> QED
        BY <4>1, <4>2, <4>3, <3>1
    <3> QED
      BY <1>1, <3>2, <3>3
  <2> QED
    BY <2>1, <2>2, <2>3, <2>4 DEF R!SessionInv
<1> QED
  BY <1>3, <1>4, <1>5 DEF R!Inv

\* The objects of the session are published.
LEMMA PublishStep ==
  ASSUME R!Inv, NEW s \in Session, R!Publish(s)
  PROVE  R!Inv'
PROOF
<1>1. /\ R!SessionInv(s) /\ step[s] = "queued" /\ step'[s] = "writing"
      /\ present' = present \cup req[s].commits
      /\ UNCHANGED <<refs, dict, removed, local, holder, req, stored, prepared, read, walks,
                     checked, metas, unwritten>>
  BY DEF R!Inv, R!TypeOK, R!Publish
<1>2. R!TypeOK'
  <2>1. req[s].commits \subseteq History
    BY DEF R!Inv, R!TypeOK, R!Message
  <2> QED
    BY <1>1, <2>1 DEF R!Inv, R!TypeOK, R!Publish
<1>3. \A x \in Session \ {s} : R!SessionInv(x)'
  BY <1>1, OthersKeep DEF R!Inv, R!TypeOK, R!Publish
<1>4. R!SessionInv(s)'
  <2>1. R!Known(s) \subseteq R!Known(s)'
    BY <1>1 DEF R!Known
  <2>2. \A new, c : R!Descends(s, new, c) => R!Descends(s, new, c)'
    BY <2>1, DescendsStays
  <2>3. R!WalkInv(s)' /\ R!Distinct(req[s])'
    BY <1>1, <2>1, <2>2 DEF R!SessionInv, R!WalkInv, R!ChainOK, R!Distinct, R!ToSet
  <2>4. R!CheckInv(s)'
    <3>1. \A u \in unwritten[s] : R!Allowed(s, u, refs[u.name])'
      BY <1>1, <2>2 DEF R!SessionInv, R!CheckInv, R!Allowed, R!Forced
    <3> QED
      BY <1>1, <3>1 DEF R!SessionInv, R!CheckInv, R!UnderLock, R!ToSet
  <2>5. R!PlanInv(s)' /\ R!SignInv(s)'
    BY <1>1 DEF R!SessionInv, R!PlanInv, R!SignInv, R!Signers, R!Signed, R!ToSet
  <2> QED
    BY <2>3, <2>4, <2>5 DEF R!SessionInv
<1> QED
  BY <1>2, <1>3, <1>4 DEF R!Inv

\* A dict that is written has the signatures that were left to write.
LEMMA WriteMetaStep ==
  ASSUME R!Inv, NEW s \in Session, NEW c \in metas[s], R!WriteMeta(s, c)
  PROVE  R!Inv'
PROOF
<1>1. /\ R!SessionInv(s) /\ step[s] = "writing" /\ holder = s /\ c \in History
      /\ UNCHANGED <<refs, present, removed, local, holder, step, req, stored, prepared, read,
                     walks, checked, unwritten>>
  BY DEF R!Inv, R!TypeOK, R!WriteMeta, R!SessionInv, R!CheckInv, R!UnderLock
<1>2. /\ dict'[c] = dict[c] \cup req[s].incoming[c] \cup {<<k, s>> : k \in prepared[s][c]}
      /\ \A d \in History \ {c} : dict'[d] = dict[d]
      /\ metas'[s] = metas[s] \ {c}
      /\ \A x \in Session \ {s} : metas'[x] = metas[x]
  BY <1>1 DEF R!Inv, R!TypeOK, R!WriteMeta
<1>3. R!TypeOK'
  <2>1. {<<k, s>> : k \in prepared[s][c]} \subseteq R!Signature
    BY <1>1 DEF R!Inv, R!TypeOK, R!Signature, R!Maker
  <2>2. req[s].incoming[c] \subseteq R!Signature
    BY <1>1 DEF R!Inv, R!TypeOK, R!Message
  <2>3. dict' \in [History -> SUBSET R!Signature]
    BY <1>1, <2>1, <2>2 DEF R!Inv, R!TypeOK, R!WriteMeta
  <2> QED
    BY <1>1, <2>3 DEF R!Inv, R!TypeOK, R!WriteMeta
<1>4. \A x \in Session \ {s} : R!SessionInv(x)'
  <2>1. \A d \in History : dict[d] \subseteq dict'[d]
    BY <1>2
  <2> QED
    BY <1>1, <1>2, <2>1, OthersKeep
<1>5. R!SessionInv(s)'
  <2>1. R!WalkInv(s)' /\ R!Distinct(req[s])'
    BY <1>1 DEF R!SessionInv, R!WalkInv, R!ChainOK, R!Descends, R!Known, R!Distinct, R!ToSet
  <2>2. R!CheckInv(s)'
    <3>1. \A u \in unwritten[s] : R!Allowed(s, u, refs[u.name])'
      BY <1>1 DEF R!SessionInv, R!CheckInv, R!Allowed, R!Forced, R!Descends, R!Known
    <3> QED
      BY <1>1, <3>1 DEF R!SessionInv, R!CheckInv, R!UnderLock, R!ToSet
  <2>3. R!PlanInv(s)'
    BY <1>1 DEF R!PlanInv
  <2>4. R!SignInv(s)'
    <3> SUFFICES ASSUME NEW d \in History
                 PROVE  /\ d \in metas'[s] =>
                             \A k \in prepared[s][d] :
                               ~R!Signed(dict'[d] \cup req[s].incoming[d], k)
                        /\ \A k \in R!Signers(req[s], d) :
                             \/ d \in removed \/ R!Signed(dict'[d], k)
                             \/ d \in metas'[s] /\
                                  (k \in prepared[s][d] \/ R!Signed(req[s].incoming[d], k))
      BY <1>1 DEF R!SignInv, R!Signed, R!Signers, R!ToSet
    <3>1. CASE d = c
      <4>1. ASSUME NEW k \in R!Signers(req[s], c), c \notin removed
            PROVE  R!Signed(dict'[c], k)
        <5>1. CASE k \in prepared[s][c]
          <6>1. <<k, s>> \in dict'[c] /\ <<k, s>>[1] = k
            BY <1>2, <5>1
          <6> QED
            BY <6>1 DEF R!Signed
        <5>2. CASE R!Signed(dict[c], k) \/ R!Signed(req[s].incoming[c], k)
          BY <1>2, <5>2 DEF R!Signed
        <5> QED
          BY <1>1, <4>1, <5>1, <5>2 DEF R!SessionInv, R!SignInv
      <4> QED
        BY <1>2, <3>1, <4>1
    <3>2. CASE d # c
      BY <1>1, <1>2, <3>2 DEF R!SessionInv, R!SignInv
    <3> QED
      BY <3>1, <3>2
  <2> QED
    BY <2>1, <2>2, <2>3, <2>4 DEF R!SessionInv
<1> QED
  BY <1>3, <1>4, <1>5 DEF R!Inv

\* The other updates of the session are of other refs.
LEMMA WriteRefStep ==
  ASSUME R!Inv, NEW s \in Session, NEW u \in unwritten[s], R!WriteRef(s, u)
  PROVE  R!Inv'
PROOF
<1>1. /\ R!SessionInv(s) /\ step[s] = "writing" /\ holder = s /\ u \in R!Update
      /\ refs' = [refs EXCEPT ![u.name] = u.new]
      /\ UNCHANGED <<present, dict, removed, local, holder, step, req, stored, prepared, read,
                     walks, checked, metas>>
  BY DEF R!Inv, R!TypeOK, R!WriteRef, R!SessionInv, R!CheckInv, R!UnderLock
<1>2. /\ unwritten'[s] = unwritten[s] \ {u}
      /\ \A x \in Session \ {s} : unwritten'[x] = unwritten[x]
  BY DEF R!Inv, R!TypeOK, R!WriteRef
<1>3. R!TypeOK'
  <2>1. refs' \in [Ref -> History \cup {None}]
    BY <1>1 DEF R!Inv, R!TypeOK, R!Update
  <2> QED
    BY <1>1, <2>1 DEF R!Inv, R!TypeOK, R!WriteRef
<1>4. \A x \in Session \ {s} : R!SessionInv(x)'
  BY <1>1, <1>2, OthersKeep
<1>5. R!SessionInv(s)'
  <2>1. R!WalkInv(s)' /\ R!Distinct(req[s])'
    BY <1>1 DEF R!SessionInv, R!WalkInv, R!ChainOK, R!Descends, R!Known, R!Distinct, R!ToSet
  <2>2. R!CheckInv(s)'
    <3>1. ASSUME NEW v \in unwritten'[s]
          PROVE  R!Allowed(s, v, refs[v.name])'
      <4>1. v.name # u.name /\ v \in R!Update
        BY <1>1, <1>2 DEF R!Inv, R!TypeOK, R!SessionInv, R!CheckInv, R!Distinct
      <4>2. refs'[v.name] = refs[v.name] /\ R!Allowed(s, v, refs[v.name])
        BY <1>1, <1>2, <4>1 DEF R!Inv, R!TypeOK, R!SessionInv, R!CheckInv, R!Update
      <4> QED
        BY <1>1, <4>2 DEF R!Allowed, R!Forced, R!Descends, R!Known
    <3> QED
      BY <1>1, <1>2, <3>1 DEF R!SessionInv, R!CheckInv, R!UnderLock, R!ToSet
  <2>3. R!PlanInv(s)' /\ R!SignInv(s)'
    BY <1>1 DEF R!SessionInv, R!PlanInv, R!SignInv, R!Signers, R!Signed, R!ToSet
  <2> QED
    BY <2>1, <2>2, <2>3 DEF R!SessionInv
<1> QED
  BY <1>3, <1>4, <1>5 DEF R!Inv

\* A session that ends has nothing left to write.
LEMMA EndStep ==
  ASSUME R!Inv, NEW s \in Session, R!Release(s) \/ R!Fail(s)
  PROVE  R!Inv'
PROOF
<1>1. /\ R!SessionInv(s) /\ step'[s] \in {"done", "failed"} /\ unwritten'[s] = {}
      /\ holder' = holder \/ holder = s
      /\ \A x \in Session \ {s} :
           step'[x] = step[x] /\ metas'[x] = metas[x] /\ unwritten'[x] = unwritten[x]
      /\ UNCHANGED <<R!repoVars, req, stored, prepared, read, walks, checked>>
  <2>1. CASE R!Release(s)
    BY <2>1 DEF R!Inv, R!TypeOK, R!Release, R!SessionInv, R!CheckInv, R!UnderLock
  <2>2. CASE R!Fail(s)
    BY <2>2 DEF R!Inv, R!TypeOK, R!Fail
  <2> QED
    BY <2>1, <2>2
<1>2. R!TypeOK'
  BY DEF R!Inv, R!TypeOK, R!Release, R!Fail, R!repoVars
<1>3. \A x \in Session \ {s} : R!SessionInv(x)'
  BY <1>1, OthersKeep DEF R!repoVars
<1>4. R!SessionInv(s)'
  <2>1. R!WalkInv(s)' /\ R!Distinct(req[s])'
    BY <1>1 DEF R!SessionInv, R!WalkInv, R!ChainOK, R!Descends, R!Known, R!Distinct, R!ToSet,
       R!repoVars
  <2>2. R!CheckInv(s)' /\ R!PlanInv(s)' /\ R!SignInv(s)'
    BY <1>1 DEF R!CheckInv, R!UnderLock, R!PlanInv, R!SignInv
  <2> QED
    BY <2>1, <2>2 DEF R!SessionInv
<1> QED
  BY <1>2, <1>3, <1>4 DEF R!Inv

\* The other programs write refs and signatures only while no session has the
\* lock.
LEMMA LocalStep ==
  ASSUME R!Inv,
         \/ \E r \in Ref, c \in History \cup {None} : R!LocalWrite(r, c)
         \/ \E c \in History : R!LocalPublish(c)
         \/ \E c \in History, k \in Key : R!SignCommit(c, k) \/ R!DeleteSignatures(c, k)
  PROVE  R!Inv'
PROOF
<1>1. /\ UNCHANGED <<holder, R!sessionVars>>
      /\ present \subseteq present' /\ removed \subseteq removed'
      /\ holder = None \/ (refs' = refs /\ dict' = dict)
      /\ \A d \in History : dict[d] \subseteq dict'[d] \/ d \in removed'
  BY DEF R!Inv, R!TypeOK, R!LocalWrite, R!LocalPublish, R!SignCommit, R!DeleteSignatures, R!Local
<1>2. R!TypeOK'
  <2>1. /\ refs' \in [Ref -> History \cup {None}]
        /\ present' \subseteq History /\ removed' \subseteq History
    BY DEF R!Inv, R!TypeOK, R!LocalWrite, R!LocalPublish, R!SignCommit, R!DeleteSignatures
  <2>2. dict' \in [History -> SUBSET R!Signature]
    <3>1. ASSUME NEW c \in History, NEW k \in Key, R!SignCommit(c, k)
          PROVE  dict' \in [History -> SUBSET R!Signature]
      <4>1. <<k, "local">> \in R!Signature
        BY DEF R!Signature, R!Maker
      <4> QED
        BY <3>1, <4>1 DEF R!Inv, R!TypeOK, R!SignCommit
    <3>2. ASSUME NEW c \in History, NEW k \in Key, R!DeleteSignatures(c, k)
          PROVE  dict' \in [History -> SUBSET R!Signature]
      BY <3>2 DEF R!Inv, R!TypeOK, R!DeleteSignatures
    <3> QED
      BY <3>1, <3>2 DEF R!Inv, R!TypeOK, R!LocalWrite, R!LocalPublish
  <2> QED
    BY <1>1, <2>1, <2>2 DEF R!Inv, R!TypeOK, R!sessionVars
<1>3. ASSUME NEW x \in Session
      PROVE  R!SessionInv(x)'
  <2>1. R!SessionInv(x)
    BY DEF R!Inv
  <2>2. R!UnderLock(x) => holder' = holder /\ refs' = refs /\ dict' = dict
    BY <1>1, <2>1, ReceiveAssumption DEF R!SessionInv, R!CheckInv
  <2> QED
    BY <1>1, <2>1, <2>2, SessionFrame DEF R!sessionVars
<1> QED
  BY <1>2, <1>3 DEF R!Inv

\* Each step of the sessions keeps the invariant.
LEMMA ReceiveNext ==
  ASSUME R!Inv, [R!Next]_(R!vars)
  PROVE  R!Inv'
PROOF
<1>1. CASE UNCHANGED R!vars
  <2>1. R!TypeOK'
    BY <1>1 DEF R!Inv, R!TypeOK, R!vars, R!repoVars, R!sessionVars
  <2>2. \A x \in Session : R!SessionInv(x)'
    BY <1>1, SessionFrame DEF R!Inv, R!vars, R!repoVars, R!sessionVars
  <2> QED
    BY <2>1, <2>2 DEF R!Inv
<1>2. CASE R!Next
  BY <1>2, PlanStep, ReadTipsStep, WalkStep, LockStep, CheckRefStep, RefuseStep, QueueStep,
     PublishStep, WriteMetaStep, WriteRefStep, EndStep, LocalStep DEF R!Next
<1> QED
  BY <1>1, <1>2

\* A step of the run is a step of the sessions or leaves them alone.
LEMMA ReceiveSteps ==
  ASSUME [MCNext]_<<side, vars, walkVars, receiveVars>>
  PROVE  [R!Next]_(R!vars)
PROOF
  BY DEF MCNext, receiveVars, R!vars, R!repoVars, R!sessionVars

\* The steps that write: the session has the lock, and what it writes was
\* checked.
LEMMA ReceiveWrites ==
  ASSUME R!Inv, R!Next, NEW s \in Session, step'[s] = "writing"
  PROVE  /\ \A c \in metas[s] \ metas'[s] : step[s] = "writing" /\ c \in History
         /\ \A u \in unwritten[s] \ unwritten'[s] :
              step[s] = "writing" /\ metas[s] = {} /\ u \in R!Update
PROOF
<1>1. ASSUME NEW x \in Session, x # s,
             \/ \E q \in Request : R!Plan(x, q)
             \/ R!ReadTips(x) \/ R!Walk(x) \/ R!Lock(x) \/ R!CheckRef(x) \/ R!Refuse(x)
             \/ R!Queue(x) \/ R!Publish(x)
             \/ \E c \in metas[x] : R!WriteMeta(x, c)
             \/ \E u \in unwritten[x] : R!WriteRef(x, u)
             \/ R!Release(x) \/ R!Fail(x)
      PROVE  metas'[s] = metas[s] /\ unwritten'[s] = unwritten[s]
  BY <1>1 DEF R!Inv, R!TypeOK, R!Plan, R!ReadTips, R!Walk, R!Lock, R!CheckRef, R!Refuse, R!Queue,
     R!Publish, R!WriteMeta, R!WriteRef, R!Release, R!Fail
<1>2. CASE \/ \E q \in Request : R!Plan(s, q)
           \/ R!ReadTips(s) \/ R!Walk(s) \/ R!Lock(s) \/ R!CheckRef(s) \/ R!Refuse(s)
           \/ R!Queue(s) \/ R!Release(s) \/ R!Fail(s)
  BY <1>2 DEF R!Inv, R!TypeOK, R!Plan, R!ReadTips, R!Walk, R!Lock, R!CheckRef, R!Unchecked,
     R!Refuse, R!Queue, R!Release, R!Fail
<1>3. CASE R!Publish(s)
  BY <1>3 DEF R!Publish
<1>4. CASE \E c \in metas[s] : R!WriteMeta(s, c)
  BY <1>4 DEF R!Inv, R!TypeOK, R!WriteMeta
<1>5. CASE \E u \in unwritten[s] : R!WriteRef(s, u)
  BY <1>5 DEF R!Inv, R!TypeOK, R!WriteRef
<1>6. CASE \/ \E r \in Ref, c \in History \cup {None} : R!LocalWrite(r, c)
           \/ \E c \in History : R!LocalPublish(c)
           \/ \E c \in History, k \in Key : R!SignCommit(c, k) \/ R!DeleteSignatures(c, k)
  BY <1>6 DEF R!LocalWrite, R!LocalPublish, R!SignCommit, R!DeleteSignatures, R!Local, R!sessionVars
<1> QED
  BY <1>1, <1>2, <1>3, <1>4, <1>5, <1>6 DEF R!Next

\* In every state what a session has checked and signed for under the lock is
\* as it was checked, and its chains are parts of the history.
THEOREM ReceiveIsInvariant == MCSpec => []R!Inv
PROOF
<1>1. MCInit => R!Inv
  BY ReceiveInit DEF MCInit
<1>2. R!Inv /\ [MCNext]_<<side, vars, walkVars, receiveVars>> => R!Inv'
  BY ReceiveSteps, ReceiveNext
<1> QED
  BY <1>1, <1>2, PTL DEF MCSpec

\* A session writes a ref only from the state that the client expects and
\* along its history, for every history, number of sessions and messages
\* (check_ref, write_tail).
THEOREM RefsMoveForward == MCSpec => RefMovesForward
PROOF
<1> DEFINE Moves == \A s \in Session : step'[s] = "writing" =>
                      \A u \in unwritten[s] \ unwritten'[s] : R!Allowed(s, u, refs[u.name])
<1>1. R!Inv /\ [MCNext]_<<side, vars, walkVars, receiveVars>> => [Moves]_(R!vars)
  <2>1. ASSUME R!Inv
        PROVE  \A s \in Session : \A u \in unwritten[s] : R!Allowed(s, u, refs[u.name])
    BY <2>1 DEF R!Inv, R!SessionInv, R!CheckInv
  <2> QED
    BY <2>1
<1> QED
  BY <1>1, ReceiveIsInvariant, PTL DEF MCSpec, RefMovesForward, R!RefMovesForward

\* An update is refused only for what is so under the lock, whatever was
\* published or moved since the walk (Chain::reaches).
THEOREM RefusalsAreRight == MCSpec => RefusalIsRight
PROOF
<1> DEFINE Right == \A s \in Session : step[s] # step'[s] /\ step'[s] = "refused" =>
                      \E u \in R!ToSet(req[s].updates) : ~R!Allowed(s, u, refs[u.name])
<1>1. ASSUME R!Inv, R!Next, NEW s \in Session, step[s] # step'[s], step'[s] = "refused"
      PROVE  R!Refuse(s)
  BY <1>1 DEF R!Next, R!Inv, R!TypeOK, R!Plan, R!ReadTips, R!Walk, R!Lock, R!CheckRef, R!Refuse,
     R!Queue, R!Publish, R!WriteMeta, R!WriteRef, R!Release, R!Fail, R!LocalWrite, R!LocalPublish,
     R!SignCommit, R!DeleteSignatures, R!Local, R!sessionVars
<1>2. R!Inv /\ R!Next => Right
  <2>1. ASSUME R!Inv, NEW s \in Session, R!Refuse(s)
        PROVE  \E u \in R!ToSet(req[s].updates) : ~R!Allowed(s, u, refs[u.name])
    BY <2>1, NextIsUpdate, FailsIsRight DEF R!Refuse
  <2> QED
    BY <1>1, <2>1
<1>3. R!Inv /\ [MCNext]_<<side, vars, walkVars, receiveVars>> => [Right]_(R!vars)
  BY <1>2, ReceiveSteps
<1> QED
  BY <1>3, ReceiveIsInvariant, PTL DEF MCSpec, RefusalIsRight, R!RefusalIsRight

\* A server key signs a commit once, and before a ref names the commit
\* (prepare_signatures, queue_detached, write_tail).
THEOREM KeysSignOnce == MCSpec => SignedOnce
PROOF
<1> DEFINE Signs == \A s \in Session : step'[s] = "writing" =>
             /\ \A c \in metas[s] \ metas'[s], k \in Key :
                  k \in prepared[s][c] => ~R!Signed(dict[c] \cup req[s].incoming[c], k)
             /\ \A u \in unwritten[s] \ unwritten'[s] :
                  None \in {u.new, u.rule.key} \/ u.new \in removed
                    \/ R!Signed(dict[u.new], u.rule.key)
<1>1. R!Inv /\ R!Next => Signs
  <2> SUFFICES ASSUME R!Inv, R!Next, NEW s \in Session, step'[s] = "writing"
               PROVE  /\ \A c \in metas[s] \ metas'[s], k \in Key :
                           k \in prepared[s][c] => ~R!Signed(dict[c] \cup req[s].incoming[c], k)
                      /\ \A u \in unwritten[s] \ unwritten'[s] :
                           None \in {u.new, u.rule.key} \/ u.new \in removed
                             \/ R!Signed(dict[u.new], u.rule.key)
    OBVIOUS
  <2>1. R!SessionInv(s)
    BY DEF R!Inv
  <2>2. \A c \in metas[s] \ metas'[s], k \in Key :
          k \in prepared[s][c] => ~R!Signed(dict[c] \cup req[s].incoming[c], k)
    BY <2>1, ReceiveWrites DEF R!SessionInv, R!SignInv
  <2>3. ASSUME NEW u \in unwritten[s] \ unwritten'[s], None \notin {u.new, u.rule.key}
        PROVE  u.new \in removed \/ R!Signed(dict[u.new], u.rule.key)
    <3>1. step[s] = "writing" /\ metas[s] = {} /\ u \in R!Update
      BY ReceiveWrites
    <3>2. u.new \in History /\ u.rule.key \in R!Signers(req[s], u.new)
      BY <2>1, <2>3, <3>1 DEF R!SessionInv, R!CheckInv, R!Signers, R!Update
    <3> QED
      BY <2>1, <3>1, <3>2 DEF R!SessionInv, R!SignInv
  <2> QED
    BY <2>2, <2>3
<1>2. R!Inv /\ [MCNext]_<<side, vars, walkVars, receiveVars>> => [Signs]_(R!vars)
  BY <1>1, ReceiveSteps
<1> QED
  BY <1>2, ReceiveIsInvariant, PTL DEF MCSpec, SignedOnce, R!SignedOnce
=============================================================================
