---------------------------- MODULE CommitStore -----------------------------
(***************************************************************************)
(* The object store of a local repository under its writers: transactions  *)
(* (crates/ostrya/src/transaction.rs), the pulls that mark a commit        *)
(* partial while its objects are in flight (pull.rs, pull/http.rs), the    *)
(* refs, and prune (prune.rs).                                             *)
(*                                                                         *)
(* A fetcher stages the objects of one commit, publishes them in any       *)
(* order (a HashMap gives the order of the renames), and names the commit  *)
(* by a ref.  A puller also writes and removes the marker                  *)
(* state/<commit>.commitpartial; a writer (write_commit) does not.         *)
(* A tree is a root dirtree and the objects below it.  The repository lock *)
(* is the one of RWLock, which RepoLock implements.                        *)
(***************************************************************************)
EXTENDS FiniteSets

CONSTANTS
  Puller,   \* the runs of pull
  Writer,   \* the transactions that write a commit of their own
  Pruner,   \* the runs of prune
  Commit,   \* the commit objects
  Content,  \* the other objects
  Wants,    \* the commit of each puller and writer
  Root,     \* the root dirtree of each commit
  Below     \* the objects below a dirtree

Fetcher == Puller \cup Writer
Actor == Fetcher \cup Pruner
Object == Commit \cup Content

ASSUME ActorAssumption ==
  /\ Puller \cap Writer = {}
  /\ Fetcher \cap Pruner = {}
ASSUME ObjectAssumption == Commit \cap Content = {}
ASSUME TreeAssumption ==
  /\ Wants \in [Fetcher -> Commit]
  /\ Root \in [Commit -> Content]
  /\ Below \in [Content -> SUBSET Content]

VARIABLES
  store,   \* the objects in objects/
  mark,    \* the commits with a .commitpartial marker
  tips,    \* the commits that a ref names
  hold,    \* the hold of each actor on the repository lock
  pc,      \* the step of each actor
  whole,   \* whether a pull fetches whole trees (completes_marked)
  marked,  \* whether the list marked of a pull has its commit
  todo,    \* the objects that a transaction has yet to stage
  staged,  \* the objects in the staging directory of a transaction
  left,    \* the doomed objects that a prune has yet to remove
  kept     \* the commits that a prune keeps (present_commits)

vars == <<store, mark, tips, hold, pc, whole, marked, todo, staged, left, kept>>

Init ==
  /\ store = {} /\ mark = {} /\ tips = {}
  /\ hold = [a \in Actor |-> "none"]
  /\ pc = [a \in Actor |-> "idle"]
  /\ whole = [a \in Fetcher |-> FALSE]
  /\ marked = [a \in Fetcher |-> FALSE]
  /\ todo = [a \in Fetcher |-> {}]
  /\ staged = [a \in Fetcher |-> {}]
  /\ left = [p \in Pruner |-> {}]
  /\ kept = [p \in Pruner |-> {}]

-----------------------------------------------------------------------------
\* The objects that the tree of a commit reaches.
Closure(c) == {Root[c]} \cup Below[Root[c]]

\* What the walk of prune adds for a commit: it reads nothing below a commit
\* or a dirtree that is absent.
Reach(c, view) ==
  {c} \cup IF c \in view
           THEN {Root[c]} \cup IF Root[c] \in view THEN Below[Root[c]] ELSE {}
           ELSE {}

\* A shared acquire waits for an exclusive holder, an exclusive acquire for
\* each holder.
MayShare == \A a \in Actor : hold[a] # "exclusive"

\* A mutant of MayExclude: shared holders do not stop an exclusive acquire.
MayExcludeShared == \A a \in Actor : hold[a] # "exclusive"

MayExclude == \A a \in Actor : hold[a] = "none"

Goes(a, s) == pc' = [pc EXCEPT ![a] = s]

\* The end of a transaction: its staging directory goes, then its lock.
EndTransaction(a) ==
  /\ hold' = [hold EXCEPT ![a] = "none"]
  /\ todo' = [todo EXCEPT ![a] = {}]
  /\ staged' = [staged EXCEPT ![a] = {}]

-----------------------------------------------------------------------------
(***************************************************************************)
(* A fetcher: a pull, or a transaction that writes a commit.               *)
(***************************************************************************)

\* Repo::transaction.  A pull is of whole trees, or commit-only or with
\* subpaths; a writer offers each object of its commit.
Begin(a) ==
  /\ pc[a] = "idle" /\ MayShare
  /\ hold' = [hold EXCEPT ![a] = "shared"]
  /\ \E f \in IF a \in Puller THEN BOOLEAN ELSE {TRUE} : whole' = [whole EXCEPT ![a] = f]
  /\ Goes(a, IF a \in Puller THEN "check" ELSE "stage")
  /\ todo' = [todo EXCEPT ![a] = IF a \in Puller THEN {} ELSE {Wants[a]} \cup Closure(Wants[a])]
  /\ UNCHANGED <<store, mark, tips, marked, staged, left, kept>>

\* A commit is complete here if its object is present and no marker names it.
Complete(c) == c \in store /\ c \notin mark

\* What a pull plans for its commit: nothing for a complete one, else the
\* commit, with its tree or (commit-only, subpaths) a part of it.
Plans(a) ==
  LET c == Wants[a]
  IN  IF Complete(c) THEN {{}}
      ELSE IF whole[a] THEN {{c} \cup Closure(c)}
      ELSE {{c} \cup s : s \in SUBSET Closure(c)}

\* The state check of the commit of a pull; marked takes a commit that is not
\* complete before the write of its marker.
Check(a) ==
  /\ pc[a] = "check"
  /\ \E s \in Plans(a) : todo' = [todo EXCEPT ![a] = s]
  /\ marked' = [marked EXCEPT ![a] = ~Complete(Wants[a])]
  /\ Goes(a, IF Complete(Wants[a]) THEN "stage" ELSE "mark")
  /\ UNCHANGED <<store, mark, tips, hold, whole, staged, left, kept>>

\* The marker is created, or is present already.
Mark(a) ==
  /\ pc[a] = "mark"
  /\ mark' = mark \cup {Wants[a]}
  /\ Goes(a, "stage")
  /\ UNCHANGED <<store, tips, hold, whole, marked, todo, staged, left, kept>>

\* One object is staged, unless objects/ holds it already.
Stage(a, o) ==
  /\ pc[a] = "stage" /\ o \in todo[a]
  /\ todo' = [todo EXCEPT ![a] = @ \ {o}]
  /\ staged' = [staged EXCEPT ![a] = IF o \in store THEN @ ELSE @ \cup {o}]
  /\ UNCHANGED <<store, mark, tips, hold, pc, whole, marked, left, kept>>

\* Transaction::commit starts the publication.
CommitTransaction(a) ==
  /\ pc[a] = "stage" /\ todo[a] = {}
  /\ Goes(a, "publish")
  /\ UNCHANGED <<store, mark, tips, hold, whole, marked, todo, staged, left, kept>>

\* publish_blocking renames one staged object into objects/.
Publish(a, o) ==
  /\ pc[a] = "publish" /\ o \in staged[a]
  /\ store' = store \cup {o}
  /\ staged' = [staged EXCEPT ![a] = @ \ {o}]
  /\ UNCHANGED <<mark, tips, hold, pc, whole, marked, todo, left, kept>>

\* The end of commit: the ref write (unless no_ref_writes), or nothing, and
\* the release of the locks.  It can fail after the write of the ref.
WriteTail(a) ==
  /\ pc[a] = "publish" /\ staged[a] = {}
  /\ tips' \in {tips, tips \cup {Wants[a]}}
  /\ EndTransaction(a)
  /\ \E next \in IF marked[a] THEN {"finish", "clear"} ELSE {"idle"} : Goes(a, next)
  /\ UNCHANGED <<store, mark, whole, marked, left, kept>>

\* A mutant of Completes: each pull removes its markers.
CompletesEach(a) == TRUE

\* completes_marked: a commit-only pull and a pull with subpaths keep their
\* markers.
Completes(a) == whole[a]

\* A pull removes its marker after the transaction released its locks.
Finish(a) ==
  /\ pc[a] = "finish"
  /\ mark' = IF Completes(a) THEN mark \ {Wants[a]} ELSE mark
  /\ marked' = [marked EXCEPT ![a] = FALSE]
  /\ Goes(a, "idle")
  /\ UNCHANGED <<store, tips, hold, whole, todo, staged, left, kept>>

\* An error ends the transaction; a pull then looks at the markers it wrote.
Fail(a) ==
  /\ pc[a] \in {"check", "mark", "stage", "publish"}
  /\ EndTransaction(a)
  /\ Goes(a, IF marked[a] THEN "clear" ELSE "idle")
  /\ UNCHANGED <<store, mark, tips, whole, marked, left, kept>>

\* A commit that the repository holds keeps its marker.
KeepsMarker(a) == Wants[a] \in store

\* clear_markers_for_absent_commits looks for the commit object ...
Probe(a) ==
  /\ pc[a] = "clear"
  /\ Goes(a, IF KeepsMarker(a) THEN "idle" ELSE "unmark")
  /\ marked' = [marked EXCEPT ![a] = ~KeepsMarker(a)]
  /\ UNCHANGED <<store, mark, tips, hold, whole, todo, staged, left, kept>>

\* ... and, in a step of its own, removes the marker of an absent one.
Unmark(a) ==
  /\ pc[a] = "unmark"
  /\ mark' = mark \ {Wants[a]}
  /\ marked' = [marked EXCEPT ![a] = FALSE]
  /\ Goes(a, "idle")
  /\ UNCHANGED <<store, tips, hold, whole, todo, staged, left, kept>>

\* The process of the fetcher ends, or its caller drops the future: the
\* staging directory goes before the lock, and the renames that a dropped
\* publication still makes come before both.
Stop(a) ==
  /\ pc[a] # "idle"
  /\ EndTransaction(a)
  /\ marked' = [marked EXCEPT ![a] = FALSE]
  /\ Goes(a, "idle")
  /\ UNCHANGED <<store, mark, tips, whole, left, kept>>

\* set_ref_immediate removes a ref, under the shared lock.
Unref(c) ==
  /\ MayShare /\ c \in tips
  /\ tips' = tips \ {c}
  /\ UNCHANGED <<store, mark, hold, pc, whole, marked, todo, staged, left, kept>>

-----------------------------------------------------------------------------
(***************************************************************************)
(* A run of prune.                                                         *)
(***************************************************************************)

\* The run takes the repository lock exclusive.
Lock(p) ==
  /\ pc[p] = "idle" /\ MayExclude
  /\ hold' = [hold EXCEPT ![p] = "exclusive"]
  /\ Goes(p, "walk")
  /\ UNCHANGED <<store, mark, tips, whole, marked, todo, staged, left, kept>>

\* The walk from the refs and, unless the roots are the refs alone, from each
\* commit of the store.  A weak ref is no root, and goes if the walk does not
\* reach its commit.  delete is the commit that delete_commit names, which no
\* ref may name; commit_only dooms commits alone.
Walk(p) ==
  /\ pc[p] = "walk"
  /\ \E delete \in {{}} \cup {{c} : c \in (Commit \cap store) \ tips},
        weak \in SUBSET tips, refsAlone, commitOnly \in BOOLEAN :
       LET view   == store \ delete
           roots  == (tips \ weak) \cup IF refsAlone THEN {} ELSE view \cap Commit
           keep   == UNION {Reach(c, view) : c \in roots}
           doomed == store \ keep
       IN  /\ weak # {} => refsAlone
           /\ left' = [left EXCEPT ![p] = IF commitOnly THEN doomed \cap Commit ELSE doomed]
           /\ kept' = [kept EXCEPT ![p] = view \cap keep \cap Commit]
           /\ tips' = tips \ (weak \ keep)
  /\ Goes(p, "sweep")
  /\ UNCHANGED <<store, mark, hold, whole, marked, todo, staged>>

\* A mutant of InPhase: commits and content go in any order.
InPhaseAny(p, o) == TRUE

\* The commit phase comes before the content phase.
InPhase(p, o) == o \in Commit \/ left[p] \cap Commit = {}

\* sweep_blocking unlinks one doomed object.
Sweep(p, o) ==
  /\ pc[p] = "sweep" /\ o \in left[p] /\ InPhase(p, o)
  /\ store' = store \ {o}
  /\ left' = [left EXCEPT ![p] = @ \ {o}]
  /\ UNCHANGED <<mark, tips, hold, pc, whole, marked, todo, staged, kept>>

\* The sweep ends; a dropped run starts no other job.
EndSweep(p) ==
  /\ pc[p] = "sweep" /\ left[p] = {}
  /\ Goes(p, IF hold[p] = "exclusive" THEN "markers" ELSE "idle")
  /\ UNCHANGED <<store, mark, tips, hold, whole, marked, todo, staged, left, kept>>

\* The markers of absent commits go, and the run ends.
SweepMarkers(p) ==
  /\ pc[p] = "markers"
  /\ mark' = mark \cap kept[p]
  /\ hold' = [hold EXCEPT ![p] = "none"]
  /\ Goes(p, "idle")
  /\ UNCHANGED <<store, tips, whole, marked, todo, staged, left, kept>>

\* The caller drops the future of the run: the guard goes with it, the job on
\* the blocking pool runs on.
Drop(p) ==
  /\ pc[p] \in {"sweep", "markers"} /\ hold[p] = "exclusive"
  /\ hold' = [hold EXCEPT ![p] = "none"]
  /\ UNCHANGED <<store, mark, tips, pc, whole, marked, todo, staged, left, kept>>

\* The run ends early: an error, or the end of its process.
StopPrune(p) ==
  /\ pc[p] # "idle"
  /\ hold' = [hold EXCEPT ![p] = "none"]
  /\ left' = [left EXCEPT ![p] = {}]
  /\ Goes(p, "idle")
  /\ UNCHANGED <<store, mark, tips, whole, marked, todo, staged, kept>>

-----------------------------------------------------------------------------
FetcherNext(a) ==
  \/ Begin(a) \/ Check(a) \/ Mark(a) \/ CommitTransaction(a) \/ WriteTail(a)
  \/ Finish(a) \/ Fail(a) \/ Probe(a) \/ Unmark(a) \/ Stop(a)
  \/ \E o \in Object : Stage(a, o) \/ Publish(a, o)

PrunerNext(p) ==
  \/ Lock(p) \/ Walk(p) \/ EndSweep(p) \/ SweepMarkers(p) \/ StopPrune(p)
  \/ \E o \in Object : Sweep(p, o)

Next ==
  \/ \E a \in Fetcher : FetcherNext(a)
  \/ \E p \in Pruner : PrunerNext(p)
  \/ \E c \in Commit : Unref(c)

Spec == Init /\ [][Next]_vars

\* The same, with callers that drop the future of a run of prune.
DropSpec == Init /\ [][Next \/ \E p \in Pruner : Drop(p)]_vars

-----------------------------------------------------------------------------
(***************************************************************************)
(* The inductive invariant of Spec, for fetchers of distinct commits.      *)
(***************************************************************************)
TypeOK ==
  /\ store \subseteq Object /\ mark \subseteq Commit /\ tips \subseteq Commit
  /\ hold \in [Actor -> {"none", "shared", "exclusive"}]
  /\ pc \in [Actor -> {"idle", "check", "mark", "stage", "publish", "finish", "clear",
                       "unmark", "walk", "sweep", "markers"}]
  /\ whole \in [Fetcher -> BOOLEAN]
  /\ marked \in [Fetcher -> BOOLEAN]
  /\ todo \in [Fetcher -> SUBSET Object]
  /\ staged \in [Fetcher -> SUBSET Object]
  /\ left \in [Pruner -> SUBSET Object]
  /\ kept \in [Pruner -> SUBSET Commit]

Open == {"check", "mark", "stage", "publish"}
Sweeping == {"walk", "sweep", "markers"}

\* An actor holds the lock exactly in the steps that need it, and an
\* exclusive hold is the only one.
LockInv ==
  /\ \A a \in Fetcher :
       /\ hold[a] = IF pc[a] \in Open THEN "shared" ELSE "none"
       /\ pc[a] \notin Sweeping
       /\ pc[a] # "idle" /\ a \in Writer => pc[a] \in {"stage", "publish"}
  /\ \A p \in Pruner :
       /\ hold[p] = IF pc[p] \in Sweeping THEN "exclusive" ELSE "none"
       /\ pc[p] \in {"idle"} \cup Sweeping
  /\ \A p \in Pruner, a \in Actor : hold[p] = "exclusive" /\ a # p => hold[a] = "none"

\* The commit of a fetcher with its whole tree.
Whole(c) == {c} \cup Closure(c)

\* What a fetcher has staged, found in the store or has yet to stage is what
\* it wants; its marker is in place, or it found the commit complete.
FetchOK(a) ==
  LET c == Wants[a]
  IN  /\ pc[a] \notin {"stage", "publish"} => staged[a] = {}
      /\ pc[a] \in {"mark", "stage", "publish"} =>
           /\ c \in store \cup staged[a] \cup todo[a]
           /\ whole[a] \/ ~marked[a] => Whole(c) \subseteq store \cup staged[a] \cup todo[a]
      /\ pc[a] \notin {"mark", "stage"} => todo[a] = {}
      /\ pc[a] \in {"stage", "publish"} /\ marked[a] => c \in mark
      /\ pc[a] \in {"check", "idle"} \/ a \in Writer => ~marked[a]
      /\ pc[a] \in {"mark", "finish", "clear", "unmark"} => marked[a]
      /\ a \in Puller /\ ~marked[a] => staged[a] = {} /\ todo[a] = {}
      /\ pc[a] = "finish" /\ whole[a] /\ c \in store => Closure(c) \subseteq store
      /\ pc[a] = "unmark" => c \notin store
      /\ staged[a] \cap Commit \subseteq {c} /\ todo[a] \cap Commit \subseteq {c}

FetchInv == \A a \in Fetcher : FetchOK(a)

\* A doomed object is neither a commit that a ref names nor below a commit
\* that stays and is complete.
SweepOK(p) ==
  /\ pc[p] # "sweep" => left[p] = {}
  /\ pc[p] = "sweep" =>
       /\ left[p] \cap tips = {}
       /\ \A c \in (Commit \cap store) \ left[p] :
            Closure(c) \subseteq store => Closure(c) \cap left[p] = {}
  /\ pc[p] \in {"sweep", "markers"} => (Commit \cap store) \ left[p] \subseteq kept[p]

SweepInv == \A p \in Pruner : SweepOK(p)

-----------------------------------------------------------------------------
(***************************************************************************)
(* Properties.                                                             *)
(***************************************************************************)

\* A commit that a pull can want is complete in the store, or a marker names
\* it: at no point of a pull, of its failure, of a crash or of a prune is an
\* incomplete commit without its marker (pull.rs, Commit state and Complete
\* commits; prune.rs, Sweep order).
UnmarkedIsComplete ==
  \A a \in Puller : Complete(Wants[a]) => Closure(Wants[a]) \subseteq store

\* A ref names a commit that the store holds, with its whole tree unless the
\* commit is marked partial, whatever pulls, writers and prunes run beside
\* each other and wherever they stop (Transaction::commit, prune).
TipIsComplete ==
  \A c \in tips : c \in store /\ (c \notin mark => Closure(c) \subseteq store)

\* A run of prune removes objects while no transaction is open: from the walk
\* to the last unlink it is the only holder of the lock (prune.rs, Lock).
SweepIsExclusive ==
  \A p \in Pruner, a \in Actor :
    left[p] # {} \/ pc[p] = "markers" => hold[a] = IF a = p THEN "exclusive" ELSE "none"

\* While a transaction is open, no object that its staging could find in the
\* store leaves the store (LockKind, stage_metadata_blocking).
OpenKeepsObjects ==
  [][(\E a \in Fetcher : pc[a] \in Open) => store \subseteq store']_vars

\* The holds follow the rules of the repository lock.
RW == INSTANCE RWLock WITH
        Task <- Actor,
        readers <- {a \in Actor : hold[a] = "shared"},
        writers <- {a \in Actor : hold[a] = "exclusive"}
RWSpec == RW!Spec

Inv ==
  /\ TypeOK
  /\ LockInv
  /\ FetchInv
  /\ SweepInv
  /\ UnmarkedIsComplete
  /\ TipIsComplete

\* Each fetcher has a commit of its own.
OwnCommits == \A a, b \in Fetcher : Wants[a] = Wants[b] => a = b
=============================================================================
