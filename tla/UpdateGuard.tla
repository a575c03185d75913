---------------------------- MODULE UpdateGuard -----------------------------
(***************************************************************************)
(* The update guard (crates/ostrya/src/update.rs): it holds the repository *)
(* lock shared and the update lock while its writes of refs and config run *)
(* as jobs of the blocking pool, and releases both after each directory    *)
(* that a write changed is synced.                                         *)
(*                                                                         *)
(* A guard is one call of begin_update, a write one call of a method of    *)
(* the guard.  A caller may drop the future of a write, of finish, and the *)
(* guard at any time: a job that runs goes on, a job that has not started  *)
(* may go unrun.  Each job has a reference to the state Held of its guard, *)
(* and the thread that drops the last reference runs the drop of Held.     *)
(*                                                                         *)
(* The two locks are the ones that UpdateLock and RepoLock model, here by  *)
(* what those promise.  [core] fsync is on: off, no directory is recorded  *)
(* or synced.                                                              *)
(***************************************************************************)
EXTENDS Naturals, FiniteSets

CONSTANTS
  Guard,    \* the calls of begin_update
  Write,    \* the writes of all guards
  GuardOf,  \* the guard of each write
  Edit,     \* the remote calls that edit config; the other writes set refs
  NoGuard, NoWrite

\* The directories that writes change: the repository root, and a refs one.
Dir == {"root", "heads"}

VARIABLES
  update,   \* the guard with the update lock
  shared,   \* the guards with the repository lock shared
  pruning,  \* TRUE while a prune has the repository lock exclusive
  guard,    \* where the caller of each guard is
  inFlight, \* Writes::in_flight
  dirs,     \* Writes::dirs
  mutex,    \* the write with the mutex config of the guard
  job,      \* where the job of each write is
  seen,     \* the edits that a job read in config
  closing,  \* where finish_blocking, or the drop of Held, is
  todo,     \* the directories that it has yet to sync
  config,   \* the edits in the file config
  edits,    \* the edits that jobs have written (history)
  dirty,    \* the directories of each guard that changed and are not synced
  failed    \* the directories of each guard whose sync failed

locks == <<update, shared, pruning>>
writes == <<inFlight, dirs>>
jobs == <<mutex, job, seen>>
close == <<closing, todo>>
disk == <<config, edits, dirty, failed>>

vars == <<locks, guard, writes, jobs, close, disk>>

(***************************************************************************)
(* guard: "idle"; "shared", in its wait for the update lock; "live";       *)
(* "gone", when finish took it or it dropped.                              *)
(* job: "idle"; "queued" in the pool; "read", with the mutex config;       *)
(* "put" after its write; "recorded"; "ended".                             *)
(* closing: "no"; "queued" and "start", finish_blocking before and after   *)
(* its first step; "waiting" on the condition idle; "sync"; "unlock";      *)
(* "unshare", after the update lock; "ended".                              *)
(***************************************************************************)
Running == {"queued", "read", "put", "recorded"}

TypeOK ==
  /\ update \in Guard \cup {NoGuard} /\ shared \subseteq Guard
  /\ pruning \in BOOLEAN
  /\ guard \in [Guard -> {"idle", "shared", "live", "gone"}]
  /\ inFlight \in [Guard -> Nat]
  /\ dirs \in [Guard -> SUBSET Dir]
  /\ mutex \in [Guard -> Write \cup {NoWrite}]
  /\ job \in [Write -> Running \cup {"idle", "ended"}]
  /\ seen \in [Write -> SUBSET Write]
  /\ closing \in [Guard -> {"no", "queued", "start", "waiting", "sync", "unlock", "unshare", "ended"}]
  /\ todo \in [Guard -> SUBSET Dir]
  /\ config \subseteq Write /\ edits \subseteq Write
  /\ dirty \in [Guard -> SUBSET Dir]
  /\ failed \in [Guard -> SUBSET Dir]

Init ==
  /\ update = NoGuard /\ shared = {} /\ pruning = FALSE
  /\ guard = [g \in Guard |-> "idle"]
  /\ inFlight = [g \in Guard |-> 0]
  /\ dirs = [g \in Guard |-> {}]
  /\ mutex = [g \in Guard |-> NoWrite]
  /\ job = [w \in Write |-> "idle"]
  /\ seen = [w \in Write |-> {}]
  /\ closing = [g \in Guard |-> "no"]
  /\ todo = [g \in Guard |-> {}]
  /\ config = {} /\ edits = {}
  /\ dirty = [g \in Guard |-> {}]
  /\ failed = [g \in Guard |-> {}]

-----------------------------------------------------------------------------
(***************************************************************************)
(* begin_update.                                                           *)
(***************************************************************************)

\* lock_for_update takes the repository lock first.
TakeShared(g) ==
  /\ guard[g] = "idle" /\ ~pruning
  /\ shared' = shared \cup {g}
  /\ guard' = [guard EXCEPT ![g] = "shared"]
  /\ UNCHANGED <<update, pruning, writes, jobs, close, disk>>

TakeUpdate(g) ==
  /\ guard[g] = "shared" /\ update = NoGuard
  /\ update' = g
  /\ guard' = [guard EXCEPT ![g] = "live"]
  /\ UNCHANGED <<shared, pruning, writes, jobs, close, disk>>

\* The wait for the update lock times out: the repository lock goes.
GiveUp(g) ==
  /\ guard[g] = "shared"
  /\ shared' = shared \ {g}
  /\ guard' = [guard EXCEPT ![g] = "idle"]
  /\ UNCHANGED <<update, pruning, writes, jobs, close, disk>>

\* A prune takes the repository lock exclusive, or releases it.
Prune ==
  /\ pruning \/ shared = {}
  /\ pruning' = ~pruning
  /\ UNCHANGED <<update, shared, guard, writes, jobs, close, disk>>

-----------------------------------------------------------------------------
(***************************************************************************)
(* A write: UpdateGuard::write and its job.                                *)
(***************************************************************************)
Goes(w, s) == job' = [job EXCEPT ![w] = s]

\* The directory that a write changes.
DirOf(w) == IF w \in Edit THEN "root" ELSE "heads"

\* The first poll of a write: InFlight::start, and the job goes to the pool.
Start(w) ==
  LET g == GuardOf[w]
  IN  /\ job[w] = "idle" /\ guard[g] = "live"
      /\ inFlight' = [inFlight EXCEPT ![g] = @ + 1]
      /\ Goes(w, "queued")
      /\ UNCHANGED <<locks, guard, dirs, mutex, seen, close, disk>>

\* A mutant of MayEdit: edits of one guard do not wait for each other.
MayEditAlways(w) == TRUE

MayEdit(w) == mutex[GuardOf[w]] = NoWrite

\* edit_config takes the mutex config, and the edit reads config.
ReadConfig(w) ==
  /\ job[w] = "queued" /\ w \in Edit /\ MayEdit(w)
  /\ mutex' = [mutex EXCEPT ![GuardOf[w]] = w]
  /\ seen' = [seen EXCEPT ![w] = config]
  /\ Goes(w, "read")
  /\ UNCHANGED <<locks, guard, writes, close, disk>>

\* A job is before its write.
Writes(w) == job[w] = IF w \in Edit THEN "read" ELSE "queued"

\* The mutex goes at the end of an edit.
Unlocks(w) == mutex' = [mutex EXCEPT ![GuardOf[w]] = IF w \in Edit THEN NoWrite ELSE @]

\* The write replaces a ref file, or config by what it read with its edit.
Put(w) ==
  /\ Writes(w) /\ Unlocks(w)
  /\ IF w \in Edit
     THEN config' = seen[w] \cup {w} /\ edits' = edits \cup {w}
     ELSE UNCHANGED <<config, edits>>
  /\ dirty' = [dirty EXCEPT ![GuardOf[w]] = @ \cup {DirOf(w)}]
  /\ Goes(w, "put")
  /\ UNCHANGED <<locks, guard, writes, seen, close, failed>>

\* The write fails and changes no directory.
PutFails(w) ==
  /\ Writes(w) /\ Unlocks(w)
  /\ Goes(w, "recorded")
  /\ UNCHANGED <<locks, guard, writes, seen, close, disk>>

\* The directories that the write of a job gives to record.
Changed(w) == {DirOf(w)}

\* The job records the directory that it changed.
Record(w) ==
  /\ job[w] = "put"
  /\ dirs' = [dirs EXCEPT ![GuardOf[w]] = @ \cup Changed(w)]
  /\ Goes(w, "recorded")
  /\ UNCHANGED <<locks, guard, inFlight, mutex, seen, close, disk>>

\* A mutant of Notified: the drop of the last InFlight signals nobody.
NotifiedNever(g) == closing

\* notify_all, if no write is left in flight.
Notified(g) ==
  IF closing[g] = "waiting" /\ inFlight[g] = 1
  THEN [closing EXCEPT ![g] = "start"]
  ELSE closing

\* InFlight::drop, at the end of the job or when the pool drops it unrun.
EndFlight(w) ==
  LET g == GuardOf[w]
  IN  /\ job[w] \in {"recorded", "queued"}
      /\ inFlight' = [inFlight EXCEPT ![g] = @ - 1]
      /\ closing' = Notified(g)
      /\ Goes(w, "ended")
      /\ UNCHANGED <<locks, guard, dirs, mutex, seen, todo, disk>>

-----------------------------------------------------------------------------
(***************************************************************************)
(* The end of a guard.                                                     *)
(***************************************************************************)
Closes(g, s) == closing' = [closing EXCEPT ![g] = s]

\* The caller drops the guard, or a finish that it never polled.
DropGuard(g) ==
  /\ guard[g] = "live"
  /\ guard' = [guard EXCEPT ![g] = "gone"]
  /\ UNCHANGED <<locks, writes, jobs, close, disk>>

Settled(g) == inFlight[g] = 0 /\ dirs[g] = {}

\* finish: the short way releases the locks at once.
Finish(g) ==
  /\ guard[g] = "live"
  /\ guard' = [guard EXCEPT ![g] = "gone"]
  /\ Closes(g, IF Settled(g) THEN "unlock" ELSE "queued")
  /\ UNCHANGED <<locks, writes, jobs, todo, disk>>

\* The future of finish drops before its job starts, and the job goes unrun.
FinishUnrun(g) ==
  /\ closing[g] = "queued"
  /\ Closes(g, "no")
  /\ UNCHANGED <<locks, guard, writes, jobs, todo, disk>>

\* Both ends take the recorded directories.
TakesDirs(g) ==
  /\ Closes(g, "sync")
  /\ todo' = [todo EXCEPT ![g] = dirs[g]]
  /\ dirs' = [dirs EXCEPT ![g] = {}]

\* finish_blocking looks at the writes in flight, under the mutex state.
FinishLooks(g) ==
  /\ closing[g] \in {"queued", "start"}
  /\ \/ inFlight[g] > 0 /\ Closes(g, "waiting") /\ UNCHANGED <<todo, dirs>>
     \/ inFlight[g] = 0 /\ TakesDirs(g)
  /\ UNCHANGED <<locks, guard, inFlight, jobs, disk>>

\* A mutant of LastGone: a job has no reference to Held.
LastGoneGuard(g) == TRUE

\* No job has a reference to Held.
LastGone(g) == \A w \in Write : GuardOf[w] = g => job[w] \notin Running

\* Held::drop.
DropHeld(g) ==
  /\ guard[g] = "gone" /\ closing[g] = "no" /\ LastGone(g)
  /\ TakesDirs(g)
  /\ UNCHANGED <<locks, guard, inFlight, jobs, disk>>

\* sync_dirs_all goes on after a sync that fails.
Sync(g, d) ==
  /\ closing[g] = "sync" /\ d \in todo[g]
  /\ todo' = [todo EXCEPT ![g] = @ \ {d}]
  /\ \/ dirty' = [dirty EXCEPT ![g] = @ \ {d}] /\ UNCHANGED failed
     \/ failed' = [failed EXCEPT ![g] = @ \cup {d}] /\ UNCHANGED dirty
  /\ UNCHANGED <<locks, guard, writes, jobs, closing, config, edits>>

Synced(g) ==
  /\ closing[g] = "sync" /\ todo[g] = {}
  /\ Closes(g, "unlock")
  /\ UNCHANGED <<locks, guard, writes, jobs, todo, disk>>

\* The drop of UpdateLocks releases the update lock first.
ReleaseUpdate(g) ==
  /\ closing[g] = "unlock"
  /\ update' = NoGuard
  /\ Closes(g, "unshare")
  /\ UNCHANGED <<shared, pruning, guard, writes, jobs, todo, disk>>

ReleaseShared(g) ==
  /\ closing[g] = "unshare"
  /\ shared' = shared \ {g}
  /\ Closes(g, "ended")
  /\ UNCHANGED <<update, pruning, guard, writes, jobs, todo, disk>>

-----------------------------------------------------------------------------
JobStep(w) == ReadConfig(w) \/ Put(w) \/ PutFails(w) \/ Record(w) \/ EndFlight(w)

CloseStep(g) ==
  \/ FinishLooks(g) \/ DropHeld(g) \/ Synced(g) \/ ReleaseUpdate(g) \/ ReleaseShared(g)
  \/ \E d \in Dir : Sync(g, d)

Next ==
  \/ Prune
  \/ \E g \in Guard :
       TakeShared(g) \/ TakeUpdate(g) \/ GiveUp(g) \/ DropGuard(g) \/ Finish(g)
         \/ FinishUnrun(g) \/ CloseStep(g)
  \/ \E w \in Write : Start(w) \/ JobStep(w)

Spec == Init /\ [][Next]_vars

(***************************************************************************)
(* The threads of the pool run the jobs they have, and the thread that     *)
(* drops the last reference runs the drop.  A job that waits for the mutex *)
(* config takes it once it stays free.                                     *)
(* Nothing makes a caller finish or drop its guard.                        *)
(***************************************************************************)
Fairness ==
  /\ \A w \in Write :
       /\ WF_vars(ReadConfig(w))
       /\ WF_vars(job[w] # "queued" /\ JobStep(w))
       /\ WF_vars(w \notin Edit /\ JobStep(w))
  /\ \A g \in Guard : WF_vars(CloseStep(g))

FairSpec == Spec /\ Fairness

-----------------------------------------------------------------------------
\* The jobs of a guard that its count has.
InFlightOf(g) == {w \in Write : GuardOf[w] = g /\ job[w] \in Running}

\* The guard, or its end, holds both locks; its count is the jobs in flight,
\* which its end waits for.
GuardInv ==
  \A g \in Guard :
    /\ IsFiniteSet(InFlightOf(g)) /\ inFlight[g] = Cardinality(InFlightOf(g))
    /\ g \in shared <=> guard[g] # "idle" /\ closing[g] # "ended"
    /\ update = g <=> guard[g] \in {"live", "gone"} /\ closing[g] \notin {"unshare", "ended"}
    /\ closing[g] # "no" => guard[g] = "gone"
    /\ closing[g] \in {"sync", "unlock", "unshare", "ended"} =>
         InFlightOf(g) = {} /\ dirs[g] = {}
    /\ InFlightOf(g) # {} \/ dirs[g] # {} => guard[g] \in {"live", "gone"}
    /\ todo[g] # {} => closing[g] = "sync"

PruneInv == pruning => shared = {}

\* The directories that jobs of a guard changed and did not yet record.
Unrecorded(g) == {DirOf(w) : w \in {x \in InFlightOf(g) : job[x] = "put"}}

\* A directory that is not synced is still to be recorded, taken or synced.
DirtyInv ==
  \A g \in Guard : dirty[g] \subseteq failed[g] \cup dirs[g] \cup todo[g] \cup Unrecorded(g)

\* An edit between its read and its write has the mutex of its guard, and
\* config is still what it read.
EditInv ==
  /\ \A w \in Write :
       job[w] = "read" => w \in Edit /\ mutex[GuardOf[w]] = w /\ seen[w] = config
  /\ edits \subseteq config

Inv == TypeOK /\ GuardInv /\ PruneInv /\ DirtyInv /\ EditInv

\* A guard has both locks from the first poll of a write to the sync of the
\* directory that it changed, unless the sync fails, also when the future of
\* the write and the guard are dropped while it runs (write, finish,
\* finish_blocking, Held::drop): no write of another guard and no prune runs
\* beside it, or before what it wrote is durable.
WritesUnderLocks ==
  \A g \in Guard :
    InFlightOf(g) # {} \/ ~(dirty[g] \subseteq failed[g])
      => update = g /\ g \in shared /\ ~pruning

\* Each edit of config that a job wrote stays: no edit of the same guard or
\* of another one writes a config that it read before (edit_config).
NoLostEdit == edits \subseteq config

\* A guard that ended releases both locks in the end, although finish waits
\* for writes and futures drop (finish_blocking, InFlight::drop).
GuardReleases == \A g \in Guard : guard[g] = "gone" ~> g \notin shared /\ update # g
=============================================================================
