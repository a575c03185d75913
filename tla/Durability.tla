----------------------------- MODULE Durability -----------------------------
(***************************************************************************)
(* What a power loss leaves of a repository with [core] fsync on: the      *)
(* staging of objects and sync_staged (crates/ostrya/src/transaction.rs),  *)
(* publish_blocking (write.rs), the tail with detached metadata (commit.rs)*)
(* and refs (refs.rs), the markers of a pull, which nothing syncs          *)
(* (pull.rs), and the sweep of prune (prune.rs).                           *)
(*                                                                         *)
(* The file system keeps three sets of directory entries: those that are   *)
(* visible, those that surely survive a power loss, and those that may     *)
(* exist after one.  An unsynced create or unlink leaves an entry between  *)
(* the two.  An entry is an object, or the dict, the ref or the marker of  *)
(* a commit.                                                               *)
(***************************************************************************)
EXTENDS Naturals, FiniteSets

CONSTANTS
  Puller,    \* the pulls, one at a time for each commit
  Receiver,  \* the receive sessions, which call sync_staged
  Commit,    \* the commit objects
  Content,   \* the other objects
  Wants,     \* the commit of each puller and receiver
  Tree,      \* the objects that the tree of a commit reaches
  Dict,      \* the commits that come with detached metadata
  NoCount,   \* presynced is None
  MaxStops,  \* how many transactions and sweeps stop before their end
  MaxLosses  \* how many times the power goes

Fetcher == Puller \cup Receiver
Object == Commit \cup Content

Meta(c) == <<"commitmeta", c>>
Ref(c) == <<"ref", c>>
Marker(c) == <<"commitpartial", c>>

Metas == {Meta(c) : c \in Commit}
Refs == {Ref(c) : c \in Commit}
Markers == {Marker(c) : c \in Commit}
Files == Object \cup Metas
Entry == Files \cup Refs \cup Markers

\* What the module takes for granted of its constants.
ConstantsOK ==
  /\ Puller \cap Receiver = {} /\ Commit \cap Content = {}
  /\ Object \cap (Metas \cup Refs \cup Markers) = {}
  /\ Wants \in [Fetcher -> Commit] /\ Tree \in [Commit -> SUBSET Content]
  /\ \A a, b \in Fetcher : Wants[a] = Wants[b] => a = b
  /\ Dict \subseteq Commit /\ NoCount \notin Nat

VARIABLES
  vis,       \* the entries that a lookup finds
  sure,      \* the entries that survive a power loss
  may,       \* the entries that can exist after a power loss
  raw,       \* the files outside of staging whose data is not on the disk
  pc,        \* the step of each transaction
  todo,      \* what a transaction has yet to stage
  jobs,      \* the objects of a transaction that are written, not recorded
  staged,    \* Staged::objects
  soft,      \* the staged files of a transaction with unsynced data
  presynced, \* Staged::presynced
  count,     \* the count that sync_staged took
  synced,    \* whether the publication ran its syncfs
  renamed,   \* the objects that the publication has renamed
  sweep,     \* the step of prune
  doomed,    \* the entries that prune has yet to remove
  touched,   \* the removals that prune has yet to sync
  stops, losses

fs == <<vis, sure, may, raw>>
txn == <<pc, todo, jobs, staged, soft, presynced, count, synced, renamed>>
prune == <<sweep, doomed, touched>>
bounds == <<stops, losses>>

(***************************************************************************)
(* History, which no action reads: the objects that a transaction found in *)
(* objects/ before their names were durable, and the commits and refs that *)
(* a stopped sweep has unlinked with no sync.                              *)
(***************************************************************************)
VARIABLES borrowed, revived

history == <<borrowed, revived>>
vars == <<fs, txn, prune, bounds, history>>

Init ==
  /\ vis = {} /\ sure = {} /\ may = {} /\ raw = {}
  /\ pc = [a \in Fetcher |-> "idle"]
  /\ todo = [a \in Fetcher |-> {}]
  /\ jobs = [a \in Fetcher |-> {}]
  /\ staged = [a \in Fetcher |-> {}]
  /\ soft = [a \in Fetcher |-> {}]
  /\ presynced = [a \in Fetcher |-> NoCount]
  /\ count = [a \in Fetcher |-> 0]
  /\ synced = [a \in Fetcher |-> FALSE]
  /\ renamed = [a \in Fetcher |-> {}]
  /\ sweep = "idle" /\ doomed = {} /\ touched = {}
  /\ stops = 0 /\ losses = 0
  /\ borrowed = {} /\ revived = {}

-----------------------------------------------------------------------------
(***************************************************************************)
(* The file system.                                                        *)
(***************************************************************************)
Create(s) == vis' = vis \cup s /\ may' = may \cup s /\ UNCHANGED sure
Unlink(s) == vis' = vis \ s /\ sure' = sure \ s /\ UNCHANGED may

\* fsync of the directories of the entries s.
SyncDirs(s) ==
  /\ sure' = sure \cup (s \cap vis)
  /\ may' = may \ (s \ vis)
  /\ borrowed' = borrowed \ s
  /\ revived' = revived \ s
  /\ UNCHANGED <<vis, raw>>

\* syncfs: each name and the data of each file, staged ones too.
Syncfs ==
  /\ sure' = vis /\ may' = vis /\ raw' = {}
  /\ soft' = [a \in Fetcher |-> {}]
  /\ borrowed' = borrowed \ vis
  /\ revived' = revived \cap vis
  /\ UNCHANGED vis

\* A file of the staging directory of a gets the name f.
Rename(a, f) ==
  /\ Create({f})
  /\ raw' = IF f \in soft[a] THEN raw \cup {f} ELSE raw \ {f}

(***************************************************************************)
(* The power goes: each entry that is not durable survives or does not,    *)
(* and the processes and the staging directories are gone.                 *)
(***************************************************************************)
PowerLoss ==
  /\ losses < MaxLosses
  /\ losses' = losses + 1
  /\ \E s \in SUBSET (may \ sure) :
       vis' = sure \cup s /\ sure' = sure \cup s /\ may' = sure \cup s
  /\ pc' = [a \in Fetcher |-> "idle"]
  /\ todo' = [a \in Fetcher |-> {}]
  /\ jobs' = [a \in Fetcher |-> {}]
  /\ staged' = [a \in Fetcher |-> {}]
  /\ soft' = [a \in Fetcher |-> {}]
  /\ presynced' = [a \in Fetcher |-> NoCount]
  /\ count' = [a \in Fetcher |-> 0]
  /\ synced' = [a \in Fetcher |-> FALSE]
  /\ renamed' = [a \in Fetcher |-> {}]
  /\ sweep' = "idle" /\ doomed' = {} /\ touched' = {}
  /\ UNCHANGED <<raw, stops, history>>

-----------------------------------------------------------------------------
(***************************************************************************)
(* A transaction.                                                          *)
(***************************************************************************)
Goes(a, s) == pc' = [pc EXCEPT ![a] = s]

\* The transactions with the repository lock, which prune waits for.
Open == {a \in Fetcher : pc[a] \notin {"idle", "unmark"}}

\* A commit is complete here if its object is present and no marker names it.
Complete(c) == c \in vis /\ Marker(c) \notin vis

\* Repo::transaction.  A pull plans nothing for a complete commit, and marks
\* each other one with no sync of the marker.
Begin(a) ==
  LET own   == Wants[a]
      plans == a \in Receiver \/ ~Complete(own)
  IN  /\ pc[a] = "idle" /\ sweep = "idle"
      /\ todo' = [todo EXCEPT ![a] = IF plans THEN {own} \cup Tree[own] ELSE {}]
      /\ Goes(a, "stage")
      /\ IF a \in Puller /\ plans THEN Create({Marker(own)}) ELSE UNCHANGED <<vis, sure, may>>
      /\ UNCHANGED <<raw, jobs, staged, soft, presynced, count, synced, renamed, prune,
                     bounds, history>>

\* After sync_staged, each metadata object is synced on its own.
SyncsMetadata(a) == presynced[a] # NoCount

\* A staging call reads the flag and starts its job.  After sync_staged, a
\* receive session stages nothing but the commit that the server makes.
Offer(a, o) ==
  /\ pc[a] \in {"stage", "presync", "counted", "late"} /\ o \in todo[a]
  /\ pc[a] = "stage" \/ o \in Commit
  /\ todo' = [todo EXCEPT ![a] = @ \ {o}]
  /\ jobs' = [jobs EXCEPT ![a] =
                @ \cup {[obj |-> o, synced |-> SyncsMetadata(a), written |-> FALSE]}]
  /\ UNCHANGED <<fs, pc, staged, soft, presynced, count, synced, renamed, prune, bounds,
                 history>>

\* The job finds the object in objects/, or writes it to the staging
\* directory.
RunJob(a, j) ==
  /\ j \in jobs[a] /\ ~j.written
  /\ IF j.obj \in vis
     THEN /\ jobs' = [jobs EXCEPT ![a] = @ \ {j}]
          /\ borrowed' = borrowed \cup ({j.obj} \ sure)
          /\ UNCHANGED soft
     ELSE /\ jobs' = [jobs EXCEPT ![a] = (@ \ {j}) \cup {[j EXCEPT !.written = TRUE]}]
          /\ soft' = [soft EXCEPT ![a] = IF j.synced THEN @ ELSE @ \cup {j.obj}]
          /\ UNCHANGED borrowed
  /\ UNCHANGED <<fs, pc, todo, staged, presynced, count, synced, renamed, prune, bounds,
                 revived>>

\* presynced, after the record of j.
Recounted(a, j) ==
  IF j.synced /\ presynced[a] # NoCount THEN presynced[a] + 1 ELSE presynced[a]

\* record_object, after the job.
Record(a, j) ==
  /\ j \in jobs[a] /\ j.written
  /\ jobs' = [jobs EXCEPT ![a] = @ \ {j}]
  /\ staged' = [staged EXCEPT ![a] = @ \cup {j.obj}]
  /\ presynced' = [presynced EXCEPT ![a] = Recounted(a, j)]
  /\ UNCHANGED <<fs, pc, todo, soft, count, synced, renamed, prune, bounds, history>>

\* sync_staged counts the recorded objects ...
PresyncCount(a) ==
  /\ pc[a] = "stage" /\ a \in Receiver
  /\ todo[a] \cap Content = {}
  /\ count' = [count EXCEPT ![a] = Cardinality(staged[a])]
  /\ Goes(a, "presync")
  /\ UNCHANGED <<fs, todo, jobs, staged, soft, presynced, synced, renamed, prune, bounds,
                 history>>

\* ... runs a syncfs on the pool ...
PresyncJob(a) ==
  /\ pc[a] = "presync"
  /\ Syncfs
  /\ Goes(a, "counted")
  /\ UNCHANGED <<todo, jobs, staged, presynced, count, synced, renamed, prune, bounds>>

\* A mutant of Covered: the count is taken after the syncfs.
CoveredNow(a) == Cardinality(staged[a])

\* What the syncfs of sync_staged covers.
Covered(a) == count[a]

\* ... and stores the count.
PresyncStore(a) ==
  /\ pc[a] = "counted"
  /\ presynced' = [presynced EXCEPT ![a] = Covered(a)]
  /\ Goes(a, "late")
  /\ UNCHANGED <<fs, todo, jobs, staged, soft, count, synced, renamed, prune, bounds, history>>

\* The files of a transaction are staged, and commit starts.  The dict of a
\* commit is a staged file that the count does not cover.
StartCommit(a) ==
  /\ pc[a] = IF a \in Receiver THEN "late" ELSE "stage"
  /\ todo[a] = {} /\ jobs[a] = {}
  /\ soft' = [soft EXCEPT ![a] = @ \cup ({Meta(Wants[a])} \cap {Meta(c) : c \in Dict})]
  /\ Goes(a, "publish")
  /\ UNCHANGED <<fs, todo, jobs, staged, presynced, count, synced, renamed, prune, bounds,
                 history>>

\* syncfs_at_publish: sync_staged did not cover each staged object.
SyncfsAtPublish(a) == presynced[a] # Cardinality(staged[a])

\* publish with nothing to rename, which also syncs nothing.
PublishNothing(a) ==
  /\ pc[a] = "publish" /\ staged[a] = {}
  /\ Goes(a, "detached")
  /\ UNCHANGED <<fs, todo, jobs, staged, soft, presynced, count, synced, renamed, prune,
                 bounds, history>>

\* publish_blocking starts with its syncfs, or skips it.
PublishSync(a) ==
  /\ pc[a] = "publish" /\ staged[a] # {}
  /\ synced' = [synced EXCEPT ![a] = SyncfsAtPublish(a)]
  /\ IF SyncfsAtPublish(a) THEN Syncfs ELSE UNCHANGED <<fs, soft, history>>
  /\ Goes(a, "rename")
  /\ UNCHANGED <<todo, jobs, staged, presynced, count, renamed, prune, bounds>>

\* One staged object gets its name in objects/.
RenameObject(a, o) ==
  /\ pc[a] = "rename" /\ o \in staged[a] \ renamed[a]
  /\ Rename(a, o)
  /\ renamed' = [renamed EXCEPT ![a] = @ \cup {o}]
  /\ UNCHANGED <<pc, todo, jobs, staged, soft, presynced, count, synced, prune, bounds,
                 history>>

\* A mutant of Fanouts: the syncfs stands for the directory syncs.
FanoutsUnlessSynced(a) == IF synced[a] THEN {} ELSE renamed[a]

\* The objects whose directories the publication syncs.
Fanouts(a) == renamed[a]

\* The fanout directories and objects/ are synced after the last rename.
SyncObjects(a) ==
  /\ pc[a] = "rename" /\ renamed[a] = staged[a]
  /\ SyncDirs(Fanouts(a))
  /\ Goes(a, "detached")
  /\ UNCHANGED <<todo, jobs, staged, soft, presynced, count, synced, renamed, prune, bounds>>

\* DetachedJob::staged_durable.
StagedDurable(a) == synced[a]

\* DetachedJob::run makes the staged dict durable ...
SyncDetached(a) ==
  /\ pc[a] = "detached" /\ Wants[a] \in Dict
  /\ IF StagedDurable(a) THEN UNCHANGED <<fs, soft, history>> ELSE Syncfs
  /\ Goes(a, "install")
  /\ UNCHANGED <<todo, jobs, staged, presynced, count, synced, renamed, prune, bounds>>

\* ... renames it ...
InstallDetached(a) ==
  /\ pc[a] = "install"
  /\ Rename(a, Meta(Wants[a]))
  /\ Goes(a, "installed")
  /\ UNCHANGED <<todo, jobs, staged, soft, presynced, count, synced, renamed, prune, bounds,
                 history>>

\* ... and syncs its fanout directory.
SyncFanout(a) ==
  /\ pc[a] = "installed"
  /\ SyncDirs({Meta(Wants[a])})
  /\ Goes(a, "refs")
  /\ UNCHANGED <<todo, jobs, staged, soft, presynced, count, synced, renamed, prune, bounds>>

\* The ref: a synced temp file and its rename.
WriteRef(a) ==
  /\ pc[a] = "refs" \/ (pc[a] = "detached" /\ Wants[a] \notin Dict)
  /\ Create({Ref(Wants[a])})
  /\ Goes(a, "refsync")
  /\ UNCHANGED <<raw, todo, jobs, staged, soft, presynced, count, synced, renamed, prune,
                 bounds, history>>

\* The transaction of a is over, and a goes to the step s.
Ends(a, s) ==
  /\ Goes(a, s)
  /\ todo' = [todo EXCEPT ![a] = {}]
  /\ jobs' = [jobs EXCEPT ![a] = {}]
  /\ staged' = [staged EXCEPT ![a] = {}]
  /\ soft' = [soft EXCEPT ![a] = {}]
  /\ presynced' = [presynced EXCEPT ![a] = NoCount]
  /\ count' = [count EXCEPT ![a] = 0]
  /\ synced' = [synced EXCEPT ![a] = FALSE]
  /\ renamed' = [renamed EXCEPT ![a] = {}]

\* The directories of the refs are synced, and the locks go.
SyncRefs(a) ==
  /\ pc[a] = "refsync"
  /\ SyncDirs({Ref(Wants[a])})
  /\ Ends(a, IF a \in Puller THEN "unmark" ELSE "idle")
  /\ UNCHANGED <<prune, bounds>>

\* The last step of a pull removes its marker, with no sync.
Unmark(a) ==
  /\ pc[a] = "unmark"
  /\ Unlink({Marker(Wants[a])})
  /\ Goes(a, "idle")
  /\ UNCHANGED <<raw, todo, jobs, staged, soft, presynced, count, synced, renamed, prune,
                 bounds, history>>

\* A transaction stops: an error, or the end of its process.  After an error,
\* a pull removes its marker if the commit is absent.
Stop(a) ==
  /\ pc[a] # "idle" /\ stops < MaxStops
  /\ stops' = stops + 1
  /\ \/ UNCHANGED <<vis, sure, may>>
     \/ /\ a \in Puller /\ pc[a] # "unmark" /\ Wants[a] \notin vis
        /\ Unlink({Marker(Wants[a])})
  /\ Ends(a, "idle")
  /\ UNCHANGED <<raw, prune, losses, history>>

-----------------------------------------------------------------------------
(***************************************************************************)
(* A run of prune, under the exclusive repository lock.                    *)
(***************************************************************************)

\* The objects and the dict of a commit, which a walk from it keeps.
Whole(c) == {c} \cup Tree[c] \cup IF c \in Dict THEN {Meta(c)} ELSE {}

\* The walk from the refs and, unless the roots are the refs alone, from each
\* commit.  A weak ref is no root, and goes if the walk does not reach its
\* commit.
PruneWalk ==
  /\ sweep = "idle" /\ Open = {}
  /\ \E weak \in SUBSET {c \in Commit : Ref(c) \in vis}, refsAlone \in BOOLEAN :
       LET roots == {c \in Commit \ weak : Ref(c) \in vis}
                      \cup IF refsAlone THEN {} ELSE Commit \cap vis
           keep  == UNION {Whole(c) : c \in roots}
       IN  /\ weak # {} => refsAlone
           /\ doomed' = ((vis \cap Files) \ keep) \cup {Ref(c) : c \in weak \ keep}
  /\ sweep' = "refs" /\ touched' = {}
  /\ UNCHANGED <<fs, txn, bounds, history>>

\* The phase of an entry: the refs go first, then the commits with their
\* dicts, then the rest.
Phase(e) == IF e \in Refs THEN "refs" ELSE IF e \in Commit \cup Metas THEN "commits" ELSE "content"

\* One doomed entry of the phase is unlinked.
Remove(e) ==
  /\ sweep = Phase(e) /\ e \in doomed
  /\ Unlink({e})
  /\ doomed' = doomed \ {e} /\ touched' = touched \cup {e}
  /\ UNCHANGED <<raw, txn, sweep, bounds, history>>

\* A mutant of Barrier: the phases follow each other with no sync.
BarrierNone == UNCHANGED <<fs, history>>

\* sync_dirs of the directories that the phase changed.
Barrier == SyncDirs(touched)

\* The phase is over and its removals are durable before the next one.
EndPhase(from, to) ==
  /\ sweep = from
  /\ \A e \in doomed : Phase(e) # from
  /\ Barrier
  /\ sweep' = to /\ touched' = {}
  /\ UNCHANGED <<txn, doomed, bounds>>

\* The content phase syncs nothing.  The markers of absent commits go last.
EndPrune ==
  /\ sweep = "content" /\ doomed = {}
  /\ Unlink({m \in Markers : \A c \in Commit \cap vis : m # Marker(c)})
  /\ sweep' = "idle" /\ touched' = {}
  /\ UNCHANGED <<raw, txn, doomed, bounds, history>>

\* The run stops: an error, or the end of its process.
StopPrune ==
  /\ sweep # "idle" /\ stops < MaxStops
  /\ stops' = stops + 1
  /\ sweep' = "idle" /\ doomed' = {} /\ touched' = {}
  /\ revived' = revived \cup ((Commit \cup Refs) \cap (may \ vis))
  /\ UNCHANGED <<fs, txn, losses, borrowed>>

-----------------------------------------------------------------------------
FetcherNext(a) ==
  \/ Begin(a) \/ StartCommit(a) \/ PresyncCount(a) \/ PresyncJob(a) \/ PresyncStore(a)
  \/ PublishNothing(a) \/ PublishSync(a) \/ SyncObjects(a)
  \/ SyncDetached(a) \/ InstallDetached(a) \/ SyncFanout(a)
  \/ WriteRef(a) \/ SyncRefs(a) \/ Unmark(a) \/ Stop(a)
  \/ \E o \in Object : Offer(a, o) \/ RenameObject(a, o)
  \/ \E j \in jobs[a] : RunJob(a, j) \/ Record(a, j)

PruneNext ==
  \/ PruneWalk \/ EndPhase("refs", "commits") \/ EndPhase("commits", "content")
  \/ EndPrune \/ StopPrune
  \/ \E e \in Files \cup Refs : Remove(e)

Next == (\E a \in Fetcher : FetcherNext(a)) \/ PruneNext \/ PowerLoss

Spec == Init /\ [][Next]_vars

-----------------------------------------------------------------------------
Job == [obj : Object, synced : BOOLEAN, written : BOOLEAN]

TypeOK ==
  /\ sure \subseteq vis /\ vis \subseteq may /\ may \subseteq Entry
  /\ pc \in [Fetcher -> {"idle", "stage", "presync", "counted", "late", "publish", "rename",
                         "detached", "install", "installed", "refs", "refsync", "unmark"}]
  /\ todo \in [Fetcher -> SUBSET Object] /\ jobs \in [Fetcher -> SUBSET Job]
  /\ staged \in [Fetcher -> SUBSET Object] /\ soft \in [Fetcher -> SUBSET Files]
  /\ presynced \in [Fetcher -> Nat \cup {NoCount}] /\ count \in [Fetcher -> Nat]
  /\ synced \in [Fetcher -> BOOLEAN] /\ renamed \in [Fetcher -> SUBSET Object]
  /\ sweep \in {"idle", "refs", "commits", "content"}
  /\ doomed \subseteq Files \cup Refs /\ touched \subseteq Files \cup Refs
  /\ stops \in Nat /\ losses \in Nat
  /\ borrowed \subseteq Object /\ revived \subseteq Commit \cup Refs

-----------------------------------------------------------------------------
(* What a transaction keeps.                                               *)

\* The objects of a commit, and those of a transaction that are not durable.
Objects(c) == {c} \cup Tree[c]
Written(a) == {j.obj : j \in {i \in jobs[a] : i.written}} \cup staged[a]
Pending(a) == todo[a] \cup {j.obj : j \in jobs[a]} \cup staged[a]

Staging == {"stage", "presync", "counted", "late"}
Tail == {"detached", "install", "installed", "refs", "refsync"}

\* Each object is once in what a transaction has to do and has done.
StageOf(a) ==
  /\ Pending(a) \subseteq Objects(Wants[a])
  /\ todo[a] \cap staged[a] = {} /\ IsFiniteSet(staged[a]) /\ renamed[a] \subseteq staged[a]
  /\ \A j \in jobs[a] : j.obj \notin todo[a] \cup staged[a]
  /\ \A i, j \in jobs[a] : i.obj = j.obj => i = j
  /\ pc[a] \notin Staging => todo[a] = {} /\ jobs[a] = {}
  /\ pc[a] \in {"idle", "unmark"} => staged[a] = {} /\ soft[a] = {} /\ ~synced[a]
  /\ pc[a] \in Staging \cup {"idle", "unmark", "publish"} => renamed[a] = {}
  /\ pc[a] \in {"presync", "counted", "late"} \/ presynced[a] # NoCount => a \in Receiver

StageInv == \A a \in Fetcher : StageOf(a)

\* The files of a transaction with unsynced data: sync_staged has a count of
\* others only.
SoftOf(a) ==
  /\ \A o \in todo[a] : o \notin soft[a]
  /\ \A j \in jobs[a] : j.obj \in soft[a] => j.written /\ ~j.synced
  /\ pc[a] = "presync" => count[a] <= Cardinality(staged[a])
  /\ pc[a] = "counted" => count[a] <= Cardinality(staged[a] \ soft[a])
  /\ presynced[a] # NoCount => presynced[a] <= Cardinality(staged[a] \ soft[a])
  /\ pc[a] = "rename" => staged[a] \cap soft[a] = {}
  /\ pc[a] = "install" => soft[a] = {}
  /\ synced[a] => soft[a] = {} /\ pc[a] \in Tail \cup {"rename"}

\* No file has a name in the store and unsynced data.
SoftInv == raw = {} /\ \A a \in Fetcher : SoftOf(a)

\* The names of the objects of a commit survive a power loss, or a
\* transaction found them before they did.
Kept(s) == s \subseteq sure \cup borrowed

\* A commit object that a stopped sweep had removed, and that is back.
Back(c) == c \in revived \cap sure

\* What a transaction has is durable when its publication ends.
FetchOf(a) ==
  LET own == Wants[a] IN
  /\ pc[a] \in Staging \cup {"publish", "rename"} =>
       \/ Objects(own) \subseteq Pending(a) \cup sure \cup borrowed
       \/ Back(own) /\ Pending(a) = {}
  /\ pc[a] = "rename" => renamed[a] \subseteq vis
  /\ pc[a] \in Staging \cup {"publish", "rename"} /\ own \in Written(a)
       /\ Ref(own) \in may \ revived => Kept(Whole(own))
  /\ pc[a] \in Tail => Kept(Objects(own)) \/ Back(own)
  /\ pc[a] \in {"install", "installed", "refs"} => own \in Dict
  /\ pc[a] = "installed" => Meta(own) \in vis
  /\ pc[a] \in {"refs", "refsync"} /\ own \in Dict => Meta(own) \in sure
  /\ a \in Puller /\ Pending(a) # {} => Marker(own) \in vis
  /\ a \in Puller /\ pc[a] = "rename" => Marker(own) \in sure

FetchInv == \A a \in Fetcher : FetchOf(a)

-----------------------------------------------------------------------------
(* What the refs, the markers and a sweep keep.                            *)

RefInv ==
  \A c \in Commit : Ref(c) \in may \ revived => Back(c) \/ Kept(Whole(c))

\* The marker of a pull is durable with its commit.  A pull takes a commit
\* with no marker for a complete one.
Unmarked(a) == Marker(Wants[a]) \notin vis \/ pc[a] = "unmark"
PullInv ==
  \A a \in Puller :
    LET own == Wants[a] IN
    /\ own \in may \ revived /\ Marker(own) \in vis => Marker(own) \in sure
    /\ own \in may \ revived /\ Unmarked(a) => Kept(Tree[own])
    /\ own \in vis /\ Unmarked(a) => Back(own) \/ Kept(Objects(own))

\* A sweep has the lock, removes nothing that a ref or a commit it keeps
\* names, and removes what names a file before the file.
SweepInv ==
  /\ (may \ vis) \cap (Commit \cup Refs) \subseteq revived \cup touched
  /\ touched \cap vis = {}
  /\ sweep = "idle" => doomed = {} /\ touched = {}
  /\ sweep # "idle" => Open = {}
  /\ sweep = "refs" => touched \subseteq Refs
  /\ sweep = "commits" => touched \subseteq Commit \cup Metas /\ doomed \cap Refs = {}
  /\ sweep = "content" => touched \subseteq Content /\ doomed \subseteq Content
  /\ \A c \in Commit :
       /\ Ref(c) \in may \ revived =>
            \/ Whole(c) \cap (doomed \cup touched) = {}
            \/ sweep = "refs" /\ Ref(c) \in doomed \cup touched
       /\ c \in vis \ doomed => Tree[c] \cap (doomed \cup touched) = {}

Inv == TypeOK /\ StageInv /\ SoftInv /\ FetchInv /\ RefInv /\ PullInv /\ SweepInv

-----------------------------------------------------------------------------
\* After a power loss no object and no detached metadata is in place with
\* data that was not written: each rename of a staged file comes after a
\* sync of its data, also where the publication or the install skips its
\* syncfs (sync_staged, record_object, syncfs_at_publish, DetachedJob::run).
NoTornFile == may \cap raw = {}

\* A ref that can exist after a power loss names a commit whose objects and
\* detached metadata surely exist then: "no ref is durable before what it
\* names" (write_resolved_refs_blocking).
DurableRefIsWhole == \A c \in Commit : Ref(c) \in may => Whole(c) \subseteq sure

\* The same, but for objects that a transaction found in objects/ before
\* their names were durable, and for commits that a stopped sweep was
\* removing (write_tail, publish, sweep_blocking).
RefNamesDurable ==
  \A c \in Commit \ revived : Ref(c) \in may \ revived => Whole(c) \subseteq sure \cup borrowed

\* With the same exceptions, a commit of a pull that can exist after a power
\* loss with no marker is complete then: the syncfs of the publication makes
\* the marker durable before the first rename, the objects are durable
\* before the marker goes, and the sweep syncs the removal of the commit
\* before it removes a part of its tree (pull.rs, sweep_blocking).
UnmarkedIsWhole ==
  \A a \in Puller :
    LET own == Wants[a]
    IN  own \in may \ revived /\ Marker(own) \notin sure
          => Tree[own] \subseteq sure \cup borrowed
=============================================================================
