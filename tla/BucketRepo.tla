----------------------------- MODULE BucketRepo -----------------------------
(***************************************************************************)
(* The writers of a bucket repository (crates/ostrya/src/bucket/prune.rs,  *)
(* bucket/fsck.rs, bucket/summary.rs and push_repo/s3.rs): the push, the   *)
(* prune, the repair of the fsck and the update of the summary, over the   *)
(* objects, the partial-commit markers, the refs and the summary of one    *)
(* bucket.                                                                 *)
(*                                                                         *)
(* Each writer takes the writer lock, reads the bucket, and derives from   *)
(* what it read the set of requests it will send.  Each request has its    *)
(* place in the order of the run: the requests of one place run side by    *)
(* side, after each one of the places before it.  A check of the lock has  *)
(* a place of its own, and a prune checks the lock again between the       *)
(* deletes of one place.  The lock is what module BucketLock shows of it:  *)
(* at most one writer takes it, and a break gives it to another writer     *)
(* while its holder may still run.                                         *)
(***************************************************************************)
EXTENDS Naturals, FiniteSets, SequencesExt

CONSTANTS
  Writer,
  Commit,
  Tree,           \* the dirtrees and the files
  Name,           \* the refs of the namespace
  RootOf,         \* the root dirtree of a commit
  FilesOf,        \* the files of a dirtree
  History,        \* the parents of a commit, from the nearest
  MetaOf,         \* the detached metadata of the commits that have some
  CheckInterval,  \* CHECK_INTERVAL of the prune
  MaxRuns,        \* bound: the runs of all writers
  MaxRot,         \* bound: the objects that go bad in the bucket
  None            \* no commit, no summary, no holder

VARIABLES
  objects,   \* the objects of the bucket
  corrupt,   \* the ones whose bytes went bad
  marker,    \* the commits with a .commitpartial key
  refs,      \* the commit of each ref file
  summary,   \* the refs that the summary lists
  sig,       \* the summary that summary.sig signs
  lock,      \* the holder of the lock, "dead" for a writer that stopped
  op,        \* the run of each writer, "idle" for none
  todo,      \* the requests that the run of each writer has left
  sent,      \* the weight of the deletes of each writer since its last check
  runs,      \* the runs so far
  strayed,   \* a writer changed the bucket after it lost the lock
  late,      \* the deletes of each writer since it lost the lock
  repaired   \* the commits that a repair deleted

vars == <<objects, corrupt, marker, refs, summary, sig, lock, op, todo, sent,
          runs, strayed, late, repaired>>
bucket == <<objects, corrupt, marker, refs, summary, sig>>
history == <<strayed, late, repaired>>

Meta == Range(MetaOf)
Object == Commit \cup Tree \cup Meta
RefSet == [Name -> Commit \cup {None}]

Request ==
  [at : Nat, do : {"put", "delete", "check"},
   what : {"object", "marker", "ref", "summary", "sig", "lock"},
   key : Object \cup Name \cup {None}, value : Commit \cup RefSet \cup {None},
   weight : Nat, then : SUBSET Meta]

TypeOK ==
  /\ objects \subseteq Object
  /\ corrupt \subseteq objects
  /\ marker \subseteq Commit
  /\ refs \in RefSet
  /\ summary \in RefSet \cup {None}
  /\ sig \in RefSet \cup {None}
  /\ lock \in Writer \cup {None, "dead"}
  /\ op \in [Writer -> {"idle", "locked", "push", "prune", "fsck", "summary"}]
  /\ todo \in [Writer -> SUBSET Request]
  /\ sent \in [Writer -> Nat]
  /\ late \in [Writer -> Nat]
  /\ repaired \subseteq Commit
  /\ strayed \in BOOLEAN

Init ==
  /\ objects = {} /\ corrupt = {} /\ marker = {}
  /\ refs = [n \in Name |-> None]
  /\ summary = None /\ sig = None
  /\ lock = None
  /\ op = [w \in Writer |-> "idle"]
  /\ todo = [w \in Writer |-> {}]
  /\ sent = [w \in Writer |-> 0]
  /\ runs = 0
  /\ strayed = FALSE
  /\ late = [w \in Writer |-> 0]
  /\ repaired = {}

-----------------------------------------------------------------------------
(***************************************************************************)
(* Requests, each at its place in the order of its run.                    *)
(***************************************************************************)
Put(at, what, key, value) ==
  [at |-> at, do |-> "put", what |-> what, key |-> key, value |-> value,
   weight |-> 0, then |-> {}]

Delete(at, what, key) ==
  [at |-> at, do |-> "delete", what |-> what, key |-> key, value |-> None,
   weight |-> 0, then |-> {}]

CheckLock(at) ==
  [at |-> at, do |-> "check", what |-> "lock", key |-> None, value |-> None,
   weight |-> 0, then |-> {}]

\* An item of a list of the prune: a delete, then the deletes of metas.  Its
\* weight is the number of its deletes.
Item(at, what, key, metas) ==
  [at |-> at, do |-> "delete", what |-> what, key |-> key, value |-> None,
   weight |-> 1 + Cardinality(metas), then |-> metas]

PutObjects(at, S) == {Put(at, "object", o, None) : o \in S}
DeleteObjects(at, S) == {Delete(at, "object", o) : o \in S}

\* A check of the lock before requests, when there are some.
CheckFirst(at, requests) ==
  requests \cup (IF requests = {} THEN {} ELSE {CheckLock(at)})

\* The tree of a commit, one directory deep.
TreeOf(c) == {RootOf[c]} \cup FilesOf[RootOf[c]]

\* The detached metadata of the commits of a set.
MetasOf(C) == {MetaOf[c] : c \in C \cap DOMAIN MetaOf}

\* The commits that a ref set names, and the ones of no summary.
Named(r) == IF r = None THEN {} ELSE Range(r) \ {None}

-----------------------------------------------------------------------------
(***************************************************************************)
(* The push of commit c to the ref n, with the first k of its history.     *)
(* Each read of the state of the bucket is one step of the model: the      *)
(* holder of the lock is the only writer, unless a writer strayed.         *)
(***************************************************************************)

\* The commits of the push.
Offered(c, k) == {c} \cup {History[c][i] : i \in 1..k}

\* bucket_walk, the two pools of upload_to_bucket, and write_bucket_refs.
PushSteps(n, c, k) ==
  LET offered == Offered(c, k)
      missing == offered \ objects
      marked == (offered \cap objects) \cap marker
      upload == (UNION {TreeOf(m) : m \in missing \cup marked}) \ objects
  IN PutObjects(1, upload \cup MetasOf(missing \cup {c}))
       \cup PutObjects(2, missing)
       \cup {CheckLock(3)}
       \cup {Delete(4, "marker", m) : m \in marked}
       \cup (IF refs[n] = c THEN {} ELSE {Put(5, "ref", n, c)})

\* Each ref of the new ref set names a commit of the bucket or of the push.
PushAllowed(n, c, k) ==
  Named([refs EXCEPT ![n] = c])
    \subseteq objects \cup Offered(c, k)

-----------------------------------------------------------------------------
(***************************************************************************)
(* The prune.                                                              *)
(***************************************************************************)
\* A mutant of Fits: the item counts after the check of its group.
FitsLate(count, weight) == count <= CheckInterval

\* groups: the item comes with no new check of the lock, count being the
\* weight of the items since the last one.
Fits(count, weight) == count = 0 \/ count + weight <= CheckInterval

\* The parents that the walk reads from c, to the depth k.
Parents(c, k) ==
  {History[c][i] : i \in {j \in 1..Len(History[c]) :
     j <= k /\ c \in objects /\ \A h \in 1..(j - 1) : History[c][h] \in objects}}

\* A mutant of Roots: the summary stands for the refs.
RootsOfSummary(alone, k) ==
  Named(summary) \cup (IF alone THEN UNION {Parents(c, k) : c \in Named(summary)}
                       ELSE Commit \cap objects)

\* prune_walk: the commits it keeps, on the refs alone to the depth k.
Roots(alone, k) ==
  Named(refs) \cup Named(summary)
    \cup (IF alone THEN UNION {Parents(c, k) : c \in Named(refs)}
          ELSE Commit \cap objects)

\* walk_reachable_gc over the listing: the tree objects that it keeps.
Kept(C) ==
  {RootOf[c] : c \in C \cap objects}
    \cup UNION {FilesOf[RootOf[c]] : c \in {d \in C \cap objects : RootOf[d] \in objects}}

\* The walk reads no commit and no dirtree of a wrong checksum.
PruneAllowed(alone, k) ==
  LET C == Roots(alone, k) \cap objects
  IN (C \cup {RootOf[c] : c \in C}) \cap corrupt = {}

\* plan and prune_apply: the commits with their detached metadata, the
\* detached metadata of no commit, the content, and the markers.  The lists
\* are in no order, so the model has the groups of each order of them.
PruneSteps(alone, k) ==
  LET keep == Roots(alone, k)
      doomed == (Commit \cap objects) \ keep
      orphan == (objects \cap Meta) \ MetasOf(keep \cup objects)
      content == (Tree \cap objects) \ Kept(keep)
  IN CheckFirst(1, {Item(2, "object", c, MetasOf({c}) \cap objects) : c \in doomed}
                     \cup {Item(3, "object", o, {}) : o \in orphan})
       \cup CheckFirst(4, {Item(5, "object", o, {}) : o \in content})
       \cup CheckFirst(6, {Item(7, "marker", c, {}) : c \in marker \ (objects \ doomed)})

-----------------------------------------------------------------------------
(***************************************************************************)
(* The fsck with delete.  A commit or a dirtree of bad bytes does not      *)
(* parse, so the walk goes no further there.                               *)
(***************************************************************************)
Sound == objects \ corrupt

\* fsck_commits: the commits that parse.
Checked == Commit \cap Sound

\* The tree objects that fsck_trees and fsck_contents reach from c.
Reached(c) ==
  {RootOf[c]} \cup (IF RootOf[c] \in Sound THEN FilesOf[RootOf[c]] ELSE {})

\* The Missing, Mismatch and Corrupt findings on tree objects.
Faulty == (UNION {Reached(c) : c \in Checked}) \ Sound

\* A mutant of Attributed: a finding gives no marker for an absent object.
AttributedToBad == {c \in Checked : Reached(c) \cap Faulty \cap objects # {}}

\* fsck_attribute: the commits of the findings on tree objects.
Attributed == {c \in Checked : Reached(c) \cap Faulty # {}}

\* delete_plan, whole_marked and fsck_repair.
FsckSteps ==
  LET marks == Attributed \ marker
      whole == (Checked \cap marker) \ Attributed
      bad == Commit \cap corrupt
      tree == Faulty \cap objects
  IN CheckFirst(1,
       {Put(2, "marker", c, None) : c \in marks}
         \cup {Delete(3, "marker", c) : c \in whole}
         \cup CheckFirst(4, DeleteObjects(5, bad) \cup DeleteObjects(6, tree)))

-----------------------------------------------------------------------------
(***************************************************************************)
(* The update of the summary.                                              *)
(***************************************************************************)
\* refuse_unsigned, and the reads of commit_facts.
SummaryAllowed(signed) == (signed \/ sig = None) /\ Named(refs) \subseteq Sound

\* write_summary.
SummarySteps(signed) ==
  {CheckLock(1), Put(2, "summary", None, refs)}
    \cup (IF signed THEN {Put(3, "sig", None, refs)} ELSE {})

-----------------------------------------------------------------------------
(***************************************************************************)
(* The runs.                                                               *)
(***************************************************************************)
\* BucketRepo::lock, with a break of the lock when break_lock is set.
\* Bounds: MaxRuns runs, and no run begins after a writer strayed.
Lock(w, break_lock) ==
  /\ op[w] = "idle" /\ runs < MaxRuns /\ ~strayed
  /\ lock = None \/ break_lock
  /\ lock' = w
  /\ op' = [op EXCEPT ![w] = "locked"]
  /\ runs' = runs + 1
  /\ late' = [late EXCEPT ![w] = 0]
  /\ UNCHANGED <<bucket, todo, sent, strayed, repaired>>

\* The reads of a run, and the requests it derives from them.
Begin(w, kind, allowed, requests) ==
  /\ op[w] = "locked" /\ allowed
  /\ op' = [op EXCEPT ![w] = kind]
  /\ todo' = [todo EXCEPT ![w] = requests]
  /\ UNCHANGED <<bucket, history, lock, sent, runs>>

Push(w) ==
  \E n \in Name, c \in Commit : \E k \in 0..Len(History[c]) :
    Begin(w, "push", PushAllowed(n, c, k), PushSteps(n, c, k))

Prune(w) ==
  \E alone \in BOOLEAN, k \in 0..1 :
    Begin(w, "prune", PruneAllowed(alone, k), PruneSteps(alone, k))

Fsck(w) == Begin(w, "fsck", TRUE, FsckSteps)

Summary(w) ==
  \E signed \in BOOLEAN :
    Begin(w, "summary", SummaryAllowed(signed), SummarySteps(signed))

Runs(w) == op[w] \notin {"idle", "locked"}

\* The requests whose turn it is.
Ready(w) == {r \in todo[w] : \A q \in todo[w] : r.at <= q.at}

\* WriterLock::check, once each request before it ended: at its place in the
\* run, or before an item that does not fit.  A lost lock ends the run with
\* no release.
Check(w) ==
  /\ Runs(w)
  /\ \E r \in Ready(w) : r.do = "check" \/ (r.weight > 0 /\ ~Fits(sent[w], r.weight))
  /\ \A r \in Ready(w) : r.do = "check" \/ r.weight > 0
  /\ IF lock = w
     THEN /\ todo' = [todo EXCEPT ![w] = @ \ {r \in Ready(w) : r.do = "check"}]
          /\ UNCHANGED op
     ELSE /\ todo' = [todo EXCEPT ![w] = {}]
          /\ op' = [op EXCEPT ![w] = "idle"]
  /\ sent' = [sent EXCEPT ![w] = 0]
  /\ UNCHANGED <<bucket, history, lock, runs>>

\* The keys of one kind after the request r.
After(r, what, keys) ==
  IF r.what # what THEN keys
  ELSE IF r.do = "put" THEN keys \cup {r.key} ELSE keys \ {r.key}

\* The effect of one request on the bucket.
Effect(r) ==
  /\ objects' = After(r, "object", objects)
  /\ corrupt' = IF r.what = "object" THEN corrupt \ {r.key} ELSE corrupt
  /\ marker' = After(r, "marker", marker)
  /\ refs' = IF r.what = "ref" THEN [refs EXCEPT ![r.key] = r.value] ELSE refs
  /\ summary' = IF r.what = "summary" THEN r.value ELSE summary
  /\ sig' = IF r.what = "sig" THEN r.value ELSE sig

\* delete_in_order: the requests that follow r.
Followers(r) == DeleteObjects(r.at, r.then)

\* One request whose turn it is.
Send(w) ==
  /\ Runs(w)
  /\ \E r \in Ready(w) :
       /\ r.do # "check"
       /\ r.weight = 0 \/ Fits(sent[w], r.weight)
       /\ Effect(r)
       /\ todo' = [todo EXCEPT ![w] = (@ \ {r}) \cup Followers(r)]
       /\ sent' = [sent EXCEPT ![w] = @ + r.weight]
       /\ strayed' = (strayed \/ lock # w)
       /\ late' = IF r.do = "delete" /\ lock # w
                  THEN [late EXCEPT ![w] = @ + 1] ELSE late
       /\ repaired' =
            (repaired \cup (IF op[w] = "fsck" THEN Commit \cap objects ELSE {})) \ objects'
  /\ UNCHANGED <<lock, op, runs>>

\* A run ends: it releases the lock that it still holds.  With requests
\* left, the run failed, as release_on_error has it.
Release(w) ==
  /\ op[w] # "idle"
  /\ op' = [op EXCEPT ![w] = "idle"]
  /\ todo' = [todo EXCEPT ![w] = {}]
  /\ lock' = IF lock = w THEN None ELSE lock
  /\ sent' = [sent EXCEPT ![w] = 0]
  /\ UNCHANGED <<bucket, history, runs>>

\* The process of a writer stops, and leaves its lock.
Crash(w) ==
  /\ op[w] # "idle"
  /\ op' = [op EXCEPT ![w] = "idle"]
  /\ todo' = [todo EXCEPT ![w] = {}]
  /\ lock' = IF lock = w THEN "dead" ELSE lock
  /\ sent' = [sent EXCEPT ![w] = 0]
  /\ UNCHANGED <<bucket, history, runs>>

\* The bytes of an object go bad.
Rot ==
  /\ Cardinality(corrupt) < MaxRot
  /\ \E o \in objects \ (corrupt \cup Meta) : corrupt' = corrupt \cup {o}
  /\ UNCHANGED <<objects, marker, refs, summary, sig, history, lock, op, todo, sent,
                 runs>>

Next ==
  \/ \E w \in Writer :
       \/ \E break_lock \in BOOLEAN : Lock(w, break_lock)
       \/ Push(w) \/ Prune(w) \/ Fsck(w) \/ Summary(w)
       \/ Check(w) \/ Send(w) \/ Release(w) \/ Crash(w)
  \/ Rot

Spec == Init /\ [][Next]_vars

-----------------------------------------------------------------------------
(***************************************************************************)
(* "A commit object goes up only after each object of its tree, so a       *)
(* commit object in the bucket has its whole tree in the bucket at each    *)
(* point of a run, also of a run that failed, or a partial-commit marker   *)
(* that the fsck wrote" (push_repo/s3.rs), also beside a prune, a repair   *)
(* and a stop of any of them, until a writer changes the bucket after a    *)
(* break took its lock, which is the first window of the lock.             *)
(***************************************************************************)
CommitHasTree ==
  ~strayed => \A c \in Commit \cap objects : c \in marker \/ TreeOf(c) \subseteq objects

(***************************************************************************)
(* Each commit that a ref or the summary names is in the bucket, so a      *)
(* reader with an older summary finds what it names: a prune keeps what    *)
(* the summary names after a push has moved the ref.  Only a repair        *)
(* deletes a named commit, one of bad bytes.                               *)
(***************************************************************************)
NamedCommitHeld ==
  ~strayed => Named(refs) \cup Named(summary) \subseteq objects \cup repaired

(***************************************************************************)
(* A prune whose lock was broken sends at most CHECK_INTERVAL more         *)
(* deletes, or the deletes of one heavier item, before its next check      *)
(* stops it (bucket/prune.rs, groups).                                     *)
(***************************************************************************)
StaleDeletesBounded ==
  \A w \in Writer :
    op[w] = "prune" => late[w] <= (IF CheckInterval > 2 THEN CheckInterval ELSE 2)

-----------------------------------------------------------------------------
(***************************************************************************)
(* The inductive invariant: what the requests that the holder of the lock  *)
(* has left may do to the bucket, whatever of them it sends before it      *)
(* stops.                                                                  *)
(***************************************************************************)
Is(r, do, what) == r.do = do /\ r.what = what

\* T has such a request, or has one before r.
Has(T, do, what, key) == \E q \in T : Is(q, do, what) /\ q.key = key
Earlier(T, r, do, what, key) == \E q \in T : q.at < r.at /\ Is(q, do, what) /\ q.key = key

\* A request has the key and the value of its kind.  Only an item of a prune
\* counts, and only a commit has a follower.
Formed(T) ==
  \A r \in T :
    /\ r.do = "delete" => r.what \in {"object", "marker"}
    /\ r.what = "object" => r.key \in Object
    /\ r.what = "marker" => r.key \in Commit
    /\ r.what = "ref" => r.key \in Name /\ r.value \in Commit
    /\ r.what \in {"summary", "sig"} => r.value \in RefSet
    /\ r.weight > 0 => r.do = "delete"
    /\ \/ r.then = {} /\ r.weight <= 1
       \/ /\ Is(r, "delete", "object")
          /\ \E m \in Meta : r.then = {m} /\ r.weight = 2

\* A run that deletes objects puts nothing but markers.
OneSided(T) ==
  \A r, q \in T : Is(r, "delete", "object") /\ q.do = "put" => q.what = "marker"

\* A commit goes up after its tree.
PutsWhole(T) ==
  \A r \in T : Is(r, "put", "object") /\ r.key \in Commit =>
    \A o \in TreeOf(r.key) : o \in objects \/ Earlier(T, r, "put", "object", o)

\* An object of a tree goes after each commit of it, or after its marker.
DeletesLoose(T) ==
  \A r \in T : Is(r, "delete", "object") =>
    \A c \in Commit \cap objects : r.key \in TreeOf(c) =>
      \/ Earlier(T, r, "delete", "object", c)
      \/ /\ c \in marker \/ Earlier(T, r, "put", "marker", c)
         /\ ~Has(T, "delete", "marker", c)

\* A marker goes from a commit that is whole, or is no object at that point.
UnmarksWhole(T) ==
  \A r \in T : Is(r, "delete", "marker") =>
    \/ r.key \notin objects /\ ~Has(T, "put", "object", r.key)
    \/ Earlier(T, r, "delete", "object", r.key)
    \/ \A o \in TreeOf(r.key) :
         /\ o \in objects \/ Earlier(T, r, "put", "object", o)
         /\ ~Has(T, "delete", "object", o)

\* A name is given to a commit of the bucket, and a prune deletes none.
NamesHeld(T, kind) ==
  \A r \in T :
    /\ Is(r, "put", "ref") =>
         r.value \in objects \/ Earlier(T, r, "put", "object", r.value)
    /\ Is(r, "put", "summary") => Named(r.value) \subseteq objects
    /\ Is(r, "delete", "object") /\ kind # "fsck" =>
         r.key \notin Named(refs) \cup Named(summary)

Safe(T, kind) ==
  OneSided(T) /\ PutsWhole(T) /\ DeletesLoose(T) /\ UnmarksWhole(T) /\ NamesHeld(T, kind)

\* The deletes of items that have begun.
Begun(T) == {r \in T : r.do = "delete" /\ r.weight = 0}

\* What a prune may still delete before its next check is in its count.
Counts(w) ==
  op[w] = "prune" =>
    /\ Begun(todo[w]) \subseteq Ready(w)
    /\ IsFiniteSet(Begun(todo[w]))
    /\ late[w] + Cardinality(Begun(todo[w])) <= sent[w]
    /\ sent[w] <= (IF CheckInterval > 2 THEN CheckInterval ELSE 2)

WriterInv(w) ==
  /\ Formed(todo[w])
  /\ ~Runs(w) => todo[w] = {} /\ sent[w] = 0
  /\ lock = w \/ op[w] = "locked" => late[w] = 0
  /\ lock = w /\ ~strayed => Safe(todo[w], op[w])
  /\ Counts(w)

Inv ==
  /\ TypeOK
  /\ CommitHasTree
  /\ NamedCommitHeld
  /\ \A w \in Writer : WriterInv(w)
=============================================================================
