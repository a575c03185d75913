------------------------------ MODULE MCBucket ------------------------------
(***************************************************************************)
(* A bucket repository: the upload that carries each of its requests, the  *)
(* protocol of its writer lock, and the writers that rely on what the lock *)
(* promises.  A behaviour is one of the three, as side says; the others    *)
(* rest in an initial state.                                               *)
(*                                                                         *)
(* The lock: two runs, one of which breaks the lock; MaxLate bounds the    *)
(* requests that are late at the same time.  The repository: two writers;  *)
(* a commit and its child with a file in common; the first commit has      *)
(* detached metadata.  The upload: a streamed body to a URL, or a body     *)
(* given whole to a URL or to two mirrors, with one retry and one          *)
(* redirect.                                                               *)
(***************************************************************************)
EXTENDS BucketLock, Sequences, TLC

CONSTANTS
  r1, b1, MaxLate,
  Writer, Commit, Tree, Name, RootOf, FilesOf, History, MetaOf, CheckInterval,
  MaxRuns, MaxRot, None, w1, w2, c1, c2, d1, d2, f1, m1, n1,
  Frames, Mirrors, MaxRedirects

VARIABLES
  side, objects, corrupt, marker, refs, summary, sig, holder, op, todo,
  counted, runs, strayed, lateDeletes, repaired

repoVars == <<objects, corrupt, marker, refs, summary, sig, holder, op, todo,
              counted, runs, strayed, lateDeletes, repaired>>

Repo == INSTANCE BucketRepo WITH lock <- holder, sent <- counted, late <- lateDeletes

VARIABLES whole, slot, wakers, writer, hyper, head, rounds, upload, sent

uploadVars == <<whole, slot, wakers, writer, hyper, head, rounds, upload, sent>>

Up == INSTANCE Upload

ASSUME UploadAssumption ==
  Frames \in Nat \ {0} /\ Mirrors \in Nat \ {0} /\ MaxRedirects \in Nat

ASSUME RepoAssumption ==
  /\ RootOf \in [Commit -> Tree]
  /\ FilesOf \in [Tree -> SUBSET Tree]
  /\ History \in [Commit -> Seq(Commit)]
  /\ Commit \cap Tree = {} /\ (Commit \cup Tree) \cap Repo!Meta = {}
  /\ None \notin Commit \cup Writer \cup Repo!RefSet
  /\ "dead" \notin Writer
  /\ CheckInterval \in Nat

MCRootOf == (c1 :> d1) @@ (c2 :> d2)
MCFilesOf == (d1 :> {f1}) @@ (d2 :> {f1}) @@ (f1 :> {})
MCHistory == (c1 :> <<>>) @@ (c2 :> <<c1>>)
MCMetaOf == (c1 :> m1)
MCWriters == Permutations(Writer)

MCFewLate == Cardinality(late) <= MaxLate

MCInit ==
  /\ side \in {"lock", "repo", "upload"}
  /\ Init /\ Repo!Init /\ Up!Init
  /\ side # "lock" =>
       ~probe /\ server = [none |-> TRUE, match |-> TRUE, etag |-> TRUE]
  /\ side # "upload" => whole /\ writer.written = 0
  /\ side # "upload" \/ ~whole => rounds.count = 1

MCNext ==
  \/ side = "lock" /\ Next /\ UNCHANGED <<side, repoVars, uploadVars>>
  \/ side = "repo" /\ Repo!Next /\ UNCHANGED <<side, vars, uploadVars>>
  \/ side = "upload" /\ Up!Next /\ UNCHANGED <<side, vars, repoVars>>

MCSpec == MCInit /\ [][MCNext]_<<side, vars, repoVars, uploadVars>>

\* push_repo/s3.rs: a commit in the bucket has its whole tree, or a marker.
CommitHasTree == Repo!CommitHasTree

\* bucket/prune.rs: a commit that a ref or the summary names is held.
NamedCommitHeld == Repo!NamedCommitHeld

\* bucket/prune.rs: the deletes of a prune that lost its lock are bounded.
StaleDeletesBounded == Repo!StaleDeletesBounded

\* ostrya-fetch/src/lib.rs: a request that hyper completes carries the whole body.
BodyIsWhole == Up!BodyIsWhole

\* ostrya-fetch/src/lib.rs: an upload that fails as unsent on its first hop sent
\* nothing, and no hop sends the request twice.
SentAsSaid == Up!SentAsSaid
=============================================================================
