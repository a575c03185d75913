# A formal model of ostrya

TLA+ modules that model the parts of ostrya where several processes, tasks and
threads meet, or where a crash can come between two steps: the locks, the
staging directories, the object store under its writers and under power loss,
a bucket and its writer lock, the uploads of the fetcher, the receive sessions
of a server, the summary files, and the futures, jobs and wakers of one process.
TLC checks each module on small instances; TLAPS proves the main safety
properties for every value of the constants. Paths are relative to `src/`.

## 1. Inventory

Ostrya is a Rust implementation of the ostree repository. The library
(`crates/ostrya`) stores commits, trees and files as objects named by their
checksum, under refs. The other crates are its formats (`ostrya-core`,
`ostrya-gvariant`, `ostrya-sign`, `ostrya-composefs`), its I/O (`ostrya-fetch`,
`ostrya-remote`, `ostrya-rt`, `ostrya-sys`), and programs (`ostrya-cli`,
`ostrya-server`, `ostrya-mount`, `ostrya-mountd`, `ostrya-conformance`).

| Component | State | Operations | Hard behaviour | What makes it correct |
|---|---|---|---|---|
| Update lock, `lock/update.rs` | record lock on `.update.lock`; per process `held` and a queue of wakers | `acquire_update`, drop of the hold, drop of a place | cancellation and timeouts of the head, release in three steps, process ends | one holder; no lost wakeup; waiters go on |
| Repository lock, `lock.rs` | record lock on `.lock`; counts of shared and exclusive holds | `acquire`, `release` | one record lock for all holds of a process; retry loop | a readers-writer lock over all processes |
| Lock registry, `lock.rs` | map from inode to lock, parked descriptors | `get_or_register`, `unregister` | a close of any descriptor drops the record lock; dying entries; relinked files | a guard keeps its record lock; one lock per inode |
| Bucket writer lock, `bucket/lock.rs`, `ostrya-remote/src/s3/bucket.rs` | an object at the lock key | probe, take, check, break, release | lost answers, repeated and late requests, servers without conditions | a holder has its lock; the probe is right |
| Staging directories, `staging.rs` | `tmp/staging-*`, lock files, the table `active` | create, reap, drop | reapers of other processes and of the own one, crashes | a live transaction keeps its directory |
| Transactions, `transaction.rs`, `write.rs` | staged objects, `objects/`, refs | stage, commit, abort | deduplication against the store, renames in any order, crash | refs name complete commits |
| Pull, `pull.rs`, `pull/*` | `.commitpartial` markers | mark, fetch, commit, unmark, clean up | interruption at each step, two pulls of a commit | an incomplete commit is marked |
| Prune, `prune.rs`, `traverse.rs` | the doomed objects | lock, walk, sweep, marker pass | crash in the sweep, dropped future | removes nothing that a ref or an open transaction needs |
| Update guard, `update.rs` | both locks, writes in flight, directories to sync | `begin_update`, writes, `finish`, drop | jobs that outlive their futures | writes under both locks; syncs before release; no lost edit |
| Admission gate, `ostrya-fetch/src/gate.rs` | free permits, queue, grants | `acquire`, poll, drops | a granted waiter drops | no permit is lost; served in order |
| Uploads, `ostrya-fetch/src/lib.rs` | the slot of the body with its wakers; the rounds and hops of the request | write, flush and close of the body, polls of the connection, send, retry, follow, give up | three parties over one slot; frames that nobody takes; requests that come back unsent | the body arrives whole; a sent request is not sent again; each wait ends |
| Blocking jobs, `jobs.rs`; runtime, `ostrya-rt` | orphaned jobs | `track`, `settle` | jobs that outlive futures | cleanup after the last job; `settle` returns |
| Bucket operations, `bucket/*`, `push_repo/s3*.rs` | objects, refs and summary of a bucket | push, prune, fsck, summary | a lock broken in the middle, partial failure | a commit has its tree or a marker; no name of an absent commit; a broken run stops soon |
| Receive sessions, `receive/*`, `ostrya-server/src/session.rs`, `receive.rs` | the table of sessions; the state, steps and core of each | hello, have, objects, commit, abort, sweep | silent clients, a commit beside a request that ends | a commit has the core and is not ended; each session lets go |
| Finish of a session, `receive/finish.rs`, `receive/ancestry.rs` | the plan, the walks, the updates | plan, walk, lock, check, publish | refs, objects and signatures move after the plan | a ref moves along its history; refusals are right; one signature per key |
| Push sessions, `push_repo/*`, `ostrya-remote/src/session` | what was sent | negotiate, send, commit | cut connections | the receiver decides |
| Summary, `summary.rs`, `archive.rs` | `summary`, `summary.sig`, `.access` | regenerate, remove, serve | three files, readers without a lock, stops and power loss | no summary of another access digest is served |
| Server, `ostrya-server` | connections, shutdown signal, stall table | accept, serve, stop | a signal that races a poll | each connection ends |
| Formats, checkout, deltas, signatures, mounts, command line | bytes | encode, decode, print | sequential | functions of their input |

How they interact: a transaction takes the repository lock shared, reaps stale
staging directories and creates its own; it stages objects, publishes them by
rename, takes the update lock, writes refs and releases all. A pull is a
transaction between the write and the removal of its markers. A prune takes the
repository lock exclusive. An update guard holds the repository lock shared and
the update lock. Both locks come from the registry of the process. The bucket
operations take the writer lock of the bucket instead. A receive session is a
transaction of the server that several requests fill; its commit plans, takes
the update lock, checks and publishes. The fetcher admits the
requests of a pull through the gate, and its uploads carry the requests to a
bucket and to a server. Blocking work runs on the blocking pool,
where a job goes on when the future that awaits it is dropped.

`PROJECT.json` lists every component with what is and is not modelled, and the
hazards of the code at the line where each of them bites.

## 2. Modules

| Module | Models | Proofs |
|---|---|---|
| `LockCallers` | the processes and tasks that both locks of a repository serve (constants only) | |
| `UpdateLock` | the update lock over processes and tasks | `UpdateLockProofs` |
| `RWLock` | what a readers-writer lock promises (abstract) | |
| `RepoLock` | the repository lock; implements `RWLock` | `RepoLockProofs` |
| `LockRegistry` | the registry of locks of one process | `LockRegistryProofs` |
| `BucketLock` | the writer lock of a bucket and the conditional requests below it | `BucketProofs` |
| `Staging` | staging directories and their reapers | `CrashProofs` |
| `CommitStore` | pulls, transactions, refs and prune over one store, using the lock as `RWLock` describes it | `RepositoryProofs` |
| `Durability` | the same operations over a file system that loses what was not synced | `CrashProofs` |
| `GCWalk` | the walk of the collector over commits, against a reference definition | `GCWalkProofs` |
| `BucketRepo` | push, prune, fsck and summary of a bucket, over what `BucketLock` promises | `BucketProofs` |
| `ReceiveFinish` | the commit of receive sessions with ref updates | `RepositoryProofs` |
| `Sessions` | the table of the receive sessions of a server and the service of each | `TasksProofs` |
| `SummaryFiles` | the files of the summary of an auth item and their lock-free readers | `CrashProofs` |
| `UpdateGuard` | the update guard over both locks and the blocking pool | `TasksProofs` |
| `Gate` | the admission gate of the fetcher | |
| `Upload` | one upload of the fetcher: its body, its rounds and its redirects | `BucketProofs` |
| `Jobs` | the blocking jobs of a transaction and `settle` | `TasksProofs` |
| `Shutdown` | the signal that stops the connections of a server | |

`MC*` modules give each of them the constants of the TLC runs. Five of them
take several modules in one run: `MCWaits` (`UpdateLock`, `Upload`, `Gate`,
`Shutdown`), `MCTasks` (`RepoLock`, `UpdateGuard`, `Jobs`, `Sessions`),
`MCBucket` (`BucketLock`, `BucketRepo`, `Upload`), `MCCrash` (`Staging`,
`Durability`, `SummaryFiles`) and `MCRepository` (`CommitStore`, `GCWalk`,
`ReceiveFinish`). There a behaviour is a behaviour of one of the
modules, as the variable `side` says from the start; the others rest in an
initial state. The modules of such a run share no variable, so this loses no
behaviour of any of them; how they rely on each other is in the modules
themselves (`CommitStore` on `RWLock`, `BucketRepo` on what `BucketLock` shows).
A definition whose comment begins "A mutant of" is a plausible mistake in the definition
below it; no specification uses it, and the property it is listed with in
`PROJECT.json` fails under it.

### UpdateLock
A task is a call of `acquire_update` and the hold that it returns. `record` is
the kernel's record lock, `held` and `queue` the `UpdateState` of each process,
`waker` the waker in a queue entry. A poll is one action per outcome (granted,
contended, pending, error). The drop of a hold is the three steps of the code:
`Unlock` (the record), `ReleaseHold` (under the mutex), `Wake` (after it), and
so is the drop of a place (`Leave`, then `Wake`). `ProcessEnds` frees what the
process had.

### RepoLock and RWLock
`shared`, `exclusive` and `os` are the counts and the `OsLock` of each process;
the kernel's view is a record lock per process. `TryAcquired` and
`TryWouldBlock` are `try_acquire` with the retry loop around it. The refinement
maps the holds of all tasks to the readers and writers of `RWLock`.

### LockRegistry
The program counter of a caller follows `get_or_register`: mutex, `statat`
probe, open, second lookup. `open` counts the descriptors of the process to
each inode, `record` says whether the process has its record lock, and each
close releases it, as `fcntl` does. `Relink` is another program that moves lock
files, at most `MaxRelinks` times.

### BucketLock
A run walks through probe, break, take, check and release. A request with an unknown
outcome goes into `late` and may reach the server at any later step, or never;
the client reads the key or repeats the request as `put_if_absent` and
`delete_if_match` do, up to `MaxRetries` times. `server` is one of the eight
kinds of servers by what they honor.

### Staging
A transaction is the name of its staging directory. Its begin runs the reaper
(list, check of `active`, open, lock, remove, unlink, close, one step each) and
then creates its own directory (claim, mkdir, lock file, lock). Record locks
belong to processes. `Crash` ends a process anywhere, `ReapOwned` is the
cleanup at exit. `Age` makes a directory old enough to reap; a creation that
takes longer than `tmp-expiry-secs` is left out. The reap of other entries of
`tmp/` is not modelled.

### CommitStore
A fetcher is a pull or a transaction that writes a commit. Objects are commits
and content; a commit has a root dirtree with objects below it. `Stage` skips
what the store has. `Publish` renames one object, in any order. `WriteTail` writes
the ref and ends the transaction. A pull marks before it stages and unmarks
after its end; the cleanup of a failed pull is `Probe` and `Unmark`, two trips
to the pool. A prune is `Lock`, `Walk`, `Sweep` per object, `SweepMarkers`.
`Stop` and `StopPrune` end an actor at any step. `Drop` is the drop of the
future of a prune and is part of `DropSpec` only. Left out: parent and
dependency edges, detached metadata, tombstones, images and deltas. What a
power loss leaves is the subject of `Durability`.

### Durability
`vis` holds the directory entries that a lookup finds, `sure` those that
survive a power loss, `may` those that can exist after one; an unsynced create
or unlink leaves an entry between `sure` and `may`, and a sync of the directory
or a `syncfs` closes the gap. `raw` is the files whose data is not on the disk.
A pull or a receive session stages (each staging call is a job with its own
record), may call `sync_staged` (count, `syncfs`, store, with staging calls in
between), publishes (`syncfs` unless the count covers what is staged, renames
in any order, fan-out syncs), installs the detached metadata, writes and syncs
the ref, unmarks. A prune removes refs, commits, content and markers in phases
with a barrier between. `Stop` and `StopPrune` end an actor anywhere;
`PowerLoss` keeps `sure` and any part of `may`, and ends all. `borrowed` is the
objects a transaction found in the store before their names were durable, and
`revived` the entries a loss brings back after a stopped sweep: the histories
that the properties except, because of finding 4 and an observation below. Left
out: images, `per-object-fsync`, `fsync` off, ref removal by transactions,
subpath pulls, and the creation of fan-out directories.

### GCWalk
The state is the stack, the record of each seen commit (`depth`, `since`,
`rejected`) and the weak seeds of `collect_reachable`. `Arrivals` is the
reference: the arrivals that follow from the roots with no memory of earlier
ones. `WalkIsComplete` says that the walk, which skips covered arrivals, ends
with the commits of the reference. The reference follows a number of edges that
grows with the commits; were it too small for an input (`Settled` fails), the run
would see the walk keep more than the reference.
`WalkIsLeast` says the same without that number: the walk keeps the least that a
closed set of arrivals keeps. The tree of a commit is one element.

### BucketRepo
A writer takes the lock, reads the bucket and derives its requests: a set, each
request with its place (`at`) in the order of the run. Requests of one place run
side by side (`each_slot`), so a `Send` takes any request of the least place that
is left; a check of the lock has a place of its own. `PushSteps`, `PruneSteps`,
`FsckSteps` and `SummarySteps` give the sets. An item of a prune is a delete with
a weight, and `then` holds the detached metadata that goes after it; `sent` is
the weight since the last check, and an item that no longer fits under
`CHECK_INTERVAL` (`Fits`) waits for a `Check`. The lists of a prune come from maps
with no order that matters, so the model has the groups of every order. A `Lock`
with `break_lock` takes the lock from a holder that runs on; its next check
stops that holder, and a change it makes before counts as `strayed`. No run
begins after that, as a bound. `Crash` ends a writer; `Rot` damages an object. Left out:
dependencies, static deltas, multipart uploads, `keep_younger_than`, trees of
more than one level, late requests of a dropped client, the refusal of a push
that is no fast-forward, and the push of a tree.

### ReceiveFinish
`Plan` reads the stored signatures and signs; `ReadTips` and `Walk` take the
tips and walk the parent chains without the lock; after `Lock`, a `CheckRef` is
the `check_ref` of one update, `checked` counts them, and `Refuse` ends the
session at the first that fails. A chain is the commits that its walk passed
(`seen`) and the commit from which it can go on (`end`: the target or an absent
commit; empty at a root), and `Reached` goes on with a walk whose tip moved or
whose absent commit was published; `Passed` states the loop of a walk as the
least set that is closed under the parents it reads. `Kept` drops the signatures
that others made meanwhile; then detached metadata, refs and release, one write
a step. `Fail` ends a session at any step, with
what it has written so far. `LocalWrite`, `LocalPublish`, `SignCommit` and
`DeleteSignatures` are other programs. Left out: the checks of objects,
bindings and client signatures, hooks, limits of size, and a commit that the
server makes. The host runs a commit to its end (`receive/service.rs:408`), so
the future of the writes is not dropped.

### Sessions
An action is one hold of the mutex of the table or of the mutex of a service.
A request looks up its session, counts as a step in flight, clones the core,
reads its body (which may wait for the client once), and in two holds drops the
clone and its count. A commit takes the state when no step is in flight, runs
as a task, and takes the core with `try_unwrap`. `Disconnect`, `Delete`,
`Sweep` and `CloseAll` end sessions; the abort signal reaches the bodies. Time
is a choice of the sweep. Left out: the owner of a session, the wording of
causes. Larger instances than the one of the run were checked too: two sessions
with two requests each, and one session with three.

### SummaryFiles
`vis` and `may` are what the three names hold and what a loss can leave of
each. A run writes as `put_item_summary_blocking` does: removal of an `.access`
of another digest with its sync, removal of the signature, summary, signature,
sync, `.access`, sync; or it removes the files. A reader opens the file, reads
`.access` and checks the name again, up to `SUMMARY_TRIES` times. The bytes of
a file are synced before its rename. The root summary, which has no `.access`,
is not modelled.

### UpdateGuard
A guard is a call of `begin_update`, a write a call of one of its methods.
Writes run as jobs with a count in flight and a reference to the state of the
guard. `Finish` and `DropGuard` may come while jobs run; `FinishUnrun` is a
finish whose job the pool drops. Both ends sync the recorded directories and
release the update lock, then the repository lock. `edits` is a history of the
edits that were written.

### Gate
The queue is the sequence of waiters by arrival, and `First` picks by rank. A
release grants under the mutex and wakes outside of it.

### Upload
The writer, the connection of hyper and the upload share the slot of an
`Exchange`; a step is one hold of its mutex. `wakers` is the parties whose waker
is in the slot: a hold that takes a waker lets that party poll again.
`PollWrite`, `PollHandOver`, `PollTaken` and `PollClose` are the calls of
`UploadWriter`, and `DropWriter` its drop. hyper is external: it takes the
request or gives it back, polls the body or not, asks `is_end_stream`, answers
or fails. The upload connects, hands over (`handed`), waits for the head, and on
a failure before the hand-over tries the next destination or the next round;
a body given whole follows redirects. `Tick` lets a frame in the slot get as
old as the stall window; `Expire` is the deadline of `fetch_timeout`. A frame is
a unit. Left out: the limits on the size of a body and of a response, the
signer, the pool of connections beyond the kind of the one that is used
(`conn`), TLS and framing, and downloads.

### Jobs
`job` is the pool's view, `future` the tracked future, `waker` the waker of the
last poll of a handle. A dropped future polls its handle with no waker and
adds a job that runs to `orphans`. `settle` takes the list, polls each, and
takes the list again until it is empty. The list is a set: a job is in it once,
and `settle` may poll the jobs that it took in any order.

### Shutdown
A `Wait` reads the flag with no lock, then stores its waker under the mutex and
looks again. `Fire` sets the flag, takes the wakers under the mutex and wakes
them one by one. A poll may bring another waker than the last one.

## 3. Runs

| Run | Instance | Shows |
|---|---|---|
| `waits` | update lock: 2 processes, 3 + 2 tasks, 2 with a deadline; upload: 2 frames, 1 URL, no retry, no redirect; gate: 4 requests of 2 priorities, 2 permits; stop: 2 connections with 2 wakers each | one holder, no lost wakeup; a waiter leaves the queue once other processes leave the lock alone; no call of a writer and no upload whose body is over waits for ever; the first of the queue is served; the signal reaches each connection |
| `lock_registry` | 2 callers, 2 lock files, 3 inodes, 2 relinks | no guard loses its record lock, one lock per inode; a call that waits for a dying lock goes on |
| `bucket` | the lock: a run and one that may break it, 1 retry, 3 requests late at a time; the repository: 2 writers, 2 commits in a chain with a shared file, 4 runs, 1 damaged object, `CHECK_INTERVAL` 2; upload: 2 frames, 2 mirrors, 1 retry, 1 redirect | a holder has its lock, the probe is right, a release removes the lock; a commit has its tree or a marker, named commits are held, a broken prune deletes one group at most; a completed request carries the whole body, and no hop sends it twice |
| `crash` | staging: 2 + 1 transactions in 2 processes; objects: a pull, a receiver and a prune, 1 stop, 1 loss; summary: 2 digests, 3 writes, a reader with 2 tries, 1 stop, 1 loss | no live directory is reaped; no torn file, durable refs name durable commits, unmarked commits are whole; no summary of another digest is served |
| `staging_race` | the staging part of `crash` | finding 1 |
| `repository` | store: a pull, a writer and a prune of two commits with a shared tree; walk: each input of `MCInput` over a chain of 3 commits; receive: 2 sessions, 4 kinds of requests, 4 commits with a fork, 2 refs, 1 key, 2 local steps | markers, tips, exclusion of prune; the walk is complete; refs move forward, refusals are right, one signature per key |
| `marker_race` | two pulls of one commit | finding 2 |
| `prune_drop` | the store with dropped futures | finding 3 |
| `tasks` | repository lock: 2 processes, 3 + 2 tasks; 2 update guards with 3 + 1 writes; 3 jobs; a session with 2 requests | the refinement of `RWLock`, a free lock is taken; writes and syncs under both locks, no lost edit, guards release; `settle` sees each job and returns; a commit has the core and is kept, a session lets go |
| `durability_gap` | the objects part of `crash` | finding 4 |
| `summary_gap` | the summary part of `crash` | finding 5 |
| `upload_unsent` | a body of 1 frame, 1 redirect | finding 6 |

Why the bounds are enough to see the interesting cases: three tasks in a
process give a holder, a head and a waiter behind it; a second process adds the
contention that only the kernel sees. Three inodes for two names let each name
move to an inode that has an entry and to one that has none. One retry already
gives a request that races its own repetition; three late requests give a late
put, its repetition and a late delete together. Two transactions in one process
and one in another give a reaper of the own process and of another one at the
same time. One stop and one loss give a retry
over what a stopped run left and a loss after it, the shortest way to both gaps.
Three writes of two digests give a reader a file, its replacement and the
return of the first digest. Four runs of a bucket give a push, a summary, a
push that moves the ref, and a prune or a repair after them. Two frames of a
body give one that the connection took and one in the slot. A retry and two
mirrors give a destination that settled and one that is tried again. The waits
of an upload are checked for one URL and with no redirect, where a connection of the pool that
gives the request back already makes a second hand-over. What two callers of the registry and two runs of a bucket leave
open is closed by the proofs, which hold for every number of them. The trees of the store share their dirtree and file, so each
actor deduplicates against the objects of the others. `CHECK_DEADLOCK FALSE` is
set where actors come to an end: runs, transactions, guards and sessions have
one life, and a walk ends. In `CommitStore` each actor can begin again from
idle, except when nothing is left to take.

Fairness. `UpdateLock` and `Gate`: the executor polls a woken future, a timer
fires, and a drop runs to its end; holders release, because a hold lives in a
job of the pool or in a call that returns. `RepoLock`: a retry that stays
possible is made, and guards drop. There is no fairness between tasks, because
the retry loop has none. `LockRegistry`: threads run, and a mutex that is free
again and again is taken in the end. `UpdateGuard`: the pool runs its jobs.
`Jobs`: the pool runs its jobs, and the task of `settle` is polled once it is
woken. `Shutdown`: a woken future is polled, and `fire` runs to its end.
`Sessions`: requests and session tasks that can step do, and the sweep runs;
clients may stay silent for ever. `Upload`: time passes, the writer and the
upload are polled once they are woken, and a connection takes the request that
it is given; nothing makes a server answer or a connection go on with a body. In a run of several modules the fairness of a
module at rest asks for nothing, since none of those steps is enabled there.
No specification assumes that a caller starts, cancels, finishes or times out.

## 4. Proofs

Each proof module shows that an invariant `Inv` is inductive (`Init => Inv`,
then one lemma or step per action) and derives the properties from it. `Inv`
was checked by TLC on the instances of section 3 before its proof; the runs
keep the properties alone.

- `UpdateLockProofs`: exclusion needs that `held` covers the step between the
  unlock and the clear; the absence of lost wakeups needs that the queue is
  exactly the waiting tasks and that a parked waiter has its waker in the queue
  or in the hands of a task that is about to wake it.
- `RepoLockProofs`: the counts are the numbers of holders, `os` follows the
  counts, and the kernel's locks exclude each other across processes. The
  refinement of `RWLock` follows step by step. Exclusion over all processes and
  the record under each hold (`Exclusion`, `Recorded`) are proved and are in no
  run: the refinement, which the run checks, has no reader beside a writer.
- `LockRegistryProofs`: the entry of an inode has a lock with a reference or
  with exactly one drop under way, and only the caller with the mutex is
  between its lookup and its insert.
- `BucketProofs`, the lock: every late request is a request that its run made, of a
  step that the run has begun; so a late put of a run that holds the lock is
  its own, and a late delete needs a target that a breaker read. Assumes that
  the server honors `If-Match` and gives ETags for `HoldsItsLock`.
  The upload (`Up!Inv`): each frame that was written is in the buffer, in the slot
  or with hyper; a body that is closed has an empty buffer, and one that ended is
  closed, empty and not failed, since each failure comes before the end. A request
  that hyper has not begun to write is as it was made, so a second attempt of a
  hop starts with nothing sent. The destinations need an argument too: one that
  failed for now stays open, so the next round has a destination to ask.
  The writers (`Repo!Inv`): a run can stop after any of its requests, so the
  invariant says what the requests that the holder has left may do from here. A
  commit goes up after each object of its tree (`PutsWhole`), an object of a tree
  goes after each commit of it or after a marker that stays (`DeletesLoose`), a
  marker goes from a whole commit only (`UnmarksWhole`), a name is given to a commit
  that is in place by then and a prune deletes no named commit (`NamesHeld`), and
  no run both deletes objects and puts some (`OneSided`). These hold for the plan
  of each kind of run, and sending any request whose turn it is keeps them. They
  are stated of the holder alone, which has the bucket for itself until a writer
  strays. The bound on stale deletes needs no such thing: what a prune has sent
  since its lock was broken, and the metadata of items that have begun, is in its
  count (`Counts`). Assumes `RepoAssumption`: sets of names that do not overlap,
  and finite objects.
- `RepositoryProofs`, the store: what a pull has staged and what the store has add
  up to the whole tree; the doomed objects of a prune are below no kept commit. It
  assumes `OwnCommits`, that no two fetchers want one commit: finding 2 shows
  what happens without it. That the store uses its lock as `RWLock` allows is
  proved here (`LockRefinement`) and in no run.
  The receive sessions (`R!Inv`): a chain has ancestors of the new commit only, and
  of each commit in it but its end also the parent (`ChainOK`). The first half makes
  an update that passes a fast-forward; the second makes a set that is closed under
  parents once the end is gone on from, so a walk that began before a ref moved or a
  parent was published misses no ancestor, and a refusal is right. Both survive
  the steps of others, since a session only learns of more commits. What a session
  checked under the lock stays so until it writes (`CheckInv`): the lock has one
  holder, no other writer of refs or signatures gets in, and the updates of a message
  name different refs, so that no write of the session undoes the check of another
  update. For the signatures, the plan is one of a dict that the repository has
  grown from (`PlanInv`), and from the queue on what is to be written is none that
  is there (`SignInv`). Assumes `ReceiveAssumption`: parents are commits, and no two
  updates of a message name one ref, which `check_names` refuses
  (`crates/ostrya/src/receive/finish.rs:610`). The sessions, commits, refs, keys,
  histories and messages are any; only the forms of a rule and of an expected state
  are fixed.
- `TasksProofs`, three components of `MCTasks`. The update guard (`Update!Inv`):
  the locks are held while a guard, a job or a close has a reference to its state,
  a directory that was changed is recorded or the job that changed it still runs,
  and the job in the mutex of the edits has read what is on the disk. The jobs
  (`Jobs!Inv`): a job whose future was dropped is finished, in the list, or in the
  hands of `settle`. The sessions (`Receive!Inv`): the steps in flight are the
  requests that count as one, the clones of the core are those of their holders,
  and a session in commit has its place in the table.
- `GCWalkProofs`: an arrival is done when the walk would skip it, and pending when
  an arrival on the stack goes at least as far. What follows from an arrival that
  is done, is done or pending (`SeedInv`, `ParentInv`): a record covers a bound
  only when the parent was reached as far as that bound says, and a rejection
  stands only for arrivals that the timestamp rejects too (`SeenInv`). With an
  empty stack, the arrivals that are done are closed, so they hold the reference;
  the other way, every closed set holds the stack (`SoundInv`). The step from the
  closed sets to the recursive reference is an induction that is written out here
  (`UpTo`, `CloseExists`). It assumes `WalkAssumption`: a finite set of commits and
  inputs of the right types; the theorem about `WalkIsComplete` takes `Settled` as
  its hypothesis, the one about `WalkIsLeast` needs none.
- `CrashProofs`, the three components of `MCCrash`. The staging directories: a claim
  in `active` covers the life of the lock file, and a reaper that handles a name
  holds its record lock from the try on. The store (`D!Inv`), per
  transaction: what is staged and not synced is in `soft`, a `sync_staged` counts
  no more than what it covers, and a publication that renames has nothing soft
  left, so that no published name has raw data (`NoTornFile`). Over all: a ref that
  can survive names a commit of which each object is sure, borrowed or revived
  (`RefInv`); a marker that can be gone after a loss leaves a whole commit
  (`PullInv`); the barriers of a sweep order what it removes (`SweepInv`). The
  exceptions are the histories of finding 4 and of the observation on `revived`.
  The summary (`S!Inv`): each write has its own number, so a reader that sees one
  `.access` twice saw no other between; with stops alone, or with losses alone,
  an `.access` that can be read next to a file was written with that file.

The assumptions on constants are the named `ASSUME`s of the modules; TLC
evaluates them in the runs. They say that bounds are numbers, that sets of names
do not overlap (`DurabilityAssumption`: an object is no ref and no marker) and
that `None` is no name.

Only model-checked: the liveness properties, which need fairness and `ENABLED`;
these are `WaiterProceeds`, `WriterGoesOn`, `UploadAnswers`, `FirstRankIsServed`,
`SignalReachesAll`, `WaiterIsWoken`, `FreeLockIsTaken`, `GuardReleases`,
`SettleReturns` and `SessionIsReleased`. `Gate` and `Shutdown` have no proof
module, since what they promise is liveness. Each other property of a passing run
is stated by a theorem. Only
proved, in no run: that a live transaction holds its record (`OwnersKeepRecord`),
that a sweep holds its lock in `Spec` (`SweepHoldsLock`), and `WalkIsLeast`, which
ranges over all sets of arrivals.

## 5. Findings

1. `staging_race`: the lock file of a new staging directory is created and then
   locked (`crates/ostrya/src/staging.rs:319`, `:343`). A reaper of another
   process that comes between removes the directory, and the transaction begins
   without it. `LiveDirKept` shows that a directory that is in place when the
   lock is taken stays.
2. `marker_race`: two pulls of one commit share its marker. The cleanup of a
   failing pull (`crates/ostrya/src/pull.rs:2654`) removes the marker under
   which the other one publishes; a crash then leaves an incomplete commit
   that later pulls take as complete.
3. `prune_drop`: the guard of a prune lives in its future
   (`crates/ostrya/src/prune.rs:903`), the sweep on the blocking pool. A
   dropped future releases the lock while objects are still removed.
4. `durability_gap`: a publication that stops after its renames and before the
   syncs of the fan-out directories leaves objects whose names are not durable.
   The retry finds them in the store, stages nothing and syncs nothing
   (`crates/ostrya/src/transaction.rs:1787`), and then makes the ref durable.
   `RefNamesDurable` and `UnmarkedIsWhole` hold for all other objects.
5. `summary_gap`: a run that stops between the unlink of an `.access` file and
   the sync of its directory leaves the next run nothing to see, so that it
   skips the sync (`crates/ostrya/src/summary.rs:2960`); a power loss can then
   bring the old `.access` back beside the new summary. `ServedMatches` holds
   with stops alone and with losses alone.
6. `upload_unsent`: `handed` is one flag for all hops of an upload. A second hop
   whose pooled connection gives the request back clears it
   (`crates/ostrya-fetch/src/lib.rs:4790`), the deadline of the hand-over is
   armed again and can expire, and the upload fails with an error for which
   `is_unsent` is true, after its first hop sent the request. `SentAsSaid` holds:
   without a redirect an unsent upload sent nothing, and no hop sends twice.

Observations with no run: a power loss after a stopped sweep can bring a removed
commit back without its tree (`revived`). After a loss an old `summary.sig` can
stand beside a new summary, where a verification then fails. A push to a bucket
checks its lock before the uploads and not before the write of the refs. The
marker of a commit that a repair deleted stays when the commit is uploaded
again. A `delete_signatures` between the plan and the lock of a session leaves a
ref on a commit without the signature of the server (`SignedOnce` excepts it).
A late put can leave a lock object in the bucket that
no run owns, until a run breaks it. A process that ends in the publication of a
commit of its own (not a pull) leaves an incomplete commit with no marker and
no ref; `UnmarkedIsComplete` therefore speaks of the commits that pulls want.
Two waits of an upload have no bound, and the liveness properties except them: a
writer that is dropped in a close with its last frame in the slot leaves the
stall window to no one, and a body that is closed after hyper took its last
frame ends only when hyper polls or asks again. The drop of a publication is safe: the staging directory goes before the lock,
and the renames that come later fail.

## 6. Plan

Modelled: the locks, staging, the store with pulls and prune, its durability,
the walk of the collector, a bucket with its lock and its writers, the update
guard, the gate, the uploads, the jobs, the shutdown signal, the sessions of a
server, the finish of a session, the summary files. Next, in this order:

1. `BucketRepo`: dependencies and `keep_younger_than`.
2. `ReceiveFinish`: the commit that a server makes (`server_commit`).
3. Wider `CommitStore`: parent edges, detached metadata, tombstones.
4. The stall deadline of a connection (`ostrya-server/src/stall.rs`), and the
   retry loop of a download (`ostrya-fetch`).

Not modelled, and not planned: byte formats, static deltas, the verification of
signatures, checkout and composefs, mounts, the command line, the conformance
suite, the framing of HTTP and of the session protocol. They make most of the
lines of the repository. They are sequential functions of their input, or plain
I/O: they keep no state between calls that two actors could see in two orders,
and what they compute is settled by their tests on real bytes.
