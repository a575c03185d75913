------------------------------ MODULE Staging -------------------------------
(***************************************************************************)
(* The staging directories under tmp/ of a repository                      *)
(* (crates/ostrya/src/staging.rs): their creation, their removal, and the  *)
(* reaper that each transaction runs when it begins.                       *)
(*                                                                         *)
(* A transaction is one StagingDir, in a process.  random_suffix gives it  *)
(* a name of its own, so the transaction stands for the name of its        *)
(* directory and of the sibling lock file; two directories never have the  *)
(* same name.  A record lock belongs to a process: a lock through a second *)
(* descriptor of the process that has it succeeds, and the close of any    *)
(* descriptor of the process to the file drops it.                         *)
(***************************************************************************)
EXTENDS FiniteSets

CONSTANTS
  Process,
  Txn,      \* the transactions: the names of the staging directories
  ProcOf,   \* the process of each transaction
  NoProc, NoTxn

ASSUME ProcOfAssumption == ProcOf \in [Txn -> Process]
ASSUME NoneAssumption == NoProc \notin Process /\ NoTxn \notin Txn

VARIABLES
  dir,      \* TRUE while the staging directory is in tmp/
  linked,   \* TRUE while the sibling lock file is in tmp/
  record,   \* the process with the record lock on the lock file
  aged,     \* TRUE once the directory is older than tmp-expiry-secs
  active,   \* the names in the maps active of the processes
  exiting,  \* the processes that called reap_owned
  pc,       \* where each transaction is
  todo,     \* the names that its reaper listed and has not handled
  cur       \* the name that its reaper handles

vars == <<dir, linked, record, aged, active, exiting, pc, todo, cur>>

\* The reaper of a begin: list, and for each name the check of active, the
\* open of the lock file, the lock, the removals and the close.
Reaping == {"next", "open", "try", "rmtree", "unlink", "close"}
\* The creation, and the way back from a failed creation.
Creating == {"claim", "mkdir", "openLock", "lock"}
Undoing == {"undoUnlink", "undoClaim", "undoRmtree"}
Dropping == {"dropUnlink", "dropClaim", "dropClose"}
PC == {"idle", "live", "done", "failed", "dead"} \cup Reaping \cup Creating \cup Undoing \cup Dropping

TypeOK ==
  /\ dir \in [Txn -> BOOLEAN]
  /\ linked \in [Txn -> BOOLEAN]
  /\ record \in [Txn -> Process \cup {NoProc}]
  /\ aged \in [Txn -> BOOLEAN]
  /\ active \subseteq Txn
  /\ exiting \subseteq Process
  /\ pc \in [Txn -> PC]
  /\ todo \in [Txn -> SUBSET Txn]
  /\ cur \in [Txn -> Txn \cup {NoTxn}]

Init ==
  /\ dir = [n \in Txn |-> FALSE]
  /\ linked = [n \in Txn |-> FALSE]
  /\ record = [n \in Txn |-> NoProc]
  /\ aged = [n \in Txn |-> FALSE]
  /\ active = {}
  /\ exiting = {}
  /\ pc = [t \in Txn |-> "idle"]
  /\ todo = [t \in Txn |-> {}]
  /\ cur = [t \in Txn |-> NoTxn]

Goes(t, to) == pc' = [pc EXCEPT ![t] = to]

\* The reaper of t is done with its name.
Handled(t) == Goes(t, "next") /\ cur' = [cur EXCEPT ![t] = NoTxn]

\* The effects on tmp/ and on the record locks.
RemoveTree(n) == dir' = [dir EXCEPT ![n] = FALSE]
Unlink(n) == linked' = [linked EXCEPT ![n] = FALSE]
Close(t, n) == record' = [record EXCEPT ![n] = IF @ = ProcOf[t] THEN NoProc ELSE @]

\* fcntl_lock succeeds: no other process has the record lock.
LockFree(t, n) == record[n] \in {NoProc, ProcOf[t]}

-----------------------------------------------------------------------------
(* The reaper: reap_stale and reap_one.                                    *)

\* StagingDir::create begins; reap_stale collects the names first.
List(t) ==
  /\ pc[t] = "idle"
  /\ todo' = [todo EXCEPT ![t] = {n \in Txn : dir[n]}]
  /\ Goes(t, "next")
  /\ UNCHANGED <<dir, linked, record, aged, active, exiting, cur>>

\* A mutant of Owned: the reaper does not look at the map.
OwnedNever(t, n) == FALSE

\* The map active of the process of t holds n.
Owned(t, n) == n \in active /\ ProcOf[n] = ProcOf[t]

\* reap_one looks for its name in the map active of the process.
Pick(t, n) ==
  /\ pc[t] = "next" /\ n \in todo[t]
  /\ todo' = [todo EXCEPT ![t] = @ \ {n}]
  /\ IF Owned(t, n)
       THEN UNCHANGED <<pc, cur>>
       ELSE Goes(t, "open") /\ cur' = [cur EXCEPT ![t] = n]
  /\ UNCHANGED <<dir, linked, record, aged, active, exiting>>

\* The open of the lock file; with no lock file the age decides.
Open(t) ==
  /\ pc[t] = "open"
  /\ \/ linked[cur[t]] /\ Goes(t, "try") /\ UNCHANGED <<dir, cur>>
     \/ /\ ~linked[cur[t]] /\ Handled(t)
        /\ IF aged[cur[t]] THEN RemoveTree(cur[t]) ELSE UNCHANGED dir
  /\ UNCHANGED <<linked, record, aged, active, exiting, todo>>

\* fcntl_lock; a reaper that does not get the lock closes the file.
Try(t) ==
  /\ pc[t] = "try"
  /\ \/ /\ LockFree(t, cur[t]) /\ Goes(t, "rmtree") /\ UNCHANGED cur
        /\ record' = [record EXCEPT ![cur[t]] = ProcOf[t]]
     \/ ~LockFree(t, cur[t]) /\ Handled(t) /\ Close(t, cur[t])
  /\ UNCHANGED <<dir, linked, aged, active, exiting, todo>>

ReapTree(t) ==
  /\ pc[t] = "rmtree" /\ Goes(t, "unlink") /\ RemoveTree(cur[t])
  /\ UNCHANGED <<linked, record, aged, active, exiting, todo, cur>>

ReapUnlink(t) ==
  /\ pc[t] = "unlink" /\ Goes(t, "close") /\ Unlink(cur[t])
  /\ UNCHANGED <<dir, record, aged, active, exiting, todo, cur>>

ReapClose(t) ==
  /\ pc[t] = "close" /\ Handled(t) /\ Close(t, cur[t])
  /\ UNCHANGED <<dir, linked, aged, active, exiting, todo>>

\* The last name is handled: mkdtemp begins.
Reaped(t) ==
  /\ pc[t] = "next" /\ todo[t] = {} /\ Goes(t, "claim")
  /\ UNCHANGED <<dir, linked, record, aged, active, exiting, todo, cur>>

-----------------------------------------------------------------------------
(* The creation: mkdtemp and acquire_staging_lock.                         *)

Claim(t) ==
  /\ pc[t] = "claim" /\ Goes(t, "mkdir")
  /\ active' = active \cup {t}
  /\ UNCHANGED <<dir, linked, record, aged, exiting, todo, cur>>

\* mkdirat and the open of the directory.  A failure releases the claim; a
\* failed open leaves the directory to a reaper.
Mkdir(t) ==
  /\ pc[t] = "mkdir"
  /\ \/ dir' = [dir EXCEPT ![t] = TRUE] /\ Goes(t, "openLock") /\ UNCHANGED active
     \/ dir' \in {dir, [dir EXCEPT ![t] = TRUE]} /\ Goes(t, "failed") /\ active' = active \ {t}
  /\ UNCHANGED <<linked, record, aged, exiting, todo, cur>>

\* The create of the lock file, which can fail.
OpenLock(t) ==
  /\ pc[t] = "openLock"
  /\ \/ linked' = [linked EXCEPT ![t] = TRUE] /\ Goes(t, "lock")
     \/ UNCHANGED linked /\ Goes(t, "undoClaim")
  /\ UNCHANGED <<dir, record, aged, active, exiting, todo, cur>>

\* fcntl_lock on the new lock file.
Acquire(t) ==
  /\ pc[t] = "lock"
  /\ \/ LockFree(t, t) /\ record' = [record EXCEPT ![t] = ProcOf[t]] /\ Goes(t, "live")
     \/ ~LockFree(t, t) /\ UNCHANGED record /\ Goes(t, "undoUnlink")
  /\ UNCHANGED <<dir, linked, aged, active, exiting, todo, cur>>

UndoUnlink(t) ==
  /\ pc[t] = "undoUnlink" /\ Goes(t, "undoClaim") /\ Unlink(t) /\ Close(t, t)
  /\ UNCHANGED <<dir, aged, active, exiting, todo, cur>>

UndoClaim(t) ==
  /\ pc[t] = "undoClaim" /\ Goes(t, "undoRmtree")
  /\ active' = active \ {t}
  /\ UNCHANGED <<dir, linked, record, aged, exiting, todo, cur>>

UndoRmtree(t) ==
  /\ pc[t] = "undoRmtree" /\ Goes(t, "failed") /\ RemoveTree(t)
  /\ UNCHANGED <<linked, record, aged, active, exiting, todo, cur>>

-----------------------------------------------------------------------------
(* The end: StagingDir::drop, reap_owned, and a crash.                     *)

DropRmtree(t) ==
  /\ pc[t] = "live" /\ Goes(t, "dropUnlink") /\ RemoveTree(t)
  /\ UNCHANGED <<linked, record, aged, active, exiting, todo, cur>>

DropUnlink(t) ==
  /\ pc[t] = "dropUnlink" /\ Goes(t, "dropClaim") /\ Unlink(t)
  /\ UNCHANGED <<dir, record, aged, active, exiting, todo, cur>>

DropClaim(t) ==
  /\ pc[t] = "dropClaim" /\ Goes(t, "dropClose")
  /\ active' = active \ {t}
  /\ UNCHANGED <<dir, linked, record, aged, exiting, todo, cur>>

DropClose(t) ==
  /\ pc[t] = "dropClose" /\ Goes(t, "done") /\ Close(t, t)
  /\ UNCHANGED <<dir, linked, aged, active, exiting, todo, cur>>

ClaimsOf(p) == {n \in active : ProcOf[n] = p}

\* reap_owned: the process is about to end without its destructors.
ReapOwned(p) ==
  /\ p \notin exiting
  /\ exiting' = exiting \cup {p}
  /\ dir' = [n \in Txn |-> dir[n] /\ n \notin ClaimsOf(p)]
  /\ linked' = [n \in Txn |-> linked[n] /\ n \notin ClaimsOf(p)]
  /\ active' = active \ ClaimsOf(p)
  /\ UNCHANGED <<record, aged, pc, todo, cur>>

Ended == {"done", "failed", "dead"}

\* The process ends; the kernel closes its descriptors.
Crash(p) ==
  /\ \E t \in Txn : ProcOf[t] = p /\ pc[t] \notin Ended \cup {"idle"}
  /\ pc' = [t \in Txn |-> IF ProcOf[t] = p /\ pc[t] \notin Ended THEN "dead" ELSE pc[t]]
  /\ record' = [n \in Txn |-> IF record[n] = p THEN NoProc ELSE record[n]]
  /\ active' = active \ ClaimsOf(p)
  /\ UNCHANGED <<dir, linked, aged, exiting, todo, cur>>

\* Time passes.  A creation takes less than tmp-expiry-secs.
Age(n) ==
  /\ dir[n] /\ ~aged[n] /\ pc[n] \notin Creating \cup Undoing
  /\ aged' = [aged EXCEPT ![n] = TRUE]
  /\ UNCHANGED <<dir, linked, record, active, exiting, pc, todo, cur>>

TxnNext(t) ==
  \/ List(t) \/ (\E n \in todo[t] : Pick(t, n)) \/ Open(t) \/ Try(t)
  \/ ReapTree(t) \/ ReapUnlink(t) \/ ReapClose(t) \/ Reaped(t)
  \/ Claim(t) \/ Mkdir(t) \/ OpenLock(t) \/ Acquire(t)
  \/ UndoUnlink(t) \/ UndoClaim(t) \/ UndoRmtree(t)
  \/ DropRmtree(t) \/ DropUnlink(t) \/ DropClaim(t) \/ DropClose(t)

Next ==
  \/ \E t \in Txn : TxnNext(t) \/ Age(t)
  \/ \E p \in Process : ReapOwned(p) \/ Crash(p)

Spec == Init /\ [][Next]_vars

-----------------------------------------------------------------------------
(* Properties.                                                             *)

\* The reaper of t handles n: it found n outside the map active.
Handles(t, n) == pc[t] \in Reaping \ {"next"} /\ cur[t] = n

\* mkdirat did not run yet for n.
Unmade(n) == pc[n] \in {"idle", "claim", "mkdir"} \cup Reaping

\* The claim covers the time from before the mkdirat to after the removals.
ClaimInv ==
  \A n \in Txn :
    LET claimed == pc[n] \in (Creating \ {"claim"}) \cup {"live", "undoUnlink", "undoClaim",
                                                       "dropUnlink", "dropClaim"}
    IN  (n \in active => claimed) /\ (claimed /\ ProcOf[n] \notin exiting => n \in active)

\* A crash ends all of the transactions of a process.
DeadInv ==
  \A t, n \in Txn : ProcOf[t] = ProcOf[n] /\ pc[n] = "dead" => pc[t] \in Ended

\* What is in tmp/ at each point of the life of a staging directory.
EntryInv ==
  \A n \in Txn :
    /\ dir[n] => ~Unmade(n) /\ pc[n] \notin Dropping \cup {"done"}
    /\ linked[n] => pc[n] \in {"lock", "live", "undoUnlink", "dropUnlink", "dead"}
    /\ pc[n] \in {"lock", "live"} /\ ~linked[n] => ~dir[n]

\* A reaper lists names that were made, works on names that no transaction
\* of its process uses, and removes a tree under the record lock.
ReaperInv ==
  \A t, n \in Txn :
    /\ n \in todo[t] => ~Unmade(n)
    /\ Handles(t, n) =>
         /\ ~Unmade(n)
         /\ ProcOf[t] = ProcOf[n] /\ ProcOf[n] \notin exiting =>
              pc[n] \in {"dropClose", "done", "failed", "undoRmtree"}
         /\ pc[t] = "rmtree" /\ ProcOf[t] # ProcOf[n] => record[n] = ProcOf[t] \/ ~dir[n]
         /\ pc[t] \in {"unlink", "close"} => ~dir[n]

\* The reaper of a transaction never handles a directory or a lock file that
\* a transaction of its own process uses, and did not give up: the record lock would not
\* stop it, and its close would drop the hold of the owner.  So the entry in
\* the map active must outlive the directory and the lock file on both sides
\* (mkdtemp, StagingDir::drop, reap_one).
OwnReaperSkips ==
  \A t, n \in Txn :
    /\ Handles(t, n) /\ ProcOf[t] = ProcOf[n] /\ ProcOf[n] \notin exiting
    /\ pc[n] \notin {"undoRmtree", "failed"}
    => ~dir[n] /\ ~linked[n]

\* Nothing but its own end takes the staging directory of a live transaction
\* away: no begin of any process, at whatever point of its reaper, and no
\* crash of another process (reap_one, acquire_staging_lock).
LiveDirKept ==
  [][\A t \in Txn :
       pc[t] = "live" /\ pc'[t] = "live" /\ dir[t] /\ ProcOf[t] \notin exiting' => dir'[t]]_vars

\* A live transaction holds the record lock of its lock file: no descriptor
\* of its process to the file was closed (reap_one, StagingDir).
LiveHoldsRecord ==
  \A t \in Txn : pc[t] = "live" /\ ProcOf[t] \notin exiting => record[t] = ProcOf[t]

\* The strengthening of the properties above that is inductive.
Inv ==
  /\ TypeOK
  /\ ClaimInv
  /\ DeadInv
  /\ EntryInv
  /\ ReaperInv
  /\ LiveHoldsRecord

\* What the documentation of Transaction says of its staging directory: "It
\* creates the directory when it begins and removes it when it ends."  So the
\* directory of a live transaction is in tmp/.
LiveDirStays ==
  \A t \in Txn : pc[t] = "live" /\ ProcOf[t] \notin exiting => dir[t]
=============================================================================
