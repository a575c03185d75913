---------------------------- MODULE LockRegistry ----------------------------
(***************************************************************************)
(* The registry of lock files of one process (crates/ostrya/src/lock.rs):  *)
(* the map from the inode of a lock file to the one lock that owns the     *)
(* descriptor to it, shared by .lock and .update.lock.                     *)
(*                                                                         *)
(* The kernel drops all the record locks of a process on a file when the   *)
(* process closes any descriptor to it.  A caller is a thread that opens   *)
(* a lock, keeps its reference for a while, takes holds and lets it go.    *)
(* Other programs link, rename and remove lock files at any time.          *)
(***************************************************************************)
EXTENDS Naturals, FiniteSets

CONSTANTS
  Caller,      \* the threads of the process
  Name,        \* the lock files: one kind of lock for each name
  Inode,       \* the inodes that a name can be bound to
  Lock,        \* the identities of lock objects (the Arc allocations)
  MaxRelinks,  \* bound: the changes of the directory by other programs
  NoInode, NoLock, NoCaller

ASSUME NoneAssumption ==
  NoInode \notin Inode /\ NoLock \notin Lock /\ NoCaller \notin Caller
ASSUME NameAssumption == Name # {}
ASSUME MaxRelinksAssumption == MaxRelinks \in Nat

VARIABLES
  dir,      \* the inode of each name
  relinks,  \* the number of changes by other programs so far
  reg,      \* the registry map: the lock of each inode
  open,     \* the number of descriptors of the process to each inode
  record,   \* TRUE while the process has a record lock on the inode
  key,      \* RepoLock::key, UpdateLock::key
  kind,     \* the name that a lock was made for: its type
  hold,     \* the caller with a guard of the lock
  mutex,    \* the caller inside the registry mutex
  arc,      \* the lock that a caller has a strong reference to
  want,     \* the name that a caller opens
  fd,       \* the inode that a caller has just opened
  pc        \* where each caller is

vars == <<dir, relinks, reg, open, record, key, kind, hold, mutex, arc, want, fd, pc>>

(***************************************************************************)
(* "idle"      no reference                                                *)
(* "lock"      waits for the registry mutex in get_or_register             *)
(* "probe"     has the mutex, at the top of the loop                       *)
(* "open"      has the mutex; the probe found no entry                     *)
(* "opened"    has the mutex and a descriptor from open_lock_file          *)
(* "waiting"   in the condition variable gone                              *)
(* "has"       has a reference to a lock                                   *)
(* "dropping"  dropped the last reference, before unregister               *)
(***************************************************************************)
PC == {"idle", "lock", "probe", "open", "opened", "waiting", "has", "dropping"}

Init ==
  /\ dir \in [Name -> Inode \cup {NoInode}]
  /\ relinks = 0
  /\ reg = [i \in Inode |-> NoLock]
  /\ open = [i \in Inode |-> 0]
  /\ record = [i \in Inode |-> FALSE]
  /\ key = [l \in Lock |-> NoInode]
  /\ kind = [l \in Lock |-> CHOOSE n \in Name : TRUE]
  /\ hold = [l \in Lock |-> NoCaller]
  /\ mutex = NoCaller
  /\ arc = [c \in Caller |-> NoLock]
  /\ want = [c \in Caller |-> CHOOSE n \in Name : TRUE]
  /\ fd = [c \in Caller |-> NoInode]
  /\ pc = [c \in Caller |-> "idle"]

-----------------------------------------------------------------------------
\* Weak::upgrade: some caller has a strong reference.
Live(l) == \E c \in Caller : pc[c] = "has" /\ arc[c] = l

\* A caller dropped the last reference and has not unregistered the lock.
Dropping(l) == \E c \in Caller : pc[c] = "dropping" /\ arc[c] = l

\* An identity that no reference, drop or entry uses.
Unused(l) == ~Live(l) /\ ~Dropping(l) /\ \A i \in Inode : reg[i] # l

\* The entry that statat and the map give for the name that c wants.
ProbedLock(c) == IF dir[want[c]] = NoInode THEN NoLock ELSE reg[dir[want[c]]]

\* A mutant of FindDying: the call takes the place of a dying entry.
FindDyingNever(l, n) == FALSE

\* find: the lock l in an entry, seen by a call for the name n.
FindLive(l, n) == l # NoLock /\ kind[l] = n /\ Live(l)
FindOther(l, n) == l # NoLock /\ kind[l] # n
FindDying(l, n) == l # NoLock /\ kind[l] = n /\ ~Live(l)
FindNone(l, n) == ~FindLive(l, n) /\ ~FindOther(l, n) /\ ~FindDying(l, n)

\* get_or_register returns an error or waits: c leaves the mutex.
LeavesMutex(c, to) ==
  /\ mutex' = NoCaller
  /\ pc' = [pc EXCEPT ![c] = to]

\* get_or_register returns the lock l.
Returns(c, l) ==
  /\ LeavesMutex(c, "has")
  /\ arc' = [arc EXCEPT ![c] = l]

\* What the call does with the lock that it found in an entry.
UseFound(c, l) ==
  \/ FindLive(l, want[c]) /\ Returns(c, l)
  \/ FindOther(l, want[c]) /\ LeavesMutex(c, "idle") /\ UNCHANGED arc
  \/ FindDying(l, want[c]) /\ LeavesMutex(c, "waiting") /\ UNCHANGED arc

\* The first use of a handle: repo_lock or update_lock.
Start(c, n) ==
  /\ pc[c] = "idle"
  /\ want' = [want EXCEPT ![c] = n]
  /\ pc' = [pc EXCEPT ![c] = "lock"]
  /\ UNCHANGED <<dir, relinks, reg, open, record, key, kind, hold, mutex, arc, fd>>

TakeMutex(c) ==
  /\ pc[c] = "lock" /\ mutex = NoCaller
  /\ mutex' = c
  /\ pc' = [pc EXCEPT ![c] = "probe"]
  /\ UNCHANGED <<dir, relinks, reg, open, record, key, kind, hold, arc, want, fd>>

\* The probe with statat, which opens no descriptor.
Probe(c) ==
  /\ pc[c] = "probe"
  /\ \/ UseFound(c, ProbedLock(c))
     \/ /\ FindNone(ProbedLock(c), want[c])
        /\ pc' = [pc EXCEPT ![c] = "open"]
        /\ UNCHANGED <<mutex, arc>>
  /\ UNCHANGED <<dir, relinks, reg, open, record, key, kind, hold, want, fd>>

\* open_lock_file: it binds a name with no file to a new inode.
OpenFile(c, i) ==
  /\ pc[c] = "open"
  /\ \/ dir[want[c]] = i
     \/ /\ dir[want[c]] = NoInode
        /\ \A n \in Name : dir[n] # i
        /\ open[i] = 0
  /\ dir' = [dir EXCEPT ![want[c]] = i]
  /\ fd' = [fd EXCEPT ![c] = i]
  /\ open' = [open EXCEPT ![i] = @ + 1]
  /\ pc' = [pc EXCEPT ![c] = "opened"]
  /\ UNCHANGED <<relinks, reg, record, key, kind, hold, mutex, arc, want>>

\* open_lock_file fails before it has a descriptor.
OpenError(c) ==
  /\ pc[c] = "open"
  /\ LeavesMutex(c, "idle")
  /\ UNCHANGED <<dir, relinks, reg, open, record, key, kind, hold, arc, want, fd>>

\* The inode has no entry: the call registers a new lock.
Register(c) ==
  /\ pc[c] = "opened"
  /\ FindNone(reg[fd[c]], want[c])
  /\ \E l \in Lock :
       /\ Unused(l)
       /\ reg' = [reg EXCEPT ![fd[c]] = l]
       /\ key' = [key EXCEPT ![l] = fd[c]]
       /\ kind' = [kind EXCEPT ![l] = want[c]]
       /\ Returns(c, l)
  /\ fd' = [fd EXCEPT ![c] = NoInode]
  /\ UNCHANGED <<dir, relinks, open, record, hold, want>>

\* A mutant of Park: the descriptor closes when the call is done with it.
ParkNot(i) ==
  /\ open' = [open EXCEPT ![i] = @ - 1]
  /\ record' = [record EXCEPT ![i] = FALSE]

\* The descriptor to an inode that has an entry stays open in the entry.
Park(i) == UNCHANGED <<open, record>>

\* The inode has an entry: another program changed the directory between the
\* probe and the open.
ParkFound(c) ==
  /\ pc[c] = "opened"
  /\ UseFound(c, reg[fd[c]])
  /\ Park(fd[c])
  /\ fd' = [fd EXCEPT ![c] = NoInode]
  /\ UNCHANGED <<dir, relinks, reg, key, kind, hold, want>>

\* A guard takes the record lock through the descriptor of the lock.
TakeHold(c) ==
  /\ pc[c] = "has" /\ hold[arc[c]] = NoCaller
  /\ hold' = [hold EXCEPT ![arc[c]] = c]
  /\ record' = [record EXCEPT ![key[arc[c]]] = TRUE]
  /\ UNCHANGED <<dir, relinks, reg, open, key, kind, mutex, arc, want, fd, pc>>

DropHold(c) ==
  /\ pc[c] = "has" /\ hold[arc[c]] = c
  /\ hold' = [hold EXCEPT ![arc[c]] = NoCaller]
  /\ record' = [record EXCEPT ![key[arc[c]]] = FALSE]
  /\ UNCHANGED <<dir, relinks, reg, open, key, kind, mutex, arc, want, fd, pc>>

\* A reference goes; a guard has one of its own.  The last one runs the drop.
DropRef(c) ==
  /\ pc[c] = "has" /\ hold[arc[c]] # c
  /\ IF \E d \in Caller \ {c} : pc[d] = "has" /\ arc[d] = arc[c]
     THEN /\ pc' = [pc EXCEPT ![c] = "idle"]
          /\ arc' = [arc EXCEPT ![c] = NoLock]
     ELSE /\ pc' = [pc EXCEPT ![c] = "dropping"]
          /\ UNCHANGED arc
  /\ UNCHANGED <<dir, relinks, reg, open, record, key, kind, hold, mutex, want, fd>>

\* The descriptors that unregister closes: the one of the lock and the parked.
ClosedBy(i) == open[i]

\* A mutant of Notified: the drop of a lock signals nobody.
NotifiedNone == pc

\* notify_all: each waiter goes for the mutex again.
Notified == [c \in Caller |-> IF pc[c] = "waiting" THEN "lock" ELSE pc[c]]

\* unregister, under the registry mutex.
Unregister(c) ==
  LET i == key[arc[c]]
  IN  /\ pc[c] = "dropping" /\ mutex = NoCaller
      /\ open' = [open EXCEPT ![i] = @ - ClosedBy(i)]
      /\ record' = [record EXCEPT ![i] = FALSE]
      /\ reg' = [reg EXCEPT ![i] = NoLock]
      /\ key' = [key EXCEPT ![arc[c]] = NoInode]
      /\ arc' = [arc EXCEPT ![c] = NoLock]
      /\ pc' = [Notified EXCEPT ![c] = "idle"]
      /\ UNCHANGED <<dir, relinks, kind, hold, mutex, want, fd>>

\* Condvar::wait may return with no signal.
SpuriousWake(c) ==
  /\ pc[c] = "waiting"
  /\ pc' = [pc EXCEPT ![c] = "lock"]
  /\ UNCHANGED <<dir, relinks, reg, open, record, key, kind, hold, mutex, arc, want, fd>>

\* Another program links, renames or removes a lock file.
Relink(n, i) ==
  /\ relinks < MaxRelinks
  /\ dir[n] # i
  /\ dir' = [dir EXCEPT ![n] = i]
  /\ relinks' = relinks + 1
  /\ UNCHANGED <<reg, open, record, key, kind, hold, mutex, arc, want, fd, pc>>

Next ==
  \/ \E c \in Caller :
       \/ \E n \in Name : Start(c, n)
       \/ TakeMutex(c) \/ Probe(c)
       \/ \E i \in Inode : OpenFile(c, i)
       \/ OpenError(c) \/ Register(c) \/ ParkFound(c) \/ TakeHold(c) \/ DropHold(c) \/ DropRef(c)
       \/ Unregister(c) \/ SpuriousWake(c)
  \/ \E n \in Name, i \in Inode \cup {NoInode} : Relink(n, i)

Spec == Init /\ [][Next]_vars

(***************************************************************************)
(* Threads run: a call that has the mutex goes on, a call that can take    *)
(* the mutex often takes it, and a drop reaches unregister.                *)
(***************************************************************************)
Fairness ==
  \A c \in Caller :
    /\ SF_vars(TakeMutex(c))
    /\ WF_vars(Probe(c) \/ OpenError(c) \/ Register(c) \/ ParkFound(c)
                \/ \E i \in Inode : OpenFile(c, i))
    /\ SF_vars(Unregister(c))

FairSpec == Spec /\ Fairness

-----------------------------------------------------------------------------
TypeOK ==
  /\ dir \in [Name -> Inode \cup {NoInode}]
  /\ relinks \in 0..MaxRelinks
  /\ reg \in [Inode -> Lock \cup {NoLock}]
  /\ open \in [Inode -> Nat]
  /\ record \in [Inode -> BOOLEAN]
  /\ key \in [Lock -> Inode \cup {NoInode}]
  /\ kind \in [Lock -> Name]
  /\ hold \in [Lock -> Caller \cup {NoCaller}]
  /\ mutex \in Caller \cup {NoCaller}
  /\ arc \in [Caller -> Lock \cup {NoLock}]
  /\ want \in [Caller -> Name]
  /\ fd \in [Caller -> Inode \cup {NoInode}]
  /\ pc \in [Caller -> PC]

(***************************************************************************)
(* A guard keeps the record lock that it took: no descriptor to the inode  *)
(* of a held lock closes, whichever handle, lock kind or file name the     *)
(* descriptor came from (get_or_register, unregister).                     *)
(***************************************************************************)
HoldKeepsRecord ==
  \A l \in Lock : hold[l] # NoCaller => record[key[l]]

(***************************************************************************)
(* Two references to one inode are references to one lock, so that the     *)
(* hold counts of that lock see every holder of the process.               *)
(***************************************************************************)
OneLockPerInode ==
  \A c, d \in Caller :
    /\ pc[c] = "has" /\ pc[d] = "has"
    /\ key[arc[c]] = key[arc[d]]
    => arc[c] = arc[d]

\* A call has opened the inode and has not looked for its entry yet.
JustOpened(i) == \E c \in Caller : pc[c] = "opened" /\ fd[c] = i

(***************************************************************************)
(* The process has open descriptors to an inode exactly while the registry *)
(* has an entry for it or a call is about to make one: the parked ones go  *)
(* with the entry.                                                         *)
(***************************************************************************)
NoDescriptorLeak ==
  \A i \in Inode : open[i] > 0 <=> (reg[i] # NoLock \/ JustOpened(i))

(***************************************************************************)
(* The inductive invariant.                                                *)
(***************************************************************************)
\* One call at a time is between its probe and its insert.
MutexInv ==
  \A c \in Caller : pc[c] \in {"probe", "open", "opened"} <=> mutex = c

\* A lock with a reference, or with a drop that has not run, has the entry of
\* its inode; an entry has such a lock; one drop runs, after all references.
EntryInv ==
  /\ \A c \in Caller : pc[c] = "opened" => fd[c] \in Inode
  /\ \A c \in Caller : pc[c] \in {"has", "dropping"} =>
       arc[c] \in Lock /\ key[arc[c]] \in Inode /\ reg[key[arc[c]]] = arc[c]
  /\ \A i \in Inode : reg[i] # NoLock =>
       key[reg[i]] = i /\ (Live(reg[i]) \/ Dropping(reg[i]))
  /\ \A c, d \in Caller :
       pc[c] = "dropping" /\ pc[d] \in {"has", "dropping"} /\ arc[c] = arc[d] => c = d

\* A guard has a reference of its own, and the record lock.
GuardInv ==
  \A l \in Lock : hold[l] # NoCaller =>
    /\ pc[hold[l]] = "has" /\ arc[hold[l]] = l
    /\ record[key[l]]

Inv == TypeOK /\ MutexInv /\ EntryInv /\ GuardInv /\ NoDescriptorLeak

(***************************************************************************)
(* A call that waits for a dying entry does not wait with no end: it has a *)
(* drop to wait for, and the drop wakes it (unregister).                   *)
(***************************************************************************)
WaiterIsWoken == \A c \in Caller : pc[c] = "waiting" ~> pc[c] # "waiting"
=============================================================================
