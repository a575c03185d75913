------------------------- MODULE LockRegistryProofs -------------------------
(***************************************************************************)
(* Proofs that a guard keeps its record lock and that an inode has one     *)
(* lock, for every number of threads, lock files and inodes, and whatever  *)
(* other programs do to the directory.                                     *)
(***************************************************************************)
EXTENDS LockRegistry, TLAPS

(* An empty registry with free inodes satisfies the invariant. *)
LEMMA InitInv == Init => Inv
PROOF
<1> SUFFICES ASSUME Init PROVE Inv
  OBVIOUS
<1>0. (CHOOSE n \in Name : TRUE) \in Name
  BY NameAssumption
<1>1. TypeOK
  BY <1>0, MaxRelinksAssumption DEF Init, TypeOK, PC
<1>2. MutexInv
  BY NoneAssumption DEF Init, MutexInv
<1>3. EntryInv
  BY DEF Init, EntryInv
<1>4. GuardInv
  BY DEF Init, GuardInv
<1>5. NoDescriptorLeak
  BY DEF Init, NoDescriptorLeak, JustOpened
<1> QED
  BY <1>1, <1>2, <1>3, <1>4, <1>5 DEF Inv

\* The states of a caller with no reference and no descriptor of its own.
Outside == {"idle", "lock", "probe", "open", "waiting"}

\* A step between two states with no reference changes no entry.
LEMMA OutsideStep ==
  ASSUME Inv, NEW c \in Caller, NEW to \in Outside, pc[c] \in Outside,
         pc' = [pc EXCEPT ![c] = to],
         UNCHANGED <<reg, open, record, key, hold, arc, fd>>,
         TypeOK', MutexInv'
  PROVE  Inv'
PROOF
<1>1. pc'[c] = to /\ \A d \in Caller \ {c} : pc'[d] = pc[d]
  BY DEF Inv, TypeOK
<1>2. \A d \in Caller : /\ pc'[d] = "has" <=> pc[d] = "has"
                        /\ pc'[d] = "dropping" <=> pc[d] = "dropping"
                        /\ pc'[d] = "opened" <=> pc[d] = "opened"
  BY <1>1 DEF Outside
<1>3. EntryInv'
  BY <1>2 DEF Inv, EntryInv, Live, Dropping
<1>4. GuardInv'
  BY <1>2 DEF Inv, TypeOK, GuardInv
<1>5. NoDescriptorLeak'
  BY <1>2 DEF Inv, NoDescriptorLeak, JustOpened
<1> QED
  BY <1>3, <1>4, <1>5 DEF Inv

\* A lock with a reference has the entry of its inode.
LEMMA LiveHasEntry ==
  ASSUME Inv, NEW l, Live(l)
  PROVE  l \in Lock /\ key[l] \in Inode /\ reg[key[l]] = l /\ ~Dropping(l)
PROOF
  BY DEF Inv, EntryInv, Live, Dropping

\* A call that found a live lock leaves with a reference to it; it may leave
\* a descriptor parked.
LEMMA ReturnsLive ==
  ASSUME Inv, NEW c \in Caller, NEW l, Live(l), mutex = c,
         pc[c] \in {"probe", "opened"}, Returns(c, l),
         UNCHANGED <<reg, open, record, key, hold>>,
         \A d \in Caller \ {c} : fd'[d] = fd[d],
         pc[c] = "opened" => reg[fd[c]] # NoLock,
         TypeOK'
  PROVE  Inv'
PROOF
<1>0. l \in Lock /\ key[l] \in Inode /\ reg[key[l]] = l /\ ~Dropping(l)
  BY LiveHasEntry
<1>1. /\ pc'[c] = "has" /\ \A d \in Caller \ {c} : pc'[d] = pc[d]
      /\ arc'[c] = l /\ \A d \in Caller \ {c} : arc'[d] = arc[d]
      /\ mutex' = NoCaller
  BY DEF Inv, TypeOK, Returns, LeavesMutex
<1>2. MutexInv'
  BY <1>1, NoneAssumption DEF Inv, MutexInv
<1>3. EntryInv'
  <2>1. \A k : (Live(k) => Live(k)') /\ (Dropping(k) => Dropping(k)')
    BY <1>1 DEF Live, Dropping
  <2>2. \A d \in Caller : pc'[d] = "dropping" => arc'[d] # l
    BY <1>0, <1>1 DEF Dropping
  <2> QED
    BY <1>0, <1>1, <2>1, <2>2 DEF Inv, EntryInv
<1>4. GuardInv'
  BY <1>1 DEF Inv, TypeOK, GuardInv
<1>5. NoDescriptorLeak'
  <2>1. \A i \in Inode : JustOpened(i)' => JustOpened(i)
    BY <1>1 DEF JustOpened
  <2>2. \A i \in Inode : JustOpened(i) => JustOpened(i)' \/ reg[i] # NoLock
    BY <1>1 DEF JustOpened
  <2> QED
    BY <2>1, <2>2 DEF Inv, NoDescriptorLeak
<1> QED
  BY <1>2, <1>3, <1>4, <1>5 DEF Inv

(* A call that begins changes no entry, descriptor or record lock. *)
LEMMA StartInv ==
  ASSUME Inv, NEW c \in Caller, NEW n \in Name, Start(c, n)
  PROVE  Inv'
PROOF
<1>1. pc[c] \in Outside /\ "lock" \in Outside
  BY DEF Start, Outside
<1>2. TypeOK'
  BY DEF Inv, TypeOK, Start, PC
<1>3. MutexInv'
  BY DEF Inv, TypeOK, MutexInv, Start
<1> QED
  BY <1>1, <1>2, <1>3, OutsideStep DEF Start

(* Taking the registry mutex touches no entry. *)
LEMMA TakeMutexInv ==
  ASSUME Inv, NEW c \in Caller, TakeMutex(c)
  PROVE  Inv'
PROOF
<1>1. pc[c] \in Outside /\ "probe" \in Outside
  BY DEF TakeMutex, Outside
<1>2. TypeOK'
  BY DEF Inv, TypeOK, TakeMutex, PC
<1>3. MutexInv'
  BY NoneAssumption DEF Inv, TypeOK, MutexInv, TakeMutex
<1> QED
  BY <1>1, <1>2, <1>3, OutsideStep DEF TakeMutex

(* A lookup that finds a live entry adds a reference to it, never a second lock. *)
LEMMA ProbeInv ==
  ASSUME Inv, NEW c \in Caller, Probe(c)
  PROVE  Inv'
PROOF
<1> DEFINE l == ProbedLock(c)
<1>1. pc[c] = "probe" /\ mutex = c /\ pc[c] \in Outside
  BY DEF Inv, MutexInv, Probe, Outside
<1>2. CASE FindLive(l, want[c]) /\ Returns(c, l)
  <2>1. l \in Lock
    BY <1>2, LiveHasEntry DEF FindLive
  <2>2. TypeOK'
    BY <1>2, <2>1 DEF Inv, TypeOK, Probe, Returns, LeavesMutex, PC
  <2> QED
    BY <1>1, <1>2, <2>2, ReturnsLive DEF Probe, FindLive
<1>3. ASSUME NEW to \in {"idle", "waiting"}, LeavesMutex(c, to), arc' = arc
      PROVE  Inv'
  <2>1. TypeOK'
    BY <1>3 DEF Inv, TypeOK, Probe, LeavesMutex, PC
  <2>2. MutexInv'
    BY <1>1, <1>3, NoneAssumption DEF Inv, TypeOK, MutexInv, LeavesMutex
  <2>3. to \in Outside
    BY <1>3 DEF Outside
  <2> QED
    BY <1>1, <1>3, <2>1, <2>2, <2>3, OutsideStep DEF Probe, LeavesMutex
<1>4. CASE FindNone(l, want[c]) /\ pc' = [pc EXCEPT ![c] = "open"]
           /\ UNCHANGED <<mutex, arc>>
  <2>1. TypeOK'
    BY <1>4 DEF Inv, TypeOK, Probe, PC
  <2>2. MutexInv'
    BY <1>1, <1>4 DEF Inv, TypeOK, MutexInv
  <2>3. "open" \in Outside
    BY DEF Outside
  <2> QED
    BY <1>1, <1>4, <2>1, <2>2, <2>3, OutsideStep DEF Probe
<1> QED
  BY <1>2, <1>3, <1>4 DEF Probe, UseFound

(* An opened descriptor belongs to the call that holds the mutex. *)
LEMMA OpenFileInv ==
  ASSUME Inv, NEW c \in Caller, NEW i \in Inode, OpenFile(c, i)
  PROVE  Inv'
PROOF
<1>1. pc[c] = "open" /\ mutex = c
  BY DEF Inv, MutexInv, OpenFile
<1>2. /\ pc'[c] = "opened" /\ fd'[c] = i
      /\ \A d \in Caller \ {c} : pc'[d] = pc[d] /\ fd'[d] = fd[d]
  BY DEF Inv, TypeOK, OpenFile
<1>3. open'[i] = open[i] + 1 /\ \A j \in Inode \ {i} : open'[j] = open[j]
  BY DEF Inv, TypeOK, OpenFile
<1>4. TypeOK'
  BY DEF Inv, TypeOK, OpenFile, PC
<1>5. MutexInv'
  BY <1>1, <1>2 DEF Inv, MutexInv, OpenFile
<1>6. EntryInv'
  <2>1. \A k : (Live(k) <=> Live(k)') /\ (Dropping(k) <=> Dropping(k)')
    BY <1>1, <1>2 DEF Live, Dropping, OpenFile
  <2> QED
    BY <1>1, <1>2, <2>1 DEF Inv, EntryInv, OpenFile
<1>7. GuardInv'
  BY <1>1, <1>2 DEF Inv, TypeOK, GuardInv, OpenFile
<1>8. NoDescriptorLeak'
  <2>1. \A j \in Inode \ {i} : JustOpened(j)' <=> JustOpened(j)
    BY <1>1, <1>2 DEF JustOpened
  <2>2. JustOpened(i)'
    BY <1>2 DEF JustOpened
  <2>3. open'[i] > 0
    BY <1>3 DEF Inv, TypeOK
  <2> QED
    BY <1>3, <2>1, <2>2, <2>3 DEF Inv, NoDescriptorLeak, OpenFile
<1> QED
  BY <1>4, <1>5, <1>6, <1>7, <1>8 DEF Inv

(* A failed open gives the mutex back and leaves the registry as it was. *)
LEMMA OpenErrorInv ==
  ASSUME Inv, NEW c \in Caller, OpenError(c)
  PROVE  Inv'
PROOF
<1>1. pc[c] \in Outside /\ "idle" \in Outside /\ mutex = c
  BY DEF OpenError, Outside, Inv, MutexInv
<1>2. TypeOK'
  BY DEF Inv, TypeOK, OpenError, LeavesMutex, PC
<1>3. MutexInv'
  BY <1>1, NoneAssumption DEF Inv, TypeOK, MutexInv, OpenError, LeavesMutex
<1> QED
  BY <1>1, <1>2, <1>3, OutsideStep DEF OpenError, LeavesMutex

(* A registration makes an entry only for an inode that no entry has, and waits on a dying one. *)
LEMMA RegisterInv ==
  ASSUME Inv, NEW c \in Caller, Register(c)
  PROVE  Inv'
PROOF
<1>1. pc[c] = "opened" /\ mutex = c /\ fd[c] \in Inode
  BY DEF Inv, MutexInv, EntryInv, Register
<1>2. PICK l \in Lock :
        /\ Unused(l)
        /\ reg' = [reg EXCEPT ![fd[c]] = l]
        /\ key' = [key EXCEPT ![l] = fd[c]]
        /\ kind' = [kind EXCEPT ![l] = want[c]]
        /\ Returns(c, l)
  BY DEF Register
<1>3. PICK i \in Inode : fd[c] = i
  BY <1>1
<1>4. reg[i] = NoLock
  BY <1>3 DEF Register, FindNone, FindLive, FindOther, FindDying
<1>5. /\ pc'[c] = "has" /\ arc'[c] = l /\ mutex' = NoCaller
      /\ \A d \in Caller \ {c} : pc'[d] = pc[d] /\ arc'[d] = arc[d] /\ fd'[d] = fd[d]
      /\ reg'[i] = l /\ \A j \in Inode \ {i} : reg'[j] = reg[j]
      /\ key'[l] = i /\ \A k \in Lock \ {l} : key'[k] = key[k]
  BY <1>2, <1>3 DEF Inv, TypeOK, Returns, LeavesMutex, Register
<1>6. TypeOK'
  BY <1>1, <1>2 DEF Inv, TypeOK, Register, Returns, LeavesMutex, PC
<1>7. MutexInv'
  BY <1>1, <1>5, NoneAssumption DEF Inv, MutexInv
<1>8. \A d \in Caller : pc[d] \in {"has", "dropping"} => arc[d] # l
  BY <1>2 DEF Unused, Live, Dropping
<1>9. EntryInv'
  <2>1. \A k \in Lock \ {l} :
          (Live(k) => Live(k)') /\ (Dropping(k) => Dropping(k)')
    BY <1>1, <1>5 DEF Live, Dropping
  <2>2. Live(l)'
    BY <1>5 DEF Live
  <2>3. \A d \in Caller : pc'[d] \in {"has", "dropping"} =>
          /\ arc'[d] \in Lock /\ key'[arc'[d]] \in Inode
          /\ reg'[key'[arc'[d]]] = arc'[d]
    <3> SUFFICES ASSUME NEW d \in Caller \ {c}, pc'[d] \in {"has", "dropping"}
                 PROVE  /\ arc'[d] \in Lock /\ key'[arc'[d]] \in Inode
                        /\ reg'[key'[arc'[d]]] = arc'[d]
      BY <1>5
    <3>1. arc[d] \in Lock \ {l} /\ key[arc[d]] \in Inode /\ reg[key[arc[d]]] = arc[d]
      BY <1>5, <1>8 DEF Inv, EntryInv
    <3>2. key[arc[d]] # i
      BY <3>1, <1>4, NoneAssumption
    <3> QED
      BY <3>1, <3>2, <1>5
  <2>4. \A j \in Inode, k \in Lock :
          reg'[j] = k => key'[k] = j /\ (Live(k)' \/ Dropping(k)')
    <3> SUFFICES ASSUME NEW j \in Inode \ {i}, NEW k \in Lock, reg[j] = k
                 PROVE  key'[k] = j /\ (Live(k)' \/ Dropping(k)')
      BY <1>5, <2>2
    <3>1. k # l
      BY <1>2 DEF Unused
    <3>2. key[k] = j /\ (Live(k) \/ Dropping(k))
      BY NoneAssumption DEF Inv, EntryInv
    <3> QED
      BY <3>1, <3>2, <2>1, <1>5
  <2>5. \A d \in Caller : pc'[d] = "opened" => fd'[d] \in Inode
    BY <1>5 DEF Inv, EntryInv
  <2>6. \A d, e \in Caller :
          pc'[d] = "dropping" /\ pc'[e] \in {"has", "dropping"} /\ arc'[d] = arc'[e]
          => d = e
    BY <1>5, <1>8 DEF Inv, EntryInv
  <2>7. \A j \in Inode : reg'[j] \in Lock \cup {NoLock}
    BY <1>6 DEF TypeOK
  <2> QED
    BY <2>3, <2>4, <2>5, <2>6, <2>7 DEF EntryInv, Live, Dropping
<1>10. GuardInv'
  <2> SUFFICES ASSUME NEW k \in Lock, hold[k] # NoCaller
               PROVE  /\ pc'[hold[k]] = "has" /\ arc'[hold[k]] = k
                      /\ record[key'[k]]
    BY DEF GuardInv, Register
  <2>1. hold[k] \in Caller /\ pc[hold[k]] = "has" /\ arc[hold[k]] = k /\ record[key[k]]
    BY DEF Inv, TypeOK, GuardInv
  <2> QED
    BY <2>1, <1>1, <1>5, <1>8
<1>11. NoDescriptorLeak'
  <2>1. \A j \in Inode \ {i} : JustOpened(j)' <=> JustOpened(j)
    BY <1>1, <1>3, <1>5 DEF JustOpened
  <2>2. open[i] > 0
    BY <1>1, <1>3 DEF Inv, NoDescriptorLeak, JustOpened
  <2> QED
    BY <2>1, <2>2, <1>5, NoneAssumption DEF Inv, NoDescriptorLeak, Register
<1> QED
  BY <1>6, <1>7, <1>9, <1>10, <1>11 DEF Inv

(* The second descriptor of a live entry is parked in it and not closed. *)
LEMMA ParkFoundInv ==
  ASSUME Inv, NEW c \in Caller, ParkFound(c)
  PROVE  Inv'
PROOF
<1>1. pc[c] = "opened" /\ mutex = c /\ fd[c] \in Inode
  BY DEF Inv, MutexInv, EntryInv, ParkFound
<1>2. PICK l : l = reg[fd[c]] /\ UseFound(c, l)
  BY DEF ParkFound
<1>3. l # NoLock /\ \A d \in Caller \ {c} : fd'[d] = fd[d]
  BY <1>2 DEF UseFound, FindLive, FindOther, FindDying, ParkFound, Inv, TypeOK
<1>4. l \in Lock
  BY <1>1, <1>2, <1>3 DEF Inv, TypeOK
<1>5. CASE FindLive(l, want[c]) /\ Returns(c, l)
  <2>1. TypeOK'
    BY <1>4, <1>5 DEF Inv, TypeOK, ParkFound, Park, Returns, LeavesMutex, PC
  <2> QED
    BY <1>1, <1>2, <1>3, <1>5, <2>1, ReturnsLive DEF ParkFound, Park, FindLive
<1>6. ASSUME NEW to \in {"idle", "waiting"}, LeavesMutex(c, to), arc' = arc
      PROVE  Inv'
  <2>1. TypeOK'
    BY <1>6 DEF Inv, TypeOK, ParkFound, Park, LeavesMutex, PC
  <2>2. MutexInv'
    BY <1>1, <1>6, NoneAssumption DEF Inv, TypeOK, MutexInv, LeavesMutex
  <2>3. pc'[c] = to /\ \A d \in Caller \ {c} : pc'[d] = pc[d]
    BY <1>6 DEF Inv, TypeOK, LeavesMutex
  <2>4. EntryInv'
    <3>1. \A k : (Live(k) <=> Live(k)') /\ (Dropping(k) <=> Dropping(k)')
      BY <1>1, <1>6, <2>3 DEF Live, Dropping
    <3> QED
      BY <1>1, <1>3, <1>6, <2>3, <3>1 DEF Inv, EntryInv, ParkFound
  <2>5. GuardInv'
    BY <1>1, <1>6, <2>3 DEF Inv, TypeOK, GuardInv, ParkFound, Park
  <2>6. NoDescriptorLeak'
    <3>1. \A i \in Inode : JustOpened(i)' => JustOpened(i)
      BY <1>3, <1>6, <2>3 DEF JustOpened
    <3>2. \A i \in Inode : JustOpened(i) => JustOpened(i)' \/ i = fd[c]
      BY <1>3, <2>3 DEF JustOpened
    <3> QED
      BY <1>2, <1>3, <3>1, <3>2 DEF Inv, NoDescriptorLeak, ParkFound, Park
  <2> QED
    BY <2>1, <2>2, <2>4, <2>5, <2>6 DEF Inv
<1> QED
  BY <1>2, <1>5, <1>6 DEF UseFound

(* Taking and releasing a hold changes the record lock of one entry only. *)
LEMMA HoldStepInv ==
  ASSUME Inv, NEW c \in Caller, TakeHold(c) \/ DropHold(c)
  PROVE  Inv'
PROOF
<1>1. PICK l \in Lock : arc[c] = l
  BY DEF Inv, EntryInv, TakeHold, DropHold
<1>2. PICK i \in Inode : key[l] = i /\ reg[i] = l
  BY <1>1 DEF Inv, EntryInv, TakeHold, DropHold
<1>3. TypeOK'
  BY <1>1, <1>2 DEF Inv, TypeOK, TakeHold, DropHold
<1>4. MutexInv' /\ NoDescriptorLeak'
  BY DEF Inv, MutexInv, NoDescriptorLeak, JustOpened, TakeHold, DropHold
<1>5. EntryInv'
  BY DEF Inv, EntryInv, Live, Dropping, TakeHold, DropHold
<1>6. GuardInv'
  <2> SUFFICES ASSUME NEW k \in Lock, hold'[k] # NoCaller
               PROVE  /\ pc[hold'[k]] = "has" /\ arc[hold'[k]] = k
                      /\ record'[key[k]]
    BY DEF GuardInv, TakeHold, DropHold
  <2>1. CASE k = l
    BY <2>1, <1>1, <1>2 DEF Inv, TypeOK, TakeHold, DropHold
  <2>2. CASE k # l
    <3>1. hold'[k] = hold[k]
      BY <2>2, <1>1 DEF Inv, TypeOK, TakeHold, DropHold
    <3>2. hold[k] \in Caller /\ pc[hold[k]] = "has" /\ arc[hold[k]] = k /\ record[key[k]]
      BY <3>1 DEF Inv, TypeOK, GuardInv
    <3>3. key[k] \in Inode /\ reg[key[k]] = k
      BY <3>2 DEF Inv, EntryInv
    <3>4. key[k] # i
      BY <2>2, <3>3, <1>2
    <3> QED
      BY <3>1, <3>2, <3>3, <3>4, <1>1, <1>2 DEF Inv, TypeOK, TakeHold, DropHold
  <2> QED
    BY <2>1, <2>2
<1> QED
  BY <1>3, <1>4, <1>5, <1>6 DEF Inv

(* Dropping a reference makes an entry dying when it was the last one. *)
LEMMA DropRefInv ==
  ASSUME Inv, NEW c \in Caller, DropRef(c)
  PROVE  Inv'
PROOF
<1>1. PICK l \in Lock : arc[c] = l /\ pc[c] = "has" /\ hold[l] # c
  BY DEF Inv, EntryInv, DropRef
<1>2. TypeOK'
  BY DEF Inv, TypeOK, DropRef, PC
<1>3. pc'[c] \in {"idle", "dropping"} /\ \A d \in Caller \ {c} : pc'[d] = pc[d] /\ arc'[d] = arc[d]
  BY DEF Inv, TypeOK, DropRef
<1>4. MutexInv' /\ NoDescriptorLeak'
  BY <1>1, <1>3 DEF Inv, MutexInv, NoDescriptorLeak, JustOpened, DropRef
<1>5. GuardInv'
  BY <1>1, <1>3 DEF Inv, TypeOK, GuardInv, DropRef
<1>6. EntryInv'
  <2>1. CASE \E d \in Caller \ {c} : pc[d] = "has" /\ arc[d] = l
    <3>1. pc'[c] = "idle"
      BY <1>1, <2>1 DEF Inv, TypeOK, DropRef
    <3>2. \A k : (Live(k) <=> Live(k)') /\ (Dropping(k) <=> Dropping(k)')
      BY <1>1, <1>3, <2>1, <3>1 DEF Live, Dropping
    <3> QED
      BY <1>1, <1>3, <3>1, <3>2 DEF Inv, EntryInv, DropRef
  <2>2. CASE ~ \E d \in Caller \ {c} : pc[d] = "has" /\ arc[d] = l
    <3>1. pc'[c] = "dropping" /\ arc'[c] = l
      BY <1>1, <2>2 DEF Inv, TypeOK, DropRef
    <3>2. \A d \in Caller \ {c} : pc[d] = "dropping" => arc[d] # l
      BY <1>1 DEF Inv, EntryInv
    <3>3. \A k : Live(k) \/ Dropping(k) => Live(k)' \/ Dropping(k)'
      BY <1>1, <1>3, <3>1 DEF Live, Dropping
    <3> QED
      BY <1>1, <1>3, <2>2, <3>1, <3>2, <3>3 DEF Inv, EntryInv, DropRef
  <2> QED
    BY <2>1, <2>2
<1> QED
  BY <1>2, <1>4, <1>5, <1>6 DEF Inv

(* The unregister of a dying lock closes its descriptors, at which no guard lives on the inode. *)
LEMMA UnregisterInv ==
  ASSUME Inv, NEW c \in Caller, Unregister(c)
  PROVE  Inv'
PROOF
<1>1. PICK l \in Lock, i \in Inode :
        arc[c] = l /\ key[l] = i /\ reg[i] = l /\ pc[c] = "dropping" /\ mutex = NoCaller
  BY DEF Inv, EntryInv, Unregister
<1>2. open[i] \in Nat
  BY DEF Inv, TypeOK
<1>3. TypeOK'
  BY <1>1, <1>2 DEF Inv, TypeOK, Unregister, ClosedBy, Notified, PC
<1>4. /\ pc'[c] = "idle"
      /\ \A d \in Caller \ {c} :
           /\ pc'[d] = IF pc[d] = "waiting" THEN "lock" ELSE pc[d]
           /\ arc'[d] = arc[d]
      /\ reg'[i] = NoLock /\ \A j \in Inode \ {i} : reg'[j] = reg[j]
      /\ key'[l] = NoInode /\ \A k \in Lock \ {l} : key'[k] = key[k]
      /\ \A j \in Inode \ {i} : record'[j] = record[j] /\ open'[j] = open[j]
      /\ open'[i] = 0
  BY <1>1, <1>2 DEF Inv, TypeOK, Unregister, ClosedBy, Notified
<1>5. MutexInv'
  BY <1>1, <1>4, NoneAssumption DEF Inv, MutexInv, Unregister
<1>6. \A d \in Caller \ {c} : pc[d] \in {"has", "dropping"} => arc[d] # l
  BY <1>1 DEF Inv, EntryInv
<1>7. EntryInv'
  <2>1. \A d \in Caller : pc'[d] \in {"has", "dropping"} =>
          /\ arc'[d] \in Lock /\ key'[arc'[d]] \in Inode
          /\ reg'[key'[arc'[d]]] = arc'[d]
    <3> SUFFICES ASSUME NEW d \in Caller \ {c}, pc[d] \in {"has", "dropping"}
                 PROVE  /\ arc[d] \in Lock /\ key'[arc[d]] \in Inode
                        /\ reg'[key'[arc[d]]] = arc[d]
      BY <1>4
    <3>1. arc[d] \in Lock \ {l} /\ key[arc[d]] \in Inode /\ reg[key[arc[d]]] = arc[d]
      BY <1>6 DEF Inv, EntryInv
    <3>2. key[arc[d]] # i
      BY <3>1, <1>1
    <3> QED
      BY <3>1, <3>2, <1>4
  <2>2. \A j \in Inode, k \in Lock :
          reg'[j] = k => key'[k] = j /\ (Live(k)' \/ Dropping(k)')
    <3> SUFFICES ASSUME NEW j \in Inode \ {i}, NEW k \in Lock, reg[j] = k
                 PROVE  key'[k] = j /\ (Live(k)' \/ Dropping(k)')
      BY <1>4, NoneAssumption
    <3>1. key[k] = j /\ (Live(k) \/ Dropping(k))
      BY NoneAssumption DEF Inv, EntryInv
    <3>2. k # l
      BY <3>1, <1>1
    <3> QED
      BY <3>1, <3>2, <1>1, <1>4 DEF Live, Dropping
  <2>3. \A d \in Caller : pc'[d] = "opened" => fd'[d] \in Inode
    BY <1>4 DEF Inv, EntryInv, Unregister
  <2>4. \A d, e \in Caller :
          pc'[d] = "dropping" /\ pc'[e] \in {"has", "dropping"} /\ arc'[d] = arc'[e]
          => d = e
    BY <1>4 DEF Inv, EntryInv
  <2>5. \A j \in Inode : reg'[j] \in Lock \cup {NoLock}
    BY <1>3 DEF TypeOK
  <2> QED
    BY <2>1, <2>2, <2>3, <2>4, <2>5 DEF EntryInv, Live, Dropping
<1>8. GuardInv'
  <2> SUFFICES ASSUME NEW k \in Lock, hold[k] # NoCaller
               PROVE  /\ pc'[hold[k]] = "has" /\ arc'[hold[k]] = k
                      /\ record'[key'[k]]
    BY DEF GuardInv, Unregister
  <2>1. hold[k] \in Caller /\ pc[hold[k]] = "has" /\ arc[hold[k]] = k /\ record[key[k]]
    BY DEF Inv, TypeOK, GuardInv
  <2>2. hold[k] # c /\ k # l
    BY <2>1, <1>1, <1>6
  <2>3. key[k] \in Inode /\ key[k] # i
    BY <2>1, <2>2, <1>1 DEF Inv, EntryInv
  <2> QED
    BY <2>1, <2>2, <2>3, <1>4
<1>9. NoDescriptorLeak'
  <2>1. \A j \in Inode : ~JustOpened(j)'
    BY <1>1, <1>4, NoneAssumption DEF JustOpened, Inv, MutexInv
  <2>2. \A j \in Inode : ~JustOpened(j)
    BY <1>1, NoneAssumption DEF JustOpened, Inv, MutexInv
  <2> QED
    BY <1>4, <2>1, <2>2 DEF Inv, NoDescriptorLeak
<1> QED
  BY <1>3, <1>5, <1>7, <1>8, <1>9 DEF Inv

(* A wakeup without a notification only moves the waiting call. *)
LEMMA SpuriousWakeInv ==
  ASSUME Inv, NEW c \in Caller, SpuriousWake(c)
  PROVE  Inv'
PROOF
<1>1. pc[c] \in Outside /\ "lock" \in Outside
  BY DEF SpuriousWake, Outside
<1>2. TypeOK'
  BY DEF Inv, TypeOK, SpuriousWake, PC
<1>3. MutexInv'
  BY DEF Inv, TypeOK, MutexInv, SpuriousWake
<1> QED
  BY <1>1, <1>2, <1>3, OutsideStep DEF SpuriousWake

(* Another program that relinks a lock file changes which inode a path names and no entry. *)
LEMMA RelinkInv ==
  ASSUME Inv, NEW n \in Name, NEW i \in Inode \cup {NoInode}, Relink(n, i)
  PROVE  Inv'
PROOF
<1>1. TypeOK'
  BY MaxRelinksAssumption DEF Inv, TypeOK, Relink
<1> QED
  BY <1>1 DEF Inv, MutexInv, EntryInv, GuardInv, NoDescriptorLeak, JustOpened,
              Live, Dropping, Relink

\* Every step preserves the invariant.
LEMMA NextInv == Inv /\ [Next]_vars => Inv'
PROOF
<1> SUFFICES ASSUME Inv, [Next]_vars PROVE Inv'
  OBVIOUS
<1>1. CASE UNCHANGED vars
  BY <1>1 DEF vars, Inv, TypeOK, MutexInv, EntryInv, GuardInv, NoDescriptorLeak,
              JustOpened, Live, Dropping
<1>2. ASSUME NEW c \in Caller, NEW n \in Name, Start(c, n) PROVE Inv'
  BY <1>2, StartInv
<1>3. ASSUME NEW c \in Caller, TakeMutex(c) PROVE Inv'
  BY <1>3, TakeMutexInv
<1>4. ASSUME NEW c \in Caller, Probe(c) PROVE Inv'
  BY <1>4, ProbeInv
<1>5. ASSUME NEW c \in Caller, NEW i \in Inode, OpenFile(c, i) PROVE Inv'
  BY <1>5, OpenFileInv
<1>6. ASSUME NEW c \in Caller, OpenError(c) PROVE Inv'
  BY <1>6, OpenErrorInv
<1>7. ASSUME NEW c \in Caller, Register(c) PROVE Inv'
  BY <1>7, RegisterInv
<1>8. ASSUME NEW c \in Caller, ParkFound(c) PROVE Inv'
  BY <1>8, ParkFoundInv
<1>9. ASSUME NEW c \in Caller, TakeHold(c) \/ DropHold(c) PROVE Inv'
  BY <1>9, HoldStepInv
<1>10. ASSUME NEW c \in Caller, DropRef(c) PROVE Inv'
  BY <1>10, DropRefInv
<1>11. ASSUME NEW c \in Caller, Unregister(c) PROVE Inv'
  BY <1>11, UnregisterInv
<1>12. ASSUME NEW c \in Caller, SpuriousWake(c) PROVE Inv'
  BY <1>12, SpuriousWakeInv
<1>13. ASSUME NEW n \in Name, NEW i \in Inode \cup {NoInode}, Relink(n, i) PROVE Inv'
  BY <1>13, RelinkInv
<1> QED
  BY <1>1, <1>2, <1>3, <1>4, <1>5, <1>6, <1>7, <1>8, <1>9, <1>10, <1>11, <1>12, <1>13
  DEF Next

\* The map, the references, the guards and the descriptors agree in every
\* reachable state.
THEOREM Invariance == Spec => []Inv
PROOF
  BY InitInv, NextInv, PTL DEF Spec

\* No close of a descriptor takes the record lock away from a live guard.
THEOREM GuardsKeepRecords == Spec => []HoldKeepsRecord
PROOF
<1>1. Inv => HoldKeepsRecord
  BY DEF Inv, GuardInv, HoldKeepsRecord
<1> QED
  BY <1>1, Invariance, PTL

\* All references of the process to one inode are references to one lock.
THEOREM OneLock == Spec => []OneLockPerInode
PROOF
<1>1. Inv => OneLockPerInode
  BY DEF Inv, EntryInv, OneLockPerInode
<1> QED
  BY <1>1, Invariance, PTL
=============================================================================
