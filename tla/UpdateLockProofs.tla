-------------------------- MODULE UpdateLockProofs --------------------------
(***************************************************************************)
(* Proofs that the update lock excludes and that it loses no wakeup, for   *)
(* every number of processes and tasks.                                    *)
(***************************************************************************)
EXTENDS UpdateLock, SequenceTheorems, TLAPS

\* What retain leaves of a queue with unique tickets (Place::drop).
LEMMA WithoutProperties ==
  \A q \in Seq(Task) : \A k \in 1..Len(q) :
    (\A i, j \in 1..Len(q) : q[i] = q[j] => i = j) =>
      /\ Without(q, q[k]) \in Seq(Task)
      /\ Len(Without(q, q[k])) = Len(q) - 1
      /\ \A n \in 1..(Len(q) - 1) :
           Without(q, q[k])[n] = IF n < k THEN q[n] ELSE q[n + 1]
PROOF
<1> SUFFICES ASSUME NEW q \in Seq(Task), NEW k \in 1..Len(q), NEW t, q[k] = t,
                    \A i, j \in 1..Len(q) : q[i] = q[j] => i = j
             PROVE  /\ Without(q, t) \in Seq(Task)
                    /\ Len(Without(q, t)) = Len(q) - 1
                    /\ \A n \in 1..(Len(q) - 1) :
                         Without(q, t)[n] = IF n < k THEN q[n] ELSE q[n + 1]
  OBVIOUS
<1> DEFINE i == CHOOSE n \in 1..Len(q) : q[n] = t
           w == [n \in 1..(Len(q) - 1) |-> IF n < i THEN q[n] ELSE q[n + 1]]
<1>1. i \in 1..Len(q) /\ q[i] = t
  OBVIOUS
<1>2. i = k
  BY <1>1
<1>3. Len(q) \in Nat /\ q \in [1..Len(q) -> Task] /\ Len(q) - 1 \in Nat
  BY LenProperties
<1>4. \A n \in 1..(Len(q) - 1) : n \in 1..Len(q) /\ n + 1 \in 1..Len(q)
  BY <1>3
<1>5. \A n \in 1..(Len(q) - 1) : w[n] \in Task
  BY <1>3, <1>4
<1>6. w \in Seq(Task) /\ Len(w) = Len(q) - 1
  <2> HIDE DEF i
  <2> QED BY <1>3, <1>5, IsASeq
<1>7. Without(q, t) = w
  BY DEF Without
<1> QED
  BY <1>2, <1>6, <1>7

\* The head of a queue that is not empty is its first place.
LEMMA HeadIsFirst ==
  ASSUME TypeOK, NEW p \in Process, queue[p] # <<>>
  PROVE  /\ Len(queue[p]) \in Nat \ {0}
         /\ 1 \in DOMAIN queue[p]
         /\ Head(queue[p]) = queue[p][1]
         /\ Head(queue[p]) \in Task
PROOF
<1>1. queue[p] \in Seq(Task)
  BY DEF TypeOK
<1>2. Len(queue[p]) \in Nat \ {0}
  BY <1>1, EmptySeq
<1>3. Head(queue[p]) \in Task
  BY <1>1, HeadTailProperties
<1> QED
  BY <1>1, <1>2, <1>3, LenProperties

\* What wake_head leaves well typed.
LEMMA WakeHeadType ==
  ASSUME TypeOK, NEW t \in Task, NEW q, q # <<>> => Head(q) \in Task,
         WakeHead(t, q)
  PROVE  /\ pc' \in [Task -> PC] /\ waker' \in [Task -> BOOLEAN]
         /\ wakee' \in [Task -> Task \cup {NoTask}]
PROOF
  BY DEF WakeHead, Disarm, TypeOK, PC

\* wake_head wakes inside the process of the task that runs it.
LEMMA WakeHeadWakee ==
  ASSUME TypeOK, WakeeInv, NEW t \in Task, NEW q,
         q # <<>> => Head(q) \in Task /\ ProcOf[Head(q)] = ProcOf[t],
         WakeHead(t, q)
  PROVE  WakeeInv'
PROOF
<1> USE NoneAssumption
<1>1. Disarm(wakee, t) \in [Task -> Task \cup {NoTask}]
  BY DEF Disarm, TypeOK
<1>2. \A u \in Task : Disarm(wakee, t)[u] \in {NoTask, wakee[u]}
  BY DEF Disarm
<1>3. CASE q # <<>> /\ waker[Head(q)]
  <2>1. /\ wakee' = [Disarm(wakee, t) EXCEPT ![t] = Head(q)]
        /\ pc' = [pc EXCEPT ![t] = "waking"]
    BY <1>3 DEF WakeHead
  <2>2. /\ wakee'[t] = Head(q)
        /\ \A u \in Task \ {t} : pc'[u] = pc[u] /\ wakee'[u] \in {NoTask, wakee[u]}
    BY <2>1, <1>1, <1>2 DEF TypeOK
  <2> QED
    BY <2>2, <1>3 DEF WakeeInv
<1>4. CASE ~(q # <<>> /\ waker[Head(q)])
  <2>1. /\ wakee' = Disarm(wakee, t)
        /\ pc' = [pc EXCEPT ![t] = "idle"]
    BY <1>4 DEF WakeHead
  <2> QED
    BY <2>1, <1>2 DEF WakeeInv, TypeOK
<1> QED
  BY <1>3, <1>4

\* Init satisfies the invariant.
LEMMA InitInv == Init => Inv
PROOF
<1> SUFFICES ASSUME Init PROVE Inv
  OBVIOUS
<1> USE NoneAssumption, ProcOfAssumption
<1>1. TypeOK
  BY EmptySeq DEF Init, TypeOK, PC
<1>2. HoldInv
  BY DEF Init, HoldInv
<1>3. QueueInv
  BY EmptySeq, LenProperties DEF Init, QueueInv, Waiting
<1>4. WakeInv
  BY DEF Init, WakeInv
<1>5. WakeeInv
  BY DEF Init, WakeeInv
<1> QED
  BY <1>1, <1>2, <1>3, <1>4, <1>5 DEF Inv

\* Enqueue preserves the invariant: the new ticket is behind the others.
LEMMA EnqueueInv ==
  ASSUME Inv, NEW t \in Task, Enqueue(t)
  PROVE  Inv'
PROOF
<1> DEFINE p == ProcOf[t]
           q == queue[p]
<1> USE ProcOfAssumption, NoneAssumption
<1>0. p \in Process /\ q \in Seq(Task) /\ Len(q) \in Nat /\ DOMAIN q = 1..Len(q)
  BY LenProperties DEF Inv, TypeOK
<1>1. /\ Append(q, t) \in Seq(Task)
      /\ Len(Append(q, t)) = Len(q) + 1
      /\ DOMAIN Append(q, t) = 1..(Len(q) + 1)
      /\ \A i \in 1..Len(q) : Append(q, t)[i] = q[i]
      /\ Append(q, t)[Len(q) + 1] = t
  BY <1>0, AppendProperties, LenProperties
<1>2. queue'[p] = Append(q, t) /\ \A r \in Process \ {p} : queue'[r] = queue[r]
  BY <1>0 DEF Inv, TypeOK, Enqueue
<1>3. pc'[t] = "polling" /\ \A u \in Task \ {t} : pc'[u] = pc[u]
  BY DEF Inv, TypeOK, Enqueue
<1>4. TypeOK'
  BY <1>0, <1>1 DEF Inv, TypeOK, Enqueue, PC, Waiting
<1>5. HoldInv'
  BY <1>3 DEF Inv, HoldInv, Enqueue
<1>6. QueueInv'
  <2>1. \A r \in Process : \A i \in DOMAIN queue[r] : queue[r][i] # t
    BY DEF Inv, QueueInv, Enqueue, Waiting
  <2>2. \A r \in Process : \A i \in DOMAIN queue'[r] :
          ProcOf[queue'[r][i]] = r /\ pc'[queue'[r][i]] \in Waiting
    <3> SUFFICES ASSUME NEW r \in Process, NEW i \in DOMAIN queue'[r]
                 PROVE  ProcOf[queue'[r][i]] = r /\ pc'[queue'[r][i]] \in Waiting
      OBVIOUS
    <3>1. CASE r # p
      <4>1. queue'[r] = queue[r] /\ queue[r] \in Seq(Task) /\ i \in DOMAIN queue[r]
        BY <3>1, <1>2 DEF Inv, TypeOK
      <4>2. queue[r][i] \in Task
        BY <4>1, LenProperties
      <4> QED
        BY <4>1, <4>2, <2>1, <1>3 DEF Inv, QueueInv
    <3>2. CASE r = p /\ i = Len(q) + 1
      BY <3>2, <1>0, <1>1, <1>2, <1>3 DEF Waiting
    <3>3. CASE r = p /\ i # Len(q) + 1
      <4>1. i \in 1..Len(q) /\ queue'[r][i] = q[i] /\ q[i] \in Task
        BY <3>3, <1>0, <1>1, <1>2, LenProperties
      <4> QED
        BY <3>3, <4>1, <2>1, <1>0, <1>3 DEF Inv, QueueInv
    <3> QED
      BY <3>1, <3>2, <3>3
  <2>3. \A r \in Process : \A i, j \in DOMAIN queue'[r] :
          queue'[r][i] = queue'[r][j] => i = j
    <3> SUFFICES ASSUME NEW r \in Process, NEW i \in DOMAIN queue'[r],
                        NEW j \in DOMAIN queue'[r], queue'[r][i] = queue'[r][j]
                 PROVE  i = j
      OBVIOUS
    <3>1. CASE r # p
      BY <3>1, <1>2 DEF Inv, QueueInv
    <3>2. CASE r = p
      BY <3>2, <1>0, <1>1, <1>2, <2>1 DEF Inv, QueueInv
    <3> QED
      BY <3>1, <3>2
  <2>4. \A u \in Task : pc'[u] \in Waiting =>
          \E i \in DOMAIN queue'[ProcOf[u]] : queue'[ProcOf[u]][i] = u
    <3> SUFFICES ASSUME NEW u \in Task, pc'[u] \in Waiting
                 PROVE  \E i \in DOMAIN queue'[ProcOf[u]] : queue'[ProcOf[u]][i] = u
      OBVIOUS
    <3>1. CASE u = t
      BY <3>1, <1>0, <1>1, <1>2
    <3>2. CASE u # t
      <4>1. PICK i \in DOMAIN queue[ProcOf[u]] : queue[ProcOf[u]][i] = u
        BY <3>2, <1>3 DEF Inv, QueueInv
      <4> QED
        BY <4>1, <1>0, <1>1, <1>2
    <3> QED
      BY <3>1, <3>2
  <2> QED
    BY <2>2, <2>3, <2>4 DEF QueueInv
<1>7. WakeInv'
  <2> SUFFICES ASSUME NEW u \in Task, pc'[u] = "parked"
               PROVE  /\ waker'[u] \/ WakePending(u)'
                      /\ MayRequest(u)' => WakePending(u)'
    BY DEF WakeInv
  <2>1. u # t /\ pc[u] = "parked"
    BY <1>3
  <2>2. WakePending(u) => WakePending(u)'
    BY <1>3 DEF WakePending, Enqueue
  <2>3. MayRequest(u)' => MayRequest(u)
    <3> SUFFICES ASSUME MayRequest(u)' PROVE MayRequest(u)
      OBVIOUS
    <3>1. PICK i \in DOMAIN queue[ProcOf[u]] : queue[ProcOf[u]][i] = u
      BY <2>1 DEF Inv, QueueInv, Waiting
    <3>2. ProcOf[u] \in Process
      OBVIOUS
    <3>3. CASE ProcOf[u] # p
      BY <3>2, <3>3, <1>2 DEF MayRequest, IsHead, Enqueue
    <3>4. CASE ProcOf[u] = p
      <4>1. Len(q) \in Nat \ {0} /\ q # <<>>
        BY <3>1, <3>4, <1>0, EmptySeq
      <4>2. Head(Append(q, t)) = Append(q, t)[1] /\ Head(q) = q[1]
        BY <4>1, <1>0, <1>1
      <4> QED
        BY <3>4, <4>1, <4>2, <1>0, <1>1, <1>2 DEF MayRequest, IsHead, Enqueue
    <3> QED
      BY <3>3, <3>4
  <2> QED
    BY <2>1, <2>2, <2>3 DEF Inv, WakeInv, Enqueue
<1>8. WakeeInv'
  BY <1>3 DEF Inv, WakeeInv, Enqueue
<1> QED
  BY <1>4, <1>5, <1>6, <1>7, <1>8 DEF Inv

\* A place of the queue of p that a step removed: what is left of QueueInv.
LEMMA RemoveFromQueue ==
  ASSUME Inv, NEW t \in Task, NEW k \in DOMAIN queue[ProcOf[t]],
         queue[ProcOf[t]][k] = t,
         NEW rest \in Seq(Task),
         Len(rest) = Len(queue[ProcOf[t]]) - 1,
         \A n \in 1..Len(rest) :
           rest[n] = IF n < k THEN queue[ProcOf[t]][n] ELSE queue[ProcOf[t]][n + 1],
         queue' = [queue EXCEPT ![ProcOf[t]] = rest],
         pc'[t] \notin Waiting,
         \A u \in Task \ {t} : pc'[u] = pc[u]
  PROVE  QueueInv'
PROOF
<1> DEFINE p == ProcOf[t]
           q == queue[p]
<1> USE ProcOfAssumption
<1>0. /\ p \in Process /\ q \in Seq(Task) /\ Len(q) \in Nat /\ DOMAIN q = 1..Len(q)
      /\ DOMAIN rest = 1..Len(rest) /\ Len(rest) \in Nat
  BY LenProperties DEF Inv, TypeOK
<1>1. queue'[p] = rest /\ \A r \in Process \ {p} : queue'[r] = queue[r]
  BY <1>0 DEF Inv, TypeOK
<1>2. \A n \in 1..Len(rest) : /\ rest[n] \in Task /\ rest[n] # t
                             /\ \E m \in 1..Len(q) : rest[n] = q[m]
  <2> SUFFICES ASSUME NEW n \in 1..Len(rest)
               PROVE  /\ rest[n] \in Task /\ rest[n] # t
                      /\ \E m \in 1..Len(q) : rest[n] = q[m]
    OBVIOUS
  <2>1. PICK m \in 1..Len(q) : rest[n] = q[m] /\ m # k
    <3>1. CASE n < k
      BY <3>1, <1>0
    <3>2. CASE ~(n < k)
      BY <3>2, <1>0
    <3> QED
      BY <3>1, <3>2
  <2>2. q[m] \in Task /\ q[m] # q[k]
    BY <2>1, <1>0, LenProperties DEF Inv, QueueInv
  <2> QED
    BY <2>1, <2>2
<1>3. ASSUME NEW r \in Process, NEW i \in DOMAIN queue'[r]
      PROVE  ProcOf[queue'[r][i]] = r /\ pc'[queue'[r][i]] \in Waiting
  <2>1. CASE r # p
    <3>1. queue'[r] = queue[r] /\ queue[r] \in Seq(Task) /\ i \in DOMAIN queue[r]
      BY <2>1, <1>1 DEF Inv, TypeOK
    <3>2. queue[r][i] \in Task /\ ProcOf[queue[r][i]] = r /\ pc[queue[r][i]] \in Waiting
      BY <3>1, LenProperties DEF Inv, QueueInv
    <3> QED
      BY <2>1, <3>1, <3>2
  <2>2. CASE r = p
    <3>1. i \in 1..Len(rest) /\ queue'[r][i] = rest[i]
      BY <2>2, <1>0, <1>1
    <3>2. PICK m \in 1..Len(q) : rest[i] = q[m]
      BY <3>1, <1>2
    <3>3. ProcOf[q[m]] = p /\ pc[q[m]] \in Waiting
      BY <1>0 DEF Inv, QueueInv
    <3> QED
      BY <2>2, <3>1, <3>2, <3>3, <1>2
  <2> QED
    BY <2>1, <2>2
<1>4. ASSUME NEW r \in Process, NEW i \in DOMAIN queue'[r],
             NEW j \in DOMAIN queue'[r], queue'[r][i] = queue'[r][j]
      PROVE  i = j
  <2>1. CASE r # p
    BY <2>1, <1>1, <1>4 DEF Inv, QueueInv
  <2>2. CASE r = p
    <3>1. i \in 1..Len(rest) /\ j \in 1..Len(rest) /\ rest[i] = rest[j]
      BY <2>2, <1>0, <1>1, <1>4
    <3> DEFINE at(n) == IF n < k THEN n ELSE n + 1
    <3>2. /\ at(i) \in 1..Len(q) /\ at(j) \in 1..Len(q)
          /\ rest[i] = q[at(i)] /\ rest[j] = q[at(j)]
      BY <3>1, <1>0
    <3>3. \A m, n \in 1..Len(q) : q[m] = q[n] => m = n
      BY <1>0 DEF Inv, QueueInv
    <3>4. at(i) = at(j)
      <4> HIDE DEF at
      <4> QED
        BY <3>1, <3>2, <3>3
    <3> QED
      BY <3>1, <3>4, <1>0
  <2> QED
    BY <2>1, <2>2
<1>5. ASSUME NEW u \in Task, pc'[u] \in Waiting
      PROVE  \E i \in DOMAIN queue'[ProcOf[u]] : queue'[ProcOf[u]][i] = u
  <2>1. u # t
    BY <1>5
  <2>2. PICK i \in DOMAIN queue[ProcOf[u]] : queue[ProcOf[u]][i] = u
    BY <2>1, <1>5 DEF Inv, QueueInv
  <2>3. CASE ProcOf[u] # p
    BY <2>2, <2>3, <1>1
  <2>4. CASE ProcOf[u] = p
    <3>1. i \in 1..Len(q) /\ i # k /\ k \in 1..Len(q)
      BY <2>1, <2>2, <2>4, <1>0
    <3>2. CASE i < k
      <4>1. i \in 1..Len(rest) /\ rest[i] = u
        BY <3>1, <3>2, <2>2, <2>4, <1>0
      <4> QED
        BY <4>1, <2>4, <1>0, <1>1
    <3>3. CASE i > k
      <4>1. i - 1 \in 1..Len(rest) /\ rest[i - 1] = u
        BY <3>1, <3>3, <2>2, <2>4, <1>0
      <4> QED
        BY <4>1, <2>4, <1>0, <1>1
    <3> QED
      BY <3>1, <3>2, <3>3, <1>0
  <2> QED
    BY <2>3, <2>4
<1> QED
  BY <1>3, <1>4, <1>5 DEF QueueInv

\* A granted poll preserves the invariant.
LEMMA PollGrantedInv ==
  ASSUME Inv, NEW t \in Task, PollGranted(t)
  PROVE  Inv'
PROOF
<1> DEFINE p == ProcOf[t]
           q == queue[p]
<1> USE ProcOfAssumption, NoneAssumption
<1>0. p \in Process /\ q \in Seq(Task) /\ q # <<>> /\ Head(q) = t /\ ~held[p]
  BY DEF Inv, TypeOK, PollGranted, MayRequest, IsHead
<1>1. 1 \in DOMAIN q /\ q[1] = t /\ Len(q) \in Nat
  BY <1>0, HeadIsFirst DEF Inv
<1>2. /\ Tail(q) \in Seq(Task)
      /\ Len(Tail(q)) = Len(q) - 1
      /\ \A n \in 1..Len(Tail(q)) : Tail(q)[n] = q[n + 1]
  BY <1>0, HeadTailProperties
<1>3. pc'[t] = "holding" /\ \A u \in Task \ {t} : pc'[u] = pc[u]
  BY DEF Inv, TypeOK, PollGranted
<1>4. QueueInv'
  <2>1. \A n \in 1..Len(Tail(q)) :
          Tail(q)[n] = IF n < 1 THEN q[n] ELSE q[n + 1]
    BY <1>1, <1>2
  <2>2. pc'[t] \notin Waiting
    BY <1>3 DEF Waiting
  <2>3. queue' = [queue EXCEPT ![ProcOf[t]] = Tail(q)]
    BY DEF PollGranted
  <2> HIDE DEF q
  <2> QED
    BY <1>1, <1>2, <1>3, <2>1, <2>2, <2>3, RemoveFromQueue DEF q
<1>5. TypeOK'
  BY <1>0, <1>2 DEF Inv, TypeOK, PollGranted, PC, Disarm
<1>6. HoldInv'
  <2>1. \A u \in Task : pc[u] \in {"holding", "releasing"} => ProcOf[u] # p
    BY <1>0 DEF Inv, HoldInv
  <2>2. \A u \in Task : pc[u] = "holding" => FALSE
    BY <1>0, <2>1 DEF Inv, HoldInv, PollGranted, RecordFree
  <2>3. held'[p] /\ \A r \in Process \ {p} : held'[r] = held[r]
    BY <1>0 DEF Inv, TypeOK, PollGranted
  <2> QED
    BY <1>0, <1>3, <2>1, <2>2, <2>3 DEF Inv, HoldInv, PollGranted
<1>7. WakeInv'
  <2> SUFFICES ASSUME NEW u \in Task, pc'[u] = "parked"
               PROVE  /\ waker'[u] \/ WakePending(u)'
                      /\ MayRequest(u)' => WakePending(u)'
    BY DEF WakeInv
  <2>1. u # t /\ pc[u] = "parked"
    BY <1>3
  <2>2. WakePending(u) => WakePending(u)'
    <3> SUFFICES ASSUME NEW v \in Task, pc[v] = "waking", wakee[v] = u
                 PROVE  pc'[v] = "waking" /\ wakee'[v] = u
      BY DEF WakePending
    <3> QED
      BY <1>3, <2>1 DEF PollGranted, Disarm
  <2>3. waker[u] => waker'[u]
    BY <2>1 DEF Inv, TypeOK, PollGranted
  <2>4. MayRequest(u)' => MayRequest(u)
    <3>1. CASE ProcOf[u] = p
      BY <3>1, <1>0 DEF Inv, TypeOK, PollGranted, MayRequest
    <3>2. CASE ProcOf[u] # p
      BY <3>2, <1>0 DEF Inv, TypeOK, PollGranted, MayRequest, IsHead
    <3> QED
      BY <3>1, <3>2
  <2> QED
    BY <2>1, <2>2, <2>3, <2>4 DEF Inv, WakeInv
<1>8. WakeeInv'
  BY <1>3 DEF Inv, TypeOK, WakeeInv, PollGranted, Disarm
<1> QED
  BY <1>4, <1>5, <1>6, <1>7, <1>8 DEF Inv

\* The drop of a place preserves the invariant, wherever the place is in the
\* queue: it takes nothing but its own place, and hands the turn over.
LEMMA LeaveInv ==
  ASSUME Inv, NEW t \in Task, pc[t] \in Waiting, Leave(t)
  PROVE  Inv'
PROOF
<1> DEFINE p == ProcOf[t]
           q == queue[p]
           rest == Without(q, t)
           next == IF HandsOver(t) THEN rest ELSE <<>>
<1> USE ProcOfAssumption, NoneAssumption
<1>0. p \in Process /\ q \in Seq(Task) /\ Len(q) \in Nat /\ DOMAIN q = 1..Len(q)
  BY LenProperties DEF Inv, TypeOK
<1>1. PICK k \in DOMAIN q : q[k] = t
  BY DEF Inv, QueueInv
<1>2. \A i, j \in 1..Len(q) : q[i] = q[j] => i = j
  BY <1>0 DEF Inv, QueueInv
<1>3. /\ rest \in Seq(Task)
      /\ Len(rest) = Len(q) - 1
      /\ \A n \in 1..Len(rest) : rest[n] = IF n < k THEN q[n] ELSE q[n + 1]
  <2>1. k \in 1..Len(q)
    BY <1>0
  <2> HIDE DEF q
  <2>2. /\ rest \in Seq(Task) /\ Len(rest) = Len(q) - 1
        /\ \A n \in 1..(Len(q) - 1) : rest[n] = IF n < k THEN q[n] ELSE q[n + 1]
    <3>1. q \in Seq(Task) /\ q[k] = t /\ Len(q) \in Nat /\ k \in Nat
      BY <1>0, <1>1, <2>1
    <3> HIDE DEF p
    <3> QED
      BY <3>1, <1>2, <2>1, WithoutProperties
  <2> QED
    BY <2>2
<1>4. /\ queue' = [queue EXCEPT ![p] = rest]
      /\ WakeHead(t, next)
      /\ record' = record /\ held' = held
  BY DEF Leave
<1>5. next # <<>> => HandsOver(t) /\ next = rest /\ Head(next) \in Task
  BY <1>3, HeadTailProperties
<1>6. /\ pc'[t] \in {"idle", "waking"}
      /\ \A u \in Task \ {t} : pc'[u] = pc[u]
  BY <1>4 DEF WakeHead, Inv, TypeOK
<1>7. QueueInv'
  <2>1. pc'[t] \notin Waiting
    BY <1>6 DEF Waiting
  <2> HIDE DEF rest
  <2> QED
    BY <1>1, <1>3, <1>4, <1>6, <2>1, RemoveFromQueue
<1>8. TypeOK'
  <2>1. queue' \in [Process -> Seq(Task)]
    BY <1>3, <1>4 DEF Inv, TypeOK
  <2>2. /\ pc' \in [Task -> PC] /\ waker' \in [Task -> BOOLEAN]
        /\ wakee' \in [Task -> Task \cup {NoTask}]
    BY <1>4, <1>5, WakeHeadType DEF Inv
  <2> QED
    BY <1>4, <2>1, <2>2 DEF Inv, TypeOK
<1>9. HoldInv'
  BY <1>4, <1>6 DEF Inv, HoldInv
<1>10. WakeInv'
  <2> SUFFICES ASSUME NEW u \in Task, pc'[u] = "parked"
               PROVE  /\ waker'[u] \/ WakePending(u)'
                      /\ MayRequest(u)' => WakePending(u)'
    BY DEF WakeInv
  <2>1. u # t /\ pc[u] = "parked"
    BY <1>6
  <2>2. WakePending(u) => WakePending(u)'
    <3> SUFFICES ASSUME NEW v \in Task, pc[v] = "waking", wakee[v] = u
                 PROVE  pc'[v] = "waking" /\ wakee'[v] = u
      BY DEF WakePending
    <3>1. v # t
      BY DEF Waiting
    <3> QED
      BY <3>1, <2>1, <1>4, <1>6 DEF WakeHead, Disarm, Inv, TypeOK
  <2>3. waker[u] => waker'[u] \/ WakePending(u)'
    BY <2>1, <1>4, <1>5, <1>6 DEF WakeHead, Disarm, WakePending, Inv, TypeOK
  <2>4. waker[u] \/ WakePending(u)
    BY <2>1 DEF Inv, WakeInv
  <2>5. ASSUME MayRequest(u)' PROVE WakePending(u)'
    <3>1. CASE ProcOf[u] # p
      <4>1. MayRequest(u)
        BY <2>5, <3>1, <1>0, <1>4 DEF MayRequest, IsHead, Inv, TypeOK
      <4> QED
        BY <4>1, <2>1, <2>2 DEF Inv, WakeInv
    <3>2. CASE ProcOf[u] = p /\ k # 1
      <4>1. /\ Len(rest) \in Nat \ {0} /\ rest # <<>> /\ Head(rest) = rest[1]
            /\ q # <<>> /\ Head(q) = q[1] /\ rest[1] = q[1]
        <5> HIDE DEF q, rest
        <5>1. k \in 2..Len(q) /\ Len(q) \in Nat \ {0} /\ Len(rest) \in Nat \ {0}
          BY <3>2, <1>0, <1>1, <1>3
        <5>2. rest[1] = q[1]
          BY <5>1, <1>3
        <5>3. rest # <<>> /\ q # <<>>
          BY <5>1, EmptySeq
        <5> QED
          BY <5>1, <5>2, <5>3, <1>0, <1>3
      <4>2. MayRequest(u)
        BY <4>1, <2>5, <3>2, <1>0, <1>4 DEF MayRequest, IsHead, Inv, TypeOK
      <4> QED
        BY <4>2, <2>1, <2>2 DEF Inv, WakeInv
    <3>3. CASE ProcOf[u] = p /\ k = 1
      <4>1. /\ q # <<>> /\ Head(q) = q[1]
        BY <3>3, <1>0, <1>1, EmptySeq
      <4>2. HandsOver(t)
        BY <4>1, <2>5, <3>3, <1>1, <1>4 DEF HandsOver, MayRequest, IsHead
      <4>3. rest # <<>> /\ Head(rest) = u
        BY <2>5, <3>3, <1>0, <1>4 DEF MayRequest, IsHead, Inv, TypeOK
      <4>4. CASE waker[u]
        <5>1. pc'[t] = "waking" /\ wakee'[t] = u
          BY <4>2, <4>3, <4>4, <1>4 DEF WakeHead, Disarm, Inv, TypeOK
        <5> QED
          BY <5>1 DEF WakePending
      <4> QED
        BY <4>4, <2>2, <2>4
    <3> QED
      BY <3>1, <3>2, <3>3
  <2> QED
    BY <2>2, <2>3, <2>4, <2>5
<1>11. WakeeInv'
  <2>1. ASSUME next # <<>> PROVE ProcOf[Head(next)] = p
    <3>1. queue'[p] = rest /\ rest # <<>> /\ next = rest
      BY <2>1, <1>0, <1>4, <1>5 DEF Inv, TypeOK
    <3>2. 1 \in DOMAIN rest /\ Head(rest) = rest[1]
      <4> HIDE DEF rest
      <4> QED
        BY <3>1, <1>3, EmptySeq, LenProperties
    <3> QED
      BY <3>1, <3>2, <1>0, <1>7 DEF QueueInv
  <2> HIDE DEF next
  <2> QED
    BY <2>1, <1>4, <1>5, WakeHeadWakee DEF Inv
<1> QED
  BY <1>7, <1>8, <1>9, <1>10, <1>11 DEF Inv

\* The release of a hold preserves the invariant.
LEMMA ReleaseHoldInv ==
  ASSUME Inv, NEW t \in Task, ReleaseHold(t)
  PROVE  Inv'
PROOF
<1> DEFINE p == ProcOf[t]
           q == queue[p]
<1> USE ProcOfAssumption, NoneAssumption
<1>0. p \in Process /\ q \in Seq(Task)
  BY DEF Inv, TypeOK
<1>1. /\ pc[t] = "releasing" /\ held' = [held EXCEPT ![p] = FALSE]
      /\ WakeHead(t, q) /\ record' = record /\ queue' = queue
  BY DEF ReleaseHold
<1>2. /\ pc'[t] \in {"idle", "waking"}
      /\ \A u \in Task \ {t} : pc'[u] = pc[u]
  BY <1>1 DEF WakeHead, Inv, TypeOK
<1>3. q # <<>> => Head(q) \in Task
  BY <1>0, HeadTailProperties
<1>4. TypeOK'
  <2>1. /\ pc' \in [Task -> PC] /\ waker' \in [Task -> BOOLEAN]
        /\ wakee' \in [Task -> Task \cup {NoTask}]
    BY <1>1, <1>3, WakeHeadType DEF Inv
  <2> QED
    BY <1>1, <2>1 DEF Inv, TypeOK
<1>5. HoldInv'
  <2>1. \A u \in Task \ {t} :
          pc[u] \in {"holding", "releasing"} => ProcOf[u] # p
    BY <1>1 DEF Inv, HoldInv
  <2> QED
    BY <1>1, <1>2, <2>1 DEF Inv, TypeOK, HoldInv
<1>6. QueueInv'
  <2>1. \A r \in Process : \A i \in DOMAIN queue[r] :
          queue[r][i] \in Task /\ queue[r][i] # t
    <3>1. \A r \in Process : \A i \in DOMAIN queue[r] : queue[r][i] \in Task
      BY LenProperties DEF Inv, TypeOK
    <3>2. \A r \in Process : \A i \in DOMAIN queue[r] : pc[queue[r][i]] \in Waiting
      BY DEF Inv, QueueInv
    <3> QED
      BY <1>1, <3>1, <3>2 DEF Waiting
  <2> QED
    BY <1>1, <1>2, <2>1 DEF Inv, QueueInv, Waiting
<1>7. WakeInv'
  <2> SUFFICES ASSUME NEW u \in Task, pc'[u] = "parked"
               PROVE  /\ waker'[u] \/ WakePending(u)'
                      /\ MayRequest(u)' => WakePending(u)'
    BY DEF WakeInv
  <2>1. u # t /\ pc[u] = "parked"
    BY <1>2
  <2>2. WakePending(u) => WakePending(u)'
    <3> SUFFICES ASSUME NEW v \in Task, pc[v] = "waking", wakee[v] = u
                 PROVE  pc'[v] = "waking" /\ wakee'[v] = u
      BY DEF WakePending
    <3>1. v # t
      BY <1>1
    <3> QED
      BY <3>1, <2>1, <1>1, <1>2 DEF WakeHead, Disarm, Inv, TypeOK
  <2>3. waker[u] \/ WakePending(u)
    BY <2>1 DEF Inv, WakeInv
  <2>4. waker[u] => waker'[u] \/ WakePending(u)'
    BY <2>1, <1>1, <1>2, <1>3 DEF WakeHead, Disarm, WakePending, Inv, TypeOK
  <2>5. ASSUME MayRequest(u)' PROVE WakePending(u)'
    <3>1. CASE ProcOf[u] # p
      <4>1. MayRequest(u)
        BY <2>5, <3>1, <1>0, <1>1 DEF MayRequest, IsHead, Inv, TypeOK
      <4> QED
        BY <4>1, <2>1, <2>2 DEF Inv, WakeInv
    <3>2. CASE ProcOf[u] = p /\ waker[u]
      <4>1. q # <<>> /\ Head(q) = u
        BY <2>5, <3>2, <1>1 DEF MayRequest, IsHead
      <4>2. pc'[t] = "waking" /\ wakee'[t] = u
        BY <4>1, <3>2, <1>1 DEF WakeHead, Disarm, Inv, TypeOK
      <4> QED
        BY <4>2 DEF WakePending
    <3> QED
      BY <3>1, <3>2, <2>2, <2>3
  <2> QED
    BY <2>2, <2>3, <2>4, <2>5
<1>8. WakeeInv'
  <2>1. q # <<>> => ProcOf[Head(q)] = p
    BY <1>0, HeadIsFirst DEF Inv, QueueInv
  <2> QED
    BY <2>1, <1>1, <1>3, WakeHeadWakee DEF Inv
<1> QED
  BY <1>4, <1>5, <1>6, <1>7, <1>8 DEF Inv

\* A wake preserves the invariant: the one task that loses its pending wake
\* is no longer parked.
LEMMA WakeKeepsInv ==
  ASSUME Inv, NEW t \in Task, Wake(t)
  PROVE  Inv'
PROOF
<1> USE ProcOfAssumption, NoneAssumption
<1>1. /\ pc[t] = "waking" /\ pc'[t] = "idle"
      /\ \A u \in Task \ {t} :
           \/ pc'[u] = pc[u] /\ (u # wakee[t] \/ pc[u] # "parked")
           \/ pc'[u] = "polling" /\ u = wakee[t] /\ pc[u] = "parked"
      /\ \A u \in Task \ {t} : wakee'[u] = wakee[u]
      /\ record' = record /\ held' = held /\ queue' = queue /\ waker' = waker
  BY DEF Wake, Inv, TypeOK
<1>2. TypeOK'
  BY <1>1 DEF Wake, Inv, TypeOK, PC, Waiting
<1>3. HoldInv'
  BY <1>1 DEF Inv, HoldInv
<1>4. QueueInv'
  <2>1. \A r \in Process : \A i \in DOMAIN queue[r] : queue[r][i] \in Task
    BY LenProperties DEF Inv, TypeOK
  <2>2. \A u \in Task : pc'[u] \in Waiting <=> pc[u] \in Waiting
    BY <1>1 DEF Waiting
  <2> QED
    BY <1>1, <2>1, <2>2 DEF Inv, QueueInv
<1>5. WakeInv'
  <2> SUFFICES ASSUME NEW u \in Task, pc'[u] = "parked"
               PROVE  /\ waker'[u] \/ WakePending(u)'
                      /\ MayRequest(u)' => WakePending(u)'
    BY DEF WakeInv
  <2>1. u # t /\ pc[u] = "parked" /\ u # wakee[t]
    BY <1>1
  <2>2. WakePending(u) => WakePending(u)'
    BY <2>1, <1>1 DEF WakePending
  <2>3. MayRequest(u)' = MayRequest(u)
    BY <1>1 DEF MayRequest, IsHead
  <2> QED
    BY <2>1, <2>2, <2>3, <1>1 DEF Inv, WakeInv
<1>6. WakeeInv'
  BY <1>1 DEF Inv, WakeeInv
<1> QED
  BY <1>2, <1>3, <1>4, <1>5, <1>6 DEF Inv

\* A step that moves one task between two states and changes nothing of the
\* queues or the wakers.
LEMMA LocalStepInv ==
  ASSUME Inv, NEW t \in Task, NEW to \in PC,
         pc' = [pc EXCEPT ![t] = to],
         UNCHANGED <<held, queue, wakee>>,
         \/ /\ pc[t] \in Waiting /\ to \in {"polling", "sleeping"}
            /\ record' = record /\ waker' = waker
         \/ /\ pc[t] \in Waiting /\ to = "parked" /\ ~MayRequest(t)
            /\ record' = record /\ waker' = [waker EXCEPT ![t] = TRUE]
         \/ /\ pc[t] = "holding" /\ to = "releasing"
            /\ record' = NoProcess /\ waker' = waker
  PROVE  Inv'
PROOF
<1> USE ProcOfAssumption, NoneAssumption
<1>1. pc'[t] = to /\ \A u \in Task \ {t} : pc'[u] = pc[u]
  BY DEF Inv, TypeOK
<1>2. TypeOK'
  BY DEF Inv, TypeOK, PC, Waiting
<1>3. HoldInv'
  <2>1. CASE pc[t] \in Waiting
    BY <2>1, <1>1 DEF Inv, HoldInv, Waiting
  <2>2. CASE pc[t] = "holding"
    <3>1. \A u \in Task \ {t} : pc[u] # "holding"
      BY <2>2 DEF Inv, HoldInv
    <3> QED
      BY <2>2, <3>1, <1>1 DEF Inv, HoldInv, Waiting
  <2> QED
    BY <2>1, <2>2
<1>4. QueueInv'
  <2>1. \A r \in Process : \A i \in DOMAIN queue[r] : queue[r][i] \in Task
    BY LenProperties DEF Inv, TypeOK
  <2>2. \A u \in Task : pc'[u] \in Waiting <=> pc[u] \in Waiting
    BY <1>1 DEF Waiting
  <2> QED
    BY <2>1, <2>2 DEF Inv, QueueInv
<1>5. WakeInv'
  <2>1. \A u \in Task : WakePending(u) => WakePending(u)'
    BY <1>1 DEF WakePending, Waiting
  <2>2. \A u \in Task : MayRequest(u)' = MayRequest(u)
    BY DEF MayRequest, IsHead
  <2>3. \A u \in Task \ {t} : waker[u] => waker'[u]
    BY DEF Inv, TypeOK
  <2>4. to = "parked" => waker'[t] /\ ~MayRequest(t)
    BY DEF Inv, TypeOK
  <2> QED
    BY <1>1, <2>1, <2>2, <2>3, <2>4 DEF Inv, WakeInv
<1>6. WakeeInv'
  BY <1>1 DEF Inv, WakeeInv, Waiting
<1> QED
  BY <1>2, <1>3, <1>4, <1>5, <1>6 DEF Inv

\* The end of a process preserves the invariant.
LEMMA ProcessEndsInv ==
  ASSUME Inv, NEW p \in Process, ProcessEnds(p)
  PROVE  Inv'
PROOF
<1> USE ProcOfAssumption, NoneAssumption
<1>1. \A u \in Task :
        /\ ProcOf[u] = p => pc'[u] = "idle"
        /\ ProcOf[u] # p => pc'[u] = pc[u] /\ waker'[u] = waker[u] /\ wakee'[u] = wakee[u]
  BY DEF ProcessEnds, Inv, TypeOK
<1>2. /\ queue'[p] = <<>> /\ ~held'[p]
      /\ \A r \in Process \ {p} : queue'[r] = queue[r] /\ held'[r] = held[r]
  BY DEF ProcessEnds, Inv, TypeOK
<1>3. TypeOK'
  BY EmptySeq DEF ProcessEnds, Inv, TypeOK, PC
<1>4. HoldInv'
  BY <1>1, <1>2 DEF ProcessEnds, Inv, HoldInv
<1>5. QueueInv'
  <2>1. \A r \in Process : \A i \in DOMAIN queue[r] :
          queue[r][i] \in Task /\ ProcOf[queue[r][i]] = r
    BY LenProperties DEF Inv, TypeOK, QueueInv
  <2>2. DOMAIN queue'[p] = {}
    BY <1>2
  <2> QED
    BY <1>1, <1>2, <2>1, <2>2 DEF Inv, QueueInv, Waiting
<1>6. WakeInv'
  <2> SUFFICES ASSUME NEW u \in Task, pc'[u] = "parked"
               PROVE  /\ waker'[u] \/ WakePending(u)'
                      /\ MayRequest(u)' => WakePending(u)'
    BY DEF WakeInv
  <2>1. ProcOf[u] # p /\ pc[u] = "parked" /\ waker'[u] = waker[u]
    BY <1>1
  <2>2. WakePending(u) => WakePending(u)'
    <3> SUFFICES ASSUME NEW v \in Task, pc[v] = "waking", wakee[v] = u
                 PROVE  pc'[v] = "waking" /\ wakee'[v] = u
      BY DEF WakePending
    <3>1. ProcOf[v] = ProcOf[u]
      BY DEF Inv, WakeeInv
    <3> QED
      BY <3>1, <2>1, <1>1
  <2>3. MayRequest(u)' => MayRequest(u)
    BY <2>1, <1>2 DEF MayRequest, IsHead
  <2> QED
    BY <2>1, <2>2, <2>3 DEF Inv, WakeInv
<1>7. WakeeInv'
  BY <1>1 DEF Inv, WakeeInv
<1> QED
  BY <1>3, <1>4, <1>5, <1>6, <1>7 DEF Inv

-----------------------------------------------------------------------------
\* Every step preserves the invariant.
LEMMA NextInv == Inv /\ [Next]_vars => Inv'
PROOF
<1> SUFFICES ASSUME Inv, [Next]_vars PROVE Inv'
  OBVIOUS
<1>1. CASE UNCHANGED vars
  BY <1>1 DEF vars, Inv, TypeOK, HoldInv, QueueInv, WakeInv, WakeeInv,
              WakePending, MayRequest, IsHead
<1>2. ASSUME NEW t \in Task, Enqueue(t) PROVE Inv'
  BY <1>2, EnqueueInv
<1>3. ASSUME NEW t \in Task, PollGranted(t) PROVE Inv'
  BY <1>3, PollGrantedInv
<1>4. ASSUME NEW t \in Task, PollContended(t) PROVE Inv'
  <2>1. pc[t] \in Waiting /\ "sleeping" \in PC
    BY <1>4 DEF PollContended, Waiting, PC
  <2> QED
    BY <1>4, <2>1, LeaveInv, LocalStepInv DEF PollContended
<1>5. ASSUME NEW t \in Task, PollPending(t) PROVE Inv'
  <2>1. pc[t] \in Waiting /\ "parked" \in PC
    BY <1>5 DEF PollPending, Waiting, PC
  <2> QED
    BY <1>5, <2>1, LeaveInv, LocalStepInv DEF PollPending, KeepWaker
<1>6. ASSUME NEW t \in Task, PollError(t) PROVE Inv'
  BY <1>6, LeaveInv DEF PollError, Waiting
<1>7. ASSUME NEW t \in Task, SleepEnds(t) \/ DeadlineFires(t) PROVE Inv'
  <2>1. pc[t] \in Waiting /\ "polling" \in PC
    BY <1>7 DEF SleepEnds, DeadlineFires, Waiting, PC
  <2> QED
    BY <1>7, <2>1, LocalStepInv DEF SleepEnds, DeadlineFires
<1>8. ASSUME NEW t \in Task, Cancel(t) PROVE Inv'
  BY <1>8, LeaveInv DEF Cancel
<1>9. ASSUME NEW t \in Task, Unlock(t) PROVE Inv'
  <2>1. "releasing" \in PC
    BY DEF PC
  <2> QED
    BY <1>9, <2>1, LocalStepInv DEF Unlock
<1>10. ASSUME NEW t \in Task, ReleaseHold(t) PROVE Inv'
  BY <1>10, ReleaseHoldInv
<1>11. ASSUME NEW t \in Task, Wake(t) PROVE Inv'
  BY <1>11, WakeKeepsInv
<1>12. ASSUME NEW p \in Process, ProcessEnds(p) PROVE Inv'
  BY <1>12, ProcessEndsInv
<1> QED
  BY <1>1, <1>2, <1>3, <1>4, <1>5, <1>6, <1>7, <1>8, <1>9, <1>10, <1>11, <1>12
  DEF Next, Poll

\* The invariant holds in every reachable state.
THEOREM Invariance == Spec => []Inv
PROOF
  BY InitInv, NextInv, PTL DEF Spec

\* The state of the update lock has its type in every reachable state.
THEOREM TypeCorrect == Spec => []TypeOK
PROOF
<1>1. Inv => TypeOK
  BY DEF Inv
<1> QED
  BY <1>1, Invariance, PTL

\* Two guards of the update lock never live at once with their record locks,
\* in one process (poll_turn, held) or in two (the kernel).
THEOREM Exclusion == Spec => []MutualExclusion
PROOF
<1>1. Inv => MutualExclusion
  BY DEF Inv, HoldInv, MutualExclusion
<1> QED
  BY <1>1, Invariance, PTL

\* A free lock with waiters in a process always has a head that runs, sleeps
\* in its retry loop, or is about to be woken.
THEOREM WakeupSafety == Spec => []NoLostWakeup
PROOF
<1>1. ASSUME Inv PROVE NoLostWakeup
  <2> SUFFICES ASSUME NEW p \in Process, queue[p] # <<>>, ~held[p],
                      NEW h, h = Head(queue[p])
               PROVE  \/ pc[h] \in {"polling", "sleeping"}
                      \/ \E t \in Task : pc[t] = "waking" /\ wakee[t] = h
    BY DEF NoLostWakeup
  <2>1. h \in Task /\ ProcOf[h] = p /\ pc[h] \in Waiting
    BY <1>1, HeadIsFirst DEF Inv, QueueInv
  <2>2. MayRequest(h)
    BY <2>1 DEF MayRequest, IsHead
  <2> QED
    BY <1>1, <2>1, <2>2 DEF Inv, WakeInv, WakePending, Waiting
<1> QED
  BY <1>1, Invariance, PTL

=============================================================================
