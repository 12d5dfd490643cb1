-------------------------- MODULE SchedulerProofs ---------------------------
(***************************************************************************)
(* Proofs about Scheduler for every set of tasks and every choice of       *)
(* operations, bounds and growing containers: the safety invariants its    *)
(* runs check.                                                             *)
(***************************************************************************)
EXTENDS Scheduler, FiniteSetTheorems, SequenceTheorems, TLAPS

\* Steps are proved by SMT unless they name another prover.
USE SMTT(30)

Spawning(t) == t \in Workers /\ pc[t] \in {"push", "tls_add", "insert"}
RMLabels == {"yield", "scan", "reap", "remove", "removing", "free", "snap", "collect",
             "requeue", "reserve"}

\* Who is at a label where a lock that stops switches is owned owns it, and
\* only the running task is at such a label.
LockInv ==
    /\ \A t \in Tasks : t \in qlock <=> pc[t] \in {"push", "reserve"}
    /\ \A t \in Tasks : t \in lutW <=> pc[t] \in {"insert", "removing"}
    /\ qlock \cup lutW \subseteq {current}
    /\ \A t \in Tasks : pc[t] # "panic"
    /\ pc[RM] \in RMLabels

\* The running task and the manager are in the table; the manager is never
\* blocked, hence never woken, and once killed it does not run again and so does
\* not reap itself; while it lives, a running task that is not Ready is on its
\* way to a yield.
LiveInv ==
    /\ current \in lut /\ RM \in lut
    /\ state[RM] \in {"Ready", "Zombie"}
    /\ current = RM => state[RM] = "Ready"
    /\ \A i \in 1..Len(zombies) : zombies[i] = RM => state[RM] = "Zombie"
    /\ pc[RM] \in {"remove", "removing", "free"} => arg[RM] # RM
    /\ \A t \in Tasks : pc[t] \in {"update", "zpush"} /\ arg[t] = RM => state[RM] = "Zombie"
    /\ \A t \in Tasks : pc[t] = "wake" => arg[t] # RM
    /\ state[RM] = "Ready" /\ state[current] # "Ready" =>
           \/ pc[current] = "yield"
           \/ pc[current] \in {"update", "zpush", "exit"} /\ arg[current] = current

\* A task goes from fresh to a spawner to the table to the manager that frees
\* it, and is in one of these places only.
OwnerInv ==
    /\ lut \cap fresh = {}
    /\ \A t \in Tasks : Spawning(t) => arg[t] \notin lut \cup fresh
    /\ \A t, u \in Tasks : Spawning(t) /\ Spawning(u) /\ arg[t] = arg[u] => t = u
    /\ \A t \in Tasks : freed[t] # 0 =>
           /\ freed[t] = 1 /\ t \notin lut \cup fresh
           /\ \A u \in Tasks : Spawning(u) => arg[u] # t
    /\ pc[RM] = "free" =>
           /\ arg[RM] \notin lut \cup fresh /\ freed[arg[RM]] = 0
           /\ \A u \in Tasks : Spawning(u) => arg[u] # arg[RM]

\* The run queue lists no task twice and none that is not yet spawned, and
\* a living manager survives every rebuild of it.
QueueInv ==
    /\ \A i, j \in 1..Len(queue) : i # j => queue[i] # queue[j]
    /\ state[RM] = "Ready" => \E i \in 1..Len(queue) : queue[i] = RM
    /\ \A i \in 1..Len(queue) : queue[i] \notin fresh
    /\ \A t \in Tasks : pc[t] = "push" => \A i \in 1..Len(queue) : queue[i] # arg[t]
    /\ pc[RM] \in {"requeue", "reserve"} => RM \in snap /\ snap \subseteq lut

IInv == TypeOK /\ LockInv /\ LiveInv /\ OwnerInv /\ QueueInv

-----------------------------------------------------------------------------
(* Facts about the helpers.                                                *)

\* An iteration over a set of tasks lists each of them exactly once.
LEMMA OrdersProperties ==
    ASSUME NEW S \in SUBSET Tasks, NEW q \in Orders(S)
    PROVE  /\ q \in Seq(S) /\ q \in Seq(Tasks)
           /\ \A i \in 1..Len(q) : q[i] \in S
           /\ \A i, j \in 1..Len(q) : i # j => q[i] # q[j]
           /\ \A x \in S : \E i \in 1..Len(q) : q[i] = x
  <1>1. Cardinality(S) \in Nat
    BY SchedAssumption, FS_Subset, FS_CardinalityType, Zenon
  <1>2. q \in [1..Cardinality(S) -> S]
    BY Zenon DEF Orders, Bijection, Injection
  <1>3. q \in Seq(S) /\ Len(q) = Cardinality(S)
    BY <1>1, <1>2
  <1>4. q \in Seq(Tasks)
    BY <1>3, SeqMonotonic, Zenon
  <1>5. \A i, j \in 1..Cardinality(S) : q[i] = q[j] => i = j
    BY <1>2, Zenon DEF Orders, Bijection, Injection, IsInjective
  <1>6. \A x \in S : \E i \in 1..Cardinality(S) : q[i] = x
    BY Zenon DEF Orders, Bijection, Surjection
  <1>. QED  BY <1>2, <1>3, <1>4, <1>5, <1>6, Zenon

\* The picked task moves to the back; what is queued was queued.
LEMMA SwitchedProperties ==
    ASSUME queue \in Seq(Tasks), NEW i \in 1..Len(queue)
    PROVE  /\ Switched(i) \in Seq(Tasks)
           /\ Len(Switched(i)) = Len(queue) - i + 1
           /\ \A k \in 1..(Len(queue) - i) : Switched(i)[k] = queue[i + k]
           /\ Switched(i)[Len(queue) - i + 1] = queue[i]
  <1>. DEFINE rest == SubSeq(queue, i + 1, Len(queue))
  <1>1. Len(queue) \in Nat /\ i \in Nat /\ queue[i] \in Tasks
    BY LenProperties, ElementOfSeq
  <1>2. \A k \in (i + 1)..Len(queue) : queue[k] \in Tasks
    BY <1>1, ElementOfSeq
  <1>3. /\ rest \in Seq(Tasks)
        /\ Len(rest) = Len(queue) - i
        /\ \A k \in 1..(Len(queue) - i) : rest[k] = queue[i + k]
    <2>1. i + 1 \in Int /\ Len(queue) \in Int
      BY <1>1
    <2>2. /\ rest \in Seq(Tasks)
          /\ Len(rest) = IF i + 1 <= Len(queue) THEN Len(queue) - (i + 1) + 1 ELSE 0
          /\ \A k \in 1..(Len(queue) - (i + 1) + 1) : rest[k] = queue[(i + 1) + k - 1]
      BY <1>2, <2>1, SubSeqProperties
    <2>. QED  BY <1>1, <2>2
  <1>. HIDE DEF rest
  <1>4. /\ Append(rest, queue[i]) \in Seq(Tasks)
        /\ Len(Append(rest, queue[i])) = Len(rest) + 1
        /\ \A k \in 1..Len(rest) : Append(rest, queue[i])[k] = rest[k]
        /\ Append(rest, queue[i])[Len(rest) + 1] = queue[i]
    <2>1. rest \in Seq(Tasks) /\ queue[i] \in Tasks
      BY <1>1, <1>3, Zenon
    <2>. QED  BY <2>1
  <1>5. /\ Len(rest) + 1 = Len(queue) - i + 1
        /\ \A k \in 1..(Len(queue) - i) : k \in 1..Len(rest)
    BY <1>1, <1>3, Zenon
  <1>6. Switched(i) = Append(rest, queue[i])
    BY Zenon DEF Switched, rest
  <1>. QED  BY <1>3, <1>4, <1>5, <1>6, Zenon

\* What a context switch does to the processor and the run queue: nothing
\* while a lock is in its way, and otherwise a Ready task of the table runs,
\* unless the manager is dead and nobody is left to run.
LEMMA SwitchProperties ==
    ASSUME TypeOK, LiveInv, QueueInv, context_switch_local
    PROVE  /\ current' \in Tasks /\ queue' \in Seq(Tasks)
           /\ \/ UNCHANGED <<current, queue>> /\ qlock \cup lutW # {}
              \/ /\ qlock = {} /\ lutW = {}
                 /\ current' \in lut /\ state[current'] = "Ready"
              \/ /\ qlock = {} /\ lutW = {}
                 /\ UNCHANGED current /\ queue' = <<>> /\ state[RM] # "Ready"
           /\ \A i, j \in 1..Len(queue') : i # j => queue'[i] # queue'[j]
           /\ state[RM] = "Ready" => \E i \in 1..Len(queue') : queue'[i] = RM
           /\ \A i \in 1..Len(queue') : \E j \in 1..Len(queue) : queue'[i] = queue[j]
  <1>1. CASE ~(lutW = {} /\ current \in lut /\ qlock = {})
    BY <1>1, Zenon DEF context_switch_local, TypeOK, LiveInv, QueueInv
  <1>2. CASE /\ lutW = {} /\ current \in lut /\ qlock = {}
             /\ ~(\E i \in 1..Len(queue) : Runnable(queue[i]))
    <2>1. queue' = <<>> /\ UNCHANGED current
      BY <1>2, Zenon DEF context_switch_local, switch
    <2>2. state[RM] # "Ready"
      BY <1>2, Zenon DEF Runnable, LiveInv, QueueInv
    <2>3. queue' \in Seq(Tasks) /\ Len(queue') = 0
      BY <2>1
    <2>. QED  BY <1>2, <2>1, <2>2, <2>3 DEF TypeOK
  <1>3. CASE /\ lutW = {} /\ current \in lut /\ qlock = {}
             /\ \E i \in 1..Len(queue) : Runnable(queue[i])
    <2>3. PICK i \in 1..Len(queue) :
              /\ Runnable(queue[i]) /\ \A j \in 1..(i - 1) : ~Runnable(queue[j])
              /\ current' = queue[i] /\ queue' = Switched(i)
      BY <1>3, Zenon DEF context_switch_local, switch
    <2>4. queue \in Seq(Tasks) /\ Len(queue) \in Nat
      BY DEF TypeOK
    <2>5. /\ queue' \in Seq(Tasks)
          /\ Len(queue') = Len(queue) - i + 1
          /\ \A k \in 1..(Len(queue) - i) : queue'[k] = queue[i + k]
          /\ queue'[Len(queue) - i + 1] = queue[i]
      BY <2>3, <2>4, SwitchedProperties, Zenon
    <2>6. ASSUME NEW k \in 1..Len(queue')
          PROVE  \/ k = Len(queue) - i + 1 /\ queue'[k] = queue[i]
                 \/ k \in 1..(Len(queue) - i) /\ queue'[k] = queue[i + k]
      <3>1. Len(queue') = Len(queue) - i + 1 /\ Len(queue) \in Nat /\ i \in Nat
        BY <2>4, <2>5
      <3>2. k = Len(queue) - i + 1 \/ k \in 1..(Len(queue) - i)
        BY <3>1
      <3>. QED  BY <2>5, <3>2, Zenon
    <2>7. current' \in lut /\ state[current'] = "Ready" /\ current' \in Tasks
      BY <2>3, Zenon DEF Runnable, TypeOK
    <2>8. ASSUME NEW k \in 1..Len(queue'), NEW l \in 1..Len(queue'), k # l
          PROVE  queue'[k] # queue'[l]
      <3>1. \A m, n \in 1..Len(queue) : m # n => queue[m] # queue[n]
        BY Zenon DEF QueueInv
      <3>2. PICK m \in 1..Len(queue) :
                /\ queue'[k] = queue[m]
                /\ (k = Len(queue) - i + 1 /\ m = i) \/ (k \in 1..(Len(queue) - i) /\ m = i + k)
        BY <2>4, <2>6
      <3>3. PICK n \in 1..Len(queue) :
                /\ queue'[l] = queue[n]
                /\ (l = Len(queue) - i + 1 /\ n = i) \/ (l \in 1..(Len(queue) - i) /\ n = i + l)
        BY <2>4, <2>6
      <3>4. m # n
        BY <2>4, <2>8, <3>2, <3>3
      <3>. QED  BY <3>1, <3>2, <3>3, <3>4, Zenon
    <2>9. \A k \in 1..Len(queue') : \E j \in 1..Len(queue) : queue'[k] = queue[j]
      BY <2>4, <2>5, <2>6
    <2>10. ASSUME state[RM] = "Ready" PROVE \E k \in 1..Len(queue') : queue'[k] = RM
      <3>0. PICK r \in 1..Len(queue) : queue[r] = RM
        BY <2>10, Zenon DEF QueueInv
      <3>1. i <= r
        <4>1. Runnable(queue[r])
          BY <2>10, <3>0, Zenon DEF Runnable, LiveInv
        <4>. QED  BY <2>3, <2>4, <4>1
      <3>2. CASE i = r
        BY <2>4, <2>5, <3>0, <3>2
      <3>3. CASE i < r
        <4>1. r - i \in 1..(Len(queue) - i) /\ i + (r - i) = r
          BY <2>4, <3>3
        <4>2. queue'[r - i] = RM
          BY <2>5, <3>0, <4>1, Zenon
        <4>. QED  BY <2>4, <2>5, <4>1, <4>2
      <3>. QED  BY <2>4, <3>1, <3>2, <3>3
    <2>. QED  BY <1>3, <2>5, <2>7, <2>8, <2>9, <2>10, Zenon
  <1>. QED  BY <1>1, <1>2, <1>3, Zenon
-----------------------------------------------------------------------------
(* Preservation of the inductive invariant.                                *)

\* What appending puts in a sequence of tasks.
LEMMA AppendElements ==
    ASSUME NEW s \in Seq(Tasks), NEW e \in Tasks
    PROVE  /\ Append(s, e) \in Seq(Tasks)
           /\ \A i \in 1..Len(Append(s, e)) :
                  Append(s, e)[i] = e \/ \E j \in 1..Len(s) : Append(s, e)[i] = s[j]
  OBVIOUS

\* A dead manager may be listed; a living one is not.
LEMMA ZombieAppend ==
    ASSUME zombies \in Seq(Tasks), NEW e \in Tasks, zombies' = Append(zombies, e),
           \A i \in 1..Len(zombies) : zombies[i] = RM => state[RM] = "Zombie",
           e = RM => state[RM] = "Zombie"
    PROVE  \A i \in 1..Len(zombies') : zombies'[i] = RM => state[RM] = "Zombie"
  BY AppendElements

\* What concatenation puts in a sequence of tasks.
LEMMA ConcatElements ==
    ASSUME NEW s \in Seq(Tasks), NEW q \in Seq(Tasks)
    PROVE  /\ s \o q \in Seq(Tasks)
           /\ \A i \in 1..Len(s \o q) :
                  \/ \E j \in 1..Len(s) : (s \o q)[i] = s[j]
                  \/ \E j \in 1..Len(q) : (s \o q)[i] = q[j]
  <1>. SUFFICES ASSUME NEW i \in 1..Len(s \o q)
                PROVE  \/ \E j \in 1..Len(s) : (s \o q)[i] = s[j]
                       \/ \E j \in 1..Len(q) : (s \o q)[i] = q[j]
    BY ConcatProperties, Zenon
  <1>1. CASE i <= Len(s)
    BY <1>1
  <1>2. CASE i > Len(s)
    <2>1. i - Len(s) \in 1..Len(q) /\ (s \o q)[i] = q[i - Len(s)]
      BY <1>2, SMTT(30)
    <2>. QED  BY <2>1, Zenon
  <1>. QED  BY <1>1, <1>2

\* Every step keeps the types.
LEMMA NextTypeOK ==
    ASSUME IInv, Next PROVE TypeOK'
  <1>. USE SchedAssumption DEF IInv, TypeOK, At, Goto, Return, May, Workers, locks, manager, States, Labels
  <1>1. CASE Timer
    BY <1>1, SwitchProperties, Zenon DEF Timer
  <1>2. ASSUME NEW t \in Workers, Alloc(t) PROVE TypeOK'
    BY <1>2, Zenon DEF Alloc
  <1>3. ASSUME NEW t \in Workers, AllocDone(t) PROVE TypeOK'
    BY <1>3, Zenon DEF AllocDone
  <1>4. ASSUME NEW t \in Workers, Lookup(t) PROVE TypeOK'
    BY <1>4, Zenon DEF Lookup
  <1>5. ASSUME NEW t \in Workers, LookupDone(t) PROVE TypeOK'
    BY <1>5, Zenon DEF LookupDone
  <1>6. ASSUME NEW t \in Workers, NEW n \in Tasks, Spawn(t, n) PROVE TypeOK'
    BY <1>6, ZenonT(40) DEF Spawn, QueueLock
  <1>7. ASSUME NEW t \in Workers, SpawnPush(t) PROVE TypeOK'
    <2>1. queue' \in Seq(Tasks)
      BY <1>7 DEF SpawnPush
    <2>. QED  BY <1>7, <2>1, Zenon DEF SpawnPush
  <1>8. ASSUME NEW t \in Workers, SpawnLut(t) PROVE TypeOK'
    BY <1>8, Zenon DEF SpawnLut, LutWrite
  <1>9. ASSUME NEW t \in Workers, SpawnInsert(t) PROVE TypeOK'
    BY <1>9, Zenon DEF SpawnInsert
  <1>10. ASSUME NEW t \in Workers, Block(t) PROVE TypeOK'
    BY <1>10, Zenon DEF Block
  <1>11. ASSUME NEW t \in Workers, Yield(t) PROVE TypeOK'
    BY <1>11, SwitchProperties, Zenon DEF Yield
  <1>12. ASSUME NEW t \in Workers, NEW v \in Tasks, Wake(t, v) PROVE TypeOK'
    BY <1>12, Zenon DEF Wake
  <1>13. ASSUME NEW t \in Workers, WakeSet(t) PROVE TypeOK'
    BY <1>13, Zenon DEF WakeSet
  <1>14. ASSUME NEW t \in Workers, NEW v \in Tasks, Kill(t, v) PROVE TypeOK'
    BY <1>14, Zenon DEF Kill
  <1>15. ASSUME NEW t \in Workers, KillLock(t) PROVE TypeOK'
    BY <1>15, Zenon DEF KillLock
  <1>16. ASSUME NEW t \in Workers, KillPush(t) PROVE TypeOK'
    <2>1. zombies' \in Seq(Tasks)
      BY <1>16, AppendElements, Zenon DEF KillPush
    <2>. QED  BY <1>16, <2>1, Zenon DEF KillPush
  <1>17. ASSUME NEW t \in Workers, ExitYield(t) PROVE TypeOK'
    BY <1>17, SwitchProperties, Zenon DEF ExitYield
  <1>18. CASE RMYield
    <2>1. current' \in Tasks /\ queue' \in Seq(Tasks)
      BY <1>18, SwitchProperties, Zenon DEF RMYield
    <2>2. yields' \in Nat
      BY <1>18 DEF RMYield
    <2>. QED  BY <1>18, <2>1, <2>2, Zenon DEF RMYield
  <1>19. CASE RMCleanup
    BY <1>19, Zenon DEF RMCleanup
  <1>20. CASE RMScan
    <2>. DEFINE dead == {t \in lut : state[t] = "Zombie"}
    <2>1. PICK q \in Orders(dead) : zombies' = zombies \o q
      BY <1>20, Zenon DEF RMScan
    <2>2. q \in Seq(Tasks)
      BY <2>1, OrdersProperties, Zenon
    <2>3. zombies' \in Seq(Tasks)
      BY <2>1, <2>2
    <2>. QED  BY <1>20, <2>3, Zenon DEF RMScan
  <1>21. CASE RMPop
    <2>1. Head(zombies) \in Tasks /\ Tail(zombies) \in Seq(Tasks)
      BY <1>21, HeadTailProperties, Zenon DEF RMPop
    <2>. QED  BY <1>21, <2>1, Zenon DEF RMPop
  <1>22. CASE RMPopNone
    BY <1>22, Zenon DEF RMPopNone
  <1>23. CASE RMLut
    BY <1>23, Zenon DEF RMLut, LutWrite
  <1>24. CASE RMRemove
    BY <1>24, Zenon DEF RMRemove
  <1>25. CASE RMFree
    BY <1>25 DEF RMFree
  <1>26. CASE RMTable
    BY <1>26, Zenon DEF RMTable
  <1>27. CASE RMSnapshot
    BY <1>27, Zenon DEF RMSnapshot
  <1>28. CASE RMQueueLock
    <2>1. /\ \/ qlock' = {RM} /\ pc' = [pc EXCEPT ![RM] = "reserve"]
             \/ qlock' = qlock /\ pc' = [pc EXCEPT ![RM] = "panic"]
          /\ UNCHANGED <<current, queue, lut, zombies, state, arg, fresh, lutR, lutW, zlock, heap,
                         snap, yields, freed>>
      BY <1>28, ZenonT(40) DEF RMQueueLock, QueueLock
    <2>2. qlock' \subseteq Tasks
      BY <2>1
    <2>3. pc' \in [Tasks -> Labels]
      BY <2>1, Zenon DEF Labels
    <2>. QED  BY <2>1, <2>2, <2>3, ZenonT(40)
  <1>29. CASE RMRequeue
    <2>1. PICK q \in Orders(snap) : queue' = q
      BY <1>29, Zenon DEF RMRequeue
    <2>2. queue' \in Seq(Tasks)
      BY <2>1, OrdersProperties, Zenon
    <2>. QED  BY <1>29, <2>2 DEF RMRequeue
  <1>. QED
    BY <1>1, <1>2, <1>3, <1>4, <1>5, <1>6, <1>7, <1>8, <1>9, <1>10, <1>11, <1>12, <1>13, <1>14,
       <1>15, <1>16, <1>17, <1>18, <1>19, <1>20, <1>21, <1>22, <1>23, <1>24, <1>25, <1>26, <1>27, <1>28, <1>29, ZenonT(40)
       DEF Next, WorkerStep, RMStep

\* Every step keeps the owners of the locks and the labels together.
LEMMA NextLockInv ==
    ASSUME IInv, Next PROVE LockInv'
  <1>. USE SchedAssumption DEF IInv, TypeOK, At, Goto, Return, May, Workers, locks, manager, LockInv, RMLabels
  <1>1. CASE Timer
    BY <1>1, SwitchProperties, Zenon DEF Timer
  <1>2. ASSUME NEW t \in Workers, Alloc(t) PROVE LockInv'
    BY <1>2, Zenon DEF Alloc
  <1>3. ASSUME NEW t \in Workers, AllocDone(t) PROVE LockInv'
    BY <1>3, Zenon DEF AllocDone
  <1>4. ASSUME NEW t \in Workers, Lookup(t) PROVE LockInv'
    BY <1>4, Zenon DEF Lookup
  <1>5. ASSUME NEW t \in Workers, LookupDone(t) PROVE LockInv'
    BY <1>5, Zenon DEF LookupDone
  <1>6. ASSUME NEW t \in Workers, NEW n \in Tasks, Spawn(t, n) PROVE LockInv'
    BY <1>6, ZenonT(40) DEF Spawn, QueueLock
  <1>7. ASSUME NEW t \in Workers, SpawnPush(t) PROVE LockInv'
    BY <1>7, Zenon DEF SpawnPush
  <1>8. ASSUME NEW t \in Workers, SpawnLut(t) PROVE LockInv'
    BY <1>8, Zenon DEF SpawnLut, LutWrite
  <1>9. ASSUME NEW t \in Workers, SpawnInsert(t) PROVE LockInv'
    BY <1>9, Zenon DEF SpawnInsert
  <1>10. ASSUME NEW t \in Workers, Block(t) PROVE LockInv'
    BY <1>10, Zenon DEF Block
  <1>11. ASSUME NEW t \in Workers, Yield(t) PROVE LockInv'
    BY <1>11, SwitchProperties, ZenonT(40) DEF Yield
  <1>12. ASSUME NEW t \in Workers, NEW v \in Tasks, Wake(t, v) PROVE LockInv'
    BY <1>12, Zenon DEF Wake
  <1>13. ASSUME NEW t \in Workers, WakeSet(t) PROVE LockInv'
    BY <1>13, Zenon DEF WakeSet
  <1>14. ASSUME NEW t \in Workers, NEW v \in Tasks, Kill(t, v) PROVE LockInv'
    BY <1>14, Zenon DEF Kill
  <1>15. ASSUME NEW t \in Workers, KillLock(t) PROVE LockInv'
    BY <1>15, Zenon DEF KillLock
  <1>16. ASSUME NEW t \in Workers, KillPush(t) PROVE LockInv'
    BY <1>16, Zenon DEF KillPush
  <1>17. ASSUME NEW t \in Workers, ExitYield(t) PROVE LockInv'
    <2>1. qlock = {} /\ lutW = {}
      BY <1>17, Zenon DEF ExitYield
    <2>2. /\ pc' = [pc EXCEPT ![t] = "unreachable"]
          /\ UNCHANGED <<qlock, lutW>>
      BY <1>17, Zenon DEF ExitYield
    <2>. QED  BY <2>1, <2>2, Zenon
  <1>18. CASE RMYield
    BY <1>18, SwitchProperties, SMTT(30) DEF RMYield
  <1>19. CASE RMCleanup
    BY <1>19, Zenon DEF RMCleanup
  <1>20. CASE RMScan
    BY <1>20, Zenon DEF RMScan
  <1>21. CASE RMPop
    BY <1>21, Zenon DEF RMPop
  <1>22. CASE RMPopNone
    BY <1>22, Zenon DEF RMPopNone
  <1>23. CASE RMLut
    BY <1>23, Zenon DEF RMLut, LutWrite
  <1>24. CASE RMRemove
    BY <1>24, Zenon DEF RMRemove
  <1>25. CASE RMFree
    BY <1>25, Zenon DEF RMFree
  <1>26. CASE RMTable
    BY <1>26, Zenon DEF RMTable
  <1>27. CASE RMSnapshot
    BY <1>27, Zenon DEF RMSnapshot
  <1>28. CASE RMQueueLock
    BY <1>28, ZenonT(40) DEF RMQueueLock, QueueLock
  <1>29. CASE RMRequeue
    BY <1>29, Zenon DEF RMRequeue
  <1>. QED
    BY <1>1, <1>2, <1>3, <1>4, <1>5, <1>6, <1>7, <1>8, <1>9, <1>10, <1>11, <1>12, <1>13, <1>14,
       <1>15, <1>16, <1>17, <1>18, <1>19, <1>20, <1>21, <1>22, <1>23, <1>24, <1>25, <1>26, <1>27, <1>28, <1>29, ZenonT(40)
       DEF Next, WorkerStep, RMStep

\* Every step keeps the running task and the manager in the table, and a dead
\* manager off the processor.
LEMMA NextLiveInv ==
    ASSUME IInv, Next PROVE LiveInv'
  <1>. USE SchedAssumption DEF IInv, TypeOK, At, Goto, Return, May, Workers, locks, manager, LockInv, RMLabels, LiveInv
  <1>1. CASE Timer
    BY <1>1, SwitchProperties, SMTT(30) DEF Timer
  <1>2. ASSUME NEW t \in Workers, Alloc(t) PROVE LiveInv'
    BY <1>2, Zenon DEF Alloc
  <1>3. ASSUME NEW t \in Workers, AllocDone(t) PROVE LiveInv'
    BY <1>3, Zenon DEF AllocDone
  <1>4. ASSUME NEW t \in Workers, Lookup(t) PROVE LiveInv'
    BY <1>4, Zenon DEF Lookup
  <1>5. ASSUME NEW t \in Workers, LookupDone(t) PROVE LiveInv'
    BY <1>5, Zenon DEF LookupDone
  <1>6. ASSUME NEW t \in Workers, NEW n \in Tasks, Spawn(t, n) PROVE LiveInv'
    BY <1>6 DEF Spawn, QueueLock
  <1>7. ASSUME NEW t \in Workers, SpawnPush(t) PROVE LiveInv'
    BY <1>7, Zenon DEF SpawnPush
  <1>8. ASSUME NEW t \in Workers, SpawnLut(t) PROVE LiveInv'
    BY <1>8, Zenon DEF SpawnLut, LutWrite
  <1>9. ASSUME NEW t \in Workers, SpawnInsert(t) PROVE LiveInv'
    BY <1>9, Zenon DEF SpawnInsert
  <1>10. ASSUME NEW t \in Workers, Block(t) PROVE LiveInv'
    BY <1>10, Zenon DEF Block
  <1>11. ASSUME NEW t \in Workers, Yield(t) PROVE LiveInv'
    <2>1. qlock = {} /\ lutW = {}
      BY <1>11, Zenon DEF Yield
    <2>2. \/ current' \in lut /\ state[current'] = "Ready"
          \/ UNCHANGED current /\ state[RM] # "Ready"
      BY <1>11, <2>1, SwitchProperties, Zenon DEF Yield
    <2>. QED  BY <1>11, <2>2 DEF Yield
  <1>12. ASSUME NEW t \in Workers, NEW v \in Tasks, Wake(t, v) PROVE LiveInv'
    BY <1>12, Zenon DEF Wake
  <1>13. ASSUME NEW t \in Workers, WakeSet(t) PROVE LiveInv'
    BY <1>13, Zenon DEF WakeSet
  <1>14. ASSUME NEW t \in Workers, NEW v \in Tasks, Kill(t, v) PROVE LiveInv'
    BY <1>14, Zenon DEF Kill
  <1>15. ASSUME NEW t \in Workers, KillLock(t) PROVE LiveInv'
    BY <1>15, SMTT(30) DEF KillLock
  <1>16. ASSUME NEW t \in Workers, KillPush(t) PROVE LiveInv'
    <2>1. zombies' = Append(zombies, arg[t]) /\ arg[t] \in Tasks /\ current = t
      BY <1>16, Zenon DEF KillPush
    <2>2. arg[t] = RM => state[RM] = "Zombie"
      BY <1>16, Zenon DEF KillPush
    <2>3. \A i \in 1..Len(zombies') : zombies'[i] = RM => state[RM] = "Zombie"
      <3>1. zombies \in Seq(Tasks)
        BY Zenon
      <3>2. \A i \in 1..Len(zombies) : zombies[i] = RM => state[RM] = "Zombie"
        BY Zenon
      <3>. HIDE DEF IInv, TypeOK, LockInv, LiveInv
      <3>. QED  BY <2>1, <2>2, <3>1, <3>2, ZombieAppend, SMTT(30)
    <2>. QED  BY <1>16, <2>3, ZenonT(40) DEF KillPush
  <1>17. ASSUME NEW t \in Workers, ExitYield(t) PROVE LiveInv'
    <2>1. qlock = {} /\ lutW = {}
      BY <1>17, Zenon DEF ExitYield
    <2>2. \/ current' \in lut /\ state[current'] = "Ready"
          \/ UNCHANGED current /\ state[RM] # "Ready"
      BY <1>17, <2>1, SwitchProperties, Zenon DEF ExitYield
    <2>. QED  BY <1>17, <2>2, Zenon DEF ExitYield
  <1>18. CASE RMYield
    BY <1>18, SwitchProperties, Zenon DEF RMYield
  <1>19. CASE RMCleanup
    BY <1>19, SMTT(30) DEF RMCleanup
  <1>20. CASE RMScan
    <2>. DEFINE dead == {t \in lut : state[t] = "Zombie"}
    <2>1. PICK q \in Orders(dead) : zombies' = zombies \o q
      BY <1>20, Zenon DEF RMScan
    <2>2. dead \in SUBSET Tasks /\ RM \notin dead
      BY <1>20, Zenon DEF RMScan
    <2>. HIDE DEF dead
    <2>3. q \in Seq(Tasks) /\ \A i \in 1..Len(q) : q[i] \in dead
      BY <2>2, OrdersProperties, Zenon
    <2>4. \A i \in 1..Len(zombies') : zombies'[i] = RM => state[RM] = "Zombie"
      <3>1. zombies \in Seq(Tasks)
        BY Zenon
      <3>2. \A i \in 1..Len(zombies) : zombies[i] = RM => state[RM] = "Zombie"
        BY Zenon
      <3>. HIDE DEF IInv, TypeOK, LockInv, LiveInv
      <3>. QED  BY <2>1, <2>2, <2>3, <3>1, <3>2, ConcatElements, SMTT(30)
    <2>. QED  BY <1>20, <2>4, ZenonT(40) DEF RMScan
  <1>21. CASE RMPop
    BY <1>21, SMTT(40) DEF RMPop
  <1>22. CASE RMPopNone
    BY <1>22, ZenonT(40) DEF RMPopNone
  <1>23. CASE RMLut
    BY <1>23, Zenon DEF RMLut, LutWrite
  <1>24. CASE RMRemove
    BY <1>24, Zenon DEF RMRemove
  <1>25. CASE RMFree
    BY <1>25, Zenon DEF RMFree
  <1>26. CASE RMTable
    BY <1>26, Zenon DEF RMTable
  <1>27. CASE RMSnapshot
    BY <1>27, ZenonT(40) DEF RMSnapshot
  <1>28. CASE RMQueueLock
    BY <1>28 DEF RMQueueLock, QueueLock
  <1>29. CASE RMRequeue
    BY <1>29, SMTT(30) DEF RMRequeue
  <1>. QED
    BY <1>1, <1>2, <1>3, <1>4, <1>5, <1>6, <1>7, <1>8, <1>9, <1>10, <1>11, <1>12, <1>13, <1>14,
       <1>15, <1>16, <1>17, <1>18, <1>19, <1>20, <1>21, <1>22, <1>23, <1>24, <1>25, <1>26, <1>27, <1>28, <1>29, ZenonT(40)
       DEF Next, WorkerStep, RMStep

\* The steps of a worker that spawn nothing and do not yield.
QuietWorker(t) ==
    \/ Alloc(t) \/ AllocDone(t) \/ Lookup(t) \/ LookupDone(t) \/ Block(t)
    \/ \E v \in Tasks : Wake(t, v) \/ Kill(t, v)
    \/ WakeSet(t) \/ KillLock(t) \/ KillPush(t)

\* The steps of the manager that change neither the table nor the run queue.
QuietManager ==
    RMCleanup \/ RMScan \/ RMPop \/ RMPopNone \/ RMLut \/ RMTable \/ RMQueueLock

\* What a quiet worker leaves alone.
LEMMA QuietWorkerFrame ==
    ASSUME TypeOK, NEW t \in Workers, QuietWorker(t)
    PROVE  /\ UNCHANGED <<queue, lut, fresh, snap, freed>>
           /\ pc'[t] \notin {"push", "tls_add", "insert"}
           /\ \A u \in Tasks \ {t} : pc'[u] = pc[u] /\ arg'[u] = arg[u]
  <1>. DEFINE G == /\ UNCHANGED <<queue, lut, fresh, snap, freed>>
                   /\ pc'[t] \notin {"push", "tls_add", "insert"}
                   /\ \A u \in Tasks \ {t} : pc'[u] = pc[u] /\ arg'[u] = arg[u]
  <1>0. pc \in [Tasks -> Labels] /\ arg \in [Tasks -> Tasks] /\ t \in Tasks
    BY Zenon DEF TypeOK, Workers
  <1>. USE <1>0 DEF At, Goto, Return, May, locks, manager
  <1>1. CASE Alloc(t)
    BY <1>1, Zenon DEF Alloc
  <1>2. CASE AllocDone(t)
    BY <1>2, Zenon DEF AllocDone
  <1>3. CASE Lookup(t)
    BY <1>3, Zenon DEF Lookup
  <1>4. CASE LookupDone(t)
    BY <1>4, Zenon DEF LookupDone
  <1>5. CASE Block(t)
    BY <1>5, Zenon DEF Block
  <1>6. ASSUME NEW v \in Tasks, Wake(t, v) PROVE G
    BY <1>6, Zenon DEF Wake
  <1>7. CASE WakeSet(t)
    BY <1>7, Zenon DEF WakeSet
  <1>8. ASSUME NEW v \in Tasks, Kill(t, v) PROVE G
    BY <1>8, Zenon DEF Kill
  <1>9. CASE KillLock(t)
    BY <1>9, Zenon DEF KillLock
  <1>10. CASE KillPush(t)
    BY <1>10, SMTT(30) DEF KillPush
  <1>. QED  BY <1>1, <1>2, <1>3, <1>4, <1>5, <1>6, <1>7, <1>8, <1>9, <1>10, ZenonT(40) DEF QuietWorker

\* What a quiet manager leaves alone.
LEMMA QuietManagerFrame ==
    ASSUME TypeOK, QuietManager
    PROVE  /\ UNCHANGED <<queue, lut, state, fresh, snap, freed>>
           /\ pc'[RM] \notin {"free", "push"}
           /\ pc'[RM] \in {"requeue", "reserve"} => pc[RM] = "requeue"
           /\ \A u \in Workers : pc'[u] = pc[u] /\ arg'[u] = arg[u]
  <1>. DEFINE G == /\ UNCHANGED <<queue, lut, state, fresh, snap, freed>>
                   /\ pc'[RM] \notin {"free", "push"}
                   /\ pc'[RM] \in {"requeue", "reserve"} => pc[RM] = "requeue"
                   /\ \A u \in Workers : pc'[u] = pc[u] /\ arg'[u] = arg[u]
  <1>0. pc \in [Tasks -> Labels] /\ arg \in [Tasks -> Tasks] /\ RM \in Tasks
    BY SchedAssumption, Zenon DEF TypeOK
  <1>. USE <1>0 DEF At, Goto, Workers, locks, manager
  <1>1. CASE RMCleanup
    BY <1>1, Zenon DEF RMCleanup
  <1>2. CASE RMScan
    BY <1>2, Zenon DEF RMScan
  <1>3. CASE RMPop
    BY <1>3, Zenon DEF RMPop
  <1>4. CASE RMPopNone
    BY <1>4, Zenon DEF RMPopNone
  <1>5. CASE RMLut
    BY <1>5, Zenon DEF RMLut, LutWrite
  <1>6. CASE RMTable
    BY <1>6, Zenon DEF RMTable
  <1>7. CASE RMQueueLock
    BY <1>7, Zenon DEF RMQueueLock, QueueLock
  <1>. QED  BY <1>1, <1>2, <1>3, <1>4, <1>5, <1>6, <1>7, SMTT(30) DEF QuietManager

\* The disjuncts of Next, quiet steps taken together.
LEMMA NextCases ==
    ASSUME Next
    PROVE  \/ Timer \/ RMYield \/ QuietManager \/ RMRemove \/ RMFree \/ RMSnapshot \/ RMRequeue
           \/ \E t \in Workers :
                  \/ QuietWorker(t) \/ \E n \in Tasks : Spawn(t, n)
                  \/ SpawnPush(t) \/ SpawnLut(t) \/ SpawnInsert(t) \/ Yield(t) \/ ExitYield(t)
  BY Zenon DEF Next, RMStep, WorkerStep, QuietManager, QuietWorker

\* A step that leaves lut, fresh and freed alone keeps each task in its place
\* if no task begins to spawn and the manager does not begin to free.
LEMMA SameOwnerInv ==
    ASSUME OwnerInv, UNCHANGED <<lut, fresh, freed>>,
           \A t \in Tasks : Spawning(t)' => Spawning(t) /\ arg'[t] = arg[t],
           pc'[RM] = "free" => pc[RM] = "free" /\ arg'[RM] = arg[RM]
    PROVE  OwnerInv'
  BY SMTT(40) DEF OwnerInv

\* Every step keeps each task in one place.
LEMMA NextOwnerInv ==
    ASSUME IInv, Next PROVE OwnerInv'
  <1>0. /\ pc \in [Tasks -> Labels] /\ arg \in [Tasks -> Tasks] /\ RM \in Tasks
        /\ TypeOK /\ OwnerInv
    BY SchedAssumption, Zenon DEF IInv, TypeOK
  <1>. USE <1>0 DEF At, Goto, Return, May, Workers, locks, manager
  <1>1. CASE Timer
    BY <1>1, SameOwnerInv, Zenon DEF Timer, Spawning
  <1>2. CASE RMYield
    BY <1>2, SameOwnerInv, Zenon DEF RMYield, Spawning
  <1>3. CASE QuietManager
    BY <1>3, QuietManagerFrame, SameOwnerInv, Zenon DEF Spawning
  <1>4. CASE RMRemove
    <2>1. /\ lut' = lut \ {arg[RM]} /\ UNCHANGED <<fresh, freed, arg>>
          /\ pc' = [pc EXCEPT ![RM] = IF arg[RM] \in lut THEN "free" ELSE "reap"]
      BY <1>4, Zenon DEF RMRemove
    <2>2. \A t \in Tasks : Spawning(t)' <=> Spawning(t)
      BY <2>1, Zenon DEF Spawning
    <2>3. pc'[RM] = "free" => arg[RM] \in lut
      BY <2>1, Zenon
    <2>. QED  BY <2>1, <2>2, <2>3, Zenon DEF OwnerInv
  <1>5. CASE RMFree
    <2>1. /\ UNCHANGED <<lut, fresh, arg>> /\ pc[RM] = "free"
          /\ freed' = [freed EXCEPT ![arg[RM]] = @ + 1]
          /\ pc' = [pc EXCEPT ![RM] = "reap"]
      BY <1>5, Zenon DEF RMFree
    <2>2. \A t \in Tasks : Spawning(t)' <=> Spawning(t)
      BY <2>1, Zenon DEF Spawning
    <2>3. \A t \in Tasks : freed'[t] = IF t = arg[RM] THEN 1 ELSE freed[t]
      <3>1. freed[arg[RM]] = 0 /\ freed \in [Tasks -> Nat]
        BY <2>1, Zenon DEF OwnerInv, TypeOK
      <3>2. freed' = [freed EXCEPT ![arg[RM]] = 1]
        BY <2>1, <3>1
      <3>. QED  BY <3>1, <3>2, Zenon
    <2>4. pc'[RM] # "free"
      BY <2>1, Zenon
    <2>. QED  BY <2>1, <2>2, <2>3, <2>4, ZenonT(40) DEF OwnerInv
  <1>6. CASE RMSnapshot
    BY <1>6, SameOwnerInv, Zenon DEF RMSnapshot, Spawning
  <1>7. CASE RMRequeue
    BY <1>7, SameOwnerInv, Zenon DEF RMRequeue, Spawning
  <1>8. ASSUME NEW t \in Workers, QuietWorker(t) PROVE OwnerInv'
    BY <1>8, QuietWorkerFrame, SameOwnerInv, Zenon DEF Spawning
  <1>9. ASSUME NEW t \in Workers, NEW n \in Tasks, Spawn(t, n) PROVE OwnerInv'
    <2>1. /\ UNCHANGED <<lut, freed>> /\ fresh' = fresh \ {n} /\ n \in fresh
          /\ arg' = [arg EXCEPT ![t] = n]
          /\ \A u \in Tasks \ {t} : pc'[u] = pc[u]
      BY <1>9, Zenon DEF Spawn, QueueLock
    <2>2. /\ arg'[t] = n
          /\ \A u \in Tasks \ {t} : arg'[u] = arg[u] /\ (Spawning(u)' <=> Spawning(u))
      BY <2>1, Zenon DEF Spawning
    <2>3. t # RM /\ arg[RM] \in Tasks
      BY <1>9, Zenon
    <2>4. lut' \cap fresh' = {}
      BY <2>1, <2>2, <2>3, ZenonT(40) DEF OwnerInv
    <2>5. \A u \in Tasks : Spawning(u)' => arg'[u] \notin lut' \cup fresh'
      BY <2>1, <2>2, <2>3 DEF OwnerInv
    <2>6. \A u, v \in Tasks : Spawning(u)' /\ Spawning(v)' /\ arg'[u] = arg'[v] => u = v
      BY <2>1, <2>2, <2>3 DEF OwnerInv
    <2>7. \A x \in Tasks : freed'[x] # 0 =>
              /\ freed'[x] = 1 /\ x \notin lut' \cup fresh'
              /\ \A u \in Tasks : Spawning(u)' => arg'[u] # x
      BY <2>1, <2>2, <2>3 DEF OwnerInv
    <2>8. pc'[RM] = "free" =>
              /\ arg'[RM] \notin lut' \cup fresh' /\ freed'[arg'[RM]] = 0
              /\ \A u \in Tasks : Spawning(u)' => arg'[u] # arg'[RM]
      BY <2>1, <2>2, <2>3 DEF OwnerInv
    <2>. QED  BY <2>4, <2>5, <2>6, <2>7, <2>8, ZenonT(40) DEF OwnerInv
  <1>10. ASSUME NEW t \in Workers, SpawnPush(t) \/ SpawnLut(t) PROVE OwnerInv'
    BY <1>10, SameOwnerInv DEF SpawnPush, SpawnLut, LutWrite, Spawning
  <1>11. ASSUME NEW t \in Workers, SpawnInsert(t) PROVE OwnerInv'
    <2>1. /\ UNCHANGED <<fresh, freed>> /\ lut' = lut \cup {arg[t]}
          /\ Spawning(t) /\ ~Spawning(t)'
          /\ \A u \in Tasks \ {t} : arg'[u] = arg[u] /\ pc'[u] = pc[u]
      BY <1>11, Zenon DEF SpawnInsert, Spawning
    <2>2. \A u \in Tasks \ {t} : Spawning(u)' <=> Spawning(u)
      BY <2>1, Zenon DEF Spawning
    <2>3. freed[arg[t]] = 0 /\ (pc[RM] = "free" => arg[RM] # arg[t])
      BY <2>1, Zenon DEF OwnerInv
    <2>4. t # RM /\ t \in Tasks /\ arg[t] \in Tasks /\ arg[RM] \in Tasks
      BY <1>11, Zenon
    <2>5. lut' \cap fresh' = {}
      BY <2>1, <2>2, <2>3, <2>4 DEF OwnerInv
    <2>6. \A u \in Tasks : Spawning(u)' => arg'[u] \notin lut' \cup fresh'
      BY <2>1, <2>2, <2>3, <2>4 DEF OwnerInv
    <2>7. \A u, v \in Tasks : Spawning(u)' /\ Spawning(v)' /\ arg'[u] = arg'[v] => u = v
      BY <2>1, <2>2, <2>3, <2>4 DEF OwnerInv
    <2>8. \A x \in Tasks : freed'[x] # 0 =>
              /\ freed'[x] = 1 /\ x \notin lut' \cup fresh'
              /\ \A u \in Tasks : Spawning(u)' => arg'[u] # x
      BY <2>1, <2>2, <2>3, <2>4 DEF OwnerInv
    <2>9. pc'[RM] = "free" =>
              /\ arg'[RM] \notin lut' \cup fresh' /\ freed'[arg'[RM]] = 0
              /\ \A u \in Tasks : Spawning(u)' => arg'[u] # arg'[RM]
      BY <2>1, <2>2, <2>3, <2>4, ZenonT(40) DEF OwnerInv
    <2>. QED  BY <2>5, <2>6, <2>7, <2>8, <2>9, ZenonT(40) DEF OwnerInv
  <1>12. ASSUME NEW t \in Workers, Yield(t) \/ ExitYield(t) PROVE OwnerInv'
    BY <1>12, SameOwnerInv DEF Yield, ExitYield, Spawning
  <1>. QED
    BY NextCases, <1>1, <1>2, <1>3, <1>4, <1>5, <1>6, <1>7, <1>8, <1>9, <1>10, <1>11, <1>12, ZenonT(40)

\* A context switch by a task that is not working on the queue keeps it
\* well formed.
LEMMA SwitchQueueInv ==
    ASSUME IInv, context_switch_local, UNCHANGED <<lut, fresh, arg, snap, state>>,
           \A t \in Tasks : pc'[t] \in {"push", "requeue", "reserve"} => pc'[t] = pc[t]
    PROVE  QueueInv'
  <1>1. /\ \A i, j \in 1..Len(queue') : i # j => queue'[i] # queue'[j]
        /\ state[RM] = "Ready" => \E i \in 1..Len(queue') : queue'[i] = RM
        /\ \A i \in 1..Len(queue') : \E j \in 1..Len(queue) : queue'[i] = queue[j]
    BY SwitchProperties, Zenon DEF IInv
  <1>2. \A i \in 1..Len(queue') : queue'[i] \notin fresh'
    BY <1>1, Zenon DEF IInv, QueueInv
  <1>3. ASSUME NEW t \in Tasks, pc'[t] = "push", NEW i \in 1..Len(queue')
        PROVE  queue'[i] # arg'[t]
    BY <1>1, <1>3 DEF IInv, QueueInv
  <1>4. pc'[RM] \in {"requeue", "reserve"} => RM \in snap' /\ snap' \subseteq lut'
    BY SchedAssumption, Zenon DEF IInv, QueueInv
  <1>. QED  BY <1>1, <1>2, <1>3, <1>4, Zenon DEF QueueInv

\* A step that leaves queue and fresh alone keeps the run queue well formed
\* if it starts no push and does not revive the manager, and if the snapshot is
\* right when it is used.
LEMMA SameQueueInv ==
    ASSUME QueueInv, UNCHANGED <<queue, fresh>>,
           state'[RM] = "Ready" => state[RM] = "Ready",
           \A t \in Tasks : pc'[t] = "push" => pc[t] = "push" /\ arg'[t] = arg[t],
           pc'[RM] \in {"requeue", "reserve"} => RM \in snap' /\ snap' \subseteq lut'
    PROVE  QueueInv'
  BY DEF QueueInv

\* Appending a task that is not queued keeps the queue free of duplicates.
LEMMA AppendDistinct ==
    ASSUME queue \in Seq(Tasks), NEW e \in Tasks, queue' = Append(queue, e),
           \A i, j \in 1..Len(queue) : i # j => queue[i] # queue[j],
           \A i \in 1..Len(queue) : queue[i] # e
    PROVE  /\ \A i, j \in 1..Len(queue') : i # j => queue'[i] # queue'[j]
           /\ (\E i \in 1..Len(queue) : queue[i] = RM) => \E i \in 1..Len(queue') : queue'[i] = RM
  <1>1. Len(queue) \in Nat /\ Len(queue') = Len(queue) + 1 /\ queue'[Len(queue) + 1] = e
    OBVIOUS
  <1>2. \A i \in 1..Len(queue) : queue'[i] = queue[i]
    OBVIOUS
  <1>3. \A i \in 1..Len(queue') : i = Len(queue) + 1 \/ i \in 1..Len(queue)
    BY <1>1
  <1>4. \A i \in 1..Len(queue) : i \in 1..Len(queue')
    BY <1>1
  <1>5. \A i, j \in 1..Len(queue') : i # j => queue'[i] # queue'[j]
    BY <1>1, <1>2, <1>3
  <1>6. (\E i \in 1..Len(queue) : queue[i] = RM) => \E i \in 1..Len(queue') : queue'[i] = RM
    BY <1>2, <1>4, SMTT(30)
  <1>. QED  BY <1>5, <1>6, Zenon

\* No worker revives a killed manager: wake() is not called for it.
LEMMA DeadStaysDead ==
    ASSUME IInv, NEW t \in Workers, QuietWorker(t)
    PROVE  state'[RM] = "Ready" => state[RM] = "Ready"
  BY SchedAssumption, Zenon DEF IInv, TypeOK, LiveInv, QuietWorker, Alloc, AllocDone, Lookup,
     LookupDone, Block, Wake, Kill, WakeSet, KillLock, KillPush, At, May, Workers

\* The queue reschedule() builds from its snapshot.
LEMMA RequeueProperties ==
    ASSUME snap \in SUBSET Tasks, RM \in snap, RMRequeue
    PROVE  /\ \A i \in 1..Len(queue') : queue'[i] \in snap
           /\ \A i, j \in 1..Len(queue') : i # j => queue'[i] # queue'[j]
           /\ \E i \in 1..Len(queue') : queue'[i] = RM
  <1>1. queue' \in Orders(snap)
    BY Zenon DEF RMRequeue
  <1>. QED  BY <1>1, OrdersProperties

\* Every step keeps the run queue well formed.
LEMMA NextQueueInv ==
    ASSUME IInv, Next PROVE QueueInv'
  <1>0. /\ pc \in [Tasks -> Labels] /\ arg \in [Tasks -> Tasks] /\ RM \in Tasks
        /\ TypeOK /\ QueueInv
        /\ pc[RM] \in {"requeue", "reserve"} => RM \in snap /\ snap \subseteq lut
    BY SchedAssumption, Zenon DEF IInv, TypeOK, QueueInv
  <1>. USE <1>0 DEF At, Goto, Return, May, Workers, locks, manager
  <1>1. CASE Timer
    BY <1>1, SwitchQueueInv, Zenon DEF Timer
  <1>2. CASE RMYield
    BY <1>2, SwitchQueueInv, Zenon DEF RMYield
  <1>3. CASE QuietManager
    BY <1>3, QuietManagerFrame, SameQueueInv, Zenon
  <1>4. CASE RMRemove
    BY <1>4, SameQueueInv, Zenon DEF RMRemove
  <1>5. CASE RMFree
    BY <1>5, SameQueueInv, Zenon DEF RMFree
  <1>6. CASE RMSnapshot
    <2>1. RM \in snap' /\ snap' \subseteq lut'
      BY <1>6, SMTT(20) DEF RMSnapshot, IInv, LiveInv
    <2>. QED  BY <1>6, <2>1, SameQueueInv, ZenonT(40) DEF RMSnapshot
  <1>7. CASE RMRequeue
    <2>1. snap \in SUBSET Tasks /\ RM \in snap /\ snap \subseteq lut
      BY <1>7, Zenon DEF RMRequeue, TypeOK
    <2>2. /\ \A i \in 1..Len(queue') : queue'[i] \in snap
          /\ \A i, j \in 1..Len(queue') : i # j => queue'[i] # queue'[j]
          /\ \E i \in 1..Len(queue') : queue'[i] = RM
      BY <1>7, <2>1, RequeueProperties, Zenon
    <2>3. \A i \in 1..Len(queue') : queue'[i] \notin fresh'
      BY <1>7, <2>1, <2>2, Zenon DEF RMRequeue, IInv, OwnerInv
    <2>4. ASSUME NEW t \in Tasks, pc'[t] = "push", NEW i \in 1..Len(queue')
          PROVE  queue'[i] # arg'[t]
      <3>1. pc[t] = "push" /\ arg'[t] = arg[t] /\ t \in Workers
        BY <1>7, <2>4, Zenon DEF RMRequeue
      <3>2. arg[t] \notin lut
        BY <3>1, Zenon DEF IInv, OwnerInv, Spawning
      <3>. QED  BY <2>1, <2>2, <3>1, <3>2, ZenonT(40)
    <2>5. pc'[RM] \notin {"requeue", "reserve"}
      BY <1>7, Zenon DEF RMRequeue
    <2>6. \A t \in Tasks : pc'[t] = "push" => \A i \in 1..Len(queue') : queue'[i] # arg'[t]
      BY <2>4, Zenon
    <2>. HIDE <1>0 DEF At, Goto, Return, May, Workers, locks, manager
    <2>. QED  BY <2>2, <2>3, <2>5, <2>6, Zenon DEF QueueInv
  <1>8. ASSUME NEW t \in Workers, QuietWorker(t) PROVE QueueInv'
    BY <1>8, QuietWorkerFrame, DeadStaysDead, SameQueueInv, Zenon
  <1>9. ASSUME NEW t \in Workers, NEW n \in Tasks, Spawn(t, n) PROVE QueueInv'
    <2>1. /\ UNCHANGED <<queue, lut, snap, state>> /\ fresh' \subseteq fresh /\ n \in fresh
          /\ arg'[t] = n /\ \A u \in Tasks \ {t} : arg'[u] = arg[u] /\ pc'[u] = pc[u]
      BY <1>9, Zenon DEF Spawn, QueueLock
    <2>2. /\ \A i, j \in 1..Len(queue) : i # j => queue[i] # queue[j]
          /\ state[RM] = "Ready" => \E i \in 1..Len(queue) : queue[i] = RM
          /\ \A i \in 1..Len(queue) : queue[i] \notin fresh
          /\ \A u \in Tasks : pc[u] = "push" => \A i \in 1..Len(queue) : queue[i] # arg[u]
      BY Zenon DEF QueueInv
    <2>3. queue' = queue /\ state' = state /\ snap' = snap /\ lut' = lut /\ pc'[RM] = pc[RM]
      BY <2>1, Zenon DEF Workers
    <2>4. \A i \in 1..Len(queue) : queue[i] \notin fresh'
      BY <2>1, <2>2, Zenon
    <2>5. ASSUME NEW u \in Tasks, pc'[u] = "push", NEW i \in 1..Len(queue)
          PROVE  queue[i] # arg'[u]
      <3>1. CASE u = t
        BY <2>1, <2>2, <3>1, Zenon
      <3>2. CASE u # t
        BY <2>1, <2>2, <2>5, <3>2, ZenonT(40)
      <3>. QED  BY <3>1, <3>2, Zenon
    <2>. QED  BY <2>2, <2>3, <2>4, <2>5, ZenonT(40) DEF QueueInv
  <1>10. ASSUME NEW t \in Workers, SpawnPush(t) PROVE QueueInv'
    <2>1. /\ queue' = Append(queue, arg[t]) /\ queue \in Seq(Tasks) /\ arg[t] \in Tasks
          /\ \A i \in 1..Len(queue) : queue[i] # arg[t]
      BY <1>10, Zenon DEF SpawnPush, TypeOK, QueueInv
    <2>2. /\ \A i, j \in 1..Len(queue) : i # j => queue[i] # queue[j]
          /\ state[RM] = "Ready" => \E i \in 1..Len(queue) : queue[i] = RM
          /\ \A i \in 1..Len(queue) : queue[i] \notin fresh
      BY Zenon DEF QueueInv
    <2>3. /\ \A i, j \in 1..Len(queue') : i # j => queue'[i] # queue'[j]
          /\ state[RM] = "Ready" => \E i \in 1..Len(queue') : queue'[i] = RM
      BY <2>1, <2>2, AppendDistinct, Zenon
    <2>4. arg[t] \notin fresh
      BY <1>10, Zenon DEF SpawnPush, IInv, OwnerInv, Spawning
    <2>5. \A i \in 1..Len(queue') : queue'[i] \notin fresh
      <3>1. \A i \in 1..Len(queue') :
                queue'[i] = arg[t] \/ \E j \in 1..Len(queue) : queue'[i] = queue[j]
        BY <2>1, AppendElements, SMTT(40)
      <3>. QED  BY <2>2, <2>4, <3>1, ZenonT(40)
    <2>6. \A u \in Tasks : pc'[u] # "push"
      BY <1>10, Zenon DEF SpawnPush, IInv, LockInv
    <2>7. /\ UNCHANGED <<fresh, snap, lut, state>> /\ pc'[RM] = pc[RM]
      BY <1>10, Zenon DEF SpawnPush
    <2>. QED  BY <2>3, <2>5, <2>6, <2>7, ZenonT(40) DEF QueueInv
  <1>11. ASSUME NEW t \in Workers, SpawnLut(t) PROVE QueueInv'
    BY <1>11, SameQueueInv, Zenon DEF SpawnLut, LutWrite
  <1>12. ASSUME NEW t \in Workers, SpawnInsert(t) PROVE QueueInv'
    BY <1>12, SameQueueInv, Zenon DEF SpawnInsert
  <1>13. ASSUME NEW t \in Workers, Yield(t) \/ ExitYield(t) PROVE QueueInv'
    <2>1. UNCHANGED <<lut, fresh, arg, snap, state>> /\ context_switch_local
      BY <1>13, Zenon DEF Yield, ExitYield
    <2>2. \A u \in Tasks : pc'[u] \in {"push", "requeue", "reserve"} => pc'[u] = pc[u]
      BY <1>13, Zenon DEF Yield, ExitYield
    <2>. QED  BY <2>1, <2>2, SwitchQueueInv, Zenon
  <1>. QED
    BY NextCases, <1>1, <1>2, <1>3, <1>4, <1>5, <1>6, <1>7, <1>8, <1>9, <1>10, <1>11,
       <1>12, <1>13, ZenonT(40)

\* The state threading::finalize() leaves satisfies the invariant.
LEMMA InitIInv == Init => IInv
  <1>. SUFFICES ASSUME Init PROVE IInv
    BY Zenon
  <1>. USE SchedAssumption
  <1>1. queue \in Orders(Started) /\ Started \in SUBSET Tasks
    BY Zenon DEF Init
  <1>2. /\ queue \in Seq(Tasks)
        /\ \A i \in 1..Len(queue) : queue[i] \in Started
        /\ \A i, j \in 1..Len(queue) : i # j => queue[i] # queue[j]
        /\ \A x \in Started : \E i \in 1..Len(queue) : queue[i] = x
    BY <1>1, OrdersProperties
  <1>3. TypeOK
    <2>1. /\ current \in Tasks /\ zombies \in Seq(Tasks) /\ yields \in Nat
          /\ lut \subseteq Tasks /\ fresh \subseteq Tasks /\ snap \subseteq Tasks
          /\ qlock = {} /\ lutR = {} /\ lutW = {} /\ zlock = {} /\ heap = {}
      BY <1>1 DEF Init
    <2>2. /\ state \in [Tasks -> States] /\ pc \in [Tasks -> Labels] /\ arg \in [Tasks -> Tasks]
          /\ freed \in [Tasks -> Nat]
      BY Zenon DEF Init, States, Labels
    <2>. QED  BY <1>2, <2>1, <2>2, Zenon DEF TypeOK
  <1>4. LockInv
    BY Zenon DEF Init, LockInv, RMLabels
  <1>5. LiveInv
    BY DEF Init, LiveInv
  <1>6. OwnerInv
    BY Zenon DEF Init, OwnerInv, Spawning, Workers
  <1>7. QueueInv
    BY <1>2, Zenon DEF Init, QueueInv
  <1>. QED  BY <1>3, <1>4, <1>5, <1>6, <1>7, Zenon DEF IInv

\* A stuttering step keeps the invariant.
LEMMA StutterIInv == IInv /\ UNCHANGED vars => IInv'
  <1>. SUFFICES ASSUME IInv, UNCHANGED vars PROVE IInv'
    BY Zenon
  <1>. USE DEF IInv, vars, locks, manager
  <1>1. TypeOK'
    BY Zenon DEF TypeOK
  <1>2. LockInv'
    BY Zenon DEF LockInv
  <1>3. LiveInv'
    BY Zenon DEF LiveInv
  <1>4. OwnerInv'
    BY Zenon DEF OwnerInv, Spawning
  <1>5. QueueInv'
    BY Zenon DEF QueueInv
  <1>. QED  BY <1>1, <1>2, <1>3, <1>4, <1>5, ZenonT(40)

\* The inductive invariant holds in every reachable state.
LEMMA InductiveInvariant == Spec => []IInv
  <1>1. IInv /\ [Next]_vars => IInv'
    <2>1. IInv /\ Next => IInv'
      BY NextTypeOK, NextLockInv, NextLiveInv, NextOwnerInv, NextQueueInv, Zenon DEF IInv
    <2>. QED  BY <2>1, StutterIInv, Zenon
  <1>. QED  BY <1>1, InitIInv, PTL DEF Spec

-----------------------------------------------------------------------------
(* The theorems.                                                           *)

\* Type correctness of the scheduler's state.
THEOREM TypeCorrect == Spec => []TypeOK
  <1>1. IInv => TypeOK
    BY Zenon DEF IInv
  <1>. QED  BY <1>1, InductiveInvariant, PTL

\* The NoBlock lock of the run queue never panics: add_task() and reschedule()
\* take it with interrupts on, yet find it free in every interleaving.
THEOREM QueueLockNeverContended == Spec => []NoBlockNeverWaits
  <1>1. IInv => NoBlockNeverWaits
    BY Zenon DEF IInv, LockInv, NoBlockNeverWaits
  <1>. QED  BY <1>1, InductiveInvariant, PTL

\* No switch leaves a task behind that owns the run queue or the table.
THEOREM OwnerKeepsProcessor == Spec => []SwitchLocksHeldByCurrent
  <1>1. IInv => SwitchLocksHeldByCurrent
    BY Zenon DEF IInv, LockInv, SwitchLocksHeldByCurrent
  <1>. QED  BY <1>1, InductiveInvariant, PTL

\* cleanup() frees the stack of a task at most once and never that of the
\* running task, and no task runs on a freed stack.
THEOREM FreedStackNeverRuns == Spec => []FreedNeverRuns
  <1>1. IInv => FreedNeverRuns
    <2>. SUFFICES ASSUME IInv PROVE FreedNeverRuns
      BY Zenon
    <2>1. current \in Tasks /\ current \in lut
      BY Zenon DEF IInv, TypeOK, LiveInv
    <2>2. \A t \in Tasks : freed[t] # 0 => freed[t] = 1 /\ t \notin lut
      BY Zenon DEF IInv, OwnerInv
    <2>. QED  BY <2>1, <2>2 DEF FreedNeverRuns
  <1>. QED  BY <1>1, InductiveInvariant, PTL

\* Every reachable run queue is free of duplicates and holds the manager, if
\* that has not been cancelled.
THEOREM QueueAlwaysWellFormed == Spec => []QueueWellFormed
  <1>1. IInv => QueueWellFormed
    <2>. SUFFICES ASSUME IInv PROVE QueueWellFormed
      OBVIOUS
    <2>1. DOMAIN queue = 1..Len(queue)
      BY DEF IInv, TypeOK
    <2>. QED  BY <2>1, Zenon DEF IInv, QueueInv, QueueWellFormed, Range
  <1>. QED  BY <1>1, InductiveInvariant, PTL

\* A task that blocked itself does not come back from yield_now() unwoken while
\* the manager lives.
THEOREM BlockedNeverRunsOn == Spec => []BlockedIsOffCpu
  <1>1. IInv => BlockedIsOffCpu
    BY Zenon DEF IInv, LiveInv, BlockedIsOffCpu
  <1>. QED  BY <1>1, InductiveInvariant, PTL
=============================================================================
