----------------------------- MODULE Scheduler ------------------------------
(***************************************************************************)
(* Preemptive scheduling on the one processor tinyOS runs on: the context  *)
(* switch (threading/schedule), the run queue of LazyRoundRobin, the task  *)
(* table `lut` of TaskManager (threading/tls.rs) with the locks a switch   *)
(* has to get past, and the resource-manager thread (drivers/resource.rs)  *)
(* that reaps zombies and rebuilds the run queue.                          *)
(*                                                                         *)
(* Only the task `current` takes steps.  A timer interrupt may switch      *)
(* between any two steps, so a step is the code between two points at      *)
(* which a preemption can be observed.  A lock is the set of its owners;   *)
(* waiting on a YieldWaiter lock is not being able to take the next step   *)
(* until the owner has run.                                                *)
(***************************************************************************)
EXTENDS Naturals, Sequences, FiniteSets, Functions

CONSTANTS Tasks,     \* every thread id of the instance
          RM,        \* the resource manager
          Started,   \* tasks that exist when threading::finalize() is called
          Yields,    \* bound: yield_now() calls per turn of the manager (50)
          Grow,      \* TRUE: every insertion finds its container at capacity
          Ops,       \* the operations worker tasks perform in the instance
          MaxZombies \* bound: kills are issued while the zombie list is shorter

ASSUME SchedAssumption ==
    /\ RM \in Started /\ Started \subseteq Tasks
    /\ IsFiniteSet(Tasks)
    /\ Yields \in Nat /\ Grow \in BOOLEAN /\ MaxZombies \in Nat

VARIABLES current,   \* TaskManager.current_running
          queue,     \* LazyRoundRobin.queue
          qlock,     \* its GenericMutex<_, NoBlock>
          lut,       \* the ids in TaskManager.lut
          lutR,      \* lut: holders of a read guard
          lutW,      \* lut: holder of the write guard
          zombies,   \* TaskManager.zombies
          zlock,     \* its mutex
          heap,      \* holder of the global allocator's mutex
          state,     \* TaskState of every task
          pc, arg,   \* where a task is, and the task it works on
          fresh,     \* ids get_tid() has not handed out yet
          snap,      \* extend_with of a reschedule under way
          yields,    \* yields left in the manager's turn
          freed      \* how often cleanup_thread has freed a kernel stack

locks == <<qlock, lutR, lutW, zlock, heap>>
manager == <<snap, yields, freed>>
vars == <<current, queue, lut, zombies, state, pc, arg, fresh, locks, manager>>

Workers == Tasks \ {RM}

\* The orders in which iterating over a HashMap may yield the keys S.
Orders(S) == Bijection(1..Cardinality(S), S)

\* After start_drivers: the started tasks are Ready, in the table and queued.
Init ==
    /\ current \in Started
    /\ queue \in Orders(Started)
    /\ lut = Started /\ fresh = Tasks \ Started
    /\ zombies = <<>>
    /\ state = [t \in Tasks |-> "Ready"]
    /\ pc = [t \in Tasks |-> IF t = RM THEN "yield" ELSE "idle"]
    /\ arg = [t \in Tasks |-> t]
    /\ qlock = {} /\ lutR = {} /\ lutW = {} /\ zlock = {} /\ heap = {}
    /\ snap = {} /\ yields = Yields /\ freed = [t \in Tasks |-> 0]

At(t, l) == current = t /\ pc[t] = l
Goto(t, l) == pc' = [pc EXCEPT ![t] = l]
Return(t) == Goto(t, "idle") /\ arg' = [arg EXCEPT ![t] = t]

\* An allocation needs the heap mutex: it cannot proceed while another task
\* holds it.
MayAlloc == Grow => heap = {}

-----------------------------------------------------------------------------
(* The context switch.                                                     *)

\* Mutant: the state of the task is not looked at.
RunnableAny(t) == t \in lut

\* The test of LazyRoundRobin::switch on the head of the queue.
Runnable(t) == t \in lut /\ state[t] = "Ready"

\* The run queue once its i-th task has been picked.
Switched(i) == Append(SubSeq(queue, i + 1, Len(queue)), queue[i])

\* Mutant: a picked task is not put back at the end of the queue.
SwitchNoRequeue ==
    IF \E i \in 1..Len(queue) : Runnable(queue[i])
      THEN \E i \in 1..Len(queue) :
               /\ Runnable(queue[i]) /\ \A j \in 1..(i - 1) : ~Runnable(queue[j])
               /\ current' = queue[i] /\ queue' = SubSeq(queue, i + 1, Len(queue))
      ELSE queue' = <<>> /\ UNCHANGED current

\* LazyRoundRobin::switch with its lock taken: ids that are not in the table
\* or not Ready are dropped, the first other one runs and goes to the back.
switch ==
    IF \E i \in 1..Len(queue) : Runnable(queue[i])
      THEN \E i \in 1..Len(queue) :
               /\ Runnable(queue[i]) /\ \A j \in 1..(i - 1) : ~Runnable(queue[j])
               /\ current' = queue[i] /\ queue' = Switched(i)
      ELSE queue' = <<>> /\ UNCHANGED current

\* Mutant: the switch goes ahead although the queue is locked.
ContextSwitchForce ==
    IF lutW = {} /\ current \in lut
      THEN switch
      ELSE UNCHANGED <<current, queue>>

\* context_switch_local: returns without switching when try_current_thread or
\* the queue's try_lock fails.
context_switch_local ==
    IF lutW = {} /\ current \in lut /\ qlock = {}
      THEN switch
      ELSE UNCHANGED <<current, queue>>

\* The timer interrupt preempts the running task.
Timer ==
    /\ context_switch_local
    /\ UNCHANGED <<lut, zombies, state, pc, arg, fresh, locks, manager>>

-----------------------------------------------------------------------------
(* What worker tasks do.                                                   *)

May(t, op) == t \in Workers /\ op \in Ops /\ At(t, "idle")

\* GlobalAlloc::alloc takes the heap mutex and works on the free list.
Alloc(t) ==
    /\ May(t, "alloc") /\ heap = {}
    /\ heap' = {t} /\ Goto(t, "alloc")
    /\ UNCHANGED <<current, queue, lut, zombies, state, arg, fresh, qlock, lutR, lutW, zlock, manager>>

AllocDone(t) ==
    /\ At(t, "alloc")
    /\ heap' = {} /\ Goto(t, "idle")
    /\ UNCHANGED <<current, queue, lut, zombies, state, arg, fresh, qlock, lutR, lutW, zlock, manager>>

\* TaskManager::thread, get_table().read(): a read guard on the table.
Lookup(t) ==
    /\ May(t, "lookup") /\ lutW = {}
    /\ lutR' = lutR \cup {t} /\ Goto(t, "lookup")
    /\ UNCHANGED <<current, queue, lut, zombies, state, arg, fresh, qlock, lutW, zlock, heap, manager>>

LookupDone(t) ==
    /\ At(t, "lookup")
    /\ lutR' = lutR \ {t} /\ Goto(t, "idle")
    /\ UNCHANGED <<current, queue, lut, zombies, state, arg, fresh, qlock, lutW, zlock, heap, manager>>

\* queue.lock() of a NoBlock mutex: a contended lock is a panic.
QueueLock(t, l) ==
    /\ IF qlock = {} THEN qlock' = {t} /\ Goto(t, l)
                     ELSE Goto(t, "panic") /\ UNCHANGED qlock
    /\ UNCHANGED <<lutR, lutW, zlock, heap>>

\* add_task_ptr__: add_task() first locks the run queue ...
Spawn(t, n) ==
    /\ May(t, "spawn") /\ n \in fresh
    /\ QueueLock(t, "push")
    /\ fresh' = fresh \ {n} /\ arg' = [arg EXCEPT ![t] = n]
    /\ UNCHANGED <<current, queue, lut, zombies, state, manager>>

\* ... push_back(id), which may have to grow the deque ...
SpawnPush(t) ==
    /\ At(t, "push") /\ MayAlloc
    /\ queue' = Append(queue, arg[t])
    /\ qlock' = {} /\ Goto(t, "tls_add")
    /\ UNCHANGED <<current, lut, zombies, state, arg, fresh, lutR, lutW, zlock, heap, manager>>

\* lut.write()
LutWrite(t) == lutR = {} /\ lutW = {} /\ lutW' = {t}

\* ... then TaskManager::add locks the table ...
SpawnLut(t) ==
    /\ At(t, "tls_add") /\ LutWrite(t)
    /\ Goto(t, "insert")
    /\ UNCHANGED <<current, queue, lut, zombies, state, arg, fresh, qlock, lutR, zlock, heap, manager>>

\* ... and inserts the task.
SpawnInsert(t) ==
    /\ At(t, "insert") /\ MayAlloc
    /\ lut' = lut \cup {arg[t]}
    /\ lutW' = {} /\ Return(t)
    /\ UNCHANGED <<current, queue, zombies, state, fresh, qlock, lutR, zlock, heap, manager>>

\* TaskManager::block on oneself; the caller then yields.
Block(t) ==
    /\ May(t, "block") /\ lutW = {}
    /\ state' = [state EXCEPT ![t] = "Blocking"]
    /\ Goto(t, "yield")
    /\ UNCHANGED <<current, queue, lut, zombies, arg, fresh, locks, manager>>

\* yield_now() of a worker.
Yield(t) ==
    /\ t \in Workers /\ At(t, "yield")
    /\ context_switch_local
    /\ Goto(t, "idle")
    /\ UNCHANGED <<lut, zombies, state, arg, fresh, locks, manager>>

\* TaskManager::wake reads the state of v ...
Wake(t, v) ==
    /\ May(t, "wake") /\ lutW = {}
    /\ v \in lut /\ state[v] = "Blocking"
    /\ arg' = [arg EXCEPT ![t] = v] /\ Goto(t, "wake")
    /\ UNCHANGED <<current, queue, lut, zombies, state, fresh, locks, manager>>

\* ... and stores Ready, whatever it has become.
WakeSet(t) ==
    /\ At(t, "wake")
    /\ state' = [state EXCEPT ![arg[t]] = "Ready"]
    /\ Return(t)
    /\ UNCHANGED <<current, queue, lut, zombies, fresh, locks, manager>>

\* TaskManager::kill, of oneself in exit() or of another task in
\* thread_cancel(), which takes any id, the manager's as well: the state is set
\* first ...
Kill(t, v) ==
    /\ May(t, IF v = t THEN "exit" ELSE "cancel") /\ lutW = {}
    /\ v \in lut /\ Len(zombies) < MaxZombies
    /\ state' = [state EXCEPT ![v] = "Zombie"]
    /\ arg' = [arg EXCEPT ![t] = v] /\ Goto(t, "update")
    /\ UNCHANGED <<current, queue, lut, zombies, fresh, locks, manager>>

\* ... update() then locks the zombie list ...
KillLock(t) ==
    /\ At(t, "update") /\ zlock = {}
    /\ zlock' = {t} /\ Goto(t, "zpush")
    /\ UNCHANGED <<current, queue, lut, zombies, state, arg, fresh, qlock, lutR, lutW, heap, manager>>

\* ... and appends the id; exit() goes on to yield.
KillPush(t) ==
    /\ At(t, "zpush") /\ MayAlloc
    /\ zombies' = Append(zombies, arg[t])
    /\ zlock' = {}
    /\ Goto(t, IF arg[t] = t THEN "exit" ELSE "idle") /\ arg' = [arg EXCEPT ![t] = t]
    /\ UNCHANGED <<current, queue, lut, state, fresh, qlock, lutR, lutW, heap, manager>>

\* exit(): the yield_now() before unreachable!().
ExitYield(t) ==
    /\ At(t, "exit")
    /\ context_switch_local
    /\ Goto(t, "unreachable")
    /\ UNCHANGED <<lut, zombies, state, arg, fresh, locks, manager>>
-----------------------------------------------------------------------------
(* The resource manager: yield, cleanup(), reschedule(), yield, for ever.  *)

\* The yields between two turns of the loop.
RMYield ==
    /\ At(RM, "yield") /\ yields > 0
    /\ context_switch_local
    /\ yields' = yields - 1
    /\ UNCHANGED <<lut, zombies, state, pc, arg, fresh, locks, snap, freed>>

\* cleanup(): take a read guard on the table ...
RMCleanup ==
    /\ At(RM, "yield") /\ yields = 0 /\ lutW = {}
    /\ lutR' = lutR \cup {RM} /\ Goto(RM, "scan")
    /\ UNCHANGED <<current, queue, lut, zombies, state, arg, fresh, qlock, lutW, zlock, heap, manager>>

\* ... push every Zombie on the zombie list, and drop the guard.
RMScan ==
    /\ At(RM, "scan")
    /\ LET dead == {t \in lut : state[t] = "Zombie"}
       IN  /\ dead # {} => zlock = {} /\ MayAlloc
           /\ \E q \in Orders(dead) : zombies' = zombies \o q
    /\ lutR' = lutR \ {RM} /\ Goto(RM, "reap")
    /\ UNCHANGED <<current, queue, lut, state, arg, fresh, qlock, lutW, zlock, heap, manager>>

\* while let Some(zombie) = zombies.lock().pop_front(): the guard lives until
\* the end of the loop body.
RMPop ==
    /\ At(RM, "reap") /\ zombies # <<>> /\ zlock = {}
    /\ zlock' = {RM} /\ zombies' = Tail(zombies)
    /\ arg' = [arg EXCEPT ![RM] = Head(zombies)] /\ Goto(RM, "remove")
    /\ UNCHANGED <<current, queue, lut, state, fresh, qlock, lutR, lutW, heap, manager>>

RMPopNone ==
    /\ At(RM, "reap") /\ zombies = <<>> /\ zlock = {}
    /\ Goto(RM, "snap")
    /\ UNCHANGED <<current, queue, lut, zombies, state, arg, fresh, locks, manager>>

RMLut ==
    /\ At(RM, "remove") /\ LutWrite(RM)
    /\ Goto(RM, "removing")
    /\ UNCHANGED <<current, queue, lut, zombies, state, arg, fresh, qlock, lutR, zlock, heap, manager>>

\* Mutant: the stack is freed although the entry was already gone.
RMRemoveTwice ==
    /\ At(RM, "removing")
    /\ lut' = lut \ {arg[RM]} /\ lutW' = {}
    /\ Goto(RM, "free")
    /\ UNCHANGED <<current, queue, zombies, state, arg, fresh, qlock, lutR, zlock, heap, manager>>

\* lut.write().remove(&zombie): an id listed twice is skipped the second time.
RMRemove ==
    /\ At(RM, "removing")
    /\ lut' = lut \ {arg[RM]} /\ lutW' = {}
    /\ Goto(RM, IF arg[RM] \in lut THEN "free" ELSE "reap")
    /\ zlock' = IF arg[RM] \in lut THEN zlock ELSE {}
    /\ UNCHANGED <<current, queue, zombies, state, arg, fresh, qlock, lutR, heap, manager>>

\* cleanup_task: the stacks of the task are unmapped.
RMFree ==
    /\ At(RM, "free")
    /\ freed' = [freed EXCEPT ![arg[RM]] = @ + 1]
    /\ zlock' = {} /\ Goto(RM, "reap")
    /\ UNCHANGED <<current, queue, lut, zombies, state, arg, fresh, qlock, lutR, lutW, heap, snap, yields>>

\* reschedule(): take a read guard on the table ...
RMTable ==
    /\ At(RM, "snap") /\ lutW = {}
    /\ lutR' = lutR \cup {RM} /\ Goto(RM, "collect")
    /\ UNCHANGED <<current, queue, lut, zombies, state, arg, fresh, qlock, lutW, zlock, heap, manager>>

\* Mutant: the manager, being the caller, is left out of the snapshot.
RMSnapshotOthers ==
    /\ At(RM, "collect") /\ MayAlloc
    /\ snap' = {t \in lut : state[t] = "Ready"} \ {RM}
    /\ lutR' = lutR \ {RM} /\ Goto(RM, "requeue")
    /\ UNCHANGED <<current, queue, lut, zombies, state, arg, fresh, qlock, lutW, zlock, heap, yields, freed>>

\* ... collect the Ready tasks and drop the guard ...
RMSnapshot ==
    /\ At(RM, "collect") /\ MayAlloc
    /\ snap' = {t \in lut : state[t] = "Ready"}
    /\ lutR' = lutR \ {RM} /\ Goto(RM, "requeue")
    /\ UNCHANGED <<current, queue, lut, zombies, state, arg, fresh, qlock, lutW, zlock, heap, yields, freed>>

\* ... lock the run queue ...
RMQueueLock ==
    /\ At(RM, "requeue")
    /\ QueueLock(RM, "reserve")
    /\ UNCHANGED <<current, queue, lut, zombies, state, arg, fresh, manager>>

\* Mutant: append without the clear() before it.
RMRequeueAppend ==
    /\ At(RM, "reserve") /\ MayAlloc
    /\ \E q \in Orders(snap) : queue' = queue \o q
    /\ qlock' = {} /\ snap' = {} /\ yields' = Yields + 1 /\ Goto(RM, "yield")
    /\ UNCHANGED <<current, lut, zombies, state, arg, fresh, lutR, lutW, zlock, heap, freed>>

\* ... reserve room in it and, with interrupts off, replace its contents.
RMRequeue ==
    /\ At(RM, "reserve") /\ MayAlloc
    /\ \E q \in Orders(snap) : queue' = q
    /\ qlock' = {} /\ snap' = {} /\ yields' = Yields + 1 /\ Goto(RM, "yield")
    /\ UNCHANGED <<current, lut, zombies, state, arg, fresh, lutR, lutW, zlock, heap, freed>>

-----------------------------------------------------------------------------
WorkerStep(t) ==
    \/ Alloc(t) \/ AllocDone(t) \/ Lookup(t) \/ LookupDone(t)
    \/ \E n \in Tasks : Spawn(t, n)
    \/ SpawnPush(t) \/ SpawnLut(t) \/ SpawnInsert(t)
    \/ Block(t) \/ Yield(t)
    \/ \E v \in Tasks : Wake(t, v) \/ Kill(t, v)
    \/ WakeSet(t) \/ KillLock(t) \/ KillPush(t) \/ ExitYield(t)

RMStep ==
    \/ RMYield \/ RMCleanup \/ RMScan \/ RMPop \/ RMPopNone \/ RMLut \/ RMRemove
    \/ RMFree \/ RMTable \/ RMSnapshot \/ RMQueueLock \/ RMRequeue

Next == Timer \/ RMStep \/ \E t \in Workers : WorkerStep(t)

Spec == Init /\ [][Next]_vars

\* The timer keeps ticking, and a task that keeps being given the processor
\* gets something done: a time slice is many instructions long.
FairSpec ==
    /\ Spec
    /\ WF_vars(Timer)
    /\ SF_vars(RMStep)
    /\ \A t \in Workers : SF_vars(WorkerStep(t))

-----------------------------------------------------------------------------
States == {"Ready", "Blocking", "Zombie"}
Labels == {"idle", "alloc", "lookup", "push", "tls_add", "insert", "yield", "wake",
           "update", "zpush", "exit", "unreachable", "panic", "scan", "reap",
           "remove", "removing", "free", "snap", "collect", "requeue", "reserve"}

\* The type of the state.
TypeOK ==
    /\ current \in Tasks /\ queue \in Seq(Tasks) /\ zombies \in Seq(Tasks)
    /\ lut \subseteq Tasks /\ fresh \subseteq Tasks /\ snap \subseteq Tasks
    /\ state \in [Tasks -> States] /\ pc \in [Tasks -> Labels] /\ arg \in [Tasks -> Tasks]
    /\ qlock \subseteq Tasks /\ lutR \subseteq Tasks /\ lutW \subseteq Tasks
    /\ zlock \subseteq Tasks /\ heap \subseteq Tasks
    /\ yields \in Nat /\ freed \in [Tasks -> Nat]

\* "Task tried to block on a NoBlock lock. This is a Bug." never happens: the
\* queue lock is never contended, although it is taken with interrupts on.
NoBlockNeverWaits == \A t \in Tasks : pc[t] # "panic"

\* The task that owns the run queue, or the table for writing, is the running
\* one: a switch never leaves a task behind that holds either.
SwitchLocksHeldByCurrent == qlock \cup lutW \subseteq {current}

\* A task is not picked up after cleanup freed its stack, and no stack is
\* freed twice although an id may be on the zombie list several times.
FreedNeverRuns == freed[current] = 0 /\ \A t \in Tasks : freed[t] <= 1

\* No task is queued twice, so that none gets two slices per round, and the
\* manager, without which no woken task is ever queued again, stays queued
\* unless it is itself cancelled.
QueueWellFormed ==
    /\ \A i, j \in 1..Len(queue) : i # j => queue[i] # queue[j]
    /\ state[RM] = "Ready" => RM \in Range(queue)

\* yield_now() of a task that has blocked itself does not return before it
\* has been woken, as long as the manager lives: without it the run queue may
\* become empty, and switch() then leaves the processor to its caller.
BlockedIsOffCpu ==
    state[RM] = "Ready" /\ pc[current] = "idle" => state[current] = "Ready"

\* A Ready task gets the processor, although block and wake leave it out of
\* the run queue until the manager's next reschedule().
ReadyTaskRuns == \A t \in Tasks :
    (t \in lut /\ state[t] = "Ready") ~> (current = t \/ state[t] # "Ready")

\* A spawned task runs, although its id is queued before it is in the table
\* and may be dropped from the queue in between.
SpawnedTaskRuns == \A n \in Tasks :
    (\E t \in Workers : arg[t] = n /\ pc[t] \in {"push", "tls_add", "insert"}) ~> (current = n)
=============================================================================
