----------------------------- MODULE Semaphore ------------------------------
(***************************************************************************)
(* The counting semaphore every kernel lock is built on                    *)
(* (utils/sync/primitive): StaticSemaphore<1> is the mutex, and            *)
(* StaticSemaphore<usize::MAX> the read-write lock, where a reader takes   *)
(* one permit and a writer takes all N.  Threads are preempted between any *)
(* two atomic operations, so each atomic operation is a step.              *)
(*                                                                         *)
(* Strategy "yield" is YieldWaiter (and SpinWaiter, which hlts instead of  *)
(* yielding): wait() returns and the thread retries.  Strategy "blocking"  *)
(* is BlockingWaiter: wait() queues the thread and blocks it until a       *)
(* signal() pops it.  The task's state is what the scheduler looks at; a   *)
(* Blocking thread that has yielded is not picked up again.                *)
(***************************************************************************)
EXTENDS Naturals, Sequences, FiniteSets

CONSTANTS Threads,    \* threads that use the lock
          N,          \* initial count: 1 for a mutex, the maximum for a RwLock
          Kinds,      \* the guards the lock hands out
          Strategies, \* the WaitStrategy a lock may have
          Rounds      \* bound: acquisitions each thread makes

ASSUME LockAssumption ==
    /\ IsFiniteSet(Threads)
    /\ N \in Nat \ {0}
    /\ Kinds \subseteq {"shared", "exclusive"}
    /\ Strategies \subseteq {"yield", "blocking"}
    /\ Rounds \in Nat

VARIABLES counter,    \* DynamicSemaphore.counter
          mode,       \* the guard a thread holds
          want,       \* the guard a thread in down_n is after
          pc,
          waiters,    \* BlockingWaiter.queue
          popped,     \* the id signal() has popped and not yet woken
          state,      \* TaskState of the thread
          left,       \* acquisitions still to make
          strategy    \* the strategy of the lock, fixed by its type

vars == <<counter, mode, want, pc, waiters, popped, state, left, strategy>>

\* Permits a guard of kind k is worth: lock_exclusive takes usize::MAX.
Weight(k) == IF k = "shared" THEN 1 ELSE N

Init ==
    /\ counter = N
    /\ mode = [t \in Threads |-> "none"]
    /\ want = [t \in Threads |-> "none"]
    /\ pc = [t \in Threads |-> "idle"]
    /\ waiters = <<>>
    /\ popped = [t \in Threads |-> {}]
    /\ state = [t \in Threads |-> "Ready"]
    /\ left = [t \in Threads |-> Rounds]
    /\ strategy \in Strategies

Goto(t, l) == pc' = [pc EXCEPT ![t] = l]

-----------------------------------------------------------------------------
(* Acquisition.                                                            *)

\* lock(), read() or write() is called: enter the loop of down_n.
Lock(t, k) ==
    /\ pc[t] = "idle" /\ left[t] > 0
    /\ want' = [want EXCEPT ![t] = k]
    /\ Goto(t, "down")
    /\ UNCHANGED <<counter, mode, waiters, popped, state, left>>

\* Mutant: a saturating instead of a checked subtraction.
TakeSaturating(t, k) ==
    /\ counter' = IF counter >= Weight(k) THEN counter - Weight(k) ELSE 0
    /\ mode' = [mode EXCEPT ![t] = k]
    /\ left' = [left EXCEPT ![t] = @ - 1]

\* fetch_update(checked_sub(n)) succeeds.
Take(t, k) ==
    /\ counter >= Weight(k)
    /\ counter' = counter - Weight(k)
    /\ mode' = [mode EXCEPT ![t] = k]
    /\ left' = [left EXCEPT ![t] = @ - 1]

\* try_lock() / try_read() / try_write(); a failure changes nothing.
TryLock(t, k) ==
    /\ pc[t] = "idle" /\ left[t] > 0
    /\ Take(t, k)
    /\ Goto(t, "held")
    /\ UNCHANGED <<want, waiters, popped, state>>

\* try_down_n succeeds inside down_n.
DownTake(t) ==
    /\ pc[t] = "down"
    /\ Take(t, want[t])
    /\ want' = [want EXCEPT ![t] = "none"]
    /\ Goto(t, "held")
    /\ UNCHANGED <<waiters, popped, state>>

\* try_down_n fails with LockContended: call strategy.wait().
DownContended(t) ==
    /\ pc[t] = "down"
    /\ counter < Weight(want[t])
    /\ Goto(t, "wait")
    /\ UNCHANGED <<counter, mode, want, waiters, popped, state, left>>

-----------------------------------------------------------------------------
(* strategy.wait().                                                        *)

\* YieldWaiter::wait: yield and retry.
WaitYield(t) ==
    /\ pc[t] = "wait" /\ strategy = "yield"
    /\ Goto(t, "down")
    /\ UNCHANGED <<counter, mode, want, waiters, popped, state, left>>

\* BlockingWaiter::wait: queue.push(current_tid()).
WaitPush(t) ==
    /\ pc[t] = "wait" /\ strategy = "blocking"
    /\ waiters' = Append(waiters, t)
    /\ Goto(t, "block")
    /\ UNCHANGED <<counter, mode, want, popped, state, left>>

\* BlockingWaiter::wait: task_data().block(current_tid()).
WaitBlock(t) ==
    /\ pc[t] = "block"
    /\ state' = [state EXCEPT ![t] = "Blocking"]
    /\ Goto(t, "yield")
    /\ UNCHANGED <<counter, mode, want, waiters, popped, left>>

\* BlockingWaiter::wait: yield_now() returns once the task is Ready again.
WaitResume(t) ==
    /\ pc[t] = "yield" /\ state[t] = "Ready"
    /\ Goto(t, "down")
    /\ UNCHANGED <<counter, mode, want, waiters, popped, state, left>>

-----------------------------------------------------------------------------
(* Release: fetch_add, and only then strategy.signal().                    *)

\* Mutant: the writer gives back a single permit.
UnlockOne(t) ==
    /\ pc[t] = "held"
    /\ counter' = counter + 1
    /\ mode' = [mode EXCEPT ![t] = "none"]
    /\ Goto(t, "signal")
    /\ UNCHANGED <<want, waiters, popped, state, left>>

\* Mutant: a permit is kept back, as in a downgrade.
UnlockKeepOne(t) ==
    /\ pc[t] = "held"
    /\ counter' = counter + (Weight(mode[t]) - 1)
    /\ mode' = [mode EXCEPT ![t] = "none"]
    /\ Goto(t, "signal")
    /\ UNCHANGED <<want, waiters, popped, state, left>>

\* unlock(), unlock_shared(), unlock_exclusive(): up_n's fetch_add.
Unlock(t) ==
    /\ pc[t] = "held"
    /\ counter' = counter + Weight(mode[t])
    /\ mode' = [mode EXCEPT ![t] = "none"]
    /\ Goto(t, "signal")
    /\ UNCHANGED <<want, waiters, popped, state, left>>

\* Mutant: the downgrade releases every permit, the reader's included.
DowngradeAll(t) ==
    /\ pc[t] = "held" /\ mode[t] = "exclusive" /\ "shared" \in Kinds
    /\ counter' = counter + N
    /\ mode' = [mode EXCEPT ![t] = "shared"]
    /\ Goto(t, "signal")
    /\ UNCHANGED <<want, waiters, popped, state, left>>

\* RawRwLockDowngrade::downgrade: up_n(usize::MAX - 1).
Downgrade(t) ==
    /\ pc[t] = "held" /\ mode[t] = "exclusive" /\ "shared" \in Kinds
    /\ counter' = counter + (N - 1)
    /\ mode' = [mode EXCEPT ![t] = "shared"]
    /\ Goto(t, "signal")
    /\ UNCHANGED <<want, waiters, popped, state, left>>

\* strategy.signal(): the stateless strategies do nothing, BlockingWaiter
\* pops one waiter if there is one.
Signal(t) ==
    /\ pc[t] = "signal"
    /\ IF waiters = <<>>
         THEN /\ Goto(t, IF mode[t] = "none" THEN "idle" ELSE "held")
              /\ UNCHANGED <<waiters, popped>>
         ELSE /\ popped' = [popped EXCEPT ![t] = {Head(waiters)}]
              /\ waiters' = Tail(waiters)
              /\ Goto(t, "wake")
    /\ UNCHANGED <<counter, mode, want, state, left>>

\* task_data().wake(next): only a Blocking task becomes Ready.
Wake(t) ==
    /\ pc[t] = "wake"
    /\ state' = [w \in Threads |-> IF w \in popped[t] THEN "Ready" ELSE state[w]]
    /\ popped' = [popped EXCEPT ![t] = {}]
    /\ Goto(t, IF mode[t] = "none" THEN "idle" ELSE "held")
    /\ UNCHANGED <<counter, mode, want, waiters, left>>

-----------------------------------------------------------------------------
Step(t) ==
    /\ \/ \E k \in Kinds : Lock(t, k) \/ TryLock(t, k)
       \/ DownTake(t) \/ DownContended(t)
       \/ WaitYield(t) \/ WaitPush(t) \/ WaitBlock(t) \/ WaitResume(t)
       \/ Unlock(t) \/ Downgrade(t) \/ Signal(t) \/ Wake(t)
    /\ UNCHANGED strategy

\* Every thread has made its acquisitions.
AllDone == \A t \in Threads : pc[t] = "idle" /\ left[t] = 0

Next == (\E t \in Threads : Step(t)) \/ (AllDone /\ UNCHANGED vars)

Spec == Init /\ [][Next]_vars

\* The scheduler gives every Ready thread the processor again and again.
FairSpec == Spec /\ \A t \in Threads : WF_vars(Step(t))

-----------------------------------------------------------------------------
Labels == {"idle", "down", "wait", "block", "yield", "held", "signal", "wake"}
Modes == {"none", "shared", "exclusive"}

\* The type of the state.
TypeOK ==
    /\ counter \in Nat
    /\ mode \in [Threads -> Modes]
    /\ want \in [Threads -> Modes]
    /\ pc \in [Threads -> Labels]
    /\ waiters \in Seq(Threads)
    /\ popped \in [Threads -> SUBSET Threads]
    /\ state \in [Threads -> {"Ready", "Blocking"}]
    /\ left \in [Threads -> Nat]
    /\ strategy \in Strategies

Holders(k) == {t \in Threads : mode[t] = k}

\* The permits in `counter` and the permits in guards add up to N between any
\* two atomic operations, so fetch_add never wraps the usize counter past N.
PermitsConserved ==
    counter + Cardinality(Holders("shared")) + N * Cardinality(Holders("exclusive")) = N

\* A write guard (or a mutex guard) excludes every other guard, whatever the
\* interleaving of try_down_n, up_n and downgrade.
Exclusion ==
    \A t, u \in Threads :
        mode[t] = "exclusive" /\ t # u => mode[u] = "none"

\* With YieldWaiter and SpinWaiter every thread that calls lock() in a bounded loop
\* gets all its guards and drops them: whoever waits looks at the counter again
\* each time it gets the processor. With BlockingWaiter an unlock between the
\* failed try_down and the push signals nobody, and the thread may block for ever.
YieldingThreadsFinish == strategy = "yield" => <>AllDone

\* The semaphore implements the abstract lock: down_n's fetch_update is the
\* point of acquisition, up_n's fetch_add the point of release.
Abs == INSTANCE RwLockSpec
         WITH readers <- Holders("shared"), writers <- Holders("exclusive")

RefinesRwLock == Abs!Spec
=============================================================================
