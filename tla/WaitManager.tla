---------------------------- MODULE WaitManager -----------------------------
(***************************************************************************)
(* Waiting for time and for threads: the wait queues and the observer of   *)
(* threading/wait and drivers/wait_manager.rs, the bounded queue of events *)
(* that interrupts, exits and cleanup post to it, and the system calls     *)
(* that wait (waittime, thread_join, JoinHandle::wait).                    *)
(*                                                                         *)
(* A Ready thread may be given the processor between any two steps; a      *)
(* thread that is Blocking or Zombie steps on only while it is `current`,  *)
(* that is until anybody else runs.  What the scheduler owes the threads   *)
(* is the subject of Scheduler.                                            *)
(***************************************************************************)
EXTENDS Naturals, Sequences, FiniteSets

CONSTANTS Threads,   \* the threads that wait and exit
          Idle,      \* anybody else: interrupts, observer, resource manager
          Replaced,  \* the threads whose process entry add() has replaced
          Program,   \* the calls each thread makes, in order
          MaxEvents, \* MAX_WAIT_EVENTS (20)
          MaxTime    \* bound: the clock and all deadlines stop here

\* A call: of is the thread it is about, time 0 a join without timeout.
Calls == [op : {"sleep", "join", "wait", "exit", "cancel"}, of : Threads, time : 0..MaxTime]

ASSUME WaitAssumption ==
    /\ Idle \notin Threads /\ "timer" \notin Threads /\ Replaced \subseteq Threads
    /\ MaxEvents \in Nat \ {0} /\ MaxTime \in Nat
    /\ Program \in [Threads -> Seq(Calls)]

VARIABLES current,   \* who runs
          state,     \* TaskState
          pc, todo,  \* where a thread is, and the calls it has left
          until,     \* the deadline of its call
          table,     \* the ids in TaskManager.lut
          tree,      \* the ids cleanup_tree() has not reported yet
          finished,  \* RawJoinHandle.finished
          guards,    \* WAIT_MANAGER: holders of a read guard
          timers,    \* TimeWaitQueue: pairs of thread and deadline
          queues,    \* the threads for which a Thread queue exists
          nodes,     \* GenericWaitQueue of each thread: who is enqueued
          events,    \* MESSAGE_QUEUE
          signal,    \* the queue the observer is signalling, if any
          now        \* current_time()

wait == <<timers, queues, nodes, events, signal>>
vars == <<current, state, pc, todo, until, table, tree, finished, guards, wait, now>>

\* start_wait_managment() has run and the threads have been added; the
\* tree knows only the newest thread of a process.
Init ==
    /\ current = Idle /\ now = 0
    /\ state = [t \in Threads |-> "Ready"]
    /\ pc = [t \in Threads |-> "call"] /\ todo = Program
    /\ until = [t \in Threads |-> 0]
    /\ table = Threads /\ tree = Threads \ Replaced /\ finished = {}
    /\ guards = {} /\ timers = {} /\ queues = {}
    /\ nodes = [t \in Threads |-> {}]
    /\ events = <<>> /\ signal = {}

call(t) == Head(todo[t])
Timed(c) == c.op = "sleep" \/ c.time > 0
timed(t) == Timed(call(t))
min(a, b) == IF a < b THEN a ELSE b

\* Thread t runs, at label l, and gets to label m.
At(t, l) == (state[t] = "Ready" \/ current = t) /\ pc[t] = l /\ current' = t
Goto(t, m) == pc' = [pc EXCEPT ![t] = m]

\* The call returns.
Return(t) == Goto(t, "call") /\ todo' = [todo EXCEPT ![t] = Tail(@)]

\* post_event: a full queue refuses the event, and callers ignore that.
post_event(e) == events' = IF Len(events) < MaxEvents THEN Append(events, e) ELSE events

\* WaitCondition::is_given
ThreadGiven(x) == x \notin table \/ state[x] = "Zombie"
TimeGiven(u) == u <= now
AnyGiven(t) ==
    \/ timed(t) /\ TimeGiven(until[t])
    \/ call(t).op # "sleep" /\ ThreadGiven(call(t).of)

\* TaskManager::wake
Woken(t) == IF state[t] = "Blocking" THEN [state EXCEPT ![t] = "Ready"] ELSE state

-----------------------------------------------------------------------------
(* The calls.                                                              *)

Calling(t, op) == todo[t] # <<>> /\ At(t, "call") /\ call(t).op = op

Deadline(t) == until' = [until EXCEPT ![t] = min(now + call(t).time, MaxTime)]

waittime(t) ==
    /\ Calling(t, "sleep")
    /\ Deadline(t) /\ Goto(t, "guard")
    /\ UNCHANGED <<state, todo, table, tree, finished, guards, wait, now>>

thread_join(t) ==
    /\ Calling(t, "join")
    /\ \/ call(t).of \in table /\ Goto(t, "add_queue") /\ Deadline(t) /\ UNCHANGED todo
       \/ call(t).of \notin table /\ Return(t) /\ UNCHANGED until
    /\ UNCHANGED <<state, table, tree, finished, guards, wait, now>>

JoinDone(t) == call(t).of \in finished \/ state[call(t).of] = "Zombie"

\* JoinHandle::wait: no queue is added for a task that is done.
join_wait(t) ==
    /\ Calling(t, "wait")
    /\ Goto(t, IF JoinDone(t) THEN "loop" ELSE "add_queue")
    /\ UNCHANGED <<state, todo, until, table, tree, finished, guards, wait, now>>

\* add_queue: try_insert under the write guard keeps a queue that exists.
add_queue(t) ==
    /\ At(t, "add_queue") /\ guards = {}
    /\ queues' = queues \cup {call(t).of}
    /\ nodes' = IF call(t).of \in queues THEN nodes ELSE [nodes EXCEPT ![call(t).of] = {}]
    /\ Goto(t, IF call(t).op = "wait" THEN "loop" ELSE "guard")
    /\ UNCHANGED <<state, todo, until, table, tree, finished, guards, timers, events, signal, now>>

\* The loop of JoinHandle::wait.
join_loop(t) ==
    /\ At(t, "loop")
    /\ Goto(t, IF JoinDone(t) THEN "remove_queue" ELSE "guard")
    /\ UNCHANGED <<state, todo, until, table, tree, finished, guards, wait, now>>

\* wait_self, add_wait: a read guard of the manager for the whole enqueue().
enter(t) ==
    /\ At(t, "guard")
    /\ guards' = guards \cup {t}
    /\ Goto(t, IF timed(t) THEN "enqueue_time" ELSE "enqueue_thread")
    /\ UNCHANGED <<state, todo, until, table, tree, finished, wait, now>>

\* enqueue: a condition that is given ends it, otherwise it is enqueued.
enqueue_time(t) ==
    /\ At(t, "enqueue_time")
    /\ \/ TimeGiven(until[t]) /\ Goto(t, "leave") /\ UNCHANGED timers
       \/ /\ ~TimeGiven(until[t]) /\ "timer" \notin signal
          /\ timers' = timers \cup {<<t, until[t]>>}
          /\ Goto(t, IF call(t).op = "sleep" THEN "check" ELSE "enqueue_thread")
    /\ UNCHANGED <<state, todo, until, table, tree, finished, guards, queues, nodes, events, signal, now>>

enqueue_thread(t) ==
    LET x == call(t).of
    IN  /\ At(t, "enqueue_thread")
        /\ \/ ThreadGiven(x) /\ Goto(t, "leave") /\ UNCHANGED nodes
           \/ /\ ~ThreadGiven(x) /\ x \notin signal
              /\ nodes' = IF x \in queues THEN [nodes EXCEPT ![x] = @ \cup {t}] ELSE nodes
              /\ Goto(t, "check")
        /\ UNCHANGED <<state, todo, until, table, tree, finished, guards, timers, queues, events, signal, now>>

\* enqueue: "do not block" if a condition is given by now ...
check(t) ==
    /\ At(t, "check")
    /\ Goto(t, IF AnyGiven(t) THEN "leave" ELSE "block")
    /\ UNCHANGED <<state, todo, until, table, tree, finished, guards, wait, now>>

\* ... else try_block, which finds the table unlocked: who locks it for
\* writing keeps the processor (SwitchLocksHeldByCurrent of Scheduler) ...
try_block(t) ==
    /\ At(t, "block")
    /\ state' = [state EXCEPT ![t] = "Blocking"]
    /\ Goto(t, "recheck")
    /\ UNCHANGED <<todo, until, table, tree, finished, guards, wait, now>>

\* ... and wake oneself if a condition has become true in between.
recheck(t) ==
    /\ At(t, "recheck")
    /\ state' = IF AnyGiven(t) THEN Woken(t) ELSE state
    /\ Goto(t, "leave")
    /\ UNCHANGED <<todo, until, table, tree, finished, guards, wait, now>>

leave(t) ==
    /\ At(t, "leave")
    /\ guards' = guards \ {t} /\ Goto(t, "yield")
    /\ UNCHANGED <<state, todo, until, table, tree, finished, wait, now>>

\* yield_now() returns once t is Ready and picked again.
yield_now(t) ==
    /\ pc[t] = "yield" /\ state[t] = "Ready" /\ current' = t
    /\ \/ call(t).op = "sleep" /\ Return(t)
       \/ call(t).op = "join" /\ Goto(t, "remove_queue") /\ UNCHANGED todo
       \/ call(t).op = "wait" /\ Goto(t, "loop") /\ UNCHANGED todo
    /\ UNCHANGED <<state, until, table, tree, finished, guards, wait, now>>

\* (Mutant of remove_queue: a read guard is taken for a write guard.)
remove_queue_shared(t) ==
    /\ At(t, "remove_queue")
    /\ queues' = queues \ {call(t).of}
    /\ nodes' = [nodes EXCEPT ![call(t).of] = {}]
    /\ Return(t)
    /\ UNCHANGED <<state, until, table, tree, finished, guards, timers, events, signal, now>>

\* remove_queue drops the queue with all that is enqueued in it.
remove_queue(t) ==
    /\ At(t, "remove_queue") /\ guards = {}
    /\ queues' = queues \ {call(t).of}
    /\ nodes' = [nodes EXCEPT ![call(t).of] = {}]
    /\ Return(t)
    /\ UNCHANGED <<state, until, table, tree, finished, guards, timers, events, signal, now>>

-----------------------------------------------------------------------------
(* Threads that end, and the resource manager.                             *)

\* The closure of a spawned thread sets `finished`, then calls exit() ...
finish(t) ==
    /\ Calling(t, "exit")
    /\ finished' = finished \cup {t} /\ Goto(t, "post")
    /\ UNCHANGED <<state, todo, until, table, tree, guards, wait, now>>

\* ... which posts the event first ...
exit_post(t) ==
    /\ At(t, "post")
    /\ post_event(t) /\ Goto(t, "kill")
    /\ UNCHANGED <<state, todo, until, table, tree, finished, guards, timers, queues, nodes, signal, now>>

\* ... and then kills the thread.
exit_kill(t) ==
    /\ At(t, "kill")
    /\ state' = [state EXCEPT ![t] = "Zombie"] /\ Goto(t, "dead")
    /\ UNCHANGED <<todo, until, table, tree, finished, guards, wait, now>>

thread_cancel(t) ==
    /\ Calling(t, "cancel")
    /\ state' = IF call(t).of \in table THEN [state EXCEPT ![call(t).of] = "Zombie"] ELSE state
    /\ Goto(t, "cancelled")
    /\ UNCHANGED <<todo, until, table, tree, finished, guards, wait, now>>

cancel_post(t) ==
    /\ At(t, "cancelled")
    /\ post_event(call(t).of) /\ Return(t)
    /\ UNCHANGED <<state, until, table, tree, finished, guards, timers, queues, nodes, signal, now>>

\* cleanup_tree() reports a Zombie once ...
cleanup_tree(x) ==
    /\ x \in tree /\ state[x] = "Zombie" /\ current' = Idle
    /\ post_event(x) /\ tree' = tree \ {x}
    /\ UNCHANGED <<state, pc, todo, until, table, finished, guards, timers, queues, nodes, signal, now>>

\* ... and cleanup() takes it out of the table.
cleanup(x) ==
    /\ x \in table /\ state[x] = "Zombie" /\ current' = Idle
    /\ table' = table \ {x}
    /\ UNCHANGED <<state, pc, todo, until, tree, finished, guards, wait, now>>

-----------------------------------------------------------------------------
(* The timer and the observer.                                             *)

\* timer_interrupt_handler_local_
tick ==
    /\ now' = min(now + 1, MaxTime) /\ current' = Idle
    /\ post_event("timer")
    /\ UNCHANGED <<state, pc, todo, until, table, tree, finished, guards, timers, queues, nodes, signal>>

\* process_signals: with a read guard, take events until there are none; an
\* event for a queue that does not exist is dropped.
observe ==
    /\ current' = Idle
    /\ \/ /\ Idle \notin guards
          /\ guards' = guards \cup {Idle} /\ UNCHANGED <<events, signal>>
       \/ /\ Idle \in guards /\ signal = {} /\ events # <<>>
          /\ events' = Tail(events) /\ signal' = {Head(events)} \cap (queues \cup {"timer"})
          /\ UNCHANGED guards
       \/ /\ Idle \in guards /\ signal = {} /\ events = <<>>
          /\ guards' = guards \ {Idle} /\ UNCHANGED <<events, signal>>
    /\ UNCHANGED <<state, pc, todo, until, table, tree, finished, timers, queues, nodes, now>>

\* (Mutant of signal_time: drained like the other queues, woken if due.)
signal_time_drain ==
    /\ signal = {"timer"} /\ current' = Idle
    /\ \/ \E n \in timers :
            /\ timers' = timers \ {n}
            /\ state' = IF TimeGiven(n[2]) /\ n[1] \in table THEN Woken(n[1]) ELSE state
            /\ UNCHANGED signal
       \/ timers = {} /\ signal' = {} /\ UNCHANGED <<timers, state>>
    /\ UNCHANGED <<pc, todo, until, table, tree, finished, guards, queues, nodes, events, now>>

\* TimeWaitQueue::signal wakes and pops what is due ...
signal_time ==
    /\ signal = {"timer"} /\ current' = Idle
    /\ \/ \E n \in timers :
            /\ TimeGiven(n[2]) /\ timers' = timers \ {n}
            /\ state' = IF n[1] \in table THEN Woken(n[1]) ELSE state
            /\ UNCHANGED signal
       \/ /\ \A n \in timers : ~TimeGiven(n[2])
          /\ signal' = {} /\ UNCHANGED <<timers, state>>
    /\ UNCHANGED <<pc, todo, until, table, tree, finished, guards, queues, nodes, events, now>>

\* (Mutant of signal_thread: wakes whatever the condition, as KeyBoardQueue.)
signal_thread_unchecked(x) ==
    /\ signal = {x} /\ current' = Idle
    /\ \/ \E w \in nodes[x] :
            /\ nodes' = [nodes EXCEPT ![x] = @ \ {w}]
            /\ state' = IF w \in table THEN Woken(w) ELSE state
            /\ UNCHANGED signal
       \/ nodes[x] = {} /\ signal' = {} /\ UNCHANGED <<nodes, state>>
    /\ UNCHANGED <<pc, todo, until, table, tree, finished, guards, timers, queues, events, now>>

\* ... GenericWaitQueue::signal drains its queue and wakes where the
\* condition of the node is given.
signal_thread(x) ==
    /\ signal = {x} /\ current' = Idle
    /\ \/ \E w \in nodes[x] :
            /\ nodes' = [nodes EXCEPT ![x] = @ \ {w}]
            /\ state' = IF ThreadGiven(x) /\ w \in table THEN Woken(w) ELSE state
            /\ UNCHANGED signal
       \/ nodes[x] = {} /\ signal' = {} /\ UNCHANGED <<nodes, state>>
    /\ UNCHANGED <<pc, todo, until, table, tree, finished, guards, timers, queues, events, now>>

-----------------------------------------------------------------------------
Step(t) ==
    \/ waittime(t) \/ thread_join(t) \/ join_wait(t) \/ add_queue(t) \/ join_loop(t)
    \/ enter(t) \/ enqueue_time(t) \/ enqueue_thread(t) \/ check(t) \/ try_block(t)
    \/ recheck(t) \/ leave(t) \/ yield_now(t) \/ remove_queue(t)
    \/ finish(t) \/ exit_post(t) \/ exit_kill(t) \/ thread_cancel(t) \/ cancel_post(t)

Observer == observe \/ signal_time \/ \E x \in Threads : signal_thread(x)

Cleanup == \E x \in Threads : cleanup_tree(x) \/ cleanup(x)

Next == tick \/ Observer \/ Cleanup \/ \E t \in Threads : Step(t)

Spec == Init /\ [][Next]_vars

\* The timer ticks, the observer and the resource manager loop for ever, and
\* a Ready thread keeps getting time slices.  A pass of the observer is
\* shorter than the time until the queue fills again: it ends some time.
FairSpec ==
    /\ Spec
    /\ []<>(Idle \notin guards)
    /\ WF_vars(tick) /\ WF_vars(Observer) /\ WF_vars(Cleanup)
    /\ \A t \in Threads : SF_vars(Step(t))
-----------------------------------------------------------------------------
(* Properties.                                                             *)

Labels == {"call", "add_queue", "loop", "guard", "enqueue_time", "enqueue_thread", "check",
           "block", "recheck", "leave", "yield", "remove_queue", "post", "kill", "dead", "cancelled"}

\* The state has its type; the event queue never holds more than
\* MAX_WAIT_EVENTS, whoever posts and however slow the observer is.
TypeOK ==
    /\ current \in Threads \cup {Idle} /\ now \in 0..MaxTime
    /\ state \in [Threads -> {"Ready", "Blocking", "Zombie"}]
    /\ pc \in [Threads -> Labels]
    /\ todo \in [Threads -> Seq(Calls)]
    /\ until \in [Threads -> 0..MaxTime]
    /\ table \subseteq Threads /\ tree \subseteq Threads /\ finished \subseteq Threads
    /\ guards \subseteq Threads \cup {Idle}
    /\ timers \subseteq Threads \X (0..MaxTime)
    /\ queues \subseteq Threads /\ nodes \in [Threads -> SUBSET Threads]
    /\ events \in Seq(Threads \cup {"timer"}) /\ Len(events) <= MaxEvents
    /\ signal \subseteq Threads \cup {"timer"}

\* enqueue: a thread that is Blocking with a deadline still ahead is in the
\* timer queue with that deadline, so a timer event can find it: neither
\* the observer nor another thread's add_queue or remove_queue loses it.
TimerNodeKept ==
    \A t \in Threads :
        state[t] = "Blocking" /\ timed(t) /\ ~TimeGiven(until[t]) => <<t, until[t]>> \in timers

\* A call t has returned from had a deadline: its timer node may still be in
\* the queue, since only a timer event removes it.
TimedBefore(t) ==
    \E i \in 1 .. (Len(Program[t]) - Len(todo[t])) : Timed(Program[t][i])

\* wait_self: a wait that is over, or that never blocked, returns to a caller
\* for which one of its conditions is given: waittime does not return before
\* its deadline, and an untimed join not before the target is dead, even
\* though exit() posts its event while the target is still alive.  Only the
\* timer node of an earlier call of the same thread can wake it too soon.
NoEarlyReturn ==
    \A t \in Threads :
        pc[t] = "yield" /\ state[t] = "Ready" => AnyGiven(t) \/ TimedBefore(t)

\* WAIT_MANAGER: while the observer signals a queue, that queue exists and
\* nobody can remove it; the read guard it holds keeps the writers out.
SignalledQueueExists == signal \cap Threads \subseteq queues

\* A blocked thread that is in the timer queue is woken (or killed).
EnqueuedSleeperWakes ==
    \A t \in Threads :
        (state[t] = "Blocking" /\ <<t, until[t]>> \in timers) ~> (state[t] # "Blocking")

\* enqueue: "we must now block it and ensure, that it van still be woken up":
\* every call of waittime returns.
SleepReturns ==
    \A t \in Threads : (pc[t] = "guard" /\ call(t).op = "sleep") ~> (pc[t] = "call")
=============================================================================
