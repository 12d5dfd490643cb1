------------------------- MODULE WaitManagerProofs --------------------------
(***************************************************************************)
(* The wait manager for any number of threads, any calls they make, and    *)
(* any size of the event queue: the state has its type, a queue that is    *)
(* being signalled is not removed, and a blocked thread whose deadline is  *)
(* ahead is in the timer queue.                                            *)
(***************************************************************************)
EXTENDS WaitManager, TLAPS

\* Steps are proved by SMT unless they name another prover.
USE SMTT(30)

\* Between its start and its return, a thread has a call.
CallInv == \A t \in Threads : pc[t] # "call" => todo[t] # <<>>

\* Signalling happens under the observer's read guard.
SignalInv == (signal # {} => Idle \in guards) /\ SignalledQueueExists

\* The labels of a timed wait from where its timer node has been pushed.
Pushed == {"enqueue_thread", "check", "block", "recheck", "leave", "yield"}

\* A thread is Blocking only past try_block, and from the push on a deadline
\* that is ahead has its node.
TimerInv ==
    \A t \in Threads :
        /\ state[t] = "Blocking" => pc[t] \in {"recheck", "leave", "yield"}
        /\ pc[t] \in Pushed /\ timed(t) /\ ~TimeGiven(until[t]) => <<t, until[t]>> \in timers

IInv == TypeOK /\ CallInv /\ SignalInv /\ TimerInv

\* The labels of a wait, from its call to its return.
Waits == {"add_queue", "loop", "guard", "enqueue_time", "enqueue_thread", "check", "block",
          "recheck", "leave", "yield", "remove_queue"}

\* What is left of a program is its end.
SuffixInv ==
    \A t \in Threads :
        /\ Len(todo[t]) <= Len(Program[t])
        /\ \A i \in 1 .. Len(todo[t]) :
              todo[t][i] = Program[t][Len(Program[t]) - Len(todo[t]) + i]

\* Which calls get to which labels.
OpInv ==
    \A t \in Threads :
        /\ pc[t] \in Waits => call(t).op \in {"sleep", "join", "wait"}
        /\ pc[t] \in {"add_queue", "loop", "enqueue_thread", "remove_queue"} => call(t).op # "sleep"
        /\ pc[t] = "enqueue_time" => timed(t)

\* x is a Zombie that will not run again: somebody else has the processor.
Dead(x) == state[x] = "Zombie" /\ current # x

\* cleanup() takes only such threads out of the table.
TableInv == \A x \in Threads : x \notin table => Dead(x)

\* A timer node is that of the call its thread is in, or an old one.
TimerOwner ==
    \A n \in timers :
        \/ TimedBefore(n[1])
        \/ pc[n[1]] # "call" /\ timed(n[1]) /\ n[2] = until[n[1]]

\* Who is enqueued for x is in a call that waits for x.
NodeOwner ==
    \A x \in Threads : \A t \in nodes[x] :
        pc[t] \in Waits /\ call(t).op # "sleep" /\ call(t).of = x

\* A condition of t's call is given, and for good.
Given(t) ==
    \/ timed(t) /\ TimeGiven(until[t])
    \/ call(t).op # "sleep" /\ Dead(call(t).of)

\* A thread past try_block is Ready only if it may return.
WakeInv ==
    \A t \in Threads :
        pc[t] \in {"recheck", "leave", "yield"} /\ state[t] = "Ready" => Given(t) \/ TimedBefore(t)

WInv == SuffixInv /\ OpInv /\ TableInv /\ TimerOwner /\ NodeOwner /\ WakeInv

-----------------------------------------------------------------------------
\* What a call is, for a thread that has one.
LEMMA CallType ==
    ASSUME TypeOK, NEW t \in Threads, todo[t] # <<>>
    PROVE  /\ call(t).of \in Threads /\ call(t).time \in 0..MaxTime
           /\ Tail(todo[t]) \in Seq(Calls)
<1>1. todo[t] \in Seq(Calls)
  BY Zenon DEF TypeOK
<1>2. Head(todo[t]) \in Calls /\ Tail(todo[t]) \in Seq(Calls)
  BY <1>1
<1> QED
  BY <1>2, Zenon DEF call, Calls

\* A deadline is within the bound of the clock.
LEMMA DeadlineType ==
    ASSUME TypeOK, NEW t \in Threads, call(t).time \in 0..MaxTime
    PROVE  min(now + call(t).time, MaxTime) \in 0..MaxTime
<1>1. now \in 0..MaxTime /\ MaxTime \in Nat
  BY WaitAssumption, Zenon DEF TypeOK
<1> DEFINE d == call(t).time
<1>2. d \in 0..MaxTime
  BY Zenon
<1> HIDE DEF d
<1>3. min(now + d, MaxTime) \in 0..MaxTime
  BY <1>1, <1>2 DEF min
<1> QED
  BY <1>3, Zenon DEF d

\* An update of one wait queue.
LEMMA NodesUpdate ==
    ASSUME NEW f \in [Threads -> SUBSET Threads], NEW x \in Threads, NEW S \in SUBSET Threads
    PROVE  [f EXCEPT ![x] = S] \in [Threads -> SUBSET Threads]
BY Zenon

\* post_event keeps the event queue within its bound.
LEMMA PostType ==
    ASSUME TypeOK, NEW e \in Threads \cup {"timer"}, post_event(e)
    PROVE  events' \in Seq(Threads \cup {"timer"}) /\ Len(events') <= MaxEvents
<1> DEFINE E == Threads \cup {"timer"}
<1>1. events \in Seq(E) /\ Len(events) <= MaxEvents /\ e \in E /\ MaxEvents \in Nat
  BY WaitAssumption, Zenon DEF TypeOK
<1>2. CASE Len(events) < MaxEvents
  <2>1. events' = Append(events, e)
    BY <1>2, Zenon DEF post_event
  <2> HIDE DEF E
  <2>2. Append(events, e) \in Seq(E) /\ Len(Append(events, e)) = Len(events) + 1
    BY <1>1
  <2> QED
    BY <1>1, <1>2, <2>1, <2>2 DEF E
<1>3. CASE ~(Len(events) < MaxEvents)
  BY <1>1, <1>3, Zenon DEF post_event
<1> QED
  BY <1>2, <1>3, Zenon

\* Every step of a thread keeps the types.
LEMMA StepType ==
    ASSUME TypeOK, CallInv, NEW t \in Threads, Step(t)
    PROVE  TypeOK' /\ CallInv'
<1> USE WaitAssumption
<1>1. CASE waittime(t)
  <2>1. todo[t] # <<>>
    BY <1>1, Zenon DEF waittime, Calling
  <2>2. call(t).of \in Threads /\ call(t).time \in 0..MaxTime /\ Tail(todo[t]) \in Seq(Calls)
    BY <2>1, CallType, Zenon
  <2>3. min(now + call(t).time, MaxTime) \in 0..MaxTime
    BY <2>2, DeadlineType, Zenon
  <2> QED
    BY <1>1, <2>1, <2>2, <2>3, Zenon DEF waittime, Calling, At, Goto, Deadline, wait, TypeOK, CallInv, Labels
<1>2. CASE thread_join(t)
  <2>1. todo[t] # <<>>
    BY <1>2, Zenon DEF thread_join, Calling
  <2>2. call(t).of \in Threads /\ call(t).time \in 0..MaxTime /\ Tail(todo[t]) \in Seq(Calls)
    BY <2>1, CallType
  <2>3. min(now + call(t).time, MaxTime) \in 0..MaxTime
    BY <2>2, DeadlineType
  <2>4. CASE call(t).of \in table
    <3>1. /\ pc' = [pc EXCEPT ![t] = "add_queue"] /\ todo' = todo /\ current' = t
          /\ until' = [until EXCEPT ![t] = min(now + call(t).time, MaxTime)]
          /\ UNCHANGED <<state, table, tree, finished, guards, wait, now>>
      BY <1>2, <2>4, Zenon DEF thread_join, Calling, At, Goto, Deadline
    <3> QED
      BY <2>1, <2>3, <3>1, Zenon DEF wait, TypeOK, CallInv, Labels
  <2>5. CASE call(t).of \notin table
    <3>1. /\ pc' = [pc EXCEPT ![t] = "call"] /\ current' = t
          /\ todo' = [todo EXCEPT ![t] = Tail(todo[t])]
          /\ UNCHANGED <<state, until, table, tree, finished, guards, wait, now>>
      BY <1>2, <2>5, Zenon DEF thread_join, Calling, At, Goto, Return
    <3> QED
      BY <2>2, <3>1, Zenon DEF wait, TypeOK, CallInv, Labels
  <2> QED
    BY <1>2, <2>4, <2>5, Zenon DEF thread_join
<1>3. CASE join_wait(t)
  <2>1. todo[t] # <<>>
    BY <1>3, Zenon DEF join_wait, Calling
  <2>2. call(t).of \in Threads /\ call(t).time \in 0..MaxTime /\ Tail(todo[t]) \in Seq(Calls)
    BY <2>1, CallType
  <2> QED
    BY <1>3, <2>1, <2>2, Zenon DEF join_wait, Calling, At, Goto, wait, TypeOK, CallInv, Labels
<1>4. CASE add_queue(t)
  <2>1. todo[t] # <<>>
    BY <1>4, Zenon DEF add_queue, At, CallInv
  <2>2. call(t).of \in Threads /\ call(t).time \in 0..MaxTime /\ Tail(todo[t]) \in Seq(Calls)
    BY <2>1, CallType
  <2> QED
    BY <1>4, <2>1, <2>2, Zenon DEF add_queue, At, Goto, wait, TypeOK, CallInv, Labels
<1>5. CASE join_loop(t)
  <2>1. todo[t] # <<>>
    BY <1>5, Zenon DEF join_loop, At, CallInv
  <2>2. call(t).of \in Threads /\ call(t).time \in 0..MaxTime /\ Tail(todo[t]) \in Seq(Calls)
    BY <2>1, CallType
  <2> QED
    BY <1>5, <2>1, <2>2, Zenon DEF join_loop, At, Goto, wait, TypeOK, CallInv, Labels
<1>6. CASE enter(t)
  <2>1. todo[t] # <<>>
    BY <1>6, Zenon DEF enter, At, CallInv
  <2>2. call(t).of \in Threads /\ call(t).time \in 0..MaxTime /\ Tail(todo[t]) \in Seq(Calls)
    BY <2>1, CallType
  <2> QED
    BY <1>6, <2>1, <2>2, Zenon DEF enter, At, Goto, wait, TypeOK, CallInv, Labels
<1>7. CASE enqueue_time(t)
  <2>1. todo[t] # <<>>
    BY <1>7, Zenon DEF enqueue_time, At, CallInv
  <2>2. call(t).of \in Threads /\ call(t).time \in 0..MaxTime /\ Tail(todo[t]) \in Seq(Calls)
    BY <2>1, CallType
  <2>4. CASE TimeGiven(until[t])
    BY <1>7, <2>1, <2>4, SMTT(30) DEF enqueue_time, At, Goto, TypeOK, CallInv, Labels
  <2>5. CASE ~TimeGiven(until[t])
    <3>1. /\ timers' = timers \cup {<<t, until[t]>>}
          /\ \/ pc' = [pc EXCEPT ![t] = "check"] \/ pc' = [pc EXCEPT ![t] = "enqueue_thread"]
          /\ current' = t
          /\ UNCHANGED <<state, todo, until, table, tree, finished, guards, queues, nodes,
                         events, signal, now>>
      BY <1>7, <2>5, Zenon DEF enqueue_time, At, Goto
    <3>2. timers' \subseteq Threads \X (0..MaxTime)
      BY <3>1 DEF TypeOK
    <3>3. pc' \in [Threads -> Labels]
      BY <3>1, Zenon DEF TypeOK, Labels
    <3>4. TypeOK'
      BY <3>1, <3>2, <3>3, Zenon DEF TypeOK
    <3>5. \A u \in Threads \ {t} : pc'[u] = pc[u]
      BY <3>1, Zenon DEF TypeOK
    <3>6. CallInv'
      BY <2>1, <3>1, <3>5, Zenon DEF CallInv
    <3> QED
      BY <3>4, <3>6, Zenon
  <2> QED
    BY <1>7, <2>4, <2>5, Zenon DEF enqueue_time
<1>8. CASE enqueue_thread(t)
  <2>1. todo[t] # <<>>
    BY <1>8, Zenon DEF enqueue_thread, At, CallInv
  <2>2. call(t).of \in Threads /\ call(t).time \in 0..MaxTime /\ Tail(todo[t]) \in Seq(Calls)
    BY <2>1, CallType
  <2>4. CASE ThreadGiven(call(t).of)
    <3>1. /\ pc' = [pc EXCEPT ![t] = "leave"] /\ nodes' = nodes /\ current' = t
          /\ UNCHANGED <<state, todo, until, table, tree, finished, guards, timers, queues, events, signal, now>>
      BY <1>8, <2>4, Zenon DEF enqueue_thread, At, Goto
    <3> QED
      BY <2>1, <3>1, Zenon DEF TypeOK, CallInv, Labels
  <2>5. CASE ~ThreadGiven(call(t).of)
    <3>1. /\ pc' = [pc EXCEPT ![t] = "check"] /\ current' = t
          /\ \/ nodes' = nodes
             \/ nodes' = [nodes EXCEPT ![call(t).of] = nodes[call(t).of] \cup {t}]
          /\ UNCHANGED <<state, todo, until, table, tree, finished, guards, timers, queues, events, signal, now>>
      BY <1>8, <2>5, Zenon DEF enqueue_thread, At, Goto
    <3> DEFINE x == call(t).of
    <3>2. x \in Threads /\ nodes \in [Threads -> SUBSET Threads]
      BY <2>2, Zenon DEF TypeOK
    <3>3. nodes[x] \cup {t} \in SUBSET Threads
      BY <3>2, Zenon
    <3>4. [nodes EXCEPT ![x] = nodes[x] \cup {t}] \in [Threads -> SUBSET Threads]
      BY <3>2, <3>3, NodesUpdate, Zenon
    <3>5. nodes' \in [Threads -> SUBSET Threads]
      BY <3>1, <3>2, <3>4, Zenon
    <3> QED
      BY <2>1, <3>1, <3>5, Zenon DEF TypeOK, CallInv, Labels
  <2> QED
    BY <1>8, <2>4, <2>5, Zenon DEF enqueue_thread
<1>9. CASE check(t)
  <2>1. todo[t] # <<>>
    BY <1>9, Zenon DEF check, At, CallInv
  <2>2. call(t).of \in Threads /\ call(t).time \in 0..MaxTime /\ Tail(todo[t]) \in Seq(Calls)
    BY <2>1, CallType
  <2> QED
    BY <1>9, <2>1, <2>2, Zenon DEF check, At, Goto, wait, TypeOK, CallInv, Labels
<1>10. CASE try_block(t)
  <2>1. todo[t] # <<>>
    BY <1>10, Zenon DEF try_block, At, CallInv
  <2>2. call(t).of \in Threads /\ call(t).time \in 0..MaxTime /\ Tail(todo[t]) \in Seq(Calls)
    BY <2>1, CallType
  <2> QED
    BY <1>10, <2>1, <2>2, Zenon DEF try_block, At, Goto, wait, TypeOK, CallInv, Labels
<1>11. CASE recheck(t)
  <2>1. todo[t] # <<>>
    BY <1>11, Zenon DEF recheck, At, CallInv
  <2>2. call(t).of \in Threads /\ call(t).time \in 0..MaxTime /\ Tail(todo[t]) \in Seq(Calls)
    BY <2>1, CallType
  <2> QED
    BY <1>11, <2>1, <2>2, Zenon DEF recheck, At, Goto, Woken, wait, TypeOK, CallInv, Labels
<1>12. CASE leave(t)
  <2>1. todo[t] # <<>>
    BY <1>12, Zenon DEF leave, At, CallInv
  <2>2. call(t).of \in Threads /\ call(t).time \in 0..MaxTime /\ Tail(todo[t]) \in Seq(Calls)
    BY <2>1, CallType
  <2> QED
    BY <1>12, <2>1, <2>2, Zenon DEF leave, At, Goto, wait, TypeOK, CallInv, Labels
<1>13. CASE yield_now(t)
  <2>1. todo[t] # <<>>
    BY <1>13, Zenon DEF yield_now, CallInv
  <2>2. call(t).of \in Threads /\ call(t).time \in 0..MaxTime /\ Tail(todo[t]) \in Seq(Calls)
    BY <2>1, CallType
  <2>4. CASE call(t).op = "sleep"
    <3>1. /\ pc' = [pc EXCEPT ![t] = "call"] /\ current' = t
          /\ todo' = [todo EXCEPT ![t] = Tail(todo[t])]
          /\ UNCHANGED <<state, until, table, tree, finished, guards, wait, now>>
      BY <1>13, <2>4, Zenon DEF yield_now, Goto, Return
    <3> QED
      BY <2>2, <3>1 DEF wait, TypeOK, CallInv, Labels
  <2>5. CASE call(t).op = "join"
    <3>1. /\ pc' = [pc EXCEPT ![t] = "remove_queue"] /\ current' = t /\ UNCHANGED todo
          /\ UNCHANGED <<state, until, table, tree, finished, guards, wait, now>>
      BY <1>13, <2>5, Zenon DEF yield_now, Goto, Return
    <3> QED
      BY <2>1, <3>1, Zenon DEF wait, TypeOK, CallInv, Labels
  <2>6. CASE call(t).op = "wait"
    <3>1. /\ pc' = [pc EXCEPT ![t] = "loop"] /\ current' = t /\ UNCHANGED todo
          /\ UNCHANGED <<state, until, table, tree, finished, guards, wait, now>>
      BY <1>13, <2>6, Zenon DEF yield_now, Goto, Return
    <3> QED
      BY <2>1, <3>1, Zenon DEF wait, TypeOK, CallInv, Labels
  <2> QED
    BY <1>13, <2>4, <2>5, <2>6, Zenon DEF yield_now
<1>14. CASE remove_queue(t)
  <2>1. todo[t] # <<>>
    BY <1>14, Zenon DEF remove_queue, At, CallInv
  <2>2. call(t).of \in Threads /\ call(t).time \in 0..MaxTime /\ Tail(todo[t]) \in Seq(Calls)
    BY <2>1, CallType
  <2> QED
    BY <1>14, <2>1, <2>2, Zenon DEF remove_queue, At, Goto, Return, wait, TypeOK, CallInv, Labels
<1>15. CASE finish(t)
  <2>1. todo[t] # <<>>
    BY <1>15, Zenon DEF finish, Calling
  <2>2. call(t).of \in Threads /\ call(t).time \in 0..MaxTime /\ Tail(todo[t]) \in Seq(Calls)
    BY <2>1, CallType
  <2> QED
    BY <1>15, <2>1, <2>2, Zenon DEF finish, Calling, At, Goto, wait, TypeOK, CallInv, Labels
<1>16. CASE exit_post(t)
  <2>1. todo[t] # <<>>
    BY <1>16, Zenon DEF exit_post, At, CallInv
  <2>2. call(t).of \in Threads /\ call(t).time \in 0..MaxTime /\ Tail(todo[t]) \in Seq(Calls)
    BY <2>1, CallType
  <2>3. post_event(t) /\ t \in Threads
    BY <1>16, <2>2, Zenon DEF exit_post
  <2>4. events' \in Seq(Threads \cup {"timer"}) /\ Len(events') <= MaxEvents
    BY <2>3, PostType, Zenon
  <2> QED
    BY <1>16, <2>1, <2>2, <2>4, Zenon DEF exit_post, At, Goto, TypeOK, CallInv, Labels
<1>17. CASE exit_kill(t)
  <2>1. todo[t] # <<>>
    BY <1>17, Zenon DEF exit_kill, At, CallInv
  <2>2. call(t).of \in Threads /\ call(t).time \in 0..MaxTime /\ Tail(todo[t]) \in Seq(Calls)
    BY <2>1, CallType
  <2> QED
    BY <1>17, <2>1, <2>2, Zenon DEF exit_kill, At, Goto, wait, TypeOK, CallInv, Labels
<1>18. CASE thread_cancel(t)
  <2>1. todo[t] # <<>>
    BY <1>18, Zenon DEF thread_cancel, Calling
  <2>2. call(t).of \in Threads /\ call(t).time \in 0..MaxTime /\ Tail(todo[t]) \in Seq(Calls)
    BY <2>1, CallType
  <2> QED
    BY <1>18, <2>1, <2>2, Zenon DEF thread_cancel, Calling, At, Goto, wait, TypeOK, CallInv, Labels
<1>19. CASE cancel_post(t)
  <2>1. todo[t] # <<>>
    BY <1>19, Zenon DEF cancel_post, At, CallInv
  <2>2. call(t).of \in Threads /\ call(t).time \in 0..MaxTime /\ Tail(todo[t]) \in Seq(Calls)
    BY <2>1, CallType
  <2>3. post_event(call(t).of) /\ call(t).of \in Threads
    BY <1>19, <2>2, Zenon DEF cancel_post
  <2>4. events' \in Seq(Threads \cup {"timer"}) /\ Len(events') <= MaxEvents
    BY <2>3, PostType, Zenon
  <2> QED
    BY <1>19, <2>1, <2>2, <2>4, Zenon DEF cancel_post, At, Goto, Return, TypeOK, CallInv, Labels
<1> QED
  BY <1>1, <1>2, <1>3, <1>4, <1>5, <1>6, <1>7, <1>8, <1>9, <1>10, <1>11, <1>12, <1>13, <1>14, <1>15, <1>16, <1>17, <1>18, <1>19, Zenon DEF Step

\* The steps that are not of a thread keep the types, too.
LEMMA OtherType ==
    ASSUME TypeOK, CallInv, tick \/ Observer \/ Cleanup
    PROVE  TypeOK' /\ CallInv'
<1> USE WaitAssumption
<1>1. CASE tick
  <2>1. min(now + 1, MaxTime) \in 0..MaxTime
    BY DEF TypeOK, min
  <2>2. events' \in Seq(Threads \cup {"timer"}) /\ Len(events') <= MaxEvents
    BY <1>1, PostType, Zenon DEF tick
  <2> QED
    BY <1>1, <2>1, <2>2, Zenon DEF tick, TypeOK, CallInv
<1>2. CASE observe
  <2>1. /\ events' \in Seq(Threads \cup {"timer"}) /\ Len(events') <= MaxEvents
        /\ signal' \subseteq Threads \cup {"timer"}
    <3> DEFINE E == Threads \cup {"timer"}
    <3>1. events \in Seq(E) /\ Len(events) <= MaxEvents /\ signal \subseteq E /\ queues \subseteq E
      BY Zenon DEF TypeOK
    <3>2. CASE events' = Tail(events) /\ events # <<>> /\ signal' = {Head(events)} \cap (queues \cup {"timer"})
      <4>1. signal' \subseteq E
        BY <3>1, <3>2, Zenon
      <4> HIDE DEF E
      <4>2. Tail(events) \in Seq(E) /\ Len(Tail(events)) = Len(events) - 1 /\ Len(events) \in Nat
        BY <3>1, <3>2
      <4> QED
        BY <3>1, <3>2, <4>1, <4>2 DEF E
    <3>3. CASE UNCHANGED <<events, signal>>
      BY <3>1, <3>3, Zenon
    <3> QED
      BY <1>2, <3>2, <3>3, Zenon DEF observe
  <2>2. guards' \subseteq Threads \cup {Idle}
    BY <1>2, Zenon DEF observe, TypeOK
  <2> QED
    BY <1>2, <2>1, <2>2, Zenon DEF observe, TypeOK, CallInv
<1>3. CASE signal_time
  <2>1. timers' \subseteq timers /\ state' \in [Threads -> {"Ready", "Blocking", "Zombie"}]
        /\ (signal' = signal \/ signal' = {})
    BY <1>3 DEF signal_time, TypeOK, Woken
  <2> QED
    BY <1>3, <2>1, Zenon DEF signal_time, TypeOK, CallInv
<1>4. ASSUME NEW x \in Threads, signal_thread(x) PROVE TypeOK' /\ CallInv'
  <2>1. /\ current' = Idle
        /\ UNCHANGED <<pc, todo, until, table, tree, finished, guards, timers, queues, events, now>>
    BY <1>4, Zenon DEF signal_thread
  <2>2. CASE nodes' = nodes /\ state' = state /\ signal' = {}
    BY <2>1, <2>2, Zenon DEF TypeOK, CallInv
  <2>3. ASSUME NEW w \in nodes[x], signal' = signal,
               nodes' = [nodes EXCEPT ![x] = nodes[x] \ {w}],
               state' = IF ThreadGiven(x) /\ w \in table THEN Woken(w) ELSE state
        PROVE  TypeOK' /\ CallInv'
    <3>1. nodes \in [Threads -> SUBSET Threads] /\ nodes[x] \ {w} \in SUBSET Threads
      BY Zenon DEF TypeOK
    <3>2. nodes' \in [Threads -> SUBSET Threads]
      BY <2>3, <3>1, NodesUpdate, Zenon
    <3>3. state' \in [Threads -> {"Ready", "Blocking", "Zombie"}]
      BY <2>3, Zenon DEF TypeOK, Woken
    <3> QED
      BY <2>1, <2>3, <3>2, <3>3, Zenon DEF TypeOK, CallInv
  <2> QED
    BY <1>4, <2>2, <2>3, Zenon DEF signal_thread
<1>5. ASSUME NEW x \in Threads, cleanup_tree(x) PROVE TypeOK' /\ CallInv'
  <2>1. events' \in Seq(Threads \cup {"timer"}) /\ Len(events') <= MaxEvents
    BY <1>5, PostType, Zenon DEF cleanup_tree
  <2> QED
    BY <1>5, <2>1, Zenon DEF cleanup_tree, TypeOK, CallInv
<1>6. ASSUME NEW x \in Threads, cleanup(x) PROVE TypeOK' /\ CallInv'
  BY <1>6, Zenon DEF cleanup, wait, TypeOK, CallInv
<1> QED
  BY <1>1, <1>2, <1>3, <1>4, <1>5, <1>6, Zenon DEF Observer, Cleanup

-----------------------------------------------------------------------------
\* thread_join goes on to add a queue, or returns at once.
LEMMA JoinCases ==
    ASSUME NEW t \in Threads, thread_join(t)
    PROVE  /\ pc[t] = "call" /\ todo[t] # <<>> /\ call(t).op = "join"
           /\ current' = t /\ (state[t] = "Ready" \/ current = t)
           /\ UNCHANGED <<state, table, tree, finished, guards, timers, queues, nodes, events,
                          signal, now>>
           /\ \/ /\ pc' = [pc EXCEPT ![t] = "add_queue"] /\ todo' = todo
                 /\ until' = [until EXCEPT ![t] = min(now + call(t).time, MaxTime)]
              \/ /\ pc' = [pc EXCEPT ![t] = "call"] /\ until' = until
                 /\ todo' = [todo EXCEPT ![t] = Tail(todo[t])]
<1>1. Calling(t, "join") /\ UNCHANGED <<state, table, tree, finished, guards, wait, now>>
  BY Zenon DEF thread_join
<1>2. /\ pc[t] = "call" /\ todo[t] # <<>> /\ call(t).op = "join"
      /\ current' = t /\ (state[t] = "Ready" \/ current = t)
  BY <1>1, Zenon DEF Calling, At
<1>3. \/ /\ pc' = [pc EXCEPT ![t] = "add_queue"] /\ todo' = todo
         /\ until' = [until EXCEPT ![t] = min(now + call(t).time, MaxTime)]
      \/ /\ pc' = [pc EXCEPT ![t] = "call"] /\ until' = until
         /\ todo' = [todo EXCEPT ![t] = Tail(todo[t])]
  BY Zenon DEF thread_join, Goto, Return, Deadline
<1> QED
  BY <1>1, <1>2, <1>3, Zenon DEF wait

\* The frame of a step of thread t.
Framed(t) ==
    /\ signal' = signal /\ (Idle \in guards' <=> Idle \in guards)
    /\ queues \subseteq queues' \/ guards = {}
    /\ now' = now /\ timers \subseteq timers'
    /\ \A u \in Threads \ {t} :
         /\ pc'[u] = pc[u] /\ todo'[u] = todo[u] /\ until'[u] = until[u]
         /\ state'[u] = "Blocking" => state[u] = "Blocking"

\* What a step of thread t leaves alone: the observer's business, the clock,
\* the timers of everybody, and the place of every other thread; it makes
\* nobody else Blocking.
LEMMA StepFrame ==
    ASSUME TypeOK, CallInv, NEW t \in Threads, Step(t)
    PROVE  Framed(t)
<1>0. /\ state \in [Threads -> {"Ready", "Blocking", "Zombie"}]
      /\ pc \in [Threads -> Labels]
      /\ todo \in [Threads -> Seq(Calls)]
      /\ until \in [Threads -> 0..MaxTime]
  BY Zenon DEF TypeOK
<1> USE <1>0, WaitAssumption
<1>1. CASE waittime(t)
  BY <1>1, Zenon DEF waittime, Calling, At, Goto, Deadline, wait, Framed
<1>2. CASE thread_join(t)
  <2>1. /\ signal' = signal /\ guards' = guards /\ queues' = queues /\ now' = now
        /\ timers' = timers /\ state' = state
    BY <1>2, JoinCases, Zenon
  <2>2. \A u \in Threads \ {t} : pc'[u] = pc[u] /\ todo'[u] = todo[u] /\ until'[u] = until[u]
    <3>1. DOMAIN pc = Threads /\ DOMAIN todo = Threads /\ DOMAIN until = Threads
      BY Zenon DEF TypeOK
    <3>2. \E a, b, d : /\ pc' = [pc EXCEPT ![t] = a]
                       /\ todo' = [todo EXCEPT ![t] = b] \/ todo' = todo
                       /\ until' = [until EXCEPT ![t] = d] \/ until' = until
      BY <1>2, JoinCases, Zenon
    <3> QED BY <3>1, <3>2
  <2> QED BY <2>1, <2>2, Zenon DEF Framed
<1>3. CASE join_wait(t)
  BY <1>3, Zenon DEF join_wait, Calling, At, Goto, wait, Framed
<1>4. CASE add_queue(t)
  BY <1>4, Zenon DEF add_queue, At, Goto, wait, Framed
<1>5. CASE join_loop(t)
  BY <1>5, Zenon DEF join_loop, At, Goto, wait, Framed
<1>6. CASE enter(t)
  BY <1>6, Zenon DEF enter, At, Goto, wait, Framed
<1>7. CASE enqueue_time(t)
  BY <1>7, Zenon DEF enqueue_time, At, Goto, wait, Framed
<1>8. CASE enqueue_thread(t)
  BY <1>8, Zenon DEF enqueue_thread, At, Goto, wait, Framed
<1>9. CASE check(t)
  BY <1>9, Zenon DEF check, At, Goto, wait, Framed
<1>10. CASE try_block(t)
  BY <1>10, Zenon DEF try_block, At, Goto, wait, Framed
<1>11. CASE recheck(t)
  BY <1>11, Zenon DEF recheck, At, Goto, Woken, wait, Framed
<1>12. CASE leave(t)
  BY <1>12, Zenon DEF leave, At, Goto, wait, Framed
<1>13. CASE yield_now(t)
  BY <1>13, Zenon DEF yield_now, Goto, Return, wait, Framed
<1>14. CASE remove_queue(t)
  BY <1>14, Zenon DEF remove_queue, At, Goto, Return, wait, Framed
<1>15. CASE finish(t)
  BY <1>15, Zenon DEF finish, Calling, At, Goto, wait, Framed
<1>16. CASE exit_post(t)
  BY <1>16, Zenon DEF exit_post, At, Goto, wait, Framed
<1>17. CASE exit_kill(t)
  BY <1>17, Zenon DEF exit_kill, At, Goto, wait, Framed
<1>18. CASE thread_cancel(t)
  BY <1>18, Zenon DEF thread_cancel, Calling, At, Goto, wait, Framed
<1>19. CASE cancel_post(t)
  BY <1>19, Zenon DEF cancel_post, At, Goto, Return, wait, Framed
<1> QED
  BY <1>1, <1>2, <1>3, <1>4, <1>5, <1>6, <1>7, <1>8, <1>9, <1>10, <1>11, <1>12, <1>13, <1>14, <1>15, <1>16, <1>17, <1>18, <1>19, Zenon DEF Step

\* The same for the steps that are not of a thread: no thread moves, no timer
\* goes before it is due, and nobody becomes Blocking.
LEMMA OtherFrame ==
    ASSUME TypeOK, tick \/ Observer \/ Cleanup
    PROVE  /\ pc' = pc /\ todo' = todo /\ until' = until /\ now <= now'
           /\ \A n \in timers : TimeGiven(n[2]) \/ n \in timers'
           /\ \A u \in Threads : state'[u] = "Blocking" => state[u] = "Blocking"
<1>1. CASE tick
  <2>1. now <= min(now + 1, MaxTime)
    BY WaitAssumption DEF TypeOK, min
  <2> QED
    BY <1>1, <2>1, Zenon DEF tick
<1>2. now \in Nat
  BY WaitAssumption DEF TypeOK
<1>3. CASE observe
  BY <1>2, <1>3 DEF observe
<1>4. CASE signal_time
  BY <1>2, <1>4 DEF signal_time, Woken, TypeOK
<1>5. ASSUME NEW x \in Threads, signal_thread(x)
      PROVE  /\ pc' = pc /\ todo' = todo /\ until' = until /\ now' = now /\ timers' = timers
             /\ \A u \in Threads : state'[u] = "Blocking" => state[u] = "Blocking"
  BY <1>5 DEF signal_thread, Woken, TypeOK
<1>6. ASSUME NEW x \in Threads, cleanup_tree(x) \/ cleanup(x)
      PROVE  UNCHANGED <<pc, todo, until, now, timers, state>>
  BY <1>6, Zenon DEF cleanup_tree, cleanup, wait
<1> QED
  BY <1>1, <1>2, <1>3, <1>4, <1>5, <1>6 DEF Observer, Cleanup

\* Nobody can remove the queue that is being signalled.
LEMMA NextSignalInv ==
    ASSUME TypeOK, CallInv, SignalInv, Next
    PROVE  SignalInv'
<1> USE WaitAssumption DEF SignalInv, SignalledQueueExists
<1>1. CASE tick
  BY <1>1, Zenon DEF tick
<1>2. CASE observe
  BY <1>2, Zenon DEF observe, TypeOK
<1>3. CASE signal_time
  BY <1>3, Zenon DEF signal_time
<1>4. ASSUME NEW x \in Threads, signal_thread(x) PROVE SignalInv'
  BY <1>4, Zenon DEF signal_thread
<1>5. ASSUME NEW x \in Threads, cleanup_tree(x) \/ cleanup(x) PROVE SignalInv'
  BY <1>5, Zenon DEF cleanup_tree, cleanup, wait
<1>6. ASSUME NEW t \in Threads, Step(t) PROVE SignalInv'
  BY <1>6, StepFrame, Zenon DEF Framed
<1> QED
  BY <1>1, <1>2, <1>3, <1>4, <1>5, <1>6, Zenon DEF Next, Observer, Cleanup

\* The part of TimerInv about t, after a step.
TimerKept(t) ==
    /\ state'[t] = "Blocking" => pc'[t] \in {"recheck", "leave", "yield"}
    /\ pc'[t] \in Pushed /\ timed(t)' /\ ~TimeGiven(until[t])' => <<t, until'[t]>> \in timers'

\* A thread that takes a step keeps its part of TimerInv.
LEMMA StepTimerInv ==
    ASSUME TypeOK, CallInv, TimerInv, NEW t \in Threads, Step(t)
    PROVE  TimerKept(t)
<1>0. /\ state \in [Threads -> {"Ready", "Blocking", "Zombie"}]
      /\ pc \in [Threads -> Labels]
      /\ todo \in [Threads -> Seq(Calls)]
      /\ until \in [Threads -> 0..MaxTime]
  BY Zenon DEF TypeOK
<1> USE <1>0 DEF TimerInv, Pushed, TimeGiven, timed, Timed, call
<1>1. CASE waittime(t)
  BY <1>1, Zenon DEF waittime, Calling, At, Goto, Deadline, wait, TimerKept
<1>2. CASE thread_join(t)
  BY <1>2, JoinCases, ZenonT(20) DEF TimerKept
<1>3. CASE join_wait(t)
  BY <1>3, Zenon DEF join_wait, Calling, At, Goto, wait, TimerKept
<1>4. CASE add_queue(t)
  BY <1>4, Zenon DEF add_queue, At, Goto, wait, TimerKept
<1>5. CASE join_loop(t)
  BY <1>5, Zenon DEF join_loop, At, Goto, wait, TimerKept
<1>6. CASE enter(t)
  BY <1>6, Zenon DEF enter, At, Goto, wait, TimerKept
<1>7. CASE enqueue_time(t)
  BY <1>7, Zenon DEF enqueue_time, At, Goto, wait, TimerKept
<1>8. CASE enqueue_thread(t)
  BY <1>8, Zenon DEF enqueue_thread, At, Goto, wait, TimerKept
<1>9. CASE check(t)
  BY <1>9, Zenon DEF check, At, Goto, wait, TimerKept
<1>10. CASE try_block(t)
  BY <1>10, Zenon DEF try_block, At, Goto, wait, TimerKept
<1>11. CASE recheck(t)
  BY <1>11, Zenon DEF recheck, At, Goto, Woken, wait, TimerKept
<1>12. CASE leave(t)
  BY <1>12, Zenon DEF leave, At, Goto, wait, TimerKept
<1>13. CASE yield_now(t)
  BY <1>13, Zenon DEF yield_now, Goto, Return, wait, TimerKept
<1>14. CASE remove_queue(t)
  BY <1>14, Zenon DEF remove_queue, At, Goto, Return, wait, TimerKept
<1>15. CASE finish(t)
  BY <1>15, Zenon DEF finish, Calling, At, Goto, wait, TimerKept
<1>16. CASE exit_post(t)
  BY <1>16, Zenon DEF exit_post, At, Goto, wait, TimerKept
<1>17. CASE exit_kill(t)
  BY <1>17, Zenon DEF exit_kill, At, Goto, wait, TimerKept
<1>18. CASE thread_cancel(t)
  BY <1>18, Zenon DEF thread_cancel, Calling, At, Goto, wait, TimerKept
<1>19. CASE cancel_post(t)
  BY <1>19, Zenon DEF cancel_post, At, Goto, Return, wait, TimerKept
<1> QED
  BY <1>1, <1>2, <1>3, <1>4, <1>5, <1>6, <1>7, <1>8, <1>9, <1>10, <1>11, <1>12, <1>13, <1>14, <1>15, <1>16, <1>17, <1>18, <1>19, Zenon DEF Step

\* So does everybody else.
LEMMA NextTimerInv ==
    ASSUME TypeOK, CallInv, TimerInv, Next
    PROVE  TimerInv'
<1>1. ASSUME NEW t \in Threads, Step(t) PROVE TimerInv'
  <2>1. /\ state'[t] = "Blocking" => pc'[t] \in {"recheck", "leave", "yield"}
        /\ pc'[t] \in Pushed /\ timed(t)' /\ ~TimeGiven(until[t])' => <<t, until'[t]>> \in timers'
    BY <1>1, StepTimerInv, Zenon DEF TimerKept
  <2>2. /\ now' = now /\ timers \subseteq timers'
        /\ \A u \in Threads \ {t} :
             /\ pc'[u] = pc[u] /\ todo'[u] = todo[u] /\ until'[u] = until[u]
             /\ state'[u] = "Blocking" => state[u] = "Blocking"
    BY <1>1, StepFrame, Zenon DEF Framed
  <2> QED
    BY <2>1, <2>2, Zenon DEF TimerInv, timed, Timed, call, TimeGiven
<1>2. ASSUME tick \/ Observer \/ Cleanup PROVE TimerInv'
  <2>1. /\ pc' = pc /\ todo' = todo /\ until' = until /\ now <= now'
        /\ \A n \in timers : TimeGiven(n[2]) \/ n \in timers'
        /\ \A u \in Threads : state'[u] = "Blocking" => state[u] = "Blocking"
    BY <1>2, OtherFrame, Zenon
  <2>2. TypeOK'
    BY <1>2, OtherType, Zenon
  <2>3. now \in Nat /\ now' \in Nat /\ \A u \in Threads : until[u] \in Nat
    BY <2>2, WaitAssumption DEF TypeOK
  <2>4. \A u \in Threads : ~TimeGiven(until[u])' => ~TimeGiven(until[u])
    BY <2>1, <2>3 DEF TimeGiven
  <2> QED
    BY <2>1, <2>4, Zenon DEF TimerInv, timed, Timed, call
<1> QED
  BY <1>1, <1>2, Zenon DEF Next

-----------------------------------------------------------------------------
(* When a wait returns.                                                    *)

\* Who runs a step of t, and whom it can kill.
Runs(t) ==
    /\ current' = t /\ (state[t] = "Ready" \/ current = t)
    /\ table' = table
    /\ \A u \in Threads \ {t} : state'[u] = state[u] \/ state'[u] = "Zombie"

\* A thread that steps has the processor, has had it or is Ready; it can
\* only kill another thread.
LEMMA StepRuns ==
    ASSUME TypeOK, CallInv, NEW t \in Threads, Step(t)
    PROVE  Runs(t)
<1>0. /\ state \in [Threads -> {"Ready", "Blocking", "Zombie"}]
  BY Zenon DEF TypeOK
<1> USE <1>0
<1>1. CASE waittime(t)
  BY <1>1, Zenon DEF waittime, Calling, At, Goto, Deadline, wait, Runs
<1>2. CASE thread_join(t)
  BY <1>2, JoinCases, Zenon DEF Runs
<1>3. CASE join_wait(t)
  BY <1>3, Zenon DEF join_wait, Calling, At, Goto, wait, Runs
<1>4. CASE add_queue(t)
  BY <1>4, Zenon DEF add_queue, At, Goto, wait, Runs
<1>5. CASE join_loop(t)
  BY <1>5, Zenon DEF join_loop, At, Goto, wait, Runs
<1>6. CASE enter(t)
  BY <1>6, Zenon DEF enter, At, Goto, wait, Runs
<1>7. CASE enqueue_time(t)
  BY <1>7, Zenon DEF enqueue_time, At, Goto, wait, Runs
<1>8. CASE enqueue_thread(t)
  BY <1>8, Zenon DEF enqueue_thread, At, Goto, wait, Runs
<1>9. CASE check(t)
  BY <1>9, Zenon DEF check, At, Goto, wait, Runs
<1>10. CASE try_block(t)
  BY <1>10, Zenon DEF try_block, At, Goto, wait, Runs
<1>11. CASE recheck(t)
  BY <1>11, Zenon DEF recheck, At, Goto, Woken, wait, Runs
<1>12. CASE leave(t)
  BY <1>12, Zenon DEF leave, At, Goto, wait, Runs
<1>13. CASE yield_now(t)
  BY <1>13, Zenon DEF yield_now, Goto, Return, wait, Runs
<1>14. CASE remove_queue(t)
  BY <1>14, Zenon DEF remove_queue, At, Goto, Return, wait, Runs
<1>15. CASE finish(t)
  BY <1>15, Zenon DEF finish, Calling, At, Goto, wait, Runs
<1>16. CASE exit_post(t)
  BY <1>16, Zenon DEF exit_post, At, Goto, wait, Runs
<1>17. CASE exit_kill(t)
  BY <1>17, Zenon DEF exit_kill, At, Goto, wait, Runs
<1>18. CASE thread_cancel(t)
  BY <1>18, Zenon DEF thread_cancel, Calling, At, Goto, wait, Runs
<1>19. CASE cancel_post(t)
  BY <1>19, Zenon DEF cancel_post, At, Goto, Return, wait, Runs
<1> QED
  BY <1>1, <1>2, <1>3, <1>4, <1>5, <1>6, <1>7, <1>8, <1>9, <1>10, <1>11, <1>12, <1>13, <1>14, <1>15, <1>16, <1>17, <1>18, <1>19, Zenon DEF Step

\* A thread that is dead stays so.
LEMMA DeadStable ==
    ASSUME TypeOK, CallInv, Next, NEW x \in Threads, Dead(x)
    PROVE  Dead(x)'
<1> USE WaitAssumption DEF Dead
<1>1. ASSUME NEW t \in Threads, Step(t) PROVE Dead(x)'
  BY <1>1, StepRuns, Zenon DEF Runs
<1>2. CASE tick
  BY <1>2, Zenon DEF tick
<1>3. CASE observe
  BY <1>3, Zenon DEF observe
<1>4. CASE signal_time
  BY <1>4 DEF signal_time, Woken, TypeOK
<1>5. ASSUME NEW y \in Threads, signal_thread(y) PROVE Dead(x)'
  BY <1>5 DEF signal_thread, Woken, TypeOK
<1>6. ASSUME NEW y \in Threads, cleanup_tree(y) \/ cleanup(y) PROVE Dead(x)'
  BY <1>6, Zenon DEF cleanup_tree, cleanup
<1> QED
  BY <1>1, <1>2, <1>3, <1>4, <1>5, <1>6, Zenon DEF Next, Observer, Cleanup

\* What leaves the table is dead.
LEMMA NextTableInv ==
    ASSUME TypeOK, CallInv, TableInv, Next
    PROVE  TableInv'
<1>1. \A x \in Threads : Dead(x) => Dead(x)'
  BY DeadStable, Zenon
<1>2. \A x \in Threads : x \in table /\ x \notin table' => Dead(x)'
  <2> USE WaitAssumption DEF Dead
  <2>1. ASSUME NEW t \in Threads, Step(t) PROVE table' = table
    BY <2>1, StepRuns, Zenon DEF Runs
  <2>2. CASE tick
    BY <2>2, Zenon DEF tick
  <2>3. CASE Observer
    BY <2>3, Zenon DEF Observer, observe, signal_time, signal_thread
  <2>4. ASSUME NEW y \in Threads, cleanup_tree(y) PROVE table' = table
    BY <2>4, Zenon DEF cleanup_tree
  <2>5. ASSUME NEW y \in Threads, cleanup(y)
        PROVE  \A x \in Threads : x \in table /\ x \notin table' => Dead(x)'
    BY <2>5, Zenon DEF cleanup
  <2> QED
    BY <2>1, <2>2, <2>3, <2>4, <2>5, Zenon DEF Next, Cleanup
<1> QED
  BY <1>1, <1>2, Zenon DEF TableInv

-----------------------------------------------------------------------------
\* How the calls left change.
Advances(t) ==
    \/ todo' = todo /\ pc'[t] # "call"
    \/ /\ pc'[t] = "call" /\ todo[t] # <<>>
       /\ todo' = [todo EXCEPT ![t] = Tail(todo[t])]

\* A step of t leaves the calls of t alone or returns from the first one.
LEMMA StepTodo ==
    ASSUME TypeOK, CallInv, NEW t \in Threads, Step(t)
    PROVE  Advances(t)
<1>0. /\ pc \in [Threads -> Labels]
      /\ todo \in [Threads -> Seq(Calls)]
  BY Zenon DEF TypeOK
<1> USE <1>0
<1>1. CASE waittime(t)
  BY <1>1, Zenon DEF waittime, Calling, At, Goto, Deadline, wait, CallInv, Advances
<1>2. CASE thread_join(t)
  BY <1>2, JoinCases, Zenon DEF Advances
<1>3. CASE join_wait(t)
  BY <1>3, Zenon DEF join_wait, Calling, At, Goto, wait, CallInv, Advances
<1>4. CASE add_queue(t)
  BY <1>4, Zenon DEF add_queue, At, Goto, wait, CallInv, Advances
<1>5. CASE join_loop(t)
  BY <1>5, Zenon DEF join_loop, At, Goto, wait, CallInv, Advances
<1>6. CASE enter(t)
  BY <1>6, Zenon DEF enter, At, Goto, wait, CallInv, Advances
<1>7. CASE enqueue_time(t)
  BY <1>7, Zenon DEF enqueue_time, At, Goto, wait, CallInv, Advances
<1>8. CASE enqueue_thread(t)
  BY <1>8, Zenon DEF enqueue_thread, At, Goto, wait, CallInv, Advances
<1>9. CASE check(t)
  BY <1>9, Zenon DEF check, At, Goto, wait, CallInv, Advances
<1>10. CASE try_block(t)
  BY <1>10, Zenon DEF try_block, At, Goto, wait, CallInv, Advances
<1>11. CASE recheck(t)
  BY <1>11, Zenon DEF recheck, At, Goto, Woken, wait, CallInv, Advances
<1>12. CASE leave(t)
  BY <1>12, Zenon DEF leave, At, Goto, wait, CallInv, Advances
<1>13. CASE yield_now(t)
  BY <1>13, Zenon DEF yield_now, Goto, Return, wait, CallInv, Advances
<1>14. CASE remove_queue(t)
  BY <1>14, Zenon DEF remove_queue, At, Goto, Return, wait, CallInv, Advances
<1>15. CASE finish(t)
  BY <1>15, Zenon DEF finish, Calling, At, Goto, wait, CallInv, Advances
<1>16. CASE exit_post(t)
  BY <1>16, Zenon DEF exit_post, At, Goto, wait, CallInv, Advances
<1>17. CASE exit_kill(t)
  BY <1>17, Zenon DEF exit_kill, At, Goto, wait, CallInv, Advances
<1>18. CASE thread_cancel(t)
  BY <1>18, Zenon DEF thread_cancel, Calling, At, Goto, wait, CallInv, Advances
<1>19. CASE cancel_post(t)
  BY <1>19, Zenon DEF cancel_post, At, Goto, Return, wait, CallInv, Advances
<1> QED
  BY <1>1, <1>2, <1>3, <1>4, <1>5, <1>6, <1>7, <1>8, <1>9, <1>10, <1>11, <1>12, <1>13, <1>14, <1>15, <1>16, <1>17, <1>18, <1>19, Zenon DEF Step

\* The call a thread is in is the first of its program it has not returned
\* from; after the return it is one it has returned from.
LEMMA ReturnSuffix ==
    ASSUME TypeOK, SuffixInv, NEW t \in Threads, todo[t] # <<>>,
           todo' = [todo EXCEPT ![t] = Tail(todo[t])]
    PROVE  /\ SuffixInv' /\ (timed(t) => TimedBefore(t)')
           /\ TimedBefore(t) => TimedBefore(t)'
<1> DEFINE p == Program[t]
           s == todo[t]
<1>1. p \in Seq(Calls) /\ s \in Seq(Calls) /\ s # <<>>
  BY WaitAssumption, Zenon DEF TypeOK
<1>2. todo'[t] = Tail(s) /\ \A u \in Threads \ {t} : todo'[u] = todo[u]
  BY Zenon DEF TypeOK
<1>3. Len(s) <= Len(p) /\ \A i \in 1 .. Len(s) : s[i] = p[Len(p) - Len(s) + i]
  BY Zenon DEF SuffixInv
<1> HIDE DEF p, s
<1>4. Len(p) \in Nat /\ Len(s) \in Nat /\ Len(s) > 0
  BY <1>1
<1>5. Len(Tail(s)) = Len(s) - 1 /\ \A i \in 1 .. (Len(s) - 1) : Tail(s)[i] = s[i + 1]
  BY <1>1, <1>4
<1>6. \A i \in 1 .. Len(Tail(s)) : Tail(s)[i] = p[Len(p) - Len(Tail(s)) + i]
  <2> SUFFICES ASSUME NEW i \in 1 .. (Len(s) - 1)
               PROVE  Tail(s)[i] = p[Len(p) - (Len(s) - 1) + i]
    BY <1>5, Zenon
  <2>1. i + 1 \in 1 .. Len(s) /\ Len(p) - Len(s) + (i + 1) = Len(p) - (Len(s) - 1) + i
    BY <1>4
  <2> QED
    BY <1>3, <1>5, <2>1, Zenon
<1>7. SuffixInv'
  <2>1. Len(Tail(s)) <= Len(p)
    BY <1>3, <1>4, <1>5
  <2> QED
    <3> SUFFICES ASSUME NEW u \in Threads
                 PROVE  /\ Len(todo'[u]) <= Len(Program[u])
                        /\ \A i \in 1 .. Len(todo'[u]) :
                             todo'[u][i] = Program[u][Len(Program[u]) - Len(todo'[u]) + i]
      BY Zenon DEF SuffixInv
    <3>1. CASE u = t
      <4>1. todo'[u] = Tail(s) /\ Program[u] = p
        BY <1>2, <3>1, Zenon DEF p
      <4> QED BY <1>6, <2>1, <4>1, Zenon
    <3>2. CASE u # t
      <4>1. todo'[u] = todo[u]
        BY <1>2, <3>2, Zenon
      <4> QED
        BY <4>1, Zenon DEF SuffixInv
    <3> QED
      BY <3>1, <3>2, Zenon
<1>8. Head(s) = p[Len(p) - Len(s) + 1]
  BY <1>1, <1>3, <1>4
<1>9. TimedBefore(t)' <=> \E i \in 1 .. (Len(p) - Len(Tail(s))) : Timed(p[i])
  BY <1>2, Zenon DEF TimedBefore, p
<1>10. TimedBefore(t) <=> \E i \in 1 .. (Len(p) - Len(s)) : Timed(p[i])
  BY Zenon DEF TimedBefore, p, s
<1>11. Len(p) - Len(Tail(s)) = Len(p) - Len(s) + 1 /\ Len(p) - Len(s) \in Nat
  <2> DEFINE m == Len(p)
             n == Len(s)
  <2>1. m \in Nat /\ n \in Nat /\ n <= m /\ Len(Tail(s)) = n - 1
    BY <1>3, <1>4, <1>5, Zenon
  <2> HIDE DEF m, n
  <2>2. m - (n - 1) = m - n + 1 /\ m - n \in Nat
    BY <2>1
  <2> QED
    BY <2>1, <2>2, Zenon DEF m, n
<1>12. timed(t) <=> Timed(Head(s))
  BY Zenon DEF timed, call, s
<1>13. timed(t) => TimedBefore(t)'
  <2> DEFINE k == Len(p) - Len(s)
  <2>1. k \in Nat /\ Len(p) - Len(Tail(s)) = k + 1 /\ Head(s) = p[k + 1]
    BY <1>8, <1>11, Zenon
  <2> HIDE DEF k
  <2>2. k + 1 \in 1 .. (k + 1)
    BY <2>1
  <2> QED
    BY <1>9, <1>12, <2>1, <2>2, Zenon
<1>14. TimedBefore(t) => TimedBefore(t)'
  <2> DEFINE k == Len(p) - Len(s)
  <2>1. k \in Nat /\ Len(p) - Len(Tail(s)) = k + 1
    BY <1>11, Zenon
  <2> HIDE DEF k
  <2>2. 1 .. k \subseteq 1 .. (k + 1)
    BY <2>1
  <2> QED
    BY <1>9, <1>10, <2>1, <2>2, Zenon DEF k
<1> QED
  BY <1>7, <1>13, <1>14, Zenon

\* So what is left of a program is its end, always, and a timed call that
\* has returned is not forgotten.
LEMMA NextSuffixInv ==
    ASSUME TypeOK, CallInv, SuffixInv, Next
    PROVE  /\ SuffixInv'
           /\ \A u \in Threads : TimedBefore(u) => TimedBefore(u)'
<1>1. CASE todo' = todo
  BY <1>1, Zenon DEF SuffixInv, TimedBefore
<1>2. ASSUME NEW t \in Threads, todo[t] # <<>>, todo' = [todo EXCEPT ![t] = Tail(todo[t])]
      PROVE  /\ SuffixInv'
             /\ \A u \in Threads : TimedBefore(u) => TimedBefore(u)'
  <2>1. \A u \in Threads \ {t} : todo'[u] = todo[u]
    BY <1>2, Zenon DEF TypeOK
  <2>2. \A u \in Threads \ {t} : TimedBefore(u) => TimedBefore(u)'
    BY <2>1, Zenon DEF TimedBefore
  <2>3. SuffixInv' /\ (TimedBefore(t) => TimedBefore(t)')
    BY <1>2, ReturnSuffix, Zenon
  <2> QED
    BY <2>2, <2>3, Zenon
<1>3. ASSUME NEW t \in Threads, Step(t)
      PROVE  /\ SuffixInv'
             /\ \A u \in Threads : TimedBefore(u) => TimedBefore(u)'
  <2>1. CASE todo' = todo
    BY <1>1, <2>1, Zenon
  <2>2. CASE todo[t] # <<>> /\ todo' = [todo EXCEPT ![t] = Tail(todo[t])]
    BY <1>2, <2>2, Zenon
  <2> QED
    BY <1>3, <2>1, <2>2, StepTodo, Zenon DEF Advances
<1>4. CASE tick \/ Observer \/ Cleanup
  BY <1>1, <1>4, OtherFrame, Zenon
<1> QED
  BY <1>1, <1>2, <1>3, <1>4, Zenon DEF Next

-----------------------------------------------------------------------------
\* The part of OpInv about t, after a step.
OpKept(t) ==
    /\ pc'[t] \in Waits => call(t)'.op \in {"sleep", "join", "wait"}
    /\ pc'[t] \in {"add_queue", "loop", "enqueue_thread", "remove_queue"} => call(t)'.op # "sleep"
    /\ pc'[t] = "enqueue_time" => timed(t)'

\* A thread that steps is at a label of its call.
LEMMA StepOpInv ==
    ASSUME TypeOK, CallInv, OpInv, NEW t \in Threads, Step(t)
    PROVE  OpKept(t)
<1>0. /\ pc \in [Threads -> Labels]
      /\ todo \in [Threads -> Seq(Calls)]
  BY Zenon DEF TypeOK
<1> USE <1>0 DEF OpInv, Waits, timed, Timed, call
<1>1. CASE waittime(t)
  BY <1>1, Zenon DEF waittime, Calling, At, Goto, Deadline, wait, OpKept
<1>2. CASE thread_join(t)
  BY <1>2, JoinCases, Zenon DEF OpKept
<1>3. CASE join_wait(t)
  BY <1>3, Zenon DEF join_wait, Calling, At, Goto, wait, OpKept
<1>4. CASE add_queue(t)
  BY <1>4, Zenon DEF add_queue, At, Goto, wait, OpKept
<1>5. CASE join_loop(t)
  BY <1>5, Zenon DEF join_loop, At, Goto, wait, OpKept
<1>6. CASE enter(t)
  BY <1>6, Zenon DEF enter, At, Goto, wait, OpKept
<1>7. CASE enqueue_time(t)
  BY <1>7, Zenon DEF enqueue_time, At, Goto, wait, OpKept
<1>8. CASE enqueue_thread(t)
  BY <1>8, Zenon DEF enqueue_thread, At, Goto, wait, OpKept
<1>9. CASE check(t)
  BY <1>9, Zenon DEF check, At, Goto, wait, OpKept
<1>10. CASE try_block(t)
  BY <1>10, Zenon DEF try_block, At, Goto, wait, OpKept
<1>11. CASE recheck(t)
  BY <1>11, Zenon DEF recheck, At, Goto, Woken, wait, OpKept
<1>12. CASE leave(t)
  BY <1>12, Zenon DEF leave, At, Goto, wait, OpKept
<1>13. CASE yield_now(t)
  BY <1>13, Zenon DEF yield_now, Goto, Return, wait, OpKept
<1>14. CASE remove_queue(t)
  BY <1>14, Zenon DEF remove_queue, At, Goto, Return, wait, OpKept
<1>15. CASE finish(t)
  BY <1>15, Zenon DEF finish, Calling, At, Goto, wait, OpKept
<1>16. CASE exit_post(t)
  BY <1>16, Zenon DEF exit_post, At, Goto, wait, OpKept
<1>17. CASE exit_kill(t)
  BY <1>17, Zenon DEF exit_kill, At, Goto, wait, OpKept
<1>18. CASE thread_cancel(t)
  BY <1>18, Zenon DEF thread_cancel, Calling, At, Goto, wait, OpKept
<1>19. CASE cancel_post(t)
  BY <1>19, Zenon DEF cancel_post, At, Goto, Return, wait, OpKept
<1> QED
  BY <1>1, <1>2, <1>3, <1>4, <1>5, <1>6, <1>7, <1>8, <1>9, <1>10, <1>11, <1>12, <1>13, <1>14, <1>15, <1>16, <1>17, <1>18, <1>19, Zenon DEF Step

\* So is everybody.
LEMMA NextOpInv ==
    ASSUME TypeOK, CallInv, OpInv, Next
    PROVE  OpInv'
<1>1. ASSUME NEW t \in Threads, Step(t) PROVE OpInv'
  <2>1. /\ pc'[t] \in Waits => call(t)'.op \in {"sleep", "join", "wait"}
        /\ pc'[t] \in {"add_queue", "loop", "enqueue_thread", "remove_queue"} => call(t)'.op # "sleep"
        /\ pc'[t] = "enqueue_time" => timed(t)'
    BY <1>1, StepOpInv, Zenon DEF OpKept
  <2>2. \A u \in Threads \ {t} : pc'[u] = pc[u] /\ todo'[u] = todo[u]
    BY <1>1, StepFrame, Zenon DEF Framed
  <2> QED
    BY <2>1, <2>2, Zenon DEF OpInv, timed, call
<1>2. ASSUME tick \/ Observer \/ Cleanup PROVE OpInv'
  BY <1>2, OtherFrame, Zenon DEF OpInv, timed, call
<1> QED
  BY <1>1, <1>2 DEF Next

-----------------------------------------------------------------------------
\* What becomes of the timer nodes, and of the deadline of t.
Pushes(t) ==
    /\ \/ timers' = timers
       \/ /\ pc[t] = "enqueue_time" /\ timers' = timers \cup {<<t, until[t]>>}
          /\ until' = until /\ todo' = todo /\ pc'[t] # "call"
    /\ pc[t] # "call" => until'[t] = until[t]

\* A step of t pushes only the timer node of t's call, and only a call that
\* starts sets a deadline.
LEMMA StepTimers ==
    ASSUME TypeOK, CallInv, NEW t \in Threads, Step(t)
    PROVE  Pushes(t)
<1>0. /\ pc \in [Threads -> Labels]
      /\ until \in [Threads -> 0..MaxTime]
  BY Zenon DEF TypeOK
<1> USE <1>0
<1>1. CASE waittime(t)
  BY <1>1, Zenon DEF waittime, Calling, At, Goto, Deadline, wait, Pushes
<1>2. CASE thread_join(t)
  BY <1>2, JoinCases, Zenon DEF Pushes
<1>3. CASE join_wait(t)
  BY <1>3, Zenon DEF join_wait, Calling, At, Goto, wait, Pushes
<1>4. CASE add_queue(t)
  BY <1>4, Zenon DEF add_queue, At, Goto, wait, Pushes
<1>5. CASE join_loop(t)
  BY <1>5, Zenon DEF join_loop, At, Goto, wait, Pushes
<1>6. CASE enter(t)
  BY <1>6, Zenon DEF enter, At, Goto, wait, Pushes
<1>7. CASE enqueue_time(t)
  BY <1>7, Zenon DEF enqueue_time, At, Goto, wait, Pushes
<1>8. CASE enqueue_thread(t)
  BY <1>8, Zenon DEF enqueue_thread, At, Goto, wait, Pushes
<1>9. CASE check(t)
  BY <1>9, Zenon DEF check, At, Goto, wait, Pushes
<1>10. CASE try_block(t)
  BY <1>10, Zenon DEF try_block, At, Goto, wait, Pushes
<1>11. CASE recheck(t)
  BY <1>11, Zenon DEF recheck, At, Goto, Woken, wait, Pushes
<1>12. CASE leave(t)
  BY <1>12, Zenon DEF leave, At, Goto, wait, Pushes
<1>13. CASE yield_now(t)
  BY <1>13, Zenon DEF yield_now, Goto, Return, wait, Pushes
<1>14. CASE remove_queue(t)
  BY <1>14, Zenon DEF remove_queue, At, Goto, Return, wait, Pushes
<1>15. CASE finish(t)
  BY <1>15, Zenon DEF finish, Calling, At, Goto, wait, Pushes
<1>16. CASE exit_post(t)
  BY <1>16, Zenon DEF exit_post, At, Goto, wait, Pushes
<1>17. CASE exit_kill(t)
  BY <1>17, Zenon DEF exit_kill, At, Goto, wait, Pushes
<1>18. CASE thread_cancel(t)
  BY <1>18, Zenon DEF thread_cancel, Calling, At, Goto, wait, Pushes
<1>19. CASE cancel_post(t)
  BY <1>19, Zenon DEF cancel_post, At, Goto, Return, wait, Pushes
<1> QED
  BY <1>1, <1>2, <1>3, <1>4, <1>5, <1>6, <1>7, <1>8, <1>9, <1>10, <1>11, <1>12, <1>13, <1>14, <1>15, <1>16, <1>17, <1>18, <1>19, Zenon DEF Step

\* Every timer node is that of its thread's call, or an old one.
LEMMA NextTimerOwner ==
    ASSUME TypeOK, CallInv, SuffixInv, OpInv, TimerOwner, Next
    PROVE  TimerOwner'
<1> SUFFICES ASSUME NEW n \in timers'
             PROVE  \/ TimedBefore(n[1])'
                    \/ pc'[n[1]] # "call" /\ timed(n[1])' /\ n[2] = until'[n[1]]
  BY Zenon DEF TimerOwner
<1>1. \A u \in Threads : TimedBefore(u) => TimedBefore(u)'
  BY NextSuffixInv, Zenon
<1>2. ASSUME NEW t \in Threads, Step(t)
      PROVE  \/ TimedBefore(n[1])'
             \/ pc'[n[1]] # "call" /\ timed(n[1])' /\ n[2] = until'[n[1]]
  <2>1. CASE n \notin timers
    <3>1. /\ pc[t] = "enqueue_time" /\ n = <<t, until[t]>>
          /\ until' = until /\ todo' = todo /\ pc'[t] # "call"
      BY <1>2, <2>1, StepTimers, Zenon DEF Pushes
    <3>2. timed(t)
      BY <3>1, Zenon DEF OpInv
    <3> QED
      BY <3>1, <3>2, Zenon DEF timed, call
  <2>2. CASE n \in timers
    <3> DEFINE u == n[1]
    <3>1. u \in Threads
      BY <2>2, Zenon DEF TypeOK
    <3>2. CASE TimedBefore(u)
      BY <1>1, <3>1, <3>2, Zenon
    <3>3. CASE u # t /\ pc[u] # "call" /\ timed(u) /\ n[2] = until[u]
      <4>1. pc'[u] = pc[u] /\ todo'[u] = todo[u] /\ until'[u] = until[u]
        BY <1>2, <3>1, <3>3, StepFrame, Zenon DEF Framed
      <4> QED
        BY <3>3, <4>1, Zenon DEF timed, call
    <3>4. CASE u = t /\ pc[t] # "call" /\ timed(t) /\ n[2] = until[t]
      <4>1. until'[t] = until[t]
        BY <1>2, <3>4, StepTimers, Zenon DEF Pushes
      <4>2. CASE todo' = todo /\ pc'[t] # "call"
        BY <3>4, <4>1, <4>2, Zenon DEF timed, call
      <4>3. CASE todo[t] # <<>> /\ todo' = [todo EXCEPT ![t] = Tail(todo[t])]
        <5>1. timed(t) => TimedBefore(t)'
          BY <4>3, ReturnSuffix, Zenon
        <5> QED
          BY <3>4, <5>1, Zenon
      <4> QED
        BY <1>2, <4>2, <4>3, StepTodo, Zenon DEF Advances
    <3> QED
      BY <2>2, <3>2, <3>3, <3>4, Zenon DEF TimerOwner
  <2> QED
    BY <2>1, <2>2, Zenon
<1>3. ASSUME tick \/ Observer \/ Cleanup
      PROVE  \/ TimedBefore(n[1])'
             \/ pc'[n[1]] # "call" /\ timed(n[1])' /\ n[2] = until'[n[1]]
  <2>1. pc' = pc /\ todo' = todo /\ until' = until
    BY <1>3, OtherFrame, Zenon
  <2>2. timers' \subseteq timers
    BY <1>3, Zenon DEF tick, Observer, observe, signal_time, signal_thread, Cleanup, cleanup_tree, cleanup, wait
  <2>3. n \in timers /\ n[1] \in Threads
    BY <2>2, Zenon DEF TypeOK
  <2>4. timed(n[1])' <=> timed(n[1])
    BY <2>1, Zenon DEF timed, call
  <2> QED
    BY <1>1, <2>1, <2>3, <2>4, Zenon DEF TimerOwner
<1> QED
  BY <1>2, <1>3, Zenon DEF Next

-----------------------------------------------------------------------------
\* A step that leaves the wait queues alone, and a wait that goes on.
QuietNodes(t) ==
    \/ nodes' = nodes /\ (pc[t] \in Waits /\ call(t).op # "sleep" => pc'[t] \in Waits /\ todo' = todo)
    \/ add_queue(t) \/ enqueue_thread(t) \/ remove_queue(t)

\* Only three steps are about the wait queues.
LEMMA StepNodes ==
    ASSUME TypeOK, CallInv, OpInv, NEW t \in Threads, Step(t)
    PROVE  QuietNodes(t)
<1>0. pc \in [Threads -> Labels]
  BY Zenon DEF TypeOK
<1> USE <1>0 DEF OpInv, Waits
<1>1. CASE waittime(t)
  BY <1>1, Zenon DEF waittime, Calling, At, Goto, Deadline, wait, QuietNodes
<1>2. CASE thread_join(t)
  BY <1>2, JoinCases, Zenon DEF QuietNodes
<1>3. CASE join_wait(t)
  BY <1>3, Zenon DEF join_wait, Calling, At, Goto, wait, QuietNodes
<1>4. CASE add_queue(t)
  BY <1>4, Zenon DEF QuietNodes
<1>5. CASE join_loop(t)
  BY <1>5, Zenon DEF join_loop, At, Goto, wait, QuietNodes
<1>6. CASE enter(t)
  BY <1>6, Zenon DEF enter, At, Goto, wait, QuietNodes
<1>7. CASE enqueue_time(t)
  BY <1>7, Zenon DEF enqueue_time, At, Goto, wait, QuietNodes
<1>8. CASE enqueue_thread(t)
  BY <1>8, Zenon DEF QuietNodes
<1>9. CASE check(t)
  BY <1>9, Zenon DEF check, At, Goto, wait, QuietNodes
<1>10. CASE try_block(t)
  BY <1>10, Zenon DEF try_block, At, Goto, wait, QuietNodes
<1>11. CASE recheck(t)
  BY <1>11, Zenon DEF recheck, At, Goto, wait, QuietNodes
<1>12. CASE leave(t)
  BY <1>12, Zenon DEF leave, At, Goto, wait, QuietNodes
<1>13. CASE yield_now(t)
  BY <1>13, Zenon DEF yield_now, Goto, Return, wait, QuietNodes
<1>14. CASE remove_queue(t)
  BY <1>14, Zenon DEF QuietNodes
<1>15. CASE finish(t)
  BY <1>15, Zenon DEF finish, Calling, At, Goto, wait, QuietNodes
<1>16. CASE exit_post(t)
  BY <1>16, Zenon DEF exit_post, At, Goto, wait, QuietNodes
<1>17. CASE exit_kill(t)
  BY <1>17, Zenon DEF exit_kill, At, Goto, wait, QuietNodes
<1>18. CASE thread_cancel(t)
  BY <1>18, Zenon DEF thread_cancel, Calling, At, Goto, wait, QuietNodes
<1>19. CASE cancel_post(t)
  BY <1>19, Zenon DEF cancel_post, At, Goto, Return, wait, QuietNodes
<1> QED
  BY <1>1, <1>2, <1>3, <1>4, <1>5, <1>6, <1>7, <1>8, <1>9, <1>10, <1>11, <1>12, <1>13, <1>14, <1>15, <1>16, <1>17, <1>18, <1>19, Zenon DEF Step

\* A step of t enqueues only t, for the thread its call is about ...
LEMMA StepEnqueues ==
    ASSUME TypeOK, CallInv, OpInv, NEW t \in Threads, Step(t),
           NEW x \in Threads, NEW u \in nodes'[x], u \notin nodes[x]
    PROVE  /\ pc[t] = "enqueue_thread" /\ todo' = todo /\ pc'[t] \in Waits
           /\ u = t /\ call(t).of = x
<1>0. pc \in [Threads -> Labels] /\ nodes \in [Threads -> SUBSET Threads]
  BY Zenon DEF TypeOK
<1>1. CASE nodes' = nodes
  BY <1>1, Zenon
<1>2. CASE add_queue(t) \/ remove_queue(t)
  <2>1. nodes' = nodes \/ nodes' = [nodes EXCEPT ![call(t).of] = {}]
    BY <1>2, Zenon DEF add_queue, remove_queue
  <2> QED
    BY <1>0, <2>1, Zenon
<1>3. CASE enqueue_thread(t)
  <2>1. pc[t] = "enqueue_thread" /\ todo' = todo /\ pc'[t] \in {"leave", "check"}
    BY <1>0, <1>3, Zenon DEF enqueue_thread, At, Goto
  <2>2. nodes' = nodes \/ nodes' = [nodes EXCEPT ![call(t).of] = nodes[call(t).of] \cup {t}]
    BY <1>3, Zenon DEF enqueue_thread
  <2>3. call(t).of = x /\ u = t
    BY <1>0, <2>2
  <2> QED
    BY <2>1, <2>3, Zenon DEF Waits
<1> QED
  BY <1>1, <1>2, <1>3, StepNodes, Zenon DEF QuietNodes

\* ... and t is in a wait as long as it is enqueued.
LEMMA StepWaits ==
    ASSUME TypeOK, CallInv, OpInv, NEW t \in Threads, Step(t),
           pc[t] \in Waits, call(t).op # "sleep", t \in nodes'[call(t).of]
    PROVE  pc'[t] \in Waits /\ todo' = todo
<1>0. pc \in [Threads -> Labels] /\ nodes \in [Threads -> SUBSET Threads] /\ todo[t] # <<>>
  BY Zenon DEF TypeOK, CallInv, Waits
<1>1. CASE nodes' = nodes /\ (pc[t] \in Waits /\ call(t).op # "sleep" => pc'[t] \in Waits /\ todo' = todo)
  BY <1>1, Zenon
<1>2. CASE add_queue(t)
  <2>1. pc'[t] \in {"loop", "guard"} /\ todo' = todo
    BY <1>0, <1>2, Zenon DEF add_queue, At, Goto
  <2> QED
    BY <2>1, Zenon DEF Waits
<1>3. CASE enqueue_thread(t)
  <2>1. pc'[t] \in {"leave", "check"} /\ todo' = todo
    BY <1>0, <1>3, Zenon DEF enqueue_thread, At, Goto
  <2> QED
    BY <2>1, Zenon DEF Waits
<1>4. CASE remove_queue(t)
  <2>1. nodes' = [nodes EXCEPT ![call(t).of] = {}]
    BY <1>4, Zenon DEF remove_queue
  <2>2. call(t).of \in Threads
    BY <1>0, CallType, Zenon
  <2> QED
    BY <1>0, <2>1, <2>2, Zenon
<1> QED
  BY <1>1, <1>2, <1>3, <1>4, StepNodes, Zenon DEF QuietNodes

\* Who is enqueued for a thread waits for that thread.
LEMMA NextNodeOwner ==
    ASSUME TypeOK, CallInv, OpInv, NodeOwner, Next
    PROVE  NodeOwner'
<1> SUFFICES ASSUME NEW x \in Threads, NEW u \in nodes'[x]
             PROVE  pc'[u] \in Waits /\ call(u)'.op # "sleep" /\ call(u)'.of = x
  BY Zenon DEF NodeOwner
<1>1. ASSUME NEW t \in Threads, Step(t)
      PROVE  pc'[u] \in Waits /\ call(u)'.op # "sleep" /\ call(u)'.of = x
  <2>1. CASE u \notin nodes[x]
    <3>1. /\ pc[t] = "enqueue_thread" /\ todo' = todo /\ pc'[t] \in Waits
          /\ u = t /\ call(t).of = x
      BY <1>1, <2>1, StepEnqueues, Zenon
    <3>2. call(t).op # "sleep"
      BY <3>1, Zenon DEF OpInv
    <3> QED
      BY <3>1, <3>2, Zenon DEF call
  <2>2. CASE u \in nodes[x]
    <3>1. u \in Threads /\ pc[u] \in Waits /\ call(u).op # "sleep" /\ call(u).of = x
      BY <2>2, Zenon DEF TypeOK, NodeOwner
    <3>2. CASE u # t
      <4>1. pc'[u] = pc[u] /\ todo'[u] = todo[u]
        BY <1>1, <3>1, <3>2, StepFrame, Zenon DEF Framed
      <4> QED
        BY <3>1, <4>1 DEF call
    <3>3. CASE u = t
      <4>1. pc'[t] \in Waits /\ todo' = todo
        BY <1>1, <2>2, <3>1, <3>3, StepWaits, Zenon
      <4> QED
        BY <3>1, <3>3, <4>1, Zenon DEF call
    <3> QED
      BY <3>2, <3>3, Zenon
  <2> QED
    BY <2>1, <2>2, Zenon
<1>2. ASSUME tick \/ Observer \/ Cleanup
      PROVE  pc'[u] \in Waits /\ call(u)'.op # "sleep" /\ call(u)'.of = x
  <2>1. pc' = pc /\ todo' = todo
    BY <1>2, OtherFrame, Zenon
  <2>2. nodes'[x] \subseteq nodes[x]
    <3>1. CASE tick \/ observe \/ signal_time \/ Cleanup
      BY <3>1, Zenon DEF tick, observe, signal_time, Cleanup, cleanup_tree, cleanup, wait
    <3>2. ASSUME NEW y \in Threads, signal_thread(y) PROVE nodes'[x] \subseteq nodes[x]
      <4>1. \/ \E w \in nodes[y] : nodes' = [nodes EXCEPT ![y] = @ \ {w}]
            \/ nodes' = nodes
        BY <3>2, Zenon DEF signal_thread
      <4>2. DOMAIN nodes = Threads
        BY DEF TypeOK
      <4> QED BY <4>1, <4>2
    <3> QED
      BY <1>2, <3>1, <3>2, Zenon DEF Observer
  <2>3. u \in nodes[x]
    BY <2>2, Zenon
  <2> QED
    BY <2>1, <2>3, Zenon DEF NodeOwner, call
<1> QED
  BY <1>1, <1>2, Zenon DEF Next

-----------------------------------------------------------------------------
\* The clock and the deadlines are numbers.
LEMMA Clocks ==
    ASSUME TypeOK
    PROVE  now \in Nat /\ now <= now /\ \A u \in Threads : until[u] \in Nat
<1>1. now \in 0..MaxTime /\ until \in [Threads -> 0..MaxTime] /\ MaxTime \in Nat
  BY WaitAssumption, Zenon DEF TypeOK
<1> QED
  BY <1>1

\* A condition that is given for good stays given while the call lasts.
LEMMA GivenStable ==
    ASSUME TypeOK, TypeOK', CallInv, Next, NEW u \in Threads, Given(u), todo[u] # <<>>,
           todo'[u] = todo[u], until'[u] = until[u], now <= now'
    PROVE  Given(u)'
<1> DEFINE x == Head(todo[u]).of
<1>1. x \in Threads
  BY CallType, Zenon DEF call
<1>2. Dead(x) => Dead(x)'
  BY <1>1, DeadStable, Zenon
<1>3. TimeGiven(until[u]) => TimeGiven(until[u])'
  <2>1. now \in Nat /\ until[u] \in Nat
    BY Clocks, Zenon
  <2>2. now' \in Nat
    <3>1. now' \in 0..MaxTime /\ MaxTime \in Nat
      BY WaitAssumption, Zenon DEF TypeOK
    <3> QED
      BY <3>1
  <2> QED
    BY <2>1, <2>2 DEF TimeGiven
<1>4. CASE timed(u) /\ TimeGiven(until[u])
  BY <1>3, <1>4, Zenon DEF Given, timed, call
<1>5. CASE Head(todo[u]).op # "sleep" /\ Dead(x)
  <2>1. Head(todo'[u]).op # "sleep" /\ Head(todo'[u]).of = x /\ Dead(x)'
    BY <1>2, <1>5, Zenon
  <2>2. state'[Head(todo'[u]).of] = "Zombie" /\ current' # Head(todo'[u]).of
    BY <2>1, Zenon DEF Dead
  <2> QED
    BY <2>1, <2>2, Zenon DEF Given, Dead, call
<1> QED
  BY <1>4, <1>5, Zenon DEF Given, call

\* A condition that t, running and alive, sees given is given for good.
LEMMA SeenGiven ==
    ASSUME TypeOK, TableInv, NEW t \in Threads, todo[t] # <<>>, AnyGiven(t), state[t] # "Zombie",
           current' = t, UNCHANGED <<todo, until, now>>,
           \A u \in Threads \ {t} : state'[u] = state[u]
    PROVE  Given(t)'
<1> DEFINE x == Head(todo[t]).of
<1>1. x \in Threads
  BY CallType, Zenon DEF call
<1>2. CASE timed(t) /\ TimeGiven(until[t])
  BY <1>2, Zenon DEF Given, TimeGiven, timed, call
<1>3. CASE Head(todo[t]).op # "sleep" /\ ThreadGiven(x)
  <2>1. state[x] = "Zombie"
    BY <1>1, <1>3, Zenon DEF ThreadGiven, TableInv, Dead
  <2>2. x # t /\ state'[x] = "Zombie"
    BY <1>1, <2>1, Zenon
  <2> QED
    BY <1>3, <2>2, Zenon DEF Given, Dead, call
<1> QED
  BY <1>2, <1>3, Zenon DEF AnyGiven, call

\* A step to a label past try_block.
GetsPast(t) ==
    pc'[t] \in {"recheck", "leave", "yield"} =>
        \/ enqueue_time(t) \/ enqueue_thread(t) \/ check(t)
        \/ try_block(t) \/ recheck(t) \/ leave(t)

\* Six steps lead past try_block.
LEMMA StepGetsPast ==
    ASSUME TypeOK, NEW t \in Threads, Step(t)
    PROVE  GetsPast(t)
<1>0. pc \in [Threads -> Labels]
  BY Zenon DEF TypeOK
<1> USE <1>0
<1>1. CASE waittime(t)
  BY <1>1, Zenon DEF waittime, Calling, At, Goto, Deadline, GetsPast
<1>2. CASE thread_join(t)
  BY <1>2, JoinCases, Zenon DEF GetsPast
<1>3. CASE join_wait(t)
  BY <1>3, Zenon DEF join_wait, Calling, At, Goto, GetsPast
<1>4. CASE add_queue(t)
  BY <1>4, Zenon DEF add_queue, At, Goto, GetsPast
<1>5. CASE join_loop(t)
  BY <1>5, Zenon DEF join_loop, At, Goto, GetsPast
<1>6. CASE enter(t)
  BY <1>6, Zenon DEF enter, At, Goto, GetsPast
<1>7. CASE enqueue_time(t)
  BY <1>7, Zenon DEF GetsPast
<1>8. CASE enqueue_thread(t)
  BY <1>8, Zenon DEF GetsPast
<1>9. CASE check(t)
  BY <1>9, Zenon DEF GetsPast
<1>10. CASE try_block(t)
  BY <1>10, Zenon DEF GetsPast
<1>11. CASE recheck(t)
  BY <1>11, Zenon DEF GetsPast
<1>12. CASE leave(t)
  BY <1>12, Zenon DEF GetsPast
<1>13. CASE yield_now(t)
  BY <1>13, Zenon DEF yield_now, Goto, Return, GetsPast
<1>14. CASE remove_queue(t)
  BY <1>14, Zenon DEF remove_queue, At, Goto, Return, GetsPast
<1>15. CASE finish(t)
  BY <1>15, Zenon DEF finish, Calling, At, Goto, GetsPast
<1>16. CASE exit_post(t)
  BY <1>16, Zenon DEF exit_post, At, Goto, GetsPast
<1>17. CASE exit_kill(t)
  BY <1>17, Zenon DEF exit_kill, At, Goto, GetsPast
<1>18. CASE thread_cancel(t)
  BY <1>18, Zenon DEF thread_cancel, Calling, At, Goto, GetsPast
<1>19. CASE cancel_post(t)
  BY <1>19, Zenon DEF cancel_post, At, Goto, Return, GetsPast
<1> QED
  BY <1>1, <1>2, <1>3, <1>4, <1>5, <1>6, <1>7, <1>8, <1>9, <1>10, <1>11, <1>12, <1>13, <1>14, <1>15, <1>16, <1>17, <1>18, <1>19, Zenon DEF Step

\* A thread that steps past try_block and is Ready may return.
LEMMA StepWakeInv ==
    ASSUME TypeOK, TypeOK', CallInv, OpInv, TableInv, WakeInv, Next, NEW t \in Threads, Step(t),
           pc'[t] \in {"recheck", "leave", "yield"}, state'[t] = "Ready"
    PROVE  Given(t)' \/ TimedBefore(t)'
<1>0. /\ state \in [Threads -> {"Ready", "Blocking", "Zombie"}]
      /\ pc \in [Threads -> Labels]
  BY Zenon DEF TypeOK
<1>1. ASSUME pc[t] # "call", AnyGiven(t), state[t] # "Zombie",
             \A u \in Threads \ {t} : state'[u] = state[u],
             current' = t, UNCHANGED <<todo, until, now>>
      PROVE  Given(t)' \/ TimedBefore(t)'
  BY <1>1, SeenGiven, Zenon DEF CallInv
<1>2. ASSUME pc[t] \in {"recheck", "leave"}, state[t] = "Ready", UNCHANGED <<todo, until, now>>
      PROVE  Given(t)' \/ TimedBefore(t)'
  <2>1. Given(t) \/ TimedBefore(t)
    BY <1>2, Zenon DEF WakeInv
  <2>2. todo[t] # <<>>
    BY <1>2, Zenon DEF CallInv
  <2>3. now <= now'
    BY <1>2, Clocks, Zenon
  <2>4. Given(t) => Given(t)'
    BY <1>2, <2>2, <2>3, GivenStable, Zenon
  <2>5. TimedBefore(t) => TimedBefore(t)'
    BY <1>2, Zenon DEF TimedBefore
  <2> QED
    BY <2>1, <2>4, <2>5, Zenon
<1>3. CASE enqueue_time(t)
  <2>1. pc[t] = "enqueue_time" /\ current' = t /\ UNCHANGED <<state, todo, until, now>>
    BY <1>3, Zenon DEF enqueue_time, At
  <2>2. TimeGiven(until[t])
    BY <1>0, <1>3, Zenon DEF enqueue_time, Goto
  <2>3. AnyGiven(t)
    BY <2>1, <2>2, Zenon DEF OpInv, AnyGiven
  <2> QED
    BY <1>1, <2>1, <2>3, Zenon
<1>4. CASE enqueue_thread(t)
  <2>1. pc[t] = "enqueue_thread" /\ current' = t /\ UNCHANGED <<state, todo, until, now>>
    BY <1>4, Zenon DEF enqueue_thread, At
  <2>2. ThreadGiven(call(t).of)
    BY <1>0, <1>4, Zenon DEF enqueue_thread, Goto
  <2>3. AnyGiven(t)
    BY <2>1, <2>2, Zenon DEF OpInv, AnyGiven
  <2> QED
    BY <1>1, <2>1, <2>3, Zenon
<1>5. CASE check(t)
  <2>1. pc[t] = "check" /\ current' = t /\ UNCHANGED <<state, todo, until, now>>
    BY <1>5, Zenon DEF check, At
  <2>2. AnyGiven(t)
    BY <1>0, <1>5, Zenon DEF check, Goto
  <2> QED
    BY <1>1, <2>1, <2>2, Zenon
<1>6. CASE try_block(t)
  BY <1>0, <1>6, Zenon DEF try_block
<1>7. CASE recheck(t)
  <2>1. /\ pc[t] = "recheck" /\ current' = t /\ UNCHANGED <<todo, until, now>>
        /\ state' = IF AnyGiven(t) THEN Woken(t) ELSE state
    BY <1>7, Zenon DEF recheck, At
  <2>2. CASE AnyGiven(t)
    <3>1. state[t] # "Zombie" /\ \A u \in Threads \ {t} : state'[u] = state[u]
      BY <1>0, <2>1, <2>2, Zenon DEF Woken
    <3> QED
      BY <1>1, <2>1, <2>2, <3>1, Zenon
  <2>3. CASE ~AnyGiven(t)
    BY <1>2, <2>1, <2>3, Zenon
  <2> QED
    BY <2>2, <2>3, Zenon
<1>8. CASE leave(t)
  <2>1. pc[t] = "leave" /\ UNCHANGED <<state, todo, until, now>>
    BY <1>8, Zenon DEF leave, At
  <2> QED
    BY <1>2, <2>1, Zenon
<1> QED
  BY <1>3, <1>4, <1>5, <1>6, <1>7, <1>8, StepGetsPast, Zenon DEF GetsPast

\* A thread that the observer wakes may return.
LEMMA OtherWakeInv ==
    ASSUME TypeOK, CallInv, OpInv, TableInv, TimerOwner, NodeOwner, TimerInv,
           tick \/ Observer \/ Cleanup,
           NEW u \in Threads, state[u] # "Ready", state'[u] = "Ready"
    PROVE  Given(u)' \/ TimedBefore(u)'
<1>1. pc' = pc /\ todo' = todo /\ until' = until
  BY OtherFrame, Zenon
<1>2. TimedBefore(u) => TimedBefore(u)'
  BY <1>1, Zenon DEF TimedBefore
<1>3. CASE tick \/ observe \/ Cleanup
  BY <1>3, Zenon DEF tick, observe, Cleanup, cleanup_tree, cleanup
<1>4. CASE signal_time
  <2>1. PICK n \in timers : TimeGiven(n[2]) /\ state' = IF n[1] \in table THEN Woken(n[1]) ELSE state
    BY <1>4, Zenon DEF signal_time
  <2>2. n[1] = u
    BY <2>1, Zenon DEF Woken, TypeOK
  <2>3. TimedBefore(u) \/ (timed(u) /\ n[2] = until[u])
    <3>1. TimedBefore(n[1]) \/ (timed(n[1]) /\ n[2] = until[n[1]])
      BY Zenon DEF TimerOwner
    <3> QED
      BY <2>2, <3>1, Zenon DEF TimedBefore, timed, call
  <2>4. now' = now
    BY <1>4, Zenon DEF signal_time
  <2> QED
    BY <1>1, <1>2, <2>1, <2>3, <2>4, Zenon DEF Given, TimeGiven, timed, call
<1>5. ASSUME NEW x \in Threads, signal_thread(x) PROVE Given(u)' \/ TimedBefore(u)'
  <2>1. PICK w \in nodes[x] : state' = IF ThreadGiven(x) /\ w \in table THEN Woken(w) ELSE state
    BY <1>5, Zenon DEF signal_thread
  <2>2. w = u /\ ThreadGiven(x) /\ state[u] = "Blocking"
    BY <2>1, Zenon DEF Woken, TypeOK
  <2>3. Head(todo[u]).op # "sleep" /\ Head(todo[u]).of = x
    BY <2>2, Zenon DEF NodeOwner, call
  <2>4. state[x] = "Zombie"
    BY <2>2, Zenon DEF ThreadGiven, TableInv, Dead
  <2>5. state'[x] = "Zombie"
    BY <2>1, <2>2, <2>4, Zenon DEF Woken, TypeOK
  <2>6. current' = Idle /\ Idle # x
    BY <1>5, WaitAssumption, Zenon DEF signal_thread
  <2> QED
    BY <1>1, <2>3, <2>5, <2>6, Zenon DEF Given, Dead, call
<1> QED
  BY <1>3, <1>4, <1>5, Zenon DEF Observer

\* So every step lets only those threads return that may.
LEMMA NextWakeInv ==
    ASSUME TypeOK, TypeOK', CallInv, TimerInv, WInv, Next
    PROVE  WakeInv'
<1> SUFFICES ASSUME NEW u \in Threads, pc'[u] \in {"recheck", "leave", "yield"}, state'[u] = "Ready"
             PROVE  Given(u)' \/ TimedBefore(u)'
  BY Zenon DEF WakeInv
<1> USE DEF WInv
<1>1. TimedBefore(u) => TimedBefore(u)'
  BY NextSuffixInv, Zenon
<1>2. ASSUME todo'[u] = todo[u], until'[u] = until[u], now <= now', pc'[u] = pc[u], state[u] = "Ready"
      PROVE  Given(u)' \/ TimedBefore(u)'
  <2>1. todo[u] # <<>>
    BY <1>2, Zenon DEF CallInv
  <2>2. Given(u) \/ TimedBefore(u)
    BY <1>2, Zenon DEF WakeInv
  <2> QED
    BY <1>1, <1>2, <2>1, <2>2, GivenStable, Zenon
<1>3. ASSUME NEW t \in Threads, Step(t) PROVE Given(u)' \/ TimedBefore(u)'
  <2>1. CASE u = t
    BY <1>3, <2>1, StepWakeInv, Zenon
  <2>2. CASE u # t
    <3>1. pc'[u] = pc[u] /\ todo'[u] = todo[u] /\ until'[u] = until[u] /\ now' = now
      BY <1>3, <2>2, StepFrame, Zenon DEF Framed
    <3>2. state'[u] = state[u] \/ state'[u] = "Zombie"
      BY <1>3, <2>2, StepRuns, Zenon DEF Runs
    <3>3. now <= now'
      BY <3>1, Clocks, Zenon
    <3> QED
      BY <1>2, <3>1, <3>2, <3>3, Zenon
  <2> QED
    BY <2>1, <2>2, Zenon
<1>4. ASSUME tick \/ Observer \/ Cleanup PROVE Given(u)' \/ TimedBefore(u)'
  <2>1. pc' = pc /\ todo' = todo /\ until' = until /\ now <= now'
    BY <1>4, OtherFrame, Zenon
  <2>2. CASE state[u] = "Ready"
    BY <1>2, <2>1, <2>2, Zenon
  <2>3. CASE state[u] # "Ready"
    BY <1>4, <2>3, OtherWakeInv, Zenon
  <2> QED
    BY <2>2, <2>3, Zenon
<1> QED
  BY <1>3, <1>4, Zenon DEF Next

-----------------------------------------------------------------------------
\* The invariant holds initially ...
LEMMA InitIInv == Init => IInv
<1> SUFFICES ASSUME Init PROVE IInv
  BY Zenon
<1> USE WaitAssumption
<1>1. TypeOK
  <2>1. events \in Seq(Threads \cup {"timer"}) /\ Len(events) <= MaxEvents
    BY DEF Init
  <2> QED
    BY <2>1 DEF Init, TypeOK, Labels
<1>2. CallInv /\ SignalInv /\ TimerInv
  BY Zenon DEF Init, CallInv, SignalInv, SignalledQueueExists, TimerInv, Pushed
<1> QED
  BY <1>1, <1>2, Zenon DEF IInv

\* ... and every step keeps it.
LEMMA InductiveInvariant == IInv /\ [Next]_vars => IInv'
<1> SUFFICES ASSUME IInv, [Next]_vars PROVE IInv'
  BY Zenon
<1>1. CASE Next
  <2>1. TypeOK' /\ CallInv'
    BY <1>1, StepType, OtherType, Zenon DEF IInv, Next
  <2>2. SignalInv'
    BY <1>1, NextSignalInv, Zenon DEF IInv
  <2>3. TimerInv'
    BY <1>1, NextTimerInv, Zenon DEF IInv
  <2> QED
    BY <2>1, <2>2, <2>3, Zenon DEF IInv
<1>2. CASE UNCHANGED vars
  BY <1>2, Zenon DEF vars, wait, IInv, TypeOK, CallInv, SignalInv, SignalledQueueExists, TimerInv, timed, Timed, call, TimeGiven
<1> QED
  BY <1>1, <1>2, Zenon

\* The state has its type; the event queue stays within MAX_WAIT_EVENTS.
THEOREM TypeCorrect == Spec => []TypeOK
<1>1. IInv => TypeOK
  BY Zenon DEF IInv
<1> QED
  BY <1>1, InitIInv, InductiveInvariant, PTL DEF Spec

\* WaitObserver: the queue that is being signalled exists until that is done.
THEOREM SignalledQueueAlwaysExists == Spec => []SignalledQueueExists
<1>1. IInv => SignalledQueueExists
  BY Zenon DEF IInv, SignalInv
<1> QED
  BY <1>1, InitIInv, InductiveInvariant, PTL DEF Spec

\* enqueue: a blocked thread whose deadline is ahead is in the timer queue.
THEOREM TimerNodeAlwaysKept == Spec => []TimerNodeKept
<1>1. IInv => TimerNodeKept
  BY Zenon DEF IInv, TimerInv, TimerNodeKept, Pushed
<1> QED
  BY <1>1, InitIInv, InductiveInvariant, PTL DEF Spec

\* WInv holds initially ...
LEMMA InitWInv == Init => WInv
<1> SUFFICES ASSUME Init PROVE WInv
  OBVIOUS
<1>1. SuffixInv
  <2> SUFFICES ASSUME NEW t \in Threads
               PROVE  /\ Len(todo[t]) <= Len(Program[t])
                      /\ \A i \in 1 .. Len(todo[t]) :
                           todo[t][i] = Program[t][Len(Program[t]) - Len(todo[t]) + i]
    BY Zenon DEF SuffixInv
  <2>1. todo[t] = Program[t] /\ Len(Program[t]) \in Nat
    BY WaitAssumption DEF Init
  <2> QED
    BY <2>1
<1>2. OpInv /\ TableInv /\ TimerOwner /\ NodeOwner /\ WakeInv
  BY Zenon DEF Init, OpInv, Waits, TableInv, TimerOwner, NodeOwner, WakeInv
<1> QED
  BY <1>1, <1>2, Zenon DEF WInv

\* ... and every step keeps it.
LEMMA InductiveWInv == IInv /\ WInv /\ [Next]_vars => WInv'
<1> SUFFICES ASSUME IInv, WInv, [Next]_vars PROVE WInv'
  BY Zenon
<1>1. CASE Next
  <2> USE <1>1 DEF IInv
  <2>1. TypeOK'
    BY StepType, OtherType, Zenon DEF Next
  <2>2. SuffixInv' /\ OpInv' /\ TableInv'
    BY NextSuffixInv, NextOpInv, NextTableInv, Zenon DEF WInv
  <2>3. TimerOwner'
    BY NextTimerOwner, Zenon DEF WInv
  <2>4. NodeOwner'
    BY NextNodeOwner, Zenon DEF WInv
  <2>5. WakeInv'
    BY <2>1, NextWakeInv, Zenon
  <2> QED
    BY <2>2, <2>3, <2>4, <2>5, Zenon DEF WInv
<1>2. CASE UNCHANGED vars
  <2> USE <1>2 DEF vars, wait, WInv
  <2>1. SuffixInv' /\ \A t : TimedBefore(t)' <=> TimedBefore(t)
    BY Zenon DEF SuffixInv, TimedBefore
  <2>2. OpInv' /\ TableInv' /\ NodeOwner'
    BY DEF OpInv, TableInv, NodeOwner, timed, call, Dead
  <2>3. TimerOwner' /\ WakeInv'
    BY <2>1, Zenon DEF TimerOwner, WakeInv, Given, Dead, timed, call, TimeGiven
  <2> QED
    BY <2>1, <2>2, <2>3, Zenon
<1> QED
  BY <1>1, <1>2, Zenon

\* wait_self: no wait returns before one of its conditions is given, whatever
\* the threads call, except for the timer node of an earlier call.
THEOREM NoWaitReturnsEarly == Spec => []NoEarlyReturn
<1>1. IInv /\ WInv => NoEarlyReturn
  <2> SUFFICES ASSUME IInv, WInv, NEW t \in Threads, pc[t] = "yield", state[t] = "Ready"
               PROVE  AnyGiven(t) \/ TimedBefore(t)
    BY Zenon DEF NoEarlyReturn
  <2>1. Given(t) \/ TimedBefore(t)
    BY Zenon DEF WInv, WakeInv
  <2> QED
    BY <2>1, Zenon DEF Given, AnyGiven, ThreadGiven, Dead
<1> QED
  BY <1>1, InitIInv, InductiveInvariant, InitWInv, InductiveWInv, PTL DEF Spec
=============================================================================
