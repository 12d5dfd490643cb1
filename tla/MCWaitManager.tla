--------------------------- MODULE MCWaitManager ----------------------------
(* Instances of WaitManager: which calls the threads make.                 *)
EXTENDS WaitManager, TLC

CONSTANTS a, b, idle

ThreadsAB == {a, b}

Sleep(n) == [op |-> "sleep", of |-> a, time |-> n]
Join(x, n) == [op |-> "join", of |-> x, time |-> n]
Wait(x) == [op |-> "wait", of |-> x, time |-> 0]
Exit == [op |-> "exit", of |-> a, time |-> 0]
Cancel(x) == [op |-> "cancel", of |-> x, time |-> 0]

\* b sleeps and exits; a joins it with a timeout, cancels it and waits for
\* its handle, so that the event of a cancel competes with those of the timer
\* and of the exit for the event queue.
ProgramJoin == (a :> <<Join(b, 1), Cancel(b), Wait(b)>>) @@ (b :> <<Sleep(1), Exit>>)

\* Two threads sleep.
ProgramSleepers == (a :> <<Sleep(2)>>) @@ (b :> <<Sleep(1)>>)
=============================================================================
