----------------------------- MODULE RwLockSpec -----------------------------
(***************************************************************************)
(* What a lock of kernel/src/utils/sync promises, as lock_api states it: a *)
(* mutex is the exclusive half alone.  Every step is atomic; how a thread  *)
(* waits for the lock is not visible here.                                 *)
(***************************************************************************)
CONSTANT Threads

VARIABLES readers,   \* threads that hold a read guard
          writers    \* threads that hold a write (or mutex) guard

vars == <<readers, writers>>

Init == readers = {} /\ writers = {}

AcquireShared(t) ==
    /\ writers = {}
    /\ t \notin readers
    /\ readers' = readers \cup {t}
    /\ UNCHANGED writers

AcquireExclusive(t) ==
    /\ readers = {} /\ writers = {}
    /\ writers' = {t}
    /\ UNCHANGED readers

Release(t) ==
    /\ t \in readers \cup writers
    /\ readers' = readers \ {t}
    /\ writers' = writers \ {t}

Downgrade(t) ==
    /\ t \in writers
    /\ writers' = writers \ {t}
    /\ readers' = readers \cup {t}

Next == \E t \in Threads :
    AcquireShared(t) \/ AcquireExclusive(t) \/ Release(t) \/ Downgrade(t)

Spec == Init /\ [][Next]_vars
=============================================================================
