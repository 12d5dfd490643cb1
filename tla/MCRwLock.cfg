CONSTANTS
    t1 = t1
    t2 = t2
    t3 = t3
    Threads = {t1, t2, t3}
    N = 4
    Kinds = {"shared", "exclusive"}
    Strategies = {"yield", "blocking"}
    Rounds = 2
SPECIFICATION FairSpec
INVARIANTS PermitsConserved Exclusion
PROPERTIES RefinesRwLock YieldingThreadsFinish
\* A lost wakeup of BlockingWaiter may leave every thread asleep.
CHECK_DEADLOCK FALSE
