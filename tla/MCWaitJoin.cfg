SPECIFICATION FairSpec
CONSTANTS
    a = a
    b = b
    idle = idle
    Threads <- ThreadsAB
    Idle = idle
    Program <- ProgramJoin
    Replaced = {}
    MaxEvents = 1
    MaxTime = 2
INVARIANTS TimerNodeKept  SignalledQueueExists
PROPERTY EnqueuedSleeperWakes
