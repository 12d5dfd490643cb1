SPECIFICATION FairSpec
CONSTANTS
    a = a
    b = b
    idle = idle
    Threads <- ThreadsAB
    Idle = idle
    Program <- ProgramSleepers
    Replaced = {}
    MaxEvents = 2
    MaxTime = 2
PROPERTY SleepReturns
