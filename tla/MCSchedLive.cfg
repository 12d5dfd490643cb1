CONSTANTS
    rm = rm
    a = a
    b = b
    c = c
    RM = rm
    Tasks = {rm, a, c}
    Started = {rm, a}
    Yields = 1
    Grow = FALSE
    Ops = {"lookup", "spawn", "block", "wake"}
    MaxZombies = 0
SPECIFICATION FairSpec
PROPERTIES ReadyTaskRuns SpawnedTaskRuns
