CONSTANTS
    rm = rm
    a = a
    b = b
    c = c
    RM = rm
    Tasks = {rm, a, b, c}
    Started = {rm, a, b}
    Yields = 0
    Grow = TRUE
    Ops = {"alloc", "spawn"}
    MaxZombies = 0
SPECIFICATION FairSpec
PROPERTY SpawnedTaskRuns
