CONSTANTS
    rm = rm
    a = a
    b = b
    c = c
    RM = rm
    Tasks = {rm, a, b, c}
    Started = {rm, a, b}
    Yields = 0
    Grow = TRUE
    Ops = {"alloc", "spawn", "exit", "cancel", "block"}
    MaxZombies = 1
SPECIFICATION Spec
INVARIANTS NoBlockNeverWaits SwitchLocksHeldByCurrent  QueueWellFormed BlockedIsOffCpu
SYMMETRY SymmetricWorkers
