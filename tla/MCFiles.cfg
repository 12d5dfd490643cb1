CONSTANTS
    Parent = parent
    Child = child
    Threads = {t1, t2}
    Son = son
    Pipes = {p}
    Rams = {r}
    MaxFd = 3
    Cap = 1
    MaxBytes = 3
    Lens = {2}
    Calls = 4
    Actions <- MCActions
SYMMETRY ThreadSymmetry
SPECIFICATION Spec
INVARIANTS TypeOK HandleCount EofIsFinal  FailedSpawnHoldsNothing
CHECK_DEADLOCK FALSE
