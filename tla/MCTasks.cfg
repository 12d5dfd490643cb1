SPECIFICATION Spec
CONSTANTS
    NFrames = 13
    Batch = 4
    MaxTid = 4
    KSlots = 4
    KPages = 2
    UPages = 1
    PageLen = 2
    Lens = {3}
    Calls = 2
INVARIANTS  KStackOwned  SpaceOutlivesThreads
CHECK_DEADLOCK FALSE
