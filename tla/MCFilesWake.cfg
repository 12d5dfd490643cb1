\* A pipe, a reader that waits for ever and a writer.
CONSTANTS
    Parent = parent
    Child = child
    Threads = {t1, t2}
    Son = son
    Pipes = {p}
    Rams = {}
    MaxFd = 2
    Cap = 1
    MaxBytes = 1
    Lens = {1}
    Calls = 3
    Actions = {}
SPECIFICATION FairSpec
PROPERTY ReaderWakes
CHECK_DEADLOCK FALSE
