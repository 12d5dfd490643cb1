SPECIFICATION FairSpec
CONSTANTS
    Threads = {"a", "b"}
    Procs = {"p", "q"}
    Homes <- MCHomes
    Out <- MCOut
    SIZE = 2
    Lens = {1, 3}
    Texts <- MCTexts
    WordSize = 16
    MaxKeys = 3
    Calls = 2
INVARIANTS SteadyReaderGetsEachKeyOnce KeysAreWhole ShownInOrder
PROPERTY ReadsReturn
