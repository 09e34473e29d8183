\* Files of five elements; forks may fail and processes be killed.
SPECIFICATION FairSpec
CONSTANTS
    Elements = 5
    Values = {1, 2, 3, 4, 5}
    Inputs <- SampleInputs
    ParThresholds = {1, 2}
    WordSize = 8
    OddBytes = {0, 3}
    Faults = {"open", "fstat", "mmap", "fork", "kill"}
INVARIANTS
    NothingLost
    SuccessMeansSorted
    DisjointWriters
    NoneLeftBehind
PROPERTIES
    Terminates
