\* Nothing goes wrong around the sort.
SPECIFICATION Spec
CONSTANTS
    Elements = 3
    Values = {1, 2, 3}
    Inputs <- AllInputs
    ParThresholds = {1}
    WordSize = 8
    OddBytes = {0}
    Faults = {}
INVARIANTS
    FailsOnlyOnFaults
