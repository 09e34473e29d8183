\* Every policy; four blocks compete for one set of two, and for one of three.
\* The timestamps wrap within a trace.
SPECIFICATION Spec
CONSTANTS
    Configurations <- CommandLines
    AddressSize = 32
    Addresses = {0, 4, 8, 16, 24}
    TimestampSize = 5
    MaxAccesses = 6
INVARIANTS
    NoDuplicates
    DirtyIsUnwritten
    CyclesAreExplained
PROPERTIES
    ImplementsQueue
