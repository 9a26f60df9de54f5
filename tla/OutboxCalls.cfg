SPECIFICATION FairSpec
CONSTANTS
    Node = {"n1", "n2"}
    Batch = 2
    Refused = {2}
    MaxWrites = 3
    MaxFaults = 2
INVARIANTS
    NoneLost
PROPERTIES
    KeepsPromise
    Drains
CHECK_DEADLOCK FALSE
