SPECIFICATION FairSpec
CONSTANTS
    Node = {"n1", "n2"}
    Command = {"bump", "double", "claim"}
    Contents <- MCContents
    Empty <- MCEmpty
    Fails <- MCFails
    Effect <- MCEffect
    Faults = {"crash"}
    MaxLog = 3
    MaxDown = 1
INVARIANTS
    CopyExact
PROPERTIES
    ImplementsReplicatedFile
    Converges
CHECK_DEADLOCK FALSE
