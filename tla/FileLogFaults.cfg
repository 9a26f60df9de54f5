SPECIFICATION Spec
CONSTANTS
    Node = {"n1", "n2"}
    Command = {"bump"}
    Contents <- MCContents
    Empty <- MCEmpty
    Fails <- MCFails
    Effect <- MCEffect
    Faults = {"crash", "power", "install", "io"}
    MaxLog = 3
    MaxDown = 1
INVARIANTS
    NeverTwice
CHECK_DEADLOCK FALSE
