CONSTANTS
    Workers = {w1, w2}
    Nobody = Nobody
    Quiet = 1
    MinRerun = 2
    MaxWait = 2
    Lease = 2
    MaxAttempts = 3
    RunTime = 1
    Prompt = TRUE
    MaxVersion = 3
    LastChange = 4
    MaxTime = 24
    MaxTrouble = 2
SPECIFICATION FairSpec
INVARIANTS
    NothingForgotten
    OneAtATime
    NeverStarved
PROPERTIES
    WritesCurrentText
    Settles
CHECK_DEADLOCK FALSE
