SPECIFICATION Spec
CONSTANTS
    User = {"u1", "u2", "u3"}
    Founder = "u1"
    Operator = "op"
    Code = {"c1"}
    MaxUses = 1
    MaxTime = 3
    MaxDelay = 1
    MaxRepeats = 1
INVARIANTS
    TypeOK
    OwnerStays
    BanHolds
    RolesEarned
CHECK_DEADLOCK FALSE
