SPECIFICATION Spec
CONSTANTS
    Node = {n1, n2}
    Domain = {"d1", "d2", "d3"}
    Group = {1}
    Plans <- MCPlans
    MaxCodeTries = 2
    LoginTTL = 2
    BounceTTL = 1
    BouncedTTL = 2
    SessionTTL = 4
    PerAddress = 2
    Hour = 2
    Handles = {"me", "theirs"}
    Taken = {"theirs"}
    MaxNow = 3
    MaxHops = 6
    Quiet = 1
    DigestGap = 2
    PageSize = 1
    MaxNotices = 3
INVARIANTS
    OldLinksWork
    SignedInRightly
    Lands
    MailedOnce
    NoneLost
SYMMETRY Alike
CHECK_DEADLOCK FALSE
