SPECIFICATION FairSpec
CONSTANTS
    Node = {1, 2, 3, 4}
    VoterNode = {1, 2, 3}
    GroupVoters = 3
    Slack = 1
    MaxWrites = 1
    Plans <- MCPlans
INVARIANTS
    Kept
    Serviceable
PROPERTIES
    Converges
    NoneStranded
CHECK_DEADLOCK FALSE
