SPECIFICATION Spec
CONSTANTS
    Post = {1, 2}
    Entry = {1, 2}
    MaxTopics = 5
    Plans <- MCPlans
INVARIANTS
    Findable
    KeepsUp
PROPERTIES
    ModsWordStands
    NoDuplicate
CHECK_DEADLOCK FALSE
