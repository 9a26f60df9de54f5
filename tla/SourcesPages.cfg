SPECIFICATION Spec
CONSTANTS
    Post = {1, 2, 3}
    Page = {1}
    Comment = {1, 2}
    CombinedMin = 2
    SummaryMin = 2
    MaxClaimed = 1
    Plans <- MCPlans
INVARIANTS
    Refreshed
    LinksShow
    PagesVetted
PROPERTIES
    UndoneStays
CHECK_DEADLOCK FALSE
