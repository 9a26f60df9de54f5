SPECIFICATION Spec
CONSTANTS
    Group = {A, B}
    Nobody = Nobody
    Public = {A, B}
    MaxSends = 4
    MaxRepeats = 1
INVARIANTS
    BothAgreed
    NotesFollow
PROPERTIES
    StaysRejected
CHECK_DEADLOCK FALSE
