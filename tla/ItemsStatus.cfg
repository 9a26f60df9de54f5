SPECIFICATION Spec
CONSTANTS
    p = p
    a = a
    c = c
    d = d
    Nothing = Nothing
    Post = {p, a}
    Comment = {c, d}
    Archive = {a, d}
    On <- Two
    Under <- Flat
    MaxText = 2
INVARIANTS
    CountExact
    Searchable
    ClearedStays
    SistersTold
CHECK_DEADLOCK FALSE
