CONSTANTS
    Paths = {p1, p2}
    Key = key
    TimeSamples = timeSamples
    Times = {1, 2, 3}
    MaxEdits = 4
SPECIFICATION Spec
INVARIANTS
    TypeOK
    Followed
    BracketsAgree
CHECK_DEADLOCK FALSE
