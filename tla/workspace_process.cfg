CONSTANTS
    WebSockets = {w1, w2}
SPECIFICATION Spec
INVARIANTS
    TypeOK
PROPERTIES
    GhostsLeave
    ProcessEnds
CHECK_DEADLOCK FALSE
