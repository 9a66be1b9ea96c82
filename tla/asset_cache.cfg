CONSTANTS
    Materials = {m1}
    Lights = {l1}
    Plain = {}
    Readers = {r1, r2}
    MaxOpens = 2
    MaxCrashes = 1
SPECIFICATION Spec
INVARIANTS
    TypeOK
    RightContent
    TexturesFound
    LightsStayOpen
CHECK_DEADLOCK FALSE
