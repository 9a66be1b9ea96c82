\* The host may leave before it is answered.
CONSTANTS
    MaxSent = 0
    MaxReplies = 0
    MaxTraffic = 0
SPECIFICATION Spec
INVARIANTS
    LeftForGood
CHECK_DEADLOCK FALSE
