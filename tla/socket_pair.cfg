\* Up to three messages each way, and three together: three in a queue is
\* where writing the newest and popping the oldest part ways.
CONSTANTS
    MaxSent = 3
    MaxReplies = 3
    MaxTraffic = 3
SPECIFICATION Spec
INVARIANTS
    TypeOK
    BuffersOwned
    PacedInOrder
    LogicToldOnce
    WaitedLeftForGood
PROPERTIES
    MessagesBetween
    ImplementsChannel
    LeavingCloses
    ServerNotices
\* A connection ends, and so does its client.
CHECK_DEADLOCK FALSE
