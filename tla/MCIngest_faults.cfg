SPECIFICATION FairSpec
CONSTANTS
    Rows = 4
    Invalid <- SecondInvalid
    MaxAttempts = 2
    QueueCap = 2
    MaxTimeouts = 2
    MaxStops = 1
    MaxFlushTimeouts = 1
    MaxUndelivered = 1
    MaxKills = 1
INVARIANTS
    TypeOK
    OnlyTimeoutsReorder
    OutcomeIsTruth
PROPERTIES
    SentIsDelivered
CHECK_DEADLOCK FALSE
