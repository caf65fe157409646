SPECIFICATION FairEvalSpec
CONSTANTS
    old = old
    t1 = t1
    t2 = t2
    Trips <- OldAndTwo
    Pickup <- MCPickup
    Cutoff = 10
    Malformed = Malformed
    NoQuote = NoQuote
    VersionOf <- NewVersionEachTime
    BatchSize = 2
    MaxLog = 2
    MaxTrainings = 2
    MaxTrainerCrashes = 1
    MaxStops = 2
    MaxResets = 1
    DayOf <- SameDay
    Actual <- MCActual
    Predicted <- MCPredicted
    Null = Null
    Common = 6
INVARIANTS
    TypeOK
    CommittedTripsAreQuoted
    LabelNeverLeads
PROPERTIES
    EveryTripIsQuoted
    RescoringCompletes
    ErrorsSettle
CHECK_DEADLOCK FALSE
