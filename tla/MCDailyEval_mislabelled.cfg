SPECIFICATION EvalSpec
CONSTANTS
    old = old
    t1 = t1
    t2 = t2
    Trips <- OldAndTwo
    Pickup <- MCPickup
    Cutoff = 10
    Malformed = Malformed
    NoQuote = NoQuote
    VersionOf <- NewVersionEachTime
    BatchSize = 1
    MaxLog = 1
    MaxTrainings = 2
    MaxTrainerCrashes = 0
    MaxStops = 0
    MaxResets = 0
    DayOf <- SameDay
    Actual <- MCActual
    Predicted <- MCPredicted
    Null = Null
    Common = 6
INVARIANTS
    QuotesNameTheirModel
CHECK_DEADLOCK FALSE
