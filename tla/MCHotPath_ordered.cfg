SPECIFICATION FairSpec
CONSTANTS
    z1 = z1
    z2 = z2
    p1 = p1
    p2 = p2
    None = None
    Poison = Poison
    Partitions <- OnePartition
    TripZones <- TwoZones
    Size = 2
    Grace = 1
    Hour = 4
    MaxTime = 5
    MaxLog = 3
    MaxDisorder = 0
    MaxStops = 2
    MaxWriteFailures = 0
INVARIANTS
    OpenWindowsComplete
    FinalRowsExact
    CommittedTripsAreFinal
PROPERTIES
    EveryTripBecomesVisible
    PassedWindowsBecomeFinal
    ImplementsLiveMetrics
