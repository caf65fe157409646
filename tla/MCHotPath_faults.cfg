SPECIFICATION Spec
CONSTANTS
    z1 = z1
    z2 = z2
    p1 = p1
    p2 = p2
    None = None
    Poison = Poison
    Partitions <- TwoPartitions
    TripZones <- OneZone
    Size = 1
    Grace = 1
    Hour = 4
    MaxTime = 3
    MaxLog = 2
    MaxDisorder = 3
    MaxStops = 1
    MaxWriteFailures = 1
INVARIANTS
    TypeOK
    CommitFloor
PROPERTIES
    CommittedNeverGoesBack
