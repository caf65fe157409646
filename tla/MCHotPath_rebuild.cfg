SPECIFICATION Spec
CONSTANTS
    z1 = z1
    z2 = z2
    p1 = p1
    p2 = p2
    None = None
    Poison = Poison
    Partitions <- OnePartition
    TripZones <- OneZone
    Size = 2
    Grace = 2
    Hour = 4
    MaxTime = 4
    MaxLog = 4
    MaxDisorder = 2
    MaxStops = 1
    MaxWriteFailures = 0
INVARIANTS
    OpenWindowsComplete
