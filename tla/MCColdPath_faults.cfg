SPECIFICATION FairSpec
CONSTANTS
    h0 = h0
    h1 = h1
    h2 = h2
    s1 = s1
    s2 = s2
    jan = jan
    feb = feb
    z1 = z1
    Trips <- MCTrips
    Pickup <- MCPickup
    DayOf <- MCDayOf
    Zone <- MCZone
    Zones = {z1}
    Citywide = Citywide
    Cutoff = 3
    CutoffDay = 1
    Months = {jan, feb}
    DaysOf <- MCDaysOf
    RawFile <- MCRawFile
    Replayed <- MCReplayed
    NoTable = NoTable
    MaxLoads = 2
    Retries = 1
    MaxLog = 2
    MaxFaults = 1
    MaxBackfills = 1
INVARIANTS
    TypeOK
    CountedOnce
    DayTotalsAgree
    LoneBackfillPublishes
PROPERTIES
    LakeKeepsItsTrips
    EventuallyShown
CHECK_DEADLOCK FALSE
