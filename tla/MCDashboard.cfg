SPECIFICATION MCSpec
CONSTANTS
    z1 = z1
    u = u
    None = None
    Poison = Poison
    Null = Null
    Never = Never
    NoPage = NoPage
    Uncached = Uncached
    Events <- MCEvents
    ZoneKeys <- OneZone
    Size = 1
    Grace = 0
    Hour = 2
    MaxTime = 4
    MaxLog = 3
    StaleAfter = 2
    DivergenceWarn = 60
    Day = 2
    LiveEraStart = 1
    History <- MCHistory
    Today = 9
    EvalRows <- MCEvalRows
    FeedLimit = 1
    ChartLimit = 2
    MaxFallBacks = 1
INVARIANTS
    TypeOK
    ZonesStandByWindows
    TypicalDaysAreNotAccused
PROPERTIES
    PageSettles
    FollowLiveShowsScored
CHECK_DEADLOCK FALSE
