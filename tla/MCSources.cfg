SPECIFICATION MCSpec
CONSTANTS
    Absent = Absent
    Null = Null
    NaN = NaN
    Rejected = Rejected
    NMonths = 2
    MonthLength = 2
    Cutoff = 1
    Editions <- MCEditions
    Starts <- MCStarts
    Limits <- MCLimits
    MaxAttempts = 2
    MaxKills = 1
INVARIANTS
    TypeOK
    FilesAreWhole
    ExitCodeIsTruth
    ReplayIsGloballySorted
    PathsAgree
    EachTripHasOneWriter
    NothingLearnedIsScored
CHECK_DEADLOCK FALSE
