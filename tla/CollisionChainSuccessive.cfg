SPECIFICATION SuccessiveSpec
CONSTANTS
    NUav = 3
    Kin <- MCKin
    ReportKin <- SuccessiveReportKin
    Conflict <- MCConflict
    SlowDown <- MCSlowDown
    Turn <- MCTurn
    Climb <- MCClimb
    Ttl = 3
    MaxMutations = 3
    MaxReports = 3
    MaxTime = 5
INVARIANTS
    ReleasedSeparated
    RestSeparated
    OwnCommandReleased
    DatabaseProvenance
CHECK_DEADLOCK FALSE
