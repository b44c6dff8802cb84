SPECIFICATION SuccessiveSpec
CONSTANTS
    NUav = 3
    Kin <- MCKin
    ReportKin <- SuccessiveReportKin
    Conflict <- MCConflict
    SlowDown <- MCSlowDown
    Turn <- MCTurn
    Climb <- MCClimb
    Ttl = 6
    MaxMutations = 3
    MaxReports = 3
    MaxTime = 6
INVARIANTS
    VictimIsColliding
CHECK_DEADLOCK FALSE
