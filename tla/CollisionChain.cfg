SPECIFICATION FairSpec
CONSTANTS
    NUav = 2
    Kin <- MCKin
    ReportKin <- MCReportKin
    Conflict <- MCConflict
    SlowDown <- MCSlowDown
    Turn <- MCTurn
    Climb <- MCClimb
    Ttl = 0
    MaxMutations = 3
    MaxReports = 2
    MaxTime = 1
INVARIANTS
    TypeOK
    OnePostPerRequest
    OnlyBudgetRefuses
    MetaAgrees
PROPERTIES
    PriorityRespected
    ImplementsLife
    ChainTerminates
CHECK_DEADLOCK FALSE
