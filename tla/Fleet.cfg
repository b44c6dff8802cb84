SPECIFICATION FairSpec
CONSTANTS
    Scenario <- MCScenario
    Process = {p1, p2}
    Command = {c1}
    None = None
INVARIANTS TypeOK AtMostOneLeft
PROPERTIES ReportsArrive CommandsExecuted
