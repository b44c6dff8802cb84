SPECIFICATION Spec
CONSTANT N = 4
INVARIANTS
    TypeOK
    ReturnsClosedForm
    FlagsCoverConflicts
CHECK_DEADLOCK FALSE
