SPECIFICATION Spec
CONSTANT N = 4
INVARIANTS
    EveryConflictFlagged
CHECK_DEADLOCK FALSE
