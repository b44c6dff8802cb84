\* Two uploads that both read the map before either takes the lock.
SPECIFICATION Spec
CONSTANTS
    Name = {f}
    Req = {r1, r2, r3}
    Threads = {1}
    MaxHandler = 3
    MaxFaults = 0
SYMMETRY RequestSymmetry
INVARIANT NoOrphan
CHECK_DEADLOCK FALSE
