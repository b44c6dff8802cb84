\* Two requests of any kind on two functions with one fault, and two callers
\* (no symmetry: liveness).
SPECIFICATION CallFairSpec
CONSTANTS
    Name = {f, g}
    Req = {r1, r2}
    Threads = {0, 1}
    MaxHandler = 2
    MaxFaults = 1
    Caller = {c, d}
PROPERTIES RequestsAnswered VersionsForward
\* No request begins when every one has been used, no call without rproxy.
CHECK_DEADLOCK FALSE
