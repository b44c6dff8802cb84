\* Three requests of any kind on two functions and one fault: every error path
\* and every interleaving of the unlocked reads with the locked rest.
SPECIFICATION Spec
CONSTANTS
    Name = {f, g}
    Req = {r1, r2, r3}
    Threads = {0, 1}
    MaxHandler = 3
    MaxFaults = 1
SYMMETRY RequestSymmetry
INVARIANTS TypeOK RouteLive TablesAgree
PROPERTIES UploadKeepsServing
\* The system stops when every request is answered.
CHECK_DEADLOCK FALSE
