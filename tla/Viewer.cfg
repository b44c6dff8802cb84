\* Two UAVs, two browsers, two payloads: the first may be dropped, either bad.
SPECIFICATION FairSpec
CONSTANTS
    Uav = {u1, u2}
    Client = {c1, c2}
    MaxPayloads = 2
INVARIANTS TypeOK ConnectedListed
PROPERTIES NeverBackwards GoneForgotten FramesArrive NewestKept
\* Without browsers and payloads the viewer waits.
CHECK_DEADLOCK FALSE
