CONSTANTS
    post1 = post1
    post2 = post2
    Session = {post1, post2}
    Imo = {imo1, imo2}
    imo1 = imo1
    imo2 = imo2
    PacketCount = 1
    Versions = 1
    MaxFaults = 0
    MaxRuns = 2
    NoFile = NoFile
    Torn = Torn
    Idle = Idle
SPECIFICATION Spec
SYMMETRY Callers
INVARIANT EveryVesselSeenIsKept
CHECK_DEADLOCK FALSE
