CONSTANTS
    post1 = post1
    post2 = post2
    Session = {post1, post2}
    Imo = {imo1, imo2}
    imo1 = imo1
    imo2 = imo2
    PacketCount = 2
    Versions = 2
    MaxFaults = 1
    MaxRuns = 2
    NoFile = NoFile
    Torn = Torn
    Idle = Idle
SPECIFICATION Spec
SYMMETRY Callers
INVARIANTS AnsweredRunsAreRecorded MirrorsAgree FallbackIsExplained ListedIsStored
CHECK_DEADLOCK FALSE
