SPECIFICATION SmoothSpec
CONSTANTS
    Key = {k1, k2}
    Value = {v}
    Tombstone = Tombstone
    Unwritten = Unwritten
    NoKey = NoKey
    Cold = Cold
    Caller = {c1, c2}
    IndexCapacity = 2
    MaxUpdates = 2
INVARIANTS
    SingleProcessIsSafe
CHECK_DEADLOCK FALSE
