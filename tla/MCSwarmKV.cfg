SPECIFICATION Spec
CONSTANTS
    Key = {k1, k2, k3}
    Value = {v}
    Tombstone = Tombstone
    Unwritten = Unwritten
    NoKey = NoKey
    Cold = Cold
    Caller = {c1, c2}
    IndexCapacity = 2
    MaxUpdates = 2
INVARIANTS
    IndexedWasWritten
    CacheWasPublished
    OwnListIsAuthoritative
    LiveKeysAreListed
SYMMETRY Interchangeable
CHECK_DEADLOCK FALSE
