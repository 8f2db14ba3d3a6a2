SPECIFICATION SmoothSpec
CONSTANTS
    Report = {r1, r2, r3}
    Fake = {r1, r2}
    Bonds = 1
    Nobody = Nobody
    Me = Me
    Rival = Rival
    Torn = Torn
    None = None
    Editions = 1
INVARIANTS
    CountedDisputesAreOwn
CHECK_DEADLOCK FALSE
