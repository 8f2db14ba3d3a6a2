SPECIFICATION Spec
CONSTANTS
    Report = {r1, r2}
    Fake = {r1, r2}
    Bonds = 1
    Nobody = Nobody
    Me = Me
    Rival = Rival
    Torn = Torn
    None = None
    Editions = 2
INVARIANTS
    SavedIsOnChain
    SeenHasReasoning
    OwnDisputesAreCounted
    PublishedDecisionIsCounted
    NothingForgotten
PROPERTIES
    WalletIsKept
CHECK_DEADLOCK FALSE
