CONSTANTS
    Sighting = {tanker}
    tanker = tanker
    NoPhoto = NoPhoto
    BadImo = BadImo
    MaxPipes = 2
    MaxMoves = 1
    Bonds = {2, 3}
    WrapAmount = 1
    InitialWeth = {1, 2}
SPECIFICATION SubmitFairSpec
PROPERTY LockIsReleased
CHECK_DEADLOCK FALSE
