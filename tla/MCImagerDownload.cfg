CONSTANTS
    Session = {cli}
    cli = cli
    PacketCount = 3
    Versions = 2
    MaxFaults = 4
    NoFile = NoFile
    Torn = Torn
    Idle = Idle
SPECIFICATION ImagerFairSpec
INVARIANTS ListedIsStored ImageIsTheMetadatas
PROPERTIES PicksUpWhereItLeftOff DownloadCompletes
CHECK_DEADLOCK FALSE
