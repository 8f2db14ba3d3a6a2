CONSTANTS
    Session = {cli, server}
    cli = cli
    server = server
    PacketCount = 2
    Versions = 1
    MaxFaults = 1
    NoFile = NoFile
    Torn = Torn
    Idle = Idle
SPECIFICATION ImagerSpec
PROPERTY PicksUpWhereItLeftOff
CHECK_DEADLOCK FALSE
