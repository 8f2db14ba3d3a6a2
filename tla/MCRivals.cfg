SPECIFICATION SkillSpec
CONSTANTS
    deployer = deployer
    verifier = verifier
    Account = {deployer, verifier}
    AccountOf <- Wallets
    Publisher = {p1}
    Disputer = {d1, d2}
    Attestor = {o1, o2}
    ProtocolBond = 2
    MinBonds = {1, 2}
    Liveness = 1
    Buffer = 1
    Drift = 1
    InitialWeth = 3
    InitialEths = {1, 8}
    MaxTime = 1
    MaxFaults = 1
    None = None
INVARIANTS RefusalIsExplained OkIsDoneOrOvertaken
SYMMETRY Interchangeable
CHECK_DEADLOCK FALSE
