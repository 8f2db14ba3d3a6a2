CONSTANTS
    Vessel = {tanker}
    Verifier = {vera}
    View = {globe, table, agents}
    globe = globe
    table = table
    agents = agents
    Globe = globe
    Table = table
    Agents = agents
    DeployBlock = 1
    MaxScanRange = 0
    MaxBlock = 3
    Together = {{globe, table}, {agents}}
    MaxLoads = 2
    MaxFailures = 1
    None = None
SPECIFICATION TableFairSpec
PROPERTIES ViewsCatchUp FocusIsShown
CHECK_DEADLOCK FALSE
