SPECIFICATION Spec
CONSTANTS
    MaxZones = 3
    Heads <- TwoHeads
    ConfigHead <- NoCache
    Runtimes = {10}
    ConfigRuntime = 30
    OpenFails = TRUE
    DiskFull = TRUE
    Busy = TRUE
INVARIANTS
    TypeOK
    RootAsBooted
PROPERTIES
    RestartRestores
    StopKeepsValues
