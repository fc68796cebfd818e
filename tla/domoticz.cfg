SPECIFICATION Spec
CONSTANTS
    N = 1
    MasterValve = TRUE
    ValidPin <- Pins1
    SEC2MIN = 1
    Runtimes = {1}
    Lengths = {0}
    Day = 1
    Rounding = 0
    Switches = {TRUE, FALSE}
    Delays = {}
    Chances = {}
    Totals = {}
    Limits <- NoLimits
    Devices <- MasterZoneCycle
    NON_ZONE_DZIDS = 1
    MaxMessages = 3
    Drops = TRUE
INVARIANTS
    TypeOK
    HubAgrees
PROPERTIES
    LastEchoIsIgnored
    UserIsObeyed
