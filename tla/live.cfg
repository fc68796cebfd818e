SPECIFICATION FairSpec
CONSTANTS
    N = 2
    MasterValve = TRUE
    ValidPin <- Pins2
    SEC2MIN = 1
    Runtimes = {1}
    Lengths = {0}
    Day = 1
    Rounding = 1
    Switches = {TRUE, FALSE}
    Delays = {}
    Chances = {}
    Totals = {}
    Limits <- NoLimits
    RequestZones <- Zones2
    ConfigRuntimes <- OneMinute2
    MqttEnabled = TRUE
    MaxElapsed = 1
    Crashes = TRUE
    Interrupts = TRUE
INVARIANTS
    ValveIsTimed
    DelayIsSaved
    EndIsKept
PROPERTIES
    ValvesClose
    CyclesEnd
    ChangesArePublished
    DelaysEnd
