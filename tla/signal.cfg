SPECIFICATION Spec
CONSTANTS
    N = 1
    MasterValve = TRUE
    ValidPin <- Pins1
    SEC2MIN = 1
    Runtimes = {1}
    Lengths = {0}
    Day = 2
    Rounding = 0
    Switches = {TRUE, FALSE}
    Delays = {}
    Chances = {}
    Totals = {}
    Limits <- NoLimits
    RequestZones <- Zones1
    ConfigRuntimes <- OneMinute1
    MqttEnabled = FALSE
    MaxElapsed = 1
    Crashes = FALSE
    Interrupts = TRUE
INVARIANT
    DelayHasEnd
