SPECIFICATION Spec
CONSTANTS
    N = 2
    MasterValve = TRUE
    ValidPin <- Pins2
    SEC2MIN = 1
    Runtimes = {1}
    Lengths = {0}
    Day = 1
    Rounding = 0
    Switches = {}
    Delays = {}
    Chances = {}
    Totals = {}
    Limits <- NoLimits
    RequestZones <- Zones0To2
    ConfigRuntimes <- OneMinute2
    MqttEnabled = FALSE
    MaxElapsed = 1
    Crashes = FALSE
    Interrupts = FALSE
PROPERTY
    MasterOffEndsWatering
