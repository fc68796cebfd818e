SPECIFICATION Spec
CONSTANTS
    N = 1
    MasterValve = TRUE
    ValidPin <- Pins1
    SEC2MIN = 1
    Runtimes = {1}
    Lengths = {0}
    Day = 3
    Rounding = 0
    Switches = {}
    Delays = {}
    Chances = {0}
    Totals = {0, 60}
    Limits <- TwoDays
    RequestZones <- Zones1
    ConfigRuntimes <- OneMinute1
    MqttEnabled = FALSE
    MaxElapsed = 1
    Crashes = FALSE
    Interrupts = FALSE
PROPERTY
    DelayRunsItsTime
