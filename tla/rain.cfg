SPECIFICATION Spec
CONSTANTS
    N = 2
    MasterValve = TRUE
    ValidPin <- Pins2
    SEC2MIN = 1
    Runtimes = {1}
    Lengths = {0}
    Day = 2
    Rounding = 0
    Switches = {TRUE, FALSE}
    Delays = {0, 3}
    Chances = {0, 60}
    Totals = {0, 10, 60}
    Limits <- RainLimits
    RequestZones <- Zones2
    ConfigRuntimes <- OneMinute2
    MqttEnabled = FALSE
    MaxElapsed = 1
    Crashes = TRUE
    Interrupts = FALSE
INVARIANTS
    DelayStopsSchedule
    DelayHasEnd
PROPERTIES
    DelaySparesManualRuns
    ImplementsGarden
