\* Every request on the zones, no rain: three zones, the second on a bad pin, and a
\* master valve.
SPECIFICATION Spec
CONSTANTS
    N = 3
    MasterValve = TRUE
    ValidPin <- BadZonePin
    SEC2MIN = 2
    Runtimes = {0, 1}
    Lengths = {0}
    Day = 1
    Rounding = 0
    Switches = {}
    Delays = {}
    Chances = {}
    Totals = {}
    Limits <- NoLimits
    RequestZones <- Zones3
    ConfigRuntimes <- OneMinute3
    MqttEnabled = TRUE
    MaxElapsed = 2
    Crashes = FALSE
    Interrupts = FALSE
INVARIANTS
    TypeOK
    OneZone
    ValveIsTimed
    MasterDuringRun
    MasterWithZone
    PublishedOrPending
PROPERTIES
    CycleInOrder
