SPECIFICATION FairDaySpec
CONSTANTS
    N = 3
    Days <- Sunday
    Times <- Starts
    Runtimes = {0, 10}
    RunBefore = {50}
    TIMEDIFF_CRON_UPDATE = 1
    Crashes = TRUE
    OpenFails = TRUE
    MasterValve = TRUE
    ValidPin <- AllPins
    Lengths = {0}
    DefaultRuntime = 10
    MaxTroubles = 1
INVARIANTS
    TypeOK
    CrontabIsCalendar
    ZonesFollowOneAnother
    CommandsRunBeforeStart
    WateredAsPlanned
PROPERTIES
    EditsAreWritten
