----------------------------- MODULE Sprinkler -----------------------------
(***************************************************************************)
(* The SprinklerD daemon: the requests that reach it over HTTP, MQTT and    *)
(* Domoticz (src/net_services.c), its main loop, its start and its end      *)
(* (src/sprinkler.c).  One thread runs mg_mgr_poll, which calls the         *)
(* handlers one at a time, and then the rest of the loop body; a handler or *)
(* a loop body is therefore one step.  The process may be stopped by a      *)
(* signal, killed, or lose power between any two steps.                     *)
(***************************************************************************)
EXTENDS RainDelay

CONSTANTS
    RequestZones,    \* the zones that "zone" and "cron" requests name
    ConfigRuntimes,  \* the default_runtime values a configuration file can give
    MqttEnabled,     \* enableMQTTaq: whether the daemon connects to an MQTT broker
    MaxElapsed,      \* elapsed stops counting here, past the end of every run
    Crashes,         \* whether the process can be killed or lose power
    Interrupts       \* whether a signal can stop it in the middle of a delay handler

\* Without a master valve zonecfg[0] is not initialised: no request names it here.
ASSUME RequestAssumption ==
    RequestZones \subseteq Zones \cup (IF MasterValve THEN {0} ELSE {})
ASSUME ConfigAssumption == ConfigRuntimes \subseteq [0..N -> Runtimes]
ASSUME ElapsedAssumption ==
    MaxElapsed \in Nat /\ \A t \in Runtimes \cup Lengths : t * SEC2MIN <= MaxElapsed
ASSUME SwitchesAssumption ==
    MqttEnabled \in BOOLEAN /\ Crashes \in BOOLEAN /\ Interrupts \in BOOLEAN

VARIABLES
    proc,   \* "up", "stopped" (by a signal), or "killed"
    mqtt,   \* whether the MQTT connection is open and acknowledged
    stale,  \* history: the MQTT topics that do not tell the state of the program
    asked   \* history: the end of the delay as it was last set, kept like delayLeft

vars == <<open, cur, elapsed, events, runtime, calendar, delay24h, delayLeft, asFloat,
          limits, rainTotal, cache, proc, mqtt, stale, asked>>

\* What broadcast_sprinklerdstate publishes, and broadcast_sprinklerdactivestate.
Topics == {"state", "active"}

TypeOK ==
    /\ ZcTypeOK
    /\ RainTypeOK
    /\ proc \in {"up", "stopped", "killed"}
    /\ mqtt \in BOOLEAN
    /\ stale \subseteq Topics
    /\ asked \in Int /\ asked >= NoEnd

\* currentZone when the process starts: main sets the type, the rest is zero.
BootRun == [type |-> "NONE", zone |-> 0, duration |-> 0]

\* What the topics tell, as far as this model holds it.
ActiveView == IF cur.type = "NONE" THEN -1 ELSE cur.zone
StateView  == <<open, runtime, calendar, delay24h, cur.type = "ALL", ActiveView>>

\* The topics that a step leaves behind.
Outdated == (IF StateView' # StateView THEN {"state"} ELSE {})
            \cup (IF ActiveView' # ActiveView THEN {"active"} ELSE {})

\* A handler that sets the delay or lifts it gives it the end it is to have.
NoteEnd == asked' = IF delayVars' = delayVars THEN asked ELSE delayLeft'

-----------------------------------------------------------------------------
(***************************************************************************)
(* Requests.  An HTTP "option" request raises the status bit on top of what *)
(* it does; the same request over MQTT or Domoticz, which needs the MQTT    *)
(* connection, does not.  An HTTP "flip" is one of the two states.  Domoticz *)
(* messages do what the MQTT ones do, less those that repeat the last       *)
(* published value.                                                         *)
(***************************************************************************)
Origins == {{"status"}} \cup (IF mqtt THEN {{}} ELSE {})

\* type=zone, type=cron; the cron lines written by write_cron are of this form.
ZoneRequest ==
    /\ \E type \in {"SINGLE", "CRON"}, z \in RequestZones, on \in BOOLEAN, length \in Lengths :
          ZcZone(type, z, on, length, {})
    /\ UNCHANGED <<runtime, calendar, delayVars, limits, rainTotal>>

\* MQTT zone<n>/set, Domoticz zone: the default length.
MqttZone ==
    /\ mqtt
    /\ \E z \in Zones, on \in BOOLEAN : ZcZone("SINGLE", z, on, 0, {})
    /\ UNCHANGED <<runtime, calendar, delayVars, limits, rainTotal>>

\* MQTT zone0/set: off turns off the run in progress, on only asks for a broadcast.
MqttMasterOff ==
    /\ mqtt
    /\ cur.type # "NONE"
    /\ ZcZone("SINGLE", cur.zone, FALSE, 0, {})
    /\ UNCHANGED <<runtime, calendar, delayVars, limits, rainTotal>>

MqttMasterOn ==
    /\ mqtt
    /\ Raise({"zones", "status"})
    /\ UNCHANGED <<open, cur, elapsed, runtime, calendar, delayVars, limits, rainTotal>>

\* A request the dispatcher refuses: unknown zone or state, unknown option.
RefusedRequest ==
    /\ \E bit \in {"zones", "status"} : Raise({bit})
    /\ UNCHANGED <<open, cur, elapsed, runtime, calendar, delayVars, limits, rainTotal>>

CycleRequest ==
    /\ \E on \in BOOLEAN, also \in Origins : ZcZone("ALL", 0, on, 0, also)
    /\ UNCHANGED <<runtime, calendar, delayVars, limits, rainTotal>>

RuntimeRequest ==
    /\ \E z \in Zones, t \in Runtimes : t >= 0 /\ SetRuntime(z, t, {})
    /\ UNCHANGED <<calendar, delayVars, limits, rainTotal>>

CalendarRequest ==
    /\ \E on \in BOOLEAN, also \in Origins : EnableCalendar(on, also)
    /\ UNCHANGED <<open, cur, elapsed, runtime, delayVars, limits, rainTotal>>

DelayRequest ==
    /\ \E on \in Switches, also \in Origins : EnableDelay24h(on, also)
    /\ UNCHANGED <<runtime, calendar, limits, rainTotal>>

DelayReset ==
    /\ \E left \in Delays : ResetDelay24hTime(left, {"status"})
    /\ UNCHANGED <<runtime, calendar, limits, rainTotal>>

LimitsRequest ==
    /\ limits' \in Limits
    /\ UNCHANGED <<zcVars, runtime, calendar, delayVars, rainTotal>>

ChanceReport ==
    /\ \E percent \in Chances : SetTodayChanceOfRain(percent, {})
    /\ UNCHANGED <<runtime, calendar, limits, rainTotal>>

TotalReport ==
    /\ \E rain \in Totals : SetTodayRainTotal(rain, {})
    /\ UNCHANGED <<runtime, calendar, limits>>

Request ==
    /\ proc = "up"
    /\ \/ ZoneRequest
       \/ MqttZone
       \/ MqttMasterOff
       \/ MqttMasterOn
       \/ RefusedRequest
       \/ CycleRequest
       \/ RuntimeRequest
       \/ CalendarRequest
       \/ DelayRequest
       \/ DelayReset
       \/ LimitsRequest
       \/ ChanceReport
       \/ TotalReport
    /\ stale' = stale \cup Outdated
    /\ NoteEnd
    /\ UNCHANGED <<proc, mqtt>>

-----------------------------------------------------------------------------
(***************************************************************************)
(* The body of the main loop after mg_mgr_poll.  zc_check is asked first    *)
(* and, when it ends a zone, check_delay24h is not called in this pass.     *)
(* Any of the two, or a pending event bit, makes the loop broadcast; without *)
(* them it refreshes now and then, during a run only the active zone.       *)
(***************************************************************************)
\* broadcast_sprinklerdstate and broadcast_sprinklerdactivestate: the rain
\* bits are only cleared once published to an MQTT connection.
Broadcast ==
    /\ events' = IF mqtt THEN {} ELSE events \ {"zones", "status"}
    /\ stale' = IF mqtt THEN {} ELSE stale \cup Outdated

\* Faulty variant: nothing is sent without an event.
Refresh_None == stale' = stale

Refresh ==
    stale' = IF ~mqtt THEN stale ELSE IF cur.type = "NONE" THEN {} ELSE stale \ {"active"}

LoopPass ==
    /\ proc = "up"
    /\ UNCHANGED <<runtime, calendar, limits, rainTotal, proc, mqtt>>
    /\ \/ /\ Expired
          /\ ZoneDone
          /\ UNCHANGED delayVars
          /\ Broadcast
       \/ /\ ~Expired /\ DelayExpired
          /\ CheckDelay24h
          /\ UNCHANGED <<open, cur, elapsed>>
          /\ Broadcast
       \/ /\ ~Expired /\ ~DelayExpired /\ events # {}
          /\ UNCHANGED <<open, cur, elapsed, delayVars>>
          /\ Broadcast
       \/ /\ ~Expired /\ ~DelayExpired /\ events = {}
          /\ UNCHANGED <<open, cur, elapsed, delayVars, events>>
          /\ Refresh
    /\ NoteEnd

\* MG_EV_MQTT_CONNACK: everything but the active zone is published at once.
MqttUp ==
    /\ MqttEnabled /\ proc = "up" /\ ~mqtt
    /\ mqtt' = TRUE
    /\ events' = events \ {"status", "rainchance", "raintotal"}
    /\ stale' = stale \ {"state"}
    /\ UNCHANGED <<open, cur, elapsed, runtime, calendar, delayVars, limits, rainTotal, proc,
                   asked>>

\* MG_EV_CLOSE on the MQTT connection.
MqttDown ==
    /\ proc = "up" /\ mqtt
    /\ mqtt' = FALSE
    /\ UNCHANGED <<zcVars, runtime, calendar, delayVars, limits, rainTotal, proc, stale, asked>>

-----------------------------------------------------------------------------
(***************************************************************************)
(* The clock.                                                               *)
(***************************************************************************)
Earlier(left) == IF left = NoEnd \/ left = -1 THEN left ELSE left - 1

Tick ==
    /\ elapsed' = IF proc = "up" /\ cur.type # "NONE" /\ elapsed < MaxElapsed
                  THEN elapsed + 1 ELSE elapsed
    /\ delayLeft' = Earlier(delayLeft)
    /\ cache' = [cache EXCEPT !.left = Earlier(cache.left)]
    /\ asked' = Earlier(asked)
    /\ UNCHANGED <<open, cur, events, runtime, calendar, delay24h, asFloat, limits, rainTotal,
                   proc, mqtt, stale>>

(***************************************************************************)
(* The end of the process and its start.  The memory of a process that has  *)
(* ended is left as it was: nothing reads it, and Restart overwrites it.    *)
(***************************************************************************)
\* intHandler: every configured pin is closed and the cache saved.  Installed
\* for SIGINT, SIGTERM and SIGSEGV; all of them exit with success.
IntHandler(delay, left, float) ==
    /\ proc = "up"
    /\ proc' = "stopped"
    /\ open' = open \ (Zones \cup MasterPin)
    /\ WriteCache(delay, left, float)
    /\ asked' = IF <<left, float>> = <<delayLeft, asFloat>> THEN asked ELSE left
    /\ mqtt' = FALSE
    /\ UNCHANGED <<cur, elapsed, events, runtime, calendar, delay24h, delayLeft, asFloat,
                   limits, rainTotal, stale>>

Stop == IntHandler(delay24h, delayLeft, asFloat)

\* The signal may find enable_delay24h or reset_delay24h_time between the
\* assignments of the flag and of the end, which time() first sets to now.
StopInDelayHandler ==
    /\ Interrupts
    /\ \/ ~delay24h /\ IntHandler(TRUE, delayLeft, asFloat)
       \/ delay24h /\ IntHandler(FALSE, delayLeft, asFloat)
       \/ IntHandler(TRUE, 0, FALSE)

\* A kill leaves the pins as they are; a loss of power closes them.
Crash ==
    /\ Crashes
    /\ proc = "up"
    /\ proc' = "killed"
    /\ open' \in {open, {}}
    /\ mqtt' = FALSE
    /\ UNCHANGED <<cur, elapsed, events, runtime, calendar, delayVars, limits, rainTotal, stale,
                   asked>>

\* Faulty variant: startup_state is not written to the pins.
Restart_KeepsPins ==
    /\ proc # "up"
    /\ proc' = "up"
    /\ open' = open
    /\ cur' = BootRun
    /\ elapsed' = 0
    /\ events' = {}
    /\ runtime' = [z \in 0..N |-> IF z \in Zones THEN cache.runtime[z] ELSE runtime[z]]
    /\ calendar' = cache.calendar
    /\ delay24h' = cache.delay24h
    /\ delayLeft' \in Reread(cache.left, cache.asFloat)
    /\ asFloat' = TRUE
    /\ limits' = cache.limits
    /\ rainTotal' = 0
    /\ stale' = Topics
    /\ UNCHANGED <<cache, mqtt, asked>>

\* main, readCfg, read_cache and the pin setup of main_loop.
Restart ==
    /\ proc # "up"
    /\ proc' = "up"
    /\ open' = open \ (Zones \cup MasterPin)
    /\ cur' = BootRun
    /\ elapsed' = 0
    /\ events' = {}
    /\ runtime' = [z \in 0..N |-> IF z \in Zones THEN cache.runtime[z] ELSE runtime[z]]
    /\ calendar' = cache.calendar
    /\ delay24h' = cache.delay24h
    /\ delayLeft' \in Reread(cache.left, cache.asFloat)
    /\ asFloat' = TRUE
    /\ limits' = cache.limits
    /\ rainTotal' = 0
    /\ stale' = Topics
    /\ UNCHANGED <<cache, mqtt, asked>>

\* The first start, on a machine with no cache file: the values of the
\* configuration file, which is what a cache file with them would give.
Init ==
    /\ proc = "up" /\ mqtt = FALSE /\ stale = Topics /\ asked = NoEnd
    /\ open = {} /\ cur = BootRun /\ elapsed = 0 /\ events = {}
    /\ runtime \in ConfigRuntimes
    /\ calendar = TRUE
    /\ delay24h = FALSE /\ delayLeft = NoEnd /\ asFloat = TRUE
    /\ limits \in Limits
    /\ rainTotal = 0
    /\ cache = [calendar |-> TRUE, delay24h |-> FALSE, left |-> NoEnd, asFloat |-> TRUE,
                limits |-> limits, runtime |-> [z \in Zones |-> runtime[z]]]

Next == Request \/ LoopPass \/ MqttUp \/ MqttDown \/ Tick
        \/ Stop \/ StopInDelayHandler \/ Crash \/ Restart

Spec == Init /\ [][Next]_vars

(***************************************************************************)
(* Fairness: the loop body is reached at least every half second and after  *)
(* every batch of messages (mg_mgr_poll(500)), so it cannot be put off for  *)
(* ever, nor can it always fall on the instants at which a run has just     *)
(* ended; time passes; systemd starts a killed daemon again                 *)
(* (Restart=on-failure), but not one that was stopped.                      *)
(***************************************************************************)
Fairness ==
    /\ WF_vars(LoopPass)
    /\ SF_vars(LoopPass /\ ~Expired)
    /\ WF_vars(Tick)
    /\ WF_vars(Restart /\ proc = "killed")

FairSpec == Spec /\ Fairness
-----------------------------------------------------------------------------
(***************************************************************************)
(* What the daemon promises.  The promises about the run are made by the    *)
(* process that is up: a killed one leaves its valves to the next start.    *)
(***************************************************************************)
\* At most one irrigation zone is open, whatever ends or interrupts the daemon.
OneZone == OneZoneOpen

\* While the daemon is up, the zone that is open is the one its timer will close.
ValveIsTimed == proc = "up" => NoUntimedValve

\* While the daemon is up, the master valve is on only during a run.
MasterDuringRun == proc = "up" => MasterIsTimed

\* While the daemon is up, a zone waters with the master valve on, never without.
MasterWithZone == proc = "up" => MasterOnWithZone

\* While the daemon is up, no scheduled run waters during a rain delay.
DelayStopsSchedule == proc = "up" => NoScheduledWateringInDelay

\* A rain delay in force has an end, so that check_delay24h can lift it.
DelayHasEnd == proc = "up" => HasEnd

\* The cache file always holds the delay in force (to the precision read_cache
\* restores), so that a crash neither loses a rain delay nor brings one back.
DelayIsSaved == proc = "up" => Saved

\* Through any number of stops, kills and starts, and the reading back of a cache file
\* that was itself written from what was read back, a delay ends when it was set to
\* end, to the precision of one reading ("%f" in read_cache): the errors do not add up.
EndIsKept ==
    proc = "up" => /\ delayLeft = NoEnd <=> asked = NoEnd
                   /\ delayLeft - asked \in (-Rounding)..Rounding

\* What an MQTT client was last told is the state, or an event bit is pending that
\* makes the next pass of the loop tell it: no handler forgets to raise one.
PublishedOrPending == mqtt /\ "state" \in stale => events # {}

\* A cycle of all zones waters them in order, skipping only zones without a runtime
\* or with a bad pin, and neither the end of a zone's time nor a request in the middle
\* of it can make it go back, or start the same zone again.
CycleInOrder ==
    [][cur.type = "ALL" /\ cur'.type = "ALL" /\ (cur'.zone # cur.zone \/ elapsed' < elapsed) =>
          /\ cur'.zone > cur.zone
          /\ \A z \in (cur.zone + 1)..(cur'.zone - 1) : runtime[z] <= 0 \/ z \notin ValidPin]_vars

\* A "request to turn off master will turn off any running zone" (net_services.c:814).
MasterOffEndsWatering ==
    [][proc = "up" /\ 0 \in open /\ 0 \notin open' => Watering' = {}]_vars

\* A rain delay that comes into force "leave[s] on any zones that were manually
\* turned on" (zone_ctrl.c:114): only a scheduled run ends with it.
DelaySparesManualRuns ==
    [][proc = "up" /\ ~delay24h /\ delay24h' /\ cur.type # "CRON" => UNCHANGED <<open, cur>>]_vars

\* A rain delay lasts until its end, unless a request turns it off: the rain
\* totals "enable 48h rain delay" (README.md:224), the script of README.md:118 longer.
DelayRunsItsTime ==
    [][proc = "up" /\ delay24h /\ ~delay24h' => DelayExpired \/ DelayRequest]_vars

\* Every valve that opens closes: the run ends, is interrupted, or the daemon is
\* started again and closes it.
ValvesClose == \A z \in Zones : z \in open ~> z \notin open

\* A cycle of all zones comes to its end.
CyclesEnd == cur.type = "ALL" ~> (cur.type # "ALL" \/ proc # "up")

\* A state change reaches the MQTT clients, unless the connection is lost; so does
\* the end of a run that fell into a lost connection, which CONNACK does not tell.
ChangesArePublished ==
    \A topic \in Topics : (mqtt /\ topic \in stale) ~> (~mqtt \/ topic \notin stale)

\* Once the daemon is no longer stopped or killed, a rain delay that nothing renews
\* and that has an end is lifted, also one that was set before, or read from the cache
\* (check_delay24h); a signal inside enable_delay24h may leave one without an end.
DelaysEnd == <>[](proc = "up") => (delay24h /\ delayLeft # NoEnd ~> ~delay24h)
=============================================================================
