---------------------------- MODULE WateringDay -----------------------------
(***************************************************************************)
(* From the calendar to the valves: the crontab of Schedule.tla, cron,      *)
(* which sends its lines as requests (type=cron), and the zone controller   *)
(* of ZoneCtrl.tla, which waters.                                           *)
(*                                                                          *)
(* By night the calendar is edited and the crontab written, in the steps of *)
(* Schedule.  A day begins with the daemon up and nothing left to write,    *)
(* and passes minute by minute.  In each minute cron sends the lines that   *)
(* are due, the daemon handles them in any order with other requests and    *)
(* with the loop body, and may be stopped and started.  The calendar is not *)
(* edited during a day, and what it leads to ends with it.                  *)
(***************************************************************************)
EXTENDS Schedule, FiniteSetsExt

CONSTANTS
    MasterValve, ValidPin, Lengths,  \* as in ZoneCtrl
    DefaultRuntime,                  \* the default runtime of every zone
    MaxTroubles                      \* how often a day is disturbed

ASSUME DayAssumption ==
    /\ MasterValve \in BOOLEAN /\ ValidPin \subseteq 0..N
    /\ Lengths \subseteq Int /\ DefaultRuntime \in Runtimes /\ MaxTroubles \in Nat

VARIABLES
    open, cur, elapsed, runtime, calendar, delay24h, events,  \* as in ZoneCtrl
    today,     \* the day of the week
    minute,    \* the minute of the day, or Night
    due,       \* the lines that cron has sent and the daemon has not handled
    watered,   \* history: how many minutes each zone has watered for a line of cron
    spoiled,   \* history: the zones whose scheduled run something else has disturbed
    troubles   \* how often that may have happened

settings == <<runtime, calendar, delay24h>>
dayVars  == <<today, minute, due, watered, spoiled, troubles>>
allVars  == <<vars, open, cur, elapsed, settings, events, dayVars>>

Ctrl == INSTANCE ZoneCtrl WITH SEC2MIN <- 1

Night == -1

\* The lines of today that cron sends at minute m.  It takes no line without its end, and
\* may then not take the rest of the file either.
LinesAt(m) == {l \in crontab[today].runs : MinuteOfDay(l) = m}

\* The minutes at which cron has something to send, from m on.
Ahead(m) == {MinuteOfDay(l) : l \in crontab[today].runs} \cap m..(24 * 60)

DayIsOver ==
    /\ minute # Night /\ Ahead(minute + 1) = {}
    /\ proc = "up" /\ due = {} /\ events = {} /\ cur.type = "NONE"

ScheduledRun == cur.type = "CRON" /\ cur.zone \in open

-----------------------------------------------------------------------------
ByNight(A) ==
    minute = Night /\ A /\ UNCHANGED <<open, cur, elapsed, settings, events, dayVars>>

\* The hours before the first line are passed over; a day without lines is not begun.
Dawn ==
    /\ minute = Night /\ proc = "up" /\ pending = NoUpdate /\ ~lost
    /\ \E d \in Days :
          /\ crontab[d].runs # {}
          /\ today' = d
          /\ minute' = Min({MinuteOfDay(l) : l \in crontab[d].runs})
          /\ \/ due' = {l \in crontab[d].runs : MinuteOfDay(l) = minute'}
             \/ ~whole /\ due' = {}
    /\ UNCHANGED <<vars, open, cur, elapsed, settings, events, watered, spoiled, troubles>>

\* A minute passes once the daemon has done what was to be done in it.
Minute ==
    /\ minute # Night /\ due = {}
    /\ proc = "up" => events = {} /\ ~Ctrl!Expired
    /\ Ahead(minute + 1) # {} \/ cur.type # "NONE"
    /\ minute' = minute + 1
    /\ due' = LinesAt(minute') \/ (~whole /\ due' = {})
    /\ elapsed' = IF cur.type # "NONE" THEN elapsed + 1 ELSE 0
    /\ watered' = IF ScheduledRun THEN [watered EXCEPT ![cur.zone] = @ + 1] ELSE watered
    /\ UNCHANGED <<vars, open, cur, settings, events, today, spoiled, troubles>>

\* cron sends curl, and curl the request, of which nobody hears when the daemon is down.
\* A zone that waters already, for somebody else, is left to that; a delay and a
\* calendar that is off refuse it.
CronRequest ==
    \E l \in due :
        /\ due' = due \ {l}
        /\ \/ proc = "up" /\ Ctrl!ZcZone("CRON", l.zone, TRUE, l.runtime, {})
           \/ proc = "down" /\ UNCHANGED <<open, cur, elapsed, events>>
        /\ spoiled' = IF proc = "down" \/ l.zone \in open \/ delay24h \/ ~calendar
                      THEN spoiled \cup {l.zone} ELSE spoiled
        /\ UNCHANGED <<vars, settings, today, minute, watered, troubles>>

LoopPass ==
    /\ minute # Night /\ proc = "up"
    /\ \/ Ctrl!Expired /\ Ctrl!ZoneDone
       \/ ~Ctrl!Expired /\ events # {} /\ UNCHANGED <<open, cur, elapsed>>
    /\ events' = {}
    /\ UNCHANGED <<vars, settings, dayVars>>

\* Whatever changes the scheduled run spoils it.
Spoils ==
    spoiled' = IF ScheduledRun /\ (open' # open \/ cur' # cur)
               THEN spoiled \cup {cur.zone} ELSE spoiled

Trouble ==
    /\ minute # Night /\ ~DayIsOver
    /\ troubles < MaxTroubles /\ troubles' = troubles + 1
    /\ Spoils
    /\ UNCHANGED <<today, minute, due, watered>>

\* Any other request: a zone, the cycle, a default runtime, the calendar, the delay.
OtherRequest ==
    /\ proc = "up"
    /\ \/ /\ \E on \in BOOLEAN :
                \/ \E z \in Zones, len \in Lengths : Ctrl!ZcZone("SINGLE", z, on, len, {})
                \/ Ctrl!ZcZone("ALL", 0, on, 0, {})
          /\ UNCHANGED settings
       \/ /\ \E z \in Zones, t \in Runtimes : Ctrl!SetRuntime(z, t, {})
          /\ UNCHANGED <<calendar, delay24h>>
       \/ /\ calendar' = ~calendar /\ events' = events \cup {"status"}
          /\ UNCHANGED <<open, cur, elapsed, runtime, delay24h>>
       \/ /\ delay24h' = ~delay24h
          /\ \/ ~delay24h /\ Ctrl!ZcRainDelayEnabled({"status"})
             \/ delay24h /\ UNCHANGED <<open, cur, elapsed>> /\ events' = events \cup {"status"}
          /\ UNCHANGED <<runtime, calendar>>
    /\ Trouble
    /\ UNCHANGED vars

\* A signal closes the pins, a kill leaves them as they are.
EndByDay ==
    /\ Crashes /\ proc = "up" /\ proc' = "down"
    /\ open' \in {open, {}}
    /\ cur' = [type |-> "NONE", zone |-> 0, duration |-> 0] /\ elapsed' = 0 /\ events' = {}
    /\ Trouble
    /\ UNCHANGED <<cron, pending, crontab, whole, lost, settings>>

\* After a kill the delay is as it was, the rest may be older.
StartByDay ==
    /\ minute # Night
    /\ Start
    /\ open' = {}
    /\ calendar' \in {calendar, TRUE}
    /\ runtime' \in {runtime, [z \in 0..N |-> DefaultRuntime]}
    /\ UNCHANGED <<cur, elapsed, delay24h, events, dayVars>>

\* Nothing is left to happen on this day.
Dusk == DayIsOver /\ UNCHANGED allVars

DayInit ==
    /\ Init
    /\ open = {} /\ cur = [type |-> "NONE", zone |-> 0, duration |-> 0] /\ elapsed = 0
    /\ runtime = [z \in 0..N |-> DefaultRuntime] /\ calendar = TRUE /\ delay24h = FALSE
    /\ events = {}
    /\ today \in Days /\ minute = Night /\ due = {}
    /\ watered = NoWater /\ spoiled = {} /\ troubles = 0

DayNext == ByNight(Next) \/ Dawn \/ Minute \/ CronRequest \/ LoopPass \/ OtherRequest
           \/ EndByDay \/ StartByDay \/ Dusk

DaySpec == DayInit /\ [][DayNext]_allVars

\* The main loop calls check_cron at least every half second; time passes.
FairDaySpec ==
    DaySpec /\ WF_allVars(ByNight(CheckCron)) /\ WF_allVars(ByNight(Tick))
-----------------------------------------------------------------------------
\* How long the calendar waters zone z, and in which minute of the day it comes to it.
Length(c, z) == IF c.zruntimes[z] > 0 THEN c.zruntimes[z] ELSE 0

BeginOf(c) ==
    LET at[z \in Zones] ==
            IF z = 1 THEN MinuteOfDay(c) ELSE at[z - 1] + Length(c, z - 1)
    IN at

\* What the calendar has for zone z today, unless the zones before it are not done by
\* midnight.
Planned(z) ==
    LET c == cron[today]
    IN IF Scheduled(c) /\ BeginOf(c)[z] < 24 * 60 THEN Length(c, z) ELSE 0

\* When the day is over every zone has watered as long as the calendar shows, no minute
\* less or more: through the start times that write_cron works out, the end of each run
\* in the same minute as the start of the next, in either order, and whatever else
\* disturbed other zones (write_cron, sd_cron.c:163; zc_zone, zone_ctrl.c:155).  Left out
\* are the zones whose own run something changed, and those that could not start: the
\* daemon was down, a delay or the calendar switch refused it, or they watered already.
\* Of a crontab that an end cut inside a line cron runs less than the calendar shows.
WateredAsPlanned ==
    DayIsOver /\ whole => \A z \in Zones \ spoiled : watered[z] = Planned(z)
=============================================================================
