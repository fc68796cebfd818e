------------------------------ MODULE ZoneCtrl ------------------------------
(***************************************************************************)
(* The zone controller of SprinklerD (src/zone_ctrl.c): which valves are    *)
(* open, which run is in progress and when it ends.  The operations are     *)
(* called by the request handlers, by the rain delay and by the main loop,  *)
(* all on one thread, so each is one atomic step here.  The module gives    *)
(* the operations; Sprinkler.tla composes them into a specification.        *)
(*                                                                          *)
(* Time is relative: elapsed is the number of seconds since                 *)
(* currentZone.started_time.  It has no meaning without a run, and is then  *)
(* kept at 0.  currentZone.timeleft is not state: the code recomputes it    *)
(* before each decision (TimeLeft).                                         *)
(***************************************************************************)
EXTENDS Integers

CONSTANTS
    N,            \* _sdconfig_.zones: the zones are 1..N, zone 0 is the master valve
    MasterValve,  \* _sdconfig_.master_valve: [ZONE:0] is configured
    ValidPin,     \* the zones of 0..N whose GPIO pin validGPIO accepts
    SEC2MIN,      \* seconds in a minute (60 in the code, small for TLC)
    Runtimes,     \* the values a default_runtime ranges over, in minutes
    Lengths       \* the run lengths requests carry (0: use the default)

ASSUME ZonesAssumption    == N \in Nat \ {0}
ASSUME PinsAssumption     == MasterValve \in BOOLEAN /\ ValidPin \subseteq 0..N
ASSUME MinutesAssumption  == SEC2MIN \in Nat \ {0}
ASSUME RuntimesAssumption == Runtimes \subseteq Int /\ Lengths \subseteq Int

VARIABLES
    open,      \* the zones of 0..N whose pin reads on_state
    cur,       \* _sdconfig_.currentZone: its type, zone and duration
    elapsed,   \* seconds since currentZone.started_time
    runtime,   \* zonecfg[z].default_runtime for z in 0..N
    calendar,  \* _sdconfig_.calendar
    delay24h,  \* _sdconfig_.delay24h
    events     \* _sdconfig_.updateEventMask, as the set of its bits

zcVars == <<open, cur, elapsed, events>>

Zones    == 1..N
RunTypes == {"NONE", "SINGLE", "ALL", "CRON"}
Bits     == {"zones", "status", "rainchance", "raintotal"}

Runs     == [type : RunTypes, zone : -1..N, duration : Runtimes \cup Lengths \cup {0}]

ZcTypeOK ==
    /\ open \subseteq ValidPin
    /\ cur \in Runs
    /\ elapsed \in Nat
    /\ runtime \in [0..N -> Runtimes]
    /\ calendar \in BOOLEAN
    /\ delay24h \in BOOLEAN
    /\ events \subseteq Bits

(***************************************************************************)
(* Pins.                                                                    *)
(***************************************************************************)
\* What zc_master drives: nothing without a master valve, and nothing on a bad pin.
MasterPin == IF MasterValve /\ 0 \in ValidPin THEN {0} ELSE {}

Raise(bits) == events' = events \cup bits

\* zc_start and zc_stop set the zones bit for each pin they switch.
PinBit == IF open' # open THEN {"zones"} ELSE {}

\* calc_timeleft
TimeLeft == IF cur.zone # -1 THEN cur.duration * SEC2MIN - elapsed ELSE 0

(***************************************************************************)
(* start_next_zone(k): the first zone above k with a runtime and a usable   *)
(* pin, given the zones already closed by the caller.  zc_start refuses a   *)
(* zone that is already on, and the recursion then looks further.           *)
(***************************************************************************)
\* Faulty variant: validGPIO is not asked.
Runnable_AnyPin(k, left) == {z \in Zones : z > k /\ runtime[z] > 0 /\ z \notin left}

Runnable(k, left) ==
    {z \in Zones : z > k /\ runtime[z] > 0 /\ z \in ValidPin /\ z \notin left}

NoRun == /\ cur' = [type |-> "NONE", zone |-> -1, duration |-> cur.duration]
         /\ elapsed' = 0

\* Faulty variant: no zc_master(zcON).
StartNextZone_NoMaster(k, left) ==
    \/ \E z \in Runnable(k, left) :
          /\ \A y \in Runnable(k, left) : z <= y
          /\ open' = left \cup {z}
          /\ cur' = [type |-> "ALL", zone |-> z, duration |-> runtime[z]]
          /\ elapsed' = 0
    \/ /\ Runnable(k, left) = {}
       /\ open' = left \ MasterPin
       /\ NoRun

StartNextZone(k, left) ==
    \/ \E z \in Runnable(k, left) :
          /\ \A y \in Runnable(k, left) : z <= y
          /\ open' = left \cup {z} \cup MasterPin
          /\ cur' = [type |-> "ALL", zone |-> z, duration |-> runtime[z]]
          /\ elapsed' = 0
    \/ /\ Runnable(k, left) = {}
       /\ open' = left \ MasterPin
       /\ NoRun

(***************************************************************************)
(* zc_check: what it does once the time of the run is up, and when that is. *)
(***************************************************************************)
CycleGoesOn == cur.type = "ALL" /\ cur.zone < N

\* Faulty variants of the definition that follows; no definition uses them.
ZoneDone_LeavesZoneOpen ==
    \/ CycleGoesOn /\ StartNextZone(cur.zone, open \ {cur.zone})
    \/ ~CycleGoesOn /\ open' = open \ MasterPin /\ NoRun

ZoneDone_LeavesMasterOn ==
    \/ CycleGoesOn /\ StartNextZone(cur.zone, open \ {cur.zone})
    \/ ~CycleGoesOn /\ open' = open \ {cur.zone} /\ NoRun

ZoneDone_FromFirstZone ==
    \/ CycleGoesOn /\ StartNextZone(0, open \ {cur.zone})
    \/ ~CycleGoesOn /\ open' = open \ ({cur.zone} \cup MasterPin) /\ NoRun

ZoneDone ==
    \/ CycleGoesOn /\ StartNextZone(cur.zone, open \ {cur.zone})
    \/ ~CycleGoesOn /\ open' = open \ ({cur.zone} \cup MasterPin) /\ NoRun

\* Faulty variant: one second late.
Expired_Late == cur.type # "NONE" /\ TimeLeft < 0

Expired == cur.type # "NONE" /\ TimeLeft <= 0

(***************************************************************************)
(* zc_zone(type, z, on ? zcON : zcOFF, length).  "also" is the set of event *)
(* bits the caller of the operation raises in the same step.                *)
(***************************************************************************)
Duplicate(type, z, on) ==
    \/ z \in Zones /\ on = (z \in open)
    \/ z \notin Zones /\ type = "ALL" /\ on = (cur.type = "ALL")

NotScheduled(type, on) == type = "CRON" /\ on /\ (~calendar \/ delay24h)

RunLength(z, length) == IF length = 0 THEN runtime[z] ELSE length

Ignored(type, z, on, length) ==
    \/ Duplicate(type, z, on)
    \/ NotScheduled(type, on)
    \/ type # "ALL" /\ on /\ RunLength(z, length) <= 0

CycleAll(on, also) ==
    LET closed == open \ (Zones \cup MasterPin)
    IN \/ on /\ StartNextZone(0, closed) /\ Raise(also \cup {"zones"})
       \/ /\ ~on
          /\ open' = closed
          /\ cur' = [cur EXCEPT !.type = "NONE"]
          /\ elapsed' = 0
          /\ Raise(also \cup PinBit)

\* Faulty variant: the zones that are on are left on.
SwitchOn_KeepsOthers(type, z, length, also) ==
    /\ z \in ValidPin
    /\ open' = open \cup {z} \cup MasterPin
    /\ cur' = [type |-> type, zone |-> z, duration |-> RunLength(z, length)]
    /\ elapsed' = 0
    /\ Raise(also \cup {"zones"})

\* Every other zone is stopped before zc_start is tried; when it fails the
\* run that was in progress stays in currentZone and the master stays as it was.
SwitchOn(type, z, length, also) ==
    LET others == open \ Zones
        starts == z \in ValidPin /\ z \notin others
    IN /\ \/ /\ starts
             /\ open' = others \cup {z} \cup MasterPin
             /\ cur' = [type |-> type, zone |-> z, duration |-> RunLength(z, length)]
             /\ elapsed' = 0
          \/ ~starts /\ open' = others /\ UNCHANGED <<cur, elapsed>>
       /\ Raise(also \cup PinBit \cup (IF z \in others THEN {} ELSE {"zones"}))

\* Faulty variant: no zc_master(zcOFF).
SwitchOff_LeavesMasterOn(z, also) ==
    \/ cur.type = "ALL" /\ ZoneDone /\ Raise(also \cup {"zones"})
    \/ /\ cur.type # "ALL"
       /\ open' = open \ {z}
       /\ NoRun
       /\ Raise(also \cup PinBit)

\* In a cycle the start time is pushed back past the end and zc_check moves on.
SwitchOff(z, also) ==
    \/ cur.type = "ALL" /\ ZoneDone
       /\ Raise(also \cup PinBit \cup (IF CycleGoesOn THEN {"zones"} ELSE {}))
    \/ /\ cur.type # "ALL"
       /\ open' = open \ ({z} \cup MasterPin)
       /\ NoRun
       /\ Raise(also \cup PinBit)

ZcZone(type, z, on, length, also) ==
    \/ Ignored(type, z, on, length) /\ UNCHANGED <<open, cur, elapsed>> /\ Raise(also)
    \/ /\ ~Ignored(type, z, on, length)
       /\ \/ type = "ALL" /\ CycleAll(on, also)
          \/ type # "ALL" /\ on /\ SwitchOn(type, z, length, also)
          \/ type # "ALL" /\ ~on /\ SwitchOff(z, also)

(***************************************************************************)
(* zc_rain_delay_enabeled and zc_update_runtime.                            *)
(***************************************************************************)
\* Faulty variant: whatever runs is turned off.
ZcRainDelayEnabled_AnyRun(also) ==
    \/ cur.zone > 0 /\ ZcZone("SINGLE", cur.zone, FALSE, 0, also)
    \/ ~(cur.zone > 0) /\ UNCHANGED <<open, cur, elapsed>> /\ Raise(also)

ZcRainDelayEnabled(also) ==
    \/ cur.type = "CRON" /\ cur.zone > 0 /\ ZcZone("SINGLE", cur.zone, FALSE, 0, also)
    \/ ~(cur.type = "CRON" /\ cur.zone > 0) /\ UNCHANGED <<open, cur, elapsed>> /\ Raise(also)

\* Faulty variant: no setEventZones.
SetRuntime_Silent(z, t, also) ==
    /\ runtime' = [runtime EXCEPT ![z] = t]
    /\ cur' = IF z > 0 /\ z < N /\ z = cur.zone THEN [cur EXCEPT !.duration = t] ELSE cur
    /\ Raise(also)
    /\ UNCHANGED <<open, elapsed>>

\* The handlers change default_runtime and then call zc_update_runtime.
SetRuntime(z, t, also) ==
    /\ runtime' = [runtime EXCEPT ![z] = t]
    /\ cur' = IF z > 0 /\ z < N /\ z = cur.zone THEN [cur EXCEPT !.duration = t] ELSE cur
    /\ Raise(also \cup {"zones"})
    /\ UNCHANGED <<open, elapsed>>

(***************************************************************************)
(* What the controller promises.                                            *)
(***************************************************************************)
Watering == open \cap Zones

\* One irrigation zone at most is open: a second one would halve the pressure of
\* the first, and every start path of zone_ctrl.c closes the others first.
OneZoneOpen == \A y, z \in Watering : y = z

\* An open zone belongs to the run the timer counts down: nothing else closes it.
NoUntimedValve == \A z \in Watering : cur.type # "NONE" /\ cur.zone = z

\* The master valve (or pump) is on only while a run is in progress.
MasterIsTimed == 0 \in open => cur.type # "NONE"

\* A zone never waters without the master valve, whose pump it needs.
MasterOnWithZone == MasterPin # {} /\ Watering # {} => 0 \in open

\* No scheduled run waters during a rain delay: every way of setting the delay
\* ends the scheduled run in progress, and none can be started under it.
NoScheduledWateringInDelay ==
    delay24h => ~(cur.type = "CRON" /\ cur.zone \in Watering)
=============================================================================
