-------------------------- MODULE RainDelayProofs --------------------------
(***************************************************************************)
(* What the operations of the zone controller and the handlers of the rain  *)
(* delay preserve, for every number of zones, every pin configuration and   *)
(* every request: the types, the invariants of the run, that a delay has an *)
(* end, that no scheduled run waters under it and that the cache file holds *)
(* it; and that what changes raises an event bit.  SprinklerProofs.tla and  *)
(* DomoticzProofs.tla cite these lemmas once per action.                    *)
(***************************************************************************)
EXTENDS RainDelay, TLAPS

\* The part of the type invariant an operation on the run can disturb.
RunTypeOK ==
    /\ open \subseteq ValidPin
    /\ cur \in Runs
    /\ elapsed \in Nat
    /\ events \subseteq Bits

\* The zones that are open belong to the run, if there is one; a run has a zone;
\* the master pin is on only where zc_master drives it.
RunOwnsZones   == cur.type # "NONE" => Watering \subseteq {cur.zone}
RunHasZone     == cur.type # "NONE" => cur.zone \in 0..N
MasterIsDriven == 0 \in open => MasterPin = {0}

\* The inductive invariant of the run, which holds whatever is requested.
RunInv ==
    /\ OneZoneOpen
    /\ RunOwnsZones
    /\ RunHasZone
    /\ MasterIsDriven
    /\ MasterIsTimed

\* What holds on top of it when no request names zone 0.
TimedInv == NoUntimedValve /\ MasterOnWithZone

-----------------------------------------------------------------------------
\* start_next_zone opens one zone, with the master, or ends the run with the
\* master off, when the caller has closed every zone.
LEMMA StartNextZoneKeeps ==
    ASSUME ZcTypeOK,
           NEW k \in 0..N, NEW left, left \subseteq open, left \cap Zones = {},
           0 \in left => MasterPin = {0},
           StartNextZone(k, left)
    PROVE  /\ open' \subseteq ValidPin
           /\ cur' \in Runs
           /\ elapsed' \in Nat
           /\ RunInv' /\ TimedInv'
           /\ cur'.type \in {"ALL", "NONE"}
<1> USE ZonesAssumption, PinsAssumption
<1>1. CASE Runnable(k, left) = {}
  <2>1. open' = left \ MasterPin /\ NoRun
    BY <1>1 DEF StartNextZone
  <2>2. open' \cap Zones = {} /\ 0 \notin open'
    BY <2>1 DEF MasterPin
  <2>3. /\ cur' \in Runs
        /\ cur'.type = "NONE" /\ elapsed' = 0
    BY <2>1 DEF NoRun, ZcTypeOK, Runs, RunTypes
  <2>4. open' \subseteq ValidPin
    BY <2>1 DEF ZcTypeOK
  <2>5. RunInv' /\ TimedInv'
    BY <2>2, <2>3 DEF RunInv, OneZoneOpen, RunOwnsZones, RunHasZone, MasterIsDriven, MasterIsTimed,
       Watering, TimedInv, NoUntimedValve, MasterOnWithZone
  <2> QED BY <2>3, <2>4, <2>5
<1>2. CASE Runnable(k, left) # {}
  <2>1. PICK z \in Runnable(k, left) :
          /\ open' = left \cup {z} \cup MasterPin
          /\ cur' = [type |-> "ALL", zone |-> z, duration |-> runtime[z]]
          /\ elapsed' = 0
    BY <1>2 DEF StartNextZone
  <2>2. z \in Zones /\ z \in ValidPin
    BY DEF Runnable
  <2>3. open' \cap Zones = {z}
    BY <2>1, <2>2 DEF MasterPin, Zones
  <2>4. runtime[z] \in Runtimes
    BY <2>2 DEF ZcTypeOK, Zones
  <2>5. /\ cur' \in Runs
        /\ cur'.type = "ALL" /\ cur'.zone = z /\ elapsed' = 0
    BY <2>1, <2>2, <2>4 DEF Runs, RunTypes, Zones
  <2>6. open' \subseteq ValidPin
    BY <2>1, <2>2 DEF ZcTypeOK, MasterPin
  <2>7. RunInv'
    BY <2>1, <2>3, <2>5, <2>2 DEF RunInv, OneZoneOpen, RunOwnsZones, RunHasZone, MasterIsDriven,
       MasterIsTimed, Watering, MasterPin, Zones
  <2>8. TimedInv'
    BY <2>1, <2>3, <2>5 DEF TimedInv, NoUntimedValve, MasterOnWithZone, Watering, MasterPin
  <2> QED BY <2>5, <2>6, <2>7, <2>8
<1> QED BY <1>1, <1>2

-----------------------------------------------------------------------------
\* The end of a zone's time: the next zone of the cycle, or the end of the run.
LEMMA ZoneDoneKeeps ==
    ASSUME ZcTypeOK, RunInv, cur.type # "NONE", ZoneDone
    PROVE  /\ open' \subseteq ValidPin /\ cur' \in Runs /\ elapsed' \in Nat
           /\ RunInv' /\ TimedInv'
           /\ cur'.type \in {"ALL", "NONE"}
<1> USE ZonesAssumption, PinsAssumption
<1>1. (open \ {cur.zone}) \cap Zones = {}
  BY DEF RunInv, RunOwnsZones, Watering
<1>2. CASE CycleGoesOn
  <2>1. StartNextZone(cur.zone, open \ {cur.zone})
    BY <1>2 DEF ZoneDone
  <2>2. cur.zone \in 0..N
    BY DEF RunInv, RunHasZone
  <2>3. 0 \in open \ {cur.zone} => MasterPin = {0}
    BY DEF RunInv, MasterIsDriven
  <2> QED BY <1>1, <2>1, <2>2, <2>3, StartNextZoneKeeps
<1>3. CASE ~CycleGoesOn
  <2>1. open' = open \ ({cur.zone} \cup MasterPin) /\ NoRun
    BY <1>3 DEF ZoneDone
  <2>2. open' \cap Zones = {} /\ 0 \notin open' /\ open' \subseteq ValidPin
    BY <1>1, <2>1 DEF RunInv, MasterIsDriven, ZcTypeOK
  <2>3. cur' \in Runs /\ cur'.type = "NONE" /\ elapsed' = 0
    BY <2>1 DEF NoRun, ZcTypeOK, Runs, RunTypes
  <2>4. RunInv' /\ TimedInv'
    BY <2>2, <2>3 DEF RunInv, OneZoneOpen, RunOwnsZones, RunHasZone, MasterIsDriven, MasterIsTimed,
       Watering, TimedInv, NoUntimedValve, MasterOnWithZone
  <2> QED BY <2>2, <2>3, <2>4
<1> QED BY <1>2, <1>3

\* A request to cycle all zones, or to stop the cycle.
LEMMA CycleAllKeeps ==
    ASSUME ZcTypeOK, RunInv, NEW on \in BOOLEAN, NEW also, CycleAll(on, also)
    PROVE  /\ open' \subseteq ValidPin /\ cur' \in Runs /\ elapsed' \in Nat
           /\ RunInv' /\ TimedInv'
           /\ cur'.type \in {"ALL", "NONE"}
<1> USE ZonesAssumption, PinsAssumption
<1> DEFINE closed == open \ (Zones \cup MasterPin)
<1>1. closed \cap Zones = {} /\ 0 \notin closed /\ closed \subseteq open
  BY DEF RunInv, MasterIsDriven
<1>2. CASE on
  <2>1. StartNextZone(0, closed)
    BY <1>2 DEF CycleAll
  <2> QED BY <1>1, <2>1, StartNextZoneKeeps
<1>3. CASE ~on
  <2>1. open' = closed /\ cur' = [cur EXCEPT !.type = "NONE"] /\ elapsed' = 0
    BY <1>3 DEF CycleAll
  <2>2. cur' \in Runs /\ cur'.type = "NONE"
    BY <2>1 DEF ZcTypeOK, Runs, RunTypes
  <2>3. RunInv' /\ TimedInv'
    BY <1>1, <2>1, <2>2 DEF RunInv, OneZoneOpen, RunOwnsZones, RunHasZone, MasterIsDriven,
       MasterIsTimed, Watering, TimedInv, NoUntimedValve, MasterOnWithZone
  <2> QED BY <1>1, <2>1, <2>2, <2>3 DEF ZcTypeOK
<1> QED BY <1>2, <1>3

\* A request to run one zone.
LEMMA SwitchOnKeeps ==
    ASSUME ZcTypeOK, RunInv,
           NEW type \in {"SINGLE", "CRON"}, NEW z \in 0..N, NEW length \in Lengths \cup {0}, NEW also,
           z = 0 => MasterValve,
           SwitchOn(type, z, length, also)
    PROVE  /\ open' \subseteq ValidPin /\ cur' \in Runs /\ elapsed' \in Nat
           /\ RunInv'
           /\ z # 0 => TimedInv'
           /\ cur'.type = type \/ (cur' = cur /\ Watering' = {})
<1> USE ZonesAssumption, PinsAssumption
<1> DEFINE others == open \ Zones
           starts == z \in ValidPin /\ z \notin others
<1>1. others \cap Zones = {} /\ others \subseteq {0} /\ others \subseteq open
  BY DEF ZcTypeOK, Zones
<1>2. CASE starts
  <2>1. /\ open' = others \cup {z} \cup MasterPin
        /\ cur' = [type |-> type, zone |-> z, duration |-> RunLength(z, length)]
        /\ elapsed' = 0
    BY <1>2 DEF SwitchOn
  <2>2. RunLength(z, length) \in Runtimes \cup Lengths \cup {0}
    BY DEF RunLength, ZcTypeOK
  <2>3. cur' \in Runs /\ cur'.type = type /\ cur'.zone = z
    BY <2>1, <2>2 DEF Runs, RunTypes
  <2>4. open' \cap Zones \subseteq {z} /\ open' \subseteq ValidPin
    BY <1>1, <1>2, <2>1 DEF MasterPin, Zones, ZcTypeOK
  <2>5. 0 \in open' => MasterPin = {0}
    BY <1>1, <1>2, <2>1 DEF RunInv, MasterIsDriven, MasterPin
  <2>6. RunInv'
    BY <2>3, <2>4, <2>5 DEF RunInv, OneZoneOpen, RunOwnsZones, RunHasZone, MasterIsDriven,
       MasterIsTimed, Watering, MasterPin
  <2>7. TimedInv'
    BY <2>1, <2>3, <2>4 DEF TimedInv, NoUntimedValve, MasterOnWithZone, Watering, MasterPin
  <2> QED BY <2>1, <2>3, <2>4, <2>6, <2>7
<1>3. CASE ~starts
  <2>1. open' = others /\ cur' = cur /\ elapsed' = elapsed
    BY <1>3 DEF SwitchOn
  <2>2. Watering' = {}
    BY <1>1, <2>1 DEF Watering
  <2>3. RunInv' /\ TimedInv'
    BY <1>1, <2>1, <2>2 DEF RunInv, OneZoneOpen, RunOwnsZones, RunHasZone, MasterIsDriven,
       MasterIsTimed, TimedInv, NoUntimedValve, MasterOnWithZone, MasterPin
  <2> QED BY <1>1, <2>1, <2>2, <2>3 DEF ZcTypeOK
<1> QED BY <1>2, <1>3

\* A request to stop one zone: in a cycle it moves on, otherwise the run ends.
LEMMA SwitchOffKeeps ==
    ASSUME ZcTypeOK, RunInv, NEW z, NEW also, SwitchOff(z, also)
    PROVE  /\ open' \subseteq ValidPin /\ cur' \in Runs /\ elapsed' \in Nat
           /\ RunInv'
           /\ TimedInv /\ z \in open \cap Zones => TimedInv'
           /\ TimedInv /\ z = cur.zone => TimedInv'
           /\ cur'.type \in {"ALL", "NONE"}
<1> USE ZonesAssumption, PinsAssumption
<1>1. CASE cur.type = "ALL"
  BY <1>1, ZoneDoneKeeps DEF SwitchOff
<1>2. CASE cur.type # "ALL"
  <2>1. open' = open \ ({z} \cup MasterPin) /\ NoRun
    BY <1>2 DEF SwitchOff
  <2>2. 0 \notin open' /\ open' \subseteq ValidPin /\ open' \subseteq open
    BY <2>1 DEF RunInv, MasterIsDriven, ZcTypeOK
  <2>3. cur' \in Runs /\ cur'.type = "NONE" /\ elapsed' = 0
    BY <2>1 DEF NoRun, ZcTypeOK, Runs, RunTypes
  <2>4. RunInv'
    BY <2>2, <2>3 DEF RunInv, OneZoneOpen, RunOwnsZones, RunHasZone, MasterIsDriven, MasterIsTimed,
       Watering
  <2>5. TimedInv /\ (z \in open \cap Zones \/ z = cur.zone) => open' \cap Zones = {}
    BY <2>1 DEF TimedInv, NoUntimedValve, Watering
  <2>6. open' \cap Zones = {} => TimedInv'
    BY DEF TimedInv, NoUntimedValve, MasterOnWithZone, Watering
  <2> QED BY <2>2, <2>3, <2>4, <2>5, <2>6
<1> QED BY <1>1, <1>2

-----------------------------------------------------------------------------
\* No scheduled run waters.
NoScheduledWatering == ~(cur.type = "CRON" /\ cur.zone \in Watering)

\* The whole of zc_zone.
LEMMA ZcZoneKeeps ==
    ASSUME ZcTypeOK, RunInv,
           NEW type \in {"SINGLE", "CRON", "ALL"}, NEW z, NEW on \in BOOLEAN,
           NEW length \in Lengths \cup {0}, NEW also \in SUBSET Bits,
           on => z \in 0..N,
           on /\ z = 0 /\ type # "ALL" => MasterValve,
           ZcZone(type, z, on, length, also)
    PROVE  /\ RunTypeOK' /\ RunInv'
           /\ TimedInv /\ (z \in Zones \/ z = cur.zone \/ type = "ALL") => TimedInv'
           /\ delay24h /\ NoScheduledWatering => NoScheduledWatering'
           /\ ~on /\ type = "SINGLE" /\ z = cur.zone /\ z \in Zones => NoScheduledWatering'
<1> USE ZonesAssumption, PinsAssumption
<1>1. CASE Ignored(type, z, on, length)
  <2>1. open' = open /\ cur' = cur /\ elapsed' = elapsed /\ Raise(also)
    BY <1>1 DEF ZcZone
  <2>2. RunTypeOK'
    BY <2>1 DEF RunTypeOK, ZcTypeOK, Raise
  <2>3. RunInv' /\ (TimedInv => TimedInv') /\ (NoScheduledWatering => NoScheduledWatering')
    BY <2>1 DEF RunInv, OneZoneOpen, RunOwnsZones, RunHasZone, MasterIsDriven, MasterIsTimed,
       Watering, TimedInv, NoUntimedValve, MasterOnWithZone, NoScheduledWatering
  <2>4. ~on /\ type = "SINGLE" /\ z \in Zones => z \notin open
    BY <1>1 DEF Ignored, Duplicate, NotScheduled
  <2> QED BY <2>1, <2>2, <2>3, <2>4 DEF NoScheduledWatering, Watering
<1>2. CASE ~Ignored(type, z, on, length) /\ type = "ALL"
  <2>1. CycleAll(on, also)
    BY <1>2 DEF ZcZone
  <2>2. events' \subseteq Bits
    BY <2>1 DEF CycleAll, Raise, PinBit, Bits, ZcTypeOK
  <2>3. NoScheduledWatering'
    BY <2>1, CycleAllKeeps DEF NoScheduledWatering
  <2> QED BY <2>1, <2>2, <2>3, CycleAllKeeps DEF RunTypeOK
<1>3. CASE ~Ignored(type, z, on, length) /\ type # "ALL" /\ on
  <2>1. SwitchOn(type, z, length, also)
    BY <1>3 DEF ZcZone
  <2>2. events' \subseteq Bits
    BY <2>1 DEF SwitchOn, Raise, PinBit, Bits, ZcTypeOK
  <2>3. /\ open' \subseteq ValidPin /\ cur' \in Runs /\ elapsed' \in Nat
        /\ RunInv'
        /\ z # 0 => TimedInv'
        /\ cur'.type = type \/ (cur' = cur /\ Watering' = {})
    BY <1>3, <2>1, SwitchOnKeeps
  <2>4. TimedInv /\ (z \in Zones \/ z = cur.zone \/ type = "ALL") => TimedInv'
    <3>1. CASE z # 0
      BY <2>3, <3>1
    <3>2. CASE z = 0 /\ z = cur.zone
      <4>1. CASE z \in ValidPin /\ z \notin open \ Zones
        <5>1. open' \cap Zones = {}
          BY <2>1, <3>2, <4>1 DEF SwitchOn, MasterPin, Zones
        <5> QED BY <5>1 DEF TimedInv, NoUntimedValve, MasterOnWithZone, Watering
      <4>2. CASE ~(z \in ValidPin /\ z \notin open \ Zones)
        <5>1. open' \cap Zones = {}
          BY <2>1, <4>2 DEF SwitchOn, Zones
        <5> QED BY <5>1 DEF TimedInv, NoUntimedValve, MasterOnWithZone, Watering
      <4> QED BY <4>1, <4>2
    <3>3. 0 \notin Zones
      BY DEF Zones
    <3> QED BY <1>3, <3>1, <3>2, <3>3
  <2>5. delay24h => type # "CRON"
    BY <1>3 DEF Ignored, NotScheduled
  <2>6. delay24h => NoScheduledWatering'
    BY <2>3, <2>5 DEF NoScheduledWatering
  <2> QED BY <1>3, <2>2, <2>3, <2>4, <2>6 DEF RunTypeOK
<1>4. CASE ~Ignored(type, z, on, length) /\ type # "ALL" /\ ~on
  <2>1. SwitchOff(z, also)
    BY <1>4 DEF ZcZone
  <2>2. events' \subseteq Bits
    BY <2>1 DEF SwitchOff, Raise, PinBit, Bits, ZcTypeOK
  <2>3. z \in Zones => z \in open
    BY <1>4 DEF Ignored, Duplicate
  <2>4. NoScheduledWatering'
    BY <2>1, SwitchOffKeeps DEF NoScheduledWatering
  <2> QED BY <1>4, <2>1, <2>2, <2>3, <2>4, SwitchOffKeeps DEF RunTypeOK
<1> QED BY <1>1, <1>2, <1>3, <1>4

\* zc_rain_delay_enabeled leaves no scheduled run watering.
LEMMA ZcRainDelayEnabledKeeps ==
    ASSUME ZcTypeOK, RunInv, NEW also \in SUBSET Bits, ZcRainDelayEnabled(also)
    PROVE  /\ RunTypeOK' /\ RunInv'
           /\ TimedInv => TimedInv'
           /\ NoScheduledWatering'
<1> USE ZonesAssumption
<1>1. CASE cur.type = "CRON" /\ cur.zone > 0
  <2>1. ZcZone("SINGLE", cur.zone, FALSE, 0, also)
    BY <1>1 DEF ZcRainDelayEnabled
  <2>2. cur.zone \in Zones
    BY <1>1 DEF RunInv, RunHasZone, Zones
  <2> QED BY <2>1, <2>2, ZcZoneKeeps
<1>2. CASE ~(cur.type = "CRON" /\ cur.zone > 0)
  <2>1. open' = open /\ cur' = cur /\ elapsed' = elapsed /\ Raise(also)
    BY <1>2 DEF ZcRainDelayEnabled
  <2>2. RunTypeOK'
    BY <2>1 DEF RunTypeOK, ZcTypeOK, Raise
  <2>3. RunInv' /\ (TimedInv => TimedInv')
    BY <2>1 DEF RunInv, OneZoneOpen, RunOwnsZones, RunHasZone, MasterIsDriven, MasterIsTimed,
       Watering, TimedInv, NoUntimedValve, MasterOnWithZone
  <2>4. NoScheduledWatering'
    BY <1>2, <2>1 DEF NoScheduledWatering, Watering, Zones
  <2> QED BY <2>2, <2>3, <2>4
<1> QED BY <1>1, <1>2

\* A change of runtime moves the end of the run, never its zone or its valve.
LEMMA SetRuntimeKeeps ==
    ASSUME ZcTypeOK, RunInv, NEW z \in Zones, NEW t \in Runtimes, NEW also \in SUBSET Bits,
           SetRuntime(z, t, also)
    PROVE  /\ RunTypeOK' /\ RunInv' /\ runtime' \in [0..N -> Runtimes]
           /\ TimedInv => TimedInv'
           /\ NoScheduledWatering => NoScheduledWatering'
<1>1. /\ open' = open /\ elapsed' = elapsed /\ events' \subseteq Bits
      /\ runtime' \in [0..N -> Runtimes]
  BY DEF SetRuntime, Raise, ZcTypeOK, Bits
<1>2. cur' \in Runs /\ cur'.type = cur.type /\ cur'.zone = cur.zone
  BY DEF SetRuntime, ZcTypeOK, Runs
<1>3. RunInv' /\ (TimedInv => TimedInv') /\ (NoScheduledWatering => NoScheduledWatering')
  BY <1>1, <1>2 DEF RunInv, OneZoneOpen, RunOwnsZones, RunHasZone, MasterIsDriven, MasterIsTimed,
     Watering, TimedInv, NoUntimedValve, MasterOnWithZone, NoScheduledWatering
<1> QED BY <1>1, <1>2, <1>3 DEF RunTypeOK, ZcTypeOK

-----------------------------------------------------------------------------
\* The types a delay handler can disturb.
DelayTypeOK ==
    /\ delay24h \in BOOLEAN
    /\ delayLeft \in Int /\ delayLeft >= NoEnd
    /\ asFloat \in BOOLEAN
    /\ cache \in CacheFile /\ cache.left >= NoEnd

\* The invariants a delay handler preserves, each on its own assumptions.
Kept ==
    /\ RunTypeOK' /\ DelayTypeOK'
    /\ RunInv'
    /\ TimedInv => TimedInv'
    /\ NoScheduledWateringInDelay => NoScheduledWateringInDelay'
    /\ HasEnd => HasEnd'
    /\ Saved => Saved'

\* write_cache writes a well-formed file that holds the delay it is given.
LEMMA WriteCacheSaves ==
    ASSUME ZcTypeOK, RainTypeOK,
           NEW delay \in BOOLEAN, NEW left \in Int, left >= NoEnd, NEW float \in BOOLEAN,
           WriteCache(delay, left, float)
    PROVE  /\ cache' \in CacheFile
           /\ cache'.left = left /\ cache'.delay24h = delay /\ cache'.asFloat = float
<1> DEFINE saved == [z \in Zones |-> runtime[z]]
<1>1. saved \in [Zones -> Runtimes]
  BY DEF ZcTypeOK, Zones
<1>2. \A h \in Nat : Tenths(h) \in Nat
  BY DEF Tenths
<1>3. [chance |-> limits.chance, day1 |-> Tenths(limits.day1), day2 |-> Tenths(limits.day2)]
          \in [chance : Nat, day1 : Nat, day2 : Nat]
  BY <1>2 DEF RainTypeOK
<1>4. calendar \in BOOLEAN
  BY DEF ZcTypeOK
<1> QED BY <1>1, <1>3, <1>4 DEF WriteCache, CacheFile

\* Leaving a variable alone keeps what is said of it.
LEMMA DelayUntouched ==
    ASSUME ZcTypeOK, RainTypeOK, RunInv, UNCHANGED <<open, cur, elapsed, delayVars>>,
           NEW also \in SUBSET Bits, Raise(also)
    PROVE  Kept
<1>1. RunTypeOK' /\ DelayTypeOK'
  BY DEF RunTypeOK, ZcTypeOK, Raise, DelayTypeOK, RainTypeOK, delayVars
<1>2. RunInv' /\ (TimedInv => TimedInv')
  BY DEF RunInv, OneZoneOpen, RunOwnsZones, RunHasZone, MasterIsDriven, MasterIsTimed, Watering,
     TimedInv, NoUntimedValve, MasterOnWithZone
<1>3. NoScheduledWateringInDelay => NoScheduledWateringInDelay'
  BY DEF delayVars, NoScheduledWateringInDelay, Watering
<1>4. (HasEnd => HasEnd') /\ (Saved => Saved')
  BY DEF delayVars, HasEnd, Saved
<1> QED BY <1>1, <1>2, <1>3, <1>4 DEF Kept

\* Turning the delay off.
LEMMA DelayOffKeeps ==
    ASSUME ZcTypeOK, RainTypeOK, RunInv, DelayOff, UNCHANGED <<open, cur, elapsed>>,
           events' \subseteq Bits
    PROVE  Kept
<1>1. /\ delay24h' = FALSE /\ delayLeft' = NoEnd /\ asFloat' = TRUE
      /\ WriteCache(FALSE, NoEnd, TRUE)
  BY DEF DelayOff
<1>0. NoEnd \in Int /\ NoEnd >= NoEnd
  BY DEF NoEnd
<1>2. cache' \in CacheFile /\ cache'.left = NoEnd /\ cache'.delay24h = FALSE
  BY <1>0, <1>1, WriteCacheSaves
<1>3. RunTypeOK' /\ DelayTypeOK'
  BY <1>0, <1>1, <1>2 DEF RunTypeOK, ZcTypeOK, DelayTypeOK
<1>4. RunInv' /\ (TimedInv => TimedInv')
  BY DEF RunInv, OneZoneOpen, RunOwnsZones, RunHasZone, MasterIsDriven, MasterIsTimed, Watering,
     TimedInv, NoUntimedValve, MasterOnWithZone
<1>5. NoEnd - NoEnd \in (-Rounding)..Rounding
  BY DayAssumption DEF NoEnd
<1>6. NoScheduledWateringInDelay' /\ HasEnd'
  BY <1>1 DEF NoScheduledWateringInDelay, HasEnd
<1>7. Saved'
  BY <1>1, <1>2, <1>5 DEF Saved
<1> QED BY <1>3, <1>4, <1>6, <1>7 DEF Kept

\* Turning the delay on, or moving its end.
LEMMA DelayOnKeeps ==
    ASSUME ZcTypeOK, RainTypeOK, RunInv, NEW left \in Nat, NEW also \in SUBSET Bits,
           DelayOn(left, also)
    PROVE  Kept
<1>1. /\ delay24h' = TRUE /\ delayLeft' = left /\ asFloat' = FALSE
      /\ ZcRainDelayEnabled(also) /\ WriteCache(TRUE, left, FALSE)
  BY DEF DelayOn
<1>0. left \in Int /\ left >= NoEnd /\ left # NoEnd
  BY DEF NoEnd
<1>2. cache' \in CacheFile /\ cache'.left = left /\ cache'.delay24h = TRUE
  BY <1>0, <1>1, WriteCacheSaves
<1>3. RunTypeOK' /\ RunInv' /\ (TimedInv => TimedInv') /\ NoScheduledWatering'
  BY <1>1, ZcRainDelayEnabledKeeps
<1>4. DelayTypeOK'
  BY <1>0, <1>1, <1>2 DEF DelayTypeOK
<1>5. left - left \in (-Rounding)..Rounding
  BY DayAssumption
<1>6. NoScheduledWateringInDelay'
  BY <1>3 DEF NoScheduledWateringInDelay, NoScheduledWatering
<1>7. HasEnd'
  BY <1>0, <1>1 DEF HasEnd
<1>8. Saved'
  BY <1>0, <1>1, <1>2, <1>5 DEF Saved
<1> QED BY <1>3, <1>4, <1>6, <1>7, <1>8 DEF Kept

\* A "24hdelay" request.
LEMMA EnableDelay24hKeeps ==
    ASSUME ZcTypeOK, RainTypeOK, RunInv, NEW on \in BOOLEAN, NEW also \in SUBSET Bits,
           EnableDelay24h(on, also)
    PROVE  Kept
<1> also \cup {"status"} \in SUBSET Bits
  BY DEF Bits
<1>1. CASE on = delay24h
  BY <1>1, DelayUntouched DEF EnableDelay24h, ZcTypeOK
<1>2. CASE on /\ ~delay24h
  BY <1>2, DelayOnKeeps, DayAssumption DEF EnableDelay24h
<1>3. CASE ~on /\ delay24h
  <2>1. events' \subseteq Bits
    BY <1>3 DEF EnableDelay24h, Raise, ZcTypeOK
  <2> QED BY <1>3, <2>1, DelayOffKeeps DEF EnableDelay24h
<1> QED BY <1>1, <1>2, <1>3 DEF ZcTypeOK

\* A new end of the delay.
LEMMA ResetDelay24hTimeKeeps ==
    ASSUME ZcTypeOK, RainTypeOK, RunInv, NEW left \in Nat, NEW also \in SUBSET Bits,
           ResetDelay24hTime(left, also)
    PROVE  Kept
<1>1. (IF left > 0 THEN left ELSE Day) \in Nat
  BY DayAssumption
<1>2. (also \cup IF delay24h THEN {} ELSE {"status"}) \in SUBSET Bits
  BY DEF Bits
<1> QED BY <1>1, <1>2, DelayOnKeeps DEF ResetDelay24hTime

\* A report of the chance of rain.
LEMMA ChanceOfRainKeeps ==
    ASSUME ZcTypeOK, RainTypeOK, RunInv, NEW percent \in Int, NEW also \in SUBSET Bits,
           SetTodayChanceOfRain(percent, also)
    PROVE  Kept
<1> also \cup {"rainchance"} \in SUBSET Bits
  BY DEF Bits
<1> QED BY EnableDelay24hKeeps, ResetDelay24hTimeKeeps, DelayUntouched DEF SetTodayChanceOfRain

\* A report of the rain total.
LEMMA RainTotalKeeps ==
    ASSUME ZcTypeOK, RainTypeOK, RunInv, NEW rain \in Nat, NEW also \in SUBSET Bits,
           SetTodayRainTotal(rain, also)
    PROVE  Kept /\ rainTotal' \in Nat
<1> DEFINE repeated == rain = rainTotal /\ rain # 0
<1> also \cup {"raintotal"} \in SUBSET Bits
  BY DEF Bits
<1>1. CASE ~repeated /\ DaysFor(rain) > 0
  <2>1. DaysFor(rain) * Day \in Nat
    BY DayAssumption DEF DaysFor
  <2> QED BY <1>1, <2>1, ResetDelay24hTimeKeeps DEF SetTodayRainTotal
<1>2. CASE repeated \/ DaysFor(rain) = 0
  BY <1>2, DelayUntouched DEF SetTodayRainTotal
<1>3. DaysFor(rain) = 0 \/ DaysFor(rain) > 0
  BY DEF DaysFor
<1> QED BY <1>1, <1>2, <1>3 DEF SetTodayRainTotal

-----------------------------------------------------------------------------
(***************************************************************************)
(* What a client is told.  With a master valve on a good pin the master is  *)
(* on during every run, so that every end of a run switches a pin and       *)
(* raises an event bit.                                                     *)
(***************************************************************************)
\* The converse of MasterIsTimed.
RunHasMaster == cur.type # "NONE" => 0 \in open

\* What the topic "state" tells of the run.
RunZone == IF cur.type = "NONE" THEN -1 ELSE cur.zone
RunView == <<open, cur.type = "ALL", RunZone>>

\* An operation that changes what the clients see raises an event bit; none clears one.
Told ==
    /\ RunView' # RunView => events' # {}
    /\ events \subseteq events'

-----------------------------------------------------------------------------
LEMMA StartNextZoneDrives ==
    ASSUME MasterPin = {0}, NEW k, NEW left, StartNextZone(k, left)
    PROVE  RunHasMaster'
BY DEF StartNextZone, NoRun, RunHasMaster

\* The end of a zone's time closes the zone or the master, which are on, or goes on
\* with the next zone.
LEMMA ZoneDoneDrives ==
    ASSUME MasterPin = {0}, ZoneDone
    PROVE  RunHasMaster' /\ (RunHasMaster /\ cur.type # "NONE" /\ ~CycleGoesOn => open' # open)
<1>1. RunHasMaster'
  BY StartNextZoneDrives DEF ZoneDone, NoRun, RunHasMaster
<1>2. ASSUME RunHasMaster, cur.type # "NONE", ~CycleGoesOn PROVE open' # open
  BY <1>2 DEF ZoneDone, RunHasMaster
<1> QED BY <1>1, <1>2

\* zc_zone raises a bit for every change, and turns the master on with every run.
LEMMA ZcZoneTells ==
    ASSUME MasterPin = {0}, RunInv, RunHasMaster,
           NEW type \in {"SINGLE", "CRON", "ALL"}, NEW z, NEW on \in BOOLEAN,
           NEW length, NEW also, ZcZone(type, z, on, length, also)
    PROVE  RunHasMaster' /\ Told /\ (also # {} => events' # {})
<1> USE ZonesAssumption
<1>1. CASE Ignored(type, z, on, length)
  <2>1. UNCHANGED <<open, cur, elapsed>> /\ Raise(also)
    BY <1>1 DEF ZcZone
  <2> QED BY <2>1 DEF RunHasMaster, Told, RunView, RunZone, Raise
<1>2. CASE ~Ignored(type, z, on, length) /\ type = "ALL"
  <2>1. CycleAll(on, also)
    BY <1>2 DEF ZcZone
  <2>2. CASE on
    BY <2>1, <2>2, StartNextZoneDrives DEF CycleAll, Raise, Told
  <2>3. CASE ~on
    <3>1. /\ open' = open \ (Zones \cup {0}) /\ cur' = [cur EXCEPT !.type = "NONE"]
          /\ Raise(also \cup PinBit)
      BY <2>1, <2>3 DEF CycleAll
    <3>2. RunHasMaster'
      BY <3>1 DEF RunHasMaster
    <3>3. CASE open' # open
      BY <3>1, <3>2, <3>3 DEF PinBit, Raise, Told
    <3>4. CASE open' = open
      <4>1. 0 \notin open /\ cur.type = "NONE"
        BY <3>1, <3>4 DEF RunHasMaster
      <4>2. cur'.type = "NONE"
        BY <3>1
      <4> QED BY <3>1, <3>2, <3>4, <4>1, <4>2 DEF Told, RunView, RunZone, Raise
    <3> QED BY <3>3, <3>4
  <2> QED BY <2>2, <2>3
<1>3. CASE ~Ignored(type, z, on, length) /\ type # "ALL" /\ on
  <2>1. SwitchOn(type, z, length, also)
    BY <1>3 DEF ZcZone
  <2>2. CASE open' = open \ Zones /\ UNCHANGED <<cur, elapsed>>
    <3>1. RunHasMaster'
      BY <2>2 DEF RunHasMaster, Zones
    <3>2. Told /\ (also # {} => events' # {})
      BY <2>1, <2>2 DEF SwitchOn, Raise, PinBit, Told, RunView, RunZone
    <3> QED BY <3>1, <3>2
  <2>3. CASE open' = (open \ Zones) \cup {z} \cup {0} /\ z \notin open \ Zones
    BY <2>1, <2>3 DEF SwitchOn, Raise, Told, RunHasMaster
  <2> QED BY <2>1, <2>2, <2>3 DEF SwitchOn
<1>4. CASE ~Ignored(type, z, on, length) /\ type # "ALL" /\ ~on
  <2>1. SwitchOff(z, also)
    BY <1>4 DEF ZcZone
  <2>2. CASE cur.type = "ALL"
    <3>1. ZoneDone /\ Raise(also \cup PinBit \cup (IF CycleGoesOn THEN {"zones"} ELSE {}))
      BY <2>1, <2>2 DEF SwitchOff
    <3> QED BY <2>2, <3>1, ZoneDoneDrives DEF Raise, PinBit, Told
  <2>3. CASE cur.type # "ALL"
    <3>1. open' = open \ ({z} \cup {0}) /\ NoRun /\ Raise(also \cup PinBit)
      BY <2>1, <2>3 DEF SwitchOff
    <3>2. RunHasMaster' /\ cur'.type = "NONE"
      BY <3>1 DEF NoRun, RunHasMaster
    <3>3. CASE open' # open
      BY <3>1, <3>2, <3>3 DEF PinBit, Raise, Told
    <3>4. CASE open' = open
      <4>1. 0 \notin open /\ cur.type = "NONE"
        BY <3>1, <3>4 DEF RunHasMaster
      <4> QED BY <3>1, <3>2, <3>4, <4>1 DEF Told, RunView, RunZone, Raise
    <3> QED BY <3>3, <3>4
  <2> QED BY <2>2, <2>3
<1> QED BY <1>1, <1>2, <1>3, <1>4

-----------------------------------------------------------------------------
\* The switches and runtimes of StateView.
SwitchView == <<runtime, calendar, delay24h>>

LEMMA DelayOnTells ==
    ASSUME MasterPin = {0}, RunInv, RunHasMaster, NEW left, NEW also, DelayOn(left, also)
    PROVE  RunHasMaster' /\ Told /\ (also # {} => events' # {})
<1>1. ZcRainDelayEnabled(also)
  BY DEF DelayOn
<1>2. CASE ZcZone("SINGLE", cur.zone, FALSE, 0, also)
  BY <1>2, ZcZoneTells
<1>3. CASE UNCHANGED <<open, cur, elapsed>> /\ Raise(also)
  BY <1>3 DEF RunHasMaster, Told, RunView, RunZone, Raise
<1> QED BY <1>1, <1>2, <1>3 DEF ZcRainDelayEnabled
=============================================================================
