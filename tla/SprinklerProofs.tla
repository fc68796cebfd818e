-------------------------- MODULE SprinklerProofs --------------------------
(***************************************************************************)
(* The invariants of the daemon, for every configuration and every request. *)
(* Inv is inductive.  It is what holds whatever the requests name; Timed    *)
(* and EndInv come on top of it, each on an assumption of its own.          *)
(***************************************************************************)
EXTENDS SprinklerRefines, RainDelayProofs

\* What the pins keep also while the process is down, and what the run keeps
\* while it is up.
Inv ==
    /\ TypeOK
    /\ OneZoneOpen
    /\ MasterIsDriven
    /\ proc = "up" => RunInv /\ NoScheduledWateringInDelay /\ Saved

Timed == proc = "up" => TimedInv

\* The delay has an end, and so has the one a process that is down will read.
EndInv ==
    /\ proc = "up" => HasEnd
    /\ proc # "up" => (cache.delay24h <=> cache.left # NoEnd)

\* What a step of the process that is up does to the parts of the invariants.
StepKeeps ==
    /\ ZcTypeOK' /\ RainTypeOK'
    /\ RunInv'
    /\ TimedInv /\ 0 \notin RequestZones => TimedInv'
    /\ NoScheduledWateringInDelay => NoScheduledWateringInDelay'
    /\ HasEnd => HasEnd'
    /\ Saved => Saved'

-----------------------------------------------------------------------------
\* A step on the run leaves what is said of the delay.
LEMMA RunStepKeeps ==
    ASSUME ZcTypeOK, RainTypeOK, RunTypeOK', RunInv',
           UNCHANGED <<runtime, calendar, delayVars, limits, rainTotal>>,
           TimedInv /\ 0 \notin RequestZones => TimedInv',
           NoScheduledWateringInDelay => NoScheduledWateringInDelay'
    PROVE  StepKeeps
<1>1. ZcTypeOK' /\ RainTypeOK'
  BY DEF ZcTypeOK, RunTypeOK, RainTypeOK, delayVars
<1>2. (HasEnd => HasEnd') /\ (Saved => Saved')
  BY DEF delayVars, HasEnd, Saved
<1> QED BY <1>1, <1>2 DEF StepKeeps

\* A step that calls zc_zone, and nothing else.
LEMMA ZcZoneStepKeeps ==
    ASSUME ZcTypeOK, RainTypeOK, RunInv,
           NEW type \in {"SINGLE", "CRON", "ALL"}, NEW z, NEW on \in BOOLEAN,
           NEW length \in Lengths \cup {0}, NEW also \in SUBSET Bits,
           on => z \in 0..N,
           on /\ z = 0 /\ type # "ALL" => MasterValve,
           0 \notin RequestZones => z \in Zones \/ z = cur.zone \/ type = "ALL",
           ZcZone(type, z, on, length, also),
           UNCHANGED <<runtime, calendar, delayVars, limits, rainTotal>>
    PROVE  StepKeeps
<1>1. /\ RunTypeOK' /\ RunInv'
      /\ TimedInv /\ (z \in Zones \/ z = cur.zone \/ type = "ALL") => TimedInv'
      /\ delay24h /\ NoScheduledWatering => NoScheduledWatering'
  BY ZcZoneKeeps
<1>2. NoScheduledWateringInDelay => NoScheduledWateringInDelay'
  BY <1>1 DEF NoScheduledWateringInDelay, NoScheduledWatering, delayVars
<1> QED BY <1>1, <1>2, RunStepKeeps

\* A step that leaves the run and the delay alone.
LEMMA UntouchedStepKeeps ==
    ASSUME ZcTypeOK, RainTypeOK, RunInv, events' \subseteq Bits,
           UNCHANGED <<open, cur, elapsed, runtime, calendar, delayVars, limits, rainTotal>>
    PROVE  StepKeeps
<1>1. RunTypeOK'
  BY DEF RunTypeOK, ZcTypeOK
<1>2. RunInv' /\ (TimedInv => TimedInv')
  BY DEF RunInv, OneZoneOpen, RunOwnsZones, RunHasZone, MasterIsDriven, MasterIsTimed, Watering,
     TimedInv, NoUntimedValve, MasterOnWithZone
<1>3. NoScheduledWateringInDelay => NoScheduledWateringInDelay'
  BY DEF delayVars, NoScheduledWateringInDelay, Watering
<1> QED BY <1>1, <1>2, <1>3, RunStepKeeps

\* A step of a delay handler.
LEMMA DelayStepKeeps ==
    ASSUME ZcTypeOK, RainTypeOK, Kept, UNCHANGED <<runtime, calendar, limits>>, rainTotal' \in Nat
    PROVE  StepKeeps
<1>1. ZcTypeOK' /\ RainTypeOK'
  BY DEF ZcTypeOK, RainTypeOK, Kept, RunTypeOK, DelayTypeOK
<1> QED BY <1>1 DEF Kept, StepKeeps

\* Every request keeps the parts of the invariant.
LEMMA RequestKeeps ==
    ASSUME ZcTypeOK, RainTypeOK, RunInv, Request
    PROVE  StepKeeps
<1> USE ZonesAssumption
<1>0. {} \in SUBSET Bits /\ {"status"} \in SUBSET Bits /\ Zones \subseteq 0..N /\ 0 \in 0..N
  BY DEF Bits, Zones
<1>1. CASE ZoneRequest
  <2>1. PICK type \in {"SINGLE", "CRON"}, z \in RequestZones, on \in BOOLEAN, length \in Lengths :
               ZcZone(type, z, on, length, {})
    BY <1>1 DEF ZoneRequest
  <2>2. z \in 0..N /\ (z = 0 => MasterValve) /\ (z \in Zones \/ z = 0)
    BY <1>0, RequestAssumption DEF Zones
  <2>3. type \in {"SINGLE", "CRON", "ALL"} /\ length \in Lengths \cup {0}
    OBVIOUS
  <2> QED BY <1>0, <1>1, <2>1, <2>2, <2>3, ZcZoneStepKeeps DEF ZoneRequest
<1>2. CASE MqttZone
  <2>1. PICK z \in Zones, on \in BOOLEAN : ZcZone("SINGLE", z, on, 0, {})
    BY <1>2 DEF MqttZone
  <2>2. z \in 0..N /\ z # 0
    BY DEF Zones
  <2> QED BY <1>0, <1>2, <2>1, <2>2, ZcZoneStepKeeps DEF MqttZone
<1>3. CASE MqttMasterOff
  <2>1. ZcZone("SINGLE", cur.zone, FALSE, 0, {})
    BY <1>3 DEF MqttMasterOff
  <2> QED BY <1>0, <1>3, <2>1, ZcZoneStepKeeps DEF MqttMasterOff
<1>4. CASE MqttMasterOn
  BY <1>4, UntouchedStepKeeps DEF MqttMasterOn, Raise, Bits, ZcTypeOK
<1>5. CASE RefusedRequest
  BY <1>5, UntouchedStepKeeps DEF RefusedRequest, Raise, Bits, ZcTypeOK
<1>6. CASE CycleRequest
  <2>1. PICK on \in BOOLEAN, also \in Origins : ZcZone("ALL", 0, on, 0, also)
    BY <1>6 DEF CycleRequest
  <2>2. also \in SUBSET Bits
    BY <1>0 DEF Origins
  <2> QED BY <1>0, <1>6, <2>1, <2>2, ZcZoneStepKeeps DEF CycleRequest
<1>7. CASE RuntimeRequest
  <2>1. PICK z \in Zones, t \in Runtimes : SetRuntime(z, t, {})
    BY <1>7 DEF RuntimeRequest
  <2>2. /\ RunTypeOK' /\ RunInv' /\ runtime' \in [0..N -> Runtimes]
        /\ TimedInv => TimedInv'
        /\ NoScheduledWatering => NoScheduledWatering'
    BY <1>0, <2>1, SetRuntimeKeeps
  <2>3. UNCHANGED <<calendar, delayVars, limits, rainTotal>>
    BY <1>7 DEF RuntimeRequest
  <2>4. ZcTypeOK' /\ RainTypeOK'
    BY <2>2, <2>3 DEF ZcTypeOK, RunTypeOK, RainTypeOK, delayVars
  <2>5. /\ NoScheduledWateringInDelay => NoScheduledWateringInDelay'
        /\ HasEnd => HasEnd'
        /\ Saved => Saved'
    BY <2>2, <2>3 DEF NoScheduledWateringInDelay, NoScheduledWatering, HasEnd, Saved, delayVars
  <2> QED BY <2>2, <2>4, <2>5 DEF StepKeeps
<1>8. CASE CalendarRequest
  <2>1. PICK on \in BOOLEAN, also \in Origins : EnableCalendar(on, also)
    BY <1>8 DEF CalendarRequest
  <2>2. calendar' \in BOOLEAN /\ events' \subseteq Bits
    BY <2>1 DEF EnableCalendar, Raise, Origins, Bits, ZcTypeOK
  <2>3. UNCHANGED <<open, cur, elapsed, runtime, delayVars, limits, rainTotal>>
    BY <1>8 DEF CalendarRequest
  <2>4. ZcTypeOK' /\ RainTypeOK'
    BY <2>2, <2>3 DEF ZcTypeOK, RainTypeOK, delayVars
  <2>5. RunInv' /\ (TimedInv => TimedInv')
    BY <2>3 DEF RunInv, OneZoneOpen, RunOwnsZones, RunHasZone, MasterIsDriven, MasterIsTimed,
       Watering, TimedInv, NoUntimedValve, MasterOnWithZone
  <2>6. NoScheduledWateringInDelay => NoScheduledWateringInDelay'
    BY <2>3 DEF NoScheduledWateringInDelay, Watering, delayVars
  <2>7. (HasEnd => HasEnd') /\ (Saved => Saved')
    BY <2>3 DEF HasEnd, Saved, delayVars
  <2> QED BY <2>4, <2>5, <2>6, <2>7 DEF StepKeeps
<1>9. CASE DelayRequest
  <2>1. PICK on \in Switches, also \in Origins : EnableDelay24h(on, also)
    BY <1>9 DEF DelayRequest
  <2>2. on \in BOOLEAN /\ also \in SUBSET Bits
    BY <1>0, DelaysAssumption DEF Origins
  <2>3. Kept
    BY <2>1, <2>2, EnableDelay24hKeeps
  <2> QED BY <1>9, <2>3, DelayStepKeeps DEF DelayRequest, RainTypeOK
<1>10. CASE DelayReset
  <2>1. PICK left \in Delays : ResetDelay24hTime(left, {"status"})
    BY <1>10 DEF DelayReset
  <2>2. left \in Nat
    BY DelaysAssumption
  <2>3. Kept
    BY <1>0, <2>1, <2>2, ResetDelay24hTimeKeeps
  <2> QED BY <1>10, <2>3, DelayStepKeeps DEF DelayReset, RainTypeOK
<1>11. CASE LimitsRequest
  <2>1. limits' \in [chance : Nat, day1 : Nat, day2 : Nat]
    BY <1>11, LimitsAssumption DEF LimitsRequest
  <2>2. UNCHANGED <<open, cur, elapsed, events, runtime, calendar, delayVars, rainTotal>>
    BY <1>11 DEF LimitsRequest, zcVars
  <2>3. ZcTypeOK' /\ RainTypeOK'
    BY <2>1, <2>2 DEF ZcTypeOK, RainTypeOK, delayVars
  <2>4. RunInv' /\ (TimedInv => TimedInv')
    BY <2>2 DEF RunInv, OneZoneOpen, RunOwnsZones, RunHasZone, MasterIsDriven, MasterIsTimed,
       Watering, TimedInv, NoUntimedValve, MasterOnWithZone
  <2>5. NoScheduledWateringInDelay => NoScheduledWateringInDelay'
    BY <2>2 DEF NoScheduledWateringInDelay, Watering, delayVars
  <2>6. (HasEnd => HasEnd') /\ (Saved => Saved')
    BY <2>2 DEF HasEnd, Saved, delayVars
  <2> QED BY <2>3, <2>4, <2>5, <2>6 DEF StepKeeps
<1>12. CASE ChanceReport
  <2>1. PICK percent \in Chances : SetTodayChanceOfRain(percent, {})
    BY <1>12 DEF ChanceReport
  <2>2. percent \in Int
    BY SensorAssumption
  <2>3. Kept
    BY <1>0, <2>1, <2>2, ChanceOfRainKeeps
  <2> QED BY <1>12, <2>3, DelayStepKeeps DEF ChanceReport, RainTypeOK
<1>13. CASE TotalReport
  <2>1. PICK rain \in Totals : SetTodayRainTotal(rain, {})
    BY <1>13 DEF TotalReport
  <2>2. rain \in Nat
    BY SensorAssumption
  <2>3. Kept /\ rainTotal' \in Nat
    BY <1>0, <2>1, <2>2, RainTotalKeeps
  <2> QED BY <1>13, <2>3, DelayStepKeeps DEF TotalReport
<1> QED BY <1>1, <1>2, <1>3, <1>4, <1>5, <1>6, <1>7, <1>8, <1>9, <1>10, <1>11, <1>12, <1>13
        DEF Request

\* The pass of the main loop keeps them too.
LEMMA LoopPassKeeps ==
    ASSUME ZcTypeOK, RainTypeOK, RunInv, LoopPass
    PROVE  StepKeeps
<1>0. events' \subseteq Bits /\ UNCHANGED <<runtime, calendar, limits, rainTotal>>
  BY DEF LoopPass, Broadcast, ZcTypeOK, Bits
<1>1. CASE Expired /\ ZoneDone /\ UNCHANGED delayVars
  <2>1. /\ open' \subseteq ValidPin /\ cur' \in Runs /\ elapsed' \in Nat
        /\ RunInv' /\ TimedInv'
        /\ cur'.type \in {"ALL", "NONE"}
    BY <1>1, ZoneDoneKeeps DEF Expired
  <2>2. NoScheduledWateringInDelay'
    BY <2>1 DEF NoScheduledWateringInDelay
  <2> QED BY <1>0, <1>1, <2>1, <2>2, RunStepKeeps DEF RunTypeOK
<1>2. CASE UNCHANGED <<open, cur, elapsed>> /\ CheckDelay24h
  <2>1. CASE delay24h
    <3>1. DelayOff
      BY <1>2, <2>1 DEF CheckDelay24h
    <3>2. Kept
      BY <1>0, <1>2, <3>1, DelayOffKeeps
    <3> QED BY <1>0, <3>2, DelayStepKeeps DEF RainTypeOK
  <2>2. CASE ~delay24h
    BY <1>0, <1>2, <2>2, UntouchedStepKeeps DEF CheckDelay24h
  <2> QED BY <2>1, <2>2
<1>3. CASE UNCHANGED <<open, cur, elapsed, delayVars>>
  BY <1>0, <1>3, UntouchedStepKeeps
<1> QED BY <1>1, <1>2, <1>3 DEF LoopPass

-----------------------------------------------------------------------------
\* The initial states satisfy every invariant.
LEMMA InitHolds ==
    ASSUME Init
    PROVE  Inv /\ Timed /\ EndInv
<1> USE ZonesAssumption
<1>1. runtime \in [0..N -> Runtimes]
  BY ConfigAssumption DEF Init
<1>2. BootRun \in Runs /\ BootRun.type = "NONE"
  BY DEF BootRun, Runs, RunTypes
<1>3. ZcTypeOK
  BY <1>1, <1>2 DEF Init, ZcTypeOK
<1>4. limits \in [chance : Nat, day1 : Nat, day2 : Nat]
  BY LimitsAssumption DEF Init
<1>5. [z \in Zones |-> runtime[z]] \in [Zones -> Runtimes]
  BY <1>1 DEF Zones
<1>6. NoEnd \in Int /\ NoEnd >= NoEnd
  BY DEF NoEnd
<1>7. RainTypeOK /\ cache.left = NoEnd /\ cache.delay24h = FALSE
  BY <1>4, <1>5, <1>6 DEF Init, RainTypeOK, CacheFile
<1>8. RunInv /\ TimedInv
  BY <1>2 DEF Init, RunInv, OneZoneOpen, RunOwnsZones, RunHasZone, MasterIsDriven, MasterIsTimed,
     Watering, TimedInv, NoUntimedValve, MasterOnWithZone
<1>9. NoEnd - NoEnd \in (-Rounding)..Rounding
  BY DayAssumption DEF NoEnd
<1>10. Saved /\ HasEnd /\ NoScheduledWateringInDelay
  BY <1>7, <1>9 DEF Init, Saved, HasEnd, NoScheduledWateringInDelay
<1>11. proc = "up" /\ mqtt = FALSE /\ stale = Topics /\ asked = NoEnd
  BY DEF Init
<1>12. TypeOK
  BY <1>3, <1>6, <1>7, <1>11 DEF TypeOK
<1> QED BY <1>8, <1>10, <1>11, <1>12 DEF Inv, Timed, EndInv, RunInv

\* The clock keeps the invariants: it only brings the ends of the delay nearer.
LEMMA TickKeeps ==
    ASSUME Inv, Tick
    PROVE  Inv' /\ (Timed => Timed') /\ (EndInv => EndInv')
<1>1. UNCHANGED <<open, cur, events, runtime, calendar, delay24h, asFloat, limits, rainTotal,
                  proc, mqtt, stale>>
  BY DEF Tick
<1>2. elapsed' \in Nat
  BY DEF Tick, Inv, TypeOK, ZcTypeOK
<1>3. ZcTypeOK'
  BY <1>1, <1>2 DEF Inv, TypeOK, ZcTypeOK
<1>4. /\ delayLeft \in Int /\ delayLeft >= NoEnd
      /\ cache \in CacheFile /\ cache.left \in Int /\ cache.left >= NoEnd
  BY DEF Inv, TypeOK, RainTypeOK, CacheFile
<1>5. /\ cache' \in CacheFile
      /\ cache'.left = Earlier(cache.left) /\ cache'.delay24h = cache.delay24h
  BY <1>4 DEF Tick, CacheFile, Earlier
<1>6. /\ Earlier(delayLeft) \in Int /\ Earlier(delayLeft) >= NoEnd
      /\ Earlier(cache.left) \in Int /\ Earlier(cache.left) >= NoEnd
      /\ Earlier(delayLeft) = NoEnd <=> delayLeft = NoEnd
      /\ Earlier(cache.left) = NoEnd <=> cache.left = NoEnd
  BY <1>4 DEF Earlier, NoEnd
<1>7. delayLeft' = Earlier(delayLeft)
  BY DEF Tick
<1>8. RainTypeOK'
  BY <1>1, <1>5, <1>6, <1>7 DEF Inv, TypeOK, RainTypeOK
<1>9. Saved => Saved'
  <2> SUFFICES ASSUME Saved PROVE Saved'
    OBVIOUS
  <2>1. /\ cache.left = NoEnd <=> delayLeft = NoEnd
        /\ cache.left - delayLeft \in (-Rounding)..Rounding
    BY DEF Saved
  <2>2. Earlier(cache.left) - Earlier(delayLeft) \in (-Rounding)..Rounding
    BY <1>4, <2>1, DayAssumption DEF Earlier, NoEnd
  <2>3. cache'.left - delayLeft' \in (-Rounding)..Rounding
    BY <1>5, <1>7, <2>2
  <2>4. cache'.left = NoEnd <=> delayLeft' = NoEnd
    BY <1>5, <1>6, <1>7, <2>1
  <2>5. cache'.delay24h = delay24h'
    BY <1>1, <1>5 DEF Saved
  <2> QED BY <2>3, <2>4, <2>5 DEF Saved
<1>10. /\ HasEnd => HasEnd'
       /\ (cache.delay24h <=> cache.left # NoEnd) => (cache'.delay24h <=> cache'.left # NoEnd)
  BY <1>1, <1>5, <1>6, <1>7 DEF HasEnd
<1>11. /\ OneZoneOpen' = OneZoneOpen /\ MasterIsDriven' = MasterIsDriven /\ RunInv' = RunInv
       /\ NoScheduledWateringInDelay' = NoScheduledWateringInDelay /\ TimedInv' = TimedInv
  BY <1>1 DEF RunInv, OneZoneOpen, RunOwnsZones, RunHasZone, MasterIsDriven, MasterIsTimed, Watering,
     TimedInv, NoUntimedValve, MasterOnWithZone, NoScheduledWateringInDelay
<1>12. TypeOK'
  <2>1. asked' \in Int /\ asked' >= NoEnd
    BY DEF Tick, Earlier, NoEnd, Inv, TypeOK
  <2> QED BY <1>1, <1>3, <1>8, <2>1 DEF Inv, TypeOK
<1>13. Inv'
  BY <1>1, <1>9, <1>11, <1>12 DEF Inv
<1>14. Timed => Timed'
  BY <1>1, <1>11 DEF Timed
<1>15. EndInv => EndInv'
  <2>1. proc' = proc
    BY <1>1
  <2> QED BY <1>10, <2>1 DEF EndInv
<1> QED BY <1>13, <1>14, <1>15

\* A signal closes every valve and writes a well-formed cache file.
LEMMA IntHandlerKeeps ==
    ASSUME Inv, NEW delay \in BOOLEAN, NEW left \in Int, left >= NoEnd, NEW float \in BOOLEAN,
           IntHandler(delay, left, float)
    PROVE  /\ Inv' /\ Timed'
           /\ (delay <=> left # NoEnd) => EndInv'
<1>1. /\ proc' = "stopped" /\ mqtt' = FALSE
      /\ open' = open \ (Zones \cup MasterPin)
      /\ UNCHANGED <<cur, elapsed, events, runtime, calendar, delay24h, delayLeft, asFloat,
                     limits, rainTotal, stale>>
  BY DEF IntHandler
<1>2. WriteCache(delay, left, float)
  BY DEF IntHandler
<1>3. cache' \in CacheFile /\ cache'.left = left /\ cache'.delay24h = delay
  BY <1>2, WriteCacheSaves DEF Inv, TypeOK
<1>4. ZcTypeOK'
  BY <1>1 DEF Inv, TypeOK, ZcTypeOK
<1>5. RainTypeOK'
  BY <1>1, <1>3 DEF Inv, TypeOK, RainTypeOK
<1>6. TypeOK'
  <2>1. asked' \in Int /\ asked' >= NoEnd
    BY DEF IntHandler, Inv, TypeOK
  <2> QED BY <1>1, <1>4, <1>5, <2>1 DEF Inv, TypeOK
<1>7. OneZoneOpen' /\ MasterIsDriven'
  BY <1>1 DEF Inv, OneZoneOpen, Watering, MasterIsDriven
<1>8. Inv' /\ Timed'
  BY <1>1, <1>6, <1>7 DEF Inv, Timed
<1>9. (delay <=> left # NoEnd) => EndInv'
  <2>1. (delay <=> left # NoEnd) => (cache'.delay24h <=> cache'.left # NoEnd)
    BY <1>3
  <2>2. proc' # "up"
    BY <1>1
  <2> QED BY <2>1, <2>2 DEF EndInv
<1> QED BY <1>8, <1>9

\* A kill leaves the pins or, with the power, closes them.
LEMMA CrashKeeps ==
    ASSUME Inv, Crash
    PROVE  Inv' /\ Timed' /\ (EndInv => EndInv')
<1>1. /\ proc = "up" /\ proc' = "killed" /\ mqtt' = FALSE
      /\ open' = open \/ open' = {}
      /\ UNCHANGED <<cur, elapsed, events, runtime, calendar, delay24h, delayLeft, asFloat, cache,
                     limits, rainTotal, stale, asked>>
  BY DEF Crash, delayVars
<1>2. TypeOK'
  BY <1>1 DEF Inv, TypeOK, ZcTypeOK, RainTypeOK
<1>3. OneZoneOpen' /\ MasterIsDriven'
  BY <1>1 DEF Inv, OneZoneOpen, MasterIsDriven, Watering
<1>4. Saved /\ HasEnd => (cache'.delay24h <=> cache'.left # NoEnd)
  BY <1>1 DEF Saved, HasEnd
<1> QED BY <1>1, <1>2, <1>3, <1>4 DEF Inv, Timed, EndInv

\* A start closes every valve and reads back the delay that was saved.
LEMMA RestartKeeps ==
    ASSUME Inv, Restart
    PROVE  Inv' /\ Timed' /\ (EndInv => EndInv')
<1> USE ZonesAssumption
<1>1. /\ proc # "up" /\ proc' = "up"
      /\ open' = open \ (Zones \cup MasterPin)
      /\ cur' = BootRun /\ elapsed' = 0 /\ events' = {}
      /\ runtime' = [z \in 0..N |-> IF z \in Zones THEN cache.runtime[z] ELSE runtime[z]]
      /\ calendar' = cache.calendar /\ delay24h' = cache.delay24h
      /\ delayLeft' \in Reread(cache.left, cache.asFloat) /\ asFloat' = TRUE
      /\ limits' = cache.limits /\ rainTotal' = 0 /\ stale' = Topics
      /\ cache' = cache /\ mqtt' = mqtt /\ asked' = asked
  BY DEF Restart
<1>2. BootRun \in Runs /\ BootRun.type = "NONE"
  BY DEF BootRun, Runs, RunTypes
<1>3. /\ cache \in CacheFile /\ cache.left \in Int /\ cache.left >= NoEnd
      /\ cache.calendar \in BOOLEAN /\ cache.delay24h \in BOOLEAN
      /\ cache.limits \in [chance : Nat, day1 : Nat, day2 : Nat]
      /\ cache.runtime \in [Zones -> Runtimes]
  BY DEF Inv, TypeOK, RainTypeOK, CacheFile
<1>4. runtime' \in [0..N -> Runtimes]
  BY <1>1, <1>3 DEF Inv, TypeOK, ZcTypeOK
<1>5. ZcTypeOK'
  BY <1>1, <1>2, <1>3, <1>4 DEF Inv, TypeOK, ZcTypeOK
<1>6. /\ delayLeft' \in Int /\ delayLeft' >= NoEnd
      /\ cache.left = NoEnd <=> delayLeft' = NoEnd
      /\ cache.left - delayLeft' \in (-Rounding)..Rounding
  <2>1. CASE cache.left = NoEnd \/ cache.asFloat
    <3>1. delayLeft' = cache.left
      BY <1>1, <2>1 DEF Reread
    <3>2. cache.left - cache.left \in (-Rounding)..Rounding
      BY <1>3, DayAssumption
    <3> QED BY <1>3, <3>1, <3>2
  <2>2. CASE ~(cache.left = NoEnd \/ cache.asFloat)
    <3>1. PICK e \in (cache.left - Rounding)..(cache.left + Rounding) :
                 delayLeft' = IF e < -1 THEN -1 ELSE e
      BY <1>1, <2>2 DEF Reread
    <3> QED BY <1>3, <2>2, <3>1, DayAssumption DEF NoEnd
  <2> QED BY <2>1, <2>2
<1>7. RainTypeOK'
  BY <1>1, <1>3, <1>6 DEF RainTypeOK
<1>8. TypeOK'
  BY <1>1, <1>5, <1>7 DEF Inv, TypeOK
<1>9. open' \cap Zones = {} /\ 0 \notin open'
  BY <1>1 DEF Inv, MasterIsDriven
<1>10. RunInv' /\ TimedInv' /\ NoScheduledWateringInDelay'
  BY <1>1, <1>2, <1>9 DEF RunInv, OneZoneOpen, RunOwnsZones, RunHasZone, MasterIsDriven,
     MasterIsTimed, Watering, TimedInv, NoUntimedValve, MasterOnWithZone, NoScheduledWateringInDelay
<1>11. Saved'
  BY <1>1, <1>6 DEF Saved
<1>12. (cache.delay24h <=> cache.left # NoEnd) => HasEnd'
  BY <1>1, <1>6 DEF HasEnd
<1> QED BY <1>1, <1>8, <1>10, <1>11, <1>12 DEF Inv, Timed, EndInv, RunInv

-----------------------------------------------------------------------------
\* Inv is inductive; so are, with it, Timed when no request names zone 0 and
\* EndInv when no signal stops the process inside a delay handler.
LEMMA NextKeeps ==
    ASSUME Inv, [Next]_vars
    PROVE  /\ Inv'
           /\ Timed /\ 0 \notin RequestZones => Timed'
           /\ EndInv /\ ~Interrupts => EndInv'
<1>0. Outdated \subseteq Topics
  BY DEF Outdated, Topics
<1>1. CASE (Request \/ LoopPass) /\ StepKeeps /\ proc = "up" /\ proc' = "up"
           /\ mqtt' \in BOOLEAN /\ stale' \subseteq Topics /\ NoteEnd
  <2>1. asked' \in Int /\ asked' >= NoEnd
    BY <1>1 DEF NoteEnd, Inv, TypeOK, StepKeeps, RainTypeOK
  <2> QED BY <1>1, <2>1 DEF Inv, TypeOK, StepKeeps, Timed, EndInv, RunInv
<1>2. CASE Request
  <2>1. StepKeeps
    BY <1>2, RequestKeeps DEF Inv, TypeOK, Request
  <2>2. stale' \subseteq Topics
    BY <1>2, <1>0 DEF Request, Inv, TypeOK
  <2>3. proc = "up" /\ proc' = "up" /\ mqtt' \in BOOLEAN /\ NoteEnd
    BY <1>2 DEF Request, Inv, TypeOK
  <2> QED BY <1>1, <1>2, <2>1, <2>2, <2>3
<1>3. CASE LoopPass
  <2>1. StepKeeps
    BY <1>3, LoopPassKeeps DEF Inv, TypeOK, LoopPass
  <2>2. stale' \subseteq Topics
    BY <1>3, <1>0 DEF LoopPass, Broadcast, Refresh, Inv, TypeOK
  <2>3. proc = "up" /\ proc' = "up" /\ mqtt' \in BOOLEAN /\ NoteEnd
    BY <1>3 DEF LoopPass, Inv, TypeOK
  <2> QED BY <1>1, <1>3, <2>1, <2>2, <2>3
<1>4. CASE MqttUp \/ MqttDown \/ UNCHANGED vars
  <2>1. /\ UNCHANGED <<open, cur, elapsed, runtime, calendar, delayVars, limits, rainTotal, proc,
                       asked>>
        /\ events' \subseteq Bits /\ mqtt' \in BOOLEAN /\ stale' \subseteq Topics
    BY <1>4 DEF MqttUp, MqttDown, vars, zcVars, delayVars, Inv, TypeOK, ZcTypeOK
  <2>2. ZcTypeOK' /\ RainTypeOK' /\ TypeOK'
    BY <2>1 DEF Inv, TypeOK, ZcTypeOK, RainTypeOK, delayVars
  <2>3. /\ OneZoneOpen' = OneZoneOpen /\ MasterIsDriven' = MasterIsDriven /\ RunInv' = RunInv
        /\ NoScheduledWateringInDelay' = NoScheduledWateringInDelay /\ TimedInv' = TimedInv
        /\ Saved' = Saved /\ HasEnd' = HasEnd
    BY <2>1 DEF RunInv, OneZoneOpen, RunOwnsZones, RunHasZone, MasterIsDriven, MasterIsTimed,
       Watering, TimedInv, NoUntimedValve, MasterOnWithZone, NoScheduledWateringInDelay, Saved,
       HasEnd, delayVars
  <2> QED BY <2>1, <2>2, <2>3 DEF Inv, Timed, EndInv, delayVars
<1>5. CASE Tick
  BY <1>5, TickKeeps
<1>6. CASE Stop
  <2>1. IntHandler(delay24h, delayLeft, asFloat)
    BY <1>6 DEF Stop
  <2>2. /\ delay24h \in BOOLEAN /\ delayLeft \in Int /\ delayLeft >= NoEnd /\ asFloat \in BOOLEAN
    BY DEF Inv, TypeOK, ZcTypeOK, RainTypeOK
  <2>3. EndInv => (delay24h <=> delayLeft # NoEnd)
    BY <2>1 DEF EndInv, HasEnd, IntHandler
  <2> QED BY <2>1, <2>2, <2>3, IntHandlerKeeps
<1>7. CASE StopInDelayHandler
  <2>1. /\ delayLeft \in Int /\ delayLeft >= NoEnd /\ asFloat \in BOOLEAN
        /\ 0 \in Int /\ 0 >= NoEnd /\ TRUE \in BOOLEAN /\ FALSE \in BOOLEAN
    BY DEF Inv, TypeOK, RainTypeOK, NoEnd
  <2>2. /\ Interrupts
        /\ \/ IntHandler(TRUE, delayLeft, asFloat)
           \/ IntHandler(FALSE, delayLeft, asFloat)
           \/ IntHandler(TRUE, 0, FALSE)
    BY <1>7 DEF StopInDelayHandler
  <2> QED BY <2>1, <2>2, IntHandlerKeeps
<1>8. CASE Crash
  BY <1>8, CrashKeeps
<1>9. CASE Restart
  BY <1>9, RestartKeeps
<1> QED BY <1>2, <1>3, <1>4, <1>5, <1>6, <1>7, <1>8, <1>9 DEF Next

-----------------------------------------------------------------------------
\* Inv holds in every reachable state.
LEMMA InvHolds == Spec => []Inv
<1>1. Init => Inv
  BY InitHolds
<1>2. Inv /\ [Next]_vars => Inv'
  BY NextKeeps
<1> QED BY <1>1, <1>2, PTL DEF Spec

\* Every variable keeps its type, for every configuration and request.
THEOREM TypeCorrect == Spec => []TypeOK
<1>1. Inv => TypeOK
  BY DEF Inv
<1> QED BY <1>1, InvHolds, PTL

\* zone_ctrl.c opens one zone at a time, also across signals, kills and restarts
\* and with GPIO pins that validGPIO refuses.
THEOREM OneZoneHolds == Spec => []OneZone
<1>1. Inv => OneZone
  BY DEF Inv, OneZone
<1> QED BY <1>1, InvHolds, PTL

\* The master valve (or pump) is on only while zc_check has a run to end, whatever
\* the pins, and whatever zone the requests name.
THEOREM MasterDuringRunHolds == Spec => []MasterDuringRun
<1>1. Inv => MasterDuringRun
  BY DEF Inv, RunInv, MasterDuringRun
<1> QED BY <1>1, InvHolds, PTL

\* No scheduled run waters during a rain delay, however the delay was set.
THEOREM DelayStopsScheduleHolds == Spec => []DelayStopsSchedule
<1>1. Inv => DelayStopsSchedule
  BY DEF Inv, DelayStopsSchedule
<1> QED BY <1>1, InvHolds, PTL

\* The cache file holds the delay in force, whenever the process may end.
THEOREM DelayIsSavedHolds == Spec => []DelayIsSaved
<1>1. Inv => DelayIsSaved
  BY DEF Inv, DelayIsSaved
<1> QED BY <1>1, InvHolds, PTL

\* When no request names zone 0, no zone is ever open but the one whose run
\* zc_check counts down.
THEOREM ValveIsTimedHolds ==
    ASSUME 0 \notin RequestZones
    PROVE  Spec => []ValveIsTimed
<1>1. Init => Timed
  BY InitHolds
<1>2. Inv /\ Timed /\ [Next]_vars => Timed'
  BY NextKeeps
<1>3. Timed => ValveIsTimed
  BY DEF Timed, TimedInv, ValveIsTimed
<1> QED BY <1>1, <1>2, <1>3, InvHolds, PTL DEF Spec

\* When no request names zone 0, no zone ever waters with the master valve off.
THEOREM MasterWithZoneHolds ==
    ASSUME 0 \notin RequestZones
    PROVE  Spec => []MasterWithZone
<1>1. Init => Timed
  BY InitHolds
<1>2. Inv /\ Timed /\ [Next]_vars => Timed'
  BY NextKeeps
<1>3. Timed => MasterWithZone
  BY DEF Timed, TimedInv, MasterWithZone
<1> QED BY <1>1, <1>2, <1>3, InvHolds, PTL DEF Spec

\* When no signal stops the process inside a delay handler, a delay always has an
\* end, through every stop, kill and restart.
THEOREM DelayHasEndHolds ==
    ASSUME ~Interrupts
    PROVE  Spec => []DelayHasEnd
<1>1. Init => EndInv
  BY InitHolds
<1>2. Inv /\ EndInv /\ [Next]_vars => EndInv'
  BY NextKeeps
<1>3. EndInv => DelayHasEnd
  BY DEF EndInv, DelayHasEnd
<1> QED BY <1>1, <1>2, <1>3, InvHolds, PTL DEF Spec

-----------------------------------------------------------------------------
\* An end of the delay against the one that was set.
Near(left) ==
    /\ left = NoEnd <=> asked = NoEnd
    /\ left - asked \in (-Rounding)..Rounding

\* The end in memory and the one in the file are near the one that was set, and one
\* that no reading has rounded is the one that was set.
KeepInv ==
    /\ proc = "up" => Near(delayLeft) /\ (~asFloat => delayLeft = asked)
    /\ Near(cache.left) /\ (~cache.asFloat => cache.left = asked)

\* The delay is left alone, or its new end is written to the file.
DelaySaves ==
    \/ UNCHANGED delayVars
    \/ cache'.left = delayLeft' /\ cache'.asFloat = asFloat'

\* Every handler that changes the delay writes the cache file.
LEMMA HandlersSave ==
    /\ DelayOff => DelaySaves
    /\ \A left, also : DelayOn(left, also) => DelaySaves
    /\ \A on, also : EnableDelay24h(on, also) => DelaySaves
    /\ \A left, also : ResetDelay24hTime(left, also) => DelaySaves
<1>1. DelayOff => DelaySaves
  BY DEF DelayOff, WriteCache, DelaySaves
<1>2. ASSUME NEW left, NEW also, DelayOn(left, also) PROVE DelaySaves
  BY <1>2 DEF DelayOn, WriteCache, DelaySaves
<1>3. ASSUME NEW on, NEW also, EnableDelay24h(on, also) PROVE DelaySaves
  BY <1>1, <1>2, <1>3 DEF EnableDelay24h, DelaySaves
<1>4. ASSUME NEW left, NEW also, ResetDelay24hTime(left, also) PROVE DelaySaves
  BY <1>2, <1>4 DEF ResetDelay24hTime
<1> QED BY <1>1, <1>2, <1>3, <1>4

\* So does every request and every pass of the main loop that changes the delay.
LEMMA StepSaves ==
    ASSUME Request \/ LoopPass
    PROVE  DelaySaves
<1>1. CASE UNCHANGED delayVars
  BY <1>1 DEF DelaySaves
<1>2. CASE DelayRequest \/ DelayReset
  BY <1>2, HandlersSave DEF DelayRequest, DelayReset
<1>3. CASE ChanceReport
  <2>1. PICK percent \in Chances : SetTodayChanceOfRain(percent, {})
    BY <1>3 DEF ChanceReport
  <2> QED BY <2>1, HandlersSave DEF SetTodayChanceOfRain, DelaySaves
<1>4. CASE TotalReport
  <2>1. PICK rain \in Totals : SetTodayRainTotal(rain, {})
    BY <1>4 DEF TotalReport
  <2> QED BY <2>1, HandlersSave DEF SetTodayRainTotal, DelaySaves
<1>5. CASE CheckDelay24h
  BY <1>5, HandlersSave DEF CheckDelay24h, DelaySaves
<1>6. CASE Request
  <2>1. \/ UNCHANGED delayVars
        \/ DelayRequest \/ DelayReset \/ ChanceReport \/ TotalReport
    BY <1>6 DEF Request, ZoneRequest, MqttZone, MqttMasterOff, MqttMasterOn, RefusedRequest,
       CycleRequest, RuntimeRequest, CalendarRequest, LimitsRequest
  <2> QED BY <1>1, <1>2, <1>3, <1>4, <2>1
<1>7. CASE LoopPass
  BY <1>1, <1>5, <1>7 DEF LoopPass
<1> QED BY <1>6, <1>7

\* A start reads an end no further from the one that was set than the file, or rounds
\* the one that was set.
LEMMA RestartReadsNear ==
    ASSUME Inv, KeepInv, Restart
    PROVE  KeepInv'
<1>1. /\ cache.left \in Int /\ asked \in Int /\ asked >= NoEnd /\ Rounding \in Nat
      /\ NoEnd = -2
  BY DayAssumption DEF Inv, TypeOK, RainTypeOK, CacheFile, NoEnd
<1>2. /\ delayLeft' \in Reread(cache.left, cache.asFloat)
      /\ asFloat' = TRUE /\ cache' = cache /\ asked' = asked
  BY DEF Restart
<1>3. Near(cache.left) /\ (~cache.asFloat => cache.left = asked)
  BY DEF KeepInv
<1>4. /\ delayLeft' = NoEnd <=> asked = NoEnd
      /\ delayLeft' - asked \in (-Rounding)..Rounding
  <2>1. CASE cache.left = NoEnd \/ cache.asFloat
    <3>1. delayLeft' = cache.left
      BY <1>2, <2>1 DEF Reread
    <3> QED BY <1>3, <3>1 DEF Near
  <2>2. CASE ~(cache.left = NoEnd \/ cache.asFloat)
    <3>1. PICK e \in (cache.left - Rounding)..(cache.left + Rounding) :
                 delayLeft' = IF e < -1 THEN -1 ELSE e
      BY <1>2, <2>2 DEF Reread
    <3>2. cache.left = asked /\ asked >= -1
      BY <1>1, <1>3, <2>2
    <3>3. e \in Int /\ asked - Rounding <= e /\ e <= asked + Rounding
      BY <1>1, <3>1, <3>2
    <3>4. delayLeft' \in Int /\ delayLeft' >= -1
      BY <3>1, <3>3
    <3>5. asked - Rounding <= delayLeft' /\ delayLeft' <= asked + Rounding
      BY <1>1, <3>1, <3>2, <3>3
    <3>6. delayLeft' - asked \in (-Rounding)..Rounding
      <4>1. \A a, b \in Int, r \in Nat : a - r <= b /\ b <= a + r => b - a \in (-r)..r
        OBVIOUS
      <4> QED BY <1>1, <3>4, <3>5, <4>1
    <3>7. delayLeft' # NoEnd /\ asked # NoEnd
      BY <1>1, <3>2, <3>4
    <3> QED BY <3>6, <3>7
  <2> QED BY <2>1, <2>2
<1> QED BY <1>2, <1>3, <1>4 DEF KeepInv, Near

\* The clock brings all of the ends nearer, and none past -1.
LEMMA TickKeepsNear ==
    ASSUME Inv, KeepInv, Tick
    PROVE  KeepInv'
<1>1. /\ delayLeft \in Int /\ delayLeft >= NoEnd /\ asked \in Int /\ asked >= NoEnd
      /\ cache \in CacheFile /\ cache.left \in Int /\ cache.left >= NoEnd
      /\ Rounding \in Nat
  BY DayAssumption DEF Inv, TypeOK, RainTypeOK, CacheFile
<1>2. /\ delayLeft' = Earlier(delayLeft) /\ asked' = Earlier(asked)
      /\ cache'.left = Earlier(cache.left) /\ cache'.asFloat = cache.asFloat
      /\ asFloat' = asFloat /\ proc' = proc
  BY <1>1 DEF Tick, CacheFile
<1>3. ASSUME NEW left \in Int, left >= NoEnd, Near(left)
      PROVE  /\ Earlier(left) = NoEnd <=> Earlier(asked) = NoEnd
             /\ Earlier(left) - Earlier(asked) \in (-Rounding)..Rounding
  BY <1>1, <1>3 DEF Near, Earlier, NoEnd
<1>4. proc' = "up" => /\ delayLeft' = NoEnd <=> asked' = NoEnd
                      /\ delayLeft' - asked' \in (-Rounding)..Rounding
                      /\ ~asFloat' => delayLeft' = asked'
  BY <1>1, <1>2, <1>3 DEF KeepInv
<1>5. /\ cache'.left = NoEnd <=> asked' = NoEnd
      /\ cache'.left - asked' \in (-Rounding)..Rounding
      /\ ~cache'.asFloat => cache'.left = asked'
  BY <1>1, <1>2, <1>3 DEF KeepInv
<1> QED BY <1>4, <1>5 DEF KeepInv, Near

\* KeepInv is inductive.
LEMMA NextKeepsNear ==
    ASSUME Inv, KeepInv, [Next]_vars
    PROVE  KeepInv'
<1>1. \A left \in Int : left - left \in (-Rounding)..Rounding
  BY DayAssumption
<1>2. CASE Request \/ LoopPass
  <2>1. DelaySaves /\ NoteEnd /\ proc = "up" /\ proc' = "up"
    BY <1>2, StepSaves DEF Request, LoopPass
  <2>2. CASE UNCHANGED delayVars
    <3>1. asked' = asked /\ delayLeft' = delayLeft /\ asFloat' = asFloat /\ cache' = cache
      BY <2>1, <2>2 DEF NoteEnd, delayVars
    <3> QED BY <2>1, <3>1 DEF KeepInv, Near
  <2>3. CASE ~UNCHANGED delayVars
    <3>1. asked' = delayLeft' /\ cache'.left = delayLeft' /\ cache'.asFloat = asFloat'
      BY <2>1, <2>3 DEF NoteEnd, DelaySaves
    <3>2. delayLeft' \in Int
      BY NextKeeps DEF Inv, TypeOK, RainTypeOK
    <3> QED BY <1>1, <3>1, <3>2 DEF KeepInv, Near
  <2> QED BY <2>2, <2>3
<1>3. CASE MqttUp \/ MqttDown \/ Crash \/ UNCHANGED vars
  <2>1. /\ UNCHANGED <<delayLeft, asFloat, cache, asked>>
        /\ proc' = "up" => proc = "up"
    BY <1>3 DEF MqttUp, MqttDown, Crash, vars, delayVars
  <2> QED BY <2>1 DEF KeepInv, Near
<1>4. CASE Stop \/ StopInDelayHandler
  <2>1. ASSUME NEW delay, NEW left \in Int, NEW float, IntHandler(delay, left, float)
        PROVE  KeepInv'
    <3>1. /\ proc = "up" /\ proc' = "stopped"
          /\ cache'.left = left /\ cache'.asFloat = float
      BY <2>1 DEF IntHandler, WriteCache
    <3>2. CASE <<left, float>> = <<delayLeft, asFloat>>
      <4>1. asked' = asked /\ cache'.left = delayLeft /\ cache'.asFloat = asFloat
        BY <2>1, <3>1, <3>2 DEF IntHandler
      <4> QED BY <3>1, <4>1 DEF KeepInv, Near
    <3>3. CASE <<left, float>> # <<delayLeft, asFloat>>
      <4>1. asked' = left
        BY <2>1, <3>3 DEF IntHandler
      <4> QED BY <1>1, <3>1, <4>1 DEF KeepInv, Near
    <3> QED BY <3>2, <3>3
  <2>2. delayLeft \in Int /\ 0 \in Int
    BY DEF Inv, TypeOK, RainTypeOK
  <2> QED BY <1>4, <2>1, <2>2 DEF Stop, StopInDelayHandler
<1>5. CASE Tick
  BY <1>5, TickKeepsNear
<1>6. CASE Restart
  BY <1>6, RestartReadsNear
<1> QED BY <1>2, <1>3, <1>4, <1>5, <1>6 DEF Next

\* The end of a delay is never further from the one that was set than one reading of
\* the cache file can move it, however often the daemon is stopped, killed and started,
\* in the middle of a handler too.
THEOREM EndIsKeptHolds == Spec => []EndIsKept
<1>1. Init => KeepInv
  <2>1. NoEnd - NoEnd \in (-Rounding)..Rounding
    BY DayAssumption DEF NoEnd
  <2> QED BY <2>1 DEF Init, KeepInv, Near
<1>2. Inv /\ KeepInv /\ [Next]_vars => KeepInv'
  BY NextKeepsNear
<1>3. KeepInv => EndIsKept
  BY DEF KeepInv, Near, EndIsKept
<1> QED BY <1>1, <1>2, <1>3, InvHolds, PTL DEF Spec

-----------------------------------------------------------------------------
\* start_next_zone, called with every zone closed, goes to the first zone above k
\* that can run.
LEMMA StartNextZoneInOrder ==
    ASSUME ZcTypeOK, NEW k \in 0..N, NEW left, left \cap Zones = {}, StartNextZone(k, left),
           cur'.type = "ALL"
    PROVE  /\ cur'.zone > k
           /\ \A z \in (k + 1)..(cur'.zone - 1) : runtime[z] <= 0 \/ z \notin ValidPin
<1> USE ZonesAssumption
<1>1. PICK y \in Runnable(k, left) :
        /\ \A z \in Runnable(k, left) : y <= z
        /\ cur' = [type |-> "ALL", zone |-> y, duration |-> runtime[y]]
  BY DEF StartNextZone, NoRun
<1>2. cur'.zone = y /\ y \in Zones /\ y > k
  BY <1>1 DEF Runnable
<1>3. ASSUME NEW z \in (k + 1)..(cur'.zone - 1)
      PROVE  runtime[z] <= 0 \/ z \notin ValidPin
  <2>1. y \in Int /\ z \in Int /\ k \in Int /\ k >= 0 /\ k < z /\ z < y /\ y <= N
    BY <1>2, <1>3 DEF Zones
  <2>2. z \in Zones /\ z > k
    BY <2>1 DEF Zones
  <2>3. z \notin Runnable(k, left)
    <3>1. z \in Runnable(k, left) => y <= z
      BY <1>1
    <3> QED BY <2>1, <3>1
  <2>4. z \notin left
    BY <2>2
  <2>5. runtime[z] \in Int
    <3>1. runtime \in [0..N -> Runtimes] /\ z \in 0..N
      BY <2>1, ZonesAssumption DEF ZcTypeOK
    <3>2. runtime[z] \in Runtimes
      BY <3>1
    <3> QED BY <3>2, RuntimesAssumption
  <2>6. ~(runtime[z] > 0) => runtime[z] <= 0
    BY <2>5
  <2> QED BY <2>2, <2>3, <2>4, <2>6 DEF Runnable
<1> QED BY <1>2, <1>3

\* In a cycle zc_check and a request to stop the zone both go on with the next zone.
LEMMA ZoneDoneInOrder ==
    ASSUME ZcTypeOK, RunInv, ZoneDone, cur.type = "ALL", cur'.type = "ALL"
    PROVE  /\ cur'.zone > cur.zone
           /\ \A z \in (cur.zone + 1)..(cur'.zone - 1) : runtime[z] <= 0 \/ z \notin ValidPin
<1>1. StartNextZone(cur.zone, open \ {cur.zone})
  BY DEF ZoneDone, NoRun
<1>2. cur.zone \in 0..N
  BY DEF RunInv, RunHasZone
<1>3. (open \ {cur.zone}) \cap Zones = {}
  BY DEF RunInv, RunOwnsZones, Watering
<1> QED BY <1>1, <1>2, <1>3, StartNextZoneInOrder

\* A request to zc_zone in the middle of a cycle ends it, goes on with the next
\* zone, or leaves the zone as it is.
LEMMA ZcZoneInOrder ==
    ASSUME ZcTypeOK, RunInv, NEW type \in {"SINGLE", "CRON", "ALL"}, NEW z, NEW on \in BOOLEAN,
           type = "ALL" => z = 0,
           NEW length, NEW also, ZcZone(type, z, on, length, also),
           cur.type = "ALL", cur'.type = "ALL", cur'.zone # cur.zone \/ elapsed' < elapsed
    PROVE  /\ cur'.zone > cur.zone
           /\ \A y \in (cur.zone + 1)..(cur'.zone - 1) : runtime[y] <= 0 \/ y \notin ValidPin
<1>0. ~UNCHANGED <<cur, elapsed>>
  BY DEF ZcTypeOK
<1>1. ~Ignored(type, z, on, length)
  BY <1>0 DEF ZcZone
<1>2. ~(type = "ALL" /\ on)
  BY <1>1 DEF Ignored, Duplicate, Zones
<1>3. ~(type = "ALL" /\ ~on)
  <2> SUFFICES ASSUME type = "ALL", ~on PROVE FALSE
    OBVIOUS
  <2>1. CycleAll(FALSE, also)
    BY <1>1 DEF ZcZone
  <2>2. cur' = [cur EXCEPT !.type = "NONE"]
    BY <2>1 DEF CycleAll
  <2> QED BY <2>2 DEF ZcTypeOK, Runs
<1>4. ~(type # "ALL" /\ on)
  BY <1>0, <1>1 DEF ZcZone, SwitchOn
<1>5. SwitchOff(z, also)
  BY <1>1, <1>2, <1>3, <1>4 DEF ZcZone
<1> QED BY <1>5, ZoneDoneInOrder DEF SwitchOff

\* No step takes a cycle of all zones back or past a zone that could run: a cycle
\* waters its zones in order, whatever the requests, signals and restarts.
THEOREM CycleInOrderHolds == Spec => CycleInOrder
<1> DEFINE A ==
      cur.type = "ALL" /\ cur'.type = "ALL" /\ (cur'.zone # cur.zone \/ elapsed' < elapsed) =>
          /\ cur'.zone > cur.zone
          /\ \A z \in (cur.zone + 1)..(cur'.zone - 1) : runtime[z] <= 0 \/ z \notin ValidPin
<1>1. Inv /\ [Next]_vars => A
  <2> SUFFICES ASSUME Inv, [Next]_vars,
                      cur.type = "ALL", cur'.type = "ALL",
                      cur'.zone # cur.zone \/ elapsed' < elapsed
               PROVE  A
    OBVIOUS
  <2>1. ZcTypeOK /\ (proc = "up" => RunInv)
    BY DEF Inv, TypeOK
  <2>2. ~UNCHANGED <<cur, elapsed>>
    BY <2>1 DEF ZcTypeOK
  <2>3. CASE Request
    <3> USE <2>1, <2>2
    <3>1. RunInv
      BY <2>3 DEF Request
    <3>2. ASSUME NEW also, ZcRainDelayEnabled(also) PROVE A
      BY <3>2 DEF ZcRainDelayEnabled
    <3>3. CASE ZoneRequest
      BY <3>1, <3>3, ZcZoneInOrder DEF ZoneRequest
    <3>4. CASE MqttZone \/ MqttMasterOff \/ CycleRequest
      BY <3>1, <3>4, ZcZoneInOrder DEF MqttZone, MqttMasterOff, CycleRequest
    <3>5. CASE RuntimeRequest
      <4>1. PICK z \in Zones, t \in Runtimes : SetRuntime(z, t, {})
        BY <3>5 DEF RuntimeRequest
      <4>2. cur'.zone = cur.zone /\ elapsed' = elapsed
        BY <4>1 DEF SetRuntime, ZcTypeOK, Runs
      <4> QED BY <4>2 DEF ZcTypeOK
    <3>6. CASE DelayRequest \/ DelayReset \/ ChanceReport \/ TotalReport
      BY <3>2, <3>6 DEF DelayRequest, DelayReset, ChanceReport, TotalReport, EnableDelay24h,
         ResetDelay24hTime, SetTodayChanceOfRain, SetTodayRainTotal, DelayOn
    <3>7. CASE MqttMasterOn \/ RefusedRequest \/ CalendarRequest \/ LimitsRequest
      BY <3>7 DEF MqttMasterOn, RefusedRequest, CalendarRequest, LimitsRequest, zcVars
    <3> QED BY <2>3, <3>3, <3>4, <3>5, <3>6, <3>7 DEF Request
  <2>4. CASE LoopPass
    BY <2>1, <2>2, <2>4, ZoneDoneInOrder DEF LoopPass
  <2>5. CASE Restart
    BY <2>5 DEF Restart, BootRun
  <2>6. CASE Tick
    BY <2>1, <2>6 DEF Tick, ZcTypeOK
  <2>7. CASE MqttUp \/ MqttDown \/ Stop \/ StopInDelayHandler \/ Crash \/ UNCHANGED vars
    BY <2>2, <2>7 DEF MqttUp, MqttDown, Stop, StopInDelayHandler, IntHandler, Crash, vars,
       zcVars
  <2> QED BY <2>3, <2>4, <2>5, <2>6, <2>7 DEF Next
<1>2. [][A]_vars => CycleInOrder
  BY DEF CycleInOrder
<1> QED BY <1>1, <1>2, InvHolds, PTL DEF Spec

-----------------------------------------------------------------------------
(***************************************************************************)
(* What a client was told is the state, or a broadcast is pending; and a    *)
(* delay spares the runs that were asked for.                               *)
(***************************************************************************)
\* Every request raises a bit for what it changes.
LEMMA RequestTells ==
    ASSUME MasterPin = {0}, RunInv, RunHasMaster, ZcTypeOK, Request
    PROVE  /\ RunHasMaster'
           /\ StateView' # StateView => events' # {}
           /\ events \subseteq events'
<1> DEFINE Goal == /\ RunHasMaster'
                   /\ StateView' # StateView => events' # {}
                   /\ events \subseteq events'
<1> SUFFICES Goal
  OBVIOUS
<1>1. ASSUME RunHasMaster', Told, SwitchView' = SwitchView \/ events' # {} PROVE Goal
  BY <1>1 DEF Told, SwitchView, RunView, StateView, ActiveView, RunZone
<1>2. ASSUME NEW type \in {"SINGLE", "CRON", "ALL"}, NEW z, NEW on \in BOOLEAN, NEW length,
             NEW also, ZcZone(type, z, on, length, also), UNCHANGED <<runtime, calendar, delayVars>>
      PROVE  Goal
  <2>1. RunHasMaster' /\ Told
    BY <1>2, ZcZoneTells
  <2>2. SwitchView' = SwitchView
    BY <1>2 DEF SwitchView, delayVars
  <2> QED BY <1>1, <2>1, <2>2
<1>3. ASSUME NEW also, UNCHANGED <<open, cur>>, Raise(also),
             SwitchView' = SwitchView \/ also # {}
      PROVE  Goal
  BY <1>1, <1>3 DEF RunHasMaster, Told, RunView, ActiveView, RunZone, Raise
<1> HIDE DEF Goal
<1>4. CASE ZoneRequest
  BY <1>2, <1>4 DEF ZoneRequest
<1>5. CASE MqttZone \/ MqttMasterOff \/ CycleRequest
  BY <1>2, <1>5 DEF MqttZone, MqttMasterOff, CycleRequest
<1>6. CASE MqttMasterOn \/ RefusedRequest
  BY <1>3, <1>6 DEF MqttMasterOn, RefusedRequest, delayVars
<1>7. CASE RuntimeRequest
  <2>1. PICK z \in Zones, t \in Runtimes : SetRuntime(z, t, {})
    BY <1>7 DEF RuntimeRequest
  <2>2. RunHasMaster' /\ Told /\ events' # {}
    BY <2>1 DEF SetRuntime, RunHasMaster, Told, Raise
  <2> QED BY <1>1, <2>2
<1>8. CASE CalendarRequest
  <2>1. PICK on \in BOOLEAN, also \in Origins : EnableCalendar(on, also)
    BY <1>8 DEF CalendarRequest
  <2>2. UNCHANGED <<open, cur, runtime, delay24h>>
    BY <1>8 DEF CalendarRequest, delayVars
  <2>3. Raise(also \cup (IF calendar # on THEN {"status"} ELSE {}))
    BY <2>1 DEF EnableCalendar
  <2>4. SwitchView' = SwitchView \/ calendar # on
    BY <2>1, <2>2 DEF EnableCalendar, SwitchView
  <2>5. SwitchView' = SwitchView \/ also \cup (IF calendar # on THEN {"status"} ELSE {}) # {}
    BY <2>4
  <2> QED BY <1>3, <2>2, <2>3, <2>5
<1>9. CASE LimitsRequest
  BY <1>9 DEF LimitsRequest, Goal, StateView, ActiveView, RunZone, RunHasMaster, zcVars, delayVars
<1>10. CASE DelayRequest \/ DelayReset \/ ChanceReport \/ TotalReport
  <2> USE DEF delayVars
  <2>1. ASSUME NEW left, NEW also, DelayOn(left, also), UNCHANGED <<runtime, calendar>>,
               delay24h \/ also # {}
        PROVE  Goal
    <3>1. RunHasMaster' /\ Told /\ (also # {} => events' # {})
      BY <2>1, DelayOnTells
    <3>2. SwitchView' = SwitchView \/ also # {}
      BY <2>1 DEF SwitchView, DelayOn, ZcTypeOK
    <3> QED BY <1>1, <3>1, <3>2
  <2>2. ASSUME NEW left \in Int, NEW also, ResetDelay24hTime(left, also),
               UNCHANGED <<runtime, calendar>>
        PROVE  Goal
    <3>1. delay24h \/ also \cup (IF delay24h THEN {} ELSE {"status"}) # {}
      OBVIOUS
    <3> QED BY <2>1, <2>2, <3>1 DEF ResetDelay24hTime
  <2>3. ASSUME NEW on \in BOOLEAN, NEW also, EnableDelay24h(on, also),
               UNCHANGED <<runtime, calendar>>
        PROVE  Goal
    <3>1. also \cup {"status"} # {}
      OBVIOUS
    <3>2. CASE on = delay24h /\ UNCHANGED <<open, cur, elapsed, delayVars>> /\ Raise(also)
      BY <1>3, <2>3, <3>2 DEF SwitchView
    <3>3. CASE UNCHANGED <<open, cur, elapsed>> /\ Raise(also \cup {"status"})
      BY <1>3, <3>1, <3>3
    <3>4. CASE DelayOn(Day, also \cup {"status"})
      BY <2>1, <2>3, <3>1, <3>4
    <3> QED BY <2>3, <3>2, <3>3, <3>4 DEF EnableDelay24h
  <2>4. ASSUME NEW also, UNCHANGED <<open, cur, elapsed, runtime, calendar, delayVars>>, Raise(also)
        PROVE  Goal
    BY <1>3, <2>4 DEF SwitchView
  <2>5. CASE DelayRequest
    BY <2>3, <2>5, DelaysAssumption DEF DelayRequest
  <2>6. CASE DelayReset
    BY <2>2, <2>6, DelaysAssumption DEF DelayReset
  <2>7. CASE ChanceReport
    <3>1. PICK percent \in Chances : SetTodayChanceOfRain(percent, {})
      BY <2>7 DEF ChanceReport
    <3>2. UNCHANGED <<runtime, calendar>>
      BY <2>7 DEF ChanceReport
    <3>3. \A also : ResetDelay24hTime(0, also) => Goal
      BY <2>2, <3>2
    <3>4. \A also : EnableDelay24h(FALSE, also) => Goal
      BY <2>3, <3>2
    <3> QED BY <2>4, <3>1, <3>2, <3>3, <3>4 DEF SetTodayChanceOfRain
  <2>8. CASE TotalReport
    <3>1. PICK rain \in Totals : SetTodayRainTotal(rain, {})
      BY <2>8 DEF TotalReport
    <3>2. UNCHANGED <<runtime, calendar>>
      BY <2>8 DEF TotalReport
    <3>3. DaysFor(rain) * Day \in Int
      BY DayAssumption DEF DaysFor
    <3> QED BY <2>2, <2>4, <3>1, <3>2, <3>3 DEF SetTodayRainTotal
  <2> QED BY <1>10, <2>5, <2>6, <2>7, <2>8
<1> QED BY <1>4, <1>5, <1>6, <1>7, <1>8, <1>9, <1>10 DEF Request

\* A pass of the loop tells the clients everything, or has nothing to tell.
LEMMA LoopPassTells ==
    ASSUME MasterPin = {0}, RunInv, RunHasMaster, LoopPass
    PROVE  /\ RunHasMaster'
           /\ PublishedOrPending => PublishedOrPending'
<1>1. CASE Expired /\ ZoneDone /\ Broadcast
  <2>1. RunHasMaster'
    BY <1>1, ZoneDoneDrives
  <2>2. PublishedOrPending'
    BY <1>1 DEF LoopPass, Broadcast, PublishedOrPending
  <2> QED BY <2>1, <2>2
<1>2. CASE UNCHANGED <<open, cur, elapsed>> /\ Broadcast
  BY <1>2 DEF LoopPass, Broadcast, PublishedOrPending, RunHasMaster
<1>3. CASE UNCHANGED <<open, cur, elapsed, delayVars, events>> /\ Refresh
  BY <1>3 DEF LoopPass, Refresh, PublishedOrPending, RunHasMaster
<1> QED BY <1>1, <1>2, <1>3 DEF LoopPass

-----------------------------------------------------------------------------
\* The inductive form: only a process that is up has a connection.
ToldInv ==
    /\ PublishedOrPending
    /\ mqtt => proc = "up"
    /\ proc = "up" => RunHasMaster

\* Every step keeps it.
LEMMA NextTells ==
    ASSUME MasterPin = {0}, Inv, ToldInv, [Next]_vars
    PROVE  ToldInv'
<1>1. ZcTypeOK /\ (proc = "up" => RunInv)
  BY DEF Inv, TypeOK
<1>2. CASE Request
  <2>1. proc = "up" /\ UNCHANGED <<proc, mqtt>> /\ stale' = stale \cup Outdated
    BY <1>2 DEF Request
  <2>2. /\ RunHasMaster'
        /\ StateView' # StateView => events' # {}
        /\ events \subseteq events'
    BY <1>1, <1>2, <2>1, RequestTells DEF ToldInv
  <2>3. "state" \in stale' => "state" \in stale \/ StateView' # StateView
    BY <2>1 DEF Outdated
  <2> QED BY <2>1, <2>2, <2>3 DEF ToldInv, PublishedOrPending
<1>3. CASE LoopPass
  <2>1. proc = "up" /\ UNCHANGED <<proc, mqtt>>
    BY <1>3 DEF LoopPass
  <2> QED BY <1>1, <1>3, <2>1, LoopPassTells DEF ToldInv
<1>4. CASE MqttUp \/ MqttDown
  BY <1>4 DEF MqttUp, MqttDown, ToldInv, PublishedOrPending, RunHasMaster, zcVars
<1>5. CASE Stop \/ StopInDelayHandler \/ Crash
  BY <1>5 DEF Stop, StopInDelayHandler, IntHandler, Crash, ToldInv, PublishedOrPending
<1>6. CASE Restart
  BY <1>6 DEF Restart, BootRun, ToldInv, PublishedOrPending, RunHasMaster
<1>7. CASE Tick \/ UNCHANGED vars
  BY <1>7 DEF Tick, vars, ToldInv, PublishedOrPending, RunHasMaster
<1> QED BY <1>2, <1>3, <1>4, <1>5, <1>6, <1>7 DEF Next

\* With a master valve on a good pin, no request, rain report, end of a run or of a
\* connection leaves an MQTT client with an old state and no broadcast on its way.
THEOREM PublishedOrPendingHolds ==
    ASSUME MasterValve, 0 \in ValidPin
    PROVE  Spec => []PublishedOrPending
<1>1. MasterPin = {0}
  BY DEF MasterPin
<1>2. Init => ToldInv
  BY DEF Init, BootRun, ToldInv, PublishedOrPending, RunHasMaster
<1>3. Inv /\ ToldInv /\ [Next]_vars => ToldInv'
  BY <1>1, NextTells
<1>4. ToldInv => PublishedOrPending
  BY DEF ToldInv
<1> QED BY <1>2, <1>3, <1>4, InvHolds, PTL DEF Spec

-----------------------------------------------------------------------------
\* A rain delay that comes into force, by request or by a sensor, ends no run but a
\* scheduled one: not a manual run, not a cycle, whatever is configured.
THEOREM DelaySparesManualRunsHolds == Spec => DelaySparesManualRuns
<1> DEFINE A == proc = "up" /\ ~delay24h /\ delay24h' /\ cur.type # "CRON"
                => UNCHANGED <<open, cur>>
<1>1. [Next]_vars => A
  <2> SUFFICES ASSUME [Next]_vars, proc = "up", ~delay24h, delay24h', cur.type # "CRON"
               PROVE  UNCHANGED <<open, cur>>
    OBVIOUS
  <2>1. CASE Request
    <3>1. ASSUME NEW left, NEW also, DelayOn(left, also) PROVE UNCHANGED <<open, cur>>
      BY <3>1 DEF DelayOn, ZcRainDelayEnabled
    <3>2. CASE DelayRequest \/ DelayReset \/ ChanceReport \/ TotalReport
      BY <3>1, <3>2 DEF DelayRequest, DelayReset, ChanceReport, TotalReport, EnableDelay24h,
         ResetDelay24hTime, SetTodayChanceOfRain, SetTodayRainTotal, delayVars
    <3>3. ~(DelayRequest \/ DelayReset \/ ChanceReport \/ TotalReport) => delay24h' = delay24h
      BY <2>1 DEF Request, ZoneRequest, MqttZone, MqttMasterOff, MqttMasterOn, RefusedRequest,
         CycleRequest, RuntimeRequest, CalendarRequest, LimitsRequest, delayVars
    <3> QED BY <3>2, <3>3
  <2>2. CASE ~Request
    BY <2>2 DEF Next, LoopPass, CheckDelay24h, DelayOff, MqttUp, MqttDown, Tick, Stop,
       StopInDelayHandler, IntHandler, Crash, Restart, delayVars, vars
  <2> QED BY <2>1, <2>2
<1>2. [][A]_vars => DelaySparesManualRuns
  BY DEF DelaySparesManualRuns
<1> QED BY <1>1, <1>2, PTL DEF Spec

-----------------------------------------------------------------------------
(***************************************************************************)
(* The daemon implements Garden, under the assumptions that                 *)
(* SprinklerRefines.tla names.  Seen as open pins, every step opens one     *)
(* zone with the master, closes everything, or touches neither (RunMoves);  *)
(* a step on the delay leaves the pins or ends the scheduled run            *)
(* (DelayMoves).                                                            *)
(***************************************************************************)
\* A master valve, and pins that validGPIO accepts.
GoodPins == MasterValve /\ ValidPin = 0..N

\* Nothing is open, or one zone with the master.
OneWithMaster(pins) == pins = {} \/ \E z \in Zones : pins = {0, z}

RunMoves ==
    \/ \E z \in Zones : open' = {0, z} /\ (cur'.type = "CRON" => ~delay24h)
    \/ open' = {}
    \/ open' = open /\ cur'.type = cur.type

DelayMoves ==
    \/ delay24h' \in {delay24h, FALSE} /\ open' = open /\ cur' = cur
    \/ delay24h' = TRUE /\ open' = open /\ cur' = cur /\ (cur.type # "CRON" \/ open = {})
    \/ delay24h' = TRUE /\ open' = {} /\ (cur.type = "CRON" \/ open = {})

Moves == (RunMoves /\ delay24h' = delay24h) \/ DelayMoves

-----------------------------------------------------------------------------
\* Pins of which one zone at most is on, without that zone.
LEMMA WithoutZone ==
    ASSUME NEW pins \in SUBSET (0..N), NEW z, pins \cap Zones \subseteq {z}
    PROVE  pins \ {z} \subseteq {0} /\ pins \ {z, 0} = {} /\ (z \notin pins => pins \subseteq {0})
<1>1. ASSUME NEW y \in pins, y # z PROVE y = 0
  <2>1. y \in 0..N /\ y \notin Zones
    BY <1>1
  <2> QED BY <2>1, ZonesAssumption DEF Zones
<1> QED BY <1>1

\* start_next_zone, called with every zone closed, opens one zone with the master
\* or closes everything.
LEMMA StartNextZoneMoves ==
    ASSUME GoodPins, NEW k, NEW left, left \subseteq {0}, StartNextZone(k, left)
    PROVE  RunMoves
<1> USE ZonesAssumption
<1>1. MasterPin = {0}
  BY DEF GoodPins, MasterPin
<1>2. CASE Runnable(k, left) = {}
  <2>1. open' = left \ MasterPin
    BY <1>2 DEF StartNextZone
  <2> QED BY <1>1, <2>1 DEF RunMoves
<1>3. CASE Runnable(k, left) # {}
  <2>1. PICK z \in Runnable(k, left) :
               open' = left \cup {z} \cup MasterPin /\ cur'.type = "ALL"
    BY <1>3 DEF StartNextZone
  <2>2. z \in Zones /\ open' = {0, z}
    BY <1>1, <2>1 DEF Runnable
  <2> QED BY <2>1, <2>2 DEF RunMoves
<1> QED BY <1>2, <1>3

\* zc_check, at the end of a run.
LEMMA ZoneDoneMoves ==
    ASSUME GoodPins, RunInv, open \subseteq 0..N, cur.type # "NONE", ZoneDone
    PROVE  RunMoves
<1> USE ZonesAssumption
<1>1. open \ {cur.zone} \subseteq {0}
  <2>1. open \in SUBSET (0..N) /\ open \cap Zones \subseteq {cur.zone}
    BY DEF RunInv, RunOwnsZones, Watering
  <2> QED BY <2>1, WithoutZone
<1>2. CASE StartNextZone(cur.zone, open \ {cur.zone})
  BY <1>1, <1>2, StartNextZoneMoves
<1>3. CASE open' = open \ ({cur.zone} \cup MasterPin)
  <2>1. MasterPin = {0}
    BY DEF GoodPins, MasterPin
  <2> QED BY <1>1, <1>3, <2>1 DEF RunMoves
<1> QED BY <1>2, <1>3 DEF ZoneDone

\* zc_zone, for a zone that is not the master, for the zone that runs, or for all.
LEMMA ZcZoneMoves ==
    ASSUME GoodPins, RunInv, open \subseteq 0..N,
           NEW type \in {"SINGLE", "CRON", "ALL"}, NEW z, NEW on \in BOOLEAN,
           NEW length, NEW also,
           z \in Zones \/ (~on /\ z = cur.zone /\ cur.type # "NONE") \/ type = "ALL",
           ZcZone(type, z, on, length, also)
    PROVE  RunMoves /\ (open' = open \/ open' = {} \/ type = "ALL" \/ on \/ cur.type = "ALL")
<1> USE ZonesAssumption
<1>0. MasterPin = {0}
  BY DEF GoodPins, MasterPin
<1>1. CASE Ignored(type, z, on, length)
  BY <1>1 DEF ZcZone, RunMoves
<1>2. CASE ~Ignored(type, z, on, length) /\ type = "ALL"
  <2>1. open \ (Zones \cup MasterPin) = {}
    BY <1>0 DEF Zones
  <2>2. CycleAll(on, also)
    BY <1>2 DEF ZcZone
  <2>3. CASE on
    <3>1. StartNextZone(0, {})
      BY <2>1, <2>2, <2>3 DEF CycleAll
    <3> QED BY <1>2, <3>1, StartNextZoneMoves
  <2>4. CASE ~on
    BY <1>2, <2>1, <2>2, <2>4 DEF CycleAll, RunMoves
  <2> QED BY <2>3, <2>4
<1>3. CASE ~Ignored(type, z, on, length) /\ type # "ALL" /\ on
  <2>1. SwitchOn(type, z, length, also)
    BY <1>3 DEF ZcZone
  <2>2. z \in Zones /\ z \in ValidPin /\ z \notin open \ Zones /\ open \ Zones \subseteq {0}
    BY <1>3 DEF GoodPins, Zones
  <2>3. open' = {0, z} /\ cur'.type = type
    BY <1>0, <2>1, <2>2 DEF SwitchOn
  <2>4. type = "CRON" => ~delay24h
    BY <1>3 DEF Ignored, NotScheduled
  <2> QED BY <1>3, <2>2, <2>3, <2>4 DEF RunMoves
<1>4. CASE ~Ignored(type, z, on, length) /\ type # "ALL" /\ ~on
  <2>1. SwitchOff(z, also)
    BY <1>4 DEF ZcZone
  <2>2. CASE cur.type = "ALL"
    <3>1. ZoneDone
      BY <2>1, <2>2 DEF SwitchOff
    <3> QED BY <2>2, <3>1, ZoneDoneMoves
  <2>3. CASE cur.type # "ALL"
    <3>1. open' = open \ ({z} \cup {0})
      BY <1>0, <2>1, <2>3 DEF SwitchOff
    <3>2. z \in Zones => z \in Watering
      BY <1>4 DEF Ignored, Duplicate, Watering
    <3>3. Watering \subseteq {z}
      BY <1>4, <3>2 DEF RunInv, OneZoneOpen, RunOwnsZones
    <3>4. open' = {}
      BY <3>1, <3>3, WithoutZone DEF Watering
    <3> QED BY <3>4 DEF RunMoves
  <2> QED BY <2>2, <2>3
<1> QED BY <1>1, <1>2, <1>3, <1>4

\* Turning the delay on.
LEMMA DelayOnMoves ==
    ASSUME GoodPins, RunInv, open \subseteq 0..N, OneWithMaster(open),
           NEW left, NEW also, DelayOn(left, also)
    PROVE  DelayMoves
<1> USE ZonesAssumption
<1>1. delay24h' = TRUE /\ ZcRainDelayEnabled(also)
  BY DEF DelayOn
<1>2. CASE cur.type = "CRON" /\ cur.zone > 0
  <2>1. ZcZone("SINGLE", cur.zone, FALSE, 0, also)
    BY <1>1, <1>2 DEF ZcRainDelayEnabled
  <2>2. cur.zone \in Zones
    BY <1>2 DEF RunInv, RunHasZone, Zones
  <2>3. CASE cur.zone \in open
    <3>1. SwitchOff(cur.zone, also)
      BY <2>1, <2>2, <2>3 DEF ZcZone, Ignored, Duplicate, NotScheduled
    <3>2. open' = open \ {cur.zone, 0}
      BY <1>2, <3>1 DEF SwitchOff, GoodPins, MasterPin
    <3>3. open \in SUBSET (0..N) /\ open \cap Zones \subseteq {cur.zone}
      BY <1>2 DEF RunInv, RunOwnsZones, Watering
    <3>4. open' = {}
      BY <3>2, <3>3, WithoutZone
    <3> QED BY <1>1, <1>2, <3>4 DEF DelayMoves
  <2>4. CASE cur.zone \notin open
    <3>1. FALSE = (cur.zone \in open)
      BY <2>4
    <3>2. Ignored("SINGLE", cur.zone, FALSE, 0)
      BY <2>2, <3>1 DEF Ignored, Duplicate
    <3>3. open' = open /\ cur' = cur
      BY <2>1, <3>2 DEF ZcZone
    <3>4. open \cap Zones = {}
      BY <1>2, <2>4 DEF RunInv, RunOwnsZones, Watering
    <3>5. open = {}
      BY <3>4 DEF OneWithMaster
    <3> QED BY <1>1, <3>3, <3>5 DEF DelayMoves
  <2> QED BY <2>3, <2>4
<1>3. CASE ~(cur.type = "CRON" /\ cur.zone > 0)
  <2>1. open' = open /\ cur' = cur
    BY <1>1, <1>3 DEF ZcRainDelayEnabled
  <2>2. cur.type = "CRON" => open = {}
    <3>1. cur.type = "CRON" => cur.zone = 0
      BY <1>3 DEF RunInv, RunHasZone
    <3>2. cur.type = "CRON" => open \subseteq {0}
      BY <3>1, WithoutZone DEF RunInv, RunOwnsZones, Watering
    <3> QED BY <3>2 DEF OneWithMaster, Zones
  <2> QED BY <1>1, <2>1, <2>2 DEF DelayMoves
<1> QED BY <1>2, <1>3

\* Turning the delay off, or leaving it, with the run as it is.
LEMMA DelayRestMoves ==
    ASSUME delay24h' \in {delay24h, FALSE}, UNCHANGED <<open, cur, elapsed>>
    PROVE  DelayMoves
BY DEF DelayMoves

\* Every request opens one zone, closes everything, or acts on the delay.
LEMMA RequestMoves ==
    ASSUME GoodPins, 0 \notin RequestZones, RunInv, open \subseteq 0..N, OneWithMaster(open),
           Request
    PROVE  Moves
<1> USE ZonesAssumption
<1>0. RequestZones \subseteq Zones
  BY RequestAssumption
<1>1. CASE ZoneRequest
  <2>1. PICK type \in {"SINGLE", "CRON"}, z \in RequestZones, on \in BOOLEAN, length \in Lengths :
               ZcZone(type, z, on, length, {})
    BY <1>1 DEF ZoneRequest
  <2>2. RunMoves
    BY <1>0, <2>1, ZcZoneMoves
  <2> QED BY <1>1, <2>2 DEF ZoneRequest, Moves, delayVars
<1>2. CASE MqttZone
  <2>1. RunMoves
    BY <1>2, ZcZoneMoves DEF MqttZone
  <2> QED BY <1>2, <2>1 DEF MqttZone, Moves, delayVars
<1>3. CASE MqttMasterOff
  <2>1. RunMoves
    BY <1>3, ZcZoneMoves DEF MqttMasterOff
  <2> QED BY <1>3, <2>1 DEF MqttMasterOff, Moves, delayVars
<1>4. CASE CycleRequest
  <2>1. RunMoves
    BY <1>4, ZcZoneMoves DEF CycleRequest
  <2> QED BY <1>4, <2>1 DEF CycleRequest, Moves, delayVars
<1>5. CASE RuntimeRequest
  <2>1. open' = open /\ cur'.type = cur.type /\ delay24h' = delay24h
    BY <1>5 DEF RuntimeRequest, SetRuntime, delayVars
  <2> QED BY <2>1 DEF Moves, RunMoves
<1>6. CASE MqttMasterOn \/ RefusedRequest \/ CalendarRequest \/ LimitsRequest
  BY <1>6 DEF MqttMasterOn, RefusedRequest, CalendarRequest, LimitsRequest, Moves, RunMoves,
     delayVars, zcVars
<1>7. CASE DelayRequest \/ DelayReset \/ ChanceReport \/ TotalReport
  <2>1. ASSUME NEW left, NEW also, DelayOn(left, also) PROVE Moves
    BY <2>1, DelayOnMoves DEF Moves
  <2>2. ASSUME NEW left \in Int, NEW also, ResetDelay24hTime(left, also) PROVE Moves
    BY <2>1, <2>2 DEF ResetDelay24hTime
  <2>3. ASSUME NEW on \in BOOLEAN, NEW also, EnableDelay24h(on, also) PROVE Moves
    BY <2>1, <2>3, DelayRestMoves DEF EnableDelay24h, DelayOff, Moves, delayVars
  <2>4. CASE DelayRequest
    BY <2>3, <2>4, DelaysAssumption DEF DelayRequest
  <2>5. CASE DelayReset
    BY <2>2, <2>5, DelaysAssumption DEF DelayReset
  <2>6. CASE ChanceReport
    <3>1. PICK percent \in Chances : SetTodayChanceOfRain(percent, {})
      BY <2>6 DEF ChanceReport
    <3>2. \A also : ResetDelay24hTime(0, also) => Moves
      BY <2>2
    <3>3. \A also : EnableDelay24h(FALSE, also) => Moves
      BY <2>3
    <3>4. CASE UNCHANGED <<open, cur, elapsed, delayVars>>
      BY <3>4 DEF Moves, RunMoves, delayVars
    <3> QED BY <3>1, <3>2, <3>3, <3>4 DEF SetTodayChanceOfRain
  <2>7. CASE TotalReport
    <3>1. PICK rain \in Totals : SetTodayRainTotal(rain, {})
      BY <2>7 DEF TotalReport
    <3>2. DaysFor(rain) * Day \in Int
      BY DayAssumption DEF DaysFor
    <3> QED BY <2>2, <3>1, <3>2, DelayRestMoves DEF SetTodayRainTotal, Moves, delayVars
  <2> QED BY <1>7, <2>4, <2>5, <2>6, <2>7
<1> QED BY <1>1, <1>2, <1>3, <1>4, <1>5, <1>6, <1>7 DEF Request

\* So does every pass of the main loop.
LEMMA LoopPassMoves ==
    ASSUME GoodPins, RunInv, open \subseteq 0..N, LoopPass
    PROVE  Moves
<1>1. CASE Expired /\ ZoneDone /\ UNCHANGED delayVars
  BY <1>1, ZoneDoneMoves DEF Expired, Moves, delayVars
<1>2. CASE CheckDelay24h /\ UNCHANGED <<open, cur, elapsed>>
  <2>1. delay24h' \in {delay24h, FALSE}
    BY <1>2 DEF CheckDelay24h, DelayOff, delayVars
  <2> QED BY <1>2, <2>1, DelayRestMoves DEF Moves
<1>3. CASE UNCHANGED <<open, cur, elapsed, delayVars>>
  BY <1>3 DEF Moves, RunMoves, delayVars
<1> QED BY <1>1, <1>2, <1>3 DEF LoopPass

-----------------------------------------------------------------------------
\* What the garden sees of the pins.
LEMMA Views ==
    /\ ValveOf({}) = 0 /\ \A type : ReasonOf({}, type) = "none"
    /\ \A z \in Zones :
          /\ ValveOf({0, z}) = z
          /\ \A type : ReasonOf({0, z}, type) = IF type = "CRON" THEN "schedule" ELSE "request"
<1> USE ZonesAssumption
<1>1. 0 \notin Zones
  BY DEF Zones
<1>2. ASSUME NEW z \in Zones PROVE {0, z} \cap Zones = {z}
  BY <1>1
<1>3. ASSUME NEW z \in Zones PROVE ValveOf({0, z}) = z
  BY <1>1, <1>2 DEF ValveOf
<1> QED BY <1>2, <1>3 DEF ValveOf, ReasonOf

\* A step of the daemon that is up, seen by the garden.
LEMMA MovesImplement ==
    ASSUME Moves, OneWithMaster(open), OneWithMaster(open'), proc = "up", proc' = "up",
           delay24h \in BOOLEAN
    PROVE  [Promise!Next]_(Promise!vars)
<1>1. CASE /\ \E z \in Zones : open' = {0, z} /\ (cur'.type = "CRON" => ~delay24h)
           /\ delay24h' = delay24h
  <2>1. PICK z \in Zones : open' = {0, z} /\ (cur'.type = "CRON" => ~delay24h)
    BY <1>1
  <2>2. \E by \in {"request", "schedule"} : Promise!Open(z, by)
    BY <1>1, <2>1, Views DEF Promise!Open, Remembered
  <2> QED BY <2>2 DEF Promise!Next
<1>2. CASE open' = {} /\ delay24h' = delay24h
  <2>1. Promise!Close
    BY <1>2, Views DEF Promise!Close, Promise!Closed, Remembered
  <2> QED BY <2>1 DEF Promise!Next
<1>3. CASE open' = open /\ cur'.type = cur.type /\ delay24h' = delay24h
  BY <1>3 DEF Promise!vars, Remembered, ValveOf, ReasonOf
<1>4. CASE delay24h' \in {delay24h, FALSE} /\ open' = open /\ cur' = cur
  <2>1. delay24h' = FALSE => Promise!EndDelay
    BY <1>4 DEF Promise!EndDelay, Remembered, ValveOf, ReasonOf
  <2>2. delay24h' = delay24h => UNCHANGED Promise!vars
    BY <1>4 DEF Promise!vars, Remembered, ValveOf, ReasonOf
  <2> QED BY <1>4, <2>1, <2>2 DEF Promise!Next
<1>5. CASE delay24h' = TRUE /\ open' = open /\ cur' = cur /\ (cur.type # "CRON" \/ open = {})
  <2>1. ReasonOf(open, cur.type) # "schedule"
    BY <1>5, Views DEF OneWithMaster
  <2>2. Promise!BeginDelay
    BY <1>5, <2>1 DEF Promise!BeginDelay, Remembered, ValveOf, ReasonOf
  <2> QED BY <2>2 DEF Promise!Next
<1>6. CASE delay24h' = TRUE /\ open' = {} /\ (cur.type = "CRON" \/ open = {})
  <2>1. Promise!Closed
    BY <1>6, Views DEF Promise!Closed
  <2>2. ReasonOf(open, cur.type) # "schedule" => open = {}
    BY <1>6, Views DEF OneWithMaster
  <2>3. Promise!BeginDelay
    BY <1>6, <2>1, <2>2, Views DEF Promise!BeginDelay, Promise!Closed, Remembered
  <2> QED BY <2>3 DEF Promise!Next
<1> QED BY <1>1, <1>2, <1>3, <1>4, <1>5, <1>6 DEF Moves, RunMoves, DelayMoves

-----------------------------------------------------------------------------
\* What the refinement rests on: the inductive invariant, with the delay in the cache
\* file, and pins that are one zone with the master or nothing.
RefInv == Inv /\ OneWithMaster(open)

\* The initial states are initial states of Garden.
LEMMA InitImplements ==
    ASSUME Init
    PROVE  RefInv /\ Promise!Init
<1>1. Inv
  BY InitHolds
<1>2. open = {} /\ OneWithMaster(open)
  BY DEF Init, OneWithMaster
<1>3. Promise!Init
  BY <1>2, Views DEF Init, Promise!Init, Remembered
<1> QED BY <1>1, <1>2, <1>3 DEF RefInv

\* Moves keeps the pins in one of the two forms.
LEMMA MovesKeep ==
    ASSUME Moves, OneWithMaster(open)
    PROVE  OneWithMaster(open')
BY DEF Moves, RunMoves, DelayMoves, OneWithMaster

\* Every step of the daemon is a step of Garden, or none.
LEMMA NextImplements ==
    ASSUME GoodPins, 0 \notin RequestZones, ~Interrupts, RefInv, [Next]_vars
    PROVE  OneWithMaster(open') /\ [Promise!Next]_(Promise!vars)
<1> USE ZonesAssumption
<1>1. /\ delay24h \in BOOLEAN /\ open \subseteq 0..N /\ OneWithMaster(open)
      /\ proc = "up" => RunInv /\ Saved
      /\ MasterPin = {0} /\ cache \in CacheFile
  BY PinsAssumption DEF RefInv, Inv, TypeOK, ZcTypeOK, RainTypeOK, GoodPins, MasterPin
<1>2. CASE Request \/ LoopPass
  <2>1. proc = "up" /\ proc' = "up"
    BY <1>2 DEF Request, LoopPass
  <2>2. Moves
    BY <1>1, <1>2, <2>1, RequestMoves, LoopPassMoves
  <2>3. OneWithMaster(open')
    BY <1>1, <2>2, MovesKeep
  <2> QED BY <1>1, <2>1, <2>2, <2>3, MovesImplement
<1>3. CASE MqttUp \/ MqttDown \/ Tick \/ UNCHANGED vars
  <2>1. UNCHANGED <<open, cur, delay24h, proc>> /\ cache'.delay24h = cache.delay24h
    BY <1>1, <1>3 DEF MqttUp, MqttDown, Tick, vars, delayVars, zcVars, CacheFile
  <2>2. UNCHANGED Promise!vars
    BY <2>1 DEF Promise!vars, ValveOf, ReasonOf, Remembered
  <2> QED BY <1>1, <2>1, <2>2
<1>4. CASE Stop
  <2>1. open' = {} /\ proc = "up" /\ proc' = "stopped" /\ cache'.delay24h = delay24h
    BY <1>1, <1>4 DEF Stop, IntHandler, WriteCache, Zones
  <2>2. Promise!Die
    BY <2>1, Views DEF Promise!Die, Promise!Closed, Remembered
  <2> QED BY <2>1, <2>2 DEF Promise!Next, OneWithMaster
<1>5. CASE StopInDelayHandler
  BY <1>5 DEF StopInDelayHandler
<1>6. CASE Crash
  <2>1. /\ open' \in {open, {}} /\ cur' = cur /\ proc = "up" /\ proc' = "killed"
        /\ cache'.delay24h = delay24h
    BY <1>1, <1>6 DEF Crash, delayVars, Saved
  <2>2. open' = open => Promise!Die
    BY <2>1 DEF Promise!Die, Remembered, ValveOf, ReasonOf
  <2>3. open' = {} => Promise!Die
    BY <2>1, Views DEF Promise!Die, Promise!Closed, Remembered
  <2> QED BY <1>1, <2>1, <2>2, <2>3 DEF Promise!Next, OneWithMaster
<1>7. CASE Restart
  <2>1. open' = {} /\ proc # "up" /\ proc' = "up" /\ delay24h' = cache.delay24h
    BY <1>1, <1>7 DEF Restart, Zones
  <2>2. Promise!Revive
    BY <2>1, Views DEF Promise!Revive, Promise!Closed, Remembered
  <2> QED BY <2>1, <2>2 DEF Promise!Next, OneWithMaster
<1> QED BY <1>2, <1>3, <1>4, <1>5, <1>6, <1>7 DEF Next

\* The daemon implements Garden when its pins are good, no request names the master
\* as a zone and no signal falls inside a delay handler: no interleaving of requests,
\* passes, kills and restarts waters two zones, or under a delay by schedule, or
\* forgets the delay.
THEOREM ImplementsGardenHolds ==
    ASSUME GoodPins, 0 \notin RequestZones, ~Interrupts
    PROVE  Spec => ImplementsGarden
<1>1. Init => RefInv /\ Promise!Init
  BY InitImplements
<1>2. RefInv /\ [Next]_vars => RefInv' /\ [Promise!Next]_(Promise!vars)
  BY NextImplements, NextKeeps DEF RefInv
<1> QED BY <1>1, <1>2, PTL DEF Spec, ImplementsGarden, Promise!Spec
=============================================================================
