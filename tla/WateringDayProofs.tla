------------------------- MODULE WateringDayProofs -------------------------
(***************************************************************************)
(* Every zone waters as long as the calendar shows, for any number of zones *)
(* and any other requests, stops and starts during the day.                 *)
(***************************************************************************)
EXTENDS WateringDay, ScheduleProofs

Plan == crontab[today].runs

\* cron has sent the line, and the daemon has handled it or was down.
Sent(l) == MinuteOfDay(l) <= minute /\ l \notin due

Runs(z) == ScheduledRun /\ cur.zone = z

\* Since its line came the zone has watered all the time, or its time is up.
IsRunning(l) ==
    /\ Runs(l.zone) /\ cur.duration = l.runtime
    /\ elapsed = minute - MinuteOfDay(l) /\ elapsed <= l.runtime
    /\ watered[l.zone] = elapsed

HasRun(l) == ~Runs(l.zone) /\ watered[l.zone] = l.runtime

\* A zone waters for its line only, from the minute of the line on.  cron sends each line
\* of a whole crontab.
OnTime(z) ==
    /\ (\A l \in Plan : l.zone = z => ~Sent(l)) => watered[z] = 0
    /\ \A l \in Plan : l.zone = z /\ Sent(l) => IsRunning(l) \/ HasRun(l)

\* A scheduled run is one of a line that was sent.
RunHasLine == cur.type = "CRON" => \E l \in Plan : l.zone = cur.zone /\ Sent(l)

ByDayInv ==
    /\ minute \in Nat /\ pending = NoUpdate /\ ~lost
    /\ due \subseteq LinesAt(minute)
    /\ proc = "down" => cur.type = "NONE"
    /\ RunHasLine
    /\ whole => \A z \in Zones \ spoiled : OnTime(z)

ByNightInv == cur.type = "NONE" /\ watered = NoWater /\ due = {}

RunTypeOK == cur \in [type : Ctrl!RunTypes, zone : -1..N, duration : Int]

DayInv ==
    /\ today \in Days /\ watered \in [Zones -> Nat]
    /\ RunTypeOK /\ runtime \in [0..N -> Int]
    /\ minute = Night => ByNightInv
    /\ minute # Night => ByDayInv

-----------------------------------------------------------------------------
(***************************************************************************)
(* The calendar in minutes of the day.                                      *)
(***************************************************************************)
\* The recursion of BeginOf has a solution: a zone begins when the one before it is done.
LEMMA BeginIs ==
    ASSUME NEW c \in Calendars, Scheduled(c)
    PROVE  /\ BeginOf(c)[1] = MinuteOfDay(c)
           /\ \A z \in Zones : z + 1 \in Zones => BeginOf(c)[z + 1] = BeginOf(c)[z] + Length(c, z)
           /\ \A z \in Zones : BeginOf(c)[z] \in Int /\ Length(c, z) \in Nat
<1> DEFINE step == [p \in Zones \X Int |-> p[2] + Length(c, p[1])]
           first == MinuteOfDay(c)
<1>1. first \in Int /\ \A z \in Zones : Length(c, z) \in Nat
  BY DEF Calendars, MinuteOfDay, Length
<1>2. step \in [Zones \X Int -> Int]
  BY <1>1
<1>3. PICK f \in [Zones -> Int] : Goes(f, first, step)
  <2> HIDE DEF first, step
  <2> QED BY <1>1, <1>2, ZoneRecursion
<1> HIDE DEF first
<1>4. ASSUME NEW z \in Zones, z # 1
      PROVE  step[<<z - 1, f[z - 1]>>] = f[z - 1] + Length(c, z - 1)
  <2>1. z - 1 \in Zones /\ f[z - 1] \in Int
    BY <1>4, ScheduleAssumption DEF Zones
  <2>2. <<z - 1, f[z - 1]>> \in Zones \X Int
    BY <2>1
  <2> QED BY <2>2
<1> HIDE DEF step
<1>5. f = [z \in Zones |-> IF z = 1 THEN first ELSE f[z - 1] + Length(c, z - 1)]
  <2>1. \A z \in Zones : f[z] = IF z = 1 THEN first ELSE step[<<z - 1, f[z - 1]>>]
    BY <1>3 DEF Goes
  <2>2. \A z \in Zones : f[z] = IF z = 1 THEN first ELSE f[z - 1] + Length(c, z - 1)
    BY <1>4, <2>1
  <2> QED BY <1>3, <2>2
<1> DEFINE g == CHOOSE at : at = [z \in Zones |-> IF z = 1 THEN first ELSE at[z - 1] + Length(c, z - 1)]
<1>6. g = [z \in Zones |-> IF z = 1 THEN first ELSE g[z - 1] + Length(c, z - 1)]
  BY <1>5
<1>7. BeginOf(c) = g
  BY DEF BeginOf, first
<1> HIDE DEF g
<1>8. 1 \in Zones /\ g[1] = first
  BY <1>6, ScheduleAssumption DEF Zones
<1>9. ASSUME NEW z \in Zones, z + 1 \in Zones PROVE g[z + 1] = g[z] + Length(c, z)
  <2>1. z + 1 # 1 /\ (z + 1) - 1 = z
    BY DEF Zones
  <2> QED BY <1>6, <1>9, <2>1
<1>10. Zones \subseteq {z \in Zones : g[z] \in Int}
  <2>1. ASSUME NEW z \in Zones, g[z] \in Int, z + 1 \in Zones PROVE g[z + 1] \in Int
    BY <1>1, <1>9, <2>1
  <2> QED BY <1>1, <1>8, <2>1, ZoneInduction
<1> QED BY <1>1, <1>7, <1>8, <1>9, <1>10 DEF first

\* What write_cron works out with hours and minutes, and its stop at midnight.
LEMMA BeginIsStart ==
    ASSUME NEW c \in Calendars, Scheduled(c), NEW z \in Zones
    PROVE  /\ StartOf(c)[z].hour < 24 => BeginOf(c)[z] = MinuteOfDay(StartOf(c)[z])
           /\ StartOf(c)[z].hour >= 24 => BeginOf(c)[z] >= 24 * 60
<1> DEFINE s == StartOf(c)
           b == BeginOf(c)
           S == {y \in Zones : /\ s[y].hour < 24 => b[y] = MinuteOfDay(s[y])
                               /\ s[y].hour >= 24 => b[y] >= 24 * 60}
<1>1. \A y \in Zones : s[y] \in ClockTimes /\ b[y] \in Int /\ Length(c, y) \in Nat
  BY StartSteps, BeginIs
<1>2. 1 \in S
  <2>1. s[1] = [hour |-> c.hour, minute |-> c.minute] /\ b[1] = MinuteOfDay(c) /\ 1 \in Zones
    BY StartSteps, BeginIs, ScheduleAssumption DEF Zones
  <2>2. c.hour \in -1..23
    BY DEF Calendars
  <2> HIDE DEF s, b
  <2> QED BY <2>1, <2>2 DEF MinuteOfDay
<1>3. ASSUME NEW y \in Zones, y \in S, y + 1 \in Zones PROVE y + 1 \in S
  <2> DEFINE r == c.zruntimes[y]
  <2>1. s[y + 1] = Following(c, y, s[y]) /\ b[y + 1] = b[y] + Length(c, y)
    BY <1>3, StartSteps, BeginIs
  <2>2. r \in Int /\ Length(c, y) = (IF r > 0 THEN r ELSE 0)
    BY DEF Calendars, Length
  <2>3. s[y].hour \in Nat /\ s[y].minute \in Nat /\ s[y] \in ClockTimes /\ s[y + 1] \in ClockTimes
        /\ s[y + 1].hour \in Nat /\ s[y + 1].minute \in Nat
    BY <1>1, <1>3 DEF ClockTimes
  <2>4. /\ s[y].hour < 24 => b[y] = MinuteOfDay(s[y])
        /\ s[y].hour >= 24 => b[y] >= 24 * 60
    BY <1>3
  <2>5. CASE r > 0 /\ s[y].hour < 24
    <3>1. s[y + 1] = After(s[y], r)
      BY <2>1, <2>5 DEF Following
    <3>2. MinuteOfDay(s[y + 1]) = MinuteOfDay(s[y]) + r
      BY <2>2, <2>3, <3>1, AfterAdds
    <3>3. b[y + 1] = MinuteOfDay(s[y + 1])
      BY <2>1, <2>2, <2>4, <2>5, <3>2
    <3>4. s[y + 1].hour >= 24 => MinuteOfDay(s[y + 1]) >= 24 * 60
      <4> HIDE DEF s
      <4> QED BY <2>3 DEF MinuteOfDay
    <3> QED BY <1>3, <3>3, <3>4
  <2>6. CASE ~(r > 0 /\ s[y].hour < 24)
    <3>1. s[y + 1] = s[y]
      BY <2>1, <2>6 DEF Following
    <3>2. b[y] \in Int /\ (s[y].hour < 24 => b[y + 1] = b[y]) /\ b[y + 1] >= b[y]
      BY <1>1, <2>1, <2>2, <2>3, <2>6
    <3> HIDE DEF s, b, r
    <3>3. /\ s[y + 1].hour < 24 => b[y + 1] = MinuteOfDay(s[y + 1])
          /\ s[y + 1].hour >= 24 => b[y + 1] >= 24 * 60
      <4>1. s[y + 1].hour < 24 => b[y + 1] = MinuteOfDay(s[y + 1])
        BY <2>4, <3>1, <3>2
      <4>2. b[y + 1] \in Int
        BY <1>1, <1>3
      <4>3. s[y + 1].hour >= 24 => b[y] >= 24 * 60
        BY <2>4, <3>1
      <4> QED BY <3>2, <4>1, <4>2, <4>3
    <3> QED BY <1>3, <3>3
  <2> QED BY <2>5, <2>6
<1>4. Zones \subseteq S
  <2> HIDE DEF S
  <2> QED BY <1>2, <1>3, ZoneInduction
<1> QED BY <1>4

\* The zones behind a zone begin when it is done, or later.
LEMMA BeginGrows ==
    ASSUME NEW c \in Calendars, Scheduled(c), NEW k \in Zones, NEW z \in Zones, k < z
    PROVE  BeginOf(c)[z] >= BeginOf(c)[k] + Length(c, k)
<1> DEFINE b == BeginOf(c)
           S == {y \in Zones : k < y => b[y] >= b[k] + Length(c, k)}
<1>1. /\ \A y \in Zones : y + 1 \in Zones => b[y + 1] = b[y] + Length(c, y)
      /\ \A y \in Zones : b[y] \in Int /\ Length(c, y) \in Nat /\ y \in Nat /\ y >= 1
  BY BeginIs DEF Zones
<1> HIDE DEF b
<1>2. 1 \in S
  BY <1>1, ScheduleAssumption DEF Zones
<1>3. ASSUME NEW y \in Zones, y \in S, y + 1 \in Zones PROVE y + 1 \in S
  <2>1. k < y + 1 => k < y \/ k = y
    BY <1>1
  <2>2. b[y + 1] = b[y] + Length(c, y) /\ b[y] \in Int /\ b[k] \in Int
        /\ Length(c, y) \in Nat /\ Length(c, k) \in Nat
    BY <1>1, <1>3
  <2>3. k < y => b[y] >= b[k] + Length(c, k)
    BY <1>3
  <2>4. k < y + 1 => b[y + 1] >= b[k] + Length(c, k)
    BY <2>1, <2>2, <2>3
  <2> QED BY <1>3, <2>4
<1>4. Zones \subseteq S
  <2> HIDE DEF S
  <2> QED BY <1>2, <1>3, ZoneInduction
<1> QED BY <1>4 DEF b

\* The lines of a day: one for each zone at most, each over before the next begins.
Orderly(lines) ==
    /\ \A l \in lines : /\ l.zone \in Zones /\ l.runtime \in Nat /\ l.runtime > 0
                        /\ MinuteOfDay(l) \in Nat /\ MinuteOfDay(l) < 24 * 60
    /\ \A k, l \in lines : /\ k.zone = l.zone => k = l
                           /\ k.zone < l.zone => MinuteOfDay(l) >= MinuteOfDay(k) + k.runtime

LEMMA LineBegins ==
    ASSUME NEW c \in Calendars, Short(c, 60), NEW l \in RunLines(c)
    PROVE  /\ Scheduled(c) /\ l.zone \in Zones /\ l = LineOf(c, l.zone)
           /\ l.runtime = c.zruntimes[l.zone] /\ l.runtime \in Nat /\ l.runtime > 0
           /\ l.runtime = Length(c, l.zone) /\ MinuteOfDay(l) = BeginOf(c)[l.zone]
           /\ MinuteOfDay(l) \in Nat /\ MinuteOfDay(l) < 24 * 60
<1> DEFINE z == l.zone
           t == StartOf(c)[z]
<1>1. z \in Zones /\ HasLine(c, z) /\ l = LineOf(c, z)
  BY RunLinesAre
<1>2. Scheduled(c) /\ c.zruntimes[z] > 0 /\ t.hour < 24
  BY <1>1 DEF HasLine
<1>3. t \in ClockTimes /\ t.minute \in 0..59 /\ BeginOf(c)[z] = MinuteOfDay(t)
  BY <1>1, <1>2, StartSteps, MinutesBound, BeginIsStart
<1>4. l.runtime = c.zruntimes[z] /\ l.hour = t.hour /\ l.minute = t.minute
  BY <1>1 DEF LineOf
<1>5. c.zruntimes[z] \in Int
  BY <1>1 DEF Calendars
<1>6. t.hour \in Nat
  BY <1>3 DEF ClockTimes
<1> HIDE DEF t
<1>7. MinuteOfDay(l) = MinuteOfDay(t) /\ MinuteOfDay(t) \in Nat /\ MinuteOfDay(t) < 24 * 60
  BY <1>2, <1>3, <1>4, <1>6 DEF MinuteOfDay
<1>8. l.runtime = Length(c, z)
  BY <1>2, <1>4 DEF Length
<1> QED BY <1>1, <1>2, <1>3, <1>4, <1>5, <1>7, <1>8

LEMMA LinesAreOrderly ==
    ASSUME NEW c \in Calendars, Short(c, 60), NEW y
    PROVE  Orderly(FirstLines(c, y))
<1>1. FirstLines(c, y) \subseteq RunLines(c)
  BY DEF FirstLines
<1>2. ASSUME NEW k \in RunLines(c), NEW l \in RunLines(c), k.zone < l.zone
      PROVE  MinuteOfDay(l) >= MinuteOfDay(k) + k.runtime
  <2>1. /\ Scheduled(c) /\ k.zone \in Zones /\ l.zone \in Zones
        /\ k.runtime = Length(c, k.zone)
        /\ MinuteOfDay(k) = BeginOf(c)[k.zone] /\ MinuteOfDay(l) = BeginOf(c)[l.zone]
    BY LineBegins
  <2> QED BY <1>2, <2>1, BeginGrows
<1>3. ASSUME NEW k \in RunLines(c), NEW l \in RunLines(c), k.zone = l.zone PROVE k = l
  BY <1>3, LineBegins
<1> QED BY <1>1, <1>2, <1>3, LineBegins DEF Orderly

\* In every state the plan of the day is orderly.
LEMMA PlanIsOrderly ==
    ASSUME Inv(60), today \in Days
    PROVE  Orderly(Plan)
<1>1. PICK c \in Cals(60), y \in 0..N : Plan = FirstLines(c, y)
  BY DEF Inv, Written, Plan
<1> QED BY <1>1, LinesAreOrderly DEF Cals

\* What the calendar shows is what its lines water.
LEMMA PlannedIs ==
    ASSUME Inv(60), today \in Days, Clean, whole, NEW z \in Zones
    PROVE  \/ \E l \in Plan : l.zone = z /\ Planned(z) = l.runtime
           \/ (\A l \in Plan : l.zone # z) /\ Planned(z) = 0
<1> DEFINE c == cron[today]
<1>1. c \in Calendars /\ Short(c, 60) /\ Plan = RunLines(c)
  <2>1. cron \in [Days -> Cals(60)] /\ (60 <= 99 => Plan = RunLines(c))
    BY DEF Inv, Plan, Taken
  <2>2. c \in Cals(60) /\ 60 <= 99
    BY <2>1
  <2> QED BY <2>1, <2>2 DEF Cals
<1> HIDE DEF c
<1>2. Planned(z) = IF Scheduled(c) /\ BeginOf(c)[z] < 24 * 60 THEN Length(c, z) ELSE 0
  BY DEF Planned, c
<1>3. CASE HasLine(c, z)
  <2>1. LineOf(c, z).zone = z
    BY DEF LineOf
  <2>2. LineOf(c, z) \in RunLines(c)
    BY <1>3, <2>1, RunLinesAre
  <2>3. LineOf(c, z).runtime = Planned(z)
    BY <1>1, <1>2, <2>1, <2>2, LineBegins
  <2> QED BY <1>1, <2>1, <2>2, <2>3
<1>4. CASE ~HasLine(c, z)
  <2>1. \A l \in Plan : l.zone # z
    BY <1>1, <1>4, RunLinesAre
  <2>2. ASSUME Scheduled(c), c.zruntimes[z] > 0 PROVE ~(BeginOf(c)[z] < 24 * 60)
    <3>1. ~(StartOf(c)[z].hour < 24) /\ StartOf(c)[z].hour \in Nat
      BY <1>1, <1>4, <2>2, StartSteps DEF HasLine, ClockTimes
    <3>2. BeginOf(c)[z] >= 24 * 60 /\ BeginOf(c)[z] \in Int
      <4>1. StartOf(c)[z].hour >= 24
        BY <3>1
      <4> QED BY <1>1, <2>2, <4>1, BeginIsStart, BeginIs
    <3> QED BY <3>2
  <2>3. Planned(z) = 0
    BY <1>2, <2>2 DEF Length
  <2> QED BY <2>1, <2>3
<1> QED BY <1>3, <1>4

-----------------------------------------------------------------------------
(***************************************************************************)
(* The zone controller, as far as a scheduled run goes.                     *)
(***************************************************************************)
\* The runs that a handler leaves or makes are typed.
LEMMA StartNextZoneTypes ==
    ASSUME RunTypeOK, runtime \in [0..N -> Int], NEW k, NEW left, Ctrl!StartNextZone(k, left)
    PROVE  RunTypeOK' /\ cur'.type \in {"ALL", "NONE"}
<1>1. ASSUME NEW z \in Ctrl!Runnable(k, left),
             cur' = [type |-> "ALL", zone |-> z, duration |-> runtime[z]]
      PROVE  RunTypeOK' /\ cur'.type \in {"ALL", "NONE"}
  <2>1. z \in -1..N /\ runtime[z] \in Int
    BY ScheduleAssumption DEF Ctrl!Runnable, Ctrl!Zones
  <2> QED BY <1>1, <2>1 DEF RunTypeOK, Ctrl!RunTypes
<1>2. ASSUME Ctrl!NoRun PROVE RunTypeOK' /\ cur'.type \in {"ALL", "NONE"}
  BY <1>2, ScheduleAssumption DEF RunTypeOK, Ctrl!NoRun, Ctrl!RunTypes
<1> QED BY <1>1, <1>2 DEF Ctrl!StartNextZone

LEMMA ZoneDoneTypes ==
    ASSUME RunTypeOK, runtime \in [0..N -> Int], Ctrl!ZoneDone
    PROVE  RunTypeOK' /\ cur'.type \in {"ALL", "NONE"}
<1>1. ASSUME Ctrl!NoRun PROVE RunTypeOK' /\ cur'.type \in {"ALL", "NONE"}
  BY <1>1, ScheduleAssumption DEF RunTypeOK, Ctrl!NoRun, Ctrl!RunTypes
<1> QED BY <1>1, StartNextZoneTypes DEF Ctrl!ZoneDone

\* No other request begins a scheduled run, or goes on with one without its time.
LeavesRun ==
    cur'.type = "CRON" =>
        /\ cur.type = "CRON" /\ cur'.zone = cur.zone
        /\ open' \subseteq open /\ elapsed' = elapsed

LEMMA OtherZcZone ==
    ASSUME RunTypeOK, runtime \in [0..N -> Int], NEW type \in {"SINGLE", "ALL"}, NEW z \in 0..N,
           NEW on \in BOOLEAN, NEW length \in Int, NEW also, Ctrl!ZcZone(type, z, on, length, also)
    PROVE  RunTypeOK' /\ LeavesRun
<1>1. CASE UNCHANGED <<open, cur, elapsed>>
  BY <1>1 DEF RunTypeOK, LeavesRun
<1>2. CASE Ctrl!CycleAll(on, also)
  <2>1. ASSUME cur' = [cur EXCEPT !.type = "NONE"] PROVE RunTypeOK' /\ LeavesRun
    BY <2>1 DEF RunTypeOK, LeavesRun, Ctrl!RunTypes
  <2> QED BY <1>2, <2>1, StartNextZoneTypes DEF Ctrl!CycleAll, LeavesRun
<1>3. CASE type = "SINGLE" /\ Ctrl!SwitchOn(type, z, length, also)
  <2>1. ASSUME cur' = [type |-> type, zone |-> z, duration |-> Ctrl!RunLength(z, length)]
        PROVE  RunTypeOK' /\ LeavesRun
    <3>1. Ctrl!RunLength(z, length) \in Int /\ z \in -1..N
      BY ScheduleAssumption DEF Ctrl!RunLength
    <3> QED BY <1>3, <2>1, <3>1 DEF RunTypeOK, LeavesRun, Ctrl!RunTypes
  <2>2. ASSUME open' = open \ Ctrl!Zones, UNCHANGED <<cur, elapsed>> PROVE RunTypeOK' /\ LeavesRun
    BY <2>2 DEF RunTypeOK, LeavesRun
  <2> QED BY <1>3, <2>1, <2>2 DEF Ctrl!SwitchOn
<1>4. CASE Ctrl!SwitchOff(z, also)
  <2>1. ASSUME Ctrl!NoRun PROVE RunTypeOK' /\ LeavesRun
    BY <2>1, ScheduleAssumption DEF RunTypeOK, LeavesRun, Ctrl!NoRun, Ctrl!RunTypes
  <2> QED BY <1>4, <2>1, ZoneDoneTypes DEF Ctrl!SwitchOff, LeavesRun
<1> QED BY <1>1, <1>2, <1>3, <1>4 DEF Ctrl!ZcZone

\* The request of a line begins its run, or does nothing: it is refused when the zone is
\* on, in a delay and with the calendar off.
LEMMA CronZcZone ==
    ASSUME Zones \subseteq ValidPin, NEW z \in Zones, NEW length \in Nat, length > 0,
           Ctrl!ZcZone("CRON", z, TRUE, length, {})
    PROVE  \/ /\ UNCHANGED <<open, cur, elapsed>>
              /\ z \in open \/ delay24h \/ ~calendar
           \/ /\ z \in open' /\ elapsed' = 0
              /\ cur' = [type |-> "CRON", zone |-> z, duration |-> length]
<1>1. Ctrl!Zones = Zones /\ Ctrl!RunLength(z, length) = length
  BY DEF Ctrl!Zones, Zones, Ctrl!RunLength
<1>2. CASE Ctrl!Ignored("CRON", z, TRUE, length)
  <2>1. UNCHANGED <<open, cur, elapsed>>
    BY <1>2 DEF Ctrl!ZcZone
  <2>2. z \in open \/ delay24h \/ ~calendar
    BY <1>1, <1>2 DEF Ctrl!Ignored, Ctrl!Duplicate, Ctrl!NotScheduled
  <2> QED BY <2>1, <2>2
<1>3. CASE ~Ctrl!Ignored("CRON", z, TRUE, length)
  <2>1. Ctrl!SwitchOn("CRON", z, length, {})
    BY <1>3 DEF Ctrl!ZcZone
  <2>2. z \in ValidPin /\ z \notin open \ Ctrl!Zones
    BY <1>1
  <2> QED BY <1>1, <2>1, <2>2 DEF Ctrl!SwitchOn
<1> QED BY <1>2, <1>3

-----------------------------------------------------------------------------
(***************************************************************************)
(* The steps of a day.                                                      *)
(***************************************************************************)
LEMMA AsPrimed ==
    /\ \A l : Sent(l)' <=> MinuteOfDay(l) <= minute' /\ l \notin due'
    /\ \A z : Runs(z)' <=> cur'.type = "CRON" /\ cur'.zone \in open' /\ cur'.zone = z
    /\ \A l : IsRunning(l)' <=> /\ Runs(l.zone)' /\ cur'.duration = l.runtime
                                /\ elapsed' = minute' - MinuteOfDay(l) /\ elapsed' <= l.runtime
                                /\ watered'[l.zone] = elapsed'
    /\ \A l : HasRun(l)' <=> ~Runs(l.zone)' /\ watered'[l.zone] = l.runtime
    /\ \A m : LinesAt(m)' = {l \in Plan' : MinuteOfDay(l) = m}
BY DEF Sent, Runs, ScheduledRun, IsRunning, HasRun, MinuteOfDay, LinesAt, Plan

\* A zone stays on time when its run goes on, or ends with its time up.
LEMMA StaysOnTime ==
    ASSUME UNCHANGED <<crontab, today, minute, watered>>, NEW z, OnTime(z),
           \A l \in Plan : l.zone = z => (Sent(l)' <=> Sent(l)),
           Runs(z)' => Runs(z) /\ cur' = cur /\ elapsed' = elapsed,
           Runs(z) /\ ~Runs(z)' =>
               \A l \in Plan : l.zone = z /\ IsRunning(l) => watered[z] = l.runtime
    PROVE  OnTime(z)'
<1>1. Plan' = Plan
  BY DEF Plan
<1>2. (\A l \in Plan : l.zone = z => ~Sent(l)') => watered'[z] = 0
  BY DEF OnTime
<1>3. ASSUME NEW l \in Plan, l.zone = z, Sent(l)' PROVE IsRunning(l)' \/ HasRun(l)'
  <2>1. IsRunning(l) \/ HasRun(l)
    BY <1>3 DEF OnTime
  <2>2. CASE IsRunning(l) /\ Runs(z)'
    BY <1>3, <2>2, AsPrimed DEF IsRunning
  <2>3. CASE IsRunning(l) /\ ~Runs(z)'
    <3>1. watered[z] = l.runtime
      BY <1>3, <2>3 DEF IsRunning
    <3> QED BY <1>3, <2>3, <3>1, AsPrimed
  <2>4. CASE HasRun(l)
    BY <1>3, <2>4, AsPrimed DEF HasRun
  <2> QED BY <2>1, <2>2, <2>3, <2>4
<1> QED BY <1>1, <1>2, <1>3 DEF OnTime

LEMMA RunKeepsLine ==
    ASSUME RunHasLine, UNCHANGED <<crontab, today>>,
           cur'.type = "CRON" => cur.type = "CRON" /\ cur'.zone = cur.zone,
           \A l \in Plan : Sent(l) => Sent(l)'
    PROVE  RunHasLine'
<1>1. Plan' = Plan
  BY DEF Plan
<1> QED BY <1>1 DEF RunHasLine

\* What disturbs a day leaves the other zones alone: a run that it changes is spoiled.
LEMMA TroubleKeeps ==
    ASSUME DayInv, minute # Night, Trouble, LeavesRun, RunTypeOK', runtime' \in [0..N -> Int],
           UNCHANGED <<pending, lost, crontab, whole>>, proc' = "down" => cur'.type = "NONE"
    PROVE  DayInv'
<1>1. /\ UNCHANGED <<today, minute, due, watered>>
      /\ ByDayInv /\ Spoils
  BY DEF Trouble, DayInv
<1>2. \A l : Sent(l)' <=> Sent(l)
  BY <1>1, AsPrimed DEF Sent
<1>3. ASSUME whole, NEW z \in Zones \ spoiled' PROVE OnTime(z)'
  <2>1. z \in Zones \ spoiled /\ OnTime(z)
    BY <1>1, <1>3 DEF Spoils, ByDayInv
  <2>2. Runs(z) => cur' = cur /\ open' = open
    BY <1>1, <1>3 DEF Spoils, Runs
  <2>3. Runs(z)' => Runs(z) /\ cur' = cur /\ elapsed' = elapsed
    BY <2>2, AsPrimed DEF LeavesRun, Runs, ScheduledRun
  <2>4. Runs(z) => Runs(z)'
    BY <2>2, AsPrimed DEF Runs, ScheduledRun
  <2> QED BY <1>1, <1>2, <2>1, <2>3, <2>4, StaysOnTime
<1>4. RunHasLine'
  BY <1>1, <1>2, RunKeepsLine DEF ByDayInv, LeavesRun
<1>5. (due \subseteq LinesAt(minute))'
  BY <1>1 DEF ByDayInv, LinesAt
<1>6. ByDayInv'
  BY <1>1, <1>3, <1>4, <1>5 DEF ByDayInv
<1>7. today' \in Days /\ watered' \in [Zones -> Nat] /\ minute' # Night
  BY <1>1 DEF DayInv
<1> QED BY <1>6, <1>7 DEF DayInv, Night

LEMMA OtherRequestKeeps ==
    ASSUME DayInv, minute # Night, OtherRequest
    PROVE  DayInv'
<1> DEFINE Goal == RunTypeOK' /\ LeavesRun /\ runtime' \in [0..N -> Int]
<1>1. RunTypeOK /\ runtime \in [0..N -> Int]
  BY DEF DayInv
<1>2. ASSUME NEW type \in {"SINGLE", "ALL"}, NEW z \in 0..N, NEW on \in BOOLEAN, NEW length \in Int,
             NEW also, Ctrl!ZcZone(type, z, on, length, also), UNCHANGED runtime
      PROVE  Goal
  BY <1>1, <1>2, OtherZcZone
<1>3. \A z \in Zones : z \in 0..N
  BY ScheduleAssumption DEF Zones
<1>4. ASSUME NEW z \in Zones, NEW t \in Runtimes, Ctrl!SetRuntime(z, t, {}) PROVE Goal
  <2>1. t \in Int /\ runtime' = [runtime EXCEPT ![z] = t] /\ UNCHANGED <<open, elapsed>>
    BY <1>4, ScheduleAssumption DEF Ctrl!SetRuntime
  <2>2. cur' = cur \/ cur' = [cur EXCEPT !.duration = t]
    BY <1>4 DEF Ctrl!SetRuntime
  <2>3. RunTypeOK' /\ cur'.type = cur.type /\ cur'.zone = cur.zone
    BY <1>1, <2>1, <2>2 DEF RunTypeOK
  <2> QED BY <1>1, <1>3, <2>1, <2>3 DEF LeavesRun
<1>5. ASSUME UNCHANGED <<open, cur, elapsed, runtime>> PROVE Goal
  BY <1>1, <1>5 DEF RunTypeOK, LeavesRun
<1>6. ASSUME Ctrl!ZcRainDelayEnabled({"status"}), UNCHANGED runtime PROVE Goal
  <2>1. CASE cur.type = "CRON" /\ cur.zone > 0 /\ Ctrl!ZcZone("SINGLE", cur.zone, FALSE, 0, {"status"})
    <3>1. UNCHANGED <<open, cur, elapsed>> \/ Ctrl!NoRun
      BY <2>1 DEF Ctrl!ZcZone, Ctrl!SwitchOff
    <3>2. ASSUME Ctrl!NoRun PROVE RunTypeOK' /\ LeavesRun
      BY <1>1, <3>2, ScheduleAssumption DEF Ctrl!NoRun, RunTypeOK, LeavesRun, Ctrl!RunTypes
    <3> QED BY <1>1, <1>5, <1>6, <3>1, <3>2
  <2>2. CASE UNCHANGED <<open, cur, elapsed>>
    BY <1>5, <1>6, <2>2
  <2> QED BY <1>6, <2>1, <2>2 DEF Ctrl!ZcRainDelayEnabled
<1>7. Goal
  <2>1. CASE /\ \E on \in BOOLEAN :
                   \/ \E z \in Zones, len \in Lengths : Ctrl!ZcZone("SINGLE", z, on, len, {})
                   \/ Ctrl!ZcZone("ALL", 0, on, 0, {})
             /\ UNCHANGED settings
    <3>1. UNCHANGED runtime /\ 0 \in 0..N /\ \A len \in Lengths : len \in Int
      BY <2>1, ScheduleAssumption, DayAssumption DEF settings
    <3>2. PICK on \in BOOLEAN : \/ \E z \in Zones, len \in Lengths : Ctrl!ZcZone("SINGLE", z, on, len, {})
                                \/ Ctrl!ZcZone("ALL", 0, on, 0, {})
      BY <2>1
    <3>3. ASSUME NEW z \in Zones, NEW len \in Lengths, Ctrl!ZcZone("SINGLE", z, on, len, {}) PROVE Goal
      BY <1>2, <1>3, <3>1, <3>3
    <3>4. ASSUME Ctrl!ZcZone("ALL", 0, on, 0, {}) PROVE Goal
      BY <1>2, <3>1, <3>4
    <3> QED BY <3>2, <3>3, <3>4
  <2>2. CASE \E z \in Zones, t \in Runtimes : Ctrl!SetRuntime(z, t, {})
    BY <1>4, <2>2
  <2>3. CASE UNCHANGED <<open, cur, elapsed, runtime>>
    BY <1>5, <2>3
  <2>4. CASE Ctrl!ZcRainDelayEnabled({"status"}) /\ UNCHANGED runtime
    BY <1>6, <2>4
  <2> HIDE DEF Goal
  <2> QED BY <2>1, <2>2, <2>3, <2>4 DEF OtherRequest
<1>8. UNCHANGED vars /\ proc = "up" /\ Trouble
  BY DEF OtherRequest
<1>9. UNCHANGED <<pending, lost, crontab, whole>> /\ proc' = "up"
  BY <1>8 DEF vars
<1> HIDE DEF Goal
<1> QED BY <1>7, <1>8, <1>9, TroubleKeeps DEF Goal

LEMMA EndByDayKeeps ==
    ASSUME DayInv, minute # Night, EndByDay
    PROVE  DayInv'
<1>1. /\ cur' = [type |-> "NONE", zone |-> 0, duration |-> 0]
      /\ Trouble /\ UNCHANGED <<pending, lost, crontab, whole, runtime>>
  BY DEF EndByDay, settings
<1>2. RunTypeOK' /\ cur'.type = "NONE" /\ LeavesRun
  BY <1>1, ScheduleAssumption DEF RunTypeOK, Ctrl!RunTypes, LeavesRun
<1>3. runtime' \in [0..N -> Int]
  BY <1>1 DEF DayInv
<1> QED BY <1>1, <1>2, <1>3, TroubleKeeps

\* The crontab, and what has been sent of it, stay when the daemon starts.
LEMMA StartByDayKeeps ==
    ASSUME DayInv, StartByDay
    PROVE  DayInv'
<1>1. /\ proc = "down" /\ proc' = "up" /\ pending' = NoUpdate /\ ~lost' /\ minute # Night
      /\ open' = {} /\ UNCHANGED <<crontab, whole, cur, elapsed, today, minute, due, watered, spoiled>>
  BY DEF StartByDay, Start, dayVars
<1>2. ByDayInv /\ cur.type = "NONE" /\ ~ScheduledRun
  BY <1>1 DEF DayInv, ByDayInv, ScheduledRun
<1>3. \A l : Sent(l)' <=> Sent(l)
  BY <1>1, AsPrimed DEF Sent
<1>4. ASSUME whole, NEW z \in Zones \ spoiled' PROVE OnTime(z)'
  <2>1. OnTime(z) /\ ~Runs(z)
    BY <1>1, <1>2, <1>4 DEF ByDayInv, Runs
  <2>2. ~Runs(z)'
    BY <1>1, <1>2, AsPrimed
  <2> QED BY <1>1, <1>3, <2>1, <2>2, StaysOnTime
<1>5. RunHasLine' /\ (due \subseteq LinesAt(minute))'
  BY <1>1, <1>2 DEF RunHasLine, ByDayInv, LinesAt
<1>6. runtime' \in [0..N -> Int]
  BY ScheduleAssumption, DayAssumption DEF StartByDay, DayInv
<1>7. ByDayInv'
  BY <1>1, <1>2, <1>4, <1>5 DEF ByDayInv
<1>8. RunTypeOK' /\ today' \in Days /\ watered' \in [Zones -> Nat] /\ minute' # Night
  BY <1>1 DEF DayInv, RunTypeOK, Night
<1> QED BY <1>6, <1>7, <1>8 DEF DayInv, Night

\* zc_check ends the run of a line in the minute in which its time is up.
LEMMA LoopPassKeeps ==
    ASSUME DayInv, LoopPass
    PROVE  DayInv'
<1>1. /\ UNCHANGED <<pending, crontab, whole, proc, lost, runtime, today, minute, due, watered, spoiled>>
      /\ minute # Night /\ proc = "up" /\ ByDayInv /\ RunTypeOK /\ runtime \in [0..N -> Int]
  BY DEF LoopPass, vars, settings, dayVars, DayInv
<1>2. \/ Ctrl!Expired /\ RunTypeOK' /\ cur'.type \in {"ALL", "NONE"}
      \/ UNCHANGED <<open, cur, elapsed>>
  BY <1>1, ZoneDoneTypes DEF LoopPass
<1>3. \A l : Sent(l)' <=> Sent(l)
  BY <1>1, AsPrimed DEF Sent
<1>4. ASSUME whole, NEW z \in Zones \ spoiled' PROVE OnTime(z)'
  <2>1. OnTime(z)
    BY <1>1, <1>4 DEF ByDayInv
  <2>2. CASE UNCHANGED <<open, cur, elapsed>>
    <3>1. Runs(z)' <=> Runs(z)
      BY <2>2, AsPrimed DEF Runs, ScheduledRun
    <3> QED BY <1>1, <1>3, <2>1, <2>2, <3>1, StaysOnTime
  <2>3. CASE Ctrl!Expired /\ cur'.type \in {"ALL", "NONE"}
    <3>1. ~Runs(z)'
      BY <2>3, AsPrimed
    <3>2. ASSUME NEW l \in Plan, l.zone = z, IsRunning(l) PROVE watered[z] = l.runtime
      <4>1. /\ cur.duration = l.runtime /\ elapsed <= l.runtime /\ watered[z] = elapsed
            /\ cur.zone = z
        BY <3>2 DEF IsRunning, Runs
      <4>2. cur.duration * 1 - elapsed <= 0
        BY <1>4, <2>3, <4>1, ScheduleAssumption DEF Ctrl!Expired, Ctrl!TimeLeft, Zones
      <4>3. watered[z] \in Nat /\ cur.duration \in Int
        BY <1>1, <1>4 DEF DayInv, RunTypeOK
      <4> QED BY <4>1, <4>2, <4>3
    <3> QED BY <1>1, <1>3, <2>1, <3>1, <3>2, StaysOnTime
  <2> QED BY <1>2, <2>2, <2>3
<1>5. RunHasLine'
  <2>1. cur'.type = "CRON" => cur.type = "CRON" /\ cur'.zone = cur.zone
    BY <1>2
  <2> QED BY <1>1, <1>3, <2>1, RunKeepsLine DEF ByDayInv
<1>6. (due \subseteq LinesAt(minute))' /\ (proc' = "up")
  BY <1>1 DEF ByDayInv, LinesAt
<1>7. ByDayInv'
  BY <1>1, <1>4, <1>5, <1>6 DEF ByDayInv
<1>8. RunTypeOK'
  BY <1>1, <1>2 DEF RunTypeOK
<1>9. today' \in Days /\ watered' \in [Zones -> Nat] /\ minute' # Night /\ runtime' \in [0..N -> Int]
  BY <1>1 DEF DayInv
<1> QED BY <1>7, <1>8, <1>9 DEF DayInv, Night

\* While the time of a line is not up, its zone waters each minute.
LEMMA MinuteKeeps ==
    ASSUME DayInv, Orderly(Plan), proc \in {"up", "down"}, Minute
    PROVE  DayInv'
<1>1. /\ UNCHANGED <<pending, crontab, whole, proc, lost, open, cur, runtime, today, spoiled>>
      /\ minute' = minute + 1 /\ due = {} /\ minute # Night
      /\ due' \subseteq LinesAt(minute + 1) /\ (whole => due' = LinesAt(minute + 1))
  BY DEF Minute, vars, settings
<1>2. ByDayInv /\ minute \in Nat /\ RunTypeOK /\ watered \in [Zones -> Nat]
  BY <1>1 DEF DayInv, ByDayInv
<1>3. cur.type # "NONE" => ~Ctrl!Expired /\ elapsed' = elapsed + 1
  BY <1>2 DEF Minute, ByDayInv
<1>4. Plan' = Plan
  BY <1>1 DEF Plan
<1>5. ASSUME NEW l \in Plan PROVE (Sent(l) => Sent(l)') /\ (whole /\ Sent(l)' => Sent(l))
  <2>1. MinuteOfDay(l) \in Nat
    BY DEF Orderly
  <2>2. /\ l \in due' => MinuteOfDay(l) = minute + 1
        /\ whole /\ MinuteOfDay(l) = minute + 1 => l \in due'
    BY <1>1 DEF LinesAt, Plan
  <2>3. Sent(l) <=> MinuteOfDay(l) <= minute
    BY <1>1 DEF Sent
  <2>4. Sent(l)' <=> MinuteOfDay(l) <= minute + 1 /\ l \notin due'
    BY <1>1, AsPrimed
  <2> QED BY <1>2, <2>1, <2>2, <2>3, <2>4
<1>6. \A z : Runs(z)' <=> Runs(z)
  BY <1>1, AsPrimed DEF Runs, ScheduledRun
<1>7. ASSUME NEW z \in Zones PROVE watered'[z] = IF Runs(z) THEN watered[z] + 1 ELSE watered[z]
  BY <1>2 DEF Minute, Runs
<1>8. watered' \in [Zones -> Nat]
  <2>1. CASE ScheduledRun
    <3>1. cur.zone \in Zones
      BY <1>2, <2>1 DEF ByDayInv, RunHasLine, ScheduledRun, Orderly
    <3> QED BY <1>2, <2>1, <3>1 DEF Minute
  <2>2. CASE ~ScheduledRun
    BY <1>2, <2>2 DEF Minute
  <2> QED BY <2>1, <2>2
<1>9. ASSUME whole, NEW z \in Zones \ spoiled' PROVE OnTime(z)'
  <2>1. OnTime(z)
    BY <1>1, <1>2, <1>9 DEF ByDayInv
  <2>2. ASSUME \A l \in Plan : l.zone = z => ~Sent(l) PROVE watered'[z] = 0
    <3>1. ~Runs(z)
      BY <1>2, <2>2 DEF ByDayInv, RunHasLine, Runs, ScheduledRun
    <3> QED BY <1>7, <2>1, <2>2, <3>1 DEF OnTime
  <2>3. ASSUME NEW l \in Plan, l.zone = z, Sent(l) PROVE IsRunning(l)' \/ HasRun(l)'
    <3>1. CASE IsRunning(l)
      <4>1. /\ Runs(z) /\ cur.type = "CRON" /\ cur.zone = z /\ cur.duration = l.runtime
            /\ elapsed = minute - MinuteOfDay(l) /\ elapsed <= l.runtime /\ watered[z] = elapsed
        BY <2>3, <3>1 DEF IsRunning, Runs, ScheduledRun
      <4>2. ~(cur.duration * 1 - elapsed <= 0) /\ elapsed' = elapsed + 1
        BY <1>3, <1>9, <4>1, ScheduleAssumption DEF Ctrl!Expired, Ctrl!TimeLeft, Zones
      <4>3. MinuteOfDay(l) \in Nat /\ l.runtime \in Nat /\ elapsed \in Nat
        BY <1>2, <1>9, <2>3, <4>1 DEF Orderly
      <4>4. elapsed' <= l.runtime /\ elapsed' = (minute + 1) - MinuteOfDay(l)
        BY <1>2, <4>1, <4>2, <4>3
      <4>5. watered'[z] = elapsed'
        BY <1>7, <1>9, <4>1, <4>2
      <4> QED BY <1>1, <1>6, <2>3, <4>1, <4>4, <4>5, AsPrimed
    <3>2. CASE HasRun(l)
      <4>1. ~Runs(z) /\ watered'[z] = l.runtime
        BY <1>7, <1>9, <2>3, <3>2 DEF HasRun
      <4> QED BY <1>6, <2>3, <4>1, AsPrimed
    <3> QED BY <2>1, <2>3, <3>1, <3>2 DEF OnTime
  <2> QED BY <1>4, <1>5, <1>9, <2>2, <2>3 DEF OnTime
<1>10. RunHasLine'
  BY <1>1, <1>2, <1>5, RunKeepsLine DEF ByDayInv
<1>11. (due \subseteq LinesAt(minute))'
  BY <1>1 DEF LinesAt
<1>12. ByDayInv'
  BY <1>1, <1>2, <1>9, <1>10, <1>11 DEF ByDayInv
<1>13. RunTypeOK' /\ today' \in Days /\ minute' # Night /\ runtime' \in [0..N -> Int]
  BY <1>1, <1>2 DEF DayInv, RunTypeOK, Night
<1> QED BY <1>8, <1>12, <1>13 DEF DayInv, Night

\* A line begins its run when the run before it is over, to the minute, whether or not
\* zc_check has noticed.
LEMMA CronRequestKeeps ==
    ASSUME DayInv, Orderly(Plan), Zones \subseteq ValidPin, minute # Night, CronRequest
    PROVE  DayInv'
<1>1. PICK l \in due :
          /\ due' = due \ {l}
          /\ \/ proc = "up" /\ Ctrl!ZcZone("CRON", l.zone, TRUE, l.runtime, {})
             \/ proc = "down" /\ UNCHANGED <<open, cur, elapsed, events>>
          /\ spoiled' = IF proc = "down" \/ l.zone \in open \/ delay24h \/ ~calendar
                        THEN spoiled \cup {l.zone} ELSE spoiled
  BY DEF CronRequest
<1>2. UNCHANGED <<pending, crontab, whole, proc, lost, runtime, today, minute, watered>>
  BY DEF CronRequest, vars, settings
<1>3. ByDayInv /\ RunTypeOK /\ minute \in Nat /\ watered \in [Zones -> Nat]
  BY DEF DayInv, ByDayInv
<1>4. /\ l \in Plan /\ MinuteOfDay(l) = minute /\ l.zone \in Zones
      /\ l.runtime \in Nat /\ l.runtime > 0
      /\ \A k \in Plan : k.zone = l.zone => k = l
  BY <1>3 DEF ByDayInv, LinesAt, Plan, Orderly
<1>5. ~Sent(l) /\ Sent(l)'
  <2>1. MinuteOfDay(l) <= minute
    BY <1>3, <1>4
  <2>2. l \notin due'
    BY <1>1
  <2> QED BY <1>1, <1>2, <2>1, <2>2, AsPrimed DEF Sent
<1>6. \A k : k # l => (Sent(k)' <=> Sent(k))
  BY <1>1, <1>2, AsPrimed DEF Sent
<1> DEFINE Begins == /\ proc = "up" /\ l.zone \in open' /\ elapsed' = 0
                     /\ cur' = [type |-> "CRON", zone |-> l.zone, duration |-> l.runtime]
           Stays  == UNCHANGED <<open, cur, elapsed>> /\ l.zone \in spoiled'
<1>7. Begins \/ Stays
  <2>1. CASE proc = "up" /\ Ctrl!ZcZone("CRON", l.zone, TRUE, l.runtime, {})
    <3>1. PICK z, r : z = l.zone /\ r = l.runtime
      OBVIOUS
    <3> QED BY <1>1, <1>4, <2>1, CronZcZone
  <2>2. CASE proc = "down" /\ UNCHANGED <<open, cur, elapsed, events>>
    BY <1>1, <2>2
  <2> QED BY <1>1, <2>1, <2>2
<1>8. ASSUME whole, NEW z \in Zones \ spoiled' PROVE OnTime(z)'
  <2>1. z \notin spoiled /\ OnTime(z)
    BY <1>1, <1>3, <1>8 DEF ByDayInv
  <2>2. CASE z = l.zone
    <3>1. Begins
      BY <1>7, <1>8, <2>2
    <3>2. watered'[z] = 0
      BY <1>2, <1>4, <1>5, <2>1, <2>2 DEF OnTime
    <3>3. 0 = minute - MinuteOfDay(l) /\ 0 <= l.runtime
      BY <1>3, <1>4
    <3>4. IsRunning(l)'
      BY <1>2, <2>2, <3>1, <3>2, <3>3, AsPrimed
    <3>5. Plan' = Plan
      BY <1>2 DEF Plan
    <3> QED BY <1>4, <2>2, <3>2, <3>4, <3>5 DEF OnTime
  <2>3. CASE z # l.zone /\ Stays
    <3>1. \A k \in Plan : k.zone = z => (Sent(k)' <=> Sent(k))
      BY <1>6, <2>3
    <3>2. Runs(z)' <=> Runs(z)
      BY <2>3, AsPrimed DEF Runs, ScheduledRun
    <3> QED BY <1>2, <2>1, <2>3, <3>1, <3>2, StaysOnTime
  <2>4. CASE z # l.zone /\ Begins
    <3>1. \A k \in Plan : k.zone = z => (Sent(k)' <=> Sent(k))
      BY <1>6, <2>4
    <3>2. ~Runs(z)'
      BY <2>4, AsPrimed
    <3>3. ASSUME NEW k \in Plan, k.zone = z, IsRunning(k), Runs(z) PROVE watered[z] = k.runtime
      <4>1. /\ elapsed = minute - MinuteOfDay(k) /\ elapsed <= k.runtime /\ watered[z] = elapsed
        BY <3>3 DEF IsRunning
      <4>2. PICK j \in Plan : j.zone = z /\ Sent(j)
        BY <1>3, <3>3 DEF ByDayInv, RunHasLine, Runs, ScheduledRun
      <4>3. k = j /\ MinuteOfDay(k) <= minute
        BY <3>3, <4>2 DEF Orderly, Sent
      <4>4. /\ k.zone < l.zone => MinuteOfDay(l) >= MinuteOfDay(k) + k.runtime
            /\ l.zone < k.zone => MinuteOfDay(k) >= MinuteOfDay(l) + l.runtime
            /\ k.runtime \in Nat /\ MinuteOfDay(k) \in Nat /\ k.zone \in Int /\ l.zone \in Int
        BY <1>4 DEF Orderly, Zones
      <4>5. k.zone < l.zone
        BY <1>3, <1>4, <2>4, <3>3, <4>3, <4>4
      <4> QED BY <1>3, <1>4, <4>1, <4>4, <4>5
    <3> QED BY <1>2, <2>1, <3>1, <3>2, <3>3, StaysOnTime
  <2> QED BY <1>7, <2>2, <2>3, <2>4
<1>9. RunHasLine'
  <2>1. Plan' = Plan
    BY <1>2 DEF Plan
  <2>2. CASE Begins
    BY <1>4, <1>5, <2>1, <2>2 DEF RunHasLine
  <2>3. CASE Stays
    BY <1>2, <1>3, <1>5, <1>6, <2>3, RunKeepsLine DEF ByDayInv
  <2> QED BY <1>7, <2>2, <2>3
<1>10. (due \subseteq LinesAt(minute))' /\ (proc' = "down" => cur'.type = "NONE")
  BY <1>1, <1>2, <1>3, <1>7 DEF ByDayInv, LinesAt
<1>11. RunTypeOK'
  <2>1. l.zone \in -1..N
    BY <1>4 DEF Zones
  <2> QED BY <1>3, <1>4, <1>7, <2>1 DEF RunTypeOK, Ctrl!RunTypes
<1>12. ByDayInv'
  BY <1>2, <1>3, <1>8, <1>9, <1>10 DEF ByDayInv
<1>13. today' \in Days /\ watered' \in [Zones -> Nat] /\ minute' # Night /\ runtime' \in [0..N -> Int]
  BY <1>2 DEF DayInv
<1> QED BY <1>11, <1>12, <1>13 DEF DayInv, Night

\* Nothing of a day has been sent when it begins.
LEMMA DawnKeeps ==
    ASSUME DayInv, Inv(60), Dawn
    PROVE  DayInv'
<1>1. PICK d \in Days :
          /\ crontab[d].runs # {} /\ today' = d
          /\ minute' = Min({MinuteOfDay(l) : l \in crontab[d].runs})
          /\ \/ due' = {l \in crontab[d].runs : MinuteOfDay(l) = minute'}
             \/ ~whole /\ due' = {}
  BY DEF Dawn
<1>2. /\ UNCHANGED <<pending, crontab, whole, proc, lost, open, cur, elapsed, runtime, watered, spoiled>>
      /\ minute = Night /\ proc = "up" /\ pending = NoUpdate /\ ~lost
  BY DEF Dawn, vars, settings
<1>3. cur.type = "NONE" /\ watered = NoWater /\ RunTypeOK
  BY <1>2 DEF DayInv, ByNightInv
<1> DEFINE lines == crontab[d].runs
           M == {MinuteOfDay(l) : l \in lines}
<1>4. Plan' = lines
  BY <1>1, <1>2 DEF Plan
<1>5. Orderly(lines)
  <2>1. PICK c \in Cals(60), y \in 0..N : lines = FirstLines(c, y)
    BY DEF Inv, Written
  <2> QED BY <2>1, LinesAreOrderly DEF Cals
<1> HIDE DEF lines
<1>6. \A l \in lines : MinuteOfDay(l) \in Nat
  BY <1>5 DEF Orderly
<1>7. PICK m \in M : \A n \in M : m <= n
  <2>1. M \subseteq Nat /\ M # {}
    BY <1>1, <1>6 DEF lines
  <2> HIDE DEF M
  <2> QED BY <2>1, LeastOf
<1>8. minute' \in M /\ \A n \in M : minute' <= n
  <2>1. minute' = Min(M)
    BY <1>1 DEF lines
  <2> HIDE DEF M
  <2> QED BY <1>7, <2>1 DEF Min
<1>9. minute' \in Nat /\ minute' # Night
  BY <1>6, <1>8 DEF Night
<1>10. ASSUME whole, NEW l \in Plan' PROVE ~Sent(l)'
  <2>1. MinuteOfDay(l) \in Nat /\ minute' <= MinuteOfDay(l)
    BY <1>4, <1>6, <1>8, <1>10
  <2>2. l \in due' <=> MinuteOfDay(l) = minute'
    BY <1>1, <1>4, <1>10 DEF lines
  <2> QED BY <1>9, <2>1, <2>2, AsPrimed
<1>11. ASSUME whole, NEW z \in Zones PROVE OnTime(z)'
  <2>1. watered'[z] = 0
    BY <1>2, <1>3, <1>11 DEF NoWater
  <2> QED BY <1>10, <1>11, <2>1 DEF OnTime
<1>12. RunHasLine'
  BY <1>2, <1>3 DEF RunHasLine
<1>13. (due \subseteq LinesAt(minute))'
  BY <1>1, <1>4, AsPrimed DEF lines
<1>14. ByDayInv'
  BY <1>2, <1>3, <1>9, <1>11, <1>12, <1>13 DEF ByDayInv
<1>15. RunTypeOK' /\ today' \in Days /\ watered' \in [Zones -> Nat] /\ runtime' \in [0..N -> Int]
  BY <1>1, <1>2, <1>3 DEF DayInv, RunTypeOK
<1> QED BY <1>9, <1>14, <1>15 DEF DayInv, Night

LEMMA ByNightKeeps ==
    ASSUME DayInv, ByNight(Next)
    PROVE  DayInv'
<1>1. minute = Night /\ UNCHANGED <<cur, runtime, today, minute, watered, due>>
  BY DEF ByNight, settings, dayVars
<1> QED BY <1>1 DEF DayInv, ByNightInv, RunTypeOK

-----------------------------------------------------------------------------
\* Seen from the calendar a day is one of its own steps, or nothing.
LEMMA DayIsNext ==
    ASSUME [DayNext]_allVars
    PROVE  [Next]_vars
<1>1. CASE ByNight(Next)
  BY <1>1 DEF ByNight
<1>2. CASE EndByDay
  <2>1. End
    BY <1>2 DEF EndByDay, End
  <2> QED BY <2>1 DEF Next
<1>3. CASE StartByDay
  <2>1. Start
    BY <1>3 DEF StartByDay
  <2> QED BY <2>1 DEF Next
<1>4. CASE Dawn \/ Minute \/ CronRequest \/ LoopPass \/ OtherRequest
  BY <1>4 DEF Dawn, Minute, CronRequest, LoopPass, OtherRequest
<1>5. CASE Dusk \/ UNCHANGED allVars
  BY <1>5 DEF Dusk, allVars
<1> QED BY <1>1, <1>2, <1>3, <1>4, <1>5 DEF DayNext

LEMMA DayNextKeeps ==
    ASSUME Zones \subseteq ValidPin, UpTo(60), Inv(60), DayInv, [DayNext]_allVars
    PROVE  Inv(60)' /\ DayInv'
<1>1. Inv(60)'
  BY DayIsNext, NextKeeps
<1> SUFFICES DayInv'
  BY <1>1
<1>2. proc \in {"up", "down"} /\ today \in Days
  BY DEF Inv, DayInv
<1>3. Orderly(Plan)
  BY <1>2, PlanIsOrderly
<1>4. CASE ByNight(Next)
  BY <1>4, ByNightKeeps
<1>5. CASE Dawn
  BY <1>5, DawnKeeps
<1>6. CASE Minute
  BY <1>2, <1>3, <1>6, MinuteKeeps
<1>7. CASE CronRequest
  <2>1. minute # Night
    BY <1>7 DEF CronRequest, DayInv, ByNightInv
  <2> QED BY <1>3, <1>7, <2>1, CronRequestKeeps
<1>8. CASE LoopPass
  BY <1>8, LoopPassKeeps
<1>9. CASE OtherRequest
  BY <1>9, OtherRequestKeeps DEF OtherRequest, Trouble
<1>10. CASE EndByDay
  BY <1>10, EndByDayKeeps DEF EndByDay, Trouble
<1>11. CASE StartByDay
  BY <1>11, StartByDayKeeps
<1>12. CASE Dusk \/ UNCHANGED allVars
  <2>1. UNCHANGED <<vars, open, cur, elapsed, settings, events, dayVars>>
    BY <1>12 DEF Dusk, allVars
  <2> QED BY <2>1 DEF vars, settings, dayVars, DayInv, ByDayInv, ByNightInv, RunTypeOK,
         RunHasLine, OnTime, Sent, Plan, LinesAt, IsRunning, HasRun, Runs, ScheduledRun, MinuteOfDay
<1> QED BY <1>1, <1>4, <1>5, <1>6, <1>7, <1>8, <1>9, <1>10, <1>11, <1>12 DEF DayNext

LEMMA DayInitHolds ==
    ASSUME DayInit
    PROVE  Init /\ DayInv
<1>1. /\ Init /\ today \in Days /\ minute = Night /\ due = {} /\ watered = NoWater
      /\ cur = [type |-> "NONE", zone |-> 0, duration |-> 0]
      /\ runtime = [z \in 0..N |-> DefaultRuntime]
  BY DEF DayInit
<1>2. RunTypeOK /\ cur.type = "NONE"
  BY <1>1, ScheduleAssumption DEF RunTypeOK, Ctrl!RunTypes
<1>3. runtime \in [0..N -> Int] /\ watered \in [Zones -> Nat]
  BY <1>1, ScheduleAssumption, DayAssumption DEF NoWater
<1> QED BY <1>1, <1>2, <1>3 DEF DayInv, ByNightInv

\* When the day is over all its lines were sent, and no zone waters any more.
LEMMA DayIsWatered ==
    ASSUME Inv(60), DayInv
    PROVE  WateredAsPlanned
<1> SUFFICES ASSUME DayIsOver, whole, NEW z \in Zones \ spoiled PROVE watered[z] = Planned(z)
  BY DEF WateredAsPlanned
<1>1. /\ minute # Night /\ Ahead(minute + 1) = {} /\ proc = "up" /\ due = {}
      /\ cur.type = "NONE"
  BY DEF DayIsOver
<1>2. ByDayInv /\ OnTime(z) /\ minute \in Nat /\ today \in Days /\ Orderly(Plan)
  BY <1>1, PlanIsOrderly DEF DayInv, ByDayInv
<1>3. Clean
  BY <1>1, <1>2 DEF Clean, ByDayInv
<1>4. ASSUME NEW l \in Plan, l.zone = z PROVE watered[z] = l.runtime
  <2>1. MinuteOfDay(l) \in Nat /\ MinuteOfDay(l) < 24 * 60
    BY <1>2 DEF Orderly
  <2>2. ~(MinuteOfDay(l) \in (minute + 1)..(24 * 60))
    BY <1>1 DEF Ahead, Plan
  <2>3. MinuteOfDay(l) <= minute
    BY <1>2, <2>1, <2>2
  <2>4. Sent(l) /\ ~Runs(l.zone)
    BY <1>1, <2>3 DEF Sent, Runs, ScheduledRun
  <2> QED BY <1>2, <1>4, <2>4 DEF OnTime, IsRunning, HasRun
<1>5. CASE \E l \in Plan : l.zone = z /\ Planned(z) = l.runtime
  BY <1>4, <1>5
<1>6. CASE (\A l \in Plan : l.zone # z) /\ Planned(z) = 0
  BY <1>2, <1>6 DEF OnTime
<1> QED BY <1>2, <1>3, <1>5, <1>6, PlannedIs

\* Every zone waters as long as the calendar shows, no minute less or more, for any number
\* of zones on valid pins, any start times and any runtimes up to an hour, whatever else is
\* asked of the daemon during the day: the start times of write_cron (sd_cron.c:163), the
\* end of each run (zc_check, zone_ctrl.c:81) and the request that starts the next (zc_zone,
\* zone_ctrl.c:155) agree to the minute.  The crontab is one that ends with a whole line.
THEOREM WateredHolds ==
    ASSUME Zones \subseteq ValidPin, \A r \in Runtimes : r <= 60
    PROVE  DaySpec => []WateredAsPlanned
<1>1. UpTo(60)
  <2>1. 60 <= INT_MAX
    BY SMT DEF INT_MAX
  <2> QED BY <2>1 DEF UpTo
<1>2. DayInit => Inv(60) /\ DayInv
  BY <1>1, DayInitHolds, InitHolds
<1>3. Inv(60) /\ DayInv /\ [DayNext]_allVars => Inv(60)' /\ DayInv'
  BY <1>1, DayNextKeeps
<1>4. Inv(60) /\ DayInv => WateredAsPlanned
  BY DayIsWatered
<1> QED BY <1>2, <1>3, <1>4, PTL DEF DaySpec

\* What is proved of the calendar alone holds with the days in between: the zones, cron
\* and the other requests leave the calendar and the crontab to write_cron, read_cron and
\* the calcfg request.
THEOREM DayIsSchedule == DaySpec => Spec
<1>1. DayInit => Init
  BY DayInitHolds
<1>2. [DayNext]_allVars => [Next]_vars
  BY DayIsNext
<1> QED BY <1>1, <1>2, PTL DEF DaySpec, Spec
=============================================================================
