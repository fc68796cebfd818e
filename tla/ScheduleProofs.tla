-------------------------- MODULE ScheduleProofs --------------------------
(***************************************************************************)
(* The calendar and its crontab, for every number of zones and every edit.  *)
(***************************************************************************)
EXTENDS Schedule, TLAPS, WellFoundedInduction, NaturalsInduction

\* A set of naturals has a least element.
LEMMA LeastOf ==
    ASSUME NEW T, T \subseteq Nat, T # {}
    PROVE  \E n \in T : \A m \in T : n <= m
<1> DEFINE R == OpToRel(<, Nat)
<1>1. PICK n \in T : \A m \in T : ~(<<m, n>> \in R)
  <2> HIDE DEF R
  <2>1. IsWellFoundedOn(R, Nat)
    BY NatLessThanWellFounded DEF R
  <2> QED BY <2>1, WFMin
<1>2. ASSUME NEW m \in T, m < n PROVE FALSE
  <2>1. <<m, n>> \in Nat \X Nat /\ <<m, n>>[1] < <<m, n>>[2]
    BY <1>2
  <2>2. <<m, n>> \in R
    BY <2>1, Zenon DEF OpToRel
  <2> QED BY <1>1, <2>2
<1> QED BY <1>2

\* Induction in the form of a set: what holds of 0 and passes from each number to the
\* next holds of all of them.
LEMMA Induction ==
    ASSUME NEW S, 0 \in S, \A n \in Nat : n \in S => n + 1 \in S
    PROVE  Nat \subseteq S
<1> SUFFICES ASSUME Nat \ S # {} PROVE FALSE
  OBVIOUS
<1>1. PICK n \in Nat \ S : \A m \in Nat \ S : n <= m
  BY LeastOf
<1>2. n # 0 /\ n - 1 \in Nat /\ n - 1 \notin S
  OBVIOUS
<1> QED BY <1>1, <1>2

\* Induction on the zones.
LEMMA ZoneInduction ==
    ASSUME NEW S, 1 \in S, \A z \in Zones : z \in S /\ z + 1 \in Zones => z + 1 \in S
    PROVE  Zones \subseteq S
<1> DEFINE T == {n \in Nat : n + 1 \in Zones => n + 1 \in S}
<1>1. 0 \in T
  OBVIOUS
<1>2. ASSUME NEW n \in Nat, n \in T PROVE n + 1 \in T
  <2>1. (n + 1) + 1 \in Zones => n + 1 \in Zones
    BY ScheduleAssumption DEF Zones
  <2>2. (n + 1) + 1 \in Zones => (n + 1) + 1 \in S
    BY <1>2, <2>1
  <2> QED BY <2>2
<1>3. Nat \subseteq T
  <2> HIDE DEF T
  <2> QED BY <1>1, <1>2, Induction
<1>4. ASSUME NEW z \in Zones PROVE z \in S
  <2>1. z - 1 \in T /\ (z - 1) + 1 = z
    BY <1>3, ScheduleAssumption DEF Zones
  <2> QED BY <2>1
<1> QED BY <1>4

\* f goes from each zone to the next by step.
Goes(f, first, step) ==
    \A z \in Zones : f[z] = IF z = 1 THEN first ELSE step[<<z - 1, f[z - 1]>>]

\* A recursion from each zone to the next has a solution.
LEMMA ZoneRecursion ==
    ASSUME NEW V, NEW first \in V, NEW step \in [Zones \X V -> V]
    PROVE  \E f \in [Zones -> V] : Goes(f, first, step)
<1> DEFINE Loop(f, n) == [z \in 1..n |-> IF z = 1 THEN first ELSE step[<<z - 1, f[z - 1]>>]]
           S == {n \in Nat : n <= N => \E f \in [1..n -> V] : f = Loop(f, n)}
<1>1. 0 \in S
  <2> DEFINE f == [z \in 1..0 |-> first]
  <2>1. f = Loop(f, 0) /\ f \in [1..0 -> V]
    OBVIOUS
  <2> HIDE DEF Loop, f
  <2>2. \E g \in [1..0 -> V] : g = Loop(g, 0)
    BY <2>1
  <2> QED BY <2>2
<1>2. ASSUME NEW n \in Nat, n \in S PROVE n + 1 \in S
  <2> SUFFICES ASSUME n + 1 <= N
               PROVE  \E g \in [1..(n + 1) -> V] : g = Loop(g, n + 1)
    <3> HIDE DEF Loop
    <3> QED OBVIOUS
  <2>1. PICK f \in [1..n -> V] : f = Loop(f, n)
    BY <1>2, ScheduleAssumption
  <2> DEFINE next == IF n = 0 THEN first ELSE step[<<n, f[n]>>]
  <2>2. next \in V
    <3>1. CASE n = 0
      BY <3>1
    <3>2. CASE n # 0
      <4>1. n \in Zones /\ f[n] \in V
        BY <3>2, ScheduleAssumption DEF Zones
      <4> QED BY <3>2, <4>1
    <3> QED BY <3>1, <3>2
  <2> DEFINE g == [z \in 1..(n + 1) |-> IF z <= n THEN f[z] ELSE next]
  <2> HIDE DEF next
  <2>3. g \in [1..(n + 1) -> V]
    BY <2>2
  <2>4. ASSUME NEW z \in 1..(n + 1) PROVE g[z] = Loop(g, n + 1)[z]
    <3>1. CASE z <= n
      <4>1. f[z] = IF z = 1 THEN first ELSE step[<<z - 1, f[z - 1]>>]
        <5>1. f[z] = Loop(f, n)[z]
          <6> HIDE DEF Loop
          <6> QED BY <2>1
        <5> QED BY <3>1, <5>1
      <4>2. z # 1 => g[z - 1] = f[z - 1]
        BY <3>1
      <4> QED BY <3>1, <4>1, <4>2
    <3>2. CASE z = n + 1
      <4>1. z # 1 => g[z - 1] = f[n] /\ z - 1 = n /\ n # 0
        BY <3>2
      <4>2. g[z] = next /\ (z = 1 <=> n = 0)
        BY <3>2
      <4> QED BY <4>1, <4>2 DEF next
    <3> QED BY <3>1, <3>2
  <2>5. g = Loop(g, n + 1)
    BY <2>4
  <2> HIDE DEF g, Loop
  <2> QED BY <2>3, <2>5
<1>3. \E f \in [1..N -> V] : f = Loop(f, N)
  <2> HIDE DEF S
  <2>1. Nat \subseteq S
    BY <1>1, <1>2, Induction
  <2>2. N \in S /\ N <= N
    BY <2>1, ScheduleAssumption
  <2> HIDE DEF Loop
  <2> QED BY <2>2 DEF S
<1>4. PICK f \in [1..N -> V] : f = Loop(f, N)
  BY <1>3
<1>5. ASSUME NEW z \in 1..N
      PROVE  f[z] = IF z = 1 THEN first ELSE step[<<z - 1, f[z - 1]>>]
  <2>1. f[z] = Loop(f, N)[z]
    <3> HIDE DEF Loop
    <3> QED BY <1>4
  <2> QED BY <2>1
<1> QED BY <1>4, <1>5 DEF Zones, Goes

-----------------------------------------------------------------------------
(***************************************************************************)
(* The start times that write_cron works out.                               *)
(***************************************************************************)
ClockTimes == [hour : Nat, minute : Nat]

LEMMA FollowingType ==
    ASSUME NEW c, NEW z, c.zruntimes[z] \in Int, NEW t \in ClockTimes
    PROVE  Following(c, z, t) \in ClockTimes
<1> DEFINE r == c.zruntimes[z]
<1>1. t.hour \in Nat /\ t.minute \in Nat
  BY DEF ClockTimes
<1>2. CASE r > 0 /\ t.hour < 24
  <2>1. After(t, r) \in ClockTimes
    BY <1>1, <1>2 DEF After, ClockTimes
  <2> QED BY <1>2, <2>1 DEF Following
<1>3. CASE ~(r > 0 /\ t.hour < 24)
  BY <1>3 DEF Following
<1> QED BY <1>2, <1>3

\* The recursion of StartOf has a solution: min and hour are what the loop makes of
\* those of the zone before.
LEMMA StartOfIs ==
    ASSUME NEW c \in Calendars, Scheduled(c)
    PROVE  /\ StartOf(c) = [z \in Zones |->
                 IF z = 1 THEN [hour |-> c.hour, minute |-> c.minute]
                          ELSE Following(c, z - 1, StartOf(c)[z - 1])]
           /\ [hour |-> c.hour, minute |-> c.minute] \in ClockTimes
<1> DEFINE first == [hour |-> c.hour, minute |-> c.minute]
           step == [p \in Zones \X ClockTimes |-> Following(c, p[1], p[2])]
<1>1. first \in ClockTimes
  BY DEF Calendars, Scheduled, ClockTimes
<1>2. ASSUME NEW p \in Zones \X ClockTimes PROVE Following(c, p[1], p[2]) \in ClockTimes
  <2>1. p[1] \in Zones /\ p[2] \in ClockTimes
    OBVIOUS
  <2>2. c.zruntimes[p[1]] \in Int
    BY <2>1 DEF Calendars
  <2> QED BY <2>1, <2>2, FollowingType
<1>3. step \in [Zones \X ClockTimes -> ClockTimes]
  BY <1>2
<1>4. PICK f \in [Zones -> ClockTimes] : Goes(f, first, step)
  <2> HIDE DEF first, step
  <2> QED BY <1>1, <1>3, ZoneRecursion
<1>5. ASSUME NEW z \in Zones, z # 1
      PROVE  step[<<z - 1, f[z - 1]>>] = Following(c, z - 1, f[z - 1])
  <2>1. z - 1 \in Zones /\ f[z - 1] \in ClockTimes
    BY <1>5, ScheduleAssumption DEF Zones
  <2>2. <<z - 1, f[z - 1]>> \in Zones \X ClockTimes
    BY <2>1
  <2> QED BY <2>2
<1>6. f = [z \in Zones |-> IF z = 1 THEN first ELSE Following(c, z - 1, f[z - 1])]
  <2> HIDE DEF first, step
  <2>1. \A z \in Zones : f[z] = IF z = 1 THEN first ELSE step[<<z - 1, f[z - 1]>>]
    BY <1>4 DEF Goes
  <2>2. \A z \in Zones : f[z] = IF z = 1 THEN first ELSE Following(c, z - 1, f[z - 1])
    BY <1>5, <2>1
  <2> QED BY <1>4, <2>2
<1> QED BY <1>1, <1>6 DEF StartOf

\* The start times of a day that is scheduled, zone by zone.
LEMMA StartSteps ==
    ASSUME NEW c \in Calendars, Scheduled(c)
    PROVE  /\ StartOf(c)[1] = [hour |-> c.hour, minute |-> c.minute]
           /\ \A z \in Zones : z + 1 \in Zones =>
                 StartOf(c)[z + 1] = Following(c, z, StartOf(c)[z])
           /\ \A z \in Zones : StartOf(c)[z] \in ClockTimes
<1> DEFINE s == StartOf(c)
<1>1. s[1] = [hour |-> c.hour, minute |-> c.minute]
  BY StartOfIs, ScheduleAssumption DEF Zones
<1>2. ASSUME NEW z \in Zones, z + 1 \in Zones PROVE s[z + 1] = Following(c, z, s[z])
  <2>1. z + 1 # 1 /\ (z + 1) - 1 = z
    BY DEF Zones
  <2>2. s = [y \in Zones |-> IF y = 1 THEN [hour |-> c.hour, minute |-> c.minute]
                                      ELSE Following(c, y - 1, s[y - 1])]
    BY StartOfIs
  <2> HIDE DEF s
  <2>3. s[z + 1] = Following(c, (z + 1) - 1, s[(z + 1) - 1])
    BY <1>2, <2>1, <2>2
  <2> QED BY <2>1, <2>3
<1> HIDE DEF s
<1>3. 1 \in {z \in Zones : s[z] \in ClockTimes}
  <2>1. c.hour \in Nat /\ c.minute \in Nat
    BY DEF Calendars, Scheduled
  <2> QED BY <1>1, <2>1, ScheduleAssumption DEF Zones, ClockTimes
<1>4. ASSUME NEW z \in Zones, s[z] \in ClockTimes, z + 1 \in Zones
      PROVE  s[z + 1] \in ClockTimes
  <2>1. c.zruntimes[z] \in Int
    BY DEF Calendars
  <2> QED BY <1>2, <1>4, <2>1, FollowingType
<1>5. Zones \subseteq {z \in Zones : s[z] \in ClockTimes}
  BY <1>3, <1>4, ZoneInduction
<1> QED BY <1>1, <1>2, <1>5 DEF s

\* The line of a zone, and when there is one.
LineOf(c, z) == [zone |-> z, runtime |-> c.zruntimes[z],
                 hour |-> StartOf(c)[z].hour, minute |-> StartOf(c)[z].minute]

HasLine(c, z) == Scheduled(c) /\ c.zruntimes[z] > 0 /\ StartOf(c)[z].hour < 24

LEMMA RunLinesAre ==
    ASSUME NEW c, NEW l
    PROVE  l \in RunLines(c) <=> l.zone \in Zones /\ HasLine(c, l.zone) /\ l = LineOf(c, l.zone)
BY DEF RunLines, LineOf, HasLine

\* Between two lines that follow each other nothing moves the start time.
LEMMA SameStartUntilNextLine ==
    ASSUME NEW c \in Calendars, Scheduled(c), NEW a \in Zones, NEW b \in Zones, a <= b,
           \A z \in Zones : a <= z /\ z < b => ~HasLine(c, z)
    PROVE  StartOf(c)[b] = StartOf(c)[a]
<1> DEFINE s == StartOf(c)
           S == {z \in Zones : a <= z /\ z <= b => s[z] = s[a]}
<1>1. 1 \in S
  BY ScheduleAssumption DEF Zones
<1>2. ASSUME NEW z \in Zones, z \in S, z + 1 \in Zones PROVE z + 1 \in S
  <2>1. CASE a <= z /\ z + 1 <= b
    <3>1. s[z] = s[a] /\ ~HasLine(c, z)
      BY <1>2, <2>1 DEF Zones
    <3>2. s[z + 1] = s[z]
      BY <1>2, <3>1, StartSteps DEF Following, HasLine
    <3> QED BY <1>2, <3>1, <3>2
  <2>2. CASE ~(a <= z /\ z + 1 <= b)
    <3>1. a <= z + 1 /\ z + 1 <= b => z + 1 = a
      BY <2>2 DEF Zones
    <3> QED BY <1>2, <3>1
  <2> QED BY <2>1, <2>2
<1>3. Zones \subseteq S
  <2> HIDE DEF S
  <2> QED BY <1>1, <1>2, ZoneInduction
<1> QED BY <1>3 DEF Zones

-----------------------------------------------------------------------------
(***************************************************************************)
(* The lines that write_cron writes for a day, all of them or the first     *)
(* ones.                                                                    *)
(***************************************************************************)
Short(c, limit) == \A z \in Zones : c.zruntimes[z] <= limit

\* The calendars of a day: without a start time, or with one that was asked for.
Cals(limit) ==
    {c \in Calendars : /\ \/ c.hour = -1 /\ c.minute = -1
                          \/ [hour |-> c.hour, minute |-> c.minute] \in Times
                       /\ Short(c, limit)}

LEMMA LinesTypes ==
    ASSUME NEW c \in Calendars
    PROVE  RunLines(c) \subseteq Lines
<1>1. ASSUME NEW l \in RunLines(c) PROVE l \in Lines
  <2>1. l.zone \in Zones /\ HasLine(c, l.zone) /\ l = LineOf(c, l.zone)
    BY RunLinesAre
  <2>2. StartOf(c)[l.zone] \in ClockTimes
    BY <2>1, StartSteps DEF HasLine
  <2>3. c.zruntimes[l.zone] \in Int /\ StartOf(c)[l.zone].hour \in 0..23
        /\ StartOf(c)[l.zone].minute \in Nat
    BY <2>1, <2>2 DEF HasLine, ClockTimes, Calendars
  <2> QED BY <2>1, <2>3 DEF LineOf, Lines
<1> QED BY <1>1

\* With runtimes of an hour at most one carry is enough.
LEMMA MinutesBound ==
    ASSUME NEW c \in Calendars, Scheduled(c), Short(c, 60), NEW z \in Zones
    PROVE  StartOf(c)[z].minute \in 0..59
<1> DEFINE s == StartOf(c)
           S == {y \in Zones : s[y].minute \in 0..59}
<1>1. 1 \in S
  <2>1. c.minute \in 0..59
    BY DEF Calendars, Scheduled
  <2>2. s[1].minute = c.minute
    <3>1. s[1] = [hour |-> c.hour, minute |-> c.minute]
      BY StartSteps
    <3> HIDE DEF s
    <3> QED BY <3>1
  <2> QED BY <2>1, <2>2, ScheduleAssumption DEF Zones
<1>2. ASSUME NEW y \in Zones, y \in S, y + 1 \in Zones PROVE y + 1 \in S
  <2> DEFINE r == c.zruntimes[y]
  <2>1. s[y + 1] = Following(c, y, s[y]) /\ s[y].minute \in 0..59 /\ s[y].hour \in Nat
    BY <1>2, StartSteps DEF ClockTimes
  <2>2. r \in Int /\ r <= 60
    BY DEF Calendars, Short
  <2> HIDE DEF s, r
  <2>3. CASE r > 0 /\ s[y].hour < 24
    <3>1. After(s[y], r).minute \in 0..59
      <4> DEFINE m == s[y].minute
      <4>0. m \in 0..59 /\ r > 0
        BY <2>1, <2>3
      <4>1. m \in Nat /\ m <= 59 /\ m + r >= 0 /\ m + r < 120
        <5> HIDE DEF m
        <5> QED BY <2>2, <4>0
      <4>2. CASE m + r >= 60
        <5>1. After(s[y], r) = [hour |-> s[y].hour + 1, minute |-> (m + r) - 60]
          BY <4>2 DEF After
        <5>2. After(s[y], r).minute = (m + r) - 60
          BY <5>1
        <5> HIDE DEF m
        <5> QED BY <2>2, <4>1, <4>2, <5>2
      <4>3. CASE ~(m + r >= 60)
        <5>1. After(s[y], r) = [hour |-> s[y].hour, minute |-> m + r]
          BY <4>3 DEF After
        <5>2. After(s[y], r).minute = m + r
          BY <5>1
        <5> HIDE DEF m
        <5> QED BY <2>2, <4>1, <4>3, <5>2
      <4> QED BY <4>2, <4>3
    <3> QED BY <1>2, <2>1, <2>3, <3>1 DEF Following, r
  <2>4. CASE ~(r > 0 /\ s[y].hour < 24)
    BY <1>2, <2>1, <2>4 DEF Following, r
  <2> QED BY <2>3, <2>4
<1>3. Zones \subseteq S
  <2> HIDE DEF S
  <2> QED BY <1>1, <1>2, ZoneInduction
<1> QED BY <1>3

\* After adds the runtime to the minute of the day, whatever the runtime.
LEMMA AfterAdds ==
    ASSUME NEW t \in ClockTimes, NEW r \in Int
    PROVE  MinuteOfDay(After(t, r)) = MinuteOfDay(t) + r
<1>1. t.hour \in Nat /\ t.minute \in Nat
  BY DEF ClockTimes
<1>2. CASE t.minute + r >= 60
  <2>1. After(t, r) = [hour |-> t.hour + 1, minute |-> (t.minute + r) - 60]
    BY <1>2 DEF After
  <2>2. MinuteOfDay(After(t, r)) = 60 * (t.hour + 1) + ((t.minute + r) - 60)
    BY <2>1 DEF MinuteOfDay
  <2> QED BY <1>1, <2>2 DEF MinuteOfDay
<1>3. CASE ~(t.minute + r >= 60)
  <2>1. After(t, r) = [hour |-> t.hour, minute |-> t.minute + r]
    BY <1>3 DEF After
  <2> QED BY <1>1, <2>1 DEF MinuteOfDay
<1> QED BY <1>2, <1>3

\* The line after a line starts when that one is done.
LEMMA LinesFollow ==
    ASSUME NEW c \in Calendars, NEW y \in 0..N,
           NEW k \in FirstLines(c, y), NEW l \in FirstLines(c, y), k.zone < l.zone,
           ~(\E j \in FirstLines(c, y) : k.zone < j.zone /\ j.zone < l.zone)
    PROVE  MinuteOfDay(l) = MinuteOfDay(k) + k.runtime
<1> DEFINE s == StartOf(c)
<1>1. /\ k.zone \in Zones /\ HasLine(c, k.zone) /\ k = LineOf(c, k.zone)
      /\ l.zone \in Zones /\ HasLine(c, l.zone) /\ l = LineOf(c, l.zone) /\ l.zone <= y
  BY RunLinesAre DEF FirstLines
<1>2. k.zone + 1 \in Zones /\ k.zone + 1 <= l.zone
  <2>1. k.zone \in Zones /\ l.zone \in Zones
    BY <1>1
  <2> QED BY <2>1, ScheduleAssumption DEF Zones
<1>3. ASSUME NEW z \in Zones, k.zone + 1 <= z, z < l.zone, HasLine(c, z) PROVE FALSE
  <2>1. LineOf(c, z).zone = z
    BY DEF LineOf
  <2>2. LineOf(c, z) \in RunLines(c)
    BY <1>3, <2>1, RunLinesAre
  <2>3. z <= y /\ k.zone < z
    BY <1>1, <1>3 DEF Zones
  <2> QED BY <1>3, <2>1, <2>2, <2>3 DEF FirstLines
<1>4. Scheduled(c)
  BY <1>1 DEF HasLine
<1>5. s[l.zone] = s[k.zone + 1]
  <2> HIDE DEF s
  <2> QED BY <1>1, <1>2, <1>3, <1>4, SameStartUntilNextLine DEF s
<1>6. s[k.zone + 1] = After(s[k.zone], c.zruntimes[k.zone])
  <2>1. s[k.zone + 1] = Following(c, k.zone, s[k.zone])
    BY <1>1, <1>2, <1>4, StartSteps
  <2> QED BY <2>1, <1>1 DEF Following, HasLine
<1>7. s[k.zone] \in ClockTimes /\ c.zruntimes[k.zone] \in Int
  BY <1>1, <1>4, StartSteps DEF Calendars
<1>8. MinuteOfDay(s[l.zone]) = MinuteOfDay(s[k.zone]) + c.zruntimes[k.zone]
  <2> HIDE DEF s
  <2> QED BY <1>5, <1>6, <1>7, AfterAdds
<1>9. /\ l.hour = s[l.zone].hour /\ l.minute = s[l.zone].minute
      /\ k.hour = s[k.zone].hour /\ k.minute = s[k.zone].minute
      /\ k.runtime = c.zruntimes[k.zone]
  BY <1>1 DEF LineOf
<1> QED BY <1>8, <1>9 DEF MinuteOfDay

-----------------------------------------------------------------------------
(***************************************************************************)
(* What read_cron makes of these lines.                                     *)
(***************************************************************************)
\* The first two digits of a runtime are a number below 100, never more than the
\* runtime, and the runtime itself when it has two digits.
LEMMA TwoDigitsIs ==
    ASSUME NEW n \in Nat, n > 0, n <= INT_MAX
    PROVE  /\ TwoDigits(n) \in 0..99 /\ TwoDigits(n) <= n
           /\ n <= 99 => TwoDigits(n) = n
<1> DEFINE P(m) == \E p \in PowersOfTen : m = n \div p /\ (p > 1 => m >= 10)
<1>1. \A p \in PowersOfTen : p \in Nat \ {0}
  BY SMT DEF PowersOfTen
<1>2. \A p \in PowersOfTen : n \div p \in Nat /\ n \div p <= n /\ (n <= 99 /\ p > 1 => n \div p < 10)
  <2>1. n \div 1 \in Nat /\ n \div 1 <= n
    BY SMT
  <2>2. n \div 10 \in Nat /\ n \div 10 <= n /\ (n <= 99 => n \div 10 < 10)
    BY SMT
  <2>3. n \div 100 \in Nat /\ n \div 100 <= n /\ (n <= 99 => n \div 100 < 10)
    BY SMT
  <2>4. n \div 1000 \in Nat /\ n \div 1000 <= n /\ (n <= 99 => n \div 1000 < 10)
    BY SMT
  <2>5. n \div 10000 \in Nat /\ n \div 10000 <= n /\ (n <= 99 => n \div 10000 < 10)
    BY SMT
  <2>6. n \div 100000 \in Nat /\ n \div 100000 <= n /\ (n <= 99 => n \div 100000 < 10)
    BY SMT
  <2>7. n \div 1000000 \in Nat /\ n \div 1000000 <= n /\ (n <= 99 => n \div 1000000 < 10)
    BY SMT
  <2>8. n \div 10000000 \in Nat /\ n \div 10000000 <= n /\ (n <= 99 => n \div 10000000 < 10)
    BY SMT
  <2>9. n \div 100000000 \in Nat /\ n \div 100000000 <= n /\ (n <= 99 => n \div 100000000 < 10)
    BY SMT
  <2> QED BY <2>1, <2>2, <2>3, <2>4, <2>5, <2>6, <2>7, <2>8, <2>9, SMT DEF PowersOfTen
<1>3. \E m \in 0..99 : P(m)
  <2>1. CASE n <= 99
    <3>1. n \div 1 = n /\ 1 \in PowersOfTen
      BY SMT DEF PowersOfTen
    <3> QED BY <2>1, <3>1
  <2>2. CASE n > 99
    <3>1. \E p \in PowersOfTen : p > 1 /\ n \div p \in 10..99
      <4>1. CASE n < 1000
        <5>1. n \div 10 \in 10..99
          BY <2>2, <4>1, SMT
        <5> QED BY <5>1, SMT DEF PowersOfTen
      <4>2. CASE n >= 1000 /\ n < 10000
        <5>1. n \div 100 \in 10..99
          BY <4>2, SMT
        <5> QED BY <5>1, SMT DEF PowersOfTen
      <4>3. CASE n >= 10000 /\ n < 100000
        <5>1. n \div 1000 \in 10..99
          BY <4>3, SMT
        <5> QED BY <5>1, SMT DEF PowersOfTen
      <4>4. CASE n >= 100000 /\ n < 1000000
        <5>1. n \div 10000 \in 10..99
          BY <4>4, SMT
        <5> QED BY <5>1, SMT DEF PowersOfTen
      <4>5. CASE n >= 1000000 /\ n < 10000000
        <5>1. n \div 100000 \in 10..99
          BY <4>5, SMT
        <5> QED BY <5>1, SMT DEF PowersOfTen
      <4>6. CASE n >= 10000000 /\ n < 100000000
        <5>1. n \div 1000000 \in 10..99
          BY <4>6, SMT
        <5> QED BY <5>1, SMT DEF PowersOfTen
      <4>7. CASE n >= 100000000 /\ n < 1000000000
        <5>1. n \div 10000000 \in 10..99
          BY <4>7, SMT
        <5> QED BY <5>1, SMT DEF PowersOfTen
      <4>8. CASE n >= 1000000000
        <5>1. n \div 100000000 \in 10..99
          BY <4>8, SMT DEF INT_MAX
        <5> QED BY <5>1, SMT DEF PowersOfTen
      <4> QED BY <4>1, <4>2, <4>3, <4>4, <4>5, <4>6, <4>7, <4>8, SMT
    <3>2. PICK p \in PowersOfTen : p > 1 /\ n \div p \in 10..99
      BY <3>1
    <3> DEFINE m == n \div p
    <3>3. m \in 0..99 /\ m >= 10
      BY <3>2
    <3> HIDE DEF m
    <3>4. P(m)
      BY <3>3 DEF m
    <3> QED BY <3>3, <3>4
  <2> QED BY <2>1, <2>2
<1>4. TwoDigits(n) = CHOOSE m \in 0..99 : P(m)
  BY DEF TwoDigits
<1> HIDE DEF P
<1>5. TwoDigits(n) \in 0..99 /\ P(TwoDigits(n))
  BY <1>3, <1>4
<1>6. PICK p \in PowersOfTen :
          TwoDigits(n) = n \div p /\ (p > 1 => TwoDigits(n) >= 10)
  BY <1>5 DEF P
<1>7. TwoDigits(n) <= n
  BY <1>2, <1>6
<1>8. ASSUME n <= 99 PROVE TwoDigits(n) = n
  <2>1. CASE p = 1
    BY <1>6, <2>1
  <2>2. CASE p # 1
    <3>1. n \div p < 10
      BY <1>1, <1>2, <1>8, <2>2
    <3> QED BY <1>1, <1>5, <1>6, <2>2, <3>1
  <2> QED BY <2>1, <2>2
<1> QED BY <1>5, <1>7, <1>8

\* The runtimes read back are those of the lines that are there.
LEMMA ReadRuntimesAre ==
    ASSUME NEW c \in Calendars, NEW y \in 0..N, NEW z \in Zones
    PROVE  ReadRuntimes(FirstLines(c, y))[z] =
              IF HasLine(c, z) /\ z <= y THEN TwoDigits(c.zruntimes[z]) ELSE 0
<1> DEFINE lines == FirstLines(c, y)
<1>1. \A l \in lines : l.zone \in Zones /\ l.zone <= y /\ HasLine(c, l.zone) /\ l = LineOf(c, l.zone)
  BY RunLinesAre DEF FirstLines
<1>2. CASE HasLine(c, z) /\ z <= y
  <2>1. LineOf(c, z).zone = z /\ LineOf(c, z).runtime = c.zruntimes[z]
    BY DEF LineOf
  <2>2. LineOf(c, z) \in lines
    BY <1>2, <2>1, RunLinesAre DEF FirstLines
  <2> HIDE DEF lines
  <2>3. (CHOOSE l \in lines : l.zone = z) = LineOf(c, z)
    BY <1>1, <2>1, <2>2
  <2> QED BY <1>2, <2>1, <2>2, <2>3 DEF ReadRuntimes, lines
<1>3. CASE ~(HasLine(c, z) /\ z <= y)
  <2>1. ~(\E l \in lines : l.zone = z)
    BY <1>1, <1>3
  <2> QED BY <1>3, <2>1 DEF ReadRuntimes
<1> QED BY <1>2, <1>3

\* The first line of a day starts at the start time of the day.
LEMMA FirstLineIs ==
    ASSUME NEW c \in Calendars, NEW y \in 0..N, FirstLines(c, y) # {}
    PROVE  \E f \in Zones :
              /\ f <= y /\ HasLine(c, f)
              /\ \A z \in Zones : HasLine(c, z) => f <= z
              /\ StartOf(c)[f] = [hour |-> c.hour, minute |-> c.minute]
              /\ ReadDay(FirstLines(c, y)) =
                    [hour |-> c.hour, minute |-> c.minute,
                     zruntimes |-> ReadRuntimes(FirstLines(c, y))]
<1> DEFINE lines == FirstLines(c, y)
           T == {z \in Zones : HasLine(c, z)}
<1>1. \A l \in lines : l.zone \in Zones /\ l.zone <= y /\ HasLine(c, l.zone) /\ l = LineOf(c, l.zone)
  BY RunLinesAre DEF FirstLines
<1>2. PICK f \in T : \A z \in T : f <= z
  <2>1. T \subseteq Nat /\ T # {}
    BY <1>1 DEF Zones
  <2> HIDE DEF T
  <2> QED BY <2>1, LeastOf
<1>3. f \in Zones /\ f <= y /\ HasLine(c, f) /\ \A z \in Zones : HasLine(c, z) => f <= z
  <2>1. PICK l \in lines : TRUE
    OBVIOUS
  <2>2. f <= l.zone /\ l.zone <= y /\ l.zone \in Zones
    BY <1>1, <1>2
  <2> QED BY <1>2, <2>2 DEF Zones
<1>4. StartOf(c)[f] = [hour |-> c.hour, minute |-> c.minute]
  <2>1. Scheduled(c)
    BY <1>3 DEF HasLine
  <2>2. 1 \in Zones /\ 1 <= f
    BY <1>3, ScheduleAssumption DEF Zones
  <2>3. \A z \in Zones : 1 <= z /\ z < f => ~HasLine(c, z)
    BY <1>3 DEF Zones
  <2>4. StartOf(c)[f] = StartOf(c)[1]
    BY <1>3, <2>1, <2>2, <2>3, SameStartUntilNextLine
  <2> QED BY <2>1, <2>4, StartSteps
<1>5. /\ LineOf(c, f).zone = f /\ LineOf(c, f).hour = c.hour /\ LineOf(c, f).minute = c.minute
      /\ LineOf(c, f) \in lines
  <2>1. LineOf(c, f).zone = f /\ LineOf(c, f).hour = c.hour /\ LineOf(c, f).minute = c.minute
    BY <1>4 DEF LineOf
  <2>2. LineOf(c, f) \in RunLines(c)
    BY <1>3, <2>1, RunLinesAre
  <2> QED BY <1>3, <2>1, <2>2 DEF FirstLines
<1>6. (CHOOSE l \in lines : \A k \in lines : l.zone <= k.zone) = LineOf(c, f)
  <2> HIDE DEF lines
  <2>1. \A k \in lines : f <= k.zone
    BY <1>1, <1>3
  <2>2. ASSUME NEW l \in lines, \A k \in lines : l.zone <= k.zone PROVE l = LineOf(c, f)
    <3>1. l.zone = f
      BY <1>1, <1>3, <1>5, <2>1, <2>2 DEF Zones
    <3> QED BY <1>1, <3>1
  <2> QED BY <1>5, <2>1, <2>2
<1>7. ReadDay(lines) = [hour |-> c.hour, minute |-> c.minute, zruntimes |-> ReadRuntimes(lines)]
  <2> HIDE DEF lines
  <2> QED BY <1>5, <1>6 DEF ReadDay
<1> QED BY <1>3, <1>4, <1>7

\* The empty calendar of a day, to which read_cron resets it first.
LEMMA NoDayIs ==
    ASSUME NEW limit \in Nat
    PROVE  /\ ReadDay({}) \in Cals(limit)
           /\ ~Scheduled(ReadDay({}))
           /\ RunLines(ReadDay({})) = {}
<1>1. ReadDay({}) = [hour |-> -1, minute |-> -1, zruntimes |-> NoWater]
  BY DEF ReadDay
<1>2. ReadDay({}).hour = -1 /\ ReadDay({}).minute = -1 /\ ReadDay({}).zruntimes = NoWater
  BY <1>1
<1>3. NoWater \in [Zones -> Int] /\ \A z \in Zones : NoWater[z] = 0
  BY DEF NoWater
<1>4. ReadDay({}) \in Calendars
  BY <1>1, <1>3 DEF Calendars
<1>5. Short(ReadDay({}), limit)
  BY <1>2, <1>3 DEF Short
<1>6. ~Scheduled(ReadDay({}))
  BY <1>2 DEF Scheduled
<1> QED BY <1>2, <1>4, <1>5, <1>6 DEF Cals, RunLines

\* A day that is read back has its start time again, and no runtime is longer than it was.
LEMMA ReadDayIs ==
    ASSUME NEW limit \in Nat, limit <= INT_MAX, NEW c \in Cals(limit), NEW y \in 0..N
    PROVE  /\ ReadDay(FirstLines(c, y)) \in Cals(limit)
           /\ Scheduled(ReadDay(FirstLines(c, y))) =>
                 /\ ReadDay(FirstLines(c, y)).hour = c.hour
                 /\ ReadDay(FirstLines(c, y)).minute = c.minute
<1> DEFINE lines == FirstLines(c, y)
<1>1. CASE lines = {}
  BY <1>1, NoDayIs
<1>2. CASE lines # {}
  <2>1. c \in Calendars
    BY DEF Cals
  <2>2. ReadDay(lines) = [hour |-> c.hour, minute |-> c.minute, zruntimes |-> ReadRuntimes(lines)]
    BY <1>2, <2>1, FirstLineIs
  <2>3. Scheduled(c)
    <3>1. PICK l \in lines : TRUE
      BY <1>2
    <3>2. HasLine(c, l.zone)
      BY RunLinesAre DEF FirstLines
    <3> QED BY <3>2 DEF HasLine
  <2>4. ASSUME NEW z \in Zones
        PROVE  ReadRuntimes(lines)[z] \in Int /\ ReadRuntimes(lines)[z] <= limit
    <3>1. c.zruntimes[z] \in Int /\ c.zruntimes[z] <= limit
      BY <2>1 DEF Cals, Short, Calendars
    <3>2. CASE HasLine(c, z) /\ z <= y
      <4>1. c.zruntimes[z] \in Nat /\ c.zruntimes[z] > 0 /\ c.zruntimes[z] <= INT_MAX
        <5>1. INT_MAX \in Int
          BY SMT DEF INT_MAX
        <5> QED BY <3>1, <3>2, <5>1 DEF HasLine
      <4>2. TwoDigits(c.zruntimes[z]) \in 0..99 /\ TwoDigits(c.zruntimes[z]) <= c.zruntimes[z]
        BY <4>1, TwoDigitsIs
      <4> QED BY <2>1, <3>1, <3>2, <4>2, ReadRuntimesAre
    <3>3. CASE ~(HasLine(c, z) /\ z <= y)
      <4>1. ReadRuntimes(lines)[z] = 0
        BY <2>1, <3>3, ReadRuntimesAre
      <4> QED BY <4>1
    <3> QED BY <3>2, <3>3
  <2>5. ReadRuntimes(lines) \in [Zones -> Int]
    <3>1. ReadRuntimes(lines) = [z \in Zones |-> ReadRuntimes(lines)[z]]
      BY DEF ReadRuntimes
    <3> QED BY <2>4, <3>1
  <2> HIDE DEF lines
  <2>6. /\ ReadDay(lines).hour = c.hour /\ ReadDay(lines).minute = c.minute
        /\ ReadDay(lines).zruntimes = ReadRuntimes(lines)
    BY <2>2
  <2>7. ReadDay(lines) \in Calendars
    BY <2>1, <2>2, <2>5 DEF Calendars
  <2>8. Short(ReadDay(lines), limit)
    BY <2>4, <2>6 DEF Short
  <2>9. ReadDay(lines) \in Cals(limit)
    BY <2>3, <2>6, <2>7, <2>8 DEF Cals
  <2> QED BY <2>6, <2>9 DEF lines
<1> QED BY <1>1, <1>2

\* read_cron takes out of the lines what write_cron would put into them again, also when
\* only the first lines are there, if every runtime has two digits at most.
LEMMA RoundTrip ==
    ASSUME NEW c \in Cals(99), NEW y \in 0..N
    PROVE  RunLines(ReadDay(FirstLines(c, y))) = FirstLines(c, y)
<1> DEFINE lines == FirstLines(c, y)
           r == ReadDay(lines)
<1>0. c \in Calendars
  BY DEF Cals
<1>1. CASE lines = {}
  BY <1>1, NoDayIs
<1>2. CASE lines # {}
  <2>1. PICK f \in Zones :
          /\ f <= y /\ HasLine(c, f)
          /\ \A z \in Zones : HasLine(c, z) => f <= z
          /\ StartOf(c)[f] = [hour |-> c.hour, minute |-> c.minute]
          /\ r = [hour |-> c.hour, minute |-> c.minute, zruntimes |-> ReadRuntimes(lines)]
    BY <1>0, <1>2, FirstLineIs
  <2>2. r \in Calendars
    <3>1. 99 <= INT_MAX
      BY SMT DEF INT_MAX
    <3>2. r \in Cals(99)
      BY <3>1, ReadDayIs
    <3> QED BY <3>2 DEF Cals
  <2>3. Scheduled(c) /\ Scheduled(r)
    BY <2>1 DEF HasLine, Scheduled
  <2>4. ASSUME NEW z \in Zones
        PROVE  r.zruntimes[z] = IF HasLine(c, z) /\ z <= y THEN c.zruntimes[z] ELSE 0
    <3>1. r.zruntimes[z] = IF HasLine(c, z) /\ z <= y THEN TwoDigits(c.zruntimes[z]) ELSE 0
      BY <1>0, <2>1, ReadRuntimesAre
    <3>2. ASSUME HasLine(c, z) PROVE TwoDigits(c.zruntimes[z]) = c.zruntimes[z]
      <4>1. c.zruntimes[z] \in Nat /\ c.zruntimes[z] > 0 /\ c.zruntimes[z] <= 99
        BY <1>0, <3>2 DEF HasLine, Cals, Short, Calendars
      <4>2. c.zruntimes[z] <= INT_MAX
        BY <4>1, SMT DEF INT_MAX
      <4> QED BY <4>1, <4>2, TwoDigitsIs
    <3> QED BY <3>1, <3>2
  <2> DEFINE S == {z \in Zones :
                     /\ z <= f => StartOf(r)[z] = StartOf(c)[f]
                     /\ f <= z /\ z <= y => StartOf(r)[z] = StartOf(c)[z]}
  <2> HIDE DEF r, lines
  <2>5. 1 \in S
    <3>1. StartOf(r)[1] = StartOf(c)[f]
      <4>1. r.hour = c.hour /\ r.minute = c.minute
        BY <2>1
      <4> QED BY <2>1, <2>2, <2>3, <4>1, StartSteps
    <3>2. f <= 1 => f = 1
      BY DEF Zones
    <3> QED BY <3>1, <3>2, ScheduleAssumption DEF Zones
  <2>6. ASSUME NEW z \in Zones, z \in S, z + 1 \in Zones PROVE z + 1 \in S
    <3>1. StartOf(r)[z + 1] = Following(r, z, StartOf(r)[z])
      BY <2>2, <2>3, <2>6, StartSteps
    <3>2. StartOf(c)[z + 1] = Following(c, z, StartOf(c)[z])
      BY <1>0, <2>3, <2>6, StartSteps
    <3>3. CASE z < f
      <4>1. ~HasLine(c, z)
        BY <2>1, <3>3 DEF Zones
      <4>2. StartOf(r)[z + 1] = StartOf(r)[z]
        BY <2>4, <3>1, <4>1 DEF Following
      <4>3. StartOf(r)[z + 1] = StartOf(c)[f]
        BY <2>6, <3>3, <4>2 DEF Zones
      <4>4. f <= z + 1 => f = z + 1
        BY <3>3 DEF Zones
      <4> QED BY <2>6, <4>3, <4>4
    <3>4. CASE f <= z /\ z + 1 <= y
      <4>1. StartOf(r)[z] = StartOf(c)[z] /\ z <= y
        BY <2>6, <3>4 DEF Zones
      <4>2. Following(r, z, StartOf(r)[z]) = Following(c, z, StartOf(c)[z])
        <5>1. CASE HasLine(c, z)
          <6>1. r.zruntimes[z] = c.zruntimes[z]
            BY <2>4, <4>1, <5>1
          <6> QED BY <4>1, <6>1 DEF Following
        <5>2. CASE ~HasLine(c, z)
          <6>1. r.zruntimes[z] = 0
            BY <2>4, <5>2
          <6> QED BY <2>3, <4>1, <5>2, <6>1 DEF Following, HasLine
        <5> QED BY <5>1, <5>2
      <4>3. ~(z + 1 <= f)
        BY <3>4 DEF Zones
      <4> QED BY <2>6, <3>1, <3>2, <4>2, <4>3
    <3>5. CASE f <= z /\ ~(z + 1 <= y)
      <4>1. ~(z + 1 <= f)
        BY <3>5 DEF Zones
      <4> QED BY <2>6, <3>5, <4>1
    <3> QED BY <3>3, <3>4, <3>5 DEF Zones
  <2>7. Zones \subseteq S
    <3> HIDE DEF S
    <3> QED BY <2>5, <2>6, ZoneInduction
  <2>8. ASSUME NEW z \in Zones PROVE HasLine(r, z) <=> HasLine(c, z) /\ z <= y
    <3>1. CASE HasLine(c, z) /\ z <= y
      <4>1. f <= z
        BY <2>1, <3>1
      <4>2. StartOf(r)[z] = StartOf(c)[z]
        BY <2>7, <3>1, <4>1
      <4> QED BY <2>3, <2>4, <3>1, <4>2 DEF HasLine
    <3>2. CASE ~(HasLine(c, z) /\ z <= y)
      <4>1. r.zruntimes[z] = 0
        BY <2>4, <3>2
      <4> QED BY <3>2, <4>1 DEF HasLine
    <3> QED BY <3>1, <3>2
  <2>9. ASSUME NEW z \in Zones, HasLine(c, z), z <= y PROVE LineOf(r, z) = LineOf(c, z)
    <3>1. f <= z
      BY <2>1, <2>9
    <3>2. StartOf(r)[z] = StartOf(c)[z]
      BY <2>7, <2>9, <3>1
    <3> QED BY <2>4, <2>9, <3>2 DEF LineOf
  <2>10. ASSUME NEW l PROVE l \in RunLines(r) <=> l \in lines
    <3>1. l \in RunLines(r) <=> l.zone \in Zones /\ HasLine(r, l.zone) /\ l = LineOf(r, l.zone)
      BY RunLinesAre
    <3>2. l \in lines <=> l.zone \in Zones /\ HasLine(c, l.zone) /\ l = LineOf(c, l.zone) /\ l.zone <= y
      BY RunLinesAre DEF FirstLines, lines
    <3> QED BY <2>8, <2>9, <3>1, <3>2
  <2> QED BY <2>10 DEF r, lines
<1> QED BY <1>1, <1>2

-----------------------------------------------------------------------------
(***************************************************************************)
(* The inductive invariant.                                                 *)
(***************************************************************************)
\* The lines that read_cron takes are those of some calendar, all of them or the first
\* ones, with commands that belong to it.  A line cut in two counts as that of a calendar
\* with a shorter runtime, so the whole lines are the first of those taken.
Written(lines, limit) ==
    \E c \in Cals(limit), x, y \in 0..N :
        /\ lines.runs \cup lines.tail = FirstLines(c, y)
        /\ lines.runs = FirstLines(c, x)
        /\ lines.before \subseteq BeforeLines(c)

Clean == proc = "up" /\ pending = NoUpdate /\ ~lost

Inv(limit) ==
    /\ pending \in NoUpdate..(TIMEDIFF_CRON_UPDATE + 1)
    /\ proc \in {"up", "down"}
    /\ lost \in BOOLEAN
    /\ whole \in BOOLEAN
    /\ cron \in [Days -> Cals(limit)]
    /\ \A d \in Days : Written(crontab[d], limit) /\ (whole => crontab[d].tail = {})
    /\ Clean => \A d \in Days : /\ limit <= 99 => RunLines(cron[d]) = Taken(d)
                                /\ Scheduled(cron[d]) => crontab[d].before \subseteq BeforeLines(cron[d])

\* Runtimes that a request may carry, up to a limit.
UpTo(limit) == limit \in Nat /\ limit <= INT_MAX /\ \A r \in Runtimes : r <= limit

LEMMA AllLinesAreFirst ==
    ASSUME NEW c \in Calendars
    PROVE  FirstLines(c, N) = RunLines(c)
BY RunLinesAre, ScheduleAssumption DEF FirstLines, Zones

LEMMA NoLinesAreWritten ==
    ASSUME NEW limit \in Nat
    PROVE  Written(NoLines, limit)
<1> DEFINE c == ReadDay({})
<1>1. c \in Cals(limit) /\ FirstLines(c, 0) = {}
  BY NoDayIs DEF FirstLines
<1>2. NoLines.runs = {} /\ NoLines.tail = {} /\ NoLines.before = {}
  BY DEF NoLines
<1> HIDE DEF c
<1> QED BY <1>1, <1>2, ScheduleAssumption DEF Written

\* The times up to a line do not depend on the runtimes from that line on.
LEMMA SameStarts ==
    ASSUME NEW c \in Calendars, NEW e \in Calendars, Scheduled(c), Scheduled(e),
           e.hour = c.hour, e.minute = c.minute, NEW x \in Zones,
           \A z \in Zones : z < x => e.zruntimes[z] = c.zruntimes[z]
    PROVE  \A z \in Zones : z <= x => StartOf(e)[z] = StartOf(c)[z]
<1> DEFINE S == {z \in Zones : z <= x => StartOf(e)[z] = StartOf(c)[z]}
<1>0. /\ StartOf(c)[1] = [hour |-> c.hour, minute |-> c.minute]
      /\ StartOf(e)[1] = [hour |-> e.hour, minute |-> e.minute]
      /\ \A z \in Zones : z + 1 \in Zones =>
            /\ StartOf(c)[z + 1] = Following(c, z, StartOf(c)[z])
            /\ StartOf(e)[z + 1] = Following(e, z, StartOf(e)[z])
  BY StartSteps
<1>1. 1 \in S
  BY <1>0, ScheduleAssumption DEF Zones
<1>2. ASSUME NEW z \in Zones, z \in S, z + 1 \in Zones PROVE z + 1 \in S
  <2> SUFFICES ASSUME z + 1 <= x PROVE StartOf(e)[z + 1] = StartOf(c)[z + 1]
    BY <1>2
  <2>1. z < x /\ z <= x
    BY DEF Zones
  <2>2. StartOf(e)[z] = StartOf(c)[z] /\ e.zruntimes[z] = c.zruntimes[z]
    BY <1>2, <2>1
  <2>3. Following(e, z, StartOf(e)[z]) = Following(c, z, StartOf(c)[z])
    BY <2>2 DEF Following
  <2> QED BY <1>0, <1>2, <2>3
<1>3. Zones \subseteq S
  <2> HIDE DEF S
  <2> QED BY <1>1, <1>2, ZoneInduction
<1> QED BY <1>3

\* A number is not less than what division leaves of it.
LEMMA QuotientIs ==
    ASSUME NEW n \in Nat, NEW p \in PowersOfTen, n >= p
    PROVE  n \div p \in Nat /\ n \div p > 0 /\ n \div p <= n
<1>1. CASE p = 1
  BY <1>1, SMT
<1>2. CASE p = 10
  BY <1>2, SMT
<1>3. CASE p = 100
  BY <1>3, SMT
<1>4. CASE p = 1000
  BY <1>4, SMT
<1>5. CASE p = 10000
  BY <1>5, SMT
<1>6. CASE p = 100000
  BY <1>6, SMT
<1>7. CASE p = 1000000
  BY <1>7, SMT
<1>8. CASE p = 10000000
  BY <1>8, SMT
<1>9. CASE p = 100000000
  BY <1>9, SMT
<1> QED BY <1>1, <1>2, <1>3, <1>4, <1>5, <1>6, <1>7, <1>8, <1>9, SMT DEF PowersOfTen

\* A line cut in two is the line of a calendar whose runtime is cut like it.
LEMMA TornIsALine ==
    ASSUME NEW limit \in Nat, NEW c \in Cals(limit), NEW l \in Torn(c)
    PROVE  /\ l.zone \in Zones
           /\ \E e \in Cals(limit) :
                 /\ FirstLines(e, l.zone) = FirstLines(c, l.zone - 1) \cup {l}
                 /\ FirstLines(e, l.zone - 1) = FirstLines(c, l.zone - 1)
<1>1. PICK k \in RunLines(c), p \in PowersOfTen :
          k.runtime >= p /\ l = [k EXCEPT !.runtime = k.runtime \div p]
  BY DEF Torn
<1> DEFINE x == k.zone
           r == k.runtime \div p
           e == [c EXCEPT !.zruntimes = [c.zruntimes EXCEPT ![x] = r]]
<1>2. x \in Zones /\ HasLine(c, x) /\ k = LineOf(c, x)
  BY RunLinesAre
<1>3. c \in Calendars /\ Short(c, limit) /\ c.zruntimes \in [Zones -> Int]
  BY DEF Cals, Calendars
<1>4. k.runtime = c.zruntimes[x] /\ k.runtime \in Nat /\ k.runtime > 0 /\ k.runtime <= limit
  BY <1>2, <1>3 DEF LineOf, HasLine, Short
<1>5. r \in Nat /\ r > 0 /\ r <= limit
  <2>1. r \in Nat /\ r > 0 /\ r <= k.runtime
    BY <1>1, <1>4, QuotientIs
  <2> HIDE DEF r
  <2> QED BY <1>4, <2>1
<1>6. /\ l.zone = x /\ l.runtime = r
      /\ l.hour = StartOf(c)[x].hour /\ l.minute = StartOf(c)[x].minute
      /\ l = [zone |-> x, runtime |-> r, hour |-> StartOf(c)[x].hour, minute |-> StartOf(c)[x].minute]
  <2> HIDE DEF x, r
  <2>1. k = [zone |-> x, runtime |-> c.zruntimes[x],
             hour |-> StartOf(c)[x].hour, minute |-> StartOf(c)[x].minute]
    BY <1>2 DEF LineOf
  <2>2. l = [k EXCEPT !.runtime = r]
    BY <1>1 DEF r
  <2>3. l = [zone |-> x, runtime |-> r,
             hour |-> StartOf(c)[x].hour, minute |-> StartOf(c)[x].minute]
    BY <2>1, <2>2
  <2> QED BY <2>3
<1> HIDE DEF x, r
<1>7. /\ e.hour = c.hour /\ e.minute = c.minute
      /\ e.zruntimes = [c.zruntimes EXCEPT ![x] = r]
      /\ e \in Calendars
  BY <1>3, <1>5 DEF Calendars
<1> HIDE DEF e
<1>8. /\ \A z \in Zones : z # x => e.zruntimes[z] = c.zruntimes[z]
      /\ e.zruntimes[x] = r
  BY <1>2, <1>3, <1>7
<1>9. e \in Cals(limit)
  <2>1. Short(e, limit)
    BY <1>3, <1>5, <1>8 DEF Short
  <2> QED BY <1>7, <2>1 DEF Cals
<1>10. Scheduled(c) /\ Scheduled(e)
  BY <1>2, <1>7 DEF HasLine, Scheduled
<1>11. \A z \in Zones : z <= x => StartOf(e)[z] = StartOf(c)[z]
  <2>1. \A z \in Zones : z < x => e.zruntimes[z] = c.zruntimes[z]
    BY <1>2, <1>8 DEF Zones
  <2> QED BY <1>2, <1>3, <1>7, <1>10, <2>1, SameStarts
<1>12. ASSUME NEW z \in Zones, z < x
       PROVE  (HasLine(e, z) <=> HasLine(c, z)) /\ LineOf(e, z) = LineOf(c, z)
  <2>1. StartOf(e)[z] = StartOf(c)[z] /\ e.zruntimes[z] = c.zruntimes[z]
    BY <1>2, <1>8, <1>11, <1>12 DEF Zones
  <2> QED BY <1>10, <2>1 DEF HasLine, LineOf
<1>13. HasLine(e, x) /\ LineOf(e, x) = l
  <2>1. StartOf(e)[x] = StartOf(c)[x]
    BY <1>2, <1>11 DEF Zones
  <2> QED BY <1>2, <1>5, <1>6, <1>8, <1>10, <2>1 DEF HasLine, LineOf
<1>14. ASSUME NEW y
       PROVE  /\ y \in FirstLines(e, x - 1) <=> y \in FirstLines(c, x - 1)
              /\ y \in FirstLines(e, x) <=> y \in FirstLines(c, x - 1) \/ y = l
  <2>1. /\ y \in RunLines(e) <=> y.zone \in Zones /\ HasLine(e, y.zone) /\ y = LineOf(e, y.zone)
        /\ y \in RunLines(c) <=> y.zone \in Zones /\ HasLine(c, y.zone) /\ y = LineOf(c, y.zone)
    BY RunLinesAre
  <2>2. l \in RunLines(e)
    BY <1>2, <1>6, <1>13, RunLinesAre
  <2>3. y.zone \in Zones => /\ (y.zone <= x - 1 <=> y.zone < x)
                            /\ (y.zone <= x <=> y.zone < x \/ y.zone = x)
    BY <1>2 DEF Zones
  <2>4. y.zone \in Zones /\ y.zone < x => (y \in RunLines(e) <=> y \in RunLines(c))
    BY <1>12, <2>1
  <2>5. y.zone = x => (y \in RunLines(e) <=> y = l)
    BY <1>2, <1>13, <2>1, <2>2
  <2>6. x <= x
    BY <1>2 DEF Zones
  <2> QED BY <1>6, <2>1, <2>2, <2>3, <2>4, <2>5, <2>6 DEF FirstLines
<1>15. FirstLines(e, x) = FirstLines(c, x - 1) \cup {l} /\ FirstLines(e, x - 1) = FirstLines(c, x - 1)
  BY <1>14
<1> QED BY <1>2, <1>6, <1>9, <1>15

\* The commands of a day depend on its start time only.
LEMMA CutsAreWritten ==
    ASSUME NEW limit \in Nat, NEW c \in Cals(limit), NEW cut \in Cuts(c)
    PROVE  Written(cut, limit)
<1> USE ScheduleAssumption
<1>1. c \in Calendars
  BY DEF Cals
<1>2. ASSUME NEW z \in 0..N, cut = [runs |-> FirstLines(c, z), tail |-> {}, before |-> {}]
      PROVE  Written(cut, limit)
  <2>1. cut.runs = FirstLines(c, z) /\ cut.tail = {} /\ cut.before = {}
    BY <1>2
  <2> QED BY <2>1 DEF Written
<1>3. ASSUME NEW l \in Torn(c),
             cut = [runs |-> FirstLines(c, l.zone - 1), tail |-> {l}, before |-> {}]
      PROVE  Written(cut, limit)
  <2>1. cut.runs = FirstLines(c, l.zone - 1) /\ cut.tail = {l} /\ cut.before = {}
    BY <1>3
  <2>2. PICK e \in Cals(limit) :
            /\ FirstLines(e, l.zone) = FirstLines(c, l.zone - 1) \cup {l}
            /\ FirstLines(e, l.zone - 1) = FirstLines(c, l.zone - 1)
    BY TornIsALine
  <2>3. l.zone \in 0..N /\ l.zone - 1 \in 0..N
    BY TornIsALine DEF Zones
  <2> QED BY <2>1, <2>2, <2>3 DEF Written
<1>4. ASSUME NEW part \in SUBSET BeforeLines(c),
             cut = [runs |-> RunLines(c), tail |-> {}, before |-> part]
      PROVE  Written(cut, limit)
  <2>1. cut.runs = FirstLines(c, N) /\ cut.tail = {} /\ cut.before \subseteq BeforeLines(c)
    BY <1>1, <1>4, AllLinesAreFirst
  <2>2. N \in 0..N
    OBVIOUS
  <2> QED BY <2>1, <2>2 DEF Written
<1> QED BY <1>2, <1>3, <1>4 DEF Cuts

LEMMA InitHolds ==
    ASSUME NEW limit, UpTo(limit), Init
    PROVE  Inv(limit)
<1> USE ScheduleAssumption DEF UpTo, Init
<1>1. pending \in NoUpdate..(TIMEDIFF_CRON_UPDATE + 1)
  BY DEF NoUpdate
<1>2. cron \in [Days -> Cals(limit)]
  BY NoDayIs
<1>3. \A d \in Days : Written(crontab[d], limit)
  BY NoLinesAreWritten
<1>4. \A d \in Days : /\ crontab[d].runs = {} /\ crontab[d].tail = {} /\ crontab[d].before = {}
                     /\ RunLines(cron[d]) = {}
  BY NoDayIs DEF NoLines
<1> QED BY <1>1, <1>2, <1>3, <1>4 DEF Inv, Taken

\* An edit leaves a calendar of the days.
LEMMA EditKeeps ==
    ASSUME NEW limit, UpTo(limit), Inv(limit), Edit
    PROVE  Inv(limit)'
<1> USE ScheduleAssumption DEF UpTo
<1>1. cron' \in [Days -> Cals(limit)]
  <2>1. cron \in [Days -> Cals(limit)]
    BY DEF Inv
  <2>2. ASSUME NEW d \in Days, NEW z \in Zones, NEW r \in Runtimes, ZoneRuntime(d, z, r)
        PROVE  cron' \in [Days -> Cals(limit)]
    <3> DEFINE c == [cron[d] EXCEPT !.zruntimes[z] = r]
    <3>1. cron[d] \in Cals(limit)
      BY <2>1
    <3>2. cron[d] \in Calendars /\ Short(cron[d], limit) /\ r \in Int /\ r <= limit
      BY <3>1 DEF Cals
    <3>3. c \in Calendars /\ c.hour = cron[d].hour /\ c.minute = cron[d].minute
          /\ c.zruntimes = [cron[d].zruntimes EXCEPT ![z] = r]
      BY <3>2 DEF Calendars
    <3>4. Short(c, limit)
      <4>1. cron[d].zruntimes \in [Zones -> Int]
        BY <3>2 DEF Calendars
      <4> QED BY <3>2, <3>3, <4>1 DEF Short
    <3>5. c \in Cals(limit)
      BY <3>1, <3>3, <3>4 DEF Cals
    <3>6. cron' = [cron EXCEPT ![d] = c]
      BY <2>1, <2>2 DEF ZoneRuntime
    <3> QED BY <2>1, <3>5, <3>6
  <2>3. ASSUME NEW d \in Days, NEW h \in -1..23, NEW m \in -1..59,
               (h = -1 /\ m = -1) \/ [hour |-> h, minute |-> m] \in Times,
               cron' = [cron EXCEPT ![d].hour = h, ![d].minute = m]
        PROVE  cron' \in [Days -> Cals(limit)]
    <3> DEFINE c == [cron[d] EXCEPT !.hour = h, !.minute = m]
    <3>1. cron[d] \in Calendars /\ Short(cron[d], limit)
      BY <2>1 DEF Cals
    <3>2. c \in Calendars /\ c.hour = h /\ c.minute = m /\ c.zruntimes = cron[d].zruntimes
      BY <3>1 DEF Calendars
    <3>3. c \in Cals(limit)
      BY <2>3, <3>1, <3>2 DEF Cals, Short
    <3>4. cron' = [cron EXCEPT ![d] = c]
      BY <2>1, <2>3
    <3> QED BY <2>1, <3>3, <3>4
  <2>4. ASSUME NEW d \in Days, NEW t \in Times, AddDay(d, t)
        PROVE  cron' \in [Days -> Cals(limit)]
    <3>1. t \in [hour : 0..23, minute : 0..59]
      OBVIOUS
    <3>2. t.hour \in -1..23 /\ t.minute \in -1..59 /\ [hour |-> t.hour, minute |-> t.minute] = t
      BY <3>1
    <3>3. [hour |-> t.hour, minute |-> t.minute] \in Times
      BY <3>2
    <3>4. cron' = [cron EXCEPT ![d].hour = t.hour, ![d].minute = t.minute]
      BY <2>4 DEF AddDay
    <3> QED BY <2>3, <3>2, <3>3, <3>4
  <2>5. ASSUME NEW d \in Days, RemoveDay(d)
        PROVE  cron' \in [Days -> Cals(limit)]
    <3>1. -1 \in -1..23 /\ -1 \in -1..59
      OBVIOUS
    <3>2. cron' = [cron EXCEPT ![d].hour = -1, ![d].minute = -1]
      BY <2>5 DEF RemoveDay
    <3> QED BY <2>3, <3>1, <3>2
  <2> QED BY <2>1, <2>2, <2>4, <2>5 DEF Edit
<1>2. /\ pending' = 0 /\ proc' = proc /\ lost' = lost
      /\ crontab' = crontab /\ whole' = whole
  BY DEF Edit
<1>3. ~Clean'
  BY <1>2 DEF Clean, NoUpdate
<1> QED BY <1>1, <1>2, <1>3 DEF Inv, NoUpdate

\* The write gives each day its lines; a write that fails changes nothing.
LEMMA CheckCronKeeps ==
    ASSUME NEW limit, UpTo(limit), Inv(limit), CheckCron
    PROVE  Inv(limit)'
<1> USE ScheduleAssumption DEF UpTo
<1>1. /\ pending' = NoUpdate /\ cron' = cron /\ proc' = proc
      /\ cron \in [Days -> Cals(limit)]
  BY DEF CheckCron, Inv
<1>2. CASE WriteCron /\ whole' = TRUE /\ lost' = FALSE
  <2>1. ASSUME NEW d \in Days
        PROVE  /\ crontab'[d].runs = RunLines(cron[d]) /\ crontab'[d].tail = {}
               /\ crontab'[d].before = BeforeLines(cron[d])
    BY <1>2 DEF WriteCron, DayLines
  <2>2. ASSUME NEW d \in Days PROVE Written(crontab'[d], limit)
    <3>1. cron[d] \in Cals(limit) /\ N \in 0..N
      BY <1>1
    <3>2. crontab'[d].runs = FirstLines(cron[d], N)
      BY <2>1, <3>1, AllLinesAreFirst DEF Cals
    <3> QED BY <2>1, <3>1, <3>2 DEF Written
  <2>3. ASSUME NEW d \in Days
        PROVE  /\ (RunLines(cron[d]) = Taken(d))'
               /\ (crontab[d].before \subseteq BeforeLines(cron[d]))'
    BY <1>1, <2>1 DEF Taken
  <2>4. (\A d \in Days : Written(crontab[d], limit) /\ (whole => crontab[d].tail = {}))'
    BY <2>1, <2>2
  <2>5. pending' \in NoUpdate..(TIMEDIFF_CRON_UPDATE + 1)
    BY <1>1 DEF NoUpdate
  <2>6. /\ proc' \in {"up", "down"} /\ lost' \in BOOLEAN /\ whole' \in BOOLEAN
        /\ (cron \in [Days -> Cals(limit)])'
    BY <1>1, <1>2 DEF Inv
  <2>7. (\A d \in Days : /\ limit <= 99 => RunLines(cron[d]) = Taken(d)
                         /\ Scheduled(cron[d]) => crontab[d].before \subseteq BeforeLines(cron[d]))'
    BY <2>3
  <2> HIDE ScheduleAssumption
  <2> QED BY <2>4, <2>5, <2>6, <2>7 DEF Inv
<1>3. CASE lost' = TRUE /\ UNCHANGED <<crontab, whole>>
  BY <1>1, <1>3 DEF Inv, Clean, NoUpdate
<1> QED BY <1>2, <1>3 DEF CheckCron

\* A write that is cut short leaves the first lines of a day.
LEMMA EndInWriteKeeps ==
    ASSUME NEW limit, UpTo(limit), Inv(limit), EndInWrite
    PROVE  Inv(limit)'
<1> USE ScheduleAssumption DEF UpTo
<1>1. PICK d \in Days : \E cut \in Cuts(cron[d]) :
          /\ crontab' = [e \in Days |-> IF e < d THEN DayLines(cron[e])
                                       ELSE IF e > d THEN NoLines ELSE cut]
          /\ whole' \in BOOLEAN /\ (cut.tail # {} => ~whole')
  BY DEF EndInWrite
<1>2. PICK cut \in Cuts(cron[d]) :
          /\ crontab' = [e \in Days |-> IF e < d THEN DayLines(cron[e])
                                       ELSE IF e > d THEN NoLines ELSE cut]
          /\ whole' \in BOOLEAN /\ (cut.tail # {} => ~whole')
  BY <1>1
<1>3. proc' = "down" /\ cron' = cron /\ pending' = pending /\ lost' = lost
  BY DEF EndInWrite
<1>4. ASSUME NEW e \in Days
      PROVE  Written(crontab'[e], limit) /\ (whole' => crontab'[e].tail = {})
  <2>1. cron[e] \in Cals(limit) /\ cron[e] \in Calendars
    BY DEF Inv, Cals
  <2>2. CASE e < d
    <3>1. /\ crontab'[e].runs = FirstLines(cron[e], N) /\ crontab'[e].tail = {}
          /\ crontab'[e].before = BeforeLines(cron[e])
      BY <1>2, <2>1, <2>2, AllLinesAreFirst DEF DayLines
    <3>2. N \in 0..N
      OBVIOUS
    <3> QED BY <2>1, <3>1, <3>2 DEF Written
  <2>3. CASE e > d
    <3>1. crontab'[e] = NoLines
      BY <1>2, <2>3
    <3>2. NoLines.tail = {}
      BY DEF NoLines
    <3> QED BY <3>1, <3>2, NoLinesAreWritten
  <2>4. CASE e = d
    <3>1. crontab'[e] = cut
      BY <1>2, <2>4
    <3> QED BY <1>2, <2>1, <2>4, <3>1, CutsAreWritten
  <2> QED BY <2>2, <2>3, <2>4
<1>5. ~Clean'
  BY <1>3 DEF Clean
<1> QED BY <1>2, <1>3, <1>4, <1>5 DEF Inv

\* A start reads the calendar back.
LEMMA StartKeeps ==
    ASSUME NEW limit, UpTo(limit), Inv(limit), Start
    PROVE  Inv(limit)'
<1> USE ScheduleAssumption DEF UpTo
<1>1. /\ proc' = "up" /\ pending' = NoUpdate /\ lost' = FALSE
      /\ crontab' = crontab /\ whole' = whole
      /\ cron' = [d \in Days |-> ReadDay(Taken(d))]
  BY DEF Start, ReadCron
<1>2. ASSUME NEW d \in Days
      PROVE  /\ cron'[d] \in Cals(limit)
             /\ limit <= 99 => RunLines(cron'[d]) = Taken(d)
             /\ Scheduled(cron'[d]) => crontab[d].before \subseteq BeforeLines(cron'[d])
  <2>1. PICK c \in Cals(limit), y \in 0..N :
            Taken(d) = FirstLines(c, y) /\ crontab[d].before \subseteq BeforeLines(c)
    BY DEF Inv, Written, Taken
  <2>2. cron'[d] = ReadDay(FirstLines(c, y))
    BY <1>1, <2>1
  <2>3. limit <= 99 => c \in Cals(99)
    <3>1. ASSUME limit <= 99 PROVE Short(c, 99)
      BY <3>1 DEF Cals, Short, Calendars
    <3> QED BY <3>1 DEF Cals
  <2>4. limit <= 99 => RunLines(cron'[d]) = FirstLines(c, y)
    BY <2>2, <2>3, RoundTrip
  <2>5. cron'[d] \in Cals(limit)
        /\ (Scheduled(cron'[d]) => cron'[d].hour = c.hour /\ cron'[d].minute = c.minute)
    BY <2>2, ReadDayIs
  <2>6. ASSUME Scheduled(cron'[d]) PROVE BeforeLines(cron'[d]) = BeforeLines(c)
    BY <2>5, <2>6 DEF BeforeLines, BeforeLine
  <2> QED BY <2>1, <2>4, <2>5, <2>6
<1>3. cron' \in [Days -> Cals(limit)]
  BY <1>1, <1>2
<1>4. (\A d \in Days : Written(crontab[d], limit) /\ (whole => crontab[d].tail = {}))'
  BY <1>1 DEF Inv
<1>5. (\A d \in Days : /\ limit <= 99 => RunLines(cron[d]) = Taken(d)
                       /\ Scheduled(cron[d]) => crontab[d].before \subseteq BeforeLines(cron[d]))'
  BY <1>1, <1>2 DEF Taken
<1>6. pending' \in NoUpdate..(TIMEDIFF_CRON_UPDATE + 1)
  BY <1>1 DEF NoUpdate
<1>7. /\ proc' \in {"up", "down"} /\ lost' \in BOOLEAN /\ whole' \in BOOLEAN
      /\ (cron \in [Days -> Cals(limit)])'
  BY <1>1, <1>3 DEF Inv
<1> HIDE ScheduleAssumption
<1> QED BY <1>4, <1>5, <1>6, <1>7 DEF Inv

LEMMA NextKeeps ==
    ASSUME NEW limit, UpTo(limit), Inv(limit), [Next]_vars
    PROVE  Inv(limit)'
<1> USE ScheduleAssumption DEF UpTo
<1>1. CASE Tick
  <2>1. /\ pending' \in NoUpdate..(TIMEDIFF_CRON_UPDATE + 1)
        /\ pending' = NoUpdate => pending = NoUpdate
    BY <1>1 DEF Tick, Inv, NoUpdate
  <2>2. cron' = cron /\ crontab' = crontab /\ whole' = whole /\ proc' = proc /\ lost' = lost
    BY <1>1 DEF Tick
  <2>3. Clean' => Clean
    BY <2>1, <2>2 DEF Clean
  <2> QED BY <2>1, <2>2, <2>3 DEF Inv, Taken
<1>2. CASE End
  <2>1. /\ proc' = "down"
        /\ cron' = cron /\ crontab' = crontab /\ whole' = whole
        /\ pending' = pending /\ lost' = lost
    BY <1>2 DEF End
  <2> QED BY <2>1 DEF Inv, Clean
<1>3. CASE UNCHANGED vars
  BY <1>3 DEF vars, Inv, Clean, Taken
<1> QED BY <1>1, <1>2, <1>3, EditKeeps, CheckCronKeeps, EndInWriteKeeps, StartKeeps DEF Next

-----------------------------------------------------------------------------
(***************************************************************************)
(* The theorems.                                                            *)
(***************************************************************************)
\* Whatever is edited, written, cut short and read back, the calendar holds a time of the
\* day or none, and the crontab lines that read_cron can read (sd_cron.c:138 and 203).
THEOREM TypesHold == Spec => []TypeOK
<1>1. UpTo(INT_MAX)
  <2>1. INT_MAX \in Nat /\ INT_MAX <= INT_MAX
    BY SMT DEF INT_MAX
  <2> QED BY <2>1, ScheduleAssumption DEF UpTo
<1>2. Inv(INT_MAX) => TypeOK
  <2> SUFFICES ASSUME Inv(INT_MAX) PROVE TypeOK
    OBVIOUS
  <2>1. ASSUME NEW d \in Days PROVE cron[d] \in Calendars /\ Taken(d) \subseteq Lines
    <3>1. PICK c \in Cals(INT_MAX), y \in 0..N : Taken(d) = FirstLines(c, y)
      BY DEF Inv, Written, Taken
    <3>2. c \in Calendars
      BY DEF Cals
    <3>3. Taken(d) \subseteq Lines
      BY <3>1, <3>2, LinesTypes DEF FirstLines
    <3> QED BY <3>3 DEF Inv, Cals
  <2> QED BY <2>1 DEF Inv, TypeOK
<1>3. Init => Inv(INT_MAX)
  BY <1>1, InitHolds
<1>4. Inv(INT_MAX) /\ [Next]_vars => Inv(INT_MAX)'
  BY <1>1, NextKeeps
<1> QED BY <1>2, <1>3, <1>4, PTL DEF Spec

\* read_cron undoes write_cron: while no write is pending the calendar is what the lines
\* of the crontab say, after any edits, starts and writes cut short anywhere, and the
\* lines that cron runs when the file is whole, as long as no runtime has more than the
\* two digits that the pattern of read_cron takes (sd_cron.c:228).
THEOREM CrontabHolds ==
    ASSUME \A r \in Runtimes : r <= 99
    PROVE  Spec => []CrontabIsCalendar
<1>1. UpTo(99)
  <2>1. 99 <= INT_MAX
    BY SMT DEF INT_MAX
  <2> QED BY <2>1 DEF UpTo
<1>2. Inv(99) => CrontabIsCalendar
  <2> SUFFICES ASSUME Inv(99), Clean, NEW d \in Days PROVE IsShown(d)
    BY DEF Clean, CrontabIsCalendar
  <2>1. RunLines(cron[d]) = Taken(d)
    <3>1. 99 <= 99
      OBVIOUS
    <3> QED BY <3>1 DEF Inv
  <2>2. whole => Taken(d) = crontab[d].runs
    BY DEF Inv, Taken
  <2> QED BY <2>1, <2>2 DEF IsShown
<1>3. Init => Inv(99)
  BY <1>1, InitHolds
<1>4. Inv(99) /\ [Next]_vars => Inv(99)'
  BY <1>1, NextKeeps
<1> QED BY <1>2, <1>3, <1>4, PTL DEF Spec

\* The start times of a day are times of the day, and each zone starts in the minute in
\* which the one before it is done, also in a file that was cut short: the one carry
\* of write_cron is enough for runtimes of an hour at most (sd_cron.c:170).
THEOREM ZonesHold ==
    ASSUME \A r \in Runtimes : r <= 60
    PROVE  Spec => []ZonesFollowOneAnother
<1>1. UpTo(60)
  <2>1. 60 <= INT_MAX
    BY SMT DEF INT_MAX
  <2> QED BY <2>1 DEF UpTo
<1>2. Inv(60) => ZonesFollowOneAnother
  <2> SUFFICES ASSUME Inv(60) PROVE ZonesFollowOneAnother
    OBVIOUS
  <2> SUFFICES ASSUME NEW d \in Days, NEW l \in crontab[d].runs
               PROVE  /\ l.hour \in 0..23 /\ l.minute \in 0..59
                      /\ \A k \in crontab[d].runs :
                            k.zone < l.zone /\ ~(\E j \in crontab[d].runs : k.zone < j.zone /\ j.zone < l.zone)
                            => MinuteOfDay(l) = MinuteOfDay(k) + k.runtime
    BY DEF ZonesFollowOneAnother
  <2>1. PICK c \in Cals(60), y \in 0..N : crontab[d].runs = FirstLines(c, y)
    BY DEF Inv, Written
  <2>2. c \in Calendars /\ Short(c, 60)
    BY DEF Cals
  <2>3. l.zone \in Zones /\ HasLine(c, l.zone) /\ l = LineOf(c, l.zone)
    BY <2>1, RunLinesAre DEF FirstLines
  <2>4. l.hour \in 0..23 /\ l.minute \in 0..59
    <3>1. Scheduled(c)
      BY <2>3 DEF HasLine
    <3>2. StartOf(c)[l.zone] \in ClockTimes
      BY <2>2, <2>3, <3>1, StartSteps
    <3>3. StartOf(c)[l.zone].minute \in 0..59
      BY <2>2, <2>3, <3>1, MinutesBound
    <3>4. l.hour = StartOf(c)[l.zone].hour /\ l.minute = StartOf(c)[l.zone].minute
      BY <2>3 DEF LineOf
    <3> QED BY <2>3, <3>2, <3>3, <3>4 DEF HasLine, ClockTimes
  <2> QED BY <2>1, <2>2, <2>4, LinesFollow
<1>3. Init => Inv(60)
  BY <1>1, InitHolds
<1>4. Inv(60) /\ [Next]_vars => Inv(60)'
  BY <1>1, NextKeeps
<1> QED BY <1>2, <1>3, <1>4, PTL DEF Spec

\* The commands of the configuration file run as long before the start as it says, when
\* one borrow from the hour is enough and the hour is not the first of the day
\* (sd_cron.c:188).
THEOREM CommandsHold ==
    ASSUME \A t \in Times, mins \in RunBefore :
              mins <= t.minute \/ (t.hour >= 1 /\ mins <= 60 + t.minute)
    PROVE  Spec => []CommandsRunBeforeStart
<1>1. UpTo(INT_MAX)
  <2>1. INT_MAX \in Nat /\ INT_MAX <= INT_MAX
    BY SMT DEF INT_MAX
  <2> QED BY <2>1, ScheduleAssumption DEF UpTo
<1>2. Inv(INT_MAX) => CommandsRunBeforeStart
  <2> SUFFICES ASSUME Inv(INT_MAX) PROVE CommandsRunBeforeStart
    OBVIOUS
  <2> SUFFICES ASSUME Clean, NEW d \in Days, Scheduled(cron[d]), NEW b \in crontab[d].before
               PROVE  /\ b.hour \in 0..23 /\ b.minute \in 0..59
                      /\ MinuteOfDay(b) = MinuteOfDay(cron[d]) - b.mins
    BY DEF CommandsRunBeforeStart, Clean
  <2> DEFINE h == cron[d].hour
             m == cron[d].minute
  <2>1. PICK mins \in RunBefore : b = BeforeLine(cron[d], mins)
    BY DEF Inv, BeforeLines
  <2>2. [hour |-> h, minute |-> m] \in Times /\ h \in 0..23 /\ m \in 0..59
    <3>1. cron[d] \in Cals(INT_MAX)
      BY DEF Inv
    <3> QED BY <3>1 DEF Cals, Calendars, Scheduled
  <2>3. mins \in Nat /\ (mins <= m \/ (h >= 1 /\ mins <= 60 + m))
    BY <2>2, ScheduleAssumption
  <2> HIDE DEF h, m
  <2>4. CASE m < mins
    <3>1. b.mins = mins /\ b.hour = h - 1 /\ b.minute = 60 - (mins - m)
      BY <2>1, <2>4 DEF BeforeLine, h, m
    <3>2. b.hour \in 0..23 /\ b.minute \in 0..59
      BY <2>2, <2>3, <2>4, <3>1
    <3>3. 60 * b.hour + b.minute = (60 * h + m) - mins
      BY <2>2, <2>3, <3>1
    <3> QED BY <3>1, <3>2, <3>3 DEF MinuteOfDay, h, m
  <2>5. CASE ~(m < mins)
    <3>1. b.mins = mins /\ b.hour = h /\ b.minute = m - mins
      BY <2>1, <2>5 DEF BeforeLine, h, m
    <3>2. b.hour \in 0..23 /\ b.minute \in 0..59
      BY <2>2, <2>3, <2>5, <3>1
    <3>3. 60 * b.hour + b.minute = (60 * h + m) - mins
      BY <2>2, <2>3, <3>1
    <3> QED BY <3>1, <3>2, <3>3 DEF MinuteOfDay, h, m
  <2> QED BY <2>4, <2>5
<1>3. Init => Inv(INT_MAX)
  BY <1>1, InitHolds
<1>4. Inv(INT_MAX) /\ [Next]_vars => Inv(INT_MAX)'
  BY <1>1, NextKeeps
<1> QED BY <1>2, <1>3, <1>4, PTL DEF Spec
===========================================================================
