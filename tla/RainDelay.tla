----------------------------- MODULE RainDelay -----------------------------
(***************************************************************************)
(* The calendar switch, the rain delay and the rain sensors of SprinklerD   *)
(* (src/sd_cron.c), with the cache file that carries them over a restart    *)
(* (write_cache and read_cache of src/config.c).                            *)
(*                                                                          *)
(* The end of the delay is kept relative to now: delayLeft is               *)
(* delay24h_time - now, -1 once it has passed, and NoEnd for the value 0    *)
(* the code uses for "no delay".  The end saved in the cache file is kept   *)
(* the same way.  Rain amounts are in hundredths of an inch.                *)
(***************************************************************************)
EXTENDS ZoneCtrl

CONSTANTS
    Day,       \* DELAY24H_SEC, the number of seconds of a one-day delay
    Rounding,  \* how far read_cache can move a saved end: it reads it as a float
    Switches,  \* the states "24hdelay" requests ask for: a subset of BOOLEAN
    Delays,    \* the ends, in seconds from now, a "reset" request asks for (0: none)
    Chances,   \* the chances of rain reported, in percent
    Totals,    \* the rain totals reported
    Limits     \* the values [chance, day1, day2] the rain limits take

ASSUME DayAssumption    == Day \in Nat \ {0} /\ Rounding \in Nat
ASSUME DelaysAssumption == Switches \subseteq BOOLEAN /\ Delays \subseteq Nat
ASSUME SensorAssumption == Chances \subseteq Int /\ Totals \subseteq Nat
ASSUME LimitsAssumption == Limits \subseteq [chance : Nat, day1 : Nat, day2 : Nat]

VARIABLES
    delayLeft,  \* delay24h_time, relative to now
    asFloat,    \* whether a float holds delay24h_time: it was read from the cache
    limits,     \* precipChanceDelay, precipInchDelay1day, precipInchDelay2day
    rainTotal,  \* todayRainTotal (todayRainChance decides nothing after its arrival)
    cache       \* the cache file

delayVars == <<delay24h, delayLeft, asFloat, cache>>

NoEnd == -2

\* The state of the whole program that write_cache saves.
CacheFile == [calendar : BOOLEAN, delay24h : BOOLEAN, left : Int, asFloat : BOOLEAN,
              limits : [chance : Nat, day1 : Nat, day2 : Nat], runtime : [Zones -> Runtimes]]

RainTypeOK ==
    /\ delayLeft \in Int /\ delayLeft >= NoEnd
    /\ asFloat \in BOOLEAN
    /\ limits \in [chance : Nat, day1 : Nat, day2 : Nat]
    /\ rainTotal \in Nat
    /\ cache \in CacheFile /\ cache.left >= NoEnd

(***************************************************************************)
(* The cache file.  A limit is printed with one decimal, so hundredths are  *)
(* rounded away (the values used here have no tie).                         *)
(***************************************************************************)
Tenths(h) == 10 * ((h + 5) \div 10)

WriteCache(delay, left, float) ==
    cache' = [calendar |-> calendar,
              delay24h |-> delay,
              left     |-> left,
              asFloat  |-> float,
              limits   |-> [chance |-> limits.chance,
                            day1   |-> Tenths(limits.day1),
                            day2   |-> Tenths(limits.day2)],
              runtime  |-> [z \in Zones |-> runtime[z]]]

\* Faulty variant: reading a saved end moves it every time.
Reread_Drifts(left, float) ==
    IF left = NoEnd THEN {left}
    ELSE {IF e < -1 THEN -1 ELSE e : e \in (left - Rounding)..(left + Rounding)}

\* read_cache: the ends a saved one can come back as.  It is read with "%f", so
\* it moves to a nearby float; one that already is a float comes back unchanged.
Reread(left, float) ==
    IF left = NoEnd \/ float THEN {left}
    ELSE {IF e < -1 THEN -1 ELSE e : e \in (left - Rounding)..(left + Rounding)}

(***************************************************************************)
(* Handlers.  "also" is the set of event bits the caller adds.              *)
(***************************************************************************)
EnableCalendar(on, also) ==
    /\ calendar' = on
    /\ Raise(also \cup IF calendar # on THEN {"status"} ELSE {})

\* Faulty variants: the end of the delay is kept; the cache is not written.
DelayOff_KeepsEnd ==
    /\ delay24h' = FALSE
    /\ asFloat' = asFloat /\ delayLeft' = delayLeft
    /\ WriteCache(FALSE, delayLeft, asFloat)

DelayOff_Unsaved ==
    /\ delay24h' = FALSE
    /\ delayLeft' = NoEnd
    /\ asFloat' = TRUE
    /\ cache' = cache

DelayOff ==
    /\ delay24h' = FALSE
    /\ delayLeft' = NoEnd
    /\ asFloat' = TRUE
    /\ WriteCache(FALSE, NoEnd, TRUE)

\* Faulty variant: the scheduled run goes on.
DelayOn_KeepsRun(left, also) ==
    /\ delay24h' = TRUE
    /\ delayLeft' = left
    /\ asFloat' = FALSE
    /\ UNCHANGED <<open, cur, elapsed>> /\ Raise(also)
    /\ WriteCache(TRUE, left, FALSE)

DelayOn(left, also) ==
    /\ delay24h' = TRUE
    /\ delayLeft' = left
    /\ asFloat' = FALSE
    /\ ZcRainDelayEnabled(also)
    /\ WriteCache(TRUE, left, FALSE)

EnableDelay24h(on, also) ==
    \/ on = delay24h /\ UNCHANGED <<open, cur, elapsed, delayVars>> /\ Raise(also)
    \/ on /\ ~delay24h /\ DelayOn(Day, also \cup {"status"})
    \/ ~on /\ delay24h /\ DelayOff
       /\ UNCHANGED <<open, cur, elapsed>> /\ Raise(also \cup {"status"})

ResetDelay24hTime(left, also) ==
    DelayOn(IF left > 0 THEN left ELSE Day,
            also \cup IF delay24h THEN {} ELSE {"status"})

SetTodayChanceOfRain(percent, also) ==
    \/ /\ percent \in 0..100
       /\ \/ limits.chance > 0 /\ percent >= limits.chance
             /\ ResetDelay24hTime(0, also \cup {"rainchance"})
          \/ ~(limits.chance > 0 /\ percent >= limits.chance)
             /\ EnableDelay24h(FALSE, also \cup {"rainchance"})
    \/ /\ percent \notin 0..100
       /\ UNCHANGED <<open, cur, elapsed, delayVars>>
       /\ Raise(also)

\* The delay a rain total asks for, in days.
DaysFor(rain) ==
    IF limits.day2 > 0 /\ rain >= limits.day2 THEN 2
    ELSE IF limits.day1 > 0 /\ rain >= limits.day1 THEN 1
    ELSE 0

SetTodayRainTotal(rain, also) ==
    LET repeated == rain = rainTotal /\ rain # 0
    IN /\ rainTotal' = rain
       /\ \/ ~repeated /\ DaysFor(rain) > 0
             /\ ResetDelay24hTime(DaysFor(rain) * Day, also \cup {"raintotal"})
          \/ (repeated \/ DaysFor(rain) = 0)
             /\ UNCHANGED <<open, cur, elapsed, delayVars>>
             /\ Raise(also \cup IF repeated THEN {} ELSE {"raintotal"})

\* check_delay24h
DelayExpired == delayLeft = -1

\* Faulty variant: the end is reset and the delay stays in force.
CheckDelay24h_KeepsFlag ==
    IF delay24h
    THEN delay24h' = TRUE /\ delayLeft' = NoEnd /\ asFloat' = TRUE /\ WriteCache(TRUE, NoEnd, TRUE)
    ELSE UNCHANGED delayVars

CheckDelay24h ==
    IF delay24h THEN DelayOff ELSE UNCHANGED delayVars

(***************************************************************************)
(* What the delay promises.                                                 *)
(***************************************************************************)
\* A delay in force has an end, and there is no end without a delay.
HasEnd == delay24h <=> delayLeft # NoEnd

\* The cache file holds the delay in force, to the precision of read_cache.
Saved ==
    /\ cache.delay24h = delay24h
    /\ cache.left = NoEnd <=> delayLeft = NoEnd
    /\ cache.left - delayLeft \in (-Rounding)..Rounding
=============================================================================
