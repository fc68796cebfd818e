------------------------------ MODULE Schedule ------------------------------
(***************************************************************************)
(* The calendar of SprinklerD and the crontab it writes for it              *)
(* (src/sd_cron.c, and the calcfg request of src/net_services.c).           *)
(*                                                                          *)
(* An edit changes the calendar in memory.  The main loop writes the        *)
(* crontab once there has been no edit for some seconds, and a start reads  *)
(* the calendar back from the crontab, which is its only copy on disk.      *)
(*                                                                          *)
(* A line of the crontab is a record of the fields read back by read_cron;  *)
(* the lines of a day stand in the order of their zones, so a set of lines  *)
(* tells as much as the file.  The lines that never change (the header and  *)
(* the reset of the rain sensors at midnight) are left out.  A file that    *)
(* was cut short may end inside a line, which read_cron may take and cron   *)
(* does not: such a piece is the tail of its day.                           *)
(***************************************************************************)
EXTENDS Integers

CONSTANTS
    N,          \* _sdconfig_.zones
    Days,       \* the days of the week, 0..6 in the code
    Times,      \* the start times that requests carry
    Runtimes,   \* the runtimes that requests carry
    RunBefore,  \* runBeforeCmd[i].mins, of the commands to run before a start
    TIMEDIFF_CRON_UPDATE,
    Crashes,    \* whether the process can end, also in the middle of a write
    OpenFails   \* whether the crontab may be impossible to open for writing

\* The largest number an int holds.
INT_MAX == 2147483647

ASSUME ScheduleAssumption ==
    /\ N \in Nat \ {0} /\ Days \subseteq 0..6
    /\ Times \subseteq [hour : 0..23, minute : 0..59]
    /\ Runtimes \subseteq Int /\ (\A r \in Runtimes : r <= INT_MAX) /\ RunBefore \subseteq Nat
    /\ TIMEDIFF_CRON_UPDATE \in Nat
    /\ Crashes \in BOOLEAN /\ OpenFails \in BOOLEAN

VARIABLES
    cron,     \* _sdconfig_.cron
    pending,  \* seconds since cron_update, or NoUpdate when that is 0
    crontab,  \* CRON_FILE
    whole,    \* whether CRON_FILE ends with the end of a line
    proc,     \* "up" or "down"
    lost      \* history: the last edits met a file that could not be opened

vars == <<cron, pending, crontab, whole, proc, lost>>

Zones    == 1..N
NoUpdate == -1
NoWater  == [z \in Zones |-> 0]

Scheduled(c) == c.hour >= 0 /\ c.minute >= 0

(***************************************************************************)
(* write_cron.  A zone starts when the one before it has run; a zone that   *)
(* would start after midnight, and those after it, are dropped.             *)
(***************************************************************************)
\* Faulty variant: the hour is not carried.
After_NoCarry(t, runtime) ==
    [hour |-> t.hour, minute |-> (t.minute + runtime) % 60]

After(t, runtime) ==
    LET min == t.minute + runtime
    IN IF min >= 60 THEN [hour |-> t.hour + 1, minute |-> min - 60]
                    ELSE [hour |-> t.hour, minute |-> min]

\* min and hour after zone z, when they were t before it.
Following(c, z, t) ==
    IF c.zruntimes[z] > 0 /\ t.hour < 24 THEN After(t, c.zruntimes[z]) ELSE t

\* min and hour when write_cron comes to each zone.
StartOf(c) ==
    LET at[z \in Zones] ==
            IF z = 1 THEN [hour |-> c.hour, minute |-> c.minute]
                     ELSE Following(c, z - 1, at[z - 1])
    IN at

\* Faulty variant: no stop at midnight.
RunLines_PastMidnight(c) ==
    {[zone |-> z, runtime |-> c.zruntimes[z],
      hour |-> StartOf(c)[z].hour, minute |-> StartOf(c)[z].minute] :
        z \in {y \in Zones : Scheduled(c) /\ c.zruntimes[y] > 0}}

RunLines(c) ==
    {[zone |-> z, runtime |-> c.zruntimes[z],
      hour |-> StartOf(c)[z].hour, minute |-> StartOf(c)[z].minute] :
        z \in {y \in Zones : Scheduled(c) /\ c.zruntimes[y] > 0 /\ StartOf(c)[y].hour < 24}}

\* Faulty variant: the hour is not borrowed from.
BeforeLine_NoBorrow(c, mins) ==
    [mins |-> mins, hour |-> c.hour, minute |-> (c.minute + 60 - mins) % 60]

BeforeLine(c, mins) ==
    IF c.minute < mins
    THEN [mins |-> mins, hour |-> c.hour - 1, minute |-> 60 - (mins - c.minute)]
    ELSE [mins |-> mins, hour |-> c.hour, minute |-> c.minute - mins]

BeforeLines(c) == {BeforeLine(c, mins) : mins \in RunBefore}

DayLines(c) == [runs |-> RunLines(c), tail |-> {}, before |-> BeforeLines(c)]

NoLines == [runs |-> {}, tail |-> {}, before |-> {}]

(***************************************************************************)
(* read_cron.  The pattern takes two digits of a runtime.                   *)
(***************************************************************************)
PowersOfTen == {1, 10, 100, 1000, 10000, 100000, 1000000, 10000000, 100000000}

TwoDigits(n) ==
    CHOOSE m \in 0..99 : \E p \in PowersOfTen : m = n \div p /\ (p > 1 => m >= 10)

ReadRuntimes(lines) ==
    [z \in Zones |-> IF \E l \in lines : l.zone = z
                     THEN TwoDigits((CHOOSE l \in lines : l.zone = z).runtime) ELSE 0]

\* Faulty variant: the start time is that of the last line.
ReadDay_LastTime(lines) ==
    IF lines = {} THEN [hour |-> -1, minute |-> -1, zruntimes |-> NoWater]
    ELSE LET last == CHOOSE l \in lines : \A k \in lines : k.zone <= l.zone
         IN [hour |-> last.hour, minute |-> last.minute, zruntimes |-> ReadRuntimes(lines)]

\* The start time is that of the first line of the day.
ReadDay(lines) ==
    IF lines = {} THEN [hour |-> -1, minute |-> -1, zruntimes |-> NoWater]
    ELSE LET first == CHOOSE l \in lines : \A k \in lines : l.zone <= k.zone
         IN [hour |-> first.hour, minute |-> first.minute, zruntimes |-> ReadRuntimes(lines)]

\* The lines that read_cron takes, the last of which may lack its end.
Taken(d) == crontab[d].runs \cup crontab[d].tail

ReadCron == cron' = [d \in Days |-> ReadDay(Taken(d))]

-----------------------------------------------------------------------------
(***************************************************************************)
(* The calcfg request.  Each one, also a refused one, puts off the write.   *)
(* "time > 0" in its first condition compares the address of time(), so a   *)
(* runtime of 0 or less is accepted.                                        *)
(***************************************************************************)
ZoneRuntime(d, z, runtime) == cron' = [cron EXCEPT ![d].zruntimes[z] = runtime]

\* The runtimes of the day stay as they are.
AddDay(d, t) == cron' = [cron EXCEPT ![d].hour = t.hour, ![d].minute = t.minute]

RemoveDay(d) == cron' = [cron EXCEPT ![d].hour = -1, ![d].minute = -1]

\* Faulty variant: the write is not asked for.
Edit_Unnoticed ==
    /\ proc = "up"
    /\ \/ \E d \in Days, z \in Zones, runtime \in Runtimes : ZoneRuntime(d, z, runtime)
       \/ \E d \in Days, t \in Times : AddDay(d, t)
       \/ \E d \in Days : RemoveDay(d)
    /\ UNCHANGED <<pending, crontab, whole, proc, lost>>

Edit ==
    /\ proc = "up"
    /\ \/ \E d \in Days, z \in Zones, runtime \in Runtimes : ZoneRuntime(d, z, runtime)
       \/ \E d \in Days, t \in Times : AddDay(d, t)
       \/ \E d \in Days : RemoveDay(d)
       \/ UNCHANGED cron
    /\ pending' = 0
    /\ UNCHANGED <<crontab, whole, proc, lost>>

(***************************************************************************)
(* check_cron, in the main loop.                                            *)
(***************************************************************************)
WriteIsDue == proc = "up" /\ pending > TIMEDIFF_CRON_UPDATE

WriteCron == crontab' = [d \in Days |-> DayLines(cron[d])]

\* cron_update is reset whether or not write_cron could open the file.
CheckCron ==
    /\ WriteIsDue
    /\ \/ WriteCron /\ whole' = TRUE /\ lost' = FALSE
       \/ OpenFails /\ lost' = TRUE /\ UNCHANGED <<crontab, whole>>
    /\ pending' = NoUpdate
    /\ UNCHANGED <<cron, proc>>

\* Seconds after the write is due make no difference.
Tick ==
    /\ pending' = IF pending \in 0..TIMEDIFF_CRON_UPDATE THEN pending + 1 ELSE pending
    /\ UNCHANGED <<cron, crontab, whole, proc, lost>>

(***************************************************************************)
(* The end of the process.  A signal ends it like a kill does: intHandler   *)
(* saves the cache, not the calendar.  An end in the middle of write_cron   *)
(* leaves what the buffer of fprintf has let out by then, which may end     *)
(* anywhere in a line.                                                      *)
(***************************************************************************)
End ==
    /\ Crashes /\ proc = "up"
    /\ proc' = "down"
    /\ UNCHANGED <<cron, pending, crontab, whole, lost>>

\* The line of a zone, cut behind a digit of its runtime or later.
Torn(c) ==
    UNION {{[l EXCEPT !.runtime = l.runtime \div p] :
               p \in {q \in PowersOfTen : q <= l.runtime}} : l \in RunLines(c)}

FirstLines(c, z) == {l \in RunLines(c) : l.zone <= z}

\* What may be there of the lines of a day.  The commands stand behind the zones, in an
\* order of their own.
Cuts(c) ==
    {[runs |-> FirstLines(c, z), tail |-> {}, before |-> {}] : z \in 0..N}
    \cup {[runs |-> FirstLines(c, l.zone - 1), tail |-> {l}, before |-> {}] : l \in Torn(c)}
    \cup {[runs |-> RunLines(c), tail |-> {}, before |-> part] : part \in SUBSET BeforeLines(c)}

EndInWrite ==
    /\ Crashes /\ WriteIsDue
    /\ proc' = "down"
    /\ \E d \in Days : \E cut \in Cuts(cron[d]) :
          /\ crontab' = [e \in Days |-> IF e < d THEN DayLines(cron[e])
                                       ELSE IF e > d THEN NoLines ELSE cut]
          /\ whole' \in BOOLEAN /\ (cut.tail # {} => ~whole')
    /\ UNCHANGED <<cron, pending, lost>>

Start ==
    /\ proc = "down"
    /\ proc' = "up"
    /\ ReadCron
    /\ pending' = NoUpdate
    /\ lost' = FALSE
    /\ UNCHANGED <<crontab, whole>>

\* The first start: there is no crontab.
Init ==
    /\ proc = "up"
    /\ cron = [d \in Days |-> ReadDay({})]
    /\ pending = NoUpdate
    /\ crontab = [d \in Days |-> NoLines]
    /\ whole = TRUE
    /\ lost = FALSE

Next == Edit \/ CheckCron \/ Tick \/ End \/ EndInWrite \/ Start

Spec == Init /\ [][Next]_vars
-----------------------------------------------------------------------------
(***************************************************************************)
(* What the calendar promises.                                              *)
(***************************************************************************)
Calendars == [hour : -1..23, minute : -1..59, zruntimes : [Zones -> Int]]
Lines == [zone : Zones, runtime : Int, hour : 0..23, minute : Nat]

TypeOK ==
    /\ \A d \in Days : cron[d] \in Calendars /\ Taken(d) \subseteq Lines
    /\ whole \in BOOLEAN
    /\ pending \in NoUpdate..(TIMEDIFF_CRON_UPDATE + 1)
    /\ proc \in {"up", "down"}
    /\ lost \in BOOLEAN

\* The calendar of the day is what its lines say: read_cron takes out of the file what
\* write_cron would put into it again.  The lines are those that cron runs, except for
\* the last one of a file that ends inside a line.
IsShown(d) ==
    /\ RunLines(cron[d]) = Taken(d)
    /\ whole => RunLines(cron[d]) = crontab[d].runs

\* When no write is pending the crontab waters what the calendar shows, also after a
\* start that read the calendar back, from a file cut short between two lines too.  Cut
\* inside a line (sd_cron.c:163), the file still gives the calendar of its lines, but
\* the last of them, with what is left of its runtime, is shown and does not water.  A
\* file that could not be opened is in the way altogether: the write is not tried again.
CrontabIsCalendar ==
    proc = "up" /\ pending = NoUpdate /\ ~lost => \A d \in Days : IsShown(d)

MinuteOfDay(l) == 60 * l.hour + l.minute

\* The lines of a day start each zone when the one before it is done, at a time that
\* cron accepts: no zone cuts another one short, or leaves a gap.
ZonesFollowOneAnother ==
    \A d \in Days : \A l \in crontab[d].runs :
        /\ l.hour \in 0..23 /\ l.minute \in 0..59
        /\ \A k \in crontab[d].runs :
              k.zone < l.zone /\ ~(\E j \in crontab[d].runs : k.zone < j.zone /\ j.zone < l.zone)
              => MinuteOfDay(l) = MinuteOfDay(k) + k.runtime

\* On a day that is scheduled the commands of the configuration file run "mins before
\* start time" (config.c:448), also after a start that read the calendar back.  A day
\* without a schedule gets lines for them too, with an hour of -1 or -2.
CommandsRunBeforeStart ==
    proc = "up" /\ pending = NoUpdate /\ ~lost =>
        \A d \in Days : Scheduled(cron[d]) => \A b \in crontab[d].before :
            /\ b.hour \in 0..23 /\ b.minute \in 0..59
            /\ MinuteOfDay(b) = MinuteOfDay(cron[d]) - b.mins

\* Once there are no more edits, the process stays up and the file can be opened, the
\* crontab comes to hold the calendar, and keeps it, as far as a file from which the
\* last start may have read it is whole.
EditsAreWritten ==
    <>[][~Edit]_vars /\ <>[](proc = "up" /\ ~lost)
    => <>[](\A d \in Days : IsShown(d))
=============================================================================
