----------------------------- MODULE CacheFile ------------------------------
(***************************************************************************)
(* The cache file of SprinklerD, write_cache and read_cache of src/config.c, *)
(* in the steps in which the process can be stopped between them.           *)
(*                                                                          *)
(* The file is a list of numbers without names: six values, a separator of  *)
(* -1, and the default runtime of each zone.  Opening it for writing        *)
(* empties it, and closing it is what puts the new contents there.  On a    *)
(* root file system that is mounted read-only the write is preceded by a    *)
(* remount and followed by another; write_cron (src/sd_cron.c) does the     *)
(* same around the crontab.                                                 *)
(*                                                                          *)
(* A missing file and an empty one read the same: both are <<>> here.  The  *)
(* rounding of large numbers by the "%f" of read_cache is in RainDelay.     *)
(***************************************************************************)
EXTENDS Integers, Sequences, FiniteSetsExt

CONSTANTS
    MaxZones,        \* no configuration file has more zones
    Heads,           \* the six values that requests and the clock can bring about
    ConfigHead,      \* the six values of a start without a cache file
    Runtimes,        \* the default runtimes that requests set
    ConfigRuntime,   \* the default runtime of a zone in the configuration file
    OpenFails,       \* whether a file may be impossible to open for writing
    DiskFull,        \* whether closing the file can fail to write it
    Busy             \* whether the root can be busy when it is to be read-only again

\* calendar, delay24h, delay24h_time, precipChanceDelay, precipInchDelay1day and
\* precipInchDelay2day, the amounts in whole inches.
Head6 == 1..6

ASSUME ZonesAssumption == MaxZones \in Nat \ {0}
ASSUME HeadsAssumption == Heads \cup {ConfigHead} \subseteq [Head6 -> Int]
\* No request sets a negative runtime.
ASSUME RuntimesAssumption == Runtimes \cup {ConfigRuntime} \subseteq Nat
ASSUME FailuresAssumption ==
    OpenFails \in BOOLEAN /\ DiskFull \in BOOLEAN /\ Busy \in BOOLEAN

VARIABLES
    mem,      \* the values in memory; while the process is down, those it had last
    file,     \* the cache file, as the sequence of its numbers
    saved,    \* history: the values in the cache file, or Nothing
    pc,       \* "idle", how far a write is, "stopped" (and saved), or "killed"
    writing,  \* the file that is written: "cache" or "cron"
    state,    \* the local variable of write_cache: the root was read-only
    root,     \* the root file system: "ro" or "rw"
    boot,     \* how the machine mounts it
    trouble   \* history since the machine was booted: "cut", "open", "busy"

fileVars == <<mem, file, saved>>
rootVars == <<root, state, trouble>>
vars == <<mem, file, saved, pc, writing, state, root, boot, trouble>>

Separator == -1
Nothing   == <<>>
InWrite   == {"fopen", "fclose", "remount"}
Modes     == {"ro", "rw"}

ZoneCount(m) == Len(m.runtime)

\* A runtime is never the separator.
Memory == [head : [Head6 -> Int], runtime : Seq(Int \ {Separator})]

TypeOK ==
    /\ mem \in Memory /\ ZoneCount(mem) \in 1..MaxZones
    /\ saved = Nothing \/ saved \in Memory
    /\ file \in Seq(Int)
    /\ pc \in {"idle", "stopped", "killed"} \cup InWrite
    /\ writing \in {"cache", "cron"}
    /\ state \in BOOLEAN
    /\ root \in Modes /\ boot \in Modes
    /\ trouble \subseteq {"cut", "open", "busy"}

-----------------------------------------------------------------------------
(***************************************************************************)
(* The format.                                                              *)
(***************************************************************************)
\* The numbers that write_cache prints.
Contents(m) ==
    [i \in 1..(7 + ZoneCount(m)) |->
        IF i <= 6 THEN m.head[i] ELSE IF i = 7 THEN Separator ELSE m.runtime[i - 7]]

\* read_cache: a number before any separator is the value of its place; one behind a
\* separator is the runtime of the zone it is that many places behind.  A separator
\* that follows another starts again.
ReadValue(f, k, default) ==
    IF k <= Len(f) /\ \A i \in 1..k : f[i] # Separator THEN f[k] ELSE default

\* Faulty variant: a separator that follows does not start again.
PlacesOf_First(f, z) == {i \in 1..Len(f) : i > z /\ f[i - z] = Separator}

PlacesOf(f, z) ==
    {i \in 1..Len(f) : /\ i > z /\ f[i - z] = Separator
                       /\ \A j \in (i - z + 1)..i : f[j] # Separator}

\* Faulty variant: the first runtime behind the separator is that of zone 0.
ReadRuntime_FromZero(f, z, default) ==
    IF PlacesOf(f, z + 1) = {} THEN default ELSE f[Max(PlacesOf(f, z + 1))]

ReadRuntime(f, z, default) ==
    IF PlacesOf(f, z) = {} THEN default ELSE f[Max(PlacesOf(f, z))]

ReadCache(f, n) ==
    [head    |-> [k \in Head6 |-> ReadValue(f, k, ConfigHead[k])],
     runtime |-> [z \in 1..n |-> ReadRuntime(f, z, ConfigRuntime)]]

-----------------------------------------------------------------------------
(***************************************************************************)
(* remount_root_ro.                                                         *)
(***************************************************************************)
\* A file that is open for writing keeps the root from becoming read-only.
RemountRo(reasons) ==
    \/ root' = "ro" /\ trouble' = trouble \cup reasons
    \/ Busy /\ root' = "rw" /\ trouble' = trouble \cup reasons \cup {"busy"}

\* Faulty variant: it is not asked whether the root is writable already.
RemountRw_Always == root' = "rw" /\ state' = TRUE

RemountRw == root' = "rw" /\ state' = (root = "ro")

-----------------------------------------------------------------------------
(***************************************************************************)
(* The process.                                                             *)
(***************************************************************************)
\* What requests, rain reports and the clock do to the values.
Change ==
    /\ pc = "idle"
    /\ \/ mem' \in [head : Heads, runtime : {mem.runtime}]
       \/ \E z \in 1..ZoneCount(mem), t \in Runtimes : mem' = [mem EXCEPT !.runtime[z] = t]
    /\ UNCHANGED <<file, saved, pc, writing, boot, rootVars>>

\* write_cache and write_cron, up to fopen.
BeginWrite ==
    /\ pc = "idle" /\ pc' = "fopen"
    /\ writing' \in {"cache", "cron"}
    /\ RemountRw
    /\ UNCHANGED <<fileVars, boot, trouble>>

OpenFile ==
    /\ pc = "fopen" /\ pc' = "fclose"
    /\ \/ writing = "cache" /\ file' = <<>> /\ saved' = Nothing
       \/ writing = "cron" /\ UNCHANGED <<file, saved>>
    /\ UNCHANGED <<mem, writing, boot, rootVars>>

\* The root is read-only afterwards, whatever it was.
OpenFailure ==
    /\ OpenFails
    /\ pc = "fopen" /\ pc' = "idle"
    /\ RemountRo({"open"})
    /\ UNCHANGED <<fileVars, writing, state, boot>>

CloseFile ==
    /\ pc = "fclose" /\ pc' = "remount"
    /\ \/ writing = "cache" /\ file' = Contents(mem) /\ saved' = mem
       \/ (DiskFull \/ writing = "cron") /\ UNCHANGED <<file, saved>>
    /\ UNCHANGED <<mem, writing, boot, rootVars>>

EndWrite ==
    /\ pc = "remount" /\ pc' = "idle"
    /\ \/ state /\ RemountRo({})
       \/ ~state /\ root' = "rw" /\ trouble' = trouble
    /\ UNCHANGED <<fileVars, writing, state, boot>>

(***************************************************************************)
(* The end of the process and the next start.                               *)
(***************************************************************************)
Up == pc = "idle" \/ pc \in InWrite

Cut == IF pc \in InWrite THEN {"cut"} ELSE {}

\* intHandler calls write_cache wherever the process was, and exit flushes of a file
\* that was open then what the handler has written to it as well.  A root that the
\* write it broke into has made writable is writable to the handler, and stays so.
HandlerRemounts ==
    \/ root = "rw" /\ root' = "rw" /\ trouble' = trouble \cup Cut
    \/ root = "ro" /\ RemountRo({})

\* Faulty variant: the write that was in progress is taken to have saved the values.
Stop_TrustsWrite ==
    /\ Up /\ pc' = "stopped"
    /\ \/ pc = "idle" /\ file' = Contents(mem) /\ saved' = mem
       \/ pc # "idle" /\ UNCHANGED <<file, saved>>
    /\ HandlerRemounts
    /\ UNCHANGED <<mem, writing, state, boot>>

Stop ==
    /\ Up /\ pc' = "stopped"
    /\ file' = Contents(mem) /\ saved' = mem
    /\ HandlerRemounts
    /\ UNCHANGED <<mem, writing, state, boot>>

\* The handler cannot save the values, or is killed before it has.
StopUnsaved ==
    /\ Up /\ pc' = "killed"
    /\ \/ OpenFails /\ RemountRo(Cut \cup {"open"}) /\ UNCHANGED <<file, saved>>
       \/ DiskFull /\ HandlerRemounts /\ file' = <<>> /\ saved' = Nothing
       \/ /\ root' = "rw" /\ trouble' = trouble \cup {"cut"}
          /\ file' = <<>> /\ saved' = Nothing
    /\ UNCHANGED <<mem, writing, state, boot>>

Kill ==
    /\ Up /\ pc' = "killed"
    /\ trouble' = trouble \cup Cut
    /\ UNCHANGED <<fileVars, writing, root, state, boot>>

\* Loss of power: the machine boots again, and mounts the root anew.  What was written
\* to a root that has not been made read-only since may not have reached the disk.
PowerLoss ==
    /\ pc' = "killed"
    /\ root' = boot /\ trouble' = {}
    /\ \/ UNCHANGED <<file, saved>>
       \/ root = "rw" /\ file' = <<>> /\ saved' = Nothing
    /\ UNCHANGED <<mem, writing, state, boot>>

\* main: the configuration file, which may have more zones by now, then read_cache.
Start ==
    /\ pc \in {"stopped", "killed"} /\ pc' = "idle"
    /\ \E n \in ZoneCount(mem)..MaxZones : mem' = ReadCache(file, n)
    /\ UNCHANGED <<file, saved, writing, boot, rootVars>>

Init ==
    /\ \E n \in 1..MaxZones : mem = ReadCache(<<>>, n)
    /\ file = <<>> /\ saved = Nothing
    /\ pc = "idle" /\ writing = "cache" /\ state = FALSE
    /\ boot \in Modes /\ root = boot /\ trouble = {}

Next == \/ Change
        \/ BeginWrite \/ OpenFile \/ OpenFailure \/ CloseFile \/ EndWrite
        \/ Stop \/ StopUnsaved \/ Kill \/ PowerLoss \/ Start

Spec == Init /\ [][Next]_vars
-----------------------------------------------------------------------------
(***************************************************************************)
(* What the cache file promises.                                            *)
(***************************************************************************)
\* m is what comes back of the values s: every value that no -1 stands before, and
\* every runtime; a zone that s does not have gets the configured one, if no value is -1.
NoSeparator(s, k) == \A i \in 1..k : s.head[i] # Separator

Restores(m, s) ==
    /\ \A k \in Head6 : NoSeparator(s, k) => m.head[k] = s.head[k]
    /\ \A z \in 1..ZoneCount(m) :
          /\ z <= ZoneCount(s) => m.runtime[z] = s.runtime[z]
          /\ z > ZoneCount(s) /\ NoSeparator(s, 6) => m.runtime[z] = ConfigRuntime

Configured(m) ==
    m.head = ConfigHead /\ \A z \in 1..ZoneCount(m) : m.runtime[z] = ConfigRuntime

\* A start brings back what the cache file was last closed with (read_cache,
\* config.c:76), each number in its place, although none has a name: also when a limit
\* of -1, which a request can set, stands in the file like a separator, and when the
\* configuration has more zones by now.  After a write that was cut short it has the
\* values of the configuration.
Restored == IF saved = Nothing THEN Configured(mem') ELSE Restores(mem', saved)

RestartRestores == [][~Up /\ pc' = "idle" => Restored]_vars

\* A daemon stopped by a signal starts again with the values it had, wherever the
\* signal met it, in the middle of a write of the same file too (intHandler,
\* sprinkler.c:382).
StopKeepsValues ==
    [][pc = "stopped" /\ pc' = "idle" => Restores(mem', mem)]_vars

\* The root is mounted as the machine mounts it, between writes: a read-only one when
\* no write was cut short and none was busy, a writable one, also during a write, when
\* every file could be opened (remount_root_ro, config.c:28).
RootAsBooted ==
    /\ boot = "ro" /\ pc = "idle" /\ trouble \cap {"cut", "busy"} = {} => root = "ro"
    /\ boot = "rw" /\ "open" \notin trouble => root = "rw"
=============================================================================
