--------------------------- MODULE CacheFileProofs ---------------------------
(***************************************************************************)
(* Proofs about CacheFile, for any number of zones, any values, and any     *)
(* order of writes, failures and ends of the process.                       *)
(***************************************************************************)
EXTENDS CacheFile, SequenceTheorems, WellFoundedInduction, TLAPS

\* The file is empty, or exactly what write_cache prints of the values that history
\* says are in it.
FileIsSaved ==
    \/ saved = Nothing /\ file = <<>>
    \/ saved \in Memory /\ file = Contents(saved)

\* After an orderly stop these are the values the process had.
StopHasSaved == pc = "stopped" => saved = mem

\* During a write a root that was read-only is writable, and is known to have been
\* read-only; the root a machine mounts writable is read-only only after a failed open.
RootInv ==
    /\ boot = "rw" /\ "open" \notin trouble => root = "rw" /\ ~(pc \in InWrite /\ state)
    /\ boot = "ro" /\ pc \in InWrite /\ trouble \cap {"cut", "busy"} = {} => state
    /\ boot = "ro" /\ pc \in {"idle", "stopped", "killed"}
       /\ trouble \cap {"cut", "busy"} = {} => root = "ro"

IInv == TypeOK /\ FileIsSaved /\ StopHasSaved /\ RootInv

-----------------------------------------------------------------------------
(***************************************************************************)
(* The format.                                                              *)
(***************************************************************************)
\* A function on 1..n is a sequence.
LEMMA FunctionIsSeq ==
    ASSUME NEW V, NEW n \in Nat, NEW f \in [1..n -> V]
    PROVE  f \in Seq(V)
BY SeqDef

LEMMA MemoryShape ==
    ASSUME NEW m \in Memory
    PROVE  /\ m.head \in [Head6 -> Int]
           /\ ZoneCount(m) \in Nat
           /\ m.runtime \in [1..ZoneCount(m) -> Int \ {Separator}]
           /\ m # Nothing
<1>1. m.runtime \in Seq(Int \ {Separator}) /\ m.head \in [Head6 -> Int]
  BY DEF Memory
<1>2. ZoneCount(m) \in Nat /\ m.runtime \in [1..ZoneCount(m) -> Int \ {Separator}]
  BY <1>1, LenProperties DEF ZoneCount
<1>3. m # Nothing
  <2>1. DOMAIN m = {"head", "runtime"}
    BY DEF Memory
  <2>2. DOMAIN Nothing = {}
    BY DEF Nothing
  <2> QED BY <2>1, <2>2
<1> QED BY <1>1, <1>2, <1>3

\* What is printed: six values, the separator, and the runtimes.
LEMMA ContentsShape ==
    ASSUME NEW m \in Memory
    PROVE  /\ Contents(m) \in Seq(Int)
           /\ Len(Contents(m)) = 7 + ZoneCount(m)
           /\ \A k \in Head6 : Contents(m)[k] = m.head[k]
           /\ Contents(m)[7] = Separator
           /\ \A z \in 1..ZoneCount(m) :
                 Contents(m)[7 + z] = m.runtime[z] /\ Contents(m)[7 + z] # Separator
<1>1. m.head \in [Head6 -> Int] /\ ZoneCount(m) \in Nat
      /\ m.runtime \in [1..ZoneCount(m) -> Int \ {Separator}]
  BY MemoryShape
<1>2. PICK h, c, r, n, f :
         /\ h = m.head /\ c = ZoneCount(m) /\ r = m.runtime /\ n = 7 + c
         /\ f = Contents(m)
         /\ h \in [Head6 -> Int] /\ c \in Nat /\ r \in [1..c -> Int \ {Separator}]
  BY <1>1
<1>3. f = [i \in 1..n |-> IF i <= 6 THEN h[i] ELSE IF i = 7 THEN Separator ELSE r[i - 7]]
  BY <1>2 DEF Contents
<1>4. /\ h \in [Head6 -> Int] /\ c \in Nat /\ r \in [1..c -> Int \ {Separator}]
      /\ n = 7 + c /\ n \in Nat
  BY <1>2
<1>5. \A i \in 1..n : f[i] \in Int
  <2> TAKE i \in 1..n
  <2>1. CASE i <= 6
    BY <1>3, <1>4, <2>1 DEF Head6
  <2>2. CASE i = 7
    BY <1>3, <1>4, <2>2 DEF Separator
  <2>3. CASE i > 7
    <3>1. i - 7 \in 1..c
      BY <1>4, <2>3
    <3>2. f[i] = r[i - 7]
      BY <1>3, <1>4, <2>3
    <3> QED BY <1>4, <3>1, <3>2
  <2> QED BY <1>4, <2>1, <2>2, <2>3
<1>6. f \in [1..n -> Int]
  BY <1>3, <1>5
<1>7. f \in Seq(Int)
  BY <1>4, <1>6, SeqDef
<1>8. Len(f) = n
  BY <1>4, <1>6, <1>7, LenProperties
<1>9. \A k \in Head6 : f[k] = h[k]
  BY <1>3, <1>4 DEF Head6
<1>10. f[7] = Separator
  BY <1>3, <1>4
<1>11. ASSUME NEW z \in 1..c PROVE f[7 + z] = r[z] /\ f[7 + z] # Separator
  <2>1. 7 + z \in 1..n /\ 7 + z > 7 /\ (7 + z) - 7 = z
    BY <1>4
  <2>2. f[7 + z] = r[(7 + z) - 7]
    BY <1>3, <1>4, <2>1
  <2>3. r[z] # Separator
    BY <1>4
  <2> QED BY <1>4, <2>1, <2>2, <2>3
<1> QED BY <1>2, <1>7, <1>8, <1>9, <1>10, <1>11

\* A zone that was saved has one place that read_cache takes its runtime from last.
LEMMA RuntimeComesBack ==
    ASSUME NEW m \in Memory, NEW z \in 1..ZoneCount(m), NEW d
    PROVE  ReadRuntime(Contents(m), z, d) = m.runtime[z]
<1> DEFINE f == Contents(m)
<1> DEFINE P == PlacesOf(f, z)
<1>1. ZoneCount(m) \in Nat /\ z \in Nat /\ z >= 1 /\ z <= ZoneCount(m)
  BY MemoryShape
<1>2. 7 + z \in P
  <2>1. 7 + z \in 1..Len(f) /\ 7 + z > z /\ f[(7 + z) - z] = Separator
    BY <1>1, ContentsShape
  <2>2. ASSUME NEW j \in ((7 + z) - z + 1)..(7 + z) PROVE f[j] # Separator
    <3>1. j - 7 \in 1..ZoneCount(m) /\ j = 7 + (j - 7)
      BY <1>1
    <3> QED BY <3>1, ContentsShape
  <2> QED BY <2>1, <2>2 DEF PlacesOf
<1>3. ASSUME NEW i \in P PROVE i <= 7 + z
  <2>1. i \in 1..(7 + ZoneCount(m)) /\ i > z /\ f[i - z] = Separator
    BY ContentsShape DEF PlacesOf
  <2>2. CASE i > 7 + z
    <3>1. (i - z) - 7 \in 1..ZoneCount(m) /\ i - z = 7 + ((i - z) - 7)
      BY <1>1, <2>1, <2>2
    <3> QED BY <3>1, <2>1, ContentsShape
  <2> QED BY <1>1, <2>1, <2>2
<1>4. P \subseteq Int
  BY <1>1, ContentsShape DEF PlacesOf
<1>5. Max(P) = 7 + z
  <2> HIDE DEF P
  <2>1. \E x \in P : \A y \in P : x >= y
    BY <1>1, <1>2, <1>3, <1>4
  <2>2. Max(P) \in P /\ \A y \in P : Max(P) >= y
    BY <2>1 DEF Max
  <2>3. Max(P) >= 7 + z /\ Max(P) <= 7 + z /\ Max(P) \in Int
    BY <1>2, <1>3, <1>4, <2>2
  <2> QED BY <1>1, <2>3
<1>6. f[7 + z] = m.runtime[z]
  BY <1>1, ContentsShape
<1> QED BY <1>2, <1>5, <1>6 DEF ReadRuntime

\* A zone that was not saved has none, when no value can be taken for the separator.
LEMMA NewZoneIsConfigured ==
    ASSUME NEW m \in Memory, NEW z \in Nat, z > ZoneCount(m), NoSeparator(m, 6), NEW d
    PROVE  ReadRuntime(Contents(m), z, d) = d
<1> DEFINE f == Contents(m)
<1>1. ZoneCount(m) \in Nat
  BY MemoryShape
<1>2. ASSUME NEW i \in PlacesOf(f, z) PROVE FALSE
  <2>1. i \in 1..(7 + ZoneCount(m)) /\ i > z /\ f[i - z] = Separator
    BY ContentsShape DEF PlacesOf
  <2>2. i - z \in Head6
    BY <1>1, <2>1 DEF Head6
  <2>3. f[i - z] = m.head[i - z]
    BY <2>2, ContentsShape
  <2> QED BY <2>1, <2>2, <2>3 DEF NoSeparator, Head6
<1> QED BY <1>2 DEF ReadRuntime

\* A value with no separator before it, or in its place, comes back.
LEMMA ValueComesBack ==
    ASSUME NEW m \in Memory, NEW k \in Head6, NoSeparator(m, k), NEW d
    PROVE  ReadValue(Contents(m), k, d) = m.head[k]
<1>1. ZoneCount(m) \in Nat
  BY MemoryShape
<1>2. k <= Len(Contents(m))
  <2>1. Len(Contents(m)) = 7 + ZoneCount(m)
    BY ContentsShape
  <2> QED BY <1>1, <2>1 DEF Head6
<1>3. \A i \in 1..k : Contents(m)[i] # Separator
  <2> TAKE i \in 1..k
  <2>1. i \in Head6
    BY DEF Head6
  <2> QED BY <2>1, ContentsShape DEF NoSeparator
<1> QED BY <1>2, <1>3, ContentsShape DEF ReadValue

\* The round trip, for any configuration of n zones.
LEMMA RoundTrip ==
    ASSUME NEW m \in Memory, NEW n \in Nat
    PROVE  Restores(ReadCache(Contents(m), n), m)
<1> DEFINE r == ReadCache(Contents(m), n)
<1>1. ZoneCount(r) = n
  BY DEF ReadCache, ZoneCount
<1>2. ASSUME NEW k \in Head6, NoSeparator(m, k) PROVE r.head[k] = m.head[k]
  BY <1>2, ValueComesBack DEF ReadCache
<1>3. ASSUME NEW z \in 1..n, z <= ZoneCount(m) PROVE r.runtime[z] = m.runtime[z]
  <2>1. z \in 1..ZoneCount(m)
    BY <1>3, MemoryShape
  <2> QED BY <2>1, RuntimeComesBack DEF ReadCache
<1>4. ASSUME NEW z \in 1..n, z > ZoneCount(m), NoSeparator(m, 6)
      PROVE  r.runtime[z] = ConfigRuntime
  BY <1>4, NewZoneIsConfigured DEF ReadCache
<1> QED BY <1>1, <1>2, <1>3, <1>4 DEF Restores

\* Nothing to read leaves the values of the configuration file.
LEMMA EmptyFile ==
    ASSUME NEW n \in Nat
    PROVE  Configured(ReadCache(<<>>, n))
<1>1. \A k \in Head6 : ReadValue(<<>>, k, ConfigHead[k]) = ConfigHead[k]
  BY DEF ReadValue, Head6
<1>2. \A z \in 1..n : ReadRuntime(<<>>, z, ConfigRuntime) = ConfigRuntime
  BY DEF ReadRuntime, PlacesOf
<1>3. ConfigHead = [k \in Head6 |-> ConfigHead[k]]
  BY HeadsAssumption
<1>4. ReadCache(<<>>, n).head = ConfigHead
  BY <1>1, <1>3 DEF ReadCache
<1>5. \A z \in 1..n : ReadCache(<<>>, n).runtime[z] = ConfigRuntime
  BY <1>2 DEF ReadCache
<1>6. ZoneCount(ReadCache(<<>>, n)) = n
  BY DEF ReadCache, ZoneCount
<1> QED BY <1>4, <1>5, <1>6 DEF Configured

\* A set of positions that is not empty has a last one.
LEMMA MaxIsIn ==
    ASSUME NEW n \in Nat, NEW S \in SUBSET (1..n), S # {}
    PROVE  Max(S) \in S
<1> DEFINE T == {n - i : i \in S}
<1> DEFINE R == OpToRel(<, Nat)
<1>1. T \subseteq Nat /\ T # {}
  OBVIOUS
<1>2. PICK t \in T : \A u \in T : ~(<<u, t>> \in R)
  <2> HIDE DEF T, R
  <2>1. IsWellFoundedOn(R, Nat)
    BY NatLessThanWellFounded DEF R
  <2> QED BY <1>1, <2>1, WFMin
<1>3. ASSUME NEW u \in T PROVE t <= u
  <2> HIDE DEF T
  <2>1. t \in Nat /\ u \in Nat
    BY <1>1
  <2>2. CASE u < t
    <3>1. <<u, t>> \in Nat \X Nat /\ <<u, t>>[1] < <<u, t>>[2]
      BY <2>1, <2>2
    <3>2. <<u, t>> \in R
      BY <3>1, Zenon DEF OpToRel
    <3> QED BY <3>2, <1>2
  <2> QED BY <2>1, <2>2
<1>4. n - t \in S /\ \A i \in S : n - t >= i
  BY <1>3
<1> QED BY <1>4 DEF Max

\* Whatever numbers a file holds, reading it gives values of their types.
LEMMA ReadTypes ==
    ASSUME NEW f \in Seq(Int), NEW n \in Nat
    PROVE  ReadCache(f, n) \in Memory /\ ZoneCount(ReadCache(f, n)) = n
<1>1. ASSUME NEW k \in Head6 PROVE ReadValue(f, k, ConfigHead[k]) \in Int
  <2>1. ConfigHead[k] \in Int
    BY HeadsAssumption
  <2>2. k <= Len(f) => f[k] \in Int
    BY ElementOfSeq, LenProperties DEF Head6
  <2> QED BY <2>1, <2>2 DEF ReadValue
<1>2. ASSUME NEW z \in 1..n
      PROVE  ReadRuntime(f, z, ConfigRuntime) \in Int \ {Separator}
  <2> DEFINE P == PlacesOf(f, z)
  <2>1. ASSUME NEW i \in P PROVE f[i] \in Int \ {Separator}
    BY LenProperties, ElementOfSeq DEF PlacesOf
  <2>2. P # {} => Max(P) \in P
    <3>1. P \subseteq 1..Len(f) /\ Len(f) \in Nat
      BY LenProperties DEF PlacesOf
    <3> HIDE DEF P
    <3> QED BY <3>1, MaxIsIn
  <2>3. ConfigRuntime \in Int \ {Separator}
    BY RuntimesAssumption DEF Separator
  <2> QED BY <2>1, <2>2, <2>3 DEF ReadRuntime
<1>3. [z \in 1..n |-> ReadRuntime(f, z, ConfigRuntime)] \in Seq(Int \ {Separator})
  BY <1>2, SeqDef
<1> QED BY <1>1, <1>3 DEF ReadCache, Memory, ZoneCount
-----------------------------------------------------------------------------
(***************************************************************************)
(* The invariant.                                                           *)
(***************************************************************************)
\* The start without a cache file.
LEMMA InitHolds == Init => IInv
<1> SUFFICES ASSUME Init PROVE IInv
  OBVIOUS
<1>1. PICK n \in 1..MaxZones : mem = ReadCache(<<>>, n)
  BY DEF Init
<1>2. mem \in Memory /\ ZoneCount(mem) \in 1..MaxZones
  <2>1. <<>> \in Seq(Int) /\ n \in Nat
    BY EmptySeq, ZonesAssumption
  <2>2. ReadCache(<<>>, n) \in Memory /\ ZoneCount(ReadCache(<<>>, n)) = n
    BY <2>1, ReadTypes
  <2> QED BY <1>1, <2>2
<1>3. TypeOK
  BY <1>2, EmptySeq DEF Init, TypeOK, InWrite, Modes
<1>4. FileIsSaved /\ StopHasSaved
  BY DEF Init, FileIsSaved, StopHasSaved
<1>5. RootInv
  BY DEF Init, RootInv, InWrite, Modes
<1> QED BY <1>3, <1>4, <1>5 DEF IInv

\* What is in memory keeps its type, also when it comes from the file.
LEMMA MemoryKept ==
    ASSUME IInv, [Next]_vars
    PROVE  mem' \in Memory /\ ZoneCount(mem') \in 1..MaxZones
<1>1. mem \in Memory /\ ZoneCount(mem) \in 1..MaxZones /\ file \in Seq(Int)
  BY DEF IInv, TypeOK
<1>2. CASE Change
  <2>1. CASE mem' \in [head : Heads, runtime : {mem.runtime}]
    BY <1>1, <2>1, HeadsAssumption DEF Memory, ZoneCount
  <2>2. ASSUME NEW z \in 1..ZoneCount(mem), NEW t \in Runtimes,
               mem' = [mem EXCEPT !.runtime[z] = t]
        PROVE  mem' \in Memory /\ ZoneCount(mem') \in 1..MaxZones
    <3>1. /\ mem.head \in [Head6 -> Int] /\ ZoneCount(mem) \in Nat
          /\ mem.runtime \in [1..ZoneCount(mem) -> Int \ {Separator}]
      BY <1>1, MemoryShape
    <3>2. t \in Int \ {Separator}
      BY RuntimesAssumption DEF Separator
    <3>3. mem'.head = mem.head /\ mem'.runtime = [mem.runtime EXCEPT ![z] = t]
          /\ mem' = [head |-> mem'.head, runtime |-> mem'.runtime]
      BY <1>1, <2>2 DEF Memory
    <3>4. mem'.runtime \in [1..ZoneCount(mem) -> Int \ {Separator}]
      BY <3>1, <3>2, <3>3
    <3>5. mem'.runtime \in Seq(Int \ {Separator})
      BY <3>1, <3>4, FunctionIsSeq
    <3>6. ZoneCount(mem') = ZoneCount(mem)
      BY <3>1, <3>4, <3>5, LenProperties DEF ZoneCount
    <3> QED BY <1>1, <3>1, <3>3, <3>5, <3>6 DEF Memory
  <2> QED BY <1>2, <2>1, <2>2 DEF Change
<1>3. CASE Start
  <2>1. PICK n \in ZoneCount(mem)..MaxZones : mem' = ReadCache(file, n)
    BY <1>3 DEF Start
  <2>2. n \in Nat /\ n \in 1..MaxZones
    BY <1>1, ZonesAssumption
  <2> QED BY <1>1, <2>1, <2>2, ReadTypes
<1>4. CASE UNCHANGED mem
  BY <1>1, <1>4 DEF ZoneCount
<1>5. [Next]_vars => Change \/ Start \/ UNCHANGED mem
  BY DEF Next, vars, fileVars, BeginWrite, OpenFile, OpenFailure, CloseFile, EndWrite,
         Stop, StopUnsaved, Kill, PowerLoss
<1> QED BY <1>2, <1>3, <1>4, <1>5

\* What is in the file is what history says, and after an orderly stop the memory.
LEMMA FileKept ==
    ASSUME IInv, [Next]_vars
    PROVE  FileIsSaved' /\ StopHasSaved'
<1>1. mem \in Memory
  BY DEF IInv, TypeOK
<1> USE <1>1 DEF IInv, FileIsSaved, StopHasSaved, InWrite
<1>2. CASE Change
  BY <1>2 DEF Change
<1>3. CASE BeginWrite
  BY <1>3 DEF BeginWrite, fileVars
<1>4. CASE OpenFile
  BY <1>4 DEF OpenFile
<1>5. CASE OpenFailure
  BY <1>5 DEF OpenFailure, fileVars
<1>6. CASE CloseFile
  BY <1>6 DEF CloseFile
<1>7. CASE EndWrite
  BY <1>7 DEF EndWrite, fileVars
<1>8. CASE Stop
  BY <1>8 DEF Stop
<1>9. CASE StopUnsaved
  BY <1>9 DEF StopUnsaved
<1>10. CASE Kill
  BY <1>10 DEF Kill, fileVars
<1>11. CASE PowerLoss
  BY <1>11 DEF PowerLoss
<1>12. CASE Start
  BY <1>12 DEF Start
<1>13. CASE UNCHANGED vars
  BY <1>13 DEF vars
<1> QED BY <1>2, <1>3, <1>4, <1>5, <1>6, <1>7, <1>8, <1>9, <1>10, <1>11, <1>12, <1>13
       DEF Next

\* The other variables keep their types.
LEMMA TypesKept ==
    ASSUME IInv, [Next]_vars
    PROVE  TypeOK'
<1>1. mem' \in Memory /\ ZoneCount(mem') \in 1..MaxZones
  BY MemoryKept
<1>2. saved' = Nothing \/ saved' \in Memory
  BY FileKept DEF FileIsSaved
<1>3. file' \in Seq(Int)
  BY FileKept, ContentsShape, EmptySeq DEF FileIsSaved
<1>4. /\ pc' \in {"idle", "stopped", "killed"} \cup InWrite
      /\ writing' \in {"cache", "cron"}
      /\ state' \in BOOLEAN
      /\ root' \in Modes /\ boot' \in Modes
      /\ trouble' \subseteq {"cut", "open", "busy"}
  <2> USE DEF IInv, TypeOK, InWrite, Modes, rootVars, fileVars, RemountRo,
              HandlerRemounts, Cut
  <2>1. CASE Change
    BY <2>1 DEF Change
  <2>2. CASE BeginWrite
    BY <2>2 DEF BeginWrite, RemountRw
  <2>3. CASE OpenFile
    BY <2>3 DEF OpenFile
  <2>4. CASE OpenFailure
    BY <2>4 DEF OpenFailure
  <2>5. CASE CloseFile
    BY <2>5 DEF CloseFile
  <2>6. CASE EndWrite
    BY <2>6 DEF EndWrite
  <2>7. CASE Stop
    BY <2>7 DEF Stop
  <2>8. CASE StopUnsaved
    BY <2>8 DEF StopUnsaved
  <2>9. CASE Kill
    BY <2>9 DEF Kill
  <2>10. CASE PowerLoss
    BY <2>10 DEF PowerLoss
  <2>11. CASE Start
    BY <2>11 DEF Start
  <2>12. CASE UNCHANGED vars
    BY <2>12 DEF vars
  <2> QED BY <2>1, <2>2, <2>3, <2>4, <2>5, <2>6, <2>7, <2>8, <2>9, <2>10, <2>11, <2>12
         DEF Next
<1> QED BY <1>1, <1>2, <1>3, <1>4 DEF TypeOK

\* The root.
LEMMA RootKept ==
    ASSUME IInv, [Next]_vars
    PROVE  RootInv'
<1> USE DEF IInv, TypeOK, RootInv, InWrite, Modes, rootVars, fileVars
<1>1. CASE Change
  BY <1>1 DEF Change
<1>2. CASE BeginWrite
  BY <1>2 DEF BeginWrite, RemountRw
<1>3. CASE OpenFile
  BY <1>3 DEF OpenFile
<1>4. CASE OpenFailure
  BY <1>4 DEF OpenFailure, RemountRo
<1>5. CASE CloseFile
  BY <1>5 DEF CloseFile
<1>6. CASE EndWrite
  BY <1>6 DEF EndWrite, RemountRo
<1>7. CASE Stop
  BY <1>7 DEF Stop, Up, HandlerRemounts, RemountRo, Cut
<1>8. CASE StopUnsaved
  BY <1>8 DEF StopUnsaved, Up, HandlerRemounts, RemountRo, Cut
<1>9. CASE Kill
  BY <1>9 DEF Kill, Up, Cut
<1>10. CASE PowerLoss
  BY <1>10 DEF PowerLoss
<1>11. CASE Start
  BY <1>11 DEF Start
<1>12. CASE UNCHANGED vars
  BY <1>12 DEF vars
<1> QED BY <1>1, <1>2, <1>3, <1>4, <1>5, <1>6, <1>7, <1>8, <1>9, <1>10, <1>11, <1>12
       DEF Next

LEMMA Inductive == IInv /\ [Next]_vars => IInv'
BY TypesKept, FileKept, RootKept DEF IInv

LEMMA Invariance == Spec => []IInv
<1>1. IInv /\ [Next]_vars => IInv'
  BY Inductive
<1> QED BY InitHolds, <1>1, PTL DEF Spec

-----------------------------------------------------------------------------
(***************************************************************************)
(* The theorems.                                                            *)
(***************************************************************************)
\* Every variable keeps its type, in particular what a start reads from a file: a
\* runtime that comes back is never the separator.
THEOREM TypesHold == Spec => []TypeOK
<1>1. IInv => TypeOK
  BY DEF IInv
<1> QED BY Invariance, <1>1, PTL

\* The root is mounted as the machine mounts it, for any order of writes, failures and
\* ends of the process (remount_root_ro).
THEOREM RootAsBootedHolds == Spec => []RootAsBooted
<1>1. IInv => RootAsBooted
  BY DEF IInv, RootInv, RootAsBooted
<1> QED BY Invariance, <1>1, PTL

\* A start reads what the file was closed with, for any number of zones and any values
\* (write_cache, read_cache).
THEOREM RestartRestoresHolds == Spec => RestartRestores
<1>1. IInv /\ [Next]_vars => [~Up /\ pc' = "idle" => Restored]_vars
  <2> SUFFICES ASSUME IInv, Next, ~Up, pc' = "idle" PROVE Restored
    OBVIOUS
  <2>1. Start
    BY DEF Next, Change, BeginWrite, OpenFile, OpenFailure, CloseFile, EndWrite,
           Stop, StopUnsaved, Kill, PowerLoss, Up, InWrite
  <2>2. PICK n \in ZoneCount(mem)..MaxZones : mem' = ReadCache(file, n)
    BY <2>1 DEF Start
  <2>3. n \in Nat
    BY ZonesAssumption DEF IInv, TypeOK
  <2>4. CASE saved = Nothing /\ file = <<>>
    BY <2>2, <2>3, <2>4, EmptyFile DEF Restored
  <2>5. CASE saved \in Memory /\ file = Contents(saved)
    <3>1. saved # Nothing
      BY <2>5, MemoryShape
    <3> QED BY <2>2, <2>3, <2>5, <3>1, RoundTrip DEF Restored
  <2> QED BY <2>4, <2>5 DEF IInv, FileIsSaved
<1> QED BY Invariance, <1>1, PTL DEF Spec, RestartRestores

\* A daemon that a signal has stopped starts with the values it had, wherever the signal
\* met it (intHandler).
THEOREM StopKeepsValuesHolds == Spec => StopKeepsValues
<1>1. IInv /\ [Next]_vars => [pc = "stopped" /\ pc' = "idle" => Restores(mem', mem)]_vars
  <2> SUFFICES ASSUME IInv, Next, pc = "stopped", pc' = "idle" PROVE Restores(mem', mem)
    OBVIOUS
  <2>1. Start
    BY DEF Next, Change, BeginWrite, OpenFile, OpenFailure, CloseFile, EndWrite,
           Stop, StopUnsaved, Kill, PowerLoss, Up, InWrite
  <2>2. PICK n \in ZoneCount(mem)..MaxZones : mem' = ReadCache(file, n)
    BY <2>1 DEF Start
  <2>3. n \in Nat /\ mem \in Memory /\ mem # Nothing
    BY ZonesAssumption, MemoryShape DEF IInv, TypeOK
  <2>4. file = Contents(mem)
    BY <2>3 DEF IInv, FileIsSaved, StopHasSaved
  <2> QED BY <2>2, <2>3, <2>4, RoundTrip
<1> QED BY Invariance, <1>1, PTL DEF Spec, StopKeepsValues
=============================================================================
