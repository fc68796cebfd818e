--------------------------- MODULE DomoticzProofs ---------------------------
(***************************************************************************)
(* What a Domoticz hub can rely on, for every number of zones, every set of *)
(* switches, every number of slots and queues of any length.                *)
(***************************************************************************)
EXTENDS Domoticz, RainDelayProofs, FiniteSetTheorems

\* A message of q is about d; the last one about d says v.
Mentions(q, d) == \E i \in DOMAIN q : q[i].dev = d

LastSays(q, d, v) ==
    \E i \in DOMAIN q : /\ q[i].dev = d /\ q[i].on = v
                        /\ \A j \in DOMAIN q : j > i => q[j].dev # d

\* What the hub shows for d once the messages on their way have arrived.
WillShow(d, v) == IF Mentions(toHub, d) THEN LastSays(toHub, d, v) ELSE hub[d] = v

\* A user's switch of d to v is on its way.
UserComes(d, v) ==
    \E i \in DOMAIN toDaemon : toDaemon[i].by = "user" /\ toDaemon[i].dev = d /\ toDaemon[i].on = v

\* On a connection that was acknowledged, and without an event, dz_cache holds what was
\* published last.
Fresh == heard # "no" /\ events = {} => \A d \in DOMAIN dzCache : dzCache[d] = Value(d)

\* The newest message about a device with a slot carries its value in dz_cache.
NewestIsCached ==
    \A d \in DOMAIN dzCache :
        /\ Mentions(toHub, d) => LastSays(toHub, d, dzCache[d])
        /\ \A i \in DOMAIN toDaemon :
              /\ toDaemon[i].dev = d /\ toDaemon[i].by = "echo"
              /\ ~Mentions(toHub, d)
              /\ \A j \in DOMAIN toDaemon :
                    j > i => ~(toDaemon[j].dev = d /\ toDaemon[j].by = "echo")
              => toDaemon[i].on = dzCache[d]

\* The hub will show x for d, or the daemon will hear of the switch of its user.
ComesToShow(d, x) == \E v \in BOOLEAN : WillShow(d, v) /\ (v = x \/ UserComes(d, v))

\* So it is with what dz_cache has, unless there is a change to publish.
CachedAgree ==
    ~missed /\ ~crowded =>
        \A d \in DOMAIN dzCache : ComesToShow(d, dzCache[d]) \/ Value(d) # dzCache[d]

\* And with a device without a slot, of which every pass of the loop tells.
UncachedAgree ==
    ~missed /\ heard # "no" /\ events = {} =>
        \A d \in Devices \ DOMAIN dzCache : ComesToShow(d, Value(d))

\* A user does not switch the master valve.
UsersSwitchZones == \A i \in DOMAIN toDaemon : toDaemon[i].by = "user" => toDaemon[i].dev # 0

\* The hub reaches the daemon on a connection that was acknowledged, and on no other.
HeardWhenUp == (heard # "no" => up) /\ (heard = "no" => toDaemon = <<>>)

\* What holds in every configuration; with a master valve; and with good pins besides.
Inv       == TypeOK /\ RunInv /\ NewestIsCached /\ UsersSwitchZones /\ HeardWhenUp
ToldInv   == RunHasMaster /\ Fresh
AgreesInv == CachedAgree /\ UncachedAgree

-----------------------------------------------------------------------------
(***************************************************************************)
(* Publishing.                                                              *)
(***************************************************************************)
\* The devices of a finite set have different places, below the number of devices.
LEMMA BeforeGrows ==
    ASSUME NEW S \in SUBSET Int, IsFiniteSet(S), NEW d \in S
    PROVE  /\ Before(S, d) \in Nat /\ Before(S, d) < Cardinality(S)
           /\ \A e \in S : d < e => Before(S, d) < Before(S, e)
<1> DEFINE below == {x \in S : x < d}
           upTo == below \cup {d}
<1>1. /\ IsFiniteSet(below) /\ Cardinality(below) \in Nat
      /\ Cardinality(upTo) = Cardinality(below) + 1 /\ Cardinality(upTo) \in Nat
  <2>1. IsFiniteSet(below) /\ d \notin below
    BY FS_Subset
  <2> HIDE DEF below
  <2> QED BY <2>1, FS_AddElement, FS_CardinalityType
<1>2. Cardinality(upTo) <= Cardinality(S)
  <2>1. upTo \in SUBSET S
    OBVIOUS
  <2> QED BY <2>1, FS_Subset
<1>3. ASSUME NEW e \in S, d < e PROVE Before(S, d) < Before(S, e)
  <2> DEFINE T == {x \in S : x < e}
  <2>1. T \in SUBSET S
    OBVIOUS
  <2>2. IsFiniteSet(T)
    BY <2>1, FS_Subset
  <2>3. upTo \in SUBSET T
    <3>1. d \in Int /\ e \in Int /\ \A x \in S : x \in Int
      OBVIOUS
    <3>2. \A x \in S : x < d => x < e
      BY <1>3, <3>1
    <3> QED BY <1>3, <3>2
  <2>4. Cardinality(upTo) <= Cardinality(T) /\ Cardinality(T) \in Nat
    BY <2>2, <2>3, FS_Subset, FS_CardinalityType
  <2>5. Before(S, d) = Cardinality(below) /\ Before(S, e) = Cardinality(T)
    BY DEF Before
  <2> HIDE DEF below, T, upTo
  <2> QED BY <1>1, <2>4, <2>5
<1>4. Before(S, d) = Cardinality(below) /\ Cardinality(S) \in Nat
  BY FS_CardinalityType DEF Before
<1> HIDE DEF below, upTo
<1> QED BY <1>1, <1>2, <1>3, <1>4

\* So they are told apart by the devices before them.
LEMMA BeforeDiffers ==
    ASSUME NEW S \in SUBSET Int, IsFiniteSet(S), NEW d \in S, NEW e \in S,
           Before(S, d) = Before(S, e)
    PROVE  d = e
<1>1. d < e \/ e < d \/ d = e
  OBVIOUS
<1> QED BY <1>1, BeforeGrows

\* InOrder lists the devices of a finite set, each once.
LEMMA InOrderLists ==
    ASSUME NEW S \in SUBSET Int, IsFiniteSet(S)
    PROVE  /\ DOMAIN InOrder(S) = 1..Cardinality(S) /\ Cardinality(S) \in Nat
           /\ \A i \in 1..Cardinality(S) : InOrder(S)[i] \in S
           /\ \A i, j \in 1..Cardinality(S) : InOrder(S)[i] = InOrder(S)[j] => i = j
           /\ \A d \in S : \E i \in 1..Cardinality(S) : InOrder(S)[i] = d
<1> DEFINE n == Cardinality(S)
           place == [d \in S |-> Before(S, d)]
<1>1. n \in Nat
  BY FS_CardinalityType
<1>2. \A d \in S : Before(S, d) \in 0..(n - 1)
  BY <1>1, BeforeGrows
<1>3. \A d, e \in S : Before(S, d) = Before(S, e) => d = e
  BY BeforeDiffers
<1>4. place \in Injection(S, 0..(n - 1))
  BY <1>2, <1>3 DEF Injection, IsInjective
<1>5. IsFiniteSet(0..(n - 1)) /\ Cardinality(0..(n - 1)) = n
  <2> HIDE DEF n
  <2> QED BY <1>1, FS_Interval
<1>6. place \in Surjection(S, 0..(n - 1))
  BY <1>4, <1>5, FS_Injection
<1>7. ASSUME NEW i \in 1..n
      PROVE  InOrder(S)[i] \in S /\ Before(S, InOrder(S)[i]) = i - 1
  <2>1. InOrder(S)[i] = CHOOSE d \in S : Before(S, d) = i - 1
    BY DEF InOrder
  <2>2. i - 1 \in 0..(n - 1)
    BY <1>1
  <2>3. \E d \in S : Before(S, d) = i - 1
    BY <1>6, <2>2 DEF Surjection
  <2> QED BY <2>1, <2>3
<1>8. \A i, j \in 1..n : InOrder(S)[i] = InOrder(S)[j] => i = j
  <2> SUFFICES ASSUME NEW i \in 1..n, NEW j \in 1..n, InOrder(S)[i] = InOrder(S)[j] PROVE i = j
    OBVIOUS
  <2>1. i - 1 = j - 1 /\ i \in Int /\ j \in Int
    BY <1>7
  <2> QED BY <2>1
<1>9. ASSUME NEW d \in S PROVE \E i \in 1..n : InOrder(S)[i] = d
  <2> DEFINE i == Before(S, d) + 1
  <2>1. i \in 1..n /\ i - 1 = Before(S, d)
    BY <1>1, <1>2
  <2>2. InOrder(S)[i] \in S /\ Before(S, InOrder(S)[i]) = Before(S, d)
    BY <1>7, <2>1
  <2> QED BY <1>3, <2>1, <2>2
<1>10. DOMAIN InOrder(S) = 1..n
  BY DEF InOrder
<1> QED BY <1>1, <1>7, <1>8, <1>9, <1>10

\* The devices are a finite set of numbers.
LEMMA DevicesAreFinite == Devices \subseteq 0..(N + 3) /\ IsFiniteSet(Devices)
<1>1. Devices \subseteq 0..(N + 3) /\ 0 \in Int /\ N + 3 \in Int
  BY DomoticzAssumption, ZonesAssumption
<1>2. IsFiniteSet(0..(N + 3))
  BY <1>1, FS_Interval
<1> QED BY <1>1, <1>2, FS_Subset

\* No more devices get a slot than there are.
LEMMA SlotsSuffice ==
    ASSUME DOMAIN dzCache \subseteq Devices, Cardinality(DOMAIN dzCache) <= N + NON_ZONE_DZIDS
    PROVE  Cardinality(DOMAIN dzCache \cup GetsSlot) <= N + NON_ZONE_DZIDS
<1> DEFINE old == DOMAIN dzCache
           new == GetsSlot
           slots == N + NON_ZONE_DZIDS
           free == slots - Cardinality(old)
           place == [d \in new |-> Before(Uncached, d)]
<1>1. IsFiniteSet(old) /\ Cardinality(old) \in Nat
  BY DevicesAreFinite, FS_Subset, FS_CardinalityType
<1>2. Uncached \in SUBSET Int /\ IsFiniteSet(Uncached) /\ new \in SUBSET Uncached
  <2>1. Uncached \in SUBSET Devices /\ new \in SUBSET Uncached
    BY DEF Uncached, GetsSlot
  <2>2. Devices \subseteq Int
    BY DevicesAreFinite, ZonesAssumption
  <2>3. IsFiniteSet(Uncached)
    BY <2>1, DevicesAreFinite, FS_Subset
  <2> QED BY <2>1, <2>2, <2>3
<1>3. IsFiniteSet(new) /\ Cardinality(new) \in Nat
  BY <1>2, FS_Subset, FS_CardinalityType
<1>4. slots \in Nat /\ free \in Nat
  BY <1>1, ZonesAssumption, DomoticzAssumption
<1>5. \A d \in new : Before(Uncached, d) \in 0..(free - 1)
  <2> SUFFICES ASSUME NEW d \in new PROVE Before(Uncached, d) \in 0..(free - 1)
    OBVIOUS
  <2>1. Before(Uncached, d) \in Nat
    BY <1>2, BeforeGrows
  <2>2. Cardinality(old) + Before(Uncached, d) < slots
    BY DEF GetsSlot
  <2> HIDE DEF old, new, slots
  <2> QED BY <1>1, <1>4, <2>1, <2>2
<1>6. \A d, e \in new : Before(Uncached, d) = Before(Uncached, e) => d = e
  BY <1>2, BeforeDiffers
<1>7. place \in Injection(new, 0..(free - 1))
  <2> HIDE DEF new, free
  <2> QED BY <1>5, <1>6 DEF Injection, IsInjective
<1>8. IsFiniteSet(0..(free - 1)) /\ Cardinality(0..(free - 1)) = free
  <2> HIDE DEF free, slots
  <2>1. 0 \in Int /\ free - 1 \in Int
    BY <1>4
  <2>2. Cardinality(0..(free - 1)) = IF 0 > free - 1 THEN 0 ELSE (free - 1) - 0 + 1
    BY <2>1, FS_Interval
  <2> QED BY <1>4, <2>1, <2>2, FS_Interval
<1>9. Cardinality(new) <= free
  <2> HIDE DEF new, free, place
  <2> QED BY <1>7, <1>8, FS_Injection
<1>10. /\ Cardinality(old \cup new) = Cardinality(old) + Cardinality(new) - Cardinality(old \cap new)
       /\ Cardinality(old \cap new) \in Nat
  <2> HIDE DEF old, new
  <2> QED BY <1>1, <1>3, FS_Union, FS_Intersection, FS_CardinalityType
<1> HIDE DEF old, new, slots
<1> QED BY <1>1, <1>3, <1>4, <1>9, <1>10 DEF old, new, slots

\* What the queue q holds after the segment s, in which each message about d says v.
LEMMA AppendedSays ==
    ASSUME NEW M, NEW q \in Seq(M), NEW s \in Seq(M), NEW d, NEW v,
           NEW i \in DOMAIN s, s[i].dev = d, s[i].on = v,
           \A j \in DOMAIN s : s[j].dev = d => j = i
    PROVE  Mentions(q \o s, d) /\ LastSays(q \o s, d, v)
<1> DEFINE r == q \o s
           k == Len(q) + i
<1>1. /\ k \in DOMAIN r /\ r[k] = s[i] /\ i \in Nat /\ Len(q) \in Nat
      /\ \A j \in DOMAIN r : j > k => j - Len(q) \in DOMAIN s /\ r[j] = s[j - Len(q)] /\ j \in Nat
  OBVIOUS
<1>2. ASSUME NEW j \in DOMAIN r, j > k, r[j].dev = d PROVE FALSE
  <2>1. j - Len(q) \in DOMAIN s /\ s[j - Len(q)].dev = d /\ j \in Nat
    BY <1>1, <1>2
  <2>2. j - Len(q) = i
    BY <2>1
  <2> QED BY <1>1, <1>2, <2>1, <2>2
<1> HIDE DEF k, r
<1>3. Mentions(r, d) /\ LastSays(r, d, v)
  BY <1>1, <1>2 DEF Mentions, LastSays
<1> QED BY <1>3 DEF r

\* A segment without a message about d changes nothing for d.
LEMMA AppendedSilent ==
    ASSUME NEW M, NEW q \in Seq(M), NEW s \in Seq(M), NEW d,
           \A j \in DOMAIN s : s[j].dev # d
    PROVE  /\ Mentions(q \o s, d) => Mentions(q, d)
           /\ \A v : LastSays(q, d, v) => LastSays(q \o s, d, v)
<1> DEFINE r == q \o s
<1>1. \A j \in DOMAIN r : \/ j \in DOMAIN q /\ r[j] = q[j]
                          \/ j - Len(q) \in DOMAIN s /\ r[j] = s[j - Len(q)]
  OBVIOUS
<1>2. \A j \in DOMAIN q : j \in DOMAIN r /\ r[j] = q[j]
  OBVIOUS
<1> HIDE DEF r
<1>3. Mentions(r, d) => Mentions(q, d)
  BY <1>1 DEF Mentions
<1>4. ASSUME NEW v, LastSays(q, d, v) PROVE LastSays(r, d, v)
  <2>1. PICK i \in DOMAIN q : /\ q[i].dev = d /\ q[i].on = v
                              /\ \A j \in DOMAIN q : j > i => q[j].dev # d
    BY <1>4 DEF LastSays
  <2>2. i \in DOMAIN r /\ r[i] = q[i]
    BY <1>2
  <2>3. \A j \in DOMAIN r : j > i => r[j].dev # d
    BY <1>1, <2>1
  <2> QED BY <2>1, <2>2, <2>3 DEF LastSays
<1> QED BY <1>3, <1>4 DEF r

\* update_dz_cache stores the values, and sends those that changed.
LEMMA Publishes ==
    ASSUME DOMAIN dzCache \subseteq Devices, toHub \in Seq(Messages),
           NEW values \in [Devices -> BOOLEAN], UpdateDzCache(values)
    PROVE  /\ DOMAIN dzCache' = DOMAIN dzCache \cup GetsSlot /\ DOMAIN dzCache' \subseteq Devices
           /\ \A d \in DOMAIN dzCache' : dzCache'[d] = values[d]
           /\ toHub' \in Seq(Messages)
           /\ \A d \in Changed(values) : Mentions(toHub', d) /\ LastSays(toHub', d, values[d])
           /\ \A d \in Devices \ Changed(values) :
                 /\ d \in DOMAIN dzCache /\ dzCache[d] = values[d]
                 /\ Mentions(toHub', d) => Mentions(toHub, d)
                 /\ \A v : LastSays(toHub, d, v) => LastSays(toHub', d, v)
<1> DEFINE S == Changed(values)
           order == InOrder(S)
           n == Cardinality(S)
           seg == [i \in DOMAIN order |-> [dev |-> order[i], on |-> values[order[i]]]]
<1>1. S \subseteq Devices /\ S \in SUBSET Int /\ IsFiniteSet(S)
  <2>1. S \in SUBSET Devices
    BY DEF Changed, Uncached
  <2>2. Devices \subseteq Int
    BY DevicesAreFinite, ZonesAssumption
  <2> HIDE DEF S
  <2> QED BY <2>1, <2>2, DevicesAreFinite, FS_Subset
<1>2. /\ DOMAIN order = 1..n /\ n \in Nat
      /\ \A i \in 1..n : order[i] \in S
      /\ \A i, j \in 1..n : order[i] = order[j] => i = j
      /\ \A d \in S : \E i \in 1..n : order[i] = d
  <2> HIDE DEF S
  <2> QED BY <1>1, InOrderLists
<1>3. toHub' = toHub \o seg
  BY DEF UpdateDzCache, Send
<1> HIDE DEF S, order, n
<1>4. /\ seg \in Seq(Messages) /\ DOMAIN seg = 1..n
      /\ \A i \in 1..n : seg[i].dev = order[i] /\ seg[i].on = values[order[i]]
  <2>1. DOMAIN seg = 1..n
    BY <1>2
  <2>2. \A i \in 1..n : seg[i] = [dev |-> order[i], on |-> values[order[i]]]
    BY <1>2
  <2>3. \A i \in 1..n : seg[i] \in Messages
    BY <1>1, <1>2, <2>2 DEF Messages
  <2>4. seg \in [1..n -> Messages]
    BY <1>2, <2>1, <2>3
  <2> HIDE DEF seg
  <2>5. seg \in Seq(Messages)
    BY <1>2, <2>4
  <2> QED BY <2>1, <2>2, <2>5
<1> HIDE DEF seg
<1>5. /\ DOMAIN dzCache' = DOMAIN dzCache \cup GetsSlot
      /\ \A d \in DOMAIN dzCache' : dzCache'[d] = values[d]
  BY DEF UpdateDzCache
<1>6. DOMAIN dzCache' \subseteq Devices
  BY <1>5 DEF GetsSlot, Uncached
<1>7. toHub' \in Seq(Messages)
  BY <1>3, <1>4
<1>8. ASSUME NEW d \in S
      PROVE  Mentions(toHub', d) /\ LastSays(toHub', d, values[d])
  <2>1. PICK i \in 1..n : order[i] = d
    BY <1>2
  <2>2. \A j \in DOMAIN seg : seg[j].dev = d => j = i
    BY <1>2, <1>4, <2>1
  <2>3. i \in DOMAIN seg /\ seg[i].dev = d /\ seg[i].on = values[d] /\ seg \in Seq(Messages)
    BY <1>4, <2>1
  <2>4. Mentions(toHub \o seg, d) /\ LastSays(toHub \o seg, d, values[d])
    BY <2>2, <2>3, AppendedSays
  <2> QED BY <1>3, <2>4
<1>9. ASSUME NEW d \in Devices, d \notin S
      PROVE  /\ d \in DOMAIN dzCache /\ dzCache[d] = values[d]
             /\ Mentions(toHub', d) => Mentions(toHub, d)
             /\ \A v : LastSays(toHub, d, v) => LastSays(toHub', d, v)
  <2>1. d \in DOMAIN dzCache /\ dzCache[d] = values[d]
    BY <1>9 DEF S, Changed, Uncached
  <2>2. \A j \in DOMAIN seg : seg[j].dev # d
    BY <1>2, <1>4, <1>9
  <2> QED BY <1>3, <1>4, <2>1, <2>2, AppendedSilent
<1> QED BY <1>5, <1>6, <1>7, <1>8, <1>9 DEF S

-----------------------------------------------------------------------------
(***************************************************************************)
(* The switches of the daemon.                                              *)
(***************************************************************************)
\* What each switch shows, before and after a step.
LEMMA ValueIs ==
    /\ \A z \in 0..N : Value(z) = (z \in open) /\ Value(z)' = (z \in open')
    /\ Value(Calendar) = calendar /\ Value(Calendar)' = calendar'
    /\ Value(Delay24h) = delay24h /\ Value(Delay24h)' = delay24h'
    /\ Value(AllZones) = (cur.type = "ALL") /\ Value(AllZones)' = (cur'.type = "ALL")
BY ZonesAssumption DEF Value, Calendar, Delay24h, AllZones

LEMMA DevicesAre ==
    \A d \in 0..(N + 3) : d \in 0..N \/ d = Calendar \/ d = Delay24h \/ d = AllZones
BY ZonesAssumption DEF Calendar, Delay24h, AllZones

LEMMA ValuesAre ==
    ASSUME ZcTypeOK, ZcTypeOK'
    PROVE  /\ Values \in [Devices -> BOOLEAN] /\ Values' \in [Devices -> BOOLEAN]
           /\ \A d \in Devices : /\ Value(d) \in BOOLEAN /\ Value(d)' \in BOOLEAN
                                 /\ Values[d] = Value(d) /\ Values'[d] = Value(d)'
<1>1. \A d \in Devices : Value(d) \in BOOLEAN /\ Value(d)' \in BOOLEAN
  <2> SUFFICES ASSUME NEW d \in Devices PROVE Value(d) \in BOOLEAN /\ Value(d)' \in BOOLEAN
    OBVIOUS
  <2>1. calendar \in BOOLEAN /\ calendar' \in BOOLEAN /\ delay24h \in BOOLEAN /\ delay24h' \in BOOLEAN
    BY DEF ZcTypeOK
  <2>2. CASE d \in 0..N
    <3>1. Value(d) = (d \in open) /\ Value(d)' = (d \in open')
      BY <2>2, ValueIs
    <3>2. (d \in open) \in BOOLEAN /\ (d \in open') \in BOOLEAN
      OBVIOUS
    <3> QED BY <3>1, <3>2
  <2>3. CASE d = Calendar
    BY <2>1, <2>3, ValueIs
  <2>4. CASE d = Delay24h
    BY <2>1, <2>4, ValueIs
  <2>5. CASE d = AllZones
    BY <2>5, ValueIs
  <2> QED BY <2>2, <2>3, <2>4, <2>5, DevicesAre, DevicesAreFinite
<1> QED BY <1>1 DEF Values

\* What leaves the run, the calendar and the delay as they show leaves the switches.
LEMMA ValuesStay ==
    ASSUME open' = open, (cur'.type = "ALL") = (cur.type = "ALL"),
           calendar' = calendar, delay24h' = delay24h
    PROVE  Values' = Values /\ \A d \in Devices : Value(d)' = Value(d)
<1>1. \A d \in Devices : Value(d)' = Value(d)
  <2> SUFFICES ASSUME NEW d \in Devices PROVE Value(d)' = Value(d)
    OBVIOUS
  <2>1. d \in 0..N \/ d = Calendar \/ d = Delay24h \/ d = AllZones
    BY DevicesAre, DevicesAreFinite
  <2> QED BY <2>1, ValueIs
<1> QED BY <1>1 DEF Values

\* A handler keeps the types and the run.
LEMMA SwitchKeeps ==
    ASSUME ZcTypeOK, RainTypeOK, RunInv,
           NEW d, NEW on \in BOOLEAN, Switch(d, on), runtime' = runtime
    PROVE  ZcTypeOK' /\ DelayTypeOK' /\ RunInv'
<1> DEFINE Goal == ZcTypeOK' /\ DelayTypeOK' /\ RunInv'
<1> SUFFICES Goal
  OBVIOUS
<1>1. ASSUME RunTypeOK', RunInv', calendar' \in BOOLEAN, DelayTypeOK' PROVE Goal
  BY <1>1 DEF ZcTypeOK, RunTypeOK, DelayTypeOK
<1>2. calendar \in BOOLEAN /\ DelayTypeOK
  BY DEF ZcTypeOK, RainTypeOK, DelayTypeOK
<1> HIDE DEF Goal
<1>3. ASSUME NEW type \in {"SINGLE", "ALL"}, NEW z \in 0..N, z = 0 => type = "ALL",
             ZcZone(type, z, on, 0, {}), UNCHANGED <<calendar, delayVars>>
      PROVE  Goal
  <2>1. type \in {"SINGLE", "CRON", "ALL"} /\ 0 \in Lengths \cup {0} /\ {} \in SUBSET Bits
    OBVIOUS
  <2>2. RunTypeOK' /\ RunInv'
    BY <1>3, <2>1, ZcZoneKeeps
  <2>3. calendar' = calendar /\ DelayTypeOK'
    BY <1>2, <1>3 DEF DelayTypeOK, delayVars
  <2> QED BY <1>1, <1>2, <2>2, <2>3
<1>4. CASE d \in Zones /\ ZcZone("SINGLE", d, on, 0, {}) /\ UNCHANGED <<calendar, delayVars>>
  BY <1>3, <1>4, ZonesAssumption DEF Zones
<1>5. CASE ZcZone("ALL", 0, on, 0, {}) /\ UNCHANGED <<calendar, delayVars>>
  BY <1>3, <1>5, ZonesAssumption
<1>6. CASE EnableCalendar(on, {}) /\ UNCHANGED <<open, cur, elapsed, delayVars>>
  <2>1. calendar' = on /\ events' = events \cup (IF calendar # on THEN {"status"} ELSE {})
    BY <1>6 DEF EnableCalendar, Raise
  <2>2. RunTypeOK' /\ DelayTypeOK'
    BY <1>2, <1>6, <2>1 DEF RunTypeOK, ZcTypeOK, Bits, DelayTypeOK, delayVars
  <2>3. RunInv'
    BY <1>6 DEF RunInv, OneZoneOpen, RunOwnsZones, RunHasZone, MasterIsDriven, MasterIsTimed, Watering
  <2> QED BY <1>1, <2>1, <2>2, <2>3
<1>7. CASE EnableDelay24h(on, {}) /\ UNCHANGED calendar
  <2>1. Kept
    BY <1>7, EnableDelay24hKeeps
  <2> QED BY <1>1, <1>2, <1>7, <2>1 DEF Kept
<1> QED BY <1>4, <1>5, <1>6, <1>7 DEF Switch

\* A handler that changes a switch raises an event bit.
LEMMA SwitchTells ==
    ASSUME MasterPin = {0}, RunInv, RunHasMaster, NEW d, NEW on \in BOOLEAN, Switch(d, on)
    PROVE  RunHasMaster' /\ events \subseteq events' /\ (Values' # Values => events' # {})
<1> DEFINE Goal == /\ RunHasMaster' /\ events \subseteq events'
                   /\ Values' # Values => events' # {}
<1> SUFFICES Goal
  OBVIOUS
<1>1. RunView' = RunView => open' = open /\ (cur'.type = "ALL") = (cur.type = "ALL")
  BY DEF RunView
<1>2. ASSUME NEW type \in {"SINGLE", "CRON", "ALL"}, NEW z, ZcZone(type, z, on, 0, {}),
             UNCHANGED <<calendar, delayVars>>
      PROVE  Goal
  <2>1. RunHasMaster' /\ Told
    BY <1>2, ZcZoneTells
  <2>2. calendar' = calendar /\ delay24h' = delay24h
    BY <1>2 DEF delayVars
  <2> QED BY <1>1, <2>1, <2>2, ValuesStay DEF Told
<1>3. CASE EnableCalendar(on, {}) /\ UNCHANGED <<open, cur, elapsed, delayVars>>
  <2>1. calendar' = on /\ events' = events \cup (IF calendar # on THEN {"status"} ELSE {})
    BY <1>3 DEF EnableCalendar, Raise
  <2>2. delay24h' = delay24h
    BY <1>3 DEF delayVars
  <2> QED BY <1>3, <2>1, <2>2, ValuesStay DEF RunHasMaster
<1>4. CASE EnableDelay24h(on, {}) /\ UNCHANGED calendar
  <2>1. CASE on = delay24h /\ UNCHANGED <<open, cur, elapsed, delayVars>> /\ Raise({})
    BY <1>4, <2>1, ValuesStay DEF RunHasMaster, Raise, delayVars
  <2>2. CASE DelayOn(Day, {} \cup {"status"})
    BY <2>2, DelayOnTells DEF Told
  <2>3. CASE UNCHANGED <<open, cur, elapsed>> /\ Raise({} \cup {"status"})
    BY <2>3 DEF RunHasMaster, Raise
  <2> QED BY <1>4, <2>1, <2>2, <2>3 DEF EnableDelay24h
<1> HIDE DEF Goal
<1> QED BY <1>2, <1>3, <1>4 DEF Switch

LEMMA CycleStarts ==
    ASSUME NEW k, NEW left, NEW y \in Runnable(k, left), StartNextZone(k, left)
    PROVE  cur'.type = "ALL"
<1>1. PICK z \in Runnable(k, left) : cur' = [type |-> "ALL", zone |-> z, duration |-> runtime[z]]
  BY DEF StartNextZone
<1> QED BY <1>1

\* A switch turned over shows what was asked for, when every zone has a pin and a runtime.
LEMMA SwitchWorks ==
    ASSUME MasterPin = {0}, ValidPin = 0..N, \A t \in Runtimes : t > 0,
           ZcTypeOK, RunInv, NEW d, NEW on \in BOOLEAN, Switch(d, on)
    PROVE  Value(d)' = on
<1> USE ZonesAssumption
<1>1. \A z \in Zones : runtime[z] \in Int /\ runtime[z] > 0
  <2>1. \A z \in Zones : z \in 0..N /\ runtime[z] \in Runtimes
    BY DEF ZcTypeOK, Zones
  <2> QED BY <2>1, RuntimesAssumption
<1>2. CASE d \in Zones /\ ZcZone("SINGLE", d, on, 0, {})
  <2>1. d \in 0..N /\ Value(d)' = (d \in open')
    BY <1>2, ValueIs DEF Zones
  <2>2. CASE Duplicate("SINGLE", d, on)
    <3>1. Ignored("SINGLE", d, on, 0)
      BY <2>2 DEF Ignored
    <3>2. open' = open
      BY <1>2, <3>1 DEF ZcZone
    <3> QED BY <1>2, <2>1, <2>2, <3>2 DEF Duplicate
  <2>3. CASE ~Duplicate("SINGLE", d, on)
    <3>1. ~Ignored("SINGLE", d, on, 0)
      BY <1>1, <1>2, <2>3 DEF Ignored, NotScheduled, RunLength
    <3>2. CASE on
      <4>1. SwitchOn("SINGLE", d, 0, {})
        BY <1>2, <3>1, <3>2 DEF ZcZone
      <4>2. d \in ValidPin /\ d \notin open \ Zones
        BY <1>2, <2>1
      <4> QED BY <2>1, <3>2, <4>1, <4>2 DEF SwitchOn
    <3>3. CASE ~on
      <4>1. SwitchOff(d, {})
        BY <1>2, <3>1, <3>3 DEF ZcZone
      <4>2. d \in open
        BY <1>2, <2>3, <3>3 DEF Duplicate
      <4>3. CASE cur.type = "ALL"
        <5>1. cur.zone = d /\ ZoneDone
          BY <1>2, <4>1, <4>2, <4>3 DEF SwitchOff, RunInv, RunOwnsZones, Watering
        <5>2. CASE CycleGoesOn
          <6>1. StartNextZone(d, open \ {d})
            BY <5>1, <5>2 DEF ZoneDone
          <6>2. d \notin open'
            BY <1>2, <6>1 DEF StartNextZone, Runnable, MasterPin, Zones
          <6> QED BY <2>1, <3>3, <6>2
        <5>3. CASE ~CycleGoesOn
          BY <2>1, <3>3, <5>1, <5>3 DEF ZoneDone
        <5> QED BY <5>2, <5>3
      <4>4. CASE cur.type # "ALL"
        BY <2>1, <3>3, <4>1, <4>4 DEF SwitchOff
      <4> QED BY <4>3, <4>4
    <3> QED BY <3>2, <3>3
  <2> QED BY <2>2, <2>3
<1>3. CASE d = AllZones /\ ZcZone("ALL", 0, on, 0, {})
  <2>1. Value(d)' = (cur'.type = "ALL") /\ 0 \notin Zones
    BY <1>3, ValueIs DEF Zones
  <2>2. CASE on = (cur.type = "ALL")
    <3>1. Ignored("ALL", 0, on, 0)
      BY <2>1, <2>2 DEF Ignored, Duplicate
    <3> QED BY <1>3, <2>1, <2>2, <3>1 DEF ZcZone
  <2>3. CASE on # (cur.type = "ALL")
    <3>1. ~Ignored("ALL", 0, on, 0)
      BY <2>1, <2>3 DEF Ignored, Duplicate, NotScheduled
    <3>2. CycleAll(on, {})
      BY <1>3, <3>1 DEF ZcZone
    <3>3. CASE on
      <4>1. StartNextZone(0, open \ (Zones \cup {0}))
        BY <3>2, <3>3 DEF CycleAll
      <4>2. 1 \in Runnable(0, open \ (Zones \cup {0}))
        BY <1>1 DEF Runnable, Zones
      <4>3. cur'.type = "ALL"
        BY <4>1, <4>2, CycleStarts
      <4>4. (cur'.type = "ALL") = on
        BY <3>3, <4>3
      <4> QED BY <2>1, <4>4
    <3>4. CASE ~on
      BY <2>1, <3>2, <3>4 DEF CycleAll, ZcTypeOK, Runs
    <3> QED BY <3>3, <3>4
  <2> QED BY <2>2, <2>3
<1>4. CASE d = Calendar /\ EnableCalendar(on, {})
  BY <1>4, ValueIs DEF EnableCalendar
<1>5. CASE d = Delay24h /\ EnableDelay24h(on, {})
  BY <1>5, ValueIs DEF EnableDelay24h, DelayOn, DelayOff, delayVars, ZcTypeOK
<1> QED BY <1>2, <1>3, <1>4, <1>5 DEF Switch

-----------------------------------------------------------------------------
(***************************************************************************)
(* The queues.                                                              *)
(***************************************************************************)
LEMMA TailIs ==
    ASSUME NEW M, NEW q \in Seq(M), q # <<>>
    PROVE  /\ Tail(q) \in Seq(M) /\ Len(Tail(q)) = Len(q) - 1 /\ Tail(q) # q
           /\ Head(q) = q[1] /\ Head(q) \in M /\ 1 \in DOMAIN q
           /\ \A j \in DOMAIN q : j \in Nat /\ j >= 1
           /\ \A j \in DOMAIN Tail(q) : j \in Nat /\ j + 1 \in DOMAIN q /\ Tail(q)[j] = q[j + 1]
           /\ \A j \in DOMAIN q : j # 1 => j - 1 \in DOMAIN Tail(q) /\ Tail(q)[j - 1] = q[j]
<1> DEFINE n == Len(q)
           t == Tail(q)
<1>1. n \in Nat /\ n >= 1 /\ DOMAIN q = 1..n /\ Head(q) = q[1] /\ q[1] \in M
  OBVIOUS
<1>2. t \in Seq(M) /\ Len(t) = n - 1
  OBVIOUS
<1>3. DOMAIN t = 1..(n - 1)
  BY <1>2
<1>4. \A j \in 1..(n - 1) : t[j] = q[j + 1]
  OBVIOUS
<1> HIDE DEF t
<1>5. t # q
  BY <1>1, <1>2
<1> HIDE DEF n
<1>6. \A j \in DOMAIN q : j \in Nat /\ j >= 1
  BY <1>1
<1>7. \A j \in DOMAIN t : j \in Nat /\ j + 1 \in DOMAIN q /\ t[j] = q[j + 1]
  BY <1>1, <1>3, <1>4
<1>8. \A j \in DOMAIN q : j # 1 => j - 1 \in DOMAIN t /\ t[j - 1] = q[j]
  <2> SUFFICES ASSUME NEW j \in DOMAIN q, j # 1 PROVE j - 1 \in DOMAIN t /\ t[j - 1] = q[j]
    OBVIOUS
  <2>1. j - 1 \in 1..(n - 1) /\ (j - 1) + 1 = j
    BY <1>1
  <2> QED BY <1>3, <1>4, <2>1
<1>9. Len(t) = Len(q) - 1 /\ 1 \in DOMAIN q
  BY <1>1, <1>2 DEF n
<1> QED BY <1>1, <1>2, <1>5, <1>6, <1>7, <1>8, <1>9 DEF t

LEMMA AppendIs ==
    ASSUME NEW M, NEW q \in Seq(M), NEW m \in M
    PROVE  /\ Append(q, m) \in Seq(M) /\ (q # <<>> => Append(q, m) # Tail(q))
           /\ Len(q) + 1 \in DOMAIN Append(q, m) /\ Append(q, m)[Len(q) + 1] = m
           /\ \A j \in DOMAIN q : /\ j \in DOMAIN Append(q, m) /\ Append(q, m)[j] = q[j]
                                  /\ j \in Nat /\ Len(q) \in Nat /\ Len(q) + 1 > j
           /\ \A j \in DOMAIN Append(q, m) : j = Len(q) + 1 \/ j \in DOMAIN q
<1> DEFINE n == Len(q)
           r == Append(q, m)
<1>1. n \in Nat /\ DOMAIN q = 1..n
  OBVIOUS
<1>2. r \in Seq(M) /\ Len(r) = n + 1 /\ r[n + 1] = m /\ \A j \in 1..n : r[j] = q[j]
  OBVIOUS
<1>3. DOMAIN r = 1..(n + 1)
  BY <1>2
<1>4. q # <<>> => r # Tail(q)
  <2>1. q # <<>> => Len(Tail(q)) = n - 1
    BY TailIs
  <2> HIDE DEF n, r
  <2> QED BY <1>1, <1>2, <2>1
<1> HIDE DEF n, r
<1>5. n + 1 \in DOMAIN r
  BY <1>1, <1>3
<1>6. \A j \in DOMAIN q : j \in DOMAIN r /\ r[j] = q[j] /\ j \in Nat /\ n + 1 > j
  BY <1>1, <1>2, <1>3
<1>7. \A j \in DOMAIN r : j = n + 1 \/ j \in DOMAIN q
  BY <1>1, <1>3
<1> USE DEF n
<1> QED BY <1>1, <1>2, <1>4, <1>5, <1>6, <1>7, Zenon DEF r

\* What the last message about d says is not changed by the messages before it.
LEMMA LastOfTail ==
    ASSUME NEW M, NEW q \in Seq(M), q # <<>>, NEW d
    PROVE  /\ Mentions(Tail(q), d) => Mentions(q, d)
           /\ Mentions(q, d) => Head(q).dev = d \/ Mentions(Tail(q), d)
           /\ \A v : LastSays(q, d, v) =>
                 \/ Mentions(Tail(q), d) /\ LastSays(Tail(q), d, v)
                 \/ ~Mentions(Tail(q), d) /\ Head(q).dev = d /\ Head(q).on = v
<1>0. /\ \A j \in DOMAIN Tail(q) : j + 1 \in DOMAIN q /\ Tail(q)[j] = q[j + 1]
      /\ \A j \in DOMAIN q : j # 1 => j - 1 \in DOMAIN Tail(q) /\ Tail(q)[j - 1] = q[j]
      /\ Head(q) = q[1]
  BY TailIs
<1>1. (Mentions(Tail(q), d) => Mentions(q, d)) /\ (Mentions(q, d) => Head(q).dev = d \/ Mentions(Tail(q), d))
  <2>1. ASSUME NEW j \in DOMAIN Tail(q), Tail(q)[j].dev = d PROVE Mentions(q, d)
    BY <1>0, <2>1, Zenon DEF Mentions
  <2>2. ASSUME NEW j \in DOMAIN q, q[j].dev = d PROVE Head(q).dev = d \/ Mentions(Tail(q), d)
    BY <1>0, <2>2, Zenon DEF Mentions
  <2> QED BY <2>1, <2>2 DEF Mentions
<1>2. ASSUME NEW v, LastSays(q, d, v)
      PROVE  \/ Mentions(Tail(q), d) /\ LastSays(Tail(q), d, v)
             \/ ~Mentions(Tail(q), d) /\ Head(q).dev = d /\ Head(q).on = v
  <2>1. PICK i \in DOMAIN q : /\ q[i].dev = d /\ q[i].on = v
                              /\ \A j \in DOMAIN q : j > i => q[j].dev # d
    BY <1>2 DEF LastSays
  <2>2. CASE i = 1
    <3>1. \A j \in DOMAIN Tail(q) : Tail(q)[j].dev # d
      <4> SUFFICES ASSUME NEW j \in DOMAIN Tail(q) PROVE Tail(q)[j].dev # d
        OBVIOUS
      <4>1. j \in Nat /\ j + 1 \in DOMAIN q /\ Tail(q)[j] = q[j + 1] /\ j >= 1
        BY TailIs
      <4>2. j + 1 > i
        BY <2>2, <4>1
      <4> QED BY <2>1, <4>1, <4>2
    <3> QED BY <2>1, <2>2, <3>1, TailIs DEF Mentions
  <2>3. CASE i # 1
    <3>1. i - 1 \in DOMAIN Tail(q) /\ Tail(q)[i - 1] = q[i] /\ i \in Nat
      BY <2>3, TailIs
    <3>2. \A j \in DOMAIN Tail(q) : j > i - 1 => Tail(q)[j].dev # d
      <4> SUFFICES ASSUME NEW j \in DOMAIN Tail(q), j > i - 1 PROVE Tail(q)[j].dev # d
        OBVIOUS
      <4>1. j \in Nat /\ j + 1 \in DOMAIN q /\ Tail(q)[j] = q[j + 1]
        BY TailIs
      <4>2. j + 1 > i
        BY <3>1, <4>1
      <4> QED BY <2>1, <4>1, <4>2
    <3> QED BY <2>1, <3>1, <3>2 DEF Mentions, LastSays
  <2> QED BY <2>2, <2>3
<1> QED BY <1>1, <1>2

\* A message that arrives at the hub does not change what it will show.
LEMMA HubReceiveShows ==
    ASSUME TypeOK, HubReceive, NEW d \in Devices, NEW v, WillShow(d, v)
    PROVE  WillShow(d, v)'
<1>1. toHub \in Seq(Messages) /\ toHub # <<>> /\ toHub' = Tail(toHub)
  BY DEF TypeOK, HubReceive
<1>2. hub' = [hub EXCEPT ![Head(toHub).dev] = Head(toHub).on] /\ hub \in [Devices -> BOOLEAN]
  BY DEF TypeOK, HubReceive
<1>3. hub'[d] = IF d = Head(toHub).dev THEN Head(toHub).on ELSE hub[d]
  BY <1>2
<1>4. CASE Mentions(toHub, d)
  <2>1. LastSays(toHub, d, v)
    BY <1>4 DEF WillShow
  <2>2. \/ Mentions(toHub', d) /\ LastSays(toHub', d, v)
        \/ ~Mentions(toHub', d) /\ Head(toHub).dev = d /\ Head(toHub).on = v
    BY <1>1, <2>1, LastOfTail
  <2> QED BY <1>3, <2>2 DEF WillShow, Mentions, LastSays
<1>5. CASE ~Mentions(toHub, d)
  <2>1. ~Mentions(toHub', d) /\ Head(toHub).dev # d
    BY <1>1, <1>5, LastOfTail, TailIs DEF Mentions
  <2>2. hub'[d] = v
    BY <1>3, <1>5, <2>1 DEF WillShow
  <2> QED BY <2>1, <2>2 DEF WillShow, Mentions
<1> QED BY <1>4, <1>5

\* What stays on its way.
LEMMA AppendedComes ==
    ASSUME NEW m \in Answers, toDaemon \in Seq(Answers), toDaemon' = Append(toDaemon, m)
    PROVE  /\ toDaemon' \in Seq(Answers)
           /\ \A d, v : UserComes(d, v) => UserComes(d, v)'
           /\ m.by = "user" => UserComes(m.dev, m.on)'
           /\ UsersSwitchZones /\ (m.by = "user" => m.dev # 0) => UsersSwitchZones'
<1>1. toDaemon' \in Seq(Answers)
  BY AppendIs
<1>2. /\ Len(toDaemon) + 1 \in DOMAIN toDaemon' /\ toDaemon'[Len(toDaemon) + 1] = m
      /\ \A j \in DOMAIN toDaemon : j \in DOMAIN toDaemon' /\ toDaemon'[j] = toDaemon[j]
      /\ \A j \in DOMAIN toDaemon' : j = Len(toDaemon) + 1 \/ j \in DOMAIN toDaemon
  BY AppendIs
<1>3. \A d, v : UserComes(d, v) => UserComes(d, v)'
  BY <1>2 DEF UserComes
<1>4. m.by = "user" => UserComes(m.dev, m.on)'
  BY <1>2 DEF UserComes
<1>5. UsersSwitchZones /\ (m.by = "user" => m.dev # 0) => UsersSwitchZones'
  BY <1>2 DEF UsersSwitchZones
<1> QED BY <1>1, <1>3, <1>4, <1>5

LEMMA TakenComes ==
    ASSUME toDaemon \in Seq(Answers), toDaemon # <<>>, toDaemon' = Tail(toDaemon)
    PROVE  /\ toDaemon' \in Seq(Answers)
           /\ \A d, v : UserComes(d, v) =>
                 UserComes(d, v)' \/ Head(toDaemon) = [dev |-> d, on |-> v, by |-> "user"]
           /\ UsersSwitchZones => UsersSwitchZones'
<1>1. /\ Head(toDaemon) = toDaemon[1] /\ Head(toDaemon) \in Answers
      /\ \A j \in DOMAIN toDaemon' : j + 1 \in DOMAIN toDaemon /\ toDaemon'[j] = toDaemon[j + 1]
      /\ \A j \in DOMAIN toDaemon : j # 1 => j - 1 \in DOMAIN toDaemon' /\ toDaemon'[j - 1] = toDaemon[j]
  BY TailIs
<1>2. \A d, v : UserComes(d, v) =>
          UserComes(d, v)' \/ Head(toDaemon) = [dev |-> d, on |-> v, by |-> "user"]
  <2> SUFFICES ASSUME NEW d, NEW v, UserComes(d, v)
               PROVE  UserComes(d, v)' \/ Head(toDaemon) = [dev |-> d, on |-> v, by |-> "user"]
    OBVIOUS
  <2>1. PICK i \in DOMAIN toDaemon :
            toDaemon[i].by = "user" /\ toDaemon[i].dev = d /\ toDaemon[i].on = v
    BY DEF UserComes
  <2>2. CASE i = 1
    BY <1>1, <2>1, <2>2 DEF Answers
  <2>3. CASE i # 1
    <3>1. i - 1 \in DOMAIN toDaemon' /\ toDaemon'[i - 1] = toDaemon[i]
      BY <1>1, <2>3
    <3> QED BY <2>1, <3>1 DEF UserComes
  <2> QED BY <2>2, <2>3
<1>3. UsersSwitchZones => UsersSwitchZones'
  BY <1>1 DEF UsersSwitchZones
<1> QED BY <1>2, <1>3, TailIs

-----------------------------------------------------------------------------
(***************************************************************************)
(* What holds in every configuration.                                       *)
(***************************************************************************)
\* The types that the hub and the queues have a part in.
DzTypeOK ==
    /\ DOMAIN dzCache \subseteq Devices /\ Cardinality(DOMAIN dzCache) <= N + NON_ZONE_DZIDS
    /\ \A d \in DOMAIN dzCache : dzCache[d] \in BOOLEAN
    /\ hub \in [Devices -> BOOLEAN]
    /\ toHub \in Seq(Messages) /\ toDaemon \in Seq(Answers)
    /\ up \in BOOLEAN /\ heard \in {"yes", "ignored", "no"}
    /\ missed \in BOOLEAN /\ crowded \in BOOLEAN

LEMMA TypesAre == TypeOK <=> ZcTypeOK /\ RainTypeOK /\ DzTypeOK
BY DEF TypeOK, DzTypeOK

\* Publishing puts what it stores on its way.
LEMMA PublishKeeps ==
    ASSUME DzTypeOK, NewestIsCached, NEW values \in [Devices -> BOOLEAN], UpdateDzCache(values),
           UNCHANGED <<hub, toDaemon>>, up' \in BOOLEAN, heard' \in {"yes", "ignored", "no"},
           missed' \in BOOLEAN, crowded' \in BOOLEAN
    PROVE  DzTypeOK' /\ NewestIsCached'
<1>1. /\ DOMAIN dzCache' = DOMAIN dzCache \cup GetsSlot /\ DOMAIN dzCache' \subseteq Devices
      /\ \A d \in DOMAIN dzCache' : dzCache'[d] = values[d]
      /\ toHub' \in Seq(Messages)
      /\ \A d \in Changed(values) : Mentions(toHub', d) /\ LastSays(toHub', d, values[d])
      /\ \A d \in Devices \ Changed(values) :
            /\ d \in DOMAIN dzCache /\ dzCache[d] = values[d]
            /\ Mentions(toHub', d) => Mentions(toHub, d)
            /\ \A v : LastSays(toHub, d, v) => LastSays(toHub', d, v)
  BY Publishes DEF DzTypeOK
<1>2. Cardinality(DOMAIN dzCache') <= N + NON_ZONE_DZIDS
  BY <1>1, SlotsSuffice DEF DzTypeOK
<1>3. DzTypeOK'
  BY <1>1, <1>2 DEF DzTypeOK
<1>4. ASSUME NEW d \in DOMAIN dzCache'
      PROVE  /\ Mentions(toHub', d) => LastSays(toHub', d, dzCache'[d])
             /\ ~Mentions(toHub', d) => d \in DOMAIN dzCache /\ dzCache'[d] = dzCache[d]
                                        /\ ~Mentions(toHub, d)
  <2>1. CASE d \in Changed(values)
    BY <1>1, <1>4, <2>1
  <2>2. CASE d \notin Changed(values)
    <3>1. /\ d \in DOMAIN dzCache /\ dzCache'[d] = dzCache[d]
          /\ Mentions(toHub', d) => Mentions(toHub, d)
          /\ LastSays(toHub, d, dzCache[d]) => LastSays(toHub', d, dzCache[d])
      BY <1>1, <1>4, <2>2
    <3>2. Mentions(toHub, d) => LastSays(toHub, d, dzCache[d])
      BY <3>1 DEF NewestIsCached
    <3>3. LastSays(toHub', d, dzCache[d]) => Mentions(toHub', d)
      BY DEF LastSays, Mentions
    <3> QED BY <3>1, <3>2, <3>3
  <2> QED BY <2>1, <2>2
<1>5. NewestIsCached'
  BY <1>4 DEF NewestIsCached, Mentions, LastSays
<1> QED BY <1>3, <1>5

\* The hub takes a message and echoes it.
LEMMA HubReceiveKeeps ==
    ASSUME DzTypeOK, NewestIsCached, UsersSwitchZones, HubReceive, heard # "no"
    PROVE  DzTypeOK' /\ NewestIsCached' /\ UsersSwitchZones'
<1> DEFINE m == Head(toHub)
           echo == [dev |-> m.dev, on |-> m.on, by |-> "echo"]
<1>1. /\ toHub \in Seq(Messages) /\ toHub # <<>> /\ toHub' = Tail(toHub)
      /\ toDaemon \in Seq(Answers) /\ toDaemon' = Append(toDaemon, echo)
      /\ hub' = [hub EXCEPT ![m.dev] = m.on] /\ hub \in [Devices -> BOOLEAN]
      /\ UNCHANGED <<dzCache, up, heard, missed, crowded>>
  BY DEF DzTypeOK, HubReceive, HubVars
<1>2. m \in Messages /\ toHub' \in Seq(Messages)
  BY <1>1, TailIs
<1>3. m.dev \in Devices /\ m.on \in BOOLEAN
  BY <1>2 DEF Messages
<1>4. echo \in Answers /\ echo.dev = m.dev /\ echo.on = m.on /\ echo.by = "echo"
  BY <1>3 DEF Answers
<1> HIDE DEF m, echo
<1>5. /\ toDaemon' \in Seq(Answers) /\ toDaemon'[Len(toDaemon) + 1] = echo
      /\ Len(toDaemon) + 1 \in DOMAIN toDaemon'
      /\ \A j \in DOMAIN toDaemon : /\ j \in DOMAIN toDaemon' /\ toDaemon'[j] = toDaemon[j]
                                    /\ Len(toDaemon) + 1 > j
      /\ \A j \in DOMAIN toDaemon' : j = Len(toDaemon) + 1 \/ j \in DOMAIN toDaemon
  BY <1>1, <1>4, AppendIs
<1>6. UsersSwitchZones'
  BY <1>4, <1>5 DEF UsersSwitchZones
<1>7. DzTypeOK'
  BY <1>1, <1>2, <1>3, <1>5 DEF DzTypeOK
<1>8. ASSUME NEW d \in DOMAIN dzCache
      PROVE  /\ Mentions(toHub', d) => LastSays(toHub', d, dzCache[d])
             /\ ~Mentions(toHub', d) => IF m.dev = d THEN m.on = dzCache[d] ELSE ~Mentions(toHub, d)
  <2>1. /\ Mentions(toHub', d) => Mentions(toHub, d)
        /\ Mentions(toHub, d) => m.dev = d \/ Mentions(toHub', d)
        /\ LastSays(toHub, d, dzCache[d]) =>
              \/ Mentions(toHub', d) /\ LastSays(toHub', d, dzCache[d])
              \/ ~Mentions(toHub', d) /\ m.dev = d /\ m.on = dzCache[d]
    BY <1>1, LastOfTail DEF m
  <2>2. m.dev = d => Mentions(toHub, d)
    BY <1>1, TailIs DEF m, Mentions
  <2>3. Mentions(toHub, d) => LastSays(toHub, d, dzCache[d])
    BY DEF NewestIsCached
  <2> QED BY <2>1, <2>2, <2>3
<1>9. ASSUME NEW d \in DOMAIN dzCache, NEW i \in DOMAIN toDaemon', ~Mentions(toHub', d),
             toDaemon'[i].dev = d, toDaemon'[i].by = "echo",
             \A j \in DOMAIN toDaemon' :
                 j > i => ~(toDaemon'[j].dev = d /\ toDaemon'[j].by = "echo")
      PROVE  toDaemon'[i].on = dzCache[d]
  <2>1. CASE i = Len(toDaemon) + 1
    BY <1>4, <1>5, <1>8, <1>9, <2>1
  <2>2. CASE i # Len(toDaemon) + 1
    <3>1. i \in DOMAIN toDaemon /\ toDaemon'[i] = toDaemon[i]
      BY <1>5, <2>2
    <3>2. m.dev # d
      BY <1>4, <1>5, <1>9, <3>1
    <3>3. ~Mentions(toHub, d)
      BY <1>8, <1>9, <3>2
    <3>4. \A j \in DOMAIN toDaemon : j > i => ~(toDaemon[j].dev = d /\ toDaemon[j].by = "echo")
      BY <1>5, <1>9
    <3> QED BY <1>9, <3>1, <3>3, <3>4 DEF NewestIsCached
  <2> QED BY <2>1, <2>2
<1>10. NewestIsCached'
  <2>1. dzCache' = dzCache
    BY <1>1
  <2>2. \A d : Mentions(toHub, d)' <=> Mentions(toHub', d)
    BY DEF Mentions
  <2>3. \A d, v : LastSays(toHub, d, v)' <=> LastSays(toHub', d, v)
    BY DEF LastSays
  <2> QED BY <1>8, <1>9, <2>1, <2>2, <2>3 DEF NewestIsCached
<1> QED BY <1>6, <1>7, <1>10

\* What is echoed before the daemon can hear it is lost.
LEMMA HubReceiveUnheard ==
    ASSUME DzTypeOK, NewestIsCached, UsersSwitchZones, HubReceive, HeardWhenUp, heard = "no"
    PROVE  DzTypeOK' /\ NewestIsCached' /\ UsersSwitchZones'
<1> DEFINE m == Head(toHub)
<1>1. /\ toHub \in Seq(Messages) /\ toHub # <<>> /\ toHub' = Tail(toHub)
      /\ toDaemon = <<>> /\ toDaemon' = <<>>
      /\ hub' = [hub EXCEPT ![m.dev] = m.on] /\ hub \in [Devices -> BOOLEAN]
      /\ UNCHANGED <<dzCache, up, heard, missed, crowded>>
  BY DEF DzTypeOK, HubReceive, HubVars, HeardWhenUp
<1>2. m \in Messages /\ toHub' \in Seq(Messages)
  BY <1>1, TailIs
<1>3. m.dev \in Devices /\ m.on \in BOOLEAN
  BY <1>2 DEF Messages
<1> HIDE DEF m
<1>4. DzTypeOK' /\ UsersSwitchZones'
  BY <1>1, <1>2, <1>3 DEF DzTypeOK, UsersSwitchZones
<1>5. ASSUME NEW d \in DOMAIN dzCache, Mentions(toHub', d)
      PROVE  LastSays(toHub', d, dzCache[d])
  <2>1. /\ Mentions(toHub, d)
        /\ LastSays(toHub, d, dzCache[d]) => LastSays(toHub', d, dzCache[d])
    BY <1>1, <1>5, LastOfTail
  <2> QED BY <2>1 DEF NewestIsCached
<1>6. NewestIsCached'
  <2>1. dzCache' = dzCache /\ DOMAIN toDaemon' = {}
    BY <1>1
  <2>2. \A d : Mentions(toHub, d)' <=> Mentions(toHub', d)
    BY DEF Mentions
  <2>3. \A d, v : LastSays(toHub, d, v)' <=> LastSays(toHub', d, v)
    BY DEF LastSays
  <2> QED BY <1>5, <2>1, <2>2, <2>3 DEF NewestIsCached
<1> QED BY <1>4, <1>6

\* The daemon takes a message.
LEMMA TakenKeeps ==
    ASSUME DzTypeOK, NewestIsCached, toDaemon # <<>>, toDaemon' = Tail(toDaemon),
           UNCHANGED <<dzCache, toHub>>
    PROVE  NewestIsCached'
<1>1. /\ \A j \in DOMAIN toDaemon' :
            j \in Nat /\ j + 1 \in DOMAIN toDaemon /\ toDaemon'[j] = toDaemon[j + 1]
      /\ \A j \in DOMAIN toDaemon :
            j \in Nat /\ (j # 1 => j - 1 \in DOMAIN toDaemon' /\ toDaemon'[j - 1] = toDaemon[j])
      /\ \A j \in DOMAIN toDaemon' : j >= 1
  BY TailIs DEF DzTypeOK
<1>2. ASSUME NEW d \in DOMAIN dzCache, NEW i \in DOMAIN toDaemon', ~Mentions(toHub, d),
             toDaemon'[i].dev = d, toDaemon'[i].by = "echo",
             \A j \in DOMAIN toDaemon' :
                 j > i => ~(toDaemon'[j].dev = d /\ toDaemon'[j].by = "echo")
      PROVE  toDaemon'[i].on = dzCache[d]
  <2>1. \A j \in DOMAIN toDaemon : j > i + 1 => ~(toDaemon[j].dev = d /\ toDaemon[j].by = "echo")
    <3> SUFFICES ASSUME NEW j \in DOMAIN toDaemon, j > i + 1
                 PROVE  ~(toDaemon[j].dev = d /\ toDaemon[j].by = "echo")
      OBVIOUS
    <3>1. i \in Nat /\ j \in Nat /\ j # 1 /\ j - 1 > i
      BY <1>1
    <3>2. j - 1 \in DOMAIN toDaemon' /\ toDaemon'[j - 1] = toDaemon[j]
      BY <1>1, <3>1
    <3> QED BY <1>2, <3>1, <3>2
  <2>2. i + 1 \in DOMAIN toDaemon /\ toDaemon'[i] = toDaemon[i + 1]
    BY <1>1
  <2> QED BY <1>2, <2>1, <2>2 DEF NewestIsCached
<1> QED BY <1>2 DEF NewestIsCached, Mentions, LastSays

\* A user of the hub turns a switch over.
LEMMA UserSwitchKeeps ==
    ASSUME DzTypeOK, NewestIsCached, UsersSwitchZones, UserSwitch
    PROVE  DzTypeOK' /\ NewestIsCached' /\ UsersSwitchZones'
<1>1. PICK d \in Devices \ {0} :
          /\ hub' = [hub EXCEPT ![d] = ~@]
          /\ \/ /\ toDaemon' = Append(toDaemon, [dev |-> d, on |-> ~hub[d], by |-> "user"])
                /\ UNCHANGED missed
             \/ missed' = TRUE /\ UNCHANGED toDaemon
  BY DEF UserSwitch
<1>2. UNCHANGED <<dzCache, toHub, up, heard, crowded>>
  BY DEF UserSwitch, HubVars
<1>3. hub' \in [Devices -> BOOLEAN] /\ missed' \in BOOLEAN
  BY <1>1 DEF DzTypeOK
<1>4. CASE UNCHANGED toDaemon
  BY <1>2, <1>3, <1>4 DEF DzTypeOK, NewestIsCached, UsersSwitchZones, Mentions, LastSays
<1>5. CASE toDaemon' = Append(toDaemon, [dev |-> d, on |-> ~hub[d], by |-> "user"])
  <2> DEFINE m == [dev |-> d, on |-> ~hub[d], by |-> "user"]
  <2>1. m \in Answers /\ m.dev # 0 /\ m.by = "user"
    BY DEF Answers, DzTypeOK
  <2> HIDE DEF m
  <2>2. /\ toDaemon' \in Seq(Answers) /\ toDaemon'[Len(toDaemon) + 1] = m
        /\ \A j \in DOMAIN toDaemon : j \in DOMAIN toDaemon' /\ toDaemon'[j] = toDaemon[j]
        /\ \A j \in DOMAIN toDaemon' : j = Len(toDaemon) + 1 \/ j \in DOMAIN toDaemon
    BY <1>5, <2>1, AppendIs DEF DzTypeOK, m
  <2>3. DzTypeOK' /\ UsersSwitchZones'
    BY <1>2, <1>3, <2>1, <2>2 DEF DzTypeOK, UsersSwitchZones
  <2>4. NewestIsCached'
    <3>1. dzCache' = dzCache /\ toHub' = toHub
      BY <1>2
    <3>2. ASSUME NEW e \in DOMAIN dzCache, NEW i \in DOMAIN toDaemon', ~Mentions(toHub, e),
                 toDaemon'[i].dev = e, toDaemon'[i].by = "echo",
                 \A j \in DOMAIN toDaemon' :
                     j > i => ~(toDaemon'[j].dev = e /\ toDaemon'[j].by = "echo")
          PROVE  toDaemon'[i].on = dzCache[e]
      <4>1. i \in DOMAIN toDaemon /\ toDaemon'[i] = toDaemon[i]
        BY <2>1, <2>2, <3>2
      <4>2. \A j \in DOMAIN toDaemon : j > i => ~(toDaemon[j].dev = e /\ toDaemon[j].by = "echo")
        BY <2>2, <3>2
      <4> QED BY <3>2, <4>1, <4>2 DEF NewestIsCached
    <3> QED BY <3>1, <3>2 DEF NewestIsCached, Mentions, LastSays
  <2> QED BY <2>3, <2>4
<1> QED BY <1>1, <1>4, <1>5

-----------------------------------------------------------------------------
\* What leaves the run alone keeps what is said of it.
LEMMA RunUntouched ==
    ASSUME ZcTypeOK, RainTypeOK, RunInv, events' \subseteq Bits, elapsed' \in Nat,
           UNCHANGED <<open, cur, runtime, calendar, delayVars, limits, rainTotal>>
    PROVE  ZcTypeOK' /\ RainTypeOK' /\ RunInv'
<1>1. ZcTypeOK' /\ RainTypeOK'
  BY DEF ZcTypeOK, RainTypeOK, delayVars
<1>2. RunInv'
  BY DEF RunInv, OneZoneOpen, RunOwnsZones, RunHasZone, MasterIsDriven, MasterIsTimed, Watering
<1> QED BY <1>1, <1>2

LEMMA LoopPassKeepsRun ==
    ASSUME ZcTypeOK, RainTypeOK, RunInv, LoopPass
    PROVE  ZcTypeOK' /\ RainTypeOK' /\ RunInv'
<1>1. /\ UNCHANGED <<runtime, calendar, delayVars, limits, rainTotal>> /\ events' = {}
      /\ (Expired /\ ZoneDone) \/ UNCHANGED <<open, cur, elapsed>>
  BY DEF LoopPass
<1>2. CASE Expired /\ ZoneDone
  <2>1. open' \subseteq ValidPin /\ cur' \in Runs /\ elapsed' \in Nat /\ RunInv'
    BY <1>2, ZoneDoneKeeps DEF Expired
  <2>2. ZcTypeOK' /\ RainTypeOK'
    BY <1>1, <2>1 DEF ZcTypeOK, RainTypeOK, delayVars
  <2> QED BY <2>1, <2>2
<1>3. CASE UNCHANGED <<open, cur, elapsed>>
  <2>1. events' \subseteq Bits /\ elapsed' \in Nat
    BY <1>1, <1>3 DEF ZcTypeOK
  <2> QED BY <1>1, <1>3, <2>1, RunUntouched
<1> QED BY <1>1, <1>2, <1>3

\* A handler of the daemon: a switch, or nothing.
Handled ==
    (\E d \in 1..(N + 3), on \in BOOLEAN : Switch(d, on)) \/ Nothing

LEMMA HandledKeepsRun ==
    ASSUME ZcTypeOK, RainTypeOK, RunInv, Handled, UNCHANGED <<runtime, limits, rainTotal>>
    PROVE  ZcTypeOK' /\ RainTypeOK' /\ RunInv'
<1>1. ASSUME NEW d, NEW on \in BOOLEAN, Switch(d, on) PROVE ZcTypeOK' /\ RainTypeOK' /\ RunInv'
  <2>1. ZcTypeOK' /\ DelayTypeOK' /\ RunInv'
    BY <1>1, SwitchKeeps
  <2> QED BY <2>1 DEF DelayTypeOK, RainTypeOK
<1>2. CASE Nothing
  <2>1. /\ UNCHANGED <<open, cur, runtime, calendar, delayVars, limits, rainTotal>>
        /\ events' \subseteq Bits /\ elapsed' \in Nat
    BY <1>2 DEF Nothing, zcVars, ZcTypeOK
  <2> QED BY <2>1, RunUntouched
<1> QED BY <1>1, <1>2 DEF Handled

\* What Receive does: a message is ignored or handled, and then an echo is dropped and
\* anything else is a switch.
LEMMA ReceiveIs ==
    ASSUME DzTypeOK, Receive
    PROVE  /\ toDaemon # <<>> /\ Head(toDaemon) \in Answers
           /\ \/ heard = "ignored" /\ Nothing /\ (Head(toDaemon).by = "user" => missed')
              \/ /\ heard = "yes"
                 /\ CheckDzCache(Head(toDaemon).dev, Head(toDaemon).on) \/ Head(toDaemon).dev = 0
                 /\ Nothing
              \/ /\ heard = "yes" /\ ~CheckDzCache(Head(toDaemon).dev, Head(toDaemon).on)
                 /\ Switch(Head(toDaemon).dev, Head(toDaemon).on)
           /\ Head(toDaemon).on \in BOOLEAN /\ Head(toDaemon).dev \in Devices
           /\ Handled /\ heard' = heard /\ heard # "no"
           /\ missed' \in BOOLEAN /\ (~missed' => ~missed)
<1> DEFINE m == Head(toDaemon)
<1>1. toDaemon # <<>> /\ m \in Answers
  BY TailIs DEF Receive, DzTypeOK
<1>2. /\ \/ heard = "ignored" /\ Nothing /\ (m.by = "user" => missed')
         \/ heard = "yes" /\ (CheckDzCache(m.dev, m.on) \/ m.dev = 0) /\ Nothing
         \/ heard = "yes" /\ ~CheckDzCache(m.dev, m.on) /\ Switch(m.dev, m.on)
      /\ heard' = heard /\ missed' \in BOOLEAN /\ (~missed' => ~missed)
  <2>1. /\ \/ heard = "ignored" /\ Nothing /\ missed' = (missed \/ m.by = "user")
           \/ heard = "yes" /\ Handle(m) /\ missed' = missed
        /\ heard' = heard
    BY DEF Receive
  <2>2. missed \in BOOLEAN
    BY DEF DzTypeOK
  <2> HIDE DEF m
  <2>3. CASE heard = "ignored" /\ Nothing /\ missed' = (missed \/ m.by = "user")
    <3>1. missed' \in BOOLEAN /\ (~missed' => ~missed) /\ (m.by = "user" => missed')
      BY <2>2, <2>3
    <3> QED BY <2>1, <2>3, <3>1
  <2>4. CASE heard = "yes" /\ Handle(m) /\ missed' = missed
    <3>1. \/ (CheckDzCache(m.dev, m.on) \/ m.dev = 0) /\ Nothing
          \/ ~CheckDzCache(m.dev, m.on) /\ Switch(m.dev, m.on)
      BY <2>4 DEF Handle
    <3> QED BY <2>1, <2>2, <2>4, <3>1
  <2> QED BY <2>1, <2>3, <2>4
<1> HIDE DEF m
<1>3. m.on \in BOOLEAN /\ m.dev \in Devices
  BY <1>1 DEF Answers
<1>4. ASSUME Switch(m.dev, m.on) PROVE m.dev \in 1..(N + 3)
  BY <1>4, ZonesAssumption DEF Switch, Zones, Calendar, Delay24h, AllZones
<1>5. Handled
  BY <1>2, <1>3, <1>4 DEF Handled
<1> QED BY <1>1, <1>2, <1>3, <1>5 DEF m

LEMMA InitHolds == Init => Inv
<1> SUFFICES ASSUME Init PROVE Inv
  OBVIOUS
<1>1. ZcTypeOK
  <2>1. cur \in Runs
    BY ZonesAssumption DEF Init, Runs, RunTypes
  <2>2. open \subseteq ValidPin /\ elapsed \in Nat /\ events \subseteq Bits
    BY DEF Init
  <2>3. runtime \in [0..N -> Runtimes] /\ calendar \in BOOLEAN /\ delay24h \in BOOLEAN
    BY DEF Init
  <2> QED BY <2>1, <2>2, <2>3 DEF ZcTypeOK
<1>2. NoEnd \in Int /\ NoEnd >= NoEnd
  BY DEF NoEnd
<1>3. RainTypeOK
  <2> DEFINE saved == [z \in Zones |-> runtime[z]]
  <2>1. saved \in [Zones -> Runtimes]
    BY DEF Init, Zones
  <2>2. limits \in [chance : Nat, day1 : Nat, day2 : Nat]
    BY LimitsAssumption DEF Init
  <2> HIDE DEF saved
  <2>3. cache = [calendar |-> TRUE, delay24h |-> FALSE, left |-> NoEnd, asFloat |-> TRUE,
                 limits |-> limits, runtime |-> saved]
    BY DEF Init, saved
  <2>4. cache \in CacheFile /\ cache.left = NoEnd
    BY <1>2, <2>1, <2>2, <2>3 DEF CacheFile
  <2> QED BY <1>2, <2>2, <2>4 DEF Init, RainTypeOK
<1>4. RunInv
  BY DEF Init, RunInv, OneZoneOpen, RunOwnsZones, RunHasZone, MasterIsDriven, MasterIsTimed, Watering
<1>5. DOMAIN dzCache = {} /\ toHub = <<>> /\ toDaemon = <<>>
  BY DEF Init
<1>6. Cardinality(DOMAIN dzCache) <= N + NON_ZONE_DZIDS
  BY <1>5, FS_EmptySet, ZonesAssumption, DomoticzAssumption
<1>7. DzTypeOK
  <2>1. toHub \in Seq(Messages) /\ toDaemon \in Seq(Answers)
    BY <1>5
  <2>2. /\ hub \in [Devices -> BOOLEAN] /\ up \in BOOLEAN /\ heard \in {"yes", "ignored", "no"}
        /\ missed \in BOOLEAN /\ crowded \in BOOLEAN
    BY DEF Init
  <2> QED BY <1>5, <1>6, <2>1, <2>2 DEF DzTypeOK
<1>8. NewestIsCached /\ UsersSwitchZones /\ HeardWhenUp
  BY <1>5 DEF NewestIsCached, UsersSwitchZones, HeardWhenUp, Init
<1> QED BY <1>1, <1>3, <1>4, <1>7, <1>8, TypesAre DEF Inv

\* Every step keeps it.
LEMMA NextKeeps == Inv /\ [Next]_vars => Inv'
<1> SUFFICES ASSUME Inv, [Next]_vars PROVE Inv'
  OBVIOUS
<1>0. ZcTypeOK /\ RainTypeOK /\ DzTypeOK /\ RunInv /\ NewestIsCached /\ UsersSwitchZones
      /\ HeardWhenUp
  BY TypesAre DEF Inv
<1> DEFINE Run == ZcTypeOK' /\ RainTypeOK' /\ RunInv'
           Hub == DzTypeOK' /\ NewestIsCached' /\ UsersSwitchZones' /\ HeardWhenUp'
<1>1. ASSUME Run, Hub PROVE Inv'
  <2>1. TypeOK'
    BY <1>1 DEF TypeOK, DzTypeOK
  <2> QED BY <1>1, <2>1 DEF Inv
<1>2. ASSUME UNCHANGED <<dzCache, toHub, toDaemon>> PROVE NewestIsCached' /\ UsersSwitchZones'
  BY <1>0, <1>2 DEF NewestIsCached, UsersSwitchZones, Mentions, LastSays
<1>3. ASSUME UNCHANGED <<open, cur, events, runtime, calendar, delayVars, limits, rainTotal>>,
             elapsed' \in Nat
      PROVE  Run
  <2>1. events' \subseteq Bits
    BY <1>0, <1>3 DEF ZcTypeOK
  <2> QED BY <1>0, <1>3, <2>1, RunUntouched
<1>4. elapsed \in Nat
  BY <1>0 DEF ZcTypeOK
<1>5. ASSUME Crowd PROVE crowded' \in BOOLEAN
  BY <1>5 DEF Crowd
<1>14. ASSUME UNCHANGED <<up, heard, toDaemon>> PROVE HeardWhenUp'
  BY <1>0, <1>14 DEF HeardWhenUp
<1> HIDE DEF Run, Hub
<1>6. CASE LocalRequest
  <2>1. Handled /\ UNCHANGED <<runtime, limits, rainTotal, dzVars>> /\ Crowd
    BY <1>6 DEF LocalRequest, Handled
  <2>2. Run
    BY <1>0, <2>1, HandledKeepsRun DEF Run
  <2>3. DzTypeOK'
    BY <1>0, <1>5, <2>1 DEF DzTypeOK, dzVars
  <2> QED BY <1>1, <1>2, <1>14, <2>1, <2>2, <2>3 DEF Hub, dzVars
<1>7. CASE Receive
  <2>1. /\ toDaemon # <<>> /\ toDaemon' = Tail(toDaemon) /\ Crowd
        /\ UNCHANGED <<runtime, limits, rainTotal, dzCache, hub, toHub, up, heard>>
    BY <1>7 DEF Receive
  <2>2. Handled /\ missed' \in BOOLEAN /\ heard # "no"
    BY <1>0, <1>7, ReceiveIs
  <2>3. Run
    BY <1>0, <2>1, <2>2, HandledKeepsRun DEF Run
  <2>4. toDaemon' \in Seq(Answers) /\ UsersSwitchZones'
    BY <1>0, <2>1, TakenComes DEF DzTypeOK
  <2>5. NewestIsCached'
    BY <1>0, <2>1, TakenKeeps
  <2>6. DzTypeOK'
    BY <1>0, <1>5, <2>1, <2>2, <2>4 DEF DzTypeOK
  <2>7. HeardWhenUp'
    BY <1>0, <2>1, <2>2 DEF HeardWhenUp
  <2> QED BY <1>1, <2>3, <2>4, <2>5, <2>6, <2>7 DEF Hub
<1>8. CASE LoopPass
  <2>1. Run
    BY <1>0, <1>8, LoopPassKeepsRun DEF Run
  <2>2. UNCHANGED <<hub, toDaemon, up, heard, missed>> /\ Crowd
    BY <1>8 DEF LoopPass
  <2>3. UsersSwitchZones' /\ HeardWhenUp'
    BY <1>0, <1>14, <2>2 DEF UsersSwitchZones
  <2>4. CASE UpdateDzCache(Values')
    <3>1. Values' \in [Devices -> BOOLEAN]
      BY <1>0, <2>1, ValuesAre DEF Run
    <3>2. /\ up' \in BOOLEAN /\ heard' \in {"yes", "ignored", "no"}
          /\ missed' \in BOOLEAN /\ crowded' \in BOOLEAN
      BY <1>0, <1>5, <2>2 DEF DzTypeOK
    <3>3. DzTypeOK' /\ NewestIsCached'
      BY <1>0, <2>2, <2>4, <3>1, <3>2, PublishKeeps
    <3> QED BY <1>1, <2>1, <2>3, <3>3 DEF Hub
  <2>5. CASE UNCHANGED <<dzCache, toHub>>
    <3>1. DzTypeOK'
      BY <1>0, <1>5, <2>2, <2>5 DEF DzTypeOK
    <3> QED BY <1>1, <1>2, <2>1, <2>2, <2>3, <2>5, <3>1 DEF Hub
  <2> QED BY <1>8, <2>4, <2>5 DEF LoopPass
<1>9. CASE MqttUp
  <2>1. /\ up /\ heard' = "ignored" /\ events' = events \ {"status"}
        /\ UpdateDzCache(Values)
        /\ UNCHANGED <<open, cur, elapsed, runtime, calendar, delayVars, limits, rainTotal, hub,
                       toDaemon, up, missed, crowded>>
    BY <1>9 DEF MqttUp
  <2>2. events' \subseteq Bits /\ elapsed' \in Nat
    BY <1>0, <2>1 DEF ZcTypeOK
  <2>3. Run
    BY <1>0, <2>1, <2>2, RunUntouched DEF Run
  <2>4. Values \in [Devices -> BOOLEAN]
    BY <1>0, <2>3, ValuesAre DEF Run
  <2>5. /\ up' \in BOOLEAN /\ heard' \in {"yes", "ignored", "no"}
        /\ missed' \in BOOLEAN /\ crowded' \in BOOLEAN
    BY <1>0, <2>1 DEF DzTypeOK
  <2>6. DzTypeOK' /\ NewestIsCached'
    BY <1>0, <2>1, <2>4, <2>5, PublishKeeps
  <2>7. UsersSwitchZones' /\ HeardWhenUp'
    BY <1>0, <2>1 DEF UsersSwitchZones, HeardWhenUp
  <2> QED BY <1>1, <2>3, <2>6, <2>7 DEF Hub
<1>10. CASE HubReceive \/ UserSwitch
  <2>1. UNCHANGED HubVars
    BY <1>10 DEF HubReceive, UserSwitch
  <2>2. Run
    BY <1>3, <1>4, <2>1 DEF HubVars, zcVars
  <2>3. DzTypeOK' /\ NewestIsCached' /\ UsersSwitchZones'
    BY <1>0, <1>10, HubReceiveKeeps, HubReceiveUnheard, UserSwitchKeeps
  <2>4. HeardWhenUp'
    <3>1. UNCHANGED <<up, heard>> /\ (heard = "no" => toDaemon' = toDaemon)
      BY <1>10 DEF HubReceive, UserSwitch
    <3> QED BY <1>0, <3>1 DEF HeardWhenUp
  <2>5. Hub
    BY <2>3, <2>4 DEF Hub
  <2> QED BY <1>1, <2>2, <2>5
<1>11. CASE MqttDown
  <2>1. /\ UNCHANGED <<HubVars, hub>> /\ up' = FALSE /\ heard' = "no"
        /\ toHub' = <<>> /\ toDaemon' = <<>> /\ missed' \in BOOLEAN
    BY <1>0, <1>11 DEF MqttDown, DzTypeOK
  <2>2. Run
    BY <1>3, <1>4, <2>1 DEF HubVars, zcVars
  <2>3. UNCHANGED <<dzCache, hub, crowded>> /\ DOMAIN toDaemon' = {}
    BY <2>1 DEF HubVars
  <2>4. toHub' \in Seq(Messages) /\ toDaemon' \in Seq(Answers)
    BY <2>1
  <2>5. DzTypeOK' /\ UsersSwitchZones' /\ HeardWhenUp'
    BY <1>0, <2>1, <2>3, <2>4 DEF DzTypeOK, UsersSwitchZones, HeardWhenUp
  <2>6. NewestIsCached'
    BY <2>1, <2>3 DEF NewestIsCached, Mentions
  <2> QED BY <1>1, <2>2, <2>5, <2>6 DEF Hub
<1>12. CASE Tick
  <2>1. /\ UNCHANGED <<open, cur, events, runtime, calendar, delayVars, limits, rainTotal, dzVars, crowded>>
        /\ elapsed' \in Nat
    BY <1>4, <1>12 DEF Tick
  <2>2. Run
    BY <1>3, <2>1
  <2>3. DzTypeOK'
    BY <1>0, <2>1 DEF DzTypeOK, dzVars
  <2> QED BY <1>1, <1>2, <1>14, <2>1, <2>2, <2>3 DEF Hub, dzVars
<1>13. CASE UNCHANGED vars
  <2>1. UNCHANGED <<open, cur, elapsed, events, runtime, calendar, delay24h, delayLeft, asFloat,
                    limits, rainTotal, cache, dzCache, hub, toHub, toDaemon, up, heard, missed, crowded>>
    BY <1>13 DEF vars, dzVars
  <2>2. Run
    BY <1>3, <1>4, <2>1 DEF delayVars
  <2>3. DzTypeOK'
    BY <1>0, <2>1 DEF DzTypeOK
  <2> QED BY <1>1, <1>2, <1>14, <2>1, <2>2, <2>3 DEF Hub
<1>15. CASE MqttConnect \/ ReadAck \/ ReadOn
  <2>1. /\ UNCHANGED <<zcVars, runtime, calendar, delayVars, limits, rainTotal, dzCache, hub,
                       toHub, toDaemon, missed, crowded>>
        /\ up' \in BOOLEAN /\ heard' \in {"yes", "ignored", "no"}
        /\ (heard' # "no" => up') /\ (heard' = "no" => heard = "no")
    BY <1>0, <1>15 DEF MqttConnect, ReadAck, ReadOn, DzTypeOK, HeardWhenUp
  <2>2. Run
    BY <1>3, <1>4, <2>1 DEF zcVars
  <2>3. DzTypeOK'
    BY <1>0, <2>1 DEF DzTypeOK
  <2>4. HeardWhenUp'
    BY <1>0, <2>1 DEF HeardWhenUp
  <2> QED BY <1>1, <1>2, <2>1, <2>2, <2>3, <2>4 DEF Hub
<1> QED BY <1>6, <1>7, <1>8, <1>9, <1>10, <1>11, <1>12, <1>13, <1>15 DEF Next

LEMMA InvHolds == Spec => []Inv
BY InitHolds, NextKeeps, PTL DEF Spec

\* No history of requests, of switches of the hub's users and of lost connections puts
\* more devices into dz_cache than it has slots, or a value of another type anywhere.
THEOREM DomoticzTypesHold == Spec => []TypeOK
<1>1. Inv => TypeOK
  BY DEF Inv
<1> QED BY <1>1, InvHolds, PTL

-----------------------------------------------------------------------------
(***************************************************************************)
(* What becomes of a message.                                               *)
(***************************************************************************)
LEMMA ArrivesIsReceive ==
    ASSUME DzTypeOK, [Next]_vars, Arrives
    PROVE  Receive
<1>1. toDaemon \in Seq(Answers) /\ toDaemon # <<>> /\ toDaemon' = Tail(toDaemon) /\ up'
  BY DEF DzTypeOK, Arrives
<1>2. toDaemon' # toDaemon
  BY <1>1, TailIs
<1>3. CASE LocalRequest \/ LoopPass \/ MqttConnect \/ MqttUp \/ ReadAck \/ ReadOn \/ Tick
           \/ UNCHANGED vars
  BY <1>2, <1>3 DEF LocalRequest, LoopPass, MqttConnect, MqttUp, ReadAck, ReadOn, Tick, vars,
                    dzVars
<1>4. CASE HubReceive
  <2> DEFINE m == [dev |-> Head(toHub).dev, on |-> Head(toHub).on, by |-> "echo"]
  <2>1. Head(toHub) \in Messages
    BY <1>4, TailIs DEF HubReceive, DzTypeOK
  <2>2. m \in Answers
    BY <2>1 DEF Messages, Answers
  <2>3. toDaemon' = Append(toDaemon, m)
    BY <1>2, <1>4 DEF HubReceive
  <2> HIDE DEF m
  <2> QED BY <1>1, <2>2, <2>3, AppendIs
<1>5. CASE UserSwitch
  <2>1. PICK d \in Devices : toDaemon' = Append(toDaemon, [dev |-> d, on |-> ~hub[d], by |-> "user"])
    BY <1>2, <1>5 DEF UserSwitch
  <2> DEFINE m == [dev |-> d, on |-> ~hub[d], by |-> "user"]
  <2>2. m \in Answers
    BY DEF Answers
  <2>3. toDaemon' = Append(toDaemon, m)
    BY <2>1
  <2> HIDE DEF m
  <2> QED BY <1>1, <2>2, <2>3, AppendIs
<1>6. ~MqttDown
  BY <1>1 DEF MqttDown
<1> QED BY <1>3, <1>4, <1>5, <1>6 DEF Next

\* The echo of the last value published is never taken for a request, however many
\* requests and switches cross it on its way, in every configuration: one without a
\* master valve, with bad pins or with too few slots included.
THEOREM LastEchoIsIgnoredHolds == Spec => LastEchoIsIgnored
<1> DEFINE d == Head(toDaemon).dev
           A == /\ Arrives /\ Head(toDaemon).by = "echo" /\ d \in DOMAIN dzCache
                /\ Values' # Values
                => NewerOnItsWay(d)
<1>1. Inv /\ [Next]_vars => A
  <2> SUFFICES ASSUME Inv, [Next]_vars, Arrives, Head(toDaemon).by = "echo", d \in DOMAIN dzCache,
                      Values' # Values, ~NewerOnItsWay(d)
               PROVE  FALSE
    OBVIOUS
  <2>1. DzTypeOK /\ NewestIsCached
    BY TypesAre DEF Inv
  <2>2. Receive
    BY <2>1, ArrivesIsReceive
  <2>3. 1 \in DOMAIN toDaemon /\ Head(toDaemon) = toDaemon[1]
    BY <2>1, TailIs DEF DzTypeOK, Arrives
  <2>4. ~Mentions(toHub, d)
    BY DEF NewerOnItsWay, Mentions
  <2>5. \A j \in DOMAIN toDaemon : j > 1 => ~(toDaemon[j].dev = d /\ toDaemon[j].by = "echo")
    BY DEF NewerOnItsWay
  <2>6. Head(toDaemon).on = dzCache[d]
    <3> HIDE DEF d
    <3>1. toDaemon[1].dev = d /\ toDaemon[1].by = "echo"
      BY <2>3 DEF d
    <3> QED BY <2>1, <2>3, <2>4, <2>5, <3>1 DEF NewestIsCached
  <2>7. Nothing
    BY <2>1, <2>2, <2>6, ReceiveIs DEF CheckDzCache
  <2>8. Values' = Values
    BY <2>7, ValuesStay DEF Nothing, zcVars, delayVars
  <2> QED BY <2>8
<1>2. [][A]_vars => LastEchoIsIgnored
  BY DEF LastEchoIsIgnored
<1> HIDE DEF A
<1> QED BY <1>1, <1>2, InvHolds, PTL DEF Spec

-----------------------------------------------------------------------------
(***************************************************************************)
(* With a master valve on a good pin every change raises an event bit.      *)
(***************************************************************************)
LEMMA HandledTells ==
    ASSUME MasterPin = {0}, RunInv, RunHasMaster, Handled
    PROVE  RunHasMaster' /\ events \subseteq events' /\ (Values' # Values => events' # {})
<1>1. CASE Nothing
  BY <1>1, ValuesStay DEF Nothing, zcVars, delayVars, RunHasMaster
<1>2. CASE \E d \in 1..(N + 3), on \in BOOLEAN : Switch(d, on)
  BY <1>2, SwitchTells
<1> QED BY <1>1, <1>2 DEF Handled

LEMMA NextTells == MasterPin = {0} /\ Inv /\ ToldInv /\ [Next]_vars => ToldInv'
<1> SUFFICES ASSUME MasterPin = {0}, Inv, ToldInv, [Next]_vars PROVE ToldInv'
  OBVIOUS
<1>1. ZcTypeOK /\ ZcTypeOK' /\ DzTypeOK /\ DzTypeOK' /\ RunInv
  BY NextKeeps DEF Inv, TypeOK, DzTypeOK
<1>2. \A d \in Devices : Values[d] = Value(d) /\ Values'[d] = Value(d)'
  BY <1>1, ValuesAre
<1>10. HeardWhenUp
  BY DEF Inv
<1>3. ASSUME Handled, UNCHANGED <<dzCache, heard>> PROVE ToldInv'
  <2>1. RunHasMaster' /\ events \subseteq events' /\ (Values' # Values => events' # {})
    BY <1>1, <1>3, HandledTells DEF ToldInv
  <2>2. ASSUME heard' # "no", events' = {}, NEW d \in DOMAIN dzCache
        PROVE  dzCache[d] = Value(d)'
    <3>1. heard # "no" /\ events = {} /\ Values' = Values
      BY <1>3, <2>1, <2>2
    <3>2. d \in Devices /\ dzCache[d] = Value(d)
      BY <1>1, <3>1 DEF ToldInv, Fresh, DzTypeOK
    <3> QED BY <1>2, <3>1, <3>2
  <2> QED BY <1>3, <2>1, <2>2 DEF ToldInv, Fresh
<1>4. CASE LocalRequest
  BY <1>3, <1>4 DEF LocalRequest, Handled, dzVars
<1>5. CASE Receive
  BY <1>1, <1>3, <1>5, ReceiveIs DEF Receive
<1>6. ASSUME UpdateDzCache(Values') PROVE \A d \in DOMAIN dzCache' : dzCache'[d] = Value(d)'
  <2>1. Values' \in [Devices -> BOOLEAN]
    BY <1>1, ValuesAre
  <2> QED BY <1>1, <1>2, <1>6, <2>1, Publishes DEF DzTypeOK
<1>7. CASE LoopPass
  <2>1. RunHasMaster'
    <3>1. CASE Expired /\ ZoneDone
      BY <3>1, ZoneDoneDrives
    <3>2. CASE UNCHANGED <<open, cur, elapsed>>
      BY <3>2 DEF ToldInv, RunHasMaster
    <3> QED BY <1>7, <3>1, <3>2 DEF LoopPass
  <2>2. heard' # "no" => UpdateDzCache(Values')
    BY <1>7, <1>10 DEF LoopPass, HeardWhenUp
  <2> QED BY <1>6, <2>1, <2>2 DEF ToldInv, Fresh
<1>8. CASE MqttUp
  <2>1. UNCHANGED <<open, cur, calendar, delay24h>> /\ UpdateDzCache(Values)
    BY <1>8 DEF MqttUp, delayVars
  <2>2. Values' = Values
    BY <2>1, ValuesStay
  <2> QED BY <1>6, <2>1, <2>2 DEF ToldInv, RunHasMaster, Fresh
<1>9. CASE MqttConnect \/ ReadAck \/ ReadOn \/ HubReceive \/ UserSwitch \/ MqttDown \/ Tick
           \/ UNCHANGED vars
  <2>1. /\ UNCHANGED <<open, cur, calendar, delay24h, events, dzCache>>
        /\ heard' # "no" => heard # "no"
    BY <1>9 DEF MqttConnect, ReadAck, ReadOn, HubReceive, UserSwitch, MqttDown, Tick, vars,
                HubVars, zcVars, dzVars, delayVars
  <2>2. \A d \in Devices : Value(d)' = Value(d)
    BY <2>1, ValuesStay
  <2> QED BY <1>1, <2>1, <2>2 DEF ToldInv, RunHasMaster, Fresh, DzTypeOK
<1> QED BY <1>4, <1>5, <1>7, <1>8, <1>9 DEF Next

LEMMA ToldHolds ==
    ASSUME MasterPin = {0}
    PROVE  Spec => []ToldInv
<1>1. Init => ToldInv
  BY DEF Init, ToldInv, RunHasMaster, Fresh
<1>2. Inv /\ ToldInv /\ [Next]_vars => ToldInv'
  BY NextTells
<1> QED BY <1>1, <1>2, InvHolds, PTL DEF Spec

\* A master valve, pins that validGPIO accepts and runtimes that let every zone start:
\* with any other a switch of the hub may ask for what the daemon refuses.
GoodGarden == MasterValve /\ ValidPin = 0..N /\ \A t \in Runtimes : t > 0

LEMMA GoodMaster == GoodGarden => MasterPin = {0}
BY ZonesAssumption DEF GoodGarden, MasterPin

\* What a user of the hub switches is done when it arrives, whatever has crossed it on
\* the way, unless a change is still to be published or the daemon ignores what arrives.
THEOREM UserIsObeyedHolds ==
    ASSUME GoodGarden
    PROVE  Spec => UserIsObeyed
<1> DEFINE m == Head(toDaemon)
           A == Arrives /\ m.by = "user" /\ events = {} /\ heard = "yes" => Values'[m.dev] = m.on
<1>1. MasterPin = {0} /\ ValidPin = 0..N /\ \A t \in Runtimes : t > 0
  BY GoodMaster DEF GoodGarden
<1>2. Inv /\ ToldInv /\ [Next]_vars => A
  <2> SUFFICES ASSUME Inv, ToldInv, [Next]_vars, Arrives, m.by = "user", events = {}, heard = "yes"
               PROVE  Values'[m.dev] = m.on
    OBVIOUS
  <2>1. /\ ZcTypeOK /\ ZcTypeOK' /\ DzTypeOK /\ RunInv /\ UsersSwitchZones
    BY NextKeeps, TypesAre DEF Inv, TypeOK
  <2>2. Receive
    BY <2>1, ArrivesIsReceive
  <2>3. /\ m \in Answers /\ m.on \in BOOLEAN /\ m.dev \in Devices
        /\ \/ (CheckDzCache(m.dev, m.on) \/ m.dev = 0) /\ Nothing
           \/ ~CheckDzCache(m.dev, m.on) /\ Switch(m.dev, m.on)
    BY <2>1, <2>2, ReceiveIs
  <2>4. m.dev # 0
    BY <2>1, TailIs DEF DzTypeOK, Arrives, UsersSwitchZones
  <2> HIDE DEF m
  <2>5. PICK d \in Devices, on \in BOOLEAN : d = m.dev /\ on = m.on
    BY <2>3
  <2>6. Values'[d] = Value(d)' /\ Values[d] = Value(d)
    BY <2>1, ValuesAre
  <2>7. CASE CheckDzCache(m.dev, m.on) /\ Nothing
    <3>1. d \in DOMAIN dzCache /\ dzCache[d] = on
      BY <2>5, <2>7 DEF CheckDzCache
    <3>2. dzCache[d] = Value(d)
      BY <3>1 DEF ToldInv, Fresh
    <3>3. Values' = Values
      BY <2>7, ValuesStay DEF Nothing, zcVars, delayVars
    <3> QED BY <2>5, <2>6, <3>1, <3>2, <3>3
  <2>8. CASE Switch(m.dev, m.on)
    <3>1. Switch(d, on)
      BY <2>5, <2>8
    <3>2. Value(d)' = on
      BY <1>1, <2>1, <3>1, SwitchWorks
    <3> QED BY <2>5, <2>6, <3>2
  <2> QED BY <2>3, <2>4, <2>7, <2>8
<1>3. Spec => []ToldInv
  BY <1>1, ToldHolds
<1>4. [][A]_vars => UserIsObeyed
  BY DEF UserIsObeyed
<1> HIDE DEF A
<1> QED BY <1>2, <1>3, <1>4, InvHolds, PTL DEF Spec

-----------------------------------------------------------------------------
(***************************************************************************)
(* What the hub comes to show.                                              *)
(***************************************************************************)
LEMMA ShowsWhatIsPublished ==
    ASSUME DzTypeOK, NEW values \in [Devices -> BOOLEAN], UpdateDzCache(values),
           UNCHANGED <<hub, toDaemon>>
    PROVE  /\ DOMAIN dzCache \subseteq DOMAIN dzCache' /\ DOMAIN dzCache' \subseteq Devices
           /\ \A d \in DOMAIN dzCache' : dzCache'[d] = values[d]
           /\ \A d \in Changed(values) : ComesToShow(d, values[d])'
           /\ \A d \in Devices \ Changed(values) :
                 /\ d \in DOMAIN dzCache /\ dzCache[d] = values[d]
                 /\ ComesToShow(d, values[d]) => ComesToShow(d, values[d])'
<1>1. /\ DOMAIN dzCache' = DOMAIN dzCache \cup GetsSlot /\ DOMAIN dzCache' \subseteq Devices
      /\ \A d \in DOMAIN dzCache' : dzCache'[d] = values[d]
      /\ \A d \in Changed(values) : Mentions(toHub', d) /\ LastSays(toHub', d, values[d])
      /\ \A d \in Devices \ Changed(values) :
            /\ d \in DOMAIN dzCache /\ dzCache[d] = values[d]
            /\ Mentions(toHub', d) => Mentions(toHub, d)
            /\ \A v : LastSays(toHub, d, v) => LastSays(toHub', d, v)
  BY Publishes DEF DzTypeOK
<1>2. \A d, v : WillShow(d, v)' <=> IF Mentions(toHub', d) THEN LastSays(toHub', d, v) ELSE hub[d] = v
  BY DEF WillShow, Mentions, LastSays
<1>3. ASSUME NEW d \in Changed(values) PROVE ComesToShow(d, values[d])'
  <2>1. WillShow(d, values[d])'
    BY <1>1, <1>2
  <2>2. values[d] \in BOOLEAN
    BY DEF Changed, Uncached, DzTypeOK
  <2> QED BY <2>1, <2>2 DEF ComesToShow
<1>4. ASSUME NEW d \in Devices \ Changed(values), ComesToShow(d, values[d])
      PROVE  ComesToShow(d, values[d])'
  <2>1. PICK v \in BOOLEAN : WillShow(d, v) /\ (v = values[d] \/ UserComes(d, v))
    BY <1>4 DEF ComesToShow
  <2>2. WillShow(d, v)'
    <3>1. CASE Mentions(toHub, d)
      <4>1. LastSays(toHub', d, v)
        BY <1>1, <2>1, <3>1 DEF WillShow
      <4>2. Mentions(toHub', d)
        BY <4>1 DEF LastSays, Mentions
      <4> QED BY <1>2, <4>1, <4>2
    <3>2. CASE ~Mentions(toHub, d)
      BY <1>1, <1>2, <2>1, <3>2 DEF WillShow
    <3> QED BY <3>1, <3>2
  <2>3. UserComes(d, v) => UserComes(d, v)'
    BY DEF UserComes
  <2> QED BY <2>1, <2>2, <2>3 DEF ComesToShow
<1> QED BY <1>1, <1>3, <1>4

\* Steps that touch none of it, and the hub taking a message or a switch.
LEMMA ComesOnWithoutMessage ==
    ASSUME UNCHANGED <<hub, toHub, toDaemon>>, NEW d, NEW x, ComesToShow(d, x)
    PROVE  ComesToShow(d, x)'
BY DEF ComesToShow, WillShow, UserComes, Mentions, LastSays

LEMMA ComesOnAtHub ==
    ASSUME TypeOK, HubReceive, NEW d \in Devices, NEW x, ComesToShow(d, x)
    PROVE  ComesToShow(d, x)'
<1> DEFINE m == Head(toHub)
           echo == [dev |-> m.dev, on |-> m.on, by |-> "echo"]
<1>1. /\ m \in Messages /\ toDaemon \in Seq(Answers)
      /\ toDaemon' = toDaemon \/ toDaemon' = Append(toDaemon, echo)
  BY TailIs DEF TypeOK, HubReceive
<1>2. echo \in Answers
  BY <1>1 DEF Messages, Answers
<1> HIDE DEF echo
<1>3. \A v : UserComes(d, v) => UserComes(d, v)'
  <2>1. CASE toDaemon' = toDaemon
    BY <2>1 DEF UserComes
  <2>2. CASE toDaemon' = Append(toDaemon, echo)
    BY <1>1, <1>2, <2>2, AppendedComes
  <2> QED BY <1>1, <2>1, <2>2
<1>4. PICK v \in BOOLEAN : WillShow(d, v) /\ (v = x \/ UserComes(d, v))
  BY DEF ComesToShow
<1>5. WillShow(d, v)'
  BY <1>4, HubReceiveShows
<1> QED BY <1>3, <1>4, <1>5 DEF ComesToShow

LEMMA ComesOnWithUser ==
    ASSUME TypeOK, UserSwitch, heard # "no", NEW d \in Devices, NEW x, ComesToShow(d, x)
    PROVE  ComesToShow(d, x)'
<1>1. PICK e \in Devices \ {0} :
          /\ hub' = [hub EXCEPT ![e] = ~@]
          /\ toDaemon' = Append(toDaemon, [dev |-> e, on |-> ~hub[e], by |-> "user"])
  BY DEF UserSwitch
<1>2. PICK u \in BOOLEAN : u = ~hub[e]
  OBVIOUS
<1> DEFINE m == [dev |-> e, on |-> u, by |-> "user"]
<1>3. /\ m \in Answers /\ m.dev = e /\ m.on = u /\ m.by = "user"
      /\ toDaemon \in Seq(Answers) /\ hub \in [Devices -> BOOLEAN] /\ toHub' = toHub
      /\ toDaemon' = Append(toDaemon, m)
  BY <1>1, <1>2 DEF Answers, TypeOK, UserSwitch
<1> HIDE DEF m
<1>4. (\A v : UserComes(d, v) => UserComes(d, v)') /\ UserComes(e, u)'
  BY <1>3, AppendedComes
<1>5. PICK v \in BOOLEAN : WillShow(d, v) /\ (v = x \/ UserComes(d, v))
  BY DEF ComesToShow
<1>6. CASE Mentions(toHub, d) \/ d # e
  <2>1. WillShow(d, v)'
    BY <1>1, <1>3, <1>5, <1>6 DEF WillShow, Mentions, LastSays
  <2> QED BY <1>4, <1>5, <2>1 DEF ComesToShow
<1>7. CASE ~Mentions(toHub, d) /\ d = e
  <2>1. hub'[d] = u
    BY <1>1, <1>2, <1>3, <1>7
  <2>2. WillShow(d, u)'
    BY <1>3, <1>7, <2>1 DEF WillShow, Mentions
  <2> QED BY <1>4, <1>7, <2>2 DEF ComesToShow
<1> QED BY <1>6, <1>7

\* Taking a message from the hub can only end the wait for a switch of its user.
LEMMA ComesOnWhenTaken ==
    ASSUME DzTypeOK, toDaemon # <<>>, toDaemon' = Tail(toDaemon), UNCHANGED <<hub, toHub>>,
           NEW d, NEW x, ComesToShow(d, x)
    PROVE  \/ ComesToShow(d, x)'
           \/ \E v \in BOOLEAN : v # x /\ Head(toDaemon) = [dev |-> d, on |-> v, by |-> "user"]
<1>1. PICK v \in BOOLEAN : WillShow(d, v) /\ (v = x \/ UserComes(d, v))
  BY DEF ComesToShow
<1>2. WillShow(d, v)'
  BY <1>1 DEF WillShow, Mentions, LastSays
<1>3. UserComes(d, v) => UserComes(d, v)' \/ Head(toDaemon) = [dev |-> d, on |-> v, by |-> "user"]
  BY TakenComes DEF DzTypeOK
<1> QED BY <1>1, <1>2, <1>3 DEF ComesToShow

\* The primed statements about a state's own values, in terms of rigid ones.
LEMMA ComesAsIs ==
    /\ \A d, x : x = dzCache'[d] /\ ComesToShow(d, x)' => ComesToShow(d, dzCache[d])'
    /\ \A d, x : x = Value(d)' /\ ComesToShow(d, x)' => ComesToShow(d, Value(d))'
BY DEF ComesToShow, WillShow, UserComes, Mentions, LastSays

\* A handler: what it changes is not published yet, and with two such changes of which
\* the first still waits the promise is off.
LEMMA HandlerAgrees ==
    ASSUME GoodGarden, Inv, ToldInv, AgreesInv, ZcTypeOK', LocalRequest \/ Receive
    PROVE  AgreesInv'
<1>1. /\ ZcTypeOK /\ DzTypeOK /\ RunInv /\ UsersSwitchZones /\ RunHasMaster
      /\ CachedAgree /\ UncachedAgree
      /\ MasterPin = {0} /\ ValidPin = 0..N /\ \A t \in Runtimes : t > 0
  BY TypesAre, GoodMaster DEF Inv, ToldInv, AgreesInv, GoodGarden
<1>2. \A d \in Devices : /\ Values[d] = Value(d) /\ Values'[d] = Value(d)'
                         /\ Value(d) \in BOOLEAN /\ Value(d)' \in BOOLEAN
  BY <1>1, ValuesAre
<1>3. /\ UNCHANGED <<dzCache, hub, toHub, heard>> /\ (~missed' => ~missed) /\ Crowd /\ Handled
      /\ DOMAIN dzCache \subseteq Devices
  BY <1>1, ReceiveIs DEF LocalRequest, Receive, Handled, dzVars, DzTypeOK
<1>4. events \subseteq events' /\ (Values' # Values => events' # {})
  BY <1>1, <1>3, HandledTells
\* What the hub comes to show stays so, or the daemon has just done what its user asked for.
<1>5. ASSUME NEW d \in Devices, NEW x \in BOOLEAN, ComesToShow(d, x),
             d \in DOMAIN dzCache => dzCache[d] = x, ~missed'
      PROVE  ComesToShow(d, x)' \/ Value(d)' # x
  <2>1. CASE LocalRequest
    BY <1>5, <2>1, ComesOnWithoutMessage DEF LocalRequest, dzVars
  <2>2. ASSUME Receive,
               NEW v \in BOOLEAN, v # x, Head(toDaemon) = [dev |-> d, on |-> v, by |-> "user"]
        PROVE  Value(d)' # x
    <3>1. /\ toDaemon # <<>>
          /\ \/ (CheckDzCache(d, v) \/ d = 0) /\ Nothing
             \/ ~CheckDzCache(d, v) /\ Switch(d, v)
      BY <1>1, <1>5, <2>2, ReceiveIs
    <3>2. d # 0
      BY <1>1, <2>2, <3>1, TailIs DEF DzTypeOK, UsersSwitchZones
    <3>3. ~CheckDzCache(d, v)
      BY <1>5, <2>2 DEF CheckDzCache
    <3>4. Value(d)' = v
      BY <1>1, <3>1, <3>2, <3>3, SwitchWorks
    <3> QED BY <2>2, <3>4
  <2>3. CASE Receive
    <3>1. toDaemon # <<>> /\ toDaemon' = Tail(toDaemon)
      BY <2>3 DEF Receive
    <3>2. \/ ComesToShow(d, x)'
          \/ \E v \in BOOLEAN : v # x /\ Head(toDaemon) = [dev |-> d, on |-> v, by |-> "user"]
      BY <1>1, <1>3, <1>5, <3>1, ComesOnWhenTaken
    <3> QED BY <2>2, <2>3, <3>2
  <2> QED BY <2>1, <2>3
<1>6. CachedAgree'
  <2>1. ASSUME ~missed', ~crowded', NEW d \in DOMAIN dzCache
        PROVE  ComesToShow(d, dzCache[d])' \/ Value(d)' # dzCache'[d]
    <3>1. PICK x \in BOOLEAN : x = dzCache[d]
      BY <1>1 DEF DzTypeOK
    <3>2. ~missed /\ ~crowded /\ d \in Devices /\ x = dzCache'[d]
      BY <1>3, <2>1, <3>1 DEF Crowd
    <3>3. CASE ComesToShow(d, x)
      BY <1>5, <2>1, <3>1, <3>2, <3>3, ComesAsIs
    <3>4. CASE Value(d) # x
      <4>1. Unpublished
        BY <2>1, <3>1, <3>4 DEF Unpublished
      <4>2. Values' = Values
        BY <1>3, <2>1, <4>1 DEF Crowd
      <4> QED BY <1>2, <3>2, <3>4, <4>2
    <3> QED BY <1>1, <2>1, <3>1, <3>2, <3>3, <3>4 DEF CachedAgree
  <2> QED BY <1>3, <2>1 DEF CachedAgree
<1>7. UncachedAgree'
  <2>1. ASSUME ~missed', heard' # "no", events' = {}, NEW d \in Devices \ DOMAIN dzCache
        PROVE  ComesToShow(d, Value(d))'
    <3>1. ~missed /\ heard # "no" /\ events = {} /\ Values' = Values
      BY <1>3, <1>4, <2>1
    <3>2. PICK x \in BOOLEAN : x = Value(d)
      BY <1>2
    <3>3. x = Value(d)'
      BY <1>2, <3>1, <3>2
    <3>4. ComesToShow(d, x)
      BY <1>1, <2>1, <3>1, <3>2 DEF UncachedAgree
    <3> QED BY <1>5, <2>1, <3>3, <3>4, ComesAsIs
  <2> QED BY <1>3, <2>1 DEF UncachedAgree
<1> QED BY <1>6, <1>7 DEF AgreesInv

\* Publishing: the hub comes to show every value that is sent, and one that is not sent is
\* the one dz_cache has.
LEMMA PublishAgrees ==
    ASSUME DzTypeOK, CachedAgree, NEW values \in [Devices -> BOOLEAN], UpdateDzCache(values),
           UNCHANGED <<hub, toDaemon>>, missed' = missed, crowded => crowded',
           \A d \in Devices : values[d] = Value(d)',
           \A d \in DOMAIN dzCache : dzCache[d] = values[d] /\ dzCache[d] # Value(d) => crowded'
    PROVE  AgreesInv'
<1>1. /\ DOMAIN dzCache \subseteq DOMAIN dzCache' /\ DOMAIN dzCache' \subseteq Devices
      /\ \A d \in DOMAIN dzCache' : dzCache'[d] = values[d]
      /\ \A d \in Changed(values) : ComesToShow(d, values[d])'
      /\ \A d \in Devices \ Changed(values) :
            /\ d \in DOMAIN dzCache /\ dzCache[d] = values[d]
            /\ ComesToShow(d, values[d]) => ComesToShow(d, values[d])'
  BY ShowsWhatIsPublished
<1>2. ASSUME ~missed', ~crowded', NEW d \in DOMAIN dzCache' PROVE ComesToShow(d, dzCache[d])'
  <2>1. d \in Devices /\ values[d] = dzCache'[d]
    BY <1>1, <1>2
  <2>2. CASE d \in Changed(values)
    BY <1>1, <2>1, <2>2, ComesAsIs
  <2>3. CASE d \notin Changed(values)
    <3>1. d \in DOMAIN dzCache /\ dzCache[d] = values[d]
      BY <1>1, <2>1, <2>3
    <3>2. ComesToShow(d, values[d])
      BY <1>2, <3>1 DEF CachedAgree
    <3> QED BY <1>1, <2>1, <2>3, <3>2, ComesAsIs
  <2> QED BY <2>2, <2>3
<1>3. ASSUME NEW d \in Devices \ DOMAIN dzCache' PROVE ComesToShow(d, Value(d))'
  <2>1. d \in Changed(values)
    BY <1>1
  <2> QED BY <1>1, <2>1, ComesAsIs
<1>4. CachedAgree'
  BY <1>2 DEF CachedAgree
<1>5. UncachedAgree'
  BY <1>3 DEF UncachedAgree
<1> QED BY <1>4, <1>5 DEF AgreesInv

\* A step that changes no switch of the daemon and publishes nothing.
LEMMA StillAgrees ==
    ASSUME AgreesInv, DOMAIN dzCache \subseteq Devices,
           UNCHANGED <<open, cur, calendar, delay24h, events, dzCache>>,
           heard' # "no" => heard # "no", ~missed' => ~missed, ~crowded' => ~crowded,
           ~missed' =>
               \A d \in Devices : \A x : ComesToShow(d, x) => ComesToShow(d, x)'
    PROVE  AgreesInv'
<1>1. \A d \in Devices : Value(d)' = Value(d)
  BY ValuesStay
<1>2. CachedAgree'
  <2>1. ASSUME ~missed', ~crowded', NEW d \in DOMAIN dzCache
        PROVE  ComesToShow(d, dzCache[d])' \/ Value(d)' # dzCache'[d]
    <3>1. PICK x : x = dzCache[d]
      OBVIOUS
    <3>2. ComesToShow(d, x) \/ Value(d) # dzCache[d]
      BY <2>1, <3>1 DEF AgreesInv, CachedAgree
    <3> QED BY <1>1, <2>1, <3>1, <3>2, ComesAsIs
  <2> QED BY <2>1 DEF CachedAgree
<1>3. UncachedAgree'
  <2>1. ASSUME ~missed', heard' # "no", events' = {}, NEW d \in Devices \ DOMAIN dzCache
        PROVE  ComesToShow(d, Value(d))'
    <3>1. PICK x : x = Value(d)
      OBVIOUS
    <3>2. ComesToShow(d, x)
      BY <2>1, <3>1 DEF AgreesInv, UncachedAgree
    <3> QED BY <1>1, <2>1, <3>1, <3>2, ComesAsIs
  <2> QED BY <2>1 DEF UncachedAgree
<1> QED BY <1>2, <1>3 DEF AgreesInv

LEMMA NextAgrees == GoodGarden /\ Inv /\ ToldInv /\ AgreesInv /\ [Next]_vars => AgreesInv'
<1> SUFFICES ASSUME GoodGarden, Inv, ToldInv, AgreesInv, [Next]_vars PROVE AgreesInv'
  OBVIOUS
<1>1. /\ TypeOK /\ ZcTypeOK /\ ZcTypeOK' /\ DzTypeOK /\ DOMAIN dzCache \subseteq Devices
      /\ CachedAgree /\ UncachedAgree /\ HeardWhenUp
  BY NextKeeps DEF Inv, TypeOK, DzTypeOK, AgreesInv
<1>2. /\ Values \in [Devices -> BOOLEAN] /\ Values' \in [Devices -> BOOLEAN]
      /\ \A d \in Devices : Values[d] = Value(d) /\ Values'[d] = Value(d)'
  BY <1>1, ValuesAre
<1>3. CASE LocalRequest \/ Receive
  BY <1>1, <1>3, HandlerAgrees
<1>4. CASE LoopPass
  <2>1. /\ UNCHANGED <<hub, toDaemon, up, heard, missed>> /\ Crowd
        /\ up => UpdateDzCache(Values')
        /\ ~up => UNCHANGED <<dzCache, toHub>>
    BY <1>4 DEF LoopPass
  <2>2. ASSUME NEW d \in DOMAIN dzCache, dzCache[d] # Value(d), Value(d)' = dzCache[d] \/ Values' # Values
        PROVE  crowded'
    <3>1. Values' # Values
      BY <1>1, <1>2, <2>2
    <3> QED BY <2>1, <2>2, <3>1 DEF Crowd, Unpublished
  <2>3. CASE up
    <3>1. PICK values \in [Devices -> BOOLEAN] : values = Values'
      BY <1>2
    <3>2. UpdateDzCache(values)
      BY <2>1, <2>3, <3>1
    <3>3. /\ \A d \in Devices : values[d] = Value(d)'
          /\ \A d \in DOMAIN dzCache : dzCache[d] = values[d] /\ dzCache[d] # Value(d) => crowded'
      BY <1>1, <1>2, <2>2, <3>1
    <3>4. crowded => crowded'
      BY <2>1 DEF Crowd
    <3> QED BY <1>1, <2>1, <3>2, <3>3, <3>4, PublishAgrees
  <2>4. CASE ~up
    <3>1. ASSUME ~missed', ~crowded', NEW d \in DOMAIN dzCache
          PROVE  ComesToShow(d, dzCache[d])' \/ Value(d)' # dzCache'[d]
      <4>1. PICK x : x = dzCache[d]
        OBVIOUS
      <4>2. ComesToShow(d, x) \/ Value(d) # dzCache[d]
        BY <1>1, <2>1, <3>1, <4>1 DEF CachedAgree, Crowd
      <4>3. ComesToShow(d, x) => ComesToShow(d, x)'
        BY <2>1, <2>4, ComesOnWithoutMessage
      <4>4. Value(d) # dzCache[d] => Value(d)' # dzCache[d]
        BY <2>2, <3>1
      <4> QED BY <2>1, <2>4, <4>1, <4>2, <4>3, <4>4, ComesAsIs
    <3>2. CachedAgree'
      BY <2>1, <2>4, <3>1 DEF CachedAgree
    <3>3. UncachedAgree'
      BY <1>1, <2>1, <2>4 DEF UncachedAgree, HeardWhenUp
    <3> QED BY <3>2, <3>3 DEF AgreesInv
  <2> QED BY <2>3, <2>4
<1>5. CASE MqttUp
  <2>1. /\ UNCHANGED <<open, cur, calendar, delay24h, hub, toDaemon, missed, crowded>>
        /\ UpdateDzCache(Values)
    BY <1>5 DEF MqttUp, delayVars
  <2>2. Values' = Values
    BY <2>1, ValuesStay
  <2>3. PICK values \in [Devices -> BOOLEAN] : values = Values /\ values = Values'
    BY <1>2, <2>2
  <2>4. UpdateDzCache(values)
    BY <2>1, <2>3
  <2>5. /\ \A d \in Devices : values[d] = Value(d)'
        /\ \A d \in DOMAIN dzCache : dzCache[d] = values[d] /\ dzCache[d] # Value(d) => crowded'
    BY <1>1, <1>2, <2>3
  <2> QED BY <1>1, <2>1, <2>4, <2>5, PublishAgrees
<1>6. CASE MqttConnect \/ ReadAck \/ ReadOn \/ Tick \/ UNCHANGED vars
  <2>1. /\ UNCHANGED <<open, cur, calendar, delay24h, events, dzCache, hub, toHub, toDaemon>>
        /\ UNCHANGED <<missed, crowded>> /\ (heard' # "no" => heard # "no")
    BY <1>6 DEF MqttConnect, ReadAck, ReadOn, Tick, vars, zcVars, dzVars, delayVars
  <2>2. \A d \in Devices : \A x : ComesToShow(d, x) => ComesToShow(d, x)'
    BY <2>1, ComesOnWithoutMessage
  <2> QED BY <1>1, <2>1, <2>2, StillAgrees
<1>7. CASE HubReceive
  <2>1. UNCHANGED <<open, cur, calendar, delay24h, events, dzCache, heard, missed, crowded>>
    BY <1>7 DEF HubReceive, HubVars, zcVars, delayVars
  <2>2. \A d \in Devices : \A x : ComesToShow(d, x) => ComesToShow(d, x)'
    BY <1>1, <1>7, ComesOnAtHub
  <2> QED BY <1>1, <2>1, <2>2, StillAgrees
<1>8. CASE UserSwitch
  <2>1. /\ UNCHANGED <<open, cur, calendar, delay24h, events, dzCache, heard, crowded>>
        /\ ~missed' => ~missed
        /\ heard = "no" => missed'
    BY <1>8 DEF UserSwitch, HubVars, zcVars, delayVars
  <2>2. heard # "no" => \A d \in Devices : \A x : ComesToShow(d, x) => ComesToShow(d, x)'
    BY <1>1, <1>8, ComesOnWithUser
  <2> QED BY <1>1, <2>1, <2>2, StillAgrees
<1>9. CASE MqttDown
  <2>1. /\ UNCHANGED <<open, cur, calendar, delay24h, events, dzCache, crowded, hub>>
        /\ heard' = "no" /\ toHub' = <<>>
        /\ ~missed' => /\ ~missed /\ toHub = <<>>
                       /\ \A i \in DOMAIN toDaemon : toDaemon[i].by # "user"
    BY <1>9 DEF MqttDown, HubVars, zcVars, delayVars
  <2>2. ASSUME ~missed', NEW d \in Devices, NEW x, ComesToShow(d, x) PROVE ComesToShow(d, x)'
    <3>1. \A v : ~UserComes(d, v)
      BY <2>1, <2>2 DEF UserComes
    <3>2. x \in BOOLEAN /\ WillShow(d, x)
      BY <2>2, <3>1 DEF ComesToShow
    <3>3. WillShow(d, x)'
      BY <2>1, <2>2, <3>2 DEF WillShow, Mentions, LastSays
    <3> QED BY <3>2, <3>3 DEF ComesToShow
  <2> QED BY <1>1, <2>1, <2>2, StillAgrees
<1> QED BY <1>3, <1>4, <1>5, <1>6, <1>7, <1>8, <1>9 DEF Next

LEMMA AgreesInvHolds ==
    ASSUME GoodGarden
    PROVE  Spec => []AgreesInv
<1>1. Init => AgreesInv
  BY DEF Init, AgreesInv, CachedAgree, UncachedAgree
<1>2. Inv /\ ToldInv /\ AgreesInv /\ [Next]_vars => AgreesInv'
  BY NextAgrees
<1>3. Spec => []ToldInv
  BY GoodMaster, ToldHolds
<1> QED BY <1>1, <1>2, <1>3, InvHolds, PTL DEF Spec

\* Once all messages have arrived the hub shows the switches of the daemon, with as many
\* devices, slots and messages as there may be.
THEOREM HubAgreesHolds ==
    ASSUME GoodGarden
    PROVE  Spec => []HubAgrees
<1>1. Inv /\ ToldInv /\ AgreesInv => HubAgrees
  <2> SUFFICES ASSUME Inv, ToldInv, AgreesInv, Quiet, ~missed, ~crowded PROVE hub = Values
    BY DEF HubAgrees
  <2>1. /\ heard # "no" /\ toHub = <<>> /\ toDaemon = <<>> /\ events = {}
        /\ hub \in [Devices -> BOOLEAN] /\ DOMAIN dzCache \subseteq Devices
    BY DEF Quiet, Inv, TypeOK
  <2>2. \A d, x : ComesToShow(d, x) => hub[d] = x
    BY <2>1 DEF ComesToShow, WillShow, UserComes, Mentions
  <2>3. ASSUME NEW d \in Devices PROVE hub[d] = Value(d)
    <3>1. CASE d \in DOMAIN dzCache
      <4>1. dzCache[d] = Value(d)
        BY <2>1, <3>1 DEF ToldInv, Fresh
      <4>2. ComesToShow(d, dzCache[d])
        BY <3>1, <4>1 DEF AgreesInv, CachedAgree
      <4> QED BY <2>2, <4>1, <4>2
    <3>2. CASE d \notin DOMAIN dzCache
      BY <2>1, <2>2, <3>2 DEF AgreesInv, UncachedAgree
    <3> QED BY <3>1, <3>2
  <2> QED BY <2>1, <2>3 DEF Values
<1>2. Spec => []ToldInv
  BY GoodMaster, ToldHolds
<1>3. Spec => []AgreesInv
  BY AgreesInvHolds
<1> QED BY <1>1, <1>2, <1>3, InvHolds, PTL
=============================================================================
