------------------------------ MODULE Domoticz ------------------------------
(***************************************************************************)
(* SprinklerD as a set of switches of a Domoticz hub (src/net_services.c).  *)
(*                                                                          *)
(* The daemon publishes the switches that changed since it last published   *)
(* them, for which it keeps the last value of each (dz_cache).  The hub     *)
(* answers every message with one of its own, on the topic on which it also *)
(* tells what its users switch, and nothing in a message says which of the  *)
(* two it is: one that carries the value in dz_cache is taken for an echo,  *)
(* any other for a request.  What arrives in the first second of a          *)
(* connection, or in one read with an acknowledgement, is ignored.          *)
(*                                                                          *)
(* The daemon runs its handlers one at a time and then the loop body, as in *)
(* Sprinkler.tla; here only what reaches the hub is kept of them.  A rain   *)
(* delay is long, and does not end here.  There is one connection at a time *)
(* (MqttClient.tla has them all), and the hub reaches it from the CONNACK   *)
(* on: what is sent before the SUBSCRIBE that answers it is lost, as what   *)
(* arrives in that second is.                                               *)
(***************************************************************************)
EXTENDS RainDelay, FiniteSets, Sequences

CONSTANTS
    Devices,         \* the switches with an idx; they are published in ascending order
    NON_ZONE_DZIDS,  \* the slots of dz_cache beside one for each zone (3)
    MaxMessages,     \* the length the two queues of messages are explored to
    Drops            \* whether the connection can be lost, with what is on its way

\* The switches: the zones with the master valve, and three more.
Calendar == N + 1
Delay24h == N + 2
AllZones == N + 3

ASSUME DomoticzAssumption ==
    /\ Devices \subseteq (IF MasterValve THEN 0 ELSE 1)..(N + 3)
    /\ NON_ZONE_DZIDS \in Nat /\ MaxMessages \in Nat \ {0} /\ Drops \in BOOLEAN

VARIABLES
    dzCache,   \* dz_cache, as a function on the devices that have a slot
    hub,       \* the switches of the hub
    toHub,     \* mqtt_dz_pub_topic, as a queue
    toDaemon,  \* mqtt_dz_sub_topic, as a queue
    up,        \* whether the MQTT connection is open; the daemon publishes as soon as it is
    heard,     \* whether the daemon would handle a message ("yes"), ignore it, or not get it
    missed,    \* history: a message was lost with a connection, or a user's was not handled
    crowded    \* history: two handlers changed a switch before the loop body published

dzVars == <<dzCache, hub, toHub, toDaemon, up, heard, missed>>
vars == <<open, cur, elapsed, events, runtime, calendar, delay24h, delayLeft, asFloat,
          limits, rainTotal, cache, dzCache, hub, toHub, toDaemon, up, heard, missed, crowded>>

Value(d) == CASE d \in 0..N   -> d \in open
              [] d = Calendar -> calendar
              [] d = Delay24h -> delay24h
              [] d = AllZones -> cur.type = "ALL"

Values == [d \in Devices |-> Value(d)]

Messages == [dev : Devices, on : BOOLEAN]
Answers  == [dev : Devices, on : BOOLEAN, by : {"echo", "user"}]

TypeOK ==
    /\ ZcTypeOK /\ RainTypeOK
    /\ DOMAIN dzCache \subseteq Devices /\ Cardinality(DOMAIN dzCache) <= N + NON_ZONE_DZIDS
    /\ \A d \in DOMAIN dzCache : dzCache[d] \in BOOLEAN
    /\ hub \in [Devices -> BOOLEAN]
    /\ toHub \in Seq(Messages) /\ toDaemon \in Seq(Answers)
    /\ up \in BOOLEAN /\ heard \in {"yes", "ignored", "no"}
    /\ missed \in BOOLEAN /\ crowded \in BOOLEAN

-----------------------------------------------------------------------------
(***************************************************************************)
(* Publishing: update_dz_cache for each device in turn, whose answer says   *)
(* whether to send it.  A device that finds no slot is sent every time.     *)
(***************************************************************************)
Uncached == Devices \ DOMAIN dzCache

\* How many devices of S come before d.
Before(S, d) == Cardinality({e \in S : e < d})

\* The devices of S in the order they are published in.
InOrder(S) == [i \in 1..Cardinality(S) |-> CHOOSE d \in S : Before(S, d) = i - 1]

\* Faulty variant: one slot too many is looked at.
GetsSlot_OneMore ==
    {d \in Uncached : Cardinality(DOMAIN dzCache) + Before(Uncached, d) <= N + NON_ZONE_DZIDS}

GetsSlot ==
    {d \in Uncached : Cardinality(DOMAIN dzCache) + Before(Uncached, d) < N + NON_ZONE_DZIDS}

\* update_dz_cache says of these that they are to be sent.
Changed(values) == Uncached \cup {d \in DOMAIN dzCache : dzCache[d] # values[d]}

Send(values) ==
    LET order == InOrder(Changed(values))
    IN toHub' = toHub \o [i \in DOMAIN order |-> [dev |-> order[i], on |-> values[order[i]]]]

\* Faulty variant: a value that changed is sent, not stored.
UpdateDzCache_KeepsOld(values) ==
    /\ dzCache' = [d \in DOMAIN dzCache \cup GetsSlot |->
                      IF d \in DOMAIN dzCache THEN dzCache[d] ELSE values[d]]
    /\ Send(values)

UpdateDzCache(values) ==
    /\ dzCache' = [d \in DOMAIN dzCache \cup GetsSlot |-> values[d]]
    /\ Send(values)

\* Faulty variants: no message is an echo; every one for a cached device is.
CheckDzCache_Never(d, on) == FALSE

CheckDzCache_AnyValue(d, on) == d \in DOMAIN dzCache

\* check_dz_cache
CheckDzCache(d, on) == d \in DOMAIN dzCache /\ dzCache[d] = on

-----------------------------------------------------------------------------
(***************************************************************************)
(* The daemon.                                                              *)
(***************************************************************************)
Switch(d, on) ==
    \/ d \in Zones /\ ZcZone("SINGLE", d, on, 0, {}) /\ UNCHANGED <<calendar, delayVars>>
    \/ /\ d = Calendar
       /\ EnableCalendar(on, {})
       /\ UNCHANGED <<open, cur, elapsed, delayVars>>
    \/ d = Delay24h /\ EnableDelay24h(on, {}) /\ UNCHANGED calendar
    \/ d = AllZones /\ ZcZone("ALL", 0, on, 0, {}) /\ UNCHANGED <<calendar, delayVars>>

Nothing == UNCHANGED <<zcVars, calendar, delayVars>>

\* A change while another one waits to be published.
Unpublished == \E d \in DOMAIN dzCache : dzCache[d] # Value(d)

Crowd == crowded' = (crowded \/ (Unpublished /\ Values' # Values))

\* Any request that does not come from the hub; it may be about a switch without an idx.
LocalRequest ==
    /\ Len(toHub) + Len(toDaemon) < MaxMessages
    /\ \E d \in 1..(N + 3), on \in BOOLEAN : Switch(d, on)
    /\ Crowd
    /\ UNCHANGED <<runtime, limits, rainTotal, dzVars>>

\* action_domoticz_mqtt_message.  The idx of the master valve is published and not
\* looked for here.
Handle(m) ==
    \/ (CheckDzCache(m.dev, m.on) \/ m.dev = 0) /\ Nothing
    \/ ~CheckDzCache(m.dev, m.on) /\ Switch(m.dev, m.on)

\* MG_EV_MQTT_PUBLISH
Receive ==
    /\ up /\ toDaemon # <<>>
    /\ toDaemon' = Tail(toDaemon)
    /\ \/ heard = "ignored" /\ Nothing /\ missed' = (missed \/ Head(toDaemon).by = "user")
       \/ heard = "yes" /\ Handle(Head(toDaemon)) /\ UNCHANGED missed
    /\ Crowd
    /\ UNCHANGED <<runtime, limits, rainTotal, dzCache, hub, toHub, up, heard>>

\* A PUBACK is read.  Mongoose clears its struct mg_mqtt_message once for a read, so what
\* follows in the same read has the id of the PUBACK, and the handler takes it for a
\* message of its own.  The daemon publishes with QoS 1, and on other topics too: there
\* may be a PUBACK in every read.
ReadAck ==
    /\ heard = "yes"
    /\ heard' = "ignored"
    /\ UNCHANGED <<zcVars, runtime, calendar, delayVars, limits, rainTotal, dzCache, hub, toHub,
                   toDaemon, up, missed, crowded>>

\* The next read; the first one when the second after the CONNACK is over, and behind the
\* SUBACK, which has an id as well.
ReadOn ==
    /\ heard = "ignored"
    /\ heard' = "yes"
    /\ UNCHANGED <<zcVars, runtime, calendar, delayVars, limits, rainTotal, dzCache, hub, toHub,
                   toDaemon, up, missed, crowded>>

\* The loop body; without an event or the end of a run it is the refresh.
LoopPass ==
    /\ Expired \/ events # {} \/ cur.type = "NONE"
    /\ \/ Expired /\ ZoneDone
       \/ ~Expired /\ UNCHANGED <<open, cur, elapsed>>
    /\ UNCHANGED <<runtime, calendar, delayVars, limits, rainTotal, hub, toDaemon, up, heard,
                   missed>>
    /\ Crowd
    /\ events' = {}
    /\ \/ up /\ UpdateDzCache(Values') /\ Len(toHub') + Len(toDaemon) <= MaxMessages
       \/ ~up /\ UNCHANGED <<dzCache, toHub>>

\* MG_EV_CONNECT: from now on a broadcast goes to the broker.
MqttConnect ==
    /\ ~up
    /\ up' = TRUE
    /\ UNCHANGED <<zcVars, runtime, calendar, delayVars, limits, rainTotal, dzCache, hub, toHub,
                   toDaemon, heard, missed, crowded>>

\* MG_EV_MQTT_CONNACK: the daemon subscribes, and sends what it has not sent already.
MqttUp ==
    /\ up /\ heard = "no"
    /\ heard' = "ignored"
    /\ UpdateDzCache(Values)
    /\ events' = events \ {"status"}
    /\ UNCHANGED <<open, cur, elapsed, runtime, calendar, delayVars, limits, rainTotal, hub,
                   toDaemon, up, missed, crowded>>

Tick ==
    /\ cur.type # "NONE" /\ TimeLeft > 0
    /\ elapsed' = elapsed + 1
    /\ UNCHANGED <<open, cur, events, runtime, calendar, delayVars, limits, rainTotal, dzVars,
                   crowded>>

-----------------------------------------------------------------------------
(***************************************************************************)
(* The hub and the network.                                                 *)
(***************************************************************************)
HubVars == <<zcVars, runtime, calendar, delayVars, limits, rainTotal, dzCache, crowded>>

HubReceive ==
    /\ toHub # <<>>
    /\ LET m == Head(toHub)
       IN /\ hub' = [hub EXCEPT ![m.dev] = m.on]
          /\ toDaemon' = IF heard = "no" THEN toDaemon
                         ELSE Append(toDaemon, [dev |-> m.dev, on |-> m.on, by |-> "echo"])
    /\ toHub' = Tail(toHub)
    /\ UNCHANGED <<HubVars, up, heard, missed>>

\* A user of the hub turns a switch over.
UserSwitch ==
    /\ Len(toHub) + Len(toDaemon) < MaxMessages
    /\ \E d \in Devices \ {0} :
          /\ hub' = [hub EXCEPT ![d] = ~@]
          /\ \/ /\ heard # "no" /\ UNCHANGED missed
                /\ toDaemon' = Append(toDaemon, [dev |-> d, on |-> ~hub[d], by |-> "user"])
             \/ heard = "no" /\ missed' = TRUE /\ UNCHANGED toDaemon
    /\ UNCHANGED <<HubVars, toHub, up, heard>>

MqttDown ==
    /\ Drops /\ up
    /\ up' = FALSE /\ heard' = "no"
    /\ toHub' = <<>> /\ toDaemon' = <<>>
    /\ missed' = (missed \/ toHub # <<>> \/ \E i \in DOMAIN toDaemon : toDaemon[i].by = "user")
    /\ UNCHANGED <<HubVars, hub>>

Init ==
    /\ open = {} /\ cur = [type |-> "NONE", zone |-> 0, duration |-> 0] /\ elapsed = 0
    /\ events = {} /\ runtime \in [0..N -> Runtimes] /\ calendar = TRUE
    /\ delay24h = FALSE /\ delayLeft = NoEnd /\ asFloat = TRUE /\ rainTotal = 0
    /\ limits \in Limits
    /\ cache = [calendar |-> TRUE, delay24h |-> FALSE, left |-> NoEnd, asFloat |-> TRUE,
                limits |-> limits, runtime |-> [z \in Zones |-> runtime[z]]]
    /\ dzCache = <<>> /\ hub = [d \in Devices |-> FALSE]
    /\ toHub = <<>> /\ toDaemon = <<>>
    /\ up = FALSE /\ heard = "no" /\ missed = FALSE /\ crowded = FALSE

Next == LocalRequest \/ Receive \/ LoopPass \/ MqttConnect \/ MqttUp \/ ReadAck \/ ReadOn
        \/ Tick \/ HubReceive \/ UserSwitch \/ MqttDown

Spec == Init /\ [][Next]_vars
-----------------------------------------------------------------------------
(***************************************************************************)
(* What the hub can rely on.                                                *)
(***************************************************************************)
Quiet == heard # "no" /\ toHub = <<>> /\ toDaemon = <<>> /\ events = {} /\ ~Expired

\* Once all messages have arrived the hub shows the switches of the daemon, however
\* requests, echoes and switches of its users crossed each other on the way, also when
\* echoes were ignored and with a switch that found no slot (check_dz_cache and
\* update_dz_cache, net_services.c:81).  Two things are in the way: a message that was
\* not handled, one to the hub that was lost with its connection, which dz_cache takes for
\* published, or one of a user that was lost or ignored (net_services.c:957,962); and a
\* switch of a user that another handler undoes before the loop body: dz_cache still has
\* the value from before the two, so nothing is sent.
HubAgrees == Quiet /\ ~missed /\ ~crowded => hub = Values

\* The daemon handles a message of the hub.
Arrives == toDaemon # <<>> /\ toDaemon' = Tail(toDaemon) /\ up'

NewerOnItsWay(d) ==
    \/ \E i \in DOMAIN toHub : toHub[i].dev = d
    \/ \E i \in DOMAIN toDaemon : i > 1 /\ toDaemon[i].dev = d /\ toDaemon[i].by = "echo"

\* The echo of the last value published is never taken for a request, also when the
\* switch has changed since and the change is still to be published: a device with a
\* slot is not switched back by it (net_services.c:687).  The echo of an older value is.
LastEchoIsIgnored ==
    [][/\ Arrives /\ Head(toDaemon).by = "echo" /\ Head(toDaemon).dev \in DOMAIN dzCache
       /\ Values' # Values
       => NewerOnItsWay(Head(toDaemon).dev)]_vars

\* What a user of the hub switches is done when it arrives, also when an echo that
\* crossed it has made the switch go to and fro, but for two cases: the daemon has a
\* change to publish, and takes the value from before it for an echo
\* (net_services.c:687); or it ignores what arrives, in the first second of a connection
\* and behind a PUBACK (net_services.c:957,962).
UserIsObeyed ==
    [][Arrives /\ Head(toDaemon).by = "user" /\ events = {} /\ heard = "yes"
       => Values'[Head(toDaemon).dev] = Head(toDaemon).on]_vars
=============================================================================
