----------------------------- MODULE MqttClient -----------------------------
(***************************************************************************)
(* The MQTT client of SprinklerD (ev_handler, check_net_services and        *)
(* start_mqtt of src/net_services.c), its connections and the broker.       *)
(*                                                                          *)
(* One variable, _mqtt_status, stands for all connections: any of them      *)
(* changes it, and the main loop opens another one when it says so.  A      *)
(* refused connection is not closed by the client, so there may be several. *)
(* They all present the same client ID, and a broker that accepts one ends  *)
(* the session of the other (MQTT 3.1.1, 3.1.4).                            *)
(*                                                                          *)
(* MQTT is enabled here; without it start_mqtt sets mqttdisabled and        *)
(* nothing more happens.                                                    *)
(***************************************************************************)
CONSTANTS
    Conns,    \* the struct mg_connection that can exist at once
    None,     \* not a connection
    Refuses   \* whether the broker may refuse a CONNECT

ASSUME MqttAssumption == None \notin Conns /\ Refuses \in BOOLEAN

VARIABLES
    status,   \* _mqtt_status
    conn,     \* what there is of each connection, see States
    cut,      \* the connections whose end is on its way to the client
    session,  \* the connection the broker serves under the client ID, or None
    refused   \* history: the broker has refused a CONNECT

vars == <<status, conn, cut, session, refused>>

\* "sent": MG_EV_CONNECT sent the handshake; "acked", "nacked": the CONNACK is on its
\* way; "open", "refused": it was handled.
States == {"free", "connecting", "sent", "acked", "nacked", "open", "refused"}

TypeOK ==
    /\ status \in {"mqttstarting", "mqttrunning", "mqttstopped"}
    /\ conn \in [Conns -> States]
    /\ cut \subseteq Conns
    /\ session \in Conns \cup {None}
    /\ refused \in BOOLEAN

Becomes(c, state) == conn' = [conn EXCEPT ![c] = state]

-----------------------------------------------------------------------------
(***************************************************************************)
(* The client.                                                              *)
(***************************************************************************)
\* Faulty variant: a connection that is being made counts for none.
StartMqtt_WhileStarting(c) ==
    /\ status # "mqttrunning"
    /\ conn[c] = "free"
    /\ Becomes(c, "connecting")
    /\ status' = "mqttstarting"
    /\ UNCHANGED <<cut, session, refused>>

\* start_mqtt, called by start_net_services and by check_net_services.  When
\* mg_connect fails nothing changes, and the next pass tries again.
StartMqtt(c) ==
    /\ status = "mqttstopped"
    /\ conn[c] = "free"
    /\ Becomes(c, "connecting")
    /\ status' = "mqttstarting"
    /\ UNCHANGED <<cut, session, refused>>

\* MG_EV_CONNECT
Connect(c) ==
    /\ conn[c] = "connecting"
    /\ Becomes(c, "sent")
    /\ status' = "mqttrunning"
    /\ UNCHANGED <<cut, session, refused>>

\* MG_EV_CONNECT with an error, which is not looked at, and the MG_EV_CLOSE that
\* follows in the same poll.
ConnectFailed(c) ==
    /\ conn[c] = "connecting"
    /\ Becomes(c, "free")
    /\ status' = "mqttstopped"
    /\ UNCHANGED <<cut, session, refused>>

\* Faulty variant: the test of the return code the wrong way round.
Connack_Swapped(c) ==
    /\ \/ conn[c] = "nacked" /\ Becomes(c, "open") /\ UNCHANGED status
       \/ conn[c] = "acked" /\ Becomes(c, "refused") /\ status' = "mqttstopped"
    /\ UNCHANGED <<cut, session, refused>>

\* MG_EV_MQTT_CONNACK.  A refused connection is left as it is.
Connack(c) ==
    /\ \/ conn[c] = "acked" /\ Becomes(c, "open") /\ UNCHANGED status
       \/ conn[c] = "nacked" /\ Becomes(c, "refused") /\ status' = "mqttstopped"
    /\ UNCHANGED <<cut, session, refused>>

\* Faulty variant: only a connection that was accepted counts.
Close_OfOpen(c) ==
    /\ c \in cut /\ conn[c] \notin {"acked", "nacked"}
    /\ Becomes(c, "free")
    /\ cut' = cut \ {c}
    /\ status' = IF conn[c] = "open" THEN "mqttstopped" ELSE status
    /\ UNCHANGED <<session, refused>>

\* Faulty variant: a client that lost its connection gives up.
Close_Disables(c) ==
    /\ c \in cut /\ conn[c] \notin {"acked", "nacked"}
    /\ Becomes(c, "free")
    /\ cut' = cut \ {c}
    /\ status' = "mqttdisabled"
    /\ UNCHANGED <<session, refused>>

\* MG_EV_CLOSE, which comes after all that was received before it.
Close(c) ==
    /\ c \in cut /\ conn[c] \notin {"acked", "nacked"}
    /\ Becomes(c, "free")
    /\ cut' = cut \ {c}
    /\ status' = "mqttstopped"
    /\ UNCHANGED <<session, refused>>

-----------------------------------------------------------------------------
(***************************************************************************)
(* The broker and the network.                                              *)
(***************************************************************************)
Accept(c) ==
    /\ conn[c] = "sent" /\ c \notin cut
    /\ Becomes(c, "acked")
    /\ session' = c
    /\ cut' = cut \cup ({session} \ {None})
    /\ UNCHANGED <<status, refused>>

\* A broker that refuses closes the connection.
Refuse(c) ==
    /\ Refuses
    /\ conn[c] = "sent" /\ c \notin cut
    /\ Becomes(c, "nacked")
    /\ cut' = cut \cup {c}
    /\ refused' = TRUE
    /\ UNCHANGED <<status, session>>

\* A CONNACK on its way may be lost with the connection.
Drop(c) ==
    /\ conn[c] \in {"sent", "acked", "open"} /\ c \notin cut
    /\ \/ conn[c] = "acked" /\ Becomes(c, "sent")
       \/ UNCHANGED conn
    /\ cut' = cut \cup {c}
    /\ session' = IF session = c THEN None ELSE session
    /\ UNCHANGED <<status, refused>>

Init ==
    /\ status = "mqttstopped"
    /\ conn = [c \in Conns |-> "free"]
    /\ cut = {} /\ session = None /\ refused = FALSE

Trouble(c) == ConnectFailed(c) \/ Refuse(c) \/ Drop(c)

Next == \E c \in Conns :
    StartMqtt(c) \/ Connect(c) \/ Connack(c) \/ Close(c) \/ Accept(c) \/ Trouble(c)

Spec == Init /\ [][Next]_vars

\* mg_mgr_poll delivers what has arrived, the main loop calls check_net_services
\* after it, and a broker answers.
Fairness ==
    /\ WF_vars(\E c \in Conns : StartMqtt(c))
    /\ \A c \in Conns : WF_vars(Connect(c)) /\ WF_vars(Connack(c)) /\ WF_vars(Close(c))
    /\ \A c \in Conns : WF_vars(Accept(c))

FairSpec == Spec /\ Fairness
-----------------------------------------------------------------------------
(***************************************************************************)
(* What the client promises.                                                *)
(***************************************************************************)
Live == {c \in Conns : conn[c] # "free"}

\* The client never believes in a connection when it has none: it would stay without
\* one for ever, as only mqttstopped makes the main loop open another.
NeverDeaf == status # "mqttstopped" => Live # {}

\* Until the broker refuses, there is one connection: no message is published or
\* obeyed twice, and none takes the session of another.
OneConnection == ~refused => \A b, c \in Live : b = c

Peace == <>[][\A c \in Conns : ~Trouble(c)]_vars

\* When network and broker are well again the client comes back to the broker, also
\* after refusals.
ComesBack == Peace => []<>(\E c \in Conns : conn[c] = "open")

\* When there was no refusal it then stays there.
Settles == Peace /\ []~refused => <>[](\E c \in Conns : conn[c] = "open")
=============================================================================
