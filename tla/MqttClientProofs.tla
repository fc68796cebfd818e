-------------------------- MODULE MqttClientProofs --------------------------
(***************************************************************************)
(* Proofs about MqttClient, for any number of connections, whatever the     *)
(* broker and the network do.                                               *)
(***************************************************************************)
EXTENDS MqttClient, TLAPS

\* What a refusal leaves behind; without one there is nothing of the kind.
RefusalsAreSeen == \A c \in Conns : conn[c] \in {"nacked", "refused"} => refused

\* The converse of NeverDeaf, which only holds until the first refusal: the client does
\* not open another connection while it has one.
NeverForgets == ~refused => (Live # {} => status # "mqttstopped")

\* Only a connection that was made is cut, and the broker serves one that is not.
CutIsMade == \A c \in cut : conn[c] \notin {"free", "connecting"}
SessionIsServed == session # None => session \notin cut /\ conn[session] \in {"acked", "open"}

IInv ==
    /\ TypeOK
    /\ NeverDeaf
    /\ OneConnection /\ RefusalsAreSeen /\ NeverForgets
    /\ CutIsMade /\ SessionIsServed

-----------------------------------------------------------------------------
\* The start: no connection, and the client knows it.
LEMMA InitHolds == Init => IInv
BY MqttAssumption DEF Init, IInv, TypeOK, States, NeverDeaf, OneConnection,
    RefusalsAreSeen, NeverForgets, CutIsMade, SessionIsServed, Live

\* Each step keeps the types.
LEMMA TypesKept == ASSUME TypeOK, NEW c \in Conns,
                          \/ StartMqtt(c) \/ Connect(c) \/ Connack(c)
                          \/ Close(c) \/ Accept(c) \/ Trouble(c)
                   PROVE  TypeOK'
<1> USE DEF TypeOK, Becomes, States
<1>1. CASE StartMqtt(c)
  BY <1>1 DEF StartMqtt
<1>2. CASE Connect(c)
  BY <1>2 DEF Connect
<1>3. CASE Connack(c)
  BY <1>3 DEF Connack
<1>4. CASE Close(c)
  BY <1>4 DEF Close
<1>5. CASE Accept(c)
  BY <1>5 DEF Accept
<1>6. CASE ConnectFailed(c)
  BY <1>6 DEF ConnectFailed
<1>7. CASE Refuse(c)
  BY <1>7 DEF Refuse
<1>8. CASE Drop(c)
  BY <1>8 DEF Drop
<1> QED BY <1>1, <1>2, <1>3, <1>4, <1>5, <1>6, <1>7, <1>8 DEF Trouble

\* What is cut was made, and what is served is not cut.
LEMMA EndsKept == ASSUME TypeOK, CutIsMade, SessionIsServed, NEW c \in Conns,
                         \/ StartMqtt(c) \/ Connect(c) \/ Connack(c)
                         \/ Close(c) \/ Accept(c) \/ Trouble(c)
                  PROVE  CutIsMade' /\ SessionIsServed'
<1> USE MqttAssumption DEF TypeOK, Becomes, CutIsMade, SessionIsServed
<1>1. CASE StartMqtt(c)
  BY <1>1 DEF StartMqtt
<1>2. CASE Connect(c)
  BY <1>2 DEF Connect
<1>3. CASE Connack(c)
  BY <1>3 DEF Connack
<1>4. CASE Close(c)
  BY <1>4 DEF Close
<1>5. CASE Accept(c)
  BY <1>5 DEF Accept
<1>6. CASE ConnectFailed(c)
  BY <1>6 DEF ConnectFailed
<1>7. CASE Refuse(c)
  BY <1>7 DEF Refuse
<1>8. CASE Drop(c)
  BY <1>8 DEF Drop
<1> QED BY <1>1, <1>2, <1>3, <1>4, <1>5, <1>6, <1>7, <1>8 DEF Trouble

-----------------------------------------------------------------------------
(***************************************************************************)
(* The client and its belief.  A step opens a connection, ends one, or      *)
(* leaves alone which there are.                                            *)
(***************************************************************************)
Belief == NeverDeaf /\ OneConnection /\ RefusalsAreSeen /\ NeverForgets

\* A connection is only opened when, without a refusal, there is none.
LEMMA StartKeeps == ASSUME TypeOK, Belief, NEW c \in Conns, StartMqtt(c)
                    PROVE  Belief'
<1> USE DEF Belief, TypeOK, StartMqtt, Becomes, Live
<1>1. NeverDeaf'
  <2>1. c \in Live'
    OBVIOUS
  <2> QED BY <2>1 DEF NeverDeaf
<1>2. OneConnection'
  BY DEF OneConnection, NeverForgets
<1>3. RefusalsAreSeen' /\ NeverForgets'
  BY DEF RefusalsAreSeen, NeverForgets
<1> QED BY <1>1, <1>2, <1>3

\* The end of a connection leaves none, if none was refused.
LEMMA EndKeeps == ASSUME TypeOK, Belief, CutIsMade, NEW c \in Conns,
                         Close(c) \/ ConnectFailed(c)
                  PROVE  Belief'
<1>1. /\ conn' = [conn EXCEPT ![c] = "free"] /\ c \in Live
      /\ status' = "mqttstopped" /\ UNCHANGED refused
  <2>1. CASE ConnectFailed(c)
    BY <2>1 DEF ConnectFailed, Becomes, Live
  <2>2. CASE Close(c)
    BY <2>2 DEF Close, Becomes, CutIsMade, Live
  <2> QED BY <2>1, <2>2
<1>2. Live' = Live \ {c}
  BY <1>1 DEF TypeOK, Live
<1>3. NeverDeaf' /\ OneConnection' /\ NeverForgets'
  BY <1>1, <1>2 DEF Belief, NeverDeaf, OneConnection, NeverForgets
<1>4. RefusalsAreSeen'
  BY <1>1 DEF Belief, RefusalsAreSeen, TypeOK
<1> QED BY <1>3, <1>4 DEF Belief

\* The other steps keep the connections, and stop the client for a refusal only.
LEMMA OthersKeep == ASSUME TypeOK, Belief, NEW c \in Conns,
                           \/ Connect(c) \/ Connack(c) \/ Accept(c)
                           \/ Refuse(c) \/ Drop(c)
                    PROVE  Belief'
<1> USE DEF TypeOK, Belief, Becomes
<1>1. Live' = Live /\ (refused => refused')
  BY DEF Connect, Connack, Accept, Refuse, Drop, Live
<1>2. RefusalsAreSeen'
  BY DEF Connect, Connack, Accept, Refuse, Drop, RefusalsAreSeen
<1>3. /\ status' # "mqttstopped" => status # "mqttstopped" \/ c \in Live
      /\ status' = "mqttstopped" => status = "mqttstopped" \/ refused
  BY DEF Connect, Connack, Accept, Refuse, Drop, RefusalsAreSeen, Live
<1>4. NeverDeaf' /\ OneConnection' /\ NeverForgets'
  BY <1>1, <1>3 DEF NeverDeaf, OneConnection, NeverForgets
<1> QED BY <1>2, <1>4

-----------------------------------------------------------------------------
\* Every step keeps the invariant.
LEMMA NextKeeps == ASSUME IInv, [Next]_vars PROVE IInv'
<1>1. CASE UNCHANGED vars
  BY <1>1 DEF vars, IInv, TypeOK, NeverDeaf, OneConnection, RefusalsAreSeen,
      NeverForgets, CutIsMade, SessionIsServed, Live
<1>2. ASSUME NEW c \in Conns,
             \/ StartMqtt(c) \/ Connect(c) \/ Connack(c)
             \/ Close(c) \/ Accept(c) \/ Trouble(c)
      PROVE  IInv'
  <2>1. TypeOK'
    BY <1>2, TypesKept DEF IInv
  <2>2. CutIsMade' /\ SessionIsServed'
    BY <1>2, EndsKept DEF IInv
  <2>3. Belief'
    BY <1>2, StartKeeps, EndKeeps, OthersKeep DEF IInv, Belief, Trouble
  <2> QED BY <2>1, <2>2, <2>3 DEF IInv, Belief
<1> QED BY <1>1, <1>2 DEF Next

\* The invariant holds of every execution.
LEMMA Invariant == Spec => []IInv
<1> QED BY InitHolds, NextKeeps, PTL DEF Spec

\* Every variable keeps its type (_mqtt_status is never left in a fourth state).
THEOREM TypesHold == Spec => []TypeOK
<1>1. IInv => TypeOK
  BY DEF IInv
<1> QED BY <1>1, Invariant, PTL

\* The client never believes in a connection it does not have, whatever the broker
\* refuses and the network drops, so that check_net_services always opens another.
THEOREM NeverDeafHolds == Spec => []NeverDeaf
<1>1. IInv => NeverDeaf
  BY DEF IInv
<1> QED BY <1>1, Invariant, PTL

\* Without a refused CONNACK there is at most one connection, through any number of
\* failures and reconnections.
THEOREM OneConnectionHolds == Spec => []OneConnection
<1>1. IInv => OneConnection
  BY DEF IInv
<1> QED BY <1>1, Invariant, PTL
=============================================================================
