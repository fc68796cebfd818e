---------------------------- MODULE MCMqttClient ----------------------------
(***************************************************************************)
(* Finite values for the constants of MqttClient.                           *)
(***************************************************************************)
EXTENDS MqttClient

CONSTANTS c1, c2, c3, c4

Four == {c1, c2, c3, c4}
=============================================================================
