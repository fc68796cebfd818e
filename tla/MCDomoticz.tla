----------------------------- MODULE MCDomoticz -----------------------------
(***************************************************************************)
(* Finite values for the constants of Domoticz.                             *)
(***************************************************************************)
EXTENDS Domoticz

Pins1 == 0..1
NoLimits == {[chance |-> 0, day1 |-> 0, day2 |-> 0]}

\* The master valve, a zone and the cycle; with one slot beside that of the zone the
\* cycle finds none, as it does when all switches have an idx in a full configuration.
MasterZoneCycle == {0, 1, AllZones}
=============================================================================
