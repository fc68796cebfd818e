---------------------------- MODULE MCSprinkler ----------------------------
(***************************************************************************)
(* Finite values for the constants of Sprinkler.                            *)
(***************************************************************************)
EXTENDS SprinklerRefines

\* Zones, with the master valve as zone 0.
Pins1 == 0..1
Pins2 == 0..2
\* Zone 2 of three is on a pin that validGPIO refuses.
BadZonePin == {0, 1, 3}

Zones1 == 1..1
Zones2 == 1..2
Zones3 == 1..3
Zones0To2 == 0..2

\* Configuration files: every zone runs for one minute.
OneMinute1 == {[z \in 0..1 |-> 1]}
OneMinute2 == {[z \in 0..2 |-> 1]}
OneMinute3 == {[z \in 0..3 |-> 1]}

\* Rain limits, in percent and hundredths of an inch; 4 is written to the cache as 0.
NoLimits   == {[chance |-> 0, day1 |-> 0, day2 |-> 0]}
RainLimits == {[chance |-> 50, day1 |-> 4, day2 |-> 50], [chance |-> 0, day1 |-> 20, day2 |-> 0]}
TwoDays    == {[chance |-> 0, day1 |-> 20, day2 |-> 50]}
=============================================================================
