-------------------------- MODULE SprinklerRefines --------------------------
(***************************************************************************)
(* The daemon implements Garden: between two of its steps the pins, the run *)
(* in progress, the delay and its copy in the cache file look like one      *)
(* valve, one pump and one delay that are switched together.  This needs    *)
(* pins that can be switched, a master valve, no request that names zone 0  *)
(* (see MasterOffEndsWatering) and no signal inside a delay handler (see    *)
(* DelayHasEnd).                                                            *)
(***************************************************************************)
EXTENDS Sprinkler

ValveOf(pins) == IF pins \cap Zones = {} THEN 0 ELSE CHOOSE z \in Zones : z \in pins

\* A run without a valve, which a start that failed leaves, waters nothing.
ReasonOf(pins, type) ==
    IF pins \cap Zones = {} THEN "none" ELSE IF type = "CRON" THEN "schedule" ELSE "request"

\* A daemon that is down remembers the delay by its cache file alone.
Remembered == IF proc = "up" THEN delay24h ELSE cache.delay24h

Promise == INSTANCE Garden WITH
    valve <- ValveOf(open), reason <- ReasonOf(open, cur.type), pump <- 0 \in open,
    delay <- Remembered, alive <- proc = "up"

\* Every step of the daemon is a step that Garden allows, or changes nothing that
\* the garden sees: valves and pump switch together on every path through
\* zone_ctrl.c, the delay takes a scheduled run with it in the same step, and what a
\* start restores is what the end left.
ImplementsGarden == Promise!Spec
=============================================================================
