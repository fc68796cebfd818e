------------------------------- MODULE Garden -------------------------------
(***************************************************************************)
(* What SprinklerD promises to the garden, without the means: one valve at  *)
(* a time, the pump with it, no scheduled watering in a rain delay, and a   *)
(* start that begins with everything closed and the delay remembered.       *)
(* SprinklerRefines.tla states that the daemon does this.                   *)
(***************************************************************************)
EXTENDS Naturals

CONSTANT Zones  \* without 0

VARIABLES
    valve,   \* the zone whose valve is open, 0 for none
    reason,  \* what opened it: "request", "schedule", "none"
    pump,    \* whether the master valve or pump is on
    delay,   \* whether there is a rain delay
    alive    \* whether there is a daemon to act

vars == <<valve, reason, pump, delay, alive>>

Init ==
    /\ valve = 0 /\ reason = "none" /\ pump = FALSE
    /\ delay = FALSE
    /\ alive = TRUE

Closed == valve' = 0 /\ reason' = "none" /\ pump' = FALSE

\* One valve is opened, the pump is turned on, and any other valve is closed, at once.
Open(z, by) ==
    /\ alive
    /\ by = "schedule" => ~delay
    /\ valve' = z /\ reason' = by /\ pump' = TRUE
    /\ UNCHANGED <<delay, alive>>

Close ==
    /\ alive
    /\ Closed
    /\ UNCHANGED <<delay, alive>>

\* A delay ends a scheduled run, and leaves one that was asked for.
BeginDelay ==
    /\ alive
    /\ delay' = TRUE
    /\ IF reason = "schedule" THEN Closed ELSE UNCHANGED <<valve, reason, pump>>
    /\ UNCHANGED alive

EndDelay ==
    /\ alive
    /\ delay' = FALSE
    /\ UNCHANGED <<valve, reason, pump, alive>>

\* The daemon closes everything, or it is killed with everything as it is.
Die ==
    /\ alive
    /\ alive' = FALSE
    /\ Closed \/ UNCHANGED <<valve, reason, pump>>
    /\ UNCHANGED delay

Revive ==
    /\ ~alive
    /\ alive' = TRUE
    /\ Closed
    /\ UNCHANGED delay

Next ==
    \/ \E z \in Zones, by \in {"request", "schedule"} : Open(z, by)
    \/ Close \/ BeginDelay \/ EndDelay \/ Die \/ Revive

Spec == Init /\ [][Next]_vars
=============================================================================
