--------------------------- MODULE MCWateringDay ----------------------------
(***************************************************************************)
(* Finite values for the constants of WateringDay.                          *)
(***************************************************************************)
EXTENDS WateringDay

Sunday == {0}
AllPins == 0..3

\* A start in the morning whose long runs fill the hour, and one that crosses midnight.
Starts == {[hour |-> 7, minute |-> 50], [hour |-> 23, minute |-> 48]}
=============================================================================
