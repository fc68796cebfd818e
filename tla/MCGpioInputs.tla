---------------------------- MODULE MCGpioInputs ----------------------------
(***************************************************************************)
(* Finite values for the constants of GpioInputs.                           *)
(***************************************************************************)
EXTENDS GpioInputs

\* validGPIO accepts every pin.
AllPins == Pins
=============================================================================
