---------------------------- MODULE MCOneStepOff ----------------------------
(* A model-checking instance of OneStepOff; the constants are in the cfg. *)
EXTENDS OneStepOff
=============================================================================
