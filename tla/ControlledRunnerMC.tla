------------------------- MODULE ControlledRunnerMC -------------------------
(* The instances of ControlledRunner that TLC checks. *)
EXTENDS ControlledRunner
=============================================================================
