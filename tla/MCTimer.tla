-------------------------------- MODULE MCTimer --------------------------------
(* The instance of Timer for TLC, see Timer.cfg: timers are model values. *)
EXTENDS Timer
=============================================================================
