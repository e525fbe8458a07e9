----------------------------- MODULE MCDispatchers -----------------------------
(* The instance of Dispatchers for TLC, see Dispatchers.cfg. *)
EXTENDS Dispatchers
=============================================================================
