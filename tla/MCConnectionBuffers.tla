-------------------------- MODULE MCConnectionBuffers --------------------------
(* Instances of ConnectionBuffers for TLC: every bound is a constant. *)
EXTENDS ConnectionBuffers
=============================================================================
