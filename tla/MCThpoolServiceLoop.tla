-------------------------- MODULE MCThpoolServiceLoop --------------------------
(* Instances of ThpoolServiceLoop for TLC: the objects are model values. *)
EXTENDS ThpoolServiceLoop
=============================================================================
