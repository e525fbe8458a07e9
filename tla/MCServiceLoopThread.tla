-------------------------- MODULE MCServiceLoopThread --------------------------
(* Instances of ServiceLoopThread alone for TLC: the objects are model values. *)
EXTENDS ServiceLoopThread
=============================================================================
