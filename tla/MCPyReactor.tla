------------------------------ MODULE MCPyReactor ------------------------------
(* The instance of PyReactor for TLC, see PyReactor.cfg. *)
EXTENDS PyReactor
=============================================================================
