------------------------------- MODULE MCReactor -------------------------------
(* Instances of Reactor for TLC: clients and descriptors are model values. *)
EXTENDS Reactor, TLC

\* Clients are interchangeable, and so are the descriptors handed to them.
Symmetry == Permutations(Conns) \cup Permutations(ConnFds)
=============================================================================
