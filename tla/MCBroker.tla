------------------------------ MODULE MCBroker ------------------------------
(* Instances of Broker for TLC. *)
EXTENDS Broker, TLC

\* Connections are interchangeable.
Symmetry == Permutations(Clients)
=============================================================================
