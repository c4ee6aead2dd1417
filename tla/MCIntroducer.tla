---------------------------- MODULE MCIntroducer ----------------------------
(* Instances of Introducer for TLC. *)
EXTENDS Introducer

CONSTANTS desk, laptop

\* The laptop yields to the desk, or both have one level.
Levels == {[i \in Introducers |-> IF i = laptop THEN l ELSE 2] : l \in {1, 2}}
=============================================================================
