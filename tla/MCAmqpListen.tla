--------------------------- MODULE MCAmqpListen ---------------------------
(* Instances of AmqpListen for TLC. *)
EXTENDS AmqpListen
=============================================================================
