--------------------------- MODULE MCWsTransport ---------------------------
(* Instances of WsTransport for TLC. *)
EXTENDS WsTransport
=============================================================================
