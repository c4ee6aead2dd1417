----------------------------- MODULE MCSession -----------------------------
(* Instances of Session for TLC. *)
EXTENDS Session

CONSTANTS k1, k2, k3, \* the third is nobody's
          desk, server

\* The server has the key of the desk and one of its own.
KeysOfEach == [i \in Introducers |-> IF i = desk THEN <<k1>> ELSE <<k1, k2>>]
=============================================================================
