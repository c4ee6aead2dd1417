----------------------------- MODULE MCAmqpSend -----------------------------
(* Instances of AmqpSend for TLC: the second message cannot be marshalled and *)
(* the third one is waited for.                                              *)
EXTENDS AmqpSend

MCUnfit == {2}
MCAwaited == {3}
=============================================================================
