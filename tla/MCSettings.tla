----------------------------- MODULE MCSettings -----------------------------
(* What a machine keeps between commands, for TLC: the key and the files of   *)
(* the configuration, which has two names in one section.                     *)
EXTENDS KeyStore, ConfigFiles

MCNames == {<<"broker", "uri">>, <<"broker", "user">>}

vars == <<keyVars, configVars>>

Init == KeyInit /\ ConfigInit

\* The two share nothing, so each moves while the other one is as it was in the
\* beginning.
Next ==
  \/ KeyNext /\ UNCHANGED configVars /\ ConfigInit
  \/ ConfigNext /\ UNCHANGED keyVars /\ KeyInit

Spec == Init /\ [][Next]_vars

\* Both parts have their types.
TypeOK == KeyTypeOK /\ ConfigTypeOK
=============================================================================
