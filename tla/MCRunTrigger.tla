---------------------------- MODULE MCRunTrigger ----------------------------
(* Instances of RunTrigger for TLC: two builds send one trigger, the test    *)
(* waits for it, and the report waits for the test, whether or not it failed. *)
EXTENDS RunTrigger

CONSTANTS build1, build2, test, report, built, tested

MCWaits == [p \in Procs |-> IF p = test THEN built ELSE IF p = report THEN tested ELSE None]
MCSends == [p \in Procs |-> IF p = test THEN tested ELSE IF p = report THEN None ELSE built]
=============================================================================
