--------------------------- MODULE MCNotifyMobile ---------------------------
(* Instances of NotifyMobile for TLC. *)
EXTENDS NotifyMobile, TLC

CONSTANTS low, mid, high \* one notification of each interesting level

\* Below every option, at the level of the two lower ones, at the highest.
LevelOf == [n \in Ids |-> CASE n = low -> 1 [] n = high -> 4 [] OTHER -> 2]
=============================================================================
