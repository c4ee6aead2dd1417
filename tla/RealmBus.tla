------------------------------ MODULE RealmBus ------------------------------
(***************************************************************************)
(* What a websocket broker promises its subscribers, without goroutines or *)
(* channels.  A room keeps one order of messages.  A subscriber that joins *)
(* a room receives, one by one and without a gap, what the room published  *)
(* from the moment it joined; it may stop receiving at any time, and then  *)
(* it has seen a prefix.  No message is published twice.                   *)
(***************************************************************************)
EXTENDS Naturals, Sequences

CONSTANTS Clients, Rooms, Msgs, None

VARIABLES log,      \* log[r]: the messages published in room r, in order
          room,     \* room[c]: the room client c joined, or None
          from,     \* from[c]: how many messages the room had when c joined
          got       \* got[c]: what c received, in order

vars == <<log, room, from, got>>

Init == /\ log = [r \in Rooms |-> <<>>]
        /\ room = [c \in Clients |-> None]
        /\ from = [c \in Clients |-> 0]
        /\ got = [c \in Clients |-> <<>>]

Join(c, r) == /\ room[c] = None
              /\ room' = [room EXCEPT ![c] = r]
              /\ from' = [from EXCEPT ![c] = Len(log[r])]
              /\ UNCHANGED <<log, got>>

Publish(r, m) == /\ \A q \in Rooms : \A i \in DOMAIN log[q] : log[q][i] # m
                 /\ log' = [log EXCEPT ![r] = Append(@, m)]
                 /\ UNCHANGED <<room, from, got>>

\* The next message of c's room that c has not received yet.
Deliver(c) == /\ room[c] # None
              /\ from[c] + Len(got[c]) < Len(log[room[c]])
              /\ got' = [got EXCEPT ![c] =
                           Append(@, log[room[c]][from[c] + Len(@) + 1])]
              /\ UNCHANGED <<log, room, from>>

Next == \/ \E c \in Clients, r \in Rooms : Join(c, r)
        \/ \E r \in Rooms, m \in Msgs : Publish(r, m)
        \/ \E c \in Clients : Deliver(c)

Spec == Init /\ [][Next]_vars
=============================================================================
