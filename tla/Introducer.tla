----------------------------- MODULE Introducer -----------------------------
(***************************************************************************)
(* How introducers decide which of them serves the clients: runIntroducer  *)
(* of introducer.go over a websocket connection of api/ws.go.  Every       *)
(* introducer starts active, announces its level, asks the others for      *)
(* theirs, and steps back when it hears a higher one.  It comes back when  *)
(* nothing was heard for thirty seconds, and after a reconnect.            *)
(*                                                                         *)
(* A message goes through Out, the writer of the sender's socket, the      *)
(* broker, the receiver's socket and its In channel.  Both channels are    *)
(* bounded.  A broken connection loses what was on its way; a client the   *)
(* broker cuts off because its buffer of 256 is full is one of these.  The *)
(* writer of a broken socket runs on beside the new one until it notices,  *)
(* and takes messages off the same Out.                                    *)
(***************************************************************************)
EXTENDS Naturals, Sequences

CONSTANTS Introducers,
          LevelChoices, \* the assignments of the -l option to look at
          OutCap,       \* the capacity of the Out channel (10 in the code)
          InCap,        \* the capacity of the In channel (10 in the code)
          MaxDisturbances \* bound: crashes, disconnections, timeouts that overtake a
                          \* message, and requests of clients

ASSUME IntroducerAssumption == /\ LevelChoices \subseteq [Introducers -> Nat]
                               /\ OutCap \in Nat \ {0}
                               /\ InCap \in Nat \ {0}
                               /\ MaxDisturbances \in Nat

Types == {"IntroducerPresent", "IntroducerRollCall", "Reconnected", "Request",
          "Answer"}
Messages == [type : Types, level : Nat]

Present(l) == [type |-> "IntroducerPresent", level |-> l]
Plain(t) == [type |-> t, level |-> 0]
RollCall == Plain("IntroducerRollCall")
Reconnected == Plain("Reconnected")

VARIABLES
  level,   \* level[i]: the -l option of i, the same all the time
  alive,   \* alive[i]: the process of i runs
  active,  \* active[i]: the variable of its loop
  conn,    \* conn[i]: its connection is "down", "dialled" (the broker knows it, its
           \* goroutines do not run yet) or "up"
  old,     \* old[i]: how many writers of its earlier sockets still run
  out,     \* out[i]: its messages not yet taken, oldest first; what is beyond
           \* OutCap the loop is still waiting to put into Out
  inbox,   \* inbox[i]: the messages the broker sent it and its loop did not take yet;
           \* what is beyond InCap its reader is still waiting to put into In
  fresh,   \* fresh[i]: what came over a dialled connection nobody reads yet
  lost,    \* history: the types old writers of i took and lost although it had
           \* heard of its reconnect already
  disturbances \* how many there were

vars == <<level, alive, active, conn, old, out, inbox, fresh, lost, disturbances>>

Init ==
  /\ level \in LevelChoices
  /\ alive = [i \in Introducers |-> FALSE]
  /\ active = [i \in Introducers |-> FALSE]
  /\ conn = [i \in Introducers |-> "down"]
  /\ old = [i \in Introducers |-> 0]
  /\ out = [i \in Introducers |-> <<>>]
  /\ inbox = [i \in Introducers |-> <<>>]
  /\ fresh = [i \in Introducers |-> <<>>]
  /\ lost = [i \in Introducers |-> {}]
  /\ disturbances = 0
-----------------------------------------------------------------------------
(* runIntroducer *)

Disturb ==
  disturbances < MaxDisturbances /\ disturbances' = disturbances + 1

\* The loop sends ms, and does nothing else before Out had room for all of it.
Send(i, ms) ==
  out' = [out EXCEPT ![i] = @ \o ms]

Blocked(i) == Len(out[i]) > OutCap

\* The loop is blocked, no writer is left to make room, and the next one starts
\* only when In has room for the reconnect (ws.go:58), which the loop would make.
Stuck(i) ==
  /\ Blocked(i)
  /\ conn[i] # "up" /\ old[i] = 0
  /\ Len(inbox[i]) >= InCap

\* The process connects, then announces itself and calls the roll.
Start(i) ==
  /\ ~alive[i]
  /\ alive' = [alive EXCEPT ![i] = TRUE]
  /\ active' = [active EXCEPT ![i] = TRUE]
  /\ conn' = [conn EXCEPT ![i] = "up"]
  /\ Send(i, <<Present(level[i]), RollCall>>)
  /\ UNCHANGED <<level, old, inbox, fresh, lost, disturbances>>

\* Nothing is on its way to or from an introducer that is not stuck.
Quiet == \A j \in Introducers :
           \/ out[j] = <<>> /\ inbox[j] = <<>> /\ fresh[j] = <<>>
           \/ Stuck(j)

\* Bound: a message is under way for more than thirty seconds only as often as
\* disturbances may happen.
TimerMayFire == \/ Quiet /\ UNCHANGED disturbances
                \/ ~Quiet /\ Disturb

TimeoutWhenActive(i) ==
  /\ alive[i] /\ ~Blocked(i)
  /\ active[i]
  /\ TimerMayFire
  /\ active' = [active EXCEPT ![i] = TRUE]
  /\ Send(i, <<RollCall>>)
  /\ UNCHANGED <<level, alive, conn, old, inbox, fresh, lost>>

TimeoutSilent(i) ==
  /\ alive[i] /\ ~Blocked(i)
  /\ ~active[i]
  /\ TimerMayFire
  /\ active' = [active EXCEPT ![i] = TRUE]
  /\ UNCHANGED <<level, alive, conn, old, out, inbox, fresh, lost>>

\* Thirty seconds without a message (the timer is set anew by each one).
Timeout(i) ==
  /\ alive[i] /\ ~Blocked(i)
  /\ ~active[i]
  /\ TimerMayFire
  /\ active' = [active EXCEPT ![i] = TRUE]
  /\ Send(i, <<RollCall>>)
  /\ UNCHANGED <<level, alive, conn, old, inbox, fresh, lost>>

\* The loop takes the oldest message of In, of type t.
Take(i, t) ==
  /\ alive[i] /\ ~Blocked(i)
  /\ inbox[i] # <<>>
  /\ Head(inbox[i]).type = t
  /\ inbox' = [inbox EXCEPT ![i] = Tail(@)]
  /\ UNCHANGED <<level, alive, conn, old, fresh, lost, disturbances>>

EqualDeactivates(i) ==
  /\ Take(i, "IntroducerPresent")
  /\ active' = [active EXCEPT ![i] = @ /\ Head(inbox[i]).level < level[i]]
  /\ UNCHANGED out

HandlePresent(i) ==
  /\ Take(i, "IntroducerPresent")
  /\ active' = [active EXCEPT ![i] = @ /\ Head(inbox[i]).level <= level[i]]
  /\ UNCHANGED out

\* An inactive introducer answers the roll call as well.
HandleRollCall(i) ==
  /\ Take(i, "IntroducerRollCall")
  /\ Send(i, <<Present(level[i])>>)
  /\ UNCHANGED active

ReconnectedQuietly(i) ==
  /\ Take(i, "Reconnected")
  /\ active' = [active EXCEPT ![i] = TRUE]
  /\ UNCHANGED out

HandleReconnected(i) ==
  /\ Take(i, "Reconnected")
  /\ active' = [active EXCEPT ![i] = TRUE]
  /\ Send(i, <<Present(level[i]), RollCall>>)

\* The active introducer serves a client and answers, unless the request has
\* no answer or fails.  The others skip it, and every introducer skips answers.
HandleRequest(i) ==
  /\ \/ /\ Take(i, "Request")
        /\ \/ active[i] /\ Send(i, <<Plain("Answer")>>)
           \/ UNCHANGED out
     \/ Take(i, "Answer") /\ UNCHANGED out
  /\ UNCHANGED active

Handle(i) ==
  HandlePresent(i) \/ HandleRollCall(i) \/ HandleReconnected(i) \/ HandleRequest(i)
-----------------------------------------------------------------------------
(* The connection and the broker *)

BroadcastToAll(S, m) ==
  /\ inbox' = [j \in Introducers |-> IF j \in S THEN Append(inbox[j], m) ELSE inbox[j]]
  /\ UNCHANGED fresh

\* m goes to the introducers of S whose connection the broker knows.
Broadcast(S, m) ==
  /\ inbox' = [j \in Introducers |->
                 IF j \in S /\ conn[j] = "up" THEN Append(inbox[j], m) ELSE inbox[j]]
  /\ fresh' = [j \in Introducers |->
                 IF j \in S /\ conn[j] = "dialled" THEN Append(fresh[j], m) ELSE fresh[j]]

\* A writer takes a message off Out and the broker fans it out: the writer of the
\* working socket, or one of an earlier socket that the reader gave up at its own
\* deadline (ws.go:91) although it still carries what is written.
Publish(i) ==
  /\ conn[i] = "up" \/ old[i] > 0
  /\ out[i] # <<>>
  /\ out' = [out EXCEPT ![i] = Tail(@)]
  /\ Broadcast(Introducers \ {i}, Head(out[i]))
  /\ UNCHANGED <<level, alive, active, conn, old, lost, disturbances>>

\* The socket breaks, or its reader waits for too long; what was on its way to the
\* reader may be lost, a Reconnected is in In already.  The writer of the socket is
\* an old one from here on.
Disconnect(i) ==
  /\ Disturb
  /\ conn[i] = "up"
  /\ conn' = [conn EXCEPT ![i] = "down"]
  /\ old' = [old EXCEPT ![i] = @ + 1]
  /\ \E n \in 0..Len(inbox[i]) :
       /\ \A k \in (n + 1)..Len(inbox[i]) : inbox[i][k] # Reconnected
       /\ inbox' = [inbox EXCEPT ![i] = SubSeq(@, 1, n)]
  /\ lost' = [lost EXCEPT ![i] = {}]
  /\ UNCHANGED <<level, alive, active, out, fresh>>

\* An old writer takes a message, fails to write it, and ends.
LoseOut(i) ==
  /\ old[i] > 0
  /\ out[i] # <<>>
  /\ out' = [out EXCEPT ![i] = Tail(@)]
  /\ old' = [old EXCEPT ![i] = @ - 1]
  /\ lost' = IF conn[i] = "up" /\ \A n \in 1..Len(inbox[i]) : inbox[i][n] # Reconnected
               THEN [lost EXCEPT ![i] = @ \cup {Head(out[i]).type}]
               ELSE lost
  /\ UNCHANGED <<level, alive, active, conn, inbox, fresh, disturbances>>

\* An old writer notices that its reader has ended.
OldWriterEnds(i) ==
  /\ old[i] > 0
  /\ old' = [old EXCEPT ![i] = @ - 1]
  /\ UNCHANGED <<level, alive, active, conn, out, inbox, fresh, lost, disturbances>>

\* The reader has handed over what it still had and ended; a new socket is dialled.
Dial(i) ==
  /\ alive[i] /\ conn[i] = "down"
  /\ Len(inbox[i]) <= InCap
  /\ conn' = [conn EXCEPT ![i] = "dialled"]
  /\ UNCHANGED <<level, alive, active, old, out, inbox, fresh, lost, disturbances>>

\* The loop is told, once In has room, before the new goroutines start.
Reconnect(i) ==
  /\ conn[i] = "dialled"
  /\ Len(inbox[i]) < InCap
  /\ conn' = [conn EXCEPT ![i] = "up"]
  /\ inbox' = [inbox EXCEPT ![i] = Append(@, Reconnected) \o fresh[i]]
  /\ fresh' = [fresh EXCEPT ![i] = <<>>]
  /\ UNCHANGED <<level, alive, active, old, out, lost, disturbances>>

\* The process ends and takes its channels with it.
Crash(i) ==
  /\ Disturb
  /\ alive[i]
  /\ alive' = [alive EXCEPT ![i] = FALSE]
  /\ active' = [active EXCEPT ![i] = FALSE]
  /\ conn' = [conn EXCEPT ![i] = "down"]
  /\ old' = [old EXCEPT ![i] = 0]
  /\ out' = [out EXCEPT ![i] = <<>>]
  /\ inbox' = [inbox EXCEPT ![i] = <<>>]
  /\ fresh' = [fresh EXCEPT ![i] = <<>>]
  /\ lost' = [lost EXCEPT ![i] = {}]
  /\ UNCHANGED level

\* A client publishes a request.
ClientRequest ==
  /\ Disturb
  /\ Broadcast(Introducers, Plain("Request"))
  /\ UNCHANGED <<level, alive, active, conn, old, out, lost>>
-----------------------------------------------------------------------------
Next ==
  \/ \E i \in Introducers : Start(i)
  \/ \E i \in Introducers : Timeout(i)
  \/ \E i \in Introducers : HandlePresent(i)
  \/ \E i \in Introducers : HandleRollCall(i)
  \/ \E i \in Introducers : HandleReconnected(i)
  \/ \E i \in Introducers : HandleRequest(i)
  \/ \E i \in Introducers : Publish(i)
  \/ \E i \in Introducers : Disconnect(i)
  \/ \E i \in Introducers : LoseOut(i)
  \/ \E i \in Introducers : OldWriterEnds(i)
  \/ \E i \in Introducers : Dial(i)
  \/ \E i \in Introducers : Reconnect(i)
  \/ \E i \in Introducers : Crash(i)
  \/ ClientRequest

Spec == Init /\ [][Next]_vars

(***************************************************************************)
(* The loop and the goroutines of the connection are scheduled, an old     *)
(* writer's select sees in the end that its reader has ended, a broken     *)
(* connection is dialled again until it works, and the timer fires when    *)
(* nothing comes in.  Processes start when somebody starts them, and       *)
(* clients owe nothing.                                                    *)
(***************************************************************************)
Fairness ==
  \A i \in Introducers :
    /\ WF_vars(Quiet /\ Timeout(i))
    /\ WF_vars(Handle(i))
    /\ WF_vars(conn[i] = "up" /\ Publish(i))
    /\ WF_vars(OldWriterEnds(i))
    /\ WF_vars(Dial(i) \/ Reconnect(i))

FairSpec == Spec /\ Fairness
-----------------------------------------------------------------------------
(* Properties *)

\* Every variable has its type, a process that does not run holds nothing, and
\* only a dialled connection holds messages that nobody reads.
TypeOK ==
  /\ level \in [Introducers -> Nat]
  /\ alive \in [Introducers -> BOOLEAN]
  /\ active \in [Introducers -> BOOLEAN]
  /\ conn \in [Introducers -> {"down", "dialled", "up"}]
  /\ old \in [Introducers -> Nat]
  /\ out \in [Introducers -> Seq(Messages)]
  /\ inbox \in [Introducers -> Seq(Messages)]
  /\ fresh \in [Introducers -> Seq(Messages)]
  /\ lost \in [Introducers -> SUBSET Types]
  /\ disturbances \in Nat
  /\ \A i \in Introducers :
       /\ conn[i] # "dialled" => fresh[i] = <<>>
       /\ ~alive[i] => /\ ~active[i] /\ conn[i] = "down" /\ old[i] = 0
                       /\ out[i] = <<>> /\ inbox[i] = <<>>

Higher(j, i) == level[j] > level[i]

\* An old writer lost the roll call of i or the announcement of j that would have
\* told i of j, and nothing makes them say it again (ws.go:129-148).
Unheard(i, j) ==
  \/ "IntroducerRollCall" \in lost[i]
  \/ "IntroducerPresent" \in lost[j]

\* Nothing is on its way and every process that runs is connected.
Settled ==
  \A i \in Introducers :
    alive[i] => conn[i] = "up" /\ out[i] = <<>> /\ inbox[i] = <<>>

\* Once everything sent has been received, an active introducer has the
\* highest level of those that run ("Priority level, compared to other
\* introducers", introducer.go:21; 105-134), whatever crashed, reconnected or
\* was lost with a connection before: no request is served twice for good.
\* The one way out is a roll call or an announcement that the writer of an
\* earlier socket took after the reconnect was heard of, and lost.
OnlyHighestActive ==
  Settled => \A i, j \in Introducers :
               alive[i] /\ active[i] /\ alive[j] /\ Higher(j, i) => Unheard(i, j)

\* An introducer that no other one outranks is active as long as it runs, and
\* introducers of one level do not talk each other out of it
\* (introducer.go:121-126).
HighestStaysActive ==
  \A i \in Introducers :
    alive[i] /\ (\A j \in Introducers : ~Higher(j, i)) => active[i]

\* An introducer steps back, again and again if need be, while a higher one
\* runs (introducer.go:105-134), unless what would tell it was lost by the writer
\* of an earlier socket or one of the two waits for ever between a full Out
\* and a full In (ws.go:58).
LowerStepsBack ==
  \A i \in Introducers : \A j \in Introducers \ {i} :
    Higher(j, i) /\ active[i] /\ alive[j]
      ~> ~active[i] \/ ~alive[j] \/ Unheard(i, j) \/ Stuck(i) \/ Stuck(j)

\* An introducer that stepped back takes over when no higher one runs any more
\* (introducer.go:112-118), unless it waits for ever between its channels.
TakesOver ==
  \A i \in Introducers :
    alive[i] ~> \/ active[i] \/ ~alive[i] \/ Stuck(i)
                \/ \E j \in Introducers : alive[j] /\ Higher(j, i)
=============================================================================
