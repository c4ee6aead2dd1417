------------------------------ MODULE AmqpSend ------------------------------
(***************************************************************************)
(* How an AMQP connection starts and how its sending half publishes:       *)
(* connectAMQP, sendToAMQP and setupSend of api/amqp.go, with a command    *)
(* that sends and then reads for a while, or never reads, as stream does.  *)
(* The listening half is AmqpListen; here it only fills In.                *)
(*                                                                         *)
(* Messages are numbered in the order they are sent, so conn.Out holds     *)
(* taken+1..sent, and In is a number of entries.  A body is a pair of a    *)
(* message and one of the connection's keys.  The server is external: what *)
(* is published on a broken connection is lost, whether or not the library *)
(* has noticed by then and returns an error.                               *)
(***************************************************************************)
EXTENDS Naturals, Sequences

CONSTANTS InCap, OutCap, \* the capacities of conn.In and conn.Out (10)
          Bodies,        \* bodies of a message, one for each key
          Unfit,         \* messages that cannot be marshalled
          Awaited,       \* messages whose sender waits for Done, as copyKey does
          MaxSends,      \* bound: messages the command sends
          MaxHeard,      \* bound: what the listening half puts into In
          MaxBreaks      \* bound: broken connections

Messages == 1..MaxSends

ASSUME SendAssumption ==
  /\ {InCap, OutCap, Bodies} \subseteq Nat \ {0}
  /\ {MaxSends, MaxHeard, MaxBreaks} \subseteq Nat
  /\ Unfit \cup Awaited \subseteq Messages /\ Unfit \cap Awaited = {}

Halves == {"listen", "send"}

VARIABLES
  app,     \* the command: "connecting", "refused", "away", "reading" In, "awaiting" Done
  reads,   \* it reads In between its messages
  half,    \* half[h]: "setup", then "ok" or "failed" until done took it
  pc,      \* where sendToAMQP stands in its loop
  link,    \* the connection it publishes on works
  sent,    \* how many messages the command put into Out
  taken,   \* how many of them sendToAMQP took
  at,      \* the body of the message it is at
  in,      \* how many entries In has
  log,     \* the bodies the server got, in order
  lost,    \* the bodies that were published and did not get there
  heard, breaks

inVars == <<in, heard>>
logVars == <<log, lost>>
vars == <<app, reads, half, pc, link, sent, taken, at, in, log, lost, heard, breaks>>

Init ==
  /\ app = "connecting" /\ reads \in BOOLEAN
  /\ half = [h \in Halves |-> "setup"]
  /\ pc = "idle" /\ link = FALSE
  /\ sent = 0 /\ taken = 0 /\ at = 0
  /\ in = 0 /\ heard = 0 /\ breaks = 0
  /\ log = <<>> /\ lost = {}
-----------------------------------------------------------------------------
(* connectAMQP *)

SetUp(h) ==
  /\ half[h] = "setup"
  /\ \E result \in {"ok", "failed"} :
       /\ half' = [half EXCEPT ![h] = result]
       /\ link' = IF h = "send" THEN result = "ok" ELSE link
  /\ UNCHANGED <<app, reads, pc, sent, taken, at, inVars, logVars, breaks>>

\* done has no buffer: a half that reports after the other one failed waits for
\* ever, and one that reported before runs on behind a command that gave up.
ReportTakesFirst(h) ==
  /\ app = "connecting"
  /\ half[h] \in {"ok", "failed"}
  /\ half' = [half EXCEPT ![h] = IF @ = "ok" THEN "running" ELSE "ended"]
  /\ app' = IF half[h] = "failed" THEN "refused" ELSE "away"
  /\ UNCHANGED <<reads, pc, link, sent, taken, at, inVars, logVars, breaks>>

Report(h) ==
  /\ app = "connecting"
  /\ half[h] \in {"ok", "failed"}
  /\ half' = [half EXCEPT ![h] = IF @ = "ok" THEN "running" ELSE "ended"]
  /\ app' = IF half[h] = "failed" THEN "refused"
            ELSE IF \A g \in Halves : half'[g] = "running" THEN "away" ELSE app
  /\ UNCHANGED <<reads, pc, link, sent, taken, at, inVars, logVars, breaks>>
-----------------------------------------------------------------------------
(* The command and the listening half *)

\* conn.Out <- message blocks while the channel is full.
Send ==
  /\ app = "away"
  /\ sent < MaxSends /\ sent - taken < OutCap
  /\ sent' = sent + 1
  /\ app' = IF sent' \in Awaited THEN "awaiting" ELSE IF reads THEN "reading" ELSE "away"
  /\ UNCHANGED <<reads, half, pc, link, taken, at, inVars, logVars, breaks>>

Take ==
  /\ app = "reading"
  /\ in > 0
  /\ in' = in - 1
  /\ UNCHANGED <<app, reads, half, pc, link, sent, taken, at, heard, logVars, breaks>>

\* An answer or a timeout.
Leave ==
  /\ app = "reading"
  /\ sent < MaxSends
  /\ app' = "away"
  /\ UNCHANGED <<reads, half, pc, link, sent, taken, at, inVars, logVars, breaks>>

Hear ==
  /\ half["listen"] = "running"
  /\ heard < MaxHeard /\ in < InCap
  /\ heard' = heard + 1 /\ in' = in + 1
  /\ UNCHANGED <<app, reads, half, pc, link, sent, taken, at, logVars, breaks>>
-----------------------------------------------------------------------------
(* sendToAMQP *)

senderRest == <<reads, half, sent, heard, breaks>>

\* A message that cannot be prepared is dropped with a warning.
TakeMessage ==
  /\ half["send"] = "running" /\ pc = "idle"
  /\ taken < sent
  /\ taken' = taken + 1
  /\ IF taken' \in Unfit THEN UNCHANGED <<pc, at>> ELSE pc' = "publish" /\ at' = 1
  /\ UNCHANGED <<senderRest, app, link, in, logVars>>

\* After the last body Done is signalled.
NextBodyForgetsDone ==
  IF at < Bodies THEN at' = at + 1 /\ pc' = "publish" /\ UNCHANGED app
  ELSE at' = 0 /\ pc' = "idle" /\ UNCHANGED app

NextBody ==
  IF at < Bodies THEN at' = at + 1 /\ pc' = "publish" /\ UNCHANGED app
  ELSE /\ at' = 0 /\ pc' = "idle"
       /\ app' = IF taken \in Awaited THEN IF reads THEN "reading" ELSE "away" ELSE app

\* ch.Publish returns no error, or it is the one after a reconnect, whose error is
\* not looked at.
Publish ==
  /\ pc \in {"publish", "again"}
  /\ IF link THEN log' = Append(log, <<taken, at>>) /\ UNCHANGED lost
     ELSE lost' = lost \cup {<<taken, at>>} /\ UNCHANGED log
  /\ NextBody
  /\ UNCHANGED <<senderRest, link, taken, in>>

PublishFails ==
  /\ pc = "publish"
  /\ ~link
  /\ pc' = "redial"
  /\ UNCHANGED <<senderRest, app, link, taken, at, in, logVars>>

RedialOnce ==
  /\ pc = "redial"
  /\ link' \in BOOLEAN
  /\ IF link' THEN pc' = "tell" /\ UNCHANGED half
     ELSE pc' = "idle" /\ half' = [half EXCEPT !["send"] = "ended"]
  /\ UNCHANGED <<reads, sent, heard, breaks, app, taken, at, in, logVars>>

\* setupSendForever has got a connection.
Redial ==
  /\ pc = "redial"
  /\ link' = TRUE
  /\ pc' = "tell"
  /\ UNCHANGED <<senderRest, app, taken, at, in, logVars>>

TellRestarts ==
  /\ pc = "tell"
  /\ in < InCap
  /\ in' = in + 1
  /\ pc' = "again"
  /\ at' = 1
  /\ UNCHANGED <<senderRest, app, link, taken, logVars>>

\* conn.In <- Reconnected blocks while the channel is full.
Tell ==
  /\ pc = "tell"
  /\ in < InCap
  /\ in' = in + 1
  /\ pc' = "again"
  /\ UNCHANGED <<senderRest, app, link, taken, at, logVars>>

Break ==
  /\ link
  /\ breaks < MaxBreaks
  /\ breaks' = breaks + 1
  /\ link' = FALSE
  /\ UNCHANGED <<app, reads, half, pc, sent, taken, at, inVars, logVars>>
-----------------------------------------------------------------------------
Command == Send \/ Take \/ Leave
Sender == TakeMessage \/ Publish \/ PublishFails \/ Redial \/ Tell

Next ==
  \/ \E h \in Halves : SetUp(h) \/ Report(h)
  \/ Command \/ Hear
  \/ Sender
  \/ Break

Spec == Init /\ [][Next]_vars

(***************************************************************************)
(* Setups end, goroutines are scheduled, reconnecting works in the end,    *)
(* and a command that reads neither reads nor stays away for ever.         *)
(***************************************************************************)
Fairness ==
  /\ \A h \in Halves : WF_vars(SetUp(h) \/ Report(h))
  /\ WF_vars(Send) /\ WF_vars(Take) /\ WF_vars(Leave)
  /\ SF_vars(Tell) /\ WF_vars(Sender)

FairSpec == Spec /\ Fairness
-----------------------------------------------------------------------------
(* Properties *)

Steps == {"idle", "publish", "redial", "tell", "again"}
AllBodies == Messages \X (1..Bodies)
Got(body) == \E n \in DOMAIN log : log[n] = body
Before(b, c) == b[1] < c[1] \/ (b[1] = c[1] /\ b[2] < c[2])

\* Every variable has its type, the channels hold what they have room for, and
\* nobody sends or publishes before connectAMQP has heard of both halves
\* (api/amqp.go:31-50).
TypeOK ==
  /\ app \in {"connecting", "refused", "away", "reading", "awaiting"}
  /\ reads \in BOOLEAN /\ link \in BOOLEAN
  /\ half \in [Halves -> {"setup", "ok", "failed", "running", "ended"}]
  /\ pc \in Steps
  /\ sent \in 0..MaxSends /\ taken \in 0..sent /\ sent - taken <= OutCap
  /\ at \in 0..Bodies /\ (at = 0 <=> pc = "idle")
  /\ in \in 0..InCap /\ heard \in 0..MaxHeard /\ breaks \in 0..MaxBreaks
  /\ log \in Seq(AllBodies) /\ lost \subseteq AllBodies
  /\ sent > 0 => \A h \in Halves : half[h] = "running"

\* What the server gets is in the order the command sent it and no body comes
\* twice, though one is published again after a reconnect; and none is passed
\* over: before the body at hand each one of a message that could be prepared
\* was published once, successfully or into a broken connection
\* (api/amqp.go:65-112).
BodiesInOrder ==
  /\ \A m, n \in DOMAIN log : m < n => Before(log[m], log[n])
  /\ \A body \in AllBodies :
       /\ ~(Got(body) /\ body \in lost)
       /\ Got(body) \/ body \in lost
          <=> /\ body[1] \notin Unfit
              /\ Before(body, <<taken, at>>) \/ (body[1] = taken /\ at = 0)

\* The sender waits for room in an In that the command does not read: it never
\* does, it waits for Done, or it waits in turn for room in a full Out.
HeldUp ==
  /\ pc = "tell" /\ in = InCap
  /\ ~reads \/ app = "awaiting" \/ (app = "away" /\ sent - taken = OutCap)

\* The sender comes to the end of every message, whatever connections break,
\* unless it is held up for good: the one way to a deadlock is that Reconnected
\* has to go through a full In (api/amqp.go:65-112, 187-199).
EveryMessageSettles ==
  \A m \in Messages :
    sent >= m ~> \/ taken > m
                 \/ taken = m /\ pc = "idle"
                 \/ []HeldUp

\* Who waits for Done hears it, when every body of the message was published or
\* lost with a connection, or waits with the sender for room in an In that it
\* does not read meanwhile (api/amqp.go:90-99, 114-117; api/pmb.go:205-211).
AwaitedReturns ==
  app = "awaiting"
    ~> \/ /\ app # "awaiting"
          /\ \A n \in 1..Bodies : Got(<<taken, n>>) \/ <<taken, n>> \in lost
       \/ []HeldUp
=============================================================================
