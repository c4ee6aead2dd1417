---------------------------- MODULE WsTransport ----------------------------
(***************************************************************************)
(* A websocket connection of api/ws.go seen from the command that uses it. *)
(* openWS keeps one socket after the other; each socket has a goroutine    *)
(* that reads it into conn.In and one that writes it from conn.Out, and    *)
(* nothing waits for the writer of the socket before.  The command sends   *)
(* and then reads for a while, as SendNotification does; or it never reads *)
(* conn.In, as runStream does; or it sends one message and waits for Done, *)
(* as copyKey does.                                                        *)
(*                                                                         *)
(* Messages are numbered in the order they are sent; what others send is   *)
(* not told apart.  A message is written as several bodies, one for each   *)
(* key.  Writing to a broken socket may succeed for a while, and a socket  *)
(* whose reader gave up may still carry what its writer writes.            *)
(***************************************************************************)
EXTENDS Naturals, Sequences, FiniteSets

CONSTANTS InCap,      \* the capacity of conn.In (10)
          OutCap,     \* the capacity of conn.Out (10)
          Bodies,     \* how many keys the connection has
          Unfit,      \* the messages JSON cannot hold (a level that is no number)
          MaxSends,   \* bound: messages the command sends, at least one
          MaxHeard,   \* bound: messages of others
          MaxBreaks   \* bound: sockets that break or that the reader gives up

ASSUME WsAssumption == /\ {InCap, OutCap, Bodies, MaxSends} \subseteq Nat \ {0}
                       /\ {MaxHeard, MaxBreaks} \subseteq Nat
                       /\ Unfit \subseteq Nat

Sockets == 1..(MaxBreaks + 1)

VARIABLES
  kind,      \* the command "asks", "streams" or "copies" the key
  app,       \* the command: "reading" conn.In, "awaiting" Done, or "away"
  sent,      \* how many messages it put into conn.Out
  out,       \* conn.Out
  in,        \* conn.In
  main,      \* openWS: "waiting" for done, "dialling", "telling" of the reconnect
  sock,      \* the socket it opened last
  link,      \* link[s]: the socket works
  reader,    \* reader[s]: the goroutine that reads s
  writer,    \* writer[s]: the goroutine that writes s
  holds,     \* holds[s]: the message the writer of s took, or 0
  body,      \* body[s]: the body of it that is to be written next
  heard,     \* how many messages of others were read
  published, \* the bodies the broker got, in order, each with the socket it came by
  lost       \* the messages that were taken and did not all get there

socketVars == <<main, sock, link, reader, writer, holds, body>>
resultVars == <<published, lost>>
vars == <<kind, app, sent, out, in, main, sock, link, reader, writer, holds, body, heard,
          published, lost>>

Init ==
  /\ kind \in {"asks", "streams", "copies"}
  /\ app = "away"
  /\ sent = 0
  /\ out = <<>> /\ in = <<>>
  /\ main = "waiting" /\ sock = 1
  /\ link = [s \in Sockets |-> s = 1]
  /\ reader = [s \in Sockets |-> IF s = 1 THEN "reading" ELSE "none"]
  /\ writer = [s \in Sockets |-> IF s = 1 THEN "idle" ELSE "none"]
  /\ holds = [s \in Sockets |-> 0]
  /\ body = [s \in Sockets |-> 1]
  /\ heard = 0
  /\ published = <<>> /\ lost = {}
-----------------------------------------------------------------------------
(* The command *)

\* conn.Out <- message blocks while the channel is full.
Send ==
  /\ app = "away"
  /\ sent < IF kind = "copies" THEN 1 ELSE MaxSends
  /\ Len(out) < OutCap
  /\ sent' = sent + 1
  /\ out' = Append(out, sent')
  /\ app' = CASE kind = "asks" -> "reading"
              [] kind = "streams" -> "away"
              [] kind = "copies" -> "awaiting"
  /\ UNCHANGED <<kind, in, socketVars, heard, resultVars>>

Take ==
  /\ app = "reading"
  /\ in # <<>>
  /\ in' = Tail(in)
  /\ UNCHANGED <<kind, app, sent, out, socketVars, heard, resultVars>>

\* An answer or a timeout: the command goes about its business, and after its
\* last message it ends.
Leave ==
  /\ app = "reading"
  /\ sent < MaxSends
  /\ app' = "away"
  /\ UNCHANGED <<kind, sent, out, in, socketVars, heard, resultVars>>
-----------------------------------------------------------------------------
(* The reader of a socket *)

\* ReadMessage returns a message of somebody else, which parseMessage puts into
\* conn.In; nothing is read before there was room.
Hear(s) ==
  /\ reader[s] = "reading"
  /\ link[s]
  /\ heard < MaxHeard
  /\ heard' = heard + 1
  /\ reader' = [reader EXCEPT ![s] = "parsing"]
  /\ UNCHANGED <<kind, app, sent, out, in, main, sock, link, writer, holds, body, resultVars>>

HandOverFull(s) ==
  /\ reader[s] = "parsing"
  /\ in' = Append(in, "message")
  /\ reader' = [reader EXCEPT ![s] = "reading"]
  /\ UNCHANGED <<kind, app, sent, out, main, sock, link, writer, holds, body, heard, resultVars>>

HandOver(s) ==
  /\ reader[s] = "parsing"
  /\ Len(in) < InCap
  /\ in' = Append(in, "message")
  /\ reader' = [reader EXCEPT ![s] = "reading"]
  /\ UNCHANGED <<kind, app, sent, out, main, sock, link, writer, holds, body, heard, resultVars>>

ReadFailsQuietly(s) ==
  /\ reader[s] = "reading"
  /\ ~link[s]
  /\ UNCHANGED vars

\* ReadMessage fails on a broken socket: the reader ends and closes done.
ReadFails(s) ==
  /\ reader[s] = "reading"
  /\ ~link[s]
  /\ reader' = [reader EXCEPT ![s] = "ended"]
  /\ UNCHANGED <<kind, app, sent, out, in, main, sock, link, writer, holds, body, heard, resultVars>>

\* Nothing and no pong came before the read deadline.  The reader ends the same way,
\* and the socket may still work.
ReadExpires(s) ==
  /\ reader[s] = "reading"
  /\ s <= MaxBreaks
  /\ link[s]
  /\ reader' = [reader EXCEPT ![s] = "expired"]
  /\ UNCHANGED <<kind, app, sent, out, in, main, sock, link, writer, holds, body, heard, resultVars>>
-----------------------------------------------------------------------------
(* The writer of a socket *)

\* Also when done is closed: select picks one of the cases that are ready.
WriterTakes(s) ==
  /\ writer[s] = "idle"
  /\ out # <<>> /\ Head(out) \notin Unfit
  /\ holds' = [holds EXCEPT ![s] = Head(out)]
  /\ body' = [body EXCEPT ![s] = 1]
  /\ out' = Tail(out)
  /\ writer' = [writer EXCEPT ![s] = "writing"]
  /\ UNCHANGED <<kind, app, sent, in, main, sock, link, reader, heard, resultVars>>

\* prepareMessage fails: the message is dropped and its Done is never signalled.
WriterDrops(s) ==
  /\ writer[s] = "idle"
  /\ out # <<>> /\ Head(out) \in Unfit
  /\ out' = Tail(out)
  /\ UNCHANGED <<kind, app, sent, in, socketVars, heard, resultVars>>

\* WriteMessage returns no error; on a broken socket the body is lost.
WriteBody(s) ==
  IF link[s]
  THEN /\ published' = Append(published, [msg |-> holds[s], body |-> body[s], via |-> s])
       /\ UNCHANGED lost
  ELSE /\ lost' = lost \cup {holds[s]}
       /\ UNCHANGED published

Write(s) ==
  /\ writer[s] = "writing"
  /\ body[s] < Bodies
  /\ WriteBody(s)
  /\ body' = [body EXCEPT ![s] = @ + 1]
  /\ UNCHANGED <<kind, app, sent, out, in, main, sock, link, reader, writer, holds, heard>>

\* After the last body Done is signalled.
WriteLast(s) ==
  /\ writer[s] = "writing"
  /\ body[s] = Bodies
  /\ WriteBody(s)
  /\ writer' = [writer EXCEPT ![s] = "idle"]
  /\ holds' = [holds EXCEPT ![s] = 0]
  /\ app' = IF app = "awaiting" THEN "away" ELSE app
  /\ UNCHANGED <<kind, sent, out, in, main, sock, link, reader, body, heard>>

\* The deferred function of the writer closes the socket.
WriterEnds(s) ==
  /\ writer' = [writer EXCEPT ![s] = "ended"]
  /\ holds' = [holds EXCEPT ![s] = 0]
  /\ link' = [link EXCEPT ![s] = FALSE]
  /\ UNCHANGED <<kind, app, sent, in, main, sock, reader, body, heard, published>>

WriteRetries(s) ==
  /\ writer[s] = "writing"
  /\ ~link[s]
  /\ out' = Append(out, holds[s])
  /\ UNCHANGED lost
  /\ WriterEnds(s)

\* A write fails, the first or one between two bodies: the message is not taken up
\* again.
WriteFails(s) ==
  /\ writer[s] = "writing"
  /\ ~link[s]
  /\ lost' = lost \cup {holds[s]}
  /\ UNCHANGED out
  /\ WriterEnds(s)

\* Done is closed, or a ping fails.
WriterGivesUp(s) ==
  /\ writer[s] = "idle"
  /\ reader[s] \in {"ended", "expired"} \/ ~link[s]
  /\ UNCHANGED <<out, lost>>
  /\ WriterEnds(s)
-----------------------------------------------------------------------------
(* openWS *)

\* processSocket returns once the reader has ended.
SeeDone ==
  /\ main = "waiting"
  /\ reader[sock] \in {"ended", "expired"}
  /\ main' = "dialling"
  /\ UNCHANGED <<kind, app, sent, out, in, sock, link, reader, writer, holds, body, heard, resultVars>>

\* connectSocketForever has got a socket.
Dial ==
  /\ main = "dialling"
  /\ main' = "telling"
  /\ sock' = sock + 1
  /\ link' = [link EXCEPT ![sock'] = TRUE]
  /\ UNCHANGED <<kind, app, sent, out, in, reader, writer, holds, body, heard, resultVars>>

\* The command is told before anybody reads or writes the new socket.
Tell ==
  /\ main = "telling"
  /\ Len(in) < InCap
  /\ in' = Append(in, "Reconnected")
  /\ main' = "waiting"
  /\ reader' = [reader EXCEPT ![sock] = "reading"]
  /\ writer' = [writer EXCEPT ![sock] = "idle"]
  /\ UNCHANGED <<kind, app, sent, out, sock, link, holds, body, heard, resultVars>>

\* A socket breaks; among the reasons is the broker's read deadline, when the
\* reader has not come to its pings for a minute.
Break(s) ==
  /\ s <= MaxBreaks
  /\ link[s]
  /\ link' = [link EXCEPT ![s] = FALSE]
  /\ UNCHANGED <<kind, app, sent, out, in, main, sock, reader, writer, holds, body, heard, resultVars>>
-----------------------------------------------------------------------------
Next ==
  \/ Send
  \/ Take
  \/ Leave
  \/ \E s \in Sockets : Hear(s)
  \/ \E s \in Sockets : HandOver(s)
  \/ \E s \in Sockets : ReadFails(s)
  \/ \E s \in Sockets : ReadExpires(s)
  \/ \E s \in Sockets : WriterTakes(s)
  \/ \E s \in Sockets : WriterDrops(s)
  \/ \E s \in Sockets : Write(s)
  \/ \E s \in Sockets : WriteLast(s)
  \/ \E s \in Sockets : WriteFails(s)
  \/ \E s \in Sockets : WriterGivesUp(s)
  \/ SeeDone
  \/ Dial
  \/ Tell
  \/ \E s \in Sockets : Break(s)

Spec == Init /\ [][Next]_vars

(***************************************************************************)
(* Goroutines are scheduled, a broken socket makes reads and pings fail in *)
(* the end, dialling works in the end, and a command goes on: it does not  *)
(* read for ever, nor stay away for ever.  Sockets need not break, and     *)
(* others owe nothing.                                                     *)
(***************************************************************************)
Fairness ==
  /\ WF_vars(Send) /\ WF_vars(Take) /\ WF_vars(Leave)
  /\ WF_vars(SeeDone \/ Dial \/ Tell)
  /\ \A s \in Sockets :
       /\ WF_vars(HandOver(s) \/ ReadFails(s))
       /\ WF_vars(Write(s) \/ WriteLast(s) \/ WriteFails(s) \/ WriterGivesUp(s))
       /\ SF_vars(WriterTakes(s) \/ WriterDrops(s))

FairSpec == Spec /\ Fairness
-----------------------------------------------------------------------------
(* Properties *)

Messages == 1..MaxSends
Records == [msg : Messages, body : 1..Bodies, via : Sockets]

\* The broker has every body of m.
Got(m) == \E n \in DOMAIN published : published[n].msg = m /\ published[n].body = Bodies

\* Every variable has its type, and the channels hold what they have room for.
TypeOK ==
  /\ kind \in {"asks", "streams", "copies"}
  /\ app \in {"reading", "away", "awaiting"}
  /\ sent \in 0..MaxSends
  /\ out \in Seq(Messages) /\ Len(out) <= OutCap
  /\ in \in Seq({"message", "Reconnected"}) /\ Len(in) <= InCap
  /\ main \in {"waiting", "dialling", "telling"}
  /\ sock \in Sockets
  /\ link \in [Sockets -> BOOLEAN]
  /\ reader \in [Sockets -> {"none", "reading", "parsing", "ended", "expired"}]
  /\ writer \in [Sockets -> {"none", "idle", "writing", "ended"}]
  /\ holds \in [Sockets -> Messages \cup {0}]
  /\ body \in [Sockets -> 1..Bodies]
  /\ heard \in 0..MaxHeard
  /\ published \in Seq(Records)
  /\ lost \subseteq Messages

\* Two writers were at work at a time: the reader of the older socket gave up at
\* its deadline although the socket still carried what was written (ws.go:89-112).
Overlapped(s, t) ==
  \/ s < t /\ reader[s] = "expired"
  \/ t < s /\ reader[t] = "expired"

\* e may come before f: it was sent before, or both came by sockets that were
\* written at a time.
MayPrecede(e, f) ==
  \/ e.msg < f.msg
  \/ e.msg = f.msg /\ e.body < f.body
  \/ e.msg # f.msg /\ Overlapped(e.via, f.via)

\* What the broker gets of a command is in the order the command sent it, the
\* bodies of a message in theirs, nothing comes twice and nothing comes whole that
\* counts as lost, though the writer of an old socket may still take messages beside
\* the new one (api/ws.go:49-65, 123-162).  Only messages that came by two sockets
\* may have changed places, and only if the older one outlived its reader.
OrderKept ==
  /\ \A m, n \in DOMAIN published : m < n => MayPrecede(published[m], published[n])
  /\ \A m \in lost : ~Got(m)

\* Nobody will ever take from conn.In: the command does not read it, or it waits for
\* room in conn.Out that no writer makes.
Unread ==
  \/ kind # "asks"
  \/ /\ app = "away" /\ Len(out) = OutCap
     /\ \A s \in Sockets : writer[s] \in {"none", "ended"}

\* Nobody will read the full conn.In, and with it the connection is lost for good.
Deaf ==
  /\ Unread /\ Len(in) = InCap
  /\ main # "waiting" \/ ~link[sock]

\* A connection whose socket broke or was given up is replaced and the command is
\* told, if it comes to read conn.In or there is room in it (api/ws.go:49-80, 99-112).
Reconnects ==
  \A s \in 1..MaxBreaks :
    sock = s /\ (~link[s] \/ reader[s] = "expired")
      ~> \/ sock > s /\ main = "waiting"
         \/ []Deaf

\* What a command sends leaves conn.Out: it is written to a socket, and who waits
\* for Done hears it, or it is lost with one that broke, or JSON cannot hold it;
\* full channels in both directions hold each other up for good only if the
\* connection breaks and conn.In is full while the command does not read it, as it
\* never does or because it waits for a full conn.Out itself
\* (api/ws.go:52-65, 99-162; stream.go:74-80; api/pmb.go:205-211).
EveryMessageLeaves ==
  \A m \in Messages :
    sent >= m ~> \/ Got(m) /\ app # "awaiting"
                 \/ m \in lost
                 \/ m \in Unfit /\ \A n \in DOMAIN out : out[n] # m
                 \/ []Deaf
=============================================================================
