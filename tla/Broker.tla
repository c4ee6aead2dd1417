------------------------------- MODULE Broker -------------------------------
(***************************************************************************)
(* The websocket broker of broker.go.  One manager goroutine keeps a       *)
(* broker per realm and retires the ones without clients on a ticker; each *)
(* broker runs one loop over three unbuffered channels (add, remove, send) *)
(* and fans messages out to the buffered channels of its clients; each     *)
(* client has a reader and a writer goroutine on its socket.               *)
(*                                                                         *)
(* A rendezvous on an unbuffered channel is one step: the sender is freed  *)
(* and the receiver holds the value.  What the receiver does with it is a  *)
(* later step, so that the ticker's unsynchronised read of len(clients)    *)
(* and write of done fall anywhere between the two.                        *)
(***************************************************************************)
EXTENDS Naturals, Sequences, FiniteSets

CONSTANTS Clients,    \* the websocket connections (a reconnect is a new one)
          Realms,     \* the URL paths
          MaxBrokers, \* bound: Broker objects the manager creates
          SendCap,    \* the capacity of Client.send (256 in the code)
          MaxMsgs,    \* bound: messages the peers send altogether
          None

Brokers == 1..MaxBrokers
Msgs == 1..MaxMsgs

ASSUME BrokerAssumption == /\ SendCap \in Nat \ {0}
                           /\ MaxMsgs \in Nat
                           /\ MaxBrokers \in Nat
                           /\ None \notin Clients \cup Brokers \cup Realms

VARIABLES
  brokers,  \* brokers[r]: the manager's map, a Broker or None
  mgr,      \* the client the manager is blocked on adding, or None
  checking, \* the realms the ticker has still to look at
  expired,  \* the realm whose broker it has seen without clients, or None
  loop,     \* loop[b]: where run() of b stands, "unborn" before newBroker
  who,      \* who[b]: the client run() received from add or remove
  what,     \* what[b]: the message run() received from send, or 0
  done,     \* done[b]: Broker.done
  members,  \* members[b]: the keys of Broker.clients
  realm,    \* realm[c]: Client.realm
  broker,   \* broker[c]: Client.broker
  reader,   \* reader[c]: where the HTTP handler, then processReads, stands
  carry,    \* carry[c]: the message the reader is blocked on sending, or 0
  writer,   \* writer[c]: where processWrites stands
  queue,    \* queue[c]: the buffer of Client.send
  closed,   \* closed[c]: Client.send is closed
  conn,     \* conn[c]: the socket; "broken" once the peer is gone
  sent,     \* how many messages the peers have sent
  got,      \* got[c]: what was written to a socket that still had its peer
  log,      \* history: log[b], the messages b fanned out
  from      \* history: from[c], the length of log when c became a member

managerVars == <<brokers, mgr, checking, expired>>
loopVars    == <<loop, who, what, done, members, log, from>>
socketVars  == <<realm, broker, reader, carry, writer, conn, sent, got>>
vars == <<brokers, mgr, checking, expired, loop, who, what, done, members, realm, broker, reader,
          carry, writer, queue, closed, conn, sent, got, log, from>>

Init ==
  /\ brokers = [r \in Realms |-> None]
  /\ mgr = None /\ checking = {} /\ expired = None
  /\ loop = [b \in Brokers |-> "unborn"]
  /\ who = [b \in Brokers |-> None]
  /\ what = [b \in Brokers |-> 0]
  /\ done = [b \in Brokers |-> FALSE]
  /\ members = [b \in Brokers |-> {}]
  /\ realm = [c \in Clients |-> None]
  /\ broker = [c \in Clients |-> None]
  /\ reader = [c \in Clients |-> "idle"]
  /\ carry = [c \in Clients |-> 0]
  /\ writer = [c \in Clients |-> "idle"]
  /\ queue = [c \in Clients |-> <<>>]
  /\ closed = [c \in Clients |-> FALSE]
  /\ conn = [c \in Clients |-> "none"]
  /\ sent = 0
  /\ got = [c \in Clients |-> <<>>]
  /\ log = [b \in Brokers |-> <<>>]
  /\ from = [c \in Clients |-> 0]
-----------------------------------------------------------------------------
(* The HTTP handler and the manager goroutine *)

\* A peer connects; the handler blocks on brokerReceiver <- client.
Upgrade(c, r) ==
  /\ reader[c] = "idle"
  /\ reader' = [reader EXCEPT ![c] = "offered"]
  /\ realm' = [realm EXCEPT ![c] = r]
  /\ conn' = [conn EXCEPT ![c] = "open"]
  /\ UNCHANGED <<managerVars, loopVars, queue, closed,
                 broker, carry, writer, sent, got>>

\* newBroker: the objects are numbered in the order they are made.
Fresh(b) == loop[b] = "unborn" /\ \A a \in 1..(b - 1) : loop[a] # "unborn"

\* The manager takes the client and looks its realm up, starting a broker when
\* the realm has none.
ManagerReceive(c) ==
  /\ mgr = None /\ checking = {}
  /\ reader[c] = "offered"
  /\ mgr' = c
  /\ reader' = [reader EXCEPT ![c] = "adding"]
  /\ \/ /\ brokers[realm[c]] # None
        /\ broker' = [broker EXCEPT ![c] = brokers[realm[c]]]
        /\ UNCHANGED <<brokers, loop>>
     \/ /\ brokers[realm[c]] = None
        /\ \E b \in Brokers :
             /\ Fresh(b)
             /\ loop' = [loop EXCEPT ![b] = "top"]
             /\ brokers' = [brokers EXCEPT ![realm[c]] = b]
             /\ broker' = [broker EXCEPT ![c] = b]
  /\ UNCHANGED <<checking, expired, who, what, done, members, log, from, queue, closed,
                 realm, carry, writer, conn, sent, got>>

\* The rendezvous on broker.add; the manager then starts the two goroutines.
ManagerAdd(c) ==
  /\ mgr = c
  /\ loop[broker[c]] = "select"
  /\ loop' = [loop EXCEPT ![broker[c]] = "add"]
  /\ who' = [who EXCEPT ![broker[c]] = c]
  /\ mgr' = None
  /\ reader' = [reader EXCEPT ![c] = "reading"]
  /\ writer' = [writer EXCEPT ![c] = "running"]
  /\ UNCHANGED <<brokers, checking, expired, what, done, members, log, from, queue, closed,
                 realm, broker, carry, conn, sent, got>>

\* Bound: the ticker looks at the brokers while a fresh Broker object is left for every
\* realm, so that MaxBrokers never blocks the manager.
SpareBrokers == Cardinality(Realms) <= Cardinality({b \in Brokers : loop[b] = "unborn"})

TickBegins ==
  /\ mgr = None /\ checking = {}
  /\ SpareBrokers
  /\ checking' = {r \in Realms : brokers[r] # None}
  /\ UNCHANGED <<brokers, mgr, expired, loopVars, queue, closed, socketVars>>

\* The ticker reads len(clients) of one broker after the other ...
TickSees(r) ==
  /\ r \in checking /\ expired = None
  /\ IF members[brokers[r]] = {}
     THEN expired' = r /\ UNCHANGED checking
     ELSE checking' = checking \ {r} /\ UNCHANGED expired
  /\ UNCHANGED <<brokers, mgr, loopVars, queue, closed, socketVars>>

RetireKeepsRealm ==
  /\ expired # None
  /\ done' = [done EXCEPT ![brokers[expired]] = TRUE]
  /\ checking' = checking \ {expired} /\ expired' = None
  /\ UNCHANGED <<brokers, mgr, loop, who, what, members, log, from, queue, closed, socketVars>>

\* ... and retires it if it saw no client, whoever was added since.
Retire ==
  /\ expired # None
  /\ done' = [done EXCEPT ![brokers[expired]] = TRUE]
  /\ brokers' = [brokers EXCEPT ![expired] = None]
  /\ checking' = checking \ {expired} /\ expired' = None
  /\ UNCHANGED <<mgr, loop, who, what, members, log, from, queue, closed, socketVars>>
-----------------------------------------------------------------------------
(* Broker.run *)

\* The top of the loop: leave when done is seen, else wait in the select.
LoopTop(b) ==
  /\ loop[b] = "top"
  /\ loop' = [loop EXCEPT ![b] = IF done[b] THEN "exited" ELSE "select"]
  /\ UNCHANGED <<managerVars, who, what, done, members, log, from, queue,
                 closed, socketVars>>

\* What the three cases of the select have in common once they are handled.
Handled(b) ==
  /\ loop' = [loop EXCEPT ![b] = "top"]
  /\ who' = [who EXCEPT ![b] = None]
  /\ what' = [what EXCEPT ![b] = 0]
  /\ UNCHANGED <<managerVars, done, socketVars>>

EvictKeeps(b, S) ==
  /\ closed' = [c \in Clients |-> closed[c] \/ c \in S]
  /\ UNCHANGED members

\* Close the send channels of the clients in S and forget them.
Evict(b, S) ==
  /\ closed' = [c \in Clients |-> closed[c] \/ c \in S]
  /\ members' = [members EXCEPT ![b] = @ \ S]

RunAdd(b) ==
  /\ loop[b] = "add"
  /\ members' = [members EXCEPT ![b] = @ \cup {who[b]}]
  /\ from' = [from EXCEPT ![who[b]] = Len(log[b])]
  /\ Handled(b)
  /\ UNCHANGED <<log, queue, closed>>

\* A client that is no longer in the map is left alone.
RunRemove(b) ==
  /\ loop[b] = "remove"
  /\ Evict(b, {who[b]} \cap members[b])
  /\ Handled(b)
  /\ UNCHANGED <<log, from, queue>>

FullNever(b) == {}

\* The members whose buffer has no room: select takes the default case.
Full(b) == {c \in members[b] : Len(queue[c]) >= SendCap}

FanOutSkips(b) ==
  /\ loop[b] = "send"
  /\ queue' = [c \in Clients |-> IF c \in members[b] \ Full(b)
                                 THEN Append(queue[c], what[b])
                                 ELSE queue[c]]
  /\ log' = [log EXCEPT ![b] = Append(@, what[b])]
  /\ Handled(b)
  /\ UNCHANGED <<members, closed, from>>

FanOutBlocks(b) ==
  /\ loop[b] = "send"
  /\ Full(b) = {}
  /\ queue' = [c \in Clients |-> IF c \in members[b]
                                 THEN Append(queue[c], what[b])
                                 ELSE queue[c]]
  /\ log' = [log EXCEPT ![b] = Append(@, what[b])]
  /\ Handled(b)
  /\ UNCHANGED <<members, closed, from>>

\* Fan a message out.  One step: nobody else touches the map, and what the
\* writers take out meanwhile they could as well have taken out before.
RunFanOut(b) ==
  /\ loop[b] = "send"
  /\ queue' = [c \in Clients |-> IF c \in members[b] \ Full(b)
                                 THEN Append(queue[c], what[b])
                                 ELSE queue[c]]
  /\ Evict(b, Full(b))
  /\ log' = [log EXCEPT ![b] = Append(@, what[b])]
  /\ Handled(b)
  /\ UNCHANGED from
-----------------------------------------------------------------------------
(* Client.processReads *)

\* ReadMessage returns the peer's next message; the reader blocks on
\* broker.send.
Read(c) ==
  /\ reader[c] = "reading"
  /\ conn[c] = "open"
  /\ sent < MaxMsgs
  /\ sent' = sent + 1
  /\ carry' = [carry EXCEPT ![c] = sent']
  /\ reader' = [reader EXCEPT ![c] = "sending"]
  /\ UNCHANGED <<managerVars, loopVars, queue, closed,
                 realm, broker, writer, conn, got>>

\* The rendezvous on broker.send.
SendToLoop(c) ==
  /\ reader[c] = "sending"
  /\ loop[broker[c]] = "select"
  /\ loop' = [loop EXCEPT ![broker[c]] = "send"]
  /\ what' = [what EXCEPT ![broker[c]] = carry[c]]
  /\ carry' = [carry EXCEPT ![c] = 0]
  /\ reader' = [reader EXCEPT ![c] = "reading"]
  /\ UNCHANGED <<managerVars, who, done, members, log, from, queue, closed,
                 realm, broker, writer, conn, sent, got>>

ReadFailsQuietly(c) ==
  /\ reader[c] = "reading"
  /\ reader' = [reader EXCEPT ![c] = "gone"]
  /\ conn' = [conn EXCEPT ![c] = "closed"]
  /\ UNCHANGED <<managerVars, loopVars, queue, closed,
                 realm, broker, carry, writer, sent, got>>

\* ReadMessage returns an error (the socket is gone, or the peer's message is
\* over the limit); the deferred function blocks on broker.remove.
ReadFails(c) ==
  /\ reader[c] = "reading"
  /\ reader' = [reader EXCEPT ![c] = "removing"]
  /\ UNCHANGED <<managerVars, loopVars, queue, closed,
                 realm, broker, carry, writer, conn, sent, got>>

\* The rendezvous on broker.remove, after which the reader closes the socket.
RemoveFromLoop(c) ==
  /\ reader[c] = "removing"
  /\ loop[broker[c]] = "select"
  /\ loop' = [loop EXCEPT ![broker[c]] = "remove"]
  /\ who' = [who EXCEPT ![broker[c]] = c]
  /\ reader' = [reader EXCEPT ![c] = "gone"]
  /\ conn' = [conn EXCEPT ![c] = "closed"]
  /\ UNCHANGED <<managerVars, what, done, members, log, from, queue, closed,
                 realm, broker, carry, writer, sent, got>>
-----------------------------------------------------------------------------
(* Client.processWrites, and the peer *)

\* The writer takes a message and writes it.  A write to a socket whose peer
\* is gone may still succeed, and the message is lost.
Write(c) ==
  /\ writer[c] = "running"
  /\ queue[c] # <<>>
  /\ conn[c] # "closed"
  /\ queue' = [queue EXCEPT ![c] = Tail(@)]
  /\ got' = IF conn[c] = "open"
            THEN [got EXCEPT ![c] = Append(@, Head(queue[c]))] ELSE got
  /\ UNCHANGED <<managerVars, loopVars, closed,
                 realm, broker, reader, carry, writer, conn, sent>>

WriterLeavesOpen(c) ==
  /\ writer' = [writer EXCEPT ![c] = "stopped"]
  /\ UNCHANGED conn

\* The deferred function of the writer closes the socket.
WriterStops(c) ==
  /\ writer' = [writer EXCEPT ![c] = "stopped"]
  /\ conn' = [conn EXCEPT ![c] = "closed"]

\* The buffer is drained and the channel is closed: write a close message and
\* return.
WriterSeesClose(c) ==
  /\ writer[c] = "running"
  /\ queue[c] = <<>>
  /\ closed[c]
  /\ WriterStops(c)
  /\ UNCHANGED <<managerVars, loopVars, queue, closed,
                 realm, broker, reader, carry, sent, got>>

\* A write or a ping to a socket that is not open any more fails.  The message
\* taken from the buffer, if there was one, is lost.
WriteFails(c) ==
  /\ writer[c] = "running"
  /\ conn[c] # "open"
  /\ \/ UNCHANGED queue
     \/ queue[c] # <<>> /\ queue' = [queue EXCEPT ![c] = Tail(@)]
  /\ WriterStops(c)
  /\ UNCHANGED <<managerVars, loopVars, closed,
                 realm, broker, reader, carry, sent, got>>

\* The peer of an open socket goes away.
PeerGone(c) ==
  /\ conn[c] = "open"
  /\ conn' = [conn EXCEPT ![c] = "broken"]
  /\ UNCHANGED <<managerVars, loopVars, queue, closed,
                 realm, broker, reader, carry, writer, sent, got>>
-----------------------------------------------------------------------------
Next ==
  \/ \E c \in Clients, r \in Realms : Upgrade(c, r)
  \/ \E c \in Clients : ManagerReceive(c)
  \/ \E c \in Clients : ManagerAdd(c)
  \/ TickBegins
  \/ \E r \in Realms : TickSees(r)
  \/ Retire
  \/ \E b \in Brokers : LoopTop(b)
  \/ \E b \in Brokers : RunAdd(b)
  \/ \E b \in Brokers : RunRemove(b)
  \/ \E b \in Brokers : RunFanOut(b)
  \/ \E c \in Clients : Read(c)
  \/ \E c \in Clients : SendToLoop(c)
  \/ \E c \in Clients : ReadFails(c)
  \/ \E c \in Clients : RemoveFromLoop(c)
  \/ \E c \in Clients : Write(c)
  \/ \E c \in Clients : WriterSeesClose(c)
  \/ \E c \in Clients : WriteFails(c)
  \/ \E c \in Clients : PeerGone(c)

Spec == Init /\ [][Next]_vars

\* What each goroutine does next, the waiting for its turn at a channel apart.
Rendezvous(c) == ManagerReceive(c) \/ ManagerAdd(c) \/ SendToLoop(c) \/ RemoveFromLoop(c)
Writer(c) == Write(c) \/ WriterSeesClose(c) \/ WriteFails(c)
Ticker == (\E r \in Realms : TickSees(r)) \/ Retire
Run(b) == LoopTop(b) \/ RunAdd(b) \/ RunRemove(b) \/ RunFanOut(b)

(***************************************************************************)
(* Goroutines are scheduled, so what one can do alone is weakly fair.  A   *)
(* step that waits for its turn at a channel several goroutines use is     *)
(* strongly fair: waiters on a Go channel are served in order, and select  *)
(* picks among ready cases at random.  A dead socket makes reads and pings *)
(* fail in the end (the read deadline and the ping ticker).  Peers owe     *)
(* nothing, and the ticker need not fire, but ends what it has begun.      *)
(***************************************************************************)
Fairness ==
  /\ \A c \in Clients : /\ SF_vars(Rendezvous(c))
                        /\ WF_vars(Writer(c))
                        /\ WF_vars(conn[c] # "open" /\ ReadFails(c))
  /\ WF_vars(Ticker)
  /\ \A b \in Brokers : WF_vars(Run(b))

FairSpec == Spec /\ Fairness
-----------------------------------------------------------------------------
(* Properties *)

Started(c) == reader[c] \in {"reading", "sending", "removing", "gone"}

\* Every variable has its type and a send buffer never holds more than its
\* capacity: a fan-out must find the room before it sends, or run() would
\* block on one slow client.
TypeOK ==
  /\ brokers \in [Realms -> Brokers \cup {None}]
  /\ mgr \in Clients \cup {None}
  /\ checking \subseteq Realms /\ expired \in Realms \cup {None}
  /\ loop \in [Brokers -> {"unborn", "top", "select", "add", "remove", "send",
                           "exited"}]
  /\ who \in [Brokers -> Clients \cup {None}]
  /\ what \in [Brokers -> Nat]
  /\ done \in [Brokers -> BOOLEAN]
  /\ members \in [Brokers -> SUBSET Clients]
  /\ realm \in [Clients -> Realms \cup {None}]
  /\ broker \in [Clients -> Brokers \cup {None}]
  /\ reader \in [Clients -> {"idle", "offered", "adding", "reading", "sending",
                             "removing", "gone"}]
  /\ carry \in [Clients -> Nat]
  /\ writer \in [Clients -> {"idle", "running", "stopped"}]
  /\ queue \in [Clients -> Seq(Nat)]
  /\ \A c \in Clients : Len(queue[c]) <= SendCap
  /\ closed \in [Clients -> BOOLEAN]
  /\ conn \in [Clients -> {"none", "open", "broken", "closed"}]
  /\ sent \in Nat
  /\ got \in [Clients -> Seq(Nat)]
  /\ log \in [Brokers -> Seq(Nat)]
  /\ from \in [Clients -> Nat]

\* The client map never holds a client whose send channel is closed, nor is
\* such a client on its way into the map: run() would panic, sending on a
\* closed channel or closing it again (broker.go:57-71).  It takes a slow
\* client evicted by one message and the next message, or its own late
\* remove, to get there.
NoClosedMember ==
  \A b \in Brokers : \A c \in members[b] \cup (IF loop[b] = "add" THEN {who[b]}
                                                ELSE {}) : ~closed[c]

\* While the manager is blocked on broker.add, that broker is the registered
\* one of the client's realm and its loop has not been told to stop, so it
\* comes back to its select: the ticker must not retire a broker and leave it
\* in the map (broker.go:183-200), or the manager hangs and with it every
\* later connection of every realm.
ManagerNeverStuck ==
  mgr # None => /\ broker[mgr] # None
                /\ brokers[realm[mgr]] = broker[mgr]
                /\ ~done[broker[mgr]]
                /\ loop[broker[mgr]] # "exited"

\* The room of RealmBus a client is in: a broker's, once its loop has taken it in.
Joined(c) == Started(c) /\ ~\E b \in Brokers : loop[b] = "add" /\ who[b] = c
Room == [c \in Clients |-> IF Joined(c) THEN broker[c] ELSE None]
Bus == INSTANCE RealmBus WITH Rooms <- Brokers, room <- Room

\* Each client receives, in order and without a gap, what its broker fanned
\* out from the moment it became a member (broker.go:55-71, 126-137): a
\* client that cannot keep up is cut off, never skipped.
ImplementsBus == Bus!Spec

\* A reader blocked on broker.send or broker.remove gets its turn unless its
\* broker has been retired: no slow or dead client holds up the others
\* (broker.go:62-71, 92, 113).
ReadersServed ==
  \A c \in Clients :
    reader[c] \in {"sending", "removing"}
      ~> \/ reader[c] \in {"reading", "gone"}
         \/ broker[c] # None /\ done[broker[c]]

\* A client whose send channel was closed is disconnected: its writer drains
\* what was buffered, closes the socket and stops (broker.go:126-131).
EvictedIsDisconnected ==
  \A c \in Clients :
    closed[c] ~> conn[c] = "closed" /\ writer[c] = "stopped"

\* A client whose peer went away leaves the client map, unless its broker has
\* been retired (broker.go:91-94, 57-61).
DeadPeerForgotten ==
  \A c \in Clients :
    conn[c] = "broken" ~> \/ Started(c) /\ c \notin members[broker[c]]
                          \/ broker[c] # None /\ done[broker[c]]

\* Every upgraded connection is handed to a broker and gets its goroutines,
\* whatever the ticker retires meanwhile (broker.go:178-192).
EveryClientStarted ==
  \A c \in Clients : reader[c] = "offered" ~> Started(c)
=============================================================================
