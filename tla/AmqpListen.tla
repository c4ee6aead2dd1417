----------------------------- MODULE AmqpListen -----------------------------
(***************************************************************************)
(* How the listening half of an AMQP connection gets its queue, loses it   *)
(* and gets it back: listenToAMQP and setupListen of api/amqp.go, for      *)
(* processes that use one id, and so one queue name.  Each request to the  *)
(* server is a step.  The server is external; of RabbitMQ the module has   *)
(* what the code relies on: a passive declaration fails if there is no     *)
(* such queue, an auto-delete queue goes with its last consumer and stays  *)
(* as long as it never had one, and the server notices a broken connection *)
(* some time after it broke.                                               *)
(***************************************************************************)
EXTENDS Naturals, FiniteSets

CONSTANTS Procs,            \* processes that connect with the same id
          MaxFaults         \* bound: broken connections altogether

ASSUME AmqpAssumption == MaxFaults \in Nat

VARIABLES
  listener,   \* listener[p]: where p stands in setupListen, or what became of it
  first,      \* first[p]: it is the setup that connectAMQP waits for
  connected,  \* connected[p]: the connection of p works
  queue,      \* the queue exists
  consumed,   \* the queue had a consumer
  consumers,  \* the consumers the server has on the queue
  ghosts,     \* those of them whose connection is broken
  faults,     \* how many connections broke
  setupBroke  \* history: one of them broke during a setup

serverVars == <<queue, consumed, consumers, ghosts>>
faultVars == <<faults, setupBroke>>
listenVars == <<listener, first, connected, queue, consumed, consumers, ghosts, faults, setupBroke>>

Setup == {"dial", "check", "declare", "bind", "consume"}

ListenInit ==
  /\ listener = [p \in Procs |-> "start"]
  /\ first = [p \in Procs |-> TRUE]
  /\ connected = [p \in Procs |-> FALSE]
  /\ queue = FALSE /\ consumed = FALSE
  /\ consumers = {} /\ ghosts = {}
  /\ faults = 0 /\ setupBroke = FALSE
-----------------------------------------------------------------------------
(* setupListen *)

Goto(p, where) == listener' = [listener EXCEPT ![p] = where]

SetupGivesUp(p) ==
  /\ Goto(p, "refused")
  /\ connected' = [connected EXCEPT ![p] = FALSE]
  /\ UNCHANGED <<first, serverVars, faultVars>>

\* The setup ends with an error: connectAMQP gives up and the process ends, but
\* setupListenForever sleeps and tries again on a new connection.
SetupFails(p) ==
  /\ Goto(p, IF first[p] THEN "refused" ELSE "dial")
  /\ connected' = [connected EXCEPT ![p] = FALSE]
  /\ UNCHANGED <<first, serverVars, faultVars>>

\* A process starts, or is started again, with the same id.
Start(p) ==
  /\ listener[p] \in {"start", "refused", "ended"}
  /\ Goto(p, "dial")
  /\ first' = [first EXCEPT ![p] = TRUE]
  /\ UNCHANGED <<connected, serverVars, faultVars>>

Dial(p) ==
  /\ listener[p] = "dial"
  /\ Goto(p, "check")
  /\ connected' = [connected EXCEPT ![p] = TRUE]
  /\ UNCHANGED <<first, serverVars, faultVars>>

CheckSkipped(p) ==
  /\ listener[p] = "check"
  /\ connected[p]
  /\ Goto(p, "declare")
  /\ UNCHANGED <<first, connected, serverVars, faultVars>>

\* The passive declaration: a queue of that name means that the id is taken.
CheckAbsent(p) ==
  /\ listener[p] = "check"
  /\ connected[p] /\ ~queue
  /\ Goto(p, "declare")
  /\ UNCHANGED <<first, connected, serverVars, faultVars>>

IdTaken(p) ==
  /\ listener[p] = "check"
  /\ connected[p] /\ queue
  /\ SetupFails(p)

\* Declaring a queue that exists by now succeeds.
Declare(p) ==
  /\ listener[p] = "declare"
  /\ connected[p]
  /\ queue' = TRUE
  /\ Goto(p, "bind")
  /\ UNCHANGED <<first, connected, consumed, consumers, ghosts, faultVars>>

Bind(p) ==
  /\ listener[p] = "bind"
  /\ connected[p] /\ queue
  /\ Goto(p, "consume")
  /\ UNCHANGED <<first, connected, serverVars, faultVars>>

Listening(p) ==
  /\ Goto(p, "listening")
  /\ first' = [first EXCEPT ![p] = FALSE]
  /\ UNCHANGED <<connected, faultVars>>

Consume(p) ==
  /\ listener[p] = "consume"
  /\ connected[p] /\ queue
  /\ consumers' = consumers \cup {p}
  /\ consumed' = TRUE
  /\ Listening(p)
  /\ UNCHANGED <<queue, ghosts>>

\* The error of Consume is not looked at: setupListen returns no error and a
\* nil channel, on which listenToAMQP waits for ever.
ConsumeFails(p) ==
  /\ listener[p] = "consume"
  /\ ~(connected[p] /\ queue)
  /\ Goto(p, "deaf")
  /\ first' = [first EXCEPT ![p] = FALSE]
  /\ UNCHANGED <<connected, serverVars, faultVars>>

\* Any other request fails on a broken connection, and binding if the queue is
\* gone.
RequestFails(p) ==
  /\ \/ listener[p] \in {"check", "declare", "bind"} /\ ~connected[p]
     \/ listener[p] = "bind" /\ ~queue
  /\ SetupFails(p)
-----------------------------------------------------------------------------
(* listenToAMQP and the server *)

ListenAgainEarly(p) ==
  /\ listener[p] = "listening"
  /\ Goto(p, "dial")
  /\ UNCHANGED <<first, connected, serverVars, faultVars>>

\* The deliveries channel is closed: listenToAMQP sets up a new one.
ListenAgain(p) ==
  /\ listener[p] = "listening"
  /\ ~connected[p]
  /\ Goto(p, "dial")
  /\ UNCHANGED <<first, connected, serverVars, faultVars>>

\* A connection breaks; the server does not know yet.
ConnectionBreaks(p) ==
  /\ faults < MaxFaults
  /\ faults' = faults + 1
  /\ connected[p]
  /\ setupBroke' = (setupBroke \/ listener[p] \in Setup)
  /\ connected' = [connected EXCEPT ![p] = FALSE]
  /\ ghosts' = ghosts \cup ({p} \cap consumers)
  /\ UNCHANGED <<listener, first, queue, consumed, consumers>>

\* The server drops consumers, and the queue with the last one.
Drop(S) ==
  /\ consumers' = consumers \ S
  /\ ghosts' = ghosts \ S
  /\ queue' = (queue /\ (consumers' # {} \/ ~consumed))
  /\ consumed' = (consumed /\ queue')

ServerNotices(p) ==
  /\ p \in ghosts
  /\ Drop({p})
  /\ UNCHANGED <<listener, first, connected, faultVars>>

\* The process ends; its connection is closed and the server knows at once.
Exit(p) ==
  /\ listener[p] \in {"listening", "deaf"}
  /\ Goto(p, "ended")
  /\ IF connected[p] /\ p \in consumers THEN Drop({p}) ELSE UNCHANGED serverVars
  /\ connected' = [connected EXCEPT ![p] = FALSE]
  /\ UNCHANGED <<first, faultVars>>
-----------------------------------------------------------------------------
ListenNext ==
  \/ \E p \in Procs : Start(p)
  \/ \E p \in Procs : Dial(p)
  \/ \E p \in Procs : CheckAbsent(p)
  \/ \E p \in Procs : IdTaken(p)
  \/ \E p \in Procs : Declare(p)
  \/ \E p \in Procs : Bind(p)
  \/ \E p \in Procs : Consume(p)
  \/ \E p \in Procs : ConsumeFails(p)
  \/ \E p \in Procs : RequestFails(p)
  \/ \E p \in Procs : ListenAgain(p)
  \/ \E p \in Procs : ConnectionBreaks(p)
  \/ \E p \in Procs : ServerNotices(p)
  \/ \E p \in Procs : Exit(p)

ListenSpec == ListenInit /\ [][ListenNext]_listenVars

(***************************************************************************)
(* Requests are answered or fail, the server notices broken connections,   *)
(* and dialling works in the end.  Processes start and end as they like,   *)
(* and connections need not break.                                         *)
(***************************************************************************)
ListenFairness ==
  \A p \in Procs :
    /\ WF_listenVars(Dial(p) \/ CheckAbsent(p) \/ IdTaken(p) \/ Declare(p) \/ Bind(p)
                      \/ Consume(p) \/ ConsumeFails(p) \/ RequestFails(p) \/ ListenAgain(p))
    /\ WF_listenVars(ServerNotices(p))

ListenFairSpec == ListenSpec /\ ListenFairness
-----------------------------------------------------------------------------
(* Properties *)

\* Every variable has its type; the server's consumers are on an existing queue
\* that had one, and each is a leftover or belongs to a process that listens:
\* none is set up while the deliveries of another still come (api/amqp.go:160-166).
ListenTypeOK ==
  /\ listener \in [Procs -> Setup \cup {"start", "listening", "deaf", "refused", "ended"}]
  /\ first \in [Procs -> BOOLEAN]
  /\ connected \in [Procs -> BOOLEAN]
  /\ queue \in BOOLEAN /\ consumed \in BOOLEAN
  /\ ghosts \subseteq consumers /\ consumers \subseteq Procs
  /\ consumers # {} => queue /\ consumed
  /\ consumed => consumers # {}
  /\ \A p \in consumers \ ghosts : listener[p] = "listening" /\ connected[p]
  /\ faults \in Nat /\ setupBroke \in BOOLEAN

\* A process that believes it listens and whose connection works is a consumer
\* of the queue and not a leftover of an earlier connection
\* (api/amqp.go:148-185, 253-275): the messages of the id reach it.
ListenerIsAttached ==
  \A p \in Procs :
    listener[p] = "listening" /\ connected[p] => queue /\ p \in consumers \ ghosts

\* A process does not consume next to a leftover of its own: it waits until the
\* server has dropped its broken connection, else that would swallow messages
\* (api/amqp.go:253-266).
NoRivalGhost ==
  \A p \in ghosts : listener[p] \notin {"declare", "bind", "consume"}

\* A process whose connection broke while it listened listens again, unless
\* another one uses the id (api/amqp.go:160-178, 221-266): the retries outlast
\* the leftover on the server.  It takes that no connection breaks during a
\* setup.
Reattaches ==
  \A p \in Procs :
    listener[p] = "listening" /\ ~connected[p]
      ~> \/ listener[p] = "listening" /\ connected[p]
         \/ listener[p] = "ended"
         \/ \E q \in Procs \ {p} : listener[q] \notin {"start", "refused", "ended"}
         \/ setupBroke

\* "attempt to reconnect forever" (api/amqp.go:165): the same, whenever
\* connections break.
ReconnectsForever ==
  \A p \in Procs :
    listener[p] = "listening" /\ ~connected[p]
      ~> \/ listener[p] = "listening" /\ connected[p]
         \/ listener[p] = "ended"
         \/ \E q \in Procs \ {p} : listener[q] \notin {"start", "refused", "ended"}
=============================================================================
