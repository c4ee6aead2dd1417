----------------------------- MODULE RunTrigger -----------------------------
(***************************************************************************)
(* pmb run: commands on several machines that wait for each other's        *)
(* triggers (run.go), over connections that are checked first (testAuth of *)
(* api/pmb.go) and that break.  A message reaches at once whoever is       *)
(* connected when it is published; how it gets there is the matter of      *)
(* Broker, WsTransport and AmqpListen.                                     *)
(*                                                                         *)
(* conn.In is kept while the process still waits for a trigger: afterwards *)
(* nothing it reads makes a difference, as SendNotification gives up after *)
(* two seconds.  Messages other than triggers are left out, and so is the  *)
(* prompt of a process that has no key (Session has it).                   *)
(***************************************************************************)
EXTENDS Naturals, Sequences

CONSTANTS Procs,     \* the pmb run processes
          Triggers,
          None,      \* no trigger
          Waits,     \* Waits[p]: the trigger p waits for (-w)
          Sends,     \* Sends[p]: the trigger p sends when done (-s)
          Always,    \* the processes that go on after a failure (-a)
          MaxBreaks  \* bound: broken connections altogether

ASSUME RunAssumption ==
  /\ None \notin Triggers
  /\ Waits \in [Procs -> Triggers \cup {None}]
  /\ Sends \in [Procs -> Triggers \cup {None}]
  /\ Always \subseteq Procs
  /\ MaxBreaks \in Nat

VARIABLES
  pc,      \* pc[p]: where p stands
  up,      \* up[p]: its connection works
  old,     \* old[p]: the writer of a connection that broke still reads conn.Out
  in,      \* in[p]: the triggers it got and has not read
  heard,   \* heard[p]: the success that the trigger it waited for reported
  success, \* success[p]: its own command succeeded
  pending, \* pending[p]: its trigger is in conn.Out
  broken,  \* history: the processes whose connection broke
  hurried, \* history: the processes that ended before their trigger left
  lost,    \* history: the processes whose trigger went to a connection that broke
  breaks

linkVars == <<up, old, broken, breaks>>
vars == <<pc, up, old, in, heard, success, pending, broken, hurried, lost, breaks>>

Message == [trigger : Triggers, success : BOOLEAN]

Init ==
  /\ pc = [p \in Procs |-> "start"]
  /\ up = [p \in Procs |-> FALSE]
  /\ old = [p \in Procs |-> FALSE]
  /\ in = [p \in Procs |-> <<>>]
  /\ heard = [p \in Procs |-> FALSE]
  /\ success = [p \in Procs |-> FALSE]
  /\ pending = [p \in Procs |-> FALSE]
  /\ broken = {} /\ hurried = {} /\ lost = {} /\ breaks = 0
-----------------------------------------------------------------------------
Goto(p, where) == pc' = [pc EXCEPT ![p] = where]
Ready(p) == Goto(p, IF Waits[p] = None THEN "running" ELSE "waiting")
Reads(p) == in' = [in EXCEPT ![p] = Tail(@)]

\* What arrives may still matter to the process.
Listens(p) == Waits[p] # None /\ pc[p] \in {"testing", "waiting"}
Connected(p) == pc[p] \notin {"start", "refused", "stopped", "ended"}

\* ConnectClient; with --trust-key the key is not tested.
Start(p) ==
  /\ pc[p] = "start"
  /\ up' = [up EXCEPT ![p] = TRUE]
  /\ Goto(p, "testing") \/ Ready(p)
  /\ UNCHANGED <<old, in, heard, success, pending, broken, hurried, lost, breaks>>

\* testAuth drops what it reads before the answer.
Discard(p) ==
  /\ pc[p] = "testing"
  /\ in[p] # <<>>
  /\ Reads(p)
  /\ UNCHANGED <<pc, linkVars, heard, success, pending, hurried, lost>>

Accepted(p) ==
  /\ pc[p] = "testing"
  /\ Ready(p)
  /\ UNCHANGED <<in, linkVars, heard, success, pending, hurried, lost>>

Rejected(p) ==
  /\ pc[p] = "testing"
  /\ Goto(p, "refused")
  /\ in' = [in EXCEPT ![p] = <<>>]
  /\ UNCHANGED <<linkVars, heard, success, pending, hurried, lost>>

HearAny(p) ==
  /\ pc[p] = "waiting"
  /\ in[p] # <<>>
  /\ Goto(p, "told")
  /\ heard' = [heard EXCEPT ![p] = Head(in[p]).success]
  /\ in' = [in EXCEPT ![p] = <<>>]
  /\ UNCHANGED <<linkVars, success, pending, hurried, lost>>

\* The trigger it waits for ends the loop; any other one is dropped.
Hear(p) ==
  /\ pc[p] = "waiting"
  /\ in[p] # <<>>
  /\ IF Head(in[p]).trigger = Waits[p]
     THEN /\ Goto(p, "told")
          /\ heard' = [heard EXCEPT ![p] = Head(in[p]).success]
          /\ in' = [in EXCEPT ![p] = <<>>]
     ELSE Reads(p) /\ UNCHANGED <<pc, heard>>
  /\ UNCHANGED <<linkVars, success, pending, hurried, lost>>

\* After the notification that the trigger was received.
GoOn(p) ==
  /\ pc[p] = "told"
  /\ Goto(p, IF p \in Always \/ heard[p] THEN "running" ELSE "stopped")
  /\ UNCHANGED <<in, linkVars, heard, success, pending, hurried, lost>>

FinishSilent(p) ==
  /\ pc[p] = "running"
  /\ success' \in {[success EXCEPT ![p] = s] : s \in BOOLEAN}
  /\ Goto(p, IF Sends[p] = None \/ ~success'[p] THEN "ended" ELSE "lingering")
  /\ pending' = [pending EXCEPT ![p] = Sends[p] # None /\ success'[p]]
  /\ UNCHANGED <<in, linkVars, heard, hurried, lost>>

FinishAtOnce(p) ==
  /\ pc[p] = "running"
  /\ success' \in {[success EXCEPT ![p] = s] : s \in BOOLEAN}
  /\ Goto(p, "ended")
  /\ pending' = [pending EXCEPT ![p] = Sends[p] # None]
  /\ UNCHANGED <<in, linkVars, heard, hurried, lost>>

\* The command ends, notifications are sent, and the trigger goes to conn.Out.
Finish(p) ==
  /\ pc[p] = "running"
  /\ success' \in {[success EXCEPT ![p] = s] : s \in BOOLEAN}
  /\ Goto(p, IF Sends[p] = None THEN "ended" ELSE "lingering")
  /\ pending' = [pending EXCEPT ![p] = Sends[p] # None]
  /\ UNCHANGED <<in, linkVars, heard, hurried, lost>>

\* The trigger leaves while the process stays for two seconds, maybe by a socket that
\* carries what is written although its reader gave it up (ws.go:89-93).
Publish(p) ==
  /\ pending[p]
  /\ up[p] \/ old[p]
  /\ pending' = [pending EXCEPT ![p] = FALSE]
  /\ in' = [q \in Procs |->
             IF q # p /\ up[q] /\ Listens(q)
             THEN Append(in[q], [trigger |-> Sends[p], success |-> success[p]])
             ELSE in[q]]
  /\ UNCHANGED <<pc, linkVars, heard, success, hurried, lost>>

\* The writer of a connection that broke takes the trigger, maybe beside the writer of
\* the next one: what it writes is lost (there is nothing else for it to take).
Lose(p) ==
  /\ pending[p] /\ old[p]
  /\ pending' = [pending EXCEPT ![p] = FALSE]
  /\ lost' = lost \cup {p}
  /\ old' = [old EXCEPT ![p] = FALSE]
  /\ UNCHANGED <<pc, up, in, heard, success, broken, hurried, breaks>>

\* It sees that its connection is over before it takes anything.
OldWriterEnds(p) ==
  /\ Connected(p) /\ old[p]
  /\ old' = [old EXCEPT ![p] = FALSE]
  /\ UNCHANGED <<pc, up, in, heard, success, pending, broken, hurried, lost, breaks>>

\* Two seconds are over.
Exit(p) ==
  /\ pc[p] = "lingering"
  /\ Goto(p, "ended")
  /\ hurried' = IF pending[p] THEN hurried \cup {p} ELSE hurried
  /\ pending' = [pending EXCEPT ![p] = FALSE]
  /\ UNCHANGED <<in, linkVars, heard, success, lost>>

Break(p) ==
  /\ Connected(p) /\ up[p]
  /\ breaks < MaxBreaks
  /\ breaks' = breaks + 1
  /\ up' = [up EXCEPT ![p] = FALSE]
  /\ old' = [old EXCEPT ![p] = TRUE]
  /\ broken' = broken \cup {p}
  /\ UNCHANGED <<pc, in, heard, success, pending, hurried, lost>>

Reconnect(p) ==
  /\ Connected(p) /\ ~up[p]
  /\ up' = [up EXCEPT ![p] = TRUE]
  /\ UNCHANGED <<pc, old, in, heard, success, pending, broken, hurried, lost, breaks>>
-----------------------------------------------------------------------------
Next ==
  \E p \in Procs :
    \/ Start(p) \/ Discard(p) \/ Accepted(p) \/ Rejected(p)
    \/ Hear(p) \/ GoOn(p) \/ Finish(p) \/ Publish(p) \/ Exit(p)
    \/ Lose(p) \/ OldWriterEnds(p) \/ Break(p) \/ Reconnect(p)

Spec == Init /\ [][Next]_vars

(***************************************************************************)
(* A process that can go on does, and commands end; the two seconds may be *)
(* over before the trigger has left, and a writer may lose it.  Processes  *)
(* start when they like.                                                   *)
(***************************************************************************)
Fairness ==
  \A p \in Procs :
    /\ WF_vars(Accepted(p) \/ Rejected(p)) /\ WF_vars(Hear(p)) /\ WF_vars(GoOn(p))
    /\ WF_vars(Finish(p)) /\ WF_vars(Exit(p)) /\ WF_vars(Reconnect(p))

FairSpec == Spec /\ Fairness
-----------------------------------------------------------------------------
(* Properties *)

\* Every variable has its type; a trigger is pending only while its process
\* lingers, and conn.In is kept only until the trigger has come.
TypeOK ==
  /\ pc \in [Procs -> {"start", "testing", "waiting", "told", "running", "lingering",
                       "ended", "refused", "stopped"}]
  /\ {up, old} \subseteq [Procs -> BOOLEAN]
  /\ in \in [Procs -> Seq(Message)]
  /\ {heard, success, pending} \subseteq [Procs -> BOOLEAN]
  /\ \A p \in Procs :
       /\ pending[p] => pc[p] = "lingering"
       /\ in[p] # <<>> => Listens(p)
  /\ broken \subseteq Procs /\ hurried \subseteq Procs /\ lost \subseteq broken
  /\ \A p \in Procs : old[p] => p \in broken
  /\ breaks \in 0..MaxBreaks

Done(p) == pc[p] \in {"lingering", "ended"}

\* A command that waits for a trigger runs only after a command that sends that
\* trigger has come to its end, successfully unless it runs always
\* (run.go:50-78, 112-127): commands on several machines run in order.
RunsInOrder ==
  \A p \in Procs :
    Waits[p] # None /\ (pc[p] = "running" \/ Done(p))
      => \E q \in Procs : /\ Sends[q] = Waits[p] /\ Done(q)
                          /\ success[q] \/ p \in Always

\* A process that waits when another one begins the command whose end triggers it
\* goes on, unless its own connection breaks, the other process ends before the trigger
\* has left, or the writer of a connection of the other one that broke takes the
\* trigger, which nobody sends again (run.go:54-66, 112-128; ws.go:129-148).
WaitersGoOn ==
  \A p, q \in Procs :
    Waits[p] # None /\ Sends[q] = Waits[p]
      => (pc[p] = "waiting" /\ pc[q] = "running"
            ~> pc[p] # "waiting" \/ p \in broken \/ q \in hurried \cup lost)
=============================================================================
