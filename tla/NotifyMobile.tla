---------------------------- MODULE NotifyMobile ----------------------------
(***************************************************************************)
(* The notify-mobile command of notify_mobile.go: one goroutine reads the  *)
(* bus (main), one remembers which notifications wait for an               *)
(* acknowledgement (the agent), one waits per notification (a waiter), one *)
(* sends to Pushover (the pusher).  All their channels are unbuffered, so  *)
(* a rendezvous is one step of both sides.  A waiter gives up after five   *)
(* seconds: here, at any time.                                             *)
(***************************************************************************)
EXTENDS Naturals, Sequences, FiniteSets, Functions

CONSTANTS Ids,                 \* the notification ids
          Level,               \* Level[n]: the level n is sent with
          LevelAlways, LevelUnacknowledged, LevelUnseen, \* the options
          RecentCap,           \* how many ids recentIds keeps (10)
          MaxNotes,            \* bound: Notifications received, copies counted
          MaxAcks,             \* bound: NotificationDisplayed received
          None

ASSUME NotifyAssumption ==
  /\ Level \in [Ids -> Nat]
  /\ {LevelAlways, LevelUnacknowledged, LevelUnseen} \subseteq Nat
  /\ RecentCap \in Nat \ {0}
  /\ MaxNotes \in Nat /\ MaxAcks \in Nat

\* What the bus delivers: a Notification of a client, a NotificationDisplayed
\* of the introducer that showed it.  A receiver that holds several keys gets
\* one copy per key, and several introducers may show a notification.
Messages == [type : {"Notification", "NotificationDisplayed"}, id : Ids,
             screenSaverOn : BOOLEAN]

ASSUME NoneAssumption == None \notin Messages

VARIABLES
  main,          \* where runNotifyMobile stands: "recv", "unack" or "push"
  message,       \* the message it handles, or None
  agent,         \* 0 in its select, k while it sends on complete of waiter k
  completeChans, \* completeChans[n]: the waiter in the agent's map, or 0
  waiters,       \* the waiters in the order they were started
  pusher,        \* "recv" or, while it talks to Pushover, "busy"
  recentIds,     \* the ids sent last
  notes,         \* notes[n]: copies of the Notification received
  displays,      \* displays[n]: NotificationDisplayed received for n
  attempts,      \* history: the ids handed to Pushover, in order
  acknowledged,  \* history: the ids a waiter saw acknowledged
  unseen         \* history: the ids displayed under a screen saver

waitVars == <<agent, completeChans, waiters>>
pushVars == <<pusher, recentIds, attempts>>
busVars  == <<notes, displays, unseen>>
vars == <<main, message, agent, completeChans, waiters, pusher, recentIds,
          notes, displays, attempts, acknowledged, unseen>>

Init ==
  /\ main = "recv" /\ message = None
  /\ agent = 0
  /\ completeChans = [n \in Ids |-> 0]
  /\ waiters = <<>>
  /\ pusher = "recv"
  /\ recentIds = <<>>
  /\ notes = [n \in Ids |-> 0]
  /\ displays = [n \in Ids |-> 0]
  /\ attempts = <<>>
  /\ acknowledged = {}
  /\ unseen = {}
-----------------------------------------------------------------------------
(* runNotifyMobile *)

\* Whether a message goes to the agent, and whether to the pusher after that.
WantsUnack(m) == Level[m.id] >= LevelUnacknowledged
WantsPush(m) ==
  \/ m.type = "Notification" /\ Level[m.id] >= LevelAlways
  \/ /\ m.type = "NotificationDisplayed" /\ Level[m.id] >= LevelUnseen
     /\ m.screenSaverOn

AfterUnack(m) == IF WantsPush(m) THEN "push" ELSE "recv"

\* The main loop takes m off the bus.
Receive(m) ==
  /\ main = "recv"
  /\ main' = IF WantsUnack(m) THEN "unack" ELSE AfterUnack(m)
  /\ message' = IF main' = "recv" THEN None ELSE m
  /\ UNCHANGED <<waitVars, pushVars, acknowledged>>

ReceiveNotification(n) ==
  /\ SumFunction(notes) < MaxNotes
  /\ notes' = [notes EXCEPT ![n] = @ + 1]
  /\ Receive([type |-> "Notification", id |-> n, screenSaverOn |-> FALSE])
  /\ UNCHANGED <<displays, unseen>>

ReceiveDisplayed(n, on) ==
  /\ SumFunction(displays) < MaxAcks
  /\ displays' = [displays EXCEPT ![n] = @ + 1]
  /\ unseen' = IF on THEN unseen \cup {n} ELSE unseen
  /\ Receive([type |-> "NotificationDisplayed", id |-> n, screenSaverOn |-> on])
  /\ UNCHANGED notes

\* The rendezvous on unackChan; the agent handles the message.  A Notification
\* replaces whatever entry its id had.
MainToUnack ==
  /\ main = "unack"
  /\ agent = 0
  /\ main' = AfterUnack(message)
  /\ message' = IF main' = "recv" THEN None ELSE message
  /\ \/ /\ message.type = "NotificationDisplayed"
        /\ agent' = completeChans[message.id]
        /\ UNCHANGED <<completeChans, waiters>>
     \/ /\ message.type = "Notification"
        /\ waiters' = Append(waiters, [id |-> message.id, pc |-> "waiting",
                                       closed |-> FALSE])
        /\ completeChans' = [completeChans EXCEPT ![message.id] = Len(waiters')]
        /\ UNCHANGED agent
  /\ UNCHANGED <<pushVars, busVars, acknowledged>>
-----------------------------------------------------------------------------
(* pushoverAgent *)

RecentlySent(n) == \E i \in DOMAIN recentIds : recentIds[i] = n

RememberAll(n) == recentIds' = Append(recentIds, n)

RememberTooFew(n) ==
  LET ids == Append(recentIds, n)
  IN  recentIds' = IF Len(ids) >= RecentCap THEN Tail(ids) ELSE ids

\* recentIds keeps the last RecentCap ids.
Remember(n) ==
  LET ids == Append(recentIds, n)
  IN  recentIds' = IF Len(ids) > RecentCap THEN Tail(ids) ELSE ids

\* The rendezvous on pushoverChan: the pusher drops an id it sent recently,
\* and else records it before it sends.
PusherTakes(n) ==
  /\ pusher = "recv"
  /\ \/ RecentlySent(n) /\ UNCHANGED pushVars
     \/ /\ ~RecentlySent(n)
        /\ Remember(n)
        /\ attempts' = Append(attempts, n)
        /\ pusher' = "busy"

\* Pushover has answered.  An error is only logged.
PusherDone ==
  /\ pusher = "busy"
  /\ pusher' = "recv"
  /\ UNCHANGED <<main, message, waitVars, recentIds, busVars, attempts, acknowledged>>

MainPush ==
  /\ main = "push"
  /\ PusherTakes(message.id)
  /\ main' = "recv"
  /\ message' = None
  /\ UNCHANGED <<waitVars, busVars, acknowledged>>
-----------------------------------------------------------------------------
(* waitForComplete, and the agent's end of it *)

Goto(k, pc) == waiters' = [waiters EXCEPT ![k].pc = pc]

CompletePushes(k) ==
  /\ agent = k
  /\ waiters[k].pc = "waiting"
  /\ Goto(k, "pushing")
  /\ agent' = 0
  /\ acknowledged' = acknowledged \cup {waiters[k].id}
  /\ UNCHANGED <<main, message, completeChans, pushVars, busVars>>

\* The rendezvous on complete.
Complete(k) ==
  /\ agent = k
  /\ waiters[k].pc = "waiting"
  /\ Goto(k, "reaping")
  /\ agent' = 0
  /\ acknowledged' = acknowledged \cup {waiters[k].id}
  /\ UNCHANGED <<main, message, completeChans, pushVars, busVars>>

\* A closed complete channel reads as an acknowledgement too.
ClosedWake(k) ==
  /\ waiters[k].pc = "waiting"
  /\ waiters[k].closed
  /\ Goto(k, "reaping")
  /\ UNCHANGED <<main, message, agent, completeChans, pushVars, busVars,
                 acknowledged>>

TimeoutDrops(k) ==
  /\ waiters[k].pc = "waiting"
  /\ Goto(k, "reaping")
  /\ UNCHANGED <<main, message, agent, completeChans, pushVars, busVars,
                 acknowledged>>

\* Five seconds are over.
Timeout(k) ==
  /\ waiters[k].pc = "waiting"
  /\ Goto(k, "pushing")
  /\ UNCHANGED <<main, message, agent, completeChans, pushVars, busVars,
                 acknowledged>>

WaiterPush(k) ==
  /\ waiters[k].pc = "pushing"
  /\ PusherTakes(waiters[k].id)
  /\ Goto(k, "reaping")
  /\ UNCHANGED <<main, message, agent, completeChans, busVars, acknowledged>>

ReapKeeps(k) ==
  /\ waiters[k].pc = "reaping"
  /\ agent = 0
  /\ LET c == completeChans[waiters[k].id]
     IN  waiters' = [j \in DOMAIN waiters |->
                       [waiters[j] EXCEPT !.pc = IF j = k THEN "done" ELSE @,
                                          !.closed = @ \/ j = c]]
  /\ UNCHANGED <<main, message, agent, completeChans, pushVars, busVars,
                 acknowledged>>

\* The rendezvous on reapChan: the agent closes and forgets the channel its
\* map has for the id, which is another waiter's if the id came twice.
Reap(k) ==
  /\ waiters[k].pc = "reaping"
  /\ agent = 0
  /\ LET n == waiters[k].id
         c == completeChans[n]
     IN  /\ waiters' = [j \in DOMAIN waiters |->
                          [waiters[j] EXCEPT !.pc = IF j = k THEN "done" ELSE @,
                                             !.closed = @ \/ j = c]]
         /\ completeChans' = [completeChans EXCEPT ![n] = 0]
  /\ UNCHANGED <<main, message, agent, pushVars, busVars, acknowledged>>
-----------------------------------------------------------------------------
Next ==
  \/ \E n \in Ids : ReceiveNotification(n)
  \/ \E n \in Ids, on \in BOOLEAN : ReceiveDisplayed(n, on)
  \/ MainToUnack
  \/ MainPush
  \/ PusherDone
  \/ \E k \in DOMAIN waiters : Complete(k)
  \/ \E k \in DOMAIN waiters : ClosedWake(k)
  \/ \E k \in DOMAIN waiters : Timeout(k)
  \/ \E k \in DOMAIN waiters : WaiterPush(k)
  \/ \E k \in DOMAIN waiters : Reap(k)

Spec == Init /\ [][Next]_vars

\* What becomes of a waiter that was started.
Waiter(k) ==
  /\ k \in DOMAIN waiters
  /\ \/ Complete(k) \/ ClosedWake(k) \/ Timeout(k) \/ WaiterPush(k) \/ Reap(k)

(***************************************************************************)
(* Timers fire, Pushover answers or the request fails, goroutines are      *)
(* scheduled; a goroutine that waits for its turn at a channel gets it if  *)
(* the turn comes again and again (waiters on a Go channel are served in   *)
(* order).  The bus owes nothing.                                          *)
(***************************************************************************)
Fairness ==
  /\ SF_vars(MainToUnack)
  /\ SF_vars(MainPush)
  /\ WF_vars(PusherDone)
  /\ \A k \in 1..MaxNotes : SF_vars(Waiter(k))

FairSpec == Spec /\ Fairness
-----------------------------------------------------------------------------
(* Properties *)

Waiters == [id : Ids, pc : {"waiting", "pushing", "reaping", "done"},
            closed : BOOLEAN]

\* Every variable has its type, and the agent's map and its pending send name
\* waiters that were started for that id.
TypeOK ==
  /\ main \in {"recv", "unack", "push"}
  /\ message \in Messages \cup {None}
  /\ main = "recv" <=> message = None
  /\ waiters \in Seq(Waiters)
  /\ agent \in 0..Len(waiters)
  /\ completeChans \in [Ids -> 0..Len(waiters)]
  /\ \A n \in Ids : completeChans[n] # 0 => waiters[completeChans[n]].id = n
  /\ pusher \in {"recv", "busy"}
  /\ recentIds \in Seq(Ids)
  /\ Len(recentIds) <= RecentCap
  /\ notes \in [Ids -> Nat]
  /\ displays \in [Ids -> Nat]
  /\ attempts \in Seq(Ids)
  /\ acknowledged \subseteq Ids
  /\ unseen \subseteq Ids

\* The agent's map holds no channel that was closed or whose waiter is gone:
\* sending an acknowledgement on it would panic or block the agent for ever
\* (notify_mobile.go:90-91, 99-104), and closing it again would panic.  Late
\* acknowledgements and second copies of a Notification are what could get it
\* there.
MapHoldsLiveWaiters ==
  \A k \in DOMAIN waiters :
    (\E n \in Ids : completeChans[n] = k) \/ agent = k
      => ~waiters[k].closed /\ waiters[k].pc # "done"

\* An id goes to Pushover again only after RecentCap others went there, though
\* the main loop and the waiters of several copies all push it
\* (notify_mobile.go:177-188).
Debounced ==
  \A i, j \in DOMAIN attempts :
    i < j /\ attempts[i] = attempts[j] => j - i > RecentCap

\* "Level at which unacknowledged are sent to Pushover."
\* (notify_mobile.go:18): a notification that arrived once and was acknowledged
\* in time is not sent, unless for its level or because nobody saw it.
AcknowledgedNotPushed ==
  \A n \in acknowledged :
    notes[n] = 1 /\ Level[n] < LevelAlways /\ n \notin unseen =>
      \A i \in DOMAIN attempts : attempts[i] # n

Sent(n) == \E i \in DOMAIN attempts : attempts[i] = n

\* A notification of that level that nobody acknowledges is sent, however many
\* others wait, as long as no acknowledgement of any of them arrives
\* (notify_mobile.go:66-109, 123-136).
SentUnlessAcknowledged ==
  \A n \in Ids :
    Level[n] >= LevelUnacknowledged =>
      (notes[n] > 0 ~> Sent(n) \/ SumFunction(displays) > 0)

\* "Level at which unacknowledged are sent to Pushover."
\* (notify_mobile.go:18): a notification of that level that nobody
\* acknowledges is sent.
UnacknowledgedPushed ==
  \A n \in Ids :
    Level[n] >= LevelUnacknowledged => (notes[n] > 0 ~> Sent(n) \/ displays[n] > 0)
=============================================================================
