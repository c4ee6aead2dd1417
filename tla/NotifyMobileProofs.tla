------------------------- MODULE NotifyMobileProofs -------------------------
(***************************************************************************)
(* Proofs about NotifyMobile, for any ids, levels, options and number of   *)
(* messages.  What recentIds holds is the end of what was handed to        *)
(* Pushover.  An acknowledged notification is not sent because its one     *)
(* waiter either hears of the acknowledgement or pushes, and only a        *)
(* Notification that came once has one waiter.                             *)
(***************************************************************************)
EXTENDS NotifyMobile, Integers, TLAPS

\* recentIds keeps the ids that were sent last.
RecentAreLast ==
  /\ Len(recentIds) <= Len(attempts)
  /\ Len(recentIds) = Len(attempts) \/ Len(recentIds) = RecentCap
  /\ \A a \in DOMAIN recentIds :
       recentIds[a] = attempts[Len(attempts) - Len(recentIds) + a]

\* What the main loop has at hand came off the bus, and goes to the pusher only if
\* it has to.
MessageFromBus ==
  /\ main # "recv" /\ message.type = "NotificationDisplayed" /\ message.screenSaverOn
       => message.id \in unseen
  /\ main = "push" => WantsPush(message)

\* A Notification that came once has one waiter, if it has come to the agent.
NoWaiter(n) == \A k \in DOMAIN waiters : waiters[k].id # n
OneWaiterEach ==
  \A n \in Ids :
    notes[n] <= 1 =>
      /\ \A j, k \in DOMAIN waiters : waiters[j].id = n /\ waiters[k].id = n => j = k
      /\ notes[n] = 0 => NoWaiter(n)
      /\ main = "unack" /\ message.type = "Notification" /\ message.id = n
           => notes[n] # 0 /\ NoWaiter(n)

\* The notifications that only their waiter may send.
LeftToWaiter(n) == notes[n] <= 1 /\ Level[n] < LevelAlways /\ n \notin unseen
AcknowledgedOrSent(n) ==
  /\ ~(n \in acknowledged /\ Sent(n))
  /\ NoWaiter(n) => n \notin acknowledged /\ ~Sent(n)
  /\ \A k \in DOMAIN waiters :
       waiters[k].id = n =>
         /\ waiters[k].pc = "waiting" => n \notin acknowledged /\ ~Sent(n)
         /\ waiters[k].pc = "pushing" => n \notin acknowledged
EitherWay == \A n \in Ids : LeftToWaiter(n) => AcknowledgedOrSent(n)

IInv ==
  /\ TypeOK
  /\ MapHoldsLiveWaiters
  /\ RecentAreLast /\ Debounced
  /\ MessageFromBus /\ OneWaiterEach /\ EitherWay
-----------------------------------------------------------------------------
(* Sequences *)

\* A sequence with one more entry.
LEMMA Appended ==
  ASSUME NEW S, NEW q \in Seq(S), NEW e \in S
  PROVE  /\ Append(q, e) \in Seq(S)
         /\ Len(q) \in Nat /\ Len(Append(q, e)) = Len(q) + 1
         /\ DOMAIN q = 1..Len(q) /\ DOMAIN Append(q, e) = 1..(Len(q) + 1)
         /\ \A a \in DOMAIN q : Append(q, e)[a] = q[a] /\ q[a] \in S
         /\ Append(q, e)[Len(q) + 1] = e
OBVIOUS

\* A sequence without its first entry.
LEMMA Shortened ==
  ASSUME NEW S, NEW q \in Seq(S), Len(q) > 0
  PROVE  /\ Tail(q) \in Seq(S)
         /\ Len(q) \in Nat \ {0} /\ Len(Tail(q)) = Len(q) - 1
         /\ DOMAIN Tail(q) = 1..(Len(q) - 1)
         /\ \A a \in DOMAIN Tail(q) : Tail(q)[a] = q[a + 1]
OBVIOUS
-----------------------------------------------------------------------------
(* The pusher *)

\* The ids that are remembered after one more was sent.
LEMMA Remembered ==
  ASSUME TypeOK, NEW n \in Ids, Remember(n)
  PROVE  /\ recentIds' \in Seq(Ids) /\ Len(recentIds) \in Nat /\ RecentCap \in Nat \ {0}
         /\ \/ /\ Len(recentIds) < RecentCap /\ Len(recentIds') = Len(recentIds) + 1
               /\ DOMAIN recentIds' = 1..(Len(recentIds) + 1)
               /\ \A a \in 1..Len(recentIds) : recentIds'[a] = recentIds[a]
               /\ recentIds'[Len(recentIds) + 1] = n
            \/ /\ Len(recentIds) = RecentCap /\ Len(recentIds') = RecentCap
               /\ DOMAIN recentIds' = 1..RecentCap
               /\ \A a \in 1..(RecentCap - 1) : recentIds'[a] = recentIds[a + 1]
               /\ recentIds'[RecentCap] = n
<1> DEFINE ids == Append(recentIds, n)
<1>1. RecentCap \in Nat \ {0} /\ recentIds \in Seq(Ids) /\ Len(recentIds) <= RecentCap
      BY NotifyAssumption DEF TypeOK
<1>2. /\ ids \in Seq(Ids) /\ Len(recentIds) \in Nat /\ Len(ids) = Len(recentIds) + 1
      /\ DOMAIN ids = 1..(Len(recentIds) + 1)
      /\ \A a \in 1..Len(recentIds) : ids[a] = recentIds[a]
      /\ ids[Len(recentIds) + 1] = n
      BY <1>1, Appended
<1>3. recentIds' = IF Len(ids) > RecentCap THEN Tail(ids) ELSE ids
      BY DEF Remember
<1> HIDE DEF ids
<1>4. CASE Len(recentIds) < RecentCap
  <2>1. recentIds' = ids
        BY <1>1, <1>2, <1>3, <1>4
  <2> QED BY <1>1, <1>2, <1>4, <2>1
<1>5. CASE Len(recentIds) = RecentCap
  <2>1. recentIds' = Tail(ids) /\ Len(ids) = RecentCap + 1
        BY <1>1, <1>2, <1>3, <1>5
  <2>2. /\ Tail(ids) \in Seq(Ids) /\ Len(Tail(ids)) = RecentCap
        /\ DOMAIN Tail(ids) = 1..RecentCap
        /\ \A a \in 1..RecentCap : Tail(ids)[a] = ids[a + 1]
        BY <1>1, <1>2, <2>1, Shortened
  <2>3. \A a \in 1..(RecentCap - 1) : a \in 1..RecentCap /\ a + 1 \in 1..Len(recentIds)
        BY <1>1, <1>5
  <2> QED BY <1>1, <1>2, <1>5, <2>1, <2>2, <2>3
<1> QED BY <1>1, <1>2, <1>4, <1>5

\* An id that is handed to the pusher is sent if it was not among the last ones.
LEMMA Pushed ==
  ASSUME TypeOK, RecentAreLast, Debounced, NEW n \in Ids, PusherTakes(n)
  PROVE  /\ recentIds' \in Seq(Ids) /\ Len(recentIds') <= RecentCap
         /\ attempts' \in Seq(Ids) /\ pusher' \in {"recv", "busy"}
         /\ RecentAreLast' /\ Debounced'
         /\ \A m \in Ids : Sent(m)' => Sent(m) \/ m = n
<1>1. CASE UNCHANGED pushVars
      BY <1>1 DEF pushVars, TypeOK, RecentAreLast, Debounced, Sent
<1>2. CASE ~RecentlySent(n) /\ Remember(n) /\ attempts' = Append(attempts, n) /\ pusher' = "busy"
  <2> DEFINE R == Len(recentIds)
             L == Len(attempts)
  <2>1. /\ recentIds' \in Seq(Ids) /\ R \in Nat /\ RecentCap \in Nat \ {0}
        /\ \/ /\ R < RecentCap /\ Len(recentIds') = R + 1
              /\ DOMAIN recentIds' = 1..(R + 1)
              /\ \A a \in 1..R : recentIds'[a] = recentIds[a]
              /\ recentIds'[R + 1] = n
           \/ /\ R = RecentCap /\ Len(recentIds') = RecentCap
              /\ DOMAIN recentIds' = 1..RecentCap
              /\ \A a \in 1..(RecentCap - 1) : recentIds'[a] = recentIds[a + 1]
              /\ recentIds'[RecentCap] = n
        BY <1>2, Remembered
  <2>2. /\ attempts' \in Seq(Ids) /\ L \in Nat /\ Len(attempts') = L + 1
        /\ DOMAIN attempts = 1..L /\ DOMAIN attempts' = 1..(L + 1)
        /\ \A i \in 1..L : attempts'[i] = attempts[i]
        /\ attempts'[L + 1] = n
        BY <1>2, Appended DEF TypeOK
  <2>3. DOMAIN recentIds = 1..R
        BY DEF TypeOK
  <2>4. /\ R <= L /\ (R = L \/ R = RecentCap)
        /\ \A a \in 1..R : recentIds[a] = attempts[L - R + a]
        BY <2>3 DEF RecentAreLast
  <2>5. \A a \in 1..R : recentIds[a] # n
        BY <1>2, <2>3 DEF RecentlySent
  <2> HIDE DEF R, L
  <2>6. RecentAreLast'
    <3>1. CASE R < RecentCap
      <4>1. /\ Len(recentIds') = R + 1 /\ DOMAIN recentIds' = 1..(R + 1) /\ R = L
            /\ \A a \in 1..R : recentIds'[a] = recentIds[a]
            /\ recentIds'[R + 1] = n
            BY <2>1, <2>4, <3>1
      <4>2. \A a \in 1..R : recentIds'[a] = attempts'[a]
            BY <2>1, <2>2, <2>4, <4>1
      <4>3. \A a \in DOMAIN recentIds' : recentIds'[a] = attempts'[a] /\ (L + 1) - (R + 1) + a = a
            BY <2>1, <2>2, <4>1, <4>2
      <4> QED BY <2>1, <2>2, <4>1, <4>3 DEF RecentAreLast
    <3>2. CASE R = RecentCap
      <4>1. /\ Len(recentIds') = R /\ DOMAIN recentIds' = 1..R /\ R <= L
            /\ \A a \in 1..(R - 1) : recentIds'[a] = recentIds[a + 1]
            /\ recentIds'[R] = n
            BY <2>1, <2>4, <3>2
      <4>2. ASSUME NEW a \in 1..(R - 1) PROVE recentIds'[a] = attempts'[(L + 1) - R + a]
        <5>1. a + 1 \in 1..R /\ L - R + (a + 1) = (L + 1) - R + a /\ (L + 1) - R + a \in 1..L
              BY <2>1, <2>2, <4>1
        <5> QED BY <2>2, <2>4, <4>1, <5>1
      <4>3. (L + 1) - R + R = L + 1
            BY <2>1, <2>2
      <4>4. \A a \in DOMAIN recentIds' : recentIds'[a] = attempts'[(L + 1) - R + a]
        <5>1. ASSUME NEW a \in 1..R PROVE recentIds'[a] = attempts'[(L + 1) - R + a]
          <6>1. a \in 1..(R - 1) \/ a = R
                BY <2>1
          <6>2. CASE a = R
                BY <2>2, <4>1, <4>3, <6>2
          <6> QED BY <4>2, <6>1, <6>2
        <5> QED BY <4>1, <5>1
      <4>5. Len(recentIds') <= Len(attempts') /\ Len(recentIds') = RecentCap
            BY <2>1, <2>2, <3>2, <4>1
      <4> QED BY <2>2, <4>1, <4>4, <4>5 DEF RecentAreLast
    <3> QED BY <2>1, <3>1, <3>2
  <2>7. Debounced'
    <3>1. ASSUME NEW i \in 1..L, attempts[i] = n PROVE L + 1 - i > RecentCap
      <4>1. ~(i > L - R)
        <5>1. ASSUME i > L - R PROVE i - (L - R) \in 1..R /\ L - R + (i - (L - R)) = i
              BY <2>1, <2>2, <2>4, <5>1
        <5> QED BY <2>4, <2>5, <3>1, <5>1
      <4> QED BY <2>1, <2>2, <2>4, <4>1
    <3>2. ASSUME NEW i \in DOMAIN attempts', NEW j \in DOMAIN attempts', i < j, attempts'[i] = attempts'[j]
          PROVE  j - i > RecentCap
      <4>1. i \in 1..L /\ attempts'[i] = attempts[i]
            BY <2>2, <3>2
      <4>2. CASE j = L + 1
        <5>1. attempts[i] = n
              BY <2>2, <3>2, <4>1, <4>2
        <5>2. L + 1 - i > RecentCap
              BY <3>1, <4>1, <5>1
        <5> QED BY <2>1, <2>2, <3>2, <4>1, <4>2, <5>2
      <4>3. CASE j \in 1..L
            BY <2>2, <3>2, <4>1, <4>3 DEF Debounced
      <4> QED BY <2>2, <4>2, <4>3
    <3> QED BY <3>2 DEF Debounced
  <2>8. \A m \in Ids : Sent(m)' => Sent(m) \/ m = n
        BY <2>2 DEF Sent
  <2>9. Len(recentIds') <= RecentCap
        BY <2>1
  <2> QED BY <1>2, <2>1, <2>2, <2>6, <2>7, <2>8, <2>9
<1> QED BY <1>1, <1>2 DEF PusherTakes
-----------------------------------------------------------------------------
(* The waiters *)

\* What the main loop has at hand is a message.
LEMMA AtHand ==
  ASSUME TypeOK, main # "recv"
  PROVE  message \in Messages /\ message.id \in Ids
BY DEF TypeOK, Messages

\* A waiter goes on.
LEMMA WentOn ==
  ASSUME TypeOK, NEW k \in DOMAIN waiters, NEW pc \in {"waiting", "pushing", "reaping", "done"}, Goto(k, pc)
  PROVE  /\ waiters' \in Seq(Waiters) /\ Len(waiters') = Len(waiters) /\ DOMAIN waiters' = DOMAIN waiters
         /\ \A j \in DOMAIN waiters :
              /\ waiters'[j].id = waiters[j].id /\ waiters'[j].closed = waiters[j].closed
              /\ waiters'[j].pc = IF j = k THEN pc ELSE waiters[j].pc
         /\ k \in Nat \ {0} /\ waiters[k].id \in Ids
<1>1. waiters \in Seq(Waiters) /\ waiters' = [waiters EXCEPT ![k].pc = pc]
      BY DEF TypeOK, Goto
<1>2. \A j \in DOMAIN waiters : waiters[j] \in Waiters
      BY <1>1
<1>3. [waiters[k] EXCEPT !.pc = pc] \in Waiters
      BY <1>2 DEF Waiters
<1>4. waiters' \in Seq(Waiters) /\ Len(waiters') = Len(waiters) /\ DOMAIN waiters' = DOMAIN waiters
      BY <1>1, <1>3
<1>5. \A j \in DOMAIN waiters :
        waiters'[j] = IF j = k THEN [waiters[k] EXCEPT !.pc = pc] ELSE waiters[j]
      BY <1>1
<1>6. \A j \in DOMAIN waiters :
        /\ waiters'[j].id = waiters[j].id /\ waiters'[j].closed = waiters[j].closed
        /\ waiters'[j].pc = IF j = k THEN pc ELSE waiters[j].pc
      BY <1>2, <1>5 DEF Waiters
<1>7. k \in Nat \ {0} /\ waiters[k].id \in Ids
      BY <1>1, <1>2 DEF Waiters
<1> QED BY <1>4, <1>6, <1>7

\* A waiter is reaped, and the channel in the map is closed.
LEMMA Reaped ==
  ASSUME TypeOK, NEW k \in DOMAIN waiters, Reap(k)
  PROVE  LET n == waiters[k].id
             c == completeChans[n]
         IN  /\ waiters' \in Seq(Waiters) /\ Len(waiters') = Len(waiters) /\ DOMAIN waiters' = DOMAIN waiters
             /\ \A j \in DOMAIN waiters :
                  /\ waiters'[j].id = waiters[j].id
                  /\ waiters'[j].closed = (waiters[j].closed \/ j = c)
                  /\ waiters'[j].pc = IF j = k THEN "done" ELSE waiters[j].pc
             /\ k \in Nat \ {0} /\ n \in Ids
             /\ \A m \in Ids : completeChans'[m] = IF m = n THEN 0 ELSE completeChans[m]
             /\ completeChans' \in [Ids -> 0..Len(waiters')]
<1> DEFINE n == waiters[k].id
           c == completeChans[n]
           w == [j \in DOMAIN waiters |->
                  [waiters[j] EXCEPT !.pc = IF j = k THEN "done" ELSE @, !.closed = @ \/ j = c]]
<1>1. waiters' = w /\ completeChans' = [completeChans EXCEPT ![n] = 0]
      BY DEF Reap
<1>2. /\ waiters \in Seq(Waiters) /\ completeChans \in [Ids -> 0..Len(waiters)]
      /\ DOMAIN waiters = 1..Len(waiters) /\ Len(waiters) \in Nat
      /\ \A j \in DOMAIN waiters : waiters[j] \in Waiters
      BY DEF TypeOK
<1>3. ASSUME NEW j \in DOMAIN waiters
      PROVE  /\ w[j] \in Waiters /\ w[j].id = waiters[j].id
             /\ w[j].closed = (waiters[j].closed \/ j = c)
             /\ w[j].pc = IF j = k THEN "done" ELSE waiters[j].pc
  <2>1. w[j] = [waiters[j] EXCEPT !.pc = IF j = k THEN "done" ELSE @, !.closed = @ \/ j = c]
        OBVIOUS
  <2> HIDE DEF w, c
  <2> QED BY <1>2, <2>1 DEF Waiters
<1>4. DOMAIN w = 1..Len(waiters)
      BY <1>2
<1> HIDE DEF w
<1>5. w \in Seq(Waiters) /\ Len(w) = Len(waiters)
  <2>1. \A j \in 1..Len(waiters) : w[j] \in Waiters
        BY <1>2, <1>3
  <2>2. w = [j \in 1..Len(waiters) |-> w[j]]
        BY <1>1, <1>4 DEF w
  <2> QED BY ONLY <1>2, <1>4, <2>1, <2>2
<1>6. n \in Ids /\ k \in Nat \ {0}
      BY <1>2 DEF Waiters
<1> QED BY <1>1, <1>2, <1>3, <1>4, <1>5, <1>6

\* A waiter is started for a Notification.
LEMMA Started ==
  ASSUME TypeOK, MainToUnack, message.type = "Notification"
  PROVE  LET n == message.id
             l == Len(waiters) + 1
         IN  /\ waiters' \in Seq(Waiters) /\ l \in Nat \ {0} /\ Len(waiters') = l
             /\ DOMAIN waiters = 1..Len(waiters) /\ DOMAIN waiters' = 1..l
             /\ \A j \in DOMAIN waiters : waiters'[j] = waiters[j]
             /\ waiters'[l].id = n /\ waiters'[l].pc = "waiting" /\ waiters'[l].closed = FALSE
             /\ n \in Ids /\ agent' = 0
             /\ \A m \in Ids : completeChans'[m] = IF m = n THEN l ELSE completeChans[m]
             /\ completeChans' \in [Ids -> 0..Len(waiters')]
<1> DEFINE n == message.id
           l == Len(waiters) + 1
           e == [id |-> n, pc |-> "waiting", closed |-> FALSE]
<1>1. /\ n \in Ids /\ waiters' = Append(waiters, e)
      /\ completeChans' = [completeChans EXCEPT ![n] = Len(waiters')] /\ agent' = 0
      BY AtHand DEF MainToUnack
<1>2. e \in Waiters /\ e.id = n /\ e.pc = "waiting" /\ e.closed = FALSE
      BY <1>1 DEF Waiters
<1> HIDE DEF e
<1>3. /\ waiters' \in Seq(Waiters) /\ Len(waiters) \in Nat /\ Len(waiters') = l
      /\ DOMAIN waiters = 1..Len(waiters) /\ DOMAIN waiters' = 1..l
      /\ \A j \in DOMAIN waiters : waiters'[j] = waiters[j]
      /\ waiters'[l] = e
      BY <1>1, <1>2, Appended DEF TypeOK
<1>4. completeChans \in [Ids -> 0..Len(waiters)]
      BY DEF TypeOK
<1> QED BY <1>1, <1>2, <1>3, <1>4

\* The main loop takes a message off the bus.
LEMMA Received ==
  ASSUME NEW m \in Messages, Receive(m)
  PROVE  /\ main = "recv" /\ main' \in {"recv", "unack", "push"}
         /\ message' \in Messages \cup {None}
         /\ main' = "recv" <=> message' = None
         /\ main' # "recv" => message' = m
         /\ main' = "push" => WantsPush(m)
BY NoneAssumption DEF Receive, AfterUnack

\* The message the main loop has at hand has been with the agent.
LEMMA Handed ==
  ASSUME TypeOK, MainToUnack
  PROVE  /\ message \in Messages /\ message.id \in Ids
         /\ main' \in {"recv", "push"}
         /\ message' \in Messages \cup {None}
         /\ main' = "recv" <=> message' = None
         /\ main' = "push" => message' = message /\ WantsPush(message)
BY AtHand, NoneAssumption DEF MainToUnack, AfterUnack

\* The agent's map.
LEMMA MapEntry ==
  ASSUME TypeOK
  PROVE  /\ DOMAIN waiters = 1..Len(waiters) /\ Len(waiters) \in Nat
         /\ \A k \in DOMAIN waiters : waiters[k] \in Waiters /\ waiters[k].id \in Ids
         /\ \A n \in Ids :
              /\ completeChans[n] \in 0..Len(waiters)
              /\ completeChans[n] # 0 =>
                   completeChans[n] \in DOMAIN waiters /\ waiters[completeChans[n]].id = n
<1>1. DOMAIN waiters = 1..Len(waiters) /\ Len(waiters) \in Nat
      BY DEF TypeOK
<1>2. \A k \in DOMAIN waiters : waiters[k] \in Waiters
      BY DEF TypeOK
<1>3. \A w \in Waiters : w.id \in Ids
      BY DEF Waiters
<1>4. \A n \in Ids :
        /\ completeChans[n] \in 0..Len(waiters)
        /\ completeChans[n] # 0 => waiters[completeChans[n]].id = n
      BY DEF TypeOK
<1> QED BY <1>1, <1>2, <1>3, <1>4

\* What a step of a waiter, but for reaping, does to it.
LEMMA WaiterStepped ==
  ASSUME TypeOK, NEW k \in DOMAIN waiters, Complete(k) \/ ClosedWake(k) \/ Timeout(k) \/ WaiterPush(k)
  PROVE  /\ \E pc \in {"pushing", "reaping"} : Goto(k, pc)
         /\ UNCHANGED <<main, message, completeChans, busVars>>
         /\ agent' \in {agent, 0}
BY DEF Complete, ClosedWake, Timeout, WaiterPush
-----------------------------------------------------------------------------
(* The inductive invariant *)

LEMMA InitIInv == Init => IInv
<1> SUFFICES ASSUME Init PROVE IInv
  OBVIOUS
<1> USE DEF Init
<1>1. TypeOK
      BY NotifyAssumption DEF TypeOK
<1>2. MapHoldsLiveWaiters /\ RecentAreLast /\ Debounced
      BY DEF MapHoldsLiveWaiters, RecentAreLast, Debounced
<1>3. MessageFromBus /\ OneWaiterEach /\ EitherWay
      BY DEF MessageFromBus, OneWaiterEach, NoWaiter, EitherWay, AcknowledgedOrSent, Sent
<1> QED BY <1>1, <1>2, <1>3 DEF IInv

LEMMA TypeStep == IInv /\ [Next]_vars => TypeOK'
<1> SUFFICES ASSUME IInv, [Next]_vars PROVE TypeOK'
  OBVIOUS
<1>0. TypeOK /\ RecentAreLast /\ Debounced
      BY DEF IInv
<1>1. ASSUME NEW n \in Ids, ReceiveNotification(n) PROVE TypeOK'
  <2>1. [type |-> "Notification", id |-> n, screenSaverOn |-> FALSE] \in Messages
        BY DEF Messages
  <2>2. UNCHANGED <<waitVars, pushVars, acknowledged, displays, unseen>> /\ notes' \in [Ids -> Nat]
        BY <1>0, <1>1 DEF ReceiveNotification, Receive, TypeOK
  <2> QED BY <1>0, <1>1, <2>1, <2>2, Received DEF ReceiveNotification, TypeOK, waitVars, pushVars
<1>2. ASSUME NEW n \in Ids, NEW on \in BOOLEAN, ReceiveDisplayed(n, on) PROVE TypeOK'
  <2>1. [type |-> "NotificationDisplayed", id |-> n, screenSaverOn |-> on] \in Messages
        BY DEF Messages
  <2>2. /\ UNCHANGED <<waitVars, pushVars, acknowledged, notes>> /\ displays' \in [Ids -> Nat]
        /\ unseen' \subseteq Ids
        BY <1>0, <1>2 DEF ReceiveDisplayed, Receive, TypeOK
  <2> QED BY <1>0, <1>2, <2>1, <2>2, Received DEF ReceiveDisplayed, TypeOK, waitVars, pushVars
<1>3. CASE MainToUnack
  <2>1. UNCHANGED <<pushVars, busVars, acknowledged>>
        BY <1>3 DEF MainToUnack
  <2>2. CASE /\ message.type = "NotificationDisplayed" /\ agent' = completeChans[message.id]
             /\ UNCHANGED <<completeChans, waiters>>
    <3>1. agent' \in 0..Len(waiters)
          BY <1>0, <1>3, <2>2, Handed, MapEntry
    <3> QED BY <1>0, <1>3, <2>1, <2>2, <3>1, Handed DEF TypeOK, pushVars, busVars
  <2>3. CASE message.type = "Notification"
    <3>1. PICK n, l : /\ n = message.id /\ l = Len(waiters) + 1
          OBVIOUS
    <3>2. /\ waiters' \in Seq(Waiters) /\ l \in Nat \ {0} /\ Len(waiters') = l
          /\ \A j \in DOMAIN waiters : waiters'[j] = waiters[j]
          /\ waiters'[l].id = n
          /\ agent' = 0
          /\ \A m \in Ids : completeChans'[m] = IF m = n THEN l ELSE completeChans[m]
          /\ completeChans' \in [Ids -> 0..Len(waiters')]
          BY <1>0, <1>3, <2>3, <3>1, Started
    <3>3. ASSUME NEW m \in Ids, completeChans'[m] # 0 PROVE waiters'[completeChans'[m]].id = m
          BY <1>0, <3>2, <3>3, MapEntry
    <3>4. agent' \in 0..Len(waiters')
          BY <3>2
    <3> QED BY <1>0, <1>3, <2>1, <3>2, <3>3, <3>4, Handed DEF TypeOK, pushVars, busVars
  <2> QED BY <1>3, <2>2, <2>3 DEF MainToUnack
<1>4. CASE MainPush
  <2>1. message.id \in Ids /\ PusherTakes(message.id)
        BY <1>0, <1>4, AtHand DEF MainPush
  <2>2. /\ recentIds' \in Seq(Ids) /\ Len(recentIds') <= RecentCap
        /\ attempts' \in Seq(Ids) /\ pusher' \in {"recv", "busy"}
        BY <1>0, <2>1, Pushed
  <2> QED BY <1>0, <1>4, <2>2 DEF MainPush, TypeOK, waitVars, busVars
<1>5. CASE PusherDone
      BY <1>0, <1>5 DEF PusherDone, TypeOK, waitVars, busVars
<1>6. ASSUME NEW k \in DOMAIN waiters, Complete(k) \/ ClosedWake(k) \/ Timeout(k) \/ WaiterPush(k)
      PROVE  TypeOK'
  <2>1. PICK pc \in {"pushing", "reaping"} : Goto(k, pc)
        BY <1>0, <1>6, WaiterStepped
  <2>2. /\ waiters' \in Seq(Waiters) /\ Len(waiters') = Len(waiters)
        /\ \A j \in DOMAIN waiters : waiters'[j].id = waiters[j].id
        BY <1>0, <2>1, WentOn
  <2>3. \A n \in Ids : completeChans[n] # 0 => waiters'[completeChans[n]].id = n
        BY <1>0, <2>2, MapEntry
  <2>4. UNCHANGED <<main, message, completeChans, notes, displays, unseen>> /\ agent' \in 0..Len(waiters')
        BY <1>0, <1>6, <2>2, WaiterStepped DEF TypeOK, busVars
  <2>5. /\ recentIds' \in Seq(Ids) /\ Len(recentIds') <= RecentCap
        /\ attempts' \in Seq(Ids) /\ pusher' \in {"recv", "busy"}
    <3>1. CASE UNCHANGED pushVars
          BY <1>0, <3>1 DEF TypeOK, pushVars
    <3>2. CASE WaiterPush(k)
          BY <1>0, <2>1, <3>2, Pushed, WentOn DEF WaiterPush
    <3> QED BY <1>6, <3>1, <3>2 DEF Complete, ClosedWake, Timeout
  <2>6. acknowledged' \subseteq Ids
        BY <1>0, <1>6, MapEntry DEF Complete, ClosedWake, Timeout, WaiterPush, TypeOK
  <2> QED BY <1>0, <2>2, <2>3, <2>4, <2>5, <2>6 DEF TypeOK
<1>7. ASSUME NEW k \in DOMAIN waiters, Reap(k) PROVE TypeOK'
  <2>1. PICK n : n = waiters[k].id
        OBVIOUS
  <2>2. /\ waiters' \in Seq(Waiters) /\ Len(waiters') = Len(waiters)
        /\ \A j \in DOMAIN waiters : waiters'[j].id = waiters[j].id
        /\ \A m \in Ids : completeChans'[m] = IF m = n THEN 0 ELSE completeChans[m]
        /\ completeChans' \in [Ids -> 0..Len(waiters')]
        BY <1>0, <1>7, <2>1, Reaped
  <2>3. \A m \in Ids : completeChans'[m] # 0 => waiters'[completeChans'[m]].id = m
        BY <1>0, <2>2, MapEntry
  <2>4. UNCHANGED <<main, message, agent, pushVars, busVars, acknowledged>>
        BY <1>7 DEF Reap
  <2> QED BY <1>0, <2>2, <2>3, <2>4 DEF TypeOK, pushVars, busVars
<1>8. CASE UNCHANGED vars
      BY <1>0, <1>8 DEF TypeOK, vars
<1> QED BY <1>1, <1>2, <1>3, <1>4, <1>5, <1>6, <1>7, <1>8 DEF Next

LEMMA MapStep == IInv /\ [Next]_vars => MapHoldsLiveWaiters'
<1> SUFFICES ASSUME IInv, [Next]_vars PROVE MapHoldsLiveWaiters'
  OBVIOUS
<1>0. TypeOK /\ MapHoldsLiveWaiters
      BY DEF IInv
<1>1. ASSUME UNCHANGED waitVars PROVE MapHoldsLiveWaiters'
      BY <1>0, <1>1 DEF MapHoldsLiveWaiters, waitVars
<1>2. CASE MainToUnack
  <2>1. CASE agent' = completeChans[message.id] /\ UNCHANGED <<completeChans, waiters>>
        BY <1>0, <1>2, <2>1, Handed DEF MapHoldsLiveWaiters
  <2>2. CASE message.type = "Notification"
    <3>1. PICK n, l : n = message.id /\ l = Len(waiters) + 1
          OBVIOUS
    <3>2. /\ l \in Nat \ {0} /\ DOMAIN waiters = 1..Len(waiters) /\ DOMAIN waiters' = 1..l
          /\ \A j \in DOMAIN waiters : waiters'[j] = waiters[j]
          /\ waiters'[l].pc = "waiting" /\ waiters'[l].closed = FALSE
          /\ agent' = 0
          /\ \A m \in Ids : completeChans'[m] = IF m = n THEN l ELSE completeChans[m]
          BY <1>0, <1>2, <2>2, <3>1, Started
    <3>3. ASSUME NEW j \in DOMAIN waiters', (\E m \in Ids : completeChans'[m] = j) \/ agent' = j
          PROVE  ~waiters'[j].closed /\ waiters'[j].pc # "done"
      <4>1. CASE j = l
            BY <3>2, <4>1
      <4>2. CASE j \in DOMAIN waiters
        <5>1. j # 0 /\ j # l /\ \E m \in Ids : completeChans[m] = j
              BY <1>0, <3>1, <3>2, <3>3, <4>2, MapEntry
        <5> QED BY <1>0, <3>2, <4>2, <5>1 DEF MapHoldsLiveWaiters
      <4> QED BY <1>0, <3>1, <3>2, <4>1, <4>2, MapEntry
    <3> QED BY <3>3 DEF MapHoldsLiveWaiters
  <2> QED BY <1>2, <2>1, <2>2 DEF MainToUnack
<1>3. ASSUME NEW k \in DOMAIN waiters, Complete(k) \/ ClosedWake(k) \/ Timeout(k) \/ WaiterPush(k)
      PROVE  MapHoldsLiveWaiters'
  <2>1. /\ \E pc \in {"pushing", "reaping"} : Goto(k, pc)
        /\ UNCHANGED completeChans /\ agent' \in {agent, 0}
        BY <1>0, <1>3, WaiterStepped
  <2>2. PICK pc \in {"pushing", "reaping"} : Goto(k, pc)
        BY <2>1
  <2>3. /\ DOMAIN waiters' = DOMAIN waiters
        /\ \A j \in DOMAIN waiters :
             /\ waiters'[j].closed = waiters[j].closed
             /\ waiters'[j].pc = IF j = k THEN pc ELSE waiters[j].pc
        BY <1>0, <2>2, WentOn
  <2>4. \A j \in DOMAIN waiters : j # 0
        BY <1>0, MapEntry
  <2> QED BY <1>0, <2>1, <2>3, <2>4 DEF MapHoldsLiveWaiters
<1>4. ASSUME NEW k \in DOMAIN waiters, Reap(k) PROVE MapHoldsLiveWaiters'
  <2>1. PICK n, c : n = waiters[k].id /\ c = completeChans[n]
        OBVIOUS
  <2>2. /\ DOMAIN waiters' = DOMAIN waiters
        /\ \A j \in DOMAIN waiters :
             /\ waiters'[j].closed = (waiters[j].closed \/ j = c)
             /\ waiters'[j].pc = IF j = k THEN "done" ELSE waiters[j].pc
        /\ n \in Ids
        /\ \A m \in Ids : completeChans'[m] = IF m = n THEN 0 ELSE completeChans[m]
        BY <1>0, <1>4, <2>1, Reaped
  <2>3. agent' = 0
        BY <1>4 DEF Reap
  <2>4. ASSUME NEW j \in DOMAIN waiters, (\E m \in Ids : completeChans'[m] = j) \/ agent' = j
        PROVE  ~waiters'[j].closed /\ waiters'[j].pc # "done"
    <3>1. j # 0
          BY <1>0, MapEntry
    <3>2. PICK m \in Ids : m # n /\ completeChans[m] = j
          BY <2>2, <2>3, <2>4, <3>1
    <3>3. waiters[j].id = m
          BY <1>0, <3>1, <3>2, MapEntry
    <3>4. j # k /\ j # c
          BY <1>0, <2>1, <2>2, <3>2, <3>3, MapEntry
    <3>5. ~waiters[j].closed /\ waiters[j].pc # "done"
          BY <1>0, <3>2 DEF MapHoldsLiveWaiters
    <3> QED BY <2>2, <3>4, <3>5
  <2> QED BY <2>2, <2>4 DEF MapHoldsLiveWaiters
<1> QED BY <1>1, <1>2, <1>3, <1>4
        DEF Next, ReceiveNotification, ReceiveDisplayed, Receive, MainPush, PusherDone, vars, waitVars

LEMMA RecentStep == IInv /\ [Next]_vars => RecentAreLast' /\ Debounced'
<1> SUFFICES ASSUME IInv, [Next]_vars PROVE RecentAreLast' /\ Debounced'
  OBVIOUS
<1>0. TypeOK /\ RecentAreLast /\ Debounced
      BY DEF IInv
<1>1. CASE UNCHANGED <<recentIds, attempts>>
      BY <1>0, <1>1 DEF RecentAreLast, Debounced
<1>2. CASE \E n \in Ids : PusherTakes(n)
      BY <1>0, <1>2, Pushed
<1>3. MainPush => \E n \in Ids : PusherTakes(n)
      BY <1>0, AtHand DEF MainPush
<1>4. ASSUME NEW k \in DOMAIN waiters, WaiterPush(k) PROVE \E n \in Ids : PusherTakes(n)
      BY <1>0, <1>4, MapEntry DEF WaiterPush
<1> QED BY <1>1, <1>2, <1>3, <1>4
        DEF Next, ReceiveNotification, ReceiveDisplayed, Receive, MainToUnack, PusherDone,
            Complete, ClosedWake, Timeout, Reap, vars, pushVars

LEMMA BusStep == IInv /\ [Next]_vars => MessageFromBus'
<1> SUFFICES ASSUME IInv, [Next]_vars PROVE MessageFromBus'
  OBVIOUS
<1>0. TypeOK /\ MessageFromBus
      BY DEF IInv
<1>1. ASSUME NEW n \in Ids, ReceiveNotification(n) PROVE MessageFromBus'
  <2>1. PICK m \in Messages : m = [type |-> "Notification", id |-> n, screenSaverOn |-> FALSE]
        BY DEF Messages
  <2>2. Receive(m) /\ m.type = "Notification"
        BY <1>1, <2>1 DEF ReceiveNotification
  <2> QED BY <2>2, Received DEF MessageFromBus, WantsPush
<1>2. ASSUME NEW n \in Ids, NEW on \in BOOLEAN, ReceiveDisplayed(n, on) PROVE MessageFromBus'
  <2>1. PICK m \in Messages : m = [type |-> "NotificationDisplayed", id |-> n, screenSaverOn |-> on]
        BY DEF Messages
  <2>2. Receive(m) /\ (m.screenSaverOn => m.id \in unseen')
        BY <1>2, <2>1 DEF ReceiveDisplayed
  <2> QED BY <2>2, Received DEF MessageFromBus, WantsPush
<1>3. CASE MainToUnack
      BY <1>0, <1>3, Handed DEF MessageFromBus, WantsPush, MainToUnack, busVars
<1>4. CASE MainPush
      BY <1>4 DEF MainPush, MessageFromBus
<1>5. CASE UNCHANGED <<main, message, busVars>>
      BY <1>0, <1>5 DEF MessageFromBus, WantsPush, busVars
<1> QED BY <1>1, <1>2, <1>3, <1>4, <1>5
        DEF Next, PusherDone, Complete, ClosedWake, Timeout, WaiterPush, Reap, vars, busVars

LEMMA WaiterStep == IInv /\ [Next]_vars => OneWaiterEach'
<1> SUFFICES ASSUME IInv, [Next]_vars PROVE OneWaiterEach'
  OBVIOUS
<1>0. TypeOK /\ OneWaiterEach
      BY DEF IInv
<1>1. ASSUME NEW n \in Ids, ReceiveNotification(n) PROVE OneWaiterEach'
  <2>1. PICK m \in Messages : m = [type |-> "Notification", id |-> n, screenSaverOn |-> FALSE]
        BY DEF Messages
  <2>2. Receive(m) /\ m.id = n /\ UNCHANGED waiters
        BY <1>1, <2>1 DEF ReceiveNotification, Receive, waitVars
  <2>3. /\ \A i \in Ids : notes[i] \in Nat
        /\ \A i \in Ids : notes'[i] = IF i = n THEN notes[n] + 1 ELSE notes[i]
        BY <1>0, <1>1 DEF ReceiveNotification, TypeOK
  <2>4. main' # "recv" => message' = m
        BY <2>2, Received
  <2>5. ASSUME NEW i \in Ids, notes'[i] <= 1
        PROVE  /\ \A j, k \in DOMAIN waiters : waiters[j].id = i /\ waiters[k].id = i => j = k
               /\ notes'[i] = 0 => NoWaiter(i)
               /\ main' = "unack" /\ message'.type = "Notification" /\ message'.id = i
                    => notes'[i] # 0 /\ NoWaiter(i)
    <3>1. CASE i = n
      <4>1. notes[n] = 0 /\ notes'[n] = 1
            BY <2>3, <2>5, <3>1
      <4>2. NoWaiter(n)
            BY <1>0, <4>1 DEF OneWaiterEach
      <4> QED BY <3>1, <4>1, <4>2 DEF NoWaiter
    <3>2. CASE i # n
      <4>1. notes'[i] = notes[i] /\ ~(main' = "unack" /\ message'.id = i)
            BY <2>2, <2>3, <2>4, <3>2
      <4> QED BY <1>0, <2>5, <4>1 DEF OneWaiterEach
    <3> QED BY <3>1, <3>2
  <2> QED BY <2>2, <2>5 DEF OneWaiterEach, NoWaiter
<1>2. ASSUME NEW n \in Ids, NEW on \in BOOLEAN, ReceiveDisplayed(n, on) PROVE OneWaiterEach'
  <2>1. PICK m \in Messages : m = [type |-> "NotificationDisplayed", id |-> n, screenSaverOn |-> on]
        BY DEF Messages
  <2>2. Receive(m) /\ m.type # "Notification" /\ UNCHANGED <<waiters, notes>>
        BY <1>2, <2>1 DEF ReceiveDisplayed, Receive, waitVars
  <2>3. ~(main' = "unack" /\ message'.type = "Notification")
        BY <2>2, Received
  <2> QED BY <1>0, <2>2, <2>3 DEF OneWaiterEach, NoWaiter
<1>3. CASE MainToUnack
  <2>1. UNCHANGED notes /\ main = "unack" /\ main' # "unack"
        BY <1>0, <1>3, Handed DEF MainToUnack, busVars
  <2>2. CASE UNCHANGED waiters
        BY <1>0, <2>1, <2>2 DEF OneWaiterEach, NoWaiter
  <2>3. CASE message.type = "Notification"
    <3>1. PICK n, l : n = message.id /\ l = Len(waiters) + 1
          OBVIOUS
    <3>2. /\ l \in Nat \ {0} /\ DOMAIN waiters = 1..Len(waiters) /\ DOMAIN waiters' = 1..l
          /\ \A j \in DOMAIN waiters : waiters'[j] = waiters[j]
          /\ waiters'[l].id = n
          BY <1>0, <1>3, <2>3, <3>1, Started
    <3>3. DOMAIN waiters' = DOMAIN waiters \cup {l}
          BY <1>0, <3>1, <3>2, MapEntry
    <3>4. ASSUME NEW i \in Ids, notes[i] <= 1
          PROVE  /\ \A j, k \in DOMAIN waiters' : waiters'[j].id = i /\ waiters'[k].id = i => j = k
                 /\ notes[i] = 0 => \A k \in DOMAIN waiters' : waiters'[k].id # i
      <4>1. CASE i = n
        <5>1. notes[i] # 0 /\ \A k \in DOMAIN waiters : waiters[k].id # i
              BY <1>0, <2>1, <2>3, <3>1, <3>4, <4>1 DEF OneWaiterEach, NoWaiter
        <5> QED BY <3>2, <3>3, <5>1
      <4>2. CASE i # n
        <5>1. /\ \A j, k \in DOMAIN waiters : waiters[j].id = i /\ waiters[k].id = i => j = k
              /\ notes[i] = 0 => \A k \in DOMAIN waiters : waiters[k].id # i
              BY <1>0, <3>4 DEF OneWaiterEach, NoWaiter
        <5> QED BY <3>2, <3>3, <4>2, <5>1
      <4> QED BY <4>1, <4>2
    <3> QED BY <2>1, <3>4 DEF OneWaiterEach, NoWaiter
  <2> QED BY <1>3, <2>2, <2>3 DEF MainToUnack
<1>4. CASE MainPush
      BY <1>0, <1>4 DEF MainPush, OneWaiterEach, NoWaiter, waitVars, busVars
<1>5. ASSUME DOMAIN waiters' = DOMAIN waiters, \A j \in DOMAIN waiters : waiters'[j].id = waiters[j].id,
             UNCHANGED <<main, message, notes>>
      PROVE  OneWaiterEach'
      BY <1>0, <1>5 DEF OneWaiterEach, NoWaiter
<1>6. ASSUME NEW k \in DOMAIN waiters, Complete(k) \/ ClosedWake(k) \/ Timeout(k) \/ WaiterPush(k)
      PROVE  OneWaiterEach'
  <2>1. PICK pc \in {"pushing", "reaping"} : Goto(k, pc)
        BY <1>0, <1>6, WaiterStepped
  <2>2. DOMAIN waiters' = DOMAIN waiters /\ \A j \in DOMAIN waiters : waiters'[j].id = waiters[j].id
        BY <1>0, <2>1, WentOn
  <2>3. UNCHANGED <<main, message, notes>>
        BY <1>0, <1>6, WaiterStepped DEF busVars
  <2> QED BY <1>5, <2>2, <2>3
<1>7. ASSUME NEW k \in DOMAIN waiters, Reap(k) PROVE OneWaiterEach'
  <2>1. DOMAIN waiters' = DOMAIN waiters /\ \A j \in DOMAIN waiters : waiters'[j].id = waiters[j].id
        BY <1>0, <1>7, Reaped
  <2>2. UNCHANGED <<main, message, notes>>
        BY <1>7 DEF Reap, busVars
  <2> QED BY <1>5, <2>1, <2>2
<1>8. CASE PusherDone \/ UNCHANGED vars
      BY <1>0, <1>8 DEF PusherDone, OneWaiterEach, NoWaiter, waitVars, busVars, vars
<1> QED BY <1>1, <1>2, <1>3, <1>4, <1>6, <1>7, <1>8 DEF Next

\* The messages of an id are counted, and those seen under a screen saver
\* remembered: what is left to its waiter now was left to it before.
LEMMA StillLeft ==
  ASSUME TypeOK, [Next]_vars, NEW n \in Ids, LeftToWaiter(n)'
  PROVE  LeftToWaiter(n)
<1>1. notes[n] \in Nat
      BY DEF TypeOK
<1>2. CASE UNCHANGED <<notes, unseen>>
      BY <1>2 DEF LeftToWaiter
<1>3. ASSUME NEW m \in Ids, ReceiveNotification(m) PROVE LeftToWaiter(n)
  <2>1. notes'[n] = IF n = m THEN notes[n] + 1 ELSE notes[n]
        BY <1>3 DEF ReceiveNotification, TypeOK
  <2> QED BY <1>1, <1>3, <2>1 DEF ReceiveNotification, LeftToWaiter
<1>4. ASSUME NEW m \in Ids, NEW on \in BOOLEAN, ReceiveDisplayed(m, on) PROVE LeftToWaiter(n)
      BY <1>4 DEF ReceiveDisplayed, LeftToWaiter
<1> QED BY <1>2, <1>3, <1>4
        DEF Next, MainToUnack, MainPush, PusherDone, Complete, ClosedWake, Timeout, WaiterPush, Reap,
            vars, busVars

LEMMA EitherStep == IInv /\ [Next]_vars => EitherWay'
<1> SUFFICES ASSUME IInv, [Next]_vars, NEW n \in Ids, LeftToWaiter(n)' PROVE AcknowledgedOrSent(n)'
  BY DEF EitherWay
<1>0. /\ TypeOK /\ LeftToWaiter(n) /\ AcknowledgedOrSent(n)
      /\ \A j, k \in DOMAIN waiters : waiters[j].id = n /\ waiters[k].id = n => j = k
      BY StillLeft DEF IInv, EitherWay, OneWaiterEach, LeftToWaiter
<1>1. CASE UNCHANGED <<waiters, attempts, acknowledged>>
      BY <1>0, <1>1 DEF AcknowledgedOrSent, NoWaiter, Sent
<1>2. CASE MainToUnack
  <2>1. UNCHANGED <<attempts, acknowledged>>
        BY <1>2 DEF MainToUnack, pushVars
  <2>2. CASE message.type = "Notification"
    <3>1. PICK i, l : i = message.id /\ l = Len(waiters) + 1
          OBVIOUS
    <3>2. /\ l \in Nat \ {0} /\ DOMAIN waiters = 1..Len(waiters) /\ DOMAIN waiters' = 1..l
          /\ \A j \in DOMAIN waiters : waiters'[j] = waiters[j]
          /\ waiters'[l].id = i
          BY <1>0, <1>2, <2>2, <3>1, Started
    <3>3. DOMAIN waiters' = DOMAIN waiters \cup {l}
          BY <1>0, <3>1, <3>2, MapEntry
    <3>4. CASE i = n
      <4>1. NoWaiter(n)
            BY <1>0, <1>2, <2>2, <3>1, <3>4 DEF IInv, OneWaiterEach, MainToUnack, LeftToWaiter
      <4>2. n \notin acknowledged /\ ~Sent(n)
            BY <1>0, <4>1 DEF AcknowledgedOrSent
      <4> QED BY <2>1, <4>2 DEF AcknowledgedOrSent, Sent
    <3>5. CASE i # n
      <4>1. NoWaiter(n)' => NoWaiter(n)
            BY <3>2, <3>3 DEF NoWaiter
      <4> QED BY <1>0, <2>1, <3>2, <3>3, <3>5, <4>1 DEF AcknowledgedOrSent, Sent
    <3> QED BY <3>4, <3>5
  <2> QED BY <1>1, <1>2, <2>1, <2>2 DEF MainToUnack
<1>3. CASE MainPush
  <2>1. message \in Messages /\ message.id \in Ids /\ PusherTakes(message.id) /\ WantsPush(message)
        BY <1>0, <1>3, AtHand DEF MainPush, IInv, MessageFromBus
  <2>2. message.id # n
    <3>1. {Level[n], LevelAlways} \subseteq Nat /\ ~(Level[n] >= LevelAlways) /\ n \notin unseen
          BY <1>0, NotifyAssumption DEF LeftToWaiter
    <3> QED BY <1>3, <2>1, <3>1 DEF WantsPush, IInv, MessageFromBus, MainPush
  <2>3. Sent(n)' => Sent(n)
        BY <1>0, <2>1, <2>2, Pushed DEF IInv
  <2>4. UNCHANGED <<waiters, acknowledged>>
        BY <1>3 DEF MainPush, waitVars
  <2> QED BY <1>0, <2>3, <2>4 DEF AcknowledgedOrSent, NoWaiter
<1>4. ASSUME NEW k \in DOMAIN waiters, Complete(k) \/ ClosedWake(k) \/ Timeout(k) \/ WaiterPush(k)
      PROVE  AcknowledgedOrSent(n)'
  <2>1. PICK pc \in {"pushing", "reaping"} : Goto(k, pc)
        BY <1>0, <1>4, WaiterStepped
  <2>2. /\ DOMAIN waiters' = DOMAIN waiters
        /\ \A j \in DOMAIN waiters :
             /\ waiters'[j].id = waiters[j].id
             /\ waiters'[j].pc = IF j = k THEN pc ELSE waiters[j].pc
        /\ waiters[k].id \in Ids
        BY <1>0, <2>1, WentOn
  <2>3. NoWaiter(n)' <=> NoWaiter(n)
        BY <2>2 DEF NoWaiter
  <2>4. CASE Complete(k)
    <3>1. /\ waiters[k].pc = "waiting" /\ UNCHANGED attempts /\ (Sent(n)' <=> Sent(n))
          /\ acknowledged' = acknowledged \cup {waiters[k].id}
          BY <2>4 DEF Complete, pushVars, Sent
    <3>2. CASE waiters[k].id = n
      <4>1. \A j \in DOMAIN waiters : waiters[j].id = n => waiters'[j].pc = "reaping"
            BY <1>0, <2>2, <2>4, <3>2, WentOn DEF Complete
      <4>2. ~Sent(n) /\ ~NoWaiter(n)
            BY <1>0, <3>1, <3>2 DEF AcknowledgedOrSent, NoWaiter
      <4> QED BY <2>2, <2>3, <3>1, <4>1, <4>2 DEF AcknowledgedOrSent
    <3>3. CASE waiters[k].id # n
          BY <1>0, <2>2, <2>3, <3>1, <3>3 DEF AcknowledgedOrSent
    <3> QED BY <3>2, <3>3
  <2>5. CASE ClosedWake(k) \/ Timeout(k)
    <3>1. waiters[k].pc = "waiting" /\ (Sent(n)' <=> Sent(n)) /\ UNCHANGED acknowledged
          BY <2>5 DEF ClosedWake, Timeout, pushVars, Sent
    <3> QED BY <1>0, <2>2, <2>3, <3>1 DEF AcknowledgedOrSent
  <2>6. CASE WaiterPush(k)
    <3>1. waiters[k].pc = "pushing" /\ PusherTakes(waiters[k].id) /\ UNCHANGED acknowledged
          BY <2>6 DEF WaiterPush
    <3>2. Sent(n)' => Sent(n) \/ n = waiters[k].id
          BY <1>0, <2>2, <3>1, Pushed DEF IInv
    <3>3. CASE waiters[k].id = n
      <4>1. \A j \in DOMAIN waiters : waiters[j].id = n => waiters'[j].pc = "reaping"
            BY <1>0, <2>2, <2>6, <3>3, WentOn DEF WaiterPush
      <4>2. n \notin acknowledged /\ ~NoWaiter(n)
            BY <1>0, <3>1, <3>3 DEF AcknowledgedOrSent, NoWaiter
      <4> QED BY <2>2, <2>3, <3>1, <4>1, <4>2 DEF AcknowledgedOrSent
    <3>4. CASE waiters[k].id # n
      <4>1. Sent(n)' => Sent(n)
            BY <3>2, <3>4
      <4> QED BY <1>0, <2>2, <2>3, <3>1, <3>4, <4>1 DEF AcknowledgedOrSent
    <3> QED BY <3>3, <3>4
  <2> QED BY <1>4, <2>4, <2>5, <2>6
<1>5. ASSUME NEW k \in DOMAIN waiters, Reap(k) PROVE AcknowledgedOrSent(n)'
  <2>1. /\ DOMAIN waiters' = DOMAIN waiters
        /\ \A j \in DOMAIN waiters :
             /\ waiters'[j].id = waiters[j].id
             /\ waiters'[j].pc = IF j = k THEN "done" ELSE waiters[j].pc
        BY <1>0, <1>5, Reaped
  <2>2. UNCHANGED acknowledged /\ (Sent(n)' <=> Sent(n)) /\ (NoWaiter(n)' <=> NoWaiter(n))
        BY <1>5, <2>1 DEF Reap, pushVars, Sent, NoWaiter
  <2> QED BY <1>0, <2>1, <2>2 DEF AcknowledgedOrSent
<1> QED BY <1>1, <1>2, <1>3, <1>4, <1>5
        DEF Next, ReceiveNotification, ReceiveDisplayed, Receive, PusherDone, vars, waitVars, pushVars

THEOREM Invariance == Spec => []IInv
<1>1. Init => IInv
      BY InitIInv
<1>2. IInv /\ [Next]_vars => IInv'
      BY TypeStep, MapStep, RecentStep, BusStep, WaiterStep, EitherStep DEF IInv
<1> QED BY <1>1, <1>2, PTL DEF Spec
-----------------------------------------------------------------------------
(* What follows *)

\* The variables of the four goroutines keep their types, and the agent's map
\* and its pending send name waiters started for that id
\* (notify_mobile.go:66-109).
THEOREM TypeCorrect == Spec => []TypeOK
<1>1. IInv => TypeOK
      BY DEF IInv
<1> QED BY <1>1, Invariance, PTL

\* The agent sends on and closes no channel that was closed or whose waiter is
\* gone, though a late acknowledgement or a second copy may name an id whose
\* waiter it has reaped (notify_mobile.go:80-109).
THEOREM ChannelsAreLive == Spec => []MapHoldsLiveWaiters
<1>1. IInv => MapHoldsLiveWaiters
      BY DEF IInv
<1> QED BY <1>1, Invariance, PTL

\* Between two sends of one id go RecentCap others, whoever pushes it
\* (notify_mobile.go:177-188).
THEOREM SendsAreDebounced == Spec => []Debounced
<1>1. IInv => Debounced
      BY DEF IInv
<1> QED BY <1>1, Invariance, PTL

\* A notification that arrived once and was acknowledged in time is not sent,
\* unless for its level or because nobody saw it (notify_mobile.go:66-136).
THEOREM AcknowledgedIsNotSent == Spec => []AcknowledgedNotPushed
<1>1. IInv => AcknowledgedNotPushed
  <2> SUFFICES ASSUME IInv, NEW n \in acknowledged, notes[n] = 1, Level[n] < LevelAlways, n \notin unseen,
                      NEW i \in DOMAIN attempts
               PROVE  attempts[i] # n
    BY DEF AcknowledgedNotPushed
  <2>1. n \in Ids /\ LeftToWaiter(n)
        BY DEF IInv, TypeOK, LeftToWaiter
  <2> QED BY <2>1 DEF IInv, EitherWay, AcknowledgedOrSent, Sent
<1> QED BY <1>1, Invariance, PTL
=============================================================================
