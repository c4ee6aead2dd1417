-------------------------- MODULE IntroducerProofs --------------------------
(***************************************************************************)
(* Proofs about Introducer, for every set of introducers, every assignment *)
(* of levels, all capacities and every number of disturbances.  The main   *)
(* result is that a settled system has no active introducer below another  *)
(* one, but for what an old writer lost.  Settled is far from inductive;   *)
(* what every step preserves is that an active introducer below another    *)
(* one is owed something that will make it step back.                      *)
(***************************************************************************)
EXTENDS Introducer, TLAPS

\* The messages a queue holds.
Held(q) == {q[n] : n \in 1..Len(q)}

\* A queue holds an announcement that outranks level l.
HoldsHigher(q, l) ==
  \E m \in Held(q) : m.type = "IntroducerPresent" /\ m.level > l

\* Why i will hear of j: one of them will call the roll or announce itself
\* after a reconnect, i's roll call is on its way to j, or j's announcement to i.
Due(i, j) ==
  \/ conn[i] # "up" \/ Reconnected \in Held(inbox[i])
  \/ conn[j] # "up" \/ Reconnected \in Held(inbox[j])
  \/ RollCall \in Held(out[i]) \/ RollCall \in Held(inbox[j])
  \/ Present(level[j]) \in Held(out[j])
  \/ HoldsHigher(inbox[i], level[i])

Owed(i, j) == Due(i, j) \/ Unheard(i, j)

LowerIsOwed ==
  \A i, j \in Introducers :
    alive[i] /\ active[i] /\ alive[j] /\ Higher(j, i) => Owed(i, j)

\* An announcement carries the level of some introducer.
Genuine(m) ==
  m.type = "IntroducerPresent" => \E k \in Introducers : m.level = level[k]

AllGenuine ==
  \A i \in Introducers :
    \A m \in Held(out[i]) \cup Held(inbox[i]) \cup Held(fresh[i]) : Genuine(m)

IInv == TypeOK /\ LowerIsOwed /\ AllGenuine /\ HighestStaysActive
-----------------------------------------------------------------------------
(* Queues *)

\* An empty queue holds nothing.
LEMMA HeldEmpty == Held(<<>>) = {}
BY DEF Held

\* Appending adds one message.
LEMMA HeldAppend ==
  ASSUME NEW S, NEW q \in Seq(S), NEW m \in S
  PROVE  Held(Append(q, m)) = Held(q) \cup {m}
<1>1. Len(Append(q, m)) = Len(q) + 1 /\ Len(q) \in Nat
      OBVIOUS
<1>2. \A n \in 1..Len(q) : Append(q, m)[n] = q[n]
      OBVIOUS
<1>3. Append(q, m)[Len(q) + 1] = m
      OBVIOUS
<1> QED BY <1>1, <1>2, <1>3 DEF Held

\* Taking the oldest message leaves the others.
LEMMA HeldTail ==
  ASSUME NEW S, NEW q \in Seq(S), q # <<>>
  PROVE  Held(q) = {Head(q)} \cup Held(Tail(q))
<1>1. /\ Len(q) \in Nat \ {0} /\ Len(Tail(q)) = Len(q) - 1
      /\ Head(q) = q[1]
      OBVIOUS
<1>2. \A n \in 1..Len(Tail(q)) : Tail(q)[n] = q[n + 1]
      OBVIOUS
<1>3. \A n \in 1..Len(q) : n = 1 \/ n - 1 \in 1..Len(Tail(q))
      BY <1>1
<1>4. \A n \in 1..Len(Tail(q)) : n + 1 \in 1..Len(q)
      BY <1>1
<1>5. Held(q) \subseteq {Head(q)} \cup Held(Tail(q))
      BY <1>1, <1>2, <1>3 DEF Held
<1>6. {Head(q)} \cup Held(Tail(q)) \subseteq Held(q)
      BY <1>1, <1>2, <1>4 DEF Held
<1> QED BY <1>5, <1>6

\* A queue with more behind it holds what both hold.
LEMMA HeldConcat ==
  ASSUME NEW S, NEW q \in Seq(S), NEW r \in Seq(S)
  PROVE  Held(q \o r) = Held(q) \cup Held(r)
<1>1. Len(q \o r) = Len(q) + Len(r) /\ Len(q) \in Nat /\ Len(r) \in Nat
      OBVIOUS
<1>2. \A n \in 1..Len(q) : (q \o r)[n] = q[n]
      OBVIOUS
<1>3. \A n \in 1..Len(r) : (q \o r)[Len(q) + n] = r[n]
      OBVIOUS
<1>4. \A n \in 1..Len(q \o r) : n \in 1..Len(q) \/ n - Len(q) \in 1..Len(r)
      BY <1>1
<1>5. \A n \in 1..Len(r) : Len(q) + n \in 1..Len(q \o r)
      BY <1>1
<1>6. Held(q \o r) \subseteq Held(q) \cup Held(r)
  <2>1. ASSUME NEW n \in 1..Len(q \o r)
        PROVE  (q \o r)[n] \in Held(q) \cup Held(r)
    <3>1. CASE n \in 1..Len(q)
          BY <3>1, <1>2 DEF Held
    <3>2. CASE n - Len(q) \in 1..Len(r)
      <4>1. (q \o r)[Len(q) + (n - Len(q))] = r[n - Len(q)]
            BY <3>2, <1>3
      <4>2. Len(q) + (n - Len(q)) = n
            BY <1>1
      <4> QED BY <3>2, <4>1, <4>2 DEF Held
    <3> QED BY <3>1, <3>2, <1>4
  <2> QED BY <2>1 DEF Held
<1>7. Held(q) \cup Held(r) \subseteq Held(q \o r)
  <2>1. \A n \in 1..Len(q) : n \in 1..Len(q \o r)
        BY <1>1
  <2>2. Held(q) \subseteq Held(q \o r)
        BY <2>1, <1>2 DEF Held
  <2>3. Held(r) \subseteq Held(q \o r)
        BY <1>3, <1>5 DEF Held
  <2> QED BY <2>2, <2>3
<1> QED BY <1>6, <1>7
-----------------------------------------------------------------------------
(* Type correctness *)

\* Announcements and the constant messages are messages.
LEMMA MessageTypes ==
  /\ TypeOK => \A i \in Introducers : Present(level[i]) \in Messages
  /\ RollCall \in Messages /\ Reconnected \in Messages
  /\ Plain("Request") \in Messages /\ Plain("Answer") \in Messages
BY DEF TypeOK, Present, Plain, RollCall, Reconnected, Messages, Types

\* No step changes a level.
LEMMA LevelsStay == [Next]_vars => level' = level
BY DEF Next, vars, Start, Timeout, HandlePresent, HandleRollCall, HandleReconnected,
       HandleRequest, Take, Publish, Disconnect, LoseOut, OldWriterEnds, Dial,
       Reconnect, Crash, ClientRequest

\* What Send does to the sender's queue, and only to that.
LEMMA SendOut ==
  ASSUME TypeOK, NEW i \in Introducers, NEW ms \in Seq(Messages), Send(i, ms)
  PROVE  /\ out' \in [Introducers -> Seq(Messages)]
         /\ Held(out'[i]) = Held(out[i]) \cup Held(ms)
         /\ \A j \in Introducers \ {i} : out'[j] = out[j]
<1>1. out' = [out EXCEPT ![i] = out[i] \o ms] /\ out \in [Introducers -> Seq(Messages)]
      BY DEF Send, TypeOK
<1>2. out[i] \o ms \in Seq(Messages) /\ out'[i] = out[i] \o ms
      BY <1>1
<1>3. Held(out[i] \o ms) = Held(out[i]) \cup Held(ms)
      BY <1>1, HeldConcat
<1> QED BY <1>1, <1>2, <1>3

\* The three things an introducer sends.
LEMMA Announcements ==
  ASSUME TypeOK, NEW i \in Introducers
  PROVE  /\ <<Present(level[i]), RollCall>> \in Seq(Messages)
         /\ <<Present(level[i])>> \in Seq(Messages)
         /\ <<RollCall>> \in Seq(Messages)
         /\ <<Plain("Answer")>> \in Seq(Messages)
         /\ Held(<<Present(level[i]), RollCall>>) = {Present(level[i]), RollCall}
         /\ Held(<<Present(level[i])>>) = {Present(level[i])}
         /\ Held(<<RollCall>>) = {RollCall}
<1>1. /\ Present(level[i]) \in Messages /\ RollCall \in Messages
      /\ Plain("Answer") \in Messages
      BY MessageTypes
<1>2. ASSUME NEW a \in Messages, NEW b \in Messages
      PROVE  /\ <<a, b>> \in Seq(Messages) /\ <<a>> \in Seq(Messages)
             /\ Held(<<a, b>>) = {a, b} /\ Held(<<a>>) = {a}
      BY DEF Held
<1> QED BY <1>1, <1>2

\* Announcing adds the announcement, and to the sender's queue only.
LEMMA AnnounceOut ==
  ASSUME TypeOK, NEW i \in Introducers
  PROVE  /\ Send(i, <<Present(level[i]), RollCall>>) =>
              /\ Held(out'[i]) = Held(out[i]) \cup {Present(level[i]), RollCall}
              /\ \A j \in Introducers \ {i} : out'[j] = out[j]
         /\ Send(i, <<Present(level[i])>>) =>
              /\ Held(out'[i]) = Held(out[i]) \cup {Present(level[i])}
              /\ \A j \in Introducers \ {i} : out'[j] = out[j]
<1>1. ASSUME Send(i, <<Present(level[i]), RollCall>>)
      PROVE  /\ Held(out'[i]) = Held(out[i]) \cup {Present(level[i]), RollCall}
             /\ \A j \in Introducers \ {i} : out'[j] = out[j]
  <2>1. /\ Held(out'[i]) = Held(out[i]) \cup Held(<<Present(level[i]), RollCall>>)
        /\ \A j \in Introducers \ {i} : out'[j] = out[j]
        BY <1>1, Announcements, SendOut
  <2> QED BY <2>1, Announcements
<1>2. ASSUME Send(i, <<Present(level[i])>>)
      PROVE  /\ Held(out'[i]) = Held(out[i]) \cup {Present(level[i])}
             /\ \A j \in Introducers \ {i} : out'[j] = out[j]
  <2>1. /\ Held(out'[i]) = Held(out[i]) \cup Held(<<Present(level[i])>>)
        /\ \A j \in Introducers \ {i} : out'[j] = out[j]
        BY <1>2, Announcements, SendOut
  <2> QED BY <2>1, Announcements
<1> QED BY <1>1, <1>2

\* Taking a message leaves the taker with the others.
LEMMA TakeInbox ==
  ASSUME TypeOK, NEW i \in Introducers, NEW t, Take(i, t)
  PROVE  /\ inbox' \in [Introducers -> Seq(Messages)]
         /\ Held(inbox[i]) = {Head(inbox[i])} \cup Held(inbox'[i])
         /\ \A j \in Introducers \ {i} : inbox'[j] = inbox[j]
         /\ Head(inbox[i]).type = t /\ Head(inbox[i]) \in Messages
         /\ alive[i]
         /\ UNCHANGED <<level, alive, conn, old, fresh, lost, disturbances>>
<1>1. /\ inbox[i] \in Seq(Messages) /\ inbox[i] # <<>>
      /\ inbox' = [inbox EXCEPT ![i] = Tail(inbox[i])]
      /\ inbox \in [Introducers -> Seq(Messages)]
      BY DEF Take, TypeOK
<1>2. Tail(inbox[i]) \in Seq(Messages) /\ Head(inbox[i]) \in Messages
      BY <1>1
<1>3. Held(inbox[i]) = {Head(inbox[i])} \cup Held(Tail(inbox[i]))
      BY <1>1, HeldTail
<1> QED BY <1>1, <1>2, <1>3 DEF Take

\* A broadcast adds one message to what each connected receiver is sent.
LEMMA BroadcastInbox ==
  ASSUME TypeOK, NEW S \in SUBSET Introducers, NEW m \in Messages, Broadcast(S, m)
  PROVE  /\ inbox' \in [Introducers -> Seq(Messages)]
         /\ fresh' \in [Introducers -> Seq(Messages)]
         /\ \A j \in Introducers : /\ Held(inbox[j]) \subseteq Held(inbox'[j])
                                    /\ Held(inbox'[j]) \subseteq Held(inbox[j]) \cup {m}
                                    /\ Held(fresh'[j]) \subseteq Held(fresh[j]) \cup {m}
         /\ \A j \in S : conn[j] = "up" => m \in Held(inbox'[j])
         /\ \A j \in Introducers : conn[j] # "up" => inbox'[j] = inbox[j]
         /\ \A j \in Introducers : conn[j] # "dialled" => fresh'[j] = fresh[j]
<1>1. ASSUME NEW j \in Introducers
      PROVE  /\ Append(inbox[j], m) \in Seq(Messages) /\ inbox[j] \in Seq(Messages)
             /\ Append(fresh[j], m) \in Seq(Messages) /\ fresh[j] \in Seq(Messages)
             /\ Held(Append(inbox[j], m)) = Held(inbox[j]) \cup {m}
             /\ Held(Append(fresh[j], m)) = Held(fresh[j]) \cup {m}
  <2>1. inbox[j] \in Seq(Messages) /\ fresh[j] \in Seq(Messages)
        BY DEF TypeOK
  <2> QED BY <2>1, HeldAppend
<1> QED BY <1>1 DEF Broadcast

\* Reconnecting puts Reconnected behind what the loop has, and what came over the
\* new connection behind that.
LEMMA ReconnectInbox ==
  ASSUME TypeOK, NEW i \in Introducers, Reconnect(i)
  PROVE  /\ inbox' \in [Introducers -> Seq(Messages)]
         /\ Held(inbox'[i]) = Held(inbox[i]) \cup {Reconnected} \cup Held(fresh[i])
         /\ \A j \in Introducers \ {i} : inbox'[j] = inbox[j]
<1>1. /\ inbox[i] \in Seq(Messages) /\ fresh[i] \in Seq(Messages)
      /\ Reconnected \in Messages /\ inbox \in [Introducers -> Seq(Messages)]
      /\ inbox' = [inbox EXCEPT ![i] = Append(inbox[i], Reconnected) \o fresh[i]]
      BY MessageTypes DEF TypeOK, Reconnect
<1>2. Append(inbox[i], Reconnected) \in Seq(Messages)
      BY <1>1
<1>3. /\ Held(Append(inbox[i], Reconnected) \o fresh[i])
           = Held(Append(inbox[i], Reconnected)) \cup Held(fresh[i])
      /\ Append(inbox[i], Reconnected) \o fresh[i] \in Seq(Messages)
  <2>1. fresh[i] \in Seq(Messages)
        BY <1>1
  <2>2. ASSUME NEW q \in Seq(Messages)
        PROVE  /\ Held(q \o fresh[i]) = Held(q) \cup Held(fresh[i])
               /\ q \o fresh[i] \in Seq(Messages)
        BY <2>1, HeldConcat
  <2> QED BY ONLY <1>2, <2>2
<1>4. Held(Append(inbox[i], Reconnected)) = Held(inbox[i]) \cup {Reconnected}
  <2>1. inbox[i] \in Seq(Messages) /\ Reconnected \in Messages
        BY <1>1
  <2> QED BY ONLY <2>1, HeldAppend
<1> QED BY <1>1, <1>3, <1>4

\* The initial state has its types.
LEMMA TypeInit == Init => TypeOK
BY IntroducerAssumption DEF Init, TypeOK

\* Every step keeps the types, and a dead process holds nothing.
LEMMA TypeStep == TypeOK /\ [Next]_vars => TypeOK'
<1> SUFFICES ASSUME TypeOK, [Next]_vars PROVE TypeOK'
    OBVIOUS
<1>0. level' \in [Introducers -> Nat]
      BY LevelsStay DEF TypeOK
<1> USE <1>0
<1>a. ASSUME NEW h \in Introducers, NEW ms \in Seq(Messages), Send(h, ms),
             NEW t, Take(h, t),
             active' \in [Introducers -> BOOLEAN],
             \A k \in Introducers \ {h} : active'[k] = active[k]
      PROVE  TypeOK'
  <2>1. out' \in [Introducers -> Seq(Messages)]
        /\ \A j \in Introducers \ {h} : out'[j] = out[j]
        BY <1>a, SendOut
  <2>2. /\ inbox' \in [Introducers -> Seq(Messages)]
        /\ \A j \in Introducers \ {h} : inbox'[j] = inbox[j]
        /\ alive[h] /\ UNCHANGED <<level, alive, conn, old, fresh, lost, disturbances>>
        BY <1>a, TakeInbox
  <2> QED BY <1>a, <2>1, <2>2 DEF TypeOK
<1>b. ASSUME NEW h \in Introducers, NEW t, Take(h, t), UNCHANGED out,
             active' \in [Introducers -> BOOLEAN],
             \A k \in Introducers \ {h} : active'[k] = active[k]
      PROVE  TypeOK'
  <2>1. /\ inbox' \in [Introducers -> Seq(Messages)]
        /\ \A j \in Introducers \ {h} : inbox'[j] = inbox[j]
        /\ alive[h] /\ UNCHANGED <<level, alive, conn, old, fresh, lost, disturbances>>
        BY <1>b, TakeInbox
  <2> QED BY <1>b, <2>1 DEF TypeOK
<1>1. ASSUME NEW i \in Introducers, Start(i) PROVE TypeOK'
  <2>1. out' \in [Introducers -> Seq(Messages)]
        /\ \A j \in Introducers \ {i} : out'[j] = out[j]
        BY <1>1, Announcements, SendOut DEF Start
  <2>2. fresh[i] = <<>>
        BY <1>1 DEF Start, TypeOK
  <2> QED BY <1>1, <2>1, <2>2 DEF Start, TypeOK
<1>2. ASSUME NEW i \in Introducers, Timeout(i) PROVE TypeOK'
  <2>1. out' \in [Introducers -> Seq(Messages)]
        /\ \A j \in Introducers \ {i} : out'[j] = out[j]
        BY <1>2, Announcements, SendOut DEF Timeout
  <2>2. disturbances' \in Nat
        BY <1>2 DEF Timeout, TimerMayFire, Disturb, TypeOK
  <2> QED BY <1>2, <2>1, <2>2 DEF Timeout, TypeOK
<1>3. ASSUME NEW i \in Introducers, HandlePresent(i) PROVE TypeOK'
  <2>1. active' \in [Introducers -> BOOLEAN] /\ UNCHANGED out
        /\ \A j \in Introducers \ {i} : active'[j] = active[j]
        BY <1>3 DEF HandlePresent, TypeOK
  <2> QED BY <1>3, <2>1, <1>b DEF HandlePresent
<1>4. ASSUME NEW i \in Introducers, HandleRollCall(i) PROVE TypeOK'
  <2>1. active' \in [Introducers -> BOOLEAN]
        /\ \A j \in Introducers \ {i} : active'[j] = active[j]
        BY <1>4 DEF HandleRollCall, TypeOK
  <2> QED BY <1>4, <2>1, <1>a, Announcements DEF HandleRollCall
<1>5. ASSUME NEW i \in Introducers, HandleReconnected(i) PROVE TypeOK'
  <2>1. active' \in [Introducers -> BOOLEAN]
        /\ \A j \in Introducers \ {i} : active'[j] = active[j]
        BY <1>5 DEF HandleReconnected, TypeOK
  <2> QED BY <1>5, <2>1, <1>a, Announcements DEF HandleReconnected
<1>6. ASSUME NEW i \in Introducers, HandleRequest(i) PROVE TypeOK'
  <2>1. active' \in [Introducers -> BOOLEAN]
        /\ \A j \in Introducers \ {i} : active'[j] = active[j]
        BY <1>6 DEF HandleRequest, TypeOK
  <2>2. Take(i, "Request") \/ Take(i, "Answer")
        BY <1>6 DEF HandleRequest
  <2>3. UNCHANGED out \/ Send(i, <<Plain("Answer")>>)
        BY <1>6 DEF HandleRequest
  <2> QED BY <2>1, <2>2, <2>3, <1>a, <1>b, Announcements
<1>7. ASSUME NEW i \in Introducers, Publish(i) PROVE TypeOK'
  <2>1. /\ out[i] \in Seq(Messages) /\ out[i] # <<>>
        /\ out' = [out EXCEPT ![i] = Tail(out[i])]
        BY <1>7 DEF Publish, TypeOK
  <2>2. Head(out[i]) \in Messages /\ Tail(out[i]) \in Seq(Messages)
        BY <2>1
  <2>3. /\ inbox' \in [Introducers -> Seq(Messages)]
        /\ fresh' \in [Introducers -> Seq(Messages)]
        /\ \A j \in Introducers : conn[j] # "up" => inbox'[j] = inbox[j]
        /\ \A j \in Introducers : conn[j] # "dialled" => fresh'[j] = fresh[j]
        BY <1>7, <2>2, BroadcastInbox DEF Publish
  <2>4. /\ UNCHANGED <<level, alive, active, conn, old, lost, disturbances>>
        /\ alive[i] /\ out' \in [Introducers -> Seq(Messages)]
        /\ \A j \in Introducers \ {i} : out'[j] = out[j]
        BY <1>7, <2>1, <2>2 DEF Publish, TypeOK
  <2>5. ASSUME NEW j \in Introducers
        PROVE  /\ conn'[j] # "dialled" => fresh'[j] = <<>>
               /\ ~alive'[j] => /\ ~active'[j] /\ conn'[j] = "down" /\ old'[j] = 0
                               /\ out'[j] = <<>> /\ inbox'[j] = <<>>
        BY <2>3, <2>4 DEF TypeOK
  <2> QED BY <2>3, <2>4, <2>5 DEF TypeOK
<1>8. ASSUME NEW i \in Introducers, Disconnect(i) PROVE TypeOK'
  <2>1. PICK n \in 0..Len(inbox[i]) :
          inbox' = [inbox EXCEPT ![i] = SubSeq(inbox[i], 1, n)]
        BY <1>8 DEF Disconnect
  <2>2. inbox[i] \in Seq(Messages)
        BY DEF TypeOK
  <2>3. SubSeq(inbox[i], 1, n) \in Seq(Messages)
        BY <2>2
  <2> QED BY <1>8, <2>1, <2>3 DEF Disconnect, Disturb, TypeOK
<1>9. ASSUME NEW i \in Introducers, LoseOut(i) PROVE TypeOK'
  <2>1. /\ out[i] \in Seq(Messages) /\ out[i] # <<>>
        /\ out' = [out EXCEPT ![i] = Tail(out[i])]
        BY <1>9 DEF LoseOut, TypeOK
  <2>2. Tail(out[i]) \in Seq(Messages) /\ Head(out[i]).type \in Types
    <3>1. Tail(out[i]) \in Seq(Messages) /\ Head(out[i]) \in Messages
          BY <2>1
    <3> QED BY <3>1 DEF Messages
  <2>3. /\ lost' \in [Introducers -> SUBSET Types]
        /\ old' \in [Introducers -> Nat]
        /\ \A j \in Introducers \ {i} : old'[j] = old[j]
        BY <1>9, <2>2 DEF LoseOut, TypeOK
  <2>4. alive[i]
        BY <2>1 DEF TypeOK
  <2> QED BY <1>9, <2>1, <2>2, <2>3, <2>4 DEF LoseOut, TypeOK
<1>10. ASSUME NEW i \in Introducers, OldWriterEnds(i) PROVE TypeOK'
      BY <1>10 DEF OldWriterEnds, TypeOK
<1>11. ASSUME NEW i \in Introducers, Dial(i) PROVE TypeOK'
      BY <1>11 DEF Dial, TypeOK
<1>12. ASSUME NEW i \in Introducers, Reconnect(i) PROVE TypeOK'
  <2>1. inbox' \in [Introducers -> Seq(Messages)]
        /\ \A j \in Introducers \ {i} : inbox'[j] = inbox[j]
        BY <1>12, ReconnectInbox
  <2> QED BY <1>12, <2>1 DEF Reconnect, TypeOK
<1>13. ASSUME NEW i \in Introducers, Crash(i) PROVE TypeOK'
  <2>1. /\ disturbances' \in Nat
        /\ fresh' = [fresh EXCEPT ![i] = <<>>]
        BY <1>13 DEF Crash, Disturb, TypeOK
  <2> QED BY <1>13, <2>1 DEF Crash, TypeOK
<1>14. ASSUME ClientRequest PROVE TypeOK'
  <2>1. /\ inbox' \in [Introducers -> Seq(Messages)]
        /\ fresh' \in [Introducers -> Seq(Messages)]
        /\ \A j \in Introducers : conn[j] # "up" => inbox'[j] = inbox[j]
        /\ \A j \in Introducers : conn[j] # "dialled" => fresh'[j] = fresh[j]
        BY <1>14, BroadcastInbox, MessageTypes DEF ClientRequest
  <2> QED BY <1>14, <2>1 DEF ClientRequest, Disturb, TypeOK
<1>15. CASE UNCHANGED vars
      BY <1>15 DEF vars, TypeOK
<1> QED BY <1>1, <1>2, <1>3, <1>4, <1>5, <1>6, <1>7, <1>8, <1>9, <1>10, <1>11,
           <1>12, <1>13, <1>14, <1>15 DEF Next
-----------------------------------------------------------------------------
(* A lower introducer that is active is owed a reason to step back *)

\* The queues of a pair only grew, and neither connection came back.
LEMMA DueGrows ==
  ASSUME NEW i, NEW j, Due(i, j), level' = level,
         conn'[i] = "up" => conn[i] = "up", conn'[j] = "up" => conn[j] = "up",
         Held(inbox[i]) \subseteq Held(inbox'[i]), Held(inbox[j]) \subseteq Held(inbox'[j]),
         Held(out[i]) \subseteq Held(out'[i]), Held(out[j]) \subseteq Held(out'[j])
  PROVE  Due(i, j)'
BY DEF Due, HoldsHigher

\* A message that i takes and that is none of the three kinds leaves the debts
\* alone, provided i sends only more.
LEMMA DueTake ==
  ASSUME TypeOK, NEW h \in Introducers, NEW t, Take(h, t),
         t \notin {"IntroducerPresent", "IntroducerRollCall", "Reconnected"},
         NEW i \in Introducers, NEW j \in Introducers, Due(i, j),
         \A k \in Introducers : Held(out[k]) \subseteq Held(out'[k])
  PROVE  Due(i, j)'
<1>1. /\ Held(inbox[h]) = {Head(inbox[h])} \cup Held(inbox'[h])
      /\ \A k \in Introducers \ {h} : inbox'[k] = inbox[k]
      /\ Head(inbox[h]).type = t /\ UNCHANGED <<conn, level>>
      BY TakeInbox
<1>2. /\ Reconnected # Head(inbox[h]) /\ RollCall # Head(inbox[h])
      /\ Head(inbox[h]).type # "IntroducerPresent"
      BY <1>1 DEF Reconnected, RollCall, Plain
<1> QED BY <1>1, <1>2 DEF Due, HoldsHigher

\* What was lost is made up for only by a new connection.
LEMMA UnheardStep ==
  ASSUME TypeOK, [Next]_vars, NEW i \in Introducers, NEW j \in Introducers,
         Unheard(i, j), alive'[i], alive'[j]
  PROVE  Owed(i, j)'
<1>1. ASSUME NEW h \in Introducers, Disconnect(h) PROVE Owed(i, j)'
  <2>1. /\ \A k \in Introducers \ {h} : lost'[k] = lost[k]
        /\ conn'[h] = "down"
        BY <1>1 DEF Disconnect, TypeOK
  <2> QED BY <2>1 DEF Owed, Due, Unheard
<1>2. ASSUME NEW h \in Introducers, Crash(h) PROVE Owed(i, j)'
  <2>1. /\ \A k \in Introducers \ {h} : lost'[k] = lost[k]
        /\ ~alive'[h]
        BY <1>2 DEF Crash, TypeOK
  <2> QED BY <2>1 DEF Owed, Unheard
<1>3. ASSUME NEW h \in Introducers, LoseOut(h) PROVE Owed(i, j)'
  <2>1. \A k \in Introducers : lost[k] \subseteq lost'[k]
        BY <1>3 DEF LoseOut, TypeOK
  <2> QED BY <2>1 DEF Owed, Unheard
<1>4. ASSUME UNCHANGED lost PROVE Owed(i, j)'
      BY <1>4 DEF Owed, Unheard
<1> QED BY <1>1, <1>2, <1>3, <1>4
        DEF Next, vars, Start, Timeout, HandlePresent, HandleRollCall,
            HandleReconnected, HandleRequest, Take, Publish, OldWriterEnds, Dial,
            Reconnect, ClientRequest

\* Every step preserves LowerIsOwed.
LEMMA OwedStep == IInv /\ [Next]_vars => LowerIsOwed'
<1>l. [Next]_vars => level' = level
      BY LevelsStay
<1> SUFFICES ASSUME TypeOK, LowerIsOwed, [Next]_vars,
                    NEW i \in Introducers, NEW j \in Introducers,
                    alive'[i], active'[i], alive'[j], Higher(j, i)
             PROVE  Owed(i, j)'
    BY <1>l DEF IInv, LowerIsOwed, Higher
<1>u. CASE Unheard(i, j)
      BY <1>u, UnheardStep
<1>n. SUFFICES ASSUME ~Unheard(i, j), ~Unheard(i, j)' PROVE Due(i, j)'
      BY <1>u DEF Owed
<1> USE <1>l
<1>0. alive[i] /\ active[i] /\ alive[j] => Due(i, j)
      BY <1>n DEF LowerIsOwed, Owed
<1>a. i # j
      BY DEF Higher, TypeOK
<1>1. ASSUME NEW h \in Introducers, Start(h) PROVE Due(i, j)'
  <2>1. /\ Held(out'[h]) = Held(out[h]) \cup {Present(level[h]), RollCall}
        /\ \A k \in Introducers \ {h} : out'[k] = out[k]
        BY <1>1, AnnounceOut DEF Start
  <2>2. CASE h = i \/ h = j
        BY <2>1, <2>2 DEF Due
  <2>3. CASE h # i /\ h # j
    <3>1. alive[i] /\ active[i] /\ alive[j] /\ UNCHANGED inbox
          /\ conn'[i] = conn[i] /\ conn'[j] = conn[j]
          BY <1>1, <2>3 DEF Start, TypeOK
    <3> QED BY <1>0, <2>1, <2>3, <3>1 DEF Due, HoldsHigher
  <2> QED BY <2>2, <2>3
<1>2. ASSUME NEW h \in Introducers, Timeout(h) PROVE Due(i, j)'
  <2>1. /\ Held(out'[h]) = Held(out[h]) \cup {RollCall}
        /\ \A k \in Introducers \ {h} : out'[k] = out[k]
        BY ZenonT(30), <1>2, Announcements, SendOut DEF Timeout
  <2>2. CASE h = i
        BY <2>1, <2>2 DEF Due
  <2>3. CASE h # i
    <3>1. alive[i] /\ active[i] /\ alive[j] /\ UNCHANGED <<inbox, conn>>
          BY <1>2, <2>3 DEF Timeout, TypeOK
    <3> QED BY <1>0, <2>1, <3>1, DueGrows
  <2> QED BY <2>2, <2>3
<1>3. ASSUME NEW h \in Introducers, HandlePresent(h) PROVE Due(i, j)'
  <2>1. /\ Held(inbox[h]) = {Head(inbox[h])} \cup Held(inbox'[h])
        /\ \A k \in Introducers \ {h} : inbox'[k] = inbox[k]
        /\ Head(inbox[h]).type = "IntroducerPresent"
        /\ Head(inbox[h]) \in Messages
        /\ UNCHANGED <<alive, conn, out>>
        BY <1>3, TakeInbox DEF HandlePresent
  <2>2. /\ active[i]
        /\ h = i => Head(inbox[i]).level <= level[i]
        BY <1>3 DEF HandlePresent, TypeOK
  <2>3. Reconnected # Head(inbox[h]) /\ RollCall # Head(inbox[h])
        BY <2>1 DEF Reconnected, RollCall, Plain
  <2>4. Due(i, j)
        BY <1>0, <2>1, <2>2
  <2>5. HoldsHigher(inbox[i], level[i]) => HoldsHigher(inbox[i], level[i])'
    <3>1. CASE h = i
      <4>1. ASSUME NEW m \in Held(inbox[i]), m.level > level[i]
            PROVE  m \in Held(inbox'[i])
        <5>1. m # Head(inbox[i])
              BY <2>1, <2>2, <3>1, <4>1 DEF Messages, TypeOK
        <5> QED BY <2>1, <3>1, <5>1
      <4> QED BY <4>1 DEF HoldsHigher
    <3>2. CASE h # i
          BY <2>1, <3>2 DEF HoldsHigher
    <3> QED BY <3>1, <3>2
  <2> QED BY <2>1, <2>3, <2>4, <2>5 DEF Due
<1>4. ASSUME NEW h \in Introducers, HandleRollCall(h) PROVE Due(i, j)'
  <2>1. /\ Held(inbox[h]) = {Head(inbox[h])} \cup Held(inbox'[h])
        /\ \A k \in Introducers \ {h} : inbox'[k] = inbox[k]
        /\ Head(inbox[h]).type = "IntroducerRollCall"
        /\ UNCHANGED <<alive, conn, active>>
        BY <1>4, TakeInbox DEF HandleRollCall
  <2>2. /\ Held(out'[h]) = Held(out[h]) \cup {Present(level[h])}
        /\ \A k \in Introducers \ {h} : out'[k] = out[k]
        BY <1>4, AnnounceOut DEF HandleRollCall
  <2>3. Due(i, j)
        BY <1>0, <2>1
  <2>4. CASE h = j
        BY <2>2, <2>4 DEF Due
  <2>5. CASE h # j
    <3>1. /\ Reconnected # Head(inbox[h])
          /\ Head(inbox[h]).type # "IntroducerPresent"
          BY <2>1 DEF Reconnected, Plain
    <3> QED BY <2>1, <2>2, <2>3, <2>5, <3>1 DEF Due, HoldsHigher
  <2> QED BY <2>4, <2>5
<1>5. ASSUME NEW h \in Introducers, HandleReconnected(h) PROVE Due(i, j)'
  <2>1. /\ Held(inbox[h]) = {Head(inbox[h])} \cup Held(inbox'[h])
        /\ \A k \in Introducers \ {h} : inbox'[k] = inbox[k]
        /\ UNCHANGED <<alive, conn>>
        BY <1>5, TakeInbox DEF HandleReconnected
  <2>2. /\ Held(out'[h]) = Held(out[h]) \cup {Present(level[h]), RollCall}
        /\ \A k \in Introducers \ {h} : out'[k] = out[k]
        BY <1>5, AnnounceOut DEF HandleReconnected
  <2>3. CASE h = i \/ h = j
        BY <2>2, <2>3 DEF Due
  <2>4. CASE h # i /\ h # j
    <3>1. alive[i] /\ active[i] /\ alive[j]
          BY <1>5, <2>1, <2>4 DEF HandleReconnected, TypeOK
    <3> QED BY <1>0, <2>1, <2>2, <2>4, <3>1, DueGrows
  <2> QED BY <2>3, <2>4
<1>6. ASSUME NEW h \in Introducers, HandleRequest(h) PROVE Due(i, j)'
  <2>1. PICK t \in {"Request", "Answer"} : Take(h, t)
        BY <1>6 DEF HandleRequest
  <2>2. ASSUME NEW k \in Introducers
        PROVE  Held(out[k]) \subseteq Held(out'[k])
    <3>1. CASE UNCHANGED out
          BY <3>1
    <3>2. CASE Send(h, <<Plain("Answer")>>)
      <4>1. /\ Held(out'[h]) = Held(out[h]) \cup Held(<<Plain("Answer")>>)
            /\ \A l \in Introducers \ {h} : out'[l] = out[l]
            BY <3>2, Announcements, SendOut
      <4> QED BY <4>1
    <3> QED BY <1>6, <3>1, <3>2 DEF HandleRequest
  <2>3. Due(i, j)
        BY <1>0, <1>6, <2>1 DEF HandleRequest, Take
  <2> QED BY <2>1, <2>2, <2>3, DueTake
<1>7. ASSUME NEW h \in Introducers, Publish(h) PROVE Due(i, j)'
  <2>1. /\ out[h] \in Seq(Messages) /\ out[h] # <<>>
        /\ out' = [out EXCEPT ![h] = Tail(out[h])]
        /\ Broadcast(Introducers \ {h}, Head(out[h]))
        /\ UNCHANGED <<alive, active, conn>>
        BY <1>7 DEF Publish, TypeOK
  <2>2. /\ Head(out[h]) \in Messages
        /\ Held(out[h]) = {Head(out[h])} \cup Held(out'[h])
        /\ \A k \in Introducers \ {h} : out'[k] = out[k]
    <3>1. Held(out[h]) = {Head(out[h])} \cup Held(Tail(out[h]))
          BY <2>1, HeldTail
    <3> QED BY <2>1, <3>1 DEF TypeOK
  <2>3. /\ \A k \in Introducers : Held(inbox[k]) \subseteq Held(inbox'[k])
        /\ \A k \in Introducers \ {h} :
             conn[k] = "up" => Head(out[h]) \in Held(inbox'[k])
        BY <2>1, <2>2, BroadcastInbox
  <2>4. Due(i, j)
        BY <1>0, <2>1
  <2>5. CASE RollCall \in Held(out[i])
    <3>1. CASE h = i /\ RollCall = Head(out[i])
          BY <1>a, <2>1, <2>3, <3>1 DEF Due
    <3>2. CASE ~(h = i /\ RollCall = Head(out[i]))
          BY <2>2, <2>5, <3>2 DEF Due
    <3> QED BY <3>1, <3>2
  <2>6. CASE Present(level[j]) \in Held(out[j])
    <3>1. CASE h = j /\ Present(level[j]) = Head(out[j])
      <4>1. CASE conn[i] = "up"
        <5>1. Present(level[j]) \in Held(inbox'[i])
              BY <1>a, <2>3, <3>1, <4>1
        <5>2. HoldsHigher(inbox[i], level[i])'
              BY <5>1 DEF HoldsHigher, Present, Higher
        <5> QED BY <5>2 DEF Due
      <4>2. CASE conn[i] # "up"
            BY <2>1, <4>2 DEF Due
      <4> QED BY <4>1, <4>2
    <3>2. CASE ~(h = j /\ Present(level[j]) = Head(out[j]))
          BY <2>2, <2>6, <3>2 DEF Due
    <3> QED BY <3>1, <3>2
  <2>7. CASE /\ RollCall \notin Held(out[i])
             /\ Present(level[j]) \notin Held(out[j])
        BY <2>1, <2>3, <2>4, <2>7 DEF Due, HoldsHigher
  <2> QED BY <2>5, <2>6, <2>7
<1>8. ASSUME NEW h \in Introducers, Disconnect(h) PROVE Due(i, j)'
  <2>1. /\ conn' = [conn EXCEPT ![h] = "down"] /\ UNCHANGED <<alive, active, out>>
        /\ \A k \in Introducers \ {h} : inbox'[k] = inbox[k]
        BY <1>8 DEF Disconnect, Disturb, TypeOK
  <2>2. CASE h = i \/ h = j
        BY <2>1, <2>2 DEF Due, TypeOK
  <2>3. CASE h # i /\ h # j
        BY <1>0, <2>1, <2>3, DueGrows DEF TypeOK
  <2> QED BY <2>2, <2>3
<1>9. ASSUME NEW h \in Introducers, LoseOut(h) PROVE Due(i, j)'
  <2>1. /\ UNCHANGED <<alive, active, conn, inbox>>
        /\ out[h] \in Seq(Messages) /\ out[h] # <<>>
        /\ out' = [out EXCEPT ![h] = Tail(out[h])]
        BY <1>9 DEF LoseOut, TypeOK
  <2>2. /\ Held(out[h]) = {Head(out[h])} \cup Held(out'[h])
        /\ \A k \in Introducers \ {h} : out'[k] = out[k]
    <3>1. Held(out[h]) = {Head(out[h])} \cup Held(Tail(out[h]))
          BY <2>1, HeldTail
    <3> QED BY <2>1, <3>1 DEF TypeOK
  <2>3. Due(i, j)
        BY <1>0, <2>1
  <2>4. CASE conn[h] = "up" /\ Reconnected \notin Held(inbox[h])
    <3>1. \A n \in 1..Len(inbox[h]) : inbox[h][n] # Reconnected
          BY <2>4 DEF Held
    <3>2. Head(out[h]).type \in lost'[h]
          BY <1>9, <2>4, <3>1 DEF LoseOut, TypeOK
    <3>3. /\ h = i => Head(out[h]) # RollCall
          /\ h = j => Head(out[h]) # Present(level[j])
          BY <1>n, <3>2 DEF Unheard, RollCall, Plain, Present
    <3> QED BY <2>1, <2>2, <2>3, <3>3 DEF Due, HoldsHigher
  <2>5. CASE ~(conn[h] = "up" /\ Reconnected \notin Held(inbox[h]))
    <3>1. CASE h = i \/ h = j
          BY <2>1, <2>5, <3>1 DEF Due
    <3>2. CASE h # i /\ h # j
          BY <2>1, <2>2, <2>3, <3>2, DueGrows
    <3> QED BY <3>1, <3>2
  <2> QED BY <2>4, <2>5
<1>10. ASSUME NEW h \in Introducers, Reconnect(h) PROVE Due(i, j)'
  <2>1. /\ conn' = [conn EXCEPT ![h] = "up"] /\ UNCHANGED <<alive, active, out>>
        BY <1>10 DEF Reconnect
  <2>2. /\ Held(inbox'[h]) = Held(inbox[h]) \cup {Reconnected} \cup Held(fresh[h])
        /\ \A k \in Introducers \ {h} : inbox'[k] = inbox[k] /\ conn'[k] = conn[k]
        BY <1>10, <2>1, ReconnectInbox DEF TypeOK
  <2>3. CASE h = i \/ h = j
        BY <2>2, <2>3 DEF Due
  <2>4. CASE h # i /\ h # j
        BY <1>0, <2>1, <2>2, <2>4, DueGrows
  <2> QED BY <2>3, <2>4
<1>11. ASSUME NEW h \in Introducers, Crash(h) PROVE Due(i, j)'
  <2>1. h # i /\ h # j
        BY <1>11 DEF Crash, Disturb, TypeOK
  <2>2. /\ alive[i] /\ active[i] /\ alive[j]
        /\ \A k \in {i, j} : /\ conn'[k] = conn[k] /\ inbox'[k] = inbox[k]
                            /\ out'[k] = out[k]
        BY <1>11, <2>1 DEF Crash, Disturb, TypeOK
  <2> QED BY <1>0, <2>2, DueGrows
<1>12. ASSUME ClientRequest PROVE Due(i, j)'
  <2>1. \A k \in Introducers : Held(inbox[k]) \subseteq Held(inbox'[k])
        BY <1>12, BroadcastInbox, MessageTypes DEF ClientRequest
  <2> QED BY <1>0, <1>12, <2>1, DueGrows DEF ClientRequest
<1>13. ASSUME NEW h \in Introducers, OldWriterEnds(h) PROVE Due(i, j)'
      BY <1>0, <1>13, DueGrows DEF OldWriterEnds
<1>14. ASSUME NEW h \in Introducers, Dial(h) PROVE Due(i, j)'
  <2>1. /\ \A k \in Introducers : conn'[k] = "up" => conn[k] = "up"
        /\ UNCHANGED <<alive, active, out, inbox>>
        BY <1>14 DEF Dial, TypeOK
  <2> QED BY <1>0, <2>1, DueGrows
<1>15. CASE UNCHANGED vars
      BY <1>0, <1>15, DueGrows DEF vars
<1> QED BY <1>1, <1>2, <1>3, <1>4, <1>5, <1>6, <1>7, <1>8, <1>9, <1>10, <1>11,
           <1>12, <1>13, <1>14, <1>15 DEF Next
-----------------------------------------------------------------------------
(* No announcement outranks the highest introducer *)

\* What the introducers send and the transport puts in is genuine.
LEMMA SentAreGenuine ==
  /\ \A i \in Introducers : Genuine(Present(level[i]))
  /\ Genuine(RollCall) /\ Genuine(Reconnected)
  /\ Genuine(Plain("Request")) /\ Genuine(Plain("Answer"))
BY DEF Genuine, Present, RollCall, Reconnected, Plain

\* A queue cut short holds nothing new.
LEMMA HeldCut ==
  ASSUME NEW S, NEW q \in Seq(S), NEW n \in 0..Len(q)
  PROVE  Held(SubSeq(q, 1, n)) \subseteq Held(q)
<1>1. Len(SubSeq(q, 1, n)) = n /\ Len(q) \in Nat
      OBVIOUS
<1>2. \A k \in 1..n : SubSeq(q, 1, n)[k] = q[k] /\ k \in 1..Len(q)
      OBVIOUS
<1> QED BY <1>1, <1>2 DEF Held

\* Whatever a step puts into a queue is genuine.
LEMMA GenuineStep == IInv /\ [Next]_vars => AllGenuine'
<1> SUFFICES ASSUME TypeOK, AllGenuine, [Next]_vars,
                    NEW i \in Introducers,
                    NEW m \in Held(out'[i]) \cup Held(inbox'[i]) \cup Held(fresh'[i])
             PROVE  Genuine(m)
    BY LevelsStay DEF IInv, AllGenuine, Genuine
<1>0. \A k \in Introducers :
        \A x \in Held(out[k]) \cup Held(inbox[k]) \cup Held(fresh[k]) : Genuine(x)
      BY DEF AllGenuine
<1>1. ASSUME NEW h \in Introducers, Start(h) PROVE Genuine(m)
  <2>1. /\ Held(out'[h]) = Held(out[h]) \cup {Present(level[h]), RollCall}
        /\ \A k \in Introducers \ {h} : out'[k] = out[k]
        BY <1>1, AnnounceOut DEF Start
  <2>2. UNCHANGED <<inbox, fresh>>
        BY <1>1 DEF Start
  <2> QED BY <1>0, <2>1, <2>2, SentAreGenuine
<1>2. ASSUME NEW h \in Introducers, Timeout(h) PROVE Genuine(m)
  <2>1. /\ Held(out'[h]) = Held(out[h]) \cup {RollCall}
        /\ \A k \in Introducers \ {h} : out'[k] = out[k]
        BY ZenonT(30), <1>2, Announcements, SendOut DEF Timeout
  <2>2. UNCHANGED <<inbox, fresh>>
        BY <1>2 DEF Timeout
  <2> QED BY <1>0, <2>1, <2>2, SentAreGenuine
<1>3. ASSUME NEW h \in Introducers, NEW t, Take(h, t)
      PROVE  /\ \A k \in Introducers : Held(inbox'[k]) \subseteq Held(inbox[k])
             /\ UNCHANGED fresh
      BY <1>3, TakeInbox
<1>4. ASSUME NEW h \in Introducers, HandlePresent(h) PROVE Genuine(m)
      BY <1>0, <1>3, <1>4 DEF HandlePresent
<1>5. ASSUME NEW h \in Introducers, HandleRollCall(h) PROVE Genuine(m)
  <2>1. /\ Held(out'[h]) = Held(out[h]) \cup {Present(level[h])}
        /\ \A k \in Introducers \ {h} : out'[k] = out[k]
        BY <1>5, Announcements, SendOut DEF HandleRollCall
  <2>2. /\ \A k \in Introducers : Held(inbox'[k]) \subseteq Held(inbox[k])
        /\ UNCHANGED fresh
        BY <1>3, <1>5 DEF HandleRollCall
  <2> QED BY <1>0, <2>1, <2>2, SentAreGenuine
<1>6. ASSUME NEW h \in Introducers, HandleReconnected(h) PROVE Genuine(m)
  <2>1. /\ Held(out'[h]) = Held(out[h]) \cup {Present(level[h]), RollCall}
        /\ \A k \in Introducers \ {h} : out'[k] = out[k]
        BY <1>6, Announcements, SendOut DEF HandleReconnected
  <2>2. /\ \A k \in Introducers : Held(inbox'[k]) \subseteq Held(inbox[k])
        /\ UNCHANGED fresh
        BY <1>3, <1>6 DEF HandleReconnected
  <2> QED BY <1>0, <2>1, <2>2, SentAreGenuine
<1>7. ASSUME NEW h \in Introducers, HandleRequest(h) PROVE Genuine(m)
  <2>1. \A k \in Introducers :
          Held(out'[k]) \subseteq Held(out[k]) \cup {Plain("Answer")}
    <3>1. CASE Send(h, <<Plain("Answer")>>)
      <4>1. /\ Held(out'[h]) = Held(out[h]) \cup Held(<<Plain("Answer")>>)
            /\ \A k \in Introducers \ {h} : out'[k] = out[k]
            BY <3>1, Announcements, SendOut
      <4>2. Held(<<Plain("Answer")>>) = {Plain("Answer")}
            BY DEF Held
      <4> QED BY <4>1, <4>2
    <3> QED BY <1>7, <3>1 DEF HandleRequest
  <2>2. /\ \A k \in Introducers : Held(inbox'[k]) \subseteq Held(inbox[k])
        /\ UNCHANGED fresh
        BY <1>3, <1>7 DEF HandleRequest
  <2> QED BY <1>0, <2>1, <2>2, SentAreGenuine
<1>8. ASSUME NEW h \in Introducers, out[h] # <<>>,
             out' = [out EXCEPT ![h] = Tail(@)]
      PROVE  /\ Head(out[h]) \in Held(out[h]) /\ Head(out[h]) \in Messages
             /\ \A k \in Introducers : Held(out'[k]) \subseteq Held(out[k])
  <2>1. out[h] \in Seq(Messages) /\ out \in [Introducers -> Seq(Messages)]
        BY DEF TypeOK
  <2>2. Held(out[h]) = {Head(out[h])} \cup Held(Tail(out[h]))
        BY <1>8, <2>1, HeldTail
  <2> QED BY <1>8, <2>1, <2>2
<1>9. ASSUME NEW h \in Introducers, Publish(h) PROVE Genuine(m)
  <2>1. /\ Head(out[h]) \in Held(out[h]) /\ Head(out[h]) \in Messages
        /\ \A k \in Introducers : Held(out'[k]) \subseteq Held(out[k])
        BY <1>8, <1>9 DEF Publish
  <2>2. \A k \in Introducers :
          /\ Held(inbox'[k]) \subseteq Held(inbox[k]) \cup {Head(out[h])}
          /\ Held(fresh'[k]) \subseteq Held(fresh[k]) \cup {Head(out[h])}
        BY <1>9, <2>1, BroadcastInbox DEF Publish
  <2> QED BY <1>0, <2>1, <2>2
<1>10. ASSUME NEW h \in Introducers, Disconnect(h) PROVE Genuine(m)
  <2>1. PICK n \in 0..Len(inbox[h]) :
          inbox' = [inbox EXCEPT ![h] = SubSeq(inbox[h], 1, n)]
        BY <1>10 DEF Disconnect
  <2>2. inbox[h] \in Seq(Messages) /\ inbox \in [Introducers -> Seq(Messages)]
        BY DEF TypeOK
  <2>3. Held(SubSeq(inbox[h], 1, n)) \subseteq Held(inbox[h])
        BY <2>2, HeldCut
  <2>4. UNCHANGED <<out, fresh>>
        BY <1>10 DEF Disconnect
  <2> QED BY <1>0, <2>1, <2>2, <2>3, <2>4
<1>11. ASSUME NEW h \in Introducers, LoseOut(h) PROVE Genuine(m)
      BY <1>0, <1>8, <1>11 DEF LoseOut
<1>12. ASSUME NEW h \in Introducers, Reconnect(h) PROVE Genuine(m)
  <2>1. /\ Held(inbox'[h]) = Held(inbox[h]) \cup {Reconnected} \cup Held(fresh[h])
        /\ \A k \in Introducers \ {h} : inbox'[k] = inbox[k]
        BY <1>12, ReconnectInbox
  <2>2. /\ UNCHANGED out
        /\ \A k \in Introducers : Held(fresh'[k]) \subseteq Held(fresh[k])
        BY <1>12, HeldEmpty DEF Reconnect, TypeOK
  <2> QED BY <1>0, <2>1, <2>2, SentAreGenuine
<1>13. ASSUME NEW h \in Introducers, Crash(h) PROVE Genuine(m)
      BY <1>0, <1>13, HeldEmpty DEF Crash, Disturb, TypeOK
<1>14. ASSUME ClientRequest PROVE Genuine(m)
  <2>1. \A k \in Introducers :
          /\ Held(inbox'[k]) \subseteq Held(inbox[k]) \cup {Plain("Request")}
          /\ Held(fresh'[k]) \subseteq Held(fresh[k]) \cup {Plain("Request")}
        BY <1>14, BroadcastInbox, MessageTypes DEF ClientRequest
  <2>2. UNCHANGED out
        BY <1>14 DEF ClientRequest
  <2> QED BY <1>0, <2>1, <2>2, SentAreGenuine
<1>15. ASSUME NEW h \in Introducers, OldWriterEnds(h) \/ Dial(h) PROVE Genuine(m)
      BY <1>0, <1>15 DEF OldWriterEnds, Dial
<1>16. CASE UNCHANGED vars
      BY <1>0, <1>16 DEF vars
<1> QED BY <1>1, <1>2, <1>4, <1>5, <1>6, <1>7, <1>9, <1>10, <1>11, <1>12, <1>13,
           <1>14, <1>15, <1>16 DEF Next

\* Only an announcement that outranks an introducer deactivates it, and only a
\* crash ends it.
LEMMA HighestStep == IInv /\ [Next]_vars => HighestStaysActive'
<1> SUFFICES ASSUME TypeOK, AllGenuine, HighestStaysActive, [Next]_vars,
                    NEW i \in Introducers, alive'[i],
                    \A j \in Introducers : ~Higher(j, i)
             PROVE  active'[i]
    BY LevelsStay DEF IInv, HighestStaysActive, Higher
<1>0. alive[i] => active[i]
      BY DEF HighestStaysActive
<1>1. ASSUME NEW h \in Introducers, HandlePresent(h) PROVE active'[i]
  <2>1. /\ Head(inbox[h]) \in Held(inbox[h])
        /\ Head(inbox[h]).type = "IntroducerPresent"
        /\ UNCHANGED alive
        BY <1>1, TakeInbox DEF HandlePresent
  <2>2. PICK k \in Introducers : Head(inbox[h]).level = level[k]
        BY <2>1 DEF AllGenuine, Genuine
  <2>3. level[k] <= level[i]
        BY DEF Higher, TypeOK
  <2> QED BY <1>0, <1>1, <2>1, <2>2, <2>3 DEF HandlePresent, TypeOK
<1>2. ASSUME NEW h \in Introducers, Start(h) PROVE active'[i]
      BY <1>0, <1>2 DEF Start, TypeOK
<1>3. ASSUME NEW h \in Introducers, Timeout(h) PROVE active'[i]
      BY <1>0, <1>3 DEF Timeout, TypeOK
<1>4. ASSUME NEW h \in Introducers, HandleReconnected(h) PROVE active'[i]
      BY <1>0, <1>4 DEF HandleReconnected, Take, TypeOK
<1>5. ASSUME NEW h \in Introducers, Crash(h) PROVE active'[i]
      BY <1>0, <1>5 DEF Crash, Disturb, TypeOK
<1>6. ASSUME UNCHANGED <<alive, active>> PROVE active'[i]
      BY <1>0, <1>6
<1> QED BY <1>1, <1>2, <1>3, <1>4, <1>5, <1>6
        DEF Next, HandleRollCall, HandleRequest, Take, Publish, Disconnect, LoseOut,
            OldWriterEnds, Dial, Reconnect, ClientRequest, vars
-----------------------------------------------------------------------------
(* The theorems *)

\* The inductive invariant holds in every reachable state.
LEMMA Invariance == Spec => []IInv
<1>1. Init => IInv
      BY TypeInit, HeldEmpty DEF IInv, Init, LowerIsOwed, AllGenuine, HighestStaysActive
<1>2. IInv /\ [Next]_vars => IInv'
      BY TypeStep, OwedStep, GenuineStep, HighestStep DEF IInv
<1> QED BY <1>1, <1>2, PTL DEF Spec

\* Every variable has its type and a dead process holds nothing
\* (introducer.go:105-198, api/ws.go:37-66).
THEOREM TypeCorrect == Spec => []TypeOK
BY Invariance, PTL DEF IInv

\* Whatever crashed, reconnected or was lost with a connection, once everything
\* sent was received no active introducer is below another one
\* (introducer.go:105-134), unless the writer of an earlier socket lost the roll call
\* or the announcement that would have told it (ws.go:129-148).
THEOREM LowerStepBackWhenSettled == Spec => []OnlyHighestActive
<1>1. IInv => OnlyHighestActive
  <2> SUFFICES ASSUME IInv, Settled, NEW i \in Introducers, NEW j \in Introducers,
                      alive[i], active[i], alive[j], Higher(j, i)
               PROVE  Unheard(i, j)
      BY DEF OnlyHighestActive
  <2>1. /\ conn[i] = "up" /\ out[i] = <<>> /\ inbox[i] = <<>>
        /\ conn[j] = "up" /\ out[j] = <<>> /\ inbox[j] = <<>>
        BY DEF Settled
  <2>2. Owed(i, j)
        BY DEF IInv, LowerIsOwed
  <2> QED BY <2>1, <2>2, HeldEmpty DEF Owed, Due, HoldsHigher
<1> QED BY <1>1, Invariance, PTL

\* An introducer nobody outranks serves as long as it runs, whatever crashed,
\* reconnected, was lost or arrived late, and however many share its level
\* (introducer.go:121-126).
THEOREM HighestServes == Spec => []HighestStaysActive
BY Invariance, PTL DEF IInv
=============================================================================
