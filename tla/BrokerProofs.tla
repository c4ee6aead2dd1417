---------------------------- MODULE BrokerProofs ----------------------------
(***************************************************************************)
(* Proofs about Broker, for every number of clients, realms, brokers and   *)
(* messages and every buffer capacity.  The three invariants of the runs   *)
(* follow from one inductive invariant: what the manager's map says about  *)
(* the loops, what the manager is doing, and who can be in a client map.   *)
(* That Broker implements RealmBus follows from a second one: where a      *)
(* message can be, and what part of its broker's log a client holds.       *)
(***************************************************************************)
EXTENDS Broker, TLAPS

\* A registered broker runs and has not been told to stop; no broker serves
\* two realms; only a broker told to stop leaves its loop; a broker that was
\* not made yet has not been told anything.
Registered ==
  /\ \A r \in Realms : brokers[r] # None =>
       loop[brokers[r]] \notin {"unborn", "exited"} /\ ~done[brokers[r]]
  /\ \A q, r \in Realms : brokers[q] # None /\ brokers[q] = brokers[r] => q = r
  /\ \A b \in Brokers : /\ loop[b] = "exited" => done[b]
                        /\ loop[b] = "unborn" => ~done[b]

\* A client that has connected has a realm, one that is being added or has its
\* goroutines has a broker, and the manager adds to the realm's broker.
ManagerAdds ==
  /\ \A c \in Clients : /\ reader[c] # "idle" => realm[c] \in Realms
                        /\ reader[c] = "adding" \/ Started(c) => broker[c] \in Brokers
  /\ mgr # None => /\ reader[mgr] = "adding"
                   /\ broker[mgr] = brokers[realm[mgr]]

\* The clients in a map, or on their way into it, belong to that broker and
\* have goroutines; no channel is closed before they do.
MembersOpen ==
  /\ \A b \in Brokers : \A c \in members[b] :
       broker[c] = b /\ Started(c) /\ ~closed[c]
  /\ \A b \in Brokers : loop[b] = "add" =>
       /\ who[b] \in Clients
       /\ broker[who[b]] = b /\ Started(who[b]) /\ ~closed[who[b]]
  /\ \A c \in Clients : closed[c] => Started(c)

\* While the ticker looks at brokers the manager adds nobody, and these brokers are
\* registered.
TickerChecks ==
  /\ checking # {} => mgr = None
  /\ \A r \in checking : brokers[r] # None
  /\ expired # None => expired \in checking

IInv == TypeOK /\ Registered /\ ManagerAdds /\ MembersOpen /\ TickerChecks

\* What the ticker does; it has to do with the manager's map and with done alone.
Tick == TickBegins \/ Ticker

LEMMA TickKeeps ==
  ASSUME Tick
  PROVE  /\ UNCHANGED <<mgr, loop, who, what, members, log, from, queue, closed>>
         /\ UNCHANGED socketVars
BY DEF Tick, Ticker, TickBegins, TickSees, Retire, loopVars

-----------------------------------------------------------------------------
(* Type correctness *)

\* The initial state has its types.
LEMMA TypeInit == Init => TypeOK
BY BrokerAssumption DEF Init, TypeOK, Brokers

\* Every step keeps the types: a client that a goroutine works for has a
\* broker, and a fan-out appends only where it found the room.
LEMMA TypeStep == TypeOK /\ ManagerAdds /\ MembersOpen /\ [Next]_vars => TypeOK'
<1> SUFFICES ASSUME TypeOK, ManagerAdds, MembersOpen, [Next]_vars
             PROVE  TypeOK'
    OBVIOUS
<1> USE BrokerAssumption DEF TypeOK, Brokers, managerVars, loopVars, socketVars
<1>1. ASSUME NEW c \in Clients, NEW r \in Realms, Upgrade(c, r) PROVE TypeOK'
      BY <1>1 DEF Upgrade
<1>2. ASSUME NEW c \in Clients, ManagerReceive(c) PROVE TypeOK'
  <2>1. mgr' \in Clients \cup {None} /\ reader' \in [Clients -> {"idle", "offered",
          "adding", "reading", "sending", "removing", "gone"}]
        BY <1>2 DEF ManagerReceive
  <2>2. realm[c] \in Realms
        BY <1>2 DEF ManagerReceive, ManagerAdds
  <2>3. CASE brokers[realm[c]] # None
    <3>1. brokers[realm[c]] \in Brokers
          BY <2>2, <2>3
    <3>2. broker' = [broker EXCEPT ![c] = brokers[realm[c]]] /\ UNCHANGED <<brokers, loop>>
          BY <1>2, <2>3 DEF ManagerReceive
    <3>3. broker' \in [Clients -> Brokers \cup {None}]
          BY <3>1, <3>2
    <3> QED BY <1>2, <2>1, <3>2, <3>3 DEF ManagerReceive
  <2>4. CASE brokers[realm[c]] = None
    <3>1. PICK b \in Brokers : /\ loop' = [loop EXCEPT ![b] = "top"]
                               /\ brokers' = [brokers EXCEPT ![realm[c]] = b]
                               /\ broker' = [broker EXCEPT ![c] = b]
          BY <1>2, <2>4 DEF ManagerReceive
    <3> QED BY <1>2, <2>1, <3>1 DEF ManagerReceive
  <2> QED BY <2>3, <2>4
<1>3. ASSUME NEW c \in Clients, ManagerAdd(c) PROVE TypeOK'
      BY <1>3 DEF ManagerAdd, ManagerAdds
<1>4. ASSUME Tick PROVE TypeOK'
  <2>1. /\ brokers' \in [Realms -> Brokers \cup {None}] /\ done' \in [Brokers -> BOOLEAN]
        /\ checking' \subseteq Realms /\ expired' \in Realms \cup {None}
    <3>1. CASE TickBegins
          BY <3>1 DEF TickBegins
    <3>2. ASSUME NEW r \in Realms, TickSees(r)
          PROVE  /\ UNCHANGED <<brokers, done>>
                 /\ checking' \subseteq Realms /\ expired' \in Realms \cup {None}
          BY <3>2 DEF TickSees
    <3>3. CASE Retire
          BY <3>3 DEF Retire
    <3> QED BY <1>4, <3>1, <3>2, <3>3 DEF Tick, Ticker
  <2> QED BY <1>4, <2>1, TickKeeps
<1>5. ASSUME NEW b \in Brokers, LoopTop(b) PROVE TypeOK'
      BY <1>5 DEF LoopTop
<1>6. ASSUME NEW b \in Brokers, RunAdd(b) PROVE TypeOK'
  <2>1. who[b] \in Clients /\ Len(log[b]) \in Nat
        BY <1>6 DEF RunAdd, MembersOpen
  <2>2. members' \in [Brokers -> SUBSET Clients] /\ from' \in [Clients -> Nat]
        BY <1>6, <2>1 DEF RunAdd
  <2> QED BY <1>6, <2>2 DEF RunAdd, Handled
<1>7. ASSUME NEW b \in Brokers, RunRemove(b) PROVE TypeOK'
      BY <1>7 DEF RunRemove, Evict, Handled
<1>8. ASSUME NEW b \in Brokers, RunFanOut(b) PROVE TypeOK'
  <2>1. what[b] \in Nat /\ log[b] \in Seq(Nat)
        OBVIOUS
  <2>2. log' \in [Brokers -> Seq(Nat)]
        BY <1>8, <2>1 DEF RunFanOut
  <2>3. ASSUME NEW c \in Clients
        PROVE  queue'[c] \in Seq(Nat) /\ Len(queue'[c]) <= SendCap
    <3>1. queue[c] \in Seq(Nat) /\ Len(queue[c]) \in Nat /\ Len(queue[c]) <= SendCap
          OBVIOUS
    <3>2. CASE c \in members[b] \ Full(b)
      <4>1. queue'[c] = Append(queue[c], what[b]) /\ c \in members[b] /\ c \notin Full(b)
            BY <1>8, <3>2 DEF RunFanOut
      <4>2. Len(queue[c]) < SendCap
            BY <3>1, <4>1 DEF Full
      <4>3. Len(Append(queue[c], what[b])) = Len(queue[c]) + 1
            BY <2>1, <3>1
      <4> QED BY <2>1, <3>1, <4>1, <4>2, <4>3
    <3>3. CASE c \notin members[b] \ Full(b)
          BY <1>8, <3>1, <3>3 DEF RunFanOut
    <3> QED BY <3>2, <3>3
  <2>4. DOMAIN queue' = Clients /\ queue' = [c \in Clients |-> queue'[c]]
        BY <1>8 DEF RunFanOut
  <2>5. queue' \in [Clients -> Seq(Nat)]
        BY <2>3, <2>4
  <2>6. members' \in [Brokers -> SUBSET Clients] /\ closed' \in [Clients -> BOOLEAN]
        BY <1>8 DEF RunFanOut, Evict
  <2> QED BY <1>8, <2>2, <2>3, <2>5, <2>6 DEF RunFanOut, Handled
<1>9. ASSUME NEW c \in Clients, Read(c) PROVE TypeOK'
  <2>1. sent' \in Nat /\ carry' = [carry EXCEPT ![c] = sent']
        BY <1>9 DEF Read
  <2>2. carry' \in [Clients -> Nat]
        BY <2>1
  <2> QED BY <1>9, <2>1, <2>2 DEF Read
<1>10. ASSUME NEW c \in Clients, SendToLoop(c) PROVE TypeOK'
      BY <1>10 DEF SendToLoop, ManagerAdds, Started
<1>11. ASSUME NEW c \in Clients, ReadFails(c) PROVE TypeOK'
      BY <1>11 DEF ReadFails
<1>12. ASSUME NEW c \in Clients, RemoveFromLoop(c) PROVE TypeOK'
      BY <1>12 DEF RemoveFromLoop, ManagerAdds, Started
<1>13. ASSUME NEW c \in Clients, Write(c) PROVE TypeOK'
  <2>1. /\ queue[c] \in Seq(Nat) /\ queue[c] # <<>> /\ got[c] \in Seq(Nat)
        /\ Len(queue[c]) \in Nat
        BY <1>13 DEF Write
  <2>2. /\ Head(queue[c]) \in Nat /\ Tail(queue[c]) \in Seq(Nat)
        /\ Len(Tail(queue[c])) = Len(queue[c]) - 1
        BY <2>1
  <2>3. got' \in [Clients -> Seq(Nat)]
        BY <1>13, <2>1, <2>2 DEF Write
  <2>4. queue' \in [Clients -> Seq(Nat)] /\ \A d \in Clients : Len(queue'[d]) <= SendCap
        BY SMTT(30), <1>13, <2>1, <2>2 DEF Write
  <2> QED BY <1>13, <2>3, <2>4 DEF Write
<1>14. ASSUME NEW c \in Clients, WriterSeesClose(c) PROVE TypeOK'
      BY <1>14 DEF WriterSeesClose, WriterStops
<1>15. ASSUME NEW c \in Clients, WriteFails(c) PROVE TypeOK'
  <2>1. queue' \in [Clients -> Seq(Nat)] /\ \A d \in Clients : Len(queue'[d]) <= SendCap
    <3>1. CASE queue' = queue
          BY <3>1
    <3>2. CASE queue[c] # <<>> /\ queue' = [queue EXCEPT ![c] = Tail(@)]
      <4>1. queue[c] \in Seq(Nat) /\ queue[c] # <<>> /\ Len(queue[c]) \in Nat
            BY <3>2
      <4>2. Tail(queue[c]) \in Seq(Nat) /\ Len(Tail(queue[c])) = Len(queue[c]) - 1
            BY <4>1
      <4> QED BY <3>2, <4>1, <4>2
    <3> QED BY <1>15, <3>1, <3>2 DEF WriteFails
  <2> QED BY <1>15, <2>1 DEF WriteFails, WriterStops
<1>16. ASSUME NEW c \in Clients, PeerGone(c) PROVE TypeOK'
      BY <1>16 DEF PeerGone
<1>17. CASE UNCHANGED vars
      BY <1>17 DEF vars
<1> QED
    BY <1>1, <1>2, <1>3, <1>4, <1>5, <1>6, <1>7, <1>8, <1>9, <1>10, <1>11,
       <1>12, <1>13, <1>14, <1>15, <1>16, <1>17 DEF Next, Tick, Ticker
-----------------------------------------------------------------------------
(* The manager, the loops and the client maps *)

\* The variables the inductive invariant is about.
coreVars == <<brokers, mgr, checking, expired, loop, who, done, members, realm, broker, reader, closed>>

\* The writers and the peers do not touch them.
LEMMA OutsideCore ==
  ASSUME NEW c \in Clients,
         Write(c) \/ WriterSeesClose(c) \/ WriteFails(c) \/ PeerGone(c)
  PROVE  UNCHANGED coreVars
BY DEF Write, WriterSeesClose, WriteFails, PeerGone, coreVars, managerVars, loopVars

\* No step makes the manager's map and the loops disagree.  The ticker is the
\* step to watch: it tells a loop to stop and forgets it at once.
LEMMA RegisteredStep == IInv /\ [Next]_vars => Registered'
<1> SUFFICES ASSUME IInv, [Next]_vars PROVE Registered'
    OBVIOUS
<1> USE BrokerAssumption DEF Registered, managerVars, loopVars, socketVars
<1> TypeOK /\ Registered /\ ManagerAdds /\ MembersOpen /\ TickerChecks
    BY DEF IInv
<1>1. ASSUME NEW c \in Clients, NEW r \in Realms, Upgrade(c, r) PROVE Registered'
      BY <1>1 DEF Upgrade
<1>2. ASSUME NEW c \in Clients, ManagerReceive(c) PROVE Registered'
  <2>1. realm[c] \in Realms
        BY <1>2 DEF ManagerReceive, ManagerAdds
  <2>2. CASE brokers[realm[c]] # None
        BY <1>2, <2>2 DEF ManagerReceive
  <2>3. CASE brokers[realm[c]] = None
    <3>1. PICK b \in Brokers : /\ Fresh(b)
                               /\ loop' = [loop EXCEPT ![b] = "top"]
                               /\ brokers' = [brokers EXCEPT ![realm[c]] = b]
          BY <1>2, <2>3 DEF ManagerReceive
    <3>2. loop[b] = "unborn" /\ ~done[b] /\ b # None /\ UNCHANGED done
          BY <1>2, <3>1 DEF Fresh, ManagerReceive
    <3>3. \A r \in Realms : brokers[r] # b
          BY <3>2
    <3> QED BY <2>1, <3>1, <3>2, <3>3 DEF TypeOK
  <2> QED BY <2>2, <2>3
<1>3. ASSUME NEW c \in Clients, ManagerAdd(c) PROVE Registered'
      BY <1>3 DEF ManagerAdd, TypeOK
<1>4. ASSUME Tick PROVE Registered'
  <2>1. CASE UNCHANGED <<brokers, done>>
        BY <1>4, <2>1, TickKeeps
  <2>2. CASE Retire
    <3>1. PICK e \in Realms : e = expired /\ brokers[e] \in Brokers
          BY <2>2 DEF Retire, TypeOK, TickerChecks
    <3>2. /\ done' = [done EXCEPT ![brokers[e]] = TRUE]
          /\ brokers' = [brokers EXCEPT ![e] = None] /\ UNCHANGED loop
          BY <2>2, <3>1 DEF Retire
    <3>3. \A r \in Realms : brokers'[r] # None => r # e /\ brokers'[r] = brokers[r]
                                              /\ brokers[r] # brokers[e]
          BY <3>1, <3>2 DEF TypeOK
    <3> QED BY <3>1, <3>2, <3>3 DEF TypeOK
  <2> QED BY <1>4, <2>1, <2>2 DEF Tick, Ticker, TickBegins, TickSees
<1>5. ASSUME NEW b \in Brokers, LoopTop(b) PROVE Registered'
      BY <1>5 DEF LoopTop, TypeOK
<1>6. ASSUME NEW b \in Brokers, RunAdd(b) PROVE Registered'
      BY <1>6 DEF RunAdd, Handled, TypeOK
<1>7. ASSUME NEW b \in Brokers, RunRemove(b) PROVE Registered'
      BY <1>7 DEF RunRemove, Handled, TypeOK
<1>8. ASSUME NEW b \in Brokers, RunFanOut(b) PROVE Registered'
      BY <1>8 DEF RunFanOut, Handled, TypeOK
<1>9. ASSUME NEW c \in Clients, Read(c) PROVE Registered'
      BY <1>9 DEF Read
<1>10. ASSUME NEW c \in Clients, SendToLoop(c) PROVE Registered'
      BY <1>10 DEF SendToLoop, TypeOK
<1>11. ASSUME NEW c \in Clients, ReadFails(c) PROVE Registered'
      BY <1>11 DEF ReadFails
<1>12. ASSUME NEW c \in Clients, RemoveFromLoop(c) PROVE Registered'
      BY <1>12 DEF RemoveFromLoop, TypeOK
<1>13. CASE UNCHANGED coreVars
      BY <1>13 DEF coreVars
<1>14. CASE UNCHANGED vars
      BY <1>14 DEF vars
<1> QED
    BY <1>1, <1>2, <1>3, <1>4, <1>5, <1>6, <1>7, <1>8, <1>9, <1>10, <1>11,
       <1>12, <1>13, <1>14, OutsideCore DEF Next, Tick, Ticker

\* The manager stays blocked on the registered broker: while it is, it neither
\* takes another client nor looks at the ticker.
LEMMA ManagerAddsStep == IInv /\ [Next]_vars => ManagerAdds'
<1> SUFFICES ASSUME IInv, [Next]_vars PROVE ManagerAdds'
    OBVIOUS
<1> USE BrokerAssumption DEF ManagerAdds, Started, managerVars, loopVars, socketVars
<1> TypeOK /\ Registered /\ ManagerAdds /\ MembersOpen /\ TickerChecks
    BY DEF IInv
<1>1. ASSUME NEW c \in Clients, NEW r \in Realms, Upgrade(c, r) PROVE ManagerAdds'
      BY <1>1 DEF Upgrade, TypeOK
<1>2. ASSUME NEW c \in Clients, ManagerReceive(c) PROVE ManagerAdds'
  <2>1. realm[c] \in Realms /\ reader' = [reader EXCEPT ![c] = "adding"]
        /\ mgr' = c /\ UNCHANGED realm
        BY <1>2 DEF ManagerReceive
  <2>2. CASE brokers[realm[c]] # None
        BY <1>2, <2>1, <2>2 DEF ManagerReceive, TypeOK
  <2>3. CASE brokers[realm[c]] = None
        BY <1>2, <2>1, <2>3 DEF ManagerReceive, TypeOK
  <2> QED BY <2>2, <2>3
<1>3. ASSUME NEW c \in Clients, ManagerAdd(c) PROVE ManagerAdds'
      BY <1>3 DEF ManagerAdd, TypeOK
<1>4. ASSUME Tick PROVE ManagerAdds'
  <2>1. UNCHANGED <<mgr, reader, realm, broker>>
        BY <1>4, TickKeeps
  <2>2. mgr = None \/ UNCHANGED brokers
        BY <1>4 DEF Tick, Ticker, TickBegins, TickSees, Retire, TickerChecks
  <2> QED BY <2>1, <2>2
<1>5. ASSUME NEW b \in Brokers, LoopTop(b) PROVE ManagerAdds'
      BY <1>5 DEF LoopTop
<1>6. ASSUME NEW b \in Brokers, RunAdd(b) PROVE ManagerAdds'
      BY <1>6 DEF RunAdd, Handled
<1>7. ASSUME NEW b \in Brokers, RunRemove(b) PROVE ManagerAdds'
      BY <1>7 DEF RunRemove, Handled
<1>8. ASSUME NEW b \in Brokers, RunFanOut(b) PROVE ManagerAdds'
      BY <1>8 DEF RunFanOut, Handled
<1>9. ASSUME NEW c \in Clients, Read(c) PROVE ManagerAdds'
      BY <1>9 DEF Read, TypeOK
<1>10. ASSUME NEW c \in Clients, SendToLoop(c) PROVE ManagerAdds'
      BY <1>10 DEF SendToLoop, TypeOK
<1>11. ASSUME NEW c \in Clients, ReadFails(c) PROVE ManagerAdds'
      BY <1>11 DEF ReadFails, TypeOK
<1>12. ASSUME NEW c \in Clients, RemoveFromLoop(c) PROVE ManagerAdds'
      BY <1>12 DEF RemoveFromLoop, TypeOK
<1>13. CASE UNCHANGED coreVars
      BY <1>13 DEF coreVars
<1>14. CASE UNCHANGED vars
      BY <1>14 DEF vars
<1> QED
    BY <1>1, <1>2, <1>3, <1>4, <1>5, <1>6, <1>7, <1>8, <1>9, <1>10, <1>11,
       <1>12, <1>13, <1>14, OutsideCore DEF Next, Tick, Ticker

\* A client map never holds a closed client.  Closing happens only where the
\* client is taken out of the map in the same step, and a client enters a map
\* once: its goroutines start when it is on its way in.
LEMMA MembersOpenStep == IInv /\ [Next]_vars => MembersOpen'
<1> SUFFICES ASSUME IInv, [Next]_vars PROVE MembersOpen'
    OBVIOUS
<1> USE BrokerAssumption DEF MembersOpen, Started, managerVars, loopVars, socketVars
<1> TypeOK /\ Registered /\ ManagerAdds /\ MembersOpen /\ TickerChecks
    BY DEF IInv
<1>1. ASSUME NEW c \in Clients, NEW r \in Realms, Upgrade(c, r) PROVE MembersOpen'
      BY SMTT(30), <1>1 DEF Upgrade, TypeOK
<1>2. ASSUME NEW c \in Clients, ManagerReceive(c) PROVE MembersOpen'
  <2>1. /\ reader[c] = "offered" /\ reader' = [reader EXCEPT ![c] = "adding"]
        /\ UNCHANGED <<who, members, closed>>
        /\ \A d \in Clients \ {c} : broker'[d] = broker[d]
        /\ \A b \in Brokers : loop'[b] = "add" => loop[b] = "add"
        BY <1>2 DEF ManagerReceive, TypeOK
  <2> QED BY SMTT(30), <2>1 DEF TypeOK
<1>3. ASSUME NEW c \in Clients, ManagerAdd(c) PROVE MembersOpen'
  <2>1. reader[c] = "adding" /\ ~closed[c] /\ broker[c] \in Brokers
        BY <1>3 DEF ManagerAdd, ManagerAdds, TypeOK
  <2> QED BY <1>3, <2>1 DEF ManagerAdd, TypeOK
<1>4. ASSUME Tick PROVE MembersOpen'
      BY <1>4, TickKeeps
<1>5. ASSUME NEW b \in Brokers, LoopTop(b) PROVE MembersOpen'
      BY <1>5 DEF LoopTop, TypeOK
<1>6. ASSUME NEW b \in Brokers, RunAdd(b) PROVE MembersOpen'
  <2>1. /\ who[b] \in Clients /\ broker[who[b]] = b /\ Started(who[b])
        /\ ~closed[who[b]]
        BY <1>6 DEF RunAdd
  <2>2. /\ members' = [members EXCEPT ![b] = @ \cup {who[b]}]
        /\ loop' = [loop EXCEPT ![b] = "top"] /\ who' = [who EXCEPT ![b] = None]
        /\ UNCHANGED <<broker, reader, closed>>
        BY <1>6 DEF RunAdd, Handled
  <2>3. ASSUME NEW a \in Brokers, NEW c \in members'[a]
        PROVE  broker[c] = a /\ Started(c) /\ ~closed[c]
        BY <2>1, <2>2, <2>3 DEF TypeOK
  <2>4. ASSUME NEW a \in Brokers, loop'[a] = "add"
        PROVE  a # b /\ loop[a] = "add" /\ who'[a] = who[a]
        BY <2>2, <2>4 DEF TypeOK
  <2> QED BY <2>2, <2>3, <2>4
<1>7. ASSUME NEW b \in Brokers, RunRemove(b) PROVE MembersOpen'
      BY SMTT(30), <1>7 DEF RunRemove, Evict, Handled, TypeOK
<1>8. ASSUME NEW b \in Brokers, RunFanOut(b) PROVE MembersOpen'
  <2>1. Full(b) \subseteq members[b]
        BY DEF Full
  <2> QED BY <1>8, <2>1 DEF RunFanOut, Evict, Handled, TypeOK
<1>9. ASSUME NEW c \in Clients, Read(c) PROVE MembersOpen'
      BY <1>9 DEF Read, TypeOK
<1>10. ASSUME NEW c \in Clients, SendToLoop(c) PROVE MembersOpen'
      BY <1>10 DEF SendToLoop, ManagerAdds, TypeOK
<1>11. ASSUME NEW c \in Clients, ReadFails(c) PROVE MembersOpen'
      BY <1>11 DEF ReadFails, TypeOK
<1>12. ASSUME NEW c \in Clients, RemoveFromLoop(c) PROVE MembersOpen'
      BY <1>12 DEF RemoveFromLoop, ManagerAdds, TypeOK
<1>13. CASE UNCHANGED coreVars
      BY <1>13 DEF coreVars
<1>14. CASE UNCHANGED vars
      BY <1>14 DEF vars
<1> QED
    BY <1>1, <1>2, <1>3, <1>4, <1>5, <1>6, <1>7, <1>8, <1>9, <1>10, <1>11,
       <1>12, <1>13, <1>14, OutsideCore DEF Next, Tick, Ticker

\* What the ticker looks at stays registered until it retires it itself.
LEMMA TickerChecksStep == IInv /\ [Next]_vars => TickerChecks'
<1> SUFFICES ASSUME TypeOK, TickerChecks, ManagerAdds, [Next]_vars PROVE TickerChecks'
    BY DEF IInv
<1> USE BrokerAssumption DEF TickerChecks, managerVars, loopVars, socketVars
<1>1. ASSUME NEW c \in Clients, ManagerReceive(c) PROVE TickerChecks'
      BY <1>1 DEF ManagerReceive, TypeOK
<1>2. ASSUME NEW c \in Clients, ManagerAdd(c) PROVE TickerChecks'
      BY <1>2 DEF ManagerAdd
<1>3. CASE TickBegins
      BY <1>3 DEF TickBegins, TypeOK
<1>4. ASSUME NEW r \in Realms, TickSees(r) PROVE TickerChecks'
      BY <1>4 DEF TickSees
<1>5. CASE Retire
  <2>1. PICK e \in checking : e = expired
        BY <1>5 DEF Retire
  <2>2. /\ brokers' = [brokers EXCEPT ![e] = None] /\ UNCHANGED mgr
        /\ checking' = checking \ {e} /\ expired' = None
        BY <1>5, <2>1 DEF Retire
  <2> QED BY <2>1, <2>2 DEF TypeOK
<1>6. CASE UNCHANGED <<brokers, mgr, checking, expired>>
      BY <1>6
<1> QED BY <1>1, <1>2, <1>3, <1>4, <1>5, <1>6
        DEF Next, Upgrade, LoopTop, RunAdd, RunRemove, RunFanOut, Handled, Read, SendToLoop,
            ReadFails, RemoveFromLoop, Write, WriterSeesClose, WriteFails, PeerGone, vars
-----------------------------------------------------------------------------
(* The theorems *)

\* The inductive invariant holds in every reachable state.
LEMMA Invariance == Spec => []IInv
<1>1. Init => IInv
  <2>1. Init => TypeOK
        BY TypeInit
  <2>2. Init => Registered /\ ManagerAdds /\ MembersOpen /\ TickerChecks
        BY BrokerAssumption DEF Init, Registered, ManagerAdds, MembersOpen, TickerChecks, Started
  <2> QED BY <2>1, <2>2 DEF IInv
<1>2. IInv /\ [Next]_vars => IInv'
      BY TypeStep, RegisteredStep, ManagerAddsStep, MembersOpenStep, TickerChecksStep DEF IInv
<1> QED BY <1>1, <1>2, PTL DEF Spec

\* Every variable has its type, and no send buffer exceeds its capacity
\* (broker.go:62-71, 86).
THEOREM TypeCorrect == Spec => []TypeOK
BY Invariance, PTL DEF IInv

\* run() never sends on, and never closes again, a channel it has closed
\* (broker.go:57-71).
THEOREM NeverSendsOnClosed == Spec => []NoClosedMember
<1>1. IInv => NoClosedMember
      BY DEF IInv, MembersOpen, NoClosedMember
<1> QED BY <1>1, Invariance, PTL

\* The ticker never retires the broker the manager is blocked on
\* (broker.go:178-203).
THEOREM ManagerAlwaysServed == Spec => []ManagerNeverStuck
<1>1. IInv => ManagerNeverStuck
  <2> SUFFICES ASSUME IInv, mgr # None
               PROVE  /\ broker[mgr] # None
                      /\ brokers[realm[mgr]] = broker[mgr]
                      /\ ~done[broker[mgr]]
                      /\ loop[broker[mgr]] # "exited"
      BY DEF ManagerNeverStuck
  <2>1. mgr \in Clients /\ reader[mgr] = "adding"
        BY DEF IInv, TypeOK, ManagerAdds
  <2>2. /\ realm[mgr] \in Realms /\ broker[mgr] \in Brokers
        /\ broker[mgr] = brokers[realm[mgr]]
        BY <2>1 DEF IInv, ManagerAdds
  <2> QED BY <2>2, BrokerAssumption DEF IInv, Registered
<1> QED BY <1>1, Invariance, PTL
-----------------------------------------------------------------------------
(* What the clients receive: Broker implements RealmBus *)

\* No message is in two places: with a reader, with a loop, or in a log.
Sending(c) == reader[c] = "sending"
OnceOnly ==
  /\ sent <= MaxMsgs
  /\ \A c \in Clients : Sending(c) => carry[c] \in 1..sent
  /\ \A b \in Brokers : loop[b] = "send" => what[b] \in 1..sent
  /\ \A c, d \in Clients : Sending(c) /\ Sending(d) /\ carry[c] = carry[d] => c = d
  /\ \A a, b \in Brokers : loop[a] = "send" /\ loop[b] = "send" /\ what[a] = what[b] => a = b
  /\ \A c \in Clients, b \in Brokers : Sending(c) /\ loop[b] = "send" => carry[c] # what[b]
  /\ \A q \in Brokers : \A i \in DOMAIN log[q] :
       /\ log[q][i] \in 1..sent
       /\ \A c \in Clients : Sending(c) => log[q][i] # carry[c]
       /\ \A b \in Brokers : loop[b] = "send" => log[q][i] # what[b]

\* What a client has received and what waits in its buffer is a stretch of its
\* broker's log, which ends where the log ends as long as the client is a member.
Streamed(c) ==
  /\ ~Joined(c) => queue[c] = <<>> /\ got[c] = <<>>
  /\ Joined(c) /\ conn[c] = "open" =>
       /\ from[c] + Len(got[c]) + Len(queue[c]) <= Len(log[broker[c]])
       /\ c \in members[broker[c]] =>
            from[c] + Len(got[c]) + Len(queue[c]) = Len(log[broker[c]])
       /\ \A i \in 1..Len(queue[c]) : queue[c][i] = log[broker[c]][from[c] + Len(got[c]) + i]

StreamInv == OnceOnly /\ \A c \in Clients : Streamed(c)

\* A sequence with one more entry.
LEMMA Appended ==
  ASSUME NEW S, NEW q \in Seq(S), NEW e \in S
  PROVE  /\ Append(q, e) \in Seq(S)
         /\ Len(q) \in Nat /\ Len(Append(q, e)) = Len(q) + 1
         /\ DOMAIN q = 1..Len(q) /\ DOMAIN Append(q, e) = 1..(Len(q) + 1)
         /\ \A i \in DOMAIN q : Append(q, e)[i] = q[i] /\ q[i] \in S
         /\ Append(q, e)[Len(q) + 1] = e
OBVIOUS

LEMMA InAppended ==
  ASSUME NEW S, NEW q \in Seq(S), NEW e \in S, NEW i \in DOMAIN Append(q, e)
  PROVE  Append(q, e)[i] = e \/ (i \in DOMAIN q /\ Append(q, e)[i] = q[i])
OBVIOUS

\* A sequence without its first entry.
LEMMA Shortened ==
  ASSUME NEW S, NEW q \in Seq(S), q # <<>>
  PROVE  /\ Tail(q) \in Seq(S) /\ Head(q) = q[1] /\ Head(q) \in S
         /\ Len(q) \in Nat \ {0} /\ Len(Tail(q)) = Len(q) - 1
         /\ DOMAIN q = 1..Len(q) /\ DOMAIN Tail(q) = 1..(Len(q) - 1)
         /\ \A i \in DOMAIN Tail(q) : Tail(q)[i] = q[i + 1]
OBVIOUS

\* A client is in no loop's hands and its goroutines and its broker stay: it
\* stays in its room, or outside.
LEMMA SameRoom ==
  ASSUME NEW c \in Clients, Started(c)' <=> Started(c), Joined(c) => broker'[c] = broker[c],
         \A b \in Brokers : loop'[b] = "add" /\ who'[b] = c <=> loop[b] = "add" /\ who[b] = c
  PROVE  (Joined(c)' <=> Joined(c)) /\ (Joined(c) => broker'[c] = broker[c])
BY DEF Joined

\* Whom the loop of b takes in joins b.
LEMMA RunAddJoins ==
  ASSUME IInv, NEW b \in Brokers, RunAdd(b), NEW d, who[b] = d
  PROVE  /\ d \in Clients /\ broker[d] = b /\ ~Joined(d) /\ Joined(d)'
         /\ UNCHANGED broker
         /\ \A c \in Clients \ {d} : Joined(c)' <=> Joined(c)
<1>1. loop[b] = "add" /\ d \in Clients /\ broker[d] = b /\ Started(d)
      BY DEF RunAdd, IInv, MembersOpen
<1>2. /\ UNCHANGED <<broker, reader>>
      /\ \A a \in Brokers : /\ loop'[a] = IF a = b THEN "top" ELSE loop[a]
                            /\ who'[a] = IF a = b THEN None ELSE who[a]
      BY DEF RunAdd, Handled, IInv, TypeOK, socketVars
<1>3. \A a \in Brokers : loop[a] = "add" /\ who[a] = d => a = b
      BY <1>1 DEF IInv, MembersOpen
<1>4. Joined(d)'
      BY <1>1, <1>2, <1>3 DEF Joined, Started
<1>5. \A c \in Clients \ {d} : Joined(c)' <=> Joined(c)
      BY <1>1, <1>2 DEF Joined, Started
<1> QED BY <1>1, <1>2, <1>4, <1>5 DEF Joined

\* Clients join only where a loop takes them in, and stay.
LEMMA Rooms ==
  ASSUME IInv, [Next]_vars, NEW c \in Clients
  PROVE  /\ Joined(c) => broker'[c] = broker[c]
         /\ \/ Joined(c)' <=> Joined(c)
            \/ \E b \in Brokers : RunAdd(b) /\ who[b] = c
<1> TypeOK /\ ManagerAdds
    BY DEF IInv
<1> USE DEF managerVars, loopVars, socketVars
<1>1. ASSUME NEW d \in Clients, NEW r \in Realms, Upgrade(d, r) PROVE Joined(c)' <=> Joined(c)
      BY <1>1 DEF Upgrade, Started, Joined, TypeOK
<1>2. ASSUME NEW d \in Clients, ManagerReceive(d)
      PROVE  (Joined(c)' <=> Joined(c)) /\ (Joined(c) => broker'[c] = broker[c])
  <2>1. /\ reader[d] = "offered" /\ reader' = [reader EXCEPT ![d] = "adding"]
        /\ \A e \in Clients \ {d} : broker'[e] = broker[e]
        /\ \A b \in Brokers : who'[b] = who[b] /\ (loop'[b] = "add" <=> loop[b] = "add")
        BY <1>2 DEF ManagerReceive, TypeOK, Fresh
  <2>2. Started(c)' <=> Started(c)
        BY <2>1 DEF Started, TypeOK
  <2>3. Joined(c) => broker'[c] = broker[c]
        BY <2>1 DEF Joined, Started
  <2> QED BY <2>1, <2>2, <2>3, SameRoom
<1>3. ASSUME NEW d \in Clients, ManagerAdd(d)
      PROVE  (Joined(c)' <=> Joined(c)) /\ (Joined(c) => broker'[c] = broker[c])
  <2>1. /\ reader[d] = "adding" /\ reader' = [reader EXCEPT ![d] = "reading"] /\ UNCHANGED broker
        /\ broker[d] \in Brokers /\ loop[broker[d]] = "select"
        /\ loop' = [loop EXCEPT ![broker[d]] = "add"] /\ who' = [who EXCEPT ![broker[d]] = d]
        BY <1>3, BrokerAssumption DEF ManagerAdd, ManagerAdds
  <2>2. CASE c = d
        BY <2>1, <2>2 DEF Joined, Started, TypeOK
  <2>3. CASE c # d
    <3>1. Started(c)' <=> Started(c)
          BY <2>1, <2>3 DEF Started, TypeOK
    <3>2. \A b \in Brokers : loop'[b] = "add" /\ who'[b] = c <=> loop[b] = "add" /\ who[b] = c
          BY <2>1, <2>3 DEF TypeOK
    <3> QED BY <2>1, <3>1, <3>2, SameRoom
  <2> QED BY <2>2, <2>3
<1>4. CASE Tick
      BY <1>4, TickKeeps DEF Joined, Started, socketVars
<1>5. ASSUME NEW b \in Brokers, LoopTop(b) PROVE Joined(c)' <=> Joined(c)
      BY <1>5 DEF LoopTop, Joined, Started, TypeOK
<1>6. ASSUME NEW b \in Brokers, RunAdd(b)
      PROVE  /\ UNCHANGED broker
             /\ (Joined(c)' <=> Joined(c)) \/ \E a \in Brokers : RunAdd(a) /\ who[a] = c
      BY <1>6, RunAddJoins
<1>7. ASSUME NEW b \in Brokers, RunRemove(b) \/ RunFanOut(b)
      PROVE  (Joined(c)' <=> Joined(c)) /\ UNCHANGED broker
  <2>1. /\ loop[b] # "add" /\ UNCHANGED <<reader, broker>>
        /\ \A a \in Brokers : /\ loop'[a] = IF a = b THEN "top" ELSE loop[a]
                              /\ who'[a] = IF a = b THEN None ELSE who[a]
        BY <1>7 DEF RunRemove, RunFanOut, Handled, TypeOK
  <2> QED BY <2>1 DEF Joined, Started
<1>8. ASSUME NEW d \in Clients, Read(d) PROVE Joined(c)' <=> Joined(c)
      BY <1>8 DEF Read, Joined, Started, TypeOK
<1>9. ASSUME NEW d \in Clients, SendToLoop(d) PROVE (Joined(c)' <=> Joined(c)) /\ UNCHANGED broker
  <2>1. /\ broker[d] \in Brokers /\ reader[d] = "sending" /\ reader' = [reader EXCEPT ![d] = "reading"]
        /\ loop[broker[d]] = "select" /\ loop' = [loop EXCEPT ![broker[d]] = "send"]
        /\ UNCHANGED <<broker, who>>
        BY <1>9 DEF SendToLoop, ManagerAdds, Started
  <2>2. Started(c)' <=> Started(c)
        BY <2>1 DEF Started, TypeOK
  <2>3. \A b \in Brokers : loop'[b] = "add" <=> loop[b] = "add"
        BY <2>1 DEF TypeOK
  <2> QED BY <2>1, <2>2, <2>3, SameRoom
<1>10. ASSUME NEW d \in Clients, ReadFails(d) PROVE Joined(c)' <=> Joined(c)
      BY <1>10 DEF ReadFails, Joined, Started, TypeOK
<1>11. ASSUME NEW d \in Clients, RemoveFromLoop(d) PROVE (Joined(c)' <=> Joined(c)) /\ UNCHANGED broker
  <2>1. /\ broker[d] \in Brokers /\ reader[d] = "removing" /\ reader' = [reader EXCEPT ![d] = "gone"]
        /\ loop[broker[d]] = "select" /\ loop' = [loop EXCEPT ![broker[d]] = "remove"]
        /\ who' = [who EXCEPT ![broker[d]] = d]
        /\ UNCHANGED broker
        BY <1>11 DEF RemoveFromLoop, ManagerAdds, Started
  <2>2. Started(c)' <=> Started(c)
        BY <2>1 DEF Started, TypeOK
  <2>3. \A b \in Brokers : loop'[b] = "add" /\ who'[b] = c <=> loop[b] = "add" /\ who[b] = c
        BY <2>1 DEF TypeOK
  <2> QED BY <2>1, <2>2, <2>3, SameRoom
<1>12. CASE UNCHANGED coreVars
      BY <1>12 DEF coreVars, Joined, Started
<1>13. CASE UNCHANGED vars
      BY <1>13 DEF vars, Joined, Started
<1>14. (\E d \in Clients, r \in Realms : Upgrade(d, r)) \/ Tick
       \/ (\E b \in Brokers : LoopTop(b)) \/ (\E d \in Clients : Read(d) \/ ReadFails(d))
       \/ UNCHANGED coreVars \/ UNCHANGED vars => UNCHANGED broker
      BY TickKeeps DEF Upgrade, LoopTop, Read, ReadFails, coreVars, vars, socketVars
<1> QED BY <1>1, <1>2, <1>3, <1>4, <1>5, <1>6, <1>7, <1>8, <1>9, <1>10, <1>11, <1>12, <1>13, <1>14,
           OutsideCore DEF Next, Tick, Ticker

\* A step that sends nothing and hands no message on.
LEMMA NothingHandedOn ==
  ASSUME OnceOnly, UNCHANGED <<sent, log>>,
         \A c \in Clients : Sending(c)' => Sending(c) /\ carry'[c] = carry[c],
         \A b \in Brokers : loop'[b] = "send" => loop[b] = "send" /\ what'[b] = what[b]
  PROVE  OnceOnly'
<1>1. /\ sent <= MaxMsgs
      /\ \A c \in Clients : Sending(c) => carry[c] \in 1..sent
      /\ \A b \in Brokers : loop[b] = "send" => what[b] \in 1..sent
      BY DEF OnceOnly
<1>2. /\ \A c, d \in Clients : Sending(c) /\ Sending(d) /\ carry[c] = carry[d] => c = d
      /\ \A a, b \in Brokers : loop[a] = "send" /\ loop[b] = "send" /\ what[a] = what[b] => a = b
      /\ \A c \in Clients, b \in Brokers : Sending(c) /\ loop[b] = "send" => carry[c] # what[b]
      BY DEF OnceOnly
<1>3. \A q \in Brokers : \A i \in DOMAIN log[q] :
        /\ log[q][i] \in 1..sent
        /\ \A c \in Clients : Sending(c) => log[q][i] # carry[c]
        /\ \A b \in Brokers : loop[b] = "send" => log[q][i] # what[b]
      BY DEF OnceOnly
<1>4. /\ sent' <= MaxMsgs
      /\ \A c \in Clients : Sending(c)' => carry'[c] \in 1..sent'
      /\ \A b \in Brokers : loop'[b] = "send" => what'[b] \in 1..sent'
      BY <1>1
<1>5. /\ \A c, d \in Clients : Sending(c)' /\ Sending(d)' /\ carry'[c] = carry'[d] => c = d
      /\ \A a, b \in Brokers : loop'[a] = "send" /\ loop'[b] = "send" /\ what'[a] = what'[b] => a = b
      /\ \A c \in Clients, b \in Brokers : Sending(c)' /\ loop'[b] = "send" => carry'[c] # what'[b]
      BY <1>2
<1>6. \A q \in Brokers : \A i \in DOMAIN log'[q] :
        /\ log'[q][i] \in 1..sent'
        /\ \A c \in Clients : Sending(c)' => log'[q][i] # carry'[c]
        /\ \A b \in Brokers : loop'[b] = "send" => log'[q][i] # what'[b]
      BY <1>3
<1> QED BY <1>4, <1>5, <1>6 DEF OnceOnly

LEMMA OnceOnlyStep == IInv /\ OnceOnly /\ [Next]_vars => OnceOnly'
<1> SUFFICES ASSUME IInv, OnceOnly, [Next]_vars PROVE OnceOnly'
    OBVIOUS
<1> TypeOK /\ ManagerAdds
    BY DEF IInv
<1> USE DEF managerVars, loopVars, socketVars
<1>0. /\ sent \in Nat /\ sent <= MaxMsgs /\ MaxMsgs \in Nat
      /\ \A c \in Clients : Sending(c) => carry[c] \in 1..sent
      /\ \A b \in Brokers : loop[b] = "send" => what[b] \in 1..sent
      /\ \A c, d \in Clients : Sending(c) /\ Sending(d) /\ carry[c] = carry[d] => c = d
      /\ \A a, b \in Brokers : loop[a] = "send" /\ loop[b] = "send" /\ what[a] = what[b] => a = b
      /\ \A c \in Clients, b \in Brokers : Sending(c) /\ loop[b] = "send" => carry[c] # what[b]
      /\ \A q \in Brokers : \A i \in DOMAIN log[q] :
           /\ log[q][i] \in 1..sent
           /\ \A c \in Clients : Sending(c) => log[q][i] # carry[c]
           /\ \A b \in Brokers : loop[b] = "send" => log[q][i] # what[b]
      BY BrokerAssumption DEF OnceOnly, TypeOK
<1>1. ASSUME NEW d \in Clients, Read(d) PROVE OnceOnly'
  <2>1. /\ sent' = sent + 1 /\ sent' <= MaxMsgs /\ UNCHANGED <<loop, what, log>>
        /\ \A c \in Clients : carry'[c] = IF c = d THEN sent' ELSE carry[c]
        /\ \A c \in Clients : Sending(c)' <=> Sending(c) \/ c = d
        BY <1>0, <1>1 DEF Read, TypeOK, Sending
  <2>2. sent' \notin 1..sent /\ \A m \in 1..sent : m \in 1..sent'
        BY <1>0, <2>1
  <2>3. sent' \in 1..sent'
        BY <1>0, <2>1
  <2>4. /\ \A c \in Clients : Sending(c)' => carry'[c] \in 1..sent'
        /\ \A b \in Brokers : loop'[b] = "send" => what'[b] \in 1..sent'
        BY <1>0, <2>1, <2>2, <2>3
  <2>5. /\ \A c, e \in Clients : Sending(c)' /\ Sending(e)' /\ carry'[c] = carry'[e] => c = e
        /\ \A c \in Clients, b \in Brokers : Sending(c)' /\ loop'[b] = "send" => carry'[c] # what'[b]
        BY <1>0, <2>1, <2>2
  <2>6. \A q \in Brokers : \A i \in DOMAIN log'[q] :
          /\ log'[q][i] \in 1..sent'
          /\ \A c \in Clients : Sending(c)' => log'[q][i] # carry'[c]
          /\ \A b \in Brokers : loop'[b] = "send" => log'[q][i] # what'[b]
        BY <1>0, <2>1, <2>2
  <2> QED BY <1>0, <2>1, <2>4, <2>5, <2>6 DEF OnceOnly
<1>2. ASSUME NEW d \in Clients, SendToLoop(d) PROVE OnceOnly'
  <2>1. PICK e \in Brokers : e = broker[d]
        BY <1>2 DEF SendToLoop, ManagerAdds, Started
  <2>2. /\ UNCHANGED <<sent, log>> /\ Sending(d) /\ loop[e] = "select"
        /\ \A c \in Clients : Sending(c)' <=> Sending(c) /\ c # d
        /\ \A c \in Clients : c # d => carry'[c] = carry[c]
        /\ \A b \in Brokers : loop'[b] = "send" <=> loop[b] = "send" \/ b = e
        /\ \A b \in Brokers : what'[b] = IF b = e THEN carry[d] ELSE what[b]
        BY <1>2, <2>1 DEF SendToLoop, TypeOK, Sending
  <2>3. /\ \A c \in Clients : Sending(c)' => carry'[c] \in 1..sent'
        /\ \A b \in Brokers : loop'[b] = "send" => what'[b] \in 1..sent'
        BY <1>0, <2>2
  <2>4. /\ \A c, f \in Clients : Sending(c)' /\ Sending(f)' /\ carry'[c] = carry'[f] => c = f
        /\ \A a, b \in Brokers : loop'[a] = "send" /\ loop'[b] = "send" /\ what'[a] = what'[b] => a = b
        /\ \A c \in Clients, b \in Brokers : Sending(c)' /\ loop'[b] = "send" => carry'[c] # what'[b]
        BY <1>0, <2>2
  <2>5. \A q \in Brokers : \A i \in DOMAIN log'[q] :
          /\ log'[q][i] \in 1..sent'
          /\ \A c \in Clients : Sending(c)' => log'[q][i] # carry'[c]
          /\ \A b \in Brokers : loop'[b] = "send" => log'[q][i] # what'[b]
        BY <1>0, <2>2
  <2> QED BY <1>0, <2>2, <2>3, <2>4, <2>5 DEF OnceOnly
<1>3. ASSUME NEW e \in Brokers, RunFanOut(e) PROVE OnceOnly'
  <2>1. /\ UNCHANGED <<sent, reader, carry>> /\ loop[e] = "send"
        /\ \A b \in Brokers : loop'[b] = "send" <=> loop[b] = "send" /\ b # e
        /\ \A b \in Brokers : b # e => what'[b] = what[b]
        BY <1>3 DEF RunFanOut, Handled, TypeOK
  <2>2. \A c \in Clients : Sending(c)' <=> Sending(c)
        BY <2>1 DEF Sending
  <2>3. ASSUME NEW q \in Brokers, NEW i \in DOMAIN log'[q]
        PROVE  log'[q][i] = what[e] \/ (i \in DOMAIN log[q] /\ log'[q][i] = log[q][i])
    <3>1. log[q] \in Seq(Nat) /\ what[e] \in Nat
          BY DEF TypeOK
    <3>2. log'[q] = IF q = e THEN Append(log[q], what[e]) ELSE log[q]
          BY <1>3 DEF RunFanOut, TypeOK
    <3>3. CASE q = e
      <4>1. PICK l \in Seq(Nat), m \in Nat : l = log[q] /\ m = what[e]
            BY <3>1
      <4>2. i \in DOMAIN Append(l, m)
            BY <2>3, <3>2, <3>3, <4>1
      <4>3. Append(l, m)[i] = m \/ (i \in DOMAIN l /\ Append(l, m)[i] = l[i])
            BY <4>2, InAppended
      <4> QED BY <3>2, <3>3, <4>1, <4>3
    <3>4. CASE q # e
          BY <2>3, <3>2, <3>4
    <3> QED BY <3>3, <3>4
  <2>4. \A q \in Brokers : \A i \in DOMAIN log'[q] :
          /\ log'[q][i] \in 1..sent'
          /\ \A c \in Clients : Sending(c)' => log'[q][i] # carry'[c]
          /\ \A b \in Brokers : loop'[b] = "send" => log'[q][i] # what'[b]
        BY <1>0, <2>1, <2>2, <2>3
  <2>5. /\ \A c \in Clients : Sending(c)' => carry'[c] \in 1..sent'
        /\ \A b \in Brokers : loop'[b] = "send" => what'[b] \in 1..sent'
        /\ \A c, d \in Clients : Sending(c)' /\ Sending(d)' /\ carry'[c] = carry'[d] => c = d
        /\ \A a, b \in Brokers : loop'[a] = "send" /\ loop'[b] = "send" /\ what'[a] = what'[b] => a = b
        /\ \A c \in Clients, b \in Brokers : Sending(c)' /\ loop'[b] = "send" => carry'[c] # what'[b]
        BY <1>0, <2>1, <2>2
  <2> QED BY <1>0, <2>1, <2>4, <2>5 DEF OnceOnly
<1>4. CASE \/ \E c \in Clients, r \in Realms : Upgrade(c, r)
           \/ \E c \in Clients : ManagerReceive(c) \/ ReadFails(c)
           \/ Tick
  <2>1. /\ UNCHANGED <<sent, log, carry, what>>
        /\ \A c \in Clients : Sending(c)' => Sending(c)
        /\ \A b \in Brokers : loop'[b] = "send" => loop[b] = "send"
        BY <1>4, TickKeeps DEF Upgrade, ManagerReceive, ReadFails, Sending, TypeOK, socketVars
  <2> QED BY <2>1, NothingHandedOn
<1>5. CASE \E c \in Clients : ManagerAdd(c) \/ RemoveFromLoop(c)
  <2>1. /\ UNCHANGED <<sent, log, carry, what>>
        /\ \A c \in Clients : Sending(c)' => Sending(c)
        /\ \A b \in Brokers : loop'[b] = "send" => loop[b] = "send"
        BY <1>5 DEF ManagerAdd, RemoveFromLoop, Sending, TypeOK
  <2> QED BY <2>1, NothingHandedOn
<1>6. CASE \E b \in Brokers : LoopTop(b) \/ RunAdd(b) \/ RunRemove(b)
  <2>1. /\ UNCHANGED <<sent, log, carry, reader>>
        /\ \A b \in Brokers : loop'[b] = "send" => loop[b] = "send" /\ what'[b] = what[b]
        BY <1>6 DEF LoopTop, RunAdd, RunRemove, Handled, TypeOK
  <2> QED BY <2>1, NothingHandedOn DEF Sending
<1>7. CASE \/ \E c \in Clients : Write(c) \/ WriterSeesClose(c) \/ WriteFails(c) \/ PeerGone(c)
           \/ UNCHANGED vars
  <2>1. UNCHANGED <<sent, log, carry, reader, loop, what>>
        BY <1>7 DEF Write, WriterSeesClose, WriteFails, PeerGone, vars
  <2> QED BY <2>1, NothingHandedOn DEF Sending
<1> QED BY <1>1, <1>2, <1>3, <1>4, <1>5, <1>6, <1>7 DEF Next, Tick, Ticker

\* A step that leaves what c received and its buffer alone, and its broker's log.
LEMMA StreamKept ==
  ASSUME NEW c \in Clients, Streamed(c), Joined(c)' <=> Joined(c),
         UNCHANGED <<queue[c], got[c], from[c], log>>,
         Joined(c) =>
           /\ broker'[c] = broker[c]
           /\ conn'[c] = "open" => conn[c] = "open"
           /\ c \in members'[broker[c]] => c \in members[broker[c]]
  PROVE  Streamed(c)'
BY DEF Streamed

\* What is buffered or delivered belongs to a client in a room, and members are
\* in theirs, unless their loop is taking somebody in.
LEMMA InRooms ==
  ASSUME IInv, NEW b \in Brokers, loop[b] # "add"
  PROVE  \A c \in members[b] : broker[c] = b /\ Joined(c)
BY DEF IInv, MembersOpen, Joined

LEMMA FanOutStream ==
  ASSUME IInv, [Next]_vars, NEW b \in Brokers, RunFanOut(b), NEW c \in Clients, Streamed(c)
  PROVE  Streamed(c)'
<1> TypeOK
    BY DEF IInv
<1>1. /\ loop[b] = "send" /\ UNCHANGED <<from, got, conn, broker>>
      /\ what[b] \in Nat
      BY DEF RunFanOut, Handled, TypeOK, socketVars
<1>2. Joined(c)' <=> Joined(c)
  <2>2. \A a \in Brokers : who'[a] = IF a = b THEN None ELSE who[a]
        BY DEF RunFanOut, Handled, TypeOK
  <2>3. \A a \in Brokers : loop'[a] = IF a = b THEN "top" ELSE loop[a]
        BY DEF RunFanOut, Handled, TypeOK
  <2>4. UNCHANGED reader
        BY DEF RunFanOut, Handled, socketVars
  <2> QED BY <1>1, <2>2, <2>3, <2>4 DEF Joined, Started
<1>3. CASE c \notin members[b] \/ c \in Full(b)
  <2>1. queue'[c] = queue[c] /\ c \notin members'[b]
        BY <1>3 DEF RunFanOut, Evict, TypeOK
  <2>2. CASE ~Joined(c)
        BY <1>1, <1>2, <2>1, <2>2 DEF Streamed
  <2>3. CASE Joined(c) /\ broker[c] # b
    <3>1. log'[broker[c]] = log[broker[c]] /\ members'[broker[c]] = members[broker[c]]
          BY <2>3 DEF RunFanOut, Evict, TypeOK
    <3> QED BY <1>1, <1>2, <2>1, <2>3, <3>1 DEF Streamed
  <2>4. CASE Joined(c) /\ broker[c] = b
    <3>1. PICK L \in Seq(Nat), m \in Nat, F \in Nat, G \in Nat, Q \in Seq(Nat) :
            /\ L = log[b] /\ m = what[b] /\ F = from[c] /\ G = Len(got[c]) /\ Q = queue[c]
          BY <1>1 DEF TypeOK
    <3>2. log'[b] = Append(L, m)
          BY <3>1 DEF RunFanOut, TypeOK
    <3>3. ASSUME conn[c] = "open"
          PROVE  /\ F + G + Len(Q) <= Len(L) + 1
                 /\ \A k \in 1..Len(Q) : Q[k] = Append(L, m)[F + G + k]
      <4>1. /\ F + G + Len(Q) <= Len(L) /\ \A k \in 1..Len(Q) : Q[k] = L[F + G + k]
            BY <2>4, <3>1, <3>3 DEF Streamed
      <4>2. Len(L) \in Nat /\ Len(Q) \in Nat /\ \A k \in 1..Len(L) : Append(L, m)[k] = L[k]
            BY Appended
      <4>3. \A k \in 1..Len(Q) : F + G + k \in 1..Len(L)
            BY <4>1, <4>2
      <4> QED BY <4>1, <4>2, <4>3
    <3>4. /\ log'[broker'[c]] = Append(L, m) /\ Len(Append(L, m)) = Len(L) + 1 /\ queue'[c] = Q
          /\ broker'[c] = b /\ from'[c] = F /\ Len(got'[c]) = G /\ conn'[c] = conn[c] /\ Joined(c)'
          BY <1>1, <1>2, <2>1, <2>4, <3>1, <3>2, Appended
    <3> QED BY <2>1, <3>3, <3>4 DEF Streamed
  <2> QED BY <2>2, <2>3, <2>4
<1>4. CASE c \in members[b] \ Full(b)
  <2>1. broker[c] = b /\ Joined(c)
        BY <1>1, <1>4, InRooms
  <2>2. PICK L \in Seq(Nat), m \in Nat, F \in Nat, G \in Nat, Q \in Seq(Nat) :
          /\ L = log[b] /\ m = what[b] /\ F = from[c] /\ G = Len(got[c]) /\ Q = queue[c]
        BY <1>1 DEF TypeOK
  <2>3. PICK M, P : M = Append(L, m) /\ P = Append(Q, m)
        OBVIOUS
  <2>4. /\ Len(L) \in Nat /\ Len(Q) \in Nat /\ Len(M) = Len(L) + 1 /\ Len(P) = Len(Q) + 1
        /\ \A k \in 1..Len(L) : M[k] = L[k]
        /\ \A k \in 1..Len(Q) : P[k] = Q[k]
        /\ M[Len(L) + 1] = m /\ P[Len(Q) + 1] = m
        BY <2>3, Appended
  <2>5. ASSUME conn[c] = "open"
        PROVE  /\ F + G + Len(P) = Len(M)
               /\ \A k \in 1..Len(P) : P[k] = M[F + G + k]
    <3>1. /\ F + G + Len(Q) = Len(L) /\ \A k \in 1..Len(Q) : Q[k] = L[F + G + k]
          BY <1>4, <2>1, <2>2, <2>5 DEF Streamed
    <3>2. \A k \in 1..Len(Q) : F + G + k \in 1..Len(L)
          BY <2>4, <3>1
    <3>3. F + G + (Len(Q) + 1) = Len(L) + 1
          BY <2>4, <3>1
    <3>4. ASSUME NEW k \in 1..(Len(Q) + 1) PROVE P[k] = M[F + G + k]
      <4>1. CASE k \in 1..Len(Q)
            BY <2>4, <3>1, <3>2, <4>1
      <4>2. CASE k = Len(Q) + 1
            BY <2>4, <3>3, <4>2
      <4> QED BY <2>4, <4>1, <4>2
    <3> QED BY <2>4, <3>3, <3>4
  <2>6. /\ log'[broker'[c]] = M /\ queue'[c] = P
        /\ broker'[c] = b /\ from'[c] = F /\ Len(got'[c]) = G /\ conn'[c] = conn[c] /\ Joined(c)'
    <3>1. log'[b] = Append(L, m) /\ queue'[c] = Append(Q, m)
          BY <1>4, <2>2 DEF RunFanOut, TypeOK
    <3>2. log'[b] = M /\ queue'[c] = P
          BY ONLY <2>3, <3>1
    <3>3. broker'[c] = b /\ Joined(c)'
          BY ONLY <1>1, <1>2, <2>1
    <3>4. from'[c] = F /\ Len(got'[c]) = G /\ conn'[c] = conn[c]
          BY ONLY <1>1, <2>2
    <3> QED BY ONLY <3>2, <3>3, <3>4
  <2>7. conn'[c] = "open" =>
          /\ F + G + Len(P) <= Len(M) /\ F + G + Len(P) = Len(M)
          /\ \A k \in 1..Len(P) : P[k] = M[F + G + k]
        BY <2>4, <2>5, <2>6
  <2>8. conn'[c] = "open" =>
          /\ from'[c] + Len(got'[c]) + Len(queue'[c]) <= Len(log'[broker'[c]])
          /\ from'[c] + Len(got'[c]) + Len(queue'[c]) = Len(log'[broker'[c]])
          /\ \A k \in 1..Len(queue'[c]) :
               queue'[c][k] = log'[broker'[c]][from'[c] + Len(got'[c]) + k]
        BY ONLY <2>6, <2>7
  <2> QED BY <2>6, <2>8 DEF Streamed
<1> QED BY <1>3, <1>4

LEMMA WriteStream ==
  ASSUME IInv, NEW d \in Clients, Write(d), NEW c \in Clients, Streamed(c)
  PROVE  Streamed(c)'
<1> TypeOK
    BY DEF IInv
<1>1. /\ UNCHANGED <<loop, who, members, log, from, broker, reader, conn>>
      /\ queue[d] # <<>> /\ queue' = [queue EXCEPT ![d] = Tail(@)]
      /\ got' = IF conn[d] = "open" THEN [got EXCEPT ![d] = Append(@, Head(queue[d]))] ELSE got
      BY DEF Write, managerVars, loopVars
<1>2. Joined(c)' <=> Joined(c)
      BY <1>1 DEF Joined, Started
<1>3. CASE c # d
  <2>1. queue'[c] = queue[c] /\ got'[c] = got[c]
        BY <1>1, <1>3 DEF TypeOK
  <2> QED BY <1>1, <1>2, <2>1, StreamKept
<1>4. CASE c = d /\ conn[d] = "open"
  <2>1. PICK F \in Nat, G \in Seq(Nat), Q \in Seq(Nat), L \in Seq(Nat) :
          F = from[c] /\ G = got[c] /\ Q = queue[c] /\ (Joined(c) => L = log[broker[c]])
    <3>1. from[c] \in Nat /\ got[c] \in Seq(Nat) /\ queue[c] \in Seq(Nat) /\ <<>> \in Seq(Nat)
          BY DEF TypeOK
    <3>2. Joined(c) => log[broker[c]] \in Seq(Nat)
          BY DEF IInv, ManagerAdds, Joined, TypeOK
    <3> QED BY <3>1, <3>2
  <2>2. Joined(c) /\ Q # <<>>
        BY <1>1, <1>4, <2>1 DEF Streamed
  <2>3. PICK T, A : T = Tail(Q) /\ A = Append(G, Head(Q))
        OBVIOUS
  <2>4. /\ Len(Q) \in Nat \ {0} /\ Len(T) = Len(Q) - 1 /\ Head(Q) \in Nat
        /\ \A k \in 1..(Len(Q) - 1) : T[k] = Q[k + 1]
        BY <2>2, <2>3, Shortened
  <2>5. Len(G) \in Nat /\ Len(A) = Len(G) + 1 /\ Len(L) \in Nat
        BY <2>3, <2>4, Appended
  <2>6. /\ F + Len(G) + Len(Q) <= Len(L)
        /\ c \in members[broker[c]] => F + Len(G) + Len(Q) = Len(L)
        /\ \A k \in 1..Len(Q) : Q[k] = L[F + Len(G) + k]
        BY <1>4, <2>1, <2>2 DEF Streamed
  <2>7. F + Len(A) + Len(T) = F + Len(G) + Len(Q)
        BY <2>4, <2>5
  <2>8. ASSUME NEW k \in 1..Len(T) PROVE T[k] = L[F + Len(A) + k]
    <3>1. k \in 1..(Len(Q) - 1) /\ k + 1 \in 1..Len(Q) /\ F + Len(G) + (k + 1) = F + Len(A) + k
          BY <2>4, <2>5
    <3> QED BY <2>4, <2>6, <3>1
  <2>9. queue'[c] = Tail(Q) /\ got'[c] = Append(G, Head(Q))
        BY <1>1, <1>4, <2>1 DEF TypeOK
  <2>10. queue'[c] = T /\ got'[c] = A /\ from'[c] = F /\ log'[broker'[c]] = L
         /\ broker'[c] = broker[c] /\ members' = members
        BY <1>1, <2>1, <2>2, <2>3, <2>9
  <2> QED BY <1>2, <2>2, <2>6, <2>7, <2>8, <2>10 DEF Streamed
<1>5. CASE c = d /\ conn[d] # "open"
      BY <1>1, <1>2, <1>5 DEF Streamed
<1> QED BY <1>3, <1>4, <1>5

LEMMA RunAddStream ==
  ASSUME IInv, NEW b \in Brokers, RunAdd(b), NEW c \in Clients, Streamed(c)
  PROVE  Streamed(c)'
<1> TypeOK
    BY DEF IInv
<1>1. PICK d : d = who[b]
      OBVIOUS
<1>2. /\ d \in Clients /\ broker[d] = b /\ ~Joined(d) /\ Joined(d)' /\ UNCHANGED broker
      /\ \A e \in Clients \ {d} : Joined(e)' <=> Joined(e)
      BY <1>1, RunAddJoins
<1>3. /\ members' = [members EXCEPT ![b] = @ \cup {d}]
      /\ from' = [from EXCEPT ![d] = Len(log[b])]
      /\ UNCHANGED <<log, queue, got, conn>>
      BY <1>1 DEF RunAdd, Handled, socketVars
<1>4. CASE c = d
  <2>1. /\ queue'[c] = <<>> /\ got'[c] = <<>> /\ log'[broker'[c]] = log[b]
        /\ from'[c] = Len(log[b]) /\ Len(log[b]) \in Nat
        BY <1>2, <1>3, <1>4 DEF Streamed, TypeOK
  <2>2. Len(queue'[c]) = 0 /\ Len(got'[c]) = 0
        BY <2>1
  <2> QED BY <1>2, <1>4, <2>1, <2>2 DEF Streamed
<1>5. CASE c # d
  <2>1. from'[c] = from[c] /\ (Joined(c)' <=> Joined(c))
        BY <1>2, <1>3, <1>5 DEF TypeOK
  <2>2. c \in members'[broker[c]] => c \in members[broker[c]]
        BY <1>3, <1>5 DEF TypeOK
  <2> QED BY <1>2, <1>3, <2>1, <2>2, StreamKept
<1> QED BY <1>4, <1>5

LEMMA StreamStep ==
  ASSUME IInv, [Next]_vars, NEW c \in Clients, Streamed(c)
  PROVE  Streamed(c)'
<1> TypeOK
    BY DEF IInv
<1> USE DEF managerVars, loopVars, socketVars
<1>1. CASE \E b \in Brokers : RunAdd(b) \/ RunFanOut(b)
      BY <1>1, RunAddStream, FanOutStream
<1>2. CASE \E d \in Clients : Write(d)
      BY <1>2, WriteStream
<1>3. ASSUME Joined(c) /\ conn'[c] = "open" => conn[c] = "open",
             UNCHANGED <<queue[c], got, from, log>>,
             \A b \in Brokers : members'[b] \subseteq members[b],
             \A b \in Brokers : ~RunAdd(b) \/ who[b] # c
      PROVE  Streamed(c)'
  <2>1. /\ Joined(c)' <=> Joined(c)
        /\ Joined(c) => broker'[c] = broker[c] /\ broker[c] \in Brokers
        BY <1>3, Rooms DEF IInv, ManagerAdds, Joined
  <2> QED BY <1>3, <2>1, StreamKept
<1>4. ASSUME \A b \in Brokers : ~RunAdd(b) \/ who[b] # c, NEW d \in Clients, WriteFails(d)
      PROVE  Streamed(c)'
  <2>1. /\ UNCHANGED <<got, from, log, members>> /\ conn' = [conn EXCEPT ![d] = "closed"]
        /\ c # d => queue'[c] = queue[c]
        /\ queue[c] = <<>> => queue'[c] = <<>>
    <3>1. UNCHANGED queue \/ (queue[d] # <<>> /\ queue' = [queue EXCEPT ![d] = Tail(@)])
          BY <1>4 DEF WriteFails
    <3>2. UNCHANGED <<got, from, log, members>> /\ conn' = [conn EXCEPT ![d] = "closed"]
          BY <1>4 DEF WriteFails, WriterStops
    <3> QED BY <3>1, <3>2 DEF TypeOK
  <2>2. CASE c # d
        BY <1>3, <1>4, <2>1, <2>2 DEF TypeOK
  <2>3. CASE c = d
    <3>1. conn'[c] # "open"
          BY <2>1, <2>3 DEF TypeOK
    <3>2. Joined(c)' <=> Joined(c)
          BY <1>4, Rooms
    <3> QED BY <2>1, <3>1, <3>2 DEF Streamed
  <2> QED BY <2>2, <2>3
<1>5. ASSUME NEW d \in Clients, NEW r \in Realms, Upgrade(d, r), \A b \in Brokers : ~RunAdd(b)
      PROVE  Streamed(c)'
  <2>1. reader[d] = "idle" /\ conn' = [conn EXCEPT ![d] = "open"]
        /\ UNCHANGED <<queue, got, from, log, members>>
        BY <1>5 DEF Upgrade
  <2>2. Joined(c) => conn'[c] = conn[c]
        BY <2>1 DEF Joined, Started, TypeOK
  <2> QED BY <1>3, <1>5, <2>1, <2>2
<1>6. ASSUME NEW b \in Brokers, RunRemove(b), \A a \in Brokers : ~RunAdd(a) PROVE Streamed(c)'
  <2>1. UNCHANGED <<queue, got, from, log, conn>> /\ \A a \in Brokers : members'[a] \subseteq members[a]
        BY <1>6 DEF RunRemove, Handled, Evict, TypeOK
  <2> QED BY <1>3, <1>6, <2>1
<1>7. ASSUME UNCHANGED <<queue, got, from, log, members>>, \A d \in Clients : conn'[d] = "open" => conn[d] = "open",
             \A a \in Brokers : ~RunAdd(a)
      PROVE  Streamed(c)'
      BY <1>3, <1>7
<1>8. CASE \E d \in Clients : ManagerReceive(d) \/ ManagerAdd(d) \/ Read(d) \/ SendToLoop(d)
      BY <1>1, <1>7, <1>8 DEF ManagerReceive, ManagerAdd, Read, SendToLoop
<1>9. CASE \E d \in Clients : ReadFails(d) \/ RemoveFromLoop(d) \/ WriterSeesClose(d) \/ PeerGone(d)
      BY <1>1, <1>7, <1>9 DEF ReadFails, RemoveFromLoop, WriterSeesClose, WriterStops, PeerGone, TypeOK
<1>10. CASE Tick \/ (\E b \in Brokers : LoopTop(b)) \/ UNCHANGED vars
      BY <1>1, <1>7, <1>10, TickKeeps DEF LoopTop, vars
<1> QED BY <1>1, <1>2, <1>4, <1>5, <1>6, <1>8, <1>9, <1>10 DEF Next, Tick, Ticker

\* Nobody is taken in: the rooms stay.
LEMMA RoomsStay ==
  ASSUME IInv, [Next]_vars, \A b \in Brokers : ~RunAdd(b)
  PROVE  UNCHANGED Room
<1>1. ASSUME NEW c \in Clients
      PROVE  (IF Joined(c) THEN broker[c] ELSE None)' = IF Joined(c) THEN broker[c] ELSE None
      BY Rooms
<1> QED BY <1>1 DEF Room

LEMMA JoinStep ==
  ASSUME IInv, NEW b \in Brokers, RunAdd(b)
  PROVE  \E c \in Clients : Bus!Join(c, b)
<1> TypeOK
    BY DEF IInv
<1>1. PICK d : d = who[b]
      OBVIOUS
<1>2. /\ d \in Clients /\ broker[d] = b /\ ~Joined(d) /\ Joined(d)' /\ UNCHANGED broker
      /\ \A e \in Clients \ {d} : Joined(e)' <=> Joined(e)
      BY <1>1, RunAddJoins
<1>3. from' = [from EXCEPT ![d] = Len(log[b])] /\ UNCHANGED <<log, got>>
      BY <1>1 DEF RunAdd, Handled, socketVars
<1>4. Room[d] = None
      BY <1>2 DEF Room
<1>5. Room' = [Room EXCEPT ![d] = b]
  <2>1. ASSUME NEW c \in Clients
        PROVE  (IF Joined(c) THEN broker[c] ELSE None)' =
                 IF c = d THEN b ELSE IF Joined(c) THEN broker[c] ELSE None
        BY <1>2
  <2> QED BY <2>1 DEF Room
<1> QED BY <1>2, <1>3, <1>4, <1>5 DEF Bus!Join

LEMMA PublishStep ==
  ASSUME IInv, OnceOnly, [Next]_vars, NEW b \in Brokers, RunFanOut(b)
  PROVE  \E m \in Msgs : Bus!Publish(b, m)
<1> TypeOK
    BY DEF IInv
<1>1. loop[b] = "send" /\ log' = [log EXCEPT ![b] = Append(@, what[b])] /\ UNCHANGED <<from, got>>
      BY DEF RunFanOut, Handled, socketVars
<1>2. what[b] \in Msgs
  <2>1. what[b] \in 1..sent /\ sent <= MaxMsgs /\ sent \in Nat /\ MaxMsgs \in Nat
        BY <1>1, BrokerAssumption DEF OnceOnly, TypeOK
  <2> QED BY <2>1 DEF Msgs
<1>3. \A q \in Brokers : \A i \in DOMAIN log[q] : log[q][i] # what[b]
      BY <1>1 DEF OnceOnly
<1>4. UNCHANGED Room
  <2>1. \A a \in Brokers : ~RunAdd(a)
        BY <1>1 DEF RunAdd, RunFanOut, Handled, TypeOK
  <2> QED BY <2>1, RoomsStay
<1> QED BY <1>1, <1>2, <1>3, <1>4 DEF Bus!Publish

LEMMA DeliverStep ==
  ASSUME IInv, [Next]_vars, NEW c \in Clients, Streamed(c), Write(c), conn[c] = "open"
  PROVE  Bus!Deliver(c)
<1> TypeOK
    BY DEF IInv
<1>1. /\ queue[c] # <<>> /\ got' = [got EXCEPT ![c] = Append(@, Head(queue[c]))]
      /\ UNCHANGED <<loop, log, from>>
      BY DEF Write, loopVars
<1>2. Joined(c)
      BY <1>1 DEF Streamed
<1>3. broker[c] \in Brokers /\ Room[c] = broker[c]
      BY <1>2 DEF Room, Joined, IInv, ManagerAdds
<1>4. PICK F \in Nat, G \in Nat, Q \in Seq(Nat), L \in Seq(Nat) :
        F = from[c] /\ G = Len(got[c]) /\ Q = queue[c] /\ L = log[broker[c]]
      BY <1>3 DEF TypeOK
<1>5. Len(Q) \in Nat \ {0} /\ Head(Q) = Q[1] /\ Len(L) \in Nat
      BY <1>1, <1>4, Shortened
<1>6. F + G + Len(Q) <= Len(L) /\ \A k \in 1..Len(Q) : Q[k] = L[F + G + k]
      BY <1>2, <1>4 DEF Streamed
<1>7. F + G < Len(L) /\ Head(Q) = L[F + G + 1]
      BY <1>5, <1>6
<1>8. from[c] + Len(got[c]) < Len(log[Room[c]]) /\ Head(queue[c]) = log[Room[c]][from[c] + Len(got[c]) + 1]
      BY <1>3, <1>4, <1>7
<1>9. Room[c] # None
      BY <1>3, BrokerAssumption
<1>10. UNCHANGED Room
  <2>1. \A a \in Brokers : ~RunAdd(a)
        BY <1>1 DEF RunAdd, Handled, TypeOK
  <2> QED BY <2>1, RoomsStay
<1>11. got' = [got EXCEPT ![c] = Append(@, log[Room[c]][from[c] + Len(@) + 1])]
      BY <1>1, <1>8
<1> QED BY <1>1, <1>8, <1>9, <1>10, <1>11 DEF Bus!Deliver

\* Every step of the broker is a step of RealmBus or changes nothing there.
LEMMA BusStep == IInv /\ StreamInv /\ [Next]_vars => [Bus!Next]_(Bus!vars)
<1> SUFFICES ASSUME IInv, StreamInv, [Next]_vars PROVE Bus!Next \/ UNCHANGED Bus!vars
    OBVIOUS
<1> USE DEF managerVars, loopVars, socketVars
<1>1. CASE \E b \in Brokers : RunAdd(b)
      BY <1>1, JoinStep DEF Bus!Next
<1>2. CASE \E b \in Brokers : RunFanOut(b)
      BY <1>2, PublishStep DEF Bus!Next, StreamInv
<1>3. CASE \E c \in Clients : Write(c) /\ conn[c] = "open"
      BY <1>3, DeliverStep DEF Bus!Next, StreamInv
<1>4. ASSUME UNCHANGED <<log, from, got>>, \A b \in Brokers : ~RunAdd(b) PROVE UNCHANGED Bus!vars
      BY <1>4, RoomsStay DEF Bus!vars
<1>5. CASE \E c \in Clients : Write(c) /\ conn[c] # "open"
  <2>1. UNCHANGED <<log, from, got>>
        BY <1>5 DEF Write
  <2> QED BY <1>1, <1>4, <2>1
<1>6. CASE \E d \in Clients : ManagerReceive(d) \/ ManagerAdd(d) \/ Read(d) \/ SendToLoop(d) \/ ReadFails(d)
  <2>1. UNCHANGED <<log, from, got>>
        BY <1>6 DEF ManagerReceive, ManagerAdd, Read, SendToLoop, ReadFails
  <2> QED BY <1>1, <1>4, <2>1
<1>7. CASE \E d \in Clients : RemoveFromLoop(d) \/ WriterSeesClose(d) \/ WriteFails(d) \/ PeerGone(d)
  <2>1. UNCHANGED <<log, from, got>>
        BY <1>7 DEF RemoveFromLoop, WriterSeesClose, WriteFails, WriterStops, PeerGone
  <2> QED BY <1>1, <1>4, <2>1
<1>8. CASE Tick \/ (\E d \in Clients, r \in Realms : Upgrade(d, r))
           \/ (\E b \in Brokers : LoopTop(b) \/ RunRemove(b)) \/ UNCHANGED vars
  <2>1. UNCHANGED <<log, from, got>>
        BY <1>8, TickKeeps DEF Upgrade, LoopTop, RunRemove, Handled, vars, socketVars
  <2> QED BY <1>1, <1>4, <2>1
<1> QED BY <1>1, <1>2, <1>3, <1>5, <1>6, <1>7, <1>8 DEF Next, Tick, Ticker

LEMMA StreamInvariance == Spec => []StreamInv
<1>1. Init => StreamInv
      BY BrokerAssumption DEF Init, StreamInv, OnceOnly, Streamed, Joined, Started, Sending
<1>2. IInv /\ StreamInv /\ [Next]_vars => StreamInv'
      BY OnceOnlyStep, StreamStep DEF StreamInv
<1> QED BY <1>1, <1>2, Invariance, PTL DEF Spec

\* A client gets, in order and without a gap, what its broker fanned out from the
\* moment it became a member, and a message is fanned out once: the broker
\* implements RealmBus (broker.go:55-71, 126-137).
THEOREM BrokerImplementsBus == Spec => ImplementsBus
<1>1. Init => Bus!Init
      BY DEF Init, Bus!Init, Room, Joined, Started
<1>2. IInv /\ StreamInv /\ [Next]_vars => [Bus!Next]_(Bus!vars)
      BY BusStep
<1> QED BY <1>1, <1>2, Invariance, StreamInvariance, PTL DEF Spec, ImplementsBus, Bus!Spec
-----------------------------------------------------------------------------
(* What follows from RealmBus for any two clients *)

\* No message is in two places of the logs.
OnePlace ==
  \A q, r \in Brokers : \A i \in DOMAIN log[q], j \in DOMAIN log[r] :
    log[q][i] = log[r][j] => q = r /\ i = j

\* What a client received is what its room published from the moment it joined.
Stretch(c) ==
  /\ Room[c] = None => got[c] = <<>>
  /\ Room[c] # None =>
       /\ from[c] + Len(got[c]) <= Len(log[Room[c]])
       /\ \A i \in DOMAIN got[c] : got[c][i] = log[Room[c]][from[c] + i]

\* The messages that two clients both receive come to them in one order and with
\* as many others between them; no client receives a message twice, nor one that
\* was sent in another room.
ReceivedAlike ==
  \A c, d \in Clients : \A i, k \in DOMAIN got[c], j, l \in DOMAIN got[d] :
    got[c][i] = got[d][j] /\ got[c][k] = got[d][l] => k + j = l + i

\* The types that RealmBus relies on.
BusTypes ==
  /\ log \in [Brokers -> Seq(Nat)] /\ got \in [Clients -> Seq(Nat)] /\ from \in [Clients -> Nat]
  /\ Room \in [Clients -> Brokers \cup {None}]

LEMMA BusTypesHold == IInv => BusTypes
BY DEF IInv, TypeOK, BusTypes, Room, Joined, ManagerAdds

\* A message that is published is new, so it has one place.
LEMMA OnePlaceStep ==
  ASSUME BusTypes, OnePlace, NEW b \in Brokers, NEW m \in Msgs, Bus!Publish(b, m)
  PROVE  OnePlace'
<1>1. m \in Nat /\ log' = [log EXCEPT ![b] = Append(@, m)]
      BY DEF Bus!Publish, Msgs
<1>2. \A q \in Brokers : \A i \in DOMAIN log[q] : log[q][i] # m
      BY DEF Bus!Publish
<1>3. ASSUME NEW q \in Brokers, NEW i \in DOMAIN log'[q]
      PROVE  \/ i \in DOMAIN log[q] /\ log'[q][i] = log[q][i] /\ log[q][i] # m
             \/ q = b /\ i = Len(log[b]) + 1 /\ log'[q][i] = m
  <2>1. log[q] \in Seq(Nat)
        BY DEF BusTypes
  <2>2. CASE q # b
        BY <1>1, <1>2, <2>2 DEF BusTypes
  <2>3. CASE q = b
    <3>p. PICK L \in Seq(Nat) : L = log[b]
          BY <2>1, <2>3
    <3>m. PICK M : M = Append(L, m)
          OBVIOUS
    <3>1. L = log[b] /\ M = Append(L, m) /\ log'[b] = M
          BY <1>1, <3>p, <3>m DEF BusTypes
    <3>2. /\ DOMAIN M = 1..(Len(L) + 1) /\ DOMAIN L = 1..Len(L) /\ Len(L) \in Nat
          /\ \A a \in DOMAIN L : M[a] = L[a]
          /\ M[Len(L) + 1] = m
          BY <1>1, <3>1, Appended
    <3>3. i \in 1..Len(L) \/ i = Len(L) + 1
          BY <2>3, <3>1, <3>2
    <3> QED BY <1>2, <2>3, <3>1, <3>2, <3>3
  <2> QED BY <2>2, <2>3
<1> SUFFICES ASSUME NEW q \in Brokers, NEW r \in Brokers,
                    NEW i \in DOMAIN log'[q], NEW j \in DOMAIN log'[r], log'[q][i] = log'[r][j]
             PROVE  q = r /\ i = j
    BY DEF OnePlace, Brokers
<1>4. \/ i \in DOMAIN log[q] /\ log'[q][i] = log[q][i] /\ log[q][i] # m
      \/ q = b /\ i = Len(log[b]) + 1 /\ log'[q][i] = m
      BY <1>3
<1>5. \/ j \in DOMAIN log[r] /\ log'[r][j] = log[r][j] /\ log[r][j] # m
      \/ r = b /\ j = Len(log[b]) + 1 /\ log'[r][j] = m
      BY <1>3
<1> QED BY <1>4, <1>5 DEF OnePlace

LEMMA StretchStep ==
  ASSUME BusTypes, NEW c \in Clients, Stretch(c), Bus!Next
  PROVE  Stretch(c)'
<1>1. ASSUME NEW d \in Clients, NEW b \in Brokers, Bus!Join(d, b) PROVE Stretch(c)'
  <2>1. UNCHANGED <<log, got>> /\ Room[d] = None /\ Room' = [Room EXCEPT ![d] = b]
        /\ from' = [from EXCEPT ![d] = Len(log[b])]
        BY <1>1 DEF Bus!Join
  <2>2. CASE c # d
    <3>1. Room'[c] = Room[c] /\ from'[c] = from[c]
          BY <2>1, <2>2 DEF BusTypes
    <3> QED BY <2>1, <3>1 DEF Stretch
  <2>3. CASE c = d
    <3>1. Room'[c] = b /\ from'[c] = Len(log[b]) /\ got[c] = <<>>
          BY <2>1, <2>3 DEF BusTypes, Stretch
    <3>2. b # None /\ Len(log[b]) \in Nat
          BY BrokerAssumption DEF BusTypes
    <3> QED BY <2>1, <3>1, <3>2 DEF Stretch
  <2> QED BY <2>2, <2>3
<1>2. ASSUME NEW b \in Brokers, NEW m \in Msgs, Bus!Publish(b, m) PROVE Stretch(c)'
  <2>1. m \in Nat /\ log' = [log EXCEPT ![b] = Append(@, m)] /\ UNCHANGED <<Room, from, got>>
        BY <1>2 DEF Bus!Publish, Msgs
  <2>2. CASE Room[c] = b
    <3>p. PICK L \in Seq(Nat), F \in Nat, G \in Seq(Nat) :
            L = log[b] /\ F = from[c] /\ G = got[c]
          BY DEF BusTypes
    <3>m. PICK M : M = Append(L, m)
          OBVIOUS
    <3>1. L = log[b] /\ M = Append(L, m) /\ F = from[c] /\ G = got[c]
          BY <3>p, <3>m
    <3>2. /\ Len(L) \in Nat /\ DOMAIN L = 1..Len(L) /\ Len(M) = Len(L) + 1
          /\ \A a \in DOMAIN L : M[a] = L[a]
          BY <2>1, <3>1, Appended
    <3>3. /\ F + Len(G) <= Len(L) /\ \A i \in 1..Len(G) : G[i] = L[F + i]
          BY <2>2, <3>1, BrokerAssumption DEF Stretch
    <3>4. Len(G) \in Nat /\ DOMAIN G = 1..Len(G)
          BY <3>1
    <3>5. F + Len(G) <= Len(M) /\ \A i \in DOMAIN G : G[i] = M[F + i]
      <4>1. PICK g \in Nat, n \in Nat : g = Len(G) /\ n = Len(L)
            BY <3>2, <3>4
      <4>2. F + g <= n + 1 /\ \A i \in 1..g : F + i \in 1..n
            BY <3>3, <4>1
      <4> QED BY <3>2, <3>3, <3>4, <4>1, <4>2
    <3>6. log'[Room'[c]] = M /\ from'[c] = F /\ got'[c] = G /\ Room'[c] # None
          BY <2>1, <2>2, <3>1, BrokerAssumption DEF BusTypes
    <3> QED BY <3>5, <3>6 DEF Stretch
  <2>3. CASE Room[c] # b
    <3>1. Room[c] # None => log'[Room[c]] = log[Room[c]]
          BY <2>1, <2>3 DEF BusTypes
    <3> QED BY <2>1, <3>1 DEF Stretch
  <2> QED BY <2>2, <2>3
<1>3. ASSUME NEW d \in Clients, Bus!Deliver(d) PROVE Stretch(c)'
  <2>1. /\ Room[d] # None /\ from[d] + Len(got[d]) < Len(log[Room[d]])
        /\ got' = [got EXCEPT ![d] = Append(@, log[Room[d]][from[d] + Len(@) + 1])]
        /\ UNCHANGED <<log, Room, from>>
        BY <1>3 DEF Bus!Deliver
  <2>2. CASE c # d
    <3>1. got'[c] = got[c]
          BY <2>1, <2>2 DEF BusTypes
    <3> QED BY <2>1, <3>1 DEF Stretch
  <2>3. CASE c = d
    <3>1. PICK L \in Seq(Nat), F \in Nat, G \in Seq(Nat) :
            L = log[Room[c]] /\ F = from[c] /\ G = got[c]
          BY <2>1, <2>3 DEF BusTypes
    <3>2. Len(G) \in Nat /\ DOMAIN G = 1..Len(G) /\ Len(L) \in Nat /\ DOMAIN L = 1..Len(L)
          BY <3>1
    <3>3. F + Len(G) < Len(L) /\ \A i \in 1..Len(G) : G[i] = L[F + i]
          BY <2>1, <2>3, <3>1, <3>2 DEF Stretch
    <3>4. PICK e \in Nat : e = L[F + Len(G) + 1]
          BY <3>1, <3>2, <3>3
    <3>5. PICK H : H = Append(G, e)
          OBVIOUS
    <3>6. /\ Len(H) = Len(G) + 1 /\ DOMAIN H = 1..(Len(G) + 1)
          /\ \A a \in 1..Len(G) : H[a] = G[a]
          /\ H[Len(G) + 1] = e
          BY <3>1, <3>2, <3>4, <3>5, Appended
    <3>7. F + Len(H) <= Len(L) /\ \A i \in DOMAIN H : H[i] = L[F + i]
      <4>1. PICK g \in Nat, k \in Nat : g = Len(G) /\ k = Len(L)
            BY <3>2
      <4>2. F + (g + 1) <= k /\ F + (g + 1) = F + g + 1
            BY <3>3, <4>1
      <4>3. ASSUME NEW i \in DOMAIN H PROVE H[i] = L[F + i]
        <5>1. i \in 1..g \/ i = g + 1
              BY ONLY <3>6, <4>1, i \in DOMAIN H
        <5>2. CASE i \in 1..g
              BY <3>3, <3>6, <4>1, <5>2
        <5>3. CASE i = g + 1
              BY <3>4, <3>6, <4>1, <4>2, <5>3
        <5> QED BY <5>1, <5>2, <5>3
      <4> QED BY <3>6, <4>1, <4>2, <4>3
    <3>8. got'[c] = H /\ log'[Room'[c]] = L /\ from'[c] = F /\ Room'[c] # None
          BY <2>1, <2>3, <3>1, <3>4, <3>5 DEF BusTypes
    <3> QED BY <3>7, <3>8 DEF Stretch
  <2> QED BY <2>2, <2>3
<1> QED BY <1>1, <1>2, <1>3 DEF Bus!Next

BusInv == OnePlace /\ \A c \in Clients : Stretch(c)

\* The clients of a realm see one conversation: whoever is cut off or joins late,
\* two of them never disagree on what came first or in between
\* (broker.go:55-71, 126-137).
THEOREM ClientsAgree == Spec => []ReceivedAlike
<1>1. Init => BusInv
  <2> SUFFICES ASSUME Init PROVE BusInv
      OBVIOUS
  <2>1. log = [b \in Brokers |-> <<>>] /\ got = [c \in Clients |-> <<>>]
        /\ Room = [c \in Clients |-> None]
        BY DEF Init, Room, Joined, Started
  <2> QED BY <2>1 DEF BusInv, OnePlace, Stretch
<1>2. IInv /\ StreamInv /\ BusInv /\ [Next]_vars => BusInv'
  <2> SUFFICES ASSUME IInv, StreamInv, BusInv, [Next]_vars PROVE BusInv'
      OBVIOUS
  <2>1. BusTypes /\ OnePlace /\ \A c \in Clients : Stretch(c)
        BY BusTypesHold DEF BusInv
  <2>2. CASE UNCHANGED Bus!vars
    <3>1. UNCHANGED <<log, Room, from, got>>
          BY <2>2 DEF Bus!vars
    <3> QED BY <2>1, <3>1 DEF BusInv, OnePlace, Stretch, Brokers
  <2>3. CASE Bus!Next
    <3>1. OnePlace'
      <4>1. CASE UNCHANGED log
            BY <2>1, <4>1 DEF OnePlace, Brokers
      <4> QED BY <2>1, <2>3, <4>1, OnePlaceStep DEF Bus!Next, Bus!Join, Bus!Deliver
    <3>2. ASSUME NEW c \in Clients PROVE Stretch(c)'
          BY <2>1, <2>3, StretchStep
    <3> QED BY <3>1, <3>2 DEF BusInv
  <2> QED BY <2>2, <2>3, BusStep
<1>3. IInv /\ BusInv => ReceivedAlike
  <2> SUFFICES ASSUME IInv, BusInv, NEW c \in Clients, NEW d \in Clients,
                      NEW i \in DOMAIN got[c], NEW k \in DOMAIN got[c],
                      NEW j \in DOMAIN got[d], NEW l \in DOMAIN got[d],
                      got[c][i] = got[d][j], got[c][k] = got[d][l]
               PROVE  k + j = l + i
      BY DEF ReceivedAlike
  <2>1. ASSUME NEW e \in Clients, NEW n \in DOMAIN got[e]
        PROVE  /\ Room[e] \in Brokers /\ from[e] \in Nat /\ n \in Nat
               /\ from[e] + n \in DOMAIN log[Room[e]]
               /\ got[e][n] = log[Room[e]][from[e] + n]
    <3>1. BusTypes /\ Stretch(e)
          BY BusTypesHold DEF BusInv
    <3>2. Room[e] # None
          BY <3>1 DEF Stretch
    <3>3. Room[e] \in Brokers /\ from[e] \in Nat /\ got[e] \in Seq(Nat) /\ log[Room[e]] \in Seq(Nat)
          BY <3>1, <3>2 DEF BusTypes
    <3>4. Len(got[e]) \in Nat /\ n \in 1..Len(got[e]) /\ Len(log[Room[e]]) \in Nat
          /\ DOMAIN log[Room[e]] = 1..Len(log[Room[e]])
          BY <3>3
    <3>5. from[e] + Len(got[e]) <= Len(log[Room[e]]) /\ got[e][n] = log[Room[e]][from[e] + n]
          BY <3>1, <3>2 DEF Stretch
    <3>6. PICK F \in Nat, G \in Nat, N \in Nat :
            F = from[e] /\ G = Len(got[e]) /\ N = Len(log[Room[e]])
          BY <3>3, <3>4
    <3>7. F + n \in 1..N
          BY ONLY <3>4, <3>5, <3>6
    <3> QED BY <3>3, <3>4, <3>5, <3>6, <3>7
  <2>2. from[c] + i = from[d] + j /\ from[c] + k = from[d] + l
        BY <2>1 DEF BusInv, OnePlace
  <2> QED BY <2>1, <2>2
<1> QED BY <1>1, <1>2, <1>3, Invariance, StreamInvariance, PTL DEF Spec
=============================================================================
