----------------------------- MODULE AmqpProofs -----------------------------
(***************************************************************************)
(* Proofs about the two halves of an AMQP connection, each for itself.     *)
(*                                                                         *)
(* AmqpListen, for any number of processes and faults: the invariants of   *)
(* the runs are inductive together, for the type invariant says whose      *)
(* consumers the server can have: those of processes that listen on a      *)
(* connection that works, and leftovers.                                   *)
(*                                                                         *)
(* AmqpSend, for any capacities, bodies and faults: what was published is  *)
(* exactly what comes before the body at hand, whichever way it went.      *)
(***************************************************************************)
EXTENDS AmqpListen, AmqpSend, Integers, TLAPS

ListenInv == ListenTypeOK /\ ListenerIsAttached /\ NoRivalGhost

\* The inductive invariant holds initially.
LEMMA ListenInitInv == ListenInit => ListenInv
<1> SUFFICES ASSUME ListenInit PROVE ListenInv
    OBVIOUS
<1>1. ListenTypeOK
  <2>1. listener \in [Procs -> Setup \cup {"start", "listening", "deaf", "refused", "ended"}]
        BY DEF ListenInit
  <2>2. first \in [Procs -> BOOLEAN] /\ connected \in [Procs -> BOOLEAN]
        BY DEF ListenInit
  <2>3. /\ queue \in BOOLEAN /\ consumed \in BOOLEAN /\ ~consumed
        /\ setupBroke \in BOOLEAN
        BY Zenon DEF ListenInit
  <2>4. consumers = {} /\ ghosts = {} /\ faults \in Nat
        BY DEF ListenInit
  <2> QED BY <2>1, <2>2, <2>3, <2>4 DEF ListenTypeOK
<1>2. ListenerIsAttached /\ NoRivalGhost
      BY DEF ListenInit, ListenerIsAttached, NoRivalGhost
<1> QED BY <1>1, <1>2 DEF ListenInv

\* A failed setup leaves the server alone.
LEMMA SetupFailsStep ==
  ASSUME ListenInv, NEW p \in Procs, SetupFails(p), listener[p] # "listening"
  PROVE  ListenInv'
BY DEF ListenInv, ListenTypeOK, ListenerIsAttached, NoRivalGhost, Setup,
       SetupFails, Goto, serverVars, faultVars

\* Every step preserves the inductive invariant.
LEMMA ListenStepInv == ListenInv /\ [ListenNext]_listenVars => ListenInv'
<1> SUFFICES ASSUME ListenInv, [ListenNext]_listenVars PROVE ListenInv'
    OBVIOUS
<1> USE AmqpAssumption DEF ListenInv, ListenTypeOK, ListenerIsAttached, NoRivalGhost,
        Setup, Goto, serverVars, faultVars
<1>1. ASSUME NEW p \in Procs, Start(p) PROVE ListenInv'
      BY <1>1 DEF Start
<1>2. ASSUME NEW p \in Procs, Dial(p) PROVE ListenInv'
      BY <1>2 DEF Dial
<1>3. ASSUME NEW p \in Procs, CheckAbsent(p) PROVE ListenInv'
      BY <1>3 DEF CheckAbsent
<1>4. ASSUME NEW p \in Procs, IdTaken(p) PROVE ListenInv'
  <2>1. SetupFails(p) /\ listener[p] # "listening"
        BY <1>4 DEF IdTaken
  <2> QED BY <2>1, SetupFailsStep
<1>5. ASSUME NEW p \in Procs, Declare(p) PROVE ListenInv'
      BY <1>5 DEF Declare
<1>6. ASSUME NEW p \in Procs, Bind(p) PROVE ListenInv'
      BY <1>6 DEF Bind
<1>7. ASSUME NEW p \in Procs, Consume(p) PROVE ListenInv'
      BY <1>7 DEF Consume, Listening
<1>8. ASSUME NEW p \in Procs, ConsumeFails(p) PROVE ListenInv'
      BY <1>8 DEF ConsumeFails
<1>9. ASSUME NEW p \in Procs, RequestFails(p) PROVE ListenInv'
  <2>1. SetupFails(p) /\ listener[p] # "listening"
        BY <1>9 DEF RequestFails
  <2> QED BY <2>1, SetupFailsStep
<1>10. ASSUME NEW p \in Procs, ListenAgain(p) PROVE ListenInv'
      BY <1>10 DEF ListenAgain
<1>11. ASSUME NEW p \in Procs, ConnectionBreaks(p) PROVE ListenInv'
      BY <1>11 DEF ConnectionBreaks
<1>12. ASSUME NEW p \in Procs, ServerNotices(p) PROVE ListenInv'
      BY <1>12 DEF ServerNotices, Drop
<1>13. ASSUME NEW p \in Procs, Exit(p) PROVE ListenInv'
      BY ZenonT(30), <1>13 DEF Exit, Drop
<1>14. CASE UNCHANGED listenVars
      BY <1>14 DEF listenVars
<1> QED BY <1>1, <1>2, <1>3, <1>4, <1>5, <1>6, <1>7, <1>8, <1>9, <1>10, <1>11,
           <1>12, <1>13, <1>14 DEF ListenNext

\* The inductive invariant holds in every reachable state.
LEMMA ListenInvariance == ListenSpec => []ListenInv
BY ListenInitInv, ListenStepInv, PTL DEF ListenSpec

\* Every variable keeps its type, and the server's consumers are on a queue that
\* exists and belong to processes that listen, but for leftovers
\* (api/amqp.go:148-275).
THEOREM ListenTypeCorrect == ListenSpec => []ListenTypeOK
BY ListenInvariance, PTL DEF ListenInv

\* A process that believes it listens is attached to its queue
\* (api/amqp.go:148-185, 253-275).
THEOREM ListenersAreAttached == ListenSpec => []ListenerIsAttached
BY ListenInvariance, PTL DEF ListenInv

\* A process never sets up a consumer next to a leftover of its own
\* (api/amqp.go:253-266).
THEOREM GhostsAreWaitedOut == ListenSpec => []NoRivalGhost
BY ListenInvariance, PTL DEF ListenInv
-----------------------------------------------------------------------------
(* The sending half *)

\* A command that sends was told of both halves; the message at hand was taken
\* and could be prepared.
Connected == app \in {"away", "reading", "awaiting"} => \A h \in Halves : half[h] = "running"
AtHand == at # 0 => taken > 0 /\ taken \notin Unfit

\* The bodies that were published when body a of message t is at hand; a = 0:
\* when t is settled.
Passed(body, t, a) ==
  body[1] \notin Unfit /\ (Before(body, <<t, a>>) \/ (body[1] = t /\ a = 0))

InOrder == \A m, n \in DOMAIN log : m < n => Before(log[m], log[n])
OnceEach ==
  \A body \in AllBodies :
    /\ ~(Got(body) /\ body \in lost)
    /\ Got(body) \/ body \in lost <=> Passed(body, taken, at)

SendInv == TypeOK /\ Connected /\ AtHand /\ InOrder /\ OnceEach

\* The order of bodies.
LEMMA Bodily ==
  ASSUME NEW body \in AllBodies
  PROVE  /\ body[1] \in Messages /\ body[2] \in 1..Bodies
         /\ body = <<body[1], body[2]>>
         /\ body[1] \in Nat \ {0} /\ body[2] \in Nat \ {0} /\ body[2] <= Bodies
BY SendAssumption DEF AllBodies, Messages

LEMMA SendInitInv == Init => SendInv
<1> SUFFICES ASSUME Init PROVE SendInv
    OBVIOUS
<1> USE SendAssumption DEF Init
<1>1. TypeOK
  <2>1. /\ InCap \in Nat /\ OutCap \in Nat /\ Bodies \in Nat
        /\ MaxSends \in Nat /\ MaxHeard \in Nat /\ MaxBreaks \in Nat
        OBVIOUS
  <2>2. half \in [Halves -> {"setup", "ok", "failed", "running", "ended"}]
        OBVIOUS
  <2>3. app = "connecting" /\ reads \in BOOLEAN /\ link \in BOOLEAN /\ pc = "idle"
        BY Zenon
  <2>4. sent = 0 /\ taken = 0 /\ at = 0 /\ in = 0 /\ heard = 0 /\ breaks = 0 /\ log = <<>> /\ lost = {}
        OBVIOUS
  <2> QED BY ONLY <2>1, <2>2, <2>3, <2>4 DEF TypeOK, Steps
<1>2. Connected /\ AtHand /\ InOrder
      BY DEF Connected, AtHand, InOrder
<1>3. ASSUME NEW body \in AllBodies PROVE ~Got(body) /\ body \notin lost /\ ~Passed(body, 0, 0)
  <2>1. body[1] \in Nat \ {0} /\ body[2] \in Nat \ {0}
        BY Bodily
  <2>2. ~Before(body, <<0, 0>>)
        BY <2>1 DEF Before
  <2> QED BY <2>1, <2>2 DEF Got, Passed
<1> QED BY <1>1, <1>2, <1>3 DEF SendInv, OnceEach

\* The next body, or the end of the message: how both ways of Publish go on.
LEMMA NextBodyPasses ==
  ASSUME TypeOK, AtHand, pc # "idle", NextBody
  PROVE  /\ <<taken, at>> \in AllBodies
         /\ Passed(<<taken, at>>, taken, at') /\ ~Passed(<<taken, at>>, taken, at)
         /\ \A body \in AllBodies :
              Passed(body, taken, at') <=> Passed(body, taken, at) \/ body = <<taken, at>>
         /\ at' \in 0..Bodies /\ (at' = 0 <=> pc' = "idle") /\ pc' \in Steps
         /\ at' # 0 => at # 0
<1>1. /\ taken \in Nat \ {0} /\ taken \notin Unfit /\ at \in Nat \ {0} /\ at <= Bodies /\ Bodies \in Nat
      /\ taken \in Messages
      BY SendAssumption DEF TypeOK, AtHand, Messages
<1>2. <<taken, at>> \in AllBodies
      BY <1>1 DEF AllBodies
<1>3. \/ at < Bodies /\ at' = at + 1 /\ pc' = "publish"
      \/ at = Bodies /\ at' = 0 /\ pc' = "idle"
      BY <1>1 DEF NextBody
<1>4. ASSUME NEW body \in AllBodies
      PROVE  Passed(body, taken, at') <=> Passed(body, taken, at) \/ body = <<taken, at>>
  <2>1. PICK m \in Nat \ {0}, n \in Nat \ {0} : body = <<m, n>> /\ n <= Bodies
        BY Bodily
  <2>2. body = <<taken, at>> <=> m = taken /\ n = at
        BY <2>1
  <2>3. \A a \in Nat : Passed(body, taken, a) <=>
          m \notin Unfit /\ (m < taken \/ (m = taken /\ n < a) \/ (m = taken /\ a = 0))
        BY <2>1 DEF Passed, Before
  <2>4. CASE at < Bodies /\ at' = at + 1
        BY <1>1, <2>1, <2>2, <2>3, <2>4
  <2>5. CASE at = Bodies /\ at' = 0
        BY <1>1, <2>1, <2>2, <2>3, <2>5
  <2> QED BY <1>3, <2>4, <2>5
<1>5. ~Passed(<<taken, at>>, taken, at)
      BY <1>1 DEF Passed, Before
<1> QED BY <1>1, <1>2, <1>3, <1>4, <1>5 DEF Steps

\* A sequence with one more entry.
LEMMA Appended ==
  ASSUME NEW S, NEW q \in Seq(S), NEW e \in S
  PROVE  /\ Append(q, e) \in Seq(S)
         /\ Len(q) \in Nat /\ DOMAIN q = 1..Len(q)
         /\ DOMAIN Append(q, e) = 1..(Len(q) + 1)
         /\ \A i \in DOMAIN q : Append(q, e)[i] = q[i]
         /\ Append(q, e)[Len(q) + 1] = e
OBVIOUS

\* A body that is published gets to the server or is lost, once and in its place.
LEMMA PublishStep ==
  ASSUME SendInv, Publish
  PROVE  InOrder' /\ OnceEach' /\ log' \in Seq(AllBodies) /\ lost' \subseteq AllBodies
<1>0. TypeOK /\ AtHand /\ InOrder /\ OnceEach /\ NextBody /\ pc # "idle" /\ UNCHANGED taken
      BY DEF SendInv, Publish
<1>p. PICK b : b = <<taken, at>>
      OBVIOUS
<1>1. /\ b \in AllBodies
      /\ Passed(b, taken, at') /\ ~Passed(b, taken, at)
      /\ \A body \in AllBodies :
           Passed(body, taken, at') <=> Passed(body, taken, at) \/ body = b
      BY <1>0, <1>p, NextBodyPasses
<1>2. ~Got(b) /\ b \notin lost
      BY <1>0, <1>1 DEF OnceEach
<1>3. PICK L \in Seq(AllBodies), k \in Nat : L = log /\ k = Len(L) /\ DOMAIN L = 1..k
      BY <1>0 DEF TypeOK
<1>l. lost \subseteq AllBodies
      BY <1>0 DEF TypeOK
<1>4. CASE link
  <2>p. PICK M : M = Append(L, b)
        OBVIOUS
  <2>1. log' = M /\ lost' = lost
        BY <1>3, <1>p, <1>4, <2>p DEF Publish
  <2>2. /\ M \in Seq(AllBodies) /\ DOMAIN M = 1..(k + 1)
        /\ \A n \in 1..k : M[n] = L[n]
        /\ M[k + 1] = b
        BY <1>1, <1>3, <2>p, Appended
  <2>3. ASSUME NEW body PROVE Got(body)' <=> Got(body) \/ body = b
    <3>1. Got(body)' <=> \E n \in 1..(k + 1) : M[n] = body
          BY <2>1, <2>2 DEF Got
    <3>2. Got(body) <=> \E n \in 1..k : L[n] = body
          BY <1>3 DEF Got
    <3>3. \A n : n \in 1..(k + 1) <=> n \in 1..k \/ n = k + 1
          BY <1>3
    <3> QED BY ONLY <2>2, <3>1, <3>2, <3>3
  <2>4. OnceEach'
    <3> SUFFICES ASSUME NEW body \in AllBodies
                 PROVE  /\ ~(Got(body)' /\ body \in lost')
                        /\ Got(body)' \/ body \in lost' <=> Passed(body, taken', at')
        BY DEF OnceEach, AllBodies, Messages, Passed, Before
    <3>1. /\ ~(Got(body) /\ body \in lost)
          /\ Got(body) \/ body \in lost <=> Passed(body, taken, at)
          BY <1>0 DEF OnceEach
    <3>2. Passed(body, taken', at') <=> Passed(body, taken, at) \/ body = b
          BY <1>0, <1>1
    <3> QED BY <1>2, <2>1, <2>3, <3>1, <3>2
  <2>5. ASSUME NEW n \in 1..k PROVE Before(L[n], b)
    <3>1. L[n] \in AllBodies /\ Got(L[n])
          BY <1>3 DEF Got
    <3>2. Passed(L[n], taken, at)
          BY <1>0, <3>1 DEF OnceEach
    <3>3. at # 0
          BY <1>0 DEF TypeOK
    <3> QED BY <1>p, <3>2, <3>3 DEF Passed
  <2>6. InOrder'
    <3> SUFFICES ASSUME NEW m \in 1..(k + 1), NEW n \in 1..(k + 1), m < n
                 PROVE  Before(M[m], M[n])
        BY <2>1, <2>2 DEF InOrder, Before
    <3>1. m \in 1..k /\ (n \in 1..k \/ n = k + 1)
          BY <1>3
    <3>2. CASE n \in 1..k
      <4>1. Before(L[m], L[n])
            BY <1>0, <1>3, <3>1, <3>2 DEF InOrder
      <4> QED BY <2>2, <3>1, <3>2, <4>1
    <3>3. CASE n = k + 1
      <4>1. Before(L[m], b)
            BY <2>5, <3>1
      <4> QED BY <2>2, <3>1, <3>3, <4>1
    <3> QED BY <3>1, <3>2, <3>3
  <2> QED BY <1>l, <2>1, <2>2, <2>4, <2>6
<1>5. CASE ~link
  <2>1. lost' = lost \cup {b} /\ log' = log
        BY <1>p, <1>5 DEF Publish
  <2>2. ASSUME NEW body PROVE Got(body)' <=> Got(body)
        BY <2>1 DEF Got
  <2>3. OnceEach'
    <3> SUFFICES ASSUME NEW body \in AllBodies
                 PROVE  /\ ~(Got(body)' /\ body \in lost')
                        /\ Got(body)' \/ body \in lost' <=> Passed(body, taken', at')
        BY DEF OnceEach, AllBodies, Messages, Passed, Before
    <3>1. /\ ~(Got(body) /\ body \in lost)
          /\ Got(body) \/ body \in lost <=> Passed(body, taken, at)
          BY <1>0 DEF OnceEach
    <3>2. Passed(body, taken', at') <=> Passed(body, taken, at) \/ body = b
          BY <1>0, <1>1
    <3> QED BY <1>2, <2>1, <2>2, <3>1, <3>2
  <2>4. InOrder'
        BY <1>0, <2>1 DEF InOrder, Before
  <2> QED BY <1>1, <1>3, <1>l, <2>1, <2>3, <2>4
<1> QED BY <1>4, <1>5

\* Taking a message passes nothing, nor does leaving out one that cannot be prepared.
LEMMA TakePasses ==
  ASSUME TypeOK, TakeMessage, NEW body \in AllBodies
  PROVE  Passed(body, taken', at') <=> Passed(body, taken, at)
<1>1. /\ taken \in Nat /\ taken' = taken + 1 /\ at = 0
      /\ at' = IF taken + 1 \in Unfit THEN 0 ELSE 1
      BY SendAssumption DEF TypeOK, TakeMessage
<1>2. PICK m \in Nat \ {0}, n \in Nat \ {0} : body = <<m, n>>
      BY Bodily
<1>3. \A t \in Nat, a \in Nat : Passed(body, t, a) <=>
        m \notin Unfit /\ (m < t \/ (m = t /\ n < a) \/ (m = t /\ a = 0))
      BY <1>2 DEF Passed, Before
<1> QED BY <1>1, <1>2, <1>3

\* A step that leaves the message at hand and what was published alone keeps their order.
LEMMA NothingPublished ==
  ASSUME InOrder, OnceEach, UNCHANGED <<taken, at, log, lost>>
  PROVE  InOrder' /\ OnceEach'
BY DEF InOrder, OnceEach, Passed, Before, Got, AllBodies, Messages

\* The steps of connectAMQP.
LEMMA ConnectStep ==
  ASSUME SendInv, NEW h \in Halves, SetUp(h) \/ Report(h)
  PROVE  SendInv'
<1>1. TypeOK /\ Connected /\ AtHand /\ InOrder /\ OnceEach
      BY DEF SendInv
<1>2. half[h] # "running" /\ UNCHANGED <<reads, pc, sent, taken, at, in, heard, log, lost, breaks>>
      BY DEF SetUp, Report, inVars, logVars
<1>3. half' \in [Halves -> {"setup", "ok", "failed", "running", "ended"}] /\ link' \in BOOLEAN
      BY <1>1 DEF TypeOK, SetUp, Report
<1>4. /\ app' \in {"connecting", "refused", "away", "reading", "awaiting"}
      /\ Connected'
  <2>1. CASE SetUp(h)
        BY <1>1, <1>2, <2>1 DEF TypeOK, Connected, SetUp
  <2>2. CASE Report(h)
        BY <2>2 DEF Connected, Report
  <2> QED BY <2>1, <2>2
<1>5. ~(sent > 0)
      BY <1>1, <1>2 DEF TypeOK
<1>6. TypeOK'
      BY ONLY <1>1, <1>2, <1>3, <1>4, <1>5 DEF TypeOK, AllBodies, Messages, Steps
<1>7. AtHand'
      BY <1>1, <1>2 DEF AtHand
<1> QED BY <1>1, <1>2, <1>4, <1>6, <1>7, NothingPublished DEF SendInv

\* The steps of the command and of the listening half, and a broken connection.
LEMMA CommandStep ==
  ASSUME SendInv, Command \/ Hear \/ Break
  PROVE  SendInv'
<1>1. TypeOK /\ Connected /\ AtHand /\ InOrder /\ OnceEach
      BY DEF SendInv
<1>2. UNCHANGED <<reads, half, pc, taken, at, log, lost>>
      BY DEF Command, Send, Take, Leave, Hear, Break, inVars, logVars
<1>3. Connected'
      BY <1>1, <1>2 DEF Connected, Command, Send, Take, Leave, Hear, Break
<1>4. /\ sent' \in 0..MaxSends /\ taken \in 0..sent' /\ sent' - taken <= OutCap
      /\ sent' > 0 => \A h \in Halves : half[h] = "running"
  <2>1. CASE Send
        BY <1>1, <2>1, SendAssumption DEF TypeOK, Connected, Send
  <2>2. CASE UNCHANGED sent
        BY <1>1, <2>2 DEF TypeOK
  <2> QED BY <2>1, <2>2 DEF Command, Take, Leave, Hear, Break
<1>5. in' \in 0..InCap /\ heard' \in 0..MaxHeard /\ breaks' \in 0..MaxBreaks /\ link' \in BOOLEAN
  <2>1. InCap \in Nat /\ MaxHeard \in Nat /\ MaxBreaks \in Nat
        BY SendAssumption
  <2>2. in \in 0..InCap /\ heard \in 0..MaxHeard /\ breaks \in 0..MaxBreaks /\ link \in BOOLEAN
        BY <1>1 DEF TypeOK
  <2>3. CASE Hear
        BY <2>1, <2>2, <2>3 DEF Hear
  <2>4. CASE Take
        BY <2>1, <2>2, <2>4 DEF Take
  <2>5. CASE Break
    <3>1. link' = FALSE /\ UNCHANGED <<in, heard>>
          BY <2>5 DEF Break, inVars
    <3>2. breaks' \in 0..MaxBreaks
          BY <2>1, <2>2, <2>5 DEF Break
    <3> QED BY <2>2, <3>1, <3>2
  <2>6. CASE Send \/ Leave
        BY <2>2, <2>6 DEF Send, Leave, inVars
  <2> QED BY <2>3, <2>4, <2>5, <2>6 DEF Command
<1>6. app' \in {"connecting", "refused", "away", "reading", "awaiting"}
      BY <1>1 DEF TypeOK, Command, Send, Take, Leave, Hear, Break
<1>7. TypeOK'
      BY ONLY <1>1, <1>2, <1>4, <1>5, <1>6 DEF TypeOK, AllBodies, Messages, Steps
<1>8. AtHand'
      BY <1>1, <1>2 DEF AtHand
<1> QED BY <1>1, <1>2, <1>3, <1>7, <1>8, NothingPublished DEF SendInv

\* sendToAMQP takes a message or gets through a broken connection.
LEMMA SenderStep ==
  ASSUME SendInv, TakeMessage \/ PublishFails \/ Redial \/ Tell
  PROVE  SendInv'
<1>1. TypeOK /\ Connected /\ AtHand /\ InOrder /\ OnceEach
      BY DEF SendInv
<1>2. UNCHANGED <<app, reads, half, sent, heard, breaks, log, lost>>
      BY DEF TakeMessage, PublishFails, Redial, Tell, senderRest, logVars
<1>3. Connected'
      BY <1>1, <1>2 DEF Connected
<1>4. CASE TakeMessage
  <2>1. /\ taken' \in 0..sent /\ sent - taken' <= OutCap /\ taken' > 0
        BY <1>1, <1>4, SendAssumption DEF TypeOK, TakeMessage
  <2>2. /\ at' \in 0..Bodies /\ (at' = 0 <=> pc' = "idle") /\ pc' \in Steps
        /\ UNCHANGED <<link, in>>
        BY <1>1, <1>4, SendAssumption DEF TypeOK, TakeMessage, Steps
  <2>3. TypeOK'
        BY ONLY <1>1, <1>2, <2>1, <2>2 DEF TypeOK, AllBodies, Messages, Steps
  <2>4. AtHand'
        BY <1>1, <1>4, <2>1 DEF AtHand, TakeMessage, TypeOK
  <2>5. InOrder'
        BY <1>1, <1>2 DEF InOrder, Before
  <2>6. OnceEach'
    <3> SUFFICES ASSUME NEW body \in AllBodies
                 PROVE  /\ ~(Got(body)' /\ body \in lost')
                        /\ Got(body)' \/ body \in lost' <=> Passed(body, taken', at')
        BY DEF OnceEach, AllBodies, Messages, Passed, Before
    <3>1. Got(body)' <=> Got(body)
          BY <1>2 DEF Got
    <3> QED BY <1>1, <1>2, <1>4, <3>1, TakePasses DEF OnceEach
  <2> QED BY <1>3, <2>3, <2>4, <2>5, <2>6 DEF SendInv
<1>5. CASE PublishFails \/ Redial \/ Tell
  <2>1. UNCHANGED <<taken, at>> /\ pc # "idle" /\ pc' # "idle" /\ pc' \in Steps
        BY <1>5 DEF PublishFails, Redial, Tell, Steps
  <2>2. in' \in 0..InCap /\ link' \in BOOLEAN
    <3>1. InCap \in Nat /\ in \in 0..InCap /\ link \in BOOLEAN
          BY <1>1, SendAssumption DEF TypeOK
    <3>2. CASE PublishFails \/ Redial
          BY <3>1, <3>2 DEF PublishFails, Redial
    <3>3. CASE Tell
          BY <3>1, <3>3 DEF Tell
    <3> QED BY <1>5, <3>2, <3>3
  <2>3. TypeOK'
        BY ONLY <1>1, <1>2, <2>1, <2>2 DEF TypeOK, AllBodies, Messages, Steps
  <2>4. AtHand'
        BY <1>1, <2>1 DEF AtHand
  <2> QED BY <1>1, <1>2, <1>3, <2>1, <2>3, <2>4, NothingPublished DEF SendInv
<1> QED BY <1>4, <1>5

\* A body is published, and the next one is at hand or the message is settled.
LEMMA BodyStep ==
  ASSUME SendInv, Publish
  PROVE  SendInv'
<1>1. TypeOK /\ Connected /\ AtHand /\ NextBody /\ pc # "idle"
      BY DEF SendInv, Publish
<1>2. UNCHANGED <<reads, half, sent, heard, breaks, link, taken, in>>
      BY DEF Publish, senderRest
<1>3. /\ at' \in 0..Bodies /\ (at' = 0 <=> pc' = "idle") /\ pc' \in Steps
      /\ at' # 0 => at # 0
      BY <1>1, NextBodyPasses
<1>4. \A h \in Halves : half[h] = "running"
      BY <1>1 DEF TypeOK, AtHand
<1>5. app' \in {"connecting", "refused", "away", "reading", "awaiting"}
      BY <1>1 DEF TypeOK, NextBody
<1>6. InOrder' /\ OnceEach' /\ log' \in Seq(AllBodies) /\ lost' \subseteq AllBodies
      BY PublishStep
<1>7. TypeOK'
      BY ONLY <1>1, <1>2, <1>3, <1>5, <1>6 DEF TypeOK, AllBodies, Messages, Steps
<1>8. Connected' /\ AtHand'
      BY <1>1, <1>2, <1>3, <1>4 DEF Connected, AtHand
<1> QED BY <1>6, <1>7, <1>8 DEF SendInv

LEMMA SendInvariance == Spec => []SendInv
<1>1. SendInv /\ [Next]_vars => SendInv'
  <2> SUFFICES ASSUME SendInv, [Next]_vars PROVE SendInv'
      OBVIOUS
  <2>1. ASSUME NEW h \in Halves, SetUp(h) \/ Report(h) PROVE SendInv'
        BY <2>1, ConnectStep
  <2>2. CASE Command \/ Hear \/ Break
        BY <2>2, CommandStep
  <2>3. CASE TakeMessage \/ PublishFails \/ Redial \/ Tell
        BY <2>3, SenderStep
  <2>4. CASE Publish
        BY <2>4, BodyStep
  <2>5. CASE UNCHANGED vars
    <3>1. UNCHANGED <<app, reads, half, pc, link, sent, taken, at, in, log, lost, heard, breaks>>
          BY <2>5 DEF vars
    <3>2. TypeOK' /\ Connected' /\ AtHand'
          BY <3>1 DEF SendInv, TypeOK, Connected, AtHand, AllBodies, Messages, Steps
    <3> QED BY <3>1, <3>2, NothingPublished DEF SendInv
  <2> QED BY <2>1, <2>2, <2>3, <2>4, <2>5 DEF Next, Sender
<1> QED BY SendInitInv, <1>1, PTL DEF Spec

\* Every variable of the sending half has its type; nobody sends or publishes
\* before connectAMQP heard of both halves, and neither channel is filled beyond
\* its capacity (api/amqp.go:31-50).
THEOREM SendTypeCorrect == Spec => []TypeOK
BY SendInvariance, PTL DEF SendInv

\* What the server gets is in the order it was sent, no body comes twice, and
\* none is passed over: through a reconnect too, each one before the body at hand
\* was published once (api/amqp.go:65-112).
THEOREM BodiesKeepOrder == Spec => []BodiesInOrder
<1>1. SendInv => BodiesInOrder
      BY DEF SendInv, InOrder, OnceEach, Passed, BodiesInOrder
<1> QED BY <1>1, SendInvariance, PTL
=============================================================================
