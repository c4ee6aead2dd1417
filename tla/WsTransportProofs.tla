------------------------- MODULE WsTransportProofs -------------------------
(***************************************************************************)
(* Proofs about WsTransport, for any capacities and any number of keys,    *)
(* messages and broken sockets.  Several writers take from conn.Out at a   *)
(* time, each one message.  What the broker gets keeps its order but for   *)
(* overlapping writers, because a socket that works although a newer one   *)
(* was opened is one whose reader gave up, and because whatever a writer   *)
(* holds was taken after everything that was published by then.            *)
(***************************************************************************)
EXTENDS WsTransport, Integers, TLAPS

\* A socket works until a newer one is opened, or its reader gave up on it; a reader
\* ends with its socket or by its deadline.
OldSocketsExpired ==
  /\ \A s \in Sockets : link[s] => s <= sock /\ (s < sock => reader[s] = "expired")
  /\ \A s \in Sockets :
       s > sock \/ (s = sock /\ main = "telling") => reader[s] = "none" /\ writer[s] = "none"
  /\ \A s \in Sockets : reader[s] = "ended" => ~link[s]
  /\ main = "dialling" => reader[sock] \in {"ended", "expired"}
  /\ sock > MaxBreaks => link[sock]
  /\ \A s \in Sockets : reader[s] = "expired" => s <= MaxBreaks

\* The messages that were taken from conn.Out.
Taken == sent - Len(out)

\* The body that the writer of s writes next.
Next1(s) == [msg |-> holds[s], body |-> body[s], via |-> s]

\* conn.Out holds what was not taken, in order; each writer holds a message of its
\* own, none of whose later bodies anybody got, and a writer whose socket works may
\* add its body to what was published.
TakenInOrder ==
  /\ \A a \in DOMAIN out : out[a] = Taken + a
  /\ \A s \in Sockets : holds[s] # 0 <=> writer[s] = "writing"
  /\ \A s \in Sockets : holds[s] <= Taken
  /\ \A n \in DOMAIN published : published[n].msg <= Taken
  /\ \A m \in lost : m <= Taken
  /\ \A s, t \in Sockets : holds[s] = holds[t] /\ holds[s] # 0 => s = t
  /\ \A s \in Sockets : holds[s] \in lost => ~link[s]
  /\ \A s \in Sockets : ~Got(holds[s])
  /\ \A s \in Sockets : writer[s] = "writing" /\ link[s] =>
       \A n \in DOMAIN published : MayPrecede(published[n], Next1(s))

IInv == TypeOK /\ OldSocketsExpired /\ TakenInOrder /\ OrderKept
-----------------------------------------------------------------------------
(* Sequences and constants *)

\* A sequence with one more entry.
LEMMA Appended ==
  ASSUME NEW S, NEW q \in Seq(S), NEW e \in S
  PROVE  /\ Append(q, e) \in Seq(S)
         /\ Len(q) \in Nat /\ Len(Append(q, e)) = Len(q) + 1
         /\ DOMAIN q = 1..Len(q) /\ DOMAIN Append(q, e) = 1..(Len(q) + 1)
         /\ \A a \in DOMAIN q : Append(q, e)[a] = q[a]
         /\ Append(q, e)[Len(q) + 1] = e
OBVIOUS

\* A sequence without its first entry.
LEMMA Shortened ==
  ASSUME NEW S, NEW q \in Seq(S), q # <<>>
  PROVE  /\ Tail(q) \in Seq(S) /\ Head(q) \in S
         /\ Len(q) \in Nat \ {0} /\ Len(Tail(q)) = Len(q) - 1
         /\ 1 \in DOMAIN q /\ Head(q) = q[1]
         /\ \A a \in DOMAIN Tail(q) : a \in Nat /\ a + 1 \in DOMAIN q /\ Tail(q)[a] = q[a + 1]
OBVIOUS

LEMMA Bounds ==
  /\ InCap \in Nat \ {0} /\ OutCap \in Nat \ {0} /\ MaxSends \in Nat \ {0}
  /\ Bodies \in Nat \ {0} /\ 1 \in 1..Bodies
  /\ MaxHeard \in Nat /\ MaxBreaks \in Nat
  /\ 0 \notin Messages /\ Messages \subseteq Nat
  /\ 1 \in Sockets /\ Sockets \subseteq Nat
BY WsAssumption DEF Messages, Sockets
-----------------------------------------------------------------------------
(* The steps *)

LEMMA InitIInv == Init => IInv
<1> SUFFICES ASSUME Init PROVE IInv
    OBVIOUS
<1> USE Bounds DEF Init
<1>1. TypeOK
  <2>1. out \in Seq(Messages) /\ Len(out) = 0 /\ published \in Seq(Records)
        /\ in \in Seq({"message", "Reconnected"}) /\ Len(in) = 0
        OBVIOUS
  <2> QED BY <2>1 DEF TypeOK
<1>2. OldSocketsExpired
  <2>1. \A s \in Sockets :
          link[s] = (s = 1) /\ (s > 1 => reader[s] = "none" /\ writer[s] = "none")
          /\ reader[s] \notin {"ended", "expired"}
        OBVIOUS
  <2>2. sock = 1 /\ main = "waiting"
        OBVIOUS
  <2>3. \A s \in Sockets : s \in Nat
        OBVIOUS
  <2>4. link[sock] /\ \A s \in Sockets : link[s] => s = 1
        BY <2>1, <2>2
  <2> QED BY ONLY <2>1, <2>2, <2>3, <2>4 DEF OldSocketsExpired
<1>3. TakenInOrder
  <2>a. out = <<>> /\ published = <<>> /\ lost = {} /\ sent = 0
        OBVIOUS
  <2>1. out = <<>> /\ published = <<>> /\ lost = {} /\ sent = 0 /\ Len(out) = 0 /\ Taken = 0
    <3>1. Len(out) = 0
          BY <2>a
    <3>b. sent = 0
          BY <2>a
    <3>2. sent - Len(out) = 0
          BY ONLY <3>1, <3>b
    <3> QED BY ONLY <2>a, <3>1, <3>2 DEF Taken
  <2>2. \A s \in Sockets : holds[s] = 0 /\ writer[s] # "writing"
        OBVIOUS
  <2> QED BY <2>1, <2>2 DEF TakenInOrder, Got
<1>4. OrderKept
      BY DEF OrderKept
<1> QED BY <1>1, <1>2, <1>3, <1>4 DEF IInv

\* The command's messages and those of others stay within the bounds, and the last
\* socket does not break.
LEMMA TypeStep ==
  ASSUME TypeOK, OldSocketsExpired, TakenInOrder, [Next]_vars
  PROVE  TypeOK'
<1> USE Bounds DEF socketVars, resultVars
<1>1. CASE Send
  <2>1. sent' \in 0..MaxSends /\ sent' \in Messages
        BY <1>1 DEF Send, TypeOK, Messages
  <2>2. out' \in Seq(Messages) /\ Len(out') <= OutCap
        BY <1>1, <2>1, Appended DEF Send, TypeOK
  <2>3. app' \in {"reading", "away", "awaiting"}
        BY <1>1 DEF Send, TypeOK
  <2> QED BY <1>1, <2>1, <2>2, <2>3 DEF Send, TypeOK
<1>2. CASE Take
  <2>1. in' \in Seq({"message", "Reconnected"}) /\ Len(in') <= InCap
        BY <1>2, Shortened DEF Take, TypeOK
  <2> QED BY <1>2, <2>1 DEF Take, TypeOK
<1>3. CASE Leave
      BY <1>3 DEF Leave, TypeOK
<1>4. ASSUME NEW s \in Sockets, Hear(s) PROVE TypeOK'
      BY <1>4 DEF Hear, TypeOK
<1>5. ASSUME NEW s \in Sockets, HandOver(s) PROVE TypeOK'
  <2>1. in' \in Seq({"message", "Reconnected"}) /\ Len(in') <= InCap
        BY <1>5, Appended DEF HandOver, TypeOK
  <2> QED BY <1>5, <2>1 DEF HandOver, TypeOK
<1>6. ASSUME NEW s \in Sockets, ReadFails(s) PROVE TypeOK'
      BY <1>6 DEF ReadFails, TypeOK
<1>7. ASSUME NEW s \in Sockets, WriterTakes(s) PROVE TypeOK'
  <2>1. out' \in Seq(Messages) /\ Len(out') <= OutCap /\ Head(out) \in Messages
        BY <1>7, Shortened DEF WriterTakes, TypeOK
  <2> QED BY <1>7, <2>1 DEF WriterTakes, TypeOK
<1>w. ASSUME NEW s \in Sockets, writer[s] = "writing", WriteBody(s)
      PROVE  published' \in Seq(Records) /\ lost' \subseteq Messages
  <2>1. holds[s] \in Messages
        BY <1>w DEF TypeOK, TakenInOrder
  <2>2. [msg |-> holds[s], body |-> body[s], via |-> s] \in Records
        BY <2>1 DEF TypeOK, Records
  <2>3. CASE link[s]
    <3>1. /\ published' = Append(published, [msg |-> holds[s], body |-> body[s], via |-> s])
          /\ lost' = lost
          BY <1>w, <2>3 DEF WriteBody
    <3> QED BY <3>1, <2>2, Appended DEF TypeOK
  <2>4. CASE ~link[s]
        BY <1>w, <2>1, <2>4 DEF WriteBody, TypeOK
  <2> QED BY <2>3, <2>4
<1>8. ASSUME NEW s \in Sockets, Write(s) PROVE TypeOK'
  <2>1. published' \in Seq(Records) /\ lost' \subseteq Messages
        BY <1>w, <1>8 DEF Write
  <2>2. body[s] + 1 \in 1..Bodies
        BY <1>8 DEF Write, TypeOK
  <2> QED BY <1>8, <2>1, <2>2 DEF Write, TypeOK
<1>16. ASSUME NEW s \in Sockets, WriteLast(s) PROVE TypeOK'
  <2>1. published' \in Seq(Records) /\ lost' \subseteq Messages
        BY <1>w, <1>16 DEF WriteLast
  <2> QED BY <1>16, <2>1 DEF WriteLast, TypeOK
<1>17. ASSUME NEW s \in Sockets, WriterDrops(s) PROVE TypeOK'
  <2>1. out' \in Seq(Messages) /\ Len(out') <= OutCap
        BY <1>17, Shortened DEF WriterDrops, TypeOK
  <2> QED BY <1>17, <2>1 DEF WriterDrops, TypeOK
<1>18. ASSUME NEW s \in Sockets, ReadExpires(s) PROVE TypeOK'
      BY <1>18 DEF ReadExpires, TypeOK
<1>9. ASSUME NEW s \in Sockets, WriteFails(s) PROVE TypeOK'
  <2>1. holds[s] \in Messages
        BY <1>9 DEF WriteFails, TypeOK, TakenInOrder
  <2> QED BY <1>9, <2>1 DEF WriteFails, WriterEnds, TypeOK
<1>10. ASSUME NEW s \in Sockets, WriterGivesUp(s) PROVE TypeOK'
      BY <1>10 DEF WriterGivesUp, WriterEnds, TypeOK
<1>11. CASE SeeDone
      BY <1>11 DEF SeeDone, TypeOK
<1>12. CASE Dial
  <2>1. sock + 1 \in Sockets
        BY <1>12 DEF Dial, OldSocketsExpired, TypeOK, Sockets
  <2> QED BY <1>12, <2>1 DEF Dial, TypeOK
<1>13. CASE Tell
  <2>1. in' \in Seq({"message", "Reconnected"}) /\ Len(in') <= InCap
        BY <1>13, Appended DEF Tell, TypeOK
  <2> QED BY <1>13, <2>1 DEF Tell, TypeOK
<1>14. ASSUME NEW s \in Sockets, Break(s) PROVE TypeOK'
      BY <1>14 DEF Break, TypeOK
<1>15. CASE UNCHANGED vars
      BY <1>15 DEF vars, TypeOK
<1> QED BY <1>1, <1>2, <1>3, <1>4, <1>5, <1>6, <1>7, <1>8, <1>9, <1>10, <1>11, <1>12, <1>13,
           <1>14, <1>15, <1>16, <1>17, <1>18 DEF Next

\* Sockets only change as their goroutines and openWS may change them.
LEMMA SocketStep ==
  ASSUME TypeOK, OldSocketsExpired, [Next]_vars
  PROVE  OldSocketsExpired'
<1> USE Bounds DEF TypeOK, OldSocketsExpired
<1>1. CASE \/ Send \/ Take \/ Leave \/ UNCHANGED vars
  <2>1. UNCHANGED <<main, sock, link, reader, writer>>
        BY <1>1 DEF Send, Take, Leave, vars, socketVars
  <2> QED BY <2>1
<1>2. ASSUME NEW s \in Sockets, Hear(s) \/ HandOver(s) \/ ReadFails(s) \/ ReadExpires(s)
      PROVE  OldSocketsExpired'
  <2>1. /\ UNCHANGED <<main, sock, link, writer>>
        /\ reader[s] \in {"reading", "parsing"}
        /\ \E r \in {"reading", "parsing", "ended", "expired"} :
             /\ reader' = [reader EXCEPT ![s] = r]
             /\ r = "ended" => ~link[s]
             /\ r = "expired" => s <= MaxBreaks
        BY <1>2 DEF Hear, HandOver, ReadFails, ReadExpires
  <2> QED BY <2>1
<1>3. ASSUME NEW s \in Sockets, WriterTakes(s) \/ WriterDrops(s) \/ Write(s) \/ WriteLast(s)
      PROVE  OldSocketsExpired'
  <2>1. /\ UNCHANGED <<main, sock, link, reader>>
        /\ writer[s] \in {"idle", "writing"}
        /\ \E w \in {"idle", "writing"} : writer' = [writer EXCEPT ![s] = w]
        BY <1>3 DEF WriterTakes, WriterDrops, Write, WriteLast, socketVars
  <2> QED BY <2>1
<1>4. ASSUME NEW s \in Sockets, WriteFails(s) \/ WriterGivesUp(s) PROVE OldSocketsExpired'
  <2>1. /\ UNCHANGED <<main, sock, reader>>
        /\ writer[s] \in {"idle", "writing"}
        /\ ~link[s] \/ reader[s] = "expired"
        /\ writer' = [writer EXCEPT ![s] = "ended"] /\ link' = [link EXCEPT ![s] = FALSE]
        BY <1>4 DEF WriteFails, WriterGivesUp, WriterEnds
  <2> QED BY <2>1
<1>5. CASE SeeDone
      BY <1>5 DEF SeeDone
<1>6. CASE Dial
  <2>1. sock + 1 \in Sockets
        BY <1>6 DEF Dial, Sockets
  <2>2. /\ main' = "telling" /\ sock' = sock + 1
        /\ link' = [link EXCEPT ![sock + 1] = TRUE] /\ UNCHANGED <<reader, writer>>
        BY <1>6 DEF Dial
  <2>3. /\ link[sock] => reader[sock] = "expired"
        /\ sock <= MaxBreaks /\ sock \in Nat
        BY <1>6, <2>1 DEF Dial, Sockets
  <2>4. \A s \in Sockets : s <= sock \/ s = sock + 1 \/ s > sock + 1
        OBVIOUS
  <2> QED BY <2>1, <2>2, <2>3, <2>4
<1>7. CASE Tell
      BY <1>7 DEF Tell
<1>8. ASSUME NEW s \in Sockets, Break(s) PROVE OldSocketsExpired'
      BY <1>8 DEF Break
<1> QED BY <1>1, <1>2, <1>3, <1>4, <1>5, <1>6, <1>7, <1>8 DEF Next

\* What the types say of what is held, published and lost.
LEMMA Numbers ==
  ASSUME TypeOK, TakenInOrder
  PROVE  /\ Taken \in Int
         /\ \A s \in Sockets : holds[s] \in Nat /\ holds[s] \in Messages \cup {0} /\ holds[s] <= Taken
         /\ \A s \in Sockets : writer[s] = "writing" => holds[s] \in Messages /\ holds[s] # 0
         /\ \A s \in Sockets : body[s] \in 1..Bodies /\ body[s] \in Nat
         /\ \A n \in DOMAIN published :
              /\ published[n] \in Records
              /\ published[n].msg \in Nat /\ published[n].msg # 0 /\ published[n].msg <= Taken
              /\ published[n].body \in Nat
         /\ \A m \in lost : m \in Nat /\ m # 0 /\ m <= Taken
<1> USE Bounds
<1>1. Taken \in Int
  <2>1. Len(out) \in Nat /\ sent \in Nat
        BY DEF TypeOK
  <2> QED BY ONLY <2>1 DEF Taken
<1>2. \A s \in Sockets : holds[s] \in Messages \cup {0} /\ body[s] \in 1..Bodies
      BY DEF TypeOK
<1>3. Messages \cup {0} \subseteq Nat /\ 1..Bodies \subseteq Nat /\ 0 \notin Messages
      OBVIOUS
<1>4. ASSUME NEW n \in DOMAIN published
      PROVE  /\ published[n] \in Records
             /\ published[n].msg \in Messages /\ published[n].body \in 1..Bodies
  <2>1. published[n] \in Records
        BY DEF TypeOK
  <2> QED BY <2>1 DEF Records
<1>5. lost \subseteq Messages
      BY DEF TypeOK
<1>6. /\ \A s \in Sockets : holds[s] <= Taken /\ (holds[s] # 0 <=> writer[s] = "writing")
      /\ \A n \in DOMAIN published : published[n].msg <= Taken
      /\ \A m \in lost : m <= Taken
      BY DEF TakenInOrder
<1> QED BY ONLY <1>1, <1>2, <1>3, <1>4, <1>5, <1>6

\* No reader comes back from its deadline.
LEMMA ExpiredStays ==
  ASSUME TypeOK, OldSocketsExpired, [Next]_vars
  PROVE  \A s \in Sockets : reader[s] = "expired" => reader'[s] = "expired"
<1>1. CASE UNCHANGED reader
      BY <1>1
<1>2. ASSUME NEW s \in Sockets, Hear(s) \/ HandOver(s) \/ ReadFails(s) \/ ReadExpires(s)
      PROVE  \A t \in Sockets : reader[t] = "expired" => reader'[t] = "expired"
  <2>1. reader[s] # "expired" /\ \A t \in Sockets \ {s} : reader'[t] = reader[t]
        BY <1>2 DEF Hear, HandOver, ReadFails, ReadExpires, TypeOK
  <2> QED BY <2>1
<1>3. CASE Tell
  <2>1. reader[sock] # "expired" /\ \A t \in Sockets \ {sock} : reader'[t] = reader[t]
        BY <1>3 DEF Tell, TypeOK, OldSocketsExpired
  <2> QED BY <2>1
<1>4. ASSUME NEW s \in Sockets,
             \/ WriterTakes(s) \/ WriterDrops(s) \/ Write(s) \/ WriteLast(s)
             \/ WriteFails(s) \/ WriterGivesUp(s) \/ Break(s)
      PROVE  UNCHANGED reader
      BY <1>4 DEF WriterTakes, WriterDrops, Write, WriteLast, WriteFails, WriterGivesUp, WriterEnds,
                  Break, socketVars
<1>5. CASE \/ Send \/ Take \/ Leave \/ SeeDone \/ Dial \/ UNCHANGED vars
      BY <1>5 DEF Send, Take, Leave, SeeDone, Dial, vars, socketVars
<1> QED BY <1>1, <1>2, <1>3, <1>4, <1>5 DEF Next

\* What may have come before still may, as long as readers stay away.
LEMMA PrecedenceStays ==
  ASSUME TypeOK, \A s \in Sockets : reader[s] = "expired" => reader'[s] = "expired",
         NEW e \in Records, NEW f \in Records, MayPrecede(e, f)
  PROVE  MayPrecede(e, f)'
<1>1. e.via \in Sockets /\ f.via \in Sockets
      BY DEF Records
<1>2. Overlapped(e.via, f.via) => Overlapped(e.via, f.via)'
      BY <1>1 DEF Overlapped
<1> QED BY <1>2 DEF MayPrecede

\* The order of what was published stays what it is.
LEMMA PublishedStays ==
  ASSUME TypeOK, OrderKept, UNCHANGED published,
         \A s \in Sockets : reader[s] = "expired" => reader'[s] = "expired"
  PROVE  \A m, n \in DOMAIN published' : m < n => MayPrecede(published[m], published[n])'
<1> TAKE m, n \in DOMAIN published'
<1> HAVE m < n
<1>1. m \in DOMAIN published /\ n \in DOMAIN published
      OBVIOUS
<1>2. PICK e \in Records, f \in Records : e = published[m] /\ f = published[n]
      BY <1>1 DEF TypeOK
<1>3. MayPrecede(e, f)
      BY <1>1, <1>2 DEF OrderKept
<1>4. MayPrecede(e, f)'
      BY <1>3, PrecedenceStays
<1>5. e = published'[m] /\ f = published'[n]
      BY <1>2
<1> QED BY ONLY <1>4, <1>5 DEF MayPrecede

\* A step by which no writer takes, writes or loses anything.
LEMMA SteadyStep ==
  ASSUME TypeOK, TakenInOrder, OrderKept,
         \A s \in Sockets : reader[s] = "expired" => reader'[s] = "expired",
         UNCHANGED <<holds, body, published, lost>>,
         \A s \in Sockets : writer'[s] = "writing" <=> writer[s] = "writing",
         \A s \in Sockets : writer[s] = "writing" /\ link'[s] => link[s],
         \A a \in DOMAIN out' : out'[a] = Taken' + a,
         Taken' \in Int, Taken \in Int, Taken <= Taken'
  PROVE  TakenInOrder' /\ OrderKept'
<1> USE Bounds
<1>1. \A m, n \in DOMAIN published' : m < n => MayPrecede(published[m], published[n])'
      BY PublishedStays
<1>2. \A m \in lost' : ~Got(m)'
      BY DEF OrderKept, Got
<1>3. OrderKept'
      BY <1>1, <1>2 DEF OrderKept
<1>4. \A s \in Sockets : holds'[s] <= Taken'
  <2>1. \A s \in Sockets : holds[s] \in Nat /\ holds[s] <= Taken /\ holds'[s] = holds[s]
        BY Numbers
  <2> QED BY ONLY <2>1, Taken' \in Int, Taken \in Int, Taken <= Taken'
<1>5. \A n \in DOMAIN published' : published'[n].msg <= Taken'
  <2>1. /\ \A n \in DOMAIN published : published[n].msg \in Nat /\ published[n].msg <= Taken
        /\ published' = published
        BY Numbers
  <2> QED BY ONLY <2>1, Taken' \in Int, Taken \in Int, Taken <= Taken'
<1>6. \A m \in lost' : m <= Taken'
  <2>1. (\A m \in lost : m \in Nat /\ m <= Taken) /\ lost' = lost
        BY Numbers
  <2> QED BY ONLY <2>1, Taken' \in Int, Taken \in Int, Taken <= Taken'
<1>7. \A s \in Sockets : holds'[s] \in lost' => ~link'[s]
  <2>1. \A s \in Sockets : holds[s] \in lost => writer[s] = "writing"
        BY DEF TypeOK, TakenInOrder
  <2> QED BY <2>1 DEF TakenInOrder
<1>8. \A s \in Sockets : ~Got(holds[s])'
      BY DEF TakenInOrder, Got
<1>9. ASSUME NEW s \in Sockets, writer'[s] = "writing", link'[s], NEW n \in DOMAIN published'
      PROVE  MayPrecede(published[n], Next1(s))'
  <2>1. n \in DOMAIN published /\ writer[s] = "writing" /\ link[s]
        BY <1>9
  <2>2. holds[s] \in Messages /\ body[s] \in 1..Bodies
        BY <2>1 DEF TypeOK, TakenInOrder
  <2>3. Next1(s) \in Records
        BY <2>2 DEF Next1, Records
  <2>4. PICK e \in Records, f \in Records : e = published[n] /\ f = Next1(s)
        BY <2>1, <2>3 DEF TypeOK
  <2>5. MayPrecede(e, f)
        BY <1>9, <2>1, <2>4 DEF TakenInOrder
  <2>6. MayPrecede(e, f)'
        BY <2>5, PrecedenceStays
  <2>7. e = published'[n] /\ f = Next1(s)'
        BY <2>4 DEF Next1
  <2> QED BY ONLY <2>6, <2>7 DEF MayPrecede
<1>10. /\ \A s \in Sockets : holds'[s] # 0 <=> writer'[s] = "writing"
       /\ \A s, t \in Sockets : holds'[s] = holds'[t] /\ holds'[s] # 0 => s = t
       BY DEF TakenInOrder
<1> QED BY <1>3, <1>4, <1>5, <1>6, <1>7, <1>8, <1>9, <1>10 DEF TakenInOrder

\* A writer takes what was taken after everything that any writer holds or wrote.
LEMMA TakeStep ==
  ASSUME TypeOK, TakenInOrder, OrderKept, NEW s \in Sockets, WriterTakes(s)
  PROVE  TakenInOrder' /\ OrderKept'
<1> USE Bounds
<1>1. /\ writer[s] = "idle" /\ UNCHANGED <<reader, link, sent, published, lost>>
      /\ holds' = [holds EXCEPT ![s] = Head(out)] /\ body' = [body EXCEPT ![s] = 1]
      /\ writer' = [writer EXCEPT ![s] = "writing"]
      /\ out' = Tail(out) /\ out # <<>>
      BY DEF WriterTakes, resultVars
<1>2. /\ Len(out) \in Nat /\ Len(out') = Len(out) - 1
      /\ 1 \in DOMAIN out /\ Head(out) = out[1] /\ Head(out) \in Messages
      /\ \A a \in DOMAIN out' : a \in Nat /\ a + 1 \in DOMAIN out /\ out'[a] = out[a + 1]
      BY <1>1, Shortened DEF TypeOK
<1>3. Taken' = Taken + 1 /\ Taken \in Int
  <2>1. sent' = sent /\ sent \in Nat
        BY <1>1 DEF TypeOK
  <2> QED BY ONLY <2>1, <1>2 DEF Taken
<1>4. Head(out) = Taken + 1
      BY <1>2 DEF TakenInOrder
<1>5. \A a \in DOMAIN out' : out'[a] = Taken' + a
      BY <1>2, <1>3 DEF TakenInOrder
<1>6. /\ \A t \in Sockets : holds'[t] = IF t = s THEN Taken + 1 ELSE holds[t]
      /\ \A t \in Sockets : body'[t] = IF t = s THEN 1 ELSE body[t]
      /\ \A t \in Sockets : writer'[t] = IF t = s THEN "writing" ELSE writer[t]
      /\ Taken + 1 \in Messages
      BY <1>1, <1>2, <1>4 DEF TypeOK
<1>7. /\ \A t \in Sockets : holds[t] \in Int /\ holds[t] <= Taken
      /\ \A n \in DOMAIN published : published[n].msg \in Int /\ published[n].msg <= Taken
      /\ \A m \in lost : m \in Int /\ m <= Taken
      BY Numbers
<1>8. \A t \in Sockets : holds'[t] # 0 <=> writer'[t] = "writing"
      BY <1>6 DEF TakenInOrder
<1>9. \A t \in Sockets : holds'[t] <= Taken'
      BY <1>3, <1>6, <1>7
<1>10. /\ \A n \in DOMAIN published' : published'[n].msg <= Taken'
       /\ \A m \in lost' : m <= Taken'
       BY <1>1, <1>3, <1>7
<1>11. \A t, u \in Sockets : holds'[t] = holds'[u] /\ holds'[t] # 0 => t = u
       BY <1>3, <1>6, <1>7 DEF TakenInOrder
<1>12. \A t \in Sockets : holds'[t] \in lost' => ~link'[t]
       BY <1>1, <1>3, <1>6, <1>7 DEF TakenInOrder
<1>13. \A t \in Sockets : ~\E n \in DOMAIN published' : published'[n].msg = holds'[t]
                                                        /\ published'[n].body = Bodies
       BY <1>1, <1>3, <1>6, <1>7 DEF TakenInOrder, Got
<1>14. ASSUME NEW t \in Sockets, writer'[t] = "writing", link'[t], NEW n \in DOMAIN published'
       PROVE  MayPrecede(published[n], Next1(t))'
  <2>1. n \in DOMAIN published /\ published'[n] = published[n] /\ reader' = reader /\ link[t]
        BY <1>1, <1>14
  <2>2. CASE t = s
    <3>1. published'[n].msg < holds'[t]
          BY <1>3, <1>6, <1>7, <2>1, <2>2
    <3> QED BY <3>1 DEF MayPrecede, Next1
  <2>3. CASE t # s
    <3>1. holds'[t] = holds[t] /\ body'[t] = body[t] /\ writer[t] = "writing"
          BY <1>6, <1>14, <2>3
    <3>2. MayPrecede(published[n], Next1(t))
          BY <2>1, <3>1 DEF TakenInOrder
    <3> QED BY <2>1, <3>1, <3>2 DEF MayPrecede, Next1, Overlapped
  <2> QED BY <2>2, <2>3
<1>15. \A t \in Sockets : ~Got(holds[t])'
       BY <1>13 DEF Got
<1>16. OrderKept'
       BY <1>1 DEF OrderKept, MayPrecede, Overlapped, Got
<1> QED BY <1>5, <1>8, <1>9, <1>10, <1>11, <1>12, <1>14, <1>15, <1>16 DEF TakenInOrder

\* What a writer has done with a message is over for it.
LEMMA Released ==
  ASSUME TypeOK, TakenInOrder, NEW s \in Sockets, writer[s] = "writing",
         holds' = [holds EXCEPT ![s] = 0], writer'[s] # "writing",
         \A t \in Sockets \ {s} : writer'[t] = writer[t], UNCHANGED <<out, sent>>
  PROVE  /\ Taken' = Taken /\ \A a \in DOMAIN out' : out'[a] = Taken' + a
         /\ \A t \in Sockets : holds'[t] = IF t = s THEN 0 ELSE holds[t]
         /\ \A t \in Sockets : holds'[t] # 0 <=> writer'[t] = "writing"
         /\ \A t \in Sockets : holds'[t] <= Taken'
         /\ \A t, u \in Sockets : holds'[t] = holds'[u] /\ holds'[t] # 0 => t = u
         /\ \A t \in Sockets : holds'[t] # holds[s]
<1> USE Bounds
<1>1. Taken' = Taken /\ \A t \in Sockets : holds'[t] = IF t = s THEN 0 ELSE holds[t]
      BY DEF Taken, TypeOK
<1>2. holds[s] \in Messages /\ holds[s] <= Taken /\ Taken \in Int /\ holds[s] \in Nat /\ holds[s] # 0
      BY Numbers
<1>3. 0 <= Taken
      BY <1>2
<1> QED BY <1>1, <1>2, <1>3 DEF TakenInOrder

\* A message is lost on a broken socket, whether its writer goes on or ends.
LEMMA LoseStep ==
  ASSUME TypeOK, TakenInOrder, OrderKept, NEW s \in Sockets, writer[s] = "writing", ~link[s],
         ~link'[s], UNCHANGED <<reader, out, sent, published>>, lost' = lost \cup {holds[s]},
         \A t \in Sockets \ {s} :
           writer'[t] = writer[t] /\ holds'[t] = holds[t] /\ body'[t] = body[t] /\ link'[t] = link[t],
         \/ holds' = holds /\ writer' = writer
         \/ holds' = [holds EXCEPT ![s] = 0] /\ writer'[s] # "writing"
  PROVE  TakenInOrder' /\ OrderKept'
<1> USE Bounds
<1>1. /\ Taken' = Taken /\ \A a \in DOMAIN out' : out'[a] = Taken' + a
      /\ \A t \in Sockets : holds'[t] # 0 <=> writer'[t] = "writing"
      /\ \A t \in Sockets : holds'[t] <= Taken'
      /\ \A t, u \in Sockets : holds'[t] = holds'[u] /\ holds'[t] # 0 => t = u
      /\ \A t \in Sockets : holds'[t] \in {0, holds[t]}
      /\ \A t \in Sockets \ {s} : holds'[t] # holds[s]
  <2>1. CASE holds' = holds /\ writer' = writer
        BY <2>1 DEF TakenInOrder, Taken
  <2>2. CASE holds' = [holds EXCEPT ![s] = 0] /\ writer'[s] # "writing"
        BY <2>2, Released
  <2> QED BY <2>1, <2>2
<1>2. holds[s] \in Messages /\ holds[s] <= Taken /\ 0 \notin lost'
      BY Numbers
<1>3. \A m \in lost' : m <= Taken' /\ ~Got(m)'
      BY <1>1, <1>2 DEF TakenInOrder, OrderKept, Got
<1>4. \A n \in DOMAIN published' : published'[n].msg <= Taken'
      BY <1>1 DEF TakenInOrder
<1>5. \A t \in Sockets : holds'[t] \in lost' => ~link'[t]
      BY <1>1, <1>2 DEF TakenInOrder
<1>6. \A t \in Sockets : ~Got(holds[t])'
  <2>1. \A n \in DOMAIN published : published[n].msg # 0
        BY Numbers
  <2>2. ~\E t \in Sockets, n \in DOMAIN published : published[n].msg = holds'[t] /\ published[n].body = Bodies
        BY <1>1, <2>1 DEF TakenInOrder, Got
  <2> QED BY <2>2 DEF Got
<1>7. ASSUME NEW t \in Sockets, writer'[t] = "writing", link'[t], NEW n \in DOMAIN published'
      PROVE  MayPrecede(published[n], Next1(t))'
  <2>1. t # s
        BY <1>7
  <2>2. /\ writer[t] = "writing" /\ link[t] /\ holds'[t] = holds[t] /\ body'[t] = body[t]
        /\ n \in DOMAIN published
        BY <1>7, <2>1
  <2>3. MayPrecede(published[n], Next1(t))
        BY <2>2 DEF TakenInOrder
  <2> QED BY <2>2, <2>3 DEF MayPrecede, Next1, Overlapped
<1>8. OrderKept'
      BY <1>3 DEF OrderKept, MayPrecede, Overlapped
<1> QED BY <1>1, <1>3, <1>4, <1>5, <1>6, <1>7, <1>8 DEF TakenInOrder

\* A body gets to the broker.  It may follow all that is there, and what other
\* writers of working sockets hold may follow it, because two sockets that work at a
\* time are ones the older of which outlived its reader.
LEMMA PublishStep ==
  ASSUME TypeOK, OldSocketsExpired, TakenInOrder, OrderKept,
         NEW s \in Sockets, writer[s] = "writing", link[s],
         published' = Append(published, Next1(s)),
         UNCHANGED <<reader, link, out, sent, lost>>,
         \A t \in Sockets \ {s} : writer'[t] = writer[t] /\ holds'[t] = holds[t] /\ body'[t] = body[t],
         \/ holds' = holds /\ writer' = writer /\ body[s] < Bodies /\ body'[s] = body[s] + 1
         \/ holds' = [holds EXCEPT ![s] = 0] /\ writer'[s] # "writing"
  PROVE  TakenInOrder' /\ OrderKept'
<1> USE Bounds
<1>1. /\ Taken' = Taken /\ \A a \in DOMAIN out' : out'[a] = Taken' + a
      /\ \A t \in Sockets : holds'[t] # 0 <=> writer'[t] = "writing"
      /\ \A t \in Sockets : holds'[t] <= Taken'
      /\ \A t, u \in Sockets : holds'[t] = holds'[u] /\ holds'[t] # 0 => t = u
      /\ \A t \in Sockets : holds'[t] \in {0, holds[t]}
      /\ \A t \in Sockets : holds'[t] = holds[s] => t = s /\ body[s] < Bodies /\ body'[s] = body[s] + 1
  <2>1. CASE holds' = holds /\ writer' = writer /\ body[s] < Bodies /\ body'[s] = body[s] + 1
        BY <2>1 DEF TakenInOrder, Taken
  <2>2. CASE holds' = [holds EXCEPT ![s] = 0] /\ writer'[s] # "writing"
        BY <2>2, Released
  <2> QED BY <2>1, <2>2
<1>2. /\ holds[s] \in Messages /\ holds[s] <= Taken /\ holds[s] # 0 /\ holds[s] \in Nat
      /\ body[s] \in 1..Bodies /\ body[s] \in Nat
      BY Numbers
<1>3. Next1(s) \in Records
      BY <1>2 DEF Next1, Records
<1>4. /\ Len(published) \in Nat
      /\ DOMAIN published = 1..Len(published) /\ DOMAIN published' = 1..(Len(published) + 1)
      /\ \A a \in DOMAIN published : published'[a] = published[a]
      /\ published'[Len(published) + 1] = Next1(s)
      BY <1>3, Appended DEF TypeOK
<1>5. \A n \in DOMAIN published' : n \in DOMAIN published \/ n = Len(published) + 1
      BY <1>4
<1>6. /\ \A n \in DOMAIN published : MayPrecede(published[n], Next1(s))
      /\ \A n \in DOMAIN published :
           published[n].msg # 0 /\ published[n].msg <= Taken /\ published[n].body \in Nat
      BY Numbers DEF TakenInOrder
<1>7. \A n \in DOMAIN published' : published'[n].msg <= Taken'
      BY <1>1, <1>2, <1>4, <1>5, <1>6 DEF Next1
<1>8. \A m, n \in DOMAIN published' : m < n => MayPrecede(published[m], published[n])'
  <2> TAKE m, n \in DOMAIN published'
  <2> HAVE m < n
  <2>1. m \in DOMAIN published /\ published'[m] = published[m]
        BY <1>4, <1>5
  <2>2. CASE n \in DOMAIN published
    <3>1. published'[n] = published[n]
          BY <1>4, <2>2
    <3>2. MayPrecede(published[m], published[n])
          BY <2>1, <2>2 DEF OrderKept
    <3> QED BY <2>1, <3>1, <3>2 DEF MayPrecede, Overlapped
  <2>3. CASE n = Len(published) + 1
    <3>1. published'[n] = Next1(s) /\ MayPrecede(published[m], Next1(s))
          BY <1>4, <1>6, <2>1, <2>3
    <3> QED BY <2>1, <3>1 DEF MayPrecede, Overlapped
  <2> QED BY <1>5, <2>2, <2>3
<1>9. \A m : (\E n \in DOMAIN published' : published'[n].msg = m /\ published'[n].body = Bodies)
               => Got(m) \/ (m = holds[s] /\ body[s] = Bodies)
      BY <1>4, <1>5 DEF Got, Next1
<1>10. \A t \in Sockets : ~Got(holds[t])'
  <2>1. ~Got(0)
        BY <1>6 DEF Got
  <2>2. \A t \in Sockets : ~Got(holds'[t]) /\ ~(holds'[t] = holds[s] /\ body[s] = Bodies)
        BY <1>1, <1>2, <2>1 DEF TakenInOrder
  <2>3. \A t \in Sockets :
          ~\E n \in DOMAIN published' : published'[n].msg = holds'[t] /\ published'[n].body = Bodies
        BY ONLY <1>9, <2>2
  <2> QED BY <2>3 DEF Got
<1>11. \A m \in lost' : m <= Taken' /\ ~Got(m)'
  <2>1. \A m \in lost : m # holds[s] /\ ~Got(m)
        BY DEF TakenInOrder, OrderKept
  <2>2. \A m \in lost :
          ~\E n \in DOMAIN published' : published'[n].msg = m /\ published'[n].body = Bodies
        BY ONLY <1>9, <2>1
  <2> QED BY <1>1, <2>2 DEF TakenInOrder, Got
<1>12. \A t \in Sockets : holds'[t] \in lost' => ~link'[t]
       BY <1>1 DEF TakenInOrder, TypeOK
<1>13. ASSUME NEW t \in Sockets, writer'[t] = "writing", link'[t], NEW n \in DOMAIN published'
       PROVE  MayPrecede(published[n], Next1(t))'
  <2>1. holds'[t] = holds[t] /\ holds[t] # 0 /\ link[t] /\ holds[t] \in Nat
    <3>1. holds'[t] # 0 /\ link[t]
          BY <1>1, <1>13
    <3> QED BY <1>1, <3>1, Numbers
  <2>2. CASE t = s
    <3>1. body'[s] = body[s] + 1
          BY <1>1, <2>1, <2>2
    <3>2. MayPrecede(published'[n], Next1(s)) \/ published'[n] = Next1(s)
          BY <1>4, <1>5, <1>6
    <3>3. /\ Next1(s).msg = holds[s] /\ Next1(s).body = body[s] /\ Next1(s).via = s
          /\ Next1(s)'.msg = holds[s] /\ Next1(s)'.body = body[s] + 1 /\ Next1(s)'.via = s
          BY <2>1, <2>2, <3>1 DEF Next1
    <3>4. published'[n].body \in Nat
          BY <1>2, <1>4, <1>5, <1>6 DEF Next1
    <3>5. \/ published'[n].msg < holds[s]
          \/ published'[n].msg = holds[s] /\ published'[n].body < body[s] + 1
          \/ published'[n].msg # holds[s] /\ Overlapped(published'[n].via, s)
          BY <1>2, <3>2, <3>3, <3>4 DEF MayPrecede
    <3> QED BY <2>2, <3>3, <3>5 DEF MayPrecede, Overlapped
  <2>3. CASE t # s
    <3>1. writer[t] = "writing" /\ body'[t] = body[t]
          BY <1>13, <2>3
    <3>2. CASE n \in DOMAIN published
      <4>1. MayPrecede(published[n], Next1(t)) /\ published'[n] = published[n]
            BY <1>4, <2>1, <3>1, <3>2 DEF TakenInOrder
      <4> QED BY <2>1, <3>1, <4>1 DEF MayPrecede, Next1, Overlapped
    <3>3. CASE n = Len(published) + 1
      <4>1. published'[n].msg = holds[s] /\ published'[n].via = s
            BY <1>4, <3>3 DEF Next1
      <4>2. holds[s] # holds[t]
            BY <1>2, <2>3 DEF TakenInOrder
      <4>3. Overlapped(s, t)
        <5>1. s \in Nat /\ t \in Nat /\ sock \in Nat /\ s <= sock /\ t <= sock
              BY <2>1 DEF OldSocketsExpired, TypeOK
        <5> QED BY <2>1, <2>3, <5>1 DEF Overlapped, OldSocketsExpired
      <4> QED BY <2>1, <4>1, <4>2, <4>3 DEF MayPrecede, Next1, Overlapped
    <3> QED BY <1>5, <3>2, <3>3
  <2> QED BY <2>2, <2>3
<1>14. OrderKept'
       BY <1>8, <1>11 DEF OrderKept
<1> QED BY <1>1, <1>7, <1>10, <1>11, <1>12, <1>13, <1>14 DEF TakenInOrder

\* The order is kept by every step.
LEMMA OrderStep ==
  ASSUME TypeOK, OldSocketsExpired, TakenInOrder, OrderKept, [Next]_vars
  PROVE  TakenInOrder' /\ OrderKept'
<1> USE Bounds
<1>a. \A s \in Sockets : reader[s] = "expired" => reader'[s] = "expired"
      BY ExpiredStays
<1>b. Len(out) \in Nat /\ sent \in Nat /\ Taken \in Int
      BY DEF TypeOK, Taken
<1>1. ASSUME UNCHANGED <<out, sent, holds, body, published, lost>>,
             \A s \in Sockets : writer'[s] = "writing" <=> writer[s] = "writing",
             \A s \in Sockets : writer[s] = "writing" /\ link'[s] => link[s]
      PROVE  TakenInOrder' /\ OrderKept'
  <2>1. Taken' = Taken /\ \A a \in DOMAIN out' : out'[a] = Taken' + a
        BY <1>1 DEF Taken, TakenInOrder
  <2> QED BY <1>1, <1>a, <1>b, <2>1, SteadyStep
<1>2. CASE Send
  <2>1. /\ UNCHANGED <<link, writer, holds, body, published, lost>>
        /\ sent' = sent + 1 /\ out' = Append(out, sent + 1) /\ sent + 1 \in Messages
        BY <1>2 DEF Send, socketVars, resultVars, TypeOK, Messages
  <2>2. /\ Len(out') = Len(out) + 1
        /\ DOMAIN out = 1..Len(out) /\ DOMAIN out' = 1..(Len(out) + 1)
        /\ \A a \in DOMAIN out : out'[a] = out[a]
        /\ out'[Len(out) + 1] = sent + 1
        BY <2>1, Appended DEF TypeOK
  <2>3. Taken' = Taken
        BY <1>b, <2>1, <2>2 DEF Taken
  <2>4. \A a \in DOMAIN out' : out'[a] = Taken' + a
        BY <1>b, <2>2, <2>3 DEF TakenInOrder, Taken
  <2> QED BY <1>a, <1>b, <2>1, <2>3, <2>4, SteadyStep
<1>3. ASSUME NEW s \in Sockets, WriterTakes(s) PROVE TakenInOrder' /\ OrderKept'
      BY <1>3, TakeStep
<1>4. ASSUME NEW s \in Sockets, WriterDrops(s) PROVE TakenInOrder' /\ OrderKept'
  <2>1. /\ UNCHANGED <<link, writer, holds, body, sent, published, lost>>
        /\ out' = Tail(out) /\ out # <<>>
        BY <1>4 DEF WriterDrops, socketVars, resultVars
  <2>2. /\ Len(out') = Len(out) - 1
        /\ \A a \in DOMAIN out' : a \in Nat /\ a + 1 \in DOMAIN out /\ out'[a] = out[a + 1]
        BY <2>1, Shortened DEF TypeOK
  <2>3. Taken' = Taken + 1
        BY <1>b, <2>1, <2>2 DEF Taken
  <2>4. \A a \in DOMAIN out' : out'[a] = Taken' + a
        BY <1>b, <2>2, <2>3 DEF TakenInOrder
  <2> QED BY <1>a, <1>b, <2>1, <2>3, <2>4, SteadyStep
<1>5. ASSUME NEW s \in Sockets, Write(s) \/ WriteLast(s) PROVE TakenInOrder' /\ OrderKept'
  <2>1. /\ writer[s] = "writing" /\ UNCHANGED <<reader, link, out, sent>>
        /\ \A t \in Sockets \ {s} : writer'[t] = writer[t] /\ holds'[t] = holds[t] /\ body'[t] = body[t]
        /\ \/ holds' = holds /\ writer' = writer /\ body[s] < Bodies /\ body'[s] = body[s] + 1
           \/ holds' = [holds EXCEPT ![s] = 0] /\ writer'[s] # "writing"
        BY <1>5 DEF Write, WriteLast, TypeOK
  <2>2. CASE link[s]
    <3>1. published' = Append(published, Next1(s)) /\ lost' = lost
          BY <1>5, <2>2 DEF Write, WriteLast, WriteBody, Next1
    <3> QED BY <2>1, <2>2, <3>1, PublishStep
  <2>3. CASE ~link[s]
    <3>1. published' = published /\ lost' = lost \cup {holds[s]}
          BY <1>5, <2>3 DEF Write, WriteLast, WriteBody
    <3> QED BY <2>1, <2>3, <3>1, LoseStep
  <2> QED BY <2>2, <2>3
<1>6. ASSUME NEW s \in Sockets, WriteFails(s) PROVE TakenInOrder' /\ OrderKept'
  <2>1. /\ writer[s] = "writing" /\ ~link[s] /\ ~link'[s] /\ UNCHANGED <<reader, out, sent, published>>
        /\ lost' = lost \cup {holds[s]}
        /\ holds' = [holds EXCEPT ![s] = 0] /\ writer'[s] # "writing"
        /\ \A t \in Sockets \ {s} :
             writer'[t] = writer[t] /\ holds'[t] = holds[t] /\ body'[t] = body[t] /\ link'[t] = link[t]
        BY <1>6 DEF WriteFails, WriterEnds, TypeOK
  <2> QED BY <2>1, LoseStep
<1>7. ASSUME NEW s \in Sockets, WriterGivesUp(s) PROVE TakenInOrder' /\ OrderKept'
  <2>1. /\ UNCHANGED <<out, sent, body, published, lost>> /\ writer[s] = "idle" /\ holds[s] = 0
        BY <1>7 DEF WriterGivesUp, WriterEnds, TakenInOrder, TypeOK
  <2>2. /\ holds' = holds
        /\ \A t \in Sockets : writer'[t] = "writing" <=> writer[t] = "writing"
        /\ \A t \in Sockets : link'[t] => link[t]
        BY <1>7, <2>1 DEF WriterGivesUp, WriterEnds, TypeOK
  <2> QED BY <1>1, <2>1, <2>2
<1>8. CASE Dial
  <2>1. /\ UNCHANGED <<out, sent, writer, holds, body, published, lost>> /\ sock + 1 \in Sockets
        /\ link' = [link EXCEPT ![sock + 1] = TRUE] /\ writer[sock + 1] = "none"
        BY <1>8 DEF Dial, resultVars, OldSocketsExpired, Sockets, TypeOK
  <2>2. \A t \in Sockets : writer[t] = "writing" /\ link'[t] => link[t]
        BY <2>1 DEF TypeOK
  <2> QED BY <1>1, <2>1, <2>2
<1>9. CASE Tell
  <2>1. /\ UNCHANGED <<out, sent, link, holds, body, published, lost>>
        /\ writer[sock] = "none" /\ \A t \in Sockets : writer'[t] = "writing" <=> writer[t] = "writing"
        BY <1>9 DEF Tell, resultVars, OldSocketsExpired, TypeOK
  <2> QED BY <1>1, <2>1
<1>10. CASE \/ Take \/ Leave \/ SeeDone \/ UNCHANGED vars
       BY <1>1, <1>10 DEF Take, Leave, SeeDone, vars, socketVars, resultVars
<1>11. ASSUME NEW s \in Sockets, Hear(s) \/ HandOver(s) \/ ReadFails(s) \/ ReadExpires(s)
       PROVE  TakenInOrder' /\ OrderKept'
       BY <1>1, <1>11 DEF Hear, HandOver, ReadFails, ReadExpires, resultVars
<1>12. ASSUME NEW s \in Sockets, Break(s) PROVE TakenInOrder' /\ OrderKept'
  <2>1. /\ UNCHANGED <<out, sent, writer, holds, body, published, lost>>
        /\ link' = [link EXCEPT ![s] = FALSE]
        BY <1>12 DEF Break, resultVars
  <2>2. \A t \in Sockets : link'[t] => link[t]
        BY <2>1 DEF TypeOK
  <2> QED BY <1>1, <2>1, <2>2
<1> QED BY <1>2, <1>3, <1>4, <1>5, <1>6, <1>7, <1>8, <1>9, <1>10, <1>11, <1>12 DEF Next
-----------------------------------------------------------------------------
(* The theorems *)

LEMMA Invariance == Spec => []IInv
<1>1. IInv /\ [Next]_vars => IInv'
      BY TypeStep, SocketStep, OrderStep DEF IInv
<1> QED BY <1>1, InitIInv, PTL DEF Spec

\* Every variable has its type, and the channels hold what they have room for,
\* although all readers share conn.In with openWS (api/ws.go:49-80, 99-112).
THEOREM TypeCorrect == Spec => []TypeOK
<1>1. IInv => TypeOK
      BY DEF IInv
<1> QED BY <1>1, Invariance, PTL

\* What the broker gets of a command is in the order the command sent it, the bodies
\* of a message in theirs, nothing comes twice and nothing comes whole that counts as
\* lost, though the writer of an old socket may still take messages beside the new
\* one.  Only messages that came by two sockets may have changed places, and only if
\* the reader of the older one gave up at its deadline while the socket still carried
\* what was written (api/ws.go:49-65, 85-93, 123-162).
THEOREM OrderIsKept == Spec => []OrderKept
<1>1. IInv => OrderKept
      BY DEF IInv
<1> QED BY <1>1, Invariance, PTL
=============================================================================
