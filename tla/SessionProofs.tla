--------------------------- MODULE SessionProofs ---------------------------
(***************************************************************************)
(* Proofs about Session, for any keys, any number of introducers, prompts  *)
(* and requests.  That a command goes on with a good key only follows from *)
(* what a TestAuth and an AuthValid on their way say of the keys that were *)
(* tested.  What a command is told of its requests follows from how many   *)
(* answers to each may still be on their way to it.                        *)
(***************************************************************************)
EXTENDS Session, FiniteSetTheorems, TLAPS

GoneOn == pc \in {"ready", "ended"} \cup Requests
GoodKeyTested == \E i \in Introducers : tested \cap Known(KeysOf[i]) # {}

\* A TestAuth leaves with keys that count as tested, and an AuthValid comes from an
\* introducer that has one of them.
TestsAreTested ==
  /\ pc = "testing" => checkKey
  /\ checkKey => Known(keys) \subseteq tested
  /\ \A a \in DOMAIN out : out[a].type = "TestAuth" => checkKey
  /\ \A i \in Introducers : \A b \in DOMAIN inbox[i] :
       inbox[i][b].type = "TestAuth" => \A k \in inbox[i][b].bodies : k[2] \in tested
  /\ \A b \in DOMAIN wire : wire[b].type = "AuthValid" => GoodKeyTested
  /\ \A a \in DOMAIN in : in[a].type = "AuthValid" => GoodKeyTested

\* Requests are sent after the key was settled, and their outcomes follow.
RequestsInOrder ==
  /\ note > 0 => GoneOn
  /\ pc \in Requests => note \in Notes
  /\ \A m \in Notes : result[m] = "none" => m > note \/ (m = note /\ pc \in Requests)
  /\ \A m \in Notes : m > note => result[m] = "none" /\ answers[m] = 0

\* Each request is sent once, with the keys the client keeps from then on.
SentOut(n) == \E a \in DOMAIN out : out[a].type \in Requests /\ out[a].note = n
RequestsAreUnique ==
  /\ \A a \in DOMAIN out : out[a].type \in Requests => out[a].note \in 1..note
  /\ \A a, c \in DOMAIN out :
       out[a].type \in Requests /\ out[c].type \in Requests /\ out[a].note = out[c].note => a = c
  /\ \A i \in Introducers : \A b \in DOMAIN inbox[i] :
       inbox[i][b].type \in Requests =>
         /\ inbox[i][b].note \in 1..note /\ ~SentOut(inbox[i][b].note)
         /\ inbox[i][b].bodies \subseteq EntriesOf(keys)
         /\ \A c \in DOMAIN inbox[i] :
              inbox[i][c].type \in Requests /\ inbox[i][c].note = inbox[i][b].note => b = c

\* The bodies of request n that introducer i has still to take and can read.
ToServe(i, n) ==
  {k \in SharedEntries(keys, KeysOf[i]) : \E b \in DOMAIN inbox[i] :
     inbox[i][b].type \in Requests /\ inbox[i][b].note = n /\ k \in inbox[i][b].bodies}

ServedAsSent ==
  \A i \in Introducers, n \in Notes :
    /\ shown[i][n] + Cardinality(ToServe(i, n)) <= Cardinality(SharedEntries(keys, KeysOf[i]))
    /\ n > note \/ SentOut(n) => shown[i][n] = 0

\* The answers to request n that the client has still to read.
InAt(n, a) == in[a].type # "AuthValid" /\ in[a].note = n
WireAt(n, b, k) ==
  k \in wire[b].bodies /\ Readable(k, keys) /\ wire[b].type # "AuthValid" /\ wire[b].note = n
AllRead(n) ==
  /\ \A a \in DOMAIN in : ~InAt(n, a)
  /\ \A b \in DOMAIN wire, k \in Entries : ~WireAt(n, b, k)
OneUnreadAtMost(n) ==
  /\ \A a, c \in DOMAIN in : InAt(n, a) /\ InAt(n, c) => a = c
  /\ \A b, d \in DOMAIN wire, k, l \in Entries : WireAt(n, b, k) /\ WireAt(n, d, l) => b = d /\ k = l
  /\ \A a \in DOMAIN in, b \in DOMAIN wire, k \in Entries : ~(InAt(n, a) /\ WireAt(n, b, k))

\* What an answer to request n stands for.
Done(n) == (\E i \in Introducers : shown[i][n] > 0) \/ InVain(n)

NoSurplus(n) == \A m \in 1..(n - 1) : result[m] # "unknown" /\ answers[m] <= 1

\* An answer that was read, or may be, was counted when it was given, and the
\* request served or the command for it failed.  One that ends the wait is that of its
\* own request unless an earlier one left a surplus.
AnswersAreCounted ==
  /\ \A a \in DOMAIN in : in[a].type # "AuthValid" => in[a].note \in 1..note
  /\ \A b \in DOMAIN wire : wire[b].type # "AuthValid" => wire[b].note \in 1..note
  /\ \A n \in Notes :
       /\ answers[n] = 0 => AllRead(n)
       /\ answers[n] <= 1 => OneUnreadAtMost(n)
       /\ answers[n] > 0 => Done(n)
       /\ result[n] = "served" /\ NoSurplus(n)
            => answers[n] >= 1 /\ (answers[n] = 1 => AllRead(n))

IInv ==
  /\ TypeOK
  /\ TestsAreTested /\ GoesOnWithAGoodKey
  /\ RequestsInOrder /\ RequestsAreUnique /\ ServedAsSent
  /\ AnswersAreCounted
-----------------------------------------------------------------------------
(* Sequences *)

\* A sequence with one more entry.
LEMMA Appended ==
  ASSUME NEW S, NEW s \in Seq(S), NEW e \in S
  PROVE  /\ Append(s, e) \in Seq(S)
         /\ DOMAIN s = 1..Len(s) /\ DOMAIN Append(s, e) = 1..(Len(s) + 1)
         /\ \A a \in DOMAIN s : Append(s, e)[a] = s[a]
         /\ Append(s, e)[Len(s) + 1] = e /\ Len(s) \in Nat
OBVIOUS

\* A sequence without its first entry.
LEMMA Shortened ==
  ASSUME NEW S, NEW s \in Seq(S), s # <<>>
  PROVE  /\ Tail(s) \in Seq(S) /\ Head(s) \in S
         /\ 1 \in DOMAIN s /\ Head(s) = s[1]
         /\ \A a \in DOMAIN Tail(s) : a \in Nat \ {0} /\ a + 1 \in DOMAIN s /\ Tail(s)[a] = s[a + 1]
OBVIOUS

Requested == {"TestAuth", "RequestAuth"} \cup Requests
Replied == {"AuthValid"} \cup {AnswerTo[t] : t \in Requests}
Carried(types) == [type : types, note : 0..MaxNotes,
                   bodies : (SUBSET Entries) \ {{}}]

\* A list of keys has finitely many entries.
LEMMA SharedAreFinite ==
  ASSUME NEW ks \in KeyLists, NEW others
  PROVE  /\ EntriesOf(ks) \subseteq Entries
         /\ SharedEntries(ks, others) \subseteq EntriesOf(ks)
         /\ IsFiniteSet(SharedEntries(ks, others)) /\ Cardinality(SharedEntries(ks, others)) \in Nat
<1>1. PICK n \in 0..MaxKeys : ks \in [1..n -> Keys]
      BY DEF KeyLists
<1>2. MaxKeys \in Nat /\ n \in Nat /\ DOMAIN ks = 1..n
      BY <1>1, SessionAssumption
<1>3. IsFiniteSet(1..n)
      BY <1>2, FS_Interval
<1> DEFINE T == EntriesOf(ks)
           f == [p \in 1..n |-> <<p, ks[p]>>]
<1>4. f \in Surjection(1..n, T)
      BY <1>2 DEF EntriesOf, Surjection, Range
<1> HIDE DEF f, T
<1>5. IsFiniteSet(T)
      BY <1>3, <1>4, FS_Surjection
<1>6. IsFiniteSet(EntriesOf(ks))
      BY <1>5 DEF T
<1>7. SharedEntries(ks, others) \in SUBSET EntriesOf(ks)
      BY DEF SharedEntries
<1>8. EntriesOf(ks) \subseteq Entries
      BY <1>1, <1>2 DEF EntriesOf, Entries
<1> QED BY <1>6, <1>7, <1>8, FS_Subset, FS_CardinalityType

\* Lists of keys: the empty one, what is known from one, and what is shared by two.
LEMMA ListFacts ==
  ASSUME NEW ks \in KeyLists
  PROVE  /\ Known(ks) \subseteq Keys
         /\ ks # <<>> => EntriesOf(ks) # {}
         /\ \A k \in EntriesOf(ks) : k[2] \in Known(ks)
         /\ \A x \in Known(ks) : \E k \in EntriesOf(ks) : k[2] = x
         /\ <<>> \in KeyLists /\ Known(<<>>) = {}
<1>1. PICK n \in 0..MaxKeys : ks \in [1..n -> Keys]
      BY DEF KeyLists
<1>2. MaxKeys \in Nat /\ n \in Nat /\ DOMAIN ks = 1..n
      BY <1>1, SessionAssumption
<1>3. Known(ks) \subseteq Keys
      BY <1>1, <1>2 DEF Known
<1>4. ASSUME ks # <<>> PROVE EntriesOf(ks) # {}
  <2>1. n # 0
        BY <1>1, <1>2, <1>4
  <2>2. 1 \in DOMAIN ks
        BY <1>2, <2>1
  <2> QED BY <2>2 DEF EntriesOf
<1>5. \A k \in EntriesOf(ks) : k[2] \in Known(ks)
      BY DEF EntriesOf, Known
<1>a. ASSUME NEW x \in Known(ks) PROVE \E k \in EntriesOf(ks) : k[2] = x
  <2>1. PICK p \in DOMAIN ks : ks[p] = x
        BY <1>a DEF Known
  <2>2. <<p, ks[p]>> \in EntriesOf(ks) /\ <<p, ks[p]>>[2] = x
        BY <2>1 DEF EntriesOf
  <2> QED BY <2>2
<1>6. <<>> \in [1..0 -> Keys] /\ 0 \in 0..MaxKeys
      BY <1>2
<1>7. <<>> \in KeyLists
      BY <1>6 DEF KeyLists
<1>8. Known(<<>>) = {}
      BY DEF Known
<1> QED BY <1>3, <1>4, <1>5, <1>a, <1>7, <1>8

\* The types of the messages, spelt out.
LEMMA MessageTypes ==
  /\ Requests = {"Notification", "CopyData", "OpenURL"}
  /\ Requested = {"TestAuth", "RequestAuth", "Notification", "CopyData", "OpenURL"}
  /\ Replied = {"AuthValid", "NotificationDisplayed", "DataCopied", "URLOpened"}
  /\ Asked = [type : Requested, note : 0..MaxNotes]
  /\ Answered = [type : Replied, note : 0..MaxNotes]
  /\ OnTheWay(Asked) = Carried(Requested)
  /\ OnTheWay(Answered) = Carried(Replied)
  /\ \A t \in Requests : AnswerTo[t] \in Replied \ {"AuthValid"}
  /\ MaxNotes \in Nat \ {0}
<1>1. Requests = {"Notification", "CopyData", "OpenURL"}
      BY DEF Requests, AnswerTo
<1>2. {AnswerTo[t] : t \in Requests} = {"NotificationDisplayed", "DataCopied", "URLOpened"}
      BY <1>1 DEF AnswerTo
<1>3. Requested = {"TestAuth", "RequestAuth", "Notification", "CopyData", "OpenURL"}
      BY <1>1 DEF Requested
<1>4. Replied = {"AuthValid", "NotificationDisplayed", "DataCopied", "URLOpened"}
      BY <1>2 DEF Replied
<1>5. MaxNotes \in Nat \ {0}
      BY SessionAssumption
<1>6. ASSUME NEW types PROVE {m.type : m \in [type : types, note : 0..MaxNotes]} = types
  <2>1. \A t \in types : [type |-> t, note |-> 0] \in [type : types, note : 0..MaxNotes]
        BY <1>5
  <2>2. \A t \in types : [type |-> t, note |-> 0].type = t
        OBVIOUS
  <2> QED BY <2>1, <2>2
<1>7. Asked = [type : Requested, note : 0..MaxNotes] /\ Answered = [type : Replied, note : 0..MaxNotes]
      BY DEF Asked, Answered, Requested, Replied
<1>8. OnTheWay(Asked) = Carried(Requested) /\ OnTheWay(Answered) = Carried(Replied)
      BY <1>6, <1>7 DEF OnTheWay, Carried
<1>9. \A t \in Requests : AnswerTo[t] \in Replied \ {"AuthValid"}
      BY <1>1, <1>4 DEF AnswerTo
<1> QED BY <1>1, <1>3, <1>4, <1>5, <1>7, <1>8, <1>9

\* What is left once a body was taken: the first message is gone, or it is there
\* without that body.
LEMMA BodyTaken ==
  ASSUME NEW types, NEW q \in Seq(Carried(types)), q # <<>>, NEW k \in Head(q).bodies
  PROVE  /\ AfterBody(q, k) \in Seq(Carried(types))
         /\ Head(q) = q[1] /\ 1 \in DOMAIN q /\ q[1] \in Carried(types)
         /\ \E d \in {0, 1} : \A b \in DOMAIN AfterBody(q, k) :
              /\ b \in Nat \ {0} /\ b + d \in DOMAIN q
              /\ AfterBody(q, k)[b].type = q[b + d].type
              /\ AfterBody(q, k)[b].note = q[b + d].note
              /\ AfterBody(q, k)[b].bodies \subseteq q[b + d].bodies
              /\ b + d = 1 => k \notin AfterBody(q, k)[b].bodies
<1> DEFINE rest == Head(q).bodies \ {k}
           less == [Head(q) EXCEPT !.bodies = rest]
<1>1. /\ Tail(q) \in Seq(Carried(types)) /\ Head(q) \in Carried(types)
      /\ 1 \in DOMAIN q /\ Head(q) = q[1]
      /\ \A a \in DOMAIN Tail(q) : a \in Nat \ {0} /\ a + 1 \in DOMAIN q /\ Tail(q)[a] = q[a + 1]
      BY Shortened
<1>2. CASE rest = {}
  <2>1. AfterBody(q, k) = Tail(q)
        BY <1>2 DEF AfterBody
  <2>2. \A b \in DOMAIN AfterBody(q, k) :
              /\ b \in Nat \ {0} /\ b + 1 \in DOMAIN q
              /\ AfterBody(q, k)[b].type = q[b + 1].type
              /\ AfterBody(q, k)[b].note = q[b + 1].note
              /\ AfterBody(q, k)[b].bodies \subseteq q[b + 1].bodies
              /\ b + 1 = 1 => k \notin AfterBody(q, k)[b].bodies
        BY <1>1, <2>1
  <2> QED BY <1>1, <2>1, <2>2
<1>3. CASE rest # {}
  <2>1. AfterBody(q, k) = <<less>> \o Tail(q)
        BY <1>3 DEF AfterBody
  <2>2. less \in Carried(types)
        BY <1>1, <1>3 DEF Carried
  <2>a. less.bodies = rest /\ less.type = q[1].type /\ less.note = q[1].note
        BY <1>1 DEF Carried
  <2> HIDE DEF less
  <2>3. /\ <<less>> \o Tail(q) \in Seq(Carried(types))
        /\ DOMAIN (<<less>> \o Tail(q)) = DOMAIN q
        /\ (<<less>> \o Tail(q))[1] = less
        /\ \A b \in DOMAIN q \ {1} : (<<less>> \o Tail(q))[b] = q[b]
        BY <1>1, <2>2
  <2>4. \A b \in DOMAIN q : b \in Nat \ {0} /\ b + 0 = b
        OBVIOUS
  <2>5. \A b \in DOMAIN AfterBody(q, k) :
              /\ b \in Nat \ {0} /\ b + 0 \in DOMAIN q
              /\ AfterBody(q, k)[b].type = q[b + 0].type
              /\ AfterBody(q, k)[b].note = q[b + 0].note
              /\ AfterBody(q, k)[b].bodies \subseteq q[b + 0].bodies
              /\ b + 0 = 1 => k \notin AfterBody(q, k)[b].bodies
        BY <1>1, <2>1, <2>a, <2>3, <2>4
  <2> QED BY <1>1, <2>1, <2>3, <2>5
<1> QED BY <1>2, <1>3
-----------------------------------------------------------------------------
(* The steps on the sequences of the state *)

\* The types of the sequences, and of the introducers' keys.
LEMMA StateTypes ==
  ASSUME TypeOK
  PROVE  /\ out \in Seq(Asked) /\ in \in Seq(Answered)
         /\ inbox \in [Introducers -> Seq(Carried(Requested))]
         /\ wire \in Seq(Carried(Replied))
         /\ keys \in KeyLists /\ \A i \in Introducers : KeysOf[i] \in KeyLists
BY MessageTypes, SessionAssumption DEF TypeOK

\* The client reads a message.
LEMMA InTaken ==
  ASSUME TypeOK, TakeIn
  PROVE  /\ in' \in Seq(Answered) /\ Head(in) = in[1] /\ 1 \in DOMAIN in /\ in[1] \in Answered
         /\ \A a \in DOMAIN in' : a \in Nat \ {0} /\ a + 1 \in DOMAIN in /\ in'[a] = in[a + 1]
BY StateTypes, Shortened DEF TakeIn

\* The client sends a message.
LEMMA OutGrown ==
  ASSUME TypeOK, NEW m \in Asked, out' = Append(out, m)
  PROVE  /\ out' \in Seq(Asked) /\ Len(out) \in Nat
         /\ DOMAIN out = 1..Len(out) /\ DOMAIN out' = 1..(Len(out) + 1)
         /\ \A a \in DOMAIN out : out'[a] = out[a]
         /\ out'[Len(out) + 1] = m
BY StateTypes, Appended

\* A message is published: it leaves out, and is appended to every inbox.
LEMMA Published ==
  ASSUME TypeOK, Publish
  PROVE  /\ out' \in Seq(Asked) /\ Head(out) = out[1] /\ 1 \in DOMAIN out /\ out[1] \in Asked
         /\ \A a \in DOMAIN out' : a \in Nat \ {0} /\ a + 1 \in DOMAIN out /\ out'[a] = out[a + 1]
         /\ inbox' \in [Introducers -> Seq(Carried(Requested))]
         /\ \A i \in Introducers : \A b \in DOMAIN inbox'[i] :
              \/ b \in DOMAIN inbox[i] /\ inbox'[i][b] = inbox[i][b]
              \/ /\ b = Len(inbox[i]) + 1 /\ b \notin DOMAIN inbox[i]
                 /\ inbox'[i][b].type = out[1].type /\ inbox'[i][b].note = out[1].note
                 /\ inbox'[i][b].bodies = EntriesOf(keys)
<1>1. /\ out' \in Seq(Asked) /\ Head(out) = out[1] /\ 1 \in DOMAIN out /\ out[1] \in Asked
      /\ \A a \in DOMAIN out' : a \in Nat \ {0} /\ a + 1 \in DOMAIN out /\ out'[a] = out[a + 1]
      BY StateTypes, Shortened DEF Publish
<1>2. CASE keys = <<>>
  <2>1. inbox' = inbox
        BY <1>2 DEF Publish
  <2> QED BY <1>1, <2>1, StateTypes
<1>3. CASE keys # <<>>
  <2> DEFINE e == Bodies(out[1], keys)
  <2>1. inbox' = [i \in Introducers |-> Append(inbox[i], e)]
        BY <1>1, <1>3 DEF Publish
  <2>2. /\ e \in Carried(Requested)
        /\ e.type = out[1].type /\ e.note = out[1].note /\ e.bodies = EntriesOf(keys)
    <3>1. EntriesOf(keys) \in (SUBSET Entries) \ {{}}
          BY <1>3, StateTypes, SharedAreFinite, ListFacts
    <3> QED BY <1>1, <3>1, MessageTypes DEF Bodies, Carried
  <2> HIDE DEF e
  <2>3. \A i \in Introducers :
          /\ inbox[i] \in Seq(Carried(Requested)) /\ inbox'[i] = Append(inbox[i], e)
          /\ inbox'[i] \in Seq(Carried(Requested)) /\ Len(inbox[i]) \in Nat
          /\ DOMAIN inbox[i] = 1..Len(inbox[i]) /\ DOMAIN inbox'[i] = 1..(Len(inbox[i]) + 1)
          /\ \A b \in DOMAIN inbox[i] : inbox'[i][b] = inbox[i][b]
          /\ inbox'[i][Len(inbox[i]) + 1] = e
        BY <2>1, <2>2, StateTypes, Appended
  <2>4. inbox' \in [Introducers -> Seq(Carried(Requested))]
        BY <2>1, <2>3
  <2>5. \A i \in Introducers : \A b \in DOMAIN inbox'[i] :
           b \in DOMAIN inbox[i] \/ (b = Len(inbox[i]) + 1 /\ b \notin DOMAIN inbox[i])
        BY <2>3
  <2> QED BY <1>1, <2>2, <2>3, <2>4, <2>5
<1> QED BY <1>2, <1>3

\* An introducer takes a body.
LEMMA InboxTaken ==
  ASSUME TypeOK, NEW i \in Introducers, NEW k \in Entries, TakeBody(i, k)
  PROVE  /\ inbox' \in [Introducers -> Seq(Carried(Requested))]
         /\ Head(inbox[i]) = inbox[i][1] /\ 1 \in DOMAIN inbox[i]
         /\ inbox[i][1] \in Carried(Requested) /\ k \in inbox[i][1].bodies
         /\ \A j \in Introducers \ {i} : inbox'[j] = inbox[j]
         /\ \E d \in {0, 1} : \A b \in DOMAIN inbox'[i] :
              /\ b \in Nat \ {0} /\ b + d \in DOMAIN inbox[i]
              /\ inbox'[i][b].type = inbox[i][b + d].type
              /\ inbox'[i][b].note = inbox[i][b + d].note
              /\ inbox'[i][b].bodies \subseteq inbox[i][b + d].bodies
              /\ b + d = 1 => k \notin inbox'[i][b].bodies
<1>1. inbox[i] \in Seq(Carried(Requested)) /\ inbox[i] # <<>> /\ k \in Head(inbox[i]).bodies
      BY StateTypes DEF TakeBody, NextBody
<1>2. /\ inbox'[i] = AfterBody(inbox[i], k)
      /\ \A j \in Introducers \ {i} : inbox'[j] = inbox[j]
      /\ inbox' \in [Introducers -> Seq(Carried(Requested))]
      BY <1>1, StateTypes, BodyTaken DEF TakeBody
<1> QED BY <1>1, <1>2, BodyTaken

\* The client takes a body of an answer, and reads it if it has the key.
LEMMA Heard ==
  ASSUME TypeOK, NEW k \in Entries, Hear(k)
  PROVE  /\ wire' \in Seq(Carried(Replied)) /\ in' \in Seq(Answered)
         /\ 1 \in DOMAIN wire /\ wire[1] \in Carried(Replied) /\ k \in wire[1].bodies
         /\ \E d \in {0, 1} : \A b \in DOMAIN wire' :
              /\ b \in Nat \ {0} /\ b + d \in DOMAIN wire
              /\ wire'[b].type = wire[b + d].type
              /\ wire'[b].note = wire[b + d].note
              /\ wire'[b].bodies \subseteq wire[b + d].bodies
              /\ b + d = 1 => k \notin wire'[b].bodies
         /\ \A a \in DOMAIN in' :
              \/ a \in DOMAIN in /\ in'[a] = in[a]
              \/ /\ a = Len(in) + 1 /\ a \notin DOMAIN in /\ Readable(k, keys)
                 /\ in'[a].type = wire[1].type /\ in'[a].note = wire[1].note
<1>1. wire \in Seq(Carried(Replied)) /\ wire # <<>> /\ k \in Head(wire).bodies
      BY StateTypes DEF Hear, NextBody
<1>2. /\ wire' \in Seq(Carried(Replied)) /\ Head(wire) = wire[1]
      /\ 1 \in DOMAIN wire /\ wire[1] \in Carried(Replied) /\ k \in wire[1].bodies
      /\ \E d \in {0, 1} : \A b \in DOMAIN wire' :
              /\ b \in Nat \ {0} /\ b + d \in DOMAIN wire
              /\ wire'[b].type = wire[b + d].type
              /\ wire'[b].note = wire[b + d].note
              /\ wire'[b].bodies \subseteq wire[b + d].bodies
              /\ b + d = 1 => k \notin wire'[b].bodies
      BY <1>1, BodyTaken DEF Hear
<1>3. CASE ~Readable(k, keys)
  <2>1. in' = in
        BY <1>3 DEF Hear
  <2> QED BY <1>2, <2>1, StateTypes
<1>4. CASE Readable(k, keys)
  <2> DEFINE m == Message(wire[1].type, wire[1].note)
  <2>1. in' = Append(in, m)
        BY <1>2, <1>4 DEF Hear
  <2>2. m \in Answered /\ m.type = wire[1].type /\ m.note = wire[1].note
        BY <1>2, MessageTypes DEF Message, Carried
  <2> HIDE DEF m
  <2>3. /\ in' \in Seq(Answered) /\ Len(in) \in Nat
        /\ DOMAIN in = 1..Len(in) /\ DOMAIN in' = 1..(Len(in) + 1)
        /\ \A a \in DOMAIN in : in'[a] = in[a]
        /\ in'[Len(in) + 1] = m
        BY <2>1, <2>2, StateTypes, Appended
  <2>4. \A a \in DOMAIN in' : a \in DOMAIN in \/ (a = Len(in) + 1 /\ a \notin DOMAIN in)
        BY <2>3
  <2> QED BY <1>2, <1>4, <2>2, <2>3, <2>4
<1> QED BY <1>3, <1>4

\* An introducer answers, with a body for each entry of its list.
LEMMA WireGrown ==
  ASSUME TypeOK, NEW i \in Introducers, NEW k, Readable(k, KeysOf[i]), NEW m \in Answered,
         wire' = Append(wire, Bodies(m, KeysOf[i]))
  PROVE  /\ wire' \in Seq(Carried(Replied)) /\ Len(wire) \in Nat
         /\ DOMAIN wire = 1..Len(wire) /\ DOMAIN wire' = 1..(Len(wire) + 1)
         /\ \A b \in DOMAIN wire : wire'[b] = wire[b]
         /\ wire'[Len(wire) + 1].type = m.type /\ wire'[Len(wire) + 1].note = m.note
         /\ wire'[Len(wire) + 1].bodies = EntriesOf(KeysOf[i])
<1> DEFINE e == Bodies(m, KeysOf[i])
<1>1. /\ e \in Carried(Replied)
      /\ e.type = m.type /\ e.note = m.note /\ e.bodies = EntriesOf(KeysOf[i])
  <2>1. EntriesOf(KeysOf[i]) \in (SUBSET Entries) \ {{}}
        BY StateTypes, SharedAreFinite, ListFacts DEF Readable
  <2> QED BY <2>1, MessageTypes DEF Bodies, Carried
<1> HIDE DEF e
<1>2. wire' = Append(wire, e)
      BY DEF e
<1> QED BY <1>1, <1>2, StateTypes, Appended
-----------------------------------------------------------------------------
(* Types *)

\* A counter is raised.
LEMMA Raised ==
  ASSUME NEW S, NEW f \in [S -> Nat], NEW n, NEW c \in Nat
  PROVE  /\ [f EXCEPT ![n] = @ + c] \in [S -> Nat]
         /\ \A m \in S : [f EXCEPT ![n] = @ + c][m] = IF m = n THEN f[m] + c ELSE f[m]
<1>1. CASE n \in S
      BY <1>1
<1>2. CASE n \notin S
  <2>1. [f EXCEPT ![n] = @ + c] = f
        BY <1>2
  <2> QED BY <2>1, <1>2
<1> QED BY <1>1, <1>2

\* The command asks only while it has notifications left, or for the first time.
LEMMA AskedInTime ==
  ASSUME TypeOK, Notify \/ RemoteCopy \/ OpenURL
  PROVE  \E t \in Requests : Ask(t) /\ note + 1 \in Notes
BY MessageTypes DEF TypeOK, Notify, RemoteCopy, OpenURL, Notes

\* The command is done with a request.
LEMMA Settled ==
  ASSUME TypeOK, pc \in Requests, NEW r \in {"served", "unknown"}, Settle(r)
  PROVE  /\ result' \in [Notes -> {"none", "served", "unknown"}]
         /\ pc' \in {"ready", "ended"}
         /\ note \in Notes => result'[note] = r
         /\ \A n \in Notes \ {note} : result'[n] = result[n]
BY DEF TypeOK, Settle

\* The answers to a request are counted.
LEMMA Counted ==
  ASSUME TypeOK, NEW i \in Introducers, NEW k \in Entries, AnswerRequest(i, k)
  PROVE  LET n == inbox[i][1].note
             c == Cardinality(SharedEntries(KeysOf[i], keys))
         IN  /\ answers' \in [Notes -> Nat] /\ c \in Nat
             /\ \A m \in Notes : answers'[m] = IF m = n THEN answers[m] + c ELSE answers[m]
<1> DEFINE n == inbox[i][1].note
           c == Cardinality(SharedEntries(KeysOf[i], keys))
<1>1. answers' = [answers EXCEPT ![n] = @ + c] /\ answers \in [Notes -> Nat]
      BY InboxTaken DEF AnswerRequest, TypeOK
<1>2. c \in Nat
      BY StateTypes, SharedAreFinite
<1> HIDE DEF n, c
<1>3. /\ answers' \in [Notes -> Nat]
      /\ \A m \in Notes : answers'[m] = IF m = n THEN answers[m] + c ELSE answers[m]
      BY <1>1, <1>2, Raised
<1> QED BY <1>2, <1>3 DEF n, c

\* A served request is counted.
LEMMA ServedIsCounted ==
  ASSUME TypeOK, NEW i \in Introducers, NEW k \in Entries, Serve(i, k)
  PROVE  LET n == inbox[i][1].note
         IN  /\ shown' \in [Introducers -> [Notes -> Nat]]
             /\ \A j \in Introducers, m \in Notes :
                  shown'[j][m] = IF j = i /\ m = n THEN shown[j][m] + 1 ELSE shown[j][m]
<1> DEFINE n == inbox[i][1].note
           f == [shown[i] EXCEPT ![n] = @ + 1]
<1>1. shown' = [shown EXCEPT ![i] = f] /\ shown \in [Introducers -> [Notes -> Nat]]
      BY InboxTaken DEF Serve, AnswerRequest, TypeOK
<1>2. /\ f \in [Notes -> Nat]
      /\ \A m \in Notes : f[m] = IF m = n THEN shown[i][m] + 1 ELSE shown[i][m]
  <2> DEFINE g == shown[i]
             one == 1
  <2>1. g \in [Notes -> Nat] /\ one \in Nat /\ f = [g EXCEPT ![n] = @ + one]
        BY <1>1
  <2> HIDE DEF g, f, n, one
  <2>2. f \in [Notes -> Nat] /\ \A m \in Notes : f[m] = IF m = n THEN g[m] + one ELSE g[m]
        BY <2>1, Raised
  <2> QED BY <2>2 DEF g, one
<1> HIDE DEF f, n
<1>3. /\ shown' \in [Introducers -> [Notes -> Nat]]
      /\ shown'[i] = f /\ \A j \in Introducers \ {i} : shown'[j] = shown[j]
      BY <1>1, <1>2
<1>4. \A j \in Introducers, m \in Notes :
        shown'[j][m] = IF j = i /\ m = n THEN shown[j][m] + 1 ELSE shown[j][m]
      BY <1>2, <1>3
<1> QED BY <1>3, <1>4 DEF n

\* A request that is answered is one that was sent, and the answer one the client
\* may get.
LEMMA AnswerIsSent ==
  ASSUME TypeOK, NEW i \in Introducers, NEW k \in Entries, AnswerRequest(i, k)
  PROVE  LET h == inbox[i][1]
             m == Message(AnswerTo[h.type], h.note)
         IN  /\ h = Head(inbox[i]) /\ h.type \in Requests /\ h \in Carried(Requested)
             /\ k \in h.bodies /\ 1 \in DOMAIN inbox[i] /\ TakeBody(i, k)
             /\ Readable(k, KeysOf[i])
             /\ m \in Answered /\ m.type # "AuthValid" /\ m.note = h.note
             /\ wire' = Append(wire, Bodies(m, KeysOf[i]))
<1>1. TakeBody(i, k) /\ Readable(k, KeysOf[i]) /\ Head(inbox[i]).type \in Requests
      BY DEF AnswerRequest
<1>2. /\ Head(inbox[i]) = inbox[i][1] /\ inbox[i][1] \in Carried(Requested)
      /\ k \in inbox[i][1].bodies /\ 1 \in DOMAIN inbox[i]
      BY <1>1, InboxTaken
<1>3. wire' = Append(wire, Bodies(Message(AnswerTo[inbox[i][1].type], inbox[i][1].note), KeysOf[i]))
      BY <1>2 DEF AnswerRequest
<1>4. inbox[i][1].note \in 0..MaxNotes /\ AnswerTo[inbox[i][1].type] \in Replied \ {"AuthValid"}
      BY <1>1, <1>2, MessageTypes DEF Carried
<1> QED BY <1>1, <1>2, <1>3, <1>4, MessageTypes DEF Message

LEMMA TypeStep ==
  ASSUME TypeOK, [Next]_vars
  PROVE  TypeOK'
<1> USE StateTypes, MessageTypes
<1>1. CASE RequestKey
  <2>1. out' \in Seq(Asked)
        BY <1>1, OutGrown DEF RequestKey, Message
  <2>2. prompts' \in 0..MaxPrompts
        BY <1>1, SessionAssumption DEF RequestKey, TypeOK
  <2> QED BY <1>1, <2>1, <2>2, ListFacts DEF RequestKey, TypeOK, historyVars
<1>2. ASSUME NEW ks \in KeyLists, EnterKeys(ks) PROVE TypeOK'
  <2>1. out' \in Seq(Asked)
    <3>1. TestAuth \in Asked
          BY DEF TestAuth, Message
    <3> QED BY <1>2, <3>1, OutGrown DEF EnterKeys
  <2> QED BY <1>2, <2>1, ListFacts DEF EnterKeys, TypeOK, historyVars
<1>3. CASE EnterNone
      BY <1>3 DEF EnterNone, TypeOK, historyVars
<1>4. CASE ReadTesting
  <2>1. in' \in Seq(Answered)
        BY <1>4, InTaken DEF ReadTesting
  <2> QED BY <1>4, <2>1 DEF ReadTesting, TakeIn, TypeOK, historyVars
<1>5. CASE TestTimesOut
      BY <1>5 DEF TestTimesOut, TypeOK, historyVars
<1>6. CASE Notify \/ RemoteCopy \/ OpenURL
  <2>1. PICK t \in Requests : Ask(t) /\ note + 1 \in Notes
        BY <1>6, AskedInTime
  <2>2. Message(t, note + 1) \in Asked /\ out' = Append(out, Message(t, note + 1))
        BY <2>1 DEF Message, Ask, Notes
  <2>3. out' \in Seq(Asked)
        BY <2>2, OutGrown
  <2>4. note' \in 0..MaxNotes /\ pc' \in Requests
        BY <2>1 DEF Ask, Notes
  <2> QED BY <2>1, <2>3, <2>4 DEF Ask, TypeOK, historyVars
<1>7. CASE ReadAnswer
  <2>1. in' \in Seq(Answered)
        BY <1>7, InTaken DEF ReadAnswer
  <2>2. pc' \in {"ready", "ended"} \cup Requests /\ result' \in [Notes -> {"none", "served", "unknown"}]
        BY <1>7, Settled DEF ReadAnswer, TypeOK
  <2> QED BY <1>7, <2>1, <2>2 DEF ReadAnswer, TakeIn, TypeOK, historyVars
<1>8. CASE AnswerTimesOut
  <2>1. pc' \in {"ready", "ended"} /\ result' \in [Notes -> {"none", "served", "unknown"}]
        BY <1>8, Settled DEF AnswerTimesOut
  <2> QED BY <1>8, <2>1 DEF AnswerTimesOut, TypeOK, historyVars
<1>9. CASE Publish
      BY <1>9, Published DEF Publish, TypeOK, clientVars, historyVars
<1>10. ASSUME NEW i \in Introducers, NEW k \in Entries, Skip(i, k) PROVE TypeOK'
  <2>1. inbox' \in [Introducers -> Seq(Carried(Requested))]
        BY <1>10, InboxTaken DEF Skip
  <2> QED BY <1>10, <2>1 DEF Skip, TakeBody, TypeOK, clientVars, historyVars
<1>11. ASSUME NEW i \in Introducers, NEW k \in Entries, AnswerTest(i, k) PROVE TypeOK'
  <2>1. inbox' \in [Introducers -> Seq(Carried(Requested))]
        BY <1>11, InboxTaken DEF AnswerTest
  <2>2. Message("AuthValid", 0) \in Answered
        BY DEF Message
  <2>3. wire' \in Seq(Carried(Replied))
        BY <1>11, <2>2, WireGrown DEF AnswerTest
  <2> QED BY <1>11, <2>1, <2>3 DEF AnswerTest, TakeBody, TypeOK, clientVars, historyVars
<1>12. ASSUME NEW i \in Introducers, NEW k \in Entries, Serve(i, k) \/ ServeInVain(i, k) PROVE TypeOK'
  <2> DEFINE h == inbox[i][1]
             m == Message(AnswerTo[h.type], h.note)
  <2>1. AnswerRequest(i, k)
        BY <1>12 DEF Serve, ServeInVain
  <2>2. /\ h = Head(inbox[i]) /\ h.type \in Requests /\ TakeBody(i, k) /\ Readable(k, KeysOf[i])
        /\ m \in Answered /\ wire' = Append(wire, Bodies(m, KeysOf[i]))
        BY <2>1, AnswerIsSent
  <2> HIDE DEF m
  <2>3. wire' \in Seq(Carried(Replied))
        BY <2>2, WireGrown
  <2>4. inbox' \in [Introducers -> Seq(Carried(Requested))] /\ h \in Carried(Requested)
        BY <2>2, InboxTaken
  <2>5. answers' \in [Notes -> Nat]
        BY <2>1, Counted
  <2>6. shown' \in [Introducers -> [Notes -> Nat]]
        BY <1>12, ServedIsCounted DEF ServeInVain, TypeOK
  <2>7. failed' \subseteq [type : Requests, note : 0..MaxNotes]
        BY <1>12, <2>2, <2>4 DEF Serve, ServeInVain, TypeOK, Message, Carried
  <2> QED BY <2>2, <2>3, <2>4, <2>5, <2>6, <2>7 DEF TakeBody, TypeOK, clientVars
<1>13. ASSUME NEW k \in Entries, Hear(k) PROVE TypeOK'
      BY <1>13, Heard DEF Hear, TypeOK, clientVars, historyVars
<1>14. CASE UNCHANGED vars
      BY <1>14 DEF vars, TypeOK
<1> QED BY <1>1, <1>2, <1>3, <1>4, <1>5, <1>6, <1>7, <1>8, <1>9, <1>10, <1>11, <1>12, <1>13,
           <1>14 DEF Next
-----------------------------------------------------------------------------
(* The keys that were tested *)

LEMMA TestsStep ==
  ASSUME TypeOK, TestsAreTested, GoesOnWithAGoodKey, [Next]_vars
  PROVE  TestsAreTested' /\ GoesOnWithAGoodKey'
<1> USE DEF GoodKeyTested
<1>a. Requests = {"Notification", "CopyData", "OpenURL"}
      BY MessageTypes
<1>1. CASE RequestKey
  <2> DEFINE m == Message("RequestAuth", 0)
  <2>1. m \in Asked /\ out' = Append(out, m) /\ m.type = "RequestAuth"
        BY <1>1, MessageTypes DEF RequestKey, Message
  <2>2. \A a \in DOMAIN out' : out'[a].type = "TestAuth" => checkKey
        BY <2>1, OutGrown DEF TestsAreTested
  <2>3. TestsAreTested'
        BY <1>1, <2>2, ListFacts, StateTypes DEF RequestKey, TestsAreTested
  <2> QED BY <1>1, <1>a, <2>3 DEF RequestKey, GoesOnWithAGoodKey
<1>2. ASSUME NEW ks \in KeyLists, EnterKeys(ks)
      PROVE  TestsAreTested' /\ GoesOnWithAGoodKey'
  <2>1. CASE checkKey
    <3>1. TestAuth \in Asked /\ out' = Append(out, TestAuth) /\ checkKey'
          BY <1>2, <2>1, MessageTypes DEF EnterKeys, TestAuth, Message
    <3>2. \A a \in DOMAIN out' : out'[a].type = "TestAuth" => checkKey'
          BY <3>1
    <3>3. TestsAreTested'
          BY <1>2, <2>1, <3>2 DEF EnterKeys, TestsAreTested
    <3> QED BY <1>2, <2>1, <1>a, <3>3 DEF EnterKeys, GoesOnWithAGoodKey
  <2>2. CASE ~checkKey
        BY <1>2, <2>2 DEF EnterKeys, TestsAreTested, GoesOnWithAGoodKey
  <2> QED BY <2>1, <2>2
<1>3. CASE EnterNone \/ TestTimesOut
  <2>1. TestsAreTested'
        BY <1>3 DEF EnterNone, TestTimesOut, TestsAreTested
  <2> QED BY <1>3, <1>a, <2>1 DEF EnterNone, TestTimesOut, GoesOnWithAGoodKey
<1>4. CASE ReadTesting
  <2>1. Head(in) = in[1] /\ 1 \in DOMAIN in
        /\ \A a \in DOMAIN in' : a + 1 \in DOMAIN in /\ in'[a] = in[a + 1]
        BY <1>4, InTaken DEF ReadTesting
  <2>2. TestsAreTested'
        BY <1>4, <2>1 DEF ReadTesting, TakeIn, TestsAreTested
  <2>3. Head(in).type = "AuthValid" => GoodKeyTested
        BY <2>1 DEF TestsAreTested
  <2>4. UNCHANGED <<tested, checkKey>>
        /\ (Head(in).type = "AuthValid" \/ UNCHANGED <<pc, stored>>)
        BY <1>4 DEF ReadTesting, TakeIn
  <2> QED BY <2>2, <2>3, <2>4, <1>a DEF GoesOnWithAGoodKey
<1>5. CASE Notify \/ RemoteCopy \/ OpenURL
  <2>1. PICK t \in Requests : Ask(t) /\ note + 1 \in Notes
        BY <1>5, AskedInTime
  <2> DEFINE m == Message(t, note + 1)
  <2>2. m \in Asked /\ out' = Append(out, m) /\ m.type # "TestAuth"
        BY <2>1, MessageTypes DEF Message, Ask, Notes
  <2>3. \A a \in DOMAIN out' : out'[a].type = "TestAuth" => checkKey
        BY <2>2, OutGrown DEF TestsAreTested
  <2>4. TestsAreTested'
        BY <2>1, <2>3, <1>a DEF Ask, TestsAreTested
  <2> QED BY <2>1, <2>4, <1>a DEF Ask, GoesOnWithAGoodKey
<1>6. CASE ReadAnswer
  <2>1. \A a \in DOMAIN in' : a + 1 \in DOMAIN in /\ in'[a] = in[a + 1]
        BY <1>6, InTaken DEF ReadAnswer
  <2>2. pc \in Requests /\ pc' \in {"ready", "ended"} \cup Requests /\ UNCHANGED <<tested, checkKey, stored>>
        BY <1>6, Settled DEF ReadAnswer, TakeIn
  <2>3. TestsAreTested'
        BY <1>6, <1>a, <2>1, <2>2 DEF ReadAnswer, TakeIn, TestsAreTested
  <2> QED BY <2>2, <2>3 DEF GoesOnWithAGoodKey
<1>7. CASE AnswerTimesOut
  <2>1. pc \in Requests /\ pc' \in {"ready", "ended"}
        BY <1>7, Settled DEF AnswerTimesOut
  <2>2. TestsAreTested'
        BY <1>7, <1>a, <2>1 DEF AnswerTimesOut, TestsAreTested
  <2> QED BY <1>7, <2>1, <2>2 DEF AnswerTimesOut, GoesOnWithAGoodKey
<1>8. CASE Publish
  <2>1. \A a \in DOMAIN out' : out'[a].type = "TestAuth" => checkKey
        BY <1>8, Published DEF TestsAreTested
  <2>a. checkKey => \A k \in EntriesOf(keys) : k[2] \in tested
        BY StateTypes, ListFacts DEF TestsAreTested
  <2>2. \A i \in Introducers : \A b \in DOMAIN inbox'[i] :
          inbox'[i][b].type = "TestAuth" => \A k \in inbox'[i][b].bodies : k[2] \in tested
        BY <1>8, <2>a, Published DEF TestsAreTested
  <2>3. TestsAreTested'
        BY <1>8, <2>1, <2>2 DEF Publish, clientVars, TestsAreTested
  <2> QED BY <1>8, <2>3 DEF Publish, clientVars, GoesOnWithAGoodKey
<1>9. ASSUME NEW i \in Introducers, NEW k \in Entries, TakeBody(i, k)
      PROVE  /\ \A j \in Introducers : \A b \in DOMAIN inbox'[j] :
                  inbox'[j][b].type = "TestAuth" => \A l \in inbox'[j][b].bodies : l[2] \in tested
             /\ UNCHANGED <<out, in, tested, checkKey, keys, pc>>
             /\ GoesOnWithAGoodKey'
  <2>a. \A b \in DOMAIN inbox'[i] : \E c \in DOMAIN inbox[i] :
          inbox'[i][b].type = inbox[i][c].type /\ inbox'[i][b].bodies \subseteq inbox[i][c].bodies
        BY <1>9, InboxTaken
  <2>1. \A b \in DOMAIN inbox'[i] :
          inbox'[i][b].type = "TestAuth" => \A l \in inbox'[i][b].bodies : l[2] \in tested
        BY <2>a DEF TestsAreTested
  <2>2. \A j \in Introducers \ {i} : inbox'[j] = inbox[j]
        BY <1>9, InboxTaken
  <2> QED BY <1>9, <2>1, <2>2 DEF TakeBody, clientVars, TestsAreTested, GoesOnWithAGoodKey
<1>10. ASSUME NEW i \in Introducers, NEW k \in Entries, Skip(i, k)
       PROVE  TestsAreTested' /\ GoesOnWithAGoodKey'
      BY <1>10, <1>9 DEF Skip, TestsAreTested
<1>11. ASSUME NEW i \in Introducers, NEW k \in Entries, AnswerTest(i, k)
       PROVE  TestsAreTested' /\ GoesOnWithAGoodKey'
  <2> DEFINE m == Message("AuthValid", 0)
  <2>1. m \in Answered /\ wire' = Append(wire, Bodies(m, KeysOf[i])) /\ Readable(k, KeysOf[i])
        BY <1>11, MessageTypes DEF AnswerTest, Message
  <2>2. GoodKeyTested
    <3>1. k \in inbox[i][1].bodies /\ 1 \in DOMAIN inbox[i] /\ inbox[i][1].type = "TestAuth"
          BY <1>11, InboxTaken DEF AnswerTest
    <3>2. k[2] \in tested /\ k[2] \in Known(KeysOf[i])
          BY <2>1, <3>1 DEF TestsAreTested, Readable
    <3> QED BY <3>2
  <2>3. \A b \in DOMAIN wire' : wire'[b].type = "AuthValid" => GoodKeyTested
        BY <2>2
  <2> QED BY <1>11, <1>9, <2>3 DEF AnswerTest, TestsAreTested
<1>12. ASSUME NEW i \in Introducers, NEW k \in Entries, Serve(i, k) \/ ServeInVain(i, k)
       PROVE  TestsAreTested' /\ GoesOnWithAGoodKey'
  <2> DEFINE h == inbox[i][1]
             m == Message(AnswerTo[h.type], h.note)
  <2>a. AnswerRequest(i, k)
        BY <1>12 DEF Serve, ServeInVain
  <2>1. /\ m \in Answered /\ m.type # "AuthValid" /\ TakeBody(i, k) /\ Readable(k, KeysOf[i])
        /\ wire' = Append(wire, Bodies(m, KeysOf[i]))
        BY <2>a, AnswerIsSent
  <2> HIDE DEF m
  <2>2. \A b \in DOMAIN wire' : wire'[b].type = "AuthValid" => GoodKeyTested
    <3> HIDE DEF GoodKeyTested
    <3>1. /\ Len(wire) \in Nat
          /\ DOMAIN wire = 1..Len(wire) /\ DOMAIN wire' = 1..(Len(wire) + 1)
          /\ \A b \in DOMAIN wire : wire'[b] = wire[b]
          /\ wire'[Len(wire) + 1].type # "AuthValid"
          BY <2>1, WireGrown
    <3>2. \A b \in DOMAIN wire : wire[b].type = "AuthValid" => GoodKeyTested
          BY DEF TestsAreTested
    <3> QED BY <3>1, <3>2
  <2> QED BY <2>1, <1>9, <2>2 DEF TestsAreTested
<1>13. ASSUME NEW k \in Entries, Hear(k)
       PROVE  TestsAreTested' /\ GoesOnWithAGoodKey'
  <2>1. \A b \in DOMAIN wire' : wire'[b].type = "AuthValid" => GoodKeyTested
        BY <1>13, Heard DEF TestsAreTested
  <2>2. \A a \in DOMAIN in' : in'[a].type = "AuthValid" => GoodKeyTested
        BY <1>13, Heard DEF TestsAreTested
  <2> QED BY <1>13, <2>1, <2>2 DEF Hear, clientVars, TestsAreTested, GoesOnWithAGoodKey
<1>14. CASE UNCHANGED vars
      BY <1>14 DEF vars, TestsAreTested, GoesOnWithAGoodKey
<1> QED BY <1>1, <1>2, <1>3, <1>4, <1>5, <1>6, <1>7, <1>8, <1>10, <1>11, <1>12, <1>13,
           <1>14 DEF Next
-----------------------------------------------------------------------------
(* The requests on their way *)

\* Before the key is settled there are no requests.
LEMMA NothingSent ==
  ASSUME TypeOK, RequestsInOrder, RequestsAreUnique, ~GoneOn
  PROVE  /\ note = 0
         /\ \A a \in DOMAIN out : out[a].type \notin Requests
         /\ \A i \in Introducers : \A b \in DOMAIN inbox[i] : inbox[i][b].type \notin Requests
<1>1. note = 0
      BY MessageTypes DEF TypeOK, RequestsInOrder
<1> QED BY <1>1 DEF RequestsAreUnique

LEMMA OrderStep ==
  ASSUME TypeOK, RequestsInOrder, RequestsAreUnique, [Next]_vars
  PROVE  RequestsInOrder'
<1> USE DEF GoneOn
<1>a. Requests = {"Notification", "CopyData", "OpenURL"} /\ note \in Nat /\ Notes \subseteq Nat \ {0}
      BY MessageTypes DEF TypeOK, Notes
<1>1. CASE RequestKey
      BY <1>1, <1>a DEF RequestKey, historyVars, RequestsInOrder
<1>2. ASSUME NEW ks \in KeyLists, EnterKeys(ks) PROVE RequestsInOrder'
      BY <1>2, <1>a DEF EnterKeys, historyVars, RequestsInOrder
<1>3. CASE EnterNone \/ TestTimesOut
      BY <1>3, <1>a DEF EnterNone, TestTimesOut, historyVars, RequestsInOrder
<1>4. CASE ReadTesting
      BY <1>4, <1>a DEF ReadTesting, TakeIn, historyVars, RequestsInOrder
<1>5. CASE Notify \/ RemoteCopy \/ OpenURL
  <2>1. PICK t \in Requests : Ask(t) /\ note + 1 \in Notes
        BY <1>5, AskedInTime
  <2> QED BY <2>1, <1>a DEF Ask, historyVars, RequestsInOrder
<1>6. CASE ReadAnswer \/ AnswerTimesOut
  <2>1. UNCHANGED <<note, answers>>
        BY <1>6 DEF ReadAnswer, AnswerTimesOut, TakeIn, historyVars
  <2>2. CASE UNCHANGED <<pc, result>>
        BY <2>1, <2>2 DEF RequestsInOrder
  <2>3. ASSUME NEW r \in {"served", "unknown"}, Settle(r), pc \in Requests PROVE RequestsInOrder'
    <3>1. note \in Notes
          BY <2>3 DEF RequestsInOrder
    <3>2. pc' \in {"ready", "ended"} /\ result'[note] = r /\ \A n \in Notes \ {note} : result'[n] = result[n]
          BY <2>3, <3>1, Settled
    <3> QED BY <2>1, <2>3, <3>1, <3>2, <1>a DEF RequestsInOrder
  <2> QED BY <1>6, <2>2, <2>3 DEF ReadAnswer, AnswerTimesOut
<1>b. ASSUME UNCHANGED <<note, pc, result, answers>> PROVE RequestsInOrder'
      BY <1>b DEF RequestsInOrder
<1>7. CASE Publish
      BY <1>7, <1>b DEF Publish, clientVars, historyVars
<1>8. ASSUME NEW i \in Introducers, NEW k \in Entries, AnswerRequest(i, k) PROVE RequestsInOrder'
  <2> DEFINE n == inbox[i][1].note
  <2>0. TakeBody(i, k) /\ inbox[i][1].type \in Requests /\ 1 \in DOMAIN inbox[i]
        BY <1>8, AnswerIsSent
  <2>1. n \in 1..note
        BY <2>0 DEF RequestsAreUnique
  <2>2. \A m \in Notes : m # n => answers'[m] = answers[m]
        BY <1>8, Counted
  <2>3. UNCHANGED <<note, pc, result>>
        BY <2>0 DEF TakeBody, clientVars
  <2> QED BY <2>1, <2>2, <2>3, <1>a DEF RequestsInOrder
<1>9. ASSUME NEW i \in Introducers, NEW k \in Entries, Skip(i, k) \/ AnswerTest(i, k)
      PROVE  RequestsInOrder'
      BY <1>9, <1>b DEF Skip, AnswerTest, TakeBody, clientVars, historyVars
<1>10. ASSUME NEW k \in Entries, Hear(k) PROVE RequestsInOrder'
      BY <1>10, <1>b DEF Hear, clientVars, historyVars
<1>11. CASE UNCHANGED vars
      BY <1>11, <1>b DEF vars
<1> QED BY <1>1, <1>2, <1>3, <1>4, <1>5, <1>6, <1>7, <1>8, <1>9, <1>10, <1>11
        DEF Next, Serve, ServeInVain

LEMMA UniqueStep ==
  ASSUME TypeOK, RequestsInOrder, RequestsAreUnique, [Next]_vars
  PROVE  RequestsAreUnique'
<1> USE DEF SentOut
<1>a. Requests = {"Notification", "CopyData", "OpenURL"} /\ note \in Nat
      BY MessageTypes DEF TypeOK
<1>1. ASSUME NEW m \in Asked, m.type \notin Requests, out' = Append(out, m), ~GoneOn,
             UNCHANGED <<inbox, note>>
      PROVE  RequestsAreUnique'
  <2>1. /\ \A a \in DOMAIN out' : out'[a].type \notin Requests
        /\ \A i \in Introducers : \A b \in DOMAIN inbox[i] : inbox[i][b].type \notin Requests
        BY <1>1, NothingSent, OutGrown
  <2> QED BY <1>1, <2>1 DEF RequestsAreUnique
<1>2. ASSUME ~GoneOn, UNCHANGED <<out, inbox, note>>
      PROVE  RequestsAreUnique'
      BY <1>2, NothingSent DEF RequestsAreUnique
<1>3. ASSUME UNCHANGED <<out, inbox, note, keys>>
      PROVE  RequestsAreUnique'
      BY <1>3 DEF RequestsAreUnique
<1>4. CASE RequestKey
  <2>1. Message("RequestAuth", 0) \in Asked /\ Message("RequestAuth", 0).type \notin Requests
        BY MessageTypes DEF Message
  <2> QED BY <1>4, <1>1, <1>a, <2>1 DEF RequestKey, GoneOn
<1>5. ASSUME NEW ks \in KeyLists, EnterKeys(ks) PROVE RequestsAreUnique'
  <2>1. TestAuth \in Asked /\ TestAuth.type \notin Requests
        BY MessageTypes DEF Message, TestAuth
  <2> QED BY <1>5, <1>1, <1>2, <1>a, <2>1 DEF EnterKeys, GoneOn
<1>6. CASE EnterNone \/ ReadTesting \/ TestTimesOut \/ ReadAnswer \/ AnswerTimesOut
  <2>1. UNCHANGED <<out, inbox, note, keys>>
        BY <1>6 DEF EnterNone, ReadTesting, TestTimesOut, ReadAnswer, AnswerTimesOut, TakeIn
  <2> QED BY <1>3, <2>1
<1>7. CASE Notify \/ RemoteCopy \/ OpenURL
  <2>1. PICK t \in Requests : Ask(t) /\ note + 1 \in Notes
        BY <1>7, AskedInTime
  <2> DEFINE m == Message(t, note + 1)
  <2>2. /\ m \in Asked /\ out' = Append(out, m) /\ m.type \in Requests /\ m.note = note + 1
        /\ note' = note + 1 /\ UNCHANGED <<inbox, keys>>
        BY <2>1, MessageTypes DEF Message, Ask, Notes
  <2> HIDE DEF m
  <2>3. /\ DOMAIN out = 1..Len(out) /\ DOMAIN out' = 1..(Len(out) + 1) /\ Len(out) \in Nat
        /\ \A a \in DOMAIN out : out'[a] = out[a]
        /\ out'[Len(out) + 1] = m
        BY <2>2, OutGrown
  <2>4. \A a \in DOMAIN out' : a \in DOMAIN out \/ a = Len(out) + 1
        BY <2>3
  <2>5. \A a \in DOMAIN out' : out'[a].type \in Requests => out'[a].note \in 1..note'
        BY <2>2, <2>3, <2>4, <1>a DEF RequestsAreUnique
  <2>6. \A a, c \in DOMAIN out' :
          out'[a].type \in Requests /\ out'[c].type \in Requests /\ out'[a].note = out'[c].note => a = c
        BY <2>2, <2>3, <2>4, <1>a DEF RequestsAreUnique
  <2>7. ASSUME NEW i \in Introducers, NEW b \in DOMAIN inbox[i], inbox[i][b].type \in Requests
        PROVE  /\ inbox[i][b].note \in 1..note' /\ ~SentOut(inbox[i][b].note)'
    <3>1. inbox[i][b].note \in 1..note /\ ~SentOut(inbox[i][b].note)
          BY <2>7 DEF RequestsAreUnique
    <3>2. inbox'[i][b] = inbox[i][b]
          BY <2>2
    <3> QED BY <3>1, <3>2, <2>2, <2>3, <2>4, <1>a
  <2> QED BY <2>2, <2>5, <2>6, <2>7 DEF RequestsAreUnique
<1>8. CASE Publish
  <2> DEFINE n == out[1].note
  <2>1. /\ 1 \in DOMAIN out /\ UNCHANGED <<keys, note>>
        /\ \A a \in DOMAIN out' : a \in Nat \ {0} /\ a + 1 \in DOMAIN out /\ out'[a] = out[a + 1]
        BY <1>8, Published DEF Publish, clientVars
  <2>2. \A a \in DOMAIN out' : out'[a].type \in Requests => out'[a].note \in 1..note'
        BY <2>1 DEF RequestsAreUnique
  <2>3. \A a, c \in DOMAIN out' :
          out'[a].type \in Requests /\ out'[c].type \in Requests /\ out'[a].note = out'[c].note => a = c
        BY <2>1 DEF RequestsAreUnique
  <2>4. \A l : (\E a \in DOMAIN out' : out'[a].type \in Requests /\ out'[a].note = l) => SentOut(l)
        BY <2>1
  <2>5. out[1].type \in Requests =>
          /\ n \in 1..note /\ SentOut(n)
          /\ ~\E a \in DOMAIN out' : out'[a].type \in Requests /\ out'[a].note = n
    <3>1. ASSUME out[1].type \in Requests,
                 NEW a \in DOMAIN out', out'[a].type \in Requests, out'[a].note = n
          PROVE  FALSE
      <4>1. a + 1 = 1
            BY <2>1, <3>1 DEF RequestsAreUnique
      <4> QED BY <2>1, <4>1
    <3> QED BY <2>1, <3>1 DEF RequestsAreUnique
  <2>6. ASSUME NEW i \in Introducers, NEW b \in DOMAIN inbox'[i], inbox'[i][b].type \in Requests
        PROVE  /\ inbox'[i][b].note \in 1..note
               /\ ~\E a \in DOMAIN out' : out'[a].type \in Requests /\ out'[a].note = inbox'[i][b].note
               /\ inbox'[i][b].bodies \subseteq EntriesOf(keys)
        BY <1>8, <2>1, <2>4, <2>5, <2>6, Published DEF RequestsAreUnique
  <2>7. ASSUME NEW i \in Introducers, NEW b \in DOMAIN inbox'[i], NEW c \in DOMAIN inbox'[i],
               inbox'[i][b].type \in Requests, inbox'[i][c].type \in Requests,
               inbox'[i][c].note = inbox'[i][b].note
        PROVE  b = c
        BY <1>8, <2>1, <2>5, <2>7, Published DEF RequestsAreUnique
  <2> QED BY <2>1, <2>2, <2>3, <2>6, <2>7 DEF RequestsAreUnique
<1>9. ASSUME NEW i \in Introducers, NEW k \in Entries, TakeBody(i, k) PROVE RequestsAreUnique'
  <2>1. UNCHANGED <<out, note, keys>> /\ \A j \in Introducers \ {i} : inbox'[j] = inbox[j]
        BY <1>9, InboxTaken DEF TakeBody, clientVars
  <2>2. PICK d \in {0, 1} : \A b \in DOMAIN inbox'[i] :
          /\ b \in Nat \ {0} /\ b + d \in DOMAIN inbox[i]
          /\ inbox'[i][b].type = inbox[i][b + d].type
          /\ inbox'[i][b].note = inbox[i][b + d].note
          /\ inbox'[i][b].bodies \subseteq inbox[i][b + d].bodies
        BY <1>9, InboxTaken
  <2>3. ASSUME NEW b \in DOMAIN inbox'[i], inbox'[i][b].type \in Requests
        PROVE  /\ inbox'[i][b].note \in 1..note /\ ~SentOut(inbox'[i][b].note)
               /\ inbox'[i][b].bodies \subseteq EntriesOf(keys)
    <3> DEFINE c == b + d
    <3>1. /\ c \in DOMAIN inbox[i] /\ inbox'[i][b].type = inbox[i][c].type
          /\ inbox'[i][b].note = inbox[i][c].note /\ inbox'[i][b].bodies \subseteq inbox[i][c].bodies
          BY <2>2
    <3> HIDE DEF c
    <3> QED BY <2>3, <3>1 DEF RequestsAreUnique
  <2>4. ASSUME NEW b \in DOMAIN inbox'[i], NEW c \in DOMAIN inbox'[i],
               inbox'[i][b].type \in Requests, inbox'[i][c].type \in Requests,
               inbox'[i][c].note = inbox'[i][b].note
        PROVE  b = c
    <3>1. b + d \in DOMAIN inbox[i] /\ c + d \in DOMAIN inbox[i] /\ b \in Nat /\ c \in Nat
          BY <2>2
    <3>2. b + d = c + d
          BY <2>2, <2>4, <3>1 DEF RequestsAreUnique
    <3> QED BY <3>1, <3>2
  <2> QED BY <2>1, <2>3, <2>4 DEF RequestsAreUnique
<1>10. CASE \E k \in Entries : Hear(k)
      BY <1>10, <1>3 DEF Hear, clientVars
<1>11. CASE UNCHANGED vars
      BY <1>11, <1>3 DEF vars
<1> QED BY <1>4, <1>5, <1>6, <1>7, <1>8, <1>9, <1>10, <1>11
        DEF Next, Skip, AnswerTest, Serve, ServeInVain, AnswerRequest
-----------------------------------------------------------------------------
(* How often a request is served *)

\* The entries whose keys an introducer shares with the client, and those of its bodies.
LEMMA SharedKeys ==
  ASSUME TypeOK, NEW i \in Introducers, NEW n
  PROVE  /\ IsFiniteSet(SharedEntries(keys, KeysOf[i])) /\ Cardinality(SharedEntries(keys, KeysOf[i])) \in Nat
         /\ ToServe(i, n) \subseteq SharedEntries(keys, KeysOf[i])
         /\ IsFiniteSet(ToServe(i, n)) /\ Cardinality(ToServe(i, n)) \in Nat
         /\ Cardinality(ToServe(i, n)) <= Cardinality(SharedEntries(keys, KeysOf[i]))
<1>1. IsFiniteSet(SharedEntries(keys, KeysOf[i]))
      BY StateTypes, SharedAreFinite
<1>2. ToServe(i, n) \in SUBSET (SharedEntries(keys, KeysOf[i]))
      BY DEF ToServe
<1>3. IsFiniteSet(ToServe(i, n)) /\ Cardinality(ToServe(i, n)) <= Cardinality(SharedEntries(keys, KeysOf[i]))
      BY <1>1, <1>2, FS_Subset
<1> QED BY <1>1, <1>2, <1>3, FS_CardinalityType

LEMMA ServedStep ==
  ASSUME TypeOK, RequestsInOrder, RequestsAreUnique, ServedAsSent, [Next]_vars
  PROVE  ServedAsSent'
<1>a. Requests = {"Notification", "CopyData", "OpenURL"} /\ note \in Nat /\ Notes \subseteq Nat \ {0}
      BY MessageTypes DEF TypeOK, Notes
<1>b. /\ shown \in [Introducers -> [Notes -> Nat]]
      /\ \A i \in Introducers, n \in Notes : shown[i][n] \in Nat
      BY DEF TypeOK
<1>c. TypeOK'
      BY TypeStep
<1>1. ASSUME ~GoneOn, UNCHANGED <<inbox, shown, note>> PROVE ServedAsSent'
  <2>1. note = 0 /\ \A i \in Introducers : \A b \in DOMAIN inbox[i] : inbox[i][b].type \notin Requests
        BY <1>1, NothingSent
  <2>2. ASSUME NEW i \in Introducers, NEW n \in Notes
        PROVE  /\ shown'[i][n] = 0 /\ ToServe(i, n)' = {}
               /\ Cardinality(ToServe(i, n)') = 0 /\ Cardinality(SharedEntries(keys', KeysOf[i])) \in Nat
    <3>a. n > note
          BY <1>a, <2>1
    <3>b. shown[i][n] = 0
          BY <3>a DEF ServedAsSent
    <3>1. shown'[i][n] = 0
          BY <1>1, <3>b
    <3>2. ToServe(i, n)' = {}
          BY <1>1, <2>1 DEF ToServe
    <3>3. Cardinality(SharedEntries(keys', KeysOf[i])) \in Nat
          BY <1>c, StateTypes, SharedAreFinite DEF TypeOK
    <3> QED BY <3>1, <3>2, <3>3, FS_EmptySet
  <2> QED BY <2>2 DEF ServedAsSent
<1>2. ASSUME UNCHANGED <<shown, keys>>,
             \A i \in Introducers, n \in Notes : ToServe(i, n)' \subseteq ToServe(i, n),
             \A n \in Notes : n > note' \/ SentOut(n)' => n > note \/ SentOut(n)
      PROVE  ServedAsSent'
  <2>1. ASSUME NEW i \in Introducers, NEW n \in Notes
        PROVE  shown'[i][n] + Cardinality(ToServe(i, n)') <= Cardinality(SharedEntries(keys', KeysOf[i]))
    <3>1. ToServe(i, n)' \in SUBSET ToServe(i, n) /\ IsFiniteSet(ToServe(i, n))
          /\ Cardinality(ToServe(i, n)) \in Nat /\ Cardinality(SharedEntries(keys, KeysOf[i])) \in Nat
          BY <1>2, SharedKeys
    <3>2. Cardinality(ToServe(i, n)') <= Cardinality(ToServe(i, n)) /\ Cardinality(ToServe(i, n)') \in Nat
          BY <3>1, FS_Subset, FS_CardinalityType
    <3>3. shown[i][n] + Cardinality(ToServe(i, n)) <= Cardinality(SharedEntries(keys, KeysOf[i]))
          BY DEF ServedAsSent
    <3>4. shown'[i][n] = shown[i][n] /\ keys' = keys
          BY <1>2
    <3> QED BY <3>1, <3>2, <3>3, <3>4, <1>b
  <2>2. ASSUME NEW i \in Introducers, NEW n \in Notes, n > note' \/ SentOut(n)'
        PROVE  shown'[i][n] = 0
        BY <1>2, <2>2 DEF ServedAsSent
  <2> QED BY <2>1, <2>2 DEF ServedAsSent
<1>3. ASSUME UNCHANGED <<inbox, shown, keys>>,
             \A n \in Notes : n > note' \/ SentOut(n)' => n > note \/ SentOut(n)
      PROVE  ServedAsSent'
  <2>1. \A i \in Introducers, n \in Notes : ToServe(i, n)' \subseteq ToServe(i, n)
        BY <1>3 DEF ToServe
  <2> QED BY <1>2, <1>3, <2>1
<1>4. CASE RequestKey
      BY <1>4, <1>1, <1>a DEF RequestKey, GoneOn, historyVars
<1>5. ASSUME NEW ks \in KeyLists, EnterKeys(ks) PROVE ServedAsSent'
      BY <1>5, <1>1, <1>a DEF EnterKeys, GoneOn, historyVars
<1>6. CASE EnterNone \/ ReadTesting \/ TestTimesOut \/ ReadAnswer \/ AnswerTimesOut
  <2>1. UNCHANGED <<out, inbox, shown, note, keys>>
        BY <1>6 DEF EnterNone, ReadTesting, TestTimesOut, ReadAnswer, AnswerTimesOut, TakeIn, historyVars
  <2> QED BY <1>3, <2>1 DEF SentOut
<1>7. CASE Notify \/ RemoteCopy \/ OpenURL
  <2>1. PICK t \in Requests : Ask(t) /\ note + 1 \in Notes
        BY <1>7, AskedInTime
  <2> DEFINE m == Message(t, note + 1)
  <2>2. /\ m \in Asked /\ out' = Append(out, m) /\ m.note = note + 1
        /\ note' = note + 1 /\ UNCHANGED <<inbox, keys, shown>>
        BY <2>1, MessageTypes DEF Message, Ask, Notes, historyVars
  <2> HIDE DEF m
  <2>3. /\ DOMAIN out = 1..Len(out) /\ DOMAIN out' = 1..(Len(out) + 1) /\ Len(out) \in Nat
        /\ \A a \in DOMAIN out : out'[a] = out[a]
        /\ out'[Len(out) + 1] = m
        BY <2>2, OutGrown
  <2>4. \A a \in DOMAIN out' : a \in DOMAIN out \/ a = Len(out) + 1
        BY <2>3
  <2>5. \A n \in Notes : n > note' \/ SentOut(n)' => n > note \/ SentOut(n)
        BY <2>2, <2>3, <2>4, <1>a DEF SentOut
  <2> QED BY <2>2, <2>5, <1>3
<1>8. CASE Publish
  <2>1. /\ 1 \in DOMAIN out /\ UNCHANGED <<keys, note, shown>>
        /\ \A a \in DOMAIN out' : a \in Nat \ {0} /\ a + 1 \in DOMAIN out /\ out'[a] = out[a + 1]
        BY <1>8, Published DEF Publish, clientVars, historyVars
  <2>2. \A n : SentOut(n)' => SentOut(n)
        BY <2>1 DEF SentOut
  <2>3. ASSUME NEW i \in Introducers, NEW n \in Notes, out[1].type \in Requests, out[1].note = n
        PROVE  shown'[i][n] + Cardinality(ToServe(i, n)') <= Cardinality(SharedEntries(keys', KeysOf[i]))
    <3>1. shown'[i][n] = 0
          BY <2>1, <2>3 DEF ServedAsSent, SentOut
    <3>2. ToServe(i, n)' \in SUBSET (SharedEntries(keys', KeysOf[i]))
          BY DEF ToServe
    <3>3. IsFiniteSet(SharedEntries(keys', KeysOf[i]))
          BY <2>1, SharedKeys
    <3>4. Cardinality(ToServe(i, n)') <= Cardinality(SharedEntries(keys', KeysOf[i])) /\ Cardinality(ToServe(i, n)') \in Nat
          BY <3>2, <3>3, FS_Subset, FS_CardinalityType
    <3> QED BY <3>1, <3>4
  <2>4. ASSUME NEW i \in Introducers, NEW n \in Notes, ~(out[1].type \in Requests /\ out[1].note = n)
        PROVE  shown'[i][n] + Cardinality(ToServe(i, n)') <= Cardinality(SharedEntries(keys', KeysOf[i]))
    <3>1. ToServe(i, n)' \in SUBSET ToServe(i, n)
          BY <1>8, <2>1, <2>4, Published DEF ToServe
    <3>2. Cardinality(ToServe(i, n)') <= Cardinality(ToServe(i, n)) /\ Cardinality(ToServe(i, n)') \in Nat
          BY <3>1, SharedKeys, FS_Subset, FS_CardinalityType
    <3>3. shown[i][n] + Cardinality(ToServe(i, n)) <= Cardinality(SharedEntries(keys, KeysOf[i]))
          BY DEF ServedAsSent
    <3>4. /\ shown'[i][n] = shown[i][n] /\ shown[i][n] \in Nat /\ keys' = keys
          /\ Cardinality(ToServe(i, n)) \in Nat /\ Cardinality(SharedEntries(keys, KeysOf[i])) \in Nat
          BY <2>1, <1>b, SharedKeys
    <3>5. shown[i][n] + Cardinality(ToServe(i, n)') <= Cardinality(SharedEntries(keys, KeysOf[i]))
          BY <3>2, <3>3, <3>4
    <3> QED BY <3>4, <3>5
  <2> QED BY <2>1, <2>2, <2>3, <2>4 DEF ServedAsSent
<1>9. ASSUME NEW i \in Introducers, NEW k \in Entries, TakeBody(i, k)
      PROVE  /\ \A j \in Introducers, n \in Notes : ToServe(j, n)' \subseteq ToServe(j, n)
             /\ \A n \in Notes : inbox[i][1].type \in Requests /\ inbox[i][1].note = n
                               => k \notin ToServe(i, n)'
             /\ UNCHANGED <<keys, note, out>>
  <2>1. UNCHANGED <<keys, note, out>> /\ \A j \in Introducers \ {i} : inbox'[j] = inbox[j]
        BY <1>9, InboxTaken DEF TakeBody, clientVars
  <2>2. PICK d \in {0, 1} : \A b \in DOMAIN inbox'[i] :
          /\ b \in Nat \ {0} /\ b + d \in DOMAIN inbox[i]
          /\ inbox'[i][b].type = inbox[i][b + d].type
          /\ inbox'[i][b].note = inbox[i][b + d].note
          /\ inbox'[i][b].bodies \subseteq inbox[i][b + d].bodies
          /\ b + d = 1 => k \notin inbox'[i][b].bodies
        BY <1>9, InboxTaken
  <2>3. \A n \in Notes : ToServe(i, n)' \subseteq ToServe(i, n)
        BY <2>1, <2>2 DEF ToServe
  <2>4. \A j \in Introducers \ {i}, n \in Notes : ToServe(j, n)' \subseteq ToServe(j, n)
        BY <2>1 DEF ToServe
  <2>5. ASSUME inbox[i][1].type \in Requests,
               NEW b \in DOMAIN inbox'[i], inbox'[i][b].type \in Requests,
               inbox'[i][b].note = inbox[i][1].note
        PROVE  k \notin inbox'[i][b].bodies
    <3>1. 1 \in DOMAIN inbox[i]
          BY <1>9, InboxTaken
    <3>2. b + d = 1
          BY <2>2, <2>5, <3>1 DEF RequestsAreUnique
    <3> QED BY <2>2, <3>2
  <2>6. \A n \in Notes : inbox[i][1].type \in Requests /\ inbox[i][1].note = n
                        => k \notin ToServe(i, n)'
        BY <2>5 DEF ToServe
  <2> QED BY <2>1, <2>3, <2>4, <2>6
<1>10. ASSUME NEW i \in Introducers, NEW k \in Entries, Skip(i, k) \/ AnswerTest(i, k) \/ ServeInVain(i, k)
       PROVE  ServedAsSent'
  <2>1. TakeBody(i, k) /\ UNCHANGED shown
        BY <1>10 DEF Skip, AnswerTest, ServeInVain, AnswerRequest, historyVars
  <2> QED BY <1>2, <1>9, <2>1 DEF SentOut
<1>11. ASSUME NEW i \in Introducers, NEW k \in Entries, Serve(i, k) PROVE ServedAsSent'
  <2> DEFINE h == inbox[i][1]
  <2>1. /\ h.type \in Requests /\ k \in h.bodies /\ 1 \in DOMAIN inbox[i]
        /\ Readable(k, KeysOf[i]) /\ TakeBody(i, k)
        BY <1>11, AnswerIsSent DEF Serve
  <2>a. h.note \in 1..note /\ ~SentOut(h.note) /\ h.bodies \subseteq EntriesOf(keys)
        BY <2>1 DEF RequestsAreUnique
  <2>b. \A n \in 1..note : n \in Notes
        BY MessageTypes DEF TypeOK, Notes
  <2>2. h.note \in Notes
        BY <2>a, <2>b
  <2>3. PICK n \in Notes : n = h.note
        BY <2>2
  <2>4. \A j \in Introducers, m \in Notes :
          shown'[j][m] = IF j = i /\ m = n THEN shown[j][m] + 1 ELSE shown[j][m]
    <3>1. \A j \in Introducers, m \in Notes :
            shown'[j][m] = IF j = i /\ m = h.note THEN shown[j][m] + 1 ELSE shown[j][m]
          BY <1>11, ServedIsCounted
    <3> QED BY <2>3, <3>1
  <2>5. /\ \A j \in Introducers, m \in Notes : ToServe(j, m)' \subseteq ToServe(j, m)
        /\ k \notin ToServe(i, n)' /\ UNCHANGED <<keys, note, out>>
        BY <1>9, <2>1, <2>3
  <2>6. k \in ToServe(i, n)
        BY <2>1, <2>a, <2>3 DEF ToServe, SharedEntries
  <2>7. ASSUME NEW j \in Introducers, NEW m \in Notes
        PROVE  shown'[j][m] + Cardinality(ToServe(j, m)') <= Cardinality(SharedEntries(keys, KeysOf[j]))
    <3>1. /\ shown[j][m] + Cardinality(ToServe(j, m)) <= Cardinality(SharedEntries(keys, KeysOf[j]))
          /\ shown[j][m] \in Nat /\ Cardinality(SharedEntries(keys, KeysOf[j])) \in Nat
          /\ IsFiniteSet(ToServe(j, m)) /\ Cardinality(ToServe(j, m)) \in Nat
          BY <1>b, SharedKeys DEF ServedAsSent
    <3>2. CASE j = i /\ m = n
      <4>1. /\ IsFiniteSet(ToServe(i, n) \ {k})
            /\ Cardinality(ToServe(i, n) \ {k}) = Cardinality(ToServe(i, n)) - 1
            BY <2>6, <3>1, <3>2, FS_RemoveElement
      <4>2. ToServe(i, n)' \in SUBSET (ToServe(i, n) \ {k})
            BY <2>5
      <4>3. /\ Cardinality(ToServe(i, n)') <= Cardinality(ToServe(i, n)) - 1
            /\ Cardinality(ToServe(i, n)') \in Nat
            BY <4>1, <4>2, FS_Subset, FS_CardinalityType
      <4>4. shown'[j][m] = shown[j][m] + 1
            BY <2>4, <3>2
      <4> QED BY <3>1, <3>2, <4>3, <4>4
    <3>3. CASE ~(j = i /\ m = n)
      <4>1. ToServe(j, m)' \in SUBSET ToServe(j, m)
            BY <2>5
      <4>2. Cardinality(ToServe(j, m)') <= Cardinality(ToServe(j, m)) /\ Cardinality(ToServe(j, m)') \in Nat
            BY <3>1, <4>1, FS_Subset, FS_CardinalityType
      <4>3. shown'[j][m] = shown[j][m]
            BY <2>4, <3>3
      <4> QED BY <3>1, <4>2, <4>3
    <3> QED BY <3>2, <3>3
  <2>8. ASSUME NEW j \in Introducers, NEW m \in Notes, m > note \/ SentOut(m)
        PROVE  shown'[j][m] = 0
    <3>1. m # n
          BY <2>a, <2>3, <2>8, <1>a
    <3> QED BY <2>4, <2>8, <3>1 DEF ServedAsSent
  <2>9. \A m : SentOut(m)' = SentOut(m)
        BY <2>5 DEF SentOut
  <2> QED BY <2>5, <2>7, <2>8, <2>9 DEF ServedAsSent
<1>12. ASSUME NEW k \in Entries, Hear(k) PROVE ServedAsSent'
  <2>1. UNCHANGED <<out, inbox, shown, note, keys>>
        BY <1>12 DEF Hear, clientVars, historyVars
  <2> QED BY <1>3, <2>1 DEF SentOut
<1>13. CASE UNCHANGED vars
      BY <1>13, <1>3 DEF vars, SentOut
<1> QED BY <1>4, <1>5, <1>6, <1>7, <1>8, <1>10, <1>11, <1>12, <1>13 DEF Next
-----------------------------------------------------------------------------
(* The answers on their way *)

\* Reading a message adds no answer.
LEMMA ReadKeeps ==
  ASSUME TypeOK, TakeIn, NEW n
  PROVE  (AllRead(n) => AllRead(n)') /\ (OneUnreadAtMost(n) => OneUnreadAtMost(n)')
<1>1. /\ \A a \in DOMAIN in' : a \in Nat \ {0} /\ a + 1 \in DOMAIN in /\ in'[a] = in[a + 1]
      /\ UNCHANGED <<wire, keys>>
      BY InTaken DEF TakeIn
<1>2. \A a \in DOMAIN in' : InAt(n, a)' => InAt(n, a + 1)
      BY <1>1 DEF InAt
<1>3. \A b, k : WireAt(n, b, k)' = WireAt(n, b, k)
      BY <1>1 DEF WireAt
<1>4. AllRead(n) => AllRead(n)'
      BY <1>1, <1>2, <1>3 DEF AllRead
<1>5. ASSUME OneUnreadAtMost(n) PROVE OneUnreadAtMost(n)'
  <2>1. ASSUME NEW a \in DOMAIN in', NEW c \in DOMAIN in', InAt(n, a)', InAt(n, c)'
        PROVE  a = c
    <3>1. a + 1 = c + 1
          BY <1>1, <1>2, <1>5, <2>1 DEF OneUnreadAtMost
    <3> QED BY <1>1, <2>1, <3>1
  <2>2. \A a \in DOMAIN in', b \in DOMAIN wire', k \in Entries : ~(InAt(n, a)' /\ WireAt(n, b, k)')
        BY <1>1, <1>2, <1>3, <1>5 DEF OneUnreadAtMost
  <2>3. \A b, d \in DOMAIN wire', k, l \in Entries : WireAt(n, b, k)' /\ WireAt(n, d, l)' => b = d /\ k = l
        BY <1>1, <1>3, <1>5 DEF OneUnreadAtMost
  <2> QED BY <2>1, <2>2, <2>3 DEF OneUnreadAtMost
<1> QED BY <1>4, <1>5

\* An answer that comes in leaves the wire.
LEMMA HearKeeps ==
  ASSUME TypeOK, NEW k \in Entries, Hear(k), NEW n
  PROVE  (AllRead(n) => AllRead(n)') /\ (OneUnreadAtMost(n) => OneUnreadAtMost(n)')
<1>1. 1 \in DOMAIN wire /\ k \in wire[1].bodies /\ keys' = keys
      BY Heard DEF Hear, clientVars
<1>2. PICK d \in {0, 1} : \A b \in DOMAIN wire' :
        /\ b \in Nat \ {0} /\ b + d \in DOMAIN wire
        /\ wire'[b].type = wire[b + d].type
        /\ wire'[b].note = wire[b + d].note
        /\ wire'[b].bodies \subseteq wire[b + d].bodies
        /\ b + d = 1 => k \notin wire'[b].bodies
      BY Heard
<1>3. \A b \in DOMAIN wire', l \in Entries : WireAt(n, b, l)' =>
        b \in Nat /\ b + d \in DOMAIN wire /\ WireAt(n, b + d, l) /\ ~(b + d = 1 /\ l = k)
      BY <1>1, <1>2 DEF WireAt
<1>4. \A a \in DOMAIN in' : InAt(n, a)' =>
        \/ a \in DOMAIN in /\ InAt(n, a)
        \/ a = Len(in) + 1 /\ WireAt(n, 1, k)
      BY <1>1, Heard DEF InAt, WireAt
<1>5. AllRead(n) => AllRead(n)'
      BY <1>1, <1>3, <1>4 DEF AllRead
<1>6. ASSUME OneUnreadAtMost(n) PROVE OneUnreadAtMost(n)'
  <2>1. \A a, c \in DOMAIN in' : InAt(n, a)' /\ InAt(n, c)' => a = c
        BY <1>1, <1>4, <1>6 DEF OneUnreadAtMost
  <2>2. ASSUME NEW a \in DOMAIN in', NEW b \in DOMAIN wire', NEW l \in Entries, InAt(n, a)', WireAt(n, b, l)'
        PROVE  FALSE
    <3>1. b + d \in DOMAIN wire /\ WireAt(n, b + d, l) /\ ~(b + d = 1 /\ l = k)
          BY <1>3, <2>2
    <3> QED BY <1>1, <1>4, <1>6, <2>2, <3>1 DEF OneUnreadAtMost
  <2>3. ASSUME NEW b \in DOMAIN wire', NEW c \in DOMAIN wire', NEW l \in Entries, NEW m \in Entries,
               WireAt(n, b, l)', WireAt(n, c, m)'
        PROVE  b = c /\ l = m
    <3>1. b + d = c + d /\ l = m /\ b \in Nat /\ c \in Nat
          BY <1>3, <1>6, <2>3 DEF OneUnreadAtMost
    <3> QED BY <3>1
  <2> QED BY <2>1, <2>2, <2>3 DEF OneUnreadAtMost
<1> QED BY <1>5, <1>6

\* What is counted stays right when no request is served and no outcome is set.
LEMMA CountsKeep ==
  ASSUME TypeOK, AnswersAreCounted, UNCHANGED <<result, shown, answers, failed>>,
         note' \in Nat, note <= note',
         \A a \in DOMAIN in' : in'[a].type # "AuthValid" => in'[a].note \in 1..note',
         \A b \in DOMAIN wire' : wire'[b].type # "AuthValid" => wire'[b].note \in 1..note',
         \A n \in Notes : (AllRead(n) => AllRead(n)') /\ (OneUnreadAtMost(n) => OneUnreadAtMost(n)')
  PROVE  AnswersAreCounted'
<1>1. \A n \in Notes : NoSurplus(n)' = NoSurplus(n) /\ Done(n)' = Done(n)
      BY DEF NoSurplus, Done, InVain, Message
<1> QED BY <1>1 DEF AnswersAreCounted

\* An answer that the client takes for that of its request is one, unless an earlier
\* request left a surplus.
LEMMA AnswerIsItsOwn ==
  ASSUME TypeOK, RequestsInOrder, AnswersAreCounted, pc \in Requests,
         in # <<>>, Head(in).type = AnswerTo[pc], NoSurplus(note)
  PROVE  InAt(note, 1) /\ 1 \in DOMAIN in /\ note \in Notes
<1>1. 1 \in DOMAIN in /\ Head(in) = in[1] /\ in[1].type # "AuthValid"
      BY StateTypes, Shortened, MessageTypes
<1>2. PICK m : m = in[1].note
      OBVIOUS
<1>3. note \in Notes /\ m \in 1..note /\ note \in Nat /\ m \in Notes
  <2>1. note \in Notes /\ in[1].note \in 1..note
        BY <1>1 DEF RequestsInOrder, AnswersAreCounted
  <2> QED BY <1>2, <2>1, MessageTypes DEF Notes
<1>4. InAt(m, 1)
      BY <1>1, <1>2 DEF InAt
<1>5. ASSUME m < note PROVE FALSE
  <2>1. m \in 1..(note - 1)
        BY <1>3, <1>5
  <2>2. result[m] # "unknown" /\ answers[m] <= 1
        BY <2>1 DEF NoSurplus
  <2>3. result[m] # "none"
        BY <1>3, <1>5 DEF RequestsInOrder
  <2>4. result[m] = "served"
        BY <1>3, <2>2, <2>3 DEF TypeOK
  <2>5. NoSurplus(m)
        BY <1>3, <1>5 DEF NoSurplus
  <2>6. answers[m] \in Nat
        BY <1>3 DEF TypeOK
  <2>7. answers[m] >= 1 /\ (answers[m] = 1 => AllRead(m))
        BY <1>3, <2>4, <2>5 DEF AnswersAreCounted
  <2>8. AllRead(m)
        BY <2>2, <2>6, <2>7
  <2> QED BY <1>1, <1>4, <2>8 DEF AllRead
<1>6. m = note
      BY <1>3, <1>5
<1> QED BY <1>1, <1>3, <1>4, <1>6

\* A command is told the outcome of its request.
LEMMA SettleKeeps ==
  ASSUME TypeOK, RequestsInOrder, AnswersAreCounted, ReadAnswer \/ AnswerTimesOut
  PROVE  AnswersAreCounted'
<1>a. UNCHANGED <<wire, note, shown, answers, failed, keys>> /\ note \in Nat /\ Notes \subseteq Nat \ {0}
      BY MessageTypes DEF ReadAnswer, AnswerTimesOut, TakeIn, historyVars, TypeOK, Notes
<1>1. \A a \in DOMAIN in' : in'[a].type # "AuthValid" => in'[a].note \in 1..note
  <2>1. CASE ReadAnswer
        BY <2>1, InTaken DEF ReadAnswer, AnswersAreCounted
  <2>2. CASE AnswerTimesOut
        BY <2>2 DEF AnswerTimesOut, AnswersAreCounted
  <2> QED BY <2>1, <2>2
<1>2. \A b \in DOMAIN wire' : wire'[b].type # "AuthValid" => wire'[b].note \in 1..note
      BY <1>a DEF AnswersAreCounted
<1>3. \A n \in Notes : (AllRead(n) => AllRead(n)') /\ (OneUnreadAtMost(n) => OneUnreadAtMost(n)')
  <2>1. CASE ReadAnswer
        BY <2>1, ReadKeeps DEF ReadAnswer
  <2>2. CASE AnswerTimesOut
        BY <2>2 DEF AnswerTimesOut, AllRead, OneUnreadAtMost, InAt, WireAt
  <2> QED BY <2>1, <2>2
<1>4. CASE UNCHANGED result
      BY <1>a, <1>1, <1>2, <1>3, <1>4, CountsKeep
<1>5. ASSUME NEW r \in {"served", "unknown"}, Settle(r), pc \in Requests,
             r = "served" => ReadAnswer /\ Head(in).type = AnswerTo[pc]
      PROVE  AnswersAreCounted'
  <2>1. /\ note \in Notes /\ result'[note] = r
        /\ \A n \in Notes \ {note} : result'[n] = result[n]
        BY <1>5, Settled DEF RequestsInOrder
  <2>2. ASSUME NEW n \in Notes, result'[n] = "served", NoSurplus(n)', n # note
        PROVE  answers[n] >= 1 /\ (answers[n] = 1 => AllRead(n)')
    <3>1. result[n] = "served"
          BY <2>1, <2>2
    <3>2. n < note
          BY <2>1, <2>2, <3>1, <1>a DEF RequestsInOrder
    <3>3. \A m \in 1..(n - 1) : m \in Notes /\ m # note
          BY <2>1, <3>2, <1>a, SessionAssumption DEF Notes
    <3>4. NoSurplus(n)
          BY <2>1, <2>2, <3>3, <1>a DEF NoSurplus
    <3> QED BY <3>1, <3>4, <1>3 DEF AnswersAreCounted
  <2>3. ASSUME result'[note] = "served", NoSurplus(note)'
        PROVE  answers[note] >= 1 /\ (answers[note] = 1 => AllRead(note)')
    <3>1. ReadAnswer /\ Head(in).type = AnswerTo[pc] /\ TakeIn /\ in # <<>>
          BY <1>5, <2>1, <2>3 DEF ReadAnswer, TakeIn
    <3>2. \A m \in 1..(note - 1) : m \in Notes /\ m # note
          BY <2>1, <1>a, SessionAssumption DEF Notes
    <3>3. NoSurplus(note)
          BY <2>1, <2>3, <3>2, <1>a DEF NoSurplus
    <3>4. InAt(note, 1) /\ 1 \in DOMAIN in
          BY <1>5, <3>1, <3>3, AnswerIsItsOwn
    <3>5. answers[note] # 0 /\ answers[note] \in Nat
          BY <2>1, <3>4 DEF AnswersAreCounted, AllRead, TypeOK
    <3>6. ASSUME answers[note] = 1 PROVE AllRead(note)'
      <4>1. OneUnreadAtMost(note)
            BY <2>1, <3>6 DEF AnswersAreCounted
      <4>2. \A a \in DOMAIN in' : a \in Nat \ {0} /\ a + 1 \in DOMAIN in /\ in'[a] = in[a + 1]
            BY <3>1, InTaken
      <4>3. ASSUME NEW a \in DOMAIN in', InAt(note, a)' PROVE FALSE
        <5>1. InAt(note, a + 1)
              BY <4>2, <4>3, <1>a DEF InAt
        <5>2. a + 1 = 1
              BY <3>4, <4>1, <4>2, <5>1 DEF OneUnreadAtMost
        <5> QED BY <4>2, <5>2
      <4>4. \A b \in DOMAIN wire, k \in Entries : ~WireAt(note, b, k)
            BY <3>4, <4>1 DEF OneUnreadAtMost
      <4>5. \A b \in DOMAIN wire', k \in Entries : ~WireAt(note, b, k)'
            BY <4>4, <1>a DEF WireAt
      <4> QED BY <4>3, <4>5, <1>a DEF AllRead
    <3> QED BY <3>5, <3>6
  <2>4. ASSUME NEW n \in Notes, result'[n] = "served", NoSurplus(n)'
        PROVE  answers[n] >= 1 /\ (answers[n] = 1 => AllRead(n)')
    <3>1. CASE n = note
      <4>1. result'[note] = "served" /\ NoSurplus(note)'
            BY <2>4, <3>1, <1>a DEF NoSurplus
      <4>2. answers[note] >= 1 /\ (answers[note] = 1 => AllRead(note)')
            BY <2>3, <4>1
      <4> QED BY <3>1, <4>2, <1>a DEF AllRead, InAt, WireAt
    <3> QED BY <2>2, <2>4, <3>1
  <2>5. \A n \in Notes :
          /\ answers[n] = 0 => AllRead(n)'
          /\ answers[n] <= 1 => OneUnreadAtMost(n)'
          /\ answers[n] > 0 => Done(n)'
        BY <1>a, <1>3 DEF AnswersAreCounted, Done, InVain, Message
  <2> QED BY <1>a, <1>1, <1>2, <2>4, <2>5 DEF AnswersAreCounted
<1> QED BY <1>4, <1>5 DEF ReadAnswer, AnswerTimesOut

\* An introducer answers a request, with a body for each entry of its list.
LEMMA ServeKeeps ==
  ASSUME TypeOK, RequestsInOrder, RequestsAreUnique, AnswersAreCounted,
         NEW i \in Introducers, NEW k \in Entries, Serve(i, k) \/ ServeInVain(i, k)
  PROVE  AnswersAreCounted'
<1> DEFINE h == inbox[i][1]
           m == Message(AnswerTo[h.type], h.note)
<1>0. AnswerRequest(i, k)
      BY DEF Serve, ServeInVain
<1>1. /\ h.type \in Requests /\ h \in Carried(Requested) /\ h = Head(inbox[i])
      /\ k \in h.bodies /\ 1 \in DOMAIN inbox[i] /\ Readable(k, KeysOf[i]) /\ TakeBody(i, k)
      /\ m \in Answered /\ m.type # "AuthValid" /\ m.note = h.note
      /\ wire' = Append(wire, Bodies(m, KeysOf[i]))
      BY <1>0, AnswerIsSent
<1>2. h.note \in 1..note /\ k \in EntriesOf(keys)
      BY <1>1 DEF RequestsAreUnique
<1>3. UNCHANGED <<in, keys, note, result>> /\ note \in Nat /\ note <= MaxNotes /\ MaxNotes \in Nat
      BY <1>1, MessageTypes DEF TakeBody, clientVars, TypeOK
<1>4. PICK n \in Notes : n = h.note
      BY <1>2, <1>3 DEF Notes
<1>5. m.note = n
      BY <1>1, <1>4
<1> HIDE DEF m
<1>6. /\ Len(wire) \in Nat
      /\ DOMAIN wire = 1..Len(wire) /\ DOMAIN wire' = 1..(Len(wire) + 1)
      /\ \A b \in DOMAIN wire : wire'[b] = wire[b]
      /\ wire'[Len(wire) + 1].type = m.type /\ wire'[Len(wire) + 1].note = n
      /\ wire'[Len(wire) + 1].bodies = EntriesOf(KeysOf[i])
      BY <1>1, <1>5, WireGrown
<1>7. \A b \in DOMAIN wire' : b \in DOMAIN wire \/ b = Len(wire) + 1
      BY <1>6
<1>8. PICK c \in Nat : c = Cardinality(SharedEntries(KeysOf[i], keys))
      BY StateTypes, SharedAreFinite
<1>9. c >= 1 /\ (c = 1 => \A x, y \in SharedEntries(KeysOf[i], keys) : x = y)
  <2>1. IsFiniteSet(SharedEntries(KeysOf[i], keys)) /\ SharedEntries(KeysOf[i], keys) # {}
    <3>1. k[2] \in Known(keys) /\ k[2] \in Known(KeysOf[i])
          BY <1>1, <1>2, StateTypes, ListFacts DEF Readable
    <3>2. PICK e \in EntriesOf(KeysOf[i]) : e[2] = k[2]
          BY <3>1, StateTypes, ListFacts
    <3>3. e \in SharedEntries(KeysOf[i], keys)
          BY <3>1, <3>2 DEF SharedEntries, Readable
    <3> QED BY <3>3, StateTypes, SharedAreFinite
  <2>2. c # 0
        BY <1>8, <2>1, FS_EmptySet
  <2>3. c = 1 => \E x : SharedEntries(KeysOf[i], keys) = {x}
        BY <1>8, <2>1, FS_Singleton
  <2> QED BY <2>2, <2>3
<1>10. /\ answers'[n] = answers[n] + c
       /\ \A l \in Notes \ {n} : answers'[l] = answers[l]
       /\ \A l \in Notes : answers[l] \in Nat
  <2>1. \A l \in Notes :
          answers'[l] = IF l = h.note THEN answers[l] + Cardinality(SharedEntries(KeysOf[i], keys)) ELSE answers[l]
        BY <1>0, Counted
  <2>2. \A l \in Notes : answers[l] \in Nat
        BY DEF TypeOK
  <2>3. \A l \in Notes : answers'[l] = IF l = n THEN answers[l] + c ELSE answers[l]
        BY <1>4, <1>8, <2>1
  <2> QED BY <2>2, <2>3
<1>d. Done(n)' /\ \A l \in Notes : Done(l) => Done(l)'
  <2>1. CASE Serve(i, k)
    <3>1. \A j \in Introducers, l \in Notes :
            shown'[j][l] = IF j = i /\ l = h.note THEN shown[j][l] + 1 ELSE shown[j][l]
          BY <2>1, ServedIsCounted
    <3>2. \A j \in Introducers, l \in Notes : shown[j][l] \in Nat
          BY DEF TypeOK
    <3>3. shown'[i][n] > 0 /\ \A j \in Introducers, l \in Notes : shown[j][l] > 0 => shown'[j][l] > 0
          BY <1>4, <3>1, <3>2
    <3>4. failed' = failed
          BY <2>1 DEF Serve
    <3> QED BY <3>3, <3>4 DEF Done, InVain, Message
  <2>2. CASE ServeInVain(i, k)
    <3>1. h.type \in {"Notification", "CopyData"} /\ failed' = failed \cup {Message(h.type, n)} /\ shown' = shown
          BY <2>2, <1>1, <1>4 DEF ServeInVain
    <3>2. InVain(n)' /\ \A l : InVain(l) => InVain(l)'
          BY <3>1 DEF InVain, Message
    <3> QED BY <3>1, <3>2 DEF Done
  <2> QED BY <2>1, <2>2
<1>11. \A a \in DOMAIN in' : in'[a].type # "AuthValid" => in'[a].note \in 1..note'
       BY <1>3 DEF AnswersAreCounted
<1>12. \A b \in DOMAIN wire' : wire'[b].type # "AuthValid" => wire'[b].note \in 1..note'
       BY <1>2, <1>3, <1>4, <1>6, <1>7 DEF AnswersAreCounted
<1>13. ASSUME NEW l \in Notes, l # n
       PROVE  (AllRead(l) => AllRead(l)') /\ (OneUnreadAtMost(l) => OneUnreadAtMost(l)')
  <2>1. \A a : InAt(l, a)' = InAt(l, a)
        BY <1>3 DEF InAt
  <2>2. \A b \in DOMAIN wire', x \in Entries : WireAt(l, b, x)' => b \in DOMAIN wire /\ WireAt(l, b, x)
        BY <1>3, <1>6, <1>7, <1>13 DEF WireAt
  <2> QED BY <1>3, <2>1, <2>2 DEF AllRead, OneUnreadAtMost
<1>14. ASSUME AllRead(n), c = 1 PROVE OneUnreadAtMost(n)'
  <2>1. \A a \in DOMAIN in' : ~InAt(n, a)'
        BY <1>3, <1>14 DEF InAt, AllRead
  <2>2. \A b \in DOMAIN wire', x \in Entries :
          WireAt(n, b, x)' => b = Len(wire) + 1 /\ x \in SharedEntries(KeysOf[i], keys)
        BY <1>3, <1>6, <1>7, <1>14 DEF WireAt, AllRead, SharedEntries
  <2> QED BY <1>9, <1>14, <2>1, <2>2 DEF OneUnreadAtMost
<1>15. ASSUME NEW l \in Notes, NoSurplus(l)' PROVE NoSurplus(l)
  <2>1. ASSUME NEW o \in 1..(l - 1) PROVE result[o] # "unknown" /\ answers[o] <= 1
    <3>1. result'[o] # "unknown" /\ answers'[o] <= 1 /\ o \in Notes
          BY <1>3, <1>15 DEF NoSurplus, Notes
    <3> QED BY <1>3, <1>8, <1>10, <3>1
  <2> QED BY <2>1 DEF NoSurplus
<1>16. ASSUME NEW l \in Notes, l # n
       PROVE  /\ answers'[l] = 0 => AllRead(l)'
              /\ answers'[l] <= 1 => OneUnreadAtMost(l)'
              /\ answers'[l] > 0 => Done(l)'
              /\ result'[l] = "served" /\ NoSurplus(l)'
                   => answers'[l] >= 1 /\ (answers'[l] = 1 => AllRead(l)')
  <2>1. answers'[l] = answers[l] /\ result'[l] = result[l]
        BY <1>3, <1>10, <1>16
  <2>2. /\ answers[l] = 0 => AllRead(l)
        /\ answers[l] <= 1 => OneUnreadAtMost(l)
        /\ answers[l] > 0 => Done(l)
        /\ result[l] = "served" /\ NoSurplus(l)
             => answers[l] >= 1 /\ (answers[l] = 1 => AllRead(l))
        BY DEF AnswersAreCounted
  <2> QED BY <1>10, <1>d, <1>13, <1>15, <1>16, <2>1, <2>2
<1>17. /\ answers'[n] = 0 => AllRead(n)'
       /\ answers'[n] <= 1 => OneUnreadAtMost(n)'
       /\ answers'[n] > 0 => Done(n)'
       /\ result'[n] = "served" /\ NoSurplus(n)'
            => answers'[n] >= 1 /\ (answers'[n] = 1 => AllRead(n)')
  <2>1. answers'[n] >= 1 /\ answers[n] \in Nat /\ (answers'[n] <= 1 => answers[n] = 0 /\ c = 1)
        BY <1>8, <1>9, <1>10
  <2>2. answers'[n] <= 1 => OneUnreadAtMost(n)'
        BY <1>14, <2>1 DEF AnswersAreCounted
  <2>3. ASSUME result'[n] = "served", NoSurplus(n)' PROVE answers'[n] # 1
    <3>1. result[n] = "served" /\ NoSurplus(n)
          BY <1>3, <1>15, <2>3
    <3>2. answers[n] >= 1
          BY <3>1 DEF AnswersAreCounted
    <3> QED BY <2>1, <3>2
  <2> QED BY <1>10, <1>d, <2>1, <2>2, <2>3
<1> HIDE DEF h
<1> QED BY <1>11, <1>12, <1>16, <1>17 DEF AnswersAreCounted

LEMMA CountStep ==
  ASSUME TypeOK, RequestsInOrder, RequestsAreUnique, AnswersAreCounted, [Next]_vars
  PROVE  AnswersAreCounted'
<1>a. note \in Nat /\ Notes \subseteq Nat \ {0}
      BY MessageTypes DEF TypeOK, Notes
<1>b. /\ \A a \in DOMAIN in : in[a].type # "AuthValid" => in[a].note \in 1..note
      /\ \A b \in DOMAIN wire : wire[b].type # "AuthValid" => wire[b].note \in 1..note
      BY DEF AnswersAreCounted
<1>1. ASSUME UNCHANGED <<in, wire, note, result, shown, answers, failed>>, ~GoneOn PROVE AnswersAreCounted'
  <2>1. note = 0
        BY <1>1, NothingSent
  <2>2. /\ \A a \in DOMAIN in' : in'[a].type = "AuthValid"
        /\ \A b \in DOMAIN wire' : wire'[b].type = "AuthValid"
        BY <1>1, <1>b, <2>1
  <2>3. \A n : AllRead(n)' /\ OneUnreadAtMost(n)'
        BY <2>2 DEF AllRead, OneUnreadAtMost, InAt, WireAt
  <2> QED BY <1>1, <1>a, <1>b, <2>3, CountsKeep
<1>2. ASSUME UNCHANGED <<in, wire, keys, result, shown, answers, failed>>, note' \in {note, note + 1}
      PROVE  AnswersAreCounted'
  <2>1. \A n : AllRead(n)' = AllRead(n) /\ OneUnreadAtMost(n)' = OneUnreadAtMost(n)
        BY <1>2 DEF AllRead, OneUnreadAtMost, InAt, WireAt
  <2>2. note' \in Nat /\ note <= note'
        BY <1>2, <1>a
  <2>3. /\ \A a \in DOMAIN in' : in'[a].type # "AuthValid" => in'[a].note \in 1..note'
        /\ \A b \in DOMAIN wire' : wire'[b].type # "AuthValid" => wire'[b].note \in 1..note'
        BY <1>2, <1>a, <1>b, <2>2
  <2> QED BY <1>2, <2>1, <2>2, <2>3, CountsKeep
<1>3. CASE RequestKey
      BY <1>3, <1>1, MessageTypes DEF RequestKey, GoneOn, historyVars
<1>4. ASSUME NEW ks \in KeyLists, EnterKeys(ks) PROVE AnswersAreCounted'
      BY <1>4, <1>1, MessageTypes DEF EnterKeys, GoneOn, historyVars
<1>5. CASE EnterNone \/ TestTimesOut \/ UNCHANGED vars
      BY <1>5, <1>2 DEF EnterNone, TestTimesOut, historyVars, vars
<1>6. CASE ReadTesting
  <2>1. TakeIn /\ UNCHANGED <<wire, note, result, shown, answers, failed>>
        BY <1>6 DEF ReadTesting, TakeIn, historyVars
  <2>2. \A a \in DOMAIN in' : in'[a].type # "AuthValid" => in'[a].note \in 1..note'
        BY <2>1, <1>b, InTaken
  <2> QED BY <2>1, <2>2, <1>a, <1>b, ReadKeeps, CountsKeep
<1>7. CASE Notify \/ RemoteCopy \/ OpenURL
      BY <1>7, <1>2, AskedInTime DEF Ask, historyVars
<1>8. CASE ReadAnswer \/ AnswerTimesOut
      BY <1>8, SettleKeeps
<1>9. CASE Publish
      BY <1>9, <1>2 DEF Publish, clientVars, historyVars
<1>10. ASSUME NEW i \in Introducers, NEW k \in Entries, Skip(i, k) PROVE AnswersAreCounted'
      BY <1>10, <1>2 DEF Skip, TakeBody, clientVars, historyVars
<1>11. ASSUME NEW i \in Introducers, NEW k \in Entries, AnswerTest(i, k) PROVE AnswersAreCounted'
  <2> DEFINE m == Message("AuthValid", 0)
  <2>1. /\ m \in Answered /\ m.type = "AuthValid" /\ wire' = Append(wire, Bodies(m, KeysOf[i]))
        /\ Readable(k, KeysOf[i]) /\ UNCHANGED <<in, keys, note, result, shown, answers, failed>>
        BY <1>11, MessageTypes DEF AnswerTest, TakeBody, clientVars, historyVars, Message
  <2> HIDE DEF m
  <2>2. /\ Len(wire) \in Nat
        /\ DOMAIN wire = 1..Len(wire) /\ DOMAIN wire' = 1..(Len(wire) + 1)
        /\ \A b \in DOMAIN wire : wire'[b] = wire[b]
        /\ wire'[Len(wire) + 1].type = "AuthValid"
        BY <2>1, WireGrown
  <2>3. \A b \in DOMAIN wire' : b \in DOMAIN wire \/ b = Len(wire) + 1
        BY <2>2
  <2>4. \A b \in DOMAIN wire' : wire'[b].type # "AuthValid" => wire'[b].note \in 1..note'
        BY <1>b, <2>1, <2>2, <2>3
  <2>5. ASSUME NEW n
        PROVE  (AllRead(n) => AllRead(n)') /\ (OneUnreadAtMost(n) => OneUnreadAtMost(n)')
    <3>1. \A a : InAt(n, a)' = InAt(n, a)
          BY <2>1 DEF InAt
    <3>2. \A b \in DOMAIN wire', x \in Entries : WireAt(n, b, x)' => b \in DOMAIN wire /\ WireAt(n, b, x)
          BY <2>1, <2>2, <2>3 DEF WireAt
    <3> QED BY <2>1, <3>1, <3>2 DEF AllRead, OneUnreadAtMost
  <2> QED BY <1>a, <1>b, <2>1, <2>4, <2>5, CountsKeep
<1>12. ASSUME NEW i \in Introducers, NEW k \in Entries, Serve(i, k) \/ ServeInVain(i, k)
       PROVE  AnswersAreCounted'
      BY <1>12, ServeKeeps
<1>13. ASSUME NEW k \in Entries, Hear(k) PROVE AnswersAreCounted'
  <2>1. UNCHANGED <<note, result, shown, answers, failed>>
        BY <1>13 DEF Hear, clientVars, historyVars
  <2>2. /\ \A b \in DOMAIN wire' : \E c \in DOMAIN wire :
             wire'[b].type = wire[c].type /\ wire'[b].note = wire[c].note
        /\ \A a \in DOMAIN in' :
             \/ a \in DOMAIN in /\ in'[a] = in[a]
             \/ 1 \in DOMAIN wire /\ in'[a].type = wire[1].type /\ in'[a].note = wire[1].note
        BY <1>13, Heard
  <2>3. \A b \in DOMAIN wire' : wire'[b].type # "AuthValid" => wire'[b].note \in 1..note'
        BY <1>b, <2>1, <2>2
  <2>4. \A a \in DOMAIN in' : in'[a].type # "AuthValid" => in'[a].note \in 1..note'
        BY <1>b, <2>1, <2>2
  <2> QED BY <1>13, <1>a, <2>1, <2>3, <2>4, HearKeeps, CountsKeep
<1> QED BY <1>3, <1>4, <1>5, <1>6, <1>7, <1>8, <1>9, <1>10, <1>11, <1>12, <1>13 DEF Next
-----------------------------------------------------------------------------
(* The theorems *)

LEMMA InitIInv == Init => IInv
<1> SUFFICES ASSUME Init PROVE IInv
    OBVIOUS
<1> USE MessageTypes
<1>1. /\ note = 0 /\ in = <<>> /\ wire = <<>> /\ stored = <<>> /\ keys \in KeyLists /\ checkKey \in BOOLEAN
      /\ inbox = [i \in Introducers |-> <<>>] /\ result = [n \in Notes |-> "none"]
      /\ shown = [i \in Introducers |-> [n \in Notes |-> 0]] /\ answers = [n \in Notes |-> 0]
      /\ pc \in {"request", "testing", "ready"} /\ (pc = "testing" => checkKey)
      /\ (pc = "ready" => ~checkKey) /\ (checkKey => Known(keys) \subseteq tested)
      /\ prompts = 0 /\ tested \subseteq Keys /\ failed = {}
      BY ListFacts DEF Init
<1>2. (pc = "testing" /\ out = <<TestAuth>>) \/ out = <<>>
      BY DEF Init
<1>3. TestAuth \in Asked /\ TestAuth.type = "TestAuth"
      BY DEF TestAuth, Message
<1>4. out \in Seq(Asked) /\ \A a \in DOMAIN out : out[a].type = "TestAuth" /\ pc = "testing"
  <2>1. CASE pc = "testing" /\ out = <<TestAuth>>
    <3>1. \A a \in DOMAIN out : out[a] = TestAuth
          BY <2>1
    <3>2. out \in Seq(Asked)
          BY <2>1, <1>3
    <3> QED BY <2>1, <3>1, <3>2, <1>3
  <2>2. CASE out = <<>>
        BY <2>2
  <2> QED BY <1>2, <2>1, <2>2
<1>5. \A n \in Notes : n > note
      BY <1>1 DEF Notes
<1>6. TypeOK
  <2>1. /\ inbox \in [Introducers -> Seq(OnTheWay(Asked))]
        /\ wire \in Seq(OnTheWay(Answered)) /\ in \in Seq(Answered)
        BY <1>1
  <2>2. /\ prompts \in 0..MaxPrompts /\ note \in 0..MaxNotes
        BY <1>1, SessionAssumption
  <2>3. <<>> \in KeyLists
        BY <1>1, ListFacts
  <2> QED BY <1>1, <1>4, <2>1, <2>2, <2>3 DEF TypeOK
<1>7. TestsAreTested /\ GoesOnWithAGoodKey
      BY <1>1, <1>4 DEF TestsAreTested, GoesOnWithAGoodKey
<1>8. RequestsInOrder /\ RequestsAreUnique
      BY <1>1, <1>4, <1>5 DEF RequestsInOrder, RequestsAreUnique
<1>9. ServedAsSent
  <2>1. ASSUME NEW i \in Introducers, NEW n \in Notes
        PROVE  shown[i][n] = 0 /\ ToServe(i, n) = {} /\ Cardinality(ToServe(i, n)) = 0
               /\ Cardinality(SharedEntries(keys, KeysOf[i])) \in Nat
    <3>1. shown[i][n] = 0
          BY <1>1
    <3>2. ToServe(i, n) = {}
      <4>1. DOMAIN inbox[i] = {}
            BY <1>1
      <4> QED BY <4>1 DEF ToServe
    <3> QED BY <1>6, <3>1, <3>2, SharedKeys, FS_EmptySet
  <2>2. ASSUME NEW i \in Introducers, NEW n \in Notes
        PROVE  shown[i][n] + Cardinality(ToServe(i, n)) <= Cardinality(SharedEntries(keys, KeysOf[i]))
        BY <2>1
  <2> QED BY <2>1, <2>2 DEF ServedAsSent
<1>10. AnswersAreCounted
      BY <1>1 DEF AnswersAreCounted, AllRead, OneUnreadAtMost
<1> QED BY <1>6, <1>7, <1>8, <1>9, <1>10 DEF IInv

LEMMA Invariance == Spec => []IInv
<1>1. IInv /\ [Next]_vars => IInv'
      BY TypeStep, TestsStep, OrderStep, UniqueStep, ServedStep, CountStep DEF IInv
<1> QED BY <1>1, InitIInv, PTL DEF Spec

\* Every variable of a session has its type, in particular no request is sent
\* beyond the bound of the model (api/pmb.go:162-185, 223-306).
THEOREM TypeCorrect == Spec => []TypeOK
<1>1. IInv => TypeOK
      BY DEF IInv
<1> QED BY <1>1, Invariance, PTL

\* A command that does not trust its key goes on, and stores typed keys, only
\* if an introducer has one of the keys that were tested (api/pmb.go:223-270,
\* 288-306), however late the answers come.
THEOREM OnlyGoodKeys == Spec => []GoesOnWithAGoodKey
<1>1. IInv => GoesOnWithAGoodKey
      BY DEF IInv
<1> QED BY <1>1, Invariance, PTL

\* A command reports as done a request that nobody served only if the notifier or
\* the clipboard command failed for it and the introducer answered nevertheless, or an
\* earlier notification on the connection timed out or was answered more than once
\* (api/pmb.go:162-185, remotecopy.go:67-80, openurl.go:62-75, introducer.go:137, 178).
THEOREM FalseReportsAreSurplus == Spec => []FalseReportNeedsSurplus
<1>1. ASSUME IInv PROVE FalseReportNeedsSurplus
  <2>1. ASSUME NEW n \in Notes, result[n] = "served", \A i \in Introducers : shown[i][n] = 0, ~InVain(n)
        PROVE  \E m \in 1..(n - 1) : result[m] = "unknown" \/ answers[m] > 1
    <3>1. answers[n] \in Nat /\ ~(answers[n] > 0)
          BY <1>1, <2>1 DEF IInv, TypeOK, AnswersAreCounted, Done
    <3>2. ~NoSurplus(n)
          BY <1>1, <2>1, <3>1 DEF IInv, AnswersAreCounted
    <3>3. PICK m \in 1..(n - 1) : ~(result[m] # "unknown" /\ answers[m] <= 1)
          BY <3>2 DEF NoSurplus
    <3>4. m \in Notes
          BY <3>3, SessionAssumption DEF Notes
    <3>5. answers[m] \in Nat
          BY <1>1, <3>4 DEF IInv, TypeOK
    <3> QED BY <3>3, <3>5
  <2> QED BY <2>1 DEF FalseReportNeedsSurplus
<1> QED BY <1>1, Invariance, PTL

\* An introducer serves a request at most once for each entry of the client's list
\* whose key it has; a key that is there twice counts twice (api/pmb.go:275-286,
\* api/util.go:101-113, 130-153).
THEOREM OncePerSharedKey == Spec => []ShownOncePerSharedKey
<1>1. ASSUME IInv PROVE ShownOncePerSharedKey
  <2>1. ASSUME NEW i \in Introducers, NEW n \in Notes
        PROVE  shown[i][n] <= Cardinality(SharedEntries(keys, KeysOf[i]))
    <3>1. shown[i][n] + Cardinality(ToServe(i, n)) <= Cardinality(SharedEntries(keys, KeysOf[i]))
          BY <1>1 DEF IInv, ServedAsSent
    <3>2. /\ shown[i][n] \in Nat /\ Cardinality(ToServe(i, n)) \in Nat
          /\ Cardinality(SharedEntries(keys, KeysOf[i])) \in Nat
          BY <1>1, SharedKeys DEF IInv, TypeOK
    <3> QED BY <3>1, <3>2
  <2> QED BY <2>1 DEF ShownOncePerSharedKey
<1> QED BY <1>1, Invariance, PTL
=============================================================================
