------------------------------ MODULE Session ------------------------------
(***************************************************************************)
(* One client's session: connectWithKey, testAuth, requestKey and          *)
(* SendNotification of api/pmb.go over the goroutines of its connection,   *)
(* which encrypt and decrypt with whatever conn.Keys holds when they come  *)
(* to a message (api/util.go), and the introducers' answers of             *)
(* introducer.go.  A command sends notifications on its connection, or one *)
(* request to copy (remotecopy.go) or to open a URL (openurl.go), and ends.*)
(*                                                                         *)
(* Keys are a list, in which parseKeys leaves what is there twice, and     *)
(* prepareMessage makes one body per entry.  A message on its way is a     *)
(* record with the entries whose bodies were not taken yet; each body is a *)
(* step of the receiver.  Without a key the body is plain, and             *)
(* parseMessage drops it unless it asks for the key, which no answer       *)
(* follows.  The answers carry the client's id as origin; those to other   *)
(* clients are skipped by the code and left out here.                      *)
(***************************************************************************)
EXTENDS Naturals, Sequences, FiniteSets

CONSTANTS Keys,        \* the keys that exist
          Introducers,
          MaxKeys,     \* bound: entries of a list of keys
          KeysOf,      \* KeysOf[i]: the list of keys of introducer i
          MaxPrompts,  \* bound: how often the user types keys
          MaxNotes     \* bound: notifications sent on the connection, at least one

\* What parseKeys may return, and the empty list.
KeyLists == UNION {[1..n -> Keys] : n \in 0..MaxKeys}

ASSUME SessionAssumption == /\ KeysOf \in [Introducers -> KeyLists]
                            /\ MaxKeys \in Nat
                            /\ MaxPrompts \in Nat
                            /\ MaxNotes \in Nat \ {0}

Notes == 1..MaxNotes

Entries == (1..MaxKeys) \X Keys
EntriesOf(ks) == {<<p, ks[p]>> : p \in DOMAIN ks}
Known(ks) == {ks[p] : p \in DOMAIN ks}

\* The answer to each kind of request.
AnswerTo == [Notification |-> "NotificationDisplayed", CopyData |-> "DataCopied",
             OpenURL |-> "URLOpened"]
Requests == DOMAIN AnswerTo

VARIABLES
  pc,       \* where connectWithKey, then the command, stands
  checkKey, \* the command does not trust the key
  prompts,  \* how often the user was asked
  keys,     \* conn.Keys
  stored,   \* the keys given to the credential helper, or <<>>
  out,      \* conn.Out
  inbox,    \* inbox[i]: messages on their way to introducer i
  wire,     \* answers on their way to the client
  in,       \* conn.In
  note,     \* the request sent last, 0 before the first
  result,   \* result[n]: what the command was told of request n
  tested,   \* history: the keys that were tested
  shown,    \* history: shown[i][n], how often i served request n
  answers,  \* history: answers[n], the bodies of answers to n the client could read
  failed    \* history: the requests answered although the command for them failed

clientVars == <<pc, checkKey, prompts, keys, stored, note, result, tested>>
historyVars == <<shown, answers, failed>>
vars == <<pc, checkKey, prompts, keys, stored, out, inbox, wire, in, note, result,
          tested, shown, answers, failed>>

Message(t, n) == [type |-> t, note |-> n]
TestAuth == Message("TestAuth", 0)

\* connectWithKey is called with the configured keys, if there are any.
Init ==
  /\ keys \in KeyLists
  /\ checkKey \in BOOLEAN
  /\ pc = IF keys = <<>> THEN "request" ELSE IF checkKey THEN "testing" ELSE "ready"
  /\ out = IF pc = "testing" THEN <<TestAuth>> ELSE <<>>
  /\ tested = IF pc = "testing" THEN Known(keys) ELSE {}
  /\ prompts = 0 /\ stored = <<>>
  /\ inbox = [i \in Introducers |-> <<>>]
  /\ wire = <<>> /\ in = <<>>
  /\ note = 0
  /\ result = [n \in Notes |-> "none"]
  /\ shown = [i \in Introducers |-> [n \in Notes |-> 0]]
  /\ answers = [n \in Notes |-> 0]
  /\ failed = {}
-----------------------------------------------------------------------------
(* connectWithKey, requestKey and testAuth *)

\* Forget the keys and ask the introducers to put theirs on the clipboard.
RequestKey ==
  /\ pc = "request"
  /\ prompts < MaxPrompts
  /\ prompts' = prompts + 1
  /\ keys' = <<>>
  /\ out' = Append(out, Message("RequestAuth", 0))
  /\ pc' = "prompt"
  /\ UNCHANGED <<checkKey, stored, inbox, wire, in, note, result, tested, historyVars>>

\* The user types keys, which are tested unless the command trusts them.
EnterKeys(ks) ==
  /\ pc = "prompt"
  /\ ks # <<>>
  /\ keys' = ks
  /\ \/ /\ checkKey
        /\ pc' = "testing"
        /\ tested' = tested \cup Known(ks)
        /\ out' = Append(out, TestAuth)
     \/ /\ ~checkKey
        /\ pc' = "ready"
        /\ UNCHANGED <<tested, out>>
  /\ UNCHANGED <<checkKey, prompts, stored, inbox, wire, in, note, result, historyVars>>

\* No key in what the user typed, or no input: connectWithKey gives up.
EnterNone ==
  /\ pc = "prompt"
  /\ pc' = "failed"
  /\ UNCHANGED <<checkKey, prompts, keys, stored, out, inbox, wire, in, note, result,
                 tested, historyVars>>

\* Take the next message off conn.In.
TakeIn ==
  /\ in # <<>>
  /\ in' = Tail(in)
  /\ UNCHANGED <<checkKey, prompts, keys, out, inbox, wire, note, tested, historyVars>>

\* testAuth reads until it finds an answer; keys that were typed are stored.
ReadTesting ==
  /\ pc = "testing"
  /\ TakeIn
  /\ \/ /\ Head(in).type = "AuthValid"
        /\ pc' = "ready"
        /\ stored' = IF prompts > 0 THEN keys ELSE stored
     \/ /\ Head(in).type # "AuthValid"
        /\ UNCHANGED <<pc, stored>>
  /\ UNCHANGED result

\* Ten seconds are over: a configured key is given up, a typed one asked anew.
TestTimesOut ==
  /\ pc = "testing"
  /\ pc' = IF prompts > 0 THEN "request" ELSE "failed"
  /\ UNCHANGED <<checkKey, prompts, keys, stored, out, inbox, wire, in, note, result,
                 tested, historyVars>>
-----------------------------------------------------------------------------
(* SendNotification, runRemoteCopy, runOpenURL *)

\* The command waits for the answer to t, with its own kind of request as pc.
Ask(t) ==
  /\ pc = "ready"
  /\ note' = note + 1
  /\ out' = Append(out, Message(t, note'))
  /\ pc' = t
  /\ UNCHANGED <<checkKey, prompts, keys, stored, inbox, wire, in, result, tested,
                 historyVars>>

Notify == note < MaxNotes /\ Ask("Notification")
RemoteCopy == note = 0 /\ Ask("CopyData")
OpenURL == note = 0 /\ Ask("OpenURL")

\* The request is over; a command that copies or opens a URL ends with it.
Settle(r) ==
  /\ result' = [result EXCEPT ![note] = r]
  /\ pc' = IF pc = "Notification" THEN "ready" ELSE "ended"

ReadAnything ==
  /\ pc \in Requests
  /\ TakeIn
  /\ Settle("served")
  /\ UNCHANGED stored

\* Any answer of the kind will do: the notification-id is not looked at.
ReadAnswer ==
  /\ pc \in Requests
  /\ TakeIn
  /\ IF Head(in).type = AnswerTo[pc] THEN Settle("served") ELSE UNCHANGED <<pc, result>>
  /\ UNCHANGED stored

\* Two seconds are over, or five for a copy or a URL.
AnswerTimesOut ==
  /\ pc \in Requests
  /\ Settle("unknown")
  /\ UNCHANGED <<checkKey, prompts, keys, stored, out, inbox, wire, in, note, tested,
                 historyVars>>
-----------------------------------------------------------------------------
(* prepareMessage, parseMessage and the introducers *)

\* What is on its way: message m, encrypted once for each entry of ks.
Bodies(m, ks) == [type |-> m.type, note |-> m.note, bodies |-> EntriesOf(ks)]

\* The writer takes a message off conn.Out and publishes it.
Publish ==
  /\ out # <<>>
  /\ out' = Tail(out)
  /\ inbox' = IF keys = <<>> THEN inbox
              ELSE [i \in Introducers |-> Append(inbox[i], Bodies(Head(out), keys))]
  /\ UNCHANGED <<clientVars, wire, in, historyVars>>

\* The bodies come in the order of the list.
NextBody(m, e) == e \in m.bodies /\ \A f \in m.bodies : e[1] <= f[1]

AfterBodyEmpty(q, e) ==
  <<[Head(q) EXCEPT !.bodies = @ \ {e}]>> \o Tail(q)

\* What is left of q once the body of entry e was taken.
AfterBody(q, e) ==
  LET rest == Head(q).bodies \ {e}
  IN  IF rest = {} THEN Tail(q) ELSE <<[Head(q) EXCEPT !.bodies = rest]>> \o Tail(q)

BodyStays(i, e) ==
  /\ inbox[i] # <<>>
  /\ NextBody(Head(inbox[i]), e)
  /\ \/ inbox' = [inbox EXCEPT ![i] = AfterBody(@, e)]
     \/ UNCHANGED inbox
  /\ UNCHANGED <<clientVars, out, in>>

\* A receiver takes each body once.
TakeBody(i, e) ==
  /\ inbox[i] # <<>>
  /\ NextBody(Head(inbox[i]), e)
  /\ inbox' = [inbox EXCEPT ![i] = AfterBody(@, e)]
  /\ UNCHANGED <<clientVars, out, in>>

\* Whether a body encrypted for entry e can be read by someone with keys ks.
ReadableByAnyone(e, ks) == TRUE

Readable(e, ks) == e[2] \in Known(ks)

\* The entries of ks whose bodies someone with the keys of others can read.
SharedEntries(ks, others) == {e \in EntriesOf(ks) : Readable(e, others)}

\* The introducer cannot read the body, or is not active, or has no answer to it, or
\* the URL does not open.
Skip(i, e) ==
  /\ TakeBody(i, e)
  /\ UNCHANGED <<wire, historyVars>>

AnswerTest(i, e) ==
  /\ TakeBody(i, e)
  /\ Head(inbox[i]).type = "TestAuth"
  /\ Readable(e, KeysOf[i])
  /\ wire' = Append(wire, Bodies(Message("AuthValid", 0), KeysOf[i]))
  /\ UNCHANGED historyVars

\* The introducer says that a request is done.
AnswerRequest(i, e) ==
  /\ TakeBody(i, e)
  /\ LET m == Head(inbox[i])
     IN  /\ m.type \in Requests
         /\ Readable(e, KeysOf[i])
         /\ wire' = Append(wire, Bodies(Message(AnswerTo[m.type], m.note), KeysOf[i]))
         /\ answers' = [answers EXCEPT ![m.note] = @ + Cardinality(SharedEntries(KeysOf[i], keys))]

\* It showed the notification, copied the data or opened the URL.
Serve(i, e) ==
  /\ AnswerRequest(i, e)
  /\ shown' = [shown EXCEPT ![i][Head(inbox[i]).note] = @ + 1]
  /\ UNCHANGED failed

\* The notifier or the clipboard command failed; nobody looks at its error.
ServeInVain(i, e) ==
  /\ AnswerRequest(i, e)
  /\ Head(inbox[i]).type \in {"Notification", "CopyData"}
  /\ failed' = failed \cup {Message(Head(inbox[i]).type, Head(inbox[i]).note)}
  /\ UNCHANGED shown

\* The client's reader takes a body of an answer.
Hear(e) ==
  /\ wire # <<>>
  /\ NextBody(Head(wire), e)
  /\ wire' = AfterBody(wire, e)
  /\ in' = IF Readable(e, keys) THEN Append(in, Message(Head(wire).type, Head(wire).note))
           ELSE in
  /\ UNCHANGED <<clientVars, out, inbox, historyVars>>
-----------------------------------------------------------------------------
Next ==
  \/ RequestKey
  \/ \E ks \in KeyLists : EnterKeys(ks)
  \/ EnterNone
  \/ ReadTesting
  \/ TestTimesOut
  \/ Notify
  \/ RemoteCopy
  \/ OpenURL
  \/ ReadAnswer
  \/ AnswerTimesOut
  \/ Publish
  \/ \E i \in Introducers, e \in Entries : Skip(i, e)
  \/ \E i \in Introducers, e \in Entries : AnswerTest(i, e)
  \/ \E i \in Introducers, e \in Entries : Serve(i, e)
  \/ \E i \in Introducers, e \in Entries : ServeInVain(i, e)
  \/ \E e \in Entries : Hear(e)

Spec == Init /\ [][Next]_vars
-----------------------------------------------------------------------------
(* Properties *)

Asked == [type : {"TestAuth", "RequestAuth"} \cup Requests, note : 0..MaxNotes]
Answered == [type : {"AuthValid"} \cup {AnswerTo[t] : t \in Requests}, note : 0..MaxNotes]
OnTheWay(M) == [type : {m.type : m \in M}, note : 0..MaxNotes,
                bodies : (SUBSET Entries) \ {{}}]

\* Every variable has its type.
TypeOK ==
  /\ pc \in {"request", "prompt", "testing", "ready", "ended", "failed"} \cup Requests
  /\ checkKey \in BOOLEAN
  /\ prompts \in 0..MaxPrompts
  /\ keys \in KeyLists /\ stored \in KeyLists /\ tested \subseteq Keys
  /\ out \in Seq(Asked)
  /\ inbox \in [Introducers -> Seq(OnTheWay(Asked))]
  /\ wire \in Seq(OnTheWay(Answered))
  /\ in \in Seq(Answered)
  /\ note \in 0..MaxNotes
  /\ result \in [Notes -> {"none", "served", "unknown"}]
  /\ shown \in [Introducers -> [Notes -> Nat]]
  /\ answers \in [Notes -> Nat]
  /\ failed \subseteq [type : Requests, note : 0..MaxNotes]

\* A command that does not trust its key goes on, and stores typed keys, only
\* if an introducer has one of the keys that were tested (api/pmb.go:223-270,
\* 288-306): whatever answers come late, one of the keys was right.
GoesOnWithAGoodKey ==
  (checkKey /\ pc \in {"ready", "ended"} \cup Requests) \/ stored # <<>> =>
    \E i \in Introducers : tested \cap Known(KeysOf[i]) # {}

\* Some introducer answered request n although its notifier or its clipboard command
\* failed.
InVain(n) == \E t \in {"Notification", "CopyData"} : Message(t, n) \in failed

\* A command reports as done a request that nobody served only if the command that
\* should have shown or copied it failed, whose error the introducer drops
\* (introducer.go:137, 178; util.go:33-36, 127-130), or an earlier notification on the
\* connection timed out or was answered more than once (api/pmb.go:162-185): several
\* keys or several active introducers.  A URL, the only request of its command, is
\* never reported falsely (openurl.go:62-75).
FalseReportNeedsSurplus ==
  \A n \in Notes :
    result[n] = "served" /\ (\A i \in Introducers : shown[i][n] = 0) =>
      \/ InVain(n)
      \/ \E m \in 1..(n - 1) : result[m] = "unknown" \/ answers[m] > 1

\* An introducer serves a request at most once for each entry of the client's list
\* whose key it has; a key that is there twice counts twice (api/pmb.go:275-286,
\* api/util.go:101-113, 130-153).
ShownOncePerSharedKey ==
  \A i \in Introducers, n \in Notes :
    shown[i][n] <= Cardinality(SharedEntries(keys, KeysOf[i]))
=============================================================================
