# TLA+ models of the Personal Message Bus

PMB carries messages between a person's machines. A **broker** (the websocket
broker of `broker.go`, or RabbitMQ) fans out whatever a client sends to all
clients of a realm. An **introducer** runs where the person sits and serves
requests: copy to the clipboard, open a URL, show a notification, confirm a key.
Commands (`notify`, `run`, `remotecopy`, ...) connect, send a request, wait
a few seconds for the answer, and end. Messages are encrypted with keys that
only the person's machines share.

The repository has no tests. The models are translated from the Go source.

## 1. Inventory

| Component | State | Operations | Interacts with |
|---|---|---|---|
| Websocket broker, `broker.go` | the manager's map realm -> `Broker`; `Broker.clients`, `done`; `Client.send` (256 messages) | accept a connection, add, remove, fan out, retire on a ticker, the reader and writer of each client | three unbuffered channels per broker, one to the manager, two sockets' ends |
| Introducer, `introducer.go` | `active`, its level, the timer | announce, call the roll, step back, take over, serve a request | `Connection.In` and `Out` |
| Mobile notifier, `notify_mobile.go` | the agent's map id -> channel, one waiter per notification, `recentIds` | pass a notification on, wait for its acknowledgement, push, reap | four kinds of goroutine over unbuffered channels; Pushover |
| AMQP transport, `api/amqp.go` | a connection, a channel and a queue per listener | connect both halves; setup request by request, listen, reconnect; publish, reconnect, tell, publish again, signal `Done` | RabbitMQ; `In`, `Out`; the command |
| Websocket transport, `api/ws.go` | the socket in use, its two goroutines, those of earlier sockets | dial, read, write, reconnect | the broker; `In`, `Out` |
| Session, `api/pmb.go` | `Connection.Keys`, the prompts | test a key, ask for one, send a notification or a request and wait for the answer | the goroutines of the transport read `Keys` |
| Commands `remotecopy.go`, `openurl.go`, `notify.go` | the request's answer | one request, its answer or a timeout | session |
| `run.go` with `sendTrigger` | where the process stands, the success it heard of | connect, wait for a trigger, run, send a trigger, stay two seconds | other `run` processes, through the bus |
| Codec, `api/util.go` | none | one body per key; what can be decrypted is passed on | session and transport |
| Key store: `introducer.go:27-52`, `key.go`, `api/crocker.go` | `~/.pmb_key`, the credential helper, the introducer's key | look up, migrate, create, store, clear | files; the helper; the prompt |
| Configuration, `api/config_api.go`, `config.go` | the file of the user and that of the system | layered get and list; set, unset | files |
| Streams, `stream.go`, `sink.go` | position in a file | follow a file, send lines; print lines | connection, which the sender never reads |
| Watch, `watch.go` | the last look at a process or a file | look again, notify | session; file system |
| Shell, plugins, macOS integration, dump, command line, logging, HTTP helper | none to speak of | process starts, printing, files of launchd | |

What makes each of them correct:

* *Broker*: a slow or dead client never holds up the others; it is cut off, not
  skipped; nothing is sent on a closed channel; the manager serves every
  connection although brokers retire under it.
* *Introducer*: one introducer of the highest level serves, whatever crashes,
  reconnects or is lost, and a lower one takes over when it is gone.
* *Notifier*: a notification is pushed if nobody acknowledges it in time, not
  pushed if somebody does, and not twice.
* *AMQP*: who believes to listen gets the messages; a broken connection is set up
  again, next to no leftover of itself; bodies are published in order, each once; who
  waits for `Done` hears it.
* *Websocket transport*: order is kept and nothing doubled over reconnects; the
  command, the reader and the reconnect never wait on each other for good.
* *Session*: no command goes on with a key nobody shares; what is reported as
  displayed was displayed, as far as the code can know.
* *Run*: a command that waits for another's trigger runs after it, and does run if it
  waited in time.
* *Key store*: an introducer that starts again has the key its clients have.
* *Configuration*: what was set is found, what was unset is not.

The hard behaviours are the rendezvous of goroutines (broker, notifier),
unsynchronised reads of another goroutine's state (`done`, `len(clients)`, `Keys`),
messages lost with a connection (introducer, transports, triggers), full channels whose
reader is busy elsewhere (both transports), timeouts that race late answers (notifier,
session), setups that fail half way (AMQP), and files changed by processes that are
killed or meet (key store, configuration). PROJECT.json lists them one by one as
hazards, each at its line.

## 2. Modules and the code

| Module | Models | State and actions |
|---|---|---|
| `RealmBus` | what a broker promises, no goroutines | rooms with one order of messages; Join, Publish, Deliver |
| `Broker` | `broker.go` | one variable per field or goroutine; a rendezvous on an unbuffered channel is one step, what the receiver does with the value a later one; the ticker goes from broker to broker (`checking`), reads `len(clients)` in one step (`TickSees`) and retires in the next (`Retire`). Implements `RealmBus` with every `Broker` object as a room |
| `Introducer` | `runIntroducer` over `api/ws.go` | `out[i]` is `conn.Out` and what the loop waits to put there, `inbox[i]` all between the broker and the loop, `fresh[i]` what came over a new socket before openWS could put `Reconnected` into `In`; `conn[i]` and `old[i]` are the socket in use and the writers of earlier ones. One action per case of the loop, and Publish, Disconnect, LoseOut, OldWriterEnds, Dial, Reconnect, Crash |
| `NotifyMobile` | `notify_mobile.go` | main loop, agent, waiters, pusher; each rendezvous is one step of both sides |
| `AmqpListen` | `listenToAMQP`, `setupListen` | one step per request to the server; the server's queue, its consumers, and those whose connection is broken |
| `AmqpSend` | `connectAMQP`, `sendToAMQP`, `setupSend` | the two halves' reports over `done`, the sending loop body by body, the command at the other end of `In`, `Out` and `Done` |
| `WsTransport` | `api/ws.go`, `copyKey`, the way `stream` uses a connection | three kinds of command (asks, streams, copies), `openWS`, and the reader and writer of every socket opened so far; a reader ends with its socket (`ReadFails`) or at its own deadline (`ReadExpires`), a writer writes a message body by body |
| `Session` | `api/pmb.go` with `api/util.go`; `remotecopy.go`, `openurl.go`, `notify.go` | the client step by step, its list of keys, messages on their way with the entries whose bodies are still to be taken, the introducers' answers, also those given in vain (`ServeInVain`); while a request is on, `pc` is its kind |
| `RunTrigger` | `run.go`, `sendTrigger`, and `testAuth` as it reads past triggers | any number of processes, each with the trigger it waits for and the one it sends, and the writer of its last broken connection (`old`) |
| `KeyStore` | the key of an introducer with `--persist-key`, `key store`, `key clear`, `api/crocker.go` | file, helper, and the start of every introducer step by step; the file may not let itself be written or removed |
| `ConfigFiles` | `api/config_api.go`, `config.go` | two files with their entries; load, change, truncate, write of every command; as history the names each file or copy may have out of date (`overtaken`, `behind`) |
| `MC*` | | the values the `.cfg` files need; `MCSettings` composes `KeyStore` and `ConfigFiles` |
| `BrokerProofs`, `IntroducerProofs`, `NotifyMobileProofs`, `AmqpProofs`, `WsTransportProofs`, `SessionProofs`, `RunTriggerProofs`, `SettingsProofs` | | theorems, section 5 |

The components meet as follows. `Broker` is what `WsTransport` dials and what
`Introducer` publishes into; a Disconnect there is an eviction or a dead socket
here. What an old writer may do is the same in `WsTransport`, `Introducer` and `RunTrigger`: take
a message and lose it, or deliver it over a socket only the reader gave up. `AmqpListen` and `AmqpSend` are the two halves of one AMQP connection; their names
are kept apart (`ListenSpec` and `Spec`) so that `AmqpProofs` can extend both. `Session`
and `RunTrigger` are commands on top of either transport.

Definitions keep the names of the code where they have one. A definition that
nothing in a specification uses (`EvictKeeps`, `EqualDeactivates`, ...) stands before
the definition it is a faulty variant of; each property of a run fails if the
right definition is replaced by its variant, as `mutants` in PROJECT.json lists.

Abstractions worth knowing:

* A data race (`Broker.done`, `len(broker.clients)`, `conn.Keys`) is an interleaving of
  whole reads and writes.
* The ticker begins only while there is a fresh `Broker` object for every realm
  (`SpareBrokers`), so that the bound on objects never holds up the manager.
* `RunFanOut` is one step: only run() touches the map, and a writer that
  takes a message during a fan-out could have taken it before or after.
* The broker trims and joins lines (`broker.go:111`): bodies of PMB hold neither.
* A timer may fire at any time it is armed. In `Introducer`, where a timer that
  overtakes messages would fire for ever, it fires when nothing is on its way, or as
  one of at most `MaxDisturbances` disturbances. Crashes, disconnections and requests of
  clients are the others.
* In `Introducer` the broker's cut-off of an introducer is a Disconnect. `lost[i]` is history: the
  types of message an old writer took and lost although i had heard of its reconnect.
* In `Session` a body is the entry of the list it was encrypted for. `failed` is history: the
  requests answered although the notifier or clipboard command for them failed. Lost messages are answers
  that come after the timeout, as timers are not tied to anything; other clients'
  traffic is left out, and a second active introducer is like a second shared key. A
  command sends notifications or one copy or one URL, as they do in the code.
* In `WsTransport` and `AmqpSend` messages are numbered, and messages of others are not told
  apart.
* In `AmqpSend` what is published on a broken connection is lost whether or not Publish
  returns an error: the library may notice late.
* In `RunTrigger` a message reaches at once whoever is connected. `In` is kept only while
  the process may still read a trigger from it. The prompt for a key is left out.
* `KeyStore` takes the credential helper, `ConfigFiles` the ini library as external. Both
  `WriteFile` and `SaveTo` empty the file before they write. A write that fails leaves the file as
  it was, empty, or with a part of the key, which is a key of its own. The two modules share no
  state, so `MCSettings` lets each move only while the other is in its initial state.
* RabbitMQ, Pushover and the peers of sockets are external; the comments in the modules
  say what is assumed of them.

## 3. Runs

| Run | Instance | Shows |
|---|---|---|
| `broker_safety` | 2 connections, 1 realm, 2 `Broker` objects, buffers of 1, 3 messages (400,000 states) | no send on a closed channel, no double close; the manager never waits for a stopped broker; refinement of `RealmBus` |
| `broker_liveness` | the same with 2 messages, fair | readers get their turn, evicted clients are disconnected, dead peers forgotten, every connection started |
| `notify_agent` | levels 2 and 4, 3 notifications (copies count), 1 acknowledgement, window of 1, fair | the agent's map holds live waiters; debouncing; acknowledged are not pushed; unacknowledged are |
| `notify_late_ack` | violation | an acknowledgement at the wrong moment stops agent and main loop for good |
| `introducer_failover` | two introducers, levels 2 and 1 or both 2, `Out` of 2, `In` of 1, 2 disturbances, fair (280,000 states) | only the highest are active once all is received, unless an old writer lost what would have told; they always are, on a tie both; step back; take over, unless one waits between two full channels |
| `amqp_listen` | 3 processes with one id, 3 faults, fair | the server's consumers listen or are leftovers; listeners are attached; no rival leftover; a lost connection is set up again unless one more breaks during a setup or another process has the id |
| `amqp_deaf` | violation, 1 process, 2 faults | "reconnect forever" ends in a nil channel or a queue nobody ever deletes |
| `amqp_send` | channels of 1, 4 messages of 2 bodies, one cannot be marshalled, one is awaited, 2 breaks, 3 messages of others, fair | bodies in order, none doubled or passed over; every message and every wait ends, or `Reconnected` waits for room in a full `In` |
| `ws_client` | 4 messages of 2 bodies, one cannot be marshalled, 2 sockets, `In` and `Out` of 1, 2 messages of others, fair | order kept, nothing doubled, nothing lost that came whole; reconnects; what is sent leaves `Out`, unless the connection breaks with a full `In` that the command does not come to read |
| `session` | 3 keys, lists of up to two (doubles too), 1 introducer with two of them, 2 prompts, 3 notifications or one copy or URL (2 million states) | goes on with a good key only; a wrong report needs a notifier that failed or a surplus answer; served at most once per shared entry |
| `run_trigger` | two builds with one trigger, a test that waits for it, a report that waits for the test and runs always, 1 break with a writer that outlives it, fair | commands run in order; who waits in time goes on, but for the three ways to lose a trigger |
| `settings_kept` | 2 introducers, 3 keys, 2 kills, 2 key commands, writes that fail; 2 writers, 2 names, 2 values, 3 jobs, 1 kill (650,000 states) | a later start has the key of the last, if that was stored; lookups find what was asked for last, the user's first, of every name not overtaken |

Why the bounds are enough. A broker's hazards need one client that is slow and one
that sends, a buffer that is full, one more message after the eviction, and one broker
retired next to one that is not. The liveness run has one realm: the brokers of two realms meet in the
manager alone, which the proof covers for any number. The notifier's need a waiter, a second one for
the same or another id, and an acknowledgement between any two steps. Two introducers
and two disturbances cover a disturbance during the recovery from another; safety is
proved for any number (section 5), so this bound matters for liveness only. An `Out` of two takes what
an introducer sends at its start and blocks on the next; an `In` of one is full after one message, so
the loop may wait for an old or a new writer, and for ever when both channels are full and no
writer is left (`Stuck`). The exception
`Stuck` of `LowerStepsBack` happens in this run; `TakesOver` holds in it without one, as an introducer that stepped
back and is then stuck alone takes more disturbances than these. Three
processes in `AmqpListen` are one that listens, one that checks
and one that declares. In `AmqpSend` two bodies and four messages let a connection break
before the first body, between the two and after the reconnect, with one message before
and one behind in `Out`. In `Session` the third key is nobody's: one good,
one bad and one prompt more than needed. `WsTransport` has two sockets, so that the writer of the first may take,
lose or deliver messages beside that of the second, four messages for an `Out` of one, so that
commands block, two bodies, so that a write may fail between them, and an `In` that is full after one
message; its safety is proved for any number of each. `RunTrigger` has a chain of two triggers, the first with two senders and the last
with a receiver that ignores failures: order must hold along it. In `MCSettings`
two values and two files tell the old from the new and the user's from the system's, three jobs let two commands meet
and a third one load what they left, and the second kill may hit the recovery from the first.

Deadlock is checked in `amqp_listen`. The other systems do stop
when the bounded number of messages, sockets, jobs or connections is used up and
everybody waits for more, in `Session` when the key is given up, and in `AmqpSend`,
`WsTransport` and `Introducer` in the real deadlock their properties name.

### Fairness

* *Broker*: what a goroutine can do alone is weakly fair. A rendezvous with run()
  or the manager is strongly fair: senders on a Go channel queue up in order,
  and select picks among ready cases at random. Reads on a dead socket fail in the end
  (the read deadline, `broker.go:97`). Peers owe nothing, nor does the ticker, except that it goes through
the brokers once it has begun (`Ticker`), for the manager does nothing else meanwhile.
* *NotifyMobile*: the same, and timers fire, Pushover answers or fails. The bus owes
  nothing.
* *Introducer*: the loop and the goroutines of the connection are weakly fair, a broken
  connection is dialled until it works (`api/ws.go:68-80`), an old writer's select
  sees in the end that its reader has ended (`api/ws.go:130-133`), the timer fires when nothing is
  on its way. Crashes, starts and clients owe nothing. Disturbances are bounded,
  so the liveness properties speak of what follows the last one: a client that sends
  something every thirty seconds for ever does keep a lower introducer from taking
  over (`introducer.go:112`). Three introducers need real time to be told apart from one
  that announces itself for ever, so liveness is checked for two.
* *AmqpListen*: requests end, the server notices dead connections, dialling works
  in the end. Nobody has to break, start or exit.
* *AmqpSend*: setups end, the goroutines are scheduled, dialling works in the end; strong
  fairness for `Tell`, as the listening half competes for the room in `In`. The command comes
  back from its waits and, unless it is one that never reads, reads.
* *WsTransport*: goroutines are scheduled, a dead socket fails reads and pings in the end
  (`api/ws.go:89-93, 154-159`); strong fairness for a writer that takes from `Out`, as old
  writers compete for it; a command that reads reads on, and comes back.
* *RunTrigger*: a process that can go on does, commands end, connections are
  made again. Nobody has to start, and the two seconds may be over before the
  trigger has left: `Publish` has no fairness, nor have `Lose` and the old writer.
* `Session`, `KeyStore` and `ConfigFiles` state safety only.

## 4. What the code does that its texts do not say

Shown by the two violation runs:

* `notify_mobile.go:91`: the agent sends on `complete` while the waiter sends on
  `reapChan`. Both wait for ever, and with them the main loop.
* `api/amqp.go:273`: the error of Consume is dropped, and the listener waits on a
  nil channel. A setup that fails after `QueueDeclare` leaves a queue that never
  had a consumer and is never auto-deleted; all retries find the id taken.

Met while modelling, without a run. Where a property would fail, its statement in the
module names the exception. Connections and messages:

* `broker.go:197`: a broker with a client on its way is retired although the log says it "has no
  clients". The client goes on alone in a broker that later clients of its realm
  do not reach.
* `broker.go:51`: the goroutine of a retired broker never ends.
* `api/pmb.go:178`: any NotificationDisplayed for the connection counts as the answer,
  though the introducer sends the notification's id. A late answer is taken for that to
  the next notification.
* `notify_mobile.go:96`: a second copy of a notification orphans the waiter of the first,
  which then pushes an acknowledged notification. Copies come from senders
  with several keys, so `AcknowledgedNotPushed` speaks of single ones.
* `api/amqp.go:253`: two processes with one id can both pass the passive declaration.
* `api/amqp.go:237`: every failed `setupListen` leaves its connection open, and
  connectAMQP leaves one goroutine waiting on `done` when the other setup failed first.
* `api/amqp.go:96`: the sender waits for room in `In` while the command waits for room in `Out`
  or for `Done`. Nobody goes on (`HeldUp` in `AmqpSend`).
* `api/amqp.go:101`: the error of the publish after a reconnect is dropped, and `Done` reports
  success for a body that is lost.
* `api/ws.go:129-148`: the writer of a socket that is over may take one more message off `Out`, maybe after the
  command heard of the reconnect, and lose it. A trigger lost so is never sent again; an
  announcement or a roll call lost so leaves two introducers active (`Unheard` in `Introducer`).
  If only the reader gave the socket up, two writers may deliver beside each other and change the order.
* `api/ws.go:58`: `openWS` waits for room in `In` before it starts the new goroutines. A command
  that waits for room in `Out` meanwhile, the introducer's loop as well, waits for ever (`Deaf` in `WsTransport`,
  `Stuck` in `Introducer`).
* `api/ws.go:136`: a message JSON cannot hold is dropped, and its `Done` would never be signalled.
* `introducer.go:137, 178`: the errors of the clipboard command and of the notifier are dropped, and the
  introducer answers as if all was done.
* `api/pmb.go:275`: a key that is in the list twice makes every message go out twice, and be served twice.
* `api/ws.go:17`: `connectWS` takes no notice of `sub`: over a websocket a stream goes to everybody in
  the realm.
* `stream.go:74`: `stream` never reads `In`, so ten messages of others stop its
  connection for good. The same happens to a `run` whose command takes long
  (`run.go:91`): the notification and the trigger at its end may meet a dead connection.

Commands:

* `run.go:57`: a process that stops after the failure it heard of sends no trigger itself, so an
  `--always` process behind it waits for ever.
* The exit status of `run` is that of its notification, not of the command.
* `watch.go:93`: a watched file that is removed makes the command panic.
* The option text names `PMB_PUSHOVER_USER_KEY`, the code reads `PMB_PUSHOVER_USERKEY`
  (`notify_mobile.go:15, 38`).

Keys and configuration:

* `introducer.go:46`: the error of WriteFile is dropped, and the introducer runs with a key that was not
  stored, or in part; the next start has another one. One that is killed in WriteFile leaves an empty key file; every later
  start takes it for a key and ends up at the prompt.
* `introducer.go:36`: killed between Store and Remove, it leaves a file that brings back a key which
  was cleared in the helper meanwhile.
* Two introducers that start at once keep different keys.
* `key store -f` with a file that is not there stores an empty key, and the exit codes of
  `key clear` are the wrong way round (`key.go:94-101`).
* `api/config_api.go:37`: of two `config set` at once one is lost; one that is killed while it saves
  loses the file; who reads meanwhile finds no broker. A key without a dot makes `splitKey` panic.

## 5. Proofs

Every safety property of the passing runs is a theorem, and so is the refinement of
`RealmBus`. Liveness is model-checked only: fairness and ENABLED are out of the
prover's reach. No module has a RECURSIVE operator.

The theorems hold for all values of the constants that satisfy the assumption of the
module. `BrokerAssumption`, `IntroducerAssumption`, `NotifyAssumption`, `AmqpAssumption`, `SendAssumption`,
`WsAssumption`, `RunAssumption`, `SessionAssumption`, `KeyAssumption` and `ConfigAssumption` say that levels, bounds and
capacities are natural numbers, that a channel that has a buffer holds at least one message
(and a command of `WsTransport` sends at least one, a notifier remembers at least one id, a
session makes at least one request), and that a sentinel is none of the values it
stands beside (`NoneAssumption` for the notifier's message, and `Nothing` and `Blank` for keys).
Beyond that: an introducer has a list of keys within `MaxKeys`; there is a name to configure; and a
message whose sender waits for `Done` can be marshalled, as the one of `copyKey` can.

Each proof rests on an inductive invariant, named `IInv` where there is only one. What has to be
added to the property is what the code relies on and says nowhere:

* `BrokerProofs`: `TypeCorrect`, `NeverSendsOnClosed`, `ManagerAlwaysServed`. The type
  invariant is not inductive alone: that a fan-out stays within capacity is, but that
  `broker[c]` is a broker when its reader uses it needs the order in which the
  manager works. The inductive invariant adds *Registered* (a broker in the
  manager's map runs and was not told to stop, no two realms share one),
  *ManagerAdds* (the manager adds a client to the registered broker of
  its realm), *TickerChecks* (while the ticker goes through the brokers the manager adds nobody, as it is the
  same goroutine, and what it looks at is registered) and *MembersOpen* (a member belongs to that broker, has its goroutines and
  an open channel, and so has one on its way into the map).

  `BrokerImplementsBus` is the refinement: a room is a `Broker` object, a client has joined once run()
  put it into the map. `StreamInv` is invariant beside the above. Its part *OnceOnly* says that a
  message is with one reader, with one loop or in one log, which makes a fan-out a Publish of a new
  message. *Streamed* says that what a client received, followed by its buffer, is a stretch
  of the log from where it joined, up to the end of the log while it is a member and perhaps ending
  earlier when it was cut off; so the writer's next message is the next one of the room. Then
  `RunAdd` is a Join, `RunFanOut` a Publish, a write a Deliver, and every other step a stutter
  (`JoinStep`, `PublishStep`, `DeliverStep`, `BusStep`).

  `ClientsAgree` draws the conclusion for any two clients, with steps of `RealmBus` alone: a message has
  one place in the logs, a client received a stretch of its room's log, so what both
  received came to them in one order, with as many messages between, and nothing came twice. No run checks
  it separately.
* `IntroducerProofs`: `TypeCorrect`, `LowerStepBackWhenSettled`, `HighestServes`. For the second, the
  invariant says what is *owed* to an active introducer that is outranked: one of the two
  is disconnected or has still to hear `Reconnected`, or a roll call is on its way to the
  higher one, or an announcement on its way to the lower one; or one of these was taken by an old
  writer and lost after the reconnect was heard of (`Unheard`, the exception the property names). Each step keeps one
  of them true, and when nothing is on its way, only the last can be. That a message may be lost *before*
  the reconnect is heard of does no harm, since `Reconnected` is still to come then. For the third it says that
  every announcement, in `Out`, in an inbox or on a fresh connection, carries the level of some introducer
  (*AllGenuine*): what the highest one hears can then never exceed its own level.
* `NotifyMobileProofs`: `TypeCorrect`, `ChannelsAreLive`, `SendsAreDebounced`, `AcknowledgedIsNotSent`. Debouncing
  needs *RecentAreLast*: `recentIds` is exactly the end of the sequence of ids that were sent,
  so an id that is not in it was not sent within the window. For the last theorem,
  *OneWaiterEach* says that a notification that came once has one waiter, if it has come to the
  agent, and *EitherWay* that this waiter has not sent it while it waits and is not past an
  acknowledgement when it pushes.
* `AmqpProofs`, listening half: `ListenTypeCorrect`, `ListenersAreAttached`, `GhostsAreWaitedOut`. The three are
  inductive together: a consumer of the server that is no leftover belongs to a process that
  listens, so a queue found absent cannot hold a leftover of anyone. Sending half:
  `SendTypeCorrect`, `BodiesKeepOrder`. `BodiesInOrder` says already that what was published is what
  comes before the body at hand; it is inductive once the body at hand is that of a
  message that was taken and could be prepared (*AtHand*) and a command that may wait for `Done`
  knows of both halves (*Connected*). The two halves are specifications of their own,
  nothing is proved of them together.
* `WsTransportProofs`: `TypeCorrect`, `OrderIsKept`. The writer of an old socket may take messages beside the
  new one. *TakenInOrder* says that `Out` holds the messages not yet taken, in order, that each
  writer holds one of its own which nobody got whole, and that a writer whose socket works may
  write its next body without breaking the order. It rests on *OldSocketsExpired*: a socket that works although
  a newer one was opened is one whose reader gave up, so the order between the two is the one the property
  leaves open.
* `SessionProofs`: `TypeCorrect`, `OnlyGoodKeys`, `FalseReportsAreSurplus`, `OncePerSharedKey`. For the first
  safety property, *TestsAreTested*: a TestAuth on its way carries keys that count as tested,
  and an AuthValid on its way stands for an introducer that has one of them. For the others a
  count: the bodies of a request that an introducer has still to take and can read, and what it has
  shown, together are no more than the entries of the client's list whose key it has (*ServedAsSent*); an
  answer that may still be read was counted when it was given, the request then served or counted as failed, and
  one that ends the wait of a request is its own unless an earlier one left a surplus (*AnswersAreCounted*).
* `RunTriggerProofs`: `TypeCorrect`, `CommandsRunInOrder`. The invariant follows a trigger: one that is
  pending, one in an `In` and the success that a process heard of each stand for a process that
  sends that trigger and has ended its command with that success. It holds
  for any graph of triggers, cycles included.
* `SettingsProofs`: `TypeCorrect`, `KeyIsReused`, `SettingsAreKept`. An introducer is *calm* while nobody meddles
  with its start and its key could be written; *DiskAt* says, stage by stage, what file and helper hold then, so a kill
  at any stage leaves the next start the same key, and *StartsAlone* that no other one is in its
  start. For the files, *FilesAreKept*: a name that was not overtaken is in the file as asked for; whoever is
  at a file is going to write its own change there and, of the names it is not behind with, what was asked for;
  and a writer that saves makes the file's overtaken names those it was behind with.

## 6. Not modelled

* Encryption, JSON and wording (`api/util.go` beyond which body is for whom).
* The HTTP helper: no command reaches it.
* `watch`: when it notifies is a matter of real time and the file system only; the notification
  is `Session`'s. Following a file in `stream` and printing in `sink` for the same reason.
* `shell`, plugins, macOS integration, dump, option parsing, logging, version: they start
  processes, write files of launchd or print, and keep no state of the bus.
* Real time and resource use (leaked connections and goroutines).

## 7. Plan

Proofs to come: what a step may never undo, as action properties that follow from the invariants at hand
(in `Session` a key that was settled, in `KeyStore` a key that was persisted), and the sending
and the listening half of an AMQP connection together.

Models to come: liveness of the election under a third disturbance and among three introducers.

The list of runs is kept to a dozen: a new run takes the place of a run whose question another
one can answer as well.
