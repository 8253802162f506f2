# A TLA+ model of ecstoolkit

ecstoolkit is a Go library for AWS ECS. Most of its operations are short sequences
of AWS calls; shell and port-forwarding sessions use SSM: a websocket to the
SSM message gateway, over which a numbered, acknowledged stream in each direction
carries a shell or forwarded TCP connections. These modules model both: the
session code, which is concurrent throughout, in most of them, and the sequences
of AWS calls, any of which can fail or lose its answer, in one.

Paths below are relative to the repository's source tree (`src/` in
PROJECT.json); a definition keeps the name of the function it models wherever
one action is one function.

## Inventory

| Component | State | Operations | Hard because |
|---|---|---|---|
| Data channel, client to agent (`datachannel/datachannel.go`, `listmessagebuffer.go`) | sequence counter, outgoing buffer | `SendInputDataMessage`, `processAcknowledgedMessage`, `resendStreamDataMessageScheduler` | up to four goroutines send without a lock around load, write, add and push; the scheduler and the listener work on the same buffer |
| Data channel, agent to client (`datachannel.go`, `mapmessagebuffer.go`, `message/handshakemessage.go`) | expected number, incoming buffer, session type, encryption, handlers | `handleOutputMessage`, `handleHandshakeRequest`, `handleEncChallengeRequest`, `handleHandshakeComplete`, `processIncomingMessageBufferItems`, `RegisterOutputStreamHandler`, `establishSessionType` | messages come early, late and twice; handlers are registered by main while the listener uses them; the handshake changes how buffered messages are read |
| Connection (`datachannel.go`, `communicator/websocketchannel.go`, `retry/retryer.go`) | `isOpen`, the current connection, pingers, retry counts | `Open`, `listen`, `reconnect`, `Close`, `ReadMessage`, `startPings`, `Call` | main and the listener both open and close; attempts fail half way; pingers belong to no connection |
| Shell session (`session/shellsession`) | terminal modes and the saved ones, `shutdown`, `SizeData`, three goroutines | `NewShellSession`, `SetSessionHandlers`, `Stop`, `handleTerminalResize`, `disableEchoAndInputBuffering` and its inverse | the terminal must be put back on every way out, and each run of stty can fail; a goroutine may be blocked on stdin; Stop runs on the listener |
| Basic port forwarding (`session/portsession/basicportforwarding.go`, `portsession.go`) | stream, mutex `mu` | `InitializeStreams`, `ReadStream`, `WriteStream`, `Stop`, `HandleControlSignals`, `reconnect` | the mutex is held while waiting for a client |
| Multiplexing port forwarding (`muxportforwarding.go`) | both ends of a unix socket and its file, local listener, a stream and two copiers per client, three nested contexts | `InitializeStreams`, `ReadStream`, `handleClientConnections`, `handleDataTransfer`, `Stop`, `HandleControlSignals` | nine kinds of goroutine, synchronised only by contexts and closed connections; Stop runs in two goroutines |
| Standard stream forwarding (`standardstreamforwarding.go`) | stdin, stdout | `InitializeStreams`, `ReadStream`, `WriteStream`, `Stop` | the listener writes and stops while main initialises and reads, without a lock |
| Message codec (`message/*.go`) | none | serialise, deserialise, validate | eleven offsets that depend on each other, signed and unsigned widths, damaged frames |
| Retransmission timing (`calculateRetransmissionTimeout`) | smoothed round-trip time and variation, timeout | update on acknowledgement | computed by the listener in two assignments while the scheduler reads it |
| Agent version checks (`version/`) | none | compare, supports-feature | malformed parts, early returns, thresholds that depend on each other |
| Encryption (`encryption/`) | keys | encrypt, decrypt, challenge | cryptography; what matters here is whether it succeeds |
| Executor (`executor/`) | the AWS session | start, open, construct, register, run | each step can fail with the steps before it done; the listener runs from the third on |
| Cluster operations (`cluster/`) | in ECS; `userID` | `Autoscale`, `Start`, `Stop`, `Scale`, `ReplaceTaskDefinitionTag`, `Deploy`, `Restart`, `RunConsole`, `DescribeAllServices` | several AWS calls each, any of which fails or loses its answer, beside other users and an autoscaler |
| Session facade, utilities (`session/session.go`, `util/`, `jsonutil/`, `log/`) | none | delegate; checked integer conversions | ends of integer ranges |

How they interact. Main starts the session at AWS (SessionLifecycle), opens the
channel (Connection), waits until the listener has learnt the session type from
the handshake (IncomingStream), constructs the plugin that type and agent version
ask for, registers its handlers and runs it. The listener then calls the session's
handler for each data message (`WriteStream`, or the terminal), removes
acknowledged messages from the outgoing buffer, and on `channel_closed` calls the
session's `Stop`. The session's goroutines send through `SendInputDataMessage`
(OutgoingStream); a session whose listener has died learns it only from a failed
send.

What makes each correct: an accepted message is resent until acknowledged and
numbers have no gaps (out); ordered, at-most-once delivery without a gap once the
session is ready, and no acknowledged message forgotten (in); no leaked socket,
bounded retries, a stopped channel stays closed (connection); the terminal gets
its modes back and every goroutine ends (shell); clients are not mixed up, nobody is
served after Stop, and every goroutine ends (ports); input is sent or its loss
reported (standard streams); a frame has its fields side by side or is refused,
and damage to what a check covers does not pass (codec); nothing is sent again before its answer is
late (timing); a stopped service stays stopped and task definitions are replaced
whole (cluster). PROJECT.json lists the
hazards one by one with the properties that cover them.

## Modules

* **OutgoingStream** – `SendInputDataMessage` is the four actions `SendLoad`,
  `SendWrite` / `SendFail`, `SendAdd`, `SendPush` of each sender, since nothing
  excludes other goroutines between them; `ForcePushBack` and `RemoveIf` are the
  buffer's methods. The scheduler takes a copy of the front (`ResendFront`) and
  writes it (`ResendWrite`, `ResendFail`). The agent and the network lose, delay
  and reorder. A message is its UUID and its number. Time is abstracted: a tick
  that finds the front not due changes nothing.
* **OutgoingTiming** – extends OutgoingStream by a clock: an age per message, the
  three estimates of `calculateRetransmissionTimeout` as exact fractions over one
  denominator, and `CapTimeout`, the second of its two assignments. The result is
  truncated to a `Duration` in the code; ages are whole units, so comparing with
  the fraction decides the same.
* **OrderedDelivery** – what the incoming half promises, in four variables.
* **IncomingStream** – one `Receive...` action per payload type, for the expected
  message, `ReceiveAhead` for a later one, `AckFails` and `DataFails` for the
  errors, `DrainOne` / `DrainStop` for `processIncomingMessageBufferItems`; the
  main goroutine's `EstablishSessionType`, `RegisterFlag`, `RegisterRead`,
  `RegisterAppend` (an unlocked `append`, so a read and a store), and
  `InitializeStreams`. A sent message never leaves the network, so it can arrive
  late, twice and in any order. Encryption is one flag per message.
  **MCIncomingStream** gives nine agents: shell and port with and without KMS,
  agents that send data at once, and requests the client cannot meet.
* **Connection** – `Open` on main and `listen` on the listener share the steps of
  `reconnect` (`Reconnect`, `Dial`, `SendToken` and their failures); connections
  are numbered so that a leaked one can be told; `RetryOrGiveUp` is the loop of
  `Retryer.Call`; pingers are counted.
* **ShellSession** – the terminal is the set of its modes that are on, of the two
  the session changes, and may start in any of them; `getState` saves them, and
  each run of stty is a step that may fail, changing nothing; the goroutines of
  the errgroup; the listener's `ChannelClosed`; sizes of the window. A panic can only come before
  `SetShutdown`, which it therefore disables.
* **BasicPortForwarding** – the reader's two long critical sections are a `Lock`
  and the steps up to the unlock; the short ones of the others are one step that
  needs `mu` free. `sent` records what the agent is told, and in which order.
* **MuxPortForwarding** – the acceptor and dialler of `initialize`, the transfer,
  serving, one opener and two copiers per client, `Stop` step by step for each of
  its two callers, the set of cancelled contexts, and the socket's file. The
  behaviour of smux (closing a session closes its connection; keep-alive timeout)
  is external.
* **AgentVersion** – `compare` and the feature checks as operators on sequences of
  parts; a part that is not a number is `Junk`.
* **SessionLifecycle** – the whole of a session as the executor runs it: main's
  steps up to the plugin, each of which can fail; the choice of the plugin with
  AgentVersion; standard stream forwarding in full, with its reader and the
  listener's `WriteStream` and `Stop`; the result. The other plugins have modules
  of their own and only run and return here.
* **SafeInt** – the conversions of `util/safe.go`, with the limits as constants.
* **MessageCodec** – writers, readers, offsets, `SerializeClientMessage`,
  `DeserializeClientMessage` and `Validate` as operators on sequences of bytes,
  and a frame's way through them, with damage in between: a cut anywhere, or a
  byte of any field altered. Slicing the payload off beyond the end of the frame
  panics. `Layout` is the frame that the order and the lengths of the constants in
  `types.go` give. The widths are constants. **MCMessageCodec** makes bytes of 8 values, integers of 2 bytes and
  longs of 3, a digest that tells the instance's payloads apart, and 12964
  messages at the ends of every field's range, payloads too long for an int32 or
  a uint32 included.
* **ClusterService** – an operation is begun (`Begin`) with the list of AWS calls
  it will make, and each of them is a step that takes effect and is answered,
  takes effect and loses its answer, or fails (`CallFails`). `DescribeScalableTargets`,
  `NextPage` and `DescribeServices`, one call per chunk, decide what is left to do.
  `ListServices` is a constant, the services of each scheduling strategy;
  `DescribeAllServices` pages through those of `REPLICA`. `RunTask` may also panic:
  on an answer without a task, and before the call for a service without an awsvpc
  network. **MCClusterService** gives six services, one of them a `DAEMON`. The autoscaler, which decides an
  activity at one moment and concludes it at another, and the console tasks are
  external. `steady` and `zeroed` record whether a Stop was disturbed and whether
  its scaling took effect.
* **OutgoingProofs**, **IncomingStreamProofs**, **ChannelProofs** (of Connection
  and MessageCodec: a channel's connection and the frames on it),
  **ShellSessionProofs**, **BasicPortForwardingProofs**, **MuxPortForwardingProofs**,
  **SessionLifecycleProofs**, **ClusterServiceProofs** – theorems.

Definitions whose names contain an underscore (`RemoveIf_Cumulative`) are mutants:
plausible mistakes in the definition that follows them. They are used by no
specification; putting one in place of its original must violate the property
PROJECT.json pairs it with.

## Runs

Run them in this directory: `tlc -config <cfg> <module>`.

| Run (cfg) | Instance | Shows |
|---|---|---|
| `outgoing_timed` (OutgoingTimed) | 1 sender, capacity 2, 3 messages, ages up to 7, maximum 5 | contiguous numbers and an ordered buffer, with eviction; nothing resent before its answer is late |
| `outgoing_shared` (OutgoingShared) | 3 senders with the listener, capacity 2, 2 messages | no silent loss although two messages may share a number; the buffer drains |
| `incoming` (Incoming) | 9 agents, capacity 2, up to 6 messages | refinement of OrderedDelivery, acknowledged messages kept, only plain text handed over, everything consumed; registration returns, with the handler installed but for the append race |
| `connection` (Connection) | 4 calls per retry, 2 read errors | no leaked connection, a live pinger, stopped stays closed, retries and pingers end |
| `shell` (Shell) | every combination of modes at the start, 2 sizes, 2 resizes | which modes the terminal is left in, after every failure of stty too, raw while in use, a new size reaches the agent, a cancelled session ends |
| `basic_port` (BasicPort) | 2 clients, 3 sends, 2 messages, 2 signals | clients kept apart, no nil write, Stop is final and ends the session |
| `mux` (Mux) | 1 client | both ends in place, socket file removed, port closed at the end, Stop unwinds everything |
| `session` (Session) | all plugins, 99 agent versions, 2 chunks of input, 3 messages | the plugin fits the agent, no write before there is a stream, lost input is reported, Stop ends the session |
| `codec` (Codec) | 12964 messages, every cut, every other value of every byte of a frame | the fields side by side or an error; what damage can pass, and what can panic |
| `cluster` (Cluster, module MCClusterService) | 2 users, 2 calls, 2 containers, 3 tags, counts up to 1, 5 replica services in pages of 3 and chunks of 2, one daemon | Stop lasts, a revision comes from one replacer, all replica services are described, every operation ends |

Bounds. Each is the least that lets the interesting case happen: more messages
than the buffer holds (single sender) and two messages in flight at once (shared);
a maximum timeout below the largest age, so that it caps;
an incoming stream long enough to fill the buffer twice; more than one reconnect
and more than one attempt in each; a second client after the first; two callers
of Stop; versions on both sides of each threshold and malformed in each part; a
last page and a last chunk that are not full; two operations of one user or one
of each of two; three tags, because with the first revision on one of two tags any
mixture of two replacements would look like one. A frame is damaged once, by one cut
or in one byte. `Int32Limit` is 2 in `cluster` and 32 in `codec`: what matters is
the values at and around it, all of which occur. With three messages the liveness check of `outgoing_shared` takes too
long; its two invariants are proved for all bounds. One client is enough for
`mux` because clients meet only in the cancelled context, which one can cancel.
Deadlock is not checked: every one of these systems may stop, because the
session has ended or because its environment has nothing more to say.

Fairness. A goroutine that can take a step does (weak fairness per goroutine, the
Go scheduler). BasicPortForwarding needs strong fairness where a goroutine waits
for `mu`, which Go's mutex gives by handing over to a waiter. Nothing is assumed
of users, clients or the agent, with these exceptions, all on the environment:
in OutgoingStream (`NetworkFairness`) writes, deliveries and acknowledgements
that are tried again and again succeed again and again, without which no
retransmission protocol drains; in IncomingStream the agent sends what it has
and retransmits what is not acknowledged; in SessionLifecycle stdin delivers
something or ends at some time, because closing it does not wake a Read; and in
ClusterService an AWS call returns, with an answer or an error, as the SDK's
timeouts ensure, while nothing is assumed of the service. In MuxPortForwarding a
panic ends the process, hence the guard `Running`.

### Where the code disagrees with its own text

Two runs are expected to be violated; PROJECT.json quotes the lines.

* `outgoing_resend_limit` – `ResendGivesUp`: `Front` returns a copy, the attempt
  is counted on it, and `ResendMaxAttempt` never takes effect.
* `connection_resume` – `ReconnectResumes`: after a successful reconnect `listen`
  handles the nil message of the failed read, fails, and closes the channel.

Met while modelling, present in the models' behaviours, and not kept as runs:

* Data that waited in the incoming buffer was acknowledged on arrival and is
  dropped if the handler is not ready when it is drained (`DrainOne`), although
  line 986 of `datachannel.go` acknowledges "only if session specific handler is
  ready".
* `ReadStream` of the basic forwarder holds `mu` while it waits for the client, so
  output for the client, and a control signal's `Stop`, wait until the client
  sends something or hangs up.
* A multiplexed connection that the remote side ends first gives `net.ErrClosed`
  on the local read, which is not one of the excused errors; its `cancel` ends
  serving of all clients (`CopyUpFails`, `AcceptConnectionReturns`).
* Because `LastSentTime` too is set on the copy, an overdue front is resent at
  every tick of the scheduler (`TimedResendFront`).
* Two concurrent senders can give two messages the same sequence number
  (`SendLoad` before the other's `SendAdd`).
* A data message that arrives before the session is ready is counted although it
  was neither acknowledged nor handed over, so its retransmission is ignored
  (`ReceiveData`; OrderedDelivery's `Skip` allows it before readiness).
* `RegisterOutputStreamHandler` and `deregisterOutputStreamHandler` race on the slice
  of handlers, and the session's handler can be the one that is lost (`RegisterRead`,
  `RegisterAppend`), although the former's comment (`datachannel.go`, line 259) says
  that it registers a handler. `SessionStarts` excepts this race (`AppendRaced`).
* `Stop` "restores the terminal settings and exits" (`shellsession.go`, line 125), but
  the last run of stty (line 247) turns echo on whatever the saved settings were: a
  terminal with echo off has it on afterwards (`EnableEchoAndInputBuffering`,
  `TerminalLeft`).
* `DescribeAllServices` "returns a list of all services in the cluster"
  (`cluster.go`, line 101), but asks for the scheduling strategy `REPLICA` (line 110)
  and leaves out every `DAEMON` service (`Replicas`, `ReplicasDescribed`).
* An unknown handshake action is answered with `ActionStatus` 0, because
  `Unsupported` is stored in `ActionResult` (`StatusOf`).
* A `channel_closed` message between `NewShellSession` and `SetSessionHandlers`
  calls the nil `shutdown` (`ChannelClosed`).
* A stty that fails half way leaves the terminal changed (`TerminalLeft` says how):
  when `stty -echo` fails (`shellsession.go`, line 235) cbreak stays on, because the
  restoration is deferred only after all three runs; when restoring fails, cbreak
  stays on and echo off. The saved state is handed back to stty with the newline at
  the end of `stty -g`'s output; a stty that does not take it is this last case.
* In a multiplexing session, a message before `muxClient` is set dereferences nil
  (`IsStreamNotSet`); a control signal during initialisation is consumed without
  effect, or removes the file that the dialler needs so that the acceptor waits
  for ever; and after `ReadStream` has ended with `io.EOF`, Stop does not end the
  session (hence the exception in `StopEndsSession`).
* An `io.EOF` ends `listen` without closing the channel, so senders learn of it
  only from a failed write (Connection).
* A `channel_closed` message that comes before `RegisterStopHandler` is swallowed
  (`ChannelClosedMessage`), the end of stdin ends a session without waiting for
  output, and `OpenDataChannel` waits for ever when the listener dies before the
  session type is known (SessionLifecycle).
* A session that AWS has started is not terminated when a later step on this side
  fails (`MainFails`).
* `SafeInt32` does not check the lower end of the range: a size below it wraps
  (`Scale` reaches it; ECS then refuses negative results, others are taken).
* `Scale` by "min" or "max" without a scalable target does nothing and returns nil
  (`DescribeScalableTargets`).
* Two users who replace tags at once both start from the latest revision, and the
  later registration lacks the other's replacement. `RunConsole` leaves its task
  behind when waiting fails or times out.
* `RunConsole` takes `res.Tasks[0]` without a look (`cluster.go`, line 191) and
  panics when `RunTask` answers with failures only; it panics already when it
  builds the call for a service whose `NetworkConfiguration` is nil. `CallsEnd`
  therefore says that it ends, not that it returns.
* An autoscaling activity that is under way when Stop suspends scaling still
  concludes, and raises the count again after Stop has set it to zero. `StopHolds`
  excepts it.
* The comment in `types.go` calls the MessageID "a 40 byte UTF-8 string" (line 110).
  The constants give it 16 bytes and `PutUUID` writes the binary UUID, least
  significant half first; `Layout` and the theorem about it follow the code.
* `Validate` compares the digest of the payload and nothing else of the content, so a
  message whose sequence number, flags, type, version, date, ID or payload type was
  altered passes; a `PayloadLength` altered to 0 turns the comparison off. An altered
  header length beyond the end of the frame panics in `DeserializeClientMessage`
  (`clientmessage.go`, line 90). `DamageContained` bounds the damage to these.
* A message with an empty payload cannot be serialised: `PutBytes` refuses the
  empty range (`Fits` of MessageCodec). The two publication types are not
  validated, so a damaged one passes (`DamageContained` excepts them).

## Proofs

Run `tlapm <module>.tla` for each of the eight modules. They prove every safety
property of the passing runs, for every value of the constants that the named
assumptions allow, the bounds included.

**OutgoingProofs**, for any set of senders, any capacity above 0, any limit of
attempts and any number of messages (`ConstantsAssumption`):

* `TypeCorrect` – `TypeOK` is inductive (it is proved and not checked in a run). The work is in the buffer:
  `ForcePushBackBuffered` and `RemoveIfBuffered` say what a push and an
  acknowledgement do to the set of buffered messages; they rest on lemmas on
  `Append`, `Tail` and `RemoveAt`, and on `MinOfNaturals` for the position that
  `RemoveFirstMatch` picks.
* `OnlyWrittenCorrect` – inductive together with `TypeOK`; `WrittenGrows` says
  that no step unwrites a message.
* `NoSilentLossCorrect` – `NoSilentLoss` alone is not inductive: an
  acknowledgement removes a message, and that is harmless only because the
  acknowledged number was received. The inductive invariant is
  `TypeOK /\ OnlyWrittenOnWire /\ NoSilentLoss`.
* `SequenceContiguousCorrect` and `BufferOrderedCorrect` – under `OneSender`, a
  hypothesis of the two theorems and not an assumption of the module: the code
  does not enforce it, and without it both are false (two goroutines between Load
  and Add). `OneSenderInv` ties everything to `Pushed(s)`, the number of messages
  pushed: the message at work carries that number, the accepted ones carry all
  numbers below it, once each, and what is buffered or evicted was accepted. A
  push keeps the order of the buffer because its number is above all accepted ones.

and, with the clock, for any defaults, granularity and maximum timeout as long as
the default timeout is not above the maximum (`TimingAssumption`):

* `TimedImplementsUntimed` – every timed step is a step of OutgoingStream or a
  stutter, so the theorems above hold with the clock.
* `NoEarlyResendCorrect` – the invariant `TimingInv` says that the timeout is at
  least the last round trip measured, or at least the maximum, and that the
  estimates are naturals. It is inductive because of the weights:
  `EstimateCovers` shows that 7/8 of the old round trip, 1/8 of the new and four
  times a variation that has taken in a quarter of their difference are at least
  the new one; with the weights exchanged this fails. Beside it the proof needs
  `TypeOK`, `OnlyWrittenOnWire` and `IdsInv`, by which the messages that are
  acknowledged and resent have an age at all.

**IncomingStreamProofs**, for any set of agents (any streams of messages), any
capacity and any length of the session:

* `AckedKeptCorrect` and `BufferAheadCorrect` – inductive together (`BufferInv`):
  an acknowledged message stays kept because the buffer gives up only the
  expected one, and that one is then counted.
* `HandedPlainCorrect` – by `KeyInv`: the agent encrypts only after a good answer
  to the KMS action, the client gives it only with its encrypter in place, and no
  step takes the encrypter away; so there is a key wherever there is ciphertext,
  also for what waited in the buffer.
* `OrderedDeliveryCorrect` – IncomingStream implements OrderedDelivery: Init maps
  to Init, and each step to `Deliver`, `Skip`, becoming ready, or a stutter. It
  needs `OrderInv`: no part of the handshake ever waits in the buffer
  (`HandshakeInv`), the handshake is over once main has been told of the session
  type (`SessionInv`), so readiness, once reached, is not taken back, and
  everything handed over is counted except a last message whose acknowledgement
  failed (`HandedBehind`). It uses `HandshakeFirst`: in the agent's stream only
  messages the agent waits for an answer to come before a control message. The code relies on
  it, because it looks for handshake messages only among those that arrive in
  order (`DrainOne` takes everything for data). All nine agents of the run meet it.

**ChannelProofs**, first Connection, for any limit of retries and any number of
read errors:

* `PingerAliveCorrect`, `NoLeakedConnectionCorrect`, `StoppedStaysClosedCorrect` –
  all from `ConnectionInv`. Its parts: main opens only as long as there is no
  listener, so the two never open or close at once (`OneOpener`); who is about to
  dial has closed before (`DialsClosed`); a channel that is not open has closed
  its last connection (`ClosedBefore`); and a stopped listener is at a point from
  which it can only find the channel closed (`StopLasts`).

then MessageCodec, for bytes of any number of values, integers, longs and fields
of any number of bytes and any set of messages. `CodecAssumption`: the limits of
int32 and int64 are half of what their bytes can count (2^31 and 256^4 in the
code), and the header is shorter than an int32 can say. `MessagesAssumption`: a
message type neither starts nor ends with a blank, as none in `types.go` does;
`GetString` would trim it. `DigestAssumption`: the digest has its length and
differs for a payload and all that can be misread for it (`Misread`: its damaged
forms, and the tails of the frame that an altered header length picks), which is
what SHA-256 is used for.

* `ReadWritten` and `WrittenRead` – numbers and bytes survive the way there and
  back. Both are inductions over the bytes. The library's induction theorems
  cannot be used here, but well-foundedness can: it gives every nonempty set of
  naturals a least element (`LeastNatural`), hence induction in terms of sets
  (`AllNaturals`), hence that a recursive function exists and obeys its equation
  (`Recursion`), which the provers need before they can use `Place` and `Unsigned`
  at all. After i bytes `Unsigned` has the first i digits of the number
  (`PlaceDiv`, `OneMoreDigit`); a negative number is off by exactly the weight of
  the whole (`DivShift`).
* `FrameIsLayoutCorrect` – the offsets are adjacent (`Offsets`, `PartTypes`), so no
  write covers another's bytes (`WritesStand`), and the frame, put together field
  by field (`PrefixExtend`), is the layout (`FrameOfFitting`). `AcceptedFits` is the
  other direction: what one of the writers refuses does not fit.
* `DamageContainedCorrect` – each reader undoes its writer (`GetStringIs`,
  `GetUUIDIs`, ...), so a frame with the header of m is read as m with whatever
  payload follows (`HeaderRead`, `BehindHeader`). A cut frame is unreadable or read
  with a shorter payload (`CutRead`); an altered byte changes the reading of its own
  field and of no other (`HeaderAltered`, `PayloadAltered`, `DigestAltered`,
  `LengthAltered`). What is misread for the payload then fails the digest
  (`MisreadRefused`), so that what passes is damaged in none of the covered fields
  (`DamagedPasses`), and the slice is out of range only behind an altered header
  length (`OutOfRange`). `CodecInv`, the inductive invariant, says of every step
  which frame is under way, the one that was sent or a damaged one, and what was
  made of it.

**ShellSessionProofs**, for any sizes and any number of resizes:

* `TerminalLeftCorrect` and `RawWhileRunningCorrect` – by `ShellInv`: from the first
  run of stty on the saved modes are the original ones, and until main returns the
  terminal's modes are a function of these and of where main is; goroutines run only
  while main waits for them.

**BasicPortForwardingProofs**, for any bounds:

* `TypeCorrect` – types, and that `mu` is held exactly in the reader's critical
  sections.
* `NoClientAfterStopCorrect` and `NeverWritesNilCorrect` – both from `StreamInv`,
  which adds what the stream can be at each point of the reader. Its heart is
  `reader = "reaccepting" => ~stopped`: between the Close in `reconnect` and the
  next accept `mu` is held, so no Stop can come in.
* `ClientsSeparatedCorrect` – by `SeparationInv`: the flag follows the data of
  every client but the present one, and, before the next is accepted, of every
  client. It is about the sequence of all messages sent, so each step is a lemma
  on appending.

**MuxPortForwardingProofs**, for any set of clients:

* `StreamsReadyCorrect`, `SocketFileGoneCorrect`, `PortClosedAtEndCorrect` – from
  `MuxInv`: each end of the socket is set exactly when the goroutine of
  `initialize` that sets it is done (`EndsSet`), `ReadStream` starts its
  goroutines only then and returns after `handleClientConnections` (`Started`),
  and the port is open only while that runs (`PortServed`).

**SessionLifecycleProofs**:

* `MultiplexingImpliesTerminateFlag` – for every version string, of any number of
  parts, numbers or not (`JunkAssumption` only says that a malformed part is no
  number): if `compare` finds it at or above the threshold of multiplexing, then
  also at or above that of the terminate flag. It is a fact about `compare` and
  the two thresholds of `config.go`, and the run's 99 versions are instances of it.
* `MuxKnowsTerminateFlagCorrect` – with it, by `ChosenByVersion`: nothing changes
  the version after the plugin was chosen by it.
* `WriteHasStreamCorrect` – the listener is at its write only after it found the
  stream, and no step sets it back.
* `LossIsReportedCorrect` – by `LossInv`: losing input is the last thing the
  reader does, and what it returns decides the result.

**ClusterServiceProofs**, for any users, containers, tags and services, pages and
chunks of any size above 0 (`ClusterAssumption`, `SafeIntAssumption`). What ECS lists
for a strategy is a sequence of services and does not change while it is paged through
(`ListServicesAssumption`); it describes a chunk in the order in which it was asked:

* `StopHoldsCorrect` – `StopHolds` speaks of finished operations only. `StopInv`
  adds where an undisturbed Stop is: before its suspension, between suspension and
  scaling, or over, and that from the suspension on it is `Quiet` (every mode
  suspended, no activity under way), which is what keeps the autoscaler out
  (`EnvironmentKeeps`). All other operations are dealt with at once
  (`OtherStepKeeps`), because none of them is at one of Stop's calls. An operation
  disturbed by another user or by an activity under way at its suspension is outside
  the theorem, as outside the property.
* `RevisionsWholeCorrect` – `RevisionsInv` adds what an operation holds between
  its two calls (`CallFits`): one about to register has a replacer and the number
  of a revision that exists, and later revisions take none away.
* `ReplicasDescribedCorrect` – `ServicesInv` says how far a DescribeAllServices
  is: it has described all that is listed (`Listing`), or all before the next chunk
  of the page (`Describing`); `ChunkContinues` is the arithmetic of a chunk that may
  be shorter than the others.

Only model-checked: the liveness properties (fairness and ENABLED are outside
the prover's reach).

## Not modelled

* Encryption (AES-GCM, the KMS calls): a library; IncomingStream has what it
  decides, whether there is an encrypter and whether a payload decrypts.
* JSON: payloads of the handshake and of acknowledgements, `messageparser.go`,
  session properties. The models have the values, not the text.
* `GetFirstTaskARN`, `DescribeServiceTaskDefinitions` and `AggregateLogGroupARNs`
  of the cluster: they read and change nothing.
* What keys and signals translate to, logging, display and formatting carry no
  state.

## Plan

Done: the inventory; modules for every component but encryption, with the abstract
specification of delivery; proofs of all safety properties.

1. Extend the model: two clients in the multiplexing session; a composition of
   Connection with OutgoingStream, so that buffered messages meet a reconnect.
2. Prove more: what the extended model adds; type invariants as theorems where
   they are only parts of an inductive invariant.
