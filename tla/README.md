# TLA+ models of can-lite

can-lite is a small client-server protocol over CAN 2.0B: one client, many
servers, commands with sequence numbers and acknowledgements, heartbeats in both
directions, ISO-TP segmentation for long payloads, and a firmware upgrade
category.  The code is single threaded: every entry point (a received frame, a
driver completion, a timer, an application call) runs to completion, but it runs
callbacks on its way, and those call back into the library.  The models below
take one such entry point as one step.

## Inventory

### Components

| Component | State | Operations | Correct when |
|---|---|---|---|
| `CanFrameTransport` (`core/`) | `current`, `currentRetries`, `sendQueue`, `counters` | `SendFrame`, `SendRawFrame`; the driver's completion | one frame with the driver; queue bounded and ordered; reserve kept; each accepted frame reported once; emergencies tried again; losses counted |
| `CanProtocolServer` (`server/`) | sequence number, rate counts, `counters`, `clientOnline`, three timers, `heartbeatPending`, categories, ISO-TP pointer | receive a frame or a PDU, register, unregister, attach, detach; timers | commands in order; budgets separate; one heartbeat pending; never silent; silent client offline |
| `CanProtocolClient` (`client/`) | eight sequence slots with an ack timer each, last reservation, eight liveness entries, discovery | send a command (reserve, cancel, return), receive (ack, list, anything), discover; timers | numbers match the server's again after any loss; each awaited command ends once; online and offline in pairs |
| `CanCategory` and the system category | registered message types | dispatch to handler; heartbeat, status and list requests | every command has one handler or an error answer |
| `IsoTpSender`, `IsoTpReceiver` (`transport/iso-tp/`) | state, buffer, timers, block and wait counts, transfer token | send a PDU, flow control, frames, completions, timeouts | PDU delivered unaltered or abort reported once; never stuck |
| `IsoTpChannelImpl`, `IsoTpTransportImpl` | ids, occupied, reception enabled | open, release, send, route a frame | identifiers of open channels disjoint; no work on a released channel |
| `FirmwareUpgradeCategoryServer`, `...Client` (`categories/firmware_upgrade/`) | session timer | begin, block, verify, activate, abort, progress; completions | an expiry follows something accepted; sessions end; a response comes before its acknowledgement |
| `SlcanAdapter` (`drivers/implementation/`) | port, link state, replies counted, timer, pending completion | connect with a handshake, disconnect, send, poll | connected only by the replies to its own commands; the driver contract |
| `GsUsbAdapter`, `PcanAdapter`, `KvaserAdapter`, `SocketCanAdapter` | handles of the operating system or a vendor library, an outstanding read, pending completion | connect, disconnect, send, poll | nothing held is lost; a send completes once and later; told what is |
| `MultiCanAdapter` | active backend | the same, passed on | at most one backend open; a backend left behind closes |
| `SocketCanNetlink` | a route socket | configure the bitrate | the rate asked for or an error; a link that is set is left alone |
| `PosixSerialPort` | descriptor | open, write, read | a command on the line is whole |
| codecs (`CanFrameCodec`, `CanPayload*`, `IsoTpFrameCodec`, `SlcanCodec`, `GsUsbProtocol`) | decoder state at most | encode, decode | round trip, saturation, bounds |
| tracing decorators | none | forward and print | - |
| FOC motor example (`examples/foc_motor/`) | none of its own: the application's completions | commands with payloads, faults, telemetry | an answer is read as it was written; a response comes before its acknowledgement |

### Interactions

* Everything a node sends goes through its `CanFrameTransport`, which calls
  `hal::Can::SendData`; the driver answers later, once per call.  The transport
  calls the `onDone` of a frame (on completion, or at once when the frame is
  displaced by another send) and `onSendNotification`, with which client and
  server start their heartbeat interval anew.
* The server offers received frames to an attached ISO-TP transport, which may
  deliver a PDU from inside the call and may send flow control frames.
* A category handler may answer through the server (`SendCommandAck`) or its
  transport.
* The client gives numbers to commands (`CanSequenceSource`), the transport's
  `onDone(false)` gives a number back, an acknowledgement with `sequenceError`
  replaces the counter.

### What is hard

* Callbacks inside a send: displacement runs another frame's `onDone`; it clears
  `heartbeatPending` or gives a sequence number back.
* The queue at its two limits (capacity and the ordinary share).
* Retransmission of emergencies with a counter that belongs to the current frame.
* Numbers committed before a handler and restored after it; urgent commands that
  overtake queued ones.
* Single-shot timers that must be started anew on every path.
* ISO-TP: flow control that comes before a completion, completions of a transfer
  that ended, an abort callback that releases the channel which is still at work.
* Numbers end to end: an emergency overtakes commands that carry lower numbers,
  and acknowledgements arrive late or not at all.
* Firmware: completions that arrive after the session ended.
* Adapters: callbacks in the middle of a poll loop that close what the loop
  reads; one slot for a deferred completion; connections that fail half-way; a
  second connect during a handshake; replies that are not matched to requests.

`PROJECT.json` lists these hazards at their lines with the properties that cover
them.

## Modules

| Module | Models |
|---|---|
| `FrameDelivery` | abstract: what a user of the transport may rely on: a set of waiting frames behind one on its way |
| `CanFrameTransport` | `core/CanFrameTransport.{hpp,cpp}` with the driver as its environment |
| `CanFrameTransportProofs` | theorems about it, for TLAPS |
| `CanProtocolServer` | `server/CanProtocolServer.{hpp,cpp}`, the system category, dispatch, over `FrameDelivery` |
| `CanProtocolServerProofs` | theorems about the server, and about the two categories of `MCCategories`, whose handlers it dispatches to |
| `ClientSequences` | the client's sequence slots, acknowledgements and their timers, over `FrameDelivery` |
| `ClientLiveness` | the client's liveness entries, their timers and what observers hear |
| `CanProtocolClient` | `client/CanProtocolClient.{hpp,cpp}`: both parts together, discovery, heartbeats, registration, ISO-TP attachment |
| `ClientSequencesProofs` | theorems about the numbering |
| `CanProtocolClientProofs` | theorems about the liveness entries, about the whole client, and about the command link |
| `CommandLink` | the numbers end to end: the client's counter and queue, the server's check, commands and acknowledgements that are lost |
| `IsoTpFrameCodec` | `IsoTpFrameCodec.cpp`: encoders and decoders as operators on byte sequences |
| `IsoTpSender`, `IsoTpReceiver` | the two halves of a channel, each with its peer and the transport below as environment |
| `IsoTpTransport` | `IsoTpTransportImpl.cpp` and `IsoTpChannelImpl.cpp`: to which channel a call or a frame belongs |
| `IsoTpSenderProofs`, `IsoTpReceiverProofs`, `IsoTpProofs` | theorems about the two halves alone, and about their composition in `MCIsoTp` with the channels |
| `PduDelivery` | abstract: what segmentation promises |
| `IsoTpLink` | a sender and a receiver with the bus between them; implements `PduDelivery` |
| `FirmwareUpgrade` | server and client of the firmware upgrade category with the application and the bus |
| `FocMotor` | server and client of the example category |
| `CanBusAdapter` | abstract: what every host adapter promises the protocol above it |
| `GsUsbAdapter`, `PcanAdapter`, `KvaserAdapter`, `SocketCanAdapter`, `SlcanAdapter`, `MultiCanAdapter` | the adapters of `drivers/implementation/`, each with its driver as environment |
| `SocketCanNetlink` | how an interface is given its bitrate, with the kernel |
| `PosixSerialPort` | the serial port below slcan: opening and writing |
| `HostAdapterProofs` | theorems about the adapters as `MCHostAdapters` puts them together |
| `MC...` | constants for TLC, bounds where the model has none, and the models that share a run |
| `MCDrivers`, `MCExchanges` | the runs `drivers` (`MCCanFrameTransport` and `MCHostAdapters`) and `exchanges` (`MCCategories` and `MCCommandLink`) |

### CanFrameTransport

`current`, `currentRetries`, `sendQueue` and `counters` are the fields of the
class; a frame is the call it came from (`no`) and its priority, data and
callbacks are left out.  `SendRawFrame` has the four outcomes of the code:
`SendAtOnce`, `Enqueue`, `DisplaceNewestLeastUrgent`, `Refuse`; `OnSendComplete`
is `RetryCurrent` or `ConcludeCurrent`, which hands the next frame to the driver
and then reports the last one.  `inFlight` is the driver (external): the
`SendData` calls it has not answered.  It answers each once and not from inside
the call, as the booklet's HAL chapter demands.  Callbacks run last in each
handler, so a callback that sends again is simply the next step.  The remaining
variables are history: what each call returned, how often each frame was tried,
what its `onDone` was told.

`FrameDelivery` has neither queue, driver nor retransmission.  The refinement
maps the queue to the set of its elements and the histories to the outcome of
each frame.

### CanProtocolServer

`ProcessReceivedMessage` follows the code: address, budget (`RefuseOverRate`,
`ConsumeBudget`), ISO-TP (`ConsumedByIsoTp`, which may dispatch a PDU inside the
step), `Dispatch` (routing, empty payload, sequence number), handler, `Conclude`.
A received frame is what the server tells apart: addressed or not, urgent or
not, category, what the message type is to that category, first payload byte.
The application's handlers may accept or reject; one that accepts may send one
frame in the step, and what else it sends follows as `ApplicationSends`.
`CommitSequence` followed by `RestoreSequence` is no change.

Sends are `FrameDelivery` steps, so a send may displace a waiting frame: `OnDone`
clears `heartbeatPending` when that frame, or a finished one, was a heartbeat.
Timers are armed or not and may expire at any time they are armed.  The rate
timer repeats and is always armed.  `SequencedCategories` are the application
categories that keep the default of `RequiresSequenceValidation`; the runs have
one that does and one that does not, as the code has.

### The client

`ClientSequences` has the eight `serverStates` (`maxServers` slots).  A slot's
`awaitingAck`, `awaitingCategory` and `awaitingMessageType` are one field,
`awaiting`: the call number of the command, which says what it was, or 0.  Its
`ackTimer` is the call it was started for, so that an earlier deadline can be
told from a later one.  `SendCommand` is the whole of
`CanCategoryClient::SendCommand`: `ReserveSequence` with its claim and eviction,
the send, and `CancelReservation` when the transport refuses.  The field
`lastReservation` lives for that step only: a refused send runs no callback, and
no callback comes between the reservation and the send.  A send that is accepted
may displace another command, whose `onDone(false)` returns its number inside
the step (`ReturnSequences`); a frame that is lost later does so in `FrameDone`.
Acknowledgements are any the bus can carry, at any time; one that a
driver delivers inside the send is the next step, since the code does nothing
after an accepted send.  Two histories serve
the properties: how the wait for each command ended, and from which call on the
numbers of a server count.

`ClientLiveness` has the `serverLiveness` entries with their timers; `reported`
is what observers have been told.  `MarkServerAlive` has the three branches of
the code, `HandleServerTimeout` frees the entry of the node it captured.

`CanProtocolClient` composes the two: it extends `ClientLiveness` and has
`ClientSequences` as the instance `Numbering`; a received frame is one step of
both and of the discovery.  `ImplementsParts` states that the numbering takes
only its own steps in it, so what holds of the part holds in the client.

### CommandLink

The client's `counter` for one server, the commands its transport holds, the
server's `last` number and the acknowledgements on their way back.  An emergency
goes ahead of the ordinary commands in `queue`, which are then marked
`overtaken` (a mark only properties read).  A command may be lost by the bus, or
fail in the transport, which gives its number back; an acknowledgement may be
lost.  `use` is how the application uses the client, chosen at the start: how
many commands it has under way (1: it awaits each answer or gives it up), whether
the server's handlers reject some payloads, and whether the way is lossy.

### ISO-TP

`IsoTpFrameCodec` has the frames byte by byte, since sender and receiver decide
by their lengths and nibbles.  `IsoTpSender` and `IsoTpReceiver` have the fields
of the classes; a timer is in `timers` when it runs.  A frame handed to the
transport below is refused, which runs `onDone(false)` and so the abort inside
the same step, or its completion is owed in `owed` with the transfer's token;
completions come in order and arbitrarily late.  `ended` and `outcome` count and
record how transfers end.  `onDone` and `onAbort` of the sender are its last
calls; the receiver's abort report of a superseded reception is not, which is
`IsoTpTransport`'s subject: there a channel is what occupies it (busy sending,
busy receiving, reception enabled) and `interrupted` is `ProcessFrame` while it
runs that report, so that the application's calls in it (`CallsInAbort`) come
before the rest of the handler.

`IsoTpLink` joins the two halves.  Its PDUs differ in every byte, so a byte in
the wrong place shows.  `Late` timers may fire while what they wait for is still
under way.  `headless` is history: a first frame was lost on the bus, or failed with
frames of its transfer queued behind it, which then go out without it.
`PduDelivery` promises that what is delivered was offered, unaltered, each at most
once and in order.

### Categories

`FirmwareUpgrade` has one command on its way, the commands whose completion the
application owes (`pending`; it completes each once, in any order, as late as it
likes), the answers on their way and the session timer as ticks since its start.
Handlers check the observer and the length before they ask the application; an
answer may be refused or lost on its own, and an application may attach at any time,
also after commands were answered without one.

`FocMotor` keeps the payload layouts as lengths: a command and an answer have as many
bytes as their encoder writes, and the handler at the other end takes them only if
they are as many as it reads.  `waiting` is the server's frames as they were sent;
the most urgent leaves first, the oldest of several.

### Host adapters

Each adapter has its driver, operating system or vendor library as environment:
what the system holds for the adapter (handles, sockets, loaded libraries, reads
given to the driver) is kept apart from what the adapter's members say, so that
the two can differ.  Connections fail at every step at which the code checks.
The receive callback and the observer's `OnError` may call the adapter while its
own function is interrupted; what they call is `CallsInCallback` (`CallsInReceive`
and `CallsInError` for the router), and a function goes on where it was, with
the locals it had (`count`, `frames`, `read`).  A send's completion is scheduled
in the event dispatcher and runs from there.

`SlcanAdapter` includes the device: lines are acknowledgements, errors and
frames, and carry the number of the attempt they answer for the properties only.
Its application connects at any time, in a handshake and before the device has
answered an earlier attempt; `disturbed` is what an attempt meets of the others.
`MultiCanAdapter` has any backends; those of `Handshaking` connect in two steps.
`overruled` remembers that the application took the router from a backend in the
`OnError` of its loss.  `SocketCanNetlink` has one request and one reply at a time;
a send may fail, which carries nothing out and queues no reply, and a receive may,
which leaves its reply queued.  `failed` lists both.  `PosixSerialPort` counts which
bytes of which command the line took.

All callbacks call anything, with one exception: a gs_usb adapter is not connected
from its own callbacks (`CallsInCallback`), nor by the router from the `OnError` of
the gs_usb backend, since the interrupted loop would start a second read (see
Observations).

`CanBusAdapter` is what they promise: the observer was told what `IsConnected`
says, frames are delivered over a connection only, a send completes exactly once,
after the call that made it and before the next.

## Runs

Several models share a run where they answer the same question.  A variable that is
chosen at the start and never changes selects the one that is run (`use` in
`MCCanProtocolClient` and `CommandLink`, `part` in `MCIsoTp`, `chosen` in
`MCCategories` and `MCExchanges`, `adapter` in `MCHostAdapters`, `transports` in
`MCDrivers`); the variables of the others keep their values.  These modules state the
fairness of each part again, for its steps in the shared next-state relation.

| Run | Shows |
|---|---|
| `drivers` | of the transport: queue order, bounds and reserve, one frame with the driver, exactly one report per accepted frame, retransmission of emergencies, counters, fairness of refusal; refinement of `FrameDelivery` with its fairness.  Of the adapters: nothing held is lost sight of; every adapter refines `CanBusAdapter`; what is reported happened, under the conditions `ReportsAreTrue` states; no handshake stays under way |
| `server_commands` | commands handled in sequence, separate budgets, each frame accounted for once |
| `server_sending` | at most one heartbeat, known as pending exactly while held; never silent; a silent client goes offline |
| `client_sequences` | one slot per server; open waits are timed with their own deadline; numbers are not reused; a refused command leaves no trace |
| `client_giveback` | a finding: a number is given back although a later command took the next one |
| `client` | the whole client takes only the steps of its numbering; reports in turn, timed entries; each wait and each discovery ends, once; heartbeats go on; silent servers go offline |
| `isotp` | no wait without its timer; transfers and receptions end, once; stale completions change nothing; identifiers disjoint; nothing outlives a release; the link refines `PduDelivery`, with late timers until a first frame is lost |
| `isotp_release` | a finding: a channel released in the report of a superseded reception goes on receiving |
| `isotp_mixed` | a finding: with late timers and a lost first frame two PDUs are delivered as one |
| `exchanges` | with two commands under way none that was overtaken is accepted afterwards; a rejected payload costs one sequence error; after any disturbance commands are accepted again; a firmware session expires only after something was accepted and always ends; responses come before their acknowledgements and are read as written |
| `command_link_overtaken` | a finding: with three under way an overtaken command is accepted |
| `adapters_overruled` | a finding: who takes the router from a lost backend in `OnError` never hears of the disconnection |

Each property of a passing run has one mutant or more in `PROJECT.json`: a
definition of the code is replaced by one with a plausible bug (the operators
marked `Mutation` in the modules), and TLC finds the property violated.  The
properties of the runs that share models are conjunctions, one for each part, or
speak of one of them.

`TypeOK` of the server, the client, the ISO-TP modules and `FirmwareUpgrade` says
which values the variables have; the runs do not list it.

### Bounds

* Transport: depth 3 with a reserve of 1, two retransmissions, three priorities
  (emergency, two ordinary), five sends.  One frame with the driver and three
  waiting fill the queue, with ordinary frames at their limit of two, with
  emergencies beyond it, and the fifth send displaces or is refused; a full queue
  of emergencies refuses an emergency.
* Server, commands: three frames are enough for a command, a rejected one and the
  next; numbers modulo 3 tell repeated, next and skipped apart; budgets of 2 and 1
  are exceeded; two application categories, one with sequence numbers, and a limit
  of two registered ones, so that the limit is met.
* Server, sending: depth 2 with a reserve of 1 and four sends: a heartbeat waits
  behind a frame and is displaced, refused or lost, and another follows.
* Client, sequences: two slots for three targets (two servers and the broadcast
  id), so slots are evicted and the eviction is undone; three sends over a queue of
  one with commands of two urgencies: one frame with the driver, one that waits and
  is displaced or stays, one refused.  Numbers modulo 4 do not come round in three
  sends, and the number 3 of a sequence error wraps at the next.  Servers are
  alike, and all properties of this run treat them alike, so they are a symmetry;
  the runs with liveness properties do without it.
* Client, whole: one slot, one entry and two servers, so that both are taken from
  one server by another.  Three sends with commands, four with discoveries and
  heartbeats, six received frames when servers come and go (`MaxFrames`, which
  `MCCanProtocolClient` adds): the rotation of entries comes round.
* ISO-TP halves: PDUs of none, one, three and four frames and one that is too
  long; block size 2, so that a block ends inside and at the end of a PDU; two
  wait frames tolerated; every kind of flow control and of malformed frame; three
  transfers and one release, so that two transfers come after the one whose
  completions are late.  The token has its 256 values.
* Channels: two channels for four identifiers, each call from the abort report
  but `release`, which is the finding.
* Link: PDUs of one frame, of two (shorter than the next) and of five over blocks
  of two, three transfers, any frame lost on the lossy and on the late link.  On the
  late link `LinkDelivers` asks for the steps of `PduDelivery` until a first frame has
  been lost (`Mixes`); `isotp_mixed` is what may come after, with PDUs of 7, 13 and
  30 bytes.
* Command link, in `exchanges`: numbers modulo 16, which the commands of a run do not get
  through between an error and its effect; up to three commands under way, three
  emergencies, two losses.
* Categories, in `exchanges`: a timeout of two ticks, three commands, two completions owed; two
  commands and a fault for the motor.
* Adapters, in `drivers`: polls of three or four frames, a library loaded three times, so
  that a poll meets the library of an earlier connection; two attempts of a
  handshake; three items on a line; three bitrates, of which a controller
  supports any; commands of three bytes, taken in up to three pieces; a router
  over one backend that connects at once and two with a handshake.

### Fairness

* `OnSendComplete`: the driver answers every `SendData` (its contract).  Nothing
  makes anybody send, and nothing makes a send succeed.
* `HeartbeatTimerExpires`, `HandleClientTimeout`: an armed timer expires.  A timer
  that is started anew for ever would not; frames and sends are bounded, so here
  it is started anew finitely often.
* `HandleCommandAckTimeout`, `HandleServerTimeout`, `DiscoveryTimeout`,
  `SendHeartbeat`: the client's armed timers expire.  A wait starts its timer anew
  only with another command, an entry with another frame; both are bounded.
* `FrameDone`: the transport concludes each frame, which `drivers` shows of it.
* ISO-TP: an armed timer fires unless what it waits for comes first (the fairness
  is that of the timeout or the frame together).  Between them no peer owes a
  frame.  A link that is not late moves what is on its way; the late link has no
  fairness.
* Command link: the application goes on sending, and what is not lost arrives.
  Losses are bounded, so the property is about what happens after the last.
* Categories: time passes, and a timer that is due fires.
* Adapters: a function or callback that runs returns (weak); the dispatcher comes
  to a scheduled completion and a timer to its end whatever else runs in between
  (strong: a burst of frames disables them for a moment at a time); a device that
  answers does so in the end (weak).

Deadlock is not checked: in each passing run a bound on sends, frames, transfers or
commands lets a model stop, or one of the models that share the run.  That nothing
waits for ever is what the liveness properties say.

## Proofs

`CanFrameTransportProofs` proves for all values of the constants that satisfy
`TransportAssumption`, every number of sends included:

* `TransportInvariant`: `Spec => []IInv`.  `IInv` is the conjunction of the named
  invariants, and all are needed: that the queue stays ordered shows that its last
  frame is the least urgent, so that the reserve holds when it is displaced; that
  held frames were accepted and not yet reported (`FramesAccountedFor`,
  `ReportedExactlyOnce`) makes their report the first; that only emergencies have
  retries ties `currentRetries` to the number of attempts.  The lemmas about
  `Insert`, `WithoutBack` and `Tail` say what each does to order, elements and
  counts.  There is one step lemma per action.
* `TransportTypes`, `FramesReportedOnce`, `EmergenciesAreTriedAgain`,
  `ReserveIsForEmergencies`, `DriverHoldsCurrent` follow from it.
* `LossesAreInTheStatistics`: every frame is accepted or refused, and the counters
  are the sizes of four sets of frames (`OrdinaryRefusals`, `EmergencyLosses`,
  `Displacements`, `Failures`).  A step puts at most the frame it concludes and
  the one it offers into them; that a frame under way was tried, and a waiting one
  was not, decides into which.
* `RefusalsAreFair`: the action property `RefusedOnlyWhenNothingYields`.
* `TransportImplementsDelivery`: initial states and steps of the transport are
  initial states and steps (or stutters) of `FrameDelivery`.  An ordered queue
  holds no frame twice, so its length is the size of the set.

`ClientSequencesProofs` proves for every number of slots, servers, sends, every
modulus and every queue of the transport that `SequencesAssumption` allows:

* `SequencesInvariant`: `SequencesSpec => []IInv`, where `IInv` is the types,
  `OneSlotPerServer` and `OpenCommandsAreTimed` together.  Each needs the other: a
  timer finds its command through the node of the slot (`AwaitedCommand`), which
  names one slot only if a server has one, and two slots never await one command
  for the same reason (`AwaitedOnce`).  `OfferEffects` and `FinishEffects` say what
  the transport may do to outcomes, `ReturnKeepsSlots` that giving numbers back
  changes counters only, `CancellationUndoes` that a cancelled reservation changes
  nothing, which rests on a slot without a wait having no timer.
* `SequencesTypes`, `SlotsAreUnique`, `AwaitedCommandsAreTimed` follow, and the
  action property `RefusalsLeaveNoTrace`: a refused send displaces nobody, so
  nothing is given back either.
* `NumbersComeInTurn`: since the counter of a server was last set, and while fewer
  frames were sent than there are numbers, the numbers in use are the last the
  counter gave out, each of them once.  A number's `Distance` from the counter is
  what the argument counts: a command adds one to all, a number that is returned
  takes one from all and was at distance one, which is why nobody else is at
  distance zero afterwards.
* `NumbersAreDistinct`: `NumbersAreNotReused`, for runs with fewer frames than
  numbers (`MaxSends < SequenceModulus`).  Without the hypothesis it is not true: a
  command that stays queued while 255 others are sent has the number of the next.

`CanProtocolClientProofs` proves of the client, the numbers of entries and servers
included:

* `ReportsAreInTurn`, `OccupiedEntriesAreTimed`: observers hear of servers in turn,
  and an entry's timer runs just while it is occupied; the two are inductive with
  the types.  Timeouts need both: the timer that expires belongs to an occupied
  entry, and no other entry is of its node.
* `PartsAreImplemented`: each of its steps is a step or a stutter of the numbering
  and one of the liveness, so `ImplementsParts`.
* `ServersAreWatched`, `CommandsAreAwaited`, `ClientNumbersAreDistinct`: what was
  proved of the parts, of the client.  The theorems of `ClientSequencesProofs` come
  from its instance `NumberingProofs`; what they assume of the constants is
  `NumberingAssumption`, which the client states of its own.
* `DiscoveriesAreEndedOnce`: with one discovery pending at a time, its timer runs
  just while it is pending, and `onDone` has run for every other one.
* `NumbersKeepOrderEndToEnd`: of the command link (`LinkSpec`), for every modulus,
  `NumbersKeepOrder`.  `CarefulUses` is what the application does: at most two
  commands under way where nothing is lost, one where payloads may be rejected; the
  run's uses are such, and with three the property is false (see Findings).
  `FewEmergencies` says that the emergencies are fewer than the numbers less one;
  with as many as that a command that waits is overtaken until its number is the next
  again.  `OrderInv` lists what the queue, the acknowledgements and the counter can
  be: commands not overtaken carry the last accepted number or the next (`IsFresh`),
  each follows the one before it unless an acknowledgement set the counter back
  (`Follows`), and one that was overtaken is behind by no more numbers than there were
  emergencies (`IsOvertaken`, `BehindFacts`), so it is not the next.

`CanProtocolServerProofs` proves for every number of frames and sends, every
budget and every registry that `ServerAssumption` allows.  `IInv` has one part for
each group of variables (sends and heartbeat, sequence numbers, rates, accounts,
registry, liveness), since a step changes few of them: for each part there is a
lemma that says which operators keep it, and the steps are put together from
these.

* `HeartbeatsBounded`: `OneHeartbeatPending`.  A send may displace a waiting frame;
  `OnDoneKeepsCount` shows that `heartbeatPending` is cleared just when the heartbeat
  is what left.
* `CommandOrder`: a command that is committed has the successor of the last number,
  and one that is rejected leaves the last number as it was.
* `BudgetSeparation`: what was admitted of either traffic is within its own budget,
  and refusing the one counts nothing for the other.
* `FrameAccounting`: the four counters of refusals, what ISO-TP took and what was
  accepted add up to what was heard; and no two registered categories have one id,
  through registrations and removals (`ErasedElement`).

The same module proves of the categories of `MCCategories`, for every session
timeout and any number of commands and faults:

* `ExpiriesFollowAcceptance`: `ExpiryNeedsAcceptance` of the firmware upgrade
  category.
* `UpgradeResponsesComeFirst`: `ResponsesComeFirst`, the firmware half of
  `AnswersComeFirst`.  `UpgradeInv` is what makes it inductive: a command that is not
  a progress query has a number of its own, which is on its way, or with the
  application, or answered (`OneCommandPerNumber`); among the answers under way no
  acknowledgement is ahead of its response (`ResponsesAhead`); and a response still
  under way is of a command whose acknowledgement was not heard (`ResponsesToCome`).
  `AnswersJoin` and `FirstLeaves` say what a queue keeps when answers join and leave.
* `MotorAnswersAreExplained`: `AnswersExplainAcks` and `NobodyMisreads`, the half of
  the FOC motor example.  `MotorInv` says where the answers of an acknowledgement are.
  Those of one that waits were refused, or heard, or wait too, the urgent ones before
  it (`WaitingExplained`); those of one that was heard were refused, or heard, the
  urgent ones before it, and only telemetry may still wait (`HeardExplained`).  It is
  inductive because an acknowledgement is offered last of its frames (`Explained`,
  `AcknowledgedLast`, `OfferKeepsExplained`), frames that stay keep their order when
  another leaves (`FrameLeaves`), and what leaves next has nothing as urgent before
  it (`MostUrgentIsNext`).  Each frame has as many bytes as the client reads
  (`FramesAreWritten`) and each command as many as the server reads.
* `AnswersAreFirst`: `AnswersComeFirst`, both halves, of the categories side by side.
  Telemetry is excepted: an acknowledgement is more urgent and may overtake it.

`IsoTpSenderProofs` and `IsoTpReceiverProofs` prove for every set of PDUs, frames
and capacities that each wait has its timer (`WaitsAreTimed`), that each transfer
and each reception ends once (`TransfersEndOnce`, `ReceptionsEndOnce`), that
completions of a transfer that ended change nothing (`LateCompletionsChangeNothing`,
`LateFailuresChangeNothing`) and that `onDone(true)` comes after the last byte
(`DoneIsReportedWhenSent`).  A completion is matched by a token of eight bits, so
they hold while no frame stays with the transport for so many transfers that the
token comes round: `QueuedBriefly(w)` for a window with `Bounded(w)`, a behaviour of
the bus and not of the code.  `FrameAges` is what makes them inductive: since a
frame was handed down the token advanced at most twice for each transfer that
followed, and once for each release of the idle channel, so a frame with the
current token is of the current transfer.  `ShortLivesAreSound` does without the
hypothesis for a channel with fewer transfers than the token tells apart.

`IsoTpProofs` is about the composition `MCIsoTp`: an open sender, an open receiver,
the two linked by a bus that loses and delays frames, and the channels.

* `WaitsAreTimed`, `TransfersEndOnce`, `LateCompletionsAreIgnored` prove what the
  run `isotp` checks of both ends.  The sender and the receiver of the two modules
  above are instantiated with every sequence of bytes as a PDU and every sequence of
  at most eight as a frame; each step of the composition is then a step of both or
  leaves them alone (`PartsStep`).  That the link's frames are such sequences is an
  invariant of its own (`BusTypes`): what is under way was encoded by the other end.
  They too assume `QueuedBriefly`, or a bound on the transfers
  (`ShortLivesAreSound`).
* `LinkImplementsDelivery`: `MCSpec` implements `PduDelivery`, for every block size,
  separation time and set of lengths, over the reliable, the lossy and the late link,
  on the last until a first frame is lost alone or in front of its consecutive frames
  (`Mixes`; after that it is false, see Findings); with fewer transfers than a token
  tells apart (`Bounded(MaxTransfers)`).  The invariant is `LinkHolds`.  It gives each
  frame on its way, on the bus or in the queue, a place: the number of its transfer
  and its position in it (`Carries`). The places are in the order of sending
  (`Ordered`), and behind the last one that arrived (`ReceiverAt`), so a receiver that
  holds `k` consecutive frames when the `q`-th arrived has the bytes of the PDU if `k
  = q`, and otherwise lacks a frame and never again finds enough bytes to be complete
  (`CompletesAt`): what is left of a PDU for its later frames is too short, which is
  what the proof has instead of the sequence number that comes round after sixteen
  frames.  That a consecutive frame is of the transfer whose first frame the receiver
  got needs that every first frame on the way is still ahead of its consecutive frames
  (`Led`).  A link that is not late may lose it, because nothing asks for the frames
  that would follow: only the newest frame asks for flow control (`OnlyLastAsks`),
  flow control is on its way only while nothing else is (`AskedOnce`), and neither the
  sender's block nor what is on its way goes beyond the receiver's (`BlockIsTheirs`,
  `BlockIsKept`); these four are `InTurn`.  A late link has no such discipline, so
  there the places hold until the first loss of a first frame (`Late =>
  ~LosesFirstFrame`). What the two halves do with a frame is proved in their modules,
  as lemmas (`SingleFrameArrives`, `ConsecutiveFrameArrives`, `HandsNextFrame`).
* `ChannelsShareNoIdentifier`: `FindChannel` finds the first channel of an
  identifier, so it finds the only one; for every number of channels.
* `TransfersAreOwned`, `ReceptionsAreOwned`: what is under way on a channel has the
  identifiers of that channel.  The second needs that the application does not
  release channels in the report of an aborted reception (`"release" \notin
  CallsInAbort`): with it the property is false, as the run `isotp_release` shows.

`HostAdapterProofs` is about `MCHostAdapters`, where one adapter runs and the others
are at rest.  It assumes `HostAdaptersAssumption`, the assumptions of the adapters'
modules; the bounds on polls, attempts, chunks, loads and commands are any numbers.
`drivers` takes the steps of its `MCSpec`, or those of the transport.

* `HoldingInvariance`: `MCSpec => []HoldingInv`.  Each adapter has an invariant of
  what it holds.  That of gs_usb (`UsbInv`) knows the stack of calls: `reads` is one
  while `readPending`, and an open adapter without a read is in the middle of a
  dispatch, with a turn of the loop left, so that the next read is still to come.
  For slcan the stack and the three states of the link decide port and timer; for the
  router a backend whose `OnError` runs is not open.  An adapter that is not run is
  closed, which is what makes the conjunction inductive.
* `NoAdapterLeaks`: `NothingLeaks` follows, but for a gs_usb adapter that is connected
  from its own callbacks.
* `ReportsAreTrueThroughout`: `ReportsAreTrue`.  `NetlinkInv` says of each request of
  `ConfigureBitrate` what has become of the link when it is sent, and that its queue
  of replies is empty except for the link's answer, left over when the receive of it
  failed.  A refused rate is undone unless the request for it cannot be sent, and a
  link is left alone if the kernel could say what it is: `failed` has the sends and
  receives that failed, any of them.  `SerialInv` says that a command under way ends
  the line with the bytes it has written.  `SlcanAnswers` is the argument for the
  handshake: the device's commands left to carry out, the replies unread (in the chunk
  and on the line, with frames among them) and the replies counted are, in this order,
  the three commands of this attempt (`StillAsked`, `Replies`); so the next reply is
  that to the next command, and the third completes the handshake with all three
  counted.  This is so for an attempt that is not `disturbed`: none of the replies to
  an earlier attempt was left to dispatch when it began, and no later `Connect` failed
  during it.  Of others the code does not promise it (see Observations).
* `AdaptersKeepTheContract`: `MCSpec` implements the initial states and the steps of
  `CanBusAdapter`, with any call from any callback but `Connect` of gs_usb.  A loss
  counts as told while its `OnError` runs, and after it if the application took the
  router elsewhere (`LossUntold`), of which `adapters_overruled` is the finding.
  `ContractInv` adds three parts to `HoldingInv`: `QuietInv`, what the adapters that
  share a variable leave alone when it is not theirs; `ToldInv`, that the observer was
  last told what `IsConnected` answers, or that the adapter is in the middle of
  reporting its loss; and `OwedInv`.  The three things the contract sees (connected,
  delivering, owed) are read from the variables of the adapter that runs (`UsbShows`
  to `MultiShows`), and each action of each adapter changes them as one step of the
  contract would (`Move`; `UsbMoves` to `MultiMoves`).
* `EachSendHasItsCompletion`: `OwedInv`.  A completion is scheduled for the send that
  was taken and not yet answered, and no other: no send is answered twice, or by the
  completion of the one before it.

Only model-checked: liveness (fairness and `ENABLED` are out of the prover's
reach; of `ImplementsDelivery` and of the contract of the adapters it is that a frame
is reported and a send answered at last).

## Findings

* `client_giveback`: `design/architecture.md:282` says that the number of a lost
  command "is given back unless a later command to that server has already taken
  the next one".  `ReturnSequence` compares the counter with the lost number plus
  one, and a sequence error may have set the counter to just that: commands 0, 1
  and 2 are sent, the server answers 0 with the expected number 2, and then 1 is
  lost.  The counter goes back to 1 although command 2 took the next number, and
  the resynchronisation is undone; the next command draws another sequence error.
  `NumbersAreNotReused` still holds: it speaks of the numbers since the counter
  was last set, while no older command is on its way.
* `isotp_release`: `booklet/08-isotp-state-machines.md:48-50` says that a transfer
  in progress ends when its channel is released and "Nothing from it can reach
  whatever uses the slot next".  `HandleFirstFrame` reports the superseded
  reception and goes on to start the new one; an application that releases the
  channel in that report leaves a channel that is free and receiving, with its
  timer running.
* `command_link_overtaken`: `spec/can-protocol.md:456-457` says "Out-of-order or
  duplicated commands are rejected with a `sequenceError` acknowledgement".  With
  three commands under way a late sequence error sets the client's counter back,
  an emergency takes a number a queued command has already and overtakes it, and
  after it the server accepts that command.  With two under way this does not
  happen when nothing is lost (`NumbersKeepOrder`).
* `isotp_mixed`: `requirements/can-protocol.yaml:370-372` (REQ-CAN-029) says that the
  transport "segments PDUs exceeding 8 bytes into multiple CAN frames and reassembles
  them at the receiver".  With late timers flow control for a transfer that was
  aborted may arrive while the next transfer waits for its own, whose first frame
  the transport below has not sent yet, and lets its consecutive frames be queued
  behind it.  When that first frame is then lost, they continue the reception of the
  transfer before, and one PDU is delivered that is made of two.  Neither half can
  tell: flow control carries nothing of the transfer it answers.
* `adapters_overruled`: `booklet/03-hal-and-drivers.md:183-184` says of the adapter
  being connected that "Its frames, errors and connection changes reach the router's
  observer and receiver".  A backend that loses its connection reports `OnError`
  before `OnConnectionChanged(false)`, and the router passes the second on only while
  that backend is active: an observer that calls `Disconnect`, or `Connect` with
  another interface, in `OnError` was told last that it is connected and is not.

## Observations

Behaviour met while modelling for which no run is kept; each follows from the
constants or the property named.

* The token of an ISO-TP transfer has eight bits.  A frame that stays queued over
  256 further transfers belongs to the transfer under way when it is lost
  (`StaleCompletionsIgnored` fails with as many transfers as `TokenModulus`),
  where `booklet/08:132-133` says that a stale failure cannot abort the transfer
  that came after.
* Two commands under way and no emergency: every acknowledgement may set the
  counter back for the command after the one that is already on its way, and so
  draw sequence errors for ever; `booklet/10:95` calls a stale one self-correcting.
  Commands are still accepted in between (`NumbersRecover`).
* Netlink: when the send or the receive of the first request fails, a link that is
  up at the bitrate is taken down (`booklet/03:206-209`: left alone).  After a refused
  bitrate a controller that was configured and down is brought up, and when the
  request that brings it up again cannot be sent, one that was up stays down;
  `booklet/03:210-211` only has the connection refused.
  `LinkIsLeftAlone` and `RefusedRateIsUndone` state these conditions.
* slcan: a reconnect may take the reply to the disconnect's close for that of the
  handshake (`booklet/03:216-219`), and replies to an earlier attempt may complete
  or end the next (`booklet/03:214-216`).  `OpenMeansAcknowledged` and
  `RejectionIsReal` speak of attempts that are not `disturbed`.
* slcan: a callback that connects twice, the second time with a port that does not
  open, leaves the first handshake under way without a port.  Replies that the same
  chunk still holds are counted for it and may complete it: with four items to a
  chunk the adapter reports itself connected without a port, until its next read
  fails.  `PortFollowsState` therefore asks for the port of an adapter that is not
  closed only where no other connect failed during the handshake.
* Serial port: a wait that runs out leaves part of a command on the line, and the
  100 ms are those of each piece (`booklet/03:224-226`).  `SuccessMeansWhole` speaks
  of writes that report success, and of what any write leaves.
* FOC motor: `foc-motor-control.md:397-399` draws the acknowledgement of a motor type
  request before its response, and `:432-441` those of the identification commands
  before their results.  The server sends the response first, and both go with
  response priority, so the acknowledgement comes last, and that of an identification
  only when it was measured; `AnswersComeFirst` states this order.  Telemetry is less
  urgent: its acknowledgement, drawn after it (`:416-419`), leaves before it when the
  driver is busy, and who hears it does not know whether telemetry follows.  Faults
  go as telemetry, not as emergencies (`extending-categories.md:102-103`).
* gs_usb: a callback that disconnects and connects again has started a read, and
  the interrupted loop starts a second one.  PCAN and Kvaser look up their read
  function once for each poll: after a callback that connects again the loop goes
  on with the function of the library that was unloaded (`read` is then not
  `loads`).  No property covers either.

## Not modelled

* Numbers an application reserves for PDUs of its own (`CanSequenceSource` from
  outside `SendCommand`).
* `SlcanCodec`, `GsUsbProtocol`, `CanPayload`, `CanFrameCodec`: functions of their
  arguments, for which the models use what they decode to.  Frame contents and
  identifiers appear only as far as they decide.
* Wording of errors; the tracing decorators, which forward every call; the
  integration test harness.
* Enumeration of interfaces, ports and missing drivers; `PlatformCanAdapter`,
  which lists the adapters it was built with; `Read` of the POSIX serial port; the
  Windows serial port.  `SlcanAdapter` has the port as its environment, whichever
  system it is of.
* Destruction of objects.
* Counters are natural numbers: their 32 bits would wrap after four thousand
  million losses.

## Plan

Every part of the code with a state of its own has its model, and the safety
properties of the models are proved.  Without `Bounded` the link's refinement would
need what `QueuedBriefly` gives the two halves, which is not an invariant of the code.
