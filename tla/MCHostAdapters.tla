---------------------------- MODULE MCHostAdapters ----------------------------
(***************************************************************************)
(* The host adapters for TLC, with the two parts under them that have a    *)
(* state of their own: the netlink exchange of SocketCAN and the serial    *)
(* port of slcan.  Which of them is run is chosen at the start and the     *)
(* variables of the others keep their values.                              *)
(***************************************************************************)
EXTENDS Naturals, Sequences, SequencesExt

CONSTANTS
  MaxTransfersPerPoll, MaxFramesPerTransfer,             \* gs_usb
  MaxFramesPerPoll, MaxLoads,                            \* PCAN and Kvaser
  MaxFramesPerRead,                                      \* SocketCAN
  MaxReadChunks, ChunkItems, MaxAttempts, MaxLine,       \* slcan
  Bitrates,                                              \* netlink
  CommandLength, MaxCommands                             \* the serial port

VARIABLES
  adapter,
  told, pending, taken, scheduled, calls, running, count, line,
  open, handles, readPending, reads, frames,
  members, system, loads, read,
  socket, sockets, completed,
  state, repliesReceived, timer, port, chunk, chunks, attempt, counted, commands, device,
  disturbed,
  active, states, overruled,
  link, kernel, replies, at, asked, before, result, failed,
  descriptor, command, written, offset, waits, ready, returned

ofUsb == <<open, handles, readPending, reads, frames>>
ofVendors == <<members, system, loads, read>>
ofSockets == <<socket, sockets, completed>>
ofSlcan ==
  <<state, repliesReceived, timer, port, chunk, chunks, attempt, counted, commands, device,
    disturbed>>
ofMulti == <<active, states, overruled>>
ofNetlink == <<link, kernel, replies, at, asked, before, result, failed>>
ofSerial == <<descriptor, command, written, offset, waits, ready, returned>>
mcVars ==
  <<adapter, told, pending, taken, scheduled, calls, running, count, line,
    ofUsb, ofVendors, ofSockets, ofSlcan, ofMulti, ofNetlink, ofSerial>>

None == "none"
AnyCall == {"send", "disconnect", "connect"}

GsUsb == INSTANCE GsUsbAdapter WITH CallsInCallback <- {"send", "disconnect"}
Pcan == INSTANCE PcanAdapter WITH CallsInCallback <- AnyCall
Kvaser == INSTANCE KvaserAdapter WITH CallsInCallback <- AnyCall
SocketCan == INSTANCE SocketCanAdapter WITH
               CallsInCallback <- AnyCall, pending <- taken, answer <- completed
Slcan == INSTANCE SlcanAdapter WITH CallsInCallback <- AnyCall
Multi == INSTANCE MultiCanAdapter WITH
           Backends <- {"candleLight", "slcan", "slcan2"}, Handshaking <- {"slcan", "slcan2"},
           CallsInReceive <- AnyCall, CallsInError <- AnyCall,
           pending <- taken, state <- states
Netlink == INSTANCE SocketCanNetlink WITH None <- 0
Serial == INSTANCE PosixSerialPort WITH commands <- written

ASSUME HostAdaptersAssumption ==
  /\ GsUsb!BoundsAreNatural /\ Pcan!BoundsAreNatural /\ Kvaser!BoundsAreNatural
  /\ SocketCan!BoundsAreNatural /\ Slcan!BoundsAreNatural /\ Multi!NoneIsNoBackend
  /\ Netlink!NoneIsNoBitrate /\ Serial!BoundsArePositive

-----------------------------------------------------------------------------
OfGsUsb(A) ==
  /\ adapter = "gsUsb" /\ A
  /\ UNCHANGED <<adapter, taken, running, line,
                 ofVendors, ofSockets, ofSlcan, ofMulti, ofNetlink, ofSerial>>

OfVendor(name, A) ==
  /\ adapter = name /\ A
  /\ UNCHANGED <<adapter, taken, calls, line,
                 ofUsb, ofSockets, ofSlcan, ofMulti, ofNetlink, ofSerial>>

OfSocketCan(A) ==
  /\ adapter = "socketCan" /\ A
  /\ UNCHANGED <<adapter, pending, calls, line,
                 ofUsb, ofVendors, ofSlcan, ofMulti, ofNetlink, ofSerial>>

OfSlcan(A) ==
  /\ adapter = "slcan" /\ A
  /\ UNCHANGED <<adapter, taken, running, count,
                 ofUsb, ofVendors, ofSockets, ofMulti, ofNetlink, ofSerial>>

OfMulti(A) ==
  /\ adapter = "multi" /\ A
  /\ UNCHANGED <<adapter, pending, scheduled, calls, count, line,
                 ofUsb, ofVendors, ofSockets, ofSlcan, ofNetlink, ofSerial>>

OfNetlink(A) ==
  /\ adapter = "netlink" /\ A
  /\ UNCHANGED <<adapter, told, pending, taken, scheduled, calls, running, count, line,
                 ofUsb, ofVendors, ofSockets, ofSlcan, ofMulti, ofSerial>>

OfSerial(A) ==
  /\ adapter = "serial" /\ A
  /\ UNCHANGED <<adapter, told, pending, taken, scheduled, calls, running, count,
                 ofUsb, ofVendors, ofSockets, ofSlcan, ofMulti, ofNetlink>>

Adapters ==
  {"gsUsb", "pcan", "kvaser", "socketCan", "slcan", "multi", "netlink", "serial"}

\* What an adapter finds at the other end matters to the one that is run.
MCInit ==
  /\ GsUsb!Init /\ Pcan!Init /\ Kvaser!Init /\ SocketCan!Init /\ Slcan!Init /\ Multi!Init
  /\ Netlink!Init /\ Serial!Init
  /\ adapter \in Adapters
  /\ adapter # "slcan" => ~device.answers /\ ~device.open
  /\ adapter # "netlink" =>
       /\ ~link.isCan /\ ~link.up
       /\ ~kernel.permitted /\ kernel.supported = {}
       /\ \A b \in Bitrates : asked <= b

MCNext ==
  \/ OfGsUsb(GsUsb!Next)
  \/ OfVendor("pcan", Pcan!Next) \/ OfVendor("kvaser", Kvaser!Next)
  \/ OfSocketCan(SocketCan!Next)
  \/ OfSlcan(Slcan!Next)
  \/ OfMulti(Multi!Next)
  \/ OfNetlink(Netlink!Next)
  \/ OfSerial(Serial!Next)

\* Only one adapter runs, so a fairness condition on a disjunction of the
\* adapters' actions is the one of its own specification.
Returns ==
  \/ OfGsUsb(GsUsb!Adapter)
  \/ OfVendor("pcan", Pcan!Poll) \/ OfVendor("kvaser", Kvaser!Poll)
  \/ OfSocketCan(SocketCan!Poll)
  \/ OfSlcan(Slcan!Adapter)
  \/ OfMulti(Multi!FrameDelivered \/ Multi!LossIsTold)

RunsCompletion ==
  \/ OfGsUsb(GsUsb!RunCompletion)
  \/ OfVendor("pcan", Pcan!RunCompletion) \/ OfVendor("kvaser", Kvaser!RunCompletion)
  \/ OfSocketCan(SocketCan!RunCompletion)
  \/ OfSlcan(Slcan!RunCompletion)
  \/ OfMulti(Multi!RunCompletion)

Expires(b) ==
  \/ OfSlcan(Slcan!HandshakeTimeout)
  \/ OfMulti(states[b] = "opening" /\ Multi!BackendCloses(b))

MCSpec ==
  /\ MCInit /\ [][MCNext]_mcVars
  /\ WF_mcVars(Returns) /\ SF_mcVars(RunsCompletion)
  /\ SF_mcVars(Expires("slcan")) /\ SF_mcVars(Expires("slcan2"))
  /\ WF_mcVars(OfSlcan(Slcan!DeviceAnswers))

-----------------------------------------------------------------------------
\* Each adapter keeps what CanBusAdapter promises, whatever the application
\* calls from its callbacks, but for a gs_usb adapter that is connected from one:
\* no frame after a disconnection, no connection change the observer is not told
\* of, no burst of frames or failing write that keeps a send from completing, and
\* no send that completes twice.  A loss counts as told once the adapter has
\* begun to report its error, and also when the application has taken the router
\* from the lost backend in that report: ChangesAreTold says what it is told then.
Contract == INSTANCE CanBusAdapter WITH
  connected <-
    \/ GsUsb!IsConnected \/ Pcan!IsConnected \/ Kvaser!IsConnected
    \/ SocketCan!IsConnected \/ Slcan!IsConnected \/ Multi!IsConnected,
  told <- told /\ ~Contains(calls, "lost") /\ ~Contains(calls, "closing") /\ ~Multi!LossUntold,
  delivering <- Contains(calls, "receive") \/ running = "receive",
  owed <- pending \/ taken # None
ImplementsContract == Contract!Spec

\* The router's frames, errors and connection changes reach its observer: outside
\* the callbacks of its backends, what the observer was told last is whether the
\* router is connected.  An application that calls Disconnect from the OnError
\* that a lost connection is reported with is told of no disconnection.
ChangesAreTold == adapter = "multi" => Multi!ChangesAreTold

\* What the system holds for an adapter is what the adapter can still release,
\* after connections, failures half-way, losses and calls from callbacks in any
\* order, but for a gs_usb adapter that is connected from a callback: handles,
\* the one overlapped read, libraries, channels, sockets, the serial port and the
\* backend calls no longer go to.
NothingLeaks ==
  /\ GsUsb!ListensWhileOpen /\ GsUsb!HoldsNothingWhenClosed
  /\ adapter = "pcan" => Pcan!NothingLeaks
  /\ adapter = "kvaser" => Kvaser!NothingLeaks
  /\ SocketCan!NoSocketLeaks
  /\ Slcan!PortFollowsState
  /\ Multi!OnlyTheActiveIsOpen
  /\ Serial!NeverHeldUnlocked

\* What is reported happened.  A configured bitrate is the one asked for, and a
\* refused one is undone, if that can be sent; a link that needs nothing is left
\* alone, if the kernel has said what it is; a write that succeeded has put the
\* whole command on the line; and a handshake that met nothing of another attempt
\* ends with the answers to its own commands.
ReportsAreTrue ==
  /\ [](Netlink!SuccessMeansTheRate /\ Netlink!RefusedRateIsUndone)
  /\ [](adapter = "serial" => Serial!SuccessMeansWhole)
  /\ [](adapter = "slcan" => Slcan!OpenMeansAcknowledged)
  /\ [][ adapter = "slcan" => Slcan!RejectionIsReal ]_mcVars
  /\ [][ adapter = "netlink" => Netlink!LinkIsLeftAlone ]_mcVars

\* A handshake does not stay under way for ever: not one whose port a failed
\* second Connect has closed, nor one left behind by a router that polls
\* another backend.
EveryHandshakeEnds == Slcan!HandshakeEnds /\ Multi!LeftBehindCloses
=============================================================================
