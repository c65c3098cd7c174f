----------------------------- MODULE SlcanAdapter -----------------------------
(***************************************************************************)
(* The slcan adapter, SlcanAdapter.cpp, with its serial port and the       *)
(* device at the other end.  Connect writes three commands and returns;    *)
(* the adapter is connected when the replies to them have been read, or it *)
(* gives up on a rejection, a lost port or its timer.                      *)
(*                                                                         *)
(* A reply carries the number of the attempt whose command it answers: the *)
(* line has no such number, the adapter never reads it, and only the       *)
(* properties do.                                                          *)
(*                                                                         *)
(* The application may connect at any time: during a handshake, from a     *)
(* callback, and while the device has commands of an earlier attempt to    *)
(* answer.  `disturbed` says what an attempt meets of such others.         *)
(***************************************************************************)
EXTENDS Naturals, Sequences, SequencesExt

CONSTANTS
    MaxReadChunks,     \* maxReadChunks
    ChunkItems,        \* bound: lines and frames of one chunk
    MaxAttempts,       \* bound: calls of Connect
    MaxLine,           \* bound: items on their way from the device
    CallsInCallback    \* what the application calls from a callback

BoundsAreNatural == MaxReadChunks \in Nat /\ ChunkItems \in Nat \ {0}

VARIABLES
    state, repliesReceived, timer,   \* LinkState, and the handshake's timer
    port,         \* the serial port is open
    line,         \* what the device has sent and the port has not been read of
    chunk,        \* what ReadAvailable has read and not dispatched
    chunks,       \* ProcessReadEvent's loop
    calls,        \* "poll": the loop runs; the rest: a callback runs
    told,         \* the observer's last OnConnectionChanged
    pending, scheduled,
    attempt,      \* calls of Connect that reached the port
    counted,      \* commands whose replies Handshake counted since Connect
    commands,     \* commands the device has not carried out
    device,       \* what the other end is and does
    disturbed     \* history: what the attempt under way has met: "replies", if at
                  \* its start some to an earlier one may still have been
                  \* dispatched, and "port", if a later Connect failed during it

vars == <<state, repliesReceived, timer, port, line, chunk, chunks, calls, told, pending,
          scheduled, attempt, counted, commands, device, disturbed>>

link == <<state, repliesReceived, timer, attempt, counted, disturbed>>
poll == <<chunk, chunks>>
completion == <<pending, scheduled>>
far == <<commands, device>>

closeReply == 1
openCommandReplies == 3
Callbacks == {"receive", "error", "closing"}

Init ==
    /\ state = "closed" /\ repliesReceived = 0 /\ timer = FALSE
    /\ port = FALSE /\ line = <<>> /\ chunk = <<>> /\ chunks = 0
    /\ calls = <<>> /\ told = FALSE
    /\ pending = FALSE /\ scheduled = 0
    /\ attempt = 0 /\ counted = {} /\ commands = <<>> /\ disturbed = {}
    /\ device \in [answers : BOOLEAN, open : BOOLEAN]

IsConnected == state = "open"

Running == IF calls = <<>> THEN "dispatcher" ELSE calls[1]
MayCall(operation) ==
    Running = "dispatcher" \/ (Running \in Callbacks /\ operation \in CallsInCallback)

-----------------------------------------------------------------------------
\* The device carries one command out and answers it.  What it sends while the
\* port is closed is lost.
Command(name) == [name |-> name, attempt |-> attempt']
OpenCommands == <<Command("close"), Command("bitrate"), Command("open")>>

Accepted(name) ==
    CASE name = "close" -> {device.open}
      [] name = "bitrate" -> BOOLEAN
      [] OTHER -> {~device.open}

Send(kind, command) ==
    line' = IF port /\ device.answers THEN Append(line, [kind |-> kind, to |-> command]) ELSE line

DeviceAnswers ==
    /\ commands # <<>>
    /\ Len(line) < MaxLine
    /\ commands' = Tail(commands)
    /\ \E accepted \in Accepted(Head(commands).name) :
        /\ Send(IF accepted THEN "acknowledged" ELSE "error", Head(commands))
        /\ device' = [device EXCEPT !.open =
                        \/ Head(commands).name = "open" /\ accepted
                        \/ Head(commands).name # "close" /\ @]
    /\ UNCHANGED <<link, port, poll, calls, told, completion>>

DeviceReceivesFrame ==
    /\ device.open /\ device.answers /\ port
    /\ Len(line) < MaxLine
    /\ Send("frame", [name |-> "none", attempt |-> attempt])
    /\ UNCHANGED <<link, port, poll, calls, told, completion, far>>

-----------------------------------------------------------------------------
\* Connect.  Opening the port flushes it; a write may fail after a part of the
\* commands has left.  When either fails the rest of the state stays, also that
\* of a handshake still under way.
MayConnect ==
    /\ MayCall("connect")
    /\ attempt < MaxAttempts

DisconnectFirst == IF IsConnected THEN <<[name |-> "close", attempt |-> attempt]>> ELSE <<>>

\* Opening the port flushes it, but not the chunk that has been read.
MeetsReplies == commands \o DisconnectFirst # <<>> \/ chunk # <<>>

RepliesAtConnect == 0

\* Mutation: the timer is not started.
TimerUntouched == timer

TimerStarted == TRUE

Connect ==
    /\ MayConnect
    /\ attempt' = attempt + 1
    /\ commands' = commands \o DisconnectFirst \o OpenCommands
    /\ port' = TRUE /\ line' = <<>>
    /\ state' = "opening" /\ repliesReceived' = RepliesAtConnect /\ counted' = {} /\ timer' = TimerStarted
    /\ disturbed' = (IF MeetsReplies THEN {"replies"} ELSE {})
    /\ told' = FALSE
    /\ UNCHANGED <<poll, calls, completion, device>>

\* Mutation: a failed write does not close the port.
PortLeftOpen == TRUE

PortAfterFailedWrite == FALSE

ConnectFails ==
    /\ MayConnect
    /\ attempt' = attempt + 1
    /\ \E left \in 0 .. 2 : commands' = commands \o DisconnectFirst \o SubSeq(OpenCommands, 1, left)
    /\ port' = PortAfterFailedWrite /\ line' = <<>>
    /\ state' = (IF IsConnected THEN "closed" ELSE state)
    /\ timer' = (timer /\ ~IsConnected)
    /\ disturbed' = disturbed \cup {"port"}
    /\ told' = FALSE
    /\ UNCHANGED <<repliesReceived, counted, poll, calls, completion, device>>

\* Close; its error, if it has one, is told between the two.
Shut ==
    /\ timer' = FALSE
    /\ port' = FALSE /\ line' = <<>>
    /\ state' = "closed"
    /\ UNCHANGED <<repliesReceived, attempt, counted, disturbed>>

\* Disconnect gives a handshake up, too.
Disconnect ==
    /\ MayCall("disconnect")
    /\ state # "closed"
    /\ Shut
    /\ commands' = IF port THEN Append(commands, [name |-> "close", attempt |-> attempt]) ELSE commands
    /\ told' = FALSE
    /\ UNCHANGED <<poll, calls, completion, device>>

CloseWithError(rest) ==
    /\ Shut
    /\ calls' = <<"closing">> \o rest
    /\ UNCHANGED <<chunks, told, completion, far>>

ClosingReturns ==
    /\ Running = "closing"
    /\ told' = FALSE
    /\ calls' = Tail(calls)
    /\ UNCHANGED <<link, port, line, poll, completion, far>>

HandshakeTimeout ==
    /\ calls = <<>>
    /\ timer
    /\ CloseWithError(<<>>)
    /\ UNCHANGED chunk

-----------------------------------------------------------------------------
SendData ==
    /\ MayCall("send")
    /\ ~pending
    /\ pending' = TRUE
    /\ scheduled' = scheduled + 1
    /\ UNCHANGED <<link, port, line, poll, calls, told, far>>

RunCompletion ==
    /\ calls = <<>>
    /\ scheduled > 0
    /\ scheduled' = scheduled - 1
    /\ pending' = FALSE
    /\ UNCHANGED <<link, port, line, poll, calls, told, far>>

-----------------------------------------------------------------------------
ProcessReadEvent ==
    /\ calls = <<>>
    /\ state # "closed"
    /\ calls' = <<"poll">>
    /\ chunks' = 0 /\ chunk' = <<>>
    /\ UNCHANGED <<link, port, line, told, completion, far>>

\* ReadAvailable reads a chunk.
ReadChunk ==
    /\ Running = "poll" /\ chunk = <<>>
    /\ chunks < MaxReadChunks /\ state # "closed"
    /\ port /\ line # <<>>
    /\ chunk' = SubSeq(line, 1, IF Len(line) < ChunkItems THEN Len(line) ELSE ChunkItems)
    /\ line' = SubSeq(line, Len(chunk') + 1, Len(line))
    /\ chunks' = IF Len(chunk') = ChunkItems THEN chunks + 1 ELSE MaxReadChunks
    /\ UNCHANGED <<link, port, calls, told, completion, far>>

\* A port that fails, or that a failed Connect has closed.
Lost ==
    /\ Running = "poll" /\ chunk = <<>>
    /\ chunks < MaxReadChunks /\ state # "closed"
    /\ CloseWithError(Tail(calls))
    /\ UNCHANGED chunk

PollEnds ==
    /\ Running = "poll" /\ (chunk = <<>> \/ state = "closed")
    /\ chunks = MaxReadChunks \/ state = "closed" \/ (port /\ line = <<>>)
    /\ calls' = Tail(calls)
    /\ chunk' = <<>>
    /\ UNCHANGED <<link, port, line, chunks, told, completion, far>>

NextItem ==
    /\ Running = "poll" /\ chunk # <<>>
    /\ chunk' = Tail(chunk)

CallBack(callback) == calls' = <<callback>> \o calls

\* Mutation: a closed link dispatches.
DispatchGoesOnWhenClosed == state # "opening"

\* Dispatch to an open link: errors are reported, extended data frames
\* delivered, and other items ignored.
DispatchGoesOn == state = "open"

DispatchOpen ==
    /\ NextItem
    /\ DispatchGoesOn
    /\ \/ Head(chunk).kind = "error" /\ CallBack("error")
       \/ Head(chunk).kind = "frame" /\ CallBack("receive")
       \/ Head(chunk).kind # "error" /\ UNCHANGED calls
    /\ UNCHANGED <<link, port, line, chunks, told, completion, far>>

\* Handshake: the reply to the close is ignored whatever it is.
Counts(item) == item.kind # "frame"

\* Mutation: the reply to the close counts, too.
IsAnyRejection(item) == item.kind = "error"

IsRejection(item) == item.kind = "error" /\ repliesReceived + 1 # closeReply

\* Mutation: the reply to the close is not expected.
IsAnyComplete == repliesReceived + 1 >= openCommandReplies - 1

IsComplete == repliesReceived + 1 = openCommandReplies

HandshakeIgnores ==
    /\ NextItem
    /\ state = "opening" /\ ~Counts(Head(chunk))
    /\ UNCHANGED <<link, port, line, chunks, calls, told, completion, far>>

HandshakeCounts ==
    /\ NextItem
    /\ state = "opening" /\ Counts(Head(chunk)) /\ ~IsRejection(Head(chunk))
    /\ repliesReceived' = repliesReceived + 1
    /\ counted' = counted \cup {Head(chunk).to}
    /\ IF IsComplete
       THEN state' = "open" /\ timer' = FALSE /\ told' = TRUE
       ELSE UNCHANGED <<state, timer, told>>
    /\ UNCHANGED <<attempt, disturbed, port, line, chunks, calls, completion, far>>

HandshakeRejected ==
    /\ NextItem
    /\ state = "opening" /\ Counts(Head(chunk)) /\ IsRejection(Head(chunk))
    /\ CloseWithError(calls)

CallbackReturns ==
    /\ Running \in {"receive", "error"}
    /\ calls' = Tail(calls)
    /\ UNCHANGED <<link, port, line, poll, told, completion, far>>

Adapter ==
    \/ ReadChunk \/ Lost \/ PollEnds \/ DispatchOpen \/ HandshakeIgnores \/ HandshakeCounts
    \/ HandshakeRejected \/ CallbackReturns \/ ClosingReturns

Next ==
    \/ Connect \/ ConnectFails \/ Disconnect \/ SendData \/ RunCompletion
    \/ HandshakeTimeout \/ ProcessReadEvent \/ Adapter
    \/ DeviceAnswers \/ DeviceReceivesFrame

\* Functions and callbacks return, the dispatcher takes its events in turn, and
\* the timer expires unless it is cancelled.
Spec ==
    /\ Init /\ [][Next]_vars
    /\ WF_vars(Adapter) /\ SF_vars(RunCompletion) /\ SF_vars(HandshakeTimeout)
    /\ WF_vars(DeviceAnswers)

-----------------------------------------------------------------------------
\* A closed adapter holds no port, and there is a timer exactly while the
\* handshake may stay unanswered.  An adapter that is not closed holds its port,
\* unless the application has connected again during its handshake and that has
\* failed: the port is closed then, and the handshake goes on without it.
PortFollowsState ==
    /\ state = "closed" => ~port
    /\ timer <=> state = "opening"
    /\ "port" \notin disturbed => port \/ state = "closed"

\* "The adapter reports itself connected only once the device has acknowledged
\* the bitrate and the open command": those of the attempt that has become the
\* connection, if nothing of an earlier attempt was left when it began and no
\* later one came in between.
OpenMeansAcknowledged ==
    state = "open" /\ disturbed = {} =>
        [name : {"bitrate", "open"}, attempt : {attempt}] \subseteq counted

\* "A rejection of either of the others ... closes the port": what ends such a
\* handshake is the device's answer to this attempt's bitrate or open command,
\* not to its close and not to an earlier command.
RejectionIsReal ==
    HandshakeRejected /\ disturbed = {} =>
        Head(chunk).to \in [name : {"bitrate", "open"}, attempt : {attempt}]

\* No handshake stays under way for ever, not even one whose port a failed
\* second Connect has closed.
HandshakeEnds == state = "opening" ~> state # "opening"
=============================================================================
