--------------------------- MODULE SocketCanAdapter ---------------------------
(***************************************************************************)
(* The SocketCAN adapter, SocketCanAdapter.cpp: one socket for each        *)
(* connection, opened step by step, a poll that reads at most              *)
(* MaxFramesPerRead frames from it, and the sends' completions.  What      *)
(* Connect does to the interface itself is module SocketCanNetlink.        *)
(***************************************************************************)
EXTENDS Naturals

CONSTANTS
    MaxFramesPerRead,   \* maxFramesPerRead
    CallsInCallback     \* what the application calls from the receive callback

BoundsAreNatural == MaxFramesPerRead \in Nat

VARIABLES
    socket,      \* socketDescriptor is not -1
    sockets,     \* sockets the system holds for the adapter
    running,     \* "dispatcher", "poll", or "receive": the callback runs
    count,       \* ProcessReadEvent's loop
    told,        \* the observer's last OnConnectionChanged
    pending,     \* pendingCompletion: the send not yet answered, and its result
    scheduled,   \* completions scheduled in the event dispatcher
    answer       \* what the last send completed with

vars == <<socket, sockets, running, count, told, pending, scheduled, answer>>

device == <<socket, sockets, told>>
completion == <<pending, scheduled, answer>>

Results == {"failure", "success"}

Init ==
    /\ socket = FALSE /\ sockets = 0
    /\ running = "dispatcher" /\ count = 0
    /\ told = FALSE
    /\ pending = "none" /\ scheduled = 0 /\ answer = "none"

IsConnected == socket

MayCall(operation) ==
    running = "dispatcher" \/ (running = "receive" /\ operation \in CallsInCallback)

Disconnected == sockets - (IF IsConnected THEN 1 ELSE 0)

\* What Connect has opened when the socket, the interface's name, its bitrate
\* or the bind fails, and what it leaves: every error path closes the socket.
FailedSteps == {"socket", "name", "bitrate", "bind"}

\* Mutation: a failed bind does not close the socket.
LeftUnlessBound(step) == IF step = "bind" THEN 1 ELSE 0

LeftOpen(step) == 0

Connect ==
    /\ MayCall("connect")
    /\ socket' = TRUE
    /\ sockets' = Disconnected + 1
    /\ told' = TRUE
    /\ UNCHANGED <<running, count, completion>>

ConnectFails(step) ==
    /\ MayCall("connect")
    /\ socket' = FALSE
    /\ sockets' = Disconnected + LeftOpen(step)
    /\ told' = FALSE
    /\ UNCHANGED <<running, count, completion>>

Disconnect ==
    /\ MayCall("disconnect")
    /\ IsConnected
    /\ socket' = FALSE
    /\ sockets' = Disconnected
    /\ told' = FALSE
    /\ UNCHANGED <<running, count, completion>>

\* SendData: refused without a connection or with an 11-bit identifier;
\* otherwise write takes the frame or not.  The completion is always deferred.
SendResults(is29Bit) == IF IsConnected /\ is29Bit THEN Results ELSE {"failure"}

\* Mutation: an 11-bit identifier is refused without a completion.
ScheduledIfTried(is29Bit) == scheduled + (IF is29Bit THEN 1 ELSE 0)

ScheduledAlways(is29Bit) == scheduled + 1

SendData(is29Bit) ==
    /\ MayCall("send")
    /\ pending = "none"
    /\ pending' \in SendResults(is29Bit)
    /\ scheduled' = ScheduledAlways(is29Bit)
    /\ UNCHANGED <<device, running, count, answer>>

RunCompletion ==
    /\ running = "dispatcher"
    /\ scheduled > 0
    /\ scheduled' = scheduled - 1
    /\ answer' = pending
    /\ pending' = "none"
    /\ UNCHANGED <<device, running, count>>

ProcessReadEvent ==
    /\ running = "dispatcher"
    /\ running' = "poll"
    /\ count' = 0
    /\ UNCHANGED <<device, completion>>

PollGoesOn == count < MaxFramesPerRead /\ IsConnected

\* The loop ends, or read has no frame or fails.
PollEnds ==
    /\ running = "poll"
    /\ running' = "dispatcher"
    /\ UNCHANGED <<count, device, completion>>

\* An extended data frame is delivered, any other is dropped.
ReadFrame ==
    /\ running = "poll"
    /\ PollGoesOn
    /\ count' = count + 1
    /\ running' \in {"poll", "receive"}
    /\ UNCHANGED <<device, completion>>

ReceiveReturns ==
    /\ running = "receive"
    /\ running' = "poll"
    /\ UNCHANGED <<count, device, completion>>

Poll == PollEnds \/ ReadFrame \/ ReceiveReturns

Next ==
    \/ Connect \/ Disconnect \/ \E step \in FailedSteps : ConnectFails(step)
    \/ \E is29Bit \in BOOLEAN : SendData(is29Bit)
    \/ RunCompletion \/ ProcessReadEvent \/ Poll

Spec == Init /\ [][Next]_vars /\ WF_vars(Poll) /\ SF_vars(RunCompletion)

-----------------------------------------------------------------------------
\* The system holds one socket for a connected adapter and none for another,
\* however many attempts have failed, and at whichever step.
NoSocketLeaks == sockets = IF IsConnected THEN 1 ELSE 0
=============================================================================
