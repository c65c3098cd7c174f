----------------------------- MODULE GsUsbAdapter -----------------------------
(***************************************************************************)
(* The candleLight adapter over WinUSB, GsUsbAdapter.cpp: the handles it   *)
(* holds, the one overlapped read it keeps outstanding, the poll loop that *)
(* dispatches the transfers of that read, and the sends' completions.      *)
(*                                                                         *)
(* The receive callback and the observer's OnError run in the middle of    *)
(* the adapter's functions, and the application may call the adapter from  *)
(* them: `calls` is the stack of what has been interrupted.                *)
(***************************************************************************)
EXTENDS Naturals, Sequences, SequencesExt

CONSTANTS
    MaxTransfersPerPoll,    \* maxTransfersPerPoll
    MaxFramesPerTransfer,   \* bound: frames of one USB transfer
    CallsInCallback         \* what the application calls from a callback

BoundsAreNatural == MaxTransfersPerPoll \in Nat /\ MaxFramesPerTransfer \in Nat

VARIABLES
    open,
    handles,       \* device, usb, readEvent and writeEvent that are not null
    readPending,
    reads,         \* reads the driver has been given and has not given back
    count,         \* ProcessReadEvent's loop
    frames,        \* frames of the transfer Dispatch has left
    calls,         \* "poll": the loop runs; the rest: a callback runs
    told,          \* the observer's last OnConnectionChanged
    pending,       \* pendingCompletion is the action of a send not yet answered
    scheduled      \* completions scheduled in the event dispatcher

vars == <<open, handles, readPending, reads, count, frames, calls, told, pending, scheduled>>

device == <<open, handles, readPending, reads>>
poll == <<count, frames>>
completion == <<pending, scheduled>>

AllHandles == {"device", "usb", "readEvent", "writeEvent"}
Callbacks == {"receive", "error", "openFailed", "lost"}

Init ==
    /\ open = FALSE
    /\ handles = {}
    /\ readPending = FALSE
    /\ reads = 0
    /\ count = 0
    /\ frames = 0
    /\ calls = <<>>
    /\ told = FALSE
    /\ pending = FALSE
    /\ scheduled = 0

IsConnected == open

\* The application runs: from the event dispatcher, or inside a callback.
Running == IF calls = <<>> THEN "dispatcher" ELSE calls[1]
MayCall(operation) ==
    Running = "dispatcher" \/ (Running \in Callbacks /\ operation \in CallsInCallback)
CallBack(callback) == calls' = <<callback>> \o calls

StartRead ==
    /\ reads' = reads + 1
    /\ readPending' = TRUE

\* Mutation: the read is not waited for.
ReadsAfterCarelessClose == reads

\* Close aborts an outstanding read and waits for it.
ReadsAfterClose == IF "usb" \in handles /\ readPending THEN 0 ELSE reads

Close ==
    /\ reads' = ReadsAfterClose
    /\ handles' = {}
    /\ readPending' = FALSE
    /\ open' = FALSE

-----------------------------------------------------------------------------
\* Connect, when it succeeds.  It is a reconnection when the adapter is open.
Open ==
    /\ handles' = AllHandles
    /\ open' = TRUE
    /\ reads' = ReadsAfterClose + 1
    /\ readPending' = TRUE

Connect ==
    /\ MayCall("connect")
    /\ Open
    /\ told' = TRUE
    /\ UNCHANGED <<calls, poll, completion>>

\* What Open holds when the device, its endpoints, its set-up or its read fail.
HeldWhenItFails ==
    {{}, {"device"}, {"device", "usb"}, {"device", "usb", "readEvent"}, AllHandles}

\* Connect, when Open fails: it reports the error before Connect closes again.
ConnectFails ==
    /\ MayCall("connect")
    /\ handles' \in HeldWhenItFails
    /\ open' = FALSE
    /\ told' = FALSE
    /\ readPending' = FALSE
    /\ reads' = ReadsAfterClose
    /\ CallBack("openFailed")
    /\ UNCHANGED <<poll, completion>>

Disconnect ==
    /\ MayCall("disconnect")
    /\ IsConnected
    /\ Close
    /\ told' = FALSE
    /\ UNCHANGED <<calls, poll, completion>>

\* SendData.  WriteFrame waits for its own transfer, so it leaves nothing
\* behind; whatever becomes of it, the completion comes from the dispatcher.
ScheduleCompletion ==
    /\ pending' = TRUE
    /\ scheduled' = scheduled + 1

SendData ==
    /\ MayCall("send")
    /\ ~pending
    /\ ScheduleCompletion
    /\ UNCHANGED <<device, poll, calls, told>>

\* The event of ScheduleCompletion.
RunCompletion ==
    /\ calls = <<>>
    /\ scheduled > 0
    /\ scheduled' = scheduled - 1
    /\ pending' = FALSE
    /\ UNCHANGED <<device, poll, calls, told>>

-----------------------------------------------------------------------------
\* ProcessReadEvent.
ProcessReadEvent ==
    /\ calls = <<>>
    /\ IsConnected
    /\ calls' = <<"poll">>
    /\ count' = 0
    /\ frames' = 0
    /\ UNCHANGED <<device, told, completion>>

PollGoesOn == count < MaxTransfersPerPoll /\ IsConnected

Polling == Running = "poll"

\* The loop ends, or the read is still under way (ERROR_IO_INCOMPLETE).
PollEnds ==
    /\ Polling
    /\ frames = 0
    /\ ~PollGoesOn \/ reads > 0
    /\ calls' = Tail(calls)
    /\ UNCHANGED <<device, poll, told, completion>>

\* Lost closes, reports the error and only then the lost connection.
Lost ==
    /\ Close
    /\ calls' = <<"lost">> \o Tail(calls)
    /\ UNCHANGED <<poll, told, completion>>

ReadFails ==
    /\ Polling
    /\ frames = 0
    /\ PollGoesOn
    /\ reads > 0
    /\ Lost

\* The read is given back with frames for Dispatch.
ReadCompletes ==
    /\ Polling
    /\ frames = 0
    /\ PollGoesOn
    /\ readPending
    /\ readPending' = FALSE
    /\ reads' = reads - 1
    /\ frames' \in 1 .. MaxFramesPerTransfer
    /\ UNCHANGED <<open, handles, count, calls, told, completion>>

\* Mutation: the loop does not ask IsConnected.
DispatchGoesOnWhenClosed == frames > 0

DispatchGoesOn == frames > 0 /\ IsConnected

\* Dispatch hands on one frame, reports a bus error, or ignores the frame.
DispatchFrame ==
    /\ Polling
    /\ DispatchGoesOn
    /\ frames' = frames - 1
    /\ calls' \in {calls, <<"receive">> \o calls, <<"error">> \o calls}
    /\ UNCHANGED <<device, count, told, completion>>

\* Mutation: no read after the last transfer of a poll.
ReadsAgainIfPolling == IsConnected /\ count + 1 < MaxTransfersPerPoll

ReadsAgain == IsConnected

\* Dispatch is done: read again, if the connection is still there.
Dispatched ==
    /\ Polling
    /\ ~readPending
    /\ ~DispatchGoesOn
    /\ frames' = 0
    /\ IF ReadsAgain
       THEN /\ StartRead
            /\ count' = count + 1
            /\ UNCHANGED <<open, handles, calls>>
       ELSE /\ calls' = Tail(calls)
            /\ UNCHANGED <<device, count>>
    /\ UNCHANGED <<told, completion>>

ReadCannotStart ==
    /\ Polling
    /\ ~readPending
    /\ ~DispatchGoesOn
    /\ ReadsAgain
    /\ Lost

-----------------------------------------------------------------------------
\* A callback returns to the function that called it.
ReceiveOrErrorReturns ==
    /\ Running \in {"receive", "error"}
    /\ calls' = Tail(calls)
    /\ UNCHANGED <<device, poll, told, completion>>

OpenFailedReturns ==
    /\ Running = "openFailed"
    /\ Close
    /\ calls' = Tail(calls)
    /\ UNCHANGED <<poll, told, completion>>

LostReturns ==
    /\ Running = "lost"
    /\ told' = FALSE
    /\ calls' = Tail(calls)
    /\ UNCHANGED <<device, poll, completion>>

Adapter ==
    \/ PollEnds \/ ReadFails \/ ReadCompletes \/ DispatchFrame \/ Dispatched \/ ReadCannotStart
    \/ ReceiveOrErrorReturns \/ OpenFailedReturns \/ LostReturns

Next ==
    \/ Connect \/ ConnectFails \/ Disconnect \/ SendData
    \/ RunCompletion \/ ProcessReadEvent \/ Adapter

\* A function of the adapter goes on until it returns, so does a callback; the
\* event dispatcher takes its events in turn, the poll being one of them.
Spec == Init /\ [][Next]_vars /\ WF_vars(Adapter) /\ SF_vars(RunCompletion)

-----------------------------------------------------------------------------
\* A connection the event loop waits on always has its one read with the
\* driver: without one readEvent never fires and the adapter is deaf, with two
\* they share a buffer.
ListensWhileOpen == calls = <<>> /\ open => reads = 1 /\ "readEvent" \in handles

\* A closed adapter holds no handle, and no read that could still write into
\* its buffer; only the OnError of a failed Open comes before the clean-up.
HoldsNothingWhenClosed == ~open /\ ~Contains(calls, "openFailed") => handles = {} /\ reads = 0
=============================================================================
