----------------------------- MODULE PcanAdapter -----------------------------
(***************************************************************************)
(* The PCAN adapter, PcanAdapter.cpp: the library it loads for each        *)
(* connection, the channel it initialises in it, the functions it looks up *)
(* for a poll, and the sends' completions.  The receive callback runs in   *)
(* the middle of the poll and may call the adapter.                        *)
(***************************************************************************)
EXTENDS Naturals

CONSTANTS
    MaxFramesPerPoll,   \* maxFramesPerPoll
    MaxLoads,           \* bound: times the library is loaded
    CallsInCallback     \* what the application calls from the receive callback

BoundsAreNatural == MaxFramesPerPoll \in Nat /\ MaxLoads \in Nat

VARIABLES
    members,       \* library, channel and readEvent that are not null
    system,        \* which of them the system holds for the adapter
    loads,         \* times the library has been loaded: `library` is the last load
    running,       \* "dispatcher", "poll", or "receive": the callback runs
    read,          \* ProcessReadEvent's CAN_Read: the load it comes from
    count,         \* ProcessReadEvent's loop
    told,          \* the observer's last OnConnectionChanged
    pending,       \* pendingCompletion is the action of a send not yet answered
    scheduled      \* completions scheduled in the event dispatcher

vars == <<members, system, loads, running, read, count, told, pending, scheduled>>

device == <<members, system, loads, told>>
poll == <<running, read, count>>
completion == <<pending, scheduled>>

Init ==
    /\ members = {} /\ system = {}
    /\ loads = 0
    /\ running = "dispatcher" /\ read = 0 /\ count = 0
    /\ told = FALSE
    /\ pending = FALSE /\ scheduled = 0

IsConnected == {"library", "channel"} \subseteq members

MayCall(operation) ==
    running = "dispatcher" \/ (running = "receive" /\ operation \in CallsInCallback)

\* Mutation: the event is not closed.
ReleasedButEvent(held) == held \ {"event"}

\* What Release gives back, of what the adapter holds.
Released(held) == held

Release ==
    /\ system' = system \ Released(members)
    /\ members' = {}

-----------------------------------------------------------------------------
\* Connect, which disconnects first.  The receive event is a help that may be
\* missing.
Connect ==
    /\ MayCall("connect")
    /\ loads < MaxLoads
    /\ loads' = loads + 1
    /\ members' \in {{"library", "channel"}, {"library", "channel", "event"}}
    /\ system' = (system \ Released(members)) \cup members'
    /\ told' = TRUE
    /\ UNCHANGED <<poll, completion>>

\* Connect with a name or bitrate it refuses, without the library, or with a
\* channel that does not open: it releases what it got before it tells.
ConnectFails ==
    /\ MayCall("connect")
    /\ loads < MaxLoads
    /\ \E got \in {{}, {"library"}} :
        /\ loads' = loads + (IF got = {} THEN 0 ELSE 1)
        /\ system' = (system \ Released(members)) \cup (got \ Released(got))
    /\ members' = {}
    /\ told' = FALSE
    /\ UNCHANGED <<poll, completion>>

Disconnect ==
    /\ MayCall("disconnect")
    /\ IsConnected
    /\ Release
    /\ told' = FALSE
    /\ UNCHANGED <<loads, poll, completion>>

\* The completion is scheduled on every path through SendData.
ScheduleCompletion ==
    /\ pending' = TRUE
    /\ scheduled' = scheduled + 1

SendData ==
    /\ MayCall("send")
    /\ ~pending
    /\ ScheduleCompletion
    /\ UNCHANGED <<device, poll>>

RunCompletion ==
    /\ running = "dispatcher"
    /\ scheduled > 0
    /\ scheduled' = scheduled - 1
    /\ pending' = FALSE
    /\ UNCHANGED <<device, poll>>

-----------------------------------------------------------------------------
\* ProcessReadEvent looks CAN_Read up once, for the whole loop.
ProcessReadEvent ==
    /\ running = "dispatcher"
    /\ IsConnected
    /\ running' = "poll"
    /\ read' = loads
    /\ count' = 0
    /\ UNCHANGED <<device, completion>>

\* Mutation: the loop does not ask IsConnected.
PollGoesOnWhenReleased == read # 0 /\ count < MaxFramesPerPoll

PollGoesOn == read # 0 /\ count < MaxFramesPerPoll /\ IsConnected

\* The loop ends, or CAN_Read has no frame.
PollEnds ==
    /\ running = "poll"
    /\ running' = "dispatcher"
    /\ read' = 0
    /\ UNCHANGED <<count, device, completion>>

\* A frame is read; an extended data frame is delivered, others are dropped.
ReadFrame ==
    /\ running = "poll"
    /\ PollGoesOn
    /\ count' = count + 1
    /\ running' \in {"poll", "receive"}
    /\ UNCHANGED <<read, device, completion>>

ReceiveReturns ==
    /\ running = "receive"
    /\ running' = "poll"
    /\ UNCHANGED <<read, count, device, completion>>

Poll == PollEnds \/ ReadFrame \/ ReceiveReturns

Next ==
    \/ Connect \/ ConnectFails \/ Disconnect \/ SendData
    \/ RunCompletion \/ ProcessReadEvent \/ Poll

Spec == Init /\ [][Next]_vars /\ WF_vars(Poll) /\ SF_vars(RunCompletion)

-----------------------------------------------------------------------------
\* The library, the channel and the event the system holds are those the
\* adapter can still release: connecting again and failing leak nothing.
NothingLeaks == system = members
=============================================================================
