---------------------------- MODULE KvaserAdapter ----------------------------
(***************************************************************************)
(* The Kvaser adapter, KvaserAdapter.cpp: canlib is loaded and initialised *)
(* for each connection and unloaded after it, a handle is opened exclusive *)
(* and put on the bus, and a poll without an event to wait on (there is no *)
(* descriptor) reads what has arrived.  The receive callback runs in the   *)
(* middle of the poll and may call the adapter.                            *)
(***************************************************************************)
EXTENDS Naturals

CONSTANTS
    MaxFramesPerPoll,   \* maxFramesPerPoll
    MaxLoads,           \* bound: times the library is loaded
    CallsInCallback     \* what the application calls from the receive callback

BoundsAreNatural == MaxFramesPerPoll \in Nat /\ MaxLoads \in Nat

VARIABLES
    members,       \* "library" and "handle", when they are there
    system,        \* which of them the system holds for the adapter
    loads,         \* times canlib has been loaded: `library` is the last load
    running,       \* "dispatcher", "poll", or "receive": the callback runs
    read,          \* ProcessReadEvent's canRead: the load it comes from
    count,         \* ProcessReadEvent's loop
    told,          \* the observer's last OnConnectionChanged
    pending,       \* pendingCompletion is the action of a send not yet answered
    scheduled      \* completions scheduled in the event dispatcher

vars == <<members, system, loads, running, read, count, told, pending, scheduled>>

device == <<members, system, loads, told>>
poll == <<running, read, count>>
completion == <<pending, scheduled>>

Init ==
    /\ members = {} /\ system = {}
    /\ loads = 0
    /\ running = "dispatcher" /\ read = 0 /\ count = 0
    /\ told = FALSE
    /\ pending = FALSE /\ scheduled = 0

IsConnected == {"library", "handle"} \subseteq members

MayCall(operation) ==
    running = "dispatcher" \/ (running = "receive" /\ operation \in CallsInCallback)

\* Mutation: only a handle on the bus is closed.
ReleasedIfOnBus(held) == IF "onBus" \in held THEN held ELSE held \ {"handle"}

\* What Release gives back, of what the adapter holds: off the bus, the handle
\* closed, and the library unloaded.
Released(held) == held

Release ==
    /\ system' = system \ Released(members)
    /\ members' = {}

-----------------------------------------------------------------------------
\* Connect, which disconnects first.
Connect ==
    /\ MayCall("connect")
    /\ loads < MaxLoads
    /\ loads' = loads + 1
    /\ members' = {"library", "handle", "onBus"}
    /\ system' = (system \ Released(members)) \cup members'
    /\ told' = TRUE
    /\ UNCHANGED <<poll, completion>>

\* Connect with a name or bitrate it refuses, without canlib or its functions,
\* or with a handle that does not open, takes no bitrate or does not go on the
\* bus: it releases what it got before it tells.
ConnectFails ==
    /\ MayCall("connect")
    /\ loads < MaxLoads
    /\ \E got \in {{}, {"library"}, {"library", "handle"}} :
        /\ loads' = loads + (IF got = {} THEN 0 ELSE 1)
        /\ system' = (system \ Released(members)) \cup (got \ Released(got))
    /\ members' = {}
    /\ told' = FALSE
    /\ UNCHANGED <<poll, completion>>

Disconnect ==
    /\ MayCall("disconnect")
    /\ IsConnected
    /\ Release
    /\ told' = FALSE
    /\ UNCHANGED <<loads, poll, completion>>

\* The completion is scheduled on every path through SendData.
ScheduleCompletion ==
    /\ pending' = TRUE
    /\ scheduled' = scheduled + 1

SendData ==
    /\ MayCall("send")
    /\ ~pending
    /\ ScheduleCompletion
    /\ UNCHANGED <<device, poll>>

RunCompletion ==
    /\ running = "dispatcher"
    /\ scheduled > 0
    /\ scheduled' = scheduled - 1
    /\ pending' = FALSE
    /\ UNCHANGED <<device, poll>>

-----------------------------------------------------------------------------
\* ProcessReadEvent looks canRead up once, for the whole loop.
ProcessReadEvent ==
    /\ running = "dispatcher"
    /\ IsConnected
    /\ running' = "poll"
    /\ read' = loads
    /\ count' = 0
    /\ UNCHANGED <<device, completion>>

\* Mutation: the loop does not ask IsConnected.
PollGoesOnWhenReleased == read # 0 /\ count < MaxFramesPerPoll

PollGoesOn == read # 0 /\ count < MaxFramesPerPoll /\ IsConnected

\* The loop ends, or canRead has no frame.
PollEnds ==
    /\ running = "poll"
    /\ running' = "dispatcher"
    /\ read' = 0
    /\ UNCHANGED <<count, device, completion>>

\* A frame is read; an extended data frame is delivered, others are dropped.
ReadFrame ==
    /\ running = "poll"
    /\ PollGoesOn
    /\ count' = count + 1
    /\ running' \in {"poll", "receive"}
    /\ UNCHANGED <<read, device, completion>>

ReceiveReturns ==
    /\ running = "receive"
    /\ running' = "poll"
    /\ UNCHANGED <<read, count, device, completion>>

Poll == PollEnds \/ ReadFrame \/ ReceiveReturns

Next ==
    \/ Connect \/ ConnectFails \/ Disconnect \/ SendData
    \/ RunCompletion \/ ProcessReadEvent \/ Poll

Spec == Init /\ [][Next]_vars /\ WF_vars(Poll) /\ SF_vars(RunCompletion)

-----------------------------------------------------------------------------
\* The library, the handle and the place on the bus the system holds are those
\* the adapter can still release: a channel opened exclusively is not kept from
\* the next Connect by one that failed half-way.
NothingLeaks == system = members
=============================================================================
