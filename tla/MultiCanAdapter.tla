---------------------------- MODULE MultiCanAdapter ----------------------------
(***************************************************************************)
(* The adapter that routes to one of several, MultiCanAdapter.cpp.  Each   *)
(* backend is an adapter that keeps its own promises (CanBusAdapter); the  *)
(* ones of Handshaking connect as SlcanAdapter does, in two steps of which *)
(* the second takes a poll or ends with a timeout.                         *)
(*                                                                         *)
(* `active` is what every call goes to, and what a backend's callbacks are *)
(* compared with before they are passed on.                                *)
(***************************************************************************)
EXTENDS Naturals, FiniteSets

CONSTANTS
    Backends,          \* the adapters added
    Handshaking,       \* those that are connected only after a handshake
    None,
    CallsInReceive,    \* what the application calls from the receive callback,
    CallsInError       \* and from the OnError of a backend that has closed

NoneIsNoBackend == None \notin Backends /\ Handshaking \subseteq Backends

VARIABLES
    active,
    state,       \* of each backend: "closed", "opening" or "open"
    running,     \* "dispatcher", "receive": the receive callback runs, or the
                 \* backend that has closed and whose OnError runs
    told,        \* the observer's last OnConnectionChanged
    pending,     \* the send not yet answered: None, or who has taken it
    overruled    \* history: the application has taken the router from the backend
                 \* that has closed, in its OnError, and the loss is not told

vars == <<active, state, running, told, pending, overruled>>

Multi == "multi"

Init ==
    /\ active = None
    /\ state = [b \in Backends |-> "closed"]
    /\ running = "dispatcher"
    /\ told = FALSE
    /\ pending = None
    /\ overruled = FALSE

IsConnected == active # None /\ state[active] = "open"

MayCall(operation) ==
    \/ running = "dispatcher"
    \/ running = "receive" /\ operation \in CallsInReceive
    \/ running \in Backends /\ operation \in CallsInError

\* Backend::IsActive: the callback of another backend goes no further.
IsActive(b) == active = b

\* A backend has closed and its OnConnectionChanged(false) is still to come.
ReportsLoss == running \in Backends /\ IsActive(running)

-----------------------------------------------------------------------------
\* Mutation: the connection is not ended first.
StateLeftOpen == state

\* Disconnect, as Connect calls it: the backend closes and reports it, which
\* clears active.
StateAfterDisconnect == IF IsConnected THEN [state EXCEPT ![active] = "closed"] ELSE state

ToldAfterDisconnect == told /\ ~IsConnected

\* Resolve found no backend for the name: nothing else is changed.
ConnectUnknown ==
    /\ MayCall("connect")
    /\ state' = StateAfterDisconnect
    /\ active' = (IF IsConnected THEN None ELSE active)
    /\ told' = ToldAfterDisconnect
    /\ UNCHANGED <<running, pending, overruled>>

\* The backend connects, or begins its handshake.  A gs_usb backend, which
\* connects without one, is not connected again by its own OnError.
Connect(b) ==
    /\ MayCall("connect")
    /\ running = b => b \in Handshaking
    /\ state' = [StateAfterDisconnect EXCEPT ![b] = IF b \in Handshaking THEN "opening" ELSE "open"]
    /\ active' = b
    /\ told' = (b \notin Handshaking \/ ToldAfterDisconnect)
    /\ overruled' = (b \in Handshaking /\ (overruled \/ (ReportsLoss /\ b # running)))
    /\ UNCHANGED <<running, pending>>

\* The backend refuses.  A handshake of its own that was under way goes on.
ConnectFails(b) ==
    /\ MayCall("connect")
    /\ state' = StateAfterDisconnect
    /\ active' = None
    /\ told' = ToldAfterDisconnect
    /\ overruled' = (overruled \/ ReportsLoss)
    /\ UNCHANGED <<running, pending>>

\* A backend that is closed has nothing to report.
Disconnect ==
    /\ MayCall("disconnect")
    /\ active # None
    /\ state' = [state EXCEPT ![active] = "closed"]
    /\ active' = None
    /\ told' = (told /\ state[active] = "closed")
    /\ overruled' = ((overruled \/ ReportsLoss) /\ state[active] = "closed")
    /\ UNCHANGED <<running, pending>>

-----------------------------------------------------------------------------
\* Mutation: the handshake has no timer.
ClosesIfPolled(b) == state[b] # "closed" /\ IsActive(b)

\* A backend loses its device, or its handshake fails or times out: it closes
\* and reports the error, to whom it may concern.
ClosesByItself(b) == state[b] = "opening" \/ (state[b] = "open" /\ IsActive(b))

BackendCloses(b) ==
    /\ running = "dispatcher"
    /\ ClosesByItself(b)
    /\ state' = [state EXCEPT ![b] = "closed"]
    /\ running' = IF IsActive(b) THEN b ELSE running
    /\ UNCHANGED <<active, told, pending, overruled>>

\* Backend::OnConnectionChanged(false) after it: an active backend is forgotten,
\* also one that its OnError has connected again, and of another nobody is told.
LossIsTold ==
    /\ running \in Backends
    /\ running' = "dispatcher"
    /\ IF IsActive(running)
       THEN active' = None /\ told' = FALSE /\ overruled' = FALSE
       ELSE UNCHANGED <<active, told, overruled>>
    /\ UNCHANGED <<state, pending>>

\* The handshake's last reply is read in a poll, and ProcessReadEvent polls the
\* active backend only.
HandshakeCompletes(b) ==
    /\ running = "dispatcher"
    /\ active = b
    /\ state[b] = "opening"
    /\ state' = [state EXCEPT ![b] = "open"]
    /\ told' = TRUE
    /\ overruled' = FALSE
    /\ UNCHANGED <<active, running, pending>>

\* The active backend's poll delivers a frame.
DeliverFrame(b) ==
    /\ running = "dispatcher"
    /\ active = b
    /\ state[b] = "open"
    /\ running' = "receive"
    /\ UNCHANGED <<active, state, told, pending, overruled>>

FrameDelivered ==
    /\ running = "receive"
    /\ running' = "dispatcher"
    /\ UNCHANGED <<active, state, told, pending, overruled>>

\* SendData goes to the active backend, or fails through ScheduleCompletion.
\* Both defer the completion, and whoever took the send owes it, connected or
\* not.
Taker == IF active = None THEN Multi ELSE active

SendData ==
    /\ MayCall("send")
    /\ pending = None
    /\ pending' = Taker
    /\ UNCHANGED <<active, state, running, told, overruled>>

\* Mutation: the completion asks for the active backend.
CompletesWhileActive == pending \in {Multi, active} \ {None}

Completes == pending # None

RunCompletion ==
    /\ running = "dispatcher"
    /\ Completes
    /\ pending' = None
    /\ UNCHANGED <<active, state, running, told, overruled>>

Next ==
    \/ ConnectUnknown \/ Disconnect \/ FrameDelivered \/ LossIsTold \/ SendData \/ RunCompletion
    \/ \E b \in Backends :
        Connect(b) \/ ConnectFails(b) \/ BackendCloses(b) \/ HandshakeCompletes(b) \/ DeliverFrame(b)

\* What the backends owe: completions, and the end of a handshake at its
\* timeout.
Spec ==
    /\ Init /\ [][Next]_vars
    /\ WF_vars(FrameDelivered \/ LossIsTold) /\ SF_vars(RunCompletion)
    /\ \A b \in Handshaking : SF_vars(state[b] = "opening" /\ BackendCloses(b))

-----------------------------------------------------------------------------
\* A connection has ended and the observer has not been told, or, if the
\* application has overruled the report, is not told.
LossUntold == ReportsLoss \/ overruled

\* Outside its callbacks, the observer's last OnConnectionChanged is what
\* IsConnected answers.
ChangesAreTold == running = "dispatcher" => told = IsConnected

\* No backend stays connected that calls no longer go to: its bus would be
\* acknowledging frames nobody reads.
OnlyTheActiveIsOpen == \A b \in Backends : state[b] = "open" => active = b

\* A backend left behind in its handshake, which nobody polls any more, gives
\* its port back all the same.
LeftBehindCloses ==
    \A b \in Handshaking : state[b] = "opening" /\ active # b ~> state[b] # "opening" \/ active = b
=============================================================================
