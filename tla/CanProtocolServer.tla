-------------------------- MODULE CanProtocolServer --------------------------
(***************************************************************************)
(* The server side of the protocol: services::CanProtocolServer            *)
(* (can-lite/server/CanProtocolServer.cpp), with its system category and   *)
(* the sends of its handlers.                                              *)
(*                                                                         *)
(* A frame from the bus is checked for its address, charged to the rate    *)
(* budget of its urgency, offered to the ISO-TP transport when one is      *)
(* attached, routed to a registered category, checked for its sequence     *)
(* number and handled.  Only a handled command advances the sequence and   *)
(* shows that the client is alive; every other command that a category was *)
(* found for is answered with an acknowledgement that names the error.     *)
(*                                                                         *)
(* Everything the server sends leaves through its CanFrameTransport, here  *)
(* by what FrameDelivery promises of it (CanFrameTransport implements      *)
(* FrameDelivery).  A send may displace a waiting frame, whose onDone then *)
(* runs inside the send: a heartbeat is the first to give way.             *)
(*                                                                         *)
(* Timers may expire whenever they are armed.  An application's handler    *)
(* sends at most one frame in the step that runs it, and none when it      *)
(* rejects; what else it sends follows as ApplicationSends.                *)
(***************************************************************************)
EXTENDS Integers, Sequences, FiniteSets

CONSTANTS SequenceModulus,               \* 256: lastSequenceNumber is a uint8_t
          maxMessagesPerSecond,          \* Config (500)
          maxEmergencyMessagesPerSecond, \* Config (20)
          SystemCategory,                \* canSystemCategoryId
          ApplicationCategories,         \* categories the application may register
          SequencedCategories,           \* those whose commands carry a number
          canMaxRegisteredCategories,    \* 8
          ApplicationPriorities,         \* what handlers and ISO-TP may send at
          QueueDepth,                    \* of the transport (8)
          EmergencyReserve,              \* of the transport (2)
          NoFrame,
          MaxFrames,                     \* bound: frames received
          MaxSends                       \* bound: frames sent

ASSUME ServerAssumption ==
  /\ SequenceModulus \in Nat \ {0}
  /\ maxMessagesPerSecond \in Nat
  /\ maxEmergencyMessagesPerSecond \in Nat
  /\ SystemCategory \notin ApplicationCategories
  /\ SequencedCategories \subseteq ApplicationCategories
  /\ canMaxRegisteredCategories \in Nat \ {0}
  /\ ApplicationPriorities \subseteq {0, 4, 8, 12}
  /\ QueueDepth \in Nat
  /\ EmergencyReserve \in Nat
  /\ EmergencyReserve < QueueDepth
  /\ MaxFrames \in Nat
  /\ MaxSends \in Nat

VARIABLES
  lastSequenceNumber, sequenceInitialized,
  messageCountThisPeriod, emergencyMessageCountThisPeriod,
  counters,                \* Statistics()
  clientOnline,
  clientLivenessTimer,     \* armed?
  heartbeatPending,
  heartbeatTimer,          \* armed?
  categories,              \* ids in order of registration
  isoTpAttached,           \* isoTpTransport # nullptr
  onWay, waiting, outcome, \* the transport
  sent,                    \* history: the frames offered to the transport
  heard,                   \* history: frames addressed to the node, in all
                           \* and, per budget, since the last reset
  consumed,                \* history: frames ISO-TP took and made no PDU of
  accepted,                \* history: how many frames were handled
  commands                 \* history: those with a sequence number, in order

sequenceVars == <<lastSequenceNumber, sequenceInitialized>>
rateVars == <<messageCountThisPeriod, emergencyMessageCountThisPeriod>>
livenessVars == <<clientOnline, clientLivenessTimer>>
heartbeatVars == <<heartbeatPending, heartbeatTimer>>
registryVars == <<categories, isoTpAttached>>
sendVars == <<onWay, waiting, outcome, sent>>
acceptedVars == <<accepted, commands>>
historyVars == <<heard, consumed, acceptedVars>>
vars == <<sequenceVars, rateVars, counters, livenessVars, heartbeatVars,
          registryVars, sendVars, historyVars>>

-----------------------------------------------------------------------------
(* Sending *)

Priority == [emergency |-> 0, command |-> 4, response |-> 8, telemetry |-> 12,
             heartbeat |-> 16]

Priorities == {Priority[p] : p \in DOMAIN Priority}

Transport == INSTANCE FrameDelivery WITH
  Capacity <- QueueDepth,
  Reserve <- EmergencyReserve,
  EmergencyPriority <- Priority.emergency,
  offered <- [n \in 1 .. Len(sent) |-> sent[n].priority]

SequenceNumbers == 0 .. SequenceModulus - 1

Heartbeat == [kind |-> "heartbeat", priority |-> Priority.heartbeat]
CategoryList == [kind |-> "categoryList", priority |-> Priority.response]
CommandAck(status, expected) ==
  [kind |-> "ack", priority |-> Priority.response,
   status |-> status, expectedSequence |-> expected]
Other(priority) == [kind |-> "other", priority |-> priority]

\* transport.SendFrame
SendFrame(frame) ==
  /\ sent' = Append(sent, frame)
  /\ Transport!Offer(frame.priority)

\* What SendFrame returned.
Taken == outcome'[Len(sent) + 1] = "held"

\* onDone of a heartbeat runs in this step.
HeartbeatDone ==
  \E n \in 1 .. Len(sent) :
    /\ sent[n].kind = "heartbeat"
    /\ outcome[n] = "held"
    /\ outcome'[n] # "held"

OnDone == heartbeatPending' = (heartbeatPending /\ ~HeartbeatDone)

\* Every frame the transport accepts starts the heartbeat interval anew.
OnSendNotification == heartbeatTimer' = (heartbeatTimer \/ Taken)

Send(frame) ==
  /\ SendFrame(frame)
  /\ OnDone
  /\ OnSendNotification

SendNothing == UNCHANGED <<sendVars, heartbeatVars>>

\* Mutation: a heartbeat the transport refused stays pending.
SendHeartbeatForgettingRefusal ==
  /\ heartbeatTimer' = TRUE
  /\ \/ /\ heartbeatPending
        /\ UNCHANGED <<sendVars, heartbeatPending>>
     \/ /\ ~heartbeatPending
        /\ SendFrame(Heartbeat)
        /\ heartbeatPending' = TRUE

\* Mutation: the interval is not started when a heartbeat is pending.
SendHeartbeatWithoutTimer ==
  \/ /\ heartbeatPending
     /\ heartbeatTimer' = FALSE
     /\ UNCHANGED <<sendVars, heartbeatPending>>
  \/ /\ ~heartbeatPending
     /\ SendFrame(Heartbeat)
     /\ heartbeatTimer' = TRUE
     /\ heartbeatPending' = Taken

SendHeartbeat ==
  /\ heartbeatTimer' = TRUE
  /\ \/ /\ heartbeatPending
        /\ UNCHANGED <<sendVars, heartbeatPending>>
     \/ /\ ~heartbeatPending
        /\ SendFrame(Heartbeat)
        /\ heartbeatPending' = Taken

-----------------------------------------------------------------------------
(* Receiving *)

NoPayload == SequenceModulus   \* stands for an empty payload

\* What the server tells apart in a frame.  `addressed': a 29-bit identifier
\* with this node's id or the broadcast id.  `message': what the message type
\* is to the category.
ReceivedFrames ==
  [addressed : {TRUE}, emergency : BOOLEAN,
   category : {SystemCategory}, payload : {NoPayload},
   message : {"heartbeat", "statusRequest", "categoryListRequest",
              "unknown", "response"}]
  \cup
  [addressed : {TRUE}, emergency : BOOLEAN,
   category : SequencedCategories, payload : SequenceNumbers \cup {NoPayload},
   message : {"command", "unknown", "response"}]
  \cup
  [addressed : {TRUE}, emergency : BOOLEAN,
   category : ApplicationCategories \ SequencedCategories, payload : {NoPayload},
   message : {"command", "unknown", "response"}]
  \cup
  [addressed : {FALSE}, emergency : {FALSE}, category : {SystemCategory},
   payload : {NoPayload}, message : {"heartbeat"}]

IsRegistered(category) == \E i \in 1 .. Len(categories) : categories[i] = category

RequiresSequenceValidation(category) == category \in SequencedCategories

ExpectedSequence == (lastSequenceNumber + 1) % SequenceModulus

IsExpectedSequence(number) == ~sequenceInitialized \/ number = ExpectedSequence

\* AdmitCommand finds no category to route the frame to.
Unrouted(frame) == frame.message = "response" \/ ~IsRegistered(frame.category)

\* The error AdmitCommand answers with, or "none".
AdmissionError(frame) ==
  IF ~RequiresSequenceValidation(frame.category) THEN "none"
  ELSE IF frame.payload = NoPayload THEN "invalidPayload"
  ELSE IF ~frame.emergency /\ ~IsExpectedSequence(frame.payload) THEN "sequenceError"
  ELSE "none"

\* Mutation: the timer is only started anew, never for the first frame.
MarkAliveWithoutTimer ==
  /\ UNCHANGED clientLivenessTimer
  /\ clientOnline' = TRUE

MarkClientAlive ==
  /\ clientLivenessTimer' = TRUE
  /\ clientOnline' = TRUE

\* Mutation: the rejection is answered but not counted.
RejectUncounted(status, expected) ==
  /\ UNCHANGED counters
  /\ Send(CommandAck(status, expected))

RejectCommand(status, expected) ==
  /\ counters' = [counters EXCEPT !.invalidFrames = @ + 1]
  /\ Send(CommandAck(status, expected))

CommitSequence(frame) ==
  IF RequiresSequenceValidation(frame.category)
  THEN /\ lastSequenceNumber' = frame.payload
       /\ sequenceInitialized' = TRUE
  ELSE UNCHANGED sequenceVars

\* The handlers of the system category, and what an application's may send.
HandleMessage(frame) ==
  \/ frame.message = "heartbeat" /\ SendNothing
  \/ frame.message = "statusRequest" /\ SendHeartbeat
  \/ frame.message = "categoryListRequest" /\ Send(CategoryList)
  \/ frame.message = "command" /\ SendNothing
  \/ /\ frame.message = "command"
     /\ \E p \in ApplicationPriorities : Send(Other(p))

AcceptCommand(frame) ==
  /\ CommitSequence(frame)
  /\ HandleMessage(frame)
  /\ counters' = IF frame.emergency
                   THEN [counters EXCEPT !.emergencyAdmitted = @ + 1]
                   ELSE counters
  /\ MarkClientAlive
  /\ accepted' = accepted + 1
  /\ commands' = IF RequiresSequenceValidation(frame.category)
                   THEN Append(commands, [emergency |-> frame.emergency,
                                          number |-> frame.payload])
                   ELSE commands

\* What the handlers may answer.  System messages never come as a PDU: their
\* handlers have no HandlePdu.
Results(frame, isPdu) ==
  CASE frame.message = "unknown" -> {"unknownMessageType"}
    [] frame.message = "command" -> {"handled", "rejected"}
    [] OTHER -> IF isPdu THEN {"rejected"} ELSE {"handled"}

\* Mutation: the sequence number of an unknown command stays committed.
ConcludeWithoutRestore(frame, result) ==
  \/ /\ result = "handled"
     /\ AcceptCommand(frame)
  \/ /\ result = "rejected"
     /\ RejectCommand("invalidPayload", 0)
     /\ UNCHANGED <<sequenceVars, livenessVars, acceptedVars>>
  \/ /\ result = "unknownMessageType"
     /\ CommitSequence(frame)
     /\ RejectCommand("unknownCommand", 0)
     /\ UNCHANGED <<livenessVars, acceptedVars>>

\* The sequence number is restored when the handler did not accept.
Conclude(frame, result) ==
  \/ /\ result = "handled"
     /\ AcceptCommand(frame)
  \/ /\ result = "rejected"
     /\ RejectCommand("invalidPayload", 0)
     /\ UNCHANGED <<sequenceVars, livenessVars, acceptedVars>>
  \/ /\ result = "unknownMessageType"
     /\ RejectCommand("unknownCommand", 0)
     /\ UNCHANGED <<sequenceVars, livenessVars, acceptedVars>>

\* AdmitCommand, CommitSequence, the handler and Conclude.
Dispatch(frame, isPdu) ==
  \/ /\ Unrouted(frame)
     /\ counters' = [counters EXCEPT !.invalidFrames = @ + 1]
     /\ SendNothing
     /\ UNCHANGED <<sequenceVars, livenessVars, acceptedVars>>
  \/ /\ ~Unrouted(frame)
     /\ AdmissionError(frame) # "none"
     /\ RejectCommand(AdmissionError(frame),
                      IF AdmissionError(frame) = "sequenceError"
                      THEN ExpectedSequence ELSE 0)
     /\ UNCHANGED <<sequenceVars, livenessVars, acceptedVars>>
  \/ /\ ~Unrouted(frame)
     /\ AdmissionError(frame) = "none"
     /\ \E result \in Results(frame, isPdu) : Conclude(frame, result)

HasBudget(frame) ==
  IF frame.emergency
  THEN emergencyMessageCountThisPeriod < maxEmergencyMessagesPerSecond
  ELSE messageCountThisPeriod < maxMessagesPerSecond

\* Mutation: emergencies are charged to the ordinary budget as well.
ConsumeBothBudgets(frame) ==
  /\ emergencyMessageCountThisPeriod' =
       emergencyMessageCountThisPeriod + (IF frame.emergency THEN 1 ELSE 0)
  /\ messageCountThisPeriod' = messageCountThisPeriod + 1

ConsumeBudget(frame) ==
  IF frame.emergency
  THEN /\ emergencyMessageCountThisPeriod' = emergencyMessageCountThisPeriod + 1
       /\ UNCHANGED messageCountThisPeriod
  ELSE /\ messageCountThisPeriod' = messageCountThisPeriod + 1
       /\ UNCHANGED emergencyMessageCountThisPeriod

Hear(frame) ==
  heard' = IF frame.emergency
           THEN [heard EXCEPT !.all = @ + 1, !.emergency = @ + 1]
           ELSE [heard EXCEPT !.all = @ + 1, !.ordinary = @ + 1]

RefuseOverRate(frame) ==
  /\ ~HasBudget(frame)
  /\ counters' = IF frame.emergency
                   THEN [counters EXCEPT !.emergencyRateLimited = @ + 1]
                   ELSE [counters EXCEPT !.rateLimited = @ + 1]
  /\ SendNothing
  /\ UNCHANGED <<sequenceVars, rateVars, livenessVars, consumed, acceptedVars>>

\* The ISO-TP transport claims the frame.  It may answer with a flow control
\* frame, or complete a PDU, which is dispatched from inside ProcessFrame.
ConsumedByIsoTp(frame) ==
  /\ isoTpAttached
  /\ \/ /\ consumed' = consumed + 1
        /\ \/ SendNothing
           \/ \E p \in ApplicationPriorities : Send(Other(p))
        /\ UNCHANGED <<sequenceVars, counters, livenessVars, acceptedVars>>
     \/ /\ \E first \in SequenceNumbers :
             Dispatch([frame EXCEPT !.payload = first], TRUE)
        /\ UNCHANGED consumed

ProcessReceivedMessage(frame) ==
  /\ frame.addressed
  /\ heard.all < MaxFrames
  /\ Hear(frame)
  /\ \/ RefuseOverRate(frame)
     \/ /\ HasBudget(frame)
        /\ ConsumeBudget(frame)
        /\ \/ ConsumedByIsoTp(frame)
           \/ Dispatch(frame, FALSE) /\ UNCHANGED consumed
  /\ UNCHANGED registryVars

-----------------------------------------------------------------------------
(* Timers, the transport's completions, the application *)

HeartbeatTimerExpires ==
  /\ heartbeatTimer
  /\ SendHeartbeat
  /\ UNCHANGED <<sequenceVars, rateVars, counters, livenessVars, registryVars,
                 historyVars>>

ResetRateCounter ==
  /\ messageCountThisPeriod' = 0
  /\ emergencyMessageCountThisPeriod' = 0
  /\ heard' = [heard EXCEPT !.emergency = 0, !.ordinary = 0]
  /\ UNCHANGED <<sequenceVars, counters, livenessVars, heartbeatVars,
                 registryVars, sendVars, consumed, acceptedVars>>

HandleClientTimeout ==
  /\ clientLivenessTimer
  /\ clientLivenessTimer' = FALSE
  /\ clientOnline' = FALSE
  /\ UNCHANGED <<sequenceVars, rateVars, counters, heartbeatVars, registryVars,
                 sendVars, historyVars>>

\* The transport is done with a frame, well or not.
FrameDone ==
  /\ UNCHANGED sent
  /\ \E result \in {"delivered", "lost"} : Transport!Finish(result)
  /\ OnDone
  /\ UNCHANGED <<sequenceVars, rateVars, counters, livenessVars, heartbeatTimer,
                 registryVars, historyVars>>

\* The application, or ISO-TP, sends through Transport().
ApplicationSends ==
  /\ \E p \in ApplicationPriorities : Send(Other(p))
  /\ UNCHANGED <<sequenceVars, rateVars, counters, livenessVars, registryVars,
                 historyVars>>

\* Mutation: an id may be registered twice.
RegisterTwice(category) ==
  /\ Len(categories) < canMaxRegisteredCategories
  /\ categories' = Append(categories, category)
  /\ UNCHANGED <<sequenceVars, rateVars, counters, livenessVars, heartbeatVars,
                 isoTpAttached, sendVars, historyVars>>

RegisterCategory(category) ==
  /\ Len(categories) < canMaxRegisteredCategories
  /\ ~IsRegistered(category)
  /\ categories' = Append(categories, category)
  /\ UNCHANGED <<sequenceVars, rateVars, counters, livenessVars, heartbeatVars,
                 isoTpAttached, sendVars, historyVars>>

UnregisterCategory(category) ==
  /\ category # SystemCategory
  /\ \E i \in 1 .. Len(categories) :
       /\ categories[i] = category
       /\ categories' = SubSeq(categories, 1, i - 1)
                        \o SubSeq(categories, i + 1, Len(categories))
  /\ UNCHANGED <<sequenceVars, rateVars, counters, livenessVars, heartbeatVars,
                 isoTpAttached, sendVars, historyVars>>

AttachOrDetachIsoTpTransport ==
  /\ isoTpAttached' = ~isoTpAttached
  /\ UNCHANGED <<sequenceVars, rateVars, counters, livenessVars, heartbeatVars,
                 categories, sendVars, historyVars>>

Init ==
  /\ lastSequenceNumber = 0
  /\ sequenceInitialized = FALSE
  /\ messageCountThisPeriod = 0
  /\ emergencyMessageCountThisPeriod = 0
  /\ counters = [rateLimited |-> 0, emergencyRateLimited |-> 0,
                 invalidFrames |-> 0, emergencyAdmitted |-> 0]
  /\ clientOnline = FALSE
  /\ clientLivenessTimer = FALSE
  /\ heartbeatPending = FALSE
  /\ heartbeatTimer = TRUE
  /\ categories = <<SystemCategory>>
  /\ isoTpAttached = FALSE
  /\ sent = <<>>
  /\ Transport!Init
  /\ heard = [all |-> 0, emergency |-> 0, ordinary |-> 0]
  /\ consumed = 0
  /\ accepted = 0
  /\ commands = <<>>

Next ==
  \/ \E frame \in ReceivedFrames : ProcessReceivedMessage(frame)
  \/ HeartbeatTimerExpires
  \/ ResetRateCounter
  \/ HandleClientTimeout
  \/ FrameDone
  \/ ApplicationSends
  \/ \E category \in {SystemCategory} \cup ApplicationCategories :
       RegisterCategory(category) \/ UnregisterCategory(category)
  \/ AttachOrDetachIsoTpTransport

\* Armed timers expire, and the transport concludes every frame it took.
Spec ==
  /\ Init
  /\ [][Next]_vars
  /\ WF_vars(HeartbeatTimerExpires)
  /\ WF_vars(HandleClientTimeout)
  /\ WF_vars(FrameDone)

-----------------------------------------------------------------------------
(* Properties *)

SentFrames == [kind : {"heartbeat", "categoryList", "other"}, priority : Priorities]
  \cup [kind : {"ack"}, priority : Priorities,
        status : {"invalidPayload", "unknownCommand", "sequenceError"},
        expectedSequence : SequenceNumbers]

\* Every variable has its type; numbers given to the client fit a uint8_t.
TypeOK ==
  /\ lastSequenceNumber \in SequenceNumbers
  /\ sequenceInitialized \in BOOLEAN
  /\ messageCountThisPeriod \in 0 .. maxMessagesPerSecond
  /\ emergencyMessageCountThisPeriod \in 0 .. maxEmergencyMessagesPerSecond
  /\ counters \in [rateLimited : Nat, emergencyRateLimited : Nat,
                   invalidFrames : Nat, emergencyAdmitted : Nat]
  /\ clientOnline \in BOOLEAN
  /\ clientLivenessTimer \in BOOLEAN
  /\ heartbeatPending \in BOOLEAN
  /\ heartbeatTimer \in BOOLEAN
  /\ categories \in Seq({SystemCategory} \cup ApplicationCategories)
  /\ isoTpAttached \in BOOLEAN
  /\ onWay \in Transport!Frames \cup {NoFrame}
  /\ waiting \subseteq Transport!Frames
  /\ outcome \in [1 .. MaxSends -> Transport!Outcomes]
  /\ sent \in Seq(SentFrames)
  /\ heard \in [all : Nat, emergency : Nat, ordinary : Nat]
  /\ consumed \in Nat
  /\ accepted \in Nat
  /\ commands \in Seq([emergency : BOOLEAN, number : SequenceNumbers])

HeldHeartbeats ==
  {n \in 1 .. Len(sent) : sent[n].kind = "heartbeat" /\ outcome[n] = "held"}

\* The transport never holds two heartbeats, and heartbeatPending is set just
\* as long as it holds one: whether it was sent, displaced by another send, or
\* never taken.
OneHeartbeatPending ==
  Cardinality(HeldHeartbeats) = IF heartbeatPending THEN 1 ELSE 0

\* However many commands are rejected, unknown, malformed, discarded or lost in
\* between: an ordinary command is handled only right after the one that
\* carried the number before it, and an emergency sets the number anew.
CommandsInOrder ==
  /\ sequenceInitialized <=> commands # <<>>
  /\ sequenceInitialized => lastSequenceNumber = commands[Len(commands)].number
  /\ \A i \in 2 .. Len(commands) :
       \/ commands[i].emergency
       \/ commands[i].number = (commands[i - 1].number + 1) % SequenceModulus

Least(a, b) == IF a < b THEN a ELSE b

\* Neither kind of traffic uses up the other's budget: each kind is admitted up
\* to its own limit in a period, whatever arrives of the other.
BudgetsAreSeparate ==
  /\ messageCountThisPeriod = Least(heard.ordinary, maxMessagesPerSecond)
  /\ emergencyMessageCountThisPeriod =
       Least(heard.emergency, maxEmergencyMessagesPerSecond)

\* Ids are unique, so a frame has one handler; the system category stays; and
\* the list of ids fits one frame.
RegistryIsSound ==
  /\ \A i, j \in 1 .. Len(categories) : categories[i] = categories[j] => i = j
  /\ categories[1] = SystemCategory
  /\ Len(categories) <= canMaxRegisteredCategories

\* Every frame addressed to the node is accounted for once: over its rate,
\* invalid, taken by ISO-TP, or handled, by one handler.
EveryFrameAccountedFor ==
  /\ heard.all = counters.rateLimited + counters.emergencyRateLimited
                 + counters.invalidFrames + consumed + accepted
  /\ RegistryIsSound

\* A client that falls silent is reported offline.  The frames are bounded, so
\* the timer is started anew only finitely often.
SilentClientGoesOffline == clientOnline ~> ~clientOnline

\* The server never falls silent: whatever is refused, displaced or lost,
\* frames keep being offered to the transport (up to the bound).
NeverSilent == <>(Len(sent) = MaxSends)

\* Both: the server keeps going, and does not go on for a client that is gone.
ServerKeepsGoing == NeverSilent /\ SilentClientGoesOffline

=============================================================================
