------------------------- MODULE CanProtocolClient -------------------------
(***************************************************************************)
(* The client side of the protocol: services::CanProtocolClient            *)
(* (can-lite/client/CanProtocolClient.cpp) with its system category.  It   *)
(* extends ClientLiveness (which servers are alive), uses ClientSequences  *)
(* (numbers and acknowledgements), and adds the discovery of a server's    *)
(* categories, heartbeats, registration and ISO-TP.                        *)
(*                                                                         *)
(* A frame from the bus first shows that its sender is alive, then may be  *)
(* an acknowledgement or the answer to a discovery.  What observers and    *)
(* handlers of the application do in return follows as steps of their own: *)
(* nothing the client reads after calling them is theirs to change.        *)
(***************************************************************************)
EXTENDS ClientLiveness, Sequences, FiniteSets

CONSTANTS SequenceModulus, Commands, CommandPriority, ExpectedNumbers, QueueDepth, EmergencyReserve,
          NoFrame, MaxSends,          \* as in ClientSequences
          ApplicationPriorities,      \* frames without a number, ISO-TP frames
          SystemCategory,             \* canSystemCategoryId
          ApplicationCategories,      \* categories the application may register
          canMaxRegisteredCategories, \* 8
          NoNode                      \* no discovery is pending

ASSUME ClientAssumption ==
  /\ NoNode \notin Servers
  /\ NoNode # Broadcast
  /\ SystemCategory \notin ApplicationCategories
  /\ canMaxRegisteredCategories \in Nat \ {0}

\* What ClientSequences assumes of its constants, beside LivenessAssumption.
ASSUME NumberingAssumption ==
  /\ SequenceModulus \in Nat \ {0}
  /\ CommandPriority \in [Commands -> Nat]
  /\ ExpectedNumbers \subseteq 0 .. SequenceModulus - 1
  /\ ApplicationPriorities \subseteq Nat
  /\ QueueDepth \in Nat
  /\ EmergencyReserve \in Nat
  /\ EmergencyReserve < QueueDepth
  /\ MaxSends \in Nat

VARIABLES
  serverStates, ackTimers, nextSequenceEvictIndex,
  onWay, waiting, outcome, sent, ending, since,    \* ClientSequences
  discoveryNode,
  discoveryTimer,         \* armed?
  heartbeatTimer,         \* armed?
  categories,             \* ids in order of registration
  isoTpAttached,          \* isoTpTransport # nullptr
  asked, answered         \* history: discoveries that were accepted and
                          \* those whose onDone has run

Priority == [command |-> 4, heartbeat |-> 16]

Numbering == INSTANCE ClientSequences WITH
  OtherPriorities <- ApplicationPriorities \cup {Priority.command, Priority.heartbeat}

discoveryVars == <<discoveryNode, discoveryTimer, asked, answered>>
registryVars == <<categories, isoTpAttached>>
numberingVars == <<serverStates, ackTimers, nextSequenceEvictIndex, onWay,
                   waiting, outcome, sent, ending, since>>
vars == <<numberingVars, livenessVars, discoveryVars, heartbeatTimer, registryVars>>

-----------------------------------------------------------------------------
(* Sending *)

\* Every frame the transport accepts starts the heartbeat interval anew.
OnSendNotification == heartbeatTimer' = (heartbeatTimer \/ Numbering!Taken)

SendCommand(node, command) ==
  /\ Numbering!SendCommand(node, command)
  /\ OnSendNotification
  /\ UNCHANGED <<livenessVars, discoveryVars, registryVars>>

SendOversizedCommand(node) ==
  /\ Numbering!SendOversizedCommand(node)
  /\ UNCHANGED <<livenessVars, discoveryVars, heartbeatTimer, registryVars>>

\* The application, or ISO-TP, sends a frame without a number.
ApplicationSends(priority) ==
  /\ Numbering!SendOther(priority)
  /\ OnSendNotification
  /\ UNCHANGED <<livenessVars, discoveryVars, registryVars>>

\* Mutation: only an accepted heartbeat starts the interval anew.
SendHeartbeatWithoutTimer ==
  /\ heartbeatTimer
  /\ Numbering!SendOther(Priority.heartbeat)
  /\ heartbeatTimer' = Numbering!Taken
  /\ UNCHANGED <<livenessVars, discoveryVars, registryVars>>

\* The heartbeat timer expires; its interval starts anew in any case.
SendHeartbeat ==
  /\ heartbeatTimer
  /\ Numbering!SendOther(Priority.heartbeat)
  /\ heartbeatTimer' = TRUE
  /\ UNCHANGED <<livenessVars, discoveryVars, registryVars>>

FrameDone ==
  /\ Numbering!FrameDone
  /\ UNCHANGED <<livenessVars, discoveryVars, heartbeatTimer, registryVars>>

-----------------------------------------------------------------------------
(* Discovery *)

\* Mutation: a request the transport refuses stays pending.
DiscoverWithoutUndo(node) ==
  /\ discoveryNode = NoNode
  /\ Numbering!SendOther(Priority.command)
  /\ OnSendNotification
  /\ discoveryNode' = node
  /\ discoveryTimer' = TRUE
  /\ asked' = IF Numbering!Taken THEN asked + 1 ELSE asked
  /\ UNCHANGED <<livenessVars, answered, registryVars>>

\* The node asked, the callback and the timer are set before the request is
\* sent, and taken back when the transport refuses it.
DiscoverCategories(node) ==
  /\ discoveryNode = NoNode
  /\ Numbering!SendOther(Priority.command)
  /\ OnSendNotification
  /\ \/ /\ Numbering!Taken
        /\ discoveryNode' = node
        /\ discoveryTimer' = TRUE
        /\ asked' = asked + 1
        /\ UNCHANGED answered
     \/ /\ ~Numbering!Taken
        /\ UNCHANGED discoveryVars
  /\ UNCHANGED <<livenessVars, registryVars>>

CompleteDiscovery ==
  /\ discoveryTimer' = FALSE
  /\ discoveryNode' = NoNode
  /\ answered' = answered + 1
  /\ UNCHANGED asked

\* Mutation: the discovery is given up without a word.
ForgetDiscovery ==
  /\ discoveryTimer
  /\ discoveryTimer' = FALSE
  /\ UNCHANGED <<discoveryNode, asked, answered, numberingVars, livenessVars,
                 heartbeatTimer, registryVars>>

DiscoveryTimeout ==
  /\ discoveryTimer
  /\ CompleteDiscovery
  /\ UNCHANGED <<numberingVars, livenessVars, heartbeatTimer, registryVars>>

-----------------------------------------------------------------------------
(* Receiving *)

\* What the client tells apart in a frame or a PDU: its source, and whether it
\* is a well-formed acknowledgement, a category list or anything else.
Sources == Servers \cup {Broadcast}

ReceivedMessages ==
  [source : Sources, kind : {"ack"}, command : Commands,
   expected : ExpectedNumbers \cup {-1}]
  \cup [source : Sources, kind : {"categoryList", "other"}]

\* Mutation: an acknowledgement that claims the broadcast id is believed.
HandleAnyAck(message) ==
  IF message.kind = "ack"
  THEN Numbering!HandleCommandAck(message.source, message.command, message.expected)
  ELSE UNCHANGED numberingVars

HandleCommandAckFrame(message) ==
  IF message.kind = "ack" /\ message.source # Broadcast
  THEN Numbering!HandleCommandAck(message.source, message.command, message.expected)
  ELSE UNCHANGED numberingVars

HandleCategoryListFrame(message) ==
  IF message.kind = "categoryList" /\ message.source = discoveryNode
  THEN CompleteDiscovery ELSE UNCHANGED discoveryVars

Dispatch(message) ==
  /\ IF message.source # Broadcast
     THEN MarkServerAlive(message.source) ELSE UNCHANGED livenessVars
  /\ HandleCommandAckFrame(message)
  /\ HandleCategoryListFrame(message)
  /\ UNCHANGED <<heartbeatTimer, registryVars>>

\* An attached ISO-TP transport claims the frame, and may answer with a flow
\* control frame.  When it completes a PDU, that is dispatched like a frame.
ConsumedByIsoTp ==
  /\ isoTpAttached
  /\ \/ UNCHANGED vars
     \/ \E priority \in ApplicationPriorities : ApplicationSends(priority)

ProcessReceivedMessage(message) == ConsumedByIsoTp \/ Dispatch(message)

-----------------------------------------------------------------------------
(* Timers, registration *)

CommandAckTimeout(i) ==
  /\ Numbering!HandleCommandAckTimeout(i)
  /\ UNCHANGED <<livenessVars, discoveryVars, heartbeatTimer, registryVars>>

ServerTimeout(i) ==
  /\ HandleServerTimeout(i)
  /\ UNCHANGED <<numberingVars, discoveryVars, heartbeatTimer, registryVars>>

IsRegistered(category) == \E i \in 1 .. Len(categories) : categories[i] = category

RegisterCategory(category) ==
  /\ Len(categories) < canMaxRegisteredCategories
  /\ ~IsRegistered(category)
  /\ categories' = Append(categories, category)
  /\ UNCHANGED <<numberingVars, livenessVars, discoveryVars, heartbeatTimer,
                 isoTpAttached>>

UnregisterCategory(category) ==
  /\ IsRegistered(category)
  /\ categories' = SelectSeq(categories, LAMBDA id : id # category)
  /\ UNCHANGED <<numberingVars, livenessVars, discoveryVars, heartbeatTimer,
                 isoTpAttached>>

AttachOrDetachIsoTpTransport ==
  /\ isoTpAttached' = ~isoTpAttached
  /\ UNCHANGED <<numberingVars, livenessVars, discoveryVars, heartbeatTimer,
                 categories>>

Init ==
  /\ Numbering!SequencesInit
  /\ LivenessInit
  /\ discoveryNode = NoNode
  /\ discoveryTimer = FALSE
  /\ heartbeatTimer = TRUE
  /\ categories = <<SystemCategory>>
  /\ isoTpAttached = FALSE
  /\ asked = 0
  /\ answered = 0

Next ==
  \/ \E node \in Sources, command \in Commands : SendCommand(node, command)
  \/ \E node \in Sources : SendOversizedCommand(node)
  \/ \E priority \in ApplicationPriorities : ApplicationSends(priority)
  \/ SendHeartbeat
  \/ FrameDone
  \/ \E node \in Servers : DiscoverCategories(node)
  \/ DiscoveryTimeout
  \/ \E message \in ReceivedMessages : ProcessReceivedMessage(message)
  \/ \E i \in Numbering!Slots : CommandAckTimeout(i)
  \/ \E i \in Entries : ServerTimeout(i)
  \/ \E category \in {SystemCategory} \cup ApplicationCategories :
       RegisterCategory(category) \/ UnregisterCategory(category)
  \/ AttachOrDetachIsoTpTransport

\* Armed timers expire, and the transport concludes every frame it took.  (The
\* timeout of a server that goes on sending is started anew for ever, and may
\* not expire.)
Spec ==
  /\ Init
  /\ [][Next]_vars
  /\ \A i \in Numbering!Slots : WF_vars(CommandAckTimeout(i))
  /\ WF_vars(SendHeartbeat)
  /\ WF_vars(DiscoveryTimeout)
  /\ WF_vars(FrameDone)

-----------------------------------------------------------------------------
(* Properties *)

\* Every variable has its type, those of the parts included.
TypeOK ==
  /\ Numbering!SequencesTypeOK
  /\ LivenessTypeOK
  /\ discoveryNode \in Servers \cup {NoNode}
  /\ discoveryTimer \in BOOLEAN
  /\ heartbeatTimer \in BOOLEAN
  /\ categories \in Seq({SystemCategory} \cup ApplicationCategories)
  /\ Len(categories) <= canMaxRegisteredCategories
  /\ isoTpAttached \in BOOLEAN
  /\ asked \in Nat
  /\ answered \in Nat

\* However answers, timeouts and refusals of the transport meet: every accepted
\* discovery is pending, under its timer, until its onDone runs, once, and a
\* refused one leaves nothing pending that would block the next.
DiscoveriesEndOnce ==
  /\ asked = answered + IF discoveryNode = NoNode THEN 0 ELSE 1
  /\ discoveryTimer <=> discoveryNode # NoNode

\* Whatever the client does at once in a step, its numbering and its liveness
\* see only steps of their own: what holds of the parts holds in the client.
ImplementsParts ==
  /\ Numbering!SequencesInit
  /\ [][Numbering!SequencesNext]_numberingVars
  /\ LivenessInit
  /\ [][LivenessNext]_livenessVars

\* Every discovery ends, answered or not.
DiscoveryEnds == discoveryNode # NoNode ~> discoveryNode = NoNode

\* The client never falls silent: whatever is refused, displaced or lost,
\* frames keep being offered to the transport (up to the bound).
NeverSilent == <>(Len(sent) = MaxSends)

=============================================================================
