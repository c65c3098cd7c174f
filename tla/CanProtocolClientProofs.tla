----------------------- MODULE CanProtocolClientProofs -----------------------
(***************************************************************************)
(* Proofs about CanProtocolClient: its steps are steps of its two parts,   *)
(* so what is proved of ClientSequences and of ClientLiveness holds in the *)
(* whole client; and every discovery it starts ends once.  At the end the  *)
(* numbers of its commands meet the server's check (CommandLink).          *)
(***************************************************************************)
EXTENDS CanProtocolClient, MCCommandLink, SequenceTheorems, TLAPS

OtherFrames == ApplicationPriorities \cup {Priority.command, Priority.heartbeat}

\* The proofs about ClientSequences, with the client's frames without a number.
NumberingProofs == INSTANCE ClientSequencesProofs WITH OtherPriorities <- OtherFrames

\* The client's constants are as ClientSequences assumes.
LEMMA NumberingMayBeUsed ==
  /\ SequenceModulus \in Nat \ {0}
  /\ maxServers \in Nat \ {0}
  /\ Broadcast \notin Servers
  /\ CommandPriority \in [Commands -> Nat]
  /\ ExpectedNumbers \subseteq 0 .. SequenceModulus - 1
  /\ OtherFrames \subseteq Nat
  /\ QueueDepth \in Nat
  /\ EmergencyReserve \in Nat
  /\ EmergencyReserve < QueueDepth
  /\ MaxSends \in Nat
BY NumberingAssumption, LivenessAssumption DEF OtherFrames, Priority

-----------------------------------------------------------------------------
(* What observers hear of servers, for every number of entries and servers *)

LivenessInv == LivenessTypeOK /\ ReportsMatchEntries /\ EntriesAreTimed

LEMMA EntryIndices ==
  /\ 0 \in Entries
  /\ \A i \in Entries : i \in Int /\ (i + 1) % maxServers \in Entries
BY LivenessAssumption, SMT DEF Entries

\* Initially there is no entry and no report.
LEMMA LivenessInitEstablishes == LivenessInit => LivenessInv
<1> SUFFICES ASSUME LivenessInit PROVE LivenessInv
  OBVIOUS
<1>1. LivenessTypeOK
  BY EntryIndices DEF LivenessInit, LivenessTypeOK, LivenessEntry
<1>2. \A i \in Entries : serverLiveness[i].occupied = FALSE
  BY DEF LivenessInit
<1>3. \A node \in Servers : ~IsTracked(node) /\ reported[node] = 0
  BY <1>2 DEF LivenessInit, IsTracked, TracksNode
<1>4. ReportsMatchEntries
  BY <1>2, <1>3 DEF ReportsMatchEntries
<1>5. EntriesAreTimed
  BY <1>2 DEF LivenessInit, EntriesAreTimed
<1>6. QED
  BY <1>1, <1>4, <1>5 DEF LivenessInv

\* A frame from a server that has an entry changes nothing: its timer runs.
LEMMA RestartPreserves ==
  ASSUME LivenessInv, NEW node \in Servers, RestartTimeout(node)
  PROVE  LivenessInv'
<1>1. PICK i \in Entries : /\ serverLiveness[i].occupied
                          /\ timeoutTimers' = [timeoutTimers EXCEPT ![i] = TRUE]
  BY DEF RestartTimeout, TracksNode
<1>2. timeoutTimers' = timeoutTimers
  BY <1>1 DEF LivenessInv, LivenessTypeOK, EntriesAreTimed
<1>3. UNCHANGED livenessVars
  BY <1>2 DEF RestartTimeout, livenessVars
<1>4. QED
  BY <1>3 DEF livenessVars, LivenessInv, LivenessTypeOK, ReportsMatchEntries,
              EntriesAreTimed, IsTracked, TracksNode

\* A free entry that the new server takes: no entry had it, now this one does.
LEMMA TakeFreePreserves ==
  ASSUME LivenessInv, NEW node \in Servers, TakeFreeEntry(node)
  PROVE  LivenessInv'
<1>1. PICK i \in Entries : ~serverLiveness[i].occupied /\ Occupy(i, node)
  BY DEF TakeFreeEntry
<1>2. LivenessTypeOK'
  BY <1>1 DEF TakeFreeEntry, Occupy, LivenessInv, LivenessTypeOK, LivenessEntry
<1>3. \A j \in Entries : serverLiveness'[j] =
        IF j = i THEN [occupied |-> TRUE, nodeId |-> node] ELSE serverLiveness[j]
  BY <1>1 DEF Occupy, LivenessInv, LivenessTypeOK
<1>4. \A n \in Servers : IsTracked(n)' <=> n = node \/ IsTracked(n)
  BY <1>1, <1>3 DEF IsTracked, TracksNode
<1>5. ReportsMatchEntries'
  <2>1. \A n \in Servers : reported'[n] = IF IsTracked(n)' THEN 1 ELSE 0
    BY <1>4 DEF TakeFreeEntry, LivenessInv, LivenessTypeOK, ReportsMatchEntries
  <2>2. \A j, k \in Entries :
          serverLiveness'[j].occupied /\ serverLiveness'[k].occupied
          /\ serverLiveness'[j].nodeId = serverLiveness'[k].nodeId => j = k
    BY <1>1, <1>3 DEF TakeFreeEntry, LivenessInv, ReportsMatchEntries, IsTracked, TracksNode
  <2>3. QED
    BY <2>1, <2>2 DEF ReportsMatchEntries
<1>6. EntriesAreTimed'
  BY <1>1, <1>3 DEF Occupy, LivenessInv, LivenessTypeOK, EntriesAreTimed
<1>7. QED
  BY <1>2, <1>5, <1>6 DEF LivenessInv

\* The evicted server had this entry only, so it has none now: it goes offline
\* as the new one comes online.
LEMMA EvictPreserves ==
  ASSUME LivenessInv, NEW node \in Servers, EvictEntry(node)
  PROVE  LivenessInv'
<1> DEFINE i == nextLivenessEvictIndex
           old == serverLiveness[i].nodeId
<1>1. /\ i \in Entries
      /\ serverLiveness[i].occupied
      /\ serverLiveness[i] \in LivenessEntry
      /\ Occupy(i, node)
  BY DEF EvictEntry, LivenessInv, LivenessTypeOK
<1>2. \A j \in Entries : serverLiveness'[j] =
        IF j = i THEN [occupied |-> TRUE, nodeId |-> node] ELSE serverLiveness[j]
  BY <1>1 DEF Occupy, LivenessInv, LivenessTypeOK
<1>3. ~IsTracked(node) /\ old # node
  BY <1>1 DEF EvictEntry, IsTracked, TracksNode
<1>4. old \in Servers => IsTracked(old)
  BY <1>1 DEF IsTracked, TracksNode
<1>5. \A j \in Entries : TracksNode(j, old) => j = i
  BY <1>1 DEF LivenessInv, ReportsMatchEntries, TracksNode
<1>6. \A n \in Servers : IsTracked(n)' <=> n = node \/ (n # old /\ IsTracked(n))
  BY <1>1, <1>2, <1>3, <1>5 DEF IsTracked, TracksNode
<1>7. reported' = [reported EXCEPT ![old] = @ - 1, ![node] = @ + 1]
  BY DEF EvictEntry
<1>8. LivenessTypeOK'
  <2>1. serverLiveness' \in [Entries -> LivenessEntry]
    BY <1>1 DEF Occupy, LivenessInv, LivenessTypeOK, LivenessEntry
  <2>2. timeoutTimers' \in [Entries -> BOOLEAN]
    BY <1>1 DEF Occupy, LivenessInv, LivenessTypeOK
  <2>3. nextLivenessEvictIndex' \in Entries
    BY <1>1, EntryIndices DEF EvictEntry
  <2>4. reported' \in [Servers -> Int]
    BY <1>7 DEF LivenessInv, LivenessTypeOK
  <2>5. QED
    BY <2>1, <2>2, <2>3, <2>4 DEF LivenessTypeOK
<1>9. ReportsMatchEntries'
  <2>1. \A n \in Servers : reported'[n] = IF IsTracked(n)' THEN 1 ELSE 0
    BY <1>3, <1>4, <1>6, <1>7 DEF LivenessInv, LivenessTypeOK, ReportsMatchEntries
  <2>2. \A j, k \in Entries :
          serverLiveness'[j].occupied /\ serverLiveness'[k].occupied
          /\ serverLiveness'[j].nodeId = serverLiveness'[k].nodeId => j = k
    BY <1>1, <1>2, <1>3 DEF LivenessInv, ReportsMatchEntries, IsTracked, TracksNode
  <2>3. QED
    BY <2>1, <2>2 DEF ReportsMatchEntries
<1>10. EntriesAreTimed'
  BY <1>1, <1>2 DEF Occupy, LivenessInv, LivenessTypeOK, EntriesAreTimed
<1>11. QED
  BY <1>8, <1>9, <1>10 DEF LivenessInv

\* An armed timer is that of an occupied entry, and its server's only one.
LEMMA TimeoutPreserves ==
  ASSUME LivenessInv, NEW i \in Entries, HandleServerTimeout(i)
  PROVE  LivenessInv'
<1> DEFINE node == serverLiveness[i].nodeId
<1>1. serverLiveness[i].occupied /\ TracksNode(i, node)
  BY DEF HandleServerTimeout, LivenessInv, EntriesAreTimed, LivenessTypeOK, TracksNode
<1>2. \A j \in Entries : TracksNode(j, node) => j = i
  BY <1>1 DEF LivenessInv, ReportsMatchEntries, TracksNode
<1>3. {j \in Entries : TracksNode(j, node)} = {i}
  BY <1>1, <1>2
<1>4. /\ serverLiveness' = [j \in Entries |->
            IF j \in {i} THEN [serverLiveness[j] EXCEPT !.occupied = FALSE]
            ELSE serverLiveness[j]]
      /\ reported' = [reported EXCEPT ![node] = @ - 1]
      /\ timeoutTimers' = [timeoutTimers EXCEPT ![i] = FALSE]
      /\ nextLivenessEvictIndex' = nextLivenessEvictIndex
  BY <1>3, Zenon DEF HandleServerTimeout
<1>5. \A j \in Entries : /\ serverLiveness[j] \in LivenessEntry
                         /\ serverLiveness'[j].nodeId = serverLiveness[j].nodeId
                         /\ serverLiveness'[j].occupied <=>
                              j # i /\ serverLiveness[j].occupied
  BY <1>4 DEF LivenessInv, LivenessTypeOK, LivenessEntry
<1>6. \A n \in Servers : IsTracked(n)' <=> n # node /\ IsTracked(n)
  BY <1>1, <1>2, <1>5 DEF IsTracked, TracksNode
<1>7. LivenessTypeOK'
  <2>1. serverLiveness' \in [Entries -> LivenessEntry]
    BY <1>4, <1>5 DEF LivenessInv, LivenessTypeOK, LivenessEntry
  <2>2. /\ timeoutTimers' \in [Entries -> BOOLEAN]
        /\ nextLivenessEvictIndex' \in Entries
    BY <1>4 DEF LivenessInv, LivenessTypeOK
  <2>3. reported' \in [Servers -> Int]
    <3>1. reported \in [Servers -> Int]
      BY DEF LivenessInv, LivenessTypeOK
    <3>2. reported' = [n \in Servers |-> IF n = node THEN reported[n] - 1
                                                     ELSE reported[n]]
      BY <1>4, <3>1
    <3>3. QED
      BY <3>1, <3>2
  <2>4. QED
    BY <2>1, <2>2, <2>3 DEF LivenessTypeOK
<1>8. ReportsMatchEntries'
  <2>1. \A n \in Servers : reported'[n] = IF IsTracked(n)' THEN 1 ELSE 0
    BY <1>1, <1>4, <1>6 DEF LivenessInv, LivenessTypeOK, ReportsMatchEntries, IsTracked
  <2>2. \A j, k \in Entries :
          serverLiveness'[j].occupied /\ serverLiveness'[k].occupied
          /\ serverLiveness'[j].nodeId = serverLiveness'[k].nodeId => j = k
    BY <1>5 DEF LivenessInv, ReportsMatchEntries
  <2>3. QED
    BY <2>1, <2>2 DEF ReportsMatchEntries
<1>9. EntriesAreTimed'
  <2>1. \A j \in Entries : timeoutTimers'[j] = IF j = i THEN FALSE
                                                        ELSE timeoutTimers[j]
    BY <1>4 DEF LivenessInv, LivenessTypeOK
  <2>2. \A j \in Entries : /\ serverLiveness'[j].occupied \in BOOLEAN
                            /\ serverLiveness[j].occupied \in BOOLEAN
    BY <1>5, <1>7 DEF LivenessTypeOK, LivenessEntry
  <2>3. QED
    BY <1>5, <2>1, <2>2 DEF LivenessInv, EntriesAreTimed
<1>10. QED
  BY <1>7, <1>8, <1>9 DEF LivenessInv

LEMMA LivenessStep == LivenessInv /\ [LivenessNext]_livenessVars => LivenessInv'
<1> SUFFICES ASSUME LivenessInv, [LivenessNext]_livenessVars PROVE LivenessInv'
  OBVIOUS
<1>1. CASE UNCHANGED livenessVars
  BY <1>1 DEF livenessVars, LivenessInv, LivenessTypeOK, ReportsMatchEntries,
              EntriesAreTimed, IsTracked, TracksNode
<1>2. ASSUME NEW node \in Servers, MarkServerAlive(node) PROVE LivenessInv'
  BY <1>2, RestartPreserves, TakeFreePreserves, EvictPreserves DEF MarkServerAlive
<1>3. ASSUME NEW i \in Entries, HandleServerTimeout(i) PROVE LivenessInv'
  BY <1>3, TimeoutPreserves
<1>4. QED
  BY <1>1, <1>2, <1>3 DEF LivenessNext

THEOREM LivenessInvariant == LivenessSpec => []LivenessInv
BY LivenessInitEstablishes, LivenessStep, PTL DEF LivenessSpec

\* Observers hear of every server in turn that it is online and offline,
\* through evictions and timeouts, and of one that has an entry that it is
\* online: MarkServerAlive and HandleServerTimeout.
THEOREM ReportsAreInTurn == LivenessSpec => []ReportsMatchEntries
<1>1. LivenessInv => ReportsMatchEntries
  BY DEF LivenessInv
<1>2. QED
  BY <1>1, LivenessInvariant, PTL

\* The timer of an entry runs just while the entry is occupied.
THEOREM OccupiedEntriesAreTimed == LivenessSpec => []EntriesAreTimed
<1>1. LivenessInv => EntriesAreTimed
  BY DEF LivenessInv
<1>2. QED
  BY <1>1, LivenessInvariant, PTL

-----------------------------------------------------------------------------
(* The steps of the parts *)

LEMMA NumberingSteps ==
  ASSUME [Next]_vars
  PROVE  [Numbering!SequencesNext]_numberingVars
<1>1. Sources = Numbering!Targets
  BY DEF Sources, Numbering!Targets
<1>2. /\ Priority.command \in OtherFrames
      /\ Priority.heartbeat \in OtherFrames
      /\ \A priority \in ApplicationPriorities : priority \in OtherFrames
  BY DEF OtherFrames
<1>3. \A priority \in OtherFrames :
        Numbering!SendOther(priority) => Numbering!SequencesNext
  BY DEF Numbering!SequencesNext, OtherFrames
<1>4. CASE UNCHANGED vars
  BY <1>4 DEF vars
<1>5. ASSUME NEW node \in Sources, NEW command \in Commands, SendCommand(node, command)
      PROVE  Numbering!SequencesNext
  BY <1>1, <1>5 DEF SendCommand, Numbering!SequencesNext
<1>6. ASSUME NEW node \in Sources, SendOversizedCommand(node)
      PROVE  Numbering!SequencesNext
  BY <1>1, <1>6 DEF SendOversizedCommand, Numbering!SequencesNext
<1>7. ASSUME NEW priority \in ApplicationPriorities, ApplicationSends(priority)
      PROVE  Numbering!SequencesNext
  BY <1>2, <1>3, <1>7 DEF ApplicationSends
<1>8. CASE SendHeartbeat
  BY <1>2, <1>3, <1>8 DEF SendHeartbeat
<1>9. CASE FrameDone
  BY <1>9 DEF FrameDone, Numbering!SequencesNext
<1>10. ASSUME NEW node \in Servers, DiscoverCategories(node)
       PROVE  Numbering!SequencesNext
  BY <1>2, <1>3, <1>10 DEF DiscoverCategories
<1>11. CASE DiscoveryTimeout
  BY <1>11 DEF DiscoveryTimeout
<1>12. ASSUME NEW message \in ReceivedMessages, ProcessReceivedMessage(message)
       PROVE  [Numbering!SequencesNext]_numberingVars
  <2>1. CASE ConsumedByIsoTp
    BY <1>7, <2>1 DEF ConsumedByIsoTp, vars
  <2>2. CASE Dispatch(message)
    <3>1. CASE message.kind = "ack" /\ message.source # Broadcast
      <4>1. /\ message.source \in Servers
            /\ message.command \in Commands
            /\ message.expected \in ExpectedNumbers \cup {-1}
        BY <3>1 DEF ReceivedMessages, Sources
      <4>2. Numbering!HandleCommandAck(message.source, message.command, message.expected)
        BY <2>2, <3>1 DEF Dispatch, HandleCommandAckFrame
      <4>3. QED
        BY <4>1, <4>2 DEF Numbering!SequencesNext
    <3>2. CASE ~(message.kind = "ack" /\ message.source # Broadcast)
      BY <2>2, <3>2 DEF Dispatch, HandleCommandAckFrame
    <3>3. QED
      BY <3>1, <3>2
  <2>3. QED
    BY <1>12, <2>1, <2>2 DEF ProcessReceivedMessage
<1>13. ASSUME NEW i \in Numbering!Slots, CommandAckTimeout(i)
       PROVE  Numbering!SequencesNext
  BY <1>13 DEF CommandAckTimeout, Numbering!SequencesNext
<1>14. ASSUME NEW i \in Entries, ServerTimeout(i) PROVE UNCHANGED numberingVars
  BY <1>14 DEF ServerTimeout
<1>15. ASSUME NEW category, RegisterCategory(category) \/ UnregisterCategory(category)
       PROVE  UNCHANGED numberingVars
  BY <1>15 DEF RegisterCategory, UnregisterCategory
<1>16. CASE AttachOrDetachIsoTpTransport
  BY <1>16 DEF AttachOrDetachIsoTpTransport
<1>17. QED
  BY <1>4, <1>5, <1>6, <1>7, <1>8, <1>9, <1>10, <1>11, <1>12, <1>13, <1>14, <1>15,
     <1>16 DEF Next

LEMMA LivenessSteps ==
  ASSUME [Next]_vars
  PROVE  [LivenessNext]_livenessVars
<1>1. CASE UNCHANGED vars
  BY <1>1 DEF vars
<1>2. ASSUME NEW message \in ReceivedMessages, ProcessReceivedMessage(message)
      PROVE  [LivenessNext]_livenessVars
  <2>1. CASE ConsumedByIsoTp
    BY <2>1 DEF ConsumedByIsoTp, ApplicationSends, vars
  <2>2. CASE Dispatch(message)
    <3>1. message.source \in Servers \cup {Broadcast}
      BY DEF ReceivedMessages, Sources
    <3>2. CASE message.source # Broadcast
      BY <2>2, <3>1, <3>2 DEF Dispatch, LivenessNext
    <3>3. CASE message.source = Broadcast
      BY <2>2, <3>3 DEF Dispatch
    <3>4. QED
      BY <3>2, <3>3
  <2>3. QED
    BY <1>2, <2>1, <2>2 DEF ProcessReceivedMessage
<1>3. ASSUME NEW i \in Entries, ServerTimeout(i) PROVE LivenessNext
  BY <1>3 DEF ServerTimeout, LivenessNext
<1>4. ASSUME Next,
             \A message \in ReceivedMessages : ~ProcessReceivedMessage(message),
             \A i \in Entries : ~ServerTimeout(i)
      PROVE  UNCHANGED livenessVars
  BY <1>4 DEF Next, SendCommand, SendOversizedCommand, ApplicationSends, SendHeartbeat,
              FrameDone, DiscoverCategories, DiscoveryTimeout, CommandAckTimeout,
              RegisterCategory, UnregisterCategory, AttachOrDetachIsoTpTransport
<1>5. QED
  BY <1>1, <1>2, <1>3, <1>4

\* Whatever the client does at once in a step - a frame marks its sender alive,
\* ends a wait and completes a discovery - its numbering and its liveness see
\* only steps of their own (CanProtocolClient::ProcessReceivedMessage).
THEOREM PartsAreImplemented == Spec => ImplementsParts
<1>1. Init => Numbering!SequencesInit /\ LivenessInit
  BY DEF Init
<1>2. [Next]_vars => [Numbering!SequencesNext]_numberingVars
  BY NumberingSteps
<1>3. [Next]_vars => [LivenessNext]_livenessVars
  BY LivenessSteps
<1>4. QED
  BY <1>1, <1>2, <1>3, PTL DEF Spec, ImplementsParts

-----------------------------------------------------------------------------
(* Discoveries *)

DiscoveryTypes ==
  /\ discoveryNode \in Servers \cup {NoNode}
  /\ discoveryTimer \in BOOLEAN
  /\ asked \in Nat
  /\ answered \in Nat

DInv == DiscoveryTypes /\ DiscoveriesEndOnce

LEMMA CompletingADiscovery ==
  ASSUME DInv, discoveryNode # NoNode, CompleteDiscovery
  PROVE  DInv'
<1>1. /\ answered' = answered + 1 /\ asked' = asked
      /\ discoveryNode' = NoNode /\ discoveryTimer' = FALSE
  BY DEF CompleteDiscovery
<1>2. asked \in Nat /\ answered \in Nat /\ asked = answered + 1
  BY DEF DInv, DiscoveryTypes, DiscoveriesEndOnce
<1>3. DiscoveryTypes'
  BY <1>1, <1>2 DEF DiscoveryTypes
<1>4. DiscoveriesEndOnce'
  BY <1>1, <1>2 DEF DiscoveriesEndOnce
<1>5. QED
  BY <1>3, <1>4 DEF DInv

LEMMA StartingADiscovery ==
  ASSUME DInv, NEW node \in Servers, DiscoverCategories(node)
  PROVE  DInv'
<1>1. CASE UNCHANGED discoveryVars
  BY <1>1 DEF discoveryVars, DInv, DiscoveryTypes, DiscoveriesEndOnce
<1>2. CASE /\ discoveryNode' = node
           /\ discoveryTimer' = TRUE
           /\ asked' = asked + 1
           /\ UNCHANGED answered
  <2>1. asked \in Nat /\ answered \in Nat /\ asked = answered
    BY DEF DInv, DiscoveryTypes, DiscoveriesEndOnce, DiscoverCategories
  <2>2. node # NoNode
    BY ClientAssumption
  <2>3. DiscoveryTypes'
    BY <1>2, <2>1 DEF DiscoveryTypes
  <2>4. DiscoveriesEndOnce'
    BY <1>2, <2>1, <2>2 DEF DiscoveriesEndOnce
  <2>5. QED
    BY <2>3, <2>4 DEF DInv
<1>3. QED
  BY <1>1, <1>2 DEF DiscoverCategories

LEMMA DiscoveryStep == DInv /\ [Next]_vars => DInv'
<1> SUFFICES ASSUME DInv, [Next]_vars PROVE DInv'
  OBVIOUS
<1>1. ASSUME UNCHANGED discoveryVars PROVE DInv'
  BY <1>1 DEF discoveryVars, DInv, DiscoveryTypes, DiscoveriesEndOnce
<1>2. ASSUME NEW node \in Servers, DiscoverCategories(node) PROVE DInv'
  BY <1>2, StartingADiscovery
<1>3. CASE DiscoveryTimeout
  BY <1>3, CompletingADiscovery DEF DiscoveryTimeout, DInv, DiscoveriesEndOnce
<1>4. ASSUME NEW message \in ReceivedMessages, ProcessReceivedMessage(message)
      PROVE  DInv'
  <2>1. CASE ConsumedByIsoTp
    BY <1>1, <2>1 DEF ConsumedByIsoTp, ApplicationSends, vars
  <2>2. CASE Dispatch(message)
    <3>1. CASE message.source = discoveryNode /\ message.kind = "categoryList"
      <4>1. message.source # NoNode
        BY ClientAssumption DEF ReceivedMessages, Sources
      <4>2. QED
        BY <2>2, <3>1, <4>1, CompletingADiscovery DEF Dispatch, HandleCategoryListFrame
    <3>2. CASE ~(message.source = discoveryNode /\ message.kind = "categoryList")
      BY <1>1, <2>2, <3>2 DEF Dispatch, HandleCategoryListFrame
    <3>3. QED
      BY <3>1, <3>2
  <2>3. QED
    BY <1>4, <2>1, <2>2 DEF ProcessReceivedMessage
<1>5. ASSUME Next, ~DiscoveryTimeout,
             \A node \in Servers : ~DiscoverCategories(node),
             \A message \in ReceivedMessages : ~ProcessReceivedMessage(message)
      PROVE  UNCHANGED discoveryVars
  BY <1>5 DEF Next, SendCommand, SendOversizedCommand, ApplicationSends, SendHeartbeat,
              FrameDone, CommandAckTimeout, ServerTimeout,
              RegisterCategory, UnregisterCategory, AttachOrDetachIsoTpTransport
<1>6. CASE UNCHANGED vars
  BY <1>1, <1>6 DEF vars
<1>7. QED
  BY <1>1, <1>2, <1>3, <1>4, <1>5, <1>6

\* However answers, timeouts and refusals meet, an accepted discovery is pending
\* under its timer until its onDone runs, once (DiscoverCategories,
\* HandleCategoryListFrame and the discovery timeout).
THEOREM DiscoveriesAreEndedOnce == Spec => []DiscoveriesEndOnce
<1>1. Init => DInv
  <2> SUFFICES ASSUME Init PROVE DInv
    OBVIOUS
  <2>1. /\ discoveryNode = NoNode /\ discoveryTimer = FALSE
        /\ asked = 0 /\ answered = 0
    BY DEF Init
  <2>2. DiscoveryTypes
    BY <2>1 DEF DiscoveryTypes
  <2>3. DiscoveriesEndOnce
    BY <2>1 DEF DiscoveriesEndOnce
  <2>4. QED
    BY <2>2, <2>3 DEF DInv
<1>2. DInv => DiscoveriesEndOnce
  BY DEF DInv
<1>3. QED
  BY <1>1, <1>2, DiscoveryStep, PTL DEF Spec

-----------------------------------------------------------------------------
(* What holds of the parts holds in the client *)

\* Observers of the client hear of every server in turn that it is online and
\* offline, and the timer of an entry runs just while it is occupied, whatever
\* else the client does.
THEOREM ServersAreWatched == Spec => [](ReportsMatchEntries /\ EntriesAreTimed)
<1>1. Spec => LivenessSpec
  BY PartsAreImplemented, PTL DEF ImplementsParts, LivenessSpec
<1>2. QED
  BY <1>1, ReportsAreInTurn, OccupiedEntriesAreTimed, PTL

\* The numbering of the client and that of the proofs are one.
LEMMA SameSteps ==
  /\ Numbering!SequencesInit <=> NumberingProofs!SequencesInit
  /\ Numbering!SequencesNext <=> NumberingProofs!SequencesNext
BY Zenon
   DEF OtherFrames,
       Numbering!sendVars, Numbering!sequenceHistory, Numbering!Slots,
       Numbering!Targets, Numbering!Calls, Numbering!NextCall,
       Numbering!Successor, Numbering!FreeSlot, Numbering!Command,
       Numbering!Other, Numbering!IsCommandTo, Numbering!SendFrame,
       Numbering!Taken, Numbering!Failed, Numbering!Serves,
       Numbering!Claims, Numbering!Evicts, Numbering!ReserveSequence,
       Numbering!CancelReservation, Numbering!ReturnSequences,
       Numbering!HeldCommandsTo, Numbering!StartCounting,
       Numbering!AwaitInstead, Numbering!SendReserved,
       Numbering!SendRefused, Numbering!SendCommand,
       Numbering!SendOversizedCommand, Numbering!SendOther,
       Numbering!FrameDone, Numbering!ClearAwaitingAck,
       Numbering!ResyncSequence, Numbering!HandleCommandAck,
       Numbering!HandleCommandAckTimeout, Numbering!SequencesInit,
       Numbering!SequencesNext, Numbering!Transport!Calls,
       Numbering!Transport!Before, Numbering!Transport!Ordinary,
       Numbering!Transport!Admits, Numbering!Transport!Init,
       Numbering!Transport!Start, Numbering!Transport!Wait,
       Numbering!Transport!TakePlace, Numbering!Transport!Refuse,
       Numbering!Transport!Offer, Numbering!Transport!Advance,
       Numbering!Transport!Finish, Numbering!Transport!Cardinality,
       NumberingProofs!sendVars, NumberingProofs!sequenceHistory,
       NumberingProofs!Slots, NumberingProofs!Targets,
       NumberingProofs!Calls, NumberingProofs!NextCall,
       NumberingProofs!Successor, NumberingProofs!FreeSlot,
       NumberingProofs!Command, NumberingProofs!Other,
       NumberingProofs!IsCommandTo, NumberingProofs!SendFrame,
       NumberingProofs!Taken, NumberingProofs!Failed,
       NumberingProofs!Serves, NumberingProofs!Claims,
       NumberingProofs!Evicts, NumberingProofs!ReserveSequence,
       NumberingProofs!CancelReservation,
       NumberingProofs!ReturnSequences, NumberingProofs!HeldCommandsTo,
       NumberingProofs!StartCounting, NumberingProofs!AwaitInstead,
       NumberingProofs!SendReserved, NumberingProofs!SendRefused,
       NumberingProofs!SendCommand,
       NumberingProofs!SendOversizedCommand, NumberingProofs!SendOther,
       NumberingProofs!FrameDone, NumberingProofs!ClearAwaitingAck,
       NumberingProofs!ResyncSequence, NumberingProofs!HandleCommandAck,
       NumberingProofs!HandleCommandAckTimeout,
       NumberingProofs!SequencesInit, NumberingProofs!SequencesNext,
       NumberingProofs!Transport!Calls,
       NumberingProofs!Transport!Before,
       NumberingProofs!Transport!Ordinary,
       NumberingProofs!Transport!Admits, NumberingProofs!Transport!Init,
       NumberingProofs!Transport!Start, NumberingProofs!Transport!Wait,
       NumberingProofs!Transport!TakePlace,
       NumberingProofs!Transport!Refuse,
       NumberingProofs!Transport!Offer,
       NumberingProofs!Transport!Advance,
       NumberingProofs!Transport!Finish,
       NumberingProofs!Transport!Cardinality

LEMMA SameProperties ==
  /\ Numbering!OneSlotPerServer <=> NumberingProofs!OneSlotPerServer
  /\ Numbering!OpenCommandsAreTimed <=> NumberingProofs!OpenCommandsAreTimed
  /\ Numbering!NumbersAreNotReused <=> NumberingProofs!NumbersAreNotReused
BY Zenon
   DEF Numbering!Calls, Numbering!Slots, Numbering!IsCommandTo,
       Numbering!OneSlotPerServer, Numbering!OpenCommandsAreTimed, Numbering!Awaited,
       Numbering!NumbersAreNotReused, Numbering!InUse,
       NumberingProofs!Calls, NumberingProofs!Slots, NumberingProofs!IsCommandTo,
       NumberingProofs!OneSlotPerServer, NumberingProofs!OpenCommandsAreTimed,
       NumberingProofs!Awaited, NumberingProofs!NumbersAreNotReused,
       NumberingProofs!InUse

\* The invariant of the numbering, in the client.
LEMMA NumberingInvariant == Spec => [](NumberingProofs!IInv /\ NumberingProofs!NInv)
<1> DEFINE I == NumberingProofs!IInv /\ NumberingProofs!NInv
<1>1. Init => I
  BY NumberingMayBeUsed, SameSteps, NumberingProofs!InitEstablishes, NumberingProofs!NumbersInit DEF Init
<1>2. I /\ [Next]_vars => I'
  <2> SUFFICES ASSUME I, [Next]_vars PROVE I'
    OBVIOUS
  <2>1. [Numbering!SequencesNext]_numberingVars
    BY NumberingSteps
  <2>2. [NumberingProofs!SequencesNext]_NumberingProofs!sequencesVars
    BY <2>1, SameSteps
       DEF numberingVars, NumberingProofs!sequencesVars, NumberingProofs!slotVars,
           NumberingProofs!sendVars, NumberingProofs!sequenceHistory
  <2>3. QED
    BY <2>2, NumberingMayBeUsed, NumberingProofs!SequencesStep, NumberingProofs!NumbersStep
<1>3. QED
  BY <1>1, <1>2, PTL DEF Spec

\* Of the whole client too: a server has one slot, and the timers run for
\* exactly the commands whose wait has not ended, whatever is sent, received,
\* discovered or unregistered in between.
THEOREM CommandsAreAwaited ==
  Spec => [](Numbering!OneSlotPerServer /\ Numbering!OpenCommandsAreTimed)
<1>1. NumberingProofs!IInv
        => Numbering!OneSlotPerServer /\ Numbering!OpenCommandsAreTimed
  BY SameProperties DEF NumberingProofs!IInv
<1>2. QED
  BY <1>1, NumberingInvariant, PTL

\* And no number of a command in use is given to another command of the client.
THEOREM ClientNumbersAreDistinct ==
  ASSUME MaxSends < SequenceModulus
  PROVE  Spec => []Numbering!NumbersAreNotReused
<1>1. NumberingProofs!IInv /\ NumberingProofs!NInv => Numbering!NumbersAreNotReused
  BY NumberingMayBeUsed, SameProperties, NumberingProofs!InTurnMeansDistinct
     DEF NumberingProofs!NInv
<1>2. QED
  BY <1>1, NumberingInvariant, PTL

-----------------------------------------------------------------------------
(* The numbers of commands, end to end: the client's counter and the server's check *)

\* Applications that have at most two commands under way, or one where the server's
\* handlers may reject a payload.
CarefulUses ==
  /\ Link!LinkAssumption
  /\ \A u \in Uses :
       /\ ~u.lossy => u.window <= 2
       /\ u.rejects => u.window = 1 /\ ~u.lossy

\* A command in the queue is not overtaken by so many emergencies that the numbers
\* come round.
FewEmergencies == MaxEmergencies + 1 < LinkModulus

\* The number the client takes, and the server expects, after another.
After(number) == Link!Successor(number)

CommandRecord == [number : Link!Numbers, emergency : BOOLEAN, overtaken : BOOLEAN]

\* How many numbers an overtaken command is behind the last accepted.
Behind(number) ==
  IF number <= last THEN last - number ELSE last - number + LinkModulus

\* A command that has not been overtaken carries the last accepted number, if the
\* client was set back to it, or the next.
IsFresh(x) == ~x.overtaken /\ x.number \in {last, After(last)}

\* An emergency still in the queue has not yet taken the command further behind.
IsOvertaken(x, ahead) ==
  x.overtaken /\ ~x.emergency /\ Behind(x.number) + ahead <= emergencies

\* The number after x's, unless an acknowledgement has set the counter back to it.
Follows(number, x) ==
  number = After(x.number) \/ (number = x.number /\ number = After(last))

\* By what the queue holds.
NoQueue ==
  \/ acks = <<>> /\ counter \in {last, After(last)}
  \/ acks = <<Link!Fine>> /\ counter \in {last, After(last)}
  \/ acks = <<After(last)>> /\ counter = After(last)
  \/ acks = <<Link!Fine, Link!Fine>> /\ counter = After(last)
  \/ acks = <<Link!Fine, After(last)>> /\ counter = After(last)
  \/ acks = <<last, Link!Fine>> /\ counter = After(last)

OneInQueue(x) ==
  \/ IsFresh(x) /\ acks = <<>> /\ Follows(counter, x)
  \/ IsFresh(x) /\ acks = <<Link!Fine>> /\ counter = After(x.number)
  \/ IsFresh(x) /\ acks = <<After(last)>> /\ x.number = After(last) /\ counter = After(x.number)
  \/ IsOvertaken(x, 0) /\ acks \in {<<>>, <<Link!Fine>>} /\ counter = After(last)

TwoInQueue(x, y) ==
  /\ acks = <<>> /\ ~y.overtaken /\ counter = After(y.number)
  /\ y.emergency => emergencies > 0
  /\ \/ IsFresh(x) /\ Follows(y.number, x)
     \/ IsOvertaken(x, IF y.emergency THEN 1 ELSE 0) /\ y.number = After(last)

\* Before the server has accepted a command.
OneUnheard(x) == ~x.overtaken /\ counter = After(x.number)

TwoUnheard(x, y) ==
  /\ ~x.overtaken /\ ~y.overtaken
  /\ y.number = After(x.number) /\ counter = After(y.number)
  /\ y.emergency => emergencies > 0

LinkTypes ==
  /\ counter \in Link!Numbers
  /\ last \in Link!Numbers \cup {Link!Uninitialized}
  /\ emergencies \in 0 .. MaxEmergencies
  /\ last = Link!Uninitialized => acks = <<>>

\* What holds while nothing is lost and nothing is rejected for its content.
OrderInv ==
  /\ LinkTypes
  /\ \/ queue = <<>> /\ (last = Link!Uninitialized \/ NoQueue)
     \/ \E x \in CommandRecord : queue = <<x>> /\
          IF last = Link!Uninitialized THEN OneUnheard(x) ELSE OneInQueue(x)
     \/ \E x, y \in CommandRecord : queue = <<x, y>> /\
          IF last = Link!Uninitialized THEN TwoUnheard(x, y) ELSE TwoInQueue(x, y)

\* A client that awaits each answer carries on with the number it was told.
AwaitingInv ==
  /\ counter \in Link!Numbers
  /\ last \in Link!Numbers \cup {Link!Uninitialized}
  /\ queue = <<>> \/ (acks = <<>> /\ \E x \in CommandRecord : queue = <<x>> /\ ~x.overtaken)
  /\ acks = <<>> \/ (\E a \in Link!Numbers \cup {Link!Fine} : acks = <<a>>)
  /\ verdict = "sequenceError" =>
       /\ last \in Link!Numbers
       /\ \/ queue = <<>> /\ acks = <<After(last)>>
          \/ queue = <<>> /\ acks = <<>> /\ counter = After(last)
          \/ \E x \in CommandRecord : queue = <<x>> /\ x.number = After(last)

LinkInv ==
  /\ use \in Uses
  /\ ~use.lossy /\ ~use.rejects => OrderInv
  /\ use.rejects => AwaitingInv

LEMMA LinkNumbers ==
  ASSUME CarefulUses, NEW n \in Link!Numbers
  PROVE  /\ After(n) \in Link!Numbers /\ After(n) # n
         /\ After(n) = IF n = LinkModulus - 1 THEN 0 ELSE n + 1
         /\ LinkModulus \in Nat /\ LinkModulus > 1 /\ Link!Numbers = 0 .. LinkModulus - 1
         /\ Link!Fine = LinkModulus /\ Link!Uninitialized = LinkModulus
<1>1. /\ LinkModulus \in Nat /\ LinkModulus > 1 /\ Link!Numbers = 0 .. LinkModulus - 1
      /\ Link!Fine = LinkModulus /\ Link!Uninitialized = LinkModulus
  BY DEF CarefulUses, Link!LinkAssumption, Link!Numbers, Link!Fine, Link!Uninitialized
<1>2. After(n) = IF n = LinkModulus - 1 THEN 0 ELSE n + 1
  <2>1. After(n) = (n + 1) % LinkModulus
    BY DEF After, Link!Successor
  <2>2. QED
    BY <1>1, <2>1
<1>3. After(n) \in Link!Numbers /\ After(n) # n
  BY <1>1, <1>2
<1>4. QED
  BY <1>1, <1>2, <1>3

\* An overtaken command is not the one the server expects, as long as it is behind
\* by less than a round; and the next emergency takes it one further behind.
LEMMA BehindFacts ==
  ASSUME CarefulUses, FewEmergencies, last \in Link!Numbers, emergencies \in 0 .. MaxEmergencies,
         MaxEmergencies \in Nat, NEW n \in Link!Numbers
  PROVE  /\ Behind(n) <= emergencies => n # After(last)
         /\ Behind(n) + 1 <= emergencies /\ last' = After(last) => Behind(n)' <= emergencies
         /\ last' = n => Behind(n)' = 0
         /\ last' = After(n) => Behind(n)' = 1
         /\ Behind(n) \in Nat
<1>1. /\ After(n) = (IF n = LinkModulus - 1 THEN 0 ELSE n + 1)
      /\ After(last) = (IF last = LinkModulus - 1 THEN 0 ELSE last + 1)
      /\ LinkModulus \in Nat /\ LinkModulus > 1 /\ Link!Numbers = 0 .. LinkModulus - 1
  BY LinkNumbers
<1>2. /\ n \in 0 .. LinkModulus - 1 /\ last \in 0 .. LinkModulus - 1
      /\ MaxEmergencies + 1 < LinkModulus
  BY <1>1 DEF FewEmergencies
<1>3. Behind(n) <= emergencies => n # After(last)
  BY <1>1, <1>2 DEF Behind
<1>4. Behind(n) + 1 <= emergencies /\ last' = After(last) => Behind(n)' <= emergencies
  BY <1>1, <1>2 DEF Behind
<1>5. (last' = n => Behind(n)' = 0) /\ (last' = After(n) => Behind(n)' = 1) /\ Behind(n) \in Nat
  BY <1>1, <1>2 DEF Behind
<1>6. QED
  BY <1>3, <1>4, <1>5

LEMMA PartsOfTwo ==
  ASSUME NEW a, NEW b
  PROVE  /\ SubSeq(<<a, b>>, 1, 0) \o SubSeq(<<a, b>>, 2, 2) = <<b>>
         /\ SubSeq(<<a, b>>, 1, 1) \o SubSeq(<<a, b>>, 3, 2) = <<a>>
         /\ Len(<<a, b>>) = 2
<1> DEFINE s == <<a, b>>
<1>1. s \in Seq({a, b}) /\ Len(s) = 2 /\ s[1] = a /\ s[2] = b
  OBVIOUS
<1> HIDE DEF s
<1>2. SubSeq(s, 1, 0) = <<>> /\ SubSeq(s, 3, 2) = <<>>
  BY <1>1
<1>3. SubSeq(s, 1, 1) \in Seq({a, b}) /\ Len(SubSeq(s, 1, 1)) = 1 /\ SubSeq(s, 1, 1)[1] = a
  BY <1>1
<1>4. SubSeq(s, 2, 2) \in Seq({a, b}) /\ Len(SubSeq(s, 2, 2)) = 1 /\ SubSeq(s, 2, 2)[1] = b
  BY <1>1
<1>5. SubSeq(s, 1, 1) = <<a>> /\ SubSeq(s, 2, 2) = <<b>>
  <2>1. /\ <<a>> \in Seq({a, b}) /\ Len(<<a>>) = 1 /\ <<a>>[1] = a
        /\ <<b>> \in Seq({a, b}) /\ Len(<<b>>) = 1 /\ <<b>>[1] = b
    OBVIOUS
  <2>2. \A i \in 1 .. 1 : i = 1
    OBVIOUS
  <2>3. SubSeq(s, 1, 1) = <<a>>
    BY <1>3, <2>1, <2>2, SeqEqual, Zenon
  <2>4. SubSeq(s, 2, 2) = <<b>>
    BY <1>4, <2>1, <2>2, SeqEqual, Zenon
  <2>5. QED
    BY <2>3, <2>4
<1>6. <<>> \o <<b>> = <<b>> /\ <<a>> \o <<>> = <<a>>
  BY <1>3, <1>4, <1>5, ConcatEmptySeq, Zenon
<1>7. QED
  BY <1>1, <1>2, <1>5, <1>6, Zenon DEF s

\* Which command of at most two is sent first, and what it leaves.
LEMMA OneIsSent ==
  ASSUME NEW x \in CommandRecord, queue = <<x>>, NEW taken \in BOOLEAN
  PROVE  Link!NextUp = 1 /\ queue[Link!NextUp] = x /\ Link!Remaining(taken) = <<>>
<1>1. DOMAIN queue = {1} /\ queue[1] = x /\ Len(queue) = 1
  OBVIOUS
<1>2. Link!NextUp = 1
  <2>1. CASE x.emergency
    <3> DEFINE first(i) == queue[i].emergency /\ \A j \in 1 .. i - 1 : ~queue[j].emergency
    <3>1. first(1)
      BY <1>1, <2>1
    <3>2. (CHOOSE i \in DOMAIN queue : first(i)) \in DOMAIN queue
      BY <1>1, <3>1
    <3> HIDE DEF first
    <3>3. \E i \in DOMAIN queue : queue[i].emergency
      BY <1>1, <2>1
    <3>4. QED
      BY <1>1, <3>2, <3>3 DEF Link!NextUp, first
  <2>2. CASE ~x.emergency
    BY <1>1, <2>2 DEF Link!NextUp
  <2>3. QED
    BY <2>1, <2>2
<1>3. Link!Remaining(taken) = <<>>
  <2> DEFINE marked == [i \in DOMAIN queue |->
                          [queue[i] EXCEPT !.overtaken = @ \/ (taken /\ i < Link!NextUp)]]
             m == marked[1]
  <2>1. Link!Remaining(taken) = SubSeq(marked, 1, 0) \o SubSeq(marked, 2, Len(marked))
    BY <1>2 DEF Link!Remaining, Link!RemoveAt
  <2>2. marked = <<m>>
    BY <1>1
  <2> HIDE DEF marked, m
  <2>3. SubSeq(<<m>>, 1, 0) = <<>> /\ SubSeq(<<m>>, 2, 1) = <<>> /\ Len(<<m>>) = 1
    OBVIOUS
  <2>4. QED
    BY <2>1, <2>2, <2>3
<1>4. QED
  BY <1>1, <1>2, <1>3

LEMMA OneOfTwoIsSent ==
  ASSUME NEW x \in CommandRecord, NEW y \in CommandRecord, queue = <<x, y>>, NEW taken \in BOOLEAN
  PROVE  \/ /\ x.emergency \/ ~y.emergency
            /\ Link!NextUp = 1 /\ queue[Link!NextUp] = x /\ Link!Remaining(taken) = <<y>>
         \/ /\ ~x.emergency /\ y.emergency
            /\ Link!NextUp = 2 /\ queue[Link!NextUp] = y
            /\ Link!Remaining(taken) = <<[x EXCEPT !.overtaken = @ \/ taken]>>
<1>1. DOMAIN queue = {1, 2} /\ queue[1] = x /\ queue[2] = y /\ Len(queue) = 2
  OBVIOUS
<1>2. Link!NextUp = IF ~x.emergency /\ y.emergency THEN 2 ELSE 1
  <2> DEFINE first(i) == queue[i].emergency /\ \A j \in 1 .. i - 1 : ~queue[j].emergency
  <2>1. CASE ~x.emergency /\ ~y.emergency
    BY <1>1, <2>1 DEF Link!NextUp
  <2>2. CASE x.emergency
    <3>1. first(1) /\ ~first(2)
      BY <1>1, <2>2
    <3>2. \E i \in DOMAIN queue : queue[i].emergency
      BY <1>1, <2>2
    <3> HIDE DEF first
    <3>3. (CHOOSE i \in DOMAIN queue : first(i)) = 1
      BY <1>1, <3>1
    <3>4. QED
      BY <2>2, <3>2, <3>3 DEF Link!NextUp, first
  <2>3. CASE ~x.emergency /\ y.emergency
    <3>1. first(2) /\ ~first(1)
      BY <1>1, <2>3
    <3>2. \E i \in DOMAIN queue : queue[i].emergency
      BY <1>1, <2>3
    <3> HIDE DEF first
    <3>3. (CHOOSE i \in DOMAIN queue : first(i)) = 2
      BY <1>1, <3>1
    <3>4. QED
      BY <2>3, <3>2, <3>3 DEF Link!NextUp, first
  <2>4. QED
    BY <2>1, <2>2, <2>3
<1> DEFINE marked == [i \in DOMAIN queue |->
                        [queue[i] EXCEPT !.overtaken = @ \/ (taken /\ i < Link!NextUp)]]
           mx == marked[1]
           my == marked[2]
<1>3. marked = <<mx, my>>
  BY <1>1
<1>4. Link!Remaining(taken) =
        SubSeq(marked, 1, Link!NextUp - 1) \o SubSeq(marked, Link!NextUp + 1, Len(marked))
  BY DEF Link!Remaining, Link!RemoveAt
<1>5. CASE x.emergency \/ ~y.emergency
  <2>1. Link!NextUp = 1
    BY <1>2, <1>5
  <2>2. my = y
    <3>1. my = [y EXCEPT !.overtaken = y.overtaken \/ (taken /\ 2 < 1)]
      BY <1>1, <2>1
    <3>2. (y.overtaken \/ (taken /\ 2 < 1)) = y.overtaken
      BY DEF CommandRecord
    <3>3. QED
      BY <3>1, <3>2 DEF CommandRecord
  <2> HIDE DEF marked, mx, my
  <2>4. Link!Remaining(taken) = <<y>>
    BY <1>3, <1>4, <2>1, <2>2, PartsOfTwo
  <2>5. QED
    BY <1>1, <1>5, <2>1, <2>4
<1>6. CASE ~x.emergency /\ y.emergency
  <2>1. Link!NextUp = 2
    BY <1>2, <1>6
  <2>2. mx = [x EXCEPT !.overtaken = @ \/ taken]
    <3>1. mx = [x EXCEPT !.overtaken = @ \/ (taken /\ 1 < 2)]
      BY <1>1, <2>1
    <3>2. (taken /\ 1 < 2) = taken
      OBVIOUS
    <3>3. QED
      BY <3>1, <3>2
  <2> HIDE DEF marked, mx, my
  <2>4. Link!Remaining(taken) = <<mx>>
    BY <1>3, <1>4, <2>1, PartsOfTwo
  <2>5. QED
    BY <1>1, <1>6, <2>1, <2>2, <2>4
<1>7. QED
  BY <1>5, <1>6

LEMMA ShortSequences ==
  ASSUME NEW a, NEW b
  PROVE  /\ Append(<<>>, a) = <<a>> /\ Append(<<a>>, b) = <<a, b>>
         /\ Head(<<a>>) = a /\ Tail(<<a>>) = <<>>
         /\ Head(<<a, b>>) = a /\ Tail(<<a, b>>) = <<b>>
         /\ Len(<<a>>) = 1 /\ Len(<<a, b>>) = 2
<1>1. Append(<<>>, a) = <<a>> /\ Head(<<a>>) = a /\ Tail(<<a>>) = <<>> /\ Len(<<a>>) = 1
  OBVIOUS
<1>2. Head(<<a, b>>) = a /\ Len(<<a, b>>) = 2
  OBVIOUS
<1>3. Append(<<a>>, b) = <<a, b>>
  <2>1. /\ <<a>> \in Seq({a, b}) /\ Len(<<a>>) = 1 /\ <<a>>[1] = a
        /\ <<a, b>> \in Seq({a, b}) /\ Len(<<a, b>>) = 2 /\ <<a, b>>[1] = a /\ <<a, b>>[2] = b
    OBVIOUS
  <2>2. /\ Append(<<a>>, b) \in Seq({a, b}) /\ Len(Append(<<a>>, b)) = 2
        /\ Append(<<a>>, b)[1] = a /\ Append(<<a>>, b)[2] = b
    BY <2>1, AppendProperties
  <2>3. \A i \in 1 .. 2 : i = 1 \/ i = 2
    OBVIOUS
  <2>4. QED
    BY <2>1, <2>2, <2>3, SeqEqual, Zenon
<1>4. Tail(<<a, b>>) = <<b>>
  OBVIOUS
<1>5. QED
  BY <1>1, <1>2, <1>3, <1>4

\* What an application that awaits an answer, or has two commands under way, is.
LEMMA ReliableUse ==
  ASSUME CarefulUses, use \in Uses, ~use.lossy, ~use.rejects
  PROVE  use.window \in Nat /\ use.window <= 2
BY DEF CarefulUses, Link!LinkAssumption

LEMMA SendingKeepsOrder ==
  ASSUME CarefulUses, use \in Uses, ~use.lossy, ~use.rejects, OrderInv,
         NEW emergency \in BOOLEAN, Link!SendCommand(emergency)
  PROVE  OrderInv'
<1> DEFINE more == IF emergency THEN 1 ELSE 0
<1>0. PICK c \in CommandRecord :
        c = [number |-> counter, emergency |-> emergency, overtaken |-> FALSE]
  BY DEF OrderInv, LinkTypes, CommandRecord
<1>1. /\ Len(queue) + Len(acks) < use.window /\ queue' = Append(queue, c)
      /\ counter' = After(counter) /\ UNCHANGED <<last, acks>>
      /\ emergencies' = emergencies + more
      /\ emergency => emergencies < MaxEmergencies
  BY <1>0 DEF Link!SendCommand, After, OrderInv, LinkTypes
<1>2. /\ c \in CommandRecord /\ c.number = counter /\ c.emergency = emergency /\ ~c.overtaken
      /\ counter \in Link!Numbers /\ After(counter) \in Link!Numbers
      /\ last \in Link!Numbers \cup {Link!Uninitialized}
      /\ emergencies \in 0 .. MaxEmergencies /\ MaxEmergencies \in Nat
  BY <1>0, LinkNumbers DEF OrderInv, LinkTypes, CommandRecord, CarefulUses, Link!LinkAssumption
<1>3. LinkTypes'
  BY <1>1, <1>2 DEF LinkTypes, OrderInv, Link!Numbers, Link!Uninitialized
<1>4. /\ emergencies' \in Nat /\ emergencies' = emergencies + more
      /\ c.emergency => emergencies' > 0 /\ (c.emergency <=> emergency)
  BY <1>1, <1>2
<1>5. CASE queue = <<>>
  <2>1. queue' = <<c>>
    BY <1>1, <1>5, ShortSequences
  <2>2. Len(acks) < 2
    BY <1>1, <1>5, ReliableUse
  <2>3. last = Link!Uninitialized => OneUnheard(c)'
    BY <1>1, <1>2 DEF OneUnheard
  <2>4. ASSUME last # Link!Uninitialized
        PROVE  OneInQueue(c)'
    <3>1. NoQueue
      BY <1>5, <2>4 DEF OrderInv
    <3>2. \/ acks = <<>> /\ counter \in {last, After(last)}
          \/ acks = <<Link!Fine>> /\ counter \in {last, After(last)}
          \/ acks = <<After(last)>> /\ counter = After(last)
      BY <2>2, <3>1, ShortSequences DEF NoQueue
    <3>3. IsFresh(c)' /\ Follows(counter, c)'
      BY <1>1, <1>2, <3>2 DEF IsFresh, Follows, After, Link!Successor
    <3>4. QED
      BY <1>1, <1>2, <3>2, <3>3 DEF OneInQueue, After, Link!Successor
  <2>5. QED
    BY <1>1, <1>2, <1>3, <2>1, <2>3, <2>4 DEF OrderInv, Link!Uninitialized
<1>6. ASSUME NEW x \in CommandRecord, queue = <<x>>
      PROVE  OrderInv'
  <2>1. queue' = <<x, c>>
    BY <1>1, <1>6, ShortSequences
  <2>2. acks = <<>>
    <3>1. Len(acks) < 1
      BY <1>1, <1>6, ReliableUse, ShortSequences
    <3>2. acks = <<>> \/ Len(acks) = 1
      <4>1. CASE last = Link!Uninitialized
        BY <4>1 DEF OrderInv, LinkTypes
      <4>2. CASE last # Link!Uninitialized
        <5>1. OneInQueue(x)
          BY <1>6, <4>2 DEF OrderInv
        <5>2. QED
          BY <5>1, ShortSequences DEF OneInQueue
      <4>3. QED
        BY <4>1, <4>2
    <3>3. QED
      BY <3>1, <3>2
  <2>3. ASSUME last = Link!Uninitialized
        PROVE  TwoUnheard(x, c)'
    <3>1. OneUnheard(x)
      BY <1>6, <2>3 DEF OrderInv
    <3>2. QED
      BY <1>1, <1>2, <1>4, <3>1 DEF OneUnheard, TwoUnheard, After, Link!Successor
  <2>4. ASSUME last # Link!Uninitialized
        PROVE  TwoInQueue(x, c)'
    <3>1. OneInQueue(x)
      BY <1>6, <2>4 DEF OrderInv
    <3>2. \/ IsFresh(x) /\ Follows(counter, x)
          \/ IsOvertaken(x, 0) /\ counter = After(last)
      BY <2>2, <3>1, ShortSequences DEF OneInQueue, Follows
    <3>3. CASE IsFresh(x) /\ Follows(counter, x)
      BY <1>1, <1>2, <1>4, <2>2, <3>3
      DEF TwoInQueue, IsFresh, Follows, After, Link!Successor
    <3>4. CASE IsOvertaken(x, 0) /\ counter = After(last)
      <4>1. Behind(x.number) \in Nat
        BY <1>2, <2>4, LinkNumbers DEF Behind, CommandRecord
      <4>2. Behind(x.number)' = Behind(x.number)
        BY <1>1 DEF Behind
      <4>3. IsOvertaken(x, IF c.emergency THEN 1 ELSE 0)'
        BY <1>1, <1>2, <1>4, <3>4, <4>1, <4>2 DEF IsOvertaken
      <4>4. QED
        BY <1>1, <1>2, <1>4, <2>2, <3>4, <4>3 DEF TwoInQueue, After, Link!Successor
    <3>5. QED
      BY <3>2, <3>3, <3>4
  <2>5. QED
    BY <1>1, <1>2, <1>3, <2>1, <2>3, <2>4 DEF OrderInv, Link!Uninitialized
<1>7. ASSUME NEW x \in CommandRecord, NEW y \in CommandRecord, queue = <<x, y>>
      PROVE  FALSE
  <2>1. acks = <<>>
    BY <1>7 DEF OrderInv, LinkTypes, TwoInQueue
  <2>2. QED
    BY <1>1, <1>7, <2>1, ReliableUse, ShortSequences
<1>8. QED
  BY <1>5, <1>6, <1>7 DEF OrderInv

LEMMA AcknowledgingKeepsOrder ==
  ASSUME CarefulUses, OrderInv, Link!AckArrives
  PROVE  OrderInv'
<1>1. /\ acks # <<>> /\ acks' = Tail(acks) /\ UNCHANGED <<queue, last, emergencies>>
      /\ counter' = IF Head(acks) = Link!Fine THEN counter ELSE Head(acks)
  BY DEF Link!AckArrives, Link!ResyncSequence
<1>2. last \in Link!Numbers /\ last # Link!Uninitialized
  BY <1>1 DEF OrderInv, LinkTypes
<1>3. /\ After(last) \in Link!Numbers /\ last # Link!Fine /\ After(last) # Link!Fine
      /\ Link!Fine \notin Link!Numbers
  <2>1. /\ After(last) \in Link!Numbers /\ LinkModulus \in Nat
        /\ Link!Numbers = 0 .. LinkModulus - 1 /\ Link!Fine = LinkModulus
    BY <1>2, LinkNumbers
  <2>2. Link!Fine \notin Link!Numbers
    BY <2>1
  <2>3. QED
    BY <1>2, <2>1, <2>2
<1>4. CASE queue = <<>>
  <2>1. NoQueue
    BY <1>2, <1>4 DEF OrderInv
  <2>2. NoQueue' /\ counter' \in Link!Numbers
    <3>1. CASE acks = <<Link!Fine>> /\ counter \in {last, After(last)}
      <4>1. acks' = <<>> /\ counter' = counter
        BY <1>1, <3>1, ShortSequences
      <4>2. QED
        BY <1>1, <1>2, <1>3, <3>1, <4>1 DEF NoQueue, After, Link!Successor
    <3>2. CASE acks = <<After(last)>> /\ counter = After(last)
      <4>1. acks' = <<>> /\ counter' = counter
        BY <1>1, <3>2, ShortSequences
      <4>2. QED
        BY <1>1, <1>2, <1>3, <3>2, <4>1 DEF NoQueue, After, Link!Successor
    <3>3. CASE acks = <<Link!Fine, Link!Fine>> /\ counter = After(last)
      <4>1. acks' = <<Link!Fine>> /\ counter' = counter
        BY <1>1, <3>3, ShortSequences
      <4>2. QED
        BY <1>1, <1>2, <1>3, <3>3, <4>1 DEF NoQueue, After, Link!Successor
    <3>4. CASE acks = <<Link!Fine, After(last)>> /\ counter = After(last)
      <4>1. acks' = <<After(last)>> /\ counter' = counter
        BY <1>1, <3>4, ShortSequences
      <4>2. QED
        BY <1>1, <1>2, <1>3, <3>4, <4>1 DEF NoQueue, After, Link!Successor
    <3>5. CASE acks = <<last, Link!Fine>> /\ counter = After(last)
      <4>1. acks' = <<Link!Fine>> /\ counter' = last
        BY <1>1, <1>3, <3>5, ShortSequences
      <4>2. QED
        BY <1>1, <1>2, <1>3, <3>5, <4>1 DEF NoQueue, After, Link!Successor
    <3>6. QED
      BY <1>1, <2>1, <3>1, <3>2, <3>3, <3>4, <3>5 DEF NoQueue
  <2>3. QED
    BY <1>1, <1>2, <1>4, <2>2 DEF OrderInv, LinkTypes, Link!Uninitialized
<1>5. ASSUME NEW x \in CommandRecord, queue = <<x>>
      PROVE  OrderInv'
  <2>1. OneInQueue(x)
    BY <1>2, <1>5 DEF OrderInv
  <2>2. x.number \in Link!Numbers /\ After(x.number) \in Link!Numbers
    BY LinkNumbers DEF CommandRecord
  <2>3. OneInQueue(x)' /\ counter' \in Link!Numbers
    <3>1. CASE IsFresh(x) /\ acks = <<Link!Fine>> /\ counter = After(x.number)
      <4>1. acks' = <<>> /\ counter' = counter
        BY <1>1, <3>1, ShortSequences
      <4>2. QED
        BY <1>1, <2>2, <3>1, <4>1 DEF OneInQueue, IsFresh, Follows, After, Link!Successor
    <3>2. CASE IsFresh(x) /\ acks = <<After(last)>> /\ x.number = After(last) /\ counter = After(x.number)
      <4>1. acks' = <<>> /\ counter' = After(last)
        BY <1>1, <1>3, <3>2, ShortSequences
      <4>2. QED
        BY <1>1, <1>3, <2>2, <3>2, <4>1 DEF OneInQueue, IsFresh, Follows, After, Link!Successor
    <3>3. CASE IsOvertaken(x, 0) /\ acks \in {<<>>, <<Link!Fine>>} /\ counter = After(last)
      <4>1. acks' = <<>> /\ counter' = counter
        BY <1>1, <3>3, ShortSequences
      <4>2. IsOvertaken(x, 0)'
        BY <1>1, <3>3 DEF IsOvertaken, Behind
      <4>3. QED
        BY <1>1, <1>3, <3>3, <4>1, <4>2 DEF OneInQueue, After, Link!Successor
    <3>4. QED
      BY <1>1, <2>1, <3>1, <3>2, <3>3 DEF OneInQueue
  <2>4. QED
    BY <1>1, <1>2, <1>5, <2>3 DEF OrderInv, LinkTypes, Link!Uninitialized
<1>6. ASSUME NEW x \in CommandRecord, NEW y \in CommandRecord, queue = <<x, y>>
      PROVE  FALSE
  BY <1>1, <1>2, <1>6 DEF OrderInv, TwoInQueue
<1>7. QED
  BY <1>4, <1>5, <1>6 DEF OrderInv

\* What the arrival of the command x makes of the numbers.
LEMMA ArrivalOf ==
  ASSUME CarefulUses, use \in Uses, ~use.rejects, OrderInv, Link!CommandArrives,
         NEW x \in CommandRecord, queue[Link!NextUp] = x
  PROVE  /\ UNCHANGED <<use, counter, emergencies>>
         /\ \/ /\ x.emergency \/ last = Link!Uninitialized \/ x.number = After(last)
               /\ verdict' = "accepted" /\ last' = x.number
               /\ acks' = Append(acks, Link!Fine) /\ queue' = Link!Remaining(TRUE)
            \/ /\ ~x.emergency /\ last # Link!Uninitialized /\ x.number # After(last)
               /\ verdict' = "sequenceError" /\ last' = last
               /\ acks' = Append(acks, After(last)) /\ queue' = Link!Remaining(FALSE)
<1>1. /\ verdict' \in Link!Verdicts(x)
      /\ last' = IF verdict' = "accepted" THEN x.number ELSE last
      /\ acks' = Append(acks, IF verdict' = "sequenceError" THEN After(last) ELSE Link!Fine)
      /\ queue' = Link!Remaining(verdict' = "accepted")
      /\ UNCHANGED <<use, counter, emergencies>>
  BY DEF Link!CommandArrives, Link!CommitSequence, Link!ExpectedSequence, After
<1>2. CASE Link!IsExpectedSequence(x)
  <2>1. verdict' = "accepted"
    BY <1>1, <1>2 DEF Link!Verdicts
  <2>2. (verdict' = "accepted") = TRUE
    BY <2>1
  <2>3. queue' = Link!Remaining(TRUE)
    BY <1>1, <2>2
  <2>4. x.emergency \/ last = Link!Uninitialized \/ x.number = After(last)
    BY <1>2 DEF Link!IsExpectedSequence, Link!ExpectedSequence, After
  <2>5. QED
    BY <1>1, <2>1, <2>3, <2>4
<1>3. CASE ~Link!IsExpectedSequence(x)
  <2>1. verdict' = "sequenceError"
    BY <1>1, <1>3 DEF Link!Verdicts
  <2>2. (verdict' = "accepted") = FALSE
    BY <2>1
  <2>3. queue' = Link!Remaining(FALSE)
    BY <1>1, <2>2
  <2>4. ~x.emergency /\ last # Link!Uninitialized /\ x.number # After(last)
    BY <1>3 DEF Link!IsExpectedSequence, Link!ExpectedSequence, After
  <2>5. QED
    BY <1>1, <2>1, <2>3, <2>4
<1>4. QED
  BY <1>2, <1>3

LEMMA ArrivalOfOne ==
  ASSUME CarefulUses, FewEmergencies, use \in Uses, ~use.lossy, ~use.rejects, OrderInv,
         Link!CommandArrives, NEW x \in CommandRecord, queue = <<x>>
  PROVE  OrderInv' /\ (verdict' = "accepted" => ~x.overtaken)
<1>1. /\ queue[Link!NextUp] = x /\ Link!Remaining(TRUE) = <<>> /\ Link!Remaining(FALSE) = <<>>
  BY OneIsSent
<1>2. /\ UNCHANGED <<counter, emergencies>> /\ queue' = <<>>
      /\ \/ /\ x.emergency \/ last = Link!Uninitialized \/ x.number = After(last)
            /\ last' = x.number /\ acks' = Append(acks, Link!Fine)
         \/ /\ ~x.emergency /\ last # Link!Uninitialized /\ x.number # After(last)
            /\ verdict' = "sequenceError" /\ last' = last /\ acks' = Append(acks, After(last))
  BY <1>1, ArrivalOf
<1>3. /\ x.number \in Link!Numbers /\ After(x.number) \in Link!Numbers /\ x.number # After(x.number)
      /\ counter \in Link!Numbers /\ Link!Uninitialized \notin Link!Numbers
      /\ emergencies \in 0 .. MaxEmergencies
  BY LinkNumbers DEF CommandRecord, OrderInv, LinkTypes
<1>4. LinkTypes'
  BY <1>2, <1>3 DEF OrderInv, LinkTypes, Link!Uninitialized, Link!Numbers
<1>5. CASE last = Link!Uninitialized
  <2>1. acks = <<>> /\ OneUnheard(x)
    BY <1>5 DEF OrderInv, LinkTypes
  <2>2. acks' = <<Link!Fine>> /\ last' = x.number
    BY <1>2, <1>5, <2>1, ShortSequences
  <2>3. NoQueue'
    BY <1>2, <2>1, <2>2 DEF OneUnheard, NoQueue, After, Link!Successor, Link!Fine
  <2>4. QED
    BY <1>2, <1>4, <2>1, <2>3 DEF OrderInv, OneUnheard
<1>6. CASE last # Link!Uninitialized
  <2>1. OneInQueue(x) /\ last \in Link!Numbers
    BY <1>6 DEF OrderInv, LinkTypes
  <2>2. CASE IsFresh(x)
    <3>1. \/ acks = <<>> /\ Follows(counter, x)
          \/ acks = <<Link!Fine>> /\ counter = After(x.number)
          \/ acks = <<After(last)>> /\ x.number = After(last) /\ counter = After(x.number)
      BY <2>1, <2>2 DEF OneInQueue, IsFresh, IsOvertaken
    <3>2. CASE last' = x.number /\ acks' = Append(acks, Link!Fine)
      <4>1. \/ acks' = <<Link!Fine>> /\ counter \in {x.number, After(x.number)}
            \/ acks' = <<Link!Fine, Link!Fine>> /\ counter = After(x.number)
            \/ acks' = <<x.number, Link!Fine>> /\ counter = After(x.number)
        BY <3>1, <3>2, ShortSequences DEF Follows
      <4>2. NoQueue'
        BY <1>2, <3>2, <4>1 DEF NoQueue, After, Link!Successor, Link!Fine
      <4>3. QED
        BY <1>2, <1>4, <2>2, <4>2 DEF OrderInv, IsFresh
    <3>3. CASE /\ x.number # After(last) /\ last' = last /\ verdict' = "sequenceError"
               /\ acks' = Append(acks, After(last))
      <4>1. x.number = last
        BY <2>2, <3>3 DEF IsFresh
      <4>2. /\ acks' \in {<<After(last)>>, <<Link!Fine, After(last)>>} /\ counter = After(last)
        <5>1. CASE acks = <<>> /\ Follows(counter, x)
          BY <3>3, <4>1, <5>1, ShortSequences DEF Follows
        <5>2. CASE acks = <<Link!Fine>> /\ counter = After(x.number)
          BY <3>3, <4>1, <5>2, ShortSequences
        <5>3. QED
          BY <3>1, <3>3, <5>1, <5>2
      <4>3. NoQueue'
        BY <1>2, <3>3, <4>2 DEF NoQueue, After, Link!Successor, Link!Fine
      <4>4. QED
        BY <1>2, <1>4, <3>3, <4>3 DEF OrderInv
    <3>4. QED
      BY <1>2, <3>2, <3>3
  <2>3. CASE IsOvertaken(x, 0)
    <3>1. acks \in {<<>>, <<Link!Fine>>} /\ counter = After(last) /\ ~x.emergency
      BY <2>1, <2>3 DEF OneInQueue, IsFresh, IsOvertaken
    <3>2. Behind(x.number) <= emergencies
      <4>1. Behind(x.number) \in Nat /\ Behind(x.number) + 0 <= emergencies
        BY <1>3, <2>1, <2>3, LinkNumbers DEF IsOvertaken, Behind
      <4>2. QED
        BY <4>1
    <3>3. x.number # After(last)
      BY <1>3, <2>1, <3>2, BehindFacts DEF CarefulUses, Link!LinkAssumption
    <3>4. last' = last /\ acks' = Append(acks, After(last)) /\ verdict' = "sequenceError"
      BY <1>2, <1>6, <3>1, <3>3
    <3>5. acks' \in {<<After(last)>>, <<Link!Fine, After(last)>>}
      BY <3>1, <3>4, ShortSequences
    <3>6. NoQueue'
      BY <1>2, <3>1, <3>4, <3>5 DEF NoQueue, After, Link!Successor, Link!Fine
    <3>7. QED
      BY <1>2, <1>4, <3>4, <3>6 DEF OrderInv
  <2>4. QED
    BY <2>1, <2>2, <2>3 DEF OneInQueue
<1>7. QED
  BY <1>5, <1>6

LEMMA ArrivalOfOneOfTwo ==
  ASSUME CarefulUses, FewEmergencies, use \in Uses, ~use.lossy, ~use.rejects, OrderInv,
         Link!CommandArrives, NEW x \in CommandRecord, NEW y \in CommandRecord, queue = <<x, y>>
  PROVE  OrderInv' /\ (verdict' = "accepted" => ~queue[Link!NextUp].overtaken)
<1>1. /\ x.number \in Link!Numbers /\ After(x.number) \in Link!Numbers /\ x.number # After(x.number)
      /\ y.number \in Link!Numbers
      /\ counter \in Link!Numbers /\ Link!Uninitialized \notin Link!Numbers
      /\ emergencies \in 0 .. MaxEmergencies /\ MaxEmergencies \in Nat
      /\ last \in Link!Numbers \cup {Link!Uninitialized}
  BY LinkNumbers DEF CommandRecord, OrderInv, LinkTypes, CarefulUses, Link!LinkAssumption
<1>2. IF last = Link!Uninitialized THEN TwoUnheard(x, y) ELSE TwoInQueue(x, y)
  BY DEF OrderInv
<1>3. acks = <<>> /\ ~y.overtaken /\ counter = After(y.number) /\ (y.emergency => emergencies > 0)
  BY <1>2 DEF TwoUnheard, TwoInQueue, OrderInv, LinkTypes
<1>4. CASE /\ queue[Link!NextUp] = x
           /\ Link!Remaining(TRUE) = <<y>> /\ Link!Remaining(FALSE) = <<y>>
  <2>1. /\ UNCHANGED <<counter, emergencies>> /\ queue' = <<y>>
        /\ \/ /\ x.emergency \/ last = Link!Uninitialized \/ x.number = After(last)
              /\ last' = x.number /\ acks' = <<Link!Fine>>
           \/ /\ ~x.emergency /\ last # Link!Uninitialized /\ x.number # After(last)
              /\ verdict' = "sequenceError" /\ last' = last /\ acks' = <<After(last)>>
    BY <1>3, <1>4, ArrivalOf, ShortSequences
  <2>2. LinkTypes' /\ last' \in Link!Numbers
    BY <1>1, <2>1 DEF LinkTypes, Link!Numbers, Link!Uninitialized
  <2>3. OneInQueue(y)' /\ (verdict' = "accepted" => ~x.overtaken)
    <3>1. CASE last = Link!Uninitialized
      <4>1. ~x.overtaken /\ y.number = After(x.number) /\ last' = x.number /\ acks' = <<Link!Fine>>
        BY <1>2, <2>1, <3>1 DEF TwoUnheard
      <4>2. QED
        BY <1>3, <2>1, <4>1 DEF OneInQueue, IsFresh, After, Link!Successor, Link!Fine
    <3>2. CASE last # Link!Uninitialized /\ IsFresh(x) /\ Follows(y.number, x)
      <4>1. CASE last' = x.number /\ acks' = <<Link!Fine>>
        <5>1. y.number \in {x.number, After(x.number)}
          BY <3>2 DEF Follows
        <5>2. IsFresh(y)'
          BY <1>3, <4>1, <5>1 DEF IsFresh, After, Link!Successor
        <5>3. ~x.overtaken
          BY <3>2 DEF IsFresh
        <5>4. QED
          BY <1>3, <2>1, <4>1, <5>2, <5>3 DEF OneInQueue, After, Link!Successor, Link!Fine
      <4>2. CASE /\ x.number # After(last) /\ verdict' = "sequenceError" /\ last' = last
                 /\ acks' = <<After(last)>>
        <5>1. x.number = last /\ y.number = After(last)
          BY <3>2, <4>2 DEF IsFresh, Follows
        <5>2. IsFresh(y)'
          BY <1>3, <4>2, <5>1 DEF IsFresh, After, Link!Successor
        <5>3. QED
          BY <1>3, <2>1, <4>2, <5>1, <5>2 DEF OneInQueue, After, Link!Successor
      <4>3. QED
        BY <2>1, <3>2, <4>1, <4>2
    <3>3. CASE /\ last # Link!Uninitialized /\ y.number = After(last)
               /\ IsOvertaken(x, IF y.emergency THEN 1 ELSE 0)
      <4>1. ~x.emergency /\ Behind(x.number) <= emergencies
        <5>1. Behind(x.number) \in Nat
          BY <1>1, <3>3, BehindFacts
        <5>2. QED
          BY <1>1, <3>3, <5>1 DEF IsOvertaken
      <4>2. x.number # After(last)
        BY <1>1, <3>3, <4>1, BehindFacts
      <4>3. verdict' = "sequenceError" /\ last' = last /\ acks' = <<After(last)>>
        BY <2>1, <3>3, <4>1, <4>2
      <4>4. IsFresh(y)'
        BY <1>3, <3>3, <4>3 DEF IsFresh, After, Link!Successor
      <4>5. QED
        BY <1>3, <2>1, <3>3, <4>3, <4>4 DEF OneInQueue, After, Link!Successor
    <3>4. QED
      BY <1>2, <3>1, <3>2, <3>3 DEF TwoInQueue
  <2>4. QED
    BY <1>1, <1>4, <2>1, <2>2, <2>3 DEF OrderInv, Link!Uninitialized
<1>5. CASE /\ ~x.emergency /\ y.emergency /\ queue[Link!NextUp] = y
           /\ Link!Remaining(TRUE) = <<[x EXCEPT !.overtaken = @ \/ TRUE]>>
  <2>1. PICK z \in CommandRecord : z = [x EXCEPT !.overtaken = @ \/ TRUE]
    BY DEF CommandRecord
  <2>2. z.number = x.number /\ z.overtaken /\ ~z.emergency
    BY <1>5, <2>1 DEF CommandRecord
  <2>3. /\ UNCHANGED <<counter, emergencies>> /\ queue' = <<z>>
        /\ last' = y.number /\ acks' = <<Link!Fine>>
    BY <1>3, <1>5, <2>1, ArrivalOf, ShortSequences
  <2>4. LinkTypes' /\ last' \in Link!Numbers
    BY <1>1, <2>3 DEF LinkTypes, Link!Numbers, Link!Uninitialized
  <2>5. emergencies \in Nat /\ emergencies >= 1
    BY <1>1, <1>3, <1>5
  <2>6. Behind(x.number)' <= emergencies /\ Behind(x.number)' \in Nat
    <3>1. CASE y.number \in {x.number, After(x.number)}
      <4>1. Behind(x.number)' \in {0, 1}
        BY <1>1, <2>3, <3>1, LinkNumbers DEF Behind
      <4>2. QED
        BY <2>5, <4>1
    <3>2. CASE /\ last # Link!Uninitialized /\ y.number = After(last)
               /\ IsOvertaken(x, IF y.emergency THEN 1 ELSE 0)
      <4>1. Behind(x.number) + 1 <= emergencies
        BY <1>5, <3>2 DEF IsOvertaken
      <4>2. Behind(x.number)' <= emergencies
        BY <1>1, <2>3, <3>2, <4>1, BehindFacts
      <4>3. Behind(x.number)' \in Nat
        BY <1>1, <2>4, LinkNumbers DEF Behind
      <4>4. QED
        BY <4>2, <4>3
    <3>3. QED
      BY <1>2, <3>1, <3>2 DEF TwoUnheard, TwoInQueue, Follows
  <2>7. IsOvertaken(z, 0)'
    <3>1. Behind(z.number)' = Behind(x.number)'
      BY <2>2 DEF Behind
    <3>2. Behind(z.number)' + 0 <= emergencies'
      BY <2>3, <2>5, <2>6, <3>1
    <3>3. QED
      BY <2>2, <3>2 DEF IsOvertaken
  <2>8. OneInQueue(z)'
    BY <1>3, <2>3, <2>7 DEF OneInQueue, After, Link!Successor, Link!Fine
  <2>9. QED
    BY <1>1, <1>3, <1>5, <2>3, <2>4, <2>8 DEF OrderInv, Link!Uninitialized
<1>6. QED
  BY <1>4, <1>5, OneOfTwoIsSent

\* One command at a time, which the server's handlers may reject.
LEMMA AwaitingStep ==
  ASSUME CarefulUses, use \in Uses, use.rejects, AwaitingInv, [Link!Next]_(Link!vars)
  PROVE  /\ AwaitingInv' /\ use' = use
         /\ Accepts => ~queue[Link!NextUp].overtaken
         /\ verdict = "sequenceError" /\ AckSent => verdict' # "sequenceError"
<1>1. use.window = 1 /\ ~use.lossy
  BY DEF CarefulUses
<1>2. /\ counter \in Link!Numbers /\ After(counter) \in Link!Numbers
      /\ last \in Link!Numbers \cup {Link!Uninitialized} /\ Link!Uninitialized = Link!Fine
      /\ Link!Fine \notin Link!Numbers
      /\ last \in Link!Numbers => After(last) \in Link!Numbers
  <2>1. counter \in Link!Numbers /\ last \in Link!Numbers \cup {Link!Uninitialized}
    BY DEF AwaitingInv
  <2>2. /\ After(counter) \in Link!Numbers /\ LinkModulus \in Nat
        /\ Link!Numbers = 0 .. LinkModulus - 1
        /\ Link!Uninitialized = LinkModulus /\ Link!Fine = LinkModulus
    BY <2>1, LinkNumbers
  <2>3. last \in Link!Numbers => After(last) \in Link!Numbers
    BY LinkNumbers
  <2>4. QED
    BY <2>1, <2>2, <2>3
<1>3. ASSUME NEW emergency \in BOOLEAN, Link!SendCommand(emergency)
      PROVE  /\ AwaitingInv' /\ use' = use /\ acks' = acks
  <2>0. PICK c \in CommandRecord :
          c = [number |-> counter, emergency |-> emergency, overtaken |-> FALSE]
    BY <1>2 DEF CommandRecord
  <2>1. /\ Len(queue) + Len(acks) < 1 /\ queue' = Append(queue, c)
        /\ counter' = After(counter) /\ UNCHANGED <<use, last, acks, verdict>>
    BY <1>1, <1>3, <2>0 DEF Link!SendCommand, After
  <2>2. acks = <<>> /\ queue = <<>>
    <3>1. queue = <<>> \/ (Len(queue) = 1 /\ acks = <<>>)
      BY ShortSequences DEF AwaitingInv
    <3>2. acks = <<>> \/ Len(acks) = 1
      BY ShortSequences DEF AwaitingInv
    <3>3. QED
      BY <2>1, <3>1, <3>2
  <2>3. queue' = <<c>> /\ c.number = counter /\ ~c.overtaken
    BY <2>0, <2>1, <2>2, ShortSequences
  <2>4. verdict = "sequenceError" => last \in Link!Numbers /\ counter = After(last)
    BY <2>2 DEF AwaitingInv
  <2>5. verdict' = "sequenceError" => last' \in Link!Numbers /\ c.number = After(last')
    BY <2>1, <2>3, <2>4 DEF After, Link!Successor
  <2>6. QED
    BY <1>2, <2>1, <2>2, <2>3, <2>5 DEF AwaitingInv, After, Link!Successor, Link!Uninitialized, Link!Numbers
<1>4. ASSUME Link!CommandArrives
      PROVE  /\ AwaitingInv' /\ use' = use /\ ~queue[Link!NextUp].overtaken
             /\ verdict = "sequenceError" => verdict' # "sequenceError"
  <2>1. PICK x \in CommandRecord : queue = <<x>> /\ ~x.overtaken /\ acks = <<>>
    BY <1>4 DEF AwaitingInv, Link!CommandArrives
  <2>2. /\ queue[Link!NextUp] = x /\ \A b \in BOOLEAN : Link!Remaining(b) = <<>>
    BY <2>1, OneIsSent
  <2>3. /\ verdict' \in Link!Verdicts(x)
        /\ last' = IF verdict' = "accepted" THEN x.number ELSE last
        /\ acks' = Append(acks, IF verdict' = "sequenceError" THEN After(last) ELSE Link!Fine)
        /\ queue' = <<>> /\ UNCHANGED <<use, counter>>
    BY <1>4, <2>2 DEF Link!CommandArrives, Link!CommitSequence, Link!ExpectedSequence, After
  <2>4. x.number \in Link!Numbers
    BY DEF CommandRecord
  <2>5. verdict = "sequenceError" => verdict' # "sequenceError"
    <3>1. ASSUME verdict = "sequenceError"
          PROVE  x.number = After(last)
      BY <2>1, <3>1, ShortSequences DEF AwaitingInv
    <3>2. ASSUME x.number = After(last)
          PROVE  verdict' # "sequenceError"
      BY <2>3, <3>2 DEF Link!Verdicts, Link!IsExpectedSequence, Link!ExpectedSequence, After
    <3>3. QED
      BY <3>1, <3>2
  <2>6. verdict' = "sequenceError" => last \in Link!Numbers /\ last' = last /\ acks' = <<After(last)>>
    <3>1. ASSUME verdict' = "sequenceError"
          PROVE  ~Link!IsExpectedSequence(x)
      BY <2>3, <3>1 DEF Link!Verdicts
    <3>2. QED
      BY <1>2, <2>1, <2>3, <3>1, ShortSequences DEF Link!IsExpectedSequence
  <2>7. verdict' # "sequenceError" => acks' = <<Link!Fine>>
    BY <2>1, <2>3, ShortSequences
  <2>8. /\ last' \in Link!Numbers \cup {Link!Uninitialized}
        /\ \E a \in Link!Numbers \cup {Link!Fine} : acks' = <<a>>
    BY <1>2, <2>3, <2>4, <2>6, <2>7
  <2>9. AwaitingInv'
    BY <1>2, <2>3, <2>6, <2>8 DEF AwaitingInv, After, Link!Successor, Link!Uninitialized, Link!Fine, Link!Numbers
  <2>10. QED
    BY <2>1, <2>2, <2>3, <2>5, <2>9
<1>5. ASSUME Link!AckArrives
      PROVE  AwaitingInv' /\ use' = use /\ acks' = <<>> /\ queue = <<>>
  <2>1. PICK a \in Link!Numbers \cup {Link!Fine} : acks = <<a>> /\ queue = <<>>
    BY <1>5 DEF AwaitingInv, Link!AckArrives
  <2>2. /\ acks' = <<>> /\ counter' = (IF a = Link!Fine THEN counter ELSE a)
        /\ UNCHANGED <<use, queue, last, verdict>>
    BY <1>5, <2>1, ShortSequences DEF Link!AckArrives, Link!ResyncSequence
  <2>3. ASSUME verdict = "sequenceError"
        PROVE  last \in Link!Numbers /\ a = After(last)
    BY <2>1, <2>3, ShortSequences DEF AwaitingInv
  <2>4. verdict' = "sequenceError" => last' \in Link!Numbers /\ counter' = After(last')
    BY <1>2, <2>2, <2>3 DEF After, Link!Successor
  <2>5. counter' \in Link!Numbers
    BY <1>2, <2>2
  <2>6. QED
    BY <1>2, <2>1, <2>2, <2>4, <2>5 DEF AwaitingInv, After, Link!Successor, Link!Uninitialized, Link!Numbers
<1>6. ASSUME UNCHANGED Link!vars
      PROVE  AwaitingInv' /\ use' = use /\ acks' = acks
  BY <1>6 DEF Link!vars, AwaitingInv, After, Link!Successor, Link!Uninitialized, Link!Fine, Link!Numbers
<1>7. ASSUME Link!CommandIsLost \/ Link!CommandFails \/ Link!AckIsLost
      PROVE  FALSE
  BY <1>1, <1>7 DEF Link!CommandIsLost, Link!CommandFails, Link!AckIsLost, Link!Loses
<1>8. ASSUME acks' \in {acks, <<>>}
      PROVE  ~AckSent
  <2>1. Len(acks) \in {0, 1}
    BY ShortSequences DEF AwaitingInv
  <2>2. Len(<<>>) = 0
    OBVIOUS
  <2>3. QED
    BY <1>8, <2>1, <2>2 DEF AckSent
<1>9. CASE Link!CommandArrives
  BY <1>4, <1>9
<1>10. CASE \E emergency \in BOOLEAN : Link!SendCommand(emergency)
  BY <1>3, <1>8, <1>10 DEF Accepts
<1>11. CASE Link!AckArrives
  BY <1>5, <1>8, <1>11 DEF Accepts
<1>12. CASE UNCHANGED Link!vars
  BY <1>6, <1>8, <1>12 DEF Accepts
<1>13. QED
  BY <1>7, <1>9, <1>10, <1>11, <1>12 DEF Link!Next

LEMMA TailIsShorter ==
  ASSUME NEW s, s = <<>> \/ (\E a : s = <<a>>) \/ (\E a, b : s = <<a, b>>),
         NEW t, t = s \/ (t = Tail(s) /\ s # <<>>)
  PROVE  ~(Len(t) > Len(s))
<1>1. CASE s = <<>>
  <2>1. Len(s) = 0 /\ Len(t) = 0
    BY <1>1
  <2>2. QED
    BY <2>1
<1>2. ASSUME NEW a, s = <<a>>
      PROVE  ~(Len(t) > Len(s))
  <2>1. Tail(s) = <<>> /\ Len(s) = 1
    BY <1>2, ShortSequences
  <2>2. Len(t) \in {0, 1}
    BY <2>1
  <2>3. QED
    BY <2>1, <2>2
<1>3. ASSUME NEW a, NEW b, s = <<a, b>>
      PROVE  ~(Len(t) > Len(s))
  <2>1. Len(Tail(s)) = 1 /\ Len(s) = 2
    BY <1>3, ShortSequences
  <2>2. Len(t) = 1 \/ Len(t) = 2
    BY <2>1
  <2>3. Len(s) = 2
    BY <2>1
  <2>4. ~(1 > 2) /\ ~(2 > 2)
    OBVIOUS
  <2>5. QED
    BY <2>2, <2>3, <2>4, Zenon
<1>4. QED
  BY <1>1, <1>2, <1>3

\* Two commands under way at most, nothing lost and nothing rejected.
LEMMA OrderStep ==
  ASSUME CarefulUses, FewEmergencies, use \in Uses, ~use.lossy, ~use.rejects, OrderInv,
         [Link!Next]_(Link!vars)
  PROVE  /\ OrderInv' /\ use' = use
         /\ Accepts => ~queue[Link!NextUp].overtaken
<1>1. ASSUME NEW emergency \in BOOLEAN, Link!SendCommand(emergency)
      PROVE  OrderInv' /\ use' = use /\ acks' = acks
  BY <1>1, SendingKeepsOrder DEF Link!SendCommand
<1>2. ASSUME Link!AckArrives
      PROVE  OrderInv' /\ use' = use /\ acks' = Tail(acks) /\ acks # <<>>
  BY <1>2, AcknowledgingKeepsOrder DEF Link!AckArrives
<1>3. ASSUME Link!CommandArrives
      PROVE  OrderInv' /\ use' = use /\ (verdict' = "accepted" => ~queue[Link!NextUp].overtaken)
  <2>1. use' = use /\ queue # <<>>
    BY <1>3 DEF Link!CommandArrives
  <2>2. ASSUME NEW x \in CommandRecord, queue = <<x>>
        PROVE  OrderInv' /\ (verdict' = "accepted" => ~queue[Link!NextUp].overtaken)
    BY <1>3, <2>2, ArrivalOfOne, OneIsSent
  <2>3. ASSUME NEW x \in CommandRecord, NEW y \in CommandRecord, queue = <<x, y>>
        PROVE  OrderInv' /\ (verdict' = "accepted" => ~queue[Link!NextUp].overtaken)
    BY <1>3, <2>3, ArrivalOfOneOfTwo
  <2>4. QED
    BY <2>1, <2>2, <2>3 DEF OrderInv
<1>4. ASSUME UNCHANGED Link!vars
      PROVE  OrderInv' /\ use' = use /\ acks' = acks
  BY <1>4 DEF Link!vars, OrderInv, LinkTypes, NoQueue, OneInQueue, TwoInQueue, OneUnheard, TwoUnheard,
       IsFresh, IsOvertaken, Follows, Behind, After, Link!Successor, Link!Uninitialized, Link!Fine, Link!Numbers
<1>5. ASSUME Link!CommandIsLost \/ Link!CommandFails \/ Link!AckIsLost
      PROVE  FALSE
  BY <1>5 DEF Link!CommandIsLost, Link!CommandFails, Link!AckIsLost, Link!Loses
<1>6. ASSUME acks' = acks \/ (acks' = Tail(acks) /\ acks # <<>>)
      PROVE  ~AckSent
  <2>1. acks = <<>> \/ (\E a : acks = <<a>>) \/ (\E a, b : acks = <<a, b>>)
    <3>1. CASE last = Link!Uninitialized
      BY <3>1 DEF OrderInv, LinkTypes
    <3>2. CASE last # Link!Uninitialized
      BY <3>2 DEF OrderInv, NoQueue, OneInQueue, TwoInQueue
    <3>3. QED
      BY <3>1, <3>2
  <2>2. ~(Len(acks') > Len(acks))
    BY <1>6, <2>1, TailIsShorter, Zenon
  <2>3. QED
    BY <2>2 DEF AckSent
<1>7. CASE Link!CommandArrives
  BY <1>3, <1>7 DEF Accepts
<1>8. CASE \E emergency \in BOOLEAN : Link!SendCommand(emergency)
  BY <1>1, <1>6, <1>8 DEF Accepts
<1>9. CASE Link!AckArrives
  BY <1>2, <1>6, <1>9 DEF Accepts
<1>10. CASE UNCHANGED Link!vars
  BY <1>4, <1>6, <1>10 DEF Accepts
<1>11. QED
  BY <1>5, <1>7, <1>8, <1>9, <1>10 DEF Link!Next

LEMMA UseIsFixed == [Link!Next]_(Link!vars) => use' = use
BY DEF Link!Next, Link!vars, Link!SendCommand, Link!CommandArrives, Link!CommandIsLost,
   Link!CommandFails, Link!AckArrives, Link!AckIsLost

LEMMA LinkInit ==
  ASSUME CarefulUses, Link!Init
  PROVE  LinkInv
<1>1. /\ counter \in Link!Numbers /\ use \in Uses /\ queue = <<>> /\ acks = <<>>
      /\ last = Link!Uninitialized /\ verdict = "none" /\ emergencies = 0
      /\ MaxEmergencies \in Nat
  BY DEF Link!Init, CarefulUses, Link!LinkAssumption
<1>2. OrderInv
  BY <1>1 DEF OrderInv, LinkTypes
<1>3. AwaitingInv
  BY <1>1 DEF AwaitingInv
<1>4. QED
  BY <1>1, <1>2, <1>3 DEF LinkInv

LEMMA LinkStep ==
  ASSUME CarefulUses, FewEmergencies, LinkInv, [Link!Next]_(Link!vars)
  PROVE  /\ LinkInv'
         /\ [~use.lossy /\ Accepts => ~queue[Link!NextUp].overtaken]_(Link!vars)
         /\ [use.rejects /\ verdict = "sequenceError" /\ AckSent
               => verdict' # "sequenceError"]_(Link!vars)
<1>1. use \in Uses /\ use' = use
  BY UseIsFixed DEF LinkInv
<1>2. CASE use.rejects
  <2>1. AwaitingInv
    BY <1>2 DEF LinkInv
  <2>2. QED
    BY <1>1, <1>2, <2>1, AwaitingStep DEF LinkInv
<1>3. CASE ~use.rejects /\ ~use.lossy
  <2>1. OrderInv
    BY <1>3 DEF LinkInv
  <2>2. QED
    BY <1>1, <1>3, <2>1, OrderStep DEF LinkInv
<1>4. CASE ~use.rejects /\ use.lossy
  BY <1>1, <1>4 DEF LinkInv
<1>5. QED
  BY <1>2, <1>3, <1>4

\* However emergencies and stale acknowledgements meet: with at most two commands
\* under way, nothing lost and nothing rejected, no command that an emergency
\* overtook runs after it (CanProtocolServer::AdmitCommand); and a client that
\* awaits each answer pays for a rejected payload with one sequence error
\* (CanProtocolClient::ResyncSequence).
THEOREM NumbersKeepOrderEndToEnd ==
  ASSUME CarefulUses, FewEmergencies
  PROVE  LinkSpec => NumbersKeepOrder
<1>1. Link!Init => LinkInv
  BY LinkInit
<1>2. LinkInv /\ [Link!Next]_(Link!vars) =>
        /\ LinkInv'
        /\ [~use.lossy /\ Accepts => ~queue[Link!NextUp].overtaken]_(Link!vars)
        /\ [use.rejects /\ verdict = "sequenceError" /\ AckSent
              => verdict' # "sequenceError"]_(Link!vars)
  BY LinkStep
<1>3. QED
  BY <1>1, <1>2, PTL DEF LinkSpec, Link!Spec, NumbersKeepOrder, OneErrorIsEnough

=============================================================================
