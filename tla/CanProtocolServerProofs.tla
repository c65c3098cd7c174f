----------------------- MODULE CanProtocolServerProofs -----------------------
(***************************************************************************)
(* Proofs about CanProtocolServer for every number of frames and sends,    *)
(* every budget, every registry and every queue of the transport; and      *)
(* about two categories whose handlers the server dispatches to, as        *)
(* MCCategories puts them side by side: FirmwareUpgrade, for every session *)
(* timeout and every number of commands, and FocMotor, for every number of *)
(* commands and faults.                                                    *)
(***************************************************************************)
EXTENDS CanProtocolServer, MCCategories, SequenceTheorems, FiniteSetTheorems,
        WellFoundedInduction, TLAPS

-----------------------------------------------------------------------------
(* The invariant, by the variables that its parts are about *)

CounterRecord == [rateLimited : Nat, emergencyRateLimited : Nat,
                  invalidFrames : Nat, emergencyAdmitted : Nat]
HeardRecord == [all : Nat, emergency : Nat, ordinary : Nat]
CommandRecord == [emergency : BOOLEAN, number : SequenceNumbers]

SendTypes ==
  /\ onWay \in Transport!Frames \cup {NoFrame}
  /\ waiting \subseteq Transport!Frames
  /\ outcome \in [1 .. MaxSends -> Transport!Outcomes]
  /\ sent \in Seq(SentFrames)
  /\ Len(sent) <= MaxSends

\* sendVars and heartbeatVars
SendPart ==
  /\ SendTypes
  /\ heartbeatPending \in BOOLEAN
  /\ heartbeatTimer \in BOOLEAN
  /\ OneHeartbeatPending

\* sequenceVars and commands
SequencePart ==
  /\ lastSequenceNumber \in SequenceNumbers
  /\ sequenceInitialized \in BOOLEAN
  /\ commands \in Seq(CommandRecord)
  /\ CommandsInOrder

\* rateVars and heard
RatePart ==
  /\ messageCountThisPeriod \in 0 .. maxMessagesPerSecond
  /\ emergencyMessageCountThisPeriod \in 0 .. maxEmergencyMessagesPerSecond
  /\ heard \in HeardRecord
  /\ BudgetsAreSeparate

\* heard, counters, consumed and accepted
AccountPart ==
  /\ heard \in HeardRecord
  /\ counters \in CounterRecord
  /\ consumed \in Nat
  /\ accepted \in Nat
  /\ heard.all = counters.rateLimited + counters.emergencyRateLimited
                 + counters.invalidFrames + consumed + accepted

\* registryVars
RegistryPart ==
  /\ categories \in Seq({SystemCategory} \cup ApplicationCategories)
  /\ isoTpAttached \in BOOLEAN
  /\ categories # <<>>
  /\ RegistryIsSound

LivenessPart == clientOnline \in BOOLEAN /\ clientLivenessTimer \in BOOLEAN

IInv ==
  /\ SendPart
  /\ SequencePart
  /\ RatePart
  /\ AccountPart
  /\ RegistryPart
  /\ LivenessPart

-----------------------------------------------------------------------------
(* Frames the server sends *)

LEMMA PrioritiesSent ==
  /\ ApplicationPriorities \subseteq Priorities
  /\ Priority.response \in Priorities
  /\ Priority.heartbeat \in Priorities
<1>1. /\ DOMAIN Priority = {"emergency", "command", "response", "telemetry", "heartbeat"}
      /\ Priority["emergency"] = 0 /\ Priority["command"] = 4
      /\ Priority["response"] = 8 /\ Priority["telemetry"] = 12
      /\ Priority["heartbeat"] = 16
  BY DEF Priority
<1>2. {0, 4, 8, 12, 16} \subseteq Priorities
  BY <1>1 DEF Priorities
<1>3. QED
  BY <1>1, <1>2, ServerAssumption

\* Every frame the server builds is one of SentFrames; only the heartbeat is a
\* heartbeat.
LEMMA BuiltFrames ==
  /\ Heartbeat \in SentFrames
  /\ Heartbeat.kind = "heartbeat"
  /\ CategoryList \in SentFrames
  /\ CategoryList.kind # "heartbeat"
  /\ \A p \in ApplicationPriorities : Other(p) \in SentFrames /\ Other(p).kind # "heartbeat"
  /\ \A status \in {"invalidPayload", "unknownCommand", "sequenceError"},
        expected \in SequenceNumbers :
       /\ CommandAck(status, expected) \in SentFrames
       /\ CommandAck(status, expected).kind # "heartbeat"
<1>1. Heartbeat \in SentFrames /\ Heartbeat.kind = "heartbeat"
  BY PrioritiesSent DEF Heartbeat, SentFrames
<1>2. CategoryList \in SentFrames /\ CategoryList.kind # "heartbeat"
  BY PrioritiesSent DEF CategoryList, SentFrames
<1>3. \A p \in ApplicationPriorities : Other(p) \in SentFrames /\ Other(p).kind # "heartbeat"
  BY PrioritiesSent DEF Other, SentFrames
<1>4. \A status \in {"invalidPayload", "unknownCommand", "sequenceError"},
         expected \in SequenceNumbers :
        /\ CommandAck(status, expected) \in SentFrames
        /\ CommandAck(status, expected).kind # "heartbeat"
  BY PrioritiesSent DEF CommandAck, SentFrames
<1>5. QED
  BY <1>1, <1>2, <1>3, <1>4

LEMMA SentPriorities == \A f \in SentFrames : f.priority \in Priorities
BY DEF SentFrames

\* What the transport is offered is as long as what was sent.
LEMMA OfferedLength ==
  ASSUME NEW frames \in Seq(SentFrames)
  PROVE  Len([n \in 1 .. Len(frames) |-> frames[n].priority]) = Len(frames)
<1> DEFINE offered == [n \in 1 .. Len(frames) |-> frames[n].priority]
<1>1. Len(frames) \in Nat /\ frames \in [1 .. Len(frames) -> SentFrames]
  BY LenProperties
<1>2. \A n \in 1 .. Len(frames) : frames[n].priority \in Priorities
  BY <1>1, SentPriorities
<1>3. offered \in Seq(Priorities)
  BY <1>1, <1>2, SMT
<1>4. Len(offered) \in Nat /\ DOMAIN offered = 1 .. Len(offered)
  BY <1>3, LenProperties
<1>5. 1 .. Len(offered) = 1 .. Len(frames)
  BY <1>4
<1>6. Len(offered) = Len(frames)
  BY <1>1, <1>4, <1>5
<1>7. QED
  BY <1>6

-----------------------------------------------------------------------------
(* The transport *)

\* One more frame: of an earlier one the transport says at most that it is lost.
LEMMA OfferEffects ==
  ASSUME SendTypes, NEW frame \in SentFrames, SendFrame(frame)
  PROVE  /\ SendTypes'
         /\ Len(sent) \in Nat
         /\ Len(sent') = Len(sent) + 1
         /\ \A n \in 1 .. Len(sent) : sent'[n] = sent[n]
         /\ sent'[Len(sent) + 1] = frame
         /\ \A n \in 1 .. Len(sent) : outcome'[n] \in {outcome[n], "lost"}
<1> DEFINE k == Len(sent) + 1
           new == [no |-> k, priority |-> frame.priority]
<1>1. /\ sent \in Seq(SentFrames)
      /\ Len(sent) \in Nat
      /\ sent' = Append(sent, frame)
  BY LenProperties DEF SendTypes, SendFrame
<1>2. /\ sent' \in Seq(SentFrames)
      /\ Len(sent') = k
      /\ \A n \in 1 .. Len(sent) : sent'[n] = sent[n]
      /\ sent'[k] = frame
  BY <1>1
<1>3. /\ Len(sent) < MaxSends
      /\ \/ Transport!Start(new)
         \/ Transport!Wait(new)
         \/ Transport!TakePlace(new)
         \/ Transport!Refuse(new)
  BY <1>1, OfferedLength DEF SendFrame, Transport!Offer
<1>4. /\ k \in 1 .. MaxSends
      /\ Len(sent') <= MaxSends
      /\ 1 .. Len(sent) \subseteq (1 .. MaxSends) \ {k}
  BY <1>1, <1>2, <1>3, ServerAssumption
<1>5. new \in Transport!Frames
  BY <1>4, SentPriorities DEF Transport!Frames, Transport!Calls
<1>6. outcome \in [1 .. MaxSends -> Transport!Outcomes]
  BY DEF SendTypes
<1>7. /\ outcome' \in [1 .. MaxSends -> Transport!Outcomes]
      /\ \A n \in 1 .. MaxSends : n # k => outcome'[n] \in {outcome[n], "lost"}
      /\ onWay' \in {onWay, new}
      /\ waiting' \subseteq waiting \cup {new}
  <2>1. CASE \E result \in {"held", "refused"} :
               /\ outcome' = [outcome EXCEPT ![k] = result]
               /\ onWay' \in {onWay, new}
               /\ waiting' \in {waiting, waiting \cup {new}}
    BY <1>4, <1>6, <2>1 DEF Transport!Outcomes
  <2>2. CASE Transport!TakePlace(new)
    <3>1. PICK last \in waiting :
            /\ outcome' = [outcome EXCEPT ![last.no] = "lost", ![k] = "held"]
            /\ onWay' = onWay
            /\ waiting' = (waiting \ {last}) \cup {new}
      BY <2>2 DEF Transport!TakePlace
    <3>2. outcome' \in [1 .. MaxSends -> Transport!Outcomes]
      BY <1>4, <1>6, <3>1 DEF Transport!Outcomes
    <3>3. \A n \in 1 .. MaxSends : n # k => outcome'[n] \in {outcome[n], "lost"}
      BY <1>6, <3>1
    <3>4. QED
      BY <3>1, <3>2, <3>3
  <2>3. QED
    BY <1>3, <2>1, <2>2 DEF Transport!Start, Transport!Wait, Transport!Refuse
<1>8. SendTypes'
  BY <1>2, <1>4, <1>5, <1>7 DEF SendTypes
<1>9. QED
  BY <1>1, <1>2, <1>4, <1>7, <1>8

\* The frame on its way is concluded: nothing is held by it that was not.
LEMMA FinishEffects ==
  ASSUME SendTypes, UNCHANGED sent,
         NEW result \in {"delivered", "lost"}, Transport!Finish(result)
  PROVE  /\ SendTypes'
         /\ \A n \in 1 .. Len(sent) : outcome'[n] \in {outcome[n], "delivered", "lost"}
<1>1. /\ outcome' = [outcome EXCEPT ![onWay.no] = result]
      /\ outcome \in [1 .. MaxSends -> Transport!Outcomes]
  BY DEF Transport!Finish, SendTypes
<1>2. outcome' \in [1 .. MaxSends -> Transport!Outcomes]
  BY <1>1 DEF Transport!Outcomes
<1>3. 1 .. Len(sent) \subseteq 1 .. MaxSends
  BY ServerAssumption, LenProperties DEF SendTypes
<1>4. \A n \in 1 .. Len(sent) : outcome'[n] \in {outcome[n], "delivered", "lost"}
  BY <1>1, <1>3
<1>5. /\ onWay' \in waiting \cup {NoFrame}
      /\ waiting' \subseteq waiting
  BY DEF Transport!Finish, Transport!Advance
<1>6. SendTypes'
  BY <1>2, <1>5 DEF SendTypes
<1>7. QED
  BY <1>4, <1>6

-----------------------------------------------------------------------------
(* The heartbeat *)

\* One element or none, without counting.
LEMMA NoneOrOne ==
  ASSUME NEW n \in Nat, NEW S \in SUBSET (1 .. n), NEW one \in BOOLEAN
  PROVE  Cardinality(S) = (IF one THEN 1 ELSE 0)
           <=> IF one THEN \E x : S = {x} ELSE S = {}
<1>1. IsFiniteSet(1 .. n)
  BY FS_Interval
<1>2. IsFiniteSet(S)
  BY <1>1, FS_Subset
<1>3. Cardinality(S) = 0 <=> S = {}
  BY <1>2, FS_EmptySet
<1>4. Cardinality(S) = 1 <=> \E x : S = {x}
  BY <1>2, FS_Singleton
<1>5. QED
  BY <1>3, <1>4

\* onDone clears heartbeatPending in the step in which the heartbeat is let go.
LEMMA OnDoneKeepsCount ==
  ASSUME SendTypes, SendTypes', OneHeartbeatPending, OnDone,
         heartbeatPending \in BOOLEAN,
         HeldHeartbeats' = {n \in HeldHeartbeats : outcome'[n] = "held"}
  PROVE  heartbeatPending' \in BOOLEAN /\ OneHeartbeatPending'
<1>1. HeartbeatDone <=> \E n \in HeldHeartbeats : outcome'[n] # "held"
  BY DEF HeartbeatDone, HeldHeartbeats
<1>2. heartbeatPending' = (heartbeatPending /\ ~HeartbeatDone)
  BY DEF OnDone
<1>3. /\ Len(sent) \in Nat /\ HeldHeartbeats \in SUBSET (1 .. Len(sent))
      /\ Len(sent') \in Nat /\ HeldHeartbeats' \in SUBSET (1 .. Len(sent'))
  BY LenProperties DEF SendTypes, HeldHeartbeats
<1>4. IF heartbeatPending THEN \E n : HeldHeartbeats = {n} ELSE HeldHeartbeats = {}
  BY <1>3, NoneOrOne DEF OneHeartbeatPending
<1>5. IF heartbeatPending' THEN \E n : HeldHeartbeats' = {n} ELSE HeldHeartbeats' = {}
  BY <1>1, <1>2, <1>4
<1>6. OneHeartbeatPending'
  BY <1>2, <1>3, <1>5, NoneOrOne DEF OneHeartbeatPending
<1>7. QED
  BY <1>2, <1>6

\* What any part of the server may do to the transport in a step.
Sends ==
  \/ SendNothing
  \/ \E frame \in SentFrames : frame.kind # "heartbeat" /\ Send(frame)
  \/ SendHeartbeat

LEMMA SendKeepsPart ==
  ASSUME SendPart, NEW frame \in SentFrames, frame.kind # "heartbeat", Send(frame)
  PROVE  SendPart'
<1>1. /\ SendTypes'
      /\ Len(sent) \in Nat
      /\ Len(sent') = Len(sent) + 1
      /\ \A n \in 1 .. Len(sent) : sent'[n] = sent[n]
      /\ sent'[Len(sent) + 1] = frame
      /\ \A n \in 1 .. Len(sent) : outcome'[n] \in {outcome[n], "lost"}
  BY OfferEffects DEF Send, SendPart
<1>2. 1 .. Len(sent') = 1 .. Len(sent) \cup {Len(sent) + 1}
  BY <1>1
<1>3. HeldHeartbeats' = {n \in HeldHeartbeats : outcome'[n] = "held"}
  BY <1>1, <1>2 DEF HeldHeartbeats
<1>4. heartbeatPending' \in BOOLEAN /\ OneHeartbeatPending'
  BY <1>1, <1>3, OnDoneKeepsCount DEF Send, SendPart
<1>5. heartbeatTimer' \in BOOLEAN
  BY DEF Send, OnSendNotification, SendPart
<1>6. QED
  BY <1>1, <1>4, <1>5 DEF SendPart

LEMMA SendHeartbeatKeepsPart ==
  ASSUME SendPart, SendHeartbeat
  PROVE  SendPart'
<1>1. CASE heartbeatPending /\ UNCHANGED <<sendVars, heartbeatPending>>
  BY <1>1 DEF SendHeartbeat, SendPart, SendTypes, sendVars, OneHeartbeatPending,
              HeldHeartbeats
<1>2. CASE /\ ~heartbeatPending
           /\ SendFrame(Heartbeat)
           /\ heartbeatPending' = Taken
  <2> DEFINE k == Len(sent) + 1
  <2>1. /\ SendTypes'
        /\ Len(sent) \in Nat
        /\ Len(sent') = k
        /\ \A n \in 1 .. Len(sent) : sent'[n] = sent[n]
        /\ sent'[k] = Heartbeat
        /\ \A n \in 1 .. Len(sent) : outcome'[n] \in {outcome[n], "lost"}
    BY <1>2, OfferEffects, BuiltFrames DEF SendPart
  <2>2. 1 .. Len(sent') = 1 .. Len(sent) \cup {k}
    BY <2>1
  <2>3. /\ HeldHeartbeats \in SUBSET (1 .. Len(sent))
        /\ HeldHeartbeats' \in SUBSET (1 .. k)
    BY <2>1 DEF HeldHeartbeats
  <2>4. HeldHeartbeats = {}
    BY <1>2, <2>1, <2>3, NoneOrOne DEF OneHeartbeatPending, SendPart
  <2>5. HeldHeartbeats' = IF Taken THEN {k} ELSE {}
    BY <2>1, <2>2, <2>4, BuiltFrames DEF HeldHeartbeats, Taken
  <2>6. heartbeatPending' \in BOOLEAN
    BY <1>2 DEF Taken
  <2>7. k \in Nat
    BY <2>1
  <2>8. IF heartbeatPending' THEN \E n : HeldHeartbeats' = {n} ELSE HeldHeartbeats' = {}
    BY <1>2, <2>5
  <2>9. OneHeartbeatPending'
    BY <2>3, <2>6, <2>7, <2>8, NoneOrOne DEF OneHeartbeatPending
  <2>10. QED
    BY <2>1, <2>6, <2>9 DEF SendHeartbeat, SendPart
<1>3. QED
  BY <1>1, <1>2 DEF SendHeartbeat

LEMMA SendsKeepPart ==
  ASSUME SendPart, Sends
  PROVE  SendPart'
<1>1. CASE SendNothing
  BY <1>1 DEF SendNothing, SendPart, SendTypes, sendVars, heartbeatVars,
              OneHeartbeatPending, HeldHeartbeats
<1>2. QED
  BY <1>1, SendKeepsPart, SendHeartbeatKeepsPart DEF Sends

-----------------------------------------------------------------------------
(* Frames the server receives *)

\* What the proofs use of a frame; DispatchPdu's frames have it as well.
IsFrame(frame) ==
  /\ frame.emergency \in BOOLEAN
  /\ frame.payload \in SequenceNumbers \cup {NoPayload}

LEMMA ReceivedAreFrames ==
  ASSUME NEW frame \in ReceivedFrames
  PROVE  /\ IsFrame(frame)
         /\ \A first \in SequenceNumbers : IsFrame([frame EXCEPT !.payload = first])
<1>1. IsFrame(frame)
  BY DEF IsFrame, ReceivedFrames
<1>2. ASSUME NEW first \in SequenceNumbers
      PROVE  IsFrame([frame EXCEPT !.payload = first])
  BY <1>1 DEF IsFrame, ReceivedFrames
<1>3. QED
  BY <1>1, <1>2

LEMMA NextNumber ==
  ASSUME lastSequenceNumber \in SequenceNumbers
  PROVE  0 \in SequenceNumbers /\ ExpectedSequence \in SequenceNumbers
BY ServerAssumption, SMT DEF SequenceNumbers, ExpectedSequence

\* A rejection is one invalid frame, answered.
LEMMA RejectEffects ==
  ASSUME NEW status \in {"invalidPayload", "unknownCommand", "sequenceError"},
         NEW expected \in SequenceNumbers, RejectCommand(status, expected)
  PROVE  /\ Sends
         /\ counters' = [counters EXCEPT !.invalidFrames = @ + 1]
BY BuiltFrames DEF RejectCommand, Sends

\* A command that is handled: its number is the expected one or it is urgent.
Commits(frame) ==
  /\ lastSequenceNumber' = frame.payload
  /\ sequenceInitialized' = TRUE
  /\ commands' = Append(commands, [emergency |-> frame.emergency,
                                   number |-> frame.payload])
  /\ frame.payload \in SequenceNumbers
  /\ frame.emergency \/ IsExpectedSequence(frame.payload)

\* A frame that is dispatched is either invalid or accepted, and is counted so.
LEMMA DispatchEffects ==
  ASSUME NEW frame, IsFrame(frame), NEW isPdu, lastSequenceNumber \in SequenceNumbers,
         Dispatch(frame, isPdu)
  PROVE  /\ Sends
         /\ \/ UNCHANGED <<sequenceVars, commands>>
            \/ Commits(frame)
         /\ \/ /\ counters' = [counters EXCEPT !.invalidFrames = @ + 1]
               /\ UNCHANGED <<livenessVars, accepted>>
            \/ /\ counters' \in {counters, [counters EXCEPT !.emergencyAdmitted = @ + 1]}
               /\ MarkClientAlive
               /\ accepted' = accepted + 1
<1>1. CASE Unrouted(frame) /\ SendNothing
           /\ counters' = [counters EXCEPT !.invalidFrames = @ + 1]
           /\ UNCHANGED <<sequenceVars, livenessVars, acceptedVars>>
  BY <1>1 DEF Sends, acceptedVars
<1>2. CASE /\ AdmissionError(frame) # "none"
           /\ RejectCommand(AdmissionError(frame),
                            IF AdmissionError(frame) = "sequenceError"
                            THEN ExpectedSequence ELSE 0)
           /\ UNCHANGED <<sequenceVars, livenessVars, acceptedVars>>
  <2>1. AdmissionError(frame) \in {"invalidPayload", "unknownCommand", "sequenceError"}
    BY <1>2 DEF AdmissionError
  <2>2. QED
    BY <1>2, <2>1, NextNumber, RejectEffects DEF acceptedVars
<1>3. CASE /\ AdmissionError(frame) = "none"
           /\ \E result \in Results(frame, isPdu) : Conclude(frame, result)
  <2>1. CASE \E status \in {"invalidPayload", "unknownCommand"} :
               /\ RejectCommand(status, 0)
               /\ UNCHANGED <<sequenceVars, livenessVars, acceptedVars>>
    BY <2>1, NextNumber, RejectEffects DEF acceptedVars
  <2>2. CASE AcceptCommand(frame)
    <3>1. Sends
      BY <2>2, BuiltFrames DEF AcceptCommand, HandleMessage, Sends
    <3>2. CASE RequiresSequenceValidation(frame.category)
      <4>1. /\ frame.payload # NoPayload
            /\ frame.emergency \/ IsExpectedSequence(frame.payload)
        BY <1>3, <3>2 DEF AdmissionError
      <4>2. Commits(frame)
        BY <2>2, <3>2, <4>1 DEF AcceptCommand, CommitSequence, Commits, IsFrame
      <4>3. QED
        BY <2>2, <3>1, <4>2 DEF AcceptCommand
    <3>3. CASE ~RequiresSequenceValidation(frame.category)
      BY <2>2, <3>1, <3>3 DEF AcceptCommand, CommitSequence
    <3>4. QED
      BY <3>2, <3>3
  <2>3. QED
    BY <1>3, <2>1, <2>2 DEF Conclude
<1>4. QED
  BY <1>1, <1>2, <1>3 DEF Dispatch

\* The numbers of the handled commands stay in order.
LEMMA CommitKeepsPart ==
  ASSUME SequencePart, NEW frame, IsFrame(frame), Commits(frame)
  PROVE  SequencePart'
<1> DEFINE command == [emergency |-> frame.emergency, number |-> frame.payload]
           k == Len(commands) + 1
<1>1. command \in CommandRecord
  BY DEF IsFrame, Commits, CommandRecord
<1>2. /\ Len(commands) \in Nat
      /\ commands' \in Seq(CommandRecord)
      /\ Len(commands') = k
      /\ \A i \in 1 .. Len(commands) : commands'[i] = commands[i]
      /\ commands'[k] = command
  BY <1>1, LenProperties DEF Commits, SequencePart
<1>3. commands' # <<>>
  BY <1>2
<1>4. ASSUME NEW i \in 2 .. k
      PROVE  \/ commands'[i].emergency
             \/ commands'[i].number = (commands'[i - 1].number + 1) % SequenceModulus
  <2>1. CASE i = k
    <3>1. /\ Len(commands) \in 1 .. Len(commands)
          /\ commands'[i - 1] = commands[Len(commands)]
      BY <1>2, <2>1
    <3>2. sequenceInitialized /\ lastSequenceNumber = commands[Len(commands)].number
      BY <1>2, <3>1 DEF SequencePart, CommandsInOrder
    <3>3. CASE frame.emergency
      BY <1>2, <2>1, <3>3
    <3>4. CASE IsExpectedSequence(frame.payload)
      <4>1. frame.payload = (lastSequenceNumber + 1) % SequenceModulus
        BY <3>2, <3>4 DEF IsExpectedSequence, ExpectedSequence
      <4>2. QED
        BY <1>2, <2>1, <3>1, <3>2, <4>1
    <3>5. QED
      BY <3>3, <3>4 DEF Commits
  <2>2. CASE i # k
    <3>1. i \in 2 .. Len(commands) /\ i - 1 \in 1 .. Len(commands)
      BY <1>2, <2>2
    <3>2. QED
      BY <1>2, <3>1 DEF SequencePart, CommandsInOrder
  <2>3. QED
    BY <2>1, <2>2
<1>5. CommandsInOrder'
  BY <1>2, <1>3, <1>4 DEF Commits, CommandsInOrder
<1>6. QED
  BY <1>2, <1>5 DEF Commits, SequencePart

-----------------------------------------------------------------------------
(* The budgets and the counts *)

LEMMA HearEffects ==
  ASSUME heard \in HeardRecord, NEW frame, Hear(frame)
  PROVE  /\ heard' \in HeardRecord
         /\ heard'.all = heard.all + 1
         /\ heard'.emergency = heard.emergency + (IF frame.emergency THEN 1 ELSE 0)
         /\ heard'.ordinary = heard.ordinary + (IF frame.emergency THEN 0 ELSE 1)
<1>1. /\ heard = [all |-> heard.all, emergency |-> heard.emergency,
                  ordinary |-> heard.ordinary]
      /\ heard.all \in Nat /\ heard.emergency \in Nat /\ heard.ordinary \in Nat
  BY DEF HeardRecord
<1>2. CASE frame.emergency
  <2>1. heard' = [heard EXCEPT !.all = @ + 1, !.emergency = @ + 1]
    BY <1>2, Zenon DEF Hear
  <2>2. heard' = [all |-> heard.all + 1, emergency |-> heard.emergency + 1,
                  ordinary |-> heard.ordinary]
    BY <1>1, <2>1
  <2>3. QED
    BY <1>1, <1>2, <2>2 DEF HeardRecord
<1>3. CASE ~frame.emergency
  <2>1. heard' = [heard EXCEPT !.all = @ + 1, !.ordinary = @ + 1]
    BY <1>3, Zenon DEF Hear
  <2>2. heard' = [all |-> heard.all + 1, emergency |-> heard.emergency,
                  ordinary |-> heard.ordinary + 1]
    BY <1>1, <2>1
  <2>3. QED
    BY <1>1, <1>3, <2>2 DEF HeardRecord
<1>4. QED
  BY <1>2, <1>3

\* A frame within its budget is charged to it; one over its budget finds the
\* budget used up.
LEMMA ChargingKeepsPart ==
  ASSUME RatePart, NEW frame, Hear(frame),
         \/ HasBudget(frame) /\ ConsumeBudget(frame)
         \/ ~HasBudget(frame) /\ UNCHANGED rateVars
  PROVE  RatePart'
<1>1. /\ heard.emergency \in Nat /\ heard.ordinary \in Nat
      /\ maxMessagesPerSecond \in Nat /\ maxEmergencyMessagesPerSecond \in Nat
  BY ServerAssumption DEF RatePart, HeardRecord
<1>2. /\ heard' \in HeardRecord
      /\ heard'.emergency = heard.emergency + (IF frame.emergency THEN 1 ELSE 0)
      /\ heard'.ordinary = heard.ordinary + (IF frame.emergency THEN 0 ELSE 1)
  BY HearEffects DEF RatePart
<1>3. CASE HasBudget(frame) /\ ConsumeBudget(frame)
  BY <1>1, <1>2, <1>3 DEF RatePart, HasBudget, ConsumeBudget, BudgetsAreSeparate, Least
<1>4. CASE ~HasBudget(frame) /\ UNCHANGED rateVars
  BY <1>1, <1>2, <1>4 DEF RatePart, HasBudget, rateVars, BudgetsAreSeparate, Least
<1>5. QED
  BY <1>3, <1>4

\* One frame heard, one frame counted.
LEMMA CountingKeepsPart ==
  ASSUME AccountPart, NEW frame, Hear(frame),
         \/ /\ counters' \in {[counters EXCEPT !.emergencyRateLimited = @ + 1],
                              [counters EXCEPT !.rateLimited = @ + 1],
                              [counters EXCEPT !.invalidFrames = @ + 1]}
            /\ UNCHANGED <<consumed, accepted>>
         \/ consumed' = consumed + 1 /\ UNCHANGED <<counters, accepted>>
         \/ /\ counters' \in {counters, [counters EXCEPT !.emergencyAdmitted = @ + 1]}
            /\ accepted' = accepted + 1
            /\ UNCHANGED consumed
  PROVE  AccountPart'
<1>1. heard' \in HeardRecord /\ heard'.all = heard.all + 1
  BY HearEffects DEF AccountPart
<1>2. heard.all \in Nat
  BY DEF AccountPart, HeardRecord
<1>3. CASE /\ counters' \in {[counters EXCEPT !.emergencyRateLimited = @ + 1],
                             [counters EXCEPT !.rateLimited = @ + 1],
                             [counters EXCEPT !.invalidFrames = @ + 1]}
           /\ UNCHANGED <<consumed, accepted>>
  BY <1>1, <1>2, <1>3 DEF AccountPart, CounterRecord
<1>4. CASE consumed' = consumed + 1 /\ UNCHANGED <<counters, accepted>>
  BY <1>1, <1>2, <1>4 DEF AccountPart, CounterRecord
<1>5. CASE /\ counters' \in {counters, [counters EXCEPT !.emergencyAdmitted = @ + 1]}
           /\ accepted' = accepted + 1
           /\ UNCHANGED consumed
  BY <1>1, <1>2, <1>5 DEF AccountPart, CounterRecord
<1>6. QED
  BY <1>3, <1>4, <1>5

-----------------------------------------------------------------------------
(* The registry *)

LEMMA RegisterKeepsPart ==
  ASSUME RegistryPart, NEW category \in {SystemCategory} \cup ApplicationCategories,
         RegisterCategory(category)
  PROVE  RegistryPart'
<1> DEFINE k == Len(categories) + 1
<1>1. /\ Len(categories) \in Nat
      /\ categories' \in Seq({SystemCategory} \cup ApplicationCategories)
      /\ Len(categories') = k
      /\ \A i \in 1 .. Len(categories) : categories'[i] = categories[i]
      /\ categories'[k] = category
  BY LenProperties DEF RegisterCategory, RegistryPart
<1>2. \A i \in 1 .. Len(categories) : categories[i] # category
  BY DEF RegisterCategory, IsRegistered
<1>3. \A i, j \in 1 .. k : categories'[i] = categories'[j] => i = j
  BY <1>1, <1>2 DEF RegistryPart, RegistryIsSound
<1>4. k <= canMaxRegisteredCategories
  BY <1>1, ServerAssumption DEF RegisterCategory
<1>5. categories'[1] = SystemCategory
  BY <1>1, EmptySeq DEF RegistryPart, RegistryIsSound
<1>6. categories' # <<>>
  BY <1>1
<1>7. QED
  BY <1>1, <1>3, <1>4, <1>5, <1>6 DEF RegisterCategory, RegistryPart, RegistryIsSound

\* The sequence without its i-th element.
LEMMA ErasedElement ==
  ASSUME NEW S, NEW seq \in Seq(S), NEW i \in 1 .. Len(seq)
  PROVE  LET rest == SubSeq(seq, 1, i - 1) \o SubSeq(seq, i + 1, Len(seq))
         IN  /\ rest \in Seq(S)
             /\ Len(rest) = Len(seq) - 1
             /\ \A j \in 1 .. Len(seq) - 1 : rest[j] = IF j < i THEN seq[j] ELSE seq[j + 1]
<1> DEFINE front == SubSeq(seq, 1, i - 1)
           back == SubSeq(seq, i + 1, Len(seq))
           rest == front \o back
<1>1. /\ Len(seq) \in Nat /\ i \in Nat /\ 1 <= i /\ i <= Len(seq)
      /\ \A j \in 1 .. Len(seq) : seq[j] \in S
  BY LenProperties
<1>2. front \in Seq(S) /\ back \in Seq(S)
  BY <1>1, SubSeqProperties
<1>3. Len(front) = i - 1 /\ \A j \in 1 .. i - 1 : front[j] = seq[j]
  BY <1>1
<1>4. Len(back) = Len(seq) - i /\ \A j \in 1 .. Len(seq) - i : back[j] = seq[i + j]
  BY <1>1
<1> HIDE DEF front, back
<1>5. /\ rest \in Seq(S)
      /\ Len(rest) = Len(front) + Len(back)
      /\ \A j \in 1 .. Len(front) + Len(back) :
           rest[j] = IF j <= Len(front) THEN front[j] ELSE back[j - Len(front)]
  BY <1>2, ConcatProperties
<1> HIDE DEF rest
<1>6. Len(rest) = Len(seq) - 1
  BY <1>1, <1>3, <1>4, <1>5
<1>7. ASSUME NEW j \in 1 .. Len(seq) - 1
      PROVE  rest[j] = IF j < i THEN seq[j] ELSE seq[j + 1]
  <2>1. CASE j < i
    <3>1. j \in 1 .. i - 1 /\ j \in 1 .. Len(front) + Len(back) /\ j <= Len(front)
      BY <1>1, <1>3, <1>4, <2>1
    <3>2. rest[j] = front[j]
      BY <1>5, <3>1
    <3>3. QED
      BY <1>3, <2>1, <3>1, <3>2
  <2>2. CASE ~(j < i)
    <3>1. j - (i - 1) \in 1 .. Len(seq) - i /\ i + (j - (i - 1)) = j + 1
      BY <1>1, <2>2
    <3>2. back[j - (i - 1)] = seq[j + 1]
      BY <1>4, <3>1
    <3>3. rest[j] = back[j - (i - 1)]
      BY <1>1, <1>3, <1>4, <1>5, <2>2
    <3>4. QED
      BY <2>2, <3>2, <3>3
  <2>3. QED
    BY <2>1, <2>2
<1>8. QED
  BY <1>5, <1>6, <1>7 DEF rest, front, back

LEMMA UnregisterKeepsPart ==
  ASSUME RegistryPart, NEW category, UnregisterCategory(category)
  PROVE  RegistryPart'
<1> DEFINE Ids == {SystemCategory} \cup ApplicationCategories
           k == Len(categories)
<1>1. PICK i \in 1 .. k :
        /\ categories[i] = category
        /\ categories' = SubSeq(categories, 1, i - 1) \o SubSeq(categories, i + 1, k)
  BY DEF UnregisterCategory
<1>2. k \in Nat /\ categories \in Seq(Ids)
  BY LenProperties DEF RegistryPart
<1>3. /\ categories' \in Seq(Ids)
      /\ Len(categories') = k - 1
      /\ \A j \in 1 .. k - 1 : categories'[j] = IF j < i THEN categories[j]
                                                ELSE categories[j + 1]
  BY <1>1, <1>2, ErasedElement
<1>4. 1 < i
  BY <1>1 DEF UnregisterCategory, RegistryPart, RegistryIsSound
<1>5. \A j, l \in 1 .. k - 1 : categories'[j] = categories'[l] => j = l
  <2> SUFFICES ASSUME NEW j \in 1 .. k - 1, NEW l \in 1 .. k - 1,
                      categories'[j] = categories'[l]
               PROVE  j = l
    OBVIOUS
  <2> DEFINE At(n) == IF n < i THEN n ELSE n + 1
  <2>1. At(j) \in 1 .. k /\ At(l) \in 1 .. k
    BY <1>1, <1>2
  <2>2. categories'[j] = categories[At(j)] /\ categories'[l] = categories[At(l)]
    BY <1>3
  <2>3. At(j) = At(l)
    BY <2>1, <2>2 DEF RegistryPart, RegistryIsSound
  <2>4. QED
    BY <1>1, <1>2, <2>3
<1>6. k - 1 <= canMaxRegisteredCategories /\ k - 1 > 0
  BY <1>1, <1>2, <1>4, ServerAssumption DEF RegistryPart, RegistryIsSound
<1>7. categories'[1] = SystemCategory
  <2>1. 1 \in 1 .. k - 1
    BY <1>2, <1>6
  <2>2. categories'[1] = categories[1]
    BY <1>3, <1>4, <2>1
  <2>3. QED
    BY <2>2 DEF RegistryPart, RegistryIsSound
<1>8. categories' # <<>>
  BY <1>3, <1>6
<1>9. QED
  BY <1>3, <1>5, <1>6, <1>7, <1>8 DEF UnregisterCategory, RegistryPart, RegistryIsSound

-----------------------------------------------------------------------------
(* The steps *)

\* What is said of variables that do not change stays.
LEMMA UnchangedParts ==
  /\ SendPart /\ UNCHANGED <<sendVars, heartbeatVars>> => SendPart'
  /\ SequencePart /\ UNCHANGED <<sequenceVars, commands>> => SequencePart'
  /\ RatePart /\ UNCHANGED <<rateVars, heard>> => RatePart'
  /\ AccountPart /\ UNCHANGED <<heard, counters, consumed, accepted>> => AccountPart'
  /\ RegistryPart /\ UNCHANGED registryVars => RegistryPart'
  /\ LivenessPart /\ UNCHANGED livenessVars => LivenessPart'
<1>1. SendPart /\ UNCHANGED <<sendVars, heartbeatVars>> => SendPart'
  BY SendsKeepPart DEF Sends, SendNothing
<1>2. SequencePart /\ UNCHANGED <<sequenceVars, commands>> => SequencePart'
  BY DEF SequencePart, CommandsInOrder, sequenceVars
<1>3. RatePart /\ UNCHANGED <<rateVars, heard>> => RatePart'
  BY DEF RatePart, BudgetsAreSeparate, rateVars
<1>4. AccountPart /\ UNCHANGED <<heard, counters, consumed, accepted>> => AccountPart'
  BY DEF AccountPart
<1>5. RegistryPart /\ UNCHANGED registryVars => RegistryPart'
  BY DEF RegistryPart, RegistryIsSound, registryVars
<1>6. LivenessPart /\ UNCHANGED livenessVars => LivenessPart'
  BY DEF LivenessPart, livenessVars
<1>7. QED
  BY <1>1, <1>2, <1>3, <1>4, <1>5, <1>6

LEMMA RefusingKeepsParts ==
  ASSUME IInv, NEW frame, Hear(frame), RefuseOverRate(frame)
  PROVE  SendPart' /\ SequencePart' /\ AccountPart' /\ LivenessPart'
<1>1. /\ Sends
      /\ counters' \in {[counters EXCEPT !.emergencyRateLimited = @ + 1],
                        [counters EXCEPT !.rateLimited = @ + 1]}
      /\ UNCHANGED <<sequenceVars, livenessVars, consumed, accepted, commands>>
  BY DEF RefuseOverRate, Sends, acceptedVars
<1>2. AccountPart'
  BY <1>1, CountingKeepsPart DEF IInv
<1>3. QED
  BY <1>1, <1>2, SendsKeepPart, UnchangedParts DEF IInv

LEMMA ConsumingKeepsParts ==
  ASSUME IInv, NEW frame, Hear(frame),
         consumed' = consumed + 1,
         SendNothing \/ \E p \in ApplicationPriorities : Send(Other(p)),
         UNCHANGED <<sequenceVars, counters, livenessVars, acceptedVars>>
  PROVE  SendPart' /\ SequencePart' /\ AccountPart' /\ LivenessPart'
<1>1. Sends
  BY BuiltFrames DEF Sends
<1>2. UNCHANGED <<accepted, commands>>
  BY DEF acceptedVars
<1>3. AccountPart'
  BY <1>2, CountingKeepsPart DEF IInv
<1>4. QED
  BY <1>1, <1>2, <1>3, SendsKeepPart, UnchangedParts DEF IInv

LEMMA DispatchKeepsParts ==
  ASSUME IInv, NEW frame, Hear(frame), UNCHANGED consumed,
         NEW dispatched, IsFrame(dispatched), NEW isPdu, Dispatch(dispatched, isPdu)
  PROVE  SendPart' /\ SequencePart' /\ AccountPart' /\ LivenessPart'
<1>1. /\ Sends
      /\ \/ UNCHANGED <<sequenceVars, commands>>
         \/ Commits(dispatched)
      /\ \/ /\ counters' = [counters EXCEPT !.invalidFrames = @ + 1]
            /\ UNCHANGED <<livenessVars, accepted>>
         \/ /\ counters' \in {counters, [counters EXCEPT !.emergencyAdmitted = @ + 1]}
            /\ MarkClientAlive
            /\ accepted' = accepted + 1
  BY DispatchEffects DEF IInv, SequencePart
<1>2. SendPart'
  BY <1>1, SendsKeepPart DEF IInv
<1>3. SequencePart'
  BY <1>1, CommitKeepsPart, UnchangedParts DEF IInv
<1>4. AccountPart'
  BY <1>1, CountingKeepsPart DEF IInv
<1>5. LivenessPart'
  BY <1>1, UnchangedParts DEF IInv, MarkClientAlive, LivenessPart
<1>6. QED
  BY <1>2, <1>3, <1>4, <1>5

LEMMA ReceivingPreserves ==
  ASSUME IInv, NEW frame \in ReceivedFrames, ProcessReceivedMessage(frame)
  PROVE  IInv'
<1>1. /\ IsFrame(frame)
      /\ \A first \in SequenceNumbers : IsFrame([frame EXCEPT !.payload = first])
  BY ReceivedAreFrames
<1>2. Hear(frame) /\ UNCHANGED registryVars
  BY DEF ProcessReceivedMessage
<1>3. RatePart'
  BY <1>2, ChargingKeepsPart DEF IInv, ProcessReceivedMessage, RefuseOverRate
<1>4. RegistryPart'
  BY <1>2, UnchangedParts DEF IInv
<1>5. SendPart' /\ SequencePart' /\ AccountPart' /\ LivenessPart'
  <2>1. CASE RefuseOverRate(frame)
    BY <1>2, <2>1, RefusingKeepsParts
  <2>2. CASE Dispatch(frame, FALSE) /\ UNCHANGED consumed
    BY <1>1, <1>2, <2>2, DispatchKeepsParts
  <2>3. CASE ConsumedByIsoTp(frame)
    <3>1. CASE \E first \in SequenceNumbers :
                 /\ Dispatch([frame EXCEPT !.payload = first], TRUE)
                 /\ UNCHANGED consumed
      <4>1. PICK first \in SequenceNumbers :
              /\ Dispatch([frame EXCEPT !.payload = first], TRUE)
              /\ UNCHANGED consumed
        BY <3>1
      <4> DEFINE dispatched == [frame EXCEPT !.payload = first]
      <4>2. IsFrame(dispatched) /\ Dispatch(dispatched, TRUE)
        BY <1>1, <4>1
      <4> HIDE DEF dispatched
      <4>3. QED
        BY <1>2, <4>1, <4>2, DispatchKeepsParts
    <3>2. CASE /\ consumed' = consumed + 1
               /\ SendNothing \/ \E p \in ApplicationPriorities : Send(Other(p))
               /\ UNCHANGED <<sequenceVars, counters, livenessVars, acceptedVars>>
      BY <1>2, <3>2, ConsumingKeepsParts
    <3>3. QED
      BY <2>3, <3>1, <3>2, Zenon DEF ConsumedByIsoTp
  <2>4. QED
    BY <2>1, <2>2, <2>3 DEF ProcessReceivedMessage
<1>6. QED
  BY <1>3, <1>4, <1>5 DEF IInv

\* A new period: both counts of it start at nothing.
LEMMA ResettingPreserves ==
  ASSUME IInv, ResetRateCounter
  PROVE  IInv'
<1>1. /\ maxMessagesPerSecond \in Nat /\ maxEmergencyMessagesPerSecond \in Nat
      /\ heard \in HeardRecord
  BY ServerAssumption DEF IInv, RatePart
<1>2. /\ heard' \in HeardRecord
      /\ heard'.all = heard.all
      /\ heard'.emergency = 0
      /\ heard'.ordinary = 0
  BY <1>1 DEF ResetRateCounter, HeardRecord
<1>3. RatePart'
  BY <1>1, <1>2 DEF ResetRateCounter, RatePart, BudgetsAreSeparate, Least
<1>4. AccountPart'
  BY <1>2 DEF IInv, ResetRateCounter, AccountPart, acceptedVars
<1>5. QED
  BY <1>3, <1>4, UnchangedParts DEF IInv, ResetRateCounter, acceptedVars

LEMMA FrameDonePreserves ==
  ASSUME IInv, FrameDone
  PROVE  IInv'
<1>1. /\ SendTypes'
      /\ \A n \in 1 .. Len(sent) : outcome'[n] \in {outcome[n], "delivered", "lost"}
  BY FinishEffects DEF FrameDone, IInv, SendPart
<1>2. HeldHeartbeats' = {n \in HeldHeartbeats : outcome'[n] = "held"}
  BY <1>1 DEF FrameDone, HeldHeartbeats
<1>3. heartbeatPending' \in BOOLEAN /\ OneHeartbeatPending'
  BY <1>1, <1>2, OnDoneKeepsCount DEF FrameDone, IInv, SendPart
<1>4. SendPart'
  BY <1>1, <1>3 DEF FrameDone, IInv, SendPart
<1>5. QED
  BY <1>4, UnchangedParts DEF FrameDone, IInv, historyVars, acceptedVars

-----------------------------------------------------------------------------
(* The theorems *)

LEMMA InitEstablishes == Init => IInv
<1> SUFFICES ASSUME Init PROVE IInv
  OBVIOUS
<1>1. SendPart
  <2>1. SendTypes
    BY ServerAssumption, EmptySeq
       DEF Init, Transport!Init, Transport!Calls, SendTypes, Transport!Outcomes
  <2>2. HeldHeartbeats = {}
    BY DEF Init, HeldHeartbeats
  <2>3. OneHeartbeatPending
    BY <2>2, FS_EmptySet DEF Init, OneHeartbeatPending
  <2>4. QED
    BY <2>1, <2>3 DEF Init, SendPart
<1>2. SequencePart
  <2>1. commands = <<>> /\ Len(commands) = 0 /\ ~sequenceInitialized
    BY DEF Init
  <2>2. commands \in Seq(CommandRecord)
    BY <2>1
  <2>3. CommandsInOrder
    BY <2>1 DEF CommandsInOrder
  <2>4. lastSequenceNumber \in SequenceNumbers
    BY ServerAssumption DEF Init, SequenceNumbers
  <2>5. QED
    BY <2>1, <2>2, <2>3, <2>4 DEF Init, SequencePart
<1>3. RatePart
  BY ServerAssumption DEF Init, RatePart, BudgetsAreSeparate, Least, HeardRecord
<1>4. AccountPart
  BY DEF Init, AccountPart, HeardRecord, CounterRecord
<1>5. RegistryPart
  <2>1. categories = <<SystemCategory>> /\ isoTpAttached = FALSE
    BY DEF Init
  <2>2. Len(categories) = 1 /\ categories[1] = SystemCategory
    BY <2>1
  <2>3. /\ categories \in Seq({SystemCategory} \cup ApplicationCategories)
        /\ categories # <<>>
    BY <2>1
  <2>4. RegistryIsSound
    BY <2>2, ServerAssumption DEF RegistryIsSound
  <2>5. QED
    BY <2>1, <2>3, <2>4 DEF RegistryPart
<1>6. LivenessPart
  BY DEF Init, LivenessPart
<1>7. QED
  BY <1>1, <1>2, <1>3, <1>4, <1>5, <1>6 DEF IInv

LEMMA Step == IInv /\ [Next]_vars => IInv'
<1> SUFFICES ASSUME IInv, [Next]_vars PROVE IInv'
  OBVIOUS
<1>1. ASSUME NEW frame \in ReceivedFrames, ProcessReceivedMessage(frame) PROVE IInv'
  BY <1>1, ReceivingPreserves
<1>2. CASE HeartbeatTimerExpires
  <2>1. SendPart'
    BY <1>2, SendHeartbeatKeepsPart DEF HeartbeatTimerExpires, IInv
  <2>2. QED
    BY <1>2, <2>1, UnchangedParts
       DEF HeartbeatTimerExpires, IInv, historyVars, acceptedVars
<1>3. CASE ResetRateCounter
  BY <1>3, ResettingPreserves
<1>4. CASE HandleClientTimeout
  <2>1. LivenessPart'
    BY <1>4 DEF HandleClientTimeout, LivenessPart
  <2>2. QED
    BY <1>4, <2>1, UnchangedParts DEF HandleClientTimeout, IInv, historyVars, acceptedVars
<1>5. CASE FrameDone
  BY <1>5, FrameDonePreserves
<1>6. CASE ApplicationSends
  <2>1. SendPart'
    BY <1>6, BuiltFrames, SendKeepsPart DEF ApplicationSends, IInv
  <2>2. QED
    BY <1>6, <2>1, UnchangedParts DEF ApplicationSends, IInv, historyVars, acceptedVars
<1>7. ASSUME NEW category \in {SystemCategory} \cup ApplicationCategories,
             RegisterCategory(category) \/ UnregisterCategory(category)
      PROVE  IInv'
  <2>1. RegistryPart'
    BY <1>7, RegisterKeepsPart, UnregisterKeepsPart DEF IInv
  <2>2. QED
    BY <1>7, <2>1, UnchangedParts
       DEF RegisterCategory, UnregisterCategory, IInv, historyVars, acceptedVars
<1>8. CASE AttachOrDetachIsoTpTransport
  <2>1. RegistryPart'
    BY <1>8 DEF AttachOrDetachIsoTpTransport, IInv, RegistryPart, RegistryIsSound
  <2>2. QED
    BY <1>8, <2>1, UnchangedParts
       DEF AttachOrDetachIsoTpTransport, IInv, historyVars, acceptedVars
<1>9. CASE UNCHANGED vars
  BY <1>9, UnchangedParts DEF vars, IInv, registryVars, historyVars, acceptedVars
<1>10. QED
  BY <1>1, <1>2, <1>3, <1>4, <1>5, <1>6, <1>7, <1>8, <1>9 DEF Next

\* However frames, timers, completions, sends and registrations interleave, the
\* invariant holds.
THEOREM Invariance == Spec => []IInv
BY InitEstablishes, Step, PTL DEF Spec

\* Every variable of the server has its type.
THEOREM TypeCorrectness == Spec => []TypeOK
<1>1. IInv => TypeOK
  BY DEF IInv, SendPart, SendTypes, SequencePart, RatePart, AccountPart,
         RegistryPart, LivenessPart, TypeOK, HeardRecord, CounterRecord, CommandRecord
<1>2. QED
  BY <1>1, Invariance, PTL

\* Whatever else is sent, and whatever the transport displaces, refuses or
\* loses, it never holds two heartbeats and heartbeatPending says whether it
\* holds one: the server does not flood the bus, and it does not wait for an
\* onDone that already ran.
THEOREM HeartbeatsBounded == Spec => []OneHeartbeatPending
<1>1. IInv => OneHeartbeatPending
  BY DEF IInv, SendPart
<1>2. QED
  BY <1>1, Invariance, PTL

\* The commands that are handled follow each other in number, but for the
\* emergencies, whatever is rejected in between.
THEOREM CommandOrder == Spec => []CommandsInOrder
<1>1. IInv => CommandsInOrder
  BY DEF IInv, SequencePart
<1>2. QED
  BY <1>1, Invariance, PTL

\* Each kind of traffic is admitted up to its own limit in a period, whatever
\* arrives of the other.
THEOREM BudgetSeparation == Spec => []BudgetsAreSeparate
<1>1. IInv => BudgetsAreSeparate
  BY DEF IInv, RatePart
<1>2. QED
  BY <1>1, Invariance, PTL

\* Every frame addressed to the node is counted exactly once, and routed by a
\* registry whose ids are unique.
THEOREM FrameAccounting == Spec => []EveryFrameAccountedFor
<1>1. IInv => EveryFrameAccountedFor
  BY DEF IInv, AccountPart, RegistryPart, EveryFrameAccountedFor
<1>2. QED
  BY <1>1, Invariance, PTL

-----------------------------------------------------------------------------
(* The firmware upgrade category, whose handlers the server dispatches to *)

UpgradeFrames == [kind : {"response", "ack"}, no : Nat, status : Upgrade!StatusesOnTheBus]

IsCommand(c) ==
  /\ c.type \in Upgrade!Commands /\ c.no \in 0 .. upgradeCommands
  /\ c.no = 0 <=> c.type = "queryProgress"

UpgradeTypes ==
  /\ upgradeCommands \in Nat
  /\ toServer = Upgrade!NoCommand \/ IsCommand(toServer)
  /\ \A c \in pending : IsCommand(c)
  /\ toClient \in Seq(UpgradeFrames)
  /\ \A i \in 1 .. Len(toClient) : toClient[i].no <= upgradeCommands
  /\ upgradeHeard \in [no : Nat, response : Upgrade!Statuses \cup {"none"},
                       ack : Upgrade!Statuses \cup {"none"}]
  /\ upgradeHeard.no <= upgradeCommands

\* A frame the client makes something of.
Answer(f) == f.status # "undefined" /\ f.no # 0

\* A number is that of one command, which is on its way, or with the application,
\* or answered.
OneCommandPerNumber ==
  /\ \A c, d \in pending : c.no = d.no /\ c.no # 0 => c = d
  /\ \A c \in pending : c.no # 0 => c.no # toServer.no /\ c.no # upgradeHeard.no
  /\ toServer.no # 0 => toServer.no # upgradeHeard.no
  /\ \A i \in 1 .. Len(toClient) : Answer(toClient[i]) =>
       toClient[i].no # toServer.no /\ \A c \in pending : toClient[i].no # c.no

\* No acknowledgement is ahead of the response of its command.
ResponsesAhead(s) ==
  \A i, j \in 1 .. Len(s) :
    i < j /\ Answer(s[i]) /\ Answer(s[j]) /\ s[i].no = s[j].no =>
      s[i].kind = "response" \/ s[j].kind = "ack"

ResponsesToCome ==
  \A i \in 1 .. Len(toClient) :
    Answer(toClient[i]) /\ toClient[i].kind = "response" /\ toClient[i].no = upgradeHeard.no =>
      upgradeHeard.ack = "none"

UpgradeInv ==
  UpgradeTypes /\ OneCommandPerNumber /\ ResponsesAhead(toClient) /\ ResponsesToCome

LEMMA UpgradeInit ==
  ASSUME Upgrade!Init
  PROVE  UpgradeInv
<1>1. /\ toServer = Upgrade!NoCommand /\ toClient = <<>> /\ pending = {} /\ upgradeCommands = 0
      /\ upgradeHeard = [no |-> 0, response |-> "none", ack |-> "none"]
  BY DEF Upgrade!Init
<1>2. Upgrade!NoCommand.no = 0
  BY DEF Upgrade!NoCommand
<1>3. UpgradeTypes
  BY <1>1 DEF UpgradeTypes
<1>4. QED
  BY <1>1, <1>2, <1>3 DEF UpgradeInv, OneCommandPerNumber, ResponsesAhead, ResponsesToCome

\* Frames that leave the queue of answers, and frames that join it.
LEMMA FirstLeaves ==
  ASSUME UpgradeTypes, ResponsesAhead(toClient), toClient # <<>>, toClient' = Tail(toClient)
  PROVE  /\ toClient' \in Seq(UpgradeFrames) /\ ResponsesAhead(toClient)'
         /\ Head(toClient) = toClient[1] /\ 1 \in 1 .. Len(toClient) /\ toClient[1] \in UpgradeFrames
         /\ Len(toClient') = Len(toClient) - 1
         /\ \A i \in 1 .. Len(toClient') :
              i + 1 \in 1 .. Len(toClient) /\ 1 < i + 1 /\ toClient'[i] = toClient[i + 1]
<1>1. toClient \in Seq(UpgradeFrames)
  BY DEF UpgradeTypes
<1>2. /\ toClient' \in Seq(UpgradeFrames)
      /\ Head(toClient) = toClient[1] /\ 1 \in 1 .. Len(toClient) /\ toClient[1] \in UpgradeFrames
      /\ Len(toClient') = Len(toClient) - 1 /\ Len(toClient) \in Nat
      /\ \A i \in 1 .. Len(toClient) - 1 : toClient'[i] = toClient[i + 1]
  BY <1>1
<1>3. \A i \in 1 .. Len(toClient') :
        i + 1 \in 1 .. Len(toClient) /\ 1 < i + 1 /\ toClient'[i] = toClient[i + 1]
  BY <1>2
<1>4. ResponsesAhead(toClient)'
  BY <1>3 DEF ResponsesAhead
<1>5. QED
  BY <1>2, <1>3, <1>4

LEMMA AnswersJoin ==
  ASSUME UpgradeTypes, ResponsesAhead(toClient), NEW taken \in Seq(UpgradeFrames), NEW n \in Nat,
         ResponsesAhead(taken), \A i \in 1 .. Len(taken) : taken[i].no = n,
         \A i \in 1 .. Len(toClient) : Answer(toClient[i]) => toClient[i].no # n,
         toClient' = toClient \o taken
  PROVE  /\ toClient' \in Seq(UpgradeFrames) /\ ResponsesAhead(toClient)'
         /\ \A i \in 1 .. Len(toClient') :
              \/ toClient'[i].no = n
              \/ \E j \in 1 .. Len(toClient) : toClient'[i] = toClient[j]
<1>1. toClient \in Seq(UpgradeFrames)
  BY DEF UpgradeTypes
<1>2. /\ toClient' \in Seq(UpgradeFrames) /\ Len(toClient') = Len(toClient) + Len(taken)
      /\ Len(toClient) \in Nat /\ Len(taken) \in Nat
      /\ \A i \in 1 .. Len(toClient) : toClient'[i] = toClient[i]
      /\ \A i \in Len(toClient) + 1 .. Len(toClient') : toClient'[i] = taken[i - Len(toClient)]
  BY <1>1, ConcatProperties
<1>3. \A i \in 1 .. Len(toClient') :
        \/ i \in 1 .. Len(toClient) /\ toClient'[i] = toClient[i]
        \/ /\ i - Len(toClient) \in 1 .. Len(taken) /\ i > Len(toClient)
           /\ toClient'[i] = taken[i - Len(toClient)] /\ toClient'[i].no = n
  BY <1>2
<1>4. ResponsesAhead(toClient)'
  <2> SUFFICES ASSUME NEW i \in 1 .. Len(toClient'), NEW j \in 1 .. Len(toClient'), i < j,
                      Answer(toClient'[i]), Answer(toClient'[j]), toClient'[i].no = toClient'[j].no
               PROVE  toClient'[i].kind = "response" \/ toClient'[j].kind = "ack"
    BY DEF ResponsesAhead
  <2>1. CASE i \in 1 .. Len(toClient) /\ j \in 1 .. Len(toClient)
    BY <1>2, <2>1 DEF ResponsesAhead
  <2>2. CASE i \in 1 .. Len(toClient) /\ j \notin 1 .. Len(toClient)
    BY <1>3, <2>2
  <2>3. CASE i \notin 1 .. Len(toClient)
    <3>1. /\ i - Len(toClient) \in 1 .. Len(taken) /\ toClient'[i] = taken[i - Len(toClient)]
          /\ j - Len(toClient) \in 1 .. Len(taken) /\ toClient'[j] = taken[j - Len(toClient)]
          /\ i - Len(toClient) < j - Len(toClient)
      BY <1>2, <1>3, <2>3
    <3>2. QED
      BY <3>1 DEF ResponsesAhead
  <2>4. QED
    BY <2>1, <2>2, <2>3
<1>5. QED
  BY <1>2, <1>3, <1>4

\* A command is answered, and awaited by nobody any more.
LEMMA CommandIsAnswered ==
  ASSUME UpgradeInv, NEW c, IsCommand(c),
         NEW taken \in Seq(UpgradeFrames), ResponsesAhead(taken),
         \A i \in 1 .. Len(taken) : taken[i].no = c.no,
         toClient' = toClient \o taken,
         \A i \in 1 .. Len(toClient) : Answer(toClient[i]) => toClient[i].no # c.no,
         c.no # 0 => c.no # upgradeHeard.no,
         pending' \subseteq pending, \A d \in pending' : d.no # 0 => d.no # c.no,
         toServer' \in {toServer, Upgrade!NoCommand}, toServer'.no # 0 => toServer'.no # c.no,
         UNCHANGED <<upgradeCommands, upgradeHeard>>
  PROVE  UpgradeInv'
<1>1. c.no \in Nat /\ c.no <= upgradeCommands /\ upgradeCommands \in Nat
  BY DEF UpgradeInv, UpgradeTypes, IsCommand
<1>2. /\ toClient' \in Seq(UpgradeFrames) /\ ResponsesAhead(toClient)'
      /\ \A i \in 1 .. Len(toClient') :
           \/ toClient'[i].no = c.no
           \/ \E j \in 1 .. Len(toClient) : toClient'[i] = toClient[j]
  BY <1>1, AnswersJoin DEF UpgradeInv
<1>3. Upgrade!NoCommand.no = 0
  BY DEF Upgrade!NoCommand
<1>4. UpgradeTypes'
  BY <1>1, <1>2 DEF UpgradeInv, UpgradeTypes, IsCommand
<1>5. OneCommandPerNumber'
  <2>1. /\ \A d, e \in pending' : d.no = e.no /\ d.no # 0 => d = e
        /\ \A d \in pending' : d.no # 0 => d.no # toServer'.no /\ d.no # upgradeHeard'.no
        /\ toServer'.no # 0 => toServer'.no # upgradeHeard'.no
    BY <1>3 DEF UpgradeInv, OneCommandPerNumber
  <2>2. ASSUME NEW i \in 1 .. Len(toClient'), Answer(toClient'[i])
        PROVE  toClient'[i].no # toServer'.no /\ \A d \in pending' : toClient'[i].no # d.no
    <3>1. CASE toClient'[i].no = c.no
      BY <2>2, <3>1 DEF Answer
    <3>2. CASE \E j \in 1 .. Len(toClient) : toClient'[i] = toClient[j]
      BY <1>3, <2>2, <3>2 DEF UpgradeInv, OneCommandPerNumber, Answer
    <3>3. QED
      BY <1>2, <3>1, <3>2
  <2>3. QED
    BY <2>1, <2>2 DEF OneCommandPerNumber, Answer
<1>6. ResponsesToCome'
  <2> SUFFICES ASSUME NEW i \in 1 .. Len(toClient'), Answer(toClient'[i]),
                      toClient'[i].kind = "response", toClient'[i].no = upgradeHeard.no
               PROVE  upgradeHeard.ack = "none"
    BY DEF ResponsesToCome, Answer
  <2>1. toClient'[i].no # c.no
    BY DEF Answer
  <2>2. QED
    BY <1>2, <2>1 DEF UpgradeInv, ResponsesToCome
<1>7. QED
  BY <1>2, <1>4, <1>5, <1>6 DEF UpgradeInv

\* Two frames of one command, of which the transport takes both, one or none.
LEMMA AnswersTaken ==
  ASSUME NEW first \in UpgradeFrames, NEW second \in UpgradeFrames, first.no = second.no,
         first.kind = "response" \/ second.kind = "ack",
         NEW taken \in {<<first, second>>, <<first>>, <<second>>, <<>>}
  PROVE  /\ taken \in Seq(UpgradeFrames) /\ ResponsesAhead(taken)
         /\ \A i \in 1 .. Len(taken) : taken[i].no = first.no
<1>1. CASE taken = <<first, second>>
  BY <1>1 DEF ResponsesAhead
<1>2. CASE taken = <<first>>
  BY <1>2 DEF ResponsesAhead
<1>3. CASE taken = <<second>>
  BY <1>3 DEF ResponsesAhead
<1>4. CASE taken = <<>>
  BY <1>4 DEF ResponsesAhead
<1>5. QED
  BY <1>1, <1>2, <1>3, <1>4

LEMMA CompletionSends ==
  ASSUME NEW c, c.no \in Nat, NEW status \in Upgrade!Statuses,
         Upgrade!Sends(Upgrade!Answers(c, status))
  PROVE  \E taken \in Seq(UpgradeFrames) :
           /\ ResponsesAhead(taken) /\ \A i \in 1 .. Len(taken) : taken[i].no = c.no
           /\ toClient' = toClient \o taken
<1> DEFINE ack == [kind |-> "ack", no |-> c.no, status |-> status]
           response == [kind |-> "response", no |-> c.no, status |-> status]
<1>1. /\ ack \in UpgradeFrames /\ response \in UpgradeFrames
      /\ ack.no = c.no /\ response.no = c.no /\ ack.kind = "ack"
  BY DEF UpgradeFrames, Upgrade!StatusesOnTheBus, Upgrade!Statuses
<1> HIDE DEF ack, response
<1>2. Upgrade!Answers(c, status) \in {<<ack>>, <<response, ack>>}
  BY DEF Upgrade!Answers, ack, response
<1>3. PICK frames \in {<<ack>>, <<response, ack>>} : Upgrade!Sends(frames)
  BY <1>2
<1>4. frames[1] \in {ack, response} /\ frames[Len(frames)] = ack
  <2>1. CASE frames = <<ack>>
    BY <2>1
  <2>2. CASE frames = <<response, ack>>
    BY <2>2
  <2>3. QED
    BY <2>1, <2>2
<1>5. PICK taken \in {<<response, ack>>, <<response>>, <<ack>>, <<>>} : toClient' = toClient \o taken
  <2>1. PICK t \in {frames, <<frames[1]>>, <<frames[Len(frames)]>>, <<>>} : toClient' = toClient \o t
    BY <1>3 DEF Upgrade!Sends
  <2>2. t \in {<<response, ack>>, <<response>>, <<ack>>, <<>>}
    BY <1>3, <1>4, <2>1
  <2>3. QED
    BY <2>1, <2>2
<1>6. /\ taken \in Seq(UpgradeFrames) /\ ResponsesAhead(taken)
      /\ \A i \in 1 .. Len(taken) : taken[i].no = c.no
  <2>1. response.no = ack.no /\ (response.kind = "response" \/ ack.kind = "ack")
    BY <1>1
  <2>2. /\ taken \in Seq(UpgradeFrames) /\ ResponsesAhead(taken)
        /\ \A i \in 1 .. Len(taken) : taken[i].no = response.no
    BY <1>1, <1>5, <2>1, AnswersTaken
  <2>3. QED
    BY <1>1, <2>2
<1>7. QED
  BY <1>5, <1>6

LEMMA RejectionSends ==
  ASSUME NEW n \in Nat, Upgrade!Sends(<<[kind |-> "ack", no |-> n, status |-> "error"]>>)
  PROVE  \E taken \in Seq(UpgradeFrames) :
           /\ ResponsesAhead(taken) /\ \A i \in 1 .. Len(taken) : taken[i].no = n
           /\ toClient' = toClient \o taken
<1> DEFINE ack == [kind |-> "ack", no |-> n, status |-> "error"]
<1>1. ack \in UpgradeFrames /\ ack.no = n /\ ack.kind = "ack"
  BY DEF UpgradeFrames, Upgrade!StatusesOnTheBus, Upgrade!Statuses
<1>2. Upgrade!Sends(<<ack>>)
  OBVIOUS
<1> HIDE DEF ack
<1>3. PICK t \in {<<ack>>, <<>>} : toClient' = toClient \o t
  <2>1. PICK t \in {<<ack>>, <<<<ack>>[1]>>, <<<<ack>>[Len(<<ack>>)]>>, <<>>} : toClient' = toClient \o t
    BY <1>2 DEF Upgrade!Sends
  <2>2. <<ack>>[1] = ack /\ Len(<<ack>>) = 1
    OBVIOUS
  <2>3. QED
    BY <2>1, <2>2
<1>4. /\ t \in Seq(UpgradeFrames) /\ ResponsesAhead(t)
      /\ \A i \in 1 .. Len(t) : t[i].no = n
  <2>1. t \in {<<ack, ack>>, <<ack>>, <<ack>>, <<>>} /\ (ack.kind = "response" \/ ack.kind = "ack")
    BY <1>1
  <2>2. /\ t \in Seq(UpgradeFrames) /\ ResponsesAhead(t)
        /\ \A i \in 1 .. Len(t) : t[i].no = ack.no
    BY <1>1, <2>1, AnswersTaken
  <2>3. QED
    BY <1>1, <2>2
<1>5. QED
  BY <1>3, <1>4

LEMMA ServerKeepsNumbers ==
  ASSUME UpgradeInv, Upgrade!ServerReceives
  PROVE  UpgradeInv'
<1>1. /\ toServer # Upgrade!NoCommand /\ toServer' = Upgrade!NoCommand /\ IsCommand(toServer)
      /\ toServer.no \in Nat /\ Upgrade!NoCommand.no = 0
      /\ UNCHANGED <<upgradeCommands, upgradeHeard>>
  BY DEF Upgrade!ServerReceives, Upgrade!NoCommand, UpgradeInv, UpgradeTypes, IsCommand
<1>2. CASE toServer.valid /\ observer
  <2>1. pending' = pending \cup {toServer} /\ UNCHANGED toClient
    BY <1>2 DEF Upgrade!ServerReceives
  <2>2. UpgradeTypes'
    BY <1>1, <2>1 DEF UpgradeInv, UpgradeTypes, IsCommand
  <2>3. OneCommandPerNumber'
    <3>1. \A c, d \in pending' : c.no = d.no /\ c.no # 0 => c = d
      BY <2>1 DEF UpgradeInv, OneCommandPerNumber
    <3>2. \A c \in pending' : c.no # 0 => c.no # toServer'.no /\ c.no # upgradeHeard'.no
      BY <1>1, <2>1 DEF UpgradeInv, OneCommandPerNumber
    <3>3. \A i \in 1 .. Len(toClient') : Answer(toClient'[i]) =>
            toClient'[i].no # toServer'.no /\ \A c \in pending' : toClient'[i].no # c.no
      BY <1>1, <2>1 DEF UpgradeInv, OneCommandPerNumber, Answer
    <3>4. QED
      BY <1>1, <3>1, <3>2, <3>3 DEF OneCommandPerNumber, Answer
  <2>4. QED
    BY <1>1, <2>1, <2>2, <2>3 DEF UpgradeInv, ResponsesAhead, ResponsesToCome, Answer
<1>3. CASE ~(toServer.valid /\ observer)
  <2>1. /\ UNCHANGED pending
        /\ \E taken \in Seq(UpgradeFrames) :
             /\ ResponsesAhead(taken) /\ \A i \in 1 .. Len(taken) : taken[i].no = toServer.no
             /\ toClient' = toClient \o taken
    <3>1. CASE ~toServer.valid
      BY <1>1, <3>1, RejectionSends DEF Upgrade!ServerReceives
    <3>2. CASE toServer.valid /\ ~observer
      <4>1. Upgrade!OwnStatus(toServer.type) \in Upgrade!Statuses
        BY DEF Upgrade!OwnStatus, Upgrade!Statuses
      <4>2. UNCHANGED pending /\ Upgrade!Sends(Upgrade!Answers(toServer, Upgrade!OwnStatus(toServer.type)))
        BY <3>2 DEF Upgrade!ServerReceives, Upgrade!Completes
      <4>3. QED
        BY <1>1, <4>1, <4>2, CompletionSends
    <3>3. QED
      BY <1>3, <3>1, <3>2
  <2>2. PICK taken \in Seq(UpgradeFrames) :
          /\ ResponsesAhead(taken) /\ \A i \in 1 .. Len(taken) : taken[i].no = toServer.no
          /\ toClient' = toClient \o taken
    BY <2>1
  <2>3. /\ \A i \in 1 .. Len(toClient) : Answer(toClient[i]) => toClient[i].no # toServer.no
        /\ toServer.no # 0 => toServer.no # upgradeHeard.no
        /\ pending' \subseteq pending /\ \A d \in pending' : d.no # 0 => d.no # toServer.no
    BY <2>1 DEF UpgradeInv, OneCommandPerNumber
  <2>4. QED
    BY <1>1, <2>2, <2>3, CommandIsAnswered
<1>4. QED
  BY <1>2, <1>3

LEMMA ApplicationKeepsNumbers ==
  ASSUME UpgradeInv, NEW c \in pending, Upgrade!ApplicationCompletes(c)
  PROVE  UpgradeInv'
<1>1. /\ IsCommand(c) /\ c.no \in Nat /\ pending' = pending \ {c}
      /\ UNCHANGED <<toServer, upgradeCommands, upgradeHeard>>
  BY DEF Upgrade!ApplicationCompletes, UpgradeInv, UpgradeTypes, IsCommand
<1>2. PICK status \in Upgrade!Statuses : Upgrade!Sends(Upgrade!Answers(c, status))
  BY DEF Upgrade!ApplicationCompletes, Upgrade!Completes, Upgrade!AppStatuses, Upgrade!Statuses
<1>3. PICK taken \in Seq(UpgradeFrames) :
        /\ ResponsesAhead(taken) /\ \A i \in 1 .. Len(taken) : taken[i].no = c.no
        /\ toClient' = toClient \o taken
  BY <1>1, <1>2, CompletionSends
<1>4. /\ \A i \in 1 .. Len(toClient) : Answer(toClient[i]) => toClient[i].no # c.no
      /\ c.no # 0 => c.no # upgradeHeard.no /\ c.no # toServer.no
      /\ \A d \in pending' : d.no # 0 => d.no # c.no
  BY <1>1 DEF UpgradeInv, OneCommandPerNumber
<1>5. toServer'.no # 0 => toServer'.no # c.no
  BY <1>1, <1>4
<1>6. QED
  BY <1>1, <1>3, <1>4, <1>5, CommandIsAnswered

LEMMA ClientKeepsNumbers ==
  ASSUME UpgradeInv, Upgrade!ClientReceives
  PROVE  /\ UpgradeInv'
         /\ upgradeHeard'.no = upgradeHeard.no /\ upgradeHeard'.response # upgradeHeard.response =>
              upgradeHeard.ack = "none"
<1> DEFINE f == toClient[1]
<1>1. /\ toClient # <<>> /\ toClient' = Tail(toClient)
      /\ UNCHANGED <<toServer, pending, upgradeCommands>>
  BY DEF Upgrade!ClientReceives
<1>2. /\ toClient' \in Seq(UpgradeFrames) /\ ResponsesAhead(toClient)'
      /\ Head(toClient) = f /\ 1 \in 1 .. Len(toClient) /\ f \in UpgradeFrames
      /\ \A i \in 1 .. Len(toClient') :
           i + 1 \in 1 .. Len(toClient) /\ 1 < i + 1 /\ toClient'[i] = toClient[i + 1]
  BY <1>1, FirstLeaves DEF UpgradeInv
<1>3. /\ f.kind \in {"response", "ack"} /\ f.no \in Nat /\ f.no <= upgradeCommands
      /\ upgradeCommands \in Nat
  BY <1>2 DEF UpgradeFrames, UpgradeInv, UpgradeTypes
<1>4. \A i \in 1 .. Len(toClient') : toClient'[i].no <= upgradeCommands /\
        (Answer(toClient'[i]) =>
           toClient'[i].no # toServer.no /\ \A c \in pending : toClient'[i].no # c.no)
  BY <1>2 DEF UpgradeInv, UpgradeTypes, OneCommandPerNumber
<1>5. CASE ~Answer(f)
  <2>1. UNCHANGED upgradeHeard
    BY <1>2, <1>5 DEF Upgrade!ClientReceives, Upgrade!ClientHears, Upgrade!IsDefined, Answer
  <2>2. UpgradeTypes'
    BY <1>1, <1>2, <1>4, <2>1 DEF UpgradeInv, UpgradeTypes, IsCommand
  <2>3. OneCommandPerNumber'
    BY <1>1, <1>4, <2>1 DEF UpgradeInv, OneCommandPerNumber, Answer
  <2>4. ResponsesToCome'
    BY <1>2, <2>1 DEF UpgradeInv, ResponsesToCome, Answer
  <2>5. QED
    BY <1>2, <2>1, <2>2, <2>3, <2>4 DEF UpgradeInv
<1>6. CASE Answer(f)
  <2> DEFINE before == IF upgradeHeard.no = f.no THEN upgradeHeard
                       ELSE [no |-> f.no, response |-> "none", ack |-> "none"]
             records == [no : Nat, response : Upgrade!Statuses \cup {"none"},
                         ack : Upgrade!Statuses \cup {"none"}]
  <2>1. upgradeHeard' = [before EXCEPT ![f.kind] = f.status]
    BY <1>2, <1>6 DEF Upgrade!ClientReceives, Upgrade!ClientHears, Upgrade!IsDefined, Answer
  <2>2. before \in records /\ before.no = f.no
    BY <1>3 DEF UpgradeInv, UpgradeTypes
  <2>3. f.status \in Upgrade!Statuses
    BY <1>2, <1>6 DEF UpgradeFrames, Upgrade!StatusesOnTheBus, Answer
  <2>4. /\ upgradeHeard' \in records /\ upgradeHeard'.no = f.no
        /\ f.kind = "response" => upgradeHeard'.ack = before.ack
        /\ f.kind = "ack" => upgradeHeard'.response = before.response
    <3> HIDE DEF before
    <3>1. CASE f.kind = "response"
      BY <2>1, <2>2, <2>3, <3>1
    <3>2. CASE f.kind = "ack"
      BY <2>1, <2>2, <2>3, <3>2
    <3>3. QED
      BY <1>3, <3>1, <3>2
  <2>5. f.kind = "response" => before.ack = "none"
    BY <1>2, <1>6 DEF UpgradeInv, ResponsesToCome
  <2>6. UpgradeTypes'
    BY <1>1, <1>2, <1>3, <1>4, <2>4 DEF UpgradeInv, UpgradeTypes, IsCommand
  <2>7. f.no # toServer.no /\ \A c \in pending : f.no # c.no
    BY <1>2, <1>6 DEF UpgradeInv, OneCommandPerNumber
  <2>8. OneCommandPerNumber'
    BY <1>1, <1>4, <2>4, <2>7 DEF UpgradeInv, OneCommandPerNumber, Answer
  <2>9. ResponsesToCome'
    <3> SUFFICES ASSUME NEW i \in 1 .. Len(toClient'), Answer(toClient'[i]),
                        toClient'[i].kind = "response", toClient'[i].no = upgradeHeard'.no
                 PROVE  upgradeHeard'.ack = "none"
      BY DEF ResponsesToCome, Answer
    <3>1. f.kind = "response"
      BY <1>2, <1>3, <1>6, <2>4 DEF UpgradeInv, ResponsesAhead
    <3>2. QED
      BY <2>4, <2>5, <3>1
  <2>10. upgradeHeard'.no = upgradeHeard.no /\ upgradeHeard'.response # upgradeHeard.response =>
           upgradeHeard.ack = "none"
    BY <1>3, <2>4, <2>5
  <2>11. QED
    BY <1>2, <2>6, <2>8, <2>9, <2>10 DEF UpgradeInv
<1>7. QED
  BY <1>5, <1>6

LEMMA SendingKeepsNumbers ==
  ASSUME UpgradeInv, NEW type \in Upgrade!Commands, NEW valid \in BOOLEAN,
         Upgrade!SendCommand(type, valid)
  PROVE  UpgradeInv'
<1> DEFINE no == IF type = "queryProgress" THEN 0 ELSE upgradeCommands + 1
<1>1. /\ toServer = Upgrade!NoCommand
      /\ toServer' = [type |-> type, no |-> no, valid |-> valid]
      /\ upgradeCommands' = IF no = 0 THEN upgradeCommands ELSE no
      /\ UNCHANGED <<toClient, pending, upgradeHeard>>
  BY DEF Upgrade!SendCommand
<1>2. /\ upgradeCommands \in Nat /\ no \in Nat /\ upgradeCommands' \in Nat
      /\ upgradeCommands <= upgradeCommands' /\ no <= upgradeCommands'
      /\ no = 0 <=> type = "queryProgress"
      /\ no # 0 => no = upgradeCommands + 1
  BY <1>1 DEF UpgradeInv, UpgradeTypes
<1>3. toServer'.type = type /\ toServer'.no = no
  BY <1>1
<1> HIDE DEF no
<1>4. /\ \A c \in pending : c.no \in Nat /\ c.no <= upgradeCommands
      /\ \A i \in 1 .. Len(toClient) : toClient[i].no \in Nat /\ toClient[i].no <= upgradeCommands
      /\ upgradeHeard.no \in Nat /\ upgradeHeard.no <= upgradeCommands
  <2>1. \A c \in pending : c.no \in Nat /\ c.no <= upgradeCommands
    BY <1>2 DEF UpgradeInv, UpgradeTypes, IsCommand
  <2>2. ASSUME NEW i \in 1 .. Len(toClient)
        PROVE  toClient[i].no \in Nat /\ toClient[i].no <= upgradeCommands
    <3>1. toClient \in Seq(UpgradeFrames) /\ toClient[i].no <= upgradeCommands
      BY DEF UpgradeInv, UpgradeTypes
    <3>2. toClient[i] \in UpgradeFrames
      BY <3>1
    <3>3. QED
      BY <3>1, <3>2 DEF UpgradeFrames
  <2>3. upgradeHeard.no \in Nat /\ upgradeHeard.no <= upgradeCommands
    BY DEF UpgradeInv, UpgradeTypes
  <2>4. QED
    BY <2>1, <2>2, <2>3
<1>5. UpgradeTypes'
  <2>1. IsCommand(toServer)'
    BY <1>2, <1>3 DEF IsCommand
  <2>2. \A c \in pending' : IsCommand(c)'
    BY <1>1, <1>2, <1>4 DEF UpgradeInv, UpgradeTypes, IsCommand
  <2>3. \A i \in 1 .. Len(toClient') : toClient'[i].no <= upgradeCommands'
    BY <1>1, <1>2, <1>4
  <2>4. upgradeHeard'.no <= upgradeCommands'
    BY <1>1, <1>2, <1>4
  <2>5. QED
    BY <1>1, <1>2, <2>1, <2>2, <2>3, <2>4 DEF UpgradeInv, UpgradeTypes
<1>6. OneCommandPerNumber'
  <2>1. \A c \in pending : c.no # 0 => c.no # no
    BY <1>2, <1>4
  <2>2. no # 0 => no # upgradeHeard.no
    BY <1>2, <1>4
  <2>3. \A i \in 1 .. Len(toClient) : Answer(toClient[i]) => toClient[i].no # no
    BY <1>2, <1>4 DEF Answer
  <2>4. QED
    BY <1>1, <1>3, <2>1, <2>2, <2>3 DEF UpgradeInv, OneCommandPerNumber, Answer
<1>7. QED
  BY <1>1, <1>5, <1>6 DEF UpgradeInv, ResponsesAhead, ResponsesToCome, Answer

LEMMA BusKeepsNumbers ==
  ASSUME UpgradeInv, Upgrade!BusLoses
  PROVE  UpgradeInv'
<1>1. UNCHANGED <<pending, upgradeCommands, upgradeHeard>> /\ Upgrade!NoCommand.no = 0
  BY DEF Upgrade!BusLoses, Upgrade!NoCommand
<1>2. CASE toServer' = Upgrade!NoCommand /\ UNCHANGED toClient
  <2>1. UpgradeTypes'
    BY <1>1, <1>2 DEF UpgradeInv, UpgradeTypes, IsCommand
  <2>2. OneCommandPerNumber'
    BY <1>1, <1>2 DEF UpgradeInv, OneCommandPerNumber, Answer
  <2>3. QED
    BY <1>1, <1>2, <2>1, <2>2 DEF UpgradeInv, ResponsesAhead, ResponsesToCome, Answer
<1>3. CASE toClient # <<>> /\ toClient' = Tail(toClient) /\ UNCHANGED toServer
  <2>1. /\ toClient' \in Seq(UpgradeFrames) /\ ResponsesAhead(toClient)'
        /\ \A i \in 1 .. Len(toClient') :
             i + 1 \in 1 .. Len(toClient) /\ 1 < i + 1 /\ toClient'[i] = toClient[i + 1]
    BY <1>3, FirstLeaves DEF UpgradeInv
  <2>2. UpgradeTypes'
    BY <1>1, <1>3, <2>1 DEF UpgradeInv, UpgradeTypes, IsCommand
  <2>3. OneCommandPerNumber'
    BY <1>1, <1>3, <2>1 DEF UpgradeInv, OneCommandPerNumber, Answer
  <2>4. ResponsesToCome'
    BY <1>1, <2>1 DEF UpgradeInv, ResponsesToCome, Answer
  <2>5. QED
    BY <2>1, <2>2, <2>3, <2>4 DEF UpgradeInv
<1>4. QED
  BY <1>2, <1>3 DEF Upgrade!BusLoses

LEMMA ForeignKeepsNumbers ==
  ASSUME UpgradeInv, Upgrade!ForeignResponse
  PROVE  UpgradeInv'
<1> DEFINE foreign == [kind |-> "response", no |-> upgradeHeard.no, status |-> "undefined"]
<1>1. /\ toClient' = <<foreign>>
      /\ UNCHANGED <<toServer, pending, upgradeCommands, upgradeHeard>>
  BY DEF Upgrade!ForeignResponse
<1>2. /\ foreign \in UpgradeFrames /\ ~Answer(foreign) /\ foreign.no <= upgradeCommands
  BY DEF UpgradeInv, UpgradeTypes, UpgradeFrames, Upgrade!StatusesOnTheBus, Answer
<1> HIDE DEF foreign
<1>3. /\ toClient' \in Seq(UpgradeFrames)
      /\ \A i \in 1 .. Len(toClient') : toClient'[i] = foreign
  BY <1>1, <1>2
<1>4. UpgradeTypes'
  BY <1>1, <1>2, <1>3 DEF UpgradeInv, UpgradeTypes, IsCommand
<1>5. \A i \in 1 .. Len(toClient') : ~Answer(toClient'[i])
  BY <1>2, <1>3
<1>6. OneCommandPerNumber'
  BY <1>1, <1>5 DEF UpgradeInv, OneCommandPerNumber, Answer
<1>7. QED
  BY <1>4, <1>5, <1>6 DEF UpgradeInv, ResponsesAhead, ResponsesToCome, Answer

LEMMA NumbersUnchanged ==
  ASSUME UpgradeInv, UNCHANGED <<toServer, toClient, pending, upgradeCommands, upgradeHeard>>
  PROVE  UpgradeInv'
<1>1. UpgradeTypes'
  BY DEF UpgradeInv, UpgradeTypes, IsCommand
<1>2. OneCommandPerNumber'
  BY DEF UpgradeInv, OneCommandPerNumber, Answer
<1>3. QED
  BY <1>1, <1>2 DEF UpgradeInv, ResponsesAhead, ResponsesToCome, Answer

LEMMA UpgradeStep ==
  ASSUME UpgradeInv, [Upgrade!Next]_(Upgrade!vars)
  PROVE  UpgradeInv'
<1>1. ASSUME NEW type \in Upgrade!Commands, NEW valid \in BOOLEAN, Upgrade!SendCommand(type, valid)
      PROVE  UpgradeInv'
  BY <1>1, SendingKeepsNumbers
<1>2. CASE Upgrade!ClientReceives
  BY <1>2, ClientKeepsNumbers
<1>3. CASE Upgrade!ServerReceives
  BY <1>3, ServerKeepsNumbers
<1>4. ASSUME NEW c \in pending, Upgrade!ApplicationCompletes(c)
      PROVE  UpgradeInv'
  BY <1>4, ApplicationKeepsNumbers
<1>5. CASE Upgrade!Tick \/ Upgrade!HandleSessionTimeout \/ Upgrade!AttachApplication
  BY <1>5, NumbersUnchanged DEF Upgrade!Tick, Upgrade!HandleSessionTimeout, Upgrade!AttachApplication
<1>6. CASE Upgrade!BusLoses
  BY <1>6, BusKeepsNumbers
<1>7. CASE Upgrade!ForeignResponse
  BY <1>7, ForeignKeepsNumbers
<1>8. CASE UNCHANGED Upgrade!vars
  BY <1>8, NumbersUnchanged DEF Upgrade!vars
<1>9. QED
  BY <1>1, <1>2, <1>3, <1>4, <1>5, <1>6, <1>7, <1>8 DEF Upgrade!Next

LEMMA UpgradeInvariance == Upgrade!Spec => []UpgradeInv
<1>1. Upgrade!Init => UpgradeInv
  BY UpgradeInit
<1>2. UpgradeInv /\ [Upgrade!Next]_(Upgrade!vars) => UpgradeInv'
  BY UpgradeStep
<1>3. QED
  BY <1>1, <1>2, PTL DEF Upgrade!Spec

\* What the client hears changes when it receives a frame, and then no response
\* joins an acknowledgement.
LEMMA NothingHeardTooLate ==
  ASSUME UpgradeInv, [Upgrade!Next]_(Upgrade!vars)
  PROVE  [upgradeHeard'.no = upgradeHeard.no /\ upgradeHeard'.response # upgradeHeard.response =>
            upgradeHeard.ack = "none"]_upgradeHeard
<1>1. CASE Upgrade!ClientReceives
  BY <1>1, ClientKeepsNumbers
<1>2. CASE UNCHANGED upgradeHeard
  BY <1>2
<1>3. QED
  BY <1>1, <1>2 DEF Upgrade!Next, Upgrade!vars, Upgrade!SendCommand, Upgrade!ServerReceives,
       Upgrade!ApplicationCompletes, Upgrade!Tick, Upgrade!HandleSessionTimeout,
       Upgrade!AttachApplication, Upgrade!BusLoses, Upgrade!ForeignResponse

\* FirmwareUpgradeCategoryServer answers a command before it acknowledges it,
\* however late its application completes it and whatever is refused or lost: a
\* client never hears a response after the acknowledgement of its command.
THEOREM UpgradeResponsesComeFirst == Upgrade!Spec => Upgrade!ResponsesComeFirst
<1>1. UpgradeInv /\ [Upgrade!Next]_(Upgrade!vars) =>
        [upgradeHeard'.no = upgradeHeard.no /\ upgradeHeard'.response # upgradeHeard.response =>
           upgradeHeard.ack = "none"]_upgradeHeard
  BY NothingHeardTooLate
<1>2. QED
  BY <1>1, UpgradeInvariance, PTL DEF Upgrade!Spec, Upgrade!ResponsesComeFirst

LEMMA ExpiryStep ==
  ASSUME UpgradeInv, Upgrade!ExpiryNeedsAcceptance, [Upgrade!Next]_(Upgrade!vars)
  PROVE  Upgrade!ExpiryNeedsAcceptance'
<1> USE DEF Upgrade!ExpiryNeedsAcceptance
<1>1. ASSUME NEW c, NEW status, NEW before, NEW acceptedBefore,
             Upgrade!Completes(c, status, before, acceptedBefore),
             before # Upgrade!Stopped => acceptedBefore
      PROVE  Upgrade!ExpiryNeedsAcceptance'
  BY <1>1 DEF Upgrade!Completes, Upgrade!OpensSession, Upgrade!StartSessionTimer
<1>2. CASE Upgrade!ServerReceives
  <2> DEFINE now == IF Upgrade!ClosesSession(toServer.type) THEN Upgrade!Stopped ELSE session
             acceptedNow == upgradeAccepted /\
               toServer.type \in {"beginUpgrade", "dataBlock", "queryProgress"}
  <2>1. now # Upgrade!Stopped => acceptedNow
    <3>1. toServer.type \in Upgrade!Commands
      BY <1>2 DEF Upgrade!ServerReceives, UpgradeInv, UpgradeTypes, IsCommand
    <3>2. QED
      BY <3>1 DEF Upgrade!ClosesSession, Upgrade!Commands, Upgrade!Upgrades
  <2>2. CASE UNCHANGED <<session, upgradeAccepted>>
    BY <2>2
  <2>3. CASE Upgrade!Completes(toServer, Upgrade!OwnStatus(toServer.type), now, acceptedNow)
    BY <1>1, <2>1, <2>3
  <2>4. CASE session' = now /\ upgradeAccepted' = acceptedNow
    BY <2>1, <2>4
  <2>5. QED
    BY <1>2, <2>2, <2>3, <2>4 DEF Upgrade!ServerReceives
<1>3. ASSUME NEW c \in pending, Upgrade!ApplicationCompletes(c)
      PROVE  Upgrade!ExpiryNeedsAcceptance'
  BY <1>1, <1>3 DEF Upgrade!ApplicationCompletes
<1>4. CASE Upgrade!Tick
  BY <1>4 DEF Upgrade!Tick, Upgrade!Stopped
<1>5. CASE Upgrade!HandleSessionTimeout
  BY <1>5 DEF Upgrade!HandleSessionTimeout, Upgrade!StopSessionTimer
<1>6. CASE UNCHANGED <<session, upgradeAccepted>>
  BY <1>6
<1>7. QED
  BY <1>2, <1>3, <1>4, <1>5, <1>6 DEF Upgrade!Next, Upgrade!vars, Upgrade!SendCommand,
       Upgrade!ClientReceives, Upgrade!AttachApplication, Upgrade!BusLoses, Upgrade!ForeignResponse

\* The session timer of FirmwareUpgradeCategoryServer runs only if a begin or a
\* block was accepted since the last verify, activate or abort, in whatever
\* order the application completes what it was told of.
THEOREM UpgradeExpiryNeedsAcceptance == Upgrade!Spec => []Upgrade!ExpiryNeedsAcceptance
<1>1. Upgrade!Init => Upgrade!ExpiryNeedsAcceptance
  BY DEF Upgrade!Init, Upgrade!ExpiryNeedsAcceptance
<1>2. UpgradeInv /\ Upgrade!ExpiryNeedsAcceptance /\ [Upgrade!Next]_(Upgrade!vars) =>
        Upgrade!ExpiryNeedsAcceptance'
  BY ExpiryStep
<1>3. QED
  BY <1>1, <1>2, UpgradeInvariance, PTL DEF Upgrade!Spec

-----------------------------------------------------------------------------
(* The FOC motor category, another one *)

MotorMessages ==
  {"motorTypeResponse", "selectControlModeResponse", "electricalParamsResponse",
   "mechanicalParamsResponse", "telemetryElectricalResponse", "telemetryStatusResponse",
   "categoryError", "commandAck"}

MotorFrames ==
  [no : Nat, command : Motor!Commands \cup {"none"}, message : MotorMessages,
   priority : {8, 12}, bytes : Nat,
   status : {"none", "success", "invalidState", "categoryError", "invalidPayload"}]

\* A frame as the server writes one: long enough for the client, and urgent if
\* it is an acknowledgement.
IsMotorFrame(f) ==
  /\ f \in MotorFrames
  /\ f.bytes >= Motor!Expects(f.message)
  /\ f.message = "commandAck" => f.priority = 8
  /\ f.status = "invalidPayload" => f.command = "selectControlMode"

IsMotorCommand(c) ==
  /\ c.no \in Nat /\ c.command \in Motor!Commands
  /\ c.bytes >= Motor!Reads(c.command)
  /\ c.command # "selectControlMode" => c.defined

MotorTypes ==
  /\ motorToServer = <<>> \/ (motorToServer # <<>> /\ IsMotorCommand(Head(motorToServer)))
  /\ \A c \in motorPending : IsMotorCommand(c)
  /\ motorWaiting \in Seq(MotorFrames) /\ motorHeard \in Seq(MotorFrames)
  /\ \A i \in 1 .. Len(motorWaiting) : IsMotorFrame(motorWaiting[i])
  /\ motorSent \in Nat

\* What the frame, an acknowledgement, says has been answered.
AnswersOf(f) ==
  IF f.message # "commandAck" THEN {}
  ELSE IF f.status = "categoryError" THEN {Motor!Response(f, "categoryError")}
  ELSE IF f.status = "success" THEN Motor!Range(Motor!Values(f)) ELSE {}

Heard(a) == \E j \in 1 .. Len(motorHeard) : motorHeard[j] = a
Waits(a) == \E j \in 1 .. Len(motorWaiting) : motorWaiting[j] = a

\* An acknowledgement that waits has its urgent answers before it, in the queue
\* or out of it, and the others too, wherever they are.
WaitingExplained ==
  \A i \in 1 .. Len(motorWaiting) : \A a \in AnswersOf(motorWaiting[i]) :
    \/ a \in motorRefused
    \/ Heard(a)
    \/ \E j \in 1 .. Len(motorWaiting) : motorWaiting[j] = a /\ (a.priority = 8 => j < i)

HeardExplained ==
  \A i \in 1 .. Len(motorHeard) : \A a \in AnswersOf(motorHeard[i]) :
    \/ a \in motorRefused
    \/ \E j \in 1 .. Len(motorHeard) : motorHeard[j] = a /\ (a.priority = 8 => j < i)
    \/ a.priority # 8 /\ Waits(a)

MotorInv == MotorTypes /\ WaitingExplained /\ HeardExplained

LEMMA MotorInit ==
  ASSUME Motor!Init
  PROVE  MotorInv
BY DEF Motor!Init, MotorInv, MotorTypes, WaitingExplained, HeardExplained

\* Frames of one answer, of which an acknowledgement comes after what it stands for.
Explained(frames) ==
  \A i \in 1 .. Len(frames) : \A a \in AnswersOf(frames[i]) :
    \E j \in 1 .. i - 1 : frames[j] = a

LEMMA OfferKeepsExplained ==
  ASSUME MotorInv, NEW frames \in Seq(MotorFrames), Explained(frames),
         \A i \in 1 .. Len(frames) : IsMotorFrame(frames[i]),
         Motor!Offer(frames), UNCHANGED motorHeard
  PROVE  /\ motorWaiting' \in Seq(MotorFrames)
         /\ \A i \in 1 .. Len(motorWaiting') : IsMotorFrame(motorWaiting'[i])
         /\ WaitingExplained' /\ HeardExplained'
<1>1. PICK n \in 0 .. Len(frames) : \E taken \in [1 .. n -> DOMAIN frames] :
        /\ \A i, j \in 1 .. n : i < j => taken[i] < taken[j]
        /\ motorWaiting' = motorWaiting \o [i \in 1 .. n |-> frames[taken[i]]]
        /\ motorRefused' = motorRefused \cup {frames[i] : i \in DOMAIN frames \ Motor!Range(taken)}
  BY DEF Motor!Offer
<1>2. PICK taken \in [1 .. n -> DOMAIN frames] :
        /\ \A i, j \in 1 .. n : i < j => taken[i] < taken[j]
        /\ motorWaiting' = motorWaiting \o [i \in 1 .. n |-> frames[taken[i]]]
        /\ motorRefused' = motorRefused \cup {frames[i] : i \in DOMAIN frames \ Motor!Range(taken)}
  BY <1>1
<1> DEFINE kept == [i \in 1 .. n |-> frames[taken[i]]]
<1>3. /\ n \in Nat /\ Len(frames) \in Nat /\ DOMAIN frames = 1 .. Len(frames)
      /\ \A i \in 1 .. n : taken[i] \in 1 .. Len(frames)
  BY <1>2
<1>4. /\ kept \in Seq(MotorFrames) /\ Len(kept) = n
      /\ \A i \in 1 .. n : kept[i] = frames[taken[i]]
  BY <1>3
<1> HIDE DEF kept
<1>5. /\ motorWaiting \in Seq(MotorFrames) /\ Len(motorWaiting) \in Nat
      /\ motorWaiting' = motorWaiting \o kept
  BY <1>2 DEF MotorInv, MotorTypes, kept
<1>6. /\ motorWaiting' \in Seq(MotorFrames) /\ Len(motorWaiting') = Len(motorWaiting) + n
      /\ \A i \in 1 .. Len(motorWaiting) : motorWaiting'[i] = motorWaiting[i]
      /\ \A i \in Len(motorWaiting) + 1 .. Len(motorWaiting') : motorWaiting'[i] = kept[i - Len(motorWaiting)]
  <2>1. /\ motorWaiting \o kept \in Seq(MotorFrames)
        /\ Len(motorWaiting \o kept) = Len(motorWaiting) + n
        /\ \A i \in 1 .. Len(motorWaiting) + n : (motorWaiting \o kept)[i] =
             IF i <= Len(motorWaiting) THEN motorWaiting[i] ELSE kept[i - Len(motorWaiting)]
    BY <1>4, <1>5, ConcatProperties
  <2>2. QED
    BY <1>3, <1>5, <2>1
<1>7. \A i \in 1 .. Len(motorWaiting') :
        \/ i \in 1 .. Len(motorWaiting) /\ motorWaiting'[i] = motorWaiting[i]
        \/ /\ i - Len(motorWaiting) \in 1 .. n
           /\ motorWaiting'[i] = frames[taken[i - Len(motorWaiting)]]
  BY <1>3, <1>4, <1>5, <1>6
<1>8. \A i \in 1 .. n : Len(motorWaiting) + i \in 1 .. Len(motorWaiting') /\
        motorWaiting'[Len(motorWaiting) + i] = frames[taken[i]]
  <2> SUFFICES ASSUME NEW i \in 1 .. n
               PROVE  Len(motorWaiting) + i \in 1 .. Len(motorWaiting') /\
                        motorWaiting'[Len(motorWaiting) + i] = frames[taken[i]]
    OBVIOUS
  <2>1. /\ Len(motorWaiting) + i \in Len(motorWaiting) + 1 .. Len(motorWaiting')
        /\ Len(motorWaiting) + i - Len(motorWaiting) = i
    BY <1>3, <1>5, <1>6
  <2>2. QED
    BY <1>3, <1>4, <1>5, <1>6, <2>1
<1>9. \A i \in 1 .. Len(motorWaiting') : IsMotorFrame(motorWaiting'[i])
  <2> SUFFICES ASSUME NEW i \in 1 .. Len(motorWaiting')
               PROVE  IsMotorFrame(motorWaiting'[i])
    OBVIOUS
  <2>1. CASE i \in 1 .. Len(motorWaiting) /\ motorWaiting'[i] = motorWaiting[i]
    BY <2>1 DEF MotorInv, MotorTypes
  <2>2. CASE /\ i - Len(motorWaiting) \in 1 .. n
             /\ motorWaiting'[i] = frames[taken[i - Len(motorWaiting)]]
    BY <1>3, <2>2
  <2>3. QED
    BY <1>7, <2>1, <2>2
<1>10. \A i \in 1 .. Len(frames) :
        frames[i] \in motorRefused' \/ \E k \in 1 .. n : taken[k] = i
  BY <1>2, <1>3 DEF Motor!Range
<1>11. WaitingExplained'
  <2> SUFFICES ASSUME NEW i \in 1 .. Len(motorWaiting'), NEW a \in AnswersOf(motorWaiting'[i])
               PROVE  \/ a \in motorRefused'
                      \/ Heard(a)'
                      \/ \E j \in 1 .. Len(motorWaiting') :
                           motorWaiting'[j] = a /\ (a.priority = 8 => j < i)
    BY DEF WaitingExplained, AnswersOf
  <2>1. CASE i \in 1 .. Len(motorWaiting) /\ motorWaiting'[i] = motorWaiting[i]
    <3>1. \/ a \in motorRefused
          \/ Heard(a)
          \/ \E j \in 1 .. Len(motorWaiting) : motorWaiting[j] = a /\ (a.priority = 8 => j < i)
      BY <2>1 DEF MotorInv, WaitingExplained
    <3>2. 1 .. Len(motorWaiting) \subseteq 1 .. Len(motorWaiting')
      BY <1>3, <1>5, <1>6
    <3>3. QED
      BY <1>2, <1>6, <3>1, <3>2 DEF Heard
  <2>2. CASE /\ i - Len(motorWaiting) \in 1 .. n
             /\ motorWaiting'[i] = frames[taken[i - Len(motorWaiting)]]
    <3>1. PICK k \in 1 .. n : i = Len(motorWaiting) + k /\ motorWaiting'[i] = frames[taken[k]]
      BY <1>5, <2>2
    <3>2. PICK m \in 1 .. taken[k] - 1 : frames[m] = a
      BY <1>3, <3>1 DEF Explained
    <3>3. m \in 1 .. Len(frames) /\ m < taken[k]
      BY <1>3, <3>2
    <3>4. CASE a \in motorRefused'
      BY <3>4
    <3>5. CASE \E p \in 1 .. n : taken[p] = m
      <4>1. PICK p \in 1 .. n : taken[p] = m
        BY <3>5
      <4>2. p < k
        <5>1. k < p => taken[k] < taken[p]
          BY <1>2
        <5>2. QED
          BY <1>3, <3>3, <4>1, <5>1
      <4>3. Len(motorWaiting) + p < i
        BY <1>3, <1>5, <3>1, <4>2
      <4>4. QED
        BY <1>8, <3>2, <4>1, <4>3
    <3>6. QED
      BY <1>10, <3>2, <3>3, <3>4, <3>5
  <2>3. QED
    BY <1>7, <2>1, <2>2
<1>12. HeardExplained'
  <2>1. \A a : Waits(a) => Waits(a)'
    <3>1. 1 .. Len(motorWaiting) \subseteq 1 .. Len(motorWaiting')
      BY <1>3, <1>5, <1>6
    <3>2. QED
      BY <1>6, <3>1 DEF Waits
  <2>2. motorRefused \subseteq motorRefused'
    BY <1>2
  <2>3. QED
    BY <2>1, <2>2 DEF MotorInv, HeardExplained, AnswersOf
<1>13. QED
  BY <1>6, <1>9, <1>11, <1>12

\* A nonempty set of natural numbers has a least element.
LEMMA LeastElement ==
  ASSUME NEW T \in SUBSET Nat, T # {}
  PROVE  \E m \in T : \A k \in T : m <= k
<1> DEFINE Below == {1 .. k : k \in T}
<1>1. Below \subseteq FiniteSubsetsOf(Nat) /\ Below # {}
  <2>1. \A k \in T : 1 .. k \in SUBSET Nat /\ IsFiniteSet(1 .. k)
    BY FS_Interval
  <2> QED BY <2>1 DEF FiniteSubsetsOf
<1>2. PICK B \in Below : \A C \in Below : <<C, B>> \notin StrictSubsetOrdering(Nat)
  BY <1>1, FS_StrictSubsetOrderingWellFounded, WFMin
<1>3. PICK m \in T : B = 1 .. m
  BY <1>2
<1>4. ASSUME NEW k \in T PROVE m <= k
  <2>1. ~(1 .. k \subseteq 1 .. m /\ 1 .. k # 1 .. m)
    <3>1. <<1 .. k, 1 .. m>> \notin StrictSubsetOrdering(Nat)
      BY <1>2, <1>3
    <3>2. 1 .. k \in SUBSET Nat /\ 1 .. m \in SUBSET Nat
      OBVIOUS
    <3> QED BY <3>1, <3>2 DEF StrictSubsetOrdering
  <2>2. k < m => 1 .. k \subseteq 1 .. m /\ m \in 1 .. m /\ m \notin 1 .. k
    OBVIOUS
  <2> QED BY <2>1, <2>2
<1> QED BY <1>3, <1>4

\* The frame the queue sends next is of the most urgent, and of those the first.
LEMMA MostUrgentIsNext ==
  ASSUME motorWaiting \in Seq(MotorFrames), motorWaiting # <<>>
  PROVE  /\ Motor!NextUp \in 1 .. Len(motorWaiting)
         /\ \A j \in 1 .. Len(motorWaiting) :
              \/ motorWaiting[Motor!NextUp].priority < motorWaiting[j].priority
              \/ /\ motorWaiting[Motor!NextUp].priority = motorWaiting[j].priority
                 /\ Motor!NextUp <= j
<1> DEFINE Places == 1 .. Len(motorWaiting)
           Urgent == {j \in Places : motorWaiting[j].priority = 8}
<1>1. /\ Len(motorWaiting) \in Nat /\ DOMAIN motorWaiting = Places /\ Places # {}
      /\ \A j \in Places : motorWaiting[j].priority \in {8, 12}
  <2>1. Len(motorWaiting) \in Nat /\ DOMAIN motorWaiting = Places /\ Places # {}
    OBVIOUS
  <2>2. \A j \in Places : motorWaiting[j] \in MotorFrames
    OBVIOUS
  <2>3. \A f \in MotorFrames : f.priority \in {8, 12}
    BY DEF MotorFrames
  <2>4. QED
    BY <2>1, <2>2, <2>3
<1>2. \E i \in Places : \A j \in Places :
        \/ motorWaiting[i].priority < motorWaiting[j].priority
        \/ motorWaiting[i].priority = motorWaiting[j].priority /\ i <= j
  <2>1. CASE Urgent # {}
    <3>1. Urgent \in SUBSET Nat
      BY <1>1
    <3>2. PICK m \in Urgent : \A k \in Urgent : m <= k
      BY <2>1, <3>1, LeastElement
    <3>3. /\ m \in Places /\ motorWaiting[m].priority = 8
          /\ \A j \in Places : motorWaiting[j].priority = 8 => m <= j
      BY <3>2
    <3>4. \A j \in Places : \/ 8 < motorWaiting[j].priority
                            \/ 8 = motorWaiting[j].priority /\ m <= j
      <4>1. 8 < 12
        OBVIOUS
      <4>2. QED
        BY <1>1, <3>3, <4>1
    <3>5. QED
      BY <3>3, <3>4
  <2>2. CASE Urgent = {}
    <3>1. Places \in SUBSET Nat
      BY <1>1
    <3>2. PICK m \in Places : \A k \in Places : m <= k
      BY <1>1, <3>1, LeastElement
    <3>3. \A j \in Places : motorWaiting[j].priority = 12
      BY <1>1, <2>2
    <3>4. QED
      BY <3>2, <3>3
  <2>3. QED
    BY <2>1, <2>2
<1>3. QED
  BY <1>1, <1>2 DEF Motor!NextUp

\* A frame leaves the queue, heard or lost: the others keep their order.
LEMMA FrameLeaves ==
  ASSUME MotorInv, NEW p \in 1 .. Len(motorWaiting), NEW f, f = motorWaiting[p],
         motorWaiting' = Motor!RemoveAt(motorWaiting, p),
         motorRefused \subseteq motorRefused', \A a : Heard(a) => Heard(a)',
         f \in motorRefused' \/ Heard(f)'
  PROVE  /\ motorWaiting' \in Seq(MotorFrames)
         /\ \A i \in 1 .. Len(motorWaiting') : IsMotorFrame(motorWaiting'[i])
         /\ WaitingExplained'
         /\ \A a : Waits(a) => Waits(a)' \/ a = f
<1>1. motorWaiting \in Seq(MotorFrames) /\ Len(motorWaiting) \in Nat
  BY DEF MotorInv, MotorTypes
<1> DEFINE before == SubSeq(motorWaiting, 1, p - 1)
           after == SubSeq(motorWaiting, p + 1, Len(motorWaiting))
<1>2. /\ before \in Seq(MotorFrames) /\ Len(before) = p - 1
      /\ \A i \in 1 .. p - 1 : before[i] = motorWaiting[i]
  BY <1>1
<1>3. /\ after \in Seq(MotorFrames) /\ Len(after) = Len(motorWaiting) - p
      /\ \A i \in 1 .. Len(motorWaiting) - p : after[i] = motorWaiting[p + i]
  BY <1>1
<1>4. motorWaiting' = before \o after
  BY DEF Motor!RemoveAt
<1> HIDE DEF before, after
<1>5. /\ before \o after \in Seq(MotorFrames)
      /\ Len(before \o after) = Len(before) + Len(after)
      /\ \A i \in 1 .. Len(before) + Len(after) : (before \o after)[i] =
           IF i <= Len(before) THEN before[i] ELSE after[i - Len(before)]
  BY <1>2, <1>3, ConcatProperties
<1>6. motorWaiting' \in Seq(MotorFrames) /\ Len(motorWaiting') = Len(motorWaiting) - 1
  BY <1>1, <1>2, <1>3, <1>4, <1>5
<1>7. \A i \in 1 .. Len(motorWaiting') :
        motorWaiting'[i] = IF i < p THEN before[i] ELSE after[i - (p - 1)]
  BY <1>1, <1>2, <1>3, <1>4, <1>5, <1>6
<1>8. \A i \in 1 .. Len(motorWaiting') :
        \/ i < p /\ i \in 1 .. Len(motorWaiting) /\ motorWaiting'[i] = motorWaiting[i]
        \/ i >= p /\ i + 1 \in 1 .. Len(motorWaiting) /\ motorWaiting'[i] = motorWaiting[i + 1]
  <2> SUFFICES ASSUME NEW i \in 1 .. Len(motorWaiting')
               PROVE  \/ /\ i < p /\ i \in 1 .. Len(motorWaiting)
                         /\ motorWaiting'[i] = motorWaiting[i]
                      \/ /\ i >= p /\ i + 1 \in 1 .. Len(motorWaiting)
                         /\ motorWaiting'[i] = motorWaiting[i + 1]
    OBVIOUS
  <2>1. CASE i < p
    BY <1>1, <1>2, <1>6, <1>7, <2>1
  <2>2. CASE i >= p
    <3>1. i - (p - 1) \in 1 .. Len(motorWaiting) - p /\ p + (i - (p - 1)) = i + 1
      BY <1>1, <1>6, <2>2
    <3>2. motorWaiting'[i] = motorWaiting[i + 1]
      BY <1>1, <1>3, <1>7, <2>2, <3>1
    <3>3. QED
      BY <1>1, <1>6, <2>2, <3>2
  <2>3. QED
    BY <1>1, <1>6, <2>1, <2>2
<1>9. \A j \in 1 .. Len(motorWaiting) :
        \/ j < p /\ j \in 1 .. Len(motorWaiting') /\ motorWaiting'[j] = motorWaiting[j]
        \/ j = p
        \/ j > p /\ j - 1 \in 1 .. Len(motorWaiting') /\ motorWaiting'[j - 1] = motorWaiting[j]
  <2> SUFFICES ASSUME NEW j \in 1 .. Len(motorWaiting), j # p
               PROVE  \/ /\ j < p /\ j \in 1 .. Len(motorWaiting')
                         /\ motorWaiting'[j] = motorWaiting[j]
                      \/ /\ j > p /\ j - 1 \in 1 .. Len(motorWaiting')
                         /\ motorWaiting'[j - 1] = motorWaiting[j]
    OBVIOUS
  <2>1. CASE j < p
    BY <1>1, <1>6, <1>8, <2>1
  <2>2. CASE j > p
    <3>1. j - 1 \in 1 .. Len(motorWaiting') /\ j - 1 >= p /\ (j - 1) + 1 = j
      BY <1>1, <1>6, <2>2
    <3>2. QED
      BY <1>8, <2>2, <3>1
  <2>3. QED
    BY <1>1, <2>1, <2>2
<1>10. \A i \in 1 .. Len(motorWaiting') : IsMotorFrame(motorWaiting'[i])
  BY <1>8 DEF MotorInv, MotorTypes
<1>11. \A a : Waits(a) => Waits(a)' \/ a = f
  BY <1>9 DEF Waits
<1>12. WaitingExplained'
  <2> SUFFICES ASSUME NEW i \in 1 .. Len(motorWaiting'), NEW a \in AnswersOf(motorWaiting'[i])
               PROVE  \/ a \in motorRefused'
                      \/ Heard(a)'
                      \/ \E j \in 1 .. Len(motorWaiting') :
                           motorWaiting'[j] = a /\ (a.priority = 8 => j < i)
    BY DEF WaitingExplained, AnswersOf
  <2>1. PICK k \in 1 .. Len(motorWaiting) :
          motorWaiting'[i] = motorWaiting[k] /\ ((k = i /\ i < p) \/ (k = i + 1 /\ i >= p))
    BY <1>8
  <2>2. \/ a \in motorRefused
        \/ Heard(a)
        \/ \E j \in 1 .. Len(motorWaiting) : motorWaiting[j] = a /\ (a.priority = 8 => j < k)
    BY <2>1 DEF MotorInv, WaitingExplained
  <2>3. ASSUME NEW j \in 1 .. Len(motorWaiting), motorWaiting[j] = a, a.priority = 8 => j < k,
               j # p
        PROVE  \E m \in 1 .. Len(motorWaiting') :
                 motorWaiting'[m] = a /\ (a.priority = 8 => m < i)
    <3>1. CASE j < p
      <4>1. j \in 1 .. Len(motorWaiting') /\ motorWaiting'[j] = a
        BY <1>1, <1>9, <2>3, <3>1
      <4>2. a.priority = 8 => j < i
        BY <1>1, <2>1, <2>3, <3>1
      <4>3. QED
        BY <4>1, <4>2
    <3>2. CASE j > p
      <4>1. j - 1 \in 1 .. Len(motorWaiting') /\ motorWaiting'[j - 1] = a
        BY <1>1, <1>9, <2>3, <3>2
      <4>2. a.priority = 8 => j - 1 < i
        BY <1>1, <2>1, <2>3, <3>2
      <4>3. QED
        BY <4>1, <4>2
    <3>3. QED
      BY <1>1, <2>3, <3>1, <3>2
  <2>4. a = f => a \in motorRefused' \/ Heard(a)'
    OBVIOUS
  <2>5. QED
    BY <2>2, <2>3, <2>4
<1>13. QED
  BY <1>6, <1>10, <1>11, <1>12

\* A waiting frame is lost: it did not leave the server.
LEMMA LossKeepsExplained ==
  ASSUME MotorInv, Motor!FrameIsLost
  PROVE  MotorInv'
<1>1. PICK p \in 1 .. Len(motorWaiting) :
        /\ motorWaiting' = Motor!RemoveAt(motorWaiting, p)
        /\ motorRefused' = motorRefused \cup {motorWaiting[p]}
  BY DEF Motor!FrameIsLost, MotorInv, MotorTypes
<1>2. PICK f : f = motorWaiting[p] /\ motorRefused' = motorRefused \cup {f}
  BY <1>1
<1>3. UNCHANGED <<motorToServer, motorPending, motorHeard, motorSent>>
  BY DEF Motor!FrameIsLost
<1>4. /\ \A a : Heard(a) => Heard(a)'
      /\ motorRefused \subseteq motorRefused' /\ f \in motorRefused'
  BY <1>2, <1>3 DEF Heard
<1>5. /\ motorWaiting' \in Seq(MotorFrames)
      /\ \A i \in 1 .. Len(motorWaiting') : IsMotorFrame(motorWaiting'[i])
      /\ WaitingExplained'
      /\ \A a : Waits(a) => Waits(a)' \/ a = f
  BY <1>1, <1>2, <1>4, FrameLeaves
<1>6. MotorTypes'
  BY <1>3, <1>5 DEF MotorInv, MotorTypes, IsMotorCommand, IsMotorFrame
<1>7. HeardExplained'
  BY <1>3, <1>4, <1>5 DEF MotorInv, HeardExplained, AnswersOf
<1>8. QED
  BY <1>5, <1>6, <1>7 DEF MotorInv

\* The client hears a frame whole, and an acknowledgement not before its urgent
\* answers.
LEMMA HearingKeepsExplained ==
  ASSUME MotorInv, Motor!ClientReceives
  PROVE  MotorInv'
<1>1. /\ motorWaiting \in Seq(MotorFrames) /\ motorWaiting # <<>> /\ Len(motorWaiting) \in Nat
      /\ motorHeard \in Seq(MotorFrames) /\ Len(motorHeard) \in Nat
  BY DEF Motor!ClientReceives, MotorInv, MotorTypes
<1>2. PICK p \in 1 .. Len(motorWaiting) :
      /\ p = Motor!NextUp
      /\ \A j \in 1 .. Len(motorWaiting) :
           \/ motorWaiting[p].priority < motorWaiting[j].priority
           \/ motorWaiting[p].priority = motorWaiting[j].priority /\ p <= j
  BY <1>1, MostUrgentIsNext
<1>3. PICK f : f = motorWaiting[p]
  OBVIOUS
<1>4. IsMotorFrame(f) /\ f \in MotorFrames
  BY <1>3, <1>2 DEF MotorInv, MotorTypes, IsMotorFrame
<1>5. /\ motorWaiting' = Motor!RemoveAt(motorWaiting, p)
      /\ motorHeard' = Append(motorHeard, f)
      /\ UNCHANGED <<motorToServer, motorPending, motorRefused, motorSent>>
  BY <1>3, <1>2, <1>4 DEF Motor!ClientReceives, IsMotorFrame
<1>6. /\ motorHeard' \in Seq(MotorFrames) /\ Len(motorHeard') = Len(motorHeard) + 1
      /\ \A i \in 1 .. Len(motorHeard) : motorHeard'[i] = motorHeard[i]
      /\ motorHeard'[Len(motorHeard) + 1] = f
  BY <1>1, <1>4, <1>5, AppendProperties
<1>7. 1 .. Len(motorHeard) \subseteq 1 .. Len(motorHeard') /\
        Len(motorHeard) + 1 \in 1 .. Len(motorHeard')
  BY <1>1, <1>6
<1>8. (\A a : Heard(a) => Heard(a)') /\ Heard(f)'
  BY <1>6, <1>7 DEF Heard
<1>9. /\ motorWaiting' \in Seq(MotorFrames)
      /\ \A i \in 1 .. Len(motorWaiting') : IsMotorFrame(motorWaiting'[i])
      /\ WaitingExplained'
      /\ \A a : Waits(a) => Waits(a)' \/ a = f
  BY <1>3, <1>2, <1>5, <1>8, FrameLeaves
<1>10. MotorTypes'
  BY <1>5, <1>6, <1>9 DEF MotorInv, MotorTypes, IsMotorCommand, IsMotorFrame
<1>11. HeardExplained'
  <2> SUFFICES ASSUME NEW i \in 1 .. Len(motorHeard'), NEW a \in AnswersOf(motorHeard'[i])
               PROVE  \/ a \in motorRefused'
                      \/ \E j \in 1 .. Len(motorHeard') :
                           motorHeard'[j] = a /\ (a.priority = 8 => j < i)
                      \/ a.priority # 8 /\ Waits(a)'
    BY DEF HeardExplained, AnswersOf
  <2>1. CASE i \in 1 .. Len(motorHeard)
    <3>1. \/ a \in motorRefused
          \/ \E j \in 1 .. Len(motorHeard) : motorHeard[j] = a /\ (a.priority = 8 => j < i)
          \/ a.priority # 8 /\ Waits(a)
      BY <1>6, <2>1 DEF MotorInv, HeardExplained
    <3>2. QED
      BY <1>5, <1>6, <1>7, <1>9, <3>1
  <2>2. CASE i = Len(motorHeard) + 1
    <3>1. a \in AnswersOf(f) /\ f.message = "commandAck" /\ f.priority = 8
      BY <1>4, <1>6, <2>2 DEF AnswersOf, IsMotorFrame
    <3>2. \/ a \in motorRefused
          \/ Heard(a)
          \/ \E j \in 1 .. Len(motorWaiting) : motorWaiting[j] = a /\ (a.priority = 8 => j < p)
      BY <1>3, <1>2, <3>1 DEF MotorInv, WaitingExplained
    <3>3. CASE a \in motorRefused
      BY <1>5, <3>3
    <3>4. CASE Heard(a)
      <4>1. PICK j \in 1 .. Len(motorHeard) : motorHeard[j] = a
        BY <3>4 DEF Heard
      <4>2. j < i /\ j \in 1 .. Len(motorHeard') /\ motorHeard'[j] = a
        BY <1>1, <1>6, <1>7, <2>2, <4>1
      <4>3. QED
        BY <4>2
    <3>5. ASSUME NEW j \in 1 .. Len(motorWaiting), motorWaiting[j] = a, a.priority = 8 => j < p
          PROVE  a.priority # 8 /\ Waits(a)'
      <4>1. a.priority # 8
        BY <1>3, <1>1, <1>2, <3>1, <3>5
      <4>2. Waits(a) /\ a # f
        BY <3>1, <3>5, <4>1 DEF Waits
      <4>3. QED
        BY <1>9, <4>1, <4>2
    <3>6. QED
      BY <3>2, <3>3, <3>4, <3>5
  <2>3. QED
    BY <1>1, <1>6, <2>1, <2>2
<1>12. QED
  BY <1>9, <1>10, <1>11 DEF MotorInv

\* What the server answers with: values the client can read, acknowledged last.
LEMMA FramesAreWritten ==
  ASSUME NEW c, c.no \in Nat, c.command \in Motor!Commands \cup {"none"}
  PROVE  /\ \A m \in MotorMessages \ {"commandAck"} :
              /\ IsMotorFrame(Motor!Response(c, m)) /\ Motor!Response(c, m).message = m
              /\ IsMotorFrame(Motor!Telemetry(c, m)) /\ Motor!Telemetry(c, m).message = m
         /\ \A status \in {"success", "invalidState", "categoryError", "invalidPayload"} :
              /\ status = "invalidPayload" => c.command = "selectControlMode"
              => /\ IsMotorFrame(Motor!Ack(c, status))
                 /\ Motor!Ack(c, status).message = "commandAck"
                 /\ Motor!Ack(c, status).status = status
                 /\ Motor!Ack(c, status).no = c.no
                 /\ Motor!Ack(c, status).command = c.command
<1>1. \A m \in MotorMessages : /\ Motor!Responds(m) \in Nat
                               /\ Motor!Responds(m) >= Motor!Expects(m)
  BY DEF MotorMessages, Motor!Responds, Motor!Expects
<1>2. "commandAck" \in MotorMessages
  BY DEF MotorMessages
<1>3. \A m \in MotorMessages \ {"commandAck"} :
        IsMotorFrame(Motor!Response(c, m)) /\ Motor!Response(c, m).message = m
  BY <1>1 DEF Motor!Response, Motor!Frame, Motor!Priority, IsMotorFrame, MotorFrames
<1>4. \A m \in MotorMessages \ {"commandAck"} :
        IsMotorFrame(Motor!Telemetry(c, m)) /\ Motor!Telemetry(c, m).message = m
  BY <1>1 DEF Motor!Telemetry, Motor!Frame, Motor!Priority, IsMotorFrame, MotorFrames
<1>5. ASSUME NEW status \in {"success", "invalidState", "categoryError", "invalidPayload"},
             status = "invalidPayload" => c.command = "selectControlMode"
      PROVE  /\ IsMotorFrame(Motor!Ack(c, status))
             /\ Motor!Ack(c, status).message = "commandAck"
             /\ Motor!Ack(c, status).status = status
             /\ Motor!Ack(c, status).no = c.no
             /\ Motor!Ack(c, status).command = c.command
  BY <1>1, <1>2, <1>5 DEF Motor!Ack, Motor!Frame, Motor!Priority, IsMotorFrame, MotorFrames
<1>6. QED
  BY <1>3, <1>4, <1>5

LEMMA AcknowledgedLast ==
  ASSUME NEW values \in Seq(MotorFrames),
         \A i \in 1 .. Len(values) : IsMotorFrame(values[i]) /\ values[i].message # "commandAck",
         NEW ack, IsMotorFrame(ack),
         \A a \in AnswersOf(ack) : \E i \in 1 .. Len(values) : values[i] = a
  PROVE  /\ Append(values, ack) \in Seq(MotorFrames) /\ Explained(Append(values, ack))
         /\ \A i \in 1 .. Len(Append(values, ack)) : IsMotorFrame(Append(values, ack)[i])
<1> DEFINE frames == Append(values, ack)
<1>1. ack \in MotorFrames /\ Len(values) \in Nat
  BY DEF IsMotorFrame
<1>2. /\ frames \in Seq(MotorFrames) /\ Len(frames) = Len(values) + 1
      /\ \A i \in 1 .. Len(values) : frames[i] = values[i]
      /\ frames[Len(values) + 1] = ack
  BY <1>1, AppendProperties
<1> HIDE DEF frames
<1>3. \A i \in 1 .. Len(frames) : \/ i \in 1 .. Len(values) /\ frames[i] = values[i]
                                  \/ i = Len(values) + 1 /\ frames[i] = ack
  BY <1>1, <1>2
<1>4. \A i \in 1 .. Len(frames) : IsMotorFrame(frames[i])
  BY <1>3
<1>5. ASSUME NEW i \in 1 .. Len(frames), NEW a \in AnswersOf(frames[i])
      PROVE  \E j \in 1 .. i - 1 : frames[j] = a
  <2>1. i = Len(values) + 1 /\ frames[i] = ack
    BY <1>3, <1>5 DEF AnswersOf
  <2>2. PICK j \in 1 .. Len(values) : values[j] = a
    BY <1>5, <2>1
  <2>3. j \in 1 .. i - 1 /\ frames[j] = a
    BY <1>1, <1>2, <2>1, <2>2
  <2>4. QED
    BY <2>3
<1>6. QED
  BY <1>2, <1>4, <1>5 DEF Explained, frames

LEMMA ValuesAreWritten ==
  ASSUME NEW c, IsMotorCommand(c)
  PROVE  /\ Motor!Values(c) \in Seq(MotorFrames)
         /\ \A i \in 1 .. Len(Motor!Values(c)) :
              IsMotorFrame(Motor!Values(c)[i]) /\ Motor!Values(c)[i].message # "commandAck"
<1>1. \A m \in MotorMessages \ {"commandAck"} :
        /\ IsMotorFrame(Motor!Response(c, m)) /\ Motor!Response(c, m).message # "commandAck"
        /\ IsMotorFrame(Motor!Telemetry(c, m)) /\ Motor!Telemetry(c, m).message # "commandAck"
  <2>1. c.no \in Nat /\ c.command \in Motor!Commands \cup {"none"}
    BY DEF IsMotorCommand
  <2>2. QED
    BY <2>1, FramesAreWritten
<1>2. {"motorTypeResponse", "selectControlModeResponse", "electricalParamsResponse",
       "mechanicalParamsResponse", "telemetryElectricalResponse", "telemetryStatusResponse"}
        \subseteq MotorMessages \ {"commandAck"}
  BY DEF MotorMessages
<1> DEFINE Written == {f \in MotorFrames : IsMotorFrame(f) /\ f.message # "commandAck"}
<1>3. \A m \in MotorMessages \ {"commandAck"} :
        Motor!Response(c, m) \in Written /\ Motor!Telemetry(c, m) \in Written
  BY <1>1 DEF IsMotorFrame
<1>4. \A f \in Written : IsMotorFrame(f) /\ f.message # "commandAck" /\ f \in MotorFrames
  OBVIOUS
<1> HIDE DEF Written
<1>5. Motor!Values(c) \in Seq(Written)
  BY <1>2, <1>3 DEF Motor!Values
<1>6. QED
  BY <1>4, <1>5

LEMMA CompletionIsExplained ==
  ASSUME NEW c, IsMotorCommand(c), NEW status \in Motor!Statuses(c)
  PROVE  /\ Motor!Completion(c, status) \in Seq(MotorFrames)
         /\ Explained(Motor!Completion(c, status))
         /\ \A i \in 1 .. Len(Motor!Completion(c, status)) :
              IsMotorFrame(Motor!Completion(c, status)[i])
<1>1. c.no \in Nat /\ c.command \in Motor!Commands \cup {"none"}
  BY DEF IsMotorCommand
<1>2. status \in {"success", "invalidState"}
  BY DEF Motor!Statuses
<1>3. PICK ack : ack = Motor!Ack(c, status)
  OBVIOUS
<1>4. /\ IsMotorFrame(ack) /\ ack.message = "commandAck" /\ ack.status = status
      /\ ack.no = c.no /\ ack.command = c.command
  BY <1>1, <1>2, <1>3, FramesAreWritten
<1>5. /\ Motor!Values(c) \in Seq(MotorFrames)
      /\ \A i \in 1 .. Len(Motor!Values(c)) :
           IsMotorFrame(Motor!Values(c)[i]) /\ Motor!Values(c)[i].message # "commandAck"
  BY ValuesAreWritten
<1>6. Motor!Values(ack) = Motor!Values(c)
  BY <1>4 DEF Motor!Values, Motor!Response, Motor!Telemetry, Motor!Frame
<1>7. AnswersOf(ack) \subseteq Motor!Range(Motor!Values(c))
  BY <1>2, <1>4, <1>6 DEF AnswersOf
<1>8. \A a \in AnswersOf(ack) :
        \E i \in 1 .. Len(Motor!Values(c)) : Motor!Values(c)[i] = a
  BY <1>5, <1>7 DEF Motor!Range
<1>9. QED
  BY <1>3, <1>4, <1>5, <1>8, AcknowledgedLast DEF Motor!Completion

LEMMA ErrorIsExplained ==
  ASSUME NEW c, IsMotorCommand(c)
  PROVE  /\ Motor!ReasonThenAck(c) \in Seq(MotorFrames) /\ Explained(Motor!ReasonThenAck(c))
         /\ \A i \in 1 .. Len(Motor!ReasonThenAck(c)) : IsMotorFrame(Motor!ReasonThenAck(c)[i])
<1>1. c.no \in Nat /\ c.command \in Motor!Commands \cup {"none"}
  BY DEF IsMotorCommand
<1>2. PICK ack, reason : /\ ack = Motor!Ack(c, "categoryError")
                         /\ reason = Motor!Response(c, "categoryError")
  OBVIOUS
<1>3. /\ IsMotorFrame(ack) /\ ack.message = "commandAck" /\ ack.status = "categoryError"
      /\ ack.no = c.no /\ ack.command = c.command
  BY <1>1, <1>2, FramesAreWritten
<1>4. "categoryError" \in MotorMessages \ {"commandAck"}
  BY DEF MotorMessages
<1>5. IsMotorFrame(reason) /\ reason.message # "commandAck" /\ reason \in MotorFrames
  BY <1>1, <1>2, <1>4, FramesAreWritten DEF IsMotorFrame
<1>6. AnswersOf(ack) = {reason}
  BY <1>2, <1>3 DEF AnswersOf, Motor!Response, Motor!Frame
<1> DEFINE values == <<reason>>
<1>7. /\ values \in Seq(MotorFrames) /\ Len(values) = 1 /\ values[1] = reason
      /\ \A i \in 1 .. Len(values) : i = 1
  BY <1>5
<1>8. Motor!ReasonThenAck(c) = Append(values, ack)
  BY <1>2 DEF Motor!ReasonThenAck
<1> HIDE DEF values
<1>9. /\ \A i \in 1 .. Len(values) : IsMotorFrame(values[i]) /\ values[i].message # "commandAck"
      /\ \A a \in AnswersOf(ack) : \E i \in 1 .. Len(values) : values[i] = a
  BY <1>5, <1>6, <1>7
<1>10. QED
  BY <1>3, <1>7, <1>8, <1>9, AcknowledgedLast

LEMMA RejectionIsExplained ==
  ASSUME NEW c, IsMotorCommand(c), ~Motor!Understands(c)
  PROVE  LET frames == <<Motor!Ack(c, "invalidPayload")>>
         IN /\ frames \in Seq(MotorFrames) /\ Explained(frames)
            /\ \A i \in 1 .. Len(frames) : IsMotorFrame(frames[i])
<1>1. c.no \in Nat /\ c.command \in Motor!Commands \cup {"none"}
  BY DEF IsMotorCommand
<1>2. c.command = "selectControlMode"
  BY DEF IsMotorCommand, Motor!Understands
<1>3. PICK ack : ack = Motor!Ack(c, "invalidPayload")
  OBVIOUS
<1>4. /\ IsMotorFrame(ack) /\ ack.message = "commandAck" /\ ack.status = "invalidPayload"
  BY <1>1, <1>2, <1>3, FramesAreWritten
<1>5. AnswersOf(ack) = {}
  BY <1>4 DEF AnswersOf
<1> DEFINE values == <<>>
<1>6. /\ values \in Seq(MotorFrames) /\ Len(values) = 0 /\ <<ack>> = Append(values, ack)
  OBVIOUS
<1> HIDE DEF values
<1>7. \A i \in 1 .. Len(values) : IsMotorFrame(values[i]) /\ values[i].message # "commandAck"
  BY <1>6
<1>8. /\ Append(values, ack) \in Seq(MotorFrames) /\ Explained(Append(values, ack))
      /\ \A i \in 1 .. Len(Append(values, ack)) : IsMotorFrame(Append(values, ack)[i])
  BY <1>4, <1>5, <1>6, <1>7, AcknowledgedLast
<1>9. QED
  BY <1>3, <1>6, <1>8

LEMMA FaultIsExplained ==
  LET frames == <<Motor!Telemetry(Motor!Fault, "telemetryStatusResponse")>>
  IN /\ frames \in Seq(MotorFrames) /\ Explained(frames)
     /\ \A i \in 1 .. Len(frames) : IsMotorFrame(frames[i])
<1>1. PICK f : f = Motor!Telemetry(Motor!Fault, "telemetryStatusResponse")
  OBVIOUS
<1>2. "telemetryStatusResponse" \in MotorMessages \ {"commandAck"}
  BY DEF MotorMessages
<1>3. Motor!Fault.no \in Nat /\ Motor!Fault.command \in Motor!Commands \cup {"none"}
  BY DEF Motor!Fault
<1>4. IsMotorFrame(f) /\ f.message # "commandAck" /\ f \in MotorFrames
  BY <1>1, <1>2, <1>3, FramesAreWritten DEF IsMotorFrame
<1>5. AnswersOf(f) = {}
  BY <1>4 DEF AnswersOf
<1>6. QED
  BY <1>1, <1>4, <1>5 DEF Explained

LEMMA MotorStep ==
  ASSUME MotorInv, [Motor!Next]_(Motor!vars)
  PROVE  MotorInv'
<1>1. ASSUME NEW command \in Motor!Commands, NEW defined \in BOOLEAN, Motor!Send(command, defined)
      PROVE  MotorInv'
  <2>1. /\ motorSent \in Nat /\ motorSent' = motorSent + 1
        /\ motorToServer' = <<[no |-> motorSent', command |-> command,
                               bytes |-> Motor!Written(command), defined |-> defined]>>
        /\ command # "selectControlMode" => defined
        /\ UNCHANGED <<motorPending, motorWaiting, motorRefused, motorHeard>>
    BY <1>1 DEF Motor!Send, MotorInv, MotorTypes
  <2>2. Motor!Written(command) >= Motor!Reads(command)
    BY DEF Motor!Written, Motor!Reads, Motor!Gains, Motor!Setpoints
  <2>3. motorToServer' # <<>> /\ IsMotorCommand(Head(motorToServer'))
    BY <2>1, <2>2 DEF IsMotorCommand
  <2>4. MotorTypes'
    BY <2>1, <2>3 DEF MotorInv, MotorTypes, IsMotorCommand, IsMotorFrame
  <2>5. QED
    BY <2>1, <2>4 DEF MotorInv, WaitingExplained, HeardExplained, AnswersOf, Heard, Waits
<1>2. ASSUME NEW frames \in Seq(MotorFrames), Explained(frames),
             \A i \in 1 .. Len(frames) : IsMotorFrame(frames[i]),
             Motor!Offer(frames), UNCHANGED <<motorHeard, motorSent>>,
             motorToServer' \in {motorToServer, <<>>}, motorPending' \subseteq motorPending
      PROVE  MotorInv'
  <2>1. /\ motorWaiting' \in Seq(MotorFrames)
        /\ \A i \in 1 .. Len(motorWaiting') : IsMotorFrame(motorWaiting'[i])
        /\ WaitingExplained' /\ HeardExplained'
    BY <1>2, OfferKeepsExplained
  <2>2. MotorTypes'
    BY <1>2, <2>1 DEF MotorInv, MotorTypes, IsMotorCommand, IsMotorFrame
  <2>3. QED
    BY <2>1, <2>2 DEF MotorInv
<1>3. ASSUME NEW observed \in BOOLEAN, Motor!Handle(observed)
      PROVE  MotorInv'
  <2>1. PICK c : c = Head(motorToServer)
    OBVIOUS
  <2>2. IsMotorCommand(c) /\ motorToServer' = <<>> /\ UNCHANGED <<motorHeard, motorSent>>
    BY <1>3, <2>1 DEF Motor!Handle, MotorInv, MotorTypes
  <2>3. CASE Motor!Understands(c)
    <3>1. /\ motorPending' \subseteq motorPending \cup {c}
          /\ UNCHANGED <<motorWaiting, motorRefused>>
      BY <1>3, <2>1, <2>3 DEF Motor!Handle
    <3>2. MotorTypes'
      BY <2>2, <3>1 DEF MotorInv, MotorTypes, IsMotorCommand, IsMotorFrame
    <3>3. QED
      BY <2>2, <3>1, <3>2 DEF MotorInv, WaitingExplained, HeardExplained, AnswersOf, Heard, Waits
  <2>4. CASE ~Motor!Understands(c)
    <3>1. Motor!Offer(<<Motor!Ack(c, "invalidPayload")>>) /\ UNCHANGED motorPending
      BY <1>3, <2>1, <2>4 DEF Motor!Handle
    <3>2. PICK frames : frames = <<Motor!Ack(c, "invalidPayload")>>
      OBVIOUS
    <3>3. QED
      BY <1>2, <2>2, <2>4, <3>1, <3>2, RejectionIsExplained
  <2>5. QED
    BY <2>3, <2>4
<1>4. ASSUME NEW c \in motorPending, Motor!Complete(c)
      PROVE  MotorInv'
  <2>1. PICK status \in Motor!Statuses(c) : Motor!Offer(Motor!Completion(c, status))
    BY <1>4 DEF Motor!Complete
  <2>2. IsMotorCommand(c)
    BY DEF MotorInv, MotorTypes
  <2>3. /\ motorPending' \subseteq motorPending
        /\ UNCHANGED <<motorToServer, motorHeard, motorSent>>
    BY <1>4 DEF Motor!Complete
  <2>4. QED
    BY <1>2, <2>1, <2>2, <2>3, CompletionIsExplained
<1>5. ASSUME NEW c \in motorPending, Motor!SendCategoryError(c)
      PROVE  MotorInv'
  <2>1. IsMotorCommand(c)
    BY DEF MotorInv, MotorTypes
  <2>2. /\ Motor!Offer(Motor!ReasonThenAck(c)) /\ motorPending' \subseteq motorPending
        /\ UNCHANGED <<motorToServer, motorHeard, motorSent>>
    BY <1>5 DEF Motor!SendCategoryError
  <2>3. QED
    BY <1>2, <2>1, <2>2, ErrorIsExplained
<1>6. CASE Motor!BroadcastFaultStatus
  <2>1. /\ Motor!Offer(<<Motor!Telemetry(Motor!Fault, "telemetryStatusResponse")>>)
        /\ UNCHANGED <<motorToServer, motorPending, motorHeard, motorSent>>
    BY <1>6 DEF Motor!BroadcastFaultStatus
  <2>2. QED
    BY <1>2, <2>1, FaultIsExplained
<1>7. CASE Motor!ClientReceives
  BY <1>7, HearingKeepsExplained
<1>8. CASE Motor!FrameIsLost
  BY <1>8, LossKeepsExplained
<1>9. CASE UNCHANGED Motor!vars
  <2>1. UNCHANGED <<motorToServer, motorPending, motorWaiting, motorRefused, motorHeard, motorSent>>
    BY <1>9 DEF Motor!vars
  <2>2. MotorTypes'
    BY <2>1 DEF MotorInv, MotorTypes, IsMotorCommand, IsMotorFrame
  <2>3. QED
    BY <2>1, <2>2 DEF MotorInv, WaitingExplained, HeardExplained, AnswersOf, Heard, Waits
<1>10. QED
  BY <1>1, <1>3, <1>4, <1>5, <1>6, <1>7, <1>8, <1>9 DEF Motor!Next

LEMMA MotorInvIsEnough ==
  ASSUME MotorInv
  PROVE  Motor!AnswersExplainAcks /\ Motor!NobodyMisreads
<1>1. /\ motorWaiting \in Seq(MotorFrames) /\ motorHeard \in Seq(MotorFrames)
      /\ DOMAIN motorWaiting = 1 .. Len(motorWaiting)
      /\ DOMAIN motorHeard = 1 .. Len(motorHeard) /\ Len(motorHeard) \in Nat
  BY DEF MotorInv, MotorTypes
<1>2. ASSUME NEW i \in 1 .. Len(motorHeard), motorHeard[i].message = "commandAck",
             NEW a \in AnswersOf(motorHeard[i]), a.priority = 8
      PROVE  Motor!HeardBefore(i, a) \/ a \in motorRefused
  <2>1. \/ a \in motorRefused
        \/ \E j \in 1 .. Len(motorHeard) : motorHeard[j] = a /\ j < i
    BY <1>2 DEF MotorInv, HeardExplained
  <2>2. ASSUME NEW j \in 1 .. Len(motorHeard), j < i
        PROVE  j \in 1 .. i - 1
    BY <1>1, <2>2
  <2>3. QED
    BY <2>1, <2>2 DEF Motor!HeardBefore
<1>3. Motor!AnswersExplainAcks
  BY <1>1, <1>2 DEF Motor!AnswersExplainAcks, AnswersOf, Motor!Priority
<1>4. \A i \in 1 .. Len(motorWaiting) :
        motorWaiting[i].status = "invalidPayload" => motorWaiting[i].command = "selectControlMode"
  BY DEF MotorInv, MotorTypes, IsMotorFrame
<1>5. ASSUME NEW i \in 1 .. Len(motorHeard), motorHeard[i].message = "commandAck",
             motorHeard[i].status = "success",
             NEW a \in Motor!Range(Motor!Values(motorHeard[i]))
      PROVE  \/ a \in motorRefused
             \/ \E j \in 1 .. Len(motorHeard) : motorHeard[j] = a
             \/ \E j \in 1 .. Len(motorWaiting) : motorWaiting[j] = a
  <2>1. a \in AnswersOf(motorHeard[i])
    BY <1>5 DEF AnswersOf
  <2>2. QED
    BY <2>1 DEF MotorInv, HeardExplained, Waits
<1>6. QED
  BY <1>1, <1>3, <1>4, <1>5 DEF Motor!NobodyMisreads

-----------------------------------------------------------------------------
(* The two categories side by side, as TLC runs them *)

LEMMA StepsOfCategories ==
  ASSUME [MCNext]_mcVars
  PROVE  [Upgrade!Next]_(Upgrade!vars) /\ [Motor!Next]_(Motor!vars)
BY DEF MCNext, mcVars, OfFirmwareUpgrade, OfFocMotor, upgradeVars, motorVars,
     Upgrade!vars, Motor!vars

\* FocMotorCategoryServer explains what it acknowledges, but for telemetry, which
\* may come after its acknowledgement, and its client reads every layout as it was
\* written, whatever completes in whatever order and whatever is refused or lost.
THEOREM MotorAnswersAreExplained ==
  Motor!Spec => [](Motor!AnswersExplainAcks /\ Motor!NobodyMisreads)
<1>1. Motor!Init => MotorInv
  BY MotorInit
<1>2. MotorInv /\ [Motor!Next]_(Motor!vars) => MotorInv'
  BY MotorStep
<1>3. MotorInv => Motor!AnswersExplainAcks /\ Motor!NobodyMisreads
  BY MotorInvIsEnough
<1>4. QED
  BY <1>1, <1>2, <1>3, PTL DEF Motor!Spec

LEMMA CategoriesSpec == MCSpec => Upgrade!Spec /\ Motor!Spec
<1>1. MCInit => Upgrade!Init /\ Motor!Init
  BY DEF MCInit
<1>2. [MCNext]_mcVars => [Upgrade!Next]_(Upgrade!vars) /\ [Motor!Next]_(Motor!vars)
  BY StepsOfCategories
<1>3. QED
  BY <1>1, <1>2, PTL DEF MCSpec, Upgrade!Spec, Motor!Spec

\* A response, telemetry excepted, comes before the acknowledgement of its
\* command: in the FirmwareUpgrade category and in that of the FOC motor, whose
\* client reads every layout as its server wrote it.
THEOREM AnswersAreFirst == MCSpec => AnswersComeFirst
BY CategoriesSpec, UpgradeResponsesComeFirst, MotorAnswersAreExplained, PTL DEF AnswersComeFirst

\* The session of a firmware upgrade expires only after something it accepted
\* since the last verify, activate or abort, in whatever order the application
\* completes what it was told of.
THEOREM ExpiriesFollowAcceptance == MCSpec => []ExpiryNeedsAcceptance
BY CategoriesSpec, UpgradeExpiryNeedsAcceptance, PTL DEF ExpiryNeedsAcceptance

=============================================================================
