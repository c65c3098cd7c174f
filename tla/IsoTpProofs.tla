---------------------------- MODULE IsoTpProofs ----------------------------
(***************************************************************************)
(* Proofs about the composition of ISO-TP, MCIsoTp: the open sender, the   *)
(* open receiver, the two linked by a bus that may lose frames, and the    *)
(* channels above them.  What was proved of the sender and of the receiver *)
(* alone holds of them wherever they run, since whatever the bus brings    *)
(* them is a frame they were proved for.  That the link implements         *)
(* PduDelivery rests on where the frames on their way stand in what was    *)
(* sent.  The channels are proved about here, for every set of identifiers *)
(* and every number of channels.                                           *)
(***************************************************************************)
EXTENDS MCIsoTp, SequenceTheorems, FiniteSetTheorems, WellFoundedInduction, TLAPS

Bytes == 0 .. 255

\* What a CAN frame can carry.
CanFrames == {bytes \in Seq(Bytes) : Len(bytes) <= 8}

SP == INSTANCE IsoTpSenderProofs WITH
        Pdus <- Seq(Bytes), FlowControls <- Seq(Bytes)
RP == INSTANCE IsoTpReceiverProofs WITH
        Frames <- CanFrames, MaxReceptions <- MaxTransfers,
        state <- rState, owed <- rOwed, ended <- rEnded, resets <- rResets

\* The frames under way are frames of the two nodes.
BusTypes == toReceiver \in Seq(CanFrames) /\ toSender \in Seq(Seq(Bytes))

Inv == SP!IInv /\ RP!IInv /\ BusTypes

\* No frame of either node waits for its completion while more than `window'
\* transfers or receptions follow, and no token comes round in so many.
QueuedBriefly(window) == SP!QueuedBriefly(window) /\ RP!QueuedBriefly(window)
Bounded(window) == SP!Bounded(window) /\ RP!Bounded(window)

-----------------------------------------------------------------------------
(* One sender and one receiver *)

\* Both may be given any PDU and get any frame.
LEMMA PartsMayBeUsed ==
  /\ SP!SenderAssumption
  /\ RP!ReceiverAssumption
<1>1. /\ {MaxPduSize, nWftMax, MaxOwed, MaxTransfers, MaxResets} \subseteq Nat
      /\ TokenModulus \in Nat \ {0}
  BY PartsAssumption DEF Sender!SenderAssumption
<1>2. {BlockSize, SeparationTime} \subseteq Bytes
  BY PartsAssumption DEF Receiver!ReceiverAssumption, Receiver!Byte, Bytes
<1>3. CanFrames \subseteq Seq(Bytes) /\ \A frame \in CanFrames : Len(frame) <= 8
  BY DEF CanFrames
<1>4. QED
  BY <1>1, <1>2, <1>3
     DEF SP!SenderAssumption, RP!ReceiverAssumption, SP!Byte, RP!Byte, Bytes

\* The link's sender acts as the one that was proved about.
LEMMA LinkSenderActions ==
  /\ S!Init <=> SP!Init
  /\ \A pdu : S!Send(pdu) <=> SP!Send(pdu)
  /\ \A frame : S!FlowControl(frame) <=> SP!FlowControl(frame)
  /\ S!Transmitted <=> SP!Transmitted
  /\ \A i, success : S!Completion(i, success) <=> SP!Completion(i, success)
  /\ S!NBsTimeout <=> SP!NBsTimeout
  /\ S!NAsTimeout <=> SP!NAsTimeout
  /\ S!StMinTimeout <=> SP!StMinTimeout
BY SMTT(60)
   DEF S!ffMaxPduLength, S!sfMaxPayloadBytes, S!ffFirstDataBytes, S!cfMaxDataBytes,
       S!snModulus, S!EncodeSingleFrame, S!EncodeFirstFrame, S!EncodeConsecutiveFrame,
       S!FlowStatusOf, S!IsFlowControl, S!DecodeFlowControl, S!StMinToDuration,
       S!transferVars, S!senderVars, S!historyVars, S!vars, S!Frame, S!Init, S!Next1,
       S!Clear, S!Ends, S!Abort, S!Complete, S!Started, S!HandDown, S!Send, S!AllSent,
       S!SendNextConsecutiveFrame, S!ScheduleNextCf, S!TooManyWaits, S!FlowControl,
       S!Transmitted, S!MayComplete, S!CompletionCounts, S!IsCurrent, S!Completion,
       S!NBsTimeout, S!NAsTimeout, S!StMinTimeout, S!RemoveAt, SP!ffMaxPduLength,
       SP!sfMaxPayloadBytes, SP!ffFirstDataBytes, SP!cfMaxDataBytes, SP!snModulus,
       SP!EncodeSingleFrame, SP!EncodeFirstFrame, SP!EncodeConsecutiveFrame,
       SP!FlowStatusOf, SP!IsFlowControl, SP!DecodeFlowControl, SP!StMinToDuration,
       SP!transferVars, SP!senderVars, SP!historyVars, SP!vars, SP!Frame, SP!Init,
       SP!Next1, SP!Clear, SP!Ends, SP!Abort, SP!Complete, SP!Started, SP!HandDown,
       SP!Send, SP!AllSent, SP!SendNextConsecutiveFrame, SP!ScheduleNextCf,
       SP!TooManyWaits, SP!FlowControl, SP!Transmitted, SP!MayComplete,
       SP!CompletionCounts, SP!IsCurrent, SP!Completion, SP!NBsTimeout, SP!NAsTimeout,
       SP!StMinTimeout, SP!RemoveAt

\* So does the open one.
LEMMA OpenSenderActions ==
  /\ \A pdu : Sender!Send(pdu) <=> SP!Send(pdu)
  /\ \A frame : Sender!FlowControl(frame) <=> SP!FlowControl(frame)
  /\ Sender!Transmitted <=> SP!Transmitted
  /\ \A i, success : Sender!Completion(i, success) <=> SP!Completion(i, success)
  /\ Sender!NBsTimeout <=> SP!NBsTimeout
  /\ Sender!NAsTimeout <=> SP!NAsTimeout
  /\ Sender!StMinTimeout <=> SP!StMinTimeout
  /\ Sender!Reset <=> SP!Reset
BY SMTT(60)
   DEF Sender!ffMaxPduLength, Sender!sfMaxPayloadBytes, Sender!ffFirstDataBytes,
       Sender!cfMaxDataBytes, Sender!snModulus, Sender!EncodeSingleFrame,
       Sender!EncodeFirstFrame, Sender!EncodeConsecutiveFrame, Sender!FlowStatusOf,
       Sender!IsFlowControl, Sender!DecodeFlowControl, Sender!StMinToDuration,
       Sender!transferVars, Sender!senderVars, Sender!historyVars, Sender!vars,
       Sender!Frame, Sender!Next1, Sender!Clear, Sender!Ends, Sender!Abort,
       Sender!Complete, Sender!Started, Sender!HandDown, Sender!Send, Sender!AllSent,
       Sender!SendNextConsecutiveFrame, Sender!ScheduleNextCf, Sender!TooManyWaits,
       Sender!FlowControl, Sender!Transmitted, Sender!MayComplete,
       Sender!CompletionCounts, Sender!IsCurrent, Sender!Completion, Sender!NBsTimeout,
       Sender!NAsTimeout, Sender!StMinTimeout, Sender!Reset, Sender!RemoveAt,
       SP!ffMaxPduLength, SP!sfMaxPayloadBytes, SP!ffFirstDataBytes, SP!cfMaxDataBytes,
       SP!snModulus, SP!EncodeSingleFrame, SP!EncodeFirstFrame,
       SP!EncodeConsecutiveFrame, SP!FlowStatusOf, SP!IsFlowControl,
       SP!DecodeFlowControl, SP!StMinToDuration, SP!transferVars, SP!senderVars,
       SP!historyVars, SP!vars, SP!Frame, SP!Next1, SP!Clear, SP!Ends, SP!Abort,
       SP!Complete, SP!Started, SP!HandDown, SP!Send, SP!AllSent,
       SP!SendNextConsecutiveFrame, SP!ScheduleNextCf, SP!TooManyWaits, SP!FlowControl,
       SP!Transmitted, SP!MayComplete, SP!CompletionCounts, SP!IsCurrent,
       SP!Completion, SP!NBsTimeout, SP!NAsTimeout, SP!StMinTimeout, SP!Reset,
       SP!RemoveAt

\* The link's receiver acts as the one that was proved about.
LEMMA LinkReceiverActions ==
  /\ R!Init <=> RP!Init
  /\ \A frame : R!ProcessFrame(frame) <=> RP!ProcessFrame(frame)
  /\ R!NCrTimeout <=> RP!NCrTimeout
  /\ R!Transmitted <=> RP!Transmitted
  /\ \A i, success : R!Completion(i, success) <=> RP!Completion(i, success)
BY SMTT(60)
   DEF R!sfMaxPayloadBytes, R!cfMaxDataBytes, R!snModulus, R!DecodeFrameType,
       R!DecodeSingleFrameLength, R!DecodeFirstFrameTotalLength,
       R!DecodeConsecutiveFrameSn, R!EncodeFlowControl, R!assemblyVars, R!receiverVars,
       R!historyVars, R!vars, R!Init, R!Next1, R!Receiving, R!Clear, R!Ends,
       R!TokenAfterSuperseded, R!EndedAfterSuperseded, R!FlowControlOwed,
       R!SendContinue, R!BufferIs, R!Fits, R!TakesSingleFrame, R!HandleSingleFrame,
       R!TakesFirstFrame, R!HandleFirstFrame, R!HasConsecutiveFrameLength,
       R!ContinueBlock, R!IsWhole, R!InSequence, R!TakesConsecutiveFrame,
       R!HandleConsecutiveFrame, R!ProcessFrame, R!NCrTimeout, R!Transmitted,
       R!IsCurrent, R!Completion, R!RemoveAt, RP!sfMaxPayloadBytes, RP!cfMaxDataBytes,
       RP!snModulus, RP!DecodeFrameType, RP!DecodeSingleFrameLength,
       RP!DecodeFirstFrameTotalLength, RP!DecodeConsecutiveFrameSn,
       RP!EncodeFlowControl, RP!assemblyVars, RP!receiverVars, RP!historyVars, RP!vars,
       RP!Init, RP!Next1, RP!Receiving, RP!Clear, RP!Ends, RP!TokenAfterSuperseded,
       RP!EndedAfterSuperseded, RP!FlowControlOwed, RP!SendContinue, RP!BufferIs,
       RP!Fits, RP!TakesSingleFrame, RP!HandleSingleFrame, RP!TakesFirstFrame,
       RP!HandleFirstFrame, RP!HasConsecutiveFrameLength, RP!ContinueBlock, RP!IsWhole,
       RP!InSequence, RP!TakesConsecutiveFrame, RP!HandleConsecutiveFrame,
       RP!ProcessFrame, RP!NCrTimeout, RP!Transmitted, RP!IsCurrent, RP!Completion,
       RP!RemoveAt

\* So does the open one.
LEMMA OpenReceiverActions ==
  /\ \A frame : Receiver!ProcessFrame(frame) <=> RP!ProcessFrame(frame)
  /\ Receiver!NCrTimeout <=> RP!NCrTimeout
  /\ Receiver!Transmitted <=> RP!Transmitted
  /\ \A i, success : Receiver!Completion(i, success) <=> RP!Completion(i, success)
  /\ Receiver!Reset <=> RP!Reset
BY SMTT(60)
   DEF Receiver!sfMaxPayloadBytes, Receiver!cfMaxDataBytes, Receiver!snModulus,
       Receiver!DecodeFrameType, Receiver!DecodeSingleFrameLength,
       Receiver!DecodeFirstFrameTotalLength, Receiver!DecodeConsecutiveFrameSn,
       Receiver!EncodeFlowControl, Receiver!assemblyVars, Receiver!receiverVars,
       Receiver!historyVars, Receiver!vars, Receiver!Next1, Receiver!Receiving,
       Receiver!Clear, Receiver!Ends, Receiver!TokenAfterSuperseded,
       Receiver!EndedAfterSuperseded, Receiver!FlowControlOwed, Receiver!SendContinue,
       Receiver!BufferIs, Receiver!Fits, Receiver!TakesSingleFrame,
       Receiver!HandleSingleFrame, Receiver!TakesFirstFrame, Receiver!HandleFirstFrame,
       Receiver!HasConsecutiveFrameLength, Receiver!ContinueBlock, Receiver!IsWhole,
       Receiver!InSequence, Receiver!TakesConsecutiveFrame,
       Receiver!HandleConsecutiveFrame, Receiver!ProcessFrame, Receiver!NCrTimeout,
       Receiver!Transmitted, Receiver!IsCurrent, Receiver!Completion, Receiver!Reset,
       Receiver!RemoveAt, RP!sfMaxPayloadBytes, RP!cfMaxDataBytes, RP!snModulus,
       RP!DecodeFrameType, RP!DecodeSingleFrameLength, RP!DecodeFirstFrameTotalLength,
       RP!DecodeConsecutiveFrameSn, RP!EncodeFlowControl, RP!assemblyVars,
       RP!receiverVars, RP!historyVars, RP!vars, RP!Next1, RP!Receiving, RP!Clear,
       RP!Ends, RP!TokenAfterSuperseded, RP!EndedAfterSuperseded, RP!FlowControlOwed,
       RP!SendContinue, RP!BufferIs, RP!Fits, RP!TakesSingleFrame,
       RP!HandleSingleFrame, RP!TakesFirstFrame, RP!HandleFirstFrame,
       RP!HasConsecutiveFrameLength, RP!ContinueBlock, RP!IsWhole, RP!InSequence,
       RP!TakesConsecutiveFrame, RP!HandleConsecutiveFrame, RP!ProcessFrame,
       RP!NCrTimeout, RP!Transmitted, RP!IsCurrent, RP!Completion, RP!Reset,
       RP!RemoveAt

\* What the sender and the receiver keep is what the composition keeps of them.
LEMMA KeptVariables ==
  /\ UNCHANGED senderVars => UNCHANGED SP!vars
  /\ UNCHANGED receiverVars => UNCHANGED RP!vars
BY DEF senderVars, receiverVars,
       SP!vars, SP!senderVars, SP!transferVars, SP!historyVars,
       RP!vars, RP!receiverVars, RP!assemblyVars, RP!historyVars

\* Every PDU the link is given is one of bytes.
LEMMA LinkPdus ==
  ASSUME SP!IInv, NEW length \in Lengths, accepted < MaxTransfers
  PROVE  PduOf(accepted + 1, length) \in Seq(Bytes)
<1>1. accepted \in Nat /\ MaxTransfers \in Nat
  BY PartsMayBeUsed DEF SP!IInv, SP!SenderTypes, SP!SenderAssumption
<1>2. accepted + 1 \in 1 .. MaxTransfers
  BY <1>1
<1>3. PduOf(accepted + 1, length) \in AllPdus
  BY <1>2 DEF AllPdus
<1>4. AllPdus \subseteq Seq(Bytes)
  BY PartsAssumption, Zenon DEF LinkAssumption, S!SenderAssumption, S!Byte, Bytes
<1>5. QED
  BY <1>3, <1>4, Zenon

\* A step of the link is one of its sender, of its receiver, or of neither.
LEMMA LinkSteps ==
  ASSUME SP!IInv, BusTypes, NEW late, NEW losable, Next(late, losable)
  PROVE  [SP!Next]_SP!vars /\ [RP!Next]_RP!vars
<1>1. CASE \E length \in Lengths : SendPdu(length)
  <2>1. PICK length \in Lengths : SendPdu(length)
    BY <1>1
  <2>2. SP!Send(PduOf(accepted + 1, length)) /\ UNCHANGED receiverVars
    BY <2>1, LinkSenderActions DEF SendPdu
  <2>3. PduOf(accepted + 1, length) \in Seq(Bytes)
    BY <2>2, LinkPdus, Zenon DEF SP!Send
  <2>4. QED
    BY <2>2, <2>3, KeptVariables, Zenon DEF SP!Next
<1>2. CASE \/ SenderTransmits \/ SenderCompletion
            \/ SeparationTimeOver \/ SenderTimeout(late)
  <2>1. UNCHANGED receiverVars
    BY <1>2, Zenon DEF SenderTransmits, SenderCompletion, SeparationTimeOver, SenderTimeout
  <2>2. SP!Next
    BY <1>2, LinkSenderActions, Zenon
       DEF SenderTransmits, SenderCompletion, SeparationTimeOver, SenderTimeout, SP!Next
  <2>3. QED
    BY <2>1, <2>2, KeptVariables
<1>3. CASE ReceiverTransmits \/ ReceiverCompletion \/ ReceiverTimeout(late)
  <2>1. UNCHANGED senderVars
    BY <1>3 DEF ReceiverTransmits, ReceiverCompletion, ReceiverTimeout, senderSide
  <2>2. RP!Next
    BY <1>3, LinkReceiverActions, Zenon
       DEF ReceiverTransmits, ReceiverCompletion, ReceiverTimeout, RP!Next
  <2>3. QED
    BY <2>1, <2>2, KeptVariables
<1>4. CASE ReceiverGetsFrame
  <2>1. UNCHANGED senderVars
    BY <1>4 DEF ReceiverGetsFrame, senderSide
  <2>2. Head(toReceiver) \in CanFrames
    BY <1>4, HeadTailProperties DEF ReceiverGetsFrame, BusTypes
  <2>3. RP!Next \/ UNCHANGED receiverVars
    BY <1>4, <2>2, LinkReceiverActions, Zenon DEF ReceiverGetsFrame, RP!Next
  <2>4. QED
    BY <2>1, <2>3, KeptVariables
<1>5. CASE SenderGetsFrame
  <2>1. UNCHANGED receiverVars
    BY <1>5 DEF SenderGetsFrame
  <2>2. Head(toSender) \in Seq(Bytes)
    BY <1>5, HeadTailProperties DEF SenderGetsFrame, BusTypes
  <2>3. SP!Next \/ UNCHANGED senderVars
    BY <1>5, <2>2, LinkSenderActions, Zenon DEF SenderGetsFrame, SP!Next
  <2>4. QED
    BY <2>1, <2>3, KeptVariables
<1>6. CASE FrameLost(losable)
  BY <1>6, KeptVariables, Zenon DEF FrameLost
<1>7. QED
  BY <1>1, <1>2, <1>3, <1>4, <1>5, <1>6, Zenon DEF Next, Works

\* What is on the bus stays what the nodes put there.
LEMMA LinkKeepsBus ==
  ASSUME Inv, NEW late, NEW losable, Next(late, losable)
  PROVE  BusTypes'
<1>1. toReceiver \in Seq(CanFrames) /\ toSender \in Seq(Seq(Bytes))
  BY DEF Inv, BusTypes
<1>2. CASE UNCHANGED bus
  BY <1>1, <1>2 DEF bus, BusTypes
<1>3. CASE SenderTransmits
  <2>1. owed \in Seq(SP!OwedFrames) /\ owed # <<>>
    BY <1>3, LinkSenderActions DEF Inv, SP!IInv, SP!FrameTypes, SenderTransmits, SP!Transmitted
  <2>2. owed[1] \in SP!OwedFrames
    BY <2>1, HeadTailProperties
  <2>3. owed[1].bytes \in CanFrames
    BY <2>2 DEF SP!OwedFrames, SP!CanFrames, SP!Byte, CanFrames, Bytes
  <2>4. Append(toReceiver, owed[1].bytes) \in Seq(CanFrames)
    BY <1>1, <2>3, AppendProperties
  <2>5. QED
    BY <1>1, <1>3, <2>4 DEF SenderTransmits, BusTypes
<1>4. CASE ReceiverTransmits
  <2>1. rOwed \in Seq(RP!OwedFrames) /\ rOwed # <<>>
    BY <1>4, LinkReceiverActions
       DEF Inv, RP!IInv, RP!FrameTypes, ReceiverTransmits, RP!Transmitted
  <2>2. rOwed[1] \in RP!OwedFrames
    BY <2>1, HeadTailProperties
  <2>3. rOwed[1].bytes \in Seq(Bytes)
    BY <2>2 DEF RP!OwedFrames, RP!Byte, Bytes
  <2>4. Append(toSender, rOwed[1].bytes) \in Seq(Seq(Bytes))
    BY <1>1, <2>3, AppendProperties
  <2>5. QED
    BY <1>1, <1>4, <2>4 DEF ReceiverTransmits, BusTypes
<1>5. CASE /\ \/ toReceiver # <<>> /\ toReceiver' = Tail(toReceiver)
              \/ toReceiver' = toReceiver
           /\ \/ toSender # <<>> /\ toSender' = Tail(toSender)
              \/ toSender' = toSender
  <2>1. toReceiver' \in Seq(CanFrames)
    BY <1>1, <1>5, HeadTailProperties
  <2>2. toSender' \in Seq(Seq(Bytes))
    BY <1>1, <1>5, HeadTailProperties
  <2>3. QED
    BY <2>1, <2>2 DEF BusTypes
<1>6. QED
  BY <1>2, <1>3, <1>4, <1>5, Zenon
     DEF Next, Works, SendPdu, ReceiverGetsFrame, SenderGetsFrame, SenderCompletion,
         ReceiverCompletion, SeparationTimeOver, SenderTimeout, ReceiverTimeout, FrameLost

-----------------------------------------------------------------------------
(* The invariant of the composition *)

\* Every step is one of the sender, of the receiver, or of neither.
LEMMA PartsStep ==
  ASSUME Inv, [MCNext]_mcVars
  PROVE  [SP!Next]_SP!vars /\ [RP!Next]_RP!vars
<1>1. CASE OfSender(Sender!Next)
  <2>1. UNCHANGED receiverVars /\ Sender!Next
    BY <1>1 DEF OfSender
  <2>2. OpenPdus \subseteq Seq(Bytes) /\ OpenFlowControls \subseteq Seq(Bytes)
    BY PartsAssumption, Zenon DEF Sender!SenderAssumption, Sender!Byte, Bytes
  <2>3. SP!Next
    BY <2>1, <2>2, OpenSenderActions, Zenon DEF Sender!Next, SP!Next
  <2>4. QED
    BY <2>1, <2>3, KeptVariables
<1>2. CASE OfReceiver(Receiver!Next)
  <2>1. UNCHANGED senderVars /\ Receiver!Next
    BY <1>2 DEF OfReceiver, senderSide
  <2>2. OpenFrames \subseteq CanFrames
    BY PartsAssumption DEF Receiver!ReceiverAssumption, Receiver!Byte, Bytes, CanFrames
  <2>3. RP!Next
    BY <2>1, <2>2, OpenReceiverActions, Zenon DEF Receiver!Next, RP!Next
  <2>4. QED
    BY <2>1, <2>3, KeptVariables
<1>3. CASE OfLink(Next(Late, Losable[part]))
  BY <1>3, LinkSteps DEF OfLink, Inv
<1>4. CASE OfChannels(Channels!Next) \/ UNCHANGED mcVars
  <2>1. UNCHANGED vars
    BY <1>4 DEF OfChannels, mcVars
  <2>2. UNCHANGED senderVars /\ UNCHANGED receiverVars
    BY <2>1 DEF vars
  <2>3. QED
    BY <2>2, KeptVariables
<1>5. QED
  BY <1>1, <1>2, <1>3, <1>4 DEF MCNext

LEMMA InitEstablishes ==
  ASSUME NEW w, Bounded(w), MCInit
  PROVE  Inv
<1>1. SP!Init /\ RP!Init /\ toReceiver = <<>> /\ toSender = <<>>
  BY LinkSenderActions, LinkReceiverActions DEF MCInit, Init
<1>2. SP!IInv
  BY <1>1, PartsMayBeUsed, SP!InitEstablishes
<1>3. RP!IInv
  BY <1>1, PartsMayBeUsed, RP!InitEstablishes DEF Bounded
<1>4. BusTypes
  BY <1>1, EmptySeq DEF BusTypes
<1>5. QED
  BY <1>2, <1>3, <1>4 DEF Inv

LEMMA StepPreserves ==
  ASSUME NEW w, Bounded(w), Inv, QueuedBriefly(w), [MCNext]_mcVars
  PROVE  Inv'
<1>1. [SP!Next]_SP!vars /\ [RP!Next]_RP!vars
  BY PartsStep
<1>2. SP!IInv'
  BY <1>1, PartsMayBeUsed, SP!StepPreserves DEF Inv, Bounded, QueuedBriefly
<1>3. RP!IInv'
  BY <1>1, PartsMayBeUsed, RP!StepPreserves DEF Inv, Bounded, QueuedBriefly
<1>4. BusTypes'
  <2>1. CASE OfLink(Next(Late, Losable[part]))
    BY <2>1, LinkKeepsBus DEF OfLink
  <2>2. CASE UNCHANGED bus
    BY <2>2 DEF bus, BusTypes, Inv
  <2>3. QED
    BY <2>1, <2>2, Zenon DEF MCNext, OfSender, OfReceiver, OfChannels, mcVars, vars
<1>5. QED
  BY <1>2, <1>3, <1>4 DEF Inv

\* The same without a condition on the transports, if MaxTransfers bounds the
\* transfers and receptions below what the tokens tell apart.
Short == accepted <= MaxTransfers /\ started <= MaxTransfers

LEMMA ShortIsBrief ==
  ASSUME Inv, Short
  PROVE  QueuedBriefly(MaxTransfers)
BY PartsMayBeUsed, SP!ShortIsBrief, RP!ShortIsBrief DEF Inv, Short, QueuedBriefly

LEMMA ShortStaysShort ==
  ASSUME Inv, Short, [MCNext]_mcVars
  PROVE  Short'
BY PartsMayBeUsed, PartsStep, SP!ShortStaysShort, RP!ShortStaysShort DEF Inv, Short

LEMMA InitIsShort ==
  ASSUME MCInit
  PROVE  Short
<1>1. accepted = 0 /\ started = 0
  BY DEF MCInit, Init, S!Init, R!Init
<1>2. MaxTransfers \in Nat
  BY PartsMayBeUsed DEF SP!SenderAssumption
<1>3. QED
  BY <1>1, <1>2 DEF Short

\* What the invariant says of the states that the composition is judged by.
LEMMA WhatInvSays ==
  ASSUME Inv
  PROVE  WaitIsTimed /\ EndsOnce
<1>1. Sender!WaitIsTimed /\ Sender!EndsOnce
  BY DEF Inv, SP!IInv, SP!WaitIsTimed, SP!EndsOnce, Sender!WaitIsTimed, Sender!EndsOnce
<1>2. Sender!WatchedFrameIsOwed
  BY DEF Inv, SP!IInv, SP!WatchedFrameIsOwed, SP!IsCurrent,
         Sender!WatchedFrameIsOwed, Sender!IsCurrent
<1>3. Receiver!ReceptionIsTimed /\ Receiver!EndsOnce
  BY DEF Inv, RP!IInv, RP!ReceptionIsTimed, RP!EndsOnce, RP!Receiving,
         Receiver!ReceptionIsTimed, Receiver!EndsOnce, Receiver!Receiving
<1>4. QED
  BY <1>1, <1>2, <1>3 DEF WaitIsTimed, EndsOnce

\* And of its steps.
LEMMA LateSenderCompletions ==
  ASSUME Inv, [MCNext]_mcVars
  PROVE  [\A i \in DOMAIN owed :
            /\ owed' = Sender!RemoveAt(owed, i)
            /\ owed[i].no < accepted \/ ended = accepted
            => UNCHANGED <<Sender!senderVars, ended, outcome>>]_
             <<Sender!senderVars, owed, ended, outcome>>
<1> SUFFICES ASSUME NEW i \in DOMAIN owed, owed' = Sender!RemoveAt(owed, i),
                    owed[i].no < accepted \/ ended = accepted
             PROVE  UNCHANGED <<Sender!senderVars, ended, outcome>>
  OBVIOUS
<1>1. owed' = SP!RemoveAt(owed, i)
  BY DEF SP!RemoveAt, Sender!RemoveAt
<1>2. SP!IInv /\ [SP!Next]_SP!vars
  BY PartsStep DEF Inv
<1>3. UNCHANGED <<SP!senderVars, ended, outcome>>
  BY <1>1, <1>2, SP!StaleCompletion
<1>4. QED
  BY <1>3 DEF SP!senderVars, SP!transferVars, Sender!senderVars, Sender!transferVars

LEMMA DoneIsSent ==
  ASSUME Inv, [MCNext]_mcVars
  PROVE  [outcome' = "done" /\ ended' # ended =>
            \E i \in DOMAIN owed :
              /\ owed[i].no = accepted /\ owed[i].sent
              /\ owed[i].role \in {"single", "last"}
              /\ owed[i].role = "last" => bytesSent = Len(pduBuffer)]_Sender!vars
BY PartsStep, SP!DoneIsSent DEF Inv

LEMMA LateReceiverFailures ==
  ASSUME Inv, [MCNext]_mcVars
  PROVE  [\A i \in DOMAIN rOwed :
            /\ rOwed' = Receiver!RemoveAt(rOwed, i)
            /\ rOwed[i].no < started \/ started = rEnded
            => UNCHANGED <<Receiver!receiverVars, rEnded>>]_
             <<Receiver!receiverVars, rOwed, rEnded>>
<1> SUFFICES ASSUME NEW i \in DOMAIN rOwed, rOwed' = Receiver!RemoveAt(rOwed, i),
                    rOwed[i].no < started \/ started = rEnded
             PROVE  UNCHANGED <<Receiver!receiverVars, rEnded>>
  OBVIOUS
<1>1. rOwed' = RP!RemoveAt(rOwed, i)
  BY DEF RP!RemoveAt, Receiver!RemoveAt
<1>2. RP!IInv /\ [RP!Next]_RP!vars
  BY PartsStep DEF Inv
<1>3. UNCHANGED <<RP!receiverVars, rEnded>>
  BY <1>1, <1>2, PartsMayBeUsed, RP!StaleFailure
<1>4. QED
  BY <1>3 DEF RP!receiverVars, RP!assemblyVars, Receiver!receiverVars, Receiver!assemblyVars

\* The composition takes only steps that the invariant allows.
LEMMA InvMeansIgnored == MCSpec /\ []Inv => StaleCompletionsIgnored
<1> USE DEF StaleCompletionsIgnored
<1>1. Inv /\ [MCNext]_mcVars =>
        [\A i \in DOMAIN owed :
           /\ owed' = Sender!RemoveAt(owed, i)
           /\ owed[i].no < accepted \/ ended = accepted
           => UNCHANGED <<Sender!senderVars, ended, outcome>>]_
             <<Sender!senderVars, owed, ended, outcome>>
  BY LateSenderCompletions
<1>2. Inv /\ [MCNext]_mcVars =>
        [outcome' = "done" /\ ended' # ended =>
           \E i \in DOMAIN owed :
             /\ owed[i].no = accepted /\ owed[i].sent
             /\ owed[i].role \in {"single", "last"}
             /\ owed[i].role = "last" => bytesSent = Len(pduBuffer)]_Sender!vars
  BY DoneIsSent
<1>3. Inv /\ [MCNext]_mcVars =>
        [\A i \in DOMAIN rOwed :
           /\ rOwed' = Receiver!RemoveAt(rOwed, i)
           /\ rOwed[i].no < started \/ started = rEnded
           => UNCHANGED <<Receiver!receiverVars, rEnded>>]_
             <<Receiver!receiverVars, rOwed, rEnded>>
  BY LateReceiverFailures
<1>4. QED
  BY <1>1, <1>2, <1>3, PTL
     DEF MCSpec, Sender!StaleCompletionsIgnored, Sender!DoneMeansSent,
         Receiver!StaleFailuresIgnored

-----------------------------------------------------------------------------
(* The theorems about the two ends *)

\* The invariant holds as long as no frame stays with its transport for more
\* transfers or receptions than the eight bits of a token tell apart.
THEOREM Invariance ==
  ASSUME NEW w, Bounded(w)
  PROVE  MCSpec /\ []QueuedBriefly(w) => []Inv
<1>1. MCInit => Inv
  BY InitEstablishes
<1>2. Inv /\ QueuedBriefly(w) /\ [MCNext]_mcVars => Inv'
  BY StepPreserves
<1>3. QED
  BY <1>1, <1>2, PTL DEF MCSpec

\* With fewer transfers than that nothing need be asked of the transports.
THEOREM ShortInvariance ==
  ASSUME Bounded(MaxTransfers)
  PROVE  MCSpec => []Inv
<1> DEFINE Both == Inv /\ Short
<1>1. MCInit => Both
  BY InitEstablishes, InitIsShort
<1>2. Both /\ [MCNext]_mcVars => Both'
  BY ShortIsBrief, ShortStaysShort, StepPreserves
<1>3. QED
  BY <1>1, <1>2, PTL DEF MCSpec

\* Either end of the link waits only under the timer that ends its wait, and
\* under no other, whatever the bus loses or delays.
THEOREM WaitsAreTimed ==
  ASSUME NEW w, Bounded(w)
  PROVE  MCSpec /\ []QueuedBriefly(w) => []WaitIsTimed
<1>1. Inv => WaitIsTimed
  BY WhatInvSays
<1>2. QED
  BY <1>1, Invariance, PTL

\* Every transfer accepted and every reception begun ends once: delivered, done,
\* aborted, superseded or released.
THEOREM TransfersEndOnce ==
  ASSUME NEW w, Bounded(w)
  PROVE  MCSpec /\ []QueuedBriefly(w) => []EndsOnce
<1>1. Inv => EndsOnce
  BY WhatInvSays
<1>2. QED
  BY <1>1, Invariance, PTL

\* A completion that comes after its transfer or reception has ended changes
\* nothing of what followed, and success means that the last byte was sent.
THEOREM LateCompletionsAreIgnored ==
  ASSUME NEW w, Bounded(w)
  PROVE  MCSpec /\ []QueuedBriefly(w) => StaleCompletionsIgnored
BY Invariance, InvMeansIgnored, PTL

\* All of it for a link that carries fewer transfers than the tokens tell apart,
\* as those of the run isotp do.
THEOREM ShortLivesAreSound ==
  ASSUME Bounded(MaxTransfers)
  PROVE  MCSpec => [](WaitIsTimed /\ EndsOnce) /\ StaleCompletionsIgnored
<1>1. Inv => WaitIsTimed /\ EndsOnce
  BY WhatInvSays
<1>2. QED
  BY <1>1, ShortInvariance, InvMeansIgnored, PTL

-----------------------------------------------------------------------------
(* The places of frames in what is sent *)

\* A frame by the number of its transfer, its place in it and whether flow
\* control answers it.
Places == [no : Nat, nth : Nat, asks : BOOLEAN]

Before(n1, c1, n2, c2) == n1 < n2 \/ (n1 = n2 /\ c1 < c2)

\* The frames at the places s come after the place (n, c), none after the
\* place (m, d), and in order.
Ordered(s, n, c, m, d) ==
  /\ ~Before(m, d, n, c)
  /\ \A i \in 1 .. Len(s) :
       /\ Before(n, c, s[i].no, s[i].nth)
       /\ ~Before(m, d, s[i].no, s[i].nth)
  /\ \A i, j \in 1 .. Len(s) : i < j => Before(s[i].no, s[i].nth, s[j].no, s[j].nth)

\* The transfer m has its first frame among those at s, or n is m.
LedTo(s, n, m) == n = m \/ \E j \in 1 .. Len(s) : s[j].no = m /\ s[j].nth = 0

\* So has every transfer the first frames of those that follow, before them.
Led(s, n) ==
  \A i \in 1 .. Len(s) :
    s[i].nth # 0 => n = s[i].no \/ \E j \in 1 .. i - 1 : s[j].no = s[i].no /\ s[j].nth = 0

\* t is s without its element x.
Without(t, s, x) ==
  /\ t \in Seq(Places)
  /\ Len(t) = Len(s) - 1
  /\ \A i \in 1 .. Len(t) : t[i] = IF i < x THEN s[i] ELSE s[i + 1]

\* Nothing is missed of the transfer if its frame x is lost.
Dispensable(s, x) == s[x].nth # 0 \/ \A j \in x + 1 .. Len(s) : s[j].no # s[x].no

\* A place of a sequence of them has a number, a position and no more.
LEMMA PlaceTypes ==
  ASSUME NEW s \in Seq(Places), NEW i \in 1 .. Len(s)
  PROVE  s[i] \in Places /\ s[i].no \in Nat /\ s[i].nth \in Nat /\ Len(s) \in Nat
<1>1. s[i] \in Places
  BY ElementOfSeq
<1>2. QED
  BY <1>1, LenProperties DEF Places

\* Before orders the places.
LEMMA BeforeIsOrder ==
  ASSUME NEW a \in Nat, NEW b \in Nat, NEW c \in Nat, NEW d \in Nat, NEW e \in Nat, NEW f \in Nat
  PROVE  /\ Before(a, b, c, d) /\ Before(c, d, e, f) => Before(a, b, e, f)
         /\ ~Before(c, d, a, b) /\ Before(c, d, e, f) => Before(a, b, e, f)
         /\ ~Before(c, d, a, b) /\ ~Before(e, f, c, d) => ~Before(e, f, a, b)
         /\ Before(a, b, c, d) => ~Before(c, d, a, b)
BY DEF Before

\* Frames stay in order when one of them is lost,
LEMMA WithoutOrdered ==
  ASSUME NEW s \in Seq(Places), NEW x \in 1 .. Len(s), NEW t, Without(t, s, x),
         NEW n \in Nat, NEW c \in Nat, NEW m \in Nat, NEW d \in Nat, Ordered(s, n, c, m, d)
  PROVE  Ordered(t, n, c, m, d)
<1> DEFINE from(i) == IF i < x THEN i ELSE i + 1
<1>1. Len(s) \in Nat /\ Len(t) = Len(s) - 1
  BY LenProperties DEF Without
<1>2. \A i \in 1 .. Len(t) : from(i) \in 1 .. Len(s) /\ t[i] = s[from(i)]
  BY <1>1 DEF Without
<1>3. \A i, j \in 1 .. Len(t) : i < j => from(i) < from(j)
  BY <1>1
<1> HIDE DEF from
<1>4. QED
  BY <1>2, <1>3 DEF Ordered

\* and are still led by the first frames of their transfers, if it is dispensable,
LEMMA WithoutLed ==
  ASSUME NEW s \in Seq(Places), NEW x \in 1 .. Len(s), NEW t, Without(t, s, x),
         NEW n \in Nat, Led(s, n), Dispensable(s, x)
  PROVE  Led(t, n)
<1> SUFFICES ASSUME NEW i \in 1 .. Len(t), t[i].nth # 0, n # t[i].no
             PROVE  \E j \in 1 .. i - 1 : t[j].no = t[i].no /\ t[j].nth = 0
  BY DEF Led
<1>1. Len(s) \in Nat /\ Len(t) = Len(s) - 1 /\ x \in Nat
  BY LenProperties DEF Without
<1>2. PICK k \in 1 .. Len(s) : k = (IF i < x THEN i ELSE i + 1) /\ t[i] = s[k]
  BY <1>1 DEF Without
<1>3. PICK j \in 1 .. k - 1 : s[j].no = s[k].no /\ s[j].nth = 0
  BY <1>2 DEF Led
<1>4. CASE j < x
  <2>1. j \in 1 .. i - 1 /\ j \in 1 .. Len(t)
    BY <1>1, <1>2, <1>4
  <2>2. t[j] = s[j]
    BY <1>4, <2>1 DEF Without
  <2>3. QED
    BY <1>2, <1>3, <2>1, <2>2
<1>5. CASE j > x
  <2>1. j - 1 \in 1 .. i - 1 /\ j - 1 \in 1 .. Len(t) /\ ~(j - 1 < x) /\ (j - 1) + 1 = j
    BY <1>1, <1>2, <1>5
  <2>2. t[j - 1] = s[j]
    BY <2>1 DEF Without
  <2>3. QED
    BY <1>2, <1>3, <2>1, <2>2
<1>6. CASE j = x
  <2>1. k \in x + 1 .. Len(s)
    BY <1>1, <1>2, <1>6
  <2>2. QED
    BY <1>3, <1>6, <2>1 DEF Dispensable
<1>7. QED
  BY <1>1, <1>2, <1>3, <1>4, <1>5, <1>6

\* as is a transfer whose first frame it is not.
LEMMA WithoutLedTo ==
  ASSUME NEW s \in Seq(Places), NEW x \in 1 .. Len(s), NEW t, Without(t, s, x),
         NEW n \in Nat, NEW m \in Nat, LedTo(s, n, m), ~(s[x].no = m /\ s[x].nth = 0)
  PROVE  LedTo(t, n, m)
<1> SUFFICES ASSUME n # m
             PROVE  \E j \in 1 .. Len(t) : t[j].no = m /\ t[j].nth = 0
  BY DEF LedTo
<1>1. Len(s) \in Nat /\ Len(t) = Len(s) - 1 /\ x \in Nat
  BY LenProperties DEF Without
<1>2. PICK j \in 1 .. Len(s) : s[j].no = m /\ s[j].nth = 0
  BY DEF LedTo
<1>3. j # x
  BY <1>2
<1>4. CASE j < x
  <2>1. j \in 1 .. Len(t)
    BY <1>1, <1>4
  <2>2. QED
    BY <1>2, <1>4, <2>1 DEF Without
<1>5. CASE j > x
  <2>1. j - 1 \in 1 .. Len(t) /\ ~(j - 1 < x) /\ (j - 1) + 1 = j
    BY <1>1, <1>5
  <2>2. t[j - 1] = s[j]
    BY <2>1 DEF Without
  <2>3. QED
    BY <1>2, <2>1, <2>2
<1>6. QED
  BY <1>1, <1>3, <1>4, <1>5

\* The first frame arrives.
LEMMA TakenOrdered ==
  ASSUME NEW s \in Seq(Places), s # <<>>, NEW t, Without(t, s, 1),
         NEW n \in Nat, NEW c \in Nat, NEW m \in Nat, NEW d \in Nat,
         Ordered(s, n, c, m, d), Led(s, n)
  PROVE  /\ 1 \in 1 .. Len(s)
         /\ s[1].nth # 0 => s[1].no = n
         /\ Before(n, c, s[1].no, s[1].nth)
         /\ ~Before(m, d, s[1].no, s[1].nth)
         /\ Ordered(t, s[1].no, s[1].nth, m, d)
         /\ Led(t, s[1].no)
         /\ \A k \in Nat : LedTo(s, n, k) /\ ~(k < s[1].no) => LedTo(t, s[1].no, k)
<1>1. Len(s) \in Nat /\ Len(s) # 0 /\ Len(t) = Len(s) - 1
  BY LenProperties, EmptySeq DEF Without
<1>2. 1 \in 1 .. Len(s)
  BY <1>1
<1>3. s[1].no \in Nat /\ s[1].nth \in Nat
  BY <1>2, PlaceTypes
<1>4. \A i \in 1 .. Len(t) : i + 1 \in 1 .. Len(s) /\ t[i] = s[i + 1] /\ 1 < i + 1
  BY <1>1 DEF Without
<1>5. s[1].nth # 0 => s[1].no = n
  BY <1>2 DEF Led
<1>6. Before(n, c, s[1].no, s[1].nth) /\ ~Before(m, d, s[1].no, s[1].nth)
  BY <1>2 DEF Ordered
<1>7. Ordered(t, s[1].no, s[1].nth, m, d)
  <2>1. \A i, j \in 1 .. Len(t) : i < j => i + 1 < j + 1
    BY <1>1
  <2>2. QED
    BY <1>2, <1>4, <1>6, <2>1 DEF Ordered
<1>8. ASSUME NEW i \in 1 .. Len(t), t[i].nth # 0, s[1].no # t[i].no
      PROVE  \E j \in 1 .. i - 1 : t[j].no = t[i].no /\ t[j].nth = 0
  <2>1. t[i] = s[i + 1] /\ i + 1 \in 1 .. Len(s) /\ i \in Nat /\ s[i + 1].no \in Nat
    BY <1>4, PlaceTypes
  <2>2. Before(s[1].no, s[1].nth, s[i + 1].no, s[i + 1].nth)
    BY <1>2, <1>4, <2>1 DEF Ordered
  <2>3. n # s[i + 1].no
    BY <1>3, <1>6, <1>8, <2>1, <2>2 DEF Before
  <2>4. PICK j \in 1 .. (i + 1) - 1 : s[j].no = s[i + 1].no /\ s[j].nth = 0
    BY <1>8, <2>1, <2>3 DEF Led
  <2>5. j # 1
    BY <1>8, <2>1, <2>4
  <2>6. j - 1 \in 1 .. i - 1 /\ j - 1 \in 1 .. Len(t) /\ (j - 1) + 1 = j
    BY <1>1, <2>1, <2>5
  <2>7. t[j - 1] = s[j]
    BY <1>4, <2>6
  <2>8. QED
    BY <2>1, <2>4, <2>6, <2>7
<1>9. Led(t, s[1].no)
  BY <1>8 DEF Led
<1>10. ASSUME NEW k \in Nat, LedTo(s, n, k), ~(k < s[1].no), k # s[1].no
       PROVE  \E j \in 1 .. Len(t) : t[j].no = k /\ t[j].nth = 0
  <2>1. n # k
    BY <1>3, <1>6, <1>10 DEF Before
  <2>2. PICK j \in 1 .. Len(s) : s[j].no = k /\ s[j].nth = 0
    BY <1>10, <2>1 DEF LedTo
  <2>3. j - 1 \in 1 .. Len(t) /\ (j - 1) + 1 = j
    BY <1>1, <1>10, <2>2
  <2>4. t[j - 1] = s[j]
    BY <1>4, <2>3
  <2>5. QED
    BY <2>2, <2>3, <2>4
<1>11. QED
  BY <1>2, <1>5, <1>6, <1>7, <1>9, <1>10 DEF LedTo

\* A frame is added.
LEMMA AppendedPlaces ==
  ASSUME NEW s \in Seq(Places), NEW p \in Places
  PROVE  /\ Append(s, p) \in Seq(Places)
         /\ Len(s) \in Nat /\ Len(Append(s, p)) = Len(s) + 1
         /\ Append(s, p)[Len(s) + 1] = p
         /\ \A i \in 1 .. Len(s) : Append(s, p)[i] = s[i]
BY AppendProperties, LenProperties

\* The frame that follows all others keeps the order.
LEMMA AppendOrdered ==
  ASSUME NEW s \in Seq(Places), NEW p \in Places,
         NEW n \in Nat, NEW c \in Nat, NEW m \in Nat, NEW d \in Nat,
         Ordered(s, n, c, m, d), Led(s, n), Before(m, d, p.no, p.nth),
         p.nth # 0 => LedTo(s, n, p.no)
  PROVE  /\ Ordered(Append(s, p), n, c, p.no, p.nth)
         /\ Led(Append(s, p), n)
         /\ p.nth = 0 => LedTo(Append(s, p), n, p.no)
         /\ \A k : LedTo(s, n, k) => LedTo(Append(s, p), n, k)
<1> DEFINE t == Append(s, p)
<1>1. /\ Len(s) \in Nat /\ Len(t) = Len(s) + 1 /\ t[Len(s) + 1] = p
      /\ \A i \in 1 .. Len(s) : t[i] = s[i]
  BY AppendedPlaces
<1>2. p.no \in Nat /\ p.nth \in Nat
  BY DEF Places
<1>3. \A i \in 1 .. Len(t) : i \in 1 .. Len(s) \/ i = Len(s) + 1
  BY <1>1
<1>4. \A i \in 1 .. Len(s) : s[i].no \in Nat /\ s[i].nth \in Nat
  BY PlaceTypes
<1> HIDE DEF t
<1>5. ~Before(p.no, p.nth, n, c) /\ Before(n, c, p.no, p.nth) /\ ~Before(p.no, p.nth, p.no, p.nth)
  <2>1. ~Before(m, d, n, c)
    BY DEF Ordered
  <2>2. QED
    BY <1>2, <2>1 DEF Before
<1>6. ASSUME NEW i \in 1 .. Len(s)
      PROVE  /\ Before(n, c, s[i].no, s[i].nth)
             /\ Before(s[i].no, s[i].nth, p.no, p.nth)
             /\ ~Before(p.no, p.nth, s[i].no, s[i].nth)
  <2>1. Before(n, c, s[i].no, s[i].nth) /\ ~Before(m, d, s[i].no, s[i].nth)
    BY DEF Ordered
  <2>2. QED
    BY <1>2, <1>4, <2>1 DEF Before
<1>7. Ordered(t, n, c, p.no, p.nth)
  <2>1. \A i \in 1 .. Len(t) : Before(n, c, t[i].no, t[i].nth) /\ ~Before(p.no, p.nth, t[i].no, t[i].nth)
    BY <1>1, <1>3, <1>5, <1>6
  <2>2. ASSUME NEW i \in 1 .. Len(t), NEW j \in 1 .. Len(t), i < j
        PROVE  Before(t[i].no, t[i].nth, t[j].no, t[j].nth)
    <3>1. i \in 1 .. Len(s)
      BY <1>1, <2>2
    <3>2. CASE j \in 1 .. Len(s)
      <4>1. Before(s[i].no, s[i].nth, s[j].no, s[j].nth)
        BY <2>2, <3>1, <3>2 DEF Ordered
      <4>2. QED
        BY <1>1, <3>1, <3>2, <4>1
    <3>3. CASE j = Len(s) + 1
      BY <1>1, <1>6, <3>1, <3>3
    <3>4. QED
      BY <1>3, <3>2, <3>3
  <2>3. QED
    BY <1>5, <2>1, <2>2 DEF Ordered
<1>8. \A k : LedTo(s, n, k) => LedTo(t, n, k)
  <2>1. \A j \in 1 .. Len(s) : j \in 1 .. Len(t)
    BY <1>1
  <2>2. QED
    BY <1>1, <2>1 DEF LedTo
<1>9. p.nth = 0 => LedTo(t, n, p.no)
  <2>1. Len(s) + 1 \in 1 .. Len(t)
    BY <1>1
  <2>2. QED
    BY <1>1, <2>1 DEF LedTo
<1>10. Led(t, n)
  <2> SUFFICES ASSUME NEW i \in 1 .. Len(t), t[i].nth # 0, n # t[i].no
               PROVE  \E j \in 1 .. i - 1 : t[j].no = t[i].no /\ t[j].nth = 0
    BY DEF Led
  <2>1. CASE i \in 1 .. Len(s)
    <3>1. PICK j \in 1 .. i - 1 : s[j].no = s[i].no /\ s[j].nth = 0
      BY <1>1, <2>1 DEF Led
    <3>2. j \in 1 .. Len(s)
      BY <1>1, <2>1
    <3>3. QED
      BY <1>1, <2>1, <3>1, <3>2
  <2>2. CASE i = Len(s) + 1
    <3>1. PICK j \in 1 .. Len(s) : s[j].no = p.no /\ s[j].nth = 0
      BY <1>1, <2>2 DEF LedTo
    <3>2. j \in 1 .. i - 1
      BY <1>1, <2>2
    <3>3. QED
      BY <1>1, <2>2, <3>1, <3>2
  <2>3. QED
    BY <1>3, <2>1, <2>2
<1>11. QED
  BY <1>7, <1>8, <1>9, <1>10 DEF t

-----------------------------------------------------------------------------
(* The frames on their way *)

\* The frame at the place p of the PDUs sent.
IsFrame(pdus, bytes, p) ==
  /\ p.no \in 1 .. Len(pdus)
  /\ p.nth = 0 /\ Len(pdus[p.no]) <= 7 => bytes = RP!EncodeSingleFrame(pdus[p.no])
  /\ p.nth = 0 /\ Len(pdus[p.no]) > 7 => bytes = RP!EncodeFirstFrame(pdus[p.no]) /\ p.asks
  /\ p.nth # 0 =>
       /\ Len(pdus[p.no]) > 7
       /\ \E sn \in Nat :
            bytes = RP!EncodeConsecutiveFrame(sn, SubSeq(pdus[p.no], 7 * p.nth, Len(pdus[p.no])))

IsOwed(pdus, e, p) ==
  /\ IsFrame(pdus, e.bytes, p)
  /\ e.no = p.no
  /\ e.role \in {"first", "single"} <=> p.nth = 0
  /\ e.role \in {"first", "blockEnd"} => p.asks
  /\ p.nth = 0 /\ Len(pdus[p.no]) > 7 => e.role = "first"

\* The frames on the bus and those of the queue behind the first `skip', which
\* have been sent, are the ones at the places s.
Carries(pdus, s, frames, queue, skip) ==
  /\ skip <= Len(queue)
  /\ Len(s) = Len(frames) + Len(queue) - skip
  /\ \A i \in 1 .. Len(frames) : IsFrame(pdus, frames[i], s[i])
  /\ \A i \in 1 .. Len(queue) :
       /\ i <= skip => queue[i].sent
       /\ i > skip => ~queue[i].sent /\ IsOwed(pdus, queue[i], s[Len(frames) + i - skip])

\* A frame may be taken from among the others.
LEMMA PlacesWithout ==
  ASSUME NEW s \in Seq(Places), NEW x \in 1 .. Len(s)
  PROVE  \E t \in Seq(Places) : Without(t, s, x)
<1>1. /\ SP!RemoveAt(s, x) \in Seq(Places)
      /\ Len(SP!RemoveAt(s, x)) = Len(s) - 1
      /\ \A i \in 1 .. Len(s) - 1 : SP!RemoveAt(s, x)[i] = IF i < x THEN s[i] ELSE s[i + 1]
  BY SP!RemoveAtProperties
<1>2. Without(SP!RemoveAt(s, x), s, x)
  BY <1>1 DEF Without
<1>3. QED
  BY <1>1, <1>2

\* A frame reaches the bus.
LEMMA CarriesTransmitted ==
  ASSUME NEW pdus, NEW s \in Seq(Places), NEW frames \in Seq(CanFrames),
         NEW queue \in Seq(SP!OwedFrames), NEW skip \in 0 .. 1,
         Carries(pdus, s, frames, queue, skip), queue # <<>>, ~queue[1].sent
  PROVE  Carries(pdus, s, Append(frames, queue[1].bytes), [queue EXCEPT ![1].sent = TRUE], 1)
<1> DEFINE sent == [queue EXCEPT ![1].sent = TRUE]
           more == Append(frames, queue[1].bytes)
<1>1. Len(frames) \in Nat /\ Len(queue) \in Nat /\ Len(s) \in Nat /\ Len(queue) # 0
  BY LenProperties, EmptySeq
<1>2. 1 \in 1 .. Len(queue)
  BY <1>1
<1>3. queue[1] \in SP!OwedFrames /\ queue[1].bytes \in CanFrames
  <2>1. queue[1] \in SP!OwedFrames
    BY <1>2, ElementOfSeq
  <2>2. queue[1].bytes \in SP!CanFrames
    BY <2>1 DEF SP!OwedFrames
  <2>3. QED
    BY <2>1, <2>2 DEF SP!CanFrames, CanFrames, SP!Byte, Bytes
<1>4. skip = 0
  BY <1>2 DEF Carries
<1>5. /\ Len(more) = Len(frames) + 1 /\ more[Len(frames) + 1] = queue[1].bytes
      /\ \A i \in 1 .. Len(frames) : more[i] = frames[i]
  BY <1>3, AppendProperties
<1>6. /\ Len(sent) = Len(queue) /\ sent[1].sent
      /\ \A i \in 1 .. Len(queue) : i > 1 => sent[i] = queue[i]
  <2>1. queue \in [1 .. Len(queue) -> SP!OwedFrames]
    BY LenProperties
  <2>2. sent \in [1 .. Len(queue) -> SP!OwedFrames] /\ sent[1].sent
    BY <1>2, <1>3, <2>1 DEF SP!OwedFrames
  <2>3. Len(sent) = Len(queue)
    BY <1>1, <2>2, LenProperties, IsASeq
  <2>4. QED
    BY <2>1, <2>2, <2>3
<1>7. /\ Len(s) = Len(frames) + Len(queue)
      /\ \A i \in 1 .. Len(frames) : IsFrame(pdus, frames[i], s[i])
      /\ \A i \in 1 .. Len(queue) : ~queue[i].sent /\ IsOwed(pdus, queue[i], s[Len(frames) + i])
  BY <1>1, <1>4 DEF Carries
<1> HIDE DEF sent, more
<1>8. \A i \in 1 .. Len(more) : IsFrame(pdus, more[i], s[i])
  <2>1. IsFrame(pdus, queue[1].bytes, s[Len(frames) + 1])
    BY <1>2, <1>7 DEF IsOwed
  <2>2. \A i \in 1 .. Len(more) : i \in 1 .. Len(frames) \/ i = Len(frames) + 1
    BY <1>1, <1>5
  <2>3. QED
    BY <1>5, <1>7, <2>1, <2>2
<1>9. \A i \in 1 .. Len(sent) :
        /\ i <= 1 => sent[i].sent
        /\ i > 1 => ~sent[i].sent /\ IsOwed(pdus, sent[i], s[Len(more) + i - 1])
  <2>1. \A i \in 1 .. Len(sent) : i <= 1 => i = 1
    BY <1>1
  <2>2. \A i \in 1 .. Len(sent) : Len(more) + i - 1 = Len(frames) + i
    BY <1>1, <1>5
  <2>3. QED
    BY <1>6, <1>7, <2>1, <2>2
<1>10. 1 <= Len(sent) /\ Len(s) = Len(more) + Len(sent) - 1
  BY <1>1, <1>5, <1>6, <1>7
<1>11. QED
  BY <1>8, <1>9, <1>10 DEF Carries, sent, more

\* The first frame on the bus leaves it.
LEMMA CarriesTaken ==
  ASSUME NEW pdus, NEW s \in Seq(Places), NEW frames \in Seq(CanFrames),
         NEW queue \in Seq(SP!OwedFrames), NEW skip \in 0 .. 1,
         Carries(pdus, s, frames, queue, skip), frames # <<>>, NEW t, Without(t, s, 1)
  PROVE  /\ s # <<>>
         /\ IsFrame(pdus, Head(frames), s[1])
         /\ Carries(pdus, t, Tail(frames), queue, skip)
<1>1. Len(frames) \in Nat /\ Len(queue) \in Nat /\ Len(s) \in Nat /\ Len(frames) # 0
  BY LenProperties, EmptySeq
<1>2. /\ Head(frames) = frames[1] /\ Len(Tail(frames)) = Len(frames) - 1
      /\ \A i \in 1 .. Len(Tail(frames)) : Tail(frames)[i] = frames[i + 1]
  BY <1>1, HeadTailProperties
<1>3. PICK rest : rest = Tail(frames)
  OBVIOUS
<1>4. /\ skip <= Len(queue) /\ Len(s) = Len(frames) + Len(queue) - skip
      /\ Len(t) = Len(s) - 1
      /\ \A i \in 1 .. Len(t) : t[i] = IF i < 1 THEN s[i] ELSE s[i + 1]
  BY DEF Carries, Without
<1>5. IsFrame(pdus, Head(frames), s[1])
  <2>1. 1 \in 1 .. Len(frames)
    BY <1>1
  <2>2. QED
    BY <1>2, <2>1 DEF Carries
<1>6. s # <<>>
  <2>1. Len(s) # 0
    BY <1>1, <1>4
  <2>2. QED
    BY <2>1, EmptySeq
<1>7. \A i \in 1 .. Len(rest) : IsFrame(pdus, rest[i], t[i])
  <2>1. \A i \in 1 .. Len(rest) : i + 1 \in 1 .. Len(frames) /\ i \in 1 .. Len(t) /\ ~(i < 1)
    BY <1>1, <1>2, <1>3, <1>4
  <2>2. QED
    BY <1>2, <1>3, <1>4, <2>1 DEF Carries
<1>8. \A i \in 1 .. Len(queue) : i > skip => IsOwed(pdus, queue[i], t[Len(rest) + i - skip])
  <2>1. \A i \in 1 .. Len(queue) : i > skip =>
          /\ Len(rest) + i - skip \in 1 .. Len(t) /\ ~(Len(rest) + i - skip < 1)
          /\ (Len(rest) + i - skip) + 1 = Len(frames) + i - skip
    BY <1>1, <1>2, <1>3, <1>4
  <2>2. QED
    BY <1>4, <2>1 DEF Carries
<1>9. Len(t) = Len(rest) + Len(queue) - skip
  BY <1>1, <1>2, <1>3, <1>4
<1>10. QED
  BY <1>3, <1>4, <1>5, <1>6, <1>7, <1>8, <1>9 DEF Carries

\* The first frame of the queue, which was sent, is completed.
LEMMA CarriesCompleted ==
  ASSUME NEW pdus, NEW s \in Seq(Places), NEW frames \in Seq(CanFrames),
         NEW queue \in Seq(SP!OwedFrames), NEW skip \in 0 .. 1,
         Carries(pdus, s, frames, queue, skip), 1 \in 1 .. Len(queue), queue[1].sent
  PROVE  Carries(pdus, s, frames, SP!RemoveAt(queue, 1), 0)
<1>1. Len(frames) \in Nat /\ Len(queue) \in Nat /\ Len(s) \in Nat
  BY LenProperties
<1>2. skip = 1
  BY DEF Carries
<1>3. PICK rest : rest = SP!RemoveAt(queue, 1)
  OBVIOUS
<1>4. /\ Len(rest) = Len(queue) - 1
      /\ \A i \in 1 .. Len(queue) - 1 : rest[i] = IF i < 1 THEN queue[i] ELSE queue[i + 1]
  BY <1>3, SP!RemoveAtProperties
<1>5. \A i \in 1 .. Len(rest) :
        /\ ~(i <= 0) /\ ~(i < 1) /\ i + 1 \in 1 .. Len(queue) /\ i + 1 > skip
        /\ i \in 1 .. Len(queue) - 1
        /\ Len(frames) + (i + 1) - skip = Len(frames) + i - 0
  BY <1>1, <1>2, <1>4
<1>6. \A i \in 1 .. Len(rest) : ~rest[i].sent /\ IsOwed(pdus, rest[i], s[Len(frames) + i - 0])
  BY <1>4, <1>5 DEF Carries
<1>7. 0 <= Len(rest) /\ Len(s) = Len(frames) + Len(rest) - 0
  BY <1>1, <1>2, <1>4 DEF Carries
<1>8. \A i \in 1 .. Len(frames) : IsFrame(pdus, frames[i], s[i])
  BY DEF Carries
<1>9. QED
  BY <1>3, <1>5, <1>6, <1>7, <1>8 DEF Carries

\* A frame of the queue that was not sent fails.
LEMMA CarriesFailed ==
  ASSUME NEW pdus, NEW s \in Seq(Places), NEW frames \in Seq(CanFrames),
         NEW queue \in Seq(SP!OwedFrames), NEW skip \in 0 .. 1,
         Carries(pdus, s, frames, queue, skip),
         NEW i \in 1 .. Len(queue), ~queue[i].sent, NEW t,
         NEW x, x = Len(frames) + i - skip, Without(t, s, x)
  PROVE  /\ x \in 1 .. Len(s) /\ IsOwed(pdus, queue[i], s[x])
         /\ Carries(pdus, t, frames, SP!RemoveAt(queue, i), skip)
<1>1. Len(frames) \in Nat /\ Len(queue) \in Nat /\ Len(s) \in Nat
  BY LenProperties
<1>2. /\ skip <= Len(queue) /\ Len(s) = Len(frames) + Len(queue) - skip
      /\ Len(t) = Len(s) - 1
      /\ \A j \in 1 .. Len(t) : t[j] = IF j < x THEN s[j] ELSE s[j + 1]
      /\ \A j \in 1 .. Len(frames) : IsFrame(pdus, frames[j], s[j])
      /\ \A j \in 1 .. Len(queue) :
           /\ j <= skip => queue[j].sent
           /\ j > skip => ~queue[j].sent /\ IsOwed(pdus, queue[j], s[Len(frames) + j - skip])
  BY DEF Carries, Without
<1>3. i > skip
  BY <1>1, <1>2
<1>4. x \in 1 .. Len(s) /\ x > Len(frames)
  BY <1>1, <1>2, <1>3
<1>5. IsOwed(pdus, queue[i], s[x])
  BY <1>2, <1>3
<1>6. PICK rest : rest = SP!RemoveAt(queue, i)
  OBVIOUS
<1>7. /\ Len(rest) = Len(queue) - 1
      /\ \A j \in 1 .. Len(queue) - 1 : rest[j] = IF j < i THEN queue[j] ELSE queue[j + 1]
  BY <1>6, SP!RemoveAtProperties
<1>8. \A j \in 1 .. Len(frames) : IsFrame(pdus, frames[j], t[j])
  <2>1. \A j \in 1 .. Len(frames) : j \in 1 .. Len(t) /\ j < x
    BY <1>1, <1>2, <1>3, <1>4
  <2>2. QED
    BY <1>2, <2>1
<1>9. ASSUME NEW j \in 1 .. Len(rest)
      PROVE  /\ j <= skip => rest[j].sent
             /\ j > skip => ~rest[j].sent /\ IsOwed(pdus, rest[j], t[Len(frames) + j - skip])
  <2>1. j \in 1 .. Len(queue) /\ j + 1 \in 1 .. Len(queue) /\ j \in 1 .. Len(queue) - 1
    BY <1>1, <1>7
  <2>2. CASE j < i
    <3>1. rest[j] = queue[j]
      BY <1>7, <2>1, <2>2
    <3>2. j > skip => /\ Len(frames) + j - skip \in 1 .. Len(t)
                      /\ Len(frames) + j - skip < x
      <4>1. Len(t) = Len(s) - 1 /\ Len(s) = Len(frames) + Len(queue) - skip
        BY <1>2
      <4>2. QED
        BY <1>1, <2>1, <2>2, <4>1
    <3>3. QED
      BY <1>2, <2>1, <3>1, <3>2
  <2>3. CASE ~(j < i)
    <3>1. rest[j] = queue[j + 1]
      BY <1>7, <2>1, <2>3
    <3>2. j > skip /\ j + 1 > skip
      BY <1>1, <1>3, <2>1, <2>3
    <3>3. /\ Len(frames) + j - skip \in 1 .. Len(t)
          /\ ~(Len(frames) + j - skip < x)
          /\ (Len(frames) + j - skip) + 1 = Len(frames) + (j + 1) - skip
      BY <1>1, <1>2, <1>7, <2>1, <2>3, <3>2
    <3>4. ~(j <= skip)
      BY <2>1, <3>2
    <3>5. t[Len(frames) + j - skip] = s[Len(frames) + (j + 1) - skip]
      BY <1>2, <3>3
    <3>6. QED
      BY <1>2, <2>1, <3>1, <3>2, <3>4, <3>5
  <2>4. QED
    BY <2>2, <2>3
<1>10. skip <= Len(rest) /\ Len(t) = Len(frames) + Len(rest) - skip
  BY <1>1, <1>2, <1>3, <1>7
<1>11. QED
  BY <1>4, <1>5, <1>6, <1>8, <1>9, <1>10 DEF Carries

\* A frame joins the queue.
LEMMA CarriesAppended ==
  ASSUME NEW pdus, NEW s \in Seq(Places), NEW frames \in Seq(CanFrames),
         NEW queue \in Seq(SP!OwedFrames), NEW skip \in 0 .. 1,
         Carries(pdus, s, frames, queue, skip),
         NEW e \in SP!OwedFrames, NEW p \in Places, ~e.sent, IsOwed(pdus, e, p)
  PROVE  Carries(pdus, Append(s, p), frames, Append(queue, e), skip)
<1>1. Len(frames) \in Nat /\ Len(queue) \in Nat /\ Len(s) \in Nat
  BY LenProperties
<1>2. PICK t, rest : t = Append(s, p) /\ rest = Append(queue, e)
  OBVIOUS
<1>3. /\ Len(t) = Len(s) + 1 /\ t[Len(s) + 1] = p
      /\ \A i \in 1 .. Len(s) : t[i] = s[i]
  BY <1>2, AppendedPlaces
<1>4. /\ Len(rest) = Len(queue) + 1 /\ rest[Len(queue) + 1] = e
      /\ \A i \in 1 .. Len(queue) : rest[i] = queue[i]
  BY <1>2, AppendProperties
<1>5. /\ skip <= Len(queue) /\ Len(s) = Len(frames) + Len(queue) - skip
      /\ \A j \in 1 .. Len(frames) : IsFrame(pdus, frames[j], s[j])
      /\ \A j \in 1 .. Len(queue) :
           /\ j <= skip => queue[j].sent
           /\ j > skip => ~queue[j].sent /\ IsOwed(pdus, queue[j], s[Len(frames) + j - skip])
  BY DEF Carries
<1>6. \A j \in 1 .. Len(frames) : IsFrame(pdus, frames[j], t[j])
  <2>1. \A j \in 1 .. Len(frames) : j \in 1 .. Len(s)
    BY <1>1, <1>5
  <2>2. QED
    BY <1>3, <1>5, <2>1
<1>7. ASSUME NEW j \in 1 .. Len(rest)
      PROVE  /\ j <= skip => rest[j].sent
             /\ j > skip => ~rest[j].sent /\ IsOwed(pdus, rest[j], t[Len(frames) + j - skip])
  <2>1. CASE j \in 1 .. Len(queue)
    <3>1. j > skip => Len(frames) + j - skip \in 1 .. Len(s)
      BY <1>1, <1>5, <2>1
    <3>2. QED
      BY <1>3, <1>4, <1>5, <2>1, <3>1
  <2>2. CASE j = Len(queue) + 1
    <3>1. ~(j <= skip) /\ Len(frames) + j - skip = Len(s) + 1
      BY <1>1, <1>5, <2>2
    <3>2. QED
      BY <1>3, <1>4, <2>2, <3>1
  <2>3. QED
    BY <1>1, <1>4, <2>1, <2>2
<1>8. skip <= Len(rest) /\ Len(t) = Len(frames) + Len(rest) - skip
  BY <1>1, <1>3, <1>4, <1>5
<1>9. QED
  BY <1>2, <1>6, <1>7, <1>8 DEF Carries

\* A PDU joins those sent.
LEMMA CarriesMore ==
  ASSUME NEW pdus \in Seq(Seq(Bytes)), NEW pdu \in Seq(Bytes), NEW s, NEW frames, NEW queue, NEW skip,
         Carries(pdus, s, frames, queue, skip)
  PROVE  Carries(Append(pdus, pdu), s, frames, queue, skip)
<1>1. PICK more : more = Append(pdus, pdu)
  OBVIOUS
<1>2. /\ Len(pdus) \in Nat /\ Len(more) = Len(pdus) + 1
      /\ \A n \in 1 .. Len(pdus) : more[n] = pdus[n]
  BY <1>1, AppendProperties, LenProperties
<1>3. \A n \in 1 .. Len(pdus) : n \in 1 .. Len(more)
  BY <1>2
<1>4. \A bytes, p : IsFrame(pdus, bytes, p) => IsFrame(more, bytes, p)
  BY <1>2, <1>3, Zenon DEF IsFrame
<1>5. \A e, p : IsOwed(pdus, e, p) => IsOwed(more, e, p)
  <2>1. \A e, p : IsOwed(pdus, e, p) => p.no \in 1 .. Len(pdus)
    BY DEF IsOwed, IsFrame
  <2>2. QED
    BY <1>2, <1>4, <2>1, Zenon DEF IsOwed
<1>6. QED
  BY <1>1, <1>4, <1>5, Zenon DEF Carries

-----------------------------------------------------------------------------
(* How the two ends stand *)

\* The bytes that a first frame and c consecutive frames carry of a PDU.
SentBy(c, length) == IF 6 + 7 * c < length THEN 6 + 7 * c ELSE length

\* What the n-th PDU sent is.
PduSent(pdu, n) ==
  /\ Len(pdu) > 0 /\ Len(pdu) <= MaxPduSize
  /\ Len(pdu) > 7 => Len(pdu) \in RP!LongLengths
  /\ NumberOf(pdu[Len(pdu)]) = n

\* The sender has handed down c consecutive frames of its last PDU.
SenderAt(c) ==
  /\ offered \in Seq(Seq(Bytes)) /\ Len(offered) = accepted
  /\ \A n \in 1 .. Len(offered) : PduSent(offered[n], n)
  /\ accepted # 0 => /\ pduBuffer = offered[accepted]
                     /\ Len(pduBuffer) > 7 => bytesSent = SentBy(c, Len(pduBuffer))
  /\ state \in {"waitingForFc", "sendingCf"} => accepted # 0 /\ Len(pduBuffer) > 7
  /\ resets = 0

\* The last frame that has arrived is the q-th of the n-th PDU, of which the
\* receiver holds the first and k consecutive frames if it is receiving.
ReceiverAt(n, q, k) ==
  /\ delivered \in Seq(Seq(Bytes)) /\ LastDelivered \in Nat /\ LastDelivered <= n
  /\ rState # "idle" =>
       /\ n \in 1 .. Len(offered) /\ Len(offered[n]) > 7 /\ LastDelivered < n
       /\ expectedTotalLength = Len(offered[n])
       /\ Len(assemblyBuffer) = 6 + 7 * k /\ k <= q
       /\ k = q => \A i \in 1 .. 6 + 7 * k : assemblyBuffer[i] = offered[n][i]

\* When frames of the PDU last sent may follow.
Sends == state = "sendingCf" \/ (Late /\ state = "waitingForFc")

GoOn == RP!EncodeFlowControl("continueToSend", BlockSize, SeparationTime)

\* None, and one, of the frames on the bus and in the queue asks the sender to
\* go on; in the queue are only frames that were sent besides.
NoneAsks(frames, queue) == frames = <<>> /\ \A i \in 1 .. Len(queue) : queue[i].sent
OneAsks(frames, queue) ==
  \/ frames = <<GoOn>> /\ \A i \in 1 .. Len(queue) : queue[i].sent
  \/ /\ frames = <<>>
     /\ \E j \in 1 .. Len(queue) :
          queue[j].bytes = GoOn /\ \A i \in 1 .. Len(queue) : i # j => queue[i].sent

\* Only the newest frame asks for flow control, and the sender waits for it.
OnlyLastAsks(s, c) ==
  \A i \in 1 .. Len(s) :
    s[i].asks => state = "waitingForFc" /\ i = Len(s) /\ s[i].no = accepted /\ s[i].nth = c

\* While flow control is on its way nothing else is, and both ends are at the
\* same place.
AskedOnce(s, n, c, k) ==
  \/ NoneAsks(toSender, rOwed)
  \/ /\ OneAsks(toSender, rOwed)
     /\ state = "waitingForFc" /\ s = <<>>
     /\ rState # "idle" /\ n = accepted /\ k = c /\ framesInBlock = 0

\* The place of the last frame of the receiver's block.
BlockEnd(k) == k - framesInBlock + BlockSize

\* The sender's block does not go beyond the receiver's.
BlockIsTheirs(n, c, k) ==
  state = "sendingCf" /\ bytesSent < Len(pduBuffer) =>
    /\ blockSize = BlockSize
    /\ BlockSize # 0 =>
         /\ blocksRemaining \in Nat \ {0}
         /\ rState # "idle" /\ n = accepted => c + blocksRemaining <= BlockEnd(k)

\* Nor do the frames on their way; the one at its end asks for flow control.
BlockIsKept(s, n, k) ==
  rState # "idle" /\ BlockSize # 0 =>
    /\ framesInBlock <= k
    /\ \A i \in 1 .. Len(s) :
         s[i].no = n /\ 7 * s[i].nth <= expectedTotalLength =>
           /\ s[i].nth <= BlockEnd(k)
           /\ s[i].nth = BlockEnd(k) => s[i].asks \/ 6 + 7 * s[i].nth >= expectedTotalLength

InTurn(s, n, c, k) ==
  OnlyLastAsks(s, c) /\ AskedOnce(s, n, c, k) /\ BlockIsTheirs(n, c, k) /\ BlockIsKept(s, n, k)

OnTheWay(s, n, q, c) ==
  /\ \E skip \in 0 .. 1 : Carries(offered, s, toReceiver, owed, skip)
  /\ Ordered(s, n, q, accepted, c)
  /\ Led(s, n)
  /\ Sends => LedTo(s, n, accepted)

LinkAt(s, n, q, c, k) ==
  /\ OnTheWay(s, n, q, c)
  /\ SenderAt(c)
  /\ ReceiverAt(n, q, k)
  /\ ~Late => InTurn(s, n, c, k)

LinkHolds == \E s \in Seq(Places), n, q, c, k \in Nat : LinkAt(s, n, q, c, k)

-----------------------------------------------------------------------------

\* What the invariants of the two ends say of their variables.
LEMMA LinkTypes ==
  ASSUME Inv
  PROVE  /\ owed \in Seq(SP!OwedFrames) /\ rOwed \in Seq(RP!OwedFrames)
         /\ toReceiver \in Seq(CanFrames) /\ toSender \in Seq(Seq(Bytes))
         /\ accepted \in Nat /\ state \in {"idle", "sendingSf", "waitingForFc", "sendingCf"}
         /\ pduBuffer \in Seq(Bytes) /\ bytesSent \in 0 .. Len(pduBuffer) /\ sequenceNumber \in Nat
         /\ rState \in {"idle", "receivingCf"} /\ framesInBlock \in Nat
         /\ assemblyBuffer \in Seq(Bytes) /\ expectedTotalLength \in Nat
         /\ rState # "idle" => /\ Len(assemblyBuffer) < expectedTotalLength
                               /\ BlockSize # 0 => framesInBlock < BlockSize
         /\ Len(pduBuffer) \in Nat /\ Len(assemblyBuffer) \in Nat
<1>1. /\ owed \in Seq(SP!OwedFrames) /\ rOwed \in Seq(RP!OwedFrames)
      /\ toReceiver \in Seq(CanFrames) /\ toSender \in Seq(Seq(Bytes))
  BY DEF Inv, BusTypes, SP!IInv, SP!FrameTypes, RP!IInv, RP!FrameTypes
<1>2. accepted \in Nat /\ state \in {"idle", "sendingSf", "waitingForFc", "sendingCf"}
  BY DEF Inv, SP!IInv, SP!SenderTypes, SP!States
<1>3. SP!Byte = Bytes /\ RP!Byte = Bytes
  BY DEF SP!Byte, RP!Byte, Bytes
<1>4. pduBuffer \in Seq(Bytes) /\ bytesSent \in 0 .. Len(pduBuffer) /\ sequenceNumber \in Nat
  BY <1>3, Zenon DEF Inv, SP!IInv, SP!PduTypes
<1>5. /\ rState \in {"idle", "receivingCf"} /\ framesInBlock \in Nat
      /\ assemblyBuffer \in Seq(Bytes) /\ expectedTotalLength \in Nat
  BY <1>3, Zenon DEF Inv, RP!IInv, RP!ReceiverTypes, RP!AssemblyTypes
<1>6. rState # "idle" => /\ Len(assemblyBuffer) < expectedTotalLength
                         /\ BlockSize # 0 => framesInBlock < BlockSize
  BY DEF Inv, RP!IInv, RP!ReceptionIsTimed, RP!Receiving
<1>7. Len(pduBuffer) \in Nat /\ Len(assemblyBuffer) \in Nat
  BY <1>4, <1>5, LenProperties
<1>8. QED
  BY <1>1, <1>2, <1>4, <1>5, <1>6, <1>7, Zenon

\* Both ends mean the same by a frame.
LEMMA SameEncodings ==
  /\ \A pdu : /\ SP!EncodeSingleFrame(pdu) = RP!EncodeSingleFrame(pdu)
              /\ SP!EncodeFirstFrame(pdu) = RP!EncodeFirstFrame(pdu)
  /\ \A sn, rest : SP!EncodeConsecutiveFrame(sn, rest) = RP!EncodeConsecutiveFrame(sn, rest)
BY Zenon DEF SP!EncodeSingleFrame, RP!EncodeSingleFrame, SP!EncodeFirstFrame, RP!EncodeFirstFrame,
       SP!EncodeConsecutiveFrame, RP!EncodeConsecutiveFrame, SP!ffFirstDataBytes,
       RP!ffFirstDataBytes, SP!snModulus, RP!snModulus, SP!cfMaxDataBytes, RP!cfMaxDataBytes

\* What is left of a PDU after c consecutive frames.
LEMMA RestAfter ==
  ASSUME NEW pdu \in Seq(Bytes), NEW c \in Nat
  PROVE  LET length == Len(pdu)
         IN /\ SubSeq(pdu, SentBy(c, length) + 1, length) = SubSeq(pdu, 7 * (c + 1), length)
            /\ length > 6 => (IF SentBy(c, length) + 7 < length THEN SentBy(c, length) + 7 ELSE length)
                               = SentBy(c + 1, length)
<1>1. PICK length : length = Len(pdu)
  OBVIOUS
<1>2. length \in Nat
  BY <1>1, LenProperties
<1>3. (IF SentBy(c, length) + 7 < length THEN SentBy(c, length) + 7 ELSE length) = SentBy(c + 1, length)
  BY <1>2 DEF SentBy
<1>4. CASE 6 + 7 * c < length
  <2>1. SentBy(c, length) + 1 = 7 * (c + 1)
    BY <1>2, <1>4 DEF SentBy
  <2>2. QED
    BY <1>1, <1>3, <2>1
<1>5. CASE ~(6 + 7 * c < length)
  <2>1. ASSUME NEW a \in Int, a > length
        PROVE  SubSeq(pdu, a, length) = <<>>
    <3>1. \A i \in a .. length : pdu[i] \in Bytes
      BY <1>2, <2>1
    <3>2. SubSeq(pdu, a, length) \in Seq(Bytes) /\ Len(SubSeq(pdu, a, length)) = 0
      BY <1>2, <2>1, <3>1, SubSeqProperties
    <3>3. QED
      BY <3>2, EmptySeq
  <2>2. SentBy(c, length) + 1 \in Int /\ SentBy(c, length) + 1 > length
    BY <1>2, <1>5 DEF SentBy
  <2>3. 7 * (c + 1) \in Int /\ 7 * (c + 1) > length
    BY <1>2, <1>5
  <2>4. SubSeq(pdu, SentBy(c, length) + 1, length) = SubSeq(pdu, 7 * (c + 1), length)
    BY <2>1, <2>2, <2>3
  <2>5. QED
    BY <1>1, <1>3, <2>4
<1>6. QED
  BY <1>4, <1>5

\* The order does not depend on how far the sender is.
LEMMA OrderedOn ==
  ASSUME NEW s \in Seq(Places), NEW n \in Nat, NEW q \in Nat, NEW m \in Nat, NEW c \in Nat,
         Ordered(s, n, q, m, c)
  PROVE  Ordered(s, n, q, m, c + 1)
<1>1. \A i \in 1 .. Len(s) : s[i].no \in Nat /\ s[i].nth \in Nat
  BY PlaceTypes
<1>2. \A a, b \in Nat : ~Before(m, c, a, b) => ~Before(m, c + 1, a, b)
  BY DEF Before
<1>3. QED
  BY <1>1, <1>2, Zenon DEF Ordered

\* What handing down the next frame leaves on the way.
NextOnTheWay(s, n, q, c, skip, size, remaining) ==
  \E t \in Seq(Places) :
    /\ Carries(offered, t, toReceiver, owed', skip)
    /\ Ordered(t, n, q, accepted, c + 1) /\ Led(t, n) /\ LedTo(t, n, accepted)
    /\ \/ t = s /\ state' = "idle"
       \/ \E p \in Places :
            /\ t = Append(s, p) /\ p.no = accepted /\ p.nth = c + 1
            /\ \/ p.asks /\ state' = "waitingForFc" /\ size # 0
               \/ /\ ~p.asks /\ state' = "sendingCf"
                  /\ bytesSent' < Len(pduBuffer) =>
                       /\ blockSize' = size
                       /\ size # 0 /\ remaining \in Nat => /\ remaining > 1
                                                           /\ blocksRemaining' = remaining - 1

\* The next frame joins the frames on their way, or none does and the sender is idle.
LEMMA NextFrameGoes ==
  ASSUME Inv, NEW s \in Seq(Places), NEW n \in Nat, NEW q \in Nat, NEW c \in Nat,
         NEW r \in Seq(SP!OwedFrames), NEW skip \in 0 .. 1, NEW size, NEW remaining,
         Carries(offered, s, toReceiver, r, skip), SenderAt(c),
         Ordered(s, n, q, accepted, c), Led(s, n), LedTo(s, n, accepted),
         state \in {"waitingForFc", "sendingCf"},
         SP!HandsNextFrame(r, size, remaining)
  PROVE  /\ NextOnTheWay(s, n, q, c, skip, size, remaining)
         /\ UNCHANGED <<offered, resets>> => SenderAt(c + 1)'
         /\ UNCHANGED accepted
<1>1. /\ accepted \in Nat \ {0} /\ pduBuffer \in Seq(Bytes) /\ sequenceNumber \in Nat
      /\ pduBuffer = offered[accepted] /\ Len(pduBuffer) > 7
      /\ bytesSent = SentBy(c, Len(pduBuffer)) /\ Len(pduBuffer) \in Nat
      /\ Len(offered) = accepted
  BY LinkTypes DEF SenderAt
<1>2. /\ SubSeq(pduBuffer, bytesSent + 1, Len(pduBuffer))
           = SubSeq(pduBuffer, 7 * (c + 1), Len(pduBuffer))
      /\ SP!SentWithNext = SentBy(c + 1, Len(pduBuffer))
  <2>1. PICK pdu : pdu = pduBuffer
    OBVIOUS
  <2>2. pdu \in Seq(Bytes) /\ Len(pdu) > 6
    BY <1>1, <2>1
  <2>3. /\ SubSeq(pdu, SentBy(c, Len(pdu)) + 1, Len(pdu)) = SubSeq(pdu, 7 * (c + 1), Len(pdu))
        /\ (IF SentBy(c, Len(pdu)) + 7 < Len(pdu) THEN SentBy(c, Len(pdu)) + 7 ELSE Len(pdu))
             = SentBy(c + 1, Len(pdu))
    BY <2>2, RestAfter
  <2>4. QED
    BY <1>1, <2>1, <2>3 DEF SP!SentWithNext
<1>3. /\ UNCHANGED <<pduBuffer, accepted>> /\ bytesSent' = SP!SentWithNext
      /\ state' \in {"idle", "waitingForFc", "sendingCf"}
  BY Zenon DEF SP!HandsNextFrame
<1>4. ASSUME UNCHANGED <<offered, resets>>
      PROVE  SenderAt(c + 1)'
  BY <1>1, <1>2, <1>3, <1>4 DEF SenderAt
<1>5. Ordered(s, n, q, accepted, c + 1)
  BY <1>1, OrderedOn
<1>6. CASE owed' = r /\ state' = "idle"
  <2>1. Carries(offered, s, toReceiver, owed', skip)
    BY <1>6
  <2>2. QED
    BY <1>3, <1>4, <1>5, <1>6, <2>1, Zenon DEF NextOnTheWay
<1>7. CASE \E e \in SP!OwedFrames :
             /\ owed' = Append(r, e)
             /\ e.no = accepted /\ ~e.sent
             /\ e.bytes = SP!EncodeConsecutiveFrame(sequenceNumber,
                            SubSeq(pduBuffer, bytesSent + 1, Len(pduBuffer)))
             /\ \/ /\ e.role = "blockEnd" /\ state' = "waitingForFc"
                   /\ bytesSent' < Len(pduBuffer) /\ size # 0
                \/ /\ e.role \in {"next", "last"} /\ state' = "sendingCf"
                   /\ bytesSent' < Len(pduBuffer) =>
                        /\ blockSize' = size
                        /\ size # 0 /\ remaining \in Nat => /\ remaining > 1
                                                            /\ blocksRemaining' = remaining - 1
  <2>1. PICK e \in SP!OwedFrames :
             /\ owed' = Append(r, e)
             /\ e.no = accepted /\ ~e.sent
             /\ e.bytes = SP!EncodeConsecutiveFrame(sequenceNumber,
                            SubSeq(pduBuffer, bytesSent + 1, Len(pduBuffer)))
             /\ \/ /\ e.role = "blockEnd" /\ state' = "waitingForFc"
                   /\ bytesSent' < Len(pduBuffer) /\ size # 0
                \/ /\ e.role \in {"next", "last"} /\ state' = "sendingCf"
                   /\ bytesSent' < Len(pduBuffer) =>
                        /\ blockSize' = size
                        /\ size # 0 /\ remaining \in Nat => /\ remaining > 1
                                                            /\ blocksRemaining' = remaining - 1
    BY <1>7, Zenon
  <2>2. PICK p \in Places : /\ p.no = accepted /\ p.nth = c + 1
                            /\ p.asks <=> e.role = "blockEnd"
    <3>1. PICK asks \in BOOLEAN : asks <=> e.role = "blockEnd"
      OBVIOUS
    <3>2. [no |-> accepted, nth |-> c + 1, asks |-> asks] \in Places
      BY <1>1 DEF Places
    <3>3. QED
      BY <3>1, <3>2
  <2>3. /\ p \in Places /\ p.no = accepted /\ p.nth = c + 1 /\ p.nth # 0
        /\ p.asks <=> e.role = "blockEnd"
    BY <2>2
  <2>4. IsFrame(offered, e.bytes, p)
    <3>1. p.no \in 1 .. Len(offered)
      BY <1>1, <2>3
    <3>2. offered[p.no] = pduBuffer
      BY <1>1, <2>3
    <3>3. e.bytes = RP!EncodeConsecutiveFrame(sequenceNumber,
                      SubSeq(offered[p.no], 7 * p.nth, Len(offered[p.no])))
      BY <1>2, <2>1, <2>3, <3>2, SameEncodings, Zenon
    <3>4. QED
      BY <1>1, <2>3, <3>1, <3>2, <3>3, Zenon DEF IsFrame
  <2>5. e.role \in {"blockEnd", "next", "last"}
    BY <2>1
  <2>6. IsOwed(offered, e, p)
    BY <2>1, <2>3, <2>4, <2>5 DEF IsOwed
  <2>7. Carries(offered, Append(s, p), toReceiver, owed', skip)
    <3>1. toReceiver \in Seq(CanFrames)
      BY LinkTypes
    <3>2. PICK pdus, frames : pdus = offered /\ frames = toReceiver
      OBVIOUS
    <3>3. Carries(pdus, Append(s, p), frames, Append(r, e), skip)
      BY <2>1, <2>3, <2>6, <3>1, <3>2, CarriesAppended
    <3>4. QED
      BY <2>1, <3>2, <3>3
  <2>8. /\ Append(s, p) \in Seq(Places)
        /\ Ordered(Append(s, p), n, q, accepted, c + 1) /\ Led(Append(s, p), n)
        /\ LedTo(Append(s, p), n, accepted)
    <3>1. PICK m : m = accepted
      OBVIOUS
    <3>2. m \in Nat /\ Ordered(s, n, q, m, c) /\ p.no = m
      BY <1>1, <2>3, <3>1
    <3>3. Before(m, c, p.no, p.nth)
      BY <2>3, <3>2 DEF Before
    <3>4. LedTo(s, n, m)
      BY <3>1
    <3>5. /\ Ordered(Append(s, p), n, q, p.no, p.nth)
          /\ Led(Append(s, p), n)
          /\ \A i : LedTo(s, n, i) => LedTo(Append(s, p), n, i)
      BY <2>3, <3>2, <3>3, <3>4, AppendOrdered
    <3>6. QED
      BY <2>3, <3>1, <3>2, <3>4, <3>5, AppendedPlaces
  <2>9. \/ p.asks /\ state' = "waitingForFc" /\ size # 0
        \/ /\ ~p.asks /\ state' = "sendingCf"
           /\ bytesSent' < Len(pduBuffer) =>
                /\ blockSize' = size
                /\ size # 0 /\ remaining \in Nat => /\ remaining > 1
                                                    /\ blocksRemaining' = remaining - 1
    BY <2>1, <2>3, <2>5, Zenon
  <2>10. PICK t : t = Append(s, p)
    OBVIOUS
  <2>11. QED
    BY <1>3, <1>4, <2>3, <2>7, <2>8, <2>9, <2>10, Zenon DEF NextOnTheWay
<1>8. QED
  BY <1>3, <1>4, <1>6, <1>7, Zenon DEF SP!HandsNextFrame

-----------------------------------------------------------------------------
(* What stays *)

\* The sender's place is kept when it goes on with the same PDU, or is idle,
LEMMA SenderStays ==
  ASSUME NEW c \in Nat, SenderAt(c), UNCHANGED <<offered, accepted, pduBuffer, bytesSent, resets>>,
         state' \in {state, "idle"}
  PROVE  SenderAt(c)'
BY DEF SenderAt

\* the receiver's when it goes on with the same bytes, or is idle,
LEMMA ReceiverStays ==
  ASSUME NEW n \in Nat, NEW q \in Nat, NEW k \in Nat, ReceiverAt(n, q, k), UNCHANGED delivered,
         rState' = "idle" \/ UNCHANGED <<rState, assemblyBuffer, expectedTotalLength>>,
         offered \in Seq(Seq(Bytes)),
         \/ UNCHANGED offered
         \/ \E pdu \in Seq(Bytes) : offered' = Append(offered, pdu)
  PROVE  ReceiverAt(n, q, k)'
<1>1. LastDelivered' = LastDelivered
  BY DEF LastDelivered
<1>2. CASE rState' = "idle"
  BY <1>1, <1>2 DEF ReceiverAt
<1>3. CASE UNCHANGED <<rState, assemblyBuffer, expectedTotalLength, offered>>
  BY <1>1, <1>3 DEF ReceiverAt
<1>4. CASE /\ UNCHANGED <<rState, assemblyBuffer, expectedTotalLength>>
           /\ \E pdu \in Seq(Bytes) : offered' = Append(offered, pdu)
  <2>1. /\ Len(offered) \in Nat /\ Len(offered') = Len(offered) + 1
        /\ \A i \in 1 .. Len(offered) : offered'[i] = offered[i]
    BY <1>4, AppendProperties, LenProperties
  <2>2. \A i \in 1 .. Len(offered) : i \in 1 .. Len(offered')
    BY <2>1
  <2>3. QED
    BY <1>1, <1>4, <2>1, <2>2 DEF ReceiverAt
<1>5. QED
  BY <1>2, <1>3, <1>4

\* and the turn of the two when neither moves and a sender that waits goes on waiting.
LEMMA InTurnStays ==
  ASSUME NEW s \in Seq(Places), NEW n \in Nat, NEW c \in Nat, NEW k \in Nat, InTurn(s, n, c, k),
         UNCHANGED <<toSender, rOwed, rState, framesInBlock, expectedTotalLength,
                     accepted, bytesSent, pduBuffer, blockSize, blocksRemaining>>,
         state' \in {state, "idle"}, state = "waitingForFc" => state' = state
  PROVE  InTurn(s, n, c, k)'
<1>1. OnlyLastAsks(s, c)'
  BY DEF InTurn, OnlyLastAsks
<1>2. AskedOnce(s, n, c, k)'
  BY DEF InTurn, AskedOnce
<1>3. BlockIsTheirs(n, c, k)'
  BY DEF InTurn, BlockIsTheirs, BlockEnd
<1>4. BlockIsKept(s, n, k)'
  BY DEF InTurn, BlockIsKept, BlockEnd
<1>5. QED
  BY <1>1, <1>2, <1>3, <1>4 DEF InTurn

\* A sender that stops sends no more.
LEMMA SendsLess ==
  ASSUME UNCHANGED part, state' \in {state, "idle"}, Sends'
  PROVE  Sends
BY DEF Sends, Late

\* At each of the places on the way is a frame.
LEMMA AllAreFrames ==
  ASSUME NEW pdus, NEW s \in Seq(Places), NEW frames \in Seq(CanFrames),
         NEW queue \in Seq(SP!OwedFrames), NEW skip \in 0 .. 1,
         Carries(pdus, s, frames, queue, skip), NEW x \in 1 .. Len(s)
  PROVE  \E bytes : IsFrame(pdus, bytes, s[x])
<1>1. Len(frames) \in Nat /\ Len(queue) \in Nat /\ Len(s) \in Nat
  BY LenProperties
<1>2. Len(s) = Len(frames) + Len(queue) - skip
  BY DEF Carries
<1>3. CASE x <= Len(frames)
  <2>1. x \in 1 .. Len(frames)
    BY <1>1, <1>3
  <2>2. QED
    BY <2>1 DEF Carries
<1>4. CASE x > Len(frames)
  <2>1. PICK i : i = x - Len(frames) + skip
    OBVIOUS
  <2>2. i \in 1 .. Len(queue) /\ i > skip /\ Len(frames) + i - skip = x
    BY <1>1, <1>2, <1>4, <2>1
  <2>3. QED
    BY <2>2 DEF Carries, IsOwed
<1>5. QED
  BY <1>1, <1>3, <1>4

-----------------------------------------------------------------------------
(* Frames that are lost *)

\* The frame x is not one that others follow, nor one that others may follow.
LEMMA LossIsHarmless ==
  ASSUME Inv, UNCHANGED part,
         NEW s \in Seq(Places), NEW n \in Nat, NEW q \in Nat, NEW c \in Nat, NEW k \in Nat,
         LinkAt(s, n, q, c, k), NEW x \in 1 .. Len(s),
         state' \in {state, "idle"},
         Late /\ s[x].nth = 0 /\ Len(offered[s[x].no]) > 7 =>
           /\ \A j \in x + 1 .. Len(s) : s[j].no # s[x].no
           /\ s[x].no = accepted => state' \notin {"waitingForFc", "sendingCf"}
  PROVE  /\ Dispensable(s, x)
         /\ Sends' => ~(s[x].no = accepted /\ s[x].nth = 0)
<1>1. \A j \in 1 .. Len(s) : /\ s[j].no \in Nat /\ s[j].nth \in Nat
                             /\ s[j].nth # 0 => Len(offered[s[j].no]) > 7
  <2>1. PICK skip \in 0 .. 1 : Carries(offered, s, toReceiver, owed, skip)
    BY DEF LinkAt, OnTheWay
  <2>2. PICK pdus, frames, queue : pdus = offered /\ frames = toReceiver /\ queue = owed
    OBVIOUS
  <2>3. frames \in Seq(CanFrames) /\ queue \in Seq(SP!OwedFrames)
    BY <2>2, LinkTypes
  <2>4. \A j \in 1 .. Len(s) : \E bytes : IsFrame(pdus, bytes, s[j])
    BY <2>1, <2>2, <2>3, AllAreFrames
  <2>5. QED
    BY <2>2, <2>4, PlaceTypes DEF IsFrame
<1>2. ASSUME s[x].nth = 0, Len(offered[s[x].no]) > 7, ~Late
      PROVE  state = "waitingForFc" /\ x = Len(s)
  <2>1. s[x].asks
    <3>1. PICK skip \in 0 .. 1 : Carries(offered, s, toReceiver, owed, skip)
      BY DEF LinkAt, OnTheWay
    <3>2. PICK pdus, frames, queue : pdus = offered /\ frames = toReceiver /\ queue = owed
      OBVIOUS
    <3>3. frames \in Seq(CanFrames) /\ queue \in Seq(SP!OwedFrames)
      BY <3>2, LinkTypes
    <3>4. \E bytes : IsFrame(pdus, bytes, s[x])
      BY <3>1, <3>2, <3>3, AllAreFrames
    <3>5. QED
      BY <1>2, <3>2, <3>4 DEF IsFrame
  <2>2. QED
    BY <1>2, <2>1 DEF LinkAt, InTurn, OnlyLastAsks
<1>3. Dispensable(s, x)
  <2> SUFFICES ASSUME s[x].nth = 0, NEW j \in x + 1 .. Len(s), s[j].no = s[x].no
               PROVE  FALSE
    BY DEF Dispensable
  <2>1. j \in 1 .. Len(s) /\ x < j /\ x # Len(s)
    BY LenProperties
  <2>2. Before(s[x].no, s[x].nth, s[j].no, s[j].nth)
    BY <2>1 DEF LinkAt, OnTheWay, Ordered
  <2>3. s[j].nth # 0
    BY <1>1, <2>1, <2>2 DEF Before
  <2>4. Len(offered[s[x].no]) > 7
    BY <1>1, <2>1, <2>3
  <2>5. QED
    BY <1>2, <2>1, <2>4
<1>4. ASSUME Sends', s[x].no = accepted, s[x].nth = 0
      PROVE  FALSE
  <2>1. Sends /\ state' = state
    BY <1>4, SendsLess DEF Sends
  <2>2. state \in {"waitingForFc", "sendingCf"}
    BY <2>1 DEF Sends
  <2>3. Len(offered[s[x].no]) > 7
    BY <1>4, <2>2 DEF LinkAt, SenderAt
  <2>4. ~Late
    BY <1>4, <2>1, <2>2, <2>3
  <2>5. state = "waitingForFc"
    BY <1>2, <1>4, <2>3, <2>4
  <2>6. QED
    BY <2>1, <2>4, <2>5 DEF Sends
<1>5. QED
  BY <1>3, <1>4

\* The others stay in turn.
LEMMA InTurnWithout ==
  ASSUME NEW s \in Seq(Places), NEW t \in Seq(Places), NEW x \in 1 .. Len(s), Without(t, s, x),
         NEW n \in Nat, NEW c \in Nat, NEW k \in Nat, InTurn(s, n, c, k),
         UNCHANGED <<toSender, rOwed, rState, framesInBlock, expectedTotalLength,
                     accepted, bytesSent, pduBuffer, blockSize, blocksRemaining>>,
         state' \in {state, "idle"},
         state = "waitingForFc" /\ ~s[x].asks => state' = state
  PROVE  InTurn(t, n, c, k)'
<1>1. /\ Len(s) \in Nat /\ Len(t) = Len(s) - 1 /\ s # <<>>
      /\ \A i \in 1 .. Len(t) : t[i] = IF i < x THEN s[i] ELSE s[i + 1]
  BY LenProperties, EmptySeq DEF Without
<1>2. ASSUME NEW i \in 1 .. Len(t)
      PROVE  \E j \in 1 .. Len(s) : t[i] = s[j] /\ j # x /\ (j = Len(s) => i = Len(t))
  <2>1. CASE i < x
    <3>1. i \in 1 .. Len(s) /\ i # x /\ i # Len(s)
      BY <1>1, <2>1
    <3>2. QED
      BY <1>1, <2>1, <3>1
  <2>2. CASE ~(i < x)
    <3>1. i + 1 \in 1 .. Len(s) /\ i + 1 # x /\ (i + 1 = Len(s) => i = Len(t))
      BY <1>1, <2>2
    <3>2. QED
      BY <1>1, <2>2, <3>1
  <2>3. QED
    BY <2>1, <2>2
<1>3. OnlyLastAsks(t, c)'
  <2> SUFFICES ASSUME NEW i \in 1 .. Len(t), t[i].asks
               PROVE  state' = "waitingForFc" /\ i = Len(t) /\ t[i].no = accepted' /\ t[i].nth = c
    BY DEF OnlyLastAsks
  <2>1. PICK j \in 1 .. Len(s) : t[i] = s[j] /\ j # x /\ (j = Len(s) => i = Len(t))
    BY <1>2
  <2>2. state = "waitingForFc" /\ j = Len(s) /\ s[j].no = accepted /\ s[j].nth = c
    BY <2>1 DEF InTurn, OnlyLastAsks
  <2>3. ~s[x].asks
    BY <2>1, <2>2 DEF InTurn, OnlyLastAsks
  <2>4. QED
    BY <2>1, <2>2, <2>3
<1>4. AskedOnce(t, n, c, k)'
  BY <1>1 DEF InTurn, AskedOnce
<1>5. BlockIsTheirs(n, c, k)'
  BY DEF InTurn, BlockIsTheirs, BlockEnd
<1>6. BlockIsKept(t, n, k)'
  <2> SUFFICES ASSUME rState # "idle", BlockSize # 0
               PROVE  /\ framesInBlock <= k
                      /\ \A i \in 1 .. Len(t) :
                           t[i].no = n /\ 7 * t[i].nth <= expectedTotalLength =>
                             /\ t[i].nth <= BlockEnd(k)
                             /\ t[i].nth = BlockEnd(k) =>
                                  t[i].asks \/ 6 + 7 * t[i].nth >= expectedTotalLength
    BY DEF BlockIsKept, BlockEnd
  <2>1. /\ framesInBlock <= k
        /\ \A j \in 1 .. Len(s) :
             s[j].no = n /\ 7 * s[j].nth <= expectedTotalLength =>
               /\ s[j].nth <= BlockEnd(k)
               /\ s[j].nth = BlockEnd(k) => s[j].asks \/ 6 + 7 * s[j].nth >= expectedTotalLength
    BY DEF InTurn, BlockIsKept
  <2>2. QED
    BY <1>2, <2>1, Zenon
<1>7. QED
  BY <1>3, <1>4, <1>5, <1>6 DEF InTurn

-----------------------------------------------------------------------------
(* The next frame stays in turn *)

\* The block size is a byte.
LEMMA BlockSizeIsNumber == BlockSize \in Nat
<1>1. BlockSize \in RP!Byte
  BY PartsMayBeUsed DEF RP!ReceiverAssumption
<1>2. QED
  BY <1>1 DEF RP!Byte

\* The next consecutive frame is handed down, or fails to be, in turn.
LEMMA NextInTurn ==
  ASSUME Inv, NEW s \in Seq(Places), NEW n \in Nat, NEW q \in Nat, NEW c \in Nat, NEW k \in Nat,
         NEW size, NEW remaining, NEW t \in Seq(Places), NEW p \in Places,
         SenderAt(c), SenderAt(c + 1)', ReceiverAt(n, q, k), BlockIsKept(s, n, k),
         accepted # 0, Len(pduBuffer) > 7,
         \A i \in 1 .. Len(s) : ~s[i].asks,
         bytesSent < Len(pduBuffer) =>
           /\ size = BlockSize
           /\ BlockSize # 0 =>
                /\ remaining \in Nat \ {0}
                /\ rState # "idle" /\ n = accepted => c + remaining <= BlockEnd(k),
         UNCHANGED <<rState, framesInBlock, expectedTotalLength, accepted, pduBuffer>>,
         NoneAsks(toSender, rOwed)',
         \/ t = s /\ state' = "idle"
         \/ /\ t = Append(s, p) /\ p.no = accepted /\ p.nth = c + 1
            /\ \/ p.asks /\ state' = "waitingForFc" /\ size # 0
               \/ /\ ~p.asks /\ state' = "sendingCf"
                  /\ bytesSent' < Len(pduBuffer) =>
                       /\ blockSize' = size
                       /\ size # 0 /\ remaining \in Nat => /\ remaining > 1
                                                           /\ blocksRemaining' = remaining - 1
  PROVE  InTurn(t, n, c + 1, k)'
<1>1. AskedOnce(t, n, c + 1, k)'
  BY DEF AskedOnce
<1>2. CASE t = s /\ state' = "idle"
  <2>1. OnlyLastAsks(t, c + 1)'
    BY <1>2 DEF OnlyLastAsks
  <2>2. BlockIsTheirs(n, c + 1, k)'
    BY <1>2 DEF BlockIsTheirs
  <2>3. BlockIsKept(t, n, k)'
    BY <1>2 DEF BlockIsKept, BlockEnd
  <2>4. QED
    BY <1>1, <2>1, <2>2, <2>3 DEF InTurn
<1>3. CASE /\ t = Append(s, p) /\ p.no = accepted /\ p.nth = c + 1
           /\ \/ p.asks /\ state' = "waitingForFc" /\ size # 0
              \/ /\ ~p.asks /\ state' = "sendingCf"
                 /\ bytesSent' < Len(pduBuffer) =>
                      /\ blockSize' = size
                      /\ size # 0 /\ remaining \in Nat => /\ remaining > 1
                                                          /\ blocksRemaining' = remaining - 1
  <2>1. /\ Len(s) \in Nat /\ Len(t) = Len(s) + 1 /\ t[Len(s) + 1] = p
        /\ \A i \in 1 .. Len(s) : t[i] = s[i]
        /\ \A i \in 1 .. Len(t) : i \in 1 .. Len(s) \/ i = Len(s) + 1
    BY <1>3, AppendedPlaces
  <2>2. /\ Len(pduBuffer) \in Nat /\ bytesSent = SentBy(c, Len(pduBuffer))
        /\ bytesSent' = SentBy(c + 1, Len(pduBuffer))
        /\ framesInBlock \in Nat /\ expectedTotalLength \in Nat
        /\ rState # "idle" /\ n = accepted => expectedTotalLength = Len(pduBuffer)
    BY LinkTypes DEF SenderAt, ReceiverAt
  <2>11. PICK length : length = Len(pduBuffer)
    OBVIOUS
  <2>12. PICK b : b = BlockSize
    OBVIOUS
  <2>13. PICK end : end = BlockEnd(k)
    OBVIOUS
  <2>3. /\ length = Len(pduBuffer) /\ b = BlockSize /\ end = BlockEnd(k)
        /\ length \in Nat /\ b \in Int /\ end \in Int
    <3>1. BlockSize \in Nat
      BY BlockSizeIsNumber
    <3>2. BlockEnd(k) \in Int
      BY <2>2, <3>1 DEF BlockEnd
    <3>3. QED
      BY <2>2, <2>11, <2>12, <2>13, <3>1, <3>2
  <2>4. bytesSent' < length => bytesSent < length
    BY <2>2, <2>3 DEF SentBy
  <2>5. OnlyLastAsks(t, c + 1)'
    BY <1>3, <2>1 DEF OnlyLastAsks
  <2>6. BlockIsTheirs(n, c + 1, k)'
    <3> SUFFICES ASSUME state' = "sendingCf", bytesSent' < length
                 PROVE  /\ blockSize' = b
                        /\ b # 0 =>
                             /\ blocksRemaining' \in Nat \ {0}
                             /\ rState # "idle" /\ n = accepted => (c + 1) + blocksRemaining' <= end
      BY <2>3 DEF BlockIsTheirs, BlockEnd
    <3>1. size = b /\ blockSize' = size
      BY <1>3, <2>3, <2>4
    <3>2. ASSUME b # 0
          PROVE  /\ remaining \in Nat /\ remaining > 1 /\ blocksRemaining' = remaining - 1
                 /\ rState # "idle" /\ n = accepted => c + remaining <= end
      BY <1>3, <2>3, <2>4, <3>1, <3>2
    <3>3. QED
      BY <2>3, <3>1, <3>2
  <2>7. BlockIsKept(t, n, k)'
    <3> SUFFICES ASSUME rState # "idle", b # 0
                 PROVE  /\ framesInBlock <= k
                        /\ \A i \in 1 .. Len(t) :
                             t[i].no = n /\ 7 * t[i].nth <= expectedTotalLength =>
                               /\ t[i].nth <= end
                               /\ t[i].nth = end =>
                                    t[i].asks \/ 6 + 7 * t[i].nth >= expectedTotalLength
      BY <2>3 DEF BlockIsKept, BlockEnd
    <3>1. /\ framesInBlock <= k
          /\ \A i \in 1 .. Len(s) :
               s[i].no = n /\ 7 * s[i].nth <= expectedTotalLength =>
                 /\ s[i].nth <= end
                 /\ s[i].nth = end => s[i].asks \/ 6 + 7 * s[i].nth >= expectedTotalLength
      BY <2>3 DEF BlockIsKept
    <3>2. ASSUME accepted = n, 7 * (c + 1) <= expectedTotalLength
          PROVE  /\ c + 1 <= end
                 /\ c + 1 = end => p.asks \/ 6 + 7 * (c + 1) >= expectedTotalLength
      <4>1. expectedTotalLength = length
        BY <2>2, <2>3, <3>2
      <4>2. bytesSent < length
        BY <2>2, <2>3, <3>2, <4>1 DEF SentBy
      <4>3. size = b /\ remaining \in Nat \ {0} /\ c + remaining <= end
        BY <2>3, <3>2, <4>2
      <4>4. ASSUME c + 1 = end, ~p.asks
            PROVE  6 + 7 * (c + 1) >= length
        <5>1. ~(remaining > 1)
          BY <2>3, <4>3, <4>4
        <5>2. ~(bytesSent' < length)
          <6>1. size # 0 /\ remaining \in Nat
            BY <2>3, <4>3
          <6>2. bytesSent' < Len(pduBuffer) => (size # 0 /\ remaining \in Nat => remaining > 1)
            BY <1>3, <4>4, Zenon
          <6>3. bytesSent' < Len(pduBuffer) => remaining > 1
            BY <6>1, <6>2, Zenon
          <6>4. QED
            BY <2>3, <5>1, <6>3
        <5>3. QED
          BY <2>2, <2>3, <5>2 DEF SentBy
      <4>5. c + 1 <= end
        BY <2>3, <4>3
      <4>6. QED
        BY <4>1, <4>4, <4>5
    <3>3. QED
      BY <1>3, <2>1, <3>1, <3>2, Zenon
  <2>8. QED
    BY <1>1, <2>5, <2>6, <2>7 DEF InTurn
<1>4. QED
  BY <1>2, <1>3

-----------------------------------------------------------------------------
(* The steps of the link *)

\* The sender may go on with blocks of `size' frames, of which `remaining' are
\* left, and stay within the receiver's.
MayGoOn(s, n, c, k, size, remaining) ==
  /\ NoneAsks(toSender, rOwed)'
  /\ \A i \in 1 .. Len(s) : ~s[i].asks
  /\ BlockIsKept(s, n, k)
  /\ bytesSent < Len(pduBuffer) =>
       /\ size = BlockSize
       /\ BlockSize # 0 =>
            /\ remaining \in Nat \ {0}
            /\ rState # "idle" /\ n = accepted => c + remaining <= BlockEnd(k)

\* Nothing joins or leaves the frames on their way, and the ends keep their places.
LEMMA LinkStays ==
  ASSUME Inv, NEW s \in Seq(Places), NEW n \in Nat, NEW q \in Nat, NEW c \in Nat, NEW k \in Nat,
         LinkAt(s, n, q, c, k), state' \in {state, "idle"},
         UNCHANGED <<part, offered, accepted, owed, toReceiver, pduBuffer, bytesSent, resets, delivered>>,
         rState' = "idle" \/ UNCHANGED <<rState, assemblyBuffer, expectedTotalLength>>,
         ~Late => InTurn(s, n, c, k)'
  PROVE  LinkHolds'
<1>1. OnTheWay(s, n, q, c)'
  <2>1. Sends' => Sends
    BY SendsLess
  <2>2. QED
    BY <2>1 DEF LinkAt, OnTheWay
<1>2. SenderAt(c)'
  <2>1. SenderAt(c) /\ UNCHANGED <<offered, accepted, pduBuffer, bytesSent, resets>>
    BY DEF LinkAt
  <2>2. QED
    BY <2>1, SenderStays
<1>3. ReceiverAt(n, q, k)'
  <2>1. offered \in Seq(Seq(Bytes))
    BY DEF LinkAt, SenderAt
  <2>2. QED
    BY <2>1, ReceiverStays DEF LinkAt
<1>4. Late' = Late
  BY DEF Late
<1>5. LinkAt(s, n, q, c, k)'
  BY <1>1, <1>2, <1>3, <1>4 DEF LinkAt
<1>6. QED
  BY <1>5, Zenon DEF LinkHolds

\* The sender hands the next frame down, or waits, or fails.
LEMMA LinkGoesOn ==
  ASSUME Inv, NEW s \in Seq(Places), NEW n \in Nat, NEW q \in Nat, NEW c \in Nat, NEW k \in Nat,
         UNCHANGED <<part, offered, resets, receiverVars, toReceiver>>,
         NEW r \in Seq(SP!OwedFrames), NEW skip \in 0 .. 1, NEW size, NEW remaining,
         Carries(offered, s, toReceiver, r, skip),
         Ordered(s, n, q, accepted, c), Led(s, n), LedTo(s, n, accepted),
         SenderAt(c), ReceiverAt(n, q, k),
         state \in {"waitingForFc", "sendingCf"},
         SP!HandsNextFrameOrWaits(r, size, remaining),
         ~Late => MayGoOn(s, n, c, k, size, remaining)
  PROVE  LinkHolds'
<1>1. /\ UNCHANGED <<rState, framesInBlock, expectedTotalLength, assemblyBuffer, delivered>>
      /\ Late' = Late
  BY DEF receiverVars, Late
<1>2. ReceiverAt(n, q, k)'
  <2>1. offered \in Seq(Seq(Bytes))
    BY DEF SenderAt
  <2>2. QED
    BY <1>1, <2>1, ReceiverStays
<1>3. accepted # 0 /\ Len(pduBuffer) > 7
  BY DEF SenderAt
<1>4. CASE SP!HandsNextFrame(r, size, remaining)
  <2>1. /\ NextOnTheWay(s, n, q, c, skip, size, remaining)
        /\ SenderAt(c + 1)' /\ UNCHANGED accepted
    <3>1. /\ NextOnTheWay(s, n, q, c, skip, size, remaining)
          /\ UNCHANGED <<offered, resets>> => SenderAt(c + 1)'
          /\ UNCHANGED accepted
      BY <1>4, NextFrameGoes
    <3>2. QED
      BY <3>1
  <2>2. UNCHANGED pduBuffer
    BY <1>4 DEF SP!HandsNextFrame
  <2>3. PICK t \in Seq(Places) :
          /\ Carries(offered, t, toReceiver, owed', skip)
          /\ Ordered(t, n, q, accepted, c + 1) /\ Led(t, n) /\ LedTo(t, n, accepted)
          /\ \/ t = s /\ state' = "idle"
             \/ \E p \in Places :
                  /\ t = Append(s, p) /\ p.no = accepted /\ p.nth = c + 1
                  /\ \/ p.asks /\ state' = "waitingForFc" /\ size # 0
                     \/ /\ ~p.asks /\ state' = "sendingCf"
                        /\ bytesSent' < Len(pduBuffer) =>
                             /\ blockSize' = size
                             /\ size # 0 /\ remaining \in Nat => /\ remaining > 1
                                                                 /\ blocksRemaining' = remaining - 1
    BY <2>1, Zenon DEF NextOnTheWay
  <2>4. OnTheWay(t, n, q, c + 1)'
    <3>1. Carries(offered', t, toReceiver', owed', skip)
      BY <2>3
    <3>2. Ordered(t, n, q, accepted', c + 1) /\ Led(t, n) /\ LedTo(t, n, accepted')
      BY <2>1, <2>3
    <3>3. QED
      BY <3>1, <3>2, Zenon DEF OnTheWay
  <2>5. ASSUME ~Late
        PROVE  InTurn(t, n, c + 1, k)'
    <3>1. PICK p \in Places :
            \/ t = s /\ state' = "idle"
            \/ /\ t = Append(s, p) /\ p.no = accepted /\ p.nth = c + 1
               /\ \/ p.asks /\ state' = "waitingForFc" /\ size # 0
                  \/ /\ ~p.asks /\ state' = "sendingCf"
                     /\ bytesSent' < Len(pduBuffer) =>
                          /\ blockSize' = size
                          /\ size # 0 /\ remaining \in Nat => /\ remaining > 1
                                                              /\ blocksRemaining' = remaining - 1
      <4>1. [no |-> 0, nth |-> 0, asks |-> FALSE] \in Places
        BY DEF Places
      <4>2. QED
        BY <2>3, <4>1, Zenon
    <3>2. /\ NoneAsks(toSender, rOwed)' /\ \A i \in 1 .. Len(s) : ~s[i].asks
          /\ BlockIsKept(s, n, k)
          /\ bytesSent < Len(pduBuffer) =>
               /\ size = BlockSize
               /\ BlockSize # 0 =>
                    /\ remaining \in Nat \ {0}
                    /\ rState # "idle" /\ n = accepted => c + remaining <= BlockEnd(k)
      BY <2>5, Zenon DEF MayGoOn
    <3>3. UNCHANGED <<rState, framesInBlock, expectedTotalLength, accepted, pduBuffer>>
      BY <1>1, <2>1, <2>2
    <3>4. QED
      BY <1>3, <2>1, <3>1, <3>2, <3>3, NextInTurn
  <2>6. LinkAt(t, n, q, c + 1, k)'
    BY <1>1, <1>2, <2>1, <2>4, <2>5 DEF LinkAt
  <2>7. c + 1 \in Nat
    OBVIOUS
  <2>8. QED
    BY <2>6, <2>7, Zenon DEF LinkHolds
<1>5. CASE /\ owed' = r /\ state' = "sendingCf"
           /\ blockSize' = size /\ blocksRemaining' = remaining
           /\ UNCHANGED <<pduBuffer, bytesSent, accepted>>
  <2>1. OnTheWay(s, n, q, c)'
    <3>1. Carries(offered', s, toReceiver', owed', skip)
      BY <1>5
    <3>2. QED
      BY <1>5, <3>1 DEF OnTheWay
  <2>2. SenderAt(c)'
    BY <1>3, <1>5 DEF SenderAt
  <2>3. ASSUME ~Late
        PROVE  InTurn(s, n, c, k)'
    <3>1. MayGoOn(s, n, c, k, size, remaining)
      BY <2>3
    <3>2. OnlyLastAsks(s, c)'
      BY <3>1 DEF OnlyLastAsks, MayGoOn
    <3>3. AskedOnce(s, n, c, k)'
      BY <3>1 DEF AskedOnce, MayGoOn
    <3>4. BlockIsTheirs(n, c, k)'
      BY <1>1, <1>5, <3>1 DEF BlockIsTheirs, BlockEnd, MayGoOn
    <3>5. BlockIsKept(s, n, k)'
      BY <1>1, <3>1 DEF BlockIsKept, BlockEnd, MayGoOn
    <3>6. QED
      BY <3>2, <3>3, <3>4, <3>5 DEF InTurn
  <2>4. LinkAt(s, n, q, c, k)'
    BY <1>1, <1>2, <2>1, <2>2, <2>3 DEF LinkAt
  <2>5. QED
    BY <2>4, Zenon DEF LinkHolds
<1>6. QED
  BY <1>4, <1>5, Zenon DEF SP!HandsNextFrameOrWaits

-----------------------------------------------------------------------------
(* The timers *)

\* What goes on keeps its frames in turn if it waits for nothing.
LEMMA MayAlwaysGoOn ==
  ASSUME NEW s \in Seq(Places), NEW n \in Nat, NEW c \in Nat, NEW k \in Nat,
         InTurn(s, n, c, k), state = "sendingCf", UNCHANGED <<toSender, rOwed>>
  PROVE  MayGoOn(s, n, c, k, blockSize, blocksRemaining)
<1>1. NoneAsks(toSender, rOwed)'
  BY DEF InTurn, AskedOnce, NoneAsks
<1>2. \A i \in 1 .. Len(s) : ~s[i].asks
  BY DEF InTurn, OnlyLastAsks
<1>3. QED
  BY <1>1, <1>2 DEF InTurn, BlockIsTheirs, MayGoOn

\* The separation time has passed.
LEMMA SeparationTimeKeepsLink ==
  ASSUME Inv, UNCHANGED part, LinkHolds, SeparationTimeOver
  PROVE  LinkHolds'
<1>1. PICK s \in Seq(Places), n \in Nat, q \in Nat, c \in Nat, k \in Nat : LinkAt(s, n, q, c, k)
  BY Zenon DEF LinkHolds
<1>2. PICK skip \in 0 .. 1 : Carries(offered, s, toReceiver, owed, skip)
  BY <1>1 DEF LinkAt, OnTheWay
<1>3. SP!StMinTimeout /\ UNCHANGED <<receiverVars, bus, offered>>
  BY LinkSenderActions, Zenon DEF SeparationTimeOver
<1>4. state = "sendingCf" /\ SP!HandsNextFrame(owed, blockSize, blocksRemaining)
  <2>1. SP!SenderAssumption /\ SP!IInv
    BY PartsMayBeUsed DEF Inv
  <2>2. SP!StMinTimeout => state = "sendingCf" /\ SP!HandsNextFrame(owed, blockSize, blocksRemaining)
    BY <2>1, SP!TimeoutsCarry
  <2>3. QED
    BY <1>3, <2>2
<1>5. UNCHANGED <<part, offered, resets, receiverVars, toReceiver, toSender, rOwed>>
  BY <1>3 DEF SP!StMinTimeout, bus, receiverVars
<1>6. /\ Ordered(s, n, q, accepted, c) /\ Led(s, n) /\ LedTo(s, n, accepted)
      /\ SenderAt(c) /\ ReceiverAt(n, q, k) /\ (~Late => InTurn(s, n, c, k))
  BY <1>1, <1>4 DEF LinkAt, OnTheWay, Sends
<1>7. ~Late => MayGoOn(s, n, c, k, blockSize, blocksRemaining)
  BY <1>4, <1>5, <1>6, MayAlwaysGoOn
<1>8. owed \in Seq(SP!OwedFrames)
  BY LinkTypes
<1>9. PICK size, remaining : size = blockSize /\ remaining = blocksRemaining
  OBVIOUS
<1>10. SP!HandsNextFrameOrWaits(owed, size, remaining)
  BY <1>4, <1>9 DEF SP!HandsNextFrameOrWaits
<1>11. state \in {"waitingForFc", "sendingCf"}
  BY <1>4
<1>12. ~Late => MayGoOn(s, n, c, k, size, remaining)
  BY <1>7, <1>9
<1>13. PICK r \in Seq(SP!OwedFrames) : r = owed
  BY <1>8
<1>14. Carries(offered, s, toReceiver, r, skip) /\ SP!HandsNextFrameOrWaits(r, size, remaining)
  BY <1>2, <1>10, <1>13
<1>15. QED
  BY <1>2, <1>5, <1>6, <1>11, <1>12, <1>14, LinkGoesOn

\* Nothing is on its way.
LEMMA QuietLink ==
  ASSUME NEW s \in Seq(Places), NEW skip \in 0 .. 1,
         Carries(offered, s, toReceiver, owed, skip), Quiet
  PROVE  s = <<>> /\ NoneAsks(toSender, rOwed)
<1>1. Len(s) \in Nat /\ Len(toReceiver) = 0 /\ Len(owed) = 0
  BY LenProperties DEF Quiet
<1>2. Len(s) = 0
  BY <1>1 DEF Carries
<1>3. s = <<>>
  BY <1>2, EmptySeq
<1>4. QED
  BY <1>3 DEF Quiet, NoneAsks

\* The sender gives up waiting,
LEMMA SenderTimeoutKeepsLink ==
  ASSUME Inv, UNCHANGED part, LinkHolds, SenderTimeout(Late)
  PROVE  LinkHolds'
<1>1. PICK s \in Seq(Places), n \in Nat, q \in Nat, c \in Nat, k \in Nat : LinkAt(s, n, q, c, k)
  BY Zenon DEF LinkHolds
<1>2. PICK skip \in 0 .. 1 : Carries(offered, s, toReceiver, owed, skip)
  BY <1>1 DEF LinkAt, OnTheWay
<1>3. /\ SP!NBsTimeout \/ SP!NAsTimeout
      /\ Late \/ Quiet
      /\ UNCHANGED <<receiverVars, bus, offered>>
  BY LinkSenderActions, Zenon DEF SenderTimeout
<1>4. SP!GoesOnOrEnds(owed) /\ state' = "idle"
  <2>1. SP!SenderAssumption /\ SP!IInv
    BY PartsMayBeUsed DEF Inv
  <2>2. SP!NBsTimeout \/ SP!NAsTimeout => SP!GoesOnOrEnds(owed) /\ state' = "idle"
    BY <2>1, SP!TimeoutsCarry
  <2>3. QED
    BY <1>3, <2>2
<1>5. UNCHANGED <<part, offered, accepted, owed, toReceiver, pduBuffer, bytesSent, resets, delivered>>
  BY <1>3, <1>4 DEF SP!NBsTimeout, SP!NAsTimeout, SP!GoesOnOrEnds, bus, receiverVars
<1>6. UNCHANGED <<rState, assemblyBuffer, expectedTotalLength, framesInBlock, toSender, rOwed>>
  BY <1>3 DEF bus, receiverVars
<1>7. ASSUME ~Late
      PROVE  InTurn(s, n, c, k)'
  <2>1. s = <<>> /\ NoneAsks(toSender, rOwed)
    BY <1>2, <1>3, <1>7, QuietLink
  <2>2. InTurn(s, n, c, k)
    BY <1>1, <1>7 DEF LinkAt
  <2>3. OnlyLastAsks(s, c)'
    BY <2>1 DEF OnlyLastAsks
  <2>4. AskedOnce(s, n, c, k)'
    BY <1>6, <2>1 DEF AskedOnce, NoneAsks
  <2>5. BlockIsTheirs(n, c, k)'
    BY <1>4 DEF BlockIsTheirs
  <2>6. BlockIsKept(s, n, k)'
    BY <1>6, <2>1, <2>2 DEF InTurn, BlockIsKept
  <2>7. QED
    BY <2>3, <2>4, <2>5, <2>6 DEF InTurn
<1>8. state' \in {state, "idle"}
  BY <1>4
<1>9. rState' = "idle" \/ UNCHANGED <<rState, assemblyBuffer, expectedTotalLength>>
  BY <1>6
<1>10. QED
  BY <1>1, <1>5, <1>7, <1>8, <1>9, LinkStays

\* or the receiver does.
LEMMA ReceiverTimeoutKeepsLink ==
  ASSUME Inv, UNCHANGED part, LinkHolds, ReceiverTimeout(Late)
  PROVE  LinkHolds' /\ UNCHANGED delivered
<1>1. PICK s \in Seq(Places), n \in Nat, q \in Nat, c \in Nat, k \in Nat : LinkAt(s, n, q, c, k)
  BY Zenon DEF LinkHolds
<1>2. PICK skip \in 0 .. 1 : Carries(offered, s, toReceiver, owed, skip)
  BY <1>1 DEF LinkAt, OnTheWay
<1>3. RP!NCrTimeout /\ (Late \/ Quiet) /\ UNCHANGED <<senderSide, bus>>
  BY LinkReceiverActions, Zenon DEF ReceiverTimeout
<1>4. RP!EndsShort
  <2>1. RP!ReceiverAssumption /\ RP!IInv
    BY PartsMayBeUsed DEF Inv
  <2>2. RP!NCrTimeout => RP!EndsShort
    BY <2>1, RP!ReceiverWaits
  <2>3. QED
    BY <1>3, <2>2
<1>5. /\ UNCHANGED <<part, offered, accepted, owed, toReceiver, pduBuffer, bytesSent, resets, delivered>>
      /\ UNCHANGED <<state, blockSize, blocksRemaining, toSender, rOwed>>
      /\ rState' = "idle"
  BY <1>3, <1>4 DEF RP!EndsShort, bus, senderSide, senderVars
<1>6. ASSUME ~Late
      PROVE  InTurn(s, n, c, k)'
  <2>1. s = <<>> /\ NoneAsks(toSender, rOwed)
    BY <1>2, <1>3, <1>6, QuietLink
  <2>2. InTurn(s, n, c, k)
    BY <1>1, <1>6 DEF LinkAt
  <2>3. OnlyLastAsks(s, c)'
    BY <2>1 DEF OnlyLastAsks
  <2>4. AskedOnce(s, n, c, k)'
    BY <1>5, <2>1 DEF AskedOnce, NoneAsks
  <2>5. BlockIsTheirs(n, c, k)'
    BY <1>5, <2>2 DEF InTurn, BlockIsTheirs
  <2>6. BlockIsKept(s, n, k)'
    BY <1>5 DEF BlockIsKept
  <2>7. QED
    BY <2>3, <2>4, <2>5, <2>6 DEF InTurn
<1>7. state' \in {state, "idle"}
  BY <1>5
<1>8. LinkHolds'
  BY <1>1, <1>5, <1>6, <1>7, LinkStays
<1>9. QED
  BY <1>5, <1>8

-----------------------------------------------------------------------------
(* The frames of the receiver *)

\* What the queue of the receiver holds.
LEMMA QueueTypes ==
  ASSUME Inv
  PROVE  /\ Len(rOwed) \in Nat
         /\ \A i \in 1 .. Len(rOwed) : rOwed[i] \in RP!OwedFrames /\ rOwed[i].sent \in BOOLEAN
<1>1. rOwed \in Seq(RP!OwedFrames)
  BY LinkTypes
<1>2. Len(rOwed) \in Nat
  BY <1>1, LenProperties
<1>3. \A i \in 1 .. Len(rOwed) : rOwed[i] \in RP!OwedFrames
  BY <1>1, ElementOfSeq
<1>4. QED
  BY <1>2, <1>3 DEF RP!OwedFrames

\* Flow control reaches the bus.
LEMMA ReceiverTransmitsKeepsLink ==
  ASSUME Inv, UNCHANGED part, LinkHolds, ReceiverTransmits
  PROVE  LinkHolds' /\ UNCHANGED delivered
<1>1. PICK s \in Seq(Places), n \in Nat, q \in Nat, c \in Nat, k \in Nat : LinkAt(s, n, q, c, k)
  BY Zenon DEF LinkHolds
<1>2. /\ rOwed # <<>> /\ ~rOwed[1].sent
      /\ rOwed' = [rOwed EXCEPT ![1].sent = TRUE]
      /\ toSender' = Append(toSender, rOwed[1].bytes)
      /\ UNCHANGED <<rState, assemblyBuffer, expectedTotalLength, framesInBlock, delivered>>
      /\ UNCHANGED <<senderSide, toReceiver>>
  BY LinkReceiverActions
     DEF ReceiverTransmits, RP!Transmitted, RP!receiverVars, RP!assemblyVars, RP!historyVars
<1>3. /\ UNCHANGED <<part, offered, accepted, owed, toReceiver, pduBuffer, bytesSent, resets, delivered>>
      /\ UNCHANGED <<state, blockSize, blocksRemaining>>
  BY <1>2 DEF senderSide, senderVars
<1>4. /\ rOwed \in Seq(RP!OwedFrames) /\ Len(rOwed) \in Nat /\ 1 \in 1 .. Len(rOwed)
      /\ \A i \in 1 .. Len(rOwed) : rOwed[i] \in RP!OwedFrames /\ rOwed[i].sent \in BOOLEAN
  BY <1>2, LinkTypes, QueueTypes, EmptySeq
<1>5. /\ Len(rOwed') = Len(rOwed) /\ rOwed'[1].sent
      /\ \A i \in 1 .. Len(rOwed) : i # 1 => rOwed'[i] = rOwed[i]
  BY <1>2, <1>4 DEF RP!OwedFrames
<1>6. ASSUME ~Late
      PROVE  InTurn(s, n, c, k)'
  <2>1. InTurn(s, n, c, k)
    BY <1>1, <1>6 DEF LinkAt
  <2>2. ~NoneAsks(toSender, rOwed)
    BY <1>2, <1>4 DEF NoneAsks
  <2>3. /\ OneAsks(toSender, rOwed)
        /\ state = "waitingForFc" /\ s = <<>>
        /\ rState # "idle" /\ n = accepted /\ k = c /\ framesInBlock = 0
    BY <2>1, <2>2 DEF InTurn, AskedOnce
  <2>4. /\ toSender = <<>> /\ rOwed[1].bytes = GoOn
        /\ \A i \in 1 .. Len(rOwed) : i # 1 => rOwed[i].sent
    <3>1. PICK j \in 1 .. Len(rOwed) :
            rOwed[j].bytes = GoOn /\ \A i \in 1 .. Len(rOwed) : i # j => rOwed[i].sent
      BY <1>2, <1>4, <2>3, Zenon DEF OneAsks
    <3>2. j = 1
      BY <1>2, <1>4, <3>1
    <3>3. toSender = <<>>
      BY <1>2, <1>4, <2>3, Zenon DEF OneAsks
    <3>4. QED
      BY <3>1, <3>2, <3>3
  <2>5. toSender' = <<GoOn>>
    <3>1. PICK go : go = GoOn
      OBVIOUS
    <3>2. Append(<<>>, go) = <<go>>
      OBVIOUS
    <3>3. QED
      BY <1>2, <2>4, <3>1, <3>2
  <2>6. \A i \in 1 .. Len(rOwed') : rOwed'[i].sent
    BY <1>5, <2>4
  <2>7. GoOn' = GoOn
    BY DEF GoOn
  <2>8. AskedOnce(s, n, c, k)'
    <3>1. OneAsks(toSender', rOwed')
      BY <2>5, <2>6 DEF OneAsks
    <3>2. OneAsks(toSender, rOwed)'
      BY <3>1, <2>7, Zenon DEF OneAsks
    <3>3. QED
      BY <1>2, <1>3, <2>3, <3>2 DEF AskedOnce
  <2>9. OnlyLastAsks(s, c)'
    BY <1>3, <2>1 DEF InTurn, OnlyLastAsks
  <2>10. BlockIsTheirs(n, c, k)'
    BY <1>2, <1>3, <2>1 DEF InTurn, BlockIsTheirs, BlockEnd
  <2>11. BlockIsKept(s, n, k)'
    BY <1>2, <1>3, <2>1 DEF InTurn, BlockIsKept, BlockEnd
  <2>12. QED
    BY <2>8, <2>9, <2>10, <2>11 DEF InTurn
<1>7. /\ state' \in {state, "idle"}
      /\ rState' = "idle" \/ UNCHANGED <<rState, assemblyBuffer, expectedTotalLength>>
  BY <1>2, <1>3
<1>8. QED
  BY <1>1, <1>3, <1>6, <1>7, LinkStays

\* Its completion.
LEMMA ReceiverCompletionKeepsLink ==
  ASSUME Inv, UNCHANGED part, LinkHolds, ReceiverCompletion
  PROVE  LinkHolds' /\ UNCHANGED delivered
<1>1. PICK s \in Seq(Places), n \in Nat, q \in Nat, c \in Nat, k \in Nat : LinkAt(s, n, q, c, k)
  BY Zenon DEF LinkHolds
<1>2. PICK i \in DOMAIN rOwed, success \in BOOLEAN : RP!Completion(i, success)
  BY LinkReceiverActions, Zenon DEF ReceiverCompletion
<1>3. /\ rOwed \in Seq(RP!OwedFrames) /\ Len(rOwed) \in Nat /\ i \in 1 .. Len(rOwed)
      /\ \A j \in 1 .. Len(rOwed) : rOwed[j] \in RP!OwedFrames /\ rOwed[j].sent \in BOOLEAN
  BY <1>2, LinkTypes, QueueTypes, LenProperties
<1>4. /\ success => i = 1 /\ rOwed[i].sent
      /\ ~success => ~rOwed[i].sent
      /\ rOwed' = RP!RemoveAt(rOwed, i) /\ UNCHANGED delivered
      /\ \/ rState' = "idle" /\ ~success
         \/ UNCHANGED <<rState, assemblyBuffer, expectedTotalLength, framesInBlock>>
  <2>1. RP!ReceiverAssumption /\ RP!IInv
    BY PartsMayBeUsed DEF Inv
  <2>2. \A x \in 1 .. Len(rOwed), ok \in BOOLEAN :
          RP!Completion(x, ok) =>
            /\ ok => x = 1 /\ rOwed[x].sent
            /\ ~ok => ~rOwed[x].sent
            /\ rOwed' = RP!RemoveAt(rOwed, x) /\ UNCHANGED delivered
            /\ \/ rState' = "idle" /\ ~ok
               \/ UNCHANGED <<rState, assemblyBuffer, expectedTotalLength, framesInBlock>>
    BY <2>1, RP!ReceiverWaits
  <2>3. QED
    BY <1>2, <1>3, <2>2
<1>5. UNCHANGED <<senderSide, bus>>
  BY DEF ReceiverCompletion
<1>6. /\ UNCHANGED <<part, offered, accepted, owed, toReceiver, pduBuffer, bytesSent, resets, delivered>>
      /\ UNCHANGED <<state, blockSize, blocksRemaining, toSender>>
  BY <1>4, <1>5 DEF senderSide, senderVars, bus
<1>7. /\ Len(rOwed') = Len(rOwed) - 1
      /\ \A j \in 1 .. Len(rOwed) - 1 : rOwed'[j] = IF j < i THEN rOwed[j] ELSE rOwed[j + 1]
  <2>1. /\ Len(RP!RemoveAt(rOwed, i)) = Len(rOwed) - 1
        /\ \A j \in 1 .. Len(rOwed) - 1 :
             RP!RemoveAt(rOwed, i)[j] = IF j < i THEN rOwed[j] ELSE rOwed[j + 1]
    BY <1>3, RP!RemoveAtProperties
  <2>2. QED
    BY <1>4, <2>1
<1>8. ASSUME ~Late
      PROVE  InTurn(s, n, c, k)'
  <2>1. InTurn(s, n, c, k)
    BY <1>1, <1>8 DEF LinkAt
  <2>2. GoOn' = GoOn
    BY DEF GoOn
  <2>3. CASE NoneAsks(toSender, rOwed)
    <3>1. toSender = <<>> /\ \A j \in 1 .. Len(rOwed) : rOwed[j].sent
      BY <2>3 DEF NoneAsks
    <3>2. \A j \in 1 .. Len(rOwed') : rOwed'[j].sent
      BY <1>3, <1>7, <3>1
    <3>3. QED
      <4>1. NoneAsks(toSender, rOwed)'
        BY <1>6, <3>1, <3>2 DEF NoneAsks
      <4>2. AskedOnce(s, n, c, k)'
        BY <4>1 DEF AskedOnce
      <4>3. OnlyLastAsks(s, c)'
        BY <1>6, <2>1 DEF InTurn, OnlyLastAsks
      <4>4. BlockIsTheirs(n, c, k)'
        BY <1>4, <1>6, <2>1 DEF InTurn, BlockIsTheirs, BlockEnd
      <4>5. BlockIsKept(s, n, k)'
        BY <1>4, <1>6, <2>1 DEF InTurn, BlockIsKept, BlockEnd
      <4>6. QED
        BY <4>2, <4>3, <4>4, <4>5 DEF InTurn
  <2>4. CASE /\ OneAsks(toSender, rOwed)
             /\ state = "waitingForFc" /\ s = <<>>
             /\ rState # "idle" /\ n = accepted /\ k = c /\ framesInBlock = 0
    <3>1. \/ /\ OneAsks(toSender, rOwed)'
             /\ success
          \/ NoneAsks(toSender, rOwed)'
      <4>1. CASE toSender = <<GoOn>> /\ \A j \in 1 .. Len(rOwed) : rOwed[j].sent
        <5>1. success
          BY <1>3, <1>4, <4>1
        <5>2. \A j \in 1 .. Len(rOwed') : rOwed'[j].sent
          BY <1>3, <1>7, <4>1
        <5>3. toSender' = <<GoOn'>>
          BY <1>6, <2>2, <4>1
        <5>4. QED
          BY <5>1, <5>2, <5>3, Zenon DEF OneAsks
      <4>2. CASE /\ toSender = <<>>
                 /\ \E j \in 1 .. Len(rOwed) :
                      rOwed[j].bytes = GoOn /\ \A x \in 1 .. Len(rOwed) : x # j => rOwed[x].sent
        <5>1. PICK j \in 1 .. Len(rOwed) :
                rOwed[j].bytes = GoOn /\ \A x \in 1 .. Len(rOwed) : x # j => rOwed[x].sent
          BY <4>2
        <5>2. CASE i = j
          <6>1. \A x \in 1 .. Len(rOwed') : rOwed'[x].sent
            BY <1>3, <1>7, <5>1, <5>2
          <6>2. NoneAsks(toSender, rOwed)'
            BY <1>6, <4>2, <6>1 DEF NoneAsks
          <6>3. QED
            BY <6>2
        <5>3. CASE i # j
          <6>1. success /\ i = 1
            BY <1>3, <1>4, <5>1, <5>3
          <6>2. PICK y : y = j - 1
            OBVIOUS
          <6>3. /\ y \in 1 .. Len(rOwed') /\ rOwed'[y].bytes = GoOn
                /\ \A x \in 1 .. Len(rOwed') : x # y => rOwed'[x].sent
            BY <1>3, <1>7, <5>1, <5>3, <6>1, <6>2
          <6>4. toSender' = <<>> /\ rOwed'[y].bytes = GoOn'
            BY <1>6, <2>2, <4>2, <6>3
          <6>5. OneAsks(toSender, rOwed)'
            BY <6>3, <6>4, Zenon DEF OneAsks
          <6>6. QED
            BY <6>1, <6>5
        <5>4. QED
          BY <5>2, <5>3
      <4>3. QED
        BY <2>4, <4>1, <4>2, Zenon DEF OneAsks
    <3>2. success => UNCHANGED <<rState, assemblyBuffer, expectedTotalLength, framesInBlock>>
      BY <1>4
    <3>3. AskedOnce(s, n, c, k)'
      BY <1>6, <2>4, <3>1, <3>2 DEF AskedOnce
    <3>4. OnlyLastAsks(s, c)'
      BY <1>6, <2>1 DEF InTurn, OnlyLastAsks
    <3>5. BlockIsTheirs(n, c, k)'
      BY <1>4, <1>6, <2>1 DEF InTurn, BlockIsTheirs, BlockEnd
    <3>6. BlockIsKept(s, n, k)'
      BY <1>4, <1>6, <2>1 DEF InTurn, BlockIsKept, BlockEnd
    <3>7. QED
      BY <3>3, <3>4, <3>5, <3>6 DEF InTurn
  <2>5. QED
    BY <2>1, <2>3, <2>4, Zenon DEF InTurn, AskedOnce
<1>9. /\ state' \in {state, "idle"}
      /\ rState' = "idle" \/ UNCHANGED <<rState, assemblyBuffer, expectedTotalLength>>
  BY <1>4, <1>6
<1>10. QED
  BY <1>1, <1>6, <1>8, <1>9, LinkStays

-----------------------------------------------------------------------------
(* Flow control arrives *)

\* What GoOn says.
LEMMA GoOnSaysSo ==
  /\ SP!IsFlowControl(GoOn)
  /\ SP!DecodeFlowControl(GoOn).fs = "continueToSend"
  /\ SP!DecodeFlowControl(GoOn).blockSize = BlockSize
<1>1. GoOn = <<48, BlockSize, SeparationTime>>
  BY DEF GoOn, RP!EncodeFlowControl
<1>2. PICK b, st : b = BlockSize /\ st = SeparationTime
  OBVIOUS
<1>3. /\ SP!IsFlowControl(<<48, b, st>>)
      /\ SP!DecodeFlowControl(<<48, b, st>>).fs = "continueToSend"
      /\ SP!DecodeFlowControl(<<48, b, st>>).blockSize = b
  <2>1. 48 % 16 = 0
    OBVIOUS
  <2>2. SP!FlowStatusOf(0) = "continueToSend"
    BY DEF SP!FlowStatusOf
  <2>3. QED
    BY <2>1, <2>2 DEF SP!IsFlowControl, SP!DecodeFlowControl
<1>4. QED
  BY <1>1, <1>2, <1>3

\* Flow control reaches the sender.
LEMMA SenderGetsFrameKeepsLink ==
  ASSUME Inv, UNCHANGED part, LinkHolds, SenderGetsFrame
  PROVE  LinkHolds'
<1>1. PICK s \in Seq(Places), n \in Nat, q \in Nat, c \in Nat, k \in Nat : LinkAt(s, n, q, c, k)
  BY Zenon DEF LinkHolds
<1>2. PICK skip \in 0 .. 1 : Carries(offered, s, toReceiver, owed, skip)
  BY <1>1 DEF LinkAt, OnTheWay
<1>3. /\ toSender # <<>> /\ toSender' = Tail(toSender)
      /\ SP!FlowControl(Head(toSender)) \/ (state # "waitingForFc" /\ UNCHANGED senderVars)
      /\ UNCHANGED <<receiverVars, toReceiver, offered>>
  BY LinkSenderActions, Zenon DEF SenderGetsFrame
<1>4. /\ UNCHANGED <<part, offered, accepted, toReceiver, resets, delivered, receiverVars>>
      /\ UNCHANGED <<rState, assemblyBuffer, expectedTotalLength, framesInBlock, rOwed>>
  <2>1. UNCHANGED <<accepted, resets>>
    BY <1>3, Zenon DEF SP!FlowControl, senderVars
  <2>2. QED
    BY <1>3, <2>1 DEF receiverVars
<1>5. /\ Ordered(s, n, q, accepted, c) /\ Led(s, n)
      /\ Sends => LedTo(s, n, accepted)
      /\ SenderAt(c) /\ ReceiverAt(n, q, k) /\ (~Late => InTurn(s, n, c, k))
  BY <1>1 DEF LinkAt, OnTheWay
<1>6. PICK frame : frame = Head(toSender)
  OBVIOUS
<1>7. PICK r \in Seq(SP!OwedFrames) : r = owed
  BY LinkTypes
<1>8. ASSUME ~Late
      PROVE  /\ state = "waitingForFc" =>
                  /\ frame = GoOn /\ NoneAsks(toSender, rOwed)' /\ s = <<>>
                  /\ rState # "idle" /\ n = accepted /\ k = c /\ framesInBlock = 0
             /\ state = "waitingForFc"
  <2>1. AskedOnce(s, n, c, k)
    BY <1>5, <1>8 DEF InTurn
  <2>2. ~NoneAsks(toSender, rOwed)
    BY <1>3 DEF NoneAsks
  <2>3. /\ OneAsks(toSender, rOwed)
        /\ state = "waitingForFc" /\ s = <<>>
        /\ rState # "idle" /\ n = accepted /\ k = c /\ framesInBlock = 0
    BY <2>1, <2>2 DEF AskedOnce
  <2>4. toSender = <<GoOn>> /\ \A i \in 1 .. Len(rOwed) : rOwed[i].sent
    BY <1>3, <2>3, Zenon DEF OneAsks
  <2>5. frame = GoOn /\ toSender' = <<>>
    <3>1. PICK go : go = GoOn
      OBVIOUS
    <3>2. Head(<<go>>) = go /\ Tail(<<go>>) = <<>>
      OBVIOUS
    <3>3. QED
      BY <1>3, <1>6, <2>4, <3>1, <3>2
  <2>6. NoneAsks(toSender, rOwed)'
    BY <1>4, <2>4, <2>5 DEF NoneAsks
  <2>7. QED
    BY <2>3, <2>5, <2>6
<1>9. CASE state # "waitingForFc" /\ UNCHANGED senderVars
  <2>1. Late
    BY <1>8, <1>9
  <2>2. UNCHANGED <<owed, pduBuffer, bytesSent, state>>
    BY <1>9 DEF senderVars
  <2>3. /\ UNCHANGED <<part, offered, accepted, owed, toReceiver, pduBuffer, bytesSent, resets, delivered>>
        /\ state' \in {state, "idle"}
        /\ rState' = "idle" \/ UNCHANGED <<rState, assemblyBuffer, expectedTotalLength>>
    BY <1>4, <2>2
  <2>4. QED
    BY <1>1, <2>1, <2>3, LinkStays
<1>10. CASE SP!FlowControl(Head(toSender))
  <2>1. /\ state = "waitingForFc"
        /\ \/ /\ SP!GoesOnOrEnds(owed)
              /\ ~(SP!IsFlowControl(frame) /\ SP!DecodeFlowControl(frame).fs = "continueToSend")
           \/ SP!HandsNextFrameOrWaits(owed, SP!DecodeFlowControl(frame).blockSize,
                                       SP!DecodeFlowControl(frame).blockSize)
    <3>1. SP!SenderAssumption /\ SP!IInv
      BY PartsMayBeUsed DEF Inv
    <3>2. SP!FlowControl(frame)
      BY <1>6, <1>10
    <3>3. QED
      BY <3>1, <3>2, SP!FlowControlCarries
  <2>2. CASE /\ SP!GoesOnOrEnds(owed)
             /\ ~(SP!IsFlowControl(frame) /\ SP!DecodeFlowControl(frame).fs = "continueToSend")
    <3>1. Late
      BY <1>8, <2>2, GoOnSaysSo
    <3>2. /\ UNCHANGED <<part, offered, accepted, owed, toReceiver, pduBuffer, bytesSent, resets, delivered>>
          /\ state' \in {state, "idle"}
          /\ rState' = "idle" \/ UNCHANGED <<rState, assemblyBuffer, expectedTotalLength>>
      BY <1>4, <2>2 DEF SP!GoesOnOrEnds
    <3>3. QED
      BY <1>1, <3>1, <3>2, LinkStays
  <2>3. ASSUME NEW block, block = SP!DecodeFlowControl(frame).blockSize,
               SP!HandsNextFrameOrWaits(owed, block, block)
        PROVE  LinkHolds'
    <3>1. ~Late => block = BlockSize /\ BlockSize \in Nat
      BY <1>8, <2>3, GoOnSaysSo, BlockSizeIsNumber
    <3>2. LedTo(s, n, accepted)
      <4>1. CASE Late
        BY <1>5, <2>1, <4>1 DEF Sends
      <4>2. CASE ~Late
        BY <1>8, <4>2 DEF LedTo
      <4>3. QED
        BY <4>1, <4>2
    <3>3. ~Late => MayGoOn(s, n, c, k, block, block)
      <4>1. SUFFICES ASSUME ~Late
                     PROVE  MayGoOn(s, n, c, k, block, block)
        BY Zenon
      <4>2. /\ NoneAsks(toSender, rOwed)' /\ s = <<>>
            /\ rState # "idle" /\ n = accepted /\ k = c /\ framesInBlock = 0
        BY <1>8, <4>1
      <4>3. BlockIsKept(s, n, k)
        BY <1>5, <4>1 DEF InTurn
      <4>4. BlockEnd(k) = c + BlockSize
        BY <3>1, <4>1, <4>2 DEF BlockEnd
      <4>5. block = BlockSize /\ BlockSize \in Nat
        BY <3>1, <4>1
      <4>6. \A i \in 1 .. Len(s) : ~s[i].asks
        BY <4>2
      <4>7. bytesSent < Len(pduBuffer) =>
              /\ block = BlockSize
              /\ BlockSize # 0 =>
                   /\ block \in Nat \ {0}
                   /\ rState # "idle" /\ n = accepted => c + block <= BlockEnd(k)
        BY <4>4, <4>5
      <4>8. QED
        BY <4>2, <4>3, <4>6, <4>7, Zenon DEF MayGoOn
    <3>4. state \in {"waitingForFc", "sendingCf"}
      BY <2>1
    <3>5. Carries(offered, s, toReceiver, r, skip) /\ SP!HandsNextFrameOrWaits(r, block, block)
      BY <1>2, <1>7, <2>3
    <3>6. UNCHANGED <<part, offered, resets, receiverVars, toReceiver>>
      BY <1>4
    <3>7. Ordered(s, n, q, accepted, c) /\ Led(s, n) /\ SenderAt(c) /\ ReceiverAt(n, q, k)
      BY <1>5
    <3>8. QED
      BY <3>2, <3>3, <3>4, <3>5, <3>6, <3>7, LinkGoesOn
  <2>4. QED
    BY <2>1, <2>2, <2>3, Zenon
<1>11. QED
  BY <1>3, <1>9, <1>10, Zenon

-----------------------------------------------------------------------------
(* Frames reach the bus, or are lost on it *)

\* The frame at the place x is lost.
LEMMA LinkWithout ==
  ASSUME Inv, UNCHANGED part,
         NEW s \in Seq(Places), NEW n \in Nat, NEW q \in Nat, NEW c \in Nat, NEW k \in Nat,
         LinkAt(s, n, q, c, k), NEW x \in 1 .. Len(s), NEW t \in Seq(Places), Without(t, s, x),
         NEW skip \in 0 .. 1, Carries(offered', t, toReceiver', owed', skip),
         UNCHANGED <<receiverVars, toSender, offered, accepted, pduBuffer, bytesSent,
                     blockSize, blocksRemaining, resets>>,
         state' \in {state, "idle"},
         state = "waitingForFc" /\ ~s[x].asks => state' = state,
         Late /\ s[x].nth = 0 /\ Len(offered[s[x].no]) > 7 =>
           /\ \A j \in x + 1 .. Len(s) : s[j].no # s[x].no
           /\ s[x].no = accepted => state' \notin {"waitingForFc", "sendingCf"}
  PROVE  LinkHolds'
<1>1. /\ Ordered(s, n, q, accepted, c) /\ Led(s, n)
      /\ Sends => LedTo(s, n, accepted)
      /\ SenderAt(c) /\ ReceiverAt(n, q, k) /\ (~Late => InTurn(s, n, c, k))
  BY DEF LinkAt, OnTheWay
<1>2. UNCHANGED <<rState, assemblyBuffer, expectedTotalLength, framesInBlock, rOwed, delivered>>
  BY DEF receiverVars
<1>3. /\ Dispensable(s, x)
      /\ Sends' => ~(s[x].no = accepted /\ s[x].nth = 0)
  BY LossIsHarmless
<1>4. accepted \in Nat
  BY LinkTypes
<1>5. Sends' => Sends
  BY SendsLess
<1>6. PICK m \in Nat : m = accepted
  BY <1>4
<1>7. Ordered(t, n, q, m, c)
  BY <1>1, <1>6, WithoutOrdered
<1>8. Led(t, n)
  BY <1>1, <1>3, WithoutLed
<1>9. Sends' => LedTo(t, n, m)
  BY <1>1, <1>3, <1>5, <1>6, WithoutLedTo
<1>10. OnTheWay(t, n, q, c)'
  <2>1. Ordered(t, n, q, accepted', c) /\ (Sends' => LedTo(t, n, accepted'))
    BY <1>6, <1>7, <1>9
  <2>2. QED
    BY <1>8, <2>1, Zenon DEF OnTheWay
<1>11. SenderAt(c)'
  BY <1>1, SenderStays
<1>12. ReceiverAt(n, q, k)'
  <2>1. offered \in Seq(Seq(Bytes))
    BY <1>1 DEF SenderAt
  <2>2. QED
    BY <1>1, <1>2, <2>1, ReceiverStays
<1>13. ASSUME ~Late
       PROVE  InTurn(t, n, c, k)'
  BY <1>1, <1>2, <1>13, InTurnWithout
<1>14. LinkAt(t, n, q, c, k)'
  <2>1. Late' = Late
    BY DEF Late
  <2>2. QED
    BY <1>10, <1>11, <1>12, <1>13, <2>1 DEF LinkAt
<1>15. QED
  BY <1>14, Zenon DEF LinkHolds

\* The frames on their way stay at their places.
LEMMA LinkSamePlaces ==
  ASSUME Inv, UNCHANGED part,
         NEW s \in Seq(Places), NEW n \in Nat, NEW q \in Nat, NEW c \in Nat, NEW k \in Nat,
         LinkAt(s, n, q, c, k),
         NEW skip \in 0 .. 1, Carries(offered', s, toReceiver', owed', skip),
         UNCHANGED <<receiverVars, toSender, offered, accepted, pduBuffer, bytesSent,
                     blockSize, blocksRemaining, resets>>,
         state' \in {state, "idle"}, state = "waitingForFc" => state' = state
  PROVE  LinkHolds'
<1>1. UNCHANGED <<rState, assemblyBuffer, expectedTotalLength, framesInBlock, rOwed, delivered>>
  BY DEF receiverVars
<1>2. /\ Ordered(s, n, q, accepted, c) /\ Led(s, n)
      /\ Sends => LedTo(s, n, accepted)
      /\ SenderAt(c) /\ ReceiverAt(n, q, k) /\ (~Late => InTurn(s, n, c, k))
  BY DEF LinkAt, OnTheWay
<1>3. OnTheWay(s, n, q, c)'
  <2>1. Sends' => Sends
    BY SendsLess
  <2>2. QED
    BY <1>2, <2>1 DEF OnTheWay
<1>4. SenderAt(c)'
  BY <1>2, SenderStays
<1>5. ReceiverAt(n, q, k)'
  <2>1. offered \in Seq(Seq(Bytes))
    BY <1>2 DEF SenderAt
  <2>2. QED
    BY <1>1, <1>2, <2>1, ReceiverStays
<1>6. ASSUME ~Late
      PROVE  InTurn(s, n, c, k)'
  BY <1>1, <1>2, <1>6, InTurnStays
<1>7. LinkAt(s, n, q, c, k)'
  <2>1. Late' = Late
    BY DEF Late
  <2>2. QED
    BY <1>3, <1>4, <1>5, <1>6, <2>1 DEF LinkAt
<1>8. QED
  BY <1>7, Zenon DEF LinkHolds

\* A frame reaches the bus.
LEMMA SenderTransmitsKeepsLink ==
  ASSUME Inv, UNCHANGED part, LinkHolds, SenderTransmits
  PROVE  LinkHolds'
<1>1. PICK s \in Seq(Places), n \in Nat, q \in Nat, c \in Nat, k \in Nat : LinkAt(s, n, q, c, k)
  BY Zenon DEF LinkHolds
<1>2. PICK skip \in 0 .. 1 : Carries(offered, s, toReceiver, owed, skip)
  BY <1>1 DEF LinkAt, OnTheWay
<1>3. /\ owed # <<>> /\ ~owed[1].sent
      /\ owed' = [owed EXCEPT ![1].sent = TRUE]
      /\ toReceiver' = Append(toReceiver, owed[1].bytes)
      /\ UNCHANGED <<state, pduBuffer, bytesSent, blockSize, blocksRemaining, accepted, resets>>
      /\ UNCHANGED <<receiverVars, toSender, offered>>
  BY LinkSenderActions
     DEF SenderTransmits, SP!Transmitted, SP!senderVars, SP!transferVars, SP!historyVars
<1>4. Carries(offered', s, toReceiver', owed', 1)
  <2>1. PICK frames \in Seq(CanFrames) : frames = toReceiver
    BY LinkTypes
  <2>2. PICK r \in Seq(SP!OwedFrames) : r = owed
    BY LinkTypes
  <2>3. Carries(offered, s, Append(frames, r[1].bytes), [r EXCEPT ![1].sent = TRUE], 1)
    BY <1>2, <1>3, <2>1, <2>2, CarriesTransmitted
  <2>4. QED
    BY <1>3, <2>1, <2>2, <2>3
<1>5. PICK y \in 0 .. 1 : y = 1
  OBVIOUS
<1>6. Carries(offered', s, toReceiver', owed', y)
  BY <1>4, <1>5
<1>7. QED
  BY <1>1, <1>3, <1>6, LinkSamePlaces

\* A frame is lost on the bus.
LEMMA FrameLostKeepsLink ==
  ASSUME Inv, UNCHANGED part, LinkHolds, Late => ~headless',
         NEW losable, FrameLost(losable)
  PROVE  LinkHolds'
<1>1. PICK s \in Seq(Places), n \in Nat, q \in Nat, c \in Nat, k \in Nat : LinkAt(s, n, q, c, k)
  BY Zenon DEF LinkHolds
<1>2. PICK skip \in 0 .. 1 : Carries(offered, s, toReceiver, owed, skip)
  BY <1>1 DEF LinkAt, OnTheWay
<1>3. UNCHANGED <<senderVars, receiverVars, offered>>
  BY DEF FrameLost
<1>4. /\ UNCHANGED <<state, owed, pduBuffer, bytesSent, blockSize, blocksRemaining, accepted, resets>>
      /\ UNCHANGED <<rState, assemblyBuffer, expectedTotalLength, framesInBlock, rOwed, delivered>>
  BY <1>3 DEF senderVars, receiverVars
<1>5. PICK frames \in Seq(CanFrames) : frames = toReceiver
  BY LinkTypes
<1>6. PICK r \in Seq(SP!OwedFrames) : r = owed
  BY LinkTypes
<1>7. CASE /\ toReceiver # <<>>
           /\ headless' = (headless \/ S!DecodeFrameType(Head(toReceiver)) = "firstFrame")
           /\ toReceiver' = Tail(toReceiver)
           /\ UNCHANGED toSender
  <2>1. s # <<>> /\ 1 \in 1 .. Len(s)
    <3>1. Len(s) = Len(frames) + Len(r) - skip /\ skip <= Len(r)
      BY <1>2, <1>5, <1>6 DEF Carries
    <3>2. Len(frames) \in Nat /\ Len(frames) # 0 /\ Len(r) \in Nat
      BY <1>5, <1>7, LenProperties, EmptySeq
    <3>3. Len(s) \in Nat /\ Len(s) > 0
      BY <3>1, <3>2
    <3>4. QED
      BY <3>3
  <2>2. PICK t \in Seq(Places) : Without(t, s, 1)
    BY <2>1, PlacesWithout
  <2>3. IsFrame(offered, Head(frames), s[1]) /\ Carries(offered, t, Tail(frames), r, skip)
    <3>1. PICK pdus : pdus = offered
      OBVIOUS
    <3>2. IsFrame(pdus, Head(frames), s[1]) /\ Carries(pdus, t, Tail(frames), r, skip)
      BY <1>2, <1>5, <1>6, <1>7, <2>2, <3>1, CarriesTaken
    <3>3. QED
      BY <3>1, <3>2
  <2>4. Carries(offered', t, toReceiver', owed', skip)
    BY <1>3, <1>4, <1>5, <1>6, <1>7, <2>3
  <2>5. ~(Late /\ s[1].nth = 0 /\ Len(offered[s[1].no]) > 7)
    <3>1. SUFFICES ASSUME Late, s[1].nth = 0, Len(offered[s[1].no]) > 7
                   PROVE  FALSE
      OBVIOUS
    <3>2. s[1].no \in 1 .. Len(offered) /\ Head(frames) = RP!EncodeFirstFrame(offered[s[1].no])
      BY <2>3, <3>1 DEF IsFrame
    <3>3. PICK pdu : pdu = offered[s[1].no]
      OBVIOUS
    <3>4. pdu \in Seq(Bytes) /\ Len(pdu) \in RP!LongLengths
      BY <1>1, <3>1, <3>2, <3>3, ElementOfSeq DEF LinkAt, SenderAt, PduSent
    <3>5. RP!DecodeFrameType(RP!EncodeFirstFrame(pdu)) = "firstFrame"
      <4>1. PICK len \in RP!LongLengths : Len(pdu) = len
        BY <3>4
      <4>2. pdu \in Seq(RP!Byte)
        BY <3>4 DEF RP!Byte, Bytes
      <4>3. QED
        BY <4>1, <4>2, RP!FirstFrameRead
    <3>6. \A f : S!DecodeFrameType(f) = RP!DecodeFrameType(f)
      BY DEF S!DecodeFrameType, RP!DecodeFrameType
    <3>7. QED
      BY <1>5, <1>7, <3>1, <3>2, <3>3, <3>5, <3>6
  <2>6. UNCHANGED <<receiverVars, toSender, offered, accepted, pduBuffer, bytesSent,
                    blockSize, blocksRemaining, resets>> /\ state' = state
    BY <1>3, <1>4, <1>7
  <2>7. PICK x \in 1 .. Len(s) : x = 1
    BY <2>1
  <2>8. Without(t, s, x) /\ ~(Late /\ s[x].nth = 0 /\ Len(offered[s[x].no]) > 7)
    BY <2>2, <2>5, <2>7
  <2>9. QED
    BY <1>1, <2>4, <2>6, <2>8, LinkWithout
<1>8. CASE /\ toSender # <<>> /\ toSender' = Tail(toSender) /\ UNCHANGED toReceiver
  <2>1. ASSUME ~Late
        PROVE  InTurn(s, n, c, k)'
    <3>1. InTurn(s, n, c, k)
      BY <1>1, <2>1 DEF LinkAt
    <3>2. toSender = <<GoOn>> /\ \A i \in 1 .. Len(rOwed) : rOwed[i].sent
      BY <1>8, <3>1, Zenon DEF InTurn, AskedOnce, NoneAsks, OneAsks
    <3>3. toSender' = <<>>
      <4>1. PICK go : go = GoOn
        OBVIOUS
      <4>2. Tail(<<go>>) = <<>>
        OBVIOUS
      <4>3. QED
        BY <1>8, <3>2, <4>1, <4>2
    <3>4. AskedOnce(s, n, c, k)'
      BY <1>4, <3>2, <3>3 DEF AskedOnce, NoneAsks
    <3>5. OnlyLastAsks(s, c)'
      BY <1>4, <3>1 DEF InTurn, OnlyLastAsks
    <3>6. BlockIsTheirs(n, c, k)'
      BY <1>4, <3>1 DEF InTurn, BlockIsTheirs, BlockEnd
    <3>7. BlockIsKept(s, n, k)'
      BY <1>4, <3>1 DEF InTurn, BlockIsKept, BlockEnd
    <3>8. QED
      BY <3>4, <3>5, <3>6, <3>7 DEF InTurn
  <2>2. /\ UNCHANGED <<part, offered, accepted, owed, toReceiver, pduBuffer, bytesSent, resets, delivered>>
        /\ state' \in {state, "idle"}
        /\ rState' = "idle" \/ UNCHANGED <<rState, assemblyBuffer, expectedTotalLength>>
    BY <1>3, <1>4, <1>8
  <2>3. QED
    BY <1>1, <2>1, <2>2, LinkStays
<1>9. QED
  BY <1>7, <1>8, Zenon DEF FrameLost

-----------------------------------------------------------------------------
(* The frames of the sender are completed *)

\* A frame of the current transfer that ends it watched over it.
LEMMA WhatEndsTransfer ==
  ASSUME Inv, NEW i \in 1 .. Len(owed), owed[i].token = transfer, state = "waitingForFc"
  PROVE  owed[i].role \in {"first", "blockEnd"}
<1>1. owed[i] \in SP!OwedFrames
  BY LinkTypes, ElementOfSeq
<1>2. owed[i].role \in SP!Watched \cup SP!Unwatched
  BY <1>1 DEF SP!OwedFrames
<1>3. SP!CurrentFrame(i)
  BY DEF Inv, SP!IInv, SP!CurrentFrames
<1>4. QED
  BY <1>2, <1>3 DEF SP!CurrentFrame, SP!Watched, SP!Unwatched

\* A frame reached the bus and its completion is told.
LEMMA SuccessKeepsLink ==
  ASSUME Inv, UNCHANGED part, LinkHolds, 1 \in 1 .. Len(owed), SP!Completion(1, TRUE),
         UNCHANGED <<receiverVars, toReceiver, toSender, offered>>
  PROVE  LinkHolds'
<1>1. PICK s \in Seq(Places), n \in Nat, q \in Nat, c \in Nat, k \in Nat : LinkAt(s, n, q, c, k)
  BY Zenon DEF LinkHolds
<1>2. PICK skip \in 0 .. 1 : Carries(offered, s, toReceiver, owed, skip)
  BY <1>1 DEF LinkAt, OnTheWay
<1>3. UNCHANGED <<part, offered, toReceiver, toSender, receiverVars, resets, rOwed>>
  BY DEF receiverVars, SP!Completion
<1>4. /\ owed[1].sent
      /\ \/ /\ SP!GoesOnOrEnds(SP!RemoveAt(owed, 1))
            /\ owed[1].token # transfer => state' = state
            /\ state' # state => owed[1].role \in SP!Watched
         \/ /\ state = "sendingCf"
            /\ SP!HandsNextFrameOrWaits(SP!RemoveAt(owed, 1), blockSize, blocksRemaining)
  <2>1. SP!SenderAssumption /\ SP!IInv
    BY PartsMayBeUsed DEF Inv
  <2>2. PICK i \in 1 .. Len(owed), success \in BOOLEAN : i = 1 /\ success = TRUE
    OBVIOUS
  <2>3. SP!Completion(i, success)
    BY <2>2
  <2>4. /\ success => i = 1 /\ owed[i].sent
        /\ ~success => ~owed[i].sent
        /\ \/ /\ SP!GoesOnOrEnds(SP!RemoveAt(owed, i))
              /\ owed[i].token # transfer => state' = state
              /\ ~success /\ owed[i].token = transfer => state' = "idle"
              /\ success /\ state' # state => owed[i].role \in SP!Watched
           \/ /\ success /\ state = "sendingCf"
              /\ SP!HandsNextFrameOrWaits(SP!RemoveAt(owed, i), blockSize, blocksRemaining)
    BY <2>1, <2>3, SP!CompletionCarries
  <2>5. QED
    BY <2>2, <2>4
<1>5. PICK r \in Seq(SP!OwedFrames) : r = SP!RemoveAt(owed, 1)
  BY LinkTypes, SP!RemoveAtProperties
<1>6. Carries(offered, s, toReceiver, r, 0)
  <2>1. PICK frames \in Seq(CanFrames) : frames = toReceiver
    BY LinkTypes
  <2>2. PICK queue \in Seq(SP!OwedFrames) : queue = owed
    BY LinkTypes
  <2>3. Carries(offered, s, frames, SP!RemoveAt(queue, 1), 0)
    BY <1>2, <1>4, <2>1, <2>2, CarriesCompleted
  <2>4. QED
    BY <1>5, <2>1, <2>2, <2>3
<1>7. PICK none \in 0 .. 1 : none = 0
  OBVIOUS
<1>8. CASE /\ SP!GoesOnOrEnds(SP!RemoveAt(owed, 1))
           /\ owed[1].token # transfer => state' = state
           /\ state' # state => owed[1].role \in SP!Watched
  <2>1. /\ owed' = r /\ state' \in {state, "idle"}
        /\ UNCHANGED <<pduBuffer, bytesSent, accepted, blockSize, blocksRemaining>>
    BY <1>5, <1>8 DEF SP!GoesOnOrEnds
  <2>2. state = "waitingForFc" => state' = state
    BY <1>8, WhatEndsTransfer DEF SP!Watched
  <2>3. Carries(offered', s, toReceiver', owed', none)
    BY <1>3, <1>6, <1>7, <2>1
  <2>4. UNCHANGED <<receiverVars, toSender, offered, accepted, pduBuffer, bytesSent,
                    blockSize, blocksRemaining, resets>>
    BY <1>3, <2>1
  <2>5. QED
    BY <1>1, <2>1, <2>2, <2>3, <2>4, LinkSamePlaces
<1>9. CASE /\ state = "sendingCf"
           /\ SP!HandsNextFrameOrWaits(SP!RemoveAt(owed, 1), blockSize, blocksRemaining)
  <2>1. /\ Ordered(s, n, q, accepted, c) /\ Led(s, n) /\ LedTo(s, n, accepted)
        /\ SenderAt(c) /\ ReceiverAt(n, q, k) /\ (~Late => InTurn(s, n, c, k))
    BY <1>1, <1>9 DEF LinkAt, OnTheWay, Sends
  <2>2. ~Late => MayGoOn(s, n, c, k, blockSize, blocksRemaining)
    BY <1>3, <1>9, <2>1, MayAlwaysGoOn
  <2>3. PICK size, remaining : size = blockSize /\ remaining = blocksRemaining
    OBVIOUS
  <2>4. /\ SP!HandsNextFrameOrWaits(r, size, remaining)
        /\ ~Late => MayGoOn(s, n, c, k, size, remaining)
        /\ state \in {"waitingForFc", "sendingCf"}
    BY <1>5, <1>9, <2>2, <2>3
  <2>5. UNCHANGED <<part, offered, resets, receiverVars, toReceiver>>
    BY <1>3
  <2>6. Carries(offered, s, toReceiver, r, none)
    BY <1>6, <1>7
  <2>7. QED
    BY <2>1, <2>4, <2>5, <2>6, LinkGoesOn
<1>10. QED
  BY <1>4, <1>8, <1>9, Zenon

\* A frame fails before it reached the bus.
LEMMA FailureKeepsLink ==
  ASSUME Inv, UNCHANGED part, LinkHolds, NEW i \in 1 .. Len(owed), SP!Completion(i, FALSE),
         Late => ~LosesFirstFrame(i, FALSE),
         UNCHANGED <<receiverVars, toReceiver, toSender, offered>>
  PROVE  LinkHolds'
<1>1. PICK s \in Seq(Places), n \in Nat, q \in Nat, c \in Nat, k \in Nat : LinkAt(s, n, q, c, k)
  BY Zenon DEF LinkHolds
<1>2. PICK skip \in 0 .. 1 : Carries(offered, s, toReceiver, owed, skip)
  BY <1>1 DEF LinkAt, OnTheWay
<1>3. UNCHANGED <<part, offered, toReceiver, toSender, receiverVars, resets, rOwed>>
  BY DEF receiverVars, SP!Completion
<1>4. /\ ~owed[i].sent
      /\ SP!GoesOnOrEnds(SP!RemoveAt(owed, i))
      /\ owed[i].token # transfer => state' = state
      /\ owed[i].token = transfer => state' = "idle"
  <2>1. SP!SenderAssumption /\ SP!IInv
    BY PartsMayBeUsed DEF Inv
  <2>2. PICK success \in BOOLEAN : success = FALSE
    OBVIOUS
  <2>3. SP!Completion(i, success)
    BY <2>2
  <2>4. /\ success => i = 1 /\ owed[i].sent
        /\ ~success => ~owed[i].sent
        /\ \/ /\ SP!GoesOnOrEnds(SP!RemoveAt(owed, i))
              /\ owed[i].token # transfer => state' = state
              /\ ~success /\ owed[i].token = transfer => state' = "idle"
              /\ success /\ state' # state => owed[i].role \in SP!Watched
           \/ /\ success /\ state = "sendingCf"
              /\ SP!HandsNextFrameOrWaits(SP!RemoveAt(owed, i), blockSize, blocksRemaining)
    BY <2>1, <2>3, SP!CompletionCarries
  <2>5. QED
    BY <2>2, <2>4
<1>5. /\ owed' = SP!RemoveAt(owed, i) /\ state' \in {state, "idle"}
      /\ UNCHANGED <<pduBuffer, bytesSent, accepted, blockSize, blocksRemaining>>
  BY <1>4 DEF SP!GoesOnOrEnds
<1>6. PICK frames \in Seq(CanFrames) : frames = toReceiver
  BY LinkTypes
<1>7. PICK queue \in Seq(SP!OwedFrames) : queue = owed
  BY LinkTypes
<1>8. PICK x : x = Len(frames) + i - skip
  OBVIOUS
<1>9. /\ Len(frames) \in Nat /\ Len(queue) \in Nat /\ Len(s) \in Nat
      /\ Len(s) = Len(frames) + Len(queue) - skip /\ skip <= Len(queue)
      /\ \A j \in 1 .. Len(queue) :
           /\ j <= skip => queue[j].sent
           /\ j > skip => ~queue[j].sent /\ IsOwed(offered, queue[j], s[Len(frames) + j - skip])
  <2>1. Carries(offered, s, frames, queue, skip)
    BY <1>2, <1>6, <1>7
  <2>2. QED
    BY <2>1, LenProperties DEF Carries
<1>10. i > skip /\ x \in 1 .. Len(s)
  <2>1. i > skip
    BY <1>4, <1>7, <1>9
  <2>2. QED
    BY <1>7, <1>8, <1>9, <2>1
<1>11. PICK t \in Seq(Places) : Without(t, s, x)
  BY <1>10, PlacesWithout
<1>12. /\ IsOwed(offered, owed[i], s[x])
       /\ Carries(offered', t, toReceiver', owed', skip)
  <2>1. PICK pdus : pdus = offered
    OBVIOUS
  <2>2. PICK j \in 1 .. Len(queue) : j = i
    BY <1>7
  <2>3. Carries(pdus, s, frames, queue, skip) /\ ~queue[j].sent /\ x = Len(frames) + j - skip
    BY <1>2, <1>4, <1>6, <1>7, <1>8, <2>1, <2>2
  <2>4. /\ x \in 1 .. Len(s) /\ IsOwed(pdus, queue[j], s[x])
        /\ Carries(pdus, t, frames, SP!RemoveAt(queue, j), skip)
    BY <1>11, <2>3, CarriesFailed
  <2>5. offered' = pdus /\ toReceiver' = frames /\ owed' = SP!RemoveAt(queue, j)
    BY <1>3, <1>5, <1>6, <1>7, <2>1, <2>2
  <2>6. Carries(offered', t, toReceiver', owed', skip)
    BY <2>4, <2>5
  <2>7. QED
    BY <1>7, <2>1, <2>2, <2>4, <2>6
<1>13. state = "waitingForFc" /\ ~s[x].asks => state' = state
  BY <1>4, <1>12, WhatEndsTransfer DEF IsOwed
<1>14. ASSUME Late, s[x].nth = 0, Len(offered[s[x].no]) > 7
       PROVE  /\ \A j \in x + 1 .. Len(s) : s[j].no # s[x].no
              /\ s[x].no = accepted => state' \notin {"waitingForFc", "sendingCf"}
  <2>1. owed[i].role = "first" /\ owed[i].no = s[x].no
    BY <1>12, <1>14 DEF IsOwed
  <2>2. \A j \in DOMAIN owed : j > i => owed[j].no # owed[i].no
    BY <1>14, <2>1 DEF LosesFirstFrame
  <2>3. ASSUME NEW j \in x + 1 .. Len(s)
        PROVE  s[j].no # s[x].no
    <3>1. PICK y : y = j - Len(frames) + skip
      OBVIOUS
    <3>2. y \in 1 .. Len(queue) /\ y > i /\ y > skip /\ j = Len(frames) + y - skip
      BY <1>7, <1>8, <1>9, <1>10, <2>3, <3>1
    <3>3. queue[y].no = s[j].no
      BY <1>9, <3>2 DEF IsOwed
    <3>4. y \in DOMAIN owed
      BY <1>7, <3>2, LenProperties
    <3>5. QED
      BY <1>7, <2>1, <2>2, <3>2, <3>3, <3>4
  <2>4. ASSUME s[x].no = accepted, state # "idle"
        PROVE  state' = "idle"
    <3>1. SP!SenderAssumption /\ SP!IInv /\ resets = 0
      BY <1>1, PartsMayBeUsed DEF Inv, LinkAt, SenderAt
    <3>2. owed[i].token = transfer
      BY <2>1, <2>4, <3>1, SP!FramesOfTransfer
    <3>3. QED
      BY <1>4, <3>2
  <2>5. QED
    BY <1>5, <2>3, <2>4
<1>15. UNCHANGED <<receiverVars, toSender, offered, accepted, pduBuffer, bytesSent,
                   blockSize, blocksRemaining, resets>>
  BY <1>3, <1>5
<1>16. QED
  BY <1>1, <1>5, <1>10, <1>11, <1>12, <1>13, <1>14, <1>15, LinkWithout

\* A frame of the sender is completed or fails.
LEMMA SenderCompletionKeepsLink ==
  ASSUME Inv, UNCHANGED part, LinkHolds, Late => ~headless', SenderCompletion
  PROVE  LinkHolds'
<1>1. PICK i \in DOMAIN owed, success \in BOOLEAN :
        /\ SP!Completion(i, success)
        /\ headless' = (headless \/ LosesFirstFrame(i, success))
  BY LinkSenderActions, Zenon DEF SenderCompletion
<1>2. UNCHANGED <<receiverVars, toReceiver, toSender, offered>>
  BY DEF SenderCompletion
<1>3. i \in 1 .. Len(owed)
  <2>1. owed \in Seq(SP!OwedFrames)
    BY LinkTypes
  <2>2. QED
    BY <1>1, <2>1, LenProperties
<1>4. CASE success
  <2>1. success = TRUE
    BY <1>4
  <2>2. i = 1
    BY <1>1, <1>4 DEF SP!Completion, SP!MayComplete
  <2>3. 1 \in 1 .. Len(owed) /\ SP!Completion(1, TRUE)
    BY <1>1, <1>3, <2>1, <2>2
  <2>4. QED
    BY <1>2, <2>3, SuccessKeepsLink
<1>5. CASE ~success
  <2>1. success = FALSE
    BY <1>5
  <2>2. SP!Completion(i, FALSE) /\ (Late => ~LosesFirstFrame(i, FALSE))
    BY <1>1, <2>1
  <2>3. QED
    BY <1>2, <1>3, <2>2, FailureKeepsLink
<1>6. QED
  BY <1>4, <1>5

-----------------------------------------------------------------------------
(* A PDU is sent *)

\* The bytes of a PDU show its number.
LEMMA NumberShown ==
  ASSUME NEW a \in Nat, NEW m \in Nat
  PROVE  NumberOf((64 * a) + (m % 64)) = a + 1
<1>1. PICK r \in 0 .. 63 : r = m % 64
  OBVIOUS
<1>2. ((64 * a) + r) \div 64 = a
  BY <1>1
<1>3. QED
  BY <1>1, <1>2 DEF NumberOf

\* The PDUs the link is given show their numbers.
LEMMA PdusAreSent ==
  ASSUME NEW a \in Nat, NEW length, NEW pdu \in Seq(Bytes), pdu = PduOf(a + 1, length),
         pdu # <<>>, Len(pdu) <= MaxPduSize, Len(pdu) <= 4095
  PROVE  PduSent(pdu, a + 1)
<1>1. Len(pdu) \in Nat /\ Len(pdu) > 0 /\ DOMAIN pdu = 1 .. Len(pdu)
  BY LenProperties, EmptySeq
<1>2. Len(pdu) > 7 => Len(pdu) \in RP!LongLengths
  <2>1. PICK len \in Nat : len = Len(pdu)
    BY <1>1
  <2>2. len <= 4095
    BY <2>1
  <2>3. len > 7 => len \in RP!LongLengths
    BY <2>2 DEF RP!LongLengths
  <2>4. QED
    BY <2>1, <2>3
<1>3. NumberOf(pdu[Len(pdu)]) = a + 1
  <2>1. PICK m \in Nat : m = Len(pdu)
    BY <1>1
  <2>2. m \in DOMAIN pdu
    BY <1>1, <2>1
  <2>3. PICK f : f = PduOf(a + 1, length)
    OBVIOUS
  <2>4. f = pdu
    BY <2>3
  <2>5. pdu[m] = (64 * ((a + 1) - 1)) + (m % 64)
    <3>1. \A i \in DOMAIN f : f[i] = (64 * ((a + 1) - 1)) + (i % 64)
      BY <2>3 DEF PduOf
    <3>2. m \in DOMAIN f
      BY <2>2, <2>4
    <3>3. f[m] = (64 * ((a + 1) - 1)) + (m % 64)
      BY <3>1, <3>2
    <3>4. QED
      BY <2>4, <3>3
  <2>6. (a + 1) - 1 = a
    OBVIOUS
  <2>7. pdu[m] = (64 * a) + (m % 64)
    BY <2>5, <2>6
  <2>8. NumberOf((64 * a) + (m % 64)) = a + 1
    BY NumberShown
  <2>9. QED
    BY <2>1, <2>7, <2>8
<1>4. QED
  BY <1>1, <1>2, <1>3 DEF PduSent

\* A later transfer comes after all frames.
LEMMA OrderedNext ==
  ASSUME NEW s \in Seq(Places), NEW n \in Nat, NEW q \in Nat, NEW m \in Nat, NEW c \in Nat,
         Ordered(s, n, q, m, c)
  PROVE  Ordered(s, n, q, m + 1, 0)
<1>1. \A i \in 1 .. Len(s) : s[i].no \in Nat /\ s[i].nth \in Nat
  BY PlaceTypes
<1>2. \A a, b \in Nat : ~Before(m, c, a, b) => ~Before(m + 1, 0, a, b)
  BY DEF Before
<1>3. QED
  BY <1>1, <1>2, Zenon DEF Ordered

\* A PDU is accepted.
LEMMA SendPduKeepsLink ==
  ASSUME Inv, UNCHANGED part, LinkHolds, NEW length \in Lengths, SendPdu(length)
  PROVE  LinkHolds'
<1>1. PICK s \in Seq(Places), n \in Nat, q \in Nat, c \in Nat, k \in Nat : LinkAt(s, n, q, c, k)
  BY Zenon DEF LinkHolds
<1>2. PICK skip \in 0 .. 1 : Carries(offered, s, toReceiver, owed, skip)
  BY <1>1 DEF LinkAt, OnTheWay
<1>3. SP!Send(PduOf(accepted + 1, length)) /\ UNCHANGED <<receiverVars, bus>>
  BY LinkSenderActions, Zenon DEF SendPdu
<1>4. accepted < MaxTransfers
  BY <1>3, Zenon DEF SP!Send
<1>5. PICK pdu \in Seq(Bytes) : pdu = PduOf(accepted + 1, length)
  BY <1>4, LinkPdus DEF Inv
<1>6. /\ state = "idle" /\ pdu # <<>> /\ Len(pdu) <= MaxPduSize /\ Len(pdu) <= 4095
      /\ accepted' = accepted + 1 /\ pduBuffer' = pdu
      /\ Len(pdu) > 7 => bytesSent' = 6
      /\ \/ owed' = owed /\ state' = "idle"
         \/ \E e \in SP!OwedFrames :
              /\ owed' = Append(owed, e)
              /\ e.no = accepted + 1 /\ ~e.sent
              /\ \/ /\ Len(pdu) <= 7 /\ e.bytes = SP!EncodeSingleFrame(pdu)
                    /\ e.role = "single" /\ state' = "sendingSf"
                 \/ /\ Len(pdu) > 7 /\ e.bytes = SP!EncodeFirstFrame(pdu)
                    /\ e.role = "first" /\ state' = "waitingForFc"
  <2>1. SP!SenderAssumption /\ SP!IInv
    BY PartsMayBeUsed DEF Inv
  <2>2. pdu \in Seq(SP!Byte)
    BY DEF SP!Byte, Bytes
  <2>3. SP!Send(pdu)
    BY <1>3, <1>5
  <2>4. /\ state = "idle" /\ pdu # <<>> /\ Len(pdu) <= MaxPduSize /\ Len(pdu) <= 4095
        /\ accepted < MaxTransfers
        /\ accepted' = accepted + 1 /\ pduBuffer' = pdu
        /\ Len(pdu) > 7 => bytesSent' = 6
        /\ \/ owed' = owed /\ state' = "idle"
           \/ \E e \in SP!OwedFrames :
                /\ owed' = Append(owed, e)
                /\ e.no = accepted + 1 /\ ~e.sent
                /\ \/ /\ Len(pdu) <= 7 /\ e.bytes = SP!EncodeSingleFrame(pdu)
                      /\ e.role = "single" /\ state' = "sendingSf"
                   \/ /\ Len(pdu) > 7 /\ e.bytes = SP!EncodeFirstFrame(pdu)
                      /\ e.role = "first" /\ state' = "waitingForFc"
    BY <2>1, <2>2, <2>3, SP!SendCarries
  <2>5. QED
    BY <2>4
<1>7. /\ offered' = Append(offered, pdu)
      /\ UNCHANGED <<part, toReceiver, toSender, resets, delivered, rOwed, rState, assemblyBuffer,
                     expectedTotalLength, framesInBlock>>
  BY <1>3, <1>5 DEF SendPdu, receiverVars, bus, SP!Send
<1>8. /\ Ordered(s, n, q, accepted, c) /\ Led(s, n)
      /\ SenderAt(c) /\ ReceiverAt(n, q, k) /\ (~Late => InTurn(s, n, c, k))
  BY <1>1 DEF LinkAt, OnTheWay
<1>9. PICK m \in Nat : m = accepted
  BY LinkTypes
<1>10. /\ offered \in Seq(Seq(Bytes)) /\ Len(offered) = m
       /\ offered' \in Seq(Seq(Bytes)) /\ Len(offered') = m + 1
       /\ offered'[m + 1] = pdu
       /\ \A i \in 1 .. m : offered'[i] = offered[i]
  <2>1. offered \in Seq(Seq(Bytes)) /\ Len(offered) = m
    BY <1>8, <1>9 DEF SenderAt
  <2>2. QED
    BY <1>7, <2>1, AppendProperties
<1>11. SenderAt(0)'
  <2>1. PduSent(pdu, m + 1)
    BY <1>5, <1>6, <1>9, PdusAreSent
  <2>2. \A i \in 1 .. Len(offered') : PduSent(offered'[i], i)
    <3>1. \A i \in 1 .. m : PduSent(offered[i], i)
      BY <1>8, <1>10 DEF SenderAt
    <3>2. \A i \in 1 .. Len(offered') : i \in 1 .. m \/ i = m + 1
      BY <1>10
    <3>3. QED
      BY <1>10, <2>1, <3>1, <3>2
  <2>3. pduBuffer' = offered'[accepted'] /\ accepted' = m + 1
    BY <1>6, <1>9, <1>10
  <2>4. Len(pduBuffer') > 7 => bytesSent' = SentBy(0, Len(pduBuffer'))
    <3>1. Len(pdu) \in Nat
      BY LenProperties
    <3>2. Len(pdu) > 7 => SentBy(0, Len(pdu)) = 6
      BY <3>1 DEF SentBy
    <3>3. QED
      BY <1>6, <3>2
  <2>5. state' \in {"waitingForFc", "sendingCf"} => accepted' # 0 /\ Len(pduBuffer') > 7
    BY <1>6, <1>9
  <2>6. resets' = 0
    BY <1>7, <1>8 DEF SenderAt
  <2>7. QED
    BY <1>10, <2>2, <2>3, <2>4, <2>5, <2>6 DEF SenderAt
<1>12. ReceiverAt(n, q, k)'
  <2>1. \E x \in Seq(Bytes) : offered' = Append(offered, x)
    BY <1>7
  <2>2. UNCHANGED delivered /\ UNCHANGED <<rState, assemblyBuffer, expectedTotalLength>>
    BY <1>7
  <2>3. QED
    BY <1>8, <1>10, <2>1, <2>2, ReceiverStays
<1>13. Ordered(s, n, q, m + 1, 0)
  BY <1>8, <1>9, OrderedNext
<1>14. /\ Late' = Late
       /\ state' # "sendingCf"
  BY <1>6, <1>7 DEF Late
<1>15. Carries(offered', s, toReceiver, owed, skip)
  <2>1. PICK pdus \in Seq(Seq(Bytes)) : pdus = offered
    BY <1>10
  <2>2. Carries(Append(pdus, pdu), s, toReceiver, owed, skip)
    BY <1>2, <2>1, CarriesMore
  <2>3. QED
    BY <1>7, <2>1, <2>2
<1>16. ASSUME ~Late
       PROVE  /\ \A i \in 1 .. Len(s) : ~s[i].asks
              /\ NoneAsks(toSender, rOwed)
              /\ BlockIsKept(s, n, k)
  BY <1>6, <1>8, <1>16 DEF InTurn, OnlyLastAsks, AskedOnce
<1>17. ASSUME ~Late, NEW t
       PROVE  AskedOnce(t, n, 0, k)' /\ BlockIsTheirs(n, 0, k)'
  <2>1. NoneAsks(toSender, rOwed)'
    BY <1>7, <1>16, <1>17 DEF NoneAsks
  <2>2. QED
    BY <1>14, <2>1 DEF AskedOnce, BlockIsTheirs
<1>18. BlockEnd(k)' = BlockEnd(k)
  BY <1>7 DEF BlockEnd
<1>19. CASE owed' = owed /\ state' = "idle"
  <2>1. OnTheWay(s, n, q, 0)'
    <3>1. Carries(offered', s, toReceiver', owed', skip)
      BY <1>7, <1>15, <1>19
    <3>2. Ordered(s, n, q, accepted', 0)
      BY <1>6, <1>9, <1>13
    <3>3. ~Sends'
      BY <1>19 DEF Sends
    <3>4. QED
      BY <1>8, <3>1, <3>2, <3>3 DEF OnTheWay
  <2>2. ASSUME ~Late
        PROVE  InTurn(s, n, 0, k)'
    <3>1. OnlyLastAsks(s, 0)'
      BY <1>16, <2>2 DEF OnlyLastAsks
    <3>2. BlockIsKept(s, n, k)'
      BY <1>7, <1>16, <1>18, <2>2 DEF BlockIsKept
    <3>3. QED
      BY <1>17, <2>2, <3>1, <3>2 DEF InTurn
  <2>3. LinkAt(s, n, q, 0, k)'
    BY <1>11, <1>12, <1>14, <2>1, <2>2 DEF LinkAt
  <2>4. QED
    BY <2>3, Zenon DEF LinkHolds
<1>20. CASE \E e \in SP!OwedFrames :
              /\ owed' = Append(owed, e)
              /\ e.no = accepted + 1 /\ ~e.sent
              /\ \/ /\ Len(pdu) <= 7 /\ e.bytes = SP!EncodeSingleFrame(pdu)
                    /\ e.role = "single" /\ state' = "sendingSf"
                 \/ /\ Len(pdu) > 7 /\ e.bytes = SP!EncodeFirstFrame(pdu)
                    /\ e.role = "first" /\ state' = "waitingForFc"
  <2>1. PICK e \in SP!OwedFrames :
              /\ owed' = Append(owed, e)
              /\ e.no = accepted + 1 /\ ~e.sent
              /\ \/ /\ Len(pdu) <= 7 /\ e.bytes = SP!EncodeSingleFrame(pdu)
                    /\ e.role = "single" /\ state' = "sendingSf"
                 \/ /\ Len(pdu) > 7 /\ e.bytes = SP!EncodeFirstFrame(pdu)
                    /\ e.role = "first" /\ state' = "waitingForFc"
    BY <1>20
  <2>2. Len(pdu) \in Nat
    BY LenProperties
  <2>3. PICK p \in Places : p.no = m + 1 /\ p.nth = 0 /\ (p.asks <=> Len(pdu) > 7)
    <3>1. PICK asks \in BOOLEAN : asks <=> Len(pdu) > 7
      OBVIOUS
    <3>2. [no |-> m + 1, nth |-> 0, asks |-> asks] \in Places
      BY DEF Places
    <3>3. QED
      BY <3>1, <3>2
  <2>4. IsOwed(offered', e, p)
    <3>1. p.no \in 1 .. Len(offered') /\ offered'[p.no] = pdu
      BY <1>10, <2>3
    <3>2. /\ Len(pdu) <= 7 => e.bytes = RP!EncodeSingleFrame(pdu) /\ e.role = "single"
          /\ Len(pdu) > 7 => e.bytes = RP!EncodeFirstFrame(pdu) /\ p.asks /\ e.role = "first"
      BY <2>1, <2>2, <2>3, SameEncodings
    <3>3. IsFrame(offered', e.bytes, p)
      BY <2>3, <3>1, <3>2 DEF IsFrame
    <3>4. e.no = p.no /\ e.role \in {"first", "single"} /\ (e.role = "first" => p.asks)
      BY <1>9, <2>1, <2>3
    <3>5. p.nth = 0 /\ Len(offered'[p.no]) > 7 => e.role = "first"
      BY <3>1, <3>2
    <3>6. QED
      BY <2>3, <3>3, <3>4, <3>5 DEF IsOwed
  <2>5. PICK t \in Seq(Places) : t = Append(s, p)
    BY <2>3, AppendedPlaces
  <2>6. Carries(offered', t, toReceiver', owed', skip)
    <3>1. PICK frames \in Seq(CanFrames) : frames = toReceiver
      BY LinkTypes
    <3>2. PICK queue \in Seq(SP!OwedFrames) : queue = owed
      BY LinkTypes
    <3>3. PICK pdus : pdus = offered'
      OBVIOUS
    <3>4. Carries(pdus, s, frames, queue, skip) /\ IsOwed(pdus, e, p)
      BY <1>15, <2>4, <3>1, <3>2, <3>3
    <3>5. Carries(pdus, Append(s, p), frames, Append(queue, e), skip)
      BY <2>1, <2>3, <3>4, CarriesAppended
    <3>6. QED
      BY <1>7, <2>1, <2>5, <3>1, <3>2, <3>3, <3>5
  <2>7. /\ Ordered(t, n, q, m + 1, 0) /\ Led(t, n) /\ LedTo(t, n, m + 1)
    <3>1. Before(m, c, p.no, p.nth)
      BY <2>3 DEF Before
    <3>2. Ordered(s, n, q, m, c)
      BY <1>8, <1>9
    <3>3. p.nth # 0 => LedTo(s, n, p.no)
      BY <2>3
    <3>4. /\ Ordered(Append(s, p), n, q, p.no, p.nth)
          /\ Led(Append(s, p), n)
          /\ p.nth = 0 => LedTo(Append(s, p), n, p.no)
      BY <1>8, <2>3, <3>1, <3>2, <3>3, AppendOrdered
    <3>5. QED
      BY <2>3, <2>5, <3>4
  <2>8. OnTheWay(t, n, q, 0)'
    <3>1. Ordered(t, n, q, accepted', 0) /\ LedTo(t, n, accepted')
      BY <1>6, <1>9, <2>7
    <3>2. QED
      BY <2>6, <2>7, <3>1, Zenon DEF OnTheWay
  <2>9. ASSUME ~Late
        PROVE  InTurn(t, n, 0, k)'
    <3>1. /\ Len(s) \in Nat /\ Len(t) = Len(s) + 1 /\ t[Len(s) + 1] = p
          /\ \A i \in 1 .. Len(s) : t[i] = s[i]
          /\ \A i \in 1 .. Len(t) : i \in 1 .. Len(s) \/ i = Len(s) + 1
      BY <2>5, AppendedPlaces
    <3>2. OnlyLastAsks(t, 0)'
      <4>1. p.asks => state' = "waitingForFc" /\ p.no = accepted' /\ p.nth = 0
        BY <1>6, <1>9, <2>1, <2>2, <2>3
      <4>2. QED
        BY <1>16, <2>9, <3>1, <4>1 DEF OnlyLastAsks
    <3>3. BlockIsKept(t, n, k)'
      <4>1. rState # "idle" => n # p.no
        BY <1>8, <1>10, <2>3 DEF ReceiverAt
      <4>2. PICK end : end = BlockEnd(k)
        OBVIOUS
      <4>3. rState # "idle" /\ BlockSize # 0 =>
              /\ framesInBlock <= k
              /\ \A i \in 1 .. Len(s) :
                   s[i].no = n /\ 7 * s[i].nth <= expectedTotalLength =>
                     /\ s[i].nth <= end
                     /\ s[i].nth = end => s[i].asks \/ 6 + 7 * s[i].nth >= expectedTotalLength
        BY <1>16, <2>9, <4>2 DEF BlockIsKept
      <4>4. rState # "idle" /\ BlockSize # 0 =>
              /\ framesInBlock <= k
              /\ \A i \in 1 .. Len(t) :
                   t[i].no = n /\ 7 * t[i].nth <= expectedTotalLength =>
                     /\ t[i].nth <= end
                     /\ t[i].nth = end => t[i].asks \/ 6 + 7 * t[i].nth >= expectedTotalLength
        BY <3>1, <4>1, <4>3, Zenon
      <4>5. QED
        BY <1>7, <1>18, <4>2, <4>4 DEF BlockIsKept
    <3>4. QED
      BY <1>17, <2>9, <3>2, <3>3 DEF InTurn
  <2>10. LinkAt(t, n, q, 0, k)'
    BY <1>11, <1>12, <1>14, <2>8, <2>9 DEF LinkAt
  <2>11. QED
    BY <2>10, Zenon DEF LinkHolds
<1>21. QED
  BY <1>6, <1>19, <1>20

-----------------------------------------------------------------------------
(* A frame arrives *)

\* What is left after the first frame.
LEMMA LeftAfterFirst ==
  ASSUME NEW s \in Seq(Places), s # <<>>, NEW t \in Seq(Places), Without(t, s, 1)
  PROVE  /\ Len(s) \in Nat \ {0} /\ Len(t) = Len(s) - 1 /\ 1 \in 1 .. Len(s)
         /\ \A i \in 1 .. Len(t) : i + 1 \in 1 .. Len(s) /\ t[i] = s[i + 1]
         /\ Len(s) = 1 => t = <<>>
<1>1. Len(s) \in Nat /\ Len(s) # 0 /\ Len(t) \in Nat
  BY LenProperties, EmptySeq
<1>2. Len(t) = Len(s) - 1 /\ \A i \in 1 .. Len(t) : t[i] = IF i < 1 THEN s[i] ELSE s[i + 1]
  BY DEF Without
<1>3. Len(s) = 1 => t = <<>>
  BY <1>1, <1>2, EmptySeq
<1>4. QED
  BY <1>1, <1>2, <1>3

\* The first frame arrives and the receiver takes its place.
LEMMA LinkTakes ==
  ASSUME Inv, UNCHANGED part,
         NEW s \in Seq(Places), NEW n \in Nat, NEW q \in Nat, NEW c \in Nat, NEW k \in Nat,
         LinkAt(s, n, q, c, k), s # <<>>, NEW t \in Seq(Places), Without(t, s, 1),
         NEW skip \in 0 .. 1, Carries(offered', t, toReceiver', owed', skip),
         UNCHANGED <<senderSide, toSender>>,
         NEW a \in Nat, NEW b \in Nat, a = s[1].no, b = s[1].nth,
         NEW j \in Nat, ReceiverAt(a, b, j)', ~Late => InTurn(t, a, c, j)'
  PROVE  LinkHolds'
<1>1. /\ Ordered(s, n, q, accepted, c) /\ Led(s, n)
      /\ Sends => LedTo(s, n, accepted) /\ SenderAt(c)
  BY DEF LinkAt, OnTheWay
<1>2. SenderAt(c)
  BY DEF LinkAt
<1>3. UNCHANGED <<offered, accepted, pduBuffer, bytesSent, resets, state>>
  BY DEF senderSide, senderVars
<1>4. PICK m \in Nat : m = accepted
  BY LinkTypes
<1>5. /\ ~Before(m, c, a, b)
      /\ Ordered(t, a, b, m, c) /\ Led(t, a)
      /\ \A x \in Nat : LedTo(s, n, x) /\ ~(x < a) => LedTo(t, a, x)
  <2>1. Ordered(s, n, q, m, c)
    BY <1>1, <1>4
  <2>2. /\ ~Before(m, c, s[1].no, s[1].nth)
        /\ Ordered(t, s[1].no, s[1].nth, m, c) /\ Led(t, s[1].no)
        /\ \A x \in Nat : LedTo(s, n, x) /\ ~(x < s[1].no) => LedTo(t, s[1].no, x)
    BY <1>1, <2>1, TakenOrdered
  <2>3. QED
    BY <2>2
<1>6. ~(m < a)
  BY <1>5 DEF Before
<1>7. Sends' => Sends
  BY <1>3, SendsLess
<1>8. OnTheWay(t, a, b, c)'
  <2>1. Sends' => LedTo(t, a, accepted')
    BY <1>1, <1>3, <1>4, <1>5, <1>6, <1>7
  <2>2. Ordered(t, a, b, accepted', c)
    BY <1>3, <1>4, <1>5
  <2>3. QED
    BY <1>5, <2>1, <2>2, Zenon DEF OnTheWay
<1>9. SenderAt(c)'
  BY <1>2, <1>3, SenderStays
<1>10. LinkAt(t, a, b, c, j)'
  <2>1. Late' = Late
    BY DEF Late
  <2>2. QED
    BY <1>8, <1>9, <2>1 DEF LinkAt
<1>11. QED
  BY <1>10, Zenon DEF LinkHolds

\* While frames are on their way to the receiver nothing asks the sender.
LEMMA NoneAsksYet ==
  ASSUME NEW s \in Seq(Places), s # <<>>, NEW n \in Nat, NEW c \in Nat, NEW k \in Nat,
         InTurn(s, n, c, k)
  PROVE  NoneAsks(toSender, rOwed)
BY DEF InTurn, AskedOnce

\* Of the frames behind it still only the last may ask for flow control.
LEMMA OnlyLastAsksOfThem ==
  ASSUME NEW s \in Seq(Places), s # <<>>, NEW t \in Seq(Places), Without(t, s, 1),
         NEW c \in Nat, OnlyLastAsks(s, c), UNCHANGED <<state, accepted>>
  PROVE  OnlyLastAsks(t, c)'
<1>1. /\ Len(s) \in Nat \ {0} /\ Len(t) = Len(s) - 1
      /\ \A i \in 1 .. Len(t) : i + 1 \in 1 .. Len(s) /\ t[i] = s[i + 1]
  BY LeftAfterFirst
<1>2. QED
  BY <1>1 DEF OnlyLastAsks

\* The frame arrives at a receiver that then is idle.
LEMMA InTurnEnds ==
  ASSUME NEW s \in Seq(Places), s # <<>>, NEW t \in Seq(Places), Without(t, s, 1),
         NEW n \in Nat, NEW c \in Nat, NEW k \in Nat, InTurn(s, n, c, k),
         UNCHANGED <<senderSide, toSender, rOwed>>, rState' = "idle",
         NEW a \in Nat, NEW j \in Nat
  PROVE  InTurn(t, a, c, j)'
<1>1. UNCHANGED <<state, accepted, blockSize, blocksRemaining, bytesSent, pduBuffer>>
  BY DEF senderSide, senderVars
<1>2. OnlyLastAsks(t, c)'
  BY <1>1, OnlyLastAsksOfThem DEF InTurn
<1>3. AskedOnce(t, a, c, j)'
  <2>1. NoneAsks(toSender, rOwed)
    BY NoneAsksYet
  <2>2. QED
    BY <2>1 DEF AskedOnce, NoneAsks
<1>4. BlockIsTheirs(a, c, j)'
  BY <1>1 DEF InTurn, BlockIsTheirs
<1>5. BlockIsKept(t, a, j)'
  BY DEF BlockIsKept
<1>6. QED
  BY <1>2, <1>3, <1>4, <1>5 DEF InTurn

\* The frame that asks for flow control arrives.
LEMMA InTurnAsks ==
  ASSUME NEW s \in Seq(Places), s # <<>>, NEW t \in Seq(Places), Without(t, s, 1),
         NEW n \in Nat, NEW c \in Nat, NEW k \in Nat, InTurn(s, n, c, k), Inv,
         s[1].asks, RP!AsksForMore, rState' # "idle", framesInBlock' = 0,
         UNCHANGED <<senderSide, toSender>>
  PROVE  /\ s[1].no = accepted /\ s[1].nth = c
         /\ InTurn(t, s[1].no, c, c)'
<1>1. /\ Len(s) \in Nat \ {0} /\ 1 \in 1 .. Len(s)
      /\ Len(s) = 1 => t = <<>>
  BY LeftAfterFirst
<1>2. /\ state = "waitingForFc" /\ Len(s) = 1
      /\ s[1].no = accepted /\ s[1].nth = c
  BY <1>1 DEF InTurn, OnlyLastAsks
<1>3. UNCHANGED <<state, accepted>>
  BY DEF senderSide, senderVars
<1>4. t = <<>>
  BY <1>1, <1>2
<1>5. toSender = <<>> /\ \A i \in 1 .. Len(rOwed) : rOwed[i].sent
  BY NoneAsksYet DEF NoneAsks
<1>6. PICK e \in RP!OwedFrames : rOwed' = Append(rOwed, e) /\ e.bytes = GoOn
  BY DEF RP!AsksForMore, RP!AsksToGoOn, GoOn
<1>7. PICK y : y = Len(rOwed) + 1
  OBVIOUS
<1>8. /\ y \in 1 .. Len(rOwed') /\ rOwed'[y] = e
      /\ \A i \in 1 .. Len(rOwed') : i # y => rOwed'[i].sent
  <2>1. rOwed \in Seq(RP!OwedFrames) /\ Len(rOwed) \in Nat
    BY LinkTypes, LenProperties
  <2>2. /\ Len(rOwed') = Len(rOwed) + 1 /\ rOwed'[Len(rOwed) + 1] = e
        /\ \A i \in 1 .. Len(rOwed) : rOwed'[i] = rOwed[i]
    BY <1>6, <2>1, AppendProperties
  <2>3. y \in 1 .. Len(rOwed') /\ rOwed'[y] = e
    BY <1>7, <2>1, <2>2
  <2>4. \A i \in 1 .. Len(rOwed') : i # y => i \in 1 .. Len(rOwed)
    BY <1>7, <2>1, <2>2
  <2>5. \A i \in 1 .. Len(rOwed') : i # y => rOwed'[i].sent
    BY <1>5, <2>2, <2>4
  <2>6. QED
    BY <2>3, <2>5
<1>9. OneAsks(toSender, rOwed)'
  <2>1. rOwed'[y].bytes = GoOn' /\ toSender' = <<>>
    BY <1>5, <1>6, <1>8 DEF GoOn
  <2>2. QED
    BY <1>8, <2>1, Zenon DEF OneAsks
<1>10. PICK a : a = s[1].no
  OBVIOUS
<1>11. AskedOnce(t, a, c, c)'
  BY <1>2, <1>3, <1>4, <1>9, <1>10 DEF AskedOnce
<1>12. OnlyLastAsks(t, c)'
  BY <1>4 DEF OnlyLastAsks
<1>13. BlockIsTheirs(a, c, c)'
  BY <1>2, <1>3 DEF BlockIsTheirs
<1>14. BlockIsKept(t, a, c)'
  BY <1>4 DEF BlockIsKept
<1>15. InTurn(t, a, c, c)'
  BY <1>11, <1>12, <1>13, <1>14 DEF InTurn
<1>16. QED
  BY <1>2, <1>10, <1>15

\* The step of what segmentation promises.
DeliversOne ==
  \E no \in 1 .. Len(offered) :
    /\ no > LastDelivered
    /\ delivered' = Append(delivered, offered[no])
    /\ LastDelivered' = no

\* The receiver is idle after a frame that brings nothing to deliver,
LEMMA EndsAt ==
  ASSUME NEW n \in Nat, NEW q \in Nat, NEW k \in Nat, ReceiverAt(n, q, k),
         rState' = "idle", UNCHANGED <<offered, delivered>>,
         NEW a \in Nat, NEW b \in Nat, n <= a
  PROVE  ReceiverAt(a, b, 0)'
<1>1. LastDelivered' = LastDelivered
  BY DEF LastDelivered
<1>2. QED
  BY <1>1 DEF ReceiverAt

\* or after one with which a PDU sent later than all delivered is delivered.
LEMMA DeliversAt ==
  ASSUME NEW n \in Nat, NEW q \in Nat, NEW k \in Nat, ReceiverAt(n, q, k),
         NEW c \in Nat, SenderAt(c),
         rState' = "idle", UNCHANGED offered,
         NEW a \in Nat, NEW b \in Nat, a \in 1 .. Len(offered), LastDelivered < a,
         delivered' = Append(delivered, offered[a])
  PROVE  ReceiverAt(a, b, 0)' /\ DeliversOne
<1>1. /\ delivered \in Seq(Seq(Bytes)) /\ LastDelivered \in Nat
      /\ offered \in Seq(Seq(Bytes)) /\ PduSent(offered[a], a)
  BY DEF ReceiverAt, SenderAt
<1>2. PICK pdu \in Seq(Bytes) : pdu = offered[a]
  BY <1>1, ElementOfSeq
<1>3. /\ delivered' \in Seq(Seq(Bytes)) /\ delivered' # <<>>
      /\ delivered'[Len(delivered')] = pdu
  BY <1>1, <1>2, AppendProperties
<1>4. NumberOf(pdu[Len(pdu)]) = a
  BY <1>1, <1>2 DEF PduSent
<1>5. LastDelivered' = a
  BY <1>3, <1>4 DEF LastDelivered
<1>6. ReceiverAt(a, b, 0)'
  BY <1>3, <1>5 DEF ReceiverAt
<1>7. QED
  BY <1>5, <1>6 DEF DeliversOne

\* A single frame.
LEMMA SingleTaken ==
  ASSUME Inv, NEW n \in Nat, NEW q \in Nat, NEW k \in Nat, ReceiverAt(n, q, k),
         NEW c \in Nat, SenderAt(c), UNCHANGED offered,
         NEW a \in 1 .. Len(offered), Len(offered[a]) <= 7, a \in Nat, n < a,
         NEW frame, frame = RP!EncodeSingleFrame(offered[a]),
         \/ RP!ProcessFrame(frame)
         \/ RP!Ignores(frame) /\ UNCHANGED receiverVars
  PROVE  /\ ReceiverAt(a, 0, 0)' /\ rState' = "idle" /\ UNCHANGED rOwed
         /\ UNCHANGED delivered \/ DeliversOne
<1>1. offered \in Seq(Seq(Bytes)) /\ PduSent(offered[a], a) /\ LastDelivered \in Nat /\ LastDelivered <= n
  BY DEF ReceiverAt, SenderAt
<1>2. PICK pdu \in Seq(Bytes) : pdu = offered[a]
  BY <1>1, ElementOfSeq
<1>3. Len(pdu) \in 1 .. 7 /\ pdu \in Seq(RP!Byte)
  <2>1. pdu \in Seq(RP!Byte)
    BY DEF RP!Byte, Bytes
  <2>2. PICK len \in Nat : len = Len(pdu)
    BY LenProperties
  <2>3. len > 0 /\ len <= 7
    BY <1>1, <1>2, <2>2 DEF PduSent
  <2>4. len \in 1 .. 7
    <3>1. \A l \in Nat : l > 0 /\ l <= 7 => l \in 1 .. 7
      OBVIOUS
    <3>2. QED
      BY <2>2, <2>3, <3>1, Zenon
  <2>5. Len(pdu) \in 1 .. 7
    BY <2>2, <2>4
  <2>6. QED
    BY <2>1, <2>5, Zenon
<1>4. /\ ~RP!Ignores(RP!EncodeSingleFrame(pdu))
      /\ RP!ProcessFrame(RP!EncodeSingleFrame(pdu)) =>
           /\ rState' = "idle" /\ UNCHANGED rOwed
           /\ UNCHANGED delivered \/ delivered' = Append(delivered, pdu)
  <2>1. PICK len \in 1 .. 7 : Len(pdu) = len
    BY <1>3
  <2>2. QED
    BY <1>3, <2>1, RP!SingleFrameArrives
<1>5. /\ rState' = "idle" /\ UNCHANGED rOwed
      /\ UNCHANGED delivered \/ delivered' = Append(delivered, offered[a])
  BY <1>2, <1>4
<1>6. CASE UNCHANGED delivered
  <2>1. ReceiverAt(a, 0, 0)'
    BY <1>5, <1>6, EndsAt
  <2>2. QED
    BY <1>5, <1>6, <2>1
<1>7. CASE delivered' = Append(delivered, offered[a])
  <2>1. LastDelivered < a
    BY <1>1
  <2>2. ReceiverAt(a, 0, 0)' /\ DeliversOne
    BY <1>5, <1>7, <2>1, DeliversAt
  <2>3. QED
    BY <1>5, <2>2
<1>8. QED
  BY <1>5, <1>6, <1>7, Zenon

\* A first frame.
LEMMA FirstTaken ==
  ASSUME Inv, NEW n \in Nat, NEW q \in Nat, NEW k \in Nat, ReceiverAt(n, q, k),
         NEW c \in Nat, SenderAt(c), UNCHANGED offered,
         NEW a \in 1 .. Len(offered), Len(offered[a]) > 7, a \in Nat, n < a,
         NEW frame, frame = RP!EncodeFirstFrame(offered[a]),
         \/ RP!ProcessFrame(frame)
         \/ RP!Ignores(frame) /\ UNCHANGED receiverVars
  PROVE  /\ ReceiverAt(a, 0, 0)' /\ UNCHANGED delivered
         /\ \/ rState' = "idle" /\ UNCHANGED rOwed
            \/ rState' # "idle" /\ framesInBlock' = 0 /\ RP!AsksForMore
<1>1. offered \in Seq(Seq(Bytes)) /\ PduSent(offered[a], a) /\ LastDelivered \in Nat /\ LastDelivered <= n
  BY DEF ReceiverAt, SenderAt
<1>2. PICK pdu \in Seq(Bytes) : pdu = offered[a]
  BY <1>1, ElementOfSeq
<1>3. Len(pdu) \in RP!LongLengths /\ Len(pdu) <= MaxPduSize /\ pdu \in Seq(RP!Byte)
  BY <1>1, <1>2 DEF PduSent, RP!Byte, Bytes
<1>4. /\ ~RP!Ignores(RP!EncodeFirstFrame(pdu))
      /\ RP!ProcessFrame(RP!EncodeFirstFrame(pdu)) => RP!EndsShort \/ RP!Begins(pdu)
  <2>1. RP!ReceiverAssumption /\ RP!IInv
    BY PartsMayBeUsed DEF Inv
  <2>2. PICK len \in RP!LongLengths : Len(pdu) = len
    BY <1>3
  <2>3. QED
    BY <1>3, <2>1, <2>2, RP!FirstFrameArrives
<1>5. CASE RP!EndsShort
  <2>1. rState' = "idle" /\ UNCHANGED delivered /\ UNCHANGED rOwed
    BY <1>5 DEF RP!EndsShort
  <2>2. ReceiverAt(a, 0, 0)'
    BY <2>1, EndsAt
  <2>3. QED
    BY <2>1, <2>2
<1>6. CASE RP!Begins(pdu)
  <2>1. /\ rState' = "receivingCf" /\ UNCHANGED delivered
        /\ expectedTotalLength' = Len(pdu) /\ framesInBlock' = 0
        /\ Len(assemblyBuffer') = 6
        /\ \A i \in 1 .. 6 : assemblyBuffer'[i] = pdu[i]
        /\ RP!AsksForMore
    BY <1>6 DEF RP!Begins
  <2>2. LastDelivered' = LastDelivered /\ delivered' \in Seq(Seq(Bytes))
    BY <2>1 DEF LastDelivered, ReceiverAt
  <2>3. ReceiverAt(a, 0, 0)'
    BY <1>1, <1>2, <2>1, <2>2 DEF ReceiverAt
  <2>4. QED
    BY <2>1, <2>3
<1>7. QED
  BY <1>2, <1>4, <1>5, <1>6, Zenon

\* How much of a PDU is left for its b-th consecutive frame.
LEMMA RestOf ==
  ASSUME NEW pdu \in Seq(Bytes), NEW b \in Nat \ {0}
  PROVE  LET rest == SubSeq(pdu, 7 * b, Len(pdu))
         IN /\ rest \in Seq(Bytes) /\ Len(pdu) \in Nat
            /\ 7 * b > Len(pdu) => Len(rest) = 0
            /\ 7 * b <= Len(pdu) => Len(rest) = Len(pdu) - (7 * b) + 1
            /\ \A i \in 1 .. Len(rest) : rest[i] = pdu[(7 * b) + i - 1]
<1>1. PICK x \in Nat : x = 7 * b
  OBVIOUS
<1>2. PICK l \in Nat : l = Len(pdu)
  BY LenProperties
<1>3. x > 0
  BY <1>1
<1>4. \A i \in x .. l : pdu[i] \in Bytes
  BY <1>2, <1>3, ElementOfSeq
<1>5. PICK rest : rest = SubSeq(pdu, x, l)
  OBVIOUS
<1>6. /\ rest \in Seq(Bytes)
      /\ Len(rest) = IF x <= l THEN l - x + 1 ELSE 0
      /\ \A i \in 1 .. l - x + 1 : rest[i] = pdu[x + i - 1]
  BY <1>3, <1>4, <1>5, SubSeqProperties
<1>7. \A i \in 1 .. Len(rest) : rest[i] = pdu[x + i - 1]
  BY <1>6
<1>8. rest = SubSeq(pdu, 7 * b, Len(pdu))
  BY <1>1, <1>2, <1>5
<1>9. 7 * b > Len(pdu) => Len(rest) = 0
  <2>1. 7 * b > Len(pdu) => ~(x <= l)
    BY <1>1, <1>2
  <2>2. QED
    BY <1>6, <2>1
<1>10. 7 * b <= Len(pdu) => Len(rest) = Len(pdu) - (7 * b) + 1
  <2>1. 7 * b <= Len(pdu) => x <= l
    BY <1>1, <1>2
  <2>2. l - x + 1 = Len(pdu) - (7 * b) + 1
    BY <1>1, <1>2
  <2>3. QED
    BY <1>6, <2>1, <2>2
<1>11. \A i \in 1 .. Len(rest) : rest[i] = pdu[(7 * b) + i - 1]
  BY <1>1, <1>7
<1>12. rest \in Seq(Bytes) /\ Len(pdu) \in Nat
  BY <1>2, <1>6
<1>13. QED
  BY <1>8, <1>9, <1>10, <1>11, <1>12, Zenon

\* The last bytes of a PDU that lacks nothing make it whole.
LEMMA CompletesAt ==
  ASSUME Inv, NEW n \in Nat, NEW q \in Nat, NEW k \in Nat, ReceiverAt(n, q, k),
         NEW c \in Nat, SenderAt(c), UNCHANGED offered,
         NEW b \in Nat, q < b,
         RP!CompletesWith(SubSeq(offered[n], 7 * b, Len(offered[n])))
  PROVE  ReceiverAt(n, b, 0)' /\ rState' = "idle" /\ UNCHANGED rOwed /\ DeliversOne
<1>1. /\ n \in 1 .. Len(offered) /\ LastDelivered < n
      /\ expectedTotalLength = Len(offered[n])
      /\ Len(assemblyBuffer) = 6 + 7 * k /\ k <= q
      /\ k = q => \A i \in 1 .. 6 + 7 * k : assemblyBuffer[i] = offered[n][i]
  BY DEF RP!CompletesWith, RP!Receiving, ReceiverAt
<1>2. Len(assemblyBuffer) < expectedTotalLength
  BY LinkTypes DEF RP!CompletesWith, RP!Receiving
<1>3. PICK pdu \in Seq(Bytes) : pdu = offered[n]
  BY <1>1, ElementOfSeq DEF SenderAt
<1>4. PICK rest : rest = SubSeq(pdu, 7 * b, Len(pdu))
  OBVIOUS
<1>5. /\ Len(pdu) \in Nat
      /\ 7 * b > Len(pdu) => Len(rest) = 0
      /\ 7 * b <= Len(pdu) => Len(rest) = Len(pdu) - (7 * b) + 1
      /\ \A i \in 1 .. Len(rest) : rest[i] = pdu[(7 * b) + i - 1]
  <2>1. b \in Nat \ {0}
    OBVIOUS
  <2>2. QED
    BY <1>4, <2>1, RestOf
<1>6. /\ expectedTotalLength - Len(assemblyBuffer) <= 7
      /\ expectedTotalLength - Len(assemblyBuffer) <= Len(rest)
      /\ rState' = "idle" /\ UNCHANGED rOwed
      /\ \E buffer \in Seq(RP!Byte) :
           /\ delivered' = Append(delivered, buffer)
           /\ Len(buffer) = expectedTotalLength
           /\ \A i \in 1 .. Len(assemblyBuffer) : buffer[i] = assemblyBuffer[i]
           /\ \A i \in 1 .. expectedTotalLength - Len(assemblyBuffer) :
                buffer[Len(assemblyBuffer) + i] = rest[i]
  BY <1>3, <1>4 DEF RP!CompletesWith
<1>7. PICK buffer \in Seq(RP!Byte) :
        /\ delivered' = Append(delivered, buffer)
        /\ Len(buffer) = expectedTotalLength
        /\ \A i \in 1 .. Len(assemblyBuffer) : buffer[i] = assemblyBuffer[i]
        /\ \A i \in 1 .. expectedTotalLength - Len(assemblyBuffer) :
             buffer[Len(assemblyBuffer) + i] = rest[i]
  BY <1>6
<1>8. PICK l \in Nat : l = Len(pdu)
  BY <1>5
<1>9. b = k + 1 /\ k = q
  <2>1. l - (6 + 7 * k) <= Len(rest) /\ 6 + 7 * k < l
    BY <1>1, <1>2, <1>3, <1>6, <1>8
  <2>2. 7 * b <= l
    BY <1>5, <1>8, <2>1
  <2>3. l - (6 + 7 * k) <= l - 7 * b + 1
    BY <1>5, <1>8, <2>1, <2>2
  <2>4. b <= k + 1
    BY <2>3
  <2>5. QED
    BY <1>1, <2>4
<1>10. buffer = pdu
  <2>1. Len(buffer) = l
    BY <1>1, <1>3, <1>7, <1>8
  <2>2. ASSUME NEW i \in 1 .. l
        PROVE  buffer[i] = pdu[i]
    <3>1. CASE i <= 6 + 7 * k
      BY <1>1, <1>3, <1>7, <1>9, <2>2, <3>1
    <3>2. CASE i > 6 + 7 * k
      <4>1. PICK j : j = i - (6 + 7 * k)
        OBVIOUS
      <4>2. j \in 1 .. l - (6 + 7 * k) /\ i = 6 + 7 * k + j
        BY <3>2, <4>1
      <4>3. buffer[i] = rest[j]
        BY <1>1, <1>3, <1>7, <1>8, <4>2
      <4>4. j \in 1 .. Len(rest)
        <5>1. Len(rest) = l - 7 * b + 1 \/ Len(rest) = 0
          BY <1>5, <1>8
        <5>2. l - (6 + 7 * k) <= Len(rest)
          BY <1>1, <1>3, <1>6, <1>8
        <5>3. QED
          BY <4>2, <5>1, <5>2
      <4>5. rest[j] = pdu[(7 * b) + j - 1]
        BY <1>5, <4>4
      <4>6. (7 * b) + j - 1 = i
        BY <1>9, <4>2
      <4>7. QED
        BY <4>3, <4>5, <4>6
    <3>3. QED
      BY <3>1, <3>2
  <2>3. pdu \in Seq(RP!Byte)
    BY DEF RP!Byte, Bytes
  <2>4. \A i \in 1 .. Len(buffer) : buffer[i] = pdu[i]
    BY <2>1, <2>2
  <2>5. QED
    BY <1>8, <2>1, <2>3, <2>4, RP!SameSequence
<1>11. delivered' = Append(delivered, offered[n])
  BY <1>3, <1>7, <1>10
<1>12. ReceiverAt(n, b, 0)' /\ DeliversOne
  BY <1>1, <1>6, <1>11, DeliversAt
<1>13. QED
  BY <1>6, <1>12

\* Seven more bytes of a PDU.
LEMMA GoesOnAt ==
  ASSUME Inv, NEW n \in Nat, NEW q \in Nat, NEW k \in Nat, ReceiverAt(n, q, k),
         NEW c \in Nat, SenderAt(c), UNCHANGED offered,
         NEW b \in Nat, q < b,
         RP!GoesOnWith(SubSeq(offered[n], 7 * b, Len(offered[n])))
  PROVE  /\ ReceiverAt(n, b, k + 1)' /\ UNCHANGED <<delivered, expectedTotalLength>>
         /\ rState # "idle" /\ rState' # "idle"
         /\ 7 * b <= expectedTotalLength /\ 6 + 7 * (k + 1) < expectedTotalLength
         /\ k < b
         /\ \/ /\ BlockSize # 0 => framesInBlock' = framesInBlock + 1
               /\ UNCHANGED rOwed
            \/ /\ BlockSize # 0 /\ framesInBlock + 1 = BlockSize /\ framesInBlock' = 0
               /\ RP!AsksForMore
<1>1. /\ n \in 1 .. Len(offered) /\ LastDelivered < n /\ LastDelivered \in Nat
      /\ Len(offered[n]) > 7 /\ rState # "idle"
      /\ expectedTotalLength = Len(offered[n])
      /\ Len(assemblyBuffer) = 6 + 7 * k /\ k <= q
      /\ k = q => \A i \in 1 .. 6 + 7 * k : assemblyBuffer[i] = offered[n][i]
  BY DEF RP!GoesOnWith, RP!Receiving, ReceiverAt
<1>2. PICK pdu \in Seq(Bytes) : pdu = offered[n]
  BY <1>1, ElementOfSeq DEF SenderAt
<1>3. PICK rest : rest = SubSeq(pdu, 7 * b, Len(pdu))
  OBVIOUS
<1>4. /\ Len(pdu) \in Nat
      /\ 7 * b > Len(pdu) => Len(rest) = 0
      /\ 7 * b <= Len(pdu) => Len(rest) = Len(pdu) - (7 * b) + 1
      /\ \A i \in 1 .. Len(rest) : rest[i] = pdu[(7 * b) + i - 1]
  <2>1. b \in Nat \ {0}
    OBVIOUS
  <2>2. QED
    BY <1>3, <2>1, RestOf
<1>5. /\ expectedTotalLength - Len(assemblyBuffer) > 7 /\ Len(rest) >= 7
      /\ rState' = "receivingCf" /\ UNCHANGED <<delivered, expectedTotalLength>>
      /\ Len(assemblyBuffer') = Len(assemblyBuffer) + 7
      /\ \A i \in 1 .. Len(assemblyBuffer) : assemblyBuffer'[i] = assemblyBuffer[i]
      /\ \A i \in 1 .. 7 : assemblyBuffer'[Len(assemblyBuffer) + i] = rest[i]
  BY <1>2, <1>3 DEF RP!GoesOnWith
<1>6. \/ /\ BlockSize # 0 => framesInBlock' = framesInBlock + 1
         /\ UNCHANGED rOwed
      \/ /\ BlockSize # 0 /\ framesInBlock + 1 = BlockSize /\ framesInBlock' = 0
         /\ RP!AsksForMore
  BY DEF RP!GoesOnWith
<1>7. PICK l \in Nat : l = Len(pdu)
  BY <1>4
<1>8. 7 * b <= l /\ 6 + 7 * (k + 1) < l /\ expectedTotalLength = l
  <2>1. expectedTotalLength = l /\ l - (6 + 7 * k) > 7
    BY <1>1, <1>2, <1>5, <1>7
  <2>2. Len(rest) >= 7 /\ (7 * b > Len(pdu) => Len(rest) = 0)
    BY <1>4, <1>5
  <2>3. 7 * b <= l
    BY <1>7, <2>2
  <2>4. QED
    BY <2>1, <2>3
<1>9. ASSUME k + 1 = b, NEW i \in 1 .. 6 + 7 * (k + 1)
      PROVE  assemblyBuffer'[i] = offered[n][i]
  <2>1. k = q
    BY <1>1, <1>9
  <2>2. CASE i <= 6 + 7 * k
    <3>1. i \in 1 .. 6 + 7 * k
      BY <1>9, <2>2
    <3>2. assemblyBuffer[i] = offered[n][i]
      BY <1>1, <2>1, <3>1
    <3>3. assemblyBuffer'[i] = assemblyBuffer[i]
      BY <1>1, <1>5, <3>1
    <3>4. QED
      BY <3>2, <3>3
  <2>3. CASE i > 6 + 7 * k
    <3>1. PICK j : j = i - (6 + 7 * k)
      OBVIOUS
    <3>2. j \in 1 .. 7 /\ i = 6 + 7 * k + j
      BY <1>9, <2>3, <3>1
    <3>3. assemblyBuffer'[i] = rest[j]
      BY <1>1, <1>5, <3>2
    <3>4. j \in 1 .. Len(rest)
      <4>1. Len(rest) = l - 7 * b + 1 /\ Len(rest) >= 7
        BY <1>4, <1>5, <1>7, <1>8
      <4>2. QED
        BY <3>2, <4>1
    <3>5. rest[j] = pdu[(7 * b) + j - 1]
      BY <1>4, <3>4
    <3>6. (7 * b) + j - 1 = i
      BY <1>9, <3>2
    <3>7. QED
      BY <1>2, <3>3, <3>5, <3>6
  <2>4. QED
    BY <1>9, <2>2, <2>3
<1>10. ReceiverAt(n, b, k + 1)'
  <2>1. LastDelivered' = LastDelivered /\ delivered' \in Seq(Seq(Bytes)) /\ LastDelivered <= n
    BY <1>5 DEF LastDelivered, ReceiverAt
  <2>2. Len(assemblyBuffer') = 6 + 7 * (k + 1) /\ k + 1 <= b
    BY <1>1, <1>5
  <2>3. expectedTotalLength' = Len(offered'[n])
    BY <1>1, <1>5
  <2>4. k + 1 = b => \A i \in 1 .. 6 + 7 * (k + 1) : assemblyBuffer'[i] = offered'[n][i]
    BY <1>9
  <2>5. n \in 1 .. Len(offered') /\ Len(offered'[n]) > 7 /\ LastDelivered' \in Nat /\ LastDelivered' < n
    BY <1>1, <2>1
  <2>6. QED
    BY <2>1, <2>2, <2>3, <2>4, <2>5 DEF ReceiverAt
<1>11. rState # "idle" /\ rState' # "idle" /\ k < b /\ UNCHANGED <<delivered, expectedTotalLength>>
  BY <1>1, <1>5
<1>12. QED
  BY <1>6, <1>8, <1>10, <1>11

\* The link's receiver ignores the same frames as the one that was proved about.
LEMMA SameIgnored == \A frame : R!Ignores(frame) <=> RP!Ignores(frame)
BY DEF R!Ignores, RP!Ignores, R!TakesSingleFrame, RP!TakesSingleFrame, R!TakesFirstFrame,
       RP!TakesFirstFrame, R!TakesConsecutiveFrame, RP!TakesConsecutiveFrame, R!Receiving, RP!Receiving,
       R!DecodeFrameType, RP!DecodeFrameType, R!Fits, RP!Fits,
       R!DecodeSingleFrameLength, RP!DecodeSingleFrameLength,
       R!DecodeFirstFrameTotalLength, RP!DecodeFirstFrameTotalLength,
       R!HasConsecutiveFrameLength, RP!HasConsecutiveFrameLength,
       R!sfMaxPayloadBytes, RP!sfMaxPayloadBytes, R!cfMaxDataBytes, RP!cfMaxDataBytes

\* A frame that is not the last of its block arrives.
LEMMA InTurnGoesOn ==
  ASSUME Inv, NEW s \in Seq(Places), s # <<>>, NEW t \in Seq(Places), Without(t, s, 1),
         NEW n \in Nat, NEW c \in Nat, NEW k \in Nat, InTurn(s, n, c, k),
         UNCHANGED <<senderSide, toSender, rOwed, expectedTotalLength>>,
         rState # "idle", BlockSize # 0 => framesInBlock' = framesInBlock + 1
  PROVE  InTurn(t, n, c, k + 1)'
<1>1. UNCHANGED <<state, accepted, blockSize, blocksRemaining, bytesSent, pduBuffer>>
  BY DEF senderSide, senderVars
<1>2. OnlyLastAsks(t, c)'
  BY <1>1, OnlyLastAsksOfThem DEF InTurn
<1>3. AskedOnce(t, n, c, k + 1)'
  <2>1. NoneAsks(toSender, rOwed)
    BY NoneAsksYet
  <2>2. QED
    BY <2>1 DEF AskedOnce, NoneAsks
<1>4. PICK f \in Nat : f = framesInBlock
  BY LinkTypes
<1>5. PICK z \in Nat : z = BlockSize
  BY BlockSizeIsNumber
<1>6. z # 0 => framesInBlock' = f + 1
  BY <1>4, <1>5
<1>7. z # 0 => k + 1 - framesInBlock' + z = k - f + z
  BY <1>6
<1>8. z # 0 => BlockEnd(k + 1)' = BlockEnd(k)
  BY <1>4, <1>5, <1>7 DEF BlockEnd
<1>9. BlockIsTheirs(n, c, k + 1)'
  <2>1. BlockIsTheirs(n, c, k)
    BY DEF InTurn
  <2>2. QED
    BY <1>1, <1>5, <1>8, <2>1, Zenon DEF BlockIsTheirs
<1>10. BlockIsKept(t, n, k + 1)'
  <2>1. ASSUME z # 0
        PROVE  /\ f <= k
               /\ \A i \in 1 .. Len(s) :
                    s[i].no = n /\ 7 * s[i].nth <= expectedTotalLength =>
                      /\ s[i].nth <= BlockEnd(k)
                      /\ s[i].nth = BlockEnd(k) =>
                           s[i].asks \/ 6 + 7 * s[i].nth >= expectedTotalLength
    BY <1>4, <1>5, <2>1 DEF InTurn, BlockIsKept
  <2>2. z # 0 => framesInBlock' <= k + 1
    BY <1>6, <2>1
  <2>3. \A i \in 1 .. Len(t) : i + 1 \in 1 .. Len(s) /\ t[i] = s[i + 1]
    BY LeftAfterFirst
  <2>4. ASSUME z # 0, NEW i \in 1 .. Len(t)
        PROVE  t[i].no = n /\ 7 * t[i].nth <= expectedTotalLength' =>
                 /\ t[i].nth <= BlockEnd(k + 1)'
                 /\ t[i].nth = BlockEnd(k + 1)' =>
                      t[i].asks \/ 6 + 7 * t[i].nth >= expectedTotalLength'
    <3>1. BlockEnd(k + 1)' = BlockEnd(k) /\ expectedTotalLength' = expectedTotalLength
      BY <1>8, <2>4
    <3>2. QED
      BY <2>1, <2>3, <2>4, <3>1
  <2>5. QED
    BY <1>5, <2>2, <2>4 DEF BlockIsKept
<1>11. QED
  BY <1>2, <1>3, <1>9, <1>10 DEF InTurn

\* The last of its block arrives: it is the one that asks for flow control.
LEMMA BlockEndAsks ==
  ASSUME NEW s \in Seq(Places), s # <<>>,
         NEW n \in Nat, NEW c \in Nat, NEW k \in Nat, InTurn(s, n, c, k),
         rState # "idle", BlockSize # 0, framesInBlock \in Nat, framesInBlock + 1 = BlockSize,
         NEW b \in Nat, s[1].no = n, s[1].nth = b, k < b,
         NEW l \in Nat, l = expectedTotalLength, 7 * b <= l, 6 + 7 * (k + 1) < l
  PROVE  s[1].asks /\ b = k + 1
<1>1. 1 \in 1 .. Len(s)
  BY LenProperties, EmptySeq
<1>2. BlockEnd(k) = k + 1
  BY DEF BlockEnd
<1>3. /\ b <= k + 1
      /\ b = k + 1 => s[1].asks \/ 6 + 7 * b >= l
  <2>1. BlockIsKept(s, n, k)
    BY DEF InTurn
  <2>2. /\ s[1].nth <= BlockEnd(k)
        /\ s[1].nth = BlockEnd(k) => s[1].asks \/ 6 + 7 * s[1].nth >= expectedTotalLength
    BY <1>1, <2>1 DEF BlockIsKept
  <2>3. QED
    BY <1>2, <2>2
<1>4. b = k + 1
  BY <1>3
<1>5. ~(6 + 7 * b >= l)
  BY <1>4
<1>6. QED
  BY <1>3, <1>4, <1>5

\* A consecutive frame arrives.
LEMMA LaterTaken ==
  ASSUME Inv, UNCHANGED part,
         NEW s \in Seq(Places), NEW n \in Nat, NEW q \in Nat, NEW c \in Nat, NEW k \in Nat,
         LinkAt(s, n, q, c, k), s # <<>>, NEW t \in Seq(Places), Without(t, s, 1),
         UNCHANGED <<senderSide, toSender>>,
         NEW b \in Nat, s[1].no = n, s[1].nth = b, q < b,
         NEW rest, rest = SubSeq(offered[n], 7 * b, Len(offered[n])),
         RP!KeepsAll \/ RP!EndsShort \/ RP!CompletesWith(rest) \/ RP!GoesOnWith(rest)
  PROVE  /\ UNCHANGED delivered \/ DeliversOne
         /\ \E j \in Nat : ReceiverAt(n, b, j)' /\ (~Late => InTurn(t, n, c, j)')
<1>1. /\ ReceiverAt(n, q, k) /\ SenderAt(c)
      /\ ~Late => InTurn(s, n, c, k)
  BY DEF LinkAt
<1>2. UNCHANGED <<offered, accepted, pduBuffer, bytesSent, resets, state, blockSize, blocksRemaining>>
  BY DEF senderSide, senderVars
<1>3. CASE RP!KeepsAll
  <2>1. UNCHANGED <<rState, assemblyBuffer, expectedTotalLength, framesInBlock, delivered, rOwed>>
    BY <1>3 DEF RP!KeepsAll
  <2>2. ReceiverAt(n, b, k)'
    <3>1. LastDelivered' = LastDelivered
      BY <2>1 DEF LastDelivered
    <3>2. k <= q => k <= b /\ k # b
      OBVIOUS
    <3>3. QED
      BY <1>1, <1>2, <2>1, <3>1, <3>2 DEF ReceiverAt
  <2>3. ~Late => InTurn(t, n, c, k)'
    <3>1. 1 \in 1 .. Len(s)
      BY LenProperties, EmptySeq
    <3>2. QED
      BY <1>1, <1>2, <2>1, <3>1, InTurnWithout
  <2>4. QED
    BY <2>1, <2>2, <2>3
<1>4. CASE RP!EndsShort
  <2>1. rState' = "idle" /\ UNCHANGED <<delivered, rOwed>>
    BY <1>4 DEF RP!EndsShort
  <2>2. ReceiverAt(n, b, 0)'
    BY <1>1, <1>2, <2>1, EndsAt
  <2>3. ~Late => InTurn(t, n, c, 0)'
    BY <1>1, <2>1, InTurnEnds
  <2>4. QED
    BY <2>1, <2>2, <2>3
<1>5. CASE RP!CompletesWith(rest)
  <2>1. ReceiverAt(n, b, 0)' /\ rState' = "idle" /\ UNCHANGED rOwed /\ DeliversOne
    BY <1>1, <1>2, <1>5, CompletesAt
  <2>2. ~Late => InTurn(t, n, c, 0)'
    BY <1>1, <2>1, InTurnEnds
  <2>3. QED
    BY <2>1, <2>2
<1>6. CASE RP!GoesOnWith(rest)
  <2>1. /\ ReceiverAt(n, b, k + 1)' /\ UNCHANGED <<delivered, expectedTotalLength>>
        /\ rState # "idle" /\ rState' # "idle"
        /\ 7 * b <= expectedTotalLength /\ 6 + 7 * (k + 1) < expectedTotalLength
        /\ k < b
        /\ \/ /\ BlockSize # 0 => framesInBlock' = framesInBlock + 1
              /\ UNCHANGED rOwed
           \/ /\ BlockSize # 0 /\ framesInBlock + 1 = BlockSize /\ framesInBlock' = 0
              /\ RP!AsksForMore
    BY <1>1, <1>2, <1>6, GoesOnAt
  <2>2. ASSUME ~Late
        PROVE  InTurn(t, n, c, k + 1)'
    <3>1. InTurn(s, n, c, k)
      BY <1>1, <2>2
    <3>2. CASE (BlockSize # 0 => framesInBlock' = framesInBlock + 1) /\ UNCHANGED rOwed
      BY <2>1, <3>1, <3>2, InTurnGoesOn
    <3>3. CASE /\ BlockSize # 0 /\ framesInBlock + 1 = BlockSize /\ framesInBlock' = 0
               /\ RP!AsksForMore
      <4>1. PICK l \in Nat : l = expectedTotalLength
        BY LinkTypes
      <4>2. framesInBlock \in Nat
        BY LinkTypes
      <4>3. s[1].asks /\ b = k + 1
        BY <2>1, <3>1, <3>3, <4>1, <4>2, BlockEndAsks
      <4>4. s[1].no = accepted /\ s[1].nth = c /\ InTurn(t, s[1].no, c, c)'
        BY <2>1, <3>1, <3>3, <4>3, InTurnAsks
      <4>5. QED
        BY <4>3, <4>4
    <3>4. QED
      BY <2>1, <3>2, <3>3
  <2>3. k + 1 \in Nat
    OBVIOUS
  <2>4. QED
    BY <2>1, <2>2, <2>3
<1>7. QED
  BY <1>3, <1>4, <1>5, <1>6

\* The first or only frame of a PDU arrives.
LEMMA BeginningTaken ==
  ASSUME Inv, UNCHANGED part,
         NEW s \in Seq(Places), NEW n \in Nat, NEW q \in Nat, NEW c \in Nat, NEW k \in Nat,
         LinkAt(s, n, q, c, k), s # <<>>, NEW t \in Seq(Places), Without(t, s, 1),
         UNCHANGED <<senderSide, toSender>>,
         NEW a \in 1 .. Len(offered), a \in Nat, s[1].no = a, s[1].nth = 0, n < a,
         NEW frame, IsFrame(offered, frame, s[1]),
         \/ RP!ProcessFrame(frame)
         \/ RP!Ignores(frame) /\ UNCHANGED receiverVars
  PROVE  /\ UNCHANGED delivered \/ DeliversOne
         /\ ReceiverAt(a, 0, 0)' /\ (~Late => InTurn(t, a, c, 0)')
<1>1. /\ ReceiverAt(n, q, k) /\ SenderAt(c)
      /\ ~Late => InTurn(s, n, c, k)
  BY DEF LinkAt
<1>2. UNCHANGED offered
  BY DEF senderSide
<1>3. PICK len \in Nat : len = Len(offered[a])
  BY <1>1, LenProperties, ElementOfSeq DEF SenderAt
<1>4. CASE len <= 7
  <2>1. frame = RP!EncodeSingleFrame(offered[a])
    BY <1>3, <1>4 DEF IsFrame
  <2>2. /\ ReceiverAt(a, 0, 0)' /\ rState' = "idle" /\ UNCHANGED rOwed
        /\ UNCHANGED delivered \/ DeliversOne
    BY <1>1, <1>2, <1>3, <1>4, <2>1, SingleTaken
  <2>3. ~Late => InTurn(t, a, c, 0)'
    BY <1>1, <2>2, InTurnEnds
  <2>4. QED
    BY <2>2, <2>3
<1>5. CASE len > 7
  <2>1. frame = RP!EncodeFirstFrame(offered[a]) /\ s[1].asks
    BY <1>3, <1>5 DEF IsFrame
  <2>2. /\ ReceiverAt(a, 0, 0)' /\ UNCHANGED delivered
        /\ \/ rState' = "idle" /\ UNCHANGED rOwed
           \/ rState' # "idle" /\ framesInBlock' = 0 /\ RP!AsksForMore
    BY <1>1, <1>2, <1>3, <1>5, <2>1, FirstTaken
  <2>3. ASSUME ~Late
        PROVE  InTurn(t, a, c, 0)'
    <3>1. InTurn(s, n, c, k)
      BY <1>1, <2>3
    <3>2. CASE rState' = "idle" /\ UNCHANGED rOwed
      BY <3>1, <3>2, InTurnEnds
    <3>3. CASE rState' # "idle" /\ framesInBlock' = 0 /\ RP!AsksForMore
      <4>1. s[1].nth = c /\ InTurn(t, s[1].no, c, c)'
        BY <2>1, <3>1, <3>3, InTurnAsks
      <4>2. c = 0
        BY <4>1
      <4>3. QED
        BY <4>1, <4>2
    <3>4. QED
      BY <2>2, <3>2, <3>3
  <2>4. QED
    BY <2>2, <2>3
<1>6. QED
  BY <1>4, <1>5

\* The receiver gets a frame.
LEMMA ReceiverGetsFrameKeepsLink ==
  ASSUME Inv, UNCHANGED part, LinkHolds, ReceiverGetsFrame
  PROVE  LinkHolds' /\ (UNCHANGED delivered \/ DeliversOne)
<1>1. PICK s \in Seq(Places), n \in Nat, q \in Nat, c \in Nat, k \in Nat : LinkAt(s, n, q, c, k)
  BY Zenon DEF LinkHolds
<1>2. PICK skip \in 0 .. 1 : Carries(offered, s, toReceiver, owed, skip)
  BY <1>1 DEF LinkAt, OnTheWay
<1>3. PICK frame : frame = Head(toReceiver)
  OBVIOUS
<1>4. /\ toReceiver # <<>> /\ toReceiver' = Tail(toReceiver)
      /\ UNCHANGED <<senderSide, toSender>>
      /\ \/ RP!ProcessFrame(frame)
         \/ RP!Ignores(frame) /\ UNCHANGED receiverVars
  BY <1>3, LinkReceiverActions, SameIgnored, Zenon DEF ReceiverGetsFrame
<1>5. toReceiver \in Seq(CanFrames) /\ owed \in Seq(SP!OwedFrames)
  BY LinkTypes
<1>6. UNCHANGED <<offered, owed>>
  BY <1>4 DEF senderSide, senderVars
<1>7. s # <<>>
  <2>1. Len(toReceiver) \in Nat \ {0} /\ Len(owed) \in Nat
    BY <1>4, <1>5, LenProperties, EmptySeq
  <2>2. Len(s) = Len(toReceiver) + Len(owed) - skip /\ skip <= Len(owed)
    BY <1>2 DEF Carries
  <2>3. Len(s) # 0
    BY <2>1, <2>2
  <2>4. QED
    BY <2>3, EmptySeq
<1>8. 1 \in 1 .. Len(s)
  BY <1>7, LenProperties, EmptySeq
<1>9. PICK t \in Seq(Places) : Without(t, s, 1)
  BY <1>8, PlacesWithout
<1>10. IsFrame(offered, frame, s[1]) /\ Carries(offered, t, Tail(toReceiver), owed, skip)
  BY <1>2, <1>3, <1>4, <1>5, <1>9, CarriesTaken
<1>11. Carries(offered', t, toReceiver', owed', skip)
  BY <1>4, <1>6, <1>10
<1>12. PICK a \in Nat : a = s[1].no
  BY <1>8, PlaceTypes
<1>13. PICK b \in Nat : b = s[1].nth
  BY <1>8, PlaceTypes
<1>14. PICK m \in Nat : m = accepted
  BY LinkTypes
<1>15. Before(n, q, a, b) /\ (b # 0 => a = n)
  <2>1. Ordered(s, n, q, m, c) /\ Led(s, n)
    BY <1>1, <1>14 DEF LinkAt, OnTheWay
  <2>2. Before(n, q, s[1].no, s[1].nth) /\ (s[1].nth # 0 => s[1].no = n)
    BY <1>7, <1>9, <2>1, TakenOrdered
  <2>3. QED
    BY <1>12, <1>13, <2>2
<1>16. a \in 1 .. Len(offered)
  BY <1>10, <1>12 DEF IsFrame
<1>17. /\ UNCHANGED delivered \/ DeliversOne
       /\ \E j \in Nat : ReceiverAt(a, b, j)' /\ (~Late => InTurn(t, a, c, j)')
  <2>1. CASE b = 0
    <3>1. n < a
      BY <1>15, <2>1 DEF Before
    <3>2. s[1].no = a /\ s[1].nth = 0
      BY <1>12, <1>13, <2>1
    <3>3. /\ UNCHANGED delivered \/ DeliversOne
          /\ ReceiverAt(a, 0, 0)' /\ (~Late => InTurn(t, a, c, 0)')
      BY <1>1, <1>4, <1>7, <1>9, <1>10, <1>16, <3>1, <3>2, BeginningTaken
    <3>4. 0 \in Nat
      OBVIOUS
    <3>5. QED
      BY <2>1, <3>3, <3>4
  <2>2. CASE b # 0
    <3>1. a = n /\ q < b
      BY <1>15, <2>2 DEF Before
    <3>2. PICK rest : rest = SubSeq(offered[n], 7 * b, Len(offered[n]))
      OBVIOUS
    <3>3. PICK sn \in Nat : frame = RP!EncodeConsecutiveFrame(sn, rest)
      BY <1>10, <1>12, <1>13, <2>2, <3>1, <3>2 DEF IsFrame
    <3>4. rest \in Seq(RP!Byte)
      <4>1. offered[n] \in Seq(Bytes) /\ b \in Nat \ {0}
        BY <1>1, <1>16, <2>2, <3>1, ElementOfSeq DEF LinkAt, SenderAt
      <4>2. PICK pdu \in Seq(Bytes) : pdu = offered[n]
        BY <4>1
      <4>3. SubSeq(pdu, 7 * b, Len(pdu)) \in Seq(Bytes)
        BY <4>1, <4>2, RestOf
      <4>4. QED
        BY <3>2, <4>2, <4>3 DEF RP!Byte, Bytes
    <3>5. RP!ReceiverAssumption /\ RP!IInv
      BY PartsMayBeUsed DEF Inv
    <3>6. \/ RP!ProcessFrame(RP!EncodeConsecutiveFrame(sn, rest))
          \/ RP!Ignores(RP!EncodeConsecutiveFrame(sn, rest)) /\ UNCHANGED RP!vars
      BY <1>4, <3>3, KeptVariables
    <3>7. RP!KeepsAll \/ RP!EndsShort \/ RP!CompletesWith(rest) \/ RP!GoesOnWith(rest)
      BY <3>4, <3>5, <3>6, RP!ConsecutiveFrameArrives
    <3>8. s[1].no = n /\ s[1].nth = b
      BY <1>12, <1>13, <3>1
    <3>9. /\ UNCHANGED delivered \/ DeliversOne
          /\ \E j \in Nat : ReceiverAt(n, b, j)' /\ (~Late => InTurn(t, n, c, j)')
      BY <1>1, <1>4, <1>7, <1>9, <3>1, <3>2, <3>7, <3>8, LaterTaken
    <3>10. QED
      BY <3>1, <3>9
  <2>3. QED
    BY <2>1, <2>2
<1>18. PICK j \in Nat : ReceiverAt(a, b, j)' /\ (~Late => InTurn(t, a, c, j)')
  BY <1>17
<1>19. LinkHolds'
  BY <1>1, <1>4, <1>7, <1>9, <1>11, <1>12, <1>13, <1>18, LinkTakes
<1>20. QED
  BY <1>17, <1>19

-----------------------------------------------------------------------------
(* The link implements PduDelivery *)

\* At first nothing is on its way.
LEMMA LinkBegins ==
  ASSUME Inv, MCInit
  PROVE  LinkHolds /\ LinkDelivery!Init
<1>1. PICK s \in Seq(Places) : s = <<>>
  BY EmptySeq
<1>2. /\ offered = <<>> /\ accepted = 0 /\ owed = <<>> /\ state = "idle" /\ resets = 0
      /\ rState = "idle" /\ delivered = <<>> /\ rOwed = <<>>
      /\ toReceiver = <<>> /\ toSender = <<>>
  BY DEF MCInit, Init, S!Init, R!Init
<1>3. LastDelivered = 0
  BY <1>2 DEF LastDelivered
<1>4. Len(<<>>) = 0 /\ \A i : ~(i \in 1 .. 0)
  BY EmptySeq
<1>5. PICK z \in Nat : z = 0
  OBVIOUS
<1>6. PICK skip \in 0 .. 1 : skip = 0
  OBVIOUS
<1>7. Carries(offered, s, toReceiver, owed, skip)
  BY <1>1, <1>2, <1>4, <1>6 DEF Carries
<1>8. Ordered(s, z, z, accepted, z) /\ Led(s, z)
  BY <1>1, <1>2, <1>4, <1>5 DEF Ordered, Led, Before
<1>9. OnTheWay(s, z, z, z)
  BY <1>2, <1>7, <1>8 DEF OnTheWay, Sends
<1>10. SenderAt(z)
  <2>1. offered \in Seq(Seq(Bytes))
    BY <1>2, EmptySeq
  <2>2. QED
    BY <1>2, <1>4, <2>1 DEF SenderAt
<1>11. ReceiverAt(z, z, z)
  <2>1. delivered \in Seq(Seq(Bytes))
    BY <1>2, EmptySeq
  <2>2. QED
    BY <1>2, <1>3, <1>5, <2>1 DEF ReceiverAt
<1>12. InTurn(s, z, z, z)
  BY <1>1, <1>2, <1>4
     DEF InTurn, OnlyLastAsks, AskedOnce, NoneAsks, BlockIsTheirs, BlockIsKept
<1>13. LinkHolds
  BY <1>9, <1>10, <1>11, <1>12, Zenon DEF LinkAt, LinkHolds
<1>14. LinkDelivery!Init
  BY <1>2, <1>3 DEF LinkDelivery!Init
<1>15. QED
  BY <1>13, <1>14

\* A lost first frame stays on record.
LEMMA LostStaysLost ==
  ASSUME NEW losable, Next(Late, losable), headless
  PROVE  headless'
<1>1. CASE SenderCompletion \/ FrameLost(losable)
  BY <1>1, Zenon DEF SenderCompletion, FrameLost
<1>2. CASE ~(SenderCompletion \/ FrameLost(losable))
  BY <1>2, Zenon
     DEF Next, Works, SendPdu, SenderTransmits, ReceiverTransmits, ReceiverGetsFrame,
         SenderGetsFrame, ReceiverCompletion, SeparationTimeOver, SenderTimeout,
         ReceiverTimeout, bus
<1>3. QED
  BY <1>1, <1>2

\* A step of the link after which no first frame is lost on a late link is one of
\* PduDelivery.
LEMMA LinkStep ==
  ASSUME Inv, Linked, LinkHolds, OfLink(Next(Late, Losable[part])), Late => ~headless'
  PROVE  LinkHolds' /\ [LinkDelivery!Next]_LinkDelivery!vars
<1>1. PICK losable : losable = Losable[part]
  OBVIOUS
<1>3. UNCHANGED part /\ Next(Late, losable)
  BY <1>1 DEF OfLink
<1>4. Linked' = Linked
  BY <1>3 DEF Linked, Losable
<1>5. ASSUME UNCHANGED <<offered, delivered>>
      PROVE  UNCHANGED LinkDelivery!vars
  <2>1. LastDelivered' = LastDelivered
    BY <1>5 DEF LastDelivered
  <2>2. QED
    BY <1>4, <1>5, <2>1 DEF LinkDelivery!vars
<1>6. CASE \E length \in Lengths : SendPdu(length)
  <2>1. PICK length \in Lengths : SendPdu(length)
    BY <1>6
  <2>2. LinkHolds'
    BY <1>3, <2>1, SendPduKeepsLink
  <2>3. /\ offered' = Append(offered, PduOf(accepted + 1, length)) /\ UNCHANGED delivered
        /\ accepted < MaxTransfers
    <3>1. SP!Send(PduOf(accepted + 1, length))
      BY <2>1, LinkSenderActions, Zenon DEF SendPdu
    <3>2. accepted < MaxTransfers
      BY <3>1, Zenon DEF SP!Send
    <3>3. QED
      BY <2>1, <3>2 DEF SendPdu, receiverVars
  <2>4. PduOf(accepted + 1, length) \in AllPdus
    <3>1. accepted \in Nat /\ MaxTransfers \in Nat
      BY LinkTypes, PartsMayBeUsed DEF SP!SenderAssumption
    <3>2. accepted + 1 \in 1 .. MaxTransfers
      BY <2>3, <3>1
    <3>3. PICK no \in 1 .. MaxTransfers : no = accepted + 1
      BY <3>2
    <3>4. PduOf(no, length) \in AllPdus
      <4> DEFINE pduOf(i, l) == PduOf(i, l)
      <4>1. AllPdus = {pduOf(i, l) : i \in 1 .. MaxTransfers, l \in Lengths}
        BY DEF AllPdus
      <4> HIDE DEF pduOf
      <4>2. pduOf(no, length) \in AllPdus
        BY <4>1
      <4>3. QED
        BY <4>2 DEF pduOf
    <3>5. QED
      BY <3>3, <3>4
  <2>5. LastDelivered' = LastDelivered
    BY <2>3 DEF LastDelivered
  <2>6. LinkDelivery!Next
    BY <1>4, <2>3, <2>4, <2>5 DEF LinkDelivery!Next, LinkDelivery!Offer
  <2>7. QED
    BY <2>2, <2>6
<1>7. CASE ReceiverGetsFrame
  <2>1. LinkHolds' /\ (UNCHANGED delivered \/ DeliversOne)
    BY <1>3, <1>7, ReceiverGetsFrameKeepsLink
  <2>2. UNCHANGED offered
    BY <1>7 DEF ReceiverGetsFrame, senderSide
  <2>3. ASSUME DeliversOne
        PROVE  LinkDelivery!Next
    <3>1. PICK no \in 1 .. Len(offered) :
            /\ no > LastDelivered
            /\ delivered' = Append(delivered, offered[no])
            /\ LastDelivered' = no
      BY <2>3 DEF DeliversOne
    <3>2. offered \in Seq(Seq(Bytes))
      BY DEF LinkHolds, LinkAt, SenderAt
    <3>3. no \in DOMAIN offered
      BY <3>2, LenProperties
    <3>4. LinkDelivery!Deliver(no)
      BY <1>4, <2>2, <3>1 DEF LinkDelivery!Deliver
    <3>5. QED
      BY <3>3, <3>4 DEF LinkDelivery!Next
  <2>4. QED
    BY <1>5, <2>1, <2>2, <2>3
<1>8. CASE \/ SenderTransmits \/ SenderGetsFrame \/ SenderCompletion
           \/ SeparationTimeOver \/ SenderTimeout(Late) \/ FrameLost(losable)
  <2>1. UNCHANGED <<offered, receiverVars>>
    BY <1>8, Zenon
       DEF SenderTransmits, SenderGetsFrame, SenderCompletion, SeparationTimeOver,
           SenderTimeout, FrameLost
  <2>2. UNCHANGED delivered
    BY <2>1 DEF receiverVars
  <2>3. LinkHolds'
    BY <1>3, <1>8, SenderTransmitsKeepsLink, SenderGetsFrameKeepsLink,
       SenderCompletionKeepsLink, SeparationTimeKeepsLink, SenderTimeoutKeepsLink,
       FrameLostKeepsLink, Zenon
  <2>4. QED
    BY <1>5, <2>1, <2>2, <2>3
<1>9. CASE ReceiverTransmits \/ ReceiverCompletion \/ ReceiverTimeout(Late)
  <2>1. LinkHolds' /\ UNCHANGED delivered
    BY <1>3, <1>9, ReceiverTransmitsKeepsLink, ReceiverCompletionKeepsLink,
       ReceiverTimeoutKeepsLink, Zenon
  <2>2. UNCHANGED offered
    BY <1>9, Zenon DEF ReceiverTransmits, ReceiverCompletion, ReceiverTimeout, senderSide
  <2>3. QED
    BY <1>5, <2>1, <2>2
<1>10. QED
  BY <1>3, <1>6, <1>7, <1>8, <1>9, Zenon DEF Next, Works

\* The link holds as long as no first frame is lost on a late one.
LinkKept == Linked => Mixes \/ LinkHolds

\* Nor does a step of another part disturb it.
LEMMA LinkImplementsStep ==
  ASSUME Inv, LinkKept, [MCNext]_mcVars
  PROVE  LinkKept' /\ [Mixes' \/ LinkDelivery!Next]_LinkDelivery!vars
<1>1. CASE OfLink(Next(Late, Losable[part]))
  <2>1. Linked /\ UNCHANGED part
    BY <1>1 DEF OfLink
  <2>2. Late' <=> Late
    BY <2>1 DEF Late
  <2>3. CASE Mixes'
    BY <2>3 DEF LinkKept
  <2>4. CASE ~Mixes'
    <3>1. Late => ~headless'
      BY <2>2, <2>4 DEF Mixes
    <3>2. ~Mixes
      BY <1>1, <3>1, LostStaysLost DEF Mixes, OfLink
    <3>3. LinkHolds
      BY <2>1, <3>2 DEF LinkKept
    <3>4. LinkHolds' /\ [LinkDelivery!Next]_LinkDelivery!vars
      BY <1>1, <2>1, <3>1, <3>3, LinkStep
    <3>5. QED
      BY <3>4 DEF LinkKept
  <2>5. QED
    BY <2>3, <2>4
<1>2. CASE UNCHANGED mcVars
  <2>1. UNCHANGED <<part, offered, delivered>>
    BY <1>2 DEF mcVars, vars, receiverVars
  <2>2. UNCHANGED LinkDelivery!vars
    BY <2>1 DEF LinkDelivery!vars, LastDelivered, Linked, Losable
  <2>3. LinkHolds' <=> LinkHolds
    BY <1>2 DEF mcVars, vars, senderVars, receiverVars, bus, LinkHolds, LinkAt, OnTheWay, SenderAt,
      ReceiverAt, InTurn, LastDelivered, Late, Sends, OnlyLastAsks, AskedOnce, BlockIsTheirs, BlockIsKept,
      NoneAsks, OneAsks, BlockEnd, GoOn
  <2>4. (Linked' <=> Linked) /\ (Mixes' <=> Mixes)
    BY <1>2 DEF mcVars, vars, bus, Linked, Losable, Mixes, Late
  <2>5. QED
    BY <2>2, <2>3, <2>4 DEF LinkKept
<1>3. CASE OfSender(Sender!Next) \/ OfReceiver(Receiver!Next) \/ OfChannels(Channels!Next)
  <2>1. ~Linked /\ ~Linked'
    BY <1>3 DEF OfSender, OfReceiver, OfChannels, Linked, Losable
  <2>2. UNCHANGED offered
    BY <1>3 DEF OfSender, OfReceiver, OfChannels, senderSide, vars
  <2>3. UNCHANGED LinkDelivery!vars
    BY <2>1, <2>2 DEF LinkDelivery!vars
  <2>4. QED
    BY <2>1, <2>3 DEF LinkKept
<1>4. QED
  BY <1>1, <1>2, <1>3 DEF MCNext

\* Whatever the link delivers was sent, whole and unaltered, each PDU at most once
\* and in the order of sending, through lost frames, aborts at either end and the
\* transfers that follow: the link implements PduDelivery, with late timers until
\* a first frame has been lost.
THEOREM LinkImplementsDelivery ==
  ASSUME Bounded(MaxTransfers)
  PROVE  MCSpec => LinkDelivers
<1> DEFINE All == Inv /\ Short /\ LinkKept
           Step == [Mixes' \/ LinkDelivery!Next]_LinkDelivery!vars
<1>1. MCInit => All /\ LinkDelivery!Init
  BY InitEstablishes, InitIsShort, LinkBegins DEF LinkKept
<1>2. All /\ [MCNext]_mcVars => All' /\ Step
  <2>1. ASSUME All, [MCNext]_mcVars
        PROVE  Inv' /\ Short' /\ LinkKept' /\ Step
    BY <2>1, ShortIsBrief, ShortStaysShort, StepPreserves, LinkImplementsStep
  <2>2. QED
    BY <2>1
<1>3. QED
  BY <1>1, <1>2, PTL DEF MCSpec, LinkDelivers

-----------------------------------------------------------------------------
(* The first of some of the channels *)

\* Some channels have a first one: the sets 1 .. x of the channels x among them
\* have a least one.
LEMMA FirstChannel ==
  ASSUME NEW n \in Nat, NEW T \in SUBSET (1 .. n), T # {}
  PROVE  Channels!Min(T) \in T
<1> DEFINE Below == {1 .. x : x \in T}
<1>1. \A x \in T : x \in Nat /\ 1 .. x \in SUBSET (1 .. n)
  OBVIOUS
<1>2. IsFiniteSet(1 .. n)
  BY FS_Interval
<1>3. FiniteSubsetsOf(1 .. n) = SUBSET (1 .. n)
  BY <1>2, FS_FiniteSubsetsOfFinite
<1>4. IsWellFoundedOn(StrictSubsetOrdering(1 .. n), SUBSET (1 .. n))
  BY <1>3, FS_StrictSubsetOrderingWellFounded
<1>5. Below \subseteq SUBSET (1 .. n) /\ Below # {}
  BY <1>1
<1>6. PICK least \in Below :
        \A other \in Below : <<other, least>> \notin StrictSubsetOrdering(1 .. n)
  BY <1>4, <1>5, WFMin
<1>7. PICK x \in T : least = 1 .. x
  OBVIOUS
<1>8. ASSUME NEW y \in T, y < x PROVE FALSE
  <2>1. 1 .. y \in Below /\ 1 .. x \in Below
    OBVIOUS
  <2>2. 1 .. y \subseteq 1 .. x /\ x \in 1 .. x /\ x \notin 1 .. y
    BY <1>1, <1>8
  <2>3. <<1 .. y, 1 .. x>> \in StrictSubsetOrdering(1 .. n)
    BY <1>1, <2>2 DEF StrictSubsetOrdering
  <2>4. QED
    BY <1>6, <1>7, <2>1, <2>3
<1>9. \A y \in T : x <= y
  BY <1>1, <1>8
<1>10. QED
  BY <1>9, Zenon DEF Channels!Min

-----------------------------------------------------------------------------
(* The invariant of the channels *)

ConnectionTypes ==
  /\ occupied \in [Channels!Channels -> BOOLEAN]
  /\ receptionEnabled \in [Channels!Channels -> BOOLEAN]
  /\ rxId \in [Channels!Channels -> Ids \cup {Channels!NoId}]
  /\ txId \in [Channels!Channels -> Ids \cup {Channels!NoId}]
  /\ carried \in [Channels!Channels -> BOOLEAN]

Interruptions == [channel : Channels!Channels, type : {"single", "first"}, id : Ids]

HalfTypes ==
  /\ sending \in [Channels!Channels -> Ids \cup {Channels!NoId}]
  /\ receiving \in [Channels!Channels -> Ids \cup {Channels!NoId}]
  /\ interrupted \in Interruptions \cup {Channels!NoFrame}

ChannelsInv ==
  /\ ConnectionTypes
  /\ HalfTypes
  /\ Channels!IdentifiersAreDisjoint
  /\ Channels!NoChannelLeaks
  /\ Channels!TransfersKeepTheirChannel

\* While an abort report interrupts a frame, the frame's channel stays
\* registered for it, provided that the report does not release channels.
InterruptedIsOwned ==
  interrupted # Channels!NoFrame =>
    /\ occupied[interrupted.channel]
    /\ receptionEnabled[interrupted.channel]
    /\ rxId[interrupted.channel] = interrupted.id

ReceptionInv == Channels!NothingOutlivesRelease /\ InterruptedIsOwned

\* The constants are numbers as TransportAssumption says; every lemma assumes it.
LEMMA ChannelNumbers ==
  ASSUME Channels!TransportAssumption
  PROVE  /\ MaxChannels \in Nat
         /\ Channels!NoId \notin Ids
         /\ 0 \notin Channels!Channels
BY DEF Channels!TransportAssumption, Channels!Channels, Channels!NoId

LEMMA FirstOfFound ==
  ASSUME Channels!TransportAssumption, NEW T \in SUBSET Channels!Channels, T # {}
  PROVE  Channels!Min(T) \in T
BY FirstChannel, ChannelNumbers DEF Channels!Channels

LEMMA InterruptionsAreFrames ==
  ASSUME Channels!TransportAssumption
  PROVE  \A c \in Channels!Channels, type \in {"single", "first"}, id \in Ids :
           /\ [channel |-> c, type |-> type, id |-> id] \in Interruptions
           /\ [channel |-> c, type |-> type, id |-> id] # Channels!NoFrame
BY ChannelNumbers DEF Interruptions, Channels!NoFrame

-----------------------------------------------------------------------------
(* Opening and releasing *)

\* A connection that may be opened shares no identifier with an open one, and
\* what is said of the open ones stays.
LEMMA OpeningKeeps ==
  ASSUME Channels!TransportAssumption, ChannelsInv, NEW rx \in Ids, NEW tx \in Ids,
         Channels!MayOpen(rx, tx),
         NEW c \in Channels!Channels, ~occupied[c],
         occupied' = [occupied EXCEPT ![c] = TRUE],
         rxId' = [rxId EXCEPT ![c] = rx],
         txId' = [txId EXCEPT ![c] = tx],
         receptionEnabled' \in [Channels!Channels -> BOOLEAN],
         carried' \in [Channels!Channels -> BOOLEAN],
         receptionEnabled'[c] \/ carried'[c],
         \A d \in Channels!Channels \ {c} : /\ receptionEnabled'[d] = receptionEnabled[d]
                                  /\ carried'[d] = carried[d]
  PROVE  /\ ConnectionTypes'
         /\ Channels!IdentifiersAreDisjoint'
         /\ Channels!NoChannelLeaks'
<1>1. c \in Channels!Channels /\ ~occupied[c]
  OBVIOUS
<1>3. ConnectionTypes'
  BY <1>1 DEF ChannelsInv, ConnectionTypes
<1>4. /\ occupied'[c] /\ txId'[c] = tx /\ rxId'[c] = rx
      /\ \A d \in Channels!Channels \ {c} :
           /\ occupied'[d] = occupied[d]
           /\ receptionEnabled'[d] = receptionEnabled[d]
           /\ rxId'[d] = rxId[d]
           /\ txId'[d] = txId[d]
  BY <1>1 DEF ChannelsInv, ConnectionTypes
<1>5. \A d \in Channels!Channels \ {c} :
        occupied[d] => {rx, tx} \cap {rxId[d], txId[d]} = {}
  BY DEF Channels!MayOpen, Channels!FindChannel
<1>6. Channels!IdentifiersAreDisjoint'
  <2> SUFFICES ASSUME NEW d \in Channels!Channels, NEW e \in Channels!Channels,
                      occupied'[d], occupied'[e], d # e
               PROVE  {rxId'[d], txId'[d]} \cap {rxId'[e], txId'[e]} = {}
    BY DEF Channels!IdentifiersAreDisjoint, Channels!Channels
  <2>1. CASE d = c
    BY <1>4, <1>5, <2>1
  <2>2. CASE e = c
    BY <1>4, <1>5, <2>2
  <2>3. CASE d # c /\ e # c
    BY <1>4, <2>3 DEF ChannelsInv, Channels!IdentifiersAreDisjoint
  <2>4. QED
    BY <2>1, <2>2, <2>3
<1>7. Channels!NoChannelLeaks'
  BY <1>1, <1>4 DEF ChannelsInv, Channels!NoChannelLeaks, Channels!Channels
<1>8. QED
  BY <1>3, <1>6, <1>7

LEMMA RegisteringPreserves ==
  ASSUME Channels!TransportAssumption, ChannelsInv, NEW dataId \in Ids,
         NEW fcId \in Ids, Channels!RegisterReceiveChannel(dataId, fcId)
  PROVE  /\ ChannelsInv'
         /\ ReceptionInv => ReceptionInv'
<1>1. UNCHANGED <<sending, receiving, interrupted>>
  BY DEF Channels!RegisterReceiveChannel, Channels!halves
<1>2. CASE Channels!FindConnection(dataId, fcId) # {}
  <2>1. PICK c \in Channels!Channels :
          /\ receptionEnabled' = [receptionEnabled EXCEPT ![c] = TRUE]
          /\ UNCHANGED <<occupied, rxId, txId, carried>>
    BY <1>2 DEF Channels!RegisterReceiveChannel, Channels!FindConnection,
         Channels!FindChannel
  <2>2. /\ receptionEnabled' \in [Channels!Channels -> BOOLEAN]
        /\ \A d \in Channels!Channels : receptionEnabled[d] => receptionEnabled'[d]
    BY <2>1 DEF ChannelsInv, ConnectionTypes
  <2>3. ChannelsInv'
    BY <1>1, <2>1, <2>2 DEF ChannelsInv, ConnectionTypes, HalfTypes,
         Channels!IdentifiersAreDisjoint,
         Channels!NoChannelLeaks, Channels!TransfersKeepTheirChannel, Channels!Channels,
         Interruptions
  <2>4. ReceptionInv => ReceptionInv'
    BY <1>1, <2>1, <2>2 DEF ChannelsInv, HalfTypes, Interruptions, ReceptionInv,
         Channels!NothingOutlivesRelease, InterruptedIsOwned, Channels!Channels
  <2>5. QED
    BY <2>3, <2>4
<1>3. CASE Channels!FindConnection(dataId, fcId) = {}
  <2>1. PICK c \in Channels!FreeChannels :
          /\ Channels!MayOpen(dataId, fcId)
          /\ Channels!OpenConnection(c, dataId, fcId, TRUE)
          /\ carried' = [carried EXCEPT ![c] = FALSE]
    BY <1>3 DEF Channels!RegisterReceiveChannel
  <2>2. /\ ConnectionTypes'
        /\ Channels!IdentifiersAreDisjoint'
        /\ Channels!NoChannelLeaks'
        /\ \A d \in Channels!Channels \ {c} :
             /\ occupied'[d] = occupied[d]
             /\ receptionEnabled'[d] = receptionEnabled[d]
             /\ rxId'[d] = rxId[d]
             /\ txId'[d] = txId[d]
    <3>1. /\ occupied' = [occupied EXCEPT ![c] = TRUE]
          /\ rxId' = [rxId EXCEPT ![c] = dataId]
          /\ txId' = [txId EXCEPT ![c] = fcId]
      BY <2>1 DEF Channels!OpenConnection
    <3>2. /\ receptionEnabled' \in [Channels!Channels -> BOOLEAN]
          /\ carried' \in [Channels!Channels -> BOOLEAN]
          /\ receptionEnabled'[c] \/ carried'[c]
          /\ \A d \in Channels!Channels \ {c} : /\ receptionEnabled'[d] = receptionEnabled[d]
                                       /\ carried'[d] = carried[d]
      BY <2>1 DEF Channels!OpenConnection, Channels!FreeChannels, ChannelsInv,
           ConnectionTypes
    <3>3. c \in Channels!Channels /\ ~occupied[c]
      BY DEF Channels!FreeChannels
    <3>4. Channels!MayOpen(dataId, fcId)
      BY <2>1
    <3>5. ConnectionTypes' /\ Channels!IdentifiersAreDisjoint' /\ Channels!NoChannelLeaks'
      BY <3>1, <3>2, <3>3, <3>4, OpeningKeeps, ZenonT(60)
    <3>6. QED
      BY <2>1, <3>1, <3>2, <3>3, <3>5 DEF ChannelsInv, ConnectionTypes,
           Channels!OpenConnection
  <2>3. c \in Channels!Channels /\ ~occupied[c]
    BY DEF Channels!FreeChannels
  <2>4. Channels!TransfersKeepTheirChannel'
    BY <1>1, <2>2, <2>3 DEF ChannelsInv, Channels!TransfersKeepTheirChannel,
         Channels!Channels
  <2>5. ChannelsInv'
    BY <1>1, <2>2, <2>4 DEF ChannelsInv, HalfTypes, Channels!Channels, Interruptions
  <2>6. ReceptionInv => ReceptionInv'
    BY <1>1, <2>2, <2>3 DEF ChannelsInv, HalfTypes, Interruptions, ReceptionInv,
         Channels!NothingOutlivesRelease, InterruptedIsOwned, Channels!Channels
  <2>7. QED
    BY <2>5, <2>6
<1>4. QED
  BY <1>2, <1>3

\* A release leaves no half of the channel at work.
LEMMA ReleasingPreserves ==
  ASSUME Channels!TransportAssumption, ChannelsInv, NEW id \in Ids,
         Channels!ReleaseChannel(id)
  PROVE  /\ ChannelsInv'
         /\ ReceptionInv /\ interrupted = Channels!NoFrame => ReceptionInv'
<1> DEFINE c == Channels!Min(Channels!FindChannel(id))
<1>1. c \in Channels!Channels
  BY FirstOfFound DEF Channels!ReleaseChannel, Channels!FindChannel
<1>2. /\ sending' = [sending EXCEPT ![c] = Channels!NoId]
      /\ receiving' = [receiving EXCEPT ![c] = Channels!NoId]
      /\ occupied' = [occupied EXCEPT ![c] = FALSE]
      /\ receptionEnabled' = [receptionEnabled EXCEPT ![c] = FALSE]
      /\ UNCHANGED <<rxId, txId, carried, interrupted>>
  BY DEF Channels!ReleaseChannel, Channels!ResetHalves
<1> HIDE DEF c
<1>3. ConnectionTypes' /\ HalfTypes'
  BY <1>1, <1>2 DEF ChannelsInv, ConnectionTypes, HalfTypes, Channels!Channels,
       Interruptions
<1>4. /\ ~occupied'[c] /\ sending'[c] = Channels!NoId /\ receiving'[c] = Channels!NoId
      /\ \A d \in Channels!Channels \ {c} :
           /\ occupied'[d] = occupied[d]
           /\ receptionEnabled'[d] = receptionEnabled[d]
           /\ sending'[d] = sending[d]
           /\ receiving'[d] = receiving[d]
  BY <1>1, <1>2 DEF ChannelsInv, ConnectionTypes, HalfTypes
<1>5. Channels!IdentifiersAreDisjoint'
  BY <1>2, <1>4 DEF ChannelsInv, Channels!IdentifiersAreDisjoint, Channels!Channels
<1>6. Channels!NoChannelLeaks'
  BY <1>2, <1>4 DEF ChannelsInv, Channels!NoChannelLeaks, Channels!Channels
<1>7. Channels!TransfersKeepTheirChannel'
  BY <1>2, <1>4 DEF ChannelsInv, Channels!TransfersKeepTheirChannel, Channels!Channels
<1>8. ReceptionInv /\ interrupted = Channels!NoFrame => ReceptionInv'
  BY <1>2, <1>4 DEF ReceptionInv, Channels!NothingOutlivesRelease, InterruptedIsOwned,
       Channels!Channels
<1>9. QED
  BY <1>3, <1>5, <1>6, <1>7, <1>8 DEF ChannelsInv

-----------------------------------------------------------------------------
(* Sending *)

LEMMA SendingPreserves ==
  ASSUME Channels!TransportAssumption, ChannelsInv, NEW dataId \in Ids,
         NEW fcId \in Ids, NEW fits \in BOOLEAN,
         Channels!SendPdu(dataId, fcId, fits)
  PROVE  /\ ChannelsInv'
         /\ ReceptionInv => ReceptionInv'
<1>1. UNCHANGED <<receiving, interrupted>>
  BY DEF Channels!SendPdu
<1>2. CASE Channels!FindConnection(fcId, dataId) # {}
  <2>1. PICK c \in Channels!FindConnection(fcId, dataId), under \in {dataId, Channels!NoId} :
          /\ sending' = [sending EXCEPT ![c] = under]
          /\ carried' = [carried EXCEPT ![c] = TRUE]
          /\ UNCHANGED Channels!connections
    BY <1>2 DEF Channels!SendPdu, Channels!Accepts
  <2>2. c \in Channels!Channels /\ occupied[c] /\ txId[c] = dataId
    BY DEF Channels!FindConnection, Channels!FindChannel
  <2>3. ConnectionTypes' /\ HalfTypes'
    BY <1>1, <2>1, <2>2
       DEF ChannelsInv, ConnectionTypes, HalfTypes, Channels!Channels, Interruptions,
           Channels!connections
  <2>4. Channels!NoChannelLeaks'
    BY <2>1, <2>2 DEF ChannelsInv, ConnectionTypes, Channels!NoChannelLeaks,
         Channels!Channels, Channels!connections
  <2>5. Channels!TransfersKeepTheirChannel'
    BY <2>1, <2>2 DEF ChannelsInv, HalfTypes, Channels!TransfersKeepTheirChannel,
         Channels!Channels, Channels!connections
  <2>6. Channels!IdentifiersAreDisjoint'
    BY <2>1 DEF ChannelsInv, Channels!IdentifiersAreDisjoint, Channels!Channels,
         Channels!connections
  <2>7. ReceptionInv => ReceptionInv'
    BY <1>1, <2>1 DEF ReceptionInv, Channels!NothingOutlivesRelease, InterruptedIsOwned,
                      Channels!Channels, Channels!connections
  <2>8. QED
    BY <2>3, <2>4, <2>5, <2>6, <2>7 DEF ChannelsInv
<1>3. CASE Channels!FindConnection(fcId, dataId) = {} /\ fits
  <2>1. PICK c \in Channels!FreeChannels, under \in {dataId, Channels!NoId} :
          /\ Channels!MayOpen(fcId, dataId)
          /\ Channels!OpenConnection(c, fcId, dataId, FALSE)
          /\ sending' = [sending EXCEPT ![c] = under]
          /\ carried' = [carried EXCEPT ![c] = TRUE]
    BY <1>3 DEF Channels!SendPdu, Channels!Accepts
  <2>2. /\ ConnectionTypes'
        /\ Channels!IdentifiersAreDisjoint'
        /\ Channels!NoChannelLeaks'
        /\ occupied'[c] /\ txId'[c] = dataId
        /\ \A d \in Channels!Channels \ {c} :
             /\ occupied'[d] = occupied[d]
             /\ receptionEnabled'[d] = receptionEnabled[d]
             /\ rxId'[d] = rxId[d]
             /\ txId'[d] = txId[d]
    <3>1. /\ occupied' = [occupied EXCEPT ![c] = TRUE]
          /\ rxId' = [rxId EXCEPT ![c] = fcId]
          /\ txId' = [txId EXCEPT ![c] = dataId]
      BY <2>1 DEF Channels!OpenConnection
    <3>2. /\ receptionEnabled' \in [Channels!Channels -> BOOLEAN]
          /\ carried' \in [Channels!Channels -> BOOLEAN]
          /\ receptionEnabled'[c] \/ carried'[c]
          /\ \A d \in Channels!Channels \ {c} : /\ receptionEnabled'[d] = receptionEnabled[d]
                                       /\ carried'[d] = carried[d]
      BY <2>1 DEF Channels!OpenConnection, Channels!FreeChannels, ChannelsInv,
           ConnectionTypes
    <3>3. c \in Channels!Channels /\ ~occupied[c]
      BY DEF Channels!FreeChannels
    <3>4. Channels!MayOpen(fcId, dataId)
      BY <2>1
    <3>5. ConnectionTypes' /\ Channels!IdentifiersAreDisjoint' /\ Channels!NoChannelLeaks'
      BY <3>1, <3>2, <3>3, <3>4, OpeningKeeps, ZenonT(60)
    <3>6. QED
      BY <2>1, <3>1, <3>2, <3>3, <3>5 DEF ChannelsInv, ConnectionTypes,
           Channels!OpenConnection
  <2>3. c \in Channels!Channels /\ ~occupied[c]
    BY DEF Channels!FreeChannels
  <2>4. /\ sending' \in [Channels!Channels -> Ids \cup {Channels!NoId}]
        /\ sending'[c] = under
        /\ \A d \in Channels!Channels \ {c} : sending'[d] = sending[d]
    BY <2>1, <2>3 DEF ChannelsInv, HalfTypes
  <2>5. HalfTypes'
    BY <1>1, <2>4 DEF ChannelsInv, HalfTypes, Channels!Channels, Interruptions
  <2>6. Channels!TransfersKeepTheirChannel'
    BY <2>2, <2>4 DEF ChannelsInv, Channels!TransfersKeepTheirChannel, Channels!Channels
  <2>7. ReceptionInv => ReceptionInv'
    BY <1>1, <2>2, <2>3 DEF ChannelsInv, HalfTypes, Interruptions, ReceptionInv,
         Channels!NothingOutlivesRelease, InterruptedIsOwned, Channels!Channels
  <2>8. QED
    BY <2>2, <2>5, <2>6, <2>7 DEF ChannelsInv
<1>4. CASE Channels!FindConnection(fcId, dataId) = {} /\ ~fits
  <2>1. PICK c \in Channels!FreeChannels :
          /\ rxId' = [rxId EXCEPT ![c] = fcId]
          /\ txId' = [txId EXCEPT ![c] = dataId]
          /\ UNCHANGED <<occupied, receptionEnabled, sending, carried>>
    BY <1>4 DEF Channels!SendPdu, Channels!RefusedByNewChannel
  <2>2. c \in Channels!Channels /\ ~occupied[c]
    BY DEF Channels!FreeChannels
  <2>3. /\ rxId' \in [Channels!Channels -> Ids \cup {Channels!NoId}]
        /\ txId' \in [Channels!Channels -> Ids \cup {Channels!NoId}]
        /\ \A d \in Channels!Channels : occupied[d] => rxId'[d] = rxId[d] /\ txId'[d] = txId[d]
    BY <2>1, <2>2 DEF ChannelsInv, ConnectionTypes
  <2>4. ChannelsInv'
    BY <1>1, <2>1, <2>3 DEF ChannelsInv, ConnectionTypes, HalfTypes,
         Channels!IdentifiersAreDisjoint,
         Channels!NoChannelLeaks, Channels!TransfersKeepTheirChannel, Channels!Channels,
         Interruptions
  <2>5. ReceptionInv => ReceptionInv'
    BY <1>1, <2>1, <2>3 DEF ChannelsInv, HalfTypes, Interruptions, ReceptionInv,
         Channels!NothingOutlivesRelease, InterruptedIsOwned, Channels!Channels
  <2>6. QED
    BY <2>4, <2>5
<1>5. QED
  BY <1>2, <1>3, <1>4

-----------------------------------------------------------------------------
(* Frames and timers *)

\* What is not said of the connections stays when only the halves change.
LEMMA HalvesPreserve ==
  ASSUME ChannelsInv, UNCHANGED <<Channels!connections, carried>>,
         sending' \in [Channels!Channels -> Ids \cup {Channels!NoId}],
         receiving' \in [Channels!Channels -> Ids \cup {Channels!NoId}],
         interrupted' \in Interruptions \cup {Channels!NoFrame},
         \A c \in Channels!Channels : sending'[c] \in {sending[c], Channels!NoId}
  PROVE  ChannelsInv'
<1>1. ConnectionTypes'
  BY DEF ChannelsInv, ConnectionTypes, Channels!connections, Channels!Channels
<1>2. HalfTypes'
  BY DEF HalfTypes, Channels!Channels, Interruptions
<1>3. Channels!IdentifiersAreDisjoint' /\ Channels!NoChannelLeaks'
  BY DEF ChannelsInv, Channels!IdentifiersAreDisjoint, Channels!NoChannelLeaks,
       Channels!connections, Channels!Channels
<1>4. Channels!TransfersKeepTheirChannel'
  BY DEF ChannelsInv, Channels!TransfersKeepTheirChannel, Channels!connections,
       Channels!Channels
<1>5. QED
  BY <1>1, <1>2, <1>3, <1>4 DEF ChannelsInv

\* A frame is taken by a channel that its identifier belongs to, and a reception
\* it starts is the channel's under that identifier.
LEMMA FramesPreserve ==
  ASSUME Channels!TransportAssumption, ChannelsInv, NEW id \in Ids,
         NEW type \in {"single", "first", "consecutive", "flowControl"},
         Channels!ProcessFrame(id, type)
  PROVE  /\ ChannelsInv'
         /\ ReceptionInv => ReceptionInv'
<1> DEFINE c == Channels!Min(Channels!Owners(id, type))
<1>1. c \in Channels!Owners(id, type)
  BY FirstOfFound DEF Channels!ProcessFrame, Channels!Owners
<1>2. c \in Channels!Channels /\ occupied[c] /\ rxId[c] = id
  BY <1>1 DEF Channels!Owners
<1>3. type # "flowControl" => receptionEnabled[c]
  BY <1>1 DEF Channels!Owners
<1>4. UNCHANGED <<Channels!connections, carried>> /\ interrupted = Channels!NoFrame
  BY DEF Channels!ProcessFrame
<1>5. /\ sending \in [Channels!Channels -> Ids \cup {Channels!NoId}]
      /\ receiving \in [Channels!Channels -> Ids \cup {Channels!NoId}]
      /\ interrupted \in Interruptions \cup {Channels!NoFrame}
  BY DEF ChannelsInv, HalfTypes
<1>6. \/ /\ \E under \in {sending[c], Channels!NoId} : sending' = [sending EXCEPT ![c] = under]
         /\ UNCHANGED <<receiving, interrupted>>
      \/ /\ \E under \in {receiving[c], Channels!NoId} :
              receiving' = [receiving EXCEPT ![c] = under]
         /\ UNCHANGED <<sending, interrupted>>
      \/ /\ type \in {"single", "first"}
         /\ \E under \in {id, Channels!NoId} : receiving' = [receiving EXCEPT ![c] = under]
         /\ UNCHANGED <<sending, interrupted>>
      \/ /\ type \in {"single", "first"}
         /\ receiving' = [receiving EXCEPT ![c] = Channels!NoId]
         /\ interrupted' = [channel |-> c, type |-> type, id |-> id]
         /\ UNCHANGED sending
  <2> HIDE DEF c
  <2>1. \/ /\ type = "flowControl"
           /\ \E under \in {sending[c], Channels!NoId} : sending' = [sending EXCEPT ![c] = under]
           /\ UNCHANGED <<receiving, interrupted>>
        \/ /\ type = "consecutive"
           /\ \E under \in {receiving[c], Channels!NoId} :
                receiving' = [receiving EXCEPT ![c] = under]
           /\ UNCHANGED <<sending, interrupted>>
        \/ /\ type \in {"single", "first"} /\ ~Channels!Supersedes(c, type)
           /\ Channels!TakesFrame(c, type, id)
           /\ UNCHANGED <<sending, interrupted>>
        \/ /\ Channels!Supersedes(c, type)
           /\ receiving' = [receiving EXCEPT ![c] = Channels!NoId]
           /\ interrupted' = [channel |-> c, type |-> type, id |-> id]
           /\ UNCHANGED sending
    BY DEF Channels!ProcessFrame, c
  <2>2. QED
    BY <2>1 DEF Channels!TakesFrame, Channels!Supersedes
<1> HIDE DEF c
<1>7. CASE /\ \E under \in {sending[c], Channels!NoId} : sending' = [sending EXCEPT ![c] = under]
           /\ UNCHANGED <<receiving, interrupted>>
  <2>1. /\ sending' \in [Channels!Channels -> Ids \cup {Channels!NoId}]
        /\ \A d \in Channels!Channels : sending'[d] \in {sending[d], Channels!NoId}
    BY <1>2, <1>5, <1>7
  <2>2. ChannelsInv'
    BY <1>4, <1>5, <1>7, <2>1, HalvesPreserve
  <2>3. ReceptionInv => ReceptionInv'
    BY <1>4, <1>7 DEF ReceptionInv, Channels!NothingOutlivesRelease, InterruptedIsOwned,
                      Channels!connections, Channels!Channels
  <2>4. QED
    BY <2>2, <2>3
<1>8. CASE /\ \E under \in {receiving[c], Channels!NoId} :
                receiving' = [receiving EXCEPT ![c] = under]
           /\ UNCHANGED <<sending, interrupted>>
  <2>1. /\ receiving' \in [Channels!Channels -> Ids \cup {Channels!NoId}]
        /\ \A d \in Channels!Channels : receiving'[d] \in {receiving[d], Channels!NoId}
    BY <1>2, <1>5, <1>8
  <2>2. ChannelsInv'
    BY <1>4, <1>5, <1>8, <2>1, HalvesPreserve
  <2>3. ReceptionInv => ReceptionInv'
    BY <1>4, <1>8, <2>1 DEF ReceptionInv, Channels!NothingOutlivesRelease,
         InterruptedIsOwned,
                            Channels!connections, Channels!Channels
  <2>4. QED
    BY <2>2, <2>3
<1>9. CASE /\ type \in {"single", "first"}
           /\ \E under \in {id, Channels!NoId} : receiving' = [receiving EXCEPT ![c] = under]
           /\ UNCHANGED <<sending, interrupted>>
  <2>1. /\ receiving' \in [Channels!Channels -> Ids \cup {Channels!NoId}]
        /\ receiving'[c] \in {id, Channels!NoId}
        /\ \A d \in Channels!Channels \ {c} : receiving'[d] = receiving[d]
    BY <1>2, <1>5, <1>9
  <2>2. ChannelsInv'
    BY <1>4, <1>5, <1>9, <2>1, HalvesPreserve
  <2>3. receptionEnabled[c]
    BY <1>3, <1>9
  <2>4. ReceptionInv => ReceptionInv'
    BY <1>2, <1>4, <1>9, <2>1, <2>3
       DEF ReceptionInv, Channels!NothingOutlivesRelease, InterruptedIsOwned,
           Channels!connections, Channels!Channels
  <2>5. QED
    BY <2>2, <2>4
<1>10. CASE /\ type \in {"single", "first"}
            /\ receiving' = [receiving EXCEPT ![c] = Channels!NoId]
            /\ interrupted' = [channel |-> c, type |-> type, id |-> id]
            /\ UNCHANGED sending
  <2>1. /\ receiving' \in [Channels!Channels -> Ids \cup {Channels!NoId}]
        /\ \A d \in Channels!Channels : receiving'[d] \in {receiving[d], Channels!NoId}
    BY <1>2, <1>5, <1>10
  <2>2. interrupted' \in Interruptions
    BY <1>2, <1>10 DEF Interruptions
  <2>3. ChannelsInv'
    BY <1>4, <1>5, <1>10, <2>1, <2>2, HalvesPreserve
  <2>4. receptionEnabled[c]
    BY <1>3, <1>10
  <2>5. InterruptedIsOwned'
    BY <1>2, <1>4, <1>10, <2>4 DEF InterruptedIsOwned, Channels!connections
  <2>6. ReceptionInv => ReceptionInv'
    BY <1>4, <2>1, <2>5 DEF ReceptionInv, Channels!NothingOutlivesRelease,
         Channels!connections, Channels!Channels
  <2>7. QED
    BY <2>3, <2>6
<1>11. QED
  BY <1>6, <1>7, <1>8, <1>9, <1>10

LEMMA GoingOnPreserves ==
  ASSUME Channels!TransportAssumption, ChannelsInv, Channels!ProcessFrameGoesOn
  PROVE  /\ ChannelsInv'
         /\ ReceptionInv => ReceptionInv'
<1> DEFINE c == interrupted.channel
<1>1. /\ interrupted # Channels!NoFrame /\ interrupted' = Channels!NoFrame
      /\ interrupted \in Interruptions
  BY DEF Channels!ProcessFrameGoesOn, ChannelsInv, HalfTypes
<1>2. c \in Channels!Channels /\ interrupted.id \in Ids
  BY <1>1 DEF Interruptions
<1>3. UNCHANGED <<Channels!connections, sending, carried>>
  BY DEF Channels!ProcessFrameGoesOn
<1>4. PICK under \in {interrupted.id, Channels!NoId} : receiving' = [receiving EXCEPT ![c] = under]
  BY DEF Channels!ProcessFrameGoesOn, Channels!TakesFrame
<1>5. /\ sending \in [Channels!Channels -> Ids \cup {Channels!NoId}]
      /\ receiving \in [Channels!Channels -> Ids \cup {Channels!NoId}]
  BY DEF ChannelsInv, HalfTypes
<1>6. /\ receiving' \in [Channels!Channels -> Ids \cup {Channels!NoId}]
      /\ receiving'[c] = under
      /\ \A d \in Channels!Channels \ {c} : receiving'[d] = receiving[d]
  BY <1>2, <1>4, <1>5
<1>7. ChannelsInv'
  BY <1>1, <1>3, <1>5, <1>6, HalvesPreserve
<1>8. ReceptionInv => ReceptionInv'
  BY <1>1, <1>2, <1>3, <1>6
     DEF ReceptionInv, Channels!NothingOutlivesRelease, InterruptedIsOwned,
         Channels!connections, Channels!Channels
<1>9. QED
  BY <1>7, <1>8

\* The end of a transfer or of a reception.
LEMMA EndsPreserve ==
  ASSUME ChannelsInv, NEW c \in Channels!Channels,
         Channels!TransferEnds(c) \/ Channels!ReceptionEnds(c)
  PROVE  /\ ChannelsInv'
         /\ ReceptionInv => ReceptionInv'
<1>1. UNCHANGED <<Channels!connections, carried, interrupted>> /\ interrupted = Channels!NoFrame
  BY DEF Channels!TransferEnds, Channels!ReceptionEnds
<1>2. /\ sending \in [Channels!Channels -> Ids \cup {Channels!NoId}]
      /\ receiving \in [Channels!Channels -> Ids \cup {Channels!NoId}]
      /\ interrupted \in Interruptions \cup {Channels!NoFrame}
  BY DEF ChannelsInv, HalfTypes
<1>3. /\ sending' \in [Channels!Channels -> Ids \cup {Channels!NoId}]
      /\ receiving' \in [Channels!Channels -> Ids \cup {Channels!NoId}]
      /\ \A d \in Channels!Channels : /\ sending'[d] \in {sending[d], Channels!NoId}
                             /\ receiving'[d] \in {receiving[d], Channels!NoId}
  BY <1>2 DEF Channels!TransferEnds, Channels!ReceptionEnds
<1>4. ChannelsInv'
  BY <1>1, <1>2, <1>3, HalvesPreserve
<1>5. ReceptionInv => ReceptionInv'
  BY <1>1, <1>3
     DEF ReceptionInv, Channels!NothingOutlivesRelease, InterruptedIsOwned,
         Channels!connections, Channels!Channels
<1>6. QED
  BY <1>4, <1>5

-----------------------------------------------------------------------------
(* Every step *)

LEMMA ChannelsInit ==
  ASSUME Channels!TransportAssumption, Channels!Init
  PROVE  ChannelsInv /\ ReceptionInv
<1>1. ConnectionTypes /\ HalfTypes
  BY DEF Channels!Init, ConnectionTypes, HalfTypes, Channels!Channels
<1>2. Channels!IdentifiersAreDisjoint /\ Channels!NoChannelLeaks
  BY DEF Channels!Init, Channels!IdentifiersAreDisjoint, Channels!NoChannelLeaks,
       Channels!Channels
<1>3. Channels!TransfersKeepTheirChannel
  BY DEF Channels!Init, Channels!TransfersKeepTheirChannel, Channels!Channels
<1>4. ReceptionInv
  BY DEF Channels!Init, ReceptionInv, Channels!NothingOutlivesRelease,
       InterruptedIsOwned, Channels!Channels
<1>5. QED
  BY <1>1, <1>2, <1>3, <1>4 DEF ChannelsInv

\* A call keeps the invariants; a release made in an abort report can leave the
\* interrupted frame to a channel that is no longer its own.
LEMMA CallsPreserve ==
  ASSUME Channels!TransportAssumption, ChannelsInv, NEW kinds, Channels!Calls(kinds)
  PROVE  /\ ChannelsInv'
         /\ ReceptionInv /\ ("release" \notin kinds \/ interrupted = Channels!NoFrame)
              => ReceptionInv'
<1>1. PICK id \in Ids, other \in Ids :
        \/ Channels!RegisterReceiveChannel(id, other)
        \/ "release" \in kinds /\ Channels!ReleaseChannel(id)
        \/ \E fits \in BOOLEAN : Channels!SendPdu(id, other, fits)
  BY DEF Channels!Calls
<1>2. CASE Channels!RegisterReceiveChannel(id, other)
  BY <1>2, RegisteringPreserves
<1>3. CASE "release" \in kinds /\ Channels!ReleaseChannel(id)
  BY <1>3, ReleasingPreserves
<1>4. CASE \E fits \in BOOLEAN : Channels!SendPdu(id, other, fits)
  BY <1>4, SendingPreserves
<1>5. QED
  BY <1>1, <1>2, <1>3, <1>4

LEMMA ChannelsStep ==
  ASSUME Channels!TransportAssumption, ChannelsInv, [Channels!Next]_Channels!vars
  PROVE  /\ ChannelsInv'
         /\ ReceptionInv /\ "release" \notin CallsInAbort => ReceptionInv'
<1>1. CASE Channels!ApplicationCalls
  BY <1>1, CallsPreserve DEF Channels!ApplicationCalls
<1>2. CASE Channels!CallsInAbortReport
  BY <1>2, CallsPreserve DEF Channels!CallsInAbortReport
<1>3. CASE \E id \in Ids, type \in {"single", "first", "consecutive", "flowControl"} :
             Channels!ProcessFrame(id, type)
  BY <1>3, FramesPreserve
<1>4. CASE Channels!ProcessFrameGoesOn
  BY <1>4, GoingOnPreserves
<1>5. CASE \E c \in Channels!Channels : Channels!TransferEnds(c) \/ Channels!ReceptionEnds(c)
  BY <1>5, EndsPreserve
<1>6. CASE UNCHANGED Channels!vars
  <2>1. UNCHANGED <<occupied, receptionEnabled, rxId, txId, sending, receiving, carried,
                    interrupted>>
    BY <1>6 DEF Channels!vars, Channels!connections, Channels!halves
  <2>2. ChannelsInv'
    BY <2>1 DEF ChannelsInv, ConnectionTypes, HalfTypes,
         Channels!IdentifiersAreDisjoint, Channels!NoChannelLeaks,
                Channels!TransfersKeepTheirChannel, Channels!Channels, Interruptions
  <2>3. ReceptionInv => ReceptionInv'
    BY <2>1 DEF ReceptionInv, Channels!NothingOutlivesRelease, InterruptedIsOwned,
         Channels!Channels
  <2>4. QED
    BY <2>2, <2>3
<1>7. QED
  BY <1>1, <1>2, <1>3, <1>4, <1>5, <1>6 DEF Channels!Next

-----------------------------------------------------------------------------
(* The theorems about the channels *)

\* A step of the composition is one of the channels or none of theirs.
LEMMA ChannelsSteps ==
  ASSUME [MCNext]_mcVars
  PROVE  [Channels!Next]_Channels!vars
<1>1. UNCHANGED channelsVars => UNCHANGED Channels!vars
  BY DEF channelsVars, Channels!vars, Channels!connections, Channels!halves
<1>2. QED
  BY <1>1, Zenon DEF MCNext, OfSender, OfReceiver, OfLink, OfChannels, mcVars

\* The invariant holds in every reachable state, whatever the application calls.
THEOREM ChannelsInvariance == MCSpec => []ChannelsInv
<1>1. MCInit => ChannelsInv
  BY PartsAssumption, ChannelsInit DEF MCInit
<1>2. ChannelsInv /\ [MCNext]_mcVars => ChannelsInv'
  BY PartsAssumption, ChannelsSteps, ChannelsStep
<1>3. QED
  BY <1>1, <1>2, PTL DEF MCSpec

\* FindChannel finds at most one channel for an identifier: OpenConnection never
\* gives an identifier to two channels, in whatever order they are registered,
\* opened for a PDU and released.  The channel that SendPdu opens for a PDU it
\* then refuses is released again: an open channel was registered or has carried
\* a PDU.
THEOREM ChannelsShareNoIdentifier == MCSpec => []IdentifiersAreDisjoint
<1>1. ChannelsInv => IdentifiersAreDisjoint
  BY DEF ChannelsInv, IdentifiersAreDisjoint
<1>2. QED
  BY <1>1, ChannelsInvariance, PTL

\* Release ends the transfer of the channel: none goes on under identifiers that
\* are not its channel's.
THEOREM TransfersAreOwned == MCSpec => []Channels!TransfersKeepTheirChannel
<1>1. ChannelsInv => Channels!TransfersKeepTheirChannel
  BY DEF ChannelsInv
<1>2. QED
  BY <1>1, ChannelsInvariance, PTL

\* A reception belongs to a channel registered for its identifier, provided that
\* the application does not release channels in the report of an aborted
\* reception: the handler that made the report goes on with its frame.
THEOREM ReceptionsAreOwned ==
  ASSUME "release" \notin CallsInAbort
  PROVE  MCSpec => []NothingOutlivesRelease
<1> DEFINE Both == ChannelsInv /\ ReceptionInv
<1>1. MCInit => Both
  BY PartsAssumption, ChannelsInit DEF MCInit
<1>2. Both /\ [MCNext]_mcVars => Both'
  BY PartsAssumption, ChannelsSteps, ChannelsStep
<1>3. Both => NothingOutlivesRelease
  BY DEF ChannelsInv, ReceptionInv, NothingOutlivesRelease
<1>4. QED
  BY <1>1, <1>2, <1>3, PTL DEF MCSpec

=============================================================================
