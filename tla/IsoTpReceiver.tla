---------------------------- MODULE IsoTpReceiver ----------------------------
(***************************************************************************)
(* The receiving half of an ISO-TP channel: iso_tp::IsoTpReceiver          *)
(* (can-lite/transport/iso-tp/IsoTpReceiver.cpp), with the peer and the    *)
(* transport below it as environment.  A flow control frame is refused, or *)
(* its completion is owed, in order, as for IsoTpSender.                   *)
(*                                                                         *)
(* The abort callback of a superseded reception runs in the middle of a    *)
(* handler; what it may do to the channel is the subject of IsoTpTransport.*)
(* All other callbacks run last.                                           *)
(***************************************************************************)
EXTENDS IsoTpFrameCodec

CONSTANTS Frames,          \* what the peer may send
          MaxPduSize,      \* capacity of the assembly buffer
          BlockSize, SeparationTime,   \* IsoTpTransportImpl::Config
          TokenModulus,    \* reception is a uint8_t (256)
          MaxOwed,         \* flow control frames the transport accepts at a time
          MaxReceptions,   \* bound: single and first frames accepted
          MaxResets        \* bound: releases of the channel

\* What the constants are assumed to be; a CAN frame has at most eight bytes.
ReceiverAssumption ==
  /\ Frames \subseteq Seq(Byte)
  /\ \A frame \in Frames : Len(frame) <= 8
  /\ {MaxPduSize, MaxOwed, MaxReceptions, MaxResets} \subseteq Nat
  /\ {BlockSize, SeparationTime} \subseteq Byte
  /\ TokenModulus \in Nat \ {0}

VARIABLES
  state, assemblyBuffer, expectedTotalLength, expectedSn, framesInBlock,
  reception,     \* the token of the current reception
  nCrTimer,
  owed,          \* external: flow control frames whose completion is due
  started,       \* history: single and first frames taken
  ended,         \* history: how many of them ended, in any way
  reports,       \* history: how the last one ended
  delivered,     \* history: the PDUs handed up
  resets         \* history: releases so far

assemblyVars == <<assemblyBuffer, expectedTotalLength, expectedSn, framesInBlock>>
receiverVars == <<state, reception, nCrTimer, assemblyVars>>
historyVars == <<started, ended, reports, delivered, resets>>
vars == <<receiverVars, owed, historyVars>>

TypeOK ==
  /\ state \in {"idle", "receivingCf"}
  /\ assemblyBuffer \in Seq(Byte) /\ Len(assemblyBuffer) <= MaxPduSize
  /\ expectedTotalLength \in 0 .. ffMaxPduLength
  /\ expectedSn \in 0 .. snModulus - 1
  /\ framesInBlock \in Byte
  /\ reception \in 0 .. TokenModulus - 1
  /\ nCrTimer \in BOOLEAN
  /\ Len(owed) <= MaxOwed
  /\ \A i \in DOMAIN owed : owed[i].no \in 1 .. started
  /\ {started, ended} \subseteq 0 .. MaxReceptions
  /\ reports \in {"none", "delivered", "released", "unexpectedFrame",
                  "overflow", "nCrTimeout", "sendFailed"}
  /\ Len(delivered) <= started
  /\ resets \in 0 .. MaxResets

Init ==
  /\ state = "idle"
  /\ assemblyBuffer = <<>>
  /\ expectedTotalLength = 0 /\ expectedSn = 1 /\ framesInBlock = 0
  /\ reception = 0
  /\ nCrTimer = FALSE
  /\ owed = <<>>
  /\ started = 0 /\ ended = 0 /\ reports = "none" /\ delivered = <<>> /\ resets = 0

Next1(token) == (token + 1) % TokenModulus

Receiving == state # "idle"

\* Clear: ++reception from `token', the reception's own.
Clear(token) ==
  /\ state' = "idle"
  /\ nCrTimer' = FALSE
  /\ assemblyBuffer' = <<>>
  /\ reception' = Next1(token)
  /\ UNCHANGED <<expectedTotalLength, expectedSn, framesInBlock>>

Ends(number, how) ==
  /\ ended' = number
  /\ reports' = how

\* A mutant: the reception a new one replaces is not reported.
SupersededSilently == ended

\* The token and the ended receptions after EndSupersededReception.
TokenAfterSuperseded == IF Receiving THEN Next1(reception) ELSE reception
EndedAfterSuperseded == IF Receiving THEN ended + 1 ELSE ended

FlowControlOwed(status, token, no) ==
  [bytes |-> EncodeFlowControl(status, BlockSize, SeparationTime),
   status |-> status, token |-> token, no |-> no, sent |-> FALSE]

\* SendFlowControl(continueToSend), the last thing a handler does: what is
\* refused fails inside the call and ends the reception.
SendContinue(token, no, endedBefore) ==
  \/ /\ Len(owed) < MaxOwed
     /\ owed' = Append(owed, FlowControlOwed("continueToSend", token, no))
     /\ state' = "receivingCf" /\ nCrTimer' = TRUE
     /\ reception' = token
     /\ ended' = endedBefore
     /\ reports' = IF endedBefore = ended THEN reports ELSE "unexpectedFrame"
  \/ /\ state' = "idle" /\ nCrTimer' = FALSE
     /\ reception' = Next1(token)
     /\ Ends(endedBefore + 1, "sendFailed")
     /\ UNCHANGED owed

\* The buffer as SendContinue leaves it: Clear empties it.
BufferIs(buffer) == assemblyBuffer' = IF state' = "idle" THEN <<>> ELSE buffer

\* Whether the buffer can hold a PDU; a mutant: never refused.
AlwaysFits(len) == TRUE
Fits(len) == len <= MaxPduSize

TakesSingleFrame(frame) ==
  LET len == DecodeSingleFrameLength(frame)
  IN /\ DecodeFrameType(frame) = "singleFrame"
     /\ len # 0 /\ len <= sfMaxPayloadBytes /\ len <= Len(frame) - 1

HandleSingleFrame(frame) ==
  LET len == DecodeSingleFrameLength(frame)
  IN /\ TakesSingleFrame(frame)
     /\ started < MaxReceptions
     /\ started' = started + 1
     /\ state' = "idle" /\ nCrTimer' = FALSE
     /\ assemblyBuffer' = <<>>
     /\ \/ /\ ~Fits(len)
           /\ reception' = Next1(TokenAfterSuperseded)
           /\ Ends(EndedAfterSuperseded + 1, "overflow")
           /\ UNCHANGED delivered
        \/ /\ Fits(len)
           /\ reception' = TokenAfterSuperseded
           /\ Ends(EndedAfterSuperseded + 1, "delivered")
           /\ delivered' = Append(delivered, SubSeq(frame, 2, len + 1))
     /\ UNCHANGED <<expectedTotalLength, expectedSn, framesInBlock, owed, resets>>

\* A mutant: a reception is not superseded.
TakesFirstFrameIfIdle(frame) ==
  /\ ~Receiving
  /\ DecodeFrameType(frame) = "firstFrame"
  /\ DecodeFirstFrameTotalLength(frame) > sfMaxPayloadBytes

TakesFirstFrame(frame) ==
  /\ DecodeFrameType(frame) = "firstFrame"
  /\ Len(frame) >= 8
  /\ DecodeFirstFrameTotalLength(frame) > sfMaxPayloadBytes

HandleFirstFrame(frame) ==
  LET len == DecodeFirstFrameTotalLength(frame)
  IN /\ TakesFirstFrame(frame)
     /\ started < MaxReceptions
     /\ started' = started + 1
     /\ \/ /\ ~Fits(len)
           /\ \/ /\ Len(owed) < MaxOwed
                 /\ owed' = Append(owed, FlowControlOwed("overflow",
                                           TokenAfterSuperseded, started + 1))
              \/ UNCHANGED owed
           /\ Clear(TokenAfterSuperseded)
           /\ Ends(EndedAfterSuperseded + 1, "overflow")
        \/ /\ Fits(len)
           /\ expectedTotalLength' = len
           /\ expectedSn' = 1
           /\ framesInBlock' = 0
           /\ SendContinue(Next1(TokenAfterSuperseded), started + 1,
                           EndedAfterSuperseded)
           /\ BufferIs(SubSeq(frame, 3, Len(frame)))
     /\ UNCHANGED <<delivered, resets>>

\* Mutation: only a full frame will do.
HasFullLength(frame) == Len(frame) >= 8

HasConsecutiveFrameLength(frame) ==
  LET remaining == expectedTotalLength - Len(assemblyBuffer)
  IN Len(frame) >= 1 + (IF remaining < cfMaxDataBytes THEN remaining
                                                      ELSE cfMaxDataBytes)

\* ContinueBlock: flow control after every BlockSize frames.
ContinueBlock ==
  IF BlockSize = 0 \/ framesInBlock + 1 # BlockSize
  THEN /\ framesInBlock' = IF BlockSize = 0 THEN framesInBlock
                                            ELSE framesInBlock + 1
       /\ nCrTimer' = TRUE
       /\ UNCHANGED <<state, reception, owed, ended, reports>>
  ELSE /\ framesInBlock' = 0
       /\ SendContinue(reception, started, ended)

\* Whether a PDU is complete; a mutant: without its last frame.
IsNearlyWhole(buffer) == Len(buffer) + cfMaxDataBytes > expectedTotalLength
IsWhole(buffer) == Len(buffer) >= expectedTotalLength

InSequence(frame) == DecodeConsecutiveFrameSn(frame) = expectedSn

TakesConsecutiveFrame(frame) ==
  /\ DecodeFrameType(frame) = "consecutiveFrame"
  /\ Receiving /\ HasConsecutiveFrameLength(frame)

HandleConsecutiveFrame(frame) ==
  /\ TakesConsecutiveFrame(frame)
  /\ \/ /\ ~InSequence(frame)
        /\ Clear(reception)
        /\ Ends(ended + 1, "unexpectedFrame")
        /\ UNCHANGED <<owed, delivered>>
     \/ /\ InSequence(frame)
        /\ expectedSn' = (expectedSn + 1) % snModulus
        /\ LET missing == expectedTotalLength - Len(assemblyBuffer)
               buffer == assemblyBuffer \o
                           SubSeq(frame, 2, IF Len(frame) <= missing
                                            THEN Len(frame) ELSE missing + 1)
           IN IF IsWhole(buffer)
              THEN /\ state' = "idle" /\ nCrTimer' = FALSE
                   /\ delivered' = Append(delivered, buffer)
                   /\ assemblyBuffer' = <<>>
                   /\ Ends(ended + 1, "delivered")
                   /\ UNCHANGED <<framesInBlock, reception, owed>>
              ELSE /\ ContinueBlock
                   /\ BufferIs(buffer)
                   /\ UNCHANGED delivered
        /\ UNCHANGED expectedTotalLength
  /\ UNCHANGED <<started, resets>>

Ignores(frame) ==
  ~ (TakesSingleFrame(frame) \/ TakesFirstFrame(frame) \/ TakesConsecutiveFrame(frame))

\* IsoTpReceiver::ProcessFrame of a frame it does not ignore.
ProcessFrame(frame) ==
  \/ HandleSingleFrame(frame)
  \/ HandleFirstFrame(frame)
  \/ HandleConsecutiveFrame(frame)

NCrTimeout ==
  /\ nCrTimer
  /\ Clear(reception)
  /\ Ends(ended + 1, "nCrTimeout")
  /\ UNCHANGED <<owed, started, delivered, resets>>

\* external: the oldest flow control frame reaches the bus.
Transmitted ==
  /\ owed # <<>> /\ ~owed[1].sent
  /\ owed' = [owed EXCEPT ![1].sent = TRUE]
  /\ UNCHANGED <<receiverVars, historyVars>>

\* Mutation: whichever reception it was sent for.
IsContinueWhileReceiving(fc) == fc.status = "continueToSend" /\ Receiving

\* Whether a failed completion ends the reception.
IsCurrent(fc) ==
  /\ fc.status = "continueToSend"
  /\ fc.token = reception
  /\ state = "receivingCf"

Completion(i, success) ==
  /\ success => i = 1 /\ owed[i].sent
  /\ ~success => ~owed[i].sent
  /\ owed' = RemoveAt(owed, i)
  /\ IF ~success /\ IsCurrent(owed[i])
     THEN Clear(reception) /\ Ends(ended + 1, "sendFailed")
     ELSE UNCHANGED <<receiverVars, ended, reports>>
  /\ UNCHANGED <<started, delivered, resets>>

\* IsoTpReceiver::Reset, when the channel is released: no report.
Reset ==
  /\ resets < MaxResets
  /\ resets' = resets + 1
  /\ Clear(reception)
  /\ IF Receiving THEN Ends(ended + 1, "released") ELSE UNCHANGED <<ended, reports>>
  /\ UNCHANGED <<owed, started, delivered>>

Next ==
  \/ \E frame \in Frames : ProcessFrame(frame)
  \/ NCrTimeout
  \/ Transmitted
  \/ \E i \in DOMAIN owed, success \in BOOLEAN : Completion(i, success)
  \/ Reset

Spec == Init /\ [][Next]_vars

-----------------------------------------------------------------------------
(* Properties *)

\* A reception is timed as long as it lasts, holds less than it was declared to
\* and waits for a block shorter than the one it advertised.
ReceptionIsTimed ==
  /\ nCrTimer = Receiving
  /\ Receiving =>
       /\ Len(assemblyBuffer) < expectedTotalLength
       /\ expectedTotalLength <= MaxPduSize
       /\ BlockSize # 0 => framesInBlock < BlockSize
  /\ ~Receiving => assemblyBuffer = <<>>

\* Every reception taken ends once, delivered or reported or released: a new
\* first frame reports the reception it replaces, and no late completion of a
\* flow control frame ends a reception a second time.
EndsOnce == started = ended + (IF Receiving THEN 1 ELSE 0)

\* A flow control frame that fails after its reception has ended does not end
\* the reception that followed.
StaleFailuresIgnored ==
  [][\A i \in DOMAIN owed :
       /\ owed' = RemoveAt(owed, i)
       /\ owed[i].no < started \/ started = ended
       => UNCHANGED <<receiverVars, ended>>]_<<receiverVars, owed, ended>>

\* A peer whose frames carry no data, or that stops, cannot keep a reception.
EveryReceptionEnds == []<>(ended = started)

=============================================================================
