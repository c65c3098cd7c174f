------------------------------ MODULE IsoTpLink ------------------------------
(***************************************************************************)
(* One direction of an ISO-TP connection: the sender of one node, the      *)
(* receiver of another and the frames between them.  The bus delivers the  *)
(* frames of one identifier in order; a frame may be lost, as when the     *)
(* receiving server's rate limit drops it.  What segmentation promises is  *)
(* PduDelivery, which this module is shown to implement.                   *)
(*                                                                         *)
(* The timers are longer than the bus and the drivers are slow, or else    *)
(* they are late: a frame may still be under way when a timer fires that   *)
(* was started for its answer.                                             *)
(***************************************************************************)
EXTENDS Integers, Sequences

CONSTANTS Lengths,         \* lengths of the PDUs sent
          MaxPduSize, BlockSize, SeparationTime, nWftMax, TokenModulus,
          MaxOwed, MaxTransfers

VARIABLES
  state, pduBuffer, bytesSent, sequenceNumber, blockSize, blocksRemaining,
  stMinByte, waitCount, transfer, timers, owed, accepted, ended, outcome, resets,
  rState, assemblyBuffer, expectedTotalLength, expectedSn, framesInBlock,
  reception, nCrTimer, rOwed, started, rEnded, reports, delivered, rResets,
  toReceiver, toSender,   \* frames under way, in order
  offered,                \* history: the PDUs accepted for sending
  headless                \* history: a first frame was lost, alone or in front
                          \* of frames of its transfer that may still follow

\* The n-th PDU sent, different from every other in every byte it shows.
PduOf(n, length) == [i \in 1 .. length |-> (64 * (n - 1)) + (i % 64)]

AllPdus == {PduOf(n, length) : n \in 1 .. MaxTransfers, length \in Lengths}

S == INSTANCE IsoTpSender WITH
       Pdus <- AllPdus, FlowControls <- {}, MaxResets <- 0

R == INSTANCE IsoTpReceiver WITH
       Frames <- {}, MaxReceptions <- MaxTransfers, MaxResets <- 0,
       state <- rState, owed <- rOwed, ended <- rEnded, resets <- rResets

\* What the constants are assumed to be.
LinkAssumption == S!SenderAssumption /\ R!ReceiverAssumption

senderVars == <<state, pduBuffer, bytesSent, sequenceNumber, blockSize,
                blocksRemaining, stMinByte, waitCount, transfer, timers, owed,
                accepted, ended, outcome, resets>>
receiverVars == <<rState, assemblyBuffer, expectedTotalLength, expectedSn,
                  framesInBlock, reception, nCrTimer, rOwed, started, rEnded,
                  reports, delivered, rResets>>
senderSide == <<senderVars, offered>>
bus == <<toReceiver, toSender, headless>>
vars == <<senderVars, receiverVars, bus, offered>>

Init ==
  /\ S!Init
  /\ R!Init
  /\ toReceiver = <<>> /\ toSender = <<>>
  /\ offered = <<>>
  /\ headless = FALSE

-----------------------------------------------------------------------------

SendPdu(length) ==
  /\ S!Send(PduOf(accepted + 1, length))
  /\ offered' = Append(offered, PduOf(accepted + 1, length))
  /\ UNCHANGED <<receiverVars, bus>>

\* A frame of either node reaches the bus.
SenderTransmits ==
  /\ S!Transmitted
  /\ toReceiver' = Append(toReceiver, owed[1].bytes)
  /\ UNCHANGED <<receiverVars, toSender, headless, offered>>

ReceiverTransmits ==
  /\ R!Transmitted
  /\ toSender' = Append(toSender, rOwed[1].bytes)
  /\ UNCHANGED <<senderSide, toReceiver, headless>>

ReceiverGetsFrame ==
  /\ toReceiver # <<>>
  /\ toReceiver' = Tail(toReceiver)
  /\ \/ R!ProcessFrame(Head(toReceiver))
     \/ R!Ignores(Head(toReceiver)) /\ UNCHANGED receiverVars
  /\ UNCHANGED <<senderSide, toSender, headless>>

SenderGetsFrame ==
  /\ toSender # <<>>
  /\ toSender' = Tail(toSender)
  /\ \/ S!FlowControl(Head(toSender))
     \/ state # "waitingForFc" /\ UNCHANGED senderVars
  /\ UNCHANGED <<receiverVars, toReceiver, headless, offered>>

\* A frame of one of these types is lost.
FrameLost(types) ==
  /\ \/ /\ toReceiver # <<>>
        /\ S!DecodeFrameType(Head(toReceiver)) \in types
        /\ toReceiver' = Tail(toReceiver)
        /\ headless' = (headless \/ S!DecodeFrameType(Head(toReceiver)) = "firstFrame")
        /\ UNCHANGED toSender
     \/ /\ toSender # <<>>
        /\ "flowControl" \in types
        /\ toSender' = Tail(toSender)
        /\ UNCHANGED <<toReceiver, headless>>
  /\ UNCHANGED <<senderVars, receiverVars, offered>>

\* A first frame fails while frames of its own transfer wait behind it.
LosesFirstFrame(i, success) ==
  /\ ~success /\ owed[i].role = "first"
  /\ \E j \in DOMAIN owed : j > i /\ owed[j].no = owed[i].no

SenderCompletion ==
  /\ \E i \in DOMAIN owed, success \in BOOLEAN :
       /\ S!Completion(i, success)
       /\ headless' = (headless \/ LosesFirstFrame(i, success))
  /\ UNCHANGED <<receiverVars, toReceiver, toSender, offered>>

ReceiverCompletion ==
  /\ \E i \in DOMAIN rOwed, success \in BOOLEAN : R!Completion(i, success)
  /\ UNCHANGED <<senderSide, bus>>

SeparationTimeOver ==
  /\ S!StMinTimeout
  /\ UNCHANGED <<receiverVars, bus, offered>>

\* No frame is under way or waiting to be sent that the timers wait for.
Quiet == toReceiver = <<>> /\ toSender = <<>> /\ owed = <<>> /\ rOwed = <<>>

SenderTimeout(late) ==
  /\ late \/ Quiet
  /\ S!NBsTimeout \/ S!NAsTimeout
  /\ UNCHANGED <<receiverVars, bus, offered>>

ReceiverTimeout(late) ==
  /\ late \/ (Quiet /\ "stMin" \notin timers)
  /\ R!NCrTimeout
  /\ UNCHANGED <<senderSide, bus>>

\* What the nodes do.
Works(late) ==
  \/ \E length \in Lengths : SendPdu(length)
  \/ SenderTransmits
  \/ ReceiverTransmits
  \/ ReceiverGetsFrame
  \/ SenderGetsFrame
  \/ SenderCompletion
  \/ ReceiverCompletion
  \/ SeparationTimeOver
  \/ SenderTimeout(late)
  \/ ReceiverTimeout(late)

\* `losable': the types of the frames the bus may lose.
Next(late, losable) == Works(late) \/ FrameLost(losable)

-----------------------------------------------------------------------------
(* Properties *)

\* The number of the PDU a byte of it shows.
NumberOf(byte) == (byte \div 64) + 1

\* The number of the PDU delivered last.
LastDelivered ==
  IF delivered = <<>> THEN 0
  ELSE LET pdu == delivered[Len(delivered)] IN NumberOf(pdu[Len(pdu)])

\* A transfer reported done whose frames all arrived is delivered: if nothing
\* is lost, the receiver has, or will have, every PDU the sender was told of.
DoneIsDelivered ==
  \A n \in 1 .. MaxTransfers :
    (ended = n /\ outcome = "done") ~>
       \E k \in DOMAIN delivered : NumberOf(delivered[k][1]) = n

\* Both ends come to rest again after every transfer, whatever was lost.
LinkComesToRest == []<>(state = "idle" /\ rState = "idle")

=============================================================================
