--------------------------- MODULE IsoTpFrameCodec ---------------------------
(***************************************************************************)
(* The frames of ISO 15765-2 as can-lite writes and reads them             *)
(* (can-lite/transport/iso-tp/IsoTpFrameCodec.cpp).  A frame is a sequence *)
(* of at most eight bytes, a byte a number below 256; PDUs are sequences   *)
(* of bytes as well.  Encoders are defined for the arguments the code      *)
(* asserts; decoders for every frame.                                      *)
(***************************************************************************)
EXTENDS Integers, Sequences, SequencesExt

sfMaxPayloadBytes == 7
ffFirstDataBytes == 6
ffMaxPduLength == 4095
cfMaxDataBytes == 7
snModulus == 16          \* snMask + 1

Byte == 0 .. 255

\* The upper half of the first byte, if it is one of the four known ones.
DecodeFrameType(frame) ==
  IF frame = <<>> \/ frame[1] \div 16 > 3
  THEN "unknown"
  ELSE <<"singleFrame", "firstFrame", "consecutiveFrame", "flowControl">>
         [frame[1] \div 16 + 1]

EncodeSingleFrame(pdu) == <<Len(pdu)>> \o pdu

DecodeSingleFrameLength(frame) == IF frame = <<>> THEN 0 ELSE frame[1] % 16

EncodeFirstFrame(pdu) ==
  <<16 + ((Len(pdu) \div 256) % 16), Len(pdu) % 256>>
    \o SubSeq(pdu, 1, ffFirstDataBytes)

DecodeFirstFrameTotalLength(frame) ==
  IF Len(frame) < 2 THEN 0 ELSE ((frame[1] % 16) * 256) + frame[2]

EncodeConsecutiveFrame(sn, remaining) ==
  <<32 + (sn % snModulus)>>
    \o SubSeq(remaining, 1, IF Len(remaining) < cfMaxDataBytes
                            THEN Len(remaining) ELSE cfMaxDataBytes)

DecodeConsecutiveFrameSn(frame) == IF frame = <<>> THEN 0 ELSE frame[1] % snModulus

FlowStatus == {"continueToSend", "wait", "overflow"}

FlowStatusOf(nibble) == <<"continueToSend", "wait", "overflow">>[nibble + 1]

EncodeFlowControl(fs, blockSize, stMin) ==
  <<48 + (CASE fs = "continueToSend" -> 0 [] fs = "wait" -> 1 [] OTHER -> 2),
    blockSize, stMin>>

\* Whether DecodeFlowControl returns true; if so, the three fields it reads.
IsFlowControl(frame) == Len(frame) >= 3 /\ frame[1] % 16 <= 2

DecodeFlowControl(frame) ==
  [fs |-> FlowStatusOf(frame[1] % 16), blockSize |-> frame[2], stMin |-> frame[3]]

\* The separation time in microseconds; what is reserved means the longest.
StMinToDuration(stMin) ==
  CASE stMin <= 127 -> 1000 * stMin
    [] stMin \in 241 .. 249 -> 100 * (stMin - 240)
    [] OTHER -> 127000

=============================================================================
