----------------------------- MODULE IsoTpSender -----------------------------
(***************************************************************************)
(* The sending half of an ISO-TP channel: iso_tp::IsoTpSender              *)
(* (can-lite/transport/iso-tp/IsoTpSender.cpp), with the transport below   *)
(* it and the peer as environment.                                         *)
(*                                                                         *)
(* A frame handed down is either refused, which calls onDone(false) from   *)
(* inside the call and so aborts the transfer at once, or its completion   *)
(* is owed.  CanFrameTransport sends the frames of one identifier in order *)
(* and one at a time, so completions arrive in order, except that a frame  *)
(* not yet sent may be displaced.  A completion can be arbitrarily late,   *)
(* also after its transfer has ended or the peer has answered.             *)
(*                                                                         *)
(* onDone and onAbort are called last in every handler, so what the        *)
(* application does in them is the next step.                              *)
(***************************************************************************)
EXTENDS IsoTpFrameCodec

CONSTANTS Pdus,          \* the PDUs applications ask to send
          MaxPduSize,    \* capacity of the PDU buffer
          FlowControls,  \* the flow control frames the peer may send
          nWftMax,       \* wait frames tolerated in a row (16)
          TokenModulus,  \* transfer is a uint8_t (256)
          MaxOwed,       \* frames the transport accepts at a time
          MaxTransfers,  \* bound: transfers accepted
          MaxResets      \* bound: releases of the channel

\* What the constants are assumed to be.
SenderAssumption ==
  /\ Pdus \subseteq Seq(Byte)
  /\ FlowControls \subseteq Seq(Byte)
  /\ {MaxPduSize, nWftMax, MaxOwed, MaxTransfers, MaxResets} \subseteq Nat
  /\ TokenModulus \in Nat \ {0}

VARIABLES
  state, pduBuffer, bytesSent, sequenceNumber, blockSize, blocksRemaining,
  stMinByte, waitCount,
  transfer,     \* the token of the current transfer
  timers,       \* nAsTimer, nBsTimer, stMinTimer: those that run
  owed,         \* external: frames accepted whose completion is due
  accepted,     \* history: transfers accepted
  ended,        \* history: transfers that ended, in any way
  outcome,      \* history: how the last one ended
  resets        \* history: releases so far

transferVars == <<pduBuffer, bytesSent, sequenceNumber, blockSize,
                  blocksRemaining, stMinByte, waitCount>>
senderVars == <<state, transfer, timers, transferVars>>
historyVars == <<accepted, ended, outcome, resets>>
vars == <<senderVars, owed, historyVars>>

AbortReason == {"nBsTimeout", "overflow", "unexpectedFrame",
                "waitLimitExceeded", "sendFailed", "nAsTimeout"}

\* A frame handed down: the token and what its completion is for, the number
\* of its transfer (history) and whether it has reached the bus (external).
Frame(bytes, token, role, no) ==
  [bytes |-> bytes, token |-> token, role |-> role, no |-> no, sent |-> FALSE]

TypeOK ==
  /\ state \in {"idle", "sendingSf", "waitingForFc", "sendingCf"}
  /\ pduBuffer \in Pdus \cup {<<>>}
  /\ bytesSent \in 0 .. ffMaxPduLength
  /\ sequenceNumber \in 0 .. snModulus - 1
  /\ {blockSize, blocksRemaining, stMinByte} \subseteq Byte
  /\ waitCount \in 0 .. nWftMax + 1
  /\ transfer \in 0 .. TokenModulus - 1
  /\ timers \subseteq {"nAs", "nBs", "stMin"}
  /\ Len(owed) <= MaxOwed
  /\ \A i \in DOMAIN owed : owed[i].no \in 1 .. accepted
  /\ {accepted, ended} \subseteq 0 .. MaxTransfers
  /\ outcome \in AbortReason \cup {"none", "done", "released"}
  /\ resets \in 0 .. MaxResets

Init ==
  /\ state = "idle"
  /\ pduBuffer = <<>>
  /\ bytesSent = 0
  /\ sequenceNumber = 1
  /\ blockSize = 0 /\ blocksRemaining = 0 /\ stMinByte = 0 /\ waitCount = 0
  /\ transfer = 0
  /\ timers = {}
  /\ owed = <<>>
  /\ accepted = 0 /\ ended = 0 /\ outcome = "none" /\ resets = 0

-----------------------------------------------------------------------------
(* Ends of a transfer *)

Next1(token) == (token + 1) % TokenModulus

\* A mutant: the timers run on.
ClearKeepingTimers(token) ==
  /\ state' = "idle"
  /\ transfer' = Next1(token)
  /\ UNCHANGED timers

\* Clear: ++transfer from `token', the transfer's own.
Clear(token) ==
  /\ timers' = {}
  /\ state' = "idle"
  /\ transfer' = Next1(token)

Ends(how) ==
  /\ ended' = ended + 1
  /\ outcome' = how

Abort(token, reason) ==
  /\ Clear(token)
  /\ Ends(reason)

\* Complete, called after N_As was cancelled.
Complete ==
  /\ state' = "idle"
  /\ transfer' = Next1(transfer)
  /\ timers' = timers \ {"nAs"}
  /\ Ends("done")

-----------------------------------------------------------------------------
(* Handing a frame down *)

\* The timers running once `timer' is started; a mutant: it is not.
NotStarted(running, timer) == running
Started(running, timer) == running \cup {timer}

\* sendFrameFunc, with the state and the timer set before it is called, next to
\* the timers already `running'.  What is refused fails inside the call.
HandDown(remainingOwed, running, bytes, token, no, role, newState, timer) ==
  \/ /\ Len(remainingOwed) < MaxOwed
     /\ owed' = Append(remainingOwed, Frame(bytes, token, role, no))
     /\ state' = newState
     /\ transfer' = token
     /\ timers' = Started(running, timer)
     /\ UNCHANGED <<ended, outcome>>
  \/ /\ owed' = remainingOwed
     /\ Abort(token, "sendFailed")

\* IsoTpSender::Send of a PDU it accepts; one it refuses changes nothing.
Send(pdu) ==
  /\ pdu # <<>>
  /\ Len(pdu) <= ffMaxPduLength
  /\ state = "idle"
  /\ Len(pdu) <= MaxPduSize
  /\ accepted < MaxTransfers
  /\ pduBuffer' = pdu
  /\ sequenceNumber' = 1
  /\ blockSize' = 0 /\ blocksRemaining' = 0 /\ stMinByte' = 0 /\ waitCount' = 0
  /\ accepted' = accepted + 1
  /\ IF Len(pdu) <= sfMaxPayloadBytes
     THEN /\ bytesSent' = 0
          /\ HandDown(owed, timers, EncodeSingleFrame(pdu), Next1(transfer),
                      accepted + 1, "single", "sendingSf", "nAs")
     ELSE /\ bytesSent' = ffFirstDataBytes
          /\ HandDown(owed, timers, EncodeFirstFrame(pdu), Next1(transfer),
                      accepted + 1, "first", "waitingForFc", "nBs")
  /\ UNCHANGED resets

\* Whether no byte is left to send; a mutant: a frame may be.
NearlyAllSent(sent) == sent + cfMaxDataBytes >= Len(pduBuffer)
AllSent(sent) == sent >= Len(pduBuffer)

\* SendNextConsecutiveFrame, with `remaining' frames of the block to go.
SendNextConsecutiveFrame(remainingOwed, running, size, remaining) ==
  LET rest == SubSeq(pduBuffer, bytesSent + 1, Len(pduBuffer))
      frame == EncodeConsecutiveFrame(sequenceNumber, rest)
      allSent == AllSent(bytesSent + Len(frame) - 1)
      counted == IF ~allSent /\ size # 0 /\ remaining > 0 THEN remaining - 1
                                                          ELSE remaining
      blockEnd == ~allSent /\ size # 0 /\ counted = 0
  IN /\ sequenceNumber' = (sequenceNumber + 1) % snModulus
     /\ bytesSent' = bytesSent + Len(frame) - 1
     /\ blocksRemaining' = counted
     /\ blockSize' = size
     /\ IF blockEnd
        THEN HandDown(remainingOwed, running, frame, transfer, accepted, "blockEnd",
                      "waitingForFc", "nBs")
        ELSE HandDown(remainingOwed, running, frame, transfer, accepted,
                      IF allSent THEN "last" ELSE "next", "sendingCf", "nAs")
     /\ UNCHANGED <<pduBuffer, accepted>>

\* ScheduleNextCf: after the separation time, or at once.
ScheduleNextCf(remainingOwed, running, size, remaining, stMin) ==
  IF StMinToDuration(stMin) > 0
  THEN /\ state' = "sendingCf"
       /\ timers' = Started(running, "stMin")
       /\ owed' = remainingOwed
       /\ blockSize' = size /\ blocksRemaining' = remaining
       /\ UNCHANGED <<transfer, pduBuffer, bytesSent, sequenceNumber,
                      accepted, ended, outcome>>
  ELSE SendNextConsecutiveFrame(remainingOwed, running, size, remaining)

-----------------------------------------------------------------------------
(* What the peer, the driver, the timers and the application do *)

TooManyWaits(count) == count > nWftMax

\* IsoTpSender::ProcessFlowControl while flow control is awaited; in every
\* other state the frame is ignored.
FlowControl(frame) ==
  LET fc == DecodeFlowControl(frame)
  IN /\ state = "waitingForFc"
     /\ \/ /\ ~IsFlowControl(frame)
           /\ Abort(transfer, "unexpectedFrame")
           /\ UNCHANGED <<transferVars, owed>>
        \/ /\ IsFlowControl(frame) /\ fc.fs = "overflow"
           /\ Abort(transfer, "overflow")
           /\ UNCHANGED <<transferVars, owed>>
        \/ /\ IsFlowControl(frame) /\ fc.fs = "wait"
           /\ waitCount' = waitCount + 1
           /\ IF TooManyWaits(waitCount + 1)
              THEN Abort(transfer, "waitLimitExceeded")
              ELSE /\ timers' = timers \cup {"nBs"}
                   /\ UNCHANGED <<state, transfer, ended, outcome>>
           /\ UNCHANGED <<pduBuffer, bytesSent, sequenceNumber, blockSize,
                          blocksRemaining, stMinByte, owed>>
        \/ /\ IsFlowControl(frame) /\ fc.fs = "continueToSend"
           /\ waitCount' = 0
           /\ stMinByte' = fc.stMin
           /\ ScheduleNextCf(owed, timers \ {"nBs"}, fc.blockSize, fc.blockSize, fc.stMin)
     /\ UNCHANGED <<accepted, resets>>

\* external: the oldest frame reaches the bus.
Transmitted ==
  /\ owed # <<>> /\ ~owed[1].sent
  /\ owed' = [owed EXCEPT ![1].sent = TRUE]
  /\ UNCHANGED <<senderVars, historyVars>>

\* external: which completions the transport may report.
MayComplete(i, success) ==
  /\ success => i = 1 /\ owed[i].sent
  /\ ~success => ~owed[i].sent

\* The completion of a frame of the current transfer.
CompletionCounts(e, success, remainingOwed) ==
  CASE e.role \in {"first", "blockEnd"} ->
         IF success
         THEN /\ owed' = remainingOwed
              /\ UNCHANGED <<senderVars, accepted, ended, outcome>>
         ELSE /\ owed' = remainingOwed
              /\ Abort(transfer, "sendFailed")
              /\ UNCHANGED <<transferVars, accepted>>
    [] e.role \in {"single", "next", "last"} /\ ~success ->
         /\ owed' = remainingOwed
         /\ Abort(transfer, "sendFailed")
         /\ UNCHANGED <<transferVars, accepted>>
    [] e.role \in {"single", "last"} /\ success ->
         /\ owed' = remainingOwed
         /\ Complete
         /\ UNCHANGED <<transferVars, accepted>>
    [] e.role = "next" /\ success ->
         /\ IF state = "sendingCf"
            THEN ScheduleNextCf(remainingOwed, timers \ {"nAs"}, blockSize,
                                blocksRemaining, stMinByte)
            ELSE /\ owed' = remainingOwed
                 /\ timers' = timers \ {"nAs"}
                 /\ UNCHANGED <<state, transfer, pduBuffer, bytesSent,
                                sequenceNumber, blockSize, blocksRemaining,
                                accepted, ended, outcome>>
         /\ UNCHANGED <<stMinByte, waitCount>>

\* Whether a completion is of the current transfer; a mutant: always.
AnyIsCurrent(e) == TRUE
IsCurrent(e) == e.token = transfer

Completion(i, success) ==
  /\ MayComplete(i, success)
  /\ LET remainingOwed == RemoveAt(owed, i)
     IN IF IsCurrent(owed[i])
        THEN CompletionCounts(owed[i], success, remainingOwed)
        ELSE /\ owed' = remainingOwed
             /\ UNCHANGED <<senderVars, accepted, ended, outcome>>
  /\ UNCHANGED resets

NBsTimeout ==
  /\ "nBs" \in timers
  /\ Abort(transfer, "nBsTimeout")
  /\ UNCHANGED <<transferVars, owed, accepted, resets>>

NAsTimeout ==
  /\ "nAs" \in timers
  /\ Abort(transfer, "nAsTimeout")
  /\ UNCHANGED <<transferVars, owed, accepted, resets>>

StMinTimeout ==
  /\ "stMin" \in timers
  /\ SendNextConsecutiveFrame(owed, timers \ {"stMin"}, blockSize, blocksRemaining)
  /\ UNCHANGED <<stMinByte, waitCount, resets>>

\* IsoTpSender::Reset, when the channel is released: no report.
Reset ==
  /\ resets < MaxResets
  /\ resets' = resets + 1
  /\ Clear(transfer)
  /\ IF state = "idle" THEN UNCHANGED <<ended, outcome>> ELSE Ends("released")
  /\ UNCHANGED <<transferVars, owed, accepted>>

Next ==
  \/ \E pdu \in Pdus : Send(pdu)
  \/ \E frame \in FlowControls : FlowControl(frame)
  \/ Transmitted
  \/ \E i \in DOMAIN owed, success \in BOOLEAN : Completion(i, success)
  \/ NBsTimeout
  \/ NAsTimeout
  \/ StMinTimeout
  \/ Reset

Spec == Init /\ [][Next]_vars

-----------------------------------------------------------------------------
(* Properties *)

\* Whatever state the sender waits in, a timer will take it out: N_Bs for flow
\* control, N_As for a completion, STmin for the next frame, and no other timer
\* runs that could abort it for what it does not wait for.
WaitIsTimed ==
  /\ state = "idle" => timers = {}
  /\ state = "sendingSf" => timers = {"nAs"}
  /\ state = "waitingForFc" => timers = {"nBs"}
  /\ state = "sendingCf" => timers \in {{"nAs"}, {"stMin"}}

\* Every accepted transfer ends once: by its completion, its abort or the
\* release of the channel, and no late completion ends one that has ended.
EndsOnce == accepted = ended + (IF state = "idle" THEN 0 ELSE 1)

\* While N_As runs the frame it watches is the newest one handed down, and only
\* a frame of the current transfer is watched.
WatchedFrameIsOwed ==
  "nAs" \in timers =>
    /\ owed # <<>>
    /\ LET e == owed[Len(owed)]
       IN /\ IsCurrent(e) /\ e.no = accepted
          /\ e.role \in {"single", "next", "last"}

\* A completion of a transfer that has ended changes nothing in the sender:
\* neither does it abort the transfer that followed nor complete it.
StaleCompletionsIgnored ==
  [][\A i \in DOMAIN owed :
       /\ owed' = RemoveAt(owed, i)
       /\ owed[i].no < accepted \/ ended = accepted
       => UNCHANGED <<senderVars, ended, outcome>>]_<<senderVars, owed, ended, outcome>>

\* A transfer reports success only when its last byte has been on the bus.
DoneMeansSent ==
  [][outcome' = "done" /\ ended' # ended =>
       \E i \in DOMAIN owed :
         /\ owed[i].no = accepted /\ owed[i].sent
         /\ owed[i].role \in {"single", "last"}
         /\ owed[i].role = "last" => bytesSent = Len(pduBuffer)]_vars

\* Every accepted transfer ends, even if the driver never reports and the peer
\* sends nothing or asks to wait for ever.
EveryTransferEnds == []<>(ended = accepted)

=============================================================================
