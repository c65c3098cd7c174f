---------------------------- MODULE IsoTpTransport ----------------------------
(***************************************************************************)
(* services::IsoTpTransportImpl and its channels                           *)
(* (can-lite/transport/IsoTpTransportImpl.cpp,                             *)
(* can-lite/transport/iso-tp/IsoTpChannelImpl.cpp): which channel a call   *)
(* or a frame belongs to.  Of the two halves of a channel, IsoTpSender and *)
(* IsoTpReceiver, only whether they are busy is kept, with the identifier  *)
(* their transfer began under.                                             *)
(*                                                                         *)
(* The abort report of a reception that a new frame supersedes comes in    *)
(* the middle of ProcessFrame, so the calls the application makes in it    *)
(* happen before the rest of the handler (`interrupted').  Every other     *)
(* report is the last thing a handler does.                                *)
(***************************************************************************)
EXTENDS Integers, FiniteSetsExt

CONSTANTS Ids,            \* CAN identifiers, numbers
          MaxChannels,
          CallsInAbort    \* what the application does in an abort report:
                          \* a subset of {"register", "release", "send"}

\* What the constants are assumed to be.
TransportAssumption ==
  Ids \subseteq Nat \ {0} /\ MaxChannels \in Nat /\ CallsInAbort \subseteq STRING

VARIABLES
  occupied, receptionEnabled, rxId, txId,
  sending,      \* the identifier a channel's transfer began under, or NoId
  receiving,    \* the same of its reception
  carried,      \* history: a PDU was accepted since the channel was opened
  interrupted   \* the frame whose handling an abort report interrupts

halves == <<sending, receiving>>
connections == <<occupied, receptionEnabled, rxId, txId>>
vars == <<connections, halves, carried, interrupted>>

Channels == 1 .. MaxChannels
NoId == 0
NoFrame == [channel |-> 0, type |-> "none"]

TypeOK ==
  /\ {occupied, receptionEnabled, carried} \subseteq [Channels -> BOOLEAN]
  /\ {rxId, txId, sending, receiving} \subseteq [Channels -> Ids \cup {NoId}]
  /\ \/ interrupted = NoFrame
     \/ interrupted.channel \in Channels /\ interrupted.type \in {"single", "first"}

Init ==
  /\ occupied = [c \in Channels |-> FALSE]
  /\ receptionEnabled = [c \in Channels |-> FALSE]
  /\ rxId = [c \in Channels |-> NoId] /\ txId = [c \in Channels |-> NoId]
  /\ sending = [c \in Channels |-> NoId] /\ receiving = [c \in Channels |-> NoId]
  /\ carried = [c \in Channels |-> FALSE]
  /\ interrupted = NoFrame

-----------------------------------------------------------------------------
(* Channels *)

FindChannel(id) == {c \in Channels : occupied[c] /\ id \in {rxId[c], txId[c]}}

FindConnection(rx, tx) == {c \in FindChannel(rx) : rxId[c] = rx /\ txId[c] = tx}

FreeChannels == {c \in Channels : ~occupied[c]}

\* Whether OpenConnection finds a channel; a mutant: tx may be in use.
MayOpenIfRxIsFree(rx, tx) == rx # tx /\ FindChannel(rx) = {} /\ FreeChannels # {}
MayOpen(rx, tx) ==
  /\ rx # tx
  /\ FindChannel(rx) = {} /\ FindChannel(tx) = {}
  /\ FreeChannels # {}

OpenConnection(c, rx, tx, enabled) ==
  /\ c = Min(FreeChannels)
  /\ occupied' = [occupied EXCEPT ![c] = TRUE]
  /\ receptionEnabled' = [receptionEnabled EXCEPT ![c] = enabled]
  /\ rxId' = [rxId EXCEPT ![c] = rx]
  /\ txId' = [txId EXCEPT ![c] = tx]

\* What Release leaves of the halves; mutants: one of them goes on.
ReleasedSenderOnly(c) ==
  /\ sending' = [sending EXCEPT ![c] = NoId]
  /\ UNCHANGED receiving
ReleasedReceiverOnly(c) ==
  /\ receiving' = [receiving EXCEPT ![c] = NoId]
  /\ UNCHANGED sending
ResetHalves(c) ==
  /\ sending' = [sending EXCEPT ![c] = NoId]
  /\ receiving' = [receiving EXCEPT ![c] = NoId]

-----------------------------------------------------------------------------
(* Calls of the application; those that are refused change nothing *)

RegisterReceiveChannel(dataId, fcId) ==
  /\ IF FindConnection(dataId, fcId) # {}
     THEN \E c \in FindConnection(dataId, fcId) :
            /\ ~receptionEnabled[c]
            /\ receptionEnabled' = [receptionEnabled EXCEPT ![c] = TRUE]
            /\ UNCHANGED <<occupied, rxId, txId, carried>>
     ELSE /\ MayOpen(dataId, fcId)
          /\ \E c \in FreeChannels :
               /\ OpenConnection(c, dataId, fcId, TRUE)
               /\ carried' = [carried EXCEPT ![c] = FALSE]
  /\ UNCHANGED <<halves, interrupted>>

ReleaseChannel(id) ==
  /\ FindChannel(id) # {}
  /\ LET c == Min(FindChannel(id))
     IN /\ ResetHalves(c)
        /\ occupied' = [occupied EXCEPT ![c] = FALSE]
        /\ receptionEnabled' = [receptionEnabled EXCEPT ![c] = FALSE]
  /\ UNCHANGED <<rxId, txId, carried, interrupted>>

\* IsoTpSender::Send of a PDU it accepts: the transfer is under way, or has been
\* aborted already, when the transport below refused its first frame.
Accepts(c, dataId) ==
  /\ sending[c] = NoId
  /\ \E under \in {dataId, NoId} : sending' = [sending EXCEPT ![c] = under]

\* A channel opened for a PDU it refuses is released; a mutant: it stays open.
RefusedKeepsChannel(c, rx, tx) ==
  /\ OpenConnection(c, rx, tx, FALSE)
  /\ carried' = [carried EXCEPT ![c] = FALSE]
  /\ UNCHANGED sending
RefusedByNewChannel(c, rx, tx) ==
  /\ c = Min(FreeChannels)
  /\ rxId' = [rxId EXCEPT ![c] = rx]
  /\ txId' = [txId EXCEPT ![c] = tx]
  /\ UNCHANGED <<occupied, receptionEnabled, sending, carried>>

\* `fits': whether the PDU has a length the channel can send.
SendPdu(dataId, fcId, fits) ==
  /\ IF FindConnection(fcId, dataId) # {}
     THEN /\ fits
          /\ \E c \in FindConnection(fcId, dataId) :
               /\ Accepts(c, dataId)
               /\ carried' = [carried EXCEPT ![c] = TRUE]
          /\ UNCHANGED connections
     ELSE /\ MayOpen(fcId, dataId)
          /\ \E c \in FreeChannels :
               IF fits
               THEN /\ OpenConnection(c, fcId, dataId, FALSE)
                    /\ Accepts(c, dataId)
                    /\ carried' = [carried EXCEPT ![c] = TRUE]
               ELSE RefusedByNewChannel(c, fcId, dataId)
  /\ UNCHANGED <<receiving, interrupted>>

Calls(kinds) ==
  \E id, other \in Ids :
    \/ "register" \in kinds /\ RegisterReceiveChannel(id, other)
    \/ "release" \in kinds /\ ReleaseChannel(id)
    \/ "send" \in kinds /\ \E fits \in BOOLEAN : SendPdu(id, other, fits)

-----------------------------------------------------------------------------
(* Frames and timers *)

\* The channels that would take a frame: the first one does.
Owners(id, type) ==
  {c \in Channels : /\ occupied[c] /\ rxId[c] = id
                    /\ type = "flowControl" \/ receptionEnabled[c]}

\* The rest of HandleSingleFrame and HandleFirstFrame: the PDU is reported, the
\* reception starts, or it is aborted for its length or a refused frame.
TakesFrame(c, type, id) ==
  \E under \in (IF type = "first" THEN {id, NoId} ELSE {NoId}) :
    receiving' = [receiving EXCEPT ![c] = under]

\* Whether a frame ends a reception first.
Supersedes(c, type) == type \in {"single", "first"} /\ receiving[c] # NoId

ProcessFrame(id, type) ==
  /\ interrupted = NoFrame
  /\ Owners(id, type) # {}
  /\ LET c == Min(Owners(id, type))
     IN \/ /\ type = "flowControl"
           /\ \E under \in {sending[c], NoId} : sending' = [sending EXCEPT ![c] = under]
           /\ UNCHANGED <<receiving, interrupted>>
        \/ /\ type = "consecutive"
           /\ \E under \in {receiving[c], NoId} :
                receiving' = [receiving EXCEPT ![c] = under]
           /\ UNCHANGED <<sending, interrupted>>
        \/ /\ type \in {"single", "first"} /\ ~Supersedes(c, type)
           /\ TakesFrame(c, type, id)
           /\ UNCHANGED <<sending, interrupted>>
        \/ /\ Supersedes(c, type)
           /\ receiving' = [receiving EXCEPT ![c] = NoId]
           /\ interrupted' = [channel |-> c, type |-> type, id |-> id]
           /\ UNCHANGED sending
  /\ UNCHANGED <<connections, carried>>

\* The handler goes on after the report of the superseded reception.
ProcessFrameGoesOn ==
  /\ interrupted # NoFrame
  /\ TakesFrame(interrupted.channel, interrupted.type, interrupted.id)
  /\ interrupted' = NoFrame
  /\ UNCHANGED <<connections, sending, carried>>

\* A timer or a failed or last completion ends a transfer or a reception.
TransferEnds(c) ==
  /\ interrupted = NoFrame
  /\ sending[c] # NoId
  /\ sending' = [sending EXCEPT ![c] = NoId]
  /\ UNCHANGED <<connections, receiving, carried, interrupted>>

ReceptionEnds(c) ==
  /\ interrupted = NoFrame
  /\ receiving[c] # NoId
  /\ receiving' = [receiving EXCEPT ![c] = NoId]
  /\ UNCHANGED <<connections, sending, carried, interrupted>>

ApplicationCalls == interrupted = NoFrame /\ Calls({"register", "release", "send"})

CallsInAbortReport == interrupted # NoFrame /\ Calls(CallsInAbort)

Next ==
  \/ ApplicationCalls
  \/ CallsInAbortReport
  \/ \E id \in Ids, type \in {"single", "first", "consecutive", "flowControl"} :
       ProcessFrame(id, type)
  \/ ProcessFrameGoesOn
  \/ \E c \in Channels : TransferEnds(c) \/ ReceptionEnds(c)

Spec == Init /\ [][Next]_vars

-----------------------------------------------------------------------------
(* Properties *)

\* No identifier belongs to two open channels, in either role, however channels
\* are opened by registrations and sends and released: a frame has one owner.
IdentifiersAreDisjoint ==
  \A c, d \in Channels :
    occupied[c] /\ occupied[d] /\ c # d =>
      {rxId[c], txId[c]} \cap {rxId[d], txId[d]} = {}

\* A reception belongs to a channel registered for the identifier it came on:
\* nothing of it reaches a free channel or the slot's next user.
NothingOutlivesRelease ==
  \A c \in Channels :
    receiving[c] # NoId =>
      occupied[c] /\ receptionEnabled[c] /\ rxId[c] = receiving[c]

\* The same of a transfer, which goes out under the identifiers it was sent with.
TransfersKeepTheirChannel ==
  \A c \in Channels : sending[c] # NoId => occupied[c] /\ txId[c] = sending[c]

\* A channel is open only if it was registered or a PDU was accepted on it:
\* refused sends leave none behind until the table is full.
NoChannelLeaks ==
  \A c \in Channels : occupied[c] => receptionEnabled[c] \/ carried[c]

=============================================================================
