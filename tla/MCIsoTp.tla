------------------------------- MODULE MCIsoTp -------------------------------
(***************************************************************************)
(* ISO-TP for TLC: a sender whose peer and transport do anything, a        *)
(* receiver whose peer and transport do anything, the two linked by a bus  *)
(* of one of three kinds, and the channels above them.                     *)
(* Which of these is run is chosen at the start; the variables of the      *)
(* others keep their values.                                               *)
(***************************************************************************)
EXTENDS IsoTpLink

CONSTANTS OpenPdus, OpenFlowControls, \* what an open sender is given and told
          OpenFrames,                 \* what an open receiver gets
          MaxResets,
          Ids, MaxChannels, CallsInAbort

VARIABLES
  part,    \* which is run
  occupied, receptionEnabled, rxId, txId, sending, receiving, carried, interrupted

Sender == INSTANCE IsoTpSender WITH
            Pdus <- OpenPdus, FlowControls <- OpenFlowControls
Receiver == INSTANCE IsoTpReceiver WITH
              Frames <- OpenFrames, MaxReceptions <- MaxTransfers,
              state <- rState, owed <- rOwed, ended <- rEnded, resets <- rResets
Channels == INSTANCE IsoTpTransport

channelsVars == <<occupied, receptionEnabled, rxId, txId, sending, receiving,
                  carried, interrupted>>
mcVars == <<vars, channelsVars, part>>

MCData(n) == [i \in 1 .. n |-> i]

\* PDUs of one, three and four frames; the last is refused by its length.
MCPdus == {<<>>, MCData(7), MCData(14), MCData(27), MCData(41)}

\* Continue, without and with pacing; wait; overflow; reserved; too short.
MCFlowControls == {<<48, 0, 0>>, <<48, 1, 0>>, <<48, 2, 241>>, <<49, 0, 0>>,
                   <<50, 0, 0>>, <<51, 0, 0>>, <<48, 0>>}

MCFrames ==
  {R!EncodeSingleFrame(MCData(3)), R!EncodeSingleFrame(<<>>), <<7, 1>>,
   R!EncodeFirstFrame(MCData(22)), R!EncodeFirstFrame(MCData(41)),
   <<16, 5, 1, 2, 3, 4, 5, 6>>, <<16, 20, 1>>,
   R!EncodeFlowControl("continueToSend", 0, 0), <<64>>, <<>>}
    \cup {R!EncodeConsecutiveFrame(sn, MCData(n)) : sn \in 1 .. 3, n \in {2, 7}}
    \cup {R!EncodeConsecutiveFrame(sn, <<>>) : sn \in 0 .. 15}

ASSUME PartsAssumption ==
  /\ LinkAssumption
  /\ Sender!SenderAssumption /\ Receiver!ReceiverAssumption
  /\ Channels!TransportAssumption

\* A step of the part that is run.
OfSender(A) ==
  /\ part = "sender"
  /\ A
  /\ UNCHANGED <<receiverVars, bus, offered, channelsVars, part>>

OfReceiver(A) ==
  /\ part = "receiver"
  /\ A
  /\ UNCHANGED <<senderSide, bus, channelsVars, part>>

\* The links: whether the timers are late, and the frames that may be lost.
Late == part = "lateLink"
AnyFrame == {"singleFrame", "firstFrame", "consecutiveFrame", "flowControl"}
Losable == [reliableLink |-> {}, lossyLink |-> AnyFrame, lateLink |-> AnyFrame]
Linked == part \in DOMAIN Losable

OfLink(A) == Linked /\ A /\ UNCHANGED <<channelsVars, part>>

OfFairLink(A) == ~Late /\ OfLink(A)

OfChannels(A) == part = "channels" /\ A /\ UNCHANGED <<vars, part>>

MCInit ==
  /\ Init
  /\ Channels!Init
  /\ part \in {"sender", "receiver", "channels"} \cup DOMAIN Losable

MCNext ==
  \/ OfSender(Sender!Next)
  \/ OfReceiver(Receiver!Next)
  \/ OfLink(Next(Late, Losable[part]))
  \/ OfChannels(Channels!Next)

\* The fairness of each part: timers fire unless a frame or a completion stops
\* or restarts them, and a link that is not late moves what is on its way.  No
\* peer owes a frame and no application a call.
MCFairness ==
  /\ WF_mcVars(OfSender(Sender!NBsTimeout
                        \/ \E frame \in OpenFlowControls : Sender!FlowControl(frame)))
  /\ WF_mcVars(OfSender(Sender!NAsTimeout
                        \/ \E i \in DOMAIN owed, success \in BOOLEAN :
                             Sender!Completion(i, success)))
  /\ WF_mcVars(OfSender(Sender!StMinTimeout))
  /\ WF_mcVars(OfReceiver(Receiver!NCrTimeout
                          \/ \E frame \in OpenFrames :
                               Receiver!HandleConsecutiveFrame(frame)))
  /\ WF_mcVars(OfFairLink(SenderTransmits)) /\ WF_mcVars(OfFairLink(ReceiverTransmits))
  /\ WF_mcVars(OfFairLink(SenderCompletion))
  /\ WF_mcVars(OfFairLink(ReceiverCompletion))
  /\ WF_mcVars(OfFairLink(ReceiverGetsFrame)) /\ WF_mcVars(OfFairLink(SenderGetsFrame))
  /\ WF_mcVars(OfFairLink(SeparationTimeOver))
  /\ WF_mcVars(OfFairLink(SenderTimeout(FALSE)))
  /\ WF_mcVars(OfFairLink(ReceiverTimeout(FALSE)))

MCSpec == MCInit /\ [][MCNext]_mcVars /\ MCFairness

-----------------------------------------------------------------------------
(* Properties *)

\* Either end waits only under the timer that ends its wait, and under no other
\* that could abort it for what it does not wait for.
WaitIsTimed == Sender!WaitIsTimed /\ Sender!WatchedFrameIsOwed /\ Receiver!ReceptionIsTimed

\* Every transfer accepted and every reception begun ends once: delivered, done,
\* aborted, superseded or released.
EndsOnce == Sender!EndsOnce /\ Receiver!EndsOnce

\* A completion that comes after its transfer or reception has ended changes
\* nothing of the one that followed, and done means that the last byte was sent.
StaleCompletionsIgnored ==
  /\ Sender!StaleCompletionsIgnored
  /\ Sender!DoneMeansSent
  /\ Receiver!StaleFailuresIgnored

\* Whatever the peer does or leaves undone, no transfer and no reception lasts
\* for ever, and if the bus loses nothing the receiver gets what the sender was
\* told is done.
EveryTransferEnds ==
  /\ ~Late => Sender!EveryTransferEnds
  /\ ~Late => Receiver!EveryReceptionEnds
  /\ Linked /\ ~Late => LinkComesToRest
  /\ part = "reliableLink" => DoneIsDelivered

\* An open receiver's peer sends nothing that was offered: only the link's
\* deliveries are judged.
LinkDelivery ==
  INSTANCE PduDelivery WITH
    Pdus <- AllPdus,
    delivered <- IF Linked THEN delivered ELSE <<>>,
    last <- IF Linked THEN LastDelivered ELSE 0

\* With late timers a consecutive frame may follow its lost first frame: flow
\* control for the transfer before lets the sender go on.
Mixes == Late /\ headless

\* Whatever is delivered was sent, whole and unaltered, once and in order,
\* through lost frames, aborts at either end and the transfers that follow: on
\* links whose timers outlast the frames under way always, and with late timers
\* until a first frame has been lost.  (From then on two PDUs may be mixed into
\* one: NothingIsMixed.)
LinkDelivers ==
  LinkDelivery!Init /\ [][Mixes' \/ LinkDelivery!Next]_LinkDelivery!vars

\* REQ-CAN-029: what is reassembled is a PDU that was segmented.  Not so on a
\* link with late timers that lost a first frame: its run shows how.
NothingIsMixed ==
  Linked => \A k \in DOMAIN delivered : \E n \in DOMAIN offered : delivered[k] = offered[n]

\* No identifier belongs to two open channels, and no channel stays open that
\* nobody registered or sends on.
IdentifiersAreDisjoint == Channels!IdentifiersAreDisjoint /\ Channels!NoChannelLeaks

\* Nothing of a released channel reaches the next user of its slot.
NothingOutlivesRelease ==
  Channels!NothingOutlivesRelease /\ Channels!TransfersKeepTheirChannel

=============================================================================
