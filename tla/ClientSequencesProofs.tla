----------------------- MODULE ClientSequencesProofs -----------------------
(***************************************************************************)
(* Proofs about ClientSequences for every number of slots, servers and     *)
(* sends, every modulus of the counters and every queue of the transport.  *)
(***************************************************************************)
EXTENDS ClientSequences, SequenceTheorems, TLAPS

-----------------------------------------------------------------------------
(* The invariant *)

AllPriorities == {CommandPriority[c] : c \in Commands} \cup OtherPriorities

\* The part of the types that the transport does not change.
SlotTypes ==
  /\ serverStates \in [Slots -> SequenceRecord]
  /\ ackTimers \in [Slots -> Calls \cup {0}]
  /\ nextSequenceEvictIndex \in Slots

TransportTypes ==
  /\ onWay \in Transport!Frames \cup {NoFrame}
  /\ waiting \subseteq Transport!Frames
  /\ outcome \in [Calls -> Transport!Outcomes]
  /\ sent \in Seq(SentFrames)
  /\ Len(sent) <= MaxSends

HistoryTypes ==
  /\ ending \in [Calls -> Endings]
  /\ since \in [Targets -> 0 .. MaxSends + 1]

IInv ==
  /\ SlotTypes
  /\ TransportTypes
  /\ HistoryTypes
  /\ OneSlotPerServer
  /\ OpenCommandsAreTimed

-----------------------------------------------------------------------------
(* Sets and numbers *)

LEMMA SlotIndices ==
  /\ 0 \in Slots
  /\ \A i \in Slots : i \in Int /\ (i + 1) % maxServers \in Slots
BY SequencesAssumption, SMT DEF Slots

LEMMA SuccessorIsANumber ==
  /\ 0 \in SequenceNumbers
  /\ \A number \in SequenceNumbers : Successor(number) \in SequenceNumbers
BY SequencesAssumption, SMT DEF SequenceNumbers, Successor

LEMMA CallsAreNumbers == MaxSends \in Nat /\ Calls \subseteq Nat /\ 0 \notin Calls
BY SequencesAssumption DEF Calls

LEMMA FrameFields ==
  \A f \in SentFrames :
    /\ f.priority \in AllPriorities
    /\ f.kind = "command" => f.node \in Targets /\ f.number \in SequenceNumbers
BY DEF SentFrames, AllPriorities

\* What the transport is offered is as long as what was sent.
LEMMA OfferedLength ==
  ASSUME NEW frames \in Seq(SentFrames)
  PROVE  Len([n \in 1 .. Len(frames) |-> frames[n].priority]) = Len(frames)
<1> DEFINE offered == [n \in 1 .. Len(frames) |-> frames[n].priority]
<1>1. Len(frames) \in Nat /\ frames \in [1 .. Len(frames) -> SentFrames]
  BY LenProperties
<1>2. \A n \in 1 .. Len(frames) : frames[n].priority \in AllPriorities
  BY <1>1, FrameFields
<1>3. offered \in Seq(AllPriorities)
  BY <1>1, <1>2, SMT
<1>4. Len(offered) \in Nat /\ DOMAIN offered = 1 .. Len(offered)
  BY <1>3, LenProperties
<1>5. 1 .. Len(offered) = 1 .. Len(frames)
  BY <1>4
<1>6. Len(offered) = Len(frames)
  BY <1>1, <1>4, <1>5
<1>7. QED
  BY <1>6

-----------------------------------------------------------------------------
(* The transport *)

\* One more frame: the transport says of it whether it is held, and of an
\* earlier one at most that it is lost, which happens only if the new one is
\* held.
LEMMA OfferEffects ==
  ASSUME TransportTypes, NEW frame \in SentFrames, SendFrame(frame)
  PROVE  /\ TransportTypes'
         /\ Len(sent) + 1 \in Calls
         /\ Len(sent') = Len(sent) + 1
         /\ \A n \in 1 .. Len(sent) : sent'[n] = sent[n]
         /\ sent'[Len(sent) + 1] = frame
         /\ \A n \in Calls : \/ n = Len(sent) + 1
                             \/ outcome'[n] = outcome[n]
                             \/ outcome'[n] = "lost"
         /\ ~Taken => Failed = {}
<1> DEFINE k == Len(sent) + 1
           new == [no |-> k, priority |-> frame.priority]
<1>1. /\ sent \in Seq(SentFrames)
      /\ Len(sent) \in Nat
      /\ sent' = Append(sent, frame)
  BY LenProperties DEF TransportTypes, SendFrame
<1>2. /\ sent' \in Seq(SentFrames)
      /\ Len(sent') = k
      /\ \A n \in 1 .. Len(sent) : sent'[n] = sent[n]
      /\ sent'[k] = frame
  BY <1>1
<1>3. /\ Len(sent) < MaxSends
      /\ \/ Transport!Start(new)
         \/ Transport!Wait(new)
         \/ Transport!TakePlace(new)
         \/ Transport!Refuse(new)
  BY <1>1, OfferedLength DEF SendFrame, Transport!Offer
<1>4. k \in Calls /\ Len(sent') <= MaxSends
  BY <1>1, <1>2, <1>3, SequencesAssumption DEF Calls
<1>5. new \in Transport!Frames
  BY <1>4, FrameFields DEF Transport!Frames, Transport!Calls, Calls, AllPriorities
<1>6. outcome \in [Calls -> Transport!Outcomes]
  BY DEF TransportTypes
<1>7. CASE Transport!Start(new) \/ Transport!Wait(new)
  <2>1. /\ outcome' = [outcome EXCEPT ![k] = "held"]
        /\ onWay' \in {onWay, new}
        /\ waiting' \in {waiting, waiting \cup {new}}
    BY <1>7 DEF Transport!Start, Transport!Wait
  <2>2. TransportTypes'
    BY <1>2, <1>4, <1>5, <2>1 DEF TransportTypes, Transport!Outcomes
  <2>3. \A n \in Calls : n # k => outcome'[n] = outcome[n]
    BY <1>6, <2>1
  <2>4. Taken
    BY <1>4, <1>6, <2>1 DEF Taken, NextCall
  <2>5. QED
    BY <1>2, <1>4, <2>2, <2>3, <2>4
<1>8. CASE Transport!TakePlace(new)
  <2>1. PICK last \in waiting :
          /\ outcome' = [outcome EXCEPT ![last.no] = "lost", ![k] = "held"]
          /\ onWay' = onWay
          /\ waiting' = (waiting \ {last}) \cup {new}
    BY <1>8 DEF Transport!TakePlace
  <2>2. last.no \in Calls
    BY DEF TransportTypes, Transport!Frames, Transport!Calls, Calls
  <2>3. \A n \in Calls : outcome'[n] = IF n = k THEN "held"
                                       ELSE IF n = last.no THEN "lost" ELSE outcome[n]
    BY <1>4, <1>6, <2>1, <2>2
  <2>4. outcome' \in [Calls -> Transport!Outcomes]
    BY <1>4, <1>6, <2>1, <2>2 DEF Transport!Outcomes
  <2>5. TransportTypes'
    BY <1>2, <1>4, <1>5, <2>1, <2>4 DEF TransportTypes
  <2>6. Taken
    BY <1>4, <2>3 DEF Taken, NextCall
  <2>7. QED
    BY <1>2, <1>4, <2>3, <2>5, <2>6
<1>9. CASE Transport!Refuse(new)
  <2>1. /\ outcome' = [outcome EXCEPT ![k] = "refused"]
        /\ UNCHANGED <<onWay, waiting>>
    BY <1>9 DEF Transport!Refuse
  <2>2. TransportTypes'
    BY <1>2, <1>4, <2>1 DEF TransportTypes, Transport!Outcomes
  <2>3. \A n \in Calls : n # k => outcome'[n] = outcome[n]
    BY <1>6, <2>1
  <2>4. 1 .. Len(sent) \subseteq Calls \ {k}
    BY <1>1, <1>3, SequencesAssumption DEF Calls
  <2>5. Failed = {}
    BY <2>3, <2>4 DEF Failed
  <2>6. QED
    BY <1>2, <1>4, <2>2, <2>3, <2>5
<1>10. QED
  BY <1>3, <1>7, <1>8, <1>9

\* The frame on its way is concluded: nothing is refused by it.
LEMMA FinishEffects ==
  ASSUME TransportTypes, UNCHANGED sent,
         NEW result \in {"delivered", "lost"}, Transport!Finish(result)
  PROVE  /\ TransportTypes'
         /\ \A n \in Calls : outcome'[n] \in {outcome[n], "delivered", "lost"}
<1>1. /\ outcome' = [outcome EXCEPT ![onWay.no] = result]
      /\ outcome \in [Calls -> Transport!Outcomes]
  BY DEF Transport!Finish, TransportTypes
<1>2. outcome' \in [Calls -> Transport!Outcomes]
  BY <1>1 DEF Transport!Outcomes
<1>3. \A n \in Calls : outcome'[n] \in {outcome[n], "delivered", "lost"}
  BY <1>1
<1>4. /\ onWay' \in waiting \cup {NoFrame}
      /\ waiting' \subseteq waiting
  BY DEF Transport!Finish, Transport!Advance
<1>5. TransportTypes'
  BY <1>2, <1>4 DEF TransportTypes
<1>6. QED
  BY <1>3, <1>5

-----------------------------------------------------------------------------
(* Slots *)

\* Giving numbers back changes counters only.
LEMMA ReturnKeepsSlots ==
  ASSUME TransportTypes, NEW states \in [Slots -> SequenceRecord]
  PROVE  /\ ReturnSequences(states) \in [Slots -> SequenceRecord]
         /\ \A i \in Slots :
              /\ ReturnSequences(states)[i].occupied = states[i].occupied
              /\ ReturnSequences(states)[i].nodeId = states[i].nodeId
              /\ ReturnSequences(states)[i].awaiting = states[i].awaiting
<1> DEFINE Failures(i) == {n \in Failed :
                             /\ Serves(states[i], sent[n].node)
                             /\ states[i].sequenceCounter = Successor(sent[n].number)}
           Last(i) == sent[CHOOSE n \in Failures(i) : TRUE].number
<1>1. ASSUME NEW i \in Slots, Failures(i) # {} PROVE Last(i) \in SequenceNumbers
  <2>1. (CHOOSE n \in Failures(i) : TRUE) \in Failures(i)
    BY <1>1
  <2>2. PICK n \in 1 .. Len(sent) :
          n = (CHOOSE m \in Failures(i) : TRUE) /\ sent[n].kind = "command"
    BY <2>1, Zenon DEF Failed
  <2>3. sent[n] \in SentFrames
    BY <2>2, ElementOfSeq DEF TransportTypes
  <2>4. QED
    BY <2>2, <2>3, FrameFields
<1>2. \A i \in Slots :
        ReturnSequences(states)[i] =
          IF Failures(i) = {} THEN states[i]
          ELSE [states[i] EXCEPT !.sequenceCounter = Last(i)]
  BY Zenon DEF ReturnSequences
<1>3. DOMAIN ReturnSequences(states) = Slots
     /\ ReturnSequences(states) = [i \in Slots |-> ReturnSequences(states)[i]]
  BY Zenon DEF ReturnSequences
<1> HIDE DEF Failures, Last
<1>4. ASSUME NEW i \in Slots
      PROVE  /\ ReturnSequences(states)[i] \in SequenceRecord
             /\ ReturnSequences(states)[i].occupied = states[i].occupied
             /\ ReturnSequences(states)[i].nodeId = states[i].nodeId
             /\ ReturnSequences(states)[i].awaiting = states[i].awaiting
  <2>1. states[i] \in SequenceRecord
    OBVIOUS
  <2>2. CASE Failures(i) = {}
    BY <1>2, <2>1, <2>2
  <2>3. CASE Failures(i) # {}
    <3>1. Last(i) \in SequenceNumbers
      BY <1>1, <2>3
    <3>2. ReturnSequences(states)[i] = [states[i] EXCEPT !.sequenceCounter = Last(i)]
      BY <1>2, <2>3
    <3>3. QED
      BY <2>1, <3>1, <3>2 DEF SequenceRecord
  <2>4. QED
    BY <2>2, <2>3
<1>5. QED
  BY <1>3, <1>4

\* With nothing lost, nothing is given back.
LEMMA NothingToReturn ==
  ASSUME NEW states, DOMAIN states = Slots, states = [i \in Slots |-> states[i]],
         Failed = {}
  PROVE  ReturnSequences(states) = states
BY Zenon DEF ReturnSequences

\* The slot that is reserved is the server's own, or no slot is.
LEMMA ClaimedSlotIsTheOnlyOne ==
  ASSUME OneSlotPerServer, NEW node \in Targets, NEW i \in Slots, Claims(node, i)
  PROVE  \A j \in Slots : Serves(serverStates[j], node) => j = i
BY DEF OneSlotPerServer, Claims, Serves

IsReservation(reserved, node, i, number, states, evictIndex) ==
  /\ reserved =
       [number |-> number, states |-> states,
        timers |-> [ackTimers EXCEPT ![i] = NextCall], evictIndex |-> evictIndex,
        slot |-> i, previous |-> serverStates[i],
        previousAckDeadline |-> ackTimers[i],
        previousEvictIndex |-> nextSequenceEvictIndex]
  /\ \A j \in Slots \ {i} : states[j] = serverStates[j]
  /\ states[i].occupied = TRUE
  /\ states[i].nodeId = node
  /\ states[i].awaiting = NextCall

LEMMA ReservationFields ==
  ASSUME SlotTypes, NextCall \in Calls, NEW node \in Targets, NEW i \in Slots,
         NEW reserved \in {ReserveSequence(node, i)}
  PROVE  \E number \in SequenceNumbers, states \in [Slots -> SequenceRecord],
            evictIndex \in Slots :
           IsReservation(reserved, node, i, number, states, evictIndex)
<1> DEFINE number == IF Serves(serverStates[i], node)
                     THEN serverStates[i].sequenceCounter ELSE 0
           slot == [occupied |-> TRUE, nodeId |-> node,
                    sequenceCounter |-> Successor(number), awaiting |-> NextCall]
           states == [serverStates EXCEPT ![i] = slot]
           evictIndex == IF Evicts(node, i) THEN (nextSequenceEvictIndex + 1) % maxServers
                         ELSE nextSequenceEvictIndex
<1>1. number \in SequenceNumbers
  BY SuccessorIsANumber DEF SlotTypes, SequenceRecord
<1> HIDE DEF number
<1>2. slot \in SequenceRecord
  BY <1>1, SuccessorIsANumber DEF SequenceRecord
<1>3. /\ states \in [Slots -> SequenceRecord]
      /\ states[i] = slot
      /\ \A j \in Slots \ {i} : states[j] = serverStates[j]
  BY <1>2 DEF SlotTypes
<1>4. evictIndex \in Slots
  BY SlotIndices DEF SlotTypes
<1> HIDE DEF slot
<1>5. /\ slot.occupied = TRUE
      /\ slot.nodeId = node
      /\ slot.awaiting = NextCall
  BY DEF slot
<1> HIDE DEF states, evictIndex
<1>6. reserved =
        [number |-> number, states |-> states,
         timers |-> [ackTimers EXCEPT ![i] = NextCall], evictIndex |-> evictIndex,
         slot |-> i, previous |-> serverStates[i],
         previousAckDeadline |-> ackTimers[i],
         previousEvictIndex |-> nextSequenceEvictIndex]
  BY Zenon DEF ReserveSequence, number, slot, states, evictIndex
<1>7. /\ states[i].occupied = TRUE
      /\ states[i].nodeId = node
      /\ states[i].awaiting = NextCall
  BY <1>3, <1>5
<1>8. /\ states \in [Slots -> SequenceRecord]
      /\ \A j \in Slots \ {i} : states[j] = serverStates[j]
  BY <1>3
<1>9. IsReservation(reserved, node, i, number, states, evictIndex)
  BY <1>6, <1>7, <1>8, Zenon DEF IsReservation
<1>10. QED
  BY <1>1, <1>4, <1>8, <1>9

\* A reservation that is cancelled has changed nothing.
LEMMA CancellationUndoes ==
  ASSUME SlotTypes, OpenCommandsAreTimed, NEW node \in Targets, NEW i \in Slots,
         NextCall \in Calls, NEW reserved \in {ReserveSequence(node, i)},
         CancelReservation(reserved)
  PROVE  UNCHANGED slotVars
<1>1. PICK number \in SequenceNumbers, states \in [Slots -> SequenceRecord],
           evictIndex \in Slots :
        IsReservation(reserved, node, i, number, states, evictIndex)
  BY ReservationFields
<1>2. /\ serverStates' = [states EXCEPT ![i] = serverStates[i]]
      /\ nextSequenceEvictIndex' = nextSequenceEvictIndex
      /\ ackTimers' = [[ackTimers EXCEPT ![i] = NextCall] EXCEPT ![i] =
                         IF serverStates[i].awaiting # 0 THEN ackTimers[i] ELSE 0]
  BY <1>1 DEF CancelReservation, IsReservation
<1>3. ackTimers[i] = serverStates[i].awaiting
  BY DEF OpenCommandsAreTimed
<1>4. serverStates' = serverStates
  BY <1>1, <1>2 DEF SlotTypes, IsReservation
<1>5. ackTimers' = ackTimers
  BY <1>1, <1>2, <1>3 DEF SlotTypes, IsReservation
<1>6. QED
  BY <1>2, <1>4, <1>5 DEF slotVars

-----------------------------------------------------------------------------
(* Waits *)

LEMMA OpenMeansAwaited ==
  ASSUME NEW states \in [Slots -> SequenceRecord], NEW endings \in [Calls -> Endings]
  PROVE  {n \in Calls : endings[n] = "open"} =
           {states[i].awaiting : i \in {j \in Slots : states[j].awaiting # 0}}
         <=> \A n \in Calls : endings[n] = "open" <=>
                              \E i \in Slots : states[i].awaiting = n
<1>1. \A i \in Slots : states[i].awaiting \in Calls \cup {0}
  BY DEF SequenceRecord
<1>2. 0 \notin Calls
  BY CallsAreNumbers
<1>3. QED
  BY <1>1, <1>2

\* What OpenCommandsAreTimed says of one slot.
LEMMA AwaitedCommand ==
  ASSUME OpenCommandsAreTimed, NEW i \in Slots, serverStates[i].awaiting # 0
  PROVE  LET n == serverStates[i].awaiting
         IN  /\ ackTimers[i] = n
             /\ serverStates[i].occupied
             /\ n \in 1 .. Len(sent)
             /\ sent[n].kind = "command"
             /\ sent[n].node = serverStates[i].nodeId
             /\ outcome[n] # "refused"
BY DEF OpenCommandsAreTimed, Awaited, IsCommandTo

\* No two slots await the same command: both would be its server's.
LEMMA AwaitedOnce ==
  ASSUME OneSlotPerServer, OpenCommandsAreTimed, NEW i \in Slots, NEW j \in Slots,
         serverStates[i].awaiting # 0,
         serverStates[j].awaiting = serverStates[i].awaiting
  PROVE  i = j
BY AwaitedCommand DEF OneSlotPerServer

\* Steps that change counters only, and outcomes for which nobody waits less.
LEMMA WaitsCarryOver ==
  ASSUME OneSlotPerServer, OpenCommandsAreTimed, TransportTypes, TransportTypes',
         \A i \in Slots : /\ serverStates'[i].occupied = serverStates[i].occupied
                          /\ serverStates'[i].nodeId = serverStates[i].nodeId
                          /\ serverStates'[i].awaiting = serverStates[i].awaiting,
         ackTimers' = ackTimers, ending' = ending,
         Len(sent) <= Len(sent'),
         \A n \in 1 .. Len(sent) :
           sent'[n] = sent[n] /\ outcome'[n] \in {outcome[n], "delivered", "lost"}
  PROVE  OneSlotPerServer' /\ OpenCommandsAreTimed'
<1>1. OneSlotPerServer'
  BY DEF OneSlotPerServer
<1>2. {n \in Calls : ending'[n] = "open"} = {serverStates'[i].awaiting : i \in Awaited'}
  BY DEF OpenCommandsAreTimed, Awaited
<1>3. \A i \in Slots : ackTimers'[i] = serverStates'[i].awaiting
  BY DEF OpenCommandsAreTimed
<1>4. ASSUME NEW i \in Slots, serverStates'[i].awaiting # 0
      PROVE  LET n == serverStates'[i].awaiting
             IN  /\ serverStates'[i].occupied
                 /\ n \in 1 .. Len(sent')
                 /\ sent'[n].kind = "command"
                 /\ sent'[n].node = serverStates'[i].nodeId
                 /\ outcome'[n] # "refused"
  <2> DEFINE n == serverStates[i].awaiting
  <2>1. /\ serverStates[i].occupied
        /\ n \in 1 .. Len(sent)
        /\ sent[n].kind = "command" /\ sent[n].node = serverStates[i].nodeId
        /\ outcome[n] # "refused"
    BY <1>4, AwaitedCommand
  <2>2. Len(sent) \in Nat /\ Len(sent') \in Nat
    BY LenProperties DEF TransportTypes
  <2>3. n \in 1 .. Len(sent')
    BY <2>1, <2>2
  <2>4. QED
    BY <2>1, <2>3
<1>5. OpenCommandsAreTimed'
  BY <1>2, <1>3, <1>4 DEF OpenCommandsAreTimed, Awaited, IsCommandTo
<1>6. QED
  BY <1>1, <1>5

\* There is a next call while the bound on sends is not reached.
LEMMA NextCallExists ==
  ASSUME TransportTypes
  PROVE  /\ Len(sent) \in Nat
         /\ NextCall = Len(sent) + 1
         /\ Len(sent) < MaxSends => NextCall \in Calls
         /\ NextCall \in 0 .. MaxSends + 1
         /\ 1 .. Len(sent) \subseteq Calls \ {NextCall}
BY LenProperties, CallsAreNumbers DEF TransportTypes, NextCall, Calls

\* Numbers count from a call on, or not at all.
LEMMA CountingTypes ==
  ASSUME HistoryTypes, TransportTypes, NEW node \in Targets, StartCounting(node)
  PROVE  since' \in [Targets -> 0 .. MaxSends + 1]
<1>1. 0 \in 0 .. MaxSends + 1
  BY CallsAreNumbers
<1>2. QED
  BY <1>1, NextCallExists DEF StartCounting, HistoryTypes

-----------------------------------------------------------------------------
(* Steps *)

LEMMA InitEstablishes == SequencesInit => IInv
<1> SUFFICES ASSUME SequencesInit PROVE IInv
  OBVIOUS
<1>1. \A i \in Slots : /\ serverStates[i] = FreeSlot
                       /\ serverStates[i].awaiting = 0
                       /\ serverStates[i].occupied = FALSE
                       /\ ackTimers[i] = 0
  BY DEF SequencesInit, FreeSlot
<1>2. FreeSlot \in SequenceRecord
  BY SuccessorIsANumber DEF FreeSlot, SequenceRecord, Targets
<1>3. SlotTypes
  BY <1>2, SlotIndices DEF SequencesInit, SlotTypes
<1>4. TransportTypes
  BY EmptySeq, CallsAreNumbers
     DEF SequencesInit, TransportTypes, Transport!Init, Transport!Outcomes,
         Transport!Calls, Calls
<1>5. HistoryTypes
  BY CallsAreNumbers DEF SequencesInit, HistoryTypes, Endings
<1>6. OneSlotPerServer
  BY <1>1 DEF OneSlotPerServer
<1>7. Awaited = {} /\ {n \in Calls : ending[n] = "open"} = {}
  BY <1>1 DEF SequencesInit, Awaited
<1>8. OpenCommandsAreTimed
  BY <1>1, <1>7 DEF OpenCommandsAreTimed
<1>9. QED
  BY <1>3, <1>4, <1>5, <1>6, <1>8 DEF IInv

\* The number is reserved and the frame is accepted.  Slot i awaits the new
\* command instead of what it awaited, and no other slot is the server's.
LEMMA SendReservedPreserves ==
  ASSUME IInv, NEW node \in Targets, NEW command \in Commands, NEW i \in Slots,
         Claims(node, i), NEW reserved \in {ReserveSequence(node, i)},
         SendFrame(Command(node, command, reserved.number)),
         SendReserved(node, i, reserved)
  PROVE  IInv'
<1>1. SlotTypes /\ TransportTypes /\ HistoryTypes /\ OneSlotPerServer
      /\ OpenCommandsAreTimed
  BY DEF IInv
<1>2. NextCall \in Calls
  <2>1. Len(sent) < MaxSends
    BY <1>1, OfferedLength DEF SendFrame, Transport!Offer, TransportTypes
  <2>2. QED
    BY <1>1, <2>1, NextCallExists
<1>3. PICK number \in SequenceNumbers, states \in [Slots -> SequenceRecord],
           evictIndex \in Slots :
        IsReservation(reserved, node, i, number, states, evictIndex)
  BY <1>1, <1>2, ReservationFields
<1>4. reserved.number \in SequenceNumbers
  BY <1>3 DEF IsReservation
<1>5. Command(node, command, reserved.number) \in SentFrames
  BY <1>4 DEF Command, SentFrames
<1>6. /\ TransportTypes'
      /\ Len(sent') = NextCall
      /\ \A m \in 1 .. Len(sent) : sent'[m] = sent[m]
      /\ sent'[NextCall] = Command(node, command, reserved.number)
      /\ \A m \in Calls : \/ m = NextCall
                          \/ outcome'[m] = outcome[m]
                          \/ outcome'[m] = "lost"
  BY <1>1, <1>5, OfferEffects DEF NextCall
<1>7. /\ Taken
      /\ serverStates' = ReturnSequences(states)
      /\ ackTimers' = [ackTimers EXCEPT ![i] = NextCall]
      /\ nextSequenceEvictIndex' = evictIndex
  BY <1>3 DEF SendReserved, IsReservation
<1>8. /\ serverStates' \in [Slots -> SequenceRecord]
      /\ \A j \in Slots : /\ serverStates'[j].occupied = states[j].occupied
                          /\ serverStates'[j].nodeId = states[j].nodeId
                          /\ serverStates'[j].awaiting = states[j].awaiting
  BY <1>1, <1>7, ReturnKeepsSlots
<1>9. /\ serverStates'[i].occupied = TRUE
      /\ serverStates'[i].nodeId = node
      /\ serverStates'[i].awaiting = NextCall
      /\ \A j \in Slots : j # i =>
           /\ serverStates'[j].occupied = serverStates[j].occupied
           /\ serverStates'[j].nodeId = serverStates[j].nodeId
           /\ serverStates'[j].awaiting = serverStates[j].awaiting
  BY <1>3, <1>8 DEF IsReservation
<1>10. SlotTypes'
  BY <1>1, <1>2, <1>7, <1>8 DEF SlotTypes
<1>11. HistoryTypes'
  <2>1. ending' \in [Calls -> Endings]
    BY <1>1 DEF SendReserved, AwaitInstead, HistoryTypes, Endings
  <2>2. since' \in [Targets -> 0 .. MaxSends + 1]
    BY <1>1, CountingTypes DEF SendReserved, HistoryTypes
  <2>3. QED
    BY <2>1, <2>2 DEF HistoryTypes
<1>12. OneSlotPerServer'
  <2>1. \A j \in Slots : Serves(serverStates[j], node) => j = i
    BY <1>1, ClaimedSlotIsTheOnlyOne
  <2>2. QED
    BY <1>1, <1>9, <2>1 DEF OneSlotPerServer, Serves
<1>13. OpenCommandsAreTimed'
  <2>1. \A j \in Slots : serverStates[j].awaiting # NextCall
    BY <1>1, <1>2, NextCallExists, CallsAreNumbers, AwaitedCommand
  <2>2. \A m \in Calls : ending'[m] = "open" <=>
          m = NextCall \/ (m # serverStates[i].awaiting /\ ending[m] = "open")
    BY <1>2 DEF SendReserved, AwaitInstead
  <2>3. \A m \in Calls : ending[m] = "open" <=>
                         \E j \in Slots : serverStates[j].awaiting = m
    BY <1>1, OpenMeansAwaited
       DEF OpenCommandsAreTimed, Awaited, SlotTypes, HistoryTypes
  <2>4. \A j \in Slots : serverStates[j].awaiting = serverStates[i].awaiting
                         /\ serverStates[j].awaiting # 0 => j = i
    BY <1>1, AwaitedOnce
  <2>5. \A m \in Calls : ending'[m] = "open" <=>
                         \E j \in Slots : serverStates'[j].awaiting = m
    BY <1>9, <2>1, <2>2, <2>3, <2>4, CallsAreNumbers
  <2>6. {m \in Calls : ending'[m] = "open"} = {serverStates'[j].awaiting : j \in Awaited'}
    BY <1>8, <1>11, <2>5, OpenMeansAwaited DEF Awaited, HistoryTypes
  <2>7. \A j \in Slots : ackTimers'[j] = serverStates'[j].awaiting
    BY <1>1, <1>7, <1>9 DEF OpenCommandsAreTimed, SlotTypes
  <2>8. ASSUME NEW j \in Slots, serverStates'[j].awaiting # 0
        PROVE  /\ serverStates'[j].occupied
               /\ serverStates'[j].awaiting \in 1 .. Len(sent')
               /\ sent'[serverStates'[j].awaiting].kind = "command"
               /\ sent'[serverStates'[j].awaiting].node = serverStates'[j].nodeId
               /\ outcome'[serverStates'[j].awaiting] # "refused"
    <3>1. CASE j = i
      BY <1>1, <1>2, <1>6, <1>7, <1>9, <3>1, NextCallExists DEF Command, Taken
    <3>2. CASE j # i
      <4>1. /\ serverStates[j].occupied
            /\ serverStates[j].awaiting \in 1 .. Len(sent)
            /\ sent[serverStates[j].awaiting].kind = "command"
            /\ sent[serverStates[j].awaiting].node = serverStates[j].nodeId
            /\ outcome[serverStates[j].awaiting] # "refused"
        BY <1>1, <1>9, <2>8, <3>2, AwaitedCommand
      <4>2. serverStates[j].awaiting \in Calls \ {NextCall}
        BY <1>1, <4>1, NextCallExists
      <4>3. QED
        BY <1>1, <1>6, <1>9, <3>2, <4>1, <4>2, NextCallExists
    <3>3. QED
      BY <3>1, <3>2
  <2>9. QED
    BY <2>6, <2>7, <2>8 DEF OpenCommandsAreTimed, Awaited, IsCommandTo
<1>14. QED
  BY <1>6, <1>10, <1>11, <1>12, <1>13 DEF IInv

\* The frame is refused: the reservation is cancelled.
LEMMA SendRefusedPreserves ==
  ASSUME IInv, NEW node \in Targets, NEW command \in Commands, NEW i \in Slots,
         NEW reserved \in {ReserveSequence(node, i)},
         SendFrame(Command(node, command, reserved.number)),
         SendRefused(reserved)
  PROVE  IInv' /\ UNCHANGED slotVars
<1>1. SlotTypes /\ TransportTypes /\ HistoryTypes /\ OneSlotPerServer
      /\ OpenCommandsAreTimed
  BY DEF IInv
<1>2. NextCall \in Calls
  <2>1. Len(sent) < MaxSends
    BY <1>1, OfferedLength DEF SendFrame, Transport!Offer, TransportTypes
  <2>2. QED
    BY <1>1, <2>1, NextCallExists
<1>3. UNCHANGED slotVars
  BY <1>1, <1>2, CancellationUndoes DEF SendRefused
<1>4. PICK number \in SequenceNumbers, states \in [Slots -> SequenceRecord],
           evictIndex \in Slots :
        IsReservation(reserved, node, i, number, states, evictIndex)
  BY <1>1, <1>2, ReservationFields
<1>5. reserved.number \in SequenceNumbers
  BY <1>4 DEF IsReservation
<1>6. Command(node, command, reserved.number) \in SentFrames
  BY <1>5 DEF Command, SentFrames
<1>7. /\ TransportTypes'
      /\ Len(sent') = NextCall
      /\ \A m \in 1 .. Len(sent) : sent'[m] = sent[m]
      /\ \A m \in Calls : \/ m = NextCall
                          \/ outcome'[m] = outcome[m]
                          \/ outcome'[m] = "lost"
  BY <1>1, <1>6, OfferEffects DEF NextCall
<1>8. \A m \in 1 .. Len(sent) : m \in Calls \ {NextCall}
  BY <1>1, NextCallExists
<1>9. /\ Len(sent) <= Len(sent')
      /\ \A m \in 1 .. Len(sent) :
           sent'[m] = sent[m] /\ outcome'[m] \in {outcome[m], "delivered", "lost"}
  BY <1>1, <1>7, <1>8, NextCallExists
<1>10. UNCHANGED <<serverStates, ackTimers, nextSequenceEvictIndex, ending, since>>
  BY <1>3 DEF SendRefused, slotVars, sequenceHistory
<1>11. OneSlotPerServer' /\ OpenCommandsAreTimed'
  BY <1>1, <1>7, <1>9, <1>10, WaitsCarryOver
<1>12. SlotTypes' /\ HistoryTypes'
  BY <1>1, <1>10 DEF SlotTypes, HistoryTypes
<1>13. QED
  BY <1>3, <1>7, <1>11, <1>12 DEF IInv

\* A payload that leaves no room for the number sends nothing.
LEMMA SendOversizedPreserves ==
  ASSUME IInv, NEW node \in Targets, SendOversizedCommand(node)
  PROVE  UNCHANGED sequencesVars
<1>1. SlotTypes /\ TransportTypes /\ OpenCommandsAreTimed
  BY DEF IInv
<1>2. NextCall \in Calls
  BY <1>1, NextCallExists DEF SendOversizedCommand
<1>3. PICK i \in Slots :
        \E reserved \in {ReserveSequence(node, i)} : CancelReservation(reserved)
  BY DEF SendOversizedCommand
<1>4. UNCHANGED slotVars
  BY <1>1, <1>2, <1>3, CancellationUndoes
<1>5. QED
  BY <1>4 DEF SendOversizedCommand, sequencesVars

\* A frame without a number may displace commands, whose numbers are given back.
LEMMA SendOtherPreserves ==
  ASSUME IInv, NEW priority \in OtherPriorities, SendOther(priority)
  PROVE  /\ IInv'
         /\ ~Taken => UNCHANGED slotVars
<1>1. SlotTypes /\ TransportTypes /\ HistoryTypes /\ OneSlotPerServer
      /\ OpenCommandsAreTimed
  BY DEF IInv
<1>2. Other(priority) \in SentFrames /\ SendFrame(Other(priority))
  BY DEF SendOther, Other, SentFrames
<1>3. /\ TransportTypes'
      /\ Len(sent) + 1 \in Calls
      /\ Len(sent') = Len(sent) + 1
      /\ \A m \in 1 .. Len(sent) : sent'[m] = sent[m]
      /\ \A m \in Calls : \/ m = Len(sent) + 1
                          \/ outcome'[m] = outcome[m]
                          \/ outcome'[m] = "lost"
      /\ ~Taken => Failed = {}
  BY <1>1, <1>2, OfferEffects
<1>4. /\ serverStates' \in [Slots -> SequenceRecord]
      /\ \A j \in Slots : /\ serverStates'[j].occupied = serverStates[j].occupied
                          /\ serverStates'[j].nodeId = serverStates[j].nodeId
                          /\ serverStates'[j].awaiting = serverStates[j].awaiting
      /\ UNCHANGED <<ackTimers, nextSequenceEvictIndex, ending, since>>
  BY <1>1, ReturnKeepsSlots DEF SendOther, SlotTypes, sequenceHistory
<1>5. Len(sent) \in Nat
  BY <1>1, LenProperties DEF TransportTypes
<1>6. \A m \in 1 .. Len(sent) : m \in Calls \ {Len(sent) + 1}
  BY <1>3, <1>5, CallsAreNumbers DEF Calls
<1>7. /\ Len(sent) <= Len(sent')
      /\ \A m \in 1 .. Len(sent) :
           sent'[m] = sent[m] /\ outcome'[m] \in {outcome[m], "delivered", "lost"}
  BY <1>3, <1>5, <1>6
<1>8. OneSlotPerServer' /\ OpenCommandsAreTimed'
  BY <1>1, <1>3, <1>4, <1>7, WaitsCarryOver
<1>9. SlotTypes' /\ HistoryTypes'
  BY <1>1, <1>4 DEF SlotTypes, HistoryTypes
<1>10. ASSUME ~Taken PROVE UNCHANGED slotVars
  <2>1. DOMAIN serverStates = Slots /\ serverStates = [j \in Slots |-> serverStates[j]]
    BY <1>1 DEF SlotTypes
  <2>2. serverStates' = serverStates
    BY <1>3, <1>10, <2>1, NothingToReturn DEF SendOther
  <2>3. QED
    BY <1>4, <2>2 DEF slotVars
<1>11. QED
  BY <1>3, <1>8, <1>9, <1>10 DEF IInv

LEMMA FrameDonePreserves ==
  ASSUME IInv, FrameDone
  PROVE  IInv'
<1>1. SlotTypes /\ TransportTypes /\ HistoryTypes /\ OneSlotPerServer
      /\ OpenCommandsAreTimed
  BY DEF IInv
<1>2. /\ TransportTypes'
      /\ \A n \in Calls : outcome'[n] \in {outcome[n], "delivered", "lost"}
      /\ sent' = sent
  BY <1>1, FinishEffects DEF FrameDone
<1>3. /\ serverStates' \in [Slots -> SequenceRecord]
      /\ \A j \in Slots : /\ serverStates'[j].occupied = serverStates[j].occupied
                          /\ serverStates'[j].nodeId = serverStates[j].nodeId
                          /\ serverStates'[j].awaiting = serverStates[j].awaiting
      /\ UNCHANGED <<ackTimers, nextSequenceEvictIndex, ending, since>>
  BY <1>1, ReturnKeepsSlots DEF FrameDone, SlotTypes, sequenceHistory
<1>4. 1 .. Len(sent) \subseteq Calls /\ Len(sent) <= Len(sent')
  BY <1>1, <1>2, LenProperties, CallsAreNumbers DEF TransportTypes, Calls
<1>5. OneSlotPerServer' /\ OpenCommandsAreTimed'
  BY <1>1, <1>2, <1>3, <1>4, WaitsCarryOver
<1>6. SlotTypes' /\ HistoryTypes'
  BY <1>1, <1>3 DEF SlotTypes, HistoryTypes
<1>7. QED
  BY <1>2, <1>5, <1>6 DEF IInv

\* Some waits end, and the timers of their slots with them.
LEMMA EndingWaits ==
  ASSUME IInv, NEW M \in SUBSET Slots, \A i \in M : serverStates[i].awaiting # 0,
         NEW result \in Endings \ {"open"},
         serverStates' \in [Slots -> SequenceRecord],
         \A i \in Slots :
           /\ serverStates'[i].occupied = serverStates[i].occupied
           /\ serverStates'[i].nodeId = serverStates[i].nodeId
           /\ serverStates'[i].awaiting = IF i \in M THEN 0 ELSE serverStates[i].awaiting,
         ackTimers' = [i \in Slots |-> IF i \in M THEN 0 ELSE ackTimers[i]],
         ending' = [n \in Calls |-> IF \E i \in M : n = serverStates[i].awaiting
                                    THEN result ELSE ending[n]],
         UNCHANGED <<nextSequenceEvictIndex, sendVars>>,
         since' \in [Targets -> 0 .. MaxSends + 1]
  PROVE  IInv'
<1>1. SlotTypes /\ TransportTypes /\ HistoryTypes /\ OneSlotPerServer
      /\ OpenCommandsAreTimed
  BY DEF IInv
<1>2. UNCHANGED <<onWay, waiting, outcome, sent>>
  BY DEF sendVars
<1>3. TransportTypes'
  BY <1>1, <1>2 DEF TransportTypes
<1>4. SlotTypes' /\ HistoryTypes'
  BY <1>1 DEF SlotTypes, HistoryTypes
<1>5. OneSlotPerServer'
  BY <1>1 DEF OneSlotPerServer
<1>6. \A n \in Calls : ending[n] = "open" <=>
                       \E i \in Slots : serverStates[i].awaiting = n
  <2>1. {n \in Calls : ending[n] = "open"} =
          {serverStates[i].awaiting : i \in {j \in Slots : serverStates[j].awaiting # 0}}
    BY <1>1, Zenon DEF OpenCommandsAreTimed, Awaited
  <2>2. serverStates \in [Slots -> SequenceRecord] /\ ending \in [Calls -> Endings]
    BY <1>1 DEF SlotTypes, HistoryTypes
  <2>3. QED
    BY <2>1, <2>2, OpenMeansAwaited
<1>7. \A i, j \in Slots : /\ serverStates[i].awaiting # 0
                          /\ serverStates[j].awaiting = serverStates[i].awaiting
                          => i = j
  BY <1>1, AwaitedOnce
<1>8. \A n \in Calls : ending'[n] = "open" <=>
                       \E i \in Slots : serverStates'[i].awaiting = n
  <2>1. ASSUME NEW n \in Calls, NEW i \in M, n = serverStates[i].awaiting
        PROVE  /\ ending'[n] # "open"
               /\ \A j \in Slots : serverStates'[j].awaiting # n
    <3>1. n # 0
      BY CallsAreNumbers
    <3>2. ending'[n] = result
      BY <2>1
    <3>3. QED
      BY <1>7, <2>1, <3>1, <3>2
  <2>2. ASSUME NEW n \in Calls, \A i \in M : n # serverStates[i].awaiting
        PROVE  ending'[n] = "open" <=> \E i \in Slots : serverStates'[i].awaiting = n
    <3>1. n # 0
      BY CallsAreNumbers
    <3>2. ending'[n] = ending[n]
      BY <2>2
    <3>3. \A i \in Slots : serverStates'[i].awaiting = n <=> serverStates[i].awaiting = n
      BY <2>2, <3>1
    <3>4. QED
      BY <1>6, <3>2, <3>3
  <2>3. QED
    BY <2>1, <2>2
<1>9. {n \in Calls : ending'[n] = "open"} = {serverStates'[i].awaiting : i \in Awaited'}
  BY <1>4, <1>8, OpenMeansAwaited, SMTT(30) DEF Awaited, HistoryTypes
<1>10. \A i \in Slots : ackTimers'[i] = serverStates'[i].awaiting
  BY <1>1 DEF OpenCommandsAreTimed
<1>11. \A i \in Slots : serverStates'[i].awaiting # 0 =>
          /\ serverStates'[i].awaiting = serverStates[i].awaiting
          /\ serverStates[i].awaiting # 0
  OBVIOUS
<1>12. \A i \in Slots : serverStates'[i].awaiting # 0 =>
          /\ serverStates'[i].occupied
          /\ serverStates'[i].awaiting \in 1 .. Len(sent')
          /\ sent'[serverStates'[i].awaiting].kind = "command"
          /\ sent'[serverStates'[i].awaiting].node = serverStates'[i].nodeId
          /\ outcome'[serverStates'[i].awaiting] # "refused"
  BY <1>1, <1>2, <1>11, AwaitedCommand
<1>13. OpenCommandsAreTimed'
  BY <1>9, <1>10, <1>12 DEF OpenCommandsAreTimed, Awaited, IsCommandTo
<1>14. QED
  BY <1>3, <1>4, <1>5, <1>13 DEF IInv

LEMMA HandleCommandAckPreserves ==
  ASSUME IInv, NEW node \in Servers, NEW command \in Commands,
         NEW expected \in ExpectedNumbers \cup {-1},
         HandleCommandAck(node, command, expected)
  PROVE  IInv'
<1> DEFINE M == {i \in Slots : /\ Serves(serverStates[i], node)
                               /\ serverStates[i].awaiting # 0
                               /\ sent[serverStates[i].awaiting].command = command}
           cleared == [i \in Slots |->
                         IF i \in M THEN [serverStates[i] EXCEPT !.awaiting = 0]
                         ELSE serverStates[i]]
<1>1. SlotTypes /\ TransportTypes /\ HistoryTypes
  BY DEF IInv
<1>2. /\ ackTimers' = [i \in Slots |-> IF i \in M THEN 0 ELSE ackTimers[i]]
      /\ ending' = [n \in Calls |-> IF n \in {serverStates[i].awaiting : i \in M}
                                    THEN "acked" ELSE ending[n]]
      /\ \/ serverStates' = cleared /\ since' = since
         \/ /\ expected # -1
            /\ serverStates' = ResyncSequence(cleared, node, expected)
            /\ StartCounting(node)
      /\ UNCHANGED <<nextSequenceEvictIndex, sendVars>>
  BY Zenon DEF HandleCommandAck, ClearAwaitingAck
<1> HIDE DEF M
<1>3. /\ cleared \in [Slots -> SequenceRecord]
      /\ \A i \in Slots :
           /\ cleared[i].occupied = serverStates[i].occupied
           /\ cleared[i].nodeId = serverStates[i].nodeId
           /\ cleared[i].awaiting = IF i \in M THEN 0 ELSE serverStates[i].awaiting
  BY <1>1 DEF SlotTypes, SequenceRecord
<1> HIDE DEF cleared
<1>4. /\ serverStates' \in [Slots -> SequenceRecord]
      /\ \A i \in Slots :
           /\ serverStates'[i].occupied = cleared[i].occupied
           /\ serverStates'[i].nodeId = cleared[i].nodeId
           /\ serverStates'[i].awaiting = cleared[i].awaiting
  <2>1. CASE serverStates' = cleared
    BY <1>3, <2>1
  <2>2. CASE expected # -1 /\ serverStates' = ResyncSequence(cleared, node, expected)
    <3>1. expected \in SequenceNumbers
      BY <2>2, SequencesAssumption DEF SequenceNumbers
    <3>2. \A i \in Slots : cleared[i] \in SequenceRecord
      BY <1>3
    <3>3. serverStates' = [i \in Slots |->
                             IF Serves(cleared[i], node)
                             THEN [cleared[i] EXCEPT !.sequenceCounter = expected]
                             ELSE cleared[i]]
      BY <2>2 DEF ResyncSequence
    <3>4. QED
      BY <3>1, <3>2, <3>3 DEF SequenceRecord
  <2>3. QED
    BY <1>2, <2>1, <2>2
<1>5. since' \in [Targets -> 0 .. MaxSends + 1]
  <2>1. node \in Targets
    BY DEF Targets
  <2>2. QED
    BY <1>1, <1>2, <2>1, CountingTypes DEF HistoryTypes
<1>6. ending' = [n \in Calls |-> IF \E i \in M : n = serverStates[i].awaiting
                                 THEN "acked" ELSE ending[n]]
  BY <1>2
<1>7. M \in SUBSET Slots /\ \A i \in M : serverStates[i].awaiting # 0
  BY DEF M
<1>8. "acked" \in Endings \ {"open"}
  BY DEF Endings
<1>9. \A i \in Slots :
        /\ serverStates'[i].occupied = serverStates[i].occupied
        /\ serverStates'[i].nodeId = serverStates[i].nodeId
        /\ serverStates'[i].awaiting = IF i \in M THEN 0 ELSE serverStates[i].awaiting
  BY <1>3, <1>4
<1>10. QED
  BY <1>2, <1>4, <1>5, <1>6, <1>7, <1>8, <1>9, EndingWaits

\* The timer that expires is that of the one slot of its server.
LEMMA HandleCommandAckTimeoutPreserves ==
  ASSUME IInv, NEW i \in Slots, HandleCommandAckTimeout(i)
  PROVE  IInv'
<1>1. SlotTypes /\ HistoryTypes /\ OneSlotPerServer /\ OpenCommandsAreTimed
  BY DEF IInv
<1>2. /\ serverStates[i].awaiting # 0
      /\ ackTimers[i] = serverStates[i].awaiting
      /\ serverStates[i].occupied
      /\ sent[ackTimers[i]].node = serverStates[i].nodeId
  <2>1. ackTimers[i] # 0 /\ ackTimers[i] = serverStates[i].awaiting
    BY <1>1 DEF HandleCommandAckTimeout, OpenCommandsAreTimed
  <2>2. QED
    BY <1>1, <2>1, AwaitedCommand
<1>3. {j \in Slots : /\ Serves(serverStates[j], sent[ackTimers[i]].node)
                     /\ serverStates[j].awaiting # 0} = {i}
  BY <1>1, <1>2 DEF Serves, OneSlotPerServer
<1>4. /\ serverStates' = [j \in Slots |->
           IF j \in {i} THEN [serverStates[j] EXCEPT !.awaiting = 0]
           ELSE serverStates[j]]
      /\ ending' = [n \in Calls |->
           IF \E j \in {i} : n = serverStates[j].awaiting THEN "timedOut"
           ELSE ending[n]]
      /\ ackTimers' = [ackTimers EXCEPT ![i] = 0]
      /\ UNCHANGED <<nextSequenceEvictIndex, sendVars, since>>
  BY <1>3, Zenon DEF HandleCommandAckTimeout
<1>5. serverStates' \in [Slots -> SequenceRecord]
  BY <1>1, <1>4 DEF SlotTypes, SequenceRecord
<1>6. \A j \in Slots :
        /\ serverStates'[j].occupied = serverStates[j].occupied
        /\ serverStates'[j].nodeId = serverStates[j].nodeId
        /\ serverStates'[j].awaiting = IF j \in {i} THEN 0 ELSE serverStates[j].awaiting
  BY <1>1, <1>4 DEF SlotTypes, SequenceRecord
<1>7. ackTimers' = [j \in Slots |-> IF j \in {i} THEN 0 ELSE ackTimers[j]]
  BY <1>1, <1>4 DEF SlotTypes
<1>8. "timedOut" \in Endings \ {"open"}
  BY DEF Endings
<1>9. since' \in [Targets -> 0 .. MaxSends + 1]
  BY <1>1, <1>4 DEF HistoryTypes
<1>10. {i} \in SUBSET Slots /\ \A j \in {i} : serverStates[j].awaiting # 0
  BY <1>2
<1>11. UNCHANGED <<nextSequenceEvictIndex, sendVars>>
  BY <1>4
<1>12. QED
  BY <1>4, <1>5, <1>6, <1>7, <1>8, <1>9, <1>10, <1>11, EndingWaits

-----------------------------------------------------------------------------
(* Theorems *)

LEMMA SendCommandPreserves ==
  ASSUME IInv, NEW node \in Targets, NEW command \in Commands,
         SendCommand(node, command)
  PROVE  /\ IInv'
         /\ ~Taken => UNCHANGED slotVars
<1>1. PICK i \in Slots :
        /\ Claims(node, i)
        /\ \E reserved \in {ReserveSequence(node, i)} :
             /\ SendFrame(Command(node, command, reserved.number))
             /\ SendReserved(node, i, reserved) \/ SendRefused(reserved)
  BY DEF SendCommand
<1>2. PICK reserved \in {ReserveSequence(node, i)} :
        /\ SendFrame(Command(node, command, reserved.number))
        /\ SendReserved(node, i, reserved) \/ SendRefused(reserved)
  BY <1>1
<1>3. CASE SendReserved(node, i, reserved)
  <2>1. Taken
    BY <1>3 DEF SendReserved
  <2>2. QED
    BY <1>1, <1>2, <1>3, <2>1, SendReservedPreserves
<1>4. CASE SendRefused(reserved)
  BY <1>2, <1>4, SendRefusedPreserves
<1>5. QED
  BY <1>2, <1>3, <1>4

LEMMA SequencesStep == IInv /\ [SequencesNext]_sequencesVars => IInv'
<1> SUFFICES ASSUME IInv, [SequencesNext]_sequencesVars PROVE IInv'
  OBVIOUS
<1>1. ASSUME UNCHANGED sequencesVars PROVE IInv'
  BY <1>1 DEF sequencesVars, slotVars, sendVars, sequenceHistory, IInv, SlotTypes,
              TransportTypes, HistoryTypes, OneSlotPerServer, OpenCommandsAreTimed,
              Awaited, IsCommandTo
<1>2. ASSUME NEW node \in Targets, NEW command \in Commands, SendCommand(node, command)
      PROVE  IInv'
  BY <1>2, SendCommandPreserves
<1>3. ASSUME NEW node \in Targets, SendOversizedCommand(node) PROVE IInv'
  BY <1>1, <1>3, SendOversizedPreserves
<1>4. ASSUME NEW priority \in OtherPriorities, SendOther(priority) PROVE IInv'
  BY <1>4, SendOtherPreserves
<1>5. CASE FrameDone
  BY <1>5, FrameDonePreserves
<1>6. ASSUME NEW node \in Servers, NEW command \in Commands,
             NEW expected \in ExpectedNumbers \cup {-1},
             HandleCommandAck(node, command, expected)
      PROVE  IInv'
  BY <1>6, HandleCommandAckPreserves
<1>7. ASSUME NEW i \in Slots, HandleCommandAckTimeout(i) PROVE IInv'
  BY <1>7, HandleCommandAckTimeoutPreserves
<1>8. QED
  BY <1>1, <1>2, <1>3, <1>4, <1>5, <1>6, <1>7 DEF SequencesNext

THEOREM SequencesInvariant == SequencesSpec => []IInv
BY InitEstablishes, SequencesStep, PTL DEF SequencesSpec

\* Every variable keeps its type.
THEOREM SequencesTypes == SequencesSpec => []SequencesTypeOK
<1>1. IInv => SequencesTypeOK
  BY DEF IInv, SlotTypes, TransportTypes, HistoryTypes, SequencesTypeOK
<1>2. QED
  BY <1>1, SequencesInvariant, PTL

\* ClaimSequenceSlot never gives a server a second slot, through evictions,
\* cancelled reservations and resynchronisations.
THEOREM SlotsAreUnique == SequencesSpec => []OneSlotPerServer
<1>1. IInv => OneSlotPerServer
  BY DEF IInv
<1>2. QED
  BY <1>1, SequencesInvariant, PTL

\* AwaitAck, ClearAwaitingAck and the timers: each slot awaits exactly the
\* commands whose wait has not ended, with its own timer and deadline.
THEOREM AwaitedCommandsAreTimed == SequencesSpec => []OpenCommandsAreTimed
<1>1. IInv => OpenCommandsAreTimed
  BY DEF IInv
<1>2. QED
  BY <1>1, SequencesInvariant, PTL

\* A command the transport refuses leaves counters, waits, deadlines, evicted
\* servers and the rotation as they were (CancelReservation).
THEOREM RefusalsLeaveNoTrace == SequencesSpec => RefusalLeavesNoTrace
<1> DEFINE A == Len(sent') > Len(sent) /\ ~Taken => UNCHANGED slotVars
<1>1. IInv /\ [SequencesNext]_sequencesVars => [A]_sequencesVars
  <2> SUFFICES ASSUME IInv, SequencesNext, Len(sent') > Len(sent), ~Taken
               PROVE  UNCHANGED slotVars
    BY DEF A
  <2>1. Len(sent) \in Nat
    BY NextCallExists DEF IInv
  <2>2. sent' # sent
    BY <2>1
  <2>3. ASSUME NEW node \in Targets, NEW command \in Commands, SendCommand(node, command)
        PROVE  UNCHANGED slotVars
    BY <2>3, SendCommandPreserves
  <2>4. ASSUME NEW priority \in OtherPriorities, SendOther(priority)
        PROVE  UNCHANGED slotVars
    BY <2>4, SendOtherPreserves
  <2>5. ASSUME NEW node \in Targets, SendOversizedCommand(node)
        PROVE  FALSE
    BY <2>2, <2>5 DEF SendOversizedCommand, sendVars
  <2>6. ~FrameDone
    BY <2>2 DEF FrameDone
  <2>7. ASSUME NEW node \in Servers, NEW command \in Commands,
               NEW expected \in ExpectedNumbers \cup {-1},
               HandleCommandAck(node, command, expected)
        PROVE  FALSE
    BY <2>2, <2>7, Zenon DEF HandleCommandAck, sendVars
  <2>8. ASSUME NEW i \in Slots, HandleCommandAckTimeout(i)
        PROVE  FALSE
    BY <2>2, <2>8, Zenon DEF HandleCommandAckTimeout, sendVars
  <2>9. QED
    BY <2>3, <2>4, <2>5, <2>6, <2>7, <2>8 DEF SequencesNext
<1>2. QED
  BY <1>1, SequencesInvariant, PTL DEF SequencesSpec, RefusalLeavesNoTrace

-----------------------------------------------------------------------------
(* Numbers that are not used twice *)

\* How often the counter went on since it gave out the number.
Distance(counter, number) ==
  IF number <= counter THEN counter - number ELSE counter - number + SequenceModulus

\* Numbers in use were given out at most span times ago, each of them once.
InTurn(counter, span, used, frames) ==
  /\ \A n \in used : Distance(counter, frames[n].number) \in 1 .. span
  /\ \A m, n \in used : frames[m].number = frames[n].number => m = n

Used(node) ==
  {n \in 1 .. Len(sent) : IsCommandTo(node, n) /\ n >= since[node] /\ InUse(n)}

\* Since the counter of a server counts, as long as its numbers have not come
\* round: every command that may still fail has a number of this counting, and
\* the numbers in use are the last ones.
SlotInTurn(i) ==
  LET node == serverStates[i].nodeId
      span == Len(sent) + 1 - since[node]
  IN  serverStates[i].occupied /\ since[node] # 0 =>
        /\ since[node] <= Len(sent) + 1
        /\ \A n \in HeldCommandsTo(node) : n >= since[node]
        /\ span < SequenceModulus =>
             InTurn(serverStates[i].sequenceCounter, span, Used(node), sent)

NumbersInTurn == \A i \in Slots : SlotInTurn(i)

HeldFrames == waiting \cup ({onWay} \ {NoFrame})

\* What the transport holds has been offered and has no other outcome yet.
TransportHolds ==
  /\ onWay # NoFrame => onWay \notin waiting
  /\ \A f \in HeldFrames : f.no \in 1 .. Len(sent) /\ outcome[f.no] = "held"
  /\ \A f, g \in HeldFrames : f.no = g.no => f = g

NInv == TransportHolds /\ NumbersInTurn

LEMMA NumberArithmetic ==
  \A c, x \in SequenceNumbers :
    /\ Successor(c) = IF c + 1 = SequenceModulus THEN 0 ELSE c + 1
    /\ Distance(c, x) \in 0 .. SequenceModulus - 1
    /\ Distance(c, x) = 0 <=> c = x
    /\ Distance(c, x) + 1 < SequenceModulus
         => Distance(Successor(c), x) = Distance(c, x) + 1
    /\ SequenceModulus > 1 => (Distance(c, x) = 1 <=> c = Successor(x))
<1> SUFFICES ASSUME NEW c \in SequenceNumbers, NEW x \in SequenceNumbers
             PROVE  /\ Successor(c) = IF c + 1 = SequenceModulus THEN 0 ELSE c + 1
                    /\ Distance(c, x) \in 0 .. SequenceModulus - 1
                    /\ Distance(c, x) = 0 <=> c = x
                    /\ Distance(c, x) + 1 < SequenceModulus
                         => Distance(Successor(c), x) = Distance(c, x) + 1
                    /\ SequenceModulus > 1 => (Distance(c, x) = 1 <=> c = Successor(x))
  OBVIOUS
<1>1. SequenceModulus \in Nat \ {0} /\ c \in 0 .. SequenceModulus - 1
      /\ x \in 0 .. SequenceModulus - 1
  BY SequencesAssumption DEF SequenceNumbers
<1>2. \A y \in 0 .. SequenceModulus - 1 :
        Successor(y) = IF y + 1 = SequenceModulus THEN 0 ELSE y + 1
  <2> TAKE y \in 0 .. SequenceModulus - 1
  <2>1. y + 1 < SequenceModulus => (y + 1) % SequenceModulus = y + 1
    BY <1>1
  <2>2. SequenceModulus % SequenceModulus = 0
    BY <1>1
  <2>3. QED
    BY <1>1, <2>1, <2>2 DEF Successor
<1>3. /\ Successor(c) = IF c + 1 = SequenceModulus THEN 0 ELSE c + 1
      /\ Successor(x) = IF x + 1 = SequenceModulus THEN 0 ELSE x + 1
  BY <1>1, <1>2
<1>4. QED
  BY <1>1, <1>3 DEF Distance

\* The counter gives out a number.
LEMMA GivenOut ==
  ASSUME NEW counter \in SequenceNumbers, NEW span \in Nat, span + 1 < SequenceModulus,
         NEW used, NEW frames, \A n \in used : frames[n].number \in SequenceNumbers,
         InTurn(counter, span, used, frames),
         NEW k, k \notin used, frames[k].number = counter
  PROVE  InTurn(Successor(counter), span + 1, used \cup {k}, frames)
<1>1. SequenceModulus \in Nat /\ SequenceModulus > 1
  BY SequencesAssumption
<1>2. \A n \in used : /\ Distance(counter, frames[n].number) \in 1 .. span
                      /\ frames[n].number # counter
                      /\ Distance(Successor(counter), frames[n].number)
                           \in 1 .. span + 1
  <2> TAKE n \in used
  <2>1. Distance(counter, frames[n].number) \in 1 .. span
    BY DEF InTurn
  <2>2. frames[n].number \in SequenceNumbers
    OBVIOUS
  <2>3. Distance(counter, frames[n].number) # 0
    BY <2>1
  <2>4. frames[n].number # counter
    BY <2>2, <2>3, NumberArithmetic
  <2>5. Distance(Successor(counter), frames[n].number)
          = Distance(counter, frames[n].number) + 1
    <3>1. Distance(counter, frames[n].number) + 1 < SequenceModulus
      BY <1>1, <2>1
    <3>2. QED
      BY <2>2, <3>1, NumberArithmetic
  <2>6. QED
    BY <2>1, <2>4, <2>5
<1>3. Distance(Successor(counter), frames[k].number) = 1
  <2>1. Distance(counter, counter) = 0
    BY NumberArithmetic
  <2>2. 0 + 1 < SequenceModulus
    BY <1>1
  <2>3. QED
    BY <2>1, <2>2, NumberArithmetic
<1>4. 1 \in 1 .. span + 1
  OBVIOUS
<1>5. \A n \in used \cup {k} :
        Distance(Successor(counter), frames[n].number) \in 1 .. span + 1
  BY <1>2, <1>3, <1>4, Zenon
<1>6. \A m, n \in used \cup {k} : frames[m].number = frames[n].number => m = n
  BY <1>2, Zenon DEF InTurn
<1>7. QED
  BY <1>5, <1>6, Zenon DEF InTurn

\* The last number is given back: no other command has it, and the counter is
\* one step closer to the numbers of the others.
LEMMA GivenBack ==
  ASSUME NEW counter \in SequenceNumbers, NEW span \in Nat, span < SequenceModulus,
         NEW used, NEW frames, \A n \in used : frames[n].number \in SequenceNumbers,
         InTurn(counter, span, used, frames),
         NEW f \in used, counter = Successor(frames[f].number)
  PROVE  InTurn(frames[f].number, span, used \ {f}, frames)
<1> DEFINE d(n) == Distance(counter, frames[n].number)
<1>1. \A n \in used : frames[n].number \in SequenceNumbers /\ d(n) \in 1 .. span
  BY Zenon DEF InTurn
<1>2. SequenceModulus \in Nat /\ SequenceModulus > 1
  <2>1. d(f) \in 1 .. span /\ SequenceModulus \in Nat
    BY <1>1, SequencesAssumption
  <2> HIDE DEF d
  <2>2. QED
    BY <2>1
<1>3. \A g \in used \ {f} : Distance(frames[f].number, frames[g].number) \in 1 .. span
  <2> TAKE g \in used \ {f}
  <2> DEFINE x == frames[f].number
             y == frames[g].number
  <2>1. x \in SequenceNumbers /\ y \in SequenceNumbers /\ x # y
    BY Zenon DEF InTurn
  <2>2. counter = Successor(x) /\ Distance(counter, y) \in 1 .. span
    BY <1>1
  <2>3. Distance(x, y) \in 0 .. SequenceModulus - 1 /\ Distance(x, y) # 0
    BY <2>1, NumberArithmetic
  <2>4. Distance(x, y) + 1 < SequenceModulus
          => Distance(counter, y) = Distance(x, y) + 1
    BY <2>1, <2>2, NumberArithmetic
  <2>5. Distance(x, y) + 1 # SequenceModulus
    <3>1. \A a, b \in 0 .. SequenceModulus - 1 :
            (IF b <= a THEN a - b ELSE a - b + SequenceModulus) + 1 = SequenceModulus
              => b = IF a + 1 = SequenceModulus THEN 0 ELSE a + 1
      BY <1>2
    <3>2. SUFFICES ASSUME Distance(x, y) + 1 = SequenceModulus PROVE FALSE
      OBVIOUS
    <3>3. y = Successor(x)
      <4>1. x \in 0 .. SequenceModulus - 1 /\ y \in 0 .. SequenceModulus - 1
        BY <2>1 DEF SequenceNumbers
      <4>2. y = IF x + 1 = SequenceModulus THEN 0 ELSE x + 1
        BY <3>1, <3>2, <4>1, Zenon DEF Distance
      <4>3. QED
        BY <2>1, <4>2, NumberArithmetic
    <3>4. Distance(counter, y) = 0
      BY <2>1, <2>2, <3>3, NumberArithmetic
    <3>5. 0 \notin 1 .. span
      OBVIOUS
    <3>6. QED
      BY <2>2, <3>4, <3>5, Zenon
  <2> HIDE DEF x, y
  <2>6. \A e, s \in Nat : \A d1 : e # 0 /\ e <= SequenceModulus - 1 /\ e + 1 # SequenceModulus
           /\ (e + 1 < SequenceModulus => d1 = e + 1) /\ d1 \in 1 .. s => e \in 1 .. s
    BY <1>2
  <2>7. Distance(x, y) \in Nat /\ Distance(x, y) <= SequenceModulus - 1
    BY <1>2, <2>3
  <2>8. Distance(x, y) \in 1 .. span
    BY <2>2, <2>3, <2>4, <2>5, <2>6, <2>7, Zenon
  <2>9. QED
    BY <2>8 DEF x, y
<1>4. QED
  BY <1>3, Zenon DEF InTurn

LEMMA InTurnSubset ==
  ASSUME NEW counter, NEW span \in Nat, NEW used, NEW frames,
         InTurn(counter, span, used, frames),
         NEW longer \in Nat, span <= longer, NEW fewer \in SUBSET used, NEW others,
         \A n \in fewer : others[n] = frames[n]
  PROVE  InTurn(counter, longer, fewer, others)
<1>1. \A x \in 1 .. span : x \in 1 .. longer
  OBVIOUS
<1>2. QED
  BY <1>1, Zenon DEF InTurn

\* Whatever fails in a step, ReturnSequence leaves the other numbers in turn.
LEMMA ReturnKeepsTurn ==
  ASSUME NEW states \in [Slots -> SequenceRecord], NEW i \in Slots,
         states[i].occupied,
         NEW frames, \A n \in 1 .. Len(sent) : frames[n] = sent[n],
         NEW used, \A n \in used : frames[n].number \in SequenceNumbers,
         NEW span \in Nat, span < SequenceModulus,
         InTurn(states[i].sequenceCounter, span, used, frames),
         \A n \in Failed : sent[n].node = states[i].nodeId => n \in used
  PROVE  InTurn(ReturnSequences(states)[i].sequenceCounter, span, used \ Failed, frames)
<1> DEFINE failures == {n \in Failed :
                          /\ Serves(states[i], sent[n].node)
                          /\ states[i].sequenceCounter = Successor(sent[n].number)}
           f == CHOOSE n \in failures : TRUE
<1>1. ReturnSequences(states)[i] =
        IF failures = {} THEN states[i]
        ELSE [states[i] EXCEPT !.sequenceCounter = sent[f].number]
  BY Zenon DEF ReturnSequences
<1>2. states[i] \in SequenceRecord /\ states[i].sequenceCounter \in SequenceNumbers
  BY DEF SequenceRecord
<1>3. CASE failures = {}
  BY <1>1, <1>3, InTurnSubset
<1>4. CASE failures # {}
  <2>1. f \in failures
    BY <1>4, Zenon
  <2>2. /\ f \in Failed
        /\ f \in used
        /\ frames[f] = sent[f]
        /\ states[i].sequenceCounter = Successor(frames[f].number)
    BY <2>1 DEF Serves, Failed
  <2>3. ReturnSequences(states)[i].sequenceCounter = frames[f].number
    BY <1>1, <1>2, <1>4, <2>2, ZenonT(60) DEF SequenceRecord
  <2> HIDE DEF f, failures
  <2>4. InTurn(frames[f].number, span, used \ {f}, frames)
    BY <1>2, <2>2, GivenBack
  <2>5. used \ Failed \in SUBSET (used \ {f})
    BY <2>2
  <2>6. InTurn(frames[f].number, span, used \ Failed, frames)
    BY <2>4, <2>5, InTurnSubset
  <2>7. QED
    BY <2>3, <2>6
<1>5. QED
  BY <1>3, <1>4

\* What becomes of the frames held when another is offered: at most one is lost.
LEMMA OfferKeepsHeld ==
  ASSUME TransportTypes, TransportHolds, NEW frame \in SentFrames, SendFrame(frame)
  PROVE  /\ TransportHolds'
         /\ outcome'[NextCall] \in {"held", "refused"}
         /\ \A n \in 1 .. Len(sent) :
              \/ outcome'[n] = outcome[n]
              \/ outcome[n] = "held" /\ outcome'[n] = "lost"
<1> DEFINE k == Len(sent) + 1
           new == [no |-> k, priority |-> frame.priority]
<1>1. /\ Len(sent) \in Nat
      /\ Len(sent') = k
      /\ k \in Calls
      /\ 1 .. Len(sent) \subseteq Calls \ {k}
      /\ NextCall = k
  BY OfferEffects, NextCallExists
<1>2. \/ Transport!Start(new)
      \/ Transport!Wait(new)
      \/ Transport!TakePlace(new)
      \/ Transport!Refuse(new)
  BY OfferedLength DEF SendFrame, Transport!Offer, TransportTypes
<1>3. outcome \in [Calls -> Transport!Outcomes]
  BY DEF TransportTypes
<1>4. \A f \in HeldFrames : f.no \in 1 .. Len(sent) /\ f.no \in 1 .. Len(sent')
                            /\ f.no # k /\ f # new
  BY <1>1 DEF TransportHolds
<1>5. new.no = k /\ k \in 1 .. Len(sent')
  BY <1>1
<1> HIDE DEF k, new
<1>6. CASE Transport!Start(new) \/ Transport!Wait(new)
  <2>1. /\ outcome' = [outcome EXCEPT ![k] = "held"]
        /\ \/ onWay = NoFrame /\ onWay' = new /\ waiting' = waiting
           \/ onWay # NoFrame /\ onWay' = onWay /\ waiting' = waiting \cup {new}
    BY <1>5, <1>6 DEF Transport!Start, Transport!Wait
  <2>2. /\ outcome'[k] = "held"
        /\ \A n \in 1 .. Len(sent) : outcome'[n] = outcome[n]
    BY <1>1, <1>3, <2>1
  <2>3. \A f \in HeldFrames' : f \in HeldFrames \/ f = new
    BY <2>1 DEF HeldFrames
  <2>4. \A f \in HeldFrames' : f.no \in 1 .. Len(sent') /\ outcome'[f.no] = "held"
    BY <1>4, <1>5, <2>2, <2>3 DEF TransportHolds
  <2>5. \A f, g \in HeldFrames' : f.no = g.no => f = g
    BY <1>4, <1>5, <2>3 DEF TransportHolds
  <2>6. onWay' # NoFrame => onWay' \notin waiting'
    BY <1>4, <2>1 DEF TransportHolds, HeldFrames
  <2>7. QED
    BY <1>1, <2>2, <2>4, <2>5, <2>6 DEF TransportHolds
<1>7. CASE Transport!TakePlace(new)
  <2>1. PICK last \in waiting :
          /\ outcome' = [outcome EXCEPT ![last.no] = "lost", ![k] = "held"]
          /\ onWay' = onWay
          /\ waiting' = (waiting \ {last}) \cup {new}
    BY <1>5, <1>7 DEF Transport!TakePlace
  <2>2. last \in HeldFrames /\ last.no \in 1 .. Len(sent) /\ outcome[last.no] = "held"
    BY DEF TransportHolds, HeldFrames
  <2>3. /\ outcome'[k] = "held"
        /\ \A n \in 1 .. Len(sent) : outcome'[n] = IF n = last.no THEN "lost"
                                                   ELSE outcome[n]
    BY <1>1, <1>3, <2>1, <2>2
  <2>4. onWay # NoFrame => onWay # last
    BY DEF TransportHolds
  <2>5. \A f \in HeldFrames' : (f \in HeldFrames /\ f # last) \/ f = new
    BY <2>1, <2>4 DEF HeldFrames
  <2>6. \A f \in HeldFrames : f # last => f.no # last.no
    BY <2>2 DEF TransportHolds
  <2>7. \A f \in HeldFrames' : f.no \in 1 .. Len(sent') /\ outcome'[f.no] = "held"
    BY <1>4, <1>5, <2>3, <2>5, <2>6 DEF TransportHolds
  <2>8. \A f, g \in HeldFrames' : f.no = g.no => f = g
    BY <1>4, <1>5, <2>5 DEF TransportHolds
  <2>9. onWay' # NoFrame => onWay' \notin waiting'
    BY <1>4, <2>1 DEF TransportHolds, HeldFrames
  <2>10. QED
    BY <1>1, <2>2, <2>3, <2>7, <2>8, <2>9 DEF TransportHolds
<1>8. CASE Transport!Refuse(new)
  <2>1. /\ outcome' = [outcome EXCEPT ![k] = "refused"]
        /\ UNCHANGED <<onWay, waiting>>
    BY <1>5, <1>8 DEF Transport!Refuse
  <2>2. /\ outcome'[k] = "refused"
        /\ \A n \in 1 .. Len(sent) : outcome'[n] = outcome[n]
    BY <1>1, <1>3, <2>1
  <2>3. HeldFrames' = HeldFrames
    BY <2>1 DEF HeldFrames
  <2>4. \A f \in HeldFrames' : f.no \in 1 .. Len(sent') /\ outcome'[f.no] = "held"
    BY <1>4, <2>2, <2>3 DEF TransportHolds
  <2>5. QED
    BY <1>1, <2>1, <2>2, <2>3, <2>4 DEF TransportHolds
<1>9. QED
  BY <1>2, <1>6, <1>7, <1>8

LEMMA FinishKeepsHeld ==
  ASSUME TransportTypes, TransportHolds, UNCHANGED sent,
         NEW result \in {"delivered", "lost"}, Transport!Finish(result)
  PROVE  /\ TransportHolds'
         /\ \A n \in 1 .. Len(sent) :
              \/ outcome'[n] = outcome[n]
              \/ outcome[n] = "held" /\ outcome'[n] \in {"delivered", "lost"}
<1>1. /\ outcome' = [outcome EXCEPT ![onWay.no] = result]
      /\ outcome \in [Calls -> Transport!Outcomes]
      /\ 1 .. Len(sent) \subseteq Calls
      /\ onWay # NoFrame
  BY NextCallExists DEF Transport!Finish, TransportTypes
<1>2. onWay \in HeldFrames /\ onWay.no \in 1 .. Len(sent) /\ outcome[onWay.no] = "held"
  BY <1>1 DEF TransportHolds, HeldFrames
<1>3. \A n \in 1 .. Len(sent) : outcome'[n] = IF n = onWay.no THEN result ELSE outcome[n]
  BY <1>1
<1>4. /\ HeldFrames' \subseteq waiting
      /\ onWay' # NoFrame => onWay' \notin waiting'
  BY DEF Transport!Finish, Transport!Advance, HeldFrames
<1>5. \A f \in waiting : f \in HeldFrames /\ f.no # onWay.no
  BY <1>1, <1>2 DEF TransportHolds, HeldFrames
<1>6. \A f \in HeldFrames' : f.no \in 1 .. Len(sent') /\ outcome'[f.no] = "held"
  BY <1>3, <1>4, <1>5 DEF TransportHolds
<1>7. \A f, g \in HeldFrames' : f.no = g.no => f = g
  BY <1>4, <1>5 DEF TransportHolds
<1>8. QED
  BY <1>2, <1>3, <1>4, <1>6, <1>7 DEF TransportHolds

\* What a step says of the frames sent before it.
OutcomesFollow ==
  /\ TransportTypes /\ TransportTypes'
  /\ TransportHolds
  /\ Len(sent) <= Len(sent')
  /\ \A n \in 1 .. Len(sent) :
       /\ sent'[n] = sent[n]
       /\ \/ outcome'[n] = outcome[n]
          \/ outcome[n] = "held" /\ outcome'[n] \in {"delivered", "lost"}

LEMMA FrameNumbers ==
  ASSUME TransportTypes
  PROVE  \A n \in 1 .. Len(sent) : sent[n].kind = "command"
           => sent[n].number \in SequenceNumbers /\ sent[n].node \in Targets
<1> TAKE n \in 1 .. Len(sent)
<1>1. sent[n] \in SentFrames
  BY ElementOfSeq DEF TransportTypes
<1>2. QED
  BY <1>1, FrameFields

\* A command in use after the step was in use before it, or is a new one; and
\* none of those that failed is.
LEMMA UsedFollows ==
  ASSUME OutcomesFollow, NEW node
  PROVE  /\ \A n \in HeldCommandsTo(node)' :
              n \in HeldCommandsTo(node) \/ n \in Len(sent) + 1 .. Len(sent')
         /\ \A n \in Used(node)' :
              /\ n \notin Failed
              /\ \/ n \in 1 .. Len(sent) /\ IsCommandTo(node, n) /\ InUse(n)
                 \/ n \in Len(sent) + 1 .. Len(sent')
         /\ \A n \in Failed : sent[n].node = node => n \in HeldCommandsTo(node)
<1>1. Len(sent) \in Nat /\ Len(sent') \in Nat /\ Len(sent) <= Len(sent')
  BY LenProperties DEF OutcomesFollow, TransportTypes
<1>2. \A n \in 1 .. Len(sent') : n \in 1 .. Len(sent) \/ n \in Len(sent) + 1 .. Len(sent')
  BY <1>1
<1>3. \A n \in 1 .. Len(sent) :
        /\ IsCommandTo(node, n)' <=> IsCommandTo(node, n)
        /\ InUse(n)' => InUse(n)
        /\ outcome'[n] = "held" => outcome[n] = "held"
  BY DEF OutcomesFollow, IsCommandTo, InUse
<1>4. \A n \in Failed : ~InUse(n)' /\ n \in 1 .. Len(sent)
  BY DEF Failed, InUse
<1>5. \A n \in Failed : sent[n].node = node => n \in HeldCommandsTo(node)
  BY DEF Failed, HeldCommandsTo, IsCommandTo
<1>6. \A n \in HeldCommandsTo(node)' :
        n \in HeldCommandsTo(node) \/ n \in Len(sent) + 1 .. Len(sent')
  BY <1>2, <1>3 DEF HeldCommandsTo
<1>7. \A n \in Used(node)' :
        /\ n \notin Failed
        /\ \/ n \in 1 .. Len(sent) /\ IsCommandTo(node, n) /\ InUse(n)
           \/ n \in Len(sent) + 1 .. Len(sent')
  BY <1>2, <1>3, <1>4 DEF Used
<1>8. QED
  BY <1>5, <1>6, <1>7

\* A step that gives no number of the slot's server out.
LEMMA SlotKeepsNumbers ==
  ASSUME OutcomesFollow, NEW j \in Slots, SlotInTurn(j),
         NEW node \in Targets, node = serverStates[j].nodeId,
         NEW states \in [Slots -> SequenceRecord], states[j] = serverStates[j],
         serverStates' = ReturnSequences(states),
         since' \in [Targets -> 0 .. MaxSends + 1],
         since'[node] = since[node],
         \A n \in Len(sent) + 1 .. Len(sent') :
           IsCommandTo(node, n)' => outcome'[n] = "refused"
  PROVE  SlotInTurn(j)'
<1> DEFINE span == Len(sent) + 1 - since[node]
<1>1. /\ serverStates'[j].occupied = serverStates[j].occupied
      /\ serverStates'[j].nodeId = node
  BY ReturnKeepsSlots DEF OutcomesFollow
<1>2. SUFFICES ASSUME serverStates[j].occupied, since[node] # 0
               PROVE  /\ since[node] <= Len(sent') + 1
                      /\ \A n \in HeldCommandsTo(node)' : n >= since[node]
                      /\ Len(sent') + 1 - since[node] < SequenceModulus =>
                           InTurn(serverStates'[j].sequenceCounter,
                                  Len(sent') + 1 - since[node], Used(node)', sent')
  BY <1>1 DEF SlotInTurn
<1>3. /\ since[node] <= Len(sent) + 1
      /\ \A n \in HeldCommandsTo(node) : n >= since[node]
      /\ span < SequenceModulus =>
           InTurn(serverStates[j].sequenceCounter, span, Used(node), sent)
  BY <1>2 DEF SlotInTurn
<1>4. /\ Len(sent) \in Nat /\ Len(sent') \in Nat /\ Len(sent) <= Len(sent')
      /\ since[node] \in Nat
  BY LenProperties, CallsAreNumbers DEF OutcomesFollow, TransportTypes
<1> DEFINE longer == Len(sent') + 1 - since[node]
<1>5. span \in Nat /\ longer \in Nat /\ span <= longer /\ SequenceModulus \in Nat
  BY <1>3, <1>4, SequencesAssumption
<1>6. /\ \A n \in HeldCommandsTo(node)' : n \in HeldCommandsTo(node)
      /\ Used(node)' \subseteq Used(node) \ Failed
  <2>1. \A n \in Len(sent) + 1 .. Len(sent') :
          n \notin HeldCommandsTo(node)' /\ n \notin Used(node)'
    BY DEF HeldCommandsTo, Used, InUse
  <2>2. \A n \in Used(node)' : n >= since[node]
    BY DEF Used
  <2>3. QED
    BY <2>1, <2>2, UsedFollows DEF Used
<1>7. ASSUME longer < SequenceModulus
      PROVE  InTurn(serverStates'[j].sequenceCounter, longer, Used(node)', sent')
  <2>1. span < SequenceModulus
    BY <1>5, <1>7
  <2>2. \A n \in Used(node) : /\ n \in 1 .. Len(sent)
                              /\ sent'[n] = sent[n]
                              /\ sent'[n].number \in SequenceNumbers
    BY FrameNumbers DEF OutcomesFollow, Used, IsCommandTo
  <2>3. InTurn(serverStates[j].sequenceCounter, span, Used(node), sent')
    BY <1>3, <1>5, <2>1, <2>2, InTurnSubset
  <2>4. \A n \in Failed : sent[n].node = node => n \in Used(node)
    BY <1>3, UsedFollows DEF HeldCommandsTo, Used, InUse
  <2>5. InTurn(ReturnSequences(states)[j].sequenceCounter, span, Used(node) \ Failed, sent')
    <3>1. \A n \in 1 .. Len(sent) : sent'[n] = sent[n]
      BY DEF OutcomesFollow
    <3> HIDE DEF span
    <3>2. QED
      BY <1>2, <1>5, <2>1, <2>2, <2>3, <2>4, <3>1, ReturnKeepsTurn
  <2>6. QED
    BY <1>5, <1>6, <2>5, InTurnSubset
<1>8. QED
  BY <1>3, <1>4, <1>6, <1>7

LEMMA SlotsHaveServers ==
  ASSUME SlotTypes, NEW j \in Slots
  PROVE  serverStates[j] \in SequenceRecord /\ serverStates[j].nodeId \in Targets
<1>1. serverStates[j] \in SequenceRecord
  BY DEF SlotTypes
<1>2. QED
  BY <1>1 DEF SequenceRecord

\* The steps that give no number out.
LEMMA NothingGivenOut ==
  ASSUME OutcomesFollow, NumbersInTurn, SlotTypes, HistoryTypes,
         serverStates' = ReturnSequences(serverStates), since' = since,
         \A n \in Len(sent) + 1 .. Len(sent') :
           sent'[n].kind = "command" => outcome'[n] = "refused"
  PROVE  NumbersInTurn'
<1>1. serverStates \in [Slots -> SequenceRecord] /\ since' \in [Targets -> 0 .. MaxSends + 1]
  BY DEF SlotTypes, HistoryTypes
<1>2. ASSUME NEW j \in Slots PROVE SlotInTurn(j)'
  <2>1. PICK node \in Targets : node = serverStates[j].nodeId
    BY SlotsHaveServers
  <2>2. SlotInTurn(j)
    BY DEF NumbersInTurn
  <2>3. \A n \in Len(sent) + 1 .. Len(sent') :
          IsCommandTo(node, n)' => outcome'[n] = "refused"
    BY DEF IsCommandTo
  <2>4. QED
    BY <1>1, <2>1, <2>2, <2>3, SlotKeepsNumbers
<1>3. QED
  BY <1>2 DEF NumbersInTurn

LEMMA ReservationNumber ==
  ASSUME SlotTypes, NextCall \in Calls, NEW node \in Targets, NEW i \in Slots,
         NEW reserved \in {ReserveSequence(node, i)}
  PROVE  /\ reserved.number = IF Serves(serverStates[i], node)
                              THEN serverStates[i].sequenceCounter ELSE 0
         /\ reserved.number \in SequenceNumbers
         /\ reserved.states \in [Slots -> SequenceRecord]
         /\ \A j \in Slots \ {i} : reserved.states[j] = serverStates[j]
         /\ reserved.states[i].occupied
         /\ reserved.states[i].nodeId = node
         /\ reserved.states[i].sequenceCounter = Successor(reserved.number)
<1>1. PICK number \in SequenceNumbers, states \in [Slots -> SequenceRecord],
           evictIndex \in Slots :
        IsReservation(reserved, node, i, number, states, evictIndex)
  BY ReservationFields
<1>2. /\ reserved.number = number /\ reserved.states = states
      /\ states[i].occupied /\ states[i].nodeId = node
      /\ \A j \in Slots \ {i} : states[j] = serverStates[j]
  BY <1>1 DEF IsReservation
<1>3. reserved.number = IF Serves(serverStates[i], node)
                        THEN serverStates[i].sequenceCounter ELSE 0
  BY DEF ReserveSequence
<1>4. reserved.states = [serverStates EXCEPT ![i] =
        [occupied |-> TRUE, nodeId |-> node,
         sequenceCounter |-> Successor(reserved.number), awaiting |-> NextCall]]
  BY <1>3 DEF ReserveSequence
<1>5. reserved.states[i].sequenceCounter = Successor(reserved.number)
  BY <1>4 DEF SlotTypes
<1>6. QED
  BY <1>2, <1>3, <1>5

\* The frame of a command and what becomes of the frames before it.
LEMMA SendEffects ==
  ASSUME IInv, TransportHolds, NEW frame \in SentFrames, SendFrame(frame)
  PROVE  /\ OutcomesFollow
         /\ TransportHolds'
         /\ NextCall \in Calls
         /\ Len(sent) \in Nat
         /\ Len(sent') = NextCall
         /\ Len(sent) + 1 .. Len(sent') = {NextCall}
         /\ sent'[NextCall] = frame
         /\ outcome'[NextCall] \in {"held", "refused"}
<1>1. TransportTypes
  BY DEF IInv
<1>2. /\ TransportTypes'
      /\ Len(sent) \in Nat
      /\ NextCall = Len(sent) + 1
      /\ NextCall \in Calls
      /\ Len(sent') = Len(sent) + 1
      /\ \A n \in 1 .. Len(sent) : sent'[n] = sent[n]
      /\ sent'[NextCall] = frame
  BY <1>1, OfferEffects, NextCallExists
<1>3. /\ TransportHolds'
      /\ outcome'[NextCall] \in {"held", "refused"}
      /\ \A n \in 1 .. Len(sent) :
           \/ outcome'[n] = outcome[n]
           \/ outcome[n] = "held" /\ outcome'[n] = "lost"
  BY <1>1, OfferKeepsHeld
<1>4. OutcomesFollow
  BY <1>1, <1>2, <1>3 DEF OutcomesFollow
<1>5. QED
  BY <1>2, <1>3, <1>4

\* The slot of the command gives its counter out, or counts from the command on.
LEMMA ReservedSlotInTurn ==
  ASSUME IInv, NInv, NEW node \in Targets, NEW command \in Commands, NEW i \in Slots,
         NEW reserved \in {ReserveSequence(node, i)},
         SendFrame(Command(node, command, reserved.number)),
         SendReserved(node, i, reserved)
  PROVE  SlotInTurn(i)'
<1>1. SlotTypes /\ TransportTypes /\ HistoryTypes /\ TransportHolds /\ SlotInTurn(i)
  BY DEF IInv, NInv, NumbersInTurn
<1>2. NextCall \in Calls
  BY <1>1, OfferedLength, NextCallExists DEF SendFrame, Transport!Offer, TransportTypes
<1>3. /\ reserved.number = IF Serves(serverStates[i], node)
                           THEN serverStates[i].sequenceCounter ELSE 0
      /\ reserved.number \in SequenceNumbers
      /\ reserved.states \in [Slots -> SequenceRecord]
      /\ reserved.states[i].occupied
      /\ reserved.states[i].nodeId = node
      /\ reserved.states[i].sequenceCounter = Successor(reserved.number)
  BY <1>1, <1>2, ReservationNumber
<1>4. Command(node, command, reserved.number) \in SentFrames
  BY <1>3 DEF Command, SentFrames
<1>5. PICK k, number, counter, s :
        /\ k = NextCall
        /\ number = reserved.number
        /\ counter = Successor(number)
        /\ s = since'[node]
  OBVIOUS
<1>6. /\ OutcomesFollow
      /\ Len(sent) \in Nat /\ k = Len(sent) + 1 /\ k \notin 1 .. Len(sent)
      /\ Len(sent') = k
      /\ Len(sent) + 1 .. Len(sent') = {k}
      /\ sent'[k].number = number
      /\ \A n \in 1 .. Len(sent) : sent'[n] = sent[n]
      /\ \A n \in Failed : n \in 1 .. Len(sent)
  <2>1. /\ OutcomesFollow /\ Len(sent) \in Nat /\ Len(sent') = NextCall
        /\ Len(sent) + 1 .. Len(sent') = {NextCall}
        /\ sent'[NextCall] = Command(node, command, reserved.number)
    BY <1>1, <1>4, SendEffects
  <2>2. sent'[k].number = number
    BY <1>5, <2>1 DEF Command
  <2>3. QED
    BY <1>5, <2>1, <2>2 DEF OutcomesFollow, Failed, NextCall
<1>7. /\ serverStates' = ReturnSequences(reserved.states)
      /\ serverStates'[i].occupied
      /\ serverStates'[i].nodeId = node
  BY <1>1, <1>3, ReturnKeepsSlots DEF SendReserved
<1>8. /\ \A n \in HeldCommandsTo(node)' : n \in HeldCommandsTo(node) \/ n = k
      /\ \A n \in Used(node)' :
           /\ n \notin Failed
           /\ \/ n \in 1 .. Len(sent) /\ IsCommandTo(node, n) /\ InUse(n)
              \/ n = k
      /\ \A n \in Failed : sent[n].node = node => n \in HeldCommandsTo(node)
  BY <1>6, UsedFollows
<1>9. \A n \in Used(node)' : n >= s
  BY <1>5 DEF Used
\* It is enough to know a set of numbers in turn with the new one among them.
<1>10. ASSUME NEW used, NEW span \in Nat, span < SequenceModulus,
              \A n \in used : sent'[n].number \in SequenceNumbers,
              InTurn(counter, span, used, sent'),
              \A n \in Failed : sent[n].node = node => n \in used,
              Used(node)' \subseteq used
       PROVE  InTurn(serverStates'[i].sequenceCounter, span, Used(node)', sent')
  <2>1. reserved.states[i].sequenceCounter = counter
    BY <1>3, <1>5
  <2>2. InTurn(ReturnSequences(reserved.states)[i].sequenceCounter, span, used \ Failed, sent')
    BY <1>3, <1>6, <1>10, <2>1, ReturnKeepsTurn
  <2>3. Used(node)' \in SUBSET (used \ Failed)
    BY <1>8, <1>10
  <2>4. QED
    BY <1>7, <1>10, <2>2, <2>3, InTurnSubset
<1>11. SUFFICES ASSUME s # 0
                PROVE  /\ s <= k + 1
                       /\ \A n \in HeldCommandsTo(node)' : n >= s
                       /\ k + 1 - s < SequenceModulus =>
                            InTurn(serverStates'[i].sequenceCounter, k + 1 - s,
                                   Used(node)', sent')
  BY <1>5, <1>6, <1>7 DEF SlotInTurn
<1>12. number \in SequenceNumbers /\ SequenceModulus \in Nat
  BY <1>3, <1>5, SequencesAssumption
<1>13. CASE Serves(serverStates[i], node)
  <2>1. /\ serverStates[i].occupied /\ serverStates[i].nodeId = node
        /\ number = serverStates[i].sequenceCounter
        /\ s = since[node]
    BY <1>3, <1>5, <1>13 DEF Serves, SendReserved
  <2>2. /\ s <= Len(sent) + 1
        /\ \A n \in HeldCommandsTo(node) : n >= s
        /\ Len(sent) + 1 - s < SequenceModulus =>
             InTurn(number, Len(sent) + 1 - s, Used(node), sent)
    BY <1>1, <1>11, <2>1 DEF SlotInTurn
  <2>3. s \in Nat
    BY <1>1, <2>1, CallsAreNumbers DEF HistoryTypes
  <2>4. s <= k + 1 /\ k >= s /\ \A n \in HeldCommandsTo(node)' : n >= s
    BY <1>6, <1>8, <2>2, <2>3
  <2>5. ASSUME k + 1 - s < SequenceModulus
        PROVE  InTurn(serverStates'[i].sequenceCounter, k + 1 - s, Used(node)', sent')
    <3>1. PICK span : span = k - s
      OBVIOUS
    <3>2. /\ span \in Nat /\ span + 1 = k + 1 - s /\ span = Len(sent) + 1 - s
          /\ span + 1 < SequenceModulus /\ span + 1 \in Nat /\ span < SequenceModulus
      BY <1>6, <1>12, <2>3, <2>4, <2>5, <3>1
    <3>3. \A n \in Used(node) : /\ n \in 1 .. Len(sent)
                                /\ sent'[n] = sent[n]
                                /\ sent'[n].number \in SequenceNumbers
      BY <1>1, <1>6, FrameNumbers DEF Used, IsCommandTo
    <3>4. InTurn(number, span, Used(node), sent')
      <4>1. InTurn(number, span, Used(node), sent)
        BY <2>2, <3>2
      <4>2. span <= span
        BY <3>2
      <4>3. QED
        BY <3>2, <3>3, <4>1, <4>2, InTurnSubset
    <3>5. k \notin Used(node)
      BY <1>6, <3>3
    <3>6. InTurn(counter, span + 1, Used(node) \cup {k}, sent')
      BY <1>5, <1>6, <1>12, <3>2, <3>3, <3>4, <3>5, GivenOut
    <3>7. \A n \in Used(node) \cup {k} : sent'[n].number \in SequenceNumbers
      BY <1>6, <1>12, <3>3
    <3>8. Used(node)' \subseteq Used(node) \cup {k}
      BY <1>8, <1>9, <2>1 DEF Used
    <3>9. \A n \in Failed : sent[n].node = node => n \in Used(node) \cup {k}
      BY <1>8, <2>1, <2>2 DEF HeldCommandsTo, Used, InUse
    <3>10. InTurn(serverStates'[i].sequenceCounter, span + 1, Used(node)', sent')
      BY <1>10, <3>2, <3>6, <3>7, <3>8, <3>9
    <3>11. QED
      BY <3>2, <3>10
  <2>6. QED
    BY <2>4, <2>5
<1>14. CASE ~Serves(serverStates[i], node)
  <2>1. StartCounting(node) /\ number = 0
    BY <1>3, <1>5, <1>14 DEF SendReserved
  <2>2. s = k /\ HeldCommandsTo(node) = {}
    BY <1>1, <1>5, <1>11, <2>1 DEF StartCounting, HistoryTypes
  <2>3. s <= k + 1 /\ k + 1 - s = 1 /\ \A n \in HeldCommandsTo(node)' : n >= s
    BY <1>6, <1>8, <2>2
  <2>4. ASSUME 1 < SequenceModulus
        PROVE  InTurn(serverStates'[i].sequenceCounter, 1, Used(node)', sent')
    <3>1. InTurn(number, 0, {}, sent')
      BY DEF InTurn
    <3>2. InTurn(counter, 0 + 1, {} \cup {k}, sent')
      <4>1. 0 \in Nat /\ 0 + 1 < SequenceModulus
        BY <2>4
      <4>2. QED
        BY <1>5, <1>6, <1>12, <3>1, <4>1, GivenOut
    <3>3. 0 + 1 = 1 /\ {} \cup {k} = {k} /\ 1 \in Nat
      OBVIOUS
    <3>4. InTurn(counter, 1, {k}, sent')
      BY <3>2, <3>3
    <3>5. \A n \in {k} : sent'[n].number \in SequenceNumbers
      BY <1>6, <1>12
    <3>6. Used(node)' \subseteq {k}
      <4>1. \A n \in 1 .. Len(sent) : ~(n >= k)
        BY <1>6
      <4>2. QED
        BY <1>8, <1>9, <2>2, <4>1
    <3>7. \A n \in Failed : sent[n].node = node => n \in {k}
      BY <1>8, <2>2
    <3>8. QED
      BY <1>10, <2>4, <3>3, <3>4, <3>5, <3>6, <3>7
  <2>5. QED
    BY <2>3, <2>4
<1>15. QED
  BY <1>13, <1>14

LEMMA SendCommandKeepsNumbers ==
  ASSUME IInv, NInv, NEW node \in Targets, NEW command \in Commands,
         SendCommand(node, command)
  PROVE  NInv'
<1>1. PICK i \in Slots :
        /\ Claims(node, i)
        /\ \E reserved \in {ReserveSequence(node, i)} :
             /\ SendFrame(Command(node, command, reserved.number))
             /\ SendReserved(node, i, reserved) \/ SendRefused(reserved)
  BY DEF SendCommand
<1>2. PICK reserved \in {ReserveSequence(node, i)} :
        /\ Claims(node, i)
        /\ SendFrame(Command(node, command, reserved.number))
        /\ SendReserved(node, i, reserved) \/ SendRefused(reserved)
  BY <1>1
<1>3. SlotTypes /\ TransportTypes /\ HistoryTypes /\ OneSlotPerServer
      /\ OpenCommandsAreTimed /\ TransportHolds /\ NumbersInTurn
  BY DEF IInv, NInv
<1>4. NextCall \in Calls
  BY <1>2, <1>3, OfferedLength, NextCallExists
     DEF SendFrame, Transport!Offer, TransportTypes
<1>5. /\ reserved.number \in SequenceNumbers
      /\ reserved.states \in [Slots -> SequenceRecord]
      /\ \A j \in Slots \ {i} : reserved.states[j] = serverStates[j]
  BY <1>3, <1>4, ReservationNumber
<1>6. Command(node, command, reserved.number) \in SentFrames
  BY <1>5 DEF Command, SentFrames
<1>7. /\ OutcomesFollow
      /\ TransportHolds'
      /\ Len(sent) + 1 .. Len(sent') = {NextCall}
      /\ sent'[NextCall] = Command(node, command, reserved.number)
      /\ outcome'[NextCall] \in {"held", "refused"}
  BY <1>2, <1>3, <1>6, SendEffects
<1>8. CASE SendReserved(node, i, reserved)
  <2>1. serverStates' = ReturnSequences(reserved.states)
    BY <1>8 DEF SendReserved
  <2>2. /\ since' \in [Targets -> 0 .. MaxSends + 1]
        /\ \A other \in Targets : other # node => since'[other] = since[other]
    BY <1>3, <1>8, CountingTypes DEF SendReserved, HistoryTypes, StartCounting
  <2>3. SlotInTurn(i)'
    BY <1>2, <1>8, ReservedSlotInTurn
  <2>4. ASSUME NEW j \in Slots, j # i, serverStates[j].occupied
        PROVE  SlotInTurn(j)'
    <3>1. PICK other \in Targets : other = serverStates[j].nodeId
      BY <1>3, SlotsHaveServers
    <3>2. other # node
      BY <1>2, <1>3, <2>4, <3>1, ClaimedSlotIsTheOnlyOne DEF Serves
    <3>3. \A n \in Len(sent) + 1 .. Len(sent') :
            IsCommandTo(other, n)' => outcome'[n] = "refused"
      BY <1>7, <3>2 DEF IsCommandTo, Command
    <3>4. SlotInTurn(j) /\ reserved.states[j] = serverStates[j]
      BY <1>3, <1>5, <2>4 DEF NumbersInTurn
    <3>5. since'[other] = since[other]
      BY <2>2, <3>2
    <3>6. QED
      BY <1>5, <1>7, <2>1, <2>2, <3>1, <3>3, <3>4, <3>5, SlotKeepsNumbers
  <2>5. ASSUME NEW j \in Slots, j # i, ~serverStates[j].occupied
        PROVE  SlotInTurn(j)'
    <3>1. serverStates'[j].occupied = serverStates[j].occupied
      BY <1>3, <1>5, <2>1, <2>5, ReturnKeepsSlots
    <3>2. QED
      BY <2>5, <3>1 DEF SlotInTurn
  <2>6. QED
    BY <1>7, <2>3, <2>4, <2>5 DEF NInv, NumbersInTurn
<1>9. CASE SendRefused(reserved)
  <2>1. UNCHANGED slotVars
    BY <1>2, <1>6, <1>9, SendRefusedPreserves
  <2>2. outcome'[NextCall] = "refused"
    BY <1>7, <1>9 DEF SendRefused, Taken
  <2>3. Failed = {}
    BY <1>2, <1>3, <1>6, <1>9, OfferEffects DEF SendRefused
  <2>4. serverStates' = ReturnSequences(serverStates) /\ since' = since
    <3>1. DOMAIN serverStates = Slots /\ serverStates = [j \in Slots |-> serverStates[j]]
      BY <1>3 DEF SlotTypes
    <3>2. ReturnSequences(serverStates) = serverStates
      BY <2>3, <3>1, NothingToReturn
    <3>3. QED
      BY <1>9, <2>1, <3>2 DEF SendRefused, slotVars, sequenceHistory
  <2>5. QED
    BY <1>3, <1>7, <2>2, <2>4, NothingGivenOut DEF NInv
<1>10. QED
  BY <1>2, <1>8, <1>9

LEMMA SendOtherKeepsNumbers ==
  ASSUME IInv, NInv, NEW priority \in OtherPriorities, SendOther(priority)
  PROVE  NInv'
<1>1. Other(priority) \in SentFrames /\ SendFrame(Other(priority))
  BY DEF SendOther, Other, SentFrames
<1>2. SlotTypes /\ HistoryTypes /\ TransportHolds /\ NumbersInTurn
  BY DEF IInv, NInv
<1>3. /\ OutcomesFollow
      /\ TransportHolds'
      /\ Len(sent) + 1 .. Len(sent') = {NextCall}
      /\ sent'[NextCall] = Other(priority)
  BY <1>1, <1>2, SendEffects
<1>4. sent'[NextCall].kind # "command"
  BY <1>3 DEF Other
<1>5. serverStates' = ReturnSequences(serverStates) /\ since' = since
  BY DEF SendOther, sequenceHistory
<1>6. QED
  BY <1>2, <1>3, <1>4, <1>5, NothingGivenOut DEF NInv

LEMMA FrameDoneKeepsNumbers ==
  ASSUME IInv, NInv, FrameDone
  PROVE  NInv'
<1>1. SlotTypes /\ TransportTypes /\ HistoryTypes /\ TransportHolds /\ NumbersInTurn
  BY DEF IInv, NInv
<1>2. PICK result \in {"delivered", "lost"} : Transport!Finish(result)
  BY DEF FrameDone
<1>3. UNCHANGED sent
  BY DEF FrameDone
<1>4. /\ TransportTypes'
      /\ TransportHolds'
      /\ \A n \in 1 .. Len(sent) :
           \/ outcome'[n] = outcome[n]
           \/ outcome[n] = "held" /\ outcome'[n] \in {"delivered", "lost"}
  BY <1>1, <1>2, <1>3, FinishEffects, FinishKeepsHeld
<1>5. Len(sent) \in Nat
  BY <1>1, NextCallExists
<1>6. OutcomesFollow /\ Len(sent) + 1 .. Len(sent') = {}
  BY <1>1, <1>3, <1>4, <1>5 DEF OutcomesFollow
<1>7. serverStates' = ReturnSequences(serverStates) /\ since' = since
  BY DEF FrameDone, sequenceHistory
<1>8. QED
  BY <1>1, <1>4, <1>6, <1>7, NothingGivenOut DEF NInv

\* With no frame sent or concluded, a slot whose counter and counting stay is in
\* turn as before.
LEMMA SlotUntouched ==
  ASSUME NEW j \in Slots, SlotInTurn(j), UNCHANGED sendVars,
         NEW node, node = serverStates[j].nodeId,
         serverStates'[j].occupied = serverStates[j].occupied,
         serverStates'[j].nodeId = node,
         serverStates'[j].sequenceCounter = serverStates[j].sequenceCounter,
         since'[node] = since[node]
  PROVE  SlotInTurn(j)'
<1>1. sent' = sent /\ outcome' = outcome
  BY DEF sendVars
<1>2. HeldCommandsTo(node)' = HeldCommandsTo(node) /\ Used(node)' = Used(node)
  BY <1>1 DEF HeldCommandsTo, Used, IsCommandTo, InUse
<1>3. QED
  BY <1>1, <1>2 DEF SlotInTurn

LEMMA HandleCommandAckKeepsNumbers ==
  ASSUME IInv, NInv, NEW node \in Servers, NEW command \in Commands,
         NEW expected \in ExpectedNumbers \cup {-1},
         HandleCommandAck(node, command, expected)
  PROVE  NInv'
<1> DEFINE cleared == ClearAwaitingAck(node, command).states
<1>1. SlotTypes /\ TransportTypes /\ HistoryTypes /\ TransportHolds /\ NumbersInTurn
  BY DEF IInv, NInv
<1>2. /\ UNCHANGED sendVars
      /\ \/ serverStates' = cleared /\ since' = since
         \/ /\ serverStates' = ResyncSequence(cleared, node, expected)
            /\ StartCounting(node)
  BY Zenon DEF HandleCommandAck
<1>3. \A j \in Slots : /\ cleared[j] \in SequenceRecord
                       /\ cleared[j].occupied = serverStates[j].occupied
                       /\ cleared[j].nodeId = serverStates[j].nodeId
                       /\ cleared[j].sequenceCounter = serverStates[j].sequenceCounter
  BY <1>1 DEF ClearAwaitingAck, SlotTypes, SequenceRecord
<1> HIDE DEF cleared
<1>4. TransportHolds'
  BY <1>1, <1>2 DEF TransportHolds, HeldFrames, sendVars
<1>5. ASSUME NEW j \in Slots PROVE SlotInTurn(j)'
  <2>1. PICK other \in Targets : other = serverStates[j].nodeId
    BY <1>1, SlotsHaveServers
  <2>2. SlotInTurn(j)
    BY <1>1 DEF NumbersInTurn
  <2>3. CASE serverStates' = cleared /\ since' = since
    BY <1>2, <1>3, <2>1, <2>2, <2>3, SlotUntouched
  <2>4. CASE serverStates' = ResyncSequence(cleared, node, expected)
             /\ StartCounting(node)
    <3>1. /\ serverStates'[j].occupied = serverStates[j].occupied
          /\ serverStates'[j].nodeId = other
          /\ other # node =>
               serverStates'[j].sequenceCounter = serverStates[j].sequenceCounter
      BY <1>3, <2>1, <2>4 DEF ResyncSequence, Serves, SequenceRecord
    <3>2. CASE other # node
      <4>1. since'[other] = since[other]
        BY <1>1, <2>4, <3>2 DEF StartCounting, HistoryTypes
      <4>2. QED
        BY <1>2, <2>1, <2>2, <3>1, <3>2, <4>1, SlotUntouched
    <3>3. CASE other = node
      <4>1. SUFFICES ASSUME since'[other] # 0
                     PROVE  /\ since'[other] <= Len(sent') + 1
                            /\ \A n \in HeldCommandsTo(other)' : n >= since'[other]
                            /\ Used(other)' = {}
        BY <3>1 DEF SlotInTurn, InTurn
      <4>2. since'[other] = NextCall /\ HeldCommandsTo(other) = {}
        BY <1>1, <2>4, <3>3, <4>1 DEF StartCounting, HistoryTypes
      <4>3. Len(sent) \in Nat /\ NextCall = Len(sent) + 1 /\ sent' = sent
            /\ outcome' = outcome
        BY <1>1, <1>2, NextCallExists DEF sendVars
      <4>4. HeldCommandsTo(other)' = {}
        BY <4>2, <4>3 DEF HeldCommandsTo, IsCommandTo
      <4>5. Used(other)' = {}
        BY <4>2, <4>3 DEF Used
      <4>6. QED
        BY <4>2, <4>3, <4>4, <4>5
    <3>4. QED
      BY <3>2, <3>3
  <2>5. QED
    BY <1>2, <2>3, <2>4
<1>6. QED
  BY <1>4, <1>5 DEF NInv, NumbersInTurn

LEMMA HandleCommandAckTimeoutKeepsNumbers ==
  ASSUME IInv, NInv, NEW i \in Slots, HandleCommandAckTimeout(i)
  PROVE  NInv'
<1>1. SlotTypes /\ TransportHolds /\ NumbersInTurn
  BY DEF IInv, NInv
<1>2. UNCHANGED sendVars /\ since' = since
  BY Zenon DEF HandleCommandAckTimeout
<1>3. \A j \in Slots :
        /\ serverStates'[j].occupied = serverStates[j].occupied
        /\ serverStates'[j].nodeId = serverStates[j].nodeId
        /\ serverStates'[j].sequenceCounter = serverStates[j].sequenceCounter
  BY <1>1 DEF HandleCommandAckTimeout, SlotTypes, SequenceRecord
<1>4. TransportHolds'
  BY <1>1, <1>2 DEF TransportHolds, HeldFrames, sendVars
<1>5. ASSUME NEW j \in Slots PROVE SlotInTurn(j)'
  BY <1>1, <1>2, <1>3, SlotUntouched DEF NumbersInTurn
<1>6. QED
  BY <1>4, <1>5 DEF NInv, NumbersInTurn

LEMMA NumbersStep == IInv /\ NInv /\ [SequencesNext]_sequencesVars => NInv'
<1> SUFFICES ASSUME IInv, NInv, [SequencesNext]_sequencesVars PROVE NInv'
  OBVIOUS
<1>1. ASSUME UNCHANGED sequencesVars PROVE NInv'
  BY <1>1 DEF sequencesVars, slotVars, sendVars, sequenceHistory, NInv, NumbersInTurn,
              SlotInTurn, TransportHolds, HeldFrames, HeldCommandsTo, Used,
              IsCommandTo, InUse, InTurn
<1>2. ASSUME NEW node \in Targets, NEW command \in Commands, SendCommand(node, command)
      PROVE  NInv'
  BY <1>2, SendCommandKeepsNumbers
<1>3. ASSUME NEW node \in Targets, SendOversizedCommand(node) PROVE NInv'
  BY <1>1, <1>3, SendOversizedPreserves
<1>4. ASSUME NEW priority \in OtherPriorities, SendOther(priority) PROVE NInv'
  BY <1>4, SendOtherKeepsNumbers
<1>5. CASE FrameDone
  BY <1>5, FrameDoneKeepsNumbers
<1>6. ASSUME NEW node \in Servers, NEW command \in Commands,
             NEW expected \in ExpectedNumbers \cup {-1},
             HandleCommandAck(node, command, expected)
      PROVE  NInv'
  BY <1>6, HandleCommandAckKeepsNumbers
<1>7. ASSUME NEW i \in Slots, HandleCommandAckTimeout(i) PROVE NInv'
  BY <1>7, HandleCommandAckTimeoutKeepsNumbers
<1>8. QED
  BY <1>1, <1>2, <1>3, <1>4, <1>5, <1>6, <1>7 DEF SequencesNext

LEMMA NumbersInit == SequencesInit => NInv
<1> SUFFICES ASSUME SequencesInit PROVE NInv
  OBVIOUS
<1>1. \A i \in Slots : serverStates[i].occupied = FALSE
  BY DEF SequencesInit, FreeSlot
<1>2. NumbersInTurn
  BY <1>1 DEF NumbersInTurn, SlotInTurn
<1>3. TransportHolds
  BY DEF SequencesInit, Transport!Init, TransportHolds, HeldFrames
<1>4. QED
  BY <1>2, <1>3 DEF NInv

\* Numbers in turn are distinct until they come round.
LEMMA InTurnMeansDistinct ==
  ASSUME MaxSends < SequenceModulus, IInv, NumbersInTurn
  PROVE  NumbersAreNotReused
<1> SUFFICES ASSUME NEW i \in Slots, NEW node, node = serverStates[i].nodeId,
                    serverStates[i].occupied, since[node] # 0
             PROVE  /\ \A n \in Used(node) :
                         sent[n].number # serverStates[i].sequenceCounter
                    /\ \A m, n \in Used(node) :
                         sent[m].number = sent[n].number => m = n
  BY DEF NumbersAreNotReused, Used
<1>1. SlotTypes /\ TransportTypes /\ HistoryTypes
  BY DEF IInv
<1>2. PICK span : span = Len(sent) + 1 - since[node]
  OBVIOUS
<1>3. /\ since[node] <= Len(sent) + 1
      /\ span < SequenceModulus =>
           InTurn(serverStates[i].sequenceCounter, span, Used(node), sent)
  BY <1>2 DEF NumbersInTurn, SlotInTurn
<1>4. /\ node \in Targets /\ since[node] \in Nat
      /\ serverStates[i].sequenceCounter \in SequenceNumbers
  BY <1>1, SlotsHaveServers, CallsAreNumbers DEF HistoryTypes, SequenceRecord
<1>5. span < SequenceModulus
  <2>1. Len(sent) \in Nat /\ Len(sent) <= MaxSends /\ MaxSends \in Nat
        /\ SequenceModulus \in Nat
    BY <1>1, NextCallExists, SequencesAssumption DEF TransportTypes
  <2>2. QED
    BY <1>2, <1>4, <2>1
<1>6. InTurn(serverStates[i].sequenceCounter, span, Used(node), sent)
  BY <1>3, <1>5
<1>7. \A n \in Used(node) :
        /\ sent[n].number \in SequenceNumbers
        /\ Distance(serverStates[i].sequenceCounter, sent[n].number) # 0
  BY <1>1, <1>6, FrameNumbers DEF InTurn, Used, IsCommandTo
<1>8. \A n \in Used(node) : sent[n].number # serverStates[i].sequenceCounter
  BY <1>4, <1>7, NumberArithmetic
<1>9. QED
  BY <1>6, <1>8, Zenon DEF InTurn

\* Whatever is refused, displaced, lost, evicted or resynchronised: as long as
\* fewer frames than there are numbers were sent since the counter of a server
\* was set, the numbers of its commands in use are the last it gave out, each
\* given to one command (ReserveSequence, CancelReservation, ReturnSequence).
THEOREM NumbersComeInTurn == SequencesSpec => []NumbersInTurn
<1>1. NInv => NumbersInTurn
  BY DEF NInv
<1>2. QED
  BY <1>1, NumbersInit, NumbersStep, SequencesInvariant, PTL DEF SequencesSpec

\* So a number is given back only when nobody uses it: the next command has
\* another than every command in use, and no two of them have the same.
THEOREM NumbersAreDistinct ==
  ASSUME MaxSends < SequenceModulus
  PROVE  SequencesSpec => []NumbersAreNotReused
<1>1. IInv /\ NumbersInTurn => NumbersAreNotReused
  BY InTurnMeansDistinct
<1>2. QED
  BY <1>1, NumbersComeInTurn, SequencesInvariant, PTL

=============================================================================
