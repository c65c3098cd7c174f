-------------------------- MODULE CanFrameTransport --------------------------
(***************************************************************************)
(* The one path by which every frame of a node leaves it:                  *)
(* services::CanFrameTransport (can-lite/core/CanFrameTransport.cpp).      *)
(*                                                                         *)
(* One frame, `current', is with the CAN driver; the frames behind it wait *)
(* in `sendQueue', most urgent first.  Ordinary frames may fill the queue  *)
(* only up to QueueDepth - EmergencyReserve.  At the limit a strictly more *)
(* urgent frame displaces the newest of the least urgent; otherwise the    *)
(* frame is refused.  An emergency frame whose transmission fails is tried *)
(* again, at most EmergencyRetryLimit times.                               *)
(*                                                                         *)
(* The driver keeps its contract (documents/booklet/03-hal.md): it answers *)
(* each SendData exactly once and never from inside the call.  Callbacks   *)
(* (onDone, onSendNotification) run last in every handler, when the        *)
(* transport's own state is settled; a callback that sends again is        *)
(* therefore the next Send step.                                           *)
(***************************************************************************)
EXTENDS Integers, Sequences, FiniteSets

CONSTANTS QueueDepth,           \* capacity of sendQueue (8 in the code)
          EmergencyReserve,     \* slots ordinary frames may not fill (2)
          EmergencyRetryLimit,  \* retransmissions of an emergency frame (2)
          Priorities,           \* priority values in use, smaller is more urgent
          EmergencyPriority,    \* CanPriority::emergency (0)
          CommandPriority,      \* CanPriority::command (4)
          NoFrame,              \* the empty std::optional
          MaxSends              \* bound: calls of SendRawFrame explored

ASSUME TransportAssumption ==
  /\ QueueDepth \in Nat
  /\ EmergencyReserve \in Nat
  /\ EmergencyReserve < QueueDepth
  /\ EmergencyRetryLimit \in Nat
  /\ Priorities \subseteq Nat
  /\ EmergencyPriority \in Priorities
  /\ CommandPriority \in Priorities
  /\ \A p \in Priorities : EmergencyPriority <= p
  /\ MaxSends \in Nat
  /\ NoFrame \notin [no : 1 .. MaxSends, priority : Priorities]

VARIABLES
  current,         \* the frame with the driver, or NoFrame
  currentRetries,  \* retransmissions of current so far
  sendQueue,       \* the frames waiting behind current
  counters,        \* Counters, as Statistics() reports them
  inFlight,        \* external: SendData calls the driver has not answered yet
  issued,          \* history: the priority of each SendRawFrame call so far
  answer,          \* history: what each call returned
  reports,         \* history: what each frame's onDone was called with, in order
  attempts,        \* history: how often each frame was handed to the driver
  notified         \* history: how often onSendNotification was called

transportVars == <<current, currentRetries, sendQueue, counters>>
historyVars == <<issued, answer, reports, attempts, notified>>
vars == <<transportVars, inFlight, historyVars>>

-----------------------------------------------------------------------------
(* Frames *)

\* A 29-bit identifier carries a priority, an 11-bit one does not.
Ids == [bits : {29}, priority : Priorities] \cup [bits : {11}]

PriorityOf(id) == IF id.bits = 29 THEN id.priority ELSE CommandPriority

Calls == 1 .. MaxSends

\* What the transport keeps of a call: which one it was and how urgent.
Frames == [no : Calls, priority : Priorities]

IsEmergency(frame) == frame.priority = EmergencyPriority

-----------------------------------------------------------------------------
(* The queue *)

Back(queue) == queue[Len(queue)]
WithoutBack(queue) == SubSeq(queue, 1, Len(queue) - 1)

\* Where a frame goes: before the first queued frame that is less urgent.
InsertionPoint(queue, frame) ==
  CHOOSE i \in 1 .. Len(queue) + 1 :
    /\ \A j \in 1 .. i - 1 : queue[j].priority <= frame.priority
    /\ i <= Len(queue) => queue[i].priority > frame.priority

\* Mutation: upper_bound taken for lower_bound, the newest of equals goes first.
InsertBeforeEquals(queue, frame) ==
  LET at == CHOOSE i \in 1 .. Len(queue) + 1 :
              /\ \A j \in 1 .. i - 1 : queue[j].priority < frame.priority
              /\ i <= Len(queue) => queue[i].priority >= frame.priority
  IN  SubSeq(queue, 1, at - 1) \o <<frame>> \o SubSeq(queue, at, Len(queue))

Insert(queue, frame) ==
  LET at == InsertionPoint(queue, frame)
  IN  [i \in 1 .. Len(queue) + 1 |->
         IF i < at THEN queue[i] ELSE IF i = at THEN frame ELSE queue[i - 1]]

Elements(queue) == {queue[i] : i \in 1 .. Len(queue)}

\* Transmission order: urgency first, then first come first served.
Before(f, g) == \/ f.priority < g.priority
                \/ f.priority = g.priority /\ f.no < g.no

Ordered(queue) ==
  \A i, j \in 1 .. Len(queue) : i < j => Before(queue[i], queue[j])

Ordinaries(queue) == {i \in 1 .. Len(queue) : ~IsEmergency(queue[i])}
OrdinaryCount(queue) == Cardinality(Ordinaries(queue))

\* Mutation: ordinary frames may fill the whole queue.
HasRoomIgnoringReserve(queue, frame) == Len(queue) < QueueDepth

\* A queue slot is free for the frame.
HasRoom(queue, frame) ==
  /\ Len(queue) < QueueDepth
  /\ IsEmergency(frame) \/ OrdinaryCount(queue) < QueueDepth - EmergencyReserve

\* Mutation: an emergency displaces whatever is last.
MayDisplaceAnything(queue, frame) ==
  IsEmergency(frame) \/ Back(queue).priority > frame.priority

\* Mutation: only an emergency displaces.
MayDisplaceIfEmergency(queue, frame) ==
  ~IsEmergency(Back(queue)) /\ IsEmergency(frame)

\* The frame may take the place of the last one in the queue.
MayDisplace(queue, frame) ==
  /\ ~IsEmergency(Back(queue))
  /\ IsEmergency(frame) \/ Back(queue).priority > frame.priority

-----------------------------------------------------------------------------
(* The steps *)

Init ==
  /\ current = NoFrame
  /\ currentRetries = 0
  /\ sendQueue = <<>>
  /\ counters = [emergencyDrops |-> 0, emergencyRetries |-> 0, evictions |-> 0,
                 ordinaryDrops |-> 0, sendFailures |-> 0]
  /\ inFlight = <<>>
  /\ issued = <<>>
  /\ answer = [n \in Calls |-> "none"]
  /\ reports = [n \in Calls |-> <<>>]
  /\ attempts = [n \in Calls |-> 0]
  /\ notified = 0

\* can.SendData(frame) while the driver has `outstanding' to answer.
Transmit(frame, outstanding) ==
  /\ inFlight' = Append(outstanding, frame)
  /\ attempts' = [attempts EXCEPT ![frame.no] = @ + 1]

\* onDone(success) of a frame.
Report(frame, success) ==
  reports' = [reports EXCEPT ![frame.no] = Append(@, success)]

\* SendRawFrame returns true, after onSendNotification.
Accepted(frame) ==
  /\ answer' = [answer EXCEPT ![frame.no] = "accepted"]
  /\ notified' = notified + 1

SendAtOnce(frame) ==
  /\ current = NoFrame
  /\ current' = frame
  /\ currentRetries' = 0
  /\ Transmit(frame, inFlight)
  /\ Accepted(frame)
  /\ UNCHANGED <<sendQueue, counters, reports>>

Enqueue(frame) ==
  /\ current # NoFrame
  /\ HasRoom(sendQueue, frame)
  /\ sendQueue' = Insert(sendQueue, frame)
  /\ Accepted(frame)
  /\ UNCHANGED <<current, currentRetries, counters, inFlight, reports, attempts>>

\* Mutation: the displaced frame's owner is not told.
DisplaceSilently(frame) ==
  /\ current # NoFrame
  /\ ~HasRoom(sendQueue, frame)
  /\ MayDisplace(sendQueue, frame)
  /\ sendQueue' = Insert(WithoutBack(sendQueue), frame)
  /\ counters' = [counters EXCEPT !.evictions = @ + 1]
  /\ Accepted(frame)
  /\ UNCHANGED <<current, currentRetries, inFlight, attempts, reports>>

DisplaceNewestLeastUrgent(frame) ==
  /\ current # NoFrame
  /\ ~HasRoom(sendQueue, frame)
  /\ MayDisplace(sendQueue, frame)
  /\ sendQueue' = Insert(WithoutBack(sendQueue), frame)
  /\ counters' = [counters EXCEPT !.evictions = @ + 1]
  /\ Report(Back(sendQueue), FALSE)
  /\ Accepted(frame)
  /\ UNCHANGED <<current, currentRetries, inFlight, attempts>>

Refuse(frame) ==
  /\ current # NoFrame
  /\ ~HasRoom(sendQueue, frame)
  /\ ~MayDisplace(sendQueue, frame)
  /\ counters' = IF IsEmergency(frame)
                   THEN [counters EXCEPT !.emergencyDrops = @ + 1]
                   ELSE [counters EXCEPT !.ordinaryDrops = @ + 1]
  /\ answer' = [answer EXCEPT ![frame.no] = "refused"]
  /\ UNCHANGED <<current, currentRetries, sendQueue, inFlight, reports,
                 attempts, notified>>

\* A caller, or a callback of the transport, sends a frame.
SendRawFrame(id) ==
  /\ Len(issued) < MaxSends
  /\ issued' = Append(issued, PriorityOf(id))
  /\ LET frame == [no |-> Len(issued) + 1, priority |-> PriorityOf(id)]
     IN  \/ SendAtOnce(frame)
         \/ Enqueue(frame)
         \/ DisplaceNewestLeastUrgent(frame)
         \/ Refuse(frame)

\* Mutation: the limit is not looked at.
RetryWithoutLimit ==
  /\ IsEmergency(current)
  /\ currentRetries' = currentRetries + 1
  /\ counters' = [counters EXCEPT !.emergencyRetries = @ + 1]
  /\ Transmit(current, Tail(inFlight))
  /\ UNCHANGED <<current, sendQueue, reports>>

\* The driver could not send an emergency frame and the frame has a try left.
RetryCurrent ==
  /\ IsEmergency(current)
  /\ currentRetries # EmergencyRetryLimit
  /\ currentRetries' = currentRetries + 1
  /\ counters' = [counters EXCEPT !.emergencyRetries = @ + 1]
  /\ Transmit(current, Tail(inFlight))
  /\ UNCHANGED <<current, sendQueue, reports>>

\* Mutation: `current' is not reset when nothing waits.
SendNextWithoutReset ==
  \/ /\ sendQueue = <<>>
     /\ inFlight' = Tail(inFlight)
     /\ UNCHANGED <<current, currentRetries, sendQueue, attempts>>
  \/ /\ sendQueue # <<>>
     /\ current' = Head(sendQueue)
     /\ sendQueue' = Tail(sendQueue)
     /\ currentRetries' = 0
     /\ Transmit(Head(sendQueue), Tail(inFlight))

\* Mutation: the next frame inherits the retries of the last one.
SendNextKeepingRetries ==
  \/ /\ sendQueue = <<>>
     /\ current' = NoFrame
     /\ inFlight' = Tail(inFlight)
     /\ UNCHANGED <<currentRetries, sendQueue, attempts>>
  \/ /\ sendQueue # <<>>
     /\ current' = Head(sendQueue)
     /\ sendQueue' = Tail(sendQueue)
     /\ Transmit(Head(sendQueue), Tail(inFlight))
     /\ UNCHANGED currentRetries

\* Mutation: the next frame is taken from the queue but not handed over.
SendNextWithoutTransmit ==
  /\ current' = IF sendQueue = <<>> THEN NoFrame ELSE Head(sendQueue)
  /\ sendQueue' = IF sendQueue = <<>> THEN <<>> ELSE Tail(sendQueue)
  /\ inFlight' = Tail(inFlight)
  /\ currentRetries' = 0
  /\ UNCHANGED attempts

\* The most urgent waiting frame, if there is one, goes to the driver.
SendNextQueued ==
  \/ /\ sendQueue = <<>>
     /\ current' = NoFrame
     /\ inFlight' = Tail(inFlight)
     /\ UNCHANGED <<currentRetries, sendQueue, attempts>>
  \/ /\ sendQueue # <<>>
     /\ current' = Head(sendQueue)
     /\ sendQueue' = Tail(sendQueue)
     /\ currentRetries' = 0
     /\ Transmit(Head(sendQueue), Tail(inFlight))

\* Mutation: a given-up emergency is counted as an ordinary failure.
CountedAsOrdinary == [counters EXCEPT !.sendFailures = @ + 1]

\* What a failure that is not tried again adds to the counters.
CountedFailure ==
  IF IsEmergency(current)
  THEN [counters EXCEPT !.emergencyDrops = @ + 1]
  ELSE [counters EXCEPT !.sendFailures = @ + 1]

\* The frame with the driver is done with: the next one is on its way before
\* its onDone runs.
ConcludeCurrent(success) ==
  /\ counters' = IF success THEN counters ELSE CountedFailure
  /\ SendNextQueued
  /\ Report(current, success)

OnSendComplete(success) ==
  /\ inFlight # <<>>
  /\ \/ /\ ~success
        /\ RetryCurrent
     \/ /\ \/ success
           \/ ~IsEmergency(current)
           \/ currentRetries = EmergencyRetryLimit
        /\ ConcludeCurrent(success)
  /\ UNCHANGED <<issued, answer, notified>>

Next ==
  \/ \E id \in Ids : SendRawFrame(id)
  \/ \E success \in BOOLEAN : OnSendComplete(success)

\* The driver answers every SendData; nobody is obliged to send.
Spec ==
  /\ Init
  /\ [][Next]_vars
  /\ WF_vars(\E success \in BOOLEAN : OnSendComplete(success))

-----------------------------------------------------------------------------
(* Properties *)

Counters == [emergencyDrops : Nat, emergencyRetries : Nat, evictions : Nat,
             ordinaryDrops : Nat, sendFailures : Nat]

\* Every variable of the transport and of its history has its type.
TypeOK ==
  /\ current \in Frames \cup {NoFrame}
  /\ currentRetries \in 0 .. EmergencyRetryLimit
  /\ sendQueue \in Seq(Frames)
  /\ counters \in Counters
  /\ inFlight \in Seq(Frames)
  /\ issued \in Seq(Priorities)
  /\ Len(issued) <= MaxSends
  /\ answer \in [Calls -> {"none", "accepted", "refused"}]
  /\ reports \in [Calls -> Seq(BOOLEAN)]
  /\ attempts \in [Calls -> Nat]
  /\ notified \in Nat

Waiting == Elements(sendQueue)
Held == Waiting \cup ({current} \ {NoFrame})
HeldNos == {frame.no : frame \in Held}

\* Insert and DisplaceNewestLeastUrgent keep the queue in transmission order:
\* more urgent frames first, and first come first served among equals.
QueueOrdered == Ordered(sendQueue)

\* However sends and displacements interleave, the bounded vector never
\* overflows and EmergencyReserve of its slots never hold ordinary frames.
ReserveKept ==
  /\ Len(sendQueue) <= QueueDepth
  /\ OrdinaryCount(sendQueue) <= QueueDepth - EmergencyReserve

\* The driver is never given a second frame before it answered the first, and
\* what it works on is `current'; so no frame waits behind an idle driver.
OneFrameWithDriver ==
  /\ inFlight = IF current = NoFrame THEN <<>> ELSE <<current>>
  /\ sendQueue # <<>> => current # NoFrame

\* The frames held are calls that were accepted, unaltered.  A frame that waits
\* was never with the driver; current was, once more than it was tried again,
\* and only an emergency is tried again.
FramesAccountedFor ==
  /\ \A n \in Calls : answer[n] = "none" <=> n > Len(issued)
  /\ \A n \in Calls : answer[n] = "none" => attempts[n] = 0
  /\ \A frame \in Held :
       /\ frame.no <= Len(issued)
       /\ issued[frame.no] = frame.priority
       /\ answer[frame.no] = "accepted"
  /\ \A frame \in Waiting : attempts[frame.no] = 0
  /\ current # NoFrame =>
       /\ attempts[current.no] = currentRetries + 1
       /\ IsEmergency(current) \/ currentRetries = 0

\* onDone is called exactly once for a frame SendRawFrame accepted, when the
\* transport lets go of it, and never for a frame it refused.
ReportedExactlyOnce ==
  \A n \in Calls :
    Len(reports[n]) = IF answer[n] = "accepted" /\ n \notin HeldNos THEN 1 ELSE 0

\* The frame's owner was told that it did not get out.
Lost(n) == reports[n] = <<FALSE>>

\* An emergency frame, once accepted, is reported as failed only after its
\* last retransmission failed too: it is never displaced and never given up
\* early.  An ordinary frame is handed to the driver at most once.
EmergencyNotGivenUp ==
  \A n \in 1 .. Len(issued) :
    IF issued[n] = EmergencyPriority
    THEN /\ attempts[n] <= EmergencyRetryLimit + 1
         /\ Lost(n) => attempts[n] = EmergencyRetryLimit + 1
    ELSE attempts[n] <= 1

\* The inductive invariant: the conjunction of the above.
IInv ==
  /\ TypeOK
  /\ QueueOrdered
  /\ ReserveKept
  /\ OneFrameWithDriver
  /\ FramesAccountedFor
  /\ ReportedExactlyOnce
  /\ EmergencyNotGivenUp

Refused(n) == answer[n] = "refused"
Urgent(n) == issued[n] = EmergencyPriority

OrdinaryRefusals == {n \in 1 .. Len(issued) : Refused(n) /\ ~Urgent(n)}
EmergencyLosses == {n \in 1 .. Len(issued) : Urgent(n) /\ (Refused(n) \/ Lost(n))}
Displacements == {n \in 1 .. Len(issued) : Lost(n) /\ attempts[n] = 0}
Failures == {n \in 1 .. Len(issued) : Lost(n) /\ ~Urgent(n) /\ attempts[n] = 1}

\* Statistics() counts every lost frame once and under the right name:
\* refused, displaced, or given up by the driver.
LossesAreCounted ==
  /\ counters.ordinaryDrops = Cardinality(OrdinaryRefusals)
  /\ counters.emergencyDrops = Cardinality(EmergencyLosses)
  /\ counters.evictions = Cardinality(Displacements)
  /\ counters.sendFailures = Cardinality(Failures)

\* Frames held are what they were when they were accepted, and frames lost are
\* in the counts.
EveryFrameAccountedFor == FramesAccountedFor /\ LossesAreCounted

\* A frame is refused only when nothing that waits is less urgent than it, or
\* it is an emergency and every slot holds an emergency.
RefusedOnlyWhenNothingYields ==
  [][\A n \in Calls :
       ~Refused(n) /\ Refused(n)' =>
         \A frame \in Waiting : frame.priority <= issued'[n]]_vars

\* What a user of the transport sees of a frame.
Outcome(n) ==
  IF answer[n] # "accepted" THEN answer[n]
  ELSE IF reports[n] = <<>> THEN "held"
  ELSE IF Lost(n) THEN "lost" ELSE "delivered"

Delivery == INSTANCE FrameDelivery WITH
  Capacity <- QueueDepth,
  Reserve <- EmergencyReserve,
  onWay <- current,
  waiting <- Waiting,
  offered <- issued,
  outcome <- [n \in Calls |-> Outcome(n)]

\* The sorted queue, the displacement of its back and the retransmissions
\* deliver what FrameDelivery promises: the most urgent frame leaves next, the
\* oldest among equals; only the last in line gives way, and only to a strictly
\* more urgent frame; and delivery goes on as long as frames wait.
ImplementsDelivery == Delivery!Spec

\* The part of it that says what may happen.
ImplementsDeliverySteps == Delivery!Init /\ [][Delivery!Next]_(Delivery!vars)

=============================================================================
