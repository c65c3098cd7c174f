-------------------------- MODULE ClientSequences --------------------------
(***************************************************************************)
(* How a client numbers its commands and awaits their acknowledgements:    *)
(* the serverStates of services::CanProtocolClient                         *)
(* (can-lite/client/CanProtocolClient.cpp) and                             *)
(* CanCategoryClient::SendCommand (can-lite/core/CanCategory.cpp), which   *)
(* drives them.                                                            *)
(*                                                                         *)
(* A command reserves a number in the slot of its server, claiming a free  *)
(* slot or evicting another server's when it has none, and is then sent.   *)
(* A send the transport refuses cancels the reservation; a frame that was  *)
(* accepted and does not leave the node gives its number back, from inside *)
(* another send when it is displaced.  An acknowledgement ends the wait,   *)
(* and one with a sequence error sets the counter.  Acknowledgements come  *)
(* from the bus: late, repeated or from a server that was never asked.     *)
(*                                                                         *)
(* A slot names the command it awaits by its call number; 0 is none.  The  *)
(* deadline of a timer is the call it was started for: a later call, a     *)
(* later deadline.                                                         *)
(***************************************************************************)
EXTENDS Integers, Sequences, FiniteSets

CONSTANTS SequenceModulus,   \* 256: sequenceCounter is a uint8_t
          maxServers,        \* 8 slots
          Servers,           \* node ids that send acknowledgements
          Broadcast,         \* canBroadcastNodeId
          Commands,          \* (category, message type) of a command
          CommandPriority,   \* the priority a category sends each of them at
          ExpectedNumbers,   \* numbers that may come with a sequence error
          OtherPriorities,   \* priorities of frames without a number
          QueueDepth,        \* of the transport
          EmergencyReserve,  \* of the transport
          NoFrame,
          MaxSends           \* bound: frames sent

ASSUME SequencesAssumption ==
  /\ SequenceModulus \in Nat \ {0}
  /\ maxServers \in Nat \ {0}
  /\ Broadcast \notin Servers
  /\ CommandPriority \in [Commands -> Nat]
  /\ ExpectedNumbers \subseteq 0 .. SequenceModulus - 1
  /\ OtherPriorities \subseteq Nat
  /\ QueueDepth \in Nat
  /\ EmergencyReserve \in Nat
  /\ EmergencyReserve < QueueDepth
  /\ MaxSends \in Nat

VARIABLES
  serverStates,           \* [Slots -> SequenceRecord]
  ackTimers,              \* [Slots -> deadline, or 0 when not armed]
  nextSequenceEvictIndex,
  onWay, waiting, outcome,\* the transport
  sent,                   \* history: the frames offered to the transport
  ending,                 \* history: how the wait for each command ended
  since                   \* history: the call from which on the numbers of a
                          \* server count, or 0 while they do not

slotVars == <<serverStates, ackTimers, nextSequenceEvictIndex>>
sendVars == <<onWay, waiting, outcome, sent>>
sequenceHistory == <<ending, since>>
sequencesVars == <<slotVars, sendVars, sequenceHistory>>

Slots == 0 .. maxServers - 1
Targets == Servers \cup {Broadcast}
Calls == 1 .. MaxSends
NextCall == Len(sent) + 1
SequenceNumbers == 0 .. SequenceModulus - 1

\* Mutation: the counter does not wrap.
SuccessorUnwrapped(number) == number + 1

\* uint8_t arithmetic
Successor(number) == (number + 1) % SequenceModulus

SequenceRecord == [occupied : BOOLEAN, nodeId : Targets,
                   sequenceCounter : SequenceNumbers, awaiting : Calls \cup {0}]

FreeSlot == [occupied |-> FALSE, nodeId |-> Broadcast, sequenceCounter |-> 0,
             awaiting |-> 0]

-----------------------------------------------------------------------------
(* Sending *)

Transport == INSTANCE FrameDelivery WITH
  Capacity <- QueueDepth,
  Reserve <- EmergencyReserve,
  Priorities <- {CommandPriority[c] : c \in Commands} \cup OtherPriorities,
  EmergencyPriority <- 0,
  offered <- [n \in 1 .. Len(sent) |-> sent[n].priority]

Command(node, command, number) ==
  [kind |-> "command", node |-> node, command |-> command, number |-> number,
   priority |-> CommandPriority[command]]

Other(priority) == [kind |-> "other", priority |-> priority]

IsCommandTo(node, n) == sent[n].kind = "command" /\ sent[n].node = node

\* transport.SendFrame
SendFrame(frame) ==
  /\ sent' = Append(sent, frame)
  /\ Transport!Offer(frame.priority)

\* What SendFrame returned.
Taken == outcome'[NextCall] = "held"

\* The commands whose onDone(false) runs in this step.
Failed ==
  {n \in 1 .. Len(sent) :
     sent[n].kind = "command" /\ outcome[n] = "held" /\ outcome'[n] = "lost"}

-----------------------------------------------------------------------------
(* Slots *)

Serves(slot, node) == slot.occupied /\ slot.nodeId = node

\* Mutation: a free slot is taken before the server's own is looked for.
ClaimsFreeFirst(node, i) ==
  \/ /\ ~serverStates[i].occupied
     /\ \A j \in 0 .. i - 1 : serverStates[j].occupied
  \/ /\ \A j \in Slots : serverStates[j].occupied
     /\ Serves(serverStates[i], node)
  \/ /\ \A j \in Slots : serverStates[j].occupied /\ serverStates[j].nodeId # node
     /\ i = nextSequenceEvictIndex

\* ClaimSequenceSlot returns slot i: the server's own, the first free one, or
\* the next to be evicted.
Claims(node, i) ==
  \/ Serves(serverStates[i], node)
  \/ /\ \A j \in Slots : ~Serves(serverStates[j], node)
     /\ ~serverStates[i].occupied
     /\ \A j \in 0 .. i - 1 : serverStates[j].occupied
  \/ /\ \A j \in Slots : serverStates[j].occupied /\ serverStates[j].nodeId # node
     /\ i = nextSequenceEvictIndex

Evicts(node, i) == serverStates[i].occupied /\ serverStates[i].nodeId # node

\* What ReserveSequence leaves behind: the fields of the client, the number and
\* the reservation (lastReservation).
ReserveSequence(node, i) ==
  LET number == IF Serves(serverStates[i], node)
                THEN serverStates[i].sequenceCounter ELSE 0
  IN  [number |-> number,
       states |-> [serverStates EXCEPT ![i] =
                     [occupied |-> TRUE, nodeId |-> node,
                      sequenceCounter |-> Successor(number), awaiting |-> NextCall]],
       timers |-> [ackTimers EXCEPT ![i] = NextCall],
       evictIndex |-> IF Evicts(node, i)
                      THEN (nextSequenceEvictIndex + 1) % maxServers
                      ELSE nextSequenceEvictIndex,
       slot |-> i,
       previous |-> serverStates[i],
       previousAckDeadline |-> ackTimers[i],
       previousEvictIndex |-> nextSequenceEvictIndex]

\* Mutation: the timer is cancelled though an earlier command is awaited.
CancelWithoutDeadline(reserved) ==
  /\ serverStates' = [reserved.states EXCEPT ![reserved.slot] = reserved.previous]
  /\ nextSequenceEvictIndex' = reserved.previousEvictIndex
  /\ ackTimers' = [reserved.timers EXCEPT ![reserved.slot] = 0]

\* Mutation: the rotation keeps its step.
CancelWithoutEvictIndex(reserved) ==
  /\ serverStates' = [reserved.states EXCEPT ![reserved.slot] = reserved.previous]
  /\ nextSequenceEvictIndex' = reserved.evictIndex
  /\ ackTimers' = [reserved.timers EXCEPT ![reserved.slot] =
                     IF reserved.previous.awaiting # 0
                     THEN reserved.previousAckDeadline ELSE 0]

CancelReservation(reserved) ==
  /\ serverStates' = [reserved.states EXCEPT ![reserved.slot] = reserved.previous]
  /\ nextSequenceEvictIndex' = reserved.previousEvictIndex
  /\ ackTimers' = [reserved.timers EXCEPT ![reserved.slot] =
                     IF reserved.previous.awaiting # 0
                     THEN reserved.previousAckDeadline ELSE 0]

\* Mutation: the number is given back even if it was not the last.
ReturnAlways(states) ==
  [i \in Slots |->
     LET failed == {n \in Failed : Serves(states[i], sent[n].node)}
     IN  IF failed = {} THEN states[i]
         ELSE [states[i] EXCEPT
                 !.sequenceCounter = sent[CHOOSE n \in failed : TRUE].number]]

\* ReturnSequence for the commands whose frames failed in this step: the
\* number is given back while it is the last the counter gave out.
ReturnSequences(states) ==
  [i \in Slots |->
     LET failed == {n \in Failed :
                      /\ Serves(states[i], sent[n].node)
                      /\ states[i].sequenceCounter = Successor(sent[n].number)}
     IN  IF failed = {} THEN states[i]
         ELSE [states[i] EXCEPT
                 !.sequenceCounter = sent[CHOOSE n \in failed : TRUE].number]]

-----------------------------------------------------------------------------
(* Histories *)

HeldCommandsTo(node) ==
  {n \in 1 .. Len(sent) : IsCommandTo(node, n) /\ outcome[n] = "held"}

\* The counter is set anew.  Numbers given out before are of another counting:
\* while any of them may still leave the node, nothing is said of the new ones.
StartCounting(node) ==
  since' = [since EXCEPT ![node] = IF HeldCommandsTo(node) = {} THEN NextCall ELSE 0]

\* The next call is awaited instead of what slot i awaited before.
AwaitInstead(i, node) ==
  LET before == serverStates[i].awaiting
  IN  ending' = [c \in Calls |->
                   IF c = NextCall THEN "open"
                   ELSE IF c = before
                        THEN IF Evicts(node, i) THEN "evicted" ELSE "superseded"
                   ELSE ending[c]]

-----------------------------------------------------------------------------
(* Actions *)

\* The transport accepts the frame.  It may displace another command, whose
\* number is given back before SendFrame returns.
SendReserved(node, i, reserved) ==
  /\ Taken
  /\ serverStates' = ReturnSequences(reserved.states)
  /\ ackTimers' = reserved.timers
  /\ nextSequenceEvictIndex' = reserved.evictIndex
  /\ AwaitInstead(i, node)
  /\ IF Serves(serverStates[i], node) THEN UNCHANGED since
     ELSE StartCounting(node)

SendRefused(reserved) ==
  /\ ~Taken
  /\ CancelReservation(reserved)
  /\ UNCHANGED sequenceHistory

SendCommand(node, command) ==
  \E i \in Slots :
    /\ Claims(node, i)
    /\ \E reserved \in {ReserveSequence(node, i)} :
         /\ SendFrame(Command(node, command, reserved.number))
         /\ SendReserved(node, i, reserved) \/ SendRefused(reserved)

\* The payload leaves no room for the number: nothing is sent.
SendOversizedCommand(node) ==
  /\ Len(sent) < MaxSends
  /\ \E i \in Slots :
       /\ Claims(node, i)
       /\ \E reserved \in {ReserveSequence(node, i)} : CancelReservation(reserved)
  /\ UNCHANGED <<sendVars, sequenceHistory>>

\* A frame without a number; it may displace a command.
SendOther(priority) ==
  /\ SendFrame(Other(priority))
  /\ serverStates' = ReturnSequences(serverStates)
  /\ UNCHANGED <<ackTimers, nextSequenceEvictIndex, sequenceHistory>>

FrameDone ==
  /\ UNCHANGED sent
  /\ \E result \in {"delivered", "lost"} : Transport!Finish(result)
  /\ serverStates' = ReturnSequences(serverStates)
  /\ UNCHANGED <<ackTimers, nextSequenceEvictIndex, sequenceHistory>>

\* Mutation: the slot goes on awaiting, only its timer stops.
ClearOnlyTimer(node, command) ==
  LET matches == {i \in Slots : /\ Serves(serverStates[i], node)
                                /\ serverStates[i].awaiting # 0
                                /\ sent[serverStates[i].awaiting].command = command}
  IN  [states |-> serverStates,
       timers |-> [i \in Slots |-> IF i \in matches THEN 0 ELSE ackTimers[i]],
       calls |-> {serverStates[i].awaiting : i \in matches}]

\* What ClearAwaitingAck leaves behind.
ClearAwaitingAck(node, command) ==
  LET matches == {i \in Slots : /\ Serves(serverStates[i], node)
                                /\ serverStates[i].awaiting # 0
                                /\ sent[serverStates[i].awaiting].command = command}
  IN  [states |-> [i \in Slots |->
                     IF i \in matches THEN [serverStates[i] EXCEPT !.awaiting = 0]
                     ELSE serverStates[i]],
       timers |-> [i \in Slots |-> IF i \in matches THEN 0 ELSE ackTimers[i]],
       calls |-> {serverStates[i].awaiting : i \in matches}]

ResyncSequence(states, node, expected) ==
  [i \in Slots |->
     IF Serves(states[i], node)
     THEN [states[i] EXCEPT !.sequenceCounter = expected] ELSE states[i]]

\* A well-formed acknowledgement.  `expected' is the number that comes with a
\* sequence error, or -1 with any other status.
HandleCommandAck(node, command, expected) ==
  LET cleared == ClearAwaitingAck(node, command)
  IN  /\ ackTimers' = cleared.timers
      /\ ending' = [c \in Calls |-> IF c \in cleared.calls THEN "acked"
                                    ELSE ending[c]]
      /\ \/ /\ expected = -1
            /\ serverStates' = cleared.states
            /\ UNCHANGED since
         \/ /\ expected # -1
            /\ serverStates' = ResyncSequence(cleared.states, node, expected)
            /\ StartCounting(node)
      /\ UNCHANGED <<nextSequenceEvictIndex, sendVars>>

\* The timer of slot i expires.  Its callback captured the node of the slot
\* when it was started and looks for that node's slot.
HandleCommandAckTimeout(i) ==
  /\ ackTimers[i] # 0
  /\ ackTimers' = [ackTimers EXCEPT ![i] = 0]
  /\ LET timedOut == {j \in Slots : /\ Serves(serverStates[j], sent[ackTimers[i]].node)
                                    /\ serverStates[j].awaiting # 0}
     IN  /\ serverStates' = [j \in Slots |->
               IF j \in timedOut THEN [serverStates[j] EXCEPT !.awaiting = 0]
               ELSE serverStates[j]]
         /\ ending' = [c \in Calls |->
               IF \E j \in timedOut : c = serverStates[j].awaiting THEN "timedOut"
               ELSE ending[c]]
  /\ UNCHANGED <<nextSequenceEvictIndex, sendVars, since>>

SequencesInit ==
  /\ serverStates = [i \in Slots |-> FreeSlot]
  /\ ackTimers = [i \in Slots |-> 0]
  /\ nextSequenceEvictIndex = 0
  /\ sent = <<>>
  /\ Transport!Init
  /\ ending = [n \in Calls |-> "none"]
  /\ since = [node \in Targets |-> 0]

SequencesNext ==
  \/ \E node \in Targets, command \in Commands : SendCommand(node, command)
  \/ \E node \in Targets : SendOversizedCommand(node)
  \/ \E priority \in OtherPriorities : SendOther(priority)
  \/ FrameDone
  \/ \E node \in Servers, command \in Commands, expected \in ExpectedNumbers \cup {-1} :
       HandleCommandAck(node, command, expected)
  \/ \E i \in Slots : HandleCommandAckTimeout(i)

\* Armed timers expire, and the transport concludes every frame it took.
SequencesSpec ==
  /\ SequencesInit
  /\ [][SequencesNext]_sequencesVars
  /\ \A i \in Slots : WF_sequencesVars(HandleCommandAckTimeout(i))
  /\ WF_sequencesVars(FrameDone)

-----------------------------------------------------------------------------
(* Properties *)

SentFrames ==
  [kind : {"command"}, node : Targets, command : Commands,
   number : SequenceNumbers, priority : {CommandPriority[c] : c \in Commands}]
  \cup [kind : {"other"}, priority : OtherPriorities]

Endings == {"none", "open", "superseded", "evicted", "acked", "timedOut"}

\* Every variable has its type.
SequencesTypeOK ==
  /\ serverStates \in [Slots -> SequenceRecord]
  /\ ackTimers \in [Slots -> Calls \cup {0}]
  /\ nextSequenceEvictIndex \in Slots
  /\ onWay \in Transport!Frames \cup {NoFrame}
  /\ waiting \subseteq Transport!Frames
  /\ outcome \in [Calls -> Transport!Outcomes]
  /\ sent \in Seq(SentFrames)
  /\ ending \in [Calls -> Endings]
  /\ since \in [Targets -> 0 .. MaxSends + 1]

\* A server has one slot, whatever was evicted, cancelled or claimed again: two
\* would give it numbers of two counters.
OneSlotPerServer ==
  \A i, j \in Slots :
    /\ serverStates[i].occupied
    /\ serverStates[j].occupied
    /\ serverStates[i].nodeId = serverStates[j].nodeId
    => i = j

Awaited == {i \in Slots : serverStates[i].awaiting # 0}

\* A slot awaits exactly the commands whose wait has not ended, each with its
\* own timer, its own deadline and the server it was sent to; a slot that awaits
\* nothing has no timer.  So each accepted command is reported as timed out
\* unless it is acknowledged, superseded or evicted, and never twice.
OpenCommandsAreTimed ==
  /\ {n \in Calls : ending[n] = "open"} = {serverStates[i].awaiting : i \in Awaited}
  /\ \A i \in Slots : ackTimers[i] = serverStates[i].awaiting
  /\ \A i \in Awaited :
       LET n == serverStates[i].awaiting
       IN  /\ serverStates[i].occupied
           /\ n \in 1 .. Len(sent)
           /\ IsCommandTo(serverStates[i].nodeId, n)
           /\ outcome[n] # "refused"

InUse(n) == outcome[n] \in {"held", "delivered"}

\* Since the counter of a server was last set: no two commands that left the
\* node, or still may, carry the same number, and the next command has another
\* again - a number is given back only when nobody uses it.  (MaxSends is less
\* than SequenceModulus: the numbers do not come round.)
NumbersAreNotReused ==
  \A i \in Slots :
    LET node == serverStates[i].nodeId
        used == {n \in 1 .. Len(sent) :
                   IsCommandTo(node, n) /\ n >= since[node] /\ InUse(n)}
    IN  serverStates[i].occupied /\ since[node] # 0 =>
          /\ \A n \in used : sent[n].number # serverStates[i].sequenceCounter
          /\ \A m, n \in used : sent[m].number = sent[n].number => m = n

\* A command that is refused leaves no trace: counters, awaited commands, their
\* deadlines, evicted servers and the order of eviction are as before it.
RefusalLeavesNoTrace ==
  [][Len(sent') > Len(sent) /\ ~Taken => UNCHANGED slotVars]_sequencesVars

\* The wait for every accepted command ends.
EveryWaitEnds == \A n \in Calls : ending[n] = "open" ~> ending[n] # "open"

Later(n) == {m \in n + 1 .. Len(sent) : sent[m].kind = "command"
                                        /\ sent[m].node = sent[n].node
                                        /\ InUse(m)}

\* "The number is given back unless a later command to that server has already
\* taken the next one."
GivenBackUnlessOvertaken ==
  [][\A n \in Failed : \A i \in Slots :
       /\ sent' = sent
       /\ Serves(serverStates[i], sent[n].node)
       /\ serverStates'[i].sequenceCounter # serverStates[i].sequenceCounter
       => \A m \in Later(n) : sent[m].number # Successor(sent[n].number)
    ]_sequencesVars

=============================================================================
