----------------------------- MODULE CommandLink -----------------------------
(***************************************************************************)
(* The numbers of one client's commands to one server, end to end: the     *)
(* client's counter (CanProtocolClient), the queue of its transport, where *)
(* an emergency overtakes, the server's check (CanProtocolServer), and the *)
(* acknowledgements on their way back.  ClientSequences and                *)
(* CanProtocolServer model the two ends in full; here they meet.           *)
(*                                                                         *)
(* The window of the application's use of the client is 1 when it awaits   *)
(* each answer, or gives it up, before it sends again.                     *)
(***************************************************************************)
EXTENDS Naturals, Sequences, SequencesExt

CONSTANTS
    SequenceModulus,  \* 256: the numbers are uint8_t
    Uses,             \* how applications use the client: how many commands they
                      \* have under way, whether the server's handlers may reject
                      \* a payload, and whether the way between them loses frames
    MaxEmergencies,   \* bound: emergency commands
    MaxLosses         \* bound: frames lost

\* What the constants are assumed to be.
LinkAssumption ==
    /\ SequenceModulus \in Nat /\ SequenceModulus > 1
    /\ Uses \subseteq [window : Nat \ {0}, rejects : BOOLEAN, lossy : BOOLEAN]
    /\ MaxEmergencies \in Nat /\ MaxLosses \in Nat

VARIABLES
    counter,   \* the client's sequenceCounter
    queue,     \* commands the client's transport holds, as they were sent
    last,      \* the server's lastSequenceNumber, Uninitialized before the first
    acks,      \* acknowledgements on their way: the expected number, or Fine
    verdict,   \* what the server said of the command that arrived last
    use,       \* how this application does, fixed
    emergencies, losses

vars == <<use, counter, queue, last, acks, verdict, emergencies, losses>>

Numbers == 0 .. SequenceModulus - 1
Uninitialized == SequenceModulus
Fine == SequenceModulus

\* Mutation: the cast to uint8_t is missing.
SuccessorUnwrapped(number) == number + 1

Successor(number) == (number + 1) % SequenceModulus

Init ==
    /\ counter \in Numbers
    /\ use \in Uses
    /\ queue = <<>> /\ acks = <<>>
    /\ last = Uninitialized
    /\ verdict = "none"
    /\ emergencies = 0 /\ losses = 0

-----------------------------------------------------------------------------
\* SendCommand: ReserveSequence and SendFrame.
SendCommand(emergency) ==
    /\ Len(queue) + Len(acks) < use.window
    /\ queue' = Append(queue, [number |-> counter, emergency |-> emergency,
                               overtaken |-> FALSE])
    /\ counter' = Successor(counter)
    /\ emergency => emergencies < MaxEmergencies
    /\ emergencies' = IF emergency THEN emergencies + 1 ELSE emergencies
    /\ UNCHANGED <<use, last, acks, verdict, losses>>

\* The transport sends the most urgent frame, the first of several.
NextUp ==
    IF \E i \in DOMAIN queue : queue[i].emergency
    THEN CHOOSE i \in DOMAIN queue :
            queue[i].emergency /\ \A j \in 1 .. i - 1 : ~queue[j].emergency
    ELSE 1

\* What is left of the queue.  A command that was sent before an emergency the
\* server accepts is overtaken.
Remaining(accepted) ==
    LET marked == [i \in DOMAIN queue |->
                     [queue[i] EXCEPT !.overtaken = @ \/ (accepted /\ i < NextUp)]]
    IN RemoveAt(marked, NextUp)

\* AdmitCommand: the server expects the number after the last it accepted.
ExpectedSequence == Successor(last)

\* An emergency is not checked.
IsExpectedSequence(command) ==
    command.emergency \/ last = Uninitialized \/ command.number = ExpectedSequence

\* Mutation: an emergency is only exempt, its number is not recorded.
CommitOrdinaryOnly(command) ==
    IF command.emergency /\ last # Uninitialized THEN last ELSE command.number

\* CommitSequence, for a command that is accepted.
CommitSequence(command) == command.number

\* Conclude: a command the handler rejects leaves the number as it was.
Verdicts(command) ==
    IF ~IsExpectedSequence(command) THEN {"sequenceError"}
    ELSE {"accepted"} \cup (IF use.rejects THEN {"invalidPayload"} ELSE {})

CommandArrives ==
    /\ queue # <<>>
    /\ LET command == queue[NextUp]
       IN /\ verdict' \in Verdicts(command)
          /\ last' = IF verdict' = "accepted" THEN CommitSequence(command) ELSE last
          /\ acks' = Append(acks, IF verdict' = "sequenceError" THEN ExpectedSequence
                                  ELSE Fine)
    /\ queue' = Remaining(verdict' = "accepted")
    /\ UNCHANGED <<use, counter, emergencies, losses>>

Loses ==
    /\ use.lossy
    /\ losses < MaxLosses /\ losses' = losses + 1

\* The server does not hear the command, or its rate limit drops it.
CommandIsLost ==
    /\ queue # <<>>
    /\ Loses
    /\ queue' = Remaining(FALSE)
    /\ UNCHANGED <<use, counter, last, acks, verdict, emergencies>>

\* ReturnSequence: the number is given back if it was the last taken.
CounterAfterFailure(number) ==
    IF counter = Successor(number) THEN number ELSE counter

\* The frame does not leave the node.
CommandFails ==
    /\ queue # <<>>
    /\ Loses
    /\ counter' = CounterAfterFailure(queue[NextUp].number)
    /\ queue' = Remaining(FALSE)
    /\ UNCHANGED <<use, last, acks, verdict, emergencies>>

\* Mutation: the expected number counts as taken.
ResyncPastExpected(expected) == Successor(expected)

\* ResyncSequence: the client adopts the number the server expected.
ResyncSequence(expected) == expected

AckArrives ==
    /\ acks # <<>>
    /\ counter' = IF Head(acks) = Fine THEN counter ELSE ResyncSequence(Head(acks))
    /\ acks' = Tail(acks)
    /\ UNCHANGED <<use, queue, last, verdict, emergencies, losses>>

\* The server's transport refuses the acknowledgement, or the client misses it.
AckIsLost ==
    /\ acks # <<>>
    /\ Loses
    /\ acks' = Tail(acks)
    /\ UNCHANGED <<use, counter, queue, last, verdict, emergencies>>

Next ==
    \/ \E emergency \in BOOLEAN : SendCommand(emergency)
    \/ CommandArrives \/ CommandIsLost \/ CommandFails
    \/ AckArrives \/ AckIsLost

\* The application goes on sending, and what is not lost arrives.
Spec ==
    /\ Init /\ [][Next]_vars
    /\ WF_vars(SendCommand(FALSE)) /\ WF_vars(CommandArrives) /\ WF_vars(AckArrives)
=============================================================================
