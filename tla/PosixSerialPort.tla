---------------------------- MODULE PosixSerialPort ----------------------------
(***************************************************************************)
(* The serial port under slcan on Linux, PosixSerialPort.cpp: the          *)
(* descriptor it opens and locks, the write that finishes a command the    *)
(* port took in part, and what a read means.  The line is what the port    *)
(* has taken: for every byte the command it is of and its place in it.     *)
(***************************************************************************)
EXTENDS Naturals, Sequences, SequencesExt

CONSTANTS
    CommandLength,    \* bound: bytes of a command
    MaxCommands       \* bound: calls of Write

BoundsArePositive == CommandLength \in Nat \ {0} /\ MaxCommands \in Nat

VARIABLES
    descriptor,   \* "closed", "unlocked" or "open"
    command,      \* the Write under way, 0 when there is none
    commands,     \* calls of Write
    offset,       \* bytes of it the port has taken
    waits,        \* times it waited for the port
    ready,        \* poll has said the port is writable
    line,
    returned      \* what the last Write returned

vars == <<descriptor, command, commands, offset, waits, ready, line, returned>>

Init ==
    /\ descriptor = "closed"
    /\ command = 0 /\ commands = 0 /\ offset = 0 /\ waits = 0 /\ ready = FALSE
    /\ line = <<>>
    /\ returned = "none"

IsOpen == descriptor # "closed"

\* Open: open, then lock; a port that is locked by another is closed again.
OpenResults == {"opened", "notFound", "accessDenied", "inUse", "failed"}

\* Mutation: the descriptor of a locked port is kept.
DescriptorKept(result) ==
    CASE result = "opened" -> "open" [] result = "inUse" -> "unlocked" [] OTHER -> "closed"

DescriptorAfterOpen(result) == IF result = "opened" THEN "open" ELSE "closed"

Open(result) ==
    /\ command = 0
    /\ descriptor' = DescriptorAfterOpen(result)
    /\ line' = <<>>
    /\ returned' = "none"
    /\ UNCHANGED <<command, commands, offset, waits, ready>>

Close ==
    /\ command = 0
    /\ IsOpen
    /\ descriptor' = "closed"
    /\ UNCHANGED <<command, commands, offset, waits, ready, line, returned>>

-----------------------------------------------------------------------------
Write ==
    /\ command = 0
    /\ IsOpen
    /\ commands < MaxCommands
    /\ commands' = commands + 1
    /\ command' = commands'
    /\ offset' = 0 /\ waits' = 0 /\ ready' = FALSE
    /\ returned' = "none"
    /\ UNCHANGED <<descriptor, line>>

\* Mutation: an off-by-one in the loop.
WritingAllButOne == command # 0 /\ offset + 1 < CommandLength

\* The loop goes on while there are bytes left.
Writing == command # 0 /\ offset < CommandLength

\* ::write takes some bytes, from the first one not taken yet.
NextByte == offset

TakesBytes ==
    /\ Writing
    /\ \E written \in 1 .. CommandLength - offset :
        /\ offset' = offset + written
        /\ line' = line \o [i \in 1 .. written |-> <<command, NextByte + i>>]
    /\ ready' = FALSE
    /\ UNCHANGED <<descriptor, command, commands, waits, returned>>

Returns(success) ==
    /\ command' = 0
    /\ returned' = success
    /\ UNCHANGED <<descriptor, commands, offset, waits, ready, line>>

\* The port would block: before the first byte the command fails at once,
\* after it the write waits, every time anew, and a port that poll calls
\* writable takes a byte.
WaitIsOver ==
    /\ Writing
    /\ offset > 0 /\ ~ready
    /\ waits' = waits + 1
    /\ ready' = TRUE
    /\ UNCHANGED <<descriptor, command, commands, offset, line, returned>>

\* The port would block before the first byte or for 100 ms after it, or it
\* reports an error.
Fails ==
    /\ Writing
    /\ Returns("failure")

Finishes ==
    /\ command # 0
    /\ ~Writing
    /\ Returns("success")

Next ==
    \/ \E result \in OpenResults : Open(result)
    \/ Close \/ Write \/ TakesBytes \/ WaitIsOver \/ Fails \/ Finishes

Spec == Init /\ [][Next]_vars

-----------------------------------------------------------------------------
\* A port locked by another program is never held open.
NeverHeldUnlocked == descriptor # "unlocked"

\* PosixSerialPort::Write: however many pieces the port takes it in, a command
\* is on the line once and in order, and one that reported success is whole.  One
\* that failed may have left a part of itself on the line.
SuccessMeansWhole ==
    /\ \A i \in 1 .. Len(line) :
         line[i][2] # 1 => i > 1 /\ line[i - 1] = <<line[i][1], line[i][2] - 1>>
    /\ returned = "success" => line # <<>> /\ Last(line) = <<commands, CommandLength>>
=============================================================================
