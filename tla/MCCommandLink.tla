---------------------------- MODULE MCCommandLink ----------------------------
(* CommandLink with numbers that soon come round, for TLC. *)
EXTENDS Naturals, Sequences

CONSTANTS LinkModulus, Uses, MaxEmergencies, MaxLosses

VARIABLES use, counter, queue, last, acks, verdict, emergencies, losses

Link == INSTANCE CommandLink WITH SequenceModulus <- LinkModulus

ASSUME MCLinkAssumption == Link!LinkAssumption

LinkSpec == Link!Spec

Use(window, rejects, lossy) == [window |-> window, rejects |-> rejects, lossy |-> lossy]

MCUses == {Use(3, FALSE, TRUE), Use(2, FALSE, FALSE), Use(1, TRUE, FALSE),
           Use(1, FALSE, TRUE)}
MCHasty == {Use(3, FALSE, FALSE)}

AckSent == Len(acks') > Len(acks)
Accepts == verdict' = "accepted" /\ AckSent

\* "Out-of-order or duplicated commands are rejected": an emergency is accepted
\* whatever its number, and sets the number anew; an ordinary command that it
\* overtook in the client's queue does not run after it, so a start that was
\* sent before an emergency stop does not undo it.
OvertakenCommandsAreRejected == [][Accepts => ~queue[Link!NextUp].overtaken]_(Link!vars)

\* A command the server rejects for its content leaves the client one number
\* ahead; a client that awaits each answer pays with one sequence error for it.
OneErrorIsEnough ==
    [][use.rejects /\ verdict = "sequenceError" /\ AckSent
         => verdict' # "sequenceError"]_(Link!vars)

\* Together: what the numbers keep out, and what they cost where nothing is lost.
NumbersKeepOrder ==
    /\ [][~use.lossy /\ Accepts => ~queue[Link!NextUp].overtaken]_(Link!vars)
    /\ OneErrorIsEnough

\* However numbers, losses, emergencies and stale acknowledgements meet, client
\* and server never stay out of step for good: some command is accepted again
\* and again (ResyncSequence); and a client that awaits each answer hears no
\* sequence error for ever.
CommandsGetThrough ==
    /\ ~use.rejects => []<><<Accepts>>_(Link!vars)
    /\ use = Use(1, FALSE, TRUE) => <>[](verdict # "sequenceError")
=============================================================================
