---------------------------- MODULE MCCategories ----------------------------
(***************************************************************************)
(* Two categories for TLC: FirmwareUpgrade and the FOC motor example.      *)
(* Which of them is run is chosen at the start; the variables of the other *)
(* keep their values.                                                      *)
(***************************************************************************)
EXTENDS Integers, Sequences, FiniteSets

CONSTANTS SessionTimeout, MaxCommands, MaxPending, MaxMotorCommands, MaxFaults

VARIABLES
  chosen,   \* the category that is run
  observer, session, toServer, toClient, pending,
  upgradeCommands, upgradeAccepted, upgradeHeard,
  motorToServer, motorPending, motorWaiting, motorRefused, motorHeard,
  motorSent, motorFaults

Upgrade == INSTANCE FirmwareUpgrade WITH
  commands <- upgradeCommands, accepted <- upgradeAccepted, heard <- upgradeHeard

Motor == INSTANCE FocMotor WITH
  MaxCommands <- MaxMotorCommands,
  toServer <- motorToServer, pending <- motorPending, waiting <- motorWaiting,
  refused <- motorRefused, heard <- motorHeard, sent <- motorSent, faults <- motorFaults

upgradeVars == <<observer, session, toServer, toClient, pending,
                 upgradeCommands, upgradeAccepted, upgradeHeard>>
motorVars == <<motorToServer, motorPending, motorWaiting, motorRefused, motorHeard,
               motorSent, motorFaults>>
mcVars == <<upgradeVars, motorVars, chosen>>

ASSUME CategoriesAssumption == Upgrade!SessionsLast /\ Motor!BoundsAreNatural

MCInit ==
  /\ Upgrade!Init
  /\ Motor!Init
  /\ chosen \in {"firmwareUpgrade", "focMotor"}

OfFirmwareUpgrade(A) == chosen = "firmwareUpgrade" /\ A /\ UNCHANGED <<motorVars, chosen>>

OfFocMotor(A) == chosen = "focMotor" /\ A /\ UNCHANGED <<upgradeVars, chosen>>

MCNext == OfFirmwareUpgrade(Upgrade!Next) \/ OfFocMotor(Motor!Next)

\* Time passes; no one owes a command, an answer or a frame.
MCSpec ==
  /\ MCInit
  /\ [][MCNext]_mcVars
  /\ WF_mcVars(OfFirmwareUpgrade(Upgrade!Tick))
  /\ WF_mcVars(OfFirmwareUpgrade(Upgrade!HandleSessionTimeout))

\* The session of a firmware upgrade expires only after something it accepted:
\* what is refused or ended does not.
ExpiryNeedsAcceptance == Upgrade!ExpiryNeedsAcceptance

\* The session of a client that has died ends, although a supervisor goes on
\* asking for progress.
EverySessionEnds == Upgrade!EverySessionEnds

\* Whatever is answered, refused or lost in whatever order: a response comes
\* before the acknowledgement of its command, so a client that hears the
\* acknowledgement first knows that the response is lost; and a client of the FOC
\* motor reads every layout as its server wrote it.  Telemetry is no response in
\* this sense: it is less urgent, its acknowledgement overtakes it, and hearing
\* that one first says nothing.  The sequence diagrams of foc-motor-control.md
\* show the acknowledgement of a query and of an identification first and that of
\* telemetry last; the server does neither.
AnswersComeFirst ==
  /\ Upgrade!ResponsesComeFirst
  /\ [](Motor!AnswersExplainAcks /\ Motor!NobodyMisreads)

=============================================================================
