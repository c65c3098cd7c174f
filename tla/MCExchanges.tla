----------------------------- MODULE MCExchanges -----------------------------
(***************************************************************************)
(* What a client and a server say to each other, for TLC: the categories   *)
(* of MCCategories, or the numbers of commands of MCCommandLink.  Which of *)
(* them is run is chosen at the start, and the variables of the others     *)
(* keep their values.                                                      *)
(***************************************************************************)
EXTENDS MCCategories, MCCommandLink

linkVars == <<use, counter, queue, last, acks, verdict, emergencies, losses>>
exchangeVars == <<mcVars, linkVars>>

OfCommandLink(A) == chosen = "commandLink" /\ A /\ UNCHANGED mcVars

ExchangesInit ==
  /\ Upgrade!Init /\ Motor!Init /\ Link!Init
  /\ chosen \in {"firmwareUpgrade", "focMotor", "commandLink"}
  /\ chosen # "commandLink" => counter = 0 /\ use = CHOOSE u \in Uses : TRUE

ExchangesNext == (MCNext /\ UNCHANGED linkVars) \/ OfCommandLink(Link!Next)

\* The fairness of MCSpec and of LinkSpec.
ExchangesSpec ==
  /\ ExchangesInit /\ [][ExchangesNext]_exchangeVars
  /\ WF_exchangeVars(OfFirmwareUpgrade(Upgrade!Tick) /\ UNCHANGED linkVars)
  /\ WF_exchangeVars(OfFirmwareUpgrade(Upgrade!HandleSessionTimeout) /\ UNCHANGED linkVars)
  /\ WF_exchangeVars(OfCommandLink(Link!SendCommand(FALSE)))
  /\ WF_exchangeVars(OfCommandLink(Link!CommandArrives))
  /\ WF_exchangeVars(OfCommandLink(Link!AckArrives))

\* However numbers, losses, emergencies and stale acknowledgements meet, client
\* and server never stay out of step for good (MCCommandLink).
NumbersRecover == chosen = "commandLink" => CommandsGetThrough
=============================================================================
