------------------------------ MODULE MCDrivers ------------------------------
(***************************************************************************)
(* What stands between the protocol and the bus, for TLC: a host adapter   *)
(* of MCHostAdapters, or CanFrameTransport with a short queue over any of  *)
(* them.  Which of them is run is chosen at the start, and the variables   *)
(* of the others keep their values.                                        *)
(***************************************************************************)
EXTENDS MCHostAdapters, MCCanFrameTransport

VARIABLE transports   \* whether it is CanFrameTransport that is run

driversVars == <<mcVars, vars, transports>>

OfTransport(A) == transports /\ A /\ UNCHANGED <<mcVars, transports>>
OfAdapter(A) == ~transports /\ A /\ UNCHANGED <<vars, transports>>

DriversInit ==
  /\ MCInit /\ Init
  /\ transports \in BOOLEAN
  /\ transports => adapter = "gsUsb"

DriversNext == OfTransport(Next) \/ OfAdapter(MCNext)

\* The fairness of MCSpec and of Spec.
DriversSpec ==
  /\ DriversInit /\ [][DriversNext]_driversVars
  /\ WF_driversVars(OfAdapter(Returns)) /\ SF_driversVars(OfAdapter(RunsCompletion))
  /\ SF_driversVars(OfAdapter(Expires("slcan"))) /\ SF_driversVars(OfAdapter(Expires("slcan2")))
  /\ WF_driversVars(OfAdapter(OfSlcan(Slcan!DeviceAnswers)))
  /\ WF_driversVars(OfTransport(\E success \in BOOLEAN : OnSendComplete(success)))
=============================================================================
