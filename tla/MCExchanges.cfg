CONSTANTS
  SessionTimeout = 2
  MaxCommands = 3
  MaxPending = 2
  MaxMotorCommands = 2
  MaxFaults = 1
  LinkModulus = 16
  Uses <- MCUses
  MaxEmergencies = 3
  MaxLosses = 2

SPECIFICATION ExchangesSpec

INVARIANTS
  ExpiryNeedsAcceptance

PROPERTIES
  AnswersComeFirst
  EverySessionEnds
  NumbersKeepOrder
  NumbersRecover

CHECK_DEADLOCK FALSE
