CONSTANTS
  SequenceModulus = 4
  maxServers = 2
  Servers = {s1, s2}
  Broadcast = Broadcast
  Commands = {"start", "stop"}
  CommandPriority <- MCCommandPriority
  ExpectedNumbers = {3}
  OtherPriorities = {}
  QueueDepth = 1
  EmergencyReserve = 0
  NoFrame = NoFrame
  MaxSends = 3

SPECIFICATION SequencesSpec

SYMMETRY MCSymmetry

INVARIANTS
  SequencesTypeOK
  OneSlotPerServer
  OpenCommandsAreTimed
  NumbersAreNotReused

PROPERTIES
  RefusalLeavesNoTrace

CHECK_DEADLOCK FALSE
