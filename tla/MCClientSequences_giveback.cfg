CONSTANTS
  SequenceModulus = 4
  maxServers = 1
  Servers = {s1}
  Broadcast = Broadcast
  Commands = {"start", "stop"}
  CommandPriority <- MCCommandPriority
  ExpectedNumbers = {2}
  OtherPriorities = {}
  QueueDepth = 1
  EmergencyReserve = 0
  NoFrame = NoFrame
  MaxSends = 3

SPECIFICATION SequencesSpec

PROPERTIES
  GivenBackUnlessOvertaken

CHECK_DEADLOCK FALSE
