CONSTANTS
  SequenceModulus = 3
  maxMessagesPerSecond = 2
  maxEmergencyMessagesPerSecond = 1
  SystemCategory = "system"
  ApplicationCategories = {"motor"}
  SequencedCategories = {"motor"}
  canMaxRegisteredCategories = 2
  ApplicationPriorities = {0, 8}
  QueueDepth = 2
  EmergencyReserve = 1
  NoFrame = NoFrame
  MaxFrames = 1
  MaxSends = 4

SPECIFICATION Spec

INVARIANTS
  OneHeartbeatPending

PROPERTIES
  ServerKeepsGoing

CHECK_DEADLOCK FALSE
