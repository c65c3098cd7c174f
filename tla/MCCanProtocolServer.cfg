CONSTANTS
  SequenceModulus = 3
  maxMessagesPerSecond = 2
  maxEmergencyMessagesPerSecond = 1
  SystemCategory = "system"
  ApplicationCategories <- MCApplicationCategories
  SequencedCategories <- MCSequencedCategories
  canMaxRegisteredCategories = 2
  ApplicationPriorities = {0, 8}
  QueueDepth = 2
  EmergencyReserve = 1
  NoFrame = NoFrame
  MaxFrames = 3
  MaxSends = 2

SPECIFICATION Spec

INVARIANTS
  CommandsInOrder
  BudgetsAreSeparate
  EveryFrameAccountedFor

CHECK_DEADLOCK FALSE
