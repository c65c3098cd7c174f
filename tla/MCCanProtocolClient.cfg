CONSTANTS
  SequenceModulus = 4
  maxServers = 1
  Servers = {s1, s2}
  Broadcast = Broadcast
  Commands = {"start"}
  CommandPriority <- MCCommandPriority
  ExpectedNumbers = {3}
  QueueDepth = 1
  EmergencyReserve = 0
  NoFrame = NoFrame
  MaxSends = 4
  ApplicationPriorities = {0}
  SystemCategory = "system"
  ApplicationCategories = {"motor"}
  canMaxRegisteredCategories = 1
  NoNode = NoNode
  MaxFrames = 6

SPECIFICATION MCSpec

INVARIANTS
  ReportsMatchEntries
  EntriesAreTimed
  DiscoveriesEndOnce

PROPERTIES
  ImplementsParts
  EveryWaitEnds
  ClientKeepsGoing

CHECK_DEADLOCK FALSE
