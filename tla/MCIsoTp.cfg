CONSTANTS
  OpenPdus <- MCPdus
  OpenFlowControls <- MCFlowControls
  OpenFrames <- MCFrames
  Lengths = {7, 13, 30}
  MaxPduSize = 40
  BlockSize = 2
  SeparationTime = 0
  nWftMax = 2
  TokenModulus = 256
  MaxOwed = 2
  MaxTransfers = 3
  MaxResets = 1
  Ids = {1, 2, 3, 4}
  MaxChannels = 2
  CallsInAbort = {"register", "send"}

SPECIFICATION MCSpec

INVARIANTS
  WaitIsTimed
  EndsOnce
  IdentifiersAreDisjoint
  NothingOutlivesRelease

PROPERTIES
  StaleCompletionsIgnored
  EveryTransferEnds
  LinkDelivers

CHECK_DEADLOCK FALSE
