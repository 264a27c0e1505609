\* The conversational operator drives a worker with a handshake gate, to its end.
SPECIFICATION FairDriveSpec
CONSTANTS
  Deployments <- Handshake
  Capabilities <- OneCapability
  MaxApplies = 1
  MaxGates = 2
  MaxDraws = 4
  MaxCalls = 5
  ScriptLength = 3
INVARIANTS NarrationExact DenialIsTrue
PROPERTIES ConversationEnds
CHECK_DEADLOCK FALSE
