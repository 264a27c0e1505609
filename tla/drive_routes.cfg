\* A gate behind another frame of the same key is drained and put to nobody.
SPECIFICATION FairDriveSpec
CONSTANTS
  Deployments <- Handshake
  Capabilities <- OneCapability
  MaxApplies = 1
  MaxGates = 2
  MaxDraws = 4
  MaxCalls = 5
  ScriptLength = 3
INVARIANTS EverySeenGateRouted
CHECK_DEADLOCK FALSE
