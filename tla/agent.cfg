\* Every deployment: a human or an allowlist policy approves, in the app or at
\* the driver, over the token handshake; or nobody does, in a pure dry run.
SPECIFICATION Spec
CONSTANTS
  Deployments <- AllDeployments
  Capabilities <- SomeCapabilities
  MaxApplies = 1
  MaxGates = 2
  MaxDraws = 2
  MaxCalls = 3
INVARIANTS PostedOnlyIfApproved NoMutualWait ResolvedTruly PolicyRespected
PROPERTIES ImplementsGuardedWrite
CHECK_DEADLOCK FALSE
