\* An emission that straddles midnight lands behind the cursor.
SPECIFICATION Spec
CONSTANTS
  Workers = {w1}
  RunIds = {1, 2}
  MaxDate = 2
  Signals <- MCSignals
  Scans <- OneLine
  Anomaly <- MCAnomaly
  SubKinds <- MCKinds
  SubUrgency <- MCUrgency
  Replicas = {r1}
  GcsStore = TRUE
  Discover = FALSE
  Callback = TRUE
  FreshRuns = TRUE
  SameDay = FALSE
  FaultKinds <- AllFaults
  MaxFaults = 1
  MaxEmits = 2
INVARIANTS NothingLost
