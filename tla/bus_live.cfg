\* Fair polling by two racing replicas: the bus implements the topic, every line is
\* delivered and the cursor settles.
SPECIFICATION FairSpec
CONSTANTS
  Workers = {w1}
  RunIds = {1, 2}
  MaxDate = 1
  Signals <- FewSignals
  Scans <- OneLine
  Anomaly <- MCAnomaly
  SubKinds <- MCKinds
  SubUrgency <- MCUrgency
  Replicas = {r1, r2}
  GcsStore = TRUE
  Discover = FALSE
  Callback = TRUE
  FreshRuns = TRUE
  SameDay = TRUE
  FaultKinds <- AllFaults
  MaxFaults = 1
  MaxEmits = 2
PROPERTIES ImplementsTopic EveryLineHandled CursorCatchesUp
