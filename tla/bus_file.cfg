\* A lone consumer, workers discovered, file cursors, filters; the store can be read.
SPECIFICATION Spec
CONSTANTS
  Workers = {w1, w2}
  RunIds = {1, 2}
  MaxDate = 2
  Signals <- MCSignals
  Scans <- MixedScans
  Anomaly <- MCAnomaly
  SubKinds <- MCKinds
  SubUrgency <- MCUrgency
  Replicas = {r1}
  GcsStore = FALSE
  Discover = TRUE
  Callback = TRUE
  FreshRuns = TRUE
  SameDay = TRUE
  FaultKinds <- StoreReadable
  MaxFaults = 2
  MaxEmits = 2
INVARIANTS NothingLost OnceUnlessFault
PROPERTIES StoredCursorOnlyAdvances
