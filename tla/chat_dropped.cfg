\* The event is acknowledged before it is handled: one that fails is not delivered again.
SPECIFICATION FairSpec
CONSTANTS
  p1 = p1
  p2 = p2
  noName = noName
  Threads = {"t1"}
  Registry <- MCRegistry
  Events <- MCEvents
  Exchanges <- MCEvents
  Envelope <- MCEnvelope
  NoName = noName
  MaxTurns = 3
  KeepTurns = 2
  SummaryMax = 2
  MaxUnread = 1
  HistoryTurns = 2
  MaxPersonaTurns = 1
  Faults = {"post"}
  MaxDeliveries = 1
  MaxTroubles = 1
PROPERTIES
  NeverDropped
CHECK_DEADLOCK FALSE
