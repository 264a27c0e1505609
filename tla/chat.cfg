SPECIFICATION FairSpec
CONSTANTS
  p1 = p1
  p2 = p2
  noName = noName
  Threads = {"t1", "t2"}
  Registry <- MCRegistry
  Events <- MCMessages
  Exchanges <- MCMessages
  Envelope <- MCEnvelope
  NoName = noName
  MaxTurns = 3
  KeepTurns = 2
  SummaryMax = 2
  MaxUnread = 1
  HistoryTurns = 2
  MaxPersonaTurns = 1
  Faults = {"model", "read", "write", "compact", "undo", "post", "mark", "marked", "crash",
            "forget"}
  MaxDeliveries = 3
  MaxTroubles = 1
INVARIANTS
  TranscriptIsConversation
  PairsUnlessCut
  PromptIsWhole
PROPERTIES
  MarkedStaysDone
  ThreadsShorten
  ThreadsEnd
CHECK_DEADLOCK FALSE
