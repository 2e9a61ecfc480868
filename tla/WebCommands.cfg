SPECIFICATION FairSpec
CONSTANTS
  SessionIds <- OneSession
  QueueLimit = 1
  MaxFaults = 2
  MaxManual = 0
  MaxCommands = 2
  MaxDisconnects = 0
  HistoryLimit = 1
  Actors = {}
  FaultKinds = {"command"}
INVARIANTS
  LatchIsNewestUnresolved
PROPERTIES
  MotionGated
  AuditSettles
CHECK_DEADLOCK FALSE
