SPECIFICATION FairSpec
CONSTANTS
  SessionIds <- OneSession
  QueueLimit = 1
  MaxFaults = 2
  MaxManual = 0
  MaxCommands = 0
  MaxDisconnects = 0
  HistoryLimit = 1
  Actors = {"stall", "leave"}
  FaultKinds = {"rest", "hub"}
PROPERTIES
  RecoveryNotLost
  DegradedRecovers
  HubReleased
CHECK_DEADLOCK FALSE
