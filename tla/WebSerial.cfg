SPECIFICATION Spec
CONSTANTS
  SessionIds <- OneSession
  QueueLimit = 1
  MaxFaults = 1
  MaxManual = 1
  MaxCommands = 0
  MaxDisconnects = 1
  HistoryLimit = 1
  Actors = {"edit"}
  FaultKinds = {"serial", "manual"}
INVARIANTS
  NoStuckOperation
PROPERTIES
  EditSurvives
CHECK_DEADLOCK FALSE
