SPECIFICATION WorkbenchSpec
CONSTANTS
  ProgramIds = {"p1", "p2"}
  WaypointIds = {"w1", "w2"}
  PoseLimit = 1
  WaypointLimit = 2
  LibraryLimit = 2
  ByteLimit = 4
  RevisionLimit = 2
  WaitLimit = 1
  FirstLibraries <- OneProgram
  FirstFiles <- ActionFiles
  Captures = {1}
  MaxOps = 3
  MaxDamage = 1
  maxSamples = 2
  maxAgeMs = 2
  Windows = {1, 2}
  HistorySessions = {"s1"}
  MaxSequence = 3
  MaxTimestamp = 3
  Groups = {"left"}
  Motors = {1, 2}
  Sources = {"c"}
  Boots = {"b1", "b2"}
  MaxFrameSeq = 1
  Stamps = {0, 1}
  Bodies <- ThreeBodies
  MaxRetired = 1
  StaleAfter = 2
  MaxReceived = 3
  Meshes = {"m1"}
  MaxMounts = 2
  Pointers = {"p1", "p2"}
  Focuses = {"all", "left", "bare"}
  Measurable = {"all", "left"}
  PackageFiles <- Packages
  LowerCase <- SegmentsInLowerCase
  MaxInspections = 2
  ArchiveLimit = 2
  FileLimit = 4
  UnpackedLimit = 6
  ManifestLimit = 1
  UrdfLimit = 1
  ErrorLimit = 1
  LinkIds = {"s1", "s2"}
  Requests = {"r1"}
  FrameLimit = 2
  DirectLimit = 1
  RecentLimit = 2
  MaxEvents = 3
  MaxReads = 1
  FeedLimit = 1
  MAX_LINE = 2
  MaxStream = 5
  BridgeActions = {"minimize", "exportDiagnostics", "close"}
  Capabilities = {"minimize", "exportDiagnostics"}
  MaxBridgeRequests = 3
  PortNames = {"COM1", "COM2"}
  MaxEnumerations = 3
  MaxFacts = 6
  GroupCommands <- JointGroups
  TypedLines <- OperatorLines
  ReplyLines <- ControllerReplies
  LargestInt = 999
  SpeedLimit = 1000000
  ArmRequests <- ControllerRequests
  ArmFrames <- ControllerFrames
  ARM_MAX_LINE = 32
  SequenceLimit = 99
  Noise = {32, 42, 61, 49, 65, 97, 10, 200}
  HostSettings <- Environments
  CommandSpecs <- WireCommands
  DirectRequests <- DirectCommands
  MaxServed = 1
INVARIANTS
  CodecAgrees
  AnswersAdmitted
  ReloadKeepsLibrary
  RingIsWindow
  TwinDelivery
  SceneReleased
  PackageVerdict
  PackageResultCurrent
  OperatorView
  DecodersFrame
  BridgeMapsAgree
  PortChoiceListed
  ClaimsWitnessed
PROPERTIES
  RevisionsGrow
  ChartCatchesUp
  TelemetryLossShown
  SceneCatchesUp
CHECK_DEADLOCK FALSE
