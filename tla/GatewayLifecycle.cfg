SPECIFICATION GatewayLiveSpec
CONSTANTS
    None = None
    m1 = m1
    m2 = m2
    enable = enable
    setMode = setMode
    other = other
    jointA = jointA
    jointB = jointB
    home = home
    stop = stop
    Session = {s1, s2}
    Command = {jointA}
    Mode = {m2}
    KindOf <- Kinds
    ModeOf <- Modes
    HardwareCommandsEnabled = TRUE
    CommandHistoryCapacity = 1
    ConsecutiveTimeoutLimit = 1
    Releases = {"manual", "dispose"}
    InitialMotor = {"enabled"}
    MaxFaults = 1
CONSTRAINT LifecycleBound
INVARIANTS
    TransportOwned
PROPERTIES
    DisconnectReturns
CHECK_DEADLOCK FALSE
