SPECIFICATION GatewaySpec
CONSTANTS
    None = None
    m1 = m1
    m2 = m2
    enable = enable
    setMode = setMode
    other = other
    jointA = jointA
    jointB = jointB
    home = home
    stop = stop
    Session = {s1}
    Command = {enable, stop}
    Mode = {m2}
    KindOf <- Kinds
    ModeOf <- Modes
    HardwareCommandsEnabled = TRUE
    CommandHistoryCapacity = 2
    ConsecutiveTimeoutLimit = 1
    Releases = {}
    InitialMotor = {"disabled"}
    MaxFaults = 0
PROPERTIES
    StopReadback
CHECK_DEADLOCK FALSE
