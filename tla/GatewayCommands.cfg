SPECIFICATION GatewaySpec
CONSTANTS
    None = None
    m1 = m1
    m2 = m2
    enable = enable
    setMode = setMode
    other = other
    jointA = jointA
    jointB = jointB
    home = home
    stop = stop
    Session = {s1}
    Command = {jointA, jointB, stop}
    Mode = {m2}
    KindOf <- Kinds
    ModeOf <- Modes
    HardwareCommandsEnabled = TRUE
    CommandHistoryCapacity = 1
    ConsecutiveTimeoutLimit = 1
    Releases = {}
    InitialMotor = {"enabled"}
    MaxFaults = 0
INVARIANTS
    OneCommand
PROPERTIES
    InterlockHolds
SYMMETRY Alike
CHECK_DEADLOCK FALSE
