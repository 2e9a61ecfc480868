SPECIFICATION SessionSpec
CONSTANTS
    s1 = s1
    t1 = t1
    c1 = c1
    None = None
    Request <- PairRequest
    PriorityOf <- PairPriority
    WorkIdOf <- PairWorkId
    WorkId = {"s1", "t1"}
    Fenced = {s1, t1}
    Retryable = {t1}
    Reusable = {}
    StopCauses = {}
    Chunk = {c1}
    Expects <- PairExpects
    Cancellable = {t1}
    WriteQueueCapacity = 3
    ReservedSafetySlots = 1
    ReceiveQueueCapacity = 1
INVARIANTS
    LeaseHeldByLiveCall
PROPERTIES
    ImplementsTurns
CHECK_DEADLOCK FALSE
