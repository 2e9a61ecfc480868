SPECIFICATION SessionSpec
CONSTANTS
    s1 = s1
    t1 = t1
    c1 = c1
    None = None
    Request <- OneRequest
    PriorityOf <- OnePriority
    WorkIdOf <- OneWorkId
    WorkId = {"t1"}
    Fenced = {t1}
    Retryable = {}
    Reusable = {}
    StopCauses = {"read", "handler", "write", "observer", "close", "dispose"}
    Chunk = {c1}
    Expects <- OneExpects
    Cancellable = {}
    WriteQueueCapacity = 2
    ReservedSafetySlots = 1
    ReceiveQueueCapacity = 1
INVARIANTS
    FenceHasReleaser
CHECK_DEADLOCK FALSE
