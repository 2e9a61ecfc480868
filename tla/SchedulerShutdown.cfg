SPECIFICATION Spec
CONSTANTS
    s1 = s1
    s2 = s2
    i1 = i1
    b1 = b1
    c1 = c1
    None = None
    Request <- ClosingRequest
    PriorityOf <- ClosingPriority
    WorkIdOf <- ClosingWorkId
    WorkId = {"s1", "i1"}
    Fenced = {i1}
    Retryable = {i1}
    Reusable = {}
    StopCauses = {"read", "handler", "write", "observer", "close", "dispose"}
    Chunk = {c1}
    WriteQueueCapacity = 2
    ReservedSafetySlots = 1
    ReceiveQueueCapacity = 1
INVARIANTS
    QuiescentAfterWriter
CHECK_DEADLOCK FALSE
