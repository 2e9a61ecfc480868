SPECIFICATION FenceLiveSpec
CONSTANTS
    s1 = s1
    s2 = s2
    i1 = i1
    b1 = b1
    c1 = c1
    None = None
    Request <- LiveRequest
    PriorityOf <- LivePriority
    WorkIdOf <- LiveWorkId
    WorkId = {"s1", "i1", "b"}
    Fenced = {i1}
    Retryable = {}
    Reusable = {i1, b1}
    StopCauses = {}
    Chunk = {}
    WriteQueueCapacity = 3
    ReservedSafetySlots = 1
    ReceiveQueueCapacity = 1
INVARIANTS
    BoundedBypass
PROPERTIES
    TicketCompletes
