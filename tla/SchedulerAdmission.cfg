SPECIFICATION Spec
CONSTANTS
    s1 = s1
    s2 = s2
    i1 = i1
    b1 = b1
    c1 = c1
    None = None
    Request <- AdmissionRequest
    PriorityOf <- AdmissionPriority
    WorkIdOf <- AdmissionWorkId
    WorkId = {"s1", "s2", "i1"}
    Fenced = {i1}
    Retryable = {b1}
    Reusable = {}
    StopCauses = {"write"}
    Chunk = {}
    WriteQueueCapacity = 2
    ReservedSafetySlots = 1
    ReceiveQueueCapacity = 1
INVARIANTS
    QueueAccounting
    NoOrphanTicket
PROPERTIES
    SafetyAdmission
    FenceRespected
    ImplementsTickets
CHECK_DEADLOCK FALSE
