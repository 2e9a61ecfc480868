--------------------------- MODULE SerialScheduler ---------------------------
(***************************************************************************)
(* SerialDuplexScheduler: one open serial session owned by three tasks (a  *)
(* reader, a dispatcher and a writer), fed by any number of QueueWrite     *)
(* callers and stopped by a fault of any task or by DisposeAsync.          *)
(*                                                                         *)
(* A Request is one SerialWriteRequest.  A name whose request nobody       *)
(* refers to any more may be used again for a fresh request, so behaviours *)
(* with unboundedly many writes have finitely many states.  Lapsed queue   *)
(* delays are a nondeterministic choice of the writer (Expire).            *)
(***************************************************************************)
EXTENDS Integers, Sequences, FiniteSets

CONSTANTS
    Request,              \* the requests QueueWrite may be called with
    WorkId,               \* their SerialWriteRequest.WorkId values
    Chunk,                \* what one ReadAsync returns
    None,                 \* null
    PriorityOf,           \* [Request -> Priority]
    WorkIdOf,             \* [Request -> WorkId]; two requests may share one
    Fenced,               \* requests with a ResponseFence
    Retryable,            \* requests with RetryOnTransientTimeout
    WriteQueueCapacity,   \* SerialDuplexSchedulerOptions
    ReservedSafetySlots,
    ReceiveQueueCapacity,
    Reusable,             \* bound: names that may stand for request after request
    StopCauses            \* bound: what may go wrong, or end, the session

Safety      == 0
Interactive == 1
Telemetry   == 2
Background  == 3
Priority    == 0..3

ASSUME RequestAssumption ==
    /\ PriorityOf \in [Request -> Priority]
    /\ WorkIdOf \in [Request -> WorkId]
    /\ Fenced \subseteq Request
    /\ Retryable \subseteq Request
    /\ Reusable \subseteq Request
    /\ None \notin Request
    /\ None \notin Chunk
    /\ StopCauses \subseteq {"read", "handler", "write", "observer", "close",
                             "dispose"}

\* SerialDuplexSchedulerOptions.Validate; its lower bounds (8, 1 and 4) and
\* upper bounds are left out, the relation between the two limits is not.
Validate ==
    /\ WriteQueueCapacity \in Nat
    /\ ReservedSafetySlots \in 1..(WriteQueueCapacity - 1)
    /\ ReceiveQueueCapacity \in Nat \ {0}

ASSUME OptionsAssumption == Validate

VARIABLES
    stopping, cancelled, transportClosed, portOpen, lastFault, transportDisposed,
    queues, queueDepth, pendingWorkIds, fairScheduleIndex,
    outcome,        \* completion of each request's ticket
    posting,        \* QueueWrite calls that left the lock and have not returned
    victim,         \* the write such a call superseded and has yet to complete
    released,       \* SerialResponseFence.IsReleased
    writerWake,     \* the one-slot DropWrite channel holds a token
    activeFence,    \* RunWriterAsync's local
    current,        \* the PendingWrite the writer has in hand
    attempts,       \* transport.WriteAsync calls made for each request
    receiveQueue, receiveCompleted, held,
    pc,
    \* History, read by no action:
    lastFenced,     \* the fenced request whose payload was written last
    bypass,         \* fair takes that passed over each waiting priority
    overtaken       \* write attempts begun while safety work was queued

stopVars     == <<stopping, cancelled, transportClosed, portOpen, lastFault,
                  transportDisposed>>
queueVars    == <<queues, queueDepth, pendingWorkIds, fairScheduleIndex>>
ticketVars   == <<outcome, posting, victim, released>>
writerVars   == <<writerWake, activeFence, current, attempts>>
receiveVars  == <<receiveQueue, receiveCompleted, held>>
historyVars  == <<lastFenced, bypass, overtaken>>
vars == <<stopVars, queueVars, ticketVars, writerVars, receiveVars, pc,
          historyVars>>

Actor   == {"reader", "dispatcher", "writer", "disposer"}
Runtime == {"reader", "dispatcher", "writer"}
Outcome == {"none", "rejected", "pending", "written", "expired", "superseded",
            "cancelled", "failed"}
StopPc  == {"fault", "cancel", "close"}
PcOf(a) == StopPc \union
    (CASE a = "reader"     -> {"read", "enqueue", "finally", "done"}
       [] a = "dispatcher" -> {"wait", "handle", "done"}
       [] a = "writer"     -> {"loop", "drain", "check", "park", "parkFenced",
                               "taken", "writing", "retryDelay", "finally", "done"}
       [] a = "disposer"   -> {"idle", "await", "done"})
Pc == UNION {PcOf(a) : a \in Actor}

FairSchedule == <<Interactive, Interactive, Interactive, Telemetry,
                  Interactive, Telemetry, Interactive, Background>>
FairLength == 8
FairSlot(i) == FairSchedule[(i % FairLength) + 1]
\* Mutant: the index does not advance.
NextFairIndexStuck(i, k) == i
NextFairIndex(i, k) == (i + k + 1) % FairLength

StopType ==
    /\ stopping \in BOOLEAN /\ cancelled \in BOOLEAN
    /\ transportClosed \in BOOLEAN /\ portOpen \in BOOLEAN
    /\ lastFault \in BOOLEAN /\ transportDisposed \in BOOLEAN
QueueType ==
    /\ queues \in [Priority -> Seq(Request)]
    /\ queueDepth \in Int
    /\ pendingWorkIds \subseteq WorkId
    /\ fairScheduleIndex \in 0..(FairLength - 1)
TicketType ==
    /\ outcome \in [Request -> Outcome]
    /\ posting \subseteq Request
    /\ victim \in [Request -> Request \union {None}]
    /\ released \subseteq Fenced
WriterType ==
    /\ writerWake \in BOOLEAN
    /\ activeFence \in Fenced \union {None}
    /\ current \in Request \union {None}
    /\ attempts \in [Request -> Nat]
ReceiveType ==
    /\ receiveQueue \in Seq(Chunk \union {None})
    /\ receiveCompleted \in BOOLEAN
    /\ held \in [{"reader", "dispatcher"} -> Chunk \union {None}]
PcType == pc \in [Actor -> Pc] /\ \A a \in Actor : pc[a] \in PcOf(a)
HistoryType ==
    /\ lastFenced \in Fenced \union {None}
    /\ bypass \in [Priority -> Nat]
    /\ overtaken \in Nat

\* Every variable holds a value of its kind: in particular the fair index stays
\* inside the schedule and each task stays among its own labels.
TypeOK ==
    /\ StopType /\ QueueType /\ TicketType /\ WriterType
    /\ ReceiveType /\ PcType /\ HistoryType

Init ==
    /\ stopping = FALSE /\ cancelled = FALSE
    /\ transportClosed = FALSE /\ portOpen = TRUE
    /\ lastFault = FALSE /\ transportDisposed = FALSE
    /\ queues = [p \in Priority |-> <<>>]
    /\ queueDepth = 0 /\ pendingWorkIds = {} /\ fairScheduleIndex = 0
    /\ outcome = [r \in Request |-> "none"]
    /\ posting = {} /\ victim = [r \in Request |-> None] /\ released = {}
    /\ writerWake = FALSE /\ activeFence = None /\ current = None
    /\ attempts = [r \in Request |-> 0]
    /\ receiveQueue = <<>> /\ receiveCompleted = FALSE
    /\ held = [a \in {"reader", "dispatcher"} |-> None]
    /\ pc = [a \in Actor |-> CASE a = "reader"     -> "read"
                                [] a = "dispatcher" -> "wait"
                                [] a = "writer"     -> "loop"
                                [] a = "disposer"   -> "idle"]
    /\ lastFenced = None /\ bypass = [p \in Priority |-> 0] /\ overtaken = 0

Goto(a, l) == pc' = [pc EXCEPT ![a] = l]

-----------------------------------------------------------------------------
(* QueueWrite: one critical section, then the completion of the superseded *)
(* write and the wake-up outside the lock.                                 *)

\* r stands for no request anybody still refers to.
Unused(r) ==
    /\ outcome[r] = "none" \/ r \in Reusable
    /\ outcome[r] # "pending"
    /\ r \notin posting
    /\ current # r
    /\ activeFence # r
    /\ r \in Fenced /\ outcome[r] = "written" => r \in released

NonSafetyLimit == WriteQueueCapacity - ReservedSafetySlots

\* Work ids once v is evicted or completed.  Mutant: the id is never freed.
IdsWithoutLeak(v) == pendingWorkIds
IdsWithout(v) == pendingWorkIds \ {WorkIdOf[v]}

\* Mutant: only background work gives way.
EvictableBackground(p) == p = Background /\ queues[p] # <<>>

\* RemoveOldestLowerPriorityLocked takes from the lowest priority that has work.
Evictable(p) ==
    /\ p # Safety
    /\ queues[p] # <<>>
    /\ \A q \in Priority : q > p => queues[q] = <<>>

\* The critical section returns a rejected ticket.
RejectWrite(r) ==
    /\ Unused(r)
    /\ \/ stopping
       \/ WorkIdOf[r] \in pendingWorkIds
       \/ PriorityOf[r] # Safety /\ queueDepth >= NonSafetyLimit
       \/ queueDepth >= WriteQueueCapacity /\ \A p \in Priority : ~Evictable(p)
    /\ outcome' = [outcome EXCEPT ![r] = "rejected"]
    /\ lastFenced' = IF lastFenced = r THEN None ELSE lastFenced
    /\ UNCHANGED <<stopVars, queueVars, posting, victim, released, writerVars,
                   receiveVars, pc, bypass, overtaken>>

\* Mutant: the stopping test is left to the caller.
AdmissibleWhileStopping(r) == Unused(r) /\ WorkIdOf[r] \notin pendingWorkIds
Admissible(r) ==
    /\ Unused(r)
    /\ ~stopping
    /\ WorkIdOf[r] \notin pendingWorkIds

\* A fresh request under the name r: nothing is written yet, and its fence is
\* closed unless the adapter released it before the request was queued.
Enlist(r) ==
    /\ outcome' = [outcome EXCEPT ![r] = "pending"]
    /\ posting' = posting \union {r}
    /\ released' = IF outcome[r] = "none" THEN released ELSE released \ {r}
    /\ attempts' = [attempts EXCEPT ![r] = 0]
    /\ lastFenced' = IF lastFenced = r THEN None ELSE lastFenced
    /\ UNCHANGED <<stopVars, fairScheduleIndex, writerWake, activeFence, current,
                   receiveVars, pc, overtaken>>

AcceptWrite(r) ==
    /\ Admissible(r)
    /\ queueDepth < IF PriorityOf[r] = Safety THEN WriteQueueCapacity
                                              ELSE NonSafetyLimit
    /\ queueDepth' = queueDepth + 1
    /\ queues' = [queues EXCEPT ![PriorityOf[r]] = Append(@, r)]
    /\ pendingWorkIds' = pendingWorkIds \union {WorkIdOf[r]}
    /\ victim' = [victim EXCEPT ![r] = None]
    /\ bypass' = bypass
    /\ Enlist(r)

\* A full queue: safety work takes the place of the oldest lowest-priority work.
SupersedeWrite(r, p) ==
    /\ Admissible(r)
    /\ PriorityOf[r] = Safety
    /\ queueDepth >= WriteQueueCapacity
    /\ Evictable(p)
    /\ queueDepth' = queueDepth
    /\ queues' = [queues EXCEPT ![p] = Tail(@), ![Safety] = Append(@, r)]
    /\ pendingWorkIds' = IdsWithout(Head(queues[p])) \union {WorkIdOf[r]}
    /\ victim' = [victim EXCEPT ![r] = Head(queues[p])]
    /\ bypass' = [bypass EXCEPT ![p] = IF Tail(queues[p]) = <<>> THEN 0 ELSE @]
    /\ Enlist(r)

\* Mutant: the superseded ticket is forgotten.
OutcomeForgetsVictim(r) == outcome
OutcomeWithVictim(r) ==
    IF victim[r] = None THEN outcome
    ELSE [outcome EXCEPT ![victim[r]] = "superseded"]

\* After the lock: complete the superseded ticket, SignalWriter, return.
FinishQueueWrite(r) ==
    /\ r \in posting
    /\ posting' = posting \ {r}
    /\ outcome' = OutcomeWithVictim(r)
    /\ victim' = [victim EXCEPT ![r] = None]
    /\ writerWake' = TRUE
    /\ UNCHANGED <<stopVars, queueVars, released, activeFence, current, attempts,
                   receiveVars, pc, historyVars>>

\* SerialResponseFence.Release, called by the protocol adapter at any time.
ReleaseFence(r) ==
    /\ r \in Fenced \ released
    /\ released' = released \union {r}
    /\ UNCHANGED <<stopVars, queueVars, outcome, posting, victim, writerVars,
                   receiveVars, pc, historyVars>>

-----------------------------------------------------------------------------
(* RunWriterAsync                                                          *)

\* Entering an iteration forgets a released fence.  Mutant: it forgets any.
NoFenceInForce == None
FenceInForce == IF activeFence \in released THEN None ELSE activeFence

WriterStopsAtLoop ==
    /\ pc["writer"] = "loop"
    /\ cancelled
    /\ Goto("writer", "finally")
    /\ UNCHANGED <<stopVars, queueVars, ticketVars, writerVars, receiveVars,
                   historyVars>>

Take(p) ==
    /\ queueDepth' = queueDepth - 1
    /\ queues' = [queues EXCEPT ![p] = Tail(@)]
    /\ current' = Head(queues[p])
    /\ activeFence' = FenceInForce
    /\ Goto("writer", "taken")
    /\ UNCHANGED <<stopVars, pendingWorkIds, ticketVars, writerWake, attempts,
                   receiveVars, lastFenced>>

TakeSafety ==
    /\ pc["writer"] = "loop"
    /\ ~cancelled
    /\ queues[Safety] # <<>>
    /\ Take(Safety)
    /\ overtaken' = 0
    /\ UNCHANGED <<fairScheduleIndex, bypass>>

\* Bound on the bypass history, beyond what BoundedBypass allows.
BypassCap == 8

\* The first slot of the fair schedule, from fairScheduleIndex on, that has work.
FairTurn(k) ==
    /\ queues[FairSlot(fairScheduleIndex + k)] # <<>>
    /\ \A j \in 0..(k - 1) : queues[FairSlot(fairScheduleIndex + j)] = <<>>

TakeFair ==
    /\ pc["writer"] = "loop"
    /\ ~cancelled
    /\ FenceInForce = None
    /\ queues[Safety] = <<>>
    /\ \E k \in 0..(FairLength - 1) :
         LET p == FairSlot(fairScheduleIndex + k) IN
         /\ FairTurn(k)
         /\ Take(p)
         /\ fairScheduleIndex' = NextFairIndex(fairScheduleIndex, k)
         /\ bypass' = [q \in Priority |->
                         IF q = p \/ queues[q] = <<>> THEN 0
                         ELSE IF bypass[q] < BypassCap THEN bypass[q] + 1
                         ELSE bypass[q]]
    /\ UNCHANGED overtaken

TakeNothing ==
    /\ pc["writer"] = "loop"
    /\ ~cancelled
    /\ queues[Safety] = <<>>
    /\ FenceInForce # None \/ \A p \in Priority : queues[p] = <<>>
    /\ activeFence' = FenceInForce
    /\ Goto("writer", "drain")
    /\ UNCHANGED <<stopVars, queueVars, ticketVars, writerWake, current, attempts,
                   receiveVars, historyVars>>

\* WaitForEligibleWriteAsync: discard stale tokens, look again, then park.
DrainWake ==
    /\ pc["writer"] = "drain"
    /\ writerWake' = FALSE
    /\ Goto("writer", "check")
    /\ UNCHANGED <<stopVars, queueVars, ticketVars, activeFence, current, attempts,
                   receiveVars, historyVars>>

\* Mutant: park without looking at the queues again.
ParkBlindly ==
    /\ pc["writer"] = "check"
    /\ activeFence' = FenceInForce
    /\ Goto("writer", IF FenceInForce = None THEN "park" ELSE "parkFenced")
    /\ UNCHANGED <<stopVars, queueVars, ticketVars, writerWake, current, attempts,
                   receiveVars, historyVars>>

\* A fence seen released here is forgotten here, one iteration early.
CheckEligible ==
    /\ pc["writer"] = "check"
    /\ activeFence' = FenceInForce
    /\ Goto("writer",
         IF FenceInForce = None
         THEN IF queueDepth > 0 THEN "loop" ELSE "park"
         ELSE IF queues[Safety] # <<>> THEN "loop" ELSE "parkFenced")
    /\ UNCHANGED <<stopVars, queueVars, ticketVars, writerWake, current, attempts,
                   receiveVars, historyVars>>

Woken ==
    /\ pc["writer"] \in {"park", "parkFenced"}
    /\ writerWake
    /\ writerWake' = FALSE
    /\ Goto("writer", "loop")
    /\ UNCHANGED <<stopVars, queueVars, ticketVars, activeFence, current, attempts,
                   receiveVars, historyVars>>

\* The cancelled wake read may or may not have consumed a token.
FenceReleaseSeen ==
    /\ pc["writer"] = "parkFenced"
    /\ activeFence \in released
    /\ writerWake' \in {writerWake, FALSE}
    /\ Goto("writer", "loop")
    /\ UNCHANGED <<stopVars, queueVars, ticketVars, activeFence, current, attempts,
                   receiveVars, historyVars>>

ParkCancelled ==
    /\ pc["writer"] \in {"park", "parkFenced"}
    /\ cancelled
    /\ Goto("writer", "finally")
    /\ UNCHANGED <<stopVars, queueVars, ticketVars, writerVars, receiveVars,
                   historyVars>>

\* CompleteWrite: free the work id, complete the ticket.
CompleteWrite(o) ==
    /\ outcome' = [outcome EXCEPT ![current] = o]
    /\ pendingWorkIds' = IdsWithout(current)
    /\ current' = None
    /\ UNCHANGED <<stopVars, queues, queueDepth, fairScheduleIndex, posting, victim,
                   released, writerWake, attempts, receiveVars, bypass, overtaken>>

\* MaximumQueueDelay has lapsed.
Expire ==
    /\ pc["writer"] = "taken"
    /\ CompleteWrite("expired")
    /\ Goto("writer", "loop")
    /\ UNCHANGED <<activeFence, lastFenced>>

\* Hand the payload to transport.WriteAsync.
Attempt ==
    /\ attempts' = [attempts EXCEPT ![current] = @ + 1]
    /\ overtaken' = IF PriorityOf[current] # Safety /\ queues[Safety] # <<>>
                    THEN overtaken + 1 ELSE overtaken
    /\ Goto("writer", "writing")
    /\ UNCHANGED <<stopVars, queueVars, ticketVars, writerWake, activeFence, current,
                   receiveVars, lastFenced, bypass>>

StartWrite ==
    /\ pc["writer"] = "taken"
    /\ Attempt

\* WriteWithBoundedRetryAsync: one retry, 100 ms later, of a retryable request.
TransientTimeout ==
    /\ pc["writer"] = "writing"
    /\ current \in Retryable
    /\ attempts[current] = 1
    /\ ~cancelled
    /\ Goto("writer", "retryDelay")
    /\ UNCHANGED <<stopVars, queueVars, ticketVars, writerVars, receiveVars,
                   historyVars>>

RetryWrite ==
    /\ pc["writer"] = "retryDelay"
    /\ Attempt

\* The payload is out and writeObserver returned.
WriteSucceeds ==
    /\ pc["writer"] = "writing"
    /\ portOpen
    /\ CompleteWrite("written")
    /\ activeFence' = IF current \in Fenced \ released THEN current ELSE activeFence
    /\ lastFenced' = IF current \in Fenced THEN current ELSE lastFenced
    /\ Goto("writer", "loop")

\* The write, writeStartedObserver or writeObserver threw before cancellation.
WriteFails ==
    /\ "write" \in StopCauses
    /\ pc["writer"] \in {"taken", "writing"}
    /\ ~cancelled
    /\ CompleteWrite("failed")
    /\ Goto("writer", "fault")
    /\ UNCHANGED <<activeFence, lastFenced>>

\* Anything thrown once the lifetime is cancelled counts as a cancelled write,
\* except what writeObserver throws, which is a failure whenever it comes.
WriteCancelled ==
    /\ pc["writer"] \in {"taken", "writing", "retryDelay"}
    /\ cancelled
    /\ CompleteWrite("cancelled")
    /\ Goto("writer", "finally")
    /\ UNCHANGED <<activeFence, lastFenced>>

ObserverFails ==
    /\ "observer" \in StopCauses
    /\ pc["writer"] = "writing"
    /\ portOpen
    /\ CompleteWrite("failed")
    /\ Goto("writer", "fault")
    /\ UNCHANGED <<activeFence, lastFenced>>

\* The tickets CancelQueuedWrites completes.  Mutant: it only clears the queues.
OutcomeNotCancelled == outcome
OutcomeCancelled ==
    [r \in Request |->
       IF \E i \in 1..Len(queues[PriorityOf[r]]) : queues[PriorityOf[r]][i] = r
       THEN "cancelled" ELSE outcome[r]]

\* CancelQueuedWrites, by the writer's finally block and by DisposeAsync.
CancelQueuedWrites ==
    /\ outcome' = OutcomeCancelled
    /\ queues' = [p \in Priority |-> <<>>]
    /\ pendingWorkIds' = {}
    /\ queueDepth' = 0
    /\ bypass' = [p \in Priority |-> 0]
    /\ overtaken' = 0

WriterFinally ==
    /\ pc["writer"] = "finally"
    /\ CancelQueuedWrites
    /\ Goto("writer", "done")
    /\ UNCHANGED <<stopVars, fairScheduleIndex, posting, victim, released,
                   writerVars, receiveVars, lastFenced>>

-----------------------------------------------------------------------------
(* RunReaderAsync and RunDispatcherAsync                                   *)

ReadChunk(c) ==
    /\ pc["reader"] = "read"
    /\ portOpen
    /\ held' = [held EXCEPT !["reader"] = c]
    /\ Goto("reader", "enqueue")
    /\ UNCHANGED <<stopVars, queueVars, ticketVars, writerVars, receiveQueue,
                   receiveCompleted, historyVars>>

\* The bounded channel makes the reader wait while it is full.
EnqueueChunk ==
    /\ pc["reader"] = "enqueue"
    /\ Len(receiveQueue) < ReceiveQueueCapacity
    /\ receiveQueue' = Append(receiveQueue, held["reader"])
    /\ held' = [held EXCEPT !["reader"] = None]
    /\ Goto("reader", "read")
    /\ UNCHANGED <<stopVars, queueVars, ticketVars, writerVars, receiveCompleted,
                   historyVars>>

ReaderCancelled ==
    /\ pc["reader"] \in {"read", "enqueue"}
    /\ cancelled
    /\ held' = [held EXCEPT !["reader"] = None]
    /\ Goto("reader", "finally")
    /\ UNCHANGED <<stopVars, queueVars, ticketVars, writerVars, receiveQueue,
                   receiveCompleted, historyVars>>

\* End of stream or a transport exception, also after cancellation.
ReadFails ==
    /\ "read" \in StopCauses
    /\ pc["reader"] = "read"
    /\ Goto("reader", "fault")
    /\ UNCHANGED <<stopVars, queueVars, ticketVars, writerVars, receiveVars,
                   historyVars>>

ReaderFinally ==
    /\ pc["reader"] = "finally"
    /\ receiveCompleted' = TRUE
    /\ Goto("reader", "done")
    /\ UNCHANGED <<stopVars, queueVars, ticketVars, writerVars, receiveQueue, held,
                   historyVars>>

DispatchChunk ==
    /\ pc["dispatcher"] = "wait"
    /\ receiveQueue # <<>>
    /\ held' = [held EXCEPT !["dispatcher"] = Head(receiveQueue)]
    /\ receiveQueue' = Tail(receiveQueue)
    /\ Goto("dispatcher", "handle")
    /\ UNCHANGED <<stopVars, queueVars, ticketVars, writerVars, receiveCompleted,
                   historyVars>>

HandlerReturns ==
    /\ pc["dispatcher"] = "handle"
    /\ held' = [held EXCEPT !["dispatcher"] = None]
    /\ Goto("dispatcher", "wait")
    /\ UNCHANGED <<stopVars, queueVars, ticketVars, writerVars, receiveQueue,
                   receiveCompleted, historyVars>>

HandlerFails ==
    /\ "handler" \in StopCauses
    /\ pc["dispatcher"] = "handle"
    /\ held' = [held EXCEPT !["dispatcher"] = None]
    /\ Goto("dispatcher", "fault")
    /\ UNCHANGED <<stopVars, queueVars, ticketVars, writerVars, receiveQueue,
                   receiveCompleted, historyVars>>

\* The channel is completed and drained, or waiting or handling is cancelled.
DispatcherEnds ==
    /\ \/ pc["dispatcher"] = "wait" /\ receiveCompleted /\ receiveQueue = <<>>
       \/ pc["dispatcher"] \in {"wait", "handle"} /\ cancelled
    /\ held' = [held EXCEPT !["dispatcher"] = None]
    /\ Goto("dispatcher", "done")
    /\ UNCHANGED <<stopVars, queueVars, ticketVars, writerVars, receiveQueue,
                   receiveCompleted, historyVars>>

-----------------------------------------------------------------------------
(* RecordFaultAndStopAsync and DisposeAsync: refuse, then cancel, then     *)
(* close, in this order.                                                   *)

RecordFault(a) ==
    /\ pc[a] = "fault"
    /\ lastFault' = TRUE
    /\ stopping' = TRUE
    /\ Goto(a, "cancel")
    /\ UNCHANGED <<cancelled, transportClosed, portOpen, transportDisposed,
                   queueVars, ticketVars, writerVars, receiveVars, historyVars>>

BeginDispose ==
    /\ "dispose" \in StopCauses
    /\ pc["disposer"] = "idle"
    /\ stopping' = TRUE
    /\ Goto("disposer", "cancel")
    /\ UNCHANGED <<cancelled, transportClosed, portOpen, lastFault,
                   transportDisposed, queueVars, ticketVars, writerVars,
                   receiveVars, historyVars>>

CancelLifetime(a) ==
    /\ pc[a] = "cancel"
    /\ cancelled' = TRUE
    /\ Goto(a, "close")
    /\ UNCHANGED <<stopping, transportClosed, portOpen, lastFault,
                   transportDisposed, queueVars, ticketVars, writerVars,
                   receiveVars, historyVars>>

AfterClose(a) == CASE a = "reader"     -> "finally"
                   [] a = "dispatcher" -> "done"
                   [] a = "writer"     -> "finally"
                   [] a = "disposer"   -> "await"

\* The first caller closes the transport, which may fail; the rest find it done.
CloseTransportOnce(a) ==
    /\ pc[a] = "close"
    /\ \/ transportClosed /\ UNCHANGED <<transportClosed, portOpen, lastFault>>
       \/ ~transportClosed /\ transportClosed' = TRUE
          /\ portOpen' = FALSE /\ UNCHANGED lastFault
       \/ "close" \in StopCauses /\ ~transportClosed /\ transportClosed' = TRUE
          /\ lastFault' = TRUE /\ UNCHANGED portOpen
    /\ Goto(a, AfterClose(a))
    /\ UNCHANGED <<stopping, cancelled, transportDisposed, queueVars, ticketVars,
                   writerVars, receiveVars, historyVars>>

\* Completion: all three tasks ended.
Completion == \A a \in Runtime : pc[a] = "done"

FinishDispose ==
    /\ pc["disposer"] = "await"
    /\ Completion
    /\ CancelQueuedWrites
    /\ transportDisposed' = TRUE
    /\ portOpen' = FALSE
    /\ Goto("disposer", "done")
    /\ UNCHANGED <<stopping, cancelled, transportClosed, lastFault,
                   fairScheduleIndex, posting, victim, released, writerVars,
                   receiveVars, lastFenced>>

-----------------------------------------------------------------------------
QueueWrite(r) ==
    \/ RejectWrite(r)
    \/ AcceptWrite(r)
    \/ \E p \in Priority : SupersedeWrite(r, p)

Writer ==
    \/ WriterStopsAtLoop \/ TakeSafety \/ TakeFair \/ TakeNothing
    \/ DrainWake \/ CheckEligible \/ Woken \/ FenceReleaseSeen \/ ParkCancelled
    \/ Expire \/ StartWrite \/ TransientTimeout \/ RetryWrite
    \/ WriteSucceeds \/ WriteFails \/ WriteCancelled \/ ObserverFails
    \/ WriterFinally

Stop(a) == RecordFault(a) \/ CancelLifetime(a) \/ CloseTransportOnce(a)

Reader ==
    \/ \E c \in Chunk : ReadChunk(c)
    \/ EnqueueChunk \/ ReaderCancelled \/ ReadFails \/ ReaderFinally

Dispatcher == DispatchChunk \/ HandlerReturns \/ HandlerFails \/ DispatcherEnds

Next ==
    \/ \E r \in Request : QueueWrite(r) \/ FinishQueueWrite(r) \/ ReleaseFence(r)
    \/ Writer \/ Reader \/ Dispatcher
    \/ \E a \in Actor : Stop(a)
    \/ BeginDispose \/ FinishDispose

Spec == Init /\ [][Next]_vars

-----------------------------------------------------------------------------
(* Properties                                                              *)

Queued(r) == \E i \in 1..Len(queues[PriorityOf[r]]) : queues[PriorityOf[r]][i] = r
Superseding(r) == \E q \in posting : victim[q] = r
InHand(r) == Queued(r) \/ current = r

\* queueDepth, kept by hand on five paths, is the number of queued writes, and
\* pendingWorkIds, edited by callers and by the writer, holds exactly the ids of
\* the writes queued or in the writer's hand, no two of which share one.
QueueAccounting ==
    /\ queueDepth = Len(queues[Safety]) + Len(queues[Interactive])
                      + Len(queues[Telemetry]) + Len(queues[Background])
    /\ \A w \in WorkId : w \in pendingWorkIds <=>
                           \E r \in Request : InHand(r) /\ WorkIdOf[r] = w
    /\ \A r, q \in Request :
         InHand(r) /\ InHand(q) /\ WorkIdOf[r] = WorkIdOf[q] => r = q

\* A ticket is pending exactly while somebody will complete it: it is queued, the
\* writer has it, or the caller that superseded it is still inside QueueWrite.
\* No interleaving of admission, eviction, faults and disposal loses a ticket.
NoOrphanTicket ==
    \A r \in Request :
      outcome[r] = "pending" <=> InHand(r) \/ Superseding(r)

\* Once RunWriterAsync has run its finally block nothing is queued, and nothing
\* can be queued any more: no write is accepted that nobody will complete.
QuiescentAfterWriter ==
    pc["writer"] = "done" =>
      /\ stopping
      /\ current = None
      /\ \A p \in Priority : queues[p] = <<>>

\* Non-safety work never fills the slots reserved for safety work.
SafetyReserve ==
    Len(queues[Interactive]) + Len(queues[Telemetry]) + Len(queues[Background])
      <= WriteQueueCapacity - ReservedSafetySlots

\* A safety write is refused for lack of room only if the whole queue is safety
\* work already: lower priorities give way first.
SafetyAdmissionStep ==
    \A r \in Request :
      /\ PriorityOf[r] = Safety
      /\ outcome'[r] = "rejected" /\ outcome[r] # "rejected"
      /\ ~stopping /\ WorkIdOf[r] \notin pendingWorkIds
      => Len(queues[Safety]) >= WriteQueueCapacity
SafetyAdmission == [][SafetyAdmissionStep]_vars

\* After a fenced payload is written, the writer takes no non-safety work until
\* that fence is released or another fenced payload is written, whatever unfenced
\* safety work comes in between.
FenceRespectedStep ==
    current = None /\ current' # None /\ PriorityOf[current'] # Safety
      => lastFenced = None \/ lastFenced \in released
FenceRespected == [][FenceRespectedStep]_vars

MaxBypass == [p \in Priority |-> CASE p = Safety      -> 0
                                   [] p = Interactive -> 1
                                   [] p = Telemetry   -> 5
                                   [] OTHER           -> 7]

\* The fair schedule serves a waiting telemetry write after at most five other
\* non-safety writes, a background write after seven, an interactive one after one.
BoundedBypass == \A p \in Priority : bypass[p] <= MaxBypass[p]

\* A payload is handed to the transport once, or twice if it may be retried.
RetryBound ==
    \A r \in Request : attempts[r] <= IF r \in Retryable THEN 2 ELSE 1

\* Queued safety work waits for the write in hand and its one retry, never for a
\* write that was not yet taken when the safety work was queued.
SafetyLatency == overtaken <= 2

\* The transport is disposed only after all three tasks ended, so no task can
\* touch it, and then no ticket is left for the scheduler to complete.
DisposedLast ==
    transportDisposed =>
      /\ \A a \in Runtime : pc[a] = "done"
      /\ \A r \in Request : outcome[r] = "pending" => Superseding(r)

-----------------------------------------------------------------------------
(* Refinement.  A superseded write counts as superseded from the moment it *)
(* leaves its queue, though its ticket is completed after the lock.        *)

TicketOf == [r \in Request |-> IF Superseding(r) THEN "superseded" ELSE outcome[r]]
ServiceState == IF ~stopping THEN "open"
                ELSE IF pc["writer"] = "done" THEN "stopped" ELSE "stopping"

Tickets == INSTANCE WriteTickets WITH ticket <- TicketOf, service <- ServiceState

\* The scheduler implements the ticket service: every interleaving of callers,
\* writer, faults and disposal completes an accepted ticket exactly once, accepts
\* nothing after it began to stop, and leaves no open ticket when it has stopped.
ImplementsTickets == Tickets!Spec

-----------------------------------------------------------------------------
(* Liveness.  Each task keeps running, a transport call returns, a caller  *)
(* inside QueueWrite comes out.  Nothing is assumed of the device (ReadChunk *)
(* has no fairness) or of callers yet to come.                             *)

Fairness ==
    /\ WF_vars(Writer)
    /\ WF_vars(EnqueueChunk \/ ReaderCancelled \/ ReaderFinally)
    /\ WF_vars(Dispatcher)
    /\ \A a \in Actor : WF_vars(Stop(a))
    /\ \A r \in Request : WF_vars(FinishQueueWrite(r))
    /\ WF_vars(FinishDispose)

LiveSpec == Spec /\ Fairness

\* The adapter's finally block releases the fence of every request it queued.
FenceLiveSpec == LiveSpec /\ \A r \in Fenced : WF_vars(ReleaseFence(r))

\* A safety write is completed even if no response fence is ever released.
SafetyCompletes ==
    \A r \in Request : PriorityOf[r] = Safety =>
      (outcome[r] = "pending" ~> outcome[r] # "pending")

\* Once safety work stops coming, every ticket is completed, however much other
\* work of any priority keeps coming.
TicketCompletes ==
    <>[](queues[Safety] = <<>>) =>
      \A r \in Request : outcome[r] = "pending" ~> outcome[r] # "pending"

\* A fault of any task ends all three, and DisposeAsync returns, even with the
\* reader blocked on a full receive queue.
StopTerminates ==
    /\ stopping ~> \A a \in Runtime : pc[a] = "done"
    /\ pc["disposer"] # "idle" ~> transportDisposed
=============================================================================
