------------------------ MODULE SerialSchedulerProofs ------------------------
(***************************************************************************)
(* Theorems about SerialScheduler, for every set of requests, every queue  *)
(* capacity and every assignment of priorities, work ids and fences.       *)
(***************************************************************************)
EXTENDS SerialScheduler, SequenceTheorems, TLAPS

-----------------------------------------------------------------------------
(* Facts about the operators                                               *)

\* Control stays among the labels of its task.
LEMMA GotoType ==
  ASSUME PcType, NEW a \in Actor, NEW l \in PcOf(a), Goto(a, l)
  PROVE  PcType'
  BY DEF PcType, Goto, Pc

\* The labels the writer jumps to.
LEMMA WriterLabels ==
  \A l \in {"loop", "drain", "check", "park", "parkFenced", "taken", "writing",
            "retryDelay", "finally", "done", "fault"} : l \in PcOf("writer")
  BY DEF PcOf, StopPc

\* The schedule names non-safety priorities only.
LEMMA FairSlotType ==
  \A i \in Nat : FairSlot(i) \in Priority /\ FairSlot(i) # Safety
  <1> SUFFICES ASSUME NEW i \in Nat PROVE FairSlot(i) \in Priority /\ FairSlot(i) # Safety
    OBVIOUS
  <1>1. i % 8 \in 0..7
    OBVIOUS
  <1> QED
    BY <1>1 DEF FairSlot, FairSchedule, FairLength, Priority, Safety, Interactive,
                Telemetry, Background

\* The fair index stays inside the schedule.
LEMMA FairIndexType ==
  \A i \in 0..7, k \in 0..7 : NextFairIndex(i, k) \in 0..7
  BY DEF NextFairIndex, FairLength

\* What a non-empty queue loses when its first write is taken or evicted.
LEMMA QueueHead ==
  ASSUME QueueType, NEW p \in Priority, queues[p] # <<>>
  PROVE  /\ Head(queues[p]) \in Request
         /\ Head(queues[p]) = queues[p][1]
         /\ Len(queues[p]) \in Nat \ {0}
         /\ Tail(queues[p]) \in Seq(Request)
         /\ Len(Tail(queues[p])) = Len(queues[p]) - 1
         /\ \A i \in 1..Len(Tail(queues[p])) : Tail(queues[p])[i] = queues[p][i + 1]
  <1>1. queues[p] \in Seq(Request)
    BY DEF QueueType
  <1>2. Len(queues[p]) \in Nat \ {0}
    BY <1>1, EmptySeq
  <1>3. Head(queues[p]) = queues[p][1]
    BY <1>1
  <1> QED
    BY <1>1, <1>2, <1>3, HeadTailProperties

-----------------------------------------------------------------------------
(* Type correctness                                                        *)

\* Initially every variable has its type.
LEMMA TypeInit == Init => TypeOK
  <1> SUFFICES ASSUME Init PROVE TypeOK
    OBVIOUS
  <1>1. PcType
    BY DEF Init, Actor, PcOf, StopPc, Pc, PcType
  <1>2. StopType
    BY Zenon DEF Init, StopType
  <1>3. QueueType
    BY EmptySeq DEF Init, QueueType, FairLength
  <1>5. ReceiveType
    BY EmptySeq DEF Init, ReceiveType
  <1>4. TicketType /\ WriterType /\ HistoryType
    BY DEF Init, TicketType, WriterType, HistoryType, Outcome
  <1> QED
    BY <1>1, <1>2, <1>3, <1>4, <1>5 DEF TypeOK

\* A group of variables that does not change keeps its type.
LEMMA TypeFrame ==
  ASSUME TypeOK
  PROVE  /\ UNCHANGED stopVars => StopType'
         /\ UNCHANGED queueVars => QueueType'
         /\ UNCHANGED ticketVars => TicketType'
         /\ UNCHANGED writerVars => WriterType'
         /\ UNCHANGED receiveVars => ReceiveType'
         /\ UNCHANGED pc => PcType'
         /\ UNCHANGED historyVars => HistoryType'
  BY DEF TypeOK, StopType, QueueType, TicketType, WriterType, ReceiveType, PcType,
         HistoryType, stopVars, queueVars, ticketVars, writerVars, receiveVars,
         historyVars

\* QueueWrite and ReleaseFence keep the types.
LEMMA TypeQueue ==
  ASSUME TypeOK, NEW r \in Request,
         QueueWrite(r) \/ FinishQueueWrite(r) \/ ReleaseFence(r)
  PROVE  TypeOK'
  <1>1. CASE RejectWrite(r)
    <2>1. TicketType' /\ HistoryType'
      BY <1>1, RequestAssumption DEF RejectWrite, TypeOK, TicketType, HistoryType, Outcome
    <2> QED
      BY <1>1, <2>1, TypeFrame DEF RejectWrite, TypeOK
  <1>2. ASSUME Enlist(r), UNCHANGED bypass \/ bypass' \in [Priority -> Nat],
               victim' \in [Request -> Request \union {None}], QueueType'
        PROVE  TypeOK'
    <2>1. TicketType' /\ WriterType' /\ HistoryType'
      BY <1>2, RequestAssumption
      DEF Enlist, TypeOK, TicketType, WriterType, HistoryType, Outcome
    <2> QED
      BY <1>2, <2>1, TypeFrame DEF Enlist, TypeOK
  <1>3. CASE AcceptWrite(r)
    <2>1. QueueType'
      BY <1>3, RequestAssumption DEF AcceptWrite, Enlist, TypeOK, QueueType
    <2>2. victim' \in [Request -> Request \union {None}]
      BY <1>3 DEF AcceptWrite, TypeOK, TicketType
    <2> QED
      BY <1>2, <1>3, <2>1, <2>2 DEF AcceptWrite
  <1>4. ASSUME NEW p \in Priority, SupersedeWrite(r, p) PROVE TypeOK'
    <2>1. Head(queues[p]) \in Request /\ Tail(queues[p]) \in Seq(Request)
      BY <1>4, QueueHead DEF SupersedeWrite, Evictable, TypeOK
    <2>2. Append(queues[Safety], r) \in Seq(Request)
      BY DEF Safety, Priority, TypeOK, QueueType
    <2>3. queues' \in [Priority -> Seq(Request)]
      BY <1>4, <2>1, <2>2 DEF SupersedeWrite, TypeOK, QueueType
    <2>4. pendingWorkIds' \subseteq WorkId
      BY <1>4, RequestAssumption DEF SupersedeWrite, IdsWithout, TypeOK, QueueType
    <2>5. QueueType'
      BY <1>4, <2>3, <2>4 DEF SupersedeWrite, Enlist, TypeOK, QueueType
    <2>6. victim' \in [Request -> Request \union {None}]
      BY <1>4, <2>1 DEF SupersedeWrite, TypeOK, TicketType
    <2>7. bypass' \in [Priority -> Nat]
      BY <1>4 DEF SupersedeWrite, TypeOK, HistoryType
    <2> QED
      BY <1>2, <1>4, <2>5, <2>6, <2>7 DEF SupersedeWrite
  <1>5. CASE FinishQueueWrite(r)
    <2>1. TicketType'
      BY <1>5 DEF FinishQueueWrite, OutcomeWithVictim, TypeOK, TicketType, Outcome
    <2>2. WriterType'
      BY <1>5 DEF FinishQueueWrite, TypeOK, WriterType
    <2> QED
      BY <1>5, <2>1, <2>2, TypeFrame DEF FinishQueueWrite, TypeOK
  <1>6. CASE ReleaseFence(r)
    <2>1. TicketType'
      BY <1>6 DEF ReleaseFence, TypeOK, TicketType
    <2> QED
      BY <1>6, <2>1, TypeFrame DEF ReleaseFence, TypeOK
  <1> QED
    BY <1>1, <1>3, <1>4, <1>5, <1>6 DEF QueueWrite

\* The writer keeps the types.
LEMMA TypeWriter == ASSUME TypeOK, Writer PROVE TypeOK'
  <1>p. ASSUME NEW l \in {"loop", "drain", "check", "park", "parkFenced", "taken",
                          "writing", "retryDelay", "finally", "done", "fault"},
               Goto("writer", l)
        PROVE  PcType'
    BY <1>p, GotoType, WriterLabels DEF Actor, TypeOK
  <1>1. CASE WriterStopsAtLoop \/ ParkCancelled \/ TransientTimeout
    BY <1>1, <1>p, TypeFrame
    DEF WriterStopsAtLoop, ParkCancelled, TransientTimeout, TypeOK
  <1>2. ASSUME NEW p \in Priority, queues[p] # <<>>, Take(p),
               fairScheduleIndex' \in 0..(FairLength - 1),
               bypass' \in [Priority -> Nat], overtaken' \in Nat
        PROVE  TypeOK'
    <2>1. Head(queues[p]) \in Request /\ Tail(queues[p]) \in Seq(Request)
      BY <1>2, QueueHead DEF TypeOK
    <2>2. queues' \in [Priority -> Seq(Request)]
      BY <1>2, <2>1 DEF Take, TypeOK, QueueType
    <2>3. QueueType' /\ HistoryType'
      BY <1>2, <2>2 DEF Take, TypeOK, QueueType, HistoryType
    <2>4. WriterType'
      BY <1>2, <2>1 DEF Take, FenceInForce, TypeOK, WriterType
    <2>5. PcType'
      BY <1>2, <1>p DEF Take
    <2> QED
      BY <1>2, <2>3, <2>4, <2>5, TypeFrame DEF Take, TypeOK
  <1>3. CASE TakeSafety
    BY <1>2, <1>3 DEF TakeSafety, Safety, Priority, TypeOK, QueueType, HistoryType
  <1>4. CASE TakeFair
    <2> PICK k \in 0..(FairLength - 1) :
          LET p == FairSlot(fairScheduleIndex + k) IN
          /\ FairTurn(k) /\ Take(p)
          /\ fairScheduleIndex' = NextFairIndex(fairScheduleIndex, k)
          /\ bypass' = [q \in Priority |->
                         IF q = p \/ queues[q] = <<>> THEN 0
                         ELSE IF bypass[q] < BypassCap THEN bypass[q] + 1
                         ELSE bypass[q]]
      BY <1>4 DEF TakeFair
    <2>1. fairScheduleIndex \in 0..7 /\ k \in 0..7
      BY DEF TypeOK, QueueType, FairLength
    <2>2. fairScheduleIndex' \in 0..(FairLength - 1)
      BY <2>1, FairIndexType DEF FairLength
    <2>3. FairSlot(fairScheduleIndex + k) \in Priority
      BY <2>1, FairSlotType
    <2>4. bypass' \in [Priority -> Nat] /\ overtaken' \in Nat
      BY <1>4 DEF TakeFair, TypeOK, HistoryType
    <2> QED
      BY <1>2, <2>2, <2>3, <2>4 DEF FairTurn
  <1>5. CASE TakeNothing \/ DrainWake \/ CheckEligible \/ Woken \/ FenceReleaseSeen
    <2>1. WriterType'
      BY <1>5 DEF TakeNothing, DrainWake, CheckEligible, Woken, FenceReleaseSeen,
                  FenceInForce, TypeOK, WriterType
    <2>2. PcType'
      BY <1>5, <1>p DEF TakeNothing, DrainWake, CheckEligible, Woken, FenceReleaseSeen
    <2> QED
      BY <1>5, <2>1, <2>2, TypeFrame
      DEF TakeNothing, DrainWake, CheckEligible, Woken, FenceReleaseSeen, TypeOK
  <1>6. ASSUME NEW o \in Outcome, CompleteWrite(o), PcType',
               activeFence' \in Fenced \union {None},
               lastFenced' \in Fenced \union {None}
        PROVE  TypeOK'
    <2>1. QueueType' /\ TicketType' /\ WriterType' /\ HistoryType'
      BY <1>6 DEF CompleteWrite, IdsWithout, TypeOK, QueueType, TicketType, WriterType,
                  HistoryType
    <2> QED
      BY <1>6, <2>1, TypeFrame DEF CompleteWrite, TypeOK
  <1>7. CASE Expire \/ WriteFails \/ WriteCancelled \/ ObserverFails \/ WriteSucceeds
    <2>1. PcType'
      BY <1>7, <1>p DEF Expire, WriteFails, WriteCancelled, ObserverFails, WriteSucceeds
    <2>2. /\ activeFence' \in Fenced \union {None}
          /\ lastFenced' \in Fenced \union {None}
      BY <1>7 DEF Expire, WriteFails, WriteCancelled, ObserverFails, WriteSucceeds,
                  TypeOK, WriterType, HistoryType
    <2> QED
      BY <1>6, <1>7, <2>1, <2>2
      DEF Expire, WriteFails, WriteCancelled, ObserverFails, WriteSucceeds, Outcome
  <1>8. CASE StartWrite \/ RetryWrite
    <2>1. WriterType' /\ HistoryType'
      BY <1>8 DEF StartWrite, RetryWrite, Attempt, TypeOK, WriterType, HistoryType
    <2>2. PcType'
      BY <1>8, <1>p DEF StartWrite, RetryWrite, Attempt
    <2> QED
      BY <1>8, <2>1, <2>2, TypeFrame DEF StartWrite, RetryWrite, Attempt, TypeOK
  <1>9. CASE WriterFinally
    <2>1. QueueType' /\ TicketType' /\ HistoryType'
      BY <1>9, EmptySeq DEF WriterFinally, CancelQueuedWrites, OutcomeCancelled, TypeOK,
                            QueueType, TicketType, HistoryType, Outcome
    <2>2. PcType'
      BY <1>9, <1>p DEF WriterFinally
    <2> QED
      BY <1>9, <2>1, <2>2, TypeFrame DEF WriterFinally, TypeOK
  <1> QED
    BY <1>1, <1>3, <1>4, <1>5, <1>7, <1>8, <1>9 DEF Writer

\* The reader and the dispatcher keep the types.
LEMMA TypeReceive == ASSUME TypeOK, Reader \/ Dispatcher PROVE TypeOK'
  <1>p. /\ \A l \in {"read", "enqueue", "finally", "done", "fault"} :
             Goto("reader", l) => PcType'
        /\ \A l \in {"wait", "handle", "done", "fault"} :
             Goto("dispatcher", l) => PcType'
    <2>1. /\ \A l \in {"read", "enqueue", "finally", "done", "fault"} : l \in PcOf("reader")
          /\ \A l \in {"wait", "handle", "done", "fault"} : l \in PcOf("dispatcher")
      BY DEF PcOf, StopPc
    <2> QED
      BY <2>1, GotoType DEF Actor, TypeOK
  <1>1. CASE \E c \in Chunk : ReadChunk(c)
    BY <1>1, <1>p, TypeFrame DEF ReadChunk, TypeOK, ReceiveType
  <1>2. CASE EnqueueChunk
    BY <1>2, <1>p, TypeFrame DEF EnqueueChunk, TypeOK, ReceiveType
  <1>3. CASE ReaderCancelled \/ ReadFails \/ ReaderFinally
    BY <1>3, <1>p, TypeFrame
    DEF ReaderCancelled, ReadFails, ReaderFinally, TypeOK, ReceiveType
  <1>4. CASE DispatchChunk
    <2>1. /\ Head(receiveQueue) \in Chunk \union {None}
          /\ Tail(receiveQueue) \in Seq(Chunk \union {None})
      BY <1>4, HeadTailProperties DEF DispatchChunk, TypeOK, ReceiveType
    <2> QED
      BY <1>4, <1>p, <2>1, TypeFrame DEF DispatchChunk, TypeOK, ReceiveType
  <1>5. CASE HandlerReturns \/ HandlerFails \/ DispatcherEnds
    BY <1>5, <1>p, TypeFrame
    DEF HandlerReturns, HandlerFails, DispatcherEnds, TypeOK, ReceiveType
  <1> QED
    BY <1>1, <1>2, <1>3, <1>4, <1>5 DEF Reader, Dispatcher

\* The stop sequence keeps the types.
LEMMA TypeStop ==
  ASSUME TypeOK, (\E a \in Actor : Stop(a)) \/ BeginDispose \/ FinishDispose
  PROVE  TypeOK'
  <1>p. /\ \A a \in Actor : \A l \in {"cancel", "close", AfterClose(a)} :
             Goto(a, l) => PcType'
        /\ Goto("disposer", "done") => PcType'
    <2>1. \A a \in Actor : \A l \in {"cancel", "close", AfterClose(a)} : l \in PcOf(a)
      BY DEF PcOf, StopPc, AfterClose, Actor
    <2>2. "done" \in PcOf("disposer") /\ "disposer" \in Actor
      BY DEF PcOf, StopPc, Actor
    <2> QED
      BY <2>1, <2>2, GotoType DEF TypeOK
  <1>1. ASSUME NEW a \in Actor, Stop(a) PROVE TypeOK'
    <2>1. StopType'
      BY <1>1, Zenon DEF Stop, RecordFault, CancelLifetime, CloseTransportOnce, TypeOK, StopType
    <2>2. PcType'
      BY <1>1, <1>p DEF Stop, RecordFault, CancelLifetime, CloseTransportOnce
    <2> QED
      BY <1>1, <2>1, <2>2, TypeFrame
      DEF Stop, RecordFault, CancelLifetime, CloseTransportOnce, TypeOK
  <1>2. CASE BeginDispose
    <2>1. StopType'
      BY <1>2, Zenon DEF BeginDispose, TypeOK, StopType
    <2>2. PcType'
      BY <1>2, <1>p DEF BeginDispose, Actor
    <2> QED
      BY <1>2, <2>1, <2>2, TypeFrame DEF BeginDispose, TypeOK
  <1>3. CASE FinishDispose
    <2>1. StopType'
      BY <1>3, Zenon DEF FinishDispose, TypeOK, StopType
    <2>2. QueueType' /\ TicketType' /\ HistoryType'
      BY <1>3, EmptySeq DEF FinishDispose, CancelQueuedWrites, OutcomeCancelled, TypeOK,
                            QueueType, TicketType, HistoryType, Outcome
    <2> QED
      BY <1>3, <1>p, <2>1, <2>2, TypeFrame DEF FinishDispose, TypeOK
  <1> QED
    BY <1>1, <1>2, <1>3

\* Every step keeps the types.
LEMMA TypeStep == TypeOK /\ [Next]_vars => TypeOK'
  <1> SUFFICES ASSUME TypeOK, [Next]_vars PROVE TypeOK'
    OBVIOUS
  <1>1. CASE UNCHANGED vars
    BY <1>1, TypeFrame DEF vars, TypeOK
  <1>2. CASE Next
    BY <1>2, TypeQueue, TypeWriter, TypeReceive, TypeStop DEF Next
  <1> QED
    BY <1>1, <1>2

\* Type correctness of the scheduler, the fair index and the control labels included.
THEOREM TypeCorrect == Spec => []TypeOK
  BY TypeInit, TypeStep, PTL DEF Spec

-----------------------------------------------------------------------------
(* The queues as sets of requests                                          *)

InQueues(q, r) == \E i \in 1..Len(q[PriorityOf[r]]) : q[PriorityOf[r]][i] = r

\* Every queued request is in the queue of its priority, once.
WellFiled(q) ==
    /\ \A p \in Priority : \A i \in 1..Len(q[p]) : PriorityOf[q[p][i]] = p
    /\ \A p \in Priority : \A i, j \in 1..Len(q[p]) : q[p][i] = q[p][j] => i = j

Total(q) == Len(q[Safety]) + Len(q[Interactive]) + Len(q[Telemetry]) + Len(q[Background])
NonSafetyTotal(q) == Len(q[Interactive]) + Len(q[Telemetry]) + Len(q[Background])

\* n is q with the length of queue p changed by k.
Resized(q, n, p, k) ==
    /\ \A o \in Priority : Len(q[o]) \in Nat
    /\ \A o \in Priority : Len(n[o]) = IF o = p THEN Len(q[o]) + k ELSE Len(q[o])

\* Changing the length of one queue by k changes the totals by k.
LEMMA TotalChange ==
  ASSUME NEW q, NEW n, NEW p \in Priority, NEW k \in Int, Resized(q, n, p, k)
  PROVE  /\ Total(n) = Total(q) + k
         /\ NonSafetyTotal(n) = IF p = Safety THEN NonSafetyTotal(q)
                                ELSE NonSafetyTotal(q) + k
  <1> DEFINE a == Len(q[Safety])
             b == Len(q[Interactive])
             c == Len(q[Telemetry])
             d == Len(q[Background])
  <1> USE DEF Priority, Safety, Interactive, Telemetry, Background
  <1>1. a \in Int /\ b \in Int /\ c \in Int /\ d \in Int
    BY DEF Resized
  <1>2. Total(q) = a + b + c + d /\ NonSafetyTotal(q) = b + c + d
    BY DEF Total, NonSafetyTotal
  <1>3. \/ p = 0 /\ Total(n) = (a + k) + b + c + d /\ NonSafetyTotal(n) = b + c + d
        \/ p = 1 /\ Total(n) = a + (b + k) + c + d /\ NonSafetyTotal(n) = (b + k) + c + d
        \/ p = 2 /\ Total(n) = a + b + (c + k) + d /\ NonSafetyTotal(n) = b + (c + k) + d
        \/ p = 3 /\ Total(n) = a + b + c + (d + k) /\ NonSafetyTotal(n) = b + c + (d + k)
    <2>1. /\ Len(n[0]) = IF p = 0 THEN a + k ELSE a
          /\ Len(n[1]) = IF p = 1 THEN b + k ELSE b
          /\ Len(n[2]) = IF p = 2 THEN c + k ELSE c
          /\ Len(n[3]) = IF p = 3 THEN d + k ELSE d
      BY DEF Resized
    <2>2. p = 0 \/ p = 1 \/ p = 2 \/ p = 3
      OBVIOUS
    <2> HIDE DEF a, b, c, d
    <2> QED
      BY <2>1, <2>2 DEF Total, NonSafetyTotal
  <1> HIDE DEF a, b, c, d
  <1> QED
    BY <1>1, <1>2, <1>3

\* Empty queues hold nothing.
LEMMA EmptyTotal ==
  ASSUME NEW q, \A p \in Priority : q[p] = <<>>
  PROVE  Total(q) = 0 /\ NonSafetyTotal(q) = 0 /\ \A r \in Request : ~InQueues(q, r)
  <1>1. \A p \in Priority : Len(q[p]) = 0
    OBVIOUS
  <1>2. /\ Len(q[Safety]) = 0 /\ Len(q[Interactive]) = 0
        /\ Len(q[Telemetry]) = 0 /\ Len(q[Background]) = 0
    BY <1>1 DEF Priority, Safety, Interactive, Telemetry, Background
  <1>3. \A r \in Request : ~InQueues(q, r)
    BY <1>1, RequestAssumption DEF InQueues
  <1> QED
    BY <1>2, <1>3 DEF Total, NonSafetyTotal

\* The total splits into safety and other work.
LEMMA TotalBound ==
  ASSUME NEW q \in [Priority -> Seq(Request)]
  PROVE  /\ Total(q) \in Nat /\ NonSafetyTotal(q) \in Nat
         /\ Total(q) = Len(q[Safety]) + NonSafetyTotal(q)
         /\ NonSafetyTotal(q) <= Total(q)
  <1> DEFINE a == Len(q[Safety])
             b == Len(q[Interactive])
             c == Len(q[Telemetry])
             d == Len(q[Background])
  <1>1. a \in Nat /\ b \in Nat /\ c \in Nat /\ d \in Nat
    BY LenProperties DEF Priority, Safety, Interactive, Telemetry, Background
  <1>2. Total(q) = a + b + c + d /\ NonSafetyTotal(q) = b + c + d
    BY DEF Total, NonSafetyTotal
  <1> HIDE DEF a, b, c, d
  <1>3. /\ Total(q) \in Nat /\ NonSafetyTotal(q) \in Nat
        /\ Total(q) = a + NonSafetyTotal(q)
        /\ NonSafetyTotal(q) <= Total(q)
    BY <1>1, <1>2
  <1> QED
    BY <1>3 DEF a

\* AddLast: one more request is queued, in the queue of its priority.
LEMMA AppendFiled ==
  ASSUME NEW q \in [Priority -> Seq(Request)], WellFiled(q), NEW r \in Request,
         ~InQueues(q, r)
  PROVE  LET n == [q EXCEPT ![PriorityOf[r]] = Append(@, r)] IN
         /\ n \in [Priority -> Seq(Request)]
         /\ WellFiled(n)
         /\ \A x \in Request : InQueues(n, x) <=> InQueues(q, x) \/ x = r
         /\ Total(n) = Total(q) + 1
         /\ NonSafetyTotal(n) = IF PriorityOf[r] = Safety THEN NonSafetyTotal(q)
                                ELSE NonSafetyTotal(q) + 1
         /\ \A p \in Priority : p # PriorityOf[r] => n[p] = q[p]
  <1> DEFINE pr == PriorityOf[r]
             n == [q EXCEPT ![pr] = Append(@, r)]
  <1>1. pr \in Priority /\ q[pr] \in Seq(Request)
    BY RequestAssumption
  <1>2. /\ n \in [Priority -> Seq(Request)]
        /\ n[pr] = Append(q[pr], r)
        /\ \A p \in Priority : p # pr => n[p] = q[p]
    BY <1>1
  <1>3. /\ Len(n[pr]) = Len(q[pr]) + 1
        /\ \A i \in 1..Len(q[pr]) : n[pr][i] = q[pr][i]
        /\ n[pr][Len(q[pr]) + 1] = r
        /\ Len(q[pr]) \in Nat
    BY <1>1, <1>2, AppendProperties, LenProperties
  <1> HIDE DEF n
  <1>4. \A i \in 1..Len(q[pr]) : q[pr][i] # r
    BY <1>1 DEF InQueues
  <1>5. \A i \in 1..Len(n[pr]) : i \in 1..Len(q[pr]) \/ i = Len(q[pr]) + 1
    BY <1>3
  <1>6. WellFiled(n)
    <2>1. ASSUME NEW p \in Priority, NEW i \in 1..Len(n[p])
          PROVE  PriorityOf[n[p][i]] = p
      <3>1. CASE p # pr
        BY <1>2, <3>1 DEF WellFiled
      <3>2. CASE p = pr /\ i \in 1..Len(q[pr])
        BY <1>1, <1>3, <3>2 DEF WellFiled
      <3>3. CASE p = pr /\ i = Len(q[pr]) + 1
        BY <1>3, <3>3
      <3> QED
        BY <1>5, <3>1, <3>2, <3>3
    <2>2. ASSUME NEW p \in Priority, NEW i \in 1..Len(n[p]), NEW j \in 1..Len(n[p]),
                 n[p][i] = n[p][j]
          PROVE  i = j
      <3>1. CASE p # pr
        BY <1>2, <2>2, <3>1 DEF WellFiled
      <3>2. CASE p = pr /\ i \in 1..Len(q[pr]) /\ j \in 1..Len(q[pr])
        BY <1>1, <1>3, <2>2, <3>2 DEF WellFiled
      <3>3. CASE p = pr /\ (i = Len(q[pr]) + 1 \/ j = Len(q[pr]) + 1)
        BY <1>3, <1>4, <1>5, <2>2, <3>3
      <3> QED
        BY <1>5, <3>1, <3>2, <3>3
    <2> QED
      BY <2>1, <2>2 DEF WellFiled
  <1>7. ASSUME NEW x \in Request
        PROVE  InQueues(n, x) <=> InQueues(q, x) \/ x = r
    <2>0. PriorityOf[x] \in Priority
      BY RequestAssumption
    <2>1. CASE PriorityOf[x] # pr
      BY <1>2, <2>0, <2>1 DEF InQueues
    <2>2. CASE PriorityOf[x] = pr
      <3>1. InQueues(n, x) => InQueues(q, x) \/ x = r
        BY <1>3, <1>5, <2>2 DEF InQueues
      <3>2. InQueues(q, x) => InQueues(n, x)
        BY <1>3, <2>2 DEF InQueues
      <3>3. x = r => InQueues(n, x)
        BY <1>3 DEF InQueues
      <3> QED
        BY <3>1, <3>2, <3>3
    <2> QED
      BY <2>1, <2>2
  <1>8. \A p \in Priority : Len(q[p]) \in Nat
    BY LenProperties
  <1>9. /\ Total(n) = Total(q) + 1
        /\ NonSafetyTotal(n) = IF pr = Safety THEN NonSafetyTotal(q)
                               ELSE NonSafetyTotal(q) + 1
    <2>1. \A p \in Priority : Len(n[p]) = IF p = pr THEN Len(q[p]) + 1 ELSE Len(q[p])
      BY <1>2, <1>3
    <2>2. Resized(q, n, pr, 1)
      BY <1>8, <2>1 DEF Resized
    <2> HIDE DEF pr
    <2> QED
      BY <1>1, <2>2, TotalChange
  <1> QED
    BY <1>2, <1>6, <1>7, <1>9 DEF n

\* RemoveFirst: the head of one queue is queued no more.
LEMMA RemoveFiled ==
  ASSUME NEW q \in [Priority -> Seq(Request)], WellFiled(q), NEW p \in Priority,
         q[p] # <<>>
  PROVE  LET n == [q EXCEPT ![p] = Tail(@)]
             h == Head(q[p]) IN
         /\ n \in [Priority -> Seq(Request)]
         /\ WellFiled(n)
         /\ h \in Request /\ PriorityOf[h] = p /\ InQueues(q, h)
         /\ \A x \in Request : InQueues(n, x) <=> InQueues(q, x) /\ x # h
         /\ Total(n) = Total(q) - 1
         /\ NonSafetyTotal(n) = IF p = Safety THEN NonSafetyTotal(q)
                                ELSE NonSafetyTotal(q) - 1
         /\ \A o \in Priority : o # p => n[o] = q[o]
  <1> DEFINE n == [q EXCEPT ![p] = Tail(@)]
             h == Head(q[p])
  <1>1. q[p] \in Seq(Request) /\ Len(q[p]) \in Nat \ {0}
    BY EmptySeq
  <1>2. /\ h \in Request /\ h = q[p][1]
        /\ Tail(q[p]) \in Seq(Request)
        /\ Len(Tail(q[p])) = Len(q[p]) - 1
        /\ \A i \in 1..Len(Tail(q[p])) : Tail(q[p])[i] = q[p][i + 1]
    BY <1>1, HeadTailProperties
  <1>3. /\ n \in [Priority -> Seq(Request)]
        /\ n[p] = Tail(q[p])
        /\ \A o \in Priority : o # p => n[o] = q[o]
    BY <1>2
  <1> HIDE DEF n, h
  <1>4. /\ Len(n[p]) = Len(q[p]) - 1
        /\ \A i \in 1..Len(n[p]) : n[p][i] = q[p][i + 1]
    BY <1>2, <1>3
  <1>5. \A i \in 1..Len(n[p]) : i + 1 \in 1..Len(q[p]) /\ i + 1 # 1
    BY <1>1, <1>4
  <1>6. \A j \in 1..Len(q[p]) : j = 1 \/ (j - 1 \in 1..Len(n[p]) /\ (j - 1) + 1 = j)
    BY <1>1, <1>4
  <1>7. 1 \in 1..Len(q[p])
    BY <1>1
  <1>8. PriorityOf[h] = p /\ InQueues(q, h)
    BY <1>2, <1>7 DEF WellFiled, InQueues
  <1>9. WellFiled(n)
    <2>1. ASSUME NEW o \in Priority, NEW i \in 1..Len(n[o])
          PROVE  PriorityOf[n[o][i]] = o
      <3>1. CASE o # p
        BY <1>3, <3>1 DEF WellFiled
      <3>2. CASE o = p
        <4>1. i + 1 \in 1..Len(q[p]) /\ n[p][i] = q[p][i + 1]
          BY <1>4, <1>5, <3>2
        <4> QED
          BY <3>2, <4>1 DEF WellFiled
      <3> QED
        BY <3>1, <3>2
    <2>2. ASSUME NEW o \in Priority, NEW i \in 1..Len(n[o]), NEW j \in 1..Len(n[o]),
                 n[o][i] = n[o][j]
          PROVE  i = j
      <3>1. CASE o # p
        BY <1>3, <2>2, <3>1 DEF WellFiled
      <3>2. CASE o = p
        <4>1. q[p][i + 1] = q[p][j + 1]
          BY <1>4, <2>2, <3>2
        <4>2. i + 1 = j + 1
          BY <1>5, <3>2, <4>1 DEF WellFiled
        <4> QED
          BY <4>2
      <3> QED
        BY <3>1, <3>2
    <2> QED
      BY <2>1, <2>2 DEF WellFiled
  <1>10. ASSUME NEW x \in Request
         PROVE  InQueues(n, x) <=> InQueues(q, x) /\ x # h
    <2>0. PriorityOf[x] \in Priority
      BY RequestAssumption
    <2>1. CASE PriorityOf[x] # p
      BY <1>3, <1>8, <2>0, <2>1 DEF InQueues
    <2>2. CASE PriorityOf[x] = p
      <3>1. InQueues(n, x) => InQueues(q, x)
        BY <1>4, <1>5, <2>2 DEF InQueues
      <3>2. InQueues(n, x) => x # h
        <4> SUFFICES ASSUME InQueues(n, x), x = h PROVE FALSE
          OBVIOUS
        <4> PICK i \in 1..Len(n[p]) : n[p][i] = x
          BY <2>2 DEF InQueues
        <4>1. q[p][i + 1] = q[p][1] /\ i + 1 \in 1..Len(q[p]) /\ i + 1 # 1
          BY <1>2, <1>4, <1>5
        <4> QED
          BY <1>7, <4>1 DEF WellFiled
      <3>3. InQueues(q, x) /\ x # h => InQueues(n, x)
        <4> SUFFICES ASSUME InQueues(q, x), x # h PROVE InQueues(n, x)
          OBVIOUS
        <4> PICK j \in 1..Len(q[p]) : q[p][j] = x
          BY <2>2 DEF InQueues
        <4>1. j # 1
          BY <1>2
        <4>2. j - 1 \in 1..Len(n[p]) /\ n[p][j - 1] = q[p][(j - 1) + 1]
          BY <1>4, <1>6, <4>1
        <4> QED
          BY <1>6, <2>2, <4>1, <4>2 DEF InQueues
      <3> QED
        BY <3>1, <3>2, <3>3
    <2> QED
      BY <2>1, <2>2
  <1>11. \A o \in Priority : Len(q[o]) \in Nat
    BY LenProperties
  <1>12. /\ Total(n) = Total(q) - 1
         /\ NonSafetyTotal(n) = IF p = Safety THEN NonSafetyTotal(q)
                                ELSE NonSafetyTotal(q) - 1
    <2>1. \A o \in Priority : Len(n[o]) = IF o = p THEN Len(q[o]) - 1 ELSE Len(q[o])
      BY <1>3, <1>4
    <2> HIDE DEF n
    <2>2. PICK k \in Int : k = -1
      OBVIOUS
    <2>3. Resized(q, n, p, k)
      BY <1>11, <2>1, <2>2 DEF Resized
    <2>5. /\ Total(n) = Total(q) + k
          /\ NonSafetyTotal(n) = IF p = Safety THEN NonSafetyTotal(q)
                                 ELSE NonSafetyTotal(q) + k
      BY <2>3, TotalChange
    <2>4. Total(q) \in Int /\ NonSafetyTotal(q) \in Int
      BY <1>11 DEF Total, NonSafetyTotal, Priority, Safety, Interactive, Telemetry,
                   Background
    <2> QED
      BY <2>2, <2>4, <2>5
  <1> QED
    BY <1>2, <1>3, <1>8, <1>9, <1>10, <1>12 DEF n, h

-----------------------------------------------------------------------------
(* The inductive invariant                                                 *)

\* Refusing comes before cancelling, cancelling before closing and ending.
StopInv ==
    /\ cancelled => stopping
    /\ \A a \in Actor : pc[a] = "cancel" => stopping
    /\ \A a \in Actor : pc[a] = "close" => cancelled
    /\ pc["writer"] \in {"finally", "done"} => cancelled

WriterBusy == {"taken", "writing", "retryDelay"}

\* The writer holds a request exactly while it works on one, and leaves nothing.
WriterInv ==
    /\ current # None <=> pc["writer"] \in WriterBusy
    /\ pc["writer"] = "done" => \A p \in Priority : queues[p] = <<>>

FiledInv ==
    /\ WellFiled(queues)
    /\ queueDepth = Total(queues)
    /\ NonSafetyTotal(queues) <= WriteQueueCapacity - ReservedSafetySlots

TicketInv ==
    /\ \A r \in Request :
         Queued(r) => outcome[r] = "pending" /\ r # current /\ ~Superseding(r)
    /\ current # None => outcome[current] = "pending" /\ ~Superseding(current)
    /\ \A q \in posting : victim[q] # None => outcome[victim[q]] = "pending"
    /\ \A q1, q2 \in posting :
         victim[q1] # None /\ victim[q1] = victim[q2] => q1 = q2
    /\ \A r \in Request : outcome[r] = "pending" => InHand(r) \/ Superseding(r)

IdInv ==
    /\ \A w \in WorkId : w \in pendingWorkIds <=>
                           \E r \in Request : InHand(r) /\ WorkIdOf[r] = w
    /\ \A r, q \in Request :
         InHand(r) /\ InHand(q) /\ WorkIdOf[r] = WorkIdOf[q] => r = q

IInv == TypeOK /\ StopInv /\ WriterInv /\ FiledInv /\ TicketInv /\ IdInv

\* The inductive invariant holds initially.
LEMMA IInvInit == Init => IInv
  <1> SUFFICES ASSUME Init PROVE IInv
    OBVIOUS
  <1>1. TypeOK
    BY TypeInit
  <1>2. \A p \in Priority : queues[p] = <<>> /\ Len(queues[p]) = 0
    BY EmptySeq DEF Init
  <1>3. \A r \in Request : ~Queued(r)
    BY <1>2, RequestAssumption DEF Queued
  <1>4. StopInv /\ WriterInv
    BY <1>2 DEF Init, StopInv, WriterInv, Actor, WriterBusy
  <1>5. WellFiled(queues)
    BY <1>2 DEF WellFiled
  <1>6. Total(queues) = 0 /\ NonSafetyTotal(queues) = 0
    BY <1>2, EmptyTotal
  <1>7. FiledInv
    BY <1>5, <1>6, OptionsAssumption DEF Validate, Init, FiledInv
  <1>8. \A r \in Request : ~InHand(r) /\ outcome[r] = "none"
    BY <1>3, RequestAssumption DEF Init, InHand
  <1>9. TicketInv
    BY <1>3, <1>8 DEF Init, TicketInv
  <1>10. IdInv
    BY <1>8 DEF Init, IdInv
  <1> QED
    BY <1>1, <1>4, <1>7, <1>9, <1>10 DEF IInv

\* StopInv: no step cancels, closes or ends the writer before stopping is set.
LEMMA StopInvStep == IInv /\ [Next]_vars => StopInv'
  <1> SUFFICES ASSUME IInv, [Next]_vars PROVE StopInv'
    OBVIOUS
  <1> USE DEF IInv, TypeOK, PcType, StopInv
  <1>1. CASE UNCHANGED vars
    BY <1>1 DEF vars, stopVars
  <1>2. ASSUME NEW r \in Request, QueueWrite(r) \/ FinishQueueWrite(r) \/ ReleaseFence(r)
        PROVE  StopInv'
    BY <1>2 DEF QueueWrite, RejectWrite, AcceptWrite, SupersedeWrite, Enlist,
                FinishQueueWrite, ReleaseFence, stopVars
  <1>3. CASE Writer
    <2>1. UNCHANGED <<stopping, cancelled>>
      BY <1>3 DEF Writer, WriterStopsAtLoop, TakeSafety, TakeFair, TakeNothing, DrainWake,
           CheckEligible, Woken, FenceReleaseSeen, ParkCancelled, Expire, StartWrite,
           TransientTimeout, RetryWrite, WriteSucceeds, WriteFails, WriteCancelled,
           ObserverFails, WriterFinally, Take, Attempt, CompleteWrite, stopVars
    <2>2. \/ \E l \in {"loop", "drain", "check", "park", "parkFenced", "taken", "writing",
                       "retryDelay", "fault"} : Goto("writer", l)
          \/ cancelled /\ (Goto("writer", "finally") \/ Goto("writer", "done"))
      <3>1. CASE WriterStopsAtLoop \/ ParkCancelled \/ WriteCancelled \/ WriterFinally
        BY <3>1 DEF WriterStopsAtLoop, ParkCancelled, WriteCancelled, WriterFinally
      <3>2. CASE TakeSafety \/ TakeFair \/ TakeNothing \/ DrainWake \/ Woken
                   \/ FenceReleaseSeen \/ Expire \/ StartWrite
        BY <3>2 DEF TakeSafety, TakeFair, TakeNothing, DrainWake, Woken, FenceReleaseSeen,
             Expire, StartWrite, Take, Attempt
      <3>3. CASE TransientTimeout \/ RetryWrite \/ WriteSucceeds \/ WriteFails
                   \/ ObserverFails
        BY <3>3 DEF TransientTimeout, RetryWrite, WriteSucceeds, WriteFails,
             ObserverFails, Attempt
      <3>4. CASE CheckEligible
        BY <3>4 DEF CheckEligible
      <3> QED
        BY <1>3, <3>1, <3>2, <3>3, <3>4 DEF Writer
    <2> QED
      BY <2>1, <2>2 DEF Goto, Actor
  <1>4. CASE Reader \/ Dispatcher
    BY <1>4 DEF Reader, Dispatcher, ReadChunk, EnqueueChunk, ReaderCancelled, ReadFails,
         ReaderFinally, DispatchChunk, HandlerReturns, HandlerFails, DispatcherEnds,
         Goto, Actor, stopVars
  <1>5. ASSUME NEW a \in Actor, Stop(a) PROVE StopInv'
    <2>1. CASE RecordFault(a)
      BY <2>1 DEF RecordFault, Goto
    <2>2. CASE CancelLifetime(a)
      BY <2>2 DEF CancelLifetime, Goto
    <2>3. CASE CloseTransportOnce(a)
      BY <2>3 DEF CloseTransportOnce, Goto, AfterClose, Actor
    <2> QED
      BY <1>5, <2>1, <2>2, <2>3 DEF Stop
  <1>6. CASE BeginDispose \/ FinishDispose
    BY <1>6 DEF BeginDispose, FinishDispose, Goto, Actor
  <1> QED
    BY <1>1, <1>2, <1>3, <1>4, <1>5, <1>6 DEF Next

\* Steps that leave queues, tickets and the write in hand alone.
coreVars == <<queues, queueDepth, pendingWorkIds, outcome, posting, victim, current>>

\* Steps that touch no queue, ticket or write in hand keep the core of the invariant.
LEMMA CoreFrame ==
  ASSUME FiledInv, TicketInv, IdInv, UNCHANGED coreVars
  PROVE  FiledInv' /\ TicketInv' /\ IdInv'
  BY DEF FiledInv, TicketInv, IdInv, coreVars, WellFiled, Total, NonSafetyTotal,
         Queued, Superseding, InHand

\* Queued as a statement about the queues alone.
LEMMA QueuedDef == \A r \in Request : Queued(r) <=> InQueues(queues, r)
  BY DEF Queued, InQueues

\* The same for the next state.
LEMMA QueuedDefNext == \A r \in Request : Queued(r)' <=> InQueues(queues', r)
  BY DEF Queued, InQueues

\* A refused write leaves every other ticket as it was.
LEMMA CoreReject ==
  ASSUME IInv, NEW r \in Request, RejectWrite(r)
  PROVE  FiledInv' /\ TicketInv' /\ IdInv'
  <1>1. /\ UNCHANGED <<queues, queueDepth, pendingWorkIds, posting, victim, current>>
        /\ outcome[r] # "pending"
        /\ outcome' = [outcome EXCEPT ![r] = "rejected"]
    BY DEF RejectWrite, Unused, queueVars, writerVars
  <1>2. \A x \in Request : outcome'[x] = "pending" <=> outcome[x] = "pending"
    BY <1>1 DEF IInv, TypeOK, TicketType
  <1>3. /\ \A x \in Request : Queued(x)' <=> Queued(x)
        /\ \A x \in Request : Superseding(x)' <=> Superseding(x)
        /\ \A x \in Request : InHand(x)' <=> InHand(x)
    BY <1>1 DEF Queued, Superseding, InHand
  <1>4. FiledInv' /\ IdInv'
    BY <1>1, <1>3 DEF IInv, FiledInv, IdInv, WellFiled, Total, NonSafetyTotal
  <1>5. /\ \A q \in posting' : victim'[q] # None => outcome'[victim'[q]] = "pending"
        /\ current' # None => outcome'[current'] = "pending" /\ ~Superseding(current)'
    BY <1>1, <1>2, <1>3 DEF IInv, TicketInv, TypeOK, TicketType, WriterType, Superseding
  <1>6. TicketInv'
    BY <1>1, <1>2, <1>3, <1>5 DEF IInv, TicketInv
  <1> QED
    BY <1>4, <1>6

\* An accepted write r, and the queued write v it displaces, if any.
LEMMA CoreEnlist ==
  ASSUME IInv, NEW r \in Request, NEW v \in Request \union {None},
         Admissible(r), Enlist(r),
         v # None => Queued(v),
         victim' = [victim EXCEPT ![r] = v],
         \A x \in Request : Queued(x)' <=> (Queued(x) /\ x # v) \/ x = r,
         \A w \in WorkId : w \in pendingWorkIds' <=>
            \/ w \in pendingWorkIds /\ (v # None => w # WorkIdOf[v])
            \/ w = WorkIdOf[r]
  PROVE  TicketInv' /\ IdInv'
  <1>1. /\ outcome' = [outcome EXCEPT ![r] = "pending"]
        /\ posting' = posting \union {r}
        /\ current' = current
        /\ outcome[r] # "pending" /\ r \notin posting /\ current # r
        /\ WorkIdOf[r] \notin pendingWorkIds
    BY DEF Enlist, Admissible, Unused
  <1>2. ~Queued(r) /\ ~Superseding(r) /\ ~InHand(r)
    BY <1>1, RequestAssumption DEF IInv, TicketInv, Superseding, InHand
  <1>3. v # r
    BY <1>2, RequestAssumption
  <1>4. \A x \in Request : outcome'[x] = "pending" <=> outcome[x] = "pending" \/ x = r
    BY <1>1 DEF IInv, TypeOK, TicketType
  <1>5. /\ victim'[r] = v
        /\ \A q \in posting : victim'[q] = victim[q] /\ q # r
    BY <1>1 DEF IInv, TypeOK, TicketType
  <1>6. \A x \in Request : Superseding(x)' <=> Superseding(x) \/ x = v
    BY <1>1, <1>5 DEF Superseding
  <1>8. v # None => v # current /\ outcome[v] = "pending" /\ ~Superseding(v)
    BY DEF IInv, TicketInv
  <1>7. \A x \in Request : InHand(x)' <=> (InHand(x) /\ x # v) \/ x = r
    BY <1>1, <1>8, RequestAssumption DEF InHand
  <1>9. TicketInv'
    <2>1. \A x \in Request :
            Queued(x)' => outcome'[x] = "pending" /\ x # current' /\ ~Superseding(x)'
      BY <1>1, <1>2, <1>3, <1>4, <1>6 DEF IInv, TicketInv
    <2>2. current' # None => outcome'[current'] = "pending" /\ ~Superseding(current)'
      BY <1>1, <1>4, <1>6, <1>8 DEF IInv, TicketInv, TypeOK, WriterType
    <2>3. \A q \in posting' : victim'[q] # None => outcome'[victim'[q]] = "pending"
      BY <1>1, <1>4, <1>5, <1>8 DEF IInv, TicketInv, TypeOK, TicketType
    <2>4. \A q1, q2 \in posting' :
            victim'[q1] # None /\ victim'[q1] = victim'[q2] => q1 = q2
      BY <1>1, <1>5, <1>8 DEF IInv, TicketInv, Superseding
    <2>5. \A x \in Request : outcome'[x] = "pending" => InHand(x)' \/ Superseding(x)'
      BY <1>4, <1>6, <1>7 DEF IInv, TicketInv
    <2> QED
      BY <2>1, <2>2, <2>3, <2>4, <2>5 DEF TicketInv
  <1>10. IdInv'
    <2>1. \A x \in Request : InHand(x) => WorkIdOf[x] \in pendingWorkIds
      BY RequestAssumption DEF IInv, IdInv
    <2>2. v # None => InHand(v)
      BY DEF InHand
    <2>3. ASSUME NEW w \in WorkId
          PROVE  w \in pendingWorkIds' <=> \E x \in Request : InHand(x)' /\ WorkIdOf[x] = w
      <3>1. ASSUME w \in pendingWorkIds' PROVE \E x \in Request : InHand(x)' /\ WorkIdOf[x] = w
        <4>1. CASE w = WorkIdOf[r]
          BY <1>7, <4>1
        <4>2. CASE w \in pendingWorkIds /\ (v # None => w # WorkIdOf[v])
          <5> PICK x \in Request : InHand(x) /\ WorkIdOf[x] = w
            BY <4>2 DEF IInv, IdInv
          <5>1. x # v
            BY <4>2, RequestAssumption
          <5> QED
            BY <1>7, <5>1
        <4> QED
          BY <3>1, <4>1, <4>2
      <3>2. ASSUME NEW x \in Request, InHand(x)', WorkIdOf[x] = w PROVE w \in pendingWorkIds'
        <4>1. CASE x = r
          BY <3>2, <4>1
        <4>2. CASE InHand(x) /\ x # v
          BY <2>1, <2>2, <3>2, <4>2 DEF IInv, IdInv
        <4> QED
          BY <1>7, <3>2, <4>1, <4>2
      <3> QED
        BY <3>1, <3>2
    <2>4. \A x, y \in Request :
            InHand(x)' /\ InHand(y)' /\ WorkIdOf[x] = WorkIdOf[y] => x = y
      BY <1>1, <1>7, <2>1 DEF IInv, IdInv
    <2> QED
      BY <2>3, <2>4 DEF IdInv
  <1> QED
    BY <1>9, <1>10

\* Acceptance keeps the core.
LEMMA CoreAccept ==
  ASSUME IInv, NEW r \in Request, AcceptWrite(r)
  PROVE  FiledInv' /\ TicketInv' /\ IdInv'
  <1> DEFINE n == [queues EXCEPT ![PriorityOf[r]] = Append(@, r)]
  <1>1. Admissible(r) /\ Enlist(r) /\ queues' = n /\ queueDepth' = queueDepth + 1
    BY DEF AcceptWrite
  <1>2. ~InQueues(queues, r)
    BY <1>1, QueuedDef DEF Admissible, Unused, IInv, TicketInv
  <1>3. queues \in [Priority -> Seq(Request)] /\ WellFiled(queues)
    BY DEF IInv, TypeOK, QueueType, FiledInv
  <1>4. /\ WellFiled(n)
        /\ \A x \in Request : InQueues(n, x) <=> InQueues(queues, x) \/ x = r
        /\ Total(n) = Total(queues) + 1
        /\ NonSafetyTotal(n) = IF PriorityOf[r] = Safety THEN NonSafetyTotal(queues)
                               ELSE NonSafetyTotal(queues) + 1
    BY <1>2, <1>3, AppendFiled
  <1> HIDE DEF n
  <1>5. NonSafetyTotal(queues) \in Int /\ Total(queues) \in Int
        /\ NonSafetyTotal(queues) <= Total(queues)
    BY <1>3, TotalBound
  <1>6. NonSafetyTotal(n) <= WriteQueueCapacity - ReservedSafetySlots
    BY <1>4, <1>5, OptionsAssumption DEF Validate, AcceptWrite, NonSafetyLimit, IInv, FiledInv
  <1>7. FiledInv'
    BY <1>1, <1>4, <1>6 DEF FiledInv, IInv
  <1>8. \A x \in Request : Queued(x)' <=> (Queued(x) /\ x # None) \/ x = r
    BY <1>1, <1>4, QueuedDef, QueuedDefNext, RequestAssumption
  <1>9. TicketInv' /\ IdInv'
    BY <1>1, <1>8, CoreEnlist DEF AcceptWrite
  <1> QED
    BY <1>7, <1>9

\* Eviction keeps the core: the victim moves from its queue to its superseder.
LEMMA CoreSupersede ==
  ASSUME IInv, NEW r \in Request, NEW p \in Priority, SupersedeWrite(r, p)
  PROVE  FiledInv' /\ TicketInv' /\ IdInv'
  <1> DEFINE v == Head(queues[p])
             m == [queues EXCEPT ![p] = Tail(@)]
             n == [m EXCEPT ![PriorityOf[r]] = Append(@, r)]
  <1>1. /\ Admissible(r) /\ Enlist(r) /\ queueDepth' = queueDepth
        /\ PriorityOf[r] = Safety /\ p # Safety /\ queues[p] # <<>>
        /\ victim' = [victim EXCEPT ![r] = v]
        /\ pendingWorkIds' = (pendingWorkIds \ {WorkIdOf[v]}) \union {WorkIdOf[r]}
    BY DEF SupersedeWrite, Evictable, IdsWithout
  <1>2. ~InQueues(queues, r)
    BY <1>1, QueuedDef DEF Admissible, Unused, IInv, TicketInv
  <1>3. queues \in [Priority -> Seq(Request)] /\ WellFiled(queues)
    BY DEF IInv, TypeOK, QueueType, FiledInv
  <1>4. queues' = n
    <2>1. queues' = [queues EXCEPT ![p] = Tail(@), ![Safety] = Append(@, r)]
      BY DEF SupersedeWrite
    <2>2. Safety \in Priority
      BY DEF Safety, Priority
    <2> QED
      BY <1>1, <1>3, <2>1, <2>2
  <1>5. /\ m \in [Priority -> Seq(Request)]
        /\ WellFiled(m)
        /\ v \in Request /\ InQueues(queues, v)
        /\ \A x \in Request : InQueues(m, x) <=> InQueues(queues, x) /\ x # v
        /\ Total(m) = Total(queues) - 1
        /\ NonSafetyTotal(m) = NonSafetyTotal(queues) - 1
    BY <1>1, <1>3, RemoveFiled
  <1> HIDE DEF m, v
  <1>6. /\ WellFiled(n)
        /\ \A x \in Request : InQueues(n, x) <=> InQueues(m, x) \/ x = r
        /\ Total(n) = Total(m) + 1
        /\ NonSafetyTotal(n) = NonSafetyTotal(m)
    BY <1>1, <1>2, <1>5, AppendFiled
  <1> HIDE DEF n
  <1>7. NonSafetyTotal(queues) \in Int /\ Total(queues) \in Int
    BY <1>3, TotalBound
  <1>8. FiledInv'
    BY <1>1, <1>4, <1>5, <1>6, <1>7, OptionsAssumption DEF Validate, FiledInv, IInv
  <1>9. \A x \in Request : Queued(x)' <=> (Queued(x) /\ x # v) \/ x = r
    BY <1>4, <1>5, <1>6, QueuedDef, QueuedDefNext
  <1>10. \A w \in WorkId : w \in pendingWorkIds' <=>
            \/ w \in pendingWorkIds /\ (v # None => w # WorkIdOf[v])
            \/ w = WorkIdOf[r]
    BY <1>1, <1>5, RequestAssumption
  <1>11. v # None => Queued(v)
    BY <1>5, QueuedDef
  <1>12. TicketInv' /\ IdInv'
    BY <1>1, <1>5, <1>9, <1>10, <1>11, CoreEnlist
  <1> QED
    BY <1>8, <1>12

\* The superseding caller completes the ticket it displaced.
LEMMA CoreFinish ==
  ASSUME IInv, NEW r \in Request, FinishQueueWrite(r)
  PROVE  FiledInv' /\ TicketInv' /\ IdInv'
  <1> DEFINE v == victim[r]
  <1>1. /\ r \in posting /\ posting' = posting \ {r}
        /\ UNCHANGED <<queues, queueDepth, pendingWorkIds, current>>
        /\ victim' = [victim EXCEPT ![r] = None]
        /\ outcome' = IF v = None THEN outcome ELSE [outcome EXCEPT ![v] = "superseded"]
    BY DEF FinishQueueWrite, OutcomeWithVictim, queueVars
  <1>2. v \in Request \union {None}
    BY DEF IInv, TypeOK, TicketType
  <1>3. v # None => outcome[v] = "pending" /\ Superseding(v)
    BY <1>1 DEF IInv, TicketInv, Superseding
  <1>4. v # None => ~Queued(v) /\ v # current
    BY <1>2, <1>3, RequestAssumption DEF IInv, TicketInv
  <1>5. \A q \in posting' : victim'[q] = victim[q] /\ q \in posting /\ q # r
    BY <1>1 DEF IInv, TypeOK, TicketType
  <1>6. \A x \in Request : Superseding(x)' <=> Superseding(x) /\ x # v
    <2>1. \A q \in posting : victim[q] = v /\ v # None => q = r
      BY <1>1 DEF IInv, TicketInv
    <2> QED
      BY <1>1, <1>5, <2>1, RequestAssumption DEF Superseding
  <1>7. \A x \in Request : outcome'[x] = "pending" <=> outcome[x] = "pending" /\ x # v
    BY <1>1, <1>2, RequestAssumption DEF IInv, TypeOK, TicketType
  <1>8. /\ \A x \in Request : Queued(x)' <=> Queued(x)
        /\ \A x \in Request : InHand(x)' <=> InHand(x)
    BY <1>1 DEF Queued, InHand
  <1>9. FiledInv' /\ IdInv'
    BY <1>1, <1>8 DEF IInv, FiledInv, IdInv, WellFiled, Total, NonSafetyTotal
  <1> HIDE DEF v
  <1>10. TicketInv'
    <2>1. \A x \in Request :
            Queued(x)' => outcome'[x] = "pending" /\ x # current' /\ ~Superseding(x)'
      BY <1>1, <1>4, <1>6, <1>7, <1>8 DEF IInv, TicketInv
    <2>2. current' # None => outcome'[current'] = "pending" /\ ~Superseding(current)'
      BY <1>1, <1>4, <1>6, <1>7, RequestAssumption DEF IInv, TicketInv, TypeOK, WriterType
    <2>3. ASSUME NEW q \in posting', victim'[q] # None
          PROVE  outcome'[victim'[q]] = "pending"
      <3>1. victim[q] # v
        BY <1>1, <1>5, <2>3 DEF IInv, TicketInv, v
      <3>2. victim[q] \in Request /\ outcome[victim[q]] = "pending"
        BY <1>5, <2>3 DEF IInv, TicketInv, TypeOK, TicketType
      <3> QED
        BY <1>5, <1>7, <3>1, <3>2
    <2>4. \A q1, q2 \in posting' :
            victim'[q1] # None /\ victim'[q1] = victim'[q2] => q1 = q2
      BY <1>5 DEF IInv, TicketInv
    <2>5. \A x \in Request : outcome'[x] = "pending" => InHand(x)' \/ Superseding(x)'
      BY <1>6, <1>7, <1>8 DEF IInv, TicketInv
    <2> QED
      BY <2>1, <2>2, <2>3, <2>4, <2>5 DEF TicketInv
  <1> QED
    BY <1>9, <1>10

\* The writer moves the head of a queue into its hand.
LEMMA CoreTake ==
  ASSUME IInv, NEW p \in Priority, queues[p] # <<>>, current = None, Take(p)
  PROVE  FiledInv' /\ TicketInv' /\ IdInv'
  <1> DEFINE v == Head(queues[p])
             n == [queues EXCEPT ![p] = Tail(@)]
  <1>1. /\ queues' = n /\ queueDepth' = queueDepth - 1 /\ current' = v
        /\ UNCHANGED <<pendingWorkIds, outcome, posting, victim>>
    BY DEF Take, ticketVars
  <1>2. queues \in [Priority -> Seq(Request)] /\ WellFiled(queues)
    BY DEF IInv, TypeOK, QueueType, FiledInv
  <1>3. /\ WellFiled(n)
        /\ v \in Request /\ InQueues(queues, v)
        /\ \A x \in Request : InQueues(n, x) <=> InQueues(queues, x) /\ x # v
        /\ Total(n) = Total(queues) - 1
        /\ NonSafetyTotal(n) = IF p = Safety THEN NonSafetyTotal(queues)
                               ELSE NonSafetyTotal(queues) - 1
    BY <1>2, RemoveFiled
  <1> HIDE DEF n, v
  <1>4. NonSafetyTotal(queues) \in Int /\ Total(queues) \in Int
    BY <1>2, TotalBound
  <1>5. FiledInv'
    BY <1>1, <1>3, <1>4, OptionsAssumption DEF Validate, FiledInv, IInv
  <1>6. Queued(v) /\ \A x \in Request : Queued(x)' <=> Queued(x) /\ x # v
    BY <1>1, <1>3, QueuedDef, QueuedDefNext
  <1>7. /\ \A x \in Request : InHand(x)' <=> InHand(x)
        /\ \A x \in Request : Superseding(x)' <=> Superseding(x)
    BY <1>1, <1>6, RequestAssumption DEF InHand, Superseding
  <1>8. IdInv'
    BY <1>1, <1>7 DEF IInv, IdInv
  <1>9. TicketInv'
    BY <1>1, <1>3, <1>6, <1>7 DEF IInv, TicketInv
  <1> QED
    BY <1>5, <1>8, <1>9

\* The writer completes the ticket in its hand.
LEMMA CoreComplete ==
  ASSUME IInv, current # None, NEW o \in Outcome, o # "pending", CompleteWrite(o)
  PROVE  FiledInv' /\ TicketInv' /\ IdInv'
  <1>1. /\ UNCHANGED <<queues, queueDepth, posting, victim>>
        /\ outcome' = [outcome EXCEPT ![current] = o]
        /\ pendingWorkIds' = pendingWorkIds \ {WorkIdOf[current]}
        /\ current' = None
    BY DEF CompleteWrite, IdsWithout
  <1>2. current \in Request /\ ~Queued(current) /\ ~Superseding(current)
    BY DEF IInv, TypeOK, WriterType, TicketInv
  <1>3. \A x \in Request : outcome'[x] = "pending" <=> outcome[x] = "pending" /\ x # current
    BY <1>1, <1>2 DEF IInv, TypeOK, TicketType
  <1>4. /\ \A x \in Request : Queued(x)' <=> Queued(x)
        /\ \A x \in Request : Superseding(x)' <=> Superseding(x)
        /\ \A x \in Request : InHand(x)' <=> InHand(x) /\ x # current
    BY <1>1, <1>2, RequestAssumption DEF Queued, Superseding, InHand
  <1>5. FiledInv'
    BY <1>1 DEF IInv, FiledInv, WellFiled, Total, NonSafetyTotal
  <1>6. IdInv'
    <2>1. InHand(current)
      BY DEF InHand
    <2> QED
      BY <1>1, <1>2, <1>4, <2>1 DEF IInv, IdInv
  <1>7. TicketInv'
    <2>1. \A q \in posting' : victim'[q] # None => outcome'[victim'[q]] = "pending"
      BY <1>1, <1>2, <1>3 DEF IInv, TicketInv, Superseding, TypeOK, TicketType
    <2>2. \A q1, q2 \in posting' :
            victim'[q1] # None /\ victim'[q1] = victim'[q2] => q1 = q2
      BY <1>1 DEF IInv, TicketInv
    <2>3. \A x \in Request :
            Queued(x)' => outcome'[x] = "pending" /\ x # current' /\ ~Superseding(x)'
      BY <1>1, <1>2, <1>3, <1>4, RequestAssumption DEF IInv, TicketInv
    <2>4. \A x \in Request : outcome'[x] = "pending" => InHand(x)' \/ Superseding(x)'
      BY <1>3, <1>4 DEF IInv, TicketInv
    <2> QED
      BY <1>1, <2>1, <2>2, <2>3, <2>4 DEF TicketInv
  <1> QED
    BY <1>5, <1>6, <1>7

\* Clearing the queues completes every queued ticket.
LEMMA CoreCancel ==
  ASSUME IInv, current = None, CancelQueuedWrites, UNCHANGED <<posting, victim, current>>
  PROVE  FiledInv' /\ TicketInv' /\ IdInv'
  <1>1. \A p \in Priority : queues'[p] = <<>>
    BY DEF CancelQueuedWrites
  <1>2. /\ Total(queues') = 0 /\ NonSafetyTotal(queues') = 0
        /\ \A r \in Request : ~InQueues(queues', r)
    BY <1>1, EmptyTotal
  <1>3. /\ \A x \in Request : ~Queued(x)'
        /\ \A x \in Request : ~InHand(x)'
        /\ \A x \in Request : Superseding(x)' <=> Superseding(x)
    BY <1>2, QueuedDefNext, RequestAssumption DEF InHand, Superseding
  <1>4. \A x \in Request : outcome'[x] = IF Queued(x) THEN "cancelled" ELSE outcome[x]
    BY DEF CancelQueuedWrites, OutcomeCancelled, Queued
  <1>5. FiledInv'
    <2>1. WellFiled(queues')
      BY <1>1 DEF WellFiled
    <2>2. queueDepth' = 0
      BY DEF CancelQueuedWrites
    <2> QED
      BY <1>2, <2>1, <2>2, OptionsAssumption DEF Validate, FiledInv
  <1>6. IdInv'
    <2>1. pendingWorkIds' = {}
      BY DEF CancelQueuedWrites
    <2> QED
      BY <1>3, <2>1 DEF IdInv
  <1>7. TicketInv'
    <2>1. \A q \in posting' : victim'[q] # None => outcome'[victim'[q]] = "pending"
      BY <1>4 DEF IInv, TicketInv, Superseding, TypeOK, TicketType
    <2>2. \A x \in Request : outcome'[x] = "pending" => Superseding(x)'
      BY <1>3, <1>4 DEF IInv, TicketInv, InHand
    <2> QED
      BY <1>3, <2>1, <2>2 DEF TicketInv, IInv
  <1> QED
    BY <1>5, <1>6, <1>7

\* Every step keeps the core of the invariant.
LEMMA CoreStep == IInv /\ [Next]_vars => FiledInv' /\ TicketInv' /\ IdInv'
  <1> SUFFICES ASSUME IInv, [Next]_vars PROVE FiledInv' /\ TicketInv' /\ IdInv'
    OBVIOUS
  <1>0. UNCHANGED coreVars => FiledInv' /\ TicketInv' /\ IdInv'
    BY CoreFrame DEF IInv
  <1>1. CASE UNCHANGED vars
    BY <1>0, <1>1 DEF vars, queueVars, ticketVars, writerVars, coreVars
  <1>2. ASSUME NEW r \in Request, QueueWrite(r) \/ FinishQueueWrite(r)
        PROVE  FiledInv' /\ TicketInv' /\ IdInv'
    BY <1>2, CoreReject, CoreAccept, CoreSupersede, CoreFinish DEF QueueWrite
  <1>3. ASSUME NEW r \in Request, ReleaseFence(r) PROVE UNCHANGED coreVars
    BY <1>3 DEF ReleaseFence, queueVars, writerVars, coreVars
  <1>4. CASE Writer
    <2>1. CASE TakeSafety
      <3>1. current = None /\ Safety \in Priority
        BY <2>1 DEF TakeSafety, IInv, WriterInv, WriterBusy, Safety, Priority
      <3> QED
        BY <2>1, <3>1, CoreTake DEF TakeSafety
    <2>2. CASE TakeFair
      <3>1. current = None
        BY <2>2 DEF TakeFair, IInv, WriterInv, WriterBusy
      <3>2. PICK k \in 0..(FairLength - 1) :
              FairTurn(k) /\ Take(FairSlot(fairScheduleIndex + k))
        BY <2>2 DEF TakeFair
      <3>3. fairScheduleIndex + k \in Nat
        BY DEF IInv, TypeOK, QueueType, FairLength
      <3> QED
        BY <3>1, <3>2, <3>3, FairSlotType, CoreTake DEF FairTurn
    <2>3. CASE Expire \/ WriteFails \/ WriteCancelled \/ ObserverFails \/ WriteSucceeds
      <3>1. current # None
        BY <2>3 DEF Expire, WriteFails, WriteCancelled, ObserverFails, WriteSucceeds,
                    IInv, WriterInv, WriterBusy
      <3>2. \E o \in Outcome \ {"pending"} : CompleteWrite(o)
        BY <2>3 DEF Expire, WriteFails, WriteCancelled, ObserverFails, WriteSucceeds,
                    Outcome
      <3> QED
        BY <3>1, <3>2, CoreComplete
    <2>4. CASE WriterFinally
      <3>1. current = None
        BY <2>4 DEF WriterFinally, IInv, WriterInv, WriterBusy
      <3> QED
        BY <2>4, <3>1, CoreCancel DEF WriterFinally, writerVars
    <2>5. CASE WriterStopsAtLoop \/ TakeNothing \/ DrainWake \/ CheckEligible \/ Woken
                 \/ FenceReleaseSeen \/ ParkCancelled \/ StartWrite \/ TransientTimeout
                 \/ RetryWrite
      <3>1. UNCHANGED coreVars
        BY <2>5 DEF WriterStopsAtLoop, TakeNothing, DrainWake, CheckEligible, Woken,
             FenceReleaseSeen, ParkCancelled, StartWrite, TransientTimeout, RetryWrite,
             Attempt, queueVars, ticketVars, writerVars, coreVars
      <3> QED
        BY <1>0, <3>1
    <2> QED
      BY <1>4, <2>1, <2>2, <2>3, <2>4, <2>5 DEF Writer
  <1>5. CASE Reader \/ Dispatcher
    <2>1. UNCHANGED coreVars
      BY <1>5 DEF Reader, Dispatcher, ReadChunk, EnqueueChunk, ReaderCancelled, ReadFails,
           ReaderFinally, DispatchChunk, HandlerReturns, HandlerFails, DispatcherEnds,
           queueVars, ticketVars, writerVars, coreVars
    <2> QED
      BY <1>0, <2>1
  <1>6. ASSUME NEW a \in Actor, Stop(a) PROVE UNCHANGED coreVars
    BY <1>6 DEF Stop, RecordFault, CancelLifetime, CloseTransportOnce,
                queueVars, ticketVars, writerVars, coreVars
  <1>7. CASE BeginDispose
    <2>1. UNCHANGED coreVars
      BY <1>7 DEF BeginDispose, queueVars, ticketVars, writerVars, coreVars
    <2> QED
      BY <1>0, <2>1
  <1>8. CASE FinishDispose
    <2>1. current = None
      BY <1>8 DEF FinishDispose, Completion, Runtime, IInv, WriterInv, WriterBusy
    <2> QED
      BY <1>8, <2>1, CoreCancel DEF FinishDispose, writerVars
  <1> QED
    BY <1>0, <1>1, <1>2, <1>3, <1>4, <1>5, <1>6, <1>7, <1>8 DEF Next

\* WriterInv: the hand is full exactly while the writer works; after the finally
\* block nothing is queued again, because QueueWrite refuses once stopping is set.
LEMMA WriterInvStep == IInv /\ [Next]_vars => WriterInv'
  <1> SUFFICES ASSUME IInv, [Next]_vars PROVE WriterInv'
    OBVIOUS
  <1>0. ASSUME UNCHANGED <<current, queues>>, pc'["writer"] = pc["writer"]
        PROVE  WriterInv'
    BY <1>0 DEF IInv, WriterInv
  <1>1. CASE UNCHANGED vars
    BY <1>0, <1>1 DEF vars, queueVars, writerVars
  <1>2. ASSUME NEW r \in Request, QueueWrite(r) PROVE WriterInv'
    <2>1. CASE RejectWrite(r)
      BY <1>0, <2>1 DEF RejectWrite, queueVars, writerVars
    <2>2. CASE ~RejectWrite(r)
      <3>1. ~stopping /\ UNCHANGED <<current, pc>>
        BY <1>2, <2>2 DEF QueueWrite, AcceptWrite, SupersedeWrite, Admissible, Enlist
      <3> QED
        BY <3>1 DEF IInv, WriterInv, StopInv
    <2> QED
      BY <2>1, <2>2
  <1>3. ASSUME NEW r \in Request, FinishQueueWrite(r) \/ ReleaseFence(r) PROVE WriterInv'
    BY <1>0, <1>3 DEF FinishQueueWrite, ReleaseFence, queueVars, writerVars
  <1>4. CASE Writer
    <2>0. pc \in [Actor -> Pc] /\ "writer" \in Actor
      BY DEF IInv, TypeOK, PcType, Actor
    <2>1. CASE TakeSafety \/ TakeFair
      <3>1. PICK p \in Priority : queues[p] # <<>> /\ Take(p)
        <4>1. CASE TakeSafety
          BY <4>1 DEF TakeSafety, Safety, Priority
        <4>2. CASE TakeFair
          <5>1. \A k \in 0..(FairLength - 1) : fairScheduleIndex + k \in Nat
            BY DEF IInv, TypeOK, QueueType, FairLength
          <5> QED
            BY <4>2, <5>1, FairSlotType DEF TakeFair, FairTurn
        <4> QED
          BY <2>1, <4>1, <4>2
      <3>2. Head(queues[p]) \in Request
        BY <3>1, QueueHead DEF IInv, TypeOK
      <3> QED
        BY <2>0, <3>1, <3>2, RequestAssumption DEF Take, Goto, WriterInv, WriterBusy
    <2>2. CASE Expire \/ WriteFails \/ WriteCancelled \/ ObserverFails \/ WriteSucceeds
      BY <2>0, <2>2 DEF Expire, WriteFails, WriteCancelled, ObserverFails, WriteSucceeds,
                  CompleteWrite, Goto, WriterInv, WriterBusy
    <2>3. CASE WriterFinally
      BY <2>0, <2>3 DEF WriterFinally, CancelQueuedWrites, Goto, IInv, WriterInv,
                  WriterBusy, writerVars
    <2>4. CASE WriterStopsAtLoop \/ TakeNothing \/ DrainWake \/ Woken
                 \/ FenceReleaseSeen \/ ParkCancelled
      BY <2>0, <2>4 DEF WriterStopsAtLoop, TakeNothing, DrainWake, Woken,
           FenceReleaseSeen, ParkCancelled, Goto, IInv, WriterInv, WriterBusy, writerVars
    <2>5. CASE CheckEligible
      BY <2>0, <2>5 DEF CheckEligible, Goto, IInv, WriterInv, WriterBusy
    <2>6. CASE StartWrite \/ TransientTimeout \/ RetryWrite
      BY <2>0, <2>6 DEF StartWrite, TransientTimeout, RetryWrite, Attempt, Goto, IInv,
           WriterInv, WriterBusy, writerVars
    <2> QED
      BY <1>4, <2>1, <2>2, <2>3, <2>4, <2>5, <2>6 DEF Writer
  <1>5. CASE Reader \/ Dispatcher
    <2>1. UNCHANGED <<current, queues>> /\ pc'["writer"] = pc["writer"]
      BY <1>5 DEF Reader, Dispatcher, ReadChunk, EnqueueChunk, ReaderCancelled, ReadFails,
           ReaderFinally, DispatchChunk, HandlerReturns, HandlerFails, DispatcherEnds,
           queueVars, writerVars, Goto, IInv, TypeOK, PcType, Actor
    <2> QED
      BY <1>0, <2>1
  <1>6. ASSUME NEW a \in Actor, Stop(a) PROVE WriterInv'
    <2>1. UNCHANGED <<current, queues>>
      BY <1>6 DEF Stop, RecordFault, CancelLifetime, CloseTransportOnce, queueVars, writerVars
    <2>2. CASE a # "writer"
      BY <1>0, <1>6, <2>1, <2>2 DEF Stop, RecordFault, CancelLifetime, CloseTransportOnce,
           Goto, IInv, TypeOK, PcType, Actor
    <2>3. CASE a = "writer"
      BY <1>6, <2>1, <2>3 DEF Stop, RecordFault, CancelLifetime, CloseTransportOnce,
           Goto, IInv, TypeOK, PcType, Actor, WriterInv, WriterBusy, AfterClose
    <2> QED
      BY <2>2, <2>3
  <1>7. CASE BeginDispose
    BY <1>0, <1>7 DEF BeginDispose, Goto, queueVars, writerVars, IInv, TypeOK, PcType, Actor
  <1>8. CASE FinishDispose
    BY <1>8 DEF FinishDispose, CancelQueuedWrites, Goto, writerVars, IInv, TypeOK, PcType,
         Actor, WriterInv
  <1> QED
    BY <1>1, <1>2, <1>3, <1>4, <1>5, <1>6, <1>7, <1>8 DEF Next

\* The invariant is inductive.
LEMMA IInvStep == IInv /\ [Next]_vars => IInv'
  BY TypeStep, StopInvStep, WriterInvStep, CoreStep DEF IInv

\* The invariant holds in every reachable state.
LEMMA IInvCorrect == Spec => []IInv
  BY IInvInit, IInvStep, PTL DEF Spec

-----------------------------------------------------------------------------
(* What follows from the invariant                                         *)

\* NoOrphanTicket holds in every reachable state: a ticket is pending exactly
\* while the queue, the writer or a superseding caller is bound to complete it.
THEOREM NoTicketLost == Spec => []NoOrphanTicket
  <1>1. IInv => NoOrphanTicket
    <2> SUFFICES ASSUME IInv, NEW r \in Request
                 PROVE  outcome[r] = "pending" <=> InHand(r) \/ Superseding(r)
      BY DEF NoOrphanTicket
    <2>1. InHand(r) => outcome[r] = "pending"
      BY RequestAssumption DEF IInv, TicketInv, InHand
    <2>2. Superseding(r) => outcome[r] = "pending"
      BY RequestAssumption DEF IInv, TicketInv, Superseding
    <2> QED
      BY <2>1, <2>2 DEF IInv, TicketInv
  <1> QED
    BY <1>1, IInvCorrect, PTL

\* QueueAccounting: queueDepth and pendingWorkIds agree with the queues and the
\* write in hand, and no two live writes share a work id.
THEOREM AccountingCorrect == Spec => []QueueAccounting
  <1>1. IInv => QueueAccounting
    BY DEF IInv, FiledInv, IdInv, QueueAccounting, Total
  <1> QED
    BY <1>1, IInvCorrect, PTL

\* SafetyReserve: non-safety work never takes the reserved slots.
THEOREM ReserveKept == Spec => []SafetyReserve
  <1>1. IInv => SafetyReserve
    BY DEF IInv, FiledInv, SafetyReserve, NonSafetyTotal
  <1> QED
    BY <1>1, IInvCorrect, PTL

\* QuiescentAfterWriter: nothing is queued once the writer has ended.
THEOREM NothingAfterWriter == Spec => []QuiescentAfterWriter
  <1>1. IInv => QuiescentAfterWriter
    BY DEF IInv, StopInv, WriterInv, WriterBusy, QuiescentAfterWriter
  <1> QED
    BY <1>1, IInvCorrect, PTL

\* Only a refusal makes a ticket rejected.
LEMMA OnlyRejectRejects ==
  ASSUME IInv, Next, NEW r \in Request, outcome[r] # "rejected", outcome'[r] = "rejected"
  PROVE  RejectWrite(r)
  <1> USE DEF IInv, TypeOK, TicketType
  <1>1. ASSUME NEW x \in Request, QueueWrite(x) \/ FinishQueueWrite(x) \/ ReleaseFence(x)
        PROVE  RejectWrite(r)
    <2>1. CASE RejectWrite(x)
      <3>1. x = r
        BY <2>1 DEF RejectWrite
      <3> QED
        BY <2>1, <3>1
    <2>2. CASE AcceptWrite(x) \/ \E p \in Priority : SupersedeWrite(x, p)
      <3>1. outcome' = [outcome EXCEPT ![x] = "pending"]
        BY <2>2 DEF AcceptWrite, SupersedeWrite, Enlist
      <3> QED
        BY <3>1
    <2>3. CASE FinishQueueWrite(x)
      BY <2>3 DEF FinishQueueWrite, OutcomeWithVictim
    <2>4. CASE ReleaseFence(x)
      BY <2>4 DEF ReleaseFence
    <2> QED
      BY <1>1, <2>1, <2>2, <2>3, <2>4 DEF QueueWrite
  <1>2. CASE Writer
    <2>1. CASE Expire \/ WriteFails \/ WriteCancelled \/ ObserverFails \/ WriteSucceeds
      BY <2>1 DEF Expire, WriteFails, WriteCancelled, ObserverFails, WriteSucceeds,
                  CompleteWrite
    <2>2. CASE WriterFinally
      BY <2>2 DEF WriterFinally, CancelQueuedWrites, OutcomeCancelled
    <2>3. CASE UNCHANGED outcome
      BY <2>3
    <2> QED
      BY <1>2, <2>1, <2>2, <2>3
      DEF Writer, WriterStopsAtLoop, TakeSafety, TakeFair, Take, TakeNothing, DrainWake,
          CheckEligible, Woken, FenceReleaseSeen, ParkCancelled, StartWrite, RetryWrite,
          Attempt, TransientTimeout, ticketVars
  <1>3. CASE Reader \/ Dispatcher
    BY <1>3 DEF Reader, Dispatcher, ReadChunk, EnqueueChunk, ReaderCancelled, ReadFails,
         ReaderFinally, DispatchChunk, HandlerReturns, HandlerFails, DispatcherEnds,
         ticketVars
  <1>4. ASSUME NEW a \in Actor, Stop(a) PROVE RejectWrite(r)
    BY <1>4 DEF Stop, RecordFault, CancelLifetime, CloseTransportOnce, ticketVars
  <1>5. CASE BeginDispose
    BY <1>5 DEF BeginDispose, ticketVars
  <1>6. CASE FinishDispose
    BY <1>6 DEF FinishDispose, CancelQueuedWrites, OutcomeCancelled
  <1> QED
    BY <1>1, <1>2, <1>3, <1>4, <1>5, <1>6 DEF Next

\* SafetyAdmission: safety work is refused for room only by a queue full of
\* safety work, whatever the capacity and the reserve.
THEOREM SafetyAdmitted == Spec => SafetyAdmission
  <1>1. IInv /\ [Next]_vars => [SafetyAdmissionStep]_vars
    <2> SUFFICES ASSUME IInv, Next, NEW r \in Request, PriorityOf[r] = Safety,
                        outcome'[r] = "rejected", outcome[r] # "rejected",
                        ~stopping, WorkIdOf[r] \notin pendingWorkIds
                 PROVE  Len(queues[Safety]) >= WriteQueueCapacity
      BY DEF SafetyAdmissionStep
    <2>1. queueDepth >= WriteQueueCapacity /\ \A p \in Priority : ~Evictable(p)
      BY OnlyRejectRejects DEF RejectWrite
    <2>2. queues[3] = <<>>
      BY <2>1 DEF Evictable, Priority, Safety
    <2>3. queues[2] = <<>>
      BY <2>1, <2>2 DEF Evictable, Priority, Safety
    <2>4. queues[1] = <<>>
      BY <2>1, <2>2, <2>3 DEF Evictable, Priority, Safety
    <2>5. Len(queues[3]) = 0 /\ Len(queues[2]) = 0 /\ Len(queues[1]) = 0
      BY <2>2, <2>3, <2>4
    <2>6. queueDepth = Len(queues[Safety]) + NonSafetyTotal(queues)
      BY TotalBound DEF IInv, FiledInv, TypeOK, QueueType
    <2>7. NonSafetyTotal(queues) = 0
      BY <2>5 DEF NonSafetyTotal, Interactive, Telemetry, Background
    <2>8. Len(queues[Safety]) \in Nat
      BY LenProperties DEF IInv, TypeOK, QueueType, Safety, Priority
    <2> QED
      BY <2>1, <2>6, <2>7, <2>8
  <1> QED
    BY <1>1, IInvCorrect, PTL DEF Spec, SafetyAdmission

\* The writer still honours the fence of the payload written last.
FenceInv == lastFenced = None \/ lastFenced \in released \/ activeFence = lastFenced

\* FenceInv is inductive relative to IInv.
LEMMA FenceInvStep == IInv /\ FenceInv /\ [Next]_vars => FenceInv'
  <1> SUFFICES ASSUME IInv, FenceInv, [Next]_vars PROVE FenceInv'
    OBVIOUS
  <1> USE DEF FenceInv
  <1>0. UNCHANGED <<lastFenced, released, activeFence>> => FenceInv'
    OBVIOUS
  <1>1. CASE UNCHANGED vars
    BY <1>1 DEF vars, ticketVars, writerVars, historyVars
  <1>2. ASSUME NEW r \in Request, QueueWrite(r) \/ FinishQueueWrite(r) \/ ReleaseFence(r)
        PROVE  FenceInv'
    BY <1>2 DEF QueueWrite, RejectWrite, AcceptWrite, SupersedeWrite, Enlist,
                FinishQueueWrite, ReleaseFence, writerVars, historyVars
  <1>3. CASE Writer
    <2>1. CASE TakeSafety \/ TakeFair \/ TakeNothing \/ CheckEligible
      <3>1. activeFence' = FenceInForce /\ UNCHANGED <<lastFenced, released>>
        BY <2>1 DEF TakeSafety, TakeFair, TakeNothing, CheckEligible, Take, ticketVars,
                    historyVars
      <3> QED
        BY <3>1 DEF FenceInForce
    <2>2. CASE WriteSucceeds
      BY <2>2 DEF WriteSucceeds, CompleteWrite
    <2>3. CASE UNCHANGED <<lastFenced, released, activeFence>>
      BY <2>3
    <2> QED
      BY <1>3, <2>1, <2>2, <2>3
      DEF Writer, WriterStopsAtLoop, DrainWake, Woken, FenceReleaseSeen, ParkCancelled,
          Expire, StartWrite, RetryWrite, Attempt, TransientTimeout, WriteFails,
          WriteCancelled, ObserverFails, CompleteWrite, WriterFinally, ticketVars,
          writerVars, historyVars
  <1>4. CASE Reader \/ Dispatcher
    BY <1>4 DEF Reader, Dispatcher, ReadChunk, EnqueueChunk, ReaderCancelled, ReadFails,
         ReaderFinally, DispatchChunk, HandlerReturns, HandlerFails, DispatcherEnds,
         ticketVars, writerVars, historyVars
  <1>5. ASSUME NEW a \in Actor, Stop(a) PROVE FenceInv'
    BY <1>5 DEF Stop, RecordFault, CancelLifetime, CloseTransportOnce, ticketVars,
                writerVars, historyVars
  <1>6. CASE BeginDispose \/ FinishDispose
    BY <1>6 DEF BeginDispose, FinishDispose, ticketVars, writerVars, historyVars
  <1> QED
    BY <1>1, <1>2, <1>3, <1>4, <1>5, <1>6 DEF Next

\* Only the two takes fill the writer's hand.
LEMMA OnlyTakesFill ==
  ASSUME IInv, Next, current = None, current' # None
  PROVE  TakeSafety \/ TakeFair
  <1>1. ASSUME NEW r \in Request, QueueWrite(r) \/ FinishQueueWrite(r) \/ ReleaseFence(r)
        PROVE  FALSE
    BY <1>1 DEF QueueWrite, RejectWrite, AcceptWrite, SupersedeWrite, Enlist,
                FinishQueueWrite, ReleaseFence, writerVars
  <1>2. ASSUME Writer, ~TakeSafety, ~TakeFair PROVE FALSE
    BY <1>2 DEF Writer, WriterStopsAtLoop, TakeNothing, DrainWake, CheckEligible, Woken,
         FenceReleaseSeen, ParkCancelled, Expire, StartWrite, RetryWrite, Attempt,
         TransientTimeout, WriteSucceeds, WriteFails, WriteCancelled, ObserverFails,
         CompleteWrite, WriterFinally, writerVars
  <1>3. ASSUME Reader \/ Dispatcher PROVE FALSE
    BY <1>3 DEF Reader, Dispatcher, ReadChunk, EnqueueChunk, ReaderCancelled, ReadFails,
         ReaderFinally, DispatchChunk, HandlerReturns, HandlerFails, DispatcherEnds,
         writerVars
  <1>4. ASSUME NEW a \in Actor, Stop(a) PROVE FALSE
    BY <1>4 DEF Stop, RecordFault, CancelLifetime, CloseTransportOnce, writerVars
  <1>5. ASSUME BeginDispose \/ FinishDispose PROVE FALSE
    BY <1>5 DEF BeginDispose, FinishDispose, writerVars
  <1> QED
    BY <1>1, <1>2, <1>3, <1>4, <1>5 DEF Next

\* FenceRespected: the writer takes no ordinary work while the fence of the last
\* fenced payload is closed, for every mix of requests, priorities and fences.
THEOREM FenceHonoured == Spec => FenceRespected
  <1>1. Init => FenceInv
    BY DEF Init, FenceInv
  <1>2. IInv /\ FenceInv /\ [Next]_vars => [FenceRespectedStep]_vars
    <2> SUFFICES ASSUME IInv, FenceInv, Next, current = None, current' # None,
                        PriorityOf[current'] # Safety
                 PROVE  lastFenced = None \/ lastFenced \in released
      BY DEF FenceRespectedStep
    <2>1. CASE TakeSafety
      <3>1. queues[Safety] \in Seq(Request) /\ queues[Safety] # <<>> /\ Safety \in Priority
        BY <2>1 DEF TakeSafety, IInv, TypeOK, QueueType, Safety, Priority
      <3>2. Head(queues[Safety]) = queues[Safety][1] /\ 1 \in 1..Len(queues[Safety])
        BY <3>1, HeadTailProperties, EmptySeq, LenProperties
      <3>3. PriorityOf[Head(queues[Safety])] = Safety
        BY <3>1, <3>2 DEF IInv, FiledInv, WellFiled
      <3> QED
        BY <2>1, <3>3 DEF TakeSafety, Take
    <2>2. CASE TakeFair
      BY <2>2, RequestAssumption DEF TakeFair, FenceInForce, FenceInv
    <2> QED
      BY <2>1, <2>2, OnlyTakesFill
  <1> QED
    BY <1>1, <1>2, FenceInvStep, IInvCorrect, PTL DEF Spec, FenceRespected

-----------------------------------------------------------------------------
(* The fair schedule                                                       *)

\* How many slots the schedule has passed, at index i, since the last one of p.
Passed(p, i) ==
    CASE p = Interactive -> IF i \in {0, 4, 6} THEN 1 ELSE 0
      [] p = Telemetry   -> IF i <= 3 THEN i + 2 ELSE IF i \in {5, 7} THEN 1 ELSE 0
      [] p = Background  -> i
      [] OTHER           -> 0

\* The schedule, slot by slot.
LEMMA SlotOf ==
  \A i \in 0..15 :
    LET m == IF i > 7 THEN i - 8 ELSE i IN
    FairSlot(i) = IF m = 7 THEN Background ELSE IF m \in {3, 5} THEN Telemetry
                  ELSE Interactive
  <1> SUFFICES ASSUME NEW i \in 0..15, NEW m \in 0..7, m = IF i > 7 THEN i - 8 ELSE i
               PROVE  FairSlot(i) = IF m = 7 THEN Background
                                    ELSE IF m \in {3, 5} THEN Telemetry ELSE Interactive
    OBVIOUS
  <1>1. i % 8 = m
    OBVIOUS
  <1> QED
    BY <1>1 DEF FairSlot, FairSchedule, FairLength

\* A turn that serves p0 at distance k passes the slots i to i + k.
LEMMA PassedGrows ==
  ASSUME NEW i \in 0..7, NEW k \in 0..7, NEW q \in {Interactive, Telemetry, Background},
         \A j \in 0..k : FairSlot(i + j) # q
  PROVE  Passed(q, NextFairIndex(i, k)) >= Passed(q, i) + 1
  <1> DEFINE n == IF i + k + 1 > 7 THEN i + k - 7 ELSE i + k + 1
  <1>1. NextFairIndex(i, k) = n /\ n \in 0..7
    BY DEF NextFairIndex, FairLength
  <1>2. \A j \in 0..7 : i + j \in 0..15
    OBVIOUS
  <1>3. CASE q = Background
    <2>1. \A j \in 0..k : i + j # 7
      BY <1>2, <1>3, SlotOf DEF Interactive, Telemetry, Background
    <2>2. i + k < 7
      BY <2>1
    <2> QED
      BY <1>1, <1>3, <2>2 DEF Passed, Interactive, Telemetry, Background
  <1>4. CASE q = Telemetry
    <2>1. \A j \in 0..k : i + j \notin {3, 5, 11, 13}
      BY <1>2, <1>4, SlotOf DEF Interactive, Telemetry, Background
    <2>2. \/ i + k < 3
          \/ i = 4 /\ k = 0
          \/ i > 5 /\ i + k < 11
      BY <2>1
    <2> QED
      BY <1>1, <1>4, <2>2 DEF Passed, Interactive, Telemetry, Background
  <1>5. CASE q = Interactive
    <2>1. \A j \in 0..k : i + j \in {3, 5, 7, 11, 13, 15}
      BY <1>2, <1>5, SlotOf DEF Interactive, Telemetry, Background
    <2>2. i \in {3, 5, 7} /\ k = 0
      BY <2>1
    <2> QED
      BY <1>1, <1>5, <2>2 DEF Passed, Interactive, Telemetry, Background
  <1> QED
    BY <1>3, <1>4, <1>5

\* No waiting priority was passed over more often than the schedule has slots
\* since its last turn.
BypassInv == \A p \in Priority : bypass[p] <= Passed(p, fairScheduleIndex)

\* Passed counts slots.
LEMMA PassedType == \A p \in Priority, i \in 0..7 : Passed(p, i) \in Nat
  BY DEF Passed, Priority, Interactive, Telemetry, Background

\* A fair take adds at most the slots it moves over.
LEMMA BypassFairStep == ASSUME IInv, BypassInv, TakeFair PROVE BypassInv'
  <1>1. PICK k \in 0..7 :
          /\ FairTurn(k)
          /\ fairScheduleIndex' = NextFairIndex(fairScheduleIndex, k)
          /\ bypass' = [q \in Priority |->
                          IF q = FairSlot(fairScheduleIndex + k) \/ queues[q] = <<>> THEN 0
                          ELSE IF bypass[q] < BypassCap THEN bypass[q] + 1 ELSE bypass[q]]
    BY DEF TakeFair, FairLength
  <1>2. fairScheduleIndex \in 0..7 /\ fairScheduleIndex' \in 0..7
    BY <1>1, FairIndexType DEF IInv, TypeOK, QueueType, FairLength
  <1> SUFFICES ASSUME NEW q \in Priority PROVE bypass'[q] <= Passed(q, fairScheduleIndex')
    BY DEF BypassInv
  <1>3. CASE q = FairSlot(fairScheduleIndex + k) \/ queues[q] = <<>>
    BY SMTT(30), <1>1, <1>2, <1>3, PassedType
  <1>4. CASE ~(q = FairSlot(fairScheduleIndex + k) \/ queues[q] = <<>>)
    <2>1. q \in {Interactive, Telemetry, Background}
      BY <1>4 DEF TakeFair, Priority, Safety, Interactive, Telemetry, Background
    <2>2. \A j \in 0..k : FairSlot(fairScheduleIndex + j) # q
      BY <1>1, <1>4 DEF FairTurn
    <2>3. Passed(q, fairScheduleIndex') >= Passed(q, fairScheduleIndex) + 1
      BY <1>1, <1>2, <2>1, <2>2, PassedGrows
    <2>4. bypass[q] \in Nat /\ bypass'[q] <= bypass[q] + 1 /\ bypass'[q] \in Nat
      BY <1>1, <1>4 DEF IInv, TypeOK, HistoryType, BypassCap
    <2>5. bypass[q] <= Passed(q, fairScheduleIndex)
      BY DEF BypassInv
    <2> QED
      BY <1>2, <2>3, <2>4, <2>5, PassedType
  <1> QED
    BY <1>3, <1>4

\* BypassInv is inductive relative to IInv.
LEMMA BypassInvStep == IInv /\ BypassInv /\ [Next]_vars => BypassInv'
  <1> SUFFICES ASSUME IInv, BypassInv, [Next]_vars PROVE BypassInv'
    OBVIOUS
  <1>0. UNCHANGED <<bypass, fairScheduleIndex>> => BypassInv'
    BY DEF BypassInv
  <1>1. ASSUME UNCHANGED fairScheduleIndex,
               \A p \in Priority : bypass'[p] = bypass[p] \/ bypass'[p] = 0
        PROVE  BypassInv'
    <2>1. fairScheduleIndex \in 0..7
      BY DEF IInv, TypeOK, QueueType, FairLength
    <2>2. \A p \in Priority : Passed(p, fairScheduleIndex) >= 0
      BY <2>1, PassedType
    <2> QED
      BY <1>1, <2>2 DEF BypassInv
  <1>2. CASE UNCHANGED vars
    BY <1>0, <1>2 DEF vars, queueVars, historyVars
  <1>3. ASSUME NEW r \in Request, QueueWrite(r) PROVE BypassInv'
    <2>1. CASE RejectWrite(r) \/ AcceptWrite(r)
      BY <1>0, <2>1 DEF RejectWrite, AcceptWrite, Enlist, queueVars
    <2>2. ASSUME NEW p \in Priority, SupersedeWrite(r, p) PROVE BypassInv'
      <3>1. UNCHANGED fairScheduleIndex
            /\ bypass' = [bypass EXCEPT ![p] = IF Tail(queues[p]) = <<>> THEN 0 ELSE @]
        BY <2>2 DEF SupersedeWrite, Enlist
      <3> QED
        BY <1>1, <3>1 DEF IInv, TypeOK, HistoryType
    <2> QED
      BY <1>3, <2>1, <2>2 DEF QueueWrite
  <1>4. ASSUME NEW r \in Request, FinishQueueWrite(r) \/ ReleaseFence(r) PROVE BypassInv'
    BY <1>0, <1>4 DEF FinishQueueWrite, ReleaseFence, queueVars, historyVars
  <1>5. CASE Writer
    <2>1. CASE TakeFair
      BY <2>1, BypassFairStep
    <2>2. CASE WriterFinally
      BY <1>1, <2>2 DEF WriterFinally, CancelQueuedWrites
    <2>3. CASE UNCHANGED <<bypass, fairScheduleIndex>>
      BY <1>0, <2>3
    <2> QED
      BY <1>5, <2>1, <2>2, <2>3
      DEF Writer, WriterStopsAtLoop, TakeSafety, TakeNothing, DrainWake, CheckEligible,
          Woken, FenceReleaseSeen, ParkCancelled, Expire, StartWrite, RetryWrite, Attempt,
          TransientTimeout, WriteSucceeds, WriteFails, WriteCancelled, ObserverFails,
          CompleteWrite, queueVars, historyVars
  <1>6. CASE Reader \/ Dispatcher
    BY <1>0, <1>6 DEF Reader, Dispatcher, ReadChunk, EnqueueChunk, ReaderCancelled,
         ReadFails, ReaderFinally, DispatchChunk, HandlerReturns, HandlerFails,
         DispatcherEnds, queueVars, historyVars
  <1>7. ASSUME NEW a \in Actor, Stop(a) PROVE BypassInv'
    BY <1>0, <1>7 DEF Stop, RecordFault, CancelLifetime, CloseTransportOnce, queueVars,
                historyVars
  <1>8. CASE BeginDispose
    BY <1>0, <1>8 DEF BeginDispose, queueVars, historyVars
  <1>9. CASE FinishDispose
    BY <1>1, <1>9 DEF FinishDispose, CancelQueuedWrites
  <1> QED
    BY <1>2, <1>3, <1>4, <1>5, <1>6, <1>7, <1>8, <1>9 DEF Next

\* BoundedBypass: in no execution, with queues of any capacity, is a waiting
\* background write passed over more than seven times, telemetry more than five,
\* interactive work more than once.
THEOREM FairnessBound == Spec => []BoundedBypass
  <1>1. Init => BypassInv
    BY PassedType DEF Init, BypassInv
  <1>2. IInv /\ BypassInv => BoundedBypass
    <2> SUFFICES ASSUME IInv, BypassInv, NEW p \in Priority PROVE bypass[p] <= MaxBypass[p]
      BY DEF BoundedBypass
    <2>1. bypass[p] <= Passed(p, fairScheduleIndex) /\ bypass[p] \in Nat
      BY DEF BypassInv, IInv, TypeOK, HistoryType
    <2>2. fairScheduleIndex \in 0..7
      BY DEF IInv, TypeOK, QueueType, FairLength
    <2> QED
      BY <2>1, <2>2 DEF Passed, MaxBypass, Priority, Safety, Interactive, Telemetry,
                        Background
  <1> QED
    BY <1>1, <1>2, BypassInvStep, IInvCorrect, PTL DEF Spec

-----------------------------------------------------------------------------
(* The scheduler implements WriteTickets: initial states map to initial     *)
(* states and every step to a step of the ticket service or a stutter.      *)


\* Abstract tickets change only with outcomes, callers and their victims.
LEMMA TicketFrame == UNCHANGED <<outcome, posting, victim>> => TicketOf' = TicketOf
  BY DEF TicketOf, Superseding

\* The abstract service changes only when stopping is set or the writer ends.
LEMMA ServiceFrame ==
  ASSUME UNCHANGED stopping, pc'["writer"] = "done" <=> pc["writer"] = "done"
  PROVE  ServiceState' = ServiceState
  BY DEF ServiceState

\* An abstract ticket is pending while the write is queued or in the writer's hand.
LEMMA PendingTicket ==
  ASSUME IInv
  PROVE  \A r \in Request : TicketOf[r] = "pending" <=> InHand(r)
  <1> SUFFICES ASSUME NEW r \in Request PROVE TicketOf[r] = "pending" <=> InHand(r)
    OBVIOUS
  <1>1. TicketOf[r] = "pending" <=> outcome[r] = "pending" /\ ~Superseding(r)
    BY DEF TicketOf
  <1>2. InHand(r) => outcome[r] = "pending" /\ ~Superseding(r)
    BY RequestAssumption DEF IInv, TicketInv, InHand
  <1> QED
    BY <1>1, <1>2 DEF IInv, TicketInv

\* A name QueueWrite may use has no pending ticket and is nobody's victim.
LEMMA UnusedTicket ==
  ASSUME IInv, NEW r \in Request, Unused(r)
  PROVE  ~Superseding(r) /\ TicketOf[r] # "pending" /\ r \notin posting
  <1>1. outcome[r] # "pending" /\ r \notin posting
    BY DEF Unused
  <1>2. ~Superseding(r)
    BY <1>1, RequestAssumption DEF Superseding, IInv, TicketInv
  <1> QED
    BY <1>1, <1>2 DEF TicketOf

\* A refusal is a refusal of the ticket service.
LEMMA MapReject ==
  ASSUME IInv, NEW r \in Request, RejectWrite(r)
  PROVE  Tickets!Reject(r)
  <1>1. ServiceState' = ServiceState
    BY ServiceFrame DEF RejectWrite, stopVars
  <1>2. \A x \in Request : Superseding(x)' <=> Superseding(x)
    BY DEF RejectWrite, Superseding
  <1>3. ~Superseding(r) /\ TicketOf[r] # "pending"
    BY UnusedTicket DEF RejectWrite
  <1>4. outcome' = [outcome EXCEPT ![r] = "rejected"] /\ outcome \in [Request -> Outcome]
    BY DEF RejectWrite, IInv, TypeOK, TicketType
  <1>5. TicketOf' = [TicketOf EXCEPT ![r] = "rejected"]
    BY <1>2, <1>3, <1>4 DEF TicketOf
  <1> QED
    BY <1>1, <1>3, <1>5 DEF Tickets!Reject, Tickets!Pending

\* An acceptance is an acceptance.
LEMMA MapAccept ==
  ASSUME IInv, NEW r \in Request, AcceptWrite(r)
  PROVE  Tickets!Accept(r)
  <1>1. ServiceState' = ServiceState /\ ServiceState = "open"
    BY ServiceFrame DEF AcceptWrite, Admissible, Enlist, stopVars, ServiceState
  <1>2. ~Superseding(r) /\ TicketOf[r] # "pending" /\ r \notin posting
    BY UnusedTicket DEF AcceptWrite, Admissible
  <1>3. /\ posting' = posting \union {r} /\ posting \subseteq Request
        /\ victim' = [victim EXCEPT ![r] = None]
        /\ victim \in [Request -> Request \union {None}]
        /\ outcome' = [outcome EXCEPT ![r] = "pending"]
        /\ outcome \in [Request -> Outcome]
    BY DEF AcceptWrite, Enlist, IInv, TypeOK, TicketType
  <1>4. \A x \in Request : Superseding(x)' <=> Superseding(x)
    BY <1>2, <1>3, RequestAssumption DEF Superseding
  <1>5. TicketOf' = [TicketOf EXCEPT ![r] = "pending"]
    BY <1>2, <1>3, <1>4 DEF TicketOf
  <1> QED
    BY <1>1, <1>2, <1>5 DEF Tickets!Accept, Tickets!Pending

\* An eviction displaces the evicted ticket as soon as the lock is left.
LEMMA MapSupersede ==
  ASSUME IInv, NEW r \in Request, NEW p \in Priority, SupersedeWrite(r, p)
  PROVE  \E v \in Request : Tickets!Displace(r, v)
  <1> DEFINE v == Head(queues[p])
  <1>1. ServiceState' = ServiceState /\ ServiceState = "open"
    BY ServiceFrame DEF SupersedeWrite, Admissible, Enlist, stopVars, ServiceState
  <1>2. ~Superseding(r) /\ TicketOf[r] # "pending" /\ r \notin posting
    BY UnusedTicket DEF SupersedeWrite, Admissible
  <1>3. v \in Request /\ v = queues[p][1] /\ Len(queues[p]) \in Nat \ {0}
    BY QueueHead DEF SupersedeWrite, Evictable, IInv, TypeOK
  <1>4. PriorityOf[v] = p /\ p # Safety /\ PriorityOf[r] = Safety
    BY <1>3 DEF SupersedeWrite, Evictable, IInv, FiledInv, WellFiled
  <1>5. InHand(v)
    BY <1>3, <1>4 DEF InHand, Queued
  <1>6. TicketOf[v] = "pending" /\ v # r
    BY <1>2, <1>3, <1>5, PendingTicket
  <1>7. /\ posting' = posting \union {r} /\ posting \subseteq Request
        /\ victim' = [victim EXCEPT ![r] = v]
        /\ victim \in [Request -> Request \union {None}]
        /\ outcome' = [outcome EXCEPT ![r] = "pending"]
        /\ outcome \in [Request -> Outcome]
    BY DEF SupersedeWrite, Enlist, IInv, TypeOK, TicketType
  <1> HIDE DEF v
  <1>8. \A x \in Request : Superseding(x)' <=> (Superseding(x) \/ x = v)
    BY <1>2, <1>3, <1>7, RequestAssumption DEF Superseding
  <1>9. TicketOf' = [TicketOf EXCEPT ![r] = "pending", ![v] = "superseded"]
    BY <1>2, <1>3, <1>6, <1>7, <1>8 DEF TicketOf
  <1> QED
    BY <1>1, <1>2, <1>3, <1>4, <1>6, <1>9 DEF Tickets!Displace, Tickets!Pending, Safety

\* Completing the displaced ticket after the lock is invisible.
LEMMA MapFinish ==
  ASSUME IInv, NEW r \in Request, FinishQueueWrite(r)
  PROVE  UNCHANGED <<TicketOf, ServiceState>>
  <1>1. ServiceState' = ServiceState
    BY ServiceFrame DEF FinishQueueWrite, stopVars
  <1>2. /\ r \in posting /\ posting' = posting \ {r} /\ posting \subseteq Request
        /\ victim' = [victim EXCEPT ![r] = None]
        /\ victim \in [Request -> Request \union {None}]
        /\ outcome \in [Request -> Outcome]
        /\ outcome' = IF victim[r] = None THEN outcome
                      ELSE [outcome EXCEPT ![victim[r]] = "superseded"]
    BY DEF FinishQueueWrite, OutcomeWithVictim, IInv, TypeOK, TicketType
  <1>3. \A x \in Request : x # victim[r] => (Superseding(x)' <=> Superseding(x))
    BY <1>2 DEF Superseding
  <1>4. \A x \in Request : x = victim[r] => Superseding(x)
    BY <1>2 DEF Superseding
  <1>5. \A x \in Request : x = victim[r] => outcome'[x] = "superseded"
    BY <1>2, RequestAssumption
  <1>6. \A x \in Request : x # victim[r] => outcome'[x] = outcome[x]
    BY <1>2
  <1>7. TicketOf' = TicketOf
    BY <1>3, <1>4, <1>5, <1>6 DEF TicketOf
  <1> QED
    BY <1>1, <1>7

\* CompleteWrite completes the ticket in the writer's hand.
LEMMA MapComplete ==
  ASSUME IInv, current # None,
         NEW o \in {"written", "expired", "cancelled", "failed"}, CompleteWrite(o),
         pc["writer"] # "done", pc'["writer"] # "done"
  PROVE  Tickets!Complete(current)
  <1>1. current \in Request
    BY DEF IInv, TypeOK, WriterType
  <1>2. ServiceState' = ServiceState /\ ServiceState # "stopped"
    BY ServiceFrame DEF CompleteWrite, stopVars, ServiceState
  <1>3. TicketOf[current] = "pending" /\ ~Superseding(current)
    BY <1>1, PendingTicket DEF InHand, IInv, TicketInv
  <1>4. \A x \in Request : Superseding(x)' <=> Superseding(x)
    BY DEF CompleteWrite, Superseding
  <1>5. outcome' = [outcome EXCEPT ![current] = o] /\ outcome \in [Request -> Outcome]
    BY DEF CompleteWrite, IInv, TypeOK, TicketType
  <1>6. TicketOf' = [TicketOf EXCEPT ![current] = o]
    BY <1>1, <1>3, <1>4, <1>5 DEF TicketOf
  <1> QED
    BY <1>1, <1>2, <1>3, <1>6 DEF Tickets!Complete, Tickets!Pending

\* The writer's finally block is the moment the service has stopped.
LEMMA MapFinally ==
  ASSUME IInv, WriterFinally
  PROVE  Tickets!Stopped
  <1>1. pc["writer"] = "finally" /\ pc'["writer"] = "done" /\ stopping /\ stopping'
    BY DEF WriterFinally, Goto, IInv, TypeOK, PcType, Actor, StopInv, stopVars
  <1>2. ServiceState = "stopping" /\ ServiceState' = "stopped"
    BY <1>1 DEF ServiceState
  <1>3. \A x \in Request : Superseding(x)' <=> Superseding(x)
    BY DEF WriterFinally, Superseding
  <1>4. current = None
    BY <1>1 DEF IInv, WriterInv, WriterBusy
  <1>5. \A x \in Request : TicketOf[x] = "pending" <=> Queued(x)
    BY <1>4, PendingTicket, RequestAssumption DEF InHand
  <1>6. \A x \in Request : outcome'[x] = IF Queued(x) THEN "cancelled" ELSE outcome[x]
    BY DEF WriterFinally, CancelQueuedWrites, OutcomeCancelled, Queued
  <1>7. \A x \in Request : Queued(x) => ~Superseding(x)
    BY DEF IInv, TicketInv
  <1>8. TicketOf' = [x \in Request |-> IF TicketOf[x] = "pending" THEN "cancelled"
                                       ELSE TicketOf[x]]
    BY <1>3, <1>5, <1>6, <1>7 DEF TicketOf
  <1> QED
    BY <1>2, <1>8 DEF Tickets!Stopped, Tickets!Pending

\* DisposeAsync finds nothing left to cancel.
LEMMA MapDispose ==
  ASSUME IInv, FinishDispose
  PROVE  UNCHANGED <<TicketOf, ServiceState>>
  <1>1. ServiceState' = ServiceState
    BY ServiceFrame DEF FinishDispose, Goto, IInv, TypeOK, PcType, Actor
  <1>2. \A p \in Priority : queues[p] = <<>>
    BY DEF FinishDispose, Completion, Runtime, IInv, WriterInv
  <1>3. \A x \in Request : ~Queued(x)
    BY <1>2, RequestAssumption DEF Queued
  <1>4. \A x \in Request : outcome'[x] = outcome[x]
    BY <1>3 DEF FinishDispose, CancelQueuedWrites, OutcomeCancelled, Queued
  <1>5. \A x \in Request : Superseding(x)' <=> Superseding(x)
    BY DEF FinishDispose, Superseding
  <1>6. TicketOf' = TicketOf
    BY <1>4, <1>5 DEF TicketOf
  <1> QED
    BY <1>1, <1>6

\* Setting stopping ends acceptance the first time and changes nothing later.
LEMMA MapRefuse ==
  ASSUME IInv, stopping' = TRUE, UNCHANGED <<outcome, posting, victim>>,
         pc'["writer"] = "done" <=> pc["writer"] = "done"
  PROVE  Tickets!StopAccepting \/ UNCHANGED <<TicketOf, ServiceState>>
  <1>1. TicketOf' = TicketOf
    BY TicketFrame
  <1>2. CASE stopping
    BY <1>1, <1>2 DEF ServiceState
  <1>3. CASE ~stopping
    <2>1. pc["writer"] # "done"
      BY <1>3 DEF IInv, StopInv
    <2>2. ServiceState = "open" /\ ServiceState' = "stopping"
      BY <1>3, <2>1 DEF ServiceState
    <2> QED
      BY <1>1, <2>2 DEF Tickets!StopAccepting
  <1> QED
    BY <1>2, <1>3

\* The writer's steps complete a ticket, stop the service or change nothing.
LEMMA MapWriter ==
  ASSUME IInv, Writer
  PROVE  Tickets!Next \/ UNCHANGED <<TicketOf, ServiceState>>
  <1>0. pc \in [Actor -> Pc] /\ "writer" \in Actor
    BY DEF IInv, TypeOK, PcType, Actor
  <1>1. CASE Expire \/ WriteFails \/ WriteCancelled \/ ObserverFails \/ WriteSucceeds
    <2>1. current # None /\ current \in Request
      BY <1>1 DEF Expire, WriteFails, WriteCancelled, ObserverFails, WriteSucceeds,
                  IInv, WriterInv, WriterBusy, TypeOK, WriterType
    <2>2. pc["writer"] # "done" /\ pc'["writer"] # "done"
      BY <1>0, <1>1 DEF Expire, WriteFails, WriteCancelled, ObserverFails, WriteSucceeds,
                  Goto
    <2>3. \E o \in {"written", "expired", "cancelled", "failed"} : CompleteWrite(o)
      BY <1>1 DEF Expire, WriteFails, WriteCancelled, ObserverFails, WriteSucceeds
    <2>4. Tickets!Complete(current)
      BY <2>1, <2>2, <2>3, MapComplete
    <2> QED
      BY <2>1, <2>4 DEF Tickets!Next
  <1>2. CASE WriterFinally
    BY <1>2, MapFinally DEF Tickets!Next
  <1>3. CASE WriterStopsAtLoop \/ TakeSafety \/ TakeFair \/ TakeNothing \/ DrainWake
               \/ Woken \/ FenceReleaseSeen \/ ParkCancelled
               \/ StartWrite \/ TransientTimeout \/ RetryWrite
    <2>1. UNCHANGED <<stopping, outcome, posting, victim>>
      BY <1>3 DEF WriterStopsAtLoop, TakeSafety, TakeFair, Take, TakeNothing, DrainWake,
           Woken, FenceReleaseSeen, ParkCancelled, StartWrite, TransientTimeout,
           RetryWrite, Attempt, stopVars, ticketVars
    <2>2. pc["writer"] # "done" /\ pc'["writer"] # "done"
      BY <1>0, <1>3 DEF WriterStopsAtLoop, TakeSafety, TakeFair, Take, TakeNothing,
           DrainWake, Woken, FenceReleaseSeen, ParkCancelled, StartWrite,
           TransientTimeout, RetryWrite, Attempt, Goto
    <2> QED
      BY <2>1, <2>2, TicketFrame, ServiceFrame
  <1>4. CASE CheckEligible
    <2>1. UNCHANGED <<stopping, outcome, posting, victim>>
      BY <1>4 DEF CheckEligible, stopVars, ticketVars
    <2>2. pc["writer"] # "done" /\ pc'["writer"] # "done"
      BY <1>0, <1>4 DEF CheckEligible, Goto
    <2> QED
      BY <2>1, <2>2, TicketFrame, ServiceFrame
  <1> QED
    BY <1>1, <1>2, <1>3, <1>4 DEF Writer

\* The stop sequence of a task ends acceptance or changes nothing.
LEMMA MapStop ==
  ASSUME IInv, NEW a \in Actor, Stop(a)
  PROVE  Tickets!Next \/ UNCHANGED <<TicketOf, ServiceState>>
  <1>1. UNCHANGED <<outcome, posting, victim>>
    BY DEF Stop, RecordFault, CancelLifetime, CloseTransportOnce, ticketVars
  <1>2. pc'["writer"] = "done" <=> pc["writer"] = "done"
    <2>0. pc \in [Actor -> Pc] /\ "writer" \in Actor
      BY DEF IInv, TypeOK, PcType, Actor
    <2>1. CASE a = "writer"
      BY <2>0, <2>1 DEF Stop, RecordFault, CancelLifetime, CloseTransportOnce, Goto,
                  AfterClose
    <2>2. CASE a # "writer"
      BY <2>0, <2>2 DEF Stop, RecordFault, CancelLifetime, CloseTransportOnce, Goto
    <2> QED
      BY <2>1, <2>2
  <1>3. CASE RecordFault(a)
    BY <1>1, <1>2, <1>3, MapRefuse DEF RecordFault, Tickets!Next
  <1>4. CASE CancelLifetime(a) \/ CloseTransportOnce(a)
    BY <1>1, <1>2, <1>4, TicketFrame, ServiceFrame DEF CancelLifetime, CloseTransportOnce
  <1> QED
    BY <1>3, <1>4 DEF Stop

\* Every step of the scheduler is a step of the ticket service or a stutter.
LEMMA MapStep == IInv /\ [Next]_vars => [Tickets!Next]_(Tickets!vars)
  <1> SUFFICES ASSUME IInv, [Next]_vars
               PROVE  Tickets!Next \/ UNCHANGED <<TicketOf, ServiceState>>
    BY DEF Tickets!vars
  <1>1. CASE UNCHANGED vars
    BY <1>1, TicketFrame, ServiceFrame DEF vars, stopVars, ticketVars
  <1>2. ASSUME NEW r \in Request, QueueWrite(r) PROVE Tickets!Next
    BY <1>2, MapReject, MapAccept, MapSupersede DEF QueueWrite, Tickets!Next
  <1>3. ASSUME NEW r \in Request, FinishQueueWrite(r)
        PROVE  UNCHANGED <<TicketOf, ServiceState>>
    BY <1>3, MapFinish
  <1>4. ASSUME NEW r \in Request, ReleaseFence(r)
        PROVE  UNCHANGED <<TicketOf, ServiceState>>
    BY <1>4, TicketFrame, ServiceFrame DEF ReleaseFence, stopVars
  <1>5. CASE Writer
    BY <1>5, MapWriter
  <1>6. CASE Reader \/ Dispatcher
    <2>1. UNCHANGED <<stopping, outcome, posting, victim>> /\ pc'["writer"] = pc["writer"]
      BY <1>6 DEF Reader, Dispatcher, ReadChunk, EnqueueChunk, ReaderCancelled, ReadFails,
           ReaderFinally, DispatchChunk, HandlerReturns, HandlerFails, DispatcherEnds,
           stopVars, ticketVars, Goto, IInv, TypeOK, PcType, Actor
    <2> QED
      BY <2>1, TicketFrame, ServiceFrame
  <1>7. ASSUME NEW a \in Actor, Stop(a)
        PROVE  Tickets!Next \/ UNCHANGED <<TicketOf, ServiceState>>
    BY <1>7, MapStop
  <1>8. CASE BeginDispose
    <2>1. stopping' = TRUE /\ UNCHANGED <<outcome, posting, victim>>
          /\ pc'["writer"] = pc["writer"]
      BY <1>8 DEF BeginDispose, ticketVars, Goto, IInv, TypeOK, PcType, Actor
    <2> QED
      BY <2>1, MapRefuse DEF Tickets!Next
  <1>9. CASE FinishDispose
    BY <1>9, MapDispose
  <1> QED
    BY <1>1, <1>2, <1>3, <1>4, <1>5, <1>6, <1>7, <1>8, <1>9 DEF Next

\* ImplementsTickets: QueueWrite keeps its promise (one completion per accepted
\* ticket, nothing accepted after the stop, nothing open at the end) for every
\* set of requests, capacity and interleaving.
THEOREM SchedulerImplementsTickets == Spec => ImplementsTickets
  <1>1. Init => Tickets!Init
    BY DEF Init, Tickets!Init, TicketOf, ServiceState, Superseding
  <1> QED
    BY <1>1, MapStep, IInvCorrect, PTL DEF Spec, ImplementsTickets, Tickets!Spec
=============================================================================
