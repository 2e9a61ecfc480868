-------------------------- MODULE DummySessionProofs --------------------------
(***************************************************************************)
(* Proofs about DummySession: what it does to its scheduler are steps of   *)
(* the scheduler, the response lease has one live holder, and no fence the *)
(* writer honours is left without somebody to release it.                  *)
(***************************************************************************)
EXTENDS DummySession, SerialSchedulerProofs

-----------------------------------------------------------------------------
(* The inductive invariant                                                 *)

SessionVarsOK ==
    /\ call \in [Request -> CallPc] /\ result \in [Request -> Result]
    /\ calledOff \subseteq Cancellable
    /\ activeResponse \in Fenced \union {None} /\ armed \subseteq Fenced
    /\ response \in [Fenced -> Response] /\ leaseReleased \subseteq Fenced
    /\ preemptedFence \in [Fenced -> Fenced \union {None}]
    /\ awaited \in [Fenced -> Fenced \union {None}]
    /\ writes \subseteq Request
    /\ captured \in Fenced \union {None}
    /\ disposed \in BOOLEAN
    /\ canceller \in [Canceller -> CancelPc]
    /\ cancelling \in [Canceller -> Fenced \union {None}]
    /\ arrived \subseteq Chunk

\* Whoever lost the lease inside its try block was told so.
LeaseInv ==
    /\ LeaseHeldByLiveCall
    /\ \A t \in Fenced : call[t] \in Holding /\ t # activeResponse => response[t] # "none"
    /\ \A c \in Canceller : canceller[c] \in {"fence", "preempted"} => cancelling[c] \in Fenced

NotQueued == {"idle", "acquire", "wait", "register", "submit"}

\* A call's ticket says where the call can be, and a transaction does not get
\* past its finally block with its own fence closed.
CallInv ==
    /\ \A r \in Request : call[r] \in NotQueued => outcome[r] = "none"
    /\ \A r \in Request : call[r] = "rejected" => outcome[r] = "rejected"
    /\ \A t \in Fenced :
         call[t] = "release" \/ (call[t] = "done" /\ outcome[t] # "none") => t \in released
    /\ activeFence # None => outcome[activeFence] # "none"

\* Metadata is kept for every open ticket until the session is disposed.
MetaInv ==
    /\ canceller["monitor"] # "idle" => pc["writer"] = "done"
    /\ canceller["disposer"] = "done" => pc["writer"] = "done"
    /\ canceller["disposer"] # "done" =>
         \A r \in Request : outcome[r] = "pending" \/ call[r] = "submit" => r \in writes

\* DisposeAsync runs once.
DisposedInv == disposed <=> canceller["disposer"] # "idle"

SInv == IInv /\ SessionVarsOK /\ LeaseInv /\ CallInv /\ MetaInv /\ DisposedInv

-----------------------------------------------------------------------------
(* Every step is a step of the scheduler or leaves it alone                *)

\* A scheduler step that queues nothing, or none.
SchedulerStep ==
    \/ \E r \in Request : FinishQueueWrite(r) \/ ReleaseFence(r)
    \/ Writer \/ Reader \/ Dispatcher
    \/ \E a \in Actor : Stop(a)
    \/ BeginDispose \/ FinishDispose
Quiet == [SchedulerStep]_vars

\* Releasing a fence that is released already, or none, changes nothing.
LEMMA ReleaseIsStep ==
  ASSUME NEW x \in Fenced \union {None}, Release(x)
  PROVE  Quiet
  <1>1. CASE x \in Fenced \ released
    <2>1. x # None /\ x \in Request
      BY <1>1, RequestAssumption
    <2>2. ReleaseFence(x)
      BY <1>1, <2>1 DEF Release, ReleaseFence
    <2> QED
      BY <2>1, <2>2 DEF Quiet, SchedulerStep
  <1>2. CASE x \notin Fenced \ released
    <2>1. released' = released
      BY <1>2 DEF Release
    <2> QED
      BY <2>1 DEF Release, vars, ticketVars, Quiet
  <1> QED
    BY <1>1, <1>2

LEMMA TransactIsStep ==
  ASSUME SInv, NEW t \in Fenced, Transact(t)
  PROVE  Quiet
  <1>1. CASE \/ AcquireFreeLease(t) \/ PreemptLease(t) \/ WaitForLease(t)
             \/ LeaseReleaseSeen(t) \/ WaitCancelled(t) \/ WriteCompleted(t)
             \/ AwaitCancelled(t) \/ ResponseReceived(t) \/ ResponseTimeout(t)
             \/ ReleaseResponseLease(t)
    BY <1>1 DEF AcquireFreeLease, PreemptLease, WaitForLease, LeaseReleaseSeen, WaitCancelled,
                WriteCompleted, AwaitCancelled, ResponseReceived, ResponseTimeout,
                ReleaseResponseLease, Quiet
  <1>2. CASE FinallyPreempted(t)
    BY <1>2, ReleaseIsStep DEF FinallyPreempted, SInv, SessionVarsOK
  <1>3. CASE FinallyFence(t)
    BY <1>3, ReleaseIsStep DEF FinallyFence
  <1> QED
    BY <1>1, <1>2, <1>3 DEF Transact

LEMMA ClosingIsStep ==
  ASSUME SInv, Closing
  PROVE  Quiet
  <1>1. CASE MonitorObserves \/ DisposeSession \/ FinishSessionDispose
    BY <1>1 DEF MonitorObserves, DisposeSession, FinishSessionDispose, Quiet
  <1>2. CASE DisposeScheduler
    BY <1>2 DEF DisposeScheduler, Quiet, SchedulerStep
  <1>3. ASSUME NEW c \in Canceller, CancelActiveResponse(c) PROVE Quiet
    BY <1>3 DEF CancelActiveResponse, Quiet
  <1>4. ASSUME NEW c \in Canceller, CancelReleasesFence(c) PROVE Quiet
    BY <1>4, ReleaseIsStep DEF CancelReleasesFence, SInv, SessionVarsOK
  <1>5. ASSUME NEW c \in Canceller, CancelReleasesPreempted(c) PROVE Quiet
    <2>1. cancelling[c] \in Fenced
      BY <1>5 DEF CancelReleasesPreempted, SInv, LeaseInv
    <2> QED
      BY <1>5, <2>1, ReleaseIsStep DEF CancelReleasesPreempted, SInv, SessionVarsOK
  <1> QED
    BY <1>1, <1>2, <1>3, <1>4, <1>5 DEF Closing

\* Only Submit queues anything.
LEMMA QuietOrSubmit ==
  ASSUME SInv, [SessionNext]_allVars
  PROVE  Quiet \/ \E r \in Request : Submit(r)
  <1>1. ASSUME NEW t \in Fenced, Transact(t) \/ CallOff(t) PROVE Quiet
    BY <1>1, TransactIsStep DEF CallOff, Quiet
  <1>2. ASSUME NEW r \in Request, Begin(r) \/ Register(r) \/ ForgetWrite(r) PROVE Quiet
    BY <1>2 DEF Begin, Register, ForgetWrite, Quiet
  <1>4. ASSUME NEW r \in Request, Posted(r) \/ Rejected(r) PROVE Quiet
    <2>1. PreemptedFenceOf(r) \in Fenced \union {None}
      BY DEF PreemptedFenceOf, SInv, SessionVarsOK
    <2> QED
      BY <1>4, <2>1, ReleaseIsStep DEF Posted, Rejected
  <1>5. CASE Handler
    BY <1>5 DEF Handler, StartSessionWrite, ReceiveChunk, HandleRecord, HandlerEnds,
                ReadSessionChunk, Quiet, SchedulerStep, Writer, Reader, Dispatcher
  <1>6. CASE SchedulerOnly
    BY <1>6 DEF SchedulerOnly, Quiet, SchedulerStep, Writer, Reader
  <1>7. CASE Closing
    BY <1>7, ClosingIsStep
  <1>8. CASE UNCHANGED allVars
    BY <1>8 DEF allVars, Quiet
  <1> QED
    BY <1>1, <1>2, <1>4, <1>5, <1>6, <1>7, <1>8 DEF SessionNext, Queueing

LEMMA SessionStepIsStep == SInv /\ [SessionNext]_allVars => [Next]_vars
  BY QuietOrSubmit DEF Quiet, SchedulerStep, Submit, Next

-----------------------------------------------------------------------------
(* What the scheduler does to a ticket and to a fence                      *)

\* A ticket that is not pending stays as it is; a pending one may be completed.
Settles ==
    \A r \in Request :
      outcome'[r] # outcome[r] =>
        outcome[r] = "pending" /\ outcome'[r] \notin {"none", "pending", "rejected"}

\* No fence is closed again, and the writer starts to honour only the fence of
\* the write it has in hand.
FencesOpen ==
    /\ released \subseteq released'
    /\ activeFence' \in {None, activeFence} \/ (current # None /\ activeFence' = current)

\* The writer, once it is done, does nothing more.
WriterStays == pc["writer"] = "done" => pc'["writer"] = "done"

LEMMA QuietEffect ==
  ASSUME IInv, Quiet
  PROVE  Settles /\ FencesOpen /\ WriterStays
  <1> USE DEF WriterStays
  <1>1. CASE UNCHANGED vars
    BY <1>1 DEF vars, ticketVars, writerVars, Settles, FencesOpen
  <1>2. ASSUME NEW r \in Request, FinishQueueWrite(r) PROVE Settles /\ FencesOpen /\ WriterStays
    <2>1. Settles
      BY <1>2 DEF FinishQueueWrite, OutcomeWithVictim, Settles, IInv, TypeOK, TicketType, TicketInv
    <2> QED
      BY <1>2, <2>1 DEF FinishQueueWrite, FencesOpen
  <1>3. ASSUME NEW r \in Request, ReleaseFence(r) PROVE Settles /\ FencesOpen /\ WriterStays
    BY <1>3 DEF ReleaseFence, Settles, FencesOpen, writerVars
  <1>4. CASE Writer
    <2>1. ASSUME NEW o \in {"written", "expired", "cancelled", "failed"}, CompleteWrite(o),
                 current # None
          PROVE  Settles
      BY <2>1 DEF CompleteWrite, Settles, IInv, TypeOK, TicketType, WriterType, TicketInv
    <2>2. CASE Expire \/ WriteFails \/ WriteCancelled \/ ObserverFails \/ WriteSucceeds
      <3>1. current # None /\ pc["writer"] # "done"
        BY <2>2 DEF Expire, WriteFails, WriteCancelled, ObserverFails, WriteSucceeds, IInv,
                    WriterInv, WriterBusy
      <3>2. Settles
        BY <2>1, <2>2, <3>1 DEF Expire, WriteFails, WriteCancelled, ObserverFails, WriteSucceeds
      <3> QED
        BY <2>2, <3>1, <3>2 DEF Expire, WriteFails, WriteCancelled, ObserverFails,
                                WriteSucceeds, CompleteWrite, FencesOpen
    <2>3. CASE WriterFinally
      <3>1. Settles
        BY <2>3 DEF WriterFinally, CancelQueuedWrites, OutcomeCancelled, Settles, Queued,
                    IInv, TypeOK, TicketType, TicketInv
      <3> QED
        BY <2>3, <3>1 DEF WriterFinally, FencesOpen, writerVars
    <2>4. CASE TakeSafety \/ TakeFair \/ TakeNothing \/ CheckEligible
      BY <2>4 DEF TakeSafety, TakeFair, TakeNothing, CheckEligible, Take, FenceInForce,
                  Settles, FencesOpen, ticketVars
    <2>5. CASE \/ WriterStopsAtLoop \/ DrainWake \/ Woken \/ FenceReleaseSeen
               \/ ParkCancelled \/ StartWrite \/ RetryWrite \/ TransientTimeout
      BY <2>5 DEF WriterStopsAtLoop, DrainWake, Woken, FenceReleaseSeen, ParkCancelled,
                  StartWrite, RetryWrite, Attempt, TransientTimeout, Settles, FencesOpen,
                  ticketVars, writerVars
    <2> QED
      BY <1>4, <2>2, <2>3, <2>4, <2>5 DEF Writer
  <1>5. CASE Reader \/ Dispatcher
    <2>1. UNCHANGED <<outcome, released, activeFence>>
      BY <1>5 DEF Reader, Dispatcher, ReadChunk, EnqueueChunk, ReaderCancelled, ReadFails,
         ReaderFinally, DispatchChunk, HandlerReturns, HandlerFails, DispatcherEnds,
         ticketVars, writerVars
    <2>2. pc'["writer"] = pc["writer"]
      BY <1>5 DEF Reader, Dispatcher, ReadChunk, EnqueueChunk, ReaderCancelled, ReadFails,
         ReaderFinally, DispatchChunk, HandlerReturns, HandlerFails, DispatcherEnds, Goto,
         IInv, TypeOK, PcType, Actor
    <2> QED
      BY <2>1, <2>2 DEF Settles, FencesOpen
  <1>6. ASSUME NEW a \in Actor, Stop(a) PROVE Settles /\ FencesOpen /\ WriterStays
    <2>1. UNCHANGED <<outcome, released, activeFence>> /\ pc[a] # "done"
      BY <1>6 DEF Stop, RecordFault, CancelLifetime, CloseTransportOnce, ticketVars, writerVars
    <2>2. PICK l : pc' = [pc EXCEPT ![a] = l]
      BY <1>6 DEF Stop, RecordFault, CancelLifetime, CloseTransportOnce, Goto
    <2>3. pc \in [Actor -> Pc]
      BY DEF IInv, TypeOK, PcType
    <2> QED
      BY <2>1, <2>2, <2>3 DEF Settles, FencesOpen, Actor
  <1>7. CASE BeginDispose
    BY <1>7 DEF BeginDispose, ticketVars, writerVars, Settles, FencesOpen, Goto, IInv,
                TypeOK, PcType
  <1>8. CASE FinishDispose
    <2>1. Settles
      BY <1>8 DEF FinishDispose, CancelQueuedWrites, OutcomeCancelled, Settles, Queued, IInv,
                  TypeOK, TicketType, TicketInv
    <2> QED
      BY <1>8, <2>1 DEF FinishDispose, FencesOpen, writerVars, Goto, IInv, TypeOK, PcType
  <1> QED
    BY <1>1, <1>2, <1>3, <1>4, <1>5, <1>6, <1>7, <1>8 DEF Quiet, SchedulerStep

\* A submission opens one fresh ticket, or rejects it, and touches no fence.
LEMMA SubmitEffect ==
  ASSUME SInv, NEW r \in Request, Submit(r)
  PROVE  /\ outcome[r] = "none" /\ outcome'[r] \in {"pending", "rejected"}
         /\ \A q \in Request \ {r} : outcome'[q] = outcome[q] /\ call'[q] = call[q]
         /\ call[r] = "submit"
         /\ call'[r] = IF outcome'[r] = "rejected" THEN "rejected" ELSE "posted"
         /\ UNCHANGED <<released, activeFence, pc>>
  <1>1. outcome[r] = "none" /\ call[r] = "submit"
    BY DEF Submit, SInv, CallInv, NotQueued
  <1>2. outcome \in [Request -> Outcome] /\ call \in [Request -> CallPc]
    BY DEF SInv, IInv, TypeOK, TicketType, SessionVarsOK
  <1>3. /\ \E o \in {"pending", "rejected"} : outcome' = [outcome EXCEPT ![r] = o]
        /\ UNCHANGED <<released, activeFence, pc>>
    BY <1>1 DEF Submit, QueueWrite, RejectWrite, AcceptWrite, SupersedeWrite, Enlist, writerVars
  <1>4. call' = [call EXCEPT ![r] = IF outcome'[r] = "rejected" THEN "rejected" ELSE "posted"]
    BY DEF Submit, Step
  <1> QED
    BY <1>1, <1>2, <1>3, <1>4

-----------------------------------------------------------------------------
(* The session's variables keep their types                                *)

\* What the steps that write them leave in the two response functions.
LEMMA AnsweredOK ==
  ASSUME SessionVarsOK, NEW t \in Fenced, NEW o \in Response
  PROVE  /\ Answered(t, o) \in [Fenced -> Response]
         /\ \A u \in Fenced : Answered(t, o)[u] =
              IF u = t /\ response[t] = "none" THEN o ELSE response[u]
  BY DEF SessionVarsOK, Answered

LEMMA StepOK ==
  ASSUME SessionVarsOK, NEW r \in Request, NEW l \in CallPc, Step(r, l)
  PROVE  /\ call' \in [Request -> CallPc] /\ call'[r] = l
         /\ \A q \in Request \ {r} : call'[q] = call[q]
  BY DEF SessionVarsOK, Step

LEMMA ReturnOK ==
  ASSUME SessionVarsOK, NEW r \in Request, NEW o \in Result, Return(r, o)
  PROVE  result' \in [Request -> Result]
  BY DEF SessionVarsOK, Return

LEMMA ForgetOK ==
  ASSUME SessionVarsOK, NEW r \in Request, ForgetPreempted(r)
  PROVE  preemptedFence' \in [Fenced -> Fenced \union {None}]
  BY DEF SessionVarsOK, ForgetPreempted

LEMMA AtOK ==
  ASSUME SessionVarsOK, NEW c \in Canceller, NEW l \in CancelPc, At(c, l)
  PROVE  /\ canceller' \in [Canceller -> CancelPc] /\ canceller'[c] = l
         /\ \A d \in Canceller \ {c} : canceller'[d] = canceller[d]
  BY DEF SessionVarsOK, At

LEMMA VarsOfTransact ==
  ASSUME SInv, NEW t \in Fenced, Transact(t)
  PROVE  SessionVarsOK'
  <1> SessionVarsOK /\ t \in Request
    BY RequestAssumption DEF SInv
  <1>1. ASSUME NEW l \in {"acquire", "wait", "register", "finally", "awaitResponse", "fence",
                          "release", "done"}, Step(t, l)
        PROVE  call' \in [Request -> CallPc]
    BY <1>1, StepOK DEF CallPc
  <1>2. CASE AcquireFreeLease(t) \/ WaitForLease(t) \/ LeaseReleaseSeen(t)
    <2>1. call' \in [Request -> CallPc]
      BY <1>1, <1>2 DEF AcquireFreeLease, WaitForLease, LeaseReleaseSeen
    <2> QED
      BY <1>2, <2>1 DEF AcquireFreeLease, WaitForLease, LeaseReleaseSeen, SessionVarsOK,
                        leaseVars, cancelVars, handlerVars
  <1>3. CASE PreemptLease(t)
    <2>1. call' \in [Request -> CallPc]
      BY <1>1, <1>3 DEF PreemptLease
    <2>2. activeResponse \in Fenced
      BY <1>3 DEF PreemptLease, Preempts, SessionVarsOK
    <2>3. response' \in [Fenced -> Response]
      BY <1>3, <2>2, AnsweredOK DEF PreemptLease, Response
    <2> QED
      BY <1>3, <2>1, <2>2, <2>3 DEF PreemptLease, SessionVarsOK, cancelVars, handlerVars
  <1>4. CASE \/ WaitCancelled(t) \/ WriteCompleted(t) \/ AwaitCancelled(t)
             \/ ResponseReceived(t) \/ ResponseTimeout(t)
    <2>1. call' \in [Request -> CallPc]
      BY <1>1, <1>4 DEF WaitCancelled, WriteCompleted, AwaitCancelled, ResponseReceived,
                        ResponseTimeout
    <2>2. Thrown(outcome[t]) \in Result
      BY DEF Thrown, Result
    <2>3. (IF response[t] \in Chunk THEN "response" ELSE response[t]) \in Result
      BY DEF SessionVarsOK, Response, Result
    <2>4. result' \in [Request -> Result]
      <3>1. CASE WaitCancelled(t) \/ AwaitCancelled(t)
        BY <3>1, ReturnOK DEF WaitCancelled, AwaitCancelled, Result
      <3>2. CASE WriteCompleted(t)
        BY <3>2, <2>2, ReturnOK DEF WriteCompleted, SessionVarsOK
      <3>3. CASE ResponseReceived(t)
        BY <3>3, <2>3, ReturnOK DEF ResponseReceived
      <3>4. CASE ResponseTimeout(t)
        BY <3>4, ReturnOK DEF ResponseTimeout, Result
      <3> QED
        BY <1>4, <3>1, <3>2, <3>3, <3>4
    <2> QED
      BY <1>4, <2>1, <2>4 DEF WaitCancelled, WriteCompleted, AwaitCancelled,
         ResponseReceived, ResponseTimeout, SessionVarsOK, leaseVars, cancelVars, handlerVars
  <1>5. CASE FinallyPreempted(t) \/ FinallyFence(t) \/ ReleaseResponseLease(t)
    <2>1. call' \in [Request -> CallPc]
      BY <1>1, <1>5 DEF FinallyPreempted, FinallyFence, ReleaseResponseLease
    <2>2. preemptedFence' \in [Fenced -> Fenced \union {None}]
      BY <1>5, ForgetOK DEF FinallyPreempted, FinallyFence, ReleaseResponseLease, SessionVarsOK,
                            leaseVars
    <2> QED
      BY <1>5, <2>1, <2>2 DEF FinallyPreempted, FinallyFence, ReleaseResponseLease, LeaseAfter,
                              SessionVarsOK, leaseVars, cancelVars, handlerVars
  <1> QED
    BY <1>2, <1>3, <1>4, <1>5 DEF Transact

LEMMA VarsOfQueueing ==
  ASSUME SInv, NEW r \in Request, Begin(r) \/ Queueing(r) \/ ForgetWrite(r)
  PROVE  SessionVarsOK'
  <1> SessionVarsOK
    BY DEF SInv
  <1>1. CASE Begin(r)
    <2>1. call' \in [Request -> CallPc] /\ result' \in [Request -> Result]
      BY <1>1, StepOK, ReturnOK DEF Begin, CallPc, Result, SessionVarsOK
    <2> QED
      BY <1>1, <2>1 DEF Begin, SessionVarsOK, leaseVars, cancelVars, handlerVars
  <1>2. CASE Register(r)
    <2>1. AfterFailure(r) \in CallPc
      BY DEF AfterFailure, CallPc
    <2>2. call' \in [Request -> CallPc] /\ result' \in [Request -> Result]
      BY <1>2, <2>1, StepOK, ReturnOK DEF Register, CallPc, Result, SessionVarsOK
    <2> QED
      BY <1>2, <2>2 DEF Register, SessionVarsOK, leaseVars, cancelVars, handlerVars
  <1>3. CASE Submit(r)
    <2>1. call' \in [Request -> CallPc]
      BY <1>3, StepOK DEF Submit, CallPc
    <2> QED
      BY <1>3, <2>1 DEF Submit, SessionVarsOK, leaseVars, cancelVars, handlerVars
  <1>4. CASE Posted(r) \/ Rejected(r)
    <2>1. AfterFailure(r) \in CallPc
      BY DEF AfterFailure, CallPc
    <2>2. call' \in [Request -> CallPc] /\ result' \in [Request -> Result]
      BY <1>4, <2>1, StepOK, ReturnOK DEF Posted, Rejected, CallPc, Result, SessionVarsOK
    <2>3. preemptedFence' \in [Fenced -> Fenced \union {None}]
      BY <1>4, ForgetOK DEF Posted, Rejected
    <2> QED
      BY <1>4, <2>2, <2>3 DEF Posted, Rejected, SessionVarsOK, cancelVars, handlerVars
  <1>5. CASE ForgetWrite(r)
    BY <1>5 DEF ForgetWrite, SessionVarsOK, callVars, leaseVars, cancelVars, handlerVars
  <1> QED
    BY <1>1, <1>2, <1>3, <1>4, <1>5 DEF Queueing

LEMMA VarsOfClosing ==
  ASSUME SInv, Closing
  PROVE  SessionVarsOK'
  <1> SessionVarsOK
    BY DEF SInv
  <1>0. /\ "monitor" \in Canceller /\ "disposer" \in Canceller
        /\ \A l \in {"cancel", "fence", "preempted", "await", "done"} : l \in CancelPc
        /\ \A c \in Canceller : AfterCancel(c) \in CancelPc
    BY DEF Canceller, CancelPc, AfterCancel
  <1>1. CASE MonitorObserves \/ DisposeSession \/ DisposeScheduler \/ FinishSessionDispose
    <2>1. canceller' \in [Canceller -> CancelPc]
      BY <1>0, <1>1, AtOK DEF MonitorObserves, DisposeSession, DisposeScheduler,
                              FinishSessionDispose
    <2> QED
      BY <1>1, <2>1 DEF MonitorObserves, DisposeSession, DisposeScheduler,
         FinishSessionDispose, SessionVarsOK, callVars, leaseVars, handlerVars
  <1>2. ASSUME NEW c \in Canceller, CancelActiveResponse(c) PROVE SessionVarsOK'
    <2>1. canceller' \in [Canceller -> CancelPc]
      BY <1>0, <1>2, AtOK DEF CancelActiveResponse
    <2>2. Reason(c) \in Response
      BY DEF Reason, Response
    <2>3. response' \in [Fenced -> Response]
      BY <1>2, <2>2, AnsweredOK DEF CancelActiveResponse, SessionVarsOK
    <2> QED
      BY <1>2, <2>1, <2>3 DEF CancelActiveResponse, SessionVarsOK, callVars, handlerVars
  <1>3. ASSUME NEW c \in Canceller, CancelReleasesFence(c) \/ CancelReleasesPreempted(c)
        PROVE SessionVarsOK'
    <2>1. canceller' \in [Canceller -> CancelPc]
      BY <1>0, <1>3, AtOK DEF CancelReleasesFence, CancelReleasesPreempted
    <2>2. CASE CancelReleasesFence(c)
      BY <2>1, <2>2 DEF CancelReleasesFence, SessionVarsOK, callVars, leaseVars, handlerVars
    <2>3. CASE CancelReleasesPreempted(c)
      <3>1. cancelling[c] \in Fenced
        BY <2>3 DEF CancelReleasesPreempted, SInv, LeaseInv
      <3>2. preemptedFence' \in [Fenced -> Fenced \union {None}]
        BY <2>3, <3>1, ForgetOK, RequestAssumption DEF CancelReleasesPreempted
      <3> QED
        BY <2>1, <2>3, <3>1, <3>2 DEF CancelReleasesPreempted, SessionVarsOK, callVars,
                                      handlerVars
    <2> QED
      BY <1>3, <2>2, <2>3
  <1> QED
    BY <1>1, <1>2, <1>3 DEF Closing

LEMMA VarsStep ==
  ASSUME SInv, [SessionNext]_allVars
  PROVE  SessionVarsOK'
  <1> SessionVarsOK
    BY DEF SInv
  <1>1. ASSUME NEW t \in Fenced, CallOff(t) PROVE SessionVarsOK'
    BY <1>1 DEF CallOff, SessionVarsOK, leaseVars, cancelVars, handlerVars
  <1>2. CASE HandleRecord
    <2>2. response' \in [Fenced -> Response]
      <3>1. CASE captured # None /\ response' = Answered(captured, "error")
        BY <3>1, AnsweredOK DEF SessionVarsOK, Response
      <3>2. CASE /\ captured # None /\ held["dispatcher"] \in Expects[captured]
                 /\ response' = Answered(captured, held["dispatcher"])
        <4>1. held["dispatcher"] \in Response
          BY <3>2, SessionAssumption DEF SessionVarsOK, Response
        <4> QED
          BY <3>2, <4>1, AnsweredOK DEF SessionVarsOK
      <3> QED
        BY <1>2, <3>1, <3>2 DEF HandleRecord, SessionVarsOK
    <2> QED
      BY <1>2, <2>2 DEF HandleRecord, SessionVarsOK, callVars, cancelVars
  <1>3. CASE StartSessionWrite
    BY <1>3 DEF StartSessionWrite, ArmedByStart, SessionVarsOK, callVars, cancelVars,
                handlerVars
  <1>4. CASE ReceiveChunk \/ HandlerEnds \/ \E c \in Chunk : ReadSessionChunk(c)
    BY <1>4 DEF ReceiveChunk, HandlerEnds, ReadSessionChunk, SessionVarsOK, callVars,
                leaseVars, cancelVars
  <1>5. CASE SchedulerOnly \/ UNCHANGED allVars
    BY <1>5 DEF SchedulerOnly, allVars, sessionVars, SessionVarsOK, callVars, leaseVars,
                cancelVars, handlerVars
  <1> QED
    BY <1>1, <1>2, <1>3, <1>4, <1>5, VarsOfTransact, VarsOfQueueing, VarsOfClosing
    DEF SessionNext, Handler

-----------------------------------------------------------------------------
(* Where a call can go                                                     *)

\* A call that was not queued is one that never was; it closes its own fence on
\* its way out; and it has metadata when it is about to queue its write.
CallMoves ==
    /\ \A r \in Request :
         /\ call'[r] \in NotQueued => call[r] \in NotQueued
         /\ call'[r] = "rejected" => call[r] = "rejected"
         /\ call'[r] = "submit" => call[r] = "submit" \/ r \in writes'
    /\ \A t \in Fenced :
         /\ call'[t] = "release" => call[t] = "release" \/ t \in released'
         /\ call'[t] = "done" => call[t] \in {"done", "release", "idle", "wait"}

LEMMA CallsMove ==
  ASSUME SInv, [SessionNext]_allVars
  PROVE  CallMoves \/ \E r \in Request : Submit(r)
  <1> SessionVarsOK
    BY DEF SInv
  <1>0. UNCHANGED call => CallMoves
    BY DEF CallMoves
  <1>1. ASSUME NEW r \in Request, NEW l \in CallPc, Step(r, l), call[r] # l,
               l \in NotQueued => call[r] \in NotQueued,
               l # "rejected", l = "submit" => r \in writes',
               r \in Fenced /\ l = "release" => r \in released',
               r \in Fenced /\ l = "done" => call[r] \in {"release", "idle", "wait"}
        PROVE  CallMoves
    BY <1>1, StepOK, RequestAssumption DEF CallMoves
  <1>2. ASSUME NEW t \in Fenced, Transact(t) PROVE CallMoves
    <2> t \in Request
      BY RequestAssumption
    <2>1. CASE AcquireFreeLease(t) \/ PreemptLease(t)
      BY <1>1, <2>1 DEF AcquireFreeLease, PreemptLease, CallPc, NotQueued
    <2>2. CASE WaitForLease(t) \/ LeaseReleaseSeen(t) \/ WaitCancelled(t)
      BY <1>1, <2>2 DEF WaitForLease, LeaseReleaseSeen, WaitCancelled, CallPc, NotQueued
    <2>3. CASE WriteCompleted(t) \/ AwaitCancelled(t)
      BY <1>1, <2>3 DEF WriteCompleted, AwaitCancelled, CallPc, NotQueued
    <2>4. CASE ResponseReceived(t) \/ ResponseTimeout(t) \/ FinallyPreempted(t)
      BY <1>1, <2>4 DEF ResponseReceived, ResponseTimeout, FinallyPreempted, CallPc, NotQueued
    <2>5. CASE FinallyFence(t)
      <3>1. t \in released'
        BY <2>5, RequestAssumption DEF FinallyFence, Release
      <3> QED
        BY <1>1, <2>5, <3>1 DEF FinallyFence, CallPc, NotQueued
    <2>6. CASE ReleaseResponseLease(t)
      BY <1>1, <2>6 DEF ReleaseResponseLease, CallPc, NotQueued
    <2> QED
      BY <1>2, <2>1, <2>2, <2>3, <2>4, <2>5, <2>6 DEF Transact
  <1>3. ASSUME NEW r \in Request, Begin(r) PROVE CallMoves
    BY <1>0, <1>1, <1>3 DEF Begin, CallPc, NotQueued
  <1>4. ASSUME NEW r \in Request, Register(r) PROVE CallMoves
    <2>1. CASE Step(r, "submit") /\ r \in writes'
      BY <1>1, <1>4, <2>1 DEF Register, CallPc, NotQueued
    <2>2. CASE Step(r, AfterFailure(r))
      BY <1>1, <1>4, <2>2 DEF Register, AfterFailure, CallPc, NotQueued
    <2> QED
      BY <1>4, <2>1, <2>2 DEF Register
  <1>5. ASSUME NEW r \in Request, Posted(r) PROVE CallMoves
    BY <1>1, <1>5 DEF Posted, CallPc, NotQueued
  <1>6. ASSUME NEW r \in Request, Rejected(r) PROVE CallMoves
    BY <1>1, <1>6 DEF Rejected, AfterFailure, CallPc, NotQueued
  <1>7. ASSUME NEW r \in Request, ForgetWrite(r) PROVE CallMoves
    BY <1>0, <1>7 DEF ForgetWrite, callVars
  <1>8. CASE Handler \/ SchedulerOnly \/ UNCHANGED allVars
    BY <1>0, <1>8 DEF Handler, StartSessionWrite, ReceiveChunk, HandleRecord, HandlerEnds,
                      ReadSessionChunk, SchedulerOnly, allVars, sessionVars, callVars
  <1>9. CASE Closing
    BY <1>0, <1>9 DEF Closing, MonitorObserves, DisposeSession, DisposeScheduler,
         FinishSessionDispose, CancelActiveResponse, CancelReleasesFence,
         CancelReleasesPreempted, callVars
  <1>10. ASSUME NEW t \in Fenced, CallOff(t) PROVE CallMoves
    BY <1>0, <1>10 DEF CallOff
  <1> QED
    BY <1>2, <1>3, <1>4, <1>5, <1>6, <1>7, <1>8, <1>9, <1>10 DEF SessionNext, Queueing

LEMMA CallInvStep ==
  ASSUME SInv, [SessionNext]_allVars
  PROVE  CallInv'
  <1> USE RequestAssumption DEF SInv
  <1>0. outcome \in [Request -> Outcome] /\ activeFence \in Fenced \union {None}
    BY DEF IInv, TypeOK, TicketType, WriterType
  <1>1. ASSUME NEW r \in Request, Submit(r) PROVE CallInv'
    BY <1>1, <1>0, SubmitEffect DEF CallInv, NotQueued
  <1>2. ASSUME Quiet, CallMoves PROVE CallInv'
    <2>1. Settles /\ FencesOpen
      BY <1>2, QuietEffect
    <2>2. \A r \in Request : call'[r] \in NotQueued => outcome'[r] = "none"
      BY <1>2, <2>1 DEF CallMoves, CallInv, Settles
    <2>3. \A r \in Request : call'[r] = "rejected" => outcome'[r] = "rejected"
      BY <1>2, <2>1 DEF CallMoves, CallInv, Settles
    <2>4. ASSUME NEW t \in Fenced,
                 call'[t] = "release" \/ (call'[t] = "done" /\ outcome'[t] # "none")
          PROVE  t \in released'
      <3>1. CASE call'[t] = "release"
        BY <1>2, <2>1, <3>1 DEF CallMoves, CallInv, FencesOpen
      <3>2. CASE call'[t] = "done" /\ outcome'[t] # "none"
        <4>1. outcome[t] # "none"
          BY <2>1, <3>2 DEF Settles
        <4>2. call[t] \in {"done", "release"}
          BY <1>2, <3>2, <4>1 DEF CallMoves, CallInv, NotQueued
        <4> QED
          BY <2>1, <4>1, <4>2 DEF CallInv, FencesOpen
      <3> QED
        BY <2>4, <3>1, <3>2
    <2>5. activeFence' # None => outcome'[activeFence'] # "none"
      <3>1. current # None => outcome[current] = "pending" /\ current \in Request
        BY DEF IInv, TicketInv, TypeOK, WriterType
      <3> QED
        BY <1>0, <2>1, <3>1 DEF CallInv, FencesOpen, Settles
    <2> QED
      BY <2>2, <2>3, <2>4, <2>5 DEF CallInv
  <1> QED
    BY <1>1, <1>2, QuietOrSubmit, CallsMove

LEMMA MetaInvStep ==
  ASSUME SInv, [SessionNext]_allVars
  PROVE  MetaInv'
  <1> USE DEF SInv
  <1>0. outcome \in [Request -> Outcome] /\ canceller \in [Canceller -> CancelPc]
        /\ "monitor" \in Canceller /\ "disposer" \in Canceller
    BY DEF IInv, TypeOK, TicketType, SessionVarsOK, Canceller
  \* What the steps do to the metadata and to the two cancellers.
  <1>1. ASSUME NEW r \in Request, Submit(r) PROVE MetaInv'
    <2>1. UNCHANGED <<canceller, writes>>
      BY <1>1 DEF Submit, cancelVars
    <2> QED
      BY <1>0, <1>1, <2>1, SubmitEffect DEF MetaInv
  <1>2. ASSUME Quiet, CallMoves, SessionNext PROVE MetaInv'
    <2>1. Settles /\ WriterStays
      BY <1>2, QuietEffect
    <2>2. ASSUME UNCHANGED canceller,
                 \A r \in writes \ writes' : outcome[r] # "pending" /\ call[r] # "submit"
          PROVE  MetaInv'
      BY <1>2, <2>1, <2>2 DEF CallMoves, MetaInv, Settles, WriterStays
    <2>3. ASSUME NEW c \in Canceller, NEW l \in CancelPc \ {"idle", "done"}, At(c, l),
                 canceller[c] \notin {"done"}, UNCHANGED writes,
                 c = "monitor" => canceller[c] # "idle"
          PROVE  MetaInv'
      <3>1. /\ canceller'[c] = l
            /\ \A d \in Canceller \ {c} : canceller'[d] = canceller[d]
        BY <2>3, AtOK
      <3> QED
        BY <1>0, <1>2, <2>1, <2>3, <3>1 DEF CallMoves, MetaInv, Settles, WriterStays
    <2>4. ASSUME NEW t \in Fenced, Transact(t) \/ CallOff(t) PROVE MetaInv'
      BY <2>2, <2>4 DEF Transact, CallOff, AcquireFreeLease, PreemptLease, WaitForLease,
         LeaseReleaseSeen, WaitCancelled, WriteCompleted, AwaitCancelled, ResponseReceived,
         ResponseTimeout, FinallyPreempted, FinallyFence, ReleaseResponseLease, cancelVars
    <2>5. ASSUME NEW r \in Request, Begin(r) \/ Queueing(r) \/ ForgetWrite(r), ~Submit(r)
          PROVE  MetaInv'
      <3>1. CASE Begin(r) \/ Register(r) \/ Posted(r)
        BY <2>2, <3>1 DEF Begin, Register, Posted, cancelVars
      <3>2. CASE Rejected(r)
        <4>1. outcome[r] = "rejected" /\ call[r] = "rejected" /\ writes' = writes \ {r}
          BY <3>2 DEF Rejected, CallInv
        <4> QED
          BY <2>2, <3>2, <4>1 DEF Rejected, cancelVars
      <3>3. CASE ForgetWrite(r)
        BY <2>2, <3>3 DEF ForgetWrite, Forgettable, cancelVars
      <3> QED
        BY <2>5, <3>1, <3>2, <3>3 DEF Queueing
    <2>6. CASE Handler \/ SchedulerOnly
      BY <2>2, <2>6 DEF Handler, StartSessionWrite, ReceiveChunk, HandleRecord, HandlerEnds,
                        ReadSessionChunk, SchedulerOnly, sessionVars, cancelVars
    <2>7. CASE MonitorObserves
      <3>1. pc["writer"] = "done" /\ UNCHANGED writes
        BY <2>7 DEF MonitorObserves, Completion, Runtime
      <3>2. canceller'["disposer"] = canceller["disposer"]
        BY <1>0, <2>7 DEF MonitorObserves, At
      <3> QED
        BY <1>2, <2>1, <3>1, <3>2 DEF CallMoves, MetaInv, Settles, WriterStays
    <2>8. CASE FinishSessionDispose
      <3>1. canceller["monitor"] = "done" /\ canceller'["monitor"] = "done"
            /\ canceller'["disposer"] = "done"
        BY <1>0, <2>8 DEF FinishSessionDispose, At
      <3> QED
        BY <2>1, <3>1 DEF MetaInv, WriterStays
    <2>9. CASE DisposeSession
      <3>1. canceller["disposer"] # "done"
        BY <2>9 DEF DisposeSession, SInv, DisposedInv
      <3> QED
        BY <2>3, <2>9, <3>1 DEF DisposeSession, Canceller, CancelPc
    <2>10. CASE DisposeScheduler
      BY <2>3, <2>10 DEF DisposeScheduler, Canceller, CancelPc
    <2>11. ASSUME NEW c \in Canceller,
                  \/ CancelActiveResponse(c) \/ CancelReleasesFence(c)
                  \/ CancelReleasesPreempted(c)
           PROVE  MetaInv'
      <3>1. canceller[c] \in {"cancel", "fence", "preempted"} /\ UNCHANGED writes
        BY <2>11 DEF CancelActiveResponse, CancelReleasesFence, CancelReleasesPreempted
      <3>2. PICK l \in {"fence", "preempted", AfterCancel(c)} : At(c, l)
        BY <2>11 DEF CancelActiveResponse, CancelReleasesFence, CancelReleasesPreempted
      <3>3. CASE c = "disposer"
        BY <2>3, <3>1, <3>2, <3>3 DEF AfterCancel, CancelPc
      <3>4. CASE c = "monitor"
        <4>1. pc["writer"] = "done" /\ canceller'["disposer"] = canceller["disposer"]
          BY <1>0, <3>1, <3>2, <3>4 DEF MetaInv, At
        <4> QED
          BY <1>2, <2>1, <3>1, <4>1 DEF CallMoves, MetaInv, Settles, WriterStays
      <3> QED
        BY <3>3, <3>4 DEF Canceller
    <2>12. CASE \E r \in Request : Submit(r)
      BY <1>1, <2>12
    <2> QED
      BY <1>2, <2>4, <2>5, <2>6, <2>7, <2>8, <2>9, <2>10, <2>11, <2>12
      DEF SessionNext, Closing, Queueing
  <1>3. CASE UNCHANGED allVars
    BY <1>3 DEF allVars, vars, sessionVars, ticketVars, callVars, cancelVars, MetaInv
  <1> QED
    BY <1>1, <1>2, <1>3, QuietOrSubmit, CallsMove

-----------------------------------------------------------------------------
(* The response lease                                                      *)

\* A step that leaves the lease where it is, takes back no answer and moves no
\* transaction into or out of its try block.
LeaseFrame ==
    /\ UNCHANGED activeResponse
    /\ \A t \in Fenced :
         /\ call'[t] \in Holding <=> call[t] \in Holding
         /\ response[t] # "none" => response'[t] # "none"

CancelInv ==
    \A c \in Canceller : canceller[c] \in {"fence", "preempted"} => cancelling[c] \in Fenced

LEMMA LeaseFramed ==
  ASSUME SInv, LeaseFrame, CancelInv'
  PROVE  LeaseInv'
  <1>1. activeResponse \in Fenced \union {None}
    BY DEF SInv, SessionVarsOK
  <1>2. LeaseHeldByLiveCall'
    BY <1>1 DEF LeaseFrame, SInv, LeaseInv, LeaseHeldByLiveCall
  <1>3. \A t \in Fenced : call'[t] \in Holding /\ t # activeResponse' => response'[t] # "none"
    BY DEF LeaseFrame, SInv, LeaseInv
  <1> QED
    BY <1>2, <1>3 DEF LeaseInv, CancelInv

LEMMA LeaseOfTransact ==
  ASSUME SInv, NEW t \in Fenced, Transact(t), CancelInv'
  PROVE  LeaseInv'
  <1> SessionVarsOK /\ t \in Request /\ t # None
    BY RequestAssumption DEF SInv
  <1>1. ASSUME NEW l \in CallPc, Step(t, l), call[t] \in Holding <=> l \in Holding,
               UNCHANGED <<activeResponse, response>>
        PROVE  LeaseInv'
    <2>1. LeaseFrame
      BY <1>1, StepOK, RequestAssumption DEF LeaseFrame
    <2> QED
      BY <2>1, LeaseFramed
  <1>2. CASE AcquireFreeLease(t)
    <2>1. call'[t] = "register" /\ \A q \in Request \ {t} : call'[q] = call[q]
      BY <1>2, StepOK DEF AcquireFreeLease, CallPc
    <2> QED
      BY <1>2, <2>1, RequestAssumption DEF AcquireFreeLease, SInv, LeaseInv,
         LeaseHeldByLiveCall, Holding, CancelInv
  <1>3. CASE PreemptLease(t)
    <2>1. call'[t] = "register" /\ \A q \in Request \ {t} : call'[q] = call[q]
      BY <1>3, StepOK DEF PreemptLease, CallPc
    <2>2. activeResponse \in Fenced
      BY <1>3 DEF PreemptLease, Preempts, SessionVarsOK
    <2>3. \A u \in Fenced : /\ response[u] # "none" => response'[u] # "none"
                            /\ u = activeResponse => response'[u] # "none"
      BY <1>3, <2>2, AnsweredOK DEF PreemptLease, Response
    <2>4. activeResponse' = t
      BY <1>3 DEF PreemptLease
    <2>5. LeaseHeldByLiveCall'
      BY <2>1, <2>4 DEF LeaseHeldByLiveCall, Holding
    <2>6. \A u \in Fenced : call'[u] \in Holding /\ u # activeResponse' => response'[u] # "none"
      BY <2>1, <2>3, <2>4, RequestAssumption DEF SInv, LeaseInv
    <2> QED
      BY <2>5, <2>6 DEF LeaseInv, CancelInv
  <1>4. CASE WaitForLease(t) \/ LeaseReleaseSeen(t) \/ WaitCancelled(t)
    BY <1>1, <1>4 DEF WaitForLease, LeaseReleaseSeen, WaitCancelled, leaseVars, CallPc, Holding
  <1>5. CASE WriteCompleted(t) \/ AwaitCancelled(t)
    BY <1>1, <1>5 DEF WriteCompleted, AwaitCancelled, leaseVars, CallPc, Holding
  <1>6. CASE ResponseReceived(t) \/ ResponseTimeout(t)
    BY <1>1, <1>6 DEF ResponseReceived, ResponseTimeout, leaseVars, CallPc, Holding
  <1>7. CASE FinallyPreempted(t) \/ FinallyFence(t)
    BY <1>1, <1>7 DEF FinallyPreempted, FinallyFence, leaseVars, CallPc, Holding
  <1>8. CASE ReleaseResponseLease(t)
    <2>1. call'[t] = "done" /\ \A q \in Request \ {t} : call'[q] = call[q]
      BY <1>8, StepOK DEF ReleaseResponseLease, CallPc
    <2>2. activeResponse' = (IF activeResponse = t THEN None ELSE activeResponse)
          /\ UNCHANGED response
      BY <1>8 DEF ReleaseResponseLease, LeaseAfter
    <2>3. LeaseHeldByLiveCall'
      BY <2>1, <2>2, RequestAssumption DEF SInv, LeaseInv, LeaseHeldByLiveCall, SessionVarsOK
    <2>4. \A u \in Fenced : call'[u] \in Holding /\ u # activeResponse' => response'[u] # "none"
      BY <2>1, <2>2, RequestAssumption DEF SInv, LeaseInv, Holding
    <2> QED
      BY <2>3, <2>4 DEF LeaseInv, CancelInv
  <1> QED
    BY <1>2, <1>3, <1>4, <1>5, <1>6, <1>7, <1>8 DEF Transact

LEMMA CancelInvStep ==
  ASSUME SInv, [SessionNext]_allVars
  PROVE  CancelInv' /\ DisposedInv'
  <1> SessionVarsOK /\ CancelInv /\ DisposedInv
    BY DEF SInv, LeaseInv, CancelInv
  <1> /\ "monitor" \in Canceller /\ "disposer" \in Canceller
      /\ canceller \in [Canceller -> CancelPc] /\ disposed \in BOOLEAN
      /\ cancelling \in [Canceller -> Fenced \union {None}]
    BY DEF Canceller, SessionVarsOK
  <1>0. UNCHANGED cancelVars => CancelInv' /\ DisposedInv'
    BY DEF cancelVars, CancelInv, DisposedInv
  <1>1. ASSUME NEW t \in Fenced, Transact(t) \/ CallOff(t) PROVE UNCHANGED cancelVars
    BY <1>1 DEF Transact, CallOff, AcquireFreeLease, PreemptLease, WaitForLease,
       LeaseReleaseSeen, WaitCancelled, WriteCompleted, AwaitCancelled, ResponseReceived,
       ResponseTimeout, FinallyPreempted, FinallyFence, ReleaseResponseLease
  <1>2. ASSUME NEW r \in Request, Begin(r) \/ Queueing(r) \/ ForgetWrite(r)
        PROVE  UNCHANGED cancelVars
    BY <1>2 DEF Begin, Queueing, Register, Submit, Posted, Rejected, ForgetWrite
  <1>3. CASE Handler \/ SchedulerOnly \/ UNCHANGED allVars
    BY <1>0, <1>3 DEF Handler, StartSessionWrite, ReceiveChunk, HandleRecord, HandlerEnds,
                 ReadSessionChunk, SchedulerOnly, allVars, sessionVars
  <1>4. CASE MonitorObserves
    BY <1>4 DEF MonitorObserves, At, CancelInv, DisposedInv
  <1>5. CASE DisposeSession
    BY <1>5 DEF DisposeSession, At, CancelInv, DisposedInv
  <1>6. CASE DisposeScheduler \/ FinishSessionDispose
    BY <1>6 DEF DisposeScheduler, FinishSessionDispose, At, CancelInv, DisposedInv
  <1>7. ASSUME NEW c \in Canceller, CancelActiveResponse(c) PROVE CancelInv' /\ DisposedInv'
    <2>1. /\ UNCHANGED disposed /\ canceller[c] = "cancel"
          /\ cancelling' = [cancelling EXCEPT ![c] = activeResponse]
          /\ activeResponse \in Fenced \union {None}
      BY <1>7 DEF CancelActiveResponse, SessionVarsOK
    <2>2. CASE activeResponse = None
      <3>1. At(c, AfterCancel(c)) /\ AfterCancel(c) \in {"done", "scheduler"}
        BY <1>7, <2>2 DEF CancelActiveResponse, AfterCancel
      <3> QED
        BY <2>1, <3>1 DEF At, CancelInv, DisposedInv
    <2>3. CASE activeResponse # None
      BY <1>7, <2>1, <2>3 DEF CancelActiveResponse, At, CancelInv, DisposedInv
    <2> QED
      BY <2>2, <2>3
  <1>8. ASSUME NEW c \in Canceller, CancelReleasesFence(c) \/ CancelReleasesPreempted(c)
        PROVE  CancelInv' /\ DisposedInv'
    BY <1>8 DEF CancelReleasesFence, CancelReleasesPreempted, At, AfterCancel, CancelInv,
                DisposedInv
  <1> QED
    BY <1>0, <1>1, <1>2, <1>3, <1>4, <1>5, <1>6, <1>7, <1>8 DEF SessionNext, Closing

LEMMA LeaseInvStep ==
  ASSUME SInv, [SessionNext]_allVars
  PROVE  LeaseInv'
  <1> SessionVarsOK /\ CancelInv'
    BY CancelInvStep DEF SInv
  <1>0. LeaseFrame => LeaseInv'
    BY LeaseFramed
  <1>1. ASSUME NEW r \in Request, NEW l \in CallPc, Step(r, l),
               r \in Fenced => (call[r] \in Holding <=> l \in Holding),
               UNCHANGED <<activeResponse, response>>
        PROVE  LeaseInv'
    BY <1>0, <1>1, StepOK, RequestAssumption DEF LeaseFrame
  <1>2. ASSUME NEW r \in Request, Begin(r) \/ ForgetWrite(r) PROVE LeaseInv'
    BY <1>0, <1>1, <1>2 DEF Begin, ForgetWrite, leaseVars, callVars, CallPc, Holding, LeaseFrame
  <1>3. ASSUME NEW r \in Request, Register(r) PROVE LeaseInv'
    BY <1>1, <1>3 DEF Register, AfterFailure, leaseVars, CallPc, Holding
  <1>4. ASSUME NEW r \in Request, Submit(r) PROVE LeaseInv'
    BY <1>1, <1>4 DEF Submit, leaseVars, CallPc, Holding
  <1>5. ASSUME NEW r \in Request, Posted(r) \/ Rejected(r) PROVE LeaseInv'
    BY <1>1, <1>5 DEF Posted, Rejected, AfterFailure, CallPc, Holding
  <1>6. CASE HandleRecord
    <2>1. \A t \in Fenced : response[t] # "none" => response'[t] # "none"
      <3>1. CASE UNCHANGED response
        BY <3>1
      <3>2. CASE captured # None /\ response' = Answered(captured, "error")
        BY <3>2, AnsweredOK DEF SessionVarsOK, Response
      <3>3. CASE /\ captured # None /\ held["dispatcher"] \in Expects[captured]
                 /\ response' = Answered(captured, held["dispatcher"])
        <4>1. held["dispatcher"] \in Response
          BY <3>3, SessionAssumption DEF SessionVarsOK, Response
        <4> QED
          BY <3>3, <4>1, AnsweredOK DEF SessionVarsOK
      <3> QED
        BY <1>6, <3>1, <3>2, <3>3 DEF HandleRecord
    <2> QED
      BY <1>0, <1>6, <2>1 DEF HandleRecord, callVars, LeaseFrame
  <1>7. CASE StartSessionWrite \/ ReceiveChunk \/ HandlerEnds \/ \E c \in Chunk : ReadSessionChunk(c)
    BY <1>0, <1>7 DEF StartSessionWrite, ReceiveChunk, HandlerEnds, ReadSessionChunk, callVars,
                      leaseVars, LeaseFrame
  <1>8. CASE SchedulerOnly \/ UNCHANGED allVars
    BY <1>0, <1>8 DEF SchedulerOnly, allVars, sessionVars, callVars, leaseVars, LeaseFrame
  <1>9. CASE MonitorObserves \/ DisposeSession \/ DisposeScheduler \/ FinishSessionDispose
    BY <1>0, <1>9 DEF MonitorObserves, DisposeSession, DisposeScheduler, FinishSessionDispose,
                      callVars, leaseVars, LeaseFrame
  <1>10. ASSUME NEW c \in Canceller, CancelActiveResponse(c) PROVE LeaseInv'
    <2>1. CASE activeResponse = None
      BY <1>0, <1>10, <2>1 DEF CancelActiveResponse, callVars, LeaseFrame
    <2>2. CASE activeResponse # None
      <3>1. activeResponse \in Fenced /\ Reason(c) \in Response \ {"none"}
        BY <2>2 DEF SessionVarsOK, Reason, Response
      <3>2. \A u \in Fenced : /\ response[u] # "none" => response'[u] # "none"
                              /\ u = activeResponse => response'[u] # "none"
        BY <1>10, <2>2, <3>1, AnsweredOK DEF CancelActiveResponse
      <3>3. activeResponse' = None /\ UNCHANGED call
        BY <1>10 DEF CancelActiveResponse, callVars
      <3>4. \A u \in Fenced : call'[u] \in Holding /\ u # activeResponse' => response'[u] # "none"
        BY <3>2, <3>3 DEF SInv, LeaseInv
      <3> QED
        BY <3>3, <3>4 DEF LeaseInv, LeaseHeldByLiveCall, CancelInv
    <2> QED
      BY <2>1, <2>2
  <1>11. ASSUME NEW c \in Canceller, CancelReleasesFence(c) \/ CancelReleasesPreempted(c)
         PROVE LeaseInv'
    BY <1>0, <1>11 DEF CancelReleasesFence, CancelReleasesPreempted, callVars, leaseVars,
                       LeaseFrame
  <1>12. ASSUME NEW t \in Fenced, CallOff(t) PROVE LeaseInv'
    BY <1>0, <1>12 DEF CallOff, leaseVars, LeaseFrame
  <1> QED
    BY <1>2, <1>3, <1>4, <1>5, <1>6, <1>7, <1>8, <1>9, <1>10, <1>11, <1>12, LeaseOfTransact
    DEF SessionNext, Queueing, Handler, Closing

-----------------------------------------------------------------------------
(* The theorems                                                            *)

LEMMA SInvInit == SessionInit => SInv
  <1> SUFFICES ASSUME SessionInit PROVE SInv
    OBVIOUS
  <1> USE DEF SessionInit
  <1>1. IInv
    BY IInvInit
  <1>2. SessionVarsOK
    BY DEF SessionVarsOK, CallPc, Result, Response, CancelPc
  <1>3. LeaseInv /\ DisposedInv
    <2>1. \A t \in Fenced : call[t] \notin Holding
      BY RequestAssumption DEF Holding
    <2> QED
      BY <2>1 DEF LeaseInv, LeaseHeldByLiveCall, DisposedInv, Canceller
  <1>4. CallInv /\ MetaInv
    BY RequestAssumption DEF Init, CallInv, MetaInv, Canceller
  <1> QED
    BY <1>1, <1>2, <1>3, <1>4 DEF SInv

LEMMA SInvStep == SInv /\ [SessionNext]_allVars => SInv'
  <1> SUFFICES ASSUME SInv, [SessionNext]_allVars PROVE SInv'
    OBVIOUS
  <1>1. IInv'
    BY SessionStepIsStep, IInvStep DEF SInv
  <1> QED
    BY <1>1, VarsStep, LeaseInvStep, CallInvStep, MetaInvStep, CancelInvStep DEF SInv

LEMMA SInvCorrect == SessionSpec => []SInv
  BY SInvInit, SInvStep, PTL DEF SessionSpec

\* The session uses its scheduler as a scheduler may be used: whatever callers,
\* handler, monitor and disposer do, the scheduler's own behaviour is one its
\* specification allows, so every theorem about the scheduler holds inside a
\* session.
THEOREM SessionRunsScheduler == SessionSpec => Spec
  <1>1. SessionInit => Init
    BY DEF SessionInit
  <1> QED
    BY <1>1, SInvCorrect, SessionStepIsStep, PTL DEF SessionSpec, Spec

\* Type correctness of the session and of the scheduler under it.
THEOREM SessionTypeCorrect == SessionSpec => []SessionTypeOK
  <1>1. SInv => SessionTypeOK
    BY DEF SInv, IInv, SessionVarsOK, SessionTypeOK
  <1> QED
    BY <1>1, SInvCorrect, PTL

\* LeaseHeldByLiveCall: the lease always belongs to a call that will release it.
THEOREM LeaseAlwaysLive == SessionSpec => []LeaseHeldByLiveCall
  <1>1. SInv => LeaseHeldByLiveCall
    BY DEF SInv, LeaseInv
  <1> QED
    BY <1>1, SInvCorrect, PTL

\* FenceHasReleaser: a closed fence the writer honours belongs to a transaction
\* still inside its try block, which releases it on every way out.
THEOREM FenceAlwaysReleasable == SessionSpec => []FenceHasReleaser
  <1>1. SInv => FenceHasReleaser
    <2> SUFFICES ASSUME SInv, activeFence \notin released \union {None}
                 PROVE  call[activeFence] \in Holding
      BY DEF FenceHasReleaser
    <2>1. activeFence \in Fenced /\ activeFence \in Request
      BY RequestAssumption DEF SInv, IInv, TypeOK, WriterType
    <2>2. call[activeFence] \in CallPc \ (NotQueued \union {"done"})
      BY <2>1 DEF SInv, CallInv, SessionVarsOK
    <2> QED
      BY <2>2 DEF CallPc, NotQueued, Holding
  <1> QED
    BY <1>1, SInvCorrect, PTL

\* SingleWaiter: untagged responses can be matched, for of all transactions whose
\* write was started at most one is still without an answer.
THEOREM OneWaiter == SessionSpec => []SingleWaiter
  <1>1. SInv => SingleWaiter
    BY DEF SInv, LeaseInv, SessionVarsOK, SingleWaiter, Holding
  <1> QED
    BY <1>1, SInvCorrect, PTL

\* MetadataPresent: the write observer finds the metadata of every write that is
\* queued or in the writer's hand, so it never faults the session for lack of it.
THEOREM MetadataKept == SessionSpec => []MetadataPresent
  <1>1. SInv => MetadataPresent
    <2> SUFFICES ASSUME SInv, NEW r \in Request, InHand(r) PROVE r \in writes
      BY DEF MetadataPresent
    <2>1. outcome[r] = "pending"
      BY RequestAssumption DEF SInv, IInv, TicketInv, InHand
    <2>2. pc["writer"] # "done"
      <3>1. CASE current = r
        BY <3>1, RequestAssumption DEF SInv, IInv, WriterInv, WriterBusy
      <3>2. CASE Queued(r)
        BY <3>2, RequestAssumption, EmptySeq DEF Queued, SInv, IInv, WriterInv
      <3> QED
        BY <3>1, <3>2 DEF InHand
    <2> QED
      BY <2>1, <2>2 DEF SInv, MetaInv
  <1> QED
    BY <1>1, SInvCorrect, PTL

\* LateReplyIgnored: a transaction's answer, once given, is never replaced, and
\* one that lost its lease returns no response that came after the loss.
THEOREM LateRepliesIgnored == SessionSpec => LateReplyIgnored
  <1>1. SInv /\ [SessionNext]_allVars => [LateReplyIgnoredStep]_allVars
    <2> SUFFICES ASSUME SInv, SessionNext, NEW t \in Fenced
                 PROVE  /\ response[t] # "none" => response'[t] = response[t]
                        /\ result'[t] = "response" /\ result[t] # "response" =>
                             t \notin leaseReleased \/ response[t] \in Chunk
      BY DEF LateReplyIgnoredStep
    <2> SessionVarsOK
      BY DEF SInv
    <2>1. ASSUME NEW o \in Response, NEW u \in Fenced, response' = Answered(u, o)
          PROVE  response[t] # "none" => response'[t] = response[t]
      BY <2>1, AnsweredOK
    <2>2. response[t] # "none" => response'[t] = response[t]
      <3>1. ASSUME NEW u \in Fenced, Transact(u) \/ CallOff(u)
            PROVE  UNCHANGED response \/ PreemptLease(u)
        BY <3>1 DEF Transact, CallOff, AcquireFreeLease, WaitForLease, LeaseReleaseSeen,
           WaitCancelled, WriteCompleted, AwaitCancelled, ResponseReceived, ResponseTimeout,
           FinallyPreempted, FinallyFence, ReleaseResponseLease, leaseVars
      <3>2. ASSUME NEW u \in Fenced, PreemptLease(u)
            PROVE  response[t] # "none" => response'[t] = response[t]
        BY <2>1, <3>2 DEF PreemptLease, Preempts, SessionVarsOK, Response
      <3>3. ASSUME NEW r \in Request, Begin(r) \/ Queueing(r) \/ ForgetWrite(r)
            PROVE  UNCHANGED response
        BY <3>3 DEF Begin, Queueing, Register, Submit, Posted, Rejected, ForgetWrite, leaseVars
      <3>4. CASE HandleRecord
        <4>1. CASE captured # None /\ response' = Answered(captured, "error")
          BY <2>1, <4>1 DEF SessionVarsOK, Response
        <4>2. CASE /\ captured # None /\ held["dispatcher"] \in Expects[captured]
                   /\ response' = Answered(captured, held["dispatcher"])
          <5>1. held["dispatcher"] \in Response /\ captured \in Fenced
            BY <4>2, SessionAssumption DEF SessionVarsOK, Response
          <5> QED
            BY <2>1, <4>2, <5>1
        <4> QED
          BY <3>4, <4>1, <4>2 DEF HandleRecord
      <3>5. CASE \/ StartSessionWrite \/ ReceiveChunk \/ HandlerEnds \/ SchedulerOnly
                 \/ \E c \in Chunk : ReadSessionChunk(c)
        BY <3>5 DEF StartSessionWrite, ReceiveChunk, HandlerEnds, ReadSessionChunk,
                    SchedulerOnly, sessionVars, leaseVars
      <3>6. ASSUME NEW c \in Canceller, CancelActiveResponse(c)
            PROVE  response[t] # "none" => response'[t] = response[t]
        <4>1. Reason(c) \in Response
          BY DEF Reason, Response
        <4> QED
          BY <2>1, <3>6, <4>1 DEF CancelActiveResponse, SessionVarsOK
      <3>7. CASE \/ MonitorObserves \/ DisposeSession \/ DisposeScheduler
                 \/ FinishSessionDispose
                 \/ \E c \in Canceller : CancelReleasesFence(c) \/ CancelReleasesPreempted(c)
        BY <3>7 DEF MonitorObserves, DisposeSession, DisposeScheduler, FinishSessionDispose,
                    CancelReleasesFence, CancelReleasesPreempted, leaseVars
      <3> QED
        BY <3>1, <3>2, <3>3, <3>4, <3>5, <3>6, <3>7 DEF SessionNext, Handler, Closing
    <2>3. ASSUME result'[t] = "response", result[t] # "response" PROVE response[t] \in Chunk
      <3>0. ASSUME NEW r \in Request, NEW o, Return(r, o), r # t \/ o # "response" PROVE FALSE
        BY <2>3, <3>0, RequestAssumption DEF Return, SessionVarsOK
      <3>1. ASSUME NEW u \in Fenced, Transact(u) \/ CallOff(u) PROVE response[t] \in Chunk
        <4>1. ~WaitCancelled(u) /\ ~AwaitCancelled(u) /\ ~ResponseTimeout(u)
          BY <2>3, <3>0, RequestAssumption DEF WaitCancelled, AwaitCancelled, ResponseTimeout
        <4>2. ~WriteCompleted(u)
          <5>1. Thrown(outcome[u]) # "response"
            BY DEF Thrown
          <5> QED
            BY <2>3, <3>0, <5>1, RequestAssumption DEF WriteCompleted
        <4>3. CASE ResponseReceived(u)
          <5>1. response[u] \in Response
            BY DEF SessionVarsOK
          <5>2. CASE response[u] \in Chunk
            BY <3>0, <4>3, <5>2, RequestAssumption DEF ResponseReceived
          <5>3. CASE response[u] \notin Chunk
            BY <3>0, <4>3, <5>1, <5>3, RequestAssumption DEF ResponseReceived, Response
          <5> QED
            BY <5>2, <5>3
        <4> QED
          BY <2>3, <3>1, <4>1, <4>2, <4>3 DEF Transact, CallOff, AcquireFreeLease, PreemptLease,
             WaitForLease, LeaseReleaseSeen, FinallyPreempted, FinallyFence,
             ReleaseResponseLease
      <3>2. ASSUME NEW r \in Request, Begin(r) \/ Queueing(r) \/ ForgetWrite(r) PROVE FALSE
        BY <2>3, <3>0, <3>2 DEF Begin, Queueing, Register, Submit, Posted, Rejected,
                                ForgetWrite, callVars
      <3>3. ASSUME Handler \/ SchedulerOnly PROVE FALSE
        BY <2>3, <3>3 DEF Handler, StartSessionWrite, ReceiveChunk, HandleRecord, HandlerEnds,
                          ReadSessionChunk, SchedulerOnly, sessionVars, callVars
      <3>4. ASSUME Closing PROVE FALSE
        BY <2>3, <3>4 DEF Closing, MonitorObserves, DisposeSession, DisposeScheduler,
           FinishSessionDispose, CancelActiveResponse, CancelReleasesFence,
           CancelReleasesPreempted, callVars
      <3> QED
        BY <3>1, <3>2, <3>3, <3>4 DEF SessionNext
    <2> QED
      BY <2>2, <2>3
  <1> QED
    BY <1>1, SInvCorrect, PTL DEF SessionSpec, LateReplyIgnored
-----------------------------------------------------------------------------
(* The session implements the turns of ReplyTurns                          *)

\* Nobody is told anything, or given the line, before its turn; a call has a
\* result once it decided; who returns a response has one; and the lease the
\* handler read had begun its line.
TurnInv ==
    /\ \A t \in Fenced : TurnPhase[t] \in {"idle", "asked"} => t \notin armed /\ response[t] = "none"
    /\ \A t \in Fenced : result[t] = "none" <=> TurnPhase[t] \in {"idle", "asked", "turn"}
    /\ \A t \in Fenced : result[t] = "response" => response[t] \in Chunk
    /\ captured # None => captured \in armed

\* A record is in one place only, on its way from the reader to the handler.
RecordInv ==
    /\ \A i, j \in DOMAIN receiveQueue : receiveQueue[i] = receiveQueue[j] => i = j
    /\ \A i \in DOMAIN receiveQueue :
         receiveQueue[i] \in arrived /\ receiveQueue[i] \notin {held["reader"], held["dispatcher"]}
    /\ \A a \in {"reader", "dispatcher"} : held[a] \in arrived \union {None}
    /\ held["reader"] = held["dispatcher"] => held["reader"] = None
    /\ pc["reader"] = "enqueue" => held["reader"] # None
    /\ pc["dispatcher"] = "handle" => held["dispatcher"] # None

TInv == SInv /\ TurnInv /\ RecordInv

-----------------------------------------------------------------------------
(* Records                                                                 *)

\* A step that neither moves a record nor lets the reader or the handler take one.
ReceiveStill ==
    /\ UNCHANGED <<receiveQueue, held>>
    /\ pc'["reader"] = "enqueue" => pc["reader"] = "enqueue"
    /\ pc'["dispatcher"] = "handle" => pc["dispatcher"] = "handle"

LEMMA RecordsStay ==
  ASSUME RecordInv, ReceiveStill, UNCHANGED arrived
  PROVE  RecordInv' /\ Spent' = Spent
  BY DEF RecordInv, ReceiveStill, Spent, OnTheWay

LEMMA SchedulerStill ==
  ASSUME IInv,
         \/ \E r \in Request : QueueWrite(r) \/ FinishQueueWrite(r)
         \/ \E x : Release(x)
         \/ Writer \/ ReadFails \/ ReaderFinally
         \/ \E a \in Actor : Stop(a)
         \/ BeginDispose \/ FinishDispose \/ UNCHANGED vars
  PROVE  ReceiveStill
  <1>0. pc \in [Actor -> Pc]
    BY DEF IInv, TypeOK, PcType
  <1>1. ASSUME NEW r \in Request, QueueWrite(r) \/ FinishQueueWrite(r) PROVE ReceiveStill
    BY <1>1 DEF QueueWrite, RejectWrite, AcceptWrite, SupersedeWrite, Enlist, FinishQueueWrite,
                receiveVars, ReceiveStill
  <1>2. ASSUME NEW x, Release(x) PROVE ReceiveStill
    BY <1>2 DEF Release, receiveVars, ReceiveStill
  <1>3. CASE Writer
    <2>1. UNCHANGED receiveVars
      BY <1>3 DEF Writer, WriterStopsAtLoop, TakeSafety, TakeFair, TakeNothing, DrainWake,
         CheckEligible, Woken, FenceReleaseSeen, ParkCancelled, Expire, StartWrite, RetryWrite,
         Attempt, TransientTimeout, WriteSucceeds, WriteFails, WriteCancelled, ObserverFails,
         WriterFinally, CompleteWrite, Take
    <2>2. \E l : Goto("writer", l)
      BY <1>3 DEF Writer, WriterStopsAtLoop, TakeSafety, TakeFair, TakeNothing, DrainWake,
         CheckEligible, Woken, FenceReleaseSeen, ParkCancelled, Expire, StartWrite, RetryWrite,
         Attempt, TransientTimeout, WriteSucceeds, WriteFails, WriteCancelled, ObserverFails,
         WriterFinally, Take
    <2> QED
      BY <1>0, <2>1, <2>2 DEF Goto, receiveVars, ReceiveStill
  <1>4. CASE ReadFails \/ ReaderFinally \/ BeginDispose \/ FinishDispose
    BY <1>0, <1>4 DEF ReadFails, ReaderFinally, BeginDispose, FinishDispose, Goto, Actor,
                      receiveVars, ReceiveStill
  <1>5. ASSUME NEW a \in Actor, Stop(a) PROVE ReceiveStill
    <2>1. \E l \in {"cancel", "close", "finally", "done", "await"} :
            Goto(a, l) /\ UNCHANGED receiveVars
      BY <1>5 DEF Stop, RecordFault, CancelLifetime, CloseTransportOnce, AfterClose, Actor
    <2> QED
      BY <1>0, <2>1 DEF Goto, Actor, receiveVars, ReceiveStill
  <1>6. CASE UNCHANGED vars
    BY <1>6 DEF vars, receiveVars, ReceiveStill
  <1> QED
    BY <1>1, <1>2, <1>3, <1>4, <1>5, <1>6

\* What the reader and the dispatcher hold, and where they stand, after a step.
LEMMA HeldStep ==
  ASSUME IInv, NEW a \in {"reader", "dispatcher"}, NEW v, NEW l,
         held' = [held EXCEPT ![a] = v], Goto(a, l)
  PROVE  /\ held'[a] = v /\ pc'[a] = l
         /\ \A b \in {"reader", "dispatcher"} \ {a} : held'[b] = held[b] /\ pc'[b] = pc[b]
  BY DEF IInv, TypeOK, ReceiveType, PcType, Actor, Goto

LEMMA RecordRead ==
  ASSUME TInv, NEW c \in Chunk, ReadSessionChunk(c)
  PROVE  RecordInv' /\ Spent \subseteq Spent'
  <1>1. /\ held'["reader"] = c /\ held'["dispatcher"] = held["dispatcher"]
        /\ pc'["dispatcher"] = pc["dispatcher"]
    BY HeldStep DEF ReadSessionChunk, ReadChunk, TInv, SInv
  <1>2. receiveQueue' = receiveQueue /\ arrived' = arrived \union {c} /\ c \notin arrived
    BY DEF ReadSessionChunk, ReadChunk
  <1>3. c # None
    BY RequestAssumption
  <1>4. held["dispatcher"] # c
    BY <1>2, <1>3 DEF TInv, RecordInv
  <1> QED
    BY <1>1, <1>2, <1>3, <1>4 DEF TInv, RecordInv, Spent, OnTheWay

LEMMA RecordEnqueued ==
  ASSUME TInv, EnqueueChunk, UNCHANGED arrived
  PROVE  RecordInv' /\ Spent \subseteq Spent'
  <1>1. /\ held'["reader"] = None /\ held'["dispatcher"] = held["dispatcher"]
        /\ pc'["dispatcher"] = pc["dispatcher"] /\ pc'["reader"] = "read"
    BY HeldStep DEF EnqueueChunk, TInv, SInv
  <1>2. /\ receiveQueue \in Seq(Chunk \union {None})
        /\ held["reader"] \in Chunk \union {None}
    BY DEF TInv, SInv, IInv, TypeOK, ReceiveType
  <1> DEFINE n == Len(receiveQueue)
  <1>3. /\ n \in Nat /\ DOMAIN receiveQueue = 1 .. n
        /\ DOMAIN receiveQueue' = 1 .. n + 1
        /\ \A i \in 1 .. n : receiveQueue'[i] = receiveQueue[i]
        /\ receiveQueue'[n + 1] = held["reader"]
    BY <1>2 DEF EnqueueChunk
  <1>4. held["reader"] # None /\ held["reader"] \in arrived
        /\ held["reader"] # held["dispatcher"]
    BY DEF TInv, RecordInv, EnqueueChunk
  <1>5. None \notin arrived
    BY RequestAssumption DEF TInv, SInv, SessionVarsOK
  <1> HIDE DEF n
  <1>6. \A i \in 1 .. n + 1 : i \in 1 .. n \/ i = n + 1
    BY <1>3
  <1>7. RecordInv'
    BY <1>1, <1>3, <1>4, <1>5, <1>6 DEF TInv, RecordInv
  <1>8. \A x \in OnTheWay' : x = None \/ x \in OnTheWay
    BY <1>1, <1>3, <1>6 DEF OnTheWay
  <1> QED
    BY <1>5, <1>7, <1>8 DEF Spent

LEMMA RecordDispatched ==
  ASSUME TInv, ReceiveChunk
  PROVE  RecordInv' /\ Spent \subseteq Spent'
  <1>1. /\ held'["dispatcher"] = Head(receiveQueue) /\ held'["reader"] = held["reader"]
        /\ pc'["reader"] = pc["reader"] /\ pc'["dispatcher"] = "handle"
    BY HeldStep DEF ReceiveChunk, DispatchChunk, TInv, SInv
  <1>2. receiveQueue \in Seq(Chunk \union {None}) /\ receiveQueue # <<>>
        /\ receiveQueue' = Tail(receiveQueue) /\ arrived' = arrived
    BY DEF TInv, SInv, IInv, TypeOK, ReceiveType, ReceiveChunk, DispatchChunk
  <1> DEFINE n == Len(receiveQueue)
  <1>3. /\ n \in Nat /\ n > 0 /\ DOMAIN receiveQueue = 1 .. n
        /\ DOMAIN receiveQueue' = 1 .. n - 1
        /\ \A i \in 1 .. n - 1 : receiveQueue'[i] = receiveQueue[i + 1]
        /\ Head(receiveQueue) = receiveQueue[1]
    <2>1. n \in Nat \ {0} /\ Head(receiveQueue) = receiveQueue[1]
      BY <1>2, EmptySeq
    <2> QED
      BY <1>2, <2>1, HeadTailProperties
  <1>5. None \notin arrived
    BY RequestAssumption DEF TInv, SInv, SessionVarsOK
  <1> HIDE DEF n
  <1>6. 1 \in 1 .. n /\ \A i \in 1 .. n - 1 : i + 1 \in 1 .. n /\ i + 1 # 1
    BY <1>3
  <1>7. \A i, j \in 1 .. n - 1 : i + 1 = j + 1 => i = j
    OBVIOUS
  <1>8. RecordInv'
    BY <1>1, <1>2, <1>3, <1>5, <1>6, <1>7 DEF TInv, RecordInv
  <1>9. \A x \in OnTheWay' : x \in OnTheWay
    BY <1>1, <1>3, <1>6 DEF OnTheWay
  <1> QED
    BY <1>2, <1>8, <1>9 DEF Spent

\* The reader drops its record, or the dispatcher is done with its own.
LEMMA RecordDropped ==
  ASSUME TInv, UNCHANGED arrived, ReaderCancelled \/ HandlerReturns \/ HandlerFails \/ DispatcherEnds
  PROVE  /\ RecordInv' /\ Spent \subseteq Spent'
         /\ HandlerReturns => Spent' = Spent \union {held["dispatcher"]}
                              /\ held["dispatcher"] \in Chunk \ Spent
  <1>1. \/ /\ held'["reader"] = None /\ held'["dispatcher"] = held["dispatcher"]
           /\ pc'["dispatcher"] = pc["dispatcher"] /\ pc'["reader"] = "finally"
           /\ ~HandlerReturns
        \/ /\ held'["dispatcher"] = None /\ held'["reader"] = held["reader"]
           /\ pc'["reader"] = pc["reader"] /\ pc'["dispatcher"] \in {"wait", "fault", "done"}
    <2>1. CASE ReaderCancelled
      <3>1. /\ held'["reader"] = None /\ held'["dispatcher"] = held["dispatcher"]
            /\ pc'["dispatcher"] = pc["dispatcher"] /\ pc'["reader"] = "finally"
        BY <2>1, HeldStep DEF ReaderCancelled, TInv, SInv
      <3>2. pc["reader"] # "finally"
        BY <2>1 DEF ReaderCancelled
      <3>3. HandlerReturns => pc'["reader"] = pc["reader"]
        BY DEF HandlerReturns, Goto, TInv, SInv, IInv, TypeOK, PcType, Actor
      <3> QED
        BY <3>1, <3>2, <3>3
    <2>2. CASE HandlerReturns \/ HandlerFails \/ DispatcherEnds
      BY <2>2, HeldStep DEF HandlerReturns, HandlerFails, DispatcherEnds, TInv, SInv
    <2> QED
      BY <2>1, <2>2
  <1>2. receiveQueue' = receiveQueue
    BY DEF ReaderCancelled, HandlerReturns, HandlerFails, DispatcherEnds
  <1>3. None \notin arrived /\ arrived \subseteq Chunk
    BY RequestAssumption DEF TInv, SInv, SessionVarsOK
  <1>4. RecordInv'
    BY <1>1, <1>2, <1>3 DEF TInv, RecordInv
  <1>5. Spent \subseteq Spent'
    BY <1>1, <1>2, <1>3 DEF Spent, OnTheWay
  <1>6. ASSUME HandlerReturns
        PROVE  Spent' = Spent \union {held["dispatcher"]} /\ held["dispatcher"] \in Chunk \ Spent
    <2>1. held["dispatcher"] \in arrived /\ held["dispatcher"] # held["reader"]
      BY <1>6 DEF HandlerReturns, TInv, RecordInv
    <2>2. held'["dispatcher"] = None /\ held'["reader"] = held["reader"]
      BY <1>1, <1>6
    <2>3. held["dispatcher"] \notin OnTheWay'
      BY <1>2, <1>3, <2>1, <2>2 DEF OnTheWay, TInv, RecordInv
    <2> QED
      BY <1>2, <1>3, <2>1, <2>2, <2>3 DEF Spent, OnTheWay
  <1> QED
    BY <1>4, <1>5, <1>6

-----------------------------------------------------------------------------
(* Turns                                                                   *)

\* The phases of the places a call can be in.
LEMMA Phases ==
  /\ \A l \in {"register", "submit", "posted", "rejected", "awaitWrite", "awaitResponse"} :
       PhaseAt(l) = "turn"
  /\ \A l \in {"acquire", "wait"} : PhaseAt(l) = "asked"
  /\ \A l \in {"finally", "fence", "release"} : PhaseAt(l) = "leaving"
  /\ PhaseAt("idle") = "idle" /\ PhaseAt("done") = "over"
  /\ \A l \in CallPc : PhaseAt(l) = "turn" => l \in Holding
  BY DEF PhaseAt, CallPc, Holding

\* A transaction's place decides its phase, a direct call's nobody's.
LEMMA PhaseStep ==
  ASSUME SessionVarsOK, NEW r \in Request, NEW l \in CallPc, Step(r, l)
  PROVE  /\ r \in Fenced => TurnPhase' = [TurnPhase EXCEPT ![r] = PhaseAt(l)]
         /\ r \notin Fenced => TurnPhase' = TurnPhase
  BY StepOK, RequestAssumption DEF TurnPhase

LEMMA VerdictStep ==
  ASSUME SessionVarsOK, NEW r \in Request, NEW o \in Result, Return(r, o)
  PROVE  /\ r \in Fenced => TurnVerdict' = [TurnVerdict EXCEPT ![r] = o]
         /\ r \notin Fenced => TurnVerdict' = TurnVerdict
         /\ result'[r] = o /\ \A q \in Request \ {r} : result'[q] = result[q]
  <1>1. result'[r] = o /\ \A q \in Request \ {r} : result'[q] = result[q]
    BY DEF SessionVarsOK, Return
  <1> QED
    BY <1>1, RequestAssumption DEF TurnVerdict

LEMMA VerdictStays ==
  ASSUME UNCHANGED result
  PROVE  TurnVerdict' = TurnVerdict /\ (UNCHANGED response => TurnReply' = TurnReply)
  BY DEF TurnVerdict, TurnReply

LEMMA SpentType == SessionVarsOK => Spent \in SUBSET Chunk
  BY DEF SessionVarsOK, Spent

\* A step that moves nobody, tells nobody anything and gives nobody the line.
TurnsStill ==
    /\ UNCHANGED <<activeResponse, armed, TurnPhase, TurnReply, TurnVerdict>>
    /\ Spent \subseteq Spent'

LEMMA StillDrops ==
  ASSUME TurnsStill, SessionVarsOK'
  PROVE  Turns!Next
  <1>1. Spent' \in SUBSET Chunk
    BY SpentType DEF SessionVarsOK, Spent
  <1> QED
    BY <1>1 DEF TurnsStill, Turns!Next, Turns!Drop

\* What TurnInv depends on.
LEMMA TurnFrame ==
  ASSUME TurnInv, UNCHANGED <<TurnPhase, armed, response, result, captured>>
  PROVE  TurnInv'
  BY DEF TurnInv

\* A call moves on inside its turn, before it or after it.
LEMMA MoveWithinPhase ==
  ASSUME SessionVarsOK, NEW r \in Request, NEW l \in CallPc, Step(r, l),
         r \in Fenced => PhaseAt(l) = PhaseAt(call[r])
  PROVE  TurnPhase' = TurnPhase
  BY PhaseStep DEF TurnPhase

\* A transaction in its turn decides to fail.
LEMMA FailsInTurn ==
  ASSUME TInv, NEW t \in Fenced, TurnPhase[t] = "turn", Step(t, "finally"),
         NEW o \in Turns!Failures \union ({response[t]} \ (Chunk \union {"none"})),
         o \in Result, Return(t, o), UNCHANGED <<activeResponse, armed, response, captured>>,
         Spent' = Spent
  PROVE  Turns!Next /\ TurnInv'
  <1>0. t \in Request /\ "finally" \in CallPc /\ SessionVarsOK /\ PhaseAt("finally") = "leaving"
    BY RequestAssumption, Phases DEF CallPc, TInv, SInv
  <1>1. TurnPhase' = [TurnPhase EXCEPT ![t] = "leaving"]
    BY <1>0, PhaseStep
  <1>2. /\ TurnVerdict' = [TurnVerdict EXCEPT ![t] = o]
        /\ result'[t] = o /\ \A q \in Request \ {t} : result'[q] = result[q]
    BY <1>0, VerdictStep
  <1>3. o # "none" /\ o # "response" /\ result[t] = "none"
    <2>1. response[t] \in Response
      BY <1>0 DEF SessionVarsOK
    <2> QED
      BY <2>1 DEF Turns!Failures, Response, TInv, TurnInv
  <1>4. TurnReply' = [TurnReply EXCEPT ![t] = "none"]
    BY <1>2, <1>3, RequestAssumption DEF TurnReply
  <1>5. TurnReply[t] = response[t]
    BY <1>3 DEF TurnReply
  <1>6. Turns!Return(t)
    BY <1>1, <1>2, <1>4, <1>5 DEF Turns!Return, Turns!Move
  <1>7. TurnInv'
    <2>1. \A u \in Fenced \ {t} : TurnPhase'[u] = TurnPhase[u] /\ result'[u] = result[u]
      BY <1>1, <1>2, RequestAssumption
    <2>2. TurnPhase'[t] = "leaving"
      BY <1>1 DEF TurnPhase
    <2> QED
      BY <1>2, <1>3, <2>1, <2>2 DEF TInv, TurnInv
  <1> QED
    BY <1>6, <1>7 DEF Turns!Next

\* The lease is told o: the transaction whose turn it is hears it, unless it has an
\* answer or has decided.
LEMMA LeaseTold ==
  ASSUME TInv, NEW u \in Fenced, NEW o \in Response, response' = Answered(u, o),
         u = activeResponse \/ u \in armed, UNCHANGED result
  PROVE  /\ TurnReply' # TurnReply =>
              u = activeResponse /\ Turns!Unanswered(u)
         /\ u = activeResponse => Turns!Tell(o)
         /\ \A t \in Fenced : response[t] # "none" => response'[t] = response[t]
         /\ \A t \in Fenced : TurnPhase[t] \in {"idle", "asked"} => response'[t] = response[t]
  <1>0. SessionVarsOK
    BY DEF TInv, SInv
  <1>1. \A t \in Fenced : response'[t] = IF t = u /\ response[t] = "none" THEN o ELSE response[t]
    BY <1>0, AnsweredOK
  <1>2. TurnPhase[u] \notin {"idle", "asked"}
    <2>1. u = activeResponse => call[u] \in Holding /\ u # None
      BY RequestAssumption DEF TInv, SInv, LeaseInv, LeaseHeldByLiveCall
    <2>2. \A l \in Holding : PhaseAt(l) \notin {"idle", "asked"}
      BY DEF Holding, PhaseAt
    <2> QED
      BY <2>1, <2>2 DEF TurnPhase, TInv, TurnInv
  <1>3. \A t \in Fenced : TurnPhase[t] = "turn" => call[t] \in Holding
    BY <1>0, Phases, RequestAssumption DEF TurnPhase, SessionVarsOK
  <1>4. response[u] = "none" /\ TurnPhase[u] = "turn" => u = activeResponse
    BY <1>3 DEF TInv, SInv, LeaseInv
  <1>5. TurnPhase[u] = "turn" <=> result[u] = "none"
    BY <1>2 DEF TInv, TurnInv, TurnPhase
  <1>6. result[u] = "response" => response[u] # "none"
    BY SessionAssumption DEF TInv, TurnInv
  <1>7. response[u] = "none" /\ result[u] \in {"none", "response"} <=> Turns!Unanswered(u)
    BY <1>5, <1>6 DEF Turns!Unanswered, TurnReply
  <1>8. TurnReply' = [t \in Fenced |-> IF t = u /\ Turns!Unanswered(u) THEN o ELSE TurnReply[t]]
    BY <1>1, <1>7 DEF TurnReply
  <1>9. TurnReply' # TurnReply => Turns!Unanswered(u)
    BY <1>8 DEF TurnReply
  <1>10. Turns!Unanswered(u) => u = activeResponse
    BY <1>4, <1>7 DEF Turns!Unanswered
  <1>11. u = activeResponse => Turns!Tell(o)
    BY <1>8 DEF Turns!Tell
  <1> QED
    BY <1>1, <1>2, <1>9, <1>10, <1>11

-----------------------------------------------------------------------------
(* Every step is a step of the turns                                       *)

Mapped == Turns!Next /\ TurnInv' /\ RecordInv'

\* A step that only moves records, or nothing the turns see.
LEMMA StillMapped ==
  ASSUME TInv, SInv', RecordInv', Spent \subseteq Spent', TurnPhase' = TurnPhase,
         UNCHANGED <<activeResponse, armed, response, result>>,
         captured' \in {captured, None} \/ captured' \in armed
  PROVE  Mapped
  <1>1. TurnsStill
    BY VerdictStays DEF TurnsStill
  <1>2. TurnInv'
    BY DEF TInv, TurnInv
  <1> QED
    BY <1>1, <1>2, StillDrops DEF Mapped, SInv

\* The scheduler and the records are left alone.
LEMMA OutsideStays ==
  ASSUME TInv, UNCHANGED <<vars, arrived>> \/ ((\E x : Release(x)) /\ UNCHANGED arrived)
  PROVE  RecordInv' /\ Spent' = Spent
  BY RecordsStay, SchedulerStill DEF TInv, SInv

LEMMA MappedTransact ==
  ASSUME TInv, SInv', NEW t \in Fenced, Transact(t)
  PROVE  Mapped
  <1>0. t \in Request /\ SessionVarsOK /\ call[t] \in CallPc
    BY RequestAssumption DEF TInv, SInv, SessionVarsOK
  <1>1. UNCHANGED <<vars, arrived>> \/ ((\E x : Release(x)) /\ UNCHANGED arrived)
    BY DEF Transact, AcquireFreeLease, PreemptLease, WaitForLease, LeaseReleaseSeen,
       WaitCancelled, WriteCompleted, AwaitCancelled, ResponseReceived, ResponseTimeout,
       FinallyPreempted, FinallyFence, ReleaseResponseLease, handlerVars
  <1>2. RecordInv' /\ Spent' = Spent /\ captured' = captured
    <2>1. captured' = captured
      BY DEF Transact, AcquireFreeLease, PreemptLease, WaitForLease, LeaseReleaseSeen,
         WaitCancelled, WriteCompleted, AwaitCancelled, ResponseReceived, ResponseTimeout,
         FinallyPreempted, FinallyFence, ReleaseResponseLease, handlerVars
    <2> QED
      BY <1>1, <2>1, OutsideStays
  <1>3. ASSUME NEW l \in CallPc, Step(t, l)
        PROVE  /\ TurnPhase' = [TurnPhase EXCEPT ![t] = PhaseAt(l)]
               /\ TurnPhase'[t] = PhaseAt(l)
               /\ \A u \in Fenced \ {t} : TurnPhase'[u] = TurnPhase[u]
    <2>1. TurnPhase' = [TurnPhase EXCEPT ![t] = PhaseAt(l)]
      BY <1>0, <1>3, PhaseStep
    <2> QED
      BY <2>1 DEF TurnPhase
  <1>4. TurnPhase[t] = PhaseAt(call[t])
    BY DEF TurnPhase
  <1>5. {"register", "wait", "acquire", "done", "finally", "awaitResponse", "fence", "release"}
          \subseteq CallPc
    BY DEF CallPc
  <1>6. CASE AcquireFreeLease(t)
    <2>1. TurnPhase[t] = "asked" /\ Step(t, "register") /\ UNCHANGED <<result, response, armed>>
          /\ activeResponse = None /\ activeResponse' = t
      BY <1>4, <1>6, Phases DEF AcquireFreeLease
    <2>2. Turns!Take(t)
      BY <1>2, <1>3, <1>5, <2>1, Phases, VerdictStays DEF Turns!Take, Turns!Move
    <2>3. TurnInv'
      BY <1>2, <1>3, <1>5, <2>1, Phases DEF TInv, TurnInv
    <2> QED
      BY <1>2, <2>2, <2>3 DEF Mapped, Turns!Next
  <1>7. CASE PreemptLease(t)
    <2>1. /\ TurnPhase[t] = "asked" /\ Step(t, "register") /\ UNCHANGED <<result, armed>>
          /\ activeResponse \in Fenced /\ activeResponse' = t
          /\ response' = Answered(activeResponse, "preempted")
          /\ PriorityOf[t] = Safety /\ PriorityOf[activeResponse] # Safety
      BY <1>0, <1>4, <1>7, Phases DEF PreemptLease, Preempts, SessionVarsOK
    <2>2. "preempted" \in Response
      BY DEF Response
    <2>3. /\ Turns!Tell("preempted")
          /\ \A u \in Fenced : response[u] # "none" => response'[u] = response[u]
          /\ \A u \in Fenced : TurnPhase[u] \in {"idle", "asked"} => response'[u] = response[u]
      BY <2>1, <2>2, LeaseTold
    <2>4. Turns!Take(t)
      <3>1. t \in Urgent /\ activeResponse \notin Urgent \union {None}
        BY <2>1, RequestAssumption DEF Urgent
      <3> QED
        BY <1>2, <1>3, <1>5, <2>1, <2>3, <3>1, Phases, VerdictStays DEF Turns!Take, Turns!Move
    <2>5. TurnInv'
      BY <1>2, <1>3, <1>5, <2>1, <2>3, Phases, SessionAssumption DEF TInv, TurnInv
    <2> QED
      BY <1>2, <2>4, <2>5 DEF Mapped, Turns!Next
  <1>8. CASE \/ WaitForLease(t) \/ LeaseReleaseSeen(t) \/ FinallyPreempted(t) \/ FinallyFence(t)
             \/ (WriteCompleted(t) /\ outcome[t] = "written")
    <2>1. PICK l \in CallPc : Step(t, l) /\ PhaseAt(l) = PhaseAt(call[t])
      BY <1>5, <1>8, Phases DEF WaitForLease, LeaseReleaseSeen, FinallyPreempted, FinallyFence,
                           WriteCompleted
    <2>2. TurnPhase' = TurnPhase
      BY <1>0, <2>1, MoveWithinPhase
    <2>3. UNCHANGED <<activeResponse, armed, response, result>>
      BY <1>8 DEF WaitForLease, LeaseReleaseSeen, FinallyPreempted, FinallyFence,
                  WriteCompleted, leaseVars
    <2> QED
      BY <1>2, <2>2, <2>3, StillMapped
  <1>9. CASE WaitCancelled(t)
    <2>1. /\ TurnPhase[t] = "asked" /\ Step(t, "done") /\ Return(t, "cancelled")
          /\ UNCHANGED <<activeResponse, armed, response>> /\ "cancelled" \in Result
      BY <1>4, <1>9, Phases DEF WaitCancelled, leaseVars, Result
    <2>2. /\ TurnVerdict' = [TurnVerdict EXCEPT ![t] = "cancelled"]
          /\ result'[t] = "cancelled" /\ \A q \in Request \ {t} : result'[q] = result[q]
      BY <1>0, <2>1, VerdictStep
    <2>3. response[t] = "none"
      BY <2>1 DEF TInv, TurnInv
    <2>4. TurnReply' = TurnReply
      BY <2>1, <2>2, <2>3, RequestAssumption DEF TurnReply
    <2>5. Turns!GiveUp(t)
      BY <1>2, <1>3, <1>5, <2>1, <2>2, <2>4, Phases DEF Turns!GiveUp, Turns!Move
    <2>6. TurnInv'
      BY <1>2, <1>3, <1>5, <2>1, <2>2, Phases, RequestAssumption DEF TInv, TurnInv
    <2> QED
      BY <1>2, <2>5, <2>6 DEF Mapped, Turns!Next
  <1>10. CASE \/ AwaitCancelled(t) \/ ResponseTimeout(t)
              \/ (WriteCompleted(t) /\ outcome[t] # "written")
              \/ (ResponseReceived(t) /\ response[t] \notin Chunk)
    <2>1. TurnPhase[t] = "turn" /\ Step(t, "finally")
          /\ UNCHANGED <<activeResponse, armed, response>>
      BY <1>4, <1>10, Phases DEF AwaitCancelled, ResponseTimeout, WriteCompleted,
                                 ResponseReceived, leaseVars
    <2>2. Thrown(outcome[t]) \in Turns!Failures
      BY DEF Thrown, Turns!Failures
    <2>3. PICK o \in Turns!Failures \union ({response[t]} \ (Chunk \union {"none"})) : Return(t, o)
      BY <1>10, <2>2 DEF AwaitCancelled, ResponseTimeout, WriteCompleted,
                         ResponseReceived, Turns!Failures
    <2>4. o \in Result
      <3>1. response[t] \in Response
        BY <1>0 DEF SessionVarsOK
      <3> QED
        BY <2>3, <3>1 DEF Turns!Failures, Response, Result
    <2> QED
      BY <1>2, <2>1, <2>3, <2>4, FailsInTurn DEF Mapped
  <1>11. CASE ResponseReceived(t) /\ response[t] \in Chunk
    <2>1. /\ TurnPhase[t] = "turn" /\ Step(t, "finally") /\ Return(t, "response")
          /\ UNCHANGED <<activeResponse, armed, response>> /\ "response" \in Result
      BY <1>4, <1>11, Phases DEF ResponseReceived, leaseVars, Result
    <2>2. /\ TurnVerdict' = [TurnVerdict EXCEPT ![t] = "response"]
          /\ result'[t] = "response" /\ \A q \in Request \ {t} : result'[q] = result[q]
      BY <1>0, <2>1, VerdictStep
    <2>3. result[t] = "none"
      BY <2>1 DEF TInv, TurnInv
    <2>4. TurnReply' = TurnReply /\ TurnReply[t] \in Chunk
      BY <1>11, <2>1, <2>2, <2>3, RequestAssumption DEF TurnReply
    <2>5. Turns!Return(t)
      BY <1>2, <1>3, <1>5, <2>1, <2>2, <2>4, Phases DEF Turns!Return, Turns!Move
    <2>6. TurnInv'
      BY <1>2, <1>3, <1>5, <1>11, <2>1, <2>2, Phases, RequestAssumption DEF TInv, TurnInv
    <2> QED
      BY <1>2, <2>5, <2>6 DEF Mapped, Turns!Next
  <1>12. CASE ReleaseResponseLease(t)
    <2>1. /\ TurnPhase[t] = "leaving" /\ Step(t, "done")
          /\ activeResponse' = (IF activeResponse = t THEN None ELSE activeResponse)
          /\ UNCHANGED <<result, armed, response>>
      BY <1>4, <1>12, Phases DEF ReleaseResponseLease, LeaseAfter
    <2>2. Turns!Leave(t)
      BY <1>2, <1>3, <1>5, <2>1, Phases, VerdictStays DEF Turns!Leave, Turns!Move
    <2>3. TurnInv'
      BY <1>2, <1>3, <1>5, <2>1, Phases DEF TInv, TurnInv
    <2> QED
      BY <1>2, <2>2, <2>3 DEF Mapped, Turns!Next
  <1> QED
    BY <1>6, <1>7, <1>8, <1>9, <1>10, <1>11, <1>12 DEF Transact

LEMMA MappedBegin ==
  ASSUME TInv, SInv', NEW r \in Request, Begin(r)
  PROVE  Mapped
  <1>0. SessionVarsOK /\ call[r] = "idle" /\ {"acquire", "register", "done"} \subseteq CallPc
    BY DEF TInv, SInv, CallPc, Begin
  <1>1. RecordInv' /\ Spent' = Spent /\ UNCHANGED <<captured, activeResponse, armed, response>>
    BY OutsideStays DEF Begin, handlerVars, leaseVars
  <1>2. CASE r \notin Fenced
    <2>1. TurnPhase' = TurnPhase
      BY <1>0, <1>2, PhaseStep DEF Begin
    <2>2. TurnVerdict' = TurnVerdict
      BY <1>0, <1>2, VerdictStep, VerdictStays DEF Begin, Result
    <2>3. \A t \in Fenced : result'[t] = result[t]
      BY <2>2 DEF TurnVerdict
    <2>4. TurnsStill
      BY <1>1, <2>1, <2>2, <2>3 DEF TurnsStill, TurnReply
    <2>5. TurnInv'
      BY <1>1, <2>1, <2>3 DEF TInv, TurnInv
    <2> QED
      BY <1>1, <2>4, <2>5, StillDrops DEF Mapped, SInv
  <1>3. CASE r \in Fenced
    <2>0. TurnPhase[r] = "idle" /\ response[r] = "none"
      BY <1>0, <1>3, Phases DEF TurnPhase, TInv, TurnInv
    <2>1. CASE disposed
      <3>1. Step(r, "done") /\ Return(r, "disposed") /\ "disposed" \in Result
        BY <2>1 DEF Begin, Result
      <3>2. TurnPhase' = [TurnPhase EXCEPT ![r] = "over"]
        BY <1>0, <1>3, <3>1, PhaseStep, Phases
      <3>3. /\ TurnVerdict' = [TurnVerdict EXCEPT ![r] = "disposed"]
            /\ result'[r] = "disposed" /\ \A q \in Request \ {r} : result'[q] = result[q]
        BY <1>0, <1>3, <3>1, VerdictStep
      <3>4. TurnReply' = TurnReply
        BY <1>1, <2>0, <3>3, RequestAssumption DEF TurnReply
      <3>5. Turns!Refuse(r)
        BY <1>1, <2>0, <3>2, <3>3, <3>4 DEF Turns!Refuse, Turns!Move
      <3>6. TurnInv'
        <4>1. TurnPhase'[r] = "over" /\ \A u \in Fenced \ {r} : TurnPhase'[u] = TurnPhase[u]
          BY <1>3, <3>2 DEF TurnPhase
        <4> QED
          BY <1>1, <3>3, <4>1, RequestAssumption DEF TInv, TurnInv
      <3> QED
        BY <1>1, <1>3, <3>5, <3>6 DEF Mapped, Turns!Next
    <2>2. CASE ~disposed
      <3>1. Step(r, "acquire") /\ UNCHANGED result
        BY <1>3, <2>2 DEF Begin
      <3>2. TurnPhase' = [TurnPhase EXCEPT ![r] = "asked"]
        BY <1>0, <1>3, <3>1, PhaseStep, Phases
      <3>3. Turns!Ask(r)
        BY <1>1, <2>0, <3>1, <3>2, VerdictStays DEF Turns!Ask, Turns!Move
      <3>4. TurnInv'
        <4>1. TurnPhase'[r] = "asked" /\ \A u \in Fenced \ {r} : TurnPhase'[u] = TurnPhase[u]
          BY <1>3, <3>2 DEF TurnPhase
        <4> QED
          BY <1>1, <2>0, <3>1, <4>1 DEF TInv, TurnInv
      <3> QED
        BY <1>1, <1>3, <3>3, <3>4 DEF Mapped, Turns!Next
    <2> QED
      BY <2>1, <2>2
  <1> QED
    BY <1>2, <1>3

\* A call queues its write, or gives up for a conflict.
LEMMA MappedQueueing ==
  ASSUME TInv, SInv', NEW r \in Request, Queueing(r) \/ ForgetWrite(r)
  PROVE  Mapped
  <1>0. /\ SessionVarsOK /\ call[r] \in CallPc
        /\ {"submit", "posted", "rejected", "awaitWrite", "finally", "done"} \subseteq CallPc
    BY DEF TInv, SInv, CallPc, SessionVarsOK
  <1>1. RecordInv' /\ Spent' = Spent /\ UNCHANGED <<captured, activeResponse, armed, response>>
    <2>1. UNCHANGED <<captured, activeResponse, armed, response, arrived>>
      BY DEF Queueing, ForgetWrite, Register, Submit, Posted, Rejected, handlerVars, leaseVars
    <2>2. CASE Submit(r)
      BY <2>1, <2>2, RecordsStay, SchedulerStill DEF Submit, TInv, SInv
    <2>3. CASE Register(r) \/ Posted(r) \/ Rejected(r) \/ ForgetWrite(r)
      BY <2>1, <2>3, OutsideStays DEF Register, Posted, Rejected, ForgetWrite
    <2> QED
      BY <2>1, <2>2, <2>3 DEF Queueing
  <1>2. CASE r \in Fenced
    <2>1. CASE ForgetWrite(r)
      BY <1>1, <2>1, StillMapped DEF ForgetWrite, callVars, TurnPhase
    <2>2. TurnPhase[r] = "turn" \/ ForgetWrite(r)
      BY <1>2, Phases DEF Queueing, Register, Submit, Posted, Rejected, TurnPhase
    <2>3. CASE \E l \in {"submit", "posted", "rejected", "awaitWrite"} : Step(r, l) /\ UNCHANGED result
      <3>1. CASE TurnPhase[r] = "turn"
        <4>1. TurnPhase' = TurnPhase
          BY <1>0, <1>2, <2>3, <3>1, MoveWithinPhase, Phases DEF TurnPhase
        <4> QED
          BY <1>1, <2>3, <4>1, StillMapped
      <3> QED
        BY <2>1, <2>2, <3>1
    <2>4. CASE Step(r, "finally") /\ Return(r, "conflict")
      <3>1. "conflict" \in Turns!Failures /\ "conflict" \in Result
        BY DEF Turns!Failures, Result
      <3> QED
        BY <1>1, <1>2, <2>1, <2>2, <2>4, <3>1, FailsInTurn DEF Mapped
    <2>5. \/ ForgetWrite(r)
          \/ \E l \in {"submit", "posted", "rejected", "awaitWrite"} : Step(r, l) /\ UNCHANGED result
          \/ Step(r, "finally") /\ Return(r, "conflict")
      BY <1>2 DEF Queueing, Register, Submit, Posted, Rejected, AfterFailure
    <2> QED
      BY <2>1, <2>3, <2>4, <2>5
  <1>3. CASE r \notin Fenced
    <2>1. TurnPhase' = TurnPhase
      <3>1. UNCHANGED call \/ \E l \in CallPc : Step(r, l)
        BY <1>0 DEF Queueing, ForgetWrite, Register, Submit, Posted, Rejected, AfterFailure,
                    callVars
      <3> QED
        BY <1>0, <1>3, <3>1, PhaseStep DEF TurnPhase
    <2>2. UNCHANGED result \/ \E o \in Result : Return(r, o)
      <3>1. "conflict" \in Result /\ "queued" \in Result
        BY DEF Result
      <3> QED
        BY <3>1 DEF Queueing, ForgetWrite, Register, Submit, Posted, Rejected, callVars
    <2>3. TurnVerdict' = TurnVerdict
      BY <1>0, <1>3, <2>2, VerdictStep, VerdictStays
    <2>4. \A t \in Fenced : result'[t] = result[t]
      BY <2>3 DEF TurnVerdict
    <2>5. TurnsStill
      BY <1>1, <2>1, <2>3, <2>4 DEF TurnsStill, TurnReply
    <2>6. TurnInv'
      BY <1>1, <2>1, <2>4 DEF TInv, TurnInv
    <2> QED
      BY <1>1, <2>5, <2>6, StillDrops DEF Mapped, SInv
  <1> QED
    BY <1>2, <1>3

\* The handler gives a record to the lease it had read, or to nobody.
LEMMA MappedRecord ==
  ASSUME TInv, SInv', HandleRecord
  PROVE  Mapped
  <1>0. SessionVarsOK
    BY DEF TInv, SInv
  <1>1. /\ UNCHANGED <<call, result, activeResponse, armed, arrived>> /\ captured' = None
        /\ HandlerReturns
    BY DEF HandleRecord, callVars
  <1>2. /\ RecordInv' /\ Spent \subseteq Spent'
        /\ Spent' = Spent \union {held["dispatcher"]} /\ held["dispatcher"] \in Chunk \ Spent
    BY <1>1, RecordDropped
  <1>3. TurnPhase' = TurnPhase /\ TurnVerdict' = TurnVerdict
    BY <1>1, VerdictStays DEF TurnPhase
  <1>4. CASE UNCHANGED response
    BY <1>1, <1>2, <1>3, <1>4, StillMapped
  <1>5. ASSUME NEW o, response' = Answered(captured, o), captured # None,
               o = "error" \/ (o = held["dispatcher"] /\ o \in Expects[captured])
        PROVE  Mapped
    <2>1. captured \in Fenced /\ captured \in armed
      BY <1>0, <1>5 DEF SessionVarsOK, TInv, TurnInv
    <2>2. o \in Response
      BY <1>2, <1>5 DEF Response
    <2>3. /\ TurnReply' # TurnReply => captured = activeResponse /\ Turns!Unanswered(captured)
          /\ captured = activeResponse => Turns!Tell(o)
          /\ \A t \in Fenced : response[t] # "none" => response'[t] = response[t]
          /\ \A t \in Fenced : TurnPhase[t] \in {"idle", "asked"} => response'[t] = response[t]
      BY <1>1, <1>5, <2>1, <2>2, LeaseTold
    <2>4. TurnInv'
      BY <1>1, <1>3, <2>3, SessionAssumption DEF TInv, TurnInv
    <2>5. CASE TurnReply' = TurnReply
      <3>1. TurnsStill
        BY <1>1, <1>2, <1>3, <2>5 DEF TurnsStill
      <3> QED
        BY <1>2, <2>4, <3>1, StillDrops DEF Mapped, SInv
    <2>6. CASE TurnReply' # TurnReply
      <3>1. Turns!Answer(held["dispatcher"])
        BY <1>1, <1>2, <1>3, <1>5, <2>1, <2>3, <2>6 DEF Turns!Answer
      <3> QED
        BY <1>2, <2>4, <3>1 DEF Mapped, Turns!Next
    <2> QED
      BY <2>5, <2>6
  <1> QED
    BY <1>4, <1>5 DEF HandleRecord

\* The writer starts on a write, which may be that of the call whose turn it is.
LEMMA MappedStart ==
  ASSUME TInv, SInv', StartSessionWrite
  PROVE  Mapped
  <1>1. UNCHANGED <<call, result, activeResponse, response, captured, arrived>>
        /\ armed' = ArmedByStart
    BY DEF StartSessionWrite, callVars, handlerVars
  <1>2. RecordInv' /\ Spent' = Spent
    BY <1>1, RecordsStay, SchedulerStill DEF StartSessionWrite, Writer, TInv, SInv
  <1>3. TurnPhase' = TurnPhase /\ TurnVerdict' = TurnVerdict /\ TurnReply' = TurnReply
    BY <1>1, VerdictStays DEF TurnPhase
  <1>4. CASE armed' = armed
    BY <1>1, <1>2, <1>3, <1>4, StillMapped
  <1>5. CASE armed' # armed
    <2>1. activeResponse # None /\ armed' = armed \union {activeResponse}
      BY <1>1, <1>5 DEF ArmedByStart
    <2>2. Turns!BeginLine
      BY <1>1, <1>2, <1>3, <2>1 DEF Turns!BeginLine
    <2>3. TurnPhase[activeResponse] \notin {"idle", "asked"}
      <3>1. call[activeResponse] \in Holding /\ activeResponse \in Fenced
        BY <2>1 DEF TInv, SInv, LeaseInv, LeaseHeldByLiveCall, SessionVarsOK
      <3>2. \A l \in Holding : PhaseAt(l) \notin {"idle", "asked"}
        BY DEF Holding, PhaseAt
      <3> QED
        BY <3>1, <3>2 DEF TurnPhase
    <2>4. TurnInv'
      BY <1>1, <1>3, <2>1, <2>3 DEF TInv, TurnInv
    <2> QED
      BY <1>2, <2>2, <2>4 DEF Mapped, Turns!Next
  <1> QED
    BY <1>4, <1>5

LEMMA MappedHandler ==
  ASSUME TInv, SInv', Handler
  PROVE  Mapped
  <1>1. ASSUME UNCHANGED <<call, result, activeResponse, armed, response>>,
               captured' = captured \/ captured' = None \/ captured' \in armed,
               RecordInv', Spent \subseteq Spent'
        PROVE  Mapped
    BY <1>1, StillMapped DEF TurnPhase
  <1>2. CASE ReceiveChunk
    BY <1>1, <1>2, RecordDispatched DEF ReceiveChunk, callVars, leaseVars
  <1>3. CASE HandlerEnds
    BY <1>1, <1>3, RecordDropped DEF HandlerEnds, callVars, leaseVars
  <1>4. ASSUME NEW c \in Chunk, ReadSessionChunk(c) PROVE Mapped
    BY <1>1, <1>4, RecordRead DEF ReadSessionChunk, callVars, leaseVars
  <1> QED
    BY <1>2, <1>3, <1>4, MappedStart, MappedRecord DEF Handler

LEMMA MappedScheduler ==
  ASSUME TInv, SInv', SchedulerOnly
  PROVE  Mapped
  <1>1. UNCHANGED <<call, result, activeResponse, armed, response, captured, arrived>>
    BY DEF SchedulerOnly, sessionVars, callVars, leaseVars, handlerVars
  <1>2. RecordInv' /\ Spent \subseteq Spent'
    <2>1. CASE EnqueueChunk
      BY <1>1, <2>1, RecordEnqueued
    <2>2. CASE ReaderCancelled
      BY <1>1, <2>2, RecordDropped
    <2>3. CASE ~EnqueueChunk /\ ~ReaderCancelled
      <3>1. ReceiveStill
        BY <2>3, SchedulerStill DEF SchedulerOnly, Writer, TInv, SInv
      <3> QED
        BY <1>1, <3>1, RecordsStay DEF TInv
    <2> QED
      BY <2>1, <2>2, <2>3
  <1> QED
    BY <1>1, <1>2, StillMapped DEF TurnPhase

LEMMA MappedClosing ==
  ASSUME TInv, SInv', Closing
  PROVE  Mapped
  <1>1. UNCHANGED <<call, result, captured, arrived, armed>>
    BY DEF Closing, MonitorObserves, DisposeSession, DisposeScheduler, FinishSessionDispose,
       CancelActiveResponse, CancelReleasesFence, CancelReleasesPreempted, callVars, leaseVars,
       handlerVars
  <1>2. RecordInv' /\ Spent' = Spent
    <2>1. \/ UNCHANGED vars \/ BeginDispose \/ \E x : Release(x)
      BY DEF Closing, MonitorObserves, DisposeSession, DisposeScheduler, FinishSessionDispose,
         CancelActiveResponse, CancelReleasesFence, CancelReleasesPreempted
    <2> QED
      BY <1>1, <2>1, RecordsStay, SchedulerStill DEF TInv, SInv
  <1>3. TurnPhase' = TurnPhase /\ TurnVerdict' = TurnVerdict
    BY <1>1, VerdictStays DEF TurnPhase
  <1>4. CASE UNCHANGED <<activeResponse, response>>
    BY <1>1, <1>2, <1>3, <1>4, StillMapped
  <1>5. ASSUME NEW c \in Canceller, CancelActiveResponse(c) PROVE Mapped
    <2>1. CASE activeResponse = None
      BY <1>4, <1>5, <2>1 DEF CancelActiveResponse
    <2>2. CASE activeResponse # None
      <3>1. activeResponse \in Fenced /\ activeResponse' = None
            /\ response' = Answered(activeResponse, Reason(c))
        BY <1>5, <2>2 DEF CancelActiveResponse, TInv, SInv, SessionVarsOK
      <3>2. Reason(c) \in Response /\ Reason(c) \in {"closing", "faulted"}
        BY DEF Reason, Response
      <3>3. /\ Turns!Tell(Reason(c))
            /\ \A t \in Fenced : response[t] # "none" => response'[t] = response[t]
            /\ \A t \in Fenced : TurnPhase[t] \in {"idle", "asked"} => response'[t] = response[t]
        BY <1>1, <3>1, <3>2, LeaseTold
      <3>4. Turns!Close
        BY <1>1, <1>2, <1>3, <2>2, <3>1, <3>2, <3>3 DEF Turns!Close
      <3>5. TurnInv'
        BY <1>1, <1>3, <3>3, SessionAssumption DEF TInv, TurnInv
      <3> QED
        BY <1>2, <3>4, <3>5 DEF Mapped, Turns!Next
    <2> QED
      BY <2>1, <2>2
  <1> QED
    BY <1>4, <1>5 DEF Closing, MonitorObserves, DisposeSession, DisposeScheduler,
       FinishSessionDispose, CancelReleasesFence, CancelReleasesPreempted, leaseVars

LEMMA TurnsInit == SessionInit => TInv /\ Turns!Init
  <1> SUFFICES ASSUME SessionInit PROVE TInv /\ Turns!Init
    OBVIOUS
  <1>1. TurnPhase = [t \in Fenced |-> "idle"]
    BY RequestAssumption, Phases DEF SessionInit, TurnPhase
  <1>2. \A t \in Fenced : result[t] = "none" /\ response[t] = "none"
    BY RequestAssumption DEF SessionInit
  <1>3. TurnInv
    BY <1>1, <1>2 DEF SessionInit, TurnInv
  <1>4. RecordInv
    BY DEF SessionInit, Init, RecordInv, Actor
  <1>5. Turns!Init
    BY <1>1, <1>2 DEF SessionInit, Turns!Init, TurnReply, TurnVerdict, Spent
  <1> QED
    BY <1>3, <1>4, <1>5, SInvInit DEF TInv

LEMMA TurnsStep ==
  ASSUME TInv, [SessionNext]_allVars
  PROVE  TInv' /\ [Turns!Next]_(Turns!vars)
  <1>1. SInv'
    BY SInvStep DEF TInv
  <1>2. CASE UNCHANGED allVars
    <2>1. /\ UNCHANGED <<call, result, activeResponse, armed, response, captured, arrived>>
          /\ UNCHANGED vars
      BY <1>2 DEF allVars, sessionVars, callVars, leaseVars, handlerVars
    <2>2. RecordInv' /\ Spent' = Spent
      BY <2>1, OutsideStays
    <2>3. TurnPhase' = TurnPhase /\ TurnVerdict' = TurnVerdict /\ TurnReply' = TurnReply
      BY <2>1, VerdictStays DEF TurnPhase
    <2>4. TurnInv'
      BY <2>1, <2>3, TurnFrame DEF TInv
    <2> QED
      BY <1>1, <2>1, <2>2, <2>3, <2>4 DEF TInv, Turns!vars
  <1>3. ASSUME NEW t \in Fenced, CallOff(t) PROVE Mapped
    <2>1. UNCHANGED <<vars, call, result, activeResponse, armed, response, captured, arrived>>
      BY <1>3 DEF CallOff, leaseVars, handlerVars
    <2> QED
      BY <1>1, <2>1, OutsideStays, StillMapped DEF TurnPhase
  <1>4. CASE SessionNext
    <2>1. Mapped
      BY <1>1, <1>3, <1>4, MappedTransact, MappedBegin, MappedQueueing, MappedHandler,
         MappedScheduler, MappedClosing DEF SessionNext
    <2> QED
      BY <1>1, <2>1 DEF Mapped, TInv
  <1> QED
    BY <1>2, <1>4

\* ImplementsTurns: however preemption, cancellation, timeouts, faults, closing and
\* late records interleave, the session behaves like callers that take turns on the
\* line, where a record is given at most once, only to the caller whose turn it is
\* and whose line was begun, and no answer is ever replaced.
THEOREM SessionImplementsTurns == SessionSpec => ImplementsTurns
  <1>1. TInv /\ [SessionNext]_allVars => TInv' /\ [Turns!Next]_(Turns!vars)
    BY TurnsStep
  <1> QED
    BY <1>1, TurnsInit, PTL DEF SessionSpec, ImplementsTurns, Turns!Spec
===============================================================================
