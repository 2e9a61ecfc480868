---------------------------- MODULE DummySession ----------------------------
(***************************************************************************)
(* DummySerialSession on top of its SerialDuplexScheduler: TransactAsync   *)
(* callers that compete for the single response lease, QueueUnobserved     *)
(* callers, the chunk handler that matches untagged responses, the fault   *)
(* monitor and DisposeAsync.  A fenced request is a transaction, any other *)
(* a direct write.  Every request is submitted at most once.               *)
(***************************************************************************)
EXTENDS SerialScheduler

CONSTANTS
    Expects,        \* [Fenced -> SUBSET Chunk]: isExpected of each transaction
    Cancellable     \* bound: transactions whose token may be cancelled

ASSUME SessionAssumption ==
    /\ Expects \in [Fenced -> SUBSET Chunk]
    /\ Cancellable \subseteq Fenced
    /\ Chunk \intersect {"none", "preempted", "closing", "faulted", "error"} = {}

VARIABLES
    call,           \* where each TransactAsync or QueueUnobserved call stands
    result,         \* how it returned
    calledOff,      \* transactions whose cancellation token is cancelled
    activeResponse, \* the transaction that holds the lease
    armed,          \* ResponseLease.IsArmed
    response,       \* ResponseLease.Response: a chunk, an exception or "none"
    leaseReleased,  \* ResponseLease.Released is set
    preemptedFence, \* ResponseLease.PreemptedWriterFence, None once released
    awaited,        \* the lease a waiting transaction waits for
    writes,         \* the requests the metadata dictionary holds
    captured,       \* the lease the chunk handler read under responseGate
    disposed,
    canceller,      \* the monitor's and the disposer's place in their code
    cancelling,     \* the lease each of them took from activeResponse
    arrived         \* the chunks that were read: each is read once (bound)

callVars    == <<call, result, calledOff, awaited>>
leaseVars   == <<activeResponse, armed, response, leaseReleased, preemptedFence>>
cancelVars  == <<disposed, canceller, cancelling>>
handlerVars == <<captured, arrived>>
sessionVars == <<callVars, leaseVars, cancelVars, handlerVars, writes>>

CallPc == {"idle", "acquire", "wait", "register", "submit", "posted", "rejected",
           "awaitWrite", "awaitResponse", "finally", "fence", "release", "done"}
Holding == {"register", "submit", "posted", "rejected", "awaitWrite",
            "awaitResponse", "finally", "fence", "release"}
Result == {"none", "queued", "disposed", "conflict", "timeout", "preempted",
           "cancelled", "failed", "closing", "faulted", "error", "response"}
Response == Chunk \union {"none", "preempted", "closing", "faulted", "error"}
Canceller == {"monitor", "disposer"}
CancelPc == {"idle", "cancel", "fence", "preempted", "scheduler", "await", "done"}

\* Session variables hold values of their kind.
SessionTypeOK ==
    /\ TypeOK
    /\ call \in [Request -> CallPc] /\ result \in [Request -> Result]
    /\ calledOff \subseteq Cancellable
    /\ activeResponse \in Fenced \union {None} /\ armed \subseteq Fenced
    /\ response \in [Fenced -> Response] /\ leaseReleased \subseteq Fenced
    /\ preemptedFence \in [Fenced -> Fenced \union {None}]
    /\ awaited \in [Fenced -> Fenced \union {None}]
    /\ writes \subseteq Request
    /\ captured \in Fenced \union {None}
    /\ disposed \in BOOLEAN
    /\ canceller \in [Canceller -> CancelPc]
    /\ cancelling \in [Canceller -> Fenced \union {None}]
    /\ arrived \subseteq Chunk

SessionInit ==
    /\ Init
    /\ call = [r \in Request |-> "idle"] /\ result = [r \in Request |-> "none"]
    /\ calledOff = {} /\ awaited = [t \in Fenced |-> None]
    /\ activeResponse = None /\ armed = {}
    /\ response = [t \in Fenced |-> "none"] /\ leaseReleased = {}
    /\ preemptedFence = [t \in Fenced |-> None]
    /\ writes = {} /\ captured = None
    /\ disposed = FALSE
    /\ canceller = [c \in Canceller |-> "idle"]
    /\ cancelling = [c \in Canceller |-> None]
    /\ arrived = {}

Step(r, l) == call' = [call EXCEPT ![r] = l]
Return(r, o) == result' = [result EXCEPT ![r] = o]

\* TrySetResult and TrySetException: the first one wins.  Mutant: the last one.
AnsweredLast(t, o) == [response EXCEPT ![t] = o]
Answered(t, o) == [response EXCEPT ![t] = IF @ = "none" THEN o ELSE @]

\* SerialResponseFence.Release of x's fence, which no other step does here.
Release(x) ==
    /\ released' = released \union ({x} \ {None})
    /\ UNCHANGED <<stopVars, queueVars, outcome, posting, victim, writerVars,
                   receiveVars, pc, historyVars>>

-----------------------------------------------------------------------------
(* TransactAsync and QueueUnobserved                                       *)

Begin(r) ==
    /\ call[r] = "idle"
    /\ IF disposed THEN Step(r, "done") /\ Return(r, "disposed")
       ELSE Step(r, IF r \in Fenced THEN "acquire" ELSE "register") /\ UNCHANGED result
    /\ UNCHANGED <<vars, calledOff, awaited, leaseVars, cancelVars, handlerVars, writes>>

\* The caller's token is cancelled, at any time.
CallOff(t) ==
    /\ t \in Cancellable \ calledOff
    /\ call[t] \notin {"idle", "done"}
    /\ calledOff' = calledOff \union {t}
    /\ UNCHANGED <<vars, call, result, awaited, leaseVars, cancelVars, handlerVars, writes>>

AcquireFreeLease(t) ==
    /\ call[t] = "acquire"
    /\ activeResponse = None
    /\ activeResponse' = t
    /\ Step(t, "register")
    /\ UNCHANGED <<vars, result, calledOff, awaited, armed, response, leaseReleased,
                   preemptedFence, cancelVars, handlerVars, writes>>

\* Mutant: safety calls wait for the lease like everybody else.
PreemptsNobody(t) == FALSE
Preempts(t) ==
    /\ activeResponse # None
    /\ PriorityOf[t] = Safety
    /\ PriorityOf[activeResponse] # Safety

PreemptLease(t) ==
    /\ call[t] = "acquire"
    /\ Preempts(t)
    /\ activeResponse' = t
    /\ preemptedFence' = [preemptedFence EXCEPT ![t] = activeResponse]
    /\ response' = Answered(activeResponse, "preempted")
    /\ leaseReleased' = leaseReleased \union {activeResponse}
    /\ Step(t, "register")
    /\ UNCHANGED <<vars, result, calledOff, awaited, armed, cancelVars, handlerVars, writes>>

WaitForLease(t) ==
    /\ call[t] = "acquire"
    /\ activeResponse # None
    /\ ~Preempts(t)
    /\ awaited' = [awaited EXCEPT ![t] = activeResponse]
    /\ Step(t, "wait")
    /\ UNCHANGED <<vars, result, calledOff, leaseVars, cancelVars, handlerVars, writes>>

LeaseReleaseSeen(t) ==
    /\ call[t] = "wait"
    /\ awaited[t] \in leaseReleased
    /\ Step(t, "acquire")
    /\ UNCHANGED <<vars, result, calledOff, awaited, leaseVars, cancelVars, handlerVars,
                   writes>>

\* Cancelled before the try block: no lease, no fence, nothing to undo.
WaitCancelled(t) ==
    /\ call[t] = "wait"
    /\ t \in calledOff
    /\ Step(t, "done") /\ Return(t, "cancelled")
    /\ UNCHANGED <<vars, calledOff, awaited, leaseVars, cancelVars, handlerVars, writes>>

\* Where a call goes when its submission fails: a direct call just returns.
AfterFailure(r) == IF r \in Fenced THEN "finally" ELSE "done"

\* writes.TryAdd.
Register(r) ==
    /\ call[r] = "register"
    /\ \/ /\ \A q \in writes : WorkIdOf[q] # WorkIdOf[r]
          /\ writes' = writes \union {r}
          /\ Step(r, "submit") /\ UNCHANGED result
       \/ /\ \E q \in writes : WorkIdOf[q] = WorkIdOf[r]
          /\ writes' = writes
          /\ Step(r, AfterFailure(r)) /\ Return(r, "conflict")
    /\ UNCHANGED <<vars, calledOff, awaited, leaseVars, cancelVars, handlerVars>>

\* scheduler.QueueWrite up to the end of its critical section.
Submit(r) ==
    /\ call[r] = "submit"
    /\ QueueWrite(r)
    /\ Step(r, IF outcome'[r] = "rejected" THEN "rejected" ELSE "posted")
    /\ UNCHANGED <<result, calledOff, awaited, leaseVars, cancelVars, handlerVars, writes>>

ForgetPreempted(r) ==
    preemptedFence' = IF r \in Fenced THEN [preemptedFence EXCEPT ![r] = None]
                      ELSE preemptedFence
PreemptedFenceOf(r) == IF r \in Fenced THEN preemptedFence[r] ELSE None

\* scheduler.QueueWrite returned an accepted ticket: release the fence that kept
\* ordinary work back until the safety write was queued.
Posted(r) ==
    /\ call[r] = "posted"
    /\ r \notin posting
    /\ Release(PreemptedFenceOf(r))
    /\ ForgetPreempted(r)
    /\ IF r \in Fenced THEN Step(r, "awaitWrite") /\ UNCHANGED result
       ELSE Step(r, "done") /\ Return(r, "queued")
    /\ UNCHANGED <<calledOff, awaited, activeResponse, armed, response, leaseReleased,
                   cancelVars, handlerVars, writes>>

\* A rejected ticket: forget the metadata, release the fence, throw a conflict.
Rejected(r) ==
    /\ call[r] = "rejected"
    /\ writes' = writes \ {r}
    /\ Release(PreemptedFenceOf(r))
    /\ ForgetPreempted(r)
    /\ Step(r, AfterFailure(r)) /\ Return(r, "conflict")
    /\ UNCHANGED <<calledOff, awaited, activeResponse, armed, response, leaseReleased,
                   cancelVars, handlerVars>>

\* The continuation QueueWrite attached to the ticket's completion may run.
Forgettable(r) ==
    /\ call[r] \notin {"submit", "posted", "rejected"}
    /\ outcome[r] # "pending"

ForgetWrite(r) ==
    /\ r \in writes
    /\ Forgettable(r)
    /\ writes' = writes \ {r}
    /\ UNCHANGED <<vars, callVars, leaseVars, cancelVars, handlerVars>>

\* ThrowForWriteOutcome.
Thrown(o) == CASE o = "expired"    -> "timeout"
               [] o = "superseded" -> "preempted"
               [] o = "cancelled"  -> "cancelled"
               [] OTHER            -> "failed"

WriteCompleted(t) ==
    /\ call[t] = "awaitWrite"
    /\ outcome[t] # "pending"
    /\ IF outcome[t] = "written" THEN Step(t, "awaitResponse") /\ UNCHANGED result
       ELSE Step(t, "finally") /\ Return(t, Thrown(outcome[t]))
    /\ UNCHANGED <<vars, calledOff, awaited, leaseVars, cancelVars, handlerVars, writes>>

\* The caller gives up; its write stays queued and may still be written.
AwaitCancelled(t) ==
    /\ \/ call[t] = "awaitWrite"
       \/ call[t] = "awaitResponse" /\ response[t] = "none"
    /\ t \in calledOff
    /\ Step(t, "finally") /\ Return(t, "cancelled")
    /\ UNCHANGED <<vars, calledOff, awaited, leaseVars, cancelVars, handlerVars, writes>>

ResponseReceived(t) ==
    /\ call[t] = "awaitResponse"
    /\ response[t] # "none"
    /\ Step(t, "finally")
    /\ Return(t, IF response[t] \in Chunk THEN "response" ELSE response[t])
    /\ UNCHANGED <<vars, calledOff, awaited, leaseVars, cancelVars, handlerVars, writes>>

ResponseTimeout(t) ==
    /\ call[t] = "awaitResponse"
    /\ response[t] = "none"
    /\ Step(t, "finally") /\ Return(t, "timeout")
    /\ UNCHANGED <<vars, calledOff, awaited, leaseVars, cancelVars, handlerVars, writes>>

\* The finally block: the preempted fence, the own fence, the lease.
FinallyPreempted(t) ==
    /\ call[t] = "finally"
    /\ Release(preemptedFence[t])
    /\ ForgetPreempted(t)
    /\ Step(t, "fence")
    /\ UNCHANGED <<result, calledOff, awaited, activeResponse, armed, response,
                   leaseReleased, cancelVars, handlerVars, writes>>

\* Mutant: the caller leaves its own fence closed.
FinallyKeepsFence(t) ==
    /\ call[t] = "fence"
    /\ Step(t, "release")
    /\ UNCHANGED <<vars, result, calledOff, awaited, leaseVars, cancelVars, handlerVars,
                   writes>>
FinallyFence(t) ==
    /\ call[t] = "fence"
    /\ Release(t)
    /\ Step(t, "release")
    /\ UNCHANGED <<result, calledOff, awaited, leaseVars, cancelVars, handlerVars, writes>>

\* Who holds the lease once t gave it up.  Mutant: t keeps it.
LeaseKept(t) == activeResponse
LeaseAfter(t) == IF activeResponse = t THEN None ELSE activeResponse

ReleaseResponseLease(t) ==
    /\ call[t] = "release"
    /\ activeResponse' = LeaseAfter(t)
    /\ leaseReleased' = leaseReleased \union {t}
    /\ Step(t, "done")
    /\ UNCHANGED <<vars, result, calledOff, awaited, armed, response, preemptedFence,
                   cancelVars, handlerVars, writes>>

-----------------------------------------------------------------------------
(* The scheduler's callbacks                                               *)

\* ArmResponseLease, called as the writer starts on current.
ArmedByStart ==
    IF activeResponse # None /\ WorkIdOf[activeResponse] = WorkIdOf[current]
    THEN armed \union {activeResponse} ELSE armed

StartSessionWrite ==
    /\ StartWrite
    /\ armed' = ArmedByStart
    /\ UNCHANGED <<callVars, activeResponse, response, leaseReleased, preemptedFence,
                   cancelVars, handlerVars, writes>>

Started == {r \in Request : attempts[r] > 0}

ReadSessionChunk(c) ==
    /\ c \notin arrived
    /\ ReadChunk(c)
    /\ arrived' = arrived \union {c}
    /\ UNCHANGED <<callVars, leaseVars, cancelVars, captured, writes>>

\* HandleReceivedChunkAsync reads the lease under responseGate and lets go.
ReceiveChunk ==
    /\ DispatchChunk
    /\ captured' = IF activeResponse \in armed THEN activeResponse ELSE None
    /\ UNCHANGED <<callVars, leaseVars, cancelVars, arrived, writes>>

\* responseObserver may claim the record, or nobody expects it; otherwise the
\* captured lease gets the record, or a device error if that is what it holds.
HandleRecord ==
    /\ HandlerReturns
    /\ captured' = None
    /\ LET c == held["dispatcher"] IN
       \/ UNCHANGED response
       \/ captured # None /\ response' = Answered(captured, "error")
       \/ captured # None /\ c \in Expects[captured]
            /\ response' = Answered(captured, c)
    /\ UNCHANGED <<callVars, activeResponse, armed, leaseReleased, preemptedFence,
                   cancelVars, arrived, writes>>

\* The scheduler's steps that call nothing in the session.
SchedulerOnly ==
    /\ \/ \E r \in Request : FinishQueueWrite(r)
       \/ WriterStopsAtLoop \/ TakeSafety \/ TakeFair \/ TakeNothing
       \/ DrainWake \/ CheckEligible \/ Woken \/ FenceReleaseSeen \/ ParkCancelled
       \/ Expire \/ TransientTimeout \/ RetryWrite
       \/ WriteSucceeds \/ WriteFails \/ WriteCancelled \/ ObserverFails
       \/ WriterFinally
       \/ EnqueueChunk \/ ReaderCancelled \/ ReadFails \/ ReaderFinally
       \/ \E a \in Actor : Stop(a)
       \/ FinishDispose
    /\ UNCHANGED sessionVars

\* The handler fails or is cancelled and drops the lease it had read.
HandlerEnds ==
    /\ HandlerFails \/ DispatcherEnds
    /\ captured' = None
    /\ UNCHANGED <<callVars, leaseVars, cancelVars, arrived, writes>>

-----------------------------------------------------------------------------
(* MonitorSchedulerAsync and DisposeAsync, both through CancelActiveResponse *)

Reason(c) == IF c = "monitor" THEN "faulted" ELSE "closing"
At(c, l) == canceller' = [canceller EXCEPT ![c] = l]

\* scheduler.Completion; only a fault cancels the response.
MonitorObserves ==
    /\ canceller["monitor"] = "idle"
    /\ Completion
    /\ At("monitor", IF lastFault THEN "cancel" ELSE "done")
    /\ UNCHANGED <<vars, callVars, leaseVars, disposed, cancelling, handlerVars, writes>>

DisposeSession ==
    /\ "dispose" \in StopCauses
    /\ ~disposed
    /\ disposed' = TRUE
    /\ At("disposer", "cancel")
    /\ UNCHANGED <<vars, callVars, leaseVars, cancelling, handlerVars, writes>>

AfterCancel(c) == IF c = "monitor" THEN "done" ELSE "scheduler"

CancelActiveResponse(c) ==
    /\ canceller[c] = "cancel"
    /\ activeResponse' = None
    /\ cancelling' = [cancelling EXCEPT ![c] = activeResponse]
    /\ IF activeResponse = None
       THEN At(c, AfterCancel(c)) /\ UNCHANGED response
       ELSE At(c, "fence") /\ response' = Answered(activeResponse, Reason(c))
    /\ UNCHANGED <<vars, callVars, armed, leaseReleased, preemptedFence, disposed,
                   handlerVars, writes>>

CancelReleasesFence(c) ==
    /\ canceller[c] = "fence"
    /\ Release(cancelling[c])
    /\ At(c, "preempted")
    /\ UNCHANGED <<callVars, leaseVars, disposed, cancelling, handlerVars, writes>>

CancelReleasesPreempted(c) ==
    /\ canceller[c] = "preempted"
    /\ Release(preemptedFence[cancelling[c]])
    /\ ForgetPreempted(cancelling[c])
    /\ leaseReleased' = leaseReleased \union {cancelling[c]}
    /\ At(c, AfterCancel(c))
    /\ UNCHANGED <<callVars, activeResponse, armed, response, disposed, cancelling,
                   handlerVars, writes>>

DisposeScheduler ==
    /\ canceller["disposer"] = "scheduler"
    /\ BeginDispose
    /\ At("disposer", "await")
    /\ UNCHANGED <<callVars, leaseVars, disposed, cancelling, handlerVars, writes>>

FinishSessionDispose ==
    /\ canceller["disposer"] = "await"
    /\ pc["disposer"] = "done"
    /\ canceller["monitor"] = "done"
    /\ writes' = {}
    /\ At("disposer", "done")
    /\ UNCHANGED <<vars, callVars, leaseVars, disposed, cancelling, handlerVars>>

-----------------------------------------------------------------------------
Transact(t) ==
    \/ AcquireFreeLease(t) \/ PreemptLease(t) \/ WaitForLease(t)
    \/ LeaseReleaseSeen(t) \/ WaitCancelled(t)
    \/ WriteCompleted(t) \/ AwaitCancelled(t) \/ ResponseReceived(t)
    \/ ResponseTimeout(t)
    \/ FinallyPreempted(t) \/ FinallyFence(t) \/ ReleaseResponseLease(t)

Queueing(r) == Register(r) \/ Submit(r) \/ Posted(r) \/ Rejected(r)

Handler ==
    \/ StartSessionWrite \/ ReceiveChunk \/ HandleRecord \/ HandlerEnds
    \/ \E c \in Chunk : ReadSessionChunk(c)

Closing ==
    \/ MonitorObserves \/ DisposeSession \/ DisposeScheduler \/ FinishSessionDispose
    \/ \E c \in Canceller :
         CancelActiveResponse(c) \/ CancelReleasesFence(c) \/ CancelReleasesPreempted(c)

SessionNext ==
    \/ \E t \in Fenced : Transact(t) \/ CallOff(t)
    \/ \E r \in Request : Begin(r) \/ Queueing(r) \/ ForgetWrite(r)
    \/ Handler \/ SchedulerOnly \/ Closing

allVars == <<vars, sessionVars>>
SessionSpec == SessionInit /\ [][SessionNext]_allVars

-----------------------------------------------------------------------------
(* Properties                                                              *)

\* The lease is held by a call that is still inside TransactAsync's try block:
\* no interleaving of preemption, cancellation, timeouts and closing leaves a
\* lease behind that nobody will release.
LeaseHeldByLiveCall == activeResponse # None => call[activeResponse] \in Holding

\* The writer never waits for the fence of a call that has returned, or of one
\* that lost its lease to a safety call already queued: every fence the writer
\* still honours is one somebody is bound to release.
FenceHasReleaser ==
    activeFence \notin released \union {None} =>
      \/ call[activeFence] \in Holding
      \/ \E s \in Fenced : preemptedFence[s] = activeFence /\ call[s] \in Holding

\* Every write the scheduler has queued or in hand still has its metadata, which
\* ObservePhysicalWrite needs: otherwise it throws and the session faults.
MetadataPresent == \A r \in Request : InHand(r) => r \in writes

\* A response is given to a transaction only once its write has begun.
ResponseAfterStart == \A t \in Fenced : response[t] \in Chunk => t \in Started

\* Two transactions never compete for one untagged response: at most one begun
\* transaction is still waiting for an answer.
SingleWaiter ==
    \A t, u \in armed :
      /\ response[t] = "none" /\ call[t] \in {"awaitWrite", "awaitResponse"}
      /\ response[u] = "none" /\ call[u] \in {"awaitWrite", "awaitResponse"}
      => t = u

\* A transaction that lost its lease to safety work, or whose session closed,
\* never returns a response it did not already have: late replies change nothing.
LateReplyIgnoredStep ==
    \A t \in Fenced :
      /\ response[t] # "none" => response'[t] = response[t]
      /\ result'[t] = "response" /\ result[t] # "response" => t \notin leaseReleased
                                                              \/ response[t] \in Chunk
LateReplyIgnored == [][LateReplyIgnoredStep]_allVars

-----------------------------------------------------------------------------
(* Refinement.  What the lease was told counts until the call has decided   *)
(* how it ends, and after that only the response it returns with; a record  *)
(* is spent once it left the reader, the receive queue and the dispatcher.  *)

PhaseAt(l) ==
    CASE l = "idle"                            -> "idle"
      [] l \in {"acquire", "wait"}             -> "asked"
      [] l \in {"finally", "fence", "release"} -> "leaving"
      [] l = "done"                            -> "over"
      [] OTHER                                 -> "turn"
OnTheWay == {receiveQueue[i] : i \in DOMAIN receiveQueue}
              \union {held["reader"], held["dispatcher"]}

TurnPhase   == [t \in Fenced |-> PhaseAt(call[t])]
TurnReply   == [t \in Fenced |-> IF result[t] \in {"none", "response"} THEN response[t]
                                                                    ELSE "none"]
TurnVerdict == [t \in Fenced |-> result[t]]
Spent       == arrived \ OnTheWay
Urgent      == {t \in Fenced : PriorityOf[t] = Safety}

Turns == INSTANCE ReplyTurns WITH
           Transaction <- Fenced, Record <- Chunk, Accepts <- Expects,
           phase <- TurnPhase, turn <- activeResponse, begun <- armed,
           reply <- TurnReply, spent <- Spent, verdict <- TurnVerdict

\* The session implements turns on the line: whatever preemption, cancellation,
\* timeouts, faults, closing and late records do to the lease, only the caller
\* whose turn it is and whose line was begun is given a record, no record is
\* given twice, an answer is never replaced, and a caller that lost its turn
\* returns no response it was not given in it.
ImplementsTurns == Turns!Spec

-----------------------------------------------------------------------------
(* Liveness: as in the scheduler, and calls inside the session run on.      *)

HandlerFairness == WF_allVars(StartSessionWrite \/ ReceiveChunk \/ HandleRecord)
SchedulerFairness ==
    /\ WF_allVars(Writer /\ UNCHANGED sessionVars)
    /\ WF_allVars((EnqueueChunk \/ ReaderCancelled \/ ReaderFinally)
                    /\ UNCHANGED sessionVars)
    /\ WF_allVars(HandlerEnds)
    /\ \A a \in Actor : WF_allVars(Stop(a) /\ UNCHANGED sessionVars)
    /\ \A r \in Request : WF_allVars(FinishQueueWrite(r) /\ UNCHANGED sessionVars)
    /\ WF_allVars(FinishDispose /\ UNCHANGED sessionVars)
    /\ WF_allVars(DisposeScheduler) /\ WF_allVars(FinishSessionDispose)
    /\ WF_allVars(MonitorObserves)
    /\ \A c \in Canceller :
         WF_allVars(CancelActiveResponse(c) \/ CancelReleasesFence(c)
                      \/ CancelReleasesPreempted(c))
CallFairness(r) ==
    /\ WF_allVars(Queueing(r))
    /\ r \in Fenced => WF_allVars(Transact(r))

\* Ordinary calls may stall anywhere; only safety calls are known to run on.
SessionLiveSpec ==
    SessionSpec /\ HandlerFairness /\ SchedulerFairness
      /\ \A r \in Request : PriorityOf[r] = Safety => CallFairness(r)

\* A safety transaction returns although the ordinary transaction it meets hangs
\* with the lease and the writer's fence in its hands.
SafetyTransactReturns ==
    \A t \in Fenced : PriorityOf[t] = Safety =>
      (call[t] \notin {"idle", "done"} ~> call[t] = "done")

\* If the other callers run on, every ordinary transaction returns too: nobody
\* waits for ever for a lease, a fence or a write.
TransactReturns ==
    (\A r \in Request : CallFairness(r)) =>
      \A t \in Fenced : PriorityOf[t] # Safety =>
        (call[t] \notin {"idle", "done"} ~> call[t] = "done")
=============================================================================
