-------------------------- MODULE RobotGatewayProofs --------------------------
(***************************************************************************)
(* Proofs about RobotGateway, for any number of sessions and commands and  *)
(* any audit capacity: every open transport has one owner, one command at  *)
(* a time runs without having been called off, and the safety interlock    *)
(* keeps ordinary commands off the line.                                   *)
(***************************************************************************)
EXTENDS RobotGateway, SetInduction, FiniteSetTheorems, TLAPS

-----------------------------------------------------------------------------
(* The bounded audit                                                       *)

\* Trimming adds no entry.
LEMMA TrimDrops ==
  ASSUME NEW h \in Seq(Command), NEW free
  PROVE  /\ TrimHistory(h, free) \in Seq(Command)
         /\ Range(TrimHistory(h, free)) \subseteq Range(h)
  <1> DEFINE excess == Len(h) - CommandHistoryCapacity
             out == {h[i] : i \in {i \in DOMAIN h : /\ h[i] \in free
                              /\ Cardinality({j \in 1 .. i - 1 : h[j] \in free}) < excess}}
             kept == {i \in DOMAIN h : h[i] \notin out}
             t == Selected(h, kept)
  <1>1. TrimHistory(h, free) = t
    BY DEF TrimHistory
  <1> HIDE DEF out
  <1>2. kept \in SUBSET (1 .. Len(h)) /\ \A i \in kept : i \in DOMAIN h
    OBVIOUS
  <1> HIDE DEF kept
  <1>3. /\ t \in Seq(Command) /\ Len(t) = Cardinality(kept)
        /\ \A n \in 1 .. Cardinality(kept) :
             PositionOf(kept, n) \in kept /\ t[n] = h[PositionOf(kept, n)]
    BY <1>2, SelectedType
  <1> HIDE DEF t
  <1>4. \A n \in DOMAIN t : \E i \in DOMAIN h : t[n] = h[i]
    <2>1. DOMAIN t = 1 .. Cardinality(kept)
      BY <1>3
    <2> QED
      BY <1>2, <1>3, <2>1
  <1>5. Range(t) \subseteq Range(h)
    BY <1>4 DEF Range
  <1> QED
    BY <1>1, <1>3, <1>5

-----------------------------------------------------------------------------
(* Commands: one at a time, and the interlock                              *)

\* The shape of the command state that the other parts need.
CmdShape ==
    /\ history \in Seq(Command)
    /\ exclusive \in Command \union {None} /\ unknown \subseteq Command
    /\ DOMAIN cmd = Command
    /\ \A c \in Command : {"pc", "calledOff", "result"} \subseteq DOMAIN cmd[c]
    /\ DOMAIN tx = Caller /\ \A t \in Caller : "phase" \in DOMAIN tx[t]

Admitted(c) == c \in Entries /\ Running(c) /\ ~cmd[c].calledOff

\* An uncalled running command of the audit holds the arbitration; an unknown
\* outcome has latched the interlock or its command is about to; and an ordinary
\* command past its validation knows of none.
HolderBegun == \A c \in Command : exclusive = c => cmd[c].pc # "idle"
AdmittedHolds == \A c \in Command : Admitted(c) => exclusive = c
UnknownLatches ==
    \A d \in unknown :
        ~cmd[d].calledOff =>
            \/ latched
            \/ cmd[d].pc = "decided" /\ cmd[d].result \in UnknownStatus /\ exclusive = d
ValidatedSafely ==
    \A c \in Command :
        Admitted(c) /\ ~IsStop(c) /\ cmd[c].pc \in {"checked", "run"}
            => \A d \in unknown : cmd[d].calledOff
LineWhileRunning == \A c \in Command : tx[c].phase # "off" => cmd[c].pc = "run"

CmdInv ==
    /\ CmdShape /\ HolderBegun /\ AdmittedHolds /\ UnknownLatches /\ ValidatedSafely
    /\ LineWhileRunning

-----------------------------------------------------------------------------
(* Transports: each open one has one owner                                 *)

OwnShape ==
    /\ active \in Session \union {None}
    /\ DOMAIN disc = Session /\ DOMAIN line = Session /\ DOMAIN poll = Session
    /\ \A s \in Session : "pc" \in DOMAIN poll[s]

IsOpen(s) == line[s] \in {"open", "faulted"}

OwnerOf ==
    \A s \in Session :
        /\ active = s => IsOpen(s) /\ disc[s] = "none" /\ poll[s].pc # "close"
        /\ disc[s] = "close" => IsOpen(s) /\ poll[s].pc # "close"
        /\ poll[s].pc = "close" => IsOpen(s) /\ disc[s] # "close"
        /\ IsOpen(s) => active = s \/ disc[s] = "close" \/ poll[s].pc = "close"
        /\ line[s] \in {"none", "opening"} => poll[s].pc = "none" /\ disc[s] = "none"

Connecting ==
    /\ gate # "free" => active = None
    /\ \A s \in Session :
           line[s] = "opening" =>
               /\ gate = "opening"
               /\ \A r \in Session : line[r] = "opening" => r = s

OwnInv == OwnShape /\ OwnerOf /\ Connecting

-----------------------------------------------------------------------------
(* What the steps of the port do to the calls                              *)

\* No command's call begins, and every call keeps its shape.
CallsKept ==
    /\ DOMAIN tx' = Caller /\ \A t \in Caller : "phase" \in DOMAIN tx'[t]
    /\ \A c \in Command : tx'[c].phase # "off" => tx[c].phase # "off"

\* A caller is a session or a command, and never both.
LEMMA Callers ==
  /\ Session \subseteq Caller /\ Command \subseteq Caller
  /\ \A s \in Session : s \notin Command
  BY GatewayAssumption DEF Caller

\* Failing a call leaves its phase alone; ending it does not begin it.
LEMMA CallOps ==
  ASSUME NEW x, "phase" \in DOMAIN x, NEW e
  PROVE  /\ DOMAIN Fail(x, e) = DOMAIN x /\ Fail(x, e).phase = x.phase
         /\ DOMAIN EndWith(x, e) = DOMAIN x /\ EndWith(x, e).phase = "ended"
         /\ DOMAIN Unwritten(x, e) = DOMAIN x /\ Unwritten(x, e).phase = "ended"
  BY DEF Fail, EndWith, Unwritten

\* A reply leaves the phases alone.
LEMMA AnswerKeeps ==
  ASSUME CmdShape, NEW t, NEW r
  PROVE  /\ DOMAIN Answer(t, r) = Caller
         /\ \A x \in Caller : /\ "phase" \in DOMAIN Answer(t, r)[x]
                              /\ Answer(t, r)[x].phase = tx[x].phase
  <1>1. ASSUME NEW x \in Caller
        PROVE  "phase" \in DOMAIN Answer(t, r)[x] /\ Answer(t, r)[x].phase = tx[x].phase
    <2>1. /\ "phase" \in DOMAIN Fail(tx[x], "error")
          /\ Fail(tx[x], "error").phase = tx[x].phase
      BY CallOps DEF CmdShape
    <2> QED
      BY <2>1 DEF Answer, CmdShape
  <1> QED
    BY <1>1 DEF Answer, CmdShape

\* Draining a line begins no call.
LEMMA DrainKeeps ==
  ASSUME CmdShape, NEW s, NEW e, NEW e2
  PROVE  /\ DOMAIN Drained(s, e, e2) = Caller
         /\ \A x \in Caller : /\ "phase" \in DOMAIN Drained(s, e, e2)[x]
                              /\ Drained(s, e, e2)[x].phase # "off" => tx[x].phase # "off"
  <1>1. ASSUME NEW x \in Caller
        PROVE  /\ "phase" \in DOMAIN Drained(s, e, e2)[x]
               /\ Drained(s, e, e2)[x].phase # "off" => tx[x].phase # "off"
    <2>1. "phase" \in DOMAIN tx[x]
      BY DEF CmdShape
    <2>2. /\ "phase" \in DOMAIN Fail(tx[x], e2) /\ Fail(tx[x], e2).phase = tx[x].phase
          /\ "phase" \in DOMAIN Unwritten(tx[x], e)
      BY <2>1, CallOps
    <2> QED
      BY <2>1, <2>2 DEF Drained
  <1> QED
    BY <1>1 DEF Drained

\* Closing a serial session begins no call.
LEMMA DisposeKeeps ==
  ASSUME CmdShape, NEW s, BeginSerialDispose(s)
  PROVE  CallsKept
  <1>1. ASSUME NEW x \in Caller
        PROVE  "phase" \in DOMAIN tx'[x] /\ tx'[x].phase = tx[x].phase
    <2>1. "phase" \in DOMAIN tx[x]
      BY DEF CmdShape
    <2>2. "phase" \in DOMAIN Fail(tx[x], "closing") /\ Fail(tx[x], "closing").phase = tx[x].phase
      BY <2>1, CallOps
    <2> QED
      BY <2>1, <2>2 DEF BeginSerialDispose
  <1>2. DOMAIN tx' = Caller
    BY DEF BeginSerialDispose
  <1> QED
    BY <1>1, <1>2, Callers DEF CallsKept

\* A step that turns one call of a session, or one call that is under way, keeps
\* the others.
LEMMA OneCallKept ==
  ASSUME CmdShape, NEW t \in Caller, NEW v, tx' = [tx EXCEPT ![t] = v],
         "phase" \in DOMAIN v, t \in Command => tx[t].phase # "off" \/ v.phase = "off"
  PROVE  CallsKept
  BY Callers DEF CmdShape, CallsKept

LEMMA PortKeepsCalls ==
  ASSUME CmdShape
  PROVE  /\ \A t \in Caller : CallStep(t) => CallsKept
         /\ \A s \in Session : PortStep(s) \/ ExpireWrite(s) \/ TransportFault(s) => CallsKept
  <1> USE Callers
  <1>0. \A t \in Caller : "phase" \in DOMAIN tx[t]
    BY DEF CmdShape
  <1>1. ASSUME NEW t \in Caller, AcquireResponseLease(t) PROVE CallsKept
    <2>1. ASSUME NEW x \in Caller
          PROVE  "phase" \in DOMAIN tx'[x] /\ (tx'[x].phase # "off" => tx[x].phase # "off")
      <3>1. "phase" \in DOMAIN Fail(tx[x], "preempted")
            /\ Fail(tx[x], "preempted").phase = tx[x].phase
        BY <1>0, CallOps
      <3>2. tx'[x] \in {[tx[t] EXCEPT !.phase = "leased"], Fail(tx[x], "preempted"), tx[x]}
            /\ (tx'[x] = [tx[t] EXCEPT !.phase = "leased"]
                  => x = t \/ tx'[x] = Fail(tx[x], "preempted") \/ tx'[x] = tx[x])
        BY <1>1 DEF AcquireResponseLease
      <3> QED
        BY <1>0, <1>1, <3>1, <3>2 DEF AcquireResponseLease
    <2>2. DOMAIN tx' = Caller
      BY <1>1 DEF AcquireResponseLease
    <2> QED
      BY <2>1, <2>2 DEF CallsKept
  <1>2. ASSUME NEW t \in Caller, QueueWrite(t) PROVE CallsKept
    <2>1. \/ tx' = [tx EXCEPT ![t] = [tx[t] EXCEPT !.phase = "queued"]]
          \/ tx' = [tx EXCEPT ![t] = EndWith(tx[t], "conflict")]
      BY <1>2 DEF QueueWrite, CmdShape
    <2>2. "phase" \in DOMAIN EndWith(tx[t], "conflict") /\ tx[t].phase = "leased"
      BY <1>0, <1>2, CallOps DEF QueueWrite
    <2> QED
      BY <1>0, <2>1, <2>2, OneCallKept
  <1>3. ASSUME NEW s \in Session, Write(s) PROVE CallsKept
    <2>1. PICK i \in DOMAIN queue[s] :
             tx' = IF tx[queue[s][i].by].phase = "queued" /\ tx[queue[s][i].by].op = queue[s][i].op
                   THEN [tx EXCEPT ![queue[s][i].by] = IF queue[s][i].op = "zero"
                           THEN [@ EXCEPT !.phase = "ended", !.resp = Returned("ok")]
                           ELSE [@ EXCEPT !.phase = "written"]]
                   ELSE tx
      BY <1>3 DEF Write
    <2> DEFINE t == queue[s][i].by
    <2> HIDE DEF t
    <2>2. \/ tx' = tx
          \/ tx[t].phase = "queued" /\ tx' = [tx EXCEPT ![t] =
                [tx[t] EXCEPT !.phase = "ended", !.resp = Returned("ok")]]
          \/ tx[t].phase = "queued" /\ tx' = [tx EXCEPT ![t] = [tx[t] EXCEPT !.phase = "written"]]
      BY <2>1 DEF t
    <2>3. DOMAIN tx' = Caller
      BY <2>2 DEF CmdShape
    <2>4. ASSUME NEW x \in Caller
          PROVE  "phase" \in DOMAIN tx'[x] /\ (tx'[x].phase # "off" => tx[x].phase # "off")
      BY <1>0, <2>2 DEF CmdShape
    <2> QED
      BY <2>3, <2>4 DEF CallsKept
  <1>4. ASSUME NEW s \in Session, ExpireWrite(s) PROVE CallsKept
    <2>1. PICK i \in DOMAIN queue[s] :
             tx' = IF tx[queue[s][i].by].phase = "queued" /\ tx[queue[s][i].by].op = queue[s][i].op
                   THEN [tx EXCEPT ![queue[s][i].by] = Unwritten(@, "timeout")] ELSE tx
      BY <1>4 DEF ExpireWrite
    <2> DEFINE t == queue[s][i].by
    <2> HIDE DEF t
    <2>2. \/ tx' = tx
          \/ tx[t].phase = "queued" /\ tx' = [tx EXCEPT ![t] = Unwritten(tx[t], "timeout")]
      BY <2>1 DEF t
    <2>3. DOMAIN tx' = Caller
      BY <2>2 DEF CmdShape
    <2>4. ASSUME NEW x \in Caller
          PROVE  "phase" \in DOMAIN tx'[x] /\ (tx'[x].phase # "off" => tx[x].phase # "off")
      <3>1. "phase" \in DOMAIN Unwritten(tx[x], "timeout")
        BY <1>0, CallOps
      <3> QED
        BY <1>0, <2>2, <3>1 DEF CmdShape
    <2> QED
      BY <2>3, <2>4 DEF CallsKept
  <1>5. ASSUME NEW s \in Session, ReceiveRecord(s) PROVE CallsKept
    <2>1. PICK t, r : tx' = tx \/ tx' = Answer(t, r)
      BY <1>5 DEF ReceiveRecord
    <2> QED
      BY <1>0, <2>1, AnswerKeeps DEF CallsKept, CmdShape
  <1>6. ASSUME NEW s \in Session, ApplyObservedResponse(s) PROVE CallsKept
    <2>1. tx' = Answer(disp[s].waiter, disp[s].reply)
      BY <1>6 DEF ApplyObservedResponse
    <2> QED
      BY <2>1, AnswerKeeps DEF CallsKept
  <1>7. ASSUME NEW s \in Session, TransportFault(s) \/ ReleaseHandle(s) PROVE CallsKept
    <2>1. PICK e, e2 : tx' = Drained(s, e, e2)
      BY <1>7 DEF TransportFault, ReleaseHandle
    <2> QED
      BY <2>1, DrainKeeps DEF CallsKept
  <1>8. ASSUME NEW s \in Session, SerialDisposeReturns(s) PROVE CallsKept
    BY <1>0, <1>8 DEF SerialDisposeReturns, CallsKept, CmdShape
  <1> QED
    BY <1>1, <1>2, <1>3, <1>4, <1>5, <1>6, <1>7, <1>8 DEF CallStep, PortStep

LEMMA PollKeepsCalls ==
  ASSUME CmdShape, NEW s \in Session
  PROVE  PollStep(s) \/ DisconnectStep(s) \/ ConnectStep(s) => CallsKept
  <1> USE Callers
  <1>0. \A t \in Caller : "phase" \in DOMAIN tx[t]
    BY DEF CmdShape
  <1>a. \A o, p, q : "phase" \in DOMAIN BeginTx(s, o, p, q)
    BY DEF BeginTx
  <1>b. "phase" \in DOMAIN Idle
    BY DEF Idle
  <1>1. ASSUME tx' = tx PROVE CallsKept
    BY <1>0, <1>1 DEF CallsKept, CmdShape
  <1>2. ASSUME NEW v, tx' = [tx EXCEPT ![s] = v], "phase" \in DOMAIN v PROVE CallsKept
    BY <1>2, OneCallKept
  <1>3. PollTop(s) => CallsKept
    BY <1>1, <1>2, <1>a DEF PollTop
  <1>4. PollJoint(s) => CallsKept
    BY <1>2, <1>a, <1>b DEF PollJoint
  <1>5. PollStatus(s) => CallsKept
    BY <1>2, <1>b DEF PollStatus
  <1>6. MarkStatusCycleValid(s) \/ MarkFeedbackStale(s) \/ HandlePollingFault(s) \/ PollEnds(s)
          => CallsKept
    BY <1>1 DEF MarkStatusCycleValid, MarkFeedbackStale, HandlePollingFault, PollEnds, portVars
  <1>7. PollCloses(s) \/ DisconnectCloses(s) => CallsKept
    BY DisposeKeeps DEF PollCloses, DisconnectCloses
  <1>8. DisconnectAwaits(s) \/ CollectRunners(s) \/ DisconnectResets(s) \/ DisconnectReturnsTo(s)
          => CallsKept
    BY <1>1 DEF DisconnectAwaits, CollectRunners, DisconnectResets, DisconnectReturnsTo, portVars
  <1>9. ConnectStep(s) => CallsKept
    BY <1>1 DEF ConnectStep, ConnectListed, OpenSucceeds, OpenFails
  <1> QED
    BY <1>3, <1>4, <1>5, <1>6, <1>7, <1>8, <1>9 DEF PollStep, DisconnectStep

-----------------------------------------------------------------------------
(* One command at a time                                                   *)

\* The audit starts empty and no command runs.
LEMMA InitCmd == GatewayInit => CmdInv
  <1> SUFFICES ASSUME GatewayInit PROVE CmdInv
    OBVIOUS
  <1>1. /\ history = << >> /\ exclusive = None /\ unknown = {}
        /\ cmd = [c \in Command |-> NewCommand] /\ tx = [t \in Caller |-> Idle]
    BY DEF GatewayInit
  <1>2. /\ \A c \in Command : cmd[c] = NewCommand
        /\ \A t \in Caller : tx[t] = Idle
    BY <1>1
  <1>3. Entries = {}
    BY <1>1 DEF Entries, Range
  <1>4. CmdShape
    BY <1>1, <1>2 DEF CmdShape, NewCommand, Idle
  <1>5. \A c \in Command : exclusive # c
    BY <1>1, GatewayAssumption
  <1> QED
    BY <1>1, <1>2, <1>3, <1>4, <1>5, Callers
    DEF CmdInv, HolderBegun, AdmittedHolds, UnknownLatches, ValidatedSafely, LineWhileRunning,
        Admitted, Idle

\* A step that leaves the commands alone and keeps their calls.
LEMMA FrameKeepsCmd ==
  ASSUME CmdInv, CallsKept, UNCHANGED cmdVars
  PROVE  CmdInv'
  <1>1. CmdShape' /\ LineWhileRunning'
    BY DEF CmdInv, CmdShape, CallsKept, cmdVars, LineWhileRunning
  <1>2. /\ Entries' = Entries
        /\ \A c \in Command : Admitted(c)' <=> Admitted(c)
    BY DEF cmdVars, Admitted, Entries, Running
  <1> QED
    BY <1>1, <1>2
    DEF CmdInv, cmdVars, HolderBegun, AdmittedHolds, UnknownLatches, ValidatedSafely

\* Clearing the evidence of a session leaves no entry and no unknown outcome.
LEMMA ResetKeepsCmd ==
  ASSUME CmdInv, CallsKept, ResetSessionEvidence, UNCHANGED cmd
  PROVE  CmdInv'
  <1>1. CmdShape' /\ LineWhileRunning'
    BY DEF CmdInv, CmdShape, CallsKept, ResetSessionEvidence, LineWhileRunning
  <1>2. Entries' = {} /\ unknown' = {} /\ \A c \in Command : exclusive' # c
    BY GatewayAssumption DEF ResetSessionEvidence, Entries, Range
  <1>3. \A c \in Command : ~Admitted(c)'
    BY <1>2 DEF Admitted
  <1> QED
    BY <1>1, <1>2, <1>3
    DEF CmdInv, HolderBegun, AdmittedHolds, UnknownLatches, ValidatedSafely

LEMMA DisconnectBeginsKeepsCmd ==
  ASSUME CmdInv, NEW kind, DisconnectBegins(kind)
  PROVE  CmdInv'
  <1>1. /\ UNCHANGED <<tx, history, exclusive, latched, unknown>>
        /\ cmd' = [c \in Command |-> IF c \in Entries /\ Running(c)
                                     THEN [cmd[c] EXCEPT !.calledOff = TRUE] ELSE cmd[c]]
    BY DEF DisconnectBegins, portVars
  <1>2. ASSUME NEW c \in Command
        PROVE  /\ {"pc", "calledOff", "result"} \subseteq DOMAIN cmd'[c]
               /\ cmd'[c].pc = cmd[c].pc /\ cmd'[c].result = cmd[c].result
               /\ cmd[c].calledOff => cmd'[c].calledOff
    BY <1>1 DEF CmdInv, CmdShape
  <1>3. DOMAIN cmd' = Command /\ Entries' = Entries
    BY <1>1 DEF Entries
  <1>4. \A c \in Command : Admitted(c)' => Admitted(c)
    BY <1>2, <1>3 DEF Admitted, Running
  <1>5. CmdShape'
    BY <1>1, <1>2, <1>3 DEF CmdInv, CmdShape
  <1>6. unknown \subseteq Command
    BY DEF CmdInv, CmdShape
  <1>7. HolderBegun' /\ AdmittedHolds' /\ LineWhileRunning'
    BY <1>1, <1>2, <1>4 DEF CmdInv, HolderBegun, AdmittedHolds, LineWhileRunning
  <1>8. UnknownLatches'
    BY <1>1, <1>2, <1>6 DEF CmdInv, UnknownLatches
  <1>9. ValidatedSafely'
    BY <1>1, <1>2, <1>4, <1>6 DEF CmdInv, ValidatedSafely
  <1> QED
    BY <1>5, <1>7, <1>8, <1>9 DEF CmdInv

\* Appending an entry and trimming adds that entry at most.
LEMMA AppendDrops ==
  ASSUME NEW h \in Seq(Command), NEW c \in Command, NEW free
  PROVE  /\ TrimHistory(Append(h, c), free) \in Seq(Command)
         /\ Range(TrimHistory(Append(h, c), free)) \subseteq Range(h) \union {c}
  <1>1. Append(h, c) \in Seq(Command)
    OBVIOUS
  <1>2. Range(Append(h, c)) \subseteq Range(h) \union {c}
    BY DEF Range
  <1> QED
    BY <1>1, <1>2, TrimDrops

\* A command is admitted or refused, and a STOP calls off the one it displaces.
LEMMA ExecuteKeepsCmd ==
  ASSUME CmdInv, NEW c \in Command, ExecuteCommand(c)
  PROVE  CmdInv'
  <1> DEFINE Done(cm) == cm = [cmd EXCEPT ![c].pc = "done", ![c].result = "Rejected"]
             Taken(cm, sid) ==
               cm = [d \in Command |->
                       CASE d = c -> [cmd[c] EXCEPT !.pc = "accepted", !.sid = sid]
                         [] d \in CallsOff(c) -> [cmd[d] EXCEPT !.calledOff = TRUE]
                         [] OTHER -> cmd[d]]
  <1>1. /\ cmd[c].pc = "idle" /\ UNCHANGED <<tx, latched, unknown>>
        /\ \E free : history' = TrimHistory(Append(history, c), free)
        /\ \/ Done(cmd') /\ UNCHANGED exclusive
           \/ (\E sid : Taken(cmd', sid)) /\ exclusive' = c
    BY Zenon DEF ExecuteCommand, portVars
  <1>2. CmdShape /\ exclusive # c /\ history \in Seq(Command)
    BY <1>1 DEF CmdInv, CmdShape, HolderBegun
  <1>3. c \notin CallsOff(c) /\ \A d \in Command \ {c} : d \in CallsOff(c) <=> d = exclusive
    BY <1>2, GatewayAssumption DEF CallsOff
  <1>4. /\ history' \in Seq(Command) /\ Entries' \subseteq Entries \union {c}
    <2>1. PICK free : history' = TrimHistory(Append(history, c), free)
      BY <1>1
    <2> HIDE DEF Done, Taken
    <2> QED
      BY <1>2, <2>1, AppendDrops DEF Entries
  <1>5. /\ cmd'[c].pc \in {"accepted", "done"}
        /\ {"pc", "calledOff", "result"} \subseteq DOMAIN cmd'[c]
        /\ cmd'[c].calledOff = cmd[c].calledOff
        /\ exclusive' = c \/ (cmd'[c].pc = "done" /\ exclusive' = exclusive)
    <2>1. CASE Done(cmd') /\ UNCHANGED exclusive
      BY <1>2, <2>1 DEF CmdShape
    <2>2. CASE (\E sid : Taken(cmd', sid)) /\ exclusive' = c
      <3>1. PICK sid : cmd'[c] = [cmd[c] EXCEPT !.pc = "accepted", !.sid = sid]
        <4>1. PICK sid : Taken(cmd', sid)
          BY <2>2
        <4>2. cmd'[c] = [cmd[c] EXCEPT !.pc = "accepted", !.sid = sid]
          BY <1>3, <4>1
        <4> QED
          BY <4>2
      <3> QED
        BY <1>2, <2>2, <3>1 DEF CmdShape
    <2> QED
      BY <1>1, <2>1, <2>2
  <1>6. ASSUME NEW d \in Command \ {c}
        PROVE  /\ {"pc", "calledOff", "result"} \subseteq DOMAIN cmd'[d]
               /\ cmd'[d].pc = cmd[d].pc /\ cmd'[d].result = cmd[d].result
               /\ cmd[d].calledOff => cmd'[d].calledOff
               /\ d = exclusive /\ exclusive' # exclusive => cmd'[d].calledOff
    BY <1>1, <1>2, <1>3 DEF CmdShape
  <1>7. DOMAIN cmd' = Command
    BY <1>1, <1>2 DEF CmdShape
  <1>8. CmdShape'
    BY <1>1, <1>2, <1>4, <1>5, <1>6, <1>7 DEF CmdShape
  <1>9. HolderBegun' /\ LineWhileRunning'
    BY <1>1, <1>2, <1>5, <1>6 DEF CmdInv, HolderBegun, LineWhileRunning
  <1>10. \A d \in Command \ {c} : Admitted(d)' => Admitted(d)
    BY <1>4, <1>6 DEF Admitted, Running
  <1>11. AdmittedHolds'
    <2>1. \A d \in Command \ {c} : Admitted(d)' => exclusive' = d
      BY <1>5, <1>6, <1>10 DEF CmdInv, AdmittedHolds, Admitted
    <2>2. Admitted(c)' => exclusive' = c
      BY <1>5 DEF Admitted, Running
    <2> QED
      BY <2>1, <2>2 DEF AdmittedHolds
  <1>12. UnknownLatches'
    <2>1. ASSUME NEW d \in unknown, ~cmd'[d].calledOff
          PROVE  latched \/ (cmd'[d].pc = "decided" /\ cmd'[d].result \in UnknownStatus
                              /\ exclusive' = d)
      <3>1. d \in Command /\ ~cmd[d].calledOff
        BY <1>2, <1>5, <1>6, <2>1 DEF CmdShape
      <3>2. latched \/ (cmd[d].pc = "decided" /\ cmd[d].result \in UnknownStatus /\ exclusive = d)
        BY <2>1, <3>1 DEF CmdInv, UnknownLatches
      <3> QED
        BY <1>1, <1>5, <1>6, <2>1, <3>1, <3>2
    <2> QED
      BY <1>1, <2>1 DEF UnknownLatches
  <1>13. ValidatedSafely'
    <2>1. ~(cmd'[c].pc \in {"checked", "run"})
      BY <1>5
    <2>2. \A d \in unknown : cmd[d].calledOff => cmd'[d].calledOff
      BY <1>2, <1>5, <1>6 DEF CmdShape
    <2> QED
      BY <1>1, <1>6, <1>10, <2>1, <2>2 DEF CmdInv, ValidatedSafely
  <1> QED
    BY <1>8, <1>9, <1>11, <1>12, <1>13 DEF CmdInv

\* A withdrawn STOP has called off the command it would have displaced.
LEMMA WithdrawnKeepsCmd ==
  ASSUME CmdInv, NEW c \in Command, StopWithdrawn(c)
  PROVE  CmdInv'
  <1>1. /\ cmd[c].pc = "idle" /\ UNCHANGED <<tx, history, exclusive, latched, unknown>>
        /\ exclusive \in Command /\ exclusive # c /\ CmdShape
        /\ cmd' = [cmd EXCEPT ![exclusive] = [cmd[exclusive] EXCEPT !.calledOff = TRUE],
                              ![c] = [cmd[c] EXCEPT !.pc = "done"]]
    BY DEF StopWithdrawn, portVars, CmdInv, CmdShape, HolderBegun
  <1>2. /\ cmd'[c].pc = "done" /\ cmd'[c].calledOff = cmd[c].calledOff
        /\ {"pc", "calledOff", "result"} \subseteq DOMAIN cmd'[c]
    BY <1>1 DEF CmdShape
  <1>3. ASSUME NEW d \in Command \ {c}
        PROVE  /\ {"pc", "calledOff", "result"} \subseteq DOMAIN cmd'[d]
               /\ cmd'[d].pc = cmd[d].pc /\ cmd'[d].result = cmd[d].result
               /\ cmd[d].calledOff => cmd'[d].calledOff
    BY <1>1 DEF CmdShape
  <1>4. DOMAIN cmd' = Command /\ Entries' = Entries /\ unknown \subseteq Command
    BY <1>1 DEF CmdShape, Entries
  <1>5. CmdShape'
    BY <1>1, <1>2, <1>3, <1>4 DEF CmdShape
  <1>6. ~Admitted(c)' /\ \A d \in Command \ {c} : Admitted(d)' => Admitted(d)
    BY <1>2, <1>3, <1>4 DEF Admitted, Running
  <1>7. HolderBegun' /\ LineWhileRunning' /\ AdmittedHolds'
    <2>1. HolderBegun'
      BY <1>1, <1>2, <1>3 DEF CmdInv, HolderBegun
    <2>2. LineWhileRunning'
      BY <1>1, <1>2, <1>3 DEF CmdInv, LineWhileRunning
    <2>3. AdmittedHolds'
      BY <1>1, <1>2, <1>3, <1>6 DEF CmdInv, AdmittedHolds
    <2> QED
      BY <2>1, <2>2, <2>3
  <1>8. \A d \in unknown : cmd[d].calledOff => cmd'[d].calledOff
    BY <1>2, <1>3, <1>4
  <1>9. UnknownLatches'
    BY <1>1, <1>2, <1>3, <1>4, <1>8 DEF CmdInv, UnknownLatches
  <1>10. ValidatedSafely'
    BY <1>1, <1>3, <1>6, <1>8 DEF CmdInv, ValidatedSafely
  <1> QED
    BY <1>5, <1>7, <1>9, <1>10 DEF CmdInv

\* The calls of the other commands do not begin; the call of c is under way only
\* if c is running its program.
CallsKeptBut(c, pc) ==
    /\ DOMAIN tx' = Caller /\ \A t \in Caller : "phase" \in DOMAIN tx'[t]
    /\ \A d \in Command \ {c} : tx'[d].phase # "off" => tx[d].phase # "off"
    /\ tx'[c].phase # "off" => pc = "run"

\* A step of one running command.
LEMMA StepKeepsCmd ==
  ASSUME CmdInv, NEW c \in Command, NEW v,
         Running(c), cmd[c].pc # "decided", UNCHANGED <<history, exclusive, latched>>,
         cmd' = [cmd EXCEPT ![c] = v],
         {"pc", "calledOff", "result"} \subseteq DOMAIN v, v.calledOff = cmd[c].calledOff,
         v.pc \in {"read", "checked", "run", "decided"}, CallsKeptBut(c, v.pc),
         \/ /\ unknown' = unknown
            /\ v.pc \in {"checked", "run"} =>
                  cmd[c].pc \in {"checked", "run"} \/ IsStop(c) \/ ~latched
         \/ /\ v.pc = "decided"
            /\ unknown' = IF v.result \in UnknownStatus /\ ~cmd[c].calledOff /\ c \in Entries
                          THEN unknown \union {c} ELSE unknown
  PROVE  CmdInv'
  <1>1. /\ DOMAIN cmd' = Command /\ cmd'[c] = v
        /\ \A d \in Command \ {c} : cmd'[d] = cmd[d]
    BY DEF CmdInv, CmdShape
  <1>2. Entries' = Entries /\ unknown \subseteq unknown' /\ unknown' \subseteq unknown \union {c}
    BY DEF Entries
  <1>3. \A d \in Command : Admitted(d)' => Admitted(d)
    BY <1>1, <1>2 DEF Admitted, Running
  <1>4. CmdShape'
    BY <1>1, <1>2 DEF CmdInv, CmdShape, CallsKeptBut
  <1>5. HolderBegun' /\ AdmittedHolds'
    BY <1>1, <1>3 DEF CmdInv, HolderBegun, AdmittedHolds
  <1>6. LineWhileRunning'
    BY <1>1 DEF CmdInv, LineWhileRunning, CallsKeptBut
  <1>7. \A d \in Command : cmd'[d].calledOff = cmd[d].calledOff
    BY <1>1
  <1>8. \A d \in unknown : ~cmd[d].calledOff => latched \/ (d # c /\ exclusive = d)
    BY DEF CmdInv, UnknownLatches
  <1>9. c \in unknown' \ unknown =>
          v.pc = "decided" /\ v.result \in UnknownStatus /\ ~cmd[c].calledOff /\ c \in Entries
    OBVIOUS
  <1>10. UnknownLatches'
    <2>1. ASSUME NEW d \in unknown', ~cmd'[d].calledOff
          PROVE  latched \/ (cmd'[d].pc = "decided" /\ cmd'[d].result \in UnknownStatus
                              /\ exclusive = d)
      <3>1. CASE d \in unknown
        BY <1>1, <1>7, <1>8, <2>1, <3>1 DEF CmdInv, CmdShape, UnknownLatches
      <3>2. CASE d \notin unknown
        <4>1. d = c /\ Admitted(c)
          BY <1>2, <1>9, <2>1, <3>2 DEF Admitted
        <4> QED
          BY <1>1, <1>2, <1>9, <3>2, <4>1 DEF CmdInv, AdmittedHolds
      <3> QED
        BY <3>1, <3>2
    <2> QED
      BY <2>1 DEF UnknownLatches
  <1>11. ValidatedSafely'
    <2>1. ASSUME NEW d \in Command, Admitted(d)', ~IsStop(d), cmd'[d].pc \in {"checked", "run"},
                 NEW u \in unknown'
          PROVE  cmd'[u].calledOff
      <3>1. exclusive = d /\ Admitted(d) /\ u \in Command
        BY <1>3, <1>4, <2>1 DEF CmdInv, CmdShape, AdmittedHolds
      <3>2. CASE u \notin unknown
        <4>1. u = c /\ Admitted(c) /\ v.pc = "decided"
          BY <1>2, <1>9, <2>1, <3>2 DEF Admitted
        <4>2. d = c
          BY <3>1, <4>1 DEF CmdInv, AdmittedHolds
        <4> QED
          BY <1>1, <2>1, <4>1, <4>2
      <3>3. CASE u \in unknown /\ cmd[d].pc \in {"checked", "run"}
        BY <1>7, <2>1, <3>1, <3>3 DEF CmdInv, ValidatedSafely
      <3>4. CASE u \in unknown /\ ~(cmd[d].pc \in {"checked", "run"})
        <4>1. d = c /\ ~latched
          BY <1>1, <1>2, <2>1, <3>4
        <4>2. cmd[u].calledOff
          BY <1>8, <3>1, <3>4, <4>1
        <4> QED
          BY <1>7, <3>1, <4>2
      <3> QED
        BY <3>2, <3>3, <3>4
    <2> QED
      BY <2>1 DEF ValidatedSafely
  <1> QED
    BY <1>4, <1>5, <1>6, <1>10, <1>11 DEF CmdInv

\* The outcome of a running command becomes known.
LEMMA DecideKeepsCmd ==
  ASSUME CmdInv, NEW c \in Command, NEW status, Decide(c, status) \/ DecideReturned(c, status),
         Running(c), cmd[c].pc # "decided", UNCHANGED <<history, exclusive, latched>>,
         CallsKeptBut(c, "decided")
  PROVE  CmdInv'
  <1>1. PICK st : Decide(c, st)
    BY DEF DecideReturned
  <1> DEFINE v == [NewCommand EXCEPT !.pc = "decided", !.result = st,
                                     !.calledOff = cmd[c].calledOff]
  <1>2. /\ v.pc = "decided" /\ v.result = st /\ v.calledOff = cmd[c].calledOff
        /\ {"pc", "calledOff", "result"} \subseteq DOMAIN v
    BY DEF NewCommand
  <1>3. /\ cmd' = [cmd EXCEPT ![c] = v]
        /\ unknown' = IF st \in UnknownStatus /\ ~cmd[c].calledOff /\ c \in Entries
                      THEN unknown \union {c} ELSE unknown
    BY <1>1 DEF Decide
  <1> HIDE DEF v
  <1> QED
    BY <1>2, <1>3, StepKeepsCmd

\* The next line of a program goes to the serial session.
LEMMA BeginKeepsCmd ==
  ASSUME CmdInv, NEW c \in Command, NEW k, BeginStep(c, k),
         cmd[c].pc \in {"checked", "run"}, UNCHANGED <<history, exclusive, latched>>
  PROVE  CmdInv'
  <1> DEFINE v == [cmd[c] EXCEPT !.pc = "run", !.step = k]
             w == BeginTx(c, cmd[c].transport, Program(KindOf[c])[k], cmd[c].calledOff)
  <1>1. CmdShape /\ {"pc", "calledOff", "result"} \subseteq DOMAIN cmd[c]
    BY DEF CmdInv, CmdShape
  <1>2. /\ v.pc = "run" /\ v.calledOff = cmd[c].calledOff
        /\ {"pc", "calledOff", "result"} \subseteq DOMAIN v
    BY <1>1
  <1>3. cmd' = [cmd EXCEPT ![c] = v] /\ tx' = [tx EXCEPT ![c] = w] /\ unknown' = unknown
    BY <1>1 DEF BeginStep, CmdShape
  <1>4. "phase" \in DOMAIN w
    BY DEF BeginTx
  <1> HIDE DEF v, w
  <1>5. CallsKeptBut(c, v.pc)
    BY <1>1, <1>2, <1>3, <1>4, Callers DEF CallsKeptBut, CmdShape
  <1>6. Running(c) /\ cmd[c].pc # "decided"
    BY DEF Running
  <1> QED
    BY <1>2, <1>3, <1>5, <1>6, StepKeepsCmd

\* Every step a runner takes by itself, and the joint deadline.
LEMMA RunnerKeepsCmd ==
  ASSUME CmdInv, NEW c \in Command, CommandStep(c) \/ JointGroupDeadline(c)
  PROVE  CmdInv'
  <1>0. CmdShape /\ LineWhileRunning /\ {"pc", "calledOff", "result"} \subseteq DOMAIN cmd[c]
    BY DEF CmdInv, CmdShape
  <1>a. ASSUME UNCHANGED tx, cmd[c].pc # "run", NEW pc PROVE CallsKeptBut(c, pc)
    BY <1>0, <1>a, Callers DEF CmdShape, LineWhileRunning, CallsKeptBut
  <1>b. ASSUME tx' = [tx EXCEPT ![c] = Idle], NEW pc PROVE CallsKeptBut(c, pc)
    BY <1>0, <1>b, Callers DEF CmdShape, CallsKeptBut, Idle
  <1>1. CASE ReadSession(c)
    <2>0. /\ cmd[c].pc = "accepted" /\ UNCHANGED <<tx, history, exclusive, latched>>
          /\ Running(c)
      BY <1>1 DEF ReadSession, portVars, Running
    <2>1. CASE DecideReturned(c, "Unsupported")
      BY <1>a, <2>0, <2>1, DecideKeepsCmd
    <2>2. CASE cmd' = [cmd EXCEPT ![c].pc = "read", ![c].snap = session] /\ UNCHANGED unknown
      <3> DEFINE v == [cmd[c] EXCEPT !.pc = "read", !.snap = session]
      <3>1. /\ v.pc = "read" /\ v.calledOff = cmd[c].calledOff
            /\ {"pc", "calledOff", "result"} \subseteq DOMAIN v
        BY <1>0
      <3>2. cmd' = [cmd EXCEPT ![c] = v]
        BY <1>0, <2>2 DEF CmdShape
      <3> HIDE DEF v
      <3>3. CallsKeptBut(c, v.pc)
        BY <1>a, <2>0
      <3> QED
        BY <2>0, <2>2, <3>1, <3>2, <3>3, StepKeepsCmd
    <2> QED
      BY <1>1, <2>1, <2>2 DEF ReadSession
  <1>2. CASE CheckCommand(c)
    <2>0. /\ cmd[c].pc = "read" /\ UNCHANGED <<tx, history, exclusive, latched>>
          /\ Running(c)
      BY <1>2 DEF CheckCommand, portVars, Running
    <2>1. CASE DecideReturned(c, "Rejected")
      BY <1>a, <2>0, <2>1, DecideKeepsCmd
    <2>2. CASE /\ Validated(c) /\ UNCHANGED unknown
               /\ cmd' = [cmd EXCEPT ![c] = [@ EXCEPT !.pc = "checked", !.transport = active,
                                                      !.snap = OfflineSession]]
      <3> DEFINE v == [cmd[c] EXCEPT !.pc = "checked", !.transport = active,
                                     !.snap = OfflineSession]
      <3>1. /\ v.pc = "checked" /\ v.calledOff = cmd[c].calledOff
            /\ {"pc", "calledOff", "result"} \subseteq DOMAIN v
        BY <1>0
      <3>2. cmd' = [cmd EXCEPT ![c] = v]
        BY <1>0, <2>2 DEF CmdShape
      <3> HIDE DEF v
      <3>3. CallsKeptBut(c, v.pc)
        BY <1>a, <2>0
      <3>4. IsStop(c) \/ ~latched
        BY <2>2 DEF Validated
      <3> QED
        BY <2>0, <2>2, <3>1, <3>2, <3>3, <3>4, StepKeepsCmd
    <2> QED
      BY <1>2, <2>1, <2>2 DEF CheckCommand
  <1>3. CASE StartCommand(c)
    <2>0. /\ cmd[c].pc = "checked" /\ UNCHANGED <<history, exclusive, latched>>
          /\ Running(c)
      BY <1>3 DEF StartCommand, Running
    <2>1. CASE BeginStep(c, 1)
      BY <2>0, <2>1, BeginKeepsCmd
    <2>2. CASE (\E status : DecideReturned(c, status)) /\ UNCHANGED tx
      BY <1>a, <2>0, <2>2, DecideKeepsCmd
    <2> QED
      BY <1>3, <2>1, <2>2 DEF StartCommand
  <1>4. CASE CommandSteps(c)
    <2>0. /\ cmd[c].pc = "run" /\ UNCHANGED <<history, exclusive, latched>>
          /\ Running(c)
      BY <1>4 DEF CommandSteps, Running
    <2>1. CASE \E k : BeginStep(c, k)
      BY <2>0, <2>1, BeginKeepsCmd
    <2>2. CASE /\ tx' = [tx EXCEPT ![c] = Idle]
               /\ \E status : Decide(c, status) \/ DecideReturned(c, status)
      BY <1>b, <2>0, <2>2, DecideKeepsCmd
    <2> QED
      BY <1>4, <2>1, <2>2 DEF CommandSteps
  <1>5. CASE JointGroupDeadline(c)
    <2>0. /\ cmd[c].pc = "run" /\ UNCHANGED <<history, exclusive, latched>>
          /\ Running(c) /\ tx' = [tx EXCEPT ![c] = Idle] /\ DecideReturned(c, "TimedOut")
      BY <1>5 DEF JointGroupDeadline, Running
    <2> QED
      BY <1>b, <2>0, DecideKeepsCmd
  <1>6. CASE PublishResult(c) \/ ReleaseExclusive(c)
    <2>0. /\ cmd[c].pc \in {"decided", "published"} /\ UNCHANGED tx
          /\ \E pc \in {"published", "done"} : cmd' = [cmd EXCEPT ![c].pc = pc]
      BY <1>6 DEF PublishResult, ReleaseExclusive, portVars
    <2>1. /\ cmd'[c].pc \in {"published", "done"}
          /\ {"pc", "calledOff", "result"} \subseteq DOMAIN cmd'[c]
          /\ cmd'[c].calledOff = cmd[c].calledOff
          /\ DOMAIN cmd' = Command
          /\ \A d \in Command \ {c} : cmd'[d] = cmd[d]
      BY <1>0, <2>0 DEF CmdShape
    <2>2. history' \in Seq(Command) /\ Entries' \subseteq Entries
      BY <1>0, <1>6, TrimDrops DEF PublishResult, ReleaseExclusive, Entries, CmdShape
    <2>3. /\ exclusive' = exclusive \/ (exclusive = c /\ exclusive' = None)
          /\ unknown' \subseteq unknown
      BY <1>6 DEF PublishResult, ReleaseExclusive, Interlocked
    <2>4. ~Admitted(c)' /\ \A d \in Command \ {c} : Admitted(d)' => Admitted(d)
      BY <2>1, <2>2 DEF Admitted, Running
    <2>5. CmdShape'
      BY <1>0, <2>0, <2>1, <2>2, <2>3 DEF CmdShape
    <2>6. HolderBegun' /\ AdmittedHolds' /\ LineWhileRunning'
      BY <2>0, <2>1, <2>3, <2>4, GatewayAssumption
      DEF CmdInv, HolderBegun, AdmittedHolds, LineWhileRunning
    <2>7. UnknownLatches'
      <3>1. ASSUME NEW d \in unknown', ~cmd'[d].calledOff
            PROVE  latched' \/ (cmd'[d].pc = "decided" /\ cmd'[d].result \in UnknownStatus
                                /\ exclusive' = d)
        <4>1. /\ d \in Command /\ d \in unknown /\ ~cmd[d].calledOff
          BY <1>0, <2>1, <2>3, <3>1 DEF CmdShape
        <4>2. latched \/ (cmd[d].pc = "decided" /\ cmd[d].result \in UnknownStatus
                           /\ exclusive = d)
          BY <4>1 DEF CmdInv, UnknownLatches
        <4>3. latched => latched'
          BY <1>6, <3>1 DEF PublishResult, ReleaseExclusive, Interlocked
        <4>4. ASSUME d = c, cmd[c].pc = "decided", cmd[c].result \in UnknownStatus
              PROVE  latched'
          BY <1>6, <3>1, <4>4 DEF PublishResult, ReleaseExclusive, Interlocked
        <4> QED
          BY <2>1, <2>3, <4>1, <4>2, <4>3, <4>4
      <3> QED
        BY <3>1 DEF UnknownLatches
    <2>8. ValidatedSafely'
      <3>1. \A u \in unknown' : u \in unknown /\ cmd'[u].calledOff = cmd[u].calledOff
        BY <1>0, <2>1, <2>3 DEF CmdShape
      <3> QED
        BY <2>1, <2>4, <3>1 DEF CmdInv, ValidatedSafely
    <2> QED
      BY <2>5, <2>6, <2>7, <2>8 DEF CmdInv
  <1> QED
    BY <1>1, <1>2, <1>3, <1>4, <1>5, <1>6 DEF CommandStep

LEMMA NextKeepsCmd ==
  ASSUME CmdInv, [GatewayNext]_vars
  PROVE  CmdInv'
  <1>0. CmdShape
    BY DEF CmdInv
  <1>a. ASSUME UNCHANGED tx PROVE CallsKept
    BY <1>0, <1>a DEF CmdShape, CallsKept
  <1>1. CASE Environment
    <2>1. CASE ConnectBegins \/ Dispose
      BY <1>a, <2>1, FrameKeepsCmd DEF ConnectBegins, Dispose, portVars
    <2>2. ASSUME NEW kind \in Releases, DisconnectIdle(kind) PROVE CmdInv'
      BY <1>a, <2>2, ResetKeepsCmd DEF DisconnectIdle, portVars
    <2>3. ASSUME NEW kind \in Releases, DisconnectBegins(kind) PROVE CmdInv'
      BY <2>3, DisconnectBeginsKeepsCmd
    <2>4. ASSUME NEW c \in Command,
                 ExecuteCommand(c) \/ StopWithdrawn(c) \/ JointGroupDeadline(c)
          PROVE  CmdInv'
      BY <2>4, ExecuteKeepsCmd, WithdrawnKeepsCmd, RunnerKeepsCmd
    <2>5. ASSUME NEW s \in Session, ExpireWrite(s) \/ TransportFault(s) PROVE CmdInv'
      BY <1>0, <2>5, PortKeepsCalls, FrameKeepsCmd DEF ExpireWrite, TransportFault
    <2> QED
      BY <1>1, <2>1, <2>2, <2>3, <2>4, <2>5 DEF Environment
  <1>2. ASSUME NEW t \in Caller, CallStep(t) PROVE CmdInv'
    <2>1. UNCHANGED cmdVars
      BY <1>2 DEF CallStep, AcquireResponseLease, QueueWrite
    <2> QED
      BY <1>0, <1>2, <2>1, PortKeepsCalls, FrameKeepsCmd
  <1>3. ASSUME NEW s \in Session,
               PollStep(s) \/ PortStep(s) \/ DisconnectStep(s) \/ ConnectStep(s)
        PROVE  CmdInv'
    <2>1. CallsKept
      BY <1>0, <1>3, PortKeepsCalls, PollKeepsCalls
    <2>2. UNCHANGED cmdVars \/ (ResetSessionEvidence /\ UNCHANGED cmd)
      <3>1. PollStep(s) => UNCHANGED cmdVars
        BY DEF PollStep, PollTop, PollJoint, PollStatus, MarkStatusCycleValid,
               MarkFeedbackStale, HandlePollingFault, PollCloses, PollEnds
      <3>2. PortStep(s) => UNCHANGED cmdVars
        BY DEF PortStep, Write, ReceiveRecord, ApplyObservedResponse, ReleaseHandle,
               SerialDisposeReturns
      <3>3. DisconnectStep(s) => UNCHANGED cmdVars \/ (ResetSessionEvidence /\ UNCHANGED cmd)
        BY DEF DisconnectStep, DisconnectCloses, DisconnectAwaits, CollectRunners,
               DisconnectResets, DisconnectReturnsTo
      <3>4. ConnectStep(s) => UNCHANGED cmdVars \/ (ResetSessionEvidence /\ UNCHANGED cmd)
        BY DEF ConnectStep, ConnectListed, OpenSucceeds, OpenFails, cmdVars
      <3> QED
        BY <1>3, <3>1, <3>2, <3>3, <3>4
    <2> QED
      BY <2>1, <2>2, FrameKeepsCmd, ResetKeepsCmd
  <1>4. ASSUME NEW c \in Command, CommandStep(c) PROVE CmdInv'
    BY <1>4, RunnerKeepsCmd
  <1>5. CASE UNCHANGED vars
    BY <1>a, <1>5, FrameKeepsCmd DEF vars, portVars
  <1> QED
    BY <1>1, <1>2, <1>3, <1>4, <1>5 DEF GatewayNext

\* The invariant of the commands, from which the two theorems below follow.
LEMMA CmdInvariant == GatewaySpec => []CmdInv
  BY InitCmd, NextKeepsCmd, PTL DEF GatewaySpec

\* Single-command arbitration (ExecuteCommandAsync, commandStateLock): of the
\* commands in the audit at most one runs without having been called off.
THEOREM OneCommandAtATime == GatewaySpec => []OneCommand
  <1>1. CmdInv => OneCommand
    <2> SUFFICES ASSUME CmdInv, NEW c \in Entries, NEW d \in Entries,
                        Running(c), ~cmd[c].calledOff, Running(d), ~cmd[d].calledOff
                 PROVE  c = d
      BY DEF OneCommand
    <2>1. c \in Command /\ d \in Command
      BY DEF CmdInv, CmdShape, Entries, Range
    <2> QED
      BY <2>1 DEF CmdInv, AdmittedHolds, Admitted
  <1> QED
    BY <1>1, CmdInvariant, PTL

\* The safety interlock (UpdateCommandInterlock, commandInterlockLatched): after an
\* unknown physical result no other ordinary command puts a line into the write
\* queue until a STOP has been confirmed.
THEOREM InterlockAlwaysHolds == GatewaySpec => InterlockHolds
  <1>1. CmdInv => [\A c \in Command :
                     QueuesLine(c) /\ ~IsStop(c) /\ ~cmd[c].calledOff /\ c \in Entries
                        => \A d \in unknown : cmd[d].calledOff]_vars
    <2> SUFFICES ASSUME CmdInv, NEW c \in Command, QueuesLine(c), ~IsStop(c),
                        ~cmd[c].calledOff, c \in Entries
                 PROVE  \A d \in unknown : cmd[d].calledOff
      OBVIOUS
    <2>1. cmd[c].pc = "run"
      BY DEF CmdInv, LineWhileRunning, QueuesLine
    <2>2. Admitted(c)
      BY <2>1 DEF Admitted, Running
    <2> QED
      BY <2>1, <2>2 DEF CmdInv, ValidatedSafely
  <1> QED
    BY <1>1, CmdInvariant, PTL DEF InterlockHolds

-----------------------------------------------------------------------------
(* One owner for each transport                                            *)

ownVars == <<active, gate, disc, line, poll>>

LEMMA InitOwn == GatewayInit => OwnInv
  <1> SUFFICES ASSUME GatewayInit PROVE OwnInv
    OBVIOUS
  <1>1. /\ active = None /\ gate = "free" /\ disc = [s \in Session |-> "none"]
        /\ line = [s \in Session |-> "none"] /\ poll = [s \in Session |-> NewPoll]
    BY DEF GatewayInit
  <1>2. \A s \in Session : disc[s] = "none" /\ line[s] = "none" /\ poll[s] = NewPoll
    BY <1>1
  <1>3. NewPoll.pc = "none" /\ "pc" \in DOMAIN NewPoll
    BY DEF NewPoll
  <1>4. OwnShape
    BY <1>1, <1>2, <1>3 DEF OwnShape
  <1>5. OwnerOf /\ Connecting
    BY <1>1, <1>2, <1>3, GatewayAssumption DEF OwnerOf, Connecting, IsOpen
  <1> QED
    BY <1>4, <1>5 DEF OwnInv

\* A step of a poll loop that neither starts nor fails it for good.
LEMMA PollMoves ==
  ASSUME OwnInv, UNCHANGED <<active, gate, disc, line>>, NEW s \in Session, NEW p,
         poll' = [poll EXCEPT ![s] = p], "pc" \in DOMAIN p, p.pc # "close",
         poll[s].pc \notin {"none", "close"}
  PROVE  OwnInv'
  <1>1. /\ DOMAIN poll' = Session /\ poll'[s] = p
        /\ \A r \in Session \ {s} : poll'[r] = poll[r]
    BY DEF OwnInv, OwnShape
  <1>2. OwnShape' /\ Connecting'
    BY <1>1 DEF OwnInv, OwnShape, Connecting
  <1>3. OwnerOf'
    BY <1>1 DEF OwnInv, OwnerOf, IsOpen
  <1> QED
    BY <1>2, <1>3 DEF OwnInv

\* An exception leads a poll loop back to its top, to a pending write of the
\* snapshot or out of it, and so does an answer to a status query.
LEMMA PollOutcomes ==
  ASSUME NEW p, "pc" \in DOMAIN p, p.pc # "close", NEW e
  PROVE  /\ "pc" \in DOMAIN PollThrew(p, e) /\ PollThrew(p, e).pc # "close"
         /\ "pc" \in DOMAIN AfterTimeout(p) /\ AfterTimeout(p).pc # "close"
         /\ "pc" \in DOMAIN StatusRead(p, e) /\ StatusRead(p, e).pc # "close"
  <1>1. \A q, pc : "pc" \in DOMAIN Leaves(q, pc) /\ Leaves(q, pc).pc = pc
    BY DEF Leaves, NewPoll
  <1>2. \A q : "pc" \in DOMAIN q => "pc" \in DOMAIN Restarted(q) /\ Restarted(q).pc = q.pc
    BY DEF Restarted
  <1>3. \A q : "pc" \in DOMAIN q => "pc" \in DOMAIN AfterTimeout(q) /\ AfterTimeout(q).pc # "close"
    BY <1>1 DEF AfterTimeout
  <1>4. "pc" \in DOMAIN PollThrew(p, e) /\ PollThrew(p, e).pc # "close"
    <2> DEFINE q == [Restarted(p) EXCEPT !.fails = @ + 1]
    <2>1. "pc" \in DOMAIN q
      BY <1>2
    <2>2. CASE e = "timeout" /\ session.conn = "connected"
      BY <2>1, <2>2 DEF PollThrew
    <2>3. CASE e = "timeout" /\ session.conn # "connected"
      <3>1. PollThrew(p, e) = AfterTimeout(q)
        BY <2>3 DEF PollThrew
      <3> QED
        BY <1>3, <2>1, <3>1
    <2>4. CASE e = "preempted"
      <3>1. PollThrew(p, e) = [Restarted(p) EXCEPT !.pc = "top"]
        BY <2>4 DEF PollThrew
      <3> QED
        BY <1>2, <3>1
    <2>5. CASE e \notin {"timeout", "preempted"}
      <3>1. PollThrew(p, e) \in {Leaves(p, "done"), Leaves(p, "fault")}
        BY <2>5 DEF PollThrew
      <3> QED
        BY <1>1, <3>1
    <2> QED
      BY <2>2, <2>3, <2>4, <2>5
  <1>5. "pc" \in DOMAIN StatusRead(p, e) /\ StatusRead(p, e).pc # "close"
    BY <1>1, <1>2 DEF StatusRead
  <1> QED
    BY <1>3, <1>4, <1>5

\* The disposal of a transport by the owner that gives it up.
LEMMA DisposalMoves ==
  ASSUME OwnInv, NEW s \in Session, BeginSerialDispose(s), UNCHANGED <<active, gate>>,
         \/ /\ poll[s].pc = "close" /\ poll' = [poll EXCEPT ![s].pc = "awaitLine"]
            /\ UNCHANGED disc
         \/ /\ disc[s] = "close" /\ disc' = [disc EXCEPT ![s] = "awaitLine"]
            /\ UNCHANGED poll
  PROVE  OwnInv'
  <1>1. /\ DOMAIN line' = Session /\ line'[s] = "closing"
        /\ \A r \in Session \ {s} : line'[r] = line[r]
    BY DEF BeginSerialDispose, OwnInv, OwnShape
  <1>2. /\ DOMAIN poll' = Session /\ DOMAIN disc' = Session
        /\ "pc" \in DOMAIN poll'[s] /\ poll'[s].pc # "close" /\ disc'[s] # "close"
        /\ \A r \in Session \ {s} : poll'[r] = poll[r] /\ disc'[r] = disc[r]
    BY DEF OwnInv, OwnShape, OwnerOf
  <1>3. active # s
    BY DEF OwnInv, OwnerOf
  <1>4. OwnShape'
    BY <1>1, <1>2 DEF OwnInv, OwnShape
  <1>5. Connecting'
    BY <1>1 DEF OwnInv, Connecting
  <1>6. OwnerOf'
    BY <1>1, <1>2, <1>3 DEF OwnInv, OwnerOf, IsOpen
  <1> QED
    BY <1>4, <1>5, <1>6 DEF OwnInv

\* A port that fails, is released or is closed behind its owner's back.
LEMMA LineMoves ==
  ASSUME OwnInv, UNCHANGED <<active, gate, disc, poll>>, NEW s \in Session, NEW l,
         line' = [line EXCEPT ![s] = l],
         <<line[s], l>> \in {<<"open", "faulted">>, <<"closing", "released">>,
                             <<"released", "closed">>}
  PROVE  OwnInv'
  <1>1. /\ DOMAIN line' = Session /\ line'[s] = l
        /\ \A r \in Session \ {s} : line'[r] = line[r]
    BY DEF OwnInv, OwnShape
  <1>2. \/ line[s] = "open" /\ l = "faulted"
        \/ line[s] = "closing" /\ l = "released"
        \/ line[s] = "released" /\ l = "closed"
    OBVIOUS
  <1>3. OwnShape' /\ Connecting'
    BY <1>1, <1>2 DEF OwnInv, OwnShape, Connecting
  <1>4. OwnerOf'
    BY <1>1, <1>2 DEF OwnInv, OwnerOf, IsOpen
  <1> QED
    BY <1>3, <1>4 DEF OwnInv

\* A disconnect that is past its close.
LEMMA DisconnectMoves ==
  ASSUME OwnInv, UNCHANGED <<active, gate, line, poll>>, NEW s \in Session, NEW d,
         disc' = [disc EXCEPT ![s] = d], disc[s] \notin {"none", "close"}, d # "close"
  PROVE  OwnInv'
  <1>1. /\ DOMAIN disc' = Session /\ disc'[s] = d
        /\ \A r \in Session \ {s} : disc'[r] = disc[r]
    BY DEF OwnInv, OwnShape
  <1>2. OwnShape' /\ Connecting'
    BY <1>1 DEF OwnInv, OwnShape, Connecting
  <1>3. OwnerOf'
    BY <1>1 DEF OwnInv, OwnerOf, IsOpen
  <1> QED
    BY <1>2, <1>3 DEF OwnInv

\* The steps of ConnectAsync, under the gate.
LEMMA ConnectKeepsOwn ==
  ASSUME OwnInv, ConnectBegins \/ \E s \in Session : ConnectStep(s)
  PROVE  OwnInv'
  <1>0. OwnShape /\ OwnerOf /\ Connecting
    BY DEF OwnInv
  <1>1. CASE ConnectBegins
    <2>1. /\ gate = "free" /\ gate' = "listing" /\ active = None
          /\ UNCHANGED <<active, disc, line, poll>>
      BY <1>1 DEF ConnectBegins, portVars
    <2> QED
      BY <1>0, <2>1 DEF OwnInv, OwnShape, OwnerOf, Connecting, IsOpen
  <1>2. CASE ConnectListed
    <2>1. gate = "listing" /\ UNCHANGED <<active, disc, poll>> /\ active = None
      BY <1>0, <1>2 DEF ConnectListed, Connecting
    <2>2. \A r \in Session : line[r] # "opening"
      BY <1>0, <2>1 DEF Connecting
    <2>3. CASE gate' = "free" /\ UNCHANGED line
      BY <1>0, <2>1, <2>2, <2>3 DEF OwnInv, OwnShape, OwnerOf, Connecting, IsOpen
    <2>4. ASSUME NEW s \in Session, line[s] = "none", gate' = "opening",
                 line' = [line EXCEPT ![s] = "opening"]
          PROVE  OwnInv'
      <3>1. /\ DOMAIN line' = Session /\ line'[s] = "opening"
            /\ \A r \in Session \ {s} : line'[r] = line[r]
        BY <1>0, <2>4 DEF OwnShape
      <3>2. OwnShape' /\ OwnerOf'
        BY <1>0, <2>1, <2>4, <3>1 DEF OwnShape, OwnerOf, IsOpen
      <3>3. Connecting'
        BY <2>1, <2>2, <2>4, <3>1 DEF Connecting
      <3> QED
        BY <3>2, <3>3 DEF OwnInv
    <2> QED
      BY <1>2, <2>3, <2>4 DEF ConnectListed
  <1>3. ASSUME NEW s \in Session, OpenSucceeds(s) PROVE OwnInv'
    <2>1. /\ line[s] = "opening" /\ gate = "opening" /\ active = None
          /\ line' = [line EXCEPT ![s] = "open"] /\ active' = s /\ gate' = "free"
          /\ poll' = [poll EXCEPT ![s].pc = "top"] /\ UNCHANGED disc
          /\ \A r \in Session : line[r] = "opening" => r = s
      BY <1>0, <1>3 DEF OpenSucceeds, Connecting
    <2>2. /\ DOMAIN line' = Session /\ line'[s] = "open"
          /\ \A r \in Session \ {s} : line'[r] = line[r]
          /\ DOMAIN poll' = Session /\ "pc" \in DOMAIN poll'[s] /\ poll'[s].pc = "top"
          /\ \A r \in Session \ {s} : poll'[r] = poll[r]
      BY <1>0, <2>1 DEF OwnShape
    <2>3. disc[s] = "none"
      BY <1>0, <2>1 DEF OwnerOf
    <2>4. OwnShape' /\ Connecting'
      BY <1>0, <2>1, <2>2 DEF OwnShape, Connecting
    <2>5. OwnerOf'
      BY <1>0, <2>1, <2>2, <2>3, GatewayAssumption DEF OwnerOf, IsOpen
    <2> QED
      BY <2>4, <2>5 DEF OwnInv
  <1>4. ASSUME NEW s \in Session, OpenFails(s) PROVE OwnInv'
    <2>1. /\ line[s] = "opening" /\ gate = "opening" /\ active = None
          /\ line' = [line EXCEPT ![s] = "closed"] /\ gate' = "free"
          /\ UNCHANGED <<active, poll, disc>>
          /\ \A r \in Session : line[r] = "opening" => r = s
      BY <1>0, <1>4 DEF OpenFails, Connecting
    <2>2. /\ DOMAIN line' = Session /\ line'[s] = "closed"
          /\ \A r \in Session \ {s} : line'[r] = line[r]
      BY <1>0, <2>1 DEF OwnShape
    <2>3. OwnShape' /\ Connecting'
      BY <1>0, <2>1, <2>2 DEF OwnShape, Connecting
    <2>4. OwnerOf'
      BY <1>0, <2>1, <2>2 DEF OwnerOf, IsOpen
    <2> QED
      BY <2>3, <2>4 DEF OwnInv
  <1> QED
    BY <1>1, <1>2, <1>3, <1>4 DEF ConnectStep

\* The gateway gives up an active session: to the disconnect, or to the poll loop
\* that failed; whoever comes second finds it gone.
LEMMA TakingKeepsOwn ==
  ASSUME OwnInv,
         \/ \E kind \in Releases : DisconnectBegins(kind)
         \/ \E s \in Session : HandlePollingFault(s)
  PROVE  OwnInv'
  <1>0. OwnShape /\ OwnerOf /\ Connecting
    BY DEF OwnInv
  <1>1. ASSUME NEW kind \in Releases, DisconnectBegins(kind) PROVE OwnInv'
    <2>1. /\ active # None /\ gate = "free" /\ active' = None /\ UNCHANGED <<gate, line>>
          /\ disc' = [disc EXCEPT ![active] = "close"]
          /\ poll' = [poll EXCEPT ![active].cancelled = TRUE]
      BY <1>1 DEF DisconnectBegins, portVars
    <2>2. active \in Session
      BY <1>0, <2>1 DEF OwnShape
    <2>3. /\ DOMAIN disc' = Session /\ disc'[active] = "close"
          /\ \A r \in Session \ {active} : disc'[r] = disc[r]
          /\ DOMAIN poll' = Session
          /\ \A r \in Session : "pc" \in DOMAIN poll'[r] /\ poll'[r].pc = poll[r].pc
      BY <1>0, <2>1, <2>2 DEF OwnShape
    <2>4. OwnShape' /\ Connecting'
      BY <1>0, <2>1, <2>3 DEF OwnShape, Connecting
    <2>5. OwnerOf'
      BY <1>0, <2>1, <2>2, <2>3, GatewayAssumption DEF OwnerOf, IsOpen
    <2> QED
      BY <2>4, <2>5 DEF OwnInv
  <1>2. ASSUME NEW s \in Session, HandlePollingFault(s) PROVE OwnInv'
    <2>0. poll[s].pc = "fault" /\ gate = "free" /\ UNCHANGED <<gate, disc, line>>
      BY <1>2 DEF HandlePollingFault, portVars
    <2>1. CASE StillOwns(s)
      <3>1. /\ active = s /\ active' = None
            /\ poll' = [poll EXCEPT ![s].pc = "close", ![s].cancelled = TRUE]
        BY <1>2, <2>1 DEF HandlePollingFault, StillOwns
      <3>2. /\ DOMAIN poll' = Session /\ "pc" \in DOMAIN poll'[s] /\ poll'[s].pc = "close"
            /\ \A r \in Session \ {s} : poll'[r] = poll[r]
        BY <1>0, <3>1 DEF OwnShape
      <3>3. OwnShape' /\ Connecting'
        BY <1>0, <2>0, <3>1, <3>2 DEF OwnShape, Connecting
      <3>4. OwnerOf'
        BY <1>0, <2>0, <3>1, <3>2, GatewayAssumption DEF OwnerOf, IsOpen
      <3> QED
        BY <3>3, <3>4 DEF OwnInv
    <2>2. CASE ~StillOwns(s)
      <3> DEFINE p == [poll[s] EXCEPT !.pc = "done"]
      <3>1. poll' = [poll EXCEPT ![s] = p] /\ UNCHANGED active
        BY <1>0, <1>2, <2>2 DEF HandlePollingFault, OwnShape
      <3>2. "pc" \in DOMAIN p /\ p.pc = "done"
        BY <1>0 DEF OwnShape
      <3> HIDE DEF p
      <3> QED
        BY <2>0, <3>1, <3>2, PollMoves
    <2> QED
      BY <2>1, <2>2
  <1> QED
    BY <1>1, <1>2

LEMMA PollKeepsOwn ==
  ASSUME OwnInv, NEW s \in Session, PollStep(s)
  PROVE  OwnInv'
  <1>0. OwnShape /\ "pc" \in DOMAIN poll[s]
    BY DEF OwnInv, OwnShape
  <1>1. CASE PollTop(s)
    <2>1. /\ poll[s].pc = "top" /\ UNCHANGED <<active, gate, disc, line>>
          /\ \/ poll' = [poll EXCEPT ![s] = Leaves(poll[s], "done")]
             \/ poll' = [poll EXCEPT ![s] = [poll[s] EXCEPT !.pc = "joint"]]
      BY <1>0, <1>1 DEF PollTop, lifeVars, OwnShape
    <2>2. "pc" \in DOMAIN Leaves(poll[s], "done") /\ Leaves(poll[s], "done").pc = "done"
      BY DEF Leaves, NewPoll
    <2>3. CASE poll' = [poll EXCEPT ![s] = Leaves(poll[s], "done")]
      BY <2>1, <2>2, <2>3, PollMoves
    <2>4. CASE poll' = [poll EXCEPT ![s] = [poll[s] EXCEPT !.pc = "joint"]]
      BY <1>0, <2>1, <2>4, PollMoves
    <2> QED
      BY <2>1, <2>3, <2>4
  <1>2. CASE PollJoint(s)
    <2>1. /\ poll[s].pc = "joint" /\ UNCHANGED <<active, gate, disc, line>>
          /\ \/ poll' = [poll EXCEPT ![s] = [poll[s] EXCEPT !.pc = "status"]]
             \/ poll' = [poll EXCEPT ![s] = [poll[s] EXCEPT !.pc = "top", !.fails = 0]]
             \/ \E e : poll' = [poll EXCEPT ![s] = PollThrew(poll[s], e)]
      BY <1>0, <1>2 DEF PollJoint, lifeVars, OwnShape
    <2>2. CASE poll' = [poll EXCEPT ![s] = [poll[s] EXCEPT !.pc = "status"]]
      <3> DEFINE p == [poll[s] EXCEPT !.pc = "status"]
      <3>1. "pc" \in DOMAIN p /\ p.pc = "status" /\ poll' = [poll EXCEPT ![s] = p]
        BY <1>0, <2>2
      <3> HIDE DEF p
      <3> QED
        BY <2>1, <3>1, PollMoves
    <2>3. CASE poll' = [poll EXCEPT ![s] = [poll[s] EXCEPT !.pc = "top", !.fails = 0]]
      <3> DEFINE p == [poll[s] EXCEPT !.pc = "top", !.fails = 0]
      <3>1. "pc" \in DOMAIN p /\ p.pc = "top" /\ poll' = [poll EXCEPT ![s] = p]
        BY <1>0, <2>3
      <3> HIDE DEF p
      <3> QED
        BY <2>1, <3>1, PollMoves
    <2>4. CASE \E e : poll' = [poll EXCEPT ![s] = PollThrew(poll[s], e)]
      BY <1>0, <2>1, <2>4, PollMoves, PollOutcomes
    <2> QED
      BY <2>1, <2>2, <2>3, <2>4
  <1>3. CASE PollStatus(s)
    <2>1. /\ poll[s].pc = "status" /\ UNCHANGED <<active, gate, disc, line>>
          /\ \E e : \/ poll' = [poll EXCEPT ![s] = PollThrew(poll[s], e)]
                    \/ poll' = [poll EXCEPT ![s] = StatusRead(poll[s], e)]
      BY <1>3 DEF PollStatus, lifeVars
    <2> QED
      BY <1>0, <2>1, PollMoves, PollOutcomes
  <1>4. CASE MarkStatusCycleValid(s) \/ MarkFeedbackStale(s)
    <2>1. /\ poll[s].pc \in {"mark", "stale"} /\ UNCHANGED <<active, gate, disc, line>>
          /\ \/ poll' = [poll EXCEPT ![s] = [poll[s] EXCEPT !.pc = "top", !.fails = 0,
                                                            !.snap = OfflineSession]]
             \/ poll' = [poll EXCEPT ![s] = AfterTimeout(poll[s])]
      BY <1>4 DEF MarkStatusCycleValid, MarkFeedbackStale, lifeVars, portVars
    <2> QED
      BY <1>0, <2>1, PollMoves, PollOutcomes
  <1>5. CASE HandlePollingFault(s)
    BY <1>5, TakingKeepsOwn
  <1>6. CASE PollCloses(s)
    BY <1>6, DisposalMoves DEF PollCloses, lifeVars
  <1>7. CASE PollEnds(s)
    <2>1. /\ poll[s].pc = "awaitLine" /\ UNCHANGED <<active, gate, disc, line>>
          /\ poll' = [poll EXCEPT ![s] = [poll[s] EXCEPT !.pc = "done"]]
      BY <1>0, <1>7 DEF PollEnds, lifeVars, portVars, OwnShape
    <2> DEFINE p == [poll[s] EXCEPT !.pc = "done"]
    <2>2. "pc" \in DOMAIN p /\ p.pc = "done" /\ poll' = [poll EXCEPT ![s] = p]
      BY <1>0, <2>1
    <2> HIDE DEF p
    <2> QED
      BY <2>1, <2>2, PollMoves
  <1> QED
    BY <1>1, <1>2, <1>3, <1>4, <1>5, <1>6, <1>7 DEF PollStep

LEMMA NextKeepsOwn ==
  ASSUME OwnInv, [GatewayNext]_vars
  PROVE  OwnInv'
  <1>a. ASSUME UNCHANGED ownVars PROVE OwnInv'
    BY <1>a DEF OwnInv, OwnShape, OwnerOf, Connecting, IsOpen, ownVars
  <1>1. CASE Environment
    <2>1. CASE ConnectBegins
      BY <2>1, ConnectKeepsOwn
    <2>2. CASE Dispose \/ \E kind \in Releases : DisconnectIdle(kind)
      BY <1>a, <2>2 DEF Dispose, DisconnectIdle, ownVars, lifeVars, portVars
    <2>3. CASE \E kind \in Releases : DisconnectBegins(kind)
      BY <2>3, TakingKeepsOwn
    <2>4. CASE \E c \in Command : ExecuteCommand(c) \/ StopWithdrawn(c) \/ JointGroupDeadline(c)
      BY <1>a, <2>4
      DEF ExecuteCommand, StopWithdrawn, JointGroupDeadline, ownVars, lifeVars, portVars
    <2>5. CASE \E s \in Session : ExpireWrite(s)
      BY <1>a, <2>5 DEF ExpireWrite, ownVars, lifeVars
    <2>6. CASE \E s \in Session : TransportFault(s)
      BY <2>6, LineMoves DEF TransportFault, lifeVars
    <2> QED
      BY <1>1, <2>1, <2>2, <2>3, <2>4, <2>5, <2>6 DEF Environment
  <1>2. ASSUME NEW t \in Caller, CallStep(t) PROVE OwnInv'
    BY <1>2, <1>a DEF CallStep, AcquireResponseLease, QueueWrite, ownVars, lifeVars
  <1>3. ASSUME NEW s \in Session, PollStep(s) \/ ConnectStep(s) PROVE OwnInv'
    BY <1>3, PollKeepsOwn, ConnectKeepsOwn
  <1>4. ASSUME NEW s \in Session, PortStep(s) PROVE OwnInv'
    <2>1. CASE Write(s) \/ ReceiveRecord(s) \/ ApplyObservedResponse(s)
      BY <1>a, <2>1 DEF Write, ReceiveRecord, ApplyObservedResponse, ownVars, lifeVars
    <2>2. CASE ReleaseHandle(s) \/ SerialDisposeReturns(s)
      BY <2>2, LineMoves DEF ReleaseHandle, SerialDisposeReturns, lifeVars
    <2> QED
      BY <1>4, <2>1, <2>2 DEF PortStep
  <1>5. ASSUME NEW s \in Session, DisconnectStep(s) PROVE OwnInv'
    <2>1. CASE DisconnectCloses(s)
      BY <2>1, DisposalMoves DEF DisconnectCloses
    <2>2. CASE DisconnectAwaits(s) \/ CollectRunners(s) \/ DisconnectResets(s)
                 \/ DisconnectReturnsTo(s)
      <3>1. PICK d \in {"awaitPoll", "collect", "awaitRunners", "finish", "done"} :
               disc' = [disc EXCEPT ![s] = d]
        BY <2>2 DEF DisconnectAwaits, CollectRunners, DisconnectResets, DisconnectReturnsTo
      <3>2. disc[s] \notin {"none", "close"} /\ UNCHANGED <<active, gate, line, poll>>
        BY <2>2
        DEF DisconnectAwaits, CollectRunners, DisconnectResets, DisconnectReturnsTo, portVars
      <3> QED
        BY <3>1, <3>2, DisconnectMoves
    <2> QED
      BY <1>5, <2>1, <2>2 DEF DisconnectStep
  <1>6. ASSUME NEW c \in Command, CommandStep(c) PROVE OwnInv'
    BY <1>6, <1>a
    DEF CommandStep, ReadSession, CheckCommand, StartCommand, CommandSteps, PublishResult,
        ReleaseExclusive, ownVars, lifeVars, portVars
  <1>7. CASE UNCHANGED vars
    BY <1>7, <1>a DEF vars, ownVars, lifeVars, portVars
  <1> QED
    BY <1>1, <1>2, <1>3, <1>4, <1>5, <1>6, <1>7 DEF GatewayNext

\* Ownership of transports (activeSerialSession, HandlePollingFaultAsync,
\* DisconnectAsync): an open transport has exactly one owner that will dispose it,
\* and any other has none.
THEOREM TransportAlwaysOwned == GatewaySpec => []TransportOwned
  <1>1. OwnInv => TransportOwned
    <2> SUFFICES ASSUME OwnInv, NEW s \in Session
                 PROVE  Cardinality(Owners(s)) = IF IsOpen(s) THEN 1 ELSE 0
      BY DEF TransportOwned, IsOpen
    <2>1. CASE IsOpen(s)
      <3>1. PICK o : Owners(s) = {o}
        <4>1. CASE active = s
          <5>1. Owners(s) = {"active"}
            BY <4>1 DEF OwnInv, OwnerOf, Owners
          <5> QED
            BY <5>1
        <4>2. CASE disc[s] = "close"
          <5>1. Owners(s) = {"disconnect"}
            BY <4>2 DEF OwnInv, OwnerOf, Owners
          <5> QED
            BY <5>1
        <4>3. CASE poll[s].pc = "close"
          <5>1. Owners(s) = {"poll"}
            BY <4>3 DEF OwnInv, OwnerOf, Owners
          <5> QED
            BY <5>1
        <4> QED
          BY <2>1, <4>1, <4>2, <4>3 DEF OwnInv, OwnerOf
      <3> QED
        BY <2>1, <3>1, FS_Singleton
    <2>2. CASE ~IsOpen(s)
      <3>1. Owners(s) = {}
        BY <2>2 DEF OwnInv, OwnerOf, Owners
      <3> QED
        BY <2>2, <3>1, FS_EmptySet
    <2> QED
      BY <2>1, <2>2
  <1> QED
    BY <1>1, InitOwn, NextKeepsOwn, PTL DEF GatewaySpec
===============================================================================
