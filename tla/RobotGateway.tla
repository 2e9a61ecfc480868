---------------------------- MODULE RobotGateway ----------------------------
(***************************************************************************)
(* RobotGateway, supervised mode: the session lifecycle (connect, manual   *)
(* disconnect, shutdown, polling fault), the poll loop, the structured     *)
(* commands with their single-command arbitration, safety interlock and    *)
(* bounded audit, over a coarse serial session whose locks and fences      *)
(* DummySession and SerialScheduler model in full, and the arm itself.     *)
(*                                                                         *)
(* One step is one critical section or the code between two awaits, except *)
(* that a read and a later write of the session snapshot are two steps.    *)
(* Command identifiers are single-use: a repeated identifier joins the     *)
(* execution that exists and changes nothing.                              *)
(***************************************************************************)
EXTENDS Integers, Sequences, FiniteSets, SequencesExt, Selections

CONSTANTS
    Session,                    \* connections, each with its serial session and poll loop
    Command, None,
    Mode, KindOf, ModeOf,       \* RobotCommandKind of a command, the mode it asks for
    HardwareCommandsEnabled,
    CommandHistoryCapacity,
    ConsecutiveTimeoutLimit,
    Releases,                   \* bound: the kinds of disconnect that may be requested
    InitialMotor,               \* bound: how the arm may be found
    MaxFaults                   \* bound: lost lines, error replies, timers that fire while
                                \* the reply is on its way, expired lines, unplugged cables

Kind == {"enable", "setMode", "jointGroup", "stopAndDisable", "home"}

ASSUME GatewayAssumption ==
    /\ Session \intersect Command = {} /\ None \notin Session \union Command \union Mode
    /\ KindOf \in [Command -> Kind] /\ ModeOf \in [Command -> Mode]
    /\ HardwareCommandsEnabled \in BOOLEAN
    /\ CommandHistoryCapacity \in Nat \ {0} /\ ConsecutiveTimeoutLimit \in Nat \ {0}
    /\ Releases \subseteq {"manual", "shutdown", "dispose"}
    /\ InitialMotor \subseteq {"enabled", "disabled"} /\ InitialMotor # {}
    /\ MaxFaults \in Nat

VARIABLES
    session,        \* RobotSessionSnapshot
    joint,          \* validity of the joint state frame
    active,         \* activeSerialSession
    gate,           \* what ConnectAsync does while it holds lifecycleGate
    recovery,       \* serialOpenRecoveryRequired
    disposed,       \* DisposeAsync was called
    disc,           \* how far the disconnect of each session has got
    waitFor,        \* the runners AwaitRunningCommandsAsync collected
    line,           \* the serial session and its port handle
    lease,          \* who holds the response lease
    queue,          \* lines the scheduler has not written
    wire,           \* replies on their way back
    disp,           \* the reply the receive dispatcher is working on
    tx,             \* the transaction each caller is in
    poll,           \* PollAsync of each session
    cmd,            \* RunCommandAsync of each command
    history,        \* commandEntries in the order of commandOrder
    exclusive,      \* exclusiveCommandId
    latched,        \* commandInterlockLatched
    unknown,        \* history: unknown outcomes no confirmed STOP has answered yet
    motor, mode,    \* the arm
    faults

snapVars == <<session, joint>>
lifeVars == <<active, gate, recovery, disposed, disc, waitFor>>
portVars == <<line, lease, queue, wire, disp, tx>>
cmdVars  == <<cmd, history, exclusive, latched, unknown>>
armVars  == <<motor, mode>>
vars == <<snapVars, lifeVars, portVars, poll, cmdVars, armVars, faults>>

Caller == Session \union Command

(***************************************************************************)
(* Values                                                                  *)
(***************************************************************************)
Conn     == {"offline", "connecting", "connected", "disconnecting", "faulted"}
Snapshot == [id : Session \union {None}, conn : Conn,
             motor : {"unknown", "enabled", "disabled"}, mode : Mode \union {None},
             validity : {"unavailable", "stale", "valid", "invalid"}]
Status   == {"Completed", "Rejected", "Unsupported", "Cancelled",
             "TimedOut", "Failed", "Unconfirmed"}
UnknownStatus == {"Unconfirmed", "Failed", "TimedOut"}
Exception == {"timeout", "error", "io", "disposed", "conflict",
              "cancelled", "preempted", "closing"}
Canceled  == {"cancelled", "preempted", "closing"}
Swallowed == {"timeout", "error", "io", "disposed"}

Blank(id, conn, validity) ==
    [id |-> id, conn |-> conn, motor |-> "unknown", mode |-> None, validity |-> validity]
OfflineSession    == Blank(None, "offline", "unavailable")
FaultedSession(s) == Blank(s, "faulted", "unavailable")

Threw(e)    == [e |-> e, val |-> None]
Returned(v) == [e |-> "ok", val |-> v]

Program(kind) ==
    CASE kind = "enable"         -> <<"start", "getEnable">>
      [] kind = "setMode"        -> <<"setMode", "getMode">>
      [] kind = "jointGroup"     -> <<"joint", "getJoint">>
      [] kind = "stopAndDisable" -> <<"stop", "zero", "disable", "getEnable">>
      [] kind = "home"           -> << >>

Op == {"start", "setMode", "joint", "stop", "zero", "disable",
       "getEnable", "getMode", "getJoint"}
IsStop(c) == KindOf[c] = "stopAndDisable"

\* Priority of a line: the three STOP writes are safety work, a query a command
\* owns is interactive like its other lines, a query of the poll loop telemetry.
Priority(t, op) ==
    IF t \in Session THEN "telemetry"
    ELSE IF op \in {"stop", "zero", "disable"} THEN "safety" ELSE "interactive"

Running(c) == cmd[c].pc \notin {"idle", "published", "done"}
LineOf(t)  == IF t \in Session THEN t ELSE cmd[t].transport
TokenCancelled(t) == IF t \in Session THEN poll[t].cancelled ELSE cmd[t].calledOff
SerialDisposed(s) == line[s] \in {"closing", "released", "closed"}

(***************************************************************************)
(* Type invariant and initial state                                        *)
(***************************************************************************)
Idle == [phase |-> "off", op |-> "getJoint", resp |-> None]
NewPoll == [pc |-> "none", due |-> TRUE, next |-> "getMode", pending |-> None,
            fails |-> 0, cancelled |-> FALSE, snap |-> OfflineSession]
NewCommand == [pc |-> "idle", sid |-> None, transport |-> None, step |-> 0,
               snap |-> OfflineSession, result |-> None, calledOff |-> FALSE]

\* Gateway variables hold values of their kind.
GatewayTypeOK ==
    /\ session \in Snapshot /\ joint \in {"unavailable", "stale", "valid"}
    /\ active \in Session \union {None} /\ gate \in {"free", "listing", "opening"}
    /\ recovery \in BOOLEAN /\ disposed \in BOOLEAN
    /\ disc \in [Session -> {"none", "close", "awaitLine", "awaitPoll", "collect",
                             "awaitRunners", "finish", "done"}]
    /\ waitFor \subseteq Command
    /\ line \in [Session -> {"none", "opening", "open", "faulted", "closing",
                             "released", "closed"}]
    /\ lease \in [Session -> Caller \union {None}]
    /\ \A s \in Session : \A i \in DOMAIN queue[s] :
           queue[s][i].by \in Caller /\ queue[s][i].op \in Op
    /\ \A t \in Caller :
           /\ tx[t].phase \in {"off", "want", "leased", "queued", "written", "ended"}
           /\ tx[t].op \in Op
    /\ \A s \in Session :
           /\ poll[s].pc \in {"none", "top", "joint", "status", "mark", "stale",
                              "fault", "close", "awaitLine", "done"}
           /\ poll[s].fails \in 0 .. ConsecutiveTimeoutLimit
           /\ poll[s].snap \in Snapshot
    /\ \A c \in Command :
           /\ cmd[c].pc \in {"idle", "accepted", "read", "checked", "run", "decided",
                             "published", "done"}
           /\ cmd[c].result \in Status \union {None} /\ cmd[c].snap \in Snapshot
    /\ exclusive \in Command \union {None} /\ latched \in BOOLEAN
    /\ unknown \subseteq Command
    /\ motor \in {"enabled", "disabled"} /\ mode \in Mode
    /\ faults \in 0 .. MaxFaults

GatewayInit ==
    /\ session = OfflineSession /\ joint = "unavailable"
    /\ active = None /\ gate = "free" /\ recovery = FALSE /\ disposed = FALSE
    /\ disc = [s \in Session |-> "none"] /\ waitFor = {}
    /\ line = [s \in Session |-> "none"] /\ lease = [s \in Session |-> None]
    /\ queue = [s \in Session |-> << >>] /\ wire = [s \in Session |-> << >>]
    /\ disp = [s \in Session |-> None] /\ tx = [t \in Caller |-> Idle]
    /\ poll = [s \in Session |-> NewPoll]
    /\ cmd = [c \in Command |-> NewCommand]
    /\ history = << >> /\ exclusive = None /\ latched = FALSE
    /\ unknown = {}
    /\ motor \in InitialMotor /\ mode \in Mode
    /\ faults = 0
(***************************************************************************)
(* The serial session: TransactAsync and QueueUnobserved, the writer, the  *)
(* receive dispatcher, faults and closing                                  *)
(***************************************************************************)
\* A call that begins: a disposed session and a cancelled token end it at once,
\* but the unobserved zero-current line is queued before the token is looked at.
BeginTx(t, s, op, off) ==
    IF SerialDisposed(s) THEN [phase |-> "ended", op |-> op, resp |-> Threw("disposed")]
    ELSE IF op = "zero"  THEN [phase |-> "leased", op |-> op, resp |-> None]
    ELSE IF off          THEN [phase |-> "ended", op |-> op, resp |-> Threw("cancelled")]
    ELSE [phase |-> "want", op |-> op, resp |-> None]

Fail(x, e) == IF x.resp = None THEN [x EXCEPT !.resp = Threw(e)] ELSE x
EndWith(x, e) == [x EXCEPT !.phase = "ended", !.resp = Threw(e)]

\* A queued line that will not be written: WriteLineAsync turns the outcome of
\* the zero-current line, whatever it is, into an IOException.
Unwritten(x, e) == EndWith(x, IF x.op = "zero" THEN "io" ELSE e)

\* Safety work takes the lease of anything that is not safety work.
PreemptsNobody(t, h) == FALSE
Preempts(t, h) == Priority(t, tx[t].op) = "safety" /\ Priority(h, tx[h].op) # "safety"

AcquireResponseLease(t) ==
    LET s == LineOf(t)
        h == lease[s]
    IN  /\ tx[t].phase = "want"
        /\ \/ h = None
           \/ h # None /\ Preempts(t, h)
        /\ lease' = [lease EXCEPT ![s] = t]
        /\ tx' = [x \in Caller |->
                    CASE x = t -> [tx[t] EXCEPT !.phase = "leased"]
                      [] x = h -> Fail(tx[h], "preempted")
                      [] OTHER -> tx[x]]
        /\ UNCHANGED <<snapVars, lifeVars, line, queue, wire, disp, poll, cmdVars,
                       armVars, faults>>

\* A call that already has its lease queues its line whatever has happened to
\* the lease or to its token since; a scheduler that is stopping refuses it.
QueueWrite(t) ==
    LET s == LineOf(t) IN
    /\ tx[t].phase = "leased"
    /\ \/ /\ line[s] \in {"open", "closing"}
          /\ queue' = [queue EXCEPT ![s] = Append(@, [by |-> t, op |-> tx[t].op])]
          /\ tx' = [tx EXCEPT ![t].phase = "queued"]
       \/ /\ line[s] # "open"
          /\ tx' = [tx EXCEPT ![t] = EndWith(@, "conflict")]
          /\ UNCHANGED queue
    /\ UNCHANGED <<snapVars, lifeVars, line, lease, wire, disp, poll, cmdVars,
                   armVars, faults>>

PriorityAt(s, i) == Priority(queue[s][i].by, queue[s][i].op)
FenceClosed(s) == lease[s] # None /\ tx[lease[s]].phase = "written"

\* Safety lines go first and pass the response fence; within a class the oldest.
MayWrite(s, i) ==
    /\ \A j \in 1 .. i - 1 : PriorityAt(s, j) # PriorityAt(s, i)
    /\ \/ PriorityAt(s, i) = "safety"
       \/ /\ ~FenceClosed(s)
          /\ \A j \in DOMAIN queue[s] : PriorityAt(s, j) # "safety"

\* What the arm does with a line, and the value it answers with.
Motor(op) == CASE op = "start" -> "enabled" [] op = "disable" -> "disabled" [] OTHER -> motor
Answers(op) ==
    CASE op = "getEnable" -> {motor}
      [] op = "getMode"   -> {mode} \union (IF faults < MaxFaults THEN {"unsupported"} ELSE {})
      [] op = "joint"     -> {"accepted", "full"}
      [] OTHER            -> {"ok"}

\* The writer puts a line on the port.  The arm carries it out and answers (the
\* zero-current line has no answer), answers with an error, or the line is lost.
Write(s) ==
    \E i \in DOMAIN queue[s] :
    LET w == queue[s][i]
        t == w.by
    IN  /\ line[s] \in {"open", "closing"} /\ MayWrite(s, i)
        /\ queue' = [queue EXCEPT ![s] = RemoveAt(@, i)]
        /\ tx' = IF tx[t].phase = "queued" /\ tx[t].op = w.op
                 THEN [tx EXCEPT ![t] = IF w.op = "zero"
                         THEN [@ EXCEPT !.phase = "ended", !.resp = Returned("ok")]
                         ELSE [@ EXCEPT !.phase = "written"]]
                 ELSE tx
        /\ \/ /\ motor' = Motor(w.op)
              /\ mode' = IF w.op = "setMode" THEN ModeOf[t] ELSE mode
              /\ IF w.op = "zero" THEN UNCHANGED <<wire, faults>> ELSE
                 \E v \in Answers(w.op) :
                     /\ wire' = [wire EXCEPT ![s] = Append(@, [op |-> w.op, val |-> v])]
                     /\ faults' = IF v = "unsupported" THEN faults + 1 ELSE faults
           \/ /\ faults < MaxFaults /\ faults' = faults + 1
              /\ \/ wire' = [wire EXCEPT ![s] = Append(@, [op |-> "error", val |-> None])]
                 \/ UNCHANGED wire
              /\ UNCHANGED armVars
        /\ UNCHANGED <<snapVars, lifeVars, line, lease, disp, poll, cmdVars>>

\* A line that waited longer than CommandTimeout is dropped.
ExpireWrite(s) ==
    \E i \in DOMAIN queue[s] :
    LET t == queue[s][i].by IN
    /\ faults < MaxFaults /\ faults' = faults + 1
    /\ queue' = [queue EXCEPT ![s] = RemoveAt(@, i)]
    /\ tx' = IF tx[t].phase = "queued" /\ tx[t].op = queue[s][i].op
             THEN [tx EXCEPT ![t] = Unwritten(@, "timeout")] ELSE tx
    /\ UNCHANGED <<snapVars, lifeVars, line, lease, wire, disp, poll, cmdVars, armVars>>

\* ApplyObservedResponse on the snapshot it read.
Observed(snap, r) ==
    CASE r.op = "getEnable" -> [snap EXCEPT !.motor = r.val]
      [] r.op = "getMode" /\ r.val # "unsupported" -> [snap EXCEPT !.mode = r.val]
      [] r.op = "getMode" /\ r.val = "unsupported" ->
             [snap EXCEPT !.motor = "unknown", !.mode = None, !.validity = "invalid"]
      [] OTHER -> snap

\* What a reply does to the transaction that held the armed lease.
Answer(t, r) ==
    IF t = None THEN tx
    ELSE IF r.op = "error" THEN [tx EXCEPT ![t] = Fail(@, "error")]
    ELSE IF r.op = tx[t].op /\ tx[t].resp = None THEN [tx EXCEPT ![t].resp = Returned(r.val)]
    ELSE tx

\* The dispatcher takes a reply and the armed lease.  For a status reply it also
\* reads the current snapshot ...
ReceiveRecord(s) ==
    LET r == Head(wire[s])
        t == IF FenceClosed(s) THEN lease[s] ELSE None
    IN  /\ disp[s] = None /\ wire[s] # << >> /\ line[s] \in {"open", "closing"}
        /\ wire' = [wire EXCEPT ![s] = Tail(@)]
        /\ IF r.op \in {"getEnable", "getMode"}
           THEN /\ disp' = [disp EXCEPT ![s] = [reply |-> r, waiter |-> t,
                                                snap |-> Observed(session, r)]]
                /\ UNCHANGED <<joint, tx>>
           ELSE /\ joint' = IF r.op = "getJoint" THEN "valid" ELSE joint
                /\ tx' = Answer(t, r)
                /\ UNCHANGED disp
        /\ UNCHANGED <<session, lifeVars, line, lease, queue, poll, cmdVars, armVars,
                       faults>>

\* ... which it then publishes with the change, before it completes the lease.
ApplyObservedResponse(s) ==
    /\ disp[s] # None
    /\ session' = disp[s].snap
    /\ tx' = Answer(disp[s].waiter, disp[s].reply)
    /\ disp' = [disp EXCEPT ![s] = None]
    /\ UNCHANGED <<joint, lifeVars, line, lease, queue, wire, poll, cmdVars, armVars,
                   faults>>

\* Every queued or waiting call of a line that stops, and its lease holder.
Drained(s, e, e2) ==
    [x \in Caller |->
        IF \E i \in DOMAIN queue[s] : queue[s][i].by = x /\ queue[s][i].op = tx[x].op
                                      /\ tx[x].phase = "queued"
        THEN Unwritten(tx[x], e)
        ELSE IF x = lease[s] THEN Fail(tx[x], e2) ELSE tx[x]]

\* The port fails under the scheduler: it stops, cancels what is queued, and the
\* session's monitor fails the active lease.
TransportFault(s) ==
    /\ line[s] = "open" /\ faults < MaxFaults /\ faults' = faults + 1
    /\ line' = [line EXCEPT ![s] = "faulted"]
    /\ \E e \in {"cancelled", "io"} : tx' = Drained(s, e, "io")
    /\ queue' = [queue EXCEPT ![s] = << >>] /\ wire' = [wire EXCEPT ![s] = << >>]
    /\ lease' = [lease EXCEPT ![s] = None]
    /\ UNCHANGED <<snapVars, lifeVars, disp, poll, cmdVars, armVars>>

\* DisposeAsync of the serial session closes the handle and drains the queue ...
ReleaseHandle(s) ==
    /\ line[s] = "closing"
    /\ line' = [line EXCEPT ![s] = "released"]
    /\ tx' = Drained(s, "cancelled", "closing")
    /\ queue' = [queue EXCEPT ![s] = << >>] /\ wire' = [wire EXCEPT ![s] = << >>]
    /\ UNCHANGED <<snapVars, lifeVars, lease, disp, poll, cmdVars, armVars, faults>>

\* ... and returns once the dispatcher has left its callback.
SerialDisposeReturns(s) ==
    /\ line[s] = "released" /\ disp[s] = None
    /\ line' = [line EXCEPT ![s] = "closed"]
    /\ UNCHANGED <<snapVars, lifeVars, lease, queue, wire, disp, tx, poll, cmdVars,
                   armVars, faults>>

\* The effect of calling DisposeAsync: the active lease is cancelled at once.
BeginSerialDispose(s) ==
    /\ line' = [line EXCEPT ![s] = "closing"]
    /\ tx' = [x \in Caller |-> IF x = lease[s] THEN Fail(tx[x], "closing") ELSE tx[x]]
    /\ lease' = [lease EXCEPT ![s] = None]

\* A reply that the caller still waits for is on its way.
Coming(t) ==
    LET s == LineOf(t) IN
    \/ \E i \in DOMAIN wire[s] : wire[s][i].op \in {tx[t].op, "error"}
    \/ disp[s] # None /\ disp[s].waiter = t /\ disp[s].reply.op \in {tx[t].op, "error"}

\* How a call may end now, apart from a timer that fires too early.
Outcomes(t) ==
    LET x == tx[t] IN
    (IF x.phase = "ended" \/ (x.phase = "written" /\ x.resp # None) THEN {x.resp} ELSE {})
    \union (IF x.phase \in {"want", "queued", "written"} /\ TokenCancelled(t)
            THEN {Threw("cancelled")} ELSE {})
    \union (IF x.phase = "written" /\ x.resp = None /\ ~Coming(t)
            THEN {Threw("timeout")} ELSE {})

\* A call ends with outcome o: the finally block releases its lease and fence.
Returns(t, o) ==
    /\ \/ o \in Outcomes(t) /\ UNCHANGED faults
       \/ /\ o = Threw("timeout") /\ tx[t].phase = "written" /\ tx[t].resp = None
          /\ Coming(t) /\ faults < MaxFaults /\ faults' = faults + 1
    /\ lease' = [s \in Session |-> IF lease[s] = t THEN None ELSE lease[s]]
    /\ disp' = [s \in Session |-> IF disp[s] # None /\ disp[s].waiter = t
                                  THEN [disp[s] EXCEPT !.waiter = None] ELSE disp[s]]

Ends(t) == Outcomes(t) \union {Threw("timeout")}

(***************************************************************************)
(* PollAsync                                                               *)
(***************************************************************************)
Leaves(p, pc) == [NewPoll EXCEPT !.pc = pc, !.cancelled = p.cancelled]

PollTop(s) ==
    /\ poll[s].pc = "top"
    /\ IF poll[s].cancelled
       THEN poll' = [poll EXCEPT ![s] = Leaves(@, "done")] /\ UNCHANGED tx
       ELSE /\ poll' = [poll EXCEPT ![s].pc = "joint"]
            /\ tx' = [tx EXCEPT ![s] = BeginTx(s, s, "getJoint", FALSE)]
    /\ UNCHANGED <<snapVars, lifeVars, line, lease, queue, wire, disp, cmdVars,
                   armVars, faults>>

\* What PollAsync does with an exception of either query.
Restarted(p) == [p EXCEPT !.due = TRUE, !.next = "getMode", !.pending = None]
AfterTimeout(p) ==
    IF p.fails = ConsecutiveTimeoutLimit THEN Leaves(p, "fault")
    ELSE [p EXCEPT !.pc = "top", !.snap = OfflineSession]
PollThrew(p, e) ==
    CASE e = "timeout" ->
             LET q == [Restarted(p) EXCEPT !.fails = @ + 1] IN
             IF session.conn = "connected"
             THEN [q EXCEPT !.pc = "stale", !.snap = [session EXCEPT !.validity = "stale"]]
             ELSE AfterTimeout(q)
      [] e = "preempted" -> [Restarted(p) EXCEPT !.pc = "top"]
      [] e \in {"cancelled", "closing"} /\ p.cancelled -> Leaves(p, "done")
      [] OTHER -> Leaves(p, "fault")

\* The reply to the joint query.  A status query follows when a cycle is required
\* (statusRefreshRequired) or its interval has passed.
PollJoint(s) ==
    /\ poll[s].pc = "joint"
    /\ \E o \in Ends(s) :
        /\ Returns(s, o)
        /\ \/ /\ o.e = "ok"
              /\ poll' = [poll EXCEPT ![s].pc = "status"]
              /\ tx' = [tx EXCEPT ![s] = BeginTx(s, s, poll[s].next, poll[s].cancelled)]
           \/ /\ o.e = "ok" /\ ~poll[s].due
              /\ poll' = [poll EXCEPT ![s].pc = "top", ![s].fails = 0]
              /\ tx' = [tx EXCEPT ![s] = Idle]
           \/ /\ o.e # "ok"
              /\ poll' = [poll EXCEPT ![s] = PollThrew(@, o.e)]
              /\ tx' = [tx EXCEPT ![s] = Idle]
    /\ UNCHANGED <<snapVars, lifeVars, line, queue, wire, cmdVars, armVars>>

\* The reply to a status query.  The mode is kept until the motor state has been
\* read too, and MarkStatusCycleValid then reads the snapshot.
StatusRead(p, v) ==
    IF v = "unsupported" THEN Leaves(p, "fault")
    ELSE IF p.next = "getMode"
         THEN [p EXCEPT !.pc = "top", !.fails = 0, !.next = "getEnable", !.pending = v]
         ELSE [Restarted(p) EXCEPT !.pc = "mark", !.due = FALSE,
                 !.snap = [session EXCEPT !.motor = v, !.mode = p.pending,
                                          !.validity = "valid"]]

PollStatus(s) ==
    /\ poll[s].pc = "status"
    /\ \E o \in Ends(s) :
        /\ Returns(s, o)
        /\ poll' = [poll EXCEPT ![s] = IF o.e = "ok" THEN StatusRead(@, o.val)
                                       ELSE PollThrew(@, o.e)]
    /\ tx' = [tx EXCEPT ![s] = Idle]
    /\ UNCHANGED <<snapVars, lifeVars, line, queue, wire, cmdVars, armVars>>

MarkStatusCycleValid(s) ==
    /\ poll[s].pc = "mark"
    /\ session' = poll[s].snap
    /\ poll' = [poll EXCEPT ![s] = [@ EXCEPT !.pc = "top", !.fails = 0, !.snap = OfflineSession]]
    /\ UNCHANGED <<joint, lifeVars, portVars, cmdVars, armVars, faults>>

MarkFeedbackStale(s) ==
    /\ poll[s].pc = "stale"
    /\ session' = poll[s].snap
    /\ joint' = IF joint = "valid" THEN "stale" ELSE joint
    /\ poll' = [poll EXCEPT ![s] = AfterTimeout(@)]
    /\ UNCHANGED <<lifeVars, portVars, cmdVars, armVars, faults>>

\* The poll loop failed: it takes the transport unless a disconnect already has.
OwnsAlways(s) == TRUE
StillOwns(s) == active = s
HandlePollingFault(s) ==
    /\ poll[s].pc = "fault" /\ gate = "free"
    /\ IF StillOwns(s)
       THEN /\ active' = None
            /\ session' = FaultedSession(s) /\ joint' = "unavailable"
            /\ poll' = [poll EXCEPT ![s].pc = "close", ![s].cancelled = TRUE]
       ELSE /\ poll' = [poll EXCEPT ![s].pc = "done"]
            /\ UNCHANGED <<active, session, joint>>
    /\ UNCHANGED <<gate, recovery, disposed, disc, waitFor, portVars, cmdVars, armVars,
                   faults>>

PollCloses(s) ==
    /\ poll[s].pc = "close"
    /\ BeginSerialDispose(s)
    /\ poll' = [poll EXCEPT ![s].pc = "awaitLine"]
    /\ UNCHANGED <<snapVars, lifeVars, queue, wire, disp, cmdVars, armVars, faults>>

PollEnds(s) ==
    /\ poll[s].pc = "awaitLine" /\ line[s] = "closed"
    /\ poll' = [poll EXCEPT ![s].pc = "done"]
    /\ UNCHANGED <<snapVars, lifeVars, portVars, cmdVars, armVars, faults>>

(***************************************************************************)
(* ConnectAsync                                                            *)
(***************************************************************************)
Entries == Range(history)
HasRunningCommand == \E c \in Entries : Running(c)

ResetSessionEvidence ==
    /\ history' = << >> /\ exclusive' = None /\ latched' = FALSE /\ unknown' = {}

ConnectBegins ==
    /\ gate = "free" /\ ~disposed /\ ~recovery
    /\ active = None /\ ~HasRunningCommand
    /\ session.conn \notin {"connecting", "connected", "disconnecting"}
    /\ \E s \in Session : line[s] = "none"
    /\ gate' = "listing"
    /\ UNCHANGED <<snapVars, active, recovery, disposed, disc, waitFor, portVars, poll,
                   cmdVars, armVars, faults>>

\* The ports are listed: the selected one is missing, or the open begins.
ConnectListed ==
    /\ gate = "listing"
    /\ \/ /\ gate' = "free"
          /\ UNCHANGED <<session, line, history, exclusive, latched, unknown>>
       \/ \E s \in Session :
            /\ line[s] = "none"
            /\ gate' = "opening"
            /\ ResetSessionEvidence
            /\ session' = Blank(s, "connecting", "unavailable")
            /\ line' = [line EXCEPT ![s] = "opening"]
    /\ UNCHANGED <<joint, active, recovery, disposed, disc, waitFor, lease, queue, wire,
                   disp, tx, poll, cmd, armVars, faults>>

\* The port has one owner, so an open succeeds only once older handles are closed.
OpenSucceeds(s) ==
    /\ line[s] = "opening"
    /\ \A r \in Session \ {s} : line[r] \in {"none", "released", "closed"}
    /\ line' = [line EXCEPT ![s] = "open"]
    /\ active' = s /\ gate' = "free"
    /\ session' = Blank(s, "connected", "stale")
    /\ poll' = [poll EXCEPT ![s].pc = "top"]
    /\ UNCHANGED <<joint, recovery, disposed, disc, waitFor, lease, queue, wire, disp, tx,
                   cmdVars, armVars, faults>>

\* The open fails, or is cut short by its timer or its caller, which quarantines
\* the process until it is restarted.
OpenFails(s) ==
    /\ line[s] = "opening"
    /\ line' = [line EXCEPT ![s] = "closed"]
    /\ gate' = "free" /\ session' = OfflineSession
    /\ recovery' \in {recovery, TRUE}
    /\ UNCHANGED <<joint, active, disposed, disc, waitFor, lease, queue, wire, disp, tx,
                   poll, cmdVars, armVars, faults>>

(***************************************************************************)
(* DisconnectAsync, ShutdownAsync and DisposeAsync                         *)
(***************************************************************************)
Refused(kind) ==
    /\ kind = "manual" /\ HardwareCommandsEnabled /\ active # None
    /\ \/ HasRunningCommand
       \/ session.conn = "connected" /\ session.motor = "enabled"
Disconnecting == \E s \in Session : disc[s] \notin {"none", "done"}

\* DisposeAsync first forbids new connections; then it is a shutdown.
Dispose ==
    /\ "dispose" \in Releases /\ gate = "free" /\ ~disposed
    /\ disposed' = TRUE
    /\ UNCHANGED <<snapVars, active, gate, recovery, disc, waitFor, portVars, poll, cmdVars,
                   armVars, faults>>
Requested(kind) == kind = "dispose" => disposed

DisconnectIdle(kind) ==
    /\ gate = "free" /\ ~Disconnecting /\ active = None /\ Requested(kind)
    /\ ResetSessionEvidence
    /\ session' = OfflineSession /\ joint' = "unavailable"
    /\ UNCHANGED <<lifeVars, portVars, poll, cmd, armVars, faults>>

DisconnectBegins(kind) ==
    /\ gate = "free" /\ ~Disconnecting /\ active # None
    /\ Requested(kind) /\ ~Refused(kind)
    /\ disc' = [disc EXCEPT ![active] = "close"]
    /\ active' = None
    /\ poll' = [poll EXCEPT ![active].cancelled = TRUE]
    /\ cmd' = [c \in Command |-> IF c \in Entries /\ Running(c)
                                 THEN [cmd[c] EXCEPT !.calledOff = TRUE] ELSE cmd[c]]
    /\ session' = Blank(session.id, "disconnecting", "unavailable")
    /\ UNCHANGED <<joint, gate, recovery, disposed, waitFor, portVars, history, exclusive,
                   latched, unknown, armVars, faults>>

DisconnectCloses(s) ==
    /\ disc[s] = "close"
    /\ BeginSerialDispose(s)
    /\ disc' = [disc EXCEPT ![s] = "awaitLine"]
    /\ UNCHANGED <<snapVars, active, gate, recovery, disposed, waitFor, queue, wire, disp,
                   poll, cmdVars, armVars, faults>>

\* The serial session is gone, then the poll task ends.
DisconnectAwaits(s) ==
    /\ \/ /\ disc[s] = "awaitLine" /\ line[s] = "closed"
          /\ disc' = [disc EXCEPT ![s] = "awaitPoll"]
       \/ /\ disc[s] = "awaitPoll" /\ poll[s].pc = "done"
          /\ disc' = [disc EXCEPT ![s] = "collect"]
    /\ UNCHANGED <<snapVars, active, gate, recovery, disposed, waitFor, portVars, poll,
                   cmdVars, armVars, faults>>

\* AwaitRunningCommandsAsync sees only the runners that their submitting thread
\* has stored by now.
CollectRunners(s) ==
    /\ disc[s] = "collect"
    /\ waitFor' \in SUBSET {c \in Entries : cmd[c].pc # "done"}
    /\ disc' = [disc EXCEPT ![s] = "awaitRunners"]
    /\ UNCHANGED <<snapVars, active, gate, recovery, disposed, portVars, poll, cmdVars,
                   armVars, faults>>

DisconnectResets(s) ==
    /\ disc[s] = "awaitRunners" /\ \A c \in waitFor : cmd[c].pc = "done"
    /\ ResetSessionEvidence
    /\ session' = OfflineSession /\ joint' = "unavailable"
    /\ disc' = [disc EXCEPT ![s] = "finish"] /\ waitFor' = {}
    /\ UNCHANGED <<active, gate, recovery, disposed, portVars, poll, cmd, armVars,
                   faults>>

DisconnectReturnsTo(s) ==
    /\ disc[s] = "finish" /\ gate = "free"
    /\ disc' = [disc EXCEPT ![s] = "done"]
    /\ UNCHANGED <<snapVars, active, gate, recovery, disposed, waitFor, portVars, poll,
                   cmdVars, armVars, faults>>

(***************************************************************************)
(* Commands                                                                *)
(***************************************************************************)
\* TrimCommandHistoryLocked: the oldest finished entries make room, the others
\* keep their order.
TrimHistory(h, free) ==
    LET excess == Len(h) - CommandHistoryCapacity
        out == {h[i] : i \in {i \in DOMAIN h : /\ h[i] \in free
                                               /\ Cardinality({j \in 1 .. i - 1 : h[j] \in free}) < excess}}
        kept == {i \in DOMAIN h : h[i] \notin out}
    IN  Selected(h, kept)

Finished(c) == cmd[c].pc \in {"published", "done"}

\* The command a STOP calls off when it is accepted.
CallsOffNone(c) == {}
CallsOff(c) == {exclusive} \ {None}

\* ExecuteCommandAsync.  A busy gateway refuses everything but a STOP of an
\* ordinary command, which calls that command off.  A client names a session it
\* has seen, or one of another gateway.
ExecuteCommand(c) ==
    /\ cmd[c].pc = "idle"
    /\ \E sid \in {s \in Session : line[s] # "none"} \union {"foreign"} :
       LET busy == exclusive # None /\ (~IsStop(c) \/ IsStop(exclusive))
           done == {d \in Command : Finished(d)}
       IN  IF busy
           THEN /\ cmd' = [cmd EXCEPT ![c].pc = "done", ![c].result = "Rejected"]
                /\ history' = TrimHistory(Append(history, c), (done \union {c}) \ {exclusive})
                /\ UNCHANGED exclusive
           ELSE /\ cmd' = [d \in Command |->
                             CASE d = c -> [cmd[c] EXCEPT !.pc = "accepted", !.sid = sid]
                               [] d \in CallsOff(c) -> [cmd[d] EXCEPT !.calledOff = TRUE]
                               [] OTHER -> cmd[d]]
                /\ history' = TrimHistory(Append(history, c), done)
                /\ exclusive' = c
    /\ UNCHANGED <<snapVars, lifeVars, portVars, poll, latched, unknown, armVars,
                   faults>>

\* The caller of a STOP gives up after the ordinary command was called off and
\* before the STOP is accepted; no entry is made for it.
StopWithdrawn(c) ==
    /\ cmd[c].pc = "idle" /\ IsStop(c)
    /\ exclusive # None /\ ~IsStop(exclusive)
    /\ cmd' = [cmd EXCEPT ![exclusive].calledOff = TRUE, ![c].pc = "done"]
    /\ UNCHANGED <<snapVars, lifeVars, portVars, poll, history, exclusive, latched, unknown,
                   armVars, faults>>

\* A command's outcome is known to its runner; a command that was called off and
\* returns normally counts as cancelled.
Decide(c, status) ==
    /\ cmd' = [cmd EXCEPT ![c] = [NewCommand EXCEPT !.pc = "decided", !.result = status,
                                                    !.calledOff = cmd[c].calledOff]]
    /\ unknown' = IF status \in UnknownStatus /\ ~cmd[c].calledOff /\ c \in Entries
                  THEN unknown \union {c} ELSE unknown
DecideReturned(c, status) ==
    Decide(c, IF ~IsStop(c) /\ cmd[c].calledOff THEN "Cancelled" ELSE status)

\* ExecuteCommandCoreAsync reads the session ...
ReadSession(c) ==
    /\ cmd[c].pc = "accepted"
    /\ IF ~HardwareCommandsEnabled \/ KindOf[c] = "home"
       THEN DecideReturned(c, "Unsupported")
       ELSE /\ cmd' = [cmd EXCEPT ![c].pc = "read", ![c].snap = session]
            /\ UNCHANGED unknown
    /\ UNCHANGED <<snapVars, lifeVars, portVars, poll, history, exclusive, latched,
                   armVars, faults>>

\* ... then the transport, and validates the command against both ...
Validated(c) ==
    LET current == cmd[c].snap IN
    /\ cmd[c].sid = current.id
    /\ current.conn = "connected" /\ active # None /\ line[active] = "open"
    /\ IsStop(c) \/ (~latched /\ current.validity = "valid")
    /\ KindOf[c] = "setMode" => current.motor # "enabled"
    /\ KindOf[c] = "jointGroup" => current.motor = "enabled" /\ joint = "valid"

CheckCommand(c) ==
    /\ cmd[c].pc = "read"
    /\ IF Validated(c)
       THEN /\ cmd' = [cmd EXCEPT ![c] = [@ EXCEPT !.pc = "checked", !.transport = active,
                                                   !.snap = OfflineSession]]
            /\ UNCHANGED unknown
       ELSE DecideReturned(c, "Rejected")
    /\ UNCHANGED <<snapVars, lifeVars, portVars, poll, history, exclusive, latched,
                   armVars, faults>>

\* ... and once more against the current session before the first line goes out.
\* Enabling an enabled arm and setting the mode it has complete without a line.
AlreadyDone(c) ==
    \/ KindOf[c] = "enable" /\ session.motor = "enabled"
    \/ KindOf[c] = "setMode" /\ session.mode = ModeOf[c]

BeginStep(c, k) ==
    /\ cmd' = [cmd EXCEPT ![c].pc = "run", ![c].step = k]
    /\ tx' = [tx EXCEPT ![c] = BeginTx(c, cmd[c].transport, Program(KindOf[c])[k],
                                       cmd[c].calledOff)]
    /\ UNCHANGED unknown

StartCommand(c) ==
    /\ cmd[c].pc = "checked"
    /\ IF active # cmd[c].transport \/ session.conn # "connected"
       THEN DecideReturned(c, "Rejected") /\ UNCHANGED tx
       ELSE IF AlreadyDone(c)
            THEN DecideReturned(c, "Completed") /\ UNCHANGED tx
            ELSE BeginStep(c, 1)
    /\ UNCHANGED <<snapVars, lifeVars, line, lease, queue, wire, disp, poll, history,
                   exclusive, latched, armVars, faults>>

LastStep(c) == cmd[c].step = Len(Program(KindOf[c]))

\* The catch clauses of RunCommandAsync and, once a joint target is queued, of
\* ExecuteJointGroupAsync.
Thrown(c, e) ==
    LET settling == KindOf[c] = "jointGroup" /\ LastStep(c) IN
    IF /\ cmd[c].calledOff
       /\ e \in Canceled \union {"io", "disposed"} \union (IF settling THEN {"timeout"} ELSE {})
    THEN "Cancelled"
    ELSE IF e = "timeout" \/ (settling /\ e \in Canceled) THEN "TimedOut" ELSE "Failed"

\* The status the reply to the last line of a program gives.
Confirmed(c, v) ==
    LET want == CASE KindOf[c] = "enable" -> "enabled"
                  [] KindOf[c] = "setMode" -> ModeOf[c]
                  [] KindOf[c] = "stopAndDisable" -> "disabled"
                  [] OTHER -> v
    IN  IF v = want THEN "Completed" ELSE "Unconfirmed"

\* The settling loop looks at the joints again while its queries are answered.
\* Mutant: it also looks again after a query that failed.
LooksAgainAfterError(c, o) ==
    KindOf[c] = "jointGroup" /\ LastStep(c) /\ o.e \in {"ok"} \union Canceled \union Swallowed
LooksAgain(c, o) == KindOf[c] = "jointGroup" /\ LastStep(c) /\ o.e = "ok"

\* A transaction of a command ends: the next line, another look at the joints, or
\* the outcome.  The STOP chain swallows what a line of it throws, except a
\* cancellation and a refused write.
CommandSteps(c) ==
    /\ cmd[c].pc = "run"
    /\ \E o \in Ends(c) :
        /\ Returns(c, o)
        /\ \/ /\ ~LastStep(c) /\ o.val # "full"
              /\ o.e = "ok" \/ (IsStop(c) /\ o.e \in Swallowed)
              /\ BeginStep(c, cmd[c].step + 1)
           \/ LooksAgain(c, o) /\ BeginStep(c, cmd[c].step)
           \/ /\ tx' = [tx EXCEPT ![c] = Idle]
              /\ \/ LastStep(c) /\ o.e = "ok" /\ DecideReturned(c, Confirmed(c, o.val))
                 \/ o.val = "full" /\ DecideReturned(c, "Rejected")
                 \/ IsStop(c) /\ LastStep(c) /\ o.e \in Swallowed /\ Decide(c, "Unconfirmed")
                 \/ /\ o.e # "ok" /\ ~LooksAgain(c, o) /\ ~(IsStop(c) /\ o.e \in Swallowed)
                    /\ Decide(c, Thrown(c, o.e))
    /\ UNCHANGED <<snapVars, lifeVars, line, queue, wire, poll, history, exclusive, latched,
                   armVars>>

\* The arm does not settle on the joint target in time.
JointGroupDeadline(c) ==
    /\ cmd[c].pc = "run" /\ KindOf[c] = "jointGroup" /\ LastStep(c)
    /\ tx[c].phase \in {"want", "queued", "written"}
    /\ tx' = [tx EXCEPT ![c] = Idle]
    /\ lease' = [s \in Session |-> IF lease[s] = c THEN None ELSE lease[s]]
    /\ disp' = [s \in Session |-> IF disp[s] # None /\ disp[s].waiter = c
                                  THEN [disp[s] EXCEPT !.waiter = None] ELSE disp[s]]
    /\ DecideReturned(c, "TimedOut")
    /\ UNCHANGED <<snapVars, lifeVars, line, queue, wire, poll, history, exclusive, latched,
                   armVars, faults>>

\* The runner updates the interlock and only then lets the client see the result.
InterlockedUnlessTimedOut(c) ==
    IF IsStop(c) /\ cmd[c].result = "Completed"
    THEN latched' = FALSE /\ unknown' = {}
    ELSE /\ latched' = (latched \/ cmd[c].result \in UnknownStatus \ {"TimedOut"})
         /\ UNCHANGED unknown
Interlocked(c) ==
    IF IsStop(c) /\ cmd[c].result = "Completed"
    THEN latched' = FALSE /\ unknown' = {}
    ELSE /\ latched' = (latched \/ cmd[c].result \in UnknownStatus)
         /\ UNCHANGED unknown

PublishResult(c) ==
    /\ cmd[c].pc = "decided"
    /\ Interlocked(c)
    /\ cmd' = [cmd EXCEPT ![c].pc = "published"]
    /\ UNCHANGED <<snapVars, lifeVars, portVars, poll, history, exclusive, armVars,
                   faults>>

ReleaseExclusive(c) ==
    LET ex == IF exclusive = c THEN None ELSE exclusive IN
    /\ cmd[c].pc = "published"
    /\ cmd' = [cmd EXCEPT ![c].pc = "done"]
    /\ exclusive' = ex
    /\ history' = TrimHistory(history, {d \in Command : Finished(d)} \ {ex})
    /\ UNCHANGED <<snapVars, lifeVars, portVars, poll, latched, unknown, armVars,
                   faults>>

(***************************************************************************)
(* The gateway                                                             *)
(***************************************************************************)
CallStep(t) == AcquireResponseLease(t) \/ QueueWrite(t)
PollStep(s) ==
    \/ PollTop(s) \/ PollJoint(s) \/ PollStatus(s) \/ MarkStatusCycleValid(s)
    \/ MarkFeedbackStale(s) \/ HandlePollingFault(s) \/ PollCloses(s) \/ PollEnds(s)
PortStep(s) ==
    \/ Write(s) \/ ReceiveRecord(s) \/ ApplyObservedResponse(s) \/ ReleaseHandle(s)
    \/ SerialDisposeReturns(s)
DisconnectStep(s) ==
    \/ DisconnectCloses(s) \/ DisconnectAwaits(s) \/ CollectRunners(s)
    \/ DisconnectResets(s) \/ DisconnectReturnsTo(s)
ConnectStep(s) == ConnectListed \/ OpenSucceeds(s) \/ OpenFails(s)
CommandStep(c) ==
    \/ ReadSession(c) \/ CheckCommand(c) \/ StartCommand(c) \/ CommandSteps(c)
    \/ PublishResult(c) \/ ReleaseExclusive(c)

Environment ==
    \/ ConnectBegins \/ Dispose
    \/ \E kind \in Releases : DisconnectIdle(kind) \/ DisconnectBegins(kind)
    \/ \E c \in Command : ExecuteCommand(c) \/ StopWithdrawn(c) \/ JointGroupDeadline(c)
    \/ \E s \in Session : ExpireWrite(s) \/ TransportFault(s)

GatewayNext ==
    \/ Environment
    \/ \E t \in Caller : CallStep(t)
    \/ \E s \in Session : PollStep(s) \/ PortStep(s) \/ DisconnectStep(s) \/ ConnectStep(s)
    \/ \E c \in Command : CommandStep(c)

GatewaySpec == GatewayInit /\ [][GatewayNext]_vars

\* Threads keep running: every step the gateway or the port can take by itself
\* is taken if it stays possible, and whoever waits for lifecycleGate gets it in
\* turn, as a semaphore serves its waiters.  Nothing is assumed of clients and faults, nor
\* of the race for a free lease, which only safety work is sure to win.
GatewayFairness ==
    /\ \A t \in Caller : WF_vars(CallStep(t))
    /\ \A s \in Session : /\ WF_vars(PollStep(s)) /\ WF_vars(Write(s))
                          /\ WF_vars(ReceiveRecord(s)) /\ WF_vars(ApplyObservedResponse(s))
                          /\ WF_vars(ReleaseHandle(s)) /\ WF_vars(SerialDisposeReturns(s))
                          /\ WF_vars(DisconnectStep(s)) /\ WF_vars(ConnectStep(s))
                          /\ SF_vars(HandlePollingFault(s)) /\ SF_vars(DisconnectReturnsTo(s))
    /\ \A c \in Command : WF_vars(CommandStep(c))
GatewayLiveSpec == GatewaySpec /\ GatewayFairness

(***************************************************************************)
(* Properties                                                              *)
(***************************************************************************)
QueuesLine(c) == tx[c].phase = "leased" /\ tx'[c].phase = "queued"

\* The interlock is effective: while a command of this session ended with an
\* unknown physical result (UpdateCommandInterlock in the code) and no STOP has been confirmed
\* since, no other ordinary command puts a line into the write queue.  Commands
\* that a STOP or a disconnect called off are outside this promise.
InterlockHolds ==
    [][\A c \in Command :
          QueuesLine(c) /\ ~IsStop(c) /\ ~cmd[c].calledOff /\ c \in Entries
              => \A d \in unknown : cmd[d].calledOff]_vars

\* Single-command arbitration (ExecuteCommandAsync): of the commands in the audit
\* at most one runs without having been called off.
OneCommand ==
    \A c, d \in Entries :
        Running(c) /\ ~cmd[c].calledOff /\ Running(d) /\ ~cmd[d].calledOff => c = d

\* The bounded audit (TrimCommandHistoryLocked): it exceeds its capacity only while
\* no entry in it can be dropped, and never drops the command that holds the
\* arbitration, which ExecuteCommandAsync looks up by its identifier.
AuditBounded ==
    /\ exclusive # None => exclusive \in Entries
    /\ Len(history) > CommandHistoryCapacity
           => \A c \in Entries : cmd[c].pc # "done" \/ c = exclusive

\* A confirmed STOP (ExecuteStopAndDisableAsync): as long as no line was lost, no
\* timer fired early and no called-off command is still on its way out, the arm is
\* disabled at the moment the readback completes the STOP, so no line that was
\* queued before the readback can enable it again.
StopReadback ==
    [][\A c \in Command :
          (/\ IsStop(c) /\ cmd[c].pc = "run" /\ cmd'[c].result = "Completed"
           /\ faults = 0
           /\ \A d \in Command : ~(cmd[d].calledOff /\ Running(d)))
          => motor = "disabled"]_vars

\* Every open transport has exactly one owner that will dispose it: the gateway
\* while the session is active, then either the disconnect or the failed poll loop
\* that took it out of activeSerialSession, never both and never none.
Owners(s) ==
    {o \in {"active", "disconnect", "poll"} :
        \/ o = "active" /\ active = s
        \/ o = "disconnect" /\ disc[s] = "close"
        \/ o = "poll" /\ poll[s].pc = "close"}
TransportOwned ==
    \A s \in Session :
        Cardinality(Owners(s)) = IF line[s] \in {"open", "faulted"} THEN 1 ELSE 0

\* A STOP that was admitted gets through its safety lines whatever the poll loop
\* or another command is waiting for: it ends or reaches its readback.
StopChainRuns ==
    \A c \in Command :
        (IsStop(c) /\ cmd[c].pc = "run") ~> (cmd[c].pc # "run" \/ LastStep(c))

\* A disconnect ends: closing the handle first releases the poll loop and the
\* runners it then waits for (AwaitRunningCommandsAsync), whatever line or reply
\* they are waiting for themselves, and nobody it waits for needs the lifecycle
\* gate it would be holding (DisconnectCoreAsync).  Only one is under way at a time.
DisconnectReturns == Disconnecting ~> ~Disconnecting

\* What the runbook demands of a mode command: completed means the arm is in the
\* requested mode.
ModeConfirmed ==
    [][\A c \in Command :
          (/\ KindOf[c] = "setMode" /\ Running(c)
           /\ cmd'[c].result = "Completed" /\ cmd[c].result # "Completed")
          => mode = ModeOf[c]]_vars
=============================================================================
