----------------------------- MODULE WebSession -----------------------------
(***************************************************************************)
(* The browser side of a robot session: the session coordinator            *)
(* (integrations/GatewaySessionCoordinator.tsx), the command lifecycle     *)
(* every command entry shares (GatewayCommandLifecycle.ts), the serial     *)
(* session control, the header's STOP and the console's manual read and    *)
(* joint-group send, over the stores of GatewayRuntime.                    *)
(*                                                                         *)
(* JavaScript runs a handler to its next await without interruption, so an *)
(* action is the stretch between two awaits.  A REST read is sampled at    *)
(* the gateway by a step of its own (the members of one Promise.all at     *)
(* different moments) and applied by a later step; SignalR events arrive   *)
(* in order, may be lost with the channel, and race the REST answers.      *)
(***************************************************************************)
EXTENDS GatewayRuntime

CONSTANTS
  Actors,         \* bound: who acts: "edit" (target), "leave" (profile), "stall" (frames)
  SessionIds,     \* ids the gateway gives successive serial sessions
  QueueLimit,     \* bound: undelivered SignalR events, oldest dropped
  FaultKinds,     \* bound: which faults happen: "rest", "hub", "command", "serial",
                  \* "manual"
  MaxFaults,      \* bound: lost answers, channel drops and bad payloads
  MaxManual,      \* bound: manual reads of the current pose
  MaxCommands,    \* bound: structured commands submitted
  MaxDisconnects  \* bound: disconnects asked for by the operator

ASSUME WebSessionAssumption ==
  /\ Actors \subseteq {"edit", "leave", "stall"}
  /\ FaultKinds \subseteq {"rest", "hub", "command", "serial", "manual"}
  /\ SessionIds \in Seq(STRING) /\ Len(SessionIds) > 0
  /\ QueueLimit \in Nat \ {0}
  /\ MaxFaults \in Nat /\ MaxManual \in Nat
  /\ MaxCommands \in Nat /\ MaxDisconnects \in Nat

VARIABLES
  page,     \* everything the browser's handlers change synchronously
  reads,    \* in-flight session+joint reads, one per reader
  auditRead,\* the coordinator's newest command history read
  life,     \* one running command lifecycle per command entry
  serial,   \* the connect or disconnect in flight
  hub,      \* the SignalR channel
  events,   \* events sent and not delivered
  srv,      \* the gateway: session, joint frame, audit log, session count
  clock,    \* timestamps given out
  used      \* how much of each bound is used

vars == <<page, reads, auditRead, life, serial, hub, events, srv, clock, used>>

Readers == {"start", "recover", "fallback", "manual", "device"}
AuditReaders == {"deviceAudit"}
Entries == {"stop", "move"}

offlineSession == [sid |-> "offline", conn |-> "offline",
                   source |-> "unavailable", validity |-> "unavailable"]
unavailableJoint == [source |-> "unavailable", validity |-> "unavailable", pose |-> "zero"]

\* Placeholders for a snapshot not sampled yet and for a read that failed.
NotRead == [sampled |-> FALSE]
FailedRead == [failed |-> TRUE]
Idle == [pc |-> "idle", s |-> NotRead, j |-> NotRead]
Waiting == [Idle EXCEPT !.pc = "wait"]
NoRead == [pc |-> "idle", n |-> 0]
NoLife == [pc |-> "idle", id |-> 0, sid |-> "none", r |-> NoResult,
           s |-> NotRead, j |-> NotRead, n |-> -1]
NoSerial == [pc |-> "idle", s |-> NotRead]

\* The fields of the coordinator's closure.  Sequence numbers matter only
\* for being the newest: authority and command name who holds it.
coordinator == [
  active |-> TRUE, trusted |-> FALSE, observed |-> "showcase",
  phase |-> "authority", authority |-> "start", command |-> "none",
  loop |-> "idle", requested |-> FALSE,
  fallback |-> FALSE, due |-> TRUE, live |-> TRUE, watchdog |-> FALSE,
  preserve |-> FALSE,    \* refreshGateway's captured preserveDegradedTelemetry
  reaudit |-> FALSE]     \* refreshGateway's captured commandAuditStatus # 'loading'

Init ==
  /\ page = Beside(Beside(initialRuntime, initialTarget), coordinator)
  /\ reads = [r \in Readers \cup AuditReaders |-> IF r = "start" THEN Waiting ELSE Idle]
  /\ auditRead = NoRead
  /\ life = [e \in Entries |-> NoLife]
  /\ serial = [connect |-> NoSerial, disconnect |-> NoSerial]
  /\ hub = "none"
  /\ events = <<>>
  /\ srv = [session |-> offlineSession, joint |-> unavailableJoint, log |-> <<>>, opened |-> 0]
  /\ clock = 0
  /\ used = [faults |-> 0, manual |-> 0, commands |-> 0, disconnects |-> 0]

Spend(what, limit) == used[what] < limit /\ used' = [used EXCEPT ![what] = @ + 1]
Fault(kind) == kind \in FaultKinds /\ Spend("faults", MaxFaults)

-----------------------------------------------------------------------------
(* The coordinator's shared handlers, from page to page.                   *)

clearTelemetryFallback(p) == [p EXCEPT !.fallback = FALSE, !.due = TRUE]

\* While untrusted, what claims to be fresh is shown stale.
Trusting(p, v) == IF p.trusted THEN v ELSE MarkStale(v)

acceptSession(p, v) ==
  LET a == Trusting(p, v)
      q == IF a.sid = p.observed THEN p
           ELSE IF ~Closed(a) THEN beginHardwareSession(p, a.sid)
           ELSE IF a.conn = "offline" THEN resetSession(p)
           ELSE endHardwareSession(p)
      r == setSession([q EXCEPT !.observed = a.sid], a)
  IN  IF Closed(a) THEN setTransportWarning(clearTelemetryFallback(r), "none") ELSE r

identityChanged(p, v) == v.sid # p.observed

acceptJointState(p, v) ==
  LET a == Trusting(p, v)
      q == setJointState(p, a)
  IN  IF Fresh(a) /\ q.session.conn = "connected"
        THEN alignTargetFromMeasured(q, q.observed, a.pose)
        ELSE q

\* Whatever authority refresh is in flight no longer counts.
degradeTelemetry(p) ==
  markTelemetryDegraded([p EXCEPT !.trusted = FALSE, !.authority = "none"], "degraded")

enterTelemetryFallback(p) ==
  degradeTelemetry(IF p.fallback THEN p ELSE [p EXCEPT !.fallback = TRUE, !.due = TRUE])

\* The channel reported an error or came back: ask for one more recovery.
recoverAuthority(p) ==
  IF p.loop = "idle"
    THEN [p EXCEPT !.loop = "run", !.requested = FALSE, !.authority = "recover"]
    ELSE [p EXCEPT !.requested = TRUE]

RecoveryReads(p, q) ==
  IF p.loop # "run" /\ q.loop = "run" THEN [reads EXCEPT !["recover"] = Waiting] ELSE reads

\* A page already degraded stays so: one snapshot does not restore trust.
PreserveDegraded(p) == p.session.validity = "stale" \/ p.joint.validity = "stale"

\* A serial operation of either page is under way.
Busy(p) == p.op \in {"connecting", "disconnecting"}

\* refreshCommandHistory: a newer read supersedes the one in flight.
AskAudit(p) == beginCommandAuditRefresh(p)
AuditAsked == [pc |-> "wait", n |-> 0]

-----------------------------------------------------------------------------
(* REST reads.                                                             *)

\* The gateway samples the two snapshots of one Promise.all one at a time.
SampleSession(r) ==
  /\ reads[r].pc = "wait" /\ reads[r].s = NotRead
  /\ reads' = [reads EXCEPT ![r].s = srv.session]
  /\ UNCHANGED <<page, auditRead, life, serial, hub, events, srv, clock, used>>

SampleJoint(r) ==
  /\ reads[r].pc = "wait" /\ reads[r].j = NotRead
  /\ reads' = [reads EXCEPT ![r].j = srv.joint]
  /\ UNCHANGED <<page, auditRead, life, serial, hub, events, srv, clock, used>>

Answered(r) == reads[r].pc = "wait" /\ reads[r].s # NotRead /\ reads[r].j # NotRead

HoldsAuthority(p, r) == p.active /\ p.authority = r

AuthorityApplied(p, r) ==
  LET q == acceptJointState(acceptSession([p EXCEPT !.trusted = TRUE], reads[r].s), reads[r].j)
  IN  setTransportWarning(q, IF q.fallback THEN "fallback" ELSE "none")

\* start(): the first authority refresh, then the history, then the channel.
StartRefreshed ==
  /\ Answered("start")
  /\ reads' = [reads EXCEPT !["start"] = Idle]
  /\ IF HoldsAuthority(page, "start")
       THEN /\ page' = AskAudit([AuthorityApplied(page, "start") EXCEPT !.phase = "opening"])
            /\ auditRead' = AuditAsked
       ELSE /\ page' = [page EXCEPT !.phase = "ended"]
            /\ UNCHANGED auditRead
  /\ UNCHANGED <<life, serial, hub, events, srv, clock, used>>

StartFailed ==
  /\ reads["start"].pc = "wait"
  /\ Fault("rest")
  /\ reads' = [reads EXCEPT !["start"] = Idle]
  /\ page' = [IF HoldsAuthority(page, "start") THEN degradeTelemetry(page) ELSE page
                EXCEPT !.phase = "ended"]
  /\ UNCHANGED <<auditRead, life, serial, hub, events, srv, clock>>

\* Mutant: the page that left meanwhile takes the channel all the same.
HubOpenedLate ==
  /\ page.phase = "opening" /\ hub = "none"
  /\ hub' = "up"
  /\ page' = [page EXCEPT !.phase = "live", !.live = TRUE, !.watchdog = TRUE]
  /\ UNCHANGED <<reads, auditRead, life, serial, events, srv, clock, used>>

\* openTelemetry resolves: the watchdog starts, or a page that left closes it.
HubOpened ==
  /\ page.phase = "opening" /\ hub = "none"
  /\ IF page.active
       THEN /\ hub' = "up"
            /\ page' = [page EXCEPT !.phase = "live", !.live = TRUE, !.watchdog = TRUE]
       ELSE /\ hub' = "closed"
            /\ page' = [page EXCEPT !.phase = "ended"]
  /\ UNCHANGED <<reads, auditRead, life, serial, events, srv, clock, used>>

StartFallbackRead == IF reads["fallback"].pc = "idle"
                       THEN [reads EXCEPT !["fallback"] = Waiting] ELSE reads

HubOpenFailed ==
  /\ page.phase = "opening" /\ hub = "none"
  /\ Fault("hub")
  /\ hub' = "closed"
  /\ IF page.active
       THEN /\ page' = enterTelemetryFallback([page EXCEPT !.phase = "live", !.watchdog = TRUE])
            /\ reads' = StartFallbackRead
       ELSE /\ page' = [page EXCEPT !.phase = "ended"]
            /\ UNCHANGED reads
  /\ UNCHANGED <<auditRead, life, serial, events, srv, clock>>

\* The loop of recoverAuthority goes round while a recovery is requested.
LoopOn(p) ==
  IF p.active /\ p.requested
    THEN [p EXCEPT !.requested = FALSE, !.authority = "recover"]
    ELSE [p EXCEPT !.loop = "ending"]

LoopReads(p) == [reads EXCEPT !["recover"] = IF p.active /\ p.requested THEN Waiting ELSE Idle]

RecoveryRefreshed ==
  /\ Answered("recover")
  /\ LET held == HoldsAuthority(page, "recover")
     IN  /\ page' = LoopOn(IF held THEN AskAudit(AuthorityApplied(page, "recover")) ELSE page)
         /\ auditRead' = IF held THEN AuditAsked ELSE auditRead
  /\ reads' = LoopReads(page)
  /\ UNCHANGED <<life, serial, hub, events, srv, clock, used>>

RecoveryFailed ==
  /\ reads["recover"].pc = "wait"
  /\ Fault("rest")
  /\ page' = LoopOn(IF HoldsAuthority(page, "recover") THEN degradeTelemetry(page) ELSE page)
  /\ reads' = LoopReads(page)
  /\ UNCHANGED <<auditRead, life, serial, hub, events, srv, clock>>

\* Mutant: no loop is started for a request that came as the last one ended.
RestartNever(p) == FALSE

\* finally: a request that came as the loop was ending starts another one.
Restart(p) == p.active /\ p.requested

RecoveryEnded ==
  /\ page.loop = "ending"
  /\ LET p == [page EXCEPT !.loop = "idle"]
         q == IF Restart(page) THEN recoverAuthority(p) ELSE p
     IN  page' = q /\ reads' = RecoveryReads(p, q)
  /\ UNCHANGED <<auditRead, life, serial, hub, events, srv, clock, used>>

FallbackWanted(p) == p.active /\ p.fallback

FallbackRefreshed ==
  /\ Answered("fallback")
  /\ reads' = [reads EXCEPT !["fallback"] = Idle]
  /\ page' = IF ~FallbackWanted(page) THEN page
             ELSE LET q == acceptJointState(acceptSession([page EXCEPT !.trusted = TRUE],
                                              reads["fallback"].s), reads["fallback"].j)
                  IN  IF q.fallback THEN setTransportWarning(q, "fallback") ELSE q
  /\ UNCHANGED <<auditRead, life, serial, hub, events, srv, clock, used>>

FallbackFailed ==
  /\ reads["fallback"].pc = "wait"
  /\ Fault("rest")
  /\ reads' = [reads EXCEPT !["fallback"] = Idle]
  /\ page' = IF FallbackWanted(page) THEN degradeTelemetry(page) ELSE page
  /\ UNCHANGED <<auditRead, life, serial, hub, events, srv, clock>>

\* The console's manual read writes the stores without the coordinator.
readCurrent ==
  /\ page.active /\ page.session.conn = "connected" /\ reads["manual"].pc = "idle"
  /\ Spend("manual", MaxManual)
  /\ reads' = [reads EXCEPT !["manual"] = Waiting]
  /\ UNCHANGED <<page, auditRead, life, serial, hub, events, srv, clock>>

ManualRead ==
  /\ Answered("manual")
  /\ reads' = [reads EXCEPT !["manual"] = Idle]
  /\ page' = setJointState(setSession(page, reads["manual"].s), reads["manual"].j)
  /\ UNCHANGED <<auditRead, life, serial, hub, events, srv, clock, used>>

ManualFailed ==
  /\ reads["manual"].pc = "wait"
  /\ Fault("manual")
  /\ reads' = [reads EXCEPT !["manual"] = Idle]
  /\ page' = markTelemetryDegraded(page, "degraded")
  /\ UNCHANGED <<auditRead, life, serial, hub, events, srv, clock>>

\* The device page's refresh decides what to do with the warning, and whether
\* it will read the history, before it waits for its reads: the closure keeps
\* the audit status of the render it was clicked in.
refreshGateway ==
  /\ page.active /\ ~Busy(page) /\ reads["device"].pc = "idle"
  /\ Spend("manual", MaxManual)
  /\ reads' = [reads EXCEPT !["device"] = Waiting]
  /\ page' = [page EXCEPT !.preserve = page.warning # "none" \/ PreserveDegraded(page),
                          !.reaudit = page.audit # "loading"]
  /\ UNCHANGED <<auditRead, life, serial, hub, events, srv, clock>>

\* refreshCommandAudit of the device page: one unnumbered history read.
refreshCommandAudit(p) == IF p.reaudit THEN beginCommandAuditRefresh(p) ELSE p

GatewayRefreshed ==
  LET q == setJointState(setSession(page, reads["device"].s), reads["device"].j)
      p == IF page.preserve THEN markTelemetryDegraded(q, "degraded")
           ELSE setTransportWarning(q, "none")
  IN  /\ Answered("device")
      /\ page' = refreshCommandAudit(p)
      /\ reads' = [reads EXCEPT !["device"] = Idle,
           !["deviceAudit"] = IF page.reaudit THEN Waiting ELSE @]
      /\ UNCHANGED <<auditRead, life, serial, hub, events, srv, clock, used>>

GatewayRefreshFailed ==
  /\ reads["device"].pc = "wait"
  /\ Fault("manual")
  /\ reads' = [reads EXCEPT !["device"] = Idle]
  /\ page' = markTelemetryDegraded(page, "degraded")
  /\ UNCHANGED <<auditRead, life, serial, hub, events, srv, clock>>

DeviceAuditRead ==
  /\ reads["deviceAudit"].pc = "wait"
  /\ \/ page' = replaceCommandHistory(page, srv.log) /\ UNCHANGED used
     \/ page' = failCommandAuditRefresh(page) /\ Fault("manual")
  /\ reads' = [reads EXCEPT !["deviceAudit"] = Idle]
  /\ UNCHANGED <<auditRead, life, serial, hub, events, srv, clock>>

\* The gateway answers a history read with the log as it stands (n entries).
SampleAudit ==
  /\ auditRead.pc = "wait"
  /\ auditRead' = [pc |-> "got", n |-> Len(srv.log)]
  /\ UNCHANGED <<page, reads, life, serial, hub, events, srv, clock, used>>

History(n) == SubSeq(srv.log, 1, n)

AuditRefreshed ==
  /\ auditRead.pc = "got"
  /\ page' = IF page.active THEN replaceCommandHistory(page, History(auditRead.n)) ELSE page
  /\ auditRead' = NoRead
  /\ UNCHANGED <<reads, life, serial, hub, events, srv, clock, used>>

AuditFailed ==
  /\ auditRead.pc = "wait"
  /\ Fault("command")
  /\ page' = IF page.active THEN failCommandAuditRefresh(page) ELSE page
  /\ auditRead' = NoRead
  /\ UNCHANGED <<reads, life, serial, hub, events, srv, clock>>

-----------------------------------------------------------------------------
(* The freshness watchdog.                                                 *)

\* Time passes: the last live frame is old, the next fallback read is due.
TimePasses ==
  /\ "stall" \in Actors /\ page.watchdog /\ (page.live \/ ~page.due)
  /\ page' = [page EXCEPT !.live = FALSE, !.due = TRUE]
  /\ UNCHANGED <<reads, auditRead, life, serial, hub, events, srv, clock, used>>

\* Mutant: only feedback still fresh is watched.
WatchedFresh(p) == p.session.conn = "connected" /\ Fresh(p.joint)

Watched(p) == p.session.conn = "connected" /\ p.joint.source = "measured"

WatchdogTick ==
  /\ page.watchdog /\ page.active
  /\ IF ~Watched(page)
       THEN page' = [page EXCEPT !.live = TRUE] /\ UNCHANGED reads
       ELSE LET p == IF ~page.fallback /\ ~page.live THEN enterTelemetryFallback(page) ELSE page
            IN  IF p.fallback /\ p.due
                  THEN page' = [p EXCEPT !.due = FALSE] /\ reads' = StartFallbackRead
                  ELSE page' = p /\ UNCHANGED reads
  /\ UNCHANGED <<auditRead, life, serial, hub, events, srv, clock, used>>

-----------------------------------------------------------------------------
(* The SignalR channel.                                                    *)

Head1 == Head(events)

OnSession ==
  /\ hub = "up" /\ events # <<>> /\ Head1.type = "session"
  /\ events' = Tail(events)
  /\ IF page.active
       THEN LET changed == identityChanged(page, Head1.v)
                p == acceptSession(page, Head1.v)
            IN  /\ page' = IF changed THEN AskAudit(p) ELSE p
                /\ auditRead' = IF changed THEN AuditAsked ELSE auditRead
       ELSE UNCHANGED <<page, auditRead>>
  /\ UNCHANGED <<reads, life, serial, hub, srv, clock, used>>

LiveTrust(p) == [p EXCEPT !.live = TRUE, !.trusted = TRUE]

OnJointState ==
  /\ hub = "up" /\ events # <<>> /\ Head1.type = "joint"
  /\ events' = Tail(events)
  /\ page' = IF ~page.active THEN page
             ELSE LET p == LiveTrust(page)
                      q == IF p.fallback
                             THEN clearTelemetryFallback(setTransportWarning(p, "none")) ELSE p
                  IN  acceptJointState(q, Head1.v)
  /\ UNCHANGED <<reads, auditRead, life, serial, hub, srv, clock, used>>

OnCommandResult ==
  /\ hub = "up" /\ events # <<>> /\ Head1.type = "result"
  /\ events' = Tail(events)
  /\ IF page.active
       THEN /\ page' = AskAudit(setLastCommandResult(page, Head1.v))
            /\ auditRead' = AuditAsked
       ELSE UNCHANGED <<page, auditRead>>
  /\ UNCHANGED <<reads, life, serial, hub, srv, clock, used>>

\* A payload that fails its schema is dropped and triggers a recovery.
ContractViolation ==
  /\ hub = "up" /\ events # <<>>
  /\ Fault("hub")
  /\ events' = Tail(events)
  /\ IF page.active
       THEN LET p == recoverAuthority(enterTelemetryFallback(page))
            IN  page' = p /\ reads' = RecoveryReads(page, p)
       ELSE UNCHANGED <<page, reads>>
  /\ UNCHANGED <<auditRead, life, serial, hub, srv, clock>>

HubDropped ==
  /\ hub = "up"
  /\ Fault("hub")
  /\ hub' = "reconnecting" /\ events' = <<>>
  /\ page' = IF page.active THEN enterTelemetryFallback(page) ELSE page
  /\ UNCHANGED <<reads, auditRead, life, serial, srv, clock>>

HubReconnected ==
  /\ hub = "reconnecting"
  /\ hub' = "up"
  /\ LET p == IF page.active THEN recoverAuthority(page) ELSE page
     IN  page' = p /\ reads' = RecoveryReads(page, p)
  /\ UNCHANGED <<auditRead, life, serial, events, srv, clock, used>>

HubClosed ==
  /\ hub = "reconnecting"
  /\ Fault("hub")
  /\ hub' = "closed"
  /\ page' = IF page.active THEN enterTelemetryFallback(page) ELSE page
  /\ UNCHANGED <<reads, auditRead, life, serial, events, srv, clock>>

\* What the profile selector asks of the runtime before it lets Dummy go.
SwitchBlocked(p) == p.latched # NoResult \/ p.session.conn # "offline"

\* switchProfile resets the stores; the coordinator's cleanup then silences
\* its handlers, stops the timer and closes the channel.
switchProfile ==
  /\ "leave" \in Actors /\ page.active /\ ~SwitchBlocked(page)
  /\ page' = [resetSession(WithRuntime(page, initialRuntime)) EXCEPT
                !.active = FALSE, !.watchdog = FALSE,
                !.phase = IF @ = "live" THEN "ended" ELSE @]
  /\ hub' = IF page.phase = "live" THEN "closed" ELSE hub
  /\ events' = IF page.phase = "live" THEN <<>> ELSE events
  /\ UNCHANGED <<reads, auditRead, life, serial, srv, clock, used>>

-----------------------------------------------------------------------------
(* Command entries: runGatewayCommandLifecycle and its two callers.        *)

\* The header's STOP asks only for a connection; the supervised joint-group
\* send also for fresh feedback, no warning, a recovered audit and no latch.
StopAvailable(p) == p.active /\ p.session.conn = "connected"

\* Mutant: the mirrored interlock is not asked.
SendUnlatched(p) ==
  /\ p.active /\ p.session.conn = "connected" /\ p.session.validity = "valid"
  /\ p.joint.source = "measured" /\ p.warning = "none" /\ p.audit = "ready"

SendAllowed(p) ==
  /\ p.active /\ p.session.conn = "connected" /\ p.session.validity = "valid"
  /\ p.joint.source = "measured"
  /\ p.warning = "none" /\ p.audit = "ready" /\ p.latched = NoResult

Allowed(e) == IF e = "stop" THEN StopAvailable(page) ELSE SendAllowed(page)

Submit(e) ==
  /\ life[e].pc = "idle" /\ Allowed(e)
  /\ Spend("commands", MaxCommands)
  /\ life' = [life EXCEPT ![e] = [NoLife EXCEPT !.pc = "exec", !.id = used'.commands,
                                                !.sid = page.session.sid]]
  /\ page' = [page EXCEPT !.command = e]
  /\ UNCHANGED <<reads, auditRead, serial, hub, events, srv, clock>>

IsCurrentRefresh(p, e) == p.command = e

\* The header warns of a STOP whose outcome or reconciliation is not clean.
StopWarning(p, e, failed) ==
  IF e = "stop" /\ (failed \/ life[e].r.status # "completed")
    THEN setTransportWarning(p, "degraded") ELSE p

\* The answer: shown always, reconciled only by the newest lifecycle.
Returned(e) ==
  /\ life[e].pc = "exec" /\ life[e].r # NoResult
  /\ LET p == setLastCommandResult(page, life[e].r)
     IN  IF IsCurrentRefresh(page, e)
           THEN /\ page' = beginCommandAuditRefresh(p)
                /\ life' = [life EXCEPT ![e].pc = "settle"]
           ELSE /\ page' = StopWarning(p, e, FALSE)
                /\ life' = [life EXCEPT ![e] = NoLife]
  /\ UNCHANGED <<reads, auditRead, serial, hub, events, srv, clock, used>>

\* The answer is lost: the physical outcome is unknown and is latched so.
AnswerLost(e) ==
  /\ life[e].pc = "exec"
  /\ Fault("command")
  /\ clock' = clock + 1
  /\ LET r == createUnconfirmedTransportResult(life[e].id, life[e].sid, e, clock')
         p == markTelemetryDegraded(setLastCommandResult(page, r), "degraded")
     IN  page' = IF IsCurrentRefresh(page, e) THEN failCommandAuditRefresh(p) ELSE p
  /\ life' = [life EXCEPT ![e] = NoLife]
  /\ UNCHANGED <<reads, auditRead, serial, hub, events, srv>>

\* The two settled reads after a command; FailedRead is a rejected one.
SettleSnapshot(e) ==
  /\ life[e].pc = "settle" /\ life[e].s = NotRead
  /\ \/ life' = [life EXCEPT ![e].s = srv.session, ![e].j = srv.joint] /\ UNCHANGED used
     \/ life' = [life EXCEPT ![e].s = FailedRead, ![e].j = FailedRead] /\ Fault("command")
  /\ UNCHANGED <<page, reads, auditRead, serial, hub, events, srv, clock>>

SettleAudit(e) ==
  /\ life[e].pc = "settle" /\ life[e].n = -1
  /\ \/ life' = [life EXCEPT ![e].n = Len(srv.log)] /\ UNCHANGED used
     \/ life' = [life EXCEPT ![e].n = -2] /\ Fault("command")
  /\ UNCHANGED <<page, reads, auditRead, serial, hub, events, srv, clock>>

SnapshotSettled(p, s, j) ==
  IF s = FailedRead THEN markTelemetryDegraded(p, "degraded")
  ELSE LET q == setJointState(setSession(p, s), j)
       IN  IF PreserveDegraded(p)
             THEN markTelemetryDegraded(q, IF p.warning = "none" THEN "degraded" ELSE p.warning)
             ELSE q

AuditSettled(p, n) ==
  IF n = -2 THEN failCommandAuditRefresh(p) ELSE replaceCommandHistory(p, History(n))

Settled(e) ==
  /\ life[e].pc = "settle" /\ life[e].s # NotRead /\ life[e].n # -1
  /\ page' = IF IsCurrentRefresh(page, e)
               THEN StopWarning(
                      AuditSettled(SnapshotSettled(page, life[e].s, life[e].j), life[e].n),
                      e, life[e].s = FailedRead \/ life[e].n = -2)
               ELSE StopWarning(page, e, FALSE)
  /\ life' = [life EXCEPT ![e] = NoLife]
  /\ UNCHANGED <<reads, auditRead, serial, hub, events, srv, clock, used>>

EditTarget ==
  /\ "edit" \in Actors /\ page.target # "edited"
  /\ page' = setJointTarget(page)
  /\ UNCHANGED <<reads, auditRead, life, serial, hub, events, srv, clock, used>>

-----------------------------------------------------------------------------
(* The serial session control: one operation at a time.                    *)

Connect ==
  /\ page.active /\ ~Busy(page) /\ page.session.conn = "offline" /\ serial.connect.pc = "idle"
  /\ srv.opened < Len(SessionIds)
  /\ page' = beginSerialSessionOperation(page, "connecting")
  /\ serial' = [serial EXCEPT !.connect.pc = "sent"]
  /\ UNCHANGED <<reads, auditRead, life, hub, events, srv, clock, used>>

Connected ==
  /\ serial.connect.pc = "answered"
  /\ LET s == serial.connect.s
     IN  page' = setSession(beginHardwareSession(completeSerialSessionOperation(page), s.sid), s)
  /\ serial' = [serial EXCEPT !.connect = NoSerial]
  /\ UNCHANGED <<reads, auditRead, life, hub, events, srv, clock, used>>

\* Refused, or the answer was lost: ask the gateway what happened.
ConnectFailed ==
  /\ \/ serial.connect.pc = "refused" /\ UNCHANGED used
     \/ serial.connect.pc = "answered" /\ Fault("serial")
  /\ page' = failSerialSessionOperation(page)
  /\ serial' = [serial EXCEPT !.connect = [pc |-> "check", s |-> NotRead]]
  /\ UNCHANGED <<reads, auditRead, life, hub, events, srv, clock>>

\* The device page's connectGateway does not ask: the outcome is unknown.
ConnectGatewayFailed ==
  /\ \/ serial.connect.pc = "refused" /\ UNCHANGED used
     \/ serial.connect.pc = "answered" /\ Fault("serial")
  /\ page' = markTelemetryDegraded(failSerialSessionOperation(page), "degraded")
  /\ serial' = [serial EXCEPT !.connect = NoSerial]
  /\ UNCHANGED <<reads, auditRead, life, hub, events, srv, clock>>

ConnectSampled ==
  /\ serial.connect.pc = "check" /\ serial.connect.s = NotRead
  /\ serial' = [serial EXCEPT !.connect.s = srv.session]
  /\ UNCHANGED <<page, reads, auditRead, life, hub, events, srv, clock, used>>

ConnectChecked ==
  /\ serial.connect.pc = "check"
  /\ \/ /\ serial.connect.s # NotRead
        /\ page' = setSession(page, serial.connect.s) /\ UNCHANGED used
     \/ page' = markTelemetryDegraded(page, "degraded") /\ Fault("serial")
  /\ serial' = [serial EXCEPT !.connect = NoSerial]
  /\ UNCHANGED <<reads, auditRead, life, hub, events, srv, clock>>

Disconnect ==
  /\ page.active /\ ~Busy(page) /\ page.session.conn # "offline" /\ serial.disconnect.pc = "idle"
  /\ Spend("disconnects", MaxDisconnects)
  /\ page' = beginSerialSessionOperation(page, "disconnecting")
  /\ serial' = [serial EXCEPT !.disconnect.pc = "sent"]
  /\ UNCHANGED <<reads, auditRead, life, hub, events, srv, clock>>

\* The operation is over; its caller still fetches the joint state.
Disconnected ==
  /\ serial.disconnect.pc = "answered"
  /\ page' = completeSerialSessionOperation(page)
  /\ serial' = [serial EXCEPT !.disconnect.pc = "joint"]
  /\ UNCHANGED <<reads, auditRead, life, hub, events, srv, clock, used>>

DisconnectFailed ==
  /\ serial.disconnect.pc = "answered"
  /\ Fault("serial")
  /\ page' = markTelemetryDegraded(failSerialSessionOperation(page), "degraded")
  /\ serial' = [serial EXCEPT !.disconnect = NoSerial]
  /\ UNCHANGED <<reads, auditRead, life, hub, events, srv, clock>>

\* The joint state was sampled now or before a new session's first frame.
DisconnectCompleted ==
  /\ serial.disconnect.pc = "joint"
  /\ \/ \E j \in {srv.joint, unavailableJoint} :
          page' = completeDisconnect(page, serial.disconnect.s, j) /\ UNCHANGED used
     \/ page' = completeDisconnect(page, serial.disconnect.s, showcaseJointFrame) /\ Fault("serial")
  /\ serial' = [serial EXCEPT !.disconnect = NoSerial]
  /\ UNCHANGED <<reads, auditRead, life, hub, events, srv, clock>>

-----------------------------------------------------------------------------
(* The gateway, as this client meets it (RobotGateway models it in full).  *)

Sent(e) == [type |-> e[1], v |-> e[2]]

Publish(es) ==
  LET q == events \o [i \in DOMAIN es |-> Sent(es[i])]
  IN  events' = IF hub # "up" THEN events
                ELSE SubSeq(q, IF Len(q) > QueueLimit THEN Len(q) - QueueLimit + 1 ELSE 1, Len(q))

SrvConnect ==
  /\ serial.connect.pc = "sent"
  /\ \/ /\ srv.session.conn = "offline" /\ srv.opened < Len(SessionIds)
        /\ LET s == [sid |-> SessionIds[srv.opened + 1], conn |-> "connected",
                     source |-> "measured", validity |-> "stale"]
           IN  /\ srv' = [srv EXCEPT !.session = s, !.opened = @ + 1]
               /\ serial' = [serial EXCEPT !.connect = [pc |-> "answered", s |-> s]]
               /\ Publish(<<<<"session", s>>>>)
     \/ /\ serial' = [serial EXCEPT !.connect.pc = "refused"]
        /\ UNCHANGED <<srv, events>>
  /\ UNCHANGED <<page, reads, auditRead, life, hub, clock, used>>

SrvDisconnect ==
  /\ serial.disconnect.pc = "sent"
  /\ srv' = [srv EXCEPT !.session = offlineSession, !.joint = unavailableJoint]
  /\ serial' = [serial EXCEPT !.disconnect = [pc |-> "answered", s |-> offlineSession]]
  /\ Publish(<<<<"session", offlineSession>>, <<"joint", unavailableJoint>>>>)
  /\ UNCHANGED <<page, reads, auditRead, life, hub, clock, used>>

\* One polling cycle: fresh status and a fresh measured pose.
SrvPoll ==
  /\ srv.session.conn = "connected"
  /\ LET s == [srv.session EXCEPT !.validity = "valid"]
         j == [source |-> "measured", validity |-> "valid", pose |-> s.sid]
     IN  /\ srv' = [srv EXCEPT !.session = s, !.joint = j]
         /\ Publish(<<<<"session", s>>, <<"joint", j>>>>)
  /\ UNCHANGED <<page, reads, auditRead, life, serial, hub, clock, used>>

SrvFault ==
  /\ srv.session.conn = "connected"
  /\ Fault("serial")
  /\ LET s == [srv.session EXCEPT !.conn = "faulted", !.source = "unavailable",
                                  !.validity = "invalid"]
     IN  /\ srv' = [srv EXCEPT !.session = s, !.joint = unavailableJoint]
         /\ Publish(<<<<"session", s>>, <<"joint", unavailableJoint>>>>)
  /\ UNCHANGED <<page, reads, auditRead, life, serial, hub, clock>>

Outcomes(e) == IF e = "stop" THEN {"completed", "uncertain"}
               ELSE {"completed", "uncertain", "interlocked"}

SrvExecute(e) ==
  /\ life[e].pc = "exec" /\ life[e].r = NoResult
  /\ clock' = clock + 1
  /\ IF srv.session.conn = "connected" /\ srv.session.sid = life[e].sid
       THEN \E o \in Outcomes(e) :
              LET r == [id |-> life[e].id, sid |-> life[e].sid, kind |-> e,
                        status |-> o, ts |-> clock']
              IN  /\ life' = [life EXCEPT ![e].r = r]
                  /\ srv' = [srv EXCEPT !.log = Append(@, r)]
                  /\ Publish(<<<<"result", r>>>>)
       ELSE /\ life' = [life EXCEPT ![e].r = [id |-> life[e].id, sid |-> life[e].sid, kind |-> e,
                                              status |-> "rejected", ts |-> clock']]
            /\ UNCHANGED <<srv, events>>
  /\ UNCHANGED <<page, reads, auditRead, serial, hub, used>>

-----------------------------------------------------------------------------

Requests ==
  \/ \E r \in Readers : SampleSession(r) \/ SampleJoint(r)
  \/ StartRefreshed \/ StartFailed \/ RecoveryRefreshed \/ RecoveryFailed \/ RecoveryEnded
  \/ FallbackRefreshed \/ FallbackFailed \/ readCurrent \/ ManualRead \/ ManualFailed
  \/ refreshGateway \/ GatewayRefreshed \/ GatewayRefreshFailed \/ DeviceAuditRead
  \/ SampleAudit \/ AuditRefreshed \/ AuditFailed

Channel ==
  \/ HubOpened \/ HubOpenFailed \/ HubDropped \/ HubReconnected \/ HubClosed
  \/ OnSession \/ OnJointState \/ OnCommandResult \/ ContractViolation
  \/ TimePasses \/ WatchdogTick \/ switchProfile

Commands ==
  \/ EditTarget
  \/ \E e \in Entries :
       Submit(e) \/ Returned(e) \/ AnswerLost(e) \/ SettleSnapshot(e) \/ SettleAudit(e)
       \/ Settled(e) \/ SrvExecute(e)

Serial ==
  \/ Connect \/ Connected \/ ConnectFailed \/ ConnectGatewayFailed
  \/ ConnectSampled \/ ConnectChecked
  \/ Disconnect \/ Disconnected \/ DisconnectFailed \/ DisconnectCompleted
  \/ SrvConnect \/ SrvDisconnect \/ SrvPoll \/ SrvFault

Next == Requests \/ Channel \/ Commands \/ Serial

\* Requests are answered or time out, queued events are delivered, timers
\* fire and the gateway keeps polling.  The operator and faults owe nothing.
Fairness ==
  /\ \A r \in Readers : WF_vars(SampleSession(r)) /\ WF_vars(SampleJoint(r))
  /\ WF_vars(StartRefreshed) /\ WF_vars(RecoveryRefreshed) /\ WF_vars(RecoveryEnded)
  /\ WF_vars(FallbackRefreshed) /\ WF_vars(ManualRead \/ GatewayRefreshed \/ DeviceAuditRead)
  /\ WF_vars(SampleAudit) /\ WF_vars(AuditRefreshed)
  /\ WF_vars(HubOpened) /\ WF_vars(HubReconnected)
  /\ WF_vars(OnSession \/ OnJointState \/ OnCommandResult)
  /\ WF_vars(TimePasses) /\ WF_vars(WatchdogTick)
  /\ \A e \in Entries : /\ WF_vars(SrvExecute(e)) /\ WF_vars(Returned(e))
                        /\ WF_vars(SettleSnapshot(e)) /\ WF_vars(SettleAudit(e))
                        /\ WF_vars(Settled(e))
  /\ WF_vars(SrvConnect) /\ WF_vars(SrvDisconnect)
  /\ WF_vars(Connected \/ ConnectFailed) /\ WF_vars(ConnectSampled) /\ WF_vars(ConnectChecked)
  /\ WF_vars(Disconnected) /\ WF_vars(DisconnectCompleted)
  /\ WF_vars(SrvPoll)

Spec == Init /\ [][Next]_vars
FairSpec == Spec /\ Fairness
-----------------------------------------------------------------------------
(* Properties.                                                             *)

\* Type invariant of the page, the requests and the channel.
WebTypeOK ==
  /\ page.audit \in {"unavailable", "loading", "ready", "error"}
  /\ page.op \in {"idle", "connecting", "disconnecting", "error"}
  /\ page.authority \in {"none", "start", "recover"}
  /\ page.loop \in {"idle", "run", "ending"}
  /\ page.phase \in {"authority", "opening", "live", "ended"}
  /\ \A r \in Readers : reads[r].pc \in {"idle", "wait"}
  /\ auditRead.pc \in {"idle", "wait", "got"} /\ auditRead.n \in 0..Len(srv.log)
  /\ hub \in {"none", "up", "reconnecting", "closed"}
  /\ Len(events) <= QueueLimit

\* The mirrored interlock does not depend on the order in which answers,
\* events and replayed histories reach the store, nor on duplicates: it is
\* the newest uncertain result shown for this session that no confirmed STOP
\* is as new as, and the watermark is the newest confirmed STOP
\* (commandSafety.ts reduceCommandSafetyState).
LatchIsNewestUnresolved ==
  LET stops == {r.ts : r \in {x \in page.seen : ConfirmedStop(x)}}
      open  == {r \in page.seen : isSafetyLatchedResult(r) /\ \A t \in stops : r.ts > t}
  IN  /\ \A t \in stops : t <= page.stopTs
      /\ IF open = {} THEN page.latched = NoResult
         ELSE page.latched \in open /\ \A r \in open : r.ts <= page.latched.ts

\* No motion is submitted while any result the page was shown for this
\* session, by an answer, an event or a history, left the physical outcome
\* uncertain and no STOP was confirmed since.
MotionGated ==
  [][\A r \in page.seen :
       (life["move"].pc = "idle" /\ life'["move"].pc = "exec" /\ isSafetyLatchedResult(r))
         => \E x \in page.seen : ConfirmedStop(x) /\ x.ts >= r.ts]_vars

\* The audit never stays in loading: superseded reads leave it to the newest
\* one, lifecycles and coordinator alike.
AuditSettles == (page.audit = "loading") ~> (page.audit # "loading" \/ ~page.active)

\* A recovery asked for while one is running is not lost.
RecoveryNotLost == page.requested ~> (~page.requested \/ ~page.active)

\* A page that fell back to REST reads regains trust, or finds the session gone.
DegradedRecovers ==
  LET Shown == page.session.conn = "connected" /\ page.joint.source = "measured"
  IN  (page.active /\ page.fallback /\ ~page.trusted /\ Shown)
        ~> (page.trusted \/ ~Shown \/ ~page.active)

\* A page that left does not leak its channel, even one still opening.
HubReleased == (~page.active) ~> (hub = "closed" \/ page.phase = "ended")

\* The control never shows an operation that nobody is carrying out.
NoStuckOperation ==
  /\ page.op = "connecting" => serial.connect.pc \in {"sent", "answered", "refused"}
  /\ page.op = "disconnecting" => serial.disconnect.pc \in {"sent", "answered"}

\* The answer to a connect may arrive after the session's event, its first
\* frame and an edit by the operator: measured feedback of that hardware
\* session then leaves the edited target alone (useRobotSessionStore.ts
\* beginHardwareSession). It is about one hardware session: a snapshot that was
\* read in a session since left begins that session again when it arrives, and
\* aligns the target with it.
EditSurvives ==
  [][(page.target = "edited" /\ page'.target \notin {"edited", "showcase"})
       => page'.hw # page.editedIn]_vars
=============================================================================
