--------------------------- MODULE GatewayRuntime ---------------------------
(***************************************************************************)
(* The browser's copy of the gateway: the runtime store                    *)
(* (stores/useGatewayRuntimeStore.ts), the command safety reducer it uses  *)
(* (domain/commandSafety.ts) and the operator's target pose                *)
(* (stores/useRobotSessionStore.ts).                                       *)
(*                                                                         *)
(* The stores are synchronous: each of their actions is an operator from   *)
(* page to page, where page is one record holding every field the handlers *)
(* of WebSession read.  Protocol frames and direct results are the business *)
(* of RuntimeCollections, the serial port catalogue that of PortCatalog.   *)
(***************************************************************************)
EXTENDS Integers, Sequences, FiniteSets, SequencesExt

CONSTANT HistoryLimit   \* results kept of a command history (128)

ASSUME HistoryLimitAssumption == HistoryLimit \in Nat \ {0}

-----------------------------------------------------------------------------
(* Results.  "uncertain" stands for unconfirmed, failed and timedOut,      *)
(* "interlocked" for a rejection with code safetyInterlockLatched; a       *)
(* timestamp is a number, 0 is none (the wire schema refuses a result      *)
(* whose timestamp does not parse).                                        *)

NoResult == [id |-> 0, sid |-> "none", kind |-> "none", status |-> "none", ts |-> 0]

isSafetyLatchedResult(r) == r.status \in {"uncertain", "interlocked"}

ConfirmedStop(r) == r.kind = "stop" /\ r.status = "completed"

\* Mutant: the watermark of the confirmed STOP is not consulted.
BehindNoStop(p, r) == FALSE

\* A late result no longer counts once a STOP confirmed at or after it.
BehindStop(p, r) == r.ts <= p.stopTs

\* The mirrored interlock after one more result, in whatever order it came.
reduceCommandSafetyState(p, r) ==
  IF ConfirmedStop(r)
    THEN IF r.ts < p.stopTs THEN p
         ELSE [p EXCEPT !.latched = IF @.ts > r.ts THEN @ ELSE NoResult,
                        !.stopTs = r.ts]
  ELSE IF \/ ~isSafetyLatchedResult(r)
          \/ BehindStop(p, r)
          \/ r.ts < p.latched.ts
    THEN p
  ELSE [p EXCEPT !.latched = r]

\* Replays a history: the entries of the shown session, oldest first.
reconcileCommandSafetyState(p, history) ==
  LET current == IF p.latched # NoResult /\ p.latched.sid # p.session.sid
                   THEN [p EXCEPT !.latched = NoResult, !.stopTs = 0]
                   ELSE p
      after[n \in 0 .. Len(history)] ==
        IF n = 0 THEN current
        ELSE IF history[n].sid = p.session.sid
          THEN reduceCommandSafetyState(after[n - 1], history[n])
        ELSE after[n - 1]
  IN  after[Len(history)]

createUnconfirmedTransportResult(id, sid, kind, now) ==
  [id |-> id, sid |-> sid, kind |-> kind, status |-> "uncertain", ts |-> now]

-----------------------------------------------------------------------------
(* Snapshots.  A pose stands for the six positions and names the session   *)
(* they were measured in.                                                  *)

showcaseSession == [sid |-> "showcase", conn |-> "offline",
                    source |-> "showcase", validity |-> "unavailable"]
showcaseJointFrame == [source |-> "showcase", validity |-> "valid", pose |-> "showcase"]

Closed(s) == s.conn \in {"offline", "faulted"}

Fresh(v) == v.source = "measured" /\ v.validity = "valid"

MarkStale(v) == IF Fresh(v) THEN [v EXCEPT !.validity = "stale"] ELSE v

\* seen is a history variable: the results the store was shown for this session.
initialRuntime == [
  session |-> showcaseSession, joint |-> showcaseJointFrame,
  audit |-> "unavailable", last |-> NoResult, latched |-> NoResult, stopTs |-> 0,
  warning |-> "none", op |-> "idle", seen |-> {}]

\* The fields of two stores in one page.
Beside(p, q) == [f \in DOMAIN p \cup DOMAIN q |-> IF f \in DOMAIN p THEN p[f] ELSE q[f]]

WithRuntime(p, runtime) ==
  [f \in DOMAIN p |-> IF f \in DOMAIN runtime THEN runtime[f] ELSE p[f]]

\* What belongs to a session does not outlive it.
ForgetSession(p) ==
  [p EXCEPT !.last = NoResult, !.latched = NoResult, !.stopTs = 0,
            !.audit = "unavailable", !.seen = {}]

setSession(p, s) ==
  [IF p.session.sid = s.sid THEN p ELSE ForgetSession(p) EXCEPT !.session = s]

setJointState(p, j) == [p EXCEPT !.joint = j]

beginCommandAuditRefresh(p) == [p EXCEPT !.audit = "loading"]

\* Mutant: a failed read of the history is not recorded.
failUnrecorded(p) == p

failCommandAuditRefresh(p) == [p EXCEPT !.audit = "error"]

replaceCommandHistory(p, history) ==
  LET bounded == SubSeq(history, Len(history) - HistoryLimit + 1, Len(history))
      kept    == IF Len(history) > HistoryLimit THEN bounded ELSE history
      own     == {r \in ToSet(kept) : r.sid = p.session.sid}
  IN  [reconcileCommandSafetyState(p, kept) EXCEPT !.audit = "ready",
                                                    !.seen = @ \union own]

shouldReplaceLastResult(current, r) ==
  \/ current = NoResult
  \/ current.id = r.id
  \/ r.ts >= current.ts

\* A result of another session is dropped; the newest one shown is kept.
setLastCommandResult(p, r) ==
  IF r.sid # p.session.sid THEN p
  ELSE [reduceCommandSafetyState(p, r) EXCEPT
          !.last = IF shouldReplaceLastResult(@, r) THEN r ELSE @,
          !.seen = @ \union {r}]

setTransportWarning(p, w) == [p EXCEPT !.warning = w]

beginSerialSessionOperation(p, status) == [p EXCEPT !.op = status]

completeSerialSessionOperation(p) == [p EXCEPT !.op = "idle"]

\* Mutant: a failed operation is left as it is.
failLeftPending(p) == p

failSerialSessionOperation(p) == [p EXCEPT !.op = "error"]

markTelemetryDegraded(p, w) ==
  [p EXCEPT !.warning = w, !.session = MarkStale(@), !.joint = MarkStale(@)]

-----------------------------------------------------------------------------
(* The operator's target.                                                  *)

\* editedIn is a history variable: the hardware session of the last edit.
initialTarget == [target |-> "showcase", hw |-> "none", pending |-> FALSE,
                  editedIn |-> "none"]

\* setJointTarget, alignTarget and loadShowcasePose: the operator decides.
setJointTarget(p) ==
  [p EXCEPT !.target = "edited", !.pending = FALSE, !.editedIn = p.hw]

\* Mutant: a session seen again takes the target anew.
beginAnySession(p, sid) == [p EXCEPT !.hw = sid, !.pending = TRUE]

beginHardwareSession(p, sid) ==
  IF p.hw = sid THEN p ELSE [p EXCEPT !.hw = sid, !.pending = TRUE]

alignTargetFromMeasured(p, sid, pose) ==
  IF p.pending /\ p.hw = sid
    THEN [p EXCEPT !.target = pose, !.pending = FALSE]
    ELSE p

endHardwareSession(p) == [p EXCEPT !.hw = "none", !.pending = FALSE]

resetSession(p) == WithRuntime(p, initialTarget)

\* A disconnect restarts the page's view: stores back to their first state.
completeDisconnect(p, s, j) ==
  [resetSession(WithRuntime(p, initialRuntime)) EXCEPT !.session = s, !.joint = j]
=============================================================================
