----------------------------- MODULE WireSchema -----------------------------
(***************************************************************************)
(* What the gateway serves and what the browser admits: the capabilities,   *)
(* the command audit and the direct results, built by RobotGateway.cs from *)
(* options that the host validates, and checked field by field by the      *)
(* schemas of httpRobotGateway.ts.  A list is one answer: one record that a *)
(* schema refuses makes the whole read fail.  The two sides were written   *)
(* apart, with the same bounds twice.  A text is its length, a list of     *)
(* payloads its count.                                                     *)
(***************************************************************************)
EXTENDS Integers, Sequences, FiniteSets

CONSTANTS
  HostSettings,     \* what the environment configures, acceptable or not
  CommandSpecs,     \* structured commands that arrive
  DirectRequests,   \* direct commands that arrive
  MaxServed         \* bound: answers of one behaviour

VARIABLES
  host,          \* the settings the gateway started with
  auditEntry,    \* the entry of the command, or NoEntry
  directEntry,   \* the result of the direct request, or NoEntry
  served,        \* the last answer
  servings       \* answers served so far

wireVars == <<host, auditEntry, directEntry, served, servings>>

Null == 0 - 1            \* a JSON null in a field of numbers
NoEntry == [none |-> TRUE]

CommandKinds == {"enable", "stopAndDisable", "home", "reset", "setMode", "jointGroup"}
CommandStatuses == {"unsupported", "rejected", "accepted", "completed", "failed", "timedOut",
                    "cancelled", "unconfirmed"}

\* CommandSpec.From: what a command of each kind carries once it is parsed.
CommandShape(c) ==
  /\ c.kind \in CommandKinds /\ c.commandId \in Nat /\ c.sessionId \in Nat
  /\ c.mode # Null <=> c.kind = "setMode"
  /\ c.positions \in Nat \cup {Null}
  /\ c.kind # "jointGroup" => c.positions = Null /\ c.speed = Null

ASSUME WireAssumption ==
  /\ MaxServed \in Nat
  /\ \A c \in CommandSpecs : CommandShape(c)
  /\ \A r \in DirectRequests : r.requestId \in Nat /\ r.sessionId \in Nat /\ r.line \in Nat

-----------------------------------------------------------------------------
(* The gateway: its host's validation and the messages it builds.          *)

\* The envelope of joint-group motion is configured whole or not at all.
HostAccepts(h) ==
  LET envelope == {h.speedLimit, h.tolerance, h.settled, h.timeout}
  IN  /\ h.policy \in {"disabled", "supervised", "engineering"}
      /\ h.policy = "supervised" => h.desktop
      /\ h.policy = "engineering" => ~h.desktop
      /\ envelope = {Null} \/ Null \notin envelope
      /\ h.speedLimit # Null =>
           /\ h.speedLimit > 0 /\ h.tolerance \in 1 .. 500
           /\ h.settled \in Nat /\ 100 <= h.settled /\ h.settled <= 5000
           /\ 500 <= h.timeout /\ h.timeout <= 120000 /\ h.timeout > h.settled

HardwareEnabled == host.policy # "disabled"
EngineeringEnabled == host.policy = "engineering"

Completion(h) ==
  [positionToleranceDeg |-> h.tolerance, settledDurationMs |-> h.settled, timeoutMs |-> h.timeout]

\* Mutant: joint groups are advertised with or without their envelope.
SupportedUnlimited ==
  IF HardwareEnabled THEN {"enable", "stopAndDisable", "setMode", "jointGroup"} ELSE {}

SupportedCommands ==
  IF ~HardwareEnabled THEN {}
  ELSE {"enable", "stopAndDisable", "setMode"}
         \cup (IF host.speedLimit = Null THEN {} ELSE {"jointGroup"})

GatewayCapabilities ==
  [hardwareCommands |-> HardwareEnabled, directCommand |-> EngineeringEnabled,
   commandPolicy |-> IF EngineeringEnabled THEN "engineering"
                     ELSE IF HardwareEnabled THEN "supervised" ELSE "disabled",
   supportedCommands |-> SupportedCommands,
   jointGroupSpeedLimitDegS |-> host.speedLimit,
   jointGroupCompletion |-> Completion(host),
   engineeringJointSpeedMaxDegS |-> IF EngineeringEnabled THEN 100 ELSE Null]

\* No entry is made for a command without a proper identity.
ValidateCommandIdentity(c) ==
  c.commandId \in 1 .. 128 /\ c.sessionId \in 1 .. 128 /\ c.profileId = "dummy-6dof"

CommandEntry(c) == [spec |-> c, payloads |-> 0, truncated |-> FALSE, status |-> "accepted"]

RecordCommandTransmission(e) ==
  IF e.payloads < 32 THEN [e EXCEPT !.payloads = @ + 1] ELSE [e EXCEPT !.truncated = TRUE]

\* At most six positions are kept, with the count that was sent.
ToRequestSnapshot(c) ==
  [commandKind |-> c.kind, mode |-> c.mode,
   positionsDeg |-> IF c.positions = Null THEN Null ELSE IF c.positions > 6 THEN 6 ELSE c.positions,
   positionsCount |-> c.positions, speedDegS |-> c.speed, payloadTruncated |-> c.positions > 6]

ToAuditRecord(e) ==
  LET c == e.spec
  IN  [commandId |-> c.commandId, sessionId |-> c.sessionId, profileId |-> c.profileId,
       commandKind |-> c.kind, request |-> ToRequestSnapshot(c),
       transmittedPayloads |-> e.payloads, transmissionLogTruncated |-> e.truncated,
       result |-> [commandId |-> c.commandId, sessionId |-> c.sessionId, commandKind |-> c.kind,
                   status |-> e.status]]

\* An identifier is cut to 128 characters, and an empty one replaced.
NormalizeDirectIdentifier(n) == IF n = 0 THEN 15 ELSE IF n > 128 THEN 128 ELSE n
NormalizeRejectedDirectLine(n) == IF n > 255 THEN 255 ELSE n
IsValidDirectIdentity(r) ==
  r.requestId \in 1 .. 128 /\ r.sessionId \in 1 .. 128 /\ r.profileId = "dummy-6dof"

DirectResult(r, status, evidence, line, reply) ==
  [requestId |-> NormalizeDirectIdentifier(r.requestId),
   sessionId |-> NormalizeDirectIdentifier(r.sessionId),
   status |-> status, evidence |-> evidence, normalizedLine |-> line, deviceReply |-> reply]

-----------------------------------------------------------------------------
(* The browser: the schemas.                                               *)

jointGroupCompletionSchema(c) ==
  /\ c.positionToleranceDeg \in 1 .. 500
  /\ c.settledDurationMs \in Nat
  /\ 100 <= c.settledDurationMs /\ c.settledDurationMs <= 5000
  /\ 500 <= c.timeoutMs /\ c.timeoutMs <= 120000
  /\ c.timeoutMs > c.settledDurationMs

capabilitiesSchema(c) ==
  LET limited == c.jointGroupSpeedLimitDegS # Null
      completes == c.jointGroupCompletion.timeoutMs # Null
      direct == c.directCommand \/ c.engineeringJointSpeedMaxDegS # Null
  IN  /\ c.supportedCommands \subseteq CommandKinds
      /\ limited => c.jointGroupSpeedLimitDegS > 0
      /\ completes => jointGroupCompletionSchema(c.jointGroupCompletion)
      /\ c.engineeringJointSpeedMaxDegS \in {Null} \cup 1 .. 100
      /\ c.commandPolicy = "disabled" =>
           ~c.hardwareCommands /\ c.supportedCommands = {} /\ ~direct
      /\ c.commandPolicy = "supervised" => c.hardwareCommands /\ ~direct
      /\ c.commandPolicy = "engineering" =>
           /\ c.hardwareCommands /\ c.directCommand
           /\ c.engineeringJointSpeedMaxDegS # Null
      /\ limited <=> completes
      /\ "jointGroup" \in c.supportedCommands => limited /\ completes

directCommandResultSchema(r) ==
  /\ r.requestId \in 1 .. 128 /\ r.sessionId \in 1 .. 128 /\ r.normalizedLine <= 255
  /\ r.status \in {"queued", "sent", "rejected", "expired", "superseded", "cancelled", "failed"}
  /\ r.status = "queued" => r.evidence = "gatewayAccepted"
  /\ (r.status = "sent") <=> (r.evidence = "transportWritten")
  /\ r.status \in {"queued", "sent"} => ~r.deviceReply

commandRequestSnapshotSchema(s) ==
  CASE s.commandKind \in {"enable", "stopAndDisable", "home", "reset"} ->
         /\ s.mode = Null /\ s.positionsDeg = Null /\ s.positionsCount = Null
         /\ s.speedDegS = Null /\ ~s.payloadTruncated
    [] s.commandKind = "setMode" ->
         /\ s.mode # Null /\ s.positionsDeg = Null /\ s.positionsCount = Null
         /\ s.speedDegS = Null /\ ~s.payloadTruncated
    [] OTHER ->
         /\ s.mode = Null /\ ((s.positionsDeg = Null) <=> (s.positionsCount = Null))
         /\ s.positionsDeg # Null =>
              /\ s.positionsDeg = IF s.positionsCount > 6 THEN 6 ELSE s.positionsCount
              /\ s.payloadTruncated <=> s.positionsCount > 6

commandAuditSchema(a) ==
  /\ a.commandId >= 1 /\ a.sessionId >= 1 /\ a.profileId = "dummy-6dof"
  /\ a.commandKind \in CommandKinds /\ a.result.status \in CommandStatuses
  /\ commandRequestSnapshotSchema(a.request)
  /\ a.transmittedPayloads <= 32
  /\ a.commandKind = a.request.commandKind /\ a.commandKind = a.result.commandKind
  /\ a.commandId = a.result.commandId /\ a.sessionId = a.result.sessionId

-----------------------------------------------------------------------------
\* Bounds: one command or one direct request, which share no state, and
\* nothing after the last answer.
Unasked == servings < MaxServed /\ auditEntry = NoEntry /\ directEntry = NoEntry
InFlight == servings < MaxServed

WireInit ==
  /\ host \in {h \in HostSettings : HostAccepts(h)}
  /\ auditEntry = NoEntry /\ directEntry = NoEntry
  /\ served = [kind |-> "none"] /\ servings = 0

Serve(kind, body) ==
  servings < MaxServed /\ servings' = servings + 1 /\ served' = [kind |-> kind, body |-> body]

ServeCapabilities ==
  Serve("capabilities", GatewayCapabilities) /\ UNCHANGED <<host, auditEntry, directEntry>>

\* A command with an identity gets its entry; without, an answer and no entry.
AdmitCommand(c) ==
  /\ Unasked /\ ValidateCommandIdentity(c)
  /\ auditEntry' = CommandEntry(c)
  /\ UNCHANGED <<host, directEntry, served, servings>>

\* The command in flight writes one more payload.
TransmitPayload ==
  /\ InFlight /\ auditEntry # NoEntry /\ auditEntry.status = "accepted" /\ HardwareEnabled
  /\ ~auditEntry.truncated
  /\ auditEntry' = RecordCommandTransmission(auditEntry)
  /\ UNCHANGED <<host, directEntry, served, servings>>

SettleCommand(status) ==
  /\ InFlight /\ auditEntry # NoEntry /\ auditEntry.status = "accepted" /\ status # "accepted"
  /\ auditEntry' = [auditEntry EXCEPT !.status = status]
  /\ UNCHANGED <<host, directEntry, served, servings>>

ServeAudit ==
  /\ auditEntry # NoEntry
  /\ Serve("audit", ToAuditRecord(auditEntry))
  /\ UNCHANGED <<host, auditEntry, directEntry>>

\* A direct request is turned away at once, in words of the request itself.
RejectDirect(r) ==
  /\ Unasked
  /\ Serve("direct", DirectResult(r, "rejected", "none", NormalizeRejectedDirectLine(r.line), FALSE))
  /\ UNCHANGED <<host, auditEntry, directEntry>>

\* Or it is queued; its line then has the length of a formatted command.
AdmitDirect(r) ==
  /\ Unasked /\ EngineeringEnabled
  /\ IsValidDirectIdentity(r) /\ r.line \in 1 .. 255
  /\ directEntry' = DirectResult(r, "queued", "gatewayAccepted", r.line, FALSE)
  /\ UNCHANGED <<host, auditEntry, served, servings>>

\* The write observer, the refused ticket, or the end of the queued write.
UpdateDirectCommandResult(status, evidence, reply) ==
  /\ InFlight /\ directEntry # NoEntry
  /\ directEntry' = [directEntry EXCEPT !.status = status, !.evidence = evidence,
                                        !.deviceReply = reply]
  /\ UNCHANGED <<host, auditEntry, served, servings>>

DirectMoves ==
  \/ UpdateDirectCommandResult("sent", "transportWritten", FALSE)
  \/ UpdateDirectCommandResult("rejected", "none", FALSE)
  \/ \E status \in {"expired", "superseded", "cancelled", "failed"}, reply \in BOOLEAN :
       UpdateDirectCommandResult(status, "gatewayAccepted", reply)

ServeDirect ==
  /\ directEntry # NoEntry
  /\ Serve("direct", directEntry)
  /\ UNCHANGED <<host, auditEntry, directEntry>>

WireNext ==
  \/ ServeCapabilities
  \/ \E c \in CommandSpecs : AdmitCommand(c)
  \/ TransmitPayload
  \/ \E s \in CommandStatuses : SettleCommand(s)
  \/ ServeAudit
  \/ \E r \in DirectRequests : RejectDirect(r) \/ AdmitDirect(r)
  \/ DirectMoves
  \/ ServeDirect

WireSpec == WireInit /\ [][WireNext]_wireVars

-----------------------------------------------------------------------------
\* Whatever options the host accepts and whatever commands arrive, the
\* browser admits every capability record, audit record and direct result
\* the gateway serves: no answer leaves the browser without its history
\* (capabilitiesSchema, commandAuditSchema, directCommandResultSchema
\* against GatewayCapabilities, ToAuditRecord, DirectResult).
AnswersAdmitted ==
  CASE served.kind = "capabilities" -> capabilitiesSchema(served.body)
    [] served.kind = "audit" -> commandAuditSchema(served.body)
    [] served.kind = "direct" -> directCommandResultSchema(served.body)
    [] OTHER -> TRUE
=============================================================================
