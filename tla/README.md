# Aethor Studio V2: a TLA+ verification project

Aethor Studio V2 drives robot arms over a serial port. A Windows desktop shell
starts a local gateway process and shows a web workbench that talks to the
gateway over HTTP and SignalR. The gateway is the only owner of the port: every
byte to the arm goes through one scheduler, one serial session and one
`RobotGateway`. This directory models that path from the bottom up, then the
browser that talks to the gateway and keeps state of its own, checks both with TLC
and proves the safety properties of its parts, for all values of the constants, with
TLAPS: all that the runs check but two.

## 1. Inventory

Paths: `A` = `services/robot-gateway/src/AethorStudioV2.Application`, `W` =
`apps/studio-web/src`, `D` = `apps/studio-desktop/src/AethorStudioV2.Desktop`.

| Part | State | Operations | Hard behaviour | What makes it correct |
|---|---|---|---|---|
| Scheduler, `A/SerialDuplexScheduler.cs` | four priority queues, depth, pending ids, fence, wake token, receive queue, stop flags | `QueueWrite`, reader/dispatcher/writer tasks, fault, `DisposeAsync` | lock-free hand-off of a superseded ticket, parked writer, three tasks and a disposer stopping each other, retry while STOP waits | every ticket completed exactly once; STOP always admitted and written within a bound; fences respected; stopping ends |
| Serial session, `A/DummySerialSession.cs` | the response lease, write metadata, line decoder | `TransactAsync`, `QueueUnobserved`, chunk handler, monitor, `DisposeAsync` | untagged replies, preemption by STOP, late replies, cancellation in every phase | no lease or fence left behind; a reply reaches only a begun transaction; STOP gets past a hung one |
| Gateway, `A/RobotGateway.cs` | session snapshot, joint frame, active transport, lifecycle gate, command audit, arbitration, interlock | connect, disconnect, shutdown, dispose, poll loop, structured commands, direct commands, event pump | snapshot read and written in two steps, STOP against a running command, fault against disconnect, gate against poll task | one command at a time; unknown result locks until a confirmed STOP; each transport closed by exactly one owner; disconnect returns |
| Program runner, `A/ActionProgramRunner.cs` | program, point, evidence | run, cancel, per-point command | cancellation between points, result of a point lost | no point twice, terminal state reached |
| Aethor arm session, `A/AethorArmSerialSession.cs` | motor frames, read-only queries | poll, decode | as the Dummy session | as the Dummy session |
| Transport, `AethorStudioV2.Infrastructure/SerialPortTransport.cs` | port handle, gate | open with abort, read, write, close | abandoned open, write cancelled after the bytes are out | one handle, closed once |
| Protocol codecs, `AethorStudioV2.Domain`, `shared/contracts/src` | decoder buffer | feed, parse, format | records cut at any byte, overlong lines | incremental decoder = decoding the whole |
| Host, `AethorStudioV2.Api` | none of its own | HTTP/SignalR endpoints, shutdown policy | shutdown refused unless disabled | as the gateway |
| Web session and commands, `W/integrations`, `W/stores`, `W/domain/commandSafety.ts` | snapshots, trust, safety latch, bounded histories | refresh, events, submit, recover, connect, disconnect | answers out of order, superseded refreshes, reconnect, page left while awaiting | the latch is the newest unresolved result; trust comes back; no operation is shown that nobody carries out |
| Action editor, `W/stores/useActionProgramStore.ts`, `W/domain/actionProgram.ts` | draft, saved library, local storage | edit, save, import, reload | storage written by another version or damaged | a reload restores the library; revisions grow |
| Signals and twin telemetry, `W/domain`, `W/integrations/AethorTwin*` | ring of samples, chart, latest frame per node | ingest, evict, commit, expire, redraw | wrap and eviction, reboots, delayed frames, hidden page | the ring is a window; nothing old is shown as new; loss is shown |
| Scene, `W/components/visualization` | loads, tracked resources, camera, drag | mount, load, fail, retry, frame, drag | loads that outlive their mount, context loss | everything released once; the screen catches up |
| Packages, terminal, ports, bridge, `W/pages`, `W/domain/profilePackage.ts` | inspection in flight, frames and results, port catalogue, pending requests | inspect, send, clear, refresh, choose, export | overlapping inspections, timeouts, results of an older request | what is shown belongs to what was asked last |
| Contract machines and codecs, `shared/contracts/src` | session and command records; line buffers | transition, format, parse, feed | events in any order, lines cut anywhere, rounding, the gateway's own parser | claims need a witness; both ends read the same |
| Desktop supervisor, `D/GatewayProcessSupervisor.cs` and policies | process, recovery state | start, ready, exit, restart offline, shutdown | exit before the handler is attached, lost shutdown answer | the window can always be closed safely, one recovery |
| Everything else | profiles, layout, probes, scripts | rendering and I/O | - | - |

Calls go down (web -> host -> gateway -> session -> scheduler -> port); replies come
back through the scheduler's dispatcher, which runs the session's chunk handler and
the gateway's observer. The shared state that two of them touch is the response
lease, the fence of a written request and the session snapshot.
`PROJECT.json` lists every part with its status and every hazard with its line.

## 2. Modules

| Module | Models | Built on |
|---|---|---|
| `SerialScheduler` | `SerialDuplexScheduler`: one action per critical section or await | - |
| `WriteTickets` | what `QueueWrite` promises a caller (abstract) | - |
| `SerialSchedulerProofs` | theorems | `SerialScheduler`, `WriteTickets` |
| `ReplyTurns` | what `TransactAsync` promises a caller (abstract) | - |
| `DummySession` | `DummySerialSession` composed with the scheduler, all locks and fences | `SerialScheduler`, `ReplyTurns` |
| `DummySessionProofs` | theorems | `DummySession`, `SerialSchedulerProofs` |
| `RobotGateway` | sessions, poll loop, supervised commands, interlock and audit, with a coarse line instead of `DummySession`, and the arm | `Selections` |
| `RobotGatewayProofs` | theorems | `RobotGateway`, `SetInduction` |
| `GatewayRuntime`, `WebSession` | the stores one page shares (operators on a page record), and the coordinator, channel, command lifecycle, serial control and pages that change them, against a gateway reduced to what a client meets | - |
| `WebSessionProofs` | theorems | `WebSession`, `SetInduction` |
| `ActionLibrary` | the action editor, its validation, library and storage | - |
| `SignalHistory`, `TwinFrames` | the ring of samples and its chart; twin frames, motor state and expiry | - |
| `TelemetryProofs` | theorems | `SignalHistory`, `TwinFrames`, `SetInduction` |
| `SceneLifecycle` | loads, disposal, camera and drags of the 3D scene | - |
| `PackageInspection` | the validator of profile packages and overlapping inspections | `Selections` |
| `PackageProofs` | theorems | `PackageInspection`, `SetInduction` |
| `RuntimeCollections` | protocol frames, direct results and the terminal | `Selections` |
| `LineDecoders`, `AsciiCodec` | both incremental decoders against the whole stream; formatting, validating and parsing of both line protocols, the gateway's parser included | `LineDecoders`: `Selections` |
| `DesktopBridge`, `PortCatalog` | requests to the desktop host; the port catalogue and the chosen port | - |
| `ContractMachines` | `transitionSession`, `transitionCommand` under every order of events | - |
| `WireSchema` | what the gateway serves against what the browser's schemas admit | - |
| `Workbench` | the sum of the twelve models above it, from `ActionLibrary` to `WireSchema` | those |
| `WorkbenchProofs` | theorems about eight of those models | `PortCatalog`, `ContractMachines`, `DesktopBridge`, `SceneLifecycle`, `ActionLibrary`, `WireSchema`, `RuntimeCollections`, `LineDecoders`, `SetInduction` |
| `Selections` | the elements of a sequence at chosen positions, in order: an audit trimmed, a list filtered, a stream without its ends of line | - |
| `SetInduction` | lemmas: induction on a set of naturals, finite sets of positions, what a selection contains | `Selections` |
| `MCSerialScheduler`, `MCDummySession`, `MCRobotGateway`, `MCWebSession`, `MCWorkbench` | instances for TLC | the above |

**SerialScheduler.** `queues`, `queueDepth`, `pendingWorkIds`, `fairScheduleIndex`,
`activeFence`, `writerWake`, `receiveQueue` are the fields of the class; `pc` holds the
place of the three tasks and of the disposer, `posting`/`victim` the `QueueWrite`
calls that have left `queueGate` and still owe a superseded ticket its completion.
`lastFenced`, `bypass` and `overtaken` are history and read by no action. A
timestamp is never modelled: a queue delay that has lapsed is the writer's choice
(`Expire`), and so are transient timeouts.

**WriteTickets** has only tickets and a service that is open, stopping or stopped.
The refinement maps a ticket whose completion the superseding caller still owes to
"superseded", and the service to the `stopping` flag and the writer's end.

**ReplyTurns** knows neither scheduler nor fence nor task: callers take turns, an urgent
one may take a turn away, a record goes to the caller whose turn it is or to nobody, each
record once, and who returns a response was given one in its turn. The refinement maps
the response lease to the turn, the armed leases to the begun lines, and to "spent" every
record that has arrived and is no longer on its way to the session's handler.

**DummySession** extends `SerialScheduler`: every scheduler action is conjoined with
what the session does in the same step, and the session adds the call, lease and
cancellation steps. A chunk stands for one decoded record.

**RobotGateway** keeps each step between two awaits as one action, except that reading
the session snapshot and writing it back are two steps (`ReceiveRecord` /
`ApplyObservedResponse`, `PollStatus` / `MarkStatusCycleValid`, `PollThrew` /
`MarkFeedbackStale`), as they are two locks in the code. A transaction is reduced to
its phases (want the lease, leased, queued, written, ended): lease preemption, the
priority classes, the response fence, the line that stays queued when its caller
leaves, the stopping scheduler and the closing handle are kept, the fair schedule
between interactive and telemetry lines is any order. The STOP chain, Enable,
SetMode and JointGroup are programs of lines (`Program`), their exception handling is
`Thrown`, `Swallowed` and `Confirmed`. Settling of a joint target is any number of
looks at the joints and a deadline. The arm (`Motor`, `Answers`) is external: it
executes a line when it is written and answers in order.

**WebSession** takes the stretch of a handler between two awaits as one action. `page`
is every field of the stores and refs the handlers read; `reads` are the snapshots in
flight, each sampled at the gateway by a step of its own and applied later; `page.reaudit` is the audit status
that the device page's refresh captured when it was rendered and decides by later; `life` is
the life of a command from the click to the settled refreshes, `serial` that of a
connect or disconnect, `events` the undelivered events of the channel (oldest dropped at
`QueueLimit`). The gateway (`Srv*`) opens a session, polls, executes, faults. A result
is its command, session, kind, time and one of completed, uncertain, interlocked.

**Telemetry.** `kept` of `SignalHistory` (every accepted frame) and `shown` and `eras` of
`TwinFrames` (what each group was shown; the boots it has followed) are history that no
action reads.

**Workbench.** The other modules of the browser share no variable and no action, and no
property names two of them, so their steps commute and every behaviour of the product
projects to behaviours of the parts. Their product is therefore explored as their sum:
`part` is chosen in the first state, and the other parts rest. This keeps one run of
some hundred thousand states for twelve questions of the same size.

**SceneLifecycle.** A focus whose targets have no bounds leaves the camera where it is, as
`RobotScene.tsx` returns early: `Measurable` says which focuses have bounds once their models
are there, `owed` which focus the camera has still to reach.

**PackageInspection.** An entry has the size that the directory of the archive declares and
the size it really unpacks to, which the validator checks again after unpacking; either
unpacking may fail; an entry is a directory only if its name ends in '/'.

**AsciiCodec.** A reply is a line of tokens and of the tabs between them, a token is one of
the forms that the two parsers tell apart (a word, digits, a real, a hexadecimal numeral, a
bracketed number, open or closed, a mode name whole or cut). `parseDummyResponseLine` and
`ParseResponseLine` are written with their tests in the order of the code, and both
readings of a line are kept with all their outcomes: unknown, malformed, unsupported mode, and
the exception that `int.Parse` throws on an overlong line of digits. Joint positions have the
six ranges of `DummyJointLimits`. `LargestInt` stands for 2^31 - 1, scaled down; nothing
depends on its value but that it is above every number the protocol uses.

Abstractions of data: a waypoint pose, a package's file sizes, a line's length are
small numbers or classes; a Dummy number is its value, its notation and its width, an
Aethor frame its bytes, with the CRC computed. Search boxes, layout, wording, plotting
and geometry are left out.

## 3. Runs

All bounds are in the .cfg files; names of bounds are marked "bound" where the
constants are declared.

| Run | Instance | Shows |
|---|---|---|
| `scheduler_admission` | 4 requests, capacity 2, one reserved slot, a shared work id, a fenced and a retryable request, failing write | accounting, tickets, reserve, fence, refinement of `WriteTickets` |
| `scheduler_fairness` | reusable interactive and background requests, a safety write | bypass bound of the fair schedule, every ticket completes |
| `scheduler_shutdown` | a safety and a fenced retryable request, one chunk, all six causes of a stop | nothing queued or accepted after the writer's end |
| `session_lease` | a safety and an ordinary transaction, a reply at any time, retry, cancellation | the lease belongs to a live call, refinement of `ReplyTurns`: no reply reaches another call than the one whose line was begun |
| `session_closing` | one transaction, one chunk, all six causes of a stop | no fence is left without somebody to release it |
| `gateway_commands` | one session, two joint commands, one STOP, audit of 1, symmetric joint commands | arbitration, interlock |
| `gateway_lifecycle` | two connections, or one and a joint command at any time of it; one fault, manual disconnects and dispose | ownership of each open port, disconnect returns |
| `gateway_stop_readback` | Enable and STOP, no fault (violation) | the finding below |
| `web_commands` | STOP and a joint-group send, two lost answers or refused reads, a history of 1, a channel of 1 | the latch, its gate, the audit settles (`MaxManual` is 0: no manual reads and no refreshes from the device page) |
| `web_telemetry` | two lost reads or dropped channels, stalls, a page that may leave | recovery, renewed trust, release of the channel |
| `web_serial` | one connect, one disconnect, one manual read, an edit, one lost answer or line fault | no stuck operation, the edited target survives |
| `workbench` | the instances of `MCWorkbench`, one part at a time | the seventeen properties of the parts |

Why the bounds are enough to be interesting: capacity 2 with one reserved slot is
the smallest queue with a full non-safety part, an eviction and a refusal; two
transactions are the smallest set with a preempting and a preempted one; an audit of
one entry with three commands trims on every path, also while its oldest entry
still runs; `ConsecutiveTimeoutLimit` 1 makes one lost reply a polling fault;
`MaxFaults` counts lost lines, error replies, unsupported modes, timers that beat a
reply on its way, expired lines and unplugged cables together. Request names that are
`Reusable` make endless arrivals finite. In the browser a history or a channel of one
entry loses entries as soon as two exist; two faults allow a recovery during a recovery;
the ring of two samples and three sequence numbers wraps and evicts; two boots and
sequence numbers 0..1 allow a reboot and a frame delayed across it; a line limit of 2
with streams of 5 bytes has overlong lines followed by good ones; three requests of the
bridge are one more than its actions. In `gateway_lifecycle` the command may be anywhere
when the session is disconnected - being admitted, waiting for the line, written, settling -
so `CollectRunners` collects it, and it does not end before the transport's disposal reaches
it. The constraint of this run (`LifecycleBound`) cuts off openings and submissions only, and
lets the first connection be always the same one; the one of these steps that is under
fairness, an opening, has another outcome that stays possible (the port is not
listed). The audit of `web_commands` is refreshed by the command lifecycle, by events and by
recoveries; a manual read on top of them is beyond the time of a run. The replies of the
workbench are every line of up to three of eleven tokens, joint positions with too few, too
many or one wrong token, mode acknowledgements cut at every token and inside one, numbers on
both sides of each limit, and a tab in place of each blank; the typed and formatted commands are at
both ends of every joint's range and just beyond them. Each property's mutant breaks it at these bounds.
`CHECK_DEADLOCK FALSE` stands where the system may stop: an idle gateway or page whose
clients are done, or a closed session.

**Finding.** `StopReadback`: an Enable called off while entering `TransactAsync`
can leave `!START` in the queue behind the STOP lines; an older, untagged reply 0 to a
poll query then answers the STOP's own `#GETENABLE`, and STOP is reported as confirmed
with the arm enabled.

Further disagreements are steps of the models without a run of their own.
`ModeConfirmed` of `RobotGateway`: the poll loop's mode of an earlier cycle overwrites one
that a SetMode has just confirmed, and the next SetMode short-circuits on it as completed
without sending anything. `OnJointState` of `WebSession` trusts a live frame delivered
during a recovery, which `docs/architecture.md` has taken as stale. `SendReturns` of
`RuntimeCollections` merges a direct result of the old session after the page emptied its
list for the new one. And the two parsers of replies differ where a reply is evidence of
nothing for the gateway, which is why `CodecAgrees` says of replies: what the gateway takes as
evidence (an acknowledgement, room in the queue, a mode, positions) the contract's
parser reads alike; what that parser takes as evidence the gateway reads alike on a plain
line; and both see the same errors. Outside of it, `ParseResponseLine` and
`parseDummyResponseLine` disagree on a mode acknowledgement that is cut after its number
(unknown for the gateway, malformed for the browser); a tab or a hexadecimal numeral is read by the browser's
`/\s+/` and `Number` and not by the gateway's `Split` and `TryParse`; and a line of digits
that do not fit an `int` is malformed for the browser, while `int.Parse`
(`DummyAsciiProtocol.cs`, line 281) throws inside the session's receive handler and so faults
the session.

**Fairness.** Scheduler: weak fairness of each task, of callers that left the lock and
of the stop sequence - threads and tasks run on. Nothing is assumed of the port: a
read may never return. `FenceLiveSpec` adds that adapters release fences, which
`TransactAsync` does in its finally block. The session's runs check no liveness.
Gateway: weak fairness of poll loops, lines, disconnects and runners (which look
again at their line, their reply or their deadline as long as they run); strong fairness
for the two steps that wait for `lifecycleGate` (`HandlePollingFault`, `DisconnectReturnsTo`),
because a `SemaphoreSlim` hands a release to its oldest waiter. No fairness for clients,
faults, or the race for a free lease between ordinary callers.
Browser: weak fairness of timers, of the continuation of an await whose promise has
settled, of the delivery of a channel that is up, and of the gateway's answers: every
request has a time limit of five seconds, after which it fails. None for operators,
faults, stalls, or the opening of a channel that was closed for good.

## 4. Proofs

Every theorem is about the specification that the runs check, with its constants
left open. The assumption on them is a named ASSUME that TLC evaluates on its instance.

**Scheduler** (`SerialSchedulerProofs`). For every set of requests, every capacity `Validate` admits, every
priority, work id and fence assignment (`RequestAssumption`, `OptionsAssumption`):

- `TypeCorrect`, `NoTicketLost`, `AccountingCorrect`, `ReserveKept`, `NothingAfterWriter`
  (invariants), `SafetyAdmitted`, `FenceHonoured` (action properties), `FairnessBound`;
- `SchedulerImplementsTickets`: the scheduler refines `WriteTickets`.

The properties are not inductive. The invariant is `IInv`: types; `StopInv` (stopping is
set before anything is cancelled or closed, and the writer ends only then); `WriterInv`
(the writer has a write in hand exactly at the places where it works on one);
`FiledInv` (each queued request is filed once, under its own priority, and the depth is
the sum of the lengths); `TicketInv` (a ticket is pending exactly if its request is
queued, in the writer's hand, or owed by a superseding caller) and `IdInv` (pending
ids are the ids of those requests). The queue operations are handled once, by lemmas
on what appending and removing does to the filing (`AppendFiled`, `RemoveFiled`,
`TotalChange`), and the steps by one lemma per kind of action (`CoreEnlist`,
`CoreSupersede`, `CoreTake`, `CoreComplete`, `CoreCancel`, ...). Fences need `FenceInv` (the
last fenced payload is released or still honoured), the bypass bound `BypassInv` (a
waiting priority was passed over at most as often as the schedule position says).

**Session** (`DummySessionProofs`). `SessionRunsScheduler`: with its calls and its lease
the session still behaves as the scheduler, so every theorem above holds of the composed
system. For every assignment of expected replies and cancellable calls
(`SessionAssumption`): `SessionTypeCorrect`, `LeaseAlwaysLive`, `FenceAlwaysReleasable`,
`OneWaiter`, `MetadataKept` (invariants) and `LateRepliesIgnored` (action property).
The invariant `SInv` is `IInv` of the scheduler with `LeaseInv` (who may hold or wait for
the lease), `CallInv` (how far the ticket of a call lets the call be: none has run its
finally block with its own fence closed), `MetaInv` (a write that is still to be observed
has its metadata) and `DisposedInv`. It is needed because what frees a lease or a fence is
a later step of a call, so the proof must know where each call can stand.

`SessionImplementsTurns`: the composed session refines `ReplyTurns`. It needs more than
`SInv`: `TurnInv` (nobody is told anything or given the line before its turn; a call has a
result once it has decided; the lease that the handler reads before it takes the lock
had begun its line) and `RecordInv` (a record is in one place: with the reader, in the
queue, or with the dispatcher), without which a record could be given twice.

**Gateway** (`RobotGatewayProofs`). For any number of sessions and commands, any audit
capacity and timeout limit, hardware commands enabled or not (`GatewayAssumption`):
`OneCommandAtATime`, `InterlockAlwaysHolds` (action property), `TransportAlwaysOwned`.
`CmdInv` links the places of the commands with the holder and the unknown outcomes: a
holder has begun (`HolderBegun`); a command in the audit that runs and was not called off
is the holder (`AdmittedHolds`); an unknown outcome has latched the interlock, or its
command is the holder and about to latch it, unless a STOP called it off
(`UnknownLatches`); an ordinary command past its validation meets only unknown outcomes
that were called off (`ValidatedSafely`), which is what makes the window between
validation and execution harmless; a line is sent only for a running command
(`LineWhileRunning`). `OwnInv` says which of the poll loop, the
disconnect and the connect owns each open handle, and that a connect which holds
`lifecycleGate` sees no active transport.

**Web session** (`WebSessionProofs`). For every list of session identifiers, history and
channel limit, number of commands and faults (`WebSessionAssumption`,
`HistoryLimitAssumption`): `LatchFollowsResults`, `MotionAlwaysGated` (action property),
`OperationAlwaysCarried`. `PageOK` is the key part of `WInv`: the latch is a function of
the *set* of results the page has been shown, whatever the order in which responses,
events and audits brought them and whatever the bounded history has dropped. One lemma per
operation of the stores says that it keeps this, and the steps of the coordinator are
sequences of those operations.

**Telemetry** (`TelemetryProofs`). `RingAlwaysWindow`: for every capacity and age the ring
is the end of the sequence of accepted frames, with wrap, eviction and a new session
(`HistoryIInv`). `TwinAlwaysInOrder`: for every set of node groups and every number of
retired boots that is remembered, nothing is shown out of order within a boot, no boot
comes back after its successor while it is remembered, and every frame is counted once
(`TwinIInv`).

**Packages** (`PackageProofs`). `PackageResultAlwaysCurrent`: what is shown belongs to the
file chosen last. `PackageAlwaysJudged`: for every set of packages a shown verdict is the
right one, where right is said without the validator: a package is sound if its entries
have distinct paths that stay inside, its joints form what a profile admits and its
meshes denote files that it contains (`PackageSound`). The validator is a loop over the
entries, one over the segments of a path with a stack, and counts of joints and groups.
The proof follows them: `ScanInv` says what the entries seen so far have established, by
induction on their number; `StackInv` relates the stack to the path so far by the depth
that each segment reaches, so that a path is refused exactly if it climbs out of the
package (`Resolves`); `JointsAccepted` and `GroupsAccepted` count; `StagesAgree` puts the
two stages together. `VerdictInv` carries what a phase knows of the file from one await to
the next. `PackageFilesAssumption` says only what a package is: its fields have their
types and its meshes are finitely many.

**Action library** (`WorkbenchProofs`). `ReloadAlwaysKeeps` (invariant): a reload would
restore every saved program as it is, but for records broken in storage since;
`RevisionsAlwaysGrow` (action property): a saved program that changes gets a larger
revision.
`LibraryInv` is `SavedInv` (the library is one that saving and hydration let in),
`StoredInv` (storage has every saved program, or a record broken since, and fits the
limits of hydration) and `DocumentInv`. `StoredInv` says more than the property: hydration
takes the newest records as long as there is room, so a reload keeps a program only if
all that is stored fits together. `StorageAssumption` gives the first storage the same: it
was written by the store, whose saves refuse a library that does not fit.

**Other parts of the browser** (`WorkbenchProofs`), each with its own inductive invariant
and assumption: `PortChoiceAlwaysListed`, `ClaimsAlwaysWitnessed`, `BridgeMapsAlwaysAgree`,
`SceneAlwaysReleased`, `AnswersAlwaysAdmitted`, `OperatorAlwaysSees`, `DecodersAlwaysFrame`. The last is the longest: for every stream cut
in any way, each decoder holds its share of the piece after the last end of line
(`DummyHolds`, `ArmHolds`: which fault came first decides what is kept) and has reported
exactly the lines before it (`DecoderIInv`). `AnswersAlwaysAdmitted` does not depend on
which of the listed commands is asked for (`WireAssumption`).

**Lemmas.** Induction with an operator parameter cannot be instantiated by the provers;
`SetInduction` uses induction on a set of naturals instead (`NatSetInduction`) and derives
the counting of positions and the content of a selection from it. That is why the models
filter with `Selected` of `Selections` and not with the recursive `SelectSeq`.

Only model-checked:

- all liveness (`TicketCompletes`, `DisconnectReturns`, `AuditSettles`, `RecoveryNotLost`,
  `DegradedRecovers`, `HubReleased`, `ChartCatchesUp`, `TelemetryLossShown`,
  `SceneCatchesUp`): fairness and ENABLED are beyond the prover;
- `CodecAgrees`: the CRC uses `Bitwise`, which the prover cannot reach;
- `EditSurvives`: it is about one hardware session and the run has one. The first read of
  the page's authority is not sequenced against a disconnect and a new connect: sampled in
  a session since left, it begins that session again when it arrives and aligns the target
  with it. With two elements in `SessionIds` TLC finds the edited target of the second
  session replaced in this way, so the property is no theorem for all constants; it is
  listed among the hazards.

The modules also state properties that no run checks (`RetryBound`, `SafetyLatency`,
`DisposedLast`, `StopTerminates`, the liveness of `DummySession`, `GatewayTypeOK`,
`AuditBounded`, `WebTypeOK`): they are there to be added to a configuration and are not
part of what this project claims. `SessionTypeOK`, `SingleWaiter` and `MetadataPresent` of
`DummySession` are proved and not run.

## 5. Not modelled

Left out of the modelled parts: probe counters, diagnostics, tracing of sent payloads,
validation of pure data, and the write and motion watchdog of direct engineering
commands (`WireSchema` has their admission and results only). `DummySession` does not
repeat a request; `RobotGateway` uses a command identifier once (a repeated one joins the
execution that exists).

Parts left out, with the reason:

- The action program runner and the Aethor arm session: nothing outside their tests
  constructs them. The arm session runs over the scheduler, which is modelled.
- The serial port transport, window placement, logs, single instance: calls of the
  operating system with little state between them. `SerialScheduler` and `RobotGateway`
  let a read, a write or a close fail, time out or hang.
- The desktop supervisor: processes and job objects; its hazard (an exit before the
  handler is attached) is listed in `PROJECT.json`.
- The publisher of the event pump: `WebSession`'s channel drops its oldest event at the
  limit as its queue does.
- Pages, rendering, kinematics, profiles, probes, packaging scripts: data, layout,
  geometry and I/O without an order of steps to get wrong.

## 6. Further work

The gateway's transactions as `ReplyTurns`, which would put the session below `RobotGateway`
without its scheduler; the write path of direct commands over `DummySession`; the supervisor
with recovery and the shutdown policy.
