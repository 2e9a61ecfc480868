--------------------------- MODULE ContractMachines ---------------------------
(***************************************************************************)
(* The two reference state machines of the contracts package: the snapshot *)
(* of a session (shared/contracts/src/sessionStateMachine.ts) and the life *)
(* of a command (commandStateMachine.ts).  Both are pure: an event is      *)
(* applied or refused, and any event may come at any time.  Time stamps    *)
(* and ids are left out.                                                   *)
(***************************************************************************)
EXTENDS Integers

CONSTANT MaxFacts    \* bound: events of a behaviour

ASSUME ContractAssumption == MaxFacts \in Nat

VARIABLES
  session,     \* RobotSessionSnapshot: [connection, motor, mode, source, validity]
  observed,    \* history: [motor, mode] last observed on the open transport
  lifecycle,   \* CommandLifecycleState: [status, evidence]
  delivered,   \* history: events the gateway and the device gave the command
  facts        \* events so far

contractVars == <<session, observed, lifecycle, delivered, facts>>

Unknown == [motor |-> "unknown", mode |-> 0]

\* A snapshot that claims nothing about the device.
Blank(connection, source, validity) ==
  [connection |-> connection, motor |-> "unknown", mode |-> 0,
   source |-> source, validity |-> validity]

createOfflineSession == Blank("offline", "unavailable", "unavailable")

isDummyControlMode(mode) == mode \in 1 .. 3

\* connection states an event is accepted in, and what it makes of them
Accepted ==
  [showcaseLoaded      |-> {"offline"},
   connectRequested    |-> {"offline", "faulted"},
   transportOpened     |-> {"connecting", "reconnecting"},
   statusObserved      |-> {"connected"},
   feedbackStale       |-> {"connected"},
   transportLost       |-> {"connecting", "connected", "reconnecting", "disconnecting"},
   disconnectRequested |-> {"connecting", "connected", "reconnecting", "faulted"},
   transportClosed     |-> {"connecting", "connected", "reconnecting",
                            "disconnecting", "faulted"},
   transportFault      |-> {"offline", "connecting", "connected", "reconnecting",
                            "disconnecting", "faulted"}]

SessionEvents ==
  {[type |-> t] : t \in {"showcaseLoaded", "connectRequested", "transportOpened",
                         "feedbackStale", "disconnectRequested", "transportClosed",
                         "transportFault"}}
  \cup {[type |-> "transportLost", willRetry |-> r] : r \in BOOLEAN}
  \cup {[type |-> "statusObserved", motor |-> m, mode |-> k] :
          m \in {"enabled", "disabled"}, k \in {1, 4}}

transitionSession(s, e) ==
  IF s.connection \notin Accepted[e.type] THEN s ELSE
  CASE e.type = "showcaseLoaded"      -> Blank("offline", "showcase", "valid")
    [] e.type = "connectRequested"    -> Blank("connecting", "unavailable", "unavailable")
    [] e.type = "transportOpened"     -> Blank("connected", "measured", "stale")
    [] e.type = "statusObserved"      ->
         IF isDummyControlMode(e.mode)
           THEN [s EXCEPT !.motor = e.motor, !.mode = e.mode,
                          !.source = "measured", !.validity = "valid"]
           ELSE Blank(s.connection, "measured", "invalid")
    [] e.type = "feedbackStale"       -> [s EXCEPT !.validity = "stale"]
    [] e.type = "transportLost"       ->
         Blank(IF e.willRetry THEN "reconnecting" ELSE "offline", "unavailable", "unavailable")
    [] e.type = "disconnectRequested" -> Blank("disconnecting", "unavailable", "unavailable")
    [] e.type = "transportClosed"     -> createOfflineSession
    [] e.type = "transportFault"      -> Blank("faulted", "unavailable", "invalid")

SessionEvent(e) ==
  /\ facts < MaxFacts /\ facts' = facts + 1
  /\ session' = transitionSession(session, e)
  /\ observed' = IF e.type = "statusObserved" /\ session.connection = "connected"
                   THEN [motor |-> e.motor, mode |-> e.mode]
                   ELSE IF session'.connection = "connected" THEN observed ELSE Unknown
  /\ UNCHANGED <<lifecycle, delivered>>

-----------------------------------------------------------------------------
(* The command.                                                            *)

CommandEvents ==
  {"gatewayAccepted", "unsupported", "rejected", "deviceQueued", "deviceAck",
   "completionConfirmed", "failed", "timedOut", "cancelled",
   "confirmationUnavailable"}

terminalStatuses ==
  {"unsupported", "rejected", "completed", "failed", "timedOut", "cancelled",
   "unconfirmed"}

createCommandLifecycle == [status |-> "created", evidence |-> "none"]

\* Mutant: a confirmation completes a command nobody accepted.
FirstTransitionEager(c, event) ==
  CASE event = "gatewayAccepted" -> [status |-> "accepted", evidence |-> "gatewayAccepted"]
    [] event = "completionConfirmed" -> [status |-> "completed", evidence |-> "feedbackConfirmed"]
    [] event \in {"unsupported", "rejected", "cancelled", "failed", "timedOut"} ->
         [status |-> event, evidence |-> "none"]
    [] OTHER -> c

\* The first event decides whether the gateway took the command at all.
FirstTransition(c, event) ==
  CASE event = "gatewayAccepted" -> [status |-> "accepted", evidence |-> "gatewayAccepted"]
    [] event \in {"unsupported", "rejected", "cancelled", "failed", "timedOut"} ->
         [status |-> event, evidence |-> "none"]
    [] OTHER -> c

transitionCommand(c, event) ==
  IF c.status \in terminalStatuses THEN c
  ELSE IF c.status = "created" THEN FirstTransition(c, event) ELSE
  CASE event \in {"deviceQueued", "deviceAck"} -> [status |-> "accepted", evidence |-> event]
    [] event = "completionConfirmed" ->
         [status |-> "completed", evidence |-> "feedbackConfirmed"]
    [] event \in {"failed", "timedOut", "cancelled"} -> [c EXCEPT !.status = event]
    [] event = "confirmationUnavailable" -> [c EXCEPT !.status = "unconfirmed"]
    [] OTHER -> c

CommandEvent(event) ==
  /\ facts < MaxFacts /\ facts' = facts + 1
  /\ lifecycle' = transitionCommand(lifecycle, event)
  /\ delivered' = IF lifecycle.status \in terminalStatuses THEN delivered
                  ELSE delivered \cup {event}
  /\ UNCHANGED <<session, observed>>

ContractInit ==
  /\ session = createOfflineSession /\ observed = Unknown
  /\ lifecycle = createCommandLifecycle /\ delivered = {}
  /\ facts = 0

ContractNext ==
  \/ \E e \in SessionEvents : SessionEvent(e)
  \/ \E event \in CommandEvents : CommandEvent(event)

ContractSpec == ContractInit /\ [][ContractNext]_contractVars

-----------------------------------------------------------------------------
(* Properties.                                                             *)

\* Neither machine claims what the device did not report.  A snapshot names a
\* motor state or a mode only when it was observed on the transport now open
\* (transitionSession); evidence names only what was delivered before the
\* command ended, and a command is completed exactly when feedback confirmed
\* one the gateway had accepted (transitionCommand).
ClaimsWitnessed ==
  /\ (session.mode # 0 \/ session.motor # "unknown")
       => /\ session.connection = "connected" /\ session.source = "measured"
          /\ [motor |-> session.motor, mode |-> session.mode] = observed
  /\ lifecycle.evidence \in {"deviceQueued", "deviceAck", "gatewayAccepted"}
       => {lifecycle.evidence, "gatewayAccepted"} \subseteq delivered
  /\ (lifecycle.evidence = "feedbackConfirmed") = (lifecycle.status = "completed")
  /\ lifecycle.status = "completed"
       => {"completionConfirmed", "gatewayAccepted"} \subseteq delivered
===============================================================================
