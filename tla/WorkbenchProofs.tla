--------------------------- MODULE WorkbenchProofs ---------------------------
(***************************************************************************)
(* Proofs about parts of the browser application that keep state of their  *)
(* own: the port catalogue, the contract machines, the desktop bridge, the *)
(* scene, the action library, the schemas, the runtime collections and the *)
(* line decoders.  Each part has its own inductive invariant.              *)
(***************************************************************************)
EXTENDS PortCatalog, ContractMachines, DesktopBridge, SceneLifecycle, ActionLibrary,
        WireSchema, RuntimeCollections, LineDecoders, SetInduction, FiniteSetTheorems, TLAPS

-----------------------------------------------------------------------------
(* The port catalogue.                                                     *)

PortTypeOK ==
  /\ catalog \in [status : {"idle", "loading", "ready", "error"}, ports : SUBSET PortNames,
                  selected : PortNames \cup {NoPort}]
  /\ enumeration \in [phase : {"none", "asked", "listed"}, ports : SUBSET PortNames]
  /\ deviceRefresh \in [phase : {"none", "waiting", "listed"},
                        selected : PortNames \cup {NoPort}, ports : SUBSET PortNames]
  /\ plugged \in SUBSET PortNames
  /\ portSession \in BOOLEAN
  /\ enumerated \in Nat

PortIInv == PortTypeOK /\ PortChoiceListed

LEMMA PortInitIInv == PortInit => PortIInv
<1> SUFFICES ASSUME PortInit PROVE PortIInv
    OBVIOUS
<1>1. catalog = idleCatalog /\ enumeration = NoEnumeration /\ deviceRefresh = NoRefresh
    BY DEF PortInit
<1>2. PortChoiceListed
    BY <1>1 DEF PortChoiceListed, idleCatalog
<1>3. catalog \in [status : {"idle", "loading", "ready", "error"}, ports : SUBSET PortNames,
                   selected : PortNames \cup {NoPort}]
    BY <1>1 DEF idleCatalog
<1>4. enumeration \in [phase : {"none", "asked", "listed"}, ports : SUBSET PortNames]
    BY <1>1 DEF NoEnumeration
<1>5. deviceRefresh \in [phase : {"none", "waiting", "listed"},
                         selected : PortNames \cup {NoPort}, ports : SUBSET PortNames]
    BY <1>1 DEF NoRefresh
<1> QED
    BY <1>2, <1>3, <1>4, <1>5 DEF PortInit, PortIInv, PortTypeOK

LEMMA PortStep == PortIInv /\ [PortNext]_portVars => PortIInv'
<1> SUFFICES ASSUME PortIInv, [PortNext]_portVars PROVE PortIInv'
    OBVIOUS
<1> USE DEF PortIInv, PortTypeOK, PortChoiceListed
<1>1. CASE refreshPorts
    BY <1>1 DEF refreshPorts, refreshSerialPortCatalog, beginSerialPortRefresh
<1>2. CASE RefreshDevicePage
    BY <1>2 DEF RefreshDevicePage, refreshSerialPortCatalog, beginSerialPortRefresh
<1>3. CASE PortsListed
    BY <1>3 DEF PortsListed
<1>4. CASE RefreshCompleted
    BY <1>4 DEF RefreshCompleted, completeSerialPortRefresh, NoEnumeration
<1>5. CASE RefreshFailed
    BY <1>5 DEF RefreshFailed, failSerialPortRefresh, NoEnumeration, NoRefresh
<1>6. CASE DevicePageRefreshed
    BY <1>6 DEF DevicePageRefreshed, NoRefresh
<1>7. CASE ConnectPort
    BY <1>7 DEF ConnectPort
<1>8. CASE DisconnectPort
    BY <1>8 DEF DisconnectPort, idleCatalog
<1>9. ASSUME NEW port \in PortNames \cup {NoPort}, setSelectedPortName(port)
      PROVE  PortIInv'
    BY <1>9 DEF setSelectedPortName
<1>10. ASSUME NEW port \in PortNames, PlugOrUnplug(port) PROVE PortIInv'
    BY <1>10 DEF PlugOrUnplug
<1>11. CASE UNCHANGED portVars
    BY <1>11 DEF portVars
<1> QED
    BY <1>1, <1>2, <1>3, <1>4, <1>5, <1>6, <1>7, <1>8, <1>9, <1>10, <1>11 DEF PortNext

\* Whatever the ports of the machine and however many pages enumerate them,
\* the port a connect would open is one of those last listed, and the controls
\* are locked only while an enumeration is under way.
THEOREM PortChoiceAlwaysListed == PortSpec => []PortChoiceListed
<1>1. PortIInv => PortChoiceListed
    BY DEF PortIInv
<1> QED
    BY <1>1, PortInitIInv, PortStep, PTL DEF PortSpec

-----------------------------------------------------------------------------
(* The contract machines.                                                  *)

Snapshots ==
  [connection : {"offline", "connecting", "connected", "reconnecting", "disconnecting",
                 "faulted"},
   motor : {"unknown", "enabled", "disabled"}, mode : 0 .. 3,
   source : {"unavailable", "showcase", "measured"},
   validity : {"unavailable", "valid", "stale", "invalid"}]

\* The connection a snapshot is in, and what a command's status says of the
\* events that were delivered.
ContractIInv ==
  /\ session \in Snapshots
  /\ lifecycle \in [status : {"created", "accepted"} \cup terminalStatuses,
                    evidence : {"none", "gatewayAccepted", "deviceQueued", "deviceAck",
                                "feedbackConfirmed"}]
  /\ delivered \in SUBSET CommandEvents
  /\ lifecycle.status = "created" => lifecycle.evidence = "none"
  /\ lifecycle.status \in {"accepted", "completed"} => "gatewayAccepted" \in delivered
  /\ ClaimsWitnessed

LEMMA ObservedSnapshot ==
  ASSUME NEW s \in Snapshots, NEW mt \in {"enabled", "disabled"}, NEW k \in 0 .. 3
  PROVE  [s EXCEPT !.motor = mt, !.mode = k, !.source = "measured", !.validity = "valid"]
           \in Snapshots
BY DEF Snapshots

LEMMA ContractStep == ContractIInv /\ [ContractNext]_contractVars => ContractIInv'
<1> SUFFICES ASSUME ContractIInv, [ContractNext]_contractVars PROVE ContractIInv'
    OBVIOUS
<1> USE DEF ContractIInv, ClaimsWitnessed
<1>1. ASSUME NEW e \in SessionEvents, SessionEvent(e) PROVE ContractIInv'
  <2>1. session' = transitionSession(session, e) /\ UNCHANGED <<lifecycle, delivered>>
      BY <1>1 DEF SessionEvent
  <2>2. CASE session.connection \notin Accepted[e.type]
    <3>1. session' = session
        BY <2>1, <2>2 DEF transitionSession
    <3>2. session.connection = "connected" => e.type # "statusObserved"
        BY <2>2 DEF Accepted
    <3> QED
        BY <1>1, <2>1, <3>1, <3>2 DEF SessionEvent, Unknown
  <2>3. CASE session.connection \in Accepted[e.type] /\ e.type = "statusObserved"
    <3>1. session.connection = "connected"
        BY <2>3 DEF Accepted
    <3>2. e.motor \in {"enabled", "disabled"} /\ e.mode \in {1, 4}
        BY <2>3 DEF SessionEvents
    <3>3. session' = IF isDummyControlMode(e.mode)
                       THEN [session EXCEPT !.motor = e.motor, !.mode = e.mode,
                                            !.source = "measured", !.validity = "valid"]
                       ELSE Blank(session.connection, "measured", "invalid")
        BY <2>1, <2>3 DEF transitionSession
    <3>4. observed' = [motor |-> e.motor, mode |-> e.mode]
        BY <1>1, <2>3, <3>1 DEF SessionEvent
    <3>5. CASE isDummyControlMode(e.mode)
      <4>1. e.mode = 1
          BY <3>2, <3>5 DEF isDummyControlMode
      <4>2. session' = [session EXCEPT !.motor = e.motor, !.mode = e.mode,
                                       !.source = "measured", !.validity = "valid"]
          BY <3>3, <3>5
      <4>3. /\ session'.connection = "connected" /\ session'.source = "measured"
            /\ session'.motor = e.motor /\ session'.mode = e.mode /\ session'.validity = "valid"
          BY <3>1, <4>2
      <4>4. session' \in Snapshots
        <5>1. session \in Snapshots
            OBVIOUS
        <5>2. e.mode \in 0 .. 3
            BY <4>1
        <5>3. [session EXCEPT !.motor = e.motor, !.mode = e.mode,
                              !.source = "measured", !.validity = "valid"] \in Snapshots
            BY <3>2, <5>1, <5>2, ObservedSnapshot, Zenon
        <5> QED
            BY <4>2, <5>3
      <4> QED
          BY <2>1, <3>4, <4>1, <4>3, <4>4
    <3>6. CASE ~isDummyControlMode(e.mode)
      <4>1. session' = Blank("connected", "measured", "invalid")
          BY <3>1, <3>3, <3>6
      <4> QED
          BY <2>1, <4>1 DEF Blank, Snapshots
    <3> QED
        BY <3>5, <3>6
  <2>4. CASE session.connection \in Accepted[e.type] /\ e.type = "feedbackStale"
    <3>1. session' = [session EXCEPT !.validity = "stale"] /\ observed' = observed
      <4>1. session.connection = "connected"
          BY <2>4 DEF Accepted
      <4>2. session' = [session EXCEPT !.validity = "stale"]
          BY <2>1, <2>4 DEF transitionSession
      <4> QED
          BY <1>1, <2>4, <4>1, <4>2 DEF SessionEvent
    <3> QED
        BY <2>1, <3>1 DEF Snapshots
  <2>5. CASE session.connection \in Accepted[e.type]
             /\ e.type \notin {"statusObserved", "feedbackStale"}
    <3>1. \/ session' = Blank("offline", "showcase", "valid")
          \/ session' = Blank("connecting", "unavailable", "unavailable")
          \/ session' = Blank("connected", "measured", "stale")
          \/ session' = Blank("reconnecting", "unavailable", "unavailable")
          \/ session' = Blank("offline", "unavailable", "unavailable")
          \/ session' = Blank("disconnecting", "unavailable", "unavailable")
          \/ session' = Blank("faulted", "unavailable", "invalid")
      <4>1. e.type \in {"showcaseLoaded", "connectRequested", "transportOpened",
                        "transportLost", "disconnectRequested", "transportClosed",
                        "transportFault"}
          BY <2>5 DEF SessionEvents
      <4> QED
          BY <2>1, <2>5, <4>1 DEF transitionSession, createOfflineSession
    <3>2. session'.motor = "unknown" /\ session'.mode = 0
        BY <3>1 DEF Blank
    <3>3. session' \in Snapshots
        BY <3>1 DEF Blank, Snapshots
    <3> QED
        BY <2>1, <3>2, <3>3
  <2> QED
      BY <2>2, <2>3, <2>4, <2>5
<1>2. ASSUME NEW event \in CommandEvents, CommandEvent(event) PROVE ContractIInv'
  <2>1. /\ lifecycle' = transitionCommand(lifecycle, event)
        /\ delivered' = IF lifecycle.status \in terminalStatuses THEN delivered
                        ELSE delivered \cup {event}
        /\ UNCHANGED <<session, observed>>
      BY <1>2 DEF CommandEvent
  <2>2. CASE lifecycle.status \in terminalStatuses
      BY <2>1, <2>2 DEF transitionCommand
  <2>3. CASE lifecycle.status = "created"
    <3>1. lifecycle' = FirstTransition(lifecycle, event)
        BY <2>1, <2>3 DEF transitionCommand, terminalStatuses
    <3> QED
        BY <2>1, <2>3, <3>1 DEF FirstTransition, terminalStatuses, CommandEvents
  <2>4. CASE lifecycle.status = "accepted"
      BY <2>1, <2>4 DEF transitionCommand, terminalStatuses, CommandEvents
  <2> QED
      BY <2>2, <2>3, <2>4
<1>3. CASE UNCHANGED contractVars
    BY <1>3 DEF contractVars
<1> QED
    BY <1>1, <1>2, <1>3 DEF ContractNext

\* However many events come and in whatever order, neither machine claims what
\* the device did not report.
THEOREM ClaimsAlwaysWitnessed == ContractSpec => []ClaimsWitnessed
<1>1. ContractInit => ContractIInv
    BY DEF ContractInit, ContractIInv, Snapshots, ClaimsWitnessed, createOfflineSession, Blank, Unknown,
           createCommandLifecycle, terminalStatuses
<1>2. ContractIInv => ClaimsWitnessed
    BY DEF ContractIInv
<1> QED
    BY <1>1, <1>2, ContractStep, PTL DEF ContractSpec

-----------------------------------------------------------------------------
(* The desktop bridge.                                                     *)

BridgeTypeOK ==
  /\ bridge \in [pending : SUBSET RequestNumbers,
                 inFlight : [BridgeActions -> RequestNumbers \cup {NoRequest}]]
  /\ requests \in [RequestNumbers -> [action : BridgeActions \cup {"none"},
                                      status : {"unborn", "waiting", "settled"},
                                      ok : BOOLEAN]]
  /\ inbox \in SUBSET RequestNumbers
  /\ answers \in SUBSET [id : RequestNumbers, ok : BOOLEAN]

\* Ids are given out in order, so the next one is unused.
IdsInOrder == \E n \in 0 .. MaxBridgeRequests : Born = 1 .. n

WaitingActs == \A i \in RequestNumbers :
  requests[i].status = "waiting" => requests[i].action \in BridgeActions

\* BridgeMapsAgree, request by request.
MapsAgreePointwise ==
  /\ \A i \in RequestNumbers : i \in bridge.pending <=> requests[i].status = "waiting"
  /\ \A a \in BridgeActions, i \in RequestNumbers :
       bridge.inFlight[a] = i <=> requests[i].status = "waiting" /\ requests[i].action = a

BridgeIInv == BridgeTypeOK /\ IdsInOrder /\ WaitingActs /\ MapsAgreePointwise

LEMMA PointwiseAgrees == BridgeIInv => BridgeMapsAgree
<1>1. NoRequest \notin RequestNumbers
    BY BridgeAssumption DEF NoRequest, RequestNumbers
<1> QED
    BY <1>1 DEF BridgeIInv, BridgeTypeOK, BridgeMapsAgree, MapsAgreePointwise

LEMMA ResolveTypes ==
  ASSUME BridgeTypeOK, NEW i \in bridge.pending, NEW ok \in BOOLEAN, Resolve(i, ok)
  PROVE  /\ bridge' \in [pending : SUBSET RequestNumbers,
                          inFlight : [BridgeActions -> RequestNumbers \cup {NoRequest}]]
         /\ requests' \in [RequestNumbers -> [action : BridgeActions \cup {"none"},
                                               status : {"unborn", "waiting", "settled"},
                                               ok : BOOLEAN]]
<1> DEFINE r == [requests[i] EXCEPT !.status = "settled", !.ok = ok]
           f == [bridge.inFlight EXCEPT ![requests[i].action] = NoRequest]
<1>1. i \in RequestNumbers
    BY DEF BridgeTypeOK
<1>2. requests' = [requests EXCEPT ![i] = r]
    BY <1>1 DEF Resolve, BridgeTypeOK
<1>3. r \in [action : BridgeActions \cup {"none"}, status : {"unborn", "waiting", "settled"},
             ok : BOOLEAN]
    BY <1>1 DEF BridgeTypeOK
<1> HIDE DEF r
<1>4. f \in [BridgeActions -> RequestNumbers \cup {NoRequest}]
    BY DEF BridgeTypeOK
<1>5. bridge' = [pending |-> bridge.pending \ {i}, inFlight |-> f]
    BY DEF Resolve, BridgeTypeOK
<1> HIDE DEF f
<1> QED
    BY <1>1, <1>2, <1>3, <1>4, <1>5 DEF BridgeTypeOK

\* A request that settles leaves both maps.
LEMMA ResolveKeeps ==
  ASSUME BridgeIInv, NEW i \in bridge.pending, NEW ok \in BOOLEAN, Resolve(i, ok),
         BridgeTypeOK'
  PROVE  IdsInOrder' /\ WaitingActs' /\ MapsAgreePointwise'
<1>1. i \in RequestNumbers /\ requests[i].status = "waiting"
    BY DEF BridgeIInv, BridgeTypeOK, MapsAgreePointwise
<1>2. /\ requests' = [requests EXCEPT ![i].status = "settled", ![i].ok = ok]
      /\ bridge'.pending = bridge.pending \ {i}
      /\ bridge'.inFlight = [bridge.inFlight EXCEPT ![requests[i].action] = NoRequest]
    BY DEF Resolve, BridgeIInv, BridgeTypeOK
<1>3. \A j \in RequestNumbers :
        /\ requests'[j].action = requests[j].action
        /\ requests'[j].status = IF j = i THEN "settled" ELSE requests[j].status
    BY <1>1, <1>2 DEF BridgeIInv, BridgeTypeOK
<1>4. Born' = Born
    BY <1>1, <1>3 DEF Born
<1>5. WaitingActs'
    BY <1>3 DEF BridgeIInv, WaitingActs
<1>6. MapsAgreePointwise'
  <2>1. NoRequest \notin RequestNumbers
      BY BridgeAssumption DEF NoRequest, RequestNumbers
  <2>2. \A j \in RequestNumbers : j \in bridge'.pending <=> requests'[j].status = "waiting"
    <3>1. \A j \in RequestNumbers : j \in bridge.pending <=> requests[j].status = "waiting"
        BY DEF BridgeIInv, MapsAgreePointwise
    <3>2. ASSUME NEW j \in RequestNumbers
          PROVE  j \in bridge'.pending <=> requests'[j].status = "waiting"
      <4>1. CASE j = i
        <5>1. requests'[j].status = "settled"
            BY <1>3, <4>1
        <5>2. j \notin bridge'.pending
            BY <1>2, <4>1
        <5> QED
            BY <5>1, <5>2
      <4>2. CASE j # i
          BY <1>2, <1>3, <3>1, <4>2
      <4> QED
          BY <4>1, <4>2
    <3> QED
        BY <3>2
  <2>3. requests[i].action \in BridgeActions
      BY <1>1 DEF BridgeIInv, WaitingActs
  <2>4. ASSUME NEW a \in BridgeActions, NEW j \in RequestNumbers
        PROVE  bridge'.inFlight[a] = j
                 <=> requests'[j].status = "waiting" /\ requests'[j].action = a
    <3>1. bridge.inFlight[a] = j <=> requests[j].status = "waiting" /\ requests[j].action = a
        BY DEF BridgeIInv, MapsAgreePointwise
    <3>2. bridge.inFlight[requests[i].action] = i
        BY <1>1, <2>3 DEF BridgeIInv, MapsAgreePointwise
    <3>3. bridge'.inFlight[a] = IF a = requests[i].action THEN NoRequest ELSE bridge.inFlight[a]
        BY <1>2, <2>3 DEF BridgeIInv, BridgeTypeOK
    <3> QED
        BY <1>3, <2>1, <3>1, <3>2, <3>3
  <2> QED
      BY <2>2, <2>4 DEF MapsAgreePointwise
<1> QED
    BY <1>4, <1>5, <1>6 DEF BridgeIInv, IdsInOrder

\* A call joins the request in flight, posts a new one or is refused.
LEMMA InvokeKeeps ==
  ASSUME BridgeIInv, NEW a \in BridgeActions, invoke(a), UNCHANGED answers
  PROVE  BridgeIInv'
<1>1. CASE UNCHANGED <<bridge, requests, inbox>>
    BY <1>1 DEF BridgeIInv, BridgeTypeOK, IdsInOrder, Born, WaitingActs, MapsAgreePointwise
<1>2. CASE bridge.inFlight[a] = NoRequest /\ Post(a)
  <2>1. PICK n \in 0 .. MaxBridgeRequests : Born = 1 .. n
      BY DEF BridgeIInv, IdsInOrder
  <2> DEFINE i == n + 1
  <2>2. Cardinality(Born) = n
      BY <2>1, FS_Interval
  <2>3. i \in RequestNumbers /\ i \notin Born
      BY <1>2, <2>1, <2>2 DEF Post
  <2>4. requests[i].status = "unborn" /\ i \notin bridge.pending
      BY <2>3 DEF BridgeIInv, Born, MapsAgreePointwise
  <2>5. \E status \in {"waiting", "settled"} :
          /\ requests' = [requests EXCEPT ![i] =
                            [action |-> a, status |-> status, ok |-> FALSE]]
          /\ IF status = "waiting"
               THEN /\ bridge' = [bridge EXCEPT !.pending = @ \cup {i}, !.inFlight[a] = i]
                    /\ inbox' = inbox \cup {i}
               ELSE UNCHANGED <<bridge, inbox>>
      BY <1>2, <2>2 DEF Post
  <2>6. PICK status \in {"waiting", "settled"} :
          /\ requests' = [requests EXCEPT ![i] =
                            [action |-> a, status |-> status, ok |-> FALSE]]
          /\ IF status = "waiting"
               THEN /\ bridge' = [bridge EXCEPT !.pending = @ \cup {i}, !.inFlight[a] = i]
                    /\ inbox' = inbox \cup {i}
               ELSE UNCHANGED <<bridge, inbox>>
      BY <2>5
  <2> HIDE DEF i
  <2>7. /\ bridge'.pending = IF status = "waiting" THEN bridge.pending \cup {i} ELSE bridge.pending
        /\ bridge'.inFlight = IF status = "waiting" THEN [bridge.inFlight EXCEPT ![a] = i]
                              ELSE bridge.inFlight
        /\ BridgeTypeOK'
    <3>1. requests' \in [RequestNumbers -> [action : BridgeActions \cup {"none"},
                                           status : {"unborn", "waiting", "settled"},
                                           ok : BOOLEAN]]
        BY <2>3, <2>6 DEF BridgeIInv, BridgeTypeOK
    <3>2. CASE status = "waiting"
      <4>1. bridge' = [bridge EXCEPT !.pending = @ \cup {i}, !.inFlight[a] = i]
            /\ inbox' = inbox \cup {i}
          BY <2>6, <3>2
      <4>2. /\ bridge'.pending = bridge.pending \cup {i}
            /\ bridge'.inFlight = [bridge.inFlight EXCEPT ![a] = i]
            /\ bridge' \in [pending : SUBSET RequestNumbers,
                            inFlight : [BridgeActions -> RequestNumbers \cup {NoRequest}]]
          BY <2>3, <4>1 DEF BridgeIInv, BridgeTypeOK
      <4> QED
          BY <2>3, <3>1, <3>2, <4>1, <4>2 DEF BridgeIInv, BridgeTypeOK
    <3>3. CASE status # "waiting"
      <4>1. UNCHANGED <<bridge, inbox>>
          BY <2>6, <3>3
      <4> QED
          BY <3>1, <3>3, <4>1 DEF BridgeIInv, BridgeTypeOK
    <3> QED
        BY <3>2, <3>3
  <2>8. /\ requests'[i].action = a /\ requests'[i].status = status
        /\ \A j \in RequestNumbers \ {i} : requests'[j] = requests[j]
      BY <2>3, <2>6 DEF BridgeIInv, BridgeTypeOK
  <2>9. IdsInOrder'
    <3>1. Born' = Born \cup {i}
        BY <2>3, <2>8 DEF Born
    <3>2. 1 .. (n + 1) = (1 .. n) \cup {n + 1}
        OBVIOUS
    <3>3. n + 1 \in 0 .. MaxBridgeRequests
        BY <2>3, BridgeAssumption DEF i, RequestNumbers
    <3> QED
        BY <2>1, <3>1, <3>2, <3>3 DEF IdsInOrder, i
  <2>10. WaitingActs'
      BY <2>8 DEF BridgeIInv, WaitingActs
  <2>11. MapsAgreePointwise'
    <3>1. NoRequest \notin RequestNumbers
        BY BridgeAssumption DEF NoRequest, RequestNumbers
    <3>2. \A j \in RequestNumbers : j \in bridge'.pending <=> requests'[j].status = "waiting"
      <4>1. \A j \in RequestNumbers : j \in bridge.pending <=> requests[j].status = "waiting"
          BY DEF BridgeIInv, MapsAgreePointwise
      <4> QED
          BY <2>3, <2>4, <2>7, <2>8, <4>1
    <3>3. ASSUME NEW b \in BridgeActions, NEW j \in RequestNumbers
          PROVE  bridge'.inFlight[b] = j
                   <=> requests'[j].status = "waiting" /\ requests'[j].action = b
      <4>1. bridge'.inFlight[b] = IF status = "waiting" /\ b = a THEN i ELSE bridge.inFlight[b]
          BY <2>7 DEF BridgeIInv, BridgeTypeOK
      <4>2. bridge.inFlight[b] = j <=> requests[j].status = "waiting" /\ requests[j].action = b
          BY DEF BridgeIInv, MapsAgreePointwise
      <4>3. bridge.inFlight[a] = NoRequest
          BY <1>2
      <4> QED
          BY <2>3, <2>4, <2>8, <3>1, <4>1, <4>2, <4>3
    <3> QED
        BY <3>2, <3>3 DEF MapsAgreePointwise
  <2> QED
      BY <2>7, <2>9, <2>10, <2>11 DEF BridgeIInv
<1> QED
    BY <1>1, <1>2 DEF invoke

LEMMA BridgeStep == BridgeIInv /\ [BridgeNext]_bridgeVars => BridgeIInv'
<1> SUFFICES ASSUME BridgeIInv, [BridgeNext]_bridgeVars PROVE BridgeIInv'
    OBVIOUS
<1> USE DEF BridgeIInv
<1>1. ASSUME UNCHANGED <<bridge, requests>>, BridgeTypeOK' PROVE BridgeIInv'
    BY <1>1 DEF IdsInOrder, Born, WaitingActs, MapsAgreePointwise
<1>2. ASSUME NEW a \in BridgeActions, InvokeWindowAction(a) PROVE BridgeIInv'
    BY <1>2, InvokeKeeps DEF InvokeWindowAction
<1>3. CASE exportBundle
  <2>1. "exportDiagnostics" \in BridgeActions /\ invoke("exportDiagnostics") /\ UNCHANGED answers
      BY <1>3, BridgeAssumption DEF exportBundle, invoke
  <2> QED
      BY <2>1, InvokeKeeps
<1>4. CASE ExportReturns \/ LeaveExport \/ EnterExport
    BY <1>1, <1>4 DEF ExportReturns, LeaveExport, EnterExport, BridgeTypeOK
<1>5. ASSUME NEW i \in RequestNumbers, RequestTimesOut(i) PROVE BridgeIInv'
  <2>1. BridgeTypeOK'
      BY <1>5, ResolveTypes DEF RequestTimesOut, BridgeTypeOK
  <2> QED
      BY <1>5, <2>1, ResolveKeeps DEF RequestTimesOut
<1>6. ASSUME NEW answer \in answers, handleResponse(answer) PROVE BridgeIInv'
  <2>1. answer.ok \in BOOLEAN /\ answers' \in SUBSET answers /\ UNCHANGED inbox
      BY <1>6 DEF handleResponse, BridgeTypeOK
  <2>2. CASE answer.id \in bridge.pending
    <3>1. Resolve(answer.id, answer.ok)
        BY <1>6, <2>2 DEF handleResponse
    <3>2. BridgeTypeOK'
        BY <2>1, <2>2, <3>1, ResolveTypes DEF BridgeTypeOK
    <3> QED
        BY <2>1, <2>2, <3>1, <3>2, ResolveKeeps
  <2>3. CASE answer.id \notin bridge.pending
      BY <1>1, <1>6, <2>1, <2>3 DEF handleResponse, BridgeTypeOK
  <2> QED
      BY <2>2, <2>3
<1>7. ASSUME NEW i \in RequestNumbers, NEW ok \in BOOLEAN, HostAnswers(i, ok)
      PROVE  BridgeIInv'
    BY <1>1, <1>7 DEF HostAnswers, BridgeTypeOK
<1>8. CASE UNCHANGED bridgeVars
    BY <1>1, <1>8 DEF bridgeVars, BridgeTypeOK
<1> QED
    BY <1>2, <1>3, <1>4, <1>5, <1>6, <1>7, <1>8 DEF BridgeNext

\* Whichever of its timeout, its answer and a failed post settles a request,
\* however many requests were made, no action stays locked and no answer is
\* taken for another request's.
THEOREM BridgeMapsAlwaysAgree == BridgeSpec => []BridgeMapsAgree
<1>1. BridgeInit => BridgeIInv
  <2> SUFFICES ASSUME BridgeInit PROVE BridgeIInv
      OBVIOUS
  <2>1. BridgeTypeOK
      BY DEF BridgeInit, BridgeTypeOK, Unborn
  <2>2. IdsInOrder
    <3>1. Born = 1 .. 0
        BY DEF BridgeInit, Born, Unborn
    <3> QED
        BY <3>1, BridgeAssumption DEF IdsInOrder
  <2>3. WaitingActs
      BY DEF BridgeInit, WaitingActs, Unborn
  <2>4. MapsAgreePointwise
    <3>1. NoRequest \notin RequestNumbers
        BY BridgeAssumption DEF NoRequest, RequestNumbers
    <3> QED
        BY <3>1 DEF BridgeInit, MapsAgreePointwise, Unborn
  <2> QED
      BY <2>1, <2>2, <2>3, <2>4 DEF BridgeIInv
<1> QED
    BY <1>1, PointwiseAgrees, BridgeStep, PTL DEF BridgeSpec

-----------------------------------------------------------------------------
(* The scene.                                                              *)

LoadRecords == [cancelled : BOOLEAN, failed : BOOLEAN, resources : BOOLEAN,
                robot : {"none", "parsed", "owned", "disposed"}]

FetchStates == [Files -> {"idle", "first", "retry", "done"}]

SceneTypeOK ==
  /\ scene \in {"mounted", "lost", "unmounted"}
  /\ mount \in 0 .. MaxMounts
  /\ scene # "unmounted" => mount # 0
  /\ load \in [Loads -> LoadRecords]
  /\ fetch \in [Loads -> FetchStates]
  /\ models \in {"none", "set", "shown"}
  /\ drag \in Pointers \cup {"none"}
  /\ degraded \in BOOLEAN

\* A load is called off when its mount ends, and not before.
LoadsOfMounts ==
  \A l \in Loads :
    /\ l > mount => load[l].robot = "none" /\ ~load[l].cancelled /\ ~load[l].resources
                    /\ Outstanding(fetch[l]) = {}
    /\ l < mount => load[l].cancelled
    /\ l = mount => (load[l].cancelled <=> scene = "unmounted")

\* The URDF is fetched before its meshes; what was parsed is neither owned nor
\* disposed before the last file ended.
LoadStages ==
  \A l \in Loads :
    /\ load[l].resources => Outstanding(fetch[l]) = {}
    /\ "urdf" \in Outstanding(fetch[l])
         => load[l].robot = "none" /\ Outstanding(fetch[l]) = {"urdf"}
    /\ load[l].robot \notin {"none", "parsed"} => Outstanding(fetch[l]) = {}
    /\ load[l].robot = "parsed" => Outstanding(fetch[l]) # {}
    /\ Outstanding(fetch[l]) \cap Meshes # {} => load[l].robot = "parsed"
    /\ load[l].robot = "owned" => ~load[l].cancelled /\ ~load[l].failed

\* What is shown belongs to the mount; a drag is of something shown.
ShownOwned ==
  /\ models # "none" => scene # "unmounted" /\ load[mount].robot = "owned"
  /\ drag # "none" => models = "shown"

\* The tracker counts exactly what is there.
TrackerExact ==
  tracker = [renderers    |-> IF scene = "unmounted" THEN 0 ELSE 1,
             controls     |-> IF scene = "unmounted" THEN 0 ELSE 1,
             modelRoots   |-> IF models = "shown" THEN 2 ELSE 0,
             materials    |-> IF models = "shown" /\ degraded THEN 1 ELSE 0,
             dragSessions |-> IF drag = "none" THEN 0 ELSE 1]

SceneIInv == SceneTypeOK /\ LoadsOfMounts /\ LoadStages /\ ShownOwned /\ TrackerExact

\* What finalizeLoadedModels may do to a load.
LEMMA FinalizeOutcome ==
  ASSUME NEW l, NEW ld \in LoadRecords, NEW bound \in BOOLEAN
  PROVE  LET after == finalizeLoadedModels(l, ld, bound)
         IN  /\ after.load \in LoadRecords
             /\ after.load.cancelled = ld.cancelled
             /\ after.load.resources = ld.resources
             /\ ~(ld.resources /\ ld.robot = "parsed") => after.load = ld
             /\ ld.resources /\ ld.robot = "parsed" => after.load.robot \in {"owned", "disposed"}
             /\ after.models \in BOOLEAN
             /\ after.models => after.load.robot = "owned"
             /\ after.load.robot = "owned" => ld.robot = "owned" \/
                  (~after.load.cancelled /\ ~after.load.failed)
BY DEF finalizeLoadedModels, LoadRecords

\* A file of a load ended: what it becomes is consistent with the mount, the
\* page and the tracker.
LEMMA ItemEndKeeps ==
  ASSUME SceneIInv, NEW l \in Loads, Outstanding(fetch[l]) # {},
         NEW fs \in FetchStates, NEW ld0 \in LoadRecords, NEW e0 \in BOOLEAN,
         NEW bound \in BOOLEAN,
         ItemEnd(l, fs, [load |-> ld0, error |-> e0, models |-> FALSE], bound),
         UNCHANGED SceneRest,
         ld0.cancelled = load[l].cancelled, ~ld0.resources,
         ld0.robot \in {"none", "parsed"},
         "urdf" \notin Outstanding(fs),
         ld0.robot = "none" => Outstanding(fs) = {}
  PROVE  SceneIInv'
<1> DEFINE before == [load |-> ld0, error |-> e0, models |-> FALSE]
           ld == IF Outstanding(fs) = {} THEN [ld0 EXCEPT !.resources = TRUE] ELSE ld0
           after == finalizeLoadedModels(l, ld, bound)
<1>1. /\ ld \in LoadRecords
      /\ ld.cancelled = ld0.cancelled /\ ld.robot = ld0.robot
      /\ ld.resources <=> Outstanding(fs) = {}
    BY DEF LoadRecords
<1>2. /\ fetch' = [fetch EXCEPT ![l] = fs]
      /\ load' = [load EXCEPT ![l] = after.load]
      /\ IF \E o \in {before, after} : o.models
           THEN models' = "set" /\ readyFrames' = 0 /\ frame' = TRUE
           ELSE UNCHANGED <<models, readyFrames, frame>>
    BY DEF ItemEnd, Report
<1>3. /\ after.load \in LoadRecords
      /\ after.load.cancelled = ld0.cancelled
      /\ after.load.resources <=> Outstanding(fs) = {}
      /\ ~(ld.resources /\ ld.robot = "parsed") => after.load = ld
      /\ ld.resources /\ ld.robot = "parsed" => after.load.robot \in {"owned", "disposed"}
      /\ after.models \in BOOLEAN
      /\ after.models => after.load.robot = "owned"
      /\ after.load.robot = "owned" => ~after.load.cancelled /\ ~after.load.failed
  <2> HIDE DEF ld, before
  <2>1. /\ after.load \in LoadRecords
        /\ after.load.cancelled = ld.cancelled
        /\ after.load.resources = ld.resources
        /\ ~(ld.resources /\ ld.robot = "parsed") => after.load = ld
        /\ ld.resources /\ ld.robot = "parsed" => after.load.robot \in {"owned", "disposed"}
        /\ after.models \in BOOLEAN
        /\ after.models => after.load.robot = "owned"
        /\ after.load.robot = "owned" => ld.robot = "owned" \/
             (~after.load.cancelled /\ ~after.load.failed)
      BY <1>1, FinalizeOutcome
  <2> QED
      BY <1>1, <2>1
<1>4. models' = IF after.models THEN "set" ELSE models
    BY <1>2, <1>3
<1> HIDE DEF after, ld, before
<1>5. UNCHANGED <<scene, mount, tracker, drag, degraded>>
    BY DEF SceneRest
<1>6. /\ load'[l] = after.load /\ fetch'[l] = fs
      /\ \A k \in Loads \ {l} : load'[k] = load[k] /\ fetch'[k] = fetch[k]
    BY <1>2 DEF SceneIInv, SceneTypeOK
<1>7. l \in 1 .. MaxMounts /\ mount \in 0 .. MaxMounts /\ MaxMounts \in Nat
    BY SceneAssumption DEF SceneIInv, SceneTypeOK, Loads
<1>8. l <= mount
    BY <1>7 DEF SceneIInv, LoadsOfMounts
<1>9. load[l].robot \in {"none", "parsed"}
    BY DEF SceneIInv, LoadStages, SceneTypeOK, LoadRecords
<1>10. SceneTypeOK'
    BY <1>2, <1>3, <1>4, <1>5 DEF SceneIInv, SceneTypeOK
<1>11. LoadsOfMounts'
  <2> SUFFICES ASSUME NEW k \in Loads
               PROVE  /\ k > mount => load'[k].robot = "none" /\ ~load'[k].cancelled
                                      /\ ~load'[k].resources /\ Outstanding(fetch'[k]) = {}
                      /\ k < mount => load'[k].cancelled
                      /\ k = mount => (load'[k].cancelled <=> scene = "unmounted")
      BY <1>5 DEF LoadsOfMounts, Outstanding
  <2>1. CASE k = l
      BY <1>3, <1>6, <1>7, <1>8, <2>1 DEF SceneIInv, LoadsOfMounts
  <2>2. CASE k # l
      BY <1>6, <2>2 DEF SceneIInv, LoadsOfMounts
  <2> QED
      BY <2>1, <2>2
<1>12. LoadStages'
  <2> SUFFICES ASSUME NEW k \in Loads
               PROVE  /\ load'[k].resources => Outstanding(fetch'[k]) = {}
                      /\ "urdf" \in Outstanding(fetch'[k])
                           => load'[k].robot = "none" /\ Outstanding(fetch'[k]) = {"urdf"}
                      /\ load'[k].robot \notin {"none", "parsed"} => Outstanding(fetch'[k]) = {}
                      /\ load'[k].robot = "parsed" => Outstanding(fetch'[k]) # {}
                      /\ Outstanding(fetch'[k]) \cap Meshes # {} => load'[k].robot = "parsed"
                      /\ load'[k].robot = "owned" => ~load'[k].cancelled /\ ~load'[k].failed
      BY DEF LoadStages, Outstanding
  <2>1. CASE k = l
    <3>1. CASE Outstanding(fs) = {}
        BY <1>1, <1>3, <1>6, <2>1, <3>1
    <3>2. CASE Outstanding(fs) # {}
        BY <1>1, <1>3, <1>6, <2>1, <3>2
    <3> QED
        BY <3>1, <3>2
  <2>2. CASE k # l
      BY <1>6, <2>2 DEF SceneIInv, LoadStages
  <2> QED
      BY <2>1, <2>2
<1>13. ShownOwned' /\ TrackerExact'
  <2>1. CASE after.models
    <3>1. l = mount /\ scene # "unmounted"
      <4>1. ~load[l].cancelled
          BY <1>3, <2>1
      <4> QED
          BY <1>7, <1>8, <4>1 DEF SceneIInv, LoadsOfMounts
    <3>2. models = "none" /\ drag = "none"
        BY <1>9, <3>1 DEF SceneIInv, ShownOwned, SceneTypeOK
    <3> QED
        BY <1>3, <1>4, <1>5, <1>6, <2>1, <3>1, <3>2
        DEF SceneIInv, ShownOwned, TrackerExact
  <2>2. CASE ~after.models
    <3>1. models # "none" => mount # l
        BY <1>9 DEF SceneIInv, ShownOwned
    <3>2. models # "none" => mount \in Loads
        BY <1>7 DEF SceneIInv, ShownOwned, SceneTypeOK, Loads
    <3> QED
        BY <1>4, <1>5, <1>6, <2>2, <3>1, <3>2 DEF SceneIInv, ShownOwned, TrackerExact
  <2> QED
      BY <2>1, <2>2
<1> QED
    BY <1>10, <1>11, <1>12, <1>13 DEF SceneIInv

\* The page is left: the newest mount's load is called off and what it owns
\* is disposed.
LEMMA TeardownKeeps ==
  ASSUME SceneIInv, scene # "unmounted", Teardown, UNCHANGED <<mount, fetch, degraded>>
  PROVE  SceneIInv'
<1>1. mount \in Loads
    BY SceneAssumption DEF SceneIInv, SceneTypeOK, Loads
<1>2. /\ load' = [load EXCEPT ![mount].cancelled = TRUE,
                    ![mount].robot = IF @ = "owned" THEN "disposed" ELSE @]
      /\ scene' = "unmounted" /\ models' = "none" /\ drag' = "none"
    BY DEF Teardown
<1>3. /\ load'[mount] \in LoadRecords
      /\ load'[mount].cancelled /\ load'[mount].failed = load[mount].failed
      /\ load'[mount].resources = load[mount].resources
      /\ load'[mount].robot = IF load[mount].robot = "owned" THEN "disposed" ELSE load[mount].robot
      /\ \A k \in Loads \ {mount} : load'[k] = load[k]
      /\ load' \in [Loads -> LoadRecords]
    <2> DEFINE r == [load[mount] EXCEPT !.cancelled = TRUE,
                                        !.robot = IF @ = "owned" THEN "disposed" ELSE @]
    <2>1. load \in [Loads -> LoadRecords] /\ load' = [load EXCEPT ![mount] = r]
        BY <1>1, <1>2 DEF SceneIInv, SceneTypeOK
    <2>2. /\ r \in LoadRecords /\ r.cancelled /\ r.failed = load[mount].failed
          /\ r.resources = load[mount].resources
          /\ r.robot = IF load[mount].robot = "owned" THEN "disposed" ELSE load[mount].robot
        BY <1>1, <2>1 DEF LoadRecords
    <2> HIDE DEF r
    <2> QED
        BY <1>1, <2>1, <2>2
<1>4. SceneTypeOK'
    BY SMTT(30), <1>2, <1>3 DEF SceneIInv, SceneTypeOK
<1>5. LoadsOfMounts'
  <2> SUFFICES ASSUME NEW k \in Loads
               PROVE  /\ k > mount => load'[k].robot = "none" /\ ~load'[k].cancelled
                                      /\ ~load'[k].resources /\ Outstanding(fetch[k]) = {}
                      /\ k < mount => load'[k].cancelled
                      /\ k = mount => (load'[k].cancelled <=> scene' = "unmounted")
      BY DEF LoadsOfMounts, Outstanding
  <2>1. CASE k = mount
      BY <1>1, <1>2, <1>3, <2>1 DEF Loads
  <2>2. CASE k # mount
      BY <1>3, <2>2 DEF SceneIInv, LoadsOfMounts
  <2> QED
      BY <2>1, <2>2
<1>6. LoadStages'
  <2> SUFFICES ASSUME NEW k \in Loads
               PROVE  /\ load'[k].resources => Outstanding(fetch[k]) = {}
                      /\ "urdf" \in Outstanding(fetch[k])
                           => load'[k].robot = "none" /\ Outstanding(fetch[k]) = {"urdf"}
                      /\ load'[k].robot \notin {"none", "parsed"} => Outstanding(fetch[k]) = {}
                      /\ load'[k].robot = "parsed" => Outstanding(fetch[k]) # {}
                      /\ Outstanding(fetch[k]) \cap Meshes # {} => load'[k].robot = "parsed"
                      /\ load'[k].robot = "owned" => ~load'[k].cancelled /\ ~load'[k].failed
      BY DEF LoadStages, Outstanding
  <2>1. CASE k = mount
      BY <1>1, <1>3, <2>1 DEF SceneIInv, LoadStages
  <2>2. CASE k # mount
      BY <1>3, <2>2 DEF SceneIInv, LoadStages
  <2> QED
      BY <2>1, <2>2
<1>7. ShownOwned'
    BY <1>2 DEF ShownOwned
<1>8. TrackerExact'
  <2> DEFINE roots == IF models = "shown" THEN 2 ELSE 0
             marks == IF models = "shown" /\ degraded THEN 1 ELSE 0
             drags == IF drag = "none" THEN 0 ELSE 1
  <2>1. tracker = [renderers |-> 1, controls |-> 1, modelRoots |-> roots, materials |-> marks,
                   dragSessions |-> drags]
      BY DEF SceneIInv, TrackerExact
  <2>2. /\ (IF models = "shown" THEN roots - 2 ELSE roots) = 0
        /\ (IF models = "shown" THEN marks - DegradedMaterials ELSE marks) = 0
        /\ (IF drag = "none" THEN drags ELSE drags - 1) = 0
      BY DEF DegradedMaterials
  <2>3. tracker' = [tracker EXCEPT !.renderers = @ - 1, !.controls = @ - 1,
                      !.modelRoots = IF models = "shown" THEN @ - 2 ELSE @,
                      !.materials = IF models = "shown" THEN @ - DegradedMaterials ELSE @,
                      !.dragSessions = IF drag = "none" THEN @ ELSE @ - 1]
      BY DEF Teardown
  <2> HIDE DEF roots, marks, drags
  <2>4. tracker' = [renderers |-> 1 - 1, controls |-> 1 - 1,
                    modelRoots |-> IF models = "shown" THEN roots - 2 ELSE roots,
                    materials |-> IF models = "shown" THEN marks - DegradedMaterials ELSE marks,
                    dragSessions |-> IF drag = "none" THEN drags ELSE drags - 1]
      BY <2>1, <2>3
  <2> QED
      BY <1>2, <2>2, <2>4 DEF TrackerExact
<1> QED
    BY <1>4, <1>5, <1>6, <1>7, <1>8 DEF SceneIInv

\* Steps that leave the loads alone keep all that is said of them.
LEMMA LoadsUntouched ==
  ASSUME SceneIInv, UNCHANGED <<mount, load, fetch>>,
         scene' \in {"mounted", "lost", "unmounted"},
         scene' = "unmounted" <=> scene = "unmounted",
         models' \in {"none", "set", "shown"}, drag' \in Pointers \cup {"none"},
         degraded' \in BOOLEAN, ShownOwned', TrackerExact'
  PROVE  SceneIInv'
BY DEF SceneIInv, SceneTypeOK, LoadsOfMounts, LoadStages, Outstanding

LEMMA SceneStep == SceneIInv /\ [SceneNext]_sceneVars => SceneIInv'
<1> SUFFICES ASSUME SceneIInv, [SceneNext]_sceneVars PROVE SceneIInv'
    OBVIOUS
<1>1. CASE MountScene
  <2>1. mount + 1 \in Loads /\ mount \in Nat
      BY <1>1, SceneAssumption DEF MountScene, SceneIInv, SceneTypeOK, Loads
  <2>2. /\ models = "none" /\ drag = "none"
        /\ load[mount + 1].robot = "none" /\ ~load[mount + 1].cancelled
        /\ ~load[mount + 1].resources
        /\ Outstanding(fetch[mount + 1]) = {}
      BY <1>1, <2>1 DEF MountScene, SceneIInv, SceneTypeOK, ShownOwned, LoadsOfMounts
  <2>3. /\ fetch' \in [Loads -> FetchStates]
        /\ Outstanding(fetch'[mount + 1]) = {"urdf"}
        /\ \A k \in Loads \ {mount + 1} : fetch'[k] = fetch[k]
      BY <1>1, <2>1, <2>2
      DEF MountScene, SceneIInv, SceneTypeOK, FetchStates, Outstanding, Files
  <2>4. SceneTypeOK'
      BY <1>1, <2>1, <2>3, SceneAssumption DEF MountScene, SceneIInv, SceneTypeOK, Loads
  <2>5. LoadsOfMounts'
    <3> SUFFICES ASSUME NEW k \in Loads
                 PROVE  /\ k > mount + 1 => load[k].robot = "none" /\ ~load[k].cancelled
                                            /\ ~load[k].resources /\ Outstanding(fetch'[k]) = {}
                        /\ k < mount + 1 => load[k].cancelled
                        /\ k = mount + 1 => (load[k].cancelled <=> scene' = "unmounted")
        BY <1>1 DEF MountScene, LoadsOfMounts, Outstanding
    <3>1. CASE k = mount + 1
        BY <1>1, <2>1, <2>2, <3>1 DEF MountScene
    <3>2. CASE k # mount + 1
        BY <1>1, <2>1, <2>3, <3>2 DEF MountScene, SceneIInv, LoadsOfMounts, Loads
    <3> QED
        BY <3>1, <3>2
  <2>6. LoadStages'
    <3> SUFFICES ASSUME NEW k \in Loads
                 PROVE  /\ load[k].resources => Outstanding(fetch'[k]) = {}
                        /\ "urdf" \in Outstanding(fetch'[k])
                             => load[k].robot = "none" /\ Outstanding(fetch'[k]) = {"urdf"}
                        /\ load[k].robot \notin {"none", "parsed"} => Outstanding(fetch'[k]) = {}
                        /\ load[k].robot = "parsed" => Outstanding(fetch'[k]) # {}
                        /\ Outstanding(fetch'[k]) \cap Meshes # {} => load[k].robot = "parsed"
                        /\ load[k].robot = "owned" => ~load[k].cancelled /\ ~load[k].failed
        BY <1>1 DEF MountScene, LoadStages, Outstanding
    <3>1. CASE k = mount + 1
        BY <2>1, <2>2, <2>3, <3>1, SceneAssumption
    <3>2. CASE k # mount + 1
        BY <2>3, <3>2 DEF SceneIInv, LoadStages
    <3> QED
        BY <3>1, <3>2
  <2>7. ShownOwned'
      BY <1>1, <2>2 DEF MountScene, ShownOwned
  <2>8. TrackerExact'
    <3>1. tracker = NothingAcquired
        BY <1>1, <2>2 DEF MountScene, SceneIInv, TrackerExact, NothingAcquired
    <3>2. tracker' = [tracker EXCEPT !.renderers = @ + 1, !.controls = @ + 1]
        BY <1>1 DEF MountScene
    <3>3. tracker' = [renderers |-> 0 + 1, controls |-> 0 + 1, modelRoots |-> 0, materials |-> 0,
                      dragSessions |-> 0]
        BY <3>1, <3>2 DEF NothingAcquired
    <3>4. tracker' = [renderers |-> 1, controls |-> 1, modelRoots |-> 0, materials |-> 0,
                      dragSessions |-> 0]
        BY <3>3
    <3>5. scene' = "mounted" /\ models' = "none" /\ drag' = "none"
        BY <1>1, <2>2 DEF MountScene
    <3> QED
        BY <3>4, <3>5 DEF TrackerExact
  <2> QED
      BY <2>4, <2>5, <2>6, <2>7, <2>8 DEF SceneIInv
<1>2. CASE RenderModels
  <2>1. TrackerExact'
    <3> DEFINE marks == IF degraded THEN 1 ELSE 0
    <3>1. drag = "none"
        BY <1>2 DEF RenderModels, SceneIInv, ShownOwned
    <3>2. tracker = [renderers |-> 1, controls |-> 1, modelRoots |-> 0, materials |-> 0,
                     dragSessions |-> 0]
        BY <1>2, <3>1 DEF RenderModels, SceneIInv, TrackerExact
    <3>3. tracker' = [tracker EXCEPT !.modelRoots = @ + 2, !.materials = @ + marks]
        BY <1>2 DEF RenderModels, DegradedMaterials
    <3>4. 0 + marks = marks
        OBVIOUS
    <3> HIDE DEF marks
    <3>5. tracker' = [renderers |-> 1, controls |-> 1, modelRoots |-> 0 + 2,
                      materials |-> 0 + marks, dragSessions |-> 0]
        BY <3>2, <3>3
    <3>6. tracker' = [renderers |-> 1, controls |-> 1, modelRoots |-> 2, materials |-> marks,
                      dragSessions |-> 0]
        BY <3>4, <3>5
    <3>7. scene' = "mounted" /\ models' = "shown" /\ drag' = "none" /\ degraded' = degraded
        BY <1>2, <3>1 DEF RenderModels
    <3> QED
        BY <3>6, <3>7 DEF TrackerExact, marks
  <2> QED
      BY <1>2, <2>1, LoadsUntouched DEF RenderModels, SceneIInv, SceneTypeOK, ShownOwned
<1>3. CASE SceneFrame
    BY <1>3, LoadsUntouched DEF SceneFrame, SceneIInv, SceneTypeOK, ShownOwned, TrackerExact
<1>4. CASE UnmountScene \/ RenderThrew
    BY <1>4, TeardownKeeps DEF UnmountScene, RenderThrew
<1>5. CASE ContextLost
    BY <1>5, LoadsUntouched DEF ContextLost, SceneIInv, SceneTypeOK, ShownOwned, TrackerExact
<1>6. ASSUME NEW l \in Loads, UrdfLoaded(l) PROVE SceneIInv'
  <2> DEFINE fs == [f \in Files |-> IF f = "urdf" THEN "done" ELSE "first"]
             ld0 == [load[l] EXCEPT !.robot = "parsed"]
  <2>1. fs \in FetchStates /\ "urdf" \notin Outstanding(fs)
      BY DEF FetchStates, Outstanding
  <2>2. Outstanding(fetch[l]) # {} /\ load[l] \in LoadRecords /\ ~load[l].resources
      BY <1>6 DEF UrdfLoaded, Outstanding, Files, SceneIInv, SceneTypeOK, LoadStages
  <2>3. /\ ld0 \in LoadRecords /\ ld0.cancelled = load[l].cancelled
        /\ ~ld0.resources /\ ld0.robot = "parsed"
      BY <2>2 DEF LoadRecords
  <2>4. PICK bound \in BOOLEAN :
          ItemEnd(l, fs, [load |-> ld0, error |-> FALSE, models |-> FALSE], bound)
      BY <1>6 DEF UrdfLoaded
  <2>5. UNCHANGED SceneRest
      BY <1>6 DEF UrdfLoaded
  <2> HIDE DEF fs, ld0
  <2> QED
      BY <2>1, <2>2, <2>3, <2>4, <2>5, ItemEndKeeps
<1>7. ASSUME NEW l \in Loads, NEW m \in Meshes, MeshLoaded(l, m) PROVE SceneIInv'
  <2> DEFINE fs == [fetch[l] EXCEPT ![m] = "done"]
  <2>1. m \in Outstanding(fetch[l]) /\ m # "urdf" /\ load[l] \in LoadRecords
        /\ fetch[l] \in FetchStates
      BY <1>7, SceneAssumption DEF MeshLoaded, Outstanding, Files, SceneIInv, SceneTypeOK
  <2>2. load[l].robot = "parsed" /\ ~load[l].resources /\ "urdf" \notin Outstanding(fetch[l])
      BY <2>1 DEF SceneIInv, LoadStages
  <2>3. fs \in FetchStates /\ "urdf" \notin Outstanding(fs)
      BY <2>1, <2>2 DEF FetchStates, Outstanding, Files
  <2>4. PICK bound \in BOOLEAN :
          ItemEnd(l, fs, [load |-> load[l], error |-> FALSE, models |-> FALSE], bound)
      BY <1>7 DEF MeshLoaded
  <2>5. UNCHANGED SceneRest
      BY <1>7 DEF MeshLoaded
  <2> HIDE DEF fs
  <2> QED
      BY <2>1, <2>2, <2>3, <2>4, <2>5, ItemEndKeeps
<1>8. ASSUME NEW l \in Loads, NEW f \in Files, NEW network \in BOOLEAN,
             FetchFailed(l, f, network)
      PROVE  SceneIInv'
  <2>1. f \in Outstanding(fetch[l]) /\ load[l] \in LoadRecords /\ fetch[l] \in FetchStates
      BY <1>8 DEF FetchFailed, Outstanding, SceneIInv, SceneTypeOK
  <2>2. CASE shouldRetrySameOriginStaticAsset(l, f, network)
    <3>1. /\ fetch' = [fetch EXCEPT ![l][f] = "retry"]
          /\ UNCHANGED <<load, models>> /\ UNCHANGED SceneRest
        BY <1>8, <2>2 DEF FetchFailed
    <3>2. fetch' \in [Loads -> FetchStates]
        BY <3>1 DEF SceneIInv, SceneTypeOK, FetchStates
    <3>3. Outstanding(fetch'[l]) = Outstanding(fetch[l])
        BY <2>1, <3>1 DEF SceneIInv, SceneTypeOK, FetchStates, Outstanding
    <3>4. \A k \in Loads : Outstanding(fetch'[k]) = Outstanding(fetch[k])
        BY <3>1, <3>3 DEF SceneIInv, SceneTypeOK
    <3>5. LoadsOfMounts'
      <4> SUFFICES ASSUME NEW k \in Loads
                   PROVE  /\ k > mount => load[k].robot = "none" /\ ~load[k].cancelled
                                          /\ ~load[k].resources /\ Outstanding(fetch'[k]) = {}
                          /\ k < mount => load[k].cancelled
                          /\ k = mount => (load[k].cancelled <=> scene = "unmounted")
          BY <3>1 DEF LoadsOfMounts, Outstanding, SceneRest
      <4> QED
          BY <3>4 DEF SceneIInv, LoadsOfMounts
    <3>6. LoadStages'
      <4> SUFFICES ASSUME NEW k \in Loads
                   PROVE  /\ load[k].resources => Outstanding(fetch'[k]) = {}
                          /\ "urdf" \in Outstanding(fetch'[k])
                               => load[k].robot = "none" /\ Outstanding(fetch'[k]) = {"urdf"}
                          /\ load[k].robot \notin {"none", "parsed"}
                               => Outstanding(fetch'[k]) = {}
                          /\ load[k].robot = "parsed" => Outstanding(fetch'[k]) # {}
                          /\ Outstanding(fetch'[k]) \cap Meshes # {} => load[k].robot = "parsed"
                          /\ load[k].robot = "owned" => ~load[k].cancelled /\ ~load[k].failed
          BY <3>1 DEF LoadStages, Outstanding
      <4> QED
          BY <3>4 DEF SceneIInv, LoadStages
    <3> QED
        BY <3>1, <3>2, <3>5, <3>6
        DEF SceneRest, SceneIInv, SceneTypeOK, ShownOwned, TrackerExact
  <2>3. CASE ~shouldRetrySameOriginStaticAsset(l, f, network)
    <3> DEFINE fs == [fetch[l] EXCEPT ![f] = "done"]
               ld0 == [load[l] EXCEPT !.failed = TRUE]
    <3>1. ~load[l].resources /\ load[l].robot \in {"none", "parsed"}
        BY <2>1 DEF SceneIInv, LoadStages
    <3>2. /\ ld0 \in LoadRecords /\ ld0.cancelled = load[l].cancelled
          /\ ~ld0.resources /\ ld0.robot = load[l].robot
        BY <2>1, <3>1 DEF LoadRecords
    <3>3. fs \in FetchStates /\ Outstanding(fs) = Outstanding(fetch[l]) \ {f}
        BY <2>1 DEF FetchStates, Outstanding
    <3>4. "urdf" \notin Outstanding(fs)
        BY <2>1, <3>3 DEF SceneIInv, LoadStages
    <3>5. load[l].robot = "none" => Outstanding(fs) = {}
        BY <2>1, <3>3 DEF SceneIInv, LoadStages, Outstanding, Files
    <3>6. PICK bound \in BOOLEAN :
            ItemEnd(l, fs, [load |-> ld0, error |-> ~load[l].cancelled, models |-> FALSE], bound)
        BY <1>8, <2>3 DEF FetchFailed, failModelLoad
    <3>7. UNCHANGED SceneRest
        BY <1>8 DEF FetchFailed
    <3>8. (~load[l].cancelled) \in BOOLEAN
        OBVIOUS
    <3> HIDE DEF fs, ld0
    <3> QED
        BY <2>1, <3>1, <3>2, <3>3, <3>4, <3>5, <3>6, <3>7, <3>8, ItemEndKeeps
  <2> QED
      BY <2>2, <2>3
<1>9. CASE FeedbackDegraded \/ FeedbackRecovered
  <2>1. /\ UNCHANGED <<SceneKept, drag>>
        /\ degraded' \in BOOLEAN /\ degraded' # degraded
        /\ tracker' = [tracker EXCEPT !.materials =
             IF Interactive THEN IF degraded' THEN @ + 1 ELSE @ - 1 ELSE @]
      BY <1>9 DEF FeedbackDegraded, FeedbackRecovered, SceneIInv, SceneTypeOK
  <2>2. Interactive <=> models = "shown"
      BY DEF Interactive, SceneIInv, ShownOwned
  <2>3. TrackerExact'
    <3> DEFINE marks == IF models = "shown" /\ degraded THEN 1 ELSE 0
               after == IF Interactive THEN IF degraded' THEN marks + 1 ELSE marks - 1 ELSE marks
    <3>1. after = IF models = "shown" /\ degraded' THEN 1 ELSE 0
        BY <2>1, <2>2 DEF SceneIInv, SceneTypeOK
    <3>2. tracker.materials = marks
        BY DEF SceneIInv, TrackerExact
    <3> HIDE DEF marks
    <3>3. tracker' = [tracker EXCEPT !.materials = after]
        BY <2>1, <3>2
    <3> HIDE DEF after
    <3> QED
        BY <2>1, <3>1, <3>3 DEF SceneKept, SceneIInv, TrackerExact
  <2> QED
      BY <2>1, <2>3, LoadsUntouched DEF SceneKept, SceneIInv, SceneTypeOK, ShownOwned
<1>10. ASSUME NEW f \in Focuses, FocusCamera(f) PROVE SceneIInv'
    BY <1>10, LoadsUntouched
    DEF FocusCamera, SceneKept, SceneIInv, SceneTypeOK, ShownOwned, TrackerExact
<1>11. CASE FitCamera
    BY <1>11, LoadsUntouched
    DEF FitCamera, SceneKept, SceneIInv, SceneTypeOK, ShownOwned, TrackerExact
<1>12. ASSUME NEW p \in Pointers, beginDrag(p) PROVE SceneIInv'
    BY <1>12, LoadsUntouched, SceneAssumption
    DEF beginDrag, Interactive, SceneKept, SceneIInv, SceneTypeOK, ShownOwned, TrackerExact
<1>13. ASSUME NEW p \in Pointers, NEW onHandle \in BOOLEAN, finishDrag(p, onHandle)
       PROVE  SceneIInv'
    BY <1>13, LoadsUntouched
    DEF finishDrag, SceneKept, SceneIInv, SceneTypeOK, ShownOwned, TrackerExact
<1>14. CASE SelectJoint
    BY <1>14, LoadsUntouched
    DEF SelectJoint, Interactive, SceneKept, SceneIInv, SceneTypeOK, ShownOwned, TrackerExact
<1>15. CASE UNCHANGED sceneVars
    BY <1>15, LoadsUntouched DEF sceneVars, SceneIInv, SceneTypeOK, ShownOwned, TrackerExact
<1> QED
    BY <1>1, <1>2, <1>3, <1>4, <1>5, <1>6, <1>7, <1>8, <1>9, <1>10, <1>11, <1>12, <1>13,
       <1>14, <1>15 DEF SceneNext

LEMMA SceneInitIInv == SceneInit => SceneIInv
<1> SUFFICES ASSUME SceneInit PROVE SceneIInv
    OBVIOUS
<1>1. SceneTypeOK
  <2>1. load \in [Loads -> LoadRecords]
      BY DEF SceneInit, LoadRecords
  <2>2. fetch \in [Loads -> FetchStates]
      BY DEF SceneInit, FetchStates
  <2>3. mount \in 0 .. MaxMounts /\ scene = "unmounted"
      BY SceneAssumption DEF SceneInit
  <2>4. models = "none" /\ drag = "none" /\ degraded = FALSE
      BY DEF SceneInit
  <2> QED
      BY <2>1, <2>2, <2>3, <2>4 DEF SceneTypeOK
<1>2. \A l \in Loads : Outstanding(fetch[l]) = {}
    BY DEF SceneInit, Outstanding
<1>3. LoadsOfMounts
  <2>1. \A l \in Loads : l > 0 /\ l # 0
      BY SceneAssumption DEF Loads
  <2>2. mount = 0 /\ \A l \in Loads : /\ load[l].robot = "none"
                                     /\ ~load[l].cancelled /\ ~load[l].resources
      BY DEF SceneInit
  <2> QED
      BY <1>2, <2>1, <2>2 DEF LoadsOfMounts, Loads
<1>4. LoadStages
    BY <1>2 DEF SceneInit, LoadStages
<1>5. ShownOwned /\ TrackerExact
    BY DEF SceneInit, ShownOwned, TrackerExact, NothingAcquired
<1> QED
    BY <1>1, <1>3, <1>4, <1>5 DEF SceneIInv

LEMMA SceneIInvReleased == SceneIInv => SceneReleased
<1> SUFFICES ASSUME SceneIInv PROVE SceneReleased
    OBVIOUS
<1>1. models # "none" => load[mount].robot = "owned"
    BY DEF SceneIInv, ShownOwned
<1>2. tracker.dragSessions = IF drag = "none" THEN 0 ELSE 1
    BY DEF SceneIInv, TrackerExact
<1>3. scene = "unmounted" => tracker = NothingAcquired
  <2>1. scene = "unmounted" => models = "none" /\ drag = "none"
      BY DEF SceneIInv, ShownOwned
  <2> QED
      BY <2>1 DEF SceneIInv, TrackerExact, NothingAcquired
<1>4. \A l \in Loads : (load[l].cancelled \/ load[l].failed) /\ Outstanding(fetch[l]) = {}
                         => load[l].robot \in {"none", "disposed"}
    BY DEF SceneIInv, SceneTypeOK, LoadRecords, LoadStages
<1> QED
    BY <1>1, <1>2, <1>3, <1>4 DEF SceneReleased

\* However the loads of any number of mounts, failures, drags and the leaving
\* of the page interleave, nothing leaks and nothing disposed is shown.
THEOREM SceneAlwaysReleased == SceneSpec => []SceneReleased
BY SceneInitIInv, SceneStep, SceneIInvReleased, PTL DEF SceneSpec

-----------------------------------------------------------------------------
(* The action library.                                                     *)

-----------------------------------------------------------------------------
(* Libraries and their size                                                *)

\* A library has finitely many programs under their own ids.
IsLibrary(library) ==
  /\ IsFiniteSet(DOMAIN library) /\ DOMAIN library \subseteq ProgramIds
  /\ \A id \in DOMAIN library : library[id] \in Program

LEMMA BytesFinite ==
  ASSUME NEW library, IsLibrary(library)
  PROVE  IsFiniteSet(BytesOf(library))
  <1> DEFINE f == [id \in DOMAIN library |-> {<<id, i>> : i \in 0 .. Len(library[id].waypoints)}]
  <1>1. ASSUME NEW id \in DOMAIN library PROVE IsFiniteSet(f[id])
    <2> DEFINE n == Len(library[id].waypoints)
               S == {<<id, i>> : i \in 0 .. n}
               g == [x \in S |-> x[2]]
    <2>1. n \in Nat
      BY DEF IsLibrary, Program
    <2> HIDE DEF n
    <2>2. IsFiniteSet(0 .. n)
      BY <2>1, FS_Interval
    <2>3. g \in Injection(S, 0 .. n)
      <3>1. \A x \in S : x[2] \in 0 .. n /\ x = <<id, x[2]>>
        OBVIOUS
      <3>2. \A x \in S : g[x] = x[2]
        OBVIOUS
      <3>3. g \in [S -> 0 .. n]
        BY <3>1
      <3> HIDE DEF S, g
      <3>4. \A x, y \in S : g[x] = g[y] => x = y
        BY <3>1, <3>2
      <3> QED
        BY <3>3, <3>4 DEF Injection, IsInjective, g
    <2>4. IsFiniteSet(S)
      <3> HIDE DEF S, g
      <3> QED
        BY <2>2, <2>3, FS_Injection
    <2> QED
      BY <2>4 DEF n
  <1>2. BytesOf(library) = UNION {f[id] : id \in DOMAIN library}
    BY DEF BytesOf
  <1>3. IsFiniteSet(DOMAIN library)
    BY DEF IsLibrary
  <1> HIDE DEF f
  <1> QED
    BY <1>1, <1>2, <1>3, FiniteUnion

\* A library with fewer programs, of the same length each, fits as well.
LEMMA SmallerFits ==
  ASSUME NEW library, IsLibrary(library), FitsLibrary(library),
         NEW part, DOMAIN part \subseteq DOMAIN library,
         \A id \in DOMAIN part : part[id].waypoints = library[id].waypoints
  PROVE  FitsLibrary(part) /\ IsFiniteSet(DOMAIN part)
  <1>1. IsFiniteSet(BytesOf(library)) /\ IsFiniteSet(DOMAIN library)
    BY BytesFinite DEF IsLibrary
  <1>2. BytesOf(part) \subseteq BytesOf(library)
    BY DEF BytesOf
  <1>3. Cardinality(BytesOf(part)) <= Cardinality(BytesOf(library))
    BY <1>1, <1>2, FS_Subset
  <1>4. Cardinality(DOMAIN part) <= Cardinality(DOMAIN library) /\ IsFiniteSet(DOMAIN part)
    BY <1>1, FS_Subset
  <1>5. /\ Cardinality(BytesOf(part)) \in Nat /\ Cardinality(BytesOf(library)) \in Nat
        /\ Cardinality(DOMAIN part) \in Nat /\ Cardinality(DOMAIN library) \in Nat
    BY <1>1, <1>2, <1>4, FS_Subset, FS_CardinalityType
  <1>6. LibraryLimit \in Nat /\ ByteLimit \in Nat
    BY ActionAssumption
  <1> QED
    BY <1>3, <1>4, <1>5, <1>6 DEF FitsLibrary, SizeBytes

\* Hydration keeps every valid record of a library that fits.
LEMMA AllKept ==
  ASSUME NEW disk, IsLibrary(disk), FitsLibrary(disk)
  PROVE  KeptKeys(disk) = ValidKeys(disk)
  <1> DEFINE place == NewestFirst(disk)
             Beside(kept, k) == {j \in kept : place[j] < place[k]} \union {k}
             Kept(kept) == \A k \in ValidKeys(disk) :
                             k \in kept <=> FitsLibrary(Restrict(disk, Beside(kept, k)))
  <1>1. ASSUME NEW kept \in SUBSET ValidKeys(disk), NEW k \in ValidKeys(disk)
        PROVE  FitsLibrary(Restrict(disk, Beside(kept, k)))
    <2> DEFINE part == Restrict(disk, Beside(kept, k))
    <2>1. DOMAIN part \subseteq DOMAIN disk
      BY DEF Restrict, ValidKeys
    <2>2. \A id \in DOMAIN part : part[id].waypoints = disk[id].waypoints
      BY DEF Restrict
    <2> HIDE DEF part
    <2>3. FitsLibrary(part)
      BY <2>1, <2>2, SmallerFits
    <2> QED
      BY <2>3 DEF part
  <1>2. Kept(ValidKeys(disk))
    BY <1>1
  <1>3. KeptKeys(disk) = CHOOSE kept \in SUBSET ValidKeys(disk) : Kept(kept)
    BY DEF KeptKeys
  <1>4. KeptKeys(disk) \in SUBSET ValidKeys(disk) /\ Kept(KeptKeys(disk))
    <2> HIDE DEF Kept
    <2> QED
      BY <1>2, <1>3
  <1> QED
    BY <1>1, <1>4

\* Parsing a program trims its name and leaves the rest.
LEMMA ParsedProgram ==
  ASSUME NEW p \in Program
  PROVE  /\ Parsed(p) \in Program /\ Parsed(p).waypoints = p.waypoints
         /\ Parsed(p).programId = p.programId /\ Parsed(p).name = "ok"
         /\ Parsed(p).revision = p.revision
         /\ validateActionProgramV1(p) => validateActionProgramV1(Parsed(p))
         /\ p.name = "ok" => Parsed(p) = p
  <1>1. /\ Parsed(p) \in Program /\ Parsed(p).waypoints = p.waypoints
        /\ Parsed(p).programId = p.programId /\ Parsed(p).name = "ok"
        /\ Parsed(p).revision = p.revision /\ Parsed(p).createdAt = p.createdAt
        /\ Parsed(p).updatedAt = p.updatedAt
        /\ p.name = "ok" => Parsed(p) = p
    BY DEF Program, Parsed
  <1> QED
    BY <1>1 DEF validateActionProgramV1, UniqueWaypointIds

-----------------------------------------------------------------------------
(* The inductive invariant                                                 *)

\* The library is one that saving and hydration let in.
SavedInv ==
  /\ IsLibrary(programs) /\ FitsLibrary(programs)
  /\ \A id \in DOMAIN programs :
       programs[id].programId = id /\ programs[id].name = "ok"
       /\ validateActionProgramV1(programs[id])

\* Storage holds the library, but for what was broken since; a reload has yet
\* to drop broken records.
StoredInv ==
  /\ stored = Incompatible => DOMAIN programs = {}
  /\ stored # Incompatible => IsLibrary(stored) /\ FitsLibrary(stored)
  /\ \A id \in DOMAIN programs \ damaged :
       /\ id \in DOMAIN stored /\ stored[id].programId = id
       /\ validateActionProgramV1(stored[id])
       /\ programs[id] = Parsed(stored[id])
  /\ stored # Incompatible => \A id \in damaged : id \in DOMAIN stored /\ stored[id].revision = 0

\* Drafts and files are programs.
DocumentInv ==
  /\ draft \in Program \union {NoDraft}
  /\ files \subseteq Program /\ reading \subseteq Program
  /\ target \in Int /\ feedback \in Int /\ clock \in Nat /\ ops \in Nat

LibraryInv == SavedInv /\ StoredInv /\ DocumentInv

\* Hydration of a library that fits keeps its valid records, names trimmed.
LEMMA Restored ==
  ASSUME NEW disk, disk # Incompatible, IsLibrary(disk), FitsLibrary(disk)
  PROVE  LET back == restorePersistedActionPrograms(disk)
         IN  /\ IsLibrary(back) /\ FitsLibrary(back)
             /\ DOMAIN back = ValidKeys(disk)
             /\ \A id \in ValidKeys(disk) :
                  /\ id \in DOMAIN disk /\ disk[id].programId = id
                  /\ validateActionProgramV1(disk[id])
                  /\ back[id] = Parsed(disk[id])
                  /\ back[id].programId = id /\ back[id].name = "ok"
                  /\ validateActionProgramV1(back[id])
  <1> DEFINE back == restorePersistedActionPrograms(disk)
  <1>1. back = [id \in ValidKeys(disk) |-> Parsed(disk[id])]
    BY AllKept DEF restorePersistedActionPrograms
  <1>2. \A id \in ValidKeys(disk) :
          /\ id \in DOMAIN disk /\ disk[id].programId = id
          /\ validateActionProgramV1(disk[id]) /\ disk[id] \in Program
    BY DEF ValidKeys, IsLibrary
  <1>3. DOMAIN back = ValidKeys(disk) /\ \A id \in ValidKeys(disk) : back[id] = Parsed(disk[id])
    BY <1>1
  <1>4. /\ \A id \in DOMAIN back : back[id].waypoints = disk[id].waypoints
        /\ DOMAIN back \subseteq DOMAIN disk
    BY <1>2, <1>3, ParsedProgram
  <1> HIDE DEF back
  <1>5. FitsLibrary(back) /\ IsFiniteSet(DOMAIN back)
    BY <1>4, SmallerFits
  <1>6. IsLibrary(back)
    BY <1>2, <1>3, <1>4, <1>5, ParsedProgram DEF IsLibrary
  <1> QED
    BY <1>2, <1>3, <1>5, <1>6, ParsedProgram DEF back

\* Storage of another format gives an empty library.
LEMMA NothingRestored ==
  LET back == restorePersistedActionPrograms(Incompatible)
  IN  IsLibrary(back) /\ FitsLibrary(back) /\ DOMAIN back = {}
  <1> DEFINE back == restorePersistedActionPrograms(Incompatible)
  <1>1. DOMAIN back = {}
    BY DEF restorePersistedActionPrograms
  <1>2. BytesOf(back) = {}
    BY <1>1 DEF BytesOf
  <1> HIDE DEF back
  <1>3. LibraryLimit \in Nat /\ ByteLimit \in Nat
    BY ActionAssumption
  <1>4. FitsLibrary(back) /\ IsLibrary(back)
    BY <1>1, <1>2, <1>3, FS_EmptySet DEF FitsLibrary, SizeBytes, IsLibrary
  <1> QED
    BY <1>1, <1>4 DEF back

\* A reload gives every record that was not broken, and no broken one.
LEMMA Reloaded ==
  ASSUME StoredInv
  PROVE  LET back == restorePersistedActionPrograms(stored)
         IN  /\ \A id \in DOMAIN programs \ damaged : id \in DOMAIN back /\ back[id] = programs[id]
             /\ \A id \in DOMAIN back : id \notin damaged
  <1> DEFINE back == restorePersistedActionPrograms(stored)
  <1>1. CASE stored = Incompatible
    BY <1>1, NothingRestored DEF StoredInv
  <1>2. CASE stored # Incompatible
    <2>1. IsLibrary(stored) /\ FitsLibrary(stored)
      BY <1>2 DEF StoredInv
    <2>2. /\ DOMAIN back = ValidKeys(stored)
          /\ \A id \in ValidKeys(stored) :
               back[id] = Parsed(stored[id]) /\ validateActionProgramV1(stored[id])
      BY <1>2, <2>1, Restored
    <2>3. \A id \in DOMAIN programs \ damaged : id \in DOMAIN back /\ back[id] = programs[id]
      <3> HIDE DEF back
      <3> QED
        BY <2>2 DEF StoredInv, ValidKeys
    <2>4. ASSUME NEW id \in DOMAIN back, id \in damaged PROVE FALSE
      <3>1. stored[id].revision = 0
        BY <1>2, <2>4 DEF StoredInv
      <3>2. stored[id].revision \in 1 .. RevisionLimit
        BY <2>2, <2>4 DEF validateActionProgramV1
      <3> QED
        BY <3>1, <3>2, ActionAssumption
    <2> QED
      BY <2>3, <2>4
  <1> QED
    BY <1>1, <1>2

-----------------------------------------------------------------------------
(* The initial state                                                       *)

LEMMA LibraryInvInit ==
  ASSUME ActionInit
  PROVE  LibraryInv
  <1>1. CASE stored = Incompatible
    <2>1. IsLibrary(programs) /\ FitsLibrary(programs) /\ DOMAIN programs = {}
      BY <1>1, NothingRestored DEF ActionInit
    <2> QED
      BY <1>1, <2>1, StorageAssumption DEF LibraryInv, SavedInv, StoredInv, DocumentInv, ActionInit, Unmeasured
  <1>2. CASE stored # Incompatible
    <2>1. IsLibrary(stored) /\ FitsLibrary(stored)
      BY <1>2, StorageAssumption DEF ActionInit, IsLibrary
    <2>2. /\ IsLibrary(programs) /\ FitsLibrary(programs)
          /\ DOMAIN programs = ValidKeys(stored)
          /\ \A id \in ValidKeys(stored) :
               /\ id \in DOMAIN stored /\ stored[id].programId = id
               /\ validateActionProgramV1(stored[id])
               /\ programs[id] = Parsed(stored[id])
               /\ programs[id].programId = id /\ programs[id].name = "ok"
               /\ validateActionProgramV1(programs[id])
      BY <1>2, <2>1, Restored DEF ActionInit
    <2>3. SavedInv
      BY <2>2 DEF SavedInv
    <2>4. StoredInv
      BY <1>2, <2>1, <2>2 DEF StoredInv, ActionInit
    <2>5. DocumentInv
      BY StorageAssumption DEF DocumentInv, ActionInit, Unmeasured
    <2> QED
      BY <2>3, <2>4, <2>5 DEF LibraryInv
  <1> QED
    BY <1>1, <1>2

-----------------------------------------------------------------------------
(* Steps.  What each step does to the library and to storage.              *)

LibraryMove ==
  \/ programs' = programs /\ PersistLibrary(programs)
  \/ UNCHANGED <<programs, stored, damaged>>
  \/ \E confirmed \in BOOLEAN : saveDraft(confirmed)
  \/ \E id \in ProgramIds : deleteSavedProgram(id)
  \/ \E id \in ProgramIds : DamageStorage(id)
  \/ ReloadPage

LEMMA StepMovesLibrary ==
  ASSUME [ActionNext]_actionVars
  PROVE  LibraryMove
  <1>1. CASE UNCHANGED actionVars
    BY <1>1 DEF actionVars, LibraryMove
  <1>2. ASSUME NEW id \in ProgramIds, createProgram(id) PROVE LibraryMove
    BY <1>2 DEF createProgram, StoreLibrary, LibraryMove
  <1>3. ASSUME NEW id \in ProgramIds, NEW w \in WaypointIds, createShowcaseExample(id, w)
        PROVE  LibraryMove
    BY <1>3 DEF createShowcaseExample, StoreLibrary, LibraryMove
  <1>4. ASSUME NEW id \in ProgramIds, NEW ids, duplicateProgram(id, ids) PROVE LibraryMove
    BY <1>4 DEF duplicateProgram, StoreLibrary, LibraryMove
  <1>5. ASSUME NEW id \in ProgramIds, openSavedProgram(id) PROVE LibraryMove
    BY <1>5 DEF openSavedProgram, StoreLibrary, LibraryMove
  <1>6. ASSUME NEW f, importProgram(f) PROVE LibraryMove
    BY <1>6 DEF importProgram, LibraryMove
  <1>7. ASSUME NEW f, ImportRead(f) PROVE LibraryMove
    BY <1>7 DEF ImportRead, LibraryMove
  <1>8. CASE exportProgram
    BY <1>8 DEF exportProgram, LibraryMove
  <1>9. ASSUME NEW name, updateDraftMeta(name) PROVE LibraryMove
    BY <1>9 DEF updateDraftMeta, StoreLibrary, LibraryMove
  <1>10. CASE Waypoints
    <2>1. programs' = programs /\ PersistLibrary(programs)
      BY <1>10 DEF Waypoints, addWaypoint, removeWaypoint, moveWaypoint, selectWaypoint,
        previewWaypoint, EditPose, EditWait, UpdateSelected, EditDraft, StoreLibrary
    <2> QED
      BY <2>1 DEF LibraryMove
  <1>11. CASE FeedbackChanges \/ ActionClock
    BY <1>11 DEF FeedbackChanges, ActionClock, LibraryMove
  <1> QED
    BY <1>1, <1>2, <1>3, <1>4, <1>5, <1>6, <1>7, <1>8, <1>9, <1>10, <1>11
    DEF ActionNext, LibraryMove

\* A library just written is what storage holds.
LEMMA Persisted ==
  ASSUME SavedInv', stored' = programs', damaged' = {}
  PROVE  StoredInv'
  <1>1. stored' # Incompatible
    <2>1. DOMAIN programs' \subseteq ProgramIds /\ "incompatible" \in DOMAIN Incompatible
      BY DEF SavedInv, IsLibrary, Incompatible
    <2> QED
      BY <2>1, ActionAssumption
  <1>2. \A id \in DOMAIN programs' : programs'[id] = Parsed(programs'[id])
    BY ParsedProgram DEF SavedInv, IsLibrary
  <1> QED
    BY <1>1, <1>2 DEF SavedInv, StoredInv

\* What a save puts into the library.
LEMMA SavedProgramType ==
  ASSUME SavedInv, draft \in Program, clock \in Nat
  PROVE  /\ SavedProgram \in Program /\ SavedProgram.programId = draft.programId
         /\ SavedProgram.name = "ok"
         /\ draft.programId \in DOMAIN programs =>
              SavedProgram.revision = programs[draft.programId].revision + 1
  <1> DEFINE r == IF draft.programId \in DOMAIN programs
                    THEN programs[draft.programId].revision + 1 ELSE draft.revision
  <1>1. r \in Nat
    BY DEF SavedInv, IsLibrary, Program
  <1>2. Parsed(draft) \in Program /\ Parsed(draft).programId = draft.programId
        /\ Parsed(draft).name = "ok" /\ Parsed(draft).revision = draft.revision
    BY ParsedProgram
  <1>3. SavedProgram = [Parsed(draft) EXCEPT !.revision = r, !.updatedAt = clock]
    BY <1>2 DEF SavedProgram
  <1> HIDE DEF r
  <1>4. /\ SavedProgram \in Program /\ SavedProgram.programId = Parsed(draft).programId
        /\ SavedProgram.name = Parsed(draft).name /\ SavedProgram.revision = r
    <2>1. ASSUME NEW p \in Program
          PROVE  LET q == [p EXCEPT !.revision = r, !.updatedAt = clock]
                 IN  /\ q \in Program /\ q.programId = p.programId
                     /\ q.name = p.name /\ q.revision = r
      <3> DEFINE m == [p EXCEPT !.revision = r]
                 q == [m EXCEPT !.updatedAt = clock]
      <3>1. m \in Program /\ m.programId = p.programId /\ m.name = p.name /\ m.revision = r
        BY <1>1 DEF Program
      <3> HIDE DEF m
      <3>2. \A c \in Int, d \in Program :
              LET e == [d EXCEPT !.updatedAt = c]
              IN  e \in Program /\ e.programId = d.programId /\ e.name = d.name /\ e.revision = d.revision
        BY DEF Program
      <3>3. q = [p EXCEPT !.revision = r, !.updatedAt = clock]
        BY DEF m
      <3> QED
        BY <3>1, <3>2, <3>3, clock \in Int
    <2> QED
      BY <1>2, <1>3, <2>1
  <1> QED
    BY <1>2, <1>4 DEF r

\* A save writes one record, of a larger revision than the one it replaces.
LEMMA SaveWrites ==
  ASSUME LibraryInv, NEW confirmed, saveDraft(confirmed)
  PROVE  /\ SavedInv' /\ StoredInv'
         /\ \A id \in DOMAIN programs \intersect DOMAIN programs' :
              programs'[id] # programs[id] => programs'[id].revision > programs[id].revision
  <1> DEFINE p == SavedProgram
             D == DOMAIN programs \union {p.programId}
  <1>1. draft \in Program /\ clock \in Nat
    BY DEF LibraryInv, DocumentInv, saveDraft, HasDraft
  <1>2. /\ p \in Program /\ p.programId = draft.programId /\ p.name = "ok"
        /\ draft.programId \in DOMAIN programs =>
             p.revision = programs[draft.programId].revision + 1
    BY <1>1, SavedProgramType DEF LibraryInv
  <1>3. validateActionProgramV1(p) /\ FitsLibrary(WithProgram(programs, p))
    BY DEF saveDraft, Saveable
  <1>4. programs' = WithProgram(programs, p) /\ stored' = programs' /\ damaged' = {}
    BY DEF saveDraft, StoreLibrary, PersistLibrary
  <1> HIDE DEF p
  <1>5. /\ DOMAIN programs' = D
        /\ \A id \in D : programs'[id] = IF id = p.programId THEN p ELSE programs[id]
    BY <1>4 DEF WithProgram
  <1>6. SavedInv'
    <2>1. IsFiniteSet(DOMAIN programs) /\ DOMAIN programs \subseteq ProgramIds
          /\ \A id \in DOMAIN programs : programs[id] \in Program
      BY DEF LibraryInv, SavedInv, IsLibrary
    <2>2. p.programId \in ProgramIds
      BY <1>2 DEF Program
    <2>3. IsFiniteSet(D)
      BY <2>1, FS_AddElement
    <2>4. IsLibrary(programs')
      BY <1>2, <1>5, <2>1, <2>2, <2>3 DEF IsLibrary
    <2>5. \A id \in D : programs'[id].programId = id /\ programs'[id].name = "ok"
                        /\ validateActionProgramV1(programs'[id])
      BY <1>2, <1>3, <1>5 DEF LibraryInv, SavedInv
    <2> QED
      BY <1>3, <1>4, <1>5, <2>4, <2>5 DEF SavedInv
  <1>7. StoredInv'
    BY <1>4, <1>6, Persisted
  <1>8. ASSUME NEW id \in DOMAIN programs, programs'[id] # programs[id]
        PROVE  programs'[id].revision > programs[id].revision
    <2>1. id = p.programId /\ programs'[id].revision = programs[id].revision + 1
      BY <1>2, <1>5, <1>8
    <2>2. programs[id].revision \in Nat
      BY DEF LibraryInv, SavedInv, IsLibrary, Program
    <2> QED
      BY <2>1, <2>2
  <1> QED
    BY <1>6, <1>7, <1>8

\* A deletion leaves the other programs as they are.
LEMMA DeleteLeaves ==
  ASSUME LibraryInv, NEW gone, deleteSavedProgram(gone)
  PROVE  /\ SavedInv' /\ StoredInv'
         /\ \A id \in DOMAIN programs \intersect DOMAIN programs' : programs'[id] = programs[id]
  <1>1. /\ programs' = [k \in DOMAIN programs \ {gone} |-> programs[k]]
        /\ stored' = programs' /\ damaged' = {}
    BY DEF deleteSavedProgram, StoreLibrary, PersistLibrary
  <1>2. DOMAIN programs' \subseteq DOMAIN programs
        /\ \A id \in DOMAIN programs' : programs'[id] = programs[id]
    BY <1>1
  <1>3. IsLibrary(programs) /\ FitsLibrary(programs)
    BY DEF LibraryInv, SavedInv
  <1>4. FitsLibrary(programs') /\ IsFiniteSet(DOMAIN programs')
    BY <1>2, <1>3, SmallerFits
  <1>5. SavedInv'
    BY <1>2, <1>3, <1>4 DEF LibraryInv, SavedInv, IsLibrary
  <1> QED
    BY <1>1, <1>2, <1>5, Persisted

\* A broken record is one the next reload drops.
LEMMA DamageKept ==
  ASSUME LibraryInv, NEW broken \in ProgramIds, DamageStorage(broken)
  PROVE  SavedInv' /\ StoredInv'
  <1>1. /\ programs' = programs
        /\ broken \in DOMAIN stored /\ damaged' = damaged \union {broken}
        /\ stored' = [stored EXCEPT ![broken] = [stored[broken] EXCEPT !.revision = 0]]
    BY DEF DamageStorage
  <1>2. stored # Incompatible
    BY <1>1, ActionAssumption DEF Incompatible
  <1>3. IsLibrary(stored) /\ FitsLibrary(stored)
    BY <1>2 DEF LibraryInv, StoredInv
  <1>4. /\ DOMAIN stored' = DOMAIN stored
        /\ \A id \in DOMAIN stored : id # broken => stored'[id] = stored[id]
        /\ stored'[broken] = [stored[broken] EXCEPT !.revision = 0]
    BY <1>1
  <1>5. /\ stored'[broken] \in Program /\ stored'[broken].revision = 0
        /\ stored'[broken].waypoints = stored[broken].waypoints
    <2> DEFINE p == stored[broken]
    <2>1. p \in Program
      BY <1>1, <1>3 DEF IsLibrary
    <2> HIDE DEF p
    <2> QED
      BY <1>4, <2>1 DEF Program, p
  <1>6. FitsLibrary(stored')
    BY <1>3, <1>4, <1>5, SmallerFits
  <1>7. IsLibrary(stored')
    BY <1>3, <1>4, <1>5 DEF IsLibrary
  <1>8. stored' # Incompatible
    BY <1>7, ActionAssumption DEF IsLibrary, Incompatible
  <1>9. \A id \in damaged' : id \in DOMAIN stored' /\ stored'[id].revision = 0
    BY <1>1, <1>2, <1>4, <1>5 DEF LibraryInv, StoredInv
  <1>10. \A id \in DOMAIN programs' \ damaged' :
           /\ id \in DOMAIN stored' /\ stored'[id].programId = id
           /\ validateActionProgramV1(stored'[id])
           /\ programs'[id] = Parsed(stored'[id])
    BY <1>1, <1>4 DEF LibraryInv, StoredInv
  <1> QED
    BY <1>1, <1>6, <1>7, <1>8, <1>9, <1>10 DEF LibraryInv, SavedInv, StoredInv

\* A reload keeps storage, broken records included, and the rest in memory.
LEMMA ReloadKeeps ==
  ASSUME LibraryInv, ReloadPage
  PROVE  /\ SavedInv' /\ StoredInv'
         /\ \A id \in DOMAIN programs \intersect DOMAIN programs' : programs'[id] = programs[id]
  <1>1. programs' = restorePersistedActionPrograms(stored) /\ stored' = stored /\ damaged' = {}
    BY DEF ReloadPage
  <1>2. \A id \in DOMAIN programs \intersect DOMAIN programs' : programs'[id] = programs[id]
    BY <1>1, Reloaded DEF LibraryInv
  <1>3. CASE stored = Incompatible
    <2>1. IsLibrary(programs') /\ FitsLibrary(programs') /\ DOMAIN programs' = {}
      BY <1>1, <1>3, NothingRestored
    <2> QED
      BY <1>1, <1>2, <1>3, <2>1 DEF SavedInv, StoredInv
  <1>4. CASE stored # Incompatible
    <2>1. IsLibrary(stored) /\ FitsLibrary(stored)
      BY <1>4 DEF LibraryInv, StoredInv
    <2>2. /\ IsLibrary(programs') /\ FitsLibrary(programs')
          /\ DOMAIN programs' = ValidKeys(stored)
          /\ \A id \in ValidKeys(stored) :
               /\ id \in DOMAIN stored /\ stored[id].programId = id
               /\ validateActionProgramV1(stored[id])
               /\ programs'[id] = Parsed(stored[id])
               /\ programs'[id].programId = id /\ programs'[id].name = "ok"
               /\ validateActionProgramV1(programs'[id])
      BY <1>1, <1>4, <2>1, Restored
    <2> QED
      BY <1>1, <1>2, <1>4, <2>1, <2>2 DEF SavedInv, StoredInv
  <1> QED
    BY <1>3, <1>4

LEMMA LibraryStep ==
  ASSUME LibraryInv, LibraryMove
  PROVE  /\ SavedInv' /\ StoredInv'
         /\ \A id \in DOMAIN programs \intersect DOMAIN programs' :
              programs'[id] # programs[id] => programs'[id].revision > programs[id].revision
  <1>1. CASE programs' = programs /\ PersistLibrary(programs)
    <2>1. SavedInv'
      BY <1>1 DEF LibraryInv, SavedInv
    <2> QED
      BY <1>1, <2>1, Persisted DEF PersistLibrary
  <1>2. CASE UNCHANGED <<programs, stored, damaged>>
    BY <1>2 DEF LibraryInv, SavedInv, StoredInv
  <1>3. ASSUME NEW id \in ProgramIds, DamageStorage(id) PROVE programs' = programs
    BY <1>3 DEF DamageStorage
  <1> QED
    BY <1>1, <1>2, <1>3, SaveWrites, DeleteLeaves, DamageKept, ReloadKeeps DEF LibraryMove

-----------------------------------------------------------------------------
(* Steps.  Documents stay programs.                                        *)

LEMMA SetDraftType ==
  ASSUME NEW p \in Program, NEW origin, setDraft(p, origin)
  PROVE  draft' \in Program \union {NoDraft}
  BY DEF setDraft

LEMMA CreatedType ==
  ASSUME NEW id \in ProgramIds, NEW waypoints \in Seq(Waypoint), NEW now \in Nat
  PROVE  createActionProgramV1(id, waypoints, now) \in Program
  BY DEF createActionProgramV1, Program

LEMMA CreatedWaypointType ==
  ASSUME NEW id \in WaypointIds, NEW pose \in Int, NEW source \in PoseSources, NEW now \in Nat
  PROVE  createActionWaypointV1(id, pose, source, now) \in Waypoint
  BY DEF createActionWaypointV1, Waypoint, NoWait

\* Editing the waypoints of a program leaves a program.
LEMMA EditedType ==
  ASSUME NEW waypoints \in Seq(Waypoint), draft \in Program, EditDraft(waypoints)
  PROVE  draft' \in Program
  BY DEF EditDraft, Program

\* A waypoint the draft holds has a place in it.
LEMMA PlaceOf ==
  ASSUME NEW id, HasWaypoint(id)
  PROVE  IndexOf(id) \in DOMAIN draft.waypoints
  BY DEF HasWaypoint, IndexOf

LEMMA DraftTypeOfWaypoints ==
  ASSUME draft \in Program, target \in Int, feedback \in Int, clock \in Nat, Waypoints
  PROVE  draft' \in Program
  <1> DEFINE s == draft.waypoints
  <1>1. s \in Seq(Waypoint)
    BY DEF Program
  <1>2. ASSUME NEW id \in WaypointIds, NEW source \in PoseSources, addWaypoint(id, source)
        PROVE  draft' \in Program
    <2> DEFINE w == createActionWaypointV1(id, PoseFor(source), source, clock)
    <2>1. w \in Waypoint
      <3>1. PoseFor(source) \in Int
        BY DEF PoseFor, PoseSources
      <3> QED
        BY <3>1, CreatedWaypointType
    <2>2. EditDraft(Append(s, w))
      BY <1>2 DEF addWaypoint
    <2> HIDE DEF w, s
    <2>3. Append(s, w) \in Seq(Waypoint)
      BY <1>1, <2>1
    <2> QED
      BY <2>2, <2>3, EditedType
  <1>3. ASSUME NEW id \in WaypointIds, removeWaypoint(id) PROVE draft' \in Program
    <2>1. EditDraft(RemoveAt(s, IndexOf(id))) /\ IndexOf(id) \in DOMAIN s
      BY <1>3, PlaceOf DEF removeWaypoint
    <2> HIDE DEF s
    <2>2. \A i \in DOMAIN s : RemoveAt(s, i) \in Seq(Waypoint)
      BY <1>1 DEF RemoveAt
    <2> QED
      BY <2>1, <2>2, EditedType
  <1>4. ASSUME NEW id \in WaypointIds, NEW d \in {-1, 1}, moveWaypoint(id, d)
        PROVE  draft' \in Program
    <2> DEFINE at == IndexOf(id)
               to == at + d
    <2>1. /\ at \in DOMAIN s /\ to \in DOMAIN s
          /\ EditDraft([s EXCEPT ![at] = s[to], ![to] = s[at]])
      BY <1>4, PlaceOf DEF moveWaypoint
    <2> HIDE DEF s, at, to
    <2>2. [s EXCEPT ![at] = s[to], ![to] = s[at]] \in Seq(Waypoint)
      BY <1>1, <2>1
    <2> QED
      BY <2>1, <2>2, EditedType
  <1>5. ASSUME NEW w \in Waypoint, HasSelected, UpdateSelected(w) PROVE draft' \in Program
    <2>1. /\ IndexOf(selectedWaypointId) \in DOMAIN s
          /\ EditDraft([s EXCEPT ![IndexOf(selectedWaypointId)] = w])
      BY <1>5, PlaceOf DEF UpdateSelected, HasSelected
    <2> HIDE DEF s
    <2>2. \A i \in DOMAIN s : [s EXCEPT ![i] = w] \in Seq(Waypoint)
      BY <1>1, <1>5
    <2> QED
      BY <2>1, <2>2, EditedType
  <1>6. ASSUME HasSelected PROVE SelectedWaypoint \in Waypoint
    <2>1. IndexOf(selectedWaypointId) \in DOMAIN s
      BY <1>6, PlaceOf DEF HasSelected
    <2>2. \A i \in DOMAIN s : s[i] \in Waypoint
      BY <1>1
    <2> QED
      BY <2>1, <2>2 DEF SelectedWaypoint
  <1>7. ASSUME NEW x \in Int, EditPose(x) PROVE draft' \in Program
    <2>1. clampJointTargetDeg(x) \in Int
      BY ActionAssumption DEF clampJointTargetDeg
    <2>2. [SelectedWaypoint EXCEPT !.pose = clampJointTargetDeg(x)] \in Waypoint
      BY <1>6, <1>7, <2>1 DEF EditPose, Waypoint
    <2> QED
      BY <1>5, <1>7, <2>2 DEF EditPose
  <1>8. ASSUME NEW q \in Int, EditWait(q) PROVE draft' \in Program
    <2>1. updatePostArrivalWait(q) \in Int
      BY ActionAssumption DEF updatePostArrivalWait, NoWait
    <2>2. [SelectedWaypoint EXCEPT !.wait = updatePostArrivalWait(q)] \in Waypoint
      BY <1>6, <1>8, <2>1 DEF EditWait, Waypoint
    <2> QED
      BY <1>5, <1>8, <2>2 DEF EditWait
  <1>9. ASSUME NEW id \in WaypointIds, selectWaypoint(id) \/ previewWaypoint(id)
        PROVE  draft' \in Program
    BY <1>9 DEF selectWaypoint, previewWaypoint
  <1>10. {-1, 0, PoseLimit + 1} \subseteq Int /\ {0, 1, 4} \subseteq Int
    BY ActionAssumption
  <1> HIDE DEF s
  <1> QED
    BY <1>2, <1>3, <1>4, <1>7, <1>8, <1>9, <1>10 DEF Waypoints

LEMMA DocumentStep ==
  ASSUME LibraryInv, [ActionNext]_actionVars
  PROVE  DocumentInv'
  <1>1. /\ draft \in Program \union {NoDraft} /\ files \subseteq Program /\ reading \subseteq Program
        /\ target \in Int /\ feedback \in Int /\ clock \in Nat /\ ops \in Nat
        /\ \A id \in DOMAIN programs : programs[id] \in Program
    BY DEF LibraryInv, DocumentInv, SavedInv, IsLibrary
  <1>2. CASE UNCHANGED actionVars
    BY <1>1, <1>2 DEF DocumentInv, actionVars, actionEditor, actionEnv
  <1>3. ASSUME NEW id \in ProgramIds, createProgram(id) PROVE DocumentInv'
    <2>1. createActionProgramV1(id, <<>>, clock) \in Program
      BY <1>1, CreatedType, <<>> \in Seq(Waypoint)
    <2> QED
      BY <1>1, <1>3, <2>1, SetDraftType DEF createProgram, StoreLibrary, actionEnv, DocumentInv
  <1>4. ASSUME NEW id \in ProgramIds, NEW w \in WaypointIds, createShowcaseExample(id, w)
        PROVE  DocumentInv'
    <2>1. createActionWaypointV1(w, 0, "showcaseExample", clock) \in Waypoint
      BY <1>1, CreatedWaypointType DEF PoseSources
    <2>2. createActionProgramV1(id, <<createActionWaypointV1(w, 0, "showcaseExample", clock)>>, clock)
            \in Program
      <3> DEFINE v == createActionWaypointV1(w, 0, "showcaseExample", clock)
      <3> HIDE DEF v
      <3>1. <<v>> \in Seq(Waypoint)
        BY <2>1 DEF v
      <3>2. createActionProgramV1(id, <<v>>, clock) \in Program
        BY <1>1, <3>1, CreatedType
      <3> QED
        BY <3>2 DEF v
    <2> QED
      BY <1>1, <1>4, <2>2, SetDraftType DEF createShowcaseExample, StoreLibrary, actionEnv, DocumentInv
  <1>5. ASSUME NEW id \in ProgramIds, NEW ids \in SeqOf(WaypointIds, WaypointLimit),
               duplicateProgram(id, ids)
        PROVE  DocumentInv'
    <2> DEFINE copies == [i \in DOMAIN ids |-> [draft.waypoints[i] EXCEPT !.waypointId = ids[i]]]
               copy == [draft EXCEPT !.programId = id, !.revision = 1, !.createdAt = clock,
                                     !.updatedAt = clock, !.waypoints = copies]
    <2>1. draft \in Program
      BY <1>1, <1>5 DEF duplicateProgram, HasDraft
    <2>2. /\ DOMAIN ids = 1 .. Len(draft.waypoints) /\ \A i \in DOMAIN ids : ids[i] \in WaypointIds
      <3>1. PICK n \in 0 .. WaypointLimit : ids \in [1 .. n -> WaypointIds]
        BY <1>5 DEF SeqOf
      <3>2. Len(ids) = n
        BY <3>1, ActionAssumption
      <3> QED
        BY <1>5, <3>1, <3>2 DEF duplicateProgram
    <2>3. copies \in Seq(Waypoint)
      <3> DEFINE s == draft.waypoints
      <3>1. s \in Seq(Waypoint)
        BY <2>1 DEF Program
      <3> HIDE DEF s
      <3>2. \A i \in 1 .. Len(s) : [s[i] EXCEPT !.waypointId = ids[i]] \in Waypoint
        <4>1. \A w \in Waypoint, v \in WaypointIds : [w EXCEPT !.waypointId = v] \in Waypoint
          BY DEF Waypoint
        <4>2. \A i \in 1 .. Len(s) : s[i] \in Waypoint /\ ids[i] \in WaypointIds
          BY <2>2, <3>1 DEF s
        <4> QED
          BY <4>1, <4>2
      <3>3. copies = [i \in 1 .. Len(s) |-> [s[i] EXCEPT !.waypointId = ids[i]]]
        BY <2>2 DEF s
      <3> HIDE DEF copies
      <3>4. Len(s) \in Nat
        BY <3>1
      <3> QED
        BY <3>2, <3>3, <3>4
    <2>4. copy \in Program
      <3> HIDE DEF copies
      <3> DEFINE d1 == [draft EXCEPT !.programId = id]
                 d2 == [d1 EXCEPT !.revision = 1]
                 d3 == [d2 EXCEPT !.createdAt = clock]
                 d4 == [d3 EXCEPT !.updatedAt = clock]
                 d5 == [d4 EXCEPT !.waypoints = copies]
      <3>1. ASSUME NEW p \in Program
            PROVE  /\ [p EXCEPT !.programId = id] \in Program
                   /\ [p EXCEPT !.revision = 1] \in Program
                   /\ [p EXCEPT !.createdAt = clock] \in Program
                   /\ [p EXCEPT !.updatedAt = clock] \in Program
                   /\ [p EXCEPT !.waypoints = copies] \in Program
        <4>1. [p EXCEPT !.programId = id] \in Program
          BY DEF Program
        <4>2. [p EXCEPT !.revision = 1] \in Program
          BY DEF Program
        <4>3. [p EXCEPT !.createdAt = clock] \in Program
          BY <1>1 DEF Program
        <4>4. [p EXCEPT !.updatedAt = clock] \in Program
          BY <1>1 DEF Program
        <4>5. [p EXCEPT !.waypoints = copies] \in Program
          BY <2>3 DEF Program
        <4> QED
          BY <4>1, <4>2, <4>3, <4>4, <4>5
      <3>2. copy = d5
        OBVIOUS
      <3> HIDE DEF copy
      <3>3. d1 \in Program
        BY <2>1, <3>1
      <3>4. d2 \in Program
        BY <3>1, <3>3
      <3>5. d3 \in Program
        BY <3>1, <3>4
      <3>6. d4 \in Program
        BY <3>1, <3>5
      <3> QED
        BY <3>1, <3>2, <3>6
    <2>5. setDraft(copy, "duplicate")
      BY <1>5 DEF duplicateProgram
    <2> HIDE DEF copy
    <2>6. draft' \in Program \union {NoDraft}
      BY <2>4, <2>5, SetDraftType
    <2> QED
      BY <1>1, <1>5, <2>6 DEF duplicateProgram, StoreLibrary, actionEnv, DocumentInv
  <1>6. ASSUME NEW id \in ProgramIds, openSavedProgram(id) PROVE DocumentInv'
    BY <1>1, <1>6, SetDraftType DEF openSavedProgram, StoreLibrary, actionEnv, DocumentInv
  <1>7. ASSUME NEW id \in ProgramIds, deleteSavedProgram(id) PROVE DocumentInv'
    BY <1>1, <1>7 DEF deleteSavedProgram, discardDraft, StoreLibrary, actionEditor, actionEnv, DocumentInv
  <1>8. ASSUME NEW id \in ProgramIds, DamageStorage(id) PROVE DocumentInv'
    BY <1>1, <1>8 DEF DamageStorage, actionEditor, DocumentInv
  <1>9. ASSUME NEW confirmed, saveDraft(confirmed) PROVE DocumentInv'
    <2>1. SavedProgram \in Program
      BY <1>1, <1>9, SavedProgramType DEF saveDraft, HasDraft, LibraryInv
    <2> QED
      BY <1>1, <1>9, <2>1 DEF saveDraft, StoreLibrary, actionEnv, DocumentInv
  <1>10. ASSUME NEW f, importProgram(f) PROVE DocumentInv'
    BY <1>1, <1>10 DEF importProgram, actionEditor, DocumentInv
  <1>11. ASSUME NEW f, ImportRead(f) PROVE DocumentInv'
    <2>1. f \in Program /\ Parsed(f) \in Program
      BY <1>1, <1>11, ParsedProgram DEF ImportRead
    <2> QED
      BY <1>1, <1>11, <2>1, SetDraftType DEF ImportRead, actionEditor, DocumentInv
  <1>12. CASE exportProgram
    <2>1. Parsed(draft) \in Program
      BY <1>1, <1>12, ParsedProgram DEF exportProgram, HasDraft
    <2> QED
      BY <1>1, <1>12, <2>1 DEF exportProgram, actionEditor, DocumentInv
  <1>13. ASSUME NEW name \in {"padded", "blank"}, updateDraftMeta(name) PROVE DocumentInv'
    <2>1. [draft EXCEPT !.name = name] \in Program
      BY <1>1, <1>13 DEF updateDraftMeta, HasDraft, Program
    <2> QED
      BY <1>1, <1>13, <2>1 DEF updateDraftMeta, StoreLibrary, actionEnv, DocumentInv
  <1>14. CASE Waypoints
    <2>1. draft \in Program
      BY <1>1, <1>14 DEF Waypoints, addWaypoint, removeWaypoint, moveWaypoint, selectWaypoint,
        previewWaypoint, EditPose, EditWait, HasSelected, HasDraft
    <2>2. draft' \in Program
      BY <1>1, <1>14, <2>1, DraftTypeOfWaypoints
    <2>3. /\ files' = files /\ reading' = reading /\ feedback' = feedback /\ clock' = clock
          /\ ops' = ops + 1
      BY <1>14 DEF Waypoints, addWaypoint, removeWaypoint, moveWaypoint, selectWaypoint,
        previewWaypoint, EditPose, EditWait, UpdateSelected, EditDraft, StoreLibrary, actionEnv
    <2>4. target' \in Int
      <3>1. ASSUME NEW id \in WaypointIds, previewWaypoint(id) PROVE target' \in Int
        <4>1. draft.waypoints \in Seq(Waypoint) /\ IndexOf(id) \in DOMAIN draft.waypoints
          BY <2>1, <3>1, PlaceOf DEF previewWaypoint, Program
        <4>2. draft.waypoints[IndexOf(id)].pose \in Int
          <5>1. draft.waypoints[IndexOf(id)] \in Waypoint
            BY <4>1
          <5> QED
            BY <5>1 DEF Waypoint
        <4> QED
          BY <3>1, <4>2, ActionAssumption DEF previewWaypoint, clampJointTargetDeg
      <3> QED
        BY <1>1, <1>14, <3>1 DEF Waypoints, addWaypoint, removeWaypoint, moveWaypoint, selectWaypoint,
          EditPose, EditWait, UpdateSelected, EditDraft, actionEnv
    <2> QED
      BY <1>1, <2>2, <2>3, <2>4 DEF DocumentInv
  <1>15. CASE ReloadPage
    BY <1>1, <1>15 DEF ReloadPage, discardDraft, DocumentInv
  <1>16. CASE FeedbackChanges
    BY <1>1, <1>16, ActionAssumption DEF FeedbackChanges, actionEditor, Unmeasured, DocumentInv
  <1>17. CASE ActionClock
    BY <1>1, <1>17 DEF ActionClock, actionEditor, DocumentInv
  <1> QED
    BY <1>2, <1>3, <1>4, <1>5, <1>6, <1>7, <1>8, <1>9, <1>10, <1>11, <1>12, <1>13, <1>14,
       <1>15, <1>16, <1>17 DEF ActionNext

-----------------------------------------------------------------------------
(* Theorems                                                                *)

LEMMA LibraryInvAlways == ActionSpec => []LibraryInv
  <1>1. ASSUME LibraryInv, [ActionNext]_actionVars PROVE LibraryInv'
    BY <1>1, StepMovesLibrary, LibraryStep, DocumentStep DEF LibraryInv
  <1> QED
    BY <1>1, LibraryInvInit, PTL DEF ActionSpec

\* A reload brings back every saved program that nothing else broke, whatever
\* was edited, saved, deleted and imported before (hydration lets in all that
\* saving let in).
THEOREM ReloadAlwaysKeeps == ActionSpec => []ReloadKeepsLibrary
  <1>1. LibraryInv => ReloadKeepsLibrary
    BY Reloaded DEF LibraryInv, ReloadKeepsLibrary
  <1> QED
    BY <1>1, LibraryInvAlways, PTL

\* No save, import, deletion or reload changes a saved program without giving
\* it a larger revision.
THEOREM RevisionsAlwaysGrow == ActionSpec => RevisionsGrow
  <1> DEFINE Grow == \A id \in DOMAIN programs \intersect DOMAIN programs' :
                       programs'[id] # programs[id] => programs'[id].revision > programs[id].revision
  <1>1. ASSUME LibraryInv, [ActionNext]_actionVars PROVE [Grow]_actionVars
    BY <1>1, StepMovesLibrary, LibraryStep
  <1> QED
    BY <1>1, LibraryInvAlways, PTL DEF ActionSpec, RevisionsGrow

-----------------------------------------------------------------------------
(* The wire schemas.                                                       *)

WireIInv ==
  /\ HostAccepts(host)
  /\ auditEntry = NoEntry \/
       /\ auditEntry.spec \in CommandSpecs /\ ValidateCommandIdentity(auditEntry.spec)
       /\ auditEntry.payloads \in 0 .. 32 /\ auditEntry.status \in CommandStatuses
       /\ {"spec", "payloads", "truncated", "status"} = DOMAIN auditEntry
  /\ directEntry = NoEntry \/
       /\ directCommandResultSchema(directEntry)
       /\ DOMAIN directEntry = {"requestId", "sessionId", "status", "evidence",
                                "normalizedLine", "deviceReply"}
  /\ AnswersAdmitted

\* The settings the host accepts never advertise more than the browser admits.
LEMMA CapabilitiesAdmitted ==
  ASSUME HostAccepts(host)
  PROVE  capabilitiesSchema(GatewayCapabilities)
<1> DEFINE c == GatewayCapabilities
<1>1. /\ c.hardwareCommands = HardwareEnabled /\ c.directCommand = EngineeringEnabled
      /\ c.supportedCommands = SupportedCommands
      /\ c.jointGroupSpeedLimitDegS = host.speedLimit
      /\ c.jointGroupCompletion = Completion(host)
      /\ c.commandPolicy = (IF EngineeringEnabled THEN "engineering"
                            ELSE IF HardwareEnabled THEN "supervised" ELSE "disabled")
      /\ c.engineeringJointSpeedMaxDegS = (IF EngineeringEnabled THEN 100 ELSE Null)
    BY DEF GatewayCapabilities
<1>2. /\ Completion(host).positionToleranceDeg = host.tolerance
      /\ Completion(host).settledDurationMs = host.settled
      /\ Completion(host).timeoutMs = host.timeout
    BY DEF Completion
<1>3. (host.speedLimit = Null) <=> (host.timeout = Null)
    <2> DEFINE envelope == {host.speedLimit, host.tolerance, host.settled, host.timeout}
    <2>1. envelope = {Null} \/ Null \notin envelope
        BY DEF HostAccepts
    <2>2. host.speedLimit \in envelope /\ host.timeout \in envelope
        OBVIOUS
    <2> HIDE DEF envelope
    <2> QED
        BY <2>1, <2>2
<1>13. host.speedLimit # Null =>
          /\ host.speedLimit > 0 /\ host.tolerance \in 1 .. 500
          /\ host.settled \in Nat /\ 100 <= host.settled /\ host.settled <= 5000
          /\ 500 <= host.timeout /\ host.timeout <= 120000 /\ host.timeout > host.settled
    BY DEF HostAccepts
<1>4. EngineeringEnabled => HardwareEnabled
    BY DEF EngineeringEnabled, HardwareEnabled
<1>5. /\ SupportedCommands \subseteq CommandKinds
      /\ ~HardwareEnabled => SupportedCommands = {}
      /\ "jointGroup" \in SupportedCommands => host.speedLimit # Null
    BY DEF SupportedCommands, CommandKinds
<1>6. host.timeout # Null => jointGroupCompletionSchema(Completion(host))
    <2>1. SUFFICES ASSUME host.timeout # Null
                   PROVE  jointGroupCompletionSchema(Completion(host))
        OBVIOUS
    <2>2. host.speedLimit # Null
        BY <1>3, <2>1
    <2> QED
        BY <1>2, <1>13, <2>2 DEF jointGroupCompletionSchema
<1>7. (IF EngineeringEnabled THEN 100 ELSE Null) \in {Null} \cup 1 .. 100 /\ 100 # Null
    BY DEF Null
<1> HIDE DEF c
<1>8. c.supportedCommands \subseteq CommandKinds /\ c.engineeringJointSpeedMaxDegS \in {Null} \cup 1 .. 100
    BY <1>1, <1>5, <1>7
<1>9. /\ c.jointGroupSpeedLimitDegS # Null => c.jointGroupSpeedLimitDegS > 0
      /\ (c.jointGroupSpeedLimitDegS # Null) <=> (c.jointGroupCompletion.timeoutMs # Null)
      /\ c.jointGroupCompletion.timeoutMs # Null
           => jointGroupCompletionSchema(c.jointGroupCompletion)
      /\ "jointGroup" \in c.supportedCommands
           => c.jointGroupSpeedLimitDegS # Null /\ c.jointGroupCompletion.timeoutMs # Null
    BY <1>1, <1>2, <1>3, <1>5, <1>6, <1>13
<1>10. /\ c.commandPolicy = "disabled" => ~HardwareEnabled /\ ~EngineeringEnabled
       /\ c.commandPolicy = "supervised" => HardwareEnabled /\ ~EngineeringEnabled
       /\ c.commandPolicy = "engineering" => EngineeringEnabled
    BY <1>1, <1>4
<1>11. /\ c.commandPolicy = "disabled" =>
             /\ ~c.hardwareCommands /\ c.supportedCommands = {}
             /\ ~(c.directCommand \/ c.engineeringJointSpeedMaxDegS # Null)
       /\ c.commandPolicy = "supervised" =>
             /\ c.hardwareCommands
             /\ ~(c.directCommand \/ c.engineeringJointSpeedMaxDegS # Null)
       /\ c.commandPolicy = "engineering" =>
             c.hardwareCommands /\ c.directCommand /\ c.engineeringJointSpeedMaxDegS # Null
    BY <1>1, <1>4, <1>5, <1>7, <1>10
<1>12. capabilitiesSchema(c)
    BY <1>8, <1>9, <1>11 DEF capabilitiesSchema
<1> QED
    BY <1>12 DEF c

\* An audit record of a command with an identity has the shape of its kind.
LEMMA AuditAdmitted ==
  ASSUME NEW e, e.spec \in CommandSpecs, ValidateCommandIdentity(e.spec),
         e.payloads \in 0 .. 32, e.status \in CommandStatuses
  PROVE  commandAuditSchema(ToAuditRecord(e))
<1> DEFINE c == e.spec
           a == ToAuditRecord(e)
           s == ToRequestSnapshot(c)
<1>1. CommandShape(c) /\ c.commandId \in 1 .. 128 /\ c.sessionId \in 1 .. 128
      /\ c.profileId = "dummy-6dof"
    BY WireAssumption DEF ValidateCommandIdentity
<1>2. /\ a.commandId = c.commandId /\ a.sessionId = c.sessionId /\ a.profileId = c.profileId
      /\ a.commandKind = c.kind /\ a.request = s /\ a.transmittedPayloads = e.payloads
      /\ a.result.commandId = c.commandId /\ a.result.sessionId = c.sessionId
      /\ a.result.commandKind = c.kind /\ a.result.status = e.status
    BY DEF ToAuditRecord
<1>3. /\ s.commandKind = c.kind /\ s.mode = c.mode /\ s.positionsCount = c.positions
      /\ s.speedDegS = c.speed /\ s.payloadTruncated = (c.positions > 6)
      /\ s.positionsDeg = (IF c.positions = Null THEN Null
                           ELSE IF c.positions > 6 THEN 6 ELSE c.positions)
    BY DEF ToRequestSnapshot
<1> HIDE DEF a, s, c
<1>4. commandRequestSnapshotSchema(s)
    <2>0. /\ c.mode # Null <=> c.kind = "setMode"
          /\ c.positions \in Nat \cup {Null}
          /\ c.kind # "jointGroup" => c.positions = Null /\ c.speed = Null
        BY <1>1 DEF CommandShape
    <2>1. ASSUME c.positions = Null PROVE ~s.payloadTruncated /\ s.positionsDeg = Null
        <3>1. ~(c.positions > 6)
            BY <2>1 DEF Null
        <3> QED
            BY <1>3, <2>1, <3>1
    <2>2. CASE c.kind \in {"enable", "stopAndDisable", "home", "reset"}
        <3>1. /\ s.commandKind \in {"enable", "stopAndDisable", "home", "reset"}
              /\ s.commandKind # "setMode"
              /\ s.mode = Null /\ s.positionsDeg = Null /\ s.positionsCount = Null
              /\ s.speedDegS = Null /\ ~s.payloadTruncated
            BY <1>3, <2>0, <2>1, <2>2
        <3> QED
            BY <3>1 DEF commandRequestSnapshotSchema
    <2>3. CASE c.kind = "setMode"
        <3>1. /\ s.commandKind = "setMode"
              /\ s.mode # Null /\ s.positionsDeg = Null /\ s.positionsCount = Null
              /\ s.speedDegS = Null /\ ~s.payloadTruncated
            BY <1>3, <2>0, <2>1, <2>3
        <3>2. s.commandKind \notin {"enable", "stopAndDisable", "home", "reset"}
            BY <3>1
        <3> QED
            BY <3>1, <3>2 DEF commandRequestSnapshotSchema
    <2>4. CASE c.kind = "jointGroup"
        <3>1. /\ s.commandKind \notin {"enable", "stopAndDisable", "home", "reset"}
              /\ s.commandKind # "setMode" /\ s.mode = Null
            BY <1>3, <2>0, <2>4
        <3>2. s.positionsDeg = Null <=> s.positionsCount = Null
            <4>1. ASSUME c.positions # Null PROVE s.positionsDeg # Null
                <5>1. c.positions \in Nat
                    BY <2>0, <4>1
                <5>2. c.positions # Null /\ 6 # Null
                    BY <4>1 DEF Null
                <5> QED
                    BY <1>3, <5>1, <5>2
            <4> QED
                BY <1>3, <4>1
        <3>3. ASSUME s.positionsDeg # Null
              PROVE  /\ s.positionsDeg = IF s.positionsCount > 6 THEN 6 ELSE s.positionsCount
                     /\ s.payloadTruncated <=> s.positionsCount > 6
            <4>1. c.positions # Null
                BY <1>3, <3>2, <3>3
            <4> QED
                BY <1>3, <4>1
        <3> QED
            BY <3>1, <3>2, <3>3 DEF commandRequestSnapshotSchema
    <2> QED
        BY <1>1, <2>2, <2>3, <2>4 DEF CommandShape, CommandKinds
<1>5. commandAuditSchema(a)
    BY <1>1, <1>2, <1>3, <1>4 DEF commandAuditSchema, CommandShape
<1> QED
    BY <1>5 DEF a

\* A direct result that the gateway makes, with whatever evidence suits its status.
LEMMA DirectAdmitted ==
  ASSUME NEW r, r.requestId \in Nat, r.sessionId \in Nat, NEW line \in 0 .. 255
  PROVE  /\ directCommandResultSchema(DirectResult(r, "rejected", "none", line, FALSE))
         /\ directCommandResultSchema(DirectResult(r, "queued", "gatewayAccepted", line, FALSE))
<1>1. NormalizeDirectIdentifier(r.requestId) \in 1 .. 128
      /\ NormalizeDirectIdentifier(r.sessionId) \in 1 .. 128
    BY DEF NormalizeDirectIdentifier
<1> QED
    BY <1>1 DEF DirectResult, directCommandResultSchema

LEMMA WireStep == WireIInv /\ [WireNext]_wireVars => WireIInv'
<1> SUFFICES ASSUME WireIInv, [WireNext]_wireVars PROVE WireIInv'
    OBVIOUS
<1>0. UNCHANGED <<served, host>> => AnswersAdmitted' /\ HostAccepts(host)'
    BY DEF WireIInv, AnswersAdmitted
<1>1. ASSUME NEW kind \in {"capabilities", "audit", "direct"}, NEW body, Serve(kind, body),
             UNCHANGED <<host, auditEntry, directEntry>>,
             kind = "capabilities" => capabilitiesSchema(body),
             kind = "audit" => commandAuditSchema(body),
             kind = "direct" => directCommandResultSchema(body)
      PROVE  WireIInv'
    <2>1. served'.kind = kind /\ served'.body = body
        BY <1>1 DEF Serve
    <2>2. AnswersAdmitted'
        BY <1>1, <2>1 DEF AnswersAdmitted
    <2> QED
        BY <1>1, <2>2 DEF WireIInv
<1>2. CASE ServeCapabilities
    BY <1>1, <1>2, CapabilitiesAdmitted DEF ServeCapabilities, WireIInv
<1>3. ASSUME NEW c \in CommandSpecs, AdmitCommand(c) PROVE WireIInv'
    <2>1. auditEntry' = CommandEntry(c) /\ UNCHANGED <<host, directEntry, served>>
        BY <1>3 DEF AdmitCommand
    <2>2. /\ auditEntry'.spec = c /\ auditEntry'.payloads = 0 /\ auditEntry'.status = "accepted"
          /\ DOMAIN auditEntry' = {"spec", "payloads", "truncated", "status"}
        BY <2>1 DEF CommandEntry
    <2> QED
        BY <1>0, <1>3, <2>1, <2>2 DEF WireIInv, AdmitCommand, CommandStatuses
<1>4. CASE TransmitPayload
    <2>1. /\ UNCHANGED <<host, directEntry, served>> /\ auditEntry # NoEntry
          /\ \/ /\ auditEntry.payloads < 32
                /\ auditEntry' = [auditEntry EXCEPT !.payloads = @ + 1]
             \/ auditEntry' = [auditEntry EXCEPT !.truncated = TRUE]
        BY <1>4 DEF TransmitPayload, RecordCommandTransmission
    <2>2. /\ auditEntry'.spec = auditEntry.spec /\ auditEntry'.status = auditEntry.status
          /\ DOMAIN auditEntry' = DOMAIN auditEntry /\ auditEntry'.payloads \in 0 .. 32
        BY <2>1 DEF WireIInv
    <2> QED
        BY <1>0, <2>1, <2>2 DEF WireIInv
<1>5. ASSUME NEW s \in CommandStatuses, SettleCommand(s) PROVE WireIInv'
    <2>1. /\ UNCHANGED <<host, directEntry, served>> /\ auditEntry # NoEntry
          /\ auditEntry' = [auditEntry EXCEPT !.status = s]
        BY <1>5 DEF SettleCommand
    <2>2. /\ auditEntry'.spec = auditEntry.spec /\ auditEntry'.status = s
          /\ DOMAIN auditEntry' = DOMAIN auditEntry /\ auditEntry'.payloads = auditEntry.payloads
        BY <2>1 DEF WireIInv
    <2> QED
        BY <1>0, <2>1, <2>2 DEF WireIInv
<1>6. CASE ServeAudit
    BY <1>1, <1>6, AuditAdmitted DEF ServeAudit, WireIInv
<1>7. ASSUME NEW r \in DirectRequests, RejectDirect(r) PROVE WireIInv'
    <2>1. NormalizeRejectedDirectLine(r.line) \in 0 .. 255
        BY WireAssumption DEF NormalizeRejectedDirectLine
    <2>2. directCommandResultSchema(
            DirectResult(r, "rejected", "none", NormalizeRejectedDirectLine(r.line), FALSE))
        BY <2>1, WireAssumption, DirectAdmitted
    <2> QED
        BY <1>1, <1>7, <2>2 DEF RejectDirect
<1>8. ASSUME NEW r \in DirectRequests, AdmitDirect(r) PROVE WireIInv'
    <2>1. /\ directEntry' = DirectResult(r, "queued", "gatewayAccepted", r.line, FALSE)
          /\ UNCHANGED <<host, auditEntry, served>> /\ r.line \in 0 .. 255
        BY <1>8 DEF AdmitDirect
    <2>2. directCommandResultSchema(directEntry')
        BY <2>1, WireAssumption, DirectAdmitted
    <2>3. DOMAIN directEntry' = {"requestId", "sessionId", "status", "evidence",
                                 "normalizedLine", "deviceReply"}
        BY <2>1 DEF DirectResult
    <2> QED
        BY <1>0, <2>1, <2>2, <2>3 DEF WireIInv
<1>9. ASSUME NEW status, NEW evidence, NEW reply,
             UpdateDirectCommandResult(status, evidence, reply),
             \/ status = "sent" /\ evidence = "transportWritten" /\ reply = FALSE
             \/ status = "rejected" /\ evidence = "none" /\ reply = FALSE
             \/ status \in {"expired", "superseded", "cancelled", "failed"}
                /\ evidence = "gatewayAccepted"
      PROVE  WireIInv'
    <2>1. /\ directEntry # NoEntry /\ UNCHANGED <<host, auditEntry, served>>
          /\ directEntry' = [directEntry EXCEPT !.status = status, !.evidence = evidence,
                                                !.deviceReply = reply]
        BY <1>9 DEF UpdateDirectCommandResult
    <2>2. /\ DOMAIN directEntry' = DOMAIN directEntry
          /\ directEntry'.requestId = directEntry.requestId
          /\ directEntry'.sessionId = directEntry.sessionId
          /\ directEntry'.normalizedLine = directEntry.normalizedLine
          /\ directEntry'.status = status /\ directEntry'.evidence = evidence
          /\ directEntry'.deviceReply = reply
        BY <2>1 DEF WireIInv
    <2>3. directCommandResultSchema(directEntry')
        BY <1>9, <2>1, <2>2 DEF directCommandResultSchema, WireIInv
    <2> QED
        BY <1>0, <2>1, <2>2, <2>3 DEF WireIInv
<1>10. CASE DirectMoves
    BY <1>9, <1>10 DEF DirectMoves
<1>11. CASE ServeDirect
    BY <1>1, <1>11 DEF ServeDirect, WireIInv
<1>12. CASE UNCHANGED wireVars
    BY <1>0, <1>12 DEF wireVars, WireIInv
<1> QED
    BY <1>2, <1>3, <1>4, <1>5, <1>6, <1>7, <1>8, <1>10, <1>11, <1>12 DEF WireNext

\* Whatever settings the host accepts and whatever commands arrive, the browser's
\* schemas admit every answer the gateway serves (httpRobotGateway.ts against
\* RobotGateway.cs, which state the same bounds twice).
THEOREM AnswersAlwaysAdmitted == WireSpec => []AnswersAdmitted
<1>1. WireInit => WireIInv
    BY DEF WireInit, WireIInv, AnswersAdmitted
<1>2. WireIInv => AnswersAdmitted
    BY DEF WireIInv
<1> QED
    BY <1>1, <1>2, WireStep, PTL DEF WireSpec

-----------------------------------------------------------------------------
(* The runtime collections.                                                *)

ProtocolFrame == [id : Nat, routine : BOOLEAN]

SendResult == [id : Requests, link : LinkIds,
                 status : {"queued", "settled"}, stamp : Nat]

Note == [kind : {"session"}, link : LinkIds] \cup [kind : {"frame"}, frame : ProtocolFrame]
          \cup [kind : {"result"}, result : SendResult]

OnceEach(q) == \A i, j \in 1 .. Len(q) : q[i].id = q[j].id => i = j

\* The frames are bounded, none twice, and the operator's view is read off them.
StoreOK(s) ==
  /\ DOMAIN s = {"link", "frames", "operator", "direct"}
  /\ s.frames \in Seq(ProtocolFrame) /\ Len(s.frames) <= FrameLimit
  /\ OnceEach(s.frames) /\ s.operator = NotRoutine(s.frames)

DeviceOK ==
  /\ DOMAIN device = {"link", "used", "frames", "direct", "clock"}
  /\ device.link \in LinkIds /\ device.clock \in Nat
  /\ device.frames \in Seq(ProtocolFrame) /\ device.direct \subseteq SendResult

ReadsOK ==
  /\ "authority" \in DOMAIN reads /\ "frames" \in DOMAIN reads.authority
  /\ reads.authority.frames \in Seq(ProtocolFrame)

\* What was cleared is among what is hidden.
TerminalOK ==
  /\ {"hidden", "cleared"} \subseteq DOMAIN terminal
  /\ terminal.hidden \in Seq(Nat) /\ terminal.cleared \subseteq ToSet(terminal.hidden)

CollectionIInv ==
  /\ StoreOK(store) /\ DeviceOK /\ ReadsOK /\ TerminalOK /\ feed \in Seq(Note)

-----------------------------------------------------------------------------
\* u is q without its first d elements, which are none or all but the newest n.
EndOf(u, q, n, d) ==
  /\ u = SubSeq(q, d + 1, Len(q)) /\ Len(u) = Len(q) - d /\ Len(q) - d <= n
  /\ d > 0 => Len(q) - d = n
  /\ \A i \in 1 .. Len(q) - d : u[i] = q[i + d]

LEMMA NewestType ==
  ASSUME NEW S, NEW q \in Seq(S), NEW n \in Nat
  PROVE  NewestOf(q, n) \in Seq(S) /\ \E d \in 0 .. Len(q) : EndOf(NewestOf(q, n), q, n, d)
<1>1. Len(q) \in Nat
    OBVIOUS
<1> DEFINE d == IF Len(q) > n THEN Len(q) - n ELSE 0
<1>2. /\ d \in 0 .. Len(q) /\ Len(q) - d <= n /\ (d > 0 => Len(q) - d = n)
      /\ d + 1 = IF Len(q) > n THEN Len(q) - n + 1 ELSE 1
    BY <1>1
<1>3. NewestOf(q, n) = SubSeq(q, d + 1, Len(q))
    BY <1>2 DEF NewestOf
<1> HIDE DEF d
<1>4. /\ SubSeq(q, d + 1, Len(q)) \in Seq(S) /\ Len(SubSeq(q, d + 1, Len(q))) = Len(q) - d
      /\ \A i \in 1 .. Len(q) - d : SubSeq(q, d + 1, Len(q))[i] = q[i + d]
    BY <1>2, SuffixType
<1> QED
    BY <1>2, <1>3, <1>4 DEF EndOf

\* The view of an appended frame.
LEMMA NotRoutineAppend ==
  ASSUME NEW q \in Seq(ProtocolFrame), NEW fr \in ProtocolFrame
  PROVE  NotRoutine(Append(q, fr))
           = IF fr.routine THEN NotRoutine(q) ELSE Append(NotRoutine(q), fr)
<1> DEFINE w == Append(q, fr)
           K == {i \in DOMAIN q : ~q[i].routine}
           J == {i \in DOMAIN w : ~w[i].routine}
<1>1. /\ Len(q) \in Nat /\ DOMAIN q = 1 .. Len(q) /\ DOMAIN w = 1 .. Len(q) + 1
      /\ w[Len(q) + 1] = fr /\ \A i \in 1 .. Len(q) : w[i] = q[i]
    OBVIOUS
<1> HIDE DEF w
<1>2. \A i \in 1 .. Len(q) + 1 : i \in 1 .. Len(q) \/ i = Len(q) + 1
    BY <1>1
<1>3. \A i \in 1 .. Len(q) : i \in 1 .. Len(q) + 1 /\ i # Len(q) + 1
    BY <1>1
<1>4. Len(q) + 1 \in 1 .. Len(q) + 1
    BY <1>1
<1>5. J = IF fr.routine THEN K ELSE K \cup {Len(q) + 1}
    BY <1>1, <1>2, <1>3, <1>4
<1>6. K \in SUBSET (1 .. Len(q))
    BY <1>1
<1>7. NotRoutine(q) = Selected(q, K) /\ NotRoutine(w) = Selected(w, J)
    BY DEF NotRoutine
<1> HIDE DEF K, J
<1>8. Selected(w, K) = Selected(q, K) /\ Selected(w, K \cup {Len(q) + 1}) = Append(Selected(q, K), fr)
    BY <1>6, SelectedAppend DEF w
<1> QED
    BY <1>5, <1>7, <1>8 DEF w

\* Frames that leave the store leave the operator's view.
LEMMA RetainedSuffix ==
  ASSUME NEW q \in Seq(ProtocolFrame), OnceEach(q), NEW d \in 0 .. Len(q),
         NEW fr \in ProtocolFrame, fr.id \notin Ids(q)
  PROVE  RetainedOperator(NotRoutine(q), Append(SubSeq(q, d + 1, Len(q)), fr))
           = NotRoutine(SubSeq(q, d + 1, Len(q)))
<1> DEFINE t == SubSeq(q, d + 1, Len(q))
           w == Append(t, fr)
           K == {i \in DOMAIN q : ~q[i].routine}
           op == Selected(q, K)
           Y == {f \in ProtocolFrame : f.id \in Ids(w)}
<1>1. /\ Len(q) \in Nat /\ DOMAIN q = 1 .. Len(q) /\ d \in Nat /\ d <= Len(q)
      /\ \A i \in 1 .. Len(q) : q[i] \in ProtocolFrame
    OBVIOUS
<1>2. /\ t \in Seq(ProtocolFrame) /\ Len(t) = Len(q) - d /\ DOMAIN t = 1 .. Len(q) - d
      /\ \A i \in 1 .. Len(q) - d : t[i] = q[i + d]
    BY SuffixType
<1> HIDE DEF t
<1>3. /\ DOMAIN w = 1 .. Len(q) - d + 1 /\ w[Len(q) - d + 1] = fr
      /\ \A i \in 1 .. Len(q) - d : w[i] = q[i + d]
    BY <1>1, <1>2
<1> HIDE DEF w
<1>4. \A i \in 1 .. Len(q) : q[i].id \in Ids(w) <=> i \in d + 1 .. Len(q)
    <2> SUFFICES ASSUME NEW i \in 1 .. Len(q) PROVE q[i].id \in Ids(w) <=> i \in d + 1 .. Len(q)
        OBVIOUS
    <2>1. ASSUME i \in d + 1 .. Len(q) PROVE q[i].id \in Ids(w)
        <3>1. i - d \in 1 .. Len(q) - d /\ (i - d) + d = i /\ i - d \in 1 .. Len(q) - d + 1
            BY <1>1, <2>1
        <3>2. w[i - d] = q[i] /\ i - d \in DOMAIN w
            BY <1>3, <3>1
        <3> QED
            BY <3>2 DEF Ids
    <2>2. ASSUME q[i].id \in Ids(w) PROVE i \in d + 1 .. Len(q)
        <3>1. PICK k \in 1 .. Len(q) - d + 1 : w[k].id = q[i].id
            BY <1>3, <2>2 DEF Ids
        <3>2. q[i].id # fr.id
            BY <1>1 DEF Ids
        <3>3. k \in 1 .. Len(q) - d
            <4>1. k # Len(q) - d + 1
                BY <1>3, <3>1, <3>2
            <4> QED
                BY <1>1, <4>1
        <3>4. k + d \in 1 .. Len(q) /\ k + d \in d + 1 .. Len(q) /\ q[k + d].id = q[i].id
            BY <1>1, <1>3, <3>1, <3>3
        <3> QED
            BY <3>4 DEF OnceEach
    <2> QED
        BY <2>1, <2>2
<1>5. K \in SUBSET (1 .. Len(q)) /\ NotRoutine(q) = op
    BY <1>1 DEF NotRoutine
<1>6. op \in Seq(ProtocolFrame) /\ Len(op) = Cardinality(K)
    BY <1>5, SelectedType
<1> DEFINE M == Within(op, Y)
           L == K \cap Within(q, Y)
<1>7. RetainedOperator(NotRoutine(q), w) = Selected(op, M)
    <2>1. \A n \in DOMAIN op : op[n] \in ProtocolFrame
        <3> HIDE DEF op, K
        <3> QED
            BY <1>6
    <2>2. {n \in DOMAIN op : op[n].id \in Ids(w)} = M
        BY <2>1 DEF Within
    <2> QED
        BY <1>5, <2>2 DEF RetainedOperator
<1>8. Selected(op, M) = Selected(q, L)
    <2> HIDE DEF K, Y
    <2> QED
        BY <1>5, SelectedTwice
<1>9. L = {i \in K : i \in d + 1 .. Len(q)}
    BY <1>1, <1>4, <1>5 DEF Within
<1>10. \A i \in d + 1 .. Len(q) : i \in 1 .. Len(q)
    BY <1>1
<1>11. L \in SUBSET (d + 1 .. Len(q)) /\ \A i \in d + 1 .. Len(q) : i \in L <=> ~q[i].routine
    BY <1>1, <1>9, <1>10
<1> HIDE DEF L, M, op, K
<1>12. Selected(t, {i \in 1 .. Len(q) - d : i + d \in L}) = Selected(q, L)
    BY <1>11, SelectedSuffix DEF t
<1>13. {i \in 1 .. Len(q) - d : i + d \in L} = {i \in DOMAIN t : ~t[i].routine}
    <2>1. \A i \in 1 .. Len(q) - d : i + d \in d + 1 .. Len(q)
        BY <1>1
    <2> QED
        BY <1>2, <1>11, <2>1
<1> QED
    BY <1>7, <1>8, <1>12, <1>13 DEF NotRoutine, t, w

\* One more frame: the oldest may go, and the two views stay one.
LEMMA AppendKeepsStore ==
  ASSUME NEW s, StoreOK(s), NEW fr \in ProtocolFrame
  PROVE  StoreOK(appendProtocolFrame(s, fr))
<1> DEFINE q == s.frames
           t == NewestOf(q, FrameLimit - 1)
           w == Append(t, fr)
           r == RetainedOperator(s.operator, w)
           op == IF fr.routine THEN r ELSE Append(r, fr)
<1>1. CASE fr.id \in Ids(q)
    BY <1>1 DEF appendProtocolFrame
<1>2. CASE fr.id \notin Ids(q)
    <2>1. /\ q \in Seq(ProtocolFrame) /\ OnceEach(q) /\ s.operator = NotRoutine(q)
          /\ DOMAIN s = {"link", "frames", "operator", "direct"} /\ Len(q) \in Nat
        BY DEF StoreOK
    <2>2. FrameLimit - 1 \in Nat /\ FrameLimit \in Nat
        BY CollectionAssumption
    <2>3. appendProtocolFrame(s, fr) = [s EXCEPT !.frames = w, !.operator = op]
        BY <1>2 DEF appendProtocolFrame
    <2> HIDE DEF q
    <2>12. t \in Seq(ProtocolFrame) /\ \E d \in 0 .. Len(q) : EndOf(t, q, FrameLimit - 1, d)
        BY <2>1, <2>2, NewestType
    <2>4. PICK d \in 0 .. Len(q) :
            /\ t = SubSeq(q, d + 1, Len(q)) /\ t \in Seq(ProtocolFrame)
            /\ Len(t) = Len(q) - d /\ Len(q) - d <= FrameLimit - 1
            /\ \A i \in 1 .. Len(q) - d : t[i] = q[i + d]
        BY <2>12 DEF EndOf
    <2> HIDE DEF t
    <2>5. r = NotRoutine(t)
        BY <1>2, <2>1, <2>4, RetainedSuffix
    <2>6. op = NotRoutine(w)
        BY <2>4, <2>5, NotRoutineAppend
    <2>7. /\ w \in Seq(ProtocolFrame) /\ Len(w) = Len(t) + 1 /\ w[Len(t) + 1] = fr
          /\ \A i \in 1 .. Len(t) : w[i] = t[i]
        <3>1. t \in Seq(ProtocolFrame)
            BY <2>4
        <3> HIDE DEF r, op
        <3> QED
            BY <3>1, AppendType
    <2> HIDE DEF w, op, r
    <2>8. Len(w) <= FrameLimit
        BY <2>1, <2>2, <2>4, <2>7
    <2>9. OnceEach(w)
        <3>1. Len(t) \in Nat /\ d \in Nat
            BY <2>1, <2>4
        <3>2. \A i \in 1 .. Len(t) : i + d \in 1 .. Len(q) /\ w[i] = q[i + d]
            BY <2>1, <2>4, <2>7, <3>1
        <3>3. \A i \in 1 .. Len(t) : w[i].id # fr.id
            <4>1. \A i \in 1 .. Len(q) : q[i].id \in Ids(q)
                BY <2>1 DEF Ids
            <4> QED
                BY <1>2, <3>2, <4>1
        <3>4. \A i \in 1 .. Len(w) : i \in 1 .. Len(t) \/ i = Len(t) + 1
            BY <2>7, <3>1
        <3>5. \A i, j \in 1 .. Len(t) : w[i].id = w[j].id => i = j
            <4> SUFFICES ASSUME NEW i \in 1 .. Len(t), NEW j \in 1 .. Len(t), w[i].id = w[j].id
                         PROVE  i = j
                OBVIOUS
            <4>0. /\ i + d \in 1 .. Len(q) /\ j + d \in 1 .. Len(q)
                  /\ q[i + d].id = q[j + d].id
                BY <3>2
            <4>1. i + d = j + d
                BY <2>1, <4>0 DEF OnceEach
            <4> QED
                BY <3>1, <4>1
        <3> QED
            BY <2>7, <3>3, <3>4, <3>5 DEF OnceEach
    <2> DEFINE u == [s EXCEPT !.frames = w, !.operator = op]
    <2>10. DOMAIN u = {"link", "frames", "operator", "direct"} /\ u.frames = w /\ u.operator = op
        BY <2>1
    <2> HIDE DEF u
    <2>11. StoreOK(u)
        BY <2>6, <2>7, <2>8, <2>9, <2>10 DEF StoreOK
    <2> QED
        BY <2>3, <2>11 DEF u
<1> QED
    BY <1>1, <1>2

\* A snapshot with repeated ids: the newest of each, the newest of them.
LEMMA UniqueFrames ==
  ASSUME NEW q \in Seq(ProtocolFrame)
  PROVE  /\ uniqueProtocolFrames(q) \in Seq(ProtocolFrame)
         /\ Len(uniqueProtocolFrames(q)) <= FrameLimit /\ OnceEach(uniqueProtocolFrames(q))
<1> DEFINE newest == {i \in DOMAIN q : \A j \in i + 1 .. Len(q) : q[j].id # q[i].id}
           t == Selected(q, newest)
           u == NewestOf(t, FrameLimit)
<1>1. Len(q) \in Nat /\ newest \in SUBSET (1 .. Len(q))
    OBVIOUS
<1>2. \A i \in newest : \A j \in i + 1 .. Len(q) : q[j].id # q[i].id
    OBVIOUS
<1>3. uniqueProtocolFrames(q) = u
    BY DEF uniqueProtocolFrames
<1> HIDE DEF newest
<1> DEFINE m == Cardinality(newest)
<1>4. /\ t \in Seq(ProtocolFrame) /\ Len(t) = m
      /\ \A n \in 1 .. m : PositionOf(newest, n) \in newest /\ t[n] = q[PositionOf(newest, n)]
    BY <1>1, SelectedType
<1>5. m \in Nat /\ \A a, b \in 1 .. m : a < b => PositionOf(newest, a) < PositionOf(newest, b)
    BY <1>1, Positions
<1> HIDE DEF t, m
<1>6. ASSUME NEW a \in 1 .. m, NEW b \in 1 .. m, a < b PROVE t[a].id # t[b].id
    <2> DEFINE i == PositionOf(newest, a)
               j == PositionOf(newest, b)
    <2>1. i \in newest /\ j \in newest /\ i < j /\ t[a] = q[i] /\ t[b] = q[j]
        BY <1>4, <1>5, <1>6
    <2> HIDE DEF i, j
    <2>2. i \in 1 .. Len(q) /\ j \in 1 .. Len(q)
        BY <1>1, <2>1
    <2>3. j \in i + 1 .. Len(q)
        BY <1>1, <2>1, <2>2
    <2> QED
        BY <1>2, <2>1, <2>3
<1>7. \A a, b \in 1 .. m : t[a].id = t[b].id => a = b
    <2> SUFFICES ASSUME NEW a \in 1 .. m, NEW b \in 1 .. m, t[a].id = t[b].id PROVE a = b
        OBVIOUS
    <2>1. ~(a < b) /\ ~(b < a)
        BY <1>6
    <2> QED
        BY <1>5, <2>1
<1>8. FrameLimit \in Nat
    BY CollectionAssumption
<1>9. PICK d \in 0 .. m :
        /\ u \in Seq(ProtocolFrame) /\ Len(u) = m - d /\ m - d <= FrameLimit
        /\ \A i \in 1 .. m - d : u[i] = t[i + d]
    <2>1. u \in Seq(ProtocolFrame) /\ \E d \in 0 .. Len(t) : EndOf(u, t, FrameLimit, d)
        BY <1>4, <1>8, NewestType
    <2> HIDE DEF u
    <2> QED
        BY <1>4, <2>1 DEF EndOf
<1> HIDE DEF u
<1>10. OnceEach(u)
    <2> SUFFICES ASSUME NEW i \in 1 .. m - d, NEW j \in 1 .. m - d, u[i].id = u[j].id PROVE i = j
        BY <1>9 DEF OnceEach
    <2>1. i + d \in 1 .. m /\ j + d \in 1 .. m /\ i \in Int /\ j \in Int /\ d \in Int
        BY <1>5
    <2>2. i + d = j + d
        BY <1>7, <1>9, <2>1
    <2> QED
        BY <2>1, <2>2
<1> QED
    BY <1>3, <1>9, <1>10

LEMMA ReplaceKeepsStore ==
  ASSUME NEW s, DOMAIN s = {"link", "frames", "operator", "direct"}, NEW q \in Seq(ProtocolFrame),
         NEW results
  PROVE  StoreOK(replaceDirectCommandHistory(replaceProtocolFrames(s, q), results))
<1> DEFINE u == uniqueProtocolFrames(q)
<1>1. u \in Seq(ProtocolFrame) /\ Len(u) <= FrameLimit /\ OnceEach(u)
    BY UniqueFrames
<1>2. replaceProtocolFrames(s, q) = [s EXCEPT !.frames = u, !.operator = NotRoutine(u)]
    BY DEF replaceProtocolFrames
<1> HIDE DEF u
<1> DEFINE v == replaceDirectCommandHistory(replaceProtocolFrames(s, q), results)
<1>3. /\ DOMAIN v = {"link", "frames", "operator", "direct"}
      /\ v.frames = u /\ v.operator = NotRoutine(u)
    BY <1>2 DEF replaceDirectCommandHistory
<1> HIDE DEF v
<1>4. StoreOK(v)
    BY <1>1, <1>3 DEF StoreOK
<1> QED
    BY <1>4 DEF v

\* What is cleared is hidden, although the hidden ids are cut to the newest.
LEMMA HiddenKeepsCaptured ==
  ASSUME NEW current \in Seq(Nat), NEW captured \in Seq(Nat), Len(captured) <= FrameLimit
  PROVE  /\ HiddenAfter(current, captured) \in Seq(Nat)
         /\ ToSet(captured) \subseteq ToSet(HiddenAfter(current, captured))
<1> DEFINE both == current \o captured
           all == NewestOf(both, FrameLimit)
           first == {i \in DOMAIN all : \A j \in 1 .. i - 1 : all[j] # all[i]}
           hidden == Selected(all, first)
<1>1. /\ Len(current) \in Nat /\ Len(captured) \in Nat /\ both \in Seq(Nat)
      /\ Len(both) = Len(current) + Len(captured)
      /\ \A k \in 1 .. Len(captured) : both[Len(current) + k] = captured[k]
    OBVIOUS
<1>2. HiddenAfter(current, captured) = hidden
    BY DEF HiddenAfter
<1>3. FrameLimit \in Nat
    BY CollectionAssumption
<1> HIDE DEF both
<1>4. PICK d \in 0 .. Len(both) :
        /\ all \in Seq(Nat) /\ Len(all) = Len(both) - d /\ (d > 0 => Len(all) = FrameLimit)
        /\ \A i \in 1 .. Len(both) - d : all[i] = both[i + d]
    <2>1. all \in Seq(Nat) /\ \E d \in 0 .. Len(both) : EndOf(all, both, FrameLimit, d)
        BY <1>1, <1>3, NewestType
    <2> HIDE DEF all
    <2> QED
        BY <2>1 DEF EndOf
<1> HIDE DEF all
<1>5. Len(all) \in Nat /\ DOMAIN all = 1 .. Len(all) /\ first \in SUBSET (1 .. Len(all))
    BY <1>4
<1>6. \A i \in 1 .. Len(all) : (\A j \in 1 .. i - 1 : all[j] # all[i]) => i \in first
    BY <1>5
<1> HIDE DEF first
<1>7. hidden \in Seq(Nat) /\ Len(hidden) = Cardinality(first)
      /\ \A i \in first : \E n \in 1 .. Cardinality(first) : hidden[n] = all[i]
    BY <1>4, <1>5, SelectedType
<1> HIDE DEF hidden
<1>8. ASSUME NEW k \in 1 .. Len(captured) PROVE captured[k] \in ToSet(hidden)
    <2> DEFINE x == captured[k]
               T == {i \in 1 .. Len(all) : all[i] = x}
               at == Len(current) + k - d
    <2>1. at \in 1 .. Len(all) /\ at + d = Len(current) + k
        BY <1>1, <1>3, <1>4
    <2>2. all[at] = x
        BY <1>1, <1>4, <2>1
    <2>3. T \in SUBSET Nat /\ T # {}
        <3>1. at \in T
            BY <2>1, <2>2
        <3>2. \A i \in T : i \in Nat
            BY <1>5
        <3> QED
            BY <3>1, <3>2
    <2>4. PICK i \in T : \A j \in T : i <= j
        BY <2>3, LeastNatural
    <2>5. i \in 1 .. Len(all) /\ all[i] = x
        OBVIOUS
    <2>6. \A j \in 1 .. i - 1 : all[j] # all[i]
        <3> SUFFICES ASSUME NEW j \in 1 .. i - 1, all[j] = x PROVE FALSE
            BY <2>5
        <3>1. j \in 1 .. Len(all) /\ j < i
            BY <1>5, <2>5
        <3>2. j \in T
            BY <3>1
        <3>3. i <= j
            BY <2>4, <3>2
        <3> QED
            BY <2>5, <3>1, <3>3
    <2>7. PICK n \in 1 .. Cardinality(first) : hidden[n] = x
        BY <1>6, <1>7, <2>5, <2>6
    <2>8. n \in DOMAIN hidden
        BY <1>7, <2>7
    <2> QED
        BY <2>7, <2>8 DEF ToSet
<1>9. ToSet(captured) \subseteq ToSet(hidden)
    <2>1. DOMAIN captured = 1 .. Len(captured)
        OBVIOUS
    <2> QED
        BY <1>8, <2>1 DEF ToSet
<1> QED
    BY <1>2, <1>7, <1>9

-----------------------------------------------------------------------------
\* A notification is what it says it is.
LEMMA NoteKinds ==
  \A m \in Note : /\ m.kind = "session" => m.link \in LinkIds
                  /\ m.kind = "frame" => m.frame \in ProtocolFrame
                  /\ m.kind = "result" => m.result \in SendResult
  BY DEF Note

LEMMA NotifyType ==
  ASSUME feed \in Seq(Note), NEW m \in Note
  PROVE  Notify(<<m>>) \in Seq(Note)
<1>1. FeedLimit \in Nat
    BY CollectionAssumption
<1>2. feed \o <<m>> \in Seq(Note)
    OBVIOUS
<1> QED
    BY <1>1, <1>2, NewestType DEF Notify

\* The histories of a snapshot are of the gateway, and so is what it says.
LEMMA DeviceStep ==
  ASSUME CollectionIInv, UNCHANGED <<store, terminal, reads>>,
         \/ DeviceConnects \/ \E routine \in BOOLEAN : DeviceFrame(routine)
         \/ \E r \in Requests : DeviceAdmits(r) \/ DeviceSettles(r)
  PROVE  CollectionIInv'
<1>1. /\ device.link \in LinkIds /\ device.clock \in Nat /\ device.frames \in Seq(ProtocolFrame)
      /\ device.direct \subseteq SendResult /\ feed \in Seq(Note)
      /\ DOMAIN device = {"link", "used", "frames", "direct", "clock"}
    BY DEF CollectionIInv, DeviceOK
<1>2. StoreOK(store)' /\ ReadsOK' /\ TerminalOK'
    BY DEF CollectionIInv, StoreOK, ReadsOK, TerminalOK
<1>3. CASE DeviceConnects
    <2>1. PICK link \in LinkIds :
            /\ device' = [device EXCEPT !.link = link, !.used = @ \cup {link}, !.frames = <<>>,
                                        !.direct = {}, !.clock = @ + 1]
            /\ feed' = Notify(<<[kind |-> "session", link |-> link]>>)
        BY <1>3 DEF DeviceConnects
    <2>2. /\ DOMAIN device' = {"link", "used", "frames", "direct", "clock"}
          /\ device'.link = link /\ device'.frames = <<>> /\ device'.direct = {}
          /\ device'.clock = device.clock + 1
        BY <1>1, <2>1
    <2>3. DeviceOK'
        BY <1>1, <2>2 DEF DeviceOK
    <2>4. [kind |-> "session", link |-> link] \in Note
        BY DEF Note
    <2>5. feed' \in Seq(Note)
        BY <1>1, <2>1, <2>4, NotifyType
    <2> QED
        BY <1>2, <2>3, <2>5 DEF CollectionIInv
<1>4. CASE \E routine \in BOOLEAN : DeviceFrame(routine)
    <2>1. PICK routine \in BOOLEAN : DeviceFrame(routine)
        BY <1>4
    <2> DEFINE fr == [id |-> device.clock, routine |-> routine]
    <2>2. fr \in ProtocolFrame
        BY <1>1 DEF ProtocolFrame
    <2>3. /\ device' = [device EXCEPT !.clock = @ + 1,
                                      !.frames = NewestOf(Append(@, fr), FrameLimit)]
          /\ feed' = Notify(<<[kind |-> "frame", frame |-> fr]>>)
        BY <2>1 DEF DeviceFrame
    <2> HIDE DEF fr
    <2>4. Append(device.frames, fr) \in Seq(ProtocolFrame) /\ FrameLimit \in Nat
        BY <1>1, <2>2, AppendType, CollectionAssumption
    <2>5. NewestOf(Append(device.frames, fr), FrameLimit) \in Seq(ProtocolFrame)
        BY <2>4, NewestType
    <2>6. /\ DOMAIN device' = {"link", "used", "frames", "direct", "clock"}
          /\ device'.link = device.link /\ device'.direct = device.direct
          /\ device'.frames = NewestOf(Append(device.frames, fr), FrameLimit)
          /\ device'.clock = device.clock + 1
        BY <1>1, <2>3
    <2>7. DeviceOK'
        BY <1>1, <2>5, <2>6 DEF DeviceOK
    <2>8. [kind |-> "frame", frame |-> fr] \in Note
        BY <2>2 DEF Note
    <2>9. feed' \in Seq(Note)
        BY <1>1, <2>3, <2>8, NotifyType
    <2> QED
        BY <1>2, <2>7, <2>9 DEF CollectionIInv
<1>5. ASSUME NEW r \in Requests, DeviceAdmits(r) PROVE CollectionIInv'
    <2> DEFINE queued == Result(r, device.link, "queued", device.clock)
    <2>1. queued \in SendResult
        BY <1>1 DEF Result, SendResult
    <2>2. \/ /\ device' = [device EXCEPT !.direct = @ \cup {queued}, !.clock = @ + 1]
             /\ feed' = Notify(<<[kind |-> "result", result |-> queued]>>)
          \/ device' = [device EXCEPT !.clock = @ + 1] /\ feed' = feed
        BY <1>5 DEF DeviceAdmits
    <2> HIDE DEF queued
    <2>3. /\ DOMAIN device' = {"link", "used", "frames", "direct", "clock"}
          /\ device'.link = device.link /\ device'.frames = device.frames
          /\ device'.direct \subseteq device.direct \cup {queued}
          /\ device'.clock = device.clock + 1
        BY <1>1, <2>2
    <2>4. DeviceOK'
        BY <1>1, <2>1, <2>3 DEF DeviceOK
    <2>5. [kind |-> "result", result |-> queued] \in Note
        BY <2>1 DEF Note
    <2>6. feed' \in Seq(Note)
        BY <1>1, <2>2, <2>5, NotifyType
    <2> QED
        BY <1>2, <2>4, <2>6 DEF CollectionIInv
<1>6. ASSUME NEW r \in Requests, DeviceSettles(r) PROVE CollectionIInv'
    <2>1. PICK old \in device.direct :
            /\ device' = [device EXCEPT
                   !.direct = (@ \ {old}) \cup {Result(r, old.link, "settled", device.clock)},
                   !.clock = @ + 1]
            /\ feed' = Notify(<<[kind |-> "result",
                                 result |-> Result(r, old.link, "settled", device.clock)]>>)
        BY <1>6 DEF DeviceSettles
    <2> DEFINE settled == Result(r, old.link, "settled", device.clock)
    <2>2. settled \in SendResult
        <3>1. old.link \in LinkIds
            BY <1>1 DEF SendResult
        <3> QED
            BY <1>1, <3>1 DEF Result, SendResult
    <2> HIDE DEF settled
    <2>3. /\ DOMAIN device' = {"link", "used", "frames", "direct", "clock"}
          /\ device'.link = device.link /\ device'.frames = device.frames
          /\ device'.direct \subseteq device.direct \cup {settled}
          /\ device'.clock = device.clock + 1
        BY <1>1, <2>1 DEF settled
    <2>4. DeviceOK'
        BY <1>1, <2>2, <2>3 DEF DeviceOK
    <2>5. [kind |-> "result", result |-> settled] \in Note
        BY <2>2 DEF Note
    <2>6. feed' \in Seq(Note)
        BY <1>1, <2>1, <2>5, NotifyType DEF settled
    <2> QED
        BY <1>2, <2>4, <2>6 DEF CollectionIInv
<1> QED
    BY <1>3, <1>4, <1>5, <1>6

LEMMA EmptyStore == \A link : StoreOK(emptyCollections(link))
<1> SUFFICES ASSUME NEW link PROVE StoreOK(emptyCollections(link))
    OBVIOUS
<1> DEFINE v == emptyCollections(link)
<1>1. /\ DOMAIN v = {"link", "frames", "operator", "direct"}
      /\ v.frames = <<>> /\ v.operator = <<>>
    BY DEF emptyCollections
<1>2. NotRoutine(<<>>) = <<>>
    <2>1. {i \in DOMAIN <<>> : ~<<>>[i].routine} = {}
        OBVIOUS
    <2>2. Cardinality({}) = 0
        BY FS_EmptySet
    <2>3. 1 .. 0 = {}
        OBVIOUS
    <2>4. Selected(<<>>, {}) = <<>>
        BY <2>2, <2>3 DEF Selected
    <2> QED
        BY <2>1, <2>4 DEF NotRoutine
<1> HIDE DEF v
<1>3. StoreOK(v)
    BY <1>1, <1>2, CollectionAssumption DEF StoreOK, OnceEach
<1> QED
    BY <1>3 DEF v

\* What the hub brings and what a refresh returns.
LEMMA HubStep ==
  ASSUME CollectionIInv, HubSession \/ HubFrame \/ HubResult \/ RefreshReturns
  PROVE  CollectionIInv'
<1>1. StoreOK(store) /\ feed \in Seq(Note) /\ ReadsOK
    BY DEF CollectionIInv
<1>2. feed # <<>> => Head(feed) \in Note /\ Tail(feed) \in Seq(Note)
    BY <1>1
<1>3. UNCHANGED <<terminal, device>> => TerminalOK' /\ DeviceOK'
    BY DEF CollectionIInv, TerminalOK, DeviceOK
<1>4. UNCHANGED reads => ReadsOK'
    BY <1>1 DEF ReadsOK
<1>5. CASE HubSession
    <2>1. /\ feed # <<>> /\ store' = setSession(store, Head(feed).link) /\ feed' = Tail(feed)
          /\ UNCHANGED <<terminal, device>>
          /\ reads' = reads \/ reads' = BeginRefresh(reads)
        BY <1>5 DEF HubSession
    <2>2. StoreOK(emptyCollections(Head(feed).link))
        BY EmptyStore
    <2>3. StoreOK(store')
        BY <1>1, <2>1, <2>2 DEF setSession
    <2>4. ReadsOK'
        BY <1>1, <2>1 DEF ReadsOK, BeginRefresh
    <2> QED
        BY <1>2, <1>3, <2>1, <2>3, <2>4 DEF CollectionIInv, StoreOK
<1>6. CASE HubFrame
    <2>1. /\ feed # <<>> /\ Head(feed).kind = "frame" /\ feed' = Tail(feed)
          /\ store' = appendProtocolFrame(store, Head(feed).frame)
          /\ UNCHANGED <<terminal, device>> /\ UNCHANGED reads
        BY <1>6 DEF HubFrame
    <2>2. Head(feed).frame \in ProtocolFrame
        BY <1>2, <2>1, NoteKinds
    <2>3. StoreOK(store')
        BY <1>1, <2>1, <2>2, AppendKeepsStore
    <2> QED
        BY <1>2, <1>3, <1>4, <2>1, <2>3 DEF CollectionIInv, StoreOK
<1>7. CASE HubResult
    <2>1. /\ feed # <<>> /\ feed' = Tail(feed)
          /\ store' = upsertDirectCommandResult(store, Head(feed).result)
          /\ UNCHANGED <<terminal, device>> /\ UNCHANGED reads
        BY <1>7 DEF HubResult
    <2>2. StoreOK(store')
        <3>1. /\ DOMAIN store' = DOMAIN store
              /\ store'.frames = store.frames /\ store'.operator = store.operator
            BY <1>1, <2>1 DEF upsertDirectCommandResult, StoreOK
        <3> QED
            BY <1>1, <3>1 DEF StoreOK
    <2> QED
        BY <1>2, <1>3, <1>4, <2>1, <2>2 DEF CollectionIInv, StoreOK
<1>8. CASE RefreshReturns
    <2>1. PICK f \in reads.refreshes :
            /\ reads' = [reads EXCEPT !.refreshes = @ \ {f}]
            /\ \/ store' = replaceDirectCommandHistory(store, f.results)
               \/ store' = store
            /\ UNCHANGED <<terminal, device, feed>>
        BY <1>8 DEF RefreshReturns
    <2>2. StoreOK(store')
        <3>1. /\ DOMAIN store' = DOMAIN store
              /\ store'.frames = store.frames /\ store'.operator = store.operator
            BY <1>1, <2>1 DEF replaceDirectCommandHistory, StoreOK
        <3> QED
            BY <1>1, <3>1 DEF StoreOK
    <2>3. ReadsOK'
        BY <1>1, <2>1 DEF ReadsOK
    <2> QED
        BY <1>1, <1>3, <2>1, <2>2, <2>3 DEF CollectionIInv, StoreOK
<1> QED
    BY <1>5, <1>6, <1>7, <1>8

LEMMA NoAuthorityType ==
  "frames" \in DOMAIN NoAuthority /\ NoAuthority.frames \in Seq(ProtocolFrame)
  BY DEF NoAuthority

\* The reads of the authority.
LEMMA ReadStep ==
  ASSUME CollectionIInv, NEW what \in {"session", "histories"},
         RefreshServed \/ AuthorityBegins \/ AuthorityServed(what) \/ AuthorityReturns
           \/ AuthorityFails
  PROVE  CollectionIInv'
<1>1. StoreOK(store) /\ ReadsOK /\ DeviceOK
    BY DEF CollectionIInv
<1>2. UNCHANGED <<terminal, device, feed>> => TerminalOK' /\ DeviceOK' /\ feed' \in Seq(Note)
    BY DEF CollectionIInv, TerminalOK, DeviceOK
<1>3. UNCHANGED store => StoreOK(store')
    BY <1>1 DEF StoreOK
<1>4. CASE RefreshServed
    <2>1. UNCHANGED <<terminal, device, feed>> /\ UNCHANGED store
          /\ \E rs : reads' = [reads EXCEPT !.refreshes = rs]
        BY <1>4 DEF RefreshServed
    <2>2. ReadsOK'
        BY <1>1, <2>1 DEF ReadsOK
    <2> QED
        BY <1>2, <1>3, <2>1, <2>2 DEF CollectionIInv, StoreOK
<1>5. CASE AuthorityBegins
    <2>1. UNCHANGED <<terminal, device, feed>> /\ UNCHANGED store
          /\ reads' = [reads EXCEPT !.left = @ - 1, !.authority.asked = {"session", "histories"}]
        BY <1>5 DEF AuthorityBegins
    <2>2. ReadsOK'
        BY <1>1, <2>1 DEF ReadsOK
    <2> QED
        BY <1>2, <1>3, <2>1, <2>2 DEF CollectionIInv, StoreOK
<1>6. CASE AuthorityServed(what)
    <2>1. UNCHANGED <<terminal, device, feed>> /\ UNCHANGED store
          /\ \E asked, link, results :
               reads' = [reads EXCEPT !.authority =
                 [asked |-> asked, link |-> link,
                  frames |-> IF what = "session" THEN reads.authority.frames ELSE device.frames,
                  results |-> results]]
        BY <1>1, <1>6 DEF AuthorityServed, ReadsOK
    <2>2. ReadsOK'
        BY <1>1, <2>1 DEF ReadsOK, DeviceOK
    <2> QED
        BY <1>2, <1>3, <2>1, <2>2 DEF CollectionIInv, StoreOK
<1>7. CASE AuthorityReturns
    <2> DEFINE accepted == setSession(store, reads.authority.link)
    <2>1. /\ UNCHANGED <<terminal, device, feed>>
          /\ store' = replaceDirectCommandHistory(
                        replaceProtocolFrames(accepted, reads.authority.frames),
                        reads.authority.results)
          /\ reads' = [reads EXCEPT !.authority = NoAuthority]
        BY <1>7 DEF AuthorityReturns
    <2>2. DOMAIN accepted = {"link", "frames", "operator", "direct"}
        BY <1>1 DEF setSession, emptyCollections, StoreOK
    <2>3. reads.authority.frames \in Seq(ProtocolFrame)
        BY <1>1 DEF ReadsOK
    <2> HIDE DEF accepted
    <2>4. StoreOK(store')
        BY <2>1, <2>2, <2>3, ReplaceKeepsStore
    <2>5. ReadsOK'
        BY <1>1, <2>1, NoAuthorityType DEF ReadsOK
    <2> QED
        BY <1>2, <2>1, <2>4, <2>5 DEF CollectionIInv, StoreOK
<1>8. CASE AuthorityFails
    <2>1. /\ UNCHANGED <<terminal, device, feed>> /\ UNCHANGED store
          /\ reads' = [reads EXCEPT !.authority = NoAuthority]
        BY <1>8 DEF AuthorityFails
    <2>2. ReadsOK'
        BY <1>1, <2>1, NoAuthorityType DEF ReadsOK
    <2> QED
        BY <1>2, <1>3, <2>1, <2>2 DEF CollectionIInv, StoreOK
<1> QED
    BY <1>4, <1>5, <1>6, <1>7, <1>8

\* Whichever view the page shows, it holds no more frames than the store may.
LEMMA CaptureType ==
  ASSUME StoreOK(store)
  PROVE  CaptureFrames \in Seq(ProtocolFrame) /\ Len(CaptureFrames) <= FrameLimit
<1> DEFINE q == store.frames
           K == {i \in DOMAIN q : ~q[i].routine}
<1>1. q \in Seq(ProtocolFrame) /\ Len(q) <= FrameLimit /\ store.operator = NotRoutine(q)
    BY DEF StoreOK
<1> HIDE DEF q
<1>2. Len(q) \in Nat /\ K \in SUBSET (1 .. Len(q)) /\ FrameLimit \in Nat
    BY <1>1, CollectionAssumption
<1>3. NotRoutine(q) = Selected(q, K)
    BY DEF NotRoutine
<1> HIDE DEF K
<1>4. Selected(q, K) \in Seq(ProtocolFrame) /\ Len(Selected(q, K)) = Cardinality(K)
    BY <1>1, <1>2, SelectedType
<1>5. Cardinality(K) <= Len(q) /\ Cardinality(K) \in Nat
    <2>1. IsFiniteSet(1 .. Len(q)) /\ Cardinality(1 .. Len(q)) = Len(q)
        BY <1>2, FS_Interval
    <2>2. IsFiniteSet(K) /\ Cardinality(K) <= Cardinality(1 .. Len(q))
        BY <1>2, <2>1, FS_Subset
    <2> QED
        BY <2>1, <2>2, FS_CardinalityType
<1>6. Len(NotRoutine(q)) <= FrameLimit
    BY <1>1, <1>2, <1>3, <1>4, <1>5
<1> QED
    BY <1>1, <1>3, <1>4, <1>6 DEF CaptureFrames, q

LEMMA PageStep ==
  ASSUME CollectionIInv,
         SessionEffect \/ ToggleRoutine \/ ClearView
           \/ \E r \in Requests : SendDirect(r) \/ SendReturns(r)
  PROVE  CollectionIInv'
<1>1. StoreOK(store) /\ ReadsOK /\ DeviceOK /\ TerminalOK /\ feed \in Seq(Note)
    BY DEF CollectionIInv
<1>2. UNCHANGED <<store, feed, reads>> => StoreOK(store') /\ ReadsOK' /\ feed' \in Seq(Note)
    BY <1>1 DEF StoreOK, ReadsOK
<1>3. UNCHANGED device => DeviceOK'
    BY <1>1 DEF DeviceOK
<1>4. CASE SessionEffect
    <2>1. /\ UNCHANGED <<store, feed, reads>> /\ UNCHANGED device
          /\ terminal' = [terminal EXCEPT !.link = store.link, !.hidden = <<>>,
                                          !.cleared = {}, !.admissions = {}]
        BY <1>4 DEF SessionEffect
    <2>2. /\ DOMAIN terminal' = DOMAIN terminal
          /\ terminal'.hidden = <<>> /\ terminal'.cleared = {}
        BY <1>1, <2>1 DEF TerminalOK
    <2>3. TerminalOK'
        BY <1>1, <2>2 DEF TerminalOK
    <2> QED
        BY <1>2, <1>3, <2>1, <2>3 DEF CollectionIInv, StoreOK
<1>5. CASE ToggleRoutine
    <2>1. /\ UNCHANGED <<store, feed, reads>> /\ UNCHANGED device
          /\ terminal' = [terminal EXCEPT !.routine = ~@]
        BY <1>5 DEF ToggleRoutine
    <2>2. TerminalOK'
        BY <1>1, <2>1 DEF TerminalOK
    <2> QED
        BY <1>2, <1>3, <2>1, <2>2 DEF CollectionIInv, StoreOK
<1>6. CASE ClearView
    <2> DEFINE captured == [i \in DOMAIN CaptureFrames |-> CaptureFrames[i].id]
               hidden == HiddenAfter(terminal.hidden, captured)
    <2>1. /\ UNCHANGED <<store, feed, reads>> /\ UNCHANGED device
          /\ terminal' = [terminal EXCEPT !.hidden = hidden, !.cleared = ToSet(captured)]
        BY <1>6 DEF ClearView
    <2>2. captured \in Seq(Nat) /\ Len(captured) <= FrameLimit
        <3> DEFINE q == CaptureFrames
        <3>1. q \in Seq(ProtocolFrame) /\ Len(q) <= FrameLimit
            BY <1>1, CaptureType
        <3> HIDE DEF q
        <3>2. DOMAIN q = 1 .. Len(q) /\ Len(q) \in Nat /\ \A i \in 1 .. Len(q) : q[i].id \in Nat
            <4>1. DOMAIN q = 1 .. Len(q) /\ Len(q) \in Nat
                  /\ \A i \in 1 .. Len(q) : q[i] \in ProtocolFrame
                BY <3>1
            <4>2. \A f \in ProtocolFrame : f.id \in Nat
                BY DEF ProtocolFrame
            <4> QED
                BY <4>1, <4>2
        <3>3. [i \in DOMAIN q |-> q[i].id] \in Seq(Nat) /\ Len([i \in DOMAIN q |-> q[i].id]) = Len(q)
            BY <3>2
        <3> QED
            BY <3>1, <3>3 DEF q
    <2>3. terminal.hidden \in Seq(Nat)
        BY <1>1 DEF TerminalOK
    <2> HIDE DEF captured
    <2>4. hidden \in Seq(Nat) /\ ToSet(captured) \subseteq ToSet(hidden)
        BY <2>2, <2>3, HiddenKeepsCaptured
    <2> HIDE DEF hidden
    <2>5. /\ DOMAIN terminal' = DOMAIN terminal
          /\ terminal'.hidden = hidden /\ terminal'.cleared = ToSet(captured)
        BY <1>1, <2>1 DEF TerminalOK
    <2>6. TerminalOK'
        BY <1>1, <2>4, <2>5 DEF TerminalOK
    <2> QED
        BY <1>2, <1>3, <2>1, <2>6 DEF CollectionIInv, StoreOK
<1>7. ASSUME NEW r \in Requests, SendDirect(r) PROVE CollectionIInv'
    <2>1. UNCHANGED <<store, feed, reads>> /\ UNCHANGED device /\ UNCHANGED terminal
        BY <1>7 DEF SendDirect
    <2>2. TerminalOK'
        BY <1>1, <2>1 DEF TerminalOK
    <2> QED
        BY <1>2, <1>3, <2>1, <2>2 DEF CollectionIInv, StoreOK
<1>8. ASSUME NEW r \in Requests, SendReturns(r) PROVE CollectionIInv'
    <2>1. /\ UNCHANGED <<store, feed, reads>> /\ device' = [device EXCEPT !.clock = @ + 1]
          /\ \E admissions : terminal' = [terminal EXCEPT !.admissions = admissions]
        BY <1>8 DEF SendReturns
    <2>2. TerminalOK'
        BY <1>1, <2>1 DEF TerminalOK
    <2>3. /\ DOMAIN device' = DOMAIN device /\ device'.clock = device.clock + 1
          /\ device'.link = device.link /\ device'.frames = device.frames
          /\ device'.direct = device.direct
        BY <1>1, <2>1 DEF DeviceOK
    <2>4. DeviceOK'
        BY <1>1, <2>3 DEF DeviceOK
    <2> QED
        BY <1>2, <2>1, <2>2, <2>4 DEF CollectionIInv, StoreOK
<1> QED
    BY <1>4, <1>5, <1>6, <1>7, <1>8

\* A bounded list of distinct frames has as many ids as frames.
LEMMA IdsCounted ==
  ASSUME NEW q \in Seq(ProtocolFrame), OnceEach(q)
  PROVE  Cardinality(Ids(q)) = Len(q)
<1> DEFINE n == Len(q)
           g == [i \in 1 .. n |-> q[i].id]
<1>1. n \in Nat /\ DOMAIN q = 1 .. n
    OBVIOUS
<1>2. Ids(q) = {q[i].id : i \in 1 .. n}
    BY <1>1 DEF Ids
<1>3. g \in [1 .. n -> Ids(q)] /\ \A a, b \in 1 .. n : g[a] = g[b] => a = b
    BY <1>2 DEF OnceEach
<1>4. \A x \in Ids(q) : \E i \in 1 .. n : g[i] = x
    BY <1>2
<1> HIDE DEF g, n
<1>5. g \in Bijection(1 .. n, Ids(q))
    BY <1>3, <1>4, Fun_IsBij
<1>6. IsFiniteSet(1 .. n) /\ Cardinality(1 .. n) = n
    BY <1>1, FS_Interval
<1>7. Cardinality(Ids(q)) = n
    BY <1>5, <1>6, FS_Bijection DEF ExistsBijection
<1> QED
    BY <1>7 DEF n

LEMMA CollectionStep == CollectionIInv /\ [CollectionNext]_collectionVars => CollectionIInv'
<1> SUFFICES ASSUME CollectionIInv, [CollectionNext]_collectionVars PROVE CollectionIInv'
    OBVIOUS
<1>1. CASE DeviceConnects
    BY <1>1, DeviceStep DEF DeviceConnects
<1>2. ASSUME NEW routine \in BOOLEAN, DeviceFrame(routine) PROVE CollectionIInv'
    BY <1>2, DeviceStep DEF DeviceFrame
<1>3. ASSUME NEW r \in Requests, DeviceAdmits(r) PROVE CollectionIInv'
    BY <1>3, DeviceStep DEF DeviceAdmits
<1>4. ASSUME NEW r \in Requests, DeviceSettles(r) PROVE CollectionIInv'
    BY <1>4, DeviceStep DEF DeviceSettles
<1>5. CASE HubSession \/ HubFrame \/ HubResult \/ RefreshReturns
    BY <1>5, HubStep
<1>6. CASE RefreshServed \/ AuthorityBegins \/ AuthorityReturns \/ AuthorityFails
           \/ \E what \in {"session", "histories"} : AuthorityServed(what)
    BY <1>6, ReadStep
<1>7. CASE SessionEffect \/ ToggleRoutine \/ ClearView
           \/ \E r \in Requests : SendDirect(r) \/ SendReturns(r)
    BY <1>7, PageStep
<1>8. CASE UNCHANGED collectionVars
    BY <1>8 DEF collectionVars, CollectionIInv, StoreOK, DeviceOK, ReadsOK, TerminalOK
<1> QED
    BY <1>1, <1>2, <1>3, <1>4, <1>5, <1>6, <1>7, <1>8 DEF CollectionNext

\* For any limits, sessions and order of notifications and snapshots, the
\* operator's view is the store's frames without the polling, and what was
\* cleared stays out of sight (useGatewayRuntimeStore, TerminalPage).
THEOREM OperatorAlwaysSees == CollectionSpec => []OperatorView
<1>1. CollectionInit => CollectionIInv
    <2> SUFFICES ASSUME CollectionInit PROVE CollectionIInv
        OBVIOUS
    <2>1. /\ store = emptyCollections(NoLink)
          /\ terminal = [link |-> NoLink, routine |-> FALSE, hidden |-> <<>>,
                         cleared |-> {}, admissions |-> {}]
          /\ \E link \in LinkIds :
               device = [link |-> link, used |-> {link}, frames |-> <<>>, direct |-> {}, clock |-> 0]
          /\ feed = <<>>
          /\ reads = [authority |-> NoAuthority, refreshes |-> {}, latest |-> 0, left |-> MaxReads]
        BY CollectionAssumption DEF CollectionInit
    <2>2. StoreOK(store)
        BY <2>1, EmptyStore
    <2>3. DeviceOK
        BY <2>1 DEF DeviceOK
    <2>4. ReadsOK
        BY <2>1, NoAuthorityType DEF ReadsOK
    <2>5. TerminalOK
        BY <2>1 DEF TerminalOK
    <2> QED
        BY <2>1, <2>2, <2>3, <2>4, <2>5 DEF CollectionIInv
<1>2. CollectionIInv => OperatorView
    <2> SUFFICES ASSUME CollectionIInv PROVE OperatorView
        OBVIOUS
    <2>1. StoreOK(store) /\ TerminalOK
        BY DEF CollectionIInv
    <2>2. Cardinality(Ids(store.frames)) = Len(store.frames)
        BY <2>1, IdsCounted DEF StoreOK
    <2>3. ASSUME NEW i \in DOMAIN VisibleFrames PROVE VisibleFrames[i].id \notin terminal.cleared
        <3> DEFINE q == CaptureFrames
                   K == {k \in DOMAIN q : q[k].id \notin ToSet(terminal.hidden)}
        <3>1. q \in Seq(ProtocolFrame)
            BY <2>1, CaptureType
        <3>2. VisibleFrames = Selected(q, K)
            BY DEF VisibleFrames
        <3> HIDE DEF q
        <3>3. K \in SUBSET (1 .. Len(q)) /\ \A k \in K : q[k].id \notin ToSet(terminal.hidden)
            BY <3>1
        <3> HIDE DEF K
        <3>4. /\ DOMAIN Selected(q, K) = 1 .. Cardinality(K)
              /\ \A n \in 1 .. Cardinality(K) :
                   PositionOf(K, n) \in K /\ Selected(q, K)[n] = q[PositionOf(K, n)]
            BY <3>1, <3>3, SelectedType DEF Selected
        <3>5. VisibleFrames[i].id \notin ToSet(terminal.hidden)
            BY <2>3, <3>2, <3>3, <3>4
        <3> QED
            BY <2>1, <3>5 DEF TerminalOK
    <2> QED
        BY <2>1, <2>2, <2>3 DEF OperatorView, StoreOK
<1> QED
    BY <1>1, <1>2, CollectionStep, PTL DEF CollectionSpec

-----------------------------------------------------------------------------
(* The line decoders.                                                      *)

Marks(s, ends) == {i \in DOMAIN s : s[i] \in ends}

CutOf(s, K, k) ==
  IF k = 0 THEN 0 ELSE IF k > Cardinality(K) THEN Len(s) + 1 ELSE PositionOf(K, k)

\* The lines that have ended.
Lines(s, ends) == Cardinality(Marks(s, ends))

\* Pieces, of any sequence.
PiecesOf(s, ends) ==
  [k \in 1 .. Lines(s, ends) + 1 |->
     SubSeq(s, CutOf(s, Marks(s, ends), k - 1) + 1, CutOf(s, Marks(s, ends), k) - 1)]

LEMMA PiecesAre == \A ends : Pieces(ends) = PiecesOf(stream, ends)
  BY DEF Pieces, PiecesOf, CutOf, Lines, Marks

\* A byte within a line lengthens the last piece.
LEMMA PieceLonger ==
  ASSUME NEW S, NEW s \in Seq(S), NEW x \in S, NEW ends, x \notin ends
  PROVE  /\ Lines(s, ends) \in Nat /\ Lines(Append(s, x), ends) = Lines(s, ends)
         /\ \A k \in 1 .. Lines(s, ends) :
              PiecesOf(Append(s, x), ends)[k] = PiecesOf(s, ends)[k]
         /\ PiecesOf(Append(s, x), ends)[Lines(s, ends) + 1]
              = Append(PiecesOf(s, ends)[Lines(s, ends) + 1], x)
<1> DEFINE w == Append(s, x)
           N == Len(s)
           K == Marks(s, ends)
           n == Cardinality(K)
<1>1. /\ w \in Seq(S) /\ Len(w) = N + 1 /\ w[N + 1] = x /\ N \in Nat
      /\ DOMAIN w = 1 .. N + 1 /\ DOMAIN s = 1 .. N
      /\ \A i \in 1 .. N : w[i] = s[i]
    OBVIOUS
<1>2. /\ \A c \in 0 .. N, a \in 0 .. N : SubSeq(w, a + 1, c) = SubSeq(s, a + 1, c)
      /\ \A a \in 0 .. N : SubSeq(w, a + 1, N + 1) = Append(SubSeq(s, a + 1, N), x)
    <2>1. ASSUME NEW a \in 0 .. N
          PROVE  /\ \A c \in 0 .. N : SubSeq(w, a + 1, c) = SubSeq(s, a + 1, c)
                 /\ SubSeq(w, a + 1, N + 1) = Append(SubSeq(s, a + 1, N), x)
        BY PartsGrow
    <2> QED
        BY <2>1
<1> HIDE DEF w
<1>3. Marks(w, ends) = K
    BY <1>1 DEF Marks
<1>4. K \in SUBSET (1 .. N)
    BY <1>1 DEF Marks
<1> HIDE DEF K, N
<1>5. n \in Nat /\ \A k \in 1 .. n : PositionOf(K, k) \in 1 .. N
    BY <1>1, <1>4, Positions
<1> HIDE DEF n
<1>6. /\ \A k \in 0 .. n : CutOf(s, K, k) \in 0 .. N /\ CutOf(w, K, k) = CutOf(s, K, k)
      /\ CutOf(s, K, n + 1) = N + 1 /\ CutOf(w, K, n + 1) = N + 2
    BY <1>1, <1>5 DEF CutOf, n, N
<1>7. /\ DOMAIN PiecesOf(s, ends) = 1 .. n + 1 /\ DOMAIN PiecesOf(w, ends) = 1 .. n + 1
      /\ \A k \in 1 .. n + 1 :
           /\ PiecesOf(s, ends)[k] = SubSeq(s, CutOf(s, K, k - 1) + 1, CutOf(s, K, k) - 1)
           /\ PiecesOf(w, ends)[k] = SubSeq(w, CutOf(w, K, k - 1) + 1, CutOf(w, K, k) - 1)
    BY <1>3 DEF PiecesOf, Lines, K, n
<1>8. ASSUME NEW k \in 1 .. n PROVE PiecesOf(w, ends)[k] = PiecesOf(s, ends)[k]
    <2>1. k \in 1 .. n + 1 /\ k - 1 \in 0 .. n /\ k \in 0 .. n
        BY <1>5
    <2>2. CutOf(s, K, k) # 0
        BY <1>1, <1>5 DEF CutOf, n
    <2>3. CutOf(s, K, k) - 1 \in 0 .. N
        BY <1>1, <1>6, <2>1, <2>2
    <2> QED
        BY <1>2, <1>6, <1>7, <2>1, <2>3
<1>9. PiecesOf(w, ends)[n + 1] = Append(PiecesOf(s, ends)[n + 1], x)
    <2>1. n + 1 \in 1 .. n + 1 /\ (n + 1) - 1 = n /\ n \in 0 .. n
        BY <1>5
    <2>2. (N + 2) - 1 = N + 1 /\ (N + 1) - 1 = N
        BY <1>1
    <2>3. /\ PiecesOf(s, ends)[n + 1] = SubSeq(s, CutOf(s, K, n) + 1, N)
          /\ PiecesOf(w, ends)[n + 1] = SubSeq(w, CutOf(s, K, n) + 1, N + 1)
        BY <1>6, <1>7, <2>1, <2>2
    <2> QED
        BY <1>2, <1>6, <2>1, <2>3
<1>10. Lines(s, ends) = n /\ Lines(w, ends) = n
    BY <1>3 DEF Lines, n, K
<1> QED
    BY <1>5, <1>8, <1>9, <1>10 DEF w

\* The end of a line closes the last piece and begins an empty one.
LEMMA PieceClosed ==
  ASSUME NEW S, NEW s \in Seq(S), NEW x \in S, NEW ends, x \in ends
  PROVE  /\ Lines(s, ends) \in Nat /\ Lines(Append(s, x), ends) = Lines(s, ends) + 1
         /\ \A k \in 1 .. Lines(s, ends) + 1 :
              PiecesOf(Append(s, x), ends)[k] = PiecesOf(s, ends)[k]
         /\ PiecesOf(Append(s, x), ends)[Lines(s, ends) + 2] = <<>>
<1> DEFINE w == Append(s, x)
           N == Len(s)
           K == Marks(s, ends)
           J == K \cup {N + 1}
           n == Cardinality(K)
<1>1. /\ w \in Seq(S) /\ Len(w) = N + 1 /\ w[N + 1] = x /\ N \in Nat
      /\ DOMAIN w = 1 .. N + 1 /\ DOMAIN s = 1 .. N
      /\ \A i \in 1 .. N : w[i] = s[i]
    OBVIOUS
<1>2. /\ \A c \in 0 .. N, a \in 0 .. N : SubSeq(w, a + 1, c) = SubSeq(s, a + 1, c)
      /\ SubSeq(w, N + 2, N + 1) = <<>>
    <2>1. 0 \in 0 .. N
        BY <1>1
    <2> QED
        BY <2>1, PartsGrow
<1> HIDE DEF w
<1>3. Marks(w, ends) = J
    BY <1>1 DEF Marks
<1>4. K \in SUBSET (1 .. N)
    BY <1>1 DEF Marks
<1> HIDE DEF K, N
<1>5. /\ n \in Nat /\ Cardinality(J) = n + 1
      /\ \A k \in 1 .. n : PositionOf(K, k) \in 1 .. N /\ PositionOf(J, k) = PositionOf(K, k)
      /\ PositionOf(J, n + 1) = N + 1
    BY <1>1, <1>4, PositionsGrow
<1> HIDE DEF n, J
<1>6. /\ \A k \in 0 .. n + 1 : CutOf(s, K, k) \in 0 .. N + 1 /\ CutOf(w, J, k) = CutOf(s, K, k)
      /\ \A k \in 0 .. n : CutOf(s, K, k) \in 0 .. N
      /\ \A k \in 1 .. n + 1 : CutOf(s, K, k) - 1 \in 0 .. N
      /\ CutOf(s, K, n + 1) = N + 1 /\ CutOf(w, J, n + 2) = N + 2
    <2>1. ASSUME NEW k \in 1 .. n
          PROVE  CutOf(s, K, k) = PositionOf(K, k) /\ CutOf(w, J, k) = PositionOf(K, k)
        BY <1>5 DEF CutOf, n
    <2>2. CutOf(s, K, 0) = 0 /\ CutOf(w, J, 0) = 0
        BY DEF CutOf
    <2>3. CutOf(s, K, n + 1) = N + 1 /\ CutOf(w, J, n + 1) = N + 1 /\ CutOf(w, J, n + 2) = N + 2
        BY <1>1, <1>5 DEF CutOf, n, N
    <2>4. \A k \in 0 .. n + 1 : k = 0 \/ k = n + 1 \/ k \in 1 .. n
        BY <1>5
    <2>5. (\A k \in 0 .. n : k # n + 1) /\ \A k \in 0 .. n : k \in 0 .. n + 1
        BY <1>5
    <2>6. \A k \in 1 .. n + 1 : k \in 0 .. n + 1 /\ k # 0
        BY <1>5
    <2>7. 0 \in 0 .. N /\ \A i \in 1 .. N : i \in 0 .. N /\ i \in 0 .. N + 1 /\ i - 1 \in 0 .. N
        BY <1>1
    <2>8. N + 1 \in 0 .. N + 1 /\ 0 \in 0 .. N + 1 /\ (N + 1) - 1 \in 0 .. N
        BY <1>1
    <2> QED
        BY <1>5, <2>1, <2>2, <2>3, <2>4, <2>5, <2>6, <2>7, <2>8
<1>7. /\ DOMAIN PiecesOf(s, ends) = 1 .. n + 1 /\ DOMAIN PiecesOf(w, ends) = 1 .. n + 2
      /\ \A k \in 1 .. n + 1 :
           PiecesOf(s, ends)[k] = SubSeq(s, CutOf(s, K, k - 1) + 1, CutOf(s, K, k) - 1)
      /\ \A k \in 1 .. n + 2 :
           PiecesOf(w, ends)[k] = SubSeq(w, CutOf(w, J, k - 1) + 1, CutOf(w, J, k) - 1)
    <2>1. (n + 1) + 1 = n + 2
        BY <1>5
    <2> QED
        BY <1>3, <1>5, <2>1 DEF PiecesOf, Lines, K, n
<1>8. ASSUME NEW k \in 1 .. n + 1 PROVE PiecesOf(w, ends)[k] = PiecesOf(s, ends)[k]
    <2>1. k \in 1 .. n + 2 /\ k - 1 \in 0 .. n /\ k \in 0 .. n + 1 /\ k - 1 \in 0 .. n + 1
        BY <1>5
    <2> QED
        BY <1>2, <1>6, <1>7, <2>1
<1>9. PiecesOf(w, ends)[n + 2] = <<>>
    <2>1. n + 2 \in 1 .. n + 2 /\ (n + 2) - 1 = n + 1 /\ n + 1 \in 0 .. n + 1
        BY <1>5
    <2>2. (N + 2) - 1 = N + 1 /\ (N + 1) + 1 = N + 2
        BY <1>1
    <2> QED
        BY <1>2, <1>6, <1>7, <2>1, <2>2
<1>10. Lines(s, ends) = n /\ Lines(w, ends) = n + 1
    BY <1>3, <1>5 DEF Lines, n, K
<1> QED
    BY <1>5, <1>8, <1>9, <1>10 DEF w

Reasons == {"none", "non-ascii", "overlong", "control-character"}

\* What the Dummy decoder holds of a piece: all of it, or what came before its
\* first fault (and the byte at the fault, if that is the length).
DummyHolds(piece, d) ==
  /\ DOMAIN d = {"buffer", "reason"} /\ d.buffer \in Seq(Bytes) /\ piece \in Seq(Bytes)
  /\ d.reason \in Reasons \ {"control-character"}
  /\ d.reason = "none" =>
       /\ piece = d.buffer /\ Len(piece) <= MAX_LINE
       /\ \A i \in 1 .. Len(piece) : piece[i] # "high"
  /\ d.reason = "non-ascii" =>
       \E p \in 1 .. Len(piece) :
         /\ p <= MAX_LINE + 1 /\ piece[p] = "high" /\ d.buffer = SubSeq(piece, 1, p - 1)
         /\ \A i \in 1 .. p - 1 : piece[i] # "high"
  /\ d.reason = "overlong" =>
       /\ MAX_LINE + 1 <= Len(piece) /\ d.buffer = SubSeq(piece, 1, MAX_LINE + 1)
       /\ \A i \in 1 .. MAX_LINE + 1 : piece[i] # "high"

\* The piece is the n bytes of text kept of it, and perhaps a CR.
ArmKept(piece, n, cr) ==
  IF cr THEN Len(piece) = n + 1 /\ piece[n + 1] = "cr" ELSE Len(piece) = n

\* The first fault of the piece follows its n bytes of text.
ArmFault(piece, n, reason) ==
  /\ n + 1 <= Len(piece)
  /\ reason = "non-ascii" => piece[n + 1] = "high"
  /\ reason = "overlong" => piece[n + 1] = "text" /\ n = MAX_LINE
  /\ reason = "control-character" =>
       piece[n + 1] = "control" \/ (piece[n + 1] = "cr" /\ n + 1 < Len(piece))

\* What the arm's decoder holds: the text before the first fault.
ArmHolds(piece, a) ==
  /\ DOMAIN a = {"buffer", "pendingCr", "reason"} /\ a.buffer \in Seq(Bytes)
  /\ piece \in Seq(Bytes) /\ a.pendingCr \in BOOLEAN /\ a.reason \in Reasons
  /\ Len(a.buffer) <= MAX_LINE /\ Len(a.buffer) <= Len(piece)
  /\ \A i \in 1 .. Len(a.buffer) : a.buffer[i] = "text" /\ piece[i] = "text"
  /\ a.reason = "none" => ArmKept(piece, Len(a.buffer), a.pendingCr)
  /\ a.reason # "none" => ArmFault(piece, Len(a.buffer), a.reason)

\* The whole piece is judged as the decoder, fed byte by byte, has it.
LEMMA DummyJudgedIs ==
  ASSUME NEW piece, NEW d, DummyHolds(piece, d)
  PROVE  DummyJudged(piece) = Record(d.buffer, d.reason)
<1> DEFINE bad == {i \in DOMAIN piece : piece[i] = "high" \/ i > MAX_LINE}
           first == IF bad = {} THEN 0 ELSE CHOOSE i \in bad : \A j \in bad : i <= j
<1>1. DummyJudged(piece) =
        IF first = 0 THEN Record(piece, "none")
        ELSE IF piece[first] = "high" THEN Record(SubSeq(piece, 1, first - 1), "non-ascii")
        ELSE Record(SubSeq(piece, 1, first), "overlong")
    BY DEF DummyJudged, FirstBad
<1>2. /\ piece \in Seq(Bytes) /\ DOMAIN piece = 1 .. Len(piece) /\ Len(piece) \in Nat
      /\ MAX_LINE \in Nat \ {0} /\ bad \in SUBSET Nat
    BY DecoderAssumption DEF DummyHolds
<1>3. \A p \in bad : (\A i \in bad : p <= i) => first = p
    <2> SUFFICES ASSUME NEW p \in bad, \A i \in bad : p <= i PROVE first = p
        OBVIOUS
    <2> HIDE DEF bad
    <2>1. (CHOOSE i \in bad : \A j \in bad : i <= j) = p
        BY <1>2, LeastIs
    <2> QED
        BY <2>1
<1>4. CASE d.reason = "none"
    <2>1. bad = {}
        BY <1>2, <1>4 DEF DummyHolds
    <2> QED
        BY <1>1, <1>4, <2>1 DEF DummyHolds
<1>5. CASE d.reason = "non-ascii"
    <2>1. PICK p \in 1 .. Len(piece) :
            /\ p <= MAX_LINE + 1 /\ piece[p] = "high" /\ d.buffer = SubSeq(piece, 1, p - 1)
            /\ \A i \in 1 .. p - 1 : piece[i] # "high"
        BY <1>5 DEF DummyHolds
    <2>2. p \in bad /\ p # 0
        BY <1>2, <2>1
    <2>3. ASSUME NEW i \in bad PROVE p <= i
        BY <1>2, <2>1
    <2>4. first = p
        BY <1>3, <2>2, <2>3
    <2> QED
        BY <1>1, <1>5, <2>1, <2>2, <2>4
<1>6. CASE d.reason = "overlong"
    <2> DEFINE p == MAX_LINE + 1
    <2>1. /\ p \in 1 .. Len(piece) /\ d.buffer = SubSeq(piece, 1, p)
          /\ \A i \in 1 .. p : piece[i] # "high"
        BY <1>2, <1>6 DEF DummyHolds
    <2>2. p \in bad /\ p # 0 /\ piece[p] # "high"
        BY <1>2, <2>1
    <2>3. ASSUME NEW i \in bad PROVE p <= i
        BY <1>2, <2>1
    <2>4. first = p
        BY <1>3, <2>2, <2>3
    <2> HIDE DEF first, p
    <2> QED
        BY <1>1, <1>6, <2>1, <2>2, <2>4
<1> QED
    BY <1>4, <1>5, <1>6 DEF DummyHolds, Reasons

LEMMA DummyByteHolds ==
  ASSUME NEW piece, DummyHolds(piece, dummy), NEW b \in Bytes \ {"cr", "lf"}
  PROVE  DummyHolds(Append(piece, b), decodeDummyAsciiChunk(b).state)
<1> DEFINE w == Append(piece, b)
           longer == Append(dummy.buffer, b)
           d == decodeDummyAsciiChunk(b).state
<1> SUFFICES DummyHolds(w, d)
    OBVIOUS
<1>1. /\ piece \in Seq(Bytes) /\ dummy.buffer \in Seq(Bytes) /\ MAX_LINE \in Nat \ {0}
      /\ DOMAIN dummy = {"buffer", "reason"} /\ Len(piece) \in Nat
    BY DecoderAssumption DEF DummyHolds
<1>2. /\ w \in Seq(Bytes) /\ Len(w) = Len(piece) + 1 /\ w[Len(piece) + 1] = b
      /\ \A i \in 1 .. Len(piece) : w[i] = piece[i]
    BY <1>1
<1>3. \A p \in 0 .. Len(piece) : SubSeq(w, 1, p) = SubSeq(piece, 1, p)
    <2>1. 0 \in 0 .. Len(piece) /\ 0 + 1 = 1
        BY <1>1
    <2> QED
        BY <1>1, <2>1, PartsGrow
<1>4. SubSeq(w, 1, Len(w)) = w
    BY <1>2
<1>5. d = IF dummy.reason # "none" THEN dummy
          ELSE IF b = "high" THEN [dummy EXCEPT !.reason = "non-ascii"]
          ELSE [buffer |-> longer, reason |-> IF DummyOverlong(longer) THEN "overlong" ELSE "none"]
    BY DEF decodeDummyAsciiChunk
<1> HIDE DEF d
<1>6. CASE dummy.reason = "non-ascii"
    <2>1. PICK p \in 1 .. Len(piece) :
            /\ p <= MAX_LINE + 1 /\ piece[p] = "high" /\ dummy.buffer = SubSeq(piece, 1, p - 1)
            /\ \A i \in 1 .. p - 1 : piece[i] # "high"
        BY <1>6 DEF DummyHolds
    <2>2. /\ p \in 1 .. Len(w) /\ w[p] = "high" /\ dummy.buffer = SubSeq(w, 1, p - 1)
          /\ \A i \in 1 .. p - 1 : w[i] # "high"
        <3>1. p - 1 \in 0 .. Len(piece) /\ p \in 1 .. Len(w)
            BY <1>1, <1>2
        <3>2. \A i \in 1 .. p - 1 : i \in 1 .. Len(piece)
            BY <1>1
        <3> QED
            BY <1>2, <1>3, <2>1, <3>1, <3>2
    <2>3. d = dummy /\ d.reason = "non-ascii"
        BY <1>5, <1>6
    <2> HIDE DEF w, longer
    <2> QED
        BY <1>1, <1>2, <2>1, <2>2, <2>3 DEF DummyHolds, Reasons
<1>7. CASE dummy.reason = "overlong"
    <2>1. /\ MAX_LINE + 1 \in 0 .. Len(piece) /\ dummy.buffer = SubSeq(piece, 1, MAX_LINE + 1)
          /\ \A i \in 1 .. MAX_LINE + 1 : piece[i] # "high"
        BY <1>1, <1>7 DEF DummyHolds
    <2>2. /\ MAX_LINE + 1 <= Len(w) /\ dummy.buffer = SubSeq(w, 1, MAX_LINE + 1)
          /\ \A i \in 1 .. MAX_LINE + 1 : w[i] # "high"
        BY <1>1, <1>2, <1>3, <2>1
    <2>3. d = dummy /\ d.reason = "overlong"
        BY <1>5, <1>7
    <2> HIDE DEF w, longer
    <2> QED
        BY <1>1, <1>2, <2>2, <2>3 DEF DummyHolds, Reasons
<1>8. CASE dummy.reason = "none"
    <2>1. /\ piece = dummy.buffer /\ Len(piece) <= MAX_LINE /\ longer = w
          /\ \A i \in 1 .. Len(piece) : piece[i] # "high"
        BY <1>8 DEF DummyHolds
    <2>2. CASE b = "high"
        <3> DEFINE p == Len(piece) + 1
        <3>1. d.buffer = dummy.buffer /\ d.reason = "non-ascii" /\ DOMAIN d = {"buffer", "reason"}
            BY <1>1, <1>5, <1>8, <2>2
        <3>2. /\ p \in 1 .. Len(w) /\ p <= MAX_LINE + 1 /\ w[p] = "high" /\ p - 1 = Len(piece)
              /\ Len(piece) \in 0 .. Len(piece)
            BY <1>1, <1>2, <2>1, <2>2
        <3>3. SubSeq(piece, 1, Len(piece)) = piece
            BY <1>1
        <3>4. d.buffer = SubSeq(w, 1, p - 1) /\ \A i \in 1 .. p - 1 : w[i] # "high"
            BY <1>2, <1>3, <2>1, <3>1, <3>2, <3>3
        <3> HIDE DEF w, longer, p
        <3> QED
            BY <1>1, <1>2, <3>1, <3>2, <3>4 DEF DummyHolds, Reasons
    <2>3. CASE b # "high"
        <3>1. \A i \in 1 .. Len(w) : w[i] # "high"
            BY <1>1, <1>2, <2>1, <2>3
        <3>2. d = [buffer |-> w, reason |-> IF DummyOverlong(w) THEN "overlong" ELSE "none"]
            BY <1>5, <1>8, <2>1, <2>3
        <3> HIDE DEF w, longer
        <3>3. CASE Len(w) >= MAX_LINE + 1
            <4>1. d.buffer = w /\ d.reason = "overlong" /\ Len(w) = MAX_LINE + 1
                BY <1>1, <1>2, <2>1, <3>2, <3>3 DEF DummyOverlong
            <4> QED
                BY <1>1, <1>2, <1>4, <3>1, <3>2, <4>1 DEF DummyHolds, Reasons
        <3>4. CASE ~(Len(w) >= MAX_LINE + 1)
            <4>1. d.buffer = w /\ d.reason = "none" /\ Len(w) <= MAX_LINE
                BY <1>1, <1>2, <2>1, <3>2, <3>4 DEF DummyOverlong
            <4> QED
                BY <1>2, <3>1, <3>2, <4>1 DEF DummyHolds, Reasons
        <3> QED
            BY <3>3, <3>4
    <2> QED
        BY <2>2, <2>3
<1> QED
    BY <1>6, <1>7, <1>8 DEF DummyHolds, Reasons

LEMMA ArmJudgedIs ==
  ASSUME NEW piece, NEW a, ArmHolds(piece, a)
  PROVE  ArmJudged(piece) = Record(a.buffer, a.reason)
<1> DEFINE bare == IF piece # <<>> /\ piece[Len(piece)] = "cr" THEN Front(piece) ELSE piece
           bad == {i \in DOMAIN bare : bare[i] \in {"cr", "control", "high"} \/ i > MAX_LINE}
           first == IF bad = {} THEN 0 ELSE CHOOSE i \in bad : \A j \in bad : i <= j
           n == Len(a.buffer)
<1>1. ArmJudged(piece) =
        IF first = 0 THEN Record(bare, "none")
        ELSE IF bare[first] = "high" THEN Record(SubSeq(bare, 1, first - 1), "non-ascii")
        ELSE IF bare[first] = "text" THEN Record(SubSeq(bare, 1, first - 1), "overlong")
        ELSE Record(SubSeq(bare, 1, first - 1), "control-character")
    BY DEF ArmJudged, FirstBad
<1>2. /\ piece \in Seq(Bytes) /\ a.buffer \in Seq(Bytes) /\ MAX_LINE \in Nat \ {0}
      /\ n \in Nat /\ n <= MAX_LINE /\ n <= Len(piece) /\ Len(piece) \in Nat
      /\ \A i \in 1 .. n : a.buffer[i] = "text" /\ piece[i] = "text"
    BY DecoderAssumption DEF ArmHolds
<1>3. /\ bare \in Seq(Bytes) /\ Len(bare) <= Len(piece) /\ Len(piece) - 1 <= Len(bare)
      /\ \A i \in 1 .. Len(bare) : bare[i] = piece[i]
      /\ Len(piece) > 0 /\ piece[Len(piece)] = "cr" => Len(bare) = Len(piece) - 1
      /\ Len(piece) = 0 \/ piece[Len(piece)] # "cr" => Len(bare) = Len(piece)
    <2>1. CASE Len(piece) > 0 /\ piece[Len(piece)] = "cr"
        <3>1. bare = SubSeq(piece, 1, Len(piece) - 1)
            BY <1>2, <2>1 DEF Front
        <3> HIDE DEF bare
        <3>2. bare \in Seq(Bytes) /\ Len(bare) = Len(piece) - 1
              /\ \A i \in 1 .. Len(bare) : bare[i] = piece[i]
            <4>1. Len(piece) - 1 \in 0 .. Len(piece)
                BY <1>2, <2>1
            <4> QED
                BY <1>2, <3>1, <4>1, PrefixType
        <3>3. Len(bare) <= Len(piece) /\ Len(piece) - 1 <= Len(bare)
            BY <1>2, <3>2
        <3>4. Len(piece) # 0
            BY <1>2, <2>1
        <3> QED
            BY Zenon, <2>1, <3>2, <3>3, <3>4
    <2>2. CASE ~(Len(piece) > 0 /\ piece[Len(piece)] = "cr")
        <3>1. bare = piece
            BY <1>2, <2>2
        <3> HIDE DEF bare
        <3> QED
            BY <1>2, <2>2, <3>1
    <2> QED
        BY <2>1, <2>2
<1> HIDE DEF bare
<1>4. DOMAIN bare = 1 .. Len(bare) /\ bad \in SUBSET Nat /\ Len(bare) \in Nat
    BY <1>3
<1>5. \A p \in bad : (\A i \in bad : p <= i) => first = p
    <2> SUFFICES ASSUME NEW p \in bad, \A i \in bad : p <= i PROVE first = p
        OBVIOUS
    <2> HIDE DEF bad
    <2>1. (CHOOSE i \in bad : \A j \in bad : i <= j) = p
        BY <1>4, LeastIs
    <2> QED
        BY <2>1
<1>6. n <= Len(bare)
    BY <1>2, <1>3
<1>7. \A i \in 1 .. n : i \notin bad
    BY <1>2, <1>3, <1>4
<1>8. CASE a.reason = "none"
    <2>1. Len(bare) = n
        <3>1. CASE a.pendingCr
            <4>1. Len(piece) = n + 1 /\ piece[n + 1] = "cr"
                BY <1>8, <3>1 DEF ArmHolds, ArmKept
            <4> QED
                BY <1>2, <1>3, <4>1
        <3>2. CASE ~a.pendingCr
            <4>1. Len(piece) = n
                BY <1>8, <3>2 DEF ArmHolds, ArmKept
            <4>2. Len(piece) = 0 \/ piece[Len(piece)] # "cr"
                BY <1>2, <4>1
            <4> QED
                BY <1>3, <4>1, <4>2
        <3> QED
            BY <3>1, <3>2
    <2>2. bad = {}
        BY <1>4, <1>7, <2>1
    <2>3. \A i \in 1 .. n : bare[i] = a.buffer[i]
        BY <1>2, <1>3, <1>6, <2>1
    <2>4. bare = a.buffer
        BY <1>2, <1>3, <2>1, <2>3, SameElements
    <2> QED
        BY <1>1, <1>8, <2>2, <2>4
<1>9. CASE a.reason # "none"
    <2> DEFINE p == n + 1
    <2>1. ArmFault(piece, n, a.reason) /\ a.reason \in {"non-ascii", "overlong", "control-character"}
        BY <1>9 DEF ArmHolds, Reasons
    <2>10. /\ p \in 1 .. Len(piece)
           /\ piece[p] \in {"high", "text", "control", "cr"}
           /\ piece[p] = "text" => n = MAX_LINE
           /\ piece[p] = "cr" => p < Len(piece)
           /\ a.reason = (IF piece[p] = "high" THEN "non-ascii"
                          ELSE IF piece[p] = "text" THEN "overlong" ELSE "control-character")
        BY <1>2, <2>1 DEF ArmFault
    <2>2. p \in 1 .. Len(bare)
        BY <1>2, <1>3, <2>10
    <2>3. bare[p] = piece[p]
        BY <1>3, <2>2
    <2>4. p \in bad
        BY <1>2, <1>4, <2>10, <2>2, <2>3
    <2>5. ASSUME NEW i \in bad PROVE p <= i
        BY <1>2, <1>4, <1>7
    <2>6. first = p
        BY <1>5, <2>4, <2>5
    <2>7. SubSeq(bare, 1, p - 1) = a.buffer
        <3>1. p - 1 = n /\ n <= Len(bare)
            BY <1>2, <1>6
        <3>2. /\ SubSeq(bare, 1, n) \in Seq(Bytes) /\ Len(SubSeq(bare, 1, n)) = n
              /\ \A i \in 1 .. n : SubSeq(bare, 1, n)[i] = bare[i]
            BY <1>2, <1>3, <1>6
        <3>3. \A i \in 1 .. n : bare[i] = a.buffer[i]
            BY <1>2, <1>3, <1>6
        <3>4. SubSeq(bare, 1, n) = a.buffer
            <4> HIDE DEF bad
            <4> QED
                BY <1>2, <3>2, <3>3, SameElements
        <3> QED
            BY <3>1, <3>4
    <2>8. first # 0
        <3> HIDE DEF first
        <3> QED
            BY <1>2, <2>6
    <2> HIDE DEF first
    <2>9. ArmJudged(piece) =
            IF piece[p] = "high" THEN Record(a.buffer, "non-ascii")
            ELSE IF piece[p] = "text" THEN Record(a.buffer, "overlong")
            ELSE Record(a.buffer, "control-character")
        BY <1>1, <2>3, <2>6, <2>7, <2>8
    <2> QED
        BY <2>10, <2>9
<1> QED
    BY <1>8, <1>9

LEMMA ArmByteHolds ==
  ASSUME NEW piece, ArmHolds(piece, arm), NEW b \in Bytes \ {"lf"}
  PROVE  ArmHolds(Append(piece, b), decodeAethorArmAsciiChunk(b).state)
<1> DEFINE w == Append(piece, b)
           longer == Append(arm.buffer, b)
           a == decodeAethorArmAsciiChunk(b).state
           n == Len(arm.buffer)
<1> SUFFICES ArmHolds(w, a)
    OBVIOUS
<1>1. /\ piece \in Seq(Bytes) /\ arm.buffer \in Seq(Bytes) /\ MAX_LINE \in Nat \ {0}
      /\ DOMAIN arm = {"buffer", "pendingCr", "reason"} /\ Len(piece) \in Nat
      /\ n \in Nat /\ n <= MAX_LINE /\ n <= Len(piece) /\ arm.pendingCr \in BOOLEAN
      /\ \A i \in 1 .. n : arm.buffer[i] = "text" /\ piece[i] = "text"
    BY DecoderAssumption DEF ArmHolds
<1>2. /\ w \in Seq(Bytes) /\ Len(w) = Len(piece) + 1 /\ w[Len(piece) + 1] = b
      /\ \A i \in 1 .. Len(piece) : w[i] = piece[i]
    BY <1>1
<1>3. \A i \in 1 .. n : w[i] = "text"
    BY <1>1, <1>2
<1>4. a = IF arm.reason # "none" THEN arm
          ELSE IF arm.pendingCr \/ b = "control" THEN [arm EXCEPT !.reason = "control-character"]
          ELSE IF b = "cr" THEN [arm EXCEPT !.pendingCr = TRUE]
          ELSE IF b = "high" THEN [arm EXCEPT !.reason = "non-ascii"]
          ELSE IF Len(longer) > MAX_LINE THEN [arm EXCEPT !.reason = "overlong"]
          ELSE [arm EXCEPT !.buffer = longer]
    BY DEF decodeAethorArmAsciiChunk
<1>5. /\ longer \in Seq(Bytes) /\ Len(longer) = n + 1 /\ longer[n + 1] = b
      /\ \A i \in 1 .. n : longer[i] = arm.buffer[i]
    BY <1>1
<1> HIDE DEF a, w, longer
\* A fault holds the text before it.
<1>6. ASSUME DOMAIN a = {"buffer", "pendingCr", "reason"}, a.buffer = arm.buffer,
             a.pendingCr \in BOOLEAN, a.reason \in Reasons \ {"none"},
             ArmFault(w, n, a.reason)
      PROVE  ArmHolds(w, a)
    <2>1. n <= Len(w)
        BY <1>1, <1>2
    <2> QED
        BY <1>1, <1>2, <1>3, <1>6, <2>1 DEF ArmHolds
<1>7. CASE arm.reason # "none"
    <2>1. ArmFault(piece, n, arm.reason) /\ arm.reason \in Reasons
        BY <1>7 DEF ArmHolds
    <2>2. a = arm
        BY <1>4, <1>7
    <2>3. ArmFault(w, n, arm.reason)
        BY <1>1, <1>2, <2>1 DEF ArmFault
    <2> QED
        BY <1>1, <1>6, <1>7, <2>1, <2>2, <2>3
<1>8. CASE arm.reason = "none" /\ arm.pendingCr
    <2>1. Len(piece) = n + 1 /\ piece[n + 1] = "cr"
        BY <1>8 DEF ArmHolds, ArmKept
    <2>2. /\ DOMAIN a = {"buffer", "pendingCr", "reason"} /\ a.buffer = arm.buffer
          /\ a.pendingCr = arm.pendingCr /\ a.reason = "control-character"
        BY <1>1, <1>4, <1>8
    <2>3. w[n + 1] = "cr" /\ n + 1 < Len(w) /\ n + 1 <= Len(w)
        BY <1>1, <1>2, <2>1
    <2> QED
        BY <1>1, <1>6, <2>2, <2>3 DEF Reasons, ArmFault
<1>9. CASE arm.reason = "none" /\ ~arm.pendingCr
    <2>1. Len(piece) = n
        BY <1>9 DEF ArmHolds, ArmKept
    <2>2. Len(w) = n + 1 /\ w[n + 1] = b /\ n + 1 <= Len(w)
        BY <1>1, <1>2, <2>1
    <2>3. CASE b = "control"
        <3>1. /\ DOMAIN a = {"buffer", "pendingCr", "reason"} /\ a.buffer = arm.buffer
              /\ a.pendingCr = arm.pendingCr /\ a.reason = "control-character"
            BY <1>1, <1>4, <1>9, <2>3
        <3> QED
            BY <1>1, <1>6, <2>2, <2>3, <3>1 DEF Reasons, ArmFault
    <2>4. CASE b = "cr"
        <3>1. /\ DOMAIN a = {"buffer", "pendingCr", "reason"} /\ a.buffer = arm.buffer
              /\ a.pendingCr = TRUE /\ a.reason = "none"
            BY <1>1, <1>4, <1>9, <2>4
        <3>2. n <= Len(w)
            BY <1>1, <2>2
        <3>3. ArmKept(w, n, a.pendingCr)
            BY <2>2, <2>4, <3>1 DEF ArmKept
        <3>4. a.buffer \in Seq(Bytes) /\ Len(a.buffer) = n /\ a.pendingCr \in BOOLEAN
              /\ a.reason \in Reasons /\ \A i \in 1 .. n : a.buffer[i] = "text"
            BY <1>1, <3>1 DEF Reasons
        <3> QED
            BY SMTT(30), <1>1, <1>2, <1>3, <3>1, <3>2, <3>3, <3>4 DEF ArmHolds
    <2>5. CASE b = "high"
        <3>1. /\ DOMAIN a = {"buffer", "pendingCr", "reason"} /\ a.buffer = arm.buffer
              /\ a.pendingCr = arm.pendingCr /\ a.reason = "non-ascii"
            BY <1>1, <1>4, <1>9, <2>5
        <3> QED
            BY <1>1, <1>6, <2>2, <2>5, <3>1 DEF Reasons, ArmFault
    <2>6. CASE b = "text" /\ Len(longer) > MAX_LINE
        <3>1. /\ DOMAIN a = {"buffer", "pendingCr", "reason"} /\ a.buffer = arm.buffer
              /\ a.pendingCr = arm.pendingCr /\ a.reason = "overlong"
            BY <1>1, <1>4, <1>9, <2>6
        <3>2. n = MAX_LINE
            BY <1>1, <1>5, <2>6
        <3> QED
            BY <1>1, <1>6, <2>2, <2>6, <3>1, <3>2 DEF Reasons, ArmFault
    <2>7. CASE b = "text" /\ ~(Len(longer) > MAX_LINE)
        <3>1. /\ DOMAIN a = {"buffer", "pendingCr", "reason"} /\ a.buffer = longer
              /\ a.pendingCr = FALSE /\ a.reason = "none"
            BY <1>1, <1>4, <1>9, <2>7
        <3>2. Len(longer) <= MAX_LINE /\ Len(longer) <= Len(w) /\ Len(w) = Len(longer)
            BY <1>1, <1>5, <2>2, <2>7
        <3>3. \A i \in 1 .. Len(longer) : longer[i] = "text" /\ w[i] = "text"
            BY <1>1, <1>3, <1>5, <2>2, <2>7
        <3> QED
            BY <1>2, <1>5, <3>1, <3>2, <3>3 DEF ArmHolds, ArmKept, Reasons
    <2> QED
        BY <2>3, <2>4, <2>5, <2>6, <2>7 DEF Bytes
<1> QED
    BY <1>1, <1>7, <1>8, <1>9

-----------------------------------------------------------------------------
(* Both decoders, told apart by their name in decoded.                     *)

Decoders == {"dummy", "arm"}

Ends(d) == IF d = "arm" THEN {"lf"} ELSE {"cr", "lf"}

Judge(d, piece) == IF d = "arm" THEN ArmJudged(piece) ELSE DummyJudged(piece)

LastPiece(d, s) == PiecesOf(s, Ends(d))[Lines(s, Ends(d)) + 1]

\* The judged lines that have ended, and those of them that are reported.
Ended(d, s) == [k \in 1 .. Lines(s, Ends(d)) |-> Judge(d, PiecesOf(s, Ends(d))[k])]

Closed(r) == Selected(r, {k \in DOMAIN r : r[k] # Record(<<>>, "none")})

OwedBy(d) ==
  IF ~finished \/ LastPiece(d, stream) = <<>> THEN Closed(Ended(d, stream))
  ELSE Append(Closed(Ended(d, stream)),
              Record(Judge(d, LastPiece(d, stream)).line,
                     Unfinished(Judge(d, LastPiece(d, stream)).reason)))

Records == [line : Seq(Bytes), reason : Reasons]

Holds(d, s) == IF d = "arm" THEN ArmHolds(LastPiece(d, s), arm)
               ELSE DummyHolds(LastPiece(d, s), dummy)

\* Until the end each decoder holds its share of the last piece, and it has
\* reported the lines before it.
DecoderIInv ==
  /\ stream \in Seq(Bytes) /\ finished \in BOOLEAN /\ DOMAIN decoded = Decoders
  /\ \A d \in Decoders : Ended(d, stream) \in Seq(Records)
  /\ ~finished => \A d \in Decoders : Holds(d, stream)
                                      /\ decoded[d] = Closed(Ended(d, stream))
  /\ \A d \in Decoders : decoded[d] = OwedBy(d)

LEMMA LinesCounted == \A s \in Seq(Bytes) : \A ends : Lines(s, ends) \in Nat
<1> SUFFICES ASSUME NEW s \in Seq(Bytes), NEW ends PROVE Lines(s, ends) \in Nat
    OBVIOUS
<1>1. Len(s) \in Nat /\ Marks(s, ends) \in SUBSET (1 .. Len(s))
    BY DEF Marks
<1> QED
    BY <1>1, Positions DEF Lines

LEMMA AllButLast ==
  ASSUME NEW n \in Nat, NEW f, f = [k \in 1 .. n + 1 |-> f[k]]
  PROVE  Len(f) = n + 1 /\ Front(f) = [k \in 1 .. n |-> f[k]]
<1> DEFINE S == {f[k] : k \in 1 .. n + 1}
           g == [k \in 1 .. n |-> f[k]]
<1>1. f \in [1 .. n + 1 -> S]
    OBVIOUS
<1>2. n + 1 \in Nat /\ \A k \in 1 .. n : k \in 1 .. n + 1
    OBVIOUS
<1>3. g \in [1 .. n -> S]
    BY <1>2
<1>4. \A k \in 1 .. n : g[k] = f[k]
    OBVIOUS
<1> HIDE DEF S, g
<1>5. f \in Seq(S) /\ Len(f) = n + 1
    BY <1>1, <1>2
<1>6. g \in Seq(S) /\ Len(g) = n
    BY <1>3
<1>7. Front(f) = SubSeq(f, 1, n) /\ n \in 0 .. Len(f)
    BY <1>2, <1>5 DEF Front
<1>8. /\ SubSeq(f, 1, n) \in Seq(S) /\ Len(SubSeq(f, 1, n)) = n
      /\ \A i \in 1 .. n : SubSeq(f, 1, n)[i] = f[i]
    BY <1>5, <1>7, PrefixType
<1>9. SubSeq(f, 1, n) = g
    BY <1>4, <1>6, <1>8, SameElements
<1> QED
    BY <1>5, <1>7, <1>9 DEF g

\* What the stream owes, in these terms.
LEMMA OwedIs ==
  stream \in Seq(Bytes) =>
    /\ Owed({"cr", "lf"}, DummyJudged) = OwedBy("dummy")
    /\ Owed({"lf"}, ArmJudged) = OwedBy("arm")
<1> SUFFICES ASSUME stream \in Seq(Bytes)
             PROVE  /\ Owed({"cr", "lf"}, DummyJudged) = OwedBy("dummy")
                    /\ Owed({"lf"}, ArmJudged) = OwedBy("arm")
    OBVIOUS
<1>1. Owed({"cr", "lf"}, DummyJudged) = OwedBy("dummy")
    <2> DEFINE P == Pieces({"cr", "lf"})
               n == Lines(stream, Ends("dummy"))
               J == [k \in DOMAIN P |-> DummyJudged(P[k])]
    <2>1. n \in Nat /\ P = PiecesOf(stream, Ends("dummy"))
        BY LinesCounted, PiecesAre DEF Ends
    <2>2. P = [k \in 1 .. n + 1 |-> P[k]] /\ LastPiece("dummy", stream) = P[n + 1]
          /\ n + 1 \in 1 .. n + 1 /\ \A k \in 1 .. n : k \in 1 .. n + 1
        <3> DEFINE Q == PiecesOf(stream, Ends("dummy"))
        <3>1. Q = [k \in 1 .. n + 1 |-> Q[k]]
            BY DEF PiecesOf
        <3>2. P = Q /\ LastPiece("dummy", stream) = Q[n + 1]
            BY <2>1 DEF LastPiece
        <3> HIDE DEF P, Q, n
        <3> QED
            BY <2>1, <3>1, <3>2
    <2>3. Owed({"cr", "lf"}, DummyJudged) =
            IF ~finished \/ P[Len(P)] = <<>> THEN Closed(Front(J))
            ELSE Append(Closed(Front(J)), Record(J[Len(J)].line, Unfinished(J[Len(J)].reason)))
        BY DEF Owed, Closed
    <2>4. DOMAIN P = 1 .. n + 1
        BY <2>2
    <2> HIDE DEF P, n
    <2>5. Len(P) = n + 1
        BY <2>1, <2>2, AllButLast
    <2>6. J = [k \in 1 .. n + 1 |-> J[k]] /\ \A k \in 1 .. n + 1 : J[k] = DummyJudged(P[k])
        BY <2>4
    <2> HIDE DEF J
    <2>7. Len(J) = n + 1 /\ Front(J) = [k \in 1 .. n |-> J[k]]
        BY <2>1, <2>6, AllButLast
    <2>8. Ended("dummy", stream) = [k \in 1 .. n |-> DummyJudged(P[k])]
        BY <2>1 DEF Ended, Judge, n
    <2>9. Front(J) = Ended("dummy", stream)
        BY <2>2, <2>6, <2>7, <2>8
    <2>10. J[n + 1] = Judge("dummy", LastPiece("dummy", stream))
        BY <2>2, <2>6 DEF Judge
    <2> QED
        BY <2>2, <2>3, <2>5, <2>7, <2>9, <2>10 DEF OwedBy
<1>2. Owed({"lf"}, ArmJudged) = OwedBy("arm")
    <2> DEFINE P == Pieces({"lf"})
               n == Lines(stream, Ends("arm"))
               J == [k \in DOMAIN P |-> ArmJudged(P[k])]
    <2>1. n \in Nat /\ P = PiecesOf(stream, Ends("arm"))
        BY LinesCounted, PiecesAre DEF Ends
    <2>2. P = [k \in 1 .. n + 1 |-> P[k]] /\ LastPiece("arm", stream) = P[n + 1]
          /\ n + 1 \in 1 .. n + 1 /\ \A k \in 1 .. n : k \in 1 .. n + 1
        <3> DEFINE Q == PiecesOf(stream, Ends("arm"))
        <3>1. Q = [k \in 1 .. n + 1 |-> Q[k]]
            BY DEF PiecesOf
        <3>2. P = Q /\ LastPiece("arm", stream) = Q[n + 1]
            BY <2>1 DEF LastPiece
        <3> HIDE DEF P, Q, n
        <3> QED
            BY <2>1, <3>1, <3>2
    <2>3. Owed({"lf"}, ArmJudged) =
            IF ~finished \/ P[Len(P)] = <<>> THEN Closed(Front(J))
            ELSE Append(Closed(Front(J)), Record(J[Len(J)].line, Unfinished(J[Len(J)].reason)))
        BY DEF Owed, Closed
    <2>4. DOMAIN P = 1 .. n + 1
        BY <2>2
    <2> HIDE DEF P, n
    <2>5. Len(P) = n + 1
        BY <2>1, <2>2, AllButLast
    <2>6. J = [k \in 1 .. n + 1 |-> J[k]] /\ \A k \in 1 .. n + 1 : J[k] = ArmJudged(P[k])
        BY <2>4
    <2> HIDE DEF J
    <2>7. Len(J) = n + 1 /\ Front(J) = [k \in 1 .. n |-> J[k]]
        BY <2>1, <2>6, AllButLast
    <2>8. Ended("arm", stream) = [k \in 1 .. n |-> ArmJudged(P[k])]
        BY <2>1 DEF Ended, Judge, n
    <2>9. Front(J) = Ended("arm", stream)
        BY <2>2, <2>6, <2>7, <2>8
    <2>10. J[n + 1] = Judge("arm", LastPiece("arm", stream))
        BY <2>2, <2>6 DEF Judge
    <2> QED
        BY <2>2, <2>3, <2>5, <2>7, <2>9, <2>10 DEF OwedBy
<1> QED
    BY <1>1, <1>2

\* One more judged line is reported unless it is an empty one.
LEMMA ClosedGrows ==
  ASSUME NEW r \in Seq(Records), NEW y \in Records
  PROVE  /\ Closed(r) \in Seq(Records)
         /\ Closed(Append(r, y)) = Closed(r) \o Reported(y.line, y.reason)
<1> DEFINE K == {k \in DOMAIN r : r[k] # Record(<<>>, "none")}
           w == Append(r, y)
           n == Len(r)
<1>1. /\ w \in Seq(Records) /\ Len(w) = n + 1 /\ DOMAIN w = 1 .. n + 1 /\ w[n + 1] = y
      /\ \A i \in 1 .. n : w[i] = r[i]
      /\ n \in Nat /\ DOMAIN r = 1 .. n
    OBVIOUS
<1>2. K \in SUBSET (1 .. Len(r))
    BY <1>1
<1>3. y = Record(y.line, y.reason)
    BY DEF Records, Record
<1>4. {k \in DOMAIN w : w[k] # Record(<<>>, "none")}
        = IF y = Record(<<>>, "none") THEN K ELSE K \cup {n + 1}
    <2> HIDE DEF w, n
    <2> QED
        BY <1>1
<1> HIDE DEF K
<1>5. Selected(w, K) = Selected(r, K) /\ Selected(w, K \cup {n + 1}) = Append(Selected(r, K), y)
    BY <1>2, SelectedAppend
<1>6. Selected(r, K) \in Seq(Records)
    BY <1>2, SelectedType
<1>7. Closed(r) = Selected(r, K)
    BY DEF Closed, K
<1> HIDE DEF w, n
<1>8. CASE y = Record(<<>>, "none")
    <2>1. Closed(w) = Closed(r)
        BY <1>4, <1>5, <1>7, <1>8 DEF Closed
    <2>2. y.line = <<>> /\ y.reason = "none"
        BY <1>8 DEF Record
    <2>3. Reported(y.line, y.reason) = <<>>
        BY <2>2 DEF Reported
    <2> QED
        BY <1>6, <1>7, <2>1, <2>3 DEF w
<1>9. CASE y # Record(<<>>, "none")
    <2>1. Closed(w) = Append(Closed(r), y)
        BY <1>4, <1>5, <1>7, <1>9 DEF Closed
    <2>2. Reported(y.line, y.reason) = <<y>>
        BY <1>3, <1>9 DEF Reported
    <2> QED
        BY <1>6, <1>7, <2>1, <2>2 DEF w
<1> QED
    BY <1>8, <1>9

\* A byte lengthens the last piece, or ends it and has it judged.
LEMMA EndedGrows ==
  ASSUME NEW s \in Seq(Bytes), NEW b \in Bytes, NEW d \in Decoders,
         Ended(d, s) \in Seq(Records), Judge(d, LastPiece(d, s)) \in Records
  PROVE  /\ b \notin Ends(d) => /\ Ended(d, Append(s, b)) = Ended(d, s)
                                /\ LastPiece(d, Append(s, b)) = Append(LastPiece(d, s), b)
         /\ b \in Ends(d) =>
              /\ Ended(d, Append(s, b)) = Append(Ended(d, s), Judge(d, LastPiece(d, s)))
              /\ LastPiece(d, Append(s, b)) = <<>>
<1> DEFINE w == Append(s, b)
           E == Ends(d)
           n == Lines(s, E)
           P == PiecesOf(s, E)
           Q == PiecesOf(w, E)
           y == Judge(d, P[n + 1])
<1>0. n \in Nat /\ n + 1 \in 1 .. n + 1 /\ \A k \in 1 .. n : k \in 1 .. n + 1
    BY LinesCounted
<1>1. LastPiece(d, s) = P[n + 1] /\ LastPiece(d, w) = Q[Lines(w, E) + 1]
    BY DEF LastPiece
<1>2. /\ Ended(d, s) = [k \in 1 .. n |-> Judge(d, P[k])]
      /\ Ended(d, w) = [k \in 1 .. Lines(w, E) |-> Judge(d, Q[k])]
    BY DEF Ended
<1>3. CASE b \notin E
    <2>1. /\ Lines(w, E) = n /\ \A k \in 1 .. n : Q[k] = P[k]
          /\ Q[n + 1] = Append(P[n + 1], b)
        BY <1>3, PieceLonger
    <2> HIDE DEF w, E, n, P, Q
    <2>2. Ended(d, w) = Ended(d, s)
        BY <1>2, <2>1
    <2> QED
        BY <1>1, <1>3, <2>1, <2>2 DEF w, E
<1>4. CASE b \in E
    <2>1. /\ Lines(w, E) = n + 1 /\ \A k \in 1 .. n + 1 : Q[k] = P[k]
          /\ Q[n + 2] = <<>>
        BY <1>4, PieceClosed
    <2>2. (n + 1) + 1 = n + 2
        BY <1>0
    <2> DEFINE r == Ended(d, s)
    <2>3. r \in Seq(Records) /\ y \in Records
        BY <1>1
    <2> HIDE DEF w, E, n, P, Q
    <2>4. Len(r) = n /\ \A k \in 1 .. n : r[k] = Judge(d, P[k])
        BY <1>0, <1>2, <2>3
    <2> HIDE DEF r, y
    <2>5. /\ Append(r, y) \in Seq(Records) /\ Len(Append(r, y)) = n + 1
          /\ Append(r, y)[n + 1] = y /\ \A k \in 1 .. n : Append(r, y)[k] = r[k]
        BY <2>3, <2>4, AppendType
    <2>6. Ended(d, w) = [k \in 1 .. n + 1 |-> Judge(d, Q[k])]
        BY <1>2, <2>1
    <2>7. \A k \in 1 .. n + 1 : Judge(d, Q[k]) = Append(r, y)[k]
        <3>1. \A k \in 1 .. n + 1 : k = n + 1 \/ k \in 1 .. n
            BY <1>0
        <3> QED
            BY <2>1, <2>4, <2>5, <3>1 DEF y
    <2>8. Append(r, y) = [k \in 1 .. n + 1 |-> Append(r, y)[k]]
        <3> DEFINE u == Append(r, y)
        <3>1. u \in Seq(Records) /\ Len(u) = n + 1
            BY <2>5
        <3> HIDE DEF u
        <3>2. u \in [1 .. Len(u) -> Records]
            BY <3>1
        <3>3. u = [k \in 1 .. n + 1 |-> u[k]]
            BY <3>1, <3>2
        <3> QED
            BY <3>3 DEF u
    <2>9. Ended(d, w) = Append(r, y)
        BY <2>6, <2>7, <2>8
    <2> QED
        BY <1>1, <1>4, <2>1, <2>2, <2>9 DEF w, E, r, y
<1> QED
    BY <1>3, <1>4 DEF E

Held(d) == IF d = "arm" THEN arm ELSE dummy

\* What a decoder holds of the last piece is that piece, judged.
LEMMA HeldIsJudged ==
  \A d \in Decoders : \A s : Holds(d, s) =>
     /\ Judge(d, LastPiece(d, s)) = Record(Held(d).buffer, Held(d).reason)
     /\ Judge(d, LastPiece(d, s)) \in Records
     /\ Held(d).buffer \in Seq(Bytes) /\ Held(d).reason \in Reasons
<1> SUFFICES ASSUME NEW d \in Decoders, NEW s, Holds(d, s)
             PROVE  /\ Judge(d, LastPiece(d, s)) = Record(Held(d).buffer, Held(d).reason)
                    /\ Judge(d, LastPiece(d, s)) \in Records
                    /\ Held(d).buffer \in Seq(Bytes) /\ Held(d).reason \in Reasons
    OBVIOUS
<1>1. CASE d = "arm"
    <2>1. ArmHolds(LastPiece(d, s), arm) /\ Held(d) = arm
        BY <1>1 DEF Holds, Held
    <2>2. arm.buffer \in Seq(Bytes) /\ arm.reason \in Reasons
        BY <2>1 DEF ArmHolds
    <2>3. ArmJudged(LastPiece(d, s)) = Record(arm.buffer, arm.reason)
        BY <2>1, ArmJudgedIs
    <2> QED
        BY <1>1, <2>1, <2>2, <2>3 DEF Judge, Record, Records
<1>2. CASE d = "dummy"
    <2>1. DummyHolds(LastPiece(d, s), dummy) /\ Held(d) = dummy
        BY <1>2 DEF Holds, Held
    <2>2. dummy.buffer \in Seq(Bytes) /\ dummy.reason \in Reasons
        BY <2>1 DEF DummyHolds
    <2>3. DummyJudged(LastPiece(d, s)) = Record(dummy.buffer, dummy.reason)
        BY <2>1, DummyJudgedIs
    <2> QED
        BY <1>2, <2>1, <2>2, <2>3 DEF Judge, Record, Records
<1> QED
    BY <1>1, <1>2 DEF Decoders

LEMMA EmptyHeld ==
  DummyHolds(<<>>, createDummyLineDecoder) /\ ArmHolds(<<>>, createAethorArmLineDecoder)
<1>1. <<>> \in Seq(Bytes) /\ Len(<<>>) = 0 /\ MAX_LINE \in Nat
    BY DecoderAssumption
<1>2. DummyHolds(<<>>, createDummyLineDecoder)
    BY <1>1 DEF DummyHolds, createDummyLineDecoder, Reasons
<1>3. ArmHolds(<<>>, createAethorArmLineDecoder)
    BY <1>1 DEF ArmHolds, ArmKept, createAethorArmLineDecoder, Reasons
<1> QED
    BY <1>2, <1>3

\* What one byte makes of a decoder and adds to its records.
Fed(d, b) == IF d = "arm" THEN decodeAethorArmAsciiChunk(b) ELSE decodeDummyAsciiChunk(b)

LEMMA FedRecords ==
  \A d \in Decoders, b \in Bytes :
    Fed(d, b).records = IF b \in Ends(d) THEN Reported(Held(d).buffer, Held(d).reason) ELSE <<>>
<1> SUFFICES ASSUME NEW d \in Decoders, NEW b \in Bytes
             PROVE  Fed(d, b).records
                      = IF b \in Ends(d) THEN Reported(Held(d).buffer, Held(d).reason) ELSE <<>>
    OBVIOUS
<1>1. CASE d = "arm"
    BY <1>1 DEF Fed, Held, Ends, decodeAethorArmAsciiChunk
<1>2. CASE d = "dummy"
    BY <1>2 DEF Fed, Held, Ends, decodeDummyAsciiChunk
<1> QED
    BY <1>1, <1>2 DEF Decoders

LEMMA ByteStep ==
  ASSUME DecoderIInv, NEW b \in Bytes, DecodeByte(b)
  PROVE  DecoderIInv'
<1>1. /\ ~finished /\ ~finished' /\ stream' = Append(stream, b) /\ stream \in Seq(Bytes)
      /\ dummy' = Fed("dummy", b).state /\ arm' = Fed("arm", b).state
      /\ decoded' = [dummy |-> decoded.dummy \o Fed("dummy", b).records,
                     arm |-> decoded.arm \o Fed("arm", b).records]
    BY DEF DecodeByte, DecoderIInv, Fed
<1>2. \A d \in Decoders : decoded'[d] = decoded[d] \o Fed(d, b).records
    <2>1. /\ decoded'["dummy"] = decoded["dummy"] \o Fed("dummy", b).records
          /\ decoded'["arm"] = decoded["arm"] \o Fed("arm", b).records
        BY <1>1
    <2> QED
        BY <2>1 DEF Decoders
<1>3. \A d \in Decoders : /\ Holds(d, stream) /\ Ended(d, stream) \in Seq(Records)
                          /\ decoded[d] = Closed(Ended(d, stream))
    BY <1>1 DEF DecoderIInv
<1>4. ASSUME NEW d \in Decoders, b \notin Ends(d)
      PROVE  /\ Ended(d, stream') = Ended(d, stream) /\ decoded'[d] = Closed(Ended(d, stream))
             /\ LastPiece(d, stream') = Append(LastPiece(d, stream), b)
    <2>1. /\ Ended(d, stream') = Ended(d, stream)
          /\ LastPiece(d, stream') = Append(LastPiece(d, stream), b)
        BY <1>1, <1>3, <1>4, HeldIsJudged, EndedGrows
    <2>2. decoded'[d] = Closed(Ended(d, stream)) \o <<>>
        BY <1>2, <1>3, <1>4, FedRecords
    <2>3. \A y \in Records : Closed(Ended(d, stream)) \in Seq(Records)
        BY <1>3, ClosedGrows
    <2>4. Closed(Ended(d, stream)) \in Seq(Records)
        BY <1>3, <2>3, HeldIsJudged
    <2> QED
        BY <2>1, <2>2, <2>4
<1>5. ASSUME NEW d \in Decoders, b \in Ends(d)
      PROVE  /\ Ended(d, stream') \in Seq(Records)
             /\ decoded'[d] = Closed(Ended(d, stream')) /\ LastPiece(d, stream') = <<>>
    <2> DEFINE y == Judge(d, LastPiece(d, stream))
    <2>1. y \in Records /\ y = Record(Held(d).buffer, Held(d).reason)
        BY <1>3, HeldIsJudged
    <2>2. /\ Ended(d, stream') = Append(Ended(d, stream), y) /\ LastPiece(d, stream') = <<>>
        BY <1>1, <1>3, <1>5, <2>1, EndedGrows
    <2> HIDE DEF y
    <2>3. y.line = Held(d).buffer /\ y.reason = Held(d).reason
        BY <2>1 DEF Record
    <2>4. Fed(d, b).records = Reported(y.line, y.reason)
        BY <1>5, <2>3, FedRecords
    <2>5. Closed(Append(Ended(d, stream), y)) = Closed(Ended(d, stream)) \o Reported(y.line, y.reason)
        BY <1>3, <2>1, ClosedGrows
    <2>6. Append(Ended(d, stream), y) \in Seq(Records)
        BY <1>3, <2>1, AppendType
    <2> QED
        BY <1>2, <1>3, <2>2, <2>4, <2>5, <2>6
<1>7. DummyHolds(LastPiece("dummy", stream'), dummy')
    <2>1. CASE b \in Ends("dummy")
        <3>1. dummy' = createDummyLineDecoder
            BY <1>1, <2>1 DEF Fed, Ends, decodeDummyAsciiChunk
        <3>2. LastPiece("dummy", stream') = <<>>
            BY <1>5, <2>1 DEF Decoders
        <3> QED
            BY <3>1, <3>2, EmptyHeld
    <2>2. CASE b \notin Ends("dummy")
        <3>1. DummyHolds(LastPiece("dummy", stream), dummy)
            BY <1>3 DEF Holds, Decoders
        <3>2. LastPiece("dummy", stream') = Append(LastPiece("dummy", stream), b)
            BY <1>4, <2>2 DEF Decoders
        <3>3. b \in Bytes \ {"cr", "lf"} /\ dummy' = decodeDummyAsciiChunk(b).state
            BY <1>1, <2>2 DEF Ends, Fed
        <3> QED
            BY <3>1, <3>2, <3>3, DummyByteHolds
    <2> QED
        BY <2>1, <2>2
<1>8. ArmHolds(LastPiece("arm", stream'), arm')
    <2>1. CASE b \in Ends("arm")
        <3>1. arm' = createAethorArmLineDecoder
            BY <1>1, <2>1 DEF Fed, Ends, decodeAethorArmAsciiChunk
        <3>2. LastPiece("arm", stream') = <<>>
            BY <1>5, <2>1 DEF Decoders
        <3> QED
            BY <3>1, <3>2, EmptyHeld
    <2>2. CASE b \notin Ends("arm")
        <3>1. ArmHolds(LastPiece("arm", stream), arm)
            BY <1>3 DEF Holds, Decoders
        <3>2. LastPiece("arm", stream') = Append(LastPiece("arm", stream), b)
            BY <1>4, <2>2 DEF Decoders
        <3>3. b \in Bytes \ {"lf"} /\ arm' = decodeAethorArmAsciiChunk(b).state
            BY <1>1, <2>2 DEF Ends, Fed
        <3> QED
            BY <3>1, <3>2, <3>3, ArmByteHolds
    <2> QED
        BY <2>1, <2>2
<1>9. \A d \in Decoders : Holds(d, stream)'
    BY <1>7, <1>8 DEF Holds, Decoders
<1>10. \A d \in Decoders : Ended(d, stream') \in Seq(Records) /\ decoded'[d] = Closed(Ended(d, stream'))
    BY <1>3, <1>4, <1>5
<1>11. \A d \in Decoders : decoded'[d] = OwedBy(d)'
    BY <1>1, <1>10 DEF OwedBy
<1>12. stream' \in Seq(Bytes) /\ finished' \in BOOLEAN /\ DOMAIN decoded' = Decoders
    <2>1. DOMAIN decoded' = Decoders
        BY <1>1 DEF Decoders
    <2>2. stream' \in Seq(Bytes)
        BY <1>1
    <2>3. finished' = finished /\ finished \in BOOLEAN
        BY DEF DecodeByte, DecoderIInv
    <2> QED
        BY <2>1, <2>2, <2>3
<1> QED
    BY <1>9, <1>10, <1>11, <1>12 DEF DecoderIInv

Finished(d) == IF d = "arm" THEN finishAethorArmLineDecoder ELSE finishDummyLineDecoder

\* At the end an empty piece is owed nothing, and any other is reported.
LEMMA FinishedOwes ==
  \A d \in Decoders : Holds(d, stream) =>
    Finished(d) = IF LastPiece(d, stream) = <<>> THEN <<>>
                  ELSE <<Record(Held(d).buffer, Unfinished(Held(d).reason))>>
<1> SUFFICES ASSUME NEW d \in Decoders, Holds(d, stream)
             PROVE  Finished(d) = IF LastPiece(d, stream) = <<>> THEN <<>>
                                  ELSE <<Record(Held(d).buffer, Unfinished(Held(d).reason))>>
    OBVIOUS
<1> DEFINE piece == LastPiece(d, stream)
<1>0. MAX_LINE \in Nat
    BY DecoderAssumption
<1>1. CASE d = "arm"
    <2>1. ArmHolds(piece, arm)
        BY <1>1 DEF Holds
    <2> HIDE DEF piece
    <2>2. piece = <<>> <=> ~(arm.buffer # <<>> \/ arm.pendingCr \/ arm.reason # "none")
        <3>1. CASE arm.reason = "none"
            <4>1. ArmKept(piece, Len(arm.buffer), arm.pendingCr) /\ arm.pendingCr \in BOOLEAN
                  /\ arm.buffer \in Seq(Bytes) /\ piece \in Seq(Bytes)
                BY <2>1, <3>1 DEF ArmHolds
            <4> QED
                BY <3>1, <4>1 DEF ArmKept
        <3>2. CASE arm.reason # "none"
            <4>1. ArmFault(piece, Len(arm.buffer), arm.reason)
                  /\ arm.buffer \in Seq(Bytes) /\ piece \in Seq(Bytes)
                BY <2>1, <3>2 DEF ArmHolds
            <4> QED
                BY <3>2, <4>1 DEF ArmFault
        <3> QED
            BY <3>1, <3>2
    <2> QED
        BY <1>1, <2>2 DEF Finished, Held, finishAethorArmLineDecoder, piece
<1>2. CASE d = "dummy"
    <2>1. DummyHolds(piece, dummy)
        BY <1>2 DEF Holds
    <2> HIDE DEF piece
    <2>2. piece = <<>> <=> ~(dummy.buffer # <<>> \/ dummy.reason # "none")
        <3>1. CASE dummy.reason = "none"
            BY <2>1, <3>1 DEF DummyHolds
        <3>2. CASE dummy.reason # "none"
            <4>1. piece \in Seq(Bytes) /\ \E p \in Nat \ {0} : p <= Len(piece)
                BY <1>0, <2>1, <3>2 DEF DummyHolds, Reasons
            <4> QED
                BY <3>2, <4>1
        <3> QED
            BY <3>1, <3>2
    <2> QED
        BY <1>2, <2>2 DEF Finished, Held, finishDummyLineDecoder, piece
<1> QED
    BY <1>1, <1>2 DEF Decoders

LEMMA FinishStep == DecoderIInv /\ FinishDecoders => DecoderIInv'
<1> SUFFICES ASSUME DecoderIInv, FinishDecoders PROVE DecoderIInv'
    OBVIOUS
<1>1. /\ ~finished /\ finished' = TRUE /\ stream' = stream /\ stream \in Seq(Bytes)
      /\ decoded' = [dummy |-> decoded.dummy \o Finished("dummy"),
                     arm |-> decoded.arm \o Finished("arm")]
    BY DEF FinishDecoders, DecoderIInv, Finished
<1>2. \A d \in Decoders : decoded'[d] = decoded[d] \o Finished(d)
    <2>1. /\ decoded'["dummy"] = decoded["dummy"] \o Finished("dummy")
          /\ decoded'["arm"] = decoded["arm"] \o Finished("arm")
        BY <1>1
    <2> QED
        BY <2>1 DEF Decoders
<1>3. \A d \in Decoders : /\ Holds(d, stream) /\ Ended(d, stream) \in Seq(Records)
                          /\ decoded[d] = Closed(Ended(d, stream))
    BY <1>1 DEF DecoderIInv
<1>4. ASSUME NEW d \in Decoders PROVE decoded'[d] = OwedBy(d)'
    <2> DEFINE y == Judge(d, LastPiece(d, stream))
               c == Closed(Ended(d, stream))
               z == Record(Held(d).buffer, Unfinished(Held(d).reason))
    <2>1. y \in Records /\ y = Record(Held(d).buffer, Held(d).reason)
          /\ Held(d).buffer \in Seq(Bytes)
        BY <1>3, HeldIsJudged
    <2>2. c \in Seq(Records)
        BY <1>3, <2>1, ClosedGrows
    <2>3. OwedBy(d)' = IF LastPiece(d, stream) = <<>> THEN c
                       ELSE Append(c, Record(y.line, Unfinished(y.reason)))
        BY <1>1 DEF OwedBy
    <2> HIDE DEF y, c
    <2>4. Record(y.line, Unfinished(y.reason)) = z
        BY <2>1 DEF Record
    <2>5. decoded'[d] = c \o (IF LastPiece(d, stream) = <<>> THEN <<>> ELSE <<z>>)
        BY <1>2, <1>3, FinishedOwes DEF c
    <2> HIDE DEF z
    <2>6. c \o <<>> = c /\ c \o <<z>> = Append(c, z)
        BY <2>2
    <2>7. CASE LastPiece(d, stream) = <<>>
        BY <2>3, <2>5, <2>6, <2>7
    <2>8. CASE LastPiece(d, stream) # <<>>
        BY <2>3, <2>4, <2>5, <2>6, <2>8
    <2> QED
        BY <2>7, <2>8
<1>5. DOMAIN decoded' = Decoders
    BY <1>1 DEF Decoders
<1> QED
    BY <1>1, <1>3, <1>4, <1>5 DEF DecoderIInv

\* For any limit and any stream, cut into chunks in any way, both decoders
\* report exactly the lines of the stream, each rejected for its first fault
\* (decodeDummyAsciiChunk, decodeAethorArmAsciiChunk and their finish functions).
THEOREM DecodersAlwaysFrame == DecoderSpec => []DecodersFrame
<1>1. DecoderInit => DecoderIInv
    <2> SUFFICES ASSUME DecoderInit PROVE DecoderIInv
        OBVIOUS
    <2>1. /\ stream = <<>> /\ dummy = createDummyLineDecoder /\ arm = createAethorArmLineDecoder
          /\ decoded = [dummy |-> <<>>, arm |-> <<>>] /\ finished = FALSE
        BY DEF DecoderInit
    <2>2. ASSUME NEW d \in Decoders
          PROVE  Lines(stream, Ends(d)) = 0 /\ LastPiece(d, stream) = <<>>
        <3>1. Marks(stream, Ends(d)) = {} /\ Len(stream) = 0
            BY <2>1 DEF Marks
        <3>2. Lines(stream, Ends(d)) = 0
            BY <3>1, FS_EmptySet DEF Lines
        <3>3. /\ CutOf(stream, Marks(stream, Ends(d)), 0) = 0
              /\ CutOf(stream, Marks(stream, Ends(d)), 1) = 1
            BY <3>1, FS_EmptySet DEF CutOf
        <3>4. LastPiece(d, stream) = SubSeq(stream, 1, 0)
            BY <3>2, <3>3 DEF LastPiece, PiecesOf
        <3> QED
            BY <2>1, <3>2, <3>4
    <2>3. ASSUME NEW d \in Decoders
          PROVE  Ended(d, stream) = <<>> /\ Closed(Ended(d, stream)) = <<>>
        <3>1. Ended(d, stream) = <<>>
            BY <2>2 DEF Ended
        <3>2. \A k \in DOMAIN <<>> : FALSE
            OBVIOUS
        <3>3. {k \in DOMAIN Ended(d, stream) : Ended(d, stream)[k] # Record(<<>>, "none")} = {}
            BY <3>1, <3>2
        <3>4. Closed(Ended(d, stream)) = <<>>
            <4> DEFINE none == <<>>
            <4>1. none \in Seq(Records) /\ {} \in SUBSET (1 .. Len(none))
                OBVIOUS
            <4> HIDE DEF none
            <4>2. Selected(none, {}) \in Seq(Records) /\ Len(Selected(none, {})) = Cardinality({})
                BY <4>1, SelectedType
            <4>3. Closed(Ended(d, stream)) = Selected(none, {})
                BY <3>1, <3>3 DEF Closed, none
            <4> QED
                BY <4>2, <4>3, FS_EmptySet
        <3> QED
            BY <3>1, <3>4
    <2>4. \A d \in Decoders : Holds(d, stream)
        BY <2>1, <2>2, EmptyHeld DEF Holds, Decoders
    <2>5. DOMAIN decoded = Decoders /\ \A d \in Decoders : decoded[d] = <<>>
        BY <2>1 DEF Decoders
    <2>6. \A d \in Decoders : OwedBy(d) = <<>>
        BY <2>1, <2>3 DEF OwedBy
    <2>9. \A S : <<>> \in Seq(S)
        OBVIOUS
    <2>7. stream \in Seq(Bytes) /\ finished \in BOOLEAN
        <3>1. stream = <<>> /\ finished = FALSE
            BY <2>1
        <3> QED
            BY <2>9, <3>1
    <2>8. \A d \in Decoders : Ended(d, stream) \in Seq(Records)
        <3>1. \A d \in Decoders : Ended(d, stream) = <<>>
            BY <2>3
        <3> QED
            BY <2>9, <3>1
    <2> QED
        BY <2>3, <2>4, <2>5, <2>6, <2>7, <2>8 DEF DecoderIInv
<1>2. DecoderIInv /\ [DecoderNext]_decoderVars => DecoderIInv'
    <2> SUFFICES ASSUME DecoderIInv, [DecoderNext]_decoderVars PROVE DecoderIInv'
        OBVIOUS
    <2>1. ASSUME NEW b \in Bytes, DecodeByte(b) PROVE DecoderIInv'
        BY <2>1, ByteStep
    <2>2. CASE UNCHANGED decoderVars
        BY <2>2 DEF decoderVars, DecoderIInv, OwedBy, Holds
    <2> QED
        BY <2>1, <2>2, FinishStep DEF DecoderNext
<1>3. DecoderIInv => DecodersFrame
    <2> SUFFICES ASSUME DecoderIInv PROVE DecodersFrame
        OBVIOUS
    <2>1. /\ stream \in Seq(Bytes) /\ decoded["dummy"] = OwedBy("dummy")
          /\ decoded["arm"] = OwedBy("arm")
        BY DEF DecoderIInv, Decoders
    <2> QED
        BY <2>1, OwedIs DEF DecodersFrame
<1> QED
    BY <1>1, <1>2, <1>3, PTL DEF DecoderSpec
=============================================================================
