----------------------------- MODULE PortCatalog -----------------------------
(***************************************************************************)
(* The shared catalogue of serial ports (integrations/serialPortCatalog.ts *)
(* and its fields in stores/useGatewayRuntimeStore.ts): one enumeration in *)
(* flight at a time, whoever asks for it, and the port the operator has    *)
(* chosen from it in the header's control or on the device page.  A        *)
(* disconnect resets the fields while an enumeration may be under way.     *)
(***************************************************************************)
EXTENDS Integers, FiniteSets

CONSTANTS
  PortNames,        \* ports that may be plugged in
  MaxEnumerations   \* bound: enumerations begun

ASSUME PortAssumption == MaxEnumerations \in Nat

VARIABLES
  catalog,      \* [status, ports, selected, active]: the store's fields
  enumeration,  \* [phase, ports]: the promise in flight
  deviceRefresh,\* [phase, selected, ports]: DeviceModelPage.refreshGateway
  plugged,      \* the ports of the machine
  portSession,  \* a serial session is open
  enumerated    \* enumerations begun

portVars == <<catalog, enumeration, deviceRefresh, plugged, portSession, enumerated>>

NoPort == ""
idleCatalog == [status |-> "idle", ports |-> {}, selected |-> NoPort]
NoEnumeration == [phase |-> "none", ports |-> {}]
NoRefresh == [phase |-> "none", selected |-> NoPort, ports |-> {}]

PortInit ==
  /\ catalog = idleCatalog /\ enumeration = NoEnumeration
  /\ deviceRefresh = NoRefresh
  /\ plugged \in SUBSET PortNames
  /\ portSession = FALSE
  /\ enumerated = 0

-----------------------------------------------------------------------------
(* refreshSerialPortCatalog and the store.                                 *)

beginSerialPortRefresh(c) == [c EXCEPT !.status = "loading"]

\* Mutant: the choice is kept whatever the enumeration found.
completeKeepingChoice(c, ports) == [c EXCEPT !.status = "ready", !.ports = ports]

\* The chosen port stays chosen only if it is still there.
completeSerialPortRefresh(c, ports) ==
  [c EXCEPT !.status = "ready", !.ports = ports,
            !.selected = IF @ \in ports THEN @ ELSE NoPort]

failSerialPortRefresh(c) == [c EXCEPT !.status = "error"]

\* Joins the enumeration in flight, or starts one.
refreshSerialPortCatalog ==
  \/ /\ enumeration.phase # "none"
     /\ UNCHANGED <<catalog, enumeration, enumerated>>
  \/ /\ enumeration.phase = "none" /\ enumerated < MaxEnumerations
     /\ enumerated' = enumerated + 1
     /\ enumeration' = [phase |-> "asked", ports |-> {}]
     /\ catalog' = beginSerialPortRefresh(catalog)

PortsListed ==
  /\ enumeration.phase = "asked"
  /\ enumeration' = [phase |-> "listed", ports |-> plugged]
  /\ UNCHANGED <<catalog, deviceRefresh, plugged, portSession, enumerated>>

RefreshCompleted ==
  /\ enumeration.phase = "listed"
  /\ catalog' = completeSerialPortRefresh(catalog, enumeration.ports)
  /\ enumeration' = NoEnumeration
  /\ deviceRefresh' = IF deviceRefresh.phase = "waiting"
                        THEN [deviceRefresh EXCEPT !.phase = "listed",
                                                  !.ports = enumeration.ports]
                        ELSE deviceRefresh
  /\ UNCHANGED <<plugged, portSession, enumerated>>

RefreshFailed ==
  /\ enumeration.phase # "none"
  /\ catalog' = failSerialPortRefresh(catalog)
  /\ enumeration' = NoEnumeration
  /\ deviceRefresh' = NoRefresh
  /\ UNCHANGED <<plugged, portSession, enumerated>>

-----------------------------------------------------------------------------
(* The pages.                                                              *)

\* The header's button, and the effect of either page on a closed session.
refreshPorts ==
  /\ ~portSession
  /\ refreshSerialPortCatalog
  /\ UNCHANGED <<deviceRefresh, plugged, portSession>>

\* refreshGateway of the device page captures the choice before it waits.
RefreshDevicePage ==
  /\ deviceRefresh = NoRefresh
  /\ refreshSerialPortCatalog
  /\ deviceRefresh' = [phase |-> "waiting", selected |-> catalog.selected, ports |-> {}]
  /\ UNCHANGED <<plugged, portSession>>

\* Its other reads are answered: a captured choice that is gone is cleared.
DevicePageRefreshed ==
  /\ deviceRefresh.phase = "listed"
  /\ catalog' = IF deviceRefresh.selected \in deviceRefresh.ports \cup {NoPort} THEN catalog
                ELSE [catalog EXCEPT !.selected = NoPort]
  /\ deviceRefresh' = NoRefresh
  /\ UNCHANGED <<enumeration, plugged, portSession, enumerated>>

\* The list is disabled while an enumeration runs or a session is open.
setSelectedPortName(port) ==
  /\ ~portSession /\ catalog.status # "loading"
  /\ port \in catalog.ports \cup {NoPort}
  /\ catalog' = [catalog EXCEPT !.selected = port]
  /\ UNCHANGED <<enumeration, deviceRefresh, plugged, portSession, enumerated>>

ConnectPort ==
  /\ ~portSession /\ catalog.selected # NoPort /\ catalog.status # "loading"
  /\ portSession' = TRUE
  /\ UNCHANGED <<catalog, enumeration, deviceRefresh, plugged, enumerated>>

\* completeDisconnect puts the catalogue back to its first state.
DisconnectPort ==
  /\ portSession
  /\ portSession' = FALSE
  /\ catalog' = idleCatalog
  /\ UNCHANGED <<enumeration, deviceRefresh, plugged, enumerated>>

PlugOrUnplug(port) ==
  /\ plugged' = IF port \in plugged THEN plugged \ {port} ELSE plugged \cup {port}
  /\ UNCHANGED <<catalog, enumeration, deviceRefresh, portSession, enumerated>>

PortNext ==
  \/ refreshPorts \/ RefreshDevicePage \/ PortsListed \/ RefreshCompleted
  \/ RefreshFailed \/ DevicePageRefreshed \/ ConnectPort \/ DisconnectPort
  \/ \E port \in PortNames : setSelectedPortName(port) \/ PlugOrUnplug(port)
  \/ setSelectedPortName(NoPort)

PortSpec == PortInit /\ [][PortNext]_portVars

-----------------------------------------------------------------------------
\* The port a connect would open is one of the ports last enumerated, and the
\* catalogue shows "loading", which locks the controls, only while an
\* enumeration is really under way, although enumerations are shared by two
\* pages and outlive the disconnect that resets the store.
PortChoiceListed ==
  /\ catalog.selected \in catalog.ports \cup {NoPort}
  /\ catalog.status = "loading" => enumeration.phase # "none"
=============================================================================
