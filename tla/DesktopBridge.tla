---------------------------- MODULE DesktopBridge ----------------------------
(***************************************************************************)
(* The web page's bridge to its desktop window                             *)
(* (integrations/desktopBridge.ts): requests posted to the WebView2 host   *)
(* and matched with its answers by id, one in flight per action, each with *)
(* a timeout, and the panel that exports diagnostics through it            *)
(* (DiagnosticExportPanel of pages/device-model/DeviceModelPage.tsx).      *)
(* Other actions have no state in the page.  The host is external: it      *)
(* carries requests out in any order, answers each once, and may be slow   *)
(* or never answer.                                                        *)
(***************************************************************************)
EXTENDS Integers, FiniteSets

CONSTANTS
  BridgeActions,     \* actions a request may name
  Capabilities,      \* the actions the bootstrap says the host supports
  MaxBridgeRequests  \* bound: requests posted

ASSUME BridgeAssumption ==
  Capabilities \subseteq BridgeActions /\ MaxBridgeRequests \in Nat

VARIABLES
  bridge,     \* [pending, inFlight]: request ids, and action -> id
  requests,   \* id -> [action, status, ok]: every request made
  inbox,      \* posted to the host and not carried out
  answers,    \* answers on their way to the page
  export      \* [status, call, mounted]: the diagnostics panel

bridgeVars == <<bridge, requests, inbox, answers, export>>

NoRequest == 0
RequestNumbers == 1 .. MaxBridgeRequests
Unborn == [action |-> "none", status |-> "unborn", ok |-> FALSE]
Born == {i \in RequestNumbers : requests[i].status # "unborn"}

BridgeInit ==
  /\ bridge = [pending |-> {}, inFlight |-> [a \in BridgeActions |-> NoRequest]]
  /\ requests = [i \in RequestNumbers |-> Unborn]
  /\ inbox = {} /\ answers = {}
  /\ export = [status |-> "idle", call |-> NoRequest, mounted |-> TRUE]

\* Mutant: a settled request keeps its action in flight.
ResolveKeepsAction(i, value) ==
  /\ requests' = [requests EXCEPT ![i].status = "settled", ![i].ok = value]
  /\ bridge' = [bridge EXCEPT !.pending = @ \ {i}]

\* The promise of request i resolves; its finally clears the action.
Resolve(i, value) ==
  /\ requests' = [requests EXCEPT ![i].status = "settled", ![i].ok = value]
  /\ bridge' = [bridge EXCEPT !.pending = @ \ {i},
                              !.inFlight[requests[i].action] = NoRequest]

\* The request a call of an action joins: one in flight, or the next id.
Joined(a) ==
  IF bridge.inFlight[a] # NoRequest THEN bridge.inFlight[a]
  ELSE Cardinality(Born) + 1

\* invoke: unsupported is refused at once, a second call shares the first
\* one's promise, and a post that throws resolves to false on the spot.
Post(a) ==
  LET i == Cardinality(Born) + 1
  IN  /\ i \in RequestNumbers
      /\ \/ /\ requests' = [requests EXCEPT ![i] =
                 [action |-> a, status |-> "waiting", ok |-> FALSE]]
            /\ bridge' = [bridge EXCEPT !.pending = @ \cup {i}, !.inFlight[a] = i]
            /\ inbox' = inbox \cup {i}
         \/ /\ requests' = [requests EXCEPT ![i] =
                 [action |-> a, status |-> "settled", ok |-> FALSE]]
            /\ UNCHANGED <<bridge, inbox>>

invoke(a) ==
  /\ a \in Capabilities
  /\ IF bridge.inFlight[a] # NoRequest
       THEN UNCHANGED <<bridge, requests, inbox>> ELSE Post(a)

InvokeWindowAction(a) ==
  /\ a # "exportDiagnostics"
  /\ invoke(a)
  /\ UNCHANGED <<answers, export>>

exportBundle ==
  /\ export.mounted /\ export.status # "exporting"
  /\ invoke("exportDiagnostics")
  /\ export' = [export EXCEPT !.status = "exporting", !.call = Joined("exportDiagnostics")]
  /\ UNCHANGED answers

\* The panel awaits its call and shows the outcome if it is still there.
ExportReturns ==
  /\ export.call # NoRequest /\ requests[export.call].status = "settled"
  /\ export' = [export EXCEPT !.call = NoRequest,
       !.status = IF ~export.mounted THEN @
                  ELSE IF requests[export.call].ok THEN "exported" ELSE "notCreated"]
  /\ UNCHANGED <<bridge, requests, inbox, answers>>

\* Leaving the page drops the panel's state, coming back starts afresh; what
\* an earlier panel awaits no longer shows.
LeaveExport ==
  /\ export.mounted
  /\ export' = [status |-> "idle", call |-> NoRequest, mounted |-> FALSE]
  /\ UNCHANGED <<bridge, requests, inbox, answers>>

EnterExport ==
  /\ ~export.mounted
  /\ export' = [export EXCEPT !.mounted = TRUE]
  /\ UNCHANGED <<bridge, requests, inbox, answers>>

RequestTimesOut(i) ==
  /\ i \in bridge.pending
  /\ Resolve(i, FALSE)
  /\ UNCHANGED <<inbox, answers, export>>

\* An answer finds its request by id; one that is late or unknown is dropped.
handleResponse(answer) ==
  /\ answer \in answers
  /\ answers' = answers \ {answer}
  /\ IF answer.id \in bridge.pending
       THEN Resolve(answer.id, answer.ok)
       ELSE UNCHANGED <<bridge, requests>>
  /\ UNCHANGED <<inbox, export>>

HostAnswers(i, ok) ==
  /\ i \in inbox
  /\ inbox' = inbox \ {i}
  /\ answers' = answers \cup {[id |-> i, ok |-> ok]}
  /\ UNCHANGED <<bridge, requests, export>>

BridgeNext ==
  \/ \E a \in BridgeActions : InvokeWindowAction(a)
  \/ exportBundle \/ ExportReturns \/ LeaveExport \/ EnterExport
  \/ \E i \in RequestNumbers : RequestTimesOut(i) \/ \E ok \in BOOLEAN : HostAnswers(i, ok)
  \/ \E answer \in answers : handleResponse(answer)

BridgeSpec == BridgeInit /\ [][BridgeNext]_bridgeVars

-----------------------------------------------------------------------------
(* Properties.                                                             *)

\* A waiting request is pending under its id and is its action's one request
\* in flight, and nothing else is: whichever of the timeout, the answer and a
\* failed post settles a request, both maps forget it, so no action is locked
\* and no later request is settled by an earlier one's answer.
BridgeMapsAgree ==
  LET waiting == {i \in RequestNumbers : requests[i].status = "waiting"}
  IN  /\ bridge.pending = waiting
      /\ \A a \in BridgeActions :
           {i \in waiting : requests[i].action = a}
             = {bridge.inFlight[a]} \ {NoRequest}
=============================================================================
