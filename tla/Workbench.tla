------------------------------ MODULE Workbench ------------------------------
(***************************************************************************)
(* The parts of the browser application that keep state of their own and   *)
(* share none of it: the action editor, the signal history, the twin's     *)
(* telemetry, the scene, the package inspection, the runtime collections   *)
(* and the terminal, the line decoders, the desktop bridge, the port       *)
(* catalogue, the contract machines, the line protocols and the schemas.   *)
(* The steps of two such parts commute and no property mentions two of     *)
(* them, so their product is explored as their sum: a behaviour is a       *)
(* behaviour of one part, chosen at the start, while the others rest in    *)
(* their initial states.                                                   *)
(***************************************************************************)
EXTENDS ActionLibrary, SignalHistory, TwinFrames, SceneLifecycle, PackageInspection,
        RuntimeCollections, LineDecoders, DesktopBridge, PortCatalog, ContractMachines,
        AsciiCodec, WireSchema

VARIABLE part    \* the part that moves

Parts == {"actions", "history", "twin", "scene", "package", "collections", "decoders",
          "bridge", "ports", "contracts", "codec", "wire"}

workbenchVars == <<part, actionVars, historyVars, twinVars, sceneVars, packageVars,
                   collectionVars, decoderVars, bridgeVars, portVars, contractVars,
                   codecVars, wireVars>>

\* A part that stays at rest rests in one initial state.
WorkbenchInit ==
  /\ part \in Parts
  /\ ActionInit /\ (part # "actions" => stored = Incompatible)
  /\ HistoryInit /\ TwinInit
  /\ SceneInit /\ (part # "scene" => camera = NoCamera(CHOOSE f \in Focuses : TRUE))
  /\ PackageInit /\ CollectionInit /\ DecoderInit /\ BridgeInit
  /\ PortInit /\ (part # "ports" => plugged = {})
  /\ ContractInit /\ CodecInit
  /\ WireInit /\ (part # "wire" => host = CHOOSE h \in HostSettings : HostAccepts(h))

\* The part that moves is p.
Only(p) ==
  /\ part = p /\ UNCHANGED part
  /\ IF p = "actions" THEN TRUE ELSE UNCHANGED actionVars
  /\ IF p = "history" THEN TRUE ELSE UNCHANGED historyVars
  /\ IF p = "twin" THEN TRUE ELSE UNCHANGED twinVars
  /\ IF p = "scene" THEN TRUE ELSE UNCHANGED sceneVars
  /\ IF p = "package" THEN TRUE ELSE UNCHANGED packageVars
  /\ IF p = "collections" THEN TRUE ELSE UNCHANGED collectionVars
  /\ IF p = "decoders" THEN TRUE ELSE UNCHANGED decoderVars
  /\ IF p = "bridge" THEN TRUE ELSE UNCHANGED bridgeVars
  /\ IF p = "ports" THEN TRUE ELSE UNCHANGED portVars
  /\ IF p = "contracts" THEN TRUE ELSE UNCHANGED contractVars
  /\ IF p = "codec" THEN TRUE ELSE UNCHANGED codecVars
  /\ IF p = "wire" THEN TRUE ELSE UNCHANGED wireVars

WorkbenchNext ==
  \/ Only("actions") /\ ActionNext
  \/ Only("history") /\ HistoryNext
  \/ Only("twin") /\ TwinNext
  \/ Only("scene") /\ SceneNext
  \/ Only("package") /\ PackageNext
  \/ Only("collections") /\ CollectionNext
  \/ Only("decoders") /\ DecoderNext
  \/ Only("bridge") /\ BridgeNext
  \/ Only("ports") /\ PortNext
  \/ Only("contracts") /\ ContractNext
  \/ Only("codec") /\ CodecNext
  \/ Only("wire") /\ WireNext

\* The fairness of the parts that have some; at rest their fair steps are
\* disabled.
WorkbenchFairness == HistoryFairness /\ TwinFairness /\ SceneFairness

WorkbenchSpec == WorkbenchInit /\ [][WorkbenchNext]_workbenchVars /\ WorkbenchFairness
=============================================================================
