--------------------------- MODULE SceneLifecycle ---------------------------
(***************************************************************************)
(* The 3D scene (components/visualization/RobotScene.tsx, the joint        *)
(* manipulator, the shared geometry cache, the retry policy for static     *)
(* assets and the resource tracker): a model that loads through several    *)
(* asynchronous fetches while the page may be left and entered again, a    *)
(* canvas that draws only when asked to, and a pointer drag that disables  *)
(* the camera controls.                                                    *)
(*                                                                         *)
(* Geometry is left out.  Every mount has its own load, which outlives the *)
(* mount.  Fetches, the loading manager, React's renders and the frame     *)
(* loop are external and modelled from how this code uses them.            *)
(***************************************************************************)
EXTENDS Integers, FiniteSets

CONSTANTS
  Meshes,      \* the geometry files a URDF refers to
  MaxMounts,   \* bound: times the scene is mounted
  Pointers,    \* pointer ids
  Focuses,     \* what the camera may be asked to fit
  Measurable   \* those of which the loaded models have something to measure

ASSUME SceneAssumption == /\ IsFiniteSet(Meshes) /\ "urdf" \notin Meshes
                          /\ MaxMounts \in Nat
                          /\ "none" \notin Pointers /\ "none" \notin Focuses
                          /\ Measurable \subseteq Focuses

VARIABLES
  scene,       \* "mounted", "lost" (failed, fallback not rendered) or "unmounted"
  mount,       \* number of the newest mount
  load,        \* per mount: [cancelled, failed, resources, robot]
  fetch,       \* per mount and file: "idle", "first", "retry" or "done"
  modelState,  \* what the page was told: "loading", "ready" or "error"
  models,      \* React's models: "none", "set" or, once rendered, "shown"
  readyFrames, \* frames drawn with the models
  frame,       \* a frame was asked for (invalidate)
  tracker,     \* resources acquired and not released
  drag,        \* pointer of the drag session
  dragging,    \* the flag the camera controls look at
  controls,    \* the camera controls are enabled
  camera,      \* [focus, bounds, fitted, fitPending, owed]: a fit is owed until
               \* the first one and after a reset
  degraded,    \* some joint's feedback is degraded
  drawn        \* the degraded flag of the last frame drawn

sceneVars == <<scene, mount, load, fetch, modelState, models, readyFrames, frame, tracker,
               drag, dragging, controls, camera, degraded, drawn>>

Loads == 1 .. MaxMounts
Files == {"urdf"} \cup Meshes
NothingAcquired == [renderers |-> 0, controls |-> 0, modelRoots |-> 0, materials |-> 0,
                    dragSessions |-> 0]
NoCamera(f) == [focus |-> f, bounds |-> "none", fitted |-> "none", fitPending |-> FALSE,
                owed |-> TRUE]

SceneInit ==
  /\ scene = "unmounted" /\ mount = 0
  /\ load = [l \in Loads |-> [cancelled |-> FALSE, failed |-> FALSE, resources |-> FALSE,
                              robot |-> "none"]]
  /\ fetch = [l \in Loads |-> [f \in Files |-> "idle"]]
  /\ modelState = "loading" /\ models = "none" /\ readyFrames = 0 /\ frame = FALSE
  /\ tracker = NothingAcquired
  /\ drag = "none" /\ dragging = FALSE /\ controls = TRUE
  /\ camera \in {NoCamera(f) : f \in Focuses}
  /\ degraded = FALSE /\ drawn = FALSE

\* Files still being fetched for load l; the loading manager counts them.
Outstanding(fs) == {f \in Files : fs[f] \in {"first", "retry"}}

-----------------------------------------------------------------------------
(* Mounting and loading.                                                   *)

\* The effects of a mount: renderer, camera controls and the load.
MountScene ==
  /\ scene = "unmounted" /\ mount < MaxMounts
  /\ scene' = "mounted" /\ mount' = mount + 1
  /\ fetch' = [fetch EXCEPT ![mount + 1]["urdf"] = "first"]
  /\ modelState' = "loading" /\ models' = "none" /\ readyFrames' = 0
  /\ tracker' = [tracker EXCEPT !.renderers = @ + 1, !.controls = @ + 1]
  /\ frame' = TRUE /\ controls' = TRUE
  /\ camera' = NoCamera(camera.focus)
  /\ UNCHANGED <<load, drag, dragging, degraded, drawn>>

\* A failed load only tells the page while the page is there.
failModelLoad(l, ld) ==
  [load |-> [ld EXCEPT !.failed = TRUE], error |-> ~ld.cancelled, models |-> FALSE]

\* Mutant: a load does not look whether its page was left.
finalizeUncancelled(l, ld, bound) ==
  IF ~ld.resources \/ ld.robot # "parsed"
    THEN [load |-> ld, error |-> FALSE, models |-> FALSE]
  ELSE IF ld.failed
    THEN [load |-> [ld EXCEPT !.robot = "disposed"], error |-> FALSE, models |-> FALSE]
  ELSE IF bound
    THEN [load |-> [ld EXCEPT !.robot = "owned"], error |-> FALSE, models |-> TRUE]
  ELSE [load |-> [ld EXCEPT !.robot = "disposed", !.failed = TRUE],
        error |-> TRUE, models |-> FALSE]

\* finalizeLoadedModels: bound says whether the profile's joints were found.
finalizeLoadedModels(l, ld, bound) ==
  IF ~ld.resources \/ ld.robot # "parsed"
    THEN [load |-> ld, error |-> FALSE, models |-> FALSE]
  ELSE IF ld.cancelled \/ ld.failed
    THEN [load |-> [ld EXCEPT !.robot = "disposed"], error |-> FALSE, models |-> FALSE]
  ELSE IF bound
    THEN [load |-> [ld EXCEPT !.robot = "owned"], error |-> FALSE, models |-> TRUE]
  ELSE [load |-> [ld EXCEPT !.robot = "disposed", !.failed = TRUE],
        error |-> TRUE, models |-> FALSE]

\* What a load did to the page.
Report(l, outcomes, ld) ==
  /\ load' = [load EXCEPT ![l] = ld]
  /\ modelState' = IF \E o \in outcomes : o.error THEN "error" ELSE modelState
  /\ IF \E o \in outcomes : o.models
       THEN models' = "set" /\ readyFrames' = 0 /\ frame' = TRUE
       ELSE UNCHANGED <<models, readyFrames, frame>>

\* The manager's itemEnd: with nothing left to fetch the resources are loaded.
ItemEnd(l, fs, before, bound) ==
  LET ld == IF Outstanding(fs) = {} THEN [before.load EXCEPT !.resources = TRUE] ELSE before.load
      after == finalizeLoadedModels(l, ld, bound)
  IN  /\ fetch' = [fetch EXCEPT ![l] = fs]
      /\ Report(l, {before, after}, after.load)

SceneRest == <<scene, mount, tracker, drag, dragging, controls, camera, degraded, drawn>>

\* The URDF is parsed, which requests its meshes from the cache.
UrdfLoaded(l) ==
  LET fs == [f \in Files |-> IF f = "urdf" THEN "done" ELSE "first"]
  IN  /\ fetch[l]["urdf"] \in {"first", "retry"}
      /\ \E bound \in BOOLEAN :
           ItemEnd(l, fs, [load |-> [load[l] EXCEPT !.robot = "parsed"],
                           error |-> FALSE, models |-> FALSE], bound)
      /\ UNCHANGED SceneRest

\* A mesh goes to everyone who asked for it.
MeshLoaded(l, m) ==
  /\ fetch[l][m] \in {"first", "retry"}
  /\ \E bound \in BOOLEAN :
       ItemEnd(l, [fetch[l] EXCEPT ![m] = "done"],
               [load |-> load[l], error |-> FALSE, models |-> FALSE], bound)
  /\ UNCHANGED SceneRest

\* One retry, for a network error of a scene that is still there.
shouldRetrySameOriginStaticAsset(l, f, network) ==
  network /\ fetch[l][f] = "first" /\ ~load[l].cancelled

\* A fetch fails; a retry starts before the failed one ends.
FetchFailed(l, f, network) ==
  /\ fetch[l][f] \in {"first", "retry"}
  /\ IF shouldRetrySameOriginStaticAsset(l, f, network)
       THEN /\ fetch' = [fetch EXCEPT ![l][f] = "retry"]
            /\ UNCHANGED <<load, modelState, models, readyFrames, frame>>
       ELSE \E bound \in BOOLEAN :
              ItemEnd(l, [fetch[l] EXCEPT ![f] = "done"], failModelLoad(l, load[l]), bound)
  /\ UNCHANGED SceneRest

-----------------------------------------------------------------------------
(* Rendering and leaving.                                                  *)

DegradedMaterials == IF degraded THEN 1 ELSE 0

\* The models are measured.  Without bounds the effect returns early, and what
\* it would have fitted stays owed.
Measured(c) ==
  IF c.focus \notin Measurable THEN c
  ELSE [c EXCEPT !.bounds = c.focus, !.owed = FALSE,
                 !.fitPending = @ \/ c.owed \/ c.focus # c.bounds]

\* React renders the models; their effects pose, mark and measure them.
RenderModels ==
  /\ scene = "mounted" /\ models = "set"
  /\ models' = "shown" /\ frame' = TRUE
  /\ tracker' = [tracker EXCEPT !.modelRoots = @ + 2, !.materials = @ + DegradedMaterials]
  /\ camera' = Measured(camera)
  /\ UNCHANGED <<scene, mount, load, fetch, modelState, readyFrames, drag, dragging, controls,
                 degraded, drawn>>

\* Mutant: the first frame with the models does not ask for the second.
SceneFrameOnce ==
  /\ scene # "unmounted" /\ frame
  /\ controls' = ~dragging
  /\ drawn' = degraded /\ frame' = FALSE
  /\ IF models = "shown" /\ readyFrames < 2
       THEN /\ readyFrames' = readyFrames + 1
            /\ modelState' = IF readyFrames' = 2 THEN "ready" ELSE modelState
       ELSE UNCHANGED <<readyFrames, modelState>>
  /\ UNCHANGED <<scene, mount, load, fetch, models, tracker, drag, dragging, camera, degraded>>

\* The frame loop, on demand: two frames with the models make them ready.
SceneFrame ==
  /\ scene # "unmounted" /\ frame
  /\ controls' = ~dragging
  /\ drawn' = degraded
  /\ IF models = "shown" /\ readyFrames < 2
       THEN /\ readyFrames' = readyFrames + 1
            /\ frame' = (readyFrames' < 2)
            /\ modelState' = IF readyFrames' = 2 THEN "ready" ELSE modelState
       ELSE frame' = FALSE /\ UNCHANGED <<readyFrames, modelState>>
  /\ UNCHANGED <<scene, mount, load, fetch, models, tracker, drag, dragging, camera, degraded>>

\* The cleanups of every effect, in the order React runs them.
Teardown ==
  /\ scene' = "unmounted" /\ models' = "none" /\ frame' = FALSE
  /\ load' = [load EXCEPT ![mount].cancelled = TRUE,
                ![mount].robot = IF @ = "owned" THEN "disposed" ELSE @]
  /\ tracker' = [tracker EXCEPT !.renderers = @ - 1, !.controls = @ - 1,
                   !.modelRoots = IF models = "shown" THEN @ - 2 ELSE @,
                   !.materials = IF models = "shown" THEN @ - DegradedMaterials ELSE @,
                   !.dragSessions = IF drag = "none" THEN @ ELSE @ - 1]
  /\ drag' = "none" /\ dragging' = FALSE
  /\ camera' = NoCamera(camera.focus)

UnmountScene ==
  /\ scene # "unmounted"
  /\ Teardown
  /\ UNCHANGED <<mount, fetch, modelState, readyFrames, controls, degraded, drawn>>

\* handleRuntimeFailure: the fallback replaces the canvas at the next render.
ContextLost ==
  /\ scene = "mounted"
  /\ scene' = "lost" /\ dragging' = FALSE /\ modelState' = "error"
  /\ UNCHANGED <<mount, load, fetch, models, readyFrames, frame, tracker, drag, controls, camera,
                 degraded, drawn>>

\* SceneErrorBoundary: a render threw, its children are gone at once.
RenderThrew ==
  /\ scene = "mounted"
  /\ Teardown /\ modelState' = "error"
  /\ UNCHANGED <<mount, fetch, readyFrames, controls, degraded, drawn>>

-----------------------------------------------------------------------------
(* Telemetry, camera and drag.                                             *)

Interactive == scene # "unmounted" /\ models = "shown"
SceneKept == <<scene, mount, load, fetch, modelState, models, readyFrames, drawn>>

\* A stall marks the joints: the effect asks for a frame itself.
FeedbackDegraded ==
  /\ ~degraded /\ degraded' = TRUE
  /\ frame' = (frame \/ Interactive)
  /\ tracker' = [tracker EXCEPT !.materials = IF Interactive THEN @ + 1 ELSE @]
  /\ UNCHANGED <<SceneKept, drag, dragging, controls, camera>>

\* Recovery only restores the materials; the new pose that comes with every
\* motor frame asks for the frame.
FeedbackRecovered ==
  /\ degraded /\ degraded' = FALSE
  /\ frame' = (frame \/ Interactive)
  /\ tracker' = [tracker EXCEPT !.materials = IF Interactive THEN @ - 1 ELSE @]
  /\ UNCHANGED <<SceneKept, drag, dragging, controls, camera>>

\* The focus changes, or the camera is reset: the bounds are measured again.
FocusCamera(f) ==
  /\ scene # "unmounted"
  /\ LET c == [camera EXCEPT !.focus = f, !.owed = @ \/ f = camera.focus]
     IN  camera' = IF Interactive THEN Measured(c) ELSE c
  /\ UNCHANGED <<SceneKept, frame, tracker, drag, dragging, controls, degraded>>

\* The camera controller's effect.
FitCamera ==
  /\ scene = "mounted" /\ camera.fitPending
  /\ camera' = [camera EXCEPT !.fitted = camera.bounds, !.fitPending = FALSE]
  /\ frame' = TRUE
  /\ UNCHANGED <<SceneKept, tracker, drag, dragging, controls, degraded>>

\* A second pointer takes the drag over.
beginDrag(p) ==
  /\ Interactive
  /\ tracker' = [tracker EXCEPT !.dragSessions = IF drag = "none" THEN @ + 1 ELSE @]
  /\ drag' = p /\ dragging' = TRUE /\ frame' = TRUE
  /\ UNCHANGED <<SceneKept, controls, camera, degraded>>

\* The window hears the session's pointer, the handle hears any pointer.
finishDrag(p, onHandle) ==
  /\ drag # "none" /\ (p = drag \/ onHandle)
  /\ tracker' = [tracker EXCEPT !.dragSessions = @ - 1]
  /\ drag' = "none" /\ dragging' = FALSE /\ frame' = TRUE
  /\ UNCHANGED <<SceneKept, controls, camera, degraded>>

\* Another joint is selected: its manipulator replaces this one.
SelectJoint ==
  /\ Interactive
  /\ tracker' = [tracker EXCEPT !.dragSessions = IF drag = "none" THEN @ ELSE @ - 1]
  /\ drag' = "none" /\ dragging' = FALSE /\ frame' = TRUE
  /\ UNCHANGED <<SceneKept, controls, camera, degraded>>

SceneNext ==
  \/ MountScene \/ RenderModels \/ SceneFrame \/ UnmountScene \/ ContextLost \/ RenderThrew
  \/ \E l \in Loads : UrdfLoaded(l)
  \/ \E l \in Loads, m \in Meshes : MeshLoaded(l, m)
  \/ \E l \in Loads, f \in Files, network \in BOOLEAN : FetchFailed(l, f, network)
  \/ FeedbackDegraded \/ FeedbackRecovered
  \/ \E f \in Focuses : FocusCamera(f)
  \/ FitCamera
  \/ \E p \in Pointers : beginDrag(p)
  \/ \E p \in Pointers, onHandle \in BOOLEAN : finishDrag(p, onHandle)
  \/ SelectJoint

\* The browser answers every fetch, React renders what was set and draws the
\* frames that were asked for.
SceneFairness ==
  /\ \A l \in Loads, f \in Files : WF_sceneVars(
        (IF f = "urdf" THEN UrdfLoaded(l) ELSE MeshLoaded(l, f)) \/ FetchFailed(l, f, FALSE))
  /\ WF_sceneVars(RenderModels) /\ WF_sceneVars(SceneFrame) /\ WF_sceneVars(FitCamera)

SceneSpec == SceneInit /\ [][SceneNext]_sceneVars /\ SceneFairness

-----------------------------------------------------------------------------
(* Properties.                                                             *)

\* Nothing leaks and nothing is used after it was disposed, however loads,
\* unmounts, failures and drags interleave: what is shown is owned by the
\* mount's load, a page that was left holds no tracked resource, and a load
\* that ended after its page was left has disposed what it parsed.
SceneReleased ==
  /\ models # "none" => load[mount].robot = "owned"
  /\ tracker.dragSessions = IF drag = "none" THEN 0 ELSE 1
  /\ scene = "unmounted" => tracker = NothingAcquired
  /\ \A l \in Loads : (load[l].cancelled \/ load[l].failed) /\ Outstanding(fetch[l]) = {}
                        => load[l].robot \in {"none", "disposed"}

\* Although frames are drawn only on demand, the page catches up: a model that
\* loads becomes ready or is reported as failed, and the marks of degraded
\* joints, the fit of the camera and the release of the controls after a drag
\* reach the screen.
SceneCatchesUp ==
  /\ (scene = "mounted" /\ modelState = "loading") ~> (scene # "mounted" \/ modelState # "loading")
  /\ (models = "shown" /\ drawn # degraded) ~> (models # "shown" \/ drawn = degraded)
  /\ (models = "shown" /\ camera.focus \in Measurable /\ camera.fitted # camera.focus)
        ~> (scene # "mounted" \/ camera.focus \notin Measurable \/ camera.fitted = camera.focus)
  /\ (scene = "mounted" /\ ~controls /\ ~dragging) ~> (scene # "mounted" \/ controls \/ dragging)
=============================================================================
