---------------------------- MODULE ActionLibrary ----------------------------
(***************************************************************************)
(* The offline action editor: the documents (domain/actionProgram.ts), the *)
(* store with its persisted library (stores/useActionProgramStore.ts) and  *)
(* the handlers of the page (pages/action-programming).                    *)
(*                                                                         *)
(* A pose is one number with the profile's limits 0 .. PoseLimit, a        *)
(* timestamp a tick of the clock, a wait a number of milliseconds.  Names  *)
(* are "ok", "padded" (valid once trimmed) or "blank".  The persist        *)
(* middleware writes the library to local storage on every store update.   *)
(***************************************************************************)
EXTENDS Integers, Sequences, FiniteSets, FiniteSetsExt, SequencesExt

CONSTANTS
  ProgramIds, WaypointIds,
  PoseLimit,        \* upper joint limit; a file may hold a larger value
  WaypointLimit,    \* MAX_ACTION_WAYPOINTS (256)
  LibraryLimit,     \* MAX_LOCAL_ACTION_PROGRAMS (64)
  ByteLimit,        \* MAX_LOCAL_ACTION_LIBRARY_BYTES (4 MiB)
  RevisionLimit,    \* largest revision the schema admits (2^31 - 1)
  WaitLimit,        \* largest wait in ms (600000)
  FirstLibraries,   \* libraries local storage may hold at the start
  FirstFiles,       \* action files the operator may pick
  Captures,         \* measured poses the gateway may report
  MaxOps,           \* operator actions of a behaviour
  MaxDamage         \* storage records damaged or replaced from outside

ASSUME ActionAssumption ==
  /\ \A n \in {PoseLimit, WaypointLimit, LibraryLimit, ByteLimit, RevisionLimit,
               WaitLimit, MaxOps, MaxDamage} : n \in Nat
  /\ Captures \subseteq 0 .. PoseLimit
  /\ "incompatible" \notin ProgramIds

VARIABLES
  programs,    \* the library: program id -> saved program
  stored,      \* what local storage holds: a library or Incompatible
  draft, draftOrigin, selectedWaypointId, previewedWaypointId,
  target,      \* the Dummy target the preview writes
  feedback,    \* fresh, profile-matched measured pose, or Unmeasured
  reading,     \* imports between the file choice and file.text()
  files,       \* files on disk: the first ones and the exported ones
  clock, ops,
  damaged      \* records of stored that were broken since it was written

actionEditor == <<draft, draftOrigin, selectedWaypointId, previewedWaypointId>>
actionEnv    == <<target, feedback, reading, files, clock>>
actionVars   == <<programs, stored, damaged, actionEditor, actionEnv, ops>>

NoId         == "none"
NoWait       == -1
Unmeasured   == -1
NoDraft      == [programId |-> NoId]
Incompatible == [i \in {"incompatible"} |-> NoDraft]

PoseSources == {"manual", "measuredCapture", "showcaseExample"}
Waypoint == [waypointId : WaypointIds, pose : Int, wait : Int, source : PoseSources,
             capturedAt : Int]
Program  == [programId : ProgramIds, name : {"ok", "padded", "blank"}, revision : Nat,
             createdAt : Int, updatedAt : Int, waypoints : Seq(Waypoint)]

-----------------------------------------------------------------------------
(* Documents.                                                              *)

clampJointTargetDeg(x) == IF x > PoseLimit THEN PoseLimit ELSE IF x < 0 THEN 0 ELSE x

\* The wait field holds quarters of a millisecond; Math.round rounds half up.
updatePostArrivalWait(quarters) ==
  LET rounded == (quarters + 2) \div 4
  IN  IF quarters <= 0 THEN NoWait
      ELSE IF rounded > WaitLimit THEN WaitLimit ELSE rounded

createActionWaypointV1(id, pose, source, now) ==
  [waypointId |-> id, pose |-> pose, wait |-> NoWait, source |-> source,
   capturedAt |-> IF source = "measuredCapture" THEN now ELSE NoWait]

createActionProgramV1(id, waypoints, now) ==
  [programId |-> id, name |-> "ok", revision |-> 1,
   createdAt |-> now, updatedAt |-> now, waypoints |-> waypoints]

\* The schema of one waypoint and the profile's limits.
ValidWaypoint(w) ==
  /\ w.pose \in 0 .. PoseLimit
  /\ w.wait = NoWait \/ w.wait \in 1 .. WaitLimit
  /\ (w.source = "measuredCapture") <=> (w.capturedAt # NoWait)

UniqueWaypointIds(p) ==
  Cardinality({w.waypointId : w \in ToSet(p.waypoints)}) = Len(p.waypoints)

validateActionProgramV1(p) ==
  /\ p.name # "blank"
  /\ p.revision \in 1 .. RevisionLimit
  /\ p.updatedAt >= p.createdAt
  /\ Len(p.waypoints) <= WaypointLimit
  /\ \A w \in ToSet(p.waypoints) : ValidWaypoint(w)
  /\ UniqueWaypointIds(p)

\* Parsing returns the document with its name trimmed.
Parsed(p) == [p EXCEPT !.name = "ok"]

-----------------------------------------------------------------------------
(* The store.                                                              *)

isActionProgramDirty(d, library) ==
  /\ d # NoDraft
  /\ d.programId \in DOMAIN library => d # library[d.programId]

\* A document's bytes grow with its waypoints: one for it and one for each.
BytesOf(library) ==
  UNION {{<<id, i>> : i \in 0 .. Len(library[id].waypoints)} : id \in DOMAIN library}
SizeBytes(library) == Cardinality(BytesOf(library))

FitsLibrary(library) ==
  /\ Cardinality(DOMAIN library) <= LibraryLimit
  /\ SizeBytes(library) <= ByteLimit

WithProgram(library, p) ==
  [id \in DOMAIN library \union {p.programId} |-> IF id = p.programId THEN p ELSE library[id]]

\* Storage starts as an earlier visit left it, which wrote only libraries that
\* fit, perhaps with records broken since.
ASSUME StorageAssumption ==
  /\ \A library \in FirstLibraries :
       /\ IsFiniteSet(DOMAIN library) /\ DOMAIN library \subseteq ProgramIds
       /\ \A id \in DOMAIN library : library[id] \in Program
       /\ FitsLibrary(library)
  /\ FirstFiles \subseteq Program

ValidKeys(disk) ==
  {k \in DOMAIN disk : disk[k].programId = k /\ validateActionProgramV1(disk[k])}

\* The place of each valid record in a list sorted newest first.
NewestFirst(disk) ==
  CHOOSE place \in [ValidKeys(disk) -> 1 .. Cardinality(ValidKeys(disk))] :
    \A j, k \in ValidKeys(disk) :
      /\ j # k => place[j] # place[k]
      /\ disk[j].updatedAt > disk[k].updatedAt => place[j] < place[k]

\* Hydration keeps the valid records that fit beside the newer ones it kept.
KeptKeys(disk) ==
  LET place == NewestFirst(disk)
  IN  CHOOSE kept \in SUBSET ValidKeys(disk) :
        \A k \in ValidKeys(disk) :
          k \in kept <=> FitsLibrary(Restrict(disk, {j \in kept : place[j] < place[k]} \union {k}))

restorePersistedActionPrograms(disk) ==
  IF disk = Incompatible THEN [id \in {} |-> NoDraft]
  ELSE [id \in KeptKeys(disk) |-> Parsed(disk[id])]

FirstWaypoint(p) == IF p.waypoints = <<>> THEN NoId ELSE Head(p.waypoints).waypointId

setDraft(p, origin) ==
  /\ draft' = p
  /\ draftOrigin' = origin
  /\ selectedWaypointId' = FirstWaypoint(p)
  /\ previewedWaypointId' = NoId

discardDraft ==
  /\ draft' = NoDraft
  /\ draftOrigin' = NoId
  /\ selectedWaypointId' = NoId
  /\ previewedWaypointId' = NoId

DraftDirty == isActionProgramDirty(draft, programs)

HasDraft == draft # NoDraft

PersistLibrary(library) == stored' = library /\ damaged' = {}

\* Every store update writes the library out; ops bounds the behaviour.
StoreLibrary(library) ==
  /\ ops < MaxOps /\ ops' = ops + 1
  /\ programs' = library
  /\ PersistLibrary(library)

FreshProgram(id) ==
  /\ id \notin DOMAIN programs
  /\ HasDraft => draft.programId # id
  /\ \A f \in files \union reading : f.programId # id

FreshWaypoint(id) ==
  HasDraft => \A w \in ToSet(draft.waypoints) : w.waypointId # id

IndexOf(id) == CHOOSE i \in DOMAIN draft.waypoints : draft.waypoints[i].waypointId = id

HasWaypoint(id) == \E i \in DOMAIN draft.waypoints : draft.waypoints[i].waypointId = id

-----------------------------------------------------------------------------
(* The page.  An operator who is asked about an unsaved draft may accept;  *)
(* a refusal leaves everything as it was.                                  *)

createProgram(id) ==
  /\ FreshProgram(id)
  /\ setDraft(createActionProgramV1(id, <<>>, clock), "new")
  /\ StoreLibrary(programs)
  /\ UNCHANGED actionEnv

createShowcaseExample(id, w) ==
  /\ ~HasDraft
  /\ FreshProgram(id)
  /\ setDraft(createActionProgramV1(id,
       <<createActionWaypointV1(w, 0, "showcaseExample", clock)>>, clock), "showcaseExample")
  /\ StoreLibrary(programs)
  /\ UNCHANGED actionEnv

\* The copy replaces the draft without a question; its UUIDs are new.
duplicateProgram(id, ids) ==
  /\ HasDraft
  /\ FreshProgram(id)
  /\ Len(ids) = Len(draft.waypoints)
  /\ LET copies == [i \in DOMAIN ids |-> [draft.waypoints[i] EXCEPT !.waypointId = ids[i]]]
     IN  setDraft([draft EXCEPT !.programId = id, !.revision = 1, !.createdAt = clock,
                                !.updatedAt = clock, !.waypoints = copies], "duplicate")
  /\ StoreLibrary(programs)
  /\ UNCHANGED actionEnv

openSavedProgram(id) ==
  /\ id \in DOMAIN programs
  /\ setDraft(programs[id], "saved")
  /\ StoreLibrary(programs)
  /\ UNCHANGED actionEnv

\* Mutant: a save keeps the revision it found.
SavedAsIs == [Parsed(draft) EXCEPT !.updatedAt = clock]

\* What saving would put into the library.
SavedProgram ==
  LET old == programs[draft.programId]
  IN  [Parsed(draft) EXCEPT
         !.revision = IF draft.programId \in DOMAIN programs THEN old.revision + 1 ELSE @,
         !.updatedAt = clock]

\* An imported draft may not replace a saved program unasked.
Conflict == draftOrigin = "imported" /\ draft.programId \in DOMAIN programs

\* Mutant: only the draft is validated, not the revision it is saved as.
SaveableAsDraft ==
  /\ validateActionProgramV1(draft)
  /\ FitsLibrary(WithProgram(programs, SavedProgram))

Saveable ==
  /\ validateActionProgramV1(draft)
  /\ validateActionProgramV1(SavedProgram)
  /\ FitsLibrary(WithProgram(programs, SavedProgram))

\* Conflicts save only once confirmed; an invalid or clean draft is left alone.
saveDraft(overwriteConflict) ==
  /\ HasDraft /\ DraftDirty
  /\ Conflict => overwriteConflict
  /\ Saveable
  /\ draft' = SavedProgram
  /\ draftOrigin' = "saved"
  /\ StoreLibrary(WithProgram(programs, SavedProgram))
  /\ UNCHANGED <<selectedWaypointId, previewedWaypointId, actionEnv>>

\* A document with no unsaved edit closes with its record.
deleteSavedProgram(id) ==
  /\ id \in DOMAIN programs
  /\ IF HasDraft /\ draft.programId = id /\ ~DraftDirty
       THEN discardDraft
       ELSE UNCHANGED actionEditor
  /\ StoreLibrary([k \in DOMAIN programs \ {id} |-> programs[k]])
  /\ UNCHANGED actionEnv

\* The question is asked when the file is picked, the file read later.
importProgram(f) ==
  /\ f \in files
  /\ ops < MaxOps /\ ops' = ops + 1
  /\ reading' = reading \union {f}
  /\ UNCHANGED <<programs, stored, actionEditor, target, feedback, files, clock, damaged>>

ImportRead(f) ==
  /\ f \in reading
  /\ reading' = reading \ {f}
  /\ IF validateActionProgramV1(f)
       THEN setDraft(Parsed(f), "imported") /\ PersistLibrary(programs)
       ELSE UNCHANGED <<actionEditor, stored, damaged>>
  /\ UNCHANGED <<programs, target, feedback, files, clock, ops>>

\* serializeActionProgramV1 refuses a draft that does not validate.
exportProgram ==
  /\ HasDraft
  /\ validateActionProgramV1(draft)
  /\ ops < MaxOps /\ ops' = ops + 1
  /\ files' = files \union {Parsed(draft)}
  /\ UNCHANGED <<programs, stored, actionEditor, target, feedback, reading, clock, damaged>>

-----------------------------------------------------------------------------
(* Waypoints.                                                              *)

EditDraft(waypoints) ==
  /\ draft' = [draft EXCEPT !.waypoints = waypoints]
  /\ StoreLibrary(programs)
  /\ UNCHANGED <<draftOrigin, actionEnv>>

\* A capture needs a connected, valid, profile-matched measured frame.
captureAvailable == feedback # Unmeasured

PoseFor(source) ==
  CASE source = "measuredCapture" -> feedback
    [] source = "showcaseExample" -> 0
    [] source = "manual"          -> target

addWaypoint(id, source) ==
  /\ HasDraft
  /\ FreshWaypoint(id)
  /\ source = "measuredCapture" => captureAvailable
  /\ Len(draft.waypoints) < WaypointLimit
  /\ EditDraft(Append(draft.waypoints, createActionWaypointV1(id, PoseFor(source), source, clock)))
  /\ selectedWaypointId' = id
  /\ UNCHANGED previewedWaypointId

UpdateSelected(w) ==
  /\ EditDraft([draft.waypoints EXCEPT ![IndexOf(selectedWaypointId)] = w])
  /\ UNCHANGED <<selectedWaypointId, previewedWaypointId>>

SelectedWaypoint == draft.waypoints[IndexOf(selectedWaypointId)]

HasSelected == HasDraft /\ HasWaypoint(selectedWaypointId)

\* The inspector edits the pose and the wait of the selected waypoint.
EditPose(x) ==
  /\ HasSelected
  /\ UpdateSelected([SelectedWaypoint EXCEPT !.pose = clampJointTargetDeg(x)])

EditWait(quarters) ==
  /\ HasSelected
  /\ UpdateSelected([SelectedWaypoint EXCEPT !.wait = updatePostArrivalWait(quarters)])

updateDraftMeta(name) ==
  /\ HasDraft
  /\ draft' = [draft EXCEPT !.name = name]
  /\ StoreLibrary(programs)
  /\ UNCHANGED <<draftOrigin, selectedWaypointId, previewedWaypointId, actionEnv>>

\* The neighbour takes over the selection of a removed waypoint.
removeWaypoint(id) ==
  /\ HasDraft /\ HasWaypoint(id)
  /\ LET at   == IndexOf(id)
         rest == RemoveAt(draft.waypoints, at)
         next == IF at <= Len(rest) THEN at ELSE Len(rest)
     IN  /\ EditDraft(rest)
         /\ selectedWaypointId' = IF selectedWaypointId # id THEN selectedWaypointId
                                  ELSE IF rest = <<>> THEN NoId ELSE rest[next].waypointId
  /\ previewedWaypointId' = IF previewedWaypointId = id THEN NoId ELSE previewedWaypointId

moveWaypoint(id, direction) ==
  /\ HasDraft /\ HasWaypoint(id)
  /\ LET at == IndexOf(id)
         to == at + direction
     IN  /\ to \in DOMAIN draft.waypoints
         /\ EditDraft([draft.waypoints EXCEPT ![at] = draft.waypoints[to],
                                         ![to] = draft.waypoints[at]])
  /\ UNCHANGED <<selectedWaypointId, previewedWaypointId>>

selectWaypoint(id) ==
  /\ HasDraft /\ HasWaypoint(id)
  /\ selectedWaypointId' = id
  /\ StoreLibrary(programs)
  /\ UNCHANGED <<draft, draftOrigin, previewedWaypointId, actionEnv>>

previewWaypoint(id) ==
  /\ HasDraft /\ HasWaypoint(id)
  /\ target' = clampJointTargetDeg(draft.waypoints[IndexOf(id)].pose)
  /\ previewedWaypointId' = id
  /\ StoreLibrary(programs)
  /\ UNCHANGED <<draft, draftOrigin, selectedWaypointId, feedback, reading, files, clock>>

-----------------------------------------------------------------------------
(* The page is loaded again, the gateway reports, storage is changed from  *)
(* outside: a record broken, or the library of another version.            *)

ReloadPage ==
  /\ stored' = stored
  /\ programs' = restorePersistedActionPrograms(stored)
  /\ discardDraft
  /\ reading' = {}
  /\ damaged' = {}
  /\ UNCHANGED <<target, feedback, files, clock, ops>>

FeedbackChanges ==
  /\ feedback' \in Captures \union {Unmeasured}
  /\ UNCHANGED <<programs, stored, actionEditor, target, reading, files, clock, damaged, ops>>

\* Timestamps move on with the operator's actions.
ActionClock ==
  /\ clock < ops
  /\ clock' = clock + 1
  /\ UNCHANGED <<programs, stored, actionEditor, target, feedback, reading, files, damaged, ops>>

DamageStorage(id) ==
  /\ id \in DOMAIN stored \ damaged
  /\ Cardinality(damaged) < MaxDamage
  /\ stored' = [stored EXCEPT ![id] = [@ EXCEPT !.revision = 0]]
  /\ damaged' = damaged \union {id}
  /\ UNCHANGED <<programs, actionEditor, target, feedback, reading, files, clock, ops>>

-----------------------------------------------------------------------------
ActionInit ==
  /\ stored \in FirstLibraries \union {Incompatible}
  /\ programs = restorePersistedActionPrograms(stored)
  /\ draft = NoDraft
  /\ draftOrigin = NoId
  /\ selectedWaypointId = NoId
  /\ previewedWaypointId = NoId
  /\ target = 0
  /\ feedback = Unmeasured
  /\ reading = {}
  /\ files = FirstFiles
  /\ clock = 1
  /\ ops = 0
  /\ damaged = {}

Waypoints ==
  \/ \E id \in WaypointIds :
       \/ \E s \in PoseSources : addWaypoint(id, s)
       \/ removeWaypoint(id)
       \/ \E d \in {-1, 1} : moveWaypoint(id, d)
       \/ selectWaypoint(id)
       \/ previewWaypoint(id)
  \/ \E x \in {-1, 0, PoseLimit + 1} : EditPose(x)
  \/ \E q \in {0, 1, 4} : EditWait(q)

ActionNext ==
  \/ \E id \in ProgramIds :
       \/ createProgram(id)
       \/ \E w \in WaypointIds : createShowcaseExample(id, w)
       \/ \E ids \in SeqOf(WaypointIds, WaypointLimit) :
            Cardinality(ToSet(ids)) = Len(ids) /\ duplicateProgram(id, ids)
       \/ openSavedProgram(id)
       \/ deleteSavedProgram(id)
       \/ DamageStorage(id)
  \/ \E confirmed \in BOOLEAN : saveDraft(confirmed)
  \/ \E f \in files : importProgram(f)
  \/ \E f \in reading : ImportRead(f)
  \/ exportProgram
  \/ \E name \in {"padded", "blank"} : updateDraftMeta(name)
  \/ Waypoints
  \/ ReloadPage
  \/ FeedbackChanges
  \/ ActionClock

ActionSpec == ActionInit /\ [][ActionNext]_actionVars

-----------------------------------------------------------------------------
(* Properties.                                                             *)

(***************************************************************************)
(* A page reload brings back exactly the library as it was saved, except   *)
(* for the records something else broke meanwhile: whatever saving let in, *)
(* hydration's validation and its capacity rule let in as well.            *)
(***************************************************************************)
ReloadKeepsLibrary ==
  LET back == restorePersistedActionPrograms(stored)
  IN  \A id \in DOMAIN programs \ damaged : id \in DOMAIN back /\ back[id] = programs[id]

(***************************************************************************)
(* A revision number identifies what was saved under it: a record that     *)
(* changes gets a larger revision, so an import never replaces a newer     *)
(* revision by an older one.                                               *)
(***************************************************************************)
RevisionsGrow ==
  [][\A id \in DOMAIN programs \intersect DOMAIN programs' :
       programs'[id] # programs[id] => programs'[id].revision > programs[id].revision]_actionVars
=============================================================================
