-------------------------- MODULE PackageInspection --------------------------
(***************************************************************************)
(* Inspecting a profile package: the validator of                          *)
(* domain/profilePackage.ts with the manifest rules of                     *)
(* domain/robotProfile.ts, and the device page's overlapping inspections   *)
(* (DeviceModelPage.tsx, inspectPackage), each with its AbortController.   *)
(*                                                                         *)
(* A path is a flag for its root and a sequence of segments; the names of  *)
(* segments that Windows or the validator forbids are one "reserved".      *)
(* Contents are what the validator looks at.  An entry declares its        *)
(* unpacked size and has an actual one, which the validator measures.      *)
(* Reading a file and unzipping are external: they end, or fail.           *)
(***************************************************************************)
EXTENDS Integers, Sequences, SequencesExt, FiniteSets, Selections

CONSTANTS
  PackageFiles,     \* files the operator may choose
  LowerCase,        \* lower case of the segment names
  MaxInspections,   \* bound: files chosen
  ArchiveLimit,     \* PROFILE_PACKAGE_LIMITS: bytes of the archive
  FileLimit,        \* ... files in it
  UnpackedLimit,    \* ... bytes of all files
  ManifestLimit,    \* ... bytes of manifest.json
  UrdfLimit,        \* ... bytes of the URDF
  ErrorLimit        \* ... errors that are listed

ASSUME PackageAssumption ==
  MaxInspections \in Nat /\ {ArchiveLimit, FileLimit, UnpackedLimit, ManifestLimit, UrdfLimit,
                            ErrorLimit} \subseteq Nat

\* The parts of a file the validator looks at; joints and groups are numbers.
Segments      == DOMAIN LowerCase
ArchivePath   == [absolute : BOOLEAN, segments : Seq(Segments \cup {"", "."})]
\* slash: the name in the archive ends with '/', which a backslash is not.
ArchiveEntry  == [raw : ArchivePath, slash : BOOLEAN, size : Int, actual : Nat,
                  allowed : BOOLEAN]
ManifestJoint == [jointId : Nat, urdfJointName : Nat, protocolIndex : Nat, lower : Int, upper : Int]
RobotManifest == [wellFormed : BOOLEAN, dof : Nat, joints : Seq(ManifestJoint),
                  groups : Seq(SUBSET Nat), urdfPath : Seq(Segments)]
UrdfModel     == [xml : BOOLEAN, joints : SUBSET Nat, meshes : SUBSET ArchivePath]
ProfilePackage == [bytes : Nat, zip : BOOLEAN, entries : Seq(ArchiveEntry),
                   profile : RobotManifest, urdf : UrdfModel]

ASSUME PackageFilesAssumption ==
  /\ LowerCase \in [Segments -> STRING]
  /\ \A name \in DOMAIN PackageFiles :
       PackageFiles[name] \in ProfilePackage /\ IsFiniteSet(PackageFiles[name].urdf.meshes)

VARIABLES
  inspections,    \* per inspection: [file, phase, aborted]
  chosen,         \* number of the last file chosen
  controller,     \* the inspection the page is waiting for, or 0
  packageResult,  \* what the page shows: [of, valid, errors], of = 0 for nothing
  validating,     \* the page shows a running inspection
  deviceOpen      \* the page is mounted

packageVars == <<inspections, chosen, controller, packageResult, validating, deviceOpen>>

NoPackageResult == [of |-> 0, valid |-> FALSE, errors |-> 0]

-----------------------------------------------------------------------------
(* Paths.                                                                  *)

Proper(segments) == Selected(segments, {k \in DOMAIN segments : segments[k] \notin {"", "."}})
Lower(path) == [k \in DOMAIN path |-> LowerCase[path[k]]]

\* The empty sequence stands for null.
normalizeArchivePath(raw) ==
  IF raw.absolute \/ {"..", "reserved"} \cap ToSet(raw.segments) # {}
    THEN <<>> ELSE Proper(raw.segments)

\* Mutant: ".." at the root of the package stays at the root.
DescendClamped(stack, s) ==
  IF s = ".." THEN [stack EXCEPT !.path = IF @ = <<>> THEN @ ELSE Front(@)]
  ELSE [stack EXCEPT !.path = Append(@, s)]

\* One segment of a reference: ".." leaves a directory, or the package.
Descend(stack, s) ==
  IF ~stack.inside THEN stack
  ELSE IF s # ".." THEN [stack EXCEPT !.path = Append(@, s)]
  ELSE IF stack.path = <<>> THEN [stack EXCEPT !.inside = FALSE]
  ELSE [stack EXCEPT !.path = Front(@)]

resolveRelativePath(base, reference) ==
  LET segments == Proper(reference)
      stack[n \in 0 .. Len(segments)] ==
        IF n = 0 THEN [path |-> base, inside |-> TRUE] ELSE Descend(stack[n - 1], segments[n])
  IN  stack[Len(segments)]

-----------------------------------------------------------------------------
(* The manifest.                                                           *)

Distinct(items, Key(_)) ==
  \A i, j \in DOMAIN items : i # j => Key(items[i]) # Key(items[j])

GroupsPartition(profile) ==
  LET ids == {profile.joints[k].jointId : k \in DOMAIN profile.joints}
      groups == profile.groups
  IN  /\ UNION ToSet(groups) = ids
      /\ \A i, j \in DOMAIN groups : i # j => groups[i] \cap groups[j] = {}

\* robotProfileSchema: the checks across fields.  No groups are <<>>.
parseRobotProfile(profile) ==
  /\ profile.wellFormed
  /\ Len(profile.joints) = profile.dof
  /\ \A k \in DOMAIN profile.joints : profile.joints[k].lower < profile.joints[k].upper
  /\ Distinct(profile.joints, LAMBDA j : j.jointId)
  /\ Distinct(profile.joints, LAMBDA j : j.urdfJointName)
  /\ Distinct(profile.joints, LAMBDA j : j.protocolIndex)
  /\ profile.groups # <<>> => GroupsPartition(profile)

-----------------------------------------------------------------------------
(* The archive.                                                            *)

NoEntries == [count |-> 0, seen |-> {}, bytes |-> 0, hard |-> FALSE, errors |-> 0, entries |-> {}]

IsDirectory(e) == e.slash
TypeErrors(e) == IF e.allowed THEN 0 ELSE 1

\* An entry whose path and size are acceptable is registered.
Register(acc, e, path) ==
  LET bytes == acc.bytes + e.size
      over == bytes > UnpackedLimit
      large == path = <<"manifest.json">> /\ e.size > ManifestLimit
  IN  [count |-> acc.count + 1, seen |-> acc.seen \cup {Lower(path)}, bytes |-> bytes,
       hard |-> acc.hard \/ over \/ large,
       errors |-> acc.errors + TypeErrors(e) + (IF large THEN 1 ELSE 0)
                    + (IF over /\ acc.bytes <= UnpackedLimit THEN 1 ELSE 0),
       entries |-> acc.entries \cup {[path |-> path, size |-> e.size, actual |-> e.actual]}]

\* The filter given to unzip, which sees the entries in order.
ScanEntry(acc, e) ==
  LET path == normalizeArchivePath(e.raw)
  IN  IF IsDirectory(e) THEN acc
      ELSE IF acc.count >= FileLimit THEN
             [acc EXCEPT !.count = @ + 1, !.hard = TRUE,
                         !.errors = IF acc.count = FileLimit THEN @ + 1 ELSE @]
      ELSE IF path = <<>> THEN [acc EXCEPT !.count = @ + 1, !.errors = @ + 1]
      ELSE IF Lower(path) \in acc.seen THEN
             [acc EXCEPT !.count = @ + 1, !.errors = @ + TypeErrors(e) + 1]
      ELSE IF e.size < 0 THEN
             [acc EXCEPT !.count = @ + 1, !.seen = @ \cup {Lower(path)}, !.hard = TRUE,
                         !.errors = @ + TypeErrors(e) + 1]
      ELSE Register(acc, e, path)

Scan(file) ==
  LET scanned[n \in 0 .. Len(file.entries)] ==
        IF n = 0 THEN NoEntries ELSE ScanEntry(scanned[n - 1], file.entries[n])
  IN  scanned[Len(file.entries)]

EntriesAt(scan, path) == {e \in scan.entries : e.path = path}

\* validateUrdf: joints that are missing and references that lead nowhere.
BadReference(file, scan, reference) ==
  LET resolved == resolveRelativePath(Front(file.profile.urdfPath), reference.segments)
  IN  reference.absolute \/ ~resolved.inside \/ EntriesAt(scan, resolved.path) = {}

validateUrdf(file, scan) ==
  IF ~file.urdf.xml THEN 1
  ELSE Cardinality({k \in DOMAIN file.profile.joints :
                      file.profile.joints[k].urdfJointName \notin file.urdf.joints})
       + Cardinality({r \in file.urdf.meshes : BadReference(file, scan, r)})

\* The errors found up to the manifest, and whether the URDF is looked at.
ManifestStage(file) ==
  LET scan == Scan(file)
      manifest == EntriesAt(scan, <<"manifest.json">>)
      parsed == parseRobotProfile(file.profile)
      urdf == EntriesAt(scan, file.profile.urdfPath)
  IN  IF ~file.zip THEN [errors |-> 1, more |-> FALSE]
      ELSE IF manifest = {} THEN [errors |-> scan.errors + 1, more |-> FALSE]
      ELSE IF \E e \in manifest : e.size > ManifestLimit
        THEN [errors |-> scan.errors, more |-> FALSE]
      ELSE IF \E e \in manifest : e.actual > ManifestLimit
        THEN [errors |-> scan.errors + 1, more |-> FALSE]
      ELSE IF ~parsed \/ scan.hard
        THEN [errors |-> scan.errors + (IF parsed THEN 0 ELSE 1), more |-> FALSE]
      ELSE IF urdf = {} \/ \E e \in urdf : e.size > UrdfLimit
        THEN [errors |-> scan.errors + 1, more |-> FALSE]
      ELSE [errors |-> scan.errors, more |-> TRUE]

\* The errors found with the URDF: it is measured again once it is unpacked.
UrdfStage(file) ==
  LET scan == Scan(file)
      large == \E e \in EntriesAt(scan, file.profile.urdfPath) : e.actual > UrdfLimit
  IN  ManifestStage(file).errors + (IF large THEN 1 ELSE validateUrdf(file, scan))

\* What the two stages find in each file.
ManifestStages == [name \in DOMAIN PackageFiles |-> ManifestStage(PackageFiles[name])]
UrdfStages == [name \in DOMAIN PackageFiles |->
                 IF ManifestStages[name].more THEN UrdfStage(PackageFiles[name]) ELSE 1]

\* createErrorCollector: the rest is one line.
Listed(n) == IF n > ErrorLimit THEN ErrorLimit + 1 ELSE n

-----------------------------------------------------------------------------
(* The page.                                                               *)

PackageInit ==
  /\ inspections = [i \in 1 .. MaxInspections |-> [file |-> 0, phase |-> "idle", aborted |-> FALSE]]
  /\ chosen = 0 /\ controller = 0 /\ packageResult = NoPackageResult
  /\ validating = FALSE /\ deviceOpen = TRUE

\* abort(): an unzip in progress rejects at once, a read when it ends.
Aborted(ins) ==
  [ins EXCEPT !.aborted = TRUE,
              !.phase = IF @ \in {"manifest", "urdf"} THEN "over" ELSE @]

AbortCurrent ==
  IF controller = 0 THEN inspections
  ELSE [inspections EXCEPT ![controller] = Aborted(@)]

\* A file is chosen; the inspection of the last one is called off.
inspectPackage(name) ==
  /\ deviceOpen /\ chosen < MaxInspections
  /\ chosen' = chosen + 1
  /\ inspections' = [AbortCurrent EXCEPT ![chosen'] =
        [file |-> name, phase |-> "reading", aborted |-> FALSE]]
  /\ controller' = chosen'
  /\ packageResult' = NoPackageResult /\ validating' = TRUE
  /\ UNCHANGED deviceOpen

\* Mutant: whatever inspection ends shows its result.
ShowsAny(i) == TRUE

\* The result is shown when the page still waits for this inspection.
Shows(i) == controller = i /\ ~inspections[i].aborted

\* The promise settles: result and finally block.
SettleInspection(i, errors) ==
  /\ inspections' = [inspections EXCEPT ![i].phase = "over"]
  /\ packageResult' = IF Shows(i) THEN [of |-> i, valid |-> errors = 0, errors |-> Listed(errors)]
                      ELSE packageResult
  /\ IF controller = i THEN controller' = 0 /\ validating' = FALSE
     ELSE UNCHANGED <<controller, validating>>
  /\ UNCHANGED <<chosen, deviceOpen>>

\* The bytes are read, or cannot be; a large file is refused unread.
FileRead(i, readable) ==
  LET file == PackageFiles[inspections[i].file]
  IN  /\ inspections[i].phase = "reading"
      /\ IF inspections[i].aborted \/ ~readable \/ file.bytes > ArchiveLimit
           THEN SettleInspection(i, 1)
           ELSE /\ inspections' = [inspections EXCEPT ![i].phase = "manifest"]
                /\ UNCHANGED <<chosen, controller, packageResult, validating, deviceOpen>>

\* The archive's entries were filtered and the manifest extracted, or that failed.
ManifestExtracted(i, extracted) ==
  LET stage == ManifestStages[inspections[i].file]
  IN  /\ inspections[i].phase = "manifest"
      /\ IF ~extracted THEN SettleInspection(i, 1)
         ELSE IF stage.more
           THEN /\ inspections' = [inspections EXCEPT ![i].phase = "urdf"]
                /\ UNCHANGED <<chosen, controller, packageResult, validating, deviceOpen>>
           ELSE SettleInspection(i, stage.errors)

\* The URDF was extracted in a second pass over the archive, or that failed.
UrdfExtracted(i, extracted) ==
  LET name == inspections[i].file
  IN  /\ inspections[i].phase = "urdf"
      /\ SettleInspection(i, IF extracted THEN UrdfStages[name] ELSE ManifestStages[name].errors + 1)

\* The page is left: its cleanup aborts.
LeaveDevicePage ==
  /\ deviceOpen /\ deviceOpen' = FALSE
  /\ inspections' = AbortCurrent
  /\ UNCHANGED <<chosen, controller, packageResult, validating>>

PackageNext ==
  \/ \E name \in DOMAIN PackageFiles : inspectPackage(name)
  \/ \E i \in 1 .. MaxInspections :
       \/ \E readable \in BOOLEAN : FileRead(i, readable)
       \/ \E extracted \in BOOLEAN : ManifestExtracted(i, extracted) \/ UrdfExtracted(i, extracted)
  \/ LeaveDevicePage

PackageSpec == PackageInit /\ [][PackageNext]_packageVars

-----------------------------------------------------------------------------
(* Properties.                                                             *)

\* What a reference means, without a stack: a name stays when no later ".."
\* leaves its directory, and no prefix leaves the package.
Depth(path, n) == Cardinality({k \in 1 .. n : path[k] # ".."}) - Cardinality({k \in 1 .. n : path[k] = ".."})
Denotes(path, target) ==
  /\ \A n \in DOMAIN path : Depth(path, n) >= 0
  /\ LET Stays(k) == path[k] # ".." /\ \A n \in k .. Len(path) : Depth(path, n) >= Depth(path, k)
         kept == {k \in DOMAIN path : Stays(k)}
     IN  /\ Cardinality(kept) = Len(target)
         /\ \A k \in kept : path[k] = target[Cardinality({i \in kept : i <= k})]

FilesOf(file) == {k \in DOMAIN file.entries : ~IsDirectory(file.entries[k])}
SizeOf(file) ==
  LET sum[n \in 0 .. Len(file.entries)] ==
        IF n = 0 THEN 0
        ELSE sum[n - 1] + (IF n \in FilesOf(file) THEN file.entries[n].size ELSE 0)
  IN  sum[Len(file.entries)]

EntryPath(file, k) == Proper(file.entries[k].raw.segments)
EntriesNamed(file, path) == {k \in FilesOf(file) : EntryPath(file, k) = path}

\* What a package must be to be used: its archive stays within the limits, and
\* every file in it has a path of its own inside the package.
ArchiveSound(file) ==
  /\ file.zip /\ file.bytes <= ArchiveLimit
  /\ Cardinality(FilesOf(file)) <= FileLimit
  /\ \A k \in FilesOf(file) :
       LET path == EntryPath(file, k)
       IN  /\ file.entries[k].allowed /\ file.entries[k].size >= 0
           /\ ~file.entries[k].raw.absolute /\ path # <<>>
           /\ \A n \in DOMAIN path : path[n] \notin {"..", "reserved"}
           /\ \A other \in FilesOf(file) \ {k} : Lower(EntryPath(file, other)) # Lower(path)
  /\ SizeOf(file) <= UnpackedLimit

\* Every joint has a URDF joint, a protocol index and a group of its own.
JointsSound(file) ==
  LET joints == file.profile.joints
      groups == file.profile.groups
  IN  /\ Len(joints) = file.profile.dof
      /\ Cardinality({joints[k].urdfJointName : k \in DOMAIN joints} \cap file.urdf.joints)
           = file.profile.dof
      /\ Cardinality({joints[k].protocolIndex : k \in DOMAIN joints}) = file.profile.dof
      /\ Cardinality({joints[k].jointId : k \in DOMAIN joints}) = file.profile.dof
      /\ \A k \in DOMAIN joints : joints[k].lower < joints[k].upper
      /\ groups # <<>> =>
           /\ \A k \in DOMAIN joints :
                Cardinality({g \in DOMAIN groups : joints[k].jointId \in groups[g]}) = 1
           /\ \A g \in DOMAIN groups : \A id \in groups[g] :
                \E k \in DOMAIN joints : joints[k].jointId = id

\* Every mesh of the URDF is a file of the package.
MeshesSound(file) ==
  \A r \in file.urdf.meshes :
    /\ ~r.absolute
    /\ \E k \in FilesOf(file) :
         Denotes(Front(file.profile.urdfPath) \o Proper(r.segments), EntryPath(file, k))

\* The file that a path names has, and says it has, no more bytes than that.
FileWithin(file, path, limit) ==
  \E k \in EntriesNamed(file, path) : file.entries[k].size <= limit /\ file.entries[k].actual <= limit

PackageSound(file) ==
  /\ ArchiveSound(file)
  /\ FileWithin(file, <<"manifest.json">>, ManifestLimit) /\ file.profile.wellFormed
  /\ FileWithin(file, file.profile.urdfPath, UrdfLimit)
  /\ file.urdf.xml /\ JointsSound(file) /\ MeshesSound(file)

SoundFiles == {name \in DOMAIN PackageFiles : PackageSound(PackageFiles[name])}

\* The verdict on a package that could be read is right whatever the order of
\* its entries: it is accepted exactly when it is sound.
PackageVerdict ==
  \A i \in 1 .. MaxInspections :
    LET name == inspections[i].file
        errors == IF ManifestStages[name].more THEN UrdfStages[name] ELSE ManifestStages[name].errors
    IN  /\ inspections[i].phase \in {"manifest", "urdf"} => ((errors = 0) <=> name \in SoundFiles)
        /\ packageResult.of = i /\ packageResult.valid => name \in SoundFiles

\* However inspections overlap, are called off and fail, the result shown is
\* about the file chosen last and the page waits only for that one.
PackageResultCurrent ==
  /\ packageResult.of \in {0, chosen}
  /\ deviceOpen => (validating <=> chosen # 0 /\ inspections[chosen].phase # "over")
  /\ packageResult.of = 0 => (~deviceOpen \/ validating \/ chosen = 0)
=============================================================================
