---------------------------- MODULE PackageProofs ----------------------------
(***************************************************************************)
(* Proofs about PackageInspection, for any files, limits and number of     *)
(* inspections: the page shows the result of the file chosen last, and a   *)
(* package is accepted exactly when it is sound.  The validator reads the  *)
(* entries once in their order, resolves references on a stack and counts  *)
(* errors; each part is shown to decide what the package must be.          *)
(***************************************************************************)
EXTENDS PackageInspection, SetInduction

-----------------------------------------------------------------------------
(* The page waits for one inspection                                       *)

\* The page waits for the inspection of the file chosen last or for none, and
\* the controller it holds is dropped only with that inspection.
PackageIInv ==
  /\ chosen \in 0 .. MaxInspections /\ controller \in {0, chosen}
  /\ DOMAIN inspections = 1 .. MaxInspections
  /\ \A i \in 1 .. MaxInspections : {"file", "phase", "aborted"} = DOMAIN inspections[i]
  /\ validating <=> controller # 0
  /\ (controller # 0 /\ deviceOpen)
       => inspections[controller].phase # "over" /\ ~inspections[controller].aborted
  /\ controller = 0 => chosen = 0 \/ inspections[chosen].phase = "over"
  /\ "of" \in DOMAIN packageResult /\ packageResult.of \in {0, chosen}
  /\ packageResult.of = 0 => ~deviceOpen \/ validating \/ chosen = 0

\* An inspection ends: by an error, a refusal or the validator's verdict.
LEMMA SettleKeeps ==
  ASSUME PackageIInv, NEW i \in 1 .. MaxInspections, NEW errors, SettleInspection(i, errors),
         inspections[i].phase # "over"
  PROVE  PackageIInv'
<1> USE PackageAssumption
<1>1. /\ DOMAIN inspections' = 1 .. MaxInspections
      /\ \A k \in 1 .. MaxInspections : DOMAIN inspections'[k] = DOMAIN inspections[k]
      /\ inspections'[i].phase = "over"
      /\ \A k \in (1 .. MaxInspections) \ {i} : inspections'[k] = inspections[k]
    BY DEF PackageIInv, SettleInspection
<1>2. chosen' = chosen /\ deviceOpen' = deviceOpen /\ chosen \in Nat
    BY DEF PackageIInv, SettleInspection
<1>3. CASE controller = i
    <2>1. controller' = 0 /\ validating' = FALSE /\ i = chosen /\ i # 0
        BY <1>3 DEF PackageIInv, SettleInspection
    <2>2. deviceOpen => packageResult'.of = i
        BY <1>3, <2>1 DEF PackageIInv, SettleInspection, Shows
    <2>3. "of" \in DOMAIN packageResult' /\ packageResult'.of \in {0, chosen}
        BY <2>1 DEF PackageIInv, SettleInspection
    <2> QED
        BY <1>1, <1>2, <2>1, <2>2, <2>3 DEF PackageIInv
<1>4. CASE controller # i
    <2>1. controller' = controller /\ validating' = validating
          /\ packageResult' = packageResult
        BY <1>4 DEF SettleInspection, Shows
    <2>2. controller # 0 /\ deviceOpen
            => /\ inspections'[controller].phase # "over"
               /\ ~inspections'[controller].aborted
        BY <1>1, <1>4 DEF PackageIInv
    <2>3. controller = 0 => chosen = 0 \/ inspections'[chosen].phase = "over"
        BY <1>1 DEF PackageIInv
    <2> QED
        BY <1>1, <1>2, <2>1, <2>2, <2>3 DEF PackageIInv
<1> QED
    BY <1>3, <1>4

\* Reading goes on to the manifest, the manifest to the URDF.
LEMMA PhaseKeeps ==
  ASSUME PackageIInv, NEW i \in 1 .. MaxInspections, NEW phase, phase # "over",
         inspections' = [inspections EXCEPT ![i].phase = phase],
         inspections[i].phase # "over",
         UNCHANGED <<chosen, controller, packageResult, validating, deviceOpen>>
  PROVE  PackageIInv'
<1>1. /\ DOMAIN inspections' = 1 .. MaxInspections
      /\ \A k \in 1 .. MaxInspections : DOMAIN inspections'[k] = DOMAIN inspections[k]
      /\ inspections'[i].phase # "over" /\ inspections'[i].aborted = inspections[i].aborted
      /\ \A k \in (1 .. MaxInspections) \ {i} : inspections'[k] = inspections[k]
    BY DEF PackageIInv
<1>2. controller # 0 => controller \in 1 .. MaxInspections
    BY DEF PackageIInv
<1>3. chosen # 0 => chosen \in 1 .. MaxInspections
    BY PackageAssumption DEF PackageIInv
<1>4. controller # 0 /\ deviceOpen
        => inspections'[controller].phase # "over" /\ ~inspections'[controller].aborted
    BY <1>1, <1>2 DEF PackageIInv
<1>5. controller = 0 => chosen = 0 \/ inspections'[chosen].phase = "over"
    BY <1>1, <1>3 DEF PackageIInv
<1> QED
    BY <1>1, <1>4, <1>5 DEF PackageIInv

\* Every step of the page keeps that invariant.
LEMMA PackageStep == PackageIInv /\ [PackageNext]_packageVars => PackageIInv'
<1> SUFFICES ASSUME PackageIInv, [PackageNext]_packageVars PROVE PackageIInv'
    OBVIOUS
<1> USE PackageAssumption
<1>0. /\ DOMAIN AbortCurrent = 1 .. MaxInspections
      /\ \A k \in 1 .. MaxInspections : DOMAIN AbortCurrent[k] = {"file", "phase", "aborted"}
      /\ \A k \in 1 .. MaxInspections :
           inspections[k].phase = "over" => AbortCurrent[k].phase = "over"
    BY DEF PackageIInv, AbortCurrent, Aborted
<1>1. ASSUME NEW name \in DOMAIN PackageFiles, inspectPackage(name) PROVE PackageIInv'
    <2>1. /\ chosen' \in 1 .. MaxInspections /\ controller' = chosen' /\ validating' = TRUE
          /\ packageResult' = NoPackageResult /\ deviceOpen' = deviceOpen
        BY <1>1 DEF inspectPackage, PackageIInv
    <2>2. inspections' = [AbortCurrent EXCEPT ![chosen'] =
                            [file |-> name, phase |-> "reading", aborted |-> FALSE]]
        BY <1>1 DEF inspectPackage
    <2>3. /\ DOMAIN inspections' = 1 .. MaxInspections
          /\ \A k \in 1 .. MaxInspections : DOMAIN inspections'[k] = {"file", "phase", "aborted"}
          /\ inspections'[chosen'].phase = "reading" /\ ~inspections'[chosen'].aborted
        BY <1>0, <2>1, <2>2
    <2>4. NoPackageResult.of = 0 /\ "of" \in DOMAIN NoPackageResult
        BY DEF NoPackageResult
    <2> QED
        BY <2>1, <2>3, <2>4 DEF PackageIInv
<1>2. ASSUME NEW i \in 1 .. MaxInspections, NEW readable \in BOOLEAN, FileRead(i, readable)
      PROVE  PackageIInv'
    <2>1. inspections[i].phase # "over"
        BY <1>2 DEF FileRead
    <2>2. \/ SettleInspection(i, 1)
          \/ /\ inspections' = [inspections EXCEPT ![i].phase = "manifest"]
             /\ UNCHANGED <<chosen, controller, packageResult, validating, deviceOpen>>
        BY <1>2 DEF FileRead
    <2> QED
        BY <2>1, <2>2, SettleKeeps, PhaseKeeps
<1>3. ASSUME NEW i \in 1 .. MaxInspections, NEW extracted \in BOOLEAN, ManifestExtracted(i, extracted)
      PROVE  PackageIInv'
    <2>1. inspections[i].phase # "over"
        BY <1>3 DEF ManifestExtracted
    <2>2. \/ \E errors : SettleInspection(i, errors)
          \/ /\ inspections' = [inspections EXCEPT ![i].phase = "urdf"]
             /\ UNCHANGED <<chosen, controller, packageResult, validating, deviceOpen>>
        BY <1>3 DEF ManifestExtracted
    <2> QED
        BY <2>1, <2>2, SettleKeeps, PhaseKeeps
<1>4. ASSUME NEW i \in 1 .. MaxInspections, NEW extracted \in BOOLEAN, UrdfExtracted(i, extracted)
      PROVE  PackageIInv'
    <2>1. inspections[i].phase # "over" /\ \E errors : SettleInspection(i, errors)
        BY <1>4 DEF UrdfExtracted
    <2> QED
        BY <2>1, SettleKeeps
<1>5. CASE LeaveDevicePage
    <2>1. /\ deviceOpen' = FALSE /\ inspections' = AbortCurrent
          /\ UNCHANGED <<chosen, controller, packageResult, validating>>
        BY <1>5 DEF LeaveDevicePage
    <2>2. controller = 0 => chosen = 0 \/ inspections'[chosen].phase = "over"
        BY <1>0, <2>1 DEF PackageIInv
    <2> QED
        BY <1>0, <2>1, <2>2 DEF PackageIInv
<1>6. CASE UNCHANGED packageVars
    BY <1>6 DEF packageVars, PackageIInv
<1> QED
    BY <1>1, <1>2, <1>3, <1>4, <1>5, <1>6 DEF PackageNext

\* However inspections overlap, are called off and fail, the result shown is about
\* the file chosen last and the page waits only for that one (DeviceModelPage's
\* inspectPackage and its AbortController).
THEOREM PackageResultAlwaysCurrent == PackageSpec => []PackageResultCurrent
<1>1. PackageInit => PackageIInv
    BY PackageAssumption DEF PackageInit, PackageIInv, NoPackageResult
<1>2. PackageIInv => PackageResultCurrent
    BY DEF PackageIInv, PackageResultCurrent
<1> QED
    BY <1>1, <1>2, PackageStep, PTL DEF PackageSpec

-----------------------------------------------------------------------------
(* Functions given by steps                                                *)

\* A function on 0 .. L given by its first value and a step from each value to
\* the next exists.
LEMMA StepFunction ==
  ASSUME NEW S, NEW base \in S, NEW L \in Nat, NEW step \in [1 .. L -> [S -> S]]
  PROVE  \E g \in [0 .. L -> S] : g[0] = base /\ \A n \in 1 .. L : g[n] = step[n][g[n - 1]]
<1> DEFINE Upto(m, g) == g[0] = base /\ \A n \in 1 .. m : g[n] = step[n][g[n - 1]]
           T == {m \in Nat : m <= L => \E g \in [0 .. m -> S] : Upto(m, g)}
<1>1. 0 \in T
    <2>1. [n \in 0 .. 0 |-> base] \in [0 .. 0 -> S] /\ Upto(0, [n \in 0 .. 0 |-> base])
        OBVIOUS
    <2> QED
        BY <2>1
<1>2. ASSUME NEW m \in T PROVE m + 1 \in T
    <2>1. SUFFICES ASSUME m + 1 <= L PROVE \E g \in [0 .. m + 1 -> S] : Upto(m + 1, g)
        OBVIOUS
    <2>2. PICK g \in [0 .. m -> S] : Upto(m, g)
        BY <2>1
    <2> DEFINE h == [n \in 0 .. m + 1 |-> IF n <= m THEN g[n] ELSE step[m + 1][g[m]]]
    <2>3. m + 1 \in 1 .. L /\ g[m] \in S /\ step[m + 1] \in [S -> S]
        BY <2>1
    <2>4. h \in [0 .. m + 1 -> S]
        BY <2>3
    <2>5. h[0] = g[0] /\ h[m + 1] = step[m + 1][g[m]] /\ \A n \in 0 .. m : h[n] = g[n]
        OBVIOUS
    <2>6. \A n \in 1 .. m + 1 : h[n] = step[n][h[n - 1]]
        <3> SUFFICES ASSUME NEW n \in 1 .. m + 1 PROVE h[n] = step[n][h[n - 1]]
            OBVIOUS
        <3>1. CASE n = m + 1
            BY <2>5, <3>1
        <3>2. CASE n \in 1 .. m
            <4>1. n \in 0 .. m /\ n - 1 \in 0 .. m
                BY <3>2
            <4> HIDE DEF h
            <4> QED
                BY <2>2, <2>5, <3>2, <4>1
        <3> QED
            BY <3>1, <3>2
    <2> QED
        BY <2>2, <2>4, <2>5, <2>6
<1>3. T = Nat
    <2> HIDE DEF T
    <2>1. T \in SUBSET Nat
        BY DEF T
    <2> QED
        BY <1>1, <1>2, <2>1, NatSetInduction
<1> QED
    BY <1>3

-----------------------------------------------------------------------------
(* Paths                                                                   *)

\* What a sequence is, without its functions.
LEMMA SequenceFacts ==
  ASSUME NEW S, NEW s \in Seq(S)
  PROVE  /\ Len(s) \in Nat /\ DOMAIN s = 1 .. Len(s) /\ s = [n \in 1 .. Len(s) |-> s[n]]
         /\ \A n \in 1 .. Len(s) : s[n] \in S
OBVIOUS

\* What Proper keeps of a list of segments.
LEMMA ProperSegments ==
  ASSUME NEW raw \in ArchivePath
  PROVE  /\ Proper(raw.segments) \in Seq(Segments)
         /\ ToSet(Proper(raw.segments)) = ToSet(raw.segments) \ {"", "."}
<1> DEFINE s == raw.segments
           K == {k \in DOMAIN s : s[k] \notin {"", "."}}
<1>1. s \in Seq(Segments \cup {"", "."}) /\ K \in SUBSET (1 .. Len(s)) /\ DOMAIN s = 1 .. Len(s)
    <2>1. s \in Seq(Segments \cup {"", "."})
        BY DEF ArchivePath
    <2> HIDE DEF s
    <2> QED
        BY <2>1, SequenceFacts
<1>2. \A i \in K : s[i] \in Segments
    <2>1. \A i \in DOMAIN s : s[i] \in Segments \cup {"", "."}
        <3> HIDE DEF s
        <3> QED
            BY <1>1, SequenceFacts
    <2> QED
        BY <2>1
<1>3. \A i \in DOMAIN s : s[i] \notin {"", "."} <=> i \in K
    OBVIOUS
<1>4. Proper(s) = Selected(s, K)
    BY DEF Proper
<1> HIDE DEF s, K
<1>5. /\ Selected(s, K) \in Seq(Segments \cup {"", "."}) /\ Len(Selected(s, K)) = Cardinality(K)
      /\ \A n \in 1 .. Cardinality(K) : PositionOf(K, n) \in K /\ Selected(s, K)[n] = s[PositionOf(K, n)]
      /\ \A i \in K : \E n \in 1 .. Cardinality(K) : Selected(s, K)[n] = s[i]
    BY <1>1, SelectedType
<1>6. Selected(s, K) \in Seq(Segments)
    <2> DEFINE q == Selected(s, K)
    <2>1. \A n \in 1 .. Len(q) : q[n] \in Segments
        BY <1>2, <1>5
    <2>2. q \in Seq(Segments \cup {"", "."})
        BY <1>5
    <2> HIDE DEF q
    <2>3. q \in Seq(Segments)
        <3>1. Len(q) \in Nat /\ q = [n \in 1 .. Len(q) |-> q[n]]
            BY <2>2, SequenceFacts
        <3>2. [n \in 1 .. Len(q) |-> q[n]] \in Seq(Segments)
            BY <2>1, <3>1
        <3> QED
            BY <3>1, <3>2
    <2> QED
        BY <2>3 DEF q
<1>7. DOMAIN Selected(s, K) = 1 .. Cardinality(K)
    BY DEF Selected
<1>8. ToSet(Selected(s, K)) = ToSet(s) \ {"", "."}
    <2>1. ASSUME NEW x \in ToSet(Selected(s, K)) PROVE x \in ToSet(s) \ {"", "."}
        <3>1. PICK n \in 1 .. Cardinality(K) : x = Selected(s, K)[n]
            BY <1>7, <2>1 DEF ToSet
        <3> QED
            BY <1>1, <1>3, <1>5, <3>1 DEF ToSet
    <2>2. ASSUME NEW x \in ToSet(s) \ {"", "."} PROVE x \in ToSet(Selected(s, K))
        <3>1. PICK i \in DOMAIN s : x = s[i]
            BY <2>2 DEF ToSet
        <3>2. i \in K
            BY <1>3, <2>2, <3>1
        <3> QED
            BY <1>5, <1>7, <3>1, <3>2 DEF ToSet
    <2> QED
        BY <2>1, <2>2
<1> QED
    BY <1>4, <1>6, <1>8 DEF s

\* A path is refused exactly if it has a root, leaves a directory, uses a
\* reserved name or is empty.
LEMMA Normalized ==
  ASSUME NEW raw \in ArchivePath
  PROVE  LET path == Proper(raw.segments)
             fine == ~raw.absolute /\ path # <<>> /\ \A n \in DOMAIN path : path[n] \notin {"..", "reserved"}
         IN  /\ normalizeArchivePath(raw) \in Seq(Segments)
             /\ fine => normalizeArchivePath(raw) = path
             /\ ~fine => normalizeArchivePath(raw) = <<>>
<1> DEFINE path == Proper(raw.segments)
<1>1. path \in Seq(Segments) /\ ToSet(path) = ToSet(raw.segments) \ {"", "."}
    BY ProperSegments
<1> HIDE DEF path
<1>2. {"..", "reserved"} \cap ToSet(raw.segments) # {} <=> \E n \in DOMAIN path : path[n] \in {"..", "reserved"}
    <2>1. {"..", "reserved"} \cap ToSet(raw.segments) # {} <=> {"..", "reserved"} \cap ToSet(path) # {}
        BY <1>1
    <2>2. \A x : x \in ToSet(path) <=> \E n \in DOMAIN path : x = path[n]
        BY DEF ToSet
    <2> QED
        BY <2>1, <2>2
<1>3. normalizeArchivePath(raw)
        = IF raw.absolute \/ {"..", "reserved"} \cap ToSet(raw.segments) # {} THEN <<>> ELSE path
    BY DEF normalizeArchivePath, path
<1>4. <<>> \in Seq(Segments)
    OBVIOUS
<1> QED
    BY <1>1, <1>2, <1>3, <1>4 DEF path

-----------------------------------------------------------------------------
(* Scanning the archive                                                    *)

SeenPaths   == SUBSET Seq(STRING)
EntrySets   == SUBSET [path : Seq(Segments), size : Int, actual : Nat]
Accumulated == [count : Nat, seen : SeenPaths, bytes : Int, hard : BOOLEAN, errors : Nat,
                entries : EntrySets]

FilesUpTo(file, n) == {k \in FilesOf(file) : k <= n}
EntrySize(file, n) == IF n \in FilesOf(file) THEN file.entries[n].size ELSE 0

\* The functions that Scan and SizeOf evaluate.
Scanned(file) ==
  CHOOSE g : g = [n \in 0 .. Len(file.entries) |->
                    IF n = 0 THEN NoEntries ELSE ScanEntry(g[n - 1], file.entries[n])]
SizeUpTo(file) ==
  CHOOSE g : g = [n \in 0 .. Len(file.entries) |-> IF n = 0 THEN 0 ELSE g[n - 1] + EntrySize(file, n)]

\* The lower case of a path is a sequence of strings.
LEMMA LowerType ==
  ASSUME NEW path \in Seq(Segments)
  PROVE  Lower(path) \in Seq(STRING)
<1>1. \A k \in 1 .. Len(path) : LowerCase[path[k]] \in STRING
    BY PackageFilesAssumption
<1>2. Lower(path) = [k \in 1 .. Len(path) |-> LowerCase[path[k]]]
    BY DEF Lower
<1>3. Len(path) \in Nat
    OBVIOUS
<1> QED
    BY <1>1, <1>2, <1>3

\* The filter keeps the type of what it accumulates.
LEMMA ScanEntryType ==
  ASSUME NEW a \in Accumulated, NEW e \in ArchiveEntry
  PROVE  ScanEntry(a, e) \in Accumulated
<1> DEFINE path == normalizeArchivePath(e.raw)
<1>1. path \in Seq(Segments) /\ Lower(path) \in Seq(STRING) /\ e.size \in Int /\ e.actual \in Nat
    BY Normalized, LowerType DEF ArchiveEntry
<1>2. TypeErrors(e) \in Nat
    BY DEF TypeErrors
<1> HIDE DEF path
<1>3. ASSUME NEW c \in Nat, NEW b \in Int, NEW h \in BOOLEAN, NEW x \in Nat,
             NEW s \in SeenPaths, NEW r \in EntrySets
      PROVE  [count |-> c, seen |-> s, bytes |-> b, hard |-> h, errors |-> x, entries |-> r] \in Accumulated
    BY DEF Accumulated
<1>4. /\ a = [count |-> a.count, seen |-> a.seen, bytes |-> a.bytes, hard |-> a.hard,
              errors |-> a.errors, entries |-> a.entries]
      /\ a.count \in Nat /\ a.bytes \in Int /\ a.hard \in BOOLEAN /\ a.errors \in Nat
      /\ a.seen \in SeenPaths /\ a.entries \in EntrySets
    BY DEF Accumulated
<1> DEFINE over == a.bytes + e.size > UnpackedLimit
           large == path = <<"manifest.json">> /\ e.size > ManifestLimit
<1>5. Register(a, e, path) \in Accumulated
    <2>1. [path |-> path, size |-> e.size, actual |-> e.actual] \in [path : Seq(Segments), size : Int, actual : Nat]
        BY <1>1
    <2>2. a.errors + TypeErrors(e) + (IF large THEN 1 ELSE 0)
            + (IF over /\ a.bytes <= UnpackedLimit THEN 1 ELSE 0) \in Nat
        BY <1>2, <1>4
    <2>3. (a.hard \/ over \/ large) \in BOOLEAN
        OBVIOUS
    <2> HIDE DEF large, over
    <2>4. a.count + 1 \in Nat /\ a.bytes + e.size \in Int
          /\ a.seen \cup {Lower(path)} \in SeenPaths
          /\ a.entries \cup {[path |-> path, size |-> e.size, actual |-> e.actual]} \in EntrySets
        BY <1>1, <1>4, <2>1 DEF SeenPaths, EntrySets
    <2>5. Register(a, e, path) =
            [count |-> a.count + 1, seen |-> a.seen \cup {Lower(path)}, bytes |-> a.bytes + e.size,
             hard |-> a.hard \/ over \/ large,
             errors |-> a.errors + TypeErrors(e) + (IF large THEN 1 ELSE 0)
                          + (IF over /\ a.bytes <= UnpackedLimit THEN 1 ELSE 0),
             entries |-> a.entries \cup {[path |-> path, size |-> e.size, actual |-> e.actual]}]
        BY DEF Register, over, large
    <2> QED
        <3> DEFINE c == a.count + 1
                   b == a.bytes + e.size
                   h == a.hard \/ over \/ large
                   x == a.errors + TypeErrors(e) + (IF large THEN 1 ELSE 0)
                          + (IF over /\ a.bytes <= UnpackedLimit THEN 1 ELSE 0)
                   m == a.seen \cup {Lower(path)}
                   r == a.entries \cup {[path |-> path, size |-> e.size, actual |-> e.actual]}
        <3>1. /\ c \in Nat /\ b \in Int /\ h \in BOOLEAN /\ x \in Nat
              /\ m \in SeenPaths /\ r \in EntrySets
            BY <2>2, <2>3, <2>4
        <3>2. Register(a, e, path) = [count |-> c, seen |-> m, bytes |-> b,
                                      hard |-> h, errors |-> x, entries |-> r]
            BY <2>5
        <3> HIDE DEF c, b, h, x, m, r
        <3>3. [count |-> c, seen |-> m, bytes |-> b, hard |-> h, errors |-> x, entries |-> r]
                \in Accumulated
            BY <1>3, <3>1
        <3> QED
            BY <3>2, <3>3
<1>6. ASSUME NEW x \in Nat, NEW h \in BOOLEAN, NEW s \in SeenPaths
      PROVE  /\ [a EXCEPT !.count = a.count + 1, !.errors = x] \in Accumulated
             /\ [a EXCEPT !.count = a.count + 1, !.hard = h, !.errors = x] \in Accumulated
             /\ [a EXCEPT !.count = a.count + 1, !.seen = s, !.hard = h, !.errors = x] \in Accumulated
    <2>1. ASSUME NEW c \in Accumulated
          PROVE  /\ [c EXCEPT !.count = a.count + 1] \in Accumulated
                 /\ [c EXCEPT !.errors = x] \in Accumulated
                 /\ [c EXCEPT !.hard = h] \in Accumulated
                 /\ [c EXCEPT !.seen = s] \in Accumulated
        BY <1>4 DEF Accumulated
    <2> DEFINE b == [a EXCEPT !.count = a.count + 1]
               d == [b EXCEPT !.hard = h]
               f == [b EXCEPT !.seen = s]
               g == [f EXCEPT !.hard = h]
    <2>2. /\ [a EXCEPT !.count = a.count + 1, !.errors = x] = [b EXCEPT !.errors = x]
          /\ [a EXCEPT !.count = a.count + 1, !.hard = h, !.errors = x] = [d EXCEPT !.errors = x]
          /\ [a EXCEPT !.count = a.count + 1, !.seen = s, !.hard = h, !.errors = x] = [g EXCEPT !.errors = x]
        OBVIOUS
    <2>3. b \in Accumulated
        BY <2>1
    <2> HIDE DEF b
    <2>4. d \in Accumulated /\ f \in Accumulated
        BY <2>1, <2>3
    <2> HIDE DEF d, f
    <2>5. g \in Accumulated
        BY <2>1, <2>4
    <2> QED
        BY <2>1, <2>2, <2>3, <2>4, <2>5
<1> QED
    <2> DEFINE lower == a.seen \cup {Lower(path)}
    <2>1. lower \in SeenPaths
        BY <1>1, <1>4 DEF SeenPaths
    <2>2. a.errors + 1 \in Nat /\ a.errors + TypeErrors(e) + 1 \in Nat
          /\ (IF a.count = FileLimit THEN a.errors + 1 ELSE a.errors) \in Nat
        BY <1>2, <1>4
    <2>3. /\ [a EXCEPT !.count = @ + 1, !.hard = TRUE,
                       !.errors = IF a.count = FileLimit THEN @ + 1 ELSE @] \in Accumulated
          /\ [a EXCEPT !.count = @ + 1, !.errors = @ + 1] \in Accumulated
          /\ [a EXCEPT !.count = @ + 1, !.errors = @ + TypeErrors(e) + 1] \in Accumulated
          /\ [a EXCEPT !.count = @ + 1, !.seen = @ \cup {Lower(path)}, !.hard = TRUE,
                       !.errors = @ + TypeErrors(e) + 1] \in Accumulated
        BY <1>6, <2>1, <2>2
    <2>4. ScanEntry(a, e) \in
            {a, Register(a, e, path),
             [a EXCEPT !.count = @ + 1, !.hard = TRUE,
                       !.errors = IF a.count = FileLimit THEN @ + 1 ELSE @],
             [a EXCEPT !.count = @ + 1, !.errors = @ + 1],
             [a EXCEPT !.count = @ + 1, !.errors = @ + TypeErrors(e) + 1],
             [a EXCEPT !.count = @ + 1, !.seen = @ \cup {Lower(path)}, !.hard = TRUE,
                       !.errors = @ + TypeErrors(e) + 1]}
        BY DEF ScanEntry, path
    <2> QED
        BY <1>5, <2>3, <2>4

\* The scan goes from entry to entry.
LEMMA ScanUnfolds ==
  ASSUME NEW file \in ProfilePackage
  PROVE  /\ Scanned(file)[0] = NoEntries
         /\ \A n \in 0 .. Len(file.entries) : Scanned(file)[n] \in Accumulated
         /\ \A n \in 1 .. Len(file.entries) :
              Scanned(file)[n] = ScanEntry(Scanned(file)[n - 1], file.entries[n])
         /\ Scan(file) = Scanned(file)[Len(file.entries)]
<1> DEFINE L == Len(file.entries)
           step == [n \in 1 .. L |-> [a \in Accumulated |-> ScanEntry(a, file.entries[n])]]
           Run(g) == [n \in 0 .. L |-> IF n = 0 THEN NoEntries ELSE ScanEntry(g[n - 1], file.entries[n])]
<1>1. L \in Nat /\ \A n \in 1 .. L : file.entries[n] \in ArchiveEntry
    BY DEF ProfilePackage
<1>2. NoEntries \in Accumulated
    BY DEF NoEntries, Accumulated, SeenPaths, EntrySets
<1>3. step \in [1 .. L -> [Accumulated -> Accumulated]]
    BY <1>1, ScanEntryType
<1>4. \A n \in 1 .. L, a \in Accumulated : step[n][a] = ScanEntry(a, file.entries[n])
    OBVIOUS
<1>5. PICK g \in [0 .. L -> Accumulated] : g[0] = NoEntries /\ \A n \in 1 .. L : g[n] = step[n][g[n - 1]]
    <2> HIDE DEF step, L
    <2> QED
        BY <1>1, <1>2, <1>3, StepFunction
<1>6. \A n \in 1 .. L : n - 1 \in 0 .. L /\ g[n] = ScanEntry(g[n - 1], file.entries[n])
    <2> HIDE DEF step
    <2> QED
        BY <1>1, <1>4, <1>5
<1>7. g = Run(g)
    <2>1. \A n \in 0 .. L : g[n] = IF n = 0 THEN NoEntries ELSE ScanEntry(g[n - 1], file.entries[n])
        BY <1>1, <1>5, <1>6
    <2> QED
        BY <1>5, <2>1
<1> DEFINE h == Scanned(file)
<1>8. h = Run(h)
    BY <1>7 DEF Scanned
<1>9. Scan(file) = h[L]
    BY DEF Scan, Scanned
<1> HIDE DEF h
<1>10. h[0] = NoEntries /\ \A n \in 1 .. L : h[n] = ScanEntry(h[n - 1], file.entries[n])
    <2>1. \A n \in 0 .. L : h[n] = IF n = 0 THEN NoEntries ELSE ScanEntry(h[n - 1], file.entries[n])
        BY <1>8
    <2> QED
        BY <1>1, <2>1
<1>11. \A n \in 0 .. L : h[n] \in Accumulated
    <2> DEFINE T == {n \in Nat : n <= L => h[n] \in Accumulated}
    <2>1. 0 \in T
        BY <1>2, <1>10
    <2>2. ASSUME NEW n \in T PROVE n + 1 \in T
        <3>1. SUFFICES ASSUME n + 1 <= L PROVE h[n + 1] \in Accumulated
            OBVIOUS
        <3>2. n + 1 \in 1 .. L /\ h[n] \in Accumulated /\ (n + 1) - 1 = n
            BY <1>1, <3>1
        <3> QED
            BY <1>1, <1>10, <3>2, ScanEntryType
    <2>3. T = Nat
        <3> HIDE DEF T
        <3>1. T \in SUBSET Nat
            BY DEF T
        <3> QED
            BY <2>1, <2>2, <3>1, NatSetInduction
    <2> QED
        BY <1>1, <2>3
<1> QED
    BY <1>9, <1>10, <1>11 DEF h

\* The function of a sum exists.
Totals == Int

LEMMA TotalFunction ==
  ASSUME NEW first \in Totals, NEW L \in Nat, NEW step \in [1 .. L -> [Totals -> Totals]]
  PROVE  \E g \in [0 .. L -> Totals] : g[0] = first /\ \A n \in 1 .. L : g[n] = step[n][g[n - 1]]
BY StepFunction

\* So does the sum of the sizes.
LEMMA SizeUnfolds ==
  ASSUME NEW file \in ProfilePackage
  PROVE  /\ SizeUpTo(file)[0] = 0
         /\ \A n \in 0 .. Len(file.entries) : SizeUpTo(file)[n] \in Int
         /\ \A n \in 1 .. Len(file.entries) :
              SizeUpTo(file)[n] = SizeUpTo(file)[n - 1] + EntrySize(file, n)
         /\ SizeOf(file) = SizeUpTo(file)[Len(file.entries)]
<1> DEFINE L == Len(file.entries)
           step == [n \in 1 .. L |-> [a \in Int |-> a + EntrySize(file, n)]]
           Run(g) == [n \in 0 .. L |-> IF n = 0 THEN 0 ELSE g[n - 1] + EntrySize(file, n)]
<1>1. L \in Nat /\ \A n \in 1 .. L : EntrySize(file, n) \in Int
    <2>1. L \in Nat /\ \A n \in 1 .. L : file.entries[n] \in ArchiveEntry
        BY DEF ProfilePackage
    <2>2. \A e \in ArchiveEntry : e.size \in Int
        BY DEF ArchiveEntry
    <2> QED
        BY <2>1, <2>2 DEF EntrySize
<1>2. step \in [1 .. L -> [Int -> Int]]
    BY <1>1
<1>4. \A n \in 1 .. L, a \in Int : step[n][a] = a + EntrySize(file, n)
    OBVIOUS
<1>5. PICK g \in [0 .. L -> Int] : g[0] = 0 /\ \A n \in 1 .. L : g[n] = step[n][g[n - 1]]
    <2>1. L \in Nat
        BY <1>1
    <2> HIDE DEF step, L
    <2> QED
        <3>1. 0 \in Totals /\ step \in [1 .. L -> [Totals -> Totals]]
            BY <1>2 DEF Totals
        <3>2. \E g \in [0 .. L -> Totals] : g[0] = 0 /\ \A n \in 1 .. L : g[n] = step[n][g[n - 1]]
            BY <2>1, <3>1, TotalFunction
        <3> QED
            BY <3>2 DEF Totals
<1>6. \A n \in 1 .. L : n - 1 \in 0 .. L /\ g[n] = g[n - 1] + EntrySize(file, n)
    <2> HIDE DEF step
    <2> SUFFICES ASSUME NEW n \in 1 .. L
                 PROVE  n - 1 \in 0 .. L /\ g[n] = g[n - 1] + EntrySize(file, n)
        OBVIOUS
    <2>1. n - 1 \in 0 .. L
        BY <1>1
    <2>2. g[n - 1] \in Int /\ g[n] = step[n][g[n - 1]]
        BY <1>5, <2>1
    <2> QED
        BY <1>4, <2>1, <2>2
<1>7. g = Run(g)
    <2>1. \A n \in 0 .. L : g[n] = IF n = 0 THEN 0 ELSE g[n - 1] + EntrySize(file, n)
        BY <1>1, <1>5, <1>6
    <2> QED
        BY <1>5, <2>1
<1> DEFINE h == SizeUpTo(file)
<1>8. h = Run(h)
    BY <1>7 DEF SizeUpTo
<1>9. SizeOf(file) = h[L]
    BY DEF SizeOf, SizeUpTo, EntrySize
<1> HIDE DEF h
<1>10. h[0] = 0 /\ \A n \in 1 .. L : h[n] = h[n - 1] + EntrySize(file, n)
    <2>1. \A n \in 0 .. L : h[n] = IF n = 0 THEN 0 ELSE h[n - 1] + EntrySize(file, n)
        BY <1>8
    <2> QED
        BY <1>1, <2>1
<1>11. \A n \in 0 .. L : h[n] \in Int
    <2> DEFINE T == {n \in Nat : n <= L => h[n] \in Int}
    <2>1. 0 \in T
        BY <1>10
    <2>2. ASSUME NEW n \in T PROVE n + 1 \in T
        <3>1. SUFFICES ASSUME n + 1 <= L PROVE h[n + 1] \in Int
            OBVIOUS
        <3>2. n + 1 \in 1 .. L /\ h[n] \in Int /\ (n + 1) - 1 = n
            BY <1>1, <3>1
        <3> QED
            BY <1>1, <1>10, <3>2
    <2>3. T = Nat
        <3> HIDE DEF T
        <3>1. T \in SUBSET Nat
            BY DEF T
        <3> QED
            BY <2>1, <2>2, <3>1, NatSetInduction
    <2> QED
        BY <1>1, <2>3
<1> QED
    BY <1>9, <1>10, <1>11 DEF h

\* The outcome of each branch of the filter.
LEMMA ScanEntryFields ==
  ASSUME NEW a \in Accumulated, NEW e
  PROVE  LET b == ScanEntry(a, e)
             path == normalizeArchivePath(e.raw)
         IN  /\ IsDirectory(e) => b = a
             /\ ~IsDirectory(e) =>
                  \/ a.count >= FileLimit /\ b.errors = IF a.count = FileLimit THEN a.errors + 1 ELSE a.errors
                  \/ a.count < FileLimit /\ path = <<>> /\ b.errors = a.errors + 1
                  \/ /\ a.count < FileLimit /\ path # <<>> /\ Lower(path) \in a.seen
                     /\ b.errors = a.errors + TypeErrors(e) + 1
                  \/ /\ a.count < FileLimit /\ path # <<>> /\ e.size < 0
                     /\ b.errors = a.errors + TypeErrors(e) + 1
                  \/ /\ a.count < FileLimit /\ path # <<>> /\ Lower(path) \notin a.seen /\ ~(e.size < 0)
                     /\ b = Register(a, e, path)
<1> DEFINE path == normalizeArchivePath(e.raw)
<1>1. {"errors", "count", "hard", "seen"} \subseteq DOMAIN a /\ a.count \in Nat
    BY DEF Accumulated
<1>2. FileLimit \in Nat
    BY PackageAssumption
<1> QED
    BY <1>1, <1>2 DEF ScanEntry

\* What each entry of a good package must be.
EntryFine(file, k) ==
  LET e == file.entries[k]
      path == EntryPath(file, k)
  IN  /\ e.allowed /\ e.size >= 0
      /\ ~e.raw.absolute /\ path # <<>> /\ \A n \in DOMAIN path : path[n] \notin {"..", "reserved"}
      /\ path = <<"manifest.json">> => e.size <= ManifestLimit

LowerPath(file, k) == Lower(EntryPath(file, k))

\* The first n entries break no rule.
GoodUpTo(file, n) ==
  /\ Cardinality(FilesUpTo(file, n)) <= FileLimit
  /\ \A k \in FilesUpTo(file, n) : EntryFine(file, k)
  /\ \A j, k \in FilesUpTo(file, n) : j # k => LowerPath(file, j) # LowerPath(file, k)
  /\ SizeUpTo(file)[n] <= UnpackedLimit

\* The accumulator counts no error exactly while no rule is broken, and then
\* it holds the entries seen.
ScanInv(file, n, a) ==
  /\ a \in Accumulated
  /\ a.errors = 0 <=> GoodUpTo(file, n)
  /\ GoodUpTo(file, n) =>
       /\ ~a.hard /\ a.count = Cardinality(FilesUpTo(file, n))
       /\ a.seen = {LowerPath(file, k) : k \in FilesUpTo(file, n)}
       /\ a.bytes = SizeUpTo(file)[n]
       /\ a.entries = {[path |-> EntryPath(file, k), size |-> file.entries[k].size,
                        actual |-> file.entries[k].actual] :
                         k \in FilesUpTo(file, n)}
  /\ a.hard => a.errors # 0

\* The files among the first entries are finitely many.
LEMMA FilesFinite ==
  ASSUME NEW file \in ProfilePackage, NEW n
  PROVE  /\ FilesUpTo(file, n) \subseteq 1 .. Len(file.entries)
         /\ IsFiniteSet(FilesUpTo(file, n)) /\ Cardinality(FilesUpTo(file, n)) \in Nat
<1>1. Len(file.entries) \in Nat /\ DOMAIN file.entries = 1 .. Len(file.entries)
    BY DEF ProfilePackage
<1>2. FilesUpTo(file, n) \subseteq 1 .. Len(file.entries)
    BY <1>1 DEF FilesUpTo, FilesOf
<1>3. IsFiniteSet(1 .. Len(file.entries))
    BY <1>1, FS_Interval
<1> QED
    BY <1>2, <1>3, FS_Subset, FS_CardinalityType

\* One more entry: a directory changes nothing; a file keeps the package good
\* if it breaks no rule itself.
LEMMA GoodGrows ==
  ASSUME NEW file \in ProfilePackage, NEW n \in 1 .. Len(file.entries)
  PROVE  LET F == FilesUpTo(file, n - 1)
             e == file.entries[n]
         IN  /\ IsDirectory(e) => /\ FilesUpTo(file, n) = F
                                  /\ SizeUpTo(file)[n] = SizeUpTo(file)[n - 1]
             /\ ~IsDirectory(e) => /\ FilesUpTo(file, n) = F \cup {n} /\ n \notin F
                                   /\ Cardinality(FilesUpTo(file, n)) = Cardinality(F) + 1
                                   /\ SizeUpTo(file)[n] = SizeUpTo(file)[n - 1] + e.size
             /\ GoodUpTo(file, n) => GoodUpTo(file, n - 1)
             /\ (GoodUpTo(file, n - 1) /\ ~IsDirectory(e)) =>
                  (GoodUpTo(file, n) <=>
                     /\ Cardinality(F) + 1 <= FileLimit
                     /\ EntryFine(file, n)
                     /\ \A k \in F : LowerPath(file, k) # LowerPath(file, n)
                     /\ SizeUpTo(file)[n - 1] + e.size <= UnpackedLimit)
<1> DEFINE F == FilesUpTo(file, n - 1)
           G == FilesUpTo(file, n)
           e == file.entries[n]
           s == SizeUpTo(file)[n - 1]
           t == SizeUpTo(file)[n]
<1>1. Len(file.entries) \in Nat /\ DOMAIN file.entries = 1 .. Len(file.entries) /\ n \in Nat
      /\ n - 1 \in 0 .. Len(file.entries) /\ n \in 0 .. Len(file.entries)
    BY DEF ProfilePackage
<1>2. s \in Int /\ t = s + EntrySize(file, n)
    BY <1>1, SizeUnfolds
<1>3. \A k \in FilesOf(file) : k \in Nat
    BY <1>1 DEF FilesOf
<1>4. n \in FilesOf(file) <=> ~IsDirectory(e)
    BY <1>1 DEF FilesOf
<1>5. \A k \in FilesOf(file) : k <= n <=> k <= n - 1 \/ k = n
    BY <1>1, <1>3
<1>6. ~(n <= n - 1)
    BY <1>1
<1>7. CASE IsDirectory(e)
    <2>1. G = F
        BY <1>4, <1>5, <1>7 DEF FilesUpTo
    <2>2. t = s
        BY <1>2, <1>4, <1>7 DEF EntrySize
    <2> HIDE DEF F, G, e, s, t
    <2> QED
        BY <1>7, <2>1, <2>2 DEF GoodUpTo, F, G, e, s, t
<1>8. CASE ~IsDirectory(e)
    <2>1. G = F \cup {n} /\ n \notin F
        BY <1>4, <1>5, <1>6, <1>8 DEF FilesUpTo
    <2>2. t = s + e.size
        BY <1>2, <1>4, <1>8 DEF EntrySize
    <2>3. IsFiniteSet(F) /\ Cardinality(F) \in Nat /\ IsFiniteSet(G)
        BY FilesFinite
    <2>4. Cardinality(G) = Cardinality(F) + 1
        <3> HIDE DEF F, G
        <3> QED
            BY <2>1, <2>3, FS_AddElement
    <2>5. GoodUpTo(file, n) <=>
            /\ Cardinality(G) <= FileLimit
            /\ \A k \in G : EntryFine(file, k)
            /\ \A j, k \in G : j # k => LowerPath(file, j) # LowerPath(file, k)
            /\ t <= UnpackedLimit
        BY DEF GoodUpTo
    <2>6. GoodUpTo(file, n - 1) <=>
            /\ Cardinality(F) <= FileLimit
            /\ \A k \in F : EntryFine(file, k)
            /\ \A j, k \in F : j # k => LowerPath(file, j) # LowerPath(file, k)
            /\ s <= UnpackedLimit
        BY DEF GoodUpTo
    <2>7. EntryFine(file, n) => e.size >= 0
        BY DEF EntryFine
    <2>8. FileLimit \in Nat /\ UnpackedLimit \in Nat /\ e.size \in Int
        <3>1. e \in ArchiveEntry
            BY DEF ProfilePackage
        <3> QED
            BY <3>1, PackageAssumption DEF ArchiveEntry
    <2> HIDE DEF F, G, e, s, t
    <2>9. GoodUpTo(file, n) => GoodUpTo(file, n - 1)
        <3> SUFFICES ASSUME GoodUpTo(file, n) PROVE GoodUpTo(file, n - 1)
            OBVIOUS
        <3>1. e.size >= 0
            BY <2>1, <2>5, <2>7
        <3>2. s <= UnpackedLimit
            BY <1>2, <2>2, <2>5, <2>8, <3>1
        <3>3. Cardinality(F) <= FileLimit
            BY <2>3, <2>4, <2>5, <2>8
        <3> QED
            BY <2>1, <2>5, <2>6, <3>2, <3>3
    <2>10. GoodUpTo(file, n - 1) =>
             (GoodUpTo(file, n) <=>
                /\ Cardinality(F) + 1 <= FileLimit
                /\ EntryFine(file, n)
                /\ \A k \in F : LowerPath(file, k) # LowerPath(file, n)
                /\ s + e.size <= UnpackedLimit)
        BY <2>1, <2>2, <2>4, <2>5, <2>6
    <2> QED
        BY <1>8, <2>1, <2>2, <2>4, <2>9, <2>10 DEF F, G, e, s, t
<1> QED
    BY <1>7, <1>8

\* The filter keeps the accumulator right by one more entry.
LEMMA ScanStep ==
  ASSUME NEW file \in ProfilePackage, NEW n \in 1 .. Len(file.entries), NEW a,
         ScanInv(file, n - 1, a)
  PROVE  ScanInv(file, n, ScanEntry(a, file.entries[n]))
<1> DEFINE e == file.entries[n]
           b == ScanEntry(a, e)
           F == FilesUpTo(file, n - 1)
           G == FilesUpTo(file, n)
           s == SizeUpTo(file)[n - 1]
           path == normalizeArchivePath(e.raw)
<1>1. e \in ArchiveEntry /\ e.raw \in ArchivePath /\ e.size \in Int /\ a \in Accumulated
      /\ e.allowed \in BOOLEAN
    <2>1. e \in ArchiveEntry
        BY DEF ProfilePackage
    <2> HIDE DEF e
    <2> QED
        BY <2>1 DEF ArchiveEntry, ScanInv
<1>2. b \in Accumulated
    BY <1>1, ScanEntryType
<1>3. a.errors \in Nat /\ a.count \in Nat /\ TypeErrors(e) \in {0, 1}
      /\ (TypeErrors(e) = 0 <=> e.allowed)
      /\ b.errors \in Nat /\ s \in Int
    <2>1. n - 1 \in 0 .. Len(file.entries)
        BY DEF ProfilePackage
    <2> QED
        BY <1>1, <1>2, <2>1, SizeUnfolds DEF Accumulated, TypeErrors
<1>4. FileLimit \in Nat /\ UnpackedLimit \in Nat /\ ManifestLimit \in Nat
    BY PackageAssumption
<1>5. CASE IsDirectory(e)
    <2>1. b = a /\ G = F /\ SizeUpTo(file)[n] = s
        BY <1>1, <1>5, ScanEntryFields, GoodGrows
    <2> HIDE DEF b
    <2> QED
        BY <2>1 DEF ScanInv, GoodUpTo, b
<1>6. CASE ~IsDirectory(e)
    <2>1. /\ G = F \cup {n} /\ n \notin F /\ Cardinality(G) = Cardinality(F) + 1
          /\ SizeUpTo(file)[n] = s + e.size
          /\ GoodUpTo(file, n) => GoodUpTo(file, n - 1)
          /\ GoodUpTo(file, n - 1) =>
               (GoodUpTo(file, n) <=>
                  /\ Cardinality(F) + 1 <= FileLimit
                  /\ EntryFine(file, n)
                  /\ \A k \in F : LowerPath(file, k) # LowerPath(file, n)
                  /\ s + e.size <= UnpackedLimit)
        BY <1>6, GoodGrows
    <2>2. \/ a.count >= FileLimit /\ b.errors = IF a.count = FileLimit THEN a.errors + 1 ELSE a.errors
          \/ a.count < FileLimit /\ path = <<>> /\ b.errors = a.errors + 1
          \/ /\ a.count < FileLimit /\ path # <<>> /\ Lower(path) \in a.seen
             /\ b.errors = a.errors + TypeErrors(e) + 1
          \/ /\ a.count < FileLimit /\ path # <<>> /\ e.size < 0
             /\ b.errors = a.errors + TypeErrors(e) + 1
          \/ /\ a.count < FileLimit /\ path # <<>> /\ Lower(path) \notin a.seen /\ ~(e.size < 0)
             /\ b = Register(a, e, path)
        BY <1>1, <1>6, ScanEntryFields
    <2>3. Cardinality(F) \in Nat
        BY FilesFinite
    <2>4. Register(a, e, path) =
            [count |-> a.count + 1, seen |-> a.seen \cup {Lower(path)}, bytes |-> a.bytes + e.size,
             hard |-> a.hard \/ a.bytes + e.size > UnpackedLimit
                        \/ (path = <<"manifest.json">> /\ e.size > ManifestLimit),
             errors |-> a.errors + TypeErrors(e)
                          + (IF path = <<"manifest.json">> /\ e.size > ManifestLimit THEN 1 ELSE 0)
                          + (IF a.bytes + e.size > UnpackedLimit /\ a.bytes <= UnpackedLimit THEN 1 ELSE 0),
             entries |-> a.entries \cup {[path |-> path, size |-> e.size, actual |-> e.actual]}]
        BY DEF Register
    <2>5. /\ (e.raw.absolute \/ EntryPath(file, n) = <<>>
                \/ \E m \in DOMAIN EntryPath(file, n) : EntryPath(file, n)[m] \in {"..", "reserved"})
             <=> path = <<>>
          /\ path # <<>> => path = EntryPath(file, n)
        BY <1>1, Normalized DEF EntryPath
    <2>6. EntryFine(file, n) <=>
            /\ e.allowed /\ e.size >= 0 /\ path # <<>>
            /\ path = <<"manifest.json">> => e.size <= ManifestLimit
        <3> HIDE DEF path
        <3> QED
            BY <2>5 DEF EntryFine
    <2> HIDE DEF b, e, F, G, s, path
    <2>7. CASE ~GoodUpTo(file, n - 1)
        <3>1. a.errors # 0 /\ ~GoodUpTo(file, n)
            BY <2>1, <2>7 DEF ScanInv
        <3>2. b.errors >= a.errors
            BY <1>3, <1>4, <2>2, <2>4
        <3>3. b.errors # 0
            BY <1>3, <3>1, <3>2
        <3> QED
            BY <1>2, <3>1, <3>3 DEF ScanInv, b, e
    <2>8. CASE GoodUpTo(file, n - 1)
        <3>1. /\ a.errors = 0 /\ a.hard = FALSE /\ a.count = Cardinality(F)
              /\ a.seen = {LowerPath(file, k) : k \in F} /\ a.bytes = s
              /\ a.entries = {[path |-> EntryPath(file, k), size |-> file.entries[k].size,
                        actual |-> file.entries[k].actual] : k \in F}
              /\ a.bytes <= UnpackedLimit
            BY <1>1, <2>8 DEF ScanInv, GoodUpTo, Accumulated, F, s
        <3>2. Cardinality(F) <= FileLimit
            BY <2>8 DEF GoodUpTo, F
        <3>3. path # <<>> => (Lower(path) \in a.seen <=> \E k \in F : LowerPath(file, k) = LowerPath(file, n))
            BY <2>5, <3>1 DEF LowerPath
        <3>4. CASE /\ a.count < FileLimit /\ path # <<>> /\ Lower(path) \notin a.seen /\ ~(e.size < 0)
                   /\ b = Register(a, e, path)
            <4>1. GoodUpTo(file, n) <=>
                    /\ e.allowed
                    /\ path = <<"manifest.json">> => e.size <= ManifestLimit
                    /\ s + e.size <= UnpackedLimit
                BY <1>1, <1>4, <2>1, <2>3, <2>6, <2>8, <3>1, <3>3, <3>4
            <4>2. /\ b.errors = TypeErrors(e)
                        + (IF path = <<"manifest.json">> /\ e.size > ManifestLimit THEN 1 ELSE 0)
                        + (IF s + e.size > UnpackedLimit THEN 1 ELSE 0)
                  /\ b.hard <=> s + e.size > UnpackedLimit
                                  \/ (path = <<"manifest.json">> /\ e.size > ManifestLimit)
                  /\ b.count = Cardinality(F) + 1 /\ b.bytes = s + e.size
                  /\ b.seen = a.seen \cup {Lower(path)}
                  /\ b.entries = a.entries \cup {[path |-> path, size |-> e.size, actual |-> e.actual]}
                <5> DEFINE over == s + e.size > UnpackedLimit
                           large == path = <<"manifest.json">> /\ e.size > ManifestLimit
                           d == a.hard \/ over \/ large
                           x == a.errors + TypeErrors(e) + (IF large THEN 1 ELSE 0)
                                  + (IF over /\ a.bytes <= UnpackedLimit THEN 1 ELSE 0)
                <5>1. b = [count |-> a.count + 1, seen |-> a.seen \cup {Lower(path)}, bytes |-> s + e.size,
                           hard |-> d, errors |-> x,
                           entries |-> a.entries \cup {[path |-> path, size |-> e.size, actual |-> e.actual]}]
                    BY <2>4, <3>1, <3>4
                <5>2. (d <=> over \/ large)
                      /\ x = TypeErrors(e) + (IF large THEN 1 ELSE 0) + (IF over THEN 1 ELSE 0)
                    BY <1>3, <3>1
                <5> HIDE DEF d, x, over, large
                <5>3. /\ b.errors = x /\ b.hard = d /\ b.count = a.count + 1 /\ b.bytes = s + e.size
                      /\ b.seen = a.seen \cup {Lower(path)}
                      /\ b.entries = a.entries \cup {[path |-> path, size |-> e.size, actual |-> e.actual]}
                    BY <5>1
                <5> QED
                    BY <3>1, <5>2, <5>3 DEF over, large
            <4>3. b.errors = 0 <=> GoodUpTo(file, n)
                BY <1>1, <1>3, <1>4, <4>1, <4>2
            <4>4. b.hard => b.errors # 0
                BY <1>1, <1>3, <1>4, <4>2
            <4>5. b.seen = {LowerPath(file, k) : k \in G}
                BY <2>1, <2>5, <3>1, <3>4, <4>2 DEF LowerPath
            <4>6. b.entries = {[path |-> EntryPath(file, k), size |-> file.entries[k].size,
                        actual |-> file.entries[k].actual] : k \in G}
                <5> DEFINE r(k) == [path |-> EntryPath(file, k), size |-> file.entries[k].size,
                        actual |-> file.entries[k].actual]
                <5>1. r(n) = [path |-> path, size |-> e.size, actual |-> e.actual]
                    BY <2>5, <3>4 DEF e
                <5>2. a.entries = {r(k) : k \in F}
                    BY <3>1
                <5> HIDE DEF r
                <5>3. b.entries = {r(k) : k \in G}
                    BY <2>1, <4>2, <5>1, <5>2
                <5> QED
                    BY <5>3 DEF r
            <4> QED
                BY <1>2, <2>1, <4>2, <4>3, <4>4, <4>5, <4>6 DEF ScanInv, b, e, F, G, s
        <3>5. CASE ~(/\ a.count < FileLimit /\ path # <<>> /\ Lower(path) \notin a.seen /\ ~(e.size < 0)
                     /\ b = Register(a, e, path))
            <4>1. ~GoodUpTo(file, n)
                BY <1>1, <1>3, <1>4, <2>1, <2>2, <2>3, <2>6, <2>8, <3>1, <3>3, <3>5
            <4>2. b.errors # 0
                BY <1>3, <1>4, <2>2, <2>3, <3>1, <3>2, <3>5
            <4> QED
                BY <1>2, <4>1, <4>2 DEF ScanInv, b, e
        <3> QED
            BY <3>4, <3>5
    <2> QED
        BY <2>7, <2>8
<1> QED
    BY <1>5, <1>6

\* The scan reports no error exactly for an archive that breaks no rule.
LEMMA ScanOutcome ==
  ASSUME NEW file \in ProfilePackage
  PROVE  ScanInv(file, Len(file.entries), Scan(file))
<1> DEFINE L == Len(file.entries)
           h == Scanned(file)
           T == {n \in Nat : n <= L => ScanInv(file, n, h[n])}
<1>1. L \in Nat
    BY DEF ProfilePackage
<1>2. /\ h[0] = NoEntries /\ h[0] \in Accumulated
      /\ \A n \in 1 .. L : h[n] = ScanEntry(h[n - 1], file.entries[n])
      /\ Scan(file) = h[L] /\ SizeUpTo(file)[0] = 0
    BY <1>1, ScanUnfolds, SizeUnfolds
<1> HIDE DEF h, L
<1>3. 0 \in T
    <2>1. FilesUpTo(file, 0) = {}
        <3>1. \A k \in FilesOf(file) : k \in Nat /\ k >= 1
            BY DEF FilesOf, ProfilePackage
        <3> QED
            BY <3>1 DEF FilesUpTo
    <2>2. GoodUpTo(file, 0)
        BY <1>2, <2>1, FS_EmptySet, PackageAssumption DEF GoodUpTo
    <2>3. ScanInv(file, 0, h[0])
        BY <1>2, <2>1, <2>2, FS_EmptySet DEF ScanInv, NoEntries
    <2> QED
        BY <2>3
<1>4. ASSUME NEW n \in T PROVE n + 1 \in T
    <2>1. SUFFICES ASSUME n + 1 <= L PROVE ScanInv(file, n + 1, h[n + 1])
        OBVIOUS
    <2>2. n + 1 \in 1 .. L /\ ScanInv(file, n, h[n]) /\ (n + 1) - 1 = n
        BY <1>1, <2>1
    <2> QED
        BY <1>2, <2>2, ScanStep DEF L
<1>5. T = Nat
    <2> HIDE DEF T
    <2>1. T \in SUBSET Nat
        BY DEF T
    <2> QED
        BY <1>3, <1>4, <2>1, NatSetInduction
<1> QED
    BY <1>1, <1>2, <1>5 DEF L

-----------------------------------------------------------------------------
(* Resolving references                                                    *)

\* How many of a set of positions are up to k.
Rank(K, k) == Cardinality({i \in K : i <= k})

\* Positions in their order have the ranks 1, 2, and so on.
LEMMA Ranks ==
  ASSUME NEW N \in Nat, NEW K \in SUBSET (1 .. N)
  PROVE  /\ IsFiniteSet(K) /\ Cardinality(K) \in Nat
         /\ \A k \in K : Rank(K, k) \in 1 .. Cardinality(K)
         /\ \A n \in 1 .. Cardinality(K) : \E k \in K : Rank(K, k) = n
         /\ \A j, k \in K : j < k => Rank(K, j) < Rank(K, k)
<1> DEFINE Below(k) == {j \in K : j < k}
<1>1. IsFiniteSet(K) /\ Cardinality(K) \in Nat
    <2>1. IsFiniteSet(1 .. N)
        BY FS_Interval
    <2> QED
        BY <2>1, FS_Subset, FS_CardinalityType
<1>2. \A i, k \in K : k \in Nat /\ ~(k < k) /\ (i <= k <=> i < k \/ i = k)
    <2>1. \A k \in K : k \in Nat
        OBVIOUS
    <2> QED
        BY <2>1
<1>3. ASSUME NEW k \in K PROVE Rank(K, k) = Cardinality(Below(k)) + 1 /\ Cardinality(Below(k)) \in Nat
    <2>1. {i \in K : i <= k} = Below(k) \cup {k} /\ k \notin Below(k)
        BY <1>2
    <2>2. IsFiniteSet(Below(k))
        BY <1>1, FS_Subset
    <2> HIDE DEF Below
    <2> QED
        BY <2>1, <2>2, FS_AddElement, FS_CardinalityType DEF Rank
<1>4. ASSUME NEW k \in K PROVE Rank(K, k) \in 1 .. Cardinality(K)
    <2>1. {i \in K : i <= k} \subseteq K
        OBVIOUS
    <2>2. Rank(K, k) <= Cardinality(K)
        BY <1>1, <2>1, FS_Subset DEF Rank
    <2>3. Rank(K, k) = Cardinality(Below(k)) + 1 /\ Cardinality(Below(k)) \in Nat
        BY <1>3
    <2> HIDE DEF Below
    <2> QED
        BY <1>1, <2>2, <2>3
<1>5. ASSUME NEW n \in 1 .. Cardinality(K) PROVE \E k \in K : Rank(K, k) = n
    <2>1. PICK k \in K : Cardinality({j \in K : j < k}) = n - 1
        BY NthElement
    <2>2. Rank(K, k) = (n - 1) + 1
        BY <1>3, <2>1
    <2> QED
        BY <1>1, <2>2
<1>6. ASSUME NEW j \in K, NEW k \in K, j < k PROVE Rank(K, j) < Rank(K, k)
    <2>1. \A i \in K : i < j => i < k
        <3>1. \A i \in K : i \in Nat
            BY <1>2
        <3> QED
            BY <1>6, <3>1
    <2>2. Below(j) \subseteq Below(k)
        BY <2>1
    <2>3. IsFiniteSet(Below(k))
        BY <1>1, FS_Subset
    <2>4. Cardinality(Below(j)) <= Cardinality(Below(k))
        <3> HIDE DEF Below
        <3> QED
            BY <2>2, <2>3, FS_Subset
    <2>5. Cardinality(Below(j)) # Cardinality(Below(k))
        <3>1. j # k
            BY <1>2, <1>6
        <3> QED
            BY <3>1, SameRank
    <2> HIDE DEF Below
    <2> QED
        BY <1>3, <2>4, <2>5
<1> QED
    BY <1>1, <1>4, <1>5, <1>6

\* A name goes one directory down, ".." one up.
LEMMA DepthGrows ==
  ASSUME NEW p, NEW n \in Nat
  PROVE  /\ Depth(p, 0) = 0 /\ Depth(p, n) \in Int
         /\ Depth(p, n + 1) = Depth(p, n) + (IF p[n + 1] # ".." THEN 1 ELSE -1)
<1> DEFINE Names(m) == {k \in 1 .. m : p[k] # ".."}
           Ups(m) == {k \in 1 .. m : p[k] = ".."}
<1>1. \A m \in Nat : IsFiniteSet(Names(m)) /\ IsFiniteSet(Ups(m))
                     /\ Cardinality(Names(m)) \in Nat /\ Cardinality(Ups(m)) \in Nat
    <2> SUFFICES ASSUME NEW m \in Nat
                 PROVE  IsFiniteSet(Names(m)) /\ IsFiniteSet(Ups(m))
                        /\ Cardinality(Names(m)) \in Nat /\ Cardinality(Ups(m)) \in Nat
        OBVIOUS
    <2>1. IsFiniteSet(1 .. m)
        BY FS_Interval
    <2>2. IsFiniteSet(Names(m)) /\ IsFiniteSet(Ups(m))
        BY <2>1, FS_Subset
    <2> HIDE DEF Names, Ups
    <2> QED
        BY <2>2, FS_CardinalityType
<1>2. \A m : Depth(p, m) = Cardinality(Names(m)) - Cardinality(Ups(m))
    BY DEF Depth
<1>3. Names(0) = {} /\ Ups(0) = {}
    OBVIOUS
<1>4. 1 .. n + 1 = (1 .. n) \cup {n + 1} /\ n + 1 \notin 1 .. n
    OBVIOUS
<1>5. n + 1 \notin Names(n) /\ n + 1 \notin Ups(n)
    BY <1>4
<1>6. p[n + 1] # ".." => Names(n + 1) = Names(n) \cup {n + 1} /\ Ups(n + 1) = Ups(n)
    BY <1>4
<1>7. p[n + 1] = ".." => Names(n + 1) = Names(n) /\ Ups(n + 1) = Ups(n) \cup {n + 1}
    BY <1>4
<1> HIDE DEF Names, Ups
<1>8. p[n + 1] # ".." => Cardinality(Names(n + 1)) = Cardinality(Names(n)) + 1
    BY <1>1, <1>5, <1>6, FS_AddElement
<1>9. p[n + 1] = ".." => Cardinality(Ups(n + 1)) = Cardinality(Ups(n)) + 1
    BY <1>1, <1>5, <1>7, FS_AddElement
<1>10. Depth(p, 0) = 0
    BY <1>2, <1>3, FS_EmptySet
<1> QED
    BY <1>1, <1>2, <1>6, <1>7, <1>8, <1>9, <1>10

\* The names that are left after the first m segments of a path.
Left(p, m) == {k \in 1 .. m : p[k] # ".." /\ \A i \in k .. m : Depth(p, i) >= Depth(p, k)}

\* The stack holds the names that are left, each at the place of its depth.
StackInv(p, m, stack) ==
  /\ stack.inside <=> \A i \in 1 .. m : Depth(p, i) >= 0
  /\ stack.inside =>
       /\ Len(stack.path) = Depth(p, m) /\ Cardinality(Left(p, m)) = Depth(p, m)
       /\ \A k \in Left(p, m) :
            /\ stack.path[Rank(Left(p, m), k)] = p[k]
            /\ Depth(p, k) = Rank(Left(p, m), k)

Stacks == [path : Seq(Segments), inside : BOOLEAN]

\* The outcome of each branch of a step on the stack.
LEMMA DescendFields ==
  ASSUME NEW stack \in Stacks, NEW s \in Segments
  PROVE  /\ Descend(stack, s) \in Stacks
         /\ ~stack.inside => Descend(stack, s) = stack
         /\ stack.inside /\ s # ".." => /\ Descend(stack, s).path = Append(stack.path, s)
                                        /\ Descend(stack, s).inside
         /\ stack.inside /\ s = ".." /\ stack.path = <<>> => ~Descend(stack, s).inside
         /\ stack.inside /\ s = ".." /\ stack.path # <<>>
              => Descend(stack, s).path = Front(stack.path) /\ Descend(stack, s).inside
<1>1. stack.path \in Seq(Segments) /\ stack.inside \in BOOLEAN
      /\ stack = [path |-> stack.path, inside |-> stack.inside]
    BY DEF Stacks
<1>2. stack.path # <<>> => Front(stack.path) \in Seq(Segments)
    BY <1>1 DEF Front
<1>3. Append(stack.path, s) \in Seq(Segments)
    BY <1>1
<1>4. ASSUME NEW q \in Seq(Segments)
      PROVE  [stack EXCEPT !.path = q] = [path |-> q, inside |-> stack.inside]
    BY <1>1
<1>5. [stack EXCEPT !.inside = FALSE] \in Stacks /\ ~[stack EXCEPT !.inside = FALSE].inside
    BY <1>1 DEF Stacks
<1> QED
    BY <1>1, <1>2, <1>3, <1>4, <1>5 DEF Descend, Stacks

\* One more segment: a name stays, ".." removes the names of its directory.
LEMMA LeftGrows ==
  ASSUME NEW p, NEW m \in Nat
  PROVE  /\ p[m + 1] # ".." => Left(p, m + 1) = Left(p, m) \cup {m + 1}
         /\ p[m + 1] = ".." => Left(p, m + 1) = {k \in Left(p, m) : Depth(p, k) <= Depth(p, m) - 1}
         /\ Left(p, m) \in SUBSET (1 .. m) /\ m + 1 \notin Left(p, m)
<1>1. \A k \in 1 .. m + 1 : Depth(p, k) \in Int
    BY DepthGrows
<1>2. Depth(p, m) \in Int /\ Depth(p, m + 1) = Depth(p, m) + (IF p[m + 1] # ".." THEN 1 ELSE -1)
    BY DepthGrows
<1>3. \A k \in 1 .. m : k .. m + 1 = (k .. m) \cup {m + 1} /\ m \in k .. m
    OBVIOUS
<1>4. 1 .. m + 1 = (1 .. m) \cup {m + 1} /\ m + 1 \notin 1 .. m
    OBVIOUS
<1>5. \A k \in 1 .. m : k \in Left(p, m + 1) <=> k \in Left(p, m) /\ Depth(p, m + 1) >= Depth(p, k)
    BY <1>3, <1>4 DEF Left
<1>6. \A k \in Left(p, m) : k \in 1 .. m /\ Depth(p, m) >= Depth(p, k)
    BY <1>3 DEF Left
<1>7. m + 1 \in Left(p, m + 1) <=> p[m + 1] # ".."
    <2>1. \A i \in m + 1 .. m + 1 : i = m + 1
        OBVIOUS
    <2>2. Depth(p, m + 1) >= Depth(p, m + 1) /\ m + 1 \in 1 .. m + 1
        BY <1>1
    <2> QED
        BY <2>1, <2>2 DEF Left
<1>8. Left(p, m + 1) \subseteq 1 .. m + 1
    BY DEF Left
<1>9. CASE p[m + 1] # ".."
    <2>1. \A k \in Left(p, m) : Depth(p, m + 1) >= Depth(p, k)
        BY <1>1, <1>2, <1>4, <1>6, <1>9
    <2> QED
        BY <1>4, <1>5, <1>6, <1>7, <1>8, <1>9, <2>1
<1>10. CASE p[m + 1] = ".."
    <2>1. \A k \in Left(p, m) : Depth(p, m + 1) >= Depth(p, k) <=> Depth(p, k) <= Depth(p, m) - 1
        BY <1>1, <1>2, <1>4, <1>6, <1>10
    <2> QED
        BY <1>4, <1>5, <1>6, <1>7, <1>8, <1>10, <2>1
<1> QED
    BY <1>4, <1>6, <1>9, <1>10

\* The stack stays right by one more segment.
LEMMA StackStep ==
  ASSUME NEW p, NEW m \in Nat, p[m + 1] \in Segments, NEW stack \in Stacks, StackInv(p, m, stack)
  PROVE  StackInv(p, m + 1, Descend(stack, p[m + 1]))
<1> DEFINE s == p[m + 1]
           next == Descend(stack, s)
           K == Left(p, m)
           J == Left(p, m + 1)
           d == Depth(p, m)
<1>1. stack.path \in Seq(Segments) /\ Len(stack.path) \in Nat
    BY DEF Stacks
<1>2. d \in Int /\ Depth(p, m + 1) = d + (IF s # ".." THEN 1 ELSE -1)
    BY DepthGrows
<1>3. (\A i \in 1 .. m + 1 : Depth(p, i) >= 0) <=> (\A i \in 1 .. m : Depth(p, i) >= 0) /\ Depth(p, m + 1) >= 0
    <2>1. 1 .. m + 1 = (1 .. m) \cup {m + 1}
        OBVIOUS
    <2> QED
        BY <2>1
<1>4. /\ K \in SUBSET (1 .. m) /\ m + 1 \notin K
      /\ s # ".." => J = K \cup {m + 1}
      /\ s = ".." => J = {k \in K : Depth(p, k) <= d - 1}
    BY LeftGrows
<1>5. /\ IsFiniteSet(K) /\ Cardinality(K) \in Nat
      /\ \A k \in K : Rank(K, k) \in 1 .. Cardinality(K)
      /\ \A n \in 1 .. Cardinality(K) : \E k \in K : Rank(K, k) = n
      /\ \A j, k \in K : j < k => Rank(K, j) < Rank(K, k)
    BY <1>4, Ranks
<1>6. \A k \in K : k \in 1 .. m
    BY <1>4
<1>7. CASE ~stack.inside
    <2>1. next = stack
        BY <1>7, DescendFields
    <2> QED
        BY <1>3, <1>7, <2>1 DEF StackInv
<1>8. CASE stack.inside
    <2>1. /\ Len(stack.path) = d /\ Cardinality(K) = d /\ \A i \in 1 .. m : Depth(p, i) >= 0
          /\ \A k \in K : stack.path[Rank(K, k)] = p[k] /\ Depth(p, k) = Rank(K, k)
        BY <1>8 DEF StackInv
    <2>2. CASE s # ".."
        <3>1. next.inside /\ next.path = Append(stack.path, s)
            BY <1>8, <2>2, DescendFields
        <3>2. Depth(p, m + 1) = d + 1 /\ d \in Nat
            BY <1>1, <1>2, <2>1, <2>2
        <3>3. J = K \cup {m + 1} /\ m + 1 \notin K
            BY <1>4, <2>2
        <3>4. Cardinality(J) = d + 1
            <4> HIDE DEF K, J, d
            <4> QED
                BY <1>5, <2>1, <3>3, FS_AddElement
        <3>5. \A k \in K : Rank(J, k) = Rank(K, k)
            <4>1. \A k \in K : {i \in J : i <= k} = {i \in K : i <= k}
                <5>1. \A k \in K : ~(m + 1 <= k)
                    BY <1>6
                <5> QED
                    BY <3>3, <5>1
            <4> QED
                BY <4>1 DEF Rank
        <3>6. Rank(J, m + 1) = d + 1
            <4>1. {i \in J : i <= m + 1} = J
                <5>1. \A i \in J : i <= m + 1
                    BY <1>6, <3>3
                <5> QED
                    BY <5>1
            <4> QED
                BY <3>4, <4>1 DEF Rank
        <3>7. /\ Len(next.path) = d + 1 /\ next.path[d + 1] = s
              /\ \A i \in 1 .. d : next.path[i] = stack.path[i]
            <4> HIDE DEF d, s, next
            <4> QED
                BY <1>1, <2>1, <3>1, AppendType DEF s
        <3>8. \A k \in J : next.path[Rank(J, k)] = p[k] /\ Depth(p, k) = Rank(J, k)
            <4>1. ASSUME NEW k \in K PROVE next.path[Rank(J, k)] = p[k] /\ Depth(p, k) = Rank(J, k)
                <5>1. Rank(K, k) \in 1 .. d
                    BY <1>5, <2>1
                <5> QED
                    BY <2>1, <3>5, <3>7, <5>1
            <4>2. next.path[Rank(J, m + 1)] = p[m + 1] /\ Depth(p, m + 1) = Rank(J, m + 1)
                BY <3>2, <3>6, <3>7
            <4> QED
                BY <3>3, <4>1, <4>2
        <3>9. \A i \in 1 .. m + 1 : Depth(p, i) >= 0
            BY <1>3, <2>1, <3>2
        <3> QED
            BY <3>1, <3>2, <3>4, <3>7, <3>8, <3>9 DEF StackInv
    <2>3. CASE s = ".." /\ stack.path = <<>>
        <3>1. d = 0 /\ Depth(p, m + 1) = -1
            BY <1>2, <2>1, <2>3
        <3>2. ~next.inside
            BY <1>8, <2>3, DescendFields
        <3> QED
            BY <1>3, <3>1, <3>2 DEF StackInv
    <2>4. CASE s = ".." /\ stack.path # <<>>
        <3>1. next.inside /\ next.path = Front(stack.path)
            BY <1>8, <2>4, DescendFields
        <3>2. d \in Nat /\ d >= 1 /\ Depth(p, m + 1) = d - 1
            BY <1>1, <1>2, <2>1, <2>4
        <3>3. PICK top \in K : Rank(K, top) = d
            BY <1>5, <2>1, <3>2
        <3>4. \A k \in K : Rank(K, k) \in 1 .. d /\ (Rank(K, k) <= d - 1 <=> k < top) /\ (k # top => k < top)
            <4> SUFFICES ASSUME NEW k \in K
                         PROVE  Rank(K, k) \in 1 .. d /\ (Rank(K, k) <= d - 1 <=> k < top)
                                /\ (k # top => k < top)
                OBVIOUS
            <4>1. Rank(K, k) \in 1 .. d /\ k \in Nat /\ top \in Nat
                BY <1>5, <1>6, <2>1
            <4>2. top < k => d < Rank(K, k)
                BY <1>5, <3>3
            <4>3. k < top => Rank(K, k) < d
                BY <1>5, <3>3
            <4>4. k = top => Rank(K, k) = d
                BY <3>3
            <4> QED
                BY <3>2, <4>1, <4>2, <4>3, <4>4
        <3>5. J = K \ {top}
            <4>1. \A k \in K : k \in J <=> Rank(K, k) <= d - 1
                BY <1>4, <2>1, <2>4
            <4>2. J \subseteq K /\ ~(top < top)
                BY <1>4, <1>6, <2>4
            <4> QED
                BY <3>4, <4>1, <4>2
        <3>6. Cardinality(J) = d - 1
            <4> HIDE DEF K, J, d
            <4> QED
                BY <1>5, <2>1, <3>3, <3>5, FS_RemoveElement
        <3>7. \A k \in J : Rank(J, k) = Rank(K, k)
            <4>1. \A k \in J : k \in K /\ ~(top <= k)
                BY <1>6, <3>4, <3>5
            <4>2. \A k \in J : {i \in J : i <= k} = {i \in K : i <= k}
                BY <3>5, <4>1
            <4> QED
                BY <4>2 DEF Rank
        <3>8. Len(next.path) = d - 1 /\ \A i \in 1 .. d - 1 : next.path[i] = stack.path[i]
            <4>1. Len(stack.path) - 1 \in 0 .. Len(stack.path) /\ Len(stack.path) = d
                BY <1>1, <2>1, <3>2
            <4> HIDE DEF d, next
            <4>2. /\ Len(SubSeq(stack.path, 1, Len(stack.path) - 1)) = Len(stack.path) - 1
                  /\ \A i \in 1 .. Len(stack.path) - 1 :
                       SubSeq(stack.path, 1, Len(stack.path) - 1)[i] = stack.path[i]
                BY <1>1, <4>1, PrefixType
            <4> QED
                BY <3>1, <4>1, <4>2 DEF Front
        <3>9. \A k \in J : next.path[Rank(J, k)] = p[k] /\ Depth(p, k) = Rank(J, k)
            <4> SUFFICES ASSUME NEW k \in J
                         PROVE  next.path[Rank(J, k)] = p[k] /\ Depth(p, k) = Rank(J, k)
                OBVIOUS
            <4>1. k \in K /\ k # top
                BY <3>5
            <4>2. Rank(K, k) \in 1 .. d - 1
                BY <3>2, <3>4, <4>1
            <4> QED
                BY <2>1, <3>7, <3>8, <4>1, <4>2
        <3>10. \A i \in 1 .. m + 1 : Depth(p, i) >= 0
            BY <1>3, <2>1, <3>2
        <3> QED
            BY <3>1, <3>2, <3>6, <3>8, <3>9, <3>10 DEF StackInv
    <2> QED
        BY <2>2, <2>3, <2>4
<1> QED
    BY <1>7, <1>8

\* The function that resolveRelativePath evaluates.
Stacked(base, segments) ==
  CHOOSE g : g = [n \in 0 .. Len(segments) |->
                    IF n = 0 THEN [path |-> base, inside |-> TRUE] ELSE Descend(g[n - 1], segments[n])]

\* The function of a stack exists.
LEMMA StackFunction ==
  ASSUME NEW first \in Stacks, NEW L \in Nat, NEW step \in [1 .. L -> [Stacks -> Stacks]]
  PROVE  \E g \in [0 .. L -> Stacks] : g[0] = first /\ \A n \in 1 .. L : g[n] = step[n][g[n - 1]]
BY StepFunction

\* The stack goes from segment to segment.
LEMMA StackUnfolds ==
  ASSUME NEW root \in Seq(Segments), NEW s \in Seq(Segments)
  PROVE  /\ Stacked(root, s)[0] = [path |-> root, inside |-> TRUE]
         /\ \A n \in 0 .. Len(s) : Stacked(root, s)[n] \in Stacks
         /\ \A n \in 1 .. Len(s) : Stacked(root, s)[n] = Descend(Stacked(root, s)[n - 1], s[n])
<1> DEFINE L == Len(s)
           first == [path |-> root, inside |-> TRUE]
           step == [n \in 1 .. L |-> [a \in Stacks |-> Descend(a, s[n])]]
           Run(g) == [n \in 0 .. L |-> IF n = 0 THEN first ELSE Descend(g[n - 1], s[n])]
<1>1. L \in Nat /\ \A n \in 1 .. L : s[n] \in Segments
    BY SequenceFacts
<1>2. first \in Stacks
    BY DEF Stacks
<1>3. step \in [1 .. L -> [Stacks -> Stacks]]
    BY <1>1, DescendFields
<1>4. \A n \in 1 .. L, a \in Stacks : step[n][a] = Descend(a, s[n])
    OBVIOUS
<1> HIDE DEF first
<1>5. PICK g \in [0 .. L -> Stacks] : g[0] = first /\ \A n \in 1 .. L : g[n] = step[n][g[n - 1]]
    <2>1. L \in Nat
        BY <1>1
    <2> HIDE DEF step, L
    <2> QED
        BY <1>2, <1>3, <2>1, StackFunction
<1>6. \A n \in 1 .. L : n - 1 \in 0 .. L /\ g[n] = Descend(g[n - 1], s[n])
    <2>1. L \in Nat
        BY <1>1
    <2> HIDE DEF step, L
    <2>2. \A n \in 1 .. L : n - 1 \in 0 .. L
        BY <2>1
    <2>3. \A n \in 1 .. L : g[n - 1] \in Stacks /\ g[n] = step[n][g[n - 1]]
        BY <1>5, <2>2
    <2> QED
        BY <1>4, <2>2, <2>3
<1>7. g = Run(g)
    <2>1. \A n \in 0 .. L : g[n] = IF n = 0 THEN first ELSE Descend(g[n - 1], s[n])
        BY <1>1, <1>5, <1>6
    <2> QED
        BY <1>5, <2>1
<1> DEFINE h == Stacked(root, s)
<1>8. h = Run(h)
    BY <1>7 DEF Stacked, first
<1> HIDE DEF h
<1>10. h[0] = first /\ \A n \in 1 .. L : h[n] = Descend(h[n - 1], s[n])
    <2>1. \A n \in 0 .. L : h[n] = IF n = 0 THEN first ELSE Descend(h[n - 1], s[n])
        BY <1>8
    <2> QED
        BY <1>1, <2>1
<1>11. \A n \in 0 .. L : h[n] \in Stacks
    <2> DEFINE T == {n \in Nat : n <= L => h[n] \in Stacks}
    <2>1. 0 \in T
        BY <1>2, <1>10
    <2>2. ASSUME NEW n \in T PROVE n + 1 \in T
        <3>1. SUFFICES ASSUME n + 1 <= L PROVE h[n + 1] \in Stacks
            OBVIOUS
        <3>2. n + 1 \in 1 .. L /\ h[n] \in Stacks /\ (n + 1) - 1 = n
            BY <1>1, <3>1
        <3>3. h[n + 1] = Descend(h[n], s[n + 1])
            BY <1>10, <3>2
        <3>4. s[n + 1] \in Segments
            BY <1>1, <3>2
        <3> QED
            BY <3>2, <3>3, <3>4, DescendFields
    <2>3. T = Nat
        <3> HIDE DEF T
        <3>1. T \in SUBSET Nat
            BY DEF T
        <3> QED
            BY <2>1, <2>2, <3>1, NatSetInduction
    <2> QED
        BY <1>1, <2>3
<1> QED
    BY <1>10, <1>11 DEF h, first

\* A path of names alone is as deep as it is long, and all of it stays.
LEMMA NamesStay ==
  ASSUME NEW p, NEW B \in Nat, \A i \in 1 .. B : p[i] # ".."
  PROVE  /\ \A m \in 0 .. B : Depth(p, m) = m
         /\ Left(p, B) = 1 .. B
         /\ Cardinality(1 .. B) = B /\ \A k \in 1 .. B : Rank(1 .. B, k) = k
<1>1. \A m \in 0 .. B : Depth(p, m) = m
    <2> DEFINE T == {m \in Nat : m <= B => Depth(p, m) = m}
    <2>1. 0 \in T
        BY DepthGrows
    <2>2. ASSUME NEW m \in T PROVE m + 1 \in T
        <3>1. SUFFICES ASSUME m + 1 <= B PROVE Depth(p, m + 1) = m + 1
            OBVIOUS
        <3>2. m + 1 \in 1 .. B /\ m \in Nat /\ Depth(p, m) = m
            BY <3>1
        <3>3. Depth(p, m + 1) = Depth(p, m) + (IF p[m + 1] # ".." THEN 1 ELSE -1)
            BY <3>2, DepthGrows
        <3> QED
            BY <3>2, <3>3
    <2>3. T = Nat
        <3> HIDE DEF T
        <3>1. T \in SUBSET Nat
            BY DEF T
        <3> QED
            BY <2>1, <2>2, <3>1, NatSetInduction
    <2> QED
        BY <2>3
<1>2. Left(p, B) = 1 .. B
    <2>1. \A k \in 1 .. B : \A i \in k .. B : Depth(p, i) >= Depth(p, k)
        <3> SUFFICES ASSUME NEW k \in 1 .. B, NEW i \in k .. B PROVE Depth(p, i) >= Depth(p, k)
            OBVIOUS
        <3>1. i \in 0 .. B /\ k \in 0 .. B /\ i >= k
            OBVIOUS
        <3> QED
            BY <1>1, <3>1
    <2> QED
        BY <2>1 DEF Left
<1>3. ASSUME NEW k \in 0 .. B PROVE Cardinality(1 .. k) = k
    BY FS_Interval
<1>4. \A k \in 1 .. B : {i \in 1 .. B : i <= k} = 1 .. k
    OBVIOUS
<1>5. \A k \in 1 .. B : Rank(1 .. B, k) = k
    <2> SUFFICES ASSUME NEW k \in 1 .. B PROVE Rank(1 .. B, k) = k
        OBVIOUS
    <2>1. {i \in 1 .. B : i <= k} = 1 .. k /\ k \in 0 .. B
        BY <1>4
    <2> QED
        BY <1>3, <2>1 DEF Rank
<1>6. Cardinality(1 .. B) = B
    BY <1>3
<1> QED
    BY <1>1, <1>2, <1>5, <1>6

\* The stack and the meaning of a reference agree.
LEMMA Resolves ==
  ASSUME NEW base \in Seq(Segments), \A i \in 1 .. Len(base) : base[i] # "..",
         NEW reference \in ArchivePath, NEW target \in Seq(Segments)
  PROVE  LET resolved == resolveRelativePath(base, reference.segments)
         IN  /\ resolved \in Stacks
             /\ Denotes(base \o Proper(reference.segments), target)
                  <=> resolved.inside /\ resolved.path = target
<1> DEFINE s == Proper(reference.segments)
           p == base \o s
           B == Len(base)
           L == Len(s)
           N == B + L
           h == Stacked(base, s)
           r == resolveRelativePath(base, reference.segments)
<1>1. s \in Seq(Segments)
    BY ProperSegments
<1>2. r = h[L]
    BY DEF resolveRelativePath, Stacked
<1> HIDE DEF s
<1>3. B \in Nat /\ L \in Nat /\ N \in Nat
    BY <1>1
<1>4. /\ h[0] = [path |-> base, inside |-> TRUE]
      /\ \A n \in 0 .. L : h[n] \in Stacks
      /\ \A n \in 1 .. L : h[n] = Descend(h[n - 1], s[n])
    BY <1>1, StackUnfolds
<1>5. /\ Len(p) = N /\ DOMAIN p = 1 .. N
      /\ \A i \in 1 .. B : p[i] = base[i]
      /\ \A n \in 1 .. L : p[B + n] = s[n]
    BY <1>1
<1>6. \A n \in 1 .. L : s[n] \in Segments
    BY <1>1, SequenceFacts
<1> HIDE DEF p, h, r
<1>7. StackInv(p, B, h[0])
    <2>1. \A i \in 1 .. B : p[i] # ".."
        BY <1>5
    <2> HIDE DEF B, N, L
    <2>2. /\ \A m \in 0 .. B : Depth(p, m) = m
          /\ Left(p, B) = 1 .. B
          /\ Cardinality(1 .. B) = B /\ \A k \in 1 .. B : Rank(1 .. B, k) = k
        BY <1>3, <2>1, NamesStay
    <2>3. h[0].inside = TRUE /\ h[0].path = base
        BY <1>4
    <2>4. \A m \in 0 .. B : m >= 0 /\ (m \in 1 .. B => Depth(p, m) >= 0)
        BY <1>3, <2>2
    <2>5. Len(h[0].path) = B /\ \A k \in 1 .. B : k \in 0 .. B /\ h[0].path[k] = p[k]
        BY <1>3, <1>5, <2>3 DEF B
    <2> QED
        BY <1>3, <2>2, <2>3, <2>4, <2>5 DEF StackInv
<1>8. StackInv(p, N, r)
    <2> DEFINE T == {n \in Nat : n <= L => StackInv(p, B + n, h[n])}
    <2>1. 0 \in T
        BY <1>3, <1>7
    <2>2. ASSUME NEW n \in T PROVE n + 1 \in T
        <3>1. SUFFICES ASSUME n + 1 <= L PROVE StackInv(p, B + (n + 1), h[n + 1])
            OBVIOUS
        <3>2. n \in Nat /\ n + 1 \in 1 .. L /\ n \in 0 .. L /\ StackInv(p, B + n, h[n])
              /\ (n + 1) - 1 = n
            BY <1>3, <3>1
        <3>3. h[n + 1] = Descend(h[n], s[n + 1]) /\ h[n] \in Stacks
            BY <1>4, <3>2
        <3>4. p[(B + n) + 1] = s[n + 1] /\ p[(B + n) + 1] \in Segments /\ B + n \in Nat
              /\ (B + n) + 1 = B + (n + 1)
            <4>1. (B + n) + 1 = B + (n + 1)
                BY <1>3, <3>2
            <4> HIDE DEF B, L, N
            <4> QED
                BY <1>3, <1>5, <1>6, <3>2, <4>1
        <3> HIDE DEF B, L, N
        <3>5. StackInv(p, (B + n) + 1, Descend(h[n], p[(B + n) + 1]))
            BY <3>2, <3>3, <3>4, StackStep
        <3> QED
            BY <3>3, <3>4, <3>5
    <2>3. T = Nat
        <3> HIDE DEF T
        <3>1. T \in SUBSET Nat
            BY DEF T
        <3> QED
            BY <2>1, <2>2, <3>1, NatSetInduction
    <2> HIDE DEF B, L
    <2> QED
        BY <1>2, <1>3, <2>3
<1>9. r \in Stacks
    BY <1>2, <1>3, <1>4
<1> DEFINE K == Left(p, N)
<1>10. Denotes(p, target) <=>
         /\ \A n \in 1 .. N : Depth(p, n) >= 0
         /\ Cardinality(K) = Len(target)
         /\ \A k \in K : p[k] = target[Rank(K, k)]
    BY <1>5 DEF Denotes, Left, Rank
<1> HIDE DEF B, L, N
<1>11. /\ r.inside <=> \A i \in 1 .. N : Depth(p, i) >= 0
       /\ r.inside => /\ Len(r.path) = Cardinality(K)
                      /\ \A k \in K : r.path[Rank(K, k)] = p[k]
    BY <1>8 DEF StackInv
<1>12. r.path \in Seq(Segments)
    BY <1>9 DEF Stacks
<1>13. \A n \in 1 .. Cardinality(K) : \E k \in K : Rank(K, k) = n
    <2>1. K \in SUBSET (1 .. N)
        BY DEF Left
    <2> QED
        BY <1>3, <2>1, Ranks
<1> HIDE DEF K
<1>14. ASSUME Denotes(p, target) PROVE r.inside /\ r.path = target
    <2>1. r.inside /\ Len(r.path) = Len(target)
        BY <1>10, <1>11, <1>14
    <2>2. \A n \in 1 .. Len(target) : r.path[n] = target[n]
        BY <1>10, <1>11, <1>13, <1>14, <2>1
    <2> QED
        BY <1>12, <2>1, <2>2, SameElements
<1>15. ASSUME r.inside, r.path = target PROVE Denotes(p, target)
    BY <1>10, <1>11, <1>15
<1> QED
    BY <1>9, <1>14, <1>15 DEF p, r, s

-----------------------------------------------------------------------------
(* The manifest                                                            *)

\* As many values as indices: the values differ.
LEMMA DistinctCount ==
  ASSUME NEW n \in Nat, NEW S, NEW f \in [1 .. n -> S], NEW U
  PROVE  LET T == {f[k] : k \in 1 .. n}
             Differ == \A i, j \in 1 .. n : i # j => f[i] # f[j]
         IN  /\ Cardinality(T) = n <=> Differ
             /\ Cardinality(T \cap U) = n <=> Differ /\ \A k \in 1 .. n : f[k] \in U
<1> DEFINE T == {f[k] : k \in 1 .. n}
           I == 1 .. n
           Differ == \A i, j \in I : i # j => f[i] # f[j]
<1>1. IsFiniteSet(I) /\ Cardinality(I) = n
    BY FS_Interval
<1>2. f \in Surjection(I, T)
    <2>1. f \in [I -> T]
        OBVIOUS
    <2>2. \A t \in T : \E k \in I : f[k] = t
        OBVIOUS
    <2> HIDE DEF T, I
    <2> QED
        BY <2>1, <2>2, Fun_IsSurj
<1> HIDE DEF T
<1>3. f \in Injection(I, T) <=> Differ
    <2>1. f \in [I -> T]
        BY <1>2 DEF Surjection
    <2> HIDE DEF I
    <2> QED
        BY <2>1 DEF Injection, IsInjective
<1> HIDE DEF I, Differ
<1>4. IsFiniteSet(T) /\ Cardinality(T) <= Cardinality(I)
      /\ (Cardinality(T) = Cardinality(I) <=> f \in Injection(I, T))
    BY <1>1, <1>2, FS_Surjection
<1>5. Cardinality(T) = n <=> Differ
    BY <1>1, <1>3, <1>4
<1>6. T \cap U \subseteq T
    OBVIOUS
<1>7. /\ Cardinality(T \cap U) <= Cardinality(T) /\ Cardinality(T) \in Nat
      /\ Cardinality(T \cap U) \in Nat
      /\ Cardinality(T) = Cardinality(T \cap U) => T = T \cap U
    BY <1>4, <1>6, FS_Subset, FS_CardinalityType
<1>8. T \subseteq U <=> \A k \in I : f[k] \in U
    BY DEF T, I
<1>9. T \subseteq U <=> T \cap U = T
    OBVIOUS
<1>10. Cardinality(T \cap U) = n <=> Differ /\ T \subseteq U
    <2>1. ASSUME Cardinality(T \cap U) = n PROVE Differ /\ T \subseteq U
        <3>1. Cardinality(T) = n
            BY <1>1, <1>4, <1>7, <2>1
        <3> QED
            BY <1>5, <1>7, <1>9, <2>1, <3>1
    <2>2. ASSUME Differ, T \subseteq U PROVE Cardinality(T \cap U) = n
        BY <1>5, <1>9, <2>2
    <2> QED
        BY <2>1, <2>2
<1> QED
    BY <1>5, <1>8, <1>10 DEF T, I, Differ

\* A group of its own for every joint is a partition of the joints.
LEMMA GroupsAccepted ==
  ASSUME NEW profile \in RobotManifest
  PROVE  LET joints == profile.joints
             groups == profile.groups
         IN  GroupsPartition(profile) <=>
               /\ \A k \in DOMAIN joints :
                    Cardinality({g \in DOMAIN groups : joints[k].jointId \in groups[g]}) = 1
               /\ \A g \in DOMAIN groups : \A id \in groups[g] :
                    \E k \in DOMAIN joints : joints[k].jointId = id
<1> DEFINE joints == profile.joints
           groups == profile.groups
           D == DOMAIN groups
           Of(x) == {g \in D : x \in groups[g]}
           ids == {joints[k].jointId : k \in DOMAIN joints}
<1>1. GroupsPartition(profile) <=>
        /\ UNION ToSet(groups) = ids
        /\ \A i, j \in D : i # j => groups[i] \cap groups[j] = {}
    BY DEF GroupsPartition
<1>2. \A x : x \in UNION ToSet(groups) <=> \E g \in D : x \in groups[g]
    BY DEF ToSet
<1>3. IsFiniteSet(D)
    <2>1. groups \in Seq(SUBSET Nat)
        BY DEF RobotManifest
    <2>2. D = 1 .. Len(groups) /\ Len(groups) \in Nat
        BY <2>1
    <2> HIDE DEF groups, D
    <2> QED
        BY <2>2, FS_Interval
<1> HIDE DEF D
<1>4. \A x : Cardinality(Of(x)) = 1 <=> \E g : Of(x) = {g}
    <2>1. \A x : IsFiniteSet(Of(x))
        BY <1>3, FS_Subset
    <2> HIDE DEF Of
    <2> QED
        BY <2>1, FS_Singleton
<1> HIDE DEF joints, groups
<1>5. GroupsPartition(profile) <=>
        /\ \A x \in ids : \E g : Of(x) = {g}
        /\ \A g \in D : \A x \in groups[g] : x \in ids
    <2>1. ASSUME GroupsPartition(profile), NEW x \in ids PROVE \E g : Of(x) = {g}
        <3>1. PICK g \in D : x \in groups[g]
            BY <1>1, <1>2, <2>1
        <3>2. \A i \in Of(x) : i = g
            BY <1>1, <2>1, <3>1
        <3> QED
            BY <3>1, <3>2
    <2>2. ASSUME GroupsPartition(profile), NEW g \in D, NEW x \in groups[g] PROVE x \in ids
        <3> HIDE DEF ids
        <3> QED
            BY <1>1, <1>2, <2>2
    <2>3. ASSUME \A x \in ids : \E g : Of(x) = {g}, \A g \in D : \A x \in groups[g] : x \in ids
          PROVE  GroupsPartition(profile)
        <3> HIDE DEF ids
        <3>1. UNION ToSet(groups) = ids
            <4>1. \A x \in ids : \E g \in D : x \in groups[g]
                BY <2>3
            <4> QED
                BY <1>2, <2>3, <4>1
        <3>2. ASSUME NEW i \in D, NEW j \in D, NEW x, x \in groups[i], x \in groups[j] PROVE i = j
            <4>1. i \in Of(x) /\ j \in Of(x) /\ x \in ids
                BY <2>3, <3>2
            <4> QED
                BY <2>3, <4>1
        <3> QED
            BY <1>1, <3>1, <3>2
    <2> QED
        BY <2>1, <2>2, <2>3
<1> HIDE DEF Of
<1>6. (\A x \in ids : \E g : Of(x) = {g}) <=> \A k \in DOMAIN joints : Cardinality(Of(joints[k].jointId)) = 1
    BY <1>4
<1>7. \A x : x \in ids <=> \E k \in DOMAIN joints : joints[k].jointId = x
    OBVIOUS
<1> HIDE DEF ids
<1>8. GroupsPartition(profile) <=>
        /\ \A k \in DOMAIN joints : Cardinality(Of(joints[k].jointId)) = 1
        /\ \A g \in D : \A x \in groups[g] : \E k \in DOMAIN joints : joints[k].jointId = x
    BY <1>5, <1>6, <1>7
<1> QED
    BY <1>8 DEF D, joints, groups, Of

\* The manifest's checks together with the URDF's names are what a package's
\* joints must be.
LEMMA JointsAccepted ==
  ASSUME NEW file \in ProfilePackage
  PROVE  LET joints == file.profile.joints
         IN  /\ DOMAIN joints = 1 .. Len(joints) /\ Len(joints) \in Nat
             /\ file.profile.wellFormed /\ JointsSound(file) <=>
                  /\ parseRobotProfile(file.profile)
                  /\ \A k \in DOMAIN joints : joints[k].urdfJointName \in file.urdf.joints
<1> DEFINE profile == file.profile
           joints == profile.joints
           n == Len(joints)
           names == [k \in 1 .. n |-> joints[k].urdfJointName]
           indices == [k \in 1 .. n |-> joints[k].protocolIndex]
           ids == [k \in 1 .. n |-> joints[k].jointId]
           Differ(f) == \A i, j \in 1 .. n : i # j => f[i] # f[j]
<1>1. profile \in RobotManifest /\ joints \in Seq(ManifestJoint)
    BY DEF ProfilePackage, RobotManifest
<1>2. n \in Nat /\ DOMAIN joints = 1 .. n /\ \A k \in 1 .. n : joints[k] \in ManifestJoint
    <2> HIDE DEF joints
    <2> QED
        BY <1>1, SequenceFacts
<1> HIDE DEF joints
<1>3. names \in [1 .. n -> Nat] /\ indices \in [1 .. n -> Nat] /\ ids \in [1 .. n -> Nat]
    BY <1>2 DEF ManifestJoint
<1> HIDE DEF n
<1>4. ASSUME NEW f \in [1 .. n -> Nat], NEW U
      PROVE  /\ Cardinality({f[k] : k \in 1 .. n}) = n <=> Differ(f)
             /\ Cardinality({f[k] : k \in 1 .. n} \cap U) = n
                  <=> Differ(f) /\ \A k \in 1 .. n : f[k] \in U
    BY <1>2, DistinctCount
<1>5. /\ {joints[k].urdfJointName : k \in 1 .. n} = {names[k] : k \in 1 .. n}
      /\ {joints[k].protocolIndex : k \in 1 .. n} = {indices[k] : k \in 1 .. n}
      /\ {joints[k].jointId : k \in 1 .. n} = {ids[k] : k \in 1 .. n}
    OBVIOUS
<1>6. /\ Distinct(joints, LAMBDA j : j.jointId) <=> Differ(ids)
      /\ Distinct(joints, LAMBDA j : j.urdfJointName) <=> Differ(names)
      /\ Distinct(joints, LAMBDA j : j.protocolIndex) <=> Differ(indices)
    BY <1>2 DEF Distinct
<1>7. (\A k \in 1 .. n : joints[k].urdfJointName \in file.urdf.joints)
        <=> \A k \in 1 .. n : names[k] \in file.urdf.joints
    OBVIOUS
<1> HIDE DEF names, indices, ids, Differ
<1>8. JointsSound(file) <=>
        /\ n = profile.dof
        /\ Cardinality({names[k] : k \in 1 .. n} \cap file.urdf.joints) = profile.dof
        /\ Cardinality({indices[k] : k \in 1 .. n}) = profile.dof
        /\ Cardinality({ids[k] : k \in 1 .. n}) = profile.dof
        /\ \A k \in 1 .. n : joints[k].lower < joints[k].upper
        /\ profile.groups # <<>> => GroupsPartition(profile)
    BY <1>1, <1>2, <1>5, GroupsAccepted DEF JointsSound, joints, n
<1>9. parseRobotProfile(profile) <=>
        /\ profile.wellFormed /\ n = profile.dof
        /\ \A k \in 1 .. n : joints[k].lower < joints[k].upper
        /\ Differ(ids) /\ Differ(names) /\ Differ(indices)
        /\ profile.groups # <<>> => GroupsPartition(profile)
    BY <1>2, <1>6 DEF parseRobotProfile, joints, n
<1>10. /\ Cardinality({names[k] : k \in 1 .. n} \cap file.urdf.joints) = n
            <=> Differ(names) /\ \A k \in 1 .. n : names[k] \in file.urdf.joints
       /\ Cardinality({indices[k] : k \in 1 .. n}) = n <=> Differ(indices)
       /\ Cardinality({ids[k] : k \in 1 .. n}) = n <=> Differ(ids)
    BY <1>3, <1>4
<1>11. profile.wellFormed /\ JointsSound(file) <=>
         /\ parseRobotProfile(profile)
         /\ \A k \in 1 .. n : joints[k].urdfJointName \in file.urdf.joints
    <2> HIDE DEF profile
    <2> QED
        BY <1>7, <1>8, <1>9, <1>10
<1> QED
    BY <1>2, <1>11 DEF joints, n

-----------------------------------------------------------------------------
(* The two stages                                                          *)

\* The URDF is accepted if it has every joint and every mesh it names is there.
LEMMA UrdfAccepted ==
  ASSUME NEW file \in ProfilePackage, IsFiniteSet(file.urdf.meshes), NEW scan
  PROVE  LET joints == file.profile.joints
         IN  /\ validateUrdf(file, scan) \in Nat
             /\ validateUrdf(file, scan) = 0 <=>
                  /\ file.urdf.xml
                  /\ \A k \in DOMAIN joints : joints[k].urdfJointName \in file.urdf.joints
                  /\ \A r \in file.urdf.meshes : ~BadReference(file, scan, r)
<1> DEFINE joints == file.profile.joints
           J == {k \in DOMAIN joints : joints[k].urdfJointName \notin file.urdf.joints}
           R == {r \in file.urdf.meshes : BadReference(file, scan, r)}
<1>1. IsFiniteSet(DOMAIN joints)
    <2>1. DOMAIN joints = 1 .. Len(joints) /\ Len(joints) \in Nat
        BY JointsAccepted
    <2> HIDE DEF joints
    <2> QED
        BY <2>1, FS_Interval
<1>2. IsFiniteSet(J)
    BY <1>1, FS_Subset
<1>3. IsFiniteSet(R)
    BY FS_Subset
<1>4. validateUrdf(file, scan) = IF ~file.urdf.xml THEN 1 ELSE Cardinality(J) + Cardinality(R)
    BY DEF validateUrdf
<1>5. J = {} <=> \A k \in DOMAIN joints : joints[k].urdfJointName \in file.urdf.joints
    OBVIOUS
<1>6. R = {} <=> \A r \in file.urdf.meshes : ~BadReference(file, scan, r)
    OBVIOUS
<1> HIDE DEF J, R, joints
<1>7. Cardinality(J) \in Nat /\ Cardinality(R) \in Nat
      /\ (Cardinality(J) = 0 <=> J = {}) /\ (Cardinality(R) = 0 <=> R = {})
    BY <1>2, <1>3, FS_CardinalityType, FS_EmptySet
<1>8. Cardinality(J) + Cardinality(R) = 0 <=> J = {} /\ R = {}
    BY <1>7
<1> QED
    BY <1>4, <1>5, <1>6, <1>7, <1>8 DEF joints

\* A mesh is a file of the package exactly if its reference is not refused.
LEMMA ReferenceAccepted ==
  ASSUME NEW file \in ProfilePackage, NEW u \in FilesOf(file), EntryFine(file, u),
         file.profile.urdfPath = EntryPath(file, u),
         NEW scan,
         \A path : EntriesAt(scan, path) = {} <=> EntriesNamed(file, path) = {},
         NEW r \in file.urdf.meshes
  PROVE  ~BadReference(file, scan, r) <=>
           /\ ~r.absolute
           /\ \E k \in FilesOf(file) :
                Denotes(Front(file.profile.urdfPath) \o Proper(r.segments), EntryPath(file, k))
<1> DEFINE urdfPath == file.profile.urdfPath
           base == Front(urdfPath)
           resolved == resolveRelativePath(base, r.segments)
<1>1. r \in ArchivePath
    BY DEF ProfilePackage, UrdfModel
<1>2. urdfPath \in Seq(Segments) /\ urdfPath # <<>> /\ \A n \in DOMAIN urdfPath : urdfPath[n] # ".."
    <2>1. urdfPath \in Seq(Segments)
        BY DEF ProfilePackage, RobotManifest
    <2> QED
        BY <2>1 DEF EntryFine
<1> HIDE DEF urdfPath
<1>3. base \in Seq(Segments) /\ \A i \in 1 .. Len(base) : base[i] # ".."
    <2>1. Len(urdfPath) \in Nat /\ Len(urdfPath) # 0 /\ DOMAIN urdfPath = 1 .. Len(urdfPath)
        BY <1>2
    <2>2. Len(urdfPath) - 1 \in 0 .. Len(urdfPath)
        BY <2>1
    <2> DEFINE c == Len(urdfPath) - 1
    <2>3. base = SubSeq(urdfPath, 1, c)
        BY DEF Front
    <2>4. c \in 0 .. Len(urdfPath) /\ \A i \in 1 .. c : i \in DOMAIN urdfPath
        BY <2>1
    <2> HIDE DEF c, base
    <2>5. base \in Seq(Segments) /\ Len(base) = c /\ \A i \in 1 .. c : base[i] = urdfPath[i]
        BY <1>2, <2>3, <2>4, PrefixType
    <2> QED
        BY <1>2, <2>4, <2>5
<1>4. \A k \in FilesOf(file) : EntryPath(file, k) \in Seq(Segments)
    <2>1. \A k \in FilesOf(file) : file.entries[k] \in ArchiveEntry
        BY DEF ProfilePackage, FilesOf
    <2>2. \A e \in ArchiveEntry : e.raw \in ArchivePath
        BY DEF ArchiveEntry
    <2> QED
        BY <2>1, <2>2, ProperSegments DEF EntryPath
<1> HIDE DEF base
<1>5. \A k \in FilesOf(file) :
        Denotes(base \o Proper(r.segments), EntryPath(file, k))
          <=> resolved.inside /\ resolved.path = EntryPath(file, k)
    BY <1>1, <1>3, <1>4, Resolves
<1>6. BadReference(file, scan, r) <=>
        r.absolute \/ ~resolved.inside \/ EntriesNamed(file, resolved.path) = {}
    BY DEF BadReference, base, urdfPath
<1>7. EntriesNamed(file, resolved.path) # {} <=> \E k \in FilesOf(file) : resolved.path = EntryPath(file, k)
    BY DEF EntriesNamed
<1> HIDE DEF resolved
<1> QED
    BY <1>5, <1>6, <1>7 DEF base, urdfPath

\* The verdict of the two stages is right.
LEMMA StagesAgree ==
  ASSUME NEW file \in ProfilePackage, IsFiniteSet(file.urdf.meshes), file.bytes <= ArchiveLimit
  PROVE  (IF ManifestStage(file).more THEN UrdfStage(file) ELSE ManifestStage(file).errors) = 0
           <=> PackageSound(file)
<1> DEFINE L == Len(file.entries)
           scan == Scan(file)
           F == FilesOf(file)
           Named(path) == EntriesNamed(file, path)
           profile == file.profile
           manifestPath == <<"manifest.json">>
           Size(k) == file.entries[k].size
           Actual(k) == file.entries[k].actual
           joints == profile.joints
           namesKnown == \A k \in DOMAIN joints : joints[k].urdfJointName \in file.urdf.joints
           stage == ManifestStage(file)
           verdict == IF stage.more THEN UrdfStage(file) ELSE stage.errors
<1> SUFFICES verdict = 0 <=> PackageSound(file)
    OBVIOUS
<1>1. L \in Nat /\ DOMAIN file.entries = 1 .. L /\ \A k \in 1 .. L : file.entries[k] \in ArchiveEntry
    BY DEF ProfilePackage
<1>2. FilesUpTo(file, L) = F
    BY <1>1 DEF FilesUpTo, FilesOf
<1>3. SizeUpTo(file)[L] = SizeOf(file)
    BY SizeUnfolds
<1>4. ScanInv(file, L, scan)
    BY ScanOutcome
<1>5. \A k \in F : Size(k) \in Int /\ Actual(k) \in Nat /\ EntryPath(file, k) \in Seq(Segments)
    <2>1. \A k \in F : file.entries[k] \in ArchiveEntry
        BY <1>1 DEF FilesOf
    <2>2. \A e \in ArchiveEntry : e.size \in Int /\ e.actual \in Nat /\ e.raw \in ArchivePath
        BY DEF ArchiveEntry
    <2> QED
        BY <2>1, <2>2, ProperSegments DEF EntryPath
<1>6. ManifestLimit \in Nat /\ UrdfLimit \in Nat
    BY PackageAssumption
<1>7. scan.errors \in Nat
    BY <1>4 DEF ScanInv, Accumulated
<1>8. \A k : \A path : k \in Named(path) <=> k \in F /\ EntryPath(file, k) = path
    BY DEF EntriesNamed
<1>9. /\ validateUrdf(file, scan) \in Nat
      /\ validateUrdf(file, scan) = 0 <=>
           /\ file.urdf.xml /\ namesKnown
           /\ \A r \in file.urdf.meshes : ~BadReference(file, scan, r)
    BY UrdfAccepted
<1>10. file.profile.wellFormed /\ JointsSound(file) <=> parseRobotProfile(profile) /\ namesKnown
    BY JointsAccepted
<1>11. UrdfStage(file) = stage.errors
          + (IF \E e \in EntriesAt(scan, profile.urdfPath) : e.actual > UrdfLimit
               THEN 1 ELSE validateUrdf(file, scan))
    BY DEF UrdfStage
<1>12. GoodUpTo(file, L) <=>
         /\ Cardinality(F) <= FileLimit
         /\ \A k \in F : EntryFine(file, k)
         /\ \A j, k \in F : j # k => LowerPath(file, j) # LowerPath(file, k)
         /\ SizeOf(file) <= UnpackedLimit
    BY <1>2, <1>3 DEF GoodUpTo
<1>13. ArchiveSound(file) <=>
         /\ file.zip /\ Cardinality(F) <= FileLimit
         /\ \A k \in F : /\ file.entries[k].allowed /\ Size(k) >= 0
                         /\ ~file.entries[k].raw.absolute /\ EntryPath(file, k) # <<>>
                         /\ \A n \in DOMAIN EntryPath(file, k) : EntryPath(file, k)[n] \notin {"..", "reserved"}
         /\ \A j, k \in F : j # k => LowerPath(file, j) # LowerPath(file, k)
         /\ SizeOf(file) <= UnpackedLimit
    BY DEF ArchiveSound, LowerPath
<1>14. \A k \in F : EntryFine(file, k) <=>
         /\ file.entries[k].allowed /\ Size(k) >= 0
         /\ ~file.entries[k].raw.absolute /\ EntryPath(file, k) # <<>>
         /\ \A n \in DOMAIN EntryPath(file, k) : EntryPath(file, k)[n] \notin {"..", "reserved"}
         /\ EntryPath(file, k) = manifestPath => Size(k) <= ManifestLimit
    BY DEF EntryFine
<1>15. PackageSound(file) <=>
         /\ ArchiveSound(file)
         /\ \E k \in Named(manifestPath) : Size(k) <= ManifestLimit /\ Actual(k) <= ManifestLimit
         /\ \E k \in Named(profile.urdfPath) : Size(k) <= UrdfLimit /\ Actual(k) <= UrdfLimit
         /\ file.urdf.xml /\ profile.wellFormed /\ JointsSound(file) /\ MeshesSound(file)
    BY DEF PackageSound, FileWithin
<1> HIDE DEF L, F, manifestPath, Size, Actual, namesKnown
<1>16. stage =
         IF ~file.zip THEN [errors |-> 1, more |-> FALSE]
         ELSE IF EntriesAt(scan, manifestPath) = {} THEN [errors |-> scan.errors + 1, more |-> FALSE]
         ELSE IF \E e \in EntriesAt(scan, manifestPath) : e.size > ManifestLimit
           THEN [errors |-> scan.errors, more |-> FALSE]
         ELSE IF \E e \in EntriesAt(scan, manifestPath) : e.actual > ManifestLimit
           THEN [errors |-> scan.errors + 1, more |-> FALSE]
         ELSE IF ~parseRobotProfile(profile) \/ scan.hard
           THEN [errors |-> scan.errors + (IF parseRobotProfile(profile) THEN 0 ELSE 1), more |-> FALSE]
         ELSE IF EntriesAt(scan, profile.urdfPath) = {}
                   \/ \E e \in EntriesAt(scan, profile.urdfPath) : e.size > UrdfLimit
           THEN [errors |-> scan.errors + 1, more |-> FALSE]
         ELSE [errors |-> scan.errors, more |-> TRUE]
    BY DEF ManifestStage, manifestPath
<1> HIDE DEF stage, scan, profile
<1>17. CASE ~GoodUpTo(file, L)
    <2>1. scan.errors # 0
        BY <1>4, <1>17 DEF ScanInv
    <2>2. stage.errors \in Nat /\ stage.errors # 0
        BY <1>7, <1>16, <2>1
    <2>3. verdict # 0
        BY <1>9, <1>11, <2>2
    <2>4. ~PackageSound(file)
        <3> SUFFICES ASSUME PackageSound(file) PROVE FALSE
            OBVIOUS
        <3>1. ArchiveSound(file)
            BY <1>15
        <3>2. PICK m \in Named(manifestPath) : Size(m) <= ManifestLimit
            BY <1>15
        <3>3. m \in F /\ EntryPath(file, m) = manifestPath
            BY <1>8, <3>2
        <3>4. \A k \in F : EntryPath(file, k) = manifestPath => k = m
            BY <1>13, <3>1, <3>3 DEF LowerPath
        <3>5. \A k \in F : EntryFine(file, k)
            BY <1>13, <1>14, <3>1, <3>2, <3>4
        <3> QED
            BY <1>12, <1>13, <1>17, <3>1, <3>5
    <2> QED
        BY <2>3, <2>4
<1>18. CASE GoodUpTo(file, L)
    <2>1. /\ scan.errors = 0 /\ ~scan.hard
          /\ scan.entries = {[path |-> EntryPath(file, k), size |-> Size(k), actual |-> Actual(k)] : k \in F}
        BY <1>2, <1>4, <1>18 DEF ScanInv, Size, Actual
    <2>2. ASSUME NEW path
          PROVE  EntriesAt(scan, path) = {[path |-> path, size |-> Size(k), actual |-> Actual(k)] : k \in Named(path)}
        <3>1. \A e : e \in EntriesAt(scan, path) <=>
                \E k \in F : e = [path |-> EntryPath(file, k), size |-> Size(k), actual |-> Actual(k)] /\ e.path = path
            BY <2>1 DEF EntriesAt
        <3>2. \A e : \A k \in F :
                (e = [path |-> EntryPath(file, k), size |-> Size(k), actual |-> Actual(k)] /\ e.path = path)
                  <=> (e = [path |-> path, size |-> Size(k), actual |-> Actual(k)] /\ EntryPath(file, k) = path)
            OBVIOUS
        <3> QED
            BY <1>8, <3>1, <3>2
    <2>3. ASSUME NEW path
          PROVE  /\ EntriesAt(scan, path) = {} <=> Named(path) = {}
                 /\ \A limit : (\E e \in EntriesAt(scan, path) : e.size > limit)
                                 <=> \E k \in Named(path) : Size(k) > limit
                 /\ \A limit : (\E e \in EntriesAt(scan, path) : e.actual > limit)
                                 <=> \E k \in Named(path) : Actual(k) > limit
        <3> DEFINE E == EntriesAt(scan, path)
                   K == Named(path)
        <3>1. \A e : e \in E <=> \E k \in K : e = [path |-> path, size |-> Size(k), actual |-> Actual(k)]
            BY <2>2
        <3>2. \A k \in K : [path |-> path, size |-> Size(k), actual |-> Actual(k)] \in E
            BY <3>1
        <3>3. \A e \in E : \E k \in K : e.size = Size(k) /\ e.actual = Actual(k)
            BY <3>1
        <3>4. \A k \in K : [path |-> path, size |-> Size(k), actual |-> Actual(k)].size = Size(k)
            OBVIOUS
        <3>7. \A k \in K : [path |-> path, size |-> Size(k), actual |-> Actual(k)].actual = Actual(k)
            OBVIOUS
        <3> HIDE DEF E, K
        <3>5. E = {} <=> K = {}
            BY <3>2, <3>3
        <3>6. ASSUME NEW limit PROVE (\E e \in E : e.size > limit) <=> \E k \in K : Size(k) > limit
            BY <3>2, <3>3, <3>4
        <3>8. ASSUME NEW limit PROVE (\E e \in E : e.actual > limit) <=> \E k \in K : Actual(k) > limit
            BY <3>2, <3>3, <3>7
        <3> QED
            BY <3>5, <3>6, <3>8 DEF E, K
    <2>4. \A path : \A j, k \in Named(path) : j = k
        BY <1>8, <1>12, <1>18 DEF LowerPath
    <2>5. \A k \in F : EntryPath(file, k) = manifestPath => Size(k) <= ManifestLimit
        BY <1>12, <1>14, <1>18
    <2> DEFINE Holds(path, limit) == \E k \in Named(path) : Size(k) <= limit /\ Actual(k) <= limit
               Long(path, limit) == \E k \in Named(path) : Actual(k) > limit
    <2>6. ASSUME NEW path, NEW limit \in Nat
          PROVE  ~Holds(path, limit)
                   <=> Named(path) = {} \/ (\E k \in Named(path) : Size(k) > limit) \/ Long(path, limit)
        <3>1. \A k \in Named(path) : Size(k) \in Int /\ Actual(k) \in Int
            BY <1>5, <1>8 DEF Size, Actual
        <3> QED
            BY <2>4, <3>1
    <2>7. ~\E k \in Named(manifestPath) : Size(k) > ManifestLimit
        <3>1. \A k \in Named(manifestPath) : Size(k) \in Int /\ Size(k) <= ManifestLimit
            BY <1>5, <1>8, <2>5 DEF Size
        <3> QED
            BY <1>6, <3>1
    <2> DEFINE opened == Holds(profile.urdfPath, UrdfLimit)
               manifested == Holds(manifestPath, ManifestLimit)
               accepted == parseRobotProfile(profile)
    <2>8. /\ (EntriesAt(scan, manifestPath) = {}
                \/ \E e \in EntriesAt(scan, manifestPath) : e.actual > ManifestLimit) <=> ~manifested
          /\ ~\E e \in EntriesAt(scan, manifestPath) : e.size > ManifestLimit
          /\ (EntriesAt(scan, profile.urdfPath) = {}
                \/ (\E e \in EntriesAt(scan, profile.urdfPath) : e.size > UrdfLimit)
                \/ \E e \in EntriesAt(scan, profile.urdfPath) : e.actual > UrdfLimit) <=> ~opened
        BY <1>6, <2>3, <2>6, <2>7
    <2> DEFINE measured == ~\E e \in EntriesAt(scan, profile.urdfPath) : e.actual > UrdfLimit
               unpacked == ~(EntriesAt(scan, profile.urdfPath) = {}
                               \/ \E e \in EntriesAt(scan, profile.urdfPath) : e.size > UrdfLimit)
    <2>15. opened <=> unpacked /\ measured
        BY <2>8
    <2>16. UrdfStage(file) = stage.errors + (IF ~measured THEN 1 ELSE validateUrdf(file, scan))
        BY <1>11
    <2> HIDE DEF opened, manifested, accepted, Named
    <2>9. /\ stage.more <=> file.zip /\ manifested /\ accepted /\ unpacked
          /\ stage.more => stage.errors = 0
          /\ ~stage.more => stage.errors # 0
        BY <1>7, <1>16, <2>1, <2>8 DEF accepted
    <2> HIDE DEF measured, unpacked
    <2>10. verdict = 0 <=>
             /\ file.zip /\ manifested /\ accepted /\ opened /\ file.urdf.xml /\ namesKnown
             /\ \A r \in file.urdf.meshes : ~BadReference(file, scan, r)
        BY <1>9, <2>9, <2>15, <2>16
    <2>11. opened => ((\A r \in file.urdf.meshes : ~BadReference(file, scan, r)) <=> MeshesSound(file))
        <3> SUFFICES ASSUME opened
                     PROVE  (\A r \in file.urdf.meshes : ~BadReference(file, scan, r)) <=> MeshesSound(file)
            OBVIOUS
        <3>1. PICK u \in Named(profile.urdfPath) : TRUE
            BY DEF opened
        <3>2. u \in F /\ profile.urdfPath = EntryPath(file, u) /\ EntryFine(file, u)
            BY <1>8, <1>12, <1>18 DEF Named
        <3>3. \A path : EntriesAt(scan, path) = {} <=> EntriesNamed(file, path) = {}
            BY <2>3 DEF Named
        <3>4. \A r \in file.urdf.meshes :
                ~BadReference(file, scan, r) <=>
                  /\ ~r.absolute
                  /\ \E k \in FilesOf(file) :
                       Denotes(Front(file.profile.urdfPath) \o Proper(r.segments), EntryPath(file, k))
            BY <3>2, <3>3, ReferenceAccepted DEF F, profile
        <3> QED
            BY <3>4 DEF MeshesSound
    <2>12. ArchiveSound(file) <=> file.zip
        BY <1>12, <1>13, <1>14, <1>18
    <2>13. PackageSound(file) <=>
             /\ file.zip /\ manifested /\ opened /\ file.urdf.xml
             /\ profile.wellFormed /\ JointsSound(file) /\ MeshesSound(file)
        BY <1>15, <2>12 DEF opened, manifested, Named
    <2>14. profile.wellFormed /\ JointsSound(file) <=> accepted /\ namesKnown
        BY <1>10 DEF accepted, profile
    <2> HIDE DEF verdict
    <2> QED
        BY <2>10, <2>11, <2>13, <2>14
<1> QED
    BY <1>17, <1>18

-----------------------------------------------------------------------------
(* The verdict                                                             *)

\* What is known of an inspection by the phase it is in, and of the file whose
\* result is shown.
VerdictInv ==
  /\ PackageIInv
  /\ \A i \in 1 .. MaxInspections :
       LET ins == inspections[i]
       IN  /\ ins.phase \in {"reading", "manifest", "urdf"} => ins.file \in DOMAIN PackageFiles
           /\ ins.phase \in {"manifest", "urdf"} => PackageFiles[ins.file].bytes <= ArchiveLimit
           /\ ins.phase = "urdf" => ManifestStages[ins.file].more
           /\ packageResult.of = i /\ packageResult.valid => ins.file \in SoundFiles

\* The verdict on a file that was read.
LEMMA VerdictRight ==
  ASSUME NEW name \in DOMAIN PackageFiles, PackageFiles[name].bytes <= ArchiveLimit
  PROVE  (IF ManifestStages[name].more THEN UrdfStages[name] ELSE ManifestStages[name].errors) = 0
           <=> name \in SoundFiles
<1> DEFINE file == PackageFiles[name]
<1>1. file \in ProfilePackage /\ IsFiniteSet(file.urdf.meshes)
    BY PackageFilesAssumption
<1>2. ManifestStages[name] = ManifestStage(file)
    BY DEF ManifestStages
<1>3. ManifestStages[name].more => UrdfStages[name] = UrdfStage(file)
    BY DEF UrdfStages
<1>4. name \in SoundFiles <=> PackageSound(file)
    BY DEF SoundFiles
<1> HIDE DEF file
<1>5. (IF ManifestStage(file).more THEN UrdfStage(file) ELSE ManifestStage(file).errors) = 0
        <=> PackageSound(file)
    BY <1>1, StagesAgree DEF file
<1> QED
    BY <1>2, <1>3, <1>4, <1>5

\* Errors are counted from none.
LEMMA ManifestErrors ==
  ASSUME NEW name \in DOMAIN PackageFiles
  PROVE  ManifestStages[name].errors \in Nat
<1> DEFINE file == PackageFiles[name]
           scan == Scan(file)
<1>1. file \in ProfilePackage
    BY PackageFilesAssumption
<1>2. scan.errors \in Nat
    BY <1>1, ScanOutcome DEF ScanInv, Accumulated
<1>3. ManifestStages[name] = ManifestStage(file)
    BY DEF ManifestStages
<1> HIDE DEF file
<1>4. ManifestStage(file).errors \in {1, scan.errors, scan.errors + 1, scan.errors + 0}
    BY DEF ManifestStage
<1> QED
    BY <1>2, <1>3, <1>4

\* An inspection ends: what it shows is right.
LEMMA SettleJudges ==
  ASSUME VerdictInv, NEW i \in 1 .. MaxInspections, NEW errors, SettleInspection(i, errors),
         inspections[i].phase # "over", errors = 0 => inspections[i].file \in SoundFiles
  PROVE  VerdictInv'
<1>1. PackageIInv'
    BY SettleKeeps DEF VerdictInv
<1>2. /\ \A k \in 1 .. MaxInspections : inspections'[k].file = inspections[k].file
      /\ inspections'[i].phase = "over"
      /\ \A k \in (1 .. MaxInspections) \ {i} : inspections'[k] = inspections[k]
    BY DEF VerdictInv, PackageIInv, SettleInspection
<1>3. ASSUME NEW k \in 1 .. MaxInspections, packageResult'.of = k, packageResult'.valid
      PROVE  inspections'[k].file \in SoundFiles
    <2>1. CASE Shows(i)
        <3>1. packageResult' = [of |-> i, valid |-> errors = 0, errors |-> Listed(errors)]
            BY <2>1 DEF SettleInspection
        <3>2. packageResult'.of = i /\ packageResult'.valid = (errors = 0)
            BY <3>1
        <3> QED
            BY <1>2, <1>3, <3>2
    <2>2. CASE ~Shows(i)
        <3>1. packageResult' = packageResult
            BY <2>2 DEF SettleInspection
        <3> QED
            BY <1>2, <1>3, <3>1 DEF VerdictInv
    <2> QED
        BY <2>1, <2>2
<1> QED
    BY <1>1, <1>2, <1>3 DEF VerdictInv

\* An inspection goes on: the archive was read, the manifest accepted.
LEMMA PhaseJudges ==
  ASSUME VerdictInv, NEW i \in 1 .. MaxInspections, NEW phase \in {"manifest", "urdf"},
         inspections' = [inspections EXCEPT ![i].phase = phase],
         inspections[i].phase \in {"reading", "manifest"},
         PackageFiles[inspections[i].file].bytes <= ArchiveLimit,
         phase = "urdf" => ManifestStages[inspections[i].file].more,
         UNCHANGED <<chosen, controller, packageResult, validating, deviceOpen>>
  PROVE  VerdictInv'
<1>1. PackageIInv'
    BY PhaseKeeps DEF VerdictInv
<1>2. /\ \A k \in 1 .. MaxInspections : inspections'[k].file = inspections[k].file
      /\ inspections'[i].phase = phase
      /\ \A k \in (1 .. MaxInspections) \ {i} : inspections'[k] = inspections[k]
    BY DEF VerdictInv, PackageIInv
<1>3. packageResult' = packageResult
    OBVIOUS
<1> QED
    BY <1>1, <1>2, <1>3 DEF VerdictInv

\* Every step of the page keeps the verdicts right.
LEMMA VerdictStep == VerdictInv /\ [PackageNext]_packageVars => VerdictInv'
<1> SUFFICES ASSUME VerdictInv, [PackageNext]_packageVars PROVE VerdictInv'
    OBVIOUS
<1>0. PackageIInv /\ PackageIInv'
    BY PackageStep DEF VerdictInv
<1>1. /\ DOMAIN AbortCurrent = 1 .. MaxInspections
      /\ \A k \in 1 .. MaxInspections :
           /\ AbortCurrent[k].file = inspections[k].file
           /\ AbortCurrent[k].phase \in {inspections[k].phase, "over"}
    BY <1>0 DEF PackageIInv, AbortCurrent, Aborted
<1>2. ASSUME NEW name \in DOMAIN PackageFiles, inspectPackage(name) PROVE VerdictInv'
    <2>1. /\ chosen' \in 1 .. MaxInspections /\ packageResult' = NoPackageResult
          /\ inspections' = [AbortCurrent EXCEPT ![chosen'] =
                               [file |-> name, phase |-> "reading", aborted |-> FALSE]]
        BY <1>0, <1>2, PackageAssumption DEF inspectPackage, PackageIInv
    <2>2. /\ inspections'[chosen'].file = name /\ inspections'[chosen'].phase = "reading"
          /\ \A k \in (1 .. MaxInspections) \ {chosen'} : inspections'[k] = AbortCurrent[k]
        BY <1>1, <2>1
    <2>3. \A k \in 1 .. MaxInspections : packageResult'.of # k
        BY <2>1 DEF NoPackageResult
    <2> QED
        BY <1>0, <1>1, <2>2, <2>3 DEF VerdictInv
<1>3. ASSUME NEW i \in 1 .. MaxInspections, NEW readable \in BOOLEAN, FileRead(i, readable)
      PROVE  VerdictInv'
    <2>1. inspections[i].phase = "reading"
        BY <1>3 DEF FileRead
    <2>2. \/ SettleInspection(i, 1)
          \/ /\ inspections' = [inspections EXCEPT ![i].phase = "manifest"]
             /\ ~(PackageFiles[inspections[i].file].bytes > ArchiveLimit)
             /\ UNCHANGED <<chosen, controller, packageResult, validating, deviceOpen>>
        BY <1>3 DEF FileRead
    <2>3. ~(PackageFiles[inspections[i].file].bytes > ArchiveLimit)
            => PackageFiles[inspections[i].file].bytes <= ArchiveLimit
        <3>1. inspections[i].file \in DOMAIN PackageFiles
            BY <2>1 DEF VerdictInv
        <3>2. PackageFiles[inspections[i].file].bytes \in Nat
            BY <3>1, PackageFilesAssumption DEF ProfilePackage
        <3> QED
            BY <3>2, PackageAssumption
    <2> QED
        BY <2>1, <2>2, <2>3, SettleJudges, PhaseJudges
<1>4. ASSUME NEW i \in 1 .. MaxInspections, NEW extracted \in BOOLEAN, ManifestExtracted(i, extracted)
      PROVE  VerdictInv'
    <2> DEFINE name == inspections[i].file
    <2>1. inspections[i].phase = "manifest"
        BY <1>4 DEF ManifestExtracted
    <2>2. name \in DOMAIN PackageFiles /\ PackageFiles[name].bytes <= ArchiveLimit
        BY <2>1 DEF VerdictInv
    <2>3. \/ SettleInspection(i, 1)
          \/ ~ManifestStages[name].more /\ SettleInspection(i, ManifestStages[name].errors)
          \/ /\ ManifestStages[name].more
             /\ inspections' = [inspections EXCEPT ![i].phase = "urdf"]
             /\ UNCHANGED <<chosen, controller, packageResult, validating, deviceOpen>>
        BY <1>4 DEF ManifestExtracted
    <2>4. ~ManifestStages[name].more /\ ManifestStages[name].errors = 0 => name \in SoundFiles
        <3> HIDE DEF name
        <3> QED
            BY <2>2, VerdictRight
    <2> QED
        BY <2>1, <2>2, <2>3, <2>4, SettleJudges, PhaseJudges
<1>5. ASSUME NEW i \in 1 .. MaxInspections, NEW extracted \in BOOLEAN, UrdfExtracted(i, extracted)
      PROVE  VerdictInv'
    <2> DEFINE name == inspections[i].file
    <2>1. PICK errors : /\ inspections[i].phase = "urdf" /\ SettleInspection(i, errors)
                        /\ errors \in {UrdfStages[name], ManifestStages[name].errors + 1}
        BY <1>5 DEF UrdfExtracted
    <2>2. /\ name \in DOMAIN PackageFiles /\ PackageFiles[name].bytes <= ArchiveLimit
          /\ ManifestStages[name].more
        BY <2>1 DEF VerdictInv
    <2>3. errors = 0 => name \in SoundFiles
        <3> HIDE DEF name
        <3>1. ManifestStages[name].errors + 1 # 0
            BY <2>2, ManifestErrors
        <3> QED
            BY <2>1, <2>2, <3>1, VerdictRight
    <2> QED
        BY <2>1, <2>3, SettleJudges
<1>6. CASE LeaveDevicePage
    <2>1. inspections' = AbortCurrent /\ packageResult' = packageResult
        BY <1>6 DEF LeaveDevicePage
    <2> QED
        BY <1>0, <1>1, <2>1 DEF VerdictInv
<1>7. CASE UNCHANGED packageVars
    BY <1>0, <1>7 DEF packageVars, VerdictInv
<1> QED
    BY <1>2, <1>3, <1>4, <1>5, <1>6, <1>7 DEF PackageNext

\* The verdict on a package that could be read is right whatever the order of
\* its entries and however inspections overlap: it is accepted exactly when it
\* is sound (profilePackage.ts, validateProfilePackage).
THEOREM PackageAlwaysJudged == PackageSpec => []PackageVerdict
<1>1. PackageInit => VerdictInv
    <2> SUFFICES ASSUME PackageInit PROVE VerdictInv
        OBVIOUS
    <2>1. PackageIInv
        BY PackageAssumption DEF PackageInit, PackageIInv, NoPackageResult
    <2>2. \A i \in 1 .. MaxInspections : inspections[i].phase = "idle" /\ packageResult.of # i
        BY DEF PackageInit, NoPackageResult
    <2> QED
        BY <2>1, <2>2 DEF VerdictInv
<1>2. VerdictInv => PackageVerdict
    <2> SUFFICES ASSUME VerdictInv, NEW i \in 1 .. MaxInspections
                 PROVE  LET name == inspections[i].file
                            errors == IF ManifestStages[name].more THEN UrdfStages[name]
                                      ELSE ManifestStages[name].errors
                        IN  /\ inspections[i].phase \in {"manifest", "urdf"}
                                 => ((errors = 0) <=> name \in SoundFiles)
                            /\ packageResult.of = i /\ packageResult.valid => name \in SoundFiles
        BY DEF PackageVerdict
    <2> DEFINE name == inspections[i].file
    <2>1. inspections[i].phase \in {"manifest", "urdf"}
            => name \in DOMAIN PackageFiles /\ PackageFiles[name].bytes <= ArchiveLimit
        BY DEF VerdictInv
    <2>2. packageResult.of = i /\ packageResult.valid => name \in SoundFiles
        BY DEF VerdictInv
    <2> HIDE DEF name
    <2>3. inspections[i].phase \in {"manifest", "urdf"}
            => ((IF ManifestStages[name].more THEN UrdfStages[name] ELSE ManifestStages[name].errors) = 0
                  <=> name \in SoundFiles)
        BY <2>1, VerdictRight
    <2> QED
        BY <2>2, <2>3 DEF name
<1> QED
    BY <1>1, <1>2, VerdictStep, PTL DEF PackageSpec
=============================================================================
