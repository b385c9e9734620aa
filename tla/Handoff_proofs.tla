---------------------------- MODULE Handoff_proofs ----------------------------
(***************************************************************************)
(* For every set of exports and every number of attempts and crashes: what *)
(* is in the place asked for is whole, and an export once made survives    *)
(* (the first part, on ExportDirectory alone); what a reader accepts is    *)
(* one of the exports (the second, on Handoff); and the bridge of a study  *)
(* is not earned by what its arms were tested on (the third).              *)
(***************************************************************************)
EXTENDS Handoff, FunctionTheorems, FiniteSetTheorems, TLAPS

Steps == {"clear", "write", "aside", "place", "drop"}

(* The inductive invariant: what each point of export_cp_package knows of  *)
(* the three directories.                                                  *)
ExportingOne ==
    export # Idle => /\ export = [at |-> export.at, package |-> export.package, todo |-> export.todo]
                     /\ export.at \in Steps
                     /\ export.package \in Packages
                     /\ export.todo \subseteq DOMAIN export.package
StagedSoFar ==
    /\ At("clear") => export.todo = DOMAIN export.package
    /\ At("write") =>
            staging = [n \in DOMAIN export.package \ export.todo |-> export.package[n]]
    /\ At("aside") \/ At("place") => staging = export.package
PlaceKnown ==
    /\ At("aside") => final # Absent
    /\ At("place") => final = Absent
    /\ At("drop") => final \in Packages
Counted == starts \in Nat /\ (starts = 0 => export = Idle /\ exported = {})
IInv == Counted /\ ExportingOne /\ StagedSoFar /\ PlaceKnown /\ ExportIsWhole /\ ExportSurvives

(* the file written next is one that is still to be written *)
LEMMA NextIsToDo ==
    ASSUME NEW todo, todo # {}
    PROVE  Next1(todo) \in todo
<1>1. \E n \in todo : n = Manifest => todo = {Manifest}
  <2>1. CASE todo = {Manifest}
    BY <2>1
  <2>2. CASE todo # {Manifest}
    <3>1. PICK n \in todo : n # Manifest
      BY <2>2
    <3>2. QED
      BY <3>1
  <2>3. QED
    BY <2>1, <2>2
<1>2. QED
  BY <1>1 DEF Next1

(* a directory that has every file of a package is the package *)
LEMMA AllFilesIsPackage ==
    ASSUME NEW p \in Packages
    PROVE  [n \in DOMAIN p \ {} |-> p[n]] = p
<1>1. DOMAIN p \ {} = DOMAIN p
  OBVIOUS
<1>2. p = [n \in DOMAIN p |-> p[n]]
  BY PackagesAssumption DEF IsDirectory
<1>3. QED
  BY <1>1, <1>2

LEMMA InitInv == DirectoryInit => IInv
BY DEF DirectoryInit, IInv, Counted, ExportingOne, StagedSoFar, PlaceKnown, ExportIsWhole, ExportSurvives, At

LEMMA BeginInv ==
    ASSUME IInv, NEW p \in Packages, NEW overwrite \in BOOLEAN, Begin(p, overwrite)
    PROVE  IInv'
<1> USE DEF Begin, IInv
<1>1. ExportingOne'
  BY DEF ExportingOne, Steps
<1>2. StagedSoFar' /\ PlaceKnown'
  BY DEF StagedSoFar, PlaceKnown, At
<1>3. ExportIsWhole' /\ ExportSurvives'
  BY DEF ExportIsWhole, ExportSurvives
<1>4. Counted'
  BY DEF Counted
<1>5. QED
  BY <1>1, <1>2, <1>3, <1>4

LEMMA ClearInv == ASSUME IInv, Clear PROVE IInv'
<1> USE DEF Clear, IInv
<1>0. Counted'
  BY DEF Counted, At, Goto
<1>1. ExportIsWhole' /\ ExportSurvives'
  BY DEF ExportIsWhole, ExportSurvives
<1>2. CASE staging # Absent
  <2>1. ExportingOne'
    BY <1>2 DEF ExportingOne
  <2>2. StagedSoFar' /\ PlaceKnown'
    BY <1>2 DEF StagedSoFar, PlaceKnown, At
  <2>3. QED
    BY <1>0, <1>1, <2>1, <2>2
<1>3. CASE staging = Absent
  <2>1. export' = [at |-> "write", package |-> export.package, todo |-> export.todo]
    BY <1>3 DEF Goto, At, ExportingOne
  <2>2. staging' = [n \in DOMAIN export.package \ export.todo |-> export.package[n]]
    BY <1>3 DEF Empty, StagedSoFar
  <2>3. ExportingOne'
    BY <2>1 DEF ExportingOne, Steps, At
  <2>4. StagedSoFar' /\ PlaceKnown'
    BY <2>1, <2>2 DEF StagedSoFar, PlaceKnown, At
  <2>5. QED
    BY <1>0, <1>1, <2>3, <2>4
<1>4. QED
  BY <1>2, <1>3

LEMMA WriteInv == ASSUME IInv, Write PROVE IInv'
<1> USE DEF IInv
<1> DEFINE n == Next1(export.todo)
           p == export.package
<1>1. ExportIsWhole' /\ ExportSurvives'
  BY DEF Write, ExportIsWhole, ExportSurvives
<1>2. n \in export.todo /\ n \in DOMAIN p
  BY NextIsToDo DEF Write, ExportingOne, At
<1>3. export' = [at |-> "write", package |-> p, todo |-> export.todo \ {n}]
  BY DEF Write, At, ExportingOne
<1>4. staging' = [m \in DOMAIN p \ (export.todo \ {n}) |-> p[m]]
  <2>1. staging = [m \in DOMAIN p \ export.todo |-> p[m]]
    BY DEF Write, StagedSoFar
  <2>2. staging' = [m \in DOMAIN staging \cup {n} |-> IF m = n THEN p[n] ELSE staging[m]]
    BY DEF Write, WithFile
  <2>3. DOMAIN staging \cup {n} = DOMAIN p \ (export.todo \ {n})
    BY <2>1, <1>2
  <2>4. \A m \in DOMAIN p \ (export.todo \ {n}) :
            (IF m = n THEN p[n] ELSE staging[m]) = p[m]
    BY <2>1, <2>3
  <2>5. QED
    BY <2>2, <2>3, <2>4
<1>5. ExportingOne'
  BY <1>3 DEF ExportingOne, Write, At
<1>6. StagedSoFar' /\ PlaceKnown'
  BY <1>3, <1>4 DEF StagedSoFar, PlaceKnown, At
<1>7. Counted'
  BY DEF Counted, Write, At
<1>8. QED
  BY <1>1, <1>5, <1>6, <1>7

LEMMA SwapInv == ASSUME IInv, Swap PROVE IInv'
<1> USE DEF Swap, IInv
<1>0. Counted'
  BY DEF Counted, At
<1>1. staging = export.package /\ export.package \in Packages
  BY AllFilesIsPackage DEF StagedSoFar, ExportingOne, At
<1>2. CASE final = Absent
  <2>1. export' = Idle /\ final' \in Packages
    BY <1>1, <1>2 DEF Return
  <2>2. QED
    BY <1>0, <2>1 DEF ExportingOne, StagedSoFar, PlaceKnown, ExportIsWhole, ExportSurvives, At
<1>3. CASE final # Absent
  <2>1. export' = [at |-> "aside", package |-> export.package, todo |-> export.todo]
    BY <1>3 DEF Goto, At, ExportingOne
  <2>2. ExportingOne'
    BY <2>1 DEF ExportingOne, Steps, At
  <2>3. StagedSoFar' /\ PlaceKnown'
    BY <1>1, <1>3, <2>1 DEF StagedSoFar, PlaceKnown, At
  <2>4. ExportIsWhole' /\ ExportSurvives'
    BY <1>3 DEF ExportIsWhole, ExportSurvives
  <2>5. QED
    BY <1>0, <2>2, <2>3, <2>4
<1>4. QED
  BY <1>2, <1>3

LEMMA AsideInv == ASSUME IInv, Aside PROVE IInv'
<1> USE DEF Aside, IInv
<1>0. Counted'
  BY DEF Counted, At
<1>1. final # Absent /\ (exported # {} => final \in Packages)
  BY DEF PlaceKnown, ExportSurvives
<1>2. CASE backup # Absent
  <2>1. ExportingOne' /\ StagedSoFar' /\ PlaceKnown'
    BY <1>2 DEF ExportingOne, StagedSoFar, PlaceKnown, At
  <2>2. ExportIsWhole' /\ ExportSurvives'
    BY <1>1, <1>2 DEF ExportIsWhole, ExportSurvives
  <2>3. QED
    BY <1>0, <2>1, <2>2
<1>3. CASE backup = Absent
  <2>1. export' = [at |-> "place", package |-> export.package, todo |-> export.todo]
    BY <1>3 DEF Goto, At, ExportingOne
  <2>2. ExportingOne'
    BY <2>1 DEF ExportingOne, Steps, At
  <2>3. StagedSoFar' /\ PlaceKnown'
    BY <1>3, <2>1 DEF StagedSoFar, PlaceKnown, At
  <2>4. ExportIsWhole' /\ ExportSurvives'
    BY <1>1, <1>3 DEF ExportIsWhole, ExportSurvives
  <2>5. QED
    BY <1>0, <2>2, <2>3, <2>4
<1>4. QED
  BY <1>2, <1>3

LEMMA PlaceInv == ASSUME IInv, Place PROVE IInv'
<1> USE DEF Place, IInv
<1>0. Counted'
  BY DEF Counted, At
<1>1. final' \in Packages
  BY DEF StagedSoFar, ExportingOne, At
<1>2. export' = [at |-> "drop", package |-> export.package, todo |-> export.todo]
  BY DEF Goto, At, ExportingOne
<1>3. ExportingOne'
  BY <1>2 DEF ExportingOne, Steps, At
<1>4. StagedSoFar' /\ PlaceKnown'
  BY <1>1, <1>2 DEF StagedSoFar, PlaceKnown, At
<1>5. QED
  BY <1>0, <1>1, <1>3, <1>4 DEF ExportIsWhole, ExportSurvives

LEMMA DropInv == ASSUME IInv, Drop PROVE IInv'
<1> USE DEF Drop, IInv
<1>0. Counted'
  BY DEF Counted, At
<1>1. final' \in Packages
  BY DEF PlaceKnown
<1>2. ExportingOne' /\ StagedSoFar' /\ PlaceKnown'
  BY DEF ExportingOne, StagedSoFar, PlaceKnown, At, Return
<1>3. QED
  BY <1>0, <1>1, <1>2 DEF ExportIsWhole, ExportSurvives

LEMMA CrashInv == ASSUME IInv, Crash \/ MakeDirectory PROVE IInv'
<1>1. CASE Crash
  BY <1>1 DEF Crash, IInv, Counted, ExportingOne, StagedSoFar, PlaceKnown, ExportIsWhole, ExportSurvives, At
<1>2. CASE MakeDirectory
  BY <1>2 DEF MakeDirectory, IInv, Counted, ExportingOne, StagedSoFar, PlaceKnown, ExportIsWhole,
     ExportSurvives, At
<1>3. QED
  BY <1>1, <1>2

LEMMA StutterInv == ASSUME IInv, UNCHANGED dvars PROVE IInv'
BY DEF dvars, IInv, Counted, ExportingOne, StagedSoFar, PlaceKnown, ExportIsWhole, ExportSurvives, At

LEMMA NextInv == IInv /\ [DirectoryNext]_dvars => IInv'
<1> SUFFICES ASSUME IInv, [DirectoryNext]_dvars PROVE IInv'
  OBVIOUS
<1>1. CASE Step
  BY <1>1, ClearInv, WriteInv, SwapInv, AsideInv, PlaceInv, DropInv, CrashInv DEF Step
<1>2. ASSUME NEW p \in Packages, NEW overwrite \in BOOLEAN, Begin(p, overwrite) PROVE IInv'
  BY <1>2, BeginInv
<1>3. CASE UNCHANGED dvars
  BY <1>3, StutterInv
<1>4. QED
  BY <1>1, <1>2, <1>3 DEF DirectoryNext

(* Whatever dies and whenever, the place asked for never holds a part of an *)
(* export (export_cp_package, _swap_into_place).                            *)
THEOREM ExportIsAlwaysWhole == DirectorySpec => []ExportIsWhole
<1>1. IInv => ExportIsWhole
  BY DEF IInv
<1>2. QED
  BY InitInv, NextInv, <1>1, PTL DEF DirectorySpec

(* Once made, a whole export is on the disk for ever after, in its place or *)
(* as the backup beside the empty place.                                    *)
THEOREM ExportAlwaysSurvives == DirectorySpec => []ExportSurvives
<1>1. IInv => ExportSurvives
  BY DEF IInv
<1>2. QED
  BY InitInv, NextInv, <1>1, PTL DEF DirectorySpec

----------------------------------------------------------------------------
(* Every step of the handoff is a step of the export's directories, or      *)
(* leaves them alone.                                                       *)
LEMMA HandoffStep == [Next]_vars => [DirectoryNext]_dvars
<1>1. ASSUME NEW r \in Requests, NEW overwrite \in BOOLEAN, ExportPackage(r, overwrite)
      PROVE  DirectoryNext
  BY <1>1, HandoffAssumption DEF ExportPackage, DirectoryNext
<1>2. CASE Writing
  BY <1>2 DEF Writing, DirectoryNext
<1>3. CASE Open \/ ReadFile \/ Close
  BY <1>3 DEF Open, ReadFile, Close
<1>4. ASSUME NEW r \in Requests, NEW change \in Changes, Receive(r, change)
      PROVE  UNCHANGED dvars
  BY <1>4 DEF Receive
<1>5. ASSUME NEW asked \in Asked, Verify(asked) PROVE UNCHANGED dvars
  BY <1>5 DEF Verify
<1>6. ASSUME NEW s \in Studies, Analyse(s) PROVE UNCHANGED dvars
  BY <1>6 DEF Analyse
<1>7. CASE UNCHANGED vars
  BY <1>7 DEF vars, dvars
<1>8. QED
  BY <1>1, <1>2, <1>3, <1>4, <1>5, <1>6, <1>7 DEF Next

(* What is exported, read and received goes through the directories as      *)
(* export_cp_package leaves them, whoever reads meanwhile.                  *)
THEOREM HandoffUsesDirectories == Spec => DirectorySpec
<1>1. Init => DirectoryInit
  BY DEF Init
<1>2. QED
  BY <1>1, HandoffStep, PTL DEF Spec, DirectorySpec

(* No name of an exported file is the manifest's, nor one that was not made. *)
LEMMA ManifestIsApart ==
    ASSUME NEW r, NEW config
    PROVE  /\ {DeployFile, TodoFile} \subseteq ExportNames(r, config)
           /\ ManifestFile \notin ExportNames(r, config)
           /\ File("regression-traces/old") \notin ExportNames(r, config)
<1> USE DEF File, Name
<1> DEFINE ours == {"cp-deploy.json", "production-todo.md", "source-bundle/bundle.json",
                    "source-bundle/traces", "regression-traces", "bridge-analysis.json",
                    "bridge-traces"}
<1>1. \A n \in BundleNames(r.traces) : n[1] \in ours
  BY DEF BundleNames, Named, BundleFile
<1>2. \A n \in ExportNames(r, config) : n[1] \in ours
  BY <1>1 DEF ExportNames, Named, DeployFile, TodoFile, AnalysisFile
<1>3. ManifestFile[1] \notin ours /\ File("regression-traces/old")[1] \notin ours
  BY DEF ManifestFile
<1>4. QED
  BY <1>2, <1>3 DEF ExportNames

(* Of any export, its manifest lists every other file as it is, and it has  *)
(* the files a change can be made to.                                       *)
LEMMA ManifestListsAll ==
    ASSUME NEW p \in Packages
    PROVE  /\ {DeployFile, ManifestFile, TodoFile} \subseteq DOMAIN p
           /\ p = [n \in DOMAIN p |-> p[n]]
           /\ p[ManifestFile].files = Without(p, ManifestFile)
           /\ p[ManifestFile] = [x \in DOMAIN p[ManifestFile] |-> p[ManifestFile][x]]
           /\ "signature" \in DOMAIN p[ManifestFile]
           /\ File("regression-traces/old") \notin DOMAIN p
           /\ DeployFile # ManifestFile /\ TodoFile # ManifestFile
<1>1. PICK r \in Requests : p = PackageOf(r)
  BY HandoffAssumption DEF Exports
<1> DEFINE config == DeployConfig(r.bundle, r.traces, r.pins, r.condition)
           files == FilesOf(r, config)
           plain == ManifestFor(files, config)
           manifest == Signed(plain, r.author, r.key)
<1>2. p = WithFile(files, ManifestFile, manifest)
  BY <1>1 DEF PackageOf
<1>3. /\ {DeployFile, TodoFile} \subseteq DOMAIN files
      /\ ManifestFile \notin DOMAIN files
      /\ File("regression-traces/old") \notin DOMAIN files
      /\ files = [n \in DOMAIN files |-> files[n]]
  <2> HIDE DEF config
  <2>. QED
    BY ManifestIsApart DEF FilesOf
<1>4. plain = [files |-> Without(files, ManifestFile), config |-> config,
               bundle |-> files[BundleFile], regressions |-> config.regressions,
               analysis |-> config.analysis, condition |-> config.condition.id,
               author |-> None, signature |-> None]
  BY DEF ManifestFor
<1> HIDE DEF files, config
<1>5. /\ manifest = [x \in DOMAIN manifest |-> manifest[x]]
      /\ "signature" \in DOMAIN manifest
      /\ manifest.files = Without(files, ManifestFile)
  <2> HIDE DEF plain
  <2>. QED
    BY <1>4 DEF Signed
<1> HIDE DEF plain, manifest
<1>6. File("regression-traces/old") # ManifestFile
  BY DEF File, Name, ManifestFile
<1>7. /\ p = [n \in DOMAIN files \cup {ManifestFile} |->
                IF n = ManifestFile THEN manifest ELSE files[n]]
      /\ DeployFile # ManifestFile /\ TodoFile # ManifestFile
  BY <1>2, <1>3 DEF WithFile
<1>8. Without(files, ManifestFile) = Without(p, ManifestFile)
  BY <1>3, <1>7 DEF Without
<1>9. QED
  BY <1>3, <1>5, <1>6, <1>7, <1>8

(* A file map made of pieces of exports, and verified, is one of them: the  *)
(* manifest it holds is some export's, and lists all its files.             *)
Pieced(files) ==
    /\ files = [n \in DOMAIN files |-> files[n]]
    /\ \A n \in DOMAIN files : \E p \in Packages : n \in DOMAIN p /\ files[n] = p[n]

LEMMA PiecedIsExport ==
    ASSUME NEW files, Pieced(files), ManifestFile \in DOMAIN files, Integrity(files)
    PROVE  files \in Packages
<1>1. PICK p \in Packages : files[ManifestFile] = p[ManifestFile]
  BY DEF Pieced
<1>2. /\ ManifestFile \in DOMAIN p
      /\ p = [n \in DOMAIN p |-> p[n]]
      /\ files[ManifestFile].files = Without(p, ManifestFile)
  BY <1>1, ManifestListsAll
<1>3. DOMAIN Without(p, ManifestFile) = DOMAIN p \ {ManifestFile}
  BY DEF Without
<1>4. DOMAIN files = DOMAIN p
  BY <1>2, <1>3 DEF Integrity, ListedOnly, Unlisted
<1>5. \A n \in DOMAIN p : files[n] = p[n]
  BY <1>1, <1>2, <1>3 DEF Integrity, ListedOnly, Without
<1>6. files = p
  BY <1>2, <1>4, <1>5 DEF Pieced
<1>7. QED
  BY <1>6

(* What the verifier accepts had its files checked against its manifest.    *)
LEMMA AcceptedIsIntact ==
    ASSUME NEW files, NEW asked, VerifyFiles(files, asked) \in {"OK", "UNVERIFIED"}
    PROVE  /\ {DeployFile, ManifestFile} \subseteq DOMAIN files
           /\ Integrity(files)
BY DEF VerifyFiles

(* Accepted as authentic: signed, and with the key the reader has.          *)
LEMMA AcceptedIsSigned ==
    ASSUME NEW files, NEW asked, asked.pubkey # None, ~asked.unsigned,
           VerifyFiles(files, asked) = "OK"
    PROVE  /\ Integrity(files)
           /\ files[ManifestFile].signature # None
           /\ VerifiesUnder(files[ManifestFile], asked.pubkey)
BY DEF VerifyFiles, Authentic

(* A file map that was changed on its way, and is accepted under the key    *)
(* it was signed with, is the export all the same: any change there is      *)
(* loses a listed file, adds or alters one, or needs a new signature.       *)
LEMMA ChangedIsRefused ==
    ASSUME NEW p \in Packages, NEW change \in Changes,
           NEW asked, asked.pubkey = PubKey, ~asked.unsigned,
           VerifyFiles(Changed(p, change), asked) = "OK"
    PROVE  Changed(p, change) \in Packages
<1> DEFINE files == Changed(p, change)
           config == [p[DeployFile] EXCEPT !.runtime_hashes = {}]
           with(m) == WithFile(WithFile(p, DeployFile, config), ManifestFile, m)
<1>1. /\ Integrity(files)
      /\ files[ManifestFile].signature # None
      /\ VerifiesUnder(files[ManifestFile], PubKey)
  <2> HIDE DEF files
  <2>1. VerifyFiles(files, asked) = "OK"
    BY DEF files
  <2>2. QED
    BY <2>1, AcceptedIsSigned, HandoffAssumption
<1>2. /\ {DeployFile, ManifestFile, TodoFile} \subseteq DOMAIN p
      /\ p = [n \in DOMAIN p |-> p[n]]
      /\ p[ManifestFile].files = Without(p, ManifestFile)
      /\ p[ManifestFile] = [x \in DOMAIN p[ManifestFile] |-> p[ManifestFile][x]]
      /\ "signature" \in DOMAIN p[ManifestFile]
      /\ File("regression-traces/old") \notin DOMAIN p
      /\ DeployFile # ManifestFile /\ TodoFile # ManifestFile
  BY ManifestListsAll
<1>3. \A m : /\ DOMAIN with(m) = DOMAIN p
             /\ with(m)[ManifestFile] = m
             /\ with(m)[DeployFile] = config
             /\ \A n \in DOMAIN p \ {ManifestFile, DeployFile} : with(m)[n] = p[n]
             /\ with(m) = [n \in DOMAIN p |-> with(m)[n]]
  BY <1>2 DEF WithFile
<1>4. CASE change = "whole"
  BY <1>4 DEF Changed
<1>5. CASE change = "lost"
  <2>1. files = Without(p, TodoFile)
    BY <1>5 DEF Changed
  <2>2. files[ManifestFile] = p[ManifestFile] /\ TodoFile \notin DOMAIN files
    BY <2>1, <1>2 DEF Without
  <2>3. TodoFile \in DOMAIN Without(p, ManifestFile)
    BY <1>2 DEF Without
  <2>4. QED
    BY <1>1, <1>2, <2>2, <2>3 DEF Integrity, ListedOnly
<1>6. CASE change = "added"
  <2> DEFINE old == File("regression-traces/old")
  <2>1. files = WithFile(p, old, "stale")
    BY <1>6 DEF Changed
  <2>2. files[ManifestFile] = p[ManifestFile] /\ old \in DOMAIN files /\ old # ManifestFile
    BY <2>1, <1>2 DEF WithFile
  <2>3. old \notin DOMAIN Without(p, ManifestFile)
    BY <1>2 DEF Without
  <2>4. QED
    BY <1>1, <1>2, <2>2, <2>3 DEF Integrity, Unlisted
<1>7. CASE change = "doctored"
  <2>1. files = with(p[ManifestFile])
    BY <1>7 DEF Changed
  <2>2. files[ManifestFile] = p[ManifestFile] /\ DOMAIN files = DOMAIN p
        /\ files = [n \in DOMAIN p |-> files[n]]
    BY <2>1, <1>3
  <2>3. files \in Packages
    BY <2>2, <1>1, <1>2, PiecedIsExport DEF Pieced, Integrity, ListedOnly, Without
  <2>4. QED
    BY <2>3
<1>8. CASE change = "resealed"
  <2>1. files[ManifestFile] = Resealed(p, config)
    BY <1>8, <1>3 DEF Changed
  <2>2. Resealed(p, config).signature = None
    BY DEF Resealed, ManifestFor
  <2>3. QED
    BY <2>1, <2>2, <1>1
<1>9. CASE change = "resigned"
  <2> DEFINE plain == Resealed(p, config)
             mallory == Signed(plain, "mallory", "other")
  <2>1. files[ManifestFile] = mallory
    BY <1>9, <1>3 DEF Changed
  <2>2. plain.signature = None /\ "signature" \in DOMAIN plain
    BY DEF Resealed, ManifestFor
  <2>3. mallory.signature = None \/ mallory.signature[1] = "other"
    <3> HIDE DEF plain
    <3>. QED
      BY <2>2 DEF Signed
  <2>4. QED
    BY <2>1, <2>3, <1>1, HandoffAssumption DEF VerifiesUnder
<1>10. CASE change = "stripped"
  <2>1. files = WithFile(p, ManifestFile, [p[ManifestFile] EXCEPT !.signature = None])
    BY <1>10 DEF Changed
  <2>2. files[ManifestFile].signature = None
    BY <2>1, <1>2 DEF WithFile
  <2>3. QED
    BY <2>2, <1>1
<1>11. QED
  BY <1>4, <1>5, <1>6, <1>7, <1>8, <1>9, <1>10, HandoffAssumption

(* What a reader knows: the files it has read are pieces of exports, as     *)
(* what stands in the place asked for always is one, or nothing; what it    *)
(* was sent is an export that was changed; and its outcome is of its files. *)
OutcomeOf(files, asked) == [is |-> VerifyFiles(files, asked), asked |-> asked]
ReaderKnows ==
    reader # Idle =>
        /\ reader = [at |-> reader.at, todo |-> reader.todo, files |-> reader.files,
                     changed |-> reader.changed, outcome |-> reader.outcome]
        /\ reader.at \in {"read", "verified"}
        /\ reader.changed = None => Pieced(reader.files)
        /\ reader.changed # None =>
                /\ reader.todo = {}
                /\ \E p \in Packages, change \in Changes : reader.files = Changed(p, change)
        /\ reader.at = "verified" =>
                \E asked \in Asked : reader.outcome = OutcomeOf(reader.files, asked)

LEMMA ReaderInit == Init => ReaderKnows
BY DEF Init, ReaderKnows

LEMMA OpenKnows == ASSUME ReaderKnows, Open PROVE ReaderKnows'
<1>1. reader' = [at |-> "read", todo |-> DOMAIN final, files |-> Empty, changed |-> None,
                 outcome |-> None]
  BY DEF Open
<1>2. Pieced(Empty)
  BY DEF Pieced, Empty
<1>3. QED
  BY <1>1, <1>2 DEF ReaderKnows

LEMMA ReadFileKnows ==
    ASSUME ReaderKnows, ExportIsWhole, ReadFile
    PROVE  ReaderKnows'
<1> DEFINE n == CHOOSE m \in reader.todo : TRUE
           files == IF final # Absent /\ n \in DOMAIN final
                    THEN WithFile(reader.files, n, final[n]) ELSE reader.files
<1>1. reader' = [at |-> "read", todo |-> reader.todo \ {n}, files |-> files,
                 changed |-> reader.changed, outcome |-> reader.outcome]
  BY DEF ReadFile, ReaderKnows
<1>2. ASSUME reader.changed = None PROVE Pieced(files)
  <2>1. Pieced(reader.files)
    BY <1>2 DEF ReadFile, ReaderKnows
  <2>2. CASE final # Absent /\ n \in DOMAIN final
    <3>1. final \in Packages
      BY <2>2 DEF ExportIsWhole, Empty
    <3>2. files = WithFile(reader.files, n, final[n])
      BY <2>2
    <3>3. \A m \in DOMAIN files : \E p \in Packages : m \in DOMAIN p /\ files[m] = p[m]
      BY <2>1, <2>2, <3>1, <3>2 DEF Pieced, WithFile
    <3>4. files = [m \in DOMAIN files |-> files[m]]
      BY <3>2 DEF WithFile
    <3>5. QED
      BY <3>3, <3>4 DEF Pieced
  <2>3. CASE ~(final # Absent /\ n \in DOMAIN final)
    BY <2>1, <2>3
  <2>4. QED
    BY <2>2, <2>3
<1>3. QED
  BY <1>1, <1>2 DEF ReadFile, ReaderKnows

LEMMA ReceiveKnows ==
    ASSUME ReaderKnows, NEW r \in Requests, NEW change \in Changes, Receive(r, change)
    PROVE  ReaderKnows'
<1>1. reader' = [at |-> "read", todo |-> {}, files |-> Changed(PackageOf(r), change),
                 changed |-> change, outcome |-> None]
  BY DEF Receive
<1>2. PackageOf(r) \in Packages /\ change # None
  BY HandoffAssumption DEF Receive
<1>3. QED
  BY <1>1, <1>2 DEF ReaderKnows

LEMMA VerifyKnows ==
    ASSUME ReaderKnows, NEW asked \in Asked, Verify(asked)
    PROVE  ReaderKnows'
<1>1. reader' = [at |-> "verified", todo |-> reader.todo, files |-> reader.files,
                 changed |-> reader.changed,
                 outcome |-> OutcomeOf(reader.files, asked)]
  BY DEF Verify, ReaderKnows, OutcomeOf
<1>2. \E a \in Asked : OutcomeOf(reader.files, asked) = OutcomeOf(reader.files, a)
  OBVIOUS
<1>3. /\ reader.changed = None => Pieced(reader.files)
      /\ reader.changed # None =>
                /\ reader.todo = {}
                /\ \E p \in Packages, change \in Changes : reader.files = Changed(p, change)
  BY DEF Verify, ReaderKnows
<1> DEFINE outcome == OutcomeOf(reader.files, asked)
<1> HIDE DEF outcome
<1>4. /\ reader'.at = "verified" /\ reader'.todo = reader.todo /\ reader'.files = reader.files
      /\ reader'.changed = reader.changed /\ reader'.outcome = outcome
      /\ reader' = [at |-> reader'.at, todo |-> reader'.todo, files |-> reader'.files,
                    changed |-> reader'.changed, outcome |-> reader'.outcome]
  BY <1>1 DEF outcome
<1>5. QED
  BY <1>2, <1>3, <1>4 DEF ReaderKnows, outcome

LEMMA ReaderNext == ReaderKnows /\ ExportIsWhole /\ [Next]_vars => ReaderKnows'
<1> SUFFICES ASSUME ReaderKnows, ExportIsWhole, [Next]_vars PROVE ReaderKnows'
  OBVIOUS
<1>1. ASSUME UNCHANGED reader PROVE ReaderKnows'
  BY <1>1 DEF ReaderKnows
<1>2. ASSUME NEW r \in Requests, NEW overwrite \in BOOLEAN, ExportPackage(r, overwrite)
      PROVE  UNCHANGED reader
  BY <1>2 DEF ExportPackage
<1>3. CASE Writing \/ UNCHANGED vars
  BY <1>1, <1>3 DEF Writing, vars
<1>4. CASE Close
  BY <1>4 DEF Close, ReaderKnows
<1>5. ASSUME NEW s \in Studies, Analyse(s) PROVE UNCHANGED reader
  BY <1>5 DEF Analyse
<1>6. ASSUME NEW r \in Requests, NEW change \in Changes, Receive(r, change)
      PROVE  ReaderKnows'
  BY <1>6, ReceiveKnows
<1>7. ASSUME NEW asked \in Asked, Verify(asked) PROVE ReaderKnows'
  BY <1>7, VerifyKnows
<1>8. CASE Open \/ ReadFile
  BY <1>8, OpenKnows, ReadFileKnows
<1>9. QED
  BY <1>1, <1>2, <1>3, <1>4, <1>5, <1>6, <1>7, <1>8 DEF Next

(* What a reader accepts is, to the last file, an export that Lab made,     *)
(* however the directory was swapped while it was read and whatever became  *)
(* of a file map on its way (verify_cp_files, read_export_directory).       *)
THEOREM AcceptedIsAlwaysExported == Spec => []AcceptedIsExported
<1>1. ReaderKnows => AcceptedIsExported
  <2> SUFFICES ASSUME ReaderKnows, reader # Idle, reader.at = "verified"
               PROVE  /\ reader.changed = None /\ reader.outcome.is \in {"OK", "UNVERIFIED"}
                            => reader.files \in Packages
                      /\ /\ reader.outcome.is = "OK"
                         /\ reader.outcome.asked.pubkey # None /\ ~reader.outcome.asked.unsigned
                         => reader.files \in Packages
    BY DEF AcceptedIsExported
  <2> DEFINE files == reader.files
  <2>1. PICK asked \in Asked : reader.outcome = OutcomeOf(files, asked)
    BY DEF ReaderKnows
  <2>2. reader.outcome.is = VerifyFiles(files, asked) /\ reader.outcome.asked = asked
    BY <2>1 DEF OutcomeOf
  <2>3. ASSUME reader.changed = None, reader.outcome.is \in {"OK", "UNVERIFIED"}
        PROVE  files \in Packages
    <3>1. Pieced(files)
      BY <2>3 DEF ReaderKnows
    <3> HIDE DEF files
    <3>2. {DeployFile, ManifestFile} \subseteq DOMAIN files /\ Integrity(files)
      BY <2>2, <2>3, AcceptedIsIntact
    <3>3. QED
      BY <3>1, <3>2, PiecedIsExport
  <2>4. ASSUME reader.changed # None, reader.outcome.is = "OK",
               reader.outcome.asked.pubkey # None, ~reader.outcome.asked.unsigned
        PROVE  files \in Packages
    <3>1. PICK p \in Packages, change \in Changes : files = Changed(p, change)
      BY <2>4 DEF ReaderKnows
    <3>2. asked.pubkey = PubKey /\ ~asked.unsigned
      BY <2>2, <2>4 DEF Asked
    <3>3. VerifyFiles(Changed(p, change), asked) = "OK"
      BY <2>2, <2>4, <3>1
    <3>4. QED
      BY <3>1, <3>2, <3>3, ChangedIsRefused
  <2>5. QED
    BY <2>3, <2>4
<1>2. Spec => []ReaderKnows
  <2>1. Spec => []ExportIsWhole
    BY HandoffUsesDirectories, ExportIsAlwaysWhole
  <2>2. QED
    BY <2>1, ReaderInit, ReaderNext, PTL DEF Spec
<1>3. QED
  BY <1>1, <1>2, PTL

----------------------------------------------------------------------------
(* What is left of a bundle without its benign trials: the same arms, the   *)
(* same outcomes and the same units that could have had one.                *)
LEMMA BenignIsApart ==
    ASSUME NEW b, {"scenarios", "conditions", "environment", "trials"} \subseteq DOMAIN b
    PROVE  LET w == WithoutBenign(b)
           IN  /\ Attacked(w) = Attacked(b) /\ Baseline(w) = Baseline(b)
               /\ Enforcing(w) = Enforcing(b) /\ Design(w) = Design(b)
               /\ \A cid : Outcomes(w, cid) = Outcomes(b, cid)
               /\ \A cid : ArmCoords(w, cid) = ArmCoords(b, cid)
<1> DEFINE w == WithoutBenign(b)
           left == {t \in Range(b.trials) : t.scenario \in Attacked(b)}
<1>1. /\ w.scenarios = b.scenarios /\ w.conditions = b.conditions
      /\ w.environment = b.environment
      /\ w.trials = Restrict(b.trials, {i \in DOMAIN b.trials : b.trials[i].scenario \in Attacked(b)})
  BY DEF WithoutBenign
<1>2. Range(w.trials) = left
  BY <1>1 DEF Range, Restrict
<1> HIDE DEF w
<1>3. Attacked(w) = Attacked(b) /\ Enforcing(w) = Enforcing(b) /\ Design(w) = Design(b)
  BY <1>1 DEF Attacked, Enforcing, Design
<1>4. Baseline(w) = Baseline(b)
  BY <1>1 DEF Baseline, Offs
<1>5. \A cid : Outcomes(w, cid) = Outcomes(b, cid)
  BY <1>2, <1>3 DEF Outcomes, CompletedIn, Completed
<1>6. \A cid : ArmCoords(w, cid) = ArmCoords(b, cid)
  BY <1>2, <1>3 DEF ArmCoords, ArmTrials
<1>7. QED
  BY <1>3, <1>4, <1>5, <1>6 DEF w

(* Which test a bridge has to pass goes by the design.                      *)
MatchedEarn(b, base, cid) ==
    EarnedMatched(Outcomes(b, base), Outcomes(b, cid),
                  ArmCoords(b, base) \cup ArmCoords(b, cid), base)

LEMMA EarnedByDesign ==
    ASSUME NEW b, NEW traces, NEW base, NEW cid
    PROVE  EarnedFor(b, traces, base, cid) <=>
                /\ Comparable(b, traces, base, cid)
                /\ \/ Design(b) = "matched_pairs" /\ MatchedEarn(b, base, cid)
                   \/ Design(b) = "independent_samples" /\ EarnedIndependent(b, base, cid)
BY Zenon DEF EarnedFor, MatchedEarn

(* What is analysed is one of the studies.                                  *)
StudyKnown == study \in Studies \cup {None}

(* What any bundle's benign trials do to its bridge: independent arms are   *)
(* compared on the scenarios either arm planned trials of, fewer without    *)
(* the benign ones, and what the trials of an attacked one became is kept.  *)
LEMMA SymmetricWithout ==
    ASSUME NEW b, {"scenarios", "conditions", "environment", "trials"} \subseteq DOMAIN b,
           NEW base, NEW cid, Symmetric(b, base, cid)
    PROVE  Symmetric(WithoutBenign(b), base, cid)
<1> DEFINE w == WithoutBenign(b)
<1>1. \A c : Outcomes(w, c) = Outcomes(b, c)
  BY BenignIsApart
<1>2. w.trials = Restrict(b.trials, {i \in DOMAIN b.trials : b.trials[i].scenario \in Attacked(b)})
  BY DEF WithoutBenign
<1>3. Range(w.trials) = {t \in Range(b.trials) : t.scenario \in Attacked(b)}
  BY <1>2 DEF Range, Restrict
<1> HIDE DEF w
<1>4. \A c : ArmTrials(w, c) = {t \in ArmTrials(b, c) : t.scenario \in Attacked(b)}
  BY <1>3 DEF ArmTrials
<1>5. ASSUME NEW s \in {t.scenario : t \in ArmTrials(w, base) \cup ArmTrials(w, cid)}
      PROVE  /\ s \in {t.scenario : t \in ArmTrials(b, base) \cup ArmTrials(b, cid)}
             /\ \A c : {t \in ArmTrials(w, c) : t.scenario = s}
                        = {t \in ArmTrials(b, c) : t.scenario = s}
             /\ \A c : StatusRow(w, c, s, Lost) = StatusRow(b, c, s, Lost)
  <2>1. /\ s \in Attacked(b)
        /\ s \in {t.scenario : t \in ArmTrials(b, base) \cup ArmTrials(b, cid)}
    BY <1>4
  <2>2. \A c : {t \in ArmTrials(w, c) : t.scenario = s} = {t \in ArmTrials(b, c) : t.scenario = s}
    BY <1>4, <2>1
  <2>3. \A c : {t \in ArmTrials(w, c) : t.scenario = s /\ t.status \in Lost}
                = {t \in ArmTrials(b, c) : t.scenario = s /\ t.status \in Lost}
    BY <1>4, <2>1
  <2>4. QED
    BY <2>1, <2>2, <2>3 DEF StatusRow
<1>6. ScenarioBalance(Outcomes(w, base)) = ScenarioBalance(Outcomes(w, cid))
  BY <1>1 DEF Symmetric
<1>7. ASSUME NEW s \in {t.scenario : t \in ArmTrials(w, base) \cup ArmTrials(w, cid)}
      PROVE  /\ Cardinality({t \in ArmTrials(w, base) : t.scenario = s})
                    = Cardinality({t \in ArmTrials(w, cid) : t.scenario = s})
             /\ StatusRow(w, base, s, Lost) = StatusRow(w, cid, s, Lost)
  BY <1>5, <1>7 DEF Symmetric
<1>8. Symmetric(w, base, cid)
  BY <1>6, <1>7 DEF Symmetric
<1>9. QED
  BY <1>8 DEF w

(* A bundle without its benign trials earns every bridge it earned with     *)
(* them, and of matched arms no other.                                      *)
LEMMA WithoutBenignEarns ==
    ASSUME NEW b, {"scenarios", "conditions", "environment", "trials"} \subseteq DOMAIN b,
           NEW traces, NEW base, NEW cid, base = Baseline(b)
    PROVE  LET w == WithoutBenign(b)
           IN  /\ EarnedFor(b, traces, base, cid) => EarnedFor(w, traces, base, cid)
               /\ Design(b) = "matched_pairs" /\ EarnedFor(w, traces, base, cid)
                        => EarnedFor(b, traces, base, cid)
<1> DEFINE w == WithoutBenign(b)
<1>1. /\ Design(w) = Design(b)
      /\ \A c : Outcomes(w, c) = Outcomes(b, c)
      /\ \A c : ArmCoords(w, c) = ArmCoords(b, c)
  BY BenignIsApart
<1>2. Symmetric(b, base, cid) => Symmetric(w, base, cid)
  BY SymmetricWithout
<1> HIDE DEF w
<1>3. Comparable(w, traces, base, cid) <=> Comparable(b, traces, base, cid)
  <2>1. Outcomes(w, cid) = Outcomes(b, cid) /\ Outcomes(w, base) = Outcomes(b, base)
    BY <1>1
  <2>2. QED
    BY <2>1 DEF Comparable
<1>4. MatchedEarn(w, base, cid) <=> MatchedEarn(b, base, cid)
  BY <1>1 DEF MatchedEarn
<1>5. PooledIsSeparated(w, base, cid) <=> PooledIsSeparated(b, base, cid)
  <2>1. Outcomes(w, cid) = Outcomes(b, cid) /\ Outcomes(w, base) = Outcomes(b, base)
    BY <1>1
  <2>2. QED
    BY <2>1 DEF PooledIsSeparated
<1>6. EarnedIndependent(b, base, cid) => EarnedIndependent(w, base, cid)
  BY <1>2, <1>5 DEF EarnedIndependent
<1>7. /\ EarnedFor(b, traces, base, cid) => EarnedFor(w, traces, base, cid)
      /\ Design(b) = "matched_pairs" /\ EarnedFor(w, traces, base, cid)
            => EarnedFor(b, traces, base, cid)
  BY <1>1, <1>3, <1>4, <1>6, EarnedByDesign
<1>8. QED
  BY <1>7 DEF w

(* What scenarios without an attack model did never earns a bridge, under   *)
(* either design, and costs a matched one nothing (_arm_coords,             *)
(* _bridge_outcomes, _earned_independent).                                  *)
THEOREM BenignNeverEarns == Spec => []BenignEarnsNothing
<1>1. ASSUME NEW b, {"scenarios", "conditions", "environment", "trials"} \subseteq DOMAIN b,
             NEW traces, NEW id
      PROVE  /\ EarnedBridge(b, traces, id) => EarnedBridge(WithoutBenign(b), traces, id)
             /\ Design(b) = "matched_pairs" /\ EarnedBridge(WithoutBenign(b), traces, id)
                    => EarnedBridge(b, traces, id)
  <2> DEFINE w == WithoutBenign(b)
  <2>1. Baseline(w) = Baseline(b) /\ Enforcing(w) = Enforcing(b)
    BY <1>1, BenignIsApart
  <2>2. \A cid : /\ EarnedFor(b, traces, Baseline(b), cid) => EarnedFor(w, traces, Baseline(b), cid)
                 /\ Design(b) = "matched_pairs" /\ EarnedFor(w, traces, Baseline(b), cid)
                        => EarnedFor(b, traces, Baseline(b), cid)
    BY <1>1, WithoutBenignEarns
  <2> HIDE DEF w
  <2>3. QED
    BY <2>1, <2>2 DEF EarnedBridge, w
<1>2. StudyKnown => BenignEarnsNothing
  BY <1>1, StudiesAssumption DEF BenignEarnsNothing, StudyKnown
<1>3. Init => StudyKnown
  BY DEF Init, StudyKnown
<1>4. StudyKnown /\ [Next]_vars => StudyKnown'
  BY DEF StudyKnown, Next, vars, ExportPackage, Writing, Open, ReadFile, Close, Receive, Verify, Analyse
<1>5. QED
  BY <1>2, <1>3, <1>4, PTL DEF Spec

----------------------------------------------------------------------------
(* Counting.  A finite set that has no more elements than another can be    *)
(* mapped into it, no two elements to one.                                  *)
LEMMA SmallerInjects ==
    ASSUME NEW X, NEW Y, IsFiniteSet(X), IsFiniteSet(Y), Cardinality(X) <= Cardinality(Y)
    PROVE  Injection(X, Y) # {}
<1> DEFINE n == Cardinality(X)
           m == Cardinality(Y)
<1>1. n \in Nat /\ m \in Nat /\ ExistsBijection(1 .. n, X) /\ ExistsBijection(1 .. m, Y)
  BY FS_CardinalityType
<1> HIDE DEF n, m
<1>2. PICK f \in Bijection(1 .. n, X) : TRUE
  BY <1>1 DEF ExistsBijection
<1>3. PICK g \in Bijection(1 .. m, Y) : TRUE
  BY <1>1 DEF ExistsBijection
<1> DEFINE back == Inverse(f, 1 .. n, X)
           h == [x \in X |-> g[back[x]]]
<1>4. back \in Bijection(X, 1 .. n)
  BY Fun_BijInverse
<1> HIDE DEF back
<1>5. n <= m
  BY DEF n, m
<1>6. /\ back \in [X -> 1 .. n]
      /\ \A x, y \in X : back[x] = back[y] => x = y
  BY <1>4, Fun_BijectionProperties
<1>7. /\ g \in [1 .. m -> Y]
      /\ \A i, j \in 1 .. m : g[i] = g[j] => i = j
  BY <1>3, Fun_BijectionProperties
<1>8. \A x \in X : back[x] \in 1 .. m
  BY <1>1, <1>5, <1>6
<1>9. h \in [X -> Y] /\ \A x, y \in X : h[x] = h[y] => x = y
  BY <1>6, <1>7, <1>8
<1>10. QED
  BY <1>9, Fun_IsInj

(* If of one finite set no class has more elements than the same class of   *)
(* another, then neither has the whole.                                     *)
LEMMA NoClassSmaller ==
    ASSUME NEW A, NEW B, NEW at, IsFiniteSet(A), IsFiniteSet(B),
           \A s : Cardinality({x \in B : at[x] = s}) <= Cardinality({x \in A : at[x] = s})
    PROVE  Cardinality(B) <= Cardinality(A)
<1> DEFINE inA(s) == {x \in A : at[x] = s}
           inB(s) == {x \in B : at[x] = s}
           into(s) == CHOOSE h : h \in Injection(inB(s), inA(s))
           f == [x \in B |-> into(at[x])[x]]
<1>1. ASSUME NEW s PROVE into(s) \in Injection(inB(s), inA(s))
  <2>1. IsFiniteSet(inA(s)) /\ IsFiniteSet(inB(s))
    BY FS_Subset
  <2>2. Injection(inB(s), inA(s)) # {}
    BY <2>1, SmallerInjects
  <2>3. QED
    BY <2>2
<1>2. ASSUME NEW s
      PROVE  /\ into(s) \in [inB(s) -> inA(s)]
             /\ \A x, y \in inB(s) : into(s)[x] = into(s)[y] => x = y
  <2> HIDE DEF into, inA, inB
  <2>1. into(s) \in Injection(inB(s), inA(s))
    BY <1>1
  <2>2. QED
    BY <2>1, Fun_InjectionProperties
<1> HIDE DEF into
<1>3. \A x \in B : f[x] \in A /\ at[f[x]] = at[x]
  <2> TAKE x \in B
  <2>1. into(at[x]) \in [inB(at[x]) -> inA(at[x])] /\ x \in inB(at[x])
    BY <1>2
  <2>2. into(at[x])[x] \in inA(at[x])
    BY <2>1
  <2>3. QED
    BY <2>2
<1>4. \A x, y \in B : f[x] = f[y] => x = y
  <2> SUFFICES ASSUME NEW x \in B, NEW y \in B, f[x] = f[y] PROVE x = y
    OBVIOUS
  <2>1. at[x] = at[y]
    BY <1>3
  <2>2. into(at[x])[x] = into(at[x])[y]
    BY <2>1
  <2>3. QED
    BY <1>2, <2>1, <2>2
<1>5. f \in Injection(B, A)
  BY <1>3, <1>4, Fun_IsInj
<1>6. QED
  BY <1>5, FS_Injection

LEMMA Cancel ==
    ASSUME NEW x \in Nat, NEW y \in Nat, NEW k \in Nat \ {0}, x * k >= y * k
    PROVE  x >= y
<1>1. CASE x < y
  <2>1. x + 1 <= y /\ (x + 1) * k <= y * k
    BY <1>1
  <2>2. QED
    BY <2>1
<1>2. QED
  BY <1>1

----------------------------------------------------------------------------
(* An arm has one outcome to a unit, when _bridge_outcomes does not raise.  *)
LEMMA OneOutcomeToAUnit ==
    ASSUME NEW b, NEW traces, OutcomesAreComplete(b, traces), NEW cid
    PROVE  \A t, u \in Outcomes(b, cid) : Unit4(t) = Unit4(u) => t = u
<1> SUFFICES ASSUME NEW t \in Outcomes(b, cid), NEW u \in Outcomes(b, cid), Unit4(t) = Unit4(u)
             PROVE  t = u
  OBVIOUS
<1>1. /\ {t, u} \subseteq Completed(b) /\ t.scenario \in Attacked(b)
      /\ t.condition = cid /\ u.condition = cid
  BY DEF Outcomes, CompletedIn
<1>2. PICK i \in DOMAIN b.trials : b.trials[i] = t
  BY <1>1 DEF Completed, Range
<1>3. PICK j \in DOMAIN b.trials : b.trials[j] = u
  BY <1>1 DEF Completed, Range
<1>4. i = j
  BY <1>1, <1>2, <1>3 DEF OutcomesAreComplete
<1>5. QED
  BY <1>2, <1>3, <1>4

LEMMA OutcomesAreFinite ==
    ASSUME NEW b, IsFiniteSet(DOMAIN b.trials), NEW cid
    PROVE  IsFiniteSet(Outcomes(b, cid))
<1> DEFINE f == [i \in DOMAIN b.trials |-> b.trials[i]]
<1>1. f \in Surjection(DOMAIN b.trials, Range(b.trials))
  BY Fun_IsSurj DEF Range
<1>2. IsFiniteSet(Range(b.trials))
  BY <1>1, FS_Surjection
<1>3. Outcomes(b, cid) \subseteq Range(b.trials)
  BY DEF Outcomes, CompletedIn, Completed
<1>4. QED
  BY <1>2, <1>3, FS_Subset

(* As many outcomes as units, among any of the arm's.                       *)
LEMMA OutcomesOfUnits ==
    ASSUME NEW arm, IsFiniteSet(arm),
           \A t, u \in arm : Unit4(t) = Unit4(u) => t = u,
           NEW M \in SUBSET Units(arm)
    PROVE  LET among == {t \in arm : Unit4(t) \in M}
           IN  /\ IsFiniteSet(among) /\ IsFiniteSet(M)
               /\ Cardinality(among) = Cardinality(M)
<1> DEFINE among == {t \in arm : Unit4(t) \in M}
           f == [t \in among |-> Unit4(t)]
<1>1. IsFiniteSet(among)
  BY FS_Subset
<1>2. f \in [among -> M] /\ \A t, u \in among : f[t] = f[u] => t = u
  OBVIOUS
<1>3. \A k \in M : \E t \in among : f[t] = k
  BY DEF Units
<1>4. f \in Bijection(among, M)
  BY <1>2, <1>3, Fun_IsBij
<1>5. QED
  BY <1>1, <1>4, FS_Bijection DEF ExistsBijection

(* Within one scenario: as many units in both arms, and not a lower rate of *)
(* violations, is not fewer violations.                                     *)
LEMMA RateIsCount ==
    ASSUME NEW offV, NEW onV, NEW off, NEW on,
           IsFiniteSet(off), IsFiniteSet(on), offV \subseteq off, onV \subseteq on,
           Cardinality(off) = Cardinality(on),
           Cardinality(onV) * Cardinality(off) >= Cardinality(offV) * Cardinality(on)
    PROVE  Cardinality(offV) <= Cardinality(onV)
<1>1. /\ IsFiniteSet(offV) /\ IsFiniteSet(onV)
      /\ Cardinality(off) \in Nat /\ Cardinality(offV) \in Nat /\ Cardinality(onV) \in Nat
      /\ Cardinality(offV) <= Cardinality(off)
  BY FS_Subset, FS_CardinalityType
<1> DEFINE k == Cardinality(off)
           x == Cardinality(onV)
           y == Cardinality(offV)
<1>2. k \in Nat /\ x \in Nat /\ y \in Nat /\ y <= k /\ x * k >= y * k
  BY <1>1
<1> HIDE DEF k, x, y
<1>3. x >= y
  <2>1. CASE k = 0
    BY <1>2, <2>1
  <2>2. CASE k # 0
    BY <1>2, <2>2, Cancel
  <2>3. QED
    BY <2>1, <2>2
<1>4. QED
  BY <1>2, <1>3 DEF x, y

(* Independent samples: arms of one composition, and no scenario where      *)
(* governance helped, are not separated.                                    *)
LEMMA IndependentNeedsHelp ==
    ASSUME NEW b, NEW base, NEW cid, IsFiniteSet(DOMAIN b.trials),
           Design(b) = "independent_samples", HelpsNowhere(b, base, cid),
           Cardinality(Outcomes(b, base)) >= MinEffectiveN,
           EarnedIndependent(b, base, cid)
    PROVE  FALSE
<1> DEFINE off == Outcomes(b, base)
           on == Outcomes(b, cid)
           offV == {t \in off : Violated(t)}
           onV == {t \in on : Violated(t)}
           at == [t \in off \cup on |-> t.scenario]
           in(s, arm) == {t \in arm : at[t] = s}
<1>1. IsFiniteSet(off) /\ IsFiniteSet(on)
  BY OutcomesAreFinite
<1>2. \A t \in off \cup on : t.scenario \in Attacked(b) /\ at[t] = t.scenario
  BY DEF Outcomes
<1>3. ASSUME NEW s PROVE Cardinality(in(s, off)) = Cardinality(in(s, on))
  <2>1. ScenarioBalance(off) = ScenarioBalance(on)
    BY DEF EarnedIndependent, Symmetric
  <2>2. in(s, off) = {t \in off : t.scenario = s} /\ in(s, on) = {t \in on : t.scenario = s}
    BY <1>2
  <2> HIDE DEF off, on
  <2>3. CASE s \in {t.scenario : t \in off}
    <3>1. s \in {t.scenario : t \in on}
      BY <2>1, <2>3 DEF ScenarioBalance
    <3>2. ScenarioBalance(off)[s] = ScenarioBalance(on)[s]
      BY <2>1
    <3>3. QED
      BY <2>2, <2>3, <3>1, <3>2 DEF ScenarioBalance
  <2>4. CASE s \notin {t.scenario : t \in off}
    <3>1. s \notin {t.scenario : t \in on}
      BY <2>1, <2>4 DEF ScenarioBalance
    <3>2. {t \in off : t.scenario = s} = {} /\ {t \in on : t.scenario = s} = {}
      BY <2>4, <3>1
    <3>3. QED
      BY <2>2, <3>2
  <2>5. QED
    BY <2>3, <2>4
<1>4. ASSUME NEW s PROVE Cardinality(in(s, offV)) <= Cardinality(in(s, onV))
  <2>1. CASE s \in Attacked(b)
    <3>1. Compared(b, base, cid) = Units(off) \cup Units(on)
      BY DEF Compared
    <3>2. InScenario(b, base, s, Compared(b, base, cid)) = in(s, off)
      BY <1>2, <3>1 DEF InScenario, Units
    <3>3. InScenario(b, cid, s, Compared(b, base, cid)) = in(s, on)
      BY <1>2, <3>1 DEF InScenario, Units
    <3>4. /\ Violations(in(s, off)) = Cardinality(in(s, offV))
          /\ Violations(in(s, on)) = Cardinality(in(s, onV))
      <4>1. /\ {t \in in(s, off) : Violated(t)} = in(s, offV)
            /\ {t \in in(s, on) : Violated(t)} = in(s, onV)
        OBVIOUS
      <4>2. QED
        BY <4>1 DEF Violations
    <3>5. Violations(in(s, on)) * Cardinality(in(s, off))
                >= Violations(in(s, off)) * Cardinality(in(s, on))
      <4> HIDE DEF in, off, on
      <4>. QED
        BY <2>1, <3>2, <3>3 DEF HelpsNowhere
    <3>6. /\ IsFiniteSet(in(s, off)) /\ IsFiniteSet(in(s, on))
          /\ in(s, offV) \subseteq in(s, off) /\ in(s, onV) \subseteq in(s, on)
      BY <1>1, FS_Subset
    <3>7. Cardinality(in(s, off)) = Cardinality(in(s, on))
      BY <1>3
    <3>8. Cardinality(in(s, onV)) * Cardinality(in(s, off))
                >= Cardinality(in(s, offV)) * Cardinality(in(s, on))
      <4> HIDE DEF in, off, on, offV, onV
      <4>. QED
        BY <3>4, <3>5
    <3> DEFINE sOff == in(s, off)
               sOn == in(s, on)
               sOffV == in(s, offV)
               sOnV == in(s, onV)
    <3>9. Cardinality(sOffV) <= Cardinality(sOnV)
      <4> HIDE DEF sOff, sOn, sOffV, sOnV
      <4>1. /\ IsFiniteSet(sOff) /\ IsFiniteSet(sOn) /\ sOffV \subseteq sOff /\ sOnV \subseteq sOn
            /\ Cardinality(sOff) = Cardinality(sOn)
            /\ Cardinality(sOnV) * Cardinality(sOff) >= Cardinality(sOffV) * Cardinality(sOn)
        BY <3>6, <3>7, <3>8 DEF sOff, sOn, sOffV, sOnV
      <4>2. QED
        BY <4>1, RateIsCount
    <3>10. QED
      BY <3>9
  <2>2. CASE s \notin Attacked(b)
    <3>1. in(s, offV) = {} /\ in(s, onV) = {}
      BY <1>2, <2>2
    <3>2. Cardinality({}) <= Cardinality({})
      BY FS_EmptySet
    <3> HIDE DEF in
    <3>3. QED
      BY <3>1, <3>2
  <2>3. QED
    BY <2>1, <2>2
<1>5. /\ IsFiniteSet(offV) /\ IsFiniteSet(onV)
      /\ Cardinality(off) \in Nat /\ Cardinality(on) \in Nat
      /\ Cardinality(offV) \in Nat /\ Cardinality(onV) \in Nat
  BY <1>1, FS_Subset, FS_CardinalityType
<1>6. Cardinality(offV) <= Cardinality(onV)
  <2> HIDE DEF off, on, offV, onV, at
  <2>. QED
    BY <1>4, <1>5, NoClassSmaller
<1>7. Cardinality(off) = Cardinality(on)
  <2> HIDE DEF off, on, at
  <2>1. \A s : Cardinality(in(s, off)) \in Nat
    <3> TAKE s
    <3>1. IsFiniteSet(in(s, off))
      BY <1>1, FS_Subset
    <3>2. QED
      BY <3>1, FS_CardinalityType
  <2>2. \A s : Cardinality(in(s, off)) <= Cardinality(in(s, on))
    <3> HIDE DEF in
    <3>. QED
      BY <1>3, <2>1
  <2>3. \A s : Cardinality(in(s, on)) <= Cardinality(in(s, off))
    <3> HIDE DEF in
    <3>. QED
      BY <1>3, <2>1
  <2>4. Cardinality(off) <= Cardinality(on)
    BY <1>1, <2>2, NoClassSmaller
  <2>5. Cardinality(on) <= Cardinality(off)
    BY <1>1, <2>3, NoClassSmaller
  <2>6. QED
    BY <1>5, <2>4, <2>5
<1> DEFINE n == Cardinality(off)
           bv == Cardinality(offV)
           tv == Cardinality(onV)
<1>8. n \in Nat /\ bv \in Nat /\ tv \in Nat /\ bv <= tv /\ n # 0
  BY <1>5, <1>6, StudiesAssumption
<1>9. 10 * (bv * n - tv * n) >= n * n
  BY <1>7 DEF EarnedIndependent, PooledIsSeparated, Violations
<1> HIDE DEF n, bv, tv
<1> DEFINE p == bv * n
           q == tv * n
           r == n * n
<1>10. p \in Nat /\ q \in Nat /\ r \in Nat /\ p <= q /\ r > 0
  BY <1>8
<1>11. 10 * (p - q) >= r
  BY <1>9
<1> HIDE DEF p, q, r
<1>12. QED
  BY <1>10, <1>11

(* Matched pairs: the net reduction is what governance took from the pairs, *)
(* and it is none where no scenario was helped.                             *)
LEMMA MatchedNeedsHelp ==
    ASSUME NEW b, NEW traces, NEW base, NEW cid, IsFiniteSet(DOMAIN b.trials),
           OutcomesAreComplete(b, traces),
           Design(b) = "matched_pairs", HelpsNowhere(b, base, cid),
           MatchedEarn(b, base, cid)
    PROVE  FALSE
<1> DEFINE off == Outcomes(b, base)
           on == Outcomes(b, cid)
           K == Units(off) \cap Units(on)
           of(arm, k) == Violated(CHOOSE t \in arm : Unit4(t) = k)
           offV == {k \in K : of(off, k)}
           onV == {k \in K : of(on, k)}
           at == [k \in K |-> k[1]]
           in(s, M) == {k \in M : at[k] = s}
<1>1. /\ IsFiniteSet(off) /\ \A t, u \in off : Unit4(t) = Unit4(u) => t = u
      /\ IsFiniteSet(on) /\ \A t, u \in on : Unit4(t) = Unit4(u) => t = u
  BY OutcomesAreFinite, OneOutcomeToAUnit
<1>2. \A t \in off \cup on : t.scenario \in Attacked(b) /\ Unit4(t)[1] = t.scenario
  BY DEF Outcomes, Unit4
<1>3. IsFiniteSet(K) /\ K \subseteq Units(off) /\ K \subseteq Units(on)
  <2> HIDE DEF off, on
  <2>. QED
    BY <1>1, OutcomesOfUnits
<1>4. /\ IsFiniteSet(offV) /\ IsFiniteSet(onV) /\ IsFiniteSet(offV \cap onV)
      /\ Cardinality(offV) \in Nat /\ Cardinality(onV) \in Nat
      /\ Cardinality(offV \cap onV) \in Nat
  <2>1. IsFiniteSet(offV) /\ IsFiniteSet(onV)
    BY <1>3, FS_Subset
  <2> HIDE DEF offV, onV
  <2>2. QED
    BY <2>1, FS_Intersection, FS_CardinalityType
<1>5. Cardinality(offV) > Cardinality(onV)
  <2> DEFINE pairs == [k \in K |-> <<of(off, k), of(on, k)>>]
             test == McNemar(pairs, base)
  <2>1. test.counts[1] - test.counts[2] > 0
    BY DEF MatchedEarn, EarnedMatched
  <2>2. /\ test.counts[1] = Cardinality({k \in DOMAIN pairs : pairs[k][1] /\ ~pairs[k][2]})
        /\ test.counts[2] = Cardinality({k \in DOMAIN pairs : ~pairs[k][1] /\ pairs[k][2]})
    BY DEF McNemar
  <2>3. /\ {k \in DOMAIN pairs : pairs[k][1] /\ ~pairs[k][2]} = offV \ onV
        /\ {k \in DOMAIN pairs : ~pairs[k][1] /\ pairs[k][2]} = onV \ offV
    BY Zenon
  <2>4. /\ test.counts[1] = Cardinality(offV \ onV)
        /\ test.counts[2] = Cardinality(onV \ offV)
    BY <2>2, <2>3
  <2> HIDE DEF offV, onV, test
  <2>5. /\ Cardinality(offV \ onV) = Cardinality(offV) - Cardinality(offV \cap onV)
        /\ Cardinality(onV \ offV) = Cardinality(onV) - Cardinality(onV \cap offV)
    BY <1>4, FS_Difference
  <2>6. offV \cap onV = onV \cap offV
    OBVIOUS
  <2>7. QED
    BY <1>4, <2>1, <2>4, <2>5, <2>6
<1>6. ASSUME NEW s PROVE Cardinality(in(s, offV)) <= Cardinality(in(s, onV))
  <2>1. CASE s \in Attacked(b)
    <3> DEFINE offS == InScenario(b, base, s, K)
               onS == InScenario(b, cid, s, K)
    <3>1. Compared(b, base, cid) = K
      BY DEF Compared
    <3>2. Violations(onS) * Cardinality(offS) >= Violations(offS) * Cardinality(onS)
      <4> HIDE DEF K
      <4>. QED
        BY <2>1, <3>1 DEF HelpsNowhere
    <3>3. /\ offS = {t \in off : Unit4(t) \in in(s, K)}
          /\ onS = {t \in on : Unit4(t) \in in(s, K)}
      BY <1>2 DEF InScenario
    <3>4. /\ {t \in offS : Violated(t)} = {t \in off : Unit4(t) \in in(s, offV)}
          /\ {t \in onS : Violated(t)} = {t \in on : Unit4(t) \in in(s, onV)}
      <4>1. /\ \A t \in off : of(off, Unit4(t)) <=> Violated(t)
            /\ \A t \in on : of(on, Unit4(t)) <=> Violated(t)
        <5>1. /\ \A t \in off : (CHOOSE u \in off : Unit4(u) = Unit4(t)) = t
              /\ \A t \in on : (CHOOSE u \in on : Unit4(u) = Unit4(t)) = t
          <6> HIDE DEF off, on
          <6>. QED
            BY <1>1
        <5>2. QED
          BY <5>1
      <4> HIDE DEF of, off, on
      <4>2. QED
        BY <3>3, <4>1
    <3>5. /\ in(s, K) \subseteq K /\ in(s, offV) \subseteq K /\ in(s, onV) \subseteq K
          /\ in(s, offV) \subseteq in(s, K) /\ in(s, onV) \subseteq in(s, K)
      OBVIOUS
    <3> HIDE DEF off, on, K, in, offV, onV
    <3>6. /\ IsFiniteSet(in(s, K))
          /\ Cardinality(offS) = Cardinality(in(s, K))
          /\ Cardinality(onS) = Cardinality(in(s, K))
      BY <1>1, <1>3, <3>3, <3>5, OutcomesOfUnits
    <3>7. Violations(offS) = Cardinality(in(s, offV))
      BY <1>1, <1>3, <3>4, <3>5, OutcomesOfUnits DEF Violations
    <3>8. Violations(onS) = Cardinality(in(s, onV))
      BY <1>1, <1>3, <3>4, <3>5, OutcomesOfUnits DEF Violations
    <3>9. Cardinality(in(s, onV)) * Cardinality(in(s, K))
                >= Cardinality(in(s, offV)) * Cardinality(in(s, K))
      BY <3>2, <3>6, <3>7, <3>8
    <3>10. QED
      BY <3>5, <3>6, <3>9, RateIsCount
  <2>2. CASE s \notin Attacked(b)
    <3>1. in(s, offV) = {} /\ in(s, onV) = {}
      BY <1>2, <2>2 DEF Units
    <3>2. Cardinality({}) <= Cardinality({})
      BY FS_EmptySet
    <3> HIDE DEF in
    <3>3. QED
      BY <3>1, <3>2
  <2>3. QED
    BY <2>1, <2>2
<1>7. Cardinality(offV) <= Cardinality(onV)
  <2> HIDE DEF off, on, K, offV, onV, at
  <2>. QED
    BY <1>4, <1>6, NoClassSmaller
<1>8. QED
  BY <1>4, <1>5, <1>7

(* What was analysed did not raise.                                         *)
StudyIsComplete ==
    study # None /\ Offs(study.bundle) # {} /\ study.traces # {} =>
        OutcomesAreComplete(study.bundle, study.traces)

(* A bridge is never earned by what the arms were tested on: for any tests, *)
(* any scenarios and any trials that failed, if governance lowered the rate *)
(* of violations in no scenario the bridge is not earned (_earned_for,      *)
(* _earned_matched, _earned_independent).                                   *)
THEOREM NeverACompositionContrast == Spec => []NoCompositionContrast
<1>1. StudyKnown /\ StudyIsComplete => NoCompositionContrast
  <2> SUFFICES ASSUME StudyKnown, StudyIsComplete, study # None,
                      \A c \in Enforcing(study.bundle) :
                            HelpsNowhere(study.bundle, Baseline(study.bundle), c.id),
                      EarnedBridge(study.bundle, study.traces, None)
               PROVE  FALSE
    BY DEF NoCompositionContrast
  <2> DEFINE b == study.bundle
             base == Baseline(b)
  <2>1. PICK c \in Enforcing(b) : EarnedFor(b, study.traces, base, c.id)
    BY DEF EarnedBridge
  <2>2. HelpsNowhere(b, base, c.id)
    OBVIOUS
  <2>3. /\ Comparable(b, study.traces, base, c.id)
        /\ \/ Design(b) = "matched_pairs" /\ MatchedEarn(b, base, c.id)
           \/ Design(b) = "independent_samples" /\ EarnedIndependent(b, base, c.id)
    BY <2>1, EarnedByDesign
  <2>4. /\ OutcomesAreComplete(b, study.traces)
        /\ Cardinality(Outcomes(b, base)) >= MinEffectiveN
    BY <2>3 DEF Comparable, Baseline, StudyIsComplete
  <2>5. IsFiniteSet(DOMAIN b.trials)
    BY StudiesAssumption DEF StudyKnown
  <2> HIDE DEF b, base
  <2>6. QED
    BY <2>2, <2>3, <2>4, <2>5, MatchedNeedsHelp, IndependentNeedsHelp
<1>2. Init => StudyKnown /\ StudyIsComplete
  BY DEF Init, StudyKnown, StudyIsComplete
<1>3. StudyKnown /\ StudyIsComplete /\ [Next]_vars => (StudyKnown /\ StudyIsComplete)'
  BY DEF StudyKnown, StudyIsComplete, Next, vars, ExportPackage, Writing, Open, ReadFile, Close,
         Receive, Verify, Analyse
<1>4. QED
  BY <1>1, <1>2, <1>3, PTL DEF Spec
=============================================================================
