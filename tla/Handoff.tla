------------------------------- MODULE Handoff -------------------------------
(***************************************************************************)
(* The Control Plane handoff: lab_service/handoff.py and its two server    *)
(* routes.  A bundle that cp_export allows becomes a file map, which is    *)
(* written to a directory (ExportDirectory) or sent; whoever receives it   *)
(* reads it file by file, while it may be replaced, and verifies it.       *)
(*                                                                         *)
(* A file is named by a tuple; its text is the value it serialises, so a   *)
(* hash is the value hashed.                                               *)
(***************************************************************************)
EXTENDS CPExport, ExportDirectory

CONSTANTS
    Requests,       \* exports asked for: [bundle, traces, pins, condition, author, key]
    Studies,        \* bundles whose bridge is read and not exported: [bundle, traces]
    Changes,        \* what may happen to a file map on its way (external)
    PubKey          \* the key a reader has: it verifies what the same key signed

VARIABLES
    reader,         \* the verifier: [at, todo, files, changed, outcome], or Idle
    study

vars == <<final, staging, backup, export, exported, starts, reader, study>>

Name(kind, of) == <<kind, of>>
File(kind) == Name(kind, None)
DeployFile == File("cp-deploy.json")
BundleFile == File("source-bundle/bundle.json")
ManifestFile == File("manifest.json")
TodoFile == File("production-todo.md")
AnalysisFile == File("bridge-analysis.json")

----------------------------------------------------------------------------
(* bundle_files, read_bundle_files *)
Named(kind, traces) == {Name(kind, t) : t \in traces}
BundleNames(traces) == {BundleFile} \cup Named("source-bundle/traces", traces)
TracesIn(files) == {files[n] : n \in {m \in DOMAIN files : m[1] = "source-bundle/traces"}}

(* cp_export_manifest_for: hashes of everything else, and what they must    *)
(* agree on                                                                 *)
ManifestFor(files, config) ==
    [files |-> Without(files, ManifestFile), config |-> config,
     bundle |-> files[BundleFile], regressions |-> config.regressions,
     analysis |-> config.analysis, condition |-> config.condition.id,
     author |-> None, signature |-> None]

(* sign_bundle covers the manifest but for the signature *)
Signed(manifest, author, key) ==
    IF None \in {author, key} THEN manifest
    ELSE [manifest EXCEPT !.author = author,
                          !.signature = <<key, [manifest EXCEPT !.author = author]>>]
VerifiesUnder(manifest, key) ==
    manifest.signature = <<key, [manifest EXCEPT !.signature = None]>>

(* build_cp_export_files, all but the manifest and then with it.  A file    *)
(* named for a trace holds that trace.                                      *)
ExportNames(r, config) ==
    {DeployFile, TodoFile} \cup BundleNames(r.traces)
        \cup Named("regression-traces", {pin.ref : pin \in config.regressions})
        \cup (IF config.analysis = None THEN {}
              ELSE {AnalysisFile} \cup Named("bridge-traces", config.analysis.refs \cap r.traces))
FilesOf(r, config) ==
    [n \in ExportNames(r, config) |->
        CASE n = DeployFile   -> config
          [] n = TodoFile     -> "todo"
          [] n = BundleFile   -> r.bundle
          [] n = AnalysisFile -> config.analysis
          [] OTHER            -> n[2]]
PackageOf(r) ==
    LET config == DeployConfig(r.bundle, r.traces, r.pins, r.condition)
        files == FilesOf(r, config)
    IN  WithFile(files, ManifestFile, Signed(ManifestFor(files, config), r.author, r.key))

Allowed(r) == Exportable(r.bundle, r.traces, r.pins, r.condition)
\* what cp_export does not refuse
Exports == {r \in Requests : Allowed(r)}

(* The directories are of these packages; of a file map on its way only what *)
(* Changed describes can have become; and whoever signs it again has not     *)
(* the key that Lab signed with.                                             *)
ASSUME HandoffAssumption ==
    /\ Manifest = ManifestFile
    /\ Packages = {PackageOf(r) : r \in Exports}
    /\ Changes \subseteq {"whole", "lost", "added", "doctored", "resealed", "resigned", "stripped"}
    /\ None \notin Changes
    /\ PubKey \notin {None, "other"}

(* A bundle is a record with these fields, of finitely many trials, and     *)
(* arms without an outcome are not compared.                                *)
ASSUME StudiesAssumption ==
    /\ \A s \in Studies :
            /\ {"scenarios", "conditions", "environment", "trials"} \subseteq DOMAIN s.bundle
            /\ IsFiniteSet(DOMAIN s.bundle.trials)
    /\ MinEffectiveN \in Nat \ {0}

----------------------------------------------------------------------------
(* verify_cp_files.  Every listed file is there and unchanged and nothing   *)
(* else is; the manifest speaks of that deploy config; and the config is    *)
(* what the carried evidence gives when it is exported again.               *)
Unlisted(files, manifest) == DOMAIN files \ (DOMAIN manifest.files \cup {ManifestFile})
\* The listed files are what they were; alone, a mutant of Integrity.
ListedOnly(files) ==
    LET listed == files[ManifestFile].files
    IN  \A n \in DOMAIN listed : n \in DOMAIN files /\ files[n] = listed[n]
Integrity(files) == ListedOnly(files) /\ Unlisted(files, files[ManifestFile]) = {}

SemanticRefs(files) ==
    LET manifest == files[ManifestFile]
        shipped == files[DeployFile]
    IN  /\ manifest.config = shipped
        /\ manifest.regressions = shipped.regressions
        /\ BundleFile \in DOMAIN manifest.files => manifest.bundle = manifest.files[BundleFile]
        /\ manifest.analysis = shipped.analysis

(* What a reader asks for: the key it can check with (None also where the   *)
(* cryptography is not installed, 524-526, which is answered as no key is), *)
(* the author it expects, and whether an unsigned export will do.  Nobody's *)
(* name is looked at in a manifest without a signature.                     *)
Asked == [pubkey : {None, PubKey}, author : {None, "lab"}, unsigned : BOOLEAN]
Authentic(manifest, asked) ==
    CASE manifest.signature = None -> IF asked.unsigned THEN "OK" ELSE "UNVERIFIED"
      [] OTHER -> IF asked.author \notin {None, manifest.author} THEN "FAILURE"
                  ELSE IF asked.pubkey = None THEN "UNVERIFIED"
                  ELSE IF VerifiesUnder(manifest, asked.pubkey) THEN "OK" ELSE "FAILURE"

Derivable(files) ==
    LET shipped == files[DeployFile]
        b == files[BundleFile]
        pins == shipped.regressions
    IN  /\ Exportable(b, TracesIn(files), pins, shipped.condition.id)
        /\ DeployConfig(b, TracesIn(files), pins, shipped.condition.id) = shipped

(* "error" where it raises: this is no export it can check *)
VerifyFiles(files, asked) ==
    IF ~({DeployFile, ManifestFile} \subseteq DOMAIN files) THEN "error"
    ELSE LET authentic == Authentic(files[ManifestFile], asked)
         IN  IF ~Integrity(files) \/ ~SemanticRefs(files) \/ authentic = "FAILURE" THEN "FAILURE"
             ELSE IF BundleFile \notin DOMAIN files THEN "error"
             ELSE IF ~Derivable(files) THEN "FAILURE" ELSE authentic

----------------------------------------------------------------------------
Init == DirectoryInit /\ reader = Idle /\ study = None

(* bound: once its files are read, a reader is done before the directories  *)
(* change again, which it does not look at any more                         *)
Looked == reader # Idle => reader.todo # {}

(* a request cp_export refuses leaves everything as it was *)
ExportPackage(r, overwrite) ==
    /\ study = None /\ r \in Exports /\ Looked
    /\ Begin(PackageOf(r), overwrite)
    /\ UNCHANGED <<reader, study>>

Writing == Looked /\ Step /\ UNCHANGED <<reader, study>>

(* verify_cp_package: the names are listed, then the files read one by one.  *)
(* A name that is gone by then is no file and left out (is_file, 322); where *)
(* it goes between that look and read_text the reader raises, which is Close *)
Open ==
    /\ reader = Idle /\ final # Absent /\ {DeployFile, ManifestFile} \subseteq DOMAIN final
    /\ reader' = [at |-> "read", todo |-> DOMAIN final, files |-> Empty, changed |-> None,
                  outcome |-> None]
    /\ UNCHANGED <<dvars, study>>

ReadFile ==
    /\ reader # Idle /\ reader.at = "read" /\ reader.todo # {}
    /\ LET n == CHOOSE m \in reader.todo : TRUE
       IN  reader' = [reader EXCEPT
                !.todo = @ \ {n},
                !.files = IF final # Absent /\ n \in DOMAIN final
                          THEN WithFile(@, n, final[n]) ELSE @]
    /\ UNCHANGED <<dvars, study>>

(* the server's route takes the map itself, as a client sends it: whole,    *)
(* with a file lost or added, with another deploy config, the manifest made *)
(* again for that, signed again with another key, or its signature gone     *)
Resealed(files, config) == ManifestFor(WithFile(files, DeployFile, config), config)
Changed(files, change) ==
    LET config == [files[DeployFile] EXCEPT !.runtime_hashes = {}]
        with(manifest) == WithFile(WithFile(files, DeployFile, config), ManifestFile, manifest)
    IN  CASE change = "whole"    -> files
          [] change = "lost"     -> Without(files, TodoFile)
          [] change = "added"    -> WithFile(files, File("regression-traces/old"), "stale")
          [] change = "doctored" -> with(files[ManifestFile])
          [] change = "resealed" -> with(Resealed(files, config))
          [] change = "resigned" -> with(Signed(Resealed(files, config), "mallory", "other"))
          [] change = "stripped" ->
                WithFile(files, ManifestFile, [files[ManifestFile] EXCEPT !.signature = None])
Receive(r, change) ==
    /\ reader = Idle /\ starts = 0 /\ final = Absent /\ study = None /\ r \in Exports
    /\ reader' = [at |-> "read", todo |-> {}, files |-> Changed(PackageOf(r), change),
                  changed |-> change, outcome |-> None]
    /\ UNCHANGED <<dvars, study>>

Verify(asked) ==
    /\ reader # Idle /\ reader.at = "read" /\ reader.todo = {}
    /\ reader' = [reader EXCEPT !.at = "verified",
            !.outcome = [is |-> VerifyFiles(reader.files, asked), asked |-> asked]]
    /\ UNCHANGED <<dvars, study>>

(* the outcome is told, or there is none: the reader gave up, or reading a  *)
(* file raised                                                              *)
Close == reader # Idle /\ reader' = Idle /\ UNCHANGED <<dvars, study>>

(* earned_bridge and bridge_analysis, of a bundle nobody exports; they raise *)
(* for two baselines, a trace that is missing, two trials of one coordinate, *)
(* and a design that contradicts itself or what an aggregate declares        *)
Analyse(s) ==
    /\ study = None /\ reader = Idle /\ starts = 0 /\ final = Absent
    /\ Cardinality(Offs(s.bundle)) <= 1
    /\ Offs(s.bundle) # {} /\ s.traces # {} => OutcomesAreComplete(s.bundle, s.traces)
    /\ \A c \in Enforcing(s.bundle) :
            Comparable(s.bundle, s.traces, Baseline(s.bundle), c.id)
                => DesignIsAttested(s.bundle, c.id)
    /\ study' = s
    /\ UNCHANGED <<dvars, reader>>

Next ==
    \/ \E r \in Requests, overwrite \in BOOLEAN : ExportPackage(r, overwrite)
    \/ Writing
    \/ Open \/ ReadFile \/ Close
    \/ \E r \in Requests, change \in Changes : Receive(r, change)
    \/ \E asked \in Asked : Verify(asked)
    \/ \E s \in Studies : Analyse(s)

Spec == Init /\ [][Next]_vars

----------------------------------------------------------------------------
(* What a reader accepts is, to the last file, one export that Lab made: a  *)
(* directory swapped while it was being read, or a map that lost, gained or *)
(* changed a file, its manifest made again for that, is never taken for one *)
(* under the key it was signed with (verify_cp_files).                      *)
AcceptedIsExported ==
    reader # Idle /\ reader.at = "verified" =>
        /\ reader.changed = None /\ reader.outcome.is \in {"OK", "UNVERIFIED"}
                => reader.files \in Packages
        /\ /\ reader.outcome.is = "OK"
           /\ reader.outcome.asked.pubkey # None /\ ~reader.outcome.asked.unsigned
           => reader.files \in Packages

\* The trials that are left keep their places, on which nothing depends.
WithoutBenign(b) ==
    [b EXCEPT !.trials = Restrict(@, {i \in DOMAIN @ : @[i].scenario \in Attacked(b)})]

(* What scenarios without an attack model did never earns a bridge: it would *)
(* be earned without their trials too.  Of matched arms they cost none       *)
(* either, as such a trial was never a candidate pair, so losing it is not a *)
(* dropped one (_arm_coords 634-651, _bridge_outcomes 584-594); independent  *)
(* arms may be refused for benign trials that one arm lost (900-907).        *)
BenignEarnsNothing ==
    study # None =>
        \A c \in Enforcing(study.bundle) :
            LET earned(b) == EarnedBridge(b, study.traces, c.id)
            IN  /\ earned(study.bundle) => earned(WithoutBenign(study.bundle))
                /\ Design(study.bundle) = "matched_pairs" /\ earned(WithoutBenign(study.bundle))
                        => earned(study.bundle)

(* The units two arms are compared on: those completed in both, if matched. *)
Compared(b, base, cid) ==
    IF Design(b) = "matched_pairs" THEN Units(Outcomes(b, base)) \cap Units(Outcomes(b, cid))
    ELSE Units(Outcomes(b, base)) \cup Units(Outcomes(b, cid))
InScenario(b, cid, s, among) == {t \in Outcomes(b, cid) : t.scenario = s /\ Unit4(t) \in among}
HelpsNowhere(b, base, cid) ==
    \A s \in Attacked(b) :
        LET off == InScenario(b, base, s, Compared(b, base, cid))
            on == InScenario(b, cid, s, Compared(b, base, cid))
        IN  Violations(on) * Cardinality(off) >= Violations(off) * Cardinality(on)

(* A bridge is never earned by what the arms were tested on: if governance  *)
(* lowered the rate of violations in no scenario, then whichever trials of  *)
(* either arm failed, the arms do not differ enough (_earned_for 725-758).  *)
NoCompositionContrast ==
    /\ study # None
    /\ \A c \in Enforcing(study.bundle) :
            HelpsNowhere(study.bundle, Baseline(study.bundle), c.id)
    => ~EarnedBridge(study.bundle, study.traces, None)
=============================================================================
