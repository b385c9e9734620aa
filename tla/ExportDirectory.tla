--------------------------- MODULE ExportDirectory ---------------------------
(***************************************************************************)
(* How an export reaches the disk: lab_service/handoff.py,                 *)
(* export_cp_package and _swap_into_place.  The directory asked for is     *)
(* `final`; the whole export is written beside it, in `staging`, and       *)
(* swapped in, what was there going through `backup`.  A directory is a    *)
(* function from the names of its files to their contents, or Absent.     *)
(* The process may die at any point.                                       *)
(***************************************************************************)
EXTENDS Naturals, FiniteSets

CONSTANTS
    Packages,       \* the exports that may be written, each all its files
    Manifest,       \* the name of manifest.json, written last
    Absent,        \* where there is no directory
    Idle,           \* no export is being written
    MaxStarts       \* exports begun (bound)

IsDirectory(d) == d = [n \in DOMAIN d |-> d[n]]
Empty == [n \in {} |-> Absent]

(* An export is a file map with its manifest, and not an empty directory *)
ASSUME PackagesAssumption ==
    /\ \A p \in Packages : IsDirectory(p) /\ Manifest \in DOMAIN p
    /\ Absent \notin Packages

ASSUME BoundAssumption == MaxStarts \in Nat

VARIABLES
    final, staging, backup,     \* the directories
    export,         \* the export being written: [at, package, todo], or Idle
    exported,       \* the exports that returned (history)
    starts

dvars == <<final, staging, backup, export, exported, starts>>

DirectoryInit ==
    /\ final = Absent /\ staging = Absent /\ backup = Absent
    /\ export = Idle /\ exported = {} /\ starts = 0

(* rmtree, a file at a time and then the directory itself *)
Without(d, n) == [m \in DOMAIN d \ {n} |-> d[m]]
Removed(d) == IF DOMAIN d = {} THEN Absent ELSE Without(d, CHOOSE n \in DOMAIN d : TRUE)
WithFile(d, n, text) == [m \in DOMAIN d \cup {n} |-> IF m = n THEN text ELSE d[m]]

----------------------------------------------------------------------------
(* export_cp_package, once the file map is built: a directory with anything *)
(* in it is only replaced on request                                        *)
At(step) == export # Idle /\ export.at = step
Goto(step) == export' = [export EXCEPT !.at = step]

(* external: whoever asks may have made the directory before *)
MakeDirectory ==
    /\ starts = 0 /\ final = Absent /\ final' = Empty
    /\ UNCHANGED <<staging, backup, export, exported, starts>>

Begin(p, overwrite) ==
    /\ export = Idle /\ starts < MaxStarts
    /\ final \in {Absent, Empty} \/ overwrite
    /\ export' = [at |-> "clear", package |-> p, todo |-> DOMAIN p]
    /\ starts' = starts + 1
    /\ UNCHANGED <<final, staging, backup, exported>>

(* what a dead export left in the staging directory is removed first *)
\* Mutant of Clear: a leftover staging directory is kept.
ClearNothing ==
    /\ At("clear")
    /\ staging' = (IF staging = Absent THEN Empty ELSE staging) /\ Goto("write")
    /\ UNCHANGED <<final, backup, exported, starts>>
Clear ==
    /\ At("clear")
    /\ IF staging # Absent THEN staging' = Removed(staging) /\ UNCHANGED export
       ELSE staging' = Empty /\ Goto("write")
    /\ UNCHANGED <<final, backup, exported, starts>>

(* the next file, the manifest after all others *)
Next1(todo) == CHOOSE n \in todo : n = Manifest => todo = {Manifest}
Write ==
    /\ At("write") /\ export.todo # {}
    /\ LET n == Next1(export.todo)
       IN  /\ staging' = WithFile(staging, n, export.package[n])
           /\ export' = [export EXCEPT !.todo = @ \ {n}]
    /\ UNCHANGED <<final, backup, exported, starts>>

----------------------------------------------------------------------------
(* _swap_into_place *)
Return == export' = Idle /\ exported' = exported \cup {export.package}

Swap ==
    /\ At("write") /\ export.todo = {}
    /\ IF final = Absent
       THEN final' = staging /\ staging' = Absent /\ Return
       ELSE Goto("aside") /\ UNCHANGED <<final, staging, exported>>
    /\ UNCHANGED <<backup, starts>>

(* an old backup is removed, and the old export takes its place *)
\* Mutant of Aside: the old export is removed before the new one is placed.
AsideInPlace ==
    /\ At("aside")
    /\ final' = Absent /\ Goto("place")
    /\ UNCHANGED <<staging, backup, exported, starts>>
Aside ==
    /\ At("aside")
    /\ IF backup # Absent THEN backup' = Removed(backup) /\ UNCHANGED <<final, export>>
       ELSE backup' = final /\ final' = Absent /\ Goto("place")
    /\ UNCHANGED <<staging, exported, starts>>

Place ==
    /\ At("place")
    /\ final' = staging /\ staging' = Absent /\ Goto("drop")
    /\ UNCHANGED <<backup, exported, starts>>

Drop ==
    /\ At("drop")
    /\ IF backup # Absent THEN backup' = Removed(backup) /\ UNCHANGED <<export, exported>>
       ELSE Return /\ UNCHANGED backup
    /\ UNCHANGED <<final, staging, starts>>

(* the process dies: what is on the disk stays *)
Crash ==
    /\ export # Idle /\ export' = Idle
    /\ UNCHANGED <<final, staging, backup, exported, starts>>

Step == MakeDirectory \/ Clear \/ Write \/ Swap \/ Aside \/ Place \/ Drop \/ Crash
DirectoryNext == Step \/ \E p \in Packages, overwrite \in BOOLEAN : Begin(p, overwrite)
DirectorySpec == DirectoryInit /\ [][DirectoryNext]_dvars

----------------------------------------------------------------------------
(* What a reader finds under the name asked for is nothing yet, or exactly  *)
(* the files of one export: never a half of one, nor a file an export that  *)
(* died, or the one it replaced, left behind (export_cp_package 232-242).   *)
ExportIsWhole == final \in {Absent, Empty} \cup Packages

(* Once a handoff was exported, however many later exports die and wherever *)
(* they do, a whole one is on the disk: in its place, or as the backup      *)
(* while its place is empty.                                                *)
ExportSurvives ==
    exported # {} => final \in Packages \/ (final = Absent /\ backup \in Packages)
=============================================================================
