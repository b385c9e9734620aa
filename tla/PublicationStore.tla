--------------------------- MODULE PublicationStore ---------------------------
(***************************************************************************)
(* lab_server/store.py: the publication catalog, its files and its         *)
(* tombstones.                                                             *)
(*                                                                         *)
(* publish, takedown and add_attestation hold one lock to the end, and     *)
(* what they leave on disk between two writes is read only by a process    *)
(* that starts after them: an operation is one action, and an operation    *)
(* that fails between two writes is an action that leaves a prefix of      *)
(* them.  A crash is such a failure with a Restart after it.  Reads take   *)
(* no lock; the one instant a takedown shows to them is the lineage        *)
(* tombstone entering memory.                                              *)
(***************************************************************************)
EXTENDS Naturals, FiniteSets

CONSTANTS
    Records, Lineages, LineageOf,
    Signers,      \* authors and attesters
    Author,       \* who signed the publication, or Unsigned
    Unsigned,
    Attestations, \* by whom, and signed or not; one kind of reproduction
    KeyRings,     \* the known_keys a process may be started with
    ServerKeys,   \* the keys a process may be started with to sign acceptances
    KeyId,        \* the key id an acceptance names its key by
    None

ASSUME StoreAssumption ==
    /\ LineageOf \in [Records -> Lineages]
    /\ Unsigned \notin Signers
    /\ Author \in [Records -> Signers \cup {Unsigned}]
    /\ Attestations \subseteq [by: Signers, signed: BOOLEAN]
    /\ KeyRings \subseteq SUBSET Signers
    /\ None \notin ServerKeys
    /\ DOMAIN KeyId = ServerKeys

VARIABLES
    disk,         \* the directory of each publication
    registry,     \* the _lineage_tombstones directory
    cached,       \* the publications in _cache
    mem,          \* the log and the acceptance of each of them
    tombs,        \* _tombstones
    ltombs,       \* _lineage_tombstones
    known,        \* the signers whose signatures this process can verify
    serverKey,
    issued        \* the acceptances handed out for each publication

diskVars   == <<disk, registry>>
memVars    == <<cached, mem, tombs, ltombs>>
configVars == <<known, serverKey>>
vars == <<diskVars, memVars, configVars, issued>>

Bodies == {"publication", "bundle", "traces"}
Files  == Bodies \cup {"receipt", "tombstone"}

Directories == [files: SUBSET Files, acceptance: ServerKeys \cup {None},
                log: SUBSET Attestations]
EmptyDirectory == [files |-> {}, acceptance |-> None, log |-> {}]
Entries == [acceptance: ServerKeys \cup {None}, log: SUBSET Attestations]
Blank   == [acceptance |-> None, log |-> {}]

\* get: the id and the lineage are checked on every read.
Served(r) == r \in cached /\ r \notin tombs /\ LineageOf[r] \notin ltombs

\* _integrity: the author's key is known, or nobody claims to have signed.
Verifiable(r, ring) == Author[r] = Unsigned \/ Author[r] \in ring

\* The writes of _persist, in their order.
Written(r) ==
    {{}, {"publication"}, {"publication", "bundle"}, Bodies}
    \cup {IF Author[r] = Unsigned THEN w ELSE w \cup {"receipt"} :
             w \in {Bodies, Bodies \cup {"acceptance"},
                    Bodies \cup {"acceptance", "log"}}}

AllWrites(r) == Bodies \cup {"acceptance", "log"}
                \cup (IF Author[r] = Unsigned THEN {} ELSE {"receipt"})

\* The directory after some of them: the acceptance is minted under the key of
\* this process, the log starts empty.
After(r, writes) ==
    [files      |-> disk[r].files \cup (writes \cap Files),
     acceptance |-> IF "acceptance" \in writes THEN serverKey ELSE disk[r].acceptance,
     log        |-> IF "log" \in writes THEN {} ELSE disk[r].log]

\* acceptance(): the one in memory, else a fresh one that is not kept.
AcceptanceOf(r) == IF mem[r].acceptance = None THEN serverKey ELSE mem[r].acceptance

\* The log, re-verified: a signature of an unknown key is dropped.
Rebuilt(log, ring) == {a \in log : a.signed => a.by \in ring}

\* _load: a directory that is whole and whose integrity badge can be re-earned.
Loadable(r, ring) ==
    /\ Bodies \subseteq disk[r].files
    /\ "tombstone" \notin disk[r].files
    /\ Author[r] # Unsigned => "receipt" \in disk[r].files
    /\ Verifiable(r, ring)

\* Mutant of RestoredAcceptance: what is on disk is never read.
AcceptanceForgotten(r, key) == None

\* _load_acceptance: one signed under the key id of this process by another key
\* does not verify and is dropped; one of an unknown key id is kept as it is.
RestoredAcceptance(r, key) ==
    LET acceptance == disk[r].acceptance IN
    IF acceptance # None /\ acceptance # key /\ KeyId[acceptance] = KeyId[key]
    THEN None ELSE acceptance
-----------------------------------------------------------------------------
Init ==
    /\ disk = [r \in Records |-> EmptyDirectory]
    /\ registry = {}
    /\ cached = {} /\ tombs = {} /\ ltombs = {}
    /\ mem = [r \in Records |-> Blank]
    /\ known \in KeyRings /\ serverKey \in ServerKeys
    /\ issued = [r \in Records |-> {}]

\* publish, up to the tombstone guards: a taken-down id or lineage is refused.
Admissible(r) ==
    /\ Verifiable(r, known)
    /\ r \notin tombs
    /\ LineageOf[r] \notin ltombs

Publish(r) ==
    /\ Admissible(r)
    /\ r \notin cached
    /\ disk' = [disk EXCEPT ![r] = After(r, AllWrites(r))]
    /\ cached' = cached \cup {r}
    /\ mem' = [mem EXCEPT ![r] = [acceptance |-> serverKey, log |-> {}]]
    /\ issued' = [issued EXCEPT ![r] = @ \cup {serverKey}]
    /\ UNCHANGED <<registry, tombs, ltombs, configVars>>

\* Mutant of PublishFails: the cache is filled before the files are written.
PublishFailsCached(r) ==
    /\ Admissible(r)
    /\ r \notin cached
    /\ \E writes \in Written(r) : disk' = [disk EXCEPT ![r] = After(r, writes)]
    /\ cached' = cached \cup {r}
    /\ UNCHANGED <<registry, mem, tombs, ltombs, configVars, issued>>

\* A write of _persist raises, or the process dies: nothing enters the cache.
PublishFails(r) ==
    /\ Admissible(r)
    /\ r \notin cached
    /\ \E writes \in Written(r) : disk' = [disk EXCEPT ![r] = After(r, writes)]
    /\ UNCHANGED <<registry, memVars, configVars, issued>>

\* The same bundle published again is answered with the record there is, and a
\* download carries it too.
ReadAcceptance(r) ==
    /\ Served(r)
    /\ issued' = [issued EXCEPT ![r] = @ \cup {AcceptanceOf(r)}]
    /\ UNCHANGED <<diskVars, memVars, configVars>>
-----------------------------------------------------------------------------
Siblings(r) == {s \in cached : LineageOf[s] = LineageOf[r]}

\* Mutant of Swept: the directory goes with everything in it.
SweptClean(d) == [EmptyDirectory EXCEPT !.files = {"tombstone"}]

\* A directory swept: its tombstone, then no body; the log stays.
Swept(d) == [d EXCEPT !.files = (@ \ Bodies) \cup {"tombstone"}]

\* The registry first, then every cached sibling of the evidence.
Takedown(r) ==
    /\ r \in cached
    /\ registry' = registry \cup {LineageOf[r]}
    /\ ltombs' = ltombs \cup {LineageOf[r]}
    /\ cached' = cached \ Siblings(r)
    /\ tombs' = tombs \cup Siblings(r)
    /\ disk' = [s \in Records |-> IF s \in Siblings(r) THEN Swept(disk[s]) ELSE disk[s]]
    /\ mem' = [s \in Records |-> IF s \in Siblings(r) THEN Blank ELSE mem[s]]
    /\ UNCHANGED <<configVars, issued>>

\* The takedown of an id that is a tombstone changes nothing.
TakedownAgain(r) ==
    /\ r \notin cached
    /\ r \in tombs
    /\ UNCHANGED <<diskVars, memVars, configVars, issued>>

\* The registry entry is not written, or written but not acknowledged.
TakedownUnregistered(r) ==
    /\ r \in cached
    /\ registry' \in {registry, registry \cup {LineageOf[r]}}
    /\ UNCHANGED <<disk, memVars, configVars, issued>>

\* What a deletion that stops half way leaves of the bodies.
Leftovers == {Bodies, Bodies \ {"publication"}, {"traces"}}

\* A sweep that has retired `done` and stops at t: before the tombstone of t is
\* acknowledged, or after it and before every body is deleted.  The publication
\* has left the cache in both cases.
SweepStopsAt(t, done) ==
    /\ cached' = cached \ (done \cup {t})
    /\ mem' = [s \in Records |-> IF s \in done \cup {t} THEN Blank ELSE mem[s]]
    /\ \E left \in Leftovers, tombstone \in {{}, {"tombstone"}} :
          /\ disk' = [s \in Records |->
                CASE s = t      -> [disk[s] EXCEPT !.files =
                                       (@ \ (Bodies \ left)) \cup tombstone]
                  [] s \in done -> Swept(disk[s])
                  [] OTHER      -> disk[s]]
          /\ \/ left = Bodies /\ tombs' = tombs \cup done
             \/ tombstone # {} /\ tombs' = tombs \cup done \cup {t}

\* Mutant of TakedownStops: the registry is written after the sweep.
TakedownStopsUnregistered(r) ==
    /\ r \in cached
    /\ ltombs' = ltombs \cup {LineageOf[r]}
    /\ \E t \in Siblings(r) : \E done \in SUBSET (Siblings(r) \ {t}) :
          SweepStopsAt(t, done)
    /\ UNCHANGED <<registry, configVars, issued>>

\* The lineage is retired, its publications are not all swept.
TakedownStops(r) ==
    /\ r \in cached
    /\ registry' = registry \cup {LineageOf[r]}
    /\ ltombs' = ltombs \cup {LineageOf[r]}
    /\ \E t \in Siblings(r) : \E done \in SUBSET (Siblings(r) \ {t}) :
          SweepStopsAt(t, done)
    /\ UNCHANGED <<configVars, issued>>
-----------------------------------------------------------------------------
\* Mutant of Extended: a re-posted attestation counts again.
ExtendedAlways(log, a) == log \cup {a}

\* add_reproduction: one entry per attester, and a signature must verify now.
Extended(log, a) == IF \E b \in log : b.by = a.by THEN log ELSE log \cup {a}

\* The whole log is written again; when the write raises, memory has it already.
AddAttestation(r, a) ==
    /\ Served(r)
    /\ (\E b \in mem[r].log : b.by = a.by) \/ (a.signed => a.by \in known)
    /\ mem' = [mem EXCEPT ![r].log = Extended(@, a)]
    /\ \/ disk' = [disk EXCEPT ![r].log = Extended(mem[r].log, a)]
       \/ UNCHANGED disk
    /\ UNCHANGED <<registry, cached, tombs, ltombs, configVars, issued>>
-----------------------------------------------------------------------------
\* The two passes of a cold load, by a process with other keys: the registry and
\* every tombstone first, then the publications that are still admissible.
Restart(ring, key) ==
    LET entombed == {r \in Records : "tombstone" \in disk[r].files}
        lineages == registry \cup {LineageOf[r] : r \in entombed}
        loaded   == {r \in Records : Loadable(r, ring) /\ LineageOf[r] \notin lineages}
    IN
    /\ tombs' = entombed
    /\ ltombs' = lineages
    /\ cached' = loaded
    /\ mem' = [r \in Records |->
                  IF r \in loaded
                  THEN [acceptance |-> RestoredAcceptance(r, key),
                        log |-> Rebuilt(disk[r].log, ring)]
                  ELSE Blank]
    /\ known' = ring
    /\ serverKey' = key
    /\ UNCHANGED <<diskVars, issued>>

Request(r) ==
    \/ Publish(r)
    \/ PublishFails(r)
    \/ ReadAcceptance(r)
    \/ Takedown(r)
    \/ TakedownAgain(r)
    \/ TakedownUnregistered(r)
    \/ TakedownStops(r)
    \/ \E a \in Attestations : AddAttestation(r, a)

Next ==
    \/ \E r \in Records : Request(r)
    \/ \E ring \in KeyRings, key \in ServerKeys : Restart(ring, key)

Spec == Init /\ [][Next]_vars
-----------------------------------------------------------------------------
\* The files, the memory and the configuration hold what the code puts there.
TypeOK ==
    /\ disk \in [Records -> Directories]
    /\ registry \subseteq Lineages
    /\ cached \subseteq Records
    /\ mem \in [Records -> Entries]
    /\ tombs \subseteq Records
    /\ ltombs \subseteq Lineages
    /\ known \in KeyRings
    /\ serverKey \in ServerKeys
    /\ issued \in [Records -> SUBSET ServerKeys]

\* A publication that is served is whole on disk, and verifiable: a process
\* started with the same keys loads it, unless its evidence is in the registry
\* (_load), whatever publish and its failures left there.
ServedSurvives == \A r \in Records : Served(r) => Loadable(r, known)

\* An acceptance on disk is the only one ever handed out for its publication:
\* restarts and new server keys (under their own key id) do not change what the
\* server signed at publish time (_load_acceptance).
AcceptanceKept ==
    \A r \in Records :
        disk[r].acceptance # None => issued[r] \subseteq {disk[r].acceptance}

\* A reproduction counts once per attester, and a signed one counts only while
\* its key is known, whatever was re-posted, re-tried or loaded
\* (add_reproduction, rebuild_reproduction_log).
ReproductionsEarned ==
    \A r \in Records : Served(r) =>
        \A a \in mem[r].log :
            /\ a.signed => a.by \in known
            /\ \A b \in mem[r].log : a.by = b.by => a = b

\* The attestation log is append-only: what every configuration can verify is
\* never removed from it, by a takedown, a restart or a later attestation.
LogKept ==
    [][\A r \in Records : \A a \in disk[r].log :
          (a.signed => \A ring \in KeyRings : a.by \in ring) => a \in disk'[r].log]_vars

\* Readers see a Catalog: the served publications and the retired evidence.
Readers == INSTANCE Catalog WITH served  <- {r \in Records : Served(r)},
                                 retired <- ltombs

ImplementsCatalog == Readers!CatalogSpec
=============================================================================
