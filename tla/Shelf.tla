-------------------------------- MODULE Shelf --------------------------------
(***************************************************************************)
(* The document shelf of one workspace (lab_server/screens.py) under the   *)
(* handler threads that use it: artifacts are stored by finalizers and by  *)
(* POST /artifacts and evicted beyond the plan's window, suites are saved  *)
(* under the plan's ceiling.  One call of the store is one lock region; a  *)
(* request is several.  With the file backend a document is in memory and  *)
(* on the disk, and the process may die or the disk refuse between.        *)
(*                                                                         *)
(* An artifact is [id, created, version], `version` telling two documents  *)
(* of one id apart.  Memory keeps the order of insertion, as a dict does.  *)
(***************************************************************************)
EXTENDS Naturals, Sequences, FiniteSets, SequencesExt

CONSTANTS
    Artifacts,      \* artifact ids; a run's is stored again when it is re-run
    Suites,         \* suite ids
    BuiltIn,        \* those the built-in registry has
    Threads,        \* the handler threads
    None,
    Keep,           \* the plan's max_artifacts
    MaxSuites,      \* the plan's max_suites
    LastSecond,     \* `created` has the resolution of a second (bound)
    MaxStores,      \* artifacts stored (bound)
    MaxFaults       \* refusals of the disk and restarts (bound)

ASSUME ShelfAssumption ==
    /\ None \notin Artifacts \cup Suites /\ BuiltIn \subseteq Suites
    /\ Keep \in Nat /\ MaxSuites \in Nat \ {0} /\ MaxStores \in Nat /\ MaxFaults \in Nat
    /\ LastSecond \in Nat /\ IsFiniteSet(Threads)

VARIABLES
    memory,         \* _by_kind["artifact"], in order of insertion
    disk,           \* the artifact files
    suites,         \* the ids of the saved suites
    thread,         \* what each thread is doing: [at, stale, suite]
    latest,         \* the last document stored of each id (history)
    unsure,         \* ids a write or unlink of which was refused (history)
    overtaken,      \* ids stored again while a pass was about to evict them (history)
    owed,           \* documents nothing will evict: the stores whose retention never
                    \* ran, the files whose removal was refused (history)
    stores, faults

vars == <<memory, disk, suites, thread, latest, unsure, overtaken, owed, stores, faults>>

Idle == [at |-> "idle", stale |-> <<>>, suite |-> None]
In(t, at) == thread[t].at = at
Now(t, rec) == thread' = [thread EXCEPT ![t] = rec]
Done(t) == Now(t, Idle)

DocIds(docs) == {d.id : d \in docs}
Held == Range(memory)

Init ==
    /\ memory = <<>> /\ disk = {} /\ suites = {} /\ thread = [t \in Threads |-> Idle]
    /\ latest = {} /\ unsure = {} /\ overtaken = {} /\ owed = 0 /\ stores = 0 /\ faults = 0

----------------------------------------------------------------------------
(* ScreenStore.put, _FileBackend.write: a document of an id that is there   *)
(* keeps its place; memory first, then the file, replaced in one piece      *)
Written(docs, doc) ==
    IF doc.id \in DocIds(Range(docs))
    THEN [i \in DOMAIN docs |-> IF docs[i].id = doc.id THEN doc ELSE docs[i]]
    ELSE Append(docs, doc)
WithDoc(docs, doc) == {d \in docs : d.id # doc.id} \cup {doc}

(* ScreenStore.delete: memory holds one document of an id at most *)
Without(docs, id) ==
    IF id \in DocIds(Range(docs))
    THEN RemoveAt(docs, CHOOSE i \in DOMAIN docs : docs[i].id = id) ELSE docs

(* `created` is when the artifact was built: the finalizer's is now, a      *)
(* client's any time, but what replaces a document is not older than it     *)
StoreArtifact(t, id, created) ==
    LET doc == [id |-> id, created |-> created, version |-> stores]
    IN  /\ In(t, "idle") /\ stores < MaxStores
        /\ \A d \in latest : d.id = id => d.created <= created
        /\ memory' = Written(memory, doc)
        /\ latest' = WithDoc(latest, doc)
        /\ overtaken' = overtaken \cup
                ({id} \cap UNION {Range(thread[u].stale) : u \in Threads})
        /\ stores' = stores + 1
        /\ \/ disk' = WithDoc(disk, doc) /\ unsure' = unsure \ {id}
              /\ Now(t, [Idle EXCEPT !.at = "stored"])
              /\ UNCHANGED <<owed, faults>>
           \/ faults < MaxFaults /\ faults' = faults + 1     \* the disk refuses: 500
              /\ unsure' = unsure \cup {id} /\ owed' = owed + 1
              /\ UNCHANGED <<disk, thread>>
        /\ UNCHANGED suites

(* enforce_artifact_retention: what the list has beyond the newest `keep`;  *)
(* the sort is stable, so of one second the first stored come first         *)
\* Mutant of Newer: the sort in the wrong direction.
OldestFirst(docs, i, j) ==
    docs[i].created < docs[j].created \/ (docs[i].created = docs[j].created /\ i < j)
Newer(docs, i, j) ==
    docs[i].created > docs[j].created \/ (docs[i].created = docs[j].created /\ i < j)
Rank(docs, j) == Cardinality({i \in DOMAIN docs : Newer(docs, i, j)})
Stale(docs, keep) ==
    [k \in 1 .. Len(docs) - keep |->
        docs[CHOOSE j \in DOMAIN docs : Rank(docs, j) = keep + k - 1].id]

ListArtifacts(t) ==
    /\ In(t, "stored")
    /\ Now(t, [Idle EXCEPT !.at = "evicting", !.stale = Stale(memory, Keep)])
    /\ UNCHANGED <<memory, disk, suites, latest, unsure, overtaken, owed, stores, faults>>

\* Mutant of Evict: the files are left.
MemoryOnly(t) ==
    /\ In(t, "evicting") /\ thread[t].stale # <<>>
    /\ memory' = Without(memory, Head(thread[t].stale))
    /\ Now(t, [thread[t] EXCEPT !.stale = Tail(@)])
    /\ UNCHANGED <<disk, suites, latest, unsure, overtaken, owed, stores, faults>>

(* delete, _FileBackend.erase: memory, and the file if memory had it *)
Evict(t) ==
    /\ In(t, "evicting") /\ thread[t].stale # <<>>
    /\ LET id == Head(thread[t].stale)
       IN  /\ memory' = Without(memory, id)
           /\ \/ disk' = (IF id \in DocIds(Held) THEN {d \in disk : d.id # id} ELSE disk)
                 /\ Now(t, [thread[t] EXCEPT !.stale = Tail(@)])
                 /\ UNCHANGED <<unsure, owed, faults>>
              \/ id \in DocIds(Held) /\ faults < MaxFaults /\ faults' = faults + 1
                 /\ unsure' = unsure \cup {id} /\ owed' = owed + 2 /\ Done(t)
                 /\ UNCHANGED disk
    /\ UNCHANGED <<suites, latest, overtaken, stores>>

Answer(t) ==
    /\ In(t, "evicting") /\ thread[t].stale = <<>> /\ Done(t)
    /\ UNCHANGED <<memory, disk, suites, latest, unsure, overtaken, owed, stores, faults>>

----------------------------------------------------------------------------
(* _save_suite: whether the id is taken, whether it is new, how many there  *)
(* are and the write are four reads and writes of the shelf; a copy of a    *)
(* built-in suite is layered over it without a look at the ceiling          *)
SaveSuite(t, id, create) ==
    /\ In(t, "idle") /\ ~(create /\ id \in suites)
    /\ Now(t, [Idle EXCEPT !.at = "named", !.suite = id])
    /\ UNCHANGED <<memory, disk, suites, latest, unsure, overtaken, owed, stores, faults>>

\* Mutant of CheckNew: a new suite is not counted.
CheckUnlimited(t) ==
    /\ In(t, "named") /\ Now(t, [thread[t] EXCEPT !.at = "allowed"])
    /\ UNCHANGED <<memory, disk, suites, latest, unsure, overtaken, owed, stores, faults>>
CheckNew(t) ==
    /\ In(t, "named")
    /\ Now(t, [thread[t] EXCEPT
                !.at = IF thread[t].suite \in suites \cup BuiltIn THEN "allowed" ELSE "new"])
    /\ UNCHANGED <<memory, disk, suites, latest, unsure, overtaken, owed, stores, faults>>

(* require_within: refused at the ceiling; the copies of built-ins count    *)
CheckCeiling(t) ==
    /\ In(t, "new")
    /\ IF Cardinality(suites) >= MaxSuites THEN Done(t)
       ELSE Now(t, [thread[t] EXCEPT !.at = "allowed"])
    /\ UNCHANGED <<memory, disk, suites, latest, unsure, overtaken, owed, stores, faults>>

PutSuite(t) ==
    /\ In(t, "allowed") /\ suites' = suites \cup {thread[t].suite} /\ Done(t)
    /\ UNCHANGED <<memory, disk, latest, unsure, overtaken, owed, stores, faults>>

DeleteSuite(id) ==
    /\ id \in suites /\ suites' = suites \ {id}
    /\ UNCHANGED <<memory, disk, thread, latest, unsure, overtaken, owed, stores, faults>>

----------------------------------------------------------------------------
(* The process dies: the shelf is what the files say, in whatever order the *)
(* directory lists them.                                                    *)
Restart ==
    /\ faults < MaxFaults /\ faults' = faults + 1
    /\ memory' \in {s \in [1 .. Cardinality(disk) -> disk] : IsInjective(s)}
    /\ thread' = [t \in Threads |-> Idle]
    /\ owed' = owed + Cardinality({t \in Threads : thread[t].at \in {"stored", "evicting"}})
    /\ UNCHANGED <<disk, suites, latest, unsure, overtaken, stores>>

Next ==
    \/ \E t \in Threads, id \in Artifacts, created \in 1 .. LastSecond : StoreArtifact(t, id, created)
    \/ \E t \in Threads : ListArtifacts(t) \/ Evict(t) \/ Answer(t)
    \/ \E t \in Threads, id \in Suites, create \in BOOLEAN : SaveSuite(t, id, create)
    \/ \E t \in Threads : CheckNew(t) \/ CheckCeiling(t) \/ PutSuite(t)
    \/ \E id \in Suites : DeleteSuite(id)
    \/ Restart

Spec == Init /\ [][Next]_vars

----------------------------------------------------------------------------
Documents == [id : Artifacts, created : 1 .. LastSecond, version : 0 .. MaxStores]

(* Memory and the files hold documents, one of an id at most.               *)
TypeOK ==
    /\ memory \in Seq(Documents) /\ disk \subseteq Documents /\ IsFiniteSet(disk)
    /\ \A i, j \in DOMAIN memory : memory[i].id = memory[j].id => i = j
    /\ \A d, e \in disk : d.id = e.id => d = e
    /\ unsure \subseteq Artifacts /\ stores \in 0 .. MaxStores

(* The newest documents stay, whichever threads store and evict together    *)
(* and whatever restarts: one that fewer than `keep` others were created    *)
(* after or with is still there, unless it was stored over an older one     *)
(* that a pass had already listed, or the disk refused it                   *)
(* (enforce_artifact_retention 530-548).                                    *)
NewestAreKept ==
    \A d \in latest :
        /\ Cardinality({e \in latest : e.created >= d.created}) <= Keep
        /\ d.id \notin overtaken \cup unsure
        => d \in Held

(* The window is exceeded only by what a request in progress, or one that   *)
(* died or failed before the end of its pass, has stored, and by the files  *)
(* the disk would not remove (2361-2371, 2957-2972).                        *)
WindowHolds ==
    Len(memory) <= Keep + owed + Cardinality({t \in Threads : thread[t].at \in {"stored", "evicting"}})

(* The plan's window of artifacts: the newest, and no more of them than the *)
(* requests in progress account for.                                        *)
RetentionHolds == NewestAreKept /\ WindowHolds

(* Memory and the files say the same of every artifact whose last write or  *)
(* removal the disk took: what is answered survives a restart, and what was *)
(* evicted does not come back (_FileBackend 190-229).                       *)
DiskFollows ==
    \A id \in Artifacts \ unsure :
        {d \in Held : d.id = id} = {d \in disk : d.id = id}

(* The suites a workspace authored exceed the plan's ceiling at most by the *)
(* requests that passed it together; the copies it saved over built-in      *)
(* suites, which take places of the count without being refused one, never  *)
(* let it have more (_save_suite 1541-1551).                                *)
SuitesBounded == Cardinality(suites \ BuiltIn) <= MaxSuites + Cardinality(Threads) - 1
=============================================================================
