----------------------------- MODULE RuntimeJobs -----------------------------
(***************************************************************************)
(* One run of lab_server/runtime_jobs.py with a database behind it: the    *)
(* RuntimeJobStore operations on the run, the finalizer a handler thread   *)
(* executes when the last planned trial arrives, the stored row, the       *)
(* documents the finalizer puts on the shelf, and a server crash.          *)
(*                                                                         *)
(* Every store operation runs under RuntimeJobStore._lock and is one       *)
(* action.  The finalizer takes and releases that lock several times, so   *)
(* it is one action per lock region or shelf write and interleaves with    *)
(* every other request, other finalizers of the same run included.         *)
(***************************************************************************)
EXTENDS Naturals

CONSTANTS
    Units,          \* trial units a runtime may name
    Plans,          \* the plans a run may be created with; {} is no plan
    Traces,         \* schema-valid trace bodies
    NoTrace,        \* no trace body
    Uncollectable,  \* traces collect_suite_run refuses (arm/kernel mismatch, ...)
    Unstorable,     \* traces holding a NUL, which jsonb cannot store
    Breaches,       \* traces the suite curates into an evidence case
    Posted,         \* aggregates an operator posts
    Kinds,          \* what may be dispatched: "suite", "refs" or "raw"
    Workers,        \* handler threads that may be finalizing at one time
    Env,            \* what the environment does: "rerun", "attach", "shelfFails"
    MaxAttempts,    \* bound on the attempts of one trial
    MaxRefusals,    \* bound on saves the database fails
    MaxCrashes      \* bound on server restarts

ASSUME ParamAssumption ==
    /\ Plans \subseteq SUBSET Units
    /\ NoTrace \notin Traces
    /\ Uncollectable \subseteq Traces
    /\ Unstorable \subseteq Traces
    /\ Breaches \subseteq Traces
    /\ Posted \notin [Units -> Traces \cup {NoTrace}]
    /\ Kinds \subseteq {"suite", "refs", "raw"}
    /\ Env \subseteq {"rerun", "attach", "shelfFails"}
    /\ MaxAttempts \in Nat \ {0}
    /\ MaxRefusals \in Nat
    /\ MaxCrashes \in Nat

VARIABLES
    kind,       \* "suite": a resolved suite; "refs": a suite whose manifest
                \* still names scenario_refs; "raw": an experiment, no suite
    planned,    \* _Job.planned
    state,      \* _Job.state
    trial,      \* _Job.trials, "absent" for a unit with no entry
    aggregates, \* _Job.aggregates
    row,        \* the run's row of lab_runs
    refusals,   \* how many saves the database failed
    unsaved,    \* history: the last save raised
    artifact,   \* the shelf's artifact a_<run>, as a set of at most one report
    evidence,   \* the shelf's evidence cases of this run
    fin,        \* per handler thread, how far its finalizer is
    connected,  \* the owning runtime's ingest key is still known
    crashes

vars == <<kind, planned, state, trial, aggregates, row, refusals, unsaved, artifact,
          evidence, fin, connected, crashes>>

rowVars   == <<row, refusals, unsaved>>
jobVars   == <<kind, planned, state, trial, aggregates, rowVars>>
fixedVars == <<kind, planned>>                  \* set once, at creation
shelfVars == <<artifact, evidence>>
procVars  == <<connected, crashes>>

Waiting  == {"awaiting_confirmation", "waiting_for_runtime"}
Terminal == {"completed", "failed", "cancelled"}
Closed   == Waiting \cup {"cancelled"}          \* _CLOSED_TO_TRIALS
States   == {"none", "running", "receiving_traces", "analyzing", "completed",
             "cancelled"} \cup Waiting         \* nothing assigns "failed"
Done     == {"completed", "failed"}             \* a finished trial

Bodies  == Traces \cup {NoTrace}
\* The trace each unit contributed to a collected report, NoTrace when the unit
\* is missing, failed or has none.
Reports == [Units -> Bodies]
Empty   == [u \in Units |-> NoTrace]

\* verdict: the trace Lab computed the trial's metrics from, NoTrace when they
\* are the runtime's own measurements.
Trials == [status: {"absent", "pending"} \cup Done, trace: Bodies,
           attempt: 0..MaxAttempts, verdict: Bodies]
NewTrial == [status |-> "absent", trace |-> NoTrace, attempt |-> 0,
             verdict |-> NoTrace]

Rows == [state: States, trial: [Units -> Trials],
         aggregates: Reports \cup {Posted}]

FinSteps == {"idle", "collect", "metrics", "evidence", "aggregates", "mark"}
Idle     == [pc |-> "idle", report |-> Empty, cases |-> {}]
Fins     == [pc: FinSteps, report: Reports, cases: SUBSET (Units \X Breaches)]

Init ==
    /\ kind = "raw"
    /\ planned = {}
    /\ state = "none"
    /\ trial = [u \in Units |-> NewTrial]
    /\ aggregates = Empty
    /\ row = [state |-> "none", trial |-> [u \in Units |-> NewTrial],
              aggregates |-> Empty]
    /\ refusals = 0
    /\ unsaved = FALSE
    /\ artifact = {}
    /\ evidence = {}
    /\ fin = [w \in Workers |-> Idle]
    /\ connected = TRUE
    /\ crashes = 0
-----------------------------------------------------------------------------
\* A row holding a NUL anywhere is refused, and then nothing of it is written.
Storable(t) == \A u \in Units : t[u].trace \notin Unstorable

\* _publish_locked: the new job document replaces the row, or the save raises,
\* for the document or because the database fails, and the change stays in
\* memory only.
Save ==
    \/ /\ Storable(trial')
       /\ row' = [state |-> state', trial |-> trial', aggregates |-> aggregates']
       /\ unsaved' = FALSE
       /\ UNCHANGED refusals
    \/ /\ \/ ~Storable(trial') /\ UNCHANGED refusals
          \/ refusals < MaxRefusals /\ refusals' = refusals + 1
       /\ unsaved' = TRUE
       /\ UNCHANGED row

\* Mutant of FinishedIn: a failed trial does not count.
OnlyCompleted(t) == {u \in Units : t[u].status = "completed"}

FinishedIn(t) == {u \in Units : t[u].status \in Done}
Admitted(u)   == planned # {} => u \in planned      \* _require_planned
Accepting     == connected /\ state \notin Closed \cup {"none"}

\* Mutant of AfterResult: a covered plan completes the run at once.
CompletesAtOnce(done) ==
    IF planned # {} /\ planned \subseteq done THEN "completed" ELSE state

\* _maybe_finish, with the units that are finished by now.
AfterResult(done) ==
    IF planned = {} THEN "analyzing"
    ELSE IF planned \subseteq done /\ state \notin Terminal THEN "analyzing"
    ELSE state

CreateRun(k, plan, confirm) ==
    /\ state = "none"
    /\ connected
    /\ plan = {} => k = "raw"       \* a suite plans at least one trial
    /\ kind' = k
    /\ planned' = plan
    /\ state' = IF confirm THEN "awaiting_confirmation" ELSE "waiting_for_runtime"
    /\ UNCHANGED <<trial, aggregates>>
    /\ Save
    /\ UNCHANGED <<fin, shelfVars, procVars>>

ConfirmRun ==
    /\ state = "awaiting_confirmation"
    /\ state' = "waiting_for_runtime"
    /\ UNCHANGED <<fixedVars, trial, aggregates>>
    /\ Save
    /\ UNCHANGED <<fin, shelfVars, procVars>>

Claim ==
    /\ connected
    /\ state = "waiting_for_runtime"
    /\ state' = "running"
    /\ UNCHANGED <<fixedVars, trial, aggregates>>
    /\ Save
    /\ UNCHANGED <<fin, shelfVars, procVars>>

\* append_events: events for a finished trial start a fresh attempt.  The
\* metrics, and so the verdict, of the superseded attempt stay.
Restarted(t) ==
    IF t.status \in Done
    THEN [t EXCEPT !.status = "pending", !.trace = NoTrace, !.attempt = @ + 1]
    ELSE IF t.status = "absent"
    THEN [t EXCEPT !.status = "pending", !.attempt = 1]
    ELSE t

\* Mutant of AppendEvents: only a running run starts receiving.
AppendEventsNoReopen(u) ==
    /\ Accepting
    /\ Admitted(u)
    /\ trial[u].status \in Done =>
          "rerun" \in Env /\ trial[u].attempt < MaxAttempts
    /\ trial' = [trial EXCEPT ![u] = Restarted(@)]
    /\ state' = IF state = "running" THEN "receiving_traces" ELSE state
    /\ UNCHANGED <<fixedVars, aggregates>>
    /\ Save
    /\ UNCHANGED <<fin, shelfVars, procVars>>

AppendEvents(u) ==
    /\ Accepting
    /\ Admitted(u)
    /\ trial[u].status \in Done =>
          "rerun" \in Env /\ trial[u].attempt < MaxAttempts
    /\ trial' = [trial EXCEPT ![u] = Restarted(@)]
    /\ state' = "receiving_traces"
    /\ UNCHANGED <<fixedVars, aggregates>>
    /\ Save
    /\ UNCHANGED <<fin, shelfVars, procVars>>

\* The handler of a completion whose answer is run_state "analyzing" goes on to
\* finalize the run in its own thread.
StartFinalizer(w) == fin' = [fin EXCEPT ![w] = [Idle EXCEPT !.pc = "collect"]]

\* Mutant of Superseding: the attempt never counted again.
ReplacesResult(t, status, body, measured) ==
    [t EXCEPT !.status = status, !.trace = body,
              !.attempt = IF t.status = "absent" THEN 1 ELSE @]

\* complete_trial on a unit without a result, or with a different one.
Superseding(t, status, body, measured) ==
    [status  |-> status,
     trace   |-> body,
     attempt |-> IF t.status \in Done THEN t.attempt + 1
                 ELSE IF t.status = "absent" THEN 1 ELSE t.attempt,
     verdict |-> IF measured THEN NoTrace ELSE t.verdict]

CompleteTrial(w, u, status, body, measured) ==
    /\ fin[w].pc = "idle"
    /\ Accepting
    /\ Admitted(u)
    /\ status = "completed" => body \in Traces
    /\ trial[u].status \in Done =>
          /\ "rerun" \in Env
          /\ trial[u].attempt < MaxAttempts
          /\ ~(trial[u].status = status /\ trial[u].trace = body)
    /\ trial' = [trial EXCEPT ![u] = Superseding(@, status, body, measured)]
    /\ state' = AfterResult(FinishedIn(trial'))
    /\ UNCHANGED <<fixedVars, aggregates>>
    /\ Save
    /\ IF state' = "analyzing" /\ ~unsaved'
       THEN StartFinalizer(w) ELSE UNCHANGED fin
    /\ UNCHANGED <<shelfVars, procVars>>

\* complete_trial delivered again with the same result: answered from memory,
\* nothing saved, and finalized once more when the run is still analyzing.  It is
\* also how a runtime goes on whose completion was not saved.
RedeliverTrial(w, u) ==
    /\ fin[w].pc = "idle"
    /\ Accepting
    /\ Admitted(u)
    /\ trial[u].status \in Done
    /\ IF state = "analyzing" THEN StartFinalizer(w) ELSE UNCHANGED fin
    /\ UNCHANGED <<jobVars, shelfVars, procVars>>

\* Mutant of CancelRun: the state is set and not published.
CancelRunUnsaved ==
    /\ state \notin Terminal \cup {"none"}
    /\ state' = "cancelled"
    /\ UNCHANGED <<fixedVars, trial, aggregates, rowVars, fin, shelfVars, procVars>>

CancelRun ==
    /\ state \notin Terminal \cup {"none"}
    /\ state' = "cancelled"
    /\ UNCHANGED <<fixedVars, trial, aggregates>>
    /\ Save
    /\ UNCHANGED <<fin, shelfVars, procVars>>

AttachAggregates ==
    /\ "attach" \in Env
    /\ state # "none"
    /\ planned \subseteq FinishedIn(trial)
    /\ aggregates' = Posted
    /\ state' = IF state \in {"running", "receiving_traces", "analyzing"}
                THEN "completed" ELSE state
    /\ UNCHANGED <<fixedVars, trial>>
    /\ Save
    /\ UNCHANGED <<fin, shelfVars, procVars>>
-----------------------------------------------------------------------------
(* finalize_suite_run, in the handler thread w. *)

Step(w, pc) == fin' = [fin EXCEPT ![w].pc = pc]

\* The report collection computes from the results it read.
Collected ==
    [u \in Units |-> IF trial[u].status = "completed" THEN trial[u].trace
                     ELSE NoTrace]

CasesOf(report) == {c \in Units \X Breaches : report[c[1]] = c[2]}

\* The manifest is resolved again, without the scenario registry the dispatch
\* had, and one refused trace refuses the whole run.
Collectable ==
    /\ kind = "suite"
    /\ \A u \in Units : trial[u].trace \notin Uncollectable

\* Mutant of FinCollect: a refused collection ends the finalizer.
FinCollectGivesUp(w) ==
    /\ fin[w].pc = "collect"
    /\ fin' = [fin EXCEPT ![w] =
                  IF Collectable
                  THEN [pc |-> "metrics", report |-> Collected,
                        cases |-> CasesOf(Collected)]
                  ELSE Idle]
    /\ UNCHANGED <<jobVars, shelfVars, procVars>>

FinCollect(w) ==
    /\ fin[w].pc = "collect"
    /\ fin' = [fin EXCEPT ![w] =
                  IF Collectable
                  THEN [pc |-> "metrics", report |-> Collected,
                        cases |-> CasesOf(Collected)]
                  ELSE [Idle EXCEPT !.pc = "mark"]]
    /\ UNCHANGED <<jobVars, shelfVars, procVars>>

\* overwrite_trial_metrics: under the lock, not saved.
FinMetrics(w) ==
    /\ fin[w].pc = "metrics"
    /\ trial' = [u \in Units |->
                    IF fin[w].report[u] # NoTrace /\ trial[u].status # "absent"
                    THEN [trial[u] EXCEPT !.verdict = fin[w].report[u]]
                    ELSE trial[u]]
    /\ Step(w, "evidence")
    /\ UNCHANGED <<fixedVars, state, aggregates, rowVars, shelfVars, procVars>>

\* One put of an evidence case.  A document the shelf refuses is skipped; any
\* other failure ends the collection.
FinEvidence(w) ==
    /\ fin[w].pc = "evidence"
    /\ \E c \in fin[w].cases :
          \/ /\ evidence' = evidence \cup {c}
             /\ fin' = [fin EXCEPT ![w].cases = @ \ {c}]
          \/ /\ "shelfFails" \in Env
             /\ UNCHANGED evidence
             /\ \/ fin' = [fin EXCEPT ![w].cases = @ \ {c}]
                \/ Step(w, "mark")
    /\ UNCHANGED <<jobVars, artifact, procVars>>

\* The put of the artifact, after the last case.  Any failure of it is
\* swallowed.
FinArtifact(w) ==
    /\ fin[w].pc = "evidence"
    /\ fin[w].cases = {}
    /\ \/ artifact' = {fin[w].report}
       \/ "shelfFails" \in Env /\ UNCHANGED artifact
    /\ Step(w, "aggregates")
    /\ UNCHANGED <<jobVars, evidence, procVars>>

\* The aggregates are set under the lock, when there are any, and not saved.
FinAggregates(w) ==
    /\ fin[w].pc = "aggregates"
    /\ aggregates' = IF fin[w].report = Empty THEN aggregates ELSE fin[w].report
    /\ Step(w, "mark")
    /\ UNCHANGED <<fixedVars, state, trial, rowVars, shelfVars, procVars>>

\* Mutant of FinMark: a run that is already over is marked too.
FinMarkAlways(w) ==
    /\ fin[w].pc = "mark"
    /\ fin' = [fin EXCEPT ![w] = Idle]
    /\ UNCHANGED <<fixedVars, trial, aggregates>>
    /\ state' = "completed"
    /\ Save
    /\ UNCHANGED <<shelfVars, procVars>>

\* mark_completed, whatever the collection did: it does not look at the trials
\* again.  The handler then answers, with an error if the save raised, and the
\* thread is free.
FinMark(w) ==
    /\ fin[w].pc = "mark"
    /\ fin' = [fin EXCEPT ![w] = Idle]
    /\ UNCHANGED <<fixedVars, trial, aggregates>>
    /\ IF state \in Terminal
       THEN UNCHANGED <<state, rowVars>>
       ELSE state' = "completed" /\ Save
    /\ UNCHANGED <<shelfVars, procVars>>

Finalize(w) ==
    \/ FinCollect(w)
    \/ FinMetrics(w)
    \/ FinEvidence(w)
    \/ FinArtifact(w)
    \/ FinAggregates(w)
    \/ FinMark(w)
-----------------------------------------------------------------------------
\* The process dies and starts again: the job is what _job_from_row reads back,
\* handler threads are gone, and no ingest key is known any more.
Crash ==
    /\ crashes < MaxCrashes
    /\ crashes' = crashes + 1
    /\ state' = row.state
    /\ trial' = row.trial
    /\ aggregates' = row.aggregates
    /\ fin' = [w \in Workers |-> Idle]
    /\ connected' = FALSE
    /\ unsaved' = FALSE
    /\ UNCHANGED <<fixedVars, row, refusals, shelfVars>>

Operator ==
    \/ \E k \in Kinds, plan \in Plans, confirm \in BOOLEAN : CreateRun(k, plan, confirm)
    \/ ConfirmRun
    \/ CancelRun
    \/ AttachAggregates

Runtime ==
    \/ Claim
    \/ \E u \in Units : AppendEvents(u)
    \/ \E w \in Workers, u \in Units :
          \/ RedeliverTrial(w, u)
          \/ \E status \in Done, body \in Bodies, measured \in BOOLEAN :
                CompleteTrial(w, u, status, body, measured)

Next ==
    \/ Operator
    \/ Runtime
    \/ \E w \in Workers : Finalize(w)
    \/ Crash

Spec == Init /\ [][Next]_vars

(***************************************************************************)
(* Fairness.  A handler thread that finalizes is scheduled by the          *)
(* interpreter and takes no lock it could wait for forever.  A runtime     *)
(* that serves its claim keeps completing trials; nothing is assumed of an *)
(* operator, of a runtime's retries or of a restart.                       *)
(***************************************************************************)
SomeTrialCompletes ==
    \E w \in Workers, u \in Units, status \in Done, body \in Bodies,
       measured \in BOOLEAN : CompleteTrial(w, u, status, body, measured)

ServedSpec ==
    /\ Spec
    /\ \A w \in Workers : WF_vars(Finalize(w))
    /\ WF_vars(SomeTrialCompletes)
-----------------------------------------------------------------------------
\* The state has the shape the code gives it; in particular no run is ever
\* `failed`, a terminal state the code declares and does not assign.
TypeOK ==
    /\ kind \in {"suite", "refs", "raw"}
    /\ planned \subseteq Units
    /\ state \in States
    /\ trial \in [Units -> Trials]
    /\ aggregates \in Reports \cup {Posted}
    /\ row \in Rows
    /\ refusals \in 0..MaxRefusals
    /\ unsaved \in BOOLEAN
    /\ artifact \in SUBSET Reports
    /\ evidence \subseteq Units \X Breaches
    /\ fin \in [Workers -> Fins]
    /\ connected \in BOOLEAN
    /\ crashes \in 0..MaxCrashes

\* What of a trial a restart must not lose: everything but its metrics, which a
\* running finalizer has in memory only.
Kept(t) == [u \in Units |-> [status |-> t[u].status, trace |-> t[u].trace,
                              attempt |-> t[u].attempt]]

\* Unless the last save raised, the row is not behind on the run's state, its
\* trials or their attempts, whatever raised before: each save writes the whole
\* job, and what changes saves before it tells anyone (_publish_locked).
RowIsCurrent ==
    ~unsaved => row.state = state /\ Kept(row.trial) = Kept(trial)

\* A restart after a save that raised: what memory alone had is gone, whoever
\* was told of it by an answer from memory.
Forgets == unsaved /\ crashes' # crashes

\* A trial is taken only after the claim: until then no unit has an entry, no
\* finalizer runs and, unless the database failed (a restart then takes a run
\* back to before a claim it did not save), the shelf holds nothing of the run
\* (_require_active).
NothingBeforeClaim ==
    state \in Waiting \cup {"none"} =>
        /\ \A u \in Units : trial[u] = NewTrial
        /\ \A w \in Workers : fin[w] = Idle
        /\ refusals = 0 => artifact = {} /\ evidence = {}

\* When nothing is re-run, a suite run that shows `completed` shows its final
\* report: every planned unit finished, the artifact, the aggregates and each
\* trial's verdict computed from the very traces the run holds, and the evidence
\* stored, also after a restart, with duplicate deliveries finalizing twice,
\* one of the two finalizers still going, and saves that raised on the way.
CompletedIsReported ==
    state = "completed" /\ kind = "suite" =>
        /\ planned \subseteq FinishedIn(trial)
        /\ artifact = {Collected}
        /\ aggregates = Collected
        /\ CasesOf(Collected) \subseteq evidence
        /\ \A u \in Units : Collected[u] # NoTrace => trial[u].verdict = trial[u].trace

\* The stored row of a completed run carries that report too, whichever of two
\* finalizers marked it.
StoredIsReported ==
    row.state = "completed" /\ kind = "suite" =>
        /\ row.aggregates = Collected
        /\ row.trial = trial

\* A completed suite run stands on its report, in memory and in the row a
\* restart reads: whichever of two finalizers marked it, and whatever the other
\* is still doing (finalize_suite_run, mark_completed).
ReportStands == CompletedIsReported /\ StoredIsReported

\* Retries supersede: a finished result changes only together with its attempt
\* ordinal, and an ordinal never goes back, across restarts too, except for one
\* that forgets (contracts/lifecycle.md, "Idempotency via TrialAttempt").
AttemptsSupersede ==
    [][\/ Forgets
       \/ \A u \in Units :
          /\ trial'[u].attempt >= trial[u].attempt
          /\ trial[u].status \in Done /\ Kept(trial')[u] # Kept(trial)[u]
                => trial'[u].attempt = trial[u].attempt + 1]_vars

\* Cancelling is final and keeps what there is: no late event, completion,
\* finalizer, aggregate or restart moves a cancelled run or touches a trial's
\* status, trace or attempt, except for a restart that forgets
\* (contracts/lifecycle.md, "Cancel keeps completed trials").
CancelKeepsTrials ==
    [][\/ Forgets
       \/ state = "cancelled" => state' = "cancelled" /\ Kept(trial') = Kept(trial)]_vars

\* The run as the rest of the platform sees it.
Lifecycle == INSTANCE RunLifecycle WITH finished <- FinishedIn(trial)

\* The store implements the run lifecycle, and a restart is invisible in it
\* unless it forgets.
ImplementsLifecycle ==
    /\ Lifecycle!LifecycleInit
    /\ [][Lifecycle!LifecycleNext \/ Forgets]_(Lifecycle!lifecycleVars)

\* The run reached its plan: it is not stranded in `analyzing`, even if the
\* collection refuses its traces or the shelf fails (finalize_suite_run).
NotStranded == state = "analyzing" ~> state # "analyzing"

\* A claimed run ends if its runtime keeps completing trials.
ClaimedRunEnds == state = "running" ~> state \in Terminal

\* A run is never `completed` with a pending trial inside it (append_events).
NoPendingInCompleted ==
    state = "completed" => \A u \in Units : trial[u].status # "pending"
=============================================================================
