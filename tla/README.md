# A TLA+ verification of axor-lab

TLA+ modules of the parts of axor-lab whose correctness depends on the order in
which things happen, or on several functions agreeing about one record; the TLC
configurations that check them on small instances; and theorems about them proved
with TLAPS. Every definition is translated from the source; `PROJECT.json` names
the lines of each (`map`), the runs, the properties, one mutant per property, the
hazards and the findings.

## 1. The system

axor-lab plans experiments on agents, runs them in process or hands them to a
*runtime* on the customer's side, ingests the traces the runtime sends back,
recomputes every verdict and number from them, and publishes the evidence. One
server process is enough for a deployment: a `ThreadingHTTPServer` with one thread
per request over a few stores, each with a lock, most of them with an optional
Postgres or a directory of files behind them.

| component | state it keeps | operations | how it meets the others | what is hard |
|---|---|---|---|---|
| run store (`lab_server/runtime_jobs.py`, `RuntimeJobStore`) | runs: state, planned units, trials, aggregates, listeners; rows of `lab_runs` | create, confirm, claim, append events, complete a trial, attach aggregates, cancel, mark completed, subscribe | operator and runtime over HTTP, one thread per request; every change is saved and published under the lock | late, duplicate and superseding deliveries; a save that raises after the change; restarts |
| finalizer (`finalize_suite_run`) | none of its own: a handler thread between lock regions | collect, overwrite metrics, store evidence, store the artifact, set aggregates, mark | reads the run store, writes the shelf, comes back to the run store | two finalizers of one run; events that arrive while it collects; failures of one step |
| live stream (`_stream_sse`, `web/src/lib/useRunEvents.ts`) | a queue and a thread per open screen; the hook's progress | subscribe, deliver, done, timeout, keep-alive, unsubscribe, reconnect | publishing threads push, one handler thread writes, the browser reconnects by itself | lost updates, order of the last frames, threads that are never freed |
| document shelf (`lab_server/screens.py`) | suites, evidence, regressions, artifacts, in memory, files or rows | put, get, delete, list, find, retention | written by finalizers and operators | retention and the plan's ceiling beside concurrent puts; memory changed before the file |
| publication store (`lab_server/store.py`) | published bundles, attestations, tombstones; one object per file or row | publish, takedown, attest, serve, cold load | the catalog application and the CLI | crashes between object writes; takedown that must stay final |
| workspaces (`lab_server/workspaces.py`) | tenants, tokens, roles, plans, checkouts, guests, keys, audit log | add, ensure from identity, members, guests, apply plan, checkout, settle | every request resolves its tenant first | check-then-act across lock regions; guests that expire under a request |
| manifest, planner, collection (`lab_suite/manifest.py`, `dispatch.py`) | none | validate, resolve, plan, build the assignment, collect | dispatch creates the run, the finalizer collects it | missing, failed and refused trials in a denominator; reports of a runtime Lab does not trust |
| suite execution (`lab_suite/execute.py`, `lab_service/experiments.py`) | a `SuiteRun` while it runs | run each unit, aggregate, check invariants, seal | bundles go to publication, verification and handoff | two lanes and a recomputation that must agree on every number |
| runner (`lab_runner/`) | a loop's value ledger and trace | loop, simulated host, predicates, invariants | its traces are what everything else reads | calls that were denied or never answered; unknown must not become satisfied |
| contracts, recomputation (`lab_contracts/`, `lab_server/recompute.py`) | none | verify a bundle, a trace, a scenario; recompute aggregates | what the server accepts | each check looks at one part of a bundle |
| analysis (`lab_analysis/stats.py`) | none | intervals, missingness, paired tests | aggregates of runs and bundles, the bridge | boundaries; when a comparison is not one |
| governance (`lab_capabilities/governance/`) | none | replay, pins, evidence cases, claims, Control Plane export | publication and handoff | several readers pair calls and decisions by different rules; contrasts earned by composition |
| handoff (`lab_service/handoff.py`) | an export directory, its staging and its backup | export, read, verify | written by the CLI, read by the Control Plane | crashes between file operations; readers during a swap |
| other services, adapters, pages, web | none or per screen | documents, conversions, rendering | – | – |

What makes each correct is stated with its runs in section 3.

## 2. The modules

- **`RunLifecycle`**: what everybody else may rely on about one run: its state,
  its plan and the units that have a result. No storage, traces, threads or
  crashes. `Receive` covers events for a unit and, since a finished unit becomes
  pending again, the re-opening of a run; `Complete` covers the finalizer's mark
  and posted aggregates.
- **`RuntimeJobs`**: one run of `RuntimeJobStore` with a database. Runs share
  nothing but the lock, so one is enough. Every store operation holds
  `RuntimeJobStore._lock` from its first check to the save and is one action with
  the guards of the code; the finalizer releases the lock between its steps and is
  one action per step (`FinCollect` … `FinMark`) of a handler thread, with any
  number of threads finalizing the same run.
- **`RunStream`** extends `RunLifecycle` with the streams of a run: one publish
  per lifecycle step, queues, handler threads, and the browser hook.
- **`Catalog`**: what a reader of the publication catalog may rely on: evidence
  that was taken down disappears at once, under every publication of it, and does
  not come back.
- **`PublicationStore`**: `PublicationStore` of `lab_server/store.py`, its objects on
  disk and the processes that come and go over them. publish, takedown and
  add_attestation hold the lock from their first check to their last write, and
  what is on disk between two writes is read only by a later process: each is one
  action, and each has a second action in which a write fails, which leaves any
  prefix of the writes, with the failing one landed or not. A crash is that
  followed by `Restart`, the two-pass cold load with possibly other keys.
- **`Workspaces`**: the tenant registry of `lab_server/workspaces.py` and the routes
  that drive it: tenants, identity logins, members, plans, checkouts and the
  provider's webhook, guest sessions and the ingest keys of their runtimes. Every
  method of `Workspaces` is one lock region and one action; a route is several of
  them, and `todo` holds for each handler thread the regions its request has still
  to enter with what it read before. A route's first region is the action by which
  it arrives (`ListTenants`, `PaymentSucceeded`, `Login`, ...), the later ones are
  `Apply`, `SettleCheckout`, `Add`, `CountGuests`, `CreateGuest`, `UseStores`,
  `ConnectRuntime`, `BindKey`. A change is made in memory and then written; where
  the database can refuse the write there is a second action (`ApplyFails`,
  `AddFails`, `LoginFails`) or a second outcome.
- **`Shelf`**: the document shelf of one workspace with the file backend: artifacts
  stored and evicted beyond the plan's window, suites saved under its ceiling. One
  call of the store is one lock region and one action, a request is several of them
  in `thread`; the file operation of a call may be refused, and the process may
  restart between any two.
- **`Manifest`**: which manifests are refused, what an accepted one resolves to, and
  the units it plans, as operators. **`Statistics`**: what comparisons, aggregates
  and missingness are computed from, and when they are refused or inconclusive.
  **`Invariants`** extends both with one `regression/v1` rule over the trials of a run.
  **`Bundle`** extends it with the sealing of a bundle, its verification, and the
  server's recomputation of its aggregates.
- **`SuiteRun`** composes these four into a state machine, from a submitted manifest
  through one of three lanes (in process, as an experiment, on a remote runtime) to
  a sealed bundle, which an uploader may change and seal again.
- **`Trace`**: a recorded trial and how the runner reads one. **`Predicates`** extends
  it with the evaluation of a scenario's predicates and their author-time checks
  (recursive over the predicate, so nothing is proved of it). **`Replay`** extends
  `Trace` with replay under a kernel, pins, evidence cases and claims.
  **`AgentLoop`** is the state machine that makes a trace: the agent's steps, its
  budgets, the simulated host and the gate under three arms. **`Rereading`** extends
  `AgentLoop` with what becomes of the stored trace: it is pinned, and read again by
  some kernel, as recorded or after one change. **`Investigation`** composes that with
  the scenario: a trial is scored by its predicates. It only adds a variable that never
  changes, so a behaviour of `InvestigationSpec` is one of `RereadingSpec`, and what
  is proved of `Rereading` holds of it.
- **`CPExport`**: what the Control Plane export refuses, carries and may claim, with
  the bridge between the arms, over `Bundle` and `Replay`.
- **`ExportDirectory`**: how an export reaches the disk, one action per file
  operation, and a crash at any of them. **`Handoff`** composes `CPExport` and
  `ExportDirectory` with a reader that lists, opens and verifies.
- **`MC...`**: symmetry sets and constants for TLC. **`..._proofs`**: the theorems.

State and code, for `RuntimeJobs`:

| variable | code |
|---|---|
| `kind` | what was dispatched: a suite whose scenarios are inline, a suite whose manifest names `scenario_refs`, or a raw experiment |
| `planned`, `state`, `trial`, `aggregates` | `_Job.planned`, `.state`, `.trials`, `.aggregates` |
| `row` | the `lab_runs` row `_save_locked` writes and `_job_from_row` reads |
| `refusals`, `unsaved` | how many saves the database failed (a bound); history: the last save raised |
| `artifact`, `evidence` | the shelf's `a_<run>` artifact and the run's evidence cases |
| `fin` | for each handler thread where its finalizer is and what it has collected |
| `connected` | the ingest key of the owning runtime is known; keys and runtimes are in memory only, so a restart ends this run's runtime |

Abstractions. A trace is a model value with three attributes the code tells apart:
collection refuses it (`Uncollectable`: wrong kernel for its arm, a config hash that
does not match), the database refuses it (`Unstorable`: a NUL), the suite makes an
evidence case of it (`Breaches`). Its coordinates are the trial id it was sent for.
Events are not kept one by one: only that a trial has some. A trial's metrics are
who computed them (`verdict`): the runtime, or Lab from one particular trace. A
report is the trace each unit contributed, and stands for the artifact and the
aggregates computed from it. Evidence cases of one report are put in any order.
A failed trial contributes nothing to a report (its trace is only a reference there).
`Save` is in every operation of the store: it replaces the whole row, or raises, because
a trace is `Unstorable` or because the pool or the statement fails, and leaves the
change in memory. The request is then answered with an error: a completion starts no
finalizer, and its repetition, an `idempotent` answer from memory, does.
The model is of the deployment with a database; without one nothing survives a
restart, and the operations are the same.

For `RunStream`: a screen has one connection; opened again while its old thread is
still leaving, it is another screen. A save that raises publishes nothing and is not
in this module. A frame carries the finished units, where the code sends the trials
with their status.

For `PublicationStore`:

| variable | code |
|---|---|
| `disk` | the directory of a publication (or its keys in `lab_objects`): which of its objects exist, and what `acceptance.json` and `reproductions.json` hold |
| `registry` | the `_lineage_tombstones` directory |
| `cached`, `mem` | `_cache`, with the log and the acceptance of each `StoredPublication` |
| `tombs`, `ltombs` | `_tombstones`, `_lineage_tombstones` |
| `known`, `serverKey` | `known_keys` and the signing key of this process |
| `issued`, `answered` | history: the acceptances handed out, the takedowns that returned |

A publication is its id, which content-addresses its body, so "the same id with
another body" does not occur. All the traces of a bundle are one object, since a
directory with some of them does not verify. An acceptance is the key that signed
it (the rest of it is determined by the publication; an unsigned one is a key of
its own). An attestation is who made it and whether it is signed; one kind of
reproduction. The semantic handshake decides which publications exist at all, and
the visibility of a publication filters a list and changes nothing. Legacy
tombstones, which this code reads and never writes, are left out, and so are power
failures that lose what a finished process had written without fsync: only
tombstones are fsynced by the code.

For `Workspaces`:

| variable | code |
|---|---|
| `byId`, `tokens` | `_by_id` (the plan, and the subscription's plan and status), `_by_token` and `_members` |
| `rows`, `tokenRows`, `keyRows` | `lab_workspaces`, `lab_members`, `lab_runtime_keys` |
| `checkouts` | `_checkouts`, which no row keeps |
| `charge` | what the payment provider knows: a checkout is open, paid or failed |
| `expiry`, `stores`, `keys` | `_guest_expiry` (and whether its moment has passed), the pair in `_stores`, `_key_ws`, of guest sessions |
| `todo` | the lock regions each request has still to enter |
| `traffic` | which requests a behaviour has; a bound for TLC |
| `unsaved`, `interrupted`, `landed` | history: what the database refused last, the organisations whose provisioning was cut short, the checkouts whose plan was written |

`past_due` and `canceled` are one status, `lapsed`: the code treats them alike. A
token is a credential and not a string; a guest's own token is implicit, since it
lives and dies with the session; the ids of guests and checkouts are random and
never come back (`Fresh`, `charge`). A workspace is its plan and its subscription:
names, roles, the audit log and the registry shared by an organisation are left
out, and so are the limits of a plan. The provider repeats what it has to tell at
will and closes a checkout whose charge failed. The module is of the deployment
with a database; `Restart` loads the registry and adds the operator's workspace
again, as `single_workspace` does.

For `Shelf`: `memory` is `_by_kind["artifact"]` in its order of insertion, `disk` the
artifact files, `suites` the ids of the saved suites, `thread` what each request has
still to do with what it listed; `latest`, `unsure`, `overtaken` and `owed` are
history: the last document stored of each id, the ids whose file operation was
refused, those stored again while a pass was about to evict them, and a bound on
the documents nothing will evict any more: a removal refused is two of them, the
store whose pass stopped there and the file left, which a restart brings back. A
run's document stored again is not older than the one before. `BuiltIn` are the ids of built-in suites:
a workspace copy of one is put and counted, but passes the check of the ceiling unasked.
Evidence cases and regressions use the same put and get.

For `SuiteRun`: `reports` is `RuntimeJobStore.results` of the run (the store itself is
`RuntimeJobs`), `result` the `SuiteRun` of execute.py, `package` the bundle and its
traces. A trace is the coordinates, kernel, world and mode its producer recorded,
its verdicts, the tools that ran, and the predicates it satisfies (`facts`, which
`Predicates` computes). A content hash is the content; a seal is the set of what it
hashes; intervals and tests are tuples of what they are computed from. Scenarios are
ones `validate_scenario` takes. JSON Schema, canonical form, unsafe paths and the
wording of reasons are left out. What an uploader may change is one operator each
(`TrialLost` … `ProvenanceClaimed`) and external. What raises outside the `try` around a
unit (building a gate, the suite's hooks, a refused comparison design) ends the whole run
(`RunRaises`).

For `Investigation`: `ran` is what the host really executed, `trace` what the loop
recorded from `events` and `values`, `registered` and `armed` the governor's session:
the values it holds tainted, and whether the confidentiality floor is up. The kernel
is an operator `Denies` at a sink: the kernel of axor-core is not in the repository.
`held` and `kernel`, of `Rereading`, are what is found when the trace is read again,
and `scenario`, of `Investigation`, is the scenario it is scored by.

For `Handoff`: `final`, `staging` and `backup` are the three directories, `export` where
the exporting process is, `reader` where the verifier is and what it has opened,
`study` a bundle whose bridge is computed without an export. rmtree removes files in a
fixed order, listing a directory is one step, and each file opened another. A file gone
since the listing is skipped (`path.is_file()`, `handoff.py:322`); one that goes between
that look and `read_text` raises, and the reader ends (`Close`). What a reader asks for
(`Asked`) is its key (None also without the cryptography to check one, which is
answered alike), the author it expects, and whether an unsigned export will do. A session
either analyses a bundle or exports; packages from elsewhere are received before the
first export.

## 3. The runs and what they show

| run | instance | properties | what it shows |
|---|---|---|---|
| `core_report` | 3 units, plans of 2 and 3, suite and raw runs, a clean, a breaching and an unstorable trace, 2 handler threads, 2 failing saves, 1 restart; 1 332 915 states | `ReportStands` | with duplicate deliveries that finalize twice, saves that raise and a restart anywhere, a completed suite run shows its final report in memory and in its row |
| `core_retries` | 2 units, plan of 2 or none, re-runs up to attempt 2, posted aggregates, 2 threads, 1 failing save, 1 restart; 696 143 states | `RowIsCurrent`, `AttemptsSupersede`, `CancelKeepsTrials`, `ImplementsLifecycle` | late events, completions and finalizers never move a cancelled run or change a result without a new attempt; the row is behind only while the last save raised; the store refines `RunLifecycle` |
| `core_live` | 2 units, plan of 1 or none, all kinds, re-runs, posted aggregates, a failing shelf, no failing save, no restart, fair threads | `NotStranded`, `ClaimedRunEnds` | `analyzing` is left whatever fails in the collection; a run whose runtime keeps completing ends |
| `stream` | 1 screen, 2 units, 6 queued frames, 2 lost connections, fair threads | `NoLostUpdate`, `DoneShowsRun`, `ScreenLearnsEnd`, `HandlerFreed` | the three promises of `_stream_sse`: no lost update, closing after progress, no leaked thread |
| `publications` | 2 publications of one experiment, the second signed; 3 attestations, one of a signer whose key some processes do not know; 2 server keys; any number of failures and restarts; 497 092 states | `ServedSurvives`, `AcceptanceKept`, `ReproductionsEarned`, `LogKept`, `ImplementsCatalog` | whatever fails between two writes and whoever restarts, what is served is whole, acceptances and attestations that reached the disk stay, and the store refines `Catalog` |
| `tenancy` | 2 tenants, 1 organisation, 3 tiers of which one is not in the catalog, 1 checkout, 3 guests with a ceiling of 1, 2 credentials, 2 handler threads, any number of refused writes and restarts; 235 561 states | `PlansFollow`, `RegistryIsCurrent`, `GuestsHold`, `SpentGrantsNothing`, `PaymentLands`, `CapacityReturns` | a lapse loses the plan whatever races it, what was answered survives, a spent checkout grants nothing and a paid one lands, the guest ceiling holds up to the requests in flight and frees itself |
| `loop` | 4 tools (a source, a sensitive source, a sink, a sink nobody can simulate), 8 proposals, up to 7 steps and 3 calls, 3 arms, 3 kernels, every single change of a stored trace; 136 252 states | `TraceIsWhatRan`, `ScoresWhatRan`, `ReplayReproduces`, `MatchMeansRan`, `PinTells`, `ChainIsOneCall` | the trace is what ran, a finished one passes the validator of uploads; predicates, replay, pins and evidence cases agree with it although each pairs calls and decisions by its own rule, also after a redaction, a lost id, a swap or a flip |
| `suite` | 20 manifests, 12 of them refused, by lanes; up to 2 scenarios, 2 repeats, 2 arms, declared and refused comparison designs; behaviours that act and one that does nothing; in process, as an experiment, or 1 report for each unit of a runtime that may send foreign traces; runs ended by an exception; every change an uploader can make, sealed again or not; 177 625 states | `RunIsThePlan`, `UnevaluableNeverPasses`, `HonestIsAccepted`, `AcceptedFollowsEvidence` | no trial is lost from a denominator, no rule passes unevaluated, an honest bundle is accepted by verification and recomputation alike, and an accepted one says what its traces say |
| `handoff` | 2 exportable and 2 refused requests, 2 attempts with crashes, 1 reader, with or without a key, an expected author and leave for unsigned exports, 7 changes of a package; 729 outcomes of two attacked scenarios under two arms with or without a lost benign trial, under both designs; 67 504 states | `ExportIsWhole`, `ExportSurvives`, `AcceptedIsExported`, `BenignEarnsNothing`, `NoCompositionContrast` | a reader finds a whole export or none and accepts only one that Lab made; the bridge is not earned by what the arms were tested on, nor by trials without an attack |
| `shelf` | 3 artifacts in a window of 1, 2 seconds, 3 stores, 3 suites and a copy of a built-in one under a ceiling of 1, 2 handler threads, 2 refused file operations or restarts; 4 127 112 states | `RetentionHolds`, `DiskFollows`, `SuitesBounded` | the newest artifacts stay, memory and files agree, the ceiling of the workspace's own suites is exceeded only by requests in flight |
| `pending_inside` | 2 units, re-runs | `NoPendingInCompleted` | violated, section 4 |
| `collected_orphan` | 1 scenario, 1 arm, a remote runtime | `CollectedVerifies` | violated, section 4 |

**Bounds.** In `Workspaces` requests that share no state are not mixed (`Mixes` of
`MCWorkspaces`): tenants with members, logins with payments, guests; the proofs
mix everything. Two threads are the least at which a region of one request falls
between two of another, one organisation and one checkout the least that can be
granted, bought and lapse; a second checkout would race the first only through the
plan, as `Grant` and `Lapse` already do. Three guests let two requests pass one
count at a ceiling of 1 and a third follow.

`PublicationStore` needs none: its state is finite without. One lineage
is enough for TLC, since its two publications are the siblings a takedown has to
retire together; that the other lineages are left alone is in the proofs.
`MaxAttempts` bounds re-runs per trial, `MaxRefusals` the saves the database fails
(those a trace refuses are not counted) and `MaxCrashes` restarts. Two
units are the least at which one is pending while another finishes, three let a
plan be covered while an unplanned unit exists; two threads are the least at which
one finalizer goes on after another has marked the run. A second restart finds
what the first found: all that a restart keeps is the row. Screens do not
interact, so one shows what each of several sees. `MaxQueue = 6` is a snapshot and
two publishes not yet read; `Publish` waits for room, which the unbounded
`SimpleQueue` of the code does not, and fairness never relies on `Publish`.

`MaxSteps = 7` and `MaxToolCalls = 3` let a source be read, a sink called with what it
returned, and both budgets run out, each in either order. In `shelf` three stores in
two seconds make artifacts of one second and of different ones, and one document
stored again; `MaxFaults = 2` is a refusal and a restart anywhere and in either order,
the least at which a file whose removal was refused comes back (the proofs have any
number). In `suite` one attack scenario with a benign one, two arms and two repeats
make every denominator at least 2 and let two traces be exchanged; a second report of
a unit is the attempt of `RuntimeJobs` and replaces the first. In `handoff` the
minimal counts of the statistics are 1, and significance is the sign of the
difference (`MCSignificant`, `MCSeparated`), the most permissive choice: what is
refused, the guards of the design refuse. A reader that has read its files is done
before the directories change again (`Looked`): it does not look at them any more.

**Symmetry.** Handler threads are interchangeable; units are where every plan
treats them alike (`core_retries`), and the workspace's own suites in `shelf`. The runs with temporal
leads-to use none.

**Deadlock** is checked for `publications` and `tenancy`, where it shows little: a
process can always restart. It is not checked for the others, which really stop: a
finished run whose attempts are used up or whose runtime is gone, a trial that was
read again, a package that was sealed again, the last export.

**Fairness.** `ServedSpec` assumes that a finalizing handler thread runs
(`WF(Finalize(w))`: it is a thread of the interpreter and no lock is held for ever)
and that a runtime which claimed a run keeps completing trials
(`WF(SomeTrialCompletes)`), the assumption under which the code promises an end.
Nothing is assumed of operators, retries or restarts. `FairSpec` assumes that a
stream's thread runs: it waits at most 15 s on its queue, writes, and notices a
client that is gone by that write; and that a browser reconnects an `EventSource`.

`FairSpec` of `Workspaces` assumes that a handler thread goes on
(`WF(Continue(t))`), that sessions reach their expiry (`WF(Expire(g))`), that the
provider repeats a payment until it is accepted and the database does not refuse
it for ever (`SF`), and that visitors keep asking for sessions (`SF`). These are
strong because a request needs a free thread of the model, where the server starts
a thread for each; a payment is attempted again only while it is paid for and its
checkout is pending, so nothing is assumed of one that a restart lost.

**What the properties do not say.** `ReportStands` is checked where nothing is
re-run, collection refuses nothing and the shelf does not fail: the code promises no
more (the collection is best-effort), and a superseding completion of a completed run
is not finalized again. `RowIsCurrent` excepts the metrics, which a finalizer changes
in memory before the mark saves them, and the time from a save that raised to the next
one that does not. A restart in that time forgets what memory alone had (`Forgets`),
and `AttemptsSupersede`, `CancelKeepsTrials` and `ImplementsLifecycle` except that one
step. `core_live` assumes that saves succeed (`MaxRefusals = 0`): a run whose save
raised waits for its runtime or an operator to ask again, which nothing obliges. `DoneShowsRun`
holds of runs that are not re-opened after `completed` (`Reopens = FALSE`). `LogKept`
is about entries every key ring in use can verify: an entry whose key was retired is
dropped when the log is loaded and gone from disk with the next attestation.
`AcceptanceKept` assumes that server keys have ids of their own: a key rotated under
the same id (the default is the server's id) makes older acceptances look forged. A
suite that names its scenarios by reference is resolved again at collection without
the registry: its runs complete with no artifact, although
`contracts/lifecycle.md:42` says that `completed` produces one (`FinCollect` has it,
no property asks for more).

`SpentGrantsNothing` is about deliveries that begin once a checkout is spent: two
that both read it while it is pending both grant, one of them possibly after a
lapse. `PaymentLands` excepts checkouts a restart lost. `PlansFollow`
excepts organisations whose provisioning was cut short between the row and the
plan: a later login applies its tier only if it is not the remembered plan, free,
so an organisation on the free tier then stays unlimited. `GuestsHold` is
about sessions that live: a request that outlives its session makes durable stores
for it, and a guest's ingest key has a row like any other.

`RetentionHolds` promises nothing for an artifact that as many others as the window
holds were created after or in the same second (a stable sort evicts the newest stored
of a second), for ids stored again while a pass was about to evict them, and allows
one artifact more for each store whose pass a refused operation or a restart ended,
and one for each file whose removal was refused.
`HonestIsAccepted` is about runs that are `Publishable`: names are given once
(`NamedOnce`), the metrics a suite aggregates are ones its trials record, a rate is of a
metric the traces decide, a number has one estimator, a test is one the lane's trials
carry, and a runtime left no trace of another run, of a failed trial or of foreign
tools. `RunIsThePlan` compares an arm with its units under `NamedOnce` only. `PinTells` is of traces that carry verdicts, `ReplayReproduces` of traces
left alone. `NoCompositionContrast` is about the bridge of a bundle's own arms, and says when
none is earned: a bridge that is earned may stand on pairs that are left after others
were dropped (`cp_export.py:829`), or on proportions pooled over scenarios (908-912).
`BenignEarnsNothing` is of one direction for independent arms (section 4).
`SuitesBounded` leaves out the copies of built-in suites, which the code stores without
asking the plan (section 4).

## 4. Findings

Two runs are expected to fail; each checks one sentence of the repository.

- `pending_inside`: "never `completed` with a pending trial inside it"
  (`runtime_jobs.py:896`). The finalizer's `mark_completed` looks at the state only;
  events re-streamed while it collects leave a pending trial in a completed run.
- `collected_orphan`: the collection binds each trial so that no run is "packaged as
  an artifact that could never be verified" (`dispatch.py:510`). A trial that its
  runtime reported as failed after sending a trace keeps that trace (296-311), and
  `verify_bundle` refuses a trace that no completed trial cites (`bundle.py:421`).

What else was met while modelling, and is in the models without a run of its own:

- A superseding completion of a completed run does not re-open it, although
  `runtime_jobs.py:980` says it does; the report stays that of the older trace.
- A trace with a NUL fails its save after the change in memory; the repeated
  completion is answered as a duplicate and the run is finished in memory only.
- A save that raises leaves the change of any operation in memory. A claim is then
  answered with an error and the run is `running` for a runtime that never got its
  assignment (`runtime_jobs.py:873-876`). The last completion leaves the run
  `analyzing` until its runtime repeats it. The save of `mark_completed` can raise out
  of `finalize_suite_run` (229), whose docstring says that every step is guarded; the
  run is then completed in memory, the row says `analyzing`, and a repetition finds
  nothing to mark and saves nothing.
- A publish that stops before `acceptance.json` leaves a publication whose acceptance
  is minted anew for each reader. A takedown repeated after a failure between
  tombstone and bodies does nothing, and the bodies stay, unserved.
- Two tenants provisioned at once can be given one id (`runtime_jobs.py:2089`).
- A superseding completion keeps the metrics of the attempt before when it brings
  none (`runtime_jobs.py:941`).
- `_swap_into_place` promises the old export or the new one in place; between its two
  replaces there is none in place, and the old one is the backup. `ExportSurvives`
  says exactly that.
- Retention evicts by id from a list it read earlier (`screens.py:531`), so a
  document stored again in between can go; among artifacts of one second it is the
  newest stored that is evicted.
- An experiment's `n` for ASR counts benign scenarios (`experiments.py:188`), which
  the recomputation does not; a `two_proportion` test of a suite without a
  comparison design is refused by the server that published the suite.
- Two estimators of one number of an arm (a mean and a maximum, say) are both compared
  with the estimator found last (`recompute.py:123`; its docstring says each
  aggregate's own estimator is applied), so the honest bundle of such a suite is refused; `Twice` of
  `MCSuiteRun` is one, and `Publishable` excludes it.
- The independent design compares benign failures as well (`cp_export.py:900-907`):
  arms that lost different benign trials are refused a bridge they would earn without
  those scenarios.
- A workspace copy of a built-in suite is saved without asking `require_within`
  (`runtime_jobs.py:1541`: built-in ids "are not workspace suites and are never
  gated"), yet it is stored with the others and counted by `shelf.ids("suite")`. So a
  workspace can store more suites than its plan's `max_suites` with one thread, and a
  copy saved first refuses a suite of its own. `CheckNew` has both; what is bounded is
  the workspace's own suites.
- A source that is sensitive and not untrusted arms the floor in a live run and not
  in replay; a pin under a kernel that does not support the trace is reported as
  unexplained (`regression.py:212`); duplicate scenario names are not refused.

## 5. What is proved

In `RuntimeJobs_proofs`, for all units, plans, traces, threads and bounds
(assumption: `ParamAssumption`, the types of the constants):

| theorem | property | argument |
|---|---|---|
| `TypeCorrect` | `TypeOK` | inductive; one lemma per group of actions |
| `ClaimGate` | `NothingBeforeClaim` | not inductive: a restart takes the state from the row. `ClaimInv` says that a row from before the claim has no trial either, and that without a failed save row and memory agree on being before the claim |
| `StoredRunIsCurrent` | `RowIsCurrent` | inductive with `TypeOK` and `ClaimInv`: every action that changes state, status, trace or attempt saves the whole job or raises `unsaved`, and `FinMetrics` changes none of them |
| `CancelIsFinal` | `CancelKeepsTrials` | from `RowIsCurrent`: a restart of a cancelled run that does not forget reads back a cancelled run |
| `RetriesSupersede` | `AttemptsSupersede` | from `RowIsCurrent`, one case per action that touches a trial; `AbsentInv` says that a unit without an entry has attempt 0 |
| `StoreImplementsLifecycle` | `ImplementsLifecycle` | initial states and every step, with `finished` refined by `FinishedIn(trial)`; a restart that does not forget is a stutter because the row is current |
| `CompletedStandsOnReport` | `ReportStands` | not inductive: `ReportInv` adds, for each finalizer, what it has read and which parts of its report are already on the shelf (`Progress`), that an analyzing run has every result its report needs (`Complete`), that aggregates are those of the trials (`Summed`), and that the row, which may be behind, is the run at an earlier moment with its own report (`RowReports`) |

Only `CompletedStandsOnReport` assumes anything more: `Env = {}` and
`Uncollectable = {}`. Traces the database refuses and saves that fail are in all of them.

In `PublicationStore_proofs`, for all publications, lineages, attestations, key
rings and server keys (assumption: `StoreAssumption`, the types of the constants):

| theorem | property | argument |
|---|---|---|
| `TypeCorrect` | `TypeOK` | inductive |
| `ServedIsLoadable` | `ServedSurvives` | `StoreInv`: retirements are in the registry before they are in memory (`Durable`), the cache holds whole publications (`CachedIsWhole`), and a publication something was promised about stays whole until its evidence is retired (`StaysWhole`) and in memory while it is verifiable (`StaysCached`) |
| `StoreImplementsCatalog` | `ImplementsCatalog` | every operation, failure and restart is a step or a stutter of `Catalog`; a restart cannot forget a retirement, by `Durable` |
| `AcceptancePersists` | `AcceptanceKept` | with `StoreInv`: publish writes only where nothing was promised; assumes `KeyIdsDiffer` |
| `ReproductionsAreEarned` | `ReproductionsEarned` | inductive over disk and memory (`LogInv`) |
| `LogIsKept` | `LogKept` | memory holds what every ring can verify (`LogInMemory`), and publish empties no log that has entries, by `StaysCached` |

In `Workspaces_proofs`, for all tenants, organisations, guests, credentials, plans,
tiers, checkouts, handler threads and mixes of requests (assumption:
`WorkspaceAssumption`: kinds of ids do not overlap, the plans outside the catalog
are not in it, guests and threads are finite):

| theorem | property | argument |
|---|---|---|
| `TypeCorrect` | `TypeOK` | inductive; what a request carries to its next regions is typed with the rest |
| `LapseLosesThePlan` | `LapsedIsFree` | every step leaves an entry alone, copies it between memory and row, or makes one with `Applied` or of a few fixed forms (`RegistrySources`) |
| `RegistrySurvives` | `RegistryIsCurrent` | inductive with `TypeOK`; a restart reads the rows |
| `TiersFailClosed` | `UnlimitedIsInterrupted` | with `AllShaped`: a request that applies a plan applies one and else settles, so that ending it early loses no other |
| `ReplaysGrantNothing` | `SpentGrantsNothing` | queues only shrink while a request goes on (`ContinueQueue`), and only a delivery that finds its checkout pending brings a grant for it (`ArriveGrants`) |
| `GuestsLeaveNoRows` | `LiveGuestIsEphemeral` | inductive with `TypeOK` |
| `CeilingHolds` | `GuestsBounded` | not inductive: `Room` bounds sessions and requests past counting together, and by `AllShaped` a request is past counting only because it counted |
| `PaidFollowsPayment`, `GuestsStayBounded` | `PlansFollow`, `GuestsHold` | the pairs of the facts above that the run checks as one |

In `RunStream_proofs`, for all units, plans, screens and bounds:

| theorem | property | argument |
|---|---|---|
| `StreamTypeCorrect` | – | inductive |
| `NoUpdateIsLost` | `NoLostUpdate` | `StreamInv`: what a queue and the frame being written hold, read in order, brings the view to the run as it is |
| `DoneIsTheRun` | `DoneShowsRun` | with `StreamInv`: progress comes before the state in every queue |

In `Shelf_proofs`, for all artifacts, suites, threads, windows, ceilings and bounds:

| theorem | property | argument |
|---|---|---|
| `CeilingOnSuites` | `SuitesBounded` | not inductive: `Room` bounds the workspace's own suites and the requests past the check together |
| `ShelfTypeCorrect` | – | inductive |
| `DiskAlwaysFollows` | `DiskFollows` | inductive with types: memory holds one document of an id, and each operation that is not refused does the same to both |
| `RetentionAlwaysHolds` | `RetentionHolds` | not inductive: a pass that evicts from an old listing must not be the one that was to make room for another store. `Accounted` says it of every set T of evicting threads: the artifacts no thread of T is about to evict, with the files memory does not know, are at most the window, what is owed and the passes outside T that have not ended. `LatestInv`: a document that is gone, or that a pass has listed, is among those the window does not promise. What a listing puts first is counted (`Rank`), which takes no induction |

In `Handoff_proofs`, for all packages, files, studies, readers, changes on the way and
any number of attempts (assumption: a package has its manifest):

| theorem | property | argument |
|---|---|---|
| `ExportIsAlwaysWhole`, `ExportAlwaysSurvives` | `ExportIsWhole`, `ExportSurvives` | of `DirectorySpec`. `IInv`: what staging holds is the part of the package already written, and at each point of the swap where the old export is |
| `HandoffUsesDirectories` | – | every step of the handoff is a step of the directories or leaves them alone, so both hold of it |
| `AcceptedIsAlwaysExported` | `AcceptedIsExported` | `ReaderKnows`: every file a reader has opened is a file of some export (by `IInv`, whatever was swapped meanwhile), and what it was sent is an export that was changed; since a manifest carries the contents it lists, files that verify are those of its own package |
| `BenignNeverEarns` | `BenignEarnsNothing` | without its benign trials a bundle has the same arms, the same outcomes and the same matched units (`BenignIsApart`); and failures that are symmetric in every scenario are symmetric in those with an attack (`SymmetricWithout`) |
| `NeverACompositionContrast` | `NoCompositionContrast` | `StudyIsComplete`: a study whose analysis did not raise has an outcome for all it compares; then an arm that lowered the violations of no scenario did not lower the whole, for pairs because each was in one scenario (`MatchedNeedsHelp`), and for pooled arms because an earned bridge needs as many trials of each scenario in both (`NoClassSmaller`) |

In `AgentLoop_proofs`, for all tools, proposals, kernels, budgets and arms:

| theorem | property | argument |
|---|---|---|
| `TraceIsAlwaysWhatRan` | `TraceIsWhatRan` | `LoopInv`: an event's place is its number and a decision follows its intent, a value's place is its id, and what ran is, in order, the intents that were executed (`InOrder`), so that the budgets count events |
| `UntouchedReplays` | `ReplayReproduces` | `SessionInv` ties the trace to the session that made it: at every event of the trace, a replay holds tainted what the governor held then and no more, and its floor is up when the governor's was. `ReplayedTo` carries this along the pass |
| `PinsAlwaysTell` | `PinTells` | the same, stopped at the pinned call |
| `AMatchIsAlwaysWhatRan` | `MatchMeansRan` | events that were rearranged keep each call with its own decision, and a call without its id is read as no call; a decision that was changed is refuted where it is read (`ChangeIsRead`) and stays refuted (`StaysRefuted`) |
| `ChainIsAlwaysOneCall` | `ChainIsOneCall` | from `LoopInv`, and the assumption `Egress \subseteq Driven`: an exporting call with no driving argument that was denied has an empty provenance, and no chain to it |

`UntouchedReplays`, `PinsAlwaysTell` and `AMatchIsAlwaysWhatRan` assume
`Sensitive \subseteq Untrusted`: a source that is sensitive and not untrusted arms the
floor in a live run and not in a replay (section 4), and all three are false. The
theorems about a trace that is read again are of `RereadingSpec`. What replay does of
a trace is a recursive function over its events; `ReplayIsAPass` shows it well
defined, and induction along it goes through `Counting` (a set of numbers without a
least element is empty), since the induction theorems of the library take an operator.

In `SuiteRun_proofs`, for all submissions, behaviours, measurements, seeds, kernels
and bounds (assumptions: `SubmissionAssumption` and `MinimumAssumption`, the types of
a submission and of the least sample; `MeasurementAssumption`, that a number is an
integer and some behaviour succeeds; `NoneAssumption`, that `None` stands for no
digest, hash or predicate):

| theorem | property | argument |
|---|---|---|
| `VerifiedIsCounted` | – | of any bundle and finite set of traces: verification makes the completed trials and the traces a bijection that keeps coordinates, so a count over trials is one over traces, under any selection (`OneTrialToATrace`, `CountedOnTraces`) |
| `AcceptanceIsEarned` | `AcceptedFollowsEvidence` | `VerifiedIsCounted`, and the invariant `FiniteEvidence`: no lane and no change makes infinitely many traces |
| `PassedIsMeasured` | `UnevaluableNeverPasses` | `RulesAreChecked`: what a run concluded of a rule is what `check_invariant` says of its trials |
| `RunIsAlwaysThePlan` | `RunIsThePlan` | not inductive. `RunInv`: the trials of a run follow the plan from its first unit, whatever the lane; `ReportsFit`: what a runtime can have sent, whatever it sends, never holds a verdict under a reserved name; `EvidenceFits`: a trial that completed has a trace of its own unit, under its arm's kernel and with the hash Lab computes; `TotalsAreOfTheRun`: the numbers are those of the trials. That no arm loses a unit takes the plan to be injective (`PlanFacts`), where names are given once |
| `HonestIsAlwaysAccepted` | `HonestIsAccepted` | the same invariants, and `HonestPackage`: until it is changed a package is the bundle of its run. Then each check of `verify_bundle` holds (`HonestIsVerified`), and each number is found again (`HonestAggregatesHold`): trials and traces are in a bijection under which a count (`CountUnderBijection`), a McNemar test (`McNemarUnderBijection`) and a sum, mean or extreme (`NumbersUnderBijection`) are the same, though a suite pairs trials by scenario and repeat and the server by the rows of a bundle (`TestsAgree`) |

The plan is flattened and the numbers are summed by recursive functions of the community
modules. `FlattenIsAPass` and `SumIsAPass` show them well defined, and from there
`Flattened` (a flattened list of disjoint injective lists is injective) and
`SumUnderBijection` (a sum does not depend on what it is indexed by) follow through
`Counting`, as above.

Only model-checked:

- `ScoresWhatRan`: predicates are data, and `Predicates` is recursive over them;
- all liveness: fairness and ENABLED are outside this prover.

## 6. What is not modelled, and why

The list is `components` in `PROJECT.json`. Of the run store itself: the routes that
only read (lists, results, exports), `plan_experiment`, the registration of runtimes
beyond one ingest key being known, the pool of hosted runtimes. Of workspaces: roles
and the audit log. Of the shelf: evidence and regressions apart from artifacts, and
the database backend, which follows the same order. The authoring of suites in Python
and YAML, case files, live model adapters, reports, packages, incidents and the
conversions of external benchmarks are sequential functions without state. Real
arithmetic (intervals, p-values) is outside TLC and the provers, so its results are
uninterpreted. The kernel and the value ledger are axor-core's and external. The CLI,
the pages and the web application but for the run hook render what is modelled.

## 7. What could follow

The database backend of the shelf beside the file one; the hosted runtime pool in
`Workspaces`.
