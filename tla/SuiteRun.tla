------------------------------ MODULE SuiteRun ------------------------------
(***************************************************************************)
(* From a manifest to published numbers.  A suite runs in process          *)
(* (lab_suite/execute.py), as an experiment (governance runner.py,         *)
(* lab_service/experiments.py), or on a runtime Lab does not trust, whose  *)
(* reports dispatch.py collects.  All three end in a bundle, which an      *)
(* uploader may change before the server verifies and recomputes it.       *)
(***************************************************************************)
EXTENDS Bundle, TLC

CONSTANTS
    Submissions,    \* <<manifest, lane>>; a lane is "suite", "experiment" or "remote"
    Behaviours,     \* what an agent may do: [facts, verdicts, acted, tools, reads]
    Measurements,   \* what a runtime may report beside a trace
    Seeds, Kernels, \* what a runtime may put in a trace instead
    MaxAttempts     \* reports of one unit (bound)

VARIABLES
    manifest, lane,
    phase,          \* "submitted", "refused", "running", "ran", "packaged", "read"
    reports,        \* the runtime's reports, by unit: RuntimeJobStore.results
    result,         \* the SuiteRun
    package         \* the bundle with its traces, and whether it was sealed again

vars == <<manifest, lane, phase, reports, result, package>>

resolved == Resolved(manifest)
Plan == PlanOf(resolved, lane)
arms == Arms(resolved, lane)
ScenarioOf(u) == CHOOSE s \in Range(resolved.scenarios) : s.name = u.scenario
ConditionOf(u) == CHOOSE c \in Range(arms) : c.id = u.condition

(* Names are given once.  Nothing checks it before a run; two units of one  *)
(* name would be one trial, and verify_bundle refuses the bundle.           *)
NamedOnce ==
    /\ IsInjective([i \in DOMAIN resolved.scenarios |-> resolved.scenarios[i].name])
    /\ IsInjective([i \in DOMAIN arms |-> arms[i].id])

ASSUME SubmissionAssumption ==
    \A s \in Submissions :
        LET m == s[1]
        IN  /\ s[2] \in {"suite", "experiment", "remote"} /\ m.repeats \in Nat
            /\ m.scenarios \in Seq(Range(m.scenarios)) /\ m.refs \in Seq(Range(m.refs))
            /\ m.conditions \in Seq(Range(m.conditions))

(* a number is an integer, and some agent succeeds at its task *)
ASSUME MeasurementAssumption ==
    /\ \A d \in Behaviours : d.reads \in Int
    /\ \E d \in Behaviours : "task_success" \in d.facts
    /\ \A metrics \in Measurements : \A k \in DOMAIN metrics :
            IsNum(metrics[k]) => metrics[k].v \in Int

(* None is no digest and no predicate *)
ASSUME NoneAssumption ==
    /\ None \notin {"task_success", "violation"}
    /\ \A s \in {x \in Submissions : Resolvable(x[1])} :
            LET r == Resolved(s[1])
            IN  \A scenario \in Range(r.scenarios), c \in Range(Arms(r, s[2])) :
                    None \notin {WorldDigest(scenario), RuntimeConfigHash(c, scenario)}

Flag(v) == [t |-> "bool", v |-> v]
Num(v) == [t |-> "num", v |-> v]

NoRun == [trials |-> <<>>, traces |-> {}, aggregates |-> {}, invariants |-> <<>>, conditions |-> <<>>]

Init ==
    /\ \E s \in Submissions : manifest = s[1] /\ lane = s[2]
    /\ phase = "submitted" /\ reports = <<>> /\ result = NoRun /\ package = None

----------------------------------------------------------------------------
(* plan_suite, build_assignment, run_suite: a suite that is not valid, or   *)
(* that nothing could run, is refused before anything happens               *)
Submit ==
    /\ phase = "submitted"
    /\ IF Resolvable(manifest) /\ ~Blocked(manifest, lane)
       THEN phase' = "running" /\ result' = [NoRun EXCEPT !.conditions = arms]
       ELSE phase' = "refused" /\ UNCHANGED result
    /\ UNCHANGED <<manifest, lane, reports, package>>

(* the trace of a unit, as the toolset or a wrapped agent records it; a     *)
(* trace of a condition without a kernel has no verdicts                    *)
TraceOf(u, seed, kernel, did) ==
    [trial |-> <<"run", u.scenario, u.condition, seed, u.repeat>>, kernel |-> kernel,
     digest |-> WorldDigest(ScenarioOf(u)), mode |-> "wrapped_code",
     acted |-> did.acted, tools |-> did.tools,
     verdicts |-> IF kernel = None THEN <<>> ELSE did.verdicts,
     facts |-> did.facts, reads |-> did.reads]
UnitOf(trace) ==
    [scenario |-> trace.trial[2], condition |-> trace.trial[3], repeat |-> trace.trial[5]]

Record(u, seed) ==
    LET at == <<"run", u.scenario, u.condition, seed, u.repeat>>
    IN  [id |-> at, scenario |-> u.scenario, condition |-> u.condition, seed |-> seed,
         repeat |-> u.repeat, execution |-> "run", status |-> "failed", ref |-> None,
         metrics |-> <<>>, hash |-> None, marker |-> None]

(* _evaluated: what the scenario's predicates say of the trace *)
Verdicts(s, trace) ==
    [m \in {"task_success"} \cup (IF s.violation THEN {"ASR"} ELSE {}) |->
        Flag(Evaluate(IF m = "ASR" THEN "violation" ELSE "task_success", trace))]
HookMetrics(trace) == [reads |-> Num(trace.reads)]      \* metrics_for, as budget.py's

(* the first over the second, where both name a metric *)
Merged(over, under) ==
    [m \in DOMAIN over \cup DOMAIN under |-> IF m \in DOMAIN over THEN over[m] ELSE under[m]]

----------------------------------------------------------------------------
(* _run_one: the next unit of the plan runs, or raises; a bad trial does    *)
(* not sink the run                                                         *)
RunUnit ==
    LET u == Plan[Len(result.trials) + 1]
        c == ConditionOf(u)
        seed == SeedFor(resolved, lane, u.repeat)
        base == Record(u, seed)
        governed == c.kernel # None
        completed(trace) ==
            [base EXCEPT !.status = "completed", !.ref = trace,
                !.metrics = IF lane = "suite" THEN Merged(Verdicts(ScenarioOf(u), trace), HookMetrics(trace))
                            ELSE [tool_calls |-> Num(trace.reads)],
                !.hash = IF governed THEN RuntimeConfigHash(c, ScenarioOf(u)) ELSE None,
                !.marker = IF governed THEN "recorded_at_execution" ELSE None]
    IN  /\ phase = "running" /\ lane # "remote" /\ Len(result.trials) < Len(Plan)
        /\ \/ result' = [result EXCEPT !.trials = Append(@, base)]
           \/ \E did \in Behaviours :
                LET trace == TraceOf(u, seed, c.kernel, did)
                IN  /\ "violation" \in did.facts => ScenarioOf(u).violation
                    /\ result' = [result EXCEPT !.trials = Append(@, completed(trace)),
                                                !.traces = @ \cup {trace}]
        /\ UNCHANGED <<manifest, lane, phase, reports, package>>

----------------------------------------------------------------------------
(* The runtime's side.  complete_trial keeps the measurements and the hash  *)
(* of an earlier attempt when this one reports none.                        *)
Silent == [status |-> "pending", trace |-> None, metrics |-> <<>>, hash |-> None,
           attempts |-> 0]
Reported(u) == IF u \in DOMAIN reports THEN reports[u] ELSE Silent

(* RESERVED_METRICS: a verdict is never taken from the runtime *)
Sanitize(metrics) == [k \in DOMAIN metrics \ {"task_success", "ASR"} |-> metrics[k]]

(* what an untrusted runtime may send for u: its trace, or one that names   *)
(* another seed, kernel or unit, which Lab may not have planned             *)
Sendable(u) ==
    LET seed == SeedFor(resolved, lane, u.repeat)
        kernel == ConditionOf(u).kernel
        did == CHOOSE d \in Behaviours : "task_success" \in d.facts
        own == TraceOf(u, seed, kernel, did)
    IN  {TraceOf(u, seed, kernel, d) :
            d \in {x \in Behaviours : "violation" \in x.facts => ScenarioOf(u).violation}}
        \cup {TraceOf(u, other, kernel, did) : other \in Seeds}
        \cup {TraceOf(u, seed, other, did) : other \in Kernels}
        \cup {[own EXCEPT !.trial[3] = c] : c \in {"unplanned"} \cup {v.condition : v \in Range(Plan)}}

CompleteTrial(u, status, trace, metrics, hash) ==
    LET old == Reported(u)
    IN  /\ old.attempts < MaxAttempts
        /\ status = "completed" => trace # None
        /\ old.status # "pending" => <<old.status, old.trace>> # <<status, trace>>
        /\ LET report == [status |-> status, trace |-> trace,
                    metrics |-> IF metrics = <<>> THEN old.metrics ELSE Sanitize(metrics),
                    hash |-> IF hash = None THEN old.hash ELSE hash, attempts |-> old.attempts + 1]
           IN  reports' = [v \in DOMAIN reports \cup {u} |-> IF v = u THEN report ELSE reports[v]]
        /\ UNCHANGED <<manifest, lane, phase, result, package>>

(* a retry's first events put the unit in flight again *)
Restart(u) ==
    /\ Reported(u).status # "pending" /\ Reported(u).attempts < MaxAttempts
    /\ reports' = [reports EXCEPT ![u].status = "pending", ![u].trace = None]
    /\ UNCHANGED <<manifest, lane, phase, result, package>>

----------------------------------------------------------------------------
(* collect_suite_run.  Of two traces of one unit the later report is kept.  *)
Sent == {reports[u].trace : u \in DOMAIN reports} \ {None}
SentFor(u) == {t \in Sent : UnitOf(t) = u}

(* _require_wrapped *)
Wrapped(trace) == ConditionOf(UnitOf(trace)).kernel = trace.kernel

(* _config_fingerprint: recomputed, and the runtime's own compared *)
ExpectedHash(u) ==
    IF ConditionOf(u).kernel = None THEN None
    ELSE RuntimeConfigHash(ConditionOf(u), ScenarioOf(u))
Admitted(u) == Reported(u).status # "failed" /\ SentFor(u) # {}

(* _collected_metrics: Lab's verdicts over the measurements over the hook's *)
CollectedMetrics(u, trace) ==
    Merged(Verdicts(ScenarioOf(u), trace), Merged(Reported(u).metrics, HookMetrics(trace)))

\* Mutant of CollectedTrial: a failed trial keeps its metrics.
FailedKeepsMetrics(u, trace) ==
    LET base == Record(u, <<"s", u.repeat>>)
        report == Reported(u)
    IN  IF trace = None \/ report.status = "failed" THEN [base EXCEPT !.metrics = report.metrics]
        ELSE [base EXCEPT !.status = "completed", !.ref = trace,
                !.metrics = CollectedMetrics(u, trace),
                !.hash = ExpectedHash(u), !.marker = "recorded_at_execution"]
CollectedTrial(u, trace) ==
    LET base == Record(u, <<"s", u.repeat>>)
        report == Reported(u)
    IN  IF trace = None THEN base
        ELSE IF report.status = "failed" THEN [base EXCEPT !.ref = trace]
        ELSE [base EXCEPT !.status = "completed", !.ref = trace,
                !.metrics = CollectedMetrics(u, trace),
                !.hash = ExpectedHash(u),
                !.marker = IF ExpectedHash(u) = None THEN None
                           ELSE IF report.hash # None THEN "recorded_at_execution"
                           ELSE "reconstructed_legacy"]

Collectable ==
    /\ \A t \in Sent : UnitOf(t) \in Range(Plan) /\ Wrapped(t)
    /\ \A u \in Range(Plan) : Admitted(u) /\ ExpectedHash(u) # None
            => Reported(u).hash \in {None, ExpectedHash(u)}

(* every unit was reported: the finalizer collects *)
Collect ==
    /\ phase = "running" /\ lane = "remote"
    /\ \A u \in Range(Plan) : Reported(u).status # "pending"
    /\ IF Collectable
       THEN \E kept \in {f \in [Range(Plan) -> Sent \cup {None}] :
                    \A u \in Range(Plan) : IF SentFor(u) = {} THEN f[u] = None ELSE f[u] \in SentFor(u)} :
            /\ result' = [result EXCEPT
                    !.trials = [i \in DOMAIN Plan |-> CollectedTrial(Plan[i], kept[Plan[i]])],
                    !.traces = {kept[u] : u \in Range(Plan)} \ {None}]
            /\ UNCHANGED phase
       ELSE phase' = "refused" /\ UNCHANGED result
    /\ Len(result.trials) = 0
    /\ UNCHANGED <<manifest, lane, reports, package>>

----------------------------------------------------------------------------
(* _aggregate: per aggregation and arm, over completed trials only; a flag  *)
(* is counted, a number estimated, and an arm without either is left out    *)
Done(trials) == {t \in trials : t.status = "completed"}
FlagsOf(metric, cid, trials) ==
    {t \in trials : /\ t.condition = cid /\ metric \in DOMAIN t.metrics /\ IsBool(t.metrics[metric])}
TrueOf(metric, trials) == {t \in trials : t.metrics[metric].v}

Baseline(conditions) ==
    LET off == {i \in DOMAIN conditions : conditions[i].enforcement = "off"}
    IN  IF off = {} THEN None ELSE conditions[Min(off)].id

(* _comparison_test, over the units both arms have *)
ComparisonTest(kind, metric, base, treated) ==
    LET key(t) == <<t.scenario, t.repeat>>
        shared == {key(t) : t \in base} \cap {key(t) : t \in treated}
        value(arm, k) == (CHOOSE t \in arm : key(t) = k).metrics[metric].v
        vs == (CHOOSE t \in base : TRUE).condition
    IN  IF shared = {} THEN {}
        ELSE IF kind = "mcnemar"
        THEN {McNemar([k \in shared |-> <<value(base, k), value(treated, k)>>], vs)}
        ELSE {TwoProportion(Cardinality(TrueOf(metric, base)), Cardinality(base),
                            Cardinality(TrueOf(metric, treated)), Cardinality(treated), vs)}

AggregateOf(spec, c, trials, baseline) ==
    LET flags == FlagsOf(spec.metric, c.id, trials)
        at == {t \in trials : /\ t.condition = c.id /\ spec.metric \in DOMAIN t.metrics
                              /\ IsNum(t.metrics[spec.metric])}
        tests == IF spec.test \in ComparisonTests /\ baseline \notin {None, c.id}
                 THEN ComparisonTest(spec.test, spec.metric,
                                     FlagsOf(spec.metric, baseline, trials), flags)
                 ELSE {}
    IN  IF spec.fn = "rate"
        THEN IF flags = {} THEN {}
             ELSE {BinaryAggregate(spec.metric, c.id, Cardinality(TrueOf(spec.metric, flags)),
                                   Cardinality(flags), {}, tests)}
        ELSE IF at = {} \/ spec.fn \notin Estimators THEN {}
        ELSE {NumericAggregate(spec.metric, c.id, [t \in at |-> t.metrics[spec.metric].v], spec.fn)}

Aggregate(run) ==
    UNION {AggregateOf(spec, c, Done(Range(run.trials)), Baseline(run.conditions)) :
              spec \in resolved.aggregations, c \in Range(run.conditions)}

(* compute_aggregates of an experiment: its own two metrics, from outcomes; *)
(* a benign scenario's outcome has no violation.  Its design is declared or *)
(* goes by the agent (effective_design); one that contradicts the agent is  *)
(* refused when the numbers are made, after every trial has run.            *)
Design ==
    IF resolved.design # None THEN resolved.design
    ELSE IF resolved.deterministic THEN "matched_pairs" ELSE "independent_samples"
DesignIsRefused ==
    lane = "experiment" /\ resolved.design = "matched_pairs" /\ ~resolved.deterministic
ComputeAggregates(run) ==
    LET done == Done(Range(run.trials))
        baseline == Baseline(run.conditions)
        of(field, c) == {t \in Arm(done, c) : Evaluate(field, t.ref)}
        sample(metric, c, tests) ==
            BinaryAggregate(metric, c, Cardinality(of(Derived(metric), c)),
                            Cardinality(Arm(done, c)), {Design}, tests)
        tested(c) == IF baseline \in {None, c} \/ Arm(done, baseline) = {} THEN {}
                     ELSE {RecomputeTest(done, "violation", baseline, c, Design)}
        arm == {c.id : c \in Range(run.conditions)} \cap {t.condition : t \in done}
    IN  {sample("ASR", c, tested(c)) : c \in arm} \cup {sample("utility", c, {}) : c \in arm}

(* once every unit has a trial: the numbers, then the suite's invariants *)
Conclude ==
    LET aggregates == IF lane = "experiment" THEN ComputeAggregates(result) ELSE Aggregate(result)
    IN  /\ phase = "running" /\ Len(result.trials) = Len(Plan) /\ phase' = "ran"
        /\ ~DesignIsRefused
        /\ result' = [result EXCEPT !.aggregates = aggregates,
                !.invariants = IF lane = "experiment" THEN <<>>
                               ELSE [r \in resolved.regressions |->
                                        CheckInvariant(r, Range(result.trials), result.traces,
                                                       resolved.evaluators)]]
        /\ UNCHANGED <<manifest, lane, reports, package>>

(* What raises outside the try around one trial ends the whole run, and     *)
(* what it has so far is lost: a gate that cannot be built, a suite's hook  *)
(* (metrics_for, evidence_for, regressions_for), a refused design.          *)
RunRaises ==
    /\ phase = "running"
    /\ IF lane = "remote" THEN \A u \in Range(Plan) : Reported(u).status # "pending"
       ELSE Len(result.trials) < Len(Plan) \/ DesignIsRefused
    /\ phase' = "refused"
    /\ UNCHANGED <<manifest, lane, reports, result, package>>

(* the environments of execute_suite_run, build_environment and             *)
(* _run_environment                                                         *)
Environment ==
    [provider |-> CASE lane = "remote" -> "connected_runtime"
                    [] lane = "suite" -> "scripted"
                    [] OTHER -> IF resolved.deterministic THEN "scripted" ELSE "live",
     kernels |-> IF lane = "experiment" THEN {c.kernel : c \in Range(arms)} ELSE None,
     provenance |-> None]

MakeBundle ==
    /\ phase = "ran"
    /\ package' = [bundle |-> BuildBundle(result, resolved, Environment),
                   traces |-> result.traces, changed |-> FALSE]
    /\ phase' = "packaged"
    /\ UNCHANGED <<manifest, lane, reports, result>>

----------------------------------------------------------------------------
(* an uploader's changes to a package, sealed again or not *)
Without(seq, i) == SubSeq(seq, 1, i - 1) \o SubSeq(seq, i + 1, Len(seq))
(* a trial stands on the evidence of another *)
Faked(trials, i, j) ==
    [trials EXCEPT ![i].status = "completed", ![i].ref = trials[j].ref, ![i].hash = trials[j].hash]
(* two trials trade their evidence, and their arms the numbers *)
Exchanged(trials, i, j) ==
    [trials EXCEPT ![i].ref = trials[j].ref, ![i].metrics = trials[j].metrics,
                   ![j].ref = trials[i].ref, ![j].metrics = trials[i].metrics]
Relabelled(aggregates, c, d) ==
    {[a EXCEPT !.condition = CASE @ = c -> d [] @ = d -> c [] OTHER -> @] : a \in aggregates}
CompletedAt(b) == {i \in DOMAIN b.trials : b.trials[i].status = "completed"}
WithTrials(p, seq) == [p EXCEPT !.bundle.trials = seq]

TrialLost(p) == {WithTrials(p, Without(p.bundle.trials, i)) : i \in DOMAIN p.bundle.trials}
TrialFaked(p) ==
    {WithTrials(p, Faked(p.bundle.trials, i, j)) :
        i \in DOMAIN p.bundle.trials, j \in CompletedAt(p.bundle)}
ArmsSwapped(p) ==
    {[WithTrials(p, Exchanged(p.bundle.trials, i, j)) EXCEPT !.bundle.aggregates =
            Relabelled(@, p.bundle.trials[i].condition, p.bundle.trials[j].condition)] :
        i \in CompletedAt(p.bundle), j \in CompletedAt(p.bundle)}
MarkerRaised(p) ==
    {WithTrials(p, [p.bundle.trials EXCEPT ![i].marker = "recorded_at_execution"]) :
        i \in CompletedAt(p.bundle)}
TraceLost(p) == {[p EXCEPT !.traces = @ \ {t}] : t \in p.traces}
TraceForged(p) ==
    {[p EXCEPT !.traces = (@ \ {t}) \cup {[t EXCEPT !.facts = {"task_success"}]}] : t \in p.traces}
CountRaised(p) ==
    {[p EXCEPT !.bundle.aggregates = (@ \ {a}) \cup {[a EXCEPT !.n = @ + 1]}] : a \in p.bundle.aggregates}
RateCleared(p) ==
    {[p EXCEPT !.bundle.aggregates = (@ \ {a}) \cup
            {[a EXCEPT !.estimate = <<0, a.n>>, !.interval = <<"wilson", 0, a.n>>]}] : a \in p.bundle.aggregates}
ProviderClaimed(p) == {[p EXCEPT !.bundle.environment.provider = "scripted"]}
ProvenanceClaimed(p) ==
    IF p.bundle.environment.provenance = None THEN {}
    ELSE {[p EXCEPT !.bundle.environment.provenance = [@ EXCEPT !.status = "recorded_at_execution"]]}

Doctored(p) ==
    TrialLost(p) \cup TrialFaked(p) \cup ArmsSwapped(p) \cup MarkerRaised(p)
        \cup TraceLost(p) \cup TraceForged(p) \cup CountRaised(p) \cup RateCleared(p)
        \cup ProviderClaimed(p) \cup ProvenanceClaimed(p)

Change ==
    /\ phase = "packaged" /\ ~package.changed
    /\ \E p \in Doctored(package) \ {package} : package' = [p EXCEPT !.changed = TRUE]
    /\ UNCHANGED <<manifest, lane, phase, reports, result>>

SealAgain ==
    /\ phase = "packaged" /\ package.changed
    /\ package.bundle # Seal(package.bundle, package.traces)
    /\ package' = [package EXCEPT !.bundle = Seal(@, package.traces)]
    /\ UNCHANGED <<manifest, lane, phase, reports, result>>

Runtime ==
    /\ phase = "running" /\ lane = "remote"
    /\ \E u \in Range(Plan) :
        \/ Restart(u)
        \/ \E status \in {"completed", "failed"}, trace \in Sendable(u) \cup {None},
              metrics \in Measurements, hash \in {None, ExpectedHash(u), <<"governs", "other">>} :
                CompleteTrial(u, status, trace, metrics, hash)

Next ==
    \/ Submit \/ RunUnit \/ Runtime \/ Collect \/ RunRaises
    \/ Conclude \/ MakeBundle \/ Change \/ SealAgain

Spec == Init /\ [][Next]_vars

----------------------------------------------------------------------------
Ran == phase \in {"ran", "packaged"}
Trials == Range(result.trials)
Accepted == phase = "packaged" /\ VerifyBundle(package.bundle, package.traces)
                /\ AggregatesHold(package.bundle, package.traces)

(* Every planned unit is in the run exactly once, whatever became of it, a  *)
(* number counts no unit that did not complete, and what is missing from an *)
(* arm is in the missingness shown beside it (dispatch.py, execute.py,      *)
(* stats.py missingness).                                                   *)
DenominatorKept ==
    Ran =>
        /\ [i \in DOMAIN result.trials |-> UnitOf([trial |-> result.trials[i].id])] = Plan
        /\ \A agg \in result.aggregates :
                LET arm == Missingness(Trials).by_condition[agg.condition]
                IN  /\ agg.n <= arm[1]
                    /\ NamedOnce => arm[2] = Cardinality({u \in Range(Plan) : u.condition = agg.condition})
        /\ \A t \in Missing(Trials) : t.metrics = <<>>

(* A suite that exits clean evaluated every rule on every completed trial   *)
(* in its scope: no rule passes over a value that was not measured, an      *)
(* evaluator nobody declared or a trial that did nothing (invariants.py).   *)
UnevaluableNeverPasses ==
    Ran /\ lane # "experiment" =>
        \A r \in DOMAIN result.invariants :
            LET scoped == {t \in Done(Trials) : InScope(r, t)}
            IN  result.invariants[r].status = "passed" =>
                    /\ scoped # {} /\ result.invariants[r].checked = Cardinality(scoped)
                    /\ r.kind = "metric_threshold" =>
                            \A t \in scoped : r.metric \in DOMAIN t.metrics /\ IsNum(t.metrics[r.metric])
                    /\ r.kind = "predicate" => \A t \in scoped : t.ref.acted
                    /\ r.kind = "evaluator_outcome" =>
                            \E e \in resolved.evaluators : e.id = r.evaluator

(* What is collected is what Lab assigned: a completed trial's trace is of  *)
(* its unit and under its arm's kernel, its config hash the one the         *)
(* assignment compiles to, and its verdict the trace's, whatever the        *)
(* runtime said (dispatch.py).                                              *)
CollectedIsAssigned ==
    Ran /\ lane = "remote" =>
        \A t \in Done(Trials) :
            LET u == UnitOf([trial |-> t.id])
            IN  /\ UnitOf(t.ref) = u /\ t.ref.kernel = ConditionOf(u).kernel
                /\ t.hash = ExpectedHash(u)
                /\ {"task_success", "ASR"} \cap DOMAIN t.metrics = DOMAIN Verdicts(ScenarioOf(u), t.ref)
                /\ \A m \in {"task_success", "ASR"} \cap DOMAIN t.metrics :
                        t.metrics[m] = Flag(Evaluate(Derived(m), t.ref))

(* The run that is published is the plan: every unit once, each completed   *)
(* one on the evidence of the trial it was planned to be.                   *)
RunIsThePlan == DenominatorKept /\ CollectedIsAssigned

(* What a submission and its runtime must keep to for that: names are given *)
(* once; the metrics it aggregates are the recorded ones (recompute.py also *)
(* derives "utility" and "task_success_rate", which no trial records), a    *)
(* rate is of a metric the traces decide, a number has one estimator, its   *)
(* test is one the lane's trials can carry; and every collected trace is of *)
(* this run, of a trial that completed and of the tools of the suite.       *)
Publishable ==
    /\ NamedOnce
    /\ \A spec \in resolved.aggregations :
            /\ spec.metric \notin {"utility", "task_success_rate"}
            /\ spec.fn = "rate" => Derived(spec.metric) # None
            /\ \A other \in resolved.aggregations :
                    other.metric = spec.metric /\ {spec.fn, other.fn} \subseteq Estimators
                        => other.fn = spec.fn
            /\ IF lane = "suite" THEN spec.test # "two_proportion" ELSE spec.test = "none"
    /\ \A t \in Trials : t.ref # None => t.status = "completed" /\ t.ref.trial = t.id
    /\ \A trace \in result.traces : trace.tools \subseteq resolved.tools

(* An untouched bundle of a publishable run is accepted: the server's       *)
(* verification and its recomputation agree with the two lanes that made it *)
(* (bundle.py verify_bundle, recompute.py).                                 *)
HonestIsAccepted ==
    phase = "packaged" /\ ~package.changed /\ lane # "experiment" /\ Publishable => Accepted

(* Whatever was done to a package, sealed again or not, if it is accepted   *)
(* then each derived number is a count over the traces by the coordinates   *)
(* their producers recorded, one trace to a unit, and the bundle claims     *)
(* that its configuration was recorded at execution only if every governed  *)
(* trial does.                                                              *)
AcceptedFollowsEvidence ==
    Accepted =>
        LET b == package.bundle
            of(agg) == {t \in package.traces :
                            /\ t.trial[3] = agg.condition
                            /\ Derived(agg.metric) = "violation" =>
                                    \E s \in b.scenarios : s.name = t.trial[2] /\ s.violation}
        IN  /\ \A agg \in {a \in b.aggregates : Derived(a.metric) # None} :
                    agg.estimate = <<Cardinality({t \in of(agg) : Derived(agg.metric) \in t.facts}),
                                     Cardinality(of(agg))>>
            /\ Cardinality(Completed(b)) = Cardinality(package.traces)
            /\ b.environment.provenance # None
                 /\ b.environment.provenance.status = "recorded_at_execution" =>
                    \A t \in Governed(b) : t.marker = "recorded_at_execution"

(* dispatch.py 508-512: a run was collected, aggregated and packaged "that  *)
(* could never be verified"; the fingerprint was added so that it can be.   *)
CollectedVerifies ==
    phase = "packaged" /\ lane = "remote" /\ ~package.changed =>
        VerifyBundle(package.bundle, package.traces)
=============================================================================
