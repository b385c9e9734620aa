------------------------------- MODULE Bundle -------------------------------
(***************************************************************************)
(* bundle/v1: how a run is sealed, what an upload must satisfy             *)
(* (lab_contracts/bundle.py), and how the server recomputes its numbers    *)
(* (lab_server/recompute.py).                                              *)
(*                                                                         *)
(* A trace is [trial, kernel, digest, mode, acted, tools, verdicts, facts],*)
(* trial the coordinates its producer recorded and `acted` whether it has  *)
(* events; a trial record is [id, scenario, condition, seed, repeat,       *)
(* execution, status, ref, metrics, hash, marker].  A content hash is the  *)
(* content itself, so `ref` is the trace.                                  *)
(***************************************************************************)
EXTENDS Invariants

(* runtime_config_hash and world_digest: external digests; the version of   *)
(* the compiler is the build's                                              *)
CompilerVersion == "axor-governor-config/v1"
RuntimeConfigHash(condition, scenario) == <<"governs", condition.kernel, scenario.world>>
WorldDigest(scenario) == <<"world", scenario.world>>

Completed(b) == {t \in Range(b.trials) : t.status = "completed"}
ScenariosOf(b, t) == {s \in b.scenarios : s.name = t.scenario}
ConditionsOf(b, t) == {c \in b.conditions : c.id = t.condition}

----------------------------------------------------------------------------
(* config_provenance: the hash of every governed coordinate, recorded or    *)
(* reconstructed, and what may be said of them together                     *)
Governed(b) ==
    {t \in Completed(b) : /\ ScenariosOf(b, t) # {}
                          /\ \E c \in ConditionsOf(b, t) : c.kernel # None}
HashOf(b, t) ==
    IF t.hash # None THEN t.hash
    ELSE CHOOSE h \in {RuntimeConfigHash(c, s) : c \in ConditionsOf(b, t), s \in ScenariosOf(b, t)} : TRUE
MarkerOf(t) ==
    IF t.hash # None /\ t.marker \in {"recorded_at_execution", "reconstructed_incident"}
    THEN t.marker ELSE "reconstructed_legacy"

Diverges(b) ==
    \E t, u \in Governed(b) :
        t.scenario = u.scenario /\ t.condition = u.condition /\ HashOf(b, t) # HashOf(b, u)

ConfigProvenance(b) ==
    LET markers == {MarkerOf(t) : t \in Governed(b)}
    IN  IF markers = {} THEN None
        ELSE [compiler |-> CompilerVersion,
              status |-> IF Cardinality(markers) = 1 THEN CHOOSE m \in markers : TRUE
                         ELSE "reconstructed_legacy",
              hashes |-> {<<t.scenario, t.condition, HashOf(b, t)>> : t \in Governed(b)}]

----------------------------------------------------------------------------
(* build_bundle: it raises when the trials diverge, and derives the         *)
(* provenance itself                                                        *)
Contents(b, traces) ==
    {<<"scenario", s.name, s>> : s \in b.scenarios}
        \cup {<<"condition", c.id, c>> : c \in b.conditions}
        \cup {<<"tool_manifest", tool, tool>> : tool \in b.tools}
        \cup {<<"trace", t.trial, t>> : t \in traces}
        \cup {<<"aggregates", None, b.aggregates>>, <<"environment", None, b.environment>>,
              <<"trials", None, b.trials>>}

Seal(b, traces) == [b EXCEPT !.hashes = Contents(b, traces)]

BuildBundle(run, resolved, environment) ==
    LET b == [scenarios |-> Range(resolved.scenarios), conditions |-> Range(run.conditions),
              tools |-> resolved.tools, environment |-> environment, trials |-> run.trials,
              aggregates |-> run.aggregates, hashes |-> {}]
    IN  Seal([b EXCEPT !.environment = [@ EXCEPT !.provenance = ConfigProvenance(b)]], run.traces)

----------------------------------------------------------------------------
(* verify_bundle: every conjunct is one of its checks *)
Hashed(b, traces) == Contents(b, traces) \subseteq b.hashes

(* _verify_uniqueness *)
Distinct(S, Key(_)) == \A x, y \in S : Key(x) = Key(y) => x = y
Coordinate(t) == <<t.execution, t.scenario, t.condition, t.seed, t.repeat>>
Unique(b, traces) ==
    /\ Distinct(b.scenarios, LAMBDA s : s.name)
    /\ Distinct(b.conditions, LAMBDA c : c.id)
    /\ Distinct(DOMAIN b.trials, LAMBDA i : b.trials[i].id)
    /\ Distinct(DOMAIN b.trials, LAMBDA i : Coordinate(b.trials[i]))
    /\ Distinct(traces, LAMBDA t : t.trial)

(* _verify_cross_references *)
RefersToBundle(b, traces) ==
    /\ \A t \in Range(b.trials) : ScenariosOf(b, t) # {} /\ ConditionsOf(b, t) # {}
    /\ \A t \in traces : t.tools \subseteq b.tools

(* _verify_trial_trace_graph: one trace behind each completed trial, at the *)
(* same coordinates of the same run, and no trace behind none               *)
\* Mutant of TrialTraceGraph: the trial a trace names is not compared.
GraphWithoutCoordinates(b, traces) ==
    /\ \A t \in Completed(b) : t.ref \in traces
    /\ \A trace \in traces : Cardinality({i \in DOMAIN b.trials :
            b.trials[i].status = "completed" /\ b.trials[i].ref = trace}) = 1
TrialTraceGraph(b, traces) ==
    /\ \A t \in Completed(b) : t.ref \in traces /\ Coordinate(t) = t.ref.trial
    /\ \A trace \in traces : Cardinality({i \in DOMAIN b.trials :
            b.trials[i].status = "completed" /\ b.trials[i].ref = trace}) = 1

(* _verify_kernel_binding: the arm and the producer name the same kernel,   *)
(* or neither does and nothing was decided                                  *)
KernelBound(trace, condition) ==
    IF condition.kernel = None /\ trace.kernel = None THEN trace.verdicts = <<>>
    ELSE condition.kernel = trace.kernel

(* _verify_trace_metadata *)
MetadataHolds(b, traces) ==
    /\ \A t \in {u \in Completed(b) : u.ref \in traces} :
        /\ \A c \in ConditionsOf(b, t) :
                KernelBound(t.ref, c) /\ (c.kernel # None => t.hash # None)
        /\ \A s \in ScenariosOf(b, t) :
                IF t.ref.digest = None THEN t.ref.mode \notin {"wrapped_code", "instrumented_endpoint"}
                ELSE t.ref.digest = WorldDigest(s)
    /\ b.environment.kernels # None =>
            b.environment.kernels = {c.kernel : c \in b.conditions}

(* _verify_config_provenance: asserted only as derived *)
ProvenanceHolds(b) ==
    b.environment.provenance # None =>
        ~Diverges(b) /\ b.environment.provenance = ConfigProvenance(b)

VerifyBundle(b, traces) ==
    /\ Hashed(b, traces)
    /\ Unique(b, traces)
    /\ RefersToBundle(b, traces)
    /\ TrialTraceGraph(b, traces)
    /\ MetadataHolds(b, traces)
    /\ ProvenanceHolds(b)

----------------------------------------------------------------------------
(* recompute.py.  A metric some predicate decides is derived from the       *)
(* traces; any other has its estimator applied again to the reported values *)
Derived(metric) ==
    CASE metric = "ASR" -> "violation"
      [] metric \in {"task_success", "task_success_rate", "utility"} -> "task_success"
      [] OTHER -> None

(* _rows: the outcome of a unit under a condition; a benign scenario has no *)
(* violation to count                                                       *)
\* Mutant of Rows: benign scenarios are in the denominator.
RowsOfEvery(b, traces, field) == {t \in Completed(b) : t.ref \in traces}
Rows(b, traces, field) ==
    {t \in Completed(b) : /\ t.ref \in traces
                          /\ field = "violation" => \E s \in ScenariosOf(b, t) : s.violation}
RowKey(t) == <<t.scenario, t.seed, t.repeat, t.execution>>
Arm(rows, cid) == {t \in rows : t.condition = cid}
Successes(rows, field) == Cardinality({t \in rows : Evaluate(field, t.ref)})

RecomputeAggregate(b, traces, agg) ==
    LET field == Derived(agg.metric)
        arm == Arm(Rows(b, traces, field), agg.condition)
    IN  BinaryAggregate(agg.metric, agg.condition, Successes(arm, field), Cardinality(arm), {}, {})

(* _reported_values, reapply_reported_aggregates *)
ReportedValues(b, metric, cid) ==
    LET at == {i \in DOMAIN b.trials :
                   /\ b.trials[i].status = "completed" /\ b.trials[i].condition = cid
                   /\ metric \in DOMAIN b.trials[i].metrics /\ IsNum(b.trials[i].metrics[metric])}
    IN  [i \in at |-> b.trials[i].metrics[metric].v]

(* what is applied again is kept by metric and arm: of two numbers of one    *)
(* arm, one estimator stands for both (the last in the list; a set has none) *)
Reapplied(b, agg) ==
    (CHOOSE a \in b.aggregates : /\ a.metric = agg.metric /\ a.condition = agg.condition
                                 /\ a.estimator \in Estimators).estimator

(* _check_reported: it summarizes values the bundle has, by an estimator the *)
(* server can apply again if it names one                                    *)
ReportedHolds(b, agg) ==
    LET values == ReportedValues(b, agg.metric, agg.condition)
        again == NumericAggregate(agg.metric, agg.condition, values, Reapplied(b, agg))
    IN  /\ agg.test = {} /\ DOMAIN values # {}
        /\ agg.estimator # None =>
                /\ agg.estimator \in Estimators
                /\ agg.n = again.n /\ agg.estimate = again.estimate
                /\ agg.interval[1] = again.interval[1] => agg.interval = again.interval

(* _environment_is_deterministic *)
IsDeterministic(b) == b.environment.provider \in {"scripted", "cassette"}

(* _check_test: made again by its design; an inconclusive one is refused *)
RecomputeTest(rows, field, baseline, treated, design) ==
    LET base == Arm(rows, baseline)
        treat == Arm(rows, treated)
        keys == {RowKey(t) : t \in base} \cap {RowKey(t) : t \in treat}
        of(arm, k) == Evaluate(field, (CHOOSE t \in arm : RowKey(t) = k).ref)
    IN  IF design = "independent_samples"
        THEN TwoProportion(Successes(base, field), Cardinality(base),
                           Successes(treat, field), Cardinality(treat), baseline)
        ELSE McNemar([k \in keys |-> <<of(base, k), of(treat, k)>>], baseline)

TestHolds(b, traces, agg, test) ==
    LET field == Derived(agg.metric)
        design == IF agg.design = {} THEN "matched_pairs" ELSE CHOOSE d \in agg.design : TRUE
        again == RecomputeTest(Rows(b, traces, field), field, test.vs, agg.condition, design)
    IN  again.status # "inconclusive" /\ test = again

(* check_aggregates finds no problem *)
PairingIsProven(b, agg) ==
    agg.design = {"matched_pairs"} \/ (agg.design = {} /\ agg.test # {}) => IsDeterministic(b)

AggregatesHold(b, traces) ==
    \A agg \in b.aggregates :
        IF Derived(agg.metric) = None THEN ReportedHolds(b, agg)
        ELSE LET again == RecomputeAggregate(b, traces, agg)
             IN  /\ again.n > 0 /\ agg.n = again.n /\ agg.estimate = again.estimate
                 /\ agg.interval = again.interval
                 /\ PairingIsProven(b, agg)
                 /\ \A test \in agg.test : TestHolds(b, traces, agg, test)
=============================================================================
