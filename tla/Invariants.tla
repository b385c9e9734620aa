----------------------------- MODULE Invariants -----------------------------
(***************************************************************************)
(* lab_runner/invariants.py: one regression/v1 rule evaluated over a run's *)
(* completed trials.  A rule that cannot be evaluated on a trial is an     *)
(* error, whatever the other trials say.                                   *)
(*                                                                         *)
(* What a predicate says of a trace is a fact of the trace (the module     *)
(* Predicates evaluates them), so a predicate is the name of a fact.  A    *)
(* metric is [t |-> "bool" | "num" | "text", v].                           *)
(***************************************************************************)
EXTENDS Manifest, Statistics

IsNum(x) == x.t = "num"
IsBool(x) == x.t = "bool"

Evaluate(predicate, trace) == predicate \in trace.facts

InScope(rule, trial) ==
    /\ rule.scenarios # {} => trial.scenario \in rule.scenarios
    /\ rule.conditions # {} => trial.condition \in rule.conditions

Outcome(status, checked, failing) == [status |-> status, checked |-> checked, failing |-> failing]
Unevaluable == Outcome("error", 0, {})

(* _verdict: `holds` is a function from the scoped trials to Booleans *)
Verdict(rule, holds) ==
    LET failing == {t \in DOMAIN holds : ~holds[t]}
        passed == IF rule.quantifier = "any" THEN failing # DOMAIN holds ELSE failing = {}
    IN  Outcome(IF passed THEN "passed" ELSE "failed", Cardinality(DOMAIN holds), failing)

Compare(op, a, b) ==
    CASE op = "lt" -> a < b [] op = "lte" -> a <= b [] op = "gt" -> a > b
      [] op = "gte" -> a >= b [] op = "eq" -> a = b [] op = "neq" -> a # b

(* _percentile, nearest rank, and the other aggregators, as a quotient; the *)
(* percentiles a rule may name are its schema's                             *)
Percentiles == [p50 |-> 50, p95 |-> 95, p99 |-> 99]
Percentile(sorted, pct) ==
    sorted[Max({1, Min({Len(sorted), (pct * Len(sorted) + 99) \div 100})})]
Aggregated(aggregate, values) ==
    LET sorted == SetToSortSeq(DOMAIN values, LAMBDA s, t : values[s] < values[t])
        at(i) == values[sorted[i]]
        n == Len(sorted)
    IN  CASE aggregate \in Estimators -> Estimated(aggregate, values)
          [] aggregate = "median" ->
                <<at((n + 1) \div 2) + at(n \div 2 + 1), 2>>
          [] aggregate \in DOMAIN Percentiles ->
                <<Percentile([i \in 1 .. n |-> at(i)], Percentiles[aggregate]), 1>>

\* Mutant of CheckMetricThreshold: an unmeasured rule passes.
UnmeasuredPasses(rule, scoped) ==
    LET measured == {t \in scoped : rule.metric \in DOMAIN t.metrics /\ IsNum(t.metrics[rule.metric])}
    IN  Verdict(rule, [t \in measured |-> Compare(rule.op, t.metrics[rule.metric].v, rule.value)])
CheckMetricThreshold(rule, scoped) ==
    LET measured == {t \in scoped : rule.metric \in DOMAIN t.metrics /\ IsNum(t.metrics[rule.metric])}
        values == [t \in scoped |-> t.metrics[rule.metric].v]
        observed == Aggregated(rule.aggregate, values)
        passed == Compare(rule.op, observed[1], rule.value * observed[2])
    IN  IF measured # scoped THEN Unevaluable
        ELSE IF rule.aggregate = "value"
        THEN Verdict(rule, [t \in scoped |-> Compare(rule.op, values[t], rule.value)])
        ELSE IF rule.aggregate \notin Estimators \cup {"median"} \cup DOMAIN Percentiles THEN Unevaluable
        ELSE Outcome(IF passed THEN "passed" ELSE "failed", Cardinality(scoped),
                     IF passed THEN {} ELSE scoped)

(* a trace without events cannot say what was not done *)
CheckPredicate(rule, scoped, traces) ==
    IF \E t \in scoped : t.ref \notin traces \/ ~t.ref.acted THEN Unevaluable
    ELSE Verdict(rule, [t \in scoped |-> Evaluate(rule.predicate, t.ref) = rule.expect])

(* _evaluator_value: a set of one value, or of none when it has none; the   *)
(* metric read is the one declared, or else the one produced                *)
EvaluatorValue(e, trial, traces) ==
    IF e.kind \in {"trial_metric", "suite_hook"}
    THEN LET named == IF e.metric = None THEN e.produces ELSE e.metric
         IN  {trial.metrics[key] : key \in {named} \cap DOMAIN trial.metrics}
    ELSE IF e.kind = "predicate" /\ trial.ref \in traces
    THEN {[t |-> "bool", v |-> Evaluate(e.predicate, trial.ref)]}
    ELSE {}

CheckEvaluatorOutcome(rule, scoped, traces, evaluators) ==
    LET named == {e \in evaluators : e.id = rule.evaluator}
        value == [t \in scoped |-> UNION {EvaluatorValue(e, t, traces) : e \in named}]
    IN  IF named = {} \/ \E t \in scoped : value[t] = {} THEN Unevaluable
        ELSE Verdict(rule, [t \in scoped |-> value[t] = {rule.expect}])

CheckVerdictSequence(rule, scoped, traces) ==
    IF \E t \in scoped : t.ref \notin traces THEN Unevaluable
    ELSE Verdict(rule, [t \in scoped |-> t.ref.verdicts = rule.verdicts])

CheckInvariant(rule, trials, traces, evaluators) ==
    LET scoped == {t \in trials : t.status = "completed" /\ InScope(rule, t)}
    IN  IF scoped = {} THEN Unevaluable
        ELSE CASE rule.kind = "metric_threshold" -> CheckMetricThreshold(rule, scoped)
               [] rule.kind = "evaluator_outcome" ->
                    CheckEvaluatorOutcome(rule, scoped, traces, evaluators)
               [] rule.kind = "verdict_sequence" -> CheckVerdictSequence(rule, scoped, traces)
               [] rule.kind = "predicate" -> CheckPredicate(rule, scoped, traces)
               [] OTHER -> Unevaluable
=============================================================================
