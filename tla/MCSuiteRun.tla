------------------------------ MODULE MCSuiteRun ------------------------------
(* SuiteRun for TLC: one attack and one benign scenario, arms with and without *)
(* enforcement or a kernel, and manifests the checks refuse.  InconclusiveMinN *)
(* is 1, so that a comparison of two trials is attached.                       *)
EXTENDS SuiteRun

Attack == [name |-> "attack", violation |-> TRUE, world |-> "bank", inline |-> ("send" :> "v1")]
Benign == [name |-> "benign", violation |-> FALSE, world |-> "shop", inline |-> <<>>]
MCRegistry == ("shared" :> [Benign EXCEPT !.name = "shared"])

Condition(id, kernel, enforcement) ==
    [id |-> id, kernel |-> kernel, enforcement |-> enforcement, hash |-> None]
Off == Condition("off", "core", "off")
On == Condition("on", "core", "on")
Bare == Condition("bare", None, "off")

Spec1(metric, fn, test) == [metric |-> metric, fn |-> fn, test |-> test]
Metric(name, kind) == [name |-> name, kind |-> kind, source |-> "trial", from |-> None]
Rule(id, kind) ==
    [id |-> id, kind |-> kind, scenarios |-> {}, conditions |-> {}, quantifier |-> "all",
     metric |-> "reads", op |-> "lte", value |-> 1, aggregate |-> "value",
     predicate |-> "violation", expect |-> FALSE, evaluator |-> "ok", verdicts |-> <<"DENY">>]

Plain ==
    [id |-> "bank", scenarios |-> <<Attack>>, refs |-> <<>>, conditions |-> <<Off, On>>,
     capabilities |-> {"governance"}, topology |-> "single",
     agents |-> <<[ref |-> "scripted", declares |-> {}]>>, tools |-> ("send" :> "v1"),
     metrics |-> {Metric("ASR", "boolean"), Metric("task_success", "boolean"),
                  Metric("reads", "integer"), Metric("tokens", "integer")},
     evaluators |-> {[id |-> "ok", produces |-> "done", metric |-> "task_success",
                     kind |-> "trial_metric", predicate |-> None]},
     aggregations |-> {Spec1("ASR", "rate", "mcnemar"), Spec1("reads", "sum", "none")},
     regressions |-> {Rule("cheap", "metric_threshold"), Rule("contained", "predicate")},
     repeats |-> 1, seed_policy |-> "per_repeat", seeds |-> <<>>,
     config |-> {}, config_schema |-> None, layout |-> {}, deterministic |-> TRUE, design |-> None]

Mixed == [Plain EXCEPT
    !.scenarios = <<Attack, Benign>>, !.conditions = <<>>, !.capabilities = {}, !.repeats = 2,
    !.seed_policy = "fixed", !.seeds = <<<<"one">>, <<"two">>, <<"three">>>>,
    !.aggregations = {Spec1("ASR", "rate", "none"), Spec1("task_success", "rate", "none"),
                      Spec1("reads", "mean", "none")},
    !.regressions = {[Rule("median", "metric_threshold") EXCEPT !.aggregate = "median"],
                     [Rule("p50", "metric_threshold") EXCEPT !.aggregate = "p50", !.scenarios = {"attack"}],
                     [Rule("p95", "metric_threshold") EXCEPT !.aggregate = "p95"],
                     [Rule("done", "evaluator_outcome") EXCEPT !.expect = Flag(TRUE)],
                     [Rule("tokens", "metric_threshold") EXCEPT !.metric = "tokens", !.quantifier = "any"],
                     Rule("verdicts", "verdict_sequence")}]
Wire == [Plain EXCEPT
    !.aggregations = {Spec1("ASR", "rate", "none"), Spec1("tokens", "max", "none")},
    !.regressions = {[Rule("tokens", "metric_threshold") EXCEPT !.metric = "tokens"],
                     Rule("contained", "predicate")}]

(* one number with two estimators, which the server refuses *)
Twice == [Plain EXCEPT
    !.conditions = <<>>, !.capabilities = {}, !.regressions = {}, !.repeats = 2,
    !.aggregations = {Spec1("reads", "mean", "none"), Spec1("reads", "max", "none")}]

Refused ==
    {[Plain EXCEPT !.scenarios = <<>>], [Plain EXCEPT !.capabilities = {}],
     [Plain EXCEPT !.refs = <<"nowhere">>],
     [Plain EXCEPT !.conditions = <<Off>>], [Plain EXCEPT !.seed_policy = "random"],
     [Plain EXCEPT !.agents = <<[ref |-> "scripted", declares |-> {"model"}]>>],
     [Plain EXCEPT !.layout = {"field"}],
     [Plain EXCEPT !.topology = "pipeline"],
     [Plain EXCEPT !.regressions = {[Rule("asr", "metric_threshold") EXCEPT !.metric = "ASR"]}],
     [Plain EXCEPT !.conditions = <<Off, [On EXCEPT !.hash = <<"config", "stale">>]>>],
     [Plain EXCEPT !.tools = ("send" :> "v2")],
     [Plain EXCEPT !.conditions = <<Off, [On EXCEPT !.kernel = "reference"]>>]}

MCSubmissions ==
    ({Plain, Mixed} \X {"suite", "experiment"}) \cup (Refused \X {"suite", "remote"})
        \cup {<<[Plain EXCEPT !.deterministic = d[1], !.design = d[2]], "experiment">> :
                d \in {<<TRUE, "independent_samples">>, <<FALSE, None>>, <<FALSE, "matched_pairs">>}}
        \cup {<<Wire, "remote">>, <<Twice, "suite">>, <<[Plain EXCEPT !.conditions = <<Bare, On>>], "suite">>}
Solo == {<<[Wire EXCEPT !.conditions = <<On>>], "remote">>}

Did(facts, decided, tools, reads) ==
    [facts |-> facts, verdicts |-> <<decided>>, acted |-> TRUE, tools |-> tools, reads |-> reads]
Idled == [Did({}, "DENY", {}, 0) EXCEPT !.verdicts = <<>>, !.acted = FALSE]
MCBehaviours ==
    {Did({"task_success"}, "ALLOW", {"send"}, 1), Did({"violation"}, "ALLOW", {"send"}, 2),
     Did({}, "DENY", {}, 0), Idled}
MCSeeds == {<<"other">>}
MCMeasurements == {<<>>, ("tokens" :> Num(3)) @@ ("ASR" :> Flag(FALSE))}
=============================================================================
