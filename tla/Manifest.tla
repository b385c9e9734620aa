------------------------------- MODULE Manifest -------------------------------
(***************************************************************************)
(* lab_suite/manifest.py and the planning half of dispatch.py: which suite *)
(* manifests are refused, what an accepted one resolves to, and the units  *)
(* it plans, in order.                                                     *)
(*                                                                         *)
(* A manifest is a record of the fields the checks read.  A scenario is    *)
(* [name, violation, world, inline], `violation` whether it has that       *)
(* predicate, `world` its inputs and fixtures and `inline` the tools it    *)
(* declares itself; a condition [id, kernel, enforcement, hash]; a tool is *)
(* its content under its id.  Scenarios are those validate_scenario takes  *)
(* (module Predicates), so their own refusals are not here again.          *)
(***************************************************************************)
EXTENDS Naturals, Sequences, FiniteSets, SequencesExt

CONSTANTS
    None,
    Registry,           \* [name -> scenario], what scenario_refs may name
    RealKernels,        \* the kernels a connected runtime has
    DefaultKernel       \* what an arm nobody declared observes under

Executable == {"single"}                        \* EXECUTABLE_TOPOLOGIES
ComparisonTests == {"mcnemar", "two_proportion"}
ModelIdentity == {"provider", "model", "system_prompt", "params"}

(* condition_config_hash: external, a digest of kernel and policy *)
ConfigHash(condition) == <<"config", condition.kernel>>

----------------------------------------------------------------------------
(* validate_manifest: the manifest is accepted when every part is *)
HasScenarios(m) ==
    /\ m.scenarios # <<>> \/ m.refs # <<>>
    /\ Range(m.refs) \subseteq DOMAIN Registry

GovernanceIsDeclared(m) == "governance" \in m.capabilities <=> m.conditions # <<>>

Evaluated(m) == UNION {{e.id, e.produces} : e \in m.evaluators}
MetricsAreDeclared(m) ==
    /\ \A metric \in m.metrics :
            metric.source = "evaluator" /\ metric.from # None => metric.from \in Evaluated(m)
    /\ \A spec \in m.aggregations :
            /\ \E metric \in m.metrics : metric.name = spec.metric
            /\ spec.test \in ComparisonTests => Len(m.conditions) >= 2
            /\ spec.test = "mcnemar" => m.seed_policy # "random"

OneAgent(m) == m.topology = "single" => Len(m.agents) <= 1

(* _scripted_agent_errors: the stand-in names no model *)
StandInNamesNoModel(m) ==
    \A a \in Range(m.agents) : a.ref = "scripted" => a.declares \cap ModelIdentity = {}

(* _suite_config_errors *)
ConfigIsDescribed(m) ==
    /\ m.config # {} => m.config_schema # None /\ m.config \subseteq m.config_schema
    /\ m.layout \subseteq (IF m.config_schema = None THEN {} ELSE m.config_schema)

(* _invariant_metric_errors: a boolean can never pass a threshold *)
ThresholdsAreNumeric(m) ==
    \A r \in m.regressions : r.kind = "metric_threshold" =>
        ~ \E metric \in m.metrics : metric.name = r.metric /\ metric.kind = "boolean"

(* _blank_identifier_errors *)
NamesAreGiven(m) ==
    "" \notin ({s.name : s \in Range(m.scenarios)} \cup {c.id : c \in Range(m.conditions)}
               \cup {a.ref : a \in Range(m.agents)} \cup {r.id : r \in m.regressions}
               \cup {metric.name : metric \in m.metrics} \cup {e.id : e \in m.evaluators}
               \cup {r.metric : r \in {x \in m.regressions : x.kind = "metric_threshold"}})

(* _condition_config_hash_errors *)
HashesAreTrue(m) ==
    \A c \in Range(m.conditions) :
        c.hash # None => c.kernel # None /\ c.hash = ConfigHash(c)

ManifestIsValid(m) ==
    /\ HasScenarios(m) /\ GovernanceIsDeclared(m) /\ MetricsAreDeclared(m)
    /\ OneAgent(m) /\ StandInNamesNoModel(m) /\ ConfigIsDescribed(m)
    /\ ThresholdsAreNumeric(m) /\ NamesAreGiven(m) /\ HashesAreTrue(m)

----------------------------------------------------------------------------
(* resolve_suite: no tool id means two contracts in one run *)
AllScenarios(m) == m.scenarios \o [i \in 1 .. Len(m.refs) |-> Registry[m.refs[i]]]

ToolsAgree(m) ==
    LET scenarios == Range(AllScenarios(m))
    IN  \A s \in scenarios, tool \in UNION {DOMAIN x.inline : x \in scenarios} :
            tool \in DOMAIN s.inline =>
                /\ tool \in DOMAIN m.tools => m.tools[tool] = s.inline[tool]
                /\ \A other \in scenarios :
                        tool \in DOMAIN other.inline => other.inline[tool] = s.inline[tool]

(* stamp_config_hashes *)
Stamped(c) == IF c.kernel = None THEN c ELSE [c EXCEPT !.hash = ConfigHash(c)]

Resolvable(m) == ManifestIsValid(m) /\ ToolsAgree(m)
Resolved(m) ==
    [id |-> m.id, scenarios |-> AllScenarios(m), repeats |-> m.repeats,
     deterministic |-> m.deterministic, design |-> m.design,
     conditions |-> [i \in DOMAIN m.conditions |-> Stamped(m.conditions[i])],
     tools |-> DOMAIN m.tools \cup UNION {DOMAIN s.inline : s \in Range(AllScenarios(m))},
     aggregations |-> m.aggregations, regressions |-> m.regressions,
     evaluators |-> m.evaluators, seed_policy |-> m.seed_policy, seeds |-> m.seeds]

----------------------------------------------------------------------------
(* observe_only_condition, connected_runtime_condition: the default arm of  *)
(* a suite with none                                                        *)
ObserveOnly(kernel) ==
    [id |-> "ungoverned", kernel |-> kernel, enforcement |-> "off", hash |-> <<"config", kernel>>]

Arms(resolved, lane) ==
    IF resolved.conditions # <<>> THEN resolved.conditions
    ELSE IF lane = "remote" THEN <<ObserveOnly(CHOOSE k \in RealKernels : TRUE)>>
    ELSE <<ObserveOnly(DefaultKernel)>>

(* topology_execution_error, remote_executable_kernel_errors: what blocks a *)
(* suite from being dispatched or run, without making it invalid            *)
Blocked(m, lane) ==
    \/ m.topology \notin Executable
    \/ lane = "remote" /\ \E c \in Range(Arms(Resolved(m), lane)) :
            c.kernel # None /\ c.kernel \notin RealKernels

Unit(s, c, i) == [scenario |-> s.name, condition |-> c.id, repeat |-> i]

(* plan_trials has the repeats inside the conditions, run_suite the          *)
(* conditions inside the repeats, run_experiment_suite so and the arms       *)
(* reversed every second repeat                                              *)
PlanOf(resolved, lane) ==
    LET arms == Arms(resolved, lane)
        repeats == [i \in 1 .. resolved.repeats |-> i - 1]
        over(seq, Each(_)) == FlattenSeq([i \in DOMAIN seq |-> Each(seq[i])])
    IN  over(resolved.scenarios, LAMBDA s :
            IF lane = "remote"
            THEN over(arms, LAMBDA c : [i \in DOMAIN repeats |-> Unit(s, c, repeats[i])])
            ELSE over(repeats, LAMBDA i :
                    LET order == IF lane = "experiment" /\ i % 2 = 1 THEN Reverse(arms) ELSE arms
                    IN  [k \in DOMAIN order |-> Unit(s, order[k], i)]))

(* _seed_for *)
SeedFor(resolved, lane, i) ==
    IF lane = "suite" /\ resolved.seed_policy = "fixed" /\ resolved.seeds # <<>>
    THEN resolved.seeds[(i % Len(resolved.seeds)) + 1] ELSE <<"s", i>>
=============================================================================
