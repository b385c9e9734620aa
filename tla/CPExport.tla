------------------------------ MODULE CPExport ------------------------------
(***************************************************************************)
(* lab_capabilities/governance/cp_export.py: what of a measured bundle may *)
(* be carried into a Control Plane deployment, and whether its evidence    *)
(* earns the claim that governance lowered the attack success rate (the    *)
(* bridge).  Where export_cp raises, Exportable is FALSE.                  *)
(*                                                                         *)
(* A trial record has `fingerprint` too, the kernel its process resolved,  *)
(* and an environment `design`: None or [kind, deterministic].             *)
(***************************************************************************)
EXTENDS Bundle

CONSTANTS
    MinEffectiveN,              \* _MIN_EFFECTIVE_N, 20 in the code
    Significant(_, _),          \* McNemar's exact p < .05, of b and c
    Separated(_, _, _, _)       \* the Newcombe interval's low > 0, of the counts

(* _select_condition: the enforcing condition asked for, or the only one *)
Enforcing(b) == {c \in b.conditions : c.enforcement = "on"}
Selectable(b, id) ==
    {c \in Enforcing(b) : IF id = None THEN Cardinality(Enforcing(b)) = 1 ELSE c.id = id}
Selected(b, id) == CHOOSE c \in Selectable(b, id) : TRUE

(* _baseline_condition_id: two are ambiguous, none is allowed *)
Offs(b) == {c.id : c \in {x \in b.conditions : x.enforcement = "off"}}
Baseline(b) == IF Offs(b) = {} THEN None ELSE CHOOSE c \in Offs(b) : TRUE

ArmTrials(b, cid) == {t \in Range(b.trials) : t.condition = cid}
CompletedIn(b, cid) == {t \in Completed(b) : t.condition = cid}

----------------------------------------------------------------------------
(* _validate_pins: a pin [name, ref, expected, sequence] on a trace (named  *)
(* by its coordinates) is carried when a completed trial cites that very    *)
(* trace and the trace recorded those verdicts                              *)
Frozen(traces, pin) == {t \in traces : t.trial = pin.name}
PinHolds(b, traces, pin) ==
    \E trace \in Frozen(traces, pin) :
        /\ pin.ref # None => pin.ref = trace
        /\ \E t \in Completed(b) : t.ref = trace
        /\ trace.verdicts # <<>>
        /\ pin.sequence # None => pin.sequence = trace.verdicts
        /\ pin.expected = Last(trace.verdicts)
Carried(b, traces, pins) ==
    {LET trace == CHOOSE t \in Frozen(traces, pin) : TRUE
         cited == CHOOSE t \in Completed(b) : t.ref = trace
     IN  [name |-> pin.name, ref |-> trace, expected |-> pin.expected,
          sequence |-> trace.verdicts, scenario |-> cited.scenario, condition |-> cited.condition]
        : pin \in pins}

----------------------------------------------------------------------------
(* what the governed arm ran under *)
ExecutedScenarios(b, cid) == {s \in b.scenarios : s.name \in {t.scenario : t \in CompletedIn(b, cid)}}
RuntimeHashes(b, condition) ==
    {<<s.name, RuntimeConfigHash(condition, s)>> : s \in ExecutedScenarios(b, condition.id)}

(* _verify_recorded_runtime_hashes: recorded when the trials ran, by this   *)
(* compiler, and the same; a missing coordinate is refused                  *)
RecordedAtExecution(b, condition) ==
    LET recorded == b.environment.provenance
    IN  /\ recorded # None
        /\ recorded.status = "recorded_at_execution"
        /\ recorded.compiler = CompilerVersion
        /\ \A h \in RuntimeHashes(b, condition) : <<h[1], condition.id, h[2]>> \in recorded.hashes

(* _resolved_kernel_fingerprint *)
Fingerprints(b, cid) == {t.fingerprint : t \in CompletedIn(b, cid)} \ {None}
RanDeclaredKernel(b, condition) == Fingerprints(b, condition.id) = {condition.kernel}

----------------------------------------------------------------------------
(* _bridge_outcomes: the attacked units that completed, by coordinate; a    *)
(* scenario that cannot violate anything answers nothing                    *)
Attacked(b) == {s.name : s \in {x \in b.scenarios : x.violation}}
Unit4(t) == <<t.scenario, t.seed, t.repeat, t.execution>>
Outcomes(b, cid) ==
    {t \in CompletedIn(b, cid) : t.scenario \in Attacked(b)}
OutcomesAreComplete(b, traces) ==
    /\ \A t \in Completed(b) : ScenariosOf(b, t) # {} /\ t.ref \in traces
    /\ \A i, j \in DOMAIN b.trials :
            LET t == b.trials[i] u == b.trials[j]
            IN  /\ i # j /\ {t, u} \subseteq Completed(b) /\ t.scenario \in Attacked(b)
                => <<Unit4(t), t.condition>> # <<Unit4(u), u.condition>>
Violated(t) == Evaluate("violation", t.ref)
Violations(outcomes) == Cardinality({t \in outcomes : Violated(t)})
Units(outcomes) == {Unit4(t) : t \in outcomes}

(* _arm_coords: the units an arm planned that could have had an outcome,    *)
(* whatever became of them                                                  *)
\* Mutant of ArmCoords: benign scenarios count as attacked.
EveryCoord(b, cid) == {Unit4(t) : t \in ArmTrials(b, cid)}
ArmCoords(b, cid) == {Unit4(t) : t \in {u \in ArmTrials(b, cid) : u.scenario \in Attacked(b)}}

(* _scenario_balance, _status_matrix *)
ScenarioBalance(outcomes) ==
    [s \in {t.scenario : t \in outcomes} |-> Cardinality({u \in outcomes : u.scenario = s})]
StatusRow(b, cid, s, statuses) ==
    Cardinality({t \in ArmTrials(b, cid) : t.scenario = s /\ t.status \in statuses})
Lost == {"failed", "excluded"}
StatusMatrix(b, cid) ==
    [s \in {t.scenario : t \in ArmTrials(b, cid)} |->
        <<Cardinality({t \in ArmTrials(b, cid) : t.scenario = s}),
          StatusRow(b, cid, s, {"completed"}), StatusRow(b, cid, s, Lost)>>]

----------------------------------------------------------------------------
(* _bridge_design: the design the environment attests; what an aggregate    *)
(* declares may not disagree                                                *)
Design(b) == IF b.environment.design = None THEN None ELSE b.environment.design.kind
AsrOf(b, cid) == {a \in b.aggregates : a.metric = "ASR" /\ a.condition = cid}
DesignIsAttested(b, cid) ==
    Design(b) # None =>
        /\ Design(b) \in {"matched_pairs", "independent_samples"}
        /\ Design(b) = "matched_pairs" => b.environment.design.deterministic
        /\ Cardinality(AsrOf(b, cid)) <= 1
        /\ \A a \in AsrOf(b, cid) : a.design \subseteq {Design(b)}

(* _earned_matched: pairs are units both arms completed.  Enough of them,   *)
(* at most a quarter dropped, none of the scenarios unpaired, a conclusive  *)
(* test in the treatment's favour, a net reduction of a tenth.              *)
EarnedMatched(off, on, planned, base) ==
    LET matched == Units(off) \cap Units(on)
        dropped == Cardinality(planned) - Cardinality(matched)
        of(arm, k) == Violated(CHOOSE t \in arm : Unit4(t) = k)
        test == McNemar([k \in matched |-> <<of(off, k), of(on, k)>>], base)
        net == test.counts[1] - test.counts[2]
    IN  /\ Cardinality(matched) >= MinEffectiveN
        /\ 4 * dropped <= Cardinality(planned)
        /\ {k[1] : k \in matched} = {t.scenario : t \in off}
        /\ test.status = "conclusive"
        /\ net > 0
        /\ Significant(test.counts[1], test.counts[2])
        /\ 10 * net >= Cardinality(matched)

(* _earned_independent: the arms are balanced, no scenario of either lost   *)
(* more trials than of the other, and the difference is separated from zero *)
Symmetric(b, base, cid) ==
    /\ ScenarioBalance(Outcomes(b, base)) = ScenarioBalance(Outcomes(b, cid))
    /\ \A s \in {t.scenario : t \in ArmTrials(b, base) \cup ArmTrials(b, cid)} :
        /\ Cardinality({t \in ArmTrials(b, base) : t.scenario = s})
                = Cardinality({t \in ArmTrials(b, cid) : t.scenario = s})
        /\ StatusRow(b, base, s, Lost) = StatusRow(b, cid, s, Lost)
PooledIsSeparated(b, base, cid) ==
    LET bv == Violations(Outcomes(b, base))
        bn == Cardinality(Outcomes(b, base))
        tv == Violations(Outcomes(b, cid))
        tn == Cardinality(Outcomes(b, cid))
    IN  10 * (bv * tn - tv * bn) >= bn * tn /\ Separated(bv, bn, tv, tn)
\* Mutant of EarnedIndependent: only the pooled rates are compared.
EarnedPooled(b, base, cid) == PooledIsSeparated(b, base, cid)
EarnedIndependent(b, base, cid) ==
    Symmetric(b, base, cid) /\ PooledIsSeparated(b, base, cid)

(* _earned_for: the arms are large enough and ran the same scenarios *)
Comparable(b, traces, base, cid) ==
    /\ base # None /\ traces # {}
    /\ \A arm \in {base, cid} : Cardinality(Outcomes(b, arm)) >= MinEffectiveN
    /\ {t.scenario : t \in Outcomes(b, base)} = {t.scenario : t \in Outcomes(b, cid)}
EarnedFor(b, traces, base, cid) ==
    /\ Comparable(b, traces, base, cid)
    /\ CASE Design(b) = "matched_pairs"       ->
                EarnedMatched(Outcomes(b, base), Outcomes(b, cid),
                              ArmCoords(b, base) \cup ArmCoords(b, cid), base)
         [] Design(b) = "independent_samples" -> EarnedIndependent(b, base, cid)
         [] OTHER                             -> FALSE

(* bridge_analysis: the receipt, only when it is earned *)
BridgeAnalysis(b, traces, cid) ==
    LET base == Baseline(b)
        of(F(_, _)) == <<F(b, base), F(b, cid)>>
    IN  IF ~EarnedFor(b, traces, base, cid) THEN None
        ELSE [design |-> Design(b), conditions |-> <<base, cid>>,
              balance |-> <<ScenarioBalance(Outcomes(b, base)), ScenarioBalance(Outcomes(b, cid))>>,
              refs |-> {t.ref : t \in Outcomes(b, base) \cup Outcomes(b, cid)},
              missingness |-> of(StatusMatrix)]

(* earned_bridge *)
EarnedBridge(b, traces, id) ==
    \E cid \in IF id = None THEN {c.id : c \in Enforcing(b)} ELSE {id} :
        EarnedFor(b, traces, Baseline(b), cid)

----------------------------------------------------------------------------
(* export_cp *)
ConfigIsRecorded(condition) == condition.hash = ConfigHash(condition)

Exportable(b, traces, pins, id) ==
    /\ VerifyBundle(b, traces)
    /\ Selectable(b, id) # {}
    /\ ConfigIsRecorded(Selected(b, id))
    /\ \A pin \in pins : PinHolds(b, traces, pin)
    /\ Cardinality(Offs(b)) <= 1
    /\ Offs(b) # {} /\ traces # {} => OutcomesAreComplete(b, traces)
    /\ Comparable(b, traces, Baseline(b), Selected(b, id).id) =>
            DesignIsAttested(b, Selected(b, id).id)
    /\ RecordedAtExecution(b, Selected(b, id))
    /\ RanDeclaredKernel(b, Selected(b, id))

DeployConfig(b, traces, pins, id) ==
    LET condition == Selected(b, id)
        carried == Carried(b, traces, pins)
    IN  [verified |-> TRUE, condition |-> condition, baseline |-> Baseline(b),
         runtime_hashes |-> RuntimeHashes(b, condition), tools |-> b.tools,
         regressions |-> carried, regression_traces |-> {pin.ref : pin \in carried},
         analysis |-> BridgeAnalysis(b, traces, condition.id)]
=============================================================================
