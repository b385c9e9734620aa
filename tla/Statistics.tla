----------------------------- MODULE Statistics -----------------------------
(***************************************************************************)
(* lab_analysis/stats.py.  An estimate, its interval and a p value are     *)
(* functions of the counts they are computed from, so an aggregate carries *)
(* the counts: two of them agree on the numbers when they agree on the     *)
(* counts.  What an aggregate may lack (its design, its test) is a set of  *)
(* at most one element.                                                    *)
(***************************************************************************)
EXTENDS Integers, Sequences, FiniteSets, SequencesExt, FiniteSetsExt

CONSTANT InconclusiveMinN       \* 10 in the code

ASSUME MinimumAssumption == InconclusiveMinN \in Nat

TestStatus(effective) ==
    IF effective < InconclusiveMinN THEN "inconclusive" ELSE "conclusive"

(* mcnemar_test: `pairs` gives each matched unit its <<baseline, treated>> *)
McNemar(pairs, vs) ==
    LET b == Cardinality({k \in DOMAIN pairs : pairs[k][1] /\ ~pairs[k][2]})
        c == Cardinality({k \in DOMAIN pairs : ~pairs[k][1] /\ pairs[k][2]})
    IN  [name |-> "mcnemar", vs |-> vs, counts |-> <<b, c, Cardinality(DOMAIN pairs)>>,
         effective_n |-> b + c, status |-> TestStatus(b + c)]

(* two_proportion_test, of two non-empty arms *)
TwoProportion(base_s, base_n, treated_s, treated_n, vs) ==
    LET effective == Min({base_n, treated_n})
    IN  [name |-> "two_proportion", vs |-> vs,
         counts |-> <<base_s, base_n, treated_s, treated_n>>,
         effective_n |-> effective, status |-> TestStatus(effective)]

(* binary_aggregate: an inconclusive test is not attached *)
BinaryAggregate(metric, condition, successes, n, designs, tests) ==
    [metric |-> metric, condition |-> condition, estimator |-> "rate", n |-> n,
     estimate |-> <<successes, n>>, interval |-> <<"wilson", successes, n>>, design |-> designs,
     test |-> {t \in tests : n >= InconclusiveMinN /\ t.effective_n >= InconclusiveMinN}]

(* numeric_aggregate over the values of a function, at least one of them *)
Estimators == {"mean", "sum", "min", "max"}
Estimated(fn, values) ==
    LET total == MapThenSumSet(LAMBDA t : values[t], DOMAIN values)
        range == {values[t] : t \in DOMAIN values}
    IN  CASE fn = "mean" -> <<total, Cardinality(DOMAIN values)>>
          [] fn = "sum"  -> <<total, 1>>
          [] fn = "min"  -> <<Min(range), 1>>
          [] fn = "max"  -> <<Max(range), 1>>
NumericAggregate(metric, condition, values, fn) ==
    LET range == {values[t] : t \in DOMAIN values}
    IN  [metric |-> metric, condition |-> condition, estimator |-> fn,
         n |-> Cardinality(DOMAIN values), estimate |-> Estimated(fn, values),
         interval |-> <<"none", Min(range), Max(range)>>, design |-> {}, test |-> {}]

(* missingness: three quarters of what is missing in one scenario, or one   *)
(* arm, of several is flagged                                               *)
Missing(trials) == {t \in trials : t.status # "completed"}
Concentrated(trials, Of(_)) ==
    /\ Missing(trials) # {} /\ Cardinality({Of(t) : t \in trials}) > 1
    /\ \E x \in {Of(t) : t \in trials} :
            4 * Cardinality({t \in Missing(trials) : Of(t) = x}) >= 3 * Cardinality(Missing(trials))
Missingness(trials) ==
    [n_total |-> Cardinality(trials), n_missing |-> Cardinality(Missing(trials)),
     by_condition |-> [c \in {t.condition : t \in trials} |->
        <<Cardinality({t \in trials \ Missing(trials) : t.condition = c}),
          Cardinality({t \in trials : t.condition = c})>>],
     potentially_biased |-> Concentrated(trials, LAMBDA t : t.scenario),
     condition_imbalanced |-> Concentrated(trials, LAMBDA t : t.condition)]
=============================================================================
