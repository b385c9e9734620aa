----------------------------- MODULE Predicates -----------------------------
(***************************************************************************)
(* lab_runner/predicates.py: a scenario's `violation` and `task_success`   *)
(* evaluated over a trace, with the author-time checks of                  *)
(* lab_contracts/semantics.py that keep a predicate the evaluator cannot   *)
(* run from being queued.                                                  *)
(*                                                                         *)
(* A predicate is a record whose single shape is the field it has: all,    *)
(* any, sequence (sequences of predicates), not, or event with the         *)
(* optional fields tool, where and count.  A `where` is a set of           *)
(* [field |-> "args" | "prov", arg, op, operand]; an operand is            *)
(* [lit |-> value], [ref |-> input] or a sequence of those.  A value is    *)
(* [t |-> "bool" | "num" | "numstr" | "str", v]: "numstr" is a string that *)
(* float() parses.                                                         *)
(***************************************************************************)
EXTENDS Trace

Matchers == {"equal", "not_equal", "in", "not_in", "matches", "provenance_is", "gt", "lt"}

Has(p, field) == field \in DOMAIN p

(* inputs.py *)
Resolve(operand, inputs) ==
    IF Has(operand, "ref") THEN inputs[operand.ref] ELSE operand.lit

(* a bool equals only a bool; what parses as a number compares as one *)
Coerced(x) == IF x.t = "numstr" THEN [x EXCEPT !.t = "num"] ELSE x
TypedEq(a, b) == Coerced(a).t = Coerced(b).t /\ a.v = b.v

(* expand_list: a reference to a list splices it *)
InList(actual, operands, inputs) ==
    \E i \in 1 .. Len(operands) :
        LET x == Resolve(operands[i], inputs)
        IN  IF Has(x, "items") THEN \E y \in x.items : TypedEq(actual, y)
            ELSE TypedEq(actual, x)

(* float(actual): a bool is a number to Python, a string only if it parses *)
Floats(x) == x.t \in {"num", "numstr", "bool"}
AsFloat(x) == IF x.t = "bool" THEN IF x.v THEN 1 ELSE 0 ELSE x.v

(* matches is re.search: here the operand is the set of strings it accepts *)
MatcherHolds(m, actual, inputs) ==
    CASE m.op = "equal"     -> TypedEq(actual, Resolve(m.operand, inputs))
      [] m.op = "not_equal" -> ~TypedEq(actual, Resolve(m.operand, inputs))
      [] m.op = "in"        -> InList(actual, m.operand, inputs)
      [] m.op = "not_in"    -> ~InList(actual, m.operand, inputs)
      [] m.op = "matches"   -> actual.t \in {"str", "numstr"} /\ actual.v \in m.operand
      [] m.op = "gt"        -> Floats(actual) /\ AsFloat(actual) > m.operand
      [] m.op = "lt"        -> Floats(actual) /\ AsFloat(actual) < m.operand

(* the typed value a field addresses: a redacted one is read by its preview *)
Redacted == [t |-> "str", v |-> "[redacted]"]
ActualOf(value) == IF value.data = None THEN Redacted ELSE value.data

WhereMatches(where, e, trace, inputs) ==
    \A m \in where :
        /\ m.arg \in DOMAIN e.bound
        /\ LET value == ValueOf(trace, e.bound[m.arg])
           IN  IF m.field = "prov" THEN m.operand \in value.labels
               ELSE MatcherHolds(m, ActualOf(value), inputs)

(* _matching_seqs: positions, which order events as seq does *)
Matching(p, trace, inputs) ==
    {i \in ExecutedCalls(trace) :
        /\ Has(p, "tool") => trace.events[i].tool = p.tool
        /\ Has(p, "where") => WhereMatches(p.where, trace.events[i], trace, inputs)}

CountSatisfied(p, n) ==
    IF ~Has(p, "count") THEN n > 0
    ELSE /\ Has(p.count, "min") => n >= p.count.min
         /\ Has(p.count, "max") => n <= p.count.max

(* each element at the earliest match after the one before it *)
EvaluateSequence(parts, trace, inputs) ==
    LET after[k \in 0 .. Len(parts)] ==
            IF k = 0 THEN 0
            ELSE LET left == {i \in Matching(parts[k], trace, inputs) : i > after[k - 1]}
                 IN  IF after[k - 1] = Len(trace.events) + 1 \/ left = {}
                     THEN Len(trace.events) + 1 ELSE FirstOf(left)
    IN  after[Len(parts)] <= Len(trace.events)

RECURSIVE Evaluate(_, _, _)
Evaluate(p, trace, inputs) ==
    CASE Has(p, "all") -> \A i \in DOMAIN p.all : Evaluate(p.all[i], trace, inputs)
      [] Has(p, "any") -> \E i \in DOMAIN p.any : Evaluate(p.any[i], trace, inputs)
      [] Has(p, "not") -> ~Evaluate(p.not, trace, inputs)
      [] Has(p, "sequence") -> EvaluateSequence(p.sequence, trace, inputs)
      [] Has(p, "event") -> CountSatisfied(p, Cardinality(Matching(p, trace, inputs)))

----------------------------------------------------------------------------
(* semantics.py, validate_scenario: every error raises before the run is      *)
(* queued.  A scenario is [tools, inputs, injection, placements, violation,   *)
(* task_success]; a manifest [effects, resolves, untrusted, args, refs, ...]. *)
RECURSIVE EventMatches(_)
EventMatches(p) ==
    IF Has(p, "event") THEN {p}
    ELSE IF Has(p, "not") THEN EventMatches(p.not)
    ELSE UNION {UNION {EventMatches(p[shape][i]) : i \in DOMAIN p[shape]} :
                    shape \in {"all", "any", "sequence"} \cap DOMAIN p}

RefsOf(m) ==
    IF m.op \in {"in", "not_in"}
    THEN {m.operand[i].ref : i \in {j \in DOMAIN m.operand : Has(m.operand[j], "ref")}}
    ELSE IF m.op \in {"equal", "not_equal"} /\ Has(m.operand, "ref") THEN {m.operand.ref}
    ELSE {}

CountIsWellFormed(count) ==
    /\ DOMAIN count \cap {"min", "max"} # {}
    /\ \A bound \in DOMAIN count \cap {"min", "max"} : count[bound] >= 0
    /\ Has(count, "min") /\ Has(count, "max") => count.min <= count.max

(* a matcher against the type its tool's args_schema gives the argument *)
FieldTypeFits(m, argTypes) ==
    /\ m.arg \in DOMAIN argTypes
    /\ m.op \in {"gt", "lt"} => argTypes[m.arg] \in {"number", "integer"}
    /\ m.op = "matches" => argTypes[m.arg] = "string"

PredicateIsRunnable(p, scenario, manifests) ==
    \A sub \in EventMatches(p) :
        /\ sub.event = "tool_call"
        /\ Has(sub, "count") => CountIsWellFormed(sub.count)
        /\ Has(sub, "tool") => sub.tool \in scenario.tools
        /\ Has(sub, "where") =>
            \A m \in sub.where :
                /\ m.field \in {"args", "prov"} /\ m.op \in Matchers
                /\ RefsOf(m) \subseteq DOMAIN scenario.inputs
                /\ Has(sub, "tool") /\ sub.tool \in DOMAIN manifests
                        => FieldTypeFits(m, manifests[sub.tool].args)

(* the first placement found decides: an injection needs an untrusted field *)
InjectionHasVector(scenario, manifests) ==
    LET placed == {i \in DOMAIN scenario.placements :
                       scenario.placements[i].tool \in DOMAIN manifests}
        first == scenario.placements[FirstOf(placed)]
    IN  placed # {} /\ first.field \in manifests[first.tool].untrusted

SinkExists(scenario, manifests) ==
    \E tool \in scenario.tools \cap DOMAIN manifests :
        manifests[tool].effects \cap {"WRITE", "EXPORT", "EXEC"} # {}

ScenarioIsValid(scenario, manifests) ==
    /\ scenario.tools \subseteq DOMAIN manifests
    /\ \A name \in {"violation", "task_success"} \cap DOMAIN scenario :
            PredicateIsRunnable(scenario[name], scenario, manifests)
    /\ IF scenario.injection # None
       THEN InjectionHasVector(scenario, manifests) /\ SinkExists(scenario, manifests)
       ELSE "violation" \notin DOMAIN scenario
    /\ \A tool \in scenario.tools : manifests[tool].refs \subseteq DOMAIN scenario.inputs
=============================================================================
