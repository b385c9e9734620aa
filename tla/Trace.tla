-------------------------------- MODULE Trace --------------------------------
(***************************************************************************)
(* A recorded trial, trace/v1, and the ways lab_runner reads one: which    *)
(* calls ran (verdicts.py, predicates.py TraceView) and whether the trace  *)
(* is well formed (lab_contracts/semantics.py, trace_semantics).           *)
(*                                                                         *)
(* A trace is [kernel, events, values]: whether the producer names a       *)
(* kernel, the events in array order and the value ledger.  An event is    *)
(*   [type |-> "tool_call_intent", node, seq, call, tool, bound]           *)
(*   [type |-> "gate_decision",    node, seq, call, decision]              *)
(*   [type |-> "tool_result",      node, seq, call, tool, makes]           *)
(* and a value [id, labels, data, hash, from]; `data` is None when it is   *)
(* redacted.  A call_id that is absent is None.                            *)
(***************************************************************************)
EXTENDS Naturals, Sequences, FiniteSets, SequencesExt

CONSTANT None

\* a decision as it is recorded now; an old one has no `enforced`
Decision ==
    [verdict : {"ALLOW", "DENY"}, enforced : BOOLEAN, driving : Nat \cup {None},
     unresolved : {None, "no_driving_args", "unresolved_argument"}]

ASSUME AbsentIsNoValue ==
    /\ None \notin Nat /\ None \notin Decision
    /\ None \notin {"no_driving_args", "unresolved_argument"}

FirstOf(S) == CHOOSE i \in S : \A j \in S : i <= j

(* the positions of a filtered sequence, in order *)
InOrder(S) ==
    [k \in 1 .. Cardinality(S) |-> CHOOSE i \in S : Cardinality({j \in S : j <= i}) = k]

----------------------------------------------------------------------------
(* verdicts.py: what was decided, and what was obeyed.  `enforced` is absent *)
(* in old traces, which were all enforced.                                   *)
WasEnforced(decision) == decision.enforced # FALSE
\* Mutant of ExecutedUnder: an unenforced denial counts as a block.
VerdictAlone(decision) == decision.verdict = "ALLOW"
ExecutedUnder(decision) == decision.verdict = "ALLOW" \/ ~WasEnforced(decision)
Contained(decision) == decision.verdict = "DENY" /\ WasEnforced(decision)

IsIntent(e) == e.type = "tool_call_intent"
IsDecision(e) == e.type = "gate_decision"
IsResult(e) == e.type = "tool_result"

ValueOf(trace, id) ==
    LET at == {i \in 1 .. Len(trace.values) : trace.values[i].id = id}
    IN  IF at = {} THEN None ELSE trace.values[CHOOSE i \in at : \A j \in at : j <= i]

EventsAt(trace, S) == [k \in 1 .. Cardinality(S) |-> trace.events[InOrder(S)[k]]]
Intents(trace) == EventsAt(trace, {i \in 1 .. Len(trace.events) : IsIntent(trace.events[i])})
Decisions(trace) ==
    EventsAt(trace, {i \in 1 .. Len(trace.events) : IsDecision(trace.events[i])})
Verdicts(trace) ==
    [i \in 1 .. Len(Decisions(trace)) |-> Decisions(trace)[i].decision.verdict]

----------------------------------------------------------------------------
(* TraceView *)
\* Mutant of Gated: every trace has a kernel.
AlwaysGated(trace) == TRUE
Gated(trace) == trace.kernel

(* the decision of the intent at i: by call_id anywhere in the trace, else *)
(* the next decision before the next intent                                *)
DecisionFor(events, i) ==
    LET byId == {j \in 1 .. Len(events) :
                    IsDecision(events[j]) /\ events[j].call = events[i].call}
        later == {j \in i + 1 .. Len(events) : IsDecision(events[j]) \/ IsIntent(events[j])}
        at == IF events[i].call # None THEN byId
              ELSE IF later # {} /\ IsDecision(events[FirstOf(later)]) THEN later ELSE {}
    IN  IF at = {} THEN None ELSE events[FirstOf(at)].decision

(* executed_tool_calls: where a gate ran, a call with no decision is        *)
(* incomplete; where none ran it is simply a call                           *)
Executed(trace, i) ==
    LET decision == DecisionFor(trace.events, i)
    IN  /\ IsIntent(trace.events[i])
        /\ IF decision = None THEN ~Gated(trace) ELSE ExecutedUnder(decision)

ExecutedCalls(trace) == {i \in 1 .. Len(trace.events) : Executed(trace, i)}

----------------------------------------------------------------------------
(* trace_semantics: what the schema cannot say.  Each conjunct is one kind   *)
(* of error, so the trace is accepted when all hold.                         *)
UnambiguousLedger(trace) ==
    /\ \A i, j \in 1 .. Len(trace.values) :
            trace.values[i].id = trace.values[j].id => i = j
    /\ \A i \in 1 .. Len(trace.values) :
            LET value == trace.values[i]
            IN  /\ value.hash # None
                /\ IF value.data # None THEN value.hash = value.data
                   ELSE "sensitive" \in value.labels

RefersToLedger(trace) ==
    LET ids == {trace.values[i].id : i \in 1 .. Len(trace.values)}
    IN  /\ \A i \in 1 .. Len(trace.events) :
             LET e == trace.events[i]
             IN  /\ IsIntent(e) => \A arg \in DOMAIN e.bound : e.bound[arg] \in ids
                 /\ IsResult(e) => e.makes \subseteq ids
                 /\ IsDecision(e) => IF e.decision.driving = None
                                     THEN e.decision.unresolved # None
                                     ELSE e.decision.driving \in ids
        /\ \A i \in 1 .. Len(trace.values) : trace.values[i].from \subseteq ids

OrderedPerNode(trace) ==
    \A i, j \in 1 .. Len(trace.events) :
        i < j /\ trace.events[i].node = trace.events[j].node
            => trace.events[i].seq < trace.events[j].seq

OneCallOneId(trace) ==
    \A i, j \in 1 .. Len(trace.events) :
        /\ i # j
        /\ trace.events[i].type = trace.events[j].type
        /\ trace.events[i].type # "tool_result"
        => trace.events[i].call = None \/ trace.events[i].call # trace.events[j].call

TraceSemantics(trace) ==
    /\ UnambiguousLedger(trace)
    /\ RefersToLedger(trace)
    /\ OrderedPerNode(trace)
    /\ OneCallOneId(trace)
=============================================================================
