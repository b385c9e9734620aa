------------------------------ MODULE AgentLoop ------------------------------
(***************************************************************************)
(* lab_runner/loop.py: one trial as a general agent loop, on the wrapped   *)
(* toolset of wrap_engine.py and the simulated host of simulator.py, and   *)
(* the trace it leaves.                                                    *)
(*                                                                         *)
(* The agent is external: at each step it proposes any call or finishes.   *)
(* The toolset (axor_wrap) is external too: it records the intent and the  *)
(* kernel's decision, runs the callable unless an enforced denial stops    *)
(* it, and records the result.                                             *)
(***************************************************************************)
EXTENDS Replay

CONSTANTS
    Proposals,      \* the calls <<tool, argument>> an agent may propose
    Manifests,      \* [tool -> manifest], for the tools the scenario declares
    Data,           \* the values an argument can have
    Fixtures,       \* [tool -> what it returns: the scenario's fixture or, of a
                    \* side-effecting tool, the answer of its adapter]
    Injected,       \* the injected text
    Arms,           \* the arms looked at
    MaxSteps, MaxToolCalls

ASSUME LoopAssumption ==
    /\ \A p \in Proposals : p[2] \in Data \cup {None}
    /\ Arms \subseteq {"on", "off", "ungoverned"}
    /\ MaxSteps \in Nat /\ MaxToolCalls \in Nat
    /\ None \notin Data /\ Injected \in Data
    /\ \A tool \in DOMAIN Manifests : Fixtures[tool].result # None
    /\ None \notin {"finished", "max_steps", "max_tool_calls", "raised"}

(* external: a value of the ledger, redacted when its `data` is None *)
Contents == Data \cup {Injected} \cup {Fixtures[tool].result : tool \in DOMAIN Manifests}
LedgerValue ==
    [id : Nat, labels : SUBSET {"untrusted", "sensitive"}, from : SUBSET Nat,
     hash : Contents, data : Contents \cup {None}]

ASSUME AbsentIsNotInLedger == None \notin LedgerValue

VARIABLES
    arm,            \* the condition's enforcement, or no gate at all
    events, values, \* what the toolset recorded
    registered, armed,  \* the governor's session: tainted values, and the floor
    ran,            \* what the host really did: the calls, in order
    emitted, tool_calls, model_calls,
    stop_reason,    \* None while the loop runs; "raised" when the trial failed
    trace           \* what finalize_trace returned

vars == <<arm, events, values, registered, armed, ran, emitted, tool_calls,
          model_calls, stop_reason, trace>>

governed == arm # "ungoverned"
enforcement == IF arm = "on" THEN "on" ELSE "off"    \* make_toolset

Init ==
    /\ arm \in Arms
    /\ events = <<>> /\ values = <<>> /\ registered = {} /\ armed = FALSE /\ ran = <<>>
    /\ emitted = 0 /\ tool_calls = 0 /\ model_calls = 0
    /\ stop_reason = None /\ trace = None

----------------------------------------------------------------------------
(* _strip_governance: no verdict, no kernel, and the sequence dense again *)
Strip(recorded) ==
    LET kept == InOrder({i \in 1 .. Len(recorded.events) : ~IsDecision(recorded.events[i])})
    IN  [kernel |-> FALSE, values |-> recorded.values,
         events |-> [i \in 1 .. Len(kept) |-> [recorded.events[kept[i]] EXCEPT !.seq = i - 1]]]

FinalizeTrace ==
    LET recorded == [kernel |-> TRUE, events |-> events, values |-> values]
    IN  IF governed THEN recorded ELSE Strip(recorded)

Stop(reason) ==
    /\ stop_reason' = reason
    /\ trace' = FinalizeTrace
    /\ UNCHANGED <<arm, events, values, registered, armed, ran, emitted, tool_calls>>

(* the budget on the size of the trace, checked before the model is asked *)
OutOfSteps ==
    /\ stop_reason = None /\ emitted >= MaxSteps
    /\ Stop("max_steps") /\ UNCHANGED model_calls

Asked == stop_reason = None /\ emitted < MaxSteps /\ model_calls' = model_calls + 1

Finish == Asked /\ Stop("finished")

(* the model asked for one call too many *)
OutOfCalls == Asked /\ tool_calls >= MaxToolCalls /\ Stop("max_tool_calls")

----------------------------------------------------------------------------
(* simulator.py, execute: what a call on the host returns, or None when it  *)
(* raises.  A manifest is [effect, args, simulation, ...]; real execution   *)
(* is never asked for by the callables of tool_callables.                   *)
ArgsFit(tool, bound) == Manifests[tool].required \subseteq DOMAIN bound
Simulatable(tool) == Manifests[tool].simulation = "supported"

(* $injection is put in the fixture's result where the scenario places it *)
FixtureResult(tool) == IF Fixtures[tool].placed THEN Injected ELSE Fixtures[tool].result

HostRuns(tool, bound) ==
    /\ ArgsFit(tool, bound)
    /\ Manifests[tool].side_effecting => Simulatable(tool)

(* external: the ledger value a result or an argument becomes.  An argument *)
(* carries the labels of every value it was read from, and a sensitive one  *)
(* is redacted.                                                             *)
Value(id, labels, data, from) ==
    [id |-> id, labels |-> labels, from |-> from, hash |-> data,
     data |-> IF "sensitive" \in labels THEN None ELSE data]

SourcesOf(data) == {i \in 1 .. Len(values) : values[i].hash = data /\ values[i].labels # {}}
ArgumentValue(data) ==
    Value(Len(values) + 1, UNION {values[i].labels : i \in SourcesOf(data)}, data, SourcesOf(data))
ResultLabels(tool) ==
    (IF tool \in Untrusted THEN {"untrusted"} ELSE {})
        \cup (IF tool \in Sensitive THEN {"sensitive"} ELSE {})

(* toolset.call: intent, decision, and the call unless an enforced denial *)
(* raises ToolDenied                                                      *)
Call(tool, data) ==
    LET n == Len(events)
        call == tool_calls + 1
        bound == IF data = None THEN <<>> ELSE [arg \in {"to"} |-> Len(values) + 1]
        ledger == IF data = None THEN values ELSE Append(values, ArgumentValue(data))
        decision == GateWithGovernor("pinned", enforcement, registered, armed, tool, bound, data)
        asked == <<[type |-> "tool_call_intent", node |-> "root", seq |-> n, call |-> call,
                    tool |-> tool, bound |-> bound],
                   [type |-> "gate_decision", node |-> "root", seq |-> n + 1, call |-> call,
                    decision |-> decision]>>
        made == Value(Len(ledger) + 1, ResultLabels(tool), FixtureResult(tool), {})
        result == [type |-> "tool_result", node |-> "root", seq |-> n + 2, call |-> call,
                   tool |-> tool, makes |-> {made.id}]
    IN  /\ Asked /\ tool_calls < MaxToolCalls /\ tool \in DOMAIN Manifests
        /\ tool_calls' = call
        /\ \/ /\ Contained(decision)
              /\ events' = events \o asked /\ values' = ledger
              /\ emitted' = emitted + 1 + (IF governed THEN 1 ELSE 0)
              /\ UNCHANGED <<registered, armed, ran, stop_reason>>
           \/ /\ ~Contained(decision) /\ HostRuns(tool, bound)
              /\ events' = Append(events \o asked, result)
              /\ values' = Append(ledger, made)
              /\ registered' = registered \cup
                    (IF tool \in Untrusted THEN {FixtureResult(tool)} ELSE {})
              /\ armed' = (armed \/ tool \in Sensitive)
              /\ ran' = Append(ran, [tool |-> tool, data |-> data, call |-> call])
              /\ emitted' = emitted + 1 + (IF governed THEN 1 ELSE 0) + 1
              /\ UNCHANGED stop_reason
           \/ /\ ~Contained(decision) /\ ~HostRuns(tool, bound)
              /\ stop_reason' = "raised"      \* SimulationError ends the trial
              /\ UNCHANGED <<events, values, registered, armed, ran, emitted>>
        /\ UNCHANGED <<arm, trace>>

(* a tool the scenario does not declare: KeyError *)
UnknownTool(tool) ==
    /\ Asked /\ tool_calls < MaxToolCalls /\ tool \notin DOMAIN Manifests
    /\ stop_reason' = "raised"
    /\ UNCHANGED <<arm, events, values, registered, armed, ran, emitted, tool_calls, trace>>

Next ==
    \/ OutOfSteps \/ Finish \/ OutOfCalls
    \/ \E p \in Proposals : Call(p[1], p[2]) \/ UnknownTool(p[1])

Spec == Init /\ [][Next]_vars

----------------------------------------------------------------------------
Done == trace # None

TypeOK ==
    /\ arm \in Arms
    /\ emitted \in Nat /\ tool_calls \in Nat /\ model_calls \in Nat
    /\ stop_reason \in {None, "finished", "max_steps", "max_tool_calls", "raised"}
    /\ Done <=> stop_reason \notin {None, "raised"}

(* The calls a reader of the finished trace counts as executed are exactly  *)
(* the calls the host ran, in order, in every arm: a denial nobody enforced *)
(* counts, one that was enforced does not, and a trace stripped of its      *)
(* verdicts still tells (predicates.py executed_tool_calls).                *)
ReadingIsWhatRan ==
    Done => LET read == InOrder(ExecutedCalls(trace))
            IN  /\ Len(read) = Len(ran)
                /\ \A k \in 1 .. Len(read) : trace.events[read[k]].tool = ran[k].tool

(* The loop's own count of what the trace will hold is the size of the      *)
(* trace, so the step budget bounds it, whatever the agent does (loop.py    *)
(* 215-217).                                                                *)
BudgetIsTraceSize ==
    Done => /\ emitted = Len(trace.events)
            /\ emitted <= MaxSteps + 2
            /\ tool_calls <= MaxToolCalls

(* A finished trace is what ran, call for call and event for event, and one *)
(* that the validator of uploads takes (semantics.py trace_semantics):      *)
(* stripping its verdicts leaves a dense, resolvable trace.                 *)
TraceIsWhatRan ==
    ReadingIsWhatRan /\ BudgetIsTraceSize /\ (Done => TraceSemantics(trace))
=============================================================================
