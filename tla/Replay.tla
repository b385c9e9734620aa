------------------------------- MODULE Replay -------------------------------
(***************************************************************************)
(* lab_capabilities/governance: what is made of a frozen trace.  Exact     *)
(* replay recomputes its decisions (replay.py), a pin holds it to the      *)
(* verdicts it recorded (regression.py), and an evidence case tells one    *)
(* decision's story (evidence.py, claims.py).                              *)
(*                                                                         *)
(* The kernel is external: ToolCallGovernor decides by content.  An egress *)
(* call is denied when its argument was registered as the output of an     *)
(* untrusted source, and once a sensitive source was read at all (the      *)
(* confidentiality floor).                                                 *)
(***************************************************************************)
EXTENDS Trace

CONSTANTS
    Egress,       \* the tools whose effect resolves to EXPORT or EXEC
    Untrusted,    \* the tools with untrusted_fields
    Sensitive,    \* the tools with sensitive_fields
    Driven        \* the tools that declare a driving argument, "to"

(* A kernel that decides otherwise, for a candidate: "pinned", "lax" (no   *)
(* gate denies) or "strict" (every egress is denied).                      *)
Denies(kernel, registered, armed, tool, data) ==
    /\ tool \in Egress
    /\ CASE kernel = "pinned" -> data \in registered \/ armed
         [] kernel = "lax"    -> FALSE
         [] kernel = "strict" -> TRUE

(* gate_with_governor: enforcement is recorded, it does not select *)
GateWithGovernor(kernel, enforcement, registered, armed, tool, bound, data) ==
    [verdict    |-> IF Denies(kernel, registered, armed, tool, data) THEN "DENY" ELSE "ALLOW",
     enforced   |-> enforcement # "off",
     driving    |-> IF tool \in Driven /\ "to" \in DOMAIN bound THEN bound["to"] ELSE None,
     unresolved |-> IF tool \notin Driven THEN "no_driving_args"
                    ELSE IF "to" \notin DOMAIN bound THEN "unresolved_argument"
                    ELSE None]

\* Mutant of VerdictCore: enforcement is not compared.
CoreWithoutEnforced(decision) ==
    [verdict |-> decision.verdict, driving |-> decision.driving]
VerdictCore(decision) ==
    [verdict    |-> decision.verdict,
     enforced   |-> WasEnforced(decision),
     driving    |-> decision.driving,
     unresolved |-> IF decision.driving = None THEN decision.unresolved ELSE None]

----------------------------------------------------------------------------
(* replay_trace_status reads the events in order, with                     *)
(*   pending    the intents (their positions) with no decision yet         *)
(*   decided    the call_ids that have one                                 *)
(*   registered the untrusted outputs the governor is given again          *)
Start == [pending |-> {}, decided |-> {}, registered |-> {}, armed |-> FALSE,
          recomputed |-> <<>>, matched |-> TRUE, malformed |-> FALSE, redacted |-> FALSE]

(* by_call_id: the last intent so far under this id *)
IntentCalled(trace, id, before) ==
    {j \in 1 .. before : IsIntent(trace.events[j]) /\ trace.events[j].call = id}

(* _match_intent: the position of the intent a decision pairs with, or 0 *)
MatchIntent(trace, i, st) ==
    LET e == trace.events[i]
        known == IntentCalled(trace, e.call, i)
        waiting == {j \in st.pending : trace.events[j].node = e.node}
    IN  IF e.call # None
        THEN IF known = {} \/ e.call \in st.decided THEN 0
             ELSE CHOOSE j \in known : \A k \in known : k <= j
        ELSE IF waiting = {} THEN 0 ELSE FirstOf(waiting)

(* A redacted untrusted output cannot be registered again.  The floor is    *)
(* armed by a registration from a sensitive source, and only untrusted      *)
(* outputs are registered.                                                  *)
\* Mutant of ReadResult: a missing value is skipped silently.
RegistersWhatIsThere(trace, i, st) ==
    [st EXCEPT !.registered = @ \cup {ValueOf(trace, id).data : id \in
        {v \in trace.events[i].makes : ValueOf(trace, v).data # None}}]
ReadResult(trace, i, st) ==
    LET e == trace.events[i]
        tainted == {id \in e.makes : ValueOf(trace, id) # None
                        /\ "untrusted" \in ValueOf(trace, id).labels}
        kept == {id \in tainted : ValueOf(trace, id).data # None}
    IN  [st EXCEPT !.registered = @ \cup {ValueOf(trace, id).data : id \in kept},
                   !.armed = @ \/ (kept # {} /\ e.tool \in Sensitive),
                   !.redacted = @ \/ kept # tainted]

(* a bound value that is redacted leaves the decision not recomputed *)
ReadDecision(trace, i, kernel, enforcement, st) ==
    LET e == trace.events[i]
        at == MatchIntent(trace, i, st)
        bound == trace.events[at].bound
        lost == \E arg \in DOMAIN bound : ValueOf(trace, bound[arg]) = None
                    \/ ValueOf(trace, bound[arg]).data = None
        data == IF "to" \in DOMAIN bound THEN ValueOf(trace, bound["to"]).data ELSE None
        again == GateWithGovernor(kernel, enforcement, st.registered, st.armed,
                                  trace.events[at].tool, bound, data)
        paired == [st EXCEPT !.pending = {j \in @ : j # at \/ trace.events[j].node # e.node},
                             !.decided = @ \cup ({e.call} \ {None})]
    IN  IF at = 0 THEN [st EXCEPT !.malformed = TRUE]
        ELSE IF lost THEN [paired EXCEPT !.redacted = TRUE]
        ELSE [paired EXCEPT !.recomputed = Append(@, again),
                            !.matched = @ /\ VerdictCore(again) = VerdictCore(e.decision)]

ReadEvent(trace, i, kernel, enforcement, st) ==
    CASE IsResult(trace.events[i])   -> ReadResult(trace, i, st)
      [] IsIntent(trace.events[i])   -> [st EXCEPT !.pending = @ \cup {i}]
      [] IsDecision(trace.events[i]) -> ReadDecision(trace, i, kernel, enforcement, st)

ReplayState(trace, kernel, enforcement) ==
    LET after[n \in 0 .. Len(trace.events)] ==
            IF n = 0 THEN Start ELSE ReadEvent(trace, n, kernel, enforcement, after[n - 1])
    IN  after[Len(trace.events)]

ASSUME AbsentIsNoStatus ==
    None \notin {"match", "mismatch", "malformed_trace", "redacted_input_unavailable"}

StatusOf(st) ==
    CASE st.malformed \/ st.pending # {} -> "malformed_trace"
      [] OTHER -> IF st.redacted THEN "redacted_input_unavailable"
                  ELSE IF st.matched THEN "match" ELSE "mismatch"

(* replay_bundle resolves the kernel of the trace's own condition: a build *)
(* that is not installed is a status, not a replay                         *)
ReplayStatus(trace, kernel, enforcement) ==
    IF kernel = "missing" THEN "unsupported_kernel"
    ELSE StatusOf(ReplayState(trace, kernel, enforcement))
RecomputedVerdicts(trace, kernel, enforcement) ==
    LET decisions == ReplayState(trace, kernel, enforcement).recomputed
    IN  [i \in 1 .. Len(decisions) |-> decisions[i].verdict]

----------------------------------------------------------------------------
(* regression.py *)
CanPin(trace, expected) ==
    Verdicts(trace) # <<>> => expected = Last(Verdicts(trace))
Pin(trace, expected) ==
    [ref      |-> trace,        \* content_hash(trace): only the same trace has it
     expected |-> expected,
     sequence |-> IF Verdicts(trace) = <<>> THEN <<expected>> ELSE Verdicts(trace)]

(* check_pins for one pin: `trace` is what is under its trace_id now *)
\* Mutant of CheckPin: the recomputed verdicts without their status.
CheckPinUnverified(pin, trace, kernel, enforcement) ==
    [status |-> IF RecomputedVerdicts(trace, kernel, enforcement) = pin.sequence
                THEN "matches_pinned_expected" ELSE "differs_from_pinned_expected",
     replay |-> ReplayStatus(trace, kernel, enforcement),
     actual |-> RecomputedVerdicts(trace, kernel, enforcement)]
Unchecked(status) == [status |-> status, replay |-> None, actual |-> <<>>]
CheckPin(pin, trace, kernel, enforcement) ==
    LET replay == ReplayStatus(trace, kernel, enforcement)
        actual == RecomputedVerdicts(trace, kernel, enforcement)
    IN  IF trace = None THEN Unchecked("pinned_trace_missing")
        ELSE IF trace # pin.ref THEN Unchecked("pinned_trace_tampered")
        ELSE IF kernel = "missing" THEN Unchecked("pinned_kernel_unsupported")
        ELSE IF replay = "malformed_trace"
             THEN [status |-> "pinned_trace_malformed", replay |-> replay, actual |-> <<>>]
        ELSE [status |-> IF replay = "match" /\ actual = pin.sequence
                         THEN "matches_pinned_expected" ELSE "differs_from_pinned_expected",
              replay |-> replay, actual |-> actual]

(* difference_reason: the causes it states; {} is "unexplained" *)
Causes(pin, result) ==
    CASE result.status \in {"pinned_trace_missing", "pinned_trace_tampered"} -> {result.status}
      [] OTHER ->
            (IF result.status = "differs_from_pinned_expected" /\ result.actual # pin.sequence
             THEN {"sequence"} ELSE {})
            \cup ({result.replay} \ {None, "match"})

----------------------------------------------------------------------------
(* evidence.py and claims.py: the decision a case is about, and its call *)
FirstDenial(trace) ==
    {i \in 1 .. Len(trace.events) : /\ IsDecision(trace.events[i])
                                    /\ trace.events[i].decision.verdict = "DENY"}
TargetDecision(trace) ==
    IF FirstDenial(trace) # {} THEN FirstOf(FirstDenial(trace))
    ELSE FirstOf({i \in 1 .. Len(trace.events) : IsDecision(trace.events[i])})

(* by call_id; a legacy trace is only safe with a single intent *)
\* Mutant of CallOf: the first intent of the trace.
CallOfFirst(trace, i) == Intents(trace)[1].tool
CallOf(trace, i) ==
    LET byId == IF trace.events[i].call = None THEN {}
                ELSE IntentCalled(trace, trace.events[i].call, Len(trace.events))
    IN  IF byId # {} THEN trace.events[FirstOf(byId)].tool
        ELSE IF Len(Intents(trace)) = 1 THEN Intents(trace)[1].tool ELSE None

(* the driving value and everything it was derived from *)
Lineage(trace, i) ==
    LET ids == {trace.values[k].id : k \in 1 .. Len(trace.values)}
        grow[n \in 0 .. Len(trace.values)] ==
            IF n = 0 THEN {trace.events[i].decision.driving} \cap ids
            ELSE grow[n - 1] \cup
                 (ids \cap UNION {ValueOf(trace, id).from : id \in grow[n - 1]})
    IN  grow[Len(trace.values)]

Chain(trace) ==
    LET i == TargetDecision(trace)
    IN  [verdict |-> trace.events[i].decision, tool |-> CallOf(trace, i),
         provenance |-> Lineage(trace, i)]

(* deny_claim_text: what the claim asserts of the recorded denial *)
DenyClaim(trace) ==
    IF FirstDenial(trace) = {} THEN [tool |-> None, driving |-> None]
    ELSE [tool    |-> CallOf(trace, FirstOf(FirstDenial(trace))),
          driving |-> trace.events[FirstOf(FirstDenial(trace))].decision.driving]

(* the counterfactual is exact unless the replay had nothing to go on *)
ClaimKind(trace, kernel, enforcement) ==
    IF ReplayStatus(trace, kernel, enforcement)
            \in {"malformed_trace", "redacted_input_unavailable"}
    THEN "not_exactly_replayable" ELSE "exactly_replayable"

ObservedContained(trace) ==
    \E i \in 1 .. Len(trace.events) :
        IsDecision(trace.events[i]) /\ Contained(trace.events[i].decision)
=============================================================================
