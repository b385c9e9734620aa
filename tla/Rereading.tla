------------------------------ MODULE Rereading ------------------------------
(***************************************************************************)
(* What becomes of a recorded trial once it is stored: it is pinned, and   *)
(* later read again -- by another kernel, or after the file under its      *)
(* trace_id was changed.                                                   *)
(***************************************************************************)
EXTENDS AgentLoop

CONSTANT Kernels    \* the kernels a pin is checked under

ASSUME KernelsAreInstalled == "missing" \notin Kernels /\ None \notin Kernels

VARIABLES
    held,           \* what is under the trace_id when it is read again
    kernel          \* the kernel it is read under; None until then

storedVars == <<vars, held, kernel>>

RereadingInit == Init /\ held = None /\ kernel = None

----------------------------------------------------------------------------
(* the ways a stored trace can differ from the recorded one *)
Unnamed(t) == [t EXCEPT !.events = [i \in 1 .. Len(@) |-> [@[i] EXCEPT !.call = None]]]

Swapped(s, i) == [s EXCEPT ![i] = s[i + 1], ![i + 1] = s[i]]
Flip(verdict) == IF verdict = "DENY" THEN "ALLOW" ELSE "DENY"

Changed(t) ==
    LET n == Len(t.events)
    IN  {t, Unnamed(t)}
        \cup {[t EXCEPT !.events = SubSeq(@, 1, i)] : i \in 0 .. n - 1}
        \cup {[t EXCEPT !.events = RemoveAt(@, i)] : i \in 1 .. n}
        \cup {[t EXCEPT !.events = InsertAt(@, i, @[i])] : i \in 1 .. n}
        \cup {[t EXCEPT !.events = Swapped(@, i)] : i \in 1 .. n - 1}
        \cup {[t EXCEPT !.events[i].decision.verdict = Flip(@)] :
                i \in {j \in 1 .. n : IsDecision(t.events[j])}}
        \cup {[t EXCEPT !.events[i].decision.enforced = ~@] :
                i \in {j \in 1 .. n : IsDecision(t.events[j])}}
        \cup {[t EXCEPT !.values[i].data = None] : i \in 1 .. Len(t.values)}

ReadAgain ==
    /\ Done /\ held = None
    /\ held' \in Changed(trace)
    /\ kernel' \in Kernels
    /\ UNCHANGED vars

RereadingNext ==
    \/ Next /\ UNCHANGED <<held, kernel>>
    \/ ReadAgain

RereadingSpec == RereadingInit /\ [][RereadingNext]_storedVars

----------------------------------------------------------------------------
Read == kernel # None

HeldStatus == ReplayStatus(held, kernel, enforcement)
Checked(expected) == CheckPin(Pin(trace, expected), held, kernel, enforcement)

IsWhole(t) == \A i \in 1 .. Len(t.values) : t.values[i].data # None

(* A governed trace left alone reproduces its decisions, and is never       *)
(* reported as reproduced, nor claimed to be exactly replayable, when a     *)
(* value they turned on was redacted (replay.py, evidence.py).              *)
ReplayReproduces ==
    Read /\ governed /\ held = trace /\ kernel = "pinned" =>
        /\ HeldStatus = IF IsWhole(trace) THEN "match" ELSE "redacted_input_unavailable"
        /\ ClaimKind(trace, kernel, enforcement) = "exactly_replayable" <=> IsWhole(trace)

(* A trace that replays as a match, whatever was done to it since, counts   *)
(* no call as executed that the host did not run: replay and the predicates *)
(* pair decisions with intents by different rules.                          *)
MatchMeansRan ==
    Read /\ governed /\ kernel = "pinned" /\ HeldStatus = "match" =>
        \A i \in ExecutedCalls(held) :
            IF held.events[i].call = None
            THEN Cardinality(ExecutedCalls(held)) = Len(ran)
            ELSE \E k \in 1 .. Len(ran) : /\ ran[k].call = held.events[i].call
                                          /\ ran[k].tool = held.events[i].tool

(* A pin matches only the very trace it was made of, under a kernel that    *)
(* still decides the whole sequence; and whatever else it reports is given  *)
(* a cause (regression.py difference_reason).                               *)
PinTells ==
    Read /\ governed =>
        \A expected \in {v \in {"ALLOW", "DENY"} : CanPin(trace, v)} :
            IF Checked(expected).status = "matches_pinned_expected"
            THEN /\ held = trace /\ IsWhole(trace)
                 /\ RecomputedVerdicts(trace, kernel, enforcement) = Verdicts(trace)
            ELSE Causes(Pin(trace, expected), Checked(expected)) # {}

(* An evidence case and a claim are about one call: the tool they name is   *)
(* the one the decision was made on, and a denial for taint leads back to   *)
(* what an untrusted tool returned (evidence.py _chain, claims.py).  And it *)
(* says that a call was contained exactly when one was not run.             *)
ChainIsOneCall ==
    Read /\ governed /\ held \in {trace, Unnamed(trace)} /\ Verdicts(trace) # <<>> =>
        LET at == TargetDecision(held)
            chain == Chain(held)
        IN  /\ chain.tool \in {None, held.events[at - 1].tool}
            /\ FirstDenial(held) # {} => DenyClaim(held).tool = chain.tool
            /\ ObservedContained(held) <=> Len(ran) < Len(Intents(held))
            /\ chain.verdict.verdict = "DENY" /\ IsWhole(trace) =>
                    \E e \in Range(trace.events) :
                        IsResult(e) /\ e.tool \in Untrusted /\ e.makes \cap chain.provenance # {}
=============================================================================
