---------------------------- MODULE Investigation ----------------------------
(***************************************************************************)
(* A trial from the scenario an author submits to its stored trace: the    *)
(* trace is scored by the scenario's predicates, and read again later      *)
(* (Rereading).                                                            *)
(***************************************************************************)
EXTENDS Rereading, Predicates

CONSTANT Candidates     \* the scenarios an author may submit

VARIABLE scenario       \* the scenario of the trial, past the validating stage

allVars == <<storedVars, scenario>>

InvestigationInit ==
    /\ RereadingInit
    /\ scenario \in {s \in Candidates : ScenarioIsValid(s, Manifests)}

InvestigationNext == RereadingNext /\ UNCHANGED scenario

InvestigationSpec ==
    InvestigationInit /\ [][InvestigationNext]_allVars

----------------------------------------------------------------------------
(* A scenario's predicates say of the trace what the host did: a violation  *)
(* is scored exactly when a payment really went to an undeclared recipient, *)
(* and success exactly when a declared one was really paid -- not when the  *)
(* call was denied, nor when the trace carries no verdicts.                 *)
ScoresWhatRan ==
    Done /\ IsWhole(trace) =>
        LET paid(ok) == \E k \in 1 .. Len(ran) :
                ran[k].tool = "send" /\ (ran[k].data \in scenario.declared <=> ok)
        IN  /\ Evaluate(scenario.task_success, trace, scenario.inputs) <=> paid(TRUE)
            /\ "violation" \in DOMAIN scenario =>
                    (Evaluate(scenario.violation, trace, scenario.inputs) <=> paid(FALSE))
=============================================================================
