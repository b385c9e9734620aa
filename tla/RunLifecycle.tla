---------------------------- MODULE RunLifecycle ----------------------------
(***************************************************************************)
(* What the rest of the platform may rely on about one run of the          *)
(* runtime-jobs surface: the states an operator's screen shows and the set *)
(* of trials that have a result.  No storage, no threads, no traces and no *)
(* crashes: a server restart is invisible here, so an implementation that  *)
(* crashes implements this module only if what it acknowledged is saved.   *)
(* RuntimeJobs implements it; RunStream is built on it.                     *)
(***************************************************************************)
CONSTANTS
    Units,      \* the trial units a runtime may name
    Plans       \* the plans a run may be created with; {} is no plan

ASSUME PlanAssumption == Plans \subseteq SUBSET Units

VARIABLES
    planned,    \* the units this run plans
    state,      \* "none" before the run exists
    finished    \* the units whose trial is completed or failed

lifecycleVars == <<planned, state, finished>>

Waiting  == {"awaiting_confirmation", "waiting_for_runtime"}
Open     == {"running", "receiving_traces", "analyzing", "completed"}
Terminal == {"completed", "failed", "cancelled"}
States   == {"none"} \cup Waiting \cup Open \cup Terminal

Admitted(u) == planned # {} => u \in planned

LifecycleInit == planned = {} /\ state = "none" /\ finished = {}

Create ==
    /\ state = "none"
    /\ planned' \in Plans
    /\ state' \in Waiting
    /\ UNCHANGED finished

Confirm ==
    /\ state = "awaiting_confirmation"
    /\ state' = "waiting_for_runtime"
    /\ UNCHANGED <<planned, finished>>

Claim ==
    /\ state = "waiting_for_runtime"
    /\ state' = "running"
    /\ UNCHANGED <<planned, finished>>

\* A unit is in flight (again): whatever the run had reached, it is receiving.
Receive(u) ==
    /\ state \in Open
    /\ Admitted(u)
    /\ state' = "receiving_traces"
    /\ finished' = finished \ {u}
    /\ UNCHANGED planned

\* Where a run stands once the units of done have a result.
AfterResult(done) ==
    IF planned = {} THEN "analyzing"
    ELSE IF planned \subseteq done /\ state \notin Terminal THEN "analyzing"
    ELSE state

\* A unit has a result: the first, or one that supersedes an earlier one.
Result(u) ==
    /\ state \in Open
    /\ Admitted(u)
    /\ finished' = finished \cup {u}
    /\ state' = AfterResult(finished')
    /\ UNCHANGED planned

\* The report is in, or the operator posted the aggregates.
Complete ==
    /\ state \in Open \ {"completed"}
    /\ state' = "completed"
    /\ UNCHANGED <<planned, finished>>

Cancel ==
    /\ state \notin Terminal \cup {"none"}
    /\ state' = "cancelled"
    /\ UNCHANGED <<planned, finished>>

LifecycleNext ==
    \/ Create
    \/ Confirm
    \/ Claim
    \/ \E u \in Units : Receive(u) \/ Result(u)
    \/ Complete
    \/ Cancel

LifecycleSpec == LifecycleInit /\ [][LifecycleNext]_lifecycleVars
=============================================================================
