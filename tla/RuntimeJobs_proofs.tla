-------------------------- MODULE RuntimeJobs_proofs --------------------------
(***************************************************************************)
(* Theorems about RuntimeJobs, for every set of units, plans, traces and   *)
(* handler threads, every environment and every bound.                     *)
(***************************************************************************)
EXTENDS RuntimeJobs, TLAPS

USE DEF Waiting, Terminal, Closed, States, Done

LEMMA BodiesFacts ==
    /\ NoTrace \in Bodies
    /\ Traces \subseteq Bodies
    /\ Empty \in Reports
  BY DEF Bodies, Empty, Reports

LEMMA IdleTyped == Idle \in Fins
  BY BodiesFacts DEF Idle, Fins, FinSteps

LEMMA NewTrialTyped == NewTrial \in Trials
  BY BodiesFacts, ParamAssumption DEF NewTrial, Trials

\* A save, also one that raises, leaves a row of the right shape.
RowTyped == row \in Rows /\ refusals \in 0..MaxRefusals /\ unsaved \in BOOLEAN

LEMMA SaveTyped ==
  ASSUME RowTyped, state' \in States, trial' \in [Units -> Trials],
         aggregates' \in Reports \cup {Posted}, Save
  PROVE  RowTyped'
  <1>1. row' \in Rows
    BY DEF Save, Rows, RowTyped
  <1>2. refusals' \in 0..MaxRefusals
    <2>1. refusals \in 0..MaxRefusals /\ MaxRefusals \in Nat
      BY ParamAssumption DEF RowTyped
    <2>2. refusals' = refusals \/ (refusals < MaxRefusals /\ refusals' = refusals + 1)
      BY DEF Save
    <2> QED BY <2>1, <2>2
  <1>3. unsaved' \in BOOLEAN
    BY DEF Save
  <1> QED BY <1>1, <1>2, <1>3 DEF RowTyped

LEMMA StepTyped ==
  ASSUME NEW w \in Workers, NEW pc \in FinSteps, fin \in [Workers -> Fins], Step(w, pc)
  PROVE  fin' \in [Workers -> Fins]
  BY DEF Step, Fins

LEMMA StartTyped ==
  ASSUME NEW w \in Workers, fin \in [Workers -> Fins], StartFinalizer(w)
  PROVE  fin' \in [Workers -> Fins]
  <1>1. [Idle EXCEPT !.pc = "collect"] \in Fins
    BY IdleTyped DEF Fins, FinSteps
  <1> QED BY <1>1 DEF StartFinalizer

\* A unit that starts over keeps a well-formed trial.
LEMMA RestartedTyped ==
  ASSUME NEW t \in Trials, t.status \in Done => t.attempt < MaxAttempts
  PROVE  Restarted(t) \in Trials
  <1>1. CASE t.status \in Done
    <2>1. t.attempt + 1 \in 0..MaxAttempts
      BY <1>1, ParamAssumption DEF Trials
    <2> QED BY <1>1, <2>1, BodiesFacts DEF Restarted, Trials
  <1>2. CASE t.status = "absent"
    <2>1. 1 \in 0..MaxAttempts
      BY ParamAssumption
    <2>2. Restarted(t) = [t EXCEPT !.status = "pending", !.attempt = 1]
      BY <1>2 DEF Restarted
    <2> QED BY <2>1, <2>2 DEF Trials
  <1>3. CASE t.status = "pending"
    BY <1>3 DEF Restarted, Trials
  <1> QED BY <1>1, <1>2, <1>3 DEF Trials

LEMMA SupersedingTyped ==
  ASSUME NEW t \in Trials, NEW status \in Done, NEW body \in Bodies,
         NEW measured \in BOOLEAN, t.status \in Done => t.attempt < MaxAttempts
  PROVE  Superseding(t, status, body, measured) \in Trials
  <1> DEFINE n == IF t.status \in Done THEN t.attempt + 1
                  ELSE IF t.status = "absent" THEN 1 ELSE t.attempt
  <1>1. n \in 0..MaxAttempts
    BY ParamAssumption DEF Trials
  <1>2. (IF measured THEN NoTrace ELSE t.verdict) \in Bodies
    BY BodiesFacts DEF Trials
  <1> QED BY <1>1, <1>2 DEF Superseding, Trials

\* The type invariant is inductive.
LEMMA TypeInit == Init => TypeOK
  <1> SUFFICES ASSUME Init PROVE TypeOK OBVIOUS
  <1>1. /\ trial \in [Units -> Trials]
        /\ aggregates \in Reports \cup {Posted}
        /\ row \in Rows
    BY NewTrialTyped, BodiesFacts DEF Init, Rows
  <1>2. fin \in [Workers -> Fins]
    BY IdleTyped DEF Init
  <1>3. refusals \in 0..MaxRefusals /\ crashes \in 0..MaxCrashes
    BY ParamAssumption DEF Init
  <1>4. unsaved \in BOOLEAN
    BY DEF Init
  <1> QED BY <1>1, <1>2, <1>3, <1>4 DEF Init, TypeOK

\* Operations of the operator and the runtime.
LEMMA TypeRequests ==
  ASSUME TypeOK, Operator \/ Runtime
  PROVE  TypeOK'
  <1> USE DEF TypeOK, RowTyped, rowVars, jobVars, fixedVars, shelfVars, procVars
  <1>1. ASSUME NEW k \in Kinds, NEW plan \in Plans, NEW confirm \in BOOLEAN,
               CreateRun(k, plan, confirm)
        PROVE  TypeOK'
    <2>1. RowTyped'
      BY <1>1, SaveTyped DEF CreateRun
    <2>2. plan \subseteq Units /\ k \in {"suite", "refs", "raw"}
      BY ParamAssumption
    <2> QED BY <1>1, <2>1, <2>2 DEF CreateRun
  <1>2. CASE ConfirmRun
    <2>1. RowTyped'
      BY <1>2, SaveTyped DEF ConfirmRun
    <2> QED BY <1>2, <2>1 DEF ConfirmRun
  <1>3. CASE CancelRun
    <2>1. RowTyped'
      BY <1>3, SaveTyped DEF CancelRun
    <2> QED BY <1>3, <2>1 DEF CancelRun
  <1>4. CASE AttachAggregates
    <2>1. state' \in States
      BY <1>4 DEF AttachAggregates
    <2>2. RowTyped'
      BY <1>4, <2>1, SaveTyped DEF AttachAggregates
    <2> QED BY <1>4, <2>1, <2>2 DEF AttachAggregates
  <1>5. CASE Claim
    <2>1. RowTyped'
      BY <1>5, SaveTyped DEF Claim
    <2> QED BY <1>5, <2>1 DEF Claim
  <1>6. ASSUME NEW u \in Units, AppendEvents(u)
        PROVE  TypeOK'
    <2>1. trial' \in [Units -> Trials]
      BY <1>6, RestartedTyped DEF AppendEvents
    <2>2. RowTyped'
      BY <1>6, <2>1, SaveTyped DEF AppendEvents
    <2> QED BY <1>6, <2>1, <2>2 DEF AppendEvents
  <1>7. ASSUME NEW w \in Workers, NEW u \in Units, RedeliverTrial(w, u)
        PROVE  TypeOK'
    <2>1. fin' \in [Workers -> Fins]
      BY <1>7, StartTyped DEF RedeliverTrial
    <2> QED BY <1>7, <2>1 DEF RedeliverTrial
  <1>8. ASSUME NEW w \in Workers, NEW u \in Units, NEW status \in Done,
               NEW body \in Bodies, NEW measured \in BOOLEAN,
               CompleteTrial(w, u, status, body, measured)
        PROVE  TypeOK'
    <2>1. trial' \in [Units -> Trials]
      BY <1>8, SupersedingTyped DEF CompleteTrial
    <2>2. state' \in States
      BY <1>8 DEF CompleteTrial, AfterResult
    <2>3. RowTyped'
      BY <1>8, <2>1, <2>2, SaveTyped DEF CompleteTrial
    <2>4. fin' \in [Workers -> Fins]
      BY <1>8, StartTyped DEF CompleteTrial
    <2> QED BY <1>8, <2>1, <2>2, <2>3, <2>4 DEF CompleteTrial
  <1> QED BY <1>1, <1>2, <1>3, <1>4, <1>5, <1>6, <1>7, <1>8 DEF Operator, Runtime

\* Steps of a finalizer.
LEMMA TypeFinalize ==
  ASSUME TypeOK, NEW w \in Workers, Finalize(w)
  PROVE  TypeOK'
  <1> USE DEF TypeOK, RowTyped, rowVars, jobVars, fixedVars, shelfVars, procVars
  <1>0. fin[w] \in Fins
    OBVIOUS
  <1>1. CASE FinCollect(w)
    <2>1. Collected \in Reports /\ CasesOf(Collected) \subseteq Units \X Breaches
      BY BodiesFacts DEF Collected, Reports, CasesOf, Trials
    <2>2. /\ [pc |-> "metrics", report |-> Collected, cases |-> CasesOf(Collected)] \in Fins
          /\ [Idle EXCEPT !.pc = "mark"] \in Fins
      BY <2>1, IdleTyped DEF Fins, FinSteps
    <2>3. fin' \in [Workers -> Fins]
      BY <1>1, <2>2 DEF FinCollect
    <2> QED BY <1>1, <2>3 DEF FinCollect
  <1>2. CASE FinMetrics(w)
    <2>1. trial' \in [Units -> Trials]
      <3>1. ASSUME NEW u \in Units
            PROVE  [trial[u] EXCEPT !.verdict = fin[w].report[u]] \in Trials
        <4>1. trial[u] \in Trials /\ fin[w].report[u] \in Bodies
          BY <1>0 DEF Fins, Reports
        <4> QED BY <4>1 DEF Trials
      <3> QED BY <1>2, <3>1 DEF FinMetrics
    <2>2. fin' \in [Workers -> Fins]
      BY <1>2, StepTyped DEF FinMetrics, FinSteps
    <2> QED BY <1>2, <2>1, <2>2 DEF FinMetrics
  <1>3. CASE FinEvidence(w)
    <2>1. PICK c \in fin[w].cases :
             /\ evidence' \in {evidence, evidence \cup {c}}
             /\ fin' = [fin EXCEPT ![w].cases = @ \ {c}] \/ Step(w, "mark")
      BY <1>3 DEF FinEvidence
    <2>2. c \in Units \X Breaches
      BY <1>0, <2>1 DEF Fins
    <2>3. [fin EXCEPT ![w].cases = @ \ {c}] \in [Workers -> Fins]
      BY <1>0 DEF Fins
    <2>4. fin' \in [Workers -> Fins]
      BY <2>1, <2>3, StepTyped DEF FinSteps
    <2> QED BY <1>3, <2>1, <2>2, <2>4 DEF FinEvidence
  <1>4. CASE FinArtifact(w)
    <2>1. fin' \in [Workers -> Fins]
      BY <1>4, StepTyped DEF FinArtifact, FinSteps
    <2>2. artifact' \in SUBSET Reports
      BY <1>0, <1>4 DEF FinArtifact, Fins
    <2> QED BY <1>4, <2>1, <2>2 DEF FinArtifact
  <1>5. CASE FinAggregates(w)
    <2>1. fin' \in [Workers -> Fins]
      BY <1>5, StepTyped DEF FinAggregates, FinSteps
    <2>2. aggregates' \in Reports \cup {Posted}
      BY <1>0, <1>5 DEF FinAggregates, Fins
    <2> QED BY <1>5, <2>1, <2>2 DEF FinAggregates
  <1>6. CASE FinMark(w)
    <2>1. fin' \in [Workers -> Fins]
      BY <1>6, IdleTyped DEF FinMark
    <2>2. RowTyped'
      <3>1. CASE state \in Terminal
        BY <1>6, <3>1 DEF FinMark
      <3>2. CASE state \notin Terminal
        BY <1>6, <3>2, SaveTyped DEF FinMark
      <3> QED BY <3>1, <3>2
    <2> QED BY <1>6, <2>1, <2>2 DEF FinMark
  <1> QED BY <1>1, <1>2, <1>3, <1>4, <1>5, <1>6, Finalize(w) DEF Finalize

LEMMA TypeCrash ==
  ASSUME TypeOK, Crash
  PROVE  TypeOK'
  <1>1. fin' \in [Workers -> Fins]
    BY IdleTyped DEF Crash
  <1>2. crashes' \in 0..MaxCrashes
    BY ParamAssumption DEF Crash, TypeOK
  <1> QED BY <1>1, <1>2 DEF Crash, TypeOK, Rows, fixedVars, shelfVars

LEMMA TypeStep == TypeOK /\ [Next]_vars => TypeOK'
  <1> SUFFICES ASSUME TypeOK, [Next]_vars PROVE TypeOK' OBVIOUS
  <1>1. CASE UNCHANGED vars
    BY <1>1 DEF vars, TypeOK
  <1> QED BY <1>1, TypeRequests, TypeFinalize, TypeCrash DEF Next

\* Every reachable state has the shape of TypeOK: attempts stay within their
\* bound, reports and rows are what the code builds.
THEOREM TypeCorrect == Spec => []TypeOK
  BY TypeInit, TypeStep, PTL DEF Spec
-----------------------------------------------------------------------------
(***************************************************************************)
(* Before the claim.  The row is needed for the induction: a restart takes *)
(* the run back to it, so a row from before the claim has no trial either. *)
(***************************************************************************)
PreClaim == Waiting \cup {"none"}

ClaimInv ==
    /\ row.state \in PreClaim => row.trial = [u \in Units |-> NewTrial]
    /\ state \in PreClaim =>
          /\ trial = [u \in Units |-> NewTrial]
          /\ fin = [w \in Workers |-> Idle]
    /\ refusals = 0 =>
          /\ state \in PreClaim <=> row.state \in PreClaim
          /\ state \in PreClaim => artifact = {} /\ evidence = {}

LEMMA NewIsStorable == Storable([u \in Units |-> NewTrial])
  BY ParamAssumption DEF Storable, NewTrial

LEMMA ClaimInit == Init => ClaimInv
  BY DEF Init, ClaimInv, PreClaim

\* Once claimed, a run stays claimed, and its row too unless a claim was not saved.
LEMMA StaysClaimed ==
  ASSUME TypeOK, ClaimInv, state \notin PreClaim, state' \notin PreClaim,
         Save \/ UNCHANGED rowVars
  PROVE  ClaimInv'
  <1>1. refusals' = 0 => refusals = 0
    BY DEF Save, rowVars, TypeOK
  <1>2. row' = row \/ row'.state = state'
    BY DEF Save, rowVars
  <1> QED BY <1>1, <1>2 DEF ClaimInv

LEMMA ClaimStep == TypeOK /\ ClaimInv /\ [Next]_vars => ClaimInv'
  <1> SUFFICES ASSUME TypeOK, ClaimInv, [Next]_vars PROVE ClaimInv' OBVIOUS
  <1> USE DEF PreClaim, rowVars, jobVars, fixedVars, shelfVars, procVars
  <1>1. ASSUME state \in PreClaim, Operator \/ Claim
        PROVE  ClaimInv'
    <2>1. /\ trial' = trial
          /\ trial = [u \in Units |-> NewTrial]
          /\ UNCHANGED <<fin, artifact, evidence>>
      BY <1>1 DEF Operator, Claim, CreateRun, ConfirmRun, CancelRun,
                 AttachAggregates, ClaimInv
    <2>2. Save
      BY <1>1 DEF Operator, Claim, CreateRun, ConfirmRun, CancelRun, AttachAggregates
    <2>3. \/ row'.state = state' /\ row'.trial = trial' /\ UNCHANGED refusals
          \/ row' = row /\ refusals' = refusals + 1
      BY <2>1, <2>2, NewIsStorable DEF Save
    <2>4. refusals \in Nat
      BY DEF TypeOK
    <2> QED BY <1>1, <2>1, <2>3, <2>4 DEF ClaimInv
  <1>2. ASSUME state \notin PreClaim, Operator \/ Runtime
        PROVE  ClaimInv'
    <2>1. state' \notin PreClaim
      BY <1>2 DEF Operator, Runtime, CreateRun, ConfirmRun, CancelRun, AttachAggregates,
                 Claim, AppendEvents, RedeliverTrial, CompleteTrial, AfterResult
    <2>2. Save \/ UNCHANGED rowVars
      BY <1>2 DEF Operator, Runtime, CreateRun, ConfirmRun, CancelRun, AttachAggregates,
                 Claim, AppendEvents, RedeliverTrial, CompleteTrial
    <2> QED BY <1>2, <2>1, <2>2, StaysClaimed
  <1>3. ASSUME state \in PreClaim, Runtime
        PROVE  Claim
    BY <1>3 DEF Runtime, AppendEvents, RedeliverTrial, CompleteTrial, Accepting
  <1>4. ASSUME NEW w \in Workers, Finalize(w)
        PROVE  ClaimInv'
    <2>1. fin[w].pc # "idle"
      BY <1>4 DEF Finalize, FinCollect, FinMetrics, FinEvidence, FinArtifact,
                 FinAggregates, FinMark
    <2>2. state \notin PreClaim
      BY <2>1 DEF ClaimInv, Idle
    <2>3. state' \notin PreClaim
      BY <1>4, <2>2 DEF Finalize, FinCollect, FinMetrics, FinEvidence, FinArtifact,
                 FinAggregates, FinMark
    <2>4. Save \/ UNCHANGED rowVars
      BY <1>4 DEF Finalize, FinCollect, FinMetrics, FinEvidence, FinArtifact,
                 FinAggregates, FinMark
    <2> QED BY <2>2, <2>3, <2>4, StaysClaimed
  <1>5. CASE Crash
    BY <1>5 DEF Crash, ClaimInv
  <1>6. CASE UNCHANGED vars
    BY <1>6 DEF vars, ClaimInv
  <1> QED BY <1>1, <1>2, <1>3, <1>4, <1>5, <1>6 DEF Next

LEMMA ClaimAlways == Spec => [](TypeOK /\ ClaimInv)
  BY TypeInit, TypeStep, ClaimInit, ClaimStep, PTL DEF Spec

\* The claim gate holds for every plan, environment and restart: no trial and no
\* finalizer before a runtime claimed the run, and no document unless the
\* database failed.
THEOREM ClaimGate == Spec => []NothingBeforeClaim
  <1>1. ClaimInv => NothingBeforeClaim
    BY DEF ClaimInv, NothingBeforeClaim, PreClaim
  <1> QED BY <1>1, ClaimAlways, PTL
-----------------------------------------------------------------------------
(***************************************************************************)
(* What a restart keeps, unless the last save raised.                      *)
(***************************************************************************)

\* A save that does not raise writes the whole job.
LEMMA SaveCurrent ==
  ASSUME Save
  PROVE  unsaved' \/ (row'.state = state' /\ row'.trial = trial')
  BY DEF Save

LEMMA CurrentInit == Init => RowIsCurrent
  BY DEF Init, RowIsCurrent, Kept

LEMMA MetricsKept ==
  ASSUME TypeOK, NEW w \in Workers, FinMetrics(w)
  PROVE  Kept(trial') = Kept(trial)
  <1>1. ASSUME NEW u \in Units
        PROVE  /\ trial'[u].status = trial[u].status
               /\ trial'[u].trace = trial[u].trace
               /\ trial'[u].attempt = trial[u].attempt
    <2>1. trial[u] \in Trials
      BY DEF TypeOK
    <2>2. trial'[u] \in {trial[u], [trial[u] EXCEPT !.verdict = fin[w].report[u]]}
      BY DEF FinMetrics
    <2> QED BY <2>1, <2>2 DEF Trials
  <1> QED BY <1>1 DEF Kept

\* A finalizer changes nothing a restart must keep, except that it may complete
\* a run that is not over, and then it saves.
LEMMA FinalizeKeeps ==
  ASSUME TypeOK, NEW w \in Workers, Finalize(w)
  PROVE  /\ Kept(trial') = Kept(trial)
         /\ UNCHANGED planned
         /\ \/ UNCHANGED <<state, rowVars>>
            \/ state \notin Terminal /\ state' = "completed" /\ Save
  <1> USE DEF rowVars, jobVars, fixedVars, shelfVars, procVars
  <1>1. CASE FinMetrics(w)
    BY <1>1, MetricsKept DEF FinMetrics
  <1>2. CASE FinMark(w)
    BY <1>2 DEF FinMark
  <1> QED BY <1>1, <1>2 DEF Finalize, FinCollect, FinEvidence, FinArtifact, FinAggregates

\* Every other request saves what it changes.
LEMMA RequestSaves ==
  ASSUME Operator \/ Runtime
  PROVE  Save \/ UNCHANGED <<planned, state, trial, rowVars>>
  BY DEF Operator, Runtime, CreateRun, ConfirmRun, CancelRun, AttachAggregates, Claim,
         AppendEvents, RedeliverTrial, CompleteTrial, jobVars

LEMMA CurrentStep == TypeOK /\ RowIsCurrent /\ [Next]_vars => RowIsCurrent'
  <1> SUFFICES ASSUME TypeOK, RowIsCurrent, [Next]_vars PROVE RowIsCurrent'
    OBVIOUS
  <1>1. Save => RowIsCurrent'
    BY SaveCurrent DEF RowIsCurrent, Kept
  <1>2. UNCHANGED <<state, rowVars>> /\ Kept(trial') = Kept(trial) => RowIsCurrent'
    BY DEF RowIsCurrent, rowVars
  <1>3. ASSUME Operator \/ Runtime PROVE RowIsCurrent'
    BY <1>1, <1>2, <1>3, RequestSaves
  <1>4. ASSUME NEW w \in Workers, Finalize(w) PROVE RowIsCurrent'
    BY <1>1, <1>2, <1>4, FinalizeKeeps
  <1>5. CASE Crash
    BY <1>5 DEF Crash, RowIsCurrent
  <1>6. CASE UNCHANGED vars
    BY <1>2, <1>6 DEF vars, rowVars
  <1> QED BY <1>3, <1>4, <1>5, <1>6 DEF Next

LEMMA CurrentAlways == Spec => [](TypeOK /\ ClaimInv /\ RowIsCurrent)
  BY ClaimAlways, CurrentInit, CurrentStep, PTL DEF Spec

\* Whatever happens, in whatever order, and whatever save failed before, the
\* stored run has the state, the trial results and the attempts the server shows
\* unless the last save raised.
THEOREM StoredRunIsCurrent == Spec => []RowIsCurrent
  BY CurrentAlways, PTL

\* A restart forgets, or is invisible but for the metrics.
LEMMA CrashKeeps ==
  ASSUME TypeOK, RowIsCurrent, Crash
  PROVE  \/ Forgets
         \/ state' = state /\ Kept(trial') = Kept(trial) /\ UNCHANGED planned
  <1>1. crashes' # crashes
    BY DEF Crash, TypeOK
  <1> QED BY <1>1 DEF Crash, RowIsCurrent, Forgets, fixedVars

LEMMA CancelStep ==
  ASSUME TypeOK, RowIsCurrent, [Next]_vars, state = "cancelled"
  PROVE  Forgets \/ (state' = "cancelled" /\ Kept(trial') = Kept(trial))
  <1>1. ASSUME Operator \/ Runtime
        PROVE  state' = state /\ trial' = trial
    BY <1>1 DEF Operator, Runtime, CreateRun, ConfirmRun, CancelRun, AttachAggregates,
                Claim, AppendEvents, RedeliverTrial, CompleteTrial, Accepting, jobVars,
                fixedVars
  <1>2. ASSUME NEW w \in Workers, Finalize(w)
        PROVE  state' = state /\ Kept(trial') = Kept(trial)
    BY <1>2, FinalizeKeeps
  <1>3. CASE UNCHANGED vars
    BY <1>3 DEF vars
  <1> QED BY <1>1, <1>2, <1>3, CrashKeeps DEF Next

\* A cancelled run stays cancelled with the results it has, whatever late
\* completion, finalizer or restart follows, unless the restart forgets.
THEOREM CancelIsFinal == Spec => CancelKeepsTrials
  <1>1. TypeOK /\ RowIsCurrent /\ [Next]_vars
            => [\/ Forgets
                \/ state = "cancelled" => state' = "cancelled" /\ Kept(trial') = Kept(trial)]_vars
    BY CancelStep
  <1> QED BY <1>1, CurrentAlways, PTL DEF Spec, CancelKeepsTrials
-----------------------------------------------------------------------------
(***************************************************************************)
(* Attempts.  A unit without an entry has attempt 0, which makes its first *)
(* attempt a step up, in memory and in the row a restart may go back to;   *)
(* that is the only strengthening the proof needs.                         *)
(***************************************************************************)
Numbered(t) == \A u \in Units : t[u].status = "absent" => t[u].attempt = 0
AbsentInv == Numbered(trial) /\ Numbered(row.trial)

\* What one step may do to one unit.
Supersedes(u) ==
    /\ trial'[u].attempt >= trial[u].attempt
    /\ trial[u].status \in Done /\ Kept(trial')[u] # Kept(trial)[u]
          => trial'[u].attempt = trial[u].attempt + 1
    /\ trial'[u].status = "absent" => trial'[u].attempt = 0

LEMMA KeptSupersedes ==
  ASSUME TypeOK, AbsentInv, NEW u \in Units, Kept(trial')[u] = Kept(trial)[u]
  PROVE  Supersedes(u)
  <1>1. trial'[u].attempt = trial[u].attempt /\ trial'[u].status = trial[u].status
    BY DEF Kept
  <1>2. trial[u].attempt \in Nat
    BY DEF TypeOK, Trials
  <1> QED BY <1>1, <1>2 DEF Supersedes, AbsentInv, Numbered

\* Events and results raise the attempt of a finished unit by one, start an
\* absent one at 1 and leave the attempt of a pending one.
LEMMA RaisedSupersedes ==
  ASSUME TypeOK, AbsentInv, NEW u \in Units,
         trial'[u].status # "absent",
         trial'[u].attempt = IF trial[u].status \in Done THEN trial[u].attempt + 1
                             ELSE IF trial[u].status = "absent" THEN 1
                             ELSE trial[u].attempt
  PROVE  Supersedes(u)
  <1>1. trial[u].attempt \in Nat
    BY DEF TypeOK, Trials
  <1>2. trial[u].status = "absent" => trial[u].attempt = 0
    BY DEF AbsentInv, Numbered
  <1> QED BY <1>1, <1>2 DEF Supersedes

LEMMA AttemptRequest ==
  ASSUME TypeOK, AbsentInv, NEW u \in Units, Operator \/ Runtime
  PROVE  Supersedes(u)
  <1>0. trial[u] \in Trials
    BY DEF TypeOK
  <1>1. CASE trial' = trial
    BY <1>1, KeptSupersedes
  <1>2. ASSUME NEW v \in Units, AppendEvents(v)
        PROVE  Supersedes(u)
    <2>1. CASE u # v
      <3>1. trial'[u] = trial[u]
        BY <1>2, <2>1 DEF AppendEvents, TypeOK
      <3> QED BY <3>1, KeptSupersedes DEF Kept
    <2>2. CASE u = v
      <3>1. trial'[u] = Restarted(trial[u])
        BY <1>2, <2>2 DEF AppendEvents, TypeOK
      <3>2. trial'[u].status # "absent"
        BY <1>0, <3>1 DEF Restarted, Trials
      <3>3. trial'[u].attempt = IF trial[u].status \in Done THEN trial[u].attempt + 1
                                ELSE IF trial[u].status = "absent" THEN 1
                                ELSE trial[u].attempt
        BY <1>0, <3>1 DEF Restarted, Trials
      <3> QED BY <3>2, <3>3, RaisedSupersedes
    <2> QED BY <2>1, <2>2
  <1>3. ASSUME NEW w \in Workers, NEW v \in Units, NEW status \in Done,
               NEW body \in Bodies, NEW measured \in BOOLEAN,
               CompleteTrial(w, v, status, body, measured)
        PROVE  Supersedes(u)
    <2>1. CASE u # v
      <3>1. trial'[u] = trial[u]
        BY <1>3, <2>1 DEF CompleteTrial, TypeOK
      <3> QED BY <3>1, KeptSupersedes DEF Kept
    <2>2. CASE u = v
      <3>1. trial'[u] = Superseding(trial[u], status, body, measured)
        BY <1>3, <2>2 DEF CompleteTrial, TypeOK
      <3> QED BY <3>1, RaisedSupersedes DEF Superseding
    <2> QED BY <2>1, <2>2
  <1>4. ASSUME ~(\E v \in Units : AppendEvents(v)),
               ~(\E w \in Workers, v \in Units, status \in Done, body \in Bodies,
                    measured \in BOOLEAN : CompleteTrial(w, v, status, body, measured))
        PROVE  trial' = trial
    BY <1>4 DEF Operator, Runtime, CreateRun, ConfirmRun, CancelRun, AttachAggregates,
                Claim, RedeliverTrial, jobVars
  <1> QED BY <1>1, <1>2, <1>3, <1>4

LEMMA AttemptStep ==
  ASSUME TypeOK, RowIsCurrent, AbsentInv, [Next]_vars
  PROVE  Forgets \/ \A u \in Units : Supersedes(u)
  <1>1. ASSUME NEW u \in Units, Kept(trial') = Kept(trial)
        PROVE  Supersedes(u)
    BY <1>1, KeptSupersedes
  <1>2. CASE UNCHANGED vars
    BY <1>1, <1>2 DEF vars
  <1> QED BY <1>1, <1>2, AttemptRequest, FinalizeKeeps, CrashKeeps DEF Next

LEMMA AbsentStep ==
  ASSUME TypeOK, RowIsCurrent, AbsentInv, [Next]_vars
  PROVE  AbsentInv'
  <1>1. CASE Crash
    BY <1>1 DEF Crash, AbsentInv, Numbered
  <1>2. CASE ~Crash
    <2>1. ~Forgets
      BY <1>2 DEF Next, Forgets, vars, Operator, Runtime, CreateRun, ConfirmRun, CancelRun,
                  AttachAggregates, Claim, AppendEvents, RedeliverTrial, CompleteTrial, Finalize,
                  FinCollect, FinMetrics, FinEvidence, FinArtifact, FinAggregates, FinMark, procVars
    <2>2. Numbered(trial')
      BY <2>1, AttemptStep DEF Supersedes, Numbered
    <2>3. row' = row \/ row'.trial = trial'
      <3>1. Save => row' = row \/ row'.trial = trial'
        BY DEF Save
      <3> QED BY <1>2, <3>1, RequestSaves, FinalizeKeeps DEF Next, vars, rowVars
    <2> QED BY <2>2, <2>3 DEF AbsentInv
  <1> QED BY <1>1, <1>2

\* A finished result is replaced only by the next attempt, and attempts never go
\* back: retries, duplicates, concurrent finalizers and restarts included, but
\* for a restart that forgets.
THEOREM RetriesSupersede == Spec => AttemptsSupersede
  <1>1. Init => AbsentInv
    BY DEF Init, AbsentInv, Numbered, NewTrial
  <1>2. TypeOK /\ RowIsCurrent /\ AbsentInv /\ [Next]_vars => AbsentInv'
    BY AbsentStep
  <1>3. TypeOK /\ RowIsCurrent /\ AbsentInv /\ [Next]_vars
            => [\/ Forgets
                \/ \A u \in Units :
                  /\ trial'[u].attempt >= trial[u].attempt
                  /\ trial[u].status \in Done /\ Kept(trial')[u] # Kept(trial)[u]
                        => trial'[u].attempt = trial[u].attempt + 1]_vars
    BY AttemptStep DEF Supersedes
  <1> QED BY <1>1, <1>2, <1>3, CurrentAlways, PTL DEF Spec, AttemptsSupersede
-----------------------------------------------------------------------------
(***************************************************************************)
(* The store implements RunLifecycle, with the units that have a result as *)
(* its finished set.  ClaimInv rules out a finalizer before the claim, and *)
(* RowIsCurrent makes a restart a stutter unless it forgets.               *)
(***************************************************************************)
LEMMA LifecycleStarts == Init => Lifecycle!LifecycleInit
  BY DEF Init, Lifecycle!LifecycleInit, FinishedIn, NewTrial

LEMMA SameFinished ==
  ASSUME Kept(trial') = Kept(trial)
  PROVE  FinishedIn(trial)' = FinishedIn(trial)
  <1>1. ASSUME NEW u \in Units
        PROVE  trial'[u].status = trial[u].status
    <2>1. Kept(trial')[u] = Kept(trial)[u]
      OBVIOUS
    <2> QED BY <2>1 DEF Kept
  <1> QED BY <1>1 DEF FinishedIn

\* A step that keeps the results and completes a claimed run, or changes no
\* state, is a step of the lifecycle.
LEMMA CompletesOrStutters ==
  ASSUME TypeOK, UNCHANGED planned, Kept(trial') = Kept(trial),
         \/ state' = state
         \/ /\ state \notin Terminal \cup PreClaim
            /\ state' = "completed"
  PROVE  [Lifecycle!LifecycleNext]_(Lifecycle!lifecycleVars)
  <1>1. FinishedIn(trial)' = FinishedIn(trial)
    BY SameFinished
  <1>2. CASE state' = state
    BY <1>1, <1>2 DEF Lifecycle!lifecycleVars
  <1>3. CASE state \notin Terminal \cup PreClaim /\ state' = "completed"
    <2>1. Lifecycle!Complete
      BY <1>1, <1>3 DEF Lifecycle!Complete, Lifecycle!Open, PreClaim, TypeOK
    <2> QED BY <2>1 DEF Lifecycle!LifecycleNext
  <1> QED BY <1>2, <1>3

LEMMA OperatorImplements ==
  ASSUME TypeOK, Operator
  PROVE  [Lifecycle!LifecycleNext]_(Lifecycle!lifecycleVars)
  <1> USE DEF fixedVars
  <1>1. ASSUME NEW k \in Kinds, NEW plan \in Plans, NEW confirm \in BOOLEAN,
               CreateRun(k, plan, confirm)
        PROVE  Lifecycle!Create
    BY <1>1 DEF CreateRun, Lifecycle!Create, Lifecycle!Waiting, FinishedIn
  <1>2. ASSUME ConfirmRun
        PROVE  Lifecycle!Confirm
    BY <1>2 DEF ConfirmRun, Lifecycle!Confirm, FinishedIn
  <1>3. ASSUME CancelRun
        PROVE  Lifecycle!Cancel
    BY <1>3 DEF CancelRun, Lifecycle!Cancel, Lifecycle!Terminal, FinishedIn
  <1>4. ASSUME AttachAggregates
        PROVE  [Lifecycle!LifecycleNext]_(Lifecycle!lifecycleVars)
    <2>1. UNCHANGED planned /\ Kept(trial') = Kept(trial)
      BY <1>4 DEF AttachAggregates
    <2>2. \/ state' = state
          \/ state \notin Terminal \cup PreClaim /\ state' = "completed"
      BY <1>4 DEF AttachAggregates, PreClaim
    <2> QED BY <2>1, <2>2, CompletesOrStutters
  <1> QED BY <1>1, <1>2, <1>3, <1>4 DEF Operator, Lifecycle!LifecycleNext

LEMMA RuntimeImplements ==
  ASSUME TypeOK, Runtime
  PROVE  [Lifecycle!LifecycleNext]_(Lifecycle!lifecycleVars)
  <1> USE DEF fixedVars
  <1>0. Accepting => state \in Lifecycle!Open
    BY DEF Accepting, Lifecycle!Open, TypeOK
  <1>1. CASE Claim
    <2>1. Lifecycle!Claim
      BY <1>1 DEF Claim, Lifecycle!Claim, FinishedIn
    <2> QED BY <2>1 DEF Lifecycle!LifecycleNext
  <1>2. ASSUME NEW u \in Units, AppendEvents(u)
        PROVE  Lifecycle!Receive(u)
    <2>1. trial'[u].status = "pending"
      <3>1. trial[u] \in Trials /\ trial'[u] = Restarted(trial[u])
        BY <1>2 DEF AppendEvents, TypeOK
      <3> QED BY <3>1 DEF Restarted, Trials
    <2>2. \A v \in Units \ {u} : trial'[v] = trial[v]
      BY <1>2 DEF AppendEvents, TypeOK
    <2>3. FinishedIn(trial)' = FinishedIn(trial) \ {u}
      BY <2>1, <2>2 DEF FinishedIn
    <2> QED BY <1>0, <1>2, <2>3
            DEF AppendEvents, Lifecycle!Receive, Admitted, Lifecycle!Admitted
  <1>3. ASSUME NEW w \in Workers, NEW u \in Units, RedeliverTrial(w, u)
        PROVE  UNCHANGED Lifecycle!lifecycleVars
    BY <1>3 DEF RedeliverTrial, jobVars, Lifecycle!lifecycleVars, FinishedIn
  <1>4. ASSUME NEW w \in Workers, NEW u \in Units, NEW status \in Done,
               NEW body \in Bodies, NEW measured \in BOOLEAN,
               CompleteTrial(w, u, status, body, measured)
        PROVE  Lifecycle!Result(u)
    <2>1. trial'[u].status = status
      BY <1>4 DEF CompleteTrial, Superseding, TypeOK
    <2>2. \A v \in Units \ {u} : trial'[v] = trial[v]
      BY <1>4 DEF CompleteTrial, TypeOK
    <2>3. FinishedIn(trial)' = FinishedIn(trial) \cup {u}
      BY <2>1, <2>2 DEF FinishedIn
    <2>4. state' = Lifecycle!AfterResult(FinishedIn(trial)')
      BY <1>4 DEF CompleteTrial, AfterResult, Lifecycle!AfterResult, Lifecycle!Terminal
    <2> QED BY <1>0, <1>4, <2>3, <2>4
            DEF CompleteTrial, Lifecycle!Result, Admitted, Lifecycle!Admitted
  <1> QED BY <1>1, <1>2, <1>3, <1>4 DEF Runtime, Lifecycle!LifecycleNext

LEMMA StepImplements ==
  ASSUME TypeOK, ClaimInv, RowIsCurrent, [Next]_vars
  PROVE  [Lifecycle!LifecycleNext \/ Forgets]_(Lifecycle!lifecycleVars)
  <1>1. ASSUME NEW w \in Workers, Finalize(w)
        PROVE  [Lifecycle!LifecycleNext]_(Lifecycle!lifecycleVars)
    <2>1. fin[w].pc # "idle"
      BY <1>1 DEF Finalize, FinCollect, FinMetrics, FinEvidence, FinArtifact,
                 FinAggregates, FinMark
    <2>2. state \notin PreClaim
      BY <2>1 DEF ClaimInv, Idle
    <2> QED BY <1>1, <2>2, FinalizeKeeps, CompletesOrStutters
  <1>2. CASE Crash
    BY <1>2, CrashKeeps, CompletesOrStutters
  <1>3. CASE UNCHANGED vars
    BY <1>3, CompletesOrStutters DEF vars
  <1> QED BY <1>1, <1>2, <1>3, OperatorImplements, RuntimeImplements DEF Next

\* The job store, its finalizers and its restarts implement the run lifecycle
\* the stream and the screens are built on, but for a restart that forgets.
THEOREM StoreImplementsLifecycle == Spec => ImplementsLifecycle
  <1>1. TypeOK /\ ClaimInv /\ RowIsCurrent /\ [Next]_vars
            => [Lifecycle!LifecycleNext \/ Forgets]_(Lifecycle!lifecycleVars)
    BY StepImplements
  <1> QED BY <1>1, LifecycleStarts, CurrentAlways, PTL DEF Spec, ImplementsLifecycle
-----------------------------------------------------------------------------
(***************************************************************************)
(* The report.  Where nothing is re-run, posted or refused, a suite run    *)
(* whose plan is covered is frozen: no request changes its trials any      *)
(* more, so all finalizers collect the same report, and each has done      *)
(* what the steps before its own leave.                                    *)
(***************************************************************************)
Complete == planned \subseteq FinishedIn(trial)
Measured == \A u \in Units : Collected[u] # NoTrace => trial[u].verdict = trial[u].trace
Shown    == artifact = {Collected} /\ CasesOf(Collected) \subseteq evidence /\ Measured

Progress(w) ==
    /\ fin[w].pc # "idle" => Complete
    /\ fin[w].pc \notin {"idle", "collect"} => fin[w].report = Collected
    /\ fin[w].pc \in {"metrics", "evidence"} => CasesOf(Collected) \subseteq evidence \cup fin[w].cases
    /\ fin[w].pc = "evidence" => Measured
    /\ fin[w].pc \in {"aggregates", "mark"} => Shown
    /\ fin[w].pc = "mark" => aggregates = Collected

Summed == aggregates # Empty => Complete /\ aggregates = Collected

ReportIsKept == Shown /\ aggregates = Collected

\* The row is an earlier moment of the run, at which the same held; and a run
\* whose row is completed has not moved since.
CoversIn(t)  == planned \subseteq FinishedIn(t)
ReportIn(t)  == [u \in Units |-> IF t[u].status = "completed" THEN t[u].trace ELSE NoTrace]
RowReports ==
    /\ row.state \in {"analyzing", "completed"} => CoversIn(row.trial)
    /\ row.aggregates # Empty => CoversIn(row.trial) /\ row.aggregates = ReportIn(row.trial)
    /\ row.state = "completed" =>
          state = "completed" /\ row.trial = trial /\ row.aggregates = aggregates

ReportInv ==
    /\ state = "none" => row.state = "none" /\ aggregates = Empty
    /\ row.state = "none" => row.aggregates = Empty
    /\ kind = "suite" =>
          /\ planned # {}
          /\ state \in {"analyzing", "completed"} => Complete
          /\ state = "completed" => ReportIsKept
          /\ Summed
          /\ RowReports
          /\ \A w \in Workers : Progress(w)

LEMMA ReportInit == Init => ReportInv
  BY DEF Init, ReportInv

\* A save that carries what holds of the run to its row.
LEMMA SaveReports ==
  ASSUME RowReports, Summed', UNCHANGED planned,
         state' \in {"analyzing", "completed"} => Complete',
         state = "completed" => state' = "completed" /\ trial' = trial /\ aggregates' = aggregates,
         Save \/ UNCHANGED row
  PROVE  RowReports'
  <1>1. CASE UNCHANGED row
    BY <1>1 DEF RowReports, CoversIn, FinishedIn, ReportIn
  <1>2. CASE row' = [state |-> state', trial |-> trial', aggregates |-> aggregates']
    <2>1. row'.state = state' /\ row'.trial = trial' /\ row'.aggregates = aggregates'
      BY <1>2
    <2>2. Collected' = ReportIn(trial)' /\ (Complete' <=> CoversIn(trial)')
      BY DEF Collected, ReportIn, Complete, CoversIn
    <2> QED BY <2>1, <2>2 DEF RowReports, Summed, CoversIn, ReportIn
  <1> QED BY <1>1, <1>2 DEF Save

\* What collection reads of a trial is among what a restart keeps.
LEMMA KeptReport ==
  ASSUME Kept(trial') = Kept(trial), UNCHANGED planned
  PROVE  Collected' = Collected /\ (Complete' <=> Complete)
  <1>1. ASSUME NEW u \in Units
        PROVE  trial'[u].status = trial[u].status /\ trial'[u].trace = trial[u].trace
    <2>1. Kept(trial')[u] = Kept(trial)[u]
      OBVIOUS
    <2> QED BY <2>1 DEF Kept
  <1>2. FinishedIn(trial') = FinishedIn(trial)
    BY <1>1 DEF FinishedIn
  <1>3. Collected' = Collected
    BY <1>1 DEF Collected
  <1> QED BY <1>2, <1>3 DEF Complete

\* A covered plan leaves a request nothing to do on the trials.
LEMMA RequestsFrozen ==
  ASSUME Env = {}, TypeOK, ClaimInv, kind = "suite", planned # {}, Complete,
         Operator \/ Runtime
  PROVE  /\ UNCHANGED <<kind, planned, trial, aggregates, artifact, evidence>>
         /\ Save \/ UNCHANGED row
         /\ state' \in {"analyzing", "completed"} => state' = state
         /\ state = "completed" => state' = "completed"
         /\ state' # "none"
         /\ \/ UNCHANGED fin
            \/ \E w \in Workers : StartFinalizer(w)
  <1> USE DEF rowVars, jobVars, fixedVars, shelfVars, procVars
  <1>1. state # "none"
    <2>1. SUFFICES ASSUME state = "none" PROVE FALSE
      OBVIOUS
    <2>2. FinishedIn(trial) = {}
      BY <2>1 DEF ClaimInv, PreClaim, FinishedIn, NewTrial
    <2> QED BY <2>2 DEF Complete
  <1>2. ASSUME NEW u \in Units, Admitted(u) PROVE trial[u].status \in Done
    BY <1>2 DEF Admitted, Complete, FinishedIn
  <1>3. ASSUME NEW u \in Units PROVE ~AppendEvents(u)
    BY <1>2 DEF AppendEvents
  <1>4. ASSUME NEW w \in Workers, NEW u \in Units, NEW status \in Done, NEW body \in Bodies,
               NEW measured \in BOOLEAN
        PROVE  ~CompleteTrial(w, u, status, body, measured)
    BY <1>2 DEF CompleteTrial
  <1>5. ConfirmRun \/ CancelRun \/ Claim \/ \E w \in Workers, u \in Units : RedeliverTrial(w, u)
    BY <1>1, <1>3, <1>4 DEF Operator, Runtime, CreateRun, AttachAggregates
  <1>6. CASE ConfirmRun \/ CancelRun \/ Claim
    BY <1>1, <1>6 DEF ConfirmRun, CancelRun, Claim
  <1>7. ASSUME NEW w \in Workers, NEW u \in Units, RedeliverTrial(w, u)
        PROVE  /\ UNCHANGED <<kind, planned, trial, aggregates, artifact, evidence, row, state>>
               /\ UNCHANGED fin \/ StartFinalizer(w)
    BY <1>7 DEF RedeliverTrial
  <1> QED BY <1>1, <1>5, <1>6, <1>7

\* A thread that starts finalizing a covered run is where it should be.
LEMMA StartProgress ==
  ASSUME TypeOK, NEW w \in Workers, StartFinalizer(w), Complete',
         \A v \in Workers \ {w} : Progress(v)'
  PROVE  \A v \in Workers : Progress(v)'
  <1>1. fin'[w].pc = "collect"
    BY DEF StartFinalizer, TypeOK, Idle
  <1>2. Progress(w)'
    BY <1>1 DEF Progress
  <1> QED BY <1>2

LEMMA ReportFrozenStep ==
  ASSUME Env = {}, TypeOK, ClaimInv, ReportInv, kind = "suite", Complete,
         Operator \/ Runtime
  PROVE  ReportInv'
  <1>1. planned # {}
    BY DEF ReportInv
  <1>2. /\ UNCHANGED <<kind, planned, trial, aggregates, artifact, evidence>>
        /\ Save \/ UNCHANGED row
        /\ state' \in {"analyzing", "completed"} => state' = state
        /\ state = "completed" => state' = "completed"
        /\ state' # "none"
        /\ UNCHANGED fin \/ \E w \in Workers : StartFinalizer(w)
    BY <1>1, RequestsFrozen
  <1>3. Collected' = Collected /\ Complete' /\ (Measured' <=> Measured) /\ (Shown' <=> Shown)
    BY <1>2 DEF Collected, Complete, FinishedIn, Measured, Shown, CasesOf
  <1>4. CasesOf(Collected)' = CasesOf(Collected)
    BY <1>3 DEF CasesOf
  <1>5. ASSUME NEW v \in Workers, fin'[v] = fin[v] PROVE Progress(v)'
    <2>1. Progress(v)
      BY DEF ReportInv
    <2> QED BY <1>2, <1>3, <1>4, <1>5, <2>1 DEF Progress
  <1>6. \A v \in Workers : Progress(v)'
    <2>1. CASE UNCHANGED fin
      BY <1>5, <2>1
    <2>2. ASSUME NEW w \in Workers, StartFinalizer(w) PROVE \A v \in Workers : Progress(v)'
      <3>1. \A v \in Workers \ {w} : fin'[v] = fin[v]
        BY <2>2 DEF StartFinalizer, TypeOK
      <3> QED BY <1>3, <1>5, <2>2, <3>1, StartProgress
    <2> QED BY <1>2, <2>1, <2>2
  <1>7. Summed'
    BY <1>2, <1>3 DEF ReportInv, Summed
  <1>8. state' = "completed" => ReportIsKept'
    BY <1>2, <1>3 DEF ReportInv, ReportIsKept
  <1>9. RowReports'
    BY <1>2, <1>3, <1>7, SaveReports DEF ReportInv
  <1>10. row'.state # "none" \/ row' = row
    BY <1>2 DEF Save
  <1> QED BY <1>1, <1>2, <1>3, <1>6, <1>7, <1>8, <1>9, <1>10 DEF ReportInv

\* Before the plan is covered nothing has been collected, and only the last
\* completion starts a finalizer.
LEMMA ReportOpenStep ==
  ASSUME Env = {}, TypeOK, ClaimInv, ReportInv, kind = "suite", ~Complete,
         Operator \/ Runtime
  PROVE  ReportInv'
  <1> USE DEF rowVars, jobVars, fixedVars, shelfVars, procVars
  <1>1. /\ planned # {} /\ state \notin {"analyzing", "completed"} /\ aggregates = Empty
        /\ RowReports
        /\ \A w \in Workers : fin[w].pc = "idle"
    BY DEF ReportInv, Summed, Progress
  <1>2. aggregates' = Empty /\ (Save \/ UNCHANGED row) /\ state' # "none"
    BY <1>1 DEF Operator, Runtime, CreateRun, ConfirmRun, CancelRun, AttachAggregates, Claim,
                AppendEvents, RedeliverTrial, CompleteTrial, Accepting, AfterResult
  <1>3. Summed' /\ (row'.state = "none" => row' = row)
    BY <1>2 DEF Summed, Save
  <1>4. ASSUME NEW w \in Workers, NEW u \in Units, NEW status \in Done, NEW body \in Bodies,
               NEW measured \in BOOLEAN, CompleteTrial(w, u, status, body, measured)
        PROVE  ReportInv'
    <2>1. UNCHANGED <<kind, planned>>
      BY <1>4 DEF CompleteTrial
    <2>2. state' # "completed" /\ (state' = "analyzing" => Complete')
      BY <1>1, <1>4 DEF CompleteTrial, AfterResult, Complete
    <2>3. \A v \in Workers : Progress(v)'
      <3>1. CASE UNCHANGED fin
        BY <1>1, <3>1 DEF Progress
      <3>2. CASE state' = "analyzing" /\ StartFinalizer(w)
        <4>1. \A v \in Workers \ {w} : fin'[v].pc = "idle"
          BY <1>1, <3>2 DEF StartFinalizer, TypeOK
        <4>2. \A v \in Workers \ {w} : Progress(v)'
          BY <4>1 DEF Progress
        <4> QED BY <2>2, <3>2, <4>2, StartProgress
      <3> QED BY <1>4, <3>1, <3>2 DEF CompleteTrial
    <2>4. RowReports'
      BY <1>1, <1>2, <1>3, <2>1, <2>2, SaveReports
    <2> QED BY <1>1, <1>2, <1>3, <2>1, <2>2, <2>3, <2>4 DEF ReportInv
  <1>5. CASE \E k \in Kinds, plan \in Plans, confirm \in BOOLEAN : CreateRun(k, plan, confirm)
    <2>1. state = "none" /\ fin' = fin /\ state' \notin {"none", "analyzing", "completed"}
          /\ (kind' = "suite" => planned' # {})
      BY <1>5 DEF CreateRun
    <2>2. row.state = "none" /\ row.aggregates = Empty
      BY <2>1 DEF ReportInv
    <2>3. RowReports'
      BY <1>2, <2>1, <2>2 DEF RowReports, Save
    <2> QED BY <1>1, <1>2, <1>3, <2>1, <2>2, <2>3 DEF ReportInv, Progress
  <1>6. CASE ~(\E k \in Kinds, plan \in Plans, confirm \in BOOLEAN : CreateRun(k, plan, confirm))
             /\ ~(\E w \in Workers, u \in Units, status \in Done, body \in Bodies,
                     measured \in BOOLEAN : CompleteTrial(w, u, status, body, measured))
    <2>1. /\ UNCHANGED <<kind, planned, fin>>
          /\ state' \notin {"none", "analyzing", "completed"}
      BY <1>1, <1>6 DEF Operator, Runtime, ConfirmRun, CancelRun, AttachAggregates, Claim,
                        AppendEvents, RedeliverTrial, Accepting
    <2>2. RowReports'
      BY <1>1, <1>2, <1>3, <2>1, SaveReports
    <2> QED BY <1>1, <1>2, <1>3, <2>1, <2>2 DEF ReportInv, Progress
  <1> QED BY <1>4, <1>5, <1>6

\* A run becomes a suite run only where it is created, with nothing of it there.
LEMMA ReportNewStep ==
  ASSUME Env = {}, TypeOK, ClaimInv, ReportInv, kind # "suite",
         Operator \/ Runtime
  PROVE  ReportInv'
  <1> USE DEF rowVars, jobVars, fixedVars, shelfVars, procVars
  <1>1. ASSUME NEW k \in Kinds, NEW plan \in Plans, NEW confirm \in BOOLEAN,
               CreateRun(k, plan, confirm)
        PROVE  ReportInv'
    <2>1. state = "none"
      BY <1>1 DEF CreateRun
    <2>2. /\ row.state = "none" /\ aggregates = Empty /\ row.aggregates = Empty
          /\ \A w \in Workers : fin[w].pc = "idle"
      BY <2>1 DEF ReportInv, ClaimInv, PreClaim, Idle
    <2>3. /\ aggregates' = Empty /\ fin' = fin
          /\ state' \notin {"none", "analyzing", "completed"}
          /\ kind' = "suite" => planned' # {}
      BY <1>1, <2>2 DEF CreateRun
    <2>4. \/ row' = row
          \/ row'.state = state' /\ row'.aggregates = Empty
      BY <1>1, <2>3 DEF CreateRun, Save
    <2>5. RowReports'
      BY <2>2, <2>3, <2>4 DEF RowReports
    <2> QED BY <2>2, <2>3, <2>4, <2>5 DEF ReportInv, Summed, Progress
  <1>2. CASE ~(\E k \in Kinds, plan \in Plans, confirm \in BOOLEAN : CreateRun(k, plan, confirm))
    <2>1. UNCHANGED kind /\ state' # "none" /\ (Save \/ UNCHANGED row)
      BY <1>2 DEF Operator, Runtime, ConfirmRun, CancelRun, AttachAggregates, Claim,
                  AppendEvents, RedeliverTrial, CompleteTrial, Accepting, AfterResult
    <2>2. row'.state = "none" => row' = row
      BY <2>1 DEF Save
    <2> QED BY <2>1, <2>2 DEF ReportInv
  <1> QED BY <1>1, <1>2

\* The metrics a finalizer writes are those any other has written or will write.
LEMMA MetricsMeasure ==
  ASSUME TypeOK, NEW w \in Workers, FinMetrics(w), fin[w].report = Collected
  PROVE  Measured' /\ (Measured => trial' = trial)
  <1>1. Collected' = Collected
    BY MetricsKept, KeptReport DEF FinMetrics, fixedVars
  <1>2. ASSUME NEW u \in Units, Collected[u] # NoTrace
        PROVE  trial'[u].verdict = trial'[u].trace /\ (Measured => trial'[u] = trial[u])
    <2>1. trial[u] \in Trials /\ trial[u].status = "completed" /\ Collected[u] = trial[u].trace
      BY <1>2 DEF TypeOK, Collected
    <2>2. trial'[u] = [trial[u] EXCEPT !.verdict = Collected[u]]
      BY <1>2, <2>1 DEF FinMetrics
    <2>3. trial'[u].verdict = trial'[u].trace
      BY <2>1, <2>2 DEF Trials
    <2>4. Measured => trial'[u] = trial[u]
      <3>1. SUFFICES ASSUME trial[u].verdict = trial[u].trace PROVE trial'[u] = trial[u]
        BY <1>2 DEF Measured
      <3> QED BY <2>1, <2>2, <3>1 DEF Trials
    <2> QED BY <2>3, <2>4
  <1>3. ASSUME NEW u \in Units, Collected[u] = NoTrace PROVE trial'[u] = trial[u]
    BY <1>3 DEF FinMetrics
  <1>4. Measured => trial' = trial
    <2>1. trial' = [u \in Units |-> trial'[u]] /\ trial = [u \in Units |-> trial[u]]
      BY DEF FinMetrics, TypeOK
    <2> QED BY <1>2, <1>3, <2>1
  <1> QED BY <1>1, <1>2, <1>4 DEF Measured

\* Nothing of a report that is shown is undone by another finalizer.
LEMMA FinalizeShows ==
  ASSUME Env = {}, Uncollectable = {}, TypeOK, ReportInv, kind = "suite",
         NEW w \in Workers, Finalize(w)
  PROVE  /\ Complete /\ Complete' /\ Collected' = Collected /\ UNCHANGED <<kind, planned>>
         /\ Measured => Measured' /\ trial' = trial
         /\ Shown => Shown'
         /\ evidence \subseteq evidence'
         /\ aggregates' \in {aggregates, Collected}
  <1> USE DEF rowVars, jobVars, fixedVars, shelfVars, procVars
  <1>1. Progress(w) /\ Summed
    BY DEF ReportInv
  <1>2. fin[w].pc # "idle"
    BY DEF Finalize, FinCollect, FinMetrics, FinEvidence, FinArtifact, FinAggregates, FinMark
  <1>3. Complete
    BY <1>1, <1>2 DEF Progress
  <1>4. UNCHANGED <<kind, planned>>
    BY DEF Finalize, FinCollect, FinMetrics, FinEvidence, FinArtifact, FinAggregates, FinMark
  <1>5. Collected' = Collected /\ Complete'
    BY <1>3, FinalizeKeeps, KeptReport
  <1>6. Measured => Measured' /\ trial' = trial
    <2>1. CASE FinMetrics(w)
      <3>1. fin[w].report = Collected
        BY <1>1, <2>1 DEF Progress, FinMetrics
      <3> QED BY <2>1, <3>1, MetricsMeasure
    <2>2. CASE ~FinMetrics(w)
      <3>1. trial' = trial
        BY <2>2 DEF Finalize, FinCollect, FinEvidence, FinArtifact, FinAggregates, FinMark
      <3> QED BY <1>5, <3>1 DEF Measured
    <2> QED BY <2>1, <2>2
  <1>7. evidence \subseteq evidence'
    BY DEF Finalize, FinCollect, FinMetrics, FinEvidence, FinArtifact, FinAggregates, FinMark
  <1>8. artifact' \in {artifact, {Collected}}
    BY <1>1 DEF Finalize, FinCollect, FinMetrics, FinEvidence, FinArtifact, FinAggregates,
                FinMark, Progress
  <1>9. aggregates' \in {aggregates, Collected}
    BY <1>1 DEF Finalize, FinCollect, FinMetrics, FinEvidence, FinArtifact, FinAggregates,
                FinMark, Progress
  <1>10. Shown => Shown'
    BY <1>5, <1>6, <1>7, <1>8 DEF Shown, CasesOf
  <1> QED BY <1>3, <1>4, <1>5, <1>6, <1>7, <1>9, <1>10

\* Each step of a finalizer leaves what its next one relies on.
LEMMA FinalizeProgress ==
  ASSUME Env = {}, Uncollectable = {}, TypeOK, ReportInv, kind = "suite",
         NEW w \in Workers, Finalize(w)
  PROVE  Progress(w)'
  <1> USE DEF rowVars, jobVars, fixedVars, shelfVars, procVars
  <1>1. Progress(w) /\ Summed
    BY DEF ReportInv
  <1>2. /\ Complete' /\ Collected' = Collected
        /\ Measured => Measured'
        /\ Shown => Shown'
    BY FinalizeShows
  <1>3. fin \in [Workers -> Fins] /\ fin[w] \in Fins
    BY DEF TypeOK
  <1>4. CasesOf(Collected)' = CasesOf(Collected)
    BY <1>2 DEF CasesOf
  <1>5. CASE FinCollect(w)
    <2>1. Collectable
      BY DEF Collectable
    <2>2. fin'[w] = [pc |-> "metrics", report |-> Collected, cases |-> CasesOf(Collected)]
      BY <1>3, <1>5, <2>1 DEF FinCollect
    <2> QED BY <1>2, <1>4, <2>2 DEF Progress
  <1>6. CASE FinMetrics(w)
    <2>1. fin[w].pc = "metrics" /\ fin'[w] = [fin[w] EXCEPT !.pc = "evidence"] /\ evidence' = evidence
      BY <1>3, <1>6 DEF FinMetrics, Step
    <2>2. fin'[w].pc = "evidence" /\ fin'[w].report = fin[w].report /\ fin'[w].cases = fin[w].cases
      BY <1>3, <2>1 DEF Fins
    <2>3. fin[w].report = Collected /\ CasesOf(Collected) \subseteq evidence \cup fin[w].cases
      BY <1>1, <2>1 DEF Progress
    <2>4. Measured'
      BY <1>6, <2>3, MetricsMeasure
    <2> QED BY <1>2, <1>4, <2>1, <2>2, <2>3, <2>4 DEF Progress
  <1>7. CASE FinEvidence(w)
    <2>1. PICK c \in fin[w].cases :
              evidence' = evidence \cup {c} /\ fin' = [fin EXCEPT ![w].cases = @ \ {c}]
      BY <1>7 DEF FinEvidence
    <2>2. /\ fin'[w].pc = "evidence" /\ fin'[w].report = fin[w].report
          /\ fin'[w].cases = fin[w].cases \ {c}
      BY <1>3, <1>7, <2>1 DEF FinEvidence, Fins
    <2>3. /\ fin[w].report = Collected /\ Measured
          /\ CasesOf(Collected) \subseteq evidence \cup fin[w].cases
      BY <1>1, <1>7 DEF Progress, FinEvidence
    <2> QED BY <1>2, <1>4, <2>1, <2>2, <2>3 DEF Progress
  <1>8. CASE FinArtifact(w)
    <2>1. /\ fin[w].pc = "evidence" /\ fin[w].cases = {} /\ artifact' = {fin[w].report}
          /\ fin'[w] = [fin[w] EXCEPT !.pc = "aggregates"] /\ evidence' = evidence
      BY <1>3, <1>8 DEF FinArtifact, Step
    <2>2. fin'[w].pc = "aggregates" /\ fin'[w].report = fin[w].report
      BY <1>3, <2>1 DEF Fins
    <2>3. fin[w].report = Collected /\ Measured /\ CasesOf(Collected) \subseteq evidence
      BY <1>1, <2>1 DEF Progress
    <2>4. Shown'
      BY <1>2, <1>4, <2>1, <2>3 DEF Shown
    <2> QED BY <1>2, <2>2, <2>3, <2>4 DEF Progress
  <1>9. CASE FinAggregates(w)
    <2>1. /\ fin[w].pc = "aggregates"
          /\ aggregates' = IF fin[w].report = Empty THEN aggregates ELSE fin[w].report
          /\ fin'[w] = [fin[w] EXCEPT !.pc = "mark"]
      BY <1>3, <1>9 DEF FinAggregates, Step
    <2>2. fin'[w].pc = "mark" /\ fin'[w].report = fin[w].report
      BY <1>3, <2>1 DEF Fins
    <2>3. fin[w].report = Collected /\ Shown
      BY <1>1, <2>1 DEF Progress
    <2>4. aggregates' = Collected
      BY <1>1, <2>1, <2>3 DEF Summed
    <2> QED BY <1>2, <2>2, <2>3, <2>4 DEF Progress
  <1>10. CASE FinMark(w)
    <2>1. fin'[w].pc = "idle"
      BY <1>3, <1>10 DEF FinMark, Idle
    <2> QED BY <2>1 DEF Progress
  <1> QED BY <1>5, <1>6, <1>7, <1>8, <1>9, <1>10 DEF Finalize

LEMMA ReportFinalizeStep ==
  ASSUME Env = {}, Uncollectable = {}, TypeOK, ClaimInv, ReportInv,
         kind = "suite", NEW w \in Workers, Finalize(w)
  PROVE  ReportInv'
  <1> USE DEF rowVars, jobVars, fixedVars, shelfVars, procVars
  <1>1. /\ Complete /\ Complete' /\ Collected' = Collected /\ UNCHANGED <<kind, planned>>
        /\ Measured => Measured' /\ trial' = trial
        /\ Shown => Shown'
        /\ evidence \subseteq evidence'
        /\ aggregates' \in {aggregates, Collected}
    BY FinalizeShows
  <1>2. planned # {} /\ Summed /\ Progress(w) /\ (state = "completed" => ReportIsKept)
    BY DEF ReportInv
  <1>3. \/ UNCHANGED <<state, row>>
        \/ state' = "completed" /\ Save /\ FinMark(w)
    BY DEF Finalize, FinCollect, FinMetrics, FinEvidence, FinArtifact, FinAggregates, FinMark
  <1>4. state' # "none"
    <2>1. state # "none"
      BY DEF ClaimInv, PreClaim, Idle, Finalize, FinCollect, FinMetrics, FinEvidence,
             FinArtifact, FinAggregates, FinMark
    <2> QED BY <1>3, <2>1
  <1>5. Summed'
    BY <1>1, <1>2 DEF Summed
  <1>6. state' = "completed" => ReportIsKept'
    <2>1. CASE UNCHANGED <<state, row>>
      BY <1>1, <1>2, <2>1 DEF ReportIsKept, Shown
    <2>2. CASE state' = "completed" /\ Save /\ FinMark(w)
      <3>1. Shown /\ aggregates = Collected /\ aggregates' = aggregates
        BY <1>2, <2>2 DEF Progress, FinMark
      <3> QED BY <1>1, <3>1 DEF ReportIsKept
    <2> QED BY <1>3, <2>1, <2>2
  <1>8. RowReports'
    <2>1. state = "completed" => state' = "completed" /\ trial' = trial /\ aggregates' = aggregates
      BY <1>1, <1>2, <1>3 DEF ReportIsKept, Shown
    <2> QED BY <1>1, <1>2, <1>3, <1>5, <2>1, SaveReports DEF ReportInv
  <1>9. (state = "none" => row.state = "none") /\ (row'.state = "none" => row' = row)
    BY <1>3 DEF ReportInv, Save
  <1>7. \A v \in Workers : Progress(v)'
    <2>1. ASSUME NEW v \in Workers \ {w} PROVE Progress(v)'
      <3>1. fin'[v] = fin[v]
        BY <2>1 DEF TypeOK, Finalize, FinCollect, FinMetrics, FinEvidence, FinArtifact,
                    FinAggregates, FinMark, Step
      <3>2. Progress(v)
        BY <2>1 DEF ReportInv
      <3>3. CasesOf(Collected)' = CasesOf(Collected)
        BY <1>1 DEF CasesOf
      <3> QED BY <1>1, <3>1, <3>2, <3>3 DEF Progress
    <2> QED BY <2>1, FinalizeProgress
  <1> QED BY <1>1, <1>2, <1>4, <1>5, <1>6, <1>7, <1>8, <1>9 DEF ReportInv

\* A restart reads back an earlier moment of the run, the report of one that is
\* completed in its row, and forgets that finalizers were at work.
LEMMA ReportCrashStep ==
  ASSUME TypeOK, ReportInv, Crash
  PROVE  ReportInv'
  <1>1. /\ UNCHANGED <<kind, planned, row, artifact, evidence>>
        /\ state' = row.state /\ trial' = row.trial /\ aggregates' = row.aggregates
        /\ \A w \in Workers : fin'[w].pc = "idle"
    BY DEF Crash, fixedVars, shelfVars, Idle
  <1>2. CASE kind # "suite"
    BY <1>1, <1>2 DEF ReportInv
  <1>3. CASE kind = "suite"
    <2>1. RowReports /\ planned # {}
      BY <1>3 DEF ReportInv
    <2>2. Collected' = ReportIn(row.trial) /\ (Complete' <=> CoversIn(row.trial))
      BY <1>1 DEF Collected, ReportIn, Complete, CoversIn, FinishedIn
    <2>3. Summed' /\ (state' \in {"analyzing", "completed"} => Complete')
      BY <1>1, <2>1, <2>2 DEF RowReports, Summed
    <2>4. ASSUME row.state = "completed" PROVE ReportIsKept'
      <3>1. ReportIsKept /\ trial' = trial /\ aggregates' = aggregates
        BY <1>1, <1>3, <2>1, <2>4 DEF ReportInv, RowReports
      <3>2. Collected' = Collected
        BY <3>1 DEF Collected
      <3> QED BY <1>1, <3>1, <3>2 DEF ReportIsKept, Shown, Measured, CasesOf
    <2>5. RowReports'
      BY <1>1, <2>1, <2>2 DEF RowReports, CoversIn, FinishedIn, ReportIn
    <2>6. \A w \in Workers : Progress(w)'
      BY <1>1 DEF Progress
    <2> QED BY <1>1, <2>1, <2>3, <2>4, <2>5, <2>6 DEF ReportInv
  <1> QED BY <1>2, <1>3

LEMMA ReportStep ==
  ASSUME Env = {}, Uncollectable = {}, TypeOK, ClaimInv, ReportInv, [Next]_vars
  PROVE  ReportInv'
  <1>1. CASE Operator \/ Runtime
    BY <1>1, ReportFrozenStep, ReportOpenStep, ReportNewStep
  <1>2. ASSUME NEW w \in Workers, Finalize(w) PROVE ReportInv'
    <2>1. CASE kind # "suite"
      <3>1. kind' = kind /\ state' # "none"
        BY <1>2 DEF ClaimInv, PreClaim, Idle, Finalize, FinCollect, FinMetrics, FinEvidence,
                    FinArtifact, FinAggregates, FinMark, jobVars, fixedVars
      <3>2. row'.state = "none" => row' = row
        <4>1. row' = row \/ Save
          BY <1>2, FinalizeKeeps DEF rowVars
        <4>2. Save => row' = row \/ row'.state = state'
          BY DEF Save
        <4> QED BY <3>1, <4>1, <4>2
      <3> QED BY <2>1, <3>1, <3>2 DEF ReportInv
    <2> QED BY <1>2, <2>1, ReportFinalizeStep
  <1>3. CASE Crash
    BY <1>3, ReportCrashStep
  <1>4. CASE UNCHANGED vars
    BY <1>4 DEF vars, ReportInv, ReportIsKept, Shown, Measured, Summed, RowReports, CoversIn,
                ReportIn, Progress, Complete, Collected, CasesOf, FinishedIn
  <1> QED BY <1>1, <1>2, <1>3, <1>4 DEF Next

\* Where nothing is re-run or posted and collection refuses no trace, a completed
\* suite run stands on its report, for any units, plans, traces, handler threads,
\* restarts and failing saves.
THEOREM CompletedStandsOnReport ==
  ASSUME Env = {}, Uncollectable = {}
  PROVE  Spec => []ReportStands
  <1>1. TypeOK /\ ClaimInv /\ ReportInv /\ [Next]_vars => ReportInv'
    BY ReportStep
  <1>2. ReportInv => ReportStands
    <2>1. ReportInv => CompletedIsReported
      BY DEF ReportInv, CompletedIsReported, ReportIsKept, Shown, Measured, Complete
    <2>2. ReportInv => StoredIsReported
      BY DEF ReportInv, StoredIsReported, RowReports, ReportIsKept
    <2> QED BY <2>1, <2>2 DEF ReportStands
  <1> QED BY <1>1, <1>2, ReportInit, ClaimAlways, PTL DEF Spec
=============================================================================
