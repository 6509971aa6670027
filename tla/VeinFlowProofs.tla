--------------------------- MODULE VeinFlowProofs --------------------------
(***************************************************************************)
(* Proofs about VeinFlow, for every flow of every length: type             *)
(* correctness, the safety invariants of the DAG executor, the account of  *)
(* its attempts, and that it implements FlowPromise.                       *)
(***************************************************************************)
EXTENDS MCVeinFlow, FiniteSetTheorems, TLAPS

\* Every component of a flow has the type the code declares for it.
LEMMA FlowType ==
  ASSUME TypeOK, NEW s \in Step
  PROVE  /\ flow[s].depends \subseteq Step \cup {UnknownId}
         /\ flow[s].retries \in Seq(Nat)
         /\ Len(flow[s].retries) \in Nat
         /\ GetDeps(s) \cap Step \subseteq Step
<1>1. flow \in [Step -> StepDef]
  BY FlowsAssumption DEF TypeOK
<1>2. flow[s] \in StepDef
  BY <1>1
<1>3. flow[s].retries \in Seq(Nat)
  BY <1>2 DEF StepDef
<1> QED
  BY <1>2, <1>3 DEF StepDef

\* The retry limit an attempt is compared with is a natural number.
LEMMA MaxRetriesNat ==
  ASSUME TypeOK, NEW s \in Step
  PROVE  MaxRetries(s) \in Nat
<1>1. flow[s].retries \in Seq(Nat) /\ level[s] \in Nat \ {0}
      /\ level[s] <= Len(flow[s].retries) /\ Len(flow[s].retries) \in Nat
  BY FlowType DEF TypeOK
<1>2. level[s] \in 1 .. Len(flow[s].retries)
  BY <1>1
<1> QED
  BY <1>1, <1>2 DEF MaxRetries

LEMMA InitTypeOK == Init => TypeOK
<1> SUFFICES ASSUME Init PROVE TypeOK
  OBVIOUS
<1>1. \A s \in Step : Len(flow[s].retries) >= 1
  <2> TAKE s \in Step
  <2>1. flow[s] \in StepDef
    BY FlowsAssumption DEF Init
  <2>2. flow[s].retries \in Seq(Nat) /\ flow[s].retries # <<>>
    BY <2>1 DEF StepDef
  <2> QED
    BY <2>2
<1> QED
  BY <1>1 DEF Init, TypeOK, Phase

\* One step of a step's execution keeps the types.
LEMMA StepTypeOK ==
  ASSUME TypeOK, NEW s \in Step, StepAction(s)
  PROVE  TypeOK'
<1> USE DEF TypeOK, Phase, Attempting, Resolved
<1>0. Len(flow[s].retries) \in Nat
  BY FlowType
<1>1. CASE SkipStep(s) \/ SkipFails(s)
  BY <1>1 DEF SkipStep, SkipFails, Move
<1>2. CASE LaunchStep(s)
  BY <1>2 DEF LaunchStep, Move
<1>3. CASE EmitRetry(s)
  BY <1>3 DEF EmitRetry, Move
<1>4. CASE EmitStart(s)
  BY <1>4 DEF EmitStart, Move
<1>5. CASE StepReturns(s)
  BY <1>5 DEF StepReturns, Move, Output
<1>6. CASE RetryAttempt(s)
  BY <1>6 DEF RetryAttempt
<1>7. CASE RunOnError(s)
  BY <1>0, <1>7 DEF RunOnError, HasFallback
<1>8. CASE GiveUp(s)
  BY <1>8 DEF GiveUp
<1>9. CASE EmitError(s)
  <2>1. CASE level[s] > 1
    <3>1. level' = [level EXCEPT ![s] = level[s] - 1]
      BY <1>9, <2>1 DEF EmitError
    <3>2. level[s] - 1 \in Nat \ {0} /\ level[s] - 1 <= Len(flow[s].retries)
      BY <1>0, <2>1
    <3>3. /\ level' \in [Step -> Nat \ {0}]
          /\ \A t \in Step : level'[t] <= Len(flow[t].retries)
      BY <3>1, <3>2
    <3>4. UNCHANGED <<flow, phase, attempt, output, settled>>
      BY <1>9, <2>1 DEF EmitError
    <3> QED
      BY <3>3, <3>4
  <2>2. CASE ~(level[s] > 1)
    BY <1>9, <2>2 DEF EmitError
  <2> QED
    BY <2>1, <2>2
<1> QED
  BY <1>1, <1>2, <1>3, <1>4, <1>5, <1>6, <1>7, <1>8, <1>9 DEF StepAction

LEMMA NextTypeOK == TypeOK /\ [Next]_vars => TypeOK'
<1> SUFFICES ASSUME TypeOK, [Next]_vars PROVE TypeOK'
  OBVIOUS
<1>1. CASE \E s \in Step : StepAction(s)
  BY <1>1, StepTypeOK
<1>2. CASE FulfilFlow
  BY <1>2 DEF TypeOK, FulfilFlow
<1>3. CASE RejectFlow
  BY <1>3 DEF TypeOK, RejectFlow
<1>4. CASE UNCHANGED vars
  BY <1>4 DEF TypeOK, vars
<1> QED
  BY <1>1, <1>2, <1>3, <1>4 DEF Next

\* Type correctness of the executor.
THEOREM TypeCorrect == Spec => []TypeOK
  BY InitTypeOK, NextTypeOK, PTL DEF Spec

-----------------------------------------------------------------------------
(* The facts about one step of execution that all the invariants rest on.  *)

\* What resolved stays resolved, with its output; the flow never changes; a step
\* that leaves "waiting" had its dependencies resolved; and it becomes "skipped"
\* from there only if the rule said so, and starts only if it did not.
Persistence ==
  /\ flow' = flow
  /\ \A d \in Step : phase[d] \in Resolved =>
       phase'[d] = phase[d] /\ output'[d] = output[d]
  /\ \A t \in Step : phase'[t] # "waiting" =>
       phase[t] # "waiting" \/ DepsResolved(t)
  /\ \A t \in Step :
       /\ phase'[t] = "skipped" =>
            phase[t] = "skipped" \/ (phase[t] = "waiting" /\ ~Launches(t))
       /\ phase[t] = "waiting" /\ phase'[t] \notin {"waiting", "skipped", "failed"} =>
            Launches(t)

LEMMA NextPersistence == TypeOK /\ [Next]_vars => Persistence
<1> SUFFICES ASSUME TypeOK, [Next]_vars PROVE Persistence
  OBVIOUS
<1> USE DEF Persistence, TypeOK, Attempting, Resolved
<1>1. ASSUME NEW s \in Step, StepAction(s) PROVE Persistence
  <2>1. CASE SkipStep(s) \/ SkipFails(s)
    BY <2>1 DEF SkipStep, SkipFails, Move
  <2>2. CASE LaunchStep(s)
    BY <2>2 DEF LaunchStep, Move
  <2>3. CASE EmitRetry(s)
    BY <2>3 DEF EmitRetry, Move
  <2>4. CASE EmitStart(s)
    BY <2>4 DEF EmitStart, Move
  <2>5. CASE StepReturns(s)
    BY <2>5 DEF StepReturns, Move
  <2>6. CASE RetryAttempt(s)
    BY <2>6 DEF RetryAttempt
  <2>7. CASE RunOnError(s)
    BY <2>7 DEF RunOnError
  <2>8. CASE GiveUp(s)
    BY <2>8 DEF GiveUp
  <2>9. CASE EmitError(s)
    BY <2>9 DEF EmitError
  <2> QED
    BY <1>1, <2>1, <2>2, <2>3, <2>4, <2>5, <2>6, <2>7, <2>8, <2>9 DEF StepAction
<1>2. CASE FulfilFlow
  BY <1>2 DEF FulfilFlow
<1>3. CASE RejectFlow
  BY <1>3 DEF RejectFlow
<1>4. CASE UNCHANGED vars
  BY <1>4 DEF vars
<1> QED
  BY <1>1, <1>2, <1>3, <1>4 DEF Next

\* Dependencies, once resolved, stay resolved.
LEMMA DepsStayResolved ==
  ASSUME Persistence, NEW t \in Step, DepsResolved(t)
  PROVE  DepsResolved(t)'
  BY DEF Persistence, DepsResolved, GetDeps, Resolved

LEMMA NextDependenciesResolved ==
  TypeOK /\ DependenciesResolved /\ [Next]_vars => DependenciesResolved'
<1> SUFFICES ASSUME TypeOK, DependenciesResolved, [Next]_vars,
                    NEW t \in Step, phase'[t] # "waiting"
             PROVE  DepsResolved(t)'
  BY DEF DependenciesResolved
<1>1. Persistence
  BY NextPersistence
<1>2. DepsResolved(t)
  BY <1>1 DEF Persistence, DependenciesResolved
<1> QED
  BY <1>1, <1>2, DepsStayResolved

\* A step acts only when its dependencies are resolved.
THEOREM DependenciesResolvedTheorem == Spec => []DependenciesResolved
<1>1. Init => DependenciesResolved
  BY DEF Init, DependenciesResolved
<1> QED
  BY <1>1, TypeCorrect, NextDependenciesResolved, PTL DEF Spec

-----------------------------------------------------------------------------
(* The decision to run or to skip.                                         *)

\* The rule reads the dependencies only, and those are final.
LEMMA DecisionFrozen ==
  ASSUME TypeOK, Persistence, NEW t \in Step, DepsResolved(t)
  PROVE  Launches(t)' <=> Launches(t)
<1>1. /\ GetDeps(t)' = GetDeps(t)
      /\ \A d \in GetDeps(t) \cap Step : phase'[d] = phase[d] /\ output'[d] = output[d]
  BY DEF Persistence, DepsResolved, GetDeps
<1>2. AllSkipped(t)' <=> AllSkipped(t)
  BY <1>1 DEF AllSkipped
<1>3. GateMatched(t)' <=> GateMatched(t)
  BY <1>1 DEF GateMatched, Persistence
<1> QED
  BY <1>2, <1>3 DEF Launches, Persistence

\* A failed step stays failed.
LEMMA FailedStays ==
  ASSUME TypeOK, [Next]_vars, NEW d \in Step, phase[d] = "failed"
  PROVE  phase'[d] = "failed"
<1> USE DEF TypeOK, Attempting
<1>1. ASSUME NEW s \in Step, StepAction(s) PROVE phase'[d] = "failed"
  BY <1>1 DEF StepAction, SkipStep, SkipFails, LaunchStep, EmitRetry, EmitStart, StepReturns,
              RetryAttempt, RunOnError, GiveUp, EmitError, Move
<1>2. CASE FulfilFlow
  BY <1>2 DEF FulfilFlow
<1>3. CASE RejectFlow
  BY <1>3 DEF RejectFlow
<1>4. CASE UNCHANGED vars
  BY <1>4 DEF vars
<1> QED
  BY <1>1, <1>2, <1>3, <1>4 DEF Next

LEMMA NextDecisionFinal ==
  TypeOK /\ DependenciesResolved /\ DecisionFinal /\ [Next]_vars => DecisionFinal'
<1> SUFFICES ASSUME TypeOK, DependenciesResolved, DecisionFinal, [Next]_vars,
                    NEW t \in Step, phase'[t] \notin {"waiting", "failed"}
             PROVE  phase'[t] = "skipped" <=> ~Launches(t)'
  BY DEF DecisionFinal
<1>1. Persistence
  BY NextPersistence
<1>2. DepsResolved(t)
  BY <1>1 DEF Persistence, DependenciesResolved
<1>3. Launches(t)' <=> Launches(t)
  BY <1>1, <1>2, DecisionFrozen
<1>4. CASE phase[t] = "waiting"
  BY <1>1, <1>3, <1>4 DEF Persistence
<1>5. CASE phase[t] # "waiting"
  <2>0. phase[t] # "failed"
    BY FailedStays
  <2>1. phase[t] = "skipped" <=> ~Launches(t)
    BY <1>5, <2>0 DEF DecisionFinal
  <2>2. phase'[t] = "skipped" <=> phase[t] = "skipped"
    BY <1>1, <1>5 DEF Persistence, Resolved
  <2> QED
    BY <1>3, <2>1, <2>2
<1> QED
  BY <1>4, <1>5

\* Which steps run does not depend on the order in which steps resolve.
THEOREM DecisionFinalTheorem == Spec => []DecisionFinal
<1>1. Init => DecisionFinal
  BY DEF Init, DecisionFinal
<1> QED
  BY <1>1, TypeCorrect, DependenciesResolvedTheorem, NextDecisionFinal, PTL DEF Spec

-----------------------------------------------------------------------------
(* Settling.                                                               *)

\* What the promise of the flow turns into, and when.
LEMMA SettledStep ==
  ASSUME [Next]_vars
  PROVE  \/ settled' = settled
         \/ settled' = "fulfilled" /\ \A s \in Step : phase[s] \in Resolved
         \/ settled' = "rejected" /\ \E s \in Step : phase[s] = "failed"
<1>1. ASSUME NEW s \in Step, StepAction(s) PROVE settled' = settled
  BY <1>1 DEF StepAction, SkipStep, SkipFails, LaunchStep, EmitRetry, EmitStart, StepReturns,
              RetryAttempt, RunOnError, GiveUp, EmitError
<1> QED
  BY <1>1 DEF Next, FulfilFlow, RejectFlow, vars

LEMMA NextSettledForCause ==
  TypeOK /\ SettledForCause /\ [Next]_vars => SettledForCause'
<1> SUFFICES ASSUME TypeOK, SettledForCause, [Next]_vars PROVE SettledForCause'
  OBVIOUS
<1>1. ASSUME settled' = "fulfilled" PROVE \A s \in Step : phase'[s] \in Resolved
  <2>1. \A s \in Step : phase[s] \in Resolved
    BY <1>1, SettledStep DEF SettledForCause
  <2> QED
    BY <2>1, NextPersistence DEF Persistence
<1>2. ASSUME settled' = "rejected" PROVE \E s \in Step : phase'[s] = "failed"
  <2>1. PICK s \in Step : phase[s] = "failed"
    BY <1>2, SettledStep DEF SettledForCause
  <2> QED
    BY <2>1, FailedStays
<1> QED
  BY <1>1, <1>2 DEF SettledForCause

\* A fulfilled flow finished all its steps; a rejected one has a failed step.
THEOREM SettledForCauseTheorem == Spec => []SettledForCause
<1>1. Init => SettledForCause
  BY DEF Init, SettledForCause
<1> QED
  BY <1>1, TypeCorrect, NextSettledForCause, PTL DEF Spec

-----------------------------------------------------------------------------
(* Refinement.                                                             *)

\* Only a step that can act takes a step of its own.
LEMMA OnlyBusyActs ==
  ASSUME NEW s \in Step, StepAction(s)
  PROVE  busy /\ settled' = settled
<1>1. CanAct(s)
  BY DEF StepAction, SkipStep, SkipFails, LaunchStep, EmitRetry, EmitStart, StepReturns,
         RetryAttempt, RunOnError, GiveUp, EmitError, Move, CanAct, Attempting
<1>2. settled' = settled
  BY DEF StepAction, SkipStep, SkipFails, LaunchStep, EmitRetry, EmitStart, StepReturns,
         RetryAttempt, RunOnError, GiveUp, EmitError
<1> QED
  BY <1>1, <1>2 DEF busy

\* Settling does not change who can act.
LEMMA BusyFrame ==
  ASSUME UNCHANGED <<flow, phase>>
  PROVE  busy' <=> busy
<1>1. \A s \in Step : CanAct(s)' <=> CanAct(s)
  BY DEF CanAct, DepsResolved, GetDeps
<1> QED
  BY <1>1 DEF busy

LEMMA NextRefines == [Next]_vars => [Promise!Next]_(Promise!promiseVars)
<1> SUFFICES ASSUME [Next]_vars
             PROVE  Promise!Next \/ UNCHANGED <<settled, busy>>
  BY DEF Promise!promiseVars
<1>0. busy \in BOOLEAN /\ busy' \in BOOLEAN
  BY DEF busy
<1>1. ASSUME NEW s \in Step, StepAction(s) PROVE Promise!Work
  BY <1>0, <1>1, OnlyBusyActs DEF Promise!Work
<1>2. CASE FulfilFlow
  <2>1. busy' <=> busy
    BY <1>2, BusyFrame DEF FulfilFlow
  <2>2. ~busy
    BY <1>2 DEF FulfilFlow, busy, CanAct, Attempting, Resolved
  <2> QED
    BY <1>0, <1>2, <2>1, <2>2 DEF FulfilFlow, Promise!Next, Promise!Fulfil
<1>3. CASE RejectFlow
  <2>1. busy' <=> busy
    BY <1>3, BusyFrame DEF RejectFlow
  <2> QED
    BY <1>0, <1>3, <2>1 DEF RejectFlow, Promise!Next, Promise!Reject
<1>4. CASE UNCHANGED vars
  <2>1. busy' <=> busy
    BY <1>4, BusyFrame DEF vars
  <2> QED
    BY <1>0, <1>4, <2>1 DEF vars
<1> QED
  BY <1>1, <1>2, <1>3, <1>4 DEF Next, Promise!Next

\* The executor implements the promise its caller relies on.
THEOREM ImplementsPromise == Spec => PromiseSpec
<1>1. Init => Promise!Init
  BY DEF Init, Promise!Init, busy
<1> QED
  BY <1>1, NextRefines, PTL DEF Spec, PromiseSpec, Promise!Spec

-----------------------------------------------------------------------------
(* Consequences along whole paths of dependencies.                         *)

\* The resolved steps are a set closed upstream, so they hold all ancestors.
LEMMA AncestorsFromDependencies ==
  TypeOK /\ DependenciesResolved => AncestorsResolved
<1> SUFFICES ASSUME TypeOK, DependenciesResolved, NEW s \in Step,
                    phase[s] # "waiting", NEW d \in Ancestors(s)
             PROVE  phase[d] \in Resolved
  BY DEF AncestorsResolved
<1> DEFINE C == { t \in Step : phase[t] \in Resolved }
<1>1. UpstreamClosed(C)
  BY DEF UpstreamClosed, DependenciesResolved, DepsResolved, Resolved
<1>2. GetDeps(s) \cap Step \subseteq C
  BY DEF DependenciesResolved, DepsResolved
<1>3. C \in SUBSET Step
  OBVIOUS
<1>4. d \in C
  BY <1>1, <1>2, <1>3 DEF Ancestors
<1> QED
  BY <1>4

\* When a step acts, everything upstream of it is final.
THEOREM AncestorsResolvedTheorem == Spec => []AncestorsResolved
  BY TypeCorrect, DependenciesResolvedTheorem, AncestorsFromDependencies, PTL

LEMMA FailureFromAncestors == AncestorsResolved => FailureStopsDescendants
  BY DEF AncestorsResolved, FailureStopsDescendants, Resolved

\* Nothing downstream of a failure ever runs or is skipped.
THEOREM FailureStopsDescendantsTheorem == Spec => []FailureStopsDescendants
  BY AncestorsResolvedTheorem, FailureFromAncestors, PTL

-----------------------------------------------------------------------------
(* Where skipping starts.                                                  *)

\* What is upstream of a dependency of s is upstream of s.
LEMMA AncestorsOfDependency ==
  ASSUME NEW s \in Step, NEW d \in GetDeps(s) \cap Step
  PROVE  Ancestors(d) \cup {d} \subseteq Ancestors(s)
<1> SUFFICES ASSUME NEW g \in Ancestors(d) \cup {d}, NEW C \in SUBSET Step,
                    UpstreamClosed(C), GetDeps(s) \cap Step \subseteq C
             PROVE  g \in C
  BY DEF Ancestors
<1>1. d \in C
  OBVIOUS
<1>2. GetDeps(d) \cap Step \subseteq C
  BY <1>1 DEF UpstreamClosed
<1> QED
  BY <1>1, <1>2 DEF Ancestors

\* The steps upstream are a matter of the flow, which never changes.
LEMMA AncestorsFixed ==
  ASSUME flow' = flow, NEW s \in Step
  PROVE  Ancestors(s)' = Ancestors(s)
<1>1. \A t : GetDeps(t)' = GetDeps(t)
  BY DEF GetDeps
<1>2. \A C : UpstreamClosed(C)' <=> UpstreamClosed(C)
  BY <1>1 DEF UpstreamClosed
<1> QED
  BY <1>1, <1>2 DEF Ancestors

\* A skipped step with a gate, s itself or upstream of it.
SkipCause(s) ==
  \E g \in Ancestors(s) \cup {s} : phase[g] = "skipped" /\ flow[g].when # "none"

\* A step without a gate is skipped only behind dependencies that were, each of
\* which has its gate upstream: the induction is over the steps of the run, and
\* no cycle of dependencies ever skips itself.
LEMMA NextSkipsComeFromGates ==
  TypeOK /\ SkipsComeFromGates /\ [Next]_vars => SkipsComeFromGates'
<1> SUFFICES ASSUME TypeOK, SkipsComeFromGates, [Next]_vars,
                    NEW s \in Step, phase'[s] = "skipped"
             PROVE  SkipCause(s)'
  BY DEF SkipsComeFromGates, SkipCause
<1>1. Persistence
  BY NextPersistence
<1>2. flow' = flow /\ Ancestors(s)' = Ancestors(s) /\ Ancestors(s) \subseteq Step
  BY <1>1, AncestorsFixed DEF Persistence, Ancestors
<1>3. ASSUME SkipCause(s) PROVE SkipCause(s)'
  BY <1>1, <1>2, <1>3 DEF SkipCause, Persistence, Resolved
<1>4. CASE phase[s] = "skipped"
  BY <1>3, <1>4 DEF SkipsComeFromGates, SkipCause
<1>5. CASE phase[s] # "skipped" /\ flow[s].when # "none"
  BY <1>2, <1>5 DEF SkipCause
<1>6. CASE phase[s] # "skipped" /\ flow[s].when = "none"
  <2>1. AllSkipped(s)
    BY <1>1, <1>6 DEF Persistence, Launches
  <2>2. PICK d \in GetDeps(s) \cap Step : phase[d] = "skipped"
    BY <2>1 DEF AllSkipped
  <2>3. PICK g \in Ancestors(d) \cup {d} : phase[g] = "skipped" /\ flow[g].when # "none"
    BY <2>2 DEF SkipsComeFromGates
  <2>4. g \in Ancestors(s)
    BY <2>2, <2>3, AncestorsOfDependency
  <2> QED
    BY <1>3, <2>3, <2>4 DEF SkipCause
<1> QED
  BY <1>4, <1>5, <1>6

\* Skipping starts at a gate: a skipped step is gated itself or lies downstream
\* of a gated step that was skipped (runner.ts:239-294).
THEOREM SkipsComeFromGatesTheorem == Spec => []SkipsComeFromGates
<1>1. Init => SkipsComeFromGates
  BY DEF Init, SkipsComeFromGates
<1> QED
  BY <1>1, TypeCorrect, NextSkipsComeFromGates, PTL DEF Spec

-----------------------------------------------------------------------------
(* Attempts.                                                               *)

\* A step tries what it is entitled to, from the first attempt on.
Within ==
  \A s \in Step :
    /\ phase[s] = "waiting" => level[s] = 1 /\ attempt[s] = 0
    /\ phase[s] \in Attempting => attempt[s] <= MaxRetries(s)

LEMMA RetriesType ==
  ASSUME TypeOK, NEW s \in Step
  PROVE  /\ flow[s].retries \in Seq(Nat) /\ Len(flow[s].retries) \in Nat
         /\ \A l \in 1 .. Len(flow[s].retries) : flow[s].retries[l] \in Nat
         /\ level[s] \in 1 .. Len(flow[s].retries) /\ attempt[s] \in Nat
<1>1. flow[s].retries \in Seq(Nat) /\ Len(flow[s].retries) \in Nat
  BY FlowType
<1>2. level[s] \in Nat \ {0} /\ level[s] <= Len(flow[s].retries) /\ attempt[s] \in Nat
  BY DEF TypeOK
<1> QED BY <1>1, <1>2

\* The attempts a step is entitled to are finitely many.
LEMMA EntitledFinite ==
  ASSUME TypeOK, NEW s \in Step
  PROVE  IsFiniteSet(Entitled(s))
<1> DEFINE n     == Len(flow[s].retries)
           row   == [l \in 1 .. n |-> {l} \X (0 .. flow[s].retries[l])]
           rows  == { row[l] : l \in 1 .. n }
<1>1. n \in Nat /\ \A l \in 1 .. n : flow[s].retries[l] \in Nat
  BY RetriesType
<1>2. IsFiniteSet(1 .. n)
  BY <1>1, FS_Interval
<1>3. row \in Surjection(1 .. n, rows)
  BY DEF Surjection
<1>4. IsFiniteSet(rows)
  <2> HIDE DEF row, rows, n
  <2> QED BY <1>2, <1>3, FS_Surjection
<1>5. ASSUME NEW T \in rows PROVE IsFiniteSet(T)
  <2>1. PICK l \in 1 .. n : T = {l} \X (0 .. flow[s].retries[l])
    OBVIOUS
  <2>2. IsFiniteSet({l})
    BY FS_Singleton
  <2>3. 0 \in Int /\ flow[s].retries[l] \in Int
    BY <1>1
  <2>4. IsFiniteSet(0 .. flow[s].retries[l])
    BY <2>3, FS_Interval
  <2> QED BY <2>1, <2>2, <2>4, FS_Product
<1>6. Entitled(s) = UNION rows
  BY DEF Entitled
<1> HIDE DEF rows
<1> QED BY <1>4, <1>5, <1>6, FS_UNION

\* An attempt is one the step is entitled to if its number is within the
\* retries of its level.
LEMMA EntitledPairs ==
  ASSUME TypeOK, NEW s \in Step
  PROVE  \A a : a \in Entitled(s) <=>
           /\ a = <<a[1], a[2]>> /\ a[1] \in 1 .. Len(flow[s].retries)
           /\ a[2] \in Nat /\ a[2] <= flow[s].retries[a[1]]
<1> SUFFICES ASSUME NEW a
             PROVE  a \in Entitled(s) <=>
                      /\ a = <<a[1], a[2]>> /\ a[1] \in 1 .. Len(flow[s].retries)
                      /\ a[2] \in Nat /\ a[2] <= flow[s].retries[a[1]]
  OBVIOUS
<1>1. \A l \in 1 .. Len(flow[s].retries) : flow[s].retries[l] \in Nat
  BY RetriesType
<1>2. a \in Entitled(s) <=>
        \E l \in 1 .. Len(flow[s].retries) : a \in {l} \X (0 .. flow[s].retries[l])
  BY DEF Entitled
<1>3. ASSUME NEW l \in 1 .. Len(flow[s].retries)
      PROVE  a \in {l} \X (0 .. flow[s].retries[l]) <=>
               a = <<a[1], a[2]>> /\ a[1] = l /\ a[2] \in 0 .. flow[s].retries[l]
  OBVIOUS
<1>4. \A l \in 1 .. Len(flow[s].retries) : \A m :
        m \in 0 .. flow[s].retries[l] <=> m \in Nat /\ m <= flow[s].retries[l]
  BY <1>1
<1> QED BY <1>2, <1>3, <1>4

\* The attempt after the current one has the current one, and what was before
\* it, behind it.
LEMMA NextAttempt ==
  ASSUME TypeOK, TypeOK', flow' = flow, NEW s \in Step, Current(s) \in Entitled(s),
         \/ level'[s] = level[s] /\ attempt'[s] = attempt[s] + 1
         \/ /\ level'[s] = level[s] + 1 /\ attempt'[s] = 0
            /\ attempt[s] = MaxRetries(s)
  PROVE  Spent(s)' = Spent(s) + 1 /\ Spent(s) \in Nat
<1>1. Entitled(s)' = Entitled(s)
  BY DEF Entitled
<1>2. level[s] \in Nat /\ attempt[s] \in Nat
  BY RetriesType
<1>3. Earlier(s)' = Earlier(s) \cup {Current(s)}
  <2>1. ASSUME NEW a \in Entitled(s)
        PROVE  (a[1] < level'[s] \/ (a[1] = level'[s] /\ a[2] < attempt'[s]))
                 <=> (a[1] < level[s] \/ (a[1] = level[s] /\ a[2] < attempt[s])) \/ a = Current(s)
    <3>1. /\ a = <<a[1], a[2]>> /\ a[1] \in Nat
          /\ a[2] \in Nat /\ a[2] <= flow[s].retries[a[1]]
      BY EntitledPairs
    <3>2. a = Current(s) <=> a[1] = level[s] /\ a[2] = attempt[s]
      BY <3>1 DEF Current
    <3>3. CASE level'[s] = level[s] /\ attempt'[s] = attempt[s] + 1
      BY <1>2, <3>1, <3>2, <3>3
    <3>4. CASE /\ level'[s] = level[s] + 1 /\ attempt'[s] = 0
               /\ attempt[s] = MaxRetries(s)
      <4>1. a[1] = level[s] => a[2] <= attempt[s]
        BY <3>1, <3>4 DEF MaxRetries
      <4>2. a[1] < level[s] + 1 <=> a[1] < level[s] \/ a[1] = level[s]
        BY <1>2, <3>1
      <4>3. a[2] <= attempt[s] <=> a[2] < attempt[s] \/ a[2] = attempt[s]
        BY <1>2, <3>1
      <4>4. ~(a[2] < 0)
        BY <3>1
      <4> QED BY <3>2, <3>4, <4>1, <4>2, <4>3, <4>4
    <3> QED BY <3>3, <3>4
  <2> QED BY <1>1, <2>1 DEF Earlier
<1>4. Current(s) \notin Earlier(s)
  BY <1>2 DEF Earlier, Current
<1>5. IsFiniteSet(Earlier(s))
  BY EntitledFinite, FS_Subset DEF Earlier
<1>6. Cardinality(Earlier(s) \cup {Current(s)}) = Cardinality(Earlier(s)) + 1
  BY <1>4, <1>5, FS_AddElement
<1>7. Cardinality(Earlier(s)) \in Nat
  BY <1>5, FS_CardinalityType
<1> QED BY <1>3, <1>6, <1>7 DEF Spent

\* After the last attempt nothing is left.
LEMMA LastAttempt ==
  ASSUME TypeOK, NEW s \in Step, Current(s) \in Entitled(s),
         attempt[s] = MaxRetries(s), level[s] = Len(flow[s].retries)
  PROVE  Spent(s) = Budget(s) - 1
<1>1. level[s] \in Nat /\ attempt[s] \in Nat
  BY RetriesType
<1>2. Entitled(s) = Earlier(s) \cup {Current(s)}
  <2>1. ASSUME NEW a \in Entitled(s)
        PROVE  (a[1] < level[s] \/ (a[1] = level[s] /\ a[2] < attempt[s])) \/ a = Current(s)
    <3>1. /\ a = <<a[1], a[2]>> /\ a[1] \in 1 .. level[s]
          /\ a[2] \in Nat /\ a[2] <= flow[s].retries[a[1]]
      BY EntitledPairs
    <3>2. a = Current(s) <=> a[1] = level[s] /\ a[2] = attempt[s]
      BY <3>1 DEF Current
    <3>3. a[1] = level[s] => a[2] <= attempt[s]
      BY <3>1 DEF MaxRetries
    <3> QED BY <1>1, <3>1, <3>2, <3>3
  <2> QED BY <2>1 DEF Earlier
<1>3. Current(s) \notin Earlier(s)
  BY <1>1 DEF Earlier, Current
<1>4. IsFiniteSet(Earlier(s))
  BY EntitledFinite, FS_Subset DEF Earlier
<1>5. Cardinality(Earlier(s) \cup {Current(s)}) = Cardinality(Earlier(s)) + 1
  BY <1>3, <1>4, FS_AddElement
<1>6. Cardinality(Earlier(s)) \in Nat
  BY <1>4, FS_CardinalityType
<1> QED BY <1>2, <1>5, <1>6 DEF Spent, Budget

LEMMA SpentNat ==
  ASSUME TypeOK, NEW s \in Step
  PROVE  Spent(s) \in Nat
BY EntitledFinite, FS_Subset, FS_CardinalityType DEF Spent, Earlier

\* A step that attempts is at an attempt it is entitled to.
LEMMA CurrentEntitled ==
  ASSUME TypeOK, Within, NEW s \in Step, phase[s] \in Attempting
  PROVE  Current(s) \in Entitled(s)
BY RetriesType, EntitledPairs DEF Within, Current, MaxRetries

\* The same of the next state.
LEMMA NextLevel ==
  ASSUME TypeOK, TypeOK', flow' = flow, NEW s \in Step
  PROVE  /\ level'[s] \in 1 .. Len(flow[s].retries) /\ attempt'[s] \in Nat
         /\ MaxRetries(s)' = flow[s].retries[level'[s]] /\ MaxRetries(s)' \in Nat
<1>1. level'[s] \in Nat \ {0} /\ level'[s] <= Len(flow[s].retries) /\ attempt'[s] \in Nat
  BY DEF TypeOK
<1>2. level'[s] \in 1 .. Len(flow[s].retries)
  BY <1>1, RetriesType
<1>3. MaxRetries(s)' = flow[s].retries[level'[s]]
  BY DEF MaxRetries
<1> QED BY <1>1, <1>2, <1>3, RetriesType

LEMMA WithinInit == Init => Within
BY DEF Init, Within, Attempting

\* What a step of the system does to the attempts of s.
LEMMA WithinStep ==
  ASSUME TypeOK, TypeOK', Within, [Next]_vars, NEW s \in Step
  PROVE  /\ flow' = flow
         /\ phase'[s] = "waiting" => level'[s] = 1 /\ attempt'[s] = 0
         /\ phase'[s] \in Attempting => attempt'[s] <= MaxRetries(s)'
         /\ \/ /\ level'[s] = level[s] /\ attempt'[s] = attempt[s]
               /\ phase[s] = "running" => phase'[s] \notin Attempting \ {"running"}
               /\ phase[s] # "unwinding" /\ phase'[s] = "unwinding" => GiveUp(s)
            \/ RetryAttempt(s)
            \/ RunOnError(s)
            \/ phase[s] = "unwinding" /\ phase'[s] = "unwinding"
<1> USE DEF Attempting, Resolved
<1>0. /\ phase \in [Step -> Phase] /\ level \in [Step -> Nat \ {0}]
      /\ attempt \in [Step -> Nat]
  BY DEF TypeOK
<1>1. phase[s] = "waiting" => level[s] = 1 /\ attempt[s] = 0
  BY DEF Within
<1>2. phase[s] \in Attempting => attempt[s] <= MaxRetries(s)
  BY DEF Within
<1>3. MaxRetries(s) \in Nat /\ MaxRetries(s)' \in Nat
  <2>1. flow' = flow
    BY DEF Next, StepAction, SkipStep, SkipFails, LaunchStep, EmitRetry, EmitStart, StepReturns,
       RetryAttempt, RunOnError, GiveUp, EmitError, FulfilFlow, RejectFlow, vars
  <2> QED BY <2>1, MaxRetriesNat, NextLevel
<1>4. CASE \E t \in Step : StepAction(t)
  <2> PICK t \in Step : StepAction(t)
    BY <1>4
  <2>1. CASE t # s
    <3>1. flow' = flow /\ phase'[s] = phase[s] /\ level'[s] = level[s] /\ attempt'[s] = attempt[s]
      BY <1>0, <2>1 DEF StepAction, SkipStep, SkipFails, LaunchStep, EmitRetry, EmitStart, StepReturns,
         RetryAttempt, RunOnError, GiveUp, EmitError, Move
    <3> QED BY <1>1, <1>2, <3>1 DEF MaxRetries
  <2>2. CASE t = s
    <3>1. CASE SkipStep(s) \/ SkipFails(s) \/ EmitRetry(s) \/ EmitStart(s) \/ StepReturns(s)
      <4>1. flow' = flow /\ level' = level /\ attempt' = attempt
        BY <3>1 DEF SkipStep, SkipFails, EmitRetry, EmitStart, StepReturns
      <4>2. \/ phase[s] = "waiting" /\ phase'[s] \in {"skipped", "failed"}
            \/ phase[s] = "retrying" /\ phase'[s] = "starting"
            \/ phase[s] = "starting" /\ phase'[s] = "running"
            \/ phase[s] = "running" /\ phase'[s] = "done"
        BY <1>0, <3>1 DEF SkipStep, SkipFails, EmitRetry, EmitStart, StepReturns, Move
      <4> QED BY <1>2, <4>1, <4>2 DEF MaxRetries
    <3>2. CASE LaunchStep(s)
      <4>1. /\ flow' = flow /\ level' = level /\ attempt' = attempt
            /\ phase[s] = "waiting" /\ phase'[s] = "starting"
        BY <1>0, <3>2 DEF LaunchStep, Move
      <4> QED BY <1>1, <1>3, <4>1 DEF MaxRetries
    <3>3. CASE RetryAttempt(s)
      <4>1. /\ flow' = flow /\ level' = level /\ attempt'[s] = attempt[s] + 1
            /\ phase'[s] = "retrying" /\ attempt[s] < MaxRetries(s)
        BY <1>0, <3>3 DEF RetryAttempt
      <4>2. MaxRetries(s)' = MaxRetries(s) /\ attempt[s] \in Nat
        BY <1>0, <4>1 DEF MaxRetries
      <4>3. attempt'[s] <= MaxRetries(s)'
        BY <1>3, <4>1, <4>2
      <4> QED BY <3>3, <4>1, <4>3
    <3>4. CASE RunOnError(s)
      <4>1. flow' = flow /\ attempt'[s] = 0 /\ phase'[s] = "starting"
        BY <1>0, <3>4 DEF RunOnError
      <4> QED BY <1>3, <3>4, <4>1
    <3>5. CASE GiveUp(s)
      <4>1. /\ flow' = flow /\ level' = level /\ attempt' = attempt
            /\ phase'[s] = "unwinding"
        BY <1>0, <3>5 DEF GiveUp
      <4> QED BY <3>5, <4>1
    <3>6. CASE EmitError(s)
      <4>1. /\ flow' = flow /\ attempt' = attempt /\ phase[s] = "unwinding"
            /\ phase'[s] = "unwinding" \/ (phase'[s] = "failed" /\ level' = level)
        BY <1>0, <3>6 DEF EmitError
      <4> QED BY <4>1
    <3> QED BY <2>2, <3>1, <3>2, <3>3, <3>4, <3>5, <3>6 DEF StepAction
  <2> QED BY <2>1, <2>2
<1>5. CASE UNCHANGED <<flow, phase, level, attempt>>
  BY <1>1, <1>2, <1>5 DEF MaxRetries
<1> QED BY <1>4, <1>5 DEF Next, FulfilFlow, RejectFlow, vars

LEMMA WithinNext == TypeOK /\ TypeOK' /\ Within /\ [Next]_vars => Within'
<1> SUFFICES ASSUME TypeOK, TypeOK', Within, [Next]_vars
             PROVE  Within'
  OBVIOUS
<1> QED BY WithinStep DEF Within

LEMMA AttemptsNext ==
  ASSUME TypeOK, TypeOK', Within, [Next]_vars, NEW s \in Step
  PROVE  /\ phase'[s] \in Attempting =>
              /\ Current(s)' \in Entitled(s)'
              /\ Spent(s)' \in {Spent(s), Spent(s) + 1}
              /\ phase[s] = "running" /\ phase'[s] # "running" => Spent(s)' # Spent(s)
         /\ phase[s] # "unwinding" /\ phase'[s] = "unwinding" => Spent(s) = Budget(s) - 1
<1>1. phase'[s] \in Attempting => Current(s)' \in Entitled(s)'
  <2>1. /\ flow' = flow /\ level'[s] \in 1 .. Len(flow[s].retries) /\ attempt'[s] \in Nat
        /\ MaxRetries(s)' = flow[s].retries[level'[s]]
    BY WithinStep, NextLevel
  <2>2. phase'[s] \in Attempting => attempt'[s] <= flow[s].retries[level'[s]]
    BY <2>1, WithinStep
  <2>3. phase'[s] \in Attempting => <<level'[s], attempt'[s]>> \in Entitled(s)
    BY <2>1, <2>2, EntitledPairs
  <2>4. Current(s)' = <<level'[s], attempt'[s]>> /\ Entitled(s)' = Entitled(s)
    BY <2>1 DEF Current, Entitled
  <2> QED BY <2>3, <2>4
<1>2. CASE /\ level'[s] = level[s] /\ attempt'[s] = attempt[s]
           /\ phase[s] = "running" => phase'[s] \notin Attempting \ {"running"}
           /\ phase[s] # "unwinding" /\ phase'[s] = "unwinding" => GiveUp(s)
  <2>1. Spent(s)' = Spent(s)
    <3>1. Entitled(s)' = Entitled(s)
      BY WithinStep DEF Entitled
    <3>2. Earlier(s)' = Earlier(s)
      BY <1>2, <3>1 DEF Earlier
    <3> QED BY <3>2 DEF Spent
  <2>2. ASSUME GiveUp(s) PROVE Spent(s) = Budget(s) - 1
    <3>1. Current(s) \in Entitled(s)
      BY <2>2, CurrentEntitled DEF GiveUp
    <3>2. level[s] = Len(flow[s].retries) /\ attempt[s] = MaxRetries(s)
      BY <2>2, RetriesType DEF GiveUp, HasFallback
    <3> QED BY <3>1, <3>2, LastAttempt
  <2> QED BY <1>1, <1>2, <2>1, <2>2 DEF Attempting
<1>3. CASE RetryAttempt(s) \/ RunOnError(s)
  <2>1. Current(s) \in Entitled(s)
    BY <1>3, CurrentEntitled DEF RetryAttempt, RunOnError
  <2>2. /\ \/ level'[s] = level[s] /\ attempt'[s] = attempt[s] + 1
           \/ /\ level'[s] = level[s] + 1 /\ attempt'[s] = 0
              /\ attempt[s] = MaxRetries(s)
        /\ flow' = flow /\ phase'[s] # "unwinding"
    BY <1>3 DEF RetryAttempt, RunOnError, TypeOK
  <2>3. Spent(s)' = Spent(s) + 1 /\ Spent(s) \in Nat
    BY <2>1, <2>2, NextAttempt
  <2> QED BY <1>1, <2>2, <2>3
<1>4. CASE phase[s] = "unwinding" /\ phase'[s] = "unwinding"
  BY <1>4 DEF Attempting
<1> QED BY <1>2, <1>3, <1>4, WithinStep

\* For every flow, every ladder of retries and fallbacks: attempts are made one
\* after the other, each once, up to the last of the last fallback and no
\* further (executeStep, runner.ts 353-451).
THEOREM AttemptsAccountedTheorem == Spec => AttemptsAccounted
<1>1. Init => Within
  BY WithinInit
<1>2. TypeOK /\ TypeOK' /\ Within /\ [Next]_vars => Within'
  BY WithinNext
<1>3. TypeOK /\ TypeOK' /\ Within /\ [Next]_vars =>
        [\A s \in Step :
           /\ phase'[s] \in Attempting =>
                /\ Current(s)' \in Entitled(s)'
                /\ Spent(s)' \in {Spent(s), Spent(s) + 1}
                /\ phase[s] = "running" /\ phase'[s] # "running" => Spent(s)' # Spent(s)
           /\ phase[s] # "unwinding" /\ phase'[s] = "unwinding" => Spent(s) = Budget(s) - 1]_vars
  BY AttemptsNext
<1> QED BY <1>1, <1>2, <1>3, TypeCorrect, PTL DEF Spec, AttemptsAccounted

=============================================================================
