------------------------------ MODULE VeinFlow ------------------------------
(***************************************************************************)
(* The DAG executor of vein: executeFlow, getDeps and executeStep of       *)
(* vein/src/runner.ts.                                                     *)
(*                                                                         *)
(* executeFlow launches every step at once; a step first awaits the        *)
(* promises of its dependencies, decides whether it is skipped, and then   *)
(* runs its attempts: the retries of the step, then those of its onError   *)
(* fallback, of that step's own fallback, and so on (`level`).  A step     *)
(* that fails never resolves its promise; the flow is rejected by the      *)
(* first failure while the other steps go on.                              *)
(*                                                                         *)
(* Abstracted: configs and templates (an attempt may fail at any of its    *)
(* awaits, whatever the reason), durations, event payloads.  Outputs are   *)
(* "true" and "false" for the booleans the gates look at, "data" for the   *)
(* rest.  Every await of the code lies between two actions.                *)
(***************************************************************************)
EXTENDS Integers, Sequences, FiniteSets

CONSTANTS
  NumSteps,  \* length of the flow's `steps` array; a step is its position
  Flows      \* the flows a run may be given

Step      == 1 .. NumSteps
UnknownId == 0                          \* a dependency no step has as its id
Gate      == {"none", "true", "false"}  \* `when`, "none" when it is not set
Output    == {"true", "false", "data"}

\* retries[1] is the step's options.retry.max, retries[2] that of its
\* onError step, retries[3] that of the fallback's own onError, ...
StepDef == [explicit : BOOLEAN, depends : SUBSET (Step \cup {UnknownId}),
            when : Gate, retries : Seq(Nat) \ {<<>>}]

ASSUME NumStepsAssumption == NumSteps \in Nat
ASSUME FlowsAssumption    == \A f \in Flows : f \in [Step -> StepDef]

VARIABLES
  flow,     \* the flow being executed
  phase,    \* where each step's runStep is
  level,    \* 1 while the step itself is tried, 2 for its onError, ...
  attempt,  \* the loop variable of executeStep at that level
  output,   \* scope[id]: the output of a step that is done
  settled   \* the promise executeFlow returned

vars == <<flow, phase, level, attempt, output, settled>>

Attempting == {"retrying", "starting", "running"}
Resolved   == {"done", "skipped"}
Phase      == {"waiting", "unwinding", "failed"} \cup Attempting \cup Resolved

TypeOK ==
  /\ flow \in Flows
  /\ phase \in [Step -> Phase]
  /\ level \in [Step -> Nat \ {0}]
  /\ attempt \in [Step -> Nat]
  /\ output \in [Step -> Output \cup {"undefined"}]
  /\ settled \in {"pending", "fulfilled", "rejected"}
  /\ \A s \in Step : level[s] <= Len(flow[s].retries)

-----------------------------------------------------------------------------
(* Dependencies and the decision to run or to skip.                        *)

\* Without `depends` a step depends on its predecessor in the array.
GetDeps(s) ==
  IF flow[s].explicit THEN flow[s].depends
  ELSE IF s > 1 THEN {s - 1} ELSE {}

\* Mutant: a dependency counts as resolved once its step failed (allSettled).
MutDepsAllSettled(s) ==
  \A d \in GetDeps(s) \cap Step : phase[d] \in Resolved \cup {"failed"}

\* An unknown id counts as resolved at once (Promise.resolve(undefined)).
DepsResolved(s) == \A d \in GetDeps(s) \cap Step : phase[d] \in Resolved

\* Mutant: `every` over no dependencies at all is true.
MutAllSkippedVacuous(s) ==
  \A d \in GetDeps(s) : d \in Step /\ phase[d] = "skipped"

AllSkipped(s) ==
  /\ GetDeps(s) # {}
  /\ \A d \in GetDeps(s) : d \in Step /\ phase[d] = "skipped"

\* Some dependency that ran returned the boolean the step waits for.
GateMatched(s) ==
  \E d \in GetDeps(s) \cap Step : phase[d] = "done" /\ output[d] = flow[s].when

Launches(s) == IF flow[s].when = "none" THEN ~AllSkipped(s) ELSE GateMatched(s)

-----------------------------------------------------------------------------
(* runStep and executeStep.                                                *)

Move(s, from, to) == phase[s] = from /\ phase' = [phase EXCEPT ![s] = to]

\* step.skipped, and the step's promise resolves to SKIP.
SkipStep(s) ==
  /\ DepsResolved(s)
  /\ ~Launches(s)
  /\ Move(s, "waiting", "skipped")
  /\ UNCHANGED <<flow, level, attempt, output, settled>>

\* emit(step.skipped) throws: runStep rejects without a retry, a fallback or a
\* step.error, and the step's promise never resolves.
SkipFails(s) ==
  /\ DepsResolved(s)
  /\ ~Launches(s)
  /\ Move(s, "waiting", "failed")
  /\ UNCHANGED <<flow, level, attempt, output, settled>>

\* Mutant: a step awaits the first of its dependencies (Promise.race).
MutLaunchRace(s) ==
  /\ GetDeps(s) = {} \/ \E d \in GetDeps(s) : d \in Step => phase[d] \in Resolved
  /\ Launches(s)
  /\ Move(s, "waiting", "starting")
  /\ UNCHANGED <<flow, level, attempt, output, settled>>

\* Mutant: the rejection of the flow cancels the steps not yet launched.
MutLaunchUnlessRejected(s) ==
  /\ settled # "rejected"
  /\ DepsResolved(s)
  /\ Launches(s)
  /\ Move(s, "waiting", "starting")
  /\ UNCHANGED <<flow, level, attempt, output, settled>>

LaunchStep(s) ==
  /\ DepsResolved(s)
  /\ Launches(s)
  /\ Move(s, "waiting", "starting")
  /\ UNCHANGED <<flow, level, attempt, output, settled>>

\* step.retry, then the delay.
EmitRetry(s) ==
  /\ Move(s, "retrying", "starting")
  /\ UNCHANGED <<flow, level, attempt, output, settled>>

\* The config is resolved, step.start is emitted, the handler is called.
EmitStart(s) ==
  /\ Move(s, "starting", "running")
  /\ UNCHANGED <<flow, level, attempt, output, settled>>

\* The handler (or the innermost fallback's) returns: step.end, the output
\* enters the scope and the step's promise resolves.
StepReturns(s) ==
  /\ Move(s, "running", "done")
  /\ \E o \in Output : output' = [output EXCEPT ![s] = o]
  /\ UNCHANGED <<flow, level, attempt, settled>>

\* Mutant: the fallback gets the step's own retries.
MutMaxRetriesOuter(s) == flow[s].retries[1]

\* The catch block of executeStep, entered from any await of the try block:
\* another attempt, else the fallback, else the error goes up.
MaxRetries(s)  == flow[s].retries[level[s]]
HasFallback(s) == level[s] < Len(flow[s].retries)

RetryAttempt(s) ==
  /\ phase[s] \in Attempting
  /\ attempt[s] < MaxRetries(s)
  /\ attempt' = [attempt EXCEPT ![s] = @ + 1]
  /\ phase' = [phase EXCEPT ![s] = "retrying"]
  /\ UNCHANGED <<flow, level, output, settled>>

RunOnError(s) ==
  /\ phase[s] \in Attempting
  /\ attempt[s] = MaxRetries(s)
  /\ HasFallback(s)
  /\ level' = [level EXCEPT ![s] = @ + 1]
  /\ attempt' = [attempt EXCEPT ![s] = 0]
  /\ phase' = [phase EXCEPT ![s] = "starting"]
  /\ UNCHANGED <<flow, output, settled>>

GiveUp(s) ==
  /\ phase[s] \in Attempting
  /\ attempt[s] = MaxRetries(s)
  /\ ~HasFallback(s)
  /\ phase' = [phase EXCEPT ![s] = "unwinding"]
  /\ UNCHANGED <<flow, level, attempt, output, settled>>

\* step.error at the innermost level first; the outermost one rejects runStep.
EmitError(s) ==
  /\ phase[s] = "unwinding"
  /\ IF level[s] > 1
       THEN level' = [level EXCEPT ![s] = @ - 1] /\ UNCHANGED phase
       ELSE phase' = [phase EXCEPT ![s] = "failed"] /\ UNCHANGED level
  /\ UNCHANGED <<flow, attempt, output, settled>>

StepAction(s) ==
  \/ SkipStep(s)
  \/ SkipFails(s)
  \/ LaunchStep(s)
  \/ EmitRetry(s)
  \/ EmitStart(s)
  \/ StepReturns(s)
  \/ RetryAttempt(s)
  \/ RunOnError(s)
  \/ GiveUp(s)
  \/ EmitError(s)

-----------------------------------------------------------------------------
(* Promise.all over the steps.                                             *)

\* Mutant: the last step of the array awaited alone.
MutFulfilLastStep ==
  /\ settled = "pending"
  /\ NumSteps > 0 => phase[NumSteps] \in Resolved
  /\ settled' = "fulfilled"
  /\ UNCHANGED <<flow, phase, level, attempt, output>>

FulfilFlow ==
  /\ settled = "pending"
  /\ \A s \in Step : phase[s] \in Resolved
  /\ settled' = "fulfilled"
  /\ UNCHANGED <<flow, phase, level, attempt, output>>

RejectFlow ==
  /\ settled = "pending"
  /\ \E s \in Step : phase[s] = "failed"
  /\ settled' = "rejected"
  /\ UNCHANGED <<flow, phase, level, attempt, output>>

Init ==
  /\ flow \in Flows
  /\ phase = [s \in Step |-> "waiting"]
  /\ level = [s \in Step |-> 1]
  /\ attempt = [s \in Step |-> 0]
  /\ output = [s \in Step |-> "undefined"]
  /\ settled = "pending"

Next ==
  \/ \E s \in Step : StepAction(s)
  \/ FulfilFlow
  \/ RejectFlow

Spec == Init /\ [][Next]_vars

\* The event loop runs every continuation that is ready, and every dispatched
\* handler eventually returns or throws (an assumption on step handlers).
Fairness ==
  /\ \A s \in Step : WF_vars(StepAction(s))
  /\ WF_vars(FulfilFlow)
  /\ WF_vars(RejectFlow)

FairSpec == Spec /\ Fairness

-----------------------------------------------------------------------------
(* Safety.                                                                 *)

\* The steps upstream of s: in every set that holds the dependencies of s and
\* those of its own members.
UpstreamClosed(C) == \A t \in C : GetDeps(t) \cap Step \subseteq C
Ancestors(s) ==
  { d \in Step : \A C \in SUBSET Step :
      UpstreamClosed(C) /\ GetDeps(s) \cap Step \subseteq C => d \in C }
Acyclic == \A s \in Step : s \notin Ancestors(s)

\* A step acts only once each of its dependencies is done or skipped, and that
\* stays true through its retries, its fallbacks and after the flow settled.
DependenciesResolved ==
  \A s \in Step : phase[s] # "waiting" => DepsResolved(s)

\* A template may read any upstream step: when a step acts, the output of every
\* step upstream of it, however far, is final.
AncestorsResolved ==
  \A s \in Step : phase[s] # "waiting" =>
    \A d \in Ancestors(s) : phase[d] \in Resolved

\* Run or skip is decided from values that never change afterwards: at any
\* later moment the same rule gives the same decision, so which steps run does
\* not depend on the order in which the dependencies resolved.  (A step fails in
\* its attempts, or on reporting that it is skipped.)
DecisionFinal ==
  \A s \in Step :
    phase[s] \notin {"waiting", "failed"} => (phase[s] = "skipped" <=> ~Launches(s))

\* Nothing downstream of a step that failed, or is reporting that it did, ever
\* runs or is even skipped, although the executor cancels nothing.
FailureStopsDescendants ==
  \A s, t \in Step :
    phase[s] \in {"unwinding", "failed"} /\ s \in Ancestors(t) => phase[t] = "waiting"

\* Skipping starts at a gate: a skipped step is gated itself or lies
\* downstream of a gated step that was skipped.
SkipsComeFromGates ==
  \A s \in Step : phase[s] = "skipped" =>
    \E g \in Ancestors(s) \cup {s} : phase[g] = "skipped" /\ flow[g].when # "none"

\* A fulfilled flow has no failed and no unfinished step; a rejected one has a
\* failed step to blame.
SettledForCause ==
  /\ settled = "fulfilled" => \A s \in Step : phase[s] \in Resolved
  /\ settled = "rejected" => \E s \in Step : phase[s] = "failed"

-----------------------------------------------------------------------------
(* Refinement: the flow as its caller sees it.                             *)

CanAct(s) ==
  \/ phase[s] \in Attempting \cup {"unwinding"}
  \/ phase[s] = "waiting" /\ DepsResolved(s)

busy == \E s \in Step : CanAct(s)

Promise == INSTANCE FlowPromise WITH nests <- FALSE

\* executeFlow settles at most once, is quiet once fulfilled, and never wakes
\* up again once no step can act.
PromiseSpec == Promise!Spec

=============================================================================
