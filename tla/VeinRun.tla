------------------------------ MODULE VeinRun ------------------------------
(***************************************************************************)
(* One vein server and its runs: runWorkflow (vein/src/runner.ts), the     *)
(* event log and the summary it writes (vein/src/store.ts), launchDetached *)
(* and the routes that read runs back (vein/src/createVein.ts).            *)
(*                                                                         *)
(* A job is one call of runWorkflow: "detached" ones come from the POST    *)
(* routes, "direct" ones from the programmatic run().  The flow a job      *)
(* executes is FlowPromise.  A client follows the stream of a run, or      *)
(* lists it.  Every await of the code lies between two actions; a write    *)
(* may fail, and the server may die and come back.                         *)
(*                                                                         *)
(* `missed` is a history variable: no action depends on it.                *)
(*                                                                         *)
(* Abstracted: the contents of events and summaries.  A summary is read    *)
(* back as "torn" from the moment its file is truncated until its text is  *)
(* written; the code treats such a file like a missing one.                *)
(***************************************************************************)
EXTENDS Integers, Sequences, FiniteSets

CONSTANTS
  Job, RunId, Client,
  RunIdOf,        \* the run id each job gets: the caller's, or the time in ms
  ViaOf,          \* how each job is launched
  MaxStepEvents,  \* bound: events the steps of one run add to its log
  MaxFailures,    \* bound: writes that fail
  MaxCrashes      \* bound: times the server dies

ASSUME RunIdAssumption == RunIdOf \in [Job -> RunId]
ASSUME ViaAssumption   == ViaOf \in [Job -> {"detached", "direct"}]
ASSUME BoundAssumption ==
  MaxStepEvents \in Nat /\ MaxFailures \in Nat /\ MaxCrashes \in Nat

VARIABLES
  pc,          \* where each job is in runWorkflow
  flows,       \* the promise of each job's executeFlow, and its busy steps
  outcome,     \* the summary a job is about to write
  entered,     \* the job logged run.start and entered its try block
  disposed,    \* the job called services.onRunEnd
  log,         \* events.jsonl of each run, as event types
  summary,     \* run.json of each run
  activeRuns,  \* the server's set of runs being executed
  client,      \* what each client is doing
  missed,      \* history: clients that read run.json before its verdict, and were
               \* not answered yet when it was written
  failures, crashes

jobVars == <<pc, flows, outcome, entered, disposed>>
runVars == <<log, summary>>
clientVars == <<client, missed>>
vars    == <<jobVars, runVars, activeRuns, clientVars, failures, crashes>>

EventType == {"run.start", "step", "run.end", "run.error"}
Terminal  == {"run.end", "run.error"}
Outcome   == {"success", "error"}
Promise   == [settled : {"pending", "fulfilled", "rejected"}, busy : BOOLEAN, nests : BOOLEAN]
Pc == {"idle", "refusing", "starting", "flowing", "ending", "erroring", "opening",
       "writing", "tearing", "leaving", "returned", "dead"}

\* `run` is the run a client asked for, `pos` the events its stream delivered,
\* `seen` the summary it read, `answer` the status it was finally given.
ClientState ==
  [at : {"idle", "tailing", "reading", "checking", "answered"}, run : RunId,
   pos : Nat, seen : Outcome \cup {"none"},
   answer : Outcome \cup {"none", "running", "stale"}]

TypeOK ==
  /\ pc \in [Job -> Pc]
  /\ flows \in [Job -> Promise]
  /\ outcome \in [Job -> Outcome \cup {"none"}]
  /\ entered \in [Job -> BOOLEAN]
  /\ disposed \in [Job -> BOOLEAN]
  /\ log \in [RunId -> Seq(EventType)]
  /\ summary \in [RunId -> Outcome \cup {"none", "torn"}]
  /\ activeRuns \in SUBSET RunId
  /\ client \in [Client -> ClientState]
  /\ missed \in SUBSET Client
  /\ failures \in 0 .. MaxFailures
  /\ crashes \in 0 .. MaxCrashes
  /\ \A c \in Client : client[c].pos <= Len(log[client[c].run])

Logged(r, type) == \E i \in DOMAIN log[r] : log[r][i] = type

\* The job is the only one of its run.
Sole(r) == \A j, k \in Job : RunIdOf[j] = r /\ RunIdOf[k] = r => j = k

Executing(j) == pc[j] \notin {"idle", "returned", "dead"}

Goto(j, from, to) == pc[j] = from /\ pc' = [pc EXCEPT ![j] = to]

\* emit: the event is appended to the log of the job's run.
Emit(j, type) == log' = [log EXCEPT ![RunIdOf[j]] = Append(@, type)]

\* emit throws: the append failed, or it was made and onEvent threw.
EmitFails(j, type) ==
  /\ failures < MaxFailures
  /\ failures' = failures + 1
  /\ Emit(j, type) \/ UNCHANGED log

-----------------------------------------------------------------------------
(* Launching.                                                              *)

\* Mutant: the run is not registered as active before it is launched.
MutLaunchUntracked(j) ==
  /\ \E p \in {"refusing", "starting"} : Goto(j, "idle", p)
  /\ UNCHANGED <<flows, outcome, entered, disposed, runVars, activeRuns, clientVars,
                 failures, crashes>>

\* launchDetached registers the run, run() does not; the input is validated
\* before the first await.
Launch(j) ==
  /\ \E p \in {"refusing", "starting"} : Goto(j, "idle", p)
  /\ activeRuns' = IF ViaOf[j] = "detached" THEN activeRuns \cup {RunIdOf[j]}
                   ELSE activeRuns
  /\ UNCHANGED <<flows, outcome, entered, disposed, runVars, clientVars, failures, crashes>>

\* The input was invalid: run.error, then a summary, outside any try block.
EmitRefusal(j) ==
  /\ Goto(j, "refusing", "opening")
  /\ outcome' = [outcome EXCEPT ![j] = "error"]
  /\ Emit(j, "run.error")
  /\ UNCHANGED <<flows, entered, disposed, summary, activeRuns, clientVars, failures, crashes>>

EmitRefusalFails(j) ==
  /\ Goto(j, "refusing", "leaving")
  /\ EmitFails(j, "run.error")
  /\ UNCHANGED <<flows, outcome, entered, disposed, summary, activeRuns, clientVars, crashes>>

EmitRunStart(j) ==
  /\ Goto(j, "starting", "flowing")
  /\ entered' = [entered EXCEPT ![j] = TRUE]
  /\ Emit(j, "run.start")
  /\ UNCHANGED <<flows, outcome, disposed, summary, activeRuns, clientVars, failures, crashes>>

\* Before the try block: no terminal event, no summary, no teardown.
EmitRunStartFails(j) ==
  /\ Goto(j, "starting", "leaving")
  /\ EmitFails(j, "run.start")
  /\ UNCHANGED <<flows, outcome, entered, disposed, summary, activeRuns, clientVars, crashes>>

-----------------------------------------------------------------------------
(* The flow, as FlowPromise describes it.                                  *)

Flow(j) == INSTANCE FlowPromise
             WITH settled <- flows[j].settled, busy <- flows[j].busy,
                  nests <- flows[j].nests

StepEvents(r) == Cardinality({ i \in DOMAIN log[r] : log[r][i] = "step" })

\* A step acts, and may log an event: also after the flow was rejected and
\* even after the job returned.
FlowWorks(j) ==
  /\ entered[j] /\ pc[j] # "dead"
  /\ \E p \in Promise : flows' = [flows EXCEPT ![j] = p]
  /\ Flow(j)!Work
  /\ \/ UNCHANGED log
     \/ StepEvents(RunIdOf[j]) < MaxStepEvents /\ Emit(j, "step")
  /\ UNCHANGED <<pc, outcome, entered, disposed, summary, activeRuns, clientVars,
                 failures, crashes>>

FlowSettles(j) ==
  /\ entered[j] /\ pc[j] # "dead"
  /\ \E p \in Promise : flows' = [flows EXCEPT ![j] = p]
  /\ Flow(j)!Fulfil \/ Flow(j)!Reject
  /\ UNCHANGED <<pc, outcome, entered, disposed, runVars, activeRuns, clientVars,
                 failures, crashes>>

\* `await executeFlow(...)` resumes: with the output, or in the catch block.
FlowReturns(j) ==
  /\ flows[j].settled # "pending"
  /\ Goto(j, "flowing", IF flows[j].settled = "fulfilled" THEN "ending" ELSE "erroring")
  /\ UNCHANGED <<flows, outcome, entered, disposed, runVars, activeRuns, clientVars,
                 failures, crashes>>

-----------------------------------------------------------------------------
(* The terminal event, the summary, the teardown.                          *)

\* Mutant: the summary is written without run.end having been logged.
MutEmitRunEndSkipped(j) ==
  /\ Goto(j, "ending", "opening")
  /\ outcome' = [outcome EXCEPT ![j] = "success"]
  /\ UNCHANGED <<flows, entered, disposed, runVars, activeRuns, clientVars, failures, crashes>>

EmitRunEnd(j) ==
  /\ Goto(j, "ending", "opening")
  /\ outcome' = [outcome EXCEPT ![j] = "success"]
  /\ Emit(j, "run.end")
  /\ UNCHANGED <<flows, entered, disposed, summary, activeRuns, clientVars, failures, crashes>>

\* Still inside the try block: the catch block logs run.error.
EmitRunEndFails(j) ==
  /\ Goto(j, "ending", "erroring")
  /\ EmitFails(j, "run.end")
  /\ UNCHANGED <<flows, outcome, entered, disposed, summary, activeRuns, clientVars, crashes>>

EmitRunError(j) ==
  /\ Goto(j, "erroring", "opening")
  /\ outcome' = [outcome EXCEPT ![j] = "error"]
  /\ Emit(j, "run.error")
  /\ UNCHANGED <<flows, entered, disposed, summary, activeRuns, clientVars, failures, crashes>>

\* Mutant: teardown placed after the catch block instead of in `finally`.
MutEmitRunErrorFailsNoTeardown(j) ==
  /\ Goto(j, "erroring", "leaving")
  /\ EmitFails(j, "run.error")
  /\ UNCHANGED <<flows, outcome, entered, disposed, summary, activeRuns, clientVars, crashes>>

\* The catch block throws; only `finally` runs on the way out.
EmitRunErrorFails(j) ==
  /\ Goto(j, "erroring", "tearing")
  /\ EmitFails(j, "run.error")
  /\ UNCHANGED <<flows, outcome, entered, disposed, summary, activeRuns, clientVars, crashes>>

\* finalize: writeFile truncates the file before it writes it.
OpenSummary(j) ==
  /\ Goto(j, "opening", "writing")
  /\ summary' = [summary EXCEPT ![RunIdOf[j]] = "torn"]
  /\ UNCHANGED <<flows, outcome, entered, disposed, log, activeRuns, clientVars,
                 failures, crashes>>

\* Past the last statement: `finally`, if the job had entered the try block.
Exit(j) == IF entered[j] THEN "tearing" ELSE "leaving"

\* The clients that found no summary of the run and are not answered yet.
Missing(r) ==
  { c \in Client : client[c].at = "checking" /\ client[c].run = r /\ client[c].seen = "none" }

\* Mutant: onRunEnd is called in the try block, after finalize, and throws.
MutWriteSummaryUnguarded(j) ==
  /\ Goto(j, "writing", IF outcome[j] = "success" THEN "erroring" ELSE Exit(j))
  /\ summary' = [summary EXCEPT ![RunIdOf[j]] = outcome[j]]
  /\ missed' = missed \cup Missing(RunIdOf[j])
  /\ UNCHANGED <<flows, outcome, entered, disposed, log, activeRuns, client,
                 failures, crashes>>

WriteSummary(j) ==
  /\ Goto(j, "writing", Exit(j))
  /\ summary' = [summary EXCEPT ![RunIdOf[j]] = outcome[j]]
  /\ missed' = missed \cup Missing(RunIdOf[j])
  /\ UNCHANGED <<flows, outcome, entered, disposed, log, activeRuns, client,
                 failures, crashes>>

\* finalize fails, before or after it truncated the file.  When it was to
\* record a success, the catch block takes over and the run becomes an error.
FinalizeFails(j) ==
  /\ pc[j] \in {"opening", "writing"}
  /\ failures < MaxFailures
  /\ failures' = failures + 1
  /\ pc' = [pc EXCEPT ![j] = IF outcome[j] = "success" THEN "erroring" ELSE Exit(j)]
  /\ UNCHANGED <<flows, outcome, entered, disposed, runVars, activeRuns, clientVars, crashes>>

\* onRunEnd; it is guarded, whether it throws does not matter.
Teardown(j) ==
  /\ Goto(j, "tearing", "leaving")
  /\ disposed' = [disposed EXCEPT ![j] = TRUE]
  /\ UNCHANGED <<flows, outcome, entered, runVars, activeRuns, clientVars, failures, crashes>>

\* Mutant: the run is forgotten only when it reached its summary.
MutFinishIfFinalized(j) ==
  /\ Goto(j, "leaving", "returned")
  /\ activeRuns' = IF ViaOf[j] = "detached" /\ outcome[j] # "none"
                   THEN activeRuns \ {RunIdOf[j]} ELSE activeRuns
  /\ UNCHANGED <<flows, outcome, entered, disposed, runVars, clientVars, failures, crashes>>

\* runWorkflow returns or throws; launchDetached's `finally` forgets the run.
Finish(j) ==
  /\ Goto(j, "leaving", "returned")
  /\ activeRuns' = IF ViaOf[j] = "detached" THEN activeRuns \ {RunIdOf[j]}
                   ELSE activeRuns
  /\ UNCHANGED <<flows, outcome, entered, disposed, runVars, clientVars, failures, crashes>>

JobStep(j) ==
  \/ EmitRefusal(j)
  \/ EmitRunStart(j)
  \/ FlowReturns(j)
  \/ EmitRunEnd(j)
  \/ EmitRunError(j)
  \/ OpenSummary(j)
  \/ WriteSummary(j)
  \/ Teardown(j)
  \/ Finish(j)

JobFails(j) ==
  \/ EmitRefusalFails(j)
  \/ EmitRunStartFails(j)
  \/ EmitRunEndFails(j)
  \/ EmitRunErrorFails(j)
  \/ FinalizeFails(j)

-----------------------------------------------------------------------------
(* Clients.                                                                *)

Become(c, state) ==
  /\ client' = [client EXCEPT ![c] = state]
  /\ UNCHANGED <<missed, jobVars, runVars, activeRuns, failures, crashes>>

\* GET .../stream: any run id will do, also one that is launched later.
OpenStream(c, r) ==
  /\ client[c].at = "idle"
  /\ Become(c, [client[c] EXCEPT !.at = "tailing", !.run = r])

\* The run's directory may exist as soon as a job was launched for it.
ListRun(c, r) ==
  /\ client[c].at = "idle"
  /\ \E j \in Job : RunIdOf[j] = r /\ pc[j] # "idle"
  /\ Become(c, [client[c] EXCEPT !.at = "reading", !.run = r])

Pending(c) == client[c].pos < Len(log[client[c].run])
NextEvent(c) == log[client[c].run][client[c].pos + 1]

\* tailEvents yields the next event; the first terminal one ends the tail.
Deliver(c) ==
  /\ client[c].at = "tailing"
  /\ Pending(c)
  /\ Become(c, [client[c] EXCEPT !.pos = @ + 1,
                  !.at = IF NextEvent(c) \in Terminal THEN "reading" ELSE @])

\* The client goes away: the tail is aborted.
Disconnect(c) ==
  /\ client[c].at = "tailing"
  /\ Become(c, [client[c] EXCEPT !.at = "idle", !.pos = 0])

\* getRunSummary: a missing file and a torn one both read as null.
ReadSummary(c) ==
  /\ client[c].at = "reading"
  /\ Become(c, [client[c] EXCEPT !.at = "checking",
                  !.seen = IF summary[client[c].run] \in Outcome
                           THEN summary[client[c].run] ELSE "none"])

\* Without a summary, activeRuns decides.
Answer(c) ==
  /\ client[c].at = "checking"
  /\ Become(c, [client[c] EXCEPT !.at = "answered",
                  !.answer = IF client[c].seen # "none" THEN client[c].seen
                             ELSE IF client[c].run \in activeRuns THEN "running"
                             ELSE "stale"])

ClientStep(c) == Deliver(c) \/ ReadSummary(c) \/ Answer(c)

-----------------------------------------------------------------------------

\* The server dies and comes back: jobs and the active set are memory, log and
\* summary are files, connections are lost.
Crash ==
  /\ crashes < MaxCrashes
  /\ crashes' = crashes + 1
  /\ pc' = [j \in Job |-> IF Executing(j) THEN "dead" ELSE pc[j]]
  /\ flows' = [j \in Job |-> [flows[j] EXCEPT !.busy = FALSE]]
  /\ activeRuns' = {}
  /\ client' = [c \in Client |-> IF client[c].at = "answered" THEN client[c]
                                 ELSE [client[c] EXCEPT !.at = "idle", !.pos = 0]]
  /\ missed' = { c \in missed : client[c].at = "answered" }
  /\ UNCHANGED <<outcome, entered, disposed, runVars, failures>>

Init ==
  /\ pc = [j \in Job |-> "idle"]
  /\ flows \in [Job -> { p \in Promise : p.settled = "pending" }]
  /\ outcome = [j \in Job |-> "none"]
  /\ entered = [j \in Job |-> FALSE]
  /\ disposed = [j \in Job |-> FALSE]
  /\ log = [r \in RunId |-> <<>>]
  /\ summary = [r \in RunId |-> "none"]
  /\ activeRuns = {}
  /\ client \in [Client -> [at : {"idle"}, run : RunId, pos : {0}, seen : {"none"},
                            answer : {"none"}]]
  /\ missed = {}
  /\ failures = 0
  /\ crashes = 0

Next ==
  \/ \E j \in Job : Launch(j) \/ FlowWorks(j) \/ FlowSettles(j) \/ JobStep(j) \/ JobFails(j)
  \/ \E c \in Client : ClientStep(c) \/ Disconnect(c)
  \/ \E c \in Client, r \in RunId : OpenStream(c, r) \/ ListRun(c, r)
  \/ Crash

Spec == Init /\ [][Next]_vars

\* Flows settle (VeinFlow shows it of the acyclic ones), the event loop runs
\* what is ready, the tail polls.  Nobody has to launch, to ask or to hang up.
Fairness ==
  /\ \A j \in Job : WF_vars(FlowSettles(j)) /\ WF_vars(JobStep(j))
  /\ \A c \in Client : WF_vars(ClientStep(c))

FairSpec == Spec /\ Fairness

-----------------------------------------------------------------------------
(* Safety.                                                                 *)

\* run.json never tells a verdict the log does not: the terminal event is
\* written first (EVAL_SPEC: the log "is the ordered source of truth").
SummaryBacked ==
  \A r \in RunId :
    /\ summary[r] = "success" => Logged(r, "run.end")
    /\ summary[r] = "error" => Logged(r, "run.error")

\* A run with a success summary has one terminal event, run.end.  Unless a step
\* of it calls a subflow under retry or onError, run.end is the end of its log and
\* no step is left that could add to it.
SuccessClosesLog ==
  \A j \in Job :
    LET r == RunIdOf[j]
    IN  Sole(r) /\ summary[r] = "success" =>
          \E n \in DOMAIN log[r] :
            /\ log[r][n] = "run.end"
            /\ \A i \in DOMAIN log[r] : log[r][i] \in Terminal => i = n
            /\ ~flows[j].nests => n = Len(log[r]) /\ ~flows[j].busy

\* onRunEnd was called for exactly the jobs that had logged run.start, whatever
\* failed in between.
TeardownFollowsStart == \A j \in Job : pc[j] = "returned" => disposed[j] = entered[j]

\* What a client was told of a run holds for good: the verdict it was given stays
\* the verdict of the run; a detached run it was told is stale is executed by
\* nobody, nor ever will be again, and has no verdict, unless that was written
\* between the client's reading of run.json and its look at activeRuns.
AnswersHold ==
  \A c \in Client, j \in Job :
    client[c].run = RunIdOf[j] /\ Sole(RunIdOf[j]) =>
      /\ client[c].answer \in Outcome => summary[RunIdOf[j]] = client[c].answer
      /\ client[c].answer = "stale" /\ ViaOf[j] = "detached" =>
           ~Executing(j) /\ (summary[RunIdOf[j]] \in Outcome => c \in missed)

-----------------------------------------------------------------------------
(* Refinement.                                                             *)

\* The status GET /runs would answer, of runs that were ever launched.
StatusOf(r) ==
  IF \A j \in Job : RunIdOf[j] = r => pc[j] = "idle" THEN "absent"
  ELSE IF summary[r] \in Outcome THEN summary[r]
  ELSE IF r \in activeRuns THEN "running"
  ELSE "stale"

Status == INSTANCE RunStatus WITH status <- [r \in RunId |-> StatusOf(r)]

\* Every run keeps the one verdict it gets.
StatusSpec == Status!Spec

=============================================================================
