--------------------------- MODULE VeinRunProofs ---------------------------
(***************************************************************************)
(* Theorems about VeinRun, for any number of jobs, runs, clients and       *)
(* failures, whatever run ids the jobs share.                              *)
(***************************************************************************)
EXTENDS MCVeinRun, TLAPS

\* The parts of the type invariant that a job's own steps concern.
Typed ==
  /\ pc \in [Job -> Pc]
  /\ outcome \in [Job -> Outcome \cup {"none"}]
  /\ entered \in [Job -> BOOLEAN]
  /\ disposed \in [Job -> BOOLEAN]
  /\ log \in [RunId -> Seq(EventType)]
  /\ summary \in [RunId -> Outcome \cup {"none", "torn"}]

-----------------------------------------------------------------------------
(* The log only grows.                                                     *)

\* What emit does to the logs.
LEMMA EmitLogs ==
  ASSUME log \in [RunId -> Seq(EventType)], NEW j \in Job, NEW type \in EventType,
         Emit(j, type)
  PROVE  /\ log' \in [RunId -> Seq(EventType)]
         /\ \A r \in RunId, t \in EventType : Logged(r, t) => Logged(r, t)'
         /\ Logged(RunIdOf[j], type)'
         /\ \A r \in RunId : Len(log[r]) <= Len(log'[r])
<1>1. RunIdOf[j] \in RunId
  BY RunIdAssumption
<1>2. log' = [log EXCEPT ![RunIdOf[j]] = Append(@, type)]
  BY DEF Emit
<1>3. log[RunIdOf[j]] \in Seq(EventType)
  BY <1>1
<1>4. log'[RunIdOf[j]] = Append(log[RunIdOf[j]], type)
  BY <1>1, <1>2
<1>5. \A r \in RunId : r # RunIdOf[j] => log'[r] = log[r]
  BY <1>2
<1>6. log' \in [RunId -> Seq(EventType)]
  BY <1>1, <1>2, <1>3
<1>7. /\ Len(log'[RunIdOf[j]]) = Len(log[RunIdOf[j]]) + 1
      /\ log'[RunIdOf[j]][Len(log[RunIdOf[j]]) + 1] = type
      /\ \A i \in DOMAIN log[RunIdOf[j]] : /\ i \in DOMAIN log'[RunIdOf[j]]
                                           /\ log'[RunIdOf[j]][i] = log[RunIdOf[j]][i]
      /\ Len(log[RunIdOf[j]]) + 1 \in DOMAIN log'[RunIdOf[j]]
  BY <1>3, <1>4
<1>8. ASSUME NEW r \in RunId, NEW t \in EventType, Logged(r, t)
      PROVE  Logged(r, t)'
  <2>1. CASE r = RunIdOf[j]
    BY <1>7, <1>8, <2>1 DEF Logged
  <2>2. CASE r # RunIdOf[j]
    BY <1>5, <1>8, <2>2 DEF Logged
  <2> QED BY <2>1, <2>2
<1>9. Logged(RunIdOf[j], type)'
  BY <1>7 DEF Logged
<1>10. \A r \in RunId : Len(log[r]) <= Len(log'[r])
  <2>1. \A r \in RunId : Len(log[r]) \in Nat
    OBVIOUS
  <2> QED BY <1>5, <1>7, <2>1
<1> QED BY <1>6, <1>8, <1>9, <1>10

\* A log that is left alone.
LEMMA SameLogs ==
  ASSUME log \in [RunId -> Seq(EventType)], log' = log
  PROVE  /\ log' \in [RunId -> Seq(EventType)]
         /\ \A r \in RunId, t \in EventType : Logged(r, t) => Logged(r, t)'
         /\ \A r \in RunId : Len(log[r]) <= Len(log'[r])
<1>1. \A r \in RunId : Len(log[r]) \in Nat
  OBVIOUS
<1> QED BY <1>1 DEF Logged

\* Every step appends to the logs or leaves them alone.
LEMMA LogsGrow ==
  ASSUME Typed, [Next]_vars
  PROVE  /\ log' \in [RunId -> Seq(EventType)]
         /\ \A r \in RunId, t \in EventType : Logged(r, t) => Logged(r, t)'
         /\ \A r \in RunId : Len(log[r]) <= Len(log'[r])
<1>1. log' = log \/ \E j \in Job, type \in EventType : Emit(j, type)
  <2>1. CASE \E j \in Job : Launch(j) \/ FlowWorks(j) \/ FlowSettles(j)
    BY <2>1 DEF Launch, FlowWorks, FlowSettles, runVars, EventType
  <2>2. CASE \E j \in Job : JobStep(j)
    BY <2>2 DEF JobStep, EmitRefusal, EmitRunStart, FlowReturns, EmitRunEnd, EmitRunError,
                OpenSummary, WriteSummary, Teardown, Finish, runVars, EventType
  <2>3. CASE \E j \in Job : JobFails(j)
    BY <2>3 DEF JobFails, EmitRefusalFails, EmitRunStartFails, EmitRunEndFails,
                EmitRunErrorFails, FinalizeFails, EmitFails, runVars, EventType
  <2>4. CASE \E c \in Client : ClientStep(c) \/ Disconnect(c)
    BY <2>4 DEF ClientStep, Deliver, ReadSummary, Answer, Disconnect, Become, runVars
  <2>5. CASE \E c \in Client, r \in RunId : OpenStream(c, r) \/ ListRun(c, r)
    BY <2>5 DEF OpenStream, ListRun, Become, runVars
  <2>6. CASE Crash
    BY <2>6 DEF Crash, runVars
  <2>7. CASE UNCHANGED vars
    BY <2>7 DEF vars, runVars
  <2> QED BY <2>1, <2>2, <2>3, <2>4, <2>5, <2>6, <2>7 DEF Next
<1>2. log \in [RunId -> Seq(EventType)]
  BY DEF Typed
<1>3. CASE log' = log
  BY <1>2, <1>3, SameLogs
<1>4. CASE \E j \in Job, type \in EventType : Emit(j, type)
  BY <1>2, <1>4, EmitLogs
<1> QED BY <1>1, <1>3, <1>4

-----------------------------------------------------------------------------
(* Types.                                                                  *)

LEMMA TypedInit == Init => Typed
<1> SUFFICES ASSUME Init PROVE Typed
  OBVIOUS
<1>1. log \in [RunId -> Seq(EventType)]
  BY DEF Init
<1> QED BY <1>1 DEF Init, Typed, Pc, Outcome

LEMMA TypedNext == Typed /\ [Next]_vars => Typed'
<1> SUFFICES ASSUME Typed, [Next]_vars PROVE Typed'
  OBVIOUS
<1> USE RunIdAssumption DEF Pc, Outcome, Goto, jobVars, runVars
<1>1. log' \in [RunId -> Seq(EventType)]
  BY LogsGrow
<1>2. ASSUME NEW j \in Job, Launch(j) \/ FlowWorks(j) \/ FlowSettles(j)
      PROVE  Typed'
  BY <1>1, <1>2 DEF Typed, Launch, FlowWorks, FlowSettles
<1>3. ASSUME NEW j \in Job, JobStep(j)
      PROVE  Typed'
  <2>1. CASE EmitRefusal(j) \/ EmitRunStart(j) \/ EmitRunEnd(j) \/ EmitRunError(j)
    BY <1>1, <2>1 DEF Typed, EmitRefusal, EmitRunStart, EmitRunEnd, EmitRunError
  <2>2. CASE FlowReturns(j) \/ OpenSummary(j) \/ Teardown(j) \/ Finish(j)
    BY <1>1, <2>2 DEF Typed, FlowReturns, OpenSummary, Teardown, Finish
  <2>3. CASE WriteSummary(j)
    BY <1>1, <2>3 DEF Typed, WriteSummary, Exit
  <2> QED BY <1>3, <2>1, <2>2, <2>3 DEF JobStep
<1>4. ASSUME NEW j \in Job, JobFails(j)
      PROVE  Typed'
  <2>1. CASE EmitRefusalFails(j) \/ EmitRunStartFails(j) \/ EmitRunEndFails(j)
             \/ EmitRunErrorFails(j)
    BY <1>1, <2>1 DEF Typed, EmitRefusalFails, EmitRunStartFails, EmitRunEndFails,
                      EmitRunErrorFails
  <2>2. CASE FinalizeFails(j)
    BY <1>1, <2>2 DEF Typed, FinalizeFails, Exit
  <2> QED BY <1>4, <2>1, <2>2 DEF JobFails
<1>5. ASSUME NEW c \in Client, ClientStep(c) \/ Disconnect(c)
      PROVE  Typed'
  BY <1>1, <1>5 DEF Typed, ClientStep, Deliver, ReadSummary, Answer, Disconnect, Become
<1>6. ASSUME NEW c \in Client, NEW r \in RunId, OpenStream(c, r) \/ ListRun(c, r)
      PROVE  Typed'
  BY <1>1, <1>6 DEF Typed, OpenStream, ListRun, Become
<1>7. CASE Crash
  BY <1>1, <1>7 DEF Typed, Crash, Executing
<1>8. CASE UNCHANGED vars
  BY <1>1, <1>8 DEF Typed, vars
<1> QED BY <1>2, <1>3, <1>4, <1>5, <1>6, <1>7, <1>8 DEF Next

-----------------------------------------------------------------------------
(* SummaryBacked.                                                          *)

\* The log of the run tells the verdict.
Tells(r, verdict) ==
  /\ verdict = "success" => Logged(r, "run.end")
  /\ verdict = "error" => Logged(r, "run.error")

\* A job that is about to write a verdict has logged it: this is what makes
\* SummaryBacked inductive.
VerdictLogged ==
  \A j \in Job : pc[j] \in {"opening", "writing"} => Tells(RunIdOf[j], outcome[j])

BackedInv == Typed /\ VerdictLogged /\ SummaryBacked

LEMMA BackedInit == Init => BackedInv
  BY TypedInit DEF Init, BackedInv, VerdictLogged, SummaryBacked

LEMMA BackedNext == BackedInv /\ [Next]_vars => BackedInv'
<1> SUFFICES ASSUME BackedInv, [Next]_vars PROVE BackedInv'
  OBVIOUS
<1> USE RunIdAssumption
<1>0. Typed /\ Typed'
  BY TypedNext DEF BackedInv
<1>1. \A r \in RunId : /\ Logged(r, "run.end") => Logged(r, "run.end")'
                       /\ Logged(r, "run.error") => Logged(r, "run.error")'
  BY <1>0, LogsGrow DEF EventType
\* A job gets to its summary by logging the verdict, or is there already.
<1>3. ASSUME NEW j \in Job, pc'[j] \in {"opening", "writing"}
      PROVE  \/ pc[j] \in {"opening", "writing"} /\ outcome'[j] = outcome[j]
             \/ EmitRefusal(j) \/ EmitRunEnd(j) \/ EmitRunError(j)
  <2>1. CASE \E k \in Job : Launch(k) \/ FlowWorks(k) \/ FlowSettles(k)
    BY <1>0, <1>3, <2>1 DEF Launch, FlowWorks, FlowSettles, Goto, Typed
  <2>2. ASSUME NEW k \in Job, EmitRefusal(k) \/ EmitRunEnd(k) \/ EmitRunError(k), k # j
        PROVE  pc[j] \in {"opening", "writing"} /\ outcome'[j] = outcome[j]
    BY <1>0, <1>3, <2>2 DEF EmitRefusal, EmitRunEnd, EmitRunError, Goto, Typed
  <2>3. ASSUME NEW k \in Job, EmitRunStart(k) \/ FlowReturns(k) \/ OpenSummary(k)
                              \/ WriteSummary(k) \/ Teardown(k) \/ Finish(k)
        PROVE  pc[j] \in {"opening", "writing"} /\ outcome'[j] = outcome[j]
    BY <1>0, <1>3, <2>3 DEF EmitRunStart, FlowReturns, OpenSummary, WriteSummary,
                            Teardown, Finish, Goto, Exit, Typed
  <2>4. CASE \E k \in Job : JobFails(k)
    BY <1>0, <1>3, <2>4 DEF JobFails, EmitRefusalFails, EmitRunStartFails, EmitRunEndFails,
                            EmitRunErrorFails, FinalizeFails, Goto, Exit, Typed
  <2>5. CASE \E c \in Client : ClientStep(c) \/ Disconnect(c)
    BY <1>3, <2>5 DEF ClientStep, Deliver, ReadSummary, Answer, Disconnect, Become, jobVars
  <2>6. CASE \E c \in Client, r \in RunId : OpenStream(c, r) \/ ListRun(c, r)
    BY <1>3, <2>6 DEF OpenStream, ListRun, Become, jobVars
  <2>7. CASE Crash
    BY <1>3, <2>7 DEF Crash
  <2>8. CASE UNCHANGED vars
    BY <1>3, <2>8 DEF vars, jobVars
  <2> QED BY <2>1, <2>2, <2>3, <2>4, <2>5, <2>6, <2>7, <2>8 DEF Next, JobStep
<1>4. VerdictLogged'
  <2> SUFFICES ASSUME NEW j \in Job, pc'[j] \in {"opening", "writing"}
               PROVE  /\ outcome'[j] = "success" => Logged(RunIdOf[j], "run.end")'
                      /\ outcome'[j] = "error" => Logged(RunIdOf[j], "run.error")'
    BY DEF VerdictLogged, Tells
  <2>1. CASE pc[j] \in {"opening", "writing"} /\ outcome'[j] = outcome[j]
    BY <1>1, <2>1 DEF BackedInv, VerdictLogged, Tells
  <2>2. CASE EmitRefusal(j) \/ EmitRunError(j)
    <3>1. outcome'[j] = "error" /\ Emit(j, "run.error")
      BY <1>0, <2>2 DEF EmitRefusal, EmitRunError, Typed
    <3>2. Logged(RunIdOf[j], "run.error")'
      BY <1>0, <3>1, EmitLogs DEF EventType, Typed
    <3> QED BY <3>1, <3>2
  <2>3. CASE EmitRunEnd(j)
    <3>1. outcome'[j] = "success" /\ Emit(j, "run.end")
      BY <1>0, <2>3 DEF EmitRunEnd, Typed
    <3>2. Logged(RunIdOf[j], "run.end")'
      BY <1>0, <3>1, EmitLogs DEF EventType, Typed
    <3> QED BY <3>1, <3>2
  <2> QED BY <1>3, <2>1, <2>2, <2>3
\* Only WriteSummary writes a verdict, that of a job.
<1>5. ASSUME NEW r \in RunId, summary'[r] # summary[r], summary'[r] # "torn"
      PROVE  \E j \in Job : WriteSummary(j) /\ RunIdOf[j] = r /\ summary'[r] = outcome[j]
  <2>1. CASE \E k \in Job : Launch(k) \/ FlowWorks(k) \/ FlowSettles(k)
    BY <1>5, <2>1 DEF Launch, FlowWorks, FlowSettles, runVars
  <2>2. CASE \E k \in Job : JobStep(k)
    BY <1>0, <1>5, <2>2 DEF JobStep, EmitRefusal, EmitRunStart, FlowReturns, EmitRunEnd,
                       EmitRunError, OpenSummary, WriteSummary, Teardown, Finish, Typed, runVars
  <2>3. CASE \E k \in Job : JobFails(k)
    BY <1>5, <2>3 DEF JobFails, EmitRefusalFails, EmitRunStartFails, EmitRunEndFails,
                EmitRunErrorFails, FinalizeFails, runVars
  <2>4. CASE \E c \in Client : ClientStep(c) \/ Disconnect(c)
    BY <1>5, <2>4 DEF ClientStep, Deliver, ReadSummary, Answer, Disconnect, Become, runVars
  <2>5. CASE \E c \in Client, q \in RunId : OpenStream(c, q) \/ ListRun(c, q)
    BY <1>5, <2>5 DEF OpenStream, ListRun, Become, runVars
  <2>6. CASE Crash
    BY <1>5, <2>6 DEF Crash, runVars
  <2>7. CASE UNCHANGED vars
    BY <1>5, <2>7 DEF vars, runVars
  <2> QED BY <2>1, <2>2, <2>3, <2>4, <2>5, <2>6, <2>7 DEF Next
<1>6. SummaryBacked'
  <2> SUFFICES ASSUME NEW r \in RunId
               PROVE  /\ summary'[r] = "success" => Logged(r, "run.end")'
                      /\ summary'[r] = "error" => Logged(r, "run.error")'
    BY DEF SummaryBacked
  <2>1. CASE summary'[r] = summary[r] \/ summary'[r] = "torn"
    BY <1>1, <2>1 DEF BackedInv, SummaryBacked
  <2>2. CASE summary'[r] # summary[r] /\ summary'[r] # "torn"
    <3>1. PICK j \in Job : WriteSummary(j) /\ RunIdOf[j] = r /\ summary'[r] = outcome[j]
      BY <1>5, <2>2
    <3>2. Tells(r, summary'[r])
      BY <3>1 DEF WriteSummary, Goto, BackedInv, VerdictLogged, Tells
    <3> QED BY <1>1, <3>2 DEF Tells
  <2> QED BY <2>1, <2>2
<1> QED BY <1>0, <1>4, <1>6 DEF BackedInv

\* Whatever fails, whoever shares a run id and wherever the server dies: run.json
\* tells no verdict that the log of the run does not.
THEOREM SummaryBackedTheorem == Spec => []SummaryBacked
<1>1. BackedInv => SummaryBacked
  BY DEF BackedInv
<1> QED BY <1>1, BackedInit, BackedNext, PTL DEF Spec

-----------------------------------------------------------------------------
(* TeardownFollowsStart.                                                   *)

\* Where a job is in runWorkflow tells whether it entered the try block and
\* whether its teardown is done.
TeardownInv ==
  \A j \in Job :
    /\ pc[j] \in {"idle", "refusing", "starting"} => ~entered[j] /\ ~disposed[j]
    /\ pc[j] \in {"flowing", "ending", "erroring", "tearing"} => entered[j] /\ ~disposed[j]
    /\ pc[j] \in {"opening", "writing"} => ~disposed[j] /\ (entered[j] \/ outcome[j] = "error")
    /\ pc[j] \in {"leaving", "returned"} => (disposed[j] <=> entered[j])

LEMMA TeardownInit == Init => TeardownInv
  BY DEF Init, TeardownInv

LEMMA TeardownNext == Typed /\ TeardownInv /\ [Next]_vars => TeardownInv'
<1> SUFFICES ASSUME Typed, TeardownInv, [Next]_vars PROVE TeardownInv'
  OBVIOUS
<1> USE DEF Typed, TeardownInv, Goto
<1>1. ASSUME NEW k \in Job, Launch(k) \/ FlowWorks(k) \/ FlowSettles(k)
      PROVE  TeardownInv'
  BY <1>1 DEF Launch, FlowWorks, FlowSettles
<1>2. ASSUME NEW k \in Job, JobStep(k)
      PROVE  TeardownInv'
  <2>1. CASE EmitRefusal(k)
    BY <2>1 DEF EmitRefusal
  <2>2. CASE EmitRunStart(k)
    BY <2>2 DEF EmitRunStart
  <2>3. CASE FlowReturns(k)
    BY <2>3 DEF FlowReturns
  <2>4. CASE EmitRunEnd(k)
    BY <2>4 DEF EmitRunEnd
  <2>5. CASE EmitRunError(k)
    BY <2>5 DEF EmitRunError
  <2>6. CASE OpenSummary(k)
    BY <2>6 DEF OpenSummary
  <2>7. CASE WriteSummary(k)
    BY <2>7 DEF WriteSummary, Exit
  <2>8. CASE Teardown(k)
    BY <2>8 DEF Teardown
  <2>9. CASE Finish(k)
    BY <2>9 DEF Finish
  <2> QED BY <1>2, <2>1, <2>2, <2>3, <2>4, <2>5, <2>6, <2>7, <2>8, <2>9 DEF JobStep
<1>3. ASSUME NEW k \in Job, JobFails(k)
      PROVE  TeardownInv'
  <2>1. CASE EmitRefusalFails(k)
    BY <2>1 DEF EmitRefusalFails
  <2>2. CASE EmitRunStartFails(k)
    BY <2>2 DEF EmitRunStartFails
  <2>3. CASE EmitRunEndFails(k)
    BY <2>3 DEF EmitRunEndFails
  <2>4. CASE EmitRunErrorFails(k)
    BY <2>4 DEF EmitRunErrorFails
  <2>5. CASE FinalizeFails(k)
    BY <2>5 DEF FinalizeFails, Exit
  <2> QED BY <1>3, <2>1, <2>2, <2>3, <2>4, <2>5 DEF JobFails
<1>4. ASSUME NEW c \in Client, ClientStep(c) \/ Disconnect(c)
      PROVE  TeardownInv'
  BY <1>4 DEF ClientStep, Deliver, ReadSummary, Answer, Disconnect, Become, jobVars
<1>5. ASSUME NEW c \in Client, NEW r \in RunId, OpenStream(c, r) \/ ListRun(c, r)
      PROVE  TeardownInv'
  BY <1>5 DEF OpenStream, ListRun, Become, jobVars
<1>6. CASE Crash
  BY <1>6 DEF Crash, Executing
<1>7. CASE UNCHANGED vars
  BY <1>7 DEF vars, jobVars
<1> QED BY <1>1, <1>2, <1>3, <1>4, <1>5, <1>6, <1>7 DEF Next

\* Whatever fails on the way: a job that returned has called onRunEnd if, and
\* only if, it had logged run.start.
THEOREM TeardownFollowsStartTheorem == Spec => []TeardownFollowsStart
<1>1. Typed /\ TeardownInv => TeardownFollowsStart
  BY DEF Typed, TeardownInv, TeardownFollowsStart
<1>2. Init => Typed /\ TeardownInv
  BY TypedInit, TeardownInit
<1>3. (Typed /\ TeardownInv) /\ [Next]_vars => (Typed /\ TeardownInv)'
  BY TypedNext, TeardownNext
<1> QED BY <1>1, <1>2, <1>3, PTL DEF Spec

-----------------------------------------------------------------------------
(* What each step touches.                                                 *)

\* What the flow of a job does to its promise.
LEMMA FlowSteps ==
  ASSUME NEW j \in Job, flows \in [Job -> Promise], FlowWorks(j) \/ FlowSettles(j)
  PROVE  /\ flows' \in [Job -> Promise]
         /\ \A k \in Job : k # j => flows'[k] = flows[k]
<1>1. CASE FlowWorks(j)
  BY <1>1 DEF FlowWorks, Flow!Work, Promise
<1>2. CASE FlowSettles(j)
  BY <1>2 DEF FlowSettles, Flow!Fulfil, Flow!Reject, Promise
<1> QED BY <1>1, <1>2

\* What a job does.
JobActs(j) == Launch(j) \/ FlowWorks(j) \/ FlowSettles(j) \/ JobStep(j) \/ JobFails(j)

\* What a client does.
ClientActs(c) ==
  \/ ClientStep(c) \/ Disconnect(c)
  \/ \E r \in RunId : OpenStream(c, r) \/ ListRun(c, r)

\* A step is that of a job, of a client or of the server as a whole.
LEMMA Steps ==
  ASSUME [Next]_vars
  PROVE  \/ \E j \in Job : JobActs(j)
         \/ \E c \in Client : ClientActs(c)
         \/ Crash
         \/ UNCHANGED vars
BY DEF Next, JobActs, ClientActs

\* Clients only read.
LEMMA ClientFrame ==
  ASSUME NEW c \in Client, ClientActs(c)
  PROVE  UNCHANGED <<jobVars, runVars, activeRuns, failures, crashes, missed>>
BY DEF ClientActs, ClientStep, Deliver, ReadSummary, Answer, Disconnect, OpenStream, ListRun,
       Become

\* The job and its run are all it touches, beside the bounds.
LEMMA JobFrame ==
  ASSUME TypeOK, NEW k \in Job, JobActs(k)
  PROVE  /\ UNCHANGED <<client, crashes>>
         /\ missed \subseteq missed' /\ missed' \in SUBSET Client
         /\ flows' \in [Job -> Promise]
         /\ activeRuns' \in SUBSET RunId
         /\ failures' \in 0 .. MaxFailures
         /\ \A j \in Job : j # k => /\ pc'[j] = pc[j] /\ outcome'[j] = outcome[j]
                                    /\ entered'[j] = entered[j]
                                    /\ flows'[j] = flows[j]
         /\ \A r \in RunId : r # RunIdOf[k] => /\ log'[r] = log[r] /\ summary'[r] = summary[r]
                                               /\ r \in activeRuns' <=> r \in activeRuns
<1> USE RunIdAssumption, BoundAssumption DEF TypeOK, Goto, Emit, jobVars, runVars, clientVars
<1>1. CASE Launch(k)
  BY <1>1 DEF Launch
<1>2. CASE FlowWorks(k) \/ FlowSettles(k)
  <2>1. /\ flows' \in [Job -> Promise]
        /\ \A j \in Job : j # k => flows'[j] = flows[j]
    BY <1>2, FlowSteps
  <2> QED BY <1>2, <2>1 DEF FlowWorks, FlowSettles
<1>3. CASE JobStep(k)
  BY <1>3 DEF JobStep, EmitRefusal, EmitRunStart, FlowReturns, EmitRunEnd, EmitRunError,
              OpenSummary, WriteSummary, Missing, Teardown, Finish
<1>4. CASE JobFails(k)
  BY <1>4 DEF JobFails, EmitRefusalFails, EmitRunStartFails, EmitRunEndFails,
              EmitRunErrorFails, FinalizeFails, EmitFails
<1> QED BY <1>1, <1>2, <1>3, <1>4 DEF JobActs

-----------------------------------------------------------------------------
(* The type invariant.                                                     *)

\* A client that follows no run is at the beginning of any log.
Rewound == \A c \in Client : client[c].at = "idle" => client[c].pos = 0

\* TypeOK bounds what a stream delivered by the log of the run the client asked
\* for; a client that asks for another run must start from nothing.
WellTyped == TypeOK /\ Rewound

\* What a client does to itself, field by field.
LEMMA ClientMoves ==
  ASSUME client \in [Client -> ClientState], log \in [RunId -> Seq(EventType)],
         summary \in [RunId -> Outcome \cup {"none", "torn"}],
         NEW c \in Client, ClientActs(c)
  PROVE  LET old == client[c]
             new == client'[c]
         IN  /\ client' = [client EXCEPT ![c] = new]
             /\ old \in ClientState /\ new \in ClientState
             /\ \/ /\ old.at = "idle" /\ new.at = "tailing"
                   /\ new.pos = old.pos /\ new.seen = old.seen /\ new.answer = old.answer
                \/ /\ old.at = "idle" /\ new.at = "reading"
                   /\ \E j \in Job : RunIdOf[j] = new.run /\ pc[j] # "idle"
                   /\ new.pos = old.pos /\ new.seen = old.seen /\ new.answer = old.answer
                \/ /\ old.at = "tailing" /\ new.at \in {"tailing", "reading"}
                   /\ old.pos < Len(log[old.run]) /\ new.pos = old.pos + 1
                   /\ new.run = old.run /\ new.seen = old.seen /\ new.answer = old.answer
                \/ /\ old.at = "tailing" /\ new.at = "idle" /\ new.pos = 0
                   /\ new.run = old.run /\ new.seen = old.seen /\ new.answer = old.answer
                \/ /\ old.at = "reading" /\ new.at = "checking"
                   /\ new.run = old.run /\ new.pos = old.pos /\ new.answer = old.answer
                   /\ new.seen = IF summary[old.run] \in Outcome THEN summary[old.run]
                                 ELSE "none"
                \/ /\ old.at = "checking" /\ new.at = "answered"
                   /\ new.run = old.run /\ new.pos = old.pos /\ new.seen = old.seen
                   /\ new.answer = IF old.seen # "none" THEN old.seen
                                   ELSE IF old.run \in activeRuns THEN "running" ELSE "stale"
<1> DEFINE old == client[c]
           new == client'[c]
<1>1. old \in ClientState
  OBVIOUS
<1>2. /\ old.run \in RunId /\ old.pos \in Nat /\ old.seen \in Outcome \cup {"none"}
      /\ old.pos + 1 \in Nat
  BY <1>1 DEF ClientState
<1>3. CASE Deliver(c)
  <2> DEFINE p == IF NextEvent(c) \in Terminal THEN "reading" ELSE "tailing"
             n == old.pos + 1
  <2>1. /\ old.at = "tailing" /\ old.pos < Len(log[old.run])
        /\ client' = [client EXCEPT ![c] = [old EXCEPT !.pos = n, !.at = p]]
    BY <1>3 DEF Deliver, Pending, Become
  <2>2. p \in {"tailing", "reading"} /\ n \in Nat
    BY <1>2
  <2> HIDE DEF p, n
  <2>3. new = [old EXCEPT !.pos = n, !.at = p] /\ client' = [client EXCEPT ![c] = new]
    BY <2>1
  <2>4. /\ new \in ClientState /\ new.at = p /\ new.run = old.run /\ new.pos = n
        /\ new.seen = old.seen /\ new.answer = old.answer
    <3> HIDE DEF old, new
    <3> QED BY <1>1, <2>2, <2>3 DEF ClientState
  <2> QED BY <1>1, <2>1, <2>2, <2>3, <2>4 DEF n
<1>4. CASE ReadSummary(c)
  <2> DEFINE s == IF summary[old.run] \in Outcome THEN summary[old.run] ELSE "none"
  <2>1. /\ old.at = "reading"
        /\ client' = [client EXCEPT ![c] = [old EXCEPT !.at = "checking", !.seen = s]]
    BY <1>4 DEF ReadSummary, Become
  <2>2. s \in Outcome \cup {"none"}
    OBVIOUS
  <2> HIDE DEF s
  <2>3. new = [old EXCEPT !.at = "checking", !.seen = s] /\ client' = [client EXCEPT ![c] = new]
    BY <2>1
  <2>4. /\ new \in ClientState /\ new.at = "checking" /\ new.run = old.run
        /\ new.pos = old.pos /\ new.seen = s /\ new.answer = old.answer
    <3> HIDE DEF old, new
    <3> QED BY <1>1, <2>2, <2>3 DEF ClientState
  <2> QED BY <1>1, <2>1, <2>3, <2>4 DEF s
<1>5. CASE Answer(c)
  <2> DEFINE t == IF old.seen # "none" THEN old.seen
                  ELSE IF old.run \in activeRuns THEN "running" ELSE "stale"
  <2>1. /\ old.at = "checking"
        /\ client' = [client EXCEPT ![c] = [old EXCEPT !.at = "answered", !.answer = t]]
    BY <1>5 DEF Answer, Become
  <2>2. t \in Outcome \cup {"none", "running", "stale"}
    BY <1>2
  <2> HIDE DEF t
  <2>3. new = [old EXCEPT !.at = "answered", !.answer = t] /\ client' = [client EXCEPT ![c] = new]
    BY <2>1
  <2>4. /\ new \in ClientState /\ new.at = "answered" /\ new.run = old.run
        /\ new.pos = old.pos /\ new.seen = old.seen /\ new.answer = t
    <3> HIDE DEF old, new
    <3> QED BY <1>1, <2>2, <2>3 DEF ClientState
  <2> QED BY <1>1, <2>1, <2>3, <2>4 DEF t
<1>6. CASE Disconnect(c)
  <2>1. /\ old.at = "tailing"
        /\ client' = [client EXCEPT ![c] = [old EXCEPT !.at = "idle", !.pos = 0]]
    BY <1>6 DEF Disconnect, Become
  <2>2. new = [old EXCEPT !.at = "idle", !.pos = 0] /\ client' = [client EXCEPT ![c] = new]
    BY <2>1
  <2>3. /\ new \in ClientState /\ new.at = "idle" /\ new.run = old.run /\ new.pos = 0
        /\ new.seen = old.seen /\ new.answer = old.answer
    <3> HIDE DEF old, new
    <3> QED BY <1>1, <2>2 DEF ClientState
  <2> QED BY <1>1, <2>1, <2>2, <2>3
<1>7. ASSUME NEW r \in RunId, NEW p \in {"tailing", "reading"},
             client' = [client EXCEPT ![c] = [old EXCEPT !.at = p, !.run = r]]
      PROVE  /\ client' = [client EXCEPT ![c] = new]
             /\ new \in ClientState /\ new.at = p /\ new.run = r /\ new.pos = old.pos
             /\ new.seen = old.seen /\ new.answer = old.answer
  <2>1. new = [old EXCEPT !.at = p, !.run = r] /\ client' = [client EXCEPT ![c] = new]
    BY <1>7
  <2> HIDE DEF old, new
  <2> QED BY <1>1, <2>1 DEF ClientState
<1>8. ASSUME NEW r \in RunId, OpenStream(c, r)
      PROVE  /\ client' = [client EXCEPT ![c] = new] /\ old.at = "idle"
             /\ new \in ClientState /\ new.at = "tailing" /\ new.pos = old.pos
             /\ new.seen = old.seen /\ new.answer = old.answer
  <2>1. /\ old.at = "idle"
        /\ client' = [client EXCEPT ![c] = [old EXCEPT !.at = "tailing", !.run = r]]
    BY <1>8 DEF OpenStream, Become
  <2> QED BY <1>7, <2>1
<1>9. ASSUME NEW r \in RunId, ListRun(c, r)
      PROVE  /\ client' = [client EXCEPT ![c] = new] /\ old.at = "idle"
             /\ new \in ClientState /\ new.at = "reading" /\ new.pos = old.pos
             /\ new.seen = old.seen /\ new.answer = old.answer
             /\ \E j \in Job : RunIdOf[j] = new.run /\ pc[j] # "idle"
  <2>1. /\ old.at = "idle" /\ \E j \in Job : RunIdOf[j] = r /\ pc[j] # "idle"
        /\ client' = [client EXCEPT ![c] = [old EXCEPT !.at = "reading", !.run = r]]
    BY <1>9 DEF ListRun, Become
  <2> QED BY <1>7, <2>1
<1> QED BY <1>1, <1>3, <1>4, <1>5, <1>6, <1>8, <1>9 DEF ClientActs, ClientStep

LEMMA WellTypedInit == Init => WellTyped
<1> SUFFICES ASSUME Init PROVE WellTyped
  OBVIOUS
<1>1. Typed
  BY TypedInit
<1>2. \A r \in RunId : Len(log[r]) = 0
  BY DEF Init
<1>3. client \in [Client -> ClientState]
  BY DEF Init, ClientState
<1>4. \A c \in Client : client[c].run \in RunId /\ client[c].pos = 0
  BY DEF Init
<1>5. flows \in [Job -> Promise]
  BY DEF Init
<1> QED BY <1>1, <1>2, <1>3, <1>4, <1>5, BoundAssumption DEF Init, Typed, TypeOK, WellTyped, Rewound

LEMMA WellTypedNext == WellTyped /\ [Next]_vars => WellTyped'
<1> SUFFICES ASSUME WellTyped, [Next]_vars PROVE WellTyped'
  OBVIOUS
<1>0. Typed /\ TypeOK
  BY DEF WellTyped, TypeOK, Typed
<1>1. Typed'
  BY <1>0, TypedNext
<1>2. /\ log' \in [RunId -> Seq(EventType)]
      /\ \A r \in RunId : Len(log[r]) <= Len(log'[r])
  BY <1>0, LogsGrow
<1>3. \A r \in RunId : Len(log[r]) \in Nat /\ Len(log'[r]) \in Nat
  BY <1>0, <1>2 DEF TypeOK
<1>4. CASE \E j \in Job : JobActs(j)
  <2>1. PICK j \in Job : JobActs(j)
    BY <1>4
  <2>2. /\ UNCHANGED <<client, crashes>>
        /\ missed' \in SUBSET Client
        /\ flows' \in [Job -> Promise]
        /\ activeRuns' \in SUBSET RunId
        /\ failures' \in 0 .. MaxFailures
    BY <1>0, <2>1, JobFrame
  <2>3. ASSUME NEW c \in Client PROVE client'[c].pos <= Len(log'[client'[c].run])
    <3>1. client[c] \in ClientState /\ client[c].pos <= Len(log[client[c].run])
      BY <1>0 DEF TypeOK
    <3>2. client[c].pos \in Nat /\ client[c].run \in RunId
      BY <3>1 DEF ClientState
    <3> QED BY <1>2, <1>3, <2>2, <3>1, <3>2
  <2> QED BY <1>1, <2>2, <2>3 DEF WellTyped, Rewound, TypeOK, Typed
<1>5. CASE \E c \in Client : ClientActs(c)
  <2>1. PICK c \in Client : ClientActs(c)
    BY <1>5
  <2>2. UNCHANGED <<jobVars, runVars, activeRuns, failures, crashes, missed>>
    BY <2>1, ClientFrame
  <2>3. /\ client' = [client EXCEPT ![c] = client'[c]]
        /\ client'[c] \in ClientState
        /\ client'[c].pos <= Len(log[client'[c].run])
        /\ client'[c].at = "idle" => client'[c].pos = 0
    <3>1. /\ client \in [Client -> ClientState]
          /\ client[c].pos <= Len(log[client[c].run])
          /\ client[c].at = "idle" => client[c].pos = 0
      BY DEF WellTyped, TypeOK, Rewound
    <3>2. client[c].pos \in Nat /\ client'[c].run \in RunId
      BY <1>0, <2>1, ClientMoves DEF TypeOK, ClientState
    <3> QED BY <1>0, <1>3, <2>1, <3>1, <3>2, ClientMoves DEF TypeOK
  <2> QED BY <1>1, <2>2, <2>3 DEF WellTyped, Rewound, TypeOK, Typed, jobVars, runVars
<1>6. CASE Crash
  <2>1. /\ crashes' \in 0 .. MaxCrashes
        /\ UNCHANGED <<outcome, entered, disposed, log, summary, failures>>
        /\ activeRuns' = {} /\ missed' \in SUBSET Client
    <3>1. crashes \in 0 .. MaxCrashes /\ crashes < MaxCrashes /\ crashes' = crashes + 1
      BY <1>0, <1>6 DEF Crash, TypeOK
    <3>2. crashes + 1 \in 0 .. MaxCrashes
      BY <3>1, BoundAssumption
    <3> QED BY <1>0, <1>6, <3>2 DEF Crash, TypeOK, runVars
  <2>2. flows' \in [Job -> Promise]
    BY <1>0, <1>6 DEF Crash, TypeOK, Promise
  <2>3. ASSUME NEW c \in Client
        PROVE  /\ client'[c] \in ClientState
               /\ client'[c].pos <= Len(log[client'[c].run])
               /\ client'[c].at = "idle" => client'[c].pos = 0
    <3>1. /\ client[c] \in ClientState
          /\ client[c].pos <= Len(log[client[c].run])
      BY <1>0 DEF TypeOK
    <3>2. \/ client'[c] = client[c] /\ client[c].at = "answered"
          \/ client'[c] = [client[c] EXCEPT !.at = "idle", !.pos = 0]
      BY <1>6 DEF Crash
    <3>3. client[c].run \in RunId
      BY <3>1 DEF ClientState
    <3>4. CASE client'[c] = [client[c] EXCEPT !.at = "idle", !.pos = 0]
      <4> DEFINE old == client[c]
                 new == client'[c]
      <4>1. new \in ClientState /\ new.pos = 0 /\ new.run = old.run
        <5>1. old \in ClientState /\ new = [old EXCEPT !.at = "idle", !.pos = 0]
          BY <3>1, <3>4
        <5> HIDE DEF old, new
        <5> QED BY <5>1 DEF ClientState
      <4> QED BY <1>3, <3>3, <4>1
    <3> QED BY <3>1, <3>2, <3>4
  <2>4. client' \in [Client -> ClientState]
    BY <1>6, <2>3 DEF Crash
  <2> QED BY <1>1, <2>1, <2>2, <2>3, <2>4 DEF WellTyped, Rewound, TypeOK, Typed
<1>7. CASE UNCHANGED vars
  BY <1>7 DEF vars, jobVars, runVars, clientVars, TypeOK, WellTyped, Rewound
<1> QED BY <1>4, <1>5, <1>6, <1>7, Steps

-----------------------------------------------------------------------------
(* SuccessClosesLog.                                                       *)

\* No terminal event is in the log of the run.
Open(r) == \A i \in DOMAIN log[r] : log[r][i] \notin Terminal

\* run.end is the one terminal event of the log.  A flow that does not nest is
\* over, and nothing is left that could append to the log.
Closed(j) ==
  LET r == RunIdOf[j]
  IN  /\ flows[j].settled = "fulfilled"
      /\ \E n \in DOMAIN log[r] :
           /\ log[r][n] = "run.end"
           /\ \A i \in DOMAIN log[r] : log[r][i] \in Terminal => i = n
           /\ ~flows[j].nests => n = Len(log[r]) /\ ~flows[j].busy

\* A job that has its run for itself logs nothing terminal before it settled,
\* records a success of a closed log only, and is past its summary once there is
\* a verdict in it.
JobCourse(j) ==
  /\ flows[j].settled = "fulfilled" /\ flows[j].busy => flows[j].nests
  /\ pc[j] = "ending" => flows[j].settled = "fulfilled"
  /\ pc[j] \in {"idle", "starting", "flowing", "ending"} => Open(RunIdOf[j])
  /\ pc[j] \in {"opening", "writing"} /\ outcome[j] = "success" => Closed(j)
  /\ summary[RunIdOf[j]] \in Outcome => pc[j] \in {"tearing", "leaving", "returned", "dead"}
  /\ summary[RunIdOf[j]] = "success" => Closed(j)

\* The server's set of active runs tells which of them execute.
JobActive(j) == ViaOf[j] = "detached" => (RunIdOf[j] \in activeRuns <=> Executing(j))

Course == \A j \in Job : Sole(RunIdOf[j]) => JobCourse(j) /\ JobActive(j)

LEMMA CourseInit == Init => Course
<1> SUFFICES ASSUME Init, NEW j \in Job PROVE JobCourse(j) /\ JobActive(j)
  BY DEF Course
<1>1. /\ pc[j] = "idle" /\ summary[RunIdOf[j]] = "none" /\ activeRuns = {}
      /\ log[RunIdOf[j]] = <<>>
      /\ flows[j] \in { p \in Promise : p.settled = "pending" }
  BY RunIdAssumption DEF Init
<1> QED BY <1>1 DEF JobCourse, JobActive, Executing, Outcome, Open

\* An event that is not terminal leaves an open log open.
LEMMA EmitOpen ==
  ASSUME log \in [RunId -> Seq(EventType)], NEW j \in Job, Open(RunIdOf[j]),
         Emit(j, "step") \/ Emit(j, "run.start")
  PROVE  Open(RunIdOf[j])'
<1>1. PICK type \in EventType \ Terminal :
        log'[RunIdOf[j]] = Append(log[RunIdOf[j]], type)
  BY RunIdAssumption DEF Emit, EventType, Terminal
<1>2. log[RunIdOf[j]] \in Seq(EventType)
  BY RunIdAssumption
<1> QED BY <1>1, <1>2 DEF Open

\* run.end, appended to an open log, closes it.
LEMMA EmitCloses ==
  ASSUME log \in [RunId -> Seq(EventType)], NEW j \in Job, Open(RunIdOf[j]),
         Emit(j, "run.end"), flows[j].settled = "fulfilled", flows[j].busy => flows[j].nests,
         flows' = flows
  PROVE  Closed(j)'
<1> DEFINE r == RunIdOf[j]
           n == Len(log[r]) + 1
<1>1. log[r] \in Seq(EventType) /\ log'[r] = Append(log[r], "run.end")
  BY RunIdAssumption DEF Emit, EventType
<1>2. \A i \in DOMAIN log[r] : log[r][i] \notin Terminal
  BY DEF Open
<1> HIDE DEF r
<1>3. n \in DOMAIN log'[r] /\ log'[r][n] = "run.end" /\ n = Len(log'[r])
  BY <1>1
<1>4. ASSUME NEW i \in DOMAIN log'[r], log'[r][i] \in Terminal PROVE i = n
  <2>1. i \in DOMAIN log[r] \/ i = n
    BY <1>1
  <2>2. i \in DOMAIN log[r] => log'[r][i] = log[r][i]
    BY <1>1
  <2> QED BY <1>2, <1>4, <2>1, <2>2
<1> QED BY <1>3, <1>4 DEF Closed, r

\* What a flow that nests still logs leaves a closed log closed.
LEMMA StepKeepsClosed ==
  ASSUME log \in [RunId -> Seq(EventType)], NEW j \in Job, Closed(j),
         log' = log \/ Emit(j, "step"), flows[j].nests, flows'[j].nests,
         flows'[j].settled = flows[j].settled
  PROVE  Closed(j)'
<1> DEFINE r == RunIdOf[j]
<1>1. PICK n \in DOMAIN log[r] :
        /\ log[r][n] = "run.end"
        /\ \A i \in DOMAIN log[r] : log[r][i] \in Terminal => i = n
  BY DEF Closed
<1>2. CASE log' = log
  BY <1>1, <1>2 DEF Closed
<1>3. CASE Emit(j, "step")
  <2>1. log[r] \in Seq(EventType) /\ log'[r] = Append(log[r], "step")
    BY <1>3, RunIdAssumption DEF Emit, EventType
  <2>2. /\ n \in DOMAIN log'[r] /\ log'[r][n] = "run.end"
        /\ \A i \in DOMAIN log'[r] : log'[r][i] \in Terminal => i = n
    BY <1>1, <2>1 DEF Terminal
  <2> QED BY <2>2 DEF Closed
<1> QED BY <1>2, <1>3

\* What a job that has its run for itself does to it.
LEMMA OwnCourse ==
  ASSUME TypeOK, NEW j \in Job, JobCourse(j), JobActive(j), JobActs(j)
  PROVE  JobCourse(j)' /\ JobActive(j)'
<1> DEFINE r == RunIdOf[j]
<1>1. /\ r \in RunId /\ pc[j] \in Pc /\ flows[j] \in Promise
      /\ pc \in [Job -> Pc] /\ flows \in [Job -> Promise]
      /\ outcome \in [Job -> Outcome \cup {"none"}]
      /\ log \in [RunId -> Seq(EventType)] /\ summary \in [RunId -> Outcome \cup {"none", "torn"}]
      /\ activeRuns \in SUBSET RunId
  BY RunIdAssumption DEF TypeOK
<1> HIDE DEF r
<1>a. r = RunIdOf[j]
  BY DEF r
<1> USE DEF Goto, jobVars, runVars
<1>2. CASE Launch(j)
  BY <1>1, <1>2, <1>a DEF Launch, JobCourse, JobActive, Closed, Open, Executing
<1>3. CASE FlowWorks(j)
  <2>1. /\ flows[j].busy /\ flows' \in [Job -> Promise] /\ flows'[j].settled = flows[j].settled
        /\ flows'[j].nests = flows[j].nests
        /\ UNCHANGED <<pc, outcome, summary, activeRuns>>
        /\ log' = log \/ Emit(j, "step")
    BY <1>1, <1>3 DEF FlowWorks, Flow!Work, Promise
  <2>2. Closed(j) => flows[j].nests
    BY <2>1 DEF Closed
  <2>3. Closed(j) => Closed(j)'
    BY <1>1, <2>1, <2>2, StepKeepsClosed
  <2>4. Open(r) => Open(r)'
    BY <1>1, <1>a, <2>1, EmitOpen DEF Open
  <2> QED BY <1>a, <2>1, <2>3, <2>4 DEF JobCourse, JobActive, Executing
<1>4. CASE FlowSettles(j)
  <2>1. /\ flows[j].settled = "pending" /\ flows' \in [Job -> Promise]
        /\ flows'[j].settled = "fulfilled" /\ flows'[j].busy => flows'[j].nests
        /\ UNCHANGED <<pc, outcome, summary, activeRuns, log>>
    BY <1>1, <1>4 DEF FlowSettles, Flow!Fulfil, Flow!Reject, Promise
  <2> QED BY <1>a, <2>1 DEF JobCourse, JobActive, Executing, Closed, Open
<1>5. CASE EmitRunEnd(j)
  <2>1. /\ pc[j] = "ending" /\ pc'[j] = "opening" /\ UNCHANGED <<flows, summary, activeRuns>>
        /\ Emit(j, "run.end") /\ outcome'[j] = "success"
    BY <1>1, <1>5 DEF EmitRunEnd
  <2>2. flows[j].settled = "fulfilled" /\ (flows[j].busy => flows[j].nests) /\ Open(r)
    BY <1>a, <2>1 DEF JobCourse
  <2>3. Closed(j)'
    BY <1>1, <1>a, <2>1, <2>2, EmitCloses
  <2>4. summary[r] \notin Outcome
    BY <1>a, <2>1 DEF JobCourse
  <2> QED BY <1>a, <2>1, <2>3, <2>4 DEF JobCourse, JobActive, Executing, Outcome
<1>6. CASE EmitRefusal(j) \/ EmitRunStart(j) \/ EmitRunError(j)
  <2>1. /\ pc[j] \in {"refusing", "starting", "erroring"} /\ UNCHANGED <<flows, summary, activeRuns>>
        /\ \/ pc[j] = "starting" /\ pc'[j] = "flowing" /\ Emit(j, "run.start")
           \/ pc'[j] = "opening" /\ outcome'[j] = "error"
    <3>1. CASE EmitRefusal(j)
      BY <1>1, <3>1 DEF EmitRefusal
    <3>2. CASE EmitRunStart(j)
      BY <1>1, <3>2 DEF EmitRunStart
    <3>3. CASE EmitRunError(j)
      BY <1>1, <3>3 DEF EmitRunError
    <3> QED BY <1>6, <3>1, <3>2, <3>3
  <2>2. summary[r] \notin Outcome
    BY <1>a, <2>1 DEF JobCourse
  <2>3. summary[r] # "success"
    BY <2>2 DEF Outcome
  <2>4. pc'[j] = "flowing" => Open(r)'
    BY <1>1, <1>a, <2>1, EmitOpen DEF JobCourse
  <2> QED BY <1>a, <2>1, <2>2, <2>3, <2>4 DEF JobCourse, JobActive, Executing
<1>7. CASE FlowReturns(j) \/ Teardown(j) \/ Finish(j)
  <2>1. CASE FlowReturns(j)
    BY <1>1, <1>a, <2>1 DEF FlowReturns, JobCourse, JobActive, Executing, Closed, Open
  <2>2. CASE Teardown(j)
    BY <1>1, <1>a, <2>2 DEF Teardown, JobCourse, JobActive, Executing, Closed, Open
  <2>3. CASE Finish(j)
    BY <1>1, <1>a, <2>3 DEF Finish, JobCourse, JobActive, Executing, Closed, Open
  <2> QED BY <1>7, <2>1, <2>2, <2>3
<1>8. CASE OpenSummary(j)
  BY <1>1, <1>a, <1>8 DEF OpenSummary, JobCourse, JobActive, Executing, Closed, Outcome
<1>9. CASE WriteSummary(j)
  BY <1>1, <1>a, <1>9 DEF WriteSummary, Exit, JobCourse, JobActive, Executing, Closed
<1>10. CASE JobFails(j)
  <2>1. /\ pc[j] \in {"refusing", "starting", "ending", "erroring", "opening", "writing"}
        /\ pc'[j] \in {"leaving", "erroring", "tearing"}
        /\ UNCHANGED <<flows, outcome, summary, activeRuns>>
    BY <1>1, <1>10 DEF JobFails, EmitRefusalFails, EmitRunStartFails, EmitRunEndFails,
                       EmitRunErrorFails, FinalizeFails, Exit
  <2>2. summary[r] \notin Outcome
    BY <1>a, <2>1 DEF JobCourse
  <2>3. summary[r] # "success"
    BY <2>2 DEF Outcome
  <2> QED BY <1>a, <2>1, <2>2, <2>3 DEF JobCourse, JobActive, Executing
<1> QED BY <1>2, <1>3, <1>4, <1>5, <1>6, <1>7, <1>8, <1>9, <1>10 DEF JobActs, JobStep

LEMMA CourseNext == TypeOK /\ Course /\ [Next]_vars => Course'
<1> SUFFICES ASSUME TypeOK, Course, [Next]_vars, NEW j \in Job, Sole(RunIdOf[j])
             PROVE  JobCourse(j)' /\ JobActive(j)'
  BY DEF Course, Sole
<1>0. /\ JobCourse(j) /\ JobActive(j) /\ RunIdOf[j] \in RunId
      /\ flows \in [Job -> Promise] /\ pc \in [Job -> Pc]
  BY RunIdAssumption DEF Course, TypeOK
<1>1. CASE JobActs(j)
  BY <1>0, <1>1, OwnCourse
<1>2. ASSUME NEW k \in Job, k # j, JobActs(k)
      PROVE  JobCourse(j)' /\ JobActive(j)'
  <2>1. RunIdOf[j] # RunIdOf[k]
    BY <1>2 DEF Sole
  <2>2. /\ pc'[j] = pc[j] /\ outcome'[j] = outcome[j] /\ flows'[j] = flows[j]
        /\ log'[RunIdOf[j]] = log[RunIdOf[j]] /\ summary'[RunIdOf[j]] = summary[RunIdOf[j]]
        /\ RunIdOf[j] \in activeRuns' <=> RunIdOf[j] \in activeRuns
    BY <1>0, <1>2, <2>1, JobFrame
  <2> QED BY <1>0, <2>2 DEF JobCourse, JobActive, Executing, Closed, Open
<1>3. ASSUME NEW c \in Client, ClientActs(c)
      PROVE  JobCourse(j)' /\ JobActive(j)'
  <2>1. UNCHANGED <<jobVars, runVars, activeRuns>>
    BY <1>3, ClientFrame
  <2> QED BY <1>0, <2>1 DEF JobCourse, JobActive, Executing, Closed, Open, jobVars, runVars
<1>4. CASE Crash
  <2>1. /\ pc'[j] = IF Executing(j) THEN "dead" ELSE pc[j]
        /\ flows'[j].settled = flows[j].settled /\ flows'[j].busy = FALSE
        /\ flows'[j].nests = flows[j].nests
        /\ activeRuns' = {} /\ UNCHANGED <<outcome, log, summary>>
    BY <1>0, <1>4 DEF Crash, Promise, runVars
  <2> QED BY <1>0, <2>1 DEF JobCourse, JobActive, Executing, Closed, Open
<1>5. CASE UNCHANGED vars
  BY <1>0, <1>5 DEF JobCourse, JobActive, Executing, Closed, Open, vars, jobVars, runVars
<1> QED BY <1>1, <1>2, <1>3, <1>4, <1>5, Steps

\* Whatever fails and wherever the server dies, the state stays well formed, and
\* once run.json tells of a success (runner.ts 124-126) the log has one terminal
\* event, run.end; in a run whose flow does not nest it is the last event, and no
\* step is left that could append another.
THEOREM LogsWellFormedTheorem == Spec => []LogsWellFormed
<1>1. Init => WellTyped /\ Course
  BY WellTypedInit, CourseInit
<1>2. (WellTyped /\ Course) /\ [Next]_vars => (WellTyped /\ Course)'
  BY WellTypedNext, CourseNext DEF WellTyped
<1>3. WellTyped /\ Course => LogsWellFormed
  BY DEF WellTyped, Course, JobCourse, Closed, SuccessClosesLog, LogsWellFormed
<1> QED BY <1>1, <1>2, <1>3, PTL DEF Spec

-----------------------------------------------------------------------------
(* AnswersHold.                                                            *)

\* Nothing is logged for a run before its job was launched.
Unlaunched ==
  \A j \in Job : pc[j] = "idle" =>
    ~entered[j] /\ (Sole(RunIdOf[j]) => log[RunIdOf[j]] = <<>>)

LEMMA UnlaunchedInit == Init => Unlaunched
  BY RunIdAssumption DEF Init, Unlaunched

\* A job that acts was launched, or is launched now.
LEMMA Launched ==
  ASSUME TypeOK, Unlaunched, NEW j \in Job, JobActs(j)
  PROVE  /\ pc'[j] # "idle"
         /\ pc[j] = "idle" => pc'[j] \in {"refusing", "starting"} /\ UNCHANGED runVars
<1> USE DEF TypeOK, Goto
<1>1. CASE Launch(j)
  BY <1>1 DEF Launch
<1>2. CASE FlowWorks(j) \/ FlowSettles(j)
  BY <1>2 DEF FlowWorks, FlowSettles, Unlaunched
<1>3. CASE JobStep(j)
  BY <1>3 DEF JobStep, EmitRefusal, EmitRunStart, FlowReturns, EmitRunEnd, EmitRunError,
              OpenSummary, WriteSummary, Teardown, Finish, Exit
<1>4. CASE JobFails(j)
  BY <1>4 DEF JobFails, EmitRefusalFails, EmitRunStartFails, EmitRunEndFails,
              EmitRunErrorFails, FinalizeFails, Exit
<1> QED BY <1>1, <1>2, <1>3, <1>4 DEF JobActs

LEMMA UnlaunchedNext == TypeOK /\ Unlaunched /\ [Next]_vars => Unlaunched'
<1> SUFFICES ASSUME TypeOK, Unlaunched, [Next]_vars, NEW j \in Job, pc'[j] = "idle"
             PROVE  ~entered'[j] /\ (Sole(RunIdOf[j]) => log'[RunIdOf[j]] = <<>>)
  BY DEF Unlaunched, Sole
<1>1. ASSUME NEW k \in Job, JobActs(k)
      PROVE  ~entered'[j] /\ (Sole(RunIdOf[j]) => log'[RunIdOf[j]] = <<>>)
  <2>1. k # j
    BY <1>1, Launched
  <2>2. pc[j] = "idle" /\ entered'[j] = entered[j]
    BY <1>1, <2>1, JobFrame
  <2>3. ASSUME Sole(RunIdOf[j]) PROVE log'[RunIdOf[j]] = log[RunIdOf[j]]
    <3>1. RunIdOf[j] # RunIdOf[k] /\ RunIdOf[j] \in RunId
      BY <2>1, <2>3, RunIdAssumption DEF Sole
    <3> QED BY <1>1, <3>1, JobFrame
  <2> QED BY <2>2, <2>3 DEF Unlaunched
<1>2. ASSUME NEW c \in Client, ClientActs(c)
      PROVE  ~entered'[j] /\ (Sole(RunIdOf[j]) => log'[RunIdOf[j]] = <<>>)
  <2>1. UNCHANGED <<jobVars, runVars>>
    BY <1>2, ClientFrame
  <2> QED BY <2>1 DEF Unlaunched, jobVars, runVars
<1>3. CASE Crash
  BY <1>3 DEF Crash, Unlaunched, runVars
<1>4. CASE UNCHANGED vars
  BY <1>4 DEF Unlaunched, vars, jobVars, runVars
<1> QED BY <1>1, <1>2, <1>3, <1>4, Steps

\* A verdict that was recorded stays, and a job that is over stays over.
LEMMA VerdictStays ==
  ASSUME TypeOK, NEW j \in Job, JobCourse(j), JobActs(j)
  PROVE  /\ summary[RunIdOf[j]] \in Outcome => summary'[RunIdOf[j]] = summary[RunIdOf[j]]
         /\ pc[j] \in {"returned", "dead"} => pc'[j] = pc[j] /\ UNCHANGED summary
<1> USE RunIdAssumption DEF TypeOK, Goto, JobCourse, runVars
<1>1. CASE Launch(j) \/ FlowWorks(j) \/ FlowSettles(j)
  BY <1>1 DEF Launch, FlowWorks, FlowSettles
<1>2. CASE JobStep(j)
  BY <1>2 DEF JobStep, EmitRefusal, EmitRunStart, FlowReturns, EmitRunEnd, EmitRunError,
              OpenSummary, WriteSummary, Teardown, Finish
<1>3. CASE JobFails(j)
  BY <1>3 DEF JobFails, EmitRefusalFails, EmitRunStartFails, EmitRunEndFails,
              EmitRunErrorFails, FinalizeFails
<1> QED BY <1>1, <1>2, <1>3 DEF JobActs

\* What a client of the run of job j has seen, state s: the summary it read is
\* the one the run has for good, and "stale" means that the job is over.
Heard(s, j) ==
  /\ s.at \in {"reading", "checking", "answered"} => pc[j] # "idle"
  /\ s.at \in {"checking", "answered"} /\ s.seen \in Outcome => summary[RunIdOf[j]] = s.seen
  /\ s.at # "answered" => s.answer = "none"
  /\ s.answer \in Outcome => summary[RunIdOf[j]] = s.answer
  /\ s.answer = "stale" /\ ViaOf[j] = "detached" => pc[j] \in {"returned", "dead"}

ClientsHeard ==
  \A c \in Client : /\ client[c].at # "answered" => client[c].answer = "none"
                    /\ \A j \in Job : client[c].run = RunIdOf[j] /\ Sole(RunIdOf[j])
                         => Heard(client[c], j)

LEMMA HeardInit == Init => ClientsHeard
<1> SUFFICES ASSUME Init, NEW c \in Client
             PROVE  client[c].answer = "none" /\ \A j \in Job : Heard(client[c], j)
  BY DEF ClientsHeard
<1>1. client[c].at = "idle" /\ client[c].answer = "none"
  BY DEF Init
<1> QED BY <1>1 DEF Heard, Outcome

\* A client hears what is so.
LEMMA HeardMove ==
  ASSUME TypeOK, Course, Unlaunched, ClientsHeard, NEW c \in Client, ClientActs(c),
         NEW j \in Job, client'[c].run = RunIdOf[j], Sole(RunIdOf[j])
  PROVE  Heard(client'[c], j)
<1> DEFINE old == client[c]
           new == client'[c]
<1>1. /\ client \in [Client -> ClientState] /\ log \in [RunId -> Seq(EventType)]
      /\ summary \in [RunId -> Outcome \cup {"none", "torn"}] /\ RunIdOf[j] \in RunId
  BY RunIdAssumption DEF TypeOK
<1>2. /\ old.at # "answered" => old.answer = "none"
      /\ old.run = RunIdOf[j] => Heard(old, j)
  BY <1>1 DEF ClientsHeard
<1>3. JobCourse(j) /\ JobActive(j)
  BY DEF Course
<1>4. CASE old.at = "idle" /\ new.answer = old.answer /\ new.at = "tailing"
  BY <1>2, <1>4 DEF Heard, Outcome
<1>5. CASE /\ old.at = "idle" /\ new.answer = old.answer /\ new.at = "reading"
           /\ \E k \in Job : RunIdOf[k] = new.run /\ pc[k] # "idle"
  <2>1. pc[j] # "idle"
    BY <1>5 DEF Sole
  <2> QED BY <1>2, <1>5, <2>1 DEF Heard, Outcome
<1>6. CASE /\ old.at = "tailing" /\ new.at \in {"tailing", "reading"} /\ new.answer = old.answer
           /\ new.run = old.run /\ old.pos < Len(log[old.run]) /\ old.pos \in Nat
  <2>1. log[RunIdOf[j]] # <<>>
    <3>1. Len(<<>>) = 0 /\ ~(old.pos < 0)
      BY <1>6
    <3> QED BY <1>6, <3>1
  <2>2. pc[j] # "idle"
    BY <2>1 DEF Unlaunched
  <2> QED BY <1>2, <1>6, <2>2 DEF Heard, Outcome
<1>7. CASE old.at = "tailing" /\ new.at = "idle" /\ new.answer = old.answer
  BY <1>2, <1>7 DEF Heard, Outcome
<1>8. CASE /\ old.at = "reading" /\ new.at = "checking" /\ new.run = old.run
           /\ new.answer = old.answer
           /\ new.seen = IF summary[old.run] \in Outcome THEN summary[old.run] ELSE "none"
  BY <1>2, <1>8 DEF Heard, Outcome
<1>9. CASE /\ old.at = "checking" /\ new.at = "answered" /\ new.run = old.run
           /\ new.seen = old.seen /\ old.seen \in Outcome \cup {"none"}
           /\ new.answer = IF old.seen # "none" THEN old.seen
                           ELSE IF old.run \in activeRuns THEN "running" ELSE "stale"
  <2>1. Heard(old, j)
    BY <1>2, <1>9
  <2>2. new.answer = "stale" /\ ViaOf[j] = "detached" => pc[j] \in {"returned", "dead"}
    BY <1>3, <1>9, <2>1 DEF Heard, JobActive, Executing, Outcome
  <2> QED BY <1>9, <2>1, <2>2 DEF Heard, Outcome
<1>10. old.pos \in Nat /\ old.seen \in Outcome \cup {"none"}
  BY <1>1 DEF ClientState
<1> HIDE DEF old, new
<1>11. \/ old.at = "idle" /\ new.answer = old.answer /\ new.at = "tailing"
       \/ /\ old.at = "idle" /\ new.answer = old.answer /\ new.at = "reading"
          /\ \E k \in Job : RunIdOf[k] = new.run /\ pc[k] # "idle"
       \/ /\ old.at = "tailing" /\ new.at \in {"tailing", "reading"} /\ new.answer = old.answer
          /\ new.run = old.run /\ old.pos < Len(log[old.run]) /\ old.pos \in Nat
       \/ old.at = "tailing" /\ new.at = "idle" /\ new.answer = old.answer
       \/ /\ old.at = "reading" /\ new.at = "checking" /\ new.run = old.run
          /\ new.answer = old.answer
          /\ new.seen = IF summary[old.run] \in Outcome THEN summary[old.run] ELSE "none"
       \/ /\ old.at = "checking" /\ new.at = "answered" /\ new.run = old.run
          /\ new.seen = old.seen /\ old.seen \in Outcome \cup {"none"}
          /\ new.answer = IF old.seen # "none" THEN old.seen
                          ELSE IF old.run \in activeRuns THEN "running" ELSE "stale"
  BY <1>1, <1>10, ClientMoves DEF old, new
<1> QED BY <1>4, <1>5, <1>6, <1>7, <1>8, <1>9, <1>11

\* What a client heard stays so, whatever a job does.
LEMMA HeardKept ==
  ASSUME TypeOK, Course, Unlaunched, NEW k \in Job, JobActs(k),
         NEW j \in Job, Sole(RunIdOf[j]), NEW s \in ClientState, Heard(s, j)
  PROVE  Heard(s, j)'
<1>1. JobCourse(j) /\ RunIdOf[j] \in RunId
  BY RunIdAssumption DEF Course
<1>2. CASE k = j
  <2>1. /\ pc'[j] # "idle"
        /\ summary[RunIdOf[j]] \in Outcome => summary'[RunIdOf[j]] = summary[RunIdOf[j]]
        /\ pc[j] \in {"returned", "dead"} => pc'[j] = pc[j]
    BY <1>1, <1>2, Launched, VerdictStays
  <2> QED BY <2>1 DEF Heard
<1>3. CASE k # j
  <2>1. RunIdOf[j] # RunIdOf[k]
    BY <1>3 DEF Sole
  <2>2. pc'[j] = pc[j] /\ summary'[RunIdOf[j]] = summary[RunIdOf[j]]
    BY <1>1, <1>3, <2>1, JobFrame
  <2> QED BY <2>2 DEF Heard
<1> QED BY <1>2, <1>3

LEMMA HeardNext ==
  TypeOK /\ Course /\ Unlaunched /\ ClientsHeard /\ [Next]_vars => ClientsHeard'
<1> SUFFICES ASSUME TypeOK, Course, Unlaunched, ClientsHeard, [Next]_vars, NEW c \in Client
             PROVE  /\ client'[c].at # "answered" => client'[c].answer = "none"
                    /\ \A j \in Job : client'[c].run = RunIdOf[j] /\ Sole(RunIdOf[j])
                         => Heard(client[c], j)'
  BY DEF ClientsHeard, Sole
<1>0. /\ client \in [Client -> ClientState] /\ log \in [RunId -> Seq(EventType)]
      /\ summary \in [RunId -> Outcome \cup {"none", "torn"}]
      /\ client[c].at # "answered" => client[c].answer = "none"
      /\ \A j \in Job : client[c].run = RunIdOf[j] /\ Sole(RunIdOf[j]) => Heard(client[c], j)
  BY DEF TypeOK, ClientsHeard
<1>1. CASE \E k \in Job : JobActs(k)
  <2>1. PICK k \in Job : JobActs(k)
    BY <1>1
  <2>2. client' = client
    BY <2>1, JobFrame
  <2>3. ASSUME NEW j \in Job, client'[c].run = RunIdOf[j], Sole(RunIdOf[j])
        PROVE  Heard(client[c], j)'
    <3>1. Heard(client[c], j)
      BY <1>0, <2>2, <2>3
    <3> DEFINE s == client[c]
    <3>2. s \in ClientState /\ s' = s
      BY <1>0, <2>2
    <3> QED BY <2>1, <2>2, <2>3, <3>1, <3>2, HeardKept DEF Heard
  <2> QED BY <1>0, <2>2, <2>3
<1>2. CASE \E d \in Client : ClientActs(d)
  <2>1. PICK d \in Client : ClientActs(d)
    BY <1>2
  <2>2. UNCHANGED <<pc, summary>>
    BY <2>1, ClientFrame DEF jobVars, runVars
  <2>3. CASE d = c
    <3>1. client'[c].at # "answered" => client'[c].answer = "none"
      <4>1. client[c].at # "answered" /\ (client'[c].at = "answered" \/ client'[c].answer = client[c].answer)
        BY <1>0, <2>1, <2>3, ClientMoves
      <4> QED BY <1>0, <4>1
    <3>2. ASSUME NEW j \in Job, client'[c].run = RunIdOf[j], Sole(RunIdOf[j])
          PROVE  Heard(client[c], j)'
      BY <2>1, <2>2, <2>3, <3>2, HeardMove DEF Heard
    <3> QED BY <3>1, <3>2
  <2>4. CASE d # c
    <3>1. client'[c] = client[c]
      BY <1>0, <2>1, <2>4, ClientMoves
    <3> QED BY <1>0, <2>2, <3>1 DEF Heard
  <2> QED BY <2>3, <2>4
<1>3. CASE Crash
  <2>1. /\ summary' = summary
        /\ \A j \in Job : /\ pc[j] # "idle" => pc'[j] # "idle"
                          /\ pc[j] \in {"returned", "dead"} => pc'[j] = pc[j]
    BY <1>3 DEF Crash, Executing, runVars
  <2>2. \/ client'[c] = client[c]
        \/ /\ client'[c].at = "idle" /\ client'[c].answer = client[c].answer
           /\ client[c].at # "answered"
    <3> DEFINE old == client[c]
               new == client'[c]
    <3>1. \/ new = old
          \/ old.at # "answered" /\ new = [old EXCEPT !.at = "idle", !.pos = 0]
      BY <1>3 DEF Crash
    <3>2. old \in ClientState
      BY <1>0
    <3> HIDE DEF old, new
    <3>3. \/ new = old
          \/ new.at = "idle" /\ new.answer = old.answer /\ old.at # "answered"
      BY <3>1, <3>2 DEF ClientState
    <3> QED BY <3>3 DEF old, new
  <2>3. CASE client'[c] = client[c]
    BY <1>0, <2>1, <2>3 DEF Heard
  <2>4. CASE client'[c].at = "idle" /\ client'[c].answer = "none"
    BY <2>4 DEF Heard, Outcome
  <2> QED BY <1>0, <2>2, <2>3, <2>4
<1>4. CASE UNCHANGED vars
  BY <1>0, <1>4 DEF Heard, vars, jobVars, runVars, clientVars
<1> QED BY <1>1, <1>2, <1>3, <1>4, Steps

\* A client that found no summary of a run that has a verdict now was passed by
\* the job that wrote it.
StaleMissed ==
  \A c \in Client, j \in Job :
    LET r == RunIdOf[j]
    IN  client[c].run = r /\ Sole(r) /\ summary[r] \in Outcome =>
          /\ client[c].at = "checking" /\ client[c].seen = "none" => c \in missed
          /\ client[c].answer = "stale" /\ ViaOf[j] = "detached" => c \in missed

LEMMA MissedInit == Init => StaleMissed
<1> SUFFICES ASSUME Init, NEW j \in Job PROVE summary[RunIdOf[j]] \notin Outcome
  BY DEF StaleMissed
<1> QED BY RunIdAssumption DEF Init, Outcome

\* A verdict is new only where the job writes it.
LEMMA VerdictIsWritten ==
  ASSUME TypeOK, NEW j \in Job, JobActs(j),
         summary'[RunIdOf[j]] \in Outcome, summary[RunIdOf[j]] \notin Outcome
  PROVE  WriteSummary(j) /\ pc[j] = "writing"
<1> USE RunIdAssumption DEF TypeOK, Goto, runVars, Outcome
<1>1. CASE Launch(j) \/ FlowWorks(j) \/ FlowSettles(j)
  BY <1>1 DEF Launch, FlowWorks, FlowSettles
<1>2. CASE JobStep(j)
  BY <1>2 DEF JobStep, EmitRefusal, EmitRunStart, FlowReturns, EmitRunEnd, EmitRunError,
              OpenSummary, WriteSummary, Teardown, Finish
<1>3. CASE JobFails(j)
  BY <1>3 DEF JobFails, EmitRefusalFails, EmitRunStartFails, EmitRunEndFails,
              EmitRunErrorFails, FinalizeFails
<1> QED BY <1>1, <1>2, <1>3 DEF JobActs

LEMMA MissedNext ==
  TypeOK /\ ClientsHeard /\ StaleMissed /\ [Next]_vars => StaleMissed'
<1> SUFFICES ASSUME TypeOK, ClientsHeard, StaleMissed, [Next]_vars,
                    NEW c \in Client, NEW j \in Job, client'[c].run = RunIdOf[j],
                    Sole(RunIdOf[j]), summary'[RunIdOf[j]] \in Outcome,
                    \/ client'[c].at = "checking" /\ client'[c].seen = "none"
                    \/ client'[c].answer = "stale" /\ ViaOf[j] = "detached"
             PROVE  c \in missed'
  BY DEF StaleMissed, Sole
<1> DEFINE r == RunIdOf[j]
           old == client[c]
           new == client'[c]
<1>0. /\ client \in [Client -> ClientState] /\ log \in [RunId -> Seq(EventType)]
      /\ summary \in [RunId -> Outcome \cup {"none", "torn"}] /\ r \in RunId
      /\ old.at # "answered" => old.answer = "none"
      /\ old.run = r => Heard(old, j)
  BY RunIdAssumption DEF TypeOK, ClientsHeard
<1>1. ASSUME NEW k \in Job, JobActs(k) PROVE c \in missed'
  <2>1. client' = client /\ missed \subseteq missed'
    BY <1>1, JobFrame
  <2>2. CASE summary[r] \in Outcome
    BY <2>1, <2>2 DEF StaleMissed
  <2>3. CASE summary[r] \notin Outcome
    <3>1. k = j
      <4>1. r # RunIdOf[k] => summary'[r] = summary[r]
        BY <1>0, <1>1, JobFrame
      <4> QED BY <2>3, <4>1 DEF Sole
    <3>2. WriteSummary(j) /\ pc[j] = "writing"
      BY <1>1, <2>3, <3>1, VerdictIsWritten
    <3>3. ~(client[c].answer = "stale" /\ ViaOf[j] = "detached")
      BY <1>0, <2>1, <3>2 DEF Heard
    <3>4. c \in Missing(r)
      BY <2>1, <3>3 DEF Missing
    <3> QED BY <3>2, <3>4 DEF WriteSummary
  <2> QED BY <2>2, <2>3
<1>2. ASSUME NEW d \in Client, ClientActs(d) PROVE c \in missed'
  <2>1. UNCHANGED <<summary, missed>>
    BY <1>2, ClientFrame DEF runVars
  <2>2. CASE d # c
    <3>1. client'[c] = client[c]
      BY <1>0, <1>2, <2>2, ClientMoves
    <3> QED BY <2>1, <3>1 DEF StaleMissed
  <2>3. CASE d = c
    <3>1. \/ new.at # "checking" /\ new.at # "answered" /\ new.answer = old.answer
             /\ old.at # "answered"
          \/ /\ old.at = "reading" /\ new.at = "checking" /\ new.run = old.run
             /\ new.answer = old.answer
             /\ new.seen = IF summary[old.run] \in Outcome THEN summary[old.run] ELSE "none"
          \/ /\ old.at = "checking" /\ new.at = "answered" /\ new.run = old.run
             /\ new.answer = IF old.seen # "none" THEN old.seen
                             ELSE IF old.run \in activeRuns THEN "running" ELSE "stale"
      BY <1>0, <1>2, <2>3, ClientMoves
    <3>2. CASE new.at # "checking" /\ new.at # "answered" /\ new.answer = old.answer
               /\ old.at # "answered"
      BY <1>0, <3>2
    <3>3. CASE /\ old.at = "reading" /\ new.at = "checking" /\ new.run = old.run
               /\ new.answer = old.answer
               /\ new.seen = IF summary[old.run] \in Outcome THEN summary[old.run] ELSE "none"
      BY <1>0, <2>1, <3>3 DEF Outcome
    <3>4. CASE /\ old.at = "checking" /\ new.at = "answered" /\ new.run = old.run
               /\ new.answer = IF old.seen # "none" THEN old.seen
                               ELSE IF old.run \in activeRuns THEN "running" ELSE "stale"
      <4>1. old.seen \in Outcome \cup {"none"}
        <5>1. old \in ClientState
          BY <1>0
        <5> HIDE DEF old
        <5> QED BY <5>1 DEF ClientState
      <4>2. old.seen = "none"
        BY <3>4, <4>1 DEF Outcome
      <4> QED BY <2>1, <3>4, <4>2 DEF StaleMissed
    <3> QED BY <3>1, <3>2, <3>3, <3>4
  <2> QED BY <2>2, <2>3
<1>3. CASE Crash
  <2>1. /\ summary' = summary
        /\ client[c].at = "answered" => client'[c] = client[c]
        /\ missed' = { d \in missed : client[d].at = "answered" }
    BY <1>0, <1>3 DEF Crash, runVars
  <2>2. old.at # "answered" => new.at = "idle" /\ new.answer = "none"
    <3>1. old.at # "answered" => new = [old EXCEPT !.at = "idle", !.pos = 0]
      BY <1>3 DEF Crash
    <3>2. old \in ClientState /\ (old.at # "answered" => old.answer = "none")
      BY <1>0
    <3> HIDE DEF old, new
    <3> QED BY <3>1, <3>2 DEF ClientState
  <2>3. old.at = "answered" /\ new = old
    BY <2>1, <2>2
  <2> QED BY <2>1, <2>3 DEF StaleMissed
<1>4. CASE UNCHANGED vars
  BY <1>4 DEF StaleMissed, vars, runVars, clientVars
<1> QED BY <1>1, <1>2, <1>3, <1>4, Steps

\* The inductive invariant of the run and its clients.
RunInv == WellTyped /\ Course /\ Unlaunched /\ ClientsHeard /\ StaleMissed

LEMMA RunInvariant == Spec => []RunInv
<1>1. Init => RunInv
  BY WellTypedInit, CourseInit, UnlaunchedInit, HeardInit, MissedInit DEF RunInv
<1>2. RunInv /\ [Next]_vars => RunInv'
  BY WellTypedNext, CourseNext, UnlaunchedNext, HeardNext, MissedNext DEF RunInv, WellTyped
<1> QED BY <1>1, <1>2, PTL DEF Spec

\* The verdict a client was given by the stream or the list of runs stays the
\* verdict of the run, and a detached run it was told is stale is not executed
\* again, whatever failed and however often the server died.  Such a run has a
\* verdict only if it was written while the client waited for its answer.
THEOREM AnswersHoldTheorem == Spec => []AnswersHold
<1>1. RunInv => AnswersHold
  BY DEF RunInv, ClientsHeard, Heard, StaleMissed, AnswersHold, Executing
<1> QED BY <1>1, RunInvariant, PTL

-----------------------------------------------------------------------------
(* RunStatus.                                                              *)

\* Every run has a job of its own, launched over HTTP.
OwnDetachedRuns ==
  /\ \A r \in RunId : Sole(r)
  /\ \A j \in Job : ViaOf[j] = "detached"

StatusFn == [r \in RunId |-> StatusOf(r)]

\* The status of the run a job has for itself.
LEMMA OwnStatus ==
  ASSUME OwnDetachedRuns, Course, NEW j \in Job
  PROVE  StatusOf(RunIdOf[j]) = IF pc[j] = "idle" THEN "absent"
                                ELSE IF summary[RunIdOf[j]] \in Outcome THEN summary[RunIdOf[j]]
                                ELSE IF Executing(j) THEN "running" ELSE "stale"
<1>1. RunIdOf[j] \in RunId /\ Sole(RunIdOf[j])
  BY RunIdAssumption DEF OwnDetachedRuns
<1>2. RunIdOf[j] \in activeRuns <=> Executing(j)
  BY <1>1 DEF OwnDetachedRuns, Course, JobActive
<1>3. (\A k \in Job : RunIdOf[k] = RunIdOf[j] => pc[k] = "idle") <=> pc[j] = "idle"
  BY <1>1 DEF Sole
<1> QED BY <1>2, <1>3 DEF StatusOf

\* A step that concerns the run neither of j nor of any job.
LEMMA SameStatus ==
  ASSUME NEW r \in RunId, \A j \in Job : RunIdOf[j] = r => pc'[j] = pc[j],
         summary'[r] = summary[r], r \in activeRuns' <=> r \in activeRuns
  PROVE  StatusOf(r)' = StatusOf(r)
BY DEF StatusOf

\* A job launches, concludes or leaves alone the status of its run.
LEMMA JobStatus ==
  ASSUME OwnDetachedRuns, WellTyped, Course, Course', Unlaunched, NEW j \in Job, JobActs(j)
  PROVE  Status!Launch(RunIdOf[j]) \/ Status!Conclude(RunIdOf[j]) \/ StatusFn' = StatusFn
<1> DEFINE r == RunIdOf[j]
<1>1. r \in RunId /\ Sole(r) /\ TypeOK /\ JobCourse(j)
  BY RunIdAssumption DEF OwnDetachedRuns, WellTyped, Course
<1>2. ASSUME NEW q \in RunId, q # r PROVE StatusOf(q)' = StatusOf(q)
  <2>1. \A k \in Job : RunIdOf[k] = q => pc'[k] = pc[k]
    BY <1>1, <1>2, JobFrame
  <2>2. summary'[q] = summary[q] /\ (q \in activeRuns' <=> q \in activeRuns)
    BY <1>1, <1>2, JobFrame
  <2> QED BY <2>1, <2>2, SameStatus
<1>3. StatusFn' = [StatusFn EXCEPT ![r] = StatusOf(r)']
  BY <1>1, <1>2 DEF StatusFn
<1>4. /\ StatusOf(r) = IF pc[j] = "idle" THEN "absent"
                       ELSE IF summary[r] \in Outcome THEN summary[r]
                       ELSE IF Executing(j) THEN "running" ELSE "stale"
      /\ StatusOf(r)' = IF pc'[j] = "idle" THEN "absent"
                        ELSE IF summary'[r] \in Outcome THEN summary'[r]
                        ELSE IF Executing(j)' THEN "running" ELSE "stale"
  <2>1. OwnDetachedRuns'
    BY DEF OwnDetachedRuns, Sole
  <2>2. Course => StatusOf(r) = IF pc[j] = "idle" THEN "absent"
                       ELSE IF summary[r] \in Outcome THEN summary[r]
                       ELSE IF Executing(j) THEN "running" ELSE "stale"
    BY OwnStatus
  <2>3. (Course => StatusOf(r) = IF pc[j] = "idle" THEN "absent"
                       ELSE IF summary[r] \in Outcome THEN summary[r]
                       ELSE IF Executing(j) THEN "running" ELSE "stale")'
    BY <2>1, OwnStatus, PTL
  <2> QED BY <2>2, <2>3
<1>5. /\ pc'[j] # "idle"
      /\ pc[j] = "idle" => pc'[j] \in {"refusing", "starting"} /\ summary' = summary
      /\ summary[r] \in Outcome => summary'[r] = summary[r]
      /\ pc[j] \in {"returned", "dead"} => pc'[j] = pc[j] /\ summary' = summary
  BY <1>1, Launched, VerdictStays DEF runVars
<1>6. pc[j] = "idle" => summary[r] \notin Outcome
  BY <1>1 DEF JobCourse
<1>7. StatusFn[r] = StatusOf(r) /\ StatusFn = [StatusFn EXCEPT ![r] = StatusOf(r)]
  BY <1>1 DEF StatusFn
<1>8. CASE pc[j] = "idle"
  <2>1. StatusOf(r) = "absent" /\ StatusOf(r)' = "running"
    BY <1>4, <1>5, <1>6, <1>8 DEF Executing
  <2>2. StatusFn[r] = "absent" /\ StatusFn' = [StatusFn EXCEPT ![r] = "running"]
    BY <1>3, <1>7, <2>1
  <2> QED BY <2>2 DEF Status!Launch, StatusFn
<1>9. CASE pc[j] # "idle" /\ (summary[r] \in Outcome \/ ~Executing(j))
  <2>1. StatusOf(r)' = StatusOf(r)
    BY <1>4, <1>5, <1>9 DEF Executing
  <2> QED BY <1>3, <1>7, <2>1
<1>10. CASE pc[j] # "idle" /\ summary[r] \notin Outcome /\ Executing(j)
  <2>1. StatusOf(r) = "running"
    BY <1>4, <1>10
  <2>2. StatusOf(r)' \in {"success", "error", "running", "stale"}
    BY <1>4, <1>5 DEF Outcome
  <2>3. CASE StatusOf(r)' = "running"
    BY <1>3, <1>7, <2>1, <2>3
  <2>4. CASE StatusOf(r)' # "running"
    <3>1. StatusOf(r)' \in Status!Verdict
      BY <2>2, <2>4 DEF Status!Verdict
    <3>2. StatusFn[r] = "running" /\ StatusFn' = [StatusFn EXCEPT ![r] = StatusOf(r)']
      BY <1>3, <1>7, <2>1
    <3> QED BY <3>1, <3>2 DEF Status!Conclude, StatusFn
  <2> QED BY <2>3, <2>4
<1> QED BY <1>8, <1>9, <1>10

\* When the server dies, every run it executed is stale.
LEMMA CrashStatus ==
  ASSUME OwnDetachedRuns, WellTyped, Course, Crash
  PROVE  Status!Restart
<1>1. ASSUME NEW r \in RunId
      PROVE  StatusOf(r)' = IF StatusOf(r) = "running" THEN "stale" ELSE StatusOf(r)
  <2>1. /\ summary' = summary /\ activeRuns' = {}
        /\ \A k \in Job : pc'[k] = "idle" <=> pc[k] = "idle"
    BY <1>1 DEF Crash, Executing, runVars
  <2> QED BY <2>1 DEF StatusOf, Outcome
<1> QED BY <1>1 DEF Status!Restart

LEMMA StatusNext ==
  ASSUME OwnDetachedRuns, RunInv, RunInv', [Next]_vars
  PROVE  Status!Next \/ StatusFn' = StatusFn
<1>1. CASE \E j \in Job : JobActs(j)
  <2>1. PICK j \in Job : JobActs(j)
    BY <1>1
  <2>2. RunIdOf[j] \in RunId
    BY RunIdAssumption
  <2>3. Status!Launch(RunIdOf[j]) \/ Status!Conclude(RunIdOf[j]) \/ StatusFn' = StatusFn
    BY <2>1, JobStatus DEF RunInv
  <2> QED BY <2>2, <2>3 DEF Status!Next
<1>2. CASE \E c \in Client : ClientActs(c)
  <2>1. UNCHANGED <<pc, summary, activeRuns>>
    BY <1>2, ClientFrame DEF jobVars, runVars
  <2> QED BY <2>1 DEF StatusFn, StatusOf
<1>3. CASE Crash
  BY <1>3, CrashStatus DEF RunInv, Status!Next
<1>4. CASE UNCHANGED vars
  BY <1>4 DEF StatusFn, StatusOf, vars, jobVars, runVars
<1> QED BY <1>1, <1>2, <1>3, <1>4, Steps

\* Runs launched over HTTP under ids of their own keep what RunStatus promises:
\* each is running until it gets one verdict, and keeps it.
THEOREM StatusRefined ==
  ASSUME OwnDetachedRuns
  PROVE  Spec => StatusSpec
<1>1. Init => Status!Init
  <2>1. Init => \A r \in RunId : StatusOf(r) = "absent"
    BY DEF Init, StatusOf
  <2> QED BY <2>1 DEF Status!Init
<1>2. RunInv /\ RunInv' /\ [Next]_vars => [Status!Next]_StatusFn
  BY StatusNext
<1>3. RunInv /\ RunInv' /\ [Next]_vars => [Status!Next]_([r \in RunId |-> StatusOf(r)])
  BY <1>2 DEF StatusFn
<1> QED BY <1>1, <1>3, RunInvariant, PTL DEF Spec, StatusSpec, Status!Spec

=============================================================================
