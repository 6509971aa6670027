# A verification project for stakgraph

TLA+ modules that model the parts of stakgraph where concurrency, failure and
ordering decide whether the program is right, TLC runs that check them on small
instances, and TLAPS proofs of what matters most for every instance. Paths are
relative to `src/`; line numbers are those of the modelled commit.

Contents: [the system](#the-system), [what is modelled](#what-is-modelled),
[the modules and the code](#the-modules-and-the-code), [the runs](#the-runs),
[fairness](#fairness), [the proofs](#the-proofs),
[where code and words disagree](#where-code-and-words-disagree),
[what is not modelled](#what-is-not-modelled), [plan](#plan).

## The system

stakgraph is a monorepo of several programs that meet over HTTP and a graph
database.

| Component | State it keeps | Operations | Hard behaviour |
| --- | --- | --- | --- |
| **vein** (`vein/`, TypeScript): a workflow engine in one process | per run: event log `events.jsonl`, summary `run.json`; the set `activeRuns` in memory; per chat: `meta.json`, `messages.jsonl`, `events.jsonl`; workspace files and their `_metadata.json`; `secrets.json` with a cache | run a flow, launch it detached, list and stream runs; post to a chat, stream a turn; publish versions | all steps of a flow run at once; retries and fallbacks; one failure rejects the flow and cancels nothing; readers follow files that are being written; read-modify-write of files without exclusion; the process dies |
| **mcp** (`mcp/`, TypeScript, Express): agents over repositories | request store `.reqs/*.json` with an index in memory; abort controllers, event buses and the busy tracker in memory; sessions; clones and worktrees; in neo4j, the concepts of **gitree** with their proposals, records of changes and a checkpoint | `POST /repo/agent` (streamed or not), abort, events, progress; clone, land a change; propose, accept, reject, edit concepts; process a repository's history into concepts | runs outlive requests; several runs of one session; webhooks with retries; SIGTERM drain and sweep at the next start; timers; every operation on concepts is several queries, between which others come; the history run stops anywhere and two of them may overlap |
| **standalone** (`standalone/`, Rust, axum): ingestion of repositories | busy flag, status map, broadcast of progress; the code graph in neo4j, with the hash of the revision it was built from | ingest and sync (waiting or asynchronous), clear, status, events | one ingestion at a time; hang-ups, panics, deadlines; progress forwarded by tasks that outlive their request; a webhook retried under a mutex; a re-index that replaces part of a graph that users have annotated |
| **gateway** (`gateway/`, Go): plugin of an LLM gateway | trust registry in memory and on disk; sessions and spend counters in Redis | upsert, rotate, delete; log in and out; account and enforce budgets around each model call | memory and disk that disagree after an error; keys with a grace period; a seed from the environment at each start; counters read before and written after a call |
| **ast**, **lsp**, **cli**, **shared**, **skill** (Rust) | the graph under construction | parse, link, print | none of state; per-language queries |

How they interact: hosts embed vein (mcp mounts one under `/lab`); mcp calls
the standalone server and neo4j; agents of mcp and vein call models through the
gateway. Between components there are only HTTP calls and webhooks; inside one
they share memory and files, and that is where the difficulty is.

What makes the modelled components correct:

* *flow executor*: a step acts only on final values of what is upstream; skipping
  comes from gates only; nothing downstream of a failure runs; no attempt is
  lost or made twice; every acyclic flow settles.
* *run lifecycle*: log, summary, teardown and what clients are told agree, through
  failing writes and crashes; a run keeps the one verdict it gets; streams end.
* *log tail*: a reader gets the events as written, in order, once, up to the
  terminal one, however the file is cut.
* *chat*: turns have numbers of their own; the model is sent the transcript; a
  stream carries its whole turn; meta.json tells the last turn.
* *repo agent*: a request keeps the one verdict it gets and its webhook hears
  that one and no other; an id of a session aborts the run that is live; the
  store stays within its limit without dropping what is pending; nothing stays
  pending or open.
* *concept proposals*: one request decides on a proposal; its status claims no
  more than was done; a refusal has changed nothing.
* *gitree builder*: nothing the checkpoint has passed is unrecorded; concepts refer
  only to recorded changes; what was decided for a change is linked, until its concept
  is created a second time.
* *asynchronous ingestion*: one request at a time and the flag always returned;
  a request at work shows its own progress; status and webhook tell one verdict;
  status requests are answered although the map is locked over the webhook; the server
  does not stay busy over anything with a deadline.
* *graph synchronisation*: the stored hash tells what the graph holds; what users
  marked survives a re-index.
* *trust registry*: a key that was cut over verifies nothing any more, one in its
  grace period does, through failed writes and restarts.

## What is modelled

| Component | Modules | Status |
| --- | --- | --- |
| vein DAG runner | `FlowPromise`, `VeinFlow`, `MCVeinFlow`, `VeinFlowProofs` | executeFlow, executeStep, getDeps of one flow; a nested flow only as far as `FlowPromise` tells of it |
| vein run lifecycle | `RunStatus`, `VeinRun`, `MCVeinRun`, `VeinRunProofs` | every operation; the flow is `FlowPromise` |
| vein log tail | `LogTail`, `VeinTail`, `MCVeinTail` | complete |
| vein chat | `VeinChat`, `MCVeinChat`, `VeinChatProofs` | complete |
| mcp request store | `ReqStore`, `RequestStatus`, `RepoAgentProofs` | all but `updateReq` |
| mcp repo agent | `RepoAgent`, `MCRepoAgent`, `RepoAgentProofs` | the path without streaming, without worktrees |
| gitree concepts and proposals | `ConceptStore`, `ConceptProposals`, `MCConceptProposals`, `ConceptProposalsProofs` | propose, accept, reject and direct edits; listing, clues, themes and embeddings left out |
| gitree builder | `GitreeBuilder`, `MCGitreeBuilder`, `GitreeBuilderProofs` | bootstrap and processRepo; clue analysis, themes, summaries, linking phase left out |
| standalone server | `AsyncIngest`, `MCAsyncIngest`, `StandaloneProofs` | flag, asynchronous routes, status, progress, webhook |
| graph synchronisation | `GraphSync`, `MCGraphSync`, `StandaloneProofs` | ingest, sync, clear; parsing abstracted |
| gateway trust registry | `TrustRegistry`, `MCTrustRegistry`, `TrustRegistryProofs` | complete |

`FlowPromise`, `RunStatus`, `LogTail` and `RequestStatus` are abstract: they say
what a component promises to those who use it. `VeinFlow` implements
`FlowPromise`; `VeinRun` is *built on* `FlowPromise` (its jobs execute that and not
`VeinFlow`) and implements `RunStatus`; `VeinTail` implements `LogTail`;
`RepoAgent`, which computes with the operators of `ReqStore`, implements
`RequestStatus`, and so does the status map of `AsyncIngest`. `ConceptProposals`
is built on `ConceptStore`, the queries that change concepts. `GraphSync` is the
work that a task of `AsyncIngest` does, one job at a time, as
`AsyncIngest!OneAtATime` says. Operators that begin with `Mut` are deliberate mistakes,
each beside the definition it would replace: they document which error a
property is there to catch.

## The modules and the code

The rule for the grain of actions is the same everywhere: node runs one
continuation at a time, so everything between two `await`s is one action, and
every `await` lies between two.

**VeinFlow** (`vein/src/runner.ts` 178-451). A step is its position in the
`steps` array. `phase[s]` is where its `runStep` is: waiting for its
dependencies, then skipped or launched (`LaunchStep`, `SkipStep`; `SkipFails` is the
step.skipped event that cannot be written), in an attempt
(`EmitRetry`, `EmitStart`, `StepReturns`), in the catch block (`RetryAttempt`,
`RunOnError`, `GiveUp`), on its way out (`EmitError`). `level` counts the nested
calls of executeStep for `onError` fallbacks, `attempt` is the loop variable.
`FulfilFlow` and `RejectFlow` are `Promise.all`. A handler returns `true`,
`false` or data; it may throw in any attempt. Configurations and templates are
left out: a template that does not resolve is an attempt that throws.

**VeinRun** (`runner.ts` 73-171, `store.ts` 102-166, `createVein.ts` 261-271,
388-448, 848-893). A job is one call of runWorkflow: `Launch` (launchDetached
or run()), the refusal of invalid input, `run.start`, the flow, the terminal
event, the summary (truncated, then written), `Teardown` (onRunEnd), `Finish`.
Each write has an action in which it fails, with or without effect. Clients
follow a stream or list a run, and get an answer from the summary or from
`activeRuns`. `Crash` takes the memory and leaves the files.

The flow of a job is `FlowPromise`. Its variable `nests`, fixed at the start, tells
whether a step of the flow calls a subflow under retry or onError. Then the flow can
be fulfilled while steps are at work: executeSubflow rejects with the first child
that fails (`runner.ts` 681-719), its other children go on, and the calling step is retried
or falls back (401-424) and succeeds. Those children log behind run.end. Without
such a step a fulfilled flow is quiet; that is what `VeinFlow` is shown to implement.
`missed` is a history variable: the clients that had read a missing or torn run.json, and
were not answered yet, when the verdict was written.

**VeinTail** (`store.ts` 28-74, 102-107; the chat store has the same reader).
Writers append lines in pieces, byte by byte as far as the reader can tell;
`Poll` reads what is there, decodes it and splits it; `Yield` parses one line.
Bytes are seven letters, one character has two bytes.

**VeinChat** (`createVein.ts` 895-1077, `chat-store.ts` 147-256). `pc[r]` walks
from the POST through its awaits to the launched turn and through that to its
end. `ReadMeta`, `OpenMeta`, `WriteMeta` are the three moments of `setMeta` at
which others may come between. A tail delivers the events of one turn number.
An append to messages.jsonl that is cut (`Cut`) leaves nothing, everything, a part of the
line or all but its newline; `torn` is how many messages the file held when it was
spoilt, and from then on it reads as none. A throw in the catch block of a turn
(`CatchFails`) is caught by nobody, and Node ends the process (`Die`). Events are logged whole
or not at all here; `VeinTail` has the cut lines of a log.

**ReqStore** (`mcp/src/graph/reqs.ts`). Synchronous functions, hence operators
from the store before to the store after: `StartReq`, `EndReq` (finishReq,
failReq), `FailPendingReqs` (drain), `SweepOrphanedReqs` (start of the server),
`EvictOldestCompleted`. `file` and `age` are the directory (`age` counts the steps
that wrote to disk since a file's last write: the sweep sorts by that time), `meta`
and `order` the index in memory. The drain and the sweep are loops in the code; here
they are given by what they leave, so that they can be reasoned about, and TLC
compared both with the loops on every store of three requests. "orphaned" is a failure with
`retryable: true`.

**RepoAgent** (`mcp/src/repo/index.ts` 325-522, 677-1186, `repo/events.ts`,
`busy.ts`, `index.ts` 375-424, `graph/routes.ts` 1026-1060). `StartAgent` is the
synchronous stretch from startReq to res.json; `Conclude` the `.then` or `.catch`
with the guard `shuttingDown`; `CloseRun` the `.finally`. `Abort`, `BusyTimeout`
and `BusExpires` come at any time. A webhook call in `calls` is delivered, or
fails (and may have been received all the same) and is tried again; `told[r]` is the set of
verdicts the receiver has heard, so that it hears one twice, which such a retry makes
possible, is not told apart. `Shutdown`
is drainForShutdown, `Exit` the end of the drain, `Crash` a kill, `Boot` the
sweep of the next start. `StartPlain` and `ConcludePlain` are requests of the
other routes that share the store. A write that fails puts its request into
`lost`: the code swallows the error, so nothing is promised of that request, and
the properties check that the others do not suffer.

**ConceptStore** (`mcp/src/gitree/store/graphStorage.ts` 542-753, 1792-1812,
2579-2601). Each query that changes concepts is an operator; a query is atomic,
two queries are not. A concept is its documentation; of its edges only
PARENT_OF is kept.

**ConceptProposals** (`gitree/service.ts` 36-293, `proposals.ts` 36-316,
`graphStorage.ts` 2605-2845, `routes.ts` 371-429, 1142-1187). `request[r].at` is
the storage call that request r makes next, so any two requests interleave
between any two calls. `Claim` is the conditional query of claimProposal, `Release`
the unconditional one of releaseProposalClaim, `Throws` the catch block around what is applied. `ChecksNew` to `UndoesNew` are
createConceptDirect, which an accepted creation and POST create-concept-direct
share; `RequiresConcept` to `DropsAbsorbed` the other three actions, accepted or
direct; `Write` is the write that a request makes next. `AnswerLost` is a call that took
effect and is made again by the session (`utils/neo4jRetry.ts` 42-107, three tries),
`CallFails` a try that throws; one after the other they are a call that throws
although it took effect, and a saveConcept that fails after its first query. History:
`wrote`, `again` (the proposal a call under way has changed already) and `stripped`
(those that lost a decision to such a repeated call).

**GitreeBuilder** (`gitree/builder.ts` 44-1010, `bootstrap.ts` 189-325, `routes.ts`
124-298, `graphStorage.ts` 542-938, 1453-1509). A runner is one call of
gitree_process: bootstrap of a repository without concepts (`Explores`, `Seeds`,
`SetsLookback`), the two listings of GitHub (`ListsPulls`, `ListsCommits`), then
for each change, oldest first, the model's answer (`Decides`), the record
(`Records`), the concept (`LooksUp`, `LinksChange`, `CreatesConcept`,
`ExploresConcept`) and the checkpoint, which is read and written (`Stamps`,
`MovesCheckpoint`). `Stumbles` is the catch block around one change, `Gives` an
error outside of it. A concept that is created may exist: its identifier is made from a name,
and saving replaces its lists. updateConcepts of the model's answer is kept as an addition;
migrateOldCheckpoint, clues, themes and the phases after processRepo are left
out, and so are the edits of operators (`ConceptProposals`). `slipped`, `horizon`, `decided` and
`replaced` are history variables: changes that landed where no listing finds them, how far a
bootstrap moved the checkpoint, what was decided, and what a concept listed before it was
created anew. The two runs at once of `overlap` are possible because `isProcessing`
(`routes.ts:165`) is reported and never asked.

**AsyncIngest** (`standalone/src/handlers/ingest.rs`, `busy.rs`, `handlers/status.rs`,
`webhook.rs`, `ast/src/builder/progress.rs`). A task's `at` goes from its handler
(`Validates`, `Acquires`, `Registers`) into the background task (`Works`, `Ends`,
`Records`, `Posts`, `Drops`). The boundaries between actions are the awaits that
may suspend: above all the mutex of the status map (`MapFree`), which `Records`
keeps over the webhook. `inbox[r]` is the receiver of r's forwarder; a
full one lags, and the forwarding loop ends (`deaf`). `HangsUp` drops a handler with its
guard, `Panics` the background task with it.

**GraphSync** (`standalone/src/service/graph_service.rs`, `ast/src/lang/graphs/graph_ops.rs`
72-276, 354-417, 519-566, `neo4j/operations/migration.rs`, `ast/src/builder/core.rs`, `repo.rs`,
`gat.rs`). The stages of update_incremental and of ingest, one action between two
queries that others can come between; a removal (in chunks) and a build (node
by node) may be cut anywhere (`IsCut`). `graph[f]` is the set of texts whose
nodes stand in the graph for file f: a build adds and does not replace. `links` are the calls between
files. A mark is a pair of a file and a kind: a muted node whose label is in the list that
collects them, one whose label is not, or an edge of a hint or prompt. What the code does
with errors differs from query to query, and each has its action: `IsCut` where they
propagate; `MisreadsHash`, `MissesMuted`, `RootIsLost`, `BuildsInPart` and `FailsToRestore` where they
are swallowed and the job goes on to stamp its hash. `damaged` and `owed` are history
variables: the files that such a fault, /clear in the middle of a job or a moving remote has left
wrong, and the marks that none of them, nor the list, excuses. The model is of one
repository: the code finds the Repository node with `CONTAINS` (`migration.rs:312`, `:406`), so of two
repositories one of which has a name within the other's it may read and stamp the wrong hash.

**TrustRegistry** (`gateway/internal/trust`, `adminapi/trust.go`, `auth/verifier.go` 178-194).
Every operation holds the registry's lock until its file is written, so each is
one action with three outcomes: saved and answered, not saved with memory ahead,
saved and the process dead before the answer. `StartsFromFile` and
`StartsFromSeed` are LoadFromEnv in its modes. `retired` and `promised` are history
variables: keys that an answered call ended, and grace that a rotation promised (not the grace that
the body of a POST brings).

## The runs

| Run | Instance | Shows | States |
| --- | --- | --- | --- |
| `flow` | all 3-step DAGs with all gatings; all pairs of retry and fallback ladders; arbitrary dependencies, cycles and unknown ids included | all of the executor's properties, and that it implements `FlowPromise` | 69 k |
| `run` | one detached run, one client, two step events, two failing writes, one crash | log, summary, teardown and answers agree; implements `RunStatus`; the run is forgotten, its stream ends | 27 k |
| `tail` | two writers, one- and two-byte characters, whole and split lines, any cut | implements `LogTail` up to cut characters; the reader catches up | 1.3 k |
| `chat_patient` | three requests, each sent when the turn before is over; one failing read or write, one crash | turns, transcript, streams, meta.json | 4.0 M (symmetry) |
| `chat_concurrent` | two requests, the second from the moment the first turn logs its end; one failing read or write | each turn and each stream ends, or the server has died of the turn | 0.2 M |
| `agent` | two agent requests of one session, a plain one between; a store of two entries; two tries per webhook; two stops; one failing write | the safety properties, and that it implements `RequestStatus` | 0.75 M |
| `agent_ends` | the same without webhook and without failing writes | no request stays pending, no stream stays open | 18 k |
| `proposals` | three requests of nine inputs (accept forced or not, reject, propose, direct) over one proposal and two concepts; two calls that fail or whose answer is lost, one crash | one decider, refusals without writes, status backed | 3.5 M (symmetry) |
| `builder` | a pull request and a commit, one concept, two instants, two runs; two faults, none where runs overlap | checkpoint, records, links | 3.6 M (symmetry) |
| `ingest` | two requests of each kind, one update each, one retry, a channel of two | progress, webhook, status; implements `RequestStatus`; the server frees, unless a handler works without deadline | 79 k |
| `sync` | two files, two texts, one mark of each kind, four revisions with reverts and deletions; two faults | hash and marks | 8.0 M |
| `registry` | two orgs, two keys, one seed, posts without and with a grace of their own, three instants, two faults | cut-over and grace | 297 k |

Why the bounds are enough:

* Three steps are the least with a path of two dependencies, a fork and a join;
  the decision of a step looks at its dependencies only. Ladders have up to
  three levels and two retries, so every branch of the catch block is taken from
  every other.
* Runs interact only under one id; the run `run` has one job, and what two jobs
  of one id do to each other is in the proof of `SummaryBacked`, which holds for
  any number of jobs. Two failures are needed to fail in the catch block after
  one in the try block, and a crash can follow.
* A reader's state is its offset and one incomplete line: two lines, one of them
  terminal, beside a third reach all cuts.
* Three requests to a chat give a turn with a predecessor and a successor; the
  conflicts of `setMeta` are between two.
* Two agent requests of one session are what superseding is about; the third,
  plain one makes the store (two entries) evict and lets a drained record
  be written by a route without guard. Two stops give a crash during a drain,
  and a restart after a restart.

* A proposal is disturbed between its claim and its release by at most one more
  decider and one edit: three requests. A failed call releases the claim, a
  crash does not, and each is met at every call. Two lost answers or failures are one of
  each: a call that took effect and then throws, or a repeated call beside a failing one.
* Two changes can have one instant, be listed by different listings, be in or
  out of order and be pushed late; two runs are what the checkpoint is read and written
  between. Faults where runs overlap are left to the proofs of `CheckpointCovers` and
  `LinksOnRecord`; the bound `MaxTogether` only keeps that run small.
* Two requests are enough for the flag, and for the broadcasts of one to reach the
  forwarder of the other; a channel of two lags with the third broadcast.
* Four revisions let a file change, change back and vanish between two syncs of which
  one is cut; every pair of files (in hand, not in hand) occurs. Two faults are a
  build in part and a cut or a failed query after it.
* Two keys rotate there and back with the first one still in its grace; the third
  instant lets a deadline pass between two rotations.

Some properties of one component are checked together under one name, in the MC
module (`FlowConcludes`, `LogsWellFormed`, `RunConcludes`, `TailPromised`,
`ChatWellFormed`, `TurnsAndStreamsConclude`, `StoreSound`, `CallerToldRecord`,
`RequestsConclude`): each is the conjunction of named parts of the component's
module, the type invariant with one of them. `DecisionFinal` and `OneAtATime` are proved and not run; neither
are the type invariants of the five newer modules, whose inductive invariants
(each begins with its types) are.

Deadlock is checked in `builder`, `ingest`, `sync` and `registry`, and not in the others: every one of those systems may rest (all steps
resolved, all requests answered, no more requests). That they do not rest too
early is what the liveness properties say.

Bounds in guards are named: `MaxStepEvents`, `MaxFailures`, `MaxCrashes`,
`MaxParts`, `MaxStops`, `MaxLost`, `MaxFaults`, `MaxTogether`, `MaxTime`,
`MaxUpdates`, `MaxRevs`. `MaxReqs` and `Attempts` are parameters of the
code (`MAX_REQS`, default 100, and the three webhook delays), taken smaller.

## Fairness

* `VeinFlow`: weak fairness of every step and of `Promise.all`: the event loop runs
  every continuation that is ready. That a handler returns or throws is an
  assumption on handlers; the engine has no deadline for them.
* `VeinRun`: weak fairness of each job's next step and of the flow's settling
  (shown for acyclic flows by `AcyclicSettles`; a cyclic flow never settles and
  its run stays active, which nothing in the code prevents), and of the polling
  of a connected client. None for launching, asking, failing and crashing.
* `VeinTail`: the reader polls; writers have none, they may stop in mid-line.
* `VeinChat`: a launched turn goes on, a connected client reads. Not the requests.
* `RepoAgent`: an agent's work ends (turns and git commands are bounded, and
  the busy timer aborts it), the drain ends (it is raced against a deadline), and
  the server is started again, an assumption on the deployment without which
  nothing could ever settle what a crash left pending. None for webhooks, timers,
  aborts and stops.
* `AsyncIngest`: strong fairness of each request's own steps and of the answer to a
  status request, but none of the end of the work of a direct request (`AtWorkDirectly`).
  The runtime polls every task that is woken; the work of the two asynchronous routes has a
  deadline (`SYNC_TIMEOUT_SECS`, `INGEST_TIMEOUT_SECS`, `ingest.rs:149-164`, `:420-437`), that of
  the routes behind busy_middleware has none (`main.rs:82-90`), so `ServerFrees` excepts it; a
  webhook has bounded tries, each with its timeout; and tokio's mutex is fair, which hands the map to whoever waits
  although it is taken again and again. None for arrivals, hang-ups, panics and
  forwarders.
* The other modules state safety only: what a request does next is up to its
  caller.

## The proofs

`tlapm` checks all of it; no assumption is made beyond the named ones about
constants (`NumStepsAssumption`, `FlowsAssumption`, `RunIdAssumption`,
`ViaAssumption`, `BoundAssumption`, `ReqAssumption`, `KindAssumption`, `SessionAssumption`,
`MaxReqsAssumption`, `AbsentAssumption`, `CallAssumption`, `BuilderAssumption`,
`IngestAssumption`, `SyncAssumption`, `TrustAssumption`), which say what the values are and
which TLC evaluates in every run, and two hypotheses that theorems state
themselves, `OwnDetachedRuns` and `Waits` (below).

`VeinFlowProofs`, for any number of steps and any flows, cyclic ones included:

* `TypeCorrect` - type correctness. The bound `level <= Len(retries)` is part of
  it: `MaxRetries` is defined only there.
* `DependenciesResolvedTheorem` - the inductive core: a step acts only when its
  direct dependencies are resolved. It rests on one lemma about a step of the
  system, `Persistence`: resolved steps stay as they are, with their output, and a
  step leaves "waiting" only through its gate.
* `DecisionFinalTheorem` - run or skip does not depend on the order of events: by
  `DependenciesResolved` the decision was made from resolved steps, by
  `Persistence` it would be made again.
* `AncestorsResolvedTheorem` - the same for whole paths. `Ancestors` is defined as the
  least set closed under dependencies, without recursion, so the proof needs no
  induction: the resolved steps among the ancestors are closed.
* `FailureStopsDescendantsTheorem` - follows from it.
* `SkipsComeFromGatesTheorem` - a skipped step is gated or lies downstream of a
  skipped step that is. The induction is over the steps of the run and not over the
  graph: a step without gate is skipped after all its dependencies, which have such
  a gate behind them by then, and ancestors of an ancestor are ancestors.
* `AttemptsAccountedTheorem` - attempts are made one after the other up to the last of
  the last fallback, and no further. An attempt is a pair of a level of the ladder
  and a number, and what is spent is the cardinality of the pairs below the current
  one: going on adds one pair to that set (`NextAttempt`), at the last attempt all
  but one are in it (`LastAttempt`), so no sum over the ladder, and no induction, is
  needed. The invariant is `Within`: a waiting step is at its first attempt, an
  attempting one within the retries of its level.
* `SettledForCauseTheorem`, `ImplementsPromise` - a settled flow has its cause, and
  the refinement of `FlowPromise` with `nests` FALSE: only a busy flow acts, and a flow
  whose steps are all resolved is not busy. This is of flows without subflows.

`VeinRunProofs`, for any jobs, ids (shared ones included), clients and bounds:

* `SummaryBackedTheorem` - run.json never tells a verdict the log does not. Not
  inductive alone: the invariant `BackedInv` adds that a job about to write a
  summary has logged its verdict, and the lemma `LogsGrow` that nothing logged
  disappears.
* `TeardownFollowsStartTheorem` - onRunEnd is called for exactly the jobs that logged
  run.start. `TeardownInv` ties the two flags to every place a job can be in.
* `LogsWellFormedTheorem` - types, and the log behind a success has one terminal event,
  run.end, with nothing behind it and no work left unless the flow nests. `WellTyped` adds to the types that a client without a stream stands at the start of
  a log; `Course` says of a job that has its id for itself what its flow, its log
  and its summary are at each place, and that `activeRuns` has it while it executes.
* `AnswersHoldTheorem` - from `RunInv`, which adds `Unlaunched` (nothing is logged for a
  run before its job), `ClientsHeard` (a verdict that was told is on record; what was
  told is stale is over or dead) and `StaleMissed` (a client that found no summary of a run
  that has a verdict now was waiting for its answer when it was written).
* `StatusRefined` - the refinement of `RunStatus`, for detached runs whose ids are
  their own (`OwnDetachedRuns`): of two jobs with one id the second overwrites the
  verdict of the first, and run() never enters `activeRuns`, so both break the promise in the
  code. The assumption holds of POST /run unless two requests name one id or
  fall into one millisecond.

`VeinChatProofs`, for any clients and bounds and any finite set of requests:

* `ChatTyped` - types, whoever sends and whenever. Turn numbers stay below the number of
  messages sent (`Counted`), which is where finiteness is needed.
* `ChatWellFormedTheorem`, `ContextIsTranscriptTheorem`, `StreamWholeTheorem`,
  `MetaTellsLastTurnTheorem` - for a user who sends when the turn before is over
  (`Waits`; the code does not enforce it, and without it two requests get one turn
  number, see below). No two requests are at work (`Alone`); so what a request has
  read is still so when it acts on it: the transcript (`Transcript`, or nothing where a
  line is spoilt or the file was not read), and meta.json,
  of which `Course` says at each place what it holds. `Numbered` says that whoever has
  logged something has a number of its own and whoever starts a greater one; `Tails`
  that a stream which ended stands at the terminal event of its turn. A step of the request
  at work is summed up once (`Does`), and the parts of the invariant that
  concern all requests follow from that.

`RepoAgentProofs`, for any requests, sessions, `MAX_REQS`, stops and failing writes:

* `StoreSoundTheorem` - index and files agree where writes succeeded. One lemma for
  each operation of `ReqStore` says what it leaves (`Starts`, `Records`, `FailsPending`,
  `Sweeps`), and `Steps` that each step of the system is one of the seven of `StoreStep`.
  `RecordInv` ties the file and the index entry of a request to how far its run is;
  it also says that only finitely many have started, for the eviction to find
  an oldest one.
* `CallerToldTheorem` - `HookInv` adds that every call that is under way, and everything
  that was told, carries the verdict on record.
* `CapTheorem` - the action property, from `RecordInv`: a step of a running server removes
  a file only by eviction, which takes an entry that is over.
* `StatusRefined` - by the same seven steps, each of which moves a request as
  `RequestStatus` allows or not at all.
* `SessionHeldTheorem` - of the runs of a session at most one goes on unaborted, and
  it can be aborted under either id. The property is inductive with the type
  of `run` and `holder`: a run that loses the session is aborted in the same step,
  and a run that closes gives back the session only if it still has it.
* `BusyCoversTheorem` - the tracker counts no run that is over, and a live run it no
  longer counts has been aborted.

`ConceptProposalsProofs`, for any proposals, requests, concepts, failures and crashes:

* `OneDeciderTheorem`, `AcceptedBackedTheorem` - proved together. A claim finds
  nobody applying the proposal, because whoever does has left it accepted; a
  release leaves nobody, because whoever releases answers an error; a repeated call
  that finds another's decision strips the proposal, and `OneDecider` excepts just those. Four
  lemmas say what a step that moves one request does to the invariant
  (`KeepsStep`, `DecisionStep`, `PendingStep`, `MovesStep`); one lemma per action cites them.
* `RefusalsWriteNothingTheorem` - `Sound` ties the answer a request has settled on, and
  whether it may have written, to the call it makes next.

`GitreeBuilderProofs`, for any repository, concepts, overlapping runs and faults:

* `CheckpointCoversTheorem`, `LinksOnRecordTheorem` - `Fine` says what a run may rely on
  at each stage (what it has read, what it has left to do, what is on
  record). It speaks only of records that exist, and records never go away: so
  other runs cannot disturb it. The order of processing is what makes the
  checkpoint right: what is left to do is no older than what is done.
* `DecisionKeptTheorem` - while no two runs overlap, a change that was processed in full
  and passed is linked to the concepts decided for it. The record is written before
  the links, so the argument is the one above with `Settled` (recorded and linked) in
  place of recorded, and with what the only run may rely on in between (`Solo`): the
  decision it holds is the one that was made, and the links it has read are those there
  are, so adding to them loses nothing; creating moves the old ones to `replaced`.

`StandaloneProofs` holds the proofs about both modules of the standalone server (which is why
the definitions of `GraphSync` that every specification has are called `SyncInit`,
`SyncNext`, `SyncSpec`). Of `AsyncIngest`, for any requests, updates, retries and any capacity of
the channel:

* `OneAtATimeTheorem` - the flag is set exactly while one request is inside.
* `ProgressIsOwnTheorem` - needs the first, and that everything waiting in
  the receiver of a request inside is as good as what has been forwarded; the
  theorems about sequences say what Append and Tail leave of that.
* `WebhookTellsRecordTheorem`, `StatusRefined` - `Course` ties status and told verdicts to how far
  the request has come; from it each step of the status map is one of
  `RequestStatus` or a stutter.

Of `GraphSync`, for any files, texts, marks, revisions and faults:

* `HashBackedTheorem` - for each stage of a job the invariant says what the files in
  hand hold, and why those left alone are right: the files in hand include all
  that changed since the stored hash (`Chosen`). A file a build lost is taken from
  those the job repairs, so it stays damaged when the job is done.
* `MarksSurviveTheorem` - inductive beside it with `Collected`: of the marks on files about
  to be removed, the job has all but those that its list does not have and those
  nobody has seen; what it has is carried until it is put back or was excused.

`TrustRegistryProofs`, for any orgs, keys, seeds, grace periods and faults:

* `CutOverHoldsTheorem`, `GraceHonouredTheorem` - the invariant says of the file what the
  properties say of memory, since a restart makes the one the other; an answered
  operation has made them equal (`FileFollowsMemoryTheorem`), an unanswered one has
  withdrawn what was promised.

Only model-checked: liveness (TLAPS has no fairness); everything about `VeinTail`,
whose reader decodes and splits text, which needs what a fold or a recursive
function computes for every input: induction over data, out of the prover's reach;
and the chat of a user who does not wait, of which nothing is claimed but types and
liveness. Every other safety property of a run is a theorem.

## Where code and words disagree

What the code does and a comment, a doc or another part of the code says
otherwise. The models follow the code; properties are stated so that they hold
of it.

vein and the repository agent:

* A tail buffers partial lines (`store.ts:21`) as decoded text: a read that ends
  inside a character corrupts the event (`:49`). `TailSpec` excepts cut characters.
* `currentTurn` is "the most recently launched turn" (`chat-store.ts:48`); a message sent
  on `chat.end` can have its update overwritten by the turn that is marking
  itself done (`:187`), and the next message takes the same number.
* A stream ends with "a final `done` carrying the RunResult" (`createVein.ts:430`); the
  terminal event is logged before run.json is written, so the frame may
  say `running` and carry nothing (`:444`).
* onRunEnd is "to dispose any per-run resources" (`runner.ts:156`); it is called while
  siblings of the failed step still execute (`:167`), and, after a success, while
  children of a failed subflow attempt do (`:681-719` with `:401-424`).
* The sweep adopts files "so re-adopted eviction order matches creation order"
  (`reqs.ts:174`); it sorts by mtime, which every terminal write renews (`:184`).
* `runner.ts:268` describes gates differently from `:280-286`; the model follows the code.
* After `run.error`, and after `run.end` of a flow that nests, more events may follow
  (`store.ts:7` calls the run terminal then).
* "stale" is a run that "never finalized" (`createVein.ts:268`); a run that has just succeeded
  is called that too, when its summary is written and it leaves `activeRuns` between
  the two looks (`:396-401`, `:444-448`). `AnswersHold` allows it to the clients in `missed`.
* A run started with run() is listed as stale while it executes (`createVein.ts:268-270`
  against `:1138`); `AnswersHold` is stated for detached runs.
* onRunEnd is not called for a run refused by validation (`runner.ts:160`).
* A crashed run's stream never ends by itself: `StreamEnds` excepts crashes.
* Two messages posted at once get one turn number (`chat-store.ts:34` against
  `createVein.ts:1032`); `TurnsDistinct` is checked for patient users only.
* A crash between truncation and write of `meta.json` makes a chat unreadable.
* "Lossless on disk (transcript)" (`createVein.ts:1034`): once an append to messages.jsonl is cut,
  no line of the file is read any more (`chat-store.ts:225-227`) and every later turn is
  answered as if nothing had been said. `ContextIsTranscript` says so: all of it or nothing.
* A turn "keeps running regardless of the connection" (`createVein.ts:897-902`) and
  ends with a terminal event; but the catch block writes to the same disk
  (`:1001-1002`), nobody catches what it throws, and Node then ends the server and with it every
  other turn and run. `TurnConcludes` excepts turns that died so, `StreamConcludes` the
  streams of turns that did.
* A turn whose `setMeta` after chat.end throws logs chat.error behind it (`createVein.ts:996-1001`): two
  terminal events, of which readers see the first.
* A message sent while another turn runs is answered from what the transcript holds
  then (`createVein.ts:1028`); the same is read as nothing while a line is being written.
* Lines above 512 KB of two writers can be mixed (`store.ts:19` against `:106`).
* `reqs.ts:251` says terminal writes always hit the disk; writeToDisk swallows errors.
  A request that was reported completed is then failed and reported again at
  the next start. A file torn by a crash is skipped and never removed.
* The other routes have no guard like `repo/index.ts:1045`: during a drain they
  overwrite the verdict the drain gave. `gitsee_services` leaves a request
  pending when its parameters are missing (`graph/routes.ts:1034`).
* `repo_lock.ts:45` means to clean up its map; the stored promise is never the one it
  compares with. Its comment (`:11-13`) counts releaseWorktree among the serialized;
  that function takes no lock (`git_pr.ts:739`).

gitree:

* Creating a concept is "not an overwrite" (`routes.ts:1139`), but the check and the save
  are two queries and the save is a MERGE: of two concurrent creations the
  later one replaces the earlier, and the undoing of a failed link
  (`service.ts:108`) may delete the other's concept.
* An accept is to "Refuse to clobber the newer docs" (`proposals.ts:33`), but compares
  in a query before it writes: an edit in between is overwritten. A plain update whose
  concept has vanished in between is reported as a success (`graphStorage.ts:1792` matches nothing).
* A failure after the change was applied releases the claim: the proposal is
  pending although it is applied, and a half-applied merge is then refused as
  stale. After a crash, or a release that fails, it stays accepted.
* "callers use this as a claim so a proposal can never be applied twice"
  (`graphStorage.ts:2762-2765`): the session repeats a call whose answer it lost
  (`neo4jRetry.ts:50-83`). A release asks for nothing but the id: repeated, it takes the
  proposal from whoever claimed it in between, and a third request applies it again;
  so does a repeated saveProposal (`stripped`). A claim that was made finds itself
  decided "by another request" (`proposals.ts:164-169`): the proposal reads accepted and
  nobody applies it (`misled`); a rejection is answered 409 in the same way, though it stands.
* "Created new concept" (`builder.ts:866`) may be one that exists: the identifier is made from the
  name (`:854`), nobody looks, and saveConcept's MERGE sets its prNumbers and commitShas
  anew (`graphStorage.ts:565-608`). What was decided for earlier changes is gone from it
  (`replaced`).
* `gitree_process` sets `isProcessing` and does not ask it (`routes.ts:165`); two runs overlap.
  A change that lands behind a listing, or is dated before the checkpoint, is passed
  over (`builder.ts:224`).

standalone server:

* A panic in the work leaves its entry in progress for good, and its forwarder goes on
  writing the progress of later requests into it; so does the forwarder of every request that is over.
* ingest_async broadcasts its refusal of bad credentials to whoever listens (`ingest.rs:307`).
* "Hard upper bound so a stuck Neo4j/LSP/IO call surfaces as Err" (`ingest.rs:149`): there is none
  for the same work behind busy_middleware (`/process`, `/sync`, `/ingest`, `/embed_code`,
  `main.rs:82-90`). Stuck there it keeps the flag for as long as its client stays connected, and
  every other request is rejected.
* A client that is told Complete by /events may still be refused as busy: the flag is
  returned after the webhook. A receiver that asks /status before it answers
  waits for its own timeout, since the map is locked meanwhile (`ingest.rs:439`).
* The Repository node with the hash is made at the start of a build (`core.rs:392`): a
  first build that is cut is answered "already processed" by the next sync, and an
  incremental sync that is cut and then reverted leaves the files of the other revision
  (`damaged`). A full sync clones once more and may index a later revision than it stores.
* A sync's result says how many nodes there are, and its hash that they are those of the
  revision; but every write of a build ends in `unwrap_or_default` (`neo4j/graph.rs:1149-1250`),
  so what could not be written is missing, the hash is stamped (`graph_ops.rs:199`, `:270`), and
  the next sync of that revision answers "already processed". `HashBacked` holds but for such
  files. A streamed ingest only warns in the same case (`repo.rs:124-150`).
* Muted nodes are collected "to preserve" (`graph_ops.rs:534`): the query names the labels `DataModel` and
  `E2eTest` (`queries/nodes.rs:506`), the graph has `Datamodel` and `E2etest` (`asg.rs:322`, `:327`), and others
  are not named at all, so that any sync of their file unmutes them. A list that cannot be read is
  taken for empty (`executor.rs:368-376`, `coverage.rs:48-54`), and the removal goes on. `MarksSurvive`
  excepts both.
* An incremental sync removes a file's nodes with the calls that unmodified files
  make into it and rebuilds only the file's own calls (`graph_ops.rs:147`);
  `get_incoming_edges_for_file` (`migration.rs:121`) is there for that and unused. The
  model keeps `links` so; no property is stated of them.

gateway:

* A write that fails leaves memory ahead of the file, and the same call repeated is
  answered ok without writing (`registry.go:151`); a restart brings the old state back.
* Rotate's comment (`registry.go:172-177`) says that earlier keys are dropped on the next
  call; the code keeps them, under the deadline of the latest rotation. An Upsert that
  changes any field drops the grace keys.
* A key rotated by the API differs from the seed of the environment, which the modes
  overwrite and refuse act upon at the next start, against `persistence.go:204-207`,
  which speaks of the grace keys only.
* POST is "Idempotent on the user-supplied fields" (`adminapi/trust.go:54`), but a grace that its body
  brings is not compared (`registry.go:252`): with a new key it is stored as given,
  unchecked, with the same key it is dropped and answered ok.

## What is not modelled

* *vein*: nested flows (if, foreach, loop, call), workspace, secrets, cassettes:
  planned. Expressions, schemas, price tables: pure functions over strings with unit
  tests. Prompts, adapters, the user interface: no state.
* *mcp*: streaming runs, sessions, worktrees, landing: planned. Graph queries, gitsee,
  lab, logs, evaluation, and the parts of gitree beside proposals and the
  builder: single queries and prompts, whose state is in neo4j or behind other services.
* *standalone*: search, embedding and coverage routes: one query each.
* *gateway*: sessions, budgets and hooks: planned. Administration, prices,
  clients: routes and tables over the components.
* *ast*, *lsp*, *cli*, *shared*, *skill*: sequential translation, input and output, by far the
  largest part of the repository's lines. Their difficulty is in grammars and per-language
  queries, which the repository tests on sample projects; there is no state whose
  interleavings a model could explore. `GraphSync` models what surrounds them.

## Plan

What would come next, most important first:

1. `RepoLock` (`repo_lock.ts`, `clone.ts`, `git_pr.ts`): queue, deadline, worktrees,
   sweep at start. Abstract: mutual exclusion per repository.
2. Gateway sessions and budgets (`sessions/store.go`, `auth/accumulator.go`): counters in
   Redis read before and written after a call.
3. `VeinNested` (`runner.ts` 458-719): composition of `FlowPromise` copies; a nested
   flow is settled before its parent step, concurrency of foreach bounded.
4. `VeinWorkspace` and `VeinSecrets` (`workspace.ts` 232-391, `secret-store.ts`):
   read-modify-write of metadata; abstract: the active version exists.
5. Streaming path of repo_agent with sessions.
6. `VeinTail` with a reader of lines instead of bytes, as a module of its own, about which
   `LogTail` could be proved; `updateReq` in `ReqStore`.
