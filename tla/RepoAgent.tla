----------------------------- MODULE RepoAgent -----------------------------
(***************************************************************************)
(* The life of a POST /repo/agent request on the mcp server                *)
(* (mcp/src/repo/index.ts, the path without streaming), with what it       *)
(* shares with the others: the request store (ReqStore), the registry of   *)
(* abort controllers and the event buses (mcp/src/repo/events.ts), the     *)
(* busy tracker (mcp/src/busy.ts), the webhook a caller asked for, the     *)
(* shutdown and the restart of the server (mcp/src/index.ts).              *)
(*                                                                         *)
(* Requests of the other routes that use the store are `Plain`.  Requests  *)
(* are numbered in the order they are made.  Abstracted: the run itself    *)
(* (clone, worktree, agent), which ends with a result or an error; the     *)
(* events of its steps.                                                    *)
(***************************************************************************)
EXTENDS ReqStore

CONSTANTS
  Session,
  Plain,          \* requests of other routes
  Hooked,         \* requests that came with a webhookUrl
  SessionOf,      \* the session of each agent request
  Attempts,       \* how often a webhook is tried
  MaxStops,       \* bound: shutdowns and crashes
  MaxLost         \* bound: requests whose file could not be written

Agent == Req \ Plain
NoReq == 0

ASSUME ReqAssumption     == Req \subseteq Nat \ {NoReq}
ASSUME KindAssumption    == Plain \subseteq Req /\ Hooked \subseteq Agent
ASSUME SessionAssumption == SessionOf \in [Agent -> Session]
ASSUME BoundAssumption   == Attempts \in Nat \ {0} /\ MaxStops \in Nat /\ MaxLost \in Nat

VARIABLES
  mode,        \* the server process: up, draining after SIGTERM, or down
  store,       \* the request store
  run,         \* the work of each request: none, live, settled, closed
  registered,  \* requests whose controller is registered under their own id
  holder,      \* the request whose controller is registered under a session
  aborted,     \* requests whose controller has been aborted
  tracked,     \* requests the busy tracker counts
  buses,       \* requests with an event bus that has not ended: their event
               \* streams are open, all others are closed at once
  calls,       \* webhook calls under way
  told,        \* the verdicts each webhook received
  lost,        \* requests whose file was not written as it should
  cut,         \* requests whose webhook was given up, or died with the process
  stops        \* shutdowns and crashes so far

live  == <<run, registered, holder, aborted, tracked, buses>>
hooks == <<calls, told, cut>>
vars  == <<mode, store, live, hooks, lost, stops>>

Call == [req : Hooked, verdict : Verdict, left : 1 .. Attempts]

TypeOK ==
  /\ mode \in {"up", "draining", "down"}
  /\ store \in Store
  /\ run \in [Req -> {"none", "live", "settled", "closed"}]
  /\ registered \subseteq Agent
  /\ holder \in [Session -> Agent \cup {NoReq}]
  /\ aborted \subseteq Agent
  /\ tracked \subseteq Agent
  /\ buses \subseteq Agent
  /\ calls \subseteq Call
  /\ told \in [Hooked -> SUBSET Verdict]
  /\ lost \subseteq Req
  /\ cut \subseteq Hooked
  /\ stops \in 0 .. MaxStops

\* The writes of the requests in `failing` fail in this step.
Losing(failing) ==
  /\ Cardinality(lost \cup failing) <= MaxLost
  /\ lost' = lost \cup failing

\* The webhook call each of these requests is owed, if the file had its URL.
CallsFor(reqs, verdict, tries) ==
  { [req |-> r, verdict |-> verdict, left |-> tries] : r \in reqs \cap Hooked }

-----------------------------------------------------------------------------
(* Requests.                                                               *)

\* The next request arrives: also on a connection that was open, or after an
\* await that began, before the server stopped listening.
Arrives(r) ==
  /\ mode # "down"
  /\ run[r] = "none"
  /\ \A q \in Req : q < r => run[q] # "none"

\* registerAbortController for the session: whoever held it is superseded.
Superseded(r) == {holder[SessionOf[r]]} \ {NoReq}

\* From startReq to res.json there is no await.
StartAgent(r) ==
  /\ Arrives(r)
  /\ \E failing \in SUBSET {r} : Losing(failing) /\ store' = StartReq(store, r, failing)
  /\ run' = [run EXCEPT ![r] = "live"]
  /\ buses' = buses \cup {r}
  /\ registered' = registered \cup {r}
  /\ aborted' = aborted \cup Superseded(r)
  /\ holder' = [holder EXCEPT ![SessionOf[r]] = r]
  /\ tracked' = tracked \cup {r}
  /\ UNCHANGED <<mode, hooks, stops>>

\* A route that finds its parameters wrong after startReq abandons its request.
StartPlain(r) ==
  /\ Arrives(r)
  /\ \E failing \in SUBSET {r} : Losing(failing) /\ store' = StartReq(store, r, failing)
  /\ \E state \in {"live", "closed"} : run' = [run EXCEPT ![r] = state]
  /\ UNCHANGED <<mode, registered, holder, aborted, tracked, buses, hooks, stops>>

\* Mutants: a chain that ends during the drain reports too; the catch handler
\* does not tell the bus.
MutConcludeUnguarded(r, verdict) ==
  /\ run[r] = "live" /\ r \in Agent
  /\ run' = [run EXCEPT ![r] = "settled"]
  /\ \E failing \in SUBSET {r} :
       Losing(failing) /\ store' = EndReq(store, r, verdict, failing)
  /\ buses' = buses \ {r}
  /\ calls' = calls \cup CallsFor({r}, verdict, Attempts)
  /\ UNCHANGED <<mode, registered, holder, aborted, tracked, told, cut, stops>>

MutConcludeSilently(r, verdict) ==
  /\ run[r] = "live" /\ r \in Agent /\ mode = "up"
  /\ run' = [run EXCEPT ![r] = "settled"]
  /\ store' = EndReq(store, r, verdict, {})
  /\ calls' = calls \cup CallsFor({r}, verdict, Attempts)
  /\ UNCHANGED <<mode, registered, holder, aborted, tracked, buses, told, cut,
                 lost, stops>>

\* The run ends, in .then or in .catch; while the server drains it says nothing.
Conclude(r, verdict) ==
  /\ run[r] = "live" /\ r \in Agent
  /\ run' = [run EXCEPT ![r] = "settled"]
  /\ \/ mode = "draining" /\ UNCHANGED <<store, buses, calls, lost>>
     \/ /\ mode = "up"
        /\ \E failing \in SUBSET {r} :
             Losing(failing) /\ store' = EndReq(store, r, verdict, failing)
        /\ buses' = buses \ {r}
        /\ calls' = calls \cup CallsFor({r}, verdict, Attempts)
  /\ UNCHANGED <<mode, registered, holder, aborted, tracked, told, cut, stops>>

\* Mutant: the session's key is removed whoever holds it.
MutCloseRunEvicts(r) ==
  /\ run[r] = "settled"
  /\ run' = [run EXCEPT ![r] = "closed"]
  /\ registered' = registered \ {r}
  /\ holder' = [holder EXCEPT ![SessionOf[r]] = NoReq]
  /\ tracked' = tracked \ {r}
  /\ UNCHANGED <<mode, store, aborted, buses, hooks, lost, stops>>

\* .finally, after the worktree is released; nothing reads the controller of the
\* run any more.
CloseRun(r) ==
  /\ run[r] = "settled"
  /\ run' = [run EXCEPT ![r] = "closed"]
  /\ aborted' = aborted \ {r}
  /\ registered' = registered \ {r}
  /\ holder' = [holder EXCEPT ![SessionOf[r]] = IF @ = r THEN NoReq ELSE @]
  /\ tracked' = tracked \ {r}
  /\ UNCHANGED <<mode, store, buses, hooks, lost, stops>>

\* The other routes report their end in any case, draining or not.
ConcludePlain(r, verdict) ==
  /\ run[r] = "live" /\ r \in Plain
  /\ run' = [run EXCEPT ![r] = "closed"]
  /\ \E failing \in SUBSET {r} :
       Losing(failing) /\ store' = EndReq(store, r, verdict, failing)
  /\ UNCHANGED <<mode, registered, holder, aborted, tracked, buses, hooks, stops>>

-----------------------------------------------------------------------------
(* Aborting, and the two timers of a run.                                  *)

\* POST /repo/agent/abort, with the id of the request or of its session.
Abort(r) ==
  /\ r \in registered \/ holder[SessionOf[r]] = r
  /\ aborted' = aborted \cup {r}
  /\ UNCHANGED <<mode, store, run, registered, holder, tracked, buses, hooks,
                 lost, stops>>

\* Mutant: the operation is cleaned up before its controller is looked up.
MutBusyTimeoutForgets(r) ==
  /\ r \in tracked
  /\ tracked' = tracked \ {r}
  /\ UNCHANGED <<mode, store, run, registered, holder, aborted, buses, hooks,
                 lost, stops>>

\* startTracking: the run takes too long.
BusyTimeout(r) ==
  /\ r \in tracked
  /\ aborted' = aborted \cup {r}
  /\ tracked' = tracked \ {r}
  /\ UNCHANGED <<mode, store, run, registered, holder, buses, hooks, lost, stops>>

\* The bus outlived its run's permitted time.
BusExpires(r) ==
  /\ r \in buses
  /\ buses' = buses \ {r}
  /\ UNCHANGED <<mode, store, run, registered, holder, aborted, tracked, hooks, lost, stops>>

-----------------------------------------------------------------------------
(* Webhooks.                                                               *)

\* The receiver answers with success.
Delivered(c) ==
  /\ told' = [told EXCEPT ![c.req] = @ \cup {c.verdict}]
  /\ calls' = calls \ {c}
  /\ UNCHANGED <<mode, store, live, lost, cut, stops>>

\* It does not, whether it got the call or not: try again, or give up.
DeliveryFails(c) ==
  /\ told' = told \/ told' = [told EXCEPT ![c.req] = @ \cup {c.verdict}]
  /\ IF c.left > 1
     THEN calls' = (calls \ {c}) \cup {[c EXCEPT !.left = @ - 1]} /\ UNCHANGED cut
     ELSE calls' = calls \ {c} /\ cut' = cut \cup {c.req}
  /\ UNCHANGED <<mode, store, live, lost, stops>>

-----------------------------------------------------------------------------
(* The process.                                                            *)

\* SIGTERM: drainForShutdown fails what is pending and tries each webhook once.
Shutdown ==
  /\ mode = "up" /\ stops < MaxStops
  /\ mode' = "draining"
  /\ stops' = stops + 1
  /\ \E failing \in SUBSET Pending(store) :
       Losing(failing) /\ store' = FailPendingReqs(store, failing)
  /\ calls' = calls \cup CallsFor(Pending(store) \cap Orphans(store), "orphaned", 1)
  /\ UNCHANGED <<live, told, cut>>

\* The process ends, and everything in its memory with it.
ProcessEnds ==
  /\ mode' = "down"
  /\ run' = [r \in Req |-> IF run[r] = "none" THEN "none" ELSE "closed"]
  /\ registered' = {}
  /\ holder' = [s \in Session |-> NoReq]
  /\ aborted' = {}
  /\ tracked' = {}
  /\ buses' = {}
  /\ cut' = cut \cup { c.req : c \in calls }
  /\ calls' = {}
  /\ UNCHANGED told

\* The drain is done, or its deadline passed.
Exit ==
  /\ mode = "draining"
  /\ ProcessEnds
  /\ store' = Forget(store)
  /\ UNCHANGED <<lost, stops>>

\* The process is killed, maybe while it writes the verdict of a live run.
Crash ==
  /\ mode # "down" /\ stops < MaxStops
  /\ stops' = stops + 1
  /\ ProcessEnds
  /\ \/ store' = Forget(store) /\ UNCHANGED lost
     \/ \E r \in Req :
          /\ run[r] = "live" /\ (mode = "up" \/ r \in Plain)
          /\ Losing({r})
          /\ store' = Forget(WriteToDisk(store, {r}, "torn"))

\* The server comes up again: sweepOrphanedRuns, before any request arrives.
Boot ==
  /\ mode = "down"
  /\ mode' = "up"
  /\ \E failing \in SUBSET Orphans(store), files \in ByAge(store) :
       Losing(failing) /\ store' = SweepOrphanedReqs(store, files, failing)
  /\ calls' = CallsFor(Orphans(store), "orphaned", Attempts)
  /\ UNCHANGED <<live, told, cut, stops>>

-----------------------------------------------------------------------------

Init ==
  /\ mode = "up"
  /\ store = EmptyStore
  /\ run = [r \in Req |-> "none"]
  /\ registered = {}
  /\ holder = [s \in Session |-> NoReq]
  /\ aborted = {}
  /\ tracked = {}
  /\ buses = {}
  /\ calls = {}
  /\ told = [r \in Hooked |-> {}]
  /\ lost = {}
  /\ cut = {}
  /\ stops = 0

Ends(r)      == \E verdict \in {"completed", "failed"} : Conclude(r, verdict)
EndsPlain(r) == \E verdict \in {"completed", "failed"} : ConcludePlain(r, verdict)
Deliver      == \E c \in calls : Delivered(c) \/ DeliveryFails(c)

Next ==
  \/ \E r \in Agent : StartAgent(r) \/ Ends(r) \/ CloseRun(r) \/ Abort(r) \/ BusyTimeout(r)
                      \/ BusExpires(r)
  \/ \E r \in Plain : StartPlain(r) \/ EndsPlain(r)
  \/ Deliver
  \/ Shutdown \/ Exit \/ Crash \/ Boot

Spec == Init /\ [][Next]_vars

\* A run ends (its turns and its git commands are bounded, and it is aborted in
\* the end), the drain has a deadline, and whoever runs the server starts it again.
Fairness ==
  /\ \A r \in Agent : WF_vars(Ends(r))
  /\ WF_vars(Exit) /\ WF_vars(Boot)

FairSpec == Spec /\ Fairness

-----------------------------------------------------------------------------
(* Safety.                                                                 *)

\* The index in memory tells of every request what its file tells, and while the
\* server is up every readable file is in the index, so that it will be evicted.
IndexAgreesWithDisk ==
  LET known == { store.order[i] : i \in DOMAIN store.order }
  IN  mode # "down" =>
        /\ \A r \in Req : store.meta[r] # "none" <=> r \in known
        /\ \A r \in known \ lost : store.meta[r] = MetaOf(store.file[r])
        /\ mode = "up" => { r \in Req : store.file[r] \notin {"none", "torn"} } \subseteq known

\* Whatever superseded or ended before: of the runs of a session at most one goes
\* on unaborted, and the session's id, like its own, aborts that one.
SessionHeldByLive ==
  \A r \in Agent :
    run[r] = "live" /\ r \notin aborted =>
      r \in registered /\ holder[SessionOf[r]] = r

\* The busy tracker counts no run that is over, and a run that it stopped
\* counting has been aborted.
BusyCoversLive ==
  \A r \in Agent :
    /\ r \in tracked => run[r] \in {"live", "settled"}
    /\ run[r] = "live" /\ r \notin tracked => r \in aborted

\* The webhook of a request never hears anything but the verdict on record, be
\* it from its own run, from the drain or from the sweep after a restart.
CallerHearsTheRecord ==
  \A r \in Hooked \ lost :
    /\ Cardinality(told[r]) <= 1
    /\ store.file[r] # "none" => told[r] \subseteq {store.file[r]}

\* A request that has its verdict has told its webhook, or is about to, unless
\* every try failed or the process stopped meanwhile.
NoticeOwed ==
  \A r \in Hooked \ lost :
    store.file[r] \in Verdict =>
      told[r] # {} \/ r \in cut \/ \E c \in calls : c.req = r

\* A running server removes no file of a pending request, and lets its index
\* grow past MAX_REQS only when everything in it is pending.
CapRespected ==
  [][ mode # "down" =>
        /\ \A r \in Req \ lost : store.file[r] = "pending" => store'.file[r] # "none"
        /\ Len(store.order) >= MaxReqs /\ Len(store'.order) > Len(store.order) =>
             \A i \in DOMAIN store.order : store.meta[store.order[i]] = "pending" ]_vars

-----------------------------------------------------------------------------
(* Liveness.                                                               *)

\* No agent request stays pending: its run ends, the drain fails it, or the next
\* start of the server does.
RecordSettles ==
  \A r \in Agent :
    store.file[r] = "pending" ~> store.file[r] # "pending" \/ r \in lost

\* GET /events/:request_id ends for every client that asked for a run in time.
StreamsClose == \A r \in Agent : r \in buses ~> r \notin buses

-----------------------------------------------------------------------------
(* Refinement.                                                             *)

StatusOf(r) ==
  IF r \in lost THEN "lost"
  ELSE IF run[r] = "none" THEN "absent"
  ELSE IF store.file[r] = "none" THEN "forgotten"
  ELSE store.file[r]

Status == INSTANCE RequestStatus
            WITH Req <- Agent, status <- [r \in Agent |-> StatusOf(r)]

\* Every agent request keeps the verdict it gets, across drains and restarts.
StatusSpec == Status!Spec

=============================================================================
