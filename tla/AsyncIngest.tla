---------------------------- MODULE AsyncIngest ----------------------------
(***************************************************************************)
(* The standalone server's long requests (standalone/src/handlers/ingest.rs*)
(* busy.rs, handlers/status.rs, webhook.rs): one flag admits one request   *)
(* at a time, a task of its own does the work, a second task forwards the  *)
(* server's progress broadcasts into the request's entry of the status     *)
(* map, and the verdict goes to a webhook.  The work itself is GraphSync.  *)
(*                                                                         *)
(* kind: "ingest" and "sync" answer with a request id and work in the      *)
(* background; "direct" is a route behind busy_middleware, whose work is   *)
(* the handler itself and dies with its connection.                        *)
(***************************************************************************)
EXTENDS Naturals, Sequences, FiniteSets

CONSTANTS Request,
          Call,         \* the inputs of requests
          MaxUpdates,   \* progress broadcasts of one request
          MaxRetries,   \* WEBHOOK_MAX_RETRIES
          Capacity,     \* of the broadcast channel
          None

CallType == [kind : {"ingest", "sync", "direct"}, callback : BOOLEAN]
ASSUME IngestAssumption ==
  /\ Call \subseteq CallType
  /\ MaxUpdates \in Nat /\ MaxRetries \in Nat /\ Capacity \in Nat \ {0}
  /\ None \notin Request \cup {"in_progress", "complete", "failed"}

VARIABLES busy,       \* AppState.busy
          mapLock,    \* the task that keeps the status map's mutex over a webhook
          entry,      \* AppState.async_status: of each request id
          task,       \* the handler and the background task of each request
          inbox,      \* the broadcasts a request's forwarder has not handled
          told,       \* what reached the request's webhook receiver
          asking      \* a GET /status waits to read the map

vars == <<busy, mapLock, entry, task, inbox, told, asking>>

Verdict == {"complete", "failed"}
Update == [of : Request, kind : {"progress"} \cup Verdict]
Entry == [status : {None, "in_progress"} \cup Verdict,
          shown : Update \cup {None}]
At == {"new", "acquiring", "registering", "working", "recording", "posting",
       "closing", "done", "rejected", "refused", "gone", "panicked"}

TypeOK ==
  /\ busy \in BOOLEAN
  /\ mapLock \in Request \cup {None}
  /\ entry \in [Request -> Entry]
  /\ task \in [Request -> [call : Call, at : At, verdict : {None} \cup Verdict,
                           sent : 0..MaxUpdates, tries : 0..MaxRetries + 1, deaf : BOOLEAN]]
  /\ inbox \in [Request -> UNION {[1..n -> Update] : n \in 0..Capacity}]
  /\ told \in [Request -> SUBSET Verdict]
  /\ asking \in BOOLEAN

Init ==
  /\ busy = FALSE
  /\ mapLock = None
  /\ entry = [r \in Request |-> [status |-> None, shown |-> None]]
  /\ task \in [Request -> {[call |-> c, at |-> IF c.kind = "direct" THEN "acquiring" ELSE "new",
                            verdict |-> None, sent |-> 0, tries |-> 0, deaf |-> FALSE] : c \in Call}]
  /\ inbox = [r \in Request |-> <<>>]
  /\ told = [r \in Request |-> {}]
  /\ asking = FALSE

-----------------------------------------------------------------------------

Goes(r, to) == task' = [task EXCEPT ![r].at = to]
Kind(r) == task[r].call.kind
MapFree == mapLock = None

\* Mutant: the receiver is subscribed before the flag is taken.
MutListening(r) == /\ Kind(r) # "direct" /\ ~task[r].deaf
                   /\ task[r].at \notin {"new", "rejected", "refused", "gone"}

\* Receivers subscribed to the broadcasts, whose forwarder has not died.
Listening(r) == /\ Kind(r) # "direct" /\ ~task[r].deaf
                /\ task[r].at \notin {"new", "acquiring", "rejected", "refused", "gone"}

\* tx.send: every receiver gets the update; one that falls behind by the
\* channel's capacity gets Lagged instead, and its forwarding loop ends.
Overflows(r) == Listening(r) /\ Len(inbox[r]) = Capacity
Broadcast(u) ==
  inbox' = [r \in Request |-> IF Overflows(r) THEN <<>>
                              ELSE IF Listening(r) THEN Append(inbox[r], u) ELSE inbox[r]]
Deafened(t) == [r \in Request |-> [t[r] EXCEPT !.deaf = @ \/ Overflows(r)]]
Quiet == UNCHANGED inbox

\* Credentials are checked before anything is taken; ingest_async also
\* broadcasts its refusal.
Validates(r) ==
  /\ task[r].at = "new"
  /\ \/ Goes(r, "acquiring") /\ Quiet
     \/ Kind(r) = "sync" /\ Goes(r, "refused") /\ Quiet
     \/ /\ Kind(r) = "ingest"
        /\ Broadcast([of |-> r, kind |-> "failed"])
        /\ task' = Deafened([task EXCEPT ![r].at = "refused"])
  /\ UNCHANGED <<busy, mapLock, entry, told, asking>>

\* BusyGuard::try_new compares and exchanges; the receiver is subscribed in
\* the same poll of the handler.
Acquires(r) ==
  /\ task[r].at = "acquiring"
  /\ IF busy THEN Goes(r, "rejected") /\ UNCHANGED busy
     ELSE busy' = TRUE /\ Goes(r, IF Kind(r) = "direct" THEN "working" ELSE "registering")
  /\ UNCHANGED <<mapLock, entry, inbox, told, asking>>

\* The entry is made before the id is answered and the tasks are spawned.
Registers(r) ==
  /\ task[r].at = "registering" /\ MapFree
  /\ entry' = [entry EXCEPT ![r] = [status |-> "in_progress", shown |-> None]]
  /\ Goes(r, "working")
  /\ UNCHANGED <<busy, mapLock, inbox, told, asking>>

\* Mutant: the flag is reset at the end of the work, not by a guard.
MutHangsUp(r) ==
  /\ task[r].at = "registering" \/ (task[r].at = "working" /\ Kind(r) = "direct")
  /\ task' = [task EXCEPT ![r].at = "gone"]
  /\ inbox' = [inbox EXCEPT ![r] = <<>>]
  /\ UNCHANGED <<busy, mapLock, entry, told, asking>>

\* The client hangs up while its handler waits: the handler is dropped, and
\* the guard with it.
HangsUp(r) ==
  /\ task[r].at = "registering" \/ (task[r].at = "working" /\ Kind(r) = "direct")
  /\ task' = [task EXCEPT ![r].at = "gone"]
  /\ inbox' = [inbox EXCEPT ![r] = <<>>]
  /\ busy' = FALSE
  /\ UNCHANGED <<mapLock, entry, told, asking>>

Works(r) ==
  /\ task[r].at = "working" /\ task[r].sent < MaxUpdates
  /\ Broadcast([of |-> r, kind |-> "progress"])
  /\ task' = Deafened([task EXCEPT ![r].sent = @ + 1])
  /\ UNCHANGED <<busy, mapLock, entry, told, asking>>

\* The work returns or, in the background, its deadline drops it, which
\* counts as a failure; ingest broadcasts its completion itself.
Ends(r) ==
  /\ task[r].at = "working"
  /\ \E v \in Verdict :
       LET t == [task EXCEPT ![r].verdict = v,
                             ![r].at = IF Kind(r) = "direct" THEN "closing" ELSE "recording"] IN
       IF Kind(r) # "sync" /\ v = "complete"
       THEN Broadcast([of |-> r, kind |-> v]) /\ task' = Deafened(t)
       ELSE Quiet /\ task' = t
  /\ UNCHANGED <<busy, mapLock, entry, told, asking>>

\* A panic in the work ends the task: the guard is dropped, nothing recorded.
Panics(r) ==
  /\ task[r].at = "working"
  /\ Goes(r, "panicked")
  /\ busy' = FALSE
  /\ UNCHANGED <<mapLock, entry, inbox, told, asking>>

\* The verdict replaces the entry; with a callback the mutex stays taken
\* until the webhook is answered or given up.  A failed ingest broadcasts.
Records(r) ==
  /\ task[r].at = "recording" /\ MapFree
  /\ LET v == task[r].verdict
         t == [task EXCEPT ![r].at = IF task[r].call.callback THEN "posting" ELSE "closing"] IN
     /\ entry' = [entry EXCEPT ![r] = [status |-> v, shown |-> [of |-> r, kind |-> v]]]
     /\ mapLock' = IF task[r].call.callback THEN r ELSE None
     /\ IF Kind(r) = "ingest" /\ v = "failed"
        THEN Broadcast([of |-> r, kind |-> "failed"]) /\ task' = Deafened(t)
        ELSE Quiet /\ task' = t
  /\ UNCHANGED <<busy, told, asking>>

\* One attempt of send_with_retries.  It may be received and yet count as
\* failed, when the answer is late or lost.
Posts(r) ==
  /\ task[r].at = "posting" /\ task[r].tries <= MaxRetries
  /\ \E reached \in BOOLEAN, answer \in {"ok", "retry", "refused"} :
       /\ answer # "retry" => reached
       /\ told' = IF reached THEN [told EXCEPT ![r] = @ \cup {task[r].verdict}] ELSE told
       /\ LET over == answer # "retry" \/ task[r].tries = MaxRetries IN
          /\ task' = [task EXCEPT ![r].tries = @ + 1, ![r].at = IF over THEN "closing" ELSE @]
          /\ mapLock' = IF over THEN None ELSE mapLock
  /\ UNCHANGED <<busy, entry, inbox, asking>>

\* WEBHOOK_SECRET is missing, or the callback is no absolute URL.
PostsNothing(r) ==
  /\ task[r].at = "posting" /\ task[r].tries = 0
  /\ Goes(r, "closing")
  /\ mapLock' = None
  /\ UNCHANGED <<busy, entry, inbox, told, asking>>

\* The guard is dropped after the mutex.
Drops(r) ==
  /\ task[r].at = "closing"
  /\ Goes(r, "done")
  /\ busy' = FALSE
  /\ UNCHANGED <<mapLock, entry, inbox, told, asking>>

\* Mutants: the forwarder puts a whole entry in the map, with the status the
\* update speaks of, or as a request in progress.
MutForwards(r) ==
  /\ inbox[r] # <<>> /\ task[r].at # "registering" /\ MapFree
  /\ inbox' = [inbox EXCEPT ![r] = Tail(@)]
  /\ entry' = [entry EXCEPT ![r] =
       [status |-> IF Head(inbox[r]).kind \in Verdict THEN Head(inbox[r]).kind ELSE @.status,
        shown |-> Head(inbox[r])]]
  /\ UNCHANGED <<busy, mapLock, task, told, asking>>
MutForwardsAnew(r) ==
  /\ inbox[r] # <<>> /\ task[r].at # "registering" /\ MapFree
  /\ inbox' = [inbox EXCEPT ![r] = Tail(@)]
  /\ entry' = [entry EXCEPT ![r] = [status |-> "in_progress", shown |-> Head(inbox[r])]]
  /\ UNCHANGED <<busy, mapLock, task, told, asking>>

\* The forwarder of r, which outlives the request.  What it has received and
\* not yet written stays at the head of the inbox: nobody else reads there.
Forwards(r) ==
  /\ inbox[r] # <<>> /\ task[r].at # "registering" /\ MapFree
  /\ inbox' = [inbox EXCEPT ![r] = Tail(@)]
  /\ entry' = [entry EXCEPT ![r].shown = Head(inbox[r])]
  /\ UNCHANGED <<busy, mapLock, task, told, asking>>

Asks ==
  /\ ~asking
  /\ asking' = TRUE
  /\ UNCHANGED <<busy, mapLock, entry, task, inbox, told>>

Answers ==
  /\ asking /\ MapFree
  /\ asking' = FALSE
  /\ UNCHANGED <<busy, mapLock, entry, task, inbox, told>>

\* The work of a route behind busy_middleware, which has no deadline.
AtWorkDirectly(r) == Kind(r) = "direct" /\ task[r].at = "working"

\* What a request does next, as far as nothing but the runtime holds it up.
Progresses(r) ==
  \/ Registers(r) \/ (Ends(r) /\ ~AtWorkDirectly(r))
  \/ Records(r) \/ Posts(r) \/ Drops(r)

Next ==
  \/ \E r \in Request :
       \/ Validates(r) \/ Acquires(r) \/ HangsUp(r) \/ Works(r) \/ Panics(r)
       \/ Registers(r) \/ Ends(r) \/ Records(r) \/ Posts(r) \/ PostsNothing(r)
       \/ Drops(r) \/ Forwards(r)
  \/ Asks \/ Answers

Spec == Init /\ [][Next]_vars

\* The runtime polls every task that can run; the work has a deadline in the
\* background, and none in a handler; the mutex of the map is fair, so whoever
\* waits for it gets it.
FairSpec == /\ Spec
            /\ \A r \in Request : SF_vars(Progresses(r))
            /\ SF_vars(Answers)

-----------------------------------------------------------------------------

Holders == {r \in Request : task[r].at \in {"registering", "working", "recording",
                                            "posting", "closing"}}

\* Over every way to leave (answer, rejection, hang-up, panic, timeout), the
\* flag is set exactly while one request is inside: busy_middleware and the
\* asynchronous routes exclude each other, and nobody leaves it set.
OneAtATime == /\ busy <=> Holders # {}
              /\ \A r, s \in Holders : r = s
              /\ mapLock # None => mapLock \in Holders

\* While a request is at work, /status shows its own progress, although all
\* share one channel and forwarders outlive their requests; the one
\* exception are the refusals that ingest_async broadcasts.
ProgressIsOwn ==
  \A r \in Holders : LET u == entry[r].shown IN
    u # None => u.of = r \/ (u.kind = "failed" /\ task[u.of].at = "refused")

\* What a webhook receiver hears is one verdict, the one that /status gives
\* from before the first attempt on, whatever is broadcast meanwhile.
WebhookTellsRecord ==
  \A r \in Request : /\ told[r] \subseteq {entry[r].status}
                     /\ entry[r].status \in Verdict => entry[r].status = task[r].verdict

\* /status refines the record of a request: pending, then one verdict.
PromisedStatus ==
  [r \in Request |->
     CASE entry[r].status = None -> "absent"
       [] entry[r].status = "in_progress" -> "pending"
       [] entry[r].status = "complete" -> "completed"
       [] OTHER -> "failed"]
Promise == INSTANCE RequestStatus WITH Req <- Request, status <- PromisedStatus
StatusSpec == Promise!Spec

\* The server does not stay busy, unless over a request that works in its
\* handler: only that has no deadline, and no other way to leave (rejection,
\* hang-up, panic, a webhook that never answers) keeps the flag.  A status
\* request is answered, although the map is locked while a webhook is retried.
ServerFrees == /\ busy ~> (~busy \/ \E r \in Request : AtWorkDirectly(r))
               /\ asking ~> ~asking

=============================================================================
