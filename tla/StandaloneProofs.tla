------------------------- MODULE StandaloneProofs --------------------------
(***************************************************************************)
(* The standalone server.                                                  *)
(*                                                                         *)
(* Its requests (AsyncIngest): one at a time, its own progress, one        *)
(* verdict, for any requests, calls, numbers of updates and retries, and   *)
(* capacity of the channel.  The properties need each other: that a        *)
(* request sees its own progress rests on being alone, and what the        *)
(* webhook tells on how far the request has come.                          *)
(*                                                                         *)
(* What a request does to the graph (GraphSync): the stored hash and the   *)
(* marks of users, for any files, texts, histories and numbers of jobs cut *)
(* short.  HashBacked needs to know, at each stage of a job, what the job  *)
(* has made of the files in hand, and why what it leaves alone is right    *)
(* already: the files in hand include all that changed since the stored    *)
(* hash.                                                                   *)
(***************************************************************************)
EXTENDS AsyncIngest, GraphSync, SequenceTheorems, TLAPS

-----------------------------------------------------------------------------
(* Requests.                                                               *)

Tasks == [call : CallType, at : At, verdict : {None} \cup Verdict,
          sent : Nat, tries : Nat, deaf : BOOLEAN]

Typed ==
  /\ busy \in BOOLEAN
  /\ mapLock \in Request \cup {None}
  /\ entry \in [Request -> Entry]
  /\ task \in [Request -> Tasks]
  /\ inbox \in [Request -> Seq(Update)]
  /\ told \in [Request -> SUBSET Verdict]

\* OneAtATime, without the set of the holders.
InsideAt == {"registering", "working", "recording", "posting", "closing"}
Alone ==
  /\ busy => \E r \in Request : task[r].at \in InsideAt
  /\ \A r \in Request : task[r].at \in InsideAt => busy
  /\ \A r, s \in Request : task[r].at \in InsideAt /\ task[s].at \in InsideAt => r = s
  /\ mapLock # None => mapLock \in Request /\ task[mapLock].at = "posting"

\* How far a request has come, and what is recorded and told of it.
Course(r) ==
  /\ task[r].at \in {"new", "acquiring", "registering"} => entry[r].status = None
  /\ task[r].at \in {"working", "recording"} /\ Kind(r) # "direct" => entry[r].status = "in_progress"
  /\ task[r].at \in {"recording", "posting"} => Kind(r) # "direct" /\ task[r].verdict \in Verdict
  /\ task[r].at = "posting" => entry[r].status = task[r].verdict /\ mapLock = r
  /\ task[r].at \notin {"posting", "closing", "done"} => told[r] = {} /\ entry[r].status \notin Verdict
  /\ told[r] \subseteq {entry[r].status}
  /\ entry[r].status \in Verdict => entry[r].status = task[r].verdict
Courses == \A r \in Request : Course(r)

Own(r, u) == u.of = r \/ (u.kind = "failed" /\ task[u.of].at = "refused")

\* What waits for the forwarder of a request inside is as good as what it
\* has forwarded; a request that has not come in has heard nothing.
Inboxes ==
  \A r \in Request :
    /\ task[r].at \in {"new", "acquiring"} => inbox[r] = <<>> /\ entry[r].shown = None
    /\ task[r].at = "registering" => entry[r].shown = None
    /\ task[r].at \in InsideAt => \A i \in 1..Len(inbox[r]) : Own(r, inbox[r][i])
Shown ==
  \A r \in Request :
    task[r].at \in InsideAt /\ entry[r].shown # None => Own(r, entry[r].shown)

IInv == Typed /\ Alone /\ Courses /\ Inboxes /\ Shown

-----------------------------------------------------------------------------

\* What a step does to r's own task; deaf does not matter, nor do others.
Moved(r, to, v) ==
  /\ task' \in [Request -> Tasks]
  /\ \A s \in Request : task'[s].call = task[s].call
  /\ \A s \in Request \ {r} : task'[s].at = task[s].at /\ task'[s].verdict = task[s].verdict
  /\ task'[r].at = to /\ task'[r].verdict = v

LEMMA GoesEffect ==
  ASSUME Typed, NEW r \in Request, NEW to \in At, Goes(r, to)
  PROVE  Moved(r, to, task[r].verdict)
BY DEF Typed, Tasks, At, CallType, Goes, Moved

\* A broadcast reaches some inboxes, and empties those that are full.
LEMMA BroadcastEffect ==
  ASSUME Typed, NEW u \in Update, Broadcast(u)
  PROVE  /\ inbox' \in [Request -> Seq(Update)]
         /\ \A r \in Request :
              /\ task[r].at \in {"new", "acquiring"} => inbox'[r] = inbox[r]
              /\ \A i \in 1..Len(inbox'[r]) :
                   inbox'[r][i] = u \/ (i \in 1..Len(inbox[r]) /\ inbox'[r][i] = inbox[r][i])
<1>1. inbox \in [Request -> Seq(Update)] /\ task \in [Request -> Tasks]
  BY DEF Typed
<1>2. ASSUME NEW r \in Request
      PROVE  /\ inbox'[r] \in Seq(Update)
             /\ task[r].at \in {"new", "acquiring"} => inbox'[r] = inbox[r]
             /\ \A i \in 1..Len(inbox'[r]) :
                  inbox'[r][i] = u \/ (i \in 1..Len(inbox[r]) /\ inbox'[r][i] = inbox[r][i])
  <2>1. CASE inbox'[r] = <<>> /\ Overflows(r)
    BY <1>1, <2>1 DEF Overflows, Listening
  <2>2. CASE inbox'[r] = Append(inbox[r], u) /\ Listening(r)
    BY <1>1, <2>2 DEF Listening
  <2>3. CASE inbox'[r] = inbox[r]
    BY <1>1, <2>3
  <2> QED BY <2>1, <2>2, <2>3 DEF Broadcast
<1>3. inbox' \in [Request -> Seq(Update)]
  BY <1>2 DEF Broadcast
<1> QED BY <1>2, <1>3

\* Becoming deaf changes nothing else of a task.
LEMMA DeafenedEffect ==
  ASSUME Typed, NEW t \in [Request -> Tasks], task' = Deafened(t)
  PROVE  /\ task' \in [Request -> Tasks]
         /\ \A r \in Request : /\ task'[r].at = t[r].at /\ task'[r].call = t[r].call
                               /\ task'[r].verdict = t[r].verdict
<1>1. \A r \in Request : /\ task'[r] = [t[r] EXCEPT !.deaf = t[r].deaf \/ Overflows(r)]
                         /\ t[r] \in Tasks /\ t[r].deaf \in BOOLEAN
  BY DEF Deafened, Tasks
<1>2. ASSUME NEW r \in Request
      PROVE  /\ task'[r] \in Tasks /\ task'[r].at = t[r].at /\ task'[r].call = t[r].call
             /\ task'[r].verdict = t[r].verdict
  <2>1. Overflows(r) \in BOOLEAN
    BY DEF Overflows
  <2>2. PICK d \in BOOLEAN : task'[r] = [t[r] EXCEPT !.deaf = d]
    BY <1>1, <2>1
  <2> QED BY <1>1, <2>2 DEF Tasks
<1>3. task' \in [Request -> Tasks]
  BY <1>2 DEF Deafened
<1> QED BY <1>2, <1>3

-----------------------------------------------------------------------------

LEMMA DeafenedMoved ==
  ASSUME Typed, NEW r \in Request, NEW to \in At, NEW v \in {None} \cup Verdict, NEW t,
         \/ t = [task EXCEPT ![r].verdict = v, ![r].at = to]
         \/ t = [task EXCEPT ![r].at = to] /\ v = task[r].verdict,
         task' = t \/ task' = Deafened(t)
  PROVE  Moved(r, to, v)
<1>1. task \in [Request -> Tasks]
  BY DEF Typed
<1>2. PICK x \in Tasks : /\ t = [task EXCEPT ![r] = x]
                         /\ x.call = task[r].call /\ x.at = to /\ x.verdict = v
  <2>1. CASE t = [task EXCEPT ![r].verdict = v, ![r].at = to]
    <3>1. PICK x : x = [task[r] EXCEPT !.verdict = v, !.at = to]
      OBVIOUS
    <3>2. x \in Tasks /\ x.call = task[r].call /\ x.at = to /\ x.verdict = v
      BY <1>1, <3>1 DEF Tasks
    <3>3. t = [task EXCEPT ![r] = x]
      BY <1>1, <2>1, <3>1
    <3> QED BY <3>2, <3>3
  <2>2. CASE t = [task EXCEPT ![r].at = to] /\ v = task[r].verdict
    <3>1. PICK x : x = [task[r] EXCEPT !.at = to]
      OBVIOUS
    <3>2. x \in Tasks /\ x.call = task[r].call /\ x.at = to /\ x.verdict = v
      BY <1>1, <2>2, <3>1 DEF Tasks
    <3>3. t = [task EXCEPT ![r] = x]
      BY <1>1, <2>2, <3>1
    <3> QED BY <3>2, <3>3
  <2> QED BY <2>1, <2>2
<1>3. t \in [Request -> Tasks]
  BY <1>1, <1>2
<1>4. /\ \A s \in Request : t[s].call = task[s].call
      /\ \A s \in Request \ {r} : t[s].at = task[s].at /\ t[s].verdict = task[s].verdict
      /\ t[r].at = to /\ t[r].verdict = v
  BY <1>1, <1>2
<1> QED BY <1>3, <1>4, DeafenedEffect DEF Moved

\* What is told of the others does not change.
LEMMA OthersCourse ==
  ASSUME NEW r \in Request, NEW to, NEW v, Moved(r, to, v), NEW s \in Request \ {r}, Course(s),
         entry'[s].status = entry[s].status, told'[s] = told[s], mapLock = s => mapLock' = s
  PROVE  Course(s)'
BY DEF Course, Kind, Moved

\* Updates that were fit for a request stay so: a refusal is final.
LEMMA OwnStays ==
  ASSUME NEW r \in Request, NEW to, NEW v, Moved(r, to, v), task[r].at = "refused" => to = "refused",
         NEW s, NEW u \in Update, Own(s, u)
  PROVE  u.of = s \/ (u.kind = "failed" /\ task'[u.of].at = "refused")
BY DEF Own, Moved, Update

\* A step after which every request inside has heard, and shows, what it did
\* before or what is fit for it.
Fit(s, u) == u.of = s \/ (u.kind = "failed" /\ task'[u.of].at = "refused")
LEMMA HearsOwn ==
  ASSUME Typed, Inboxes, Shown, NEW r \in Request, NEW to, NEW v, Moved(r, to, v),
         task[r].at = "refused" => to = "refused",
         to \in {"new", "acquiring"} => task[r].at \in {"new", "acquiring"},
         to \in InsideAt => task[r].at \in InsideAt \cup {"acquiring"},
         to = "registering" => task[r].at \in {"acquiring", "registering"},
         \A s \in Request : task[s].at \in {"new", "acquiring"} => inbox'[s] = inbox[s],
         \A s \in Request : task'[s].at \in InsideAt => \A i \in 1..Len(inbox'[s]) :
           \/ \E j \in 1..Len(inbox[s]) : inbox'[s][i] = inbox[s][j]
           \/ Fit(s, inbox'[s][i]),
         \A s \in Request :
           \/ entry'[s].shown \in {None, entry[s].shown}
           \/ /\ task'[s].at \notin {"new", "acquiring", "registering"}
              /\ task'[s].at \in InsideAt => Fit(s, entry'[s].shown)
  PROVE  Inboxes' /\ Shown'
<1>1. ASSUME NEW s \in Request, NEW i \in 1..Len(inbox'[s]), task'[s].at \in InsideAt
      PROVE  Fit(s, inbox'[s][i])
  <2>1. ASSUME NEW j \in 1..Len(inbox[s]), inbox'[s][i] = inbox[s][j]
        PROVE  Fit(s, inbox'[s][i])
    <3>1. inbox[s][j] \in Update
      BY DEF Typed
    <3>2. Own(s, inbox[s][j])
      <4>1. task[s].at \in InsideAt \/ inbox[s] = <<>>
        BY <1>1 DEF Inboxes, Moved
      <4> QED BY <4>1 DEF Inboxes
    <3> QED BY <2>1, <3>1, <3>2, OwnStays DEF Fit
  <2> QED BY <1>1, <2>1
<1>2. Inboxes'
  BY <1>1 DEF Inboxes, Moved, Own, Fit
<1>3. ASSUME NEW s \in Request, task'[s].at \in InsideAt, entry'[s].shown # None
      PROVE  Fit(s, entry'[s].shown)
  <2>1. CASE entry'[s].shown = entry[s].shown
    <3>1. entry[s].shown \in Update
      BY <1>3, <2>1 DEF Typed, Entry
    <3>2. task[s].at \in InsideAt
      BY <1>3, <2>1 DEF Moved, Inboxes, InsideAt
    <3>3. Own(s, entry[s].shown)
      BY <1>3, <2>1, <3>2 DEF Shown
    <3> QED BY <2>1, <3>1, <3>3, OwnStays DEF Fit
  <2> QED BY <1>3, <2>1
<1>4. Shown'
  BY <1>3 DEF Shown, Own, Fit
<1> QED BY <1>2, <1>4

\* In particular one that leaves inboxes and entries alone.
LEMMA HearsNothing ==
  ASSUME Typed, Inboxes, Shown, NEW r \in Request, NEW to, NEW v, Moved(r, to, v),
         task[r].at = "refused" => to = "refused",
         to \in {"new", "acquiring"} => task[r].at \in {"new", "acquiring"},
         to \in InsideAt => task[r].at \in InsideAt \cup {"acquiring"},
         to = "registering" => task[r].at \in {"acquiring", "registering"},
         UNCHANGED inbox, \A s \in Request : entry'[s].shown \in {None, entry[s].shown}
  PROVE  Inboxes' /\ Shown'
BY HearsOwn

LEMMA AcquiresStep ==
  ASSUME IInv, NEW r \in Request, Acquires(r)
  PROVE  IInv'
<1>1. /\ task[r].at = "acquiring" /\ UNCHANGED <<mapLock, entry, inbox, told>>
      /\ \/ busy /\ busy' = busy /\ Moved(r, "rejected", task[r].verdict)
         \/ ~busy /\ busy' /\ busy' \in BOOLEAN /\ Kind(r) = "direct" /\ Moved(r, "working", task[r].verdict)
         \/ ~busy /\ busy' /\ busy' \in BOOLEAN /\ Kind(r) # "direct" /\ Moved(r, "registering", task[r].verdict)
  BY GoesEffect DEF IInv, Acquires, At
<1>2. Typed'
  BY <1>1 DEF IInv, Typed, Moved, Entry, Update
<1>3. Alone'
  BY <1>1 DEF IInv, Typed, Alone, InsideAt, Moved
<1>4. ASSUME NEW s \in Request PROVE Course(s)'
  <2>1. Course(s) /\ Course(r)
    BY DEF IInv, Courses
  <2>2. CASE s # r
    BY <1>1, <2>1, <2>2, OthersCourse DEF IInv, Typed, Alone, InsideAt
  <2>3. CASE s = r
    BY <1>1, <2>1, <2>3 DEF IInv, Typed, Tasks, Course, Kind, Moved, Verdict, Entry
  <2> QED BY <2>2, <2>3
<1>5. Inboxes' /\ Shown'
  <2>1. Typed /\ Inboxes /\ Shown
    BY DEF IInv
  <2>2. UNCHANGED inbox /\ \A s \in Request : entry'[s].shown \in {None, entry[s].shown}
    BY <1>1, <2>1 DEF Typed
  <2>3. PICK to, v : /\ Moved(r, to, v)
                     /\ task[r].at = "refused" => to = "refused"
                     /\ to \in {"new", "acquiring"} => task[r].at \in {"new", "acquiring"}
                     /\ to \in InsideAt => task[r].at \in InsideAt \cup {"acquiring"}
                     /\ to = "registering" => task[r].at \in {"acquiring", "registering"}
    BY <1>1 DEF InsideAt
  <2> QED BY <2>1, <2>2, <2>3, HearsNothing
<1> QED BY <1>2, <1>3, <1>4, <1>5 DEF IInv, Courses

LEMMA RegistersStep ==
  ASSUME IInv, NEW r \in Request, Registers(r)
  PROVE  IInv'
<1>1. /\ task[r].at = "registering" /\ mapLock = None /\ UNCHANGED <<busy, mapLock, inbox, told>>
      /\ entry' = [entry EXCEPT ![r] = [status |-> "in_progress", shown |-> None]]
      /\ Moved(r, "working", task[r].verdict)
  BY GoesEffect DEF IInv, Registers, At, MapFree
<1>2. Typed'
  BY <1>1 DEF IInv, Typed, Moved, Entry, Update
<1>3. Alone'
  BY <1>1 DEF IInv, Typed, Alone, InsideAt, Moved
<1>4. ASSUME NEW s \in Request PROVE Course(s)'
  <2>1. Course(s) /\ Course(r)
    BY DEF IInv, Courses
  <2>2. CASE s # r
    BY <1>1, <2>1, <2>2, OthersCourse DEF IInv, Typed, Alone, InsideAt
  <2>3. CASE s = r
    BY <1>1, <2>1, <2>3 DEF IInv, Typed, Tasks, Course, Kind, Moved, Verdict, Entry
  <2> QED BY <2>2, <2>3
<1>5. Inboxes' /\ Shown'
  <2>1. Typed /\ Inboxes /\ Shown
    BY DEF IInv
  <2>2. UNCHANGED inbox /\ \A s \in Request : entry'[s].shown \in {None, entry[s].shown}
    BY <1>1, <2>1 DEF Typed
  <2>3. PICK to, v : /\ Moved(r, to, v)
                     /\ task[r].at = "refused" => to = "refused"
                     /\ to \in {"new", "acquiring"} => task[r].at \in {"new", "acquiring"}
                     /\ to \in InsideAt => task[r].at \in InsideAt \cup {"acquiring"}
                     /\ to = "registering" => task[r].at \in {"acquiring", "registering"}
    BY <1>1 DEF InsideAt
  <2> QED BY <2>1, <2>2, <2>3, HearsNothing
<1> QED BY <1>2, <1>3, <1>4, <1>5 DEF IInv, Courses

LEMMA HangsUpStep ==
  ASSUME IInv, NEW r \in Request, HangsUp(r)
  PROVE  IInv'
<1>1. /\ \/ task[r].at = "registering"
         \/ task[r].at = "working" /\ Kind(r) = "direct"
      /\ UNCHANGED <<mapLock, entry, told>> /\ ~busy' /\ busy' \in BOOLEAN
      /\ inbox' \in [Request -> Seq(Update)] /\ \A s \in Request \ {r} : inbox'[s] = inbox[s]
      /\ Moved(r, "gone", task[r].verdict)
  <2>1. Moved(r, "gone", task[r].verdict)
    BY GoesEffect DEF IInv, HangsUp, At, Goes
  <2>2. inbox \in [Request -> Seq(Update)]
    BY DEF IInv, Typed
  <2>3. inbox' \in [Request -> Seq(Update)] /\ \A s \in Request \ {r} : inbox'[s] = inbox[s]
    BY <2>2 DEF HangsUp
  <2> QED BY <2>1, <2>3 DEF HangsUp
<1>2. Typed'
  BY <1>1 DEF IInv, Typed, Moved, Entry, Update
<1>3. Alone'
  BY <1>1 DEF IInv, Typed, Alone, InsideAt, Moved
<1>4. ASSUME NEW s \in Request PROVE Course(s)'
  <2>1. Course(s) /\ Course(r)
    BY DEF IInv, Courses
  <2>2. CASE s # r
    BY <1>1, <2>1, <2>2, OthersCourse DEF IInv, Typed, Alone, InsideAt
  <2>3. CASE s = r
    BY <1>1, <2>1, <2>3 DEF IInv, Typed, Tasks, Course, Kind, Moved, Verdict, Entry
  <2> QED BY <2>2, <2>3
<1>5. ASSUME NEW s \in Request, task'[s].at \in InsideAt PROVE FALSE
  BY <1>1, <1>5 DEF IInv, Alone, InsideAt, Moved
<1>6. Inboxes' /\ Shown'
  <2>1. Inboxes
    BY DEF IInv
  <2>2. \A s \in Request : task'[s].at \in {"new", "acquiring"} => s # r /\ task'[s].at = task[s].at
    BY <1>1 DEF Moved
  <2>3. \A s \in Request : task'[s].at # "registering"
    BY <1>5 DEF InsideAt
  <2> QED BY <1>1, <1>5, <2>1, <2>2, <2>3 DEF Inboxes, Shown
<1> QED BY <1>2, <1>3, <1>4, <1>6 DEF IInv, Courses

LEMMA PanicsStep ==
  ASSUME IInv, NEW r \in Request, Panics(r)
  PROVE  IInv'
<1>1. /\ task[r].at = "working" /\ UNCHANGED <<mapLock, entry, inbox, told>>
      /\ ~busy' /\ busy' \in BOOLEAN
      /\ Moved(r, "panicked", task[r].verdict)
  BY GoesEffect DEF IInv, Panics, At
<1>2. Typed'
  BY <1>1 DEF IInv, Typed, Moved, Entry, Update
<1>3. Alone'
  BY <1>1 DEF IInv, Typed, Alone, InsideAt, Moved
<1>4. ASSUME NEW s \in Request PROVE Course(s)'
  <2>1. Course(s) /\ Course(r)
    BY DEF IInv, Courses
  <2>2. CASE s # r
    BY <1>1, <2>1, <2>2, OthersCourse DEF IInv, Typed, Alone, InsideAt
  <2>3. CASE s = r
    BY <1>1, <2>1, <2>3 DEF IInv, Typed, Tasks, Course, Kind, Moved, Verdict, Entry
  <2> QED BY <2>2, <2>3
<1>5. Inboxes' /\ Shown'
  <2>1. Typed /\ Inboxes /\ Shown
    BY DEF IInv
  <2>2. UNCHANGED inbox /\ \A s \in Request : entry'[s].shown \in {None, entry[s].shown}
    BY <1>1, <2>1 DEF Typed
  <2>3. PICK to, v : /\ Moved(r, to, v)
                     /\ task[r].at = "refused" => to = "refused"
                     /\ to \in {"new", "acquiring"} => task[r].at \in {"new", "acquiring"}
                     /\ to \in InsideAt => task[r].at \in InsideAt \cup {"acquiring"}
                     /\ to = "registering" => task[r].at \in {"acquiring", "registering"}
    BY <1>1 DEF InsideAt
  <2> QED BY <2>1, <2>2, <2>3, HearsNothing
<1> QED BY <1>2, <1>3, <1>4, <1>5 DEF IInv, Courses

LEMMA PostsNothingStep ==
  ASSUME IInv, NEW r \in Request, PostsNothing(r)
  PROVE  IInv'
<1>1. /\ task[r].at = "posting" /\ mapLock' = None /\ UNCHANGED <<busy, entry, inbox, told>>
      /\ Moved(r, "closing", task[r].verdict)
  BY GoesEffect DEF IInv, PostsNothing, At
<1>2. Typed'
  BY <1>1 DEF IInv, Typed, Moved, Entry, Update
<1>3. Alone'
  BY <1>1 DEF IInv, Typed, Alone, InsideAt, Moved
<1>4. ASSUME NEW s \in Request PROVE Course(s)'
  <2>1. Course(s) /\ Course(r)
    BY DEF IInv, Courses
  <2>2. CASE s # r
    BY <1>1, <2>1, <2>2, OthersCourse DEF IInv, Typed, Alone, InsideAt
  <2>3. CASE s = r
    BY <1>1, <2>1, <2>3 DEF IInv, Typed, Tasks, Course, Kind, Moved, Verdict, Entry
  <2> QED BY <2>2, <2>3
<1>5. Inboxes' /\ Shown'
  <2>1. Typed /\ Inboxes /\ Shown
    BY DEF IInv
  <2>2. UNCHANGED inbox /\ \A s \in Request : entry'[s].shown \in {None, entry[s].shown}
    BY <1>1, <2>1 DEF Typed
  <2>3. PICK to, v : /\ Moved(r, to, v)
                     /\ task[r].at = "refused" => to = "refused"
                     /\ to \in {"new", "acquiring"} => task[r].at \in {"new", "acquiring"}
                     /\ to \in InsideAt => task[r].at \in InsideAt \cup {"acquiring"}
                     /\ to = "registering" => task[r].at \in {"acquiring", "registering"}
    BY <1>1 DEF InsideAt
  <2> QED BY <2>1, <2>2, <2>3, HearsNothing
<1> QED BY <1>2, <1>3, <1>4, <1>5 DEF IInv, Courses

LEMMA DropsStep ==
  ASSUME IInv, NEW r \in Request, Drops(r)
  PROVE  IInv'
<1>1. /\ task[r].at = "closing" /\ UNCHANGED <<mapLock, entry, inbox, told>>
      /\ ~busy' /\ busy' \in BOOLEAN
      /\ Moved(r, "done", task[r].verdict)
  BY GoesEffect DEF IInv, Drops, At
<1>2. Typed'
  BY <1>1 DEF IInv, Typed, Moved, Entry, Update
<1>3. Alone'
  BY <1>1 DEF IInv, Typed, Alone, InsideAt, Moved
<1>4. ASSUME NEW s \in Request PROVE Course(s)'
  <2>1. Course(s) /\ Course(r)
    BY DEF IInv, Courses
  <2>2. CASE s # r
    BY <1>1, <2>1, <2>2, OthersCourse DEF IInv, Typed, Alone, InsideAt
  <2>3. CASE s = r
    BY <1>1, <2>1, <2>3 DEF IInv, Typed, Tasks, Course, Kind, Moved, Verdict, Entry
  <2> QED BY <2>2, <2>3
<1>5. Inboxes' /\ Shown'
  <2>1. Typed /\ Inboxes /\ Shown
    BY DEF IInv
  <2>2. UNCHANGED inbox /\ \A s \in Request : entry'[s].shown \in {None, entry[s].shown}
    BY <1>1, <2>1 DEF Typed
  <2>3. PICK to, v : /\ Moved(r, to, v)
                     /\ task[r].at = "refused" => to = "refused"
                     /\ to \in {"new", "acquiring"} => task[r].at \in {"new", "acquiring"}
                     /\ to \in InsideAt => task[r].at \in InsideAt \cup {"acquiring"}
                     /\ to = "registering" => task[r].at \in {"acquiring", "registering"}
    BY <1>1 DEF InsideAt
  <2> QED BY <2>1, <2>2, <2>3, HearsNothing
<1> QED BY <1>2, <1>3, <1>4, <1>5 DEF IInv, Courses

LEMMA PostsStep ==
  ASSUME IInv, NEW r \in Request, Posts(r)
  PROVE  IInv'
<1>1. /\ task[r].at = "posting" /\ UNCHANGED <<busy, entry, inbox>>
      /\ told' \in [Request -> SUBSET Verdict]
      /\ told' = told \/ told' = [told EXCEPT ![r] = @ \cup {task[r].verdict}]
      /\ \/ Moved(r, "posting", task[r].verdict) /\ mapLock' = mapLock
         \/ Moved(r, "closing", task[r].verdict) /\ mapLock' = None
  <2>1. PICK reached \in BOOLEAN, answer \in {"ok", "retry", "refused"} : Posts(r)!2!(reached, answer)
    BY DEF Posts
  <2>2. \/ task' = [task EXCEPT ![r].tries = @ + 1, ![r].at = task[r].at] /\ mapLock' = mapLock
        \/ task' = [task EXCEPT ![r].tries = @ + 1, ![r].at = "closing"] /\ mapLock' = None
    BY <2>1 DEF IInv, Typed, Tasks
  <2>3. task[r].at = "posting" /\ UNCHANGED <<busy, entry, inbox>>
    BY DEF Posts
  <2>4. task \in [Request -> Tasks] /\ task[r].tries + 1 \in Nat
    BY DEF IInv, Typed, Tasks
  <2>5. \/ Moved(r, "posting", task[r].verdict) /\ mapLock' = mapLock
        \/ Moved(r, "closing", task[r].verdict) /\ mapLock' = None
    BY <2>2, <2>3, <2>4 DEF Moved, Tasks, At
  <2>6. task[r].verdict \in Verdict /\ told \in [Request -> SUBSET Verdict]
    BY <2>3 DEF IInv, Typed, Courses, Course
  <2>7. told' = told \/ told' = [told EXCEPT ![r] = @ \cup {task[r].verdict}]
    BY <2>1
  <2>8. told' \in [Request -> SUBSET Verdict]
    BY <2>6, <2>7
  <2> QED BY <2>3, <2>5, <2>7, <2>8
<1>2. Typed'
  BY <1>1 DEF IInv, Typed, Moved, Entry, Update
<1>3. Alone'
  BY <1>1 DEF IInv, Typed, Alone, InsideAt, Moved
<1>4. ASSUME NEW s \in Request PROVE Course(s)'
  <2>1. Course(s) /\ Course(r)
    BY DEF IInv, Courses
  <2>2. CASE s # r
    BY <1>1, <2>1, <2>2, OthersCourse DEF IInv, Typed, Alone, InsideAt
  <2>3. CASE s = r
    BY <1>1, <2>1, <2>3 DEF IInv, Typed, Tasks, Course, Kind, Moved, Verdict, Entry
  <2> QED BY <2>2, <2>3
<1>5. Inboxes' /\ Shown'
  <2>1. Typed /\ Inboxes /\ Shown
    BY DEF IInv
  <2>2. UNCHANGED inbox /\ \A s \in Request : entry'[s].shown \in {None, entry[s].shown}
    BY <1>1, <2>1 DEF Typed
  <2>3. PICK to, v : /\ Moved(r, to, v)
                     /\ task[r].at = "refused" => to = "refused"
                     /\ to \in {"new", "acquiring"} => task[r].at \in {"new", "acquiring"}
                     /\ to \in InsideAt => task[r].at \in InsideAt \cup {"acquiring"}
                     /\ to = "registering" => task[r].at \in {"acquiring", "registering"}
    BY <1>1 DEF InsideAt
  <2> QED BY <2>1, <2>2, <2>3, HearsNothing
<1> QED BY <1>2, <1>3, <1>4, <1>5 DEF IInv, Courses

\* A step that broadcasts an update of a request that is inside or refused.
LEMMA BroadcastHeard ==
  ASSUME IInv, NEW r \in Request, NEW to, NEW v, Moved(r, to, v),
         task[r].at = "refused" => to = "refused",
         to \in {"new", "acquiring"} => task[r].at \in {"new", "acquiring"},
         to \in InsideAt => task[r].at \in InsideAt \cup {"acquiring"},
         to = "registering" => task[r].at \in {"acquiring", "registering"},
         NEW u \in Update, u.of = r, Broadcast(u),
         task[r].at \in InsideAt \/ (to = "refused" /\ u.kind = "failed"),
         \A s \in Request :
           \/ entry'[s].shown \in {None, entry[s].shown}
           \/ /\ task'[s].at \notin {"new", "acquiring", "registering"}
              /\ task'[s].at \in InsideAt => Fit(s, entry'[s].shown)
  PROVE  Inboxes' /\ Shown'
<1>1. Typed /\ Inboxes /\ Shown
  BY DEF IInv
<1>2. \A s \in Request :
        /\ task[s].at \in {"new", "acquiring"} => inbox'[s] = inbox[s]
        /\ \A i \in 1..Len(inbox'[s]) :
             inbox'[s][i] = u \/ (i \in 1..Len(inbox[s]) /\ inbox'[s][i] = inbox[s][i])
  BY <1>1, BroadcastEffect
<1>3. ASSUME NEW s \in Request, task'[s].at \in InsideAt PROVE Fit(s, u)
  <2>1. CASE task[r].at \in InsideAt
    <3>1. s = r
      BY <1>3, <2>1 DEF IInv, Alone, Moved
    <3> QED BY <3>1 DEF Fit
  <2>2. CASE to = "refused" /\ u.kind = "failed"
    BY <2>2 DEF Fit, Moved
  <2> QED BY <2>1, <2>2
<1>4. \A s \in Request : task'[s].at \in InsideAt => \A i \in 1..Len(inbox'[s]) :
        \/ \E j \in 1..Len(inbox[s]) : inbox'[s][i] = inbox[s][j]
        \/ Fit(s, inbox'[s][i])
  BY <1>2, <1>3
<1> QED BY <1>1, <1>2, <1>4, HearsOwn

LEMMA ValidatesStep ==
  ASSUME IInv, NEW r \in Request, Validates(r)
  PROVE  IInv'
<1>1. /\ task[r].at = "new" /\ UNCHANGED <<busy, mapLock, entry, told>>
      /\ \/ inbox' = inbox /\ \E to \in {"acquiring", "refused"} : Moved(r, to, task[r].verdict)
         \/ Moved(r, "refused", task[r].verdict) /\ Broadcast([of |-> r, kind |-> "failed"])
      /\ inbox' \in [Request -> Seq(Update)]
  <2>1. Typed /\ inbox \in [Request -> Seq(Update)]
    BY DEF IInv, Typed
  <2>2. CASE Goes(r, "acquiring") /\ Quiet
    BY <2>1, <2>2, GoesEffect DEF At, Quiet, Validates
  <2>3. CASE Goes(r, "refused") /\ Quiet
    BY <2>1, <2>3, GoesEffect DEF At, Quiet, Validates
  <2>4. CASE /\ Broadcast([of |-> r, kind |-> "failed"])
             /\ task' = Deafened([task EXCEPT ![r].at = "refused"])
    <3>1. [of |-> r, kind |-> "failed"] \in Update
      BY DEF Update, Verdict
    <3>2. task[r].verdict \in {None} \cup Verdict
      BY <2>1 DEF Typed, Tasks
    <3>3. Moved(r, "refused", task[r].verdict)
      BY <2>1, <2>4, <3>2, DeafenedMoved DEF At
    <3> QED BY <2>1, <2>4, <3>1, <3>3, BroadcastEffect DEF Validates
  <2> QED BY <2>2, <2>3, <2>4 DEF Validates
<1>2. Typed'
  BY <1>1 DEF IInv, Typed, Moved, Entry, Update
<1>3. Alone'
  BY <1>1 DEF IInv, Typed, Alone, InsideAt, Moved
<1>4. ASSUME NEW s \in Request PROVE Course(s)'
  <2>1. Course(s) /\ Course(r)
    BY DEF IInv, Courses
  <2>2. CASE s # r
    BY <1>1, <2>1, <2>2, OthersCourse DEF IInv, Typed, Alone, InsideAt
  <2>3. CASE s = r
    BY <1>1, <2>1, <2>3 DEF IInv, Typed, Tasks, Course, Kind, Moved, Verdict, Entry
  <2> QED BY <2>2, <2>3
<1>5. Inboxes' /\ Shown'
  <2>1. Typed /\ Inboxes /\ Shown
    BY DEF IInv
  <2>2. ASSUME inbox' = inbox, NEW to \in {"acquiring", "refused"}, Moved(r, to, task[r].verdict)
        PROVE  Inboxes' /\ Shown'
    BY <1>1, <2>1, <2>2, HearsNothing DEF InsideAt
  <2>3. CASE Moved(r, "refused", task[r].verdict) /\ Broadcast([of |-> r, kind |-> "failed"])
    <3>1. [of |-> r, kind |-> "failed"] \in Update
      BY DEF Update, Verdict
    <3> QED BY <1>1, <2>3, <3>1, BroadcastHeard DEF InsideAt
  <2> QED BY <1>1, <2>2, <2>3
<1> QED BY <1>2, <1>3, <1>4, <1>5 DEF IInv, Courses

LEMMA WorksStep ==
  ASSUME IInv, NEW r \in Request, Works(r)
  PROVE  IInv'
<1>1. /\ task[r].at = "working" /\ UNCHANGED <<busy, mapLock, entry, told>>
      /\ Moved(r, "working", task[r].verdict)
      /\ \E kind \in {"progress"} \cup Verdict : Broadcast([of |-> r, kind |-> kind])
      /\ inbox' \in [Request -> Seq(Update)]
  <2>1. Typed /\ task[r].sent + 1 \in Nat
    BY DEF IInv, Typed, Tasks
  <2>2. [of |-> r, kind |-> "progress"] \in Update
    BY DEF Update
  <2>3. Moved(r, "working", task[r].verdict)
    <3>1. PICK t : t = [task EXCEPT ![r].sent = @ + 1]
      OBVIOUS
    <3>2. t \in [Request -> Tasks]
      BY <2>1, <3>1 DEF Typed, Tasks
    <3>3. /\ \A s \in Request : t[s].call = task[s].call
          /\ \A s \in Request : t[s].at = task[s].at /\ t[s].verdict = task[s].verdict
      BY <2>1, <3>1 DEF Typed, Tasks
    <3>4. task[r].at = "working" /\ task' = Deafened(t)
      BY <3>1 DEF Works
    <3> QED BY <2>1, <3>2, <3>3, <3>4, DeafenedEffect DEF Moved
  <2> QED BY <2>1, <2>2, <2>3, BroadcastEffect DEF Works
<1>2. Typed'
  BY <1>1 DEF IInv, Typed, Moved, Entry, Update
<1>3. Alone'
  BY <1>1 DEF IInv, Typed, Alone, InsideAt, Moved
<1>4. ASSUME NEW s \in Request PROVE Course(s)'
  <2>1. Course(s) /\ Course(r)
    BY DEF IInv, Courses
  <2>2. CASE s # r
    BY <1>1, <2>1, <2>2, OthersCourse DEF IInv, Typed, Alone, InsideAt
  <2>3. CASE s = r
    BY <1>1, <2>1, <2>3 DEF IInv, Typed, Tasks, Course, Kind, Moved, Verdict, Entry
  <2> QED BY <2>2, <2>3
<1>5. Inboxes' /\ Shown'
  <2>1. Typed /\ Inboxes /\ Shown
    BY DEF IInv
  <2>2. CASE inbox' = inbox
    BY <1>1, <2>1, <2>2, HearsNothing DEF InsideAt
  <2>3. ASSUME NEW kind \in {"progress"} \cup Verdict, Broadcast([of |-> r, kind |-> kind])
        PROVE  Inboxes' /\ Shown'
    <3>1. [of |-> r, kind |-> kind] \in Update
      BY DEF Update
    <3> QED BY <1>1, <2>3, <3>1, BroadcastHeard DEF InsideAt
  <2> QED BY <1>1, <2>2, <2>3
<1> QED BY <1>2, <1>3, <1>4, <1>5 DEF IInv, Courses

LEMMA EndsStep ==
  ASSUME IInv, NEW r \in Request, Ends(r)
  PROVE  IInv'
<1>1. /\ task[r].at = "working" /\ UNCHANGED <<busy, mapLock, entry, told>>
      /\ \E v \in Verdict : \/ Kind(r) = "direct" /\ Moved(r, "closing", v)
                            \/ Kind(r) # "direct" /\ Moved(r, "recording", v)
      /\ inbox' = inbox \/ \E kind \in {"progress"} \cup Verdict : Broadcast([of |-> r, kind |-> kind])
      /\ inbox' \in [Request -> Seq(Update)]
  <2>1. Typed /\ inbox \in [Request -> Seq(Update)]
    BY DEF IInv, Typed
  <2>2. PICK v \in Verdict : Ends(r)!2!(v)
    BY DEF Ends
  <2>3. PICK to \in {"closing", "recording"} : to = IF Kind(r) = "direct" THEN "closing" ELSE "recording"
    OBVIOUS
  <2>4. PICK t : t = [task EXCEPT ![r].verdict = v, ![r].at = to]
    OBVIOUS
  <2>5. /\ task' = t \/ task' = Deafened(t)
        /\ inbox' = inbox \/ Broadcast([of |-> r, kind |-> v])
    BY <2>2, <2>3, <2>4 DEF Quiet
  <2>6. Moved(r, to, v)
    BY <2>1, <2>4, <2>5, DeafenedMoved DEF At
  <2>7. [of |-> r, kind |-> v] \in Update
    BY DEF Update
  <2>8. inbox' \in [Request -> Seq(Update)]
    BY <2>1, <2>5, <2>7, BroadcastEffect
  <2>9. task[r].at = "working" /\ UNCHANGED <<busy, mapLock, entry, told>>
    BY DEF Ends
  <2>10. inbox' = inbox \/ \E kind \in {"progress"} \cup Verdict : Broadcast([of |-> r, kind |-> kind])
    BY <2>5
  <2>11. \/ Kind(r) = "direct" /\ Moved(r, "closing", v)
         \/ Kind(r) # "direct" /\ Moved(r, "recording", v)
    BY <2>3, <2>6
  <2>12. \E w \in Verdict : \/ Kind(r) = "direct" /\ Moved(r, "closing", w)
                            \/ Kind(r) # "direct" /\ Moved(r, "recording", w)
    BY <2>11
  <2> HIDE DEF Verdict
  <2> QED BY <2>8, <2>9, <2>10, <2>12
<1>2. Typed'
  BY <1>1 DEF IInv, Typed, Moved, Entry, Update
<1>3. Alone'
  BY <1>1 DEF IInv, Typed, Alone, InsideAt, Moved
<1>4. ASSUME NEW s \in Request PROVE Course(s)'
  <2>1. Course(s) /\ Course(r)
    BY DEF IInv, Courses
  <2>2. CASE s # r
    BY <1>1, <2>1, <2>2, OthersCourse DEF IInv, Typed, Alone, InsideAt
  <2>3. CASE s = r
    BY <1>1, <2>1, <2>3 DEF IInv, Typed, Tasks, Course, Kind, Moved, Verdict, Entry
  <2> QED BY <2>2, <2>3
<1>5. Inboxes' /\ Shown'
  <2>1. Typed /\ Inboxes /\ Shown
    BY DEF IInv
  <2>2. CASE inbox' = inbox
    BY <1>1, <2>1, <2>2, HearsNothing DEF InsideAt
  <2>3. ASSUME NEW kind \in {"progress"} \cup Verdict, Broadcast([of |-> r, kind |-> kind])
        PROVE  Inboxes' /\ Shown'
    <3>1. [of |-> r, kind |-> kind] \in Update
      BY DEF Update
    <3> QED BY <1>1, <2>3, <3>1, BroadcastHeard DEF InsideAt
  <2> QED BY <1>1, <2>2, <2>3
<1> QED BY <1>2, <1>3, <1>4, <1>5 DEF IInv, Courses

LEMMA RecordsStep ==
  ASSUME IInv, NEW r \in Request, Records(r)
  PROVE  IInv'
<1>1. /\ task[r].at = "recording" /\ mapLock = None /\ UNCHANGED <<busy, told>>
      /\ task[r].verdict \in Verdict
      /\ entry' = [entry EXCEPT ![r] = [status |-> task[r].verdict, shown |-> [of |-> r, kind |-> task[r].verdict]]]
      /\ \/ Moved(r, "posting", task[r].verdict) /\ mapLock' = r
         \/ Moved(r, "closing", task[r].verdict) /\ mapLock' = None
      /\ inbox' = inbox \/ \E kind \in {"progress"} \cup Verdict : Broadcast([of |-> r, kind |-> kind])
      /\ inbox' \in [Request -> Seq(Update)]
  <2>1. /\ Typed /\ inbox \in [Request -> Seq(Update)]
        /\ task[r].at = "recording" /\ mapLock = None /\ UNCHANGED <<busy, told>>
    BY DEF IInv, Typed, Records, MapFree
  <2>2. task[r].verdict \in Verdict
    BY <2>1 DEF IInv, Courses, Course
  <2>3. PICK to \in {"posting", "closing"} : to = IF task[r].call.callback THEN "posting" ELSE "closing"
    OBVIOUS
  <2>4. PICK t : t = [task EXCEPT ![r].at = to]
    OBVIOUS
  <2>5. /\ entry' = [entry EXCEPT ![r] = [status |-> task[r].verdict,
                                          shown |-> [of |-> r, kind |-> task[r].verdict]]]
        /\ mapLock' = IF task[r].call.callback THEN r ELSE None
    BY DEF Records
  <2>6. /\ task' = t \/ task' = Deafened(t)
        /\ inbox' = inbox \/ Broadcast([of |-> r, kind |-> "failed"])
    BY <2>3, <2>4 DEF Records, Quiet
  <2>7. Moved(r, to, task[r].verdict)
    BY <2>1, <2>2, <2>4, <2>6, DeafenedMoved DEF At
  <2>8. /\ [of |-> r, kind |-> "failed"] \in Update
        /\ "failed" \in Verdict
    BY DEF Update, Verdict
  <2>9. inbox' \in [Request -> Seq(Update)]
    BY <2>1, <2>6, <2>8, BroadcastEffect
  <2> QED BY <2>1, <2>2, <2>3, <2>5, <2>6, <2>7, <2>8, <2>9
<1>2. Typed'
  BY <1>1 DEF IInv, Typed, Moved, Entry, Update
<1>3. Alone'
  BY <1>1 DEF IInv, Typed, Alone, InsideAt, Moved
<1>4. ASSUME NEW s \in Request PROVE Course(s)'
  <2>1. Course(s) /\ Course(r)
    BY DEF IInv, Courses
  <2>2. CASE s # r
    BY <1>1, <2>1, <2>2, OthersCourse, IngestAssumption DEF IInv, Typed, Alone, InsideAt
  <2>3. CASE s = r
    BY <1>1, <2>1, <2>3 DEF IInv, Typed, Tasks, Course, Kind, Moved, Verdict, Entry
  <2> QED BY <2>2, <2>3
<1>5. Inboxes' /\ Shown'
  <2>1. Typed /\ Inboxes /\ Shown
    BY DEF IInv
  <2>2. \A s \in Request :
          \/ entry'[s].shown \in {None, entry[s].shown}
          \/ /\ task'[s].at \notin {"new", "acquiring", "registering"}
             /\ task'[s].at \in InsideAt => Fit(s, entry'[s].shown)
    BY <1>1, <2>1 DEF Typed, Fit, Moved
  <2>3. PICK to \in {"posting", "closing"} : Moved(r, to, task[r].verdict)
    BY <1>1
  <2>4. CASE inbox' = inbox
    BY <1>1, <2>1, <2>2, <2>3, <2>4, HearsOwn DEF InsideAt
  <2>5. ASSUME NEW kind \in {"progress"} \cup Verdict, Broadcast([of |-> r, kind |-> kind])
        PROVE  Inboxes' /\ Shown'
    <3>1. [of |-> r, kind |-> kind] \in Update
      BY DEF Update
    <3> QED BY <1>1, <2>2, <2>3, <2>5, <3>1, BroadcastHeard DEF InsideAt
  <2> QED BY <1>1, <2>4, <2>5
<1> QED BY <1>2, <1>3, <1>4, <1>5 DEF IInv, Courses

LEMMA ForwardsStep ==
  ASSUME IInv, NEW r \in Request, Forwards(r)
  PROVE  IInv'
<1>1. /\ UNCHANGED <<busy, mapLock, task, told>>
      /\ inbox[r] # <<>> /\ task[r].at # "registering"
      /\ inbox' = [inbox EXCEPT ![r] = Tail(@)] /\ inbox' \in [Request -> Seq(Update)]
      /\ entry' = [entry EXCEPT ![r].shown = Head(inbox[r])]
      /\ inbox[r][1] \in Update /\ entry'[r].shown = inbox[r][1] /\ 1 \in 1..Len(inbox[r])
      /\ Moved(r, task[r].at, task[r].verdict)
  <2>1. inbox \in [Request -> Seq(Update)] /\ task \in [Request -> Tasks] /\ entry \in [Request -> Entry]
    BY DEF IInv, Typed
  <2>2. inbox[r] \in Seq(Update) /\ inbox[r] # <<>>
    BY <2>1 DEF Forwards
  <2>3. /\ 1 \in 1..Len(inbox[r]) /\ inbox[r][1] = Head(inbox[r]) /\ inbox[r][1] \in Update
        /\ Tail(inbox[r]) \in Seq(Update)
    BY <2>2
  <2>4. entry'[r].shown = Head(inbox[r])
    BY <2>1 DEF Forwards, Entry
  <2> QED BY <2>1, <2>2, <2>3, <2>4 DEF Forwards, Moved
<1>2. Typed'
  BY <1>1 DEF IInv, Typed, Moved, Entry, Update
<1>3. Alone'
  BY <1>1 DEF IInv, Typed, Alone, InsideAt, Moved
<1>4. ASSUME NEW s \in Request PROVE Course(s)'
  <2>1. Course(s) /\ Course(r)
    BY DEF IInv, Courses
  <2>2. CASE s # r
    BY <1>1, <2>1, <2>2, OthersCourse DEF IInv, Typed, Alone, InsideAt
  <2>3. CASE s = r
    BY <1>1, <2>1, <2>3 DEF IInv, Typed, Tasks, Course, Kind, Moved, Verdict, Entry
  <2> QED BY <2>2, <2>3
<1>5. Inboxes' /\ Shown'
  <2>1. Typed /\ Inboxes /\ Shown
    BY DEF IInv
  <2>2. task[r].at \in InsideAt => Fit(r, inbox[r][1])
    BY <1>1, <2>1 DEF Inboxes, Own, Fit
  <2>3. \A s \in Request :
          \/ entry'[s].shown \in {None, entry[s].shown}
          \/ /\ task'[s].at \notin {"new", "acquiring", "registering"}
             /\ task'[s].at \in InsideAt => Fit(s, entry'[s].shown)
    BY <1>1, <2>1, <2>2 DEF Typed, Inboxes, Entry
  <2>4. /\ \A s \in Request \ {r} : inbox'[s] = inbox[s]
        /\ \A i \in 1..Len(inbox'[r]) : i + 1 \in 1..Len(inbox[r]) /\ inbox'[r][i] = inbox[r][i + 1]
    BY <1>1, <2>1 DEF Typed
  <2>5. \A s \in Request : task[s].at \in {"new", "acquiring"} => inbox'[s] = inbox[s]
    BY <1>1, <2>1, <2>4 DEF Inboxes
  <2>6. \A s \in Request : \A i \in 1..Len(inbox'[s]) : \E j \in 1..Len(inbox[s]) : inbox'[s][i] = inbox[s][j]
    BY <1>1, <2>4
  <2>7. task[r].at \in {"new", "acquiring"} => FALSE
    BY <1>1, <2>1 DEF Inboxes
  <2> QED BY <1>1, <2>1, <2>3, <2>5, <2>6, <2>7, HearsOwn
<1> QED BY <1>2, <1>3, <1>4, <1>5 DEF IInv, Courses

LEMMA IngestInit == Init => IInv
<1> SUFFICES ASSUME Init PROVE IInv
  OBVIOUS
<1>1. ASSUME NEW r \in Request
      PROVE  task[r] \in Tasks /\ task[r].at \in {"new", "acquiring"}
  <2>1. PICK c \in Call : task[r] = [call |-> c, at |-> IF c.kind = "direct" THEN "acquiring" ELSE "new",
                                     verdict |-> None, sent |-> 0, tries |-> 0, deaf |-> FALSE]
    BY DEF Init
  <2>2. c \in CallType
    BY IngestAssumption
  <2>3. PICK at \in {"new", "acquiring"} : at = IF c.kind = "direct" THEN "acquiring" ELSE "new"
    OBVIOUS
  <2> QED BY <2>1, <2>2, <2>3 DEF Tasks, At
<1>2. task \in [Request -> Tasks]
  BY <1>1 DEF Init
<1>3. \A r \in Request : task[r].at \in {"new", "acquiring"}
  BY <1>1
<1>4. Typed
  <2>1. entry \in [Request -> Entry]
    BY DEF Init, Entry
  <2>2. inbox \in [Request -> Seq(Update)] /\ told \in [Request -> SUBSET Verdict]
    BY DEF Init
  <2> QED BY <1>2, <2>1, <2>2 DEF Init, Typed
<1>5. Alone
  BY <1>3 DEF Init, Alone, InsideAt
<1>6. Courses
  BY <1>3, IngestAssumption DEF Init, Courses, Course, Verdict
<1>7. Inboxes /\ Shown
  BY <1>3 DEF Init, Inboxes, Shown, InsideAt
<1> QED BY <1>4, <1>5, <1>6, <1>7 DEF IInv

LEMMA IngestNext == IInv /\ [Next]_vars => IInv'
<1> SUFFICES ASSUME IInv, [Next]_vars PROVE IInv'
  OBVIOUS
<1>1. ASSUME NEW r \in Request, Validates(r) \/ Acquires(r) \/ HangsUp(r) \/ Works(r) \/ Panics(r)
      PROVE  IInv'
  BY <1>1, ValidatesStep, AcquiresStep, HangsUpStep, WorksStep, PanicsStep
<1>2. ASSUME NEW r \in Request, \/ Registers(r) \/ Ends(r) \/ Records(r) \/ Posts(r)
                                  \/ PostsNothing(r) \/ Drops(r) \/ Forwards(r)
      PROVE  IInv'
  BY <1>2, PostsNothingStep, ForwardsStep, RegistersStep, EndsStep, RecordsStep, PostsStep, DropsStep
<1>3. ASSUME UNCHANGED <<busy, mapLock, entry, task, inbox, told>> PROVE IInv'
  BY <1>3 DEF IInv, Typed, Alone, Courses, Course, Kind, Inboxes, Shown, Own
<1>4. CASE Asks \/ Answers \/ UNCHANGED vars
  BY <1>3, <1>4 DEF Asks, Answers, vars
<1> QED BY <1>1, <1>2, <1>4 DEF Next

THEOREM IngestInvariant == Spec => []IInv
BY IngestInit, IngestNext, PTL DEF Spec

\* For any number of requests: the flag is set exactly while one is inside,
\* and only that one can hold the mutex of the status map.
THEOREM OneAtATimeTheorem == Spec => []OneAtATime
<1>1. IInv => OneAtATime
  BY DEF IInv, Typed, Alone, InsideAt, OneAtATime, Holders
<1> QED BY <1>1, IngestInvariant, PTL

\* For any number of requests, updates and any capacity of the channel: a
\* request at work shows its own progress.
THEOREM ProgressIsOwnTheorem == Spec => []ProgressIsOwn
<1>1. IInv => ProgressIsOwn
  BY DEF IInv, Shown, Own, ProgressIsOwn, Holders, InsideAt
<1> QED BY <1>1, IngestInvariant, PTL

\* For any number of retries: a webhook is told the verdict of the record.
THEOREM WebhookTellsRecordTheorem == Spec => []WebhookTellsRecord
<1>1. IInv => WebhookTellsRecord
  BY DEF IInv, Courses, Course, WebhookTellsRecord
<1> QED BY <1>1, IngestInvariant, PTL

-----------------------------------------------------------------------------

\* The refinement.  What is told of one request, for a status of its entry.
Told(status) == CASE status = None -> "absent"
                  [] status = "in_progress" -> "pending"
                  [] status = "complete" -> "completed"
                  [] OTHER -> "failed"

LEMMA ToldValues ==
  /\ Told(None) = "absent"
  /\ Told("in_progress") = "pending" /\ Told("complete") = "completed" /\ Told("failed") = "failed"
BY IngestAssumption DEF Told

\* The entries of the others do not change, and r's moves on once.
LEMMA OneMoves ==
  ASSUME IInv, NEW r \in Request, \A s \in Request \ {r} : entry'[s].status = entry[s].status,
         \/ entry'[r].status = entry[r].status
         \/ entry[r].status = None /\ entry'[r].status = "in_progress"
         \/ entry[r].status = "in_progress" /\ entry'[r].status \in Verdict
  PROVE  [Promise!Next]_PromisedStatus
<1>1. /\ PromisedStatus = [s \in Request |-> Told(entry[s].status)]
      /\ PromisedStatus' = [s \in Request |-> Told(entry'[s].status)]
  BY DEF PromisedStatus, Told
<1>2. \A s \in Request : Told(entry'[s].status) \in {"absent", "pending", "completed", "failed"}
  BY DEF Told
<1>3. \A s \in Request : Told(entry[s].status) \in {"absent", "pending", "completed", "failed"}
  BY DEF Told
<1>4. ASSUME NEW s \in Request
      PROVE  Told(entry'[s].status) \in Promise!Moves[Told(entry[s].status)] \cup {Told(entry[s].status)}
  <2>1. CASE entry'[s].status = entry[s].status
    BY <2>1
  <2>2. CASE entry[s].status = None /\ entry'[s].status = "in_progress"
    BY <2>2, ToldValues DEF Promise!Moves
  <2>3. CASE entry[s].status = "in_progress" /\ entry'[s].status \in Verdict
    BY <2>3, ToldValues DEF Promise!Moves, Promise!Verdict, Verdict
  <2> QED BY <2>1, <2>2, <2>3
<1>5. DOMAIN Promise!Moves = {"absent", "pending", "completed", "failed", "orphaned", "forgotten", "lost"}
  BY DEF Promise!Moves
<1> HIDE DEF PromisedStatus
<1> QED BY <1>1, <1>2, <1>4, <1>5 DEF Promise!Next

LEMMA PromiseNext == IInv /\ [Next]_vars => [Promise!Next]_PromisedStatus
<1> SUFFICES ASSUME IInv, [Next]_vars PROVE [Promise!Next]_PromisedStatus
  OBVIOUS
<1>1. ASSUME entry' = entry PROVE [Promise!Next]_PromisedStatus
  BY <1>1 DEF PromisedStatus
<1>2. ASSUME NEW r \in Request, Registers(r) PROVE [Promise!Next]_PromisedStatus
  <2>1. entry[r].status = None /\ entry \in [Request -> Entry]
    BY <1>2 DEF Registers, IInv, Typed, Courses, Course
  <2> QED BY <1>2, <2>1, OneMoves DEF Registers
<1>3. ASSUME NEW r \in Request, Records(r) PROVE [Promise!Next]_PromisedStatus
  <2>1. /\ entry[r].status = "in_progress" /\ entry \in [Request -> Entry]
        /\ task[r].verdict \in Verdict
    BY <1>3 DEF Records, IInv, Typed, Courses, Course
  <2>2. entry' = [entry EXCEPT ![r] = [status |-> task[r].verdict,
                                       shown |-> [of |-> r, kind |-> task[r].verdict]]]
    BY <1>3 DEF Records
  <2> QED BY <2>1, <2>2, OneMoves
<1>4. ASSUME NEW r \in Request, Forwards(r) PROVE [Promise!Next]_PromisedStatus
  <2>1. \A s \in Request : entry'[s].status = entry[s].status
    BY <1>4 DEF Forwards, IInv, Typed, Entry
  <2> QED BY <2>1, OneMoves
<1>5. ASSUME NEW r \in Request, Ends(r) \/ Posts(r) \/ Drops(r) PROVE [Promise!Next]_PromisedStatus
  BY <1>1, <1>5 DEF Ends, Posts, Drops
<1>6. ASSUME NEW r \in Request,
             Validates(r) \/ Acquires(r) \/ HangsUp(r) \/ Works(r) \/ Panics(r) \/ PostsNothing(r)
      PROVE  [Promise!Next]_PromisedStatus
  BY <1>1, <1>6 DEF Validates, Acquires, HangsUp, Works, Panics, PostsNothing
<1>7. CASE Asks \/ Answers \/ UNCHANGED vars
  BY <1>1, <1>7 DEF Asks, Answers, vars
<1> QED BY <1>2, <1>3, <1>4, <1>5, <1>6, <1>7 DEF Next

\* For any requests: /status gives each request one course, pending and then
\* a verdict it keeps.
THEOREM StatusRefined == Spec => StatusSpec
<1>1. Init => Promise!Init
  BY IngestAssumption DEF Init, Promise!Init, PromisedStatus
<1>2. QED BY <1>1, IngestInvariant, PromiseNext, PTL DEF Spec, StatusSpec, Promise!Spec

-----------------------------------------------------------------------------
(* The graph and its hash.                                                 *)

Revisions == [File -> Text \cup {Missing}]
Jobs(n) == [at : {"idle", "reading", "collecting", "removing", "clearing", "recloning",
                  "rooting", "building", "restoring", "stamping"},
            cur : 0..n, files : SUBSET File, repairs : SUBSET File,
            kept : SUBSET Mark, unseen : SUBSET Mark,
            ingests : BOOLEAN, restarts : BOOLEAN, spoiled : BOOLEAN]

\* The types of what the invariant reads.
SyncTyped ==
  /\ history \in Seq(Revisions) /\ Len(history) >= 1
  /\ checkout \in 0..Len(history) /\ stored \in 0..Len(history)
  /\ graph \in [File -> SUBSET Text]
  /\ damaged \subseteq File /\ marks \subseteq Mark
  /\ job \in Jobs(Len(history))

\* A job that works knows the revision it works for.
Underway == IF job.at = "idle" THEN ~job.spoiled
            ELSE job.cur # 0 /\ checkout # 0

\* An ingest clears without looking at what is there.
Ingesting == job.ingests => job.at \in {"clearing", "rooting", "building"} /\ job.kept = {}

\* What a job that /clear or a failed query has disturbed leaves is damaged in
\* the end, and until then either damaged or in hand.
Spoilt ==
  job.spoiled =>
    /\ \/ damaged = File
       \/ job.at = "recloning"
       \/ job.at \in {"rooting", "building", "restoring", "stamping"} /\ job.files = File
    /\ job.at = "reading" => stored = 0

\* Without a hash, what is in the graph is damage.
Unhashed == stored = 0 /\ ~job.spoiled => \A f \in File : graph[f] = {} \/ f \in damaged

\* The hash while a job is under way.
Hashed ==
  ~job.spoiled =>
    /\ job.at \in {"collecting", "removing", "building", "restoring", "stamping"} => stored # 0
    /\ job.at = "recloning" => stored = 0
    /\ job.at = "rooting" /\ stored = 0 => job.files = File
    /\ job.at = "rooting" /\ job.ingests => stored = 0
    /\ job.at = "building" /\ job.ingests => stored = checkout

\* Files not in hand did not change.
Chosen ==
  job.at \in {"collecting", "removing", "rooting", "building", "restoring", "stamping"} =>
    /\ job.repairs \subseteq job.files
    /\ ~job.spoiled /\ stored # 0 => Changed(stored, job.cur) \subseteq job.files

Mends(f) == f \in job.repairs \/ f \notin damaged

\* Files in hand are emptied before they are built, and then are what the
\* clone says.
Rebuilt ==
  ~job.spoiled =>
    /\ job.at = "recloning" => \A f \in File : Mends(f) => graph[f] = {}
    /\ job.at \in {"rooting", "building"} => \A f \in job.files : Mends(f) => graph[f] = {}
    /\ job.at \in {"restoring", "stamping"} =>
         \A f \in job.files : Mends(f) => graph[f] = NodesAt(checkout, f)

SyncInv == /\ SyncTyped /\ Underway /\ Spoilt /\ Unhashed /\ Hashed /\ Chosen /\ Rebuilt
        /\ HashBacked /\ Ingesting

-----------------------------------------------------------------------------

LEMMA TypedStep ==
  ASSUME SyncTyped, history' = history, checkout' \in 0..Len(history), stored' \in 0..Len(history),
         graph' \in [File -> SUBSET Text], damaged' \subseteq File, marks' \subseteq Mark,
         job' \in Jobs(Len(history))
  PROVE  SyncTyped'
  BY DEF SyncTyped

LEMMA IdleType == SyncTyped => Idle \in Jobs(Len(history))
  BY DEF SyncTyped, Jobs, Idle

LEMMA NodesType ==
  ASSUME SyncTyped, NEW rev \in 1..Len(history), NEW f \in File
  PROVE  NodesAt(rev, f) \subseteq Text
<1>1. history[rev] \in Revisions
  BY DEF SyncTyped
<1> QED BY <1>1 DEF NodesAt, Revisions


LEMMA ClonesStep ==
  ASSUME SyncInv, NEW ingests \in BOOLEAN, Clones(ingests)
  PROVE  SyncInv'
<1> USE DEF SyncInv, Idle, SameGraph, SameRemote, NoFault, Blameless, Clones
<1>1. SyncTyped'
  <2>1. job' \in Jobs(Len(history))
    <3>1. Len(history) \in 0..Len(history)
      BY DEF SyncTyped
    <3> QED BY <3>1 DEF Jobs
  <2>2. /\ history' = history /\ checkout' \in 0..Len(history) /\ stored' \in 0..Len(history)
        /\ damaged' \subseteq File /\ marks' \subseteq Mark
    BY DEF SyncTyped, Jobs, InHand, Changed
  <2>3. graph' \in [File -> SUBSET Text]
    BY NodesType DEF SyncTyped, Jobs, Underway
  <2> QED BY <2>1, <2>2, <2>3, TypedStep
<1>2. Underway'
  BY DEF SyncTyped, Jobs, Underway
<1>3. Spoilt'
  BY DEF SyncTyped, Jobs, Spoilt
<1>4. Unhashed'
  BY DEF SyncTyped, Jobs, Unhashed, Hashed, Rebuilt, Underway, NodesAt
<1>5. Hashed'
  BY DEF SyncTyped, Jobs, Hashed, Underway, Spoilt, Ingesting
<1>6. Chosen'
  BY DEF SyncTyped, Jobs, Chosen, Underway, Hashed, Spoilt, Changed
<1>7. Rebuilt'
  BY DEF SyncTyped, Jobs, Rebuilt, Chosen, Hashed, Unhashed, Mends, Spoilt, Underway, NodesAt
<1>8. HashBacked'
  BY DEF SyncTyped, Jobs, HashBacked, InHand, Chosen, Rebuilt, Hashed, Spoilt, Unhashed, Mends, NodesAt, Changed, Underway
<1>9. Ingesting'
  BY DEF SyncTyped, Jobs, Ingesting
<1> QED BY <1>1, <1>2, <1>3, <1>4, <1>5, <1>6, <1>7, <1>8, <1>9

LEMMA ClearGraphStep ==
  ASSUME SyncInv, ClearGraph
  PROVE  SyncInv'
<1> USE DEF SyncInv, Idle, SameGraph, SameRemote, NoFault, Blameless, ClearGraph
<1>1. SyncTyped'
  <2>1. job' \in Jobs(Len(history))
    BY IdleType DEF SyncTyped, Jobs
  <2>2. /\ history' = history /\ checkout' \in 0..Len(history) /\ stored' \in 0..Len(history)
        /\ damaged' \subseteq File /\ marks' \subseteq Mark
    BY DEF SyncTyped, Jobs, InHand, Changed
  <2>3. graph' \in [File -> SUBSET Text]
    BY NodesType DEF SyncTyped, Jobs, Underway
  <2> QED BY <2>1, <2>2, <2>3, TypedStep
<1>2. Underway'
  BY DEF SyncTyped, Jobs, Underway
<1>3. Spoilt'
  BY DEF SyncTyped, Jobs, Spoilt
<1>4. Unhashed'
  BY DEF SyncTyped, Jobs, Unhashed, Hashed, Rebuilt, Underway, NodesAt
<1>5. Hashed'
  BY DEF SyncTyped, Jobs, Hashed, Underway, Spoilt, Ingesting
<1>6. Chosen'
  BY DEF SyncTyped, Jobs, Chosen, Underway, Hashed, Spoilt, Changed
<1>7. Rebuilt'
  BY DEF SyncTyped, Jobs, Rebuilt, Chosen, Hashed, Unhashed, Mends, Spoilt, Underway, NodesAt
<1>8. HashBacked'
  BY DEF SyncTyped, Jobs, HashBacked, InHand, Chosen, Rebuilt, Hashed, Spoilt, Unhashed, Mends, NodesAt, Changed, Underway
<1>9. Ingesting'
  BY DEF SyncTyped, Jobs, Ingesting
<1> QED BY <1>1, <1>2, <1>3, <1>4, <1>5, <1>6, <1>7, <1>8, <1>9

LEMMA ReadsHashStep ==
  ASSUME SyncInv, ReadsHash
  PROVE  SyncInv'
<1> DEFINE files == Changed(stored, job.cur)
<1>1. /\ UNCHANGED <<history, checkout, graph, stored, marks, damaged>>
      /\ job \in Jobs(Len(history)) /\ job.at = "reading" /\ job.cur # 0 /\ checkout # 0
      /\ job.spoiled => stored = 0
      /\ ~job.ingests
      /\ files \subseteq File
  BY DEF SyncInv, SyncTyped, Underway, Spoilt, Ingesting, ReadsHash, SameGraph, SameRemote, Blameless, Changed
<1>2. CASE stored = job.cur /\ job' = Idle
  <2>1. SyncTyped'
    BY <1>1, <1>2, IdleType, TypedStep DEF SyncInv, SyncTyped
  <2> QED BY <1>1, <1>2, <2>1
          DEF SyncInv, Idle, Underway, Spoilt, Unhashed, Hashed, Chosen, Rebuilt, HashBacked, InHand, Ingesting, NodesAt
<1>3. ASSUME stored \notin {0, job.cur}, NEW to \in {"stamping", "collecting"}, NEW fs \in SUBSET File,
             files \subseteq fs, to = "stamping" => fs = {}, NEW restarts \in BOOLEAN,
             job' = [job EXCEPT !.at = to, !.files = fs, !.repairs = fs, !.restarts = restarts]
      PROVE  SyncInv'
  <2>1. /\ job'.at = to /\ job'.files = fs /\ job'.repairs = fs
        /\ job'.cur = job.cur /\ job'.spoiled = job.spoiled /\ job'.ingests = job.ingests
        /\ job' \in Jobs(Len(history))
    BY <1>1, <1>3 DEF Jobs
  <2>2. SyncTyped'
    BY <1>1, <2>1, TypedStep DEF SyncInv, SyncTyped
  <2>3. Changed(stored, job.cur)' \subseteq fs
    BY <1>1, <1>3, <2>1 DEF Changed
  <2>4. Underway' /\ Spoilt' /\ Unhashed' /\ Hashed' /\ Ingesting'
    BY <1>1, <1>3, <2>1 DEF SyncInv, Underway, Spoilt, Unhashed, Hashed, Ingesting
  <2>5. Chosen'
    BY <1>1, <1>3, <2>1, <2>3 DEF Chosen
  <2>6. Rebuilt' /\ HashBacked'
    BY <1>1, <1>3, <2>1 DEF SyncInv, Rebuilt, HashBacked, InHand, NodesAt
  <2> QED BY <2>2, <2>4, <2>5, <2>6 DEF SyncInv
<1>4. CASE /\ stored = 0
           /\ job' = [job EXCEPT !.at = "recloning", !.repairs = {f \in File : graph[f] = {}}]
  <2>1. /\ job'.at = "recloning" /\ job'.repairs = {f \in File : graph[f] = {}}
        /\ job'.cur = job.cur /\ job'.spoiled = job.spoiled /\ job'.ingests = job.ingests
        /\ job' \in Jobs(Len(history))
    BY <1>1, <1>4 DEF Jobs
  <2>2. SyncTyped'
    BY <1>1, <2>1, TypedStep DEF SyncInv, SyncTyped
  <2>3. Underway' /\ Spoilt' /\ Unhashed' /\ Hashed' /\ Ingesting' /\ Chosen' /\ HashBacked'
    BY <1>1, <1>4, <2>1 DEF SyncInv, Underway, Spoilt, Unhashed, Hashed, Ingesting, Chosen, HashBacked
  <2>4. Rebuilt'
    BY <1>1, <1>4, <2>1 DEF SyncInv, Unhashed, Rebuilt, Mends
  <2> QED BY <2>2, <2>3, <2>4 DEF SyncInv
<1>5. CASE /\ stored \notin {0, job.cur}
           /\ job' = [job EXCEPT !.at = IF files = {} THEN "stamping" ELSE "collecting",
                                 !.files = files, !.repairs = files]
  <2>1. job' = [job EXCEPT !.at = IF files = {} THEN "stamping" ELSE "collecting",
                           !.files = files, !.repairs = files, !.restarts = job.restarts]
    BY <1>1, <1>5 DEF Jobs
  <2>2. job.restarts \in BOOLEAN
    BY <1>1 DEF Jobs
  <2> HIDE DEF files
  <2> QED BY <1>1, <1>3, <1>5, <2>1, <2>2
<1>6. CASE /\ stored \notin {0, job.cur}
           /\ job' = [job EXCEPT !.at = "collecting", !.files = File, !.repairs = File, !.restarts = TRUE]
  <2> HIDE DEF files
  <2> QED BY <1>1, <1>3, <1>6
<1> QED BY <1>2, <1>4, <1>5, <1>6 DEF ReadsHash, Decides

LEMMA MisreadsHashStep ==
  ASSUME SyncInv, MisreadsHash
  PROVE  SyncInv'
<1> USE DEF SyncInv, Idle, SameGraph, SameRemote, NoFault, Blameless, MisreadsHash
<1>1. SyncTyped'
  <2>1. job' \in Jobs(Len(history))
    BY IdleType DEF SyncTyped, Jobs
  <2>2. /\ history' = history /\ checkout' \in 0..Len(history) /\ stored' \in 0..Len(history)
        /\ damaged' \subseteq File /\ marks' \subseteq Mark
    BY DEF SyncTyped, Jobs, InHand, Changed
  <2>3. graph' \in [File -> SUBSET Text]
    BY NodesType DEF SyncTyped, Jobs, Underway
  <2> QED BY <2>1, <2>2, <2>3, TypedStep
<1>2. Underway'
  BY DEF SyncTyped, Jobs, Underway
<1>3. Spoilt'
  BY DEF SyncTyped, Jobs, Spoilt
<1>4. Unhashed'
  BY DEF SyncTyped, Jobs, Unhashed, Hashed, Rebuilt, Underway, NodesAt
<1>5. Hashed'
  BY DEF SyncTyped, Jobs, Hashed, Underway, Spoilt, Ingesting
<1>6. Chosen'
  BY DEF SyncTyped, Jobs, Chosen, Underway, Hashed, Spoilt, Changed
<1>7. Rebuilt'
  BY DEF SyncTyped, Jobs, Rebuilt, Chosen, Hashed, Unhashed, Mends, Spoilt, Underway, NodesAt
<1>8. HashBacked'
  BY DEF SyncTyped, Jobs, HashBacked, InHand, Chosen, Rebuilt, Hashed, Spoilt, Unhashed, Mends, NodesAt, Changed, Underway
<1>9. Ingesting'
  BY DEF SyncTyped, Jobs, Ingesting
<1> QED BY <1>1, <1>2, <1>3, <1>4, <1>5, <1>6, <1>7, <1>8, <1>9

LEMMA CollectsStep ==
  ASSUME SyncInv, Collects
  PROVE  SyncInv'
<1> USE DEF SyncInv, Idle, SameGraph, SameRemote, NoFault, Blameless, Collects, Keeps, On
<1>1. SyncTyped'
  <2>1. job' \in Jobs(Len(history))
    BY IdleType DEF SyncTyped, Jobs
  <2>2. /\ history' = history /\ checkout' \in 0..Len(history) /\ stored' \in 0..Len(history)
        /\ damaged' \subseteq File /\ marks' \subseteq Mark
    BY DEF SyncTyped, Jobs, InHand, Changed
  <2>3. graph' \in [File -> SUBSET Text]
    BY NodesType DEF SyncTyped, Jobs, Underway
  <2> QED BY <2>1, <2>2, <2>3, TypedStep
<1>2. Underway'
  BY DEF SyncTyped, Jobs, Underway
<1>3. Spoilt'
  BY DEF SyncTyped, Jobs, Spoilt
<1>4. Unhashed'
  BY DEF SyncTyped, Jobs, Unhashed, Hashed, Rebuilt, Underway, NodesAt
<1>5. Hashed'
  BY DEF SyncTyped, Jobs, Hashed, Underway, Spoilt, Ingesting
<1>6. Chosen'
  BY DEF SyncTyped, Jobs, Chosen, Underway, Hashed, Spoilt, Changed
<1>7. Rebuilt'
  BY DEF SyncTyped, Jobs, Rebuilt, Chosen, Hashed, Unhashed, Mends, Spoilt, Underway, NodesAt
<1>8. HashBacked'
  BY DEF SyncTyped, Jobs, HashBacked, InHand, Chosen, Rebuilt, Hashed, Spoilt, Unhashed, Mends, NodesAt, Changed, Underway
<1>9. Ingesting'
  BY DEF SyncTyped, Jobs, Ingesting
<1> QED BY <1>1, <1>2, <1>3, <1>4, <1>5, <1>6, <1>7, <1>8, <1>9

LEMMA MissesMutedStep ==
  ASSUME SyncInv, MissesMuted
  PROVE  SyncInv'
<1> USE DEF SyncInv, Idle, SameGraph, SameRemote, NoFault, Blameless, MissesMuted, Keeps, On
<1>1. SyncTyped'
  <2>1. job' \in Jobs(Len(history))
    BY IdleType DEF SyncTyped, Jobs
  <2>2. /\ history' = history /\ checkout' \in 0..Len(history) /\ stored' \in 0..Len(history)
        /\ damaged' \subseteq File /\ marks' \subseteq Mark
    BY DEF SyncTyped, Jobs, InHand, Changed
  <2>3. graph' \in [File -> SUBSET Text]
    BY NodesType DEF SyncTyped, Jobs, Underway
  <2> QED BY <2>1, <2>2, <2>3, TypedStep
<1>2. Underway'
  BY DEF SyncTyped, Jobs, Underway
<1>3. Spoilt'
  BY DEF SyncTyped, Jobs, Spoilt
<1>4. Unhashed'
  BY DEF SyncTyped, Jobs, Unhashed, Hashed, Rebuilt, Underway, NodesAt
<1>5. Hashed'
  BY DEF SyncTyped, Jobs, Hashed, Underway, Spoilt, Ingesting
<1>6. Chosen'
  BY DEF SyncTyped, Jobs, Chosen, Underway, Hashed, Spoilt, Changed
<1>7. Rebuilt'
  BY DEF SyncTyped, Jobs, Rebuilt, Chosen, Hashed, Unhashed, Mends, Spoilt, Underway, NodesAt
<1>8. HashBacked'
  BY DEF SyncTyped, Jobs, HashBacked, InHand, Chosen, Rebuilt, Hashed, Spoilt, Unhashed, Mends, NodesAt, Changed, Underway
<1>9. Ingesting'
  BY DEF SyncTyped, Jobs, Ingesting
<1> QED BY <1>1, <1>2, <1>3, <1>4, <1>5, <1>6, <1>7, <1>8, <1>9

LEMMA RemovesStep ==
  ASSUME SyncInv, Removes
  PROVE  SyncInv'
<1> USE DEF SyncInv, Idle, SameGraph, SameRemote, NoFault, Blameless, Removes, Removed, On
<1>1. SyncTyped'
  <2>1. job' \in Jobs(Len(history))
    BY IdleType DEF SyncTyped, Jobs
  <2>2. /\ history' = history /\ checkout' \in 0..Len(history) /\ stored' \in 0..Len(history)
        /\ damaged' \subseteq File /\ marks' \subseteq Mark
    BY DEF SyncTyped, Jobs, InHand, Changed
  <2>3. graph' \in [File -> SUBSET Text]
    BY NodesType DEF SyncTyped, Jobs, Underway
  <2> QED BY <2>1, <2>2, <2>3, TypedStep
<1>2. Underway'
  BY DEF SyncTyped, Jobs, Underway
<1>3. Spoilt'
  BY DEF SyncTyped, Jobs, Spoilt
<1>4. Unhashed'
  BY DEF SyncTyped, Jobs, Unhashed, Hashed, Rebuilt, Underway, NodesAt
<1>5. Hashed'
  BY DEF SyncTyped, Jobs, Hashed, Underway, Spoilt, Ingesting
<1>6. Chosen'
  BY DEF SyncTyped, Jobs, Chosen, Underway, Hashed, Spoilt, Changed
<1>7. Rebuilt'
  BY DEF SyncTyped, Jobs, Rebuilt, Chosen, Hashed, Unhashed, Mends, Spoilt, Underway, NodesAt
<1>8. HashBacked'
  BY DEF SyncTyped, Jobs, HashBacked, InHand, Chosen, Rebuilt, Hashed, Spoilt, Unhashed, Mends, NodesAt, Changed, Underway
<1>9. Ingesting'
  BY DEF SyncTyped, Jobs, Ingesting
<1> QED BY <1>1, <1>2, <1>3, <1>4, <1>5, <1>6, <1>7, <1>8, <1>9

LEMMA ClearsStep ==
  ASSUME SyncInv, Clears
  PROVE  SyncInv'
<1> USE DEF SyncInv, Idle, SameGraph, SameRemote, NoFault, Blameless, Clears
<1>1. SyncTyped'
  <2>1. job' \in Jobs(Len(history))
    BY IdleType DEF SyncTyped, Jobs
  <2>2. /\ history' = history /\ checkout' \in 0..Len(history) /\ stored' \in 0..Len(history)
        /\ damaged' \subseteq File /\ marks' \subseteq Mark
    BY DEF SyncTyped, Jobs, InHand, Changed
  <2>3. graph' \in [File -> SUBSET Text]
    BY NodesType DEF SyncTyped, Jobs, Underway
  <2> QED BY <2>1, <2>2, <2>3, TypedStep
<1>2. Underway'
  BY DEF SyncTyped, Jobs, Underway
<1>3. Spoilt'
  BY DEF SyncTyped, Jobs, Spoilt
<1>4. Unhashed'
  BY DEF SyncTyped, Jobs, Unhashed, Hashed, Rebuilt, Underway, NodesAt
<1>5. Hashed'
  BY DEF SyncTyped, Jobs, Hashed, Underway, Spoilt, Ingesting
<1>6. Chosen'
  BY DEF SyncTyped, Jobs, Chosen, Underway, Hashed, Spoilt, Changed
<1>7. Rebuilt'
  BY DEF SyncTyped, Jobs, Rebuilt, Chosen, Hashed, Unhashed, Mends, Spoilt, Underway, NodesAt
<1>8. HashBacked'
  BY DEF SyncTyped, Jobs, HashBacked, InHand, Chosen, Rebuilt, Hashed, Spoilt, Unhashed, Mends, NodesAt, Changed, Underway
<1>9. Ingesting'
  BY DEF SyncTyped, Jobs, Ingesting
<1> QED BY <1>1, <1>2, <1>3, <1>4, <1>5, <1>6, <1>7, <1>8, <1>9

LEMMA ReclonesStep ==
  ASSUME SyncInv, Reclones
  PROVE  SyncInv'
<1> USE DEF SyncInv, Idle, SameGraph, SameRemote, NoFault, Blameless, Reclones
<1>1. SyncTyped'
  <2>1. job' \in Jobs(Len(history))
    BY IdleType DEF SyncTyped, Jobs
  <2>2. /\ history' = history /\ checkout' \in 0..Len(history) /\ stored' \in 0..Len(history)
        /\ damaged' \subseteq File /\ marks' \subseteq Mark
    BY DEF SyncTyped, Jobs, InHand, Changed
  <2>3. graph' \in [File -> SUBSET Text]
    BY NodesType DEF SyncTyped, Jobs, Underway
  <2> QED BY <2>1, <2>2, <2>3, TypedStep
<1>2. Underway'
  BY DEF SyncTyped, Jobs, Underway
<1>3. Spoilt'
  BY DEF SyncTyped, Jobs, Spoilt
<1>4. Unhashed'
  BY DEF SyncTyped, Jobs, Unhashed, Hashed, Rebuilt, Underway, NodesAt
<1>5. Hashed'
  BY DEF SyncTyped, Jobs, Hashed, Underway, Spoilt, Ingesting
<1>6. Chosen'
  BY DEF SyncTyped, Jobs, Chosen, Underway, Hashed, Spoilt, Changed
<1>7. Rebuilt'
  BY DEF SyncTyped, Jobs, Rebuilt, Chosen, Hashed, Unhashed, Mends, Spoilt, Underway, NodesAt
<1>8. HashBacked'
  BY DEF SyncTyped, Jobs, HashBacked, InHand, Chosen, Rebuilt, Hashed, Spoilt, Unhashed, Mends, NodesAt, Changed, Underway
<1>9. Ingesting'
  BY DEF SyncTyped, Jobs, Ingesting
<1> QED BY <1>1, <1>2, <1>3, <1>4, <1>5, <1>6, <1>7, <1>8, <1>9

LEMMA RootsStep ==
  ASSUME SyncInv, Roots
  PROVE  SyncInv'
<1> USE DEF SyncInv, Idle, SameGraph, SameRemote, NoFault, Blameless, Roots
<1>1. SyncTyped'
  <2>1. job' \in Jobs(Len(history))
    BY IdleType DEF SyncTyped, Jobs
  <2>2. /\ history' = history /\ checkout' \in 0..Len(history) /\ stored' \in 0..Len(history)
        /\ damaged' \subseteq File /\ marks' \subseteq Mark
    BY DEF SyncTyped, Jobs, InHand, Changed
  <2>3. graph' \in [File -> SUBSET Text]
    BY NodesType DEF SyncTyped, Jobs, Underway
  <2> QED BY <2>1, <2>2, <2>3, TypedStep
<1>2. Underway'
  BY DEF SyncTyped, Jobs, Underway
<1>3. Spoilt'
  BY DEF SyncTyped, Jobs, Spoilt
<1>4. Unhashed'
  BY DEF SyncTyped, Jobs, Unhashed, Hashed, Rebuilt, Underway, NodesAt
<1>5. Hashed'
  BY DEF SyncTyped, Jobs, Hashed, Underway, Spoilt, Ingesting
<1>6. Chosen'
  BY DEF SyncTyped, Jobs, Chosen, Underway, Hashed, Spoilt, Changed
<1>7. Rebuilt'
  BY DEF SyncTyped, Jobs, Rebuilt, Chosen, Hashed, Unhashed, Mends, Spoilt, Underway, NodesAt
<1>8. HashBacked'
  BY DEF SyncTyped, Jobs, HashBacked, InHand, Chosen, Rebuilt, Hashed, Spoilt, Unhashed, Mends, NodesAt, Changed, Underway
<1>9. Ingesting'
  BY DEF SyncTyped, Jobs, Ingesting
<1> QED BY <1>1, <1>2, <1>3, <1>4, <1>5, <1>6, <1>7, <1>8, <1>9

LEMMA RootIsLostStep ==
  ASSUME SyncInv, RootIsLost
  PROVE  SyncInv'
<1> USE DEF SyncInv, Idle, SameGraph, SameRemote, NoFault, Blameless, RootIsLost
<1>1. SyncTyped'
  <2>1. job' \in Jobs(Len(history))
    BY IdleType DEF SyncTyped, Jobs
  <2>2. /\ history' = history /\ checkout' \in 0..Len(history) /\ stored' \in 0..Len(history)
        /\ damaged' \subseteq File /\ marks' \subseteq Mark
    BY DEF SyncTyped, Jobs, InHand, Changed
  <2>3. graph' \in [File -> SUBSET Text]
    BY NodesType DEF SyncTyped, Jobs, Underway
  <2> QED BY <2>1, <2>2, <2>3, TypedStep
<1>2. Underway'
  BY DEF SyncTyped, Jobs, Underway
<1>3. Spoilt'
  BY DEF SyncTyped, Jobs, Spoilt, Hashed
<1>4. Unhashed'
  BY DEF SyncTyped, Jobs, Unhashed, Hashed, Rebuilt, Underway, NodesAt
<1>5. Hashed'
  BY DEF SyncTyped, Jobs, Hashed, Underway, Spoilt, Ingesting
<1>6. Chosen'
  BY DEF SyncTyped, Jobs, Chosen, Underway, Hashed, Spoilt, Changed
<1>7. Rebuilt'
  BY DEF SyncTyped, Jobs, Rebuilt, Chosen, Hashed, Unhashed, Mends, Spoilt, Underway, NodesAt
<1>8. HashBacked'
  BY DEF SyncTyped, Jobs, HashBacked, InHand, Chosen, Rebuilt, Hashed, Spoilt, Unhashed, Mends, NodesAt, Changed, Underway
<1>9. Ingesting'
  BY DEF SyncTyped, Jobs, Ingesting
<1> QED BY <1>1, <1>2, <1>3, <1>4, <1>5, <1>6, <1>7, <1>8, <1>9

LEMMA BuildsStep ==
  ASSUME SyncInv, NEW lost \in SUBSET job.files, BuiltWithout(lost)
  PROVE  SyncInv'
<1>1. /\ UNCHANGED <<history, checkout, stored, marks>>
      /\ job \in Jobs(Len(history)) /\ job.at = "building"
      /\ job.files \subseteq File /\ job.repairs \subseteq job.files
      /\ lost \subseteq File /\ damaged \subseteq File
      /\ checkout \in 1..Len(history) /\ job.cur \in 1..Len(history)
  BY DEF SyncInv, SyncTyped, Jobs, Chosen, Underway, BuiltWithout, SameRemote
<1>2. graph' = [f \in File |-> IF f \in job.files \ lost THEN graph[f] \cup NodesAt(checkout, f) ELSE graph[f]]
  BY DEF BuiltWithout, Built
<1>3. graph' \in [File -> SUBSET Text]
  BY <1>1, <1>2, NodesType DEF SyncInv, SyncTyped
<1>4. ~job.spoiled => \A f \in job.files : Mends(f) /\ f \notin lost => graph'[f] = NodesAt(checkout, f)
  BY <1>1, <1>2 DEF SyncInv, Rebuilt
<1>5. ~job.spoiled => stored # 0
  BY <1>1 DEF SyncInv, Hashed
<1>6. CASE job.ingests
  <2>1. /\ job' = Idle
        /\ damaged' = IF job.spoiled THEN File
                      ELSE (damaged \ job.repairs) \cup lost \cup Changed(job.cur, checkout)
    BY <1>6 DEF BuiltWithout, Done
  <2>2. SyncTyped'
    <3>1. damaged' \subseteq File
      BY <1>1, <2>1 DEF Changed
    <3> QED BY <1>1, <1>3, <2>1, <3>1, IdleType, TypedStep DEF SyncInv, SyncTyped
  <2>3. Underway' /\ Spoilt' /\ Hashed' /\ Ingesting' /\ Chosen' /\ Rebuilt' /\ Unhashed'
    BY <1>1, <1>5, <2>1 DEF Idle, Underway, Spoilt, Hashed, Ingesting, Chosen, Rebuilt, Unhashed
  <2>4. HashBacked'
    <3>1. ASSUME ~job.spoiled, NEW f \in File, f \notin damaged' PROVE graph'[f] = NodesAt(stored, f)
      <4>1. stored = checkout /\ f \notin lost /\ Mends(f)
        BY <1>1, <1>6, <2>1, <3>1 DEF SyncInv, Hashed, Mends
      <4>2. CASE f \in job.files
        BY <1>4, <3>1, <4>1, <4>2
      <4>3. CASE f \notin job.files
        <5>1. f \notin damaged
          BY <1>1, <4>1, <4>3 DEF Mends
        <5> QED BY <1>1, <1>2, <1>5, <3>1, <4>3, <5>1 DEF SyncInv, HashBacked, InHand
      <4> QED BY <4>2, <4>3
    <3> QED BY <1>1, <2>1, <3>1 DEF HashBacked, NodesAt
  <2> QED BY <2>2, <2>3, <2>4 DEF SyncInv
<1>7. CASE ~job.ingests
  <2>1. /\ job' = [job EXCEPT !.at = "restoring", !.repairs = job.repairs \ lost]
        /\ damaged' = damaged \cup lost
    BY <1>7 DEF BuiltWithout
  <2>2. /\ job'.at = "restoring" /\ job'.repairs = job.repairs \ lost /\ job'.files = job.files
        /\ job'.cur = job.cur /\ job'.spoiled = job.spoiled /\ job'.ingests = job.ingests
        /\ job' \in Jobs(Len(history))
    BY <1>1, <2>1 DEF Jobs
  <2>3. SyncTyped'
    BY <1>1, <1>3, <2>1, <2>2, TypedStep DEF SyncInv, SyncTyped
  <2>4. Underway' /\ Spoilt' /\ Hashed' /\ Ingesting' /\ Unhashed'
    BY <1>1, <1>5, <1>7, <2>1, <2>2 DEF SyncInv, Underway, Spoilt, Hashed, Ingesting, Unhashed
  <2>5. Chosen'
    BY <1>1, <2>2 DEF SyncInv, Chosen, Changed
  <2>6. Rebuilt'
    BY <1>1, <1>4, <2>1, <2>2 DEF SyncInv, Rebuilt, Mends, NodesAt
  <2>7. HashBacked'
    BY <1>1, <1>2, <2>1, <2>2 DEF SyncInv, HashBacked, InHand, NodesAt
  <2> QED BY <2>3, <2>4, <2>5, <2>6, <2>7 DEF SyncInv
<1> QED BY <1>6, <1>7

LEMMA StampsStep ==
  ASSUME SyncInv, Stamps
  PROVE  SyncInv'
<1> USE DEF SyncInv, Idle, SameGraph, SameRemote, NoFault, Blameless, Stamps, Done
<1>1. SyncTyped'
  <2>1. job' \in Jobs(Len(history))
    BY IdleType DEF SyncTyped, Jobs
  <2>2. /\ history' = history /\ checkout' \in 0..Len(history) /\ stored' \in 0..Len(history)
        /\ damaged' \subseteq File /\ marks' \subseteq Mark
    BY DEF SyncTyped, Jobs, InHand, Changed
  <2>3. graph' \in [File -> SUBSET Text]
    BY NodesType DEF SyncTyped, Jobs, Underway
  <2> QED BY <2>1, <2>2, <2>3, TypedStep
<1>2. Underway'
  BY DEF SyncTyped, Jobs, Underway
<1>3. Spoilt'
  BY DEF SyncTyped, Jobs, Spoilt
<1>4. Unhashed'
  BY DEF SyncTyped, Jobs, Unhashed, Hashed, Rebuilt, Underway, NodesAt
<1>5. Hashed'
  BY DEF SyncTyped, Jobs, Hashed, Underway, Spoilt, Ingesting
<1>6. Chosen'
  BY DEF SyncTyped, Jobs, Chosen, Underway, Hashed, Spoilt, Changed
<1>7. Rebuilt'
  BY DEF SyncTyped, Jobs, Rebuilt, Chosen, Hashed, Unhashed, Mends, Spoilt, Underway, NodesAt
<1>8. HashBacked'
  BY DEF SyncTyped, Jobs, HashBacked, InHand, Chosen, Rebuilt, Hashed, Spoilt, Unhashed, Mends, NodesAt, Changed, Underway
<1>9. Ingesting'
  BY DEF SyncTyped, Jobs, Ingesting
<1> QED BY <1>1, <1>2, <1>3, <1>4, <1>5, <1>6, <1>7, <1>8, <1>9

LEMMA IsCutStep ==
  ASSUME SyncInv, IsCut
  PROVE  SyncInv'
<1> USE DEF SyncInv, Idle, SameGraph, SameRemote, NoFault, Blameless, IsCut, Built, Removed, On
<1>1. SyncTyped'
  <2>1. job' \in Jobs(Len(history))
    BY IdleType DEF SyncTyped, Jobs
  <2>2. /\ history' = history /\ checkout' \in 0..Len(history) /\ stored' \in 0..Len(history)
        /\ damaged' \subseteq File /\ marks' \subseteq Mark
    BY DEF SyncTyped, Jobs, InHand, Changed
  <2>3. graph' \in [File -> SUBSET Text]
    BY NodesType DEF SyncTyped, Jobs, Underway
  <2> QED BY <2>1, <2>2, <2>3, TypedStep
<1>2. Underway'
  BY DEF SyncTyped, Jobs, Underway
<1>3. Spoilt'
  BY DEF SyncTyped, Jobs, Spoilt
<1>4. Unhashed'
  BY DEF SyncTyped, Jobs, Unhashed, Hashed, Rebuilt, Underway, NodesAt
<1>5. Hashed'
  BY DEF SyncTyped, Jobs, Hashed, Underway, Spoilt, Ingesting
<1>6. Chosen'
  BY DEF SyncTyped, Jobs, Chosen, Underway, Hashed, Spoilt, Changed
<1>7. Rebuilt'
  BY DEF SyncTyped, Jobs, Rebuilt, Chosen, Hashed, Unhashed, Mends, Spoilt, Underway, NodesAt
<1>8. HashBacked'
  BY DEF SyncTyped, Jobs, HashBacked, InHand, Chosen, Rebuilt, Hashed, Spoilt, Unhashed, Mends, NodesAt, Changed, Underway
<1>9. Ingesting'
  BY DEF SyncTyped, Jobs, Ingesting
<1> QED BY <1>1, <1>2, <1>3, <1>4, <1>5, <1>6, <1>7, <1>8, <1>9

\* Earlier revisions stay what they are.
LEMMA PushesStep ==
  ASSUME SyncInv, NEW f \in File, NEW t \in Text \cup {Missing}, Pushes(f, t)
  PROVE  SyncInv'
<1> DEFINE n == Len(history)
           new == [history[n] EXCEPT ![f] = t]
<1>1. /\ history \in Seq(Revisions) /\ n \in Nat /\ n >= 1 /\ history[n] \in Revisions
      /\ history' = Append(history, new)
      /\ UNCHANGED <<checkout, graph, stored, marks, damaged, job>>
  BY DEF SyncInv, SyncTyped, Pushes, SameGraph, Blameless
<1>2. new \in Revisions
  BY <1>1 DEF Revisions
<1> HIDE DEF new
<1>3. history' \in Seq(Revisions) /\ Len(history') = n + 1
  BY <1>1, <1>2
<1>4. \A rev \in 1..n : history'[rev] = history[rev]
  BY <1>1, <1>2
<1>5. checkout \in 0..n /\ stored \in 0..n /\ job \in Jobs(n) /\ job.cur \in 0..n
  BY DEF SyncInv, SyncTyped, Jobs
<1>6. SyncTyped'
  <2>1. job \in Jobs(n + 1)
    BY <1>1, <1>5 DEF Jobs
  <2> QED BY <1>1, <1>3, <1>5, <2>1 DEF SyncInv, SyncTyped
<1>7. Underway' /\ Spoilt' /\ Unhashed' /\ Hashed' /\ Ingesting'
  BY <1>1 DEF SyncInv, Underway, Spoilt, Unhashed, Hashed, Ingesting
<1>8. /\ stored # 0 => history'[stored] = history[stored]
      /\ job.cur # 0 => history'[job.cur] = history[job.cur]
      /\ checkout # 0 => history'[checkout] = history[checkout]
  BY <1>1, <1>4, <1>5
<1> HIDE DEF n
<1>9. Chosen'
  BY <1>1, <1>8 DEF SyncInv, Chosen, Underway, Changed
<1>10. Rebuilt'
  BY <1>1, <1>8 DEF SyncInv, Rebuilt, Mends, Underway, NodesAt
<1>11. HashBacked'
  BY <1>1, <1>8 DEF SyncInv, HashBacked, InHand, NodesAt
<1> QED BY <1>6, <1>7, <1>9, <1>10, <1>11 DEF SyncInv

\* Steps that move at most from "restoring" to "stamping", or note a mark.
LEMMA RestoringStep ==
  ASSUME SyncInv, UNCHANGED <<history, checkout, graph, stored, damaged>>, marks' \subseteq Mark,
         \/ job' = job
         \/ \E m \in Mark : job' = [job EXCEPT !.unseen = @ \cup {m}]
         \/ job.at = "restoring" /\ job' = [job EXCEPT !.at = "stamping"]
  PROVE  SyncInv'
<1> USE DEF SyncInv
<1>1. SyncTyped'
  <2>1. job' \in Jobs(Len(history))
    BY DEF SyncTyped, Jobs
  <2> QED BY <2>1, TypedStep DEF SyncTyped
<1>2. Underway' /\ Spoilt' /\ Unhashed' /\ Hashed' /\ Ingesting'
  BY DEF SyncTyped, Jobs, Underway, Spoilt, Unhashed, Hashed, Ingesting
<1>3. Chosen'
  BY DEF SyncTyped, Jobs, Chosen, Changed
<1>4. Rebuilt'
  BY DEF SyncTyped, Jobs, Rebuilt, Mends, NodesAt
<1>5. HashBacked'
  BY DEF SyncTyped, Jobs, HashBacked, InHand, NodesAt
<1> QED BY <1>1, <1>2, <1>3, <1>4, <1>5

LEMMA SyncInvInit == SyncInit => SyncInv
<1> SUFFICES ASSUME SyncInit PROVE SyncInv
  OBVIOUS
<1>1. SyncTyped
  <2>1. First \in Revisions
    BY SyncAssumption DEF Revisions
  <2>2. history \in Seq(Revisions) /\ Len(history) = 1
    BY <2>1 DEF SyncInit
  <2> QED BY <2>2 DEF SyncInit, SyncTyped, Jobs, Idle
<1> QED BY <1>1 DEF SyncInit, SyncInv, Idle, Underway, Spoilt, Unhashed, Hashed, Chosen, Rebuilt, HashBacked, Ingesting

LEMMA SyncInvNext == SyncInv /\ [SyncNext]_syncVars => SyncInv'
<1> SUFFICES ASSUME SyncInv, [SyncNext]_syncVars PROVE SyncInv'
  OBVIOUS
<1>1. ASSUME NEW f \in File, NEW t \in Text \cup {Missing}, Pushes(f, t) PROVE SyncInv'
  BY <1>1, PushesStep
<1>2. ASSUME NEW m \in Mark, Marks(m) PROVE SyncInv'
  <2>1. marks' \subseteq Mark
    BY <1>2 DEF SyncInv, SyncTyped, Marks
  <2> QED BY <1>2, <2>1, RestoringStep DEF Marks, SameRemote
<1>3. ASSUME NEW ingests \in BOOLEAN, Clones(ingests) PROVE SyncInv'
  BY <1>3, ClonesStep
<1>4. CASE ClearGraph \/ ReadsHash \/ MisreadsHash \/ Collects \/ MissesMuted \/ Removes \/ Clears
  BY <1>4, ClearGraphStep, ReadsHashStep, MisreadsHashStep, CollectsStep, MissesMutedStep, RemovesStep,
     ClearsStep
<1>5. CASE Reclones \/ Roots \/ RootIsLost \/ Stamps \/ IsCut
  BY <1>5, ReclonesStep, RootsStep, RootIsLostStep, StampsStep, IsCutStep
<1>9. CASE Builds
  BY <1>9, BuildsStep DEF Builds
<1>10. CASE BuildsInPart
  BY <1>10, BuildsStep DEF BuildsInPart
<1>11. job.kept \subseteq Mark /\ marks \subseteq Mark
  BY DEF SyncInv, SyncTyped, Jobs
<1>6. CASE Restores
  <2>1. marks' \subseteq Mark
    BY <1>6, <1>11 DEF Restores, Returning
  <2> QED BY <1>6, <2>1, RestoringStep DEF Restores, SameRemote
<1>7. CASE FailsToRestore
  <2>1. marks' \subseteq Mark
    BY <1>7, <1>11 DEF FailsToRestore, Returning
  <2> QED BY <1>7, <2>1, RestoringStep DEF FailsToRestore, SameRemote
<1>8. CASE UNCHANGED syncVars
  BY <1>8, <1>11, RestoringStep DEF syncVars
<1> QED BY <1>9, <1>10, <1>1, <1>2, <1>3, <1>4, <1>5, <1>6, <1>7, <1>8 DEF SyncNext

\* For any files, texts, revisions and faults: a sync starts from a hash that
\* the graph lives up to.
THEOREM HashBackedTheorem == SyncSpec => []HashBacked
<1>1. SyncInv => HashBacked
  BY DEF SyncInv
<1> QED BY <1>1, SyncInvInit, SyncInvNext, PTL DEF SyncSpec

-----------------------------------------------------------------------------

\* The marks.  What a job is about to remove it has collected, but for what its
\* list does not have and what came since; a full re-index removes everything.
Collected ==
  /\ job.restarts => /\ job.at # "reading"
                     /\ job.at \in {"collecting", "clearing"} => job.files = File
  /\ job.at = "clearing" => job.ingests \/ job.restarts
  /\ job.at \in {"removing", "clearing"} /\ ~job.ingests =>
       \A m \in marks : m[1] \in job.files => m \in job.kept \/ m \in Unkept

LEMMA CollectedStep == SyncInv /\ Collected /\ [SyncNext]_syncVars => Collected'
<1> SUFFICES ASSUME SyncInv, Collected, [SyncNext]_syncVars PROVE Collected'
  OBVIOUS
<1>1. job \in Jobs(Len(history)) /\ Ingesting /\ marks \subseteq Mark
  BY DEF SyncInv, SyncTyped
<1> USE DEF Collected, Unkept, On, Idle, Jobs
<1>2. ASSUME NEW f \in File, NEW t \in Text \cup {Missing}, Pushes(f, t) PROVE Collected'
  BY <1>2 DEF Pushes, SameGraph
<1>3. ASSUME NEW m \in Mark, Marks(m) PROVE Collected'
  BY <1>1, <1>3 DEF Marks
<1>4. ASSUME NEW ingests \in BOOLEAN, Clones(ingests) PROVE Collected'
  BY <1>1, <1>4 DEF Clones, SameGraph
<1>5. CASE ClearGraph
  BY <1>1, <1>5 DEF ClearGraph
<1>6. CASE ReadsHash
  <2>1. job.at = "reading" /\ ~job.restarts
    BY <1>6 DEF ReadsHash
  <2>2. /\ job'.at \in {"idle", "stamping", "collecting", "recloning"}
        /\ job'.restarts => job'.files = File
    <3>1. CASE job' = Idle
      BY <3>1
    <3>2. CASE \E files : job' = [job EXCEPT !.at = IF files = {} THEN "stamping" ELSE "collecting",
                                             !.files = files, !.repairs = files]
      BY <1>1, <2>1, <3>2
    <3>3. CASE job' = [job EXCEPT !.at = "collecting", !.files = File, !.repairs = File, !.restarts = TRUE]
      BY <1>1, <3>3
    <3>4. CASE job' = [job EXCEPT !.at = "recloning", !.repairs = {f \in File : graph[f] = {}}]
      BY <1>1, <2>1, <3>4
    <3> QED BY <1>6, <3>1, <3>2, <3>3, <3>4 DEF ReadsHash, Decides
  <2> QED BY <2>2
<1>7. ASSUME NEW kept, NEW unseen, Keeps(kept, unseen), job.at = "collecting", marks' = marks,
             \A m \in On(job.files) : m \in kept \/ m[2] = "unlisted" \/ m \in unseen
      PROVE  Collected'
  <2>1. /\ job'.kept = kept /\ job'.unseen = unseen /\ job'.files = job.files
        /\ job'.restarts = job.restarts
        /\ job'.at = IF job.restarts THEN "clearing" ELSE "removing"
    BY <1>1, <1>7 DEF Keeps
  <2> QED BY <1>7, <2>1
<1>12. CASE Collects
  BY <1>7, <1>12 DEF Collects, SameGraph
<1>13. CASE MissesMuted
  BY <1>7, <1>13 DEF MissesMuted, SameGraph
<1>8. CASE MisreadsHash \/ Removes \/ Clears \/ Reclones \/ Roots \/ RootIsLost
  BY <1>1, <1>8 DEF MisreadsHash, Removes, Clears, Reclones, Roots, RootIsLost
<1>14. ASSUME NEW lost, BuiltWithout(lost) PROVE Collected'
  <2>1. CASE job.ingests
    BY <1>14, <2>1 DEF BuiltWithout, Done
  <2>2. CASE ~job.ingests
    <3>1. job' = [job EXCEPT !.at = "restoring", !.repairs = job.repairs \ lost]
      BY <1>14, <2>2 DEF BuiltWithout
    <3> QED BY <1>1, <3>1
  <2> QED BY <2>1, <2>2
<1>9. CASE Builds \/ BuildsInPart
  BY <1>9, <1>14 DEF Builds, BuildsInPart
<1>10. CASE Restores \/ FailsToRestore \/ Stamps \/ IsCut
  BY <1>1, <1>10 DEF Restores, FailsToRestore, Stamps, IsCut, Done
<1>11. CASE UNCHANGED syncVars
  BY <1>11 DEF syncVars
<1> QED BY <1>2, <1>3, <1>4, <1>5, <1>6, <1>7, <1>8, <1>9, <1>10, <1>11,
           <1>12, <1>13 DEF SyncNext

\* Only the stage of the job, what it keeps and what it has in hand matter here.
LEMMA MarksStep == SyncInv /\ Collected /\ MarksSurvive /\ [SyncNext]_syncVars => MarksSurvive'
<1> SUFFICES ASSUME SyncInv, Collected, MarksSurvive, [SyncNext]_syncVars PROVE MarksSurvive'
  OBVIOUS
<1>1. job \in Jobs(Len(history)) /\ Ingesting /\ marks \subseteq Mark
  BY DEF SyncInv, SyncTyped
<1> USE DEF MarksSurvive, Carried, Idle, Jobs
<1>2. ASSUME NEW f \in File, NEW t \in Text \cup {Missing}, Pushes(f, t) PROVE MarksSurvive'
  BY <1>2 DEF Pushes, SameGraph, Blameless
<1>3. ASSUME NEW m \in Mark, Marks(m) PROVE MarksSurvive'
  BY <1>1, <1>3 DEF Marks
<1>4. ASSUME NEW ingests \in BOOLEAN, Clones(ingests) PROVE MarksSurvive'
  BY <1>1, <1>4 DEF Clones, SameGraph, Blameless
<1>5. CASE ClearGraph
  BY <1>5 DEF ClearGraph
<1>6. CASE ReadsHash
  BY <1>1, <1>6 DEF ReadsHash, Decides, SameGraph, Blameless
<1>7. CASE MisreadsHash
  BY <1>1, <1>7 DEF MisreadsHash, SameGraph, Blameless
<1>8. CASE Collects \/ MissesMuted
  BY <1>1, <1>8 DEF Collects, MissesMuted, Keeps, SameGraph, Blameless
<1>9. CASE Removes
  <2>1. ~job.ingests /\ \A m \in On(job.files) : m \in job.kept \/ m \in Unkept
    BY <1>1, <1>9 DEF Removes, Ingesting, Collected, On
  <2>2. /\ job'.at = "rooting" /\ job'.kept = job.kept
        /\ marks' = marks \ On(job.files) /\ owed' = owed \ Unkept
    BY <1>1, <1>9 DEF Removes, Removed
  <2> QED BY <1>9, <2>1, <2>2 DEF Removes
<1>10. CASE Clears
  <2>1. \A m \in marks : m[1] \in File
    BY <1>1, SyncAssumption
  <2> QED BY <1>1, <1>10, <2>1 DEF Clears, Ingesting, Collected
<1>11. CASE Reclones \/ Roots \/ RootIsLost
  BY <1>1, <1>11 DEF Reclones, Roots, RootIsLost, SameGraph, Blameless
<1>12. ASSUME NEW lost \in SUBSET job.files, BuiltWithout(lost) PROVE MarksSurvive'
  <2>1. CASE job.ingests
    BY <1>1, <1>12, <2>1 DEF BuiltWithout, Done, Ingesting
  <2>2. CASE ~job.ingests
    BY <1>1, <1>12, <2>2 DEF BuiltWithout
  <2> QED BY <2>1, <2>2
<1>18. CASE Builds \/ BuildsInPart
  BY <1>12, <1>18 DEF Builds, BuildsInPart
<1>13. CASE Restores
  BY <1>1, <1>13 DEF Restores
<1>14. CASE FailsToRestore
  BY <1>1, <1>14 DEF FailsToRestore
<1>15. CASE Stamps
  BY <1>1, <1>15 DEF Stamps, Done
<1>16. CASE IsCut
  BY <1>16 DEF IsCut
<1>17. CASE UNCHANGED syncVars
  BY <1>17 DEF syncVars
<1> QED BY <1>2, <1>3, <1>4, <1>5, <1>6, <1>7, <1>8, <1>9, <1>10, <1>11, <1>12, <1>13, <1>14,
           <1>15, <1>16, <1>17, <1>18 DEF SyncNext

\* For any files, texts, marks, revisions and faults: a mark is lost only with its
\* node, to /ingest or /clear, to a fault, or where the list or the moment misses it.
THEOREM MarksSurviveTheorem == SyncSpec => []MarksSurvive
<1>1. SyncInit => MarksSurvive /\ Collected
  BY DEF SyncInit, MarksSurvive, Collected, Idle
<1> QED BY <1>1, SyncInvInit, SyncInvNext, CollectedStep, MarksStep, PTL DEF SyncSpec

=============================================================================
