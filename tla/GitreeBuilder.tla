---------------------------- MODULE GitreeBuilder ----------------------------
(***************************************************************************)
(* The builder of concepts (mcp/src/gitree/builder.ts): a run fetches the  *)
(* pull requests and direct commits of a repository that its checkpoint    *)
(* has not passed, and goes through them by date; for each it saves a      *)
(* record, links it to the concepts a language model names, and moves the  *)
(* checkpoint.  Runs are started by requests and nothing keeps two of them *)
(* apart; storage calls fail, and the process may die at any await.        *)
(*                                                                         *)
(* Of the language model only its answer is kept: nothing, a concept to    *)
(* add the change to, or a concept to create, which may be one that exists *)
(* already: its identifier is made from the name.  It names at most one.   *)
(***************************************************************************)
EXTENDS Naturals, FiniteSets

CONSTANTS Change,        \* pull requests and commits of the repository
          Pull,          \* the pull requests among them
          Concept, Runner,
          MaxTime,       \* instants of GitHub's clock
          Lookback,      \* how far back a bootstrap sets the checkpoint
          MaxFaults,     \* calls that fail and deaths of the process,
          MaxTogether    \* and so many where runs may overlap

ASSUME BuilderAssumption == /\ Pull \subseteq Change /\ "none" \notin Change
                            /\ MaxTime \in Nat /\ Lookback \in Nat
                            /\ MaxFaults \in Nat /\ MaxTogether \in 0..MaxFaults

VARIABLES
  now, date,    \* the clock; when a change was merged, or authored
  landed,       \* the changes GitHub shows
  checkpoint, record,
  known, links,        \* the concepts, and the changes each lists: the database
  runner,
  overlap,      \* whether requests start runs while another is under way
  slipped,      \* history: changes that landed where no listing finds them
  horizon,      \* history: the furthest a bootstrap set the checkpoint
  replaced,     \* history: the changes a concept listed until it was created anew
  decided,      \* history: the concepts named for a change when it was last
                \* recorded before the checkpoint passed it
  faults

world == <<now, date, landed>>
lists == <<links, replaced>>
store == <<checkpoint, record, known, lists>>
history == <<slipped, horizon, decided>>
vars == <<now, date, landed, checkpoint, record, known, links, replaced, runner, overlap,
          slipped, horizon, decided, faults>>

None == "none"
Null == [ts |-> 0, ids |-> {}]
Checkpoint == [ts : 0..MaxTime, ids : SUBSET Change]

Decision == {[kind |-> None, on |-> None]}
            \cup [kind : {"add", "create"}, on : Concept]

Working == {"deciding", "recording", "looking", "linking", "creating", "exploring",
            "erring", "stamping", "stamped"}
RunnerType ==
  [at : {"idle", "booting", "seeding", "booted", "begin", "pulls", "commits"} \cup Working,
   seen : Checkpoint,              \* the checkpoint it read last
   todo : SUBSET Change,           \* changes it fetched and has not finished
   change : Change \cup {None}, decision : Decision,
   copy : SUBSET Change,           \* the concept's changes as it read them
   seeds : SUBSET Concept, cloned : BOOLEAN]

Idle == [at |-> "idle", seen |-> Null, todo |-> {}, change |-> None,
         decision |-> [kind |-> None, on |-> None], copy |-> {}, seeds |-> {}, cloned |-> FALSE]

TypeOK ==
  /\ now \in 1..MaxTime /\ date \in [Change -> 0..MaxTime] /\ landed \subseteq Change
  /\ checkpoint \in Checkpoint
  /\ record \in [Change -> {None, "done", "error"}]
  /\ known \subseteq Concept
  /\ links \in [Concept -> SUBSET Change] /\ replaced \in [Concept -> SUBSET Change]
  /\ runner \in [Runner -> RunnerType]
  /\ overlap \in BOOLEAN
  /\ slipped \subseteq Change /\ horizon \in 0..MaxTime
  /\ decided \in [Change -> SUBSET Concept]
  /\ faults \in 0..MaxFaults

Init ==
  /\ now = 1 /\ date = [c \in Change |-> 0] /\ landed = {}
  /\ checkpoint = Null
  /\ record = [c \in Change |-> None]
  /\ known = {} /\ links = [f \in Concept |-> {}] /\ replaced = [f \in Concept |-> {}]
  /\ runner = [r \in Runner |-> Idle]
  /\ overlap \in BOOLEAN
  /\ slipped = {} /\ horizon = 0 /\ decided = [c \in Change |-> {}]
  /\ faults = 0

\* The checkpoint has passed a change: later in time, or at its very instant
\* with the change among the ids it lists.
Passed(cp, c) == cp.ts > date[c] \/ (cp.ts = date[c] /\ c \in cp.ids)

Becomes(r, new) == runner' = [runner EXCEPT ![r] = new]
Goes(r, to) == Becomes(r, [runner[r] EXCEPT !.at = to])
Fails == faults < (IF overlap THEN MaxTogether ELSE MaxFaults) /\ faults' = faults + 1

-----------------------------------------------------------------------------
(* The repository.                                                          *)

Tick == /\ now < MaxTime
        /\ now' = now + 1
        /\ UNCHANGED <<date, landed, store, runner, overlap, history, faults>>

\* A pull request is dated by its merge, a commit by its author, who may have
\* written it before it was pushed.
Lands(c) ==
  /\ c \notin landed
  /\ landed' = landed \cup {c}
  /\ \E d \in IF c \in Pull THEN {now} ELSE 1..now :
       /\ date' = [date EXCEPT ![c] = d]
       /\ slipped' = IF d < now \/ \E r \in Runner : runner[r].at = "commits"
                     THEN slipped \cup {c} ELSE slipped
  /\ UNCHANGED <<now, store, runner, overlap, horizon, decided, faults>>

-----------------------------------------------------------------------------
(* gitree_process: a repository without concepts is bootstrapped first.     *)

Starts(r) ==
  /\ runner[r].at = "idle"
  /\ overlap \/ \A s \in Runner : runner[s].at = "idle"
  /\ Goes(r, IF known = {} THEN "booting" ELSE "begin")
  /\ UNCHANGED <<world, store, overlap, history, faults>>

\* The model names the first concepts; the clock is read for the checkpoint.
Explores(r) ==
  /\ runner[r].at = "booting"
  /\ \E seeds \in SUBSET Concept :
       Becomes(r, [runner[r] EXCEPT !.at = "seeding", !.seeds = seeds, !.cloned = TRUE,
                     !.seen = [ts |-> IF now > Lookback THEN now - Lookback ELSE 0, ids |-> {}]])
  /\ UNCHANGED <<world, store, overlap, history, faults>>

Seeds(r) ==
  /\ runner[r].at = "seeding"
  /\ \E f \in runner[r].seeds :
       /\ known' = known \cup {f}
       /\ links' = [links EXCEPT ![f] = {}]
       /\ Becomes(r, [runner[r] EXCEPT !.seeds = @ \ {f}])
  /\ UNCHANGED <<world, checkpoint, record, replaced, overlap, history, faults>>

SetsLookback(r) ==
  /\ runner[r].at = "seeding" /\ runner[r].seeds = {}
  /\ checkpoint' = runner[r].seen
  /\ horizon' = IF runner[r].seen.ts > horizon THEN runner[r].seen.ts ELSE horizon
  /\ Goes(r, "begin")
  /\ UNCHANGED <<world, record, known, lists, overlap, slipped, decided, faults>>

-----------------------------------------------------------------------------
(* processRepo: what has changed since the checkpoint.                      *)

\* A checkpoint that cannot be read counts as none.
ReadsCheckpoint(r, from, to) ==
  /\ runner[r].at = from
  /\ \/ Becomes(r, [runner[r] EXCEPT !.at = to, !.seen = checkpoint]) /\ UNCHANGED faults
     \/ Becomes(r, [runner[r] EXCEPT !.at = to, !.seen = Null]) /\ Fails
  /\ UNCHANGED <<world, store, overlap, history>>

Begins(r) == ReadsCheckpoint(r, "begin", "pulls")

ListsPulls(r) ==
  /\ runner[r].at = "pulls"
  /\ Becomes(r, [runner[r] EXCEPT !.at = "commits",
                   !.todo = {c \in landed \cap Pull : ~Passed(runner[r].seen, c)}])
  /\ UNCHANGED <<world, store, overlap, history, faults>>

\* A commit whose pull requests cannot be asked for is left out.
ListsCommits(r) ==
  /\ runner[r].at = "commits"
  /\ LET commits == {c \in landed \ Pull : ~Passed(runner[r].seen, c)} IN
     \E dropped \in SUBSET commits :
       LET todo == runner[r].todo \cup (commits \ dropped) IN
       /\ IF dropped = {} THEN UNCHANGED faults ELSE Fails
       /\ slipped' = slipped \cup dropped
       /\ Becomes(r, IF todo = {} THEN Idle
                     ELSE [runner[r] EXCEPT !.at = "deciding", !.todo = todo, !.seen = Null])
  /\ UNCHANGED <<world, store, overlap, horizon, decided>>

-----------------------------------------------------------------------------
(* One change.                                                              *)

\* The change is dealt with; what is left is the checkpoint.
Finishes(r) == Becomes(r, [runner[r] EXCEPT !.at = "stamping", !.copy = {},
                                            !.decision = Idle.decision])

Oldest(cs) == {c \in cs : \A e \in cs : date[c] <= date[e]}

\* Mutant: pull requests and commits are not sorted together by date.
MutDecides(r) ==
  /\ runner[r].at = "deciding"
  /\ \E c \in runner[r].todo, d \in Decision :
       /\ Becomes(r, [runner[r] EXCEPT !.at = "recording", !.change = c, !.decision = d])
  /\ UNCHANGED <<world, store, overlap, history, faults>>

\* The oldest change left, with what the model answers, or nothing at all for
\* a title that is skipped.
Decides(r) ==
  /\ runner[r].at = "deciding"
  /\ \E c \in Oldest(runner[r].todo), d \in Decision :
       /\ Becomes(r, [runner[r] EXCEPT !.at = "recording", !.change = c, !.decision = d])
  /\ UNCHANGED <<world, store, overlap, history, faults>>

\* Mutant: a change that a concept will list is not recorded first.
MutRecords(r) ==
  /\ runner[r].at = "recording"
  /\ Becomes(r, [runner[r] EXCEPT !.at = CASE runner[r].decision.kind = "add" -> "looking"
                                           [] runner[r].decision.kind = "create" -> "creating"
                                           [] OTHER -> "erring"])
  /\ UNCHANGED <<world, store, overlap, history, faults>>

\* The record is saved before any concept refers to the change.
Records(r) ==
  /\ runner[r].at = "recording"
  /\ LET c == runner[r].change
         d == runner[r].decision IN
     /\ record' = [record EXCEPT ![c] = "done"]
     /\ decided' = [decided EXCEPT ![c] =
                      IF Passed(checkpoint, c) THEN @
                      ELSE IF d.kind = "create" \/ (d.kind = "add" /\ d.on \in known)
                      THEN {d.on} ELSE {}]
     /\ Becomes(r, [runner[r] EXCEPT !.at = CASE d.kind = "add" -> "looking"
                                              [] d.kind = "create" -> "creating"
                                              [] OTHER -> "stamping"])
  /\ UNCHANGED <<world, checkpoint, known, lists, overlap, slipped, horizon, faults>>

\* getConcept; a concept that is not there, or has the change, is left alone.
LooksUp(r) ==
  /\ runner[r].at = "looking"
  /\ LET f == runner[r].decision.on
         have == links[f] IN
     IF f \notin known \/ runner[r].change \in have THEN Finishes(r)
     ELSE Becomes(r, [runner[r] EXCEPT !.at = "linking", !.copy = have])
  /\ UNCHANGED <<world, store, overlap, history, faults>>

\* saveConcept replaces the concept's list of changes.
Saves(r, from, changes) ==
  /\ runner[r].at = from
  /\ LET f == runner[r].decision.on IN
     /\ known' = known \cup {f}
     /\ links' = [links EXCEPT ![f] = changes]
     /\ replaced' = [replaced EXCEPT ![f] =
                       (IF from = "linking" THEN @ ELSE @ \cup links[f]) \ changes]
  /\ IF from = "creating" /\ runner[r].cloned THEN Goes(r, "exploring") ELSE Finishes(r)
  /\ UNCHANGED <<world, checkpoint, record, overlap, history, faults>>

LinksChange(r) == Saves(r, "linking", runner[r].copy \cup {runner[r].change})
\* Nothing asks whether the concept exists: its list starts anew.
CreatesConcept(r) == Saves(r, "creating", {runner[r].change})
\* exploreNewConcept documents a new concept, given a clone, and saves again.
ExploresConcept(r) == Saves(r, "exploring", {runner[r].change})

\* Any error while a change is processed leaves a minimal record.
Stumbles(r) ==
  /\ runner[r].at \in Working \ {"erring", "stamping", "stamped"}
  /\ Fails
  /\ \E c \in IF runner[r].at = "deciding" THEN Oldest(runner[r].todo) ELSE {runner[r].change} :
       Becomes(r, [runner[r] EXCEPT !.at = "erring", !.change = c, !.copy = {},
                                    !.decision = Idle.decision])
  /\ UNCHANGED <<world, store, overlap, history>>

\* Mutant: a change that failed half way is recorded like any other.
MutRecordsError(r) ==
  /\ runner[r].at = "erring"
  /\ record' = [record EXCEPT ![runner[r].change] = "done"]
  /\ Goes(r, "stamping")
  /\ UNCHANGED <<world, checkpoint, known, lists, overlap, history, faults>>

RecordsError(r) ==
  /\ runner[r].at = "erring"
  /\ record' = [record EXCEPT ![runner[r].change] = "error"]
  /\ decided' = [decided EXCEPT ![runner[r].change] = {}]
  /\ Goes(r, "stamping")
  /\ UNCHANGED <<world, checkpoint, known, lists, overlap, slipped, horizon, faults>>

Stamps(r) == ReadsCheckpoint(r, "stamping", "stamped")

\* updateCheckpoint, from the checkpoint as it was read; then the next change.
Advanced(seen, c) ==
  IF seen.ts < date[c] THEN [ts |-> date[c], ids |-> {c}]
  ELSE IF seen.ts = date[c] THEN [seen EXCEPT !.ids = @ \cup {c}]
  ELSE seen
MovesCheckpoint(r) ==
  /\ runner[r].at = "stamped"
  /\ LET c == runner[r].change
         seen == runner[r].seen
         todo == runner[r].todo \ {c} IN
     /\ checkpoint' = IF Advanced(seen, c) = seen THEN checkpoint ELSE Advanced(seen, c)
     /\ Becomes(r, IF todo = {} THEN Idle
                   ELSE [Idle EXCEPT !.at = "deciding", !.todo = todo,
                                     !.cloned = runner[r].cloned])
  /\ UNCHANGED <<world, record, known, lists, overlap, history, faults>>

-----------------------------------------------------------------------------
(* Faults that end a run: an error outside a change, or the process.        *)

Gives(r) ==
  /\ runner[r].at \notin (Working \ {"erring", "stamped"}) \cup {"idle"}
  /\ Fails
  /\ Becomes(r, Idle)
  /\ UNCHANGED <<world, store, overlap, history>>

Crash ==
  /\ Fails
  /\ \E r \in Runner : runner[r].at # "idle"
  /\ runner' = [r \in Runner |-> Idle]
  /\ UNCHANGED <<world, store, overlap, history>>

Step(r) ==
  \/ Explores(r) \/ Seeds(r) \/ SetsLookback(r)
  \/ Begins(r) \/ ListsPulls(r) \/ ListsCommits(r)
  \/ Decides(r) \/ Records(r) \/ LooksUp(r) \/ LinksChange(r)
  \/ CreatesConcept(r) \/ ExploresConcept(r)
  \/ RecordsError(r) \/ Stamps(r) \/ MovesCheckpoint(r)

Next == \/ Tick
        \/ \E c \in Change : Lands(c)
        \/ \E r \in Runner : Starts(r) \/ Step(r) \/ Stumbles(r) \/ Gives(r)
        \/ Crash

Spec == Init /\ [][Next]_vars

-----------------------------------------------------------------------------

\* The checkpoint has passed c, and not because a bootstrap put it there.
Behind(c) == Passed(checkpoint, c) /\ date[c] > horizon

\* A change the checkpoint has passed is on record, whatever runs overlap,
\* fail or die: the checkpoint moves only after the record, and the ids of an
\* instant keep apart the changes of that instant.  The exceptions are what
\* the code cannot see: a change behind a bootstrap's horizon, and one that
\* landed behind a listing.
CheckpointCovers ==
  \A c \in landed \ slipped : Behind(c) => record[c] # None

\* A concept refers only to changes on record: its TOUCHES edges are made by
\* matching them.
LinksOnRecord ==
  \A f \in Concept : \A c \in links[f] : record[c] # None

\* One run at a time: a change that was processed in full and passed is linked
\* to the concepts decided for it, through failures and crashes, and for as
\* long as none of them is created a second time.
DecisionKept ==
  ~overlap => \A c \in landed \ slipped : Behind(c) /\ record[c] = "done" =>
                \A f \in decided[c] : c \in links[f] \cup replaced[f]

=============================================================================
