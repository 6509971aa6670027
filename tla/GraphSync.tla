----------------------------- MODULE GraphSync -----------------------------
(***************************************************************************)
(* How the standalone server keeps a repository's graph                    *)
(* (standalone/src/service/graph_service.rs, ast/src/lang/graphs/          *)
(* graph_ops.rs, ast/src/builder/core.rs): /ingest builds it anew, /sync   *)
(* re-indexes the files that changed since the commit hash kept in the     *)
(* Repository node, and keeps the marks users put on nodes (muted nodes    *)
(* and the dynamic edges of hints and prompts).                            *)
(*                                                                         *)
(* A file's nodes are abstracted to the texts they were parsed from: the   *)
(* build only adds, so old and new ones may stand side by side.  There is  *)
(* one repository in the graph, and one job at a time                      *)
(* (AsyncIngest!OneAtATime), but /clear takes no turn.                     *)
(***************************************************************************)
EXTENDS Naturals, Sequences, FiniteSets

CONSTANTS File, Text,
          First,       \* the repository at its first revision
          Calls(_),    \* the files a text calls into
          Mark,        \* what users may put on a file's nodes
          MaxRevs,     \* revisions of the remote
          MaxFaults    \* jobs cut short and queries that fail

\* Muted nodes are listed by label before they are removed, and the list does
\* not have every label (it says DataModel and E2eTest where the graph says
\* Datamodel and E2etest); edges of hints and prompts are found by their source.
MarkKind == {"listed", "unlisted", "edge"}

Missing == "missing"
ASSUME SyncAssumption == /\ Missing \notin Text
                         /\ First \in [File -> Text \cup {Missing}]
                         /\ \A t \in Text : Calls(t) \subseteq File
                         /\ Mark \subseteq File \X MarkKind

VARIABLES history,    \* the revisions pushed to the remote
          checkout,   \* the revision of the local clone
          graph,      \* the texts whose nodes the graph holds, per file
          links,      \* calls between files, as pairs
          stored,     \* the hash of the Repository node; 0 without the node
          marks,      \* those that are on a node now
          job, faults,
          \* History variables of the properties.
          damaged,    \* files that a cut, a failed query or write, /clear or a moving remote left wrong
          owed        \* marks that no such event excuses

syncVars == <<history, checkout, graph, links, stored, marks, job, faults, damaged, owed>>

Revision == 1..Len(history)
Idle == [at |-> "idle", cur |-> 0, files |-> {}, repairs |-> {}, kept |-> {},
         unseen |-> {}, ingests |-> FALSE, restarts |-> FALSE, spoiled |-> FALSE]

SyncTypeOK ==
  /\ history \in Seq([File -> Text \cup {Missing}]) /\ Len(history) \in 1..MaxRevs
  /\ checkout \in 0..Len(history) /\ stored \in 0..Len(history)
  /\ graph \in [File -> SUBSET Text]
  /\ links \subseteq File \X File
  /\ marks \subseteq Mark /\ owed \subseteq Mark /\ damaged \subseteq File
  /\ job \in [at : {"idle", "reading", "collecting", "removing", "clearing", "recloning",
                    "rooting", "building", "restoring", "stamping"},
              cur : 0..Len(history), files : SUBSET File, repairs : SUBSET File,
              kept : SUBSET Mark, unseen : SUBSET Mark,
              ingests : BOOLEAN, restarts : BOOLEAN, spoiled : BOOLEAN]
  /\ faults \in 0..MaxFaults

SyncInit ==
  /\ history = <<First>>
  /\ checkout = 0 /\ stored = 0
  /\ graph = [f \in File |-> {}]
  /\ links = {} /\ marks = {} /\ damaged = {} /\ owed = {}
  /\ job = Idle
  /\ faults = 0

-----------------------------------------------------------------------------

\* Mutant: files that are gone from the new revision are not looked for.
MutChanged(old, new) ==
  {f \in File : history[new][f] \notin {history[old][f], Missing}}

\* get_changed_files, deleted files included.
Changed(old, new) == {f \in File : history[old][f] # history[new][f]}
NodesAt(rev, f) == {history[rev][f]} \ {Missing}
LinksFrom(f, texts, g) == {<<f, h>> : h \in {h \in UNION {Calls(t) : t \in texts} : g[h] # {}}}
Untouched(fs) == {l \in links : l[1] \notin fs /\ l[2] \notin fs}

SameGraph == UNCHANGED <<graph, links, stored, marks>>
SameRemote == UNCHANGED <<history, checkout>>
NoFault == UNCHANGED faults
Blameless == UNCHANGED <<damaged, owed>>

\* The environment.
Pushes(f, t) ==
  /\ Len(history) < MaxRevs /\ history[Len(history)][f] # t
  /\ history' = Append(history, [history[Len(history)] EXCEPT ![f] = t])
  /\ UNCHANGED <<checkout, job>> /\ SameGraph /\ NoFault /\ Blameless

On(fs) == {m \in marks : m[1] \in fs}

\* A mark that comes between collection and removal has been seen by nobody.
Marks(m) ==
  /\ graph[m[1]] # {} /\ m \notin marks
  /\ marks' = marks \cup {m} /\ owed' = owed \cup {m}
  /\ job' = IF job.at \in {"removing", "clearing"} THEN [job EXCEPT !.unseen = @ \cup {m}] ELSE job
  /\ UNCHANGED <<graph, links, stored, damaged>> /\ SameRemote /\ NoFault

\* /clear deletes everything, whatever job is running.
ClearGraph ==
  /\ graph' = [f \in File |-> {}] /\ links' = {} /\ stored' = 0 /\ marks' = {}
  /\ owed' = {}
  /\ damaged' = IF job.at = "idle" THEN {} ELSE File
  /\ job' = [job EXCEPT !.spoiled = job.at # "idle"]
  /\ SameRemote /\ NoFault

-----------------------------------------------------------------------------

\* clone_repo, then get_commit_hash.  /ingest clears the old graph before or
\* after it has the new one in memory; nobody else sees the difference.
Clones(ingests) ==
  /\ job.at = "idle"
  /\ checkout' = Len(history)
  /\ job' = [Idle EXCEPT !.at = IF ingests THEN "clearing" ELSE "reading",
                         !.cur = Len(history), !.ingests = ingests]
  /\ UNCHANGED history /\ SameGraph /\ NoFault /\ Blameless

\* With a stored hash that the clone knows, only changed files are touched;
\* with one it does not know (the remote was rewritten), everything is, after
\* the marks are collected; without one, nothing is removed.
Decides(hash) ==
  \/ hash = job.cur /\ job' = Idle
  \/ /\ hash \notin {0, job.cur}
     /\ LET files == Changed(hash, job.cur) IN
        job' = [job EXCEPT !.at = IF files = {} THEN "stamping" ELSE "collecting",
                           !.files = files, !.repairs = files]
  \/ /\ hash \notin {0, job.cur}
     /\ job' = [job EXCEPT !.at = "collecting", !.files = File, !.repairs = File, !.restarts = TRUE]
  \/ /\ hash = 0
     /\ job' = [job EXCEPT !.at = "recloning", !.repairs = {f \in File : graph[f] = {}}]

ReadsHash ==
  /\ job.at = "reading"
  /\ Decides(stored)
  /\ SameGraph /\ SameRemote /\ NoFault /\ Blameless

\* A query that fails reads as if no hash were stored.
MisreadsHash ==
  /\ job.at = "reading" /\ faults < MaxFaults /\ stored # 0
  /\ faults' = faults + 1
  /\ job' = [job EXCEPT !.at = "recloning", !.spoiled = TRUE]
  /\ SameGraph /\ SameRemote /\ Blameless

Keeps(kept, unseen) ==
  job' = [job EXCEPT !.kept = kept, !.unseen = unseen,
                     !.at = IF job.restarts THEN "clearing" ELSE "removing"]

Collects ==
  /\ job.at = "collecting"
  /\ Keeps({m \in On(job.files) : m[2] # "unlisted"}, {})
  /\ SameGraph /\ SameRemote /\ NoFault /\ Blameless

\* The list of muted nodes is taken for empty when it cannot be read; that of
\* the edges ends the job (IsCut).
MissesMuted ==
  /\ job.at = "collecting" /\ faults < MaxFaults
  /\ faults' = faults + 1
  /\ LET edges == {m \in On(job.files) : m[2] = "edge"} IN Keeps(edges, On(job.files) \ edges)
  /\ SameGraph /\ SameRemote /\ Blameless

\* Marks go with the nodes they are on.
Removed(fs) ==
  /\ graph' = [f \in File |-> IF f \in fs THEN {} ELSE graph[f]]
  /\ links' = Untouched(fs)
  /\ marks' = marks \ On(fs)

\* The marks of the files in hand that nobody could have collected.
Unkept == {m \in On(job.files) : m[2] = "unlisted" \/ m \in job.unseen}

Returning == {m \in job.kept : graph[m[1]] # {}}

\* Mutant: what a full re-index has collected is forgotten.
MutRestores ==
  /\ job.at = "restoring"
  /\ marks' = IF job.restarts THEN marks ELSE marks \cup Returning
  /\ owed' = owed \ (job.kept \ Returning)
  /\ job' = [job EXCEPT !.at = "stamping"]
  /\ UNCHANGED <<graph, links, stored, damaged>> /\ SameRemote /\ NoFault

Removes ==
  /\ job.at = "removing"
  /\ Removed(job.files)
  /\ job' = [job EXCEPT !.at = "rooting"]
  /\ owed' = owed \ Unkept
  /\ UNCHANGED <<stored, damaged>> /\ SameRemote /\ NoFault

\* clear_existing_graph takes the Repository node too.  /ingest keeps no marks.
Clears ==
  /\ job.at = "clearing"
  /\ stored' = 0
  /\ graph' = [f \in File |-> {}] /\ links' = {} /\ marks' = {}
  /\ owed' = IF job.ingests THEN {} ELSE owed \ Unkept
  /\ job' = [job EXCEPT !.files = File, !.repairs = File,
                        !.at = IF job.ingests THEN "rooting" ELSE "recloning"]
  /\ UNCHANGED damaged /\ SameRemote /\ NoFault

\* A sync that builds everything clones once more, and may get a later
\* revision than the one whose hash it will store.
Reclones ==
  /\ job.at = "recloning"
  /\ checkout' = Len(history)
  /\ job' = [job EXCEPT !.files = File, !.at = "rooting"]
  /\ UNCHANGED history /\ SameGraph /\ NoFault /\ Blameless

\* A build begins with the Repository node: one that is there is kept with
\* its hash, a new one gets the hash of the clone.
Roots ==
  /\ job.at = "rooting"
  /\ stored' = IF stored = 0 THEN checkout ELSE stored
  /\ job' = [job EXCEPT !.at = "building"]
  /\ UNCHANGED <<graph, links, marks>> /\ SameRemote /\ NoFault /\ Blameless

\* The write of a node that fails is passed over, that of the Repository node
\* too: the hash is then nowhere, and stamping it writes nothing.
RootIsLost ==
  /\ job.at = "rooting" /\ stored = 0 /\ faults < MaxFaults
  /\ faults' = faults + 1
  /\ job' = [job EXCEPT !.at = "building", !.spoiled = TRUE]
  /\ SameGraph /\ SameRemote /\ Blameless

Built(fs) ==
  LET g == [f \in File |-> IF f \in fs THEN graph[f] \cup NodesAt(checkout, f) ELSE graph[f]] IN
  /\ graph' = g
  /\ links' = links \cup UNION {LinksFrom(f, NodesAt(checkout, f), g) : f \in fs}

\* The job is over: what it built is what the stored hash says, unless the
\* clone has moved on from the revision it set out with.
Done(lost) ==
  /\ job' = Idle
  /\ damaged' = IF job.spoiled THEN File
                ELSE (damaged \ job.repairs) \cup lost \cup Changed(job.cur, checkout)

\* An ingest is complete with its build; a sync restores what it collected.
\* The files in `lost` go missing: those with a node whose write failed.
BuiltWithout(lost) ==
  /\ job.at = "building"
  /\ Built(job.files \ lost)
  /\ IF job.ingests
     THEN Done(lost)
     ELSE /\ job' = [job EXCEPT !.at = "restoring", !.repairs = @ \ lost]
          /\ damaged' = damaged \cup lost
  /\ UNCHANGED <<stored, marks, owed>> /\ SameRemote

Builds == BuiltWithout({}) /\ NoFault

\* Writes that fail are passed over, and the job goes on to stamp its hash.
BuildsInPart ==
  /\ faults < MaxFaults /\ faults' = faults + 1
  /\ \E lost \in SUBSET {f \in job.files : NodesAt(checkout, f) # {}} \ {{}} : BuiltWithout(lost)

\* Marks return where their node does.
Restores ==
  /\ job.at = "restoring"
  /\ marks' = marks \cup Returning
  /\ owed' = owed \ (job.kept \ Returning)
  /\ job' = [job EXCEPT !.at = "stamping"]
  /\ UNCHANGED <<graph, links, stored, damaged>> /\ SameRemote /\ NoFault

\* A mark whose restoration fails is only warned of.
FailsToRestore ==
  /\ job.at = "restoring" /\ faults < MaxFaults
  /\ faults' = faults + 1
  /\ \E back \in SUBSET Returning :
       marks' = marks \cup back /\ owed' = owed \ (job.kept \ (marks \cup back))
  /\ job' = [job EXCEPT !.at = "stamping"]
  /\ UNCHANGED <<graph, links, stored, damaged>> /\ SameRemote

\* update_repository_hash, last; without a Repository node it does nothing.
Stamps ==
  /\ job.at = "stamping"
  /\ stored' = IF stored = 0 THEN 0 ELSE job.cur
  /\ Done({})
  /\ UNCHANGED <<graph, links, marks, owed>> /\ SameRemote /\ NoFault

\* The files whose nodes the job has begun to replace.
InHand == IF job.at \in {"rooting", "building", "restoring", "stamping"} THEN job.files ELSE {}

\* An error, the deadline of the job, or the death of the server: nothing is
\* undone.  The removal commits in chunks, the build node by node.
IsCut ==
  /\ job.at # "idle" /\ faults < MaxFaults
  /\ faults' = faults + 1
  /\ \/ UNCHANGED <<graph, links, marks>>
     \/ /\ job.at = "removing"
        /\ \E fs \in SUBSET job.files : Removed(fs)
     \/ /\ job.at = "building"
        /\ \E fs \in SUBSET job.files : Built(fs)
        /\ UNCHANGED marks
  /\ job' = Idle
  /\ owed' = owed \cap marks'
  /\ damaged' = IF job.spoiled THEN File
                ELSE damaged \cup InHand \cup (IF job.at = "removing" THEN job.files ELSE {})
  /\ UNCHANGED stored /\ SameRemote

SyncNext ==
  \/ \E f \in File, t \in Text \cup {Missing} : Pushes(f, t)
  \/ \E m \in Mark : Marks(m)
  \/ \E ingests \in BOOLEAN : Clones(ingests)
  \/ ClearGraph \/ ReadsHash \/ MisreadsHash \/ Collects \/ MissesMuted \/ Removes \/ Clears
  \/ Reclones \/ Roots \/ RootIsLost \/ Builds \/ BuildsInPart \/ Restores \/ FailsToRestore \/ Stamps \/ IsCut

SyncSpec == SyncInit /\ [][SyncNext]_syncVars

-----------------------------------------------------------------------------

\* The stored hash is what the next sync starts from, and what makes it
\* answer "already processed": the graph holds exactly the nodes of that
\* revision, for every file that is not in hand and that none of the events
\* counted in `damaged` has left wrong.
HashBacked ==
  stored # 0 => \A f \in File \ (damaged \cup InHand) : graph[f] = NodesAt(stored, f)

\* Marks outlive the nodes they are on: an incremental sync and a full
\* re-index carry them over.  Not owed are those whose label is not listed once
\* their node has been removed, those that came after the collection, those of
\* nodes that are no more, and what /ingest, /clear and faults have taken.
Carried == IF job.at \in {"recloning", "rooting", "building", "restoring"} THEN job.kept ELSE {}
MarksSurvive == owed \subseteq marks \cup Carried

=============================================================================
