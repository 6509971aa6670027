------------------------ MODULE GitreeBuilderProofs ------------------------
(***************************************************************************)
(* The checkpoint and the records, for any repository, any concepts, any   *)
(* number of runs at once and of faults.                                   *)
(*                                                                         *)
(* What a run may rely on at each stage (Fine) only speaks of records that *)
(* exist, and records never go away; so runs cannot spoil it for each      *)
(* other, and neither can the repository, which dates what lands late no   *)
(* earlier than what was listed, or behind it (slipped).                   *)
(*                                                                         *)
(* That decisions are kept takes more and holds only while no two runs     *)
(* overlap: Solo says what the only run may rely on, where the links and   *)
(* the record of a change are written one after the other.                 *)
(***************************************************************************)
EXTENDS GitreeBuilder, TLAPS

Marks == [ts : Nat, ids : SUBSET Change]
States ==
  [at : {"idle", "booting", "seeding", "booted", "begin", "pulls", "commits"} \cup Working,
   seen : Marks, todo : SUBSET Change, change : Change \cup {None}, decision : Decision,
   copy : SUBSET Change, seeds : SUBSET Concept, cloned : BOOLEAN]

Typed ==
  /\ now \in Nat /\ date \in [Change -> Nat] /\ landed \subseteq Change
  /\ checkpoint \in Marks
  /\ record \in [Change -> {None, "done", "error"}]
  /\ links \in [Concept -> SUBSET Change]
  /\ runner \in [Runner -> States]
  /\ slipped \subseteq Change /\ horizon \in Nat

\* The changes a checkpoint answers for.
Owed == {c \in landed \ slipped : date[c] > horizon}
OnRecord(c) == record[c] # None
Covers(cp) == \A c \in Owed : Passed(cp, c) => OnRecord(c)

\* A checkpoint speaks of what has happened.
Past(cp) == cp.ts <= now /\ cp.ids \subseteq landed

\* What a run has read, listed and done so far.
Fine(q) ==
  /\ Past(q.seen) /\ q.todo \subseteq landed
  /\ q.at = "seeding" => q.seen.ids = {}
  /\ q.at \in {"pulls", "commits", "stamped"} => Covers(q.seen)
  /\ q.at = "commits" => \A c \in Owed \cap Pull : OnRecord(c) \/ c \in q.todo
  /\ q.at \in Working => \A c \in Owed : \/ OnRecord(c) \/ c \in q.todo
                                         \/ \A e \in q.todo : date[e] <= date[c]
  /\ q.at \in Working \ {"deciding"} => q.change \in Oldest(q.todo)
  /\ q.at \in {"looking", "linking", "creating", "exploring", "stamping", "stamped"} => OnRecord(q.change)
  /\ q.at = "looking" => q.decision.on \in Concept
  /\ q.at = "linking" => \A c \in q.copy : OnRecord(c)

IInv ==
  /\ Typed
  /\ \A c \in landed : date[c] <= now
  /\ Past(checkpoint) /\ Covers(checkpoint)
  /\ \A f \in Concept : \A c \in links[f] : OnRecord(c)
  /\ \A r \in Runner : Fine(runner[r])

-----------------------------------------------------------------------------

\* The repository stands still, and history only excuses more.
Onward ==
  /\ UNCHANGED <<now, date, landed>>
  /\ slipped \subseteq slipped' /\ slipped' \subseteq Change
  /\ horizon' \in Nat /\ horizon <= horizon'
  /\ record' \in [Change -> {None, "done", "error"}]
  /\ \A c \in Change : record[c] # None => record'[c] # None

LEMMA OwedShrinks == Typed /\ Onward => Owed' \subseteq Owed
BY DEF Typed, Onward, Owed

LEMMA FineStays ==
  ASSUME Typed, Onward, NEW q \in States, Fine(q)
  PROVE  Fine(q)'
<1>1. Owed' \subseteq Owed /\ Owed \subseteq Change
  BY OwedShrinks DEF Owed, Typed
<1>2. \A c \in Change : OnRecord(c) => OnRecord(c)'
  BY DEF Onward, OnRecord
<1>3. UNCHANGED <<now, date, landed>>
  BY DEF Onward
<1>4. Past(q.seen)' /\ (Covers(q.seen) => Covers(q.seen)')
  BY <1>1, <1>2, <1>3 DEF Fine, Past, Covers, Passed
<1>5. q.change \in Oldest(q.todo) => (q.change \in Oldest(q.todo))' /\ q.change \in Change
  BY <1>3 DEF Oldest, States
<1>6. q.copy \subseteq Change
  BY DEF States
<1>7. q.at \in Working => (\A c \in Owed : \/ OnRecord(c) \/ c \in q.todo
                                          \/ \A e \in q.todo : date[e] <= date[c])'
  BY <1>1, <1>2, <1>3 DEF Fine
<1>8. q.at \in {"looking", "linking", "creating", "exploring", "stamping", "stamped"} => OnRecord(q.change)'
  BY <1>2, <1>5 DEF Fine, Working
<1>9. q.at = "commits" => (\A c \in Owed \cap Pull : OnRecord(c) \/ c \in q.todo)'
  BY <1>1, <1>2 DEF Fine
<1>10. q.at = "linking" => (\A c \in q.copy : OnRecord(c))'
  BY <1>2, <1>6 DEF Fine
<1> HIDE DEF Working
<1> QED BY <1>3, <1>4, <1>5, <1>7, <1>8, <1>9, <1>10 DEF Fine

\* A step of one run.
LEMMA RunStep ==
  ASSUME IInv, Onward, NEW r \in Runner, NEW q \in States, runner' = [runner EXCEPT ![r] = q],
         Fine(q)', checkpoint' \in Marks, Past(checkpoint)', Covers(checkpoint)',
         links' \in [Concept -> SUBSET Change],
         \A f \in Concept : \A c \in links'[f] : record'[c] # None
  PROVE  IInv'
<1>1. runner \in [Runner -> States] /\ runner' \in [Runner -> States]
  BY DEF IInv, Typed
<1>2. Typed'
  BY <1>1 DEF IInv, Typed, Onward
<1>3. ASSUME NEW s \in Runner PROVE Fine(runner[s])'
  <2>1. CASE s = r
    <3>1. runner'[s] = q
      BY <1>1, <2>1
    <3> QED BY <3>1 DEF Fine
  <2>2. CASE s # r
    <3>1. runner'[s] = runner[s] /\ runner[s] \in States /\ Fine(runner[s])
      BY <1>1, <2>2 DEF IInv
    <3>2. PICK x : x = runner[s]
      OBVIOUS
    <3>3. Fine(x)'
      BY <3>1, <3>2, FineStays DEF IInv
    <3> QED BY <3>1, <3>2, <3>3
  <2> QED BY <2>1, <2>2
<1>4. \A c \in landed' : date'[c] <= now'
  BY DEF IInv, Onward
<1> QED BY <1>2, <1>3, <1>4 DEF IInv, OnRecord

\* One that writes neither the checkpoint nor the links.
LEMMA QuietStep ==
  ASSUME IInv, Onward, NEW r \in Runner, NEW q \in States, runner' = [runner EXCEPT ![r] = q],
         Fine(q)', UNCHANGED <<checkpoint, links>>
  PROVE  IInv'
<1>1. Past(checkpoint)' /\ Covers(checkpoint)'
  <2>1. Owed' \subseteq Owed /\ Owed \subseteq Change
    BY OwedShrinks DEF IInv, Owed, Typed
  <2> QED BY <2>1 DEF IInv, Onward, Past, Covers, Passed, OnRecord
<1>2. \A f \in Concept : \A c \in links'[f] : record'[c] # None
  BY DEF IInv, Typed, Onward, OnRecord
<1>3. checkpoint' \in Marks /\ links' \in [Concept -> SUBSET Change]
  BY DEF IInv, Typed
<1> QED BY <1>1, <1>2, <1>3, RunStep

LEMMA StillStep ==
  ASSUME IInv, UNCHANGED <<world, record, slipped, horizon, checkpoint, links>>,
         NEW r \in Runner, NEW q \in States, runner' = [runner EXCEPT ![r] = q], Fine(q)
  PROVE  IInv'
<1>1. Typed /\ Onward
  BY DEF IInv, Typed, Onward, world
<1>2. Fine(q)'
  BY <1>1, FineStays
<1> QED BY <1>1, <1>2, QuietStep

LEMMA FineIdle == Typed => Idle \in States /\ Fine(Idle)
BY DEF Typed, Idle, Null, States, Marks, Decision, Fine, Past, Working

-----------------------------------------------------------------------------

LEMMA NullCovers == Typed => Null \in Marks /\ Past(Null) /\ Covers(Null)
BY DEF Typed, Null, Marks, Past, Covers, Owed, Passed

LEMMA StartsStep ==
  ASSUME IInv, NEW r \in Runner, Starts(r)
  PROVE  IInv'
<1>1. /\ Typed /\ runner[r] \in States /\ Fine(runner[r])
      /\ UNCHANGED <<world, record, slipped, horizon, checkpoint, links>>
  BY DEF IInv, Typed, Starts, world, store, lists, history
<1>2. PICK q : q = [runner[r] EXCEPT !.at = IF known = {} THEN "booting" ELSE "begin"]
  OBVIOUS
<1>3. q \in States /\ Fine(q)
  BY <1>1, <1>2 DEF States, Fine, Working
<1> QED BY <1>1, <1>2, <1>3, StillStep DEF Starts, Goes, Becomes

LEMMA ExploresStep ==
  ASSUME IInv, NEW r \in Runner, Explores(r)
  PROVE  IInv'
<1>1. /\ Typed /\ runner[r] \in States /\ Fine(runner[r])
      /\ UNCHANGED <<world, record, slipped, horizon, checkpoint, links>>
  BY DEF IInv, Typed, Explores, world, store, lists, history
<1>2. PICK seeds \in SUBSET Concept : Explores(r)!2!(seeds)
  BY DEF Explores
<1>3. PICK q : q = [runner[r] EXCEPT !.at = "seeding", !.seeds = seeds, !.cloned = TRUE,
                      !.seen = [ts |-> IF now > Lookback THEN now - Lookback ELSE 0, ids |-> {}]]
  OBVIOUS
<1>4. PICK ts \in Nat : ts = (IF now > Lookback THEN now - Lookback ELSE 0) /\ ts <= now
  <2>1. now \in Nat /\ Lookback \in Nat
    BY <1>1, BuilderAssumption DEF Typed
  <2>2. CASE now > Lookback
    <3>1. now - Lookback \in Nat /\ now - Lookback <= now
      BY <2>1, <2>2
    <3> QED BY <2>2, <3>1
  <2>3. CASE ~(now > Lookback)
    BY <2>1, <2>3
  <2> QED BY <2>2, <2>3
<1>5. q \in States /\ Fine(q)
  BY <1>1, <1>3, <1>4 DEF States, Marks, Fine, Past, Working
<1> QED BY <1>1, <1>2, <1>3, <1>5, StillStep DEF Becomes

LEMMA BeginsStep ==
  ASSUME IInv, NEW r \in Runner, Begins(r)
  PROVE  IInv'
<1>1. /\ Typed /\ runner[r] \in States /\ Fine(runner[r])
      /\ UNCHANGED <<world, record, slipped, horizon, checkpoint, links>>
  BY DEF IInv, Typed, Begins, world, store, lists, history, ReadsCheckpoint
<1>2. PICK seen \in {checkpoint, Null} : runner' = [runner EXCEPT ![r] = [runner[r] EXCEPT !.at = "pulls", !.seen = seen]]
  BY DEF Begins, ReadsCheckpoint, Becomes
<1>3. PICK q : q = [runner[r] EXCEPT !.at = "pulls", !.seen = seen]
  OBVIOUS
<1>4. seen \in Marks /\ Past(seen) /\ Covers(seen)
  BY <1>1, NullCovers DEF IInv, Typed
<1>5. runner[r].at = "begin"
  BY DEF Begins, ReadsCheckpoint
<1>6. q \in States /\ Fine(q)
  BY <1>1, <1>3, <1>4, <1>5 DEF States, Fine, Working
<1> QED BY <1>1, <1>2, <1>3, <1>6, StillStep

LEMMA StampsStep ==
  ASSUME IInv, NEW r \in Runner, Stamps(r)
  PROVE  IInv'
<1>1. /\ Typed /\ runner[r] \in States /\ Fine(runner[r])
      /\ UNCHANGED <<world, record, slipped, horizon, checkpoint, links>>
  BY DEF IInv, Typed, Stamps, world, store, lists, history, ReadsCheckpoint
<1>2. PICK seen \in {checkpoint, Null} : runner' = [runner EXCEPT ![r] = [runner[r] EXCEPT !.at = "stamped", !.seen = seen]]
  BY DEF Stamps, ReadsCheckpoint, Becomes
<1>3. PICK q : q = [runner[r] EXCEPT !.at = "stamped", !.seen = seen]
  OBVIOUS
<1>4. seen \in Marks /\ Past(seen) /\ Covers(seen)
  BY <1>1, NullCovers DEF IInv, Typed
<1>5. runner[r].at = "stamping"
  BY DEF Stamps, ReadsCheckpoint
<1>6. q \in States /\ Fine(q)
  BY <1>1, <1>3, <1>4, <1>5 DEF States, Fine, Working
<1> QED BY <1>1, <1>2, <1>3, <1>6, StillStep

LEMMA ListsPullsStep ==
  ASSUME IInv, NEW r \in Runner, ListsPulls(r)
  PROVE  IInv'
<1>1. /\ Typed /\ runner[r] \in States /\ Fine(runner[r])
      /\ UNCHANGED <<world, record, slipped, horizon, checkpoint, links>>
  BY DEF IInv, Typed, ListsPulls, world, store, lists, history
<1>2. PICK todo : todo = {c \in landed \cap Pull : ~Passed(runner[r].seen, c)}
  OBVIOUS
<1>3. PICK q : q = [runner[r] EXCEPT !.at = "commits", !.todo = todo]
  OBVIOUS
<1>4. runner[r].at = "pulls" /\ runner' = [runner EXCEPT ![r] = q]
  BY <1>2, <1>3 DEF ListsPulls, Becomes
<1>5. todo \subseteq landed /\ \A c \in Owed \cap Pull : OnRecord(c) \/ c \in todo
  BY <1>1, <1>2, <1>4 DEF Fine, Covers, Owed
<1>6. q \in States /\ Fine(q)
  BY <1>1, <1>3, <1>4, <1>5 DEF Typed, States, Fine, Working
<1> QED BY <1>1, <1>4, <1>6, StillStep

LEMMA DecidesStep ==
  ASSUME IInv, NEW r \in Runner, Decides(r)
  PROVE  IInv'
<1>1. /\ Typed /\ runner[r] \in States /\ Fine(runner[r])
      /\ UNCHANGED <<world, record, slipped, horizon, checkpoint, links>>
  BY DEF IInv, Typed, Decides, world, store, lists, history
<1>2. PICK c \in Oldest(runner[r].todo), d \in Decision : Decides(r)!2!(c, d)
  BY DEF Decides
<1>3. PICK q : q = [runner[r] EXCEPT !.at = "recording", !.change = c, !.decision = d]
  OBVIOUS
<1>4. runner[r].at = "deciding" /\ c \in Change
  BY <1>1, <1>2 DEF Decides, Oldest, States
<1>5. q \in States /\ Fine(q)
  BY <1>1, <1>2, <1>3, <1>4 DEF States, Fine, Working
<1> QED BY <1>1, <1>2, <1>3, <1>5, StillStep DEF Becomes

LEMMA LooksUpStep ==
  ASSUME IInv, NEW r \in Runner, LooksUp(r)
  PROVE  IInv'
<1>1. /\ Typed /\ runner[r] \in States /\ Fine(runner[r])
      /\ UNCHANGED <<world, record, slipped, horizon, checkpoint, links>>
  BY DEF IInv, Typed, LooksUp, world, store, lists, history
<1>2. /\ runner[r].at = "looking" /\ runner[r].decision \in Decision
      /\ runner[r].decision.on \in Concept
  BY <1>1 DEF LooksUp, States, Fine
<1>3. PICK finished : finished = [runner[r] EXCEPT !.at = "stamping", !.copy = {},
                                                    !.decision = Idle.decision]
  OBVIOUS
<1>4. PICK linking : linking = [runner[r] EXCEPT !.at = "linking", !.copy = links[runner[r].decision.on]]
  OBVIOUS
<1>5. CASE runner' = [runner EXCEPT ![r] = finished]
  <2>1. finished \in States /\ Fine(finished)
    BY <1>1, <1>2, <1>3 DEF States, Fine, Working, Decision, Idle
  <2> QED BY <1>1, <1>5, <2>1, StillStep
<1>6. CASE runner' = [runner EXCEPT ![r] = linking]
  <2>1. /\ links[runner[r].decision.on] \subseteq Change
        /\ \A c \in links[runner[r].decision.on] : OnRecord(c)
    BY <1>2 DEF IInv, Typed
  <2>2. linking \in States /\ Fine(linking)
    BY <1>1, <1>2, <1>4, <2>1 DEF States, Fine, Working
  <2> QED BY <1>1, <1>6, <2>2, StillStep
<1>7. \/ runner' = [runner EXCEPT ![r] = finished]
      \/ runner' = [runner EXCEPT ![r] = linking]
  BY <1>3, <1>4 DEF LooksUp, Finishes, Becomes
<1> QED BY <1>5, <1>6, <1>7

LEMMA StumblesStep ==
  ASSUME IInv, NEW r \in Runner, Stumbles(r)
  PROVE  IInv'
<1>1. /\ Typed /\ runner[r] \in States /\ Fine(runner[r])
      /\ UNCHANGED <<world, record, slipped, horizon, checkpoint, links>>
  BY DEF IInv, Typed, Stumbles, world, store, lists, history
<1>2. PICK c \in IF runner[r].at = "deciding" THEN Oldest(runner[r].todo) ELSE {runner[r].change} :
        runner' = [runner EXCEPT ![r] = [runner[r] EXCEPT !.at = "erring", !.change = c, !.copy = {},
                                                          !.decision = Idle.decision]]
  BY DEF Stumbles, Becomes
<1>3. PICK q : q = [runner[r] EXCEPT !.at = "erring", !.change = c, !.copy = {},
                                     !.decision = Idle.decision]
  OBVIOUS
<1>4. runner[r].at \in Working
  BY DEF Stumbles
<1>5. c \in Oldest(runner[r].todo) /\ c \in Change
  BY <1>1, <1>2, <1>4 DEF Fine, Oldest, States
<1>6. q \in States /\ Fine(q)
  BY <1>1, <1>3, <1>4, <1>5 DEF States, Fine, Working, Decision, Idle
<1> QED BY <1>1, <1>2, <1>3, <1>6, StillStep

LEMMA GivesStep ==
  ASSUME IInv, NEW r \in Runner, Gives(r)
  PROVE  IInv'
<1>1. /\ Typed /\ runner[r] \in States /\ Fine(runner[r])
      /\ UNCHANGED <<world, record, slipped, horizon, checkpoint, links>>
  BY DEF IInv, Typed, Gives, world, store, lists, history
<1> QED BY <1>1, FineIdle, StillStep DEF Gives, Becomes

\* The commits complete the list.  One whose pull requests cannot be asked for
\* is left out, and counts as slipped.
LEMMA ListsCommitsStep ==
  ASSUME IInv, NEW r \in Runner, ListsCommits(r)
  PROVE  IInv'
<1>1. /\ Typed /\ runner[r] \in States /\ Fine(runner[r]) /\ runner[r].at = "commits"
      /\ UNCHANGED <<now, date, landed, record, horizon, checkpoint, links>>
  BY DEF IInv, Typed, ListsCommits, world, store, lists
<1>2. PICK commits : commits = {c \in landed \ Pull : ~Passed(runner[r].seen, c)}
  OBVIOUS
<1>3. PICK dropped \in SUBSET commits :
        /\ slipped' = slipped \cup dropped
        /\ LET todo == runner[r].todo \cup (commits \ dropped) IN
           Becomes(r, IF todo = {} THEN Idle
                      ELSE [runner[r] EXCEPT !.at = "deciding", !.todo = todo, !.seen = Null])
  BY <1>2 DEF ListsCommits
<1>4. PICK todo : todo = runner[r].todo \cup (commits \ dropped)
  OBVIOUS
<1>5. PICK q : q = [runner[r] EXCEPT !.at = "deciding", !.todo = todo, !.seen = Null]
  OBVIOUS
<1>6. Onward
  BY <1>1, <1>2, <1>3 DEF Typed, Onward
<1>7. todo \subseteq landed /\ \A c \in Owed' : OnRecord(c) \/ c \in todo
  BY <1>1, <1>2, <1>3, <1>4 DEF Typed, Fine, Covers, Owed
<1>8. q \in States
  BY <1>1, <1>5, <1>7, NullCovers DEF Typed, States, Working
<1>9. Fine(q)'
  BY <1>1, <1>5, <1>7, NullCovers DEF Fine, Past, Working, OnRecord
<1>10. Idle \in States /\ Fine(Idle)'
  BY <1>1, <1>6, FineIdle, FineStays
<1>11. runner' = [runner EXCEPT ![r] = q] \/ runner' = [runner EXCEPT ![r] = Idle]
  BY <1>3, <1>4, <1>5 DEF Becomes
<1> QED BY <1>1, <1>6, <1>8, <1>9, <1>10, <1>11, QuietStep

\* What a change in the links must respect.
LEMMA LinkStep ==
  ASSUME IInv, UNCHANGED <<world, record, slipped, horizon, checkpoint>>,
         NEW r \in Runner, NEW q \in States, runner' = [runner EXCEPT ![r] = q], Fine(q),
         NEW f, NEW changes \in SUBSET Change, links' = [links EXCEPT ![f] = changes],
         \A c \in changes : OnRecord(c)
  PROVE  IInv'
<1>1. Typed /\ Onward
  BY DEF IInv, Typed, Onward, world
<1>2. Fine(q)'
  BY <1>1, FineStays
<1>3. checkpoint' \in Marks /\ Past(checkpoint)' /\ Covers(checkpoint)'
  BY DEF IInv, Typed, Past, Covers, Owed, Passed, OnRecord, world
<1>4. /\ links' \in [Concept -> SUBSET Change]
      /\ \A g \in Concept : \A c \in links'[g] : record'[c] # None
  BY DEF IInv, Typed, OnRecord
<1> QED BY <1>1, <1>2, <1>3, <1>4, RunStep

LEMMA SeedsStep ==
  ASSUME IInv, NEW r \in Runner, Seeds(r)
  PROVE  IInv'
<1>1. /\ Typed /\ runner[r] \in States /\ Fine(runner[r])
      /\ UNCHANGED <<world, record, slipped, horizon, checkpoint>>
  BY DEF IInv, Typed, Seeds, world, history
<1>2. PICK f \in runner[r].seeds : /\ links' = [links EXCEPT ![f] = {}]
                                   /\ Becomes(r, [runner[r] EXCEPT !.seeds = @ \ {f}])
  BY DEF Seeds
<1>3. PICK q : q = [runner[r] EXCEPT !.seeds = runner[r].seeds \ {f}]
  OBVIOUS
<1>4. q \in States /\ Fine(q)
  BY <1>1, <1>3 DEF States, Fine
<1>5. runner' = [runner EXCEPT ![r] = q]
  BY <1>2, <1>3 DEF Becomes
<1>6. PICK nothing \in SUBSET Change : nothing = {}
  OBVIOUS
<1>7. links' = [links EXCEPT ![f] = nothing]
  BY <1>2, <1>6
<1>8. \A c \in nothing : OnRecord(c)
  BY <1>6
<1> QED BY <1>1, <1>4, <1>5, <1>7, <1>8, LinkStep

\* saveConcept, with changes that are on record.
LEMMA SavesStep ==
  ASSUME IInv, NEW r \in Runner, NEW from \in {"linking", "creating", "exploring"},
         NEW changes \in SUBSET Change, \A c \in changes : OnRecord(c), Saves(r, from, changes)
  PROVE  IInv'
<1>1. /\ Typed /\ runner[r] \in States /\ Fine(runner[r]) /\ runner[r].at = from
      /\ UNCHANGED <<world, record, slipped, horizon, checkpoint>>
  BY DEF IInv, Typed, Saves, world, history
<1>2. PICK finished : finished = [runner[r] EXCEPT !.at = "stamping", !.copy = {},
                                                    !.decision = Idle.decision]
  OBVIOUS
<1>3. PICK exploring : exploring = [runner[r] EXCEPT !.at = "exploring"]
  OBVIOUS
<1>4. finished \in States /\ Fine(finished)
  BY <1>1, <1>2 DEF States, Fine, Working, Decision, Idle
<1>5. exploring \in States /\ Fine(exploring)
  BY <1>1, <1>3 DEF States, Fine, Working
<1>6. \/ runner' = [runner EXCEPT ![r] = finished]
      \/ runner' = [runner EXCEPT ![r] = exploring]
  BY <1>2, <1>3 DEF Saves, Goes, Finishes, Becomes
<1>7. links' = [links EXCEPT ![runner[r].decision.on] = changes]
  BY DEF Saves
<1> QED BY <1>1, <1>4, <1>5, <1>6, <1>7, LinkStep

LEMMA LinksChangeStep ==
  ASSUME IInv, NEW r \in Runner, LinksChange(r) \/ CreatesConcept(r) \/ ExploresConcept(r)
  PROVE  IInv'
<1>1. runner[r] \in States /\ Fine(runner[r])
  BY DEF IInv, Typed
<1>2. CASE LinksChange(r)
  <2>1. runner[r].at = "linking"
    BY <1>2 DEF LinksChange, Saves
  <2>2. /\ \A c \in runner[r].copy \cup {runner[r].change} : OnRecord(c)
        /\ runner[r].copy \cup {runner[r].change} \in SUBSET Change
    BY <1>1, <2>1 DEF Fine, States, Working, Oldest
  <2> QED BY <1>2, <2>2, SavesStep DEF LinksChange
<1>3. ASSUME NEW from \in {"creating", "exploring"}, Saves(r, from, {runner[r].change})
      PROVE  IInv'
  <2>1. runner[r].at = from
    BY <1>3 DEF Saves
  <2>2. OnRecord(runner[r].change) /\ {runner[r].change} \in SUBSET Change
    BY <1>1, <2>1 DEF Fine, States, Working, Oldest
  <2> QED BY <1>3, <2>2, SavesStep
<1> QED BY <1>2, <1>3 DEF CreatesConcept, ExploresConcept

\* The checkpoint of a bootstrap covers nothing that is owed.
LEMMA SetsLookbackStep ==
  ASSUME IInv, NEW r \in Runner, SetsLookback(r)
  PROVE  IInv'
<1>1. /\ Typed /\ runner[r] \in States /\ Fine(runner[r]) /\ runner[r].at = "seeding"
      /\ UNCHANGED <<now, date, landed, record, slipped, links>>
      /\ checkpoint' = runner[r].seen
      /\ horizon' = IF runner[r].seen.ts > horizon THEN runner[r].seen.ts ELSE horizon
  BY DEF IInv, Typed, SetsLookback, world, lists
<1>2. PICK q : q = [runner[r] EXCEPT !.at = "begin"]
  OBVIOUS
<1>3. q \in States /\ Fine(q)
  BY <1>1, <1>2 DEF States, Fine, Working
<1>4. /\ horizon \in Nat /\ runner[r].seen \in Marks /\ runner[r].seen.ts \in Nat
      /\ runner[r].seen.ids = {} /\ Past(runner[r].seen)
  BY <1>1 DEF Typed, States, Marks, Fine
<1>5. horizon' \in Nat /\ horizon <= horizon' /\ runner[r].seen.ts <= horizon'
  BY <1>1, <1>4
<1>6. Onward
  BY <1>1, <1>5 DEF Typed, Onward
<1>7. checkpoint' \in Marks /\ Past(checkpoint)' /\ Covers(checkpoint)'
  BY <1>1, <1>4, <1>5 DEF Typed, Past, Covers, Owed, Passed
<1>8. /\ links' \in [Concept -> SUBSET Change]
      /\ \A f \in Concept : \A c \in links'[f] : record'[c] # None
  BY <1>1 DEF IInv, Typed, OnRecord
<1>9. Fine(q)' /\ runner' = [runner EXCEPT ![r] = q]
  BY <1>1, <1>2, <1>3, <1>6, FineStays DEF SetsLookback, Goes, Becomes
<1> QED BY <1>3, <1>6, <1>7, <1>8, <1>9, RunStep

LEMMA RecordsStep ==
  ASSUME IInv, NEW r \in Runner, Records(r)
  PROVE  IInv'
<1>1. /\ Typed /\ runner[r] \in States /\ Fine(runner[r]) /\ runner[r].at = "recording"
      /\ UNCHANGED <<now, date, landed, slipped, horizon, checkpoint, links>>
      /\ record' = [record EXCEPT ![runner[r].change] = "done"]
  BY DEF IInv, Typed, Records, world, lists
<1>2. runner[r].change \in Change /\ runner[r].decision \in Decision
  BY <1>1 DEF Fine, States, Working, Oldest
<1>3. PICK to \in {"looking", "creating", "stamping"} :
        /\ runner' = [runner EXCEPT ![r] = [runner[r] EXCEPT !.at = to]]
        /\ to = "looking" => runner[r].decision.kind = "add"
  BY DEF Records, Becomes
<1>4. PICK q : q = [runner[r] EXCEPT !.at = to]
  OBVIOUS
<1>5. Onward /\ record'[runner[r].change] # None
  BY <1>1, <1>2 DEF Typed, Onward, None
<1>6. Fine(runner[r]) /\ runner[r].todo \subseteq Change
  BY <1>1 DEF States
<1>7. PICK old \in States : old = runner[r] /\ Fine(old)'
  BY <1>1, <1>5, FineStays
<1>8. to = "looking" => runner[r].decision.on \in Concept
  BY <1>2, <1>3 DEF Decision, None
<1>9. q \in States /\ Fine(q)'
  BY <1>1, <1>4, <1>5, <1>7, <1>8 DEF States, Fine, Working, OnRecord
<1> QED BY <1>1, <1>3, <1>4, <1>5, <1>9, QuietStep

LEMMA RecordsErrorStep ==
  ASSUME IInv, NEW r \in Runner, RecordsError(r)
  PROVE  IInv'
<1>1. /\ Typed /\ runner[r] \in States /\ Fine(runner[r]) /\ runner[r].at = "erring"
      /\ UNCHANGED <<now, date, landed, slipped, horizon, checkpoint, links>>
      /\ record' = [record EXCEPT ![runner[r].change] = "error"]
  BY DEF IInv, Typed, RecordsError, world, lists
<1>2. runner[r].change \in Change
  BY <1>1 DEF Fine, States, Working, Oldest
<1>3. PICK q : q = [runner[r] EXCEPT !.at = "stamping"]
  OBVIOUS
<1>4. Onward /\ record'[runner[r].change] # None
  BY <1>1, <1>2 DEF Typed, Onward, None
<1>5. PICK old \in States : old = runner[r] /\ Fine(old)'
  BY <1>1, <1>4, FineStays
<1>6. q \in States /\ Fine(q)'
  BY <1>1, <1>3, <1>4, <1>5 DEF States, Fine, Working, OnRecord
<1> QED BY <1>1, <1>3, <1>4, <1>6, QuietStep DEF RecordsError, Goes, Becomes

\* The checkpoint passes the oldest change left; what is no younger is on
\* record, or is left too.
LEMMA MovesCheckpointStep ==
  ASSUME IInv, NEW r \in Runner, MovesCheckpoint(r)
  PROVE  IInv'
<1> DEFINE c == runner[r].change
           seen == runner[r].seen
           todo == runner[r].todo \ {c}
<1>1. /\ Typed /\ runner[r] \in States /\ Fine(runner[r]) /\ runner[r].at = "stamped"
      /\ UNCHANGED <<now, date, landed, record, slipped, horizon, links>>
      /\ checkpoint' = IF Advanced(seen, c) = seen THEN checkpoint ELSE Advanced(seen, c)
      /\ runner' = [runner EXCEPT ![r] = IF todo = {} THEN Idle
                      ELSE [Idle EXCEPT !.at = "deciding", !.todo = todo,
                                        !.cloned = runner[r].cloned]]
  BY DEF IInv, Typed, MovesCheckpoint, Becomes, world, lists, history
<1>2. /\ c \in Oldest(runner[r].todo) /\ OnRecord(c) /\ Covers(seen) /\ Past(seen)
      /\ \A d \in Owed : \/ OnRecord(d) \/ d \in runner[r].todo
                         \/ \A e \in runner[r].todo : date[e] <= date[d]
      /\ runner[r].todo \subseteq landed
  BY <1>1 DEF Fine, Working
<1>3. /\ c \in landed /\ c \in Change /\ date[c] \in Nat /\ date[c] <= now
      /\ seen \in Marks /\ seen.ts \in Nat
  BY <1>1, <1>2 DEF IInv, Typed, Oldest, States, Marks
<1>4. \A d \in Owed : OnRecord(d) \/ date[c] <= date[d]
  BY <1>2 DEF Oldest
<1>5. \A d \in Owed : d \in Change /\ date[d] \in Nat
  BY <1>1 DEF Typed, Owed
<1>6. /\ Advanced(seen, c) \in Marks /\ Past(Advanced(seen, c)) /\ Covers(Advanced(seen, c))
  <2>1. CASE seen.ts < date[c]
    BY <1>2, <1>3, <1>4, <1>5, <2>1 DEF Advanced, Marks, Past, Covers, Passed
  <2>2. CASE seen.ts = date[c]
    <3>1. Advanced(seen, c) = [seen EXCEPT !.ids = seen.ids \cup {c}]
      BY <1>3, <2>2 DEF Advanced
    <3> QED BY <1>2, <1>3, <1>4, <1>5, <2>2, <3>1 DEF Marks, Past, Covers, Passed
  <2>3. CASE seen.ts > date[c]
    BY <1>2, <1>3, <2>3 DEF Advanced
  <2> QED BY <1>3, <2>1, <2>2, <2>3
<1>7. checkpoint' \in Marks /\ Past(checkpoint)' /\ Covers(checkpoint)'
  <2>1. checkpoint' \in Marks /\ Past(checkpoint') /\ Covers(checkpoint')
    BY <1>1, <1>6 DEF IInv, Typed
  <2> QED BY <1>1, <2>1 DEF Past, Covers, Owed, Passed, OnRecord
<1>8. /\ links' \in [Concept -> SUBSET Change]
      /\ \A f \in Concept : \A d \in links'[f] : record'[d] # None
  BY <1>1 DEF IInv, Typed, OnRecord
<1>9. Onward
  BY <1>1 DEF Typed, Onward
<1>10. PICK q : q = [Idle EXCEPT !.at = "deciding", !.todo = todo, !.cloned = runner[r].cloned]
  OBVIOUS
<1>11. q \in States
  BY <1>1, <1>10, FineIdle DEF States, Working
<1>12. Fine(q)
  BY <1>1, <1>2, <1>10, NullCovers DEF Fine, Working, Idle, Oldest
<1>13. Fine(q)' /\ Idle \in States /\ Fine(Idle)'
  BY <1>1, <1>9, <1>11, <1>12, FineIdle, FineStays
<1>14. runner' = [runner EXCEPT ![r] = q] \/ runner' = [runner EXCEPT ![r] = Idle]
  BY <1>1, <1>10
<1> QED BY <1>7, <1>8, <1>9, <1>11, <1>13, <1>14, RunStep

\* What lands is dated now, or has slipped; and no listing of it is under way.
LEMMA LandsStep ==
  ASSUME IInv, NEW c \in Change, Lands(c)
  PROVE  IInv'
<1>1. /\ Typed /\ c \notin landed /\ landed' = landed \cup {c}
      /\ UNCHANGED <<now, checkpoint, record, links, runner, horizon>>
  BY DEF IInv, Typed, Lands, store, lists
<1>2. PICK d \in IF c \in Pull THEN {now} ELSE 1..now :
        /\ date' = [date EXCEPT ![c] = d]
        /\ slipped' = IF d < now \/ \E r \in Runner : runner[r].at = "commits"
                      THEN slipped \cup {c} ELSE slipped
  BY DEF Lands
<1>3. d \in Nat /\ d <= now /\ now \in Nat
  BY <1>1, <1>2 DEF Typed
<1>4. /\ date' \in [Change -> Nat] /\ date'[c] = d
      /\ \A e \in Change \ {c} : date'[e] = date[e]
  BY <1>1, <1>2, <1>3 DEF Typed
<1>5. /\ Owed' \subseteq Owed \cup {c}
      /\ c \in Owed' => d = now /\ \A r \in Runner : runner[r].at # "commits"
  BY <1>1, <1>2, <1>3, <1>4 DEF Typed, Owed
<1>6. ASSUME NEW cp \in Marks, Past(cp)
      PROVE  Past(cp)' /\ (Covers(cp) => Covers(cp)')
  <2>1. Past(cp)'
    BY <1>1, <1>6 DEF Past
  <2>2. c \in Owed' => ~Passed(cp, c)'
    BY <1>1, <1>3, <1>4, <1>5, <1>6 DEF Past, Passed, Marks
  <2>3. \A e \in Owed : e \in landed /\ e # c /\ e \in Change
    BY <1>1 DEF Owed, Typed
  <2>4. \A e \in Owed : (Passed(cp, e) <=> Passed(cp, e)')
    BY <1>4, <2>3 DEF Passed
  <2>5. Covers(cp) => Covers(cp)'
    BY <1>1, <1>5, <2>2, <2>4 DEF Covers, OnRecord
  <2> QED BY <2>1, <2>5
<1>7. \A e \in landed' : date'[e] <= now'
  BY <1>1, <1>3, <1>4 DEF IInv, Typed
<1>8. ASSUME NEW q \in States, Fine(q), c \in Owed' => q.at # "commits"
      PROVE  Fine(q)'
  <2>1. q.todo \subseteq landed /\ q.todo \subseteq Change /\ \A e \in q.todo : e # c /\ date'[e] = date[e]
    BY <1>1, <1>4, <1>8 DEF Fine, States
  <2>2. \A e \in q.todo : date[e] <= now
    BY <2>1 DEF IInv
  <2>3. q.seen \in Marks /\ Past(q.seen)' /\ (Covers(q.seen) => Covers(q.seen)')
    BY <1>6, <1>8 DEF Fine, States
  <2>4. q.at = "commits" => (\A e \in Owed \cap Pull : OnRecord(e) \/ e \in q.todo)'
    BY <1>1, <1>5, <1>8 DEF Fine, OnRecord
  <2>5. q.at \in Working => (\A e \in Owed : \/ OnRecord(e) \/ e \in q.todo
                                             \/ \A o \in q.todo : date[o] <= date[e])'
    <3>1. c \in Owed' => \A o \in q.todo : date'[o] <= date'[c]
      BY <1>4, <1>5, <2>1, <2>2
    <3>2. \A e \in Owed : date'[e] = date[e]
      BY <1>1, <1>4 DEF Owed, Typed
    <3> QED BY <1>1, <1>5, <1>8, <2>1, <3>1, <3>2 DEF Fine, OnRecord
  <2>6. q.change \in Oldest(q.todo) => (q.change \in Oldest(q.todo))'
    BY <2>1 DEF Oldest
  <2>7. \A e : OnRecord(e) => OnRecord(e)'
    BY <1>1 DEF OnRecord
  <2>8. q.todo \subseteq landed'
    BY <1>1, <2>1
  <2> HIDE DEF Working
  <2> QED BY <1>8, <2>3, <2>4, <2>5, <2>6, <2>7, <2>8 DEF Fine
<1>9. \A r \in Runner : Fine(runner[r])'
  <2>1. ASSUME NEW r \in Runner PROVE Fine(runner[r])'
    <3>1. PICK q \in States : q = runner[r]
      BY <1>1 DEF Typed
    <3>2. Fine(q)'
      BY <1>5, <1>8, <3>1 DEF IInv
    <3> QED BY <1>1, <3>1, <3>2
  <2> QED BY <2>1
<1>10. Past(checkpoint)' /\ Covers(checkpoint)'
  <2>1. PICK cp \in Marks : cp = checkpoint
    BY <1>1 DEF Typed
  <2>2. Past(cp)' /\ Covers(cp)'
    BY <1>6, <2>1 DEF IInv
  <2> QED BY <1>1, <2>1, <2>2
<1>11. Typed'
  BY <1>1, <1>2, <1>4 DEF Typed
<1>12. (\A f \in Concept : \A e \in links[f] : OnRecord(e))'
  BY <1>1 DEF IInv, OnRecord
<1> QED BY <1>7, <1>9, <1>10, <1>11, <1>12 DEF IInv

LEMMA TickStep == IInv /\ Tick => IInv'
<1> SUFFICES ASSUME IInv, Tick PROVE IInv'
  OBVIOUS
<1>1. /\ Typed /\ now' = now + 1
      /\ UNCHANGED <<date, landed, checkpoint, record, links, runner, slipped, horizon>>
  BY DEF IInv, Tick, store, lists, history
<1>2. Typed' /\ now \in Nat
  BY <1>1 DEF Typed
<1>3. ASSUME NEW cp \in Marks, Past(cp)
      PROVE  Past(cp)' /\ (Covers(cp) => Covers(cp)')
  BY <1>1, <1>2, <1>3 DEF Past, Covers, Owed, Passed, OnRecord, Marks
<1>4. ASSUME NEW r \in Runner PROVE Fine(runner[r])'
  <2>1. PICK q \in States : q = runner[r] /\ Fine(q)
    BY <1>1 DEF IInv, Typed
  <2>2. q.seen \in Marks
    BY DEF States
  <2>3. Past(q.seen)' /\ (Covers(q.seen) => Covers(q.seen)')
    BY <1>3, <2>1, <2>2 DEF Fine
  <2>4. Fine(q)'
    BY <1>1, <2>1, <2>3 DEF Fine, Owed, OnRecord, Oldest
  <2> QED BY <1>1, <2>1, <2>4
<1>5. Past(checkpoint)' /\ Covers(checkpoint)'
  <2>1. PICK cp \in Marks : cp = checkpoint
    BY <1>1 DEF Typed
  <2>2. Past(cp)' /\ Covers(cp)'
    BY <1>3, <2>1 DEF IInv
  <2> QED BY <1>1, <2>1, <2>2
<1>6. (\A f \in Concept : \A e \in links[f] : OnRecord(e))'
  BY <1>1 DEF IInv, OnRecord
<1>7. \A c \in landed' : date'[c] <= now'
  <2>1. ASSUME NEW c \in landed PROVE date[c] <= now + 1
    <3>1. date[c] \in Nat /\ date[c] <= now
      BY <1>1 DEF IInv, Typed
    <3> QED BY <1>2, <3>1
  <2> QED BY <1>1, <2>1
<1> QED BY <1>2, <1>4, <1>5, <1>6, <1>7 DEF IInv

LEMMA CrashStep == IInv /\ Crash => IInv'
<1> SUFFICES ASSUME IInv, Crash PROVE IInv'
  OBVIOUS
<1>1. /\ Typed /\ runner' = [r \in Runner |-> Idle]
      /\ UNCHANGED <<now, date, landed, checkpoint, record, links, slipped, horizon>>
  BY DEF IInv, Crash, world, store, lists, history
<1>2. Onward
  BY <1>1 DEF Typed, Onward
<1>3. Idle \in States /\ Fine(Idle)'
  BY <1>1, <1>2, FineIdle, FineStays
<1>4. \A r \in Runner : Fine(runner[r])'
  BY <1>1, <1>3
<1>5. Typed'
  BY <1>1, <1>3 DEF Typed
<1>6. /\ Past(checkpoint)' /\ Covers(checkpoint)'
      /\ (\A f \in Concept : \A e \in links[f] : OnRecord(e))'
      /\ \A c \in landed' : date'[c] <= now'
  BY <1>1 DEF IInv, Past, Covers, Owed, Passed, OnRecord
<1> QED BY <1>4, <1>5, <1>6 DEF IInv

LEMMA BuilderInit == Init => IInv
<1> SUFFICES ASSUME Init PROVE IInv
  OBVIOUS
<1>1. Typed
  <2>1. Idle \in States
    BY DEF Idle, Null, States, Marks, Decision
  <2> QED BY <2>1 DEF Init, Typed, Null, Marks
<1> QED BY <1>1, FineIdle, NullCovers DEF Init, IInv

LEMMA BuilderNext == IInv /\ [Next]_vars => IInv'
<1> SUFFICES ASSUME IInv, [Next]_vars PROVE IInv'
  OBVIOUS
<1>1. ASSUME NEW r \in Runner, Step(r) PROVE IInv'
  <2>1. CASE Explores(r) \/ Seeds(r) \/ SetsLookback(r) \/ Begins(r) \/ ListsPulls(r) \/ ListsCommits(r)
    BY <2>1, ExploresStep, SeedsStep, SetsLookbackStep, BeginsStep, ListsPullsStep, ListsCommitsStep
  <2>2. CASE Decides(r) \/ Records(r) \/ LooksUp(r) \/ LinksChange(r) \/ CreatesConcept(r) \/ ExploresConcept(r)
    BY <2>2, DecidesStep, RecordsStep, LooksUpStep, LinksChangeStep
  <2>3. CASE RecordsError(r) \/ Stamps(r) \/ MovesCheckpoint(r)
    BY <2>3, RecordsErrorStep, StampsStep, MovesCheckpointStep
  <2> QED BY <1>1, <2>1, <2>2, <2>3 DEF Step
<1>2. ASSUME NEW r \in Runner, Starts(r) \/ Stumbles(r) \/ Gives(r) PROVE IInv'
  BY <1>2, StartsStep, StumblesStep, GivesStep
<1>3. CASE \E c \in Change : Lands(c)
  BY <1>3, LandsStep
<1>4. CASE UNCHANGED vars
  BY <1>4 DEF vars, IInv, Typed, Fine, Past, Covers, Owed, Passed, OnRecord, Oldest
<1> QED BY <1>1, <1>2, <1>3, <1>4, TickStep, CrashStep DEF Next

THEOREM BuilderInvariant == Spec => []IInv
BY BuilderInit, BuilderNext, PTL DEF Spec

\* For any repository and any runs, together or one by one, failing or dying
\* anywhere: the checkpoint passes no change that is not on record, but for
\* those behind a bootstrap's horizon and those that landed behind a listing.
THEOREM CheckpointCoversTheorem == Spec => []CheckpointCovers
<1>1. IInv => CheckpointCovers
  BY DEF IInv, Typed, Covers, Owed, OnRecord, CheckpointCovers, Behind
<1> QED BY <1>1, BuilderInvariant, PTL

\* For any of them: a concept lists only changes on record.
THEOREM LinksOnRecordTheorem == Spec => []LinksOnRecord
<1>1. IInv => LinksOnRecord
  BY DEF IInv, OnRecord, LinksOnRecord
<1> QED BY <1>1, BuilderInvariant, PTL

-----------------------------------------------------------------------------
(* One run at a time: what is decided for a change is kept.                *)

\* A concept lists a change, or did until it was created anew.
Listed(c, f) == c \in links[f] \cup replaced[f]

\* A change on record and listed by every concept decided for it.
Settled(c) == record[c] # None /\ \A f \in decided[c] : Listed(c, f)
Settles(cp) == \A c \in Owed : Passed(cp, c) => Settled(c)

\* What a run may rely on while it is the only one.
Mine(q) ==
  /\ q.at = "booting" => known = {}
  /\ q.at = "seeding" => q.seeds \cap known = {}
  /\ q.at \in {"pulls", "commits", "stamped"} => Settles(q.seen)
  /\ q.at = "commits" => \A c \in Owed \cap Pull : Settled(c) \/ c \in q.todo
  /\ q.at \in Working => \A c \in Owed : \/ Settled(c) \/ c \in q.todo
                                         \/ \A e \in q.todo : date[e] <= date[c]
  /\ q.at \in {"looking", "linking"} => q.decision.kind = "add"
  /\ q.at \in {"creating", "exploring"} => q.decision.kind = "create"
  /\ (q.at \in {"looking", "linking", "creating"} /\ q.change \in Owed)
       => \A f \in decided[q.change] : Listed(q.change, f) \/ f = q.decision.on
  /\ (q.at = "looking" /\ q.change \in Owed) => decided[q.change] \subseteq known
  /\ q.at = "linking" => q.copy = links[q.decision.on]
  /\ (q.at \in {"exploring", "stamping", "stamped"} /\ q.change \in Owed)
       => Settled(q.change)

Alone(r) == \A s \in Runner \ {r} : runner[s].at = "idle"

\* A concept that does not exist has never listed anything.
Tidy ==
  /\ decided \in [Change -> SUBSET Concept] /\ replaced \in [Concept -> SUBSET Change]
  /\ \A f \in Concept \ known : links[f] = {} /\ replaced[f] = {}

Solo ==
  /\ Tidy
  /\ \A r \in Runner : runner[r].at = "idle" \/ Alone(r)
  /\ Settles(checkpoint)
  /\ \A r \in Runner : Mine(runner[r])

SoloInv == ~overlap => Solo

-----------------------------------------------------------------------------

LEMMA ActiveIsAlone ==
  ASSUME Solo, NEW r \in Runner, runner[r].at # "idle"
  PROVE  Alone(r)
BY DEF Solo

LEMMA NullSettles == Typed => Settles(Null)
BY DEF Typed, Null, Settles, Owed, Passed

\* A step of the only run.
LEMMA SoloStep ==
  ASSUME Typed, Solo, NEW r \in Runner, NEW q \in States, runner' = [runner EXCEPT ![r] = q],
         Alone(r), Mine(q)', Tidy', Settles(checkpoint)'
  PROVE  Solo'
<1>1. runner \in [Runner -> States] /\ runner'[r] = q
  BY DEF Typed
<1>2. \A s \in Runner \ {r} : runner'[s] = runner[s] /\ runner'[s].at = "idle"
  BY <1>1 DEF Alone
<1>3. \A s \in Runner : runner'[s].at = "idle" \/ Alone(s)'
  BY <1>2 DEF Alone
<1>4. ASSUME NEW s \in Runner PROVE Mine(runner[s])'
  <2>1. CASE s = r
    BY <1>1, <2>1 DEF Mine
  <2>2. CASE s # r
    BY <1>2, <2>2 DEF Mine, Working
  <2> QED BY <2>1, <2>2
<1> QED BY <1>3, <1>4 DEF Solo

\* The only run keeps what it may rely on while nothing is written.
LEMMA MineStays ==
  ASSUME UNCHANGED <<date, landed, record, known, links, replaced, decided>>, Owed' \subseteq Owed,
         NEW q, Mine(q)
  PROVE  Mine(q)'
<1>1. /\ \A c : Settled(c)' = Settled(c)
      /\ \A c, f : Listed(c, f)' = Listed(c, f)
  BY DEF Settled, Listed
<1>2. Settles(q.seen) => Settles(q.seen)'
  BY <1>1 DEF Settles, Passed
<1>3. q.at = "commits" => (\A c \in Owed \cap Pull : Settled(c) \/ c \in q.todo)'
  BY <1>1 DEF Mine
<1>4. q.at \in Working => (\A c \in Owed : \/ Settled(c) \/ c \in q.todo
                                          \/ \A e \in q.todo : date[e] <= date[c])'
  BY <1>1 DEF Mine
<1>5. (q.at \in {"exploring", "stamping", "stamped"} /\ q.change \in Owed')
        => Settled(q.change)'
  BY <1>1 DEF Mine
<1> HIDE DEF Working
<1> QED BY <1>1, <1>2, <1>3, <1>4, <1>5 DEF Mine

LEMMA SettlesStays ==
  ASSUME UNCHANGED <<date, record, links, replaced, decided>>, Owed' \subseteq Owed, NEW cp, Settles(cp)
  PROVE  Settles(cp)'
BY DEF Settles, Settled, Listed, Passed

\* A step of the only run that writes nothing.
LEMMA SoloStill ==
  ASSUME Typed, Solo, UNCHANGED <<world, store, history>>, NEW r \in Runner, NEW q \in States,
         runner' = [runner EXCEPT ![r] = q], Alone(r), Mine(q)
  PROVE  Solo'
<1>1. /\ UNCHANGED <<now, date, landed, checkpoint, record, known, links, replaced, decided>>
      /\ Owed' = Owed
  BY DEF world, store, lists, history, Owed
<1>2. Mine(q)'
  BY <1>1, MineStays
<1>3. Settles(checkpoint)'
  <2>1. PICK cp : cp = checkpoint
    OBVIOUS
  <2>2. Settles(cp)'
    BY <1>1, <2>1, SettlesStays DEF Solo
  <2> QED BY <1>1, <2>1, <2>2
<1>4. Tidy'
  BY <1>1 DEF Solo, Tidy
<1> QED BY <1>2, <1>3, <1>4, SoloStep

LEMMA SoloStarts ==
  ASSUME IInv, Solo, ~overlap, NEW r \in Runner, Starts(r)
  PROVE  Solo'
<1>1. Typed /\ runner[r] \in States
  BY DEF IInv, Typed
<1>2. PICK q : q = [runner[r] EXCEPT !.at = IF known = {} THEN "booting" ELSE "begin"]
  OBVIOUS
<1>3. q \in States /\ Mine(q)
  BY <1>1, <1>2 DEF States, Mine, Working
<1>4. Alone(r)
  BY DEF Starts, Alone
<1> QED BY <1>1, <1>2, <1>3, <1>4, SoloStill DEF Starts, Goes, Becomes

LEMMA SoloExplores ==
  ASSUME IInv, Solo, NEW r \in Runner, Explores(r)
  PROVE  Solo'
<1>1. Typed /\ runner[r] \in States /\ runner[r].at = "booting" /\ Alone(r) /\ known = {}
  BY ActiveIsAlone DEF IInv, Typed, Explores, Solo, Mine
<1>2. PICK seeds \in SUBSET Concept : Explores(r)!2!(seeds)
  BY DEF Explores
<1>3. PICK ts \in Nat : ts = (IF now > Lookback THEN now - Lookback ELSE 0)
  <2>1. now \in Nat /\ Lookback \in Nat
    BY <1>1, BuilderAssumption DEF Typed
  <2>2. CASE now > Lookback
    <3>1. now - Lookback \in Nat
      BY <2>1, <2>2
    <3> QED BY <2>2, <3>1
  <2>3. CASE ~(now > Lookback)
    BY <2>3
  <2> QED BY <2>2, <2>3
<1>4. PICK q : q = [runner[r] EXCEPT !.at = "seeding", !.seeds = seeds, !.cloned = TRUE,
                                     !.seen = [ts |-> ts, ids |-> {}]]
  OBVIOUS
<1>5. q \in States /\ Mine(q)
  BY <1>1, <1>4 DEF States, Marks, Mine, Working
<1> QED BY <1>1, <1>2, <1>3, <1>4, <1>5, SoloStill DEF Explores, Becomes

LEMMA SoloBegins ==
  ASSUME IInv, Solo, NEW r \in Runner, Begins(r)
  PROVE  Solo'
<1>1. Typed /\ runner[r] \in States /\ runner[r].at = "begin" /\ Alone(r)
  BY ActiveIsAlone DEF IInv, Typed, Begins, ReadsCheckpoint
<1>2. PICK seen \in {checkpoint, Null} :
        runner' = [runner EXCEPT ![r] = [runner[r] EXCEPT !.at = "pulls", !.seen = seen]]
  BY DEF Begins, ReadsCheckpoint, Becomes
<1>3. PICK q : q = [runner[r] EXCEPT !.at = "pulls", !.seen = seen]
  OBVIOUS
<1>4. seen \in Marks /\ Settles(seen)
  BY <1>1, NullSettles, NullCovers DEF Solo, Typed
<1>5. q \in States /\ Mine(q)
  BY <1>1, <1>3, <1>4 DEF States, Mine, Working
<1> QED BY <1>1, <1>2, <1>3, <1>5, SoloStill DEF Begins, ReadsCheckpoint

LEMMA SoloStamps ==
  ASSUME IInv, Solo, NEW r \in Runner, Stamps(r)
  PROVE  Solo'
<1>1. /\ Typed /\ runner[r] \in States /\ runner[r].at = "stamping" /\ Alone(r)
      /\ Mine(runner[r])
  BY ActiveIsAlone DEF IInv, Typed, Stamps, ReadsCheckpoint, Solo
<1>2. PICK seen \in {checkpoint, Null} :
        runner' = [runner EXCEPT ![r] = [runner[r] EXCEPT !.at = "stamped", !.seen = seen]]
  BY DEF Stamps, ReadsCheckpoint, Becomes
<1>3. PICK q : q = [runner[r] EXCEPT !.at = "stamped", !.seen = seen]
  OBVIOUS
<1>4. seen \in Marks /\ Settles(seen)
  BY <1>1, NullSettles, NullCovers DEF Solo, Typed
<1>5. q \in States /\ Mine(q)
  BY <1>1, <1>3, <1>4 DEF States, Mine, Working
<1> QED BY <1>1, <1>2, <1>3, <1>5, SoloStill DEF Stamps, ReadsCheckpoint

LEMMA SoloListsPulls ==
  ASSUME IInv, Solo, NEW r \in Runner, ListsPulls(r)
  PROVE  Solo'
<1>1. Typed /\ runner[r] \in States /\ runner[r].at = "pulls" /\ Alone(r) /\ Mine(runner[r])
  BY ActiveIsAlone DEF IInv, Typed, ListsPulls, Solo
<1>2. PICK todo : todo = {c \in landed \cap Pull : ~Passed(runner[r].seen, c)}
  OBVIOUS
<1>3. PICK q : q = [runner[r] EXCEPT !.at = "commits", !.todo = todo]
  OBVIOUS
<1>4. \A c \in Owed \cap Pull : Settled(c) \/ c \in todo
  BY <1>1, <1>2 DEF Mine, Settles, Owed
<1>5. q \in States
  BY <1>1, <1>2, <1>3 DEF Typed, States
<1>6. Mine(q)
  BY <1>1, <1>3, <1>4 DEF States, Mine, Working
<1> QED BY <1>1, <1>2, <1>3, <1>5, <1>6, SoloStill DEF ListsPulls, Becomes

LEMMA SoloDecides ==
  ASSUME IInv, Solo, NEW r \in Runner, Decides(r)
  PROVE  Solo'
<1>1. Typed /\ runner[r] \in States /\ runner[r].at = "deciding" /\ Alone(r) /\ Mine(runner[r])
  BY ActiveIsAlone DEF IInv, Typed, Decides, Solo
<1>2. PICK c \in Oldest(runner[r].todo), d \in Decision : Decides(r)!2!(c, d)
  BY DEF Decides
<1>3. PICK q : q = [runner[r] EXCEPT !.at = "recording", !.change = c, !.decision = d]
  OBVIOUS
<1>4. c \in Change
  BY <1>1, <1>2 DEF Oldest, States
<1>5. q \in States
  BY <1>1, <1>3, <1>4 DEF States, Working
<1>6. Mine(q)
  BY <1>1, <1>2, <1>3 DEF States, Mine, Working
<1> QED BY <1>1, <1>2, <1>3, <1>5, <1>6, SoloStill DEF Decides, Becomes

LEMMA SoloStumbles ==
  ASSUME IInv, Solo, NEW r \in Runner, Stumbles(r)
  PROVE  Solo'
<1>1. /\ Typed /\ runner[r] \in States /\ runner[r].at \in Working /\ Alone(r)
      /\ Mine(runner[r]) /\ Fine(runner[r])
  BY ActiveIsAlone DEF IInv, Typed, Stumbles, Solo, Working
<1>2. PICK c \in IF runner[r].at = "deciding" THEN Oldest(runner[r].todo) ELSE {runner[r].change} :
        runner' = [runner EXCEPT ![r] = [runner[r] EXCEPT !.at = "erring", !.change = c, !.copy = {},
                                                          !.decision = Idle.decision]]
  BY DEF Stumbles, Becomes
<1>3. PICK q : q = [runner[r] EXCEPT !.at = "erring", !.change = c, !.copy = {},
                                     !.decision = Idle.decision]
  OBVIOUS
<1>4. c \in Change
  BY <1>1, <1>2 DEF Fine, Oldest, States
<1>5. q \in States
  BY <1>1, <1>3, <1>4 DEF States, Working, Decision, Idle
<1>6. Mine(q)
  BY <1>1, <1>3 DEF States, Mine, Working
<1> QED BY <1>1, <1>2, <1>3, <1>5, <1>6, SoloStill DEF Stumbles

LEMMA MineIdle == Mine(Idle)
BY DEF Mine, Idle, Working

LEMMA SoloGives ==
  ASSUME IInv, Solo, NEW r \in Runner, Gives(r)
  PROVE  Solo'
<1>1. Typed /\ Idle \in States /\ Alone(r)
  BY ActiveIsAlone, FineIdle DEF IInv, Gives
<1> QED BY <1>1, MineIdle, SoloStill DEF Gives, Becomes

LEMMA SoloLooksUp ==
  ASSUME IInv, Solo, NEW r \in Runner, LooksUp(r)
  PROVE  Solo'
<1>1. /\ Typed /\ runner[r] \in States /\ runner[r].at = "looking" /\ Alone(r)
      /\ Mine(runner[r]) /\ Fine(runner[r])
  BY ActiveIsAlone DEF IInv, Typed, LooksUp, Solo
<1>2. PICK finished : finished = [runner[r] EXCEPT !.at = "stamping", !.copy = {},
                                                    !.decision = Idle.decision]
  OBVIOUS
<1>3. PICK linking : linking = [runner[r] EXCEPT !.at = "linking", !.copy = links[runner[r].decision.on]]
  OBVIOUS
<1>4. CASE /\ runner' = [runner EXCEPT ![r] = finished]
           /\ runner[r].decision.on \notin known \/ runner[r].change \in links[runner[r].decision.on]
  <2>1. runner[r].change \in Owed => Settled(runner[r].change)
    BY <1>1, <1>4 DEF Mine, Fine, Settled, Listed, OnRecord
  <2>2. finished \in States
    BY <1>1, <1>2 DEF States, Working, Decision, Idle
  <2>3. Mine(finished)
    BY <1>1, <1>2, <2>1 DEF States, Mine, Working
  <2> QED BY <1>1, <1>4, <2>2, <2>3, SoloStill DEF LooksUp
<1>5. CASE runner' = [runner EXCEPT ![r] = linking]
  <2>1. links[runner[r].decision.on] \subseteq Change
    BY <1>1 DEF Fine, Typed
  <2>2. linking \in States
    BY <1>1, <1>3, <2>1 DEF States, Working
  <2>3. Mine(linking)
    BY <1>1, <1>3 DEF States, Mine, Working
  <2> QED BY <1>1, <1>5, <2>2, <2>3, SoloStill DEF LooksUp
<1>6. \/ /\ runner' = [runner EXCEPT ![r] = finished]
         /\ runner[r].decision.on \notin known \/ runner[r].change \in links[runner[r].decision.on]
      \/ runner' = [runner EXCEPT ![r] = linking]
  BY <1>2, <1>3 DEF LooksUp, Finishes, Becomes
<1> QED BY <1>4, <1>5, <1>6

-----------------------------------------------------------------------------

\* A commit left out has slipped, and is no longer owed.
LEMMA SoloListsCommits ==
  ASSUME IInv, Solo, NEW r \in Runner, ListsCommits(r)
  PROVE  Solo'
<1>1. /\ Typed /\ runner[r] \in States /\ runner[r].at = "commits" /\ Alone(r)
      /\ Mine(runner[r])
      /\ UNCHANGED <<now, date, landed, record, known, horizon, checkpoint, links, replaced, decided>>
  BY ActiveIsAlone DEF IInv, Typed, ListsCommits, Solo, world, store, lists
<1>2. PICK commits : commits = {c \in landed \ Pull : ~Passed(runner[r].seen, c)}
  OBVIOUS
<1>3. PICK dropped \in SUBSET commits :
        /\ slipped' = slipped \cup dropped
        /\ LET todo == runner[r].todo \cup (commits \ dropped) IN
           Becomes(r, IF todo = {} THEN Idle
                      ELSE [runner[r] EXCEPT !.at = "deciding", !.todo = todo, !.seen = Null])
  BY <1>2 DEF ListsCommits
<1>4. PICK todo : todo = runner[r].todo \cup (commits \ dropped)
  OBVIOUS
<1>5. PICK q : q = [runner[r] EXCEPT !.at = "deciding", !.todo = todo, !.seen = Null]
  OBVIOUS
<1>6. Owed' \subseteq Owed /\ \A c : Settled(c)' = Settled(c)
  BY <1>1, <1>3 DEF Owed, Settled, Listed
<1>7. \A c \in Owed' : Settled(c)' \/ c \in todo
  BY <1>1, <1>2, <1>3, <1>4, <1>6 DEF Mine, Settles, Owed
<1>8. q \in States /\ Idle \in States
  BY <1>1, <1>2, <1>4, <1>5, NullCovers, FineIdle DEF Typed, States, Working
<1>9. Mine(q)' /\ Mine(Idle)'
  <2>1. q.at = "deciding" /\ q.todo = todo
    BY <1>1, <1>5 DEF States
  <2> QED BY <1>7, <2>1 DEF Mine, Idle, Working
<1>10. Settles(checkpoint)'
  BY <1>1, <1>6 DEF Solo, Settles, Passed
<1>11. Tidy'
  BY <1>1 DEF Solo, Tidy
<1>12. runner' = [runner EXCEPT ![r] = q] \/ runner' = [runner EXCEPT ![r] = Idle]
  BY <1>3, <1>4, <1>5 DEF Becomes
<1> QED BY <1>1, <1>8, <1>9, <1>10, <1>11, <1>12, SoloStep

\* No concept that lists a change is named again by a bootstrap.
LEMMA SoloSeeds ==
  ASSUME IInv, Solo, NEW r \in Runner, Seeds(r)
  PROVE  Solo'
<1>1. /\ Typed /\ runner[r] \in States /\ runner[r].at = "seeding" /\ Alone(r)
      /\ Mine(runner[r])
      /\ UNCHANGED <<now, date, landed, record, replaced, slipped, horizon, checkpoint, decided>>
  BY ActiveIsAlone DEF IInv, Typed, Seeds, Solo, world, history
<1>2. PICK f \in runner[r].seeds :
        /\ known' = known \cup {f} /\ links' = [links EXCEPT ![f] = {}]
        /\ runner' = [runner EXCEPT ![r] = [runner[r] EXCEPT !.seeds = runner[r].seeds \ {f}]]
  BY DEF Seeds, Becomes
<1>3. f \in Concept \ known
  BY <1>1 DEF States, Mine
<1>4. links' = links
  BY <1>1, <1>2, <1>3 DEF Typed, Solo, Tidy
<1>5. PICK q : q = [runner[r] EXCEPT !.seeds = runner[r].seeds \ {f}]
  OBVIOUS
<1>6. q \in States /\ q.at = "seeding" /\ q.seeds = runner[r].seeds \ {f}
  BY <1>1, <1>5 DEF States
<1>7. Mine(q)'
  BY <1>1, <1>2, <1>6 DEF Mine, Working
<1>8. Settles(checkpoint)'
  BY <1>1, <1>4 DEF Solo, Settles, Passed, Settled, Listed, Owed
<1>9. Tidy'
  BY <1>1, <1>2, <1>4 DEF Solo, Tidy
<1> QED BY <1>1, <1>2, <1>5, <1>6, <1>7, <1>8, <1>9, SoloStep

LEMMA SoloSetsLookback ==
  ASSUME IInv, Solo, NEW r \in Runner, SetsLookback(r)
  PROVE  Solo'
<1>1. /\ Typed /\ runner[r] \in States /\ runner[r].at = "seeding" /\ Alone(r)
      /\ Fine(runner[r])
      /\ UNCHANGED <<now, date, landed, record, slipped, known, links, replaced, decided>>
      /\ checkpoint' = runner[r].seen
      /\ horizon' = IF runner[r].seen.ts > horizon THEN runner[r].seen.ts ELSE horizon
  BY ActiveIsAlone DEF IInv, Typed, SetsLookback, Solo, world, lists
<1>2. /\ runner[r].seen.ts \in Nat /\ runner[r].seen.ids = {}
      /\ horizon' \in Nat /\ runner[r].seen.ts <= horizon'
  BY <1>1 DEF Typed, States, Marks, Fine
<1>3. PICK q : q = [runner[r] EXCEPT !.at = "begin"]
  OBVIOUS
<1>4. q \in States /\ q.at = "begin"
  BY <1>1, <1>3 DEF States
<1>5. Mine(q)'
  BY <1>4 DEF Mine, Working
<1>6. Settles(checkpoint)'
  BY <1>1, <1>2 DEF Typed, Settles, Owed, Passed
<1>7. Tidy'
  BY <1>1 DEF Solo, Tidy
<1> QED BY <1>1, <1>3, <1>4, <1>5, <1>6, <1>7, SoloStep DEF SetsLookback, Goes, Becomes

\* A save that adds to a list keeps what is in it; any other replaces it.
LEMMA SoloSaves ==
  ASSUME IInv, Solo, NEW r \in Runner, NEW from \in {"linking", "creating", "exploring"},
         NEW changes \in SUBSET Change, Saves(r, from, changes),
         runner[r].change \in changes,
         from = "linking" => links[runner[r].decision.on] \subseteq changes
  PROVE  Solo'
<1>0. PICK c, on : c = runner[r].change /\ on = runner[r].decision.on
  OBVIOUS
<1>1. /\ Typed /\ runner[r] \in States /\ runner[r].at = from /\ Alone(r)
      /\ Mine(runner[r]) /\ Fine(runner[r])
      /\ UNCHANGED <<now, date, landed, record, slipped, horizon, checkpoint, decided>>
      /\ known' = known \cup {on} /\ links' = [links EXCEPT ![on] = changes]
      /\ replaced' = [replaced EXCEPT ![on] =
                        (IF from = "linking" THEN @ ELSE @ \cup links[on]) \ changes]
  BY <1>0, ActiveIsAlone DEF IInv, Typed, Saves, Solo, world, history
<1>2. /\ runner[r].decision \in Decision /\ runner[r].decision.kind \in {"add", "create"}
      /\ on \in Concept
  <2>1. runner[r].decision \in Decision
    BY <1>1 DEF States
  <2>2. runner[r].decision.kind \in {"add", "create"}
    BY <1>1 DEF Mine
  <2> QED BY <1>0, <2>1, <2>2 DEF Decision, None
<1>3. /\ links \in [Concept -> SUBSET Change] /\ links' \in [Concept -> SUBSET Change]
      /\ links'[on] = changes
      /\ replaced \in [Concept -> SUBSET Change] /\ replaced' \in [Concept -> SUBSET Change]
      /\ replaced'[on] = (IF from = "linking" THEN replaced[on]
                           ELSE replaced[on] \cup links[on]) \ changes
      /\ \A f \in Concept \ {on} : links'[f] = links[f] /\ replaced'[f] = replaced[f]
  BY <1>0, <1>1, <1>2 DEF Typed, Solo, Tidy
<1>4. Owed' = Owed /\ Owed \subseteq Change
  BY <1>1 DEF Owed, Typed
<1>5. /\ \A d, f : f \in Concept /\ Listed(d, f) => Listed(d, f)'
      /\ \A d \in Owed : Settled(d) => Settled(d)'
  <2>1. ASSUME NEW d, NEW f \in Concept, Listed(d, f) PROVE Listed(d, f)'
    <3>1. CASE f # on
      BY <1>3, <2>1, <3>1 DEF Listed
    <3>2. CASE f = on
      BY <1>0, <1>3, <2>1, <3>2 DEF Listed
    <3> QED BY <3>1, <3>2
  <2> QED BY <1>1, <1>4, <2>1 DEF Settled, Solo, Tidy
<1>6. Settles(checkpoint)'
  BY <1>1, <1>4, <1>5 DEF Solo, Settles, Passed
<1>7. Tidy'
  BY <1>1, <1>3 DEF Solo, Tidy
<1>8. c \in Owed => Settled(c)'
  <2>1. ASSUME c \in Owed PROVE record'[c] # None /\ \A f \in decided[c] : Listed(c, f)'
    <3>1. record[c] # None
      BY <1>0, <1>1 DEF Fine, OnRecord
    <3>2. decided[c] \subseteq Concept
      BY <1>4, <2>1 DEF Solo, Tidy
    <3>3. Listed(c, on)'
      BY <1>0, <1>3 DEF Listed
    <3>4. \A f \in decided[c] : Listed(c, f) \/ f = on
      BY <1>0, <1>1, <2>1 DEF Mine, Settled
    <3> QED BY <1>1, <1>5, <3>1, <3>2, <3>3, <3>4
  <2> QED BY <1>1, <2>1 DEF Settled
<1>9. \A d \in Owed' : \/ Settled(d)' \/ d \in runner[r].todo
                       \/ \A e \in runner[r].todo : date'[e] <= date'[d]
  BY <1>1, <1>4, <1>5 DEF Mine, Working
<1>10. PICK explore : explore = [runner[r] EXCEPT !.at = "exploring"]
  OBVIOUS
<1>11. PICK finished : finished = [runner[r] EXCEPT !.at = "stamping", !.copy = {},
                                                     !.decision = Idle.decision]
  OBVIOUS
<1>12. CASE from = "creating" /\ runner' = [runner EXCEPT ![r] = explore]
  <2>1. /\ explore \in States /\ explore.at = "exploring" /\ explore.change = c
        /\ explore.todo = runner[r].todo /\ explore.decision = runner[r].decision
    BY <1>0, <1>1, <1>10 DEF States, Working
  <2>2. runner[r].decision.kind = "create"
    BY <1>1, <1>12 DEF Mine
  <2>3. Mine(explore)'
    BY <1>0, <1>4, <1>8, <1>9, <2>1, <2>2 DEF Mine, Working
  <2> QED BY <1>1, <1>6, <1>7, <1>12, <2>1, <2>3, SoloStep
<1>13. CASE runner' = [runner EXCEPT ![r] = finished]
  <2>1. /\ finished \in States /\ finished.at = "stamping" /\ finished.change = c
        /\ finished.todo = runner[r].todo
    BY <1>0, <1>1, <1>11 DEF States, Working, Decision, Idle
  <2>2. Mine(finished)'
    BY <1>4, <1>8, <1>9, <2>1 DEF Mine, Working
  <2> QED BY <1>1, <1>6, <1>7, <1>13, <2>1, <2>2, SoloStep
<1>14. \/ from = "creating" /\ runner' = [runner EXCEPT ![r] = explore]
       \/ runner' = [runner EXCEPT ![r] = finished]
  BY <1>10, <1>11 DEF Saves, Finishes, Goes, Becomes
<1> QED BY <1>12, <1>13, <1>14

LEMMA SoloLinks ==
  ASSUME IInv, Solo, NEW r \in Runner,
         LinksChange(r) \/ CreatesConcept(r) \/ ExploresConcept(r)
  PROVE  Solo'
<1>1. /\ Typed /\ runner[r] \in States /\ Mine(runner[r]) /\ Fine(runner[r])
  BY DEF IInv, Typed, Solo
<1>2. ASSUME runner[r].at \in {"linking", "creating", "exploring"}
      PROVE  runner[r].change \in Change
  BY <1>1, <1>2 DEF Fine, States, Working, Oldest
<1>3. CASE LinksChange(r)
  <2>1. runner[r].at = "linking" /\ Saves(r, "linking", runner[r].copy \cup {runner[r].change})
    BY <1>3 DEF LinksChange, Saves
  <2>2. runner[r].copy \cup {runner[r].change} \in SUBSET Change
    BY <1>1, <1>2, <2>1 DEF States
  <2>3. links[runner[r].decision.on] \subseteq runner[r].copy \cup {runner[r].change}
    BY <1>1, <2>1 DEF Mine
  <2> QED BY <2>1, <2>2, <2>3, SoloSaves
<1>4. ASSUME NEW from \in {"creating", "exploring"}, Saves(r, from, {runner[r].change})
      PROVE  Solo'
  <2>1. runner[r].at = from
    BY <1>4 DEF Saves
  <2> QED BY <1>2, <1>4, <2>1, SoloSaves
<1> QED BY <1>3, <1>4 DEF CreatesConcept, ExploresConcept

-----------------------------------------------------------------------------

\* The decision of a change that is not passed may be forgotten: the change is
\* still to be finished.  One that is passed keeps what was decided for it.
LEMMA SoloRecords ==
  ASSUME IInv, Solo, NEW r \in Runner, Records(r)
  PROVE  Solo'
<1>1. PICK c, d : c = runner[r].change /\ d = runner[r].decision
  OBVIOUS
<1>2. /\ Typed /\ runner[r] \in States /\ runner[r].at = "recording" /\ Alone(r)
      /\ Mine(runner[r]) /\ Fine(runner[r])
      /\ UNCHANGED <<now, date, landed, slipped, horizon, checkpoint, known, links, replaced>>
      /\ record' = [record EXCEPT ![c] = "done"]
  BY <1>1, ActiveIsAlone DEF IInv, Typed, Records, Solo, world, lists
<1>3. /\ c \in Change /\ c \in runner[r].todo /\ d \in Decision
  BY <1>1, <1>2 DEF Fine, States, Working, Oldest
<1>4. PICK named \in SUBSET Concept :
        /\ decided' = [decided EXCEPT ![c] = named]
        /\ Passed(checkpoint, c) => named = decided[c]
        /\ ~Passed(checkpoint, c) =>
             named = IF d.kind = "create" \/ (d.kind = "add" /\ d.on \in known)
                     THEN {d.on} ELSE {}
  <2>1. decided[c] \in SUBSET Concept
    BY <1>3 DEF Solo, Tidy
  <2>2. d.kind \in {"create", "add"} => d.on \in Concept
    BY <1>3 DEF Decision, None
  <2>3. decided' = [decided EXCEPT ![c] =
                      IF Passed(checkpoint, c) THEN decided[c]
                      ELSE IF d.kind = "create" \/ (d.kind = "add" /\ d.on \in known)
                      THEN {d.on} ELSE {}]
    BY <1>1 DEF Records
  <2> QED BY <2>1, <2>2, <2>3
<1>5. /\ decided' \in [Change -> SUBSET Concept] /\ decided'[c] = named
      /\ \A e \in Change \ {c} : decided'[e] = decided[e] /\ record'[e] = record[e]
      /\ record'[c] = "done"
  BY <1>2, <1>3, <1>4 DEF Solo, Tidy, Typed
<1>6. /\ Owed' = Owed /\ Owed \subseteq Change
      /\ \A e, f : Listed(e, f)' = Listed(e, f)
  BY <1>2 DEF Owed, Typed, Listed
<1>7. \A e \in Owed \ {c} : Settled(e) => Settled(e)'
  BY <1>2, <1>5, <1>6 DEF Settled
<1>8. Passed(checkpoint, c) /\ c \in Owed => \A f \in named : Listed(c, f)
  BY <1>2, <1>4 DEF Solo, Settles, Settled
<1>9. Settles(checkpoint)'
  <2>1. Passed(checkpoint, c) /\ c \in Owed => Settled(c)'
    BY <1>2, <1>5, <1>6, <1>8 DEF Settled, None
  <2> QED BY <1>2, <1>6, <1>7, <2>1 DEF Solo, Settles, Passed
<1>10. PICK to \in {"looking", "creating", "stamping"} :
        /\ runner' = [runner EXCEPT ![r] = [runner[r] EXCEPT !.at = to]]
        /\ to = "looking" => d.kind = "add"
        /\ to = "creating" => d.kind = "create"
        /\ to = "stamping" => d.kind \notin {"add", "create"}
  BY <1>1 DEF Records, Becomes
<1>11. PICK q : q = [runner[r] EXCEPT !.at = to]
  OBVIOUS
<1>12. /\ q \in States /\ q.at = to /\ q.change = c /\ q.todo = runner[r].todo
       /\ q.decision = d
  BY <1>1, <1>2, <1>11 DEF States, Working
<1>13. \A e \in Owed' : \/ Settled(e)' \/ e \in q.todo
                        \/ \A o \in q.todo : date'[o] <= date'[e]
  BY <1>2, <1>3, <1>6, <1>7, <1>12 DEF Mine, Working
<1>14. c \in Owed => \A f \in named : Listed(c, f) \/ (to # "stamping" /\ f = d.on)
  BY <1>4, <1>8, <1>10
<1>15. to = "looking" /\ c \in Owed => named \subseteq known
  <2>1. ASSUME to = "looking", c \in Owed, NEW f \in named PROVE f \in known
    <3>1. CASE Passed(checkpoint, c)
      <4>1. Listed(c, f) /\ f \in Concept
        BY <1>4, <1>8, <2>1, <3>1
      <4> QED BY <4>1 DEF Solo, Tidy, Listed
    <3>2. CASE ~Passed(checkpoint, c)
      BY <1>4, <1>10, <2>1, <3>2
    <3> QED BY <3>1, <3>2
  <2> QED BY <2>1
<1>16. to = "stamping" /\ c \in Owed => Settled(c)'
  BY <1>2, <1>5, <1>6, <1>14 DEF Settled, None
<1>17. Mine(q)'
  BY <1>2, <1>5, <1>6, <1>10, <1>12, <1>13, <1>14, <1>15, <1>16 DEF Mine, Working
<1>18. Tidy'
  BY <1>2, <1>5 DEF Solo, Tidy
<1> QED BY <1>2, <1>9, <1>10, <1>11, <1>12, <1>17, <1>18, SoloStep

LEMMA SoloRecordsError ==
  ASSUME IInv, Solo, NEW r \in Runner, RecordsError(r)
  PROVE  Solo'
<1>1. PICK c : c = runner[r].change
  OBVIOUS
<1>2. /\ Typed /\ runner[r] \in States /\ runner[r].at = "erring" /\ Alone(r)
      /\ Mine(runner[r]) /\ Fine(runner[r])
      /\ UNCHANGED <<now, date, landed, slipped, horizon, checkpoint, known, links, replaced>>
      /\ record' = [record EXCEPT ![c] = "error"] /\ decided' = [decided EXCEPT ![c] = {}]
  BY <1>1, ActiveIsAlone DEF IInv, Typed, RecordsError, Solo, world, lists
<1>3. c \in Change
  BY <1>1, <1>2 DEF Fine, States, Working, Oldest
<1>4. /\ decided' \in [Change -> SUBSET Concept] /\ decided'[c] = {} /\ record'[c] = "error"
      /\ \A e \in Change \ {c} : decided'[e] = decided[e] /\ record'[e] = record[e]
  BY <1>2, <1>3 DEF Solo, Tidy, Typed
<1>5. /\ Owed' = Owed /\ Owed \subseteq Change
      /\ \A e, f : Listed(e, f)' = Listed(e, f)
  BY <1>2 DEF Owed, Typed, Listed
<1>6. Settled(c)' /\ \A e \in Owed : Settled(e) => Settled(e)'
  BY <1>2, <1>4, <1>5 DEF Settled, None
<1>7. Settles(checkpoint)'
  BY <1>2, <1>5, <1>6 DEF Solo, Settles, Passed
<1>8. PICK q : q = [runner[r] EXCEPT !.at = "stamping"]
  OBVIOUS
<1>9. q \in States /\ q.at = "stamping" /\ q.change = c /\ q.todo = runner[r].todo
  BY <1>1, <1>2, <1>8 DEF States, Working
<1>10. Mine(q)'
  <2>1. \A e \in Owed' : \/ Settled(e)' \/ e \in q.todo
                         \/ \A o \in q.todo : date'[o] <= date'[e]
    BY <1>2, <1>5, <1>6, <1>9 DEF Mine, Working
  <2> QED BY <1>6, <1>9, <2>1 DEF Mine, Working
<1>11. Tidy'
  BY <1>2, <1>4 DEF Solo, Tidy
<1> QED BY <1>2, <1>4, <1>7, <1>8, <1>9, <1>10, <1>11, SoloStep DEF RecordsError, Goes, Becomes

\* As the records are covered by the checkpoint, so are the decisions.
LEMMA SoloMovesCheckpoint ==
  ASSUME IInv, Solo, NEW r \in Runner, MovesCheckpoint(r)
  PROVE  Solo'
<1>1. PICK c, seen, todo : /\ c = runner[r].change /\ seen = runner[r].seen
                           /\ todo = runner[r].todo \ {c}
  OBVIOUS
<1>2. /\ Typed /\ runner[r] \in States /\ runner[r].at = "stamped" /\ Alone(r)
      /\ Mine(runner[r]) /\ Fine(runner[r])
      /\ UNCHANGED <<now, date, landed, record, slipped, horizon, known, links, replaced, decided>>
      /\ checkpoint' = IF Advanced(seen, c) = seen THEN checkpoint ELSE Advanced(seen, c)
      /\ runner' = [runner EXCEPT ![r] = IF todo = {} THEN Idle
                      ELSE [Idle EXCEPT !.at = "deciding", !.todo = todo,
                                        !.cloned = runner[r].cloned]]
  BY <1>1, ActiveIsAlone DEF IInv, Typed, MovesCheckpoint, Becomes, Solo, world, lists, history
<1>3. /\ c \in Oldest(runner[r].todo) /\ (c \in Owed => Settled(c)) /\ Settles(seen)
      /\ \A d \in Owed : \/ Settled(d) \/ d \in runner[r].todo
                         \/ \A e \in runner[r].todo : date[e] <= date[d]
      /\ runner[r].todo \subseteq Change
  BY <1>1, <1>2 DEF Fine, Mine, Working, States
<1>4. c \in Change /\ date[c] \in Nat /\ seen \in Marks /\ seen.ts \in Nat
  BY <1>1, <1>2, <1>3 DEF Typed, Oldest, States, Marks
<1>5. \A d \in Owed : Settled(d) \/ date[c] <= date[d]
  BY <1>3 DEF Oldest
<1>6. \A d \in Owed : d \in Change /\ date[d] \in Nat
  BY <1>2 DEF Typed, Owed
<1>7. Settles(Advanced(seen, c))
  <2>1. CASE seen.ts < date[c]
    BY <1>3, <1>4, <1>5, <1>6, <2>1 DEF Advanced, Settles, Passed
  <2>2. CASE seen.ts = date[c]
    <3>1. Advanced(seen, c) = [seen EXCEPT !.ids = seen.ids \cup {c}]
      BY <1>4, <2>2 DEF Advanced
    <3> QED BY <1>3, <1>4, <1>5, <1>6, <2>2, <3>1 DEF Marks, Settles, Passed
  <2>3. CASE seen.ts > date[c]
    BY <1>3, <1>4, <2>3 DEF Advanced
  <2> QED BY <1>4, <2>1, <2>2, <2>3
<1>8. Owed' = Owed /\ \A e : Settled(e)' = Settled(e)
  BY <1>2 DEF Owed, Settled, Listed
<1>9. Settles(checkpoint)'
  <2>1. Settles(checkpoint')
    BY <1>2, <1>7 DEF Solo
  <2> QED BY <1>2, <1>8, <2>1 DEF Settles, Passed
<1>10. PICK q : q = [Idle EXCEPT !.at = "deciding", !.todo = todo, !.cloned = runner[r].cloned]
  OBVIOUS
<1>11. Idle \in States /\ q \in States /\ q.at = "deciding" /\ q.todo = todo
  BY <1>1, <1>2, <1>10, FineIdle DEF States, Working, Idle
<1>12. Mine(q)' /\ Mine(Idle)'
  <2>1. \A d \in Owed' : \/ Settled(d)' \/ d \in q.todo
                         \/ \A e \in q.todo : date'[e] <= date'[d]
    BY <1>1, <1>2, <1>3, <1>8, <1>11
  <2> QED BY <1>11, <2>1 DEF Mine, Idle, Working
<1>13. Tidy'
  BY <1>2 DEF Solo, Tidy
<1>14. runner' = [runner EXCEPT ![r] = q] \/ runner' = [runner EXCEPT ![r] = Idle]
  BY <1>2, <1>10
<1> QED BY <1>2, <1>9, <1>11, <1>12, <1>13, <1>14, SoloStep

LEMMA SoloLands ==
  ASSUME IInv, Solo, NEW c \in Change, Lands(c)
  PROVE  Solo'
<1>1. /\ Typed /\ c \notin landed /\ landed' = landed \cup {c}
      /\ UNCHANGED <<now, checkpoint, record, known, links, replaced, runner, horizon, decided>>
  BY DEF IInv, Lands, store, lists
<1>2. PICK d \in IF c \in Pull THEN {now} ELSE 1..now :
        /\ date' = [date EXCEPT ![c] = d]
        /\ slipped' = IF d < now \/ \E r \in Runner : runner[r].at = "commits"
                      THEN slipped \cup {c} ELSE slipped
  BY DEF Lands
<1>3. d \in Nat /\ d <= now /\ now \in Nat
  BY <1>1, <1>2 DEF Typed
<1>4. date'[c] = d /\ \A e \in Change \ {c} : date'[e] = date[e]
  BY <1>1, <1>2, <1>3 DEF Typed
<1>5. /\ Owed' \subseteq Owed \cup {c} /\ Owed \subseteq Change \ {c}
      /\ c \in Owed' => d = now /\ \A r \in Runner : runner[r].at # "commits"
  BY <1>1, <1>2, <1>3, <1>4 DEF Typed, Owed
<1>6. /\ \A e : Settled(e)' = Settled(e)
      /\ \A e, f : Listed(e, f)' = Listed(e, f)
  BY <1>1 DEF Settled, Listed
<1>7. ASSUME NEW cp \in Marks, Past(cp), Settles(cp)
      PROVE  Settles(cp)'
  <2>1. c \in Owed' => ~Passed(cp, c)'
    BY <1>1, <1>3, <1>4, <1>5, <1>7 DEF Past, Passed, Marks
  <2>2. \A e \in Owed : (Passed(cp, e) <=> Passed(cp, e)')
    BY <1>4, <1>5 DEF Passed
  <2> QED BY <1>5, <1>6, <1>7, <2>1, <2>2 DEF Settles
<1>8. ASSUME NEW q \in States, Fine(q), Mine(q), c \in Owed' => q.at # "commits"
      PROVE  Mine(q)'
  <2>1. /\ \A e \in q.todo : date'[e] = date[e] /\ date[e] <= now
        /\ \A e \in Owed : date'[e] = date[e]
    BY <1>1, <1>4, <1>5, <1>8 DEF Fine, States, IInv
  <2>2. Settles(q.seen) => Settles(q.seen)'
    BY <1>7, <1>8 DEF Fine, States
  <2>3. q.at = "commits" => (\A e \in Owed \cap Pull : Settled(e) \/ e \in q.todo)'
    BY <1>5, <1>6, <1>8 DEF Mine
  <2>4. q.at \in Working => (\A e \in Owed : \/ Settled(e) \/ e \in q.todo
                                             \/ \A o \in q.todo : date[o] <= date[e])'
    <3>1. c \in Owed' => \A o \in q.todo : date'[o] <= date'[c]
      BY <1>4, <1>5, <2>1
    <3> QED BY <1>5, <1>6, <1>8, <2>1, <3>1 DEF Mine
  <2>5. q.at \in Working \ {"deciding"} => q.change # c
    BY <1>1, <1>8 DEF Fine, Oldest
  <2>6. q.at \in Working \ {"deciding"} /\ q.change \in Owed' => q.change \in Owed
    BY <1>5, <2>5
  <2>7. /\ (q.at \in {"looking", "linking", "creating"} /\ q.change \in Owed')
             => \A f \in decided[q.change] : Listed(q.change, f) \/ f = q.decision.on
        /\ (q.at = "looking" /\ q.change \in Owed') => decided[q.change] \subseteq known
        /\ (q.at \in {"exploring", "stamping", "stamped"} /\ q.change \in Owed')
             => Settled(q.change)'
    BY <1>6, <1>8, <2>6 DEF Mine, Working
  <2> HIDE DEF Working
  <2> QED BY <1>1, <1>6, <1>8, <2>2, <2>3, <2>4, <2>7 DEF Mine
<1>9. ASSUME NEW r \in Runner PROVE Mine(runner[r])'
  <2>1. PICK q \in States : q = runner[r]
    BY <1>1 DEF Typed
  <2>2. Mine(q)'
    BY <1>5, <1>8, <2>1 DEF IInv, Solo
  <2> QED BY <1>1, <2>1, <2>2
<1>10. Settles(checkpoint)'
  <2>1. PICK cp \in Marks : cp = checkpoint
    BY <1>1 DEF Typed
  <2>2. Settles(cp)'
    BY <1>7, <2>1 DEF IInv, Solo
  <2> QED BY <1>1, <2>1, <2>2
<1>11. \A r \in Runner : runner'[r].at = "idle" \/ Alone(r)'
  BY <1>1 DEF Solo, Alone
<1> QED BY <1>1, <1>9, <1>10, <1>11 DEF Solo, Tidy

\* A step that leaves the store, the decisions and the runs alone.
LEMMA SoloAside ==
  ASSUME Solo, UNCHANGED <<date, landed, slipped, horizon, checkpoint, record, known, links, replaced,
                           runner, decided>>
  PROVE  Solo'
<1>1. Owed' = Owed /\ \A c : Settled(c)' = Settled(c)
  BY DEF Owed, Settled, Listed
<1>2. ASSUME NEW r \in Runner PROVE Mine(runner[r])'
  <2>1. PICK q : q = runner[r]
    OBVIOUS
  <2>2. Mine(q)'
    BY <1>1, <2>1, MineStays DEF Solo
  <2> QED BY <2>1, <2>2
<1>3. Settles(checkpoint)'
  BY <1>1 DEF Solo, Settles, Passed
<1> QED BY <1>2, <1>3 DEF Solo, Tidy, Alone

LEMMA SoloCrash ==
  ASSUME Solo, Crash
  PROVE  Solo'
<1>1. /\ runner' = [r \in Runner |-> Idle]
      /\ UNCHANGED <<date, landed, slipped, horizon, checkpoint, record, known, links, replaced, decided>>
  BY DEF Crash, world, store, lists, history
<1>2. \A r \in Runner : Mine(runner[r])' /\ runner'[r].at = "idle"
  BY <1>1 DEF Mine, Idle, Working
<1>3. Settles(checkpoint)'
  BY <1>1 DEF Solo, Settles, Passed, Settled, Listed, Owed
<1> QED BY <1>1, <1>2, <1>3 DEF Solo, Tidy

LEMMA SoloInit == Init => SoloInv
<1> SUFFICES ASSUME Init PROVE Solo
  BY DEF SoloInv
<1>1. \A r \in Runner : Mine(runner[r]) /\ runner[r].at = "idle"
  BY MineIdle DEF Init, Idle
<1>2. Settles(checkpoint)
  BY DEF Init, Settles, Owed
<1> QED BY <1>1, <1>2 DEF Init, Solo, Tidy

LEMMA SoloNext == IInv /\ SoloInv /\ [Next]_vars => SoloInv'
<1> SUFFICES ASSUME IInv, SoloInv, [Next]_vars, ~overlap' PROVE Solo'
  BY DEF SoloInv
<1>1. overlap' = overlap
  BY DEF Next, Tick, Lands, Starts, Step, Explores, Seeds, SetsLookback, Begins, ListsPulls,
         ListsCommits, Decides, Records, LooksUp, LinksChange, CreatesConcept, ExploresConcept,
         Saves, RecordsError, Stamps, ReadsCheckpoint, MovesCheckpoint, Stumbles, Gives, Crash, vars
<1>2. ~overlap /\ Solo
  BY <1>1 DEF SoloInv
<1>3. ASSUME NEW r \in Runner, Step(r) PROVE Solo'
  <2>1. CASE Explores(r) \/ Seeds(r) \/ SetsLookback(r) \/ Begins(r) \/ ListsPulls(r) \/ ListsCommits(r)
    BY <1>2, <2>1, SoloExplores, SoloSeeds, SoloSetsLookback, SoloBegins, SoloListsPulls,
       SoloListsCommits
  <2>2. CASE Decides(r) \/ Records(r) \/ LooksUp(r) \/ LinksChange(r) \/ CreatesConcept(r) \/ ExploresConcept(r)
    BY <1>2, <2>2, SoloDecides, SoloRecords, SoloLooksUp, SoloLinks
  <2>3. CASE RecordsError(r) \/ Stamps(r) \/ MovesCheckpoint(r)
    BY <1>2, <2>3, SoloRecordsError, SoloStamps, SoloMovesCheckpoint
  <2> QED BY <1>3, <2>1, <2>2, <2>3 DEF Step
<1>4. ASSUME NEW r \in Runner, Starts(r) \/ Stumbles(r) \/ Gives(r) PROVE Solo'
  BY <1>2, <1>4, SoloStarts, SoloStumbles, SoloGives
<1>5. CASE \E c \in Change : Lands(c)
  BY <1>2, <1>5, SoloLands
<1>6. CASE Tick
  BY <1>2, <1>6, SoloAside DEF Tick, store, lists, history
<1>7. CASE UNCHANGED vars
  BY <1>2, <1>7, SoloAside DEF vars
<1>8. CASE Crash
  BY <1>2, <1>8, SoloCrash
<1> QED BY <1>3, <1>4, <1>5, <1>6, <1>7, <1>8 DEF Next

\* For any repository whose runs follow one another, failing or dying anywhere:
\* a change that was processed in full and passed is linked to the concepts
\* decided for it (builder.ts, processRepo), or was until such a concept was
\* created a second time.
THEOREM DecisionKeptTheorem == Spec => []DecisionKept
<1>1. SoloInv => DecisionKept
  BY DEF SoloInv, Solo, Settles, Settled, Listed, Owed, DecisionKept, Behind
<1>2. Spec => []SoloInv
  BY BuilderInvariant, SoloInit, SoloNext, PTL DEF Spec
<1> QED BY <1>1, <1>2, PTL

=============================================================================
