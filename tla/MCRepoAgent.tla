---------------------------- MODULE MCRepoAgent ----------------------------
(***************************************************************************)
(* Small servers for RepoAgent: the agent requests are all of one session. *)
(***************************************************************************)
EXTENDS RepoAgent

CONSTANT s1

MCSessionOf == [r \in Agent |-> s1]

\* The state is well formed, and memory tells what the disk tells (reqs.ts 62-139).
StoreSound == TypeOK /\ IndexAgreesWithDisk

\* A webhook hears the verdict on record, once, and does hear it
\* (repo/index.ts 331-441).
CallerToldRecord == CallerHearsTheRecord /\ NoticeOwed

\* Requests leave "pending" and their streams are closed (repo/index.ts 433-522,
\* events.ts 103-144).
RequestsConclude == RecordSettles /\ StreamsClose

=============================================================================
