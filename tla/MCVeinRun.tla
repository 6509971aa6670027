----------------------------- MODULE MCVeinRun -----------------------------
(***************************************************************************)
(* Small servers for VeinRun, and its liveness.                            *)
(***************************************************************************)
EXTENDS VeinRun

\* Jobs are named after their runs: each run has an id of its own.
OwnIds == [j \in Job |-> j]

Detached == [j \in Job |-> "detached"]

-----------------------------------------------------------------------------
(* Liveness.                                                               *)

\* Whatever fails, a detached run that was launched is forgotten by the server
\* in the end, so it does not stay "running" for ever.
LaunchForgotten ==
  \A j \in Job : pc[j] # "idle" ~> pc[j] \in {"returned", "dead"} /\ RunIdOf[j] \notin activeRuns

\* Unless a write fails or the server dies, a client that follows a launched
\* run gets its final frame.
StreamEnds ==
  \A c \in Client, j \in Job :
    client[c].at = "tailing" /\ client[c].run = RunIdOf[j] /\ pc[j] # "idle"
      ~> client[c].at # "tailing" \/ failures > 0 \/ crashes > 0

\* A launched run is forgotten and its streams end (createVein.ts 432-448, 859-866).
RunConcludes == LaunchForgotten /\ StreamEnds

\* The state is well formed, and a success summary belongs to a run whose log told
\* the success, once; it is over, unless its flow nests (runner.ts 124-126, 401-424).
LogsWellFormed == TypeOK /\ SuccessClosesLog

=============================================================================
