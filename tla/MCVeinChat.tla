----------------------------- MODULE MCVeinChat -----------------------------
(***************************************************************************)
(* Small chats for VeinChat, and their liveness.                           *)
(***************************************************************************)
EXTENDS VeinChat, TLC

\* Requests are interchangeable.
RequestSymmetry == Permutations(Request)

\* A turn that was launched is over in the end and has told so in its log,
\* whatever it throws and whatever other turns do meanwhile; or the server died
\* of it.
TurnConcludes ==
  \A r \in Request :
    pc[r] = "streaming" ~> \/ pc[r] = "dead" /\ failures + crashes > 0
                           \/ /\ pc[r] = "finished"
                              /\ \E i \in DOMAIN events : events[i].by = r /\ IsTerminal(events[i])

\* A client that follows a turn gets its `done` frame, or loses its connection
\* with the server, or follows a turn that died with it.
StreamConcludes ==
  \A c \in Client :
    client[c].at = "tailing" ~>
      \/ client[c].at \in {"answered", "idle"}
      \/ \E r \in Request : turn[r] = client[c].turn /\ pc[r] = "dead"

\* Turns and streams come to their end (createVein.ts 922-1003, 1049-1077).
TurnsAndStreamsConclude == TurnConcludes /\ StreamConcludes

\* Chats are well formed, and no two messages of a patient user share a turn
\* (createVein.ts 1019-1032).
ChatWellFormed == TypeOK /\ TurnsDistinct

=============================================================================
