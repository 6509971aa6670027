--------------------------- MODULE RequestStatus ---------------------------
(***************************************************************************)
(* What GET /progress of the mcp server and GET /status of the standalone  *)
(* server promise about a request: it is pending until it gets the one     *)
(* verdict it keeps, over restarts too, until the server forgets it.       *)
(*                                                                         *)
(* "orphaned" is the failure a caller may retry: the server went away      *)
(* while it worked.  A request is "lost" when its file could not be        *)
(* written; nothing is promised of it.                                     *)
(***************************************************************************)
CONSTANT Req

VARIABLE status

Verdict == {"completed", "failed", "orphaned"}

Moves ==
  [ absent    |-> {"pending", "lost"},
    pending   |-> Verdict \cup {"forgotten", "lost"},
    completed |-> {"forgotten"},
    failed    |-> {"forgotten"},
    orphaned  |-> {"forgotten"},
    forgotten |-> {},
    lost      |-> {} ]

Init == status = [r \in Req |-> "absent"]

\* One step may move several requests: a shutdown fails all that are pending.
Next ==
  /\ status' \in [Req -> DOMAIN Moves]
  /\ \A r \in Req : status'[r] \in Moves[status[r]] \cup {status[r]}

Spec == Init /\ [][Next]_status

=============================================================================
