----------------------------- MODULE RunStatus -----------------------------
(***************************************************************************)
(* What the run routes of vein/src/createVein.ts promise to the user of    *)
(* the API: a run that was launched is "running" until it gets the one     *)
(* verdict it keeps.  It is "stale" when it will never have a summary (the *)
(* server died, or the summary could not be written).                      *)
(*                                                                         *)
(* VeinRun implements this for runs launched over HTTP under an id of      *)
(* their own.                                                              *)
(***************************************************************************)
CONSTANT RunId

VARIABLE status

Verdict == {"success", "error", "stale"}

StatusTypeOK == status \in [RunId -> {"absent", "running"} \cup Verdict]

Init == status = [r \in RunId |-> "absent"]

Launch(r) ==
  /\ status[r] = "absent"
  /\ status' = [status EXCEPT ![r] = "running"]

Conclude(r) ==
  /\ status[r] = "running"
  /\ \E v \in Verdict : status' = [status EXCEPT ![r] = v]

\* The server dies: every run it was executing goes stale at once.
Restart ==
  status' = [r \in RunId |-> IF status[r] = "running" THEN "stale" ELSE status[r]]

Next == Restart \/ \E r \in RunId : Launch(r) \/ Conclude(r)

Spec == Init /\ [][Next]_status

=============================================================================
