---------------------------- MODULE MCGraphSync ----------------------------
(***************************************************************************)
(* A repository of two files that are rewritten, reverted and deleted; a   *)
(* file with text "b" calls the file f, which has a muted node that is     *)
(* listed; the other has one that is not, and a hint's edge.               *)
(***************************************************************************)
EXTENDS GraphSync

MCFirst == [f \in File |-> IF f = "f" THEN "a" ELSE "b"]
MCMark == {<<"f", "listed">>, <<"g", "unlisted">>, <<"g", "edge">>}
MCCalls(t) == IF t = "b" THEN {"f"} ELSE {}

=============================================================================
