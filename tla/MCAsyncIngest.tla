--------------------------- MODULE MCAsyncIngest ---------------------------
(***************************************************************************)
(* A small server for AsyncIngest: requests of each kind, in all mixtures. *)
(***************************************************************************)
EXTENDS AsyncIngest

MCCall == {[kind |-> "ingest", callback |-> TRUE], [kind |-> "sync", callback |-> FALSE],
           [kind |-> "direct", callback |-> FALSE]}

=============================================================================
