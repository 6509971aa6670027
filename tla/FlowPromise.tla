---------------------------- MODULE FlowPromise ----------------------------
(***************************************************************************)
(* What `executeFlow` (vein/src/runner.ts) promises to `runWorkflow`, its  *)
(* caller: one promise that is fulfilled or rejected at most once.         *)
(*                                                                         *)
(* `busy` tells whether some step of the flow may still act: emit an event *)
(* to the log, call a service, start.  `nests` tells whether a step of the *)
(* flow calls a subflow under retry or onError.  A rejected flow may stay  *)
(* busy (Promise.all rejects with the first failure and cancels nothing).  *)
(* A fulfilled one is quiet, unless it nests: a subflow that was rejected  *)
(* leaves its other steps running while the step that called it retries or *)
(* falls back, and succeeds.                                               *)
(*                                                                         *)
(* VeinFlow implements this specification for the flows that do not nest;  *)
(* VeinRun uses it as its flow.                                            *)
(***************************************************************************)
VARIABLES settled, busy, nests

promiseVars == <<settled, busy, nests>>

PromiseTypeOK ==
  /\ settled \in {"pending", "fulfilled", "rejected"}
  /\ busy \in BOOLEAN
  /\ nests \in BOOLEAN

\* A flow whose first step waits for itself is never busy and never settles.
Init ==
  /\ settled = "pending"
  /\ busy \in BOOLEAN
  /\ nests \in BOOLEAN

\* Steps act, until none can any more; a quiet flow stays quiet.
Work ==
  /\ busy
  /\ busy' \in BOOLEAN
  /\ UNCHANGED <<settled, nests>>

\* Mutant: fulfilled by whichever step ends first (Promise.any).
MutFulfilBusy ==
  /\ settled = "pending"
  /\ settled' = "fulfilled"
  /\ UNCHANGED <<busy, nests>>

Fulfil ==
  /\ settled = "pending"
  /\ busy => nests
  /\ settled' = "fulfilled"
  /\ UNCHANGED <<busy, nests>>

Reject ==
  /\ settled = "pending"
  /\ settled' = "rejected"
  /\ UNCHANGED <<busy, nests>>

Next == Work \/ Fulfil \/ Reject

Spec == Init /\ [][Next]_promiseVars

=============================================================================
