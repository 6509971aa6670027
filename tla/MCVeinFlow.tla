---------------------------- MODULE MCVeinFlow -----------------------------
(***************************************************************************)
(* Small flows for VeinFlow, and the properties of whole flows: paths of   *)
(* dependencies, retry budgets and termination.                            *)
(***************************************************************************)
EXTENDS VeinFlow

Explicit(deps, when, retries) ==
  [explicit |-> TRUE, depends |-> deps, when |-> when, retries |-> retries]
Implicit(when, retries) ==
  [explicit |-> FALSE, depends |-> {}, when |-> when, retries |-> retries]

\* Every DAG of three steps in array order, with every gating, no retries.
DagStep(s) ==
  { Explicit(d, w, <<0>>) : d \in SUBSET (1 .. (s - 1)), w \in Gate }
DagFlows == { f \in [Step -> UNION { DagStep(s) : s \in Step }] :
                \A s \in Step : f[s] \in DagStep(s) }

\* Two steps with every retry budget and fallback ladder, the second after the
\* first or beside it, and a third step after both.
Ladders == { <<0>>, <<2>>, <<1, 0>>, <<0, 1>>, <<0, 0, 0>> }
RetryFlows ==
  { <<Implicit("none", r1), f, Explicit({1, 2}, "none", <<0>>)>> :
      r1 \in Ladders, f \in { Implicit("none", r2) : r2 \in Ladders }
                       \cup { Explicit({}, "none", r2) : r2 \in Ladders } }

\* Dependencies at will, unknown ids, self and mutual dependencies included.
AnyFlows ==
  { <<Explicit(d1, w1, <<0>>), f2, Implicit("none", <<0>>)>> :
      d1 \in SUBSET (0 .. 2), w1 \in Gate,
      f2 \in { Explicit(d2, "none", <<0>>) : d2 \in SUBSET (0 .. 2) }
        \cup { Implicit(w2, <<1>>) : w2 \in Gate } }

AllFlows == DagFlows \cup RetryFlows \cup AnyFlows

-----------------------------------------------------------------------------
(* Attempts.                                                               *)

\* The attempts a step is entitled to, as pairs of a level and a number: at each
\* level the first one and its retries.
Entitled(s) ==
  UNION { {l} \X (0 .. flow[s].retries[l]) : l \in 1 .. Len(flow[s].retries) }

Current(s) == <<level[s], attempt[s]>>

\* Those that failed before the current one.
Earlier(s) ==
  { a \in Entitled(s) : a[1] < level[s] \/ (a[1] = level[s] /\ a[2] < attempt[s]) }

Spent(s)  == Cardinality(Earlier(s))
Budget(s) == Cardinality(Entitled(s))

\* Attempts are made one after the other, a handler that ran runs again only as
\* the next attempt, and a step gives up exactly when the last attempt of its
\* last fallback failed: none it is entitled to is lost, none is made twice, and
\* no other is made.
AttemptsAccounted ==
  [][\A s \in Step :
       /\ phase'[s] \in Attempting =>
            /\ Current(s)' \in Entitled(s)'
            /\ Spent(s)' \in {Spent(s), Spent(s) + 1}
            /\ phase[s] = "running" /\ phase'[s] # "running" => Spent(s)' # Spent(s)
       /\ phase[s] # "unwinding" /\ phase'[s] = "unwinding" => Spent(s) = Budget(s) - 1]_vars

-----------------------------------------------------------------------------
(* Liveness.                                                               *)

\* A flow without a dependency cycle settles.
AcyclicSettles == Acyclic ~> settled # "pending"

\* The failure of one step does not take its siblings along: every step of an
\* acyclic flow is resolved or fails, unless it lies downstream of a failure.
EveryStepConcludes ==
  \A s \in Step :
    Acyclic ~> \/ phase[s] \in Resolved \cup {"failed"}
               \/ \E d \in Ancestors(s) : phase[d] = "failed"

\* A flow settles and each of its steps concludes (runner.ts 240-311).
FlowConcludes == AcyclicSettles /\ EveryStepConcludes

=============================================================================
