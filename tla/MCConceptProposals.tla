------------------------- MODULE MCConceptProposals -------------------------
(***************************************************************************)
(* An instance of ConceptProposals: two concepts, two texts, and requests  *)
(* chosen so that each action of a proposal meets the edits that disturb   *)
(* it.                                                                     *)
(***************************************************************************)
EXTENDS ConceptProposals, TLC

Want1(action, whole) == [action |-> action, concept |-> "c", into |-> "d", parent |-> None,
                         docs |-> "new", whole |-> whole]
Creation == [Want1("create", TRUE) EXCEPT !.parent = "d"]

MCCall ==
  {[op |-> "accept", proposal |-> "p", content |-> Creation, force |-> f] : f \in BOOLEAN}
  \cup {[op |-> "reject", proposal |-> "p", content |-> Creation, force |-> FALSE]}
  \cup {[op |-> o, proposal |-> "p", content |-> w, force |-> FALSE] :
          o \in {"propose"}, w \in {Creation, Want1("merge", TRUE), Want1("update", FALSE)}}
  \cup {[op |-> "direct", proposal |-> "p", content |-> w, force |-> FALSE] :
          w \in {Creation, Want1("update", FALSE), [Want1("delete", TRUE) EXCEPT !.concept = "d"]}}

RequestSymmetry == Permutations(Request)

=============================================================================
