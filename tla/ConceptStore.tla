---------------------------- MODULE ConceptStore ----------------------------
(***************************************************************************)
(* The part of GraphStorage that keeps concepts: each operator is one      *)
(* query of the database, which is atomic; two queries are not.  A concept *)
(* is abstracted to its documentation.  PARENT_OF edges are kept; the      *)
(* TOUCHES edges, embeddings and timestamps that saveConcept also writes   *)
(* are not.                                                                *)
(***************************************************************************)
CONSTANTS Concept, Doc

Absent == "absent"
ASSUME AbsentAssumption == Absent \notin Doc

VARIABLES node,      \* the documentation of each concept, or Absent
          parentOf   \* the PARENT_OF edges, as pairs <<parent, child>>

graph == <<node, parentOf>>

GraphType == /\ node \in [Concept -> Doc \cup {Absent}]
             /\ parentOf \subseteq Concept \X Concept

Exists(c) == node[c] # Absent

\* MERGE ... SET: creates the node, or overwrites what is there.
SaveConcept(c, d) == /\ node' = [node EXCEPT ![c] = d]
                     /\ UNCHANGED parentOf

\* MATCH ... SET: without a node it changes nothing, and says so to nobody.
SaveDocumentation(c, d) ==
  /\ node' = [node EXCEPT ![c] = IF Exists(c) THEN d ELSE Absent]
  /\ UNCHANGED parentOf

\* DETACH DELETE: the node and its edges, or nothing.
DeleteConcept(c) == /\ node' = [node EXCEPT ![c] = Absent]
                    /\ parentOf' = {e \in parentOf : c \notin {e[1], e[2]}}

\* Fails when one of the two nodes is gone.
CanLink(p, c) == Exists(p) /\ Exists(c)
LinkConceptParent(p, c) == /\ CanLink(p, c)
                           /\ parentOf' = parentOf \cup {<<p, c>>}
                           /\ UNCHANGED node

=============================================================================
