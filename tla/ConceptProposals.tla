-------------------------- MODULE ConceptProposals --------------------------
(***************************************************************************)
(* Proposals to change concepts (mcp/src/gitree: service.ts, proposals.ts) *)
(* and the direct edits they compete with.  Every awaited storage call of  *)
(* a request is one step, so requests interleave between any two of them;  *)
(* a call may fail, a call that took effect may be repeated because its    *)
(* answer was lost, and the server may die.                                *)
(*                                                                         *)
(* A request is given with its input and runs once.  `at` is the storage   *)
(* call it makes next and `code` the answer it has settled on.  History:   *)
(* `wrote`, whether it may have changed a concept; `again`, the proposal   *)
(* that its call has changed already without hearing so; and `stripped`,   *)
(* the proposals whose decision was undone by such a repeated call.        *)
(***************************************************************************)
EXTENDS ConceptStore, Naturals

CONSTANTS Proposal, Request,
          Call,          \* the inputs of requests
          FirstDoc,      \* what concepts may hold at the start
          MaxFailures,   \* storage calls that fail, or whose answer is lost
          MaxCrashes     \* times the server dies

VARIABLES proposal, request, stripped, failures, crashes

vars == <<node, parentOf, proposal, request, stripped, failures, crashes>>

None == "none"

\* What a proposal or a direct edit wants.  `whole`: it brings a description,
\* so that an update saves the whole concept.
Content == [action : {"create", "update", "delete", "merge"}, concept : Concept,
            into : Concept, parent : Concept \cup {None}, docs : Doc, whole : BOOLEAN]

CallType == [op : {"accept", "reject", "propose", "direct"}, proposal : Proposal,
             content : Content, force : BOOLEAN]
ASSUME CallAssumption == /\ Call \subseteq CallType /\ Call # {}
                         /\ FirstDoc \subseteq Doc /\ None \notin Proposal

ProposalType == [status : {None, "pending", "accepted", "rejected"},
                 content : Content, base : Doc \cup {Absent}]

\* The storage calls of an accepted proposal, from its claim to its answer.
Holding == {"checking", "parent", "saving", "documenting", "linking", "undoing",
            "requiring", "requiringInto", "writing", "dropping", "recording",
            "reading", "releasing"}
Over == {"answered", "misled", "unreleased", "lost", "dropped"}
RequestType == [call : Call, at : {"start", "claiming", "snapshot", "proposing"} \cup Holding \cup Over,
                code : {None, "ok", "refused", "failed"}, wrote : BOOLEAN,
                base : Doc \cup {Absent}, again : Proposal \cup {None}]

TypeOK ==
  /\ GraphType
  /\ proposal \in [Proposal -> ProposalType]
  /\ request \in [Request -> RequestType]
  /\ stripped \subseteq Proposal
  /\ failures \in 0..MaxFailures
  /\ crashes \in 0..MaxCrashes

-----------------------------------------------------------------------------

NoProposal == CHOOSE q \in ProposalType : q.status = None

FirstCall(action) == IF action = "create" THEN "checking" ELSE "requiring"

\* Proposals of earlier requests wait, and concepts may have drifted since.
Init ==
  /\ node \in [Concept -> FirstDoc \cup {Absent}]
  /\ parentOf = {}
  /\ proposal \in [Proposal -> {NoProposal} \cup
                     {q \in ProposalType : /\ q.status = "pending"
                                           /\ \E k \in Call : q.content = k.content
                                           /\ (q.base = Absent) = (q.content.action = "create")}]
  /\ request \in [Request -> {[call |-> k, code |-> None, wrote |-> FALSE, base |-> Absent, again |-> None,
                               at |-> IF k.op = "direct" THEN FirstCall(k.content.action)
                                      ELSE "start"] : k \in Call}]
  /\ stripped = {}
  /\ failures = 0
  /\ crashes = 0

IsAccept(r) == request[r].call.op = "accept"
Target(r) == request[r].call.proposal
Want(r) == IF IsAccept(r) THEN proposal[Target(r)].content ELSE request[r].call.content

\* Request r, with its call over and its fields at, code and wrote changed.
Moved(r, to, code, wrote) ==
  [request[r] EXCEPT !.at = to, !.code = code, !.wrote = wrote, !.again = None]
Moves(r, to, code, wrote) == request' = [request EXCEPT ![r] = Moved(r, to, code, wrote)]
Goes(r, to) == Moves(r, to, request[r].code, request[r].wrote)
Answers(r, code) == Moves(r, "answered", code, request[r].wrote)

\* Mutant: an error is answered and the claim kept.
MutThrows(r, code, wrote) == Moves(r, "answered", code, wrote)

\* An error thrown while a claimed proposal is applied releases the claim
\* before it is answered.
Throws(r, code, wrote) == Moves(r, IF IsAccept(r) THEN "releasing" ELSE "answered", code, wrote)
Refuses(r) == Throws(r, "refused", request[r].wrote)

\* The change is complete: a direct edit is answered; an accepted creation
\* first records what it made, and an accept reads the proposal again.
Applied(r, wrote) ==
  IF ~IsAccept(r) THEN Moves(r, "answered", "ok", wrote)
  ELSE Moves(r, IF Want(r).action = "create" THEN "recording" ELSE "reading", None, wrote)

SameGraph == UNCHANGED <<node, parentOf>>
SameProposals == UNCHANGED <<proposal, stripped>>
NoFault == UNCHANGED <<failures, crashes>>
OnlyRequest == SameGraph /\ SameProposals /\ NoFault
OnlyGraph == SameProposals /\ NoFault

Repeated(r) == request[r].again # None

\* The write of r makes p pending, whatever it was; by a repeated write p
\* loses the decision that was taken since the first.
MakesPending(r, p, content, base) ==
  /\ proposal' = [proposal EXCEPT ![p] = [status |-> "pending", content |-> content, base |-> base]]
  /\ stripped' = stripped \cup {q \in {p} : Repeated(r) /\ proposal[q].status # "pending"}

-----------------------------------------------------------------------------
(* Creating a proposal: the target is read, and its documentation kept as   *)
(* the base; a merge reads two concepts, a creation its parent.             *)

Snapshots(r) ==
  /\ request[r].at = "start" /\ request[r].call.op = "propose"
  /\ LET w == Want(r)
         second == w.action = "merge" \/ (w.action = "create" /\ w.parent # None) IN
     IF Exists(w.concept) <=> w.action = "create" THEN Answers(r, "refused")
     ELSE request' = [request EXCEPT ![r].at = IF second THEN "snapshot" ELSE "proposing",
                                     ![r].base = node[w.concept]]
  /\ OnlyRequest

SnapshotsSecond(r) ==
  /\ request[r].at = "snapshot"
  /\ LET w == Want(r)
         c == IF w.action = "merge" THEN w.into ELSE w.parent IN
     IF ~Exists(c) \/ (w.action = "merge" /\ c = w.concept) THEN Answers(r, "refused")
     ELSE request' = [request EXCEPT ![r].at = "proposing",
                                     ![r].base = IF w.action = "merge" THEN node[c] ELSE @]
  /\ OnlyRequest

\* MERGE ... SET under an id of its own, which a repeated call keeps.
Proposes(r, p) ==
  /\ request[r].at = "proposing"
  /\ IF Repeated(r) THEN p = request[r].again ELSE proposal[p].status = None
  /\ MakesPending(r, p, Want(r), request[r].base)

SavesProposal(r) ==
  /\ \E p \in Proposal : Proposes(r, p)
  /\ Answers(r, "ok")
  /\ SameGraph /\ NoFault

-----------------------------------------------------------------------------
(* Deciding on a proposal.                                                  *)

ReadsProposal(r) ==
  /\ request[r].at = "start" /\ request[r].call.op \in {"accept", "reject"}
  /\ LET s == proposal[Target(r)].status IN
     IF s = None \/ (IsAccept(r) /\ s # "pending") THEN Answers(r, "refused")
     ELSE Goes(r, "claiming")
  /\ OnlyRequest

\* Mutant: the claim does not ask whether the proposal is still pending.
MutClaims(r) ==
  /\ request[r].at = "claiming"
  /\ proposal' = [proposal EXCEPT ![Target(r)].status =
                                     IF IsAccept(r) THEN "accepted" ELSE "rejected"]
  /\ Goes(r, IF IsAccept(r) THEN FirstCall(Want(r).action) ELSE "reading")
  /\ SameGraph /\ NoFault /\ UNCHANGED stripped

\* The query of a claim moves a pending proposal to its decision.
Claim(r) ==
  /\ request[r].at = "claiming" /\ proposal[Target(r)].status = "pending"
  /\ proposal' = [proposal EXCEPT ![Target(r)].status =
                                     IF IsAccept(r) THEN "accepted" ELSE "rejected"]
  /\ UNCHANGED stripped

\* It matches nothing when the proposal is decided, also by the first try of
\* this very claim.
Claims(r) ==
  /\ \/ Claim(r) /\ Goes(r, IF IsAccept(r) THEN FirstCall(Want(r).action) ELSE "reading")
     \/ /\ request[r].at = "claiming" /\ proposal[Target(r)].status # "pending"
        /\ Moves(r, IF Repeated(r) THEN "misled" ELSE "answered", "refused", request[r].wrote)
        /\ SameProposals
  /\ SameGraph /\ NoFault

\* A release asks for nothing but the proposal's id.
Release(r) == /\ request[r].at = "releasing"
              /\ LET q == proposal[Target(r)] IN
                 MakesPending(r, Target(r), q.content, q.base)

Releases(r) == Release(r) /\ Goes(r, "answered") /\ SameGraph /\ NoFault

Records(r) == request[r].at = "recording" /\ Goes(r, "reading") /\ OnlyRequest
ReadsAgain(r) == request[r].at = "reading" /\ Answers(r, "ok") /\ OnlyRequest

-----------------------------------------------------------------------------
(* The write of a concept that the request makes next.                      *)

Write(r) ==
  LET w == Want(r) IN
  CASE request[r].at = "saving" -> SaveConcept(w.concept, w.docs)
    [] request[r].at = "documenting" -> SaveDocumentation(w.concept, w.docs)
    [] request[r].at = "linking" -> LinkConceptParent(w.parent, w.concept)
    [] request[r].at \in {"undoing", "dropping"} -> DeleteConcept(w.concept)
    [] request[r].at = "writing" ->
         CASE w.action = "merge" -> SaveConcept(w.into, w.docs)
           [] w.action = "delete" -> DeleteConcept(w.concept)
           [] w.action = "update" /\ w.whole -> SaveConcept(w.concept, w.docs)
           [] OTHER -> SaveDocumentation(w.concept, w.docs)

-----------------------------------------------------------------------------
(* createConceptDirect, for a direct request or an accepted creation.       *)

\* Mutant: the concept is saved before its parent is looked up.
MutChecksNew(r) ==
  /\ request[r].at = "checking"
  /\ IF Exists(Want(r).concept) THEN Refuses(r) /\ SameGraph
     ELSE /\ SaveConcept(Want(r).concept, Want(r).docs)
          /\ Moves(r, IF Want(r).parent = None THEN "documenting" ELSE "parent", None, TRUE)
  /\ OnlyGraph

ChecksNew(r) ==
  /\ request[r].at = "checking"
  /\ IF Exists(Want(r).concept) THEN Refuses(r)
     ELSE Goes(r, IF Want(r).parent = None THEN "saving" ELSE "parent")
  /\ OnlyRequest

ChecksParent(r) ==
  /\ request[r].at = "parent"
  /\ IF Exists(Want(r).parent) /\ Want(r).parent # Want(r).concept
     THEN Goes(r, "saving") ELSE Refuses(r)
  /\ OnlyRequest

SavesNew(r) ==
  /\ request[r].at = "saving" /\ Write(r)
  /\ Moves(r, "documenting", None, TRUE)
  /\ OnlyGraph

DocumentsNew(r) ==
  /\ request[r].at = "documenting" /\ Write(r)
  /\ IF Want(r).parent = None THEN Applied(r, TRUE) ELSE Goes(r, "linking")
  /\ OnlyGraph

LinksNew(r) ==
  /\ request[r].at = "linking"
  /\ IF CanLink(Want(r).parent, Want(r).concept)
     THEN Write(r) /\ Applied(r, TRUE)
     ELSE SameGraph /\ Goes(r, "undoing")
  /\ OnlyGraph

UndoesNew(r) ==
  /\ request[r].at = "undoing" /\ Write(r)
  /\ Throws(r, "failed", TRUE)
  /\ OnlyGraph

-----------------------------------------------------------------------------
(* Updates, deletions and merges, accepted or direct; a direct edit has no  *)
(* base to compare with.                                                    *)

IsStale(r, c) == IsAccept(r) /\ ~request[r].call.force /\ proposal[Target(r)].base # node[c]

RequiresConcept(r) ==
  /\ request[r].at = "requiring"
  /\ LET w == Want(r) IN
     IF ~Exists(w.concept) THEN Refuses(r)
     ELSE IF w.action = "merge" THEN Goes(r, "requiringInto")
     ELSE IF IsStale(r, w.concept) THEN Refuses(r) ELSE Goes(r, "writing")
  /\ OnlyRequest

RequiresInto(r) ==
  /\ request[r].at = "requiringInto"
  /\ IF ~Exists(Want(r).into) \/ IsStale(r, Want(r).into) THEN Refuses(r)
     ELSE Goes(r, "writing")
  /\ OnlyRequest

WritesUpdate(r) ==
  /\ request[r].at = "writing" /\ Want(r).action = "update" /\ Write(r)
  /\ Applied(r, request[r].wrote \/ Want(r).whole \/ Exists(Want(r).concept))
  /\ OnlyGraph

WritesDelete(r) ==
  /\ request[r].at = "writing" /\ Want(r).action = "delete" /\ Write(r)
  /\ Applied(r, request[r].wrote \/ Exists(Want(r).concept))
  /\ OnlyGraph

WritesMerge(r) ==
  /\ request[r].at = "writing" /\ Want(r).action = "merge" /\ Write(r)
  /\ Moves(r, "dropping", None, TRUE)
  /\ OnlyGraph

DropsAbsorbed(r) ==
  /\ request[r].at = "dropping" /\ Write(r)
  /\ Applied(r, TRUE)
  /\ OnlyGraph

-----------------------------------------------------------------------------
(* Faults.                                                                  *)

Faults == failures < MaxFailures /\ failures' = failures + 1 /\ UNCHANGED crashes

\* A storage call throws: this try of it changed nothing, an earlier one may
\* have (AnswerLost).  The link of a new concept is undone; a failed release
\* is only logged; the claim lies outside the try block that releases.
CallFails(r) ==
  /\ Faults
  /\ LET s == request[r] IN
     /\ s.at \notin Over
     /\ CASE s.at = "linking" -> Goes(r, "undoing")
          [] s.at = "releasing" -> Goes(r, IF Repeated(r) THEN "answered" ELSE "unreleased")
          [] s.at = "claiming" /\ Repeated(r) -> Moves(r, "misled", "failed", s.wrote)
          [] s.at \in Holding \ {"linking", "releasing"} /\ IsAccept(r) -> Throws(r, "failed", s.wrote)
          [] OTHER -> Answers(r, "failed")
  /\ SameGraph /\ SameProposals

\* A call took effect and its answer is lost with the connection: the session
\* makes it again.  When it has no try left, or it is a saveConcept whose
\* later queries fail, it throws instead: CallFails follows.
AnswerLost(r) ==
  /\ Faults
  /\ \/ /\ \/ (Claim(r) \/ Release(r)) /\ request' = [request EXCEPT ![r].again = Target(r)]
           \/ \E p \in Proposal : Proposes(r, p) /\ request' = [request EXCEPT ![r].again = p]
        /\ SameGraph
     \/ /\ request[r].at \in {"saving", "documenting", "linking", "undoing", "writing", "dropping"}
        /\ Write(r)
        /\ request' = [request EXCEPT ![r].wrote = TRUE]
        /\ SameProposals

\* The process ends: requests under way are never answered.
Crash ==
  /\ crashes < MaxCrashes
  /\ crashes' = crashes + 1
  /\ request' = [r \in Request |->
                   IF request[r].at \in {"start"} \cup Over THEN request[r]
                   ELSE [request[r] EXCEPT !.at = IF @ \in Holding \/ Repeated(r) THEN "lost" ELSE "dropped"]]
  /\ SameGraph /\ SameProposals
  /\ UNCHANGED failures

Next ==
  \/ \E r \in Request :
       \/ Snapshots(r) \/ SnapshotsSecond(r) \/ SavesProposal(r)
       \/ ReadsProposal(r) \/ Claims(r) \/ Releases(r) \/ Records(r) \/ ReadsAgain(r)
       \/ ChecksNew(r) \/ ChecksParent(r) \/ SavesNew(r) \/ DocumentsNew(r)
       \/ LinksNew(r) \/ UndoesNew(r)
       \/ RequiresConcept(r) \/ RequiresInto(r)
       \/ WritesUpdate(r) \/ WritesDelete(r) \/ WritesMerge(r) \/ DropsAbsorbed(r)
       \/ CallFails(r) \/ AnswerLost(r)
  \/ Crash

Spec == Init /\ [][Next]_vars

-----------------------------------------------------------------------------

\* The request is an accept that applies proposal p, or has.
Decides(r, p) ==
  /\ IsAccept(r) /\ Target(r) = p
  /\ \/ request[r].at \in Holding /\ ~(request[r].at = "releasing" /\ Repeated(r))
     \/ request[r].at = "answered" /\ request[r].code = "ok"

\* claimProposal: "a proposal can never be applied twice".  At most one
\* request applies a proposal or was told that it has, and as long as there
\* is one the proposal reads accepted, whatever the others do to it.  The
\* exception, of which the code says nothing: a release, or the saving of the
\* proposal, that was made again took away a decision made in between.
OneDecider ==
  \A p \in Proposal \ stripped, r \in Request : Decides(r, p) =>
    /\ proposal[p].status = "accepted"
    /\ \A s \in Request : Decides(s, p) => s = r

\* A request that is refused (400, 404, 409) has changed no concept: each
\* check comes before every write, for creations with a parent too.
RefusalsWriteNothing ==
  \A r \in Request : request[r].code = "refused" => ~request[r].wrote

\* A request that may leave proposal p claimed without applying it: the
\* process died, the release of the claim failed, or the answer of the claim
\* was lost, so that the request takes its own claim for another's.
Abandons(r, p) ==
  /\ IsAccept(r) /\ Target(r) = p
  /\ \/ request[r].at \in {"lost", "unreleased", "misled"}
     \/ request[r].at = "claiming" /\ Repeated(r)

\* A proposal that reads accepted is applied, is being applied, or met one of
\* the three faults that leave it claimed.
AcceptedBacked ==
  \A p \in Proposal : proposal[p].status = "accepted" =>
    \E r \in Request : Decides(r, p) \/ Abandons(r, p)

=============================================================================
