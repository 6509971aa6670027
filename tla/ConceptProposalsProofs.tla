----------------------- MODULE ConceptProposalsProofs -----------------------
(***************************************************************************)
(* Deciding on proposals, for any requests, proposals and concepts, and    *)
(* any number of failures and crashes.                                     *)
(*                                                                         *)
(* That a proposal has one decider and that an accepted one has any at all *)
(* are proved together: a claim finds nobody, because whoever decided      *)
(* before left the proposal accepted, and a release leaves nobody, because *)
(* whoever releases answers an error.  A call that is repeated may find    *)
(* another decider than its own: then the proposal is stripped.            *)
(***************************************************************************)
EXTENDS ConceptProposals, TLAPS

Codes == {None, "ok", "refused", "failed"}
Stages == {"start", "claiming", "snapshot", "proposing"} \cup Holding \cup Over

Typed ==
  /\ node \in [Concept -> Doc \cup {Absent}]
  /\ proposal \in [Proposal -> ProposalType]
  /\ request \in [Request -> RequestType]
  /\ stripped \subseteq Proposal

Early == {"start", "claiming", "snapshot", "proposing"}

\* What the answer a request has settled on says, and when it may have written.
Sound(q) ==
  /\ q.code = "refused" => ~q.wrote
  /\ q.at \in Early \cup (Holding \ {"releasing"}) => q.code = None
  /\ q.at \in {"snapshot", "proposing"} => q.call.op # "accept"
  /\ q.at = "releasing" => q.call.op = "accept" /\ q.code \in {"refused", "failed"}
  /\ q.at \in Early \cup {"checking", "parent", "requiring", "requiringInto"} => ~q.wrote

\* Decides and Abandons, of the record of a request.
Deciding(q) == /\ q.call.op = "accept"
               /\ \/ q.at \in Holding /\ ~(q.at = "releasing" /\ q.again # None)
                  \/ q.at = "answered" /\ q.code = "ok"

Stuck(q) == /\ q.call.op = "accept"
            /\ \/ q.at \in {"lost", "unreleased", "misled"}
               \/ q.at = "claiming" /\ q.again # None

OneEach ==
  \A r \in Request : Deciding(request[r]) /\ Target(r) \notin stripped =>
    /\ proposal[Target(r)].status = "accepted"
    /\ \A s \in Request : Deciding(request[s]) /\ Target(s) = Target(r) => s = r
Backed ==
  \A p \in Proposal : proposal[p].status = "accepted" =>
    \E r \in Request : Target(r) = p /\ (Deciding(request[r]) \/ Stuck(request[r]))

IInv == Typed /\ OneEach /\ Backed /\ \A r \in Request : Sound(request[r])

-----------------------------------------------------------------------------

\* A request moves on: it decides after the step only if it did before, and
\* if it did it still does, or got stuck.
LEMMA KeepsStep ==
  ASSUME IInv, NEW r \in Request, NEW q \in RequestType, request' = [request EXCEPT ![r] = q],
         q.call = request[r].call, Sound(q), node' \in [Concept -> Doc \cup {Absent}],
         SameProposals, request[r].at \notin Over,
         Deciding(q) => Deciding(request[r]),
         Deciding(request[r]) => Deciding(q) \/ Stuck(q), Stuck(request[r]) => Stuck(q)
  PROVE  IInv'
<1> USE DEF SameProposals
<1>1. /\ request \in [Request -> RequestType] /\ request' \in [Request -> RequestType]
      /\ request'[r] = q /\ \A s \in Request \ {r} : request'[s] = request[s]
  BY DEF IInv, Typed
<1>2. Typed'
  BY <1>1 DEF IInv, Typed
<1>3. \A s \in Request : /\ Target(s)' = Target(s)
                         /\ Deciding(request'[s]) => Deciding(request[s])
                         /\ Deciding(request[s]) => Deciding(request'[s]) \/ Stuck(request'[s])
                         /\ Stuck(request[s]) => Stuck(request'[s])
  BY <1>1 DEF Target
<1>4. OneEach'
  BY <1>3 DEF IInv, OneEach, Deciding
<1>5. Backed'
  BY <1>3 DEF IInv, Backed, Deciding, Stuck
<1>6. \A s \in Request : Sound(request'[s])
  BY <1>1 DEF IInv
<1> QED BY <1>2, <1>4, <1>5, <1>6 DEF IInv, Sound

\* A request that decides on proposal p, or stops to.
LEMMA DecisionStep ==
  ASSUME IInv, NEW r \in Request, NEW q \in RequestType, request' = [request EXCEPT ![r] = q],
         q.call = request[r].call, Sound(q), node' = node, request[r].at \notin Over,
         NEW p \in Proposal, proposal' \in [Proposal -> ProposalType],
         \A o \in Proposal \ {p} : proposal'[o] = proposal[o],
         stripped' \in SUBSET Proposal, stripped \subseteq stripped',
         p \in stripped' \/ \A s \in Request \ {r} : Target(s) = p => ~Deciding(request[s]),
         Deciding(q) \/ Deciding(request[r]) \/ Stuck(request[r]) => Target(r) = p,
         Deciding(q) => proposal'[p].status = "accepted",
         proposal'[p].status = "accepted" => Target(r) = p /\ (Deciding(q) \/ Stuck(q))
  PROVE  IInv'
<1>1. /\ request \in [Request -> RequestType] /\ request' \in [Request -> RequestType]
      /\ request'[r] = q /\ \A s \in Request \ {r} : request'[s] = request[s]
  BY DEF IInv, Typed
<1>2. Typed'
  BY <1>1 DEF IInv, Typed
<1>3. \A s \in Request : Target(s)' = Target(s) /\ Target(s) \in Proposal
  <2>1. \A s \in Request : request[s].call \in CallType
    BY <1>1, CallAssumption DEF RequestType
  <2> QED BY <1>1, <2>1 DEF Target, CallType
<1>4. ASSUME NEW s \in Request, Deciding(request'[s]), Target(s) \notin stripped'
      PROVE  /\ proposal'[Target(s)].status = "accepted"
             /\ \A t \in Request : Deciding(request'[t]) /\ Target(t) = Target(s) => t = s
  <2>1. CASE s = r
    BY <1>1, <1>4, <2>1
  <2>2. CASE s # r
    <3>1. Deciding(request[s]) /\ Target(s) # p
      BY <1>1, <1>4, <2>2
    <3> QED BY <1>1, <1>3, <1>4, <2>2, <3>1 DEF IInv, OneEach
  <2> QED BY <2>1, <2>2
<1>5. OneEach'
  BY <1>3, <1>4 DEF OneEach, Deciding
<1>6. ASSUME NEW o \in Proposal, proposal'[o].status = "accepted"
      PROVE  \E s \in Request : Target(s) = o /\ (Deciding(request'[s]) \/ Stuck(request'[s]))
  <2>1. CASE o = p
    BY <1>1, <1>6, <2>1
  <2>2. CASE o # p
    <3>1. PICK s \in Request : Target(s) = o /\ (Deciding(request[s]) \/ Stuck(request[s]))
      BY <1>6, <2>2 DEF IInv, Backed
    <3>2. s # r
      BY <2>2, <3>1
    <3> QED BY <1>1, <3>1, <3>2
  <2> QED BY <2>1, <2>2
<1>7. Backed'
  BY <1>3, <1>6 DEF Backed, Deciding, Stuck
<1>8. \A s \in Request : Sound(request'[s])
  BY <1>1 DEF IInv
<1> QED BY <1>2, <1>5, <1>7, <1>8 DEF IInv, Sound

\* A request that makes p pending: by its first call nobody else decided on
\* p, or p is stripped; a repeated call strips p of whoever did.
LEMMA PendingStep ==
  ASSUME IInv, NEW r \in Request, NEW q \in RequestType, request' = [request EXCEPT ![r] = q],
         q.call = request[r].call, Sound(q), node' = node, request[r].at \notin Over,
         NEW p \in Proposal, NEW content \in Content, NEW base \in Doc \cup {Absent},
         MakesPending(r, p, content, base), ~Deciding(q),
         Deciding(request[r]) \/ Stuck(request[r]) => Target(r) = p,
         \/ Repeated(r) \/ p \in stripped
         \/ \A s \in Request \ {r} : Target(s) = p => ~Deciding(request[s])
  PROVE  IInv'
<1>1. /\ proposal' \in [Proposal -> ProposalType] /\ proposal'[p].status = "pending"
      /\ \A o \in Proposal \ {p} : proposal'[o] = proposal[o]
  <2>1. PICK v : v = [status |-> "pending", content |-> content, base |-> base]
    OBVIOUS
  <2>2. v \in ProposalType /\ v.status = "pending"
    BY <2>1 DEF ProposalType
  <2>3. proposal' = [proposal EXCEPT ![p] = v]
    BY <2>1 DEF MakesPending
  <2> QED BY <2>2, <2>3 DEF IInv, Typed
<1>2. /\ stripped' \in SUBSET Proposal /\ stripped \subseteq stripped'
      /\ Repeated(r) /\ proposal[p].status # "pending" => p \in stripped'
  BY DEF MakesPending, IInv, Typed
<1>3. p \in stripped' \/ \A s \in Request \ {r} : Target(s) = p => ~Deciding(request[s])
  <2>1. CASE proposal[p].status = "pending"
    BY <1>2, <2>1 DEF IInv, OneEach
  <2> QED BY <1>2, <2>1
<1> QED BY <1>1, <1>2, <1>3, DecisionStep

\* The same for the fields that a request's storage calls change.
LEMMA MovesStep ==
  ASSUME IInv, NEW r \in Request, NEW to \in Stages, NEW code \in Codes, NEW wrote \in BOOLEAN,
         Moves(r, to, code, wrote), node' \in [Concept -> Doc \cup {Absent}],
         SameProposals, request[r].at \notin Over,
         to \notin {"snapshot", "proposing"}, code = "refused" => ~wrote,
         to \in Early \cup (Holding \ {"releasing"}) => code = None,
         to = "releasing" => IsAccept(r) /\ code \in {"refused", "failed"},
         to \in Early \cup {"checking", "parent", "requiring", "requiringInto"} => ~wrote,
         request[r].at = "claiming" /\ Repeated(r) => to = "misled",
         IsAccept(r) =>
           IF request[r].at \in Holding /\ ~(request[r].at = "releasing" /\ Repeated(r))
           THEN to \in Holding \cup {"lost", "unreleased"} \/ (to = "answered" /\ code = "ok")
           ELSE to \notin Holding /\ (to = "answered" => code # "ok")
  PROVE  IInv'
<1>1. PICK q : q = Moved(r, to, code, wrote)
  OBVIOUS
<1>2. request[r] \in RequestType
  BY DEF IInv, Typed
<1>3. /\ q \in RequestType /\ q.call = request[r].call
      /\ q.at = to /\ q.code = code /\ q.wrote = wrote /\ q.again = None
  BY <1>1, <1>2 DEF Moved, RequestType, Stages, Codes
<1>4. Sound(q)
  BY <1>3 DEF Sound, IsAccept
<1>5. Deciding(q) => Deciding(request[r])
  BY <1>3 DEF Deciding, IsAccept, Repeated
<1>6. Deciding(request[r]) => Deciding(q) \/ Stuck(q)
  BY <1>3 DEF Deciding, Stuck, IsAccept, Over, Repeated
<1>7. Stuck(request[r]) => Stuck(q)
  BY <1>3 DEF Stuck, Over, Repeated
<1> QED BY <1>1, <1>3, <1>4, <1>5, <1>6, <1>7, KeepsStep DEF Moves

LEMMA WantType == ASSUME IInv, NEW r \in Request PROVE Want(r) \in Content
<1>1. request[r] \in RequestType
  BY DEF IInv, Typed
<1>2. /\ request[r].call \in CallType /\ request[r].call.proposal \in Proposal
      /\ request[r].call.content \in Content
  <2>1. request[r].call \in CallType
    BY <1>1, CallAssumption DEF RequestType
  <2> QED BY <2>1 DEF CallType
<1>3. \A p \in Proposal : proposal[p] \in ProposalType
  BY DEF IInv, Typed
<1>4. \A p \in Proposal : proposal[p].content \in Content
  BY <1>3 DEF ProposalType
<1> QED BY <1>2, <1>4 DEF Want, Target

Writing == {"saving", "documenting", "linking", "undoing", "writing", "dropping"}

LEMMA NodeStays ==
  ASSUME IInv, NEW r \in Request, request[r].at \in Writing, Write(r)
  PROVE  node' \in [Concept -> Doc \cup {Absent}]
<1>1. Want(r).docs \in Doc /\ node \in [Concept -> Doc \cup {Absent}]
  BY WantType DEF Content, IInv, Typed
<1>2. \/ \E c : SaveConcept(c, Want(r).docs) \/ SaveDocumentation(c, Want(r).docs) \/ DeleteConcept(c)
      \/ UNCHANGED node
  BY DEF Write, Writing, LinkConceptParent
<1> QED BY <1>1, <1>2 DEF SaveConcept, SaveDocumentation, DeleteConcept

LEMMA ReadsProposalStep ==
  ASSUME IInv, NEW r \in Request, ReadsProposal(r)
  PROVE  IInv'
<1>1. /\ request[r] \in RequestType /\ Sound(request[r]) /\ Want(r) \in Content
      /\ request[r].code \in Codes /\ request[r].wrote \in BOOLEAN
  <2>1. request[r] \in RequestType
    BY DEF IInv, Typed
  <2> QED BY <2>1, WantType DEF IInv, RequestType, Codes
<1> USE DEF Stages, Codes, Holding, Over, Early
<1>2. node' \in [Concept -> Doc \cup {Absent}] /\ SameProposals
  BY DEF IInv, Typed, ReadsProposal, OnlyRequest, SameGraph
<1>3. request[r].at = "start" /\ request[r].code = None /\ ~request[r].wrote
  BY <1>1 DEF ReadsProposal, Sound
<1>4. \/ Moves(r, "answered", "refused", request[r].wrote)
      \/ Moves(r, "claiming", request[r].code, request[r].wrote)
  BY DEF ReadsProposal, Answers, Goes
<1> QED BY <1>1, <1>2, <1>3, <1>4, MovesStep DEF None

LEMMA RecordsStep ==
  ASSUME IInv, NEW r \in Request, Records(r)
  PROVE  IInv'
<1>1. /\ request[r] \in RequestType /\ Sound(request[r]) /\ Want(r) \in Content
      /\ request[r].code \in Codes /\ request[r].wrote \in BOOLEAN
  <2>1. request[r] \in RequestType
    BY DEF IInv, Typed
  <2> QED BY <2>1, WantType DEF IInv, RequestType, Codes
<1> USE DEF Stages, Codes, Holding, Over, Early
<1>2. node' \in [Concept -> Doc \cup {Absent}] /\ SameProposals
  BY DEF IInv, Typed, Records, OnlyRequest, SameGraph
<1>3. request[r].at = "recording" /\ request[r].code = None
  BY <1>1 DEF Records, Sound
<1> QED BY <1>1, <1>2, <1>3, MovesStep DEF Records, Goes, None

LEMMA ReadsAgainStep ==
  ASSUME IInv, NEW r \in Request, ReadsAgain(r)
  PROVE  IInv'
<1>1. /\ request[r] \in RequestType /\ Sound(request[r]) /\ Want(r) \in Content
      /\ request[r].code \in Codes /\ request[r].wrote \in BOOLEAN
  <2>1. request[r] \in RequestType
    BY DEF IInv, Typed
  <2> QED BY <2>1, WantType DEF IInv, RequestType, Codes
<1> USE DEF Stages, Codes, Holding, Over, Early
<1>2. node' \in [Concept -> Doc \cup {Absent}] /\ SameProposals
  BY DEF IInv, Typed, ReadsAgain, OnlyRequest, SameGraph
<1>3. request[r].at = "reading" /\ request[r].code = None
  BY <1>1 DEF ReadsAgain, Sound
<1> QED BY <1>1, <1>2, <1>3, MovesStep DEF ReadsAgain, Answers, None

\* An error while a proposal is applied leads to its release.
LEMMA ThrowsStep ==
  ASSUME IInv, NEW r \in Request, NEW code \in {"refused", "failed"}, NEW wrote \in BOOLEAN,
         Throws(r, code, wrote), node' \in [Concept -> Doc \cup {Absent}],
         SameProposals, request[r].at \in Holding \ {"releasing"}, code = "refused" => ~wrote
  PROVE  IInv'
<1>1. CASE IsAccept(r)
  <2>1. Moves(r, "releasing", code, wrote)
    BY <1>1 DEF Throws
  <2> QED BY <1>1, <2>1, MovesStep DEF Stages, Holding, Over, Codes, Early
<1>2. CASE ~IsAccept(r)
  <2>1. Moves(r, "answered", code, wrote)
    BY <1>2 DEF Throws
  <2> QED BY <1>2, <2>1, MovesStep DEF Stages, Holding, Over, Codes, Early
<1> QED BY <1>1, <1>2

\* The change is complete.
LEMMA AppliedStep ==
  ASSUME IInv, NEW r \in Request, NEW wrote \in BOOLEAN,
         Applied(r, wrote), node' \in [Concept -> Doc \cup {Absent}],
         SameProposals, request[r].at \in Holding \ {"releasing"}
  PROVE  IInv'
<1>1. CASE IsAccept(r)
  <2>1. PICK to \in {"recording", "reading"} : Moves(r, to, None, wrote)
    BY <1>1 DEF Applied
  <2> QED BY <1>1, <2>1, MovesStep DEF Stages, Holding, Over, Codes, Early, None
<1>2. CASE ~IsAccept(r)
  <2>1. Moves(r, "answered", "ok", wrote)
    BY <1>2 DEF Applied
  <2> QED BY <1>2, <2>1, MovesStep DEF Stages, Holding, Over, Codes, Early, None
<1> QED BY <1>1, <1>2

LEMMA ChecksNewStep ==
  ASSUME IInv, NEW r \in Request, ChecksNew(r)
  PROVE  IInv'
<1>1. /\ request[r] \in RequestType /\ Sound(request[r]) /\ Want(r) \in Content
      /\ request[r].code \in Codes /\ request[r].wrote \in BOOLEAN
  <2>1. request[r] \in RequestType
    BY DEF IInv, Typed
  <2> QED BY <2>1, WantType DEF IInv, RequestType, Codes
<1> USE DEF Stages, Codes, Holding, Over, Early
<1>2. node' \in [Concept -> Doc \cup {Absent}] /\ SameProposals
  BY DEF IInv, Typed, ChecksNew, OnlyRequest, SameGraph
<1>3. request[r].at = "checking" /\ request[r].code = None /\ ~request[r].wrote
  BY <1>1 DEF ChecksNew, Sound
<1>4. \/ Throws(r, "refused", request[r].wrote)
      \/ Moves(r, "saving", request[r].code, request[r].wrote)
      \/ Moves(r, "parent", request[r].code, request[r].wrote)
  BY DEF ChecksNew, Refuses, Goes
<1> QED BY <1>1, <1>2, <1>3, <1>4, ThrowsStep, MovesStep DEF None

LEMMA ChecksParentStep ==
  ASSUME IInv, NEW r \in Request, ChecksParent(r)
  PROVE  IInv'
<1>1. /\ request[r] \in RequestType /\ Sound(request[r]) /\ Want(r) \in Content
      /\ request[r].code \in Codes /\ request[r].wrote \in BOOLEAN
  <2>1. request[r] \in RequestType
    BY DEF IInv, Typed
  <2> QED BY <2>1, WantType DEF IInv, RequestType, Codes
<1> USE DEF Stages, Codes, Holding, Over, Early
<1>2. node' \in [Concept -> Doc \cup {Absent}] /\ SameProposals
  BY DEF IInv, Typed, ChecksParent, OnlyRequest, SameGraph
<1>3. request[r].at = "parent" /\ request[r].code = None /\ ~request[r].wrote
  BY <1>1 DEF ChecksParent, Sound
<1>4. \/ Throws(r, "refused", request[r].wrote)
      \/ Moves(r, "saving", request[r].code, request[r].wrote)
  BY DEF ChecksParent, Refuses, Goes
<1> QED BY <1>1, <1>2, <1>3, <1>4, ThrowsStep, MovesStep DEF None

LEMMA RequiresConceptStep ==
  ASSUME IInv, NEW r \in Request, RequiresConcept(r)
  PROVE  IInv'
<1>1. /\ request[r] \in RequestType /\ Sound(request[r]) /\ Want(r) \in Content
      /\ request[r].code \in Codes /\ request[r].wrote \in BOOLEAN
  <2>1. request[r] \in RequestType
    BY DEF IInv, Typed
  <2> QED BY <2>1, WantType DEF IInv, RequestType, Codes
<1> USE DEF Stages, Codes, Holding, Over, Early
<1>2. node' \in [Concept -> Doc \cup {Absent}] /\ SameProposals
  BY DEF IInv, Typed, RequiresConcept, OnlyRequest, SameGraph
<1>3. request[r].at = "requiring" /\ request[r].code = None /\ ~request[r].wrote
  BY <1>1 DEF RequiresConcept, Sound
<1>4. \/ Throws(r, "refused", request[r].wrote)
      \/ Moves(r, "requiringInto", request[r].code, request[r].wrote)
      \/ Moves(r, "writing", request[r].code, request[r].wrote)
  BY DEF RequiresConcept, Refuses, Goes
<1> QED BY <1>1, <1>2, <1>3, <1>4, ThrowsStep, MovesStep DEF None

LEMMA RequiresIntoStep ==
  ASSUME IInv, NEW r \in Request, RequiresInto(r)
  PROVE  IInv'
<1>1. /\ request[r] \in RequestType /\ Sound(request[r]) /\ Want(r) \in Content
      /\ request[r].code \in Codes /\ request[r].wrote \in BOOLEAN
  <2>1. request[r] \in RequestType
    BY DEF IInv, Typed
  <2> QED BY <2>1, WantType DEF IInv, RequestType, Codes
<1> USE DEF Stages, Codes, Holding, Over, Early
<1>2. node' \in [Concept -> Doc \cup {Absent}] /\ SameProposals
  BY DEF IInv, Typed, RequiresInto, OnlyRequest, SameGraph
<1>3. request[r].at = "requiringInto" /\ request[r].code = None /\ ~request[r].wrote
  BY <1>1 DEF RequiresInto, Sound
<1>4. \/ Throws(r, "refused", request[r].wrote)
      \/ Moves(r, "writing", request[r].code, request[r].wrote)
  BY DEF RequiresInto, Refuses, Goes
<1> QED BY <1>1, <1>2, <1>3, <1>4, ThrowsStep, MovesStep DEF None

LEMMA SavesNewStep ==
  ASSUME IInv, NEW r \in Request, SavesNew(r)
  PROVE  IInv'
<1>1. /\ request[r] \in RequestType /\ Sound(request[r]) /\ Want(r) \in Content
      /\ request[r].code \in Codes /\ request[r].wrote \in BOOLEAN
  <2>1. request[r] \in RequestType
    BY DEF IInv, Typed
  <2> QED BY <2>1, WantType DEF IInv, RequestType, Codes
<1> USE DEF Stages, Codes, Holding, Over, Early
<1>3. node' \in [Concept -> Doc \cup {Absent}] /\ SameProposals
  BY NodeStays DEF SavesNew, OnlyGraph, Writing
<1>4. request[r].at = "saving" /\ request[r].code = None
  BY <1>1 DEF SavesNew, Sound
<1>5. PICK wrote \in BOOLEAN : wrote = TRUE
  OBVIOUS
<1>6. Moves(r, "documenting", request[r].code, wrote)
  BY <1>4, <1>5 DEF SavesNew
<1>7. /\ "documenting" \in Stages /\ request[r].at \notin Over /\ None \notin {"refused", "failed", "ok"}
      /\ "documenting" \notin Early \cup {"checking", "parent", "requiring", "requiringInto"}
      /\ "documenting" \notin {"snapshot", "proposing", "releasing", "answered"}
  BY <1>4 DEF None
<1>8. IsAccept(r) =>
        IF request[r].at \in Holding THEN "documenting" \in Holding ELSE "documenting" \notin Holding
  BY <1>1, <1>4 DEF Sound, IsAccept
<1> QED BY <1>1, <1>3, <1>4, <1>5, <1>6, <1>7, <1>8, MovesStep

LEMMA DocumentsNewStep ==
  ASSUME IInv, NEW r \in Request, DocumentsNew(r)
  PROVE  IInv'
<1>1. /\ request[r] \in RequestType /\ Sound(request[r]) /\ Want(r) \in Content
      /\ request[r].code \in Codes /\ request[r].wrote \in BOOLEAN
  <2>1. request[r] \in RequestType
    BY DEF IInv, Typed
  <2> QED BY <2>1, WantType DEF IInv, RequestType, Codes
<1> USE DEF Stages, Codes, Holding, Over, Early
<1>3. node' \in [Concept -> Doc \cup {Absent}] /\ SameProposals
  BY NodeStays DEF DocumentsNew, OnlyGraph, Writing
<1>4. request[r].at = "documenting" /\ request[r].code = None
  BY <1>1 DEF DocumentsNew, Sound
<1>5. CASE Applied(r, TRUE)
  BY <1>1, <1>3, <1>4, <1>5, AppliedStep
<1>6. CASE Moves(r, "linking", request[r].code, request[r].wrote)
  BY <1>1, <1>3, <1>4, <1>6, MovesStep DEF None
<1> QED BY <1>5, <1>6 DEF DocumentsNew, Goes

LEMMA LinksNewStep ==
  ASSUME IInv, NEW r \in Request, LinksNew(r)
  PROVE  IInv'
<1>1. /\ request[r] \in RequestType /\ Sound(request[r]) /\ Want(r) \in Content
      /\ request[r].code \in Codes /\ request[r].wrote \in BOOLEAN
  <2>1. request[r] \in RequestType
    BY DEF IInv, Typed
  <2> QED BY <2>1, WantType DEF IInv, RequestType, Codes
<1> USE DEF Stages, Codes, Holding, Over, Early
<1>3. node' \in [Concept -> Doc \cup {Absent}] /\ SameProposals
  <2>1. SameGraph => node' \in [Concept -> Doc \cup {Absent}]
    BY DEF SameGraph, IInv, Typed
  <2> QED BY <2>1, NodeStays DEF LinksNew, OnlyGraph, Writing
<1>4. request[r].at = "linking" /\ request[r].code = None
  BY <1>1 DEF LinksNew, Sound
<1>5. CASE Applied(r, TRUE)
  BY <1>1, <1>3, <1>4, <1>5, AppliedStep
<1>6. CASE Moves(r, "undoing", request[r].code, request[r].wrote)
  BY <1>1, <1>3, <1>4, <1>6, MovesStep DEF None
<1> QED BY <1>5, <1>6 DEF LinksNew, Goes

LEMMA UndoesNewStep ==
  ASSUME IInv, NEW r \in Request, UndoesNew(r)
  PROVE  IInv'
<1>1. /\ request[r] \in RequestType /\ Sound(request[r]) /\ Want(r) \in Content
      /\ request[r].code \in Codes /\ request[r].wrote \in BOOLEAN
  <2>1. request[r] \in RequestType
    BY DEF IInv, Typed
  <2> QED BY <2>1, WantType DEF IInv, RequestType, Codes
<1> USE DEF Stages, Codes, Holding, Over, Early
<1>3. node' \in [Concept -> Doc \cup {Absent}] /\ SameProposals
  BY NodeStays DEF UndoesNew, OnlyGraph, Writing
<1>4. request[r].at = "undoing" /\ request[r].code = None
  BY <1>1 DEF UndoesNew, Sound
<1> QED BY <1>1, <1>3, <1>4, ThrowsStep DEF UndoesNew

LEMMA WritesUpdateStep ==
  ASSUME IInv, NEW r \in Request, WritesUpdate(r)
  PROVE  IInv'
<1>1. /\ request[r] \in RequestType /\ Sound(request[r]) /\ Want(r) \in Content
      /\ request[r].code \in Codes /\ request[r].wrote \in BOOLEAN
  <2>1. request[r] \in RequestType
    BY DEF IInv, Typed
  <2> QED BY <2>1, WantType DEF IInv, RequestType, Codes
<1> USE DEF Stages, Codes, Holding, Over, Early
<1>3. node' \in [Concept -> Doc \cup {Absent}] /\ SameProposals
  BY NodeStays DEF WritesUpdate, OnlyGraph, Writing
<1>4. request[r].at = "writing" /\ request[r].code = None
  BY <1>1 DEF WritesUpdate, Sound
<1>5. PICK wrote \in BOOLEAN : Applied(r, wrote)
  <2>1. PICK b \in BOOLEAN : b = (request[r].wrote \/ Want(r).whole \/ Exists(Want(r).concept))
    BY <1>1 DEF Exists, Content
  <2> QED BY <2>1 DEF WritesUpdate
<1> QED BY <1>1, <1>3, <1>4, <1>5, AppliedStep

LEMMA WritesDeleteStep ==
  ASSUME IInv, NEW r \in Request, WritesDelete(r)
  PROVE  IInv'
<1>1. /\ request[r] \in RequestType /\ Sound(request[r]) /\ Want(r) \in Content
      /\ request[r].code \in Codes /\ request[r].wrote \in BOOLEAN
  <2>1. request[r] \in RequestType
    BY DEF IInv, Typed
  <2> QED BY <2>1, WantType DEF IInv, RequestType, Codes
<1> USE DEF Stages, Codes, Holding, Over, Early
<1>3. node' \in [Concept -> Doc \cup {Absent}] /\ SameProposals
  BY NodeStays DEF WritesDelete, OnlyGraph, Writing
<1>4. request[r].at = "writing" /\ request[r].code = None
  BY <1>1 DEF WritesDelete, Sound
<1>5. PICK wrote \in BOOLEAN : Applied(r, wrote)
  <2>1. PICK b \in BOOLEAN : b = (request[r].wrote \/ Exists(Want(r).concept))
    BY <1>1 DEF Exists, Content
  <2> QED BY <2>1 DEF WritesDelete
<1> QED BY <1>1, <1>3, <1>4, <1>5, AppliedStep

LEMMA WritesMergeStep ==
  ASSUME IInv, NEW r \in Request, WritesMerge(r)
  PROVE  IInv'
<1>1. /\ request[r] \in RequestType /\ Sound(request[r]) /\ Want(r) \in Content
      /\ request[r].code \in Codes /\ request[r].wrote \in BOOLEAN
  <2>1. request[r] \in RequestType
    BY DEF IInv, Typed
  <2> QED BY <2>1, WantType DEF IInv, RequestType, Codes
<1> USE DEF Stages, Codes, Holding, Over, Early
<1>3. node' \in [Concept -> Doc \cup {Absent}] /\ SameProposals
  BY NodeStays DEF WritesMerge, OnlyGraph, Writing
<1>4. request[r].at = "writing" /\ request[r].code = None
  BY <1>1 DEF WritesMerge, Sound
<1>5. PICK wrote \in BOOLEAN : wrote = TRUE
  OBVIOUS
<1>6. Moves(r, "dropping", request[r].code, wrote)
  BY <1>4, <1>5 DEF WritesMerge
<1>7. /\ "dropping" \in Stages /\ request[r].at \notin Over /\ None \notin {"refused", "failed", "ok"}
      /\ "dropping" \notin Early \cup {"checking", "parent", "requiring", "requiringInto"}
      /\ "dropping" \notin {"snapshot", "proposing", "releasing", "answered"}
  BY <1>4 DEF None
<1>8. IsAccept(r) =>
        IF request[r].at \in Holding THEN "dropping" \in Holding ELSE "dropping" \notin Holding
  BY <1>1, <1>4 DEF Sound, IsAccept
<1> QED BY <1>1, <1>3, <1>4, <1>5, <1>6, <1>7, <1>8, MovesStep

LEMMA DropsAbsorbedStep ==
  ASSUME IInv, NEW r \in Request, DropsAbsorbed(r)
  PROVE  IInv'
<1>1. /\ request[r] \in RequestType /\ Sound(request[r]) /\ Want(r) \in Content
      /\ request[r].code \in Codes /\ request[r].wrote \in BOOLEAN
  <2>1. request[r] \in RequestType
    BY DEF IInv, Typed
  <2> QED BY <2>1, WantType DEF IInv, RequestType, Codes
<1> USE DEF Stages, Codes, Holding, Over, Early
<1>3. node' \in [Concept -> Doc \cup {Absent}] /\ SameProposals
  BY NodeStays DEF DropsAbsorbed, OnlyGraph, Writing
<1>4. request[r].at = "dropping" /\ request[r].code = None
  BY <1>1 DEF DropsAbsorbed, Sound
<1> QED BY <1>1, <1>3, <1>4, AppliedStep DEF DropsAbsorbed

LEMMA CallFailsStep ==
  ASSUME IInv, NEW r \in Request, CallFails(r)
  PROVE  IInv'
<1>1. /\ request[r] \in RequestType /\ Sound(request[r]) /\ Want(r) \in Content
      /\ request[r].code \in Codes /\ request[r].wrote \in BOOLEAN
  <2>1. request[r] \in RequestType
    BY DEF IInv, Typed
  <2> QED BY <2>1, WantType DEF IInv, RequestType, Codes
<1> USE DEF Stages, Codes, Holding, Over, Early
<1>2. node' \in [Concept -> Doc \cup {Absent}] /\ SameProposals
  BY DEF IInv, Typed, CallFails, SameGraph
<1>3. request[r].at \in Stages \ Over
  BY <1>1 DEF CallFails, RequestType
<1>4. CASE request[r].at = "linking"
  <2>1. Moves(r, "undoing", request[r].code, request[r].wrote) /\ request[r].code = None
    BY <1>1, <1>4 DEF CallFails, Goes, Sound
  <2> QED BY <1>1, <1>2, <1>4, <2>1, MovesStep DEF None
<1>5. CASE request[r].at = "releasing"
  <2>1. PICK to \in {"answered", "unreleased"} :
          /\ Moves(r, to, request[r].code, request[r].wrote)
          /\ to = "answered" <=> Repeated(r)
    BY <1>5 DEF CallFails, Goes
  <2>2. /\ request[r].code = "refused" => ~request[r].wrote
        /\ request[r].code # "ok"
    BY <1>1, <1>5 DEF Sound
  <2> QED BY <1>1, <1>2, <1>5, <2>1, <2>2, MovesStep
<1>6. CASE request[r].at \in Holding \ {"linking", "releasing"} /\ IsAccept(r)
  <2>1. Throws(r, "failed", request[r].wrote)
    BY <1>6 DEF CallFails
  <2> QED BY <1>1, <1>2, <1>6, <2>1, ThrowsStep
<1>7. CASE request[r].at = "claiming" /\ Repeated(r)
  <2>1. Moves(r, "misled", "failed", request[r].wrote)
    BY <1>7 DEF CallFails
  <2> QED BY <1>1, <1>2, <1>7, <2>1, MovesStep
<1>8. CASE /\ request[r].at \notin {"linking", "releasing"}
           /\ ~(request[r].at = "claiming" /\ Repeated(r))
           /\ ~(request[r].at \in Holding \ {"linking", "releasing"} /\ IsAccept(r))
  <2>1. Moves(r, "answered", "failed", request[r].wrote)
    BY <1>8 DEF CallFails, Answers
  <2> QED BY <1>1, <1>2, <1>3, <1>8, <2>1, MovesStep
<1> QED BY <1>4, <1>5, <1>6, <1>7, <1>8

\* A proposal is prepared.
LEMMA PreparesStep ==
  ASSUME IInv, NEW r \in Request, NEW to \in {"snapshot", "proposing"}, NEW base \in Doc \cup {Absent},
         request' = [request EXCEPT ![r].at = to, ![r].base = base],
         node' \in [Concept -> Doc \cup {Absent}], SameProposals,
         request[r].at \in {"start", "snapshot"}, ~IsAccept(r)
  PROVE  IInv'
<1>1. request[r] \in RequestType /\ Sound(request[r])
  BY DEF IInv, Typed
<1>2. PICK q : q = [request[r] EXCEPT !.at = to, !.base = base]
  OBVIOUS
<1>3. /\ q \in RequestType /\ q.call = request[r].call
      /\ q.at = to /\ q.code = request[r].code /\ q.wrote = request[r].wrote
  BY <1>1, <1>2 DEF RequestType
<1>4. Sound(q)
  BY <1>1, <1>3 DEF Sound, Early, Holding, None, IsAccept
<1>5. ~Deciding(q) /\ ~Deciding(request[r]) /\ ~Stuck(request[r])
  BY <1>3 DEF Deciding, Stuck, Holding
<1>6. request' = [request EXCEPT ![r] = q] /\ request[r].at \notin Over
  BY <1>2 DEF Over
<1> QED BY <1>3, <1>4, <1>5, <1>6, KeepsStep

LEMMA SnapshotsStep ==
  ASSUME IInv, NEW r \in Request, Snapshots(r)
  PROVE  IInv'
<1>1. /\ request[r] \in RequestType /\ Sound(request[r]) /\ Want(r) \in Content
      /\ request[r].code \in Codes /\ request[r].wrote \in BOOLEAN
  <2>1. request[r] \in RequestType
    BY DEF IInv, Typed
  <2> QED BY <2>1, WantType DEF IInv, RequestType, Codes
<1> USE DEF Stages, Codes, Holding, Over, Early
<1>2. node' \in [Concept -> Doc \cup {Absent}] /\ SameProposals
  BY DEF IInv, Typed, Snapshots, OnlyRequest, SameGraph
<1>3. request[r].at = "start" /\ request[r].code = None /\ ~request[r].wrote /\ ~IsAccept(r)
  BY <1>1 DEF Snapshots, Sound, IsAccept
<1>4. CASE Answers(r, "refused")
  BY <1>1, <1>2, <1>3, <1>4, MovesStep DEF Answers
<1>5. CASE ~Answers(r, "refused")
  <2>1. PICK to \in {"snapshot", "proposing"}, base \in Doc \cup {Absent} :
          request' = [request EXCEPT ![r].at = to, ![r].base = base]
    <3>1. node[Want(r).concept] \in Doc \cup {Absent}
      BY <1>1 DEF IInv, Typed, Content
    <3>2. PICK to \in {"snapshot", "proposing"} :
            request' = [request EXCEPT ![r].at = to, ![r].base = node[Want(r).concept]]
      BY <1>5 DEF Snapshots
    <3> QED BY <3>1, <3>2
  <2> QED BY <1>1, <1>2, <1>3, <2>1, PreparesStep
<1> QED BY <1>4, <1>5

LEMMA SnapshotsSecondStep ==
  ASSUME IInv, NEW r \in Request, SnapshotsSecond(r)
  PROVE  IInv'
<1>1. /\ request[r] \in RequestType /\ Sound(request[r]) /\ Want(r) \in Content
      /\ request[r].code \in Codes /\ request[r].wrote \in BOOLEAN
  <2>1. request[r] \in RequestType
    BY DEF IInv, Typed
  <2> QED BY <2>1, WantType DEF IInv, RequestType, Codes
<1> USE DEF Stages, Codes, Holding, Over, Early
<1>2. node' \in [Concept -> Doc \cup {Absent}] /\ SameProposals
  BY DEF IInv, Typed, SnapshotsSecond, OnlyRequest, SameGraph
<1>3. request[r].at = "snapshot" /\ request[r].code = None /\ ~request[r].wrote /\ ~IsAccept(r)
  BY <1>1 DEF SnapshotsSecond, Sound, IsAccept
<1>4. CASE Answers(r, "refused")
  BY <1>1, <1>2, <1>3, <1>4, MovesStep DEF Answers
<1>5. CASE ~Answers(r, "refused")
  <2>1. PICK base \in Doc \cup {Absent} : request' = [request EXCEPT ![r].at = "proposing", ![r].base = base]
    <3>1. node[Want(r).into] \in Doc \cup {Absent} /\ request[r].base \in Doc \cup {Absent}
      BY <1>1 DEF IInv, Typed, Content, RequestType
    <3>2. \/ request' = [request EXCEPT ![r].at = "proposing", ![r].base = node[Want(r).into]]
          \/ request' = [request EXCEPT ![r].at = "proposing", ![r].base = request[r].base]
      BY <1>5 DEF SnapshotsSecond
    <3> QED BY <3>1, <3>2
  <2> QED BY <1>1, <1>2, <1>3, <2>1, PreparesStep
<1> QED BY <1>4, <1>5

\* A new proposal takes a place that nobody decides on, or keeps its own.
LEMMA ProposesStep ==
  ASSUME IInv, NEW r \in Request, NEW p \in Proposal, Proposes(r, p), SameGraph,
         \/ Answers(r, "ok") \/ request' = [request EXCEPT ![r].again = p]
  PROVE  IInv'
<1>1. /\ request[r] \in RequestType /\ Sound(request[r]) /\ Want(r) \in Content
      /\ request[r].at = "proposing" /\ request[r].code = None /\ ~request[r].wrote
      /\ request[r].base \in Doc \cup {Absent}
  <2>1. request[r] \in RequestType /\ Sound(request[r])
    BY DEF IInv, Typed
  <2> QED BY <2>1, WantType DEF Proposes, Sound, Early, RequestType
<1>2. PICK q : /\ request' = [request EXCEPT ![r] = q]
               /\ q = Moved(r, "answered", "ok", request[r].wrote) \/ q = [request[r] EXCEPT !.again = p]
  BY DEF Answers, Moves
<1>3. /\ q \in RequestType /\ q.call = request[r].call
      /\ q.at = "answered" \/ (q.at = "proposing" /\ q.code = None /\ ~q.wrote)
      /\ q.code # "refused"
  BY <1>1, <1>2 DEF Moved, RequestType, Over, None
<1>4. ~IsAccept(r)
  BY <1>1 DEF Sound, IsAccept
<1>5. Sound(q) /\ ~Deciding(q) /\ ~Deciding(request[r]) /\ ~Stuck(request[r])
  BY <1>3, <1>4 DEF Sound, Deciding, Stuck, Early, Holding, IsAccept
<1>6. \/ Repeated(r) \/ p \in stripped
      \/ \A s \in Request \ {r} : Target(s) = p => ~Deciding(request[s])
  BY DEF Proposes, IInv, OneEach, None
<1>7. node' = node /\ request[r].at \notin Over
  BY <1>1 DEF SameGraph, Over
<1>8. MakesPending(r, p, Want(r), request[r].base)
  BY DEF Proposes
<1> QED BY <1>1, <1>2, <1>3, <1>5, <1>6, <1>7, <1>8, PendingStep

LEMMA TargetType == ASSUME IInv, NEW r \in Request PROVE Target(r) \in Proposal
<1>1. request[r].call \in CallType
  BY CallAssumption DEF IInv, Typed, RequestType
<1> QED BY <1>1 DEF CallType, Target

\* A claim finds the proposal pending, so nobody decides on it; the request
\* goes on to apply it, or has not heard of it yet.
LEMMA ClaimStep ==
  ASSUME IInv, NEW r \in Request, Claim(r), SameGraph,
         \/ Goes(r, IF IsAccept(r) THEN FirstCall(Want(r).action) ELSE "reading")
         \/ request' = [request EXCEPT ![r].again = Target(r)]
  PROVE  IInv'
<1>1. /\ request[r] \in RequestType /\ Sound(request[r]) /\ request[r].at = "claiming"
      /\ request[r].code = None /\ ~request[r].wrote /\ request[r].wrote \in BOOLEAN
  <2>1. request[r] \in RequestType /\ Sound(request[r])
    BY DEF IInv, Typed
  <2> QED BY <2>1 DEF Claim, Sound, Early, RequestType
<1>2. PICK p \in Proposal : p = Target(r)
  BY TargetType
<1>3. PICK status \in {"accepted", "rejected"} :
        /\ proposal' = [proposal EXCEPT ![p].status = status]
        /\ status = IF IsAccept(r) THEN "accepted" ELSE "rejected"
  BY <1>2 DEF Claim
<1>4. /\ proposal' \in [Proposal -> ProposalType] /\ proposal'[p].status = status
      /\ \A o \in Proposal \ {p} : proposal'[o] = proposal[o]
  BY <1>3 DEF IInv, Typed, ProposalType
<1>5. PICK q : /\ request' = [request EXCEPT ![r] = q]
               /\ \/ q = [request[r] EXCEPT !.again = p]
                  \/ \E to \in {"checking", "requiring", "reading"} :
                       /\ q = Moved(r, to, request[r].code, request[r].wrote)
                       /\ ~IsAccept(r) => to = "reading"
  BY <1>2 DEF Goes, Moves, FirstCall
<1>6. /\ q \in RequestType /\ q.call = request[r].call
      /\ q.code = request[r].code /\ q.wrote = request[r].wrote
      /\ \/ q.at = "claiming" /\ q.again = p
         \/ q.at \in {"checking", "requiring", "reading"}
  BY <1>1, <1>5 DEF Moved, RequestType, Holding
<1>7. Sound(q)
  BY <1>1, <1>6 DEF Sound, Early, Holding, None
<1>8. /\ Deciding(q) => IsAccept(r)
      /\ IsAccept(r) => Deciding(q) \/ Stuck(q)
  BY <1>6, CallAssumption DEF Deciding, Stuck, Holding, IsAccept
<1>9. p \in stripped \/ \A s \in Request \ {r} : Target(s) = p => ~Deciding(request[s])
  BY <1>2 DEF Claim, IInv, OneEach
<1>10. /\ node' = node /\ request[r].at \notin Over /\ stripped' = stripped
       /\ stripped \in SUBSET Proposal
  BY <1>1 DEF SameGraph, Over, Claim, IInv, Typed
<1>11. request' = [request EXCEPT ![r] = q]
  BY <1>5
<1>12. /\ Deciding(q) => proposal'[p].status = "accepted"
       /\ proposal'[p].status = "accepted" => Target(r) = p /\ (Deciding(q) \/ Stuck(q))
  BY <1>2, <1>3, <1>4, <1>8
<1> QED BY <1>2, <1>4, <1>6, <1>7, <1>9, <1>10, <1>11, <1>12, DecisionStep

LEMMA ClaimsStep ==
  ASSUME IInv, NEW r \in Request, Claims(r)
  PROVE  IInv'
<1>1. /\ request[r] \in RequestType /\ Sound(request[r])
      /\ request[r].at = "claiming" /\ request[r].code = None /\ ~request[r].wrote
      /\ request[r].wrote \in BOOLEAN
  <2>1. request[r] \in RequestType /\ Sound(request[r])
    BY DEF IInv, Typed
  <2> QED BY <2>1 DEF Claims, Claim, Sound, Early, RequestType
<1>2. SameGraph /\ node' \in [Concept -> Doc \cup {Absent}]
  BY DEF IInv, Typed, Claims, SameGraph
<1>3. CASE Claim(r) /\ Goes(r, IF IsAccept(r) THEN FirstCall(Want(r).action) ELSE "reading")
  BY <1>2, <1>3, ClaimStep
<1>4. ASSUME NEW to \in {"misled", "answered"}, SameProposals,
             Moves(r, to, "refused", request[r].wrote), Repeated(r) => to = "misled"
      PROVE  IInv'
  BY <1>1, <1>2, <1>4, MovesStep DEF Stages, Over, Codes, Holding, Early
<1> QED BY <1>3, <1>4 DEF Claims

\* A release leaves nobody: there was one decider, and it answers an error.
LEMMA ReleaseStep ==
  ASSUME IInv, NEW r \in Request, Release(r), SameGraph,
         \/ Goes(r, "answered") \/ request' = [request EXCEPT ![r].again = Target(r)]
  PROVE  IInv'
<1>1. /\ request[r] \in RequestType /\ Sound(request[r]) /\ request[r].at = "releasing"
      /\ IsAccept(r) /\ request[r].code \in {"refused", "failed"}
      /\ request[r].code = "refused" => ~request[r].wrote
      /\ request[r].wrote \in BOOLEAN
  <2>1. request[r] \in RequestType /\ Sound(request[r])
    BY DEF IInv, Typed
  <2> QED BY <2>1 DEF Release, Sound, RequestType, IsAccept
<1>2. PICK p \in Proposal : p = Target(r)
  BY TargetType
<1>3. PICK q : /\ request' = [request EXCEPT ![r] = q]
               /\ \/ q = Moved(r, "answered", request[r].code, request[r].wrote)
                  \/ q = [request[r] EXCEPT !.again = p]
  BY <1>2 DEF Goes, Moves
<1>4. /\ q \in RequestType /\ q.call = request[r].call
      /\ q.code = request[r].code /\ q.wrote = request[r].wrote
      /\ q.at = "answered" \/ (q.at = "releasing" /\ q.again = p)
  BY <1>1, <1>3 DEF Moved, RequestType, Over
<1>5. Sound(q) /\ ~Deciding(q) /\ ~Stuck(request[r])
  BY <1>1, <1>4, CallAssumption DEF Sound, Early, Holding, Deciding, Stuck, IsAccept
<1>6. \/ Repeated(r) \/ p \in stripped
      \/ \A s \in Request \ {r} : Target(s) = p => ~Deciding(request[s])
  <2>1. ~Repeated(r) => Deciding(request[r])
    BY <1>1 DEF Repeated, Deciding, Holding, IsAccept
  <2> QED BY <1>2, <2>1 DEF IInv, OneEach
<1>7. proposal[p] \in ProposalType
  BY DEF IInv, Typed
<1>8. /\ proposal[p].content \in Content /\ proposal[p].base \in Doc \cup {Absent}
      /\ MakesPending(r, p, proposal[p].content, proposal[p].base)
  BY <1>2, <1>7 DEF ProposalType, Release
<1>9. node' = node /\ request[r].at \notin Over
  BY <1>1 DEF SameGraph, Over
<1> QED BY <1>2, <1>3, <1>4, <1>5, <1>6, <1>8, <1>9, PendingStep

\* A call that took effect unheard: the claim or release of a proposal, the
\* saving of one, or a write of a concept.
LEMMA AnswerLostStep ==
  ASSUME IInv, NEW r \in Request, AnswerLost(r)
  PROVE  IInv'
<1>1. CASE /\ request[r].at \in Writing /\ Write(r) /\ SameProposals
           /\ request' = [request EXCEPT ![r].wrote = TRUE]
  <2>1. /\ request[r] \in RequestType /\ Sound(request[r])
    BY DEF IInv, Typed
  <2>2. node' \in [Concept -> Doc \cup {Absent}]
    BY <1>1, NodeStays
  <2>3. PICK q : q = [request[r] EXCEPT !.wrote = TRUE] /\ request' = [request EXCEPT ![r] = q]
    BY <1>1
  <2>4. /\ q \in RequestType /\ q.call = request[r].call /\ q.at = request[r].at
        /\ q.code = request[r].code /\ q.again = request[r].again
    BY <2>1, <2>3 DEF RequestType
  <2>5. Sound(q) /\ request[r].at \notin Over
    BY <1>1, <2>1, <2>4 DEF Sound, Writing, Early, Holding, Over, None
  <2>6. (Deciding(q) <=> Deciding(request[r])) /\ (Stuck(q) <=> Stuck(request[r]))
    BY <2>4 DEF Deciding, Stuck
  <2> QED BY <1>1, <2>2, <2>3, <2>4, <2>5, <2>6, KeepsStep
<1> QED BY <1>1, ClaimStep, ReleaseStep, ProposesStep DEF AnswerLost, Writing

\* The process ends: who decided is stuck, or has answered.
LEMMA CrashStep == IInv /\ Crash => IInv'
<1> SUFFICES ASSUME IInv, Crash PROVE IInv'
  OBVIOUS
<1>1. request \in [Request -> RequestType] /\ UNCHANGED <<node, proposal, stripped>>
  BY DEF IInv, Typed, Crash, SameGraph, SameProposals
<1>2. ASSUME NEW s \in Request
      PROVE  /\ request'[s] \in RequestType /\ request'[s].call = request[s].call
             /\ Sound(request'[s])
             /\ Deciding(request'[s]) => Deciding(request[s])
             /\ Deciding(request[s]) => Deciding(request'[s]) \/ Stuck(request'[s])
             /\ Stuck(request[s]) => Stuck(request'[s])
  <2>1. request[s] \in RequestType /\ Sound(request[s])
    BY <1>1 DEF IInv
  <2>2. CASE request'[s] = request[s]
    BY <2>1, <2>2
  <2>3. ASSUME NEW to \in {"lost", "dropped"}, request'[s] = [request[s] EXCEPT !.at = to],
               request[s].at \notin Over,
               to = "dropped" => request[s].at \notin Holding /\ ~Repeated(s)
        PROVE  /\ request'[s] \in RequestType /\ request'[s].call = request[s].call
               /\ Sound(request'[s])
               /\ Deciding(request'[s]) => Deciding(request[s])
               /\ Deciding(request[s]) => Deciding(request'[s]) \/ Stuck(request'[s])
               /\ Stuck(request[s]) => Stuck(request'[s])
    <3>1. /\ request'[s] \in RequestType /\ request'[s].call = request[s].call
          /\ request'[s].at = to /\ request'[s].code = request[s].code
          /\ request'[s].wrote = request[s].wrote
      BY <2>1, <2>3 DEF RequestType, Over
    <3>2. Sound(request'[s])
      BY <2>1, <2>3, <3>1 DEF Sound, Early, Holding
    <3> QED BY <2>3, <3>1, <3>2 DEF Deciding, Stuck, Over, Holding, Repeated
  <2>4. \/ request'[s] = request[s]
        \/ /\ request[s].at \notin Over
           /\ \/ request'[s] = [request[s] EXCEPT !.at = "lost"]
              \/ /\ request[s].at \notin Holding /\ ~Repeated(s)
                 /\ request'[s] = [request[s] EXCEPT !.at = "dropped"]
    BY DEF Crash
  <2> QED BY <2>2, <2>3, <2>4
<1>3. Typed'
  <2>1. request' = [s \in Request |-> request'[s]]
    BY DEF Crash
  <2> QED BY <1>1, <1>2, <2>1 DEF IInv, Typed
<1>4. \A s \in Request : Target(s)' = Target(s)
  BY <1>2 DEF Target
<1>5. OneEach'
  BY <1>1, <1>2, <1>4 DEF IInv, OneEach, Deciding
<1>6. Backed'
  BY <1>1, <1>2, <1>4 DEF IInv, Backed, Deciding, Stuck
<1> QED BY <1>2, <1>3, <1>5, <1>6 DEF IInv, Sound

LEMMA ProposalsInit == Init => IInv
<1> SUFFICES ASSUME Init PROVE IInv
  OBVIOUS
<1>1. NoProposal \in ProposalType /\ NoProposal.status = None
  <2>1. PICK k \in Call : k \in CallType
    BY CallAssumption
  <2>2. k.content \in Content
    BY <2>1 DEF CallType
  <2>3. PICK q : q = [status |-> None, content |-> k.content, base |-> Absent]
    OBVIOUS
  <2>4. q \in ProposalType /\ q.status = None
    BY <2>2, <2>3 DEF ProposalType
  <2> QED BY <2>4 DEF NoProposal
<1>2. proposal \in [Proposal -> ProposalType] /\ \A p \in Proposal : proposal[p].status # "accepted"
  BY <1>1 DEF Init, None
<1>3. ASSUME NEW r \in Request
      PROVE  /\ request[r] \in RequestType /\ Sound(request[r]) /\ ~Deciding(request[r])
  <2>1. PICK k \in Call :
          request[r] = [call |-> k, code |-> None, wrote |-> FALSE, base |-> Absent, again |-> None,
                        at |-> IF k.op = "direct" THEN FirstCall(k.content.action) ELSE "start"]
    BY DEF Init
  <2>2. PICK at \in {"start", "checking", "requiring"} :
          /\ at = IF k.op = "direct" THEN FirstCall(k.content.action) ELSE "start"
          /\ at # "start" => k.op = "direct"
    BY DEF FirstCall
  <2>3. k \in CallType
    BY CallAssumption
  <2>4. request[r] = [call |-> k, code |-> None, wrote |-> FALSE, base |-> Absent,
                        again |-> None, at |-> at]
    BY <2>1, <2>2
  <2>5. request[r] \in RequestType
    BY <2>3, <2>4 DEF RequestType, Holding
  <2> QED BY <2>2, <2>4, <2>5 DEF Sound, Deciding, Early, Holding, None
<1>4. request \in [Request -> RequestType]
  <2>1. request = [r \in Request |-> request[r]]
    BY DEF Init
  <2> QED BY <1>3, <2>1
<1>5. node \in [Concept -> Doc \cup {Absent}] /\ stripped = {}
  BY CallAssumption DEF Init
<1> QED BY <1>2, <1>3, <1>4, <1>5 DEF IInv, Typed, OneEach, Backed

LEMMA ProposalsNext == IInv /\ [Next]_vars => IInv'
<1> SUFFICES ASSUME IInv, [Next]_vars PROVE IInv'
  OBVIOUS
<1>1. ASSUME NEW r \in Request,
             \/ Snapshots(r) \/ SnapshotsSecond(r) \/ SavesProposal(r)
             \/ ReadsProposal(r) \/ Claims(r) \/ Releases(r) \/ Records(r) \/ ReadsAgain(r)
      PROVE  IInv'
  BY <1>1, SnapshotsStep, SnapshotsSecondStep, ProposesStep, ReadsProposalStep, ClaimsStep,
     ReleaseStep, RecordsStep, ReadsAgainStep DEF SavesProposal, Releases
<1>2. ASSUME NEW r \in Request,
             \/ ChecksNew(r) \/ ChecksParent(r) \/ SavesNew(r) \/ DocumentsNew(r)
             \/ LinksNew(r) \/ UndoesNew(r)
      PROVE  IInv'
  BY <1>2, ChecksNewStep, ChecksParentStep, SavesNewStep, DocumentsNewStep, LinksNewStep, UndoesNewStep
<1>3. ASSUME NEW r \in Request,
             \/ RequiresConcept(r) \/ RequiresInto(r)
             \/ WritesUpdate(r) \/ WritesDelete(r) \/ WritesMerge(r) \/ DropsAbsorbed(r)
             \/ CallFails(r) \/ AnswerLost(r)
      PROVE  IInv'
  BY <1>3, RequiresConceptStep, RequiresIntoStep, WritesUpdateStep, WritesDeleteStep, WritesMergeStep,
     DropsAbsorbedStep, CallFailsStep, AnswerLostStep
<1>4. CASE UNCHANGED vars
  BY <1>4 DEF vars, IInv, Typed, OneEach, Backed, Deciding, Stuck, Target, Sound
<1> QED BY <1>1, <1>2, <1>3, <1>4, CrashStep DEF Next

THEOREM ProposalsInvariant == Spec => []IInv
BY ProposalsInit, ProposalsNext, PTL DEF Spec

\* For any requests and faults: unless a repeated call stripped it of its
\* decision, a proposal is never applied twice, and reads accepted while one
\* request applies it and once that was told so.
THEOREM OneDeciderTheorem == Spec => []OneDecider
<1>1. IInv => OneDecider
  BY DEF IInv, OneEach, Deciding, OneDecider, Decides, IsAccept, Repeated
<1> QED BY <1>1, ProposalsInvariant, PTL

\* For any requests and faults: a refusal has changed no concept.
THEOREM RefusalsWriteNothingTheorem == Spec => []RefusalsWriteNothing
<1>1. IInv => RefusalsWriteNothing
  BY DEF IInv, Sound, RefusalsWriteNothing
<1> QED BY <1>1, ProposalsInvariant, PTL

\* For any requests: only a crash, a failed release or a claim whose answer
\* was lost leaves a proposal accepted that nobody applies.
THEOREM AcceptedBackedTheorem == Spec => []AcceptedBacked
<1>1. IInv => AcceptedBacked
  BY DEF IInv, Backed, Deciding, Stuck, AcceptedBacked, Decides, Abandons, IsAccept, Repeated
<1> QED BY <1>1, ProposalsInvariant, PTL

=============================================================================
