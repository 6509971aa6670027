--------------------------- MODULE VeinChatProofs --------------------------
(***************************************************************************)
(* Theorems about VeinChat, for any finite number of messages, any clients *)
(* and any number of failures and crashes.                                 *)
(*                                                                         *)
(* Types hold whoever sends and whenever; the rest holds for a user who    *)
(* sends when the turn before is over (Waits).  Then at most one request   *)
(* is at work, and what it has read is still so when it acts on it.  Does  *)
(* sums up a step of that request; what the invariant says of the others   *)
(* follows from it.                                                        *)
(***************************************************************************)
EXTENDS MCVeinChat, FiniteSetTheorems, SequenceTheorems, TLAPS

-----------------------------------------------------------------------------
(* What holds of a chat.                                                   *)

\* Turn numbers are bounded by the messages that were sent.
Sent == {r \in Request : pc[r] # "idle"}
Counted ==
  /\ \A r \in Request : turn[r] < Cardinality(Sent) /\ held[r].turn < Cardinality(Sent)
  /\ meta.turn < Cardinality(Sent)

\* A tail that ended stands at the terminal event of its turn.
Tails ==
  \A c \in Client :
    /\ client[c].pos <= Len(events)
    /\ client[c].at = "idle" => client[c].pos = 0
    /\ client[c].at \in {"reading", "answered"} /\ client[c].pos > 0 =>
         /\ events[client[c].pos].turn = client[c].turn
         /\ IsTerminal(events[client[c].pos])

\* The server dies, of a crash or of a throw that nobody catches.
Dies == Crash \/ \E r \in Request : CatchFails(r)

\* The user waits: no two requests are at work.
Active(r) == pc[r] \notin {"idle", "finished", "refused", "dead"}
Alone == \A r, q \in Request : Active(r) /\ Active(q) => r = q

\* What a request read is the transcript that it appends to, or nothing and the
\* file is spoilt or was not read.
Unsaid(r) == pc[r] \in {"idle", "creating", "loading", "saying"}
Transcript ==
  /\ torn <= Len(messages)
  /\ \A r \in Request : pc[r] = "saying" =>
       prior[r] = IF r \in misread \/ torn # Whole THEN <<>> ELSE messages
  /\ \A r \in misread : pc[r] \notin {"idle", "creating", "loading"}
  /\ \A r \in Request : Unsaid(r) =>
       \A i \in DOMAIN messages : messages[i] # [by |-> r, role |-> "user"]
  /\ ContextIsTranscript

\* What meta.json holds while r, alone, is at work.
Setting(r) == pc[r] \in {"reading", "opening", "writing"}
Before(r) == Unsaid(r) \/ (Setting(r) /\ patch[r] = "live")
Live(r) == meta = [status |-> "live", turn |-> turn[r]]
Course(r) ==
  /\ pc[r] \in {"idle", "creating"} => turn[r] = -1
  /\ pc[r] = "creating" => meta = Empty
  /\ pc[r] \in {"idle", "creating", "loading", "saying"} => patch[r] = "live"
  /\ Before(r) /\ pc[r] \notin {"idle", "creating", "writing"} =>
       meta \in Meta /\ meta.turn + 1 = turn[r]
  /\ pc[r] = "writing" => meta = Empty
  /\ pc[r] \in {"streaming", "replying", "ending"} => Live(r)
  /\ pc[r] \in {"reading", "opening"} /\ patch[r] = "done" => Live(r)
  /\ pc[r] = "opening" /\ patch[r] = "error" => Live(r)
  /\ pc[r] = "erroring" \/ (pc[r] = "reading" /\ patch[r] = "error") =>
       Live(r) \/ (meta = Empty /\ failures > 0)
  /\ pc[r] \in {"opening", "writing"} => held[r] = [status |-> patch[r], turn |-> turn[r]]

\* Whoever was launched has a number of its own, and later ones a greater one.
Spoke(r) == pc[r] = "finished" \/ \E i \in DOMAIN events : events[i].by = r
Numbered ==
  /\ \A i \in DOMAIN events : events[i].turn = turn[events[i].by]
  /\ \A r \in Request : Before(r) => ~Spoke(r)
  /\ \A r \in Request : Active(r) =>
       \A q \in Request \ {r} : Spoke(q) => turn[q] < turn[r]
  /\ Readable => \A q \in Request : Spoke(q) => turn[q] <= meta.turn
  /\ meta = NoMeta => \A q \in Request : pc[q] = "idle" /\ ~Spoke(q)
  /\ TurnsDistinct

Told ==
  Quiet /\ failures = 0 => \A r \in Request :
    pc[r] = "finished" /\ (\A q \in Request : pc[q] = "finished" => turn[q] <= turn[r]) =>
      meta = [status |-> patch[r], turn |-> turn[r]]

Courses == \A r \in Request : Course(r)

-----------------------------------------------------------------------------

LEMMA SentCounts ==
  ASSUME IsFiniteSet(Request)
  PROVE  /\ Cardinality(Sent) \in Nat /\ Cardinality(Request) \in Nat
         /\ Cardinality(Sent) <= Cardinality(Request)
         /\ \A r \in Request : pc[r] # "idle" => Cardinality(Sent) > 0
<1>1. Sent \subseteq Request /\ IsFiniteSet(Sent)
  BY FS_Subset DEF Sent
<1>2. Cardinality(Sent) \in Nat /\ Cardinality(Request) \in Nat
      /\ Cardinality(Sent) <= Cardinality(Request)
  BY <1>1, FS_Subset, FS_CardinalityType
<1>3. ASSUME NEW r \in Request, pc[r] # "idle" PROVE Cardinality(Sent) > 0
  <2>1. Sent # {}
    BY <1>3 DEF Sent
  <2> QED BY <1>1, <1>2, <2>1, FS_EmptySet
<1> QED BY <1>2, <1>3

\* A step of a request or of its turn.
Works(r) == TurnStep(r) \/ LoadNothing(r) \/ Throw(r) \/ WriteFails(r)

\* A step of a request that was sent moves it to another stage.
Moves(r) ==
  /\ pc[r] # "idle"
  /\ \E to \in Pc \ {"idle"} : pc' = [pc EXCEPT ![r] = to]

LEMMA SentStays ==
  ASSUME TypeOK, NEW r \in Request, Moves(r)
  PROVE  pc' \in [Request -> Pc] /\ Sent' = Sent
BY DEF TypeOK, Moves, Sent

LEMMA SentGrows ==
  ASSUME IsFiniteSet(Request), TypeOK, NEW r \in Request, NEW to \in Pc \ {"idle"},
         Goto(r, "idle", to)
  PROVE  /\ pc' \in [Request -> Pc]
         /\ Cardinality(Sent)' = Cardinality(Sent) + 1
<1>1. pc' \in [Request -> Pc] /\ Sent' = Sent \cup {r} /\ r \notin Sent
  BY DEF TypeOK, Goto, Sent
<1>2. IsFiniteSet(Sent)
  BY FS_Subset DEF Sent
<1> QED BY <1>1, <1>2, FS_AddElement

LEMMA StepMoves ==
  ASSUME TypeOK, NEW r \in Request, Works(r)
  PROVE  Moves(r)
<1>1. CASE WriteNewMeta(r) \/ LoadMessages(r) \/ LoadNothing(r) \/ AppendMessage(r)
  BY <1>1 DEF WriteNewMeta, LoadMessages, LoadNothing, AppendMessage, Goto, Moves, Pc
<1>2. CASE ReadMeta(r) \/ OpenMeta(r) \/ WriteMeta(r)
  BY <1>2 DEF ReadMeta, OpenMeta, WriteMeta, Goto, Moves, Pc, AfterSetMeta
<1>3. CASE EmitPart(r)
  <2>1. pc' = [pc EXCEPT ![r] = "streaming"]
    BY <1>3 DEF EmitPart, requestVars, TypeOK
  <2> QED BY <1>3, <2>1 DEF EmitPart, Moves, Pc
<1>4. CASE FinishStream(r) \/ AppendReply(r) \/ EmitEnd(r) \/ EmitError(r)
  BY <1>4 DEF FinishStream, AppendReply, EmitEnd, EmitError, Goto, Moves, Pc
<1>5. CASE Throw(r) \/ WriteFails(r)
  BY <1>5 DEF Throw, WriteFails, Goto, Moves, Pc
<1> QED BY <1>1, <1>2, <1>3, <1>4, <1>5 DEF Works, TurnStep

LEMMA TypeStarts ==
  ASSUME IsFiniteSet(Request), TypeOK, Counted, NEW r \in Request,
         CreateChat(r) \/ PostMessage(r)
  PROVE  TypeOK' /\ Counted'
<1>1. /\ Cardinality(Sent) \in Nat /\ Cardinality(Request) \in Nat
      /\ Cardinality(Sent) <= Cardinality(Request)
  BY SentCounts
<1>2. pc' \in [Request -> Pc] /\ Cardinality(Sent)' = Cardinality(Sent) + 1
  BY SentGrows DEF CreateChat, PostMessage, Pc
<1>3. meta' \in Meta \cup {NoMeta, Empty, Garbled} /\ meta'.turn <= meta.turn
  BY DEF CreateChat, PostMessage, fileVars, TypeOK, Counted, Empty, NoMeta, Garbled, Meta, Turn
<1>4. /\ turn' \in [Request -> Turn]
      /\ \A q \in Request : turn'[q] <= turn[q] \/ turn'[q] <= Cardinality(Sent)
  <2>1. Readable => meta.turn + 1 \in Turn /\ meta.turn + 1 <= Cardinality(Sent)
    BY <1>1 DEF Readable, Meta, Turn, Counted
  <2>0. turn \in [Request -> Turn] /\ \A q \in Request : turn[q] \in Int
    BY <1>1 DEF TypeOK, Turn
  <2>2. CASE CreateChat(r)
    <3>1. turn' = turn
      BY <2>2 DEF CreateChat
    <3> QED BY <2>0, <3>1
  <2>3. CASE PostMessage(r)
    <3>1. turn' = [turn EXCEPT ![r] = IF Readable THEN meta.turn + 1 ELSE turn[r]]
      BY <2>3 DEF PostMessage
    <3> QED BY <1>1, <2>0, <2>1, <3>1
  <2> QED BY <2>2, <2>3
<1>5. UNCHANGED <<prior, misread, patch, held, messages, torn, open, events, client, failures, crashes>>
  BY DEF CreateChat, PostMessage, fileVars, given, transcript
<1>6. TypeOK'
  BY <1>2, <1>3, <1>4, <1>5 DEF TypeOK
<1>7. /\ meta'.turn \in Int /\ meta.turn \in Int
      /\ \A q \in Request : turn'[q] \in Int /\ turn[q] \in Int /\ held[q].turn \in Int
  BY <1>1, <1>3, <1>4 DEF TypeOK, Meta, NoMeta, Empty, Garbled, Turn
<1>8. Counted'
  BY <1>1, <1>2, <1>3, <1>4, <1>5, <1>7 DEF Counted
<1> QED BY <1>6, <1>8

LEMMA StoreTyped ==
  ASSUME TypeOK, NEW r \in Request, Store(r) \/ Cut(r) \/ UNCHANGED transcript
  PROVE  messages' \in Seq(Message) /\ torn' \in Nat \cup {Whole} /\ open' \in BOOLEAN
<1>1. messages \in Seq(Message) /\ Line(r) \in Message /\ Len(messages) \in Nat
      /\ torn \in Nat \cup {Whole} /\ open \in BOOLEAN
  BY DEF TypeOK, Line, Message
<1>2. Append(messages, Line(r)) \in Seq(Message)
  BY <1>1
<1>3. /\ torn' \in {torn, Len(messages), Len(messages) + 1}
      /\ messages' \in {messages, Append(messages, Line(r))}
  BY DEF Store, Cut, transcript
<1>4. messages' \in Seq(Message) /\ torn' \in Nat \cup {Whole}
  BY <1>1, <1>2, <1>3
<1>5. open' \in BOOLEAN
  <2>1. open' = open \/ open' = TRUE \/ open' = FALSE
    BY Zenon DEF Store, Cut, transcript
  <2> QED BY <1>1, <2>1, Zenon
<1> QED BY <1>4, <1>5, Zenon

LEMMA TypeSteps ==
  ASSUME IsFiniteSet(Request), TypeOK, Counted, NEW r \in Request,
         Works(r)
  PROVE  TypeOK' /\ Counted'
<1>1. /\ Cardinality(Sent) \in Nat /\ Cardinality(Request) \in Nat
      /\ Cardinality(Sent) <= Cardinality(Request)
  BY SentCounts
<1>2. /\ pc[r] # "idle" /\ pc' \in [Request -> Pc]
      /\ Cardinality(Sent)' = Cardinality(Sent) /\ Cardinality(Sent) > 0
  BY StepMoves, SentStays, SentCounts DEF Moves
<1>3. /\ turn[r] \in Turn /\ patch[r] \in Status
      /\ meta.turn \in Turn /\ 0 \in Turn
  BY <1>1, <1>2 DEF TypeOK, Meta, NoMeta, Empty, Garbled, Turn
<1>4. CASE WriteNewMeta(r)
  BY <1>1, <1>2, <1>3, <1>4
    DEF WriteNewMeta, TypeOK, Counted, Meta, Status, Turn, given, transcript
<1>5. CASE LoadMessages(r) \/ LoadNothing(r)
  <2>1. Parsed \in Seq(Message) /\ <<>> \in Seq(Message)
    BY DEF Parsed, TypeOK
  <2>2. failures' \in 0 .. MaxFailures
    BY <1>5, BoundAssumption DEF LoadMessages, LoadNothing, TypeOK
  <2> QED BY <1>2, <1>5, <2>1, <2>2
      DEF LoadMessages, LoadNothing, fileVars, transcript, TypeOK, Counted
<1>6. CASE AppendMessage(r)
  BY <1>2, <1>6, StoreTyped DEF AppendMessage, TypeOK, Counted, given, Status
<1>7. CASE ReadMeta(r)
  <2>1. Readable => Patched(r) \in Meta /\ Patched(r).turn \in {turn[r], meta.turn}
    BY <1>3 DEF Readable, Patched, Meta, Status
  <2> QED BY <1>2, <1>7, <2>1 DEF ReadMeta, fileVars, TypeOK, Counted, given, transcript
<1>8. CASE OpenMeta(r)
  BY <1>1, <1>2, <1>8 DEF OpenMeta, TypeOK, Counted, Empty, given, transcript
<1>9. CASE WriteMeta(r)
  BY <1>1, <1>2, <1>9 DEF WriteMeta, TypeOK, Counted, Garbled, NoMeta, given,
                                  transcript
<1>10. CASE EmitPart(r) \/ EmitEnd(r) \/ EmitError(r)
  <2>1. events' \in Seq(Event)
    <3>1. PICK type \in {"part", "chat.end", "chat.error"} : Emit(r, type)
      BY <1>10 DEF EmitPart, EmitEnd, EmitError
    <3>2. [by |-> r, turn |-> turn[r], type |-> type] \in Event
      BY <1>3 DEF Event
    <3> QED BY <3>1, <3>2 DEF Emit, TypeOK
  <2>2. patch' \in [Request -> Status]
    BY <1>10 DEF EmitPart, EmitEnd, EmitError, TypeOK, Status, requestVars
  <2> QED BY <1>2, <1>10, <2>1, <2>2
      DEF EmitPart, EmitEnd, EmitError, requestVars, given, transcript, TypeOK, Counted
<1>11. CASE FinishStream(r) \/ AppendReply(r)
  <2>1. Store(r) \/ UNCHANGED transcript
    BY <1>11 DEF FinishStream, AppendReply, fileVars
  <2> QED BY <1>2, <1>11, <2>1, StoreTyped
      DEF FinishStream, AppendReply, fileVars, given, TypeOK, Counted
<1>12. CASE Throw(r) \/ WriteFails(r)
  <2>1. failures' \in 0 .. MaxFailures
    BY <1>12, BoundAssumption DEF Throw, WriteFails, TypeOK
  <2>2. Cut(r) \/ UNCHANGED transcript
    BY <1>12 DEF Throw, WriteFails, fileVars
  <2> QED BY <1>2, <1>12, <2>1, <2>2, StoreTyped
      DEF Throw, WriteFails, fileVars, given, TypeOK, Counted
<1> QED BY <1>4, <1>5, <1>6, <1>7, <1>8, <1>9, <1>10, <1>11, <1>12 DEF Works, TurnStep

LEMMA TypeClients ==
  ASSUME TypeOK, Counted,
         NEW c \in Client, ClientStep(c) \/ \E t \in Turn : OpenStream(c, t)
  PROVE  TypeOK' /\ Counted'
<1>1. client[c] \in ClientState
  BY DEF TypeOK
<1>2. PICK state \in ClientState : Become(c, state)
  <2>1. CASE TailEvent(c)
    <3>1. PICK to \in {"reading", "tailing"} :
            Become(c, [client[c] EXCEPT !.pos = client[c].pos + 1, !.at = to])
      BY <2>1 DEF TailEvent
    <3>2. client[c].pos + 1 \in Nat
      BY <1>1 DEF ClientState
    <3>3. [client[c] EXCEPT !.pos = client[c].pos + 1, !.at = to] \in ClientState
      BY <1>1, <3>2 DEF ClientState
    <3> QED BY <3>1, <3>3
  <2>2. CASE AnswerClient(c)
    <3>1. (IF Readable THEN meta.status ELSE "done") \in Status
      BY DEF Readable, Meta, Status
    <3>2. PICK a \in Status : Become(c, [client[c] EXCEPT !.at = "answered", !.answer = a])
      BY <2>2, <3>1 DEF AnswerClient
    <3>3. [client[c] EXCEPT !.at = "answered", !.answer = a] \in ClientState
      BY <1>1 DEF ClientState
    <3> QED BY <3>2, <3>3
  <2>3. ASSUME NEW t \in Turn, OpenStream(c, t) PROVE \E state \in ClientState : Become(c, state)
    <3>1. meta.status \in Status
      BY <2>3 DEF OpenStream, Readable, Meta
    <3>2. /\ [client[c] EXCEPT !.at = "tailing", !.turn = t] \in ClientState
          /\ [client[c] EXCEPT !.at = "answered", !.turn = t,
               !.answer = meta.status] \in ClientState
      BY <1>1, <3>1 DEF ClientState
    <3> QED BY <2>3, <3>2 DEF OpenStream
  <2> QED BY <2>1, <2>2, <2>3 DEF ClientStep
<1>3. /\ client' \in [Client -> ClientState]
      /\ UNCHANGED <<pc, turn, prior, misread, patch, held, meta, messages, torn, open, events,
                     failures, crashes>>
  BY <1>2 DEF Become, TypeOK, requestVars, given, fileVars, transcript
<1> QED BY <1>3 DEF TypeOK, Counted, Sent

LEMMA TypeDies ==
  ASSUME TypeOK, Counted, Dies
  PROVE  TypeOK' /\ Counted'
<1>1. Die /\ UNCHANGED <<turn, prior, misread, patch, held, meta, events>>
  BY DEF Dies, Crash, CatchFails, Die, given
<1>2. crashes' \in 0 .. MaxCrashes /\ failures' \in 0 .. MaxFailures
  <2>1. crashes \in 0 .. MaxCrashes /\ failures \in 0 .. MaxFailures
        /\ MaxCrashes \in Nat /\ MaxFailures \in Nat
    BY BoundAssumption DEF TypeOK
  <2>2. \/ crashes < MaxCrashes /\ crashes' = crashes + 1 /\ failures' = failures
        \/ failures < MaxFailures /\ failures' = failures + 1 /\ crashes' = crashes
    BY DEF Dies, Crash, CatchFails
  <2> QED BY <2>1, <2>2
<1>3. pc' \in [Request -> Pc] /\ Sent' = Sent
  BY <1>1 DEF Die, TypeOK, Pc, Over, Sent
<1>4. client' \in [Client -> ClientState]
  <2>1. ASSUME NEW c \in Client
        PROVE  (IF client[c].at = "answered" THEN client[c]
                ELSE [client[c] EXCEPT !.at = "idle", !.pos = 0]) \in ClientState
    <3>1. client[c] \in ClientState
      BY DEF TypeOK
    <3> QED BY <3>1 DEF ClientState
  <2> QED BY <1>1, <2>1 DEF Die
<1>5. messages' \in Seq(Message) /\ torn' \in Nat \cup {Whole} /\ open' \in BOOLEAN
  <2>1. UNCHANGED transcript \/ \E r \in Request : Cut(r)
    BY <1>1 DEF Die
  <2>2. CASE UNCHANGED transcript
    BY <2>2 DEF transcript, TypeOK
  <2> QED BY <2>1, <2>2, StoreTyped
<1> QED BY <1>1, <1>2, <1>3, <1>4, <1>5 DEF TypeOK, Counted

LEMMA ChatTypeInit == Init /\ IsFiniteSet(Request) => TypeOK /\ Counted
<1> SUFFICES ASSUME Init, IsFiniteSet(Request) PROVE TypeOK /\ Counted
  OBVIOUS
<1>1. Cardinality(Request) \in Nat /\ Sent = {} /\ Cardinality(Sent) = 0
  BY SentCounts, FS_EmptySet DEF Init, Sent
<1>2. [c \in Client |-> [at |-> "idle", turn |-> -1, pos |-> 0, answer |-> "none"]]
        \in [Client -> ClientState]
  BY <1>1 DEF ClientState, Turn
<1>3. TypeOK
  <2>1. pc \in [Request -> Pc] /\ patch \in [Request -> Status]
    BY DEF Init, Pc, Status
  <2>2. turn \in [Request -> Turn] /\ failures \in 0 .. MaxFailures /\ crashes \in 0 .. MaxCrashes
    BY <1>1, BoundAssumption DEF Init, Turn
  <2>3. <<>> \in Seq(Message) /\ <<>> \in Seq(Event)
    OBVIOUS
  <2>4. open \in BOOLEAN
    BY Zenon DEF Init
  <2>5. torn \in Nat \cup {Whole} /\ misread \subseteq Request
    BY Zenon DEF Init
  <2>6. /\ prior \in [Request -> Seq(Message)] /\ held \in [Request -> Meta \cup {NoMeta}]
        /\ meta \in Meta \cup {NoMeta, Empty, Garbled} /\ messages \in Seq(Message)
        /\ events \in Seq(Event) /\ client \in [Client -> ClientState]
    BY <1>2, <2>3 DEF Init
  <2> QED BY <2>1, <2>2, <2>4, <2>5, <2>6, Zenon DEF TypeOK
<1> QED BY <1>1, <1>3 DEF Init, Counted, NoMeta

LEMMA ChatTypeNext ==
  ASSUME IsFiniteSet(Request), TypeOK, Counted, [Next]_vars
  PROVE  TypeOK' /\ Counted'
<1>1. CASE UNCHANGED vars
  BY <1>1 DEF vars, requestVars, given, fileVars, transcript, TypeOK, Counted, Sent
<1> QED BY <1>1, TypeStarts, TypeSteps, TypeClients, TypeDies DEF Next, Works, Dies

\* Type correctness of a chat, whoever sends and whenever: no turn number passes
\* the number of messages sent (createVein.ts 1008-1041).
THEOREM ChatTyped ==
  ASSUME IsFiniteSet(Request)
  PROVE  Spec => [](TypeOK /\ Counted)
<1>1. Init => TypeOK /\ Counted
  BY ChatTypeInit
<1>2. TypeOK /\ Counted /\ [Next]_vars => (TypeOK /\ Counted)'
  BY ChatTypeNext
<1> QED BY <1>1, <1>2, PTL DEF Spec

-----------------------------------------------------------------------------
(* Logs only grow.                                                         *)

LEMMA PrefixOfAppend ==
  ASSUME NEW S, NEW s \in Seq(S), NEW e \in S, NEW i \in 1 .. Len(s) + 1
  PROVE  SubSeq(Append(s, e), 1, i - 1) = SubSeq(s, 1, i - 1)
<1>1. /\ Append(s, e) \in Seq(S) /\ Len(s) \in Nat
      /\ \A k \in 1 .. Len(s) : Append(s, e)[k] = s[k] /\ s[k] \in S
  BY AppendProperties
<1>2. 1 \in Int /\ i - 1 \in Int /\ \A k \in 1 .. i - 1 : k \in 1 .. Len(s)
  BY <1>1
<1>3. \A k \in 1 .. i - 1 : s[k] \in S /\ Append(s, e)[k] \in S
  BY <1>1, <1>2
<1>4. /\ SubSeq(s, 1, i - 1) \in Seq(S)
      /\ Len(SubSeq(s, 1, i - 1)) = IF 1 <= i - 1 THEN (i - 1) - 1 + 1 ELSE 0
      /\ \A k \in 1 .. (i - 1) - 1 + 1 : SubSeq(s, 1, i - 1)[k] = s[1 + k - 1]
  BY <1>2, <1>3, SubSeqProperties
<1>5. /\ SubSeq(Append(s, e), 1, i - 1) \in Seq(S)
      /\ Len(SubSeq(Append(s, e), 1, i - 1)) = IF 1 <= i - 1 THEN (i - 1) - 1 + 1 ELSE 0
      /\ \A k \in 1 .. (i - 1) - 1 + 1 : SubSeq(Append(s, e), 1, i - 1)[k] = Append(s,
           e)[1 + k - 1]
  BY <1>2, <1>3, SubSeqProperties
<1>6. \A k \in 1 .. Len(SubSeq(s, 1, i - 1)) :
        SubSeq(Append(s, e), 1, i - 1)[k] = SubSeq(s, 1, i - 1)[k]
  BY <1>1, <1>2, <1>4, <1>5
<1> QED BY <1>4, <1>5, <1>6, SeqEqual

\* The events that a step adds to the log: at most one, by r.
Logs(r) ==
  events' = events \/ \E type \in {"part", "chat.end", "chat.error"} : Emit(r, type)

LEMMA StepLogs ==
  ASSUME NEW r \in Request, Works(r)
  PROVE  Logs(r)
<1>1. CASE WriteNewMeta(r) \/ LoadMessages(r) \/ LoadNothing(r) \/ AppendMessage(r)
        \/ FinishStream(r) \/ AppendReply(r)
  BY <1>1
    DEF WriteNewMeta, LoadMessages, LoadNothing, AppendMessage, FinishStream, AppendReply, fileVars, Logs
<1>2. CASE ReadMeta(r) \/ OpenMeta(r) \/ WriteMeta(r) \/ Throw(r) \/ WriteFails(r)
  BY <1>2 DEF ReadMeta, OpenMeta, WriteMeta, Throw, WriteFails, fileVars, Logs
<1>3. CASE EmitPart(r) \/ EmitEnd(r) \/ EmitError(r)
  BY <1>3 DEF EmitPart, EmitEnd, EmitError, Logs
<1> QED BY <1>1, <1>2, <1>3 DEF Works, TurnStep

LEMMA LogsGrow ==
  ASSUME TypeOK, NEW r \in Request, Logs(r)
  PROVE  /\ Len(events) \in Nat /\ Len(events') \in Nat /\ Len(events) <= Len(events')
         /\ Len(events') <= Len(events) + 1
         /\ \A i \in 1 .. Len(events) : events'[i] = events[i]
         /\ \A i \in 1 .. Len(events') : i > Len(events) =>
              i = Len(events) + 1 /\ events'[i].by = r /\ events'[i].turn = turn[r]
<1>1. events \in Seq(Event) /\ turn[r] \in Turn
  BY DEF TypeOK
<1>2. CASE events' = events
  BY <1>1, <1>2
<1>3. ASSUME NEW type \in {"part", "chat.end", "chat.error"}, Emit(r, type) PROVE
         /\ Len(events) \in Nat /\ Len(events') = Len(events) + 1
         /\ \A i \in 1 .. Len(events) : events'[i] = events[i]
         /\ events'[Len(events) + 1].by = r /\ events'[Len(events) + 1].turn = turn[r]
  <2>1. PICK e \in Event : e = [by |-> r, turn |-> turn[r], type |-> type]
    BY <1>1 DEF Event
  <2>2. events' = Append(events, e)
    BY <1>3, <2>1 DEF Emit
  <2>3. events'[Len(events) + 1] = e /\ Len(events) \in Nat /\ Len(events') = Len(events) + 1
        /\ \A i \in 1 .. Len(events) : events'[i] = events[i]
    BY <1>1, <2>2, AppendProperties
  <2> QED BY <2>1, <2>3
<1> QED BY <1>2, <1>3 DEF Logs

-----------------------------------------------------------------------------
(* Tails.                                                                  *)

LEMMA TailsStay ==
  ASSUME TypeOK, Tails, UNCHANGED client, NEW r \in Request, Logs(r)
  PROVE  Tails'
<1>1. ASSUME NEW c \in Client
      PROVE  /\ client[c].pos <= Len(events')
             /\ client[c].at = "idle" => client[c].pos = 0
             /\ client[c].at \in {"reading", "answered"} /\ client[c].pos > 0 =>
                  /\ events'[client[c].pos].turn = client[c].turn
                  /\ IsTerminal(events'[client[c].pos])
  <2>1. client[c].pos \in Nat
    BY DEF TypeOK, ClientState
  <2>2. client[c].pos > 0 => events'[client[c].pos] = events[client[c].pos]
    BY <2>1, LogsGrow DEF Tails
  <2> QED BY <2>1, <2>2, LogsGrow DEF Tails
<1> QED BY <1>1 DEF Tails, IsTerminal

LEMMA TailsStart ==
  ASSUME TypeOK, Tails, NEW r \in Request, CreateChat(r) \/ PostMessage(r)
  PROVE  Tails'
<1>1. UNCHANGED client /\ Logs(r)
  BY DEF CreateChat, PostMessage, fileVars, Logs
<1> QED BY <1>1, TailsStay

LEMMA TailsStep ==
  ASSUME TypeOK, Tails, NEW r \in Request, Works(r)
  PROVE  Tails'
<1>1. UNCHANGED client
  <2>1. CASE TurnStep(r)
    BY <2>1
      DEF TurnStep, WriteNewMeta, LoadMessages, AppendMessage, ReadMeta, OpenMeta, WriteMeta,
                EmitPart, FinishStream, AppendReply, EmitEnd, EmitError
  <2> QED BY <2>1 DEF Works, Throw, WriteFails, LoadNothing
<1> QED BY <1>1, StepLogs, TailsStay

\* What one client's tail must respect.
TailOf(state) ==
  /\ state.pos <= Len(events)
  /\ state.at = "idle" => state.pos = 0
  /\ state.at \in {"reading", "answered"} /\ state.pos > 0 =>
       events[state.pos].turn = state.turn /\ IsTerminal(events[state.pos])

LEMMA TailMoves ==
  ASSUME TypeOK, Tails, NEW c \in Client, NEW state, Become(c, state), TailOf(state)
  PROVE  Tails'
<1>1. events' = events /\ client' = [client EXCEPT ![c] = state]
  BY DEF Become, fileVars
<1>2. \A d \in Client : client'[d] = IF d = c THEN state ELSE client[d]
  BY <1>1 DEF TypeOK
<1> QED BY <1>1, <1>2 DEF Tails, TailOf, IsTerminal

LEMMA TailsClient ==
  ASSUME TypeOK, Tails,
         NEW c \in Client, ClientStep(c) \/ \E t \in Turn : OpenStream(c, t)
  PROVE  Tails'
<1>1. client[c] \in ClientState /\ events \in Seq(Event)
  BY DEF TypeOK
<1>2. client[c].pos \in Nat /\ Len(events) \in Nat
  BY <1>1 DEF ClientState
<1>3. CASE TailEvent(c)
  <2>1. PICK e : e = events[client[c].pos + 1]
    OBVIOUS
  <2>2. PICK to \in {"reading", "tailing"} :
          /\ Become(c, [client[c] EXCEPT !.pos = client[c].pos + 1, !.at = to])
          /\ to = "reading" => e.turn = client[c].turn /\ IsTerminal(e)
    BY <1>3, <2>1 DEF TailEvent
  <2>3. PICK state : state = [client[c] EXCEPT !.pos = client[c].pos + 1, !.at = to]
    OBVIOUS
  <2>4. state.pos = client[c].pos + 1 /\ state.at = to /\ state.turn = client[c].turn
    BY <1>1, <2>3 DEF ClientState
  <2>5. client[c].pos < Len(events)
    BY <1>3 DEF TailEvent
  <2>6. TailOf(state)
    BY <1>2, <2>1, <2>2, <2>4, <2>5 DEF TailOf
  <2> QED BY <2>2, <2>3, <2>6, TailMoves
<1>4. CASE AnswerClient(c)
  <2>1. PICK answer : Become(c, [client[c] EXCEPT !.at = "answered", !.answer = answer])
    BY <1>4 DEF AnswerClient
  <2>2. PICK state : state = [client[c] EXCEPT !.at = "answered", !.answer = answer]
    OBVIOUS
  <2>3. state.pos = client[c].pos /\ state.at = "answered" /\ state.turn = client[c].turn
    BY <1>1, <2>2 DEF ClientState
  <2>4. TailOf(state)
    BY <1>4, <2>3 DEF AnswerClient, Tails, TailOf
  <2> QED BY <2>1, <2>2, <2>4, TailMoves
<1>5. ASSUME NEW t \in Turn, OpenStream(c, t) PROVE Tails'
  <2>1. client[c].at = "idle" /\ client[c].pos = 0
    BY <1>5 DEF OpenStream, Tails
  <2>2. PICK state \in {[client[c] EXCEPT !.at = "tailing", !.turn = t],
                        [client[c] EXCEPT !.at = "answered", !.turn = t,
                            !.answer = meta.status]} :
          Become(c, state)
    BY <1>5 DEF OpenStream
  <2>3. state.pos = 0 /\ state.at # "idle"
    BY <1>1, <2>1, <2>2 DEF ClientState
  <2>4. TailOf(state)
    BY <1>2, <2>3 DEF TailOf
  <2> QED BY <2>2, <2>4, TailMoves
<1> QED BY <1>3, <1>4, <1>5 DEF ClientStep

LEMMA TailsDies ==
  ASSUME TypeOK, Tails, Dies
  PROVE  Tails'
<1>1. Die /\ events' = events /\ events \in Seq(Event)
  BY DEF Dies, Crash, CatchFails, Die, TypeOK
<1>2. ASSUME NEW c \in Client
      PROVE  \/ client'[c] = client[c]
             \/ client'[c].pos = 0 /\ client'[c].at = "idle"
  <2>1. client[c] \in ClientState
    BY DEF TypeOK
  <2>2. client'[c] = IF client[c].at = "answered" THEN client[c]
                     ELSE [client[c] EXCEPT !.at = "idle", !.pos = 0]
    BY <1>1 DEF Die
  <2> QED BY <2>1, <2>2 DEF ClientState
<1>3. ASSUME NEW c \in Client
      PROVE  /\ client'[c].pos <= Len(events)
             /\ client'[c].at = "idle" => client'[c].pos = 0
             /\ client'[c].at \in {"reading", "answered"} /\ client'[c].pos > 0 =>
                  events[client'[c].pos].turn = client'[c].turn
                      /\ IsTerminal(events[client'[c].pos])
  BY <1>1, <1>2 DEF Tails
<1> QED BY <1>1, <1>3 DEF Tails, IsTerminal

LEMMA TailsNext == TypeOK /\ Tails /\ [Next]_vars => Tails'
<1> SUFFICES ASSUME TypeOK, Tails, [Next]_vars PROVE Tails'
  OBVIOUS
<1>1. CASE UNCHANGED vars
  BY <1>1 DEF vars, fileVars, Tails, IsTerminal
<1> QED BY <1>1, TailsStart, TailsStep, TailsClient, TailsDies DEF Next, Works, Dies

LEMMA TailsInit == Init => Tails
BY DEF Init, Tails

-----------------------------------------------------------------------------
(* A user that waits.                                                      *)

LEMMA StepIsActive ==
  ASSUME NEW r \in Request, Works(r)
  PROVE  Active(r)
<1>1. CASE TurnStep(r)
  BY <1>1 DEF TurnStep, WriteNewMeta, LoadMessages, AppendMessage, ReadMeta, OpenMeta, WriteMeta,
              EmitPart, FinishStream, AppendReply, EmitEnd, EmitError, Goto, Active
<1> QED BY <1>1 DEF Works, Throw, WriteFails, LoadNothing, Goto, Active

LEMMA NoneActive ==
  ASSUME Patience = "finished", MaySend
  PROVE  \A r \in Request : ~Active(r)
BY DEF MaySend, Over, Active

\* Steps of r, the only one at work; the others stay as they are.
LEMMA OthersRest ==
  ASSUME TypeOK, Alone, NEW r \in Request, Active(r), Moves(r)
  PROVE  /\ \A q \in Request \ {r} : pc'[q] = pc[q] /\ ~Active(q) /\ ~Active(q)'
         /\ Alone'
<1>1. \A q \in Request \ {r} : pc'[q] = pc[q] /\ ~Active(q)
  BY DEF TypeOK, Alone, Moves
<1>2. \A q \in Request \ {r} : ~Active(q)'
  BY <1>1 DEF Active
<1> QED BY <1>1, <1>2 DEF Alone

-----------------------------------------------------------------------------
(* The transcript.                                                         *)

LEMMA TranscriptStays ==
  ASSUME Transcript, UNCHANGED <<messages, torn, prior, misread>>,
         \A r \in Request : /\ Unsaid(r)' => Unsaid(r)
                            /\ pc'[r] = "saying" => pc[r] = "saying",
         \A r \in misread : pc'[r] \notin {"idle", "creating", "loading"}
  PROVE  Transcript'
BY DEF Transcript, ContextIsTranscript

LEMMA TranscriptLoads ==
  ASSUME TypeOK, Transcript, NEW r \in Request, LoadMessages(r) \/ LoadNothing(r)
  PROVE  Transcript'
<1>1. /\ messages' = messages /\ torn' = torn
      /\ pc[r] = "loading" /\ pc' = [pc EXCEPT ![r] = "saying"]
  BY DEF LoadMessages, LoadNothing, Goto, fileVars, transcript
<1>2. \A q \in Request \ {r} : /\ pc'[q] = pc[q] /\ prior'[q] = prior[q]
                               /\ q \in misread' <=> q \in misread
  BY <1>1 DEF LoadMessages, LoadNothing, TypeOK
<1>3. /\ prior'[r] = IF r \in misread' \/ torn # Whole THEN <<>> ELSE messages
      /\ Unsaid(r) /\ pc'[r] = "saying" /\ misread' \subseteq misread \cup {r}
  <2>1. r \notin misread
    BY <1>1 DEF Transcript
  <2> QED BY <1>1, <2>1 DEF LoadMessages, LoadNothing, Parsed, TypeOK, Unsaid
<1>4. \A q \in Request : Unsaid(q)' => Unsaid(q)
  BY <1>2, <1>3 DEF Unsaid
<1>5. \A q \in Request : pc'[q] = "saying" =>
        prior'[q] = IF q \in misread' \/ torn # Whole THEN <<>> ELSE messages
  BY <1>2, <1>3 DEF Transcript
<1>6. \A q \in misread' : pc'[q] \notin {"idle", "creating", "loading"}
  <2>1. misread \subseteq Request
    BY DEF TypeOK
  <2> QED BY <1>2, <1>3, <2>1 DEF Transcript
<1>7. ASSUME NEW q \in Request, NEW i \in DOMAIN messages,
             messages[i] = [by |-> q, role |-> "user"]
      PROVE  prior'[q] = IF q \in misread' \/ (torn # Whole /\ torn < i) THEN <<>>
                         ELSE SubSeq(messages, 1, i - 1)
  <2>1. q # r
    BY <1>3, <1>7 DEF Transcript
  <2> QED BY <1>2, <1>7, <2>1 DEF Transcript, ContextIsTranscript
<1> QED BY <1>1, <1>4, <1>5, <1>6, <1>7 DEF Transcript, ContextIsTranscript

\* What an append leaves in the file, whole or cut.
LEMMA AppendLeaves ==
  ASSUME TypeOK, Transcript, NEW r \in Request, Store(r) \/ Cut(r)
  PROVE  \/ UNCHANGED <<messages, torn>>
         \/ messages' = messages /\ torn = Whole /\ torn' = Len(messages)
         \/ /\ messages' = Append(messages, Line(r))
            /\ torn' = torn \/ (torn = Whole /\ torn' = Len(messages) + 1)
BY DEF Store, Cut, transcript

\* An append by r, while nobody else is about to.
LEMMA TranscriptAppends ==
  ASSUME TypeOK, Transcript, NEW r \in Request, Appending(r), Store(r) \/ Cut(r),
         UNCHANGED given,
         \A q \in Request : /\ pc'[q] # "saying"
                            /\ Unsaid(q)' => Unsaid(q) /\ q # r,
         \A q \in misread : pc'[q] \notin {"idle", "creating", "loading"}
  PROVE  Transcript'
<1>1. PICK m \in Message : m = Line(r)
  <2>1. Line(r) \in Message
    BY DEF Message, Line
  <2> QED BY <2>1
<1>2. /\ messages \in Seq(Message) /\ Len(messages) \in Nat /\ prior' = prior
      /\ misread' = misread /\ torn \in Nat \cup {Whole} /\ Whole \in Int /\ Whole < 0
      /\ DOMAIN messages = 1 .. Len(messages) /\ torn <= Len(messages)
  BY DEF TypeOK, given, Whole, Transcript
<1>3. CASE UNCHANGED <<messages, torn>>
  BY <1>2, <1>3, TranscriptStays
<1>4. CASE messages' = messages /\ torn = Whole /\ torn' = Len(messages)
  <2>1. ASSUME NEW q \in Request, NEW i \in DOMAIN messages,
               messages[i] = [by |-> q, role |-> "user"]
        PROVE  prior[q] = IF q \in misread \/ (torn' # Whole /\ torn' < i) THEN <<>>
                          ELSE SubSeq(messages, 1, i - 1)
    <3>1. ~(torn' < i)
      BY <1>2, <1>4
    <3>2. prior[q] = IF q \in misread \/ (torn # Whole /\ torn < i) THEN <<>>
                     ELSE SubSeq(messages, 1, i - 1)
      BY <2>1 DEF Transcript, ContextIsTranscript
    <3> QED BY <1>4, <3>1, <3>2
  <2>2. torn' <= Len(messages')
    BY <1>2, <1>4
  <2>3. ContextIsTranscript'
    BY <1>2, <1>4, <2>1 DEF ContextIsTranscript
  <2>4. \A q \in Request : Unsaid(q)' =>
          \A i \in DOMAIN messages' : messages'[i] # [by |-> q, role |-> "user"]
    BY <1>4 DEF Transcript
  <2> QED BY <1>2, <2>2, <2>3, <2>4 DEF Transcript
<1>5. CASE /\ messages' = Append(messages, Line(r))
           /\ torn' = torn \/ (torn = Whole /\ torn' = Len(messages) + 1)
  <2>1. /\ Len(messages') = Len(messages) + 1 /\ messages'[Len(messages) + 1] = m
        /\ \A i \in 1 .. Len(messages) : messages'[i] = messages[i]
        /\ DOMAIN messages' = 1 .. Len(messages) + 1
    BY <1>1, <1>2, <1>5, AppendProperties
  <2>2. \A i \in 1 .. Len(messages) + 1 :
          SubSeq(messages', 1, i - 1) = SubSeq(messages, 1, i - 1)
    BY <1>1, <1>2, <1>5, PrefixOfAppend
  <2>3. ASSUME NEW q \in Request, Unsaid(q)', NEW i \in DOMAIN messages'
        PROVE  messages'[i] # [by |-> q, role |-> "user"]
    <3>1. q # r /\ Unsaid(q)
      BY <2>3
    <3>2. CASE i = Len(messages) + 1
      BY <1>1, <2>1, <3>1, <3>2 DEF Line
    <3>3. CASE i \in 1 .. Len(messages)
      BY <1>2, <2>1, <3>1, <3>3 DEF Transcript
    <3> QED BY <1>2, <2>1, <2>3, <3>2, <3>3
  <2>4. ASSUME NEW q \in Request, NEW i \in DOMAIN messages',
               messages'[i] = [by |-> q, role |-> "user"]
        PROVE  prior[q] = IF q \in misread \/ (torn' # Whole /\ torn' < i) THEN <<>>
                          ELSE SubSeq(messages', 1, i - 1)
    <3>1. CASE i = Len(messages) + 1
      <4>1. q = r /\ pc[r] = "saying"
        BY <1>1, <2>1, <2>4, <3>1 DEF Line, Appending
      <4>2. prior[q] = IF q \in misread \/ torn # Whole THEN <<>> ELSE messages
        BY <4>1 DEF Transcript
      <4>3. SubSeq(messages, 1, Len(messages)) = messages
        BY <1>2, SubSeqFull
      <4>4. SubSeq(messages', 1, i - 1) = messages
        BY <1>2, <2>2, <3>1, <4>3
      <4>5. torn # Whole <=> (torn' # Whole /\ torn' < i)
        BY <1>2, <1>5, <3>1
      <4> QED BY <4>2, <4>4, <4>5
    <3>2. CASE i \in 1 .. Len(messages)
      <4>1. prior[q] = IF q \in misread \/ (torn # Whole /\ torn < i) THEN <<>>
                       ELSE SubSeq(messages, 1, i - 1)
        BY <1>2, <2>1, <2>4, <3>2 DEF Transcript, ContextIsTranscript
      <4>2. (torn # Whole /\ torn < i) <=> (torn' # Whole /\ torn' < i)
        BY <1>2, <1>5, <3>2
      <4>3. SubSeq(messages', 1, i - 1) = SubSeq(messages, 1, i - 1)
        BY <1>2, <2>2, <3>2
      <4> QED BY <4>1, <4>2, <4>3
    <3> QED BY <1>2, <2>1, <2>4, <3>1, <3>2
  <2>5. torn' <= Len(messages')
    BY <1>2, <1>5, <2>1
  <2> QED BY <1>2, <2>3, <2>4, <2>5 DEF Transcript, ContextIsTranscript
<1> QED BY <1>3, <1>4, <1>5, AppendLeaves

\* Those of the requests that do not act, while r does.
LEMMA TranscriptWork ==
  ASSUME TypeOK, Alone, Transcript, NEW r \in Request, Works(r)
  PROVE  Transcript'
<1>1. /\ Active(r) /\ Moves(r)
      /\ \A q \in Request \ {r} : pc'[q] = pc[q] /\ ~Active(q) /\ q # r
  BY StepIsActive, StepMoves, OthersRest
<1>2. misread \subseteq Request /\ pc'[r] \in Pc
  BY <1>1 DEF TypeOK, Moves
<1>3. CASE LoadMessages(r) \/ LoadNothing(r)
  BY <1>3, TranscriptLoads
<1>4. CASE Appending(r) /\ (Store(r) \/ Cut(r)) /\ UNCHANGED given
           /\ pc'[r] \in {"reading", "ending", "refused", "erroring"}
  <2>1. \A q \in Request : pc'[q] # "saying" /\ (Unsaid(q)' => Unsaid(q) /\ q # r)
    BY <1>1, <1>4 DEF Active, Unsaid
  <2>2. \A q \in misread : pc'[q] \notin {"idle", "creating", "loading"}
    BY <1>1, <1>2, <1>4 DEF Transcript
  <2> QED BY <1>4, <2>1, <2>2, TranscriptAppends
<1>5. CASE /\ UNCHANGED <<messages, torn, prior, misread>>
           /\ \/ pc'[r] = "loading" /\ pc[r] = "creating"
              \/ pc'[r] \notin {"idle", "creating", "loading", "saying"}
  <2>1. \A q \in Request : (Unsaid(q)' => Unsaid(q)) /\ (pc'[q] = "saying" => pc[q] = "saying")
    BY <1>1, <1>5 DEF Unsaid
  <2>2. \A q \in misread : pc'[q] \notin {"idle", "creating", "loading"}
    BY <1>1, <1>2, <1>5 DEF Transcript
  <2> QED BY <1>5, <2>1, <2>2, TranscriptStays
<1>6. CASE AppendMessage(r) \/ AppendReply(r)
  BY <1>4, <1>6 DEF AppendMessage, AppendReply, Goto, TypeOK, Appending
<1>7. CASE WriteFails(r)
  BY <1>4, <1>5, <1>7 DEF WriteFails, Goto, TypeOK, Appending, given, transcript
<1>8. CASE WriteNewMeta(r) \/ ReadMeta(r) \/ OpenMeta(r) \/ WriteMeta(r)
  BY <1>5, <1>8 DEF WriteNewMeta, ReadMeta, OpenMeta, WriteMeta, AfterSetMeta, Goto, TypeOK,
                    given, transcript, fileVars
<1>9. CASE EmitPart(r) \/ FinishStream(r) \/ EmitEnd(r) \/ EmitError(r) \/ Throw(r)
  BY <1>5, <1>9 DEF EmitPart, FinishStream, EmitEnd, EmitError, Throw, Goto, TypeOK,
                    given, transcript, fileVars, requestVars
<1> QED BY <1>3, <1>6, <1>7, <1>8, <1>9 DEF Works, TurnStep

LEMMA TranscriptDies ==
  ASSUME TypeOK, Transcript, Dies
  PROVE  Transcript'
<1>1. Die /\ UNCHANGED given
  BY DEF Dies, Crash, CatchFails, Die
<1>2. \A r \in Request : pc'[r] = "dead" \/ (pc'[r] = pc[r] /\ ~Active(r))
  BY <1>1 DEF Die, Over, Active
<1>3. /\ \A r \in Request : pc'[r] # "saying" /\ (Unsaid(r)' => Unsaid(r) /\ ~Appending(r))
      /\ \A r \in misread : pc'[r] \notin {"idle", "creating", "loading"}
  <2>1. misread \subseteq Request
    BY DEF TypeOK
  <2> QED BY <1>2, <2>1 DEF Active, Unsaid, Appending, Transcript
<1>4. CASE UNCHANGED transcript
  BY <1>1, <1>3, <1>4, TranscriptStays DEF transcript, given
<1>5. ASSUME NEW r \in Request, Appending(r), Cut(r) PROVE Transcript'
  BY <1>1, <1>3, <1>5, TranscriptAppends
<1> QED BY <1>1, <1>4, <1>5 DEF Die

LEMMA TranscriptNext == TypeOK /\ Alone /\ Transcript /\ [Next]_vars => Transcript'
<1> SUFFICES ASSUME TypeOK, Alone, Transcript, [Next]_vars PROVE Transcript'
  OBVIOUS
<1>1. misread \subseteq Request
  BY DEF TypeOK
<1>2. CASE UNCHANGED <<pc, given, transcript>>
  BY <1>1, <1>2, TranscriptStays DEF given, transcript, Unsaid, Transcript
<1>3. ASSUME NEW r \in Request, CreateChat(r) \/ PostMessage(r) PROVE Transcript'
  <2>1. UNCHANGED <<messages, torn, prior, misread>>
    BY <1>3 DEF CreateChat, PostMessage, fileVars, transcript, given
  <2>2. /\ pc[r] = "idle" /\ pc'[r] \in {"creating", "loading", "refused"}
        /\ \A q \in Request \ {r} : pc'[q] = pc[q]
    BY <1>3 DEF CreateChat, PostMessage, Goto, TypeOK
  <2>3. \A q \in misread : pc'[q] \notin {"idle", "creating", "loading"}
    BY <1>1, <2>2 DEF Transcript
  <2> QED BY <2>1, <2>2, <2>3, TranscriptStays DEF Unsaid
<1>4. ASSUME NEW c \in Client, ClientStep(c) \/ \E t \in Turn : OpenStream(c, t)
      PROVE  Transcript'
  <2>1. UNCHANGED <<pc, given, transcript>>
    BY <1>4 DEF ClientStep, TailEvent, AnswerClient, OpenStream, Become, requestVars, fileVars
  <2> QED BY <1>2, <2>1
<1>5. CASE UNCHANGED vars
  BY <1>2, <1>5 DEF vars, requestVars, fileVars
<1> QED BY <1>3, <1>4, <1>5, TranscriptWork, TranscriptDies DEF Next, Works, Dies

LEMMA TranscriptInit == Init => Transcript
BY DEF Init, Transcript, ContextIsTranscript, Whole

-----------------------------------------------------------------------------
(* meta.json and the turn numbers.                                         *)

ChatInv == Alone /\ Courses /\ Numbered /\ Told

\* What a step of r, the only request at work, does to the chat.
Does(r) ==
  /\ \A q \in Request \ {r} : turn'[q] = turn[q] /\ patch'[q] = patch[q]
  /\ turn[r] <= turn'[r] /\ (Before(r) \/ turn'[r] = turn[r])
  /\ Before(r)' => Before(r)
  /\ Before(r) => events' = events
  /\ pc'[r] = "refused" => Before(r)
  /\ meta' # NoMeta
  /\ meta' \in Meta => /\ meta' = meta \/ turn[r] <= meta'.turn
                       /\ Before(r)' \/ pc'[r] = "refused" \/ turn'[r] <= meta'.turn
  /\ pc'[r] = "finished" =>
       ~Before(r) /\ (failures' = 0 => meta' = [status |-> patch'[r], turn |-> turn'[r]])
  /\ Course(r)'

LEMMA CoursesStep ==
  ASSUME TypeOK, Alone, Courses, NEW r \in Request, Active(r), Moves(r), Does(r)
  PROVE  Courses'
<1>1. ASSUME NEW q \in Request, q # r PROVE Course(q)'
  <2>1. pc'[q] = pc[q] /\ pc[q] \in {"idle", "finished", "refused", "dead"} /\ Course(q)
        /\ turn'[q] = turn[q] /\ patch'[q] = patch[q]
    BY <1>1, OthersRest DEF Courses, Active, Does
  <2> QED BY <2>1 DEF Course, Before, Unsaid, Setting
<1> QED BY <1>1 DEF Courses, Does

LEMMA NumberedStep ==
  ASSUME TypeOK, TypeOK', Alone, Numbered, NEW r \in Request, Active(r), Moves(r),
         Logs(r), Does(r)
  PROVE  Numbered'
<1>1. \A q \in Request \ {r} : /\ pc'[q] = pc[q] /\ ~Active(q) /\ ~Active(q)'
                               /\ turn'[q] = turn[q] /\ patch'[q] = patch[q]
  BY OthersRest DEF Does
<1>2. /\ DOMAIN events = 1 .. Len(events) /\ DOMAIN events' = 1 .. Len(events')
      /\ \A i \in DOMAIN events : events[i].by \in Request /\ events[i].turn \in Int
      /\ \A i \in DOMAIN events' : events'[i].by \in Request
  <2>1. events \in Seq(Event) /\ events' \in Seq(Event)
    BY DEF TypeOK
  <2>2. \A e \in Event : e.by \in Request /\ e.turn \in Int
    BY DEF Event, Turn
  <2> QED BY <2>1, <2>2
<1>3. /\ \A i \in DOMAIN events : i \in DOMAIN events' /\ events'[i] = events[i]
      /\ \A i \in DOMAIN events' \ DOMAIN events : events'[i].by = r /\ events'[i].turn = turn[r]
  BY <1>2, LogsGrow
<1>4. \A q \in Request : /\ turn[q] \in Int /\ turn'[q] \in Int
                         /\ turn[q] >= -1
  BY DEF TypeOK, Turn
<1>5. (meta \in Meta => meta.turn \in Int) /\ (meta' \in Meta => meta'.turn \in Int)
  BY DEF Meta, Turn
<1>6. \A q \in Request \ {r} : Spoke(q)' <=> Spoke(q)
  BY <1>1, <1>3 DEF Spoke
<1>7. Before(r) => ~Spoke(r)
  BY DEF Numbered
<1>8. \A q \in Request \ {r} : Spoke(q) => turn[q] < turn[r] /\ turn[q] < turn'[r]
  BY <1>4 DEF Numbered, Does
<1>9. /\ \A i \in DOMAIN events : events[i].turn = turn[events[i].by]
      /\ \A i \in DOMAIN events : Spoke(events[i].by)
  BY DEF Numbered, Spoke
<1>10. \A i \in DOMAIN events' : /\ events'[i].turn = turn'[events'[i].by]
                                 /\ events'[i].by = r \/ Spoke(events'[i].by)
  <2>1. ASSUME NEW i \in DOMAIN events
        PROVE  events[i].turn = turn'[events[i].by]
    <3>1. CASE events[i].by = r
      BY <1>7, <1>9, <3>1 DEF Does
    <3>2. CASE events[i].by # r
      BY <1>1, <1>2, <1>9, <3>2
    <3> QED BY <3>1, <3>2
  <2>2. ASSUME NEW i \in DOMAIN events' \ DOMAIN events
        PROVE  events'[i].by = r /\ events'[i].turn = turn'[r]
    <3>1. ~Before(r)
      BY <2>2 DEF Does
    <3> QED BY <1>3, <2>2, <3>1 DEF Does
  <2> QED BY <1>3, <1>9, <2>1, <2>2
<1>11. \A q \in Request : Before(q)' => ~Spoke(q)'
  <2>1. \A q \in Request \ {r} : Before(q)' => Before(q)
    BY <1>1 DEF Before, Unsaid, Setting
  <2>2. Before(r)' => pc'[r] # "finished" /\ Before(r)
    BY DEF Does, Before, Unsaid, Setting
  <2>3. Before(r)' => ~Spoke(r)'
    BY <1>7, <2>2 DEF Does, Spoke
  <2> QED BY <1>6, <2>1, <2>3 DEF Numbered
<1>12. \A p \in Request : Active(p)' =>
         \A q \in Request \ {p} : Spoke(q)' => turn'[q] < turn'[p]
  BY <1>1, <1>6, <1>8
<1>13. Readable' => \A q \in Request : Spoke(q)' => turn'[q] <= meta'.turn
  <2>1. ASSUME meta' \in Meta, NEW q \in Request \ {r}, Spoke(q) PROVE turn[q] <= meta'.turn
    <3>1. CASE meta' = meta
      BY <2>1, <3>1 DEF Numbered, Readable
    <3>2. CASE turn[r] <= meta'.turn
      BY <1>4, <1>5, <1>8, <2>1, <3>2
    <3> QED BY <2>1, <3>1, <3>2 DEF Does
  <2>2. ASSUME meta' \in Meta, Spoke(r)' PROVE turn'[r] <= meta'.turn
    <3>1. ~Before(r)'
      BY <1>11, <2>2
    <3>2. pc'[r] # "refused"
      <4>1. ASSUME pc'[r] = "refused" PROVE FALSE
        <5>1. Before(r) /\ events' = events
          BY <4>1 DEF Does
        <5> QED BY <1>7, <2>2, <4>1, <5>1 DEF Spoke
      <4> QED BY <4>1
    <3> QED BY <2>2, <3>1, <3>2 DEF Does
  <2> QED BY <1>1, <1>6, <2>1, <2>2 DEF Readable
<1>14. meta' # NoMeta
  BY DEF Does
<1>15. TurnsDistinct'
  <2>1. ASSUME NEW i \in DOMAIN events', NEW k \in DOMAIN events',
               events'[i].turn = events'[k].turn
        PROVE  events'[i].by = events'[k].by
    <3>1. CASE i \in DOMAIN events /\ k \in DOMAIN events
      BY <1>3, <2>1, <3>1 DEF Numbered, TurnsDistinct
    <3>2. \A j \in DOMAIN events' : events'[j].by # r => events'[j].turn < turn'[r]
      BY <1>1, <1>2, <1>8, <1>10
    <3>3. \A j \in DOMAIN events' : events'[j].by = r => events'[j].turn = turn'[r]
      BY <1>10
    <3>4. CASE ~(i \in DOMAIN events /\ k \in DOMAIN events)
      BY <1>3, <1>4, <2>1, <3>2, <3>3, <3>4
    <3> QED BY <3>1, <3>4
  <2> QED BY <2>1 DEF TurnsDistinct
<1> QED BY <1>10, <1>11, <1>12, <1>13, <1>14, <1>15 DEF Numbered

LEMMA ToldStep ==
  ASSUME TypeOK, TypeOK', Alone, Numbered, NEW r \in Request, Active(r), Moves(r), Does(r)
  PROVE  Told'
<1>1. \A q \in Request \ {r} : pc'[q] = pc[q] /\ turn'[q] = turn[q]
  BY OthersRest DEF Does
<1>2. ASSUME Quiet', failures' = 0, NEW s \in Request, pc'[s] = "finished",
             \A q \in Request : pc'[q] = "finished" => turn'[q] <= turn'[s]
      PROVE  meta' = [status |-> patch'[s], turn |-> turn'[s]]
  <2>1. pc'[r] = "finished"
    <3>1. pc'[r] \in {"idle", "finished"}
      BY <1>2 DEF Quiet
    <3>2. pc'[r] # "idle"
      BY DEF Moves, TypeOK
    <3> QED BY <3>1, <3>2
  <2>2. CASE s = r
    BY <1>2, <2>1, <2>2 DEF Does
  <2>3. CASE s # r
    <3>1. Spoke(s) /\ turn[s] < turn[r]
      BY <1>1, <1>2, <2>3 DEF Spoke, Numbered
    <3>2. turn[r] <= turn'[r] /\ turn'[r] <= turn[s]
      BY <1>1, <1>2, <2>1, <2>3 DEF Does
    <3>3. turn[r] \in Int /\ turn'[r] \in Int /\ turn[s] \in Int
      BY DEF TypeOK, Turn
    <3> QED BY <3>1, <3>2, <3>3
  <2> QED BY <2>2, <2>3
<1> QED BY <1>2 DEF Told

-----------------------------------------------------------------------------

\* What is known before a step of r.
LEMMA AtWork ==
  ASSUME IsFiniteSet(Request), TypeOK, NEW r \in Request
  PROVE  /\ turn[r] \in Turn /\ turn[r] \in Int /\ -1 \in Turn /\ 0 \in Turn
         /\ patch[r] \in Status
         /\ \A s \in Status, n \in Turn : [status |-> s, turn |-> n] \in Meta
         /\ NoMeta \notin Meta /\ Empty \notin Meta /\ Empty # NoMeta
BY SentCounts DEF TypeOK, Turn, Meta, NoMeta, Empty, Status

\* Steps that touch neither the numbers nor meta.json, once r was launched.
LEMMA QuietDoes ==
  ASSUME TypeOK, NEW r \in Request, UNCHANGED <<turn, meta, held>>, ~Before(r), Live(r),
         NEW to \in {"streaming", "replying", "ending", "erroring", "reading"},
         pc' = [pc EXCEPT ![r] = to], NEW p \in {"live", "done", "error"},
         patch' = [patch EXCEPT ![r] = p], to = "reading" => p # "live",
         IsFiniteSet(Request)
  PROVE  Does(r)
<1>1. pc'[r] = to /\ patch'[r] = p /\ \A q \in Request \ {r} : patch'[q] = patch[q]
  BY DEF TypeOK
<1>2. Live(r)' /\ ~Before(r)'
  BY <1>1 DEF Live, Before, Unsaid, Setting
<1>3. meta \in Meta /\ meta.turn = turn[r] /\ turn[r] <= turn[r]
  BY AtWork DEF Live, Status
<1>4. Course(r)'
  BY <1>1, <1>2 DEF Course
<1> QED BY <1>1, <1>2, <1>3, <1>4, AtWork DEF Does

LEMMA EarlyDoes ==
  ASSUME IsFiniteSet(Request), TypeOK, Courses, NEW r \in Request,
         WriteNewMeta(r) \/ LoadMessages(r) \/ LoadNothing(r) \/ AppendMessage(r)
  PROVE  Does(r)
<1>1. Course(r)
  BY DEF Courses
<1>2. CASE WriteNewMeta(r)
  <2>1. /\ pc[r] = "creating" /\ pc'[r] = "loading" /\ turn'[r] = 0
        /\ meta' = [status |-> "live", turn |-> -1] /\ UNCHANGED <<patch, held, events>>
        /\ \A q \in Request \ {r} : turn'[q] = turn[q]
    BY <1>2 DEF WriteNewMeta, Goto, TypeOK
  <2>2. meta' \in Meta /\ meta'.turn = -1 /\ meta' # NoMeta
    BY <2>1, AtWork DEF Status, NoMeta
  <2>3. Before(r) /\ Before(r)'
    BY <2>1 DEF Before, Unsaid
  <2>4. turn[r] = -1 /\ patch[r] = "live"
    BY <1>1, <2>1 DEF Course
  <2>5. Course(r)'
    BY <2>1, <2>2, <2>4 DEF Course
  <2> QED BY <2>1, <2>2, <2>3, <2>4, <2>5 DEF Does
<1>3. CASE LoadMessages(r) \/ LoadNothing(r)
  <2>1. /\ pc[r] = "loading" /\ pc'[r] = "saying"
             /\ UNCHANGED <<turn, patch, held, events, meta>>
    BY <1>3 DEF LoadMessages, LoadNothing, Goto, TypeOK, fileVars
  <2>2. Before(r) /\ Before(r)'
    BY <2>1 DEF Before, Unsaid
  <2>3. patch[r] = "live" /\ meta \in Meta /\ meta.turn + 1 = turn[r]
    BY <1>1, <2>1, <2>2 DEF Course
  <2>4. Course(r)'
    BY <2>1, <2>3 DEF Course
  <2> QED BY <2>1, <2>2, <2>3, <2>4, AtWork DEF Does
<1>4. CASE AppendMessage(r)
  <2>1. /\ pc[r] = "saying" /\ pc'[r] = "reading" /\ UNCHANGED <<turn, held, events, meta>>
        /\ patch'[r] = "live" /\ \A q \in Request \ {r} : patch'[q] = patch[q]
    BY <1>4 DEF AppendMessage, Goto, TypeOK
  <2>2. Before(r) /\ Before(r)'
    BY <2>1 DEF Before, Unsaid, Setting
  <2>3. meta \in Meta /\ meta.turn + 1 = turn[r]
    BY <1>1, <2>1, <2>2 DEF Course
  <2>4. Course(r)'
    BY <2>1, <2>3 DEF Course
  <2> QED BY <2>1, <2>2, <2>3, <2>4, AtWork DEF Does
<1> QED BY <1>2, <1>3, <1>4

LEMMA ReadDoes ==
  ASSUME IsFiniteSet(Request), TypeOK, Courses, NEW r \in Request, ReadMeta(r)
  PROVE  Does(r)
<1>1. Course(r) /\ pc[r] = "reading" /\ UNCHANGED <<turn, patch, events, meta, failures>>
  BY DEF Courses, ReadMeta, Goto, fileVars
<1>2. Before(r) <=> patch[r] = "live"
  BY <1>1 DEF Before, Unsaid, Setting
<1>3. CASE Readable
  <2>1. pc'[r] = "opening" /\ held'[r] = Patched(r)
    BY <1>3 DEF ReadMeta, Goto, TypeOK
  <2>2. meta \in Meta /\ (patch[r] = "live" => meta.turn + 1 = turn[r])
    BY <1>1, <1>2, <1>3 DEF Readable, Course
  <2>3. patch[r] # "live" => Live(r) /\ meta.turn = turn[r]
    <3>1. patch[r] # "live" => Live(r)
      BY <1>1, <2>2, AtWork DEF Course, Status
    <3> QED BY <3>1 DEF Live
  <2>4. Patched(r) = [status |-> patch[r], turn |-> turn[r]]
    BY <2>2, <2>3 DEF Patched, Live
  <2>5. Before(r)' <=> patch[r] = "live"
    BY <1>1, <2>1 DEF Before, Unsaid, Setting
  <2>6. Course(r)'
    <3>1. (patch[r] # "live" => Live(r)') /\ patch[r] \in {"live", "done", "error"}
      BY <1>1, <2>3, AtWork DEF Live, Status
    <3>2. Before(r)' => meta' \in Meta /\ meta'.turn + 1 = turn'[r]
      BY <1>1, <2>2, <2>5
    <3> QED BY <1>1, <2>1, <2>4, <3>1, <3>2 DEF Course
  <2> QED BY <1>1, <1>2, <2>1, <2>2, <2>3, <2>5, <2>6, AtWork DEF Does
<1>4. CASE ~Readable
  <2>1. patch[r] = "error" /\ meta = Empty /\ failures > 0
    BY <1>1, <1>2, <1>4, AtWork DEF Readable, Course, Live, Status
  <2>2. pc'[r] = "finished"
    BY <1>4, <2>1 DEF ReadMeta, Goto, TypeOK, AfterSetMeta
  <2>3. failures' # 0
    BY <1>1, <2>1
  <2>4. Course(r)' /\ ~Before(r)' /\ ~Before(r)
    BY <1>2, <2>1, <2>2 DEF Course, Before, Unsaid, Setting
  <2> QED BY <1>1, <2>1, <2>2, <2>3, <2>4, AtWork DEF Does
<1> QED BY <1>3, <1>4

LEMMA WritesDoes ==
  ASSUME IsFiniteSet(Request), TypeOK, Courses, NEW r \in Request, OpenMeta(r) \/ WriteMeta(r)
  PROVE  Does(r)
<1>1. Course(r) /\ UNCHANGED <<turn, patch, held, events, failures>>
  BY DEF Courses, OpenMeta, WriteMeta
<1>2. pc[r] \in {"opening", "writing"} => (Before(r) <=> patch[r] = "live")
  BY DEF Before, Unsaid, Setting
<1>3. CASE OpenMeta(r)
  <2>1. pc[r] = "opening" /\ pc'[r] = "writing" /\ meta' = Empty
    BY <1>3 DEF OpenMeta, Goto, TypeOK
  <2>2. held[r] = [status |-> patch[r], turn |-> turn[r]]
    BY <1>1, <2>1 DEF Course
  <2>3. Course(r)'
    BY <1>1, <2>1, <2>2 DEF Course
  <2>4. Before(r)' <=> patch[r] = "live"
    BY <1>1, <2>1 DEF Before, Unsaid, Setting
  <2> QED BY <1>1, <1>2, <2>1, <2>3, <2>4, AtWork DEF Does
<1>4. CASE WriteMeta(r)
  <2>1. pc[r] = "writing" /\ pc'[r] = AfterSetMeta(r) /\ meta = Empty
        /\ held[r] = [status |-> patch[r], turn |-> turn[r]]
    BY <1>1, <1>4 DEF WriteMeta, Goto, TypeOK, Course
  <2>2. meta' = [status |-> patch[r], turn |-> turn[r]]
    BY <1>4, <2>1 DEF WriteMeta, Empty, Garbled
  <2>3. meta' \in Meta /\ meta'.turn = turn[r] /\ turn[r] <= turn[r]
    BY <2>2, AtWork
  <2>4. CASE patch[r] = "live"
    <3>1. pc'[r] = "streaming"
      BY <2>1, <2>4 DEF AfterSetMeta
    <3>2. Course(r)'
      BY <1>1, <2>2, <2>4, <3>1 DEF Course, Before, Unsaid, Setting, Live
    <3>3. ~Before(r)'
      BY <3>1 DEF Before, Unsaid, Setting
    <3> QED BY <1>1, <1>2, <2>1, <2>3, <2>4, <3>1, <3>2, <3>3, AtWork DEF Does
  <2>5. CASE patch[r] # "live"
    <3>1. pc'[r] = "finished"
      BY <2>1, <2>5 DEF AfterSetMeta
    <3>2. Course(r)' /\ ~Before(r)'
      BY <3>1 DEF Course, Before, Unsaid, Setting
    <3> QED BY <1>1, <1>2, <2>1, <2>2, <2>3, <2>5, <3>1, <3>2, AtWork DEF Does
  <2> QED BY <2>4, <2>5
<1> QED BY <1>3, <1>4

LEMMA LaterDoes ==
  ASSUME IsFiniteSet(Request), TypeOK, Courses, NEW r \in Request,
         EmitPart(r) \/ FinishStream(r) \/ AppendReply(r) \/ EmitEnd(r) \/ Throw(r)
  PROVE  Does(r)
<1>1. Course(r) /\ UNCHANGED <<turn, meta, held>> /\ patch[r] \in {"live", "done", "error"}
  BY AtWork
    DEF Courses, EmitPart, FinishStream, AppendReply, EmitEnd, Throw, fileVars, requestVars,
                Status
<1>2. Live(r) /\ ~Before(r)
  BY <1>1 DEF EmitPart, FinishStream, AppendReply, EmitEnd, Throw, Goto, Course, Before, Unsaid,
              Setting
<1>3. CASE EmitPart(r)
  <2>1. pc' = [pc EXCEPT ![r] = "streaming"] /\ patch' = [patch EXCEPT ![r] = patch[r]]
    BY <1>3 DEF EmitPart, requestVars, TypeOK
  <2> QED BY <1>1, <1>2, <2>1, QuietDoes
<1>4. CASE FinishStream(r) \/ AppendReply(r) \/ Throw(r)
  <2>1. patch' = [patch EXCEPT ![r] = patch[r]]
    BY <1>4 DEF FinishStream, AppendReply, Throw, TypeOK
  <2>2. PICK to \in {"replying", "ending", "erroring"} : pc' = [pc EXCEPT ![r] = to]
    BY <1>4 DEF FinishStream, AppendReply, Throw, Goto
  <2> QED BY <1>1, <1>2, <2>1, <2>2, QuietDoes
<1>5. CASE EmitEnd(r)
  BY <1>1, <1>2, <1>5, QuietDoes DEF EmitEnd, Goto
<1> QED BY <1>3, <1>4, <1>5

\* The catch block, also when a failed write left meta.json empty.
LEMMA ErrorDoes ==
  ASSUME IsFiniteSet(Request), TypeOK, Courses, NEW r \in Request, EmitError(r)
  PROVE  Does(r)
<1>1. /\ Course(r) /\ UNCHANGED <<turn, meta, held, failures>>
      /\ pc[r] = "erroring" /\ pc'[r] = "reading"
      /\ patch'[r] = "error" /\ \A q \in Request \ {r} : patch'[q] = patch[q]
  BY DEF Courses, EmitError, Goto, TypeOK
<1>2. ~Before(r) /\ ~Before(r)'
  BY <1>1 DEF Before, Unsaid, Setting
<1>3. Live(r) \/ (meta = Empty /\ failures > 0)
  BY <1>1 DEF Course
<1>4. Course(r)'
  BY <1>1, <1>3 DEF Course, Before, Unsaid, Setting, Live
<1>5. meta \in Meta => meta.turn = turn[r]
  BY <1>3, AtWork DEF Live
<1>6. meta # NoMeta
  BY <1>3, AtWork DEF Live, Status
<1> QED BY <1>1, <1>2, <1>4, <1>5, <1>6, AtWork DEF Does

LEMMA FailsDoes ==
  ASSUME IsFiniteSet(Request), TypeOK, Courses, NEW r \in Request, WriteFails(r)
  PROVE  Does(r)
<1>1. /\ Course(r) /\ UNCHANGED <<turn, patch, held, meta, events>>
      /\ failures' > 0 /\ failures' \in Nat
  <2>1. failures \in Nat /\ failures' = failures + 1
    BY BoundAssumption DEF WriteFails, TypeOK
  <2> QED BY <2>1 DEF Courses, WriteFails
<1>2. CASE /\ pc' = [pc EXCEPT ![r] = "refused"]
           /\ pc[r] = "saying" \/ (pc[r] \in {"creating", "opening", "writing"} /\ patch[r] = "live")
  <2>1. pc'[r] = "refused" /\ patch[r] = "live"
    BY <1>1, <1>2 DEF TypeOK, Course
  <2>2. Before(r) /\ ~Before(r)'
    BY <1>2, <2>1 DEF Before, Unsaid, Setting
  <2>3. Course(r)'
    BY <2>1, <2>2 DEF Course
  <2>4. meta # NoMeta
    BY <1>1, <1>2, <2>2, AtWork DEF Course
  <2> QED BY <1>1, <2>1, <2>2, <2>3, <2>4, AtWork DEF Does
<1>3. CASE patch[r] = "done" /\ Goto(r, "writing", "erroring")
  <2>1. pc[r] = "writing" /\ pc'[r] = "erroring" /\ meta = Empty
    BY <1>1, <1>3 DEF Goto, TypeOK, Course
  <2>2. ~Before(r) /\ ~Before(r)'
    BY <1>3, <2>1 DEF Before, Unsaid, Setting
  <2>3. Course(r)'
    BY <1>1, <2>1, <2>2 DEF Course
  <2> QED BY <1>1, <2>1, <2>2, <2>3, AtWork DEF Does
<1>4. CASE Goto(r, "replying", "erroring")
  <2>1. pc[r] = "replying" /\ pc'[r] = "erroring"
    BY <1>4 DEF Goto, TypeOK
  <2>2. Live(r) /\ ~Before(r) /\ ~Before(r)' /\ Live(r)'
    BY <1>1, <2>1 DEF Course, Before, Unsaid, Setting, Live
  <2>3. Course(r)'
    BY <1>1, <2>1, <2>2 DEF Course
  <2>4. meta \in Meta /\ meta.turn = turn[r] /\ turn[r] <= turn[r]
    BY <2>2, AtWork DEF Live, Status
  <2> QED BY <1>1, <2>1, <2>2, <2>3, <2>4, AtWork DEF Does
<1> QED BY <1>2, <1>3, <1>4 DEF WriteFails, Goto

LEMMA StepDoes ==
  ASSUME IsFiniteSet(Request), TypeOK, Courses, NEW r \in Request,
         Works(r)
  PROVE  Does(r)
BY EarlyDoes, ReadDoes, WritesDoes, LaterDoes, ErrorDoes, FailsDoes DEF Works, TurnStep

-----------------------------------------------------------------------------

\* What does not concern the requests.
LEMMA ChatAside ==
  ASSUME ChatInv, UNCHANGED <<pc, turn, patch, held, meta, events, failures>>
  PROVE  ChatInv'
<1>1. Alone'
  BY DEF ChatInv, Alone, Active
<1>2. Courses'
  BY DEF ChatInv, Courses, Course, Before, Unsaid, Setting, Live
<1>3. Numbered'
  BY DEF ChatInv, Numbered, Before, Unsaid, Setting, Spoke, Active, Readable, TurnsDistinct
<1>4. Told'
  BY DEF ChatInv, Told, Quiet
<1> QED BY <1>1, <1>2, <1>3, <1>4 DEF ChatInv

\* A request that is sent, while none is at work.
LEMMA ChatStart ==
  ASSUME IsFiniteSet(Request), TypeOK, TypeOK', ChatInv, NEW r \in Request,
         \A q \in Request : ~Active(q), CreateChat(r) \/ PostMessage(r)
  PROVE  ChatInv'
<1>1. /\ pc[r] = "idle" /\ pc'[r] \in {"creating", "loading", "refused"}
      /\ \A q \in Request \ {r} : pc'[q] = pc[q]
      /\ UNCHANGED <<patch, held, events, failures>>
  BY DEF CreateChat, PostMessage, Goto, TypeOK, fileVars
<1>2. \A q \in Request \ {r} : turn'[q] = turn[q] /\ ~Active(q)'
  BY <1>1 DEF CreateChat, PostMessage, TypeOK, Active
<1>3. Alone'
  BY <1>1, <1>2 DEF Alone
<1>4. Course(r) /\ patch[r] = "live" /\ turn[r] = -1 /\ Before(r) /\ ~Spoke(r)
  BY <1>1 DEF ChatInv, Courses, Course, Before, Unsaid, Numbered
<1>5. \A q \in Request : Spoke(q)' <=> Spoke(q)
  BY <1>1 DEF Spoke
<1>6. \A q \in Request \ {r} : Course(q)' /\ (Before(q)' => Before(q))
  <2>1. ASSUME NEW q \in Request \ {r} PROVE Course(q)' /\ (Before(q)' => Before(q))
    <3>1. Course(q) /\ ~Active(q) /\ pc'[q] = pc[q] /\ turn'[q] = turn[q] /\ patch'[q] = patch[q]
      BY <1>1, <1>2 DEF ChatInv, Courses
    <3> QED BY <3>1 DEF Course, Before, Unsaid, Setting, Active
  <2> QED BY <2>1
<1>7. \A i \in DOMAIN events : /\ events[i].by \in Request \ {r}
                               /\ events[i].turn = turn[events[i].by]
  <2>1. \A i \in DOMAIN events : events[i].by \in Request
    <3>1. events \in Seq(Event) /\ \A e \in Event : e.by \in Request
      BY DEF TypeOK, Event
    <3> QED BY <3>1
  <2> QED BY <1>4, <2>1 DEF ChatInv, Numbered, Spoke
<1>8. \A i \in DOMAIN events' : events'[i].turn = turn'[events'[i].by]
  BY <1>1, <1>2, <1>7
<1>9. TurnsDistinct'
  BY <1>1 DEF ChatInv, Numbered, TurnsDistinct
<1>10. ~Quiet'
  BY <1>1 DEF Quiet
<1>11. CASE CreateChat(r)
  <2>1. meta = NoMeta /\ meta' = Empty /\ turn' = turn /\ pc'[r] = "creating"
    BY <1>11 DEF CreateChat, Goto, TypeOK
  <2>2. \A q \in Request : ~Spoke(q)'
    BY <1>5, <2>1 DEF ChatInv, Numbered
  <2>3. Course(r)'
    BY <1>1, <1>4, <2>1 DEF Course
  <2>4. ~Readable' /\ meta' # NoMeta
    BY <2>1, AtWork DEF Readable
  <2>5. Numbered'
    BY <1>8, <1>9, <2>2, <2>4 DEF Numbered
  <2> QED BY <1>3, <1>6, <1>10, <2>3, <2>5 DEF ChatInv, Courses, Told
<1>12. CASE PostMessage(r)
  <2>1. /\ meta # NoMeta /\ meta' = meta
        /\ IF Readable THEN pc'[r] = "loading" /\ turn'[r] = meta.turn + 1
           ELSE pc'[r] = "refused" /\ turn'[r] = turn[r]
    BY <1>12 DEF PostMessage, Goto, TypeOK, fileVars
  <2>2. \A q \in Request : turn[q] \in Int /\ turn'[q] \in Int
    BY DEF TypeOK, Turn
  <2>3. Readable => meta.turn \in Int
    BY DEF Readable, Meta, Turn
  <2>4. Readable => \A q \in Request : Spoke(q) => turn[q] <= meta.turn
    BY DEF ChatInv, Numbered
  <2>5. Course(r)'
    BY <1>1, <1>4, <2>1 DEF Course, Before, Unsaid, Setting, Readable
  <2>6. \A q \in Request : Before(q)' => ~Spoke(q)'
    BY <1>4, <1>5, <1>6 DEF ChatInv, Numbered
  <2>7. \A p \in Request : Active(p)' =>
          \A q \in Request \ {p} : Spoke(q)' => turn'[q] < turn'[p]
    <3>1. ASSUME Active(r)', NEW q \in Request \ {r}, Spoke(q) PROVE turn[q] < turn'[r]
      <4>1. Readable
        BY <2>1, <3>1 DEF Active
      <4> QED BY <2>1, <2>2, <2>3, <2>4, <3>1, <4>1
    <3> QED BY <1>2, <1>5, <3>1
  <2>8. Readable' => \A q \in Request : Spoke(q)' => turn'[q] <= meta'.turn
    BY <1>2, <1>4, <1>5, <2>1, <2>4 DEF Readable
  <2>9. Numbered'
    BY <1>8, <1>9, <2>1, <2>6, <2>7, <2>8 DEF Numbered
  <2> QED BY <1>3, <1>6, <1>10, <2>5, <2>9 DEF ChatInv, Courses, Told
<1> QED BY <1>11, <1>12

LEMMA ChatStep ==
  ASSUME IsFiniteSet(Request), TypeOK, TypeOK', ChatInv, NEW r \in Request,
         Works(r)
  PROVE  ChatInv'
<1>1. Active(r) /\ Moves(r) /\ Logs(r) /\ Does(r)
  BY StepIsActive, StepMoves, StepLogs, StepDoes DEF ChatInv
<1>2. Alone'
  BY <1>1, OthersRest DEF ChatInv
<1> QED BY <1>1, <1>2, CoursesStep, NumberedStep, ToldStep DEF ChatInv

LEMMA ChatDies ==
  ASSUME TypeOK, ChatInv, Dies
  PROVE  ChatInv'
<1>1. /\ UNCHANGED <<turn, patch, held, meta, events>>
      /\ \A r \in Request : pc'[r] = IF pc[r] \in {"idle", "finished", "refused", "dead"}
                                     THEN pc[r] ELSE "dead"
  BY DEF Dies, Crash, CatchFails, Die, Over
<1>2. /\ \A r \in Request : ~Active(r)'
      /\ \A r \in Request : Before(r)' => pc[r] = "idle" /\ Before(r)
      /\ \A r \in Request : Spoke(r)' <=> Spoke(r)
  BY <1>1 DEF Active, Before, Unsaid, Setting, Spoke
<1>3. Courses'
  <2>1. ASSUME NEW r \in Request PROVE Course(r)'
    <3>1. Course(r)
      BY DEF ChatInv, Courses
    <3>2. pc'[r] \in {"idle", "finished", "refused", "dead"} /\ (pc'[r] = "idle" =>
            pc[r] = "idle")
      BY <1>1
    <3> QED BY <1>1, <3>1, <3>2 DEF Course, Before, Unsaid, Setting
  <2> QED BY <2>1 DEF Courses
<1>4. Numbered'
  <2>1. \A i \in DOMAIN events' : events'[i].turn = turn'[events'[i].by]
    BY <1>1 DEF ChatInv, Numbered
  <2>2. meta' = NoMeta => \A q \in Request : pc'[q] = "idle" /\ ~Spoke(q)'
    BY <1>1, <1>2 DEF ChatInv, Numbered
  <2>3. TurnsDistinct'
    BY <1>1 DEF ChatInv, Numbered, TurnsDistinct
  <2>4. Readable' => \A q \in Request : Spoke(q)' => turn'[q] <= meta'.turn
    BY <1>1, <1>2 DEF ChatInv, Numbered, Readable
  <2>5. \A r \in Request : Before(r)' => ~Spoke(r)'
    BY <1>2 DEF ChatInv, Numbered
  <2> QED BY <1>2, <2>1, <2>2, <2>3, <2>4, <2>5 DEF Numbered
<1>5. Told'
  <2>1. Quiet' => Quiet /\ \A r \in Request : pc'[r] = pc[r]
    BY <1>1 DEF Quiet
  <2>2. failures' = 0 => failures = 0
    BY BoundAssumption DEF Dies, Crash, CatchFails, TypeOK
  <2> QED BY <1>1, <2>1, <2>2 DEF ChatInv, Told
<1>6. Alone'
  BY <1>2 DEF Alone
<1> QED BY <1>3, <1>4, <1>5, <1>6 DEF ChatInv

LEMMA ChatNext ==
  ASSUME IsFiniteSet(Request), Patience = "finished", TypeOK, TypeOK', ChatInv, [Next]_vars
  PROVE  ChatInv'
<1>1. ASSUME NEW r \in Request, CreateChat(r) \/ PostMessage(r) PROVE ChatInv'
  BY <1>1, NoneActive, ChatStart DEF CreateChat, PostMessage
<1>2. ASSUME NEW r \in Request, Works(r) PROVE ChatInv'
  BY <1>2, ChatStep
<1>3. ASSUME NEW c \in Client, ClientStep(c) \/ \E t \in Turn : OpenStream(c, t) PROVE ChatInv'
  <2>1. UNCHANGED <<pc, turn, patch, held, meta, events, failures>>
    BY <1>3 DEF ClientStep, TailEvent, AnswerClient, OpenStream, Become, requestVars, fileVars
  <2> QED BY <2>1, ChatAside
<1>4. CASE UNCHANGED vars
  BY <1>4, ChatAside DEF vars, requestVars, fileVars
<1> QED BY <1>1, <1>2, <1>3, <1>4, ChatDies DEF Next, Works, Dies

LEMMA ChatInit == Init => ChatInv
<1> SUFFICES ASSUME Init PROVE ChatInv
  OBVIOUS
<1>1. \A r \in Request : ~Spoke(r) /\ ~Active(r) /\ pc[r] = "idle"
  BY DEF Init, Spoke, Active
<1>2. Courses
  BY <1>1 DEF Init, Courses, Course, Before, Unsaid, Setting
<1>3. Numbered
  BY <1>1 DEF Init, Numbered, TurnsDistinct, Readable
<1> QED BY <1>1, <1>2, <1>3 DEF ChatInv, Alone, Told

\* What the theorems ask of a chat: a user who waits for the answer, and no
\* end of requests.
Waits == IsFiniteSet(Request) /\ Patience = "finished"

\* What holds of the chat of a user who waits (createVein.ts 912-1085,
\* chat-store.ts).
THEOREM ChatInvariant ==
  ASSUME Waits
  PROVE  Spec => [](TypeOK /\ Counted /\ Tails /\ Transcript /\ ChatInv)
<1>1. Init => Tails /\ Transcript /\ ChatInv
  BY TailsInit, TranscriptInit, ChatInit
<1>2. TypeOK /\ TypeOK' /\ Tails /\ Transcript /\ ChatInv /\ [Next]_vars
        => (Tails /\ Transcript /\ ChatInv)'
  BY TailsNext, TranscriptNext, ChatNext DEF Waits, ChatInv
<1>3. Spec => [](TypeOK /\ Counted)
  BY ChatTyped DEF Waits
<1> QED BY <1>1, <1>2, <1>3, PTL DEF Spec

\* A chat is well formed, and no two requests of a user who waits get the same
\* turn number, over failed writes and restarts (createVein.ts 1008-1041).
THEOREM ChatWellFormedTheorem ==
  ASSUME Waits
  PROVE  Spec => []ChatWellFormed
<1>1. TypeOK /\ ChatInv => ChatWellFormed
  BY DEF ChatInv, Numbered, ChatWellFormed
<1> QED BY <1>1, ChatInvariant, PTL

\* The model is sent what messages.jsonl holds before the message, with nothing
\* left out and nothing twice (POST /chat, createVein.ts 1008-1041).
THEOREM ContextIsTranscriptTheorem ==
  ASSUME Waits
  PROVE  Spec => []ContextIsTranscript
<1>1. Transcript => ContextIsTranscript
  BY DEF Transcript
<1> QED BY <1>1, ChatInvariant, PTL

\* A stream that ended has passed on the turn up to its terminal event: no tail
\* stops at the end of another turn (the stream route, createVein.ts 1049-1085).
THEOREM StreamWholeTheorem ==
  ASSUME Waits
  PROVE  Spec => []StreamWhole
<1>1. TypeOK /\ Tails /\ ChatInv => StreamWhole
  <2> SUFFICES ASSUME TypeOK, Tails, ChatInv, NEW c \in Client, NEW r \in Request,
                      client[c].at \in {"reading", "answered"}, client[c].pos > 0,
                      client[c].turn = turn[r], NEW i \in DOMAIN events, events[i].by = r
               PROVE  \E k \in 1 .. client[c].pos : events[k].by = r /\ IsTerminal(events[k])
    BY DEF StreamWhole
  <2>1. client[c].pos \in 1 .. Len(events) /\ DOMAIN events = 1 .. Len(events)
    <3>1. client[c].pos \in Nat /\ events \in Seq(Event)
      BY DEF TypeOK, ClientState
    <3> QED BY <3>1 DEF Tails
  <2>2. /\ events[client[c].pos].turn = client[c].turn
        /\ IsTerminal(events[client[c].pos])
    BY DEF Tails
  <2>3. events[i].turn = turn[r]
    BY DEF ChatInv, Numbered
  <2>4. events[client[c].pos].by = r
    BY <2>1, <2>2, <2>3 DEF ChatInv, Numbered, TurnsDistinct
  <2>5. client[c].pos \in 1 .. client[c].pos
    BY <2>1
  <2> QED BY <2>2, <2>4, <2>5
<1> QED BY <1>1, ChatInvariant, PTL

\* When all is quiet and no write failed, meta.json tells the last turn that was
\* launched and what became of it (chat-store.ts 48, setMeta).
THEOREM MetaTellsLastTurnTheorem ==
  ASSUME Waits
  PROVE  Spec => []MetaTellsLastTurn
<1>1. ChatInv => MetaTellsLastTurn
  BY DEF ChatInv, Told, MetaTellsLastTurn
<1> QED BY <1>1, ChatInvariant, PTL

=============================================================================
