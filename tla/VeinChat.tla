------------------------------ MODULE VeinChat ------------------------------
(***************************************************************************)
(* One chat of a vein server: POST /chat, launchChatTurn and the stream    *)
(* route (vein/src/createVein.ts) over FileChatStore                       *)
(* (vein/src/chat-store.ts).                                               *)
(*                                                                         *)
(* Each request appends its message, takes the turn number after the one   *)
(* it read, marks the chat live, and launches a turn that goes on without  *)
(* it: it logs its parts, appends the reply, logs chat.end and marks the   *)
(* chat done.  setMeta reads meta.json and writes it back; the write       *)
(* truncates the file first, and a file that does not parse reads as null. *)
(*                                                                         *)
(* An append to messages.jsonl that is cut by a failure or by the death of *)
(* the server leaves a part of its line.  A file with a line that does not *)
(* parse, or that cannot be read, reads as no messages at all.  A throw    *)
(* in the catch block of a turn is handled by nobody: Node ends the        *)
(* process.                                                                *)
(*                                                                         *)
(* Abstracted: the agent (it streams some parts, and anything in a turn    *)
(* may throw), texts, titles, time stamps; a reply is one message, and an  *)
(* event is logged whole or not at all (VeinTail has the cut lines of a    *)
(* log).  Chats do not share state, so one is modelled.  Every await lies  *)
(* between two actions.                                                    *)
(***************************************************************************)
EXTENDS Integers, Sequences, FiniteSets

CONSTANTS
  Request, Client,
  Patience,   \* when the user sends the next message: "none" at any time,
              \* "terminal" once the turn logged its terminal event, "finished"
              \* once the turn is over and marked so
  MaxParts,   \* bound: parts that the agents stream, in all
  MaxFailures,  \* bound: writes that fail (outside what a turn may throw)
  MaxCrashes    \* bound: times the server dies

ASSUME PatienceAssumption == Patience \in {"none", "terminal", "finished"}
ASSUME BoundAssumption ==
  MaxParts \in Nat /\ MaxFailures \in Nat /\ MaxCrashes \in Nat

VARIABLES
  pc,        \* where each request, then its turn, is
  turn,      \* its turn number
  prior,     \* the messages it loaded, to be sent to the model
  misread,   \* history: the requests that could not read messages.jsonl
  patch,     \* the status its setMeta is to record
  held,      \* the meta.json its setMeta is about to write
  meta,      \* meta.json
  messages,  \* messages.jsonl, without the lines that were cut
  torn,      \* how many messages it held when a line of it was spoilt, or Whole
  open,      \* its last line parses, but lacks its newline
  events,    \* events.jsonl
  client,    \* what each client that streams is doing
  failures, crashes

given       == <<prior, misread>>
requestVars == <<pc, turn, given, patch, held>>
transcript  == <<messages, torn, open>>
fileVars    == <<meta, transcript, events>>
vars        == <<requestVars, fileVars, client, failures, crashes>>

Turn     == -1 .. Cardinality(Request)
Status   == {"live", "done", "error"}
Meta     == [status : Status, turn : Turn]
NoMeta   == [status |-> "absent", turn |-> -1]
\* A file that was truncated, or written over a longer text without being so.
Empty    == [status |-> "empty", turn |-> -1]
Garbled  == [status |-> "garbled", turn |-> -1]
Whole    == -1
Message  == [by : Request, role : {"user", "assistant"}]
Event    == [by : Request, turn : Turn, type : {"part", "chat.end", "chat.error"}]

Pc == {"idle", "creating", "loading", "saying", "reading", "opening", "writing",
       "streaming", "replying", "ending", "erroring", "finished", "refused", "dead"}

ClientState ==
  [at : {"idle", "tailing", "reading", "answered"}, turn : Turn, pos : Nat,
   answer : Status \cup {"none"}]

TypeOK ==
  /\ pc \in [Request -> Pc]
  /\ turn \in [Request -> Turn]
  /\ prior \in [Request -> Seq(Message)]
  /\ misread \subseteq Request
  /\ patch \in [Request -> Status]
  /\ held \in [Request -> Meta \cup {NoMeta}]
  /\ meta \in Meta \cup {NoMeta, Empty, Garbled}
  /\ messages \in Seq(Message)
  /\ torn \in Nat \cup {Whole}
  /\ open \in BOOLEAN
  /\ events \in Seq(Event)
  /\ client \in [Client -> ClientState]
  /\ failures \in 0 .. MaxFailures
  /\ crashes \in 0 .. MaxCrashes

IsTerminal(e) == e.type \in {"chat.end", "chat.error"}

Goto(r, from, to) == pc[r] = from /\ pc' = [pc EXCEPT ![r] = to]

\* getMeta returns it, and not null.
Readable == meta \in Meta

Over(r) == pc[r] \in {"finished", "refused", "dead"}

\* r appends to messages.jsonl, and what.
Appending(r) == pc[r] \in {"saying", "replying"}
Line(r) == [by |-> r, role |-> IF pc[r] = "saying" THEN "user" ELSE "assistant"]

\* The turn of r logged its terminal event, or died.
Ended(r) == Over(r) \/ \E i \in DOMAIN events : events[i].by = r /\ IsTerminal(events[i])

\* The user is willing to send a message.
MaySend ==
  \A r \in Request :
    \/ pc[r] = "idle"
    \/ Patience = "none"
    \/ Patience = "terminal" /\ Ended(r)
    \/ Patience = "finished" /\ Over(r)

-----------------------------------------------------------------------------
(* POST /chat.                                                             *)

\* Without a chat id: createChat, whose writeFile truncates first.
CreateChat(r) ==
  /\ MaySend
  /\ meta = NoMeta
  /\ Goto(r, "idle", "creating")
  /\ meta' = Empty
  /\ UNCHANGED <<turn, given, patch, held, transcript, events, client, failures, crashes>>

WriteNewMeta(r) ==
  /\ Goto(r, "creating", "loading")
  /\ meta' = [status |-> "live", turn |-> -1]
  /\ turn' = [turn EXCEPT ![r] = 0]
  /\ UNCHANGED <<given, patch, held, transcript, events, client, failures, crashes>>

\* With a chat id: the turn number comes from the meta read here.
PostMessage(r) ==
  /\ MaySend
  /\ meta # NoMeta
  /\ Goto(r, "idle", IF Readable THEN "loading" ELSE "refused")
  /\ turn' = [turn EXCEPT ![r] = IF Readable THEN meta.turn + 1 ELSE @]
  /\ UNCHANGED <<given, patch, held, fileVars, client, failures, crashes>>

\* appendMessages.  A line that follows one without newline makes one line with
\* it, and no text of two objects parses.
Store(r) ==
  /\ messages' = Append(messages, Line(r))
  /\ torn' = IF torn = Whole /\ open THEN Len(messages) + 1 ELSE torn
  /\ open' = FALSE

\* The same, cut: nothing was written, or all, or a part, or all but the newline.
Cut(r) ==
  \/ UNCHANGED transcript
  \/ Store(r)
  \/ /\ torn = Whole
     /\ torn' = Len(messages)
     /\ open' = FALSE
     /\ UNCHANGED messages
  \/ /\ torn = Whole /\ ~open
     /\ messages' = Append(messages, Line(r))
     /\ open' = TRUE
     /\ UNCHANGED torn

\* What messages.jsonl reads as.
Parsed == IF torn = Whole THEN messages ELSE <<>>

\* Mutant: the message is appended before the others are loaded.
MutLoadMessagesWithOwn(r) ==
  /\ Goto(r, "loading", "saying")
  /\ prior' = [prior EXCEPT ![r] = Append(Parsed, [by |-> r, role |-> "user"])]
  /\ UNCHANGED <<turn, misread, patch, held, fileVars, client, failures, crashes>>

LoadMessages(r) ==
  /\ Goto(r, "loading", "saying")
  /\ prior' = [prior EXCEPT ![r] = Parsed]
  /\ UNCHANGED <<turn, misread, patch, held, fileVars, client, failures, crashes>>

\* The file cannot be read, or another request is writing a line of it.
LoadNothing(r) ==
  /\ Goto(r, "loading", "saying")
  /\ prior' = [prior EXCEPT ![r] = <<>>]
  /\ misread' = misread \cup {r}
  /\ \/ failures < MaxFailures /\ failures' = failures + 1
     \/ (\E q \in Request : Appending(q)) /\ UNCHANGED failures
  /\ UNCHANGED <<turn, patch, held, fileVars, client, crashes>>

\* The message is stored; setMeta({status: live, currentTurn}) begins.
AppendMessage(r) ==
  /\ Goto(r, "saying", "reading")
  /\ Store(r)
  /\ patch' = [patch EXCEPT ![r] = "live"]
  /\ UNCHANGED <<turn, given, held, meta, events, client, failures, crashes>>

-----------------------------------------------------------------------------
(* setMeta, then what its caller does next.                                *)

AfterSetMeta(r) == IF patch[r] = "live" THEN "streaming" ELSE "finished"

\* Mutants: the new turn number is not recorded; an error is never cleared.
MutPatchedWithoutTurn(r) == [meta EXCEPT !.status = patch[r]]
MutPatchedErrorSticks(r) ==
  [status |-> IF meta.status = "error" THEN "error" ELSE patch[r],
   turn   |-> IF patch[r] = "live" THEN turn[r] ELSE meta.turn]

Patched(r) ==
  IF patch[r] = "live" THEN [status |-> "live", turn |-> turn[r]]
  ELSE [meta EXCEPT !.status = patch[r]]

\* A meta.json that reads as null is left alone.
ReadMeta(r) ==
  /\ Goto(r, "reading", IF Readable THEN "opening" ELSE AfterSetMeta(r))
  /\ held' = [held EXCEPT ![r] = IF Readable THEN Patched(r) ELSE @]
  /\ UNCHANGED <<turn, given, patch, fileVars, client, failures, crashes>>

OpenMeta(r) ==
  /\ Goto(r, "opening", "writing")
  /\ meta' = Empty
  /\ UNCHANGED <<turn, given, patch, held, transcript, events, client, failures, crashes>>

\* Another setMeta may have written since this one truncated the file.  Then the
\* text is written over the other one, of which the end remains if it is longer.
WriteMeta(r) ==
  /\ Goto(r, "writing", AfterSetMeta(r))
  /\ meta' = IF meta = Garbled \/ (meta.status = "error" /\ patch[r] # "error")
             THEN Garbled ELSE held[r]
  /\ UNCHANGED <<turn, given, patch, held, transcript, events, client, failures, crashes>>

-----------------------------------------------------------------------------
(* launchChatTurn.                                                         *)

Emit(r, type) == events' = Append(events, [by |-> r, turn |-> turn[r], type |-> type])

Parts == Cardinality({ i \in DOMAIN events : events[i].type = "part" })

EmitPart(r) ==
  /\ pc[r] = "streaming"
  /\ Parts < MaxParts
  /\ Emit(r, "part")
  /\ UNCHANGED <<requestVars, meta, transcript, client, failures, crashes>>

FinishStream(r) ==
  /\ Goto(r, "streaming", "replying")
  /\ UNCHANGED <<turn, given, patch, held, fileVars, client, failures, crashes>>

AppendReply(r) ==
  /\ Goto(r, "replying", "ending")
  /\ Store(r)
  /\ UNCHANGED <<turn, given, patch, held, meta, events, client, failures, crashes>>

\* chat.end; setMeta({status: done}) begins.
EmitEnd(r) ==
  /\ Goto(r, "ending", "reading")
  /\ Emit(r, "chat.end")
  /\ patch' = [patch EXCEPT ![r] = "done"]
  /\ UNCHANGED <<turn, given, held, meta, transcript, client, failures, crashes>>

\* Anything in the try block throws: the agent, an append, opening meta.json.
Throw(r) ==
  /\ \/ pc[r] \in {"streaming", "replying", "ending"}
     \/ pc[r] = "opening" /\ patch[r] = "done"
  /\ pc' = [pc EXCEPT ![r] = "erroring"]
  /\ UNCHANGED <<turn, given, patch, held, fileVars, client, failures, crashes>>

\* A write fails in the handler of POST /chat (it answers 500 and launches
\* nothing), in the append of the reply, or after meta.json was truncated.
WriteFails(r) ==
  /\ failures < MaxFailures
  /\ failures' = failures + 1
  /\ \/ /\ pc[r] \in {"creating", "opening", "writing"}
        /\ patch[r] = "live"
        /\ pc' = [pc EXCEPT ![r] = "refused"]
        /\ UNCHANGED transcript
     \/ Goto(r, "saying", "refused") /\ Cut(r)
     \/ Goto(r, "replying", "erroring") /\ Cut(r)
     \/ /\ patch[r] = "done"
        /\ Goto(r, "writing", "erroring")
        /\ UNCHANGED transcript
  /\ UNCHANGED <<turn, given, patch, held, meta, events, client, crashes>>

\* Mutant: a turn that fails just ends, nothing is logged.
MutEmitErrorSilent(r) ==
  /\ Goto(r, "erroring", "reading")
  /\ patch' = [patch EXCEPT ![r] = "error"]
  /\ UNCHANGED <<turn, given, held, fileVars, client, failures, crashes>>

\* The catch block: chat.error; setMeta({status: error}) begins.
EmitError(r) ==
  /\ Goto(r, "erroring", "reading")
  /\ Emit(r, "chat.error")
  /\ patch' = [patch EXCEPT ![r] = "error"]
  /\ UNCHANGED <<turn, given, held, meta, transcript, client, failures, crashes>>

\* The server dies and comes back.  Nothing resumes or closes the open turns.
Die ==
  /\ pc' = [r \in Request |-> IF pc[r] = "idle" \/ Over(r) THEN pc[r] ELSE "dead"]
  /\ client' = [c \in Client |-> IF client[c].at = "answered" THEN client[c]
                                 ELSE [client[c] EXCEPT !.at = "idle", !.pos = 0]]
  /\ UNCHANGED transcript \/ \E r \in Request : Appending(r) /\ Cut(r)
  /\ UNCHANGED <<turn, given, patch, held, meta, events>>

\* The catch block throws: the cause that failed the turn lasts.
CatchFails(r) ==
  /\ failures < MaxFailures
  /\ failures' = failures + 1
  /\ pc[r] = "erroring" \/ (pc[r] \in {"opening", "writing"} /\ patch[r] = "error")
  /\ Die
  /\ UNCHANGED crashes

TurnStep(r) ==
  \/ WriteNewMeta(r)
  \/ LoadMessages(r)
  \/ AppendMessage(r)
  \/ ReadMeta(r)
  \/ OpenMeta(r)
  \/ WriteMeta(r)
  \/ EmitPart(r)
  \/ FinishStream(r)
  \/ AppendReply(r)
  \/ EmitEnd(r)
  \/ EmitError(r)

-----------------------------------------------------------------------------
(* GET /chat/:id/stream.                                                   *)

Become(c, state) ==
  /\ client' = [client EXCEPT ![c] = state]
  /\ UNCHANGED <<requestVars, fileVars, failures, crashes>>

\* The turn the client asks for, or the current one.  A turn that is not there
\* is answered at once.
OpenStream(c, t) ==
  /\ client[c].at = "idle"
  /\ Readable
  /\ Become(c, IF t \in 0 .. meta.turn
                 THEN [client[c] EXCEPT !.at = "tailing", !.turn = t]
                 ELSE [client[c] EXCEPT !.at = "answered", !.turn = t, !.answer = meta.status])

\* Mutant: the tail stops at the terminal event of any turn.
MutTailAnyTerminal(c) ==
  /\ client[c].at = "tailing"
  /\ client[c].pos < Len(events)
  /\ Become(c, [client[c] EXCEPT !.pos = @ + 1,
                  !.at = IF IsTerminal(events[client[c].pos + 1]) THEN "reading" ELSE @])

\* The next event is passed on if it is one of this turn, and ends the tail if
\* it is the turn's terminal one.
TailEvent(c) ==
  /\ client[c].at = "tailing"
  /\ client[c].pos < Len(events)
  /\ LET e == events[client[c].pos + 1]
     IN  Become(c, [client[c] EXCEPT !.pos = @ + 1,
                      !.at = IF e.turn = client[c].turn /\ IsTerminal(e) THEN "reading" ELSE @])

\* The `done` frame.
AnswerClient(c) ==
  /\ client[c].at = "reading"
  /\ Become(c, [client[c] EXCEPT !.at = "answered",
                  !.answer = IF Readable THEN meta.status ELSE "done"])

ClientStep(c) == TailEvent(c) \/ AnswerClient(c)

-----------------------------------------------------------------------------

Crash ==
  /\ crashes < MaxCrashes
  /\ crashes' = crashes + 1
  /\ Die
  /\ UNCHANGED failures

Init ==
  /\ pc = [r \in Request |-> "idle"]
  /\ turn = [r \in Request |-> -1]
  /\ prior = [r \in Request |-> <<>>]
  /\ misread = {}
  /\ patch = [r \in Request |-> "live"]
  /\ held = [r \in Request |-> NoMeta]
  /\ meta = NoMeta
  /\ messages = <<>>
  /\ torn = Whole
  /\ open = FALSE
  /\ events = <<>>
  /\ client = [c \in Client |-> [at |-> "idle", turn |-> -1, pos |-> 0, answer |-> "none"]]
  /\ failures = 0
  /\ crashes = 0

Next ==
  \/ \E r \in Request : CreateChat(r) \/ PostMessage(r) \/ TurnStep(r) \/ Throw(r)
                         \/ LoadNothing(r) \/ WriteFails(r) \/ CatchFails(r)
  \/ \E c \in Client : ClientStep(c) \/ \E t \in Turn : OpenStream(c, t)
  \/ Crash

Spec == Init /\ [][Next]_vars

\* Requests and turns run on (the agent's steps are limited), tails poll.
\* Nobody has to send a message or to ask for a stream.
Fairness ==
  /\ \A r \in Request : WF_vars(TurnStep(r))
  /\ \A c \in Client : WF_vars(ClientStep(c))

FairSpec == Spec /\ Fairness

-----------------------------------------------------------------------------
(* Safety.                                                                 *)

\* A turn number belongs to one request: the tail, which filters by it, never
\* mixes the events of two.
TurnsDistinct ==
  \A i, k \in DOMAIN events : events[i].turn = events[k].turn => events[i].by = events[k].by

\* What the model is sent is what the transcript says: all that was said before
\* the message, and the message.  Never a part of it: where a line was spoilt
\* before, or the file could not be read, it is sent the message alone.
ContextIsTranscript ==
  \A r \in Request : \A i \in DOMAIN messages :
    messages[i] = [by |-> r, role |-> "user"] =>
      prior[r] = IF r \in misread \/ (torn # Whole /\ torn < i) THEN <<>>
                 ELSE SubSeq(messages, 1, i - 1)

\* A stream that ended has passed on everything up to the end of the turn.
StreamWhole ==
  \A c \in Client, r \in Request :
    /\ client[c].at \in {"reading", "answered"}
    /\ client[c].pos > 0
    /\ client[c].turn = turn[r]
    /\ \E i \in DOMAIN events : events[i].by = r
    => \E i \in 1 .. client[c].pos : events[i].by = r /\ IsTerminal(events[i])

\* Nobody is at work, and nobody died at work.
Quiet == \A r \in Request : pc[r] \in {"idle", "finished"}

\* "Index of the most recently launched turn" (chat-store.ts:48), and what
\* became of it.
MetaTellsLastTurn ==
  Quiet /\ failures = 0 => \A r \in Request :
    pc[r] = "finished" /\ (\A q \in Request : turn[q] <= turn[r]) =>
      meta = [status |-> patch[r], turn |-> turn[r]]

=============================================================================
