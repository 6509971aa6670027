------------------------------ MODULE VeinTail ------------------------------
(***************************************************************************)
(* The append-only JSONL logs of vein byte by byte: the appends of the     *)
(* stores (vein/src/store.ts, vein/src/chat-store.ts) and the reader that  *)
(* follows them, tailJsonl.                                                *)
(*                                                                         *)
(* A line is one event.  appendFile writes it in pieces of 512 KB, and     *)
(* only the bytes of one piece stay together when several writers append;  *)
(* a reader may see any part of a piece.  Bytes: "{" and "}" stand for the *)
(* beginning and the end of the JSON text, "t" for what marks a terminal   *)
(* event, "c1" "c2" for the two bytes of one character, "nl" for the       *)
(* newline.  Text is written like its bytes; a half of a character that    *)
(* is decoded without the other becomes U+FFFD, "bad".                     *)
(***************************************************************************)
EXTENDS Integers, Sequences, FiniteSets, SequencesExt

CONSTANTS
  Writer,  \* those who append to the log: steps of one run, or turns of a chat
  Scripts  \* the lines each writer may have to append, one after the other, in pieces

Byte == {"{", "}", "a", "t", "c1", "c2", "nl"}

ASSUME ScriptAssumption == \A s \in Scripts : s \in [Writer -> Seq(Seq(Seq(Byte)))]

VARIABLES
  file,       \* the bytes of events.jsonl
  todo,       \* what each writer still has to write, the piece in progress first
  holder,     \* the writer in the middle of a piece, {} between pieces
  offset, leftover,  \* the reader's place in the file, and its incomplete line
  pending,    \* the complete lines it has not yielded yet
  delivered,  \* the events it has yielded
  at          \* "polling", "returned", or "failed" when JSON.parse threw

writerVars == <<file, todo, holder>>
readerVars == <<offset, leftover, pending, delivered, at>>
vars       == <<writerVars, readerVars>>

TypeOK ==
  /\ file \in Seq(Byte)
  /\ holder \in SUBSET Writer
  /\ offset \in 0 .. Len(file)
  /\ "nl" \notin Range(leftover)
  /\ at \in {"polling", "returned", "failed"}

-----------------------------------------------------------------------------
(* Text.                                                                   *)

\* What byte i of a chunk contributes to its decoding.
Character(bytes, i) ==
  IF \/ bytes[i] = "c1" /\ (i = Len(bytes) \/ bytes[i + 1] # "c2")
     \/ bytes[i] = "c2" /\ (i = 1 \/ bytes[i - 1] # "c1")
  THEN "bad" ELSE bytes[i]

Decode(bytes) == [i \in 1 .. Len(bytes) |-> Character(bytes, i)]

Newlines(text) == { i \in 1 .. Len(text) : text[i] = "nl" }
LastNewline(text) == IF Newlines(text) = {} THEN 0 ELSE Max(Newlines(text))

\* The non-empty lines of a text, without what follows the last newline.
CompleteLines(text) ==
  LET NewlineAt(k) == IF k = 0 THEN 0
                      ELSE CHOOSE i \in Newlines(text) :
                             Cardinality({ j \in Newlines(text) : j <= i }) = k
      lines == [k \in 1 .. Cardinality(Newlines(text)) |->
                  SubSeq(text, NewlineAt(k - 1) + 1, NewlineAt(k) - 1)]
  IN  SelectSeq(lines, LAMBDA l : l # <<>>)

\* JSON.parse accepts it: one object, from its first character to its last.
Parses(line) ==
  /\ line[1] = "{" /\ line[Len(line)] = "}"
  /\ \A i \in 2 .. Len(line) - 1 : line[i] \notin {"{", "}"}

Terminal(line) == "t" \in Range(line)

-----------------------------------------------------------------------------
(* Writers.                                                                *)

\* The bytes of the current piece that are not in the file yet.
Piece(w) == todo[w][1][1]

\* The next part of a piece reaches the file.  When the piece is done the next
\* write begins with the next piece of the line, or with the next line.
AppendPart(w) ==
  /\ todo[w] # <<>>
  /\ holder \subseteq {w}
  /\ \E n \in 1 .. Len(Piece(w)) :
       LET rest == SubSeq(Piece(w), n + 1, Len(Piece(w)))
           line == IF rest # <<>> THEN <<rest>> \o Tail(todo[w][1]) ELSE Tail(todo[w][1])
       IN  /\ file' = file \o SubSeq(Piece(w), 1, n)
           /\ holder' = IF rest # <<>> THEN {w} ELSE {}
           /\ todo' = [todo EXCEPT ![w] = IF line # <<>> THEN <<line>> \o Tail(@) ELSE Tail(@)]
  /\ UNCHANGED readerVars

-----------------------------------------------------------------------------
(* The reader.                                                             *)

\* Mutant: what follows the last newline is dropped.
MutPollDropsPartial ==
  /\ at = "polling"
  /\ pending = <<>>
  /\ offset < Len(file)
  /\ LET text == leftover \o Decode(SubSeq(file, offset + 1, Len(file)))
     IN  /\ pending' = CompleteLines(text)
         /\ leftover' = <<>>
  /\ offset' = Len(file)
  /\ UNCHANGED <<writerVars, delivered, at>>

\* One turn of the loop: stat, read up to that size, decode, split.
Poll ==
  /\ at = "polling"
  /\ pending = <<>>
  /\ offset < Len(file)
  /\ LET text == leftover \o Decode(SubSeq(file, offset + 1, Len(file)))
     IN  /\ pending' = CompleteLines(text)
         /\ leftover' = SubSeq(text, LastNewline(text) + 1, Len(text))
  /\ offset' = Len(file)
  /\ UNCHANGED <<writerVars, delivered, at>>

\* Mutant: the generator returns at a terminal event without yielding it.
MutYieldReturnsFirst ==
  /\ at = "polling"
  /\ pending # <<>>
  /\ pending' = Tail(pending)
  /\ IF Terminal(Head(pending))
       THEN at' = "returned" /\ UNCHANGED delivered
       ELSE delivered' = Append(delivered, Head(pending)) /\ UNCHANGED at
  /\ UNCHANGED <<writerVars, offset, leftover>>

Yield ==
  /\ at = "polling"
  /\ pending # <<>>
  /\ Parses(Head(pending))
  /\ pending' = Tail(pending)
  /\ delivered' = Append(delivered, Head(pending))
  /\ at' = IF Terminal(Head(pending)) THEN "returned" ELSE at
  /\ UNCHANGED <<writerVars, offset, leftover>>

\* JSON.parse throws, and so does the generator.
Fail ==
  /\ at = "polling"
  /\ pending # <<>>
  /\ ~Parses(Head(pending))
  /\ at' = "failed"
  /\ UNCHANGED <<writerVars, offset, leftover, pending, delivered>>

Init ==
  /\ file = <<>>
  /\ todo \in Scripts
  /\ holder = {}
  /\ offset = 0
  /\ leftover = <<>>
  /\ pending = <<>>
  /\ delivered = <<>>
  /\ at = "polling"

Next ==
  \/ \E w \in Writer : AppendPart(w)
  \/ Poll
  \/ Yield
  \/ Fail

Spec == Init /\ [][Next]_vars

\* The reader polls for ever, and what is ready to be yielded is taken.  A
\* writer may stop anywhere, also in the middle of a line.
Fairness == WF_vars(Poll) /\ WF_vars(Yield) /\ WF_vars(Fail)

FairSpec == Spec /\ Fairness

-----------------------------------------------------------------------------
(* Properties.                                                             *)

Log == CompleteLines(Decode(file))

\* Events up to the first terminal one.
UpToTerminal(lines) ==
  LET ends == { i \in 1 .. Len(lines) : Terminal(lines[i]) }
  IN  IF ends = {} THEN lines ELSE SubSeq(lines, 1, Min(ends))

\* A line without its two-byte characters: what is sure to arrive of it.
Legible(line) == [i \in 1 .. Len(line) |-> IF line[i] \in {"c1", "c2"} THEN "bad" ELSE line[i]]
LegibleLines(lines) == [i \in 1 .. Len(lines) |-> Legible(lines[i])]

Promised == INSTANCE LogTail
              WITH Event <- Seq(Byte \cup {"bad"}), IsTerminal <- Terminal,
                   log <- LegibleLines(Log), delivered <- LegibleLines(delivered),
                   returned <- at = "returned"

\* Wherever it cuts the file, the reader delivers what LogTail promises: it
\* loses no line, splits none and repeats none, and no character but those that
\* take two bytes.
TailSpec == Promised!Spec

=============================================================================
