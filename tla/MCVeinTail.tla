----------------------------- MODULE MCVeinTail -----------------------------
(***************************************************************************)
(* Small logs for VeinTail.                                                *)
(***************************************************************************)
EXTENDS VeinTail

Whole(line) == <<line>>

Plain    == Whole(<<"{", "a", "}", "nl">>)
Accented == Whole(<<"{", "c1", "c2", "}", "nl">>)
Final    == Whole(<<"{", "t", "}", "nl">>)
Large    == <<<<"{", "a">>, <<"}", "nl">>>>

\* Two steps write side by side, one of them is the last of its run.
Small == { ("w1" :> <<p, Final>>) @@ ("w2" :> <<Plain>>) : p \in {Plain, Accented} }

\* Lines above 512 KB.
Big == { ("w1" :> <<Large>>) @@ ("w2" :> <<Large>>) }

SmallAndBig == Small \cup Big

MaxLines == 3

\* A reader of a log that holds a terminal event gets every event up to it, one
\* of a log that does not gets all there is, even when writers stop in mid-line.
ReaderCatchesUp ==
  \A n \in 1 .. MaxLines : at # "failed" /\ Len(UpToTerminal(Log)) >= n
                             ~> at = "failed" \/ Len(delivered) >= n

\* The reader is well formed and implements LogTail (store.ts 28-79).
TailPromised == []TypeOK /\ TailSpec

=============================================================================
