------------------------------ MODULE LogTail ------------------------------
(***************************************************************************)
(* What tailJsonl (vein/src/store.ts) promises to a reader of a log: the   *)
(* events of the log, in order and from the first one, each as it was      *)
(* written, up to and including the first terminal event.                  *)
(*                                                                         *)
(* VeinTail, which reads bytes, implements it for some logs; the streams   *)
(* of VeinRun are readers of this kind.                                    *)
(***************************************************************************)
EXTENDS Integers, Sequences

CONSTANTS
  Event,     \* what a line of the log can hold
  IsTerminal(_)

VARIABLES log, delivered, returned

tailVars == <<log, delivered, returned>>

Init ==
  /\ log = <<>>
  /\ delivered = <<>>
  /\ returned = FALSE

\* Producers may go on after a terminal event and after the reader returned.
Write ==
  /\ Len(log') = Len(log) + 1
  /\ SubSeq(log', 1, Len(log)) = log
  /\ log'[Len(log')] \in Event
  /\ UNCHANGED <<delivered, returned>>

Deliver ==
  /\ ~returned
  /\ Len(delivered) < Len(log)
  /\ LET e == log[Len(delivered) + 1]
     IN  /\ delivered' = Append(delivered, e)
         /\ returned' = IsTerminal(e)
  /\ UNCHANGED log

Next == Write \/ Deliver

Spec == Init /\ [][Next]_tailVars

=============================================================================
