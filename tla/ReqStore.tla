------------------------------ MODULE ReqStore ------------------------------
(***************************************************************************)
(* The request store of the mcp server, mcp/src/graph/reqs.ts: one file    *)
(* per request, and an index of them in memory for eviction.               *)
(*                                                                         *)
(* Every function of the code is synchronous; here it is an operator from  *)
(* the store before it to the store after it.  Abstracted: results and     *)
(* error texts.  Of a failed request the file tells whether it may be      *)
(* retried ("orphaned") or not ("failed").  The time of a file's last      *)
(* write is its `age`, the steps that wrote to disk since; files written   *)
(* in one step may have the same mtime.  The two sweeps, loops over the    *)
(* index or the files in the code, are given by what they leave.           *)
(* `failing` are the requests whose writes fail (writeToDisk swallows the  *)
(* error).                                                                 *)
(***************************************************************************)
EXTENDS Integers, Sequences, FiniteSets, SequencesExt

CONSTANTS Req, MaxReqs

\* MAX_REQS falls back to 100 when it is unset, zero or not a number.
ASSUME MaxReqsAssumption == MaxReqs \in Nat \ {0}

Verdict == {"completed", "failed", "orphaned"}
OnDisk  == {"none", "pending", "torn"} \cup Verdict
Indexed == {"none", "pending", "completed", "failed"}

Store == [file : [Req -> OnDisk], age : [Req -> Nat], meta : [Req -> Indexed],
          order : Seq(Req)]

EmptyStore ==
  [file |-> [r \in Req |-> "none"], age |-> [r \in Req |-> 0],
   meta |-> [r \in Req |-> "none"], order |-> <<>>]

MetaOf(status) == IF status = "orphaned" THEN "failed" ELSE status

WriteToDisk(s, reqs, status) ==
  IF reqs = {} THEN s
  ELSE [s EXCEPT
          !.file = [r \in Req |-> IF r \in reqs THEN status ELSE @[r]],
          !.age  = [r \in Req |-> IF r \in reqs \/ s.file[r] = "none" THEN 0 ELSE @[r] + 1]]

\* The entries of the index that are over, by their places.
Ended(s) == { i \in DOMAIN s.order : s.meta[s.order[i]] # "pending" }

\* Mutants: the file stays; the oldest entry goes, whatever its status.
MutEvictKeepsFile(s) ==
  LET i == Min(Ended(s))
  IN  IF Ended(s) = {} THEN s
      ELSE [s EXCEPT !.order = RemoveAt(@, i), !.meta[s.order[i]] = "none"]

MutEvictOldest(s) ==
  [s EXCEPT !.order = Tail(@), !.meta[s.order[1]] = "none", !.file[s.order[1]] = "none"]

\* The oldest entry that is not pending, and its file; the registry grows rather
\* than drop a live run.
EvictOldestCompleted(s) ==
  LET i == Min(Ended(s))
  IN  IF Ended(s) = {} THEN s
      ELSE [s EXCEPT !.order = RemoveAt(@, i),
                     !.meta[s.order[i]] = "none", !.file[s.order[i]] = "none"]

StartReq(s, r, failing) ==
  LET room == IF Len(s.order) >= MaxReqs THEN EvictOldestCompleted(s) ELSE s
  IN  WriteToDisk([room EXCEPT !.meta[r] = "pending", !.order = Append(@, r)],
                  {r} \ failing, "pending")

\* finishReq and failReq: to disk in any case, to the index if it is there.
EndReq(s, r, verdict, failing) ==
  WriteToDisk(IF s.meta[r] = "none" THEN s ELSE [s EXCEPT !.meta[r] = MetaOf(verdict)],
              {r} \ failing, verdict)

\* failPendingReqs, at shutdown.
Pending(s) == { r \in Req : s.meta[r] = "pending" }

FailPendingReqs(s, failing) ==
  WriteToDisk([s EXCEPT !.meta = [r \in Req |-> IF r \in Pending(s) THEN "failed" ELSE @[r]]],
              Pending(s) \ failing, "orphaned")

\* What the sweep at startup reads, and the orders in which it may: by the time
\* of the last write.
Orphans(s)  == { r \in Req : s.file[r] = "pending" }
Readable(s) == { r \in Req : s.file[r] \notin {"none", "torn"} }

ByAge(s) ==
  { files \in [1 .. Cardinality(Readable(s)) -> Readable(s)] :
      /\ \A r \in Readable(s) : \E i \in DOMAIN files : files[i] = r
      /\ \A i, j \in DOMAIN files :
           i < j => files[i] # files[j] /\ s.age[files[i]] >= s.age[files[j]] }

\* Mutant: the sweep fails also what had failed.
MutSweepFailsFailed(s, files, failing) ==
  LET kept  == SubSeq(files, IF Len(files) > MaxReqs THEN Len(files) - MaxReqs + 1 ELSE 1,
                      Len(files))
      swept == WriteToDisk(s, { r \in Readable(s) : s.file[r] # "completed" } \ failing,
                           "orphaned")
  IN  [swept EXCEPT
         !.file  = [r \in Req |-> IF r \in Readable(s) \ Range(kept) THEN "none" ELSE @[r]],
         !.meta  = [r \in Req |-> IF r \notin Range(kept) THEN "none"
                                  ELSE IF s.file[r] = "completed" THEN "completed"
                                  ELSE "failed"],
         !.order = kept]

\* sweepOrphanedReqs, at startup: fails what was pending and adopts every file it
\* can read, oldest first; the index never holds more than MaxReqs of them, the
\* others are evicted again.
SweepOrphanedReqs(s, files, failing) ==
  LET kept  == SubSeq(files, IF Len(files) > MaxReqs THEN Len(files) - MaxReqs + 1 ELSE 1,
                      Len(files))
      swept == WriteToDisk(s, Orphans(s) \ failing, "orphaned")
  IN  [swept EXCEPT
         !.file  = [r \in Req |-> IF r \in Readable(s) \ Range(kept) THEN "none" ELSE @[r]],
         !.meta  = [r \in Req |-> IF r \notin Range(kept) THEN "none"
                                  ELSE IF r \in Orphans(s) THEN "failed"
                                  ELSE MetaOf(s.file[r])],
         !.order = kept]

\* What a process that dies leaves to the next one.
Forget(s) == [s EXCEPT !.meta = [r \in Req |-> "none"], !.order = <<>>]

=============================================================================
