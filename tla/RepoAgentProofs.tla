-------------------------- MODULE RepoAgentProofs --------------------------
(***************************************************************************)
(* What RepoAgent guarantees of its runs, its request store and its        *)
(* webhooks, for any number of requests and sessions, any MAX_REQS and any *)
(* number of stops of the server.                                          *)
(*                                                                         *)
(* First the operations of ReqStore, each by what it leaves of a store,    *)
(* request by request; then the steps of RepoAgent by the operation they   *)
(* make (StoreStep); from these the invariants RecordInv, of the store,    *)
(* and HookInv, of the webhooks.  The registry of abort controllers and    *)
(* the busy tracker, in which the store plays no part, come last.          *)
(***************************************************************************)
EXTENDS MCRepoAgent, FiniteSetTheorems, SequenceTheorems, WellFoundedInduction, TLAPS

-----------------------------------------------------------------------------
(* Sequences.                                                              *)

\* A set of natural numbers has a least one: the place that is evicted.
LEMMA NatMin ==
  ASSUME NEW S \in SUBSET Nat, S # {}
  PROVE  \E x \in S : \A y \in S : x <= y
<1> DEFINE R == OpToRel(<, Nat)
<1>1. IsWellFoundedOn(R, Nat)
  BY NatLessThanWellFounded
<1>2. \A x, y \in Nat : y < x => <<y, x>> \in R
  BY DEF OpToRel
<1> HIDE DEF R
<1>3. \E x \in S : \A y \in S : ~(<<y, x>> \in R)
  BY <1>1, WFMin
<1>4. PICK x \in S : \A y \in S : ~(<<y, x>> \in R)
  BY <1>3
<1>5. \A y \in S : ~(y < x)
  BY <1>2, <1>4
<1> QED BY <1>5

\* A sequence lists its elements once each; what it lists.
OneEach(q) == \A i, j \in DOMAIN q : q[i] = q[j] => i = j
Listed(q) == { q[i] : i \in DOMAIN q }

\* REQ_ORDER.splice(i, 1) takes one entry out and no other.
LEMMA RemoveOne ==
  ASSUME NEW T, NEW q \in Seq(T), OneEach(q), NEW i \in DOMAIN q
  PROVE  /\ RemoveAt(q, i) \in Seq(T)
         /\ Len(RemoveAt(q, i)) = Len(q) - 1
         /\ OneEach(RemoveAt(q, i))
         /\ Listed(RemoveAt(q, i)) = Listed(q) \ {q[i]}
<1> DEFINE p == RemoveAt(q, i)
<1>1. /\ Len(q) \in Nat /\ i \in 1 .. Len(q) /\ DOMAIN q = 1 .. Len(q)
      /\ \A k \in 1 .. Len(q) : q[k] \in T
  OBVIOUS
<1>2. /\ SubSeq(q, 1, i - 1) \in Seq(T) /\ Len(SubSeq(q, 1, i - 1)) = i - 1
      /\ \A k \in 1 .. i - 1 : SubSeq(q, 1, i - 1)[k] = q[k]
  BY <1>1
<1>3. /\ SubSeq(q, i + 1, Len(q)) \in Seq(T) /\ Len(SubSeq(q, i + 1, Len(q))) = Len(q) - i
      /\ \A k \in 1 .. Len(q) - i : SubSeq(q, i + 1, Len(q))[k] = q[k + i]
  <2>1. /\ i + 1 \in 1 .. Len(q) + 1 /\ Len(q) \in (i + 1) - 1 .. Len(q)
        /\ \A k \in 1 .. Len(q) - i : (i + 1) + k - 1 = k + i
    BY <1>1
  <2>2. /\ SubSeq(q, i + 1, Len(q)) \in Seq(T)
        /\ Len(SubSeq(q, i + 1, Len(q))) = Len(q) - (i + 1) + 1
        /\ \A k \in 1 .. Len(q) - (i + 1) + 1 :
             SubSeq(q, i + 1, Len(q))[k] = q[(i + 1) + k - 1]
    BY <2>1, SubSeqProperties
  <2> QED BY <1>1, <2>1, <2>2
<1> DEFINE front == SubSeq(q, 1, i - 1)
           back  == SubSeq(q, i + 1, Len(q))
<1>4. /\ p \in Seq(T) /\ Len(p) = Len(q) - 1
      /\ \A k \in 1 .. Len(p) : p[k] = IF k < i THEN q[k] ELSE q[k + 1]
  <2>1. p = front \o back
    BY DEF RemoveAt
  <2>2. /\ front \in Seq(T) /\ Len(front) = i - 1
        /\ \A k \in 1 .. i - 1 : front[k] = q[k]
    BY <1>2
  <2>3. /\ back \in Seq(T) /\ Len(back) = Len(q) - i
        /\ \A k \in 1 .. Len(q) - i : back[k] = q[k + i]
    BY <1>3
  <2> HIDE DEF front, back, p
  <2>4. /\ p \in Seq(T) /\ Len(p) = Len(front) + Len(back)
        /\ \A k \in 1 .. Len(front) + Len(back) :
             p[k] = IF k <= Len(front) THEN front[k] ELSE back[k - Len(front)]
    BY <2>1, <2>2, <2>3, ConcatProperties
  <2>5. Len(p) = Len(q) - 1
    BY <1>1, <2>2, <2>3, <2>4
  <2>6. ASSUME NEW k \in 1 .. Len(q) - 1
        PROVE  p[k] = IF k < i THEN q[k] ELSE q[k + 1]
    <3>1. CASE k < i
      BY <1>1, <2>2, <2>3, <2>4, <3>1
    <3>2. CASE ~(k < i)
      <4>1. p[k] = back[k - (i - 1)] /\ k - (i - 1) \in 1 .. Len(q) - i
        BY <1>1, <2>2, <2>3, <2>4, <3>2
      <4>2. back[k - (i - 1)] = q[k - (i - 1) + i] /\ k - (i - 1) + i = k + 1
        BY <1>1, <2>3, <4>1
      <4> QED BY <3>2, <4>1, <4>2
    <3> QED BY <3>1, <3>2
  <2> QED BY <2>4, <2>5, <2>6
<1> HIDE DEF p
<1>5. DOMAIN p = 1 .. Len(p)
  BY <1>4
<1>6. OneEach(p)
  <2> SUFFICES ASSUME NEW j \in DOMAIN p, NEW k \in DOMAIN p, p[j] = p[k] PROVE j = k
    BY DEF OneEach
  <2> DEFINE j1 == IF j < i THEN j ELSE j + 1
             k1 == IF k < i THEN k ELSE k + 1
  <2>1. j1 \in DOMAIN q /\ k1 \in DOMAIN q /\ q[j1] = q[k1]
    BY <1>1, <1>4, <1>5
  <2>2. j1 = k1
    BY <2>1 DEF OneEach
  <2> QED BY <1>1, <1>4, <1>5, <2>2
<1>7. Listed(p) \subseteq Listed(q) \ {q[i]}
  BY <1>1, <1>4, <1>5 DEF OneEach, Listed
<1>8. ASSUME NEW k \in DOMAIN q, q[k] # q[i] PROVE q[k] \in Listed(p)
  <2>1. CASE k < i
    BY <1>1, <1>4, <1>5, <2>1 DEF Listed
  <2>2. CASE k > i
    <3>1. k - 1 \in DOMAIN p /\ p[k - 1] = q[k]
      BY <1>1, <1>4, <1>5, <2>2
    <3> QED BY <3>1 DEF Listed
  <2> QED BY <1>1, <1>8, <2>1, <2>2
<1> QED BY <1>4, <1>6, <1>7, <1>8 DEF Listed, p

\* REQ_ORDER.push of a request it does not list.
LEMMA AppendNew ==
  ASSUME NEW T, NEW q \in Seq(T), OneEach(q), NEW x \in T, x \notin Listed(q)
  PROVE  /\ Append(q, x) \in Seq(T) /\ Len(Append(q, x)) = Len(q) + 1
         /\ OneEach(Append(q, x)) /\ Listed(Append(q, x)) = Listed(q) \cup {x}
<1> DEFINE p == Append(q, x)
<1>1. /\ p \in Seq(T) /\ Len(q) \in Nat /\ Len(p) = Len(q) + 1
      /\ DOMAIN q = 1 .. Len(q) /\ DOMAIN p = 1 .. Len(q) + 1
      /\ p[Len(q) + 1] = x /\ \A k \in 1 .. Len(q) : p[k] = q[k]
  OBVIOUS
<1> HIDE DEF p
<1>2. \A k \in DOMAIN q : q[k] # x
  BY DEF Listed
<1>3. OneEach(p)
  BY <1>1, <1>2 DEF OneEach
<1>4. Listed(p) = Listed(q) \cup {x}
  BY <1>1 DEF Listed
<1> QED BY <1>1, <1>3, <1>4 DEF p

\* What the sweep keeps of the files it adopts.
LEMMA TailOf ==
  ASSUME NEW T, NEW q \in Seq(T), OneEach(q), NEW m \in 1 .. Len(q) + 1
  PROVE  /\ SubSeq(q, m, Len(q)) \in Seq(T)
         /\ OneEach(SubSeq(q, m, Len(q)))
         /\ Range(SubSeq(q, m, Len(q))) = Listed(SubSeq(q, m, Len(q)))
         /\ Listed(SubSeq(q, m, Len(q))) \subseteq Listed(q)
<1> DEFINE p == SubSeq(q, m, Len(q))
<1>1. /\ Len(q) \in Nat /\ DOMAIN q = 1 .. Len(q) /\ Len(q) \in m - 1 .. Len(q)
  OBVIOUS
<1>2. /\ p \in Seq(T) /\ Len(p) = Len(q) - m + 1
      /\ \A k \in 1 .. Len(q) - m + 1 : p[k] = q[m + k - 1]
  BY <1>1, SubSeqProperties
<1> HIDE DEF p
<1>3. /\ DOMAIN p = 1 .. Len(p)
      /\ \A k \in DOMAIN p : m + k - 1 \in DOMAIN q /\ p[k] = q[m + k - 1]
  BY <1>1, <1>2
<1>4. OneEach(p)
  <2> SUFFICES ASSUME NEW j \in DOMAIN p, NEW k \in DOMAIN p, p[j] = p[k] PROVE j = k
    BY DEF OneEach
  <2>1. m + j - 1 = m + k - 1
    BY <1>3 DEF OneEach
  <2> QED BY <1>2, <1>3, <2>1
<1>5. Listed(p) \subseteq Listed(q)
  BY <1>3 DEF Listed
<1>6. Range(p) = Listed(p)
  BY DEF Range, Listed
<1> QED BY <1>2, <1>4, <1>5, <1>6 DEF p

-----------------------------------------------------------------------------
(* The store.                                                              *)

\* The index lists each of its requests once, and REQ_ORDER and META list the same.
StoreOK(s) ==
  /\ s \in Store
  /\ OneEach(s.order)
  /\ \A r \in Req : s.meta[r] # "none" <=> r \in Listed(s.order)

LEMMA StoreParts ==
  ASSUME NEW s \in Store
  PROVE  /\ s.file \in [Req -> OnDisk] /\ s.age \in [Req -> Nat]
         /\ s.meta \in [Req -> Indexed] /\ s.order \in Seq(Req)
BY DEF Store

\* writeToDisk touches the files only (reqs.ts:62-68).
LEMMA WriteStore ==
  ASSUME NEW s \in Store, NEW reqs \in SUBSET Req, NEW status \in OnDisk
  PROVE  LET t == WriteToDisk(s, reqs, status)
         IN  /\ t \in Store
             /\ t.file = [r \in Req |-> IF r \in reqs THEN status ELSE s.file[r]]
             /\ t.meta = s.meta /\ t.order = s.order
<1>1. CASE reqs = {}
  BY <1>1 DEF WriteToDisk, Store
<1>2. CASE reqs # {}
  <2> DEFINE file == [r \in Req |-> IF r \in reqs THEN status ELSE s.file[r]]
             age  == [r \in Req |-> IF r \in reqs \/ s.file[r] = "none" THEN 0 ELSE s.age[r] + 1]
  <2>1. WriteToDisk(s, reqs, status) = [s EXCEPT !.file = file, !.age = age]
    BY <1>2 DEF WriteToDisk
  <2>2. file \in [Req -> OnDisk] /\ age \in [Req -> Nat]
    BY DEF Store
  <2> HIDE DEF file, age
  <2>3. /\ [s EXCEPT !.file = file, !.age = age] \in Store
        /\ [s EXCEPT !.file = file, !.age = age].file = file
        /\ [s EXCEPT !.file = file, !.age = age].meta = s.meta
        /\ [s EXCEPT !.file = file, !.age = age].order = s.order
    BY <2>2 DEF Store
  <2> QED BY <2>1, <2>3 DEF file
<1> QED BY <1>1, <1>2

\* The evicted request is over; its file goes with its entry (reqs.ts:99-123).
LEMMA EvictStore ==
  ASSUME NEW s, StoreOK(s), Ended(s) # {}
  PROVE  \E e \in Req :
           LET t == EvictOldestCompleted(s)
           IN  /\ s.meta[e] \notin {"none", "pending"} /\ StoreOK(t)
               /\ t.file = [s.file EXCEPT ![e] = "none"]
               /\ t.meta = [s.meta EXCEPT ![e] = "none"]
               /\ Len(t.order) = Len(s.order) - 1
<1> DEFINE i == Min(Ended(s))
           t == EvictOldestCompleted(s)
           file == [s.file EXCEPT ![s.order[i]] = "none"]
           meta == [s.meta EXCEPT ![s.order[i]] = "none"]
           order == RemoveAt(s.order, i)
<1>0. /\ s \in Store /\ s.file \in [Req -> OnDisk] /\ s.meta \in [Req -> Indexed]
      /\ s.order \in Seq(Req) /\ OneEach(s.order)
      /\ \A r \in Req : s.meta[r] # "none" <=> r \in Listed(s.order)
  BY StoreParts DEF StoreOK
<1>1. i \in Ended(s)
  <2>1. Ended(s) \in SUBSET Nat
    BY <1>0 DEF Ended
  <2> QED BY <2>1, NatMin DEF Min
<1> HIDE DEF i
<1>2. i \in DOMAIN s.order /\ s.order[i] \in Req /\ s.meta[s.order[i]] # "pending"
  BY <1>0, <1>1 DEF Ended
<1>3. s.meta[s.order[i]] # "none"
  BY <1>0, <1>2 DEF Listed
<1>4. /\ order \in Seq(Req) /\ Len(order) = Len(s.order) - 1 /\ OneEach(order)
      /\ Listed(order) = Listed(s.order) \ {s.order[i]}
  BY <1>0, <1>2, RemoveOne
<1>5. /\ file \in [Req -> OnDisk] /\ meta \in [Req -> Indexed]
      /\ \A r \in Req : meta[r] # "none" <=> r \in Listed(order)
  BY <1>0, <1>2, <1>4 DEF OnDisk, Indexed
<1>6. t = [s EXCEPT !.order = order, !.meta = meta, !.file = file]
  BY DEF EvictOldestCompleted, i
<1> HIDE DEF t, file, meta, order
<1>7. t \in Store /\ t.file = file /\ t.meta = meta /\ t.order = order
  BY <1>0, <1>4, <1>5, <1>6 DEF Store
<1>8. StoreOK(t)
  BY <1>4, <1>5, <1>7 DEF StoreOK
<1> QED BY <1>2, <1>3, <1>4, <1>7, <1>8 DEF t, file, meta

\* What each operation leaves of a store s, request by request.  A request in
\* `gone` was evicted, one in `kept` is what the sweep leaves in the index.
Starts(s, t, r, gone, failing) ==
  /\ StoreOK(t)
  /\ \A q \in gone : s.meta[q] \notin {"none", "pending"}
  /\ t.file = [q \in Req |-> IF q \in {r} \ failing THEN "pending"
                             ELSE IF q \in gone THEN "none" ELSE s.file[q]]
  /\ t.meta = [q \in Req |-> IF q = r THEN "pending"
                             ELSE IF q \in gone THEN "none" ELSE s.meta[q]]
  /\ Len(s.order) >= MaxReqs /\ Len(t.order) > Len(s.order) => Ended(s) = {}

Records(s, t, r, verdict, failing) ==
  /\ StoreOK(t) /\ t.order = s.order
  /\ t.file = [q \in Req |-> IF q \in {r} \ failing THEN verdict ELSE s.file[q]]
  /\ t.meta = [q \in Req |-> IF q = r /\ s.meta[r] # "none" THEN MetaOf(verdict)
                             ELSE s.meta[q]]

FailsPending(s, t, failing) ==
  /\ StoreOK(t) /\ t.order = s.order
  /\ t.file = [q \in Req |-> IF q \in Pending(s) \ failing THEN "orphaned" ELSE s.file[q]]
  /\ t.meta = [q \in Req |-> IF q \in Pending(s) THEN "failed" ELSE s.meta[q]]

Sweeps(s, t, kept, failing) ==
  /\ StoreOK(t) /\ Listed(t.order) = kept
  /\ t.file = [q \in Req |-> IF q \in Readable(s) \ kept THEN "none"
                             ELSE IF q \in Orphans(s) \ failing THEN "orphaned"
                             ELSE s.file[q]]
  /\ t.meta = [q \in Req |-> IF q \notin kept THEN "none"
                             ELSE IF q \in Orphans(s) THEN "failed"
                             ELSE MetaOf(s.file[q])]

\* Room is made at the cost of requests that are over, and the index grows past
\* its cap only when there is none (reqs.ts:125-139).
LEMMA StartStore ==
  ASSUME NEW s, StoreOK(s), NEW r \in Req, s.meta[r] = "none", NEW failing \in SUBSET {r}
  PROVE  \E gone \in SUBSET Req : Starts(s, StartReq(s, r, failing), r, gone, failing)
<1> DEFINE room == IF Len(s.order) >= MaxReqs THEN EvictOldestCompleted(s) ELSE s
           t == StartReq(s, r, failing)
<1>0. /\ s \in Store /\ s.file \in [Req -> OnDisk] /\ s.meta \in [Req -> Indexed]
      /\ s.order \in Seq(Req)
  BY StoreParts DEF StoreOK
<1>1. PICK gone \in SUBSET Req :
        /\ StoreOK(room)
        /\ \A q \in gone : s.meta[q] \notin {"none", "pending"}
        /\ room.file = [q \in Req |-> IF q \in gone THEN "none" ELSE s.file[q]]
        /\ room.meta = [q \in Req |-> IF q \in gone THEN "none" ELSE s.meta[q]]
        /\ Len(s.order) >= MaxReqs => Ended(s) = {} \/ Len(room.order) = Len(s.order) - 1
  <2>1. CASE Len(s.order) < MaxReqs \/ Ended(s) = {}
    <3>1. room = s
      BY <1>0, <2>1, MaxReqsAssumption DEF EvictOldestCompleted
    <3>2. \A gone : gone = {} =>
            /\ s.file = [q \in Req |-> IF q \in gone THEN "none" ELSE s.file[q]]
            /\ s.meta = [q \in Req |-> IF q \in gone THEN "none" ELSE s.meta[q]]
      BY <1>0
    <3>3. Len(s.order) >= MaxReqs => Ended(s) = {}
      BY <1>0, <2>1, MaxReqsAssumption
    <3> WITNESS {} \in SUBSET Req
    <3> HIDE DEF room
    <3> QED BY <3>1, <3>2, <3>3
  <2>2. CASE ~(Len(s.order) < MaxReqs) /\ Ended(s) # {}
    <3>1. room = EvictOldestCompleted(s)
      BY <1>0, <2>2, MaxReqsAssumption
    <3> HIDE DEF room
    <3>2. PICK e \in Req : /\ s.meta[e] \notin {"none", "pending"} /\ StoreOK(room)
                           /\ room.file = [s.file EXCEPT ![e] = "none"]
                           /\ room.meta = [s.meta EXCEPT ![e] = "none"]
                           /\ Len(room.order) = Len(s.order) - 1
      BY <2>2, <3>1, EvictStore
    <3>3. /\ room.file = [q \in Req |-> IF q \in {e} THEN "none" ELSE s.file[q]]
          /\ room.meta = [q \in Req |-> IF q \in {e} THEN "none" ELSE s.meta[q]]
      BY <1>0, <3>2
    <3> WITNESS {e} \in SUBSET Req
    <3> QED BY <3>2, <3>3
  <2> QED BY <2>1, <2>2
<1> DEFINE meta == [room.meta EXCEPT ![r] = "pending"]
           order == Append(room.order, r)
           mid == [room EXCEPT !.meta = meta, !.order = order]
<1>2. t = WriteToDisk(mid, {r} \ failing, "pending")
  BY DEF StartReq
<1> HIDE DEF room, t
<1>3. /\ room \in Store /\ room.meta \in [Req -> Indexed] /\ room.order \in Seq(Req)
      /\ OneEach(room.order) /\ r \notin Listed(room.order)
      /\ \A q \in Req : room.meta[q] # "none" <=> q \in Listed(room.order)
  BY <1>1, StoreParts DEF StoreOK
<1>4. /\ order \in Seq(Req) /\ OneEach(order) /\ Listed(order) = Listed(room.order) \cup {r}
      /\ Len(order) = Len(room.order) + 1
  BY <1>3, AppendNew
<1>5. meta \in [Req -> Indexed] /\ \A q \in Req : meta[q] # "none" <=> q \in Listed(order)
  BY <1>3, <1>4 DEF Indexed
<1>6. meta = [q \in Req |-> IF q = r THEN "pending" ELSE IF q \in gone THEN "none" ELSE s.meta[q]]
  BY <1>1, <1>3
<1> HIDE DEF meta, order
<1>7. mid \in Store /\ mid.file = room.file /\ mid.meta = meta /\ mid.order = order
  BY <1>3, <1>4, <1>5 DEF mid, Store
<1> HIDE DEF mid
<1>8. /\ t \in Store /\ t.meta = mid.meta /\ t.order = mid.order
      /\ t.file = [q \in Req |-> IF q \in {r} \ failing THEN "pending" ELSE mid.file[q]]
  BY <1>2, <1>7, WriteStore DEF OnDisk
<1>9. t.file = [q \in Req |-> IF q \in {r} \ failing THEN "pending"
                              ELSE IF q \in gone THEN "none" ELSE s.file[q]]
  BY <1>1, <1>7, <1>8
<1>10. StoreOK(t)
  BY <1>4, <1>5, <1>7, <1>8 DEF StoreOK
<1>11. Len(s.order) >= MaxReqs /\ Len(t.order) > Len(s.order) => Ended(s) = {}
  BY <1>0, <1>1, <1>3, <1>4, <1>7, <1>8
<1>12. Starts(s, t, r, gone, failing)
  BY <1>1, <1>6, <1>7, <1>8, <1>9, <1>10, <1>11 DEF Starts
<1> QED BY <1>12 DEF t

\* The verdict goes to disk in any case and to the index if it is there
\* (reqs.ts:251-270).
LEMMA EndStore ==
  ASSUME NEW s, StoreOK(s), NEW r \in Req, NEW v \in Verdict, NEW failing \in SUBSET {r}
  PROVE  Records(s, EndReq(s, r, v, failing), r, v, failing)
<1> DEFINE t == EndReq(s, r, v, failing)
           meta == [q \in Req |-> IF q = r /\ s.meta[r] # "none" THEN MetaOf(v)
                                  ELSE s.meta[q]]
           mid == IF s.meta[r] = "none" THEN s ELSE [s EXCEPT !.meta[r] = MetaOf(v)]
<1>0. /\ s \in Store /\ s.file \in [Req -> OnDisk] /\ s.meta \in [Req -> Indexed]
      /\ s.order \in Seq(Req) /\ OneEach(s.order)
      /\ \A q \in Req : s.meta[q] # "none" <=> q \in Listed(s.order)
  BY StoreParts DEF StoreOK
<1>1. meta \in [Req -> Indexed] /\ \A q \in Req : meta[q] # "none" <=> s.meta[q] # "none"
  BY <1>0 DEF Indexed, MetaOf, Verdict
<1>2. mid \in Store /\ mid.file = s.file /\ mid.meta = meta /\ mid.order = s.order
  <2>1. CASE s.meta[r] = "none"
    BY <1>0, <2>1
  <2>2. CASE s.meta[r] # "none"
    <3>1. meta = [s.meta EXCEPT ![r] = MetaOf(v)]
      BY <1>0, <2>2
    <3>2. mid = [s EXCEPT !.meta = meta]
      BY <2>2, <3>1
    <3> HIDE DEF meta, mid
    <3> QED BY <1>0, <1>1, <3>2 DEF Store
  <2> QED BY <2>1, <2>2
<1>3. t = WriteToDisk(mid, {r} \ failing, v)
  BY DEF EndReq
<1> HIDE DEF mid, meta, t
<1>4. /\ t \in Store /\ t.meta = meta /\ t.order = s.order
      /\ t.file = [q \in Req |-> IF q \in {r} \ failing THEN v ELSE s.file[q]]
  <2>1. v \in OnDisk /\ {r} \ failing \in SUBSET Req
    BY DEF OnDisk
  <2> QED BY <1>2, <1>3, <2>1, WriteStore
<1>5. StoreOK(t)
  BY <1>0, <1>1, <1>4 DEF StoreOK
<1> QED BY <1>4, <1>5 DEF Records, t, meta

\* Whatever the index holds as pending is failed (reqs.ts:230-249).
LEMMA FailStore ==
  ASSUME NEW s, StoreOK(s), NEW failing \in SUBSET Pending(s)
  PROVE  FailsPending(s, FailPendingReqs(s, failing), failing)
<1> DEFINE t == FailPendingReqs(s, failing)
           meta == [q \in Req |-> IF q \in Pending(s) THEN "failed" ELSE s.meta[q]]
           mid == [s EXCEPT !.meta = meta]
<1>0. /\ s \in Store /\ s.file \in [Req -> OnDisk] /\ s.meta \in [Req -> Indexed]
      /\ s.order \in Seq(Req) /\ OneEach(s.order) /\ Pending(s) \in SUBSET Req
      /\ \A q \in Req : s.meta[q] # "none" <=> q \in Listed(s.order)
  BY StoreParts DEF StoreOK, Pending
<1>1. meta \in [Req -> Indexed] /\ \A q \in Req : meta[q] # "none" <=> s.meta[q] # "none"
  BY <1>0 DEF Indexed, Pending
<1>2. t = WriteToDisk(mid, Pending(s) \ failing, "orphaned")
  BY DEF FailPendingReqs
<1> HIDE DEF meta, t
<1>3. mid \in Store /\ mid.file = s.file /\ mid.meta = meta /\ mid.order = s.order
  BY <1>0, <1>1 DEF Store
<1> HIDE DEF mid
<1>4. /\ t \in Store /\ t.meta = meta /\ t.order = s.order
      /\ t.file = [q \in Req |-> IF q \in Pending(s) \ failing THEN "orphaned"
                                 ELSE s.file[q]]
  <2>1. "orphaned" \in OnDisk /\ Pending(s) \ failing \in SUBSET Req
    BY <1>0 DEF OnDisk, Verdict
  <2> QED BY <1>2, <1>3, <2>1, WriteStore
<1>5. StoreOK(t)
  BY <1>0, <1>1, <1>4 DEF StoreOK
<1> QED BY <1>4, <1>5 DEF FailsPending, t, meta

\* A process that dies leaves its files.
LEMMA ForgetStore ==
  ASSUME NEW s \in Store
  PROVE  /\ StoreOK(Forget(s)) /\ Forget(s).file = s.file
         /\ Forget(s).meta = [r \in Req |-> "none"] /\ Forget(s).order = <<>>
<1> DEFINE meta == [r \in Req |-> "none"]
           t == Forget(s)
<1>1. meta \in [Req -> Indexed] /\ <<>> \in Seq(Req)
  BY DEF Indexed
<1>2. t = [s EXCEPT !.meta = meta, !.order = <<>>]
  BY DEF Forget
<1>3. \A r \in Req : meta[r] = "none"
  OBVIOUS
<1> HIDE DEF meta, t
<1>4. t \in Store /\ t.file = s.file /\ t.meta = meta /\ t.order = <<>>
  BY <1>1, <1>2 DEF Store
<1>5. StoreOK(t)
  BY <1>3, <1>4 DEF StoreOK, OneEach, Listed
<1> QED BY <1>4, <1>5 DEF t, meta

\* The index holds what is kept, with the status the file had; no readable file
\* stays outside it (reqs.ts:153-217).
LEMMA SweepStore ==
  ASSUME NEW s \in Store, IsFiniteSet(Readable(s)), NEW files \in ByAge(s),
         NEW failing \in SUBSET Orphans(s)
  PROVE  \E kept \in SUBSET Readable(s) :
           Sweeps(s, SweepOrphanedReqs(s, files, failing), kept, failing)
<1> DEFINE t == SweepOrphanedReqs(s, files, failing)
           m == IF Len(files) > MaxReqs THEN Len(files) - MaxReqs + 1 ELSE 1
           order == SubSeq(files, m, Len(files))
           kept == Listed(order)
           swept == WriteToDisk(s, Orphans(s) \ failing, "orphaned")
           file == [q \in Req |-> IF q \in Readable(s) \ kept THEN "none"
                                  ELSE IF q \in Orphans(s) \ failing THEN "orphaned"
                                  ELSE s.file[q]]
           meta == [q \in Req |-> IF q \notin kept THEN "none"
                                  ELSE IF q \in Orphans(s) THEN "failed"
                                  ELSE MetaOf(s.file[q])]
<1>0. /\ s.file \in [Req -> OnDisk] /\ Orphans(s) \in SUBSET Req /\ Readable(s) \in SUBSET Req
  BY StoreParts DEF Orphans, Readable
<1>1. files \in Seq(Readable(s)) /\ OneEach(files) /\ Len(files) \in Nat
  <2>1. Cardinality(Readable(s)) \in Nat
    BY FS_CardinalityType
  <2>2. /\ files \in [1 .. Cardinality(Readable(s)) -> Readable(s)]
        /\ \A i, j \in DOMAIN files : i < j => files[i] # files[j]
    BY DEF ByAge
  <2>3. files \in Seq(Readable(s)) /\ Len(files) \in Nat
    BY <2>1, <2>2, IsASeq
  <2>4. \A i, j \in DOMAIN files : i \in Nat /\ j \in Nat
    BY <2>2
  <2> QED BY <2>2, <2>3, <2>4 DEF OneEach
<1>2. m \in 1 .. Len(files) + 1
  BY <1>1, MaxReqsAssumption
<1> HIDE DEF m
<1>3. /\ order \in Seq(Readable(s)) /\ OneEach(order) /\ Range(order) = kept
      /\ kept \subseteq Listed(files)
  BY <1>1, <1>2, TailOf
<1> HIDE DEF order
<1>4. kept \subseteq Readable(s)
  BY <1>3 DEF Listed
<1>5. order \in Seq(Req)
  BY <1>0, <1>3
<1> HIDE DEF kept
<1>6. /\ swept \in Store /\ swept.order = s.order
      /\ swept.file = [q \in Req |-> IF q \in Orphans(s) \ failing THEN "orphaned"
                                     ELSE s.file[q]]
  <2>1. "orphaned" \in OnDisk /\ Orphans(s) \ failing \in SUBSET Req
    BY <1>0 DEF OnDisk, Verdict
  <2> QED BY <2>1, WriteStore
<1>7. t = [swept EXCEPT !.file = file, !.meta = meta, !.order = order]
  <2>1. file = [q \in Req |-> IF q \in Readable(s) \ kept THEN "none" ELSE swept.file[q]]
    BY <1>6
  <2>2. t = [swept EXCEPT
              !.file = [q \in Req |-> IF q \in Readable(s) \ kept THEN "none" ELSE swept.file[q]],
              !.meta = meta, !.order = order]
    BY <1>3 DEF SweepOrphanedReqs, order, m
  <2> HIDE DEF file, meta, swept, t
  <2> QED BY <2>1, <2>2
<1>8. file \in [Req -> OnDisk] /\ meta \in [Req -> Indexed]
  <2>1. file \in [Req -> OnDisk]
    <3>1. "none" \in OnDisk /\ "orphaned" \in OnDisk
      BY DEF OnDisk, Verdict
    <3> QED BY <1>0, <3>1
  <2>2. \A q \in kept : q \in Req /\ (q \in Orphans(s) \/ s.file[q] \in Verdict)
    BY <1>0, <1>4 DEF Readable, Orphans, OnDisk
  <2>3. \A q \in kept \ Orphans(s) : MetaOf(s.file[q]) \in Indexed
    BY <2>2 DEF MetaOf, Verdict, Indexed
  <2>4. "none" \in Indexed /\ "failed" \in Indexed
    BY DEF Indexed
  <2> QED BY <2>1, <2>3, <2>4
<1>9. \A q \in Req : meta[q] # "none" <=> q \in kept
  BY <1>0, <1>4 DEF Readable, MetaOf
<1> HIDE DEF t, swept, file, meta
<1>10. t \in Store /\ t.file = file /\ t.meta = meta /\ t.order = order
  BY <1>5, <1>6, <1>7, <1>8 DEF Store
<1>11. StoreOK(t) /\ Listed(t.order) = kept
  BY <1>3, <1>9, <1>10 DEF StoreOK, kept
<1>12. Sweeps(s, t, kept, failing)
  BY <1>10, <1>11 DEF Sweeps, file, meta
<1> QED BY <1>4, <1>12 DEF t

-----------------------------------------------------------------------------
(* Steps.                                                                  *)

RunState == {"none", "live", "settled", "closed"}

LEMMA AgentRequests ==
  /\ Agent \subseteq Req /\ Plain \subseteq Req /\ NoReq \notin Req
  /\ Hooked \subseteq Agent /\ Hooked \subseteq Req /\ Agent \cap Plain = {}
  /\ Agent \cup Plain = Req
  /\ \A r \in Agent : SessionOf[r] \in Session
  BY ReqAssumption, KindAssumption, SessionAssumption DEF Agent

\* Requests start, end or are answered aside of the store; the drain fails them,
\* the process dies (maybe while it writes a verdict), the sweep adopts them.
Started(r, gone, failing) ==
  /\ Arrives(r) /\ \E state \in {"live", "closed"} : run' = [run EXCEPT ![r] = state]
  /\ Starts(store, store', r, gone, failing)
  /\ lost' = lost \cup failing
  /\ UNCHANGED <<mode, hooks>>

Recorded(r, verdict, failing) ==
  /\ run[r] = "live" /\ \E state \in {"settled", "closed"} : run' = [run EXCEPT ![r] = state]
  /\ r \in Agent => mode = "up"
  /\ Records(store, store', r, verdict, failing)
  /\ lost' = lost \cup failing
  /\ calls' = calls \cup CallsFor({r}, verdict, Attempts)
  /\ UNCHANGED <<mode, told, cut>>

Aside ==
  /\ \A q \in Req : \/ run'[q] = run[q]
                    \/ run[q] \in {"live", "settled"} /\ run'[q] \in {"settled", "closed"}
  /\ UNCHANGED <<mode, store, hooks, lost>>

Drained(failing) ==
  /\ mode = "up" /\ mode' = "draining"
  /\ FailsPending(store, store', failing)
  /\ lost' = lost \cup failing
  /\ calls' = calls \cup CallsFor(Pending(store) \cap Orphans(store), "orphaned", 1)
  /\ UNCHANGED <<run, told, cut>>

Died(torn) ==
  /\ mode # "down" /\ ProcessEnds
  /\ \A r \in torn : run[r] = "live" /\ (mode = "up" \/ r \in Plain)
  /\ StoreOK(store')
  /\ store'.file = [q \in Req |-> IF q \in torn THEN "torn" ELSE store.file[q]]
  /\ store'.meta = [q \in Req |-> "none"] /\ store'.order = <<>>
  /\ lost' = lost \cup torn

Swept(kept, failing) ==
  /\ mode = "down" /\ mode' = "up"
  /\ Sweeps(store, store', kept, failing)
  /\ lost' = lost \cup failing
  /\ calls' = CallsFor(Orphans(store), "orphaned", Attempts)
  /\ UNCHANGED <<run, told, cut>>

-----------------------------------------------------------------------------
(* The invariant.                                                          *)

\* So the files the sweep reads are finitely many.
FewStarted == IsFiniteSet({ r \in Req : run[r] # "none" })

\* The record of a request, on disk and in memory, along its life.
Course(r) ==
  /\ run[r] = "none" => store.meta[r] = "none" /\ store.file[r] = "none"
  /\ mode = "up" /\ run[r] = "live" => store.meta[r] = "pending"
  /\ mode = "down" => run[r] # "live"
  /\ store.file[r] = "torn" => r \in lost
  /\ mode = "up" /\ store.file[r] \notin {"none", "torn"} => store.meta[r] # "none"
  /\ mode # "down" /\ r \notin lost =>
       /\ store.meta[r] # "none" => store.meta[r] = MetaOf(store.file[r])
       /\ store.file[r] = "pending" => store.meta[r] = "pending"

RecordInv ==
  /\ TypeOK /\ StoreOK(store) /\ FewStarted
  /\ mode = "down" => calls = {}
  /\ \A r \in Req : Course(r)

-----------------------------------------------------------------------------
(* Every step is one of these.                                             *)

StoreStep ==
  \/ \E r \in Req, gone \in SUBSET Req : \E failing \in SUBSET {r} : Started(r, gone, failing)
  \/ \E r \in Req, verdict \in Verdict : \E failing \in SUBSET {r} : Recorded(r, verdict, failing)
  \/ Aside
  \/ Deliver
  \/ \E failing \in SUBSET Pending(store) : Drained(failing)
  \/ \E torn \in SUBSET Req : Died(torn)
  \/ \E failing \in SUBSET Orphans(store), kept \in SUBSET Readable(store) : Swept(kept, failing)

\* The end of the process, however it comes.
LEMMA Ending ==
  ASSUME Exit \/ Crash
  PROVE  ProcessEnds
  BY DEF Exit, Crash

LEMMA StartSteps ==
  ASSUME RecordInv, NEW r \in Req, Arrives(r), NEW failing \in SUBSET {r}, Losing(failing),
         store' = StartReq(store, r, failing),
         \E state \in {"live", "closed"} : run' = [run EXCEPT ![r] = state],
         UNCHANGED <<mode, hooks>>
  PROVE  \E gone \in SUBSET Req : Started(r, gone, failing)
<1>1. StoreOK(store) /\ store.meta[r] = "none"
  BY DEF RecordInv, Course, Arrives
<1>2. PICK gone \in SUBSET Req : Starts(store, store', r, gone, failing)
  BY <1>1, StartStore
<1> QED BY <1>2 DEF Started, Losing

LEMMA EndSteps ==
  ASSUME RecordInv, NEW r \in Req, NEW verdict \in Verdict, NEW failing \in SUBSET {r},
         store' = EndReq(store, r, verdict, failing), Losing(failing),
         run[r] = "live", \E state \in {"settled", "closed"} : run' = [run EXCEPT ![r] = state],
         r \in Agent => mode = "up", calls' = calls \cup CallsFor({r}, verdict, Attempts),
         UNCHANGED <<mode, told, cut>>
  PROVE  Recorded(r, verdict, failing)
<1>1. StoreOK(store)
  BY DEF RecordInv
<1>2. Records(store, store', r, verdict, failing)
  BY <1>1, EndStore
<1> QED BY <1>2 DEF Recorded, Losing

LEMMA DeathSteps ==
  ASSUME RecordInv, Exit \/ Crash
  PROVE  \E torn \in SUBSET Req : Died(torn)
<1>1. store \in Store
  BY DEF RecordInv, StoreOK
<1>2. mode # "down" /\ ProcessEnds
  BY DEF Exit, Crash
<1>3. CASE store' = Forget(store) /\ UNCHANGED lost
  <2>1. /\ StoreOK(store') /\ store'.meta = [q \in Req |-> "none"]
        /\ store'.order = <<>> /\ store'.file = store.file
    BY <1>1, <1>3, ForgetStore
  <2>2. store.file = [q \in Req |-> IF q \in {} THEN "torn" ELSE store.file[q]]
    BY <1>1, StoreParts
  <2>3. Died({})
    BY <1>2, <1>3, <2>1, <2>2 DEF Died
  <2> QED BY <2>3
<1>4. ASSUME NEW r \in Req, run[r] = "live" /\ (mode = "up" \/ r \in Plain), Losing({r}),
             store' = Forget(WriteToDisk(store, {r}, "torn"))
      PROVE  \E torn \in SUBSET Req : Died(torn)
  <2> DEFINE mid == WriteToDisk(store, {r}, "torn")
  <2>1. mid \in Store /\ mid.file = [q \in Req |-> IF q \in {r} THEN "torn" ELSE store.file[q]]
    <3>1. "torn" \in OnDisk /\ {r} \in SUBSET Req
      BY DEF OnDisk
    <3> QED BY <1>1, <3>1, WriteStore
  <2> HIDE DEF mid
  <2>2. /\ StoreOK(store') /\ store'.meta = [q \in Req |-> "none"]
        /\ store'.order = <<>> /\ store'.file = mid.file
    BY <1>4, <2>1, ForgetStore DEF mid
  <2>3. Died({r})
    BY <1>2, <1>4, <2>1, <2>2 DEF Died, Losing
  <2> QED BY <2>3
<1> QED BY <1>3, <1>4 DEF Exit, Crash

LEMMA BootSteps ==
  ASSUME RecordInv, Boot
  PROVE  \E failing \in SUBSET Orphans(store), kept \in SUBSET Readable(store) :
           Swept(kept, failing)
<1>1. PICK failing \in SUBSET Orphans(store), files \in ByAge(store) :
        Losing(failing) /\ store' = SweepOrphanedReqs(store, files, failing)
  BY DEF Boot
<1>2. store \in Store /\ IsFiniteSet(Readable(store))
  <2>1. Readable(store) \subseteq { r \in Req : run[r] # "none" }
    BY DEF RecordInv, Course, Readable
  <2> QED BY <2>1, FS_Subset DEF RecordInv, FewStarted, StoreOK
<1>3. PICK kept \in SUBSET Readable(store) : Sweeps(store, store', kept, failing)
  BY <1>1, <1>2, SweepStore
<1>4. Swept(kept, failing)
  BY <1>1, <1>3 DEF Swept, Boot, Losing, live
<1> QED BY <1>4

LEMMA Steps ==
  ASSUME RecordInv, [Next]_vars
  PROVE  StoreStep
<1> USE AgentRequests
<1>0. run \in [Req -> RunState]
  BY DEF RecordInv, TypeOK, RunState
<1>1. ASSUME NEW r \in Req, StartAgent(r) \/ StartPlain(r) PROVE StoreStep
  <2>1. PICK failing \in SUBSET {r} : Losing(failing) /\ store' = StartReq(store, r, failing)
    BY <1>1 DEF StartAgent, StartPlain
  <2>2. /\ Arrives(r) /\ UNCHANGED <<mode, hooks>>
        /\ \E state \in {"live", "closed"} : run' = [run EXCEPT ![r] = state]
    BY <1>1 DEF StartAgent, StartPlain
  <2>3. \E gone \in SUBSET Req : Started(r, gone, failing)
    BY <2>1, <2>2, StartSteps
  <2> QED BY <2>3 DEF StoreStep
<1>2. ASSUME NEW r \in Agent, NEW verdict \in Verdict, Conclude(r, verdict) PROVE StoreStep
  <2>1. CASE UNCHANGED <<store, buses, calls, lost>>
    <3>1. Aside
      BY <1>0, <1>2, <2>1 DEF Conclude, Aside, hooks, RunState
    <3> QED BY <3>1 DEF StoreStep
  <2>2. ASSUME mode = "up", NEW failing \in SUBSET {r},
               Losing(failing), store' = EndReq(store, r, verdict, failing),
               calls' = calls \cup CallsFor({r}, verdict, Attempts)
        PROVE  StoreStep
    <3>1. /\ run[r] = "live" /\ run' = [run EXCEPT ![r] = "settled"]
          /\ UNCHANGED <<mode, told, cut>> /\ r \in Req
      BY <1>2 DEF Conclude
    <3>2. Recorded(r, verdict, failing)
      BY <2>2, <3>1, EndSteps
    <3> QED BY <3>1, <3>2 DEF StoreStep
  <2> QED BY <1>2, <2>1, <2>2 DEF Conclude
<1>3. ASSUME NEW r \in Plain, NEW verdict \in Verdict, ConcludePlain(r, verdict)
      PROVE  StoreStep
  <2>1. PICK failing \in SUBSET {r} :
          Losing(failing) /\ store' = EndReq(store, r, verdict, failing)
    BY <1>3 DEF ConcludePlain
  <2>2. /\ run[r] = "live" /\ run' = [run EXCEPT ![r] = "closed"]
        /\ UNCHANGED <<mode, told, cut>> /\ r \in Req /\ r \notin Agent /\ calls' = calls
    BY <1>3 DEF ConcludePlain, hooks
  <2>3. CallsFor({r}, verdict, Attempts) = {}
    BY <2>2 DEF CallsFor
  <2>4. Recorded(r, verdict, failing)
    BY <2>1, <2>2, <2>3, EndSteps
  <2> QED BY <2>2, <2>4 DEF StoreStep
<1>4. ASSUME NEW r \in Agent, CloseRun(r) \/ Abort(r) \/ BusyTimeout(r) \/ BusExpires(r)
      PROVE  StoreStep
  <2>1. Aside
    BY <1>0, <1>4 DEF CloseRun, Abort, BusyTimeout, BusExpires, Aside, RunState
  <2> QED BY <2>1 DEF StoreStep
<1>5. CASE Deliver
  BY <1>5 DEF StoreStep
<1>6. CASE Shutdown
  <2>1. PICK failing \in SUBSET Pending(store) :
          Losing(failing) /\ store' = FailPendingReqs(store, failing)
    BY <1>6 DEF Shutdown
  <2>2. Drained(failing)
    BY <1>6, <2>1, FailStore DEF Drained, Shutdown, Losing, live, RecordInv
  <2> QED BY <2>2 DEF StoreStep
<1>7. CASE Exit \/ Crash
  BY <1>7, DeathSteps DEF StoreStep
<1>8. CASE Boot
  BY <1>8, BootSteps DEF StoreStep
<1>9. CASE UNCHANGED vars
  <2>1. Aside
    BY <1>9 DEF vars, live, Aside
  <2> QED BY <2>1 DEF StoreStep
<1>10. {"completed", "failed"} \subseteq Verdict
  BY DEF Verdict
<1>11. CASE Next
  BY <1>1, <1>2, <1>3, <1>4, <1>5, <1>6, <1>7, <1>8, <1>10, <1>11 DEF Next, Ends, EndsPlain
<1> QED BY <1>9, <1>11

LEMMA StoreTypes ==
  ASSUME RecordInv
  PROVE  /\ run \in [Req -> RunState] /\ store \in Store /\ StoreOK(store)
         /\ store.file \in [Req -> OnDisk] /\ store.meta \in [Req -> Indexed]
         /\ \A r \in Req : Course(r)
         /\ Pending(store) \subseteq Req /\ Orphans(store) \subseteq Req
         /\ Readable(store) \subseteq Req
BY StoreParts DEF RecordInv, TypeOK, RunState, Pending, Orphans, Readable

\* One step per kind of step: the record of q after it.
LEMMA CourseNext ==
  ASSUME RecordInv, StoreStep, NEW q \in Req
  PROVE  Course(q)'
<1>0. /\ run \in [Req -> RunState] /\ Course(q)
      /\ store.file \in [Req -> OnDisk] /\ store.meta \in [Req -> Indexed]
  BY StoreTypes
<1>1. ASSUME NEW r \in Req, NEW gone \in SUBSET Req, NEW failing \in SUBSET {r},
             Started(r, gone, failing)
      PROVE  Course(q)'
  BY <1>0, <1>1 DEF Started, Starts, Arrives, Course, MetaOf, RunState
<1>2. ASSUME NEW r \in Req, NEW v \in Verdict, NEW failing \in SUBSET {r},
             Recorded(r, v, failing)
      PROVE  Course(q)'
  <2>1. /\ MetaOf(v) \notin {"none", "pending"} /\ v \notin {"none", "pending", "torn"}
        /\ Course(r)
    BY StoreTypes DEF MetaOf, Verdict
  <2>2. CASE q = r
    BY <1>0, <1>2, <2>1, <2>2 DEF Recorded, Records, Course, RunState
  <2>3. CASE q # r
    BY <1>0, <1>2, <2>3 DEF Recorded, Records, Course, RunState
  <2> QED BY <2>2, <2>3
<1>3. CASE Aside
  BY <1>0, <1>3 DEF Aside, Course
<1>4. CASE Deliver
  BY <1>0, <1>4 DEF Deliver, Delivered, DeliveryFails, live, Course
<1>5. ASSUME NEW failing \in SUBSET Pending(store), Drained(failing) PROVE Course(q)'
  BY <1>0, <1>5 DEF Drained, FailsPending, Course, Pending, MetaOf
<1>6. ASSUME NEW torn \in SUBSET Req, Died(torn) PROVE Course(q)'
  BY <1>0, <1>6 DEF Died, ProcessEnds, Course, RunState
<1>7. ASSUME NEW failing \in SUBSET Orphans(store), NEW kept \in SUBSET Readable(store),
             Swept(kept, failing)
      PROVE  Course(q)'
  BY <1>0, <1>7 DEF Swept, Sweeps, Course, Orphans, Readable, MetaOf
<1> QED BY <1>1, <1>2, <1>3, <1>4, <1>5, <1>6, <1>7 DEF StoreStep

LEMMA RestNext ==
  ASSUME RecordInv, StoreStep
  PROVE  StoreOK(store') /\ FewStarted' /\ (mode' = "down" => calls' = {})
<1>0. /\ run \in [Req -> RunState] /\ StoreOK(store) /\ \A r \in Req : Course(r)
      /\ IsFiniteSet({ r \in Req : run[r] # "none" }) /\ (mode = "down" => calls = {})
  BY StoreTypes DEF RecordInv, FewStarted
<1> DEFINE S == { r \in Req : run[r] # "none" }
           T == { r \in Req : run'[r] # "none" }
<1>1. ASSUME NEW r \in Req, NEW gone \in SUBSET Req, NEW failing \in SUBSET {r},
             Started(r, gone, failing)
      PROVE  StoreOK(store') /\ FewStarted' /\ (mode' = "down" => calls' = {})
  <2>1. T \subseteq S \cup {r}
    BY <1>0, <1>1 DEF Started
  <2>2. IsFiniteSet(S \cup {r})
    BY <1>0, FS_AddElement
  <2>3. FewStarted'
    BY <2>1, <2>2, FS_Subset DEF FewStarted
  <2> QED BY <1>1, <2>3 DEF Started, Starts, Arrives
<1>2. CASE T \subseteq S
  <2>1. FewStarted'
    BY <1>0, <1>2, FS_Subset DEF FewStarted
  <2> QED BY <1>0, <2>1 DEF StoreStep, Started, Starts, Recorded, Records, Aside, Deliver,
                           Delivered, DeliveryFails, live, hooks, Drained, FailsPending, Died,
                           ProcessEnds, Swept, Sweeps, Arrives, Course
<1>3. \/ T \subseteq S
      \/ \E r \in Req, gone \in SUBSET Req : \E failing \in SUBSET {r} :
           Started(r, gone, failing)
  BY <1>0 DEF StoreStep, Recorded, Aside, Deliver, Delivered, DeliveryFails, live,
              Drained, Died, ProcessEnds, Swept, RunState
<1> QED BY <1>1, <1>2, <1>3

LEMMA CallTypes ==
  ASSUME NEW reqs, NEW v \in Verdict, NEW tries \in 1 .. Attempts
  PROVE  CallsFor(reqs, v, tries) \subseteq Call
BY DEF CallsFor, Call

LEMMA TypesNext ==
  ASSUME RecordInv, [Next]_vars, StoreOK(store')
  PROVE  TypeOK'
<1> USE AgentRequests, BoundAssumption
<1>0. TypeOK /\ store' \in Store
  BY DEF RecordInv, StoreOK
<1>1. ASSUME NEW r \in Req, (r \in Agent /\ StartAgent(r)) \/ StartPlain(r)
      PROVE  TypeOK'
  <2>1. lost' \subseteq Req
    <3>1. PICK failing \in SUBSET {r} : Losing(failing)
      BY <1>1 DEF StartAgent, StartPlain
    <3> QED BY <1>0, <3>1 DEF Losing, TypeOK
  <2>2. CASE StartAgent(r) /\ r \in Agent
    <3>1. aborted' \subseteq Agent
      BY <1>0, <2>2 DEF StartAgent, Superseded, TypeOK
    <3>2. /\ run' \in [Req -> {"none", "live", "settled", "closed"}]
          /\ holder' \in [Session -> Agent \cup {NoReq}]
      BY <1>0, <2>2 DEF StartAgent, TypeOK
    <3> QED BY <1>0, <2>1, <2>2, <3>1, <3>2 DEF StartAgent, TypeOK, hooks
  <2>3. CASE StartPlain(r)
    BY <1>0, <2>1, <2>3 DEF StartPlain, TypeOK, hooks
  <2> QED BY <1>1, <2>2, <2>3
<1>2. ASSUME NEW r \in Agent, NEW v \in Verdict, Conclude(r, v) PROVE TypeOK'
  <2>1. CallsFor({r}, v, Attempts) \subseteq Call
    BY CallTypes
  <2> QED BY <1>0, <1>2, <2>1 DEF Conclude, Losing, TypeOK
<1>3. ASSUME NEW r \in Agent, CloseRun(r) PROVE TypeOK'
  BY <1>0, <1>3 DEF CloseRun, TypeOK, hooks
<1>4. ASSUME NEW r \in Agent, Abort(r) \/ BusyTimeout(r) \/ BusExpires(r) PROVE TypeOK'
  BY <1>0, <1>4 DEF Abort, BusyTimeout, BusExpires, TypeOK, hooks
<1>5. ASSUME NEW r \in Plain, NEW v \in Verdict, ConcludePlain(r, v) PROVE TypeOK'
  BY <1>0, <1>5 DEF ConcludePlain, Losing, TypeOK, hooks
<1>6. ASSUME NEW c \in calls, Delivered(c) \/ DeliveryFails(c) PROVE TypeOK'
  <2>1. c \in Call /\ c.req \in Hooked /\ c.verdict \in Verdict /\ c.left \in 1 .. Attempts
    BY <1>0 DEF TypeOK, Call
  <2>2. told' \in [Hooked -> SUBSET Verdict]
    BY <1>0, <1>6, <2>1 DEF Delivered, DeliveryFails, TypeOK
  <2>3. c.left > 1 => [c EXCEPT !.left = @ - 1] \in Call
    BY <2>1 DEF Call
  <2>4. calls' \subseteq Call /\ cut' \subseteq Hooked
    BY <1>0, <1>6, <2>1, <2>3 DEF Delivered, DeliveryFails, TypeOK
  <2> QED BY <1>0, <1>6, <2>2, <2>4 DEF Delivered, DeliveryFails, TypeOK, live
<1>7. CASE Shutdown
  <2>1. CallsFor(Pending(store) \cap Orphans(store), "orphaned", 1) \subseteq Call
    BY CallTypes DEF Verdict
  <2>2. lost' \subseteq Req
    BY <1>0, <1>7 DEF Shutdown, Losing, TypeOK, Pending
  <2>3. stops' \in 0 .. MaxStops
    BY <1>0, <1>7 DEF Shutdown, TypeOK
  <2>4. calls' \subseteq Call
    BY <1>0, <1>7, <2>1 DEF Shutdown, TypeOK
  <2> QED BY <1>0, <1>7, <2>2, <2>3, <2>4 DEF Shutdown, TypeOK, live
<1>8. CASE Exit \/ Crash
  <2>1. { c.req : c \in calls } \subseteq Hooked
    BY <1>0 DEF TypeOK, Call
  <2>2. lost' \subseteq Req /\ stops' \in 0 .. MaxStops
    <3>1. CASE Exit
      BY <1>0, <3>1 DEF Exit, TypeOK
    <3>2. CASE Crash
      <4>1. lost' \subseteq Req
        BY <1>0, <3>2 DEF Crash, Losing, TypeOK
      <4>2. stops' \in 0 .. MaxStops
        BY <1>0, <3>2 DEF Crash, TypeOK
      <4> QED BY <4>1, <4>2
    <3> QED BY <1>8, <3>1, <3>2
  <2> QED BY <1>0, <1>8, <2>1, <2>2, Ending DEF ProcessEnds, TypeOK
<1>9. CASE Boot
  <2>1. CallsFor(Orphans(store), "orphaned", Attempts) \subseteq Call
    BY CallTypes DEF Verdict
  <2>2. Orphans(store) \subseteq Req
    BY DEF Orphans
  <2> QED BY <1>0, <1>9, <2>1, <2>2 DEF Boot, Losing, TypeOK, live
<1>10. CASE UNCHANGED vars
  BY <1>0, <1>10 DEF TypeOK, vars, live, hooks
<1>11. {"completed", "failed"} \subseteq Verdict
  BY DEF Verdict
<1> QED BY <1>1, <1>2, <1>3, <1>4, <1>5, <1>6, <1>7, <1>8, <1>9, <1>10, <1>11
       DEF Next, Ends, EndsPlain, Deliver

LEMMA EmptyStoreOK == StoreOK(EmptyStore)
<1>1. EmptyStore \in Store
  BY DEF EmptyStore, Store, OnDisk, Indexed
<1> QED BY <1>1 DEF StoreOK, EmptyStore, OneEach, Listed

LEMMA RecordInit == Init => RecordInv
<1> SUFFICES ASSUME Init PROVE RecordInv
  OBVIOUS
<1>1. StoreOK(store) /\ store.meta = [r \in Req |-> "none"] /\ store.file = [r \in Req |-> "none"]
  BY EmptyStoreOK DEF Init, EmptyStore
<1>2. TypeOK
  BY <1>1, AgentRequests, BoundAssumption DEF Init, TypeOK, StoreOK
<1>3. FewStarted
  <2>1. { r \in Req : run[r] # "none" } = {}
    BY DEF Init
  <2> QED BY <2>1, FS_EmptySet DEF FewStarted
<1>4. \A r \in Req : Course(r)
  BY <1>1 DEF Init, Course
<1> QED BY <1>1, <1>2, <1>3, <1>4 DEF RecordInv, Init

LEMMA RecordNext == RecordInv /\ [Next]_vars => RecordInv'
<1> SUFFICES ASSUME RecordInv, [Next]_vars PROVE RecordInv'
  OBVIOUS
<1>1. StoreStep
  BY Steps
<1>2. StoreOK(store') /\ FewStarted' /\ (mode' = "down" => calls' = {})
  BY <1>1, RestNext
<1>3. TypeOK'
  BY <1>2, TypesNext
<1>4. \A r \in Req : Course(r)'
  BY <1>1, CourseNext
<1> QED BY <1>2, <1>3, <1>4 DEF RecordInv

LEMMA RecordInvariant == Spec => []RecordInv
BY RecordInit, RecordNext, PTL DEF Spec

\* The index in memory and the files agree on every request whose writes
\* succeeded, over evictions, drains, crashes and restarts (reqs.ts:62-249).
THEOREM StoreSoundTheorem == Spec => []StoreSound
<1>1. RecordInv => StoreSound
  <2> SUFFICES ASSUME RecordInv PROVE StoreSound
    OBVIOUS
  <2>1. /\ StoreOK(store) /\ TypeOK /\ \A r \in Req : Course(r)
        /\ store.order \in Seq(Req)
    BY StoreParts DEF RecordInv, StoreOK
  <2>2. Listed(store.order) \subseteq Req
    BY <2>1 DEF Listed
  <2>3. IndexAgreesWithDisk
    BY <2>1, <2>2 DEF IndexAgreesWithDisk, Listed, StoreOK, Course
  <2> QED BY <2>1, <2>3 DEF StoreSound
<1> QED BY <1>1, RecordInvariant, PTL

-----------------------------------------------------------------------------
(* The webhooks.                                                           *)

\* The webhook was told, or given up, or a call to it is under way.
Owed(r) == told[r] # {} \/ r \in cut \/ \E c \in calls : c.req = r

\* The verdicts a webhook was told, or will be.
Hears(r, v) == v \in told[r] \/ \E c \in calls : c.req = r /\ c.verdict = v

Hook(r) ==
  /\ run[r] = "none" => \A v \in Verdict : ~Hears(r, v)
  /\ r \notin lost =>
       /\ store.file[r] = "pending" => \A v \in Verdict : ~Hears(r, v)
       /\ store.file[r] \in Verdict =>
            /\ \A v \in Verdict : Hears(r, v) => v = store.file[r]
            /\ Owed(r)
       /\ store.file[r] = "none" => \A u, v \in Verdict : Hears(r, u) /\ Hears(r, v) => u = v

LEMMA NewCalls ==
  ASSUME NEW reqs, NEW v, NEW tries, NEW q \in Hooked
  PROVE  /\ \A c \in CallsFor(reqs, v, tries) : c.verdict = v /\ c.req \in reqs
         /\ q \in reqs => \E c \in CallsFor(reqs, v, tries) : c.req = q /\ c.verdict = v
<1> DEFINE call(r) == [req |-> r, verdict |-> v, left |-> tries]
<1>1. CallsFor(reqs, v, tries) = { call(r) : r \in reqs \cap Hooked }
  BY DEF CallsFor
<1>2. \A r : call(r).req = r /\ call(r).verdict = v
  OBVIOUS
<1> HIDE DEF call
<1> QED BY <1>1, <1>2

\* A request whose file is pending has told nothing yet, so the one verdict that
\* is written is the one that is told.
LEMMA HookNext ==
  ASSUME RecordInv, StoreStep, NEW q \in Hooked, Hook(q)
  PROVE  Hook(q)'
<1>0. /\ run \in [Req -> RunState] /\ Course(q) /\ q \in Req /\ q \in Agent
      /\ store.file \in [Req -> OnDisk] /\ store.meta \in [Req -> Indexed]
      /\ told \in [Hooked -> SUBSET Verdict] /\ calls \subseteq Call
      /\ mode = "down" => calls = {}
  BY StoreTypes, AgentRequests DEF RecordInv, TypeOK
<1>1. ASSUME NEW r \in Req, NEW gone \in SUBSET Req, NEW failing \in SUBSET {r},
             Started(r, gone, failing)
      PROVE  Hook(q)'
  <2>1. \A v \in Verdict : Hears(q, v)' <=> Hears(q, v)
    BY <1>1 DEF Started, hooks, Hears
  <2>2. UNCHANGED <<told, calls, cut>>
    BY <1>1 DEF Started, hooks
  <2>3. CASE q = r
    BY <1>0, <1>1, <2>1, <2>3 DEF Started, Starts, Arrives, Hook, Verdict
  <2>4. CASE q # r /\ q \in gone
    <3>1. q \notin lost => store.file[q] \in Verdict
      BY <1>0, <1>1, <2>4 DEF Started, Starts, Arrives, Course, MetaOf, OnDisk
    <3> QED BY <1>0, <1>1, <2>1, <2>4, <3>1 DEF Started, Starts, Hook, Verdict
  <2>5. CASE q # r /\ q \notin gone
    BY <1>0, <1>1, <2>1, <2>2, <2>5 DEF Started, Starts, Hook, Owed
  <2> QED BY <2>3, <2>4, <2>5
<1>2. ASSUME NEW r \in Req, NEW w \in Verdict, NEW failing \in SUBSET {r},
             Recorded(r, w, failing)
      PROVE  Hook(q)'
  <2>1. /\ told' = told /\ cut' = cut /\ calls \subseteq calls'
        /\ \A c \in calls' \ calls : c.verdict = w /\ c.req = r
        /\ q = r => \E c \in calls' : c.req = q /\ c.verdict = w
    <3>1. \A c \in CallsFor({r}, w, Attempts) : c.verdict = w /\ c.req \in {r}
      BY NewCalls
    <3>2. q \in {r} => \E c \in CallsFor({r}, w, Attempts) : c.req = q /\ c.verdict = w
      BY NewCalls
    <3> QED BY <1>2, <3>1, <3>2 DEF Recorded
  <2>2. CASE q = r
    <3>1. q \notin lost => store.file[q] = "pending"
      BY <1>0, <1>2, <2>2 DEF Recorded, Course, MetaOf
    <3>2. q \notin lost' => store'.file[q] = w /\ q \notin lost
      BY <1>0, <1>2, <2>2 DEF Recorded, Records
    <3>3. q \notin lost => \A v \in Verdict : Hears(q, v)' => v = w
      BY <2>1, <3>1 DEF Hook, Hears
    <3>4. run'[q] # "none"
      BY <1>0, <1>2, <2>2 DEF Recorded
    <3> QED BY <2>1, <2>2, <3>2, <3>3, <3>4 DEF Hook, Owed, Verdict
  <2>3. CASE q # r
    <3>1. \A v \in Verdict : Hears(q, v)' <=> Hears(q, v)
      BY <2>1, <2>3 DEF Hears
    <3>2. /\ run'[q] = run[q] /\ store'.file[q] = store.file[q]
          /\ (q \in lost' <=> q \in lost)
      BY <1>0, <1>2, <2>3 DEF Recorded, Records
    <3> QED BY <2>1, <3>1, <3>2 DEF Hook, Owed
  <2> QED BY <2>2, <2>3
<1>3. CASE Aside
  BY <1>0, <1>3 DEF Aside, hooks, Hook, Owed, Hears
<1>4. ASSUME NEW d \in calls, Delivered(d) \/ DeliveryFails(d)
      PROVE  Hook(q)'
  <2>0. UNCHANGED <<run, store, lost>>
    BY <1>4 DEF Delivered, DeliveryFails, live
  <2>1. d \in Call /\ d.req \in Hooked
    BY <1>0, <1>4 DEF Call
  <2>2. /\ \A c \in calls' : \E b \in calls : b.req = c.req /\ b.verdict = c.verdict
        /\ \A v \in told'[q] : v \in told[q] \/ (q = d.req /\ v = d.verdict)
    <3>1. d.left > 1 => /\ [d EXCEPT !.left = @ - 1].req = d.req
                        /\ [d EXCEPT !.left = @ - 1].verdict = d.verdict
      BY <2>1 DEF Call
    <3> QED BY <1>0, <1>4, <2>1, <3>1 DEF Delivered, DeliveryFails
  <2>3. \A v \in Verdict : Hears(q, v)' => Hears(q, v)
    BY <1>4, <2>2 DEF Hears
  <2>4. Owed(q) => Owed(q)'
    <3>1. told[q] \subseteq told'[q] /\ cut \subseteq cut' /\ calls \ {d} \subseteq calls'
      BY <1>0, <1>4, <2>1 DEF Delivered, DeliveryFails
    <3>2. CASE d.req # q
      BY <3>1, <3>2 DEF Owed
    <3>3. CASE d.req = q /\ Delivered(d)
      BY <1>0, <2>1, <3>3 DEF Owed, Delivered
    <3>4. CASE d.req = q /\ DeliveryFails(d)
      <4>1. d.left > 1 => [d EXCEPT !.left = @ - 1].req = d.req
        BY <2>1 DEF Call
      <4> QED BY <3>4, <4>1 DEF Owed, DeliveryFails
    <3> QED BY <1>4, <3>2, <3>3, <3>4
  <2> QED BY <2>0, <2>3, <2>4 DEF Hook
<1>5. ASSUME NEW failing \in SUBSET Pending(store), Drained(failing) PROVE Hook(q)'
  <2>1. /\ told' = told /\ cut' = cut /\ calls \subseteq calls' /\ run' = run
        /\ \A c \in calls' \ calls :
             c.verdict = "orphaned" /\ c.req \in Pending(store) \cap Orphans(store)
        /\ q \in Pending(store) \cap Orphans(store) =>
             \E c \in calls' : c.req = q /\ c.verdict = "orphaned"
    <3> DEFINE owed == Pending(store) \cap Orphans(store)
    <3>1. \A c \in CallsFor(owed, "orphaned", 1) : c.verdict = "orphaned" /\ c.req \in owed
      BY NewCalls
    <3>2. q \in owed => \E c \in CallsFor(owed, "orphaned", 1) :
                          c.req = q /\ c.verdict = "orphaned"
      BY NewCalls
    <3> QED BY <1>5, <3>1, <3>2 DEF Drained
  <2>2. CASE q \in Pending(store)
    <3>1. q \notin lost => store.file[q] = "pending"
      BY <1>0, <1>5, <2>2 DEF Drained, Course, MetaOf, Pending
    <3>2. q \notin lost' => store'.file[q] = "orphaned" /\ q \notin lost
      BY <1>0, <1>5, <2>2 DEF Drained, FailsPending
    <3>3. q \notin lost => \A v \in Verdict : Hears(q, v)' => v = "orphaned"
      BY <2>1, <3>1 DEF Hook, Hears
    <3>4. run'[q] # "none"
      BY <1>0, <2>1, <2>2 DEF Pending, Course
    <3>5. q \notin lost => q \in Pending(store) \cap Orphans(store)
      BY <1>0, <2>2, <3>1 DEF Orphans
    <3> QED BY <2>1, <3>2, <3>3, <3>4, <3>5 DEF Hook, Owed, Verdict
  <2>3. CASE q \notin Pending(store)
    <3>1. \A v \in Verdict : Hears(q, v)' <=> Hears(q, v)
      BY <2>1, <2>3 DEF Hears
    <3>2. /\ store'.file[q] = store.file[q]
          /\ (q \in lost' <=> q \in lost)
      BY <1>0, <1>5, <2>3 DEF Drained, FailsPending
    <3> QED BY <2>1, <3>1, <3>2 DEF Hook, Owed
  <2> QED BY <2>2, <2>3
<1>6. ASSUME NEW torn \in SUBSET Req, Died(torn) PROVE Hook(q)'
  <2>1. /\ told' = told /\ calls' = {} /\ \A c \in calls : c.req \in cut'
        /\ cut \subseteq cut' /\ (run'[q] = "none" <=> run[q] = "none")
    BY <1>0, <1>6 DEF Died, ProcessEnds
  <2>2. \A v \in Verdict : Hears(q, v)' => Hears(q, v)
    BY <2>1 DEF Hears
  <2>3. Owed(q) => Owed(q)'
    BY <2>1 DEF Owed
  <2>4. q \notin lost' => q \notin lost /\ store'.file[q] = store.file[q]
    BY <1>0, <1>6 DEF Died
  <2> QED BY <2>1, <2>2, <2>3, <2>4 DEF Hook
<1>7. ASSUME NEW failing \in SUBSET Orphans(store), NEW kept \in SUBSET Readable(store),
             Swept(kept, failing)
      PROVE  Hook(q)'
  <2>1. /\ told' = told /\ cut' = cut /\ run' = run /\ calls = {}
        /\ \A c \in calls' : c.verdict = "orphaned" /\ c.req \in Orphans(store)
        /\ q \in Orphans(store) => \E c \in calls' : c.req = q /\ c.verdict = "orphaned"
    <3> DEFINE owed == Orphans(store)
    <3>1. \A c \in CallsFor(owed, "orphaned", Attempts) :
            c.verdict = "orphaned" /\ c.req \in owed
      BY NewCalls
    <3>2. q \in owed => \E c \in CallsFor(owed, "orphaned", Attempts) :
                          c.req = q /\ c.verdict = "orphaned"
      BY NewCalls
    <3> QED BY <1>0, <1>7, <3>1, <3>2 DEF Swept
  <2>2. CASE q \in Orphans(store)
    <3>1. store.file[q] = "pending" /\ run[q] # "none"
      BY <1>0, <2>2 DEF Orphans, Course
    <3>2. q \notin lost' => store'.file[q] \in {"none", "orphaned"} /\ q \notin lost
      BY <1>0, <1>7, <2>2 DEF Swept, Sweeps
    <3>3. q \notin lost => \A v \in Verdict : Hears(q, v)' => v = "orphaned"
      BY <2>1, <3>1 DEF Hook, Hears
    <3> QED BY <2>1, <2>2, <3>1, <3>2, <3>3 DEF Hook, Owed, Verdict
  <2>3. CASE q \notin Orphans(store)
    <3>1. \A v \in Verdict : Hears(q, v)' <=> Hears(q, v)
      BY <2>1, <2>3 DEF Hears
    <3>2. /\ store'.file[q] \in {"none", store.file[q]}
          /\ (q \in lost' <=> q \in lost) /\ store'.file[q] # "pending"
      BY <1>0, <1>7, <2>3 DEF Swept, Sweeps, Orphans
    <3>3. store.file[q] = "torn" => q \in lost
      BY <1>0 DEF Course
    <3>4. store.file[q] \in Verdict \cup {"none", "pending", "torn"}
      BY <1>0 DEF OnDisk
    <3>5. store.file[q] # "pending"
      BY <1>0, <2>3 DEF Orphans
    <3> QED BY <2>1, <3>1, <3>2, <3>3, <3>4, <3>5 DEF Hook, Owed, Verdict
  <2> QED BY <2>2, <2>3
<1> QED BY <1>1, <1>2, <1>3, <1>4, <1>5, <1>6, <1>7 DEF StoreStep, Deliver

HookInv == RecordInv /\ \A r \in Hooked : Hook(r)

LEMMA HookInvariant == Spec => []HookInv
<1>1. Init => HookInv
  <2> SUFFICES ASSUME Init PROVE HookInv
    OBVIOUS
  <2>1. RecordInv
    BY RecordInit
  <2>2. \A r \in Hooked : told[r] = {} /\ calls = {}
    BY DEF Init
  <2>3. store.file = [r \in Req |-> "none"]
    BY DEF Init, EmptyStore
  <2> QED BY <2>1, <2>2, <2>3, AgentRequests DEF HookInv, Hook, Hears, Verdict
<1>2. HookInv /\ [Next]_vars => HookInv'
  BY RecordNext, Steps, HookNext DEF HookInv
<1> QED BY <1>1, <1>2, PTL DEF Spec

LEMMA AtMostOne ==
  ASSUME NEW S, \A u, v \in S : u = v
  PROVE  Cardinality(S) <= 1
<1>1. CASE S = {}
  BY <1>1, FS_EmptySet
<1>2. CASE S # {}
  <2>1. PICK v : S = {v}
    BY <1>2
  <2> QED BY <2>1, FS_Singleton
<1> QED BY <1>1, <1>2

\* A webhook hears nothing but the verdict on record, and once that is written it
\* has heard it, or is about to, unless every try failed or the process stopped
\* meanwhile (repo/index.ts:331-441).
THEOREM CallerToldTheorem == Spec => []CallerToldRecord
<1>1. HookInv => CallerToldRecord
  <2> SUFFICES ASSUME HookInv PROVE CallerToldRecord
    OBVIOUS
  <2>1. ASSUME NEW r \in Hooked \ lost
        PROVE  /\ Cardinality(told[r]) <= 1
               /\ store.file[r] # "none" => told[r] \subseteq {store.file[r]}
               /\ store.file[r] \in Verdict => Owed(r)
    <3>1. /\ told[r] \subseteq Verdict /\ Hook(r) /\ \A v \in told[r] : Hears(r, v)
          /\ store.file[r] # "torn" /\ store.file[r] \in OnDisk /\ r \in Req
      BY StoreTypes, AgentRequests DEF HookInv, RecordInv, TypeOK, Course, Hears
    <3>2. \A u, v \in told[r] : u = v
      BY <3>1 DEF Hook, OnDisk
    <3>3. store.file[r] # "none" => told[r] \subseteq {store.file[r]}
      BY <3>1 DEF Hook, OnDisk
    <3>4. store.file[r] \in Verdict => Owed(r)
      BY <3>1 DEF Hook
    <3> QED BY <3>2, <3>3, <3>4, AtMostOne
  <2> QED BY <2>1 DEF CallerToldRecord, CallerHearsTheRecord, NoticeOwed, Owed
<1> QED BY <1>1, HookInvariant, PTL

-----------------------------------------------------------------------------
(* The cap.                                                                *)

\* What CapRespected says of a step.
StepKeeps ==
  mode # "down" =>
    /\ \A r \in Req \ lost : store.file[r] = "pending" => store'.file[r] # "none"
    /\ Len(store.order) >= MaxReqs /\ Len(store'.order) > Len(store.order) =>
         \A i \in DOMAIN store.order : store.meta[store.order[i]] = "pending"

LEMMA StepKeepsPending ==
  ASSUME RecordInv, StoreStep, mode # "down", NEW q \in Req, q \notin lost,
         store.file[q] = "pending"
  PROVE  store'.file[q] # "none"
<1>0. /\ store.file \in [Req -> OnDisk] /\ store.meta[q] = "pending"
  BY StoreTypes DEF Course
<1>1. ASSUME NEW r \in Req, NEW gone \in SUBSET Req, NEW failing \in SUBSET {r},
             Started(r, gone, failing)
      PROVE  store'.file[q] # "none"
  BY <1>0, <1>1 DEF Started, Starts
<1>2. ASSUME NEW r \in Req, NEW v \in Verdict, NEW failing \in SUBSET {r},
             Recorded(r, v, failing)
      PROVE  store'.file[q] # "none"
  BY <1>0, <1>2 DEF Recorded, Records, Verdict
<1>3. CASE Aside
  BY <1>0, <1>3 DEF Aside
<1>4. CASE Deliver
  BY <1>0, <1>4 DEF Deliver, Delivered, DeliveryFails
<1>5. ASSUME NEW failing \in SUBSET Pending(store), Drained(failing)
      PROVE  store'.file[q] # "none"
  BY <1>0, <1>5 DEF Drained, FailsPending
<1>6. ASSUME NEW torn \in SUBSET Req, Died(torn) PROVE store'.file[q] # "none"
  BY <1>0, <1>6 DEF Died
<1> QED BY <1>1, <1>2, <1>3, <1>4, <1>5, <1>6 DEF StoreStep, Swept

LEMMA StepKeepsCap ==
  ASSUME RecordInv, StoreStep, mode # "down"
  PROVE  Len(store'.order) > Len(store.order) /\ Len(store.order) >= MaxReqs =>
           Ended(store) = {}
<1>0. Len(store.order) \in Nat
  BY StoreTypes, StoreParts
<1>1. ASSUME NEW torn \in SUBSET Req, Died(torn) PROVE Len(store'.order) = 0
  BY <1>1 DEF Died
<1>2. \/ store'.order = store.order
      \/ Len(store'.order) = 0
      \/ \E r \in Req, gone \in SUBSET Req : \E failing \in SUBSET {r} :
           Started(r, gone, failing)
  BY <1>1 DEF StoreStep, Recorded, Records, Aside, Deliver, Delivered, DeliveryFails,
              Drained, FailsPending, Swept
<1>3. CASE Len(store'.order) = Len(store.order) \/ Len(store'.order) = 0
  BY <1>0, <1>3
<1>4. ASSUME NEW r \in Req, NEW gone \in SUBSET Req, NEW failing \in SUBSET {r},
             Started(r, gone, failing)
      PROVE  Len(store'.order) > Len(store.order) /\ Len(store.order) >= MaxReqs =>
               Ended(store) = {}
  BY <1>4 DEF Started, Starts
<1> QED BY <1>2, <1>3, <1>4

\* A running server removes no file of a pending request, and lets its index grow
\* past MAX_REQS only when all of it is pending (reqs.ts:99-139).
THEOREM CapTheorem == Spec => CapRespected
<1>1. RecordInv /\ [Next]_vars => StepKeeps
  <2> SUFFICES ASSUME RecordInv, [Next]_vars, mode # "down"
               PROVE  /\ \A r \in Req \ lost :
                           store.file[r] = "pending" => store'.file[r] # "none"
                      /\ Len(store.order) >= MaxReqs /\ Len(store'.order) > Len(store.order) =>
                           \A i \in DOMAIN store.order : store.meta[store.order[i]] = "pending"
    BY DEF StepKeeps
  <2>1. StoreStep
    BY Steps
  <2>2. \A r \in Req \ lost : store.file[r] = "pending" => store'.file[r] # "none"
    BY <2>1, StepKeepsPending
  <2>3. Ended(store) = {} =>
          \A i \in DOMAIN store.order : store.meta[store.order[i]] = "pending"
    BY DEF Ended
  <2>4. Len(store'.order) > Len(store.order) /\ Len(store.order) >= MaxReqs =>
          Ended(store) = {}
    BY <2>1, StepKeepsCap
  <2> QED BY <2>2, <2>3, <2>4
<1> QED BY <1>1, RecordInvariant, PTL DEF Spec, CapRespected, StepKeeps

-----------------------------------------------------------------------------
(* RequestStatus.                                                          *)

StatusFn == [r \in Agent |-> StatusOf(r)]

\* The moves of RequestStatus, as relations of a status to the next one.
Moved(from, to) ==
  \/ to = from
  \/ from = "absent" /\ to \in {"pending", "lost"}
  \/ from = "pending" /\ to \in Verdict \cup {"forgotten", "lost"}
  \/ from \in Verdict /\ to = "forgotten"

LEMMA StatusValues ==
  ASSUME RecordInv, NEW q \in Agent
  PROVE  StatusOf(q) \in Verdict \cup {"absent", "pending", "forgotten", "lost"}
BY StoreTypes, AgentRequests DEF StatusOf, Course, OnDisk

LEMMA StatusMoved ==
  ASSUME RecordInv, StoreStep, NEW q \in Agent
  PROVE  Moved(StatusOf(q), StatusOf(q)')
<1>0. /\ run \in [Req -> RunState] /\ Course(q) /\ q \in Req /\ q \notin Plain
      /\ store.file \in [Req -> OnDisk] /\ store.meta \in [Req -> Indexed]
  BY StoreTypes, AgentRequests
<1>1. ASSUME run'[q] = "none" <=> run[q] = "none", store'.file[q] = store.file[q],
             q \in lost' <=> q \in lost
      PROVE  Moved(StatusOf(q), StatusOf(q)')
  BY <1>1 DEF Moved, StatusOf
<1>2. CASE q \in lost /\ q \in lost'
  BY <1>2 DEF Moved, StatusOf
<1>3. ASSUME q \notin lost, run[q] # "none", run'[q] # "none", store.file[q] = "pending",
             store'.file[q] \in {"none", "pending"} \cup Verdict \/ q \in lost'
      PROVE  Moved(StatusOf(q), StatusOf(q)')
  BY <1>3 DEF Moved, StatusOf, Verdict
<1>4. ASSUME NEW r \in Req, NEW gone \in SUBSET Req, NEW failing \in SUBSET {r},
             Started(r, gone, failing), q \notin lost
      PROVE  Moved(StatusOf(q), StatusOf(q)')
  <2>1. CASE q = r
    BY <1>0, <1>4, <2>1 DEF Started, Starts, Arrives, StatusOf, Moved
  <2>2. CASE q # r /\ q \in gone
    <3>1. store.file[q] \in Verdict
      BY <1>0, <1>4, <2>2 DEF Started, Starts, Arrives, Course, MetaOf, OnDisk
    <3> QED BY <1>0, <1>4, <2>2, <3>1 DEF Started, Starts, StatusOf, Moved, Verdict
  <2>3. CASE q # r /\ q \notin gone
    BY <1>0, <1>1, <1>4, <2>3 DEF Started, Starts
  <2> QED BY <2>1, <2>2, <2>3
<1>5. ASSUME NEW r \in Req, NEW v \in Verdict, NEW failing \in SUBSET {r},
             Recorded(r, v, failing), q \notin lost
      PROVE  Moved(StatusOf(q), StatusOf(q)')
  <2>1. CASE q = r
    <3>1. /\ run[q] = "live" /\ run'[q] # "none" /\ store.file[q] = "pending"
      BY <1>0, <1>5, <2>1 DEF Recorded, Course, MetaOf
    <3>2. store'.file[q] \in {"pending"} \cup Verdict
      BY <1>0, <1>5, <2>1, <3>1 DEF Recorded, Records
    <3> QED BY <1>3, <1>5, <3>1, <3>2
  <2>2. CASE q # r
    BY <1>0, <1>1, <1>5, <2>2 DEF Recorded, Records
  <2> QED BY <2>1, <2>2
<1>6. CASE Aside \/ Deliver
  BY <1>0, <1>1, <1>6 DEF Aside, Deliver, Delivered, DeliveryFails, live
<1>7. ASSUME NEW failing \in SUBSET Pending(store), Drained(failing), q \notin lost
      PROVE  Moved(StatusOf(q), StatusOf(q)')
  <2>1. CASE q \in Pending(store)
    <3>1. run[q] # "none" /\ run'[q] # "none" /\ store.file[q] = "pending"
      BY <1>0, <1>7, <2>1 DEF Drained, Course, MetaOf, Pending
    <3>2. store'.file[q] \in {"pending"} \cup Verdict
      BY <1>0, <1>7, <2>1, <3>1 DEF Drained, FailsPending, Verdict
    <3> QED BY <1>3, <1>7, <3>1, <3>2
  <2>2. CASE q \notin Pending(store)
    BY <1>0, <1>1, <1>7, <2>2 DEF Drained, FailsPending
  <2> QED BY <2>1, <2>2
<1>8. ASSUME NEW torn \in SUBSET Req, Died(torn), q \notin lost
      PROVE  Moved(StatusOf(q), StatusOf(q)')
  <2>1. run'[q] = "none" <=> run[q] = "none"
    BY <1>0, <1>8 DEF Died, ProcessEnds
  <2>2. CASE q \in torn
    <3>1. run[q] = "live" /\ store.file[q] = "pending" /\ q \in lost'
      BY <1>0, <1>8, <2>2 DEF Died, Course, MetaOf
    <3> QED BY <1>3, <1>8, <2>1, <3>1
  <2>3. CASE q \notin torn
    BY <1>0, <1>1, <1>8, <2>1, <2>3 DEF Died
  <2> QED BY <2>2, <2>3
<1>9. ASSUME NEW failing \in SUBSET Orphans(store), NEW kept \in SUBSET Readable(store),
             Swept(kept, failing), q \notin lost
      PROVE  Moved(StatusOf(q), StatusOf(q)')
  <2>1. CASE q \in Orphans(store)
    <3>1. run[q] # "none" /\ run'[q] # "none" /\ store.file[q] = "pending"
      BY <1>0, <1>9, <2>1 DEF Swept, Course, Orphans
    <3>2. store'.file[q] \in {"none", "pending"} \cup Verdict
      BY <1>0, <1>9, <2>1, <3>1 DEF Swept, Sweeps, Verdict
    <3> QED BY <1>3, <1>9, <3>1, <3>2
  <2>2. CASE q \notin Orphans(store)
    <3>1. run' = run /\ q \notin lost' /\ store.file[q] \in Verdict \cup {"none"}
      BY <1>0, <1>9, <2>2 DEF Swept, Course, Orphans, OnDisk
    <3>2. CASE store'.file[q] = store.file[q]
      BY <1>1, <1>9, <3>1, <3>2
    <3>3. CASE store'.file[q] # store.file[q]
      <4>1. store'.file[q] = "none" /\ store.file[q] \in Verdict
        BY <1>0, <1>9, <2>2, <3>1, <3>3 DEF Swept, Sweeps
      <4> QED BY <1>0, <1>9, <3>1, <4>1 DEF StatusOf, Moved, Verdict, Course
    <3> QED BY <3>2, <3>3
  <2> QED BY <2>1, <2>2
<1>10. lost \subseteq lost'
  BY DEF StoreStep, Started, Recorded, Aside, Deliver, Delivered, DeliveryFails, Drained, Died,
         Swept
<1> QED BY <1>2, <1>4, <1>5, <1>6, <1>7, <1>8, <1>9, <1>10 DEF StoreStep

LEMMA MovedMoves ==
  ASSUME NEW from, NEW to, Moved(from, to),
         from \in Verdict \cup {"absent", "pending", "forgotten", "lost"}
  PROVE  to \in Status!Moves[from] \cup {from}
BY DEF Moved, Status!Moves, Status!Verdict, Verdict

\* Agent requests keep what RequestStatus promises: pending until one verdict is
\* written, and that verdict until the file is evicted, over drains and restarts.
THEOREM StatusRefined == Spec => StatusSpec
<1>1. Init => Status!Init
  BY AgentRequests DEF Init, Status!Init, StatusOf
<1>2. ASSUME RecordInv, RecordInv', [Next]_vars
      PROVE  Status!Next
  <2>1. ASSUME NEW r \in Agent
        PROVE  /\ StatusFn'[r] \in Status!Moves[StatusFn[r]] \cup {StatusFn[r]}
               /\ StatusFn'[r] \in DOMAIN Status!Moves
    <3>1. StatusFn[r] = StatusOf(r) /\ StatusFn'[r] = StatusOf(r)'
      BY <2>1 DEF StatusFn
    <3>2. Moved(StatusOf(r), StatusOf(r)')
      BY <1>2, <2>1, Steps, StatusMoved
    <3>3. StatusOf(r) \in Verdict \cup {"absent", "pending", "forgotten", "lost"}
      BY <1>2, <2>1, StatusValues
    <3>4. StatusOf(r)' \in Verdict \cup {"absent", "pending", "forgotten", "lost"}
      BY <3>2, <3>3 DEF Moved, Verdict
    <3>5. Verdict \cup {"absent", "pending", "forgotten", "lost"} = DOMAIN Status!Moves
      BY DEF Status!Moves, Verdict
    <3> QED BY <3>1, <3>2, <3>3, <3>4, <3>5, MovedMoves
  <2>2. StatusFn' \in [Agent -> DOMAIN Status!Moves]
    BY <2>1 DEF StatusFn
  <2> QED BY <2>1, <2>2 DEF Status!Next, StatusFn
<1> QED BY <1>1, <1>2, RecordInvariant, PTL DEF Spec, StatusSpec, Status!Spec

-----------------------------------------------------------------------------
(* The controllers.                                                        *)

\* The types of what these proofs read.
Typed ==
  /\ run \in [Req -> RunState]
  /\ holder \in [Session -> Agent \cup {NoReq}]

LEMMA TypedAlways == Spec => []Typed
<1>1. RecordInv => Typed
  BY DEF RecordInv, TypeOK, Typed, RunState
<1> QED BY <1>1, RecordInvariant, PTL

\* The actions that leave the runs and their controllers alone.
LEMMA Elsewhere ==
  ASSUME Deliver \/ Shutdown \/ Boot \/ UNCHANGED vars
  PROVE  UNCHANGED live
<1>1. CASE Deliver
  BY <1>1 DEF Deliver, Delivered, DeliveryFails
<1>2. CASE Shutdown
  BY <1>2 DEF Shutdown
<1>3. CASE Boot
  BY <1>3 DEF Boot
<1>4. CASE UNCHANGED vars
  BY <1>4 DEF vars
<1> QED BY <1>1, <1>2, <1>3, <1>4

\* A run that is superseded loses the session to another and is aborted in the
\* same step; a run that closes gives back the session only if it still has it.
LEMMA SessionHeldNext ==
  Typed /\ SessionHeldByLive /\ [Next]_vars => SessionHeldByLive'
<1> SUFFICES ASSUME Typed, SessionHeldByLive, [Next]_vars,
                    NEW q \in Agent, run'[q] = "live", q \notin aborted'
             PROVE  q \in registered' /\ holder'[SessionOf[q]] = q
  BY DEF SessionHeldByLive
<1> DEFINE Held == q \in registered /\ holder[SessionOf[q]] = q
<1>0. run[q] = "live" /\ q \notin aborted => Held
  BY DEF SessionHeldByLive
<1> USE AgentRequests DEF Typed, RunState
<1>1. ASSUME NEW r \in Agent, StartAgent(r)
      PROVE  q \in registered' /\ holder'[SessionOf[q]] = q
  <2>1. CASE q = r
    BY <1>1, <2>1 DEF StartAgent
  <2>2. CASE q # r
    <3>1. Held /\ q \notin Superseded(r)
      BY <1>0, <1>1, <2>2 DEF StartAgent
    <3>2. SessionOf[q] # SessionOf[r]
      BY <3>1 DEF Superseded
    <3> QED BY <1>1, <3>1, <3>2 DEF StartAgent
  <2> QED BY <2>1, <2>2
<1>2. ASSUME NEW r \in Agent, Ends(r) \/ Abort(r) \/ BusyTimeout(r) \/ BusExpires(r)
      PROVE  q \in registered' /\ holder'[SessionOf[q]] = q
  BY <1>0, <1>2 DEF Ends, Conclude, Abort, BusyTimeout, BusExpires
<1>3. ASSUME NEW r \in Agent, CloseRun(r)
      PROVE  q \in registered' /\ holder'[SessionOf[q]] = q
  <2>1. q # r /\ run[q] = "live" /\ q \notin aborted
    BY <1>3 DEF CloseRun
  <2> QED BY <1>0, <1>3, <2>1 DEF CloseRun
<1>4. ASSUME NEW r \in Plain, StartPlain(r) \/ EndsPlain(r)
      PROVE  q \in registered' /\ holder'[SessionOf[q]] = q
  BY <1>0, <1>4 DEF StartPlain, EndsPlain, ConcludePlain, Agent
<1>5. CASE Exit \/ Crash
  BY <1>5, Ending DEF ProcessEnds
<1>6. CASE Deliver \/ Shutdown \/ Boot \/ UNCHANGED vars
  BY <1>0, <1>6, Elsewhere DEF live
<1> QED BY <1>1, <1>2, <1>3, <1>4, <1>5, <1>6 DEF Next

\* Of the runs of a session at most one goes on unaborted, and it can be aborted
\* under the session's id and under its own (repo/events.ts:173-209).
THEOREM SessionHeldTheorem == Spec => []SessionHeldByLive
<1>1. Init => SessionHeldByLive
  BY AgentRequests DEF Init, SessionHeldByLive
<1> QED
  BY <1>1, TypedAlways, SessionHeldNext, PTL DEF Spec

-----------------------------------------------------------------------------
(* The busy tracker.                                                       *)

LEMMA BusyCoversNext ==
  Typed /\ BusyCoversLive /\ [Next]_vars => BusyCoversLive'
<1> SUFFICES ASSUME Typed, BusyCoversLive, [Next]_vars, NEW q \in Agent
             PROVE  /\ q \in tracked' => run'[q] \in {"live", "settled"}
                    /\ run'[q] = "live" /\ q \notin tracked' => q \in aborted'
  BY DEF BusyCoversLive
<1> DEFINE Covers == /\ q \in tracked' => run'[q] \in {"live", "settled"}
                     /\ run'[q] = "live" /\ q \notin tracked' => q \in aborted'
<1>0. /\ q \in tracked => run[q] \in {"live", "settled"}
      /\ run[q] = "live" /\ q \notin tracked => q \in aborted
  BY DEF BusyCoversLive
<1> USE AgentRequests DEF Typed, RunState
<1>1. ASSUME NEW r \in Agent, StartAgent(r) PROVE Covers
  BY <1>0, <1>1 DEF StartAgent, Arrives
<1>2. ASSUME NEW r \in Agent, Ends(r) PROVE Covers
  BY <1>0, <1>2 DEF Ends, Conclude
<1>3. ASSUME NEW r \in Agent, Abort(r) \/ BusyTimeout(r) \/ BusExpires(r) PROVE Covers
  BY <1>0, <1>3 DEF Abort, BusyTimeout, BusExpires
<1>4. ASSUME NEW r \in Agent, CloseRun(r) PROVE Covers
  BY <1>0, <1>4 DEF CloseRun
<1>5. ASSUME NEW r \in Plain, StartPlain(r) \/ EndsPlain(r) PROVE Covers
  BY <1>0, <1>5 DEF StartPlain, EndsPlain, ConcludePlain, Agent
<1>6. CASE Exit \/ Crash
  BY <1>6, Ending DEF ProcessEnds
<1>7. CASE Deliver \/ Shutdown \/ Boot \/ UNCHANGED vars
  BY <1>0, <1>7, Elsewhere DEF live
<1> QED BY <1>1, <1>2, <1>3, <1>4, <1>5, <1>6, <1>7 DEF Next

\* The server looks idle only when every live run was told to stop (busy.ts).
THEOREM BusyCoversTheorem == Spec => []BusyCoversLive
<1>1. Init => BusyCoversLive
  BY AgentRequests DEF Init, BusyCoversLive
<1> QED
  BY <1>1, TypedAlways, BusyCoversNext, PTL DEF Spec

=============================================================================
