------------------------ MODULE TrustRegistryProofs ------------------------
(***************************************************************************)
(* The registry keeps what it answered, for any orgs, keys and seeds, any  *)
(* number of failed writes and restarts.                                   *)
(*                                                                         *)
(* The invariant says of the file what the properties say of memory, since *)
(* a restart makes the one the other; an operation that is answered has    *)
(* made them equal, and one that is not has withdrawn what was promised.   *)
(***************************************************************************)
EXTENDS TrustRegistry, TLAPS

\* No key of registry f is in ret; every promise in pr is kept by f.
Clean(f, ret) == \A o \in Org : \A k \in KeysOf(f.orgs[o]) : <<o, k>> \notin ret
Keeps(f, pr) == \A o \in Org :
  pr[o].keys # {} => /\ f.orgs[o].key # NoKey
                     /\ pr[o].keys \subseteq f.orgs[o].grace
                     /\ pr[o].until <= f.orgs[o].until

IInv == /\ TypeOK /\ FileFollowsMemory
        /\ Clean(mem, retired) /\ Clean(disk, retired)
        /\ Keeps(mem, promised) /\ Keeps(disk, promised)

-----------------------------------------------------------------------------

LEMMA EntryTypes ==
  /\ Absent \in Entry
  /\ \A k \in Key, i \in Issuer : Trusting(k, i) \in Entry
  /\ \A e \in Entry, k \in Key, g \in Graces :
       clock \in Nat /\ e.key # NoKey => Rotated(e, k, g) \in Entry
  BY TrustAssumption DEF Absent, Trusting, Entry, Rotated

LEMMA WithTypes ==
  ASSUME TypeOK, NEW o \in Org, NEW e \in Entry
  PROVE  /\ With(o, e) \in Files
         /\ \A x \in Org : With(o, e).orgs[x] = IF x = o THEN e ELSE mem.orgs[x]
<1> DEFINE orgs == [mem.orgs EXCEPT ![o] = e]
<1>1. mem.orgs \in [Org -> Entry] /\ mem.realm \in Realm \cup {NoRealm}
  BY DEF TypeOK, Files
<1>2. orgs \in [Org -> Entry] /\ \A x \in Org : orgs[x] = IF x = o THEN e ELSE mem.orgs[x]
  BY <1>1
<1>3. With(o, e) = [orgs |-> orgs, realm |-> mem.realm]
  BY DEF With, TypeOK, Files
<1> QED BY <1>1, <1>2, <1>3 DEF Files

\* What a write leaves, whatever becomes of it.
LEMMA SavesEffect ==
  ASSUME TypeOK, NEW m \in Files, NEW outcome \in Outcomes, Saves(m, outcome)
  PROVE  /\ mem' = m /\ mem' \in Files /\ disk' \in Files
         /\ disk' = m \/ (disk' = disk /\ outcome = "unsaved")
         /\ FileFollowsMemory'
         /\ up' \in BOOLEAN /\ unsaved' \in BOOLEAN /\ clock' \in Nat /\ faults' \in Nat
         /\ clock' = clock
<1>1. /\ mem' = m /\ clock' = clock
      /\ disk' = IF outcome = "unsaved" THEN disk ELSE m
      /\ faults' = IF outcome = "saved" THEN faults ELSE faults + 1
  BY DEF Saves
<1>2. /\ unsaved' \in BOOLEAN /\ up' \in BOOLEAN
      /\ outcome = "unsaved" => unsaved'
  BY DEF Saves
<1>3. clock \in Nat /\ faults \in Nat /\ disk \in Files
  BY DEF TypeOK
<1> QED BY <1>1, <1>2, <1>3 DEF FileFollowsMemory

\* A registry with one entry replaced.
LEMMA CleanWith ==
  ASSUME TypeOK, NEW o \in Org, NEW e \in Entry, NEW ret \in SUBSET (Org \X Key),
         \A x \in Org \ {o} : \A k \in KeysOf(mem.orgs[x]) : <<x, k>> \notin ret,
         \A k \in KeysOf(e) : <<o, k>> \notin ret
  PROVE  Clean(With(o, e), ret)
<1> SUFFICES ASSUME NEW x \in Org, NEW k \in KeysOf(With(o, e).orgs[x])
             PROVE  <<x, k>> \notin ret
  BY DEF Clean
<1>1. With(o, e).orgs[x] = IF x = o THEN e ELSE mem.orgs[x]
  BY WithTypes
<1> QED BY <1>1

LEMMA KeepsWith ==
  ASSUME TypeOK, NEW o \in Org, NEW e \in Entry, NEW pr \in [Org -> [keys : SUBSET Key, until : Nat]],
         Keeps(mem, promised),
         \A x \in Org \ {o} : pr[x] = promised[x],
         pr[o].keys # {} => e.key # NoKey /\ pr[o].keys \subseteq e.grace /\ pr[o].until <= e.until
  PROVE  Keeps(With(o, e), pr)
  BY WithTypes DEF Keeps

LEMMA NoPromiseType ==
  /\ NoPromise \in [keys : SUBSET Key, until : Nat]
  /\ NoPromise.keys = {}
  BY DEF NoPromise

\* An operation that replaces the entry of o: it withdraws the promise unless
\* it is answered, and retires nothing unless it is answered.
LEMMA Replaces ==
  ASSUME IInv, NEW o \in Org, NEW e \in Entry, NEW outcome \in Outcomes,
         NEW pr \in [keys : SUBSET Key, until : Nat],
         Saves(With(o, e), outcome),
         promised' = [promised EXCEPT ![o] = pr],
         pr.keys # {} => /\ outcome = "saved" /\ e.key # NoKey
                         /\ pr.keys \subseteq e.grace /\ pr.until <= e.until,
         retired' \in SUBSET (Org \X Key),
         outcome = "unsaved" => retired' \subseteq retired,
         \A x \in Org \ {o} : \A k \in Key : <<x, k>> \in retired' => <<x, k>> \in retired,
         \A k \in KeysOf(e) : <<o, k>> \notin retired'
  PROVE  IInv'
<1>1. TypeOK /\ Clean(mem, retired) /\ Clean(disk, retired) /\ Keeps(mem, promised) /\ Keeps(disk, promised)
  BY DEF IInv
<1>2. With(o, e) \in Files
  BY <1>1, WithTypes
<1>3. /\ mem' = With(o, e) /\ mem' \in Files /\ disk' \in Files
      /\ disk' = With(o, e) \/ (disk' = disk /\ outcome = "unsaved")
      /\ FileFollowsMemory'
      /\ up' \in BOOLEAN /\ unsaved' \in BOOLEAN /\ clock' \in Nat /\ faults' \in Nat
  BY <1>1, <1>2, SavesEffect
<1>4. promised' \in [Org -> [keys : SUBSET Key, until : Nat]]
  BY <1>1 DEF TypeOK
<1>5. TypeOK'
  BY <1>3, <1>4 DEF TypeOK
<1>6. Clean(With(o, e), retired')
  <2>1. \A x \in Org : KeysOf(mem.orgs[x]) \subseteq Key
    BY <1>1 DEF TypeOK, Files, Entry, KeysOf
  <2>2. \A x \in Org \ {o} : \A k \in KeysOf(mem.orgs[x]) : <<x, k>> \notin retired'
    BY <1>1, <2>1 DEF Clean
  <2> QED BY <1>1, <2>2, CleanWith
<1>7. Keeps(With(o, e), promised')
  <2>1. promised'[o] = pr /\ \A x \in Org \ {o} : promised'[x] = promised[x]
    BY <1>1 DEF TypeOK
  <2>2. promised' \in [Org -> [keys : SUBSET Key, until : Nat]]
    BY <1>4
  <2>3. promised'[o].keys # {} =>
          e.key # NoKey /\ promised'[o].keys \subseteq e.grace /\ promised'[o].until <= e.until
    BY <2>1
  <2>4. TypeOK /\ Keeps(mem, promised)
    BY <1>1
  <2> HIDE DEF IInv
  <2> QED BY <2>1, <2>2, <2>3, <2>4, KeepsWith
<1>8. outcome = "unsaved" => Clean(disk, retired')
  BY <1>1 DEF Clean
<1>9. outcome = "unsaved" => Keeps(disk, promised')
  <2> SUFFICES ASSUME outcome = "unsaved", NEW x \in Org, promised'[x].keys # {}
               PROVE  promised'[x] = promised[x]
    BY <1>1 DEF Keeps
  <2>1. pr.keys = {}
    OBVIOUS
  <2> QED BY <1>1, <2>1 DEF TypeOK
<1>10. Clean(mem', retired') /\ Clean(disk', retired') /\ Keeps(mem', promised') /\ Keeps(disk', promised')
  BY <1>3, <1>6, <1>7, <1>8, <1>9
<1> QED BY <1>3, <1>5, <1>10 DEF IInv, Clean, Keeps

-----------------------------------------------------------------------------

LEMMA RegistryInit == Init => IInv
<1> SUFFICES ASSUME Init PROVE IInv
  OBVIOUS
<1>1. Empty \in Files
  BY EntryTypes DEF Empty, Files
<1>2. promised \in [Org -> [keys : SUBSET Key, until : Nat]] /\ \A o \in Org : promised[o].keys = {}
  BY NoPromiseType DEF Init
<1>3. TypeOK /\ FileFollowsMemory
  BY <1>1, <1>2 DEF Init, TypeOK, FileFollowsMemory
<1>4. Clean(mem, retired) /\ Clean(disk, retired)
  BY DEF Init, Clean
<1>5. Keeps(mem, promised) /\ Keeps(disk, promised)
  BY <1>2 DEF Keeps
<1> QED BY <1>3, <1>4, <1>5 DEF IInv

LEMMA UpsertStep ==
  ASSUME IInv, NEW o \in Org, NEW e \in Posted, NEW outcome \in Outcomes, Upsert(o, e, outcome)
  PROVE  IInv'
<1>1. e \in Entry
  BY TrustAssumption
<1>2. /\ Saves(With(o, e), outcome)
      /\ retired' = retired \ Of(o, KeysOf(e))
      /\ promised' = [promised EXCEPT ![o] = NoPromise]
  BY DEF Upsert
<1>3. /\ retired' \in SUBSET (Org \X Key) /\ retired' \subseteq retired
      /\ \A k \in KeysOf(e) : <<o, k>> \notin retired'
  BY <1>2 DEF IInv, TypeOK, Of
<1> QED BY <1>1, <1>2, <1>3, NoPromiseType, Replaces

LEMMA DeleteStep ==
  ASSUME IInv, NEW o \in Org, NEW outcome \in Outcomes, Delete(o, outcome)
  PROVE  IInv'
<1>1. Absent \in Entry /\ KeysOf(Absent) = {}
  BY EntryTypes DEF Absent, Trusting, KeysOf
<1>2. /\ Saves(With(o, Absent), outcome)
      /\ retired' = IF outcome = "saved" THEN retired \cup Of(o, KeysOf(mem.orgs[o])) ELSE retired
      /\ promised' = [promised EXCEPT ![o] = NoPromise]
  BY DEF Delete
<1>3. KeysOf(mem.orgs[o]) \subseteq Key
  BY DEF IInv, TypeOK, Files, Entry, KeysOf
<1>4. /\ retired' \in SUBSET (Org \X Key)
      /\ outcome = "unsaved" => retired' \subseteq retired
      /\ \A x \in Org \ {o} : \A k \in Key : <<x, k>> \in retired' => <<x, k>> \in retired
  BY <1>2, <1>3 DEF IInv, TypeOK, Of
<1> QED BY <1>1, <1>2, <1>4, NoPromiseType, Replaces

LEMMA RotateStep ==
  ASSUME IInv, NEW o \in Org, NEW k \in Key, NEW g \in Graces, NEW outcome \in Outcomes,
         Rotate(o, k, g, outcome)
  PROVE  IInv'
<1> DEFINE old == mem.orgs[o]
           e == Rotated(old, k, g)
           pr == IF outcome = "saved" THEN [keys |-> e.grace, until |-> e.until] ELSE NoPromise
           ended == IF outcome = "saved" /\ g = 0 THEN Of(o, KeysOf(old)) ELSE {}
<1>1. old \in Entry /\ old.key # NoKey /\ KeysOf(old) \subseteq Key /\ clock \in Nat
  BY DEF IInv, TypeOK, Files, Entry, KeysOf, Rotate
<1>2. e \in Entry /\ e.key = k
  BY <1>1, EntryTypes DEF Rotated, Trusting
<1>3. /\ Saves(With(o, e), outcome)
      /\ promised' = [promised EXCEPT ![o] = pr]
      /\ retired' = (retired \cup ended) \ Of(o, {k})
  BY DEF Rotate
<1>4. pr \in [keys : SUBSET Key, until : Nat]
  <2>1. e.grace \in SUBSET Key /\ e.until \in Nat
    BY <1>2 DEF Entry
  <2> QED BY <2>1, NoPromiseType
<1>5. pr.keys # {} => /\ outcome = "saved" /\ e.key # NoKey
                      /\ pr.keys \subseteq e.grace /\ pr.until <= e.until
  <2>1. e.until \in Nat /\ e.key # NoKey
    BY <1>2, TrustAssumption DEF Entry
  <2> QED BY <2>1, NoPromiseType
<1>6. /\ retired' \in SUBSET (Org \X Key)
      /\ outcome = "unsaved" => retired' \subseteq retired
      /\ \A x \in Org \ {o} : \A j \in Key : <<x, j>> \in retired' => <<x, j>> \in retired
  BY <1>1, <1>3 DEF IInv, TypeOK, Of
<1>7. \A j \in KeysOf(e) : <<o, j>> \notin retired'
  <2> SUFFICES ASSUME NEW j \in KeysOf(e), <<o, j>> \in retired' PROVE FALSE
    OBVIOUS
  <2>1. j # k
    BY <1>3 DEF Of
  <2>2. CASE g = 0
    BY <2>1, <2>2 DEF Rotated, Trusting, KeysOf
  <2>3. CASE g # 0
    <3>1. j \in KeysOf(old)
      BY <1>1, <2>1, <2>3 DEF Rotated, KeysOf
    <3>2. <<o, j>> \in retired
      BY <1>3, <2>3
    <3> QED BY <3>1, <3>2 DEF IInv, Clean
  <2> QED BY <2>2, <2>3
<1> HIDE DEF e, pr, ended
<1> QED BY <1>2, <1>3, <1>4, <1>5, <1>6, <1>7, Replaces

\* A registry with the same orgs keeps and retires the same.
LEMMA RealmStep ==
  ASSUME IInv, NEW r \in Realm \cup {NoRealm}, NEW outcome \in Outcomes, SetRealmID(r, outcome)
  PROVE  IInv'
<1> DEFINE m == [mem EXCEPT !.realm = r]
<1>1. TypeOK /\ m \in Files /\ m.orgs = mem.orgs
  BY DEF IInv, TypeOK, Files
<1>2. Saves(m, outcome) /\ retired' = retired /\ promised' = promised
  BY DEF SetRealmID
<1>3. /\ mem' = m /\ mem' \in Files /\ disk' \in Files
      /\ disk' = m \/ disk' = disk
      /\ FileFollowsMemory'
      /\ up' \in BOOLEAN /\ unsaved' \in BOOLEAN /\ clock' \in Nat /\ faults' \in Nat
  BY <1>1, <1>2, SavesEffect
<1>4. TypeOK'
  BY <1>1, <1>2, <1>3 DEF TypeOK
<1>5. mem'.orgs = mem.orgs /\ (disk'.orgs = mem.orgs \/ disk'.orgs = disk.orgs)
  BY <1>1, <1>3
<1> HIDE DEF m
<1>6. Clean(mem', retired') /\ Clean(disk', retired')
  BY <1>2, <1>5 DEF IInv, Clean
<1>7. Keeps(mem', promised') /\ Keeps(disk', promised')
  BY <1>2, <1>5 DEF IInv, Keeps
<1> QED BY <1>3, <1>4, <1>6, <1>7 DEF IInv, Clean, Keeps

LEMMA SeedStep ==
  ASSUME IInv, NEW s \in Seeds, NEW overwrites \in BOOLEAN, NEW outcome \in Outcomes,
         StartsFromSeed(s, overwrites, outcome)
  PROVE  IInv'
<1>1. /\ TypeOK /\ s \in Files /\ Saves(s, outcome) /\ outcome # "unsaved"
      /\ retired' = {x \in retired : x[2] \notin KeysOf(s.orgs[x[1]])}
      /\ promised' = [o \in Org |-> NoPromise]
  BY TrustAssumption DEF IInv, StartsFromSeed
<1>2. /\ mem' = s /\ disk' = s /\ FileFollowsMemory'
      /\ up' \in BOOLEAN /\ unsaved' \in BOOLEAN /\ clock' \in Nat /\ faults' \in Nat
  BY <1>1, SavesEffect
<1>3. /\ promised' \in [Org -> [keys : SUBSET Key, until : Nat]]
      /\ \A o \in Org : promised'[o].keys = {}
  BY <1>1, NoPromiseType
<1>4. retired' \subseteq Org \X Key
  BY <1>1 DEF TypeOK
<1>5. TypeOK'
  BY <1>1, <1>2, <1>3, <1>4 DEF TypeOK
<1>6. Clean(s, retired')
  BY <1>1 DEF Clean
<1>7. Keeps(s, promised')
  BY <1>3 DEF Keeps
<1> QED BY <1>2, <1>5, <1>6, <1>7 DEF IInv, Clean, Keeps

LEMMA RegistryNext == IInv /\ [Next]_vars => IInv'
<1> SUFFICES ASSUME IInv, [Next]_vars PROVE IInv'
  OBVIOUS
<1>1. ASSUME NEW outcome \in Outcomes, Changes(outcome) PROVE IInv'
  BY <1>1, UpsertStep, DeleteStep, RotateStep, RealmStep, SeedStep DEF Changes
<1>2. CASE StartsFromFile
  BY <1>2 DEF StartsFromFile, IInv, TypeOK, FileFollowsMemory, Clean, Keeps
<1>3. CASE Dies
  <2>1. /\ up' \in BOOLEAN /\ unsaved' \in BOOLEAN
        /\ mem' = disk /\ faults' = faults + 1
        /\ disk' = disk /\ clock' = clock /\ retired' = retired /\ promised' = promised
    BY <1>3 DEF Dies
  <2>2. TypeOK'
    BY <2>1 DEF IInv, TypeOK
  <2>3. FileFollowsMemory'
    BY <2>1 DEF FileFollowsMemory
  <2> QED BY <2>1, <2>2, <2>3 DEF IInv, Clean, Keeps
<1>4. CASE Passes
  BY <1>4 DEF Passes, IInv, TypeOK, FileFollowsMemory, Clean, Keeps
<1>5. CASE UNCHANGED vars
  BY <1>5 DEF vars, IInv, TypeOK, FileFollowsMemory, Clean, Keeps
<1> QED BY <1>1, <1>2, <1>3, <1>4, <1>5 DEF Next

LEMMA RegistryInvariant == Spec => []IInv
  BY RegistryInit, RegistryNext, PTL DEF Spec

\* For any orgs, keys and seeds: the registry and its file have their types.
THEOREM TypeCorrect == Spec => []TypeOK
<1>1. IInv => TypeOK
  BY DEF IInv
<1> QED BY <1>1, RegistryInvariant, PTL

\* A write that succeeds saves all of the memory: the file is behind only
\* after a write that failed.
THEOREM FileFollowsMemoryTheorem == Spec => []FileFollowsMemory
<1>1. IInv => FileFollowsMemory
  BY DEF IInv
<1> QED BY <1>1, RegistryInvariant, PTL

\* A key that an answered deletion or cut-over ended stays ended through any
\* number of failed writes and restarts.
THEOREM CutOverHoldsTheorem == Spec => []CutOverHolds
<1>1. IInv => CutOverHolds
  <2> SUFFICES ASSUME IInv, NEW o \in Org, NEW k \in Verifying(mem.orgs[o])
               PROVE  <<o, k>> \notin retired
    BY DEF CutOverHolds
  <2>1. k \in KeysOf(mem.orgs[o])
    BY DEF Verifying, KeysOf
  <2> QED BY <2>1 DEF IInv, Clean
<1> QED BY <1>1, RegistryInvariant, PTL

\* A grace that was answered is kept to its deadline through any number of
\* failed writes and restarts.
THEOREM GraceHonouredTheorem == Spec => []GraceHonoured
<1>1. IInv => GraceHonoured
  <2> SUFFICES ASSUME IInv, NEW o \in Org, clock < promised[o].until, promised[o].keys # {}
               PROVE  promised[o].keys \subseteq Verifying(mem.orgs[o])
    BY DEF GraceHonoured
  <2>1. /\ mem.orgs[o].key # NoKey
        /\ promised[o].keys \subseteq mem.orgs[o].grace
        /\ promised[o].until <= mem.orgs[o].until
    BY DEF IInv, Keeps
  <2>2. clock \in Nat /\ promised[o].until \in Nat /\ mem.orgs[o].until \in Nat
    BY DEF IInv, TypeOK, Files, Entry
  <2>3. clock < mem.orgs[o].until
    BY <2>1, <2>2
  <2> QED BY <2>1, <2>3 DEF Verifying
<1> QED BY <1>1, RegistryInvariant, PTL

=============================================================================
