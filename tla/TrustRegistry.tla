--------------------------- MODULE TrustRegistry ---------------------------
(***************************************************************************)
(* The gateway's trust registry (gateway/internal/trust): the organisations *)
(* whose signatures are accepted, each with its active key and the earlier *)
(* ones still good for a grace period, kept in memory, saved whole after   *)
(* every change and reconciled at start with a seed from the environment.  *)
(* The admin handlers (internal/adminapi/trust.go) change it; the verifier *)
(* (internal/auth/verifier.go) asks it which keys to try.                  *)
(*                                                                         *)
(* Operations hold the registry's lock until the file is written, so each  *)
(* is one step.  A file that is absent and one without orgs are one state: *)
(* the code treats them alike.                                             *)
(***************************************************************************)
EXTENDS Naturals, FiniteSets

CONSTANTS Org, Key, Issuer, Realm,
          Seeds,       \* the registries the environment may describe
          Posted,      \* the entries that callers may post
          Graces,      \* the grace periods asked for; 0 cuts over at once
          MaxTime, MaxFaults

NoKey == "no key"
NoRealm == "no realm"

\* The code's Org; an org that is not trusted has no key, and until = 0 is
\* an empty grace_until.
Entry == [key : Key \cup {NoKey}, issuer : Issuer, grace : SUBSET Key, until : Nat]
Trusting(k, i) == [key |-> k, issuer |-> i, grace |-> {}, until |-> 0]
Absent == Trusting(NoKey, CHOOSE i \in Issuer : TRUE)
Files == [orgs : [Org -> Entry], realm : Realm \cup {NoRealm}]

ASSUME TrustAssumption ==
  /\ NoKey \notin Key /\ NoRealm \notin Realm /\ Issuer # {}
  /\ Graces \subseteq Nat
  /\ Seeds \subseteq Files
  /\ Posted \subseteq Entry /\ \A e \in Posted : e.key # NoKey

VARIABLES up, mem, disk, clock, faults,
          \* History variables of the properties.
          unsaved,    \* the last write failed
          retired,    \* keys an answered operation ended, and nobody gave again
          promised    \* per org, the grace last answered and still undisturbed

vars == <<up, mem, disk, clock, faults, unsaved, retired, promised>>

Outcomes == {"saved", "unsaved", "lost"}
NoPromise == [keys |-> {}, until |-> 0]
Empty == [orgs |-> [o \in Org |-> Absent], realm |-> NoRealm]

TypeOK ==
  /\ up \in BOOLEAN /\ unsaved \in BOOLEAN
  /\ mem \in Files /\ disk \in Files
  /\ clock \in Nat /\ faults \in Nat
  /\ retired \subseteq Org \X Key
  /\ promised \in [Org -> [keys : SUBSET Key, until : Nat]]

Init ==
  /\ up = FALSE /\ unsaved = FALSE
  /\ mem = Empty /\ disk = Empty
  /\ clock = 1 /\ faults = 0
  /\ retired = {} /\ promised = [o \in Org |-> NoPromise]

-----------------------------------------------------------------------------

KeysOf(e) == ({e.key} \ {NoKey}) \cup e.grace

\* candidatePolicies: the keys that verify a signature of the org now.
Verifying(e) == IF e.key = NoKey THEN {}
                ELSE {e.key} \cup (IF clock < e.until THEN e.grace ELSE {})

\* Mutant: the file keeps only what callers supply, as the seed comparison does.
MutSaves(m, outcome) ==
  /\ outcome = "saved" \/ faults < MaxFaults
  /\ faults' = IF outcome = "saved" THEN faults ELSE faults + 1
  /\ mem' = m
  /\ disk' = IF outcome = "unsaved" THEN disk
             ELSE [m EXCEPT !.orgs = [o \in Org |-> Trusting(m.orgs[o].key, m.orgs[o].issuer)]]
  /\ unsaved' = (outcome = "unsaved") /\ up' = (outcome # "lost")
  /\ UNCHANGED clock

\* persistLocked: the file is renamed into place and the call answered; it
\* cannot be written and memory stays ahead of it; or the process dies after
\* the rename, before the answer.
Saves(m, outcome) ==
  /\ outcome = "saved" \/ faults < MaxFaults
  /\ faults' = IF outcome = "saved" THEN faults ELSE faults + 1
  /\ mem' = m
  /\ disk' = IF outcome = "unsaved" THEN disk ELSE m
  /\ unsaved' = (outcome = "unsaved")
  /\ up' = (outcome # "lost")
  /\ UNCHANGED clock

With(o, e) == [mem EXCEPT !.orgs = [mem.orgs EXCEPT ![o] = e]]
Of(o, ks) == {<<o, k>> : k \in ks}

\* POST /_plugin/trust, whose body may bring a grace of its own.  An entry that
\* differs replaces all of the old one, grace keys included; one that differs in
\* its grace only is answered without a write.
Upsert(o, e, outcome) ==
  /\ up
  /\ mem.orgs[o].key # e.key \/ mem.orgs[o].issuer # e.issuer
  /\ Saves(With(o, e), outcome)
  /\ retired' = retired \ Of(o, KeysOf(e))
  /\ promised' = [promised EXCEPT ![o] = NoPromise]

\* DELETE /_plugin/trust/:org_id.
Delete(o, outcome) ==
  /\ up /\ mem.orgs[o].key # NoKey
  /\ Saves(With(o, Absent), outcome)
  /\ retired' = IF outcome = "saved" THEN retired \cup Of(o, KeysOf(mem.orgs[o])) ELSE retired
  /\ promised' = [promised EXCEPT ![o] = NoPromise]

\* Mutant: an immediate cut-over sets no new deadline and keeps the list.
MutRotated(e, k, g) ==
  [key |-> k, issuer |-> e.issuer, grace |-> e.grace \cup {e.key},
   until |-> IF g = 0 THEN e.until ELSE clock + g]

\* POST /_plugin/trust/:org_id/rotate.  All earlier keys share one deadline.
Rotated(e, k, g) ==
  IF g = 0 THEN Trusting(k, e.issuer)
  ELSE [key |-> k, issuer |-> e.issuer, grace |-> e.grace \cup {e.key}, until |-> clock + g]

Rotate(o, k, g, outcome) ==
  /\ up /\ mem.orgs[o].key # NoKey
  /\ LET e == Rotated(mem.orgs[o], k, g) IN
     /\ Saves(With(o, e), outcome)
     /\ promised' = [promised EXCEPT ![o] =
          IF outcome = "saved" THEN [keys |-> e.grace, until |-> e.until] ELSE NoPromise]
  /\ retired' = (retired \cup IF outcome = "saved" /\ g = 0 THEN Of(o, KeysOf(mem.orgs[o])) ELSE {})
                  \ Of(o, {k})

\* PUT /_plugin/trust/realm_id.
SetRealmID(r, outcome) ==
  /\ up /\ mem.realm # r
  /\ Saves([mem EXCEPT !.realm = r], outcome)
  /\ UNCHANGED <<retired, promised>>

-----------------------------------------------------------------------------

\* LoadFromEnv without a seed, or with one that matches or is ignored.
StartsFromFile ==
  /\ ~up
  /\ up' = TRUE /\ mem' = disk
  /\ UNCHANGED <<disk, clock, faults, unsaved, retired, promised>>

\* seedMatchesRegistry: grace is left out of the comparison.
Matches(s, m) ==
  /\ s.realm = m.realm
  /\ \A o \in Org : /\ s.orgs[o].key = m.orgs[o].key
                    /\ s.orgs[o].key # NoKey => s.orgs[o].issuer = m.orgs[o].issuer

\* A file without orgs takes the seed, realm included; one that differs is
\* overwritten if the operator asks for it (else ignored, or start refused).
\* A seed that cannot be saved stops the start.
StartsFromSeed(s, overwrites, outcome) ==
  /\ ~up
  /\ \/ \A o \in Org : disk.orgs[o].key = NoKey
     \/ overwrites /\ ~Matches(s, disk)
  /\ outcome # "unsaved" /\ Saves(s, outcome)
  /\ retired' = {x \in retired : x[2] \notin KeysOf(s.orgs[x[1]])}
  /\ promised' = [o \in Org |-> NoPromise]

\* Memory is gone with the process; the model resets it to the file.
Dies ==
  /\ up /\ faults < MaxFaults
  /\ faults' = faults + 1
  /\ up' = FALSE /\ mem' = disk /\ unsaved' = FALSE
  /\ UNCHANGED <<disk, clock, retired, promised>>

Passes ==
  /\ clock < MaxTime
  /\ clock' = clock + 1
  /\ UNCHANGED <<up, mem, disk, faults, unsaved, retired, promised>>

Changes(outcome) ==
  \/ \E o \in Org, e \in Posted : Upsert(o, e, outcome)
  \/ \E o \in Org : Delete(o, outcome)
  \/ \E o \in Org, k \in Key, g \in Graces : Rotate(o, k, g, outcome)
  \/ \E r \in Realm \cup {NoRealm} : SetRealmID(r, outcome)
  \/ \E s \in Seeds, overwrites \in BOOLEAN : StartsFromSeed(s, overwrites, outcome)

Next == (\E outcome \in Outcomes : Changes(outcome)) \/ StartsFromFile \/ Dies \/ Passes

Spec == Init /\ [][Next]_vars

-----------------------------------------------------------------------------

\* The file is behind memory only after a write that failed, and the next
\* one that succeeds, whatever it is about, repairs it.
FileFollowsMemory == disk # mem => unsaved

\* A key ended by an answered deletion or immediate cut-over verifies
\* nothing any more, across restarts and failed writes, until a caller or a
\* seed gives it again.
CutOverHolds == \A o \in Org : \A k \in Verifying(mem.orgs[o]) : <<o, k>> \notin retired

\* After an answered rotation its grace keys verify until the deadline of
\* the answer, whatever happens to other orgs, to the file or to the process.
GraceHonoured ==
  \A o \in Org : clock < promised[o].until => promised[o].keys \subseteq Verifying(mem.orgs[o])

=============================================================================
