-------------------------- MODULE MCTrustRegistry --------------------------
(***************************************************************************)
(* Two orgs, two keys, a seed that describes one of the orgs: keys rotate  *)
(* there and back, and the file can end up without orgs or unlike the seed. *)
(* What is posted gives one key, or k1 with a grace for the other one.     *)
(***************************************************************************)
EXTENDS TrustRegistry

CONSTANTS o1, k1, r1

MCPosted == {Trusting(k, i) : k \in Key, i \in Issuer}
              \cup {[Trusting(k1, i) EXCEPT !.grace = Key \ {k1}, !.until = 2] : i \in Issuer}
MCSeeds == {[orgs |-> [Empty.orgs EXCEPT ![o1] = Trusting(k1, CHOOSE i \in Issuer : TRUE)],
             realm |-> r1]}

=============================================================================
