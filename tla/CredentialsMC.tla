--------------------------- MODULE CredentialsMC ---------------------------
(***************************************************************************)
(* The instance of Credentials: two processes, a user, a client that acts  *)
(* in its own name and a token with authorization details.                 *)
(***************************************************************************)
EXTENDS Credentials, TLC

CONSTANTS s1, s2

Symmetry == Permutations(Servers)

Token(sub, client, scope, details, jkt) ==
  [sub |-> sub, client |-> client, scope |-> scope, details |-> details, jkt |-> jkt,
   exp |-> 5, offer |-> 0]

MCTokens ==
  {Token("alice", "app", TRUE, {}, ""), Token("alice", "app", FALSE, {Mdoc}, "k")}

Registered == [active |-> TRUE, confidential |-> TRUE, scopes |-> {OfferScope}, mtls |-> FALSE, require_dpop |-> FALSE]
MCClients == "robot" :> Registered @@ "shut" :> [Registered EXCEPT !.active = FALSE]

AsksFor(jkt, wanted) == [jkt |-> jkt, wanted |-> wanted, certificate |-> FALSE, authenticated |-> TRUE]
MCTokenRequests == {AsksFor("", {}), AsksFor("k", {OfferScope}), AsksFor("", {"other"}),
                    [AsksFor("", {}) EXCEPT !.authenticated = FALSE]}

Proof(kty, verifies, attestation) ==
  [key |-> [kty |-> kty], verifies |-> verifies, aud |-> TRUE, attestation |-> attestation]

\* A batch, keys of both kinds, and proofs that fail.
MCProofs ==
  {<<>>, <<Proof("EC", TRUE, "none")>>, <<Proof("EC", TRUE, "none"), Proof("RSA", TRUE, "names the key")>>,
   <<Proof("EC", TRUE, "none"), Proof("EC", FALSE, "none")>>, <<Proof("EC", TRUE, "names others")>>}
=============================================================================
