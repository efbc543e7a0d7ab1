-------------------------- MODULE ClientRegistryMC --------------------------
(* Instances of ClientRegistry for TLC. *)
EXTENDS ClientRegistry

SigningKey == [kty |-> "EC", use |-> "sig", alg |-> "jws", strong |-> TRUE, kid |-> 1]
SealingKey == [kty |-> "RSA", use |-> "enc", alg |-> "oaep", strong |-> TRUE, kid |-> 2]
Unnamed == [SigningKey EXCEPT !.kid = NoKid]
UnnamedToo == [Unnamed EXCEPT !.kty = "RSA", !.use = "any"]
MCJwks == {SigningKey, SealingKey, Unnamed, UnnamedToo}

\* Of these only the first can be found by an assertion.
MCRemoteKeys == {[SigningKey EXCEPT !.kid = 3], Unnamed,
                 [SealingKey EXCEPT !.alg = "jws", !.kid = 4]}

Plain ==
  [body |-> [x \in Members |-> IF x = "redirect_uris" THEN "good" ELSE "absent"],
   grants |-> {"authorization_code"}, hosts |-> 1, method |-> "client_secret_basic",
   jwks |-> {}, jwks_uri |-> FALSE, tls |-> "none", signing |-> "asymmetric",
   encryption |-> "none", fapi |-> {}, subject_type |-> "public", sector |-> "none"]

Symmetric == [Plain EXCEPT !.method = "client_secret_post", !.signing = "symmetric",
                           !.encryption = "symmetric"]
Hmac == [Plain EXCEPT !.method = "client_secret_jwt"]
Keys == [Plain EXCEPT !.method = "private_key_jwt", !.jwks = {SigningKey, Unnamed, SealingKey},
                      !.encryption = "rsa", !.fapi = {"fapi2"}]
Ambiguous == [Keys EXCEPT !.jwks = {Unnamed, UnnamedToo}]   \* needs no kid to be stored
Remote == [Plain EXCEPT !.method = "private_key_jwt", !.jwks_uri = TRUE]
\* Like a public client it has no secret.
Certificate == [Plain EXCEPT !.method = "self_signed_tls_client_auth", !.tls = "dn",
                             !.subject_type = "pairwise", !.sector = "covers"]

\* Bodies that are refused.
NoSigningKey == [Keys EXCEPT !.jwks = {SealingKey}]
KeylessSymmetric == [Keys EXCEPT !.signing = "symmetric"]
Malformed == [Plain EXCEPT !.body["client_secret"] = "empty"]
EncOnly == [Plain EXCEPT !.encryption = "enc_only"]
WeakFapi == [Plain EXCEPT !.fapi = {"fapi2"}]

MCBodies == {Plain, Symmetric, Hmac, Keys, Ambiguous, Remote, Certificate,
             NoSigningKey, KeylessSymmetric, Malformed, EncOnly, WeakFapi}

Symmetries == Permutations(Secrets)
=============================================================================
