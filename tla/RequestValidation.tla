------------------------- MODULE RequestValidation -------------------------
(***************************************************************************)
(* What /authorize decides about a request without keeping any state: the  *)
(* incorporation of a request object (application/request_object.py and    *)
(* infrastructure/signed_request_object.py), the validation of the         *)
(* parameters (validate_authorization_request) and the transport of the    *)
(* answer (response_mode).                                                 *)
(*                                                                         *)
(* A parameter that is absent has the blank value of its field.  A request *)
(* object carries some of the parameters: a function on a part of Fields.  *)
(***************************************************************************)
EXTENDS Integers, FiniteSets

CONSTANTS
  NoClient,        \* find_by_id found nothing
  KnownScopes,     \* ScopeRegistry.known_scope_names
  KnownResources,  \* indicators of the API resources
  BadUris,         \* resources that are no absolute URI without fragment
  RealmUris,       \* the URIs that an openid2_realm is a prefix of
  ServerAlg        \* the signing algorithm of the server

-----------------------------------------------------------------------------
(* Data *)

\* The string of a parameter, a claim, a session or an error that is not there.
Empty == ""

Blank ==
  [client_id |-> Empty, response_type |-> {}, redirect_uri |-> Empty, response_mode |-> Empty,
   scope |-> {}, nonce |-> Empty, code_challenge |-> Empty, authorization_details |-> Empty,
   resource |-> {}, openid2_realm |-> Empty, malformed |-> {}, prompt |-> {}]

Fields == DOMAIN Blank

\* The parameters checked for their form only: max_age, claims, dpop_jkt.
FormChecked == {"max_age", "claims", "dpop_jkt"}

NoDocument ==
  [wrap |-> "none", alg |-> Empty, signer |-> Empty, iss |-> Empty, aud |-> FALSE, exp |-> 0,
   nbf |-> FALSE, long |-> FALSE, jti |-> Empty, sub |-> FALSE, nested |-> FALSE,
   claims |-> [f \in {} |-> Empty]]

Modes == {"query", "fragment", "form_post", "jwt"}

-----------------------------------------------------------------------------
(* Transport of the answer *)

HasTokens(types) == types \cap {"id_token", "token"} # {}

\* _resolve_response_mode; "none": the mode is forbidden.
ResolveResponseMode(requested, tokens) ==
  IF requested \in {"jwt", "form_post", "fragment"} THEN requested
  ELSE IF tokens THEN IF requested = "query" THEN "none" ELSE "fragment"
  ELSE "query"

\* _error_response_mode: before the client is known nothing can be signed.
ErrorResponseMode(requested, tokens) ==
  LET mode == ResolveResponseMode(IF requested = "jwt" THEN Empty ELSE requested, tokens)
  IN IF mode = "none" THEN "fragment" ELSE mode

\* _requested_error_mode: for the refusals before the validation.
RequestedErrorMode(client, requested, tokens) ==
  IF requested = "form_post" THEN "form_post"
  ELSE IF requested = "jwt" /\ client.jarm THEN "jwt"
  ELSE IF requested = "fragment" \/ tokens THEN "fragment" ELSE "query"

\* _federated_error_mode: the same for a client that nobody knows.
FederatedErrorMode(p) ==
  IF p.response_mode = "form_post" THEN "form_post"
  ELSE IF HasTokens(p.response_type) THEN "fragment" ELSE "query"

\* _build_redirect_uri and form_post_page: what carries an answer.  The mode jwt
\* puts a signed envelope in the query string, and the parameters inside.
Carrier(mode) ==
  IF mode = "fragment" THEN "fragment" ELSE IF mode = "form_post" THEN "body" ELSE "query"

\* Faulty variant: whatever could not be signed goes to the query in the clear.
SuccessModeInClear(mode, tokens, signed) == IF mode = "jwt" /\ ~signed THEN "query" ELSE mode

\* _response_redirect_uri: an envelope that cannot be signed falls back.
SuccessMode(mode, tokens, signed) ==
  IF mode = "jwt" /\ ~signed THEN IF tokens THEN "fragment" ELSE "query" ELSE mode

\* error_redirect: an error whose envelope cannot be signed goes to the query.
ErrorMode(mode, signable) == IF mode = "jwt" /\ ~signable THEN "query" ELSE mode

-----------------------------------------------------------------------------
(* validate_authorization_request *)

Accepted(mode) == [error |-> Empty, mode |-> mode, redirectable |-> TRUE]
Refused(error, mode) == [error |-> error, mode |-> mode, redirectable |-> TRUE]
RefusedHere(error, mode) == [error |-> error, mode |-> mode, redirectable |-> FALSE]

ValidResponseTypes == (SUBSET {"code", "id_token", "token"}) \ {{}}

\* _openid20_realm_error
RealmForeign(p, client) ==
  /\ "openid2" \in p.scope /\ p.openid2_realm # Empty
  /\ RealmUris[p.openid2_realm] \cap client.redirect_uris = {}

\* _client_profile_error: FAPI 1 is hybrid, FAPI 2 is code, both want S256.
ProfileError(p, client) ==
  LET flow == CASE client.profile = "fapi1" -> {{"code", "id_token"}}
                [] client.profile = "fapi2" -> {{"code"}}
                [] OTHER -> ValidResponseTypes
  IN IF p.response_type \notin flow THEN "unsupported_response_type"
     ELSE IF client.profile # "none" /\ p.code_challenge \notin {Empty, "S256"}
          THEN "invalid_request" ELSE Empty

\* parse_resource_parameter: an absolute URI without fragment.
ResourcesParse(p) == p.resource \cap BadUris = {}

\* _resource_error: without a registry the resources are only parsed.
ResourceError(p, registry) ==
  IF ~ResourcesParse(p) \/ (registry /\ ~(p.resource \subseteq KnownResources))
  THEN "invalid_target" ELSE Empty

\* parse_max_age, parse_claims_parameter and the form of dpop_jkt.
FormsParse(p) == p.malformed = {}

\* parse_authorization_details
DetailsParse(p) == p.authorization_details # "bad"

\* _parameter_error
ParameterError(p, registry) ==
  IF ~FormsParse(p) \/ p.code_challenge \notin {Empty, "S256", "plain"} THEN "invalid_request"
  ELSE IF ~DetailsParse(p) THEN "invalid_authorization_details"
  ELSE IF p.scope = {} /\ p.authorization_details = Empty THEN "invalid_scope"
  ELSE ResourceError(p, registry)

\* ScopeRegistry.unknown_scopes
UnknownScopes(p) == p.scope \ KnownScopes

\* _scope_profile_error, _unknown_scope_error
ScopeError(p, registry) ==
  IF \/ "id_token" \in p.response_type /\ "openid" \notin p.scope
     \/ registry /\ UnknownScopes(p) # {}
  THEN "invalid_scope" ELSE Empty

\* registry: the call has the scope registry (the one of execute has).
Validate(p, client, registry) ==
  LET tokens == HasTokens(p.response_type)
      mode == ResolveResponseMode(p.response_mode, tokens)
      before == ErrorResponseMode(p.response_mode, tokens)
  IN IF p.response_type \notin ValidResponseTypes
     THEN Refused("unsupported_response_type", before)
     ELSE IF mode = "none" THEN Refused("invalid_request", before)
     ELSE IF client = NoClient THEN RefusedHere("invalid_client", mode)
     ELSE IF ~client.is_active THEN RefusedHere("invalid_client", mode)
     ELSE IF p.redirect_uri \notin client.redirect_uris
     THEN RefusedHere("invalid_redirect_uri", mode)
     ELSE IF RealmForeign(p, client) THEN Refused("invalid_request", mode)
     ELSE IF p.response_mode = "jwt" /\ ~client.jarm
     THEN Refused("unsupported_response_mode", before)
     ELSE IF ProfileError(p, client) # Empty THEN Refused(ProfileError(p, client), mode)
     ELSE IF ParameterError(p, registry) # Empty THEN Refused(ParameterError(p, registry), mode)
     ELSE IF ScopeError(p, registry) # Empty THEN Refused(ScopeError(p, registry), mode)
     ELSE IF "id_token" \in p.response_type /\ p.nonce = Empty THEN Refused("invalid_request", mode)
     ELSE Accepted(mode)

-----------------------------------------------------------------------------
(* Request objects *)

StandardAlgs == {"RS256"}
FapiAlgs == {"PS256", "ES256"}

StandardRequired == {"iss", "aud"}
FederatedRequired == {"iss", "aud", "exp", "jti"}
FapiRequired == {"iss", "aud", "exp", "nbf", "scope", "nonce", "redirect_uri"}

\* The claims that a document has.
ClaimNames(doc) ==
  DOMAIN doc.claims
  \cup {n \in {"iss", "jti"} : doc[n] # Empty}
  \cup {n \in {"aud", "nbf"} : doc[n]}
  \cup (IF doc.exp # 0 THEN {"exp"} ELSE {})

\* unverified_issuer, _unverified_claim: "" on an unreadable document.
UnverifiedIssuer(doc) == IF doc.alg = Empty THEN Empty ELSE doc.iss

UnverifiedClaim(doc, name) ==
  IF doc.alg # Empty /\ name \in DOMAIN doc.claims THEN doc.claims[name] ELSE Empty

\* _client_id_mismatch
ClientIdMismatch(p, doc) ==
  LET named == UnverifiedClaim(doc, "client_id")
      embedded == IF named # Empty THEN named ELSE UnverifiedIssuer(doc)
  IN p.client_id # Empty /\ embedded \notin {Empty, p.client_id}

\* verify, up to the jti: algorithm, key of the client, required claims,
\* expiry, issuer, audience, and 60 minutes where nbf is required.
Verifies(doc, id, algs, required, time) ==
  /\ doc.alg \in algs /\ doc.signer = id
  /\ required \subseteq ClaimNames(doc)
  /\ doc.exp = 0 \/ time < doc.exp
  /\ doc.iss = id /\ doc.aud
  /\ "nbf" \in required => ~doc.long

\* _merge: the claims of the object take precedence.
Merge(p, doc) ==
  [f \in Fields |-> IF f \in DOMAIN doc.claims THEN doc.claims[f] ELSE p[f]]

\* Faulty variant: what the object leaves out is taken from the query.
MergeFapiOpen(p, doc) == Merge(p, doc)

\* _merge_fapi: of the query only the client_id remains.
MergeFapi(p, doc) == Merge([Blank EXCEPT !.client_id = p.client_id], doc)

=============================================================================
