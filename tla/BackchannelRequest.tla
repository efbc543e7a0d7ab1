------------------------- MODULE BackchannelRequest -------------------------
(***************************************************************************)
(* What /bc-authorize asks of a request before it stores it                *)
(* (BackchannelAuthenticationUseCase): the client, the signed request      *)
(* object, scopes, the hint that names the user, the token for the         *)
(* notification, the expiry and the resources.                             *)
(*                                                                         *)
(* A request d is a record: client (client_id), assertion (the iss of its  *)
(* client_assertion), authenticated, certificate, request_uri, user_code,  *)
(* object (the request object: who signed it, whether it verifies, what    *)
(* it claims) and form, the parameters outside the object.                 *)
(***************************************************************************)
EXTENDS Integers, Sequences

CONSTANTS
  Client,          \* the registered clients, records by client_id
  Account,         \* subject -> the values of its email, username, phone
  KnownScopes, KnownResources,
  Ttl, MinTtl,     \* ttl_seconds, min_ttl_seconds
  BindingLimit     \* binding_message_max_length

ASSUME BackchannelAssumption ==
  /\ Ttl \in Nat /\ MinTtl \in Nat /\ BindingLimit \in Nat /\ "" \notin DOMAIN Client
  /\ \A c \in DOMAIN Client : Client[c].mode \in {"", "poll", "ping", "push"}

FormParameters ==
  {"scope", "login_hint", "login_hint_token", "id_token_hint", "binding_message", "resource",
   "client_notification_token", "requested_expiry"}
Hints == {"login_hint", "login_hint_token", "id_token_hint"}

\* A hint: the signer (of a login_hint_token) or audience (of an id_token_hint),
\* whether it has expired, and the names it gives the user, in the order of
\* _HINT_IDENTITY_CLAIMS.
NoHint == [by |-> "", expired |-> FALSE, names |-> <<>>]

NoObject == [iss |-> "", verifies |-> FALSE, alg |-> "", claims |-> [p \in {} |-> ""]]

\* _deduced_client_id
ClientId(d) ==
  IF d.client # "" THEN d.client ELSE IF d.assertion # "" THEN d.assertion ELSE d.object.iss

ActiveClient(id) == id \in DOMAIN Client /\ Client[id].active

\* _authenticate_client, apart from the credentials (ClientRegistry).
Authenticated(d) ==
  /\ ActiveClient(ClientId(d))
  /\ Client[ClientId(d)].bound => d.certificate
  /\ d.authenticated

\* _apply_request_object: no request_uri; a client that registered an
\* algorithm signs its requests with it, and only its own.
ObjectAccepted(d) ==
  LET c == Client[ClientId(d)]
  IN /\ ~d.request_uri
     /\ IF d.object = NoObject THEN c.signing_alg = ""
        ELSE /\ ActiveClient(d.object.iss) /\ d.object.verifies
             /\ c.signing_alg \in {"", d.object.alg}
             /\ d.object.iss = ClientId(d)

\* _merge_request_claims: what is signed replaces what is not, but a parameter
\* that is not signed stays.
Merged(d) ==
  [p \in FormParameters |-> IF p \in DOMAIN d.object.claims THEN d.object.claims[p] ELSE d.form[p]]

\* _validate_scopes
ScopesAccepted(c, scopes) ==
  "openid" \in scopes /\ scopes \subseteq Client[c].scopes /\ scopes \subseteq KnownScopes

\* _match_user: a subject, else the first account with this email, name or number.
MatchUser(name) ==
  IF name \in DOMAIN Account THEN name
  ELSE LET found == {u \in DOMAIN Account : name \in Account[u]}
       IN IF found = {} THEN "" ELSE CHOOSE u \in found : TRUE

\* _subject_from_claims: the first of the names that somebody bears.
SubjectFromClaims(names) ==
  LET known == {n \in DOMAIN names : MatchUser(names[n]) # ""}
  IN IF known = {} THEN ""
     ELSE MatchUser(names[CHOOSE n \in known : \A k \in known : n <= k])

\* _subject_from_login_hint_token: signed by the client, not expired.
FromLoginHintToken(c, t) == IF t.by = c /\ ~t.expired THEN SubjectFromClaims(t.names) ELSE ""

\* _subject_from_id_token_hint: issued to the client, and possibly expired; its
\* sub only.
FromIdTokenHint(c, t) == IF t.by = c /\ t.names # <<>> THEN MatchUser(Head(t.names)) ELSE ""

\* _resolve_subject: one hint and no more.  "": refused.
ResolveSubject(c, m) ==
  LET given == {h \in Hints : m[h] # NoHint}
  IN CASE given = {"login_hint"} -> MatchUser(Head(m.login_hint.names))
       [] given = {"login_hint_token"} -> FromLoginHintToken(c, m.login_hint_token)
       [] given = {"id_token_hint"} -> FromIdTokenHint(c, m.id_token_hint)
       [] OTHER -> ""

\* _validate_notification_token
NotificationTokenAccepted(mode, token) == mode = "poll" \/ token = "token68"

\* _resolve_ttl: 0 when it is refused.
ResolveTtl(requested, ttl, least) ==
  LET floor == IF least < ttl THEN least ELSE ttl
      wanted == IF requested < ttl THEN requested ELSE ttl
  IN IF requested <= 0 THEN 0 ELSE IF wanted < floor THEN floor ELSE wanted

\* The lifetime of the request: -1 stands for no requested_expiry.
Lifetime(m) == IF m.requested_expiry = -1 THEN Ttl ELSE ResolveTtl(m.requested_expiry, Ttl, MinTtl)

\* _resource_error: registered resources, hence well-formed ones.
ResourcesAccepted(resources) == resources \subseteq KnownResources

\* _binding_message_limit: the client's own, or (-1) the default.
BindingMessageLimit(c) == IF Client[c].binding_limit = -1 THEN BindingLimit ELSE Client[c].binding_limit

\* execute, _accept: what is asked of a request, in this order.
Accepted(d) ==
  LET c == ClientId(d)
      m == Merged(d)
  IN /\ Authenticated(d) /\ ObjectAccepted(d)
     /\ Client[c].mode # ""
     /\ ScopesAccepted(c, m.scope)
     /\ ResolveSubject(c, m) # ""
     /\ NotificationTokenAccepted(Client[c].mode, m.client_notification_token)
     /\ m.binding_message <= BindingMessageLimit(c)
     /\ Lifetime(m) > 0
     /\ ResourcesAccepted(m.resource)
     /\ d.user_code # "short"
=============================================================================
