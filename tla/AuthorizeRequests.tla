------------------------- MODULE AuthorizeRequests -------------------------
(***************************************************************************)
(* One authorization request on its way through /authorize: the request    *)
(* object is resolved, its jti remembered, the parameters completed, the   *)
(* request validated a first time before the login and a second time when  *)
(* it is executed, and the answer sent to where the client waits.          *)
(*                                                                         *)
(* The same request may be presented by several visits: the visit that     *)
(* comes back from the login form, or a second browser.  Between any two   *)
(* steps the client may be changed by its owner, and the trust chain of a  *)
(* federated client is fetched anew at every lookup: it may fail each time.*)
(***************************************************************************)
EXTENDS RequestValidation

CONSTANTS
  Visits,        \* browsers that present the request
  Sessions,      \* session identifiers ("" is anonymous)
  ClientIds,
  Entities,      \* client ids that are https entity identifiers
  Registered,    \* the clients of the registry at the start
  TrustChain,    \* external: the client derived for an entity
  Changes(_),    \* what the owner may turn a client into
  Cases,         \* the requests: transport, document, how it is passed, visits
  MaxTime        \* bound: the clock stops here

VARIABLES
  now,
  registry,   \* client records
  changed,    \* history: a client was changed since the start
  raw,        \* the request that the visits present
  visit,      \* the visits
  replays,    \* jti entries by session scope, with their expiry
  accepted,   \* history: how often a scope and jti were accepted
  raced       \* history: scopes in which two visits passed the test at once

vars == <<now, registry, changed, raw, visit, replays, accepted, raced>>

\* derive_client makes no client of FAPI 1 out of a trust chain.
ASSUME EntityAssumption ==
  /\ Entities \subseteq ClientIds /\ DOMAIN TrustChain = Entities
  /\ \A e \in Entities : TrustChain[e].profile # "fapi1"
\* A client that is changed is still there.
ASSUME ClientAssumption ==
  /\ DOMAIN Registered = ClientIds
  /\ \A c \in ClientIds : Registered[c] # NoClient => NoClient \notin Changes(Registered[c])
ASSUME SessionAssumption == Empty \notin Sessions
ASSUME CaseAssumption ==
  \A c \in Cases :
    /\ c.visits \subseteq Visits /\ c.by \in {"none", "value", "reference", "both"}
    /\ DOMAIN c.transport = Fields
    /\ DOMAIN c.document.claims \subseteq Fields /\ c.document.exp \in Nat

-----------------------------------------------------------------------------
(* Data *)

NoAnswer ==
  [kind |-> "none", uri |-> Empty, mode |-> Empty, error |-> Empty, carries |-> {},
   c_hash |-> Empty, at_hash |-> Empty, alg |-> Empty]

Page(error) == [NoAnswer EXCEPT !.kind = "page", !.error = error]

Redirect(uri, mode, error) ==
  [NoAnswer EXCEPT !.kind = "redirect", !.uri = uri, !.mode = mode, !.error = error]

Stages == {"idle", "arrived", "remember", "resolved", "admitted", "checked", "login",
           "authenticated", "issuing", "answered"}

\* signed_in: this visit went through the login form.  code: one was saved.
Idle ==
  [stage |-> "idle", session |-> Empty, signed_in |-> FALSE, params |-> Blank, client |-> NoClient,
   mode |-> Empty, code |-> FALSE, answer |-> NoAnswer]

Init ==
  /\ now = 1
  /\ registry = Registered
  /\ changed = FALSE
  /\ raw \in Cases
  /\ visit = [v \in Visits |-> Idle]
  /\ replays = {}
  /\ accepted = [k \in {} |-> 0]
  /\ raced = {}

\* find_by_id of FederatedClientReader: the registry first, then the trust
\* chain, which may not be reachable.
FindById(c) ==
  IF c \notin ClientIds THEN {NoClient}
  ELSE IF registry[c] # NoClient THEN {registry[c]}
  ELSE IF c \in Entities THEN {TrustChain[c], NoClient} ELSE {NoClient}

\* _resolve_federated_allowed_redirect_uris
AllowedByChain(c) == IF c \in Entities THEN {TrustChain[c].redirect_uris, {}} ELSE {{}}

\* The key of an entry of the replay store: namespace with the session, jti.
JtiKey(v) == <<visit[v].session, raw.document.jti>>

\* Faulty variant: one namespace for all sessions.
JtiKeyShared(v) == <<Empty, raw.document.jti>>

\* Where the entry is stored and looked up.
ReplayKey(v) == JtiKey(v)

Answer(v, a) ==
  visit' = [visit EXCEPT ![v] = [@ EXCEPT !.stage = "answered", !.answer = a]]

\* JarmSigner.sign_by_client_id: a client with an algorithm for its answers.
Signable(client) == client # NoClient /\ client.jarm

\* error_redirect with the signer: the client is looked up once more.
AnswerError(v, uri, mode, error, id) ==
  \E c \in FindById(id) :
    Answer(v, Redirect(uri, ErrorMode(mode, Signable(c)), error))

\* error_response
AnswerRefusal(v, r) ==
  IF r.redirectable
  THEN AnswerError(v, visit[v].params.redirect_uri, r.mode, r.error, visit[v].params.client_id)
  ELSE Answer(v, Page(r.error))

store == <<replays, accepted, raced>>
world == <<now, registry, changed, raw>>

-----------------------------------------------------------------------------
(* The request object *)

Arrive(v) ==
  /\ visit[v].stage = "idle" /\ v \in raw.visits
  /\ \E s \in Sessions \cup {Empty} :
       visit' = [visit EXCEPT ![v].stage = "arrived", ![v].session = s]
  /\ UNCHANGED <<world, store>>

\* Faulty variant: the target is taken from the request as it stands.
PickAny(candidate, allowed) == candidate

\* _pick_error_redirect_uri: only a URI of the allowed ones.
PickErrorRedirectUri(candidate, allowed) == IF candidate \in allowed THEN candidate ELSE Empty

\* What the refusals may read of the object: only a document that the query
\* carries itself, in the clear.
ByValue ==
  IF raw.by \in {"value", "both"} /\ raw.document.wrap = "none" THEN raw.document ELSE NoDocument

\* _federated_error_redirect_uris
ErrorRedirectUris(client, id) ==
  LET p == raw.transport
  IN IF client # NoClient
     THEN {IF client.federated \/ id \in Entities \/ p.redirect_uri # Empty
           THEN client.redirect_uris ELSE {}}
     ELSE {IF first # {} THEN first ELSE second :
             first \in AllowedByChain(id),
             second \in AllowedByChain(UnverifiedIssuer(ByValue))}

\* _request_object_error_response: to the URI of the query or, without one,
\* to the one of the object given by value, if it is allowed.
RequestObjectError(v, error) ==
  LET p == raw.transport
      candidate == IF p.redirect_uri # Empty THEN p.redirect_uri
                   ELSE UnverifiedClaim(ByValue, "redirect_uri")
  IN \E client \in FindById(p.client_id) :
       IF client = NoClient /\ p.client_id \notin Entities THEN Answer(v, Page(error))
       ELSE \E allowed \in ErrorRedirectUris(client, p.client_id) :
              LET uri == PickErrorRedirectUri(candidate, allowed)
              IN IF uri = Empty THEN Answer(v, Page(error))
                 ELSE IF client = NoClient
                 THEN AnswerError(v, uri, FederatedErrorMode(p), error, p.client_id)
                 ELSE AnswerError(v, uri, RequestedErrorMode(client, p.response_mode,
                                            HasTokens(p.response_type)), error, p.client_id)

Proceed(v, stage, params) ==
  visit' = [visit EXCEPT ![v].stage = stage, ![v].params = params]

\* resolve when there is no document: a client of FAPI 1 must have one.
ResolveWithout(v) ==
  /\ visit[v].stage = "arrived" /\ raw.by = "none"
  /\ \E client \in FindById(raw.transport.client_id) :
       IF client # NoClient /\ client.profile = "fapi1"
       THEN RequestObjectError(v, "invalid_request")
       ELSE Proceed(v, "resolved", raw.transport)
  /\ UNCHANGED <<world, store>>

\* HTTPRequestObjectFetcher.fetch may fail on any reference.
FetchFails == raw.by = "reference"

\* _decrypt: the envelope cannot be opened.
DecryptFails == raw.by # "both" /\ raw.document.wrap = "bad"

\* _document, _decrypt and _client_id_mismatch refuse.
ResolveUnreadable(v) ==
  /\ visit[v].stage = "arrived" /\ raw.by # "none"
  /\ \/ raw.by = "both" /\ RequestObjectError(v, "invalid_request")
     \/ FetchFails /\ RequestObjectError(v, "invalid_request_uri")
     \/ DecryptFails /\ RequestObjectError(v, "invalid_request_object")
     \/ /\ raw.by # "both" /\ raw.document.wrap # "bad"
        /\ ClientIdMismatch(raw.transport, raw.document)
        /\ RequestObjectError(v, "invalid_request")
  /\ UNCHANGED <<world, store>>

\* The client that the object is verified for: the one of the query, else
\* the one that the object names as its issuer.
ObjectClient(found, byIssuer) ==
  IF found # NoClient
  THEN [id |-> raw.transport.client_id, client |-> found]
  ELSE [id |-> UnverifiedIssuer(raw.document), client |-> byIssuer]

\* _resolve_fapi
ResolveFapi(v, id) ==
  IF \/ ~Verifies(raw.document, id, FapiAlgs, FapiRequired, now)
     \/ raw.document.nested
  THEN RequestObjectError(v, "invalid_request_object")
  ELSE Proceed(v, "resolved", MergeFapi(raw.transport, raw.document))

\* _resolve_standard up to the jti.  alg=none is read as it is.  "replay" is
\* the invalid_request for a jti that was presented before.
ResolveStandard(v, id, client) ==
  IF raw.document.alg = Empty \/ raw.document.alg \notin StandardAlgs \cup {"none"}
  THEN RequestObjectError(v, "invalid_request_object")
  ELSE IF raw.document.alg = "none"
  THEN IF raw.document.signer = Empty THEN Proceed(v, "resolved", Merge(raw.transport, raw.document))
       ELSE RequestObjectError(v, "invalid_request_object")
  ELSE IF client = NoClient THEN RequestObjectError(v, "invalid_request_object")
  ELSE IF ~client.federated
  THEN IF Verifies(raw.document, id, StandardAlgs, StandardRequired, now)
       THEN Proceed(v, "resolved", Merge(raw.transport, raw.document))
       ELSE RequestObjectError(v, "invalid_request_object")
  ELSE IF Verifies(raw.document, id, StandardAlgs, FederatedRequired, now)
       THEN IF \E r \in replays : r.key = ReplayKey(v)
            THEN RequestObjectError(v, "replay")
            ELSE Proceed(v, "remember", raw.transport)
       ELSE RequestObjectError(v, "invalid_request")

ResolveDocument(v) ==
  /\ visit[v].stage = "arrived" /\ raw.by \in {"value", "reference"}
  /\ raw.document.wrap # "bad" /\ ~ClientIdMismatch(raw.transport, raw.document)
  /\ \E found \in FindById(raw.transport.client_id) :
       \E byIssuer \in FindById(UnverifiedIssuer(raw.document)) :
         LET who == ObjectClient(found, byIssuer)
         IN IF who.client # NoClient /\ who.client.profile = "fapi1"
            THEN ResolveFapi(v, who.id)
            ELSE ResolveStandard(v, who.id, who.client)
  /\ UNCHANGED <<world, store>>

\* _remember_jti after is_used, then the claim sub, which costs the jti too.
\* An entry stored meanwhile: memory overwrites it, SQL fails the call.
Remember(v) ==
  LET key == ReplayKey(v)
      twice == \E r \in replays : r.key = key
      count == JtiKey(v)
  IN /\ visit[v].stage = "remember"
     /\ replays' = {r \in replays \cup {[key |-> key, exp |-> raw.document.exp]} : r.exp > now}
     /\ raced' = IF \/ twice
                    \/ \E w \in Visits \ {v} : visit[w].stage = "remember" /\ JtiKey(w) = count
                 THEN raced \cup {count} ELSE raced
     /\ IF raw.document.sub
        THEN RequestObjectError(v, "invalid_request") /\ UNCHANGED accepted
        ELSE \/ /\ Proceed(v, "resolved", Merge(raw.transport, raw.document))
                /\ accepted' = [k \in DOMAIN accepted \cup {count} |->
                     IF k \notin DOMAIN accepted THEN 1
                     ELSE IF k = count THEN accepted[k] + 1 ELSE accepted[k]]
             \/ twice /\ Answer(v, Page("server_error")) /\ UNCHANGED accepted
     /\ UNCHANGED world

-----------------------------------------------------------------------------
(* From the parameters to the answer *)

Missing(p) ==
  {f \in {"response_type", "client_id", "redirect_uri"} : p[f] = Blank[f]}
  \cup (IF p.scope = {} /\ p.authorization_details = Empty THEN {"scope"} ELSE {})

\* _form_post_missing_response_type: the one that a registered URI is told.
MissingAnswered(p, client) ==
  /\ Missing(p) = {"response_type"} /\ p.response_mode = "form_post"
  /\ client # NoClient /\ client.is_active
  /\ p.redirect_uri \in client.redirect_uris

\* _direct_authorize_request after the object: missing parameters, and the
\* clients that must push.
Admit(v) ==
  LET p == visit[v].params
  IN /\ visit[v].stage = "resolved"
     /\ \E client \in FindById(p.client_id) :
          IF Missing(p) # {}
          THEN IF MissingAnswered(p, client)
               THEN Answer(v, Redirect(p.redirect_uri, "form_post", "invalid_request"))
               ELSE Answer(v, Page("invalid_request"))
          ELSE IF client # NoClient /\ (client.par_required \/ client.profile = "fapi2")
          THEN IF p.redirect_uri \in client.redirect_uris
               THEN AnswerError(v, p.redirect_uri, RequestedErrorMode(client, p.response_mode,
                                  HasTokens(p.response_type)), "invalid_request", p.client_id)
               ELSE Answer(v, Page("invalid_request"))
          ELSE Proceed(v, "admitted", p)
     /\ UNCHANGED <<world, store>>

\* _federated_error_redirect: without a signer, to a URI of the trust chain.
FederatedRefusal(v, r, allowed) ==
  LET uri == PickErrorRedirectUri(visit[v].params.redirect_uri, allowed)
  IN IF uri = Empty THEN Answer(v, Page(r.error))
     ELSE Answer(v, Redirect(uri, ErrorMode(r.mode, FALSE), r.error))

\* _non_redirectable_error
Precheck(v) ==
  LET p == visit[v].params
  IN /\ visit[v].stage = "admitted"
     /\ \E client \in FindById(p.client_id) :
          LET r == Validate(p, client, FALSE)
          IN IF r.redirectable THEN Proceed(v, "checked", p)
             ELSE \E allowed \in IF r.error = "invalid_client" THEN AllowedByChain(p.client_id)
                                 ELSE {{}} : FederatedRefusal(v, r, allowed)
     /\ UNCHANGED <<world, store>>

\* Faulty variant: prompt=none has no answer of its own.
GateUnanswered(v) ==
  LET p == visit[v].params
  IN /\ visit[v].stage = "checked"
     /\ \/ /\ visit[v].session # Empty
           /\ Proceed(v, "authenticated", p)
        \/ /\ visit[v].session = Empty /\ "none" \notin p.prompt
           /\ Proceed(v, "login", p)
     /\ UNCHANGED <<world, store>>

\* _login_or_error with prompt=none: validated, then login_required.
LoginRequired(v) ==
  \E client \in FindById(visit[v].params.client_id) :
    LET r == Validate(visit[v].params, client, FALSE)
    IN AnswerRefusal(v, IF r.error = Empty THEN Refused("login_required", r.mode) ELSE r)

\* _authentication_gate for a server that requires a login; the demand of a
\* user is built anew, without resources and details.
Gate(v) ==
  LET p == visit[v].params
  IN /\ visit[v].stage = "checked"
     /\ \/ /\ visit[v].session # Empty
           /\ Proceed(v, "authenticated",
                      [p EXCEPT !.resource = {}, !.authorization_details = Empty])
        \/ /\ visit[v].session = Empty /\ "none" \notin p.prompt
           /\ Proceed(v, "login", p)
        \/ /\ visit[v].session = Empty /\ "none" \in p.prompt
           /\ LoginRequired(v)
     /\ UNCHANGED <<world, store>>

\* POST /login leads back to the same URL.
SignIn(v) ==
  /\ visit[v].stage = "login"
  /\ \E s \in Sessions :
       visit' = [visit EXCEPT ![v] = [Idle EXCEPT !.stage = "arrived", !.session = s,
                                                  !.signed_in = TRUE]]
  /\ UNCHANGED <<world, store>>

\* execute: validation with the registry; the code is saved first.
Execute(v) ==
  LET p == visit[v].params
  IN /\ visit[v].stage = "authenticated"
     /\ \E client \in FindById(p.client_id) :
          LET r == Validate(p, client, TRUE)
          IN IF r.error # Empty THEN AnswerRefusal(v, r)
             ELSE visit' = [visit EXCEPT ![v] =
                    [@ EXCEPT !.stage = "issuing", !.client = client, !.mode = r.mode,
                              !.code = "code" \in p.response_type]]
     /\ UNCHANGED <<world, store>>

\* resolve_id_token_material: the algorithm of the client or of the server.
IdTokenAlg(client) == IF client.alg = Empty THEN ServerAlg ELSE client.alg

\* _hash_artefact: the digest goes with the algorithm.
Digest == [RS256 |-> "sha256", ES512 |-> "sha512", none |-> Empty]

\* c_hash takes the algorithm of the id_token, at_hash that of the server.
Links(client, carries) ==
  [c_hash |-> IF "code" \in carries THEN Digest[IdTokenAlg(client)] ELSE Empty,
   at_hash |-> IF "token" \in carries THEN Digest[ServerAlg] ELSE Empty]

\* _issue_tokens, then the answer.  Without the material for the id_token the
\* call ends in an error for the query; the code stays saved.
Issue(v) ==
  LET p == visit[v].params
      client == visit[v].client
      links == Links(client, p.response_type)
      idToken == "id_token" \in p.response_type
  IN /\ visit[v].stage = "issuing"
     /\ IF idToken /\ ~client.material
        THEN AnswerError(v, p.redirect_uri, "query", "invalid_client", p.client_id)
        ELSE \E signed \in BOOLEAN :
               Answer(v, [Redirect(p.redirect_uri,
                            SuccessMode(visit[v].mode, HasTokens(p.response_type), signed), Empty)
                          EXCEPT !.carries = p.response_type,
                                 !.c_hash = IF idToken THEN links.c_hash ELSE Empty,
                                 !.at_hash = IF idToken THEN links.at_hash ELSE Empty,
                                 !.alg = IF idToken THEN IdTokenAlg(client) ELSE Empty])
     /\ UNCHANGED <<world, store>>

-----------------------------------------------------------------------------
(* The world *)

\* The owner of a client changes it (registration) or it is deactivated.
\* Bound: once, and a client that the request names.
ChangeClient(c) ==
  /\ ~changed /\ registry[c] # NoClient
  /\ c \in {raw.transport.client_id, raw.document.iss}
  /\ \E new \in Changes(registry[c]) : registry' = [registry EXCEPT ![c] = new]
  /\ changed' = TRUE
  /\ UNCHANGED <<now, raw, visit, store>>

Tick ==
  /\ now < MaxTime /\ now' = now + 1
  /\ UNCHANGED <<registry, changed, raw, visit, store>>

\* The store is shared with the DPoP proofs, which purge it too.
Purge ==
  /\ \E r \in replays : r.exp <= now
  /\ replays' = {r \in replays : r.exp > now}
  /\ UNCHANGED <<world, visit, accepted, raced>>

Step(v) ==
  \/ ResolveWithout(v) \/ ResolveUnreadable(v) \/ ResolveDocument(v) \/ Remember(v)
  \/ Admit(v) \/ Precheck(v) \/ Gate(v) \/ Execute(v) \/ Issue(v)

Next ==
  \/ \E v \in Visits : Arrive(v) \/ SignIn(v) \/ Step(v)
  \/ \E c \in ClientIds : ChangeClient(c)
  \/ Tick
  \/ Purge

Spec == Init /\ [][Next]_vars /\ \A v \in Visits : WF_vars(Step(v))

-----------------------------------------------------------------------------
(* Properties *)

\* An access token or an id_token is never in the clear in the query string of
\* the redirection (_resolve_response_mode: it would be in the history and in the
\* Referer).  It gets there inside an envelope that is signed, and only where the
\* request itself asked for response_mode=jwt and its client has an algorithm for
\* its answers; what could not be signed goes to the fragment.
TokensNeverBareInQuery ==
  \A v \in Visits :
    LET a == visit[v].answer
    IN (HasTokens(a.carries) /\ Carrier(a.mode) = "query")
       => a.mode = "jwt" /\ visit[v].params.response_mode = "jwt" /\ visit[v].client.jarm

\* What a client is or was, and the URIs that it has or had.
ClientsOf(c) ==
  (IF Registered[c] # NoClient THEN {Registered[c]} \cup Changes(Registered[c]) ELSE {})
  \cup (IF c \in Entities THEN {TrustChain[c]} ELSE {})
UrisOf(c) == UNION {x.redirect_uris : x \in ClientsOf(c)}

\* What validate_authorization_request refuses before it looks the client up: an
\* unsupported response_type, and a response_mode that is forbidden.
RefusedUnseen(p) ==
  /\ p # Blank
  /\ \/ p.response_type \notin ValidResponseTypes
     \/ ResolveResponseMode(p.response_mode, HasTokens(p.response_type)) = "none"

\* Wherever /authorize redirects to, success or error, the URI is one that some
\* client has registered or its trust chain names.  It is not so for the two
\* refusals that come before the client is looked up: against what the docstring
\* of AuthorizeError says of a redirect_uri that is not registered, they go to
\* the one of the request as it stands.  Of those the property says that they
\* are nothing but that error: no code was saved and no token is carried.
TargetRegistered ==
  \A v \in Visits :
    LET p == visit[v].params
        a == visit[v].answer
    IN a.kind = "redirect"
       => \/ \E c \in ClientIds : a.uri \in UrisOf(c)
          \/ /\ RefusedUnseen(p) /\ a.uri = p.redirect_uri
             /\ a.error \in {"unsupported_response_type", "invalid_request"}
             /\ a.carries = {} /\ ~visit[v].code

\* Nobody signs in for a request that then ends on an error page, unless the
\* client was changed, its trust chain failed or its object was refused the
\* second time: the first validation finds what cannot be redirected.
LoginNotInVain ==
  \A v \in Visits :
    (visit[v].signed_in /\ visit[v].answer.kind = "page" /\ ~changed /\ raw.by = "none")
      => raw.transport.client_id \in Entities

\* Where an answer goes: to a URI of a client, but for the two refusals above, or
\* else to a page for which nobody had to sign in (_pick_error_redirect_uri,
\* _non_redirectable_error).
AnswersAddressed == TargetRegistered /\ LoginNotInVain

\* A refusal that goes back to the client travels as the success would have
\* travelled.  Excepted are the refusals in the clear of a request for signed
\* answers, the missing material for an id_token, which _issue_tokens reports
\* in the query, and the object of an entity that cannot be resolved, whose
\* response_mode fragment is overlooked (_federated_error_mode).
ErrorTransport ==
  \A v \in Visits :
    LET p == IF visit[v].params = Blank THEN raw.transport ELSE visit[v].params
        a == visit[v].answer
    IN (/\ a.kind = "redirect" /\ a.error # Empty
        /\ p.response_mode # "jwt"
        /\ ~(a.error = "invalid_client" /\ visit[v].stage = "answered"
             /\ visit[v].client # NoClient))
       => \/ a.mode = ResolveResponseMode(p.response_mode, HasTokens(p.response_type))
          \/ /\ ResolveResponseMode(p.response_mode, HasTokens(p.response_type)) = "none"
             /\ a.mode = "fragment"
          \/ /\ p.response_mode = "fragment" /\ a.mode = "query"
             /\ raw.by # "none" /\ raw.transport.client_id \in Entities

\* Beside an id_token a code is bound to it by a c_hash that the client can
\* compute with the algorithm of that id_token, and an access token by an
\* at_hash where the client left the algorithm to the server.
LinksVerifiable ==
  \A v \in Visits :
    LET a == visit[v].answer
    IN "id_token" \in a.carries
       => /\ "code" \in a.carries => a.c_hash = Digest[a.alg]
          /\ "token" \in a.carries /\ a.alg = ServerAlg => a.at_hash = Digest[a.alg]

\* Whatever an answer carries, tokens or a refusal, it travels where the request
\* and the client allow, and its parts are bound to each other
\* (_resolve_response_mode, _error_response_mode, _issue_tokens).
AnswerSound == TokensNeverBareInQuery /\ ErrorTransport /\ LinksVerifiable

\* A request object of a federated client is accepted once per session scope
\* (_remember_jti), also when its entry has been purged meanwhile, unless two
\* presentations passed is_used before either saved.
JtiOncePerScope ==
  \A k \in DOMAIN accepted : accepted[k] <= 1 \/ k \in raced

\* A visit is refused as a replay only where its own scope has presented the
\* object before: the return from the login form is none.
ResumeNotReplay ==
  \A v \in Visits :
    visit[v].answer.error = "replay"
      => JtiKey(v) \in DOMAIN accepted \/ raw.document.sub

\* The parameters of a visit come from an object that c signed and from nothing
\* else: what it leaves out is blank.
FromObject(params, c) ==
  /\ raw.document.signer = c /\ raw.document.alg \in FapiAlgs
  /\ \A f \in Fields \ {"client_id"} :
       params[f] # Blank[f] => f \in DOMAIN raw.document.claims /\ params[f] = raw.document.claims[f]

\* The client was registered otherwise, and its owner turned it to FAPI 1 since.
BecameFapi(c) ==
  c \in ClientIds /\ Registered[c] # NoClient /\ Registered[c].profile # "fapi1"

\* Where the query names a FAPI 1 client, what is executed comes from an object
\* that this client signed (_merge_fapi), unless it became a FAPI 1 client
\* while the request was under way.
FapiFromObject ==
  \A v \in Visits :
    LET c == raw.transport.client_id
    IN (/\ visit[v].client # NoClient /\ visit[v].client.profile = "fapi1"
        /\ c # Empty /\ visit[v].params.client_id = c /\ ~BecameFapi(c))
       => FromObject(visit[v].params, c)

\* What is signed is honoured: a request object counts once, and for a FAPI 1
\* client it counts alone (signed_request_object.py, request_object.py).
ObjectsHonoured == JtiOncePerScope /\ ResumeNotReplay /\ FapiFromObject

\* Whatever a visit presents, it is answered or sent to the login form.
VisitAnswered ==
  \A v \in Visits :
    visit[v].stage = "arrived" ~> visit[v].stage \in {"answered", "login"}

-----------------------------------------------------------------------------
(* The inductive strengthening of the three invariants *)

\* The registry is as it was, or one client of it was changed.
RegistryInv ==
  /\ DOMAIN registry = ClientIds
  /\ ~changed => registry = Registered
  /\ \A c \in ClientIds :
       registry[c] # Registered[c] => Registered[c] # NoClient /\ registry[c] \in Changes(Registered[c])

Under == {"resolved", "admitted", "checked", "login", "authenticated", "issuing"}

\* A visit is a record with these fields.
Shape(x) ==
  x = [stage |-> x.stage, session |-> x.session, signed_in |-> x.signed_in, params |-> x.params,
       client |-> x.client, mode |-> x.mode, code |-> x.code, answer |-> x.answer]

\* What a visit has at each stage.
VisitType(x) ==
  /\ Shape(x) /\ x.stage \in Stages /\ DOMAIN x.params = Fields
  /\ x.stage \in {"idle", "arrived"} => x.params = Blank
  /\ x.stage = "remember" => x.params = raw.transport /\ raw.by # "none"
  /\ x.stage \in Under \ {"resolved"} => x.params # Blank /\ x.params.client_id # Empty
  /\ x.stage # "answered" => x.answer = NoAnswer
  /\ x.stage \notin {"issuing", "answered"} => x.client = NoClient /\ ~x.code

\* When the tokens are made the client is known, the URI is one of a client, and
\* the transport is the one of the request.
IssuingInv(x) ==
  x.stage = "issuing" =>
    /\ x.client # NoClient
    /\ \E c \in ClientIds : x.params.redirect_uri \in UrisOf(c)
    /\ x.mode = ResolveResponseMode(x.params.response_mode, HasTokens(x.params.response_type))
    /\ x.mode # "none"
    /\ x.mode = "jwt" => x.params.response_mode = "jwt" /\ x.client.jarm

\* The client of the query is FAPI 1, and was from the start.
FapiAllAlong(c) ==
  c \in ClientIds /\ Registered[c] # NoClient
  /\ Registered[c].profile = "fapi1" /\ registry[c].profile = "fapi1"

FapiInv(x) ==
  FapiAllAlong(raw.transport.client_id) =>
    /\ x.stage # "remember"
    /\ x.stage \in Under /\ x.params.client_id = raw.transport.client_id =>
         FromObject(x.params, raw.transport.client_id)

\* Without an object a visit goes on with the query; after the login without
\* resources and details.
Stripped(p) == [p EXCEPT !.resource = {}, !.authorization_details = Empty]

\* The client of the query at the start, and what the checks before the login
\* ask of the query.
ClientAtFirst ==
  IF raw.transport.client_id \in ClientIds THEN Registered[raw.transport.client_id] ELSE NoClient

\* It needs no object,
Unsigned == ClientAtFirst # NoClient => ClientAtFirst.profile # "fapi1"

\* it is complete and need not be pushed,
Admissible ==
  /\ Missing(raw.transport) = {}
  /\ ClientAtFirst # NoClient => ClientAtFirst.profile # "fapi2" /\ ~ClientAtFirst.par_required

\* and what is wrong with it can be told to the client.
Redirectable == Validate(raw.transport, ClientAtFirst, FALSE).redirectable

LoginInv(x) ==
  raw.by = "none" =>
    /\ x.stage \in {"resolved", "admitted", "checked", "login"} => x.params = raw.transport
    /\ x.stage = "authenticated" => x.params = Stripped(raw.transport)
    /\ ~changed /\ raw.transport.client_id \notin Entities =>
         /\ x.signed_in \/ x.stage \in {"resolved", "admitted", "checked", "login"} => Unsigned
         /\ x.signed_in \/ x.stage \in {"admitted", "checked", "login"} => Admissible
         /\ x.signed_in \/ x.stage \in {"checked", "login"} => Redirectable

\* A jti that was accepted is in the store until the object expires; a visit
\* that is about to save one that was accepted has raced.
JtiInv ==
  /\ now \in Nat
  /\ \A r \in replays :
       r.exp = raw.document.exp /\ (r.key \in DOMAIN accepted \/ raw.document.sub)
  /\ \A k \in DOMAIN accepted :
       accepted[k] \in Nat /\ (raw.document.exp <= now \/ \E r \in replays : r.key = k)
  /\ \A v \in Visits :
       visit[v].stage = "remember" /\ JtiKey(v) \in DOMAIN accepted => JtiKey(v) \in raced

RequestInv ==
  /\ RegistryInv /\ JtiInv /\ raw \in Cases /\ DOMAIN visit = Visits
  /\ \A v \in Visits :
       VisitType(visit[v]) /\ IssuingInv(visit[v]) /\ FapiInv(visit[v]) /\ LoginInv(visit[v])
  /\ AnswersAddressed /\ AnswerSound /\ ObjectsHonoured
=============================================================================
