# A TLA+ verification of puridentityserver

puridentityserver is an OAuth 2.0 / OpenID Connect provider: asynchronous Python
(FastAPI), use cases in `application/`, stores in `infrastructure/persistence/`
(in memory or SQL). Several requests of one process, and several processes on one
database, run at the same time. The stores offer single-row reads and writes
without conditions, and the use cases hold no lock across their awaits (the one
exception is the lock of `JWKSetUseCase`). That is where the hard behaviours lie:
a row is read, checked and written back later, and everything can happen between.

This directory models the parts of the server that keep state in this way. TLC
checks each model on small instances; TLAPS proves the safety properties, all but
one, for every value of the constants. Paths below are relative to
`src/src/puridentityserver/` unless they start otherwise.

## 1. Inventory

| Component | State it keeps | Operations | Hard behaviour | What makes it correct |
|---|---|---|---|---|
| Token endpoint (`application/token.py`) | codes, refresh tokens, denylist entries | exchange a code, redeem a pre-authorized code, renew, revoke on replay | look-up and consumption are separate calls; the call may stop between any two | single use, replay revokes, scope/resource/binding never widen |
| Device grant (`application/device_authorize.py`, `_device_code`) | sessions | open, poll, approve, deny | a poll saves the whole row it loaded | tokens follow the decision, one answer, a polling device is answered and its row removed |
| CIBA (`application/backchannel_authorize.py`, `_ciba`) | requests | accept, decide, ping, push, poll | as above, plus best-effort notifications and a retried issuance | tokens follow the decision, one answer, one notification |
| Signing keys (`application/jwks.py`, `infrastructure/jwks.py`) | key pairs | start, publish, retire, purge, rotate, sign | several processes write rows they read earlier; the JWKS is two reads | an active key, verifiable and published tokens |
| Resource access (`application/{revocation,introspect,userinfo,protected_resource}.py`) | denylist | revoke, present, introspect | the clock and the denylist are read at different moments; entries are purged | a revoked token is never served |
| DPoP (`infrastructure/dpop.py`) | `jti` seen | validate a proof | `is_used` and `save` are separate; window and entry expire apart | a proof authorizes one call |
| Pushed requests (`application/par.py`) | pushed parameters | push, resolve, complete | resolved many times, consumed at the end of the flow | a `request_uri` yields one response |
| Authorization and consent (`application/{authorize,consent}.py`, `interfaces/api/`) | consents, session cookie | authorize, log in, sign up, consent | a request is carried through redirects and forms by the browser; a consent is read, merged and written; cookies change between pages | codes are approved, fresh, and for what was asked; logging in leads somewhere |
| Validation of requests (`application/{authorize,request_object}.py`, `infrastructure/signed_request_object.py`) | `jti` of request objects | resolve the object, validate, execute, answer | validated twice with a login in between; the client changes meanwhile | answers go to the client, by a transport that fits, an object counts once |
| Client registration and authentication (`application/{registration,client_auth}.py`, `infrastructure/{secrets,client_assertions}.py`) | clients, sealing keys | create, read, update, delete, authenticate | the whole row is written back; hash and sealed copy of a secret must follow the method | a stored client can authenticate with the secret its owner has; a deleted one does not come back |
| Credential issuance (`application/oid4vci.py`, `infrastructure/mdoc*.py`), verifier (`oid4vp.py`) | offers, codes, notification ids, certificates, nonces | offer, redeem, issue, notify; request and validate a presentation | part of the state is in one process only; the certificates are a file that any process may write | credentials are the offered subject's, mdocs verify, a presentation counts once |
| Client credentials, JWT bearer (`application/token.py`) | — | issue a token to a client | — | scopes of the client only |
| Logout and session management (`application/{logout,session_management}.py`) | — | log out, notify, watch | notifications one after the other while logins and clients change | every client is told, and none thinks the session goes on |
| Accounts (`identity/`, `domain/password_policy.py`) | users, session keys, cookies | sign up, log in, reset, verify | cookies are not stored, their keys rotate; resets read, then write | sessions survive rotations, a reset token works once, the policy holds |
| Federation (`application/federation.py`, `domain/federation.py`) | configuration | resolve a trust chain, register, publish | each fetch sees another moment of other entities | an accepted chain is vouched for, policies are applied, resolution ends |
| Discovery, OpenID 2.0, JWE, settings, resource administration | configuration, or none | rendering, encodings, CRUD | — | — |

`PROJECT.json` lists the components with their sources and status, and the hazards
with the line where each one bites and the properties that would catch it.

How they interact: `/authorize` and credential offers write codes that the token
endpoint redeems; the token endpoint writes the denylist that `/userinfo`,
`/introspect` and the protected resource read; every signature reads the key store
that JWKS publication and the administration server change; the device and CIBA
grants end in the same issuing code as an exchange. `/authorize` looks clients up in
the registry or derives them from a trust chain, sends the browser through the login
module and reads its cookie; `/end_session` clears that cookie and tells the clients.

## 2. Modules

All modules follow one convention. A request in progress is a *slot* with a program
counter. One step performs a load from the store and every check after it that reads
nothing shared; each later store call is a step of its own and works on the copy the
load returned. A request that is refused changes nothing and has no action. A request
may stop after any step (`Abort...`): the process ends, the client disconnects, a
store fails, or the issuing code returns an error. Random identifiers are drawn from
a set and never reused. Times are small integers. Variables marked *history* exist
for the properties only and never enable or disable an action.

| Module | Models | State | Actions |
|---|---|---|---|
| `TokenGrants` | `_exchange_code`, `_pre_authorized_code`, `_refresh`, `_issue_tokens`, `_record_issued_tokens`, `_revoke_issued_tokens`, the code and refresh-token stores | `codes`, `refresh_tokens`, `revoked`, `access_tokens`, `req` | `Issue`; `ExchangeStart`, `PreAuthorizedStart`, `RefreshStart`; `ConsumeCode`, `ConsumeRefresh`, `MintRefresh`, `MintAccess`, `Record`, `Respond`; `ReplayStart`, `RevokeAccess`, `RevokeRefresh`; `PurgeExpired`, `Abort`, `Tick` |
| `SingleUseGrant` | what a store of single-use supports promises (abstract) | `phase`, `out` | issue, spend, race, answer |
| `DeviceGrant` | `/device_authorization`, the verification page, `_device_code` and its helpers | `sessions`, `poll`, `page` | `Open`; `PollExpired/Approved/Pending/Refused`, `PollDelete/Save/Consume/Issue`; `DecideExpired/Pending`, `DecideDelete/Apply` |
| `Ciba` | `/bc-authorize`, `/ciba/approve`, `_ciba` and the notifiers | `requests`, `poll`, `approval` | `Accept`; the polls as above; `Decide`, `DecideApply`, `PushConsume`, `PushIssue`, `PushFail`, `Notify` |
| `KeyRotation` | `JWKSetUseCase`, `DefaultKeyManager`, `first_active_key`, the administrative rotation | `keys`, `server`, `signer` | `MarkStart`, `MarkKey`, `EnsureActive`, `CheckAge`, `ReadActive`, `ReadRetired`; `AdminStart`, `RotateRead`, `Generate`, `Retire`; `SignStart`, `SignGenerate`, `SignLookup`, `Sign`; `Crash` |
| `ResourceAccess` | `/revoke`, `/introspect`, `/userinfo`, the protected resource, the proof validator and both expiring stores | `denylist`, `replays`, `call`, `revocation` | `RevokeStart/Validate/Save`, `RevokeIssued`; `Present`, `Refuse`, `AnswerUnbound`, `CheckProof`, `Lookup`, `SaveJti`, `Accept` |
| `Authorization` | `/par`, the gates of `/authorize`, login and sign-up pages as seen from it, `/consent`, the saving of the code | `pushed`, `consents`, `session`, `page`, `call` | `Push`, `Navigate`, `SignInElsewhere`, `SignOut`, `ServePage`, `AnswerForm`, `ServeCall` (resolve, gate, consent, save, complete), `Abort` |
| `RequestValidation` | `validate_authorization_request`, response modes, request objects and their merge (operators) | | |
| `AuthorizeRequests` (extends it) | a request through `/authorize`, with the login in between | `registry`, `visit`, `replays` | `Arrive`, `SignIn`, `Step` (resolve, remember, complete, validate, execute, issue), `ChangeClient`, `Purge` |
| `ClientMetadata` | the parsers of a registration body, in their order, and the checks on metadata (operators) | | |
| `ClientRegistry` (extends it) | `/register`, sealed secrets, client authentication | `clients`, `sealKeys`, `call` | `Register`, `Update`, `UpdateSeal`, `Delete`, `DeleteRow`, `Save`, `Respond`, `Abort`, `RotateSealKey` |
| `BackchannelRequest` | what `/bc-authorize` asks of a request (operators; `Ciba` extends it) | | |
| `Federation` | trust chain resolution, explicit registration, `/federation/*` | `keys`, `signer`, `attested`, `call` | `ResolveClient`, `ResolveEntity`, `ExplicitRegister`, `Step`; the others: `PublishKeys`, `SwitchKey`, `Attest`, `Withdraw` |
| `PasswordPolicy` | the password policy (operators) | | |
| `Accounts` (extends it) | sign-up, login, cookies and their keys, resets, verification, logout, `session_state` | `users`, `keyset`, `cookie`, `watched`, `clients`, `mails`, `resets`, `logout` | `SignUpCheck/Create`, `Register`, `Login`, `Watch`, `ForgotPassword`, `ResetRead/Write`, `RequestVerify`, `Verify`, `EndSession`, `Notify`, `EndSessionAnswer/Over`, `Deactivate` |
| `Credentials` | offers, credentials, mdoc certificates, presentations, tokens of clients | `tokens`, `codes`, `offers`, `nonces`, `file`, `cache`, `requested` | `ClientCredentials`, `JwtBearer`, `CreateOffer`, `SaveOffer`, `RedeemOffer`, `IssueNonce`, `EnsureMdocPki`, `SaveOpen`, `SaveWrite`, `IssueCredential`, `Notify`, `RequestPresentation`, `PresentationResponse`, `Restart` |
| `TokenGrants_proof`, `DeviceGrant_proof`, `Ciba_proof`, `KeyRotation_proof`, `Authorization_proof`, `Credentials_proof`, `ClientRegistry_proof`, `Accounts_proof` | theorems (section 4). Three treat a second module, through an `INSTANCE` and with its assumptions as hypotheses: `KeyRotation_proof` also `ResourceAccess`, `Authorization_proof` also `AuthorizeRequests`, `ClientRegistry_proof` also `Federation`. The inductive invariants are at the end of the modules themselves, so that TLC can evaluate them | | |
| `*MC` | instances for TLC: grants, symmetry | | |

Abstractions worth knowing:

* The data a property does not tell apart is gone. In the token endpoint: id_tokens,
  claims, nonces, PKCE, redirect URIs, client secrets, user codes. Their checks only
  refuse.
* In `TokenGrants` a DPoP proof is the thumbprint of its key; that it is fresh is
  `ResourceAccess`'s subject. A token remembers (history) the code it descends from
  and the refresh token it was renewed with.
* `consume`, `approve`, `deny` of the SQL stores are one transaction on one row and
  one step here, as they are under the lock of the in-memory stores.
* A FAPI2 client renews without rotating (`_refresh` skips the consumption).
* `ResourceAccess` counts the mTLS certificate check among the refusals, which change
  nothing. Its entry times are the code's: `exp` for a revoked token, now plus two
  skews for a `jti`.
* `KeyRotation` turns the loops over keys and algorithms into sets of work left;
  `_mark_expired_keys` looks for an active key and then calls `ensure_active_key`,
  which looks again: the two looks are one step, since the second decides whenever
  the first finds nothing. The encryption keys are left out: they are neither rotated
  nor purged.
* `Authorization` starts from demands that validation accepts; what validation does is
  `AuthorizeRequests`'s subject. A call reads the cookie it was sent with. One browser
  stands on one page, and two slots let one page be served twice.
* In `RequestValidation` an absent parameter has the blank value of its field, and a
  request object is a function on part of the fields. A signature is who made it and
  with which algorithm; whether a JWE opens is an outcome.
* A registration body gives each member one of four shapes: absent, empty, accepted or
  refused by its parser. `ParseOrder` is the order of the code, so that the first
  refusal is the one the code reports. Only what checks and credentials depend on is a
  value.
* A secret in `ClientRegistry` is a name, its hash and its seal are records around it: a
  seal opens while its key is in the store.
* `Federation` has keys that are numbers; who signed a document is its issuer. Every fetch
  is a step, may fail, and sees the entities as they are then.
* A password in `Accounts` is what the policy sees of it: length, classes, and steps
  between neighbouring characters.
* `Credentials` has user tokens from the start; they come from the grants of the other
  modules.
* The operators marked *Faulty variant* are not used by the specifications. Each one
  is the definition below it with a plausible mistake (a dropped guard, a stale copy,
  a missing reset) and serves to show that a property notices it.

## 3. Runs

| Run | Instance | Checks |
|---|---|---|
| `grants` | 1 code, a rotating client and a credential offer, 2 concurrent calls, 3 access and 3 refresh tokens, 2 instants | `TypeOK`, `SingleUseUnlessRaced`, `ReplayRevokes`, `ConsumedForever`, `ImplementsSingleUse` |
| `grants_lineage` | 4 grants over 2 clients (public; FAPI2 with mTLS), 2 scopes, 2 resources, 2 keys, 2 certificates, 1 call at a time, chains of up to 3 tokens, 3 instants | `GrantLineage`, `BindingInherited` |
| `device` | 1 session, 2 polls and 2 pages at once, 3 instants, an interval longer than the run, so that `slow_down` happens | `TokensFollowDecision`, `SessionSingleUse`, `SessionsSettled` (liveness) |
| `ciba` | 1 request in each of the three modes out of some 580 that are sent, 2 polls and 2 decisions at once, 3 instants | `TokensFollowApproval`, `NotifiedOnceUnlessRaced`, `RequestSingleUse` |
| `keys` | 1 algorithm, 3 keys, a provider, an administration server, a signer, 5 instants (a key's whole life is 3) | `ActiveUnlessAged`, `VerifiableUntilExpiry`, `PublicationComplete` |
| `resource_access` | a bound and a plain token, 2 proofs (one with the wrong key), 2 presentations and 1 revocation at once, 4 instants | `RevokedNotServed`, `ProofSingleUse` |
| `authorization` | 1 browser, 2 users, 2 clients (one with consent, one that must push), 2 direct and 2 pushed demands with `prompt` and `max_age`, 2 calls at once, 3 instants | `CodesApproved`, `FreshLogin`, `CodeMatchesRequest`, `PushedOnceUnlessRaced`, `ConsentKeptUnlessOverlapped`, `NoLoginLoop` (liveness) |
| `requests` | 6 clients (plain, without material, FAPI 1, FAPI 2, inactive, federated), every response type and mode, parameters out of order, 17 request objects by value, by reference and both; 2 visits where an object has a `jti`, one change of a client, to another profile too | `AnswersAddressed`, `AnswerSound`, `ObjectsHonoured`, `VisitAnswered` (liveness) |
| `registration` | 1 client, 2 secrets, 12 bodies (7 accepted, one with a `jwks_uri`, one with two signing keys without `kid`), 3 remote keys of which one can be found, 2 calls at once and 4 in all, 2 sealing keys | `StoredUsable`, `SecretInForce`, `DeletedForGood` |
| `federation` | a relying party, an intermediate, 2 anchors, the provider, an old address; 17 layouts, 2 keys each, 2 changes during a resolution | `ChainVouched`, `PolicyWins`, `ResolutionEnds` (liveness) |
| `accounts` | 1 user, 2 browsers (symmetric), 2 clients, 3 passwords, 3 logins, 5 instants; a key signs for 2 and is deleted after 4, cookies live 2 (within the grace period) or 4 | `SessionsSurvive`, `ResetsSoundUnlessRaced`, `LogoutReaches` |
| `credentials` | 2 processes, 2 subjects, 2 user tokens and those of a client, 2 offers, 2 presentations, 5 instants | `OfferedSubject`, `MdocVerifiable`, `PresentationOnce` |

What they show, in words:

* **Device sessions.** A device that polls until it is told the end of it is told, whatever
  polls and decisions overlap; the row is gone by then and stays away, unless a user
  refused it or calls raced on it (`SessionsSettled`).
* **Single use.** A code or a refresh token yields one token of each kind, *unless* two
  calls both found it unconsumed before either consumed it. The variable `raced`
  records exactly that, and the properties, and the abstract `SingleUseGrant`, have
  this exception and no other. The same shape holds for device sessions and CIBA
  requests; there `raced` also covers a decision or a removal under the eyes of a call
  that still holds the old row.
* **Replay.** Once a replay of a consumed code has completed, every token that a client
  had received from that exchange before the replay began is dead, for good: the
  denylist entry is purged only when `exp` has passed. Tokens the first exchange
  delivers *after* the replay began are not covered (the replay finds a row that names
  none), nor are the descendants of a refresh token already rotated: the code revokes
  what the row names.
* **Lineage.** Renewals, in any number and order, never leave the client, the scopes
  and the resources of the authorization, nor of the refresh token used, and hand the
  DPoP key and the certificate on.
* **Keys.** No interleaving of rotations leaves an algorithm without an active key until
  a key is retired for its age; tokens signed with a key within `rotation_days` stay
  verifiable and are in every JWKS until they expire, provided that no token outlives
  the grace period (`GraceAssumption`). `first_active_key` does not look at a key's age,
  so that a server whose JWKS nobody reads may sign with an over-age key and lose it at
  the next read; the property excludes those tokens (`InAge`).
* **Resource access.** A token whose revocation was answered is never called active by a
  call that begins later, as long as it is in force. A proof is accepted once, unless
  two calls look it up before either saves it or its window closes meanwhile.

* **Authorization.** No sequence of logins as different users, reopened pages and
  overlapping forms yields a code for a scope its user did not accept, or for a demand
  other than the one under its URL; `prompt=login` and `max_age` are met by a login
  made for that URL, and signing in always satisfies the URL that asked for it. A
  `request_uri` is answered once unless two flows held it at the same time; a consent
  loses no scope unless two grants overlapped.
* **Requests.** `AnswersAddressed`: an answer goes to a registered URI, or to a page, and
  nobody signs in for a request that could not be answered. Two refusals are excepted,
  which the code makes before it looks the client up and sends to an unverified URI (see
  the observations); of those the property says that they carry neither code nor token.
  `AnswerSound`: tokens are never in the clear in a query string, and in a signed envelope
  there only if the request asked for `response_mode=jwt` and its client has an algorithm
  for that; errors travel by the mode the request and the client allow; `c_hash` binds the code to the id_token, and `at_hash` the access token where the algorithm is
  the server's. `ObjectsHonoured`: a `jti` counts once per session scope, but
  the visit that returns from the login is no replay; a FAPI 1 client's parameters come
  from the object alone, unless it became a FAPI 1 client while the request was under
  way. `VisitAnswered`: every visit ends.
* **Registration.** Through any sequence of updates and rotations of the sealing key a
  stored client can authenticate and has the material its id_tokens need; one secret
  works, and it is the one its owner was last given. The exceptions are in the
  properties: overlapping calls, lost answers, an update that seals nothing (`unsealed`),
  and four kinds of keys that no assertion can be matched with (`Unmatched`).
* **Federation.** `ChainVouched` is five parts: the chain ends at a trusted anchor; the
  anchor has vouched for the subject; the keys the subject signs with are those its
  superior attests; the anchor's statement verifies with the configuration at the end;
  the answer expires no later than anything it rests on.
* **Accounts.** Cookies within the grace period outlive the rotation of their key, which a
  login in another browser brings about while they are held; resets
  that do not overlap use a token once and do not go back in the history; an answered
  logout has reached every client of the list, and no client is told that the session
  goes on.
* **Credentials.** A credential got through an offer is the offered subject's, however
  many offers led to it; mdocs of all processes verify under one issuer, if nothing
  disturbed the file; no nonce is accepted twice.

Three instances also evaluate operators against a reference, as assumptions: `RunsFound`
(the run detector of the password policy, over all inputs of up to 8 characters),
`TtlWithinBounds` and `AcceptedForTheClient` (lifetimes and hints of CIBA requests).

### Observations

Behaviour of the code that the models have and that the properties make an exception
for, or that falls outside them. None is repaired in the models.

* Token endpoint: two exchanges that look a code up before either consumes it both get
  tokens (`application/token.py:367`, `:390`; `README.md:110` says single use). A
  pre-authorized exchange records no token, so that its replay revokes none
  (`token.py:1550`, `:1585`). `jwt-bearer` lets a client assert any subject.
* Device grant: a poll that answers `authorization_pending` saves its old copy, over a
  decision taken meanwhile (`token.py:809`). Rows stay in the store for good when nobody
  polls for them any more: that of a refused session, whose device stops at
  `access_denied` (`token.py:805`) before the expiry; one that a late save has put back
  after the last answer; and that of a device that gives up. No job purges them.
* Keys: with the proactive rotation off, a read of the JWKS may retire the last key and
  publish no active one (`application/jwks.py:169`).
* Authorization: `_with_authenticated_subject` (`interfaces/api/authorize.py:696`) does
  not copy `resource` and `authorization_details`, so that `CodeMatchesRequest` says no
  more of them than that nothing is added. A code issued from `/consent` carries
  `auth_time` 0, and the consent form does not look at `prompt` and `max_age` again:
  `FreshLogin` is about codes issued straight from `/authorize`. Two grants of consent
  that overlap lose one (`application/consent.py:85`).
* Requests, where code and documentation differ: the docstring of `AuthorizeError`
  (`application/authorize.py:171`) says that an error about a `redirect_uri` that is not
  registered "ne doit jamais repartir en redirection", as do the comment at `:343` ("aucune
  redirection n'est de confiance") and the docstring of `_non_redirectable_error`
  (`interfaces/api/authorize.py:728`). But an unsupported `response_type` and a forbidden
  `response_mode` are refused before the client is looked up (`application/authorize.py:327`,
  `:338`), as errors that may be redirected: the browser is sent to the `redirect_uri` of
  the request, whoever it belongs to. `TargetRegistered` without its second disjunct is
  refuted by TLC in a few steps.
* Requests: `response_mode=jwt` puts the envelope in the query string (`:1057`), signed and
  not encrypted, access token and id_token inside. The docstring of
  `_resolve_response_mode` (`:1070`) says so; what it says just before of a query string
  (history, Referer) holds of the envelope as well.
* Requests, another docstring: the one of `_federated_error_mode`
  (`interfaces/api/authorize.py:649`) says that a refusal travels by the `response_mode`
  that was asked for, but only `form_post` is looked at: the request object of an entity
  that cannot be resolved, sent with `response_mode=fragment`, is refused in the query;
  `_requested_error_mode`, for a client that is found, honours `fragment`. The proof of
  `AnswerSound` came upon it, and TLC refutes `ErrorTransport` without this exception. The
  proof of `ObjectsHonoured` came upon the other exception: the object is resolved for the
  client as it is then, and the client that the request is executed for is looked up again;
  if its owner turned it to FAPI 1 in between, parameters of the query are executed for a
  FAPI 1 client.
* Requests: `at_hash` is made with the algorithm of the server even where the id_token is
  signed with the client's (`application/authorize.py:844`, against the docstring of
  `_hash_artefact`); an error that cannot be signed goes to the query; a code is saved
  before the material of the id_token is looked for; the `jti` is spent before `sub` is
  checked.
* Registration: a `PUT` to `client_secret_jwt` without a secret, where none is sealed,
  leaves the client without one (`unsealed`); a client with an encryption-only `jwks` and
  a `jwks_uri` never authenticates, and nobody looks into a `jwks_uri` before it is stored,
  where keys without `kid` or with `use=enc` are passed over. A `kid` is not asked for:
  with two signing keys that have none in its `jwks`, a client of `private_key_jwt` is
  registered and every assertion of it is refused
  (`infrastructure/client_assertions.py:254`), and so with signing keys whose `alg` is one
  of `RSA-OAEP*`, which PyJWT does not read (`StoredUsable` excepts these, and the
  unsealed); `save` is an upsert, so an update that began before a
  deletion brings the client back; the answer that carries a generated secret is the only
  copy.
* Federation: only the first superior's statement is compared with the keys of the
  subject, and statements are always fetched about the leaf, so intermediates are not
  attested; policy operators other than `value` and `default` are ignored; no configured
  anchor means any anchor.
* Accounts: a client's `password_policy` out of range makes `/signup` fail; a sign-in in
  another tab during a logout is cleared without its clients being told; a reset ends no
  session; sessions longer than the grace period are lost at a rotation; a reset compares
  with the history, not with the current password. In the model a login chooses its key
  and reads the clock in one instant; the code awaits the key store in between and reads
  the clock last (`identity/rotating_signer.py:61`, `:83`), so that the key of a session
  whose lifetime is just that of the grace period may be deleted earlier than `exp` by
  what these calls take.
* Credentials: the configurations of an offer bear on nothing; a `c_nonce` may be used
  again until it expires; notification ids and presentation nonces are known to one
  process; without `mdoc_pki_path` each process is its own issuer; a stored PKI is never
  made anew, so that after 456 days mdocs are signed outside the validity of the signer.
* CIBA: the `jti` of a request object is spent before scopes and hints are checked; form
  parameters survive next to a signed object; a decision does not look at the expiry. The
  docstring of `CibaApprovalUseCase` promises that a decision never notifies twice;
  `NotifiedOnceUnlessRaced` says when that is so.

### Bounds

`MaxTime` bounds the clock, the identifier sets bound how many codes, keys and tokens a
behaviour creates. They were chosen so that the cases the properties are about
happen: an entry purged while a call is under way, a code that expires, a renewal of a
renewal, a key that is retired, purged and replaced, a proof presented at both ends of
its window. Two slots are what a race needs; a third adds no new pair. `DeviceGrant`
and `Ciba` cap the polling interval just above the last instant, beyond which all
intervals refuse alike, and `Ciba` counts notifications up to two. `MaxVisits`, `MaxCalls`, `MaxChanges`,
`MaxLogins` and the like bound how often the environment acts: twice is what a replay or
an overtaking needs, and four calls are a registration, two updates and a deletion.
`MaxLoad` in `Accounts` and `Credentials` bounds the total of the things created in one
behaviour, weighed in `Accounts` by the steps they lead to, so that every combination of a
few of them is reached and not the product of all. In `accounts` it leaves room for a
cookie signed with a key that is no longer new, retired by the other browser's login while
the cookie is held; for a longer session whose key is deleted under it; for two resets one
after the other and two that overlap; for logouts of both browsers at once, and for a
sign-in or a deactivation during one. Deadlock checking is off: a server without requests, at the last instant of the run, rightly does nothing.

### Fairness

`DeviceGrant`, for `SessionsSettled`: the clock ticks (weak). A device that holds a code
polls until it is told that its session is over (tokens, `access_denied`, `expired_token`
or `invalid_grant`) and owes no poll after that: RFC 8628 sections 3.4 and 3.5 (`PollAgain`,
strong, since other polls may pre-empt it). A call that has loaded goes on or stops (weak), and
the removal of an expired row is not interrupted for ever (strong).

`Authorization`, for `NoLoginLoop`: calls go on and the clock ticks (weak), and the user
follows the pages and answers the forms shown (strong, since the browser may be sent
elsewhere in between). The property says what such a user is owed.

`AuthorizeRequests` and `Federation`: a request that the server works on goes on (weak on
`Step`). The event loop justifies it; every fetch has a timeout of ten seconds, and its
failure is a step too.

## 4. Proofs

Each theorem holds for any sets of clients, users, identifiers, keys, processes and calls,
any lifetimes and any number of steps, under the named assumptions of its module.

| Module | Theorem | Statement |
|---|---|---|
| `TokenGrants_proof` | `TypeCorrect` | `Spec => []TypeOK` |
| | `LineageHolds` | `Spec => []GrantLineage` |
| | `BindingHolds` | `Spec => []BindingInherited` |
| | `ConsumptionHolds` | `Spec => ConsumedForever` |
| | `SingleUse` | `Spec => []SingleUseUnlessRaced` |
| | `ReplayHolds` | `Spec => []ReplayRevokes` |
| | `SingleUseRefined` | `Spec => ImplementsSingleUse` (refinement) |
| `DeviceGrant_proof` | `SessionInvariant` | `Spec => []SessionInv` |
| | `DecisionFollowed` | `Spec => []TokensFollowDecision` |
| | `SessionRefines` | `Spec => SessionSingleUse` (refinement) |
| `Ciba_proof` | `RequestInvariant` | `Spec => []RequestInv` |
| | `ApprovalFollowed` | `Spec => []TokensFollowApproval` |
| | `NotifiedOnce` | `Spec => []NotifiedOnceUnlessRaced` |
| | `RequestRefines` | `Spec => RequestSingleUse` (refinement) |
| `KeyRotation_proof` | `KeyInvariant` | `Spec => []KeyInv` |
| | `ActiveHolds` | `Spec => []ActiveUnlessAged` |
| | `Verifiable` | `Spec => []VerifiableUntilExpiry` |
| | `PublicationHolds` | `Spec => []PublicationComplete` |
| (of `ResourceAccess`) | `TypeCorrect` | `Spec => []TypeOK` |
| | `RevocationHolds` | `Spec => []RevokedNotServed` |
| | `ProofOnce` | `Spec => []ProofSingleUse` |
| `Authorization_proof` | `AuthInvariant` | `Spec => []AuthInv` |
| | `ApprovalHolds` | `Spec => []CodesApproved` |
| | `FreshLoginHolds` | `Spec => []FreshLogin` |
| | `RequestMatched` | `Spec => []CodeMatchesRequest` |
| | `PushedOnce` | `Spec => []PushedOnceUnlessRaced` |
| | `ConsentKept` | `Spec => ConsentKeptUnlessOverlapped` |
| (of `AuthorizeRequests`) | `AnswersReachClients` | `Spec => []AnswersAddressed` |
| | `AnswersFit` | `Spec => []AnswerSound` |
| | `ObjectsCount` | `Spec => []ObjectsHonoured` |
| `Credentials_proof` | `CredentialInvariant` | `Spec => []CredentialInv` |
| | `SubjectHolds` | `Spec => []OfferedSubject` |
| | `MdocsVerify` | `Spec => []MdocVerifiable` |
| | `PresentedOnce` | `Spec => []PresentationOnce` |
| `ClientRegistry_proof` | `RegistryInvariant` | `Spec => []RegistryInv` |
| | `UsableHolds` | `Spec => []StoredUsable` |
| | `SecretHolds` | `Spec => []SecretInForce` |
| | `DeletionHolds` | `Spec => DeletedForGood` |
| (of `Federation`) | `ChainsVouched` | `Spec => []ChainVouched` |
| `Accounts_proof` | `SessionsReadable` | `Spec => []SessionsSurvive` |
| | `ResetsSound` | `Spec => []ResetsSoundUnlessRaced` |
| | `LogoutTells` | `Spec => []LogoutReaches` |

The assumptions are of three kinds. Blank values (`NoKid`, `NoUser`, `NoPki`...) are no
members of the sets they stand beside, and slots of different kinds are different.
Lifetimes, skews and bounds are naturals. The rest say something of the system:

* `TokenGrants`: a pre-authorized code has no client, key or resources.
* `KeyRotation`: a token lives for a while and no longer than the grace period
  (`GraceAssumption`); the defaults are one hour and seven days.
* `Ciba`: `requested_expiry` is a number once the request is merged (`DemandAssumption`).
* `Authorization`: there is a browser, demands are records of the right type
  and there is a second instant.
* `Credentials`: an mdoc lives at least as long as the unit its times are rounded to, and
  less than the certificate of its signer (a year, an hour, 456 days); no token of the
  start comes from an offer; proofs arrive as a list.
* `ClientRegistry`: there is an id to draw, bodies are metadata of the right type, and the
  keys behind a `jwks_uri` are RSA or EC keys, with or without `kid`, of any use.
* `AuthorizeRequests`: a request has all parameters, blank or not, and an object some of
  them (`CaseAssumption`); a client that its owner changes is still there
  (`ClientAssumption`), and no trust chain makes a FAPI 1 client, as `derive_client` does
  not (`EntityAssumption`).
* `Federation`: the hints, anchors and keys of a layout are entities and keys, and the
  provider's hints are its anchors; what is posted to register is a statement, whoever
  signed it and whatever it says.
* `Accounts`: the password policy is in the range that the code accepts, keys and cookies
  live for a while, and back-channel clients are clients.

### The inductive invariants

None of the properties is inductive: each speaks of rows, tokens and answers, which are
written from the copy that a call holds. The invariants add what such a copy still says of
the store. TLC checked each one on the instance of its run, `AuthInv` also with two
browsers, before it was proved.

`TokenGrants` has three. `LineageInv` adds to `TypeOK`, `GrantLineage` and
`BindingInherited` what connects a row to the token minted from it: `RequestInv`, that a
call redeeming a support has the client, a subset of the scopes and the resources, the key
and the certificate of that support; and `RowInv`, that only public clients' refresh tokens
carry a key (otherwise `_refresh_dpop_jkt` would blank it in a rotation). `StepKeepsRows`
says once what every action leaves alone (rows are added and consumed, never changed
otherwise). `UseInv` adds to `SingleUseUnlessRaced` where a call stands: past the
consumption its support is consumed (`RedeemInv`), one call at most redeems a support that
was not raced, and a support with a token is consumed, and whoever still redeems it is the
call that holds the token (`SourceInv`). `FapiInv` sets aside the renewals that consume
nothing. The steps fall into three kinds, with a lemma each: those that move no call on
(`QuietStep`), those that move one on (`ForwardStep`) and those that start one
(`StartStep`, where the race is recorded). `ReplayInv` adds to `ReplayRevokes` what the
revoking call has still to do: whatever was delivered before it began is named by the row
it read, and is on its list or in the denylist until it expires.

`DeviceGrant` and `Ciba` share a shape. `CallInv` holds of all sessions: a call past its
load knows an approval that really was given, and a token has one. `Unraced` holds of
those in which nobody acted on a copy that had changed: then the copy is the row, at most
one call issues, and it issues after the row is gone. That is also what the
refinement needs: the abstract `phase` and `out` follow from the store and the slots only
where copies are current; elsewhere the abstract step is a race. `Ciba` adds that a
decision announces once (`Announcing`) and that a request never changes its mode
(`SameMode`).

`KeyRotation`: `KeyInv` is `TypeOK` with four parts. `OneOrigin`: wherever a kid turns up
(store, copies, signatures, tokens) it has one birth and one algorithm, so that writing an
old copy back cannot rejuvenate a key. `KeptInv`: no process' clock runs ahead, and a key
that a signature or a token in force needs is still in the store. `ReadInv`: between the
two reads of a JWKS, a key due that the first has not seen is retired, so the second sees
it. `RotateInv`: the rows a rotation is about to retire are its algorithm's, and an
algorithm has a key that no process is about to retire unless one aged (`Spared`).

`ResourceAccess`: `DenylistInv` says that an entry lasts as long as its token, and that a
call that began after the revocation finds it or finds the token expired; `ReplayInv` that
an entry for a `jti` outlives its window, that a proof accepted or about to be is in the
store or too old, and that at most one call is past the look-up (`Passed`) for a proof that
is not excused.

`Authorization`: `AuthInv` says what pages, cookies and calls know. `PageSound` and
`CallSound`: the demand they carry stands for the one at their URL (`Carries`), and the
call's user accepted it, or no consent is asked for (`Accepted`); its login is fresh
(`LoginFresh`). `SessionSound`: a login that a URL started came after its first visit.
`PushInv`: what is stored under a `request_uri` is what was pushed. `ConsentInv`: a grant
of consent that is alone extends what it read. `OneFlow`: one flow at most holds a
`request_uri` that was not raced, and none once it is answered. Nearly every part
speaks of things that only grow (visits, approvals, pushed demands, time); `Grows` says
so once, and lemmas carry each part over any such step, so that the proof of an action
treats only the page, the cookie or the call that it changes.

`Credentials`: `CredentialInv` is a conjunction over disjoint parts of the state. `CodesInv`:
codes are numbered and never replaced. `OfferInv`: offers have the subject of their code,
tokens that of their offer. `GenuineInv`: certificates in the file, in a cache or about to
be stored were generated in the past with the validity of the code. `FileInv`: undisturbed,
either the file has everybody's certificates, or nobody has any and at most one process
is about to write the first. `NonceInv`: a pending nonce belongs to one process and was
never accepted. `SignedInv`: each mdoc is covered, which rests on rounding going down by
less than an hour (`Rounding`).

`ClientRegistry`: `RegistryInv` has two parts beside types. `CallSound`: the row that a call
has read or is about to write is sound (`RowSound`: hash and ciphertext are those that the
method needs, of one secret, sealed under a key that is still there; keys and certificate
are those that registration asked for), and if nothing disturbed the client, what the call
has read is what is stored and what it answers is what the row is about (`Current`, `Fits`).
`ClientSound`: a stored row is sound and about the secret of its owner, unless a call has
still to answer; an undisturbed client has one call at most, and none once deleted. That
the credentials of a call are sound is shown of the three forms they take (none, a new
secret, the old one kept or sealed again), whatever branch of `_updated_credentials` they
come from. Every other step is a `Focus` on one call and its client: `OthersKept` carries
the invariant over for all the rest, and only that call and that client remain.

`AuthorizeRequests`: `RequestInv` speaks of one visit at a time, so that a step is a visit
replaced by another (`VisitStep`) and only that one has to be shown `Sound`. `VisitType`:
what a visit has at each stage. `IssuingInv`: when tokens are made, the URI is one of a
client and the mode is the one of the request, not the forbidden one; the client may have
changed since it was validated, but the URI was its own once. `FapiInv`: where the client of
the query was FAPI 1 all along, the parameters under way are those it signed. `LoginInv` is
what `LoginNotInVain` needs: the steps before the login form have asked of the query that it
needs no object, is complete and need not be pushed, and can be redirected (`Unsigned`,
`Admissible`, `Redirectable`); the visit that returns asks the same of the same query, and
without `resource` and `authorization_details` the answer is the same
(`SameRedirectable`). `JtiInv`: an accepted `jti` is in the store until the object expires,
and a visit about to save one that was accepted meanwhile has raced. The refusals are
treated together: each has a mode that fits the request (`ModeFits`, shown of the four
functions that choose one) and a URI that a client has or had (`FoundUris`, `ChainUris`),
or is one of the two that come before the look-up (`RefusedUnseen`).

`Federation`: `FederationInv` says what is known of a chain half climbed (`Climbed`): it
begins with the configuration of the subject and ends at the superior that was reached,
every statement on it is about the subject and signed with a key of its issuer unless that
issuer changed its keys meanwhile (`Vouched`), the second was named by the first, and some
statement expires first (`Ends`), which is what makes a minimum of the expiries. The
statement that is being fetched comes from a superior whose configuration was read before.

`Accounts`: `AccountInv` has a part for each property. `KeyInv` and `Signed`: one active
key is the newest, a cookie was signed by a key young enough then, and that key is there
unless it is so old that the cookie has expired. `SidInv`: a sid belongs to one browser and
to no session that has ended, so that a logout in one browser cannot end another's.
`BroadcastInv`: who has not been told is still on the list. `UserInv`: the stored history
is the last passwords before the present one, cut to the depth, and the hash counts the
changes; `MailInv`: a token that has changed the password no longer fits the hash, so
that it cannot again; `ResetInv`: a reset that is alone has read the row as it is.

### Model-checked only

* `SessionsSettled`, `NoLoginLoop`, `VisitAnswered`, `ResolutionEnds`: liveness under
  fairness is out of this prover's reach.
* `PolicyWins`: which policy decides is what a fold over a chain of any length computes,
  and would need induction over data. So would what the operator modules
  (`RequestValidation`, `ClientMetadata`, `PasswordPolicy`, `BackchannelRequest`) compute
  beyond what the proofs use of them; it is checked over all the inputs of the instances.
* `RunsFound`, `TtlWithinBounds`, `AcceptedForTheClient`: evaluated by TLC on bounded inputs.

## 5. Not modelled, and plan

The plan is carried out: the components of section 1 whose state several calls share are
modelled, and every safety property but `PolicyWins` is proved.

Left out:

* discovery and settings: documents rendered from configuration, objects constructed at
  start-up;
* JWE, signatures, certificates' encodings: outcomes in the models;
* OpenID 2.0: message formatting without protocol state (what `/authorize` makes of an
  `openid2_realm` is in `RequestValidation`);
* the administration of API and identity resources: rows without interaction, a creation
  that checks and then saves, an update that saves what it read;
* the contents of id_tokens, userinfo, verified claims and credentials;
* the encryption keys: they are neither rotated nor purged;
* FastAPI Users behind the login pages: password hashing and database adapters;
* client assertions' `jti`: the code keeps none.
