--------------------------- MODULE ClientRegistry ---------------------------
(***************************************************************************)
(* Dynamic client registration and the credentials it manages: POST, PUT   *)
(* and DELETE /register (application/registration.py), the sealing of      *)
(* client secrets (infrastructure/secrets.py), the authentication of a     *)
(* client (application/client_auth.py, infrastructure/                     *)
(* client_assertions.py) and the secret that protects its id_token.        *)
(*                                                                         *)
(* A secret is kept as a hash, for client_secret_basic and _post, sealed   *)
(* under a key of the server, for client_secret_jwt and for HS* or         *)
(* symmetric id_tokens, or both.  Calls read the client, work, and write   *)
(* the whole row back; each access to a store is a step.  GET /register    *)
(* changes nothing and has no action, and neither have refusals.           *)
(***************************************************************************)
EXTENDS ClientMetadata, FiniteSetsExt

CONSTANTS
  Ids,         \* client_id values
  Secrets,     \* client secrets, drawn by the server or chosen by an owner
  NoSecret,
  Bodies,      \* the metadata that owners send
  NoBody,
  RemoteKeys,  \* the keys behind every jwks_uri
  Calls,       \* slots for calls in progress, 1 .. n
  InitialMode, \* initial_access_token_mode, or open: static without a requirement
  MaxKeys,     \* bound: sealing keys
  MaxCalls     \* bound: calls that begin

VARIABLES
  clients,     \* the client rows
  sealKeys,    \* the sealing keys of the store, numbered by age
  call,        \* the calls in progress
  known,       \* history: the secret each owner was last given
  begun,       \* history: how many calls have begun
  drawn,       \* history: secrets in use so far
  born,        \* history: the ids drawn so far
  gone,        \* history: deleted clients
  disturbed,   \* history: clients with two calls at once, or an answer lost
  unsealed     \* history: clients that PUT turned to client_secret_jwt with
               \* no secret in the body and none sealed

histories == <<known, begun, drawn, born, gone, disturbed, unsealed>>
vars == <<clients, sealKeys, call, known, begun, drawn, born, gone, disturbed, unsealed>>

ASSUME RegistryAssumption ==
  /\ Bodies \subseteq Metadata /\ Ids # {}
  /\ NoBody \notin Bodies /\ NoSecret \notin Secrets
  /\ RemoteKeys \subseteq {k \in Jwk : k.kty # "oct"}
  /\ InitialMode \in {"disabled", "jwt", "static", "open"}
  /\ MaxKeys \in Nat \ {0} /\ MaxCalls \in Nat

-----------------------------------------------------------------------------
(* Secrets *)

\* hash_secret
Hash(s) == [sha256 |-> s]
NoHash == [sha256 |-> NoSecret]

\* AsymmetricSecretCipher.encrypt, under key k.
Seal(s, k) == [kid |-> k, of |-> s]
NoCiphertext == [kid |-> 0, of |-> NoSecret]

\* _seal_keys: the newest one.
Newest == Max(sealKeys)

\* AsymmetricSecretCipher.decrypt finds the key of a ciphertext.
Readable(c) == c.kid \in sealKeys

\* AsymmetricSecretCipher.reencrypt after is_current.
Reseal(c) == IF c.kid = Newest THEN c ELSE Seal(c.of, Newest)

-----------------------------------------------------------------------------
(* Rows *)

Row ==
  [method: AuthMethods, hash: {Hash(s) : s \in Secrets \cup {NoSecret}},
   ciphertext: [kid: 0 .. MaxKeys, of: Secrets \cup {NoSecret}],
   jwks: SUBSET Jwks, jwks_uri: BOOLEAN, tls: {"none", "dn", "certificate"},
   signing: {"asymmetric", "symmetric"}, encryption: {"none", "rsa", "symmetric"},
   fapi2: BOOLEAN, token: Ids]

Absent == [method |-> "absent"]

\* Client(...): the row of metadata m with its credentials; t is the
\* registration access token, of which the hash is kept.
Client(m, credentials, t) ==
  [method |-> m.method, hash |-> credentials.hash, ciphertext |-> credentials.ciphertext,
   jwks |-> m.jwks, jwks_uri |-> m.jwks_uri, tls |-> m.tls, signing |-> m.signing,
   encryption |-> m.encryption, fapi2 |-> "fapi2" \in m.fapi, token |-> t]

Steps == {"idle", "seal", "save", "respond", "delete"}

Call ==
  [pc: Steps, id: Ids, old: Row \cup {Absent}, body: Bodies \cup {NoBody},
   requested: Secrets \cup {NoSecret}, new: Row \cup {Absent}, issued: Secrets \cup {NoSecret}]

Idle ==
  [pc |-> "idle", id |-> CHOOSE i \in Ids : TRUE, old |-> Absent, body |-> NoBody,
   requested |-> NoSecret, new |-> Absent, issued |-> NoSecret]

-----------------------------------------------------------------------------
(* Credentials *)

\* The id_token needs the secret itself.
NeedsSeal(m) == m.signing = "symmetric" \/ m.encryption = "symmetric"

Issue(hash, ciphertext, issued) ==
  [hash |-> hash, ciphertext |-> ciphertext, issued |-> issued]

\* _credentials_for, with secret s drawn for the purpose.
CredentialsFor(m, s) ==
  IF m.method = "client_secret_jwt" THEN Issue(NoHash, Seal(s, Newest), s)
  ELSE IF NeedsSeal(m) THEN Issue(Hash(s), Seal(s, Newest), s)
  ELSE IF m.method \in SecretMethods THEN Issue(Hash(s), NoCiphertext, s)
  ELSE Issue(NoHash, NoCiphertext, NoSecret)

\* The secret is sealed already, or the body has a new one.
Sealable(old, m, requested) ==
  m.method \in {"client_secret_basic", "client_secret_post"} =>
    \/ old.ciphertext # NoCiphertext
    \/ requested # NoSecret /\ Hash(requested) # old.hash

\* _validate_signing_rotation
SigningRotation(old, m, requested) ==
  m.signing = "symmetric" => Sealable(old, m, requested)

\* _validate_encryption_rotation
EncryptionRotation(old, m, requested) ==
  m.encryption = "symmetric" => Sealable(old, m, requested)

\* _seal_secret
SealSecret(needs_seal, s) == IF needs_seal THEN Seal(s, Newest) ELSE NoCiphertext

\* _recover_ciphertext
RecoverCiphertext(old, needs_seal) ==
  IF ~needs_seal \/ old.ciphertext = NoCiphertext THEN old.ciphertext
  ELSE Reseal(old.ciphertext)

\* _rotate_jwt_secret
RotateJwtSecret(old, requested) ==
  IF requested # NoSecret THEN Issue(NoHash, Seal(requested, Newest), requested)
  ELSE IF old.ciphertext = NoCiphertext THEN Issue(NoHash, NoCiphertext, NoSecret)
  ELSE Issue(NoHash, Reseal(old.ciphertext), NoSecret)

\* _updated_credentials makes a secret of its own.
Generates(old, m, requested) ==
  m.method \notin KeylessMethods \cup {"client_secret_jwt"} /\ requested = NoSecret /\ old.hash = NoHash

\* Faulty variant: a new secret leaves the sealed one as it was.
CredentialsStaleSeal(old, m, requested, s) ==
  IF m.method \in KeylessMethods THEN Issue(NoHash, NoCiphertext, NoSecret)
  ELSE IF m.method = "client_secret_jwt" THEN RotateJwtSecret(old, requested)
  ELSE IF requested # NoSecret
       THEN Issue(Hash(requested),
                  IF old.ciphertext # NoCiphertext THEN old.ciphertext
                  ELSE SealSecret(NeedsSeal(m), requested), requested)
  ELSE IF old.hash # NoHash
       THEN Issue(old.hash, RecoverCiphertext(old, NeedsSeal(m)), NoSecret)
  ELSE Issue(Hash(s), SealSecret(NeedsSeal(m), s), s)

\* _updated_credentials, with secret s drawn if one is generated.
UpdatedCredentials(old, m, requested, s) ==
  IF m.method \in KeylessMethods THEN Issue(NoHash, NoCiphertext, NoSecret)
  ELSE IF m.method = "client_secret_jwt" THEN RotateJwtSecret(old, requested)
  ELSE IF requested # NoSecret
       THEN IF Hash(requested) = old.hash /\ old.ciphertext # NoCiphertext
            THEN Issue(old.hash, RecoverCiphertext(old, NeedsSeal(m)), NoSecret)
            ELSE Issue(Hash(requested), SealSecret(NeedsSeal(m), requested), requested)
  ELSE IF old.hash # NoHash
       THEN Issue(old.hash, RecoverCiphertext(old, NeedsSeal(m)), NoSecret)
  ELSE Issue(Hash(s), SealSecret(NeedsSeal(m), s), s)

-----------------------------------------------------------------------------
(* Authentication of a client *)

\* What a caller presents: a secret, an assertion signed with a secret or with
\* a key, or a certificate.  An assertion is own if iss and sub name the client;
\* names_kid says that its header repeats the kid of its key, if that has one.
SecretCredentials ==
  [kind: {"secret"}, secret: Secrets]
  \cup [kind: {"hmac"}, secret: Secrets, own: BOOLEAN, aud: {"one", "list", "other"}]

Credentials ==
  SecretCredentials
  \cup [kind: {"signed"}, key: Jwks \cup RemoteKeys, names_kid: BOOLEAN,
        own: BOOLEAN, aud: {"one", "list", "other"}]
  \cup [kind: {"certificate"}, shows: {"dn", "certificate", "other"}, self_signed: BOOLEAN]

\* PyJWKSet skips a key whose alg is not one for signatures.
Parsed(keys) == {k \in keys : k.alg = "jws"}

\* PyJWKClient.get_signing_keys: neither use enc nor a key without kid.
RemoteSigningKeys == {k \in Parsed(RemoteKeys) : k.use # "enc" /\ k.kid # NoKid}

\* _embedded_signing_key, _remote_signing_key: the first key with the kid of the
\* header (a set of keys has no order: any one of them), or the only key there is.
SelectKey(keys, a) ==
  LET named == {k \in keys : k.kid = a.key.kid}
  IN IF a.names_kid /\ a.key.kid # NoKid
     THEN IF named = {} THEN {} ELSE {CHOOSE k \in named : TRUE}
     ELSE {k \in keys : keys = {k}}

\* resolve_signing_key: the embedded keys before the remote ones.
SigningKeys(c) ==
  IF c.jwks # {} THEN Parsed(UsableForSigning(c.jwks))
  ELSE IF c.jwks_uri THEN RemoteSigningKeys ELSE {}

ResolveSigningKey(c, a) == SelectKey(SigningKeys(c), a)

\* _decode: aud names the server, iss and sub the client.
Decode(a) == a.own /\ a.aud # "other"

\* verify_hmac_assertion, with the secret of _hmac_secret.
VerifyHmacAssertion(c, a) ==
  /\ c.ciphertext # NoCiphertext /\ Readable(c.ciphertext)
  /\ c.ciphertext.of = a.secret
  /\ Decode(a)

VerifyJwksAssertion(c, a) == Decode(a) /\ a.key \in ResolveSigningKey(c, a)

\* verify: by the algorithm of the assertion's header, whatever the method of
\* the client.
VerifyAssertion(c, a) ==
  \/ a.kind = "hmac" /\ VerifyHmacAssertion(c, a)
  \/ a.kind = "signed" /\ VerifyJwksAssertion(c, a)

\* _authenticate_assertion: with FAPI 2 aud is a string.
AuthenticateAssertion(c, a) ==
  /\ a.kind \in {"hmac", "signed"}
  /\ VerifyAssertion(c, a)
  /\ c.fapi2 => a.aud = "one"

\* verify_tls_client_certificate
VerifyTlsClientCertificate(c, a) ==
  /\ a.kind = "certificate"
  /\ c.method = "self_signed_tls_client_auth" => a.self_signed
  /\ c.tls # "none" /\ a.shows = c.tls

\* authenticate_client, verify_client_secret
AuthenticateClient(c, a) ==
  CASE c.method \in {"client_secret_basic", "client_secret_post"} ->
         a.kind = "secret" /\ Hash(a.secret) = c.hash
    [] c.method \in {"client_secret_jwt", "private_key_jwt"} -> AuthenticateAssertion(c, a)
    [] c.method \in TlsMethods -> VerifyTlsClientCertificate(c, a)
    [] c.method = "none" -> TRUE

\* resolve_id_token_material: the secret under which the id_token of a client
\* with HS* is signed.
SigningSecret(c) ==
  IF c.ciphertext # NoCiphertext /\ Readable(c.ciphertext) THEN c.ciphertext.of ELSE NoSecret

\* resolve_id_token_encryption: the secret under which it is encrypted.
EncryptionSecret(c) ==
  IF c.ciphertext # NoCiphertext /\ Readable(c.ciphertext) THEN c.ciphertext.of ELSE NoSecret

-----------------------------------------------------------------------------
(* Operations *)

\* _authorise_initial, on a token that is missing, good or wrong.
AuthoriseInitial(token) ==
  InitialMode \in {"disabled", "open"} \/ token = "good"

\* Another call works on client id.
Busy(id, k) == \E j \in Calls \ {k} : call[j].pc # "idle" /\ call[j].id = id

\* The slot that the next call takes.
Begin(k) ==
  /\ begun < MaxCalls /\ begun' = begun + 1
  /\ call[k].pc = "idle" /\ \A j \in Calls : call[j].pc = "idle" => k <= j

\* token_urlsafe(48): a new secret s, where one is needed.
Draw(needed, s) == IF needed THEN s \in Secrets \ drawn ELSE s = NoSecret

\* Faulty variant: any id without a client.
FreeId(id) == clients[id] = Absent /\ ~Busy(id, 0)

\* token_urlsafe(24): an id never drawn before.
NewId(id) == id \notin born

\* POST /register up to the save: id is new, s is drawn.
Register(k, id, m, token, s) ==
  /\ NewId(id)
  /\ Begin(k)
  /\ AuthoriseInitial(token)
  /\ Acceptable(m)
  /\ Draw(m.method \in SecretMethods, s)
  /\ LET credentials == CredentialsFor(m, s)
     IN /\ call' = [call EXCEPT ![k] =
             [Idle EXCEPT !.pc = "save", !.id = id, !.new = Client(m, credentials, id),
                          !.issued = credentials.issued]]
        /\ drawn' = drawn \cup ({credentials.issued} \ {NoSecret})
  /\ born' = born \cup {id}
  /\ UNCHANGED <<clients, sealKeys, known, gone, disturbed, unsealed>>

\* _resolve_managed: the client, for whoever has its registration token.
ResolveManaged(id, token) == clients[id] # Absent /\ token = clients[id].token

NoteOverlap(id, k) ==
  disturbed' = IF Busy(id, k) THEN disturbed \cup {id} ELSE disturbed

\* PUT /register/{id}: the client is read and the body validated against it.
Update(k, id, token, m, requested) ==
  /\ Begin(k)
  /\ ResolveManaged(id, token)
  /\ Acceptable(m)
  /\ SigningRotation(clients[id], m, requested)
  /\ EncryptionRotation(clients[id], m, requested)
  /\ call' = [call EXCEPT ![k] =
       [pc |-> "seal", id |-> id, old |-> clients[id], body |-> m, requested |-> requested,
        new |-> Absent, issued |-> NoSecret]]
  /\ drawn' = drawn \cup ({requested} \ {NoSecret})
  /\ NoteOverlap(id, k)
  /\ UNCHANGED <<clients, sealKeys, known, born, gone, unsealed>>

\* PUT: the credentials and the new row, with the sealing keys of this moment.
\* A ciphertext that cannot be read fails the call.
UpdateSeal(k, s) ==
  /\ call[k].pc = "seal"
  /\ Draw(Generates(call[k].old, call[k].body, call[k].requested), s)
  /\ call[k].old.ciphertext = NoCiphertext \/ Readable(call[k].old.ciphertext)
  /\ LET c == call[k]
         credentials == UpdatedCredentials(c.old, c.body, c.requested, s)
     IN /\ call' = [call EXCEPT ![k] =
             [Idle EXCEPT !.pc = "save", !.id = c.id, !.issued = credentials.issued,
                          !.new = Client(c.body, credentials, c.old.token)]]
        /\ drawn' = drawn \cup ({credentials.issued} \ {NoSecret})
  /\ UNCHANGED <<clients, sealKeys, known, born, gone, disturbed, unsealed, begun>>

\* ClientRepository.save inserts or replaces the row.
Save(k) ==
  /\ call[k].pc = "save"
  /\ LET c == call[k]
     IN /\ clients' = [clients EXCEPT ![c.id] = c.new]
        /\ unsealed' = IF c.new.method = "client_secret_jwt" /\ c.new.ciphertext = NoCiphertext
                       THEN unsealed \cup {c.id} ELSE unsealed
  /\ call' = [call EXCEPT ![k].pc = "respond"]
  /\ UNCHANGED <<sealKeys, known, drawn, born, gone, disturbed, begun>>

\* _registration_json: the secret is a member of the answer if one was issued.
Told(c, before) ==
  IF c.issued # NoSecret THEN c.issued
  ELSE IF c.new.method \in KeylessMethods THEN NoSecret ELSE before

\* _response
Respond(k) ==
  /\ call[k].pc = "respond"
  /\ known' = [known EXCEPT ![call[k].id] = Told(call[k], @)]
  /\ call' = [call EXCEPT ![k] = Idle]
  /\ UNCHANGED <<clients, sealKeys, drawn, born, gone, disturbed, unsealed, begun>>

\* DELETE /register/{id}: the client is read, then deleted.
Delete(k, id, token) ==
  /\ Begin(k)
  /\ ResolveManaged(id, token)
  /\ call' = [call EXCEPT ![k] = [Idle EXCEPT !.pc = "delete", !.id = id]]
  /\ NoteOverlap(id, k)
  /\ UNCHANGED <<clients, sealKeys, known, drawn, born, gone, unsealed>>

\* ClientRepository.delete, of a row that may be gone already.
DeleteRow(k) ==
  /\ call[k].pc = "delete"
  /\ clients' = [clients EXCEPT ![call[k].id] = Absent]
  /\ gone' = gone \cup {call[k].id}
  /\ call' = [call EXCEPT ![k] = Idle]
  /\ UNCHANGED <<sealKeys, known, drawn, born, disturbed, unsealed, begun>>

\* The server stops before the save, or after it: then the answer is lost.
Abort(k) ==
  /\ call[k].pc \in {"save", "respond"}
  /\ disturbed' = IF call[k].pc = "respond" THEN disturbed \cup {call[k].id} ELSE disturbed
  /\ call' = [call EXCEPT ![k] = Idle]
  /\ UNCHANGED <<clients, sealKeys, known, drawn, born, gone, unsealed, begun>>

\* Faulty variant: the new key replaces the old ones.
RotateReplacing ==
  /\ Newest < MaxKeys
  /\ sealKeys' = {Newest + 1}
  /\ UNCHANGED <<clients, call, histories>>

\* rotate_if_stale, as an instance starts: a key is added and none removed.
RotateSealKey ==
  /\ Newest < MaxKeys
  /\ sealKeys' = sealKeys \cup {Newest + 1}
  /\ UNCHANGED <<clients, call, histories>>

-----------------------------------------------------------------------------

Init ==
  /\ clients = [id \in Ids |-> Absent]
  /\ sealKeys = {1}
  /\ call = [k \in Calls |-> Idle]
  /\ known = [id \in Ids |-> NoSecret]
  /\ begun = 0
  /\ drawn = {} /\ born = {} /\ gone = {} /\ disturbed = {} /\ unsealed = {}

Next ==
  \/ \E k \in Calls, id \in Ids, m \in Bodies, token \in {"", "good", "wrong"},
        s \in Secrets \cup {NoSecret} :
       Register(k, id, m, token, s)
  \/ \E k \in Calls, id, token \in Ids, m \in Bodies, requested \in Secrets \cup {NoSecret} :
       Update(k, id, token, m, requested)
  \/ \E k \in Calls, id, token \in Ids : Delete(k, id, token)
  \/ \E k \in Calls, s \in Secrets \cup {NoSecret} : UpdateSeal(k, s)
  \/ \E k \in Calls : Save(k) \/ Respond(k) \/ DeleteRow(k) \/ Abort(k)
  \/ RotateSealKey

Spec == Init /\ [][Next]_vars

-----------------------------------------------------------------------------
(* Properties *)

\* Types of the state.
TypeOK ==
  /\ clients \in [Ids -> Row \cup {Absent}]
  /\ sealKeys \subseteq 1 .. MaxKeys /\ sealKeys # {}
  /\ call \in [Calls -> Call]
  /\ known \in [Ids -> Secrets \cup {NoSecret}]
  /\ begun \in 0 .. MaxCalls
  /\ drawn \subseteq Secrets
  /\ gone \subseteq born /\ unsealed \subseteq born /\ disturbed \subseteq born /\ born \subseteq Ids

Stored == {id \in Ids : clients[id] # Absent}

\* The ways a client c could use secret s and succeed: to authenticate, or to
\* read an id_token made under it.
Uses(c, s) ==
  \/ \E a \in SecretCredentials : a.secret = s /\ AuthenticateClient(c, a)
  \/ c.signing = "symmetric" /\ SigningSecret(c) = s
  \/ c.encryption = "symmetric" /\ EncryptionSecret(c) = s

\* Keys that registration accepts for private_key_jwt and that no assertion can be
\* matched with: jwks beside a jwks_uri, which hides it and is not looked into when
\* registered; a jwks_uri without a signing key that has a kid; signing keys that
\* are all of RSA-OAEP*; and several that have no kid.
Unmatched(c) ==
  LET signing == UsableForSigning(c.jwks)
      verifying == {k \in signing : k.alg # "oaep"}
  IN /\ c.method = "private_key_jwt"
     /\ \/ c.jwks_uri /\ c.jwks # {}
        \/ c.jwks_uri /\ \A k \in RemoteKeys : k.use = "enc" \/ k.alg = "oaep" \/ k.kid = NoKid
        \/ signing # {} /\ verifying = {}
        \/ /\ \E j, k \in verifying : j # k
           /\ \A k \in verifying : k.kid = NoKid

\* Every stored client can be served, through any sequence of updates and of
\* rotations of the sealing key: some credential authenticates it, and the key
\* material its id_token needs is there (registration.py, _validate_new_metadata
\* and _updated_credentials).  The exceptions are the clients in unsealed and
\* those of Unmatched.
StoredUsable ==
  \A id \in Stored \ unsealed :
    LET c == clients[id]
    IN /\ Unmatched(c) \/ \E a \in Credentials : AuthenticateClient(c, a)
       /\ c.signing = "symmetric" => SigningSecret(c) # NoSecret
       /\ c.encryption = "symmetric" => EncryptionSecret(c) # NoSecret
       /\ c.encryption = "rsa" => RequireEncryptionRsaKey(c.jwks)
       /\ c.fapi2 => c.method \notin {"none", "client_secret_basic", "client_secret_post"}

\* Hash and ciphertext never disagree: no two secrets work for a client at the
\* same time, so a secret that was replaced is dead (_updated_credentials).
OneSecret ==
  \A id \in Stored : \A s, t \in Secrets :
    clients[id].method # "none" /\ Uses(clients[id], s) /\ Uses(clients[id], t) => s = t

\* The secret that an owner was last given works until it is told another one
\* or turns to a method without secret, unless two calls for the client
\* overlapped, an answer was lost, or the client is in unsealed (update: the
\* current secret is kept and never issued again).
SecretWorks ==
  \A id \in Stored \ (disturbed \cup unsealed) :
    (\A k \in Calls : call[k].pc = "idle" \/ call[k].id # id) =>
      \/ known[id] = NoSecret
      \/ Uses(clients[id], known[id])

\* One secret works for a client, and it is the one its owner has
\* (_updated_credentials, _registration_json).
SecretInForce == OneSecret /\ SecretWorks

\* A deleted client never comes back, unless another call had read it before:
\* its save inserts the row again (update, delete).
DeletedForGood ==
  [][\A id \in gone \ disturbed : clients[id] = Absent => clients'[id] = Absent]_vars

-----------------------------------------------------------------------------
(* The inductive strengthening of the properties *)

\* The sealing keys are numbered from 1.
SealInv == Newest \in 1 .. MaxKeys /\ sealKeys = 1 .. Newest

\* A client without the secret that its method needs.
Unsealed(c) == c.method = "client_secret_jwt" /\ c.ciphertext = NoCiphertext

\* What registration has asked of the keys and the certificate of a row.
MaterialSound(c) ==
  /\ c.method = "private_key_jwt" =>
       /\ c.jwks # {} \/ c.jwks_uri
       /\ c.jwks # {} /\ ~c.jwks_uri => RequireSigningKey(c.jwks)
  /\ c.method \in TlsMethods => c.tls # "none"
  /\ c.encryption = "rsa" => RequireEncryptionRsaKey(c.jwks)
  /\ c.fapi2 => c.method \notin {"none", "client_secret_basic", "client_secret_post"}

\* Hash and ciphertext are those that the method needs, and of one secret.
SecretSound(c) ==
  /\ c.ciphertext # NoCiphertext => Readable(c.ciphertext) /\ c.ciphertext.of \in Secrets
  /\ c.method \in KeylessMethods =>
       c.hash = NoHash /\ c.ciphertext = NoCiphertext /\ ~NeedsSeal(c)
  /\ c.method = "client_secret_jwt" => c.hash = NoHash
  /\ c.method \in {"client_secret_basic", "client_secret_post"} =>
       c.hash # NoHash /\ (NeedsSeal(c) => c.ciphertext # NoCiphertext)
  /\ c.hash # NoHash /\ c.ciphertext # NoCiphertext => c.hash = Hash(c.ciphertext.of)

RowSound(c) == c \in Row /\ MaterialSound(c) /\ SecretSound(c)

\* The row c is about secret s, if an owner has one.
Fits(c, s) ==
  \/ s = NoSecret
  \/ /\ c.method \notin KeylessMethods /\ c.hash \in {NoHash, Hash(s)}
     /\ c.ciphertext = NoCiphertext \/ c.ciphertext.of = s

\* What a call that nothing disturbs knows of its client.
Current(c) ==
  /\ c.pc = "seal" => clients[c.id] = c.old
  /\ c.pc = "save" => Fits(c.new, Told(c, known[c.id]))
  /\ c.pc = "respond" => clients[c.id] = c.new /\ Fits(c.new, Told(c, known[c.id]))

CallSound(c) ==
  c.pc # "idle" =>
    /\ c.id \in born
    /\ c.pc = "seal" =>
         /\ RowSound(c.old) /\ c.body \in Bodies /\ Acceptable(c.body)
         /\ SigningRotation(c.old, c.body, c.requested)
         /\ EncryptionRotation(c.old, c.body, c.requested)
    /\ c.pc \in {"save", "respond"} => RowSound(c.new)
    /\ c.id \notin disturbed \cup unsealed => Current(c)

\* The call k works on client id.
WorksOn(k, id) == call[k].pc # "idle" /\ call[k].id = id

ClientSound(id) ==
  /\ clients[id] # Absent =>
       id \in born /\ RowSound(clients[id]) /\ (Unsealed(clients[id]) => id \in unsealed)
  /\ id \notin born => known[id] = NoSecret
  /\ id \notin disturbed => \A j, k \in Calls : WorksOn(j, id) /\ WorksOn(k, id) => j = k
  /\ id \in gone \ disturbed => clients[id] = Absent /\ \A k \in Calls : ~WorksOn(k, id)
  /\ clients[id] # Absent /\ id \notin disturbed \cup unsealed =>
       \/ Fits(clients[id], known[id])
       \/ \E k \in Calls : WorksOn(k, id) /\ call[k].pc = "respond"

RegistryInv ==
  /\ TypeOK /\ SealInv
  /\ \A k \in Calls : CallSound(call[k])
  /\ \A id \in Ids : ClientSound(id)

=============================================================================
