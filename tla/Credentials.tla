----------------------------- MODULE Credentials -----------------------------
(***************************************************************************)
(* Verifiable credentials: offers and the tokens they lead to, c_nonces    *)
(* and proofs, the issue of SD-JWT credentials and of mdocs with the       *)
(* certificates that sign them (application/oid4vci.py, infrastructure/    *)
(* mdoc.py and mdoc_storage.py), and the presentations that the verifier   *)
(* asks for (application/oid4vp.py).                                       *)
(*                                                                         *)
(* Several processes serve the same issuer.  Offers and codes are stored   *)
(* for all of them, the certificates in a file; notification ids, nonces   *)
(* of presentations and the certificates in use are in the memory of each  *)
(* process, and gone when it restarts.  Access tokens of users are there   *)
(* from the start, clients get theirs with client_credentials or with an   *)
(* assertion (application/token.py).  The keys that sign c_nonces outlive  *)
(* these (KeyRotation).  A request that is refused changes nothing.        *)
(***************************************************************************)
EXTENDS Integers, Sequences, FiniteSets, SequencesExt

CONSTANTS
  Servers,
  Subjects,
  Tokens,            \* access tokens that exist at the start
  Clients,           \* client_id -> [active, confidential, scopes, mtls, require_dpop]
  KnownScopes,
  TokenRequests,     \* what a client can send to /token: see ClientToken
  Proofs,            \* what a wallet can send: see BindingKeys
  OfferTtl, NonceTtl, TokenTtl,
  Hour,              \* to which times are rounded
  MsoLifetime, SignerLifetime,
  NoPki, Torn,
  MaxTime, MaxTokens, MaxOffers, MaxNonces, MaxCredentials, MaxPresentations, MaxLoad   \* bounds

SdJwt == "sdjwt"
Mdoc == "mdoc"
OfferScope == "openid4vci"
Supported == {SdJwt, Mdoc}
Nobody == ""       \* no subject: an mdoc names none

\* A mdoc lives for a year, hours are what its times are rounded to.
ASSUME LifetimeAssumption ==
  /\ Hour \in Nat \ {0} /\ MsoLifetime \in Nat /\ MsoLifetime >= Hour
  /\ SignerLifetime \in Nat /\ SignerLifetime > MsoLifetime

\* No token of the start comes from an offer, and proofs are sent as a list.
ASSUME InputAssumption ==
  /\ \A t \in Tokens : t.offer = 0
  /\ \A p \in Proofs : p \in Seq(ToSet(p))
  /\ MaxPresentations \in Nat

\* Certificates: when they were generated, and the validity of the signer's.
Pki == [id : Nat, at : Nat, notBefore : Int, notAfter : Int]

ASSUME BlankAssumption == NoPki # Torn /\ NoPki \notin Pki /\ Torn \notin Pki

VARIABLES
  now,
  tokens,       \* access tokens
  codes,        \* pre-authorized codes, by the id of their offer
  offers,       \* stored offers
  creating,     \* offers whose code is saved and that are not
  nonces,       \* c_nonces handed out
  issued,       \* history: credentials
  known,        \* _notifications of each process
  path,         \* whether mdoc_pki_path is set
  file,         \* the file of certificates: NoPki, Torn or certificates
  cache,        \* _mdoc_pki of each process
  making,       \* certificates that a process is about to store
  made,         \* number of certificates generated
  disturbed,    \* history: a file torn or not written, generations that overlapped
  requested,    \* _nonces of each process
  asked,        \* number of presentations asked for
  accepted      \* history: how often each nonce was accepted

offering == <<tokens, codes, offers, creating>>
memory == <<known, requested>>
pkis == <<file, cache, making, made, disturbed>>
presenting == <<asked, accepted>>
vars == <<now, offering, nonces, issued, memory, path, pkis, presenting>>

Load == now + made + Cardinality({t \in tokens : t \notin Tokens /\ t.offer = 0}) + Cardinality(DOMAIN codes) + Cardinality(nonces) + Len(issued) + asked
Room == Load < MaxLoad

-----------------------------------------------------------------------------
(* Certificates of the mdocs *)

Init ==
  /\ now = 0
  /\ tokens = Tokens
  /\ codes = [o \in {} |-> 0] /\ offers = {} /\ creating = {}
  /\ nonces = {}
  /\ issued = <<>>
  /\ known = [s \in Servers |-> {}]
  /\ path \in BOOLEAN
  /\ file = NoPki
  /\ cache = [s \in Servers |-> NoPki] /\ making = [s \in Servers |-> NoPki]
  /\ made = 0
  /\ disturbed = FALSE
  /\ requested = [s \in Servers |-> {}]
  /\ asked = 0
  /\ accepted = [n \in 1 .. MaxPresentations |-> 0]

\* generate_mdoc_pki: the validity of the certificate of the document signer
\* starts more than an hour before, for times that are rounded down.
GeneratedPki(n) ==
  [id |-> n, at |-> now, notBefore |-> now - Hour - 1, notAfter |-> now + SignerLifetime]

\* Faulty variant: what is in the file is not used.
LoadedNever(f) == NoPki

\* FileMdocPKIRepository.load: a file that cannot be read counts as none.
Loaded(f) == IF f = Torn THEN NoPki ELSE f

\* _ensure_mdoc_pki, called for metadata, for the CRL and for an mdoc, up to
\* the file being opened for writing, which empties it.  Nothing else of the
\* process runs meanwhile, but other processes do.  An error of the file
\* system is logged and the certificates are used all the same.
EnsureMdocPki(s) ==
  /\ cache[s] = NoPki /\ making[s] = NoPki
  /\ \/ /\ path /\ Loaded(file) # NoPki
        /\ cache' = [cache EXCEPT ![s] = Loaded(file)]
        /\ UNCHANGED <<file, making, made, disturbed>>
     \/ /\ path /\ Loaded(file) = NoPki /\ Room
        /\ made' = made + 1
        /\ making' = [making EXCEPT ![s] = GeneratedPki(made + 1)]
        /\ disturbed' = (disturbed \/ \E x \in Servers : making[x] # NoPki)
        /\ UNCHANGED <<file, cache>>
     \/ /\ ~path /\ Room
        /\ made' = made + 1
        /\ cache' = [cache EXCEPT ![s] = GeneratedPki(made + 1)]
        /\ UNCHANGED <<file, making, disturbed>>
  /\ UNCHANGED <<now, offering, nonces, issued, memory, path, presenting>>

SaveOpen(s) ==
  /\ making[s] # NoPki /\ file # Torn
  /\ file' = Torn
  /\ UNCHANGED <<now, offering, nonces, issued, memory, path, cache, making, made, disturbed, presenting>>

SaveWrite(s) ==
  /\ making[s] # NoPki
  /\ \/ /\ file = Torn /\ file' = making[s] /\ UNCHANGED disturbed
     \/ /\ disturbed' = TRUE /\ UNCHANGED file
  /\ cache' = [cache EXCEPT ![s] = making[s]]
  /\ making' = [making EXCEPT ![s] = NoPki]
  /\ UNCHANGED <<now, offering, nonces, issued, memory, path, made, presenting>>

-----------------------------------------------------------------------------
(* Access tokens of clients *)

\* A request q to /token: jkt (the key of its proof), wanted (scopes), certificate
\* and authenticated.

\* _authenticate_client, apart from the credentials (ClientRegistry).
ClientAuthenticated(c, q) == (Clients[c].mtls => q.certificate) /\ q.authenticated

\* _effective_scope: the scopes of the client unless some of them are wanted.
EffectiveScope(c, wanted) == IF wanted = {} THEN Clients[c].scopes ELSE wanted
ScopeAllowed(c, wanted) ==
  wanted \subseteq Clients[c].scopes /\ EffectiveScope(c, wanted) \subseteq KnownScopes

\* _evaluate_dpop
DpopAccepted(c, q) == Clients[c].require_dpop => q.jkt # ""

\* The token that both grants end with, bound to the key of the proof.
ClientToken(c, subject, q) ==
  /\ Room /\ Cardinality({x \in tokens : x \notin Tokens /\ x.offer = 0}) < MaxTokens
  /\ ScopeAllowed(c, q.wanted) /\ DpopAccepted(c, q)
  /\ tokens' = tokens \cup
       {[sub |-> subject, client |-> c, scope |-> OfferScope \in EffectiveScope(c, q.wanted),
         details |-> {}, jkt |-> q.jkt, exp |-> now + TokenTtl, offer |-> 0]}
  /\ UNCHANGED <<now, codes, offers, creating, nonces, issued, memory, path, pkis, presenting>>

\* _client_credentials: the subject is the client.
ClientCredentials(c, q) ==
  /\ Clients[c].active /\ Clients[c].confidential /\ ClientAuthenticated(c, q)
  /\ ClientToken(c, c, q)

\* _jwt_bearer_subject: any subject that the client has signed for.
BearerSubject(c, assertion) == Clients[c].active /\ assertion.by = c /\ assertion.sub # ""

\* _jwt_bearer: the assertion is all the authentication.
JwtBearer(c, assertion, q) == BearerSubject(c, assertion) /\ ClientToken(c, assertion.sub, q)

-----------------------------------------------------------------------------
(* Offers *)

Valid(t) == t \in tokens /\ now < t.exp

\* _caller: a client that acts in its own name.
Machine(t) == t.client # "" /\ t.client = t.sub

\* Faulty variant: anyone makes an offer for anyone.
OfferSubjectAny(t, requested_) == requested_

\* _offer_subject: "" when it is refused.
OfferSubject(t, requested_) ==
  IF requested_ # "" THEN (IF Machine(t) \/ requested_ = t.sub THEN requested_ ELSE "")
  ELSE IF Machine(t) THEN "" ELSE t.sub

\* CredentialOfferUseCase.create up to its saves: the offer, or none when it is
\* refused.  The configurations it lists bear on nothing that comes after.
OfferMade(t, requested_) ==
  LET subject == OfferSubject(t, requested_)
  IN IF Valid(t) /\ t.scope /\ t.sub # "" /\ subject # ""
     THEN {[id |-> Cardinality(DOMAIN codes) + 1, sub |-> subject, by |-> t, exp |-> now + OfferTtl]}
     ELSE {}

\* POST /credential-offer: create saves the code, then the offer.
CreateOffer(t) ==
  /\ Room /\ Cardinality(DOMAIN codes) < MaxOffers
  /\ \E requested_ \in Subjects \cup {""} : \E o \in OfferMade(t, requested_) :
       /\ codes' = [x \in DOMAIN codes \cup {o.id} |->
            IF x = o.id THEN [sub |-> o.sub, exp |-> o.exp, consumed |-> FALSE] ELSE codes[x]]
       /\ creating' = creating \cup {o}
  /\ UNCHANGED <<now, tokens, offers, nonces, issued, memory, path, pkis, presenting>>

SaveOffer(o) ==
  /\ creating' = creating \ {o} /\ offers' = offers \cup {o}
  /\ UNCHANGED <<now, tokens, codes, nonces, issued, memory, path, pkis, presenting>>

\* CredentialOfferUseCase.resolve
Resolvable(o) == o \in offers /\ now <= o.exp /\ ~codes[o.id].consumed /\ now <= codes[o.id].exp

\* A wallet reads the offer and redeems the code of it.  The token is about
\* the subject of the code, with the scope of credentials and no details.
\* (How often a code is redeemed is the matter of TokenGrants.)
RedeemOffer(o) ==
  /\ Resolvable(o)
  /\ codes' = [codes EXCEPT ![o.id].consumed = TRUE]
  /\ tokens' = tokens \cup
       {[sub |-> codes[o.id].sub, client |-> "wallet", scope |-> TRUE, details |-> {},
         jkt |-> "", exp |-> now + TokenTtl, offer |-> o.id]}
  /\ UNCHANGED <<now, offers, creating, nonces, issued, memory, path, pkis, presenting>>

-----------------------------------------------------------------------------
(* Credentials *)

\* issue_nonce: a signed token; it is not kept, and may be used again.
CNonce(n) == [id |-> n, exp |-> now + NonceTtl]

\* POST /nonce
IssueNonce ==
  /\ Room /\ Cardinality(nonces) < MaxNonces
  /\ nonces' = nonces \cup {CNonce(Cardinality(nonces) + 1)}
  /\ UNCHANGED <<now, offering, issued, memory, path, pkis, presenting>>

\* _c_nonce_valid
CNonceValid(n) == n \in nonces /\ now < n.exp

\* _dpop_authorized
DpopAuthorized(t, scheme, proofOf) == t.jkt = "" \/ (scheme = "dpop" /\ proofOf = t.jkt)

\* _resolve_requested_configuration: a token with details names one of its
\* identifiers, one without needs the scope and names a configuration.
\* "": refused.
RequestedConfiguration(t, id, identifier) ==
  IF t.details # {}
  THEN IF id = "" /\ identifier \in t.details THEN identifier ELSE ""
  ELSE IF t.scope /\ identifier = "" /\ id \in Supported THEN id ELSE ""

\* _key_attestation_valid, where a proof carries one: it verifies, and names
\* the key unless it names none.
AttestationValid(p) ==
  p.attestation = "none" \/ p.attestation = "names none" \/ p.attestation = "names the key"

\* _decode_proof, _binding_keys: every proof verifies with the key in its own
\* header, is for this issuer and carries a valid c_nonce.
BindingKeys(proofs, n) ==
  IF proofs # <<>> /\ CNonceValid(n)
     /\ \A i \in DOMAIN proofs : proofs[i].verifies /\ proofs[i].aud /\ AttestationValid(proofs[i])
  THEN [i \in DOMAIN proofs |-> proofs[i].key] ELSE <<>>

RoundedNow(t) == (t \div Hour) * Hour

\* _device_cose_key: keys of one curve only.
DeviceKeys(keys) == \A i \in DOMAIN keys : keys[i].kty = "EC"

\* MdocIssuerPKI.issue: not before the certificate of the signer.
MdocCredential(pki, key) ==
  LET signed == IF RoundedNow(now) < pki.notBefore THEN pki.notBefore ELSE RoundedNow(now)
  IN [config |-> Mdoc, sub |-> Nobody, key |-> key, pki |-> pki, from |-> signed, until |-> signed + MsoLifetime]

SdJwtCredential(sub, key) ==
  [config |-> SdJwt, sub |-> sub, key |-> key, pki |-> NoPki,
   from |-> RoundedNow(now), until |-> RoundedNow(now) + Hour]

\* _issue: one credential for each key, or an error for all of them.
Issue(s, sub, keys, config) ==
  IF config = Mdoc
  THEN IF DeviceKeys(keys) THEN [i \in DOMAIN keys |-> MdocCredential(cache[s], keys[i])] ELSE <<>>
  ELSE [i \in DOMAIN keys |-> SdJwtCredential(sub, keys[i])]

\* issue_credential, what it asks of the token: the configurations that some
\* request with it can get.
Requestable(t) ==
  IF /\ Valid(t) /\ t.sub # ""
     /\ \E scheme \in {"bearer", "dpop"}, proofOf \in {"", "k"} : DpopAuthorized(t, scheme, proofOf)
  THEN {RequestedConfiguration(t, id, identifier) : id, identifier \in Supported \cup {""}} \ {""}
  ELSE {}

\* issue_credential: the credentials, or <<>> when the proofs are refused.
CredentialResult(s, t, config, proofs, n) ==
  LET keys == BindingKeys(proofs, n)
  IN IF keys # <<>> THEN Issue(s, t.sub, keys, config) ELSE <<>>

\* POST /credential.  The certificates are ensured first where an mdoc is asked for.
IssueCredential(s, t, proofs, n) ==
  /\ Room /\ Len(issued) < MaxCredentials
  /\ \E config \in Requestable(t) :
       LET credentials == CredentialResult(s, t, config, proofs, n)
       IN /\ config = Mdoc => cache[s] # NoPki
          /\ credentials # <<>>
          /\ issued' = Append(issued, [token |-> t, at |-> now, proofs |-> Len(proofs),
                                       credentials |-> credentials])
  /\ known' = [known EXCEPT ![s] = @ \cup {Len(issued) + 1}]
  /\ UNCHANGED <<now, offering, nonces, requested, path, pkis, presenting>>

\* notify takes the id out and puts it back.
AfterNotification(ids, id) == (ids \ {id}) \cup {id}

\* notify: an access token, anybody's, an id that this process gave, an event.
NotificationTaken(s, t, id, event) ==
  /\ Valid(t) /\ id \in known[s]
  /\ event \in {"credential_accepted", "credential_failure", "credential_deleted"}

\* POST /notification
Notify(s, id) ==
  /\ \E t \in tokens, event \in {"credential_accepted", "other"} : NotificationTaken(s, t, id, event)
  /\ known' = [known EXCEPT ![s] = AfterNotification(@, id)]
  /\ UNCHANGED <<now, offering, nonces, issued, requested, path, pkis, presenting>>

-----------------------------------------------------------------------------
(* Presentations *)

\* create_presentation_request: a new nonce, kept without limit of time.
AfterRequest(pending, n) == pending \cup {n}

\* POST /presentation_requests
RequestPresentation(s) ==
  /\ Room /\ asked < MaxPresentations
  /\ asked' = asked + 1
  /\ requested' = [requested EXCEPT ![s] = AfterRequest(@, asked + 1)]
  /\ UNCHANGED <<now, offering, nonces, issued, known, path, pkis, accepted>>

\* Faulty variant: only the nonce of the first token is used up.
DiscardFirst(pending, presented) == pending \ {presented[1]}

\* The nonces of all tokens are used up.
Discard(pending, presented) == pending \ ToSet(presented)

\* validate_presentation_response: one token at least, all of them verify (not
\* modelled) and carry a nonce that this process has asked for.
ResponseValid(pending, presented) == presented # <<>> /\ ToSet(presented) \subseteq pending

\* POST /vp_response, with the nonces of its tokens, in their order.
PresentationResponse(s, presented) ==
  /\ ResponseValid(requested[s], presented)
  /\ requested' = [requested EXCEPT ![s] = Discard(@, presented)]
  /\ accepted' = [n \in DOMAIN accepted |->
                    IF n \in ToSet(presented) THEN accepted[n] + 1 ELSE accepted[n]]
  /\ UNCHANGED <<now, offering, nonces, issued, known, path, pkis, asked>>

-----------------------------------------------------------------------------
(* A process stops and starts again; time passes *)

Restart(s) ==
  /\ known' = [known EXCEPT ![s] = {}]
  /\ requested' = [requested EXCEPT ![s] = {}]
  /\ cache' = [cache EXCEPT ![s] = NoPki] /\ making' = [making EXCEPT ![s] = NoPki]
  /\ disturbed' = (disturbed \/ making[s] # NoPki)
  /\ UNCHANGED <<now, offering, nonces, issued, path, file, made, presenting>>

\* The process stops between the two saves of an offer: a code that nobody has.
AbandonOffer(o) ==
  /\ creating' = creating \ {o}
  /\ UNCHANGED <<now, tokens, codes, offers, nonces, issued, memory, path, pkis, presenting>>

Tick ==
  /\ now < MaxTime /\ Room /\ now' = now + 1
  /\ UNCHANGED <<offering, nonces, issued, memory, path, pkis, presenting>>

Next ==
  \/ \E s \in Servers :
       \/ EnsureMdocPki(s) \/ SaveOpen(s) \/ SaveWrite(s)
       \/ \E t \in tokens, proofs \in Proofs, n \in nonces : IssueCredential(s, t, proofs, n)
       \/ \E id \in known[s] : Notify(s, id)
       \/ RequestPresentation(s)
       \/ \E presented \in UNION {[1 .. k -> 1 .. MaxPresentations] : k \in 1 .. 2} :
            PresentationResponse(s, presented)
       \/ Restart(s)
  \/ \E c \in DOMAIN Clients, q \in TokenRequests :
       \/ ClientCredentials(c, q)
       \/ \E sub \in Subjects \cup {c}, by \in DOMAIN Clients :
            JwtBearer(c, [sub |-> sub, by |-> by], q)
  \/ \E t \in tokens : CreateOffer(t)
  \/ \E o \in creating : SaveOffer(o) \/ AbandonOffer(o)
  \/ \E o \in offers : RedeemOffer(o)
  \/ IssueNonce
  \/ Tick

Spec == Init /\ [][Next]_vars

-----------------------------------------------------------------------------
(* Properties *)

\* What a request was answered with.
Answered(r) ==
  /\ Len(r.credentials) = r.proofs
  /\ \A j \in DOMAIN r.credentials :
       LET c == r.credentials[j]
       IN /\ c.until > r.at
          /\ r.token.offer # 0 =>
               \E o \in offers :
                 /\ o.id = r.token.offer /\ c.sub \in {o.sub, Nobody}
                 /\ Machine(o.by) \/ o.by.sub = o.sub

\* Every credential got through an offer is about the subject of that offer,
\* and whoever made the offer was that subject or a client acting in its own
\* name, also when the offer was made with a token that came from an offer;
\* a request gets a credential for each of its proofs, valid when it is
\* handed out (CredentialOfferUseCase, issue_credential).
OfferedSubject == \A i \in DOMAIN issued : Answered(issued[i])

\* The certificates of the mdoc c cover it, which was handed out at the time t.
Covered(c, t) ==
  /\ c.from >= c.pki.notBefore /\ c.from <= t
  /\ t <= c.pki.at + SignerLifetime - MsoLifetime => c.until <= c.pki.notAfter

\* With a file for the certificates, and unless a process stopped or failed
\* while storing them or two processes made them at the same time, each mdoc
\* verifies under the certificates of every process, restarted ones included
\* (_ensure_mdoc_pki).  An mdoc is signed within the validity of the signer
\* and no later than now, and one issued before the margin of the signer is
\* used up does not outlive it (MDOC_SIGNER_LIFETIME_DAYS).
MdocVerifiable ==
  \A i \in DOMAIN issued : \A j \in DOMAIN issued[i].credentials :
    LET c == issued[i].credentials[j]
    IN c.config = Mdoc =>
         /\ (path /\ ~disturbed) => \A s \in Servers : cache[s] \in {NoPki, c.pki}
         /\ Covered(c, issued[i].at)

\* No nonce of a presentation request is accepted twice, whatever other tokens
\* it comes with and whichever process it is sent to
\* (validate_presentation_response).
PresentationOnce == \A n \in DOMAIN accepted : accepted[n] <= 1

-----------------------------------------------------------------------------
(* The inductive strengthening of the properties *)

TypeInv ==
  /\ now \in Nat /\ made \in Nat /\ asked \in Nat
  /\ path \in BOOLEAN /\ disturbed \in BOOLEAN
  /\ file \in Pki \cup {NoPki, Torn}
  /\ cache \in [Servers -> Pki \cup {NoPki}]
  /\ making \in [Servers -> Pki \cup {NoPki}]
  /\ requested \in [Servers -> SUBSET Nat]
  /\ accepted \in [1 .. MaxPresentations -> Nat]
  /\ issued \in Seq(ToSet(issued))

\* Codes are numbered, and never replaced.
CodesInv ==
  /\ Cardinality(DOMAIN codes) \in Nat
  /\ DOMAIN codes = 1 .. Cardinality(DOMAIN codes)
  /\ codes = [x \in DOMAIN codes |-> codes[x]]
  /\ \A x \in DOMAIN codes :
       codes[x] = [sub |-> codes[x].sub, exp |-> codes[x].exp, consumed |-> codes[x].consumed]

\* An offer was made by who may make it.
Vouched(o) == Machine(o.by) \/ o.by.sub = o.sub

\* Offers have the subject of their code, and tokens that of their offer.
OfferInv ==
  /\ \A o \in offers \cup creating :
       o.id \in DOMAIN codes /\ codes[o.id].sub = o.sub /\ Vouched(o)
  /\ \A t \in tokens : t.offer # 0 => \E o \in offers : o.id = t.offer /\ o.sub = t.sub

\* What a process holds was generated, and not in the future.
Genuine(p) ==
  p.at <= now /\ p.notBefore = p.at - Hour - 1 /\ p.notAfter = p.at + SignerLifetime

GenuineInv ==
  /\ file \in Pki => Genuine(file)
  /\ \A s \in Servers :
       /\ cache[s] # NoPki => Genuine(cache[s])
       /\ making[s] # NoPki => Genuine(making[s])

\* The certificates of all mdocs are in A.
MdocsOf(A) ==
  \A i \in DOMAIN issued : \A j \in DOMAIN issued[i].credentials :
    issued[i].credentials[j].config = Mdoc => issued[i].credentials[j].pki \in A

\* Undisturbed, the file has the certificates of everybody, or one process at
\* most is about to write the first ones.
FileInv ==
  path /\ ~disturbed =>
    IF file \in Pki
    THEN (\A s \in Servers : making[s] = NoPki /\ cache[s] \in {NoPki, file}) /\ MdocsOf({file})
    ELSE /\ \A s \in Servers : cache[s] = NoPki
         /\ \A s, x \in Servers : making[s] # NoPki /\ making[x] # NoPki => s = x
         /\ MdocsOf({})

\* A pending nonce was asked for, by this process alone, and not accepted.
NonceInv ==
  /\ asked <= MaxPresentations
  /\ \A s \in Servers : \A n \in requested[s] : n \in 1 .. asked /\ accepted[n] = 0
  /\ \A s, x \in Servers : s # x => requested[s] \cap requested[x] = {}
  /\ \A n \in 1 .. MaxPresentations : accepted[n] <= 1 /\ (n > asked => accepted[n] = 0)

\* MdocVerifiable, but for what other processes hold.
SignedInv ==
  \A i \in DOMAIN issued : \A j \in DOMAIN issued[i].credentials :
    issued[i].credentials[j].config = Mdoc => Covered(issued[i].credentials[j], issued[i].at)

CredentialInv ==
  /\ TypeInv /\ CodesInv /\ OfferInv /\ OfferedSubject
  /\ GenuineInv /\ FileInv /\ SignedInv /\ NonceInv

=============================================================================
