------------------------------ MODULE TokenGrants ------------------------------
(***************************************************************************)
(* The token endpoint's two replayable supports: authorization codes       *)
(* (plain and pre-authorized) and refresh tokens, as                       *)
(* application/token.py redeems them against the code store, the refresh   *)
(* token store and the denylist.                                           *)
(*                                                                         *)
(* A handler is a coroutine, and every await on a store lets another       *)
(* request, or another instance of the server on the same database, run.   *)
(* So a request is a slot with a program counter: one step looks the       *)
(* support up and makes every check that reads nothing shared, and each    *)
(* later store call is a step of its own, working on the copy the lookup   *)
(* returned.  A request whose checks fail changes nothing and is not       *)
(* modelled; a request may stop after any step (Abort).                    *)
(***************************************************************************)
EXTENDS Integers, FiniteSets

CONSTANTS
  Clients,          \* registered, active clients
  NoClient,         \* the empty client_id of a pre-authorized code
  PublicClients,    \* client_type = public
  Fapi2Clients,     \* fapi2_enabled: refresh tokens are not rotated
  DpopClients,      \* require_dpop
  MtlsClients,      \* tokens bound to the TLS certificate of the call
  Scopes, OfflineAccess,
  Resources,        \* registered resource indicators (RFC 8707)
  Keys, NoKey,      \* thumbprints of DPoP keys; the empty dpop_jkt
  Certs, NoCert,    \* certificate hashes; the empty tls_cert_hash
  Grants,           \* what users approve or issuers offer, see GrantType
  Codes, RefreshIds, AccessIds, NoToken,
  Requests,         \* slots for calls in progress
  CodeTtl, AccessTtl, RefreshTtl,
  MaxTime           \* bound on the clock

GrantType ==
  [client : Clients \cup {NoClient}, scopes : SUBSET Scopes, resources : SUBSET Resources,
   jkt : Keys \cup {NoKey}, pre : BOOLEAN]

ASSUME ClientAssumption ==
  /\ NoClient \notin Clients
  /\ PublicClients \subseteq Clients /\ Fapi2Clients \subseteq Clients
  /\ DpopClients \subseteq Clients /\ MtlsClients \subseteq Clients

ASSUME BlankAssumption == NoKey \notin Keys /\ NoCert \notin Certs

\* An authorization code names its client; a pre-authorized code names none and
\* carries neither a key nor resources.
ASSUME GrantAssumption ==
  /\ Grants \subseteq GrantType
  /\ \A g \in Grants : IF g.pre THEN g.client = NoClient /\ g.jkt = NoKey /\ g.resources = {}
                                ELSE g.client \in Clients

ASSUME IdAssumption ==
  /\ NoToken \notin Codes \cup RefreshIds \cup AccessIds
  /\ Codes \cap RefreshIds = {} /\ RefreshIds \cap AccessIds = {}

ASSUME TimeAssumption ==
  CodeTtl \in Nat /\ AccessTtl \in Nat /\ RefreshTtl \in Nat /\ MaxTime \in Nat

VARIABLES
  now,              \* the clock
  codes,            \* code store: code -> row
  refresh_tokens,   \* refresh token store: id -> row
  revoked,          \* denylist: access token -> expiry of the entry
  access_tokens,    \* the JWTs signed so far: id -> claims
  delivered,        \* tokens that reached a client in an answer
  req,              \* the calls in progress
  raced,            \* history: supports two calls held unconsumed at once
  killed            \* history: tokens clients held before a completed replay

vars == <<now, codes, refresh_tokens, revoked, access_tokens, delivered, req, raced, killed>>

--------------------------------------------------------------------------------
(* Rows.  root and parent are history: the code a token descends from and   *)
(* the refresh token it was renewed with (NoToken: from the code itself).   *)

CodeRow ==
  [client : Clients \cup {NoClient}, scopes : SUBSET Scopes, resources : SUBSET Resources,
   jkt : Keys \cup {NoKey}, pre : BOOLEAN, expires : Nat, consumed : BOOLEAN,
   at : AccessIds \cup {NoToken}, at_exp : Nat, rt : RefreshIds \cup {NoToken}]

RefreshRow ==
  [client : Clients, scopes : SUBSET Scopes, resources : SUBSET Resources,
   jkt : Keys \cup {NoKey}, cert : Certs \cup {NoCert}, expires : Nat, consumed : BOOLEAN,
   root : Codes, parent : RefreshIds \cup {NoToken}]

AccessRow ==
  [client : Clients, scopes : SUBSET Scopes, resources : SUBSET Resources,
   jkt : Keys \cup {NoKey}, cert : Certs \cup {NoCert}, exp : Nat,
   root : Codes, parent : RefreshIds \cup {NoToken}]

\* Where a call stands: the store call or the answer it makes next.
Steps ==
  {"idle", "consume", "mint_refresh", "mint_access", "record", "respond",
   "revoke_access", "revoke_refresh"}

Request ==
  [pc : Steps, code : Codes \cup {NoToken}, refresh : RefreshIds \cup {NoToken},
   client : Clients \cup {NoClient}, scopes : SUBSET Scopes, resources : SUBSET Resources,
   jkt : Keys \cup {NoKey}, rt_jkt : Keys \cup {NoKey}, cert : Certs \cup {NoCert},
   start : Nat, at : AccessIds \cup {NoToken}, at_exp : Nat, rt : RefreshIds \cup {NoToken},
   due : SUBSET (AccessIds \cup RefreshIds)]

Idle ==
  [pc |-> "idle", code |-> NoToken, refresh |-> NoToken, client |-> NoClient, scopes |-> {},
   resources |-> {}, jkt |-> NoKey, rt_jkt |-> NoKey, cert |-> NoCert, start |-> 0,
   at |-> NoToken, at_exp |-> 0, rt |-> NoToken, due |-> {}]

Put(f, k, v) == [x \in DOMAIN f \cup {k} |-> IF x = k THEN v ELSE f[x]]

Init ==
  /\ now = 0
  /\ codes = [c \in {} |-> {}]
  /\ refresh_tokens = [t \in {} |-> {}]
  /\ revoked = [a \in {} |-> 0]
  /\ access_tokens = [a \in {} |-> {}]
  /\ delivered = {}
  /\ req = [r \in Requests |-> Idle]
  /\ raced = {}
  /\ killed = {}

--------------------------------------------------------------------------------
(* The checks a lookup is followed by.                                      *)

\* Faulty variant: consumed is not tested.
InDate(row) == row.expires >= now

\* A support that may be redeemed.
Redeemable(row) == ~row.consumed /\ row.expires >= now

\* Faulty variant: the scope asked for is not compared with the granted one.
AnyScope(granted) == SUBSET Scopes

\* RFC 6749 section 6: a renewal may narrow the scope, never widen it.
NarrowedScope(granted) == SUBSET granted

\* RFC 8707: no resource asked means the support's own; a bound support admits
\* its subsets, an unbound one any registered resource.
EffectiveResources(bound) ==
  IF bound = {} THEN SUBSET Resources ELSE (SUBSET bound) \ {{}}

\* Faulty variant: only the client's own setting asks for a proof.
DpopBoundIgnored(client, bound, proof) ==
  IF proof = NoKey THEN client \notin DpopClients ELSE bound \in {NoKey, proof}

\* RFC 9449: a proof is owed by a require_dpop client and by a bound support,
\* and it must be made with the bound key.  proof = NoKey: no DPoP header.
DpopAccepts(client, bound, proof) ==
  IF proof = NoKey THEN client \notin DpopClients /\ bound = NoKey
                   ELSE bound \in {NoKey, proof}

\* The key the refresh token to be issued is bound to.
RefreshKey(client, bound, proof) ==
  IF client \notin PublicClients THEN NoKey
  ELSE IF bound # NoKey THEN bound ELSE proof

\* The certificate hash a call of this client can carry.
PresentedCerts(client) == IF client \in MtlsClients THEN Certs \cup {NoCert} ELSE {NoCert}

\* The support a call redeems, and whether it still has to consume it.
Support(q) == IF q.refresh # NoToken THEN q.refresh ELSE q.code
Holds(q, x) == q.pc = "consume" /\ Support(q) = x

Race(x) == raced' = IF \E q \in Requests : Holds(req[q], x) THEN raced \cup {x} ELSE raced

--------------------------------------------------------------------------------
(* Issuing a code: /authorize, or a credential offer.                       *)

Issue(c, g) ==
  /\ c \notin DOMAIN codes
  /\ codes' = Put(codes, c,
       [client |-> g.client, scopes |-> g.scopes, resources |-> g.resources, jkt |-> g.jkt,
        pre |-> g.pre, expires |-> now + CodeTtl, consumed |-> FALSE,
        at |-> NoToken, at_exp |-> 0, rt |-> NoToken])
  /\ UNCHANGED <<now, refresh_tokens, revoked, access_tokens, delivered, req, raced, killed>>

--------------------------------------------------------------------------------
(* Redeeming a code.                                                        *)

\* The code is found, unconsumed and in date, and the caller passes the checks.
Begin(r, c, client, res, proof, cert) ==
  /\ req[r].pc = "idle"
  /\ Redeemable(codes[c])
  /\ DpopAccepts(client, codes[c].jkt, proof)
  /\ res \in EffectiveResources(codes[c].resources)
  /\ cert \in PresentedCerts(client)
  /\ req' = [req EXCEPT ![r] = [Idle EXCEPT
       !.pc = "consume", !.code = c, !.client = client, !.scopes = codes[c].scopes,
       !.resources = res, !.jkt = proof, !.rt_jkt = RefreshKey(client, NoKey, proof),
       !.cert = cert, !.start = now]]
  /\ Race(c)
  /\ UNCHANGED <<now, codes, refresh_tokens, revoked, access_tokens, delivered, killed>>

ExchangeStart(r, c, res, proof, cert) ==
  /\ codes[c].client # NoClient
  /\ Begin(r, c, codes[c].client, res, proof, cert)

PreAuthorizedStart(r, c, client, res, proof, cert) ==
  /\ codes[c].pre
  /\ Begin(r, c, client, res, proof, cert)

\* Faulty variant: the exchange goes on without consuming the code.
ConsumeForgotten(r) ==
  /\ req[r].pc = "consume" /\ req[r].refresh = NoToken
  /\ req' = [req EXCEPT ![r].pc =
       IF OfflineAccess \in req[r].scopes /\ ~codes[req[r].code].pre
       THEN "mint_refresh" ELSE "mint_access"]
  /\ UNCHANGED <<now, codes, refresh_tokens, revoked, access_tokens, delivered, raced, killed>>

ConsumeCode(r) ==
  /\ req[r].pc = "consume" /\ req[r].refresh = NoToken
  /\ codes' = [codes EXCEPT ![req[r].code].consumed = TRUE]
  /\ req' = [req EXCEPT ![r].pc =
       IF OfflineAccess \in req[r].scopes /\ ~codes[req[r].code].pre
       THEN "mint_refresh" ELSE "mint_access"]
  /\ UNCHANGED <<now, refresh_tokens, revoked, access_tokens, delivered, raced, killed>>

\* _issue_refresh_token saves the new row before any access token exists.
MintRefresh(r, t) ==
  /\ req[r].pc = "mint_refresh"
  /\ t \notin DOMAIN refresh_tokens
  /\ refresh_tokens' = Put(refresh_tokens, t,
       [client |-> req[r].client, scopes |-> req[r].scopes, resources |-> req[r].resources,
        jkt |-> req[r].rt_jkt, cert |-> req[r].cert, expires |-> req[r].start + RefreshTtl,
        consumed |-> FALSE, root |-> req[r].code, parent |-> req[r].refresh])
  /\ req' = [req EXCEPT ![r].pc = "mint_access", ![r].rt = t]
  /\ UNCHANGED <<now, codes, revoked, access_tokens, delivered, raced, killed>>

MintAccess(r, a) ==
  /\ req[r].pc = "mint_access"
  /\ a \notin DOMAIN access_tokens
  /\ access_tokens' = Put(access_tokens, a,
       [client |-> req[r].client, scopes |-> req[r].scopes, resources |-> req[r].resources,
        jkt |-> req[r].jkt, cert |-> req[r].cert, exp |-> req[r].start + AccessTtl,
        root |-> req[r].code, parent |-> req[r].refresh])
  /\ req' = [req EXCEPT
       ![r].pc = IF req[r].refresh = NoToken /\ ~codes[req[r].code].pre
                 THEN "record" ELSE "respond",
       ![r].at = a, ![r].at_exp = req[r].start + AccessTtl]
  /\ UNCHANGED <<now, codes, refresh_tokens, revoked, delivered, raced, killed>>

\* Faulty variants: the refresh token is not recorded; the row is rewritten with
\* the consumed column of the copy the lookup read.
RecordAccessOnly(r) ==
  /\ req[r].pc = "record"
  /\ codes' = [codes EXCEPT ![req[r].code] = [@ EXCEPT
       !.consumed = TRUE, !.at = req[r].at, !.at_exp = req[r].at_exp]]
  /\ req' = [req EXCEPT ![r].pc = "respond"]
  /\ UNCHANGED <<now, refresh_tokens, revoked, access_tokens, delivered, raced, killed>>

RecordStaleCopy(r) ==
  /\ req[r].pc = "record"
  /\ codes' = [codes EXCEPT ![req[r].code] = [@ EXCEPT
       !.consumed = FALSE, !.at = req[r].at, !.at_exp = req[r].at_exp, !.rt = req[r].rt]]
  /\ req' = [req EXCEPT ![r].pc = "respond"]
  /\ UNCHANGED <<now, refresh_tokens, revoked, access_tokens, delivered, raced, killed>>

\* _record_issued_tokens rewrites the whole row; its other columns never
\* change after the insertion, so the copy read by the lookup agrees on them.
Record(r) ==
  /\ req[r].pc = "record"
  /\ codes' = [codes EXCEPT ![req[r].code] = [@ EXCEPT
       !.consumed = TRUE, !.at = req[r].at, !.at_exp = req[r].at_exp, !.rt = req[r].rt]]
  /\ req' = [req EXCEPT ![r].pc = "respond"]
  /\ UNCHANGED <<now, refresh_tokens, revoked, access_tokens, delivered, raced, killed>>

\* Faulty variant: an absent refresh token is answered as if it were one.
RespondBlank(r) ==
  /\ req[r].pc = "respond"
  /\ delivered' = delivered \cup {req[r].at, req[r].rt}
  /\ req' = [req EXCEPT ![r] = Idle]
  /\ UNCHANGED <<now, codes, refresh_tokens, revoked, access_tokens, raced, killed>>

Respond(r) ==
  /\ req[r].pc = "respond"
  /\ delivered' = delivered \cup ({req[r].at, req[r].rt} \ {NoToken})
  /\ req' = [req EXCEPT ![r] = Idle]
  /\ UNCHANGED <<now, codes, refresh_tokens, revoked, access_tokens, raced, killed>>

--------------------------------------------------------------------------------
(* A consumed code presented again: the tokens its row names are revoked.   *)

DirectAccess(c) == {a \in DOMAIN access_tokens :
  access_tokens[a].root = c /\ access_tokens[a].parent = NoToken}

DirectRefresh(c) == {t \in DOMAIN refresh_tokens :
  refresh_tokens[t].root = c /\ refresh_tokens[t].parent = NoToken}

ReplayStart(r, c) ==
  /\ req[r].pc = "idle"
  /\ codes[c].consumed
  /\ req' = [req EXCEPT ![r] = [Idle EXCEPT
       !.pc = "revoke_access", !.code = c, !.at = codes[c].at, !.at_exp = codes[c].at_exp,
       !.rt = codes[c].rt, !.due = (DirectAccess(c) \cup DirectRefresh(c)) \cap delivered]]
  /\ UNCHANGED <<now, codes, refresh_tokens, revoked, access_tokens, delivered, raced, killed>>

RevokeAccess(r) ==
  /\ req[r].pc = "revoke_access"
  /\ revoked' = IF req[r].at = NoToken THEN revoked ELSE Put(revoked, req[r].at, req[r].at_exp)
  /\ req' = [req EXCEPT ![r].pc = "revoke_refresh"]
  /\ UNCHANGED <<now, codes, refresh_tokens, access_tokens, delivered, raced, killed>>

RevokeRefresh(r) ==
  /\ req[r].pc = "revoke_refresh"
  /\ refresh_tokens' = IF req[r].rt = NoToken THEN refresh_tokens
                       ELSE [refresh_tokens EXCEPT ![req[r].rt].consumed = TRUE]
  /\ killed' = killed \cup req[r].due
  /\ req' = [req EXCEPT ![r] = Idle]
  /\ UNCHANGED <<now, codes, revoked, access_tokens, delivered, raced>>

--------------------------------------------------------------------------------
(* Renewing with a refresh token: scope and resource may only shrink.       *)

RefreshStart(r, t, scopes, res, proof, cert) ==
  LET row == refresh_tokens[t] IN
  /\ req[r].pc = "idle"
  /\ t \in delivered
  /\ Redeemable(row)
  /\ scopes \in NarrowedScope(row.scopes)
  /\ cert \in PresentedCerts(row.client) /\ row.cert \in {NoCert, cert}
  /\ DpopAccepts(row.client, row.jkt, proof)
  /\ res \in EffectiveResources(row.resources)
  /\ req' = [req EXCEPT ![r] = [Idle EXCEPT
       !.pc = IF row.client \in Fapi2Clients THEN "mint_access" ELSE "consume",
       !.code = row.root, !.refresh = t, !.client = row.client, !.scopes = scopes,
       !.resources = res, !.jkt = proof, !.rt_jkt = RefreshKey(row.client, row.jkt, proof),
       !.cert = cert, !.start = now]]
  /\ Race(t)
  /\ UNCHANGED <<now, codes, refresh_tokens, revoked, access_tokens, delivered, killed>>

ConsumeRefresh(r) ==
  /\ req[r].pc = "consume" /\ req[r].refresh # NoToken
  /\ refresh_tokens' = [refresh_tokens EXCEPT ![req[r].refresh].consumed = TRUE]
  /\ req' = [req EXCEPT ![r].pc = "mint_refresh"]
  /\ UNCHANGED <<now, codes, revoked, access_tokens, delivered, raced, killed>>

--------------------------------------------------------------------------------
(* The environment.                                                         *)

\* The call ends without an answer: the process stops, the connection or a
\* store fails, or _issue_tokens returns an error once the support is spent.
Abort(r) ==
  /\ req[r].pc # "idle"
  /\ req' = [req EXCEPT ![r] = Idle]
  /\ UNCHANGED <<now, codes, refresh_tokens, revoked, access_tokens, delivered, raced, killed>>

\* purge_expired, which every call of /revoke makes.
PurgeExpired ==
  /\ \E a \in DOMAIN revoked : revoked[a] <= now
  /\ revoked' = [a \in {b \in DOMAIN revoked : revoked[b] > now} |-> revoked[a]]
  /\ UNCHANGED <<now, codes, refresh_tokens, access_tokens, delivered, req, raced, killed>>

Tick ==
  /\ now < MaxTime
  /\ now' = now + 1
  /\ UNCHANGED <<codes, refresh_tokens, revoked, access_tokens, delivered, req, raced, killed>>

Redeem(r) ==
  \/ \E c \in DOMAIN codes, res \in SUBSET Resources, proof \in Keys \cup {NoKey},
        cert \in Certs \cup {NoCert} :
       \/ ExchangeStart(r, c, res, proof, cert)
       \/ \E client \in Clients : PreAuthorizedStart(r, c, client, res, proof, cert)
  \/ ConsumeCode(r)
  \/ \E t \in RefreshIds : MintRefresh(r, t)
  \/ \E a \in AccessIds : MintAccess(r, a)
  \/ Record(r)
  \/ Respond(r)

Replay(r) ==
  \/ \E c \in DOMAIN codes : ReplayStart(r, c)
  \/ RevokeAccess(r)
  \/ RevokeRefresh(r)

Renew(r) ==
  \/ \E t \in DOMAIN refresh_tokens, scopes \in SUBSET Scopes, res \in SUBSET Resources,
        proof \in Keys \cup {NoKey}, cert \in Certs \cup {NoCert} :
       RefreshStart(r, t, scopes, res, proof, cert)
  \/ ConsumeRefresh(r)

Next ==
  \/ \E c \in Codes, g \in Grants : Issue(c, g)
  \/ \E r \in Requests : Redeem(r) \/ Replay(r) \/ Renew(r) \/ Abort(r)
  \/ Tick \/ PurgeExpired

Spec == Init /\ [][Next]_vars

--------------------------------------------------------------------------------
(* Properties.                                                              *)

TypeOK ==
  /\ now \in Nat
  /\ DOMAIN codes \subseteq Codes
  /\ \A c \in DOMAIN codes : codes[c] \in CodeRow
  /\ DOMAIN refresh_tokens \subseteq RefreshIds
  /\ \A t \in DOMAIN refresh_tokens : refresh_tokens[t] \in RefreshRow
  /\ DOMAIN revoked \subseteq AccessIds
  /\ \A a \in DOMAIN revoked : revoked[a] \in Nat
  /\ DOMAIN access_tokens \subseteq AccessIds
  /\ \A a \in DOMAIN access_tokens : access_tokens[a] \in AccessRow
  /\ delivered \subseteq AccessIds \cup RefreshIds
  /\ req \in [Requests -> Request]
  /\ raced \subseteq Codes \cup RefreshIds
  /\ killed \subseteq AccessIds \cup RefreshIds

\* tok, issued for the grant g (a code or a refresh token), stays within it.
Within(tok, g) ==
  /\ g.client \in {tok.client, NoClient}
  /\ tok.scopes \subseteq g.scopes
  /\ g.resources # {} => tok.resources # {} /\ tok.resources \subseteq g.resources

\* tok lies within the code it descends from and the refresh token it came from.
Lineage(tok) ==
  /\ tok.root \in DOMAIN codes
  /\ Within(tok, codes[tok.root])
  /\ tok.parent # NoToken =>
       /\ tok.parent \in DOMAIN refresh_tokens
       /\ tok.root = refresh_tokens[tok.parent].root
       /\ Within(tok, refresh_tokens[tok.parent])

\* Every token, however many renewals and concurrent calls lie between, belongs
\* to the client of the authorization it descends from, carries no scope and no
\* resource the user did not approve there (_resolve_refresh_grant,
\* _effective_resources), and stays within the refresh token that produced it.
GrantLineage ==
  /\ \A a \in DOMAIN access_tokens : Lineage(access_tokens[a])
  /\ \A t \in DOMAIN refresh_tokens : Lineage(refresh_tokens[t])

\* tok was obtained with the key and the certificate its support is bound to.
Bound(tok, sup) ==
  /\ sup.jkt # NoKey => tok.jkt = sup.jkt
  /\ sup.cert # NoCert => tok.cert = sup.cert

\* A bound refresh token hands its binding on: the access tokens and the
\* successor obtained with it carry its DPoP key and its certificate
\* (_refresh_dpop_jkt, the tls_cert_hash check of _refresh), so that a rotation
\* never turns a bound grant into a bearer one.
BindingInherited ==
  /\ \A a \in DOMAIN access_tokens :
       access_tokens[a].parent # NoToken =>
         Bound(access_tokens[a], refresh_tokens[access_tokens[a].parent])
  /\ \A t \in DOMAIN refresh_tokens :
       refresh_tokens[t].parent # NoToken =>
         Bound(refresh_tokens[t], refresh_tokens[refresh_tokens[t].parent])

\* The support a token was obtained with.
Source(tok) == IF tok.parent # NoToken THEN tok.parent ELSE tok.root

\* A FAPI2 client renews without rotating, as often as it likes.
Rotates(tok) == tok.parent = NoToken \/ tok.client \notin Fapi2Clients

\* A support is redeemed once: a code yields one access token and one refresh
\* token, and a rotated refresh token one successor and one access token.  The
\* only exception is a support that two calls had both found unconsumed before
\* either consumed it (find_by_code and consume are separate store calls).
SingleUseUnlessRaced ==
  /\ \A a, b \in DOMAIN access_tokens :
       /\ Source(access_tokens[a]) = Source(access_tokens[b])
       /\ Source(access_tokens[a]) \notin raced
       /\ Rotates(access_tokens[a]) /\ Rotates(access_tokens[b])
       => a = b
  /\ \A t, u \in DOMAIN refresh_tokens :
       /\ Source(refresh_tokens[t]) = Source(refresh_tokens[u])
       /\ Source(refresh_tokens[t]) \notin raced
       => t = u

RootOf(x) == IF x \in AccessIds THEN access_tokens[x].root ELSE refresh_tokens[x].root

Dead(x) ==
  IF x \in AccessIds THEN access_tokens[x].exp <= now \/ x \in DOMAIN revoked
                     ELSE refresh_tokens[x].consumed

\* A replay does its work: once a call presenting a consumed authorization code
\* has completed, the tokens clients had received from the exchange before it
\* began are dead for good, even after the denylist entry is purged (the entry
\* must outlive the token) and whatever calls abort on the way.
ReplayRevokes ==
  \A x \in killed : RootOf(x) \in raced \/ codes[RootOf(x)].pre \/ Dead(x)

\* Consumption is never undone, by no interleaving of consume with the full-row
\* save of _record_issued_tokens, nor by the revocation of a replay.
ConsumedForever ==
  [][/\ \A c \in DOMAIN codes : codes[c].consumed => codes'[c].consumed
     /\ \A t \in DOMAIN refresh_tokens :
          refresh_tokens[t].consumed => refresh_tokens'[t].consumed]_vars

--------------------------------------------------------------------------------
(* The promise of SingleUseGrant, seen in this module's state.              *)

Phase(c) ==
  IF c \notin DOMAIN codes THEN "none"
  ELSE IF c \in raced THEN "raced"
  ELSE IF ~codes[c].consumed THEN "live"
  ELSE "spent"

Abstract == INSTANCE SingleUseGrant WITH
  Items <- Codes, Tokens <- AccessIds,
  phase <- [c \in Codes |-> Phase(c)],
  out <- [c \in Codes |-> DirectAccess(c) \cap delivered]

\* Seen through its codes alone, the endpoint is a store of single-use grants.
ImplementsSingleUse == Abstract!Spec

--------------------------------------------------------------------------------
(* The inductive strengthening of the invariants above.                     *)

Redeeming(q) == q.pc \in {"consume", "mint_refresh", "mint_access", "record", "respond"}
Replaying(q) == q.pc \in {"revoke_access", "revoke_refresh"}

\* A call that redeems a support keeps within it.
InGrant(q) ==
  /\ q.client \in Clients
  /\ q.rt_jkt # NoKey => q.client \in PublicClients
  /\ q.code \in DOMAIN codes
  /\ Within(q, codes[q.code])
  /\ q.refresh # NoToken =>
       /\ q.refresh \in DOMAIN refresh_tokens
       /\ q.code = refresh_tokens[q.refresh].root
       /\ Within(q, refresh_tokens[q.refresh])
       /\ Bound(q, refresh_tokens[q.refresh])
       /\ refresh_tokens[q.refresh].jkt # NoKey => q.rt_jkt = refresh_tokens[q.refresh].jkt

RequestInv == \A r \in Requests : Redeeming(req[r]) => InGrant(req[r])

\* Only a pre-authorized code names no client, and only a public client's
\* refresh token is bound to a key.
RowInv ==
  /\ \A c \in DOMAIN codes : codes[c].pre => codes[c].client = NoClient
  /\ \A t \in DOMAIN refresh_tokens :
       refresh_tokens[t].jkt # NoKey => refresh_tokens[t].client \in PublicClients

LineageInv ==
  /\ TypeOK
  /\ RowInv
  /\ RequestInv
  /\ GrantLineage
  /\ BindingInherited

Consumed(x) == IF x \in Codes THEN codes[x].consumed ELSE refresh_tokens[x].consumed

\* A call that will consume, or has consumed, its support.
Redeems(q, x) ==
  Redeeming(q) /\ Support(q) = x /\ (q.refresh = NoToken \/ q.client \notin Fapi2Clients)

\* A FAPI2 renewal consumes nothing and stores no successor.
FapiInv ==
  /\ \A r \in Requests : Redeeming(req[r]) /\ req[r].refresh # NoToken
                         /\ req[r].client \in Fapi2Clients => req[r].pc \in {"mint_access", "respond"}
  /\ \A t \in DOMAIN refresh_tokens : Rotates(refresh_tokens[t])

\* Past the consumption the support is consumed, and unless it was raced one
\* call at most redeems it.
RedeemInv ==
  /\ raced \cap Codes \subseteq DOMAIN codes
  /\ \A r \in Requests : Redeems(req[r], Support(req[r])) /\ req[r].pc # "consume" =>
       Consumed(Support(req[r]))
  /\ \A r, s \in Requests :
       /\ Redeems(req[r], Support(req[r])) /\ Redeems(req[s], Support(req[r]))
       /\ Support(req[r]) \notin raced
       => r = s

\* A support with a token is consumed and, unless it was raced, the call that
\* still redeems it is the one that holds the token.
SourceInv ==
  /\ \A a \in DOMAIN access_tokens : Rotates(access_tokens[a]) =>
       /\ Consumed(Source(access_tokens[a]))
       /\ Source(access_tokens[a]) \notin raced =>
            \A r \in Requests : Redeems(req[r], Source(access_tokens[a])) =>
              req[r].pc \in {"record", "respond"} /\ req[r].at = a
  /\ \A t \in DOMAIN refresh_tokens :
       /\ Consumed(Source(refresh_tokens[t]))
       /\ Source(refresh_tokens[t]) \notin raced =>
            \A r \in Requests : Redeems(req[r], Source(refresh_tokens[t])) =>
              req[r].pc \in {"mint_access", "record", "respond"} /\ req[r].rt = t

UseInv == FapiInv /\ RedeemInv /\ SourceInv /\ SingleUseUnlessRaced

\* An authorization code that was not raced: its row names every token a client
\* holds from its exchange.
Exchanged(c) == c \in DOMAIN codes /\ ~codes[c].pre /\ c \notin raced

\* What a row or a replay says of an access token's expiry is the token's own.
Names(rec) ==
  /\ rec.at # NoToken => rec.at \in DOMAIN access_tokens
                         /\ rec.at_exp = access_tokens[rec.at].exp
  /\ rec.rt # NoToken => rec.rt \in DOMAIN refresh_tokens

\* The stores name tokens that exist, and a denylist entry lasts as long as its token.
StoreInv ==
  /\ delivered \subseteq DOMAIN access_tokens \cup DOMAIN refresh_tokens
  /\ killed \subseteq DOMAIN access_tokens \cup DOMAIN refresh_tokens
  /\ \A a \in DOMAIN revoked : a \in DOMAIN access_tokens /\ revoked[a] = access_tokens[a].exp
  /\ \A c \in DOMAIN codes : Names(codes[c])

\* The tokens a call holds are those of the support it redeems.
Holding(q) ==
  /\ Names(q)
  /\ q.pc = "record" => q.refresh = NoToken
  /\ q.pc \in {"record", "respond"} =>
       /\ q.at \in DOMAIN access_tokens
       /\ access_tokens[q.at].root = q.code
       /\ access_tokens[q.at].parent = q.refresh
  /\ Redeeming(q) /\ q.rt # NoToken =>
       /\ refresh_tokens[q.rt].root = q.code
       /\ refresh_tokens[q.rt].parent = q.refresh

\* An exchange answers what it has recorded.
Answering(q) ==
  q.pc = "respond" /\ q.refresh = NoToken /\ Exchanged(q.code) =>
    codes[q.code].at = q.at /\ codes[q.code].rt = q.rt

Recorded(c) ==
  Exchanged(c) =>
    /\ DirectAccess(c) \cap delivered \subseteq {codes[c].at}
    /\ DirectRefresh(c) \cap delivered \subseteq {codes[c].rt}

\* A replay that is half-way: what it owes is what its copy of the row names, and
\* the access token is dead before the refresh token is revoked.
Revoking(q) ==
  Replaying(q) =>
    /\ q.code \in DOMAIN codes
    /\ q.due \subseteq DirectAccess(q.code) \cup DirectRefresh(q.code)
    /\ Exchanged(q.code) => q.due \subseteq {q.at, q.rt}
    /\ q.pc = "revoke_refresh" /\ q.at # NoToken => Dead(q.at)

ReplayInv ==
  /\ StoreInv
  /\ \A r \in Requests : Holding(req[r]) /\ Answering(req[r]) /\ Revoking(req[r])
  /\ \A c \in Codes : Recorded(c)
  /\ ReplayRevokes
================================================================================
