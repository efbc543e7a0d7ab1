--------------------------- MODULE Authorization ---------------------------
(***************************************************************************)
(* The authorization endpoint with everything a request goes through on    *)
(* its way to a code: the pushed request behind a request_uri              *)
(* (application/par.py), the gates of /authorize (login, sign-up, prompt   *)
(* and max_age), the consent page and the consent store, and the saving    *)
(* of the code (application/authorize.py).                                 *)
(*                                                                         *)
(* A browser holds one session cookie and stands on one page; following a  *)
(* redirect or pressing a button starts a call of the server, in a slot.   *)
(* A call reads the cookie it was sent with, never the browser's later     *)
(* one.  Each access to the stores is a step of its own; a call may stop   *)
(* after any of them.  Two slots may serve the same page twice (a double   *)
(* click, a page reopened).                                                *)
(*                                                                         *)
(* The demands are those that validate_authorization_request accepts: the  *)
(* refusals change nothing and have no action, except where they end a     *)
(* visit.                                                                  *)
(***************************************************************************)
EXTENDS Integers, FiniteSets

CONSTANTS
  Browsers,        \* user agents
  Users,           \* accounts
  NoUser,          \* the subject of a request without a session
  Clients,
  Scopes,
  Resources,       \* resource indicators (RFC 8707)
  Keys,            \* thumbprints of DPoP keys
  NoKey,           \* no dpop_jkt in the demand
  Direct,          \* the demands that clients make in the URL of /authorize
  Pushed,          \* the demands that clients push first
  NoDemand,        \* blank
  Refs,            \* request_uri values that PAR may draw
  NoRef,           \* the demand was not pushed
  Calls,           \* slots for calls in progress, 1 .. n
  RequireConsent,  \* clients with require_consent
  Fapi,            \* clients with fapi_enabled or fapi2_enabled
  ParRequired,     \* clients with par_required or fapi2_enabled
  RequireLogin,    \* the server's require_login
  PushTtl,         \* lifetime of a pushed request
  MaxTime,         \* bound: the clock stops here
  MaxVisits        \* bound: visits that the clients cause

VARIABLES
  now,
  pushed,       \* the pushed requests by request_uri
  consents,     \* the stored consent of a user to a client, or absent
  visits,       \* how many times a client has sent a browser here
  session,      \* the session cookie of each browser
  page,         \* where each browser stands
  call,         \* the calls in progress
  approved,     \* history: scopes each user accepted on the consent form
  firstVisit,   \* history: when a browser first visited a URL (0: never)
  asked,        \* history: the demand pushed under each request_uri
  answers,      \* history: responses delivered for each request_uri
  raced,        \* history: request_uris that two flows held at once
  overlapped    \* history: consents that two grants updated at once

stores == <<pushed, consents>>
histories == <<visits, approved, firstVisit, asked, answers, raced, overlapped>>
vars == <<now, pushed, consents, visits, session, page, call, approved,
          firstVisit, asked, answers, raced, overlapped>>

-----------------------------------------------------------------------------
(* Data *)

Prompts == {"none", "login", "consent", "create"}

Demand ==
  [client: Clients, scopes: SUBSET Scopes, prompt: SUBSET Prompts,
   max_age: -1 .. MaxTime, resource: SUBSET Resources, dpop_jkt: Keys \cup {NoKey},
   code_challenge: {"", "S256", "plain"}]

Demands == Direct \cup Pushed

ASSUME DemandAssumption == Demands \subseteq Demand
ASSUME BlankAssumption ==
  /\ NoUser \notin Users
  /\ NoRef \notin Refs
  /\ NoKey \notin Keys
  /\ NoDemand \notin Demand
  /\ Browsers # {}
ASSUME ClientAssumption ==
  RequireConsent \cup Fapi \cup ParRequired \subseteq Clients
ASSUME TimeAssumption ==
  PushTtl \in Nat /\ MaxTime \in Nat \ {0} /\ MaxVisits \in Nat /\ RequireLogin \in BOOLEAN

\* An address of /authorize: the parameters themselves, or a request_uri.
Urls == [ref: {NoRef}, demand: Direct] \cup [ref: Refs, demand: {NoDemand}]

\* The fingerprint of a login that was not started by an /authorize URL.
Elsewhere == [ref |-> NoRef, demand |-> NoDemand]

\* reauth_context: the hash of the next URL, here that URL itself.
Fingerprints == Urls \cup {Elsewhere}

Anonymous == [user |-> NoUser, auth_time |-> 0, reauth |-> Elsewhere]

Sessions ==
  {Anonymous} \cup [user: Users, auth_time: 1 .. MaxTime, reauth: Fingerprints]

PushedAuthorization ==
  [demand: Demand, expires_at: Nat, is_consumed: BOOLEAN]

Absent == [demand |-> NoDemand, expires_at |-> 0, is_consumed |-> FALSE]

NoConsent == [stored |-> FALSE, scopes |-> {}]
Consent == [stored: BOOLEAN, scopes: SUBSET Scopes]

Pages == {"none", "authorize", "login", "signup", "consent", "form", "done"}

\* next: what /login and /signup lead back to.
Page ==
  [at: Pages, next: {"authorize", "consent"}, url: Fingerprints,
   demand: Demand \cup {NoDemand}]

Blank == [at |-> "none", next |-> "authorize", url |-> Elsewhere, demand |-> NoDemand]

Steps == {"idle", "purge", "lookup", "read", "save", "execute", "complete", "respond"}

Call ==
  [pc: Steps, from: Pages, browser: Browsers, user: Users \cup {NoUser}, auth_time: 0 .. MaxTime,
   url: Fingerprints, demand: Demand \cup {NoDemand}, merged: SUBSET Scopes]

Idle ==
  [pc |-> "idle", from |-> "none", browser |-> CHOOSE b \in Browsers : TRUE, user |-> NoUser,
   auth_time |-> 0, url |-> Elsewhere, demand |-> NoDemand, merged |-> {}]

-----------------------------------------------------------------------------
(* What the handlers compute without a store *)

\* The redirections of a browser.
GoTo(b, place) ==
  page' = [page EXCEPT ![b] =
    IF place = "done" THEN [Blank EXCEPT !.at = "done"] ELSE [@ EXCEPT !.at = place]]

\* _login_redirect, _signup_redirect: the form carries the URL as next.
GoToForm(b, place, back) ==
  page' = [page EXCEPT ![b] =
    IF place = "done" THEN [Blank EXCEPT !.at = "done"]
    ELSE [@ EXCEPT !.at = place, !.next = back]]

\* consent_url: the page gets the demand that /authorize worked on.
GoToConsent(b, d) ==
  page' = [page EXCEPT ![b].at = "consent", ![b].demand = d]

\* _max_age_requirement_unmet: a login that this very URL started meets it
\* whatever time has passed.
MaxAgeUnmet(d, s, u) ==
  /\ d.max_age >= 0
  /\ s.reauth # u
  /\ d.max_age = 0 \/ now - s.auth_time > d.max_age

\* Faulty variant: any login from /authorize counts.
AnyLoginCounts(d, s, u) ==
  \/ "login" \in d.prompt /\ s.reauth = Elsewhere
  \/ MaxAgeUnmet(d, s, u)

\* Faulty variant: the login that the URL started does not count.
LoginNeverCounts(d, s, u) ==
  \/ "login" \in d.prompt
  \/ MaxAgeUnmet(d, s, u)

\* _reauthentication_required
ReauthenticationRequired(d, s, u) ==
  \/ "login" \in d.prompt /\ s.reauth # u
  \/ MaxAgeUnmet(d, s, u)

\* _registration_gate, without the marker of a cancelled sign-up.
RegistrationGate(d, s, u) ==
  IF "none" \in d.prompt THEN "done"
  ELSE IF s.user # NoUser /\ s.reauth = u THEN "pass" ELSE "signup"

\* _login_or_error: prompt=none answers an error, else the login form.
LoginOrError(d) == IF "none" \in d.prompt THEN "done" ELSE "login"

\* _authentication_gate: where a visit goes, or "pass".
AuthenticationGate(d, s, u) ==
  IF "create" \in d.prompt THEN RegistrationGate(d, s, u)
  ELSE IF \/ s.user # NoUser /\ ReauthenticationRequired(d, s, u)
          \/ s.user = NoUser /\ (RequireLogin \/ "login" \in d.prompt)
       THEN LoginOrError(d)
       ELSE "pass"

\* _with_authenticated_subject builds the demand anew for a user, without
\* its resources.
WithSubject(d, s) == IF s.user = NoUser THEN d ELSE [d EXCEPT !.resource = {}]

\* Faulty variant: the form forgets the key of the client.
ConsentParamsNoKey(d) == [d EXCEPT !.resource = {}, !.max_age = -1, !.dpop_jkt = NoKey]

\* _consent_params: neither resources nor max_age are fields of the page.
ConsentParams(d) == [d EXCEPT !.resource = {}, !.max_age = -1]

\* Consent.covers
Covers(c, scopes) == scopes \subseteq c.scopes

\* is_required before it reads the store: no consent for this client, a form
\* in any case, or the store decides.
ConsentRule(d) ==
  IF d.client \notin RequireConsent THEN "execute"
  ELSE IF d.client \in Fapi \/ "consent" \in d.prompt THEN "form"
  ELSE "lookup"

\* Faulty variant: any stored consent is enough.
StoredIsEnough(c, d) == ~c.stored

\* is_required on the consent that the store returned.
ConsentRequired(c, d) == ~c.stored \/ ~Covers(c, d.scopes)

\* _enforce_par_requirement: a direct demand of a client that must push.
MustPush(u) == u.ref = NoRef /\ u.demand.client \in ParRequired

-----------------------------------------------------------------------------
(* Pushed requests *)

\* _fapi_pkce_error
PkceAccepted(d) == d.client \in Fapi => d.code_challenge = "S256"

\* _check_dpop_proof: the key of a proof is the one that was declared, if any.
ProofAccepted(d, proof) == proof = NoKey \/ d.dpop_jkt \in {NoKey, proof}

\* What a proof adds to the demand.
Bound(d, proof) == IF d.dpop_jkt = NoKey THEN [d EXCEPT !.dpop_jkt = proof] ELSE d

\* push: the client is authenticated and the demand validated (AuthorizeRequests).
Push(r, d, proof) ==
  /\ asked[r] = NoDemand
  /\ PkceAccepted(d) /\ ProofAccepted(d, proof)
  /\ pushed' = [pushed EXCEPT ![r] =
       [demand |-> Bound(d, proof), expires_at |-> now + PushTtl, is_consumed |-> FALSE]]
  /\ asked' = [asked EXCEPT ![r] = Bound(d, proof)]
  /\ UNCHANGED <<now, consents, session, page, call, visits,
                 approved, firstVisit, answers, raced, overlapped>>

\* Faulty variant: a consumed reference still resolves.
SpentByTime(p) == p.expires_at <= now

\* resolve, the tests before the client: expired and consumed references are
\* deleted.
Spent(p) == p.expires_at <= now \/ p.is_consumed

\* The demand behind a URL.
DemandAt(u) == IF u.ref = NoRef THEN u.demand ELSE pushed[u.ref].demand

-----------------------------------------------------------------------------
(* Browsers *)

\* A client sends the browser to /authorize, with a demand or a request_uri
\* that it has pushed.
Navigate(b, u) ==
  /\ page[b].at \in {"none", "done"}
  /\ visits < MaxVisits /\ visits' = visits + 1
  /\ u.ref # NoRef => asked[u.ref] # NoDemand
  /\ firstVisit' = [firstVisit EXCEPT ![b][u] = IF @ = 0 THEN now ELSE @]
  /\ page' = [page EXCEPT ![b] =
       [at |-> "authorize", next |-> "authorize", url |-> u, demand |-> NoDemand]]
  /\ UNCHANGED <<now, stores, session, call, approved, asked, answers, raced,
                 overlapped>>

\* POST /login, POST /signup from the form the browser stands on.
SignIn(b, user) ==
  /\ page[b].at \in {"login", "signup"}
  /\ session' = [session EXCEPT ![b] =
       [user |-> user, auth_time |-> now,
        reauth |-> IF page[b].next = "authorize" THEN page[b].url ELSE Elsewhere]]
  /\ GoTo(b, page[b].next)
  /\ UNCHANGED <<now, stores, call, histories>>

\* Bound: the session of a browser changes behind its page between two calls,
\* which read the cookie only as they begin, and once per unit of time.
Quiet(b) ==
  /\ session[b].auth_time < now
  /\ \A k \in Calls : call[k].pc = "idle"

\* A login from anywhere else.
SignInElsewhere(b, user) ==
  /\ Quiet(b)
  /\ session' = [session EXCEPT ![b] =
       [user |-> user, auth_time |-> now, reauth |-> Elsewhere]]
  /\ UNCHANGED <<now, stores, page, call, histories>>

\* The link "refuse" of /signup: back to the URL with register=cancelled,
\* which answers access_denied.
CancelSignUp(b) ==
  /\ page[b].at = "signup"
  /\ GoTo(b, "done")
  /\ UNCHANGED <<now, stores, session, call, histories>>

\* The session ends: logout, or the cookie expires.
SignOut(b) ==
  /\ session[b] # Anonymous /\ Quiet(b)
  /\ session' = [session EXCEPT ![b] = Anonymous]
  /\ UNCHANGED <<now, stores, page, call, histories>>

-----------------------------------------------------------------------------
(* Calls *)

\* Another flow holds the reference of page b: a call in progress, or a
\* consent page that carries it as pushed_reference.
Held(b, others) ==
  LET r == page[b].url.ref
  IN \/ \E j \in others : call[j].pc # "idle" /\ call[j].url.ref = r
     \/ \E o \in Browsers \ {b} :
          /\ page[o].url.ref = r
          /\ page[o].at \in {"consent", "form"} \/ page[o].next = "consent"

NoteRace(b, others) ==
  raced' = IF page[b].url.ref # NoRef /\ Held(b, others)
           THEN raced \cup {page[b].url.ref} ELSE raced

\* The slot that the next call takes.
Free(k) == call[k].pc = "idle" /\ \A j \in Calls : call[j].pc = "idle" => k <= j

\* A call starts to work for browser b with the cookie that b sends.
Begin(k, b, step, d) ==
  /\ call' = [call EXCEPT ![k] =
       [pc |-> step, from |-> page[b].at, browser |-> b, user |-> session[b].user,
        auth_time |-> IF page[b].at = "authorize" THEN session[b].auth_time ELSE 0,
        url |-> page[b].url, demand |-> d, merged |-> {}]]
  /\ NoteRace(b, Calls \ {k})

\* The browser follows the answer of call k if it still waits for it.
Reply(k, place, d) ==
  LET b == call[k].browser
  IN /\ page' = IF page[b].at = call[k].from /\ page[b].url = call[k].url
                THEN IF place = "done" THEN [page EXCEPT ![b] = [Blank EXCEPT !.at = "done"]]
                     ELSE [page EXCEPT ![b].at = place, ![b].demand = d]
                ELSE page
     /\ call' = [call EXCEPT ![k] = Idle]

\* GET /authorize on a reference that nobody knows, or of a client that must
\* push: an error, at once.
AuthorizeRefused(b) ==
  /\ page[b].at = "authorize"
  /\ \/ page[b].url.ref # NoRef /\ pushed[page[b].url.ref] = Absent
     \/ MustPush(page[b].url)
  /\ GoTo(b, "done")
  /\ UNCHANGED <<now, stores, session, call, histories>>

\* resolve meets an expired or consumed reference: it will delete it.
AuthorizeSpent(b, k) ==
  /\ page[b].at = "authorize" /\ Free(k)
  /\ page[b].url.ref # NoRef
  /\ pushed[page[b].url.ref] # Absent
  /\ Spent(pushed[page[b].url.ref])
  /\ call' = [call EXCEPT ![k] =
       [Idle EXCEPT !.pc = "purge", !.from = "authorize", !.browser = b,
                    !.url = page[b].url]]
  /\ UNCHANGED <<now, stores, session, page, histories>>

\* The reference is deleted and the error goes back to the client.
Purge(k) ==
  /\ call[k].pc = "purge"
  /\ pushed' = [pushed EXCEPT ![call[k].url.ref] = Absent]
  /\ Reply(k, "done", NoDemand)
  /\ UNCHANGED <<now, consents, session, histories>>

\* The demand of page b is there to be worked on.
Resolvable(b) ==
  LET u == page[b].url
  IN /\ page[b].at = "authorize"
     /\ ~MustPush(u)
     /\ u.ref # NoRef => pushed[u.ref] # Absent /\ ~Spent(pushed[u.ref])

\* GET /authorize that stops at the gate: the login form, the sign-up form, or
\* an error for prompt=none.
AuthorizeGated(b) ==
  /\ Resolvable(b)
  /\ LET u == page[b].url
         outcome == AuthenticationGate(DemandAt(u), session[b], u)
     IN outcome # "pass" /\ GoToForm(b, outcome, "authorize")
  /\ UNCHANGED <<now, stores, session, call, histories>>

\* GET /authorize that passes the gate, for a client whose consent the store
\* decides or for one without consent.
AuthorizePassed(b, k) ==
  /\ Resolvable(b) /\ Free(k)
  /\ LET u == page[b].url
         d == WithSubject(DemandAt(u), session[b])
     IN /\ AuthenticationGate(DemandAt(u), session[b], u) = "pass"
        /\ ConsentRule(d) # "form"
        /\ Begin(k, b, ConsentRule(d), d)
  /\ UNCHANGED <<now, stores, session, page, visits, approved, firstVisit, asked, answers, overlapped>>

\* GET /authorize that passes the gate and must show the consent page.
AuthorizeToConsent(b) ==
  /\ Resolvable(b)
  /\ LET u == page[b].url
         d == WithSubject(DemandAt(u), session[b])
     IN /\ AuthenticationGate(DemandAt(u), session[b], u) = "pass"
        /\ ConsentRule(d) = "form"
        /\ GoToConsent(b, ConsentParams(d))
  /\ NoteRace(b, Calls)
  /\ UNCHANGED <<now, stores, session, call, visits, approved, firstVisit,
                 asked, answers, overlapped>>

\* is_required reads the store, for /authorize or for GET /consent.
ConsentLookup(k) ==
  /\ call[k].pc = "lookup"
  /\ LET d == call[k].demand
         c == IF call[k].user = NoUser THEN NoConsent ELSE consents[call[k].user][d.client]
     IN IF ConsentRequired(c, d)
        THEN Reply(k, IF call[k].from = "authorize" THEN "consent" ELSE "form",
                   ConsentParams(d))
        ELSE /\ call' = [call EXCEPT ![k].pc = "execute"]
             /\ UNCHANGED page
  /\ UNCHANGED <<now, stores, session, histories>>

\* GET or POST /consent without a session: the login form, and back here.
ConsentLogin(b) ==
  /\ page[b].at \in {"consent", "form"}
  /\ session[b].user = NoUser
  /\ GoToForm(b, "login", "consent")
  /\ NoteRace(b, Calls)
  /\ UNCHANGED <<now, stores, session, call, visits, approved, firstVisit,
                 asked, answers, overlapped>>

\* GET /consent that shows the form whatever the store says.
ConsentForm(b) ==
  /\ page[b].at = "consent" /\ session[b].user # NoUser
  /\ ConsentRule(page[b].demand) = "form"
  /\ GoTo(b, "form")
  /\ UNCHANGED <<now, stores, session, call, histories>>

\* _handle_consent: GET /consent where the store decides.
HandleConsent(b, k) ==
  /\ page[b].at = "consent" /\ session[b].user # NoUser /\ Free(k)
  /\ ConsentRule(page[b].demand) # "form"
  /\ Begin(k, b, ConsentRule(page[b].demand), page[b].demand)
  /\ UNCHANGED <<now, stores, session, page, visits, approved, firstVisit, asked, answers, overlapped>>

\* POST /consent, action=deny: access_denied, the reference stays usable.
ConsentDeny(b) ==
  /\ page[b].at = "form" /\ session[b].user # NoUser
  /\ GoTo(b, "done")
  /\ UNCHANGED <<now, stores, session, call, histories>>

\* POST /consent, action=authorize, of the user whose cookie comes with it.
\* The form does not carry prompt.
ConsentAuthorize(b, k) ==
  /\ page[b].at = "form" /\ session[b].user # NoUser /\ Free(k)
  /\ LET d == page[b].demand
     IN /\ Begin(k, b, "read", [d EXCEPT !.prompt = {}])
        /\ approved' = [approved EXCEPT ![session[b].user][d.client] = @ \cup d.scopes]
  /\ UNCHANGED <<now, stores, session, page, visits, firstVisit, asked, answers, overlapped>>

\* Faulty variant: the consent is overwritten.
Overwrite(c, scopes) == scopes

\* grant, what is saved: the scopes of the demand and those stored before.
Merge(c, scopes) == scopes \cup c.scopes

\* grant reads the consent it will extend.
GrantRead(k) ==
  /\ call[k].pc = "read"
  /\ LET c == call[k]
         client == c.demand.client
         busy == \E j \in Calls \ {k} : /\ call[j].pc = "save"
                                        /\ call[j].user = c.user
                                        /\ call[j].demand.client = client
     IN /\ call' = [call EXCEPT ![k].pc = "save",
                                ![k].merged = Merge(consents[c.user][client], c.demand.scopes)]
        /\ overlapped' = IF busy THEN overlapped \cup {<<c.user, client>>} ELSE overlapped
  /\ UNCHANGED <<now, stores, session, page, visits, approved, firstVisit, asked, answers, raced>>

\* grant saves the consent, by (subject, client).
GrantSave(k) ==
  /\ call[k].pc = "save"
  /\ consents' = [consents EXCEPT ![call[k].user][call[k].demand.client] =
                    [stored |-> TRUE, scopes |-> call[k].merged]]
  /\ call' = [call EXCEPT ![k].pc = "execute"]
  /\ UNCHANGED <<now, pushed, session, page, histories>>

\* execute, _issue_code: the code that is saved has the subject, the auth_time
\* and the demand of the call, where the properties read them.  The codes are
\* redeemed in TokenGrants.
IssueCode(k) ==
  /\ call[k].pc = "execute"
  /\ call' = [call EXCEPT ![k].pc = IF call[k].url.ref = NoRef THEN "respond" ELSE "complete"]
  /\ UNCHANGED <<now, pushed, consents, session, page, histories>>

\* complete: find_by_request_uri and consume, which does nothing to a row that
\* has gone in between.
Complete(k) ==
  /\ call[k].pc = "complete"
  /\ LET r == call[k].url.ref
     IN pushed' = IF pushed[r] = Absent THEN pushed
                  ELSE [pushed EXCEPT ![r].is_consumed = TRUE]
  /\ call' = [call EXCEPT ![k].pc = "respond"]
  /\ UNCHANGED <<now, consents, session, page, histories>>

\* The response reaches the client.
Respond(k) ==
  /\ call[k].pc = "respond"
  /\ answers' = IF call[k].url.ref = NoRef THEN answers
                ELSE [answers EXCEPT ![call[k].url.ref] = @ + 1]
  /\ Reply(k, "done", NoDemand)
  /\ UNCHANGED <<now, stores, session, visits, approved, firstVisit, asked, raced, overlapped>>

\* The server stops in the middle of a call that has written to a store or is
\* about to; the browser stays where it was.  Bound: nothing fails in the last
\* unit of time.
Abort(k) ==
  /\ call[k].pc \in {"save", "execute", "complete", "respond"}
  /\ now < MaxTime
  /\ call' = [call EXCEPT ![k] = Idle]
  /\ UNCHANGED <<now, stores, session, page, histories>>

Tick ==
  /\ now < MaxTime
  /\ now' = now + 1
  /\ UNCHANGED <<stores, session, page, call, histories>>

-----------------------------------------------------------------------------

Init ==
  /\ now = 1
  /\ pushed = [r \in Refs |-> Absent]
  /\ consents = [u \in Users |-> [c \in Clients |-> NoConsent]]
  /\ visits = 0
  /\ session = [b \in Browsers |-> Anonymous]
  /\ page = [b \in Browsers |-> Blank]
  /\ call = [k \in Calls |-> Idle]
  /\ approved = [u \in Users |-> [c \in Clients |-> {}]]
  /\ firstVisit = [b \in Browsers |-> [u \in Urls |-> 0]]
  /\ asked = [r \in Refs |-> NoDemand]
  /\ answers = [r \in Refs |-> 0]
  /\ raced = {}
  /\ overlapped = {}

\* What the server does with the page a browser stands on.
ServePage(b) ==
  \/ AuthorizeRefused(b) \/ AuthorizeGated(b) \/ AuthorizeToConsent(b)
  \/ ConsentLogin(b) \/ ConsentForm(b)
  \/ \E k \in Calls : AuthorizeSpent(b, k) \/ AuthorizePassed(b, k) \/ HandleConsent(b, k)

\* What a call does next.
ServeCall(k) ==
  \/ Purge(k) \/ ConsentLookup(k) \/ GrantRead(k) \/ GrantSave(k)
  \/ IssueCode(k) \/ Complete(k) \/ Respond(k)

\* What the user does with the form he stands on.
AnswerForm(b) ==
  \/ \E user \in Users : SignIn(b, user)
  \/ CancelSignUp(b)
  \/ ConsentDeny(b)
  \/ \E k \in Calls : ConsentAuthorize(b, k)

Next ==
  \/ \E r \in Refs, d \in Pushed, proof \in Keys \cup {NoKey} : Push(r, d, proof)
  \/ \E b \in Browsers, u \in Urls : Navigate(b, u)
  \/ \E b \in Browsers, user \in Users : SignInElsewhere(b, user)
  \/ \E b \in Browsers : SignOut(b)
  \/ \E b \in Browsers : ServePage(b) \/ AnswerForm(b)
  \/ \E k \in Calls : ServeCall(k) \/ Abort(k)
  \/ Tick

\* The event loop serves every request and every call in the end, users answer
\* the forms they see, and time passes.
Fairness ==
  /\ \A b \in Browsers : SF_vars(ServePage(b)) /\ SF_vars(AnswerForm(b))
  /\ \A k \in Calls : WF_vars(ServeCall(k))
  /\ WF_vars(Tick)

Spec == Init /\ [][Next]_vars
FairSpec == Spec /\ Fairness

-----------------------------------------------------------------------------
(* Properties *)

\* Types of the state.
TypeOK ==
  /\ now \in 1 .. MaxTime
  /\ pushed \in [Refs -> PushedAuthorization \cup {Absent}]
  /\ consents \in [Users -> [Clients -> Consent]]
  /\ visits \in 0 .. MaxVisits
  /\ session \in [Browsers -> Sessions]
  /\ page \in [Browsers -> Page]
  /\ call \in [Calls -> Call]
  /\ approved \in [Users -> [Clients -> SUBSET Scopes]]
  /\ firstVisit \in [Browsers -> [Urls -> 0 .. MaxTime]]
  /\ asked \in [Refs -> Demand \cup {NoDemand}]
  /\ answers \in [Refs -> Nat]
  /\ raced \subseteq Refs
  /\ overlapped \subseteq Users \X Clients

\* The codes saved and not yet delivered.
Codes == {call[k] : k \in {j \in Calls : call[j].pc \in {"complete", "respond"}}}

\* The demand that the client made at a URL.
Original(u) == IF u.ref = NoRef THEN u.demand ELSE asked[u.ref]

\* A code for a client with require_consent names a user who accepted every
\* scope of it on the form, and the store holds nothing that its user did not
\* accept: whatever user the cookie names when a page is shown, when its form
\* comes back and when the code is saved (consent.py, is_required and grant).
CodesApproved ==
  /\ \A c \in Codes : c.demand.client \in RequireConsent =>
       c.user \in Users /\ c.demand.scopes \subseteq approved[c.user][c.demand.client]
  /\ \A u \in Users, c \in Clients : consents[u][c].scopes \subseteq approved[u][c]

\* A code issued straight from /authorize to a signed-in user meets prompt=login
\* and max_age: its auth_time is not older than the first visit of that URL by
\* that browser, or than max_age before it (_reauthentication_required).
FreshLogin ==
  \A code \in Codes : code.auth_time # 0 =>
    LET visited == firstVisit[code.browser][code.url]
        max_age == Original(code.url).max_age
    IN /\ "login" \in Original(code.url).prompt => code.auth_time >= visited
       /\ max_age >= 0 => code.auth_time + max_age >= visited

\* Through pushes, redirections and forms, a code carries the client, the
\* scopes and the DPoP key of the demand that was made under its URL, and no
\* resource that was not in it (_consent_params, _with_authenticated_subject).
CodeMatchesRequest ==
  \A code \in Codes :
    LET d == Original(code.url)
    IN /\ code.demand.client = d.client
       /\ code.demand.scopes = d.scopes
       /\ code.demand.dpop_jkt = d.dpop_jkt
       /\ code.demand.resource \subseteq d.resource

\* A client that must push gets no code from a direct demand
\* (_enforce_par_requirement), and one response at most for each request_uri,
\* unless two flows held that reference at the same time: complete consumes it
\* at the end of the flow, and the consent page does not resolve it again.
PushedOnceUnlessRaced ==
  /\ \A code \in Codes : code.demand.client \in ParRequired => code.url.ref # NoRef
  /\ \A r \in Refs : answers[r] <= 1 \/ r \in raced

\* A stored consent never loses a scope, unless two grants for it overlapped
\* (consent.py, grant).
ConsentKeptUnlessOverlapped ==
  [][\A u \in Users, c \in Clients :
       \/ consents[u][c].scopes \subseteq consents'[u][c].scopes
       \/ <<u, c>> \in overlapped]_vars

\* A user who keeps signing in gets an answer: the login that a URL starts
\* satisfies that URL, whatever prompt and max_age it carries
\* (_reauthentication_required, _registration_gate).
NoLoginLoop ==
  \A b \in Browsers : page[b].at \in {"login", "signup"} ~> page[b].at = "done"

-----------------------------------------------------------------------------
(* The inductive strengthening of the properties above. *)

\* The demand d may stand for the one that was made at the URL u.
Carries(d, u) ==
  /\ u \in Urls /\ ~MustPush(u)
  /\ Original(u) \in Demand /\ d \in Demand
  /\ d.client = Original(u).client /\ d.scopes = Original(u).scopes
  /\ d.dpop_jkt = Original(u).dpop_jkt /\ d.resource \subseteq Original(u).resource

\* The consent page, its form and the login they lead to carry a demand.
Consenting(p) == p.at \in {"consent", "form"} \/ p.next = "consent"

\* A call that works on a demand.
Working(c) == c.pc \notin {"idle", "purge"}

PageSound(b, p) ==
  /\ p.at \notin {"none", "done"} => p.url \in Urls /\ firstVisit[b][p.url] # 0
  /\ p.at = "authorize" => p.next = "authorize"
  /\ Consenting(p) => Carries(p.demand, p.url)

\* A login that a URL started came after the first visit of that URL.
SessionSound(b, s) ==
  s.reauth # Elsewhere =>
    firstVisit[b][s.reauth] # 0 /\ s.auth_time >= firstVisit[b][s.reauth]

\* The login of call c is recent enough for its URL.
LoginFresh(c) ==
  LET visited == firstVisit[c.browser][c.url]
      d == Original(c.url)
  IN /\ "login" \in d.prompt => c.auth_time >= visited
     /\ d.max_age >= 0 => c.auth_time + d.max_age >= visited

\* The user of call c accepted what it is about to store and to answer.
Accepted(c) ==
  /\ c.pc \in {"read", "save"} => c.user \in Users
  /\ \/ c.pc = "lookup"
     \/ c.pc \in {"execute", "complete", "respond"} /\ c.demand.client \notin RequireConsent
     \/ c.user \in Users /\ c.demand.scopes \subseteq approved[c.user][c.demand.client]
  /\ c.pc = "save" => c.merged \subseteq approved[c.user][c.demand.client]

CallSound(c) ==
  Working(c) =>
    /\ Carries(c.demand, c.url) /\ firstVisit[c.browser][c.url] # 0
    /\ c.auth_time # 0 => LoginFresh(c)
    /\ c.from \in {"authorize", "consent", "form"}
    /\ c.from = "consent" => ConsentRule(c.demand) # "form"
    /\ Accepted(c)

\* A request_uri that was pushed and that nobody can resolve any more.
Gone(r) == asked[r] # NoDemand /\ (pushed[r] = Absent \/ pushed[r].is_consumed)

\* The store keeps what was pushed, and the history does not run ahead of time.
PushInv ==
  /\ \A r \in Refs : pushed[r] # Absent => pushed[r].demand = asked[r]
  /\ \A k \in Calls : call[k].pc \in {"purge", "complete"} => call[k].url.ref \in Refs
  /\ \A k \in Calls : call[k].pc = "respond" /\ call[k].url.ref # NoRef => Gone(call[k].url.ref)
  /\ \A b \in Browsers, u \in Urls : firstVisit[b][u] <= now

\* The stored consents are accepted ones, and a grant that is alone extends the
\* one it read.
ConsentInv ==
  /\ \A u \in Users, c \in Clients : consents[u][c].scopes \subseteq approved[u][c]
  /\ \A k \in Calls : call[k].pc = "save" =>
       LET u == call[k].user
           c == call[k].demand.client
       IN \/ <<u, c>> \in overlapped
          \/ /\ consents[u][c].scopes \subseteq call[k].merged
             /\ \A j \in Calls : call[j].pc = "save" /\ call[j].user = u
                                  /\ call[j].demand.client = c => j = k

Holds(b, r) == Consenting(page[b]) /\ page[b].url.ref = r
Works(k, r) == Working(call[k]) /\ call[k].url.ref = r

\* One flow at most is under way for r: a consent page, or the call that serves it.
OneFlow(r) ==
  /\ \A j, k \in Calls : Works(j, r) /\ Works(k, r) => j = k
  /\ \A b, o \in Browsers : Holds(b, r) /\ Holds(o, r) => b = o
  /\ \A k \in Calls, b \in Browsers : Works(k, r) /\ Holds(b, r) =>
       /\ call[k].browser = b /\ call[k].from = page[b].at
       /\ call[k].from = "consent" => call[k].demand = page[b].demand
  /\ \/ answers[r] = 0
     \/ /\ answers[r] = 1 /\ Gone(r)
        /\ \A k \in Calls : ~Works(k, r)
        /\ \A b \in Browsers : ~Holds(b, r)

AuthInv ==
  /\ TypeOK /\ PushInv /\ ConsentInv
  /\ \A b \in Browsers : PageSound(b, page[b]) /\ SessionSound(b, session[b])
  /\ \A k \in Calls : CallSound(call[k])
  /\ \A r \in Refs \ raced : OneFlow(r)

=============================================================================
