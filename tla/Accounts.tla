------------------------------ MODULE Accounts ------------------------------
(***************************************************************************)
(* The accounts of the login module and what hangs on them: sign-up and    *)
(* login, the session cookie and the rotating keys that sign it, password  *)
(* resets and verification, logout with its notifications, and the         *)
(* session_state by which a client watches the session of the browser      *)
(* (identity/, application/logout.py, application/session_management.py).  *)
(*                                                                         *)
(* A cookie is a signed token that the server does not keep.  A reset      *)
(* reads the user, then writes it; sign-ups and logouts likewise take      *)
(* several steps, between which anything else may happen.                  *)
(***************************************************************************)
EXTENDS PasswordPolicy, FiniteSets

CONSTANTS
  Emails,
  Passwords,        \* records, see PasswordPolicy
  Browsers,
  Clients,
  Policy,           \* settings.password_policy
  Patch,            \* the overrides of each client
  SessionLifetime,  \* session_lifetime_seconds of each client; 0: none
  CookieLifetime,   \* identity_jwt_lifetime_seconds
  TokenLifetime,    \* of reset and verification tokens
  PostLogout,       \* post_logout_redirect_uris of each client
  Backchannel,      \* clients with a backchannel_logout_uri
  Frontchannel,     \* clients with a frontchannel_logout_uri
  SidRequired,      \* frontchannel_logout_session_required
  RotationAge, GraceAge,
  NoUser, NoToken,
  MaxTime, MaxLogins, MaxLoad   \* bounds

VARIABLES
  now,
  users,      \* the account of each email
  keyset,     \* the session keys
  cookie,     \* the cookie of each browser
  logins,     \* number of logins; the next sid
  watched,    \* the session_state that a client holds in each browser
  clients,    \* active clients
  mails,      \* reset and verification tokens sent by mail
  signup,     \* the sign-up of each browser that is under way
  resets,     \* password resets that have read the user
  logout,     \* the logout of each browser that is under way
  ended,      \* history: the sessions whose logout was answered
  spent,      \* history: how often each reset token was used
  past,       \* history: the passwords each account has had, last first
  raced       \* history: accounts whose resets overlapped

vars == <<now, users, keyset, cookie, logins, watched, clients, mails, signup, resets,
          logout, ended, spent, past, raced>>

ASSUME PolicyAssumption == InRange(Policy)
ASSUME LifetimeAssumption ==
  /\ RotationAge \in Nat \ {0} /\ GraceAge \in Nat /\ CookieLifetime \in Nat \ {0}
  /\ SessionLifetime \in [Clients -> Nat] /\ TokenLifetime \in Nat
ASSUME ClientAssumption ==
  Backchannel \subseteq Clients /\ Frontchannel \subseteq Clients /\ "" \notin Clients

User ==
  [password : Passwords, hash : Nat, history : Seq(Passwords), is_active : BOOLEAN,
   is_verified : BOOLEAN]

\* No row is not an account.
ASSUME BlankAssumption == NoUser \notin User

NoSignup == [email |-> "", password |-> NoUser, client |-> ""]

\* A bound on how much happens in all; what leads to more steps weighs more.
Room(n) ==
  now + logins + Cardinality({b \in Browsers : signup[b] # NoSignup})
    + 2 * Cardinality({b \in Browsers : watched[b] # NoToken})
    + 2 * Cardinality({b \in Browsers : logout[b].stage # "none"})
    + 2 * Cardinality(Clients \ clients) + 3 * Cardinality(mails) + n <= MaxLoad

session == <<keyset, cookie, logins>>
flows == <<signup, resets, logout>>
history == <<ended, spent, past, raced>>

-----------------------------------------------------------------------------
(* The signer of the cookies *)

\* Faulty variant: a key is deleted as soon as it is retired.
MarkExpiredAtOnce(ks) == {k \in ks : k.created > now - RotationAge}

\* mark_expired_keys
MarkExpired(ks) ==
  {[k EXCEPT !.active = @ /\ k.created > now - RotationAge] :
     k \in {x \in ks : x.created > now - RotationAge - GraceAge}}

\* ensure_active_key; at most one key is made at a time.
EnsureActive(ks) ==
  IF \E k \in ks : k.active THEN ks ELSE ks \cup {[created |-> now, active |-> TRUE]}

\* _active_signing_key: the newest active key after the old ones are retired.
SigningKey(ks) ==
  LET live == EnsureActive(MarkExpired(ks))
  IN CHOOSE k \in live : k.active /\ \A x \in live : x.active => x.created <= k.created

\* RotatingTokenSigner.write
Token(u, sid, lifetime) ==
  [sub |-> u, sid |-> sid, key |-> SigningKey(keyset).created, iat |-> now, exp |-> now + lifetime]

\* RotatingTokenSigner.read: the key may be retired, but it must exist.
Readable(t) == t # NoToken /\ now < t.exp /\ \E k \in keyset : k.created = t.key

\* read_token and current_user(optional, active): the user of a browser.
CurrentUser(b) ==
  IF Readable(cookie[b]) /\ users[cookie[b].sub] # NoUser /\ users[cookie[b].sub].is_active
  THEN cookie[b].sub ELSE ""

\* session_sid looks at the token alone.
SessionSid(b) == IF Readable(cookie[b]) THEN cookie[b].sid ELSE 0

\* _resolve_cookie_lifetime, resolve_session_lifetime: an inactive client
\* counts as well.
Lifetime(c) ==
  IF c \in Clients /\ SessionLifetime[c] > 0 THEN SessionLifetime[c] ELSE CookieLifetime

\* The cookie of a login, with a new sid.
OpenSession(b, u, c) ==
  /\ cookie' = [cookie EXCEPT ![b] = Token(u, logins + 1, Lifetime(c))]
  /\ keyset' = EnsureActive(MarkExpired(keyset))
  /\ logins' = logins + 1

-----------------------------------------------------------------------------
(* Accounts *)

\* A hash has a salt: no two of an account are the same, so each is a number.
NewHash(e) == 1 + Len(past[e])

Account(e, w) ==
  [password |-> w, hash |-> NewHash(e), history |-> <<>>, is_active |-> TRUE, is_verified |-> FALSE]

NoLogout == [stage |-> "none", sid |-> 0, todo |-> {}, since |-> {}, told |-> {}, page |-> {}]

Init ==
  /\ now = 0
  /\ users = [e \in Emails |-> NoUser]
  /\ keyset = {}
  /\ cookie = [b \in Browsers |-> NoToken]
  /\ logins = 0
  /\ watched = [b \in Browsers |-> NoToken]
  /\ clients = Clients
  /\ mails = {}
  /\ signup = [b \in Browsers |-> NoSignup]
  /\ resets = {}
  /\ logout = [b \in Browsers |-> NoLogout]
  /\ ended = {}
  /\ spent = [t \in {} |-> 0]
  /\ past = [e \in Emails |-> <<>>]
  /\ raced = {}

\* A password becomes that of an account.
Remember(e, w) == past' = [past EXCEPT ![e] = <<w>> \o @]

\* resolve_password_policy: the client's overrides, for a client that exists.
PolicyFor(c) == IF c \in Clients THEN Apply(Patch[c], Policy) ELSE Policy

\* POST /signup up to the lookup of the email.  A policy that the overrides
\* put out of its limits fails the call, a password that it refuses leads
\* back to the form.
SignUpCheck(b) ==
  /\ signup[b] = NoSignup /\ logins < MaxLogins /\ Room(1)
  /\ \E e \in Emails, w \in Passwords, c \in Clients \cup {""} :
       /\ InRange(PolicyFor(c)) /\ Violations(PolicyFor(c), w) = {}
       /\ users[e] = NoUser
       /\ signup' = [signup EXCEPT ![b] = [email |-> e, password |-> w, client |-> c]]
  /\ UNCHANGED <<now, users, session, watched, clients, mails, resets, logout, history>>

\* The account is created, unless the email has been taken meanwhile (the
\* column is unique), and the browser is signed in.
SignUpCreate(b) ==
  LET s == signup[b]
  IN /\ s # NoSignup
     /\ signup' = [signup EXCEPT ![b] = NoSignup]
     /\ IF users[s.email] # NoUser
        THEN UNCHANGED <<users, session, past>>
        ELSE /\ users' = [users EXCEPT ![s.email] = Account(s.email, s.password)]
             /\ OpenSession(b, s.email, s.client)
             /\ Remember(s.email, s.password)
     /\ UNCHANGED <<now, watched, clients, mails, resets, logout, ended, spent, raced>>

\* POST /auth/register: the policy is not asked and nobody is signed in.
Register ==
  /\ \E e \in Emails, w \in Passwords :
       /\ users[e] = NoUser
       /\ users' = [users EXCEPT ![e] = Account(e, w)]
       /\ Remember(e, w)
  /\ UNCHANGED <<now, session, watched, clients, mails, flows, ended, spent, raced>>

\* POST /login: a wrong password or an inactive user changes nothing.
Login(b) ==
  /\ logins < MaxLogins /\ Room(1)
  /\ \E e \in Emails, c \in Clients \cup {""} :
       /\ users[e] # NoUser /\ users[e].is_active
       /\ OpenSession(b, e, c)
  /\ UNCHANGED <<now, users, watched, clients, mails, flows, history>>

\* request_verify, forgot_password: the token goes out by mail.
ForgotPassword(e) ==
  /\ users[e] # NoUser /\ users[e].is_active
  /\ Room(3)
  /\ mails' = mails \cup {[kind |-> "reset", sub |-> e, hash |-> users[e].hash,
                           exp |-> now + TokenLifetime, id |-> Cardinality(mails) + 1]}
  /\ UNCHANGED <<now, users, session, watched, clients, flows, history>>

RequestVerify(e) ==
  /\ users[e] # NoUser /\ users[e].is_active /\ ~users[e].is_verified
  /\ Room(3)
  /\ mails' = mails \cup {[kind |-> "verify", sub |-> e, hash |-> 0,
                           exp |-> now + TokenLifetime, id |-> Cardinality(mails) + 1]}
  /\ UNCHANGED <<now, users, session, watched, clients, flows, history>>

\* verify
Verify(t) ==
  /\ t.kind = "verify" /\ now < t.exp /\ ~users[t.sub].is_verified
  /\ users' = [users EXCEPT ![t.sub].is_verified = TRUE]
  /\ UNCHANGED <<now, session, watched, clients, mails, flows, history>>

\* Faulty variant: the fingerprint of the password is not compared.
ResetMatchesAnyway(t, user) == user.is_active

\* The token was made for the password that the user has.
ResetMatches(t, user) == t.hash = user.hash /\ user.is_active

\* _password_in_history: the passwords before the present one.
PasswordInHistory(user, w) == \E i \in DOMAIN user.history : user.history[i] = w

\* reset_password up to the update: the user is read, the token and the new
\* password are tested against what was read.
ResetRead(t) ==
  LET user == users[t.sub]
  IN /\ t.kind = "reset" /\ now < t.exp /\ ResetMatches(t, user)
     /\ Cardinality(resets) < 2
     /\ \E w \in Passwords :
          /\ Violations(Policy, w) = {} /\ ~PasswordInHistory(user, w)
          /\ resets' = resets \cup {[token |-> t, user |-> user, password |-> w]}
     /\ raced' = IF \E r \in resets : r.token.sub = t.sub THEN raced \cup {t.sub} ELSE raced
     /\ UNCHANGED <<now, users, session, watched, clients, mails, signup, logout, ended, spent, past>>

\* Faulty variant: the history is not kept.
HistoryAfterNone(user) == <<>>

\* The password that is replaced comes first, cut to history_depth.
HistoryAfter(user) ==
  SubSeq(<<user.password>> \o user.history, 1,
         IF Len(user.history) + 1 < Policy.history_depth
         THEN Len(user.history) + 1 ELSE Policy.history_depth)

\* The update of the password and its history; the other columns stay.
ResetWrite(r) ==
  LET e == r.token.sub
      id == r.token.id
  IN /\ resets' = resets \ {r}
     /\ users' = [users EXCEPT ![e] = [@ EXCEPT !.password = r.password, !.hash = NewHash(e),
                                                !.history = HistoryAfter(r.user)]]
     /\ Remember(e, r.password)
     /\ spent' = [t \in DOMAIN spent \cup {id} |->
                    IF t \notin DOMAIN spent THEN 1 ELSE IF t = id THEN spent[t] + 1 ELSE spent[t]]
     /\ UNCHANGED <<now, session, watched, clients, mails, signup, logout, ended, raced>>

-----------------------------------------------------------------------------
(* Watching and ending a session *)

\* create_session_state: a client gets one with its authorization response.
\* The salt does not matter; the value binds the client and the sid.
Watch(b) ==
  /\ SessionSid(b) # 0 /\ (Room(2) \/ watched[b] # NoToken)
  /\ \E c \in clients : watched' = [watched EXCEPT ![b] = [client |-> c, sid |-> SessionSid(b)]]
  /\ UNCHANGED <<now, users, session, clients, mails, flows, history>>

\* Faulty variant: any session of the browser is the one that is watched.
VerifySessionStateAny(state, sid) == TRUE

\* verify_session_state
VerifySessionState(state, sid) == state.sid = sid

\* GET /check_session
CheckSession(b) ==
  IF watched[b].client \notin clients THEN "error"
  ELSE IF SessionSid(b) = 0 THEN "changed"
  ELSE IF VerifySessionState(watched[b], SessionSid(b)) THEN "ok" ELSE "changed"

\* _resolve_hint: the client and the subject of an id_token_hint, which has
\* to verify and to be of an active client.
ResolveHint(hint) ==
  IF hint.client = "" THEN [ok |-> TRUE, client |-> "", subject |-> ""]
  ELSE [ok |-> hint.client \in clients, client |-> hint.client, subject |-> hint.subject]

\* _client_for_post_logout_uri
ClientForPostLogoutUri(uri) ==
  LET found == {c \in clients : uri \in PostLogout[c]}
  IN IF found = {} THEN "" ELSE CHOOSE c \in found : TRUE

\* LogoutUseCase.execute: the client of the logout is the one that the hint
\* names, else the first that registered the target; the target has to be its.
LogoutClient(found, target) ==
  IF found.client # "" \/ target = "" THEN found.client ELSE ClientForPostLogoutUri(target)
Accepted(found, target) ==
  LET c == LogoutClient(found, target)
  IN found.ok /\ (target = "" \/ (c # "" /\ target \in PostLogout[c]))

\* The clients to notify, read once at the start of the broadcast.
Targets(subject) == IF subject = "" THEN {} ELSE clients \cap Backchannel

Hints == {[client |-> "", subject |-> ""]} \cup [client : Clients, subject : Emails]

\* GET /end_session.  An error page is answered with the session as it was,
\* cookie and all, so such a request is no step.
EndSession(b) ==
  /\ logout[b].stage = "none" /\ logins > 0 /\ Room(2)
  /\ \E hint \in Hints, target \in {""} \cup UNION {PostLogout[c] : c \in Clients} :
       LET user == CurrentUser(b)
           found == ResolveHint(hint)
           subject == IF user # "" THEN user ELSE found.subject
       IN /\ Accepted(found, target)
          /\ logout' = [logout EXCEPT ![b] =
               [stage |-> "notify", sid |-> SessionSid(b), todo |-> Targets(subject),
                since |-> Targets(subject), told |-> {}, page |-> {}]]
  /\ UNCHANGED <<now, users, session, watched, clients, mails, signup, resets, history>>

\* The clients are told in the order of the registry.
First(todo) == CHOOSE c \in todo : TRUE

\* Faulty variant: a client that does not answer ends the broadcast.
NotifyOrStop(b, c) ==
  /\ logout[b].stage = "notify" /\ c \in logout[b].todo /\ c = First(logout[b].todo)
  /\ \/ logout' = [logout EXCEPT ![b].todo = @ \ {c}, ![b].told = @ \cup {<<c, logout[b].sid>>}]
     \/ logout' = [logout EXCEPT ![b].todo = {}]
  /\ UNCHANGED <<now, users, session, watched, clients, mails, signup, resets, history>>

\* broadcast_backchannel_logout: one client after the other; a client that
\* cannot be reached does not keep the others from being told.
Notify(b, c) ==
  /\ logout[b].stage = "notify" /\ c \in logout[b].todo /\ c = First(logout[b].todo)
  /\ logout' = [logout EXCEPT ![b].todo = @ \ {c}, ![b].told = @ \cup {<<c, logout[b].sid>>}]
  /\ UNCHANGED <<now, users, session, watched, clients, mails, signup, resets, history>>

\* frontchannel_uris: the frames of the page, with the sid where it is asked.
FrontchannelUris(sid) ==
  {<<c, IF c \in SidRequired THEN sid ELSE 0>> : c \in clients \cap Frontchannel}

\* The page with its frames, or the redirection when there are none; either
\* way the cookie is cleared, whichever session it is of by now.
EndSessionAnswer(b) ==
  /\ logout[b].stage = "notify" /\ logout[b].todo = {}
  /\ logout' = [logout EXCEPT ![b].stage = "answered", ![b].page = FrontchannelUris(logout[b].sid)]
  /\ ended' = ended \cup {logout[b].sid}
  /\ cookie' = [cookie EXCEPT ![b] = NoToken]
  /\ UNCHANGED <<now, users, keyset, logins, watched, clients, mails, signup, resets, spent, past, raced>>

\* The browser goes elsewhere, before the answer or after it.
EndSessionOver(b) ==
  /\ logout[b].stage # "none"
  /\ logout' = [logout EXCEPT ![b] = NoLogout]
  /\ UNCHANGED <<now, users, session, watched, clients, mails, signup, resets, history>>

\* The registry and the clock.
Deactivate(c) ==
  /\ c \in clients /\ Room(2) /\ clients' = clients \ {c}
  /\ logout' = [b \in Browsers |-> [logout[b] EXCEPT !.since = @ \ {c}]]
  /\ UNCHANGED <<now, users, session, watched, mails, signup, resets, history>>

Tick ==
  /\ now < MaxTime /\ Room(1) /\ now' = now + 1
  /\ UNCHANGED <<users, session, watched, clients, mails, flows, history>>

Next ==
  \/ \E b \in Browsers :
       \/ SignUpCheck(b) \/ SignUpCreate(b) \/ Login(b) \/ Watch(b)
       \/ EndSession(b) \/ EndSessionAnswer(b) \/ EndSessionOver(b)
       \/ \E c \in Clients : Notify(b, c)
  \/ Register
  \/ \E e \in Emails : ForgotPassword(e) \/ RequestVerify(e)
  \/ \E t \in mails : Verify(t) \/ ResetRead(t)
  \/ \E r \in resets : ResetWrite(r)
  \/ \E c \in Clients : Deactivate(c)
  \/ Tick

Spec == Init /\ [][Next]_vars

-----------------------------------------------------------------------------
(* Properties *)

\* A session cookie whose lifetime is within the grace period stays readable
\* until it expires, however the keys that sign cookies are rotated and
\* deleted meanwhile (RotatingTokenSigner.write and read).
SessionsSurvive ==
  \A b \in Browsers :
    LET t == cookie[b]
    IN (t # NoToken /\ t.exp - t.iat <= GraceAge /\ now < t.exp) => Readable(t)

\* Resets that do not overlap: a token changes the password at most once, and
\* no reset goes back to one of the history_depth passwords that came before
\* the one it replaced (UserManager.reset_password).
ResetsSoundUnlessRaced ==
  \A e \in Emails \ raced :
    /\ \A t \in mails : (t.sub = e /\ t.id \in DOMAIN spent) => spent[t.id] <= 1
    /\ \A i, j \in DOMAIN past[e] :
         j \in i + 2 .. i + 1 + Policy.history_depth => past[e][i] # past[e][j]

\* When a logout is answered, every client that had a back-channel URI when
\* the broadcast began has been sent the sid of the session, and from then on
\* no client that watches the session is told that it goes on
\* (broadcast_backchannel_logout, /end_session, /check_session).
LogoutReaches ==
  \A b \in Browsers :
    /\ logout[b].stage = "answered" => logout[b].since \X {logout[b].sid} \subseteq logout[b].told
    /\ (watched[b] # NoToken /\ CheckSession(b) = "ok") => watched[b].sid \notin ended

-----------------------------------------------------------------------------
(* The inductive strengthening of the properties *)

Cookie == [sub : Emails, sid : Nat, key : Int, iat : Nat, exp : Nat]
Signup == [email : Emails, password : Passwords, client : Clients \cup {""}]
Mail == [kind : {"reset", "verify"}, sub : Emails, hash : Nat, exp : Nat, id : Nat]
Reset == [token : Mail, user : User, password : Passwords]
Logout ==
  [stage : {"none", "notify", "answered"}, sid : Nat, todo : SUBSET Clients,
   since : SUBSET Clients, told : SUBSET (Clients \X Nat), page : SUBSET (Clients \X Nat)]

\* Types of the state that the properties speak of.
TypeOK ==
  /\ now \in Nat /\ logins \in Nat
  /\ users \in [Emails -> User \cup {NoUser}]
  /\ keyset \subseteq [created : Nat, active : BOOLEAN]
  /\ cookie \in [Browsers -> Cookie \cup {NoToken}]
  /\ clients \subseteq Clients
  /\ mails \subseteq Mail /\ IsFiniteSet(mails)
  /\ signup \in [Browsers -> Signup \cup {NoSignup}]
  /\ resets \subseteq Reset
  /\ logout \in [Browsers -> Logout]
  /\ ended \subseteq 0 .. logins
  /\ past \in [Emails -> Seq(Passwords)]

NewestOf(ks, n) == n \in ks /\ n.active /\ \A x \in ks : x.active => x.created <= n.created

\* Keys are of the past, and of the active ones one is the newest.
KeyInv ==
  /\ \A k \in keyset : k.created <= now
  /\ (\E k \in keyset : k.active) => \E n \in keyset : NewestOf(keyset, n)

\* The key of a cookie was young when it signed, and exists until nobody needs it.
Signed(t) ==
  /\ t.iat <= now /\ t.iat - RotationAge < t.key
  /\ (\E k \in keyset : k.created = t.key) \/ t.key <= now - RotationAge - GraceAge

\* A sid belongs to one browser, and not to a session that has ended.
SidInv ==
  \A b \in Browsers :
    /\ cookie[b] # NoToken =>
         Signed(cookie[b]) /\ cookie[b].sid \in 1 .. logins /\ cookie[b].sid \notin ended
    /\ \A x \in Browsers \ {b} : cookie[b] # NoToken =>
         /\ cookie[x] # NoToken => cookie[x].sid # cookie[b].sid
         /\ logout[x].stage # "none" => logout[x].sid # cookie[b].sid
    /\ logout[b].sid \in 0 .. logins

\* Who has not been told yet is still on the list.
BroadcastInv ==
  \A b \in Browsers :
    /\ \A c \in logout[b].since : c \in logout[b].todo \/ <<c, logout[b].sid>> \in logout[b].told
    /\ logout[b].stage = "answered" => logout[b].todo = {}

\* The history of a user is what came before its password, cut to the depth.
HistoryOf(user, words) ==
  /\ user.password = words[1]
  /\ Len(user.history) = (IF Len(words) <= Policy.history_depth
                          THEN Len(words) - 1 ELSE Policy.history_depth)
  /\ \A i \in 1 .. Len(user.history) : user.history[i] = words[i + 1]

\* No password is one of the depth that came before the last.
NoneRepeated(words) ==
  \A i, j \in DOMAIN words :
    j \in i + 2 .. i + 1 + Policy.history_depth => words[i] # words[j]

UserInv ==
  \A e \in Emails :
    /\ users[e] = NoUser => past[e] = <<>>
    /\ users[e] # NoUser => past[e] # <<>> /\ users[e].hash = Len(past[e])
    /\ e \notin raced => NoneRepeated(past[e]) /\ (users[e] # NoUser => HistoryOf(users[e], past[e]))

\* Every token is sent once, for a user that stays, and what has changed the
\* password no longer fits it.
MailInv ==
  /\ DOMAIN spent \subseteq 1 .. Cardinality(mails)
  /\ \A t \in mails :
       /\ t.id \in 1 .. Cardinality(mails) /\ \A x \in mails : x.id = t.id => x = t
       /\ users[t.sub] # NoUser
       /\ t.id \in DOMAIN spent /\ t.sub \notin raced =>
            spent[t.id] <= 1 /\ t.hash < users[t.sub].hash

\* A reset that is alone has read the user as it is.
ResetInv ==
  \A r \in resets :
    LET e == r.token.sub
    IN /\ r.token \in mails
       /\ e \notin raced =>
            /\ r.user.password = users[e].password /\ r.user.history = users[e].history
            /\ r.token.hash = users[e].hash /\ ~PasswordInHistory(r.user, r.password)
            /\ \A x \in resets : x.token.sub = e => x = r

AccountInv ==
  TypeOK /\ KeyInv /\ SidInv /\ BroadcastInv /\ UserInv /\ MailInv /\ ResetInv
=============================================================================
