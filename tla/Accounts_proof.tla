--------------------------- MODULE Accounts_proof ---------------------------
(***************************************************************************)
(* Proofs about Accounts, for every value of its constants.  The inductive *)
(* invariant has two parts that share no variable but the clock: the       *)
(* sessions (the keys that sign cookies, the cookies, the logouts) and the *)
(* accounts (the rows, the tokens sent by mail, the resets in progress).   *)
(* A step that touches one part leaves the other alone.                    *)
(***************************************************************************)
EXTENDS Accounts, TLAPS, FiniteSetTheorems

-----------------------------------------------------------------------------
(* The signer of the cookies *)

\* What mark_expired_keys leaves of a key.
LEMMA AgedKey ==
  ASSUME NEW k \in [created : Nat, active : BOOLEAN], NEW young \in BOOLEAN
  PROVE  LET x == [k EXCEPT !.active = @ /\ young]
         IN /\ x \in [created : Nat, active : BOOLEAN] /\ x.created = k.created
            /\ x.active <=> k.active /\ young
<1> DEFINE x == [k EXCEPT !.active = @ /\ young]
<1>1. x.active = (k.active /\ young)
  OBVIOUS
<1>2. x.created = k.created /\ x \in [created : Nat, active : BOOLEAN]
  OBVIOUS
<1> QED
  BY <1>1, <1>2

\* The keys that mark_expired_keys leaves: none turns active, none within the grace
\* period is lost.
LEMMA MarkedKeys ==
  ASSUME NEW ks \in SUBSET [created : Nat, active : BOOLEAN], now \in Nat,
         LifetimeAssumption
  PROVE  /\ MarkExpired(ks) \subseteq [created : Nat, active : BOOLEAN]
         /\ \A x \in MarkExpired(ks) : \E k \in ks :
              x.created = k.created /\ (x.active => k.active /\ k.created > now - RotationAge)
         /\ \A k \in ks : k.created > now - RotationAge - GraceAge =>
              \E x \in MarkExpired(ks) :
                x.created = k.created /\ (k.active /\ k.created > now - RotationAge => x.active)
<1> DEFINE young(k) == k.created > now - RotationAge
           aged(k) == [k EXCEPT !.active = @ /\ young(k)]
<1>1. \A k \in ks : /\ aged(k) \in [created : Nat, active : BOOLEAN] /\ aged(k).created = k.created
                    /\ aged(k).active <=> k.active /\ young(k)
  <2>1. SUFFICES ASSUME NEW k \in ks
                 PROVE  /\ aged(k) \in [created : Nat, active : BOOLEAN] /\ aged(k).created = k.created
                        /\ aged(k).active <=> k.active /\ young(k)
    OBVIOUS
  <2>2. young(k) \in BOOLEAN
    OBVIOUS
  <2>3. k \in [created : Nat, active : BOOLEAN]
    BY <2>1
  <2> HIDE DEF young
  <2> QED
    BY <2>2, <2>3, AgedKey
<1>2. MarkExpired(ks) = {aged(k) : k \in {x \in ks : x.created > now - RotationAge - GraceAge}}
  BY DEF MarkExpired
<1> HIDE DEF aged
<1>3. \A x \in MarkExpired(ks) : \E k \in ks : x = aged(k)
  BY <1>2
<1>4. \A k \in ks : k.created > now - RotationAge - GraceAge => aged(k) \in MarkExpired(ks)
  BY <1>2
<1>5. MarkExpired(ks) \subseteq [created : Nat, active : BOOLEAN]
  BY <1>1, <1>3
<1>6. \A x \in MarkExpired(ks) : \E k \in ks :
        x.created = k.created /\ (x.active => k.active /\ k.created > now - RotationAge)
  BY <1>1, <1>3
<1>7. \A k \in ks : k.created > now - RotationAge - GraceAge =>
        \E x \in MarkExpired(ks) :
          x.created = k.created /\ (k.active /\ k.created > now - RotationAge => x.active)
  BY <1>1, <1>4
<1> QED
  BY <1>5, <1>6, <1>7

\* Retiring keys leaves a newest active key, where any is active.
LEMMA MarkedNewest ==
  ASSUME NEW ks \in SUBSET [created : Nat, active : BOOLEAN], now \in Nat,
         LifetimeAssumption, NEW n, NewestOf(ks, n),
         NEW a \in MarkExpired(ks), a.active
  PROVE  \E m : NewestOf(MarkExpired(ks), m) /\ m.created > now - RotationAge
<1>1. PICK k \in ks : a.created = k.created /\ k.active /\ k.created > now - RotationAge
  BY MarkedKeys
<1>2. n \in ks /\ n.created \in Nat /\ k.created \in Nat /\ k.created <= n.created /\ n.active
  BY <1>1 DEF NewestOf
<1>3. n.created > now - RotationAge /\ n.created > now - RotationAge - GraceAge
  BY <1>1, <1>2 DEF LifetimeAssumption
<1>4. PICK m \in MarkExpired(ks) : m.created = n.created /\ m.active
  BY <1>2, <1>3, MarkedKeys
<1>5. \A x \in MarkExpired(ks) : x.active => x.created <= m.created
  <2>1. SUFFICES ASSUME NEW x \in MarkExpired(ks), x.active PROVE x.created <= m.created
    OBVIOUS
  <2>2. PICK y \in ks : x.created = y.created /\ y.active
    BY <2>1, MarkedKeys
  <2> QED
    BY <1>4, <2>2 DEF NewestOf
<1> QED
  BY <1>3, <1>4, <1>5 DEF NewestOf

\* The key that signs: active, of the rotation period, and kept.
LEMMA SigningKeys ==
  ASSUME NEW ks \in SUBSET [created : Nat, active : BOOLEAN], now \in Nat,
         LifetimeAssumption,
         \A k \in ks : k.created <= now,
         (\E k \in ks : k.active) => \E n \in ks : NewestOf(ks, n)
  PROVE  LET live == EnsureActive(MarkExpired(ks))
         IN /\ live \subseteq [created : Nat, active : BOOLEAN]
            /\ \A k \in live : k.created <= now
            /\ NewestOf(live, SigningKey(ks)) /\ SigningKey(ks).created > now - RotationAge
            /\ \A k \in ks : k.created > now - RotationAge - GraceAge =>
                 \E x \in live : x.created = k.created
<1> DEFINE marked == MarkExpired(ks)
           live == EnsureActive(marked)
           new == [created |-> now, active |-> TRUE]
<1>0. /\ marked \subseteq [created : Nat, active : BOOLEAN]
      /\ \A x \in marked : \E k \in ks : x.created = k.created /\ (x.active => k.active)
      /\ \A k \in ks : k.created > now - RotationAge - GraceAge => \E x \in marked : x.created = k.created
  BY MarkedKeys
<1>1. \A x \in marked : x.created <= now
  BY <1>0
<1>2. new \in [created : Nat, active : BOOLEAN] /\ new.created = now /\ new.active
  OBVIOUS
<1>3. marked \subseteq live /\ live \subseteq marked \cup {new}
  BY DEF EnsureActive
<1>4. \E m : NewestOf(live, m) /\ m.created > now - RotationAge
  <2>1. CASE \E a \in marked : a.active
    <3>1. PICK a \in marked : a.active
      BY <2>1
    <3>2. PICK n : NewestOf(ks, n)
      BY <1>0, <3>1
    <3>3. live = marked
      BY <2>1 DEF EnsureActive
    <3> QED
      BY <3>1, <3>2, <3>3, MarkedNewest
  <2>2. CASE ~\E a \in marked : a.active
    <3>1. live = marked \cup {new}
      BY <2>2 DEF EnsureActive
    <3>2. \A x \in live : x.active => x = new
      BY <2>2, <3>1
    <3>3. NewestOf(live, new)
      BY <1>2, <3>1, <3>2 DEF NewestOf
    <3> QED
      BY <1>2, <3>3 DEF LifetimeAssumption
  <2> QED
    BY <2>1, <2>2
<1>5. live \subseteq [created : Nat, active : BOOLEAN] /\ \A k \in live : k.created <= now
  <2> HIDE DEF live, marked, new
  <2>1. \A k \in live : k \in marked \/ k = new
    BY <1>3
  <2>2. now <= now
    OBVIOUS
  <2>3. \A k \in live : k \in [created : Nat, active : BOOLEAN]
    BY <1>0, <1>2, <2>1
  <2>4. \A k \in live : k.created <= now
    BY <1>1, <1>2, <2>1, <2>2
  <2> QED
    BY <2>3, <2>4
<1>6. SigningKey(ks) = CHOOSE k \in live : k.active /\ \A x \in live : x.active => x.created <= k.created
  BY DEF SigningKey
<1>7. NewestOf(live, SigningKey(ks))
  <2> HIDE DEF live
  <2> QED
    BY <1>4, <1>6 DEF NewestOf
<1>8. SigningKey(ks).created > now - RotationAge
  <2>1. PICK m : NewestOf(live, m) /\ m.created > now - RotationAge
    BY <1>4
  <2> HIDE DEF live
  <2>2. m.created <= SigningKey(ks).created /\ m.created \in Nat /\ SigningKey(ks).created \in Nat
    BY <1>5, <1>7, <2>1 DEF NewestOf
  <2> QED
    BY <2>1, <2>2 DEF LifetimeAssumption
<1>9. \A k \in ks : k.created > now - RotationAge - GraceAge => \E x \in live : x.created = k.created
  BY <1>0, <1>3
<1> QED
  BY <1>5, <1>7, <1>8, <1>9

\* session_ttl of a client, or the default.
LEMMA Lifetimes ==
  ASSUME LifetimeAssumption, NEW c PROVE Lifetime(c) \in Nat
BY DEF Lifetime, LifetimeAssumption

\* The cookie that a login sets.
LEMMA Tokens ==
  ASSUME LifetimeAssumption, now \in Nat, KeyInv, keyset \in SUBSET [created : Nat, active : BOOLEAN],
         NEW u \in Emails, NEW sid \in Nat, NEW c
  PROVE  LET t == Token(u, sid, Lifetime(c))
             live == EnsureActive(MarkExpired(keyset))
         IN /\ t \in Cookie /\ t.sid = sid /\ t.iat = now
            /\ now - RotationAge < t.key /\ \E k \in live : k.created = t.key
<1> DEFINE t == Token(u, sid, Lifetime(c))
           live == EnsureActive(MarkExpired(keyset))
           s == SigningKey(keyset)
<1>1. /\ live \subseteq [created : Nat, active : BOOLEAN] /\ s \in live
      /\ s.created > now - RotationAge
  BY SigningKeys DEF KeyInv, NewestOf
<1>2. s.created \in Nat
  BY <1>1
<1>3. Lifetime(c) \in Nat /\ now + Lifetime(c) \in Nat
  BY Lifetimes
<1>4. t = [sub |-> u, sid |-> sid, key |-> s.created, iat |-> now, exp |-> now + Lifetime(c)]
  BY DEF Token
<1> HIDE DEF t, s, live
<1>5. t \in Cookie /\ t.sid = sid /\ t.iat = now /\ t.key = s.created
  BY <1>2, <1>3, <1>4 DEF Cookie
<1>6. now - RotationAge < s.created
  BY <1>1, <1>2 DEF LifetimeAssumption
<1> QED
  BY <1>1, <1>5, <1>6 DEF t, live

\* A cookie stays signed while keys are retired and made.
LEMMA SignedKept ==
  ASSUME LifetimeAssumption, now \in Nat, KeyInv, keyset \in SUBSET [created : Nat, active : BOOLEAN],
         NEW t \in Cookie, Signed(t),
         now' = now, keyset' = EnsureActive(MarkExpired(keyset))
  PROVE  Signed(t)'
<1>1. \A k \in keyset : k.created > now - RotationAge - GraceAge => \E x \in keyset' : x.created = k.created
  BY SigningKeys DEF KeyInv
<1>2. CASE t.key <= now - RotationAge - GraceAge
  BY <1>2 DEF Signed
<1>3. CASE ~(t.key <= now - RotationAge - GraceAge)
  <2>1. PICK k \in keyset : k.created = t.key
    BY <1>3 DEF Signed
  <2>2. k.created \in Nat
    OBVIOUS
  <2>3. k.created > now - RotationAge - GraceAge
    BY <1>3, <2>1, <2>2 DEF LifetimeAssumption
  <2> QED
    BY <1>1, <2>1, <2>3 DEF Signed
<1> QED
  BY <1>2, <1>3

\* _open_session: the newest active key signs, and the sid is new.
LEMMA SessionOpened ==
  ASSUME LifetimeAssumption, TypeOK, KeyInv, SidInv, NEW b \in Browsers, NEW u \in Emails, NEW c,
         OpenSession(b, u, c), UNCHANGED <<now, logout, ended>>
  PROVE  /\ KeyInv' /\ SidInv' /\ logins' \in Nat /\ ended' \subseteq 0 .. logins'
         /\ keyset' \subseteq [created : Nat, active : BOOLEAN]
         /\ cookie' \in [Browsers -> Cookie \cup {NoToken}]
<1>0. /\ now \in Nat /\ logins \in Nat /\ keyset \in SUBSET [created : Nat, active : BOOLEAN]
      /\ cookie \in [Browsers -> Cookie \cup {NoToken}] /\ ended \subseteq 0 .. logins
      /\ logout \in [Browsers -> Logout]
  BY DEF TypeOK
<1>t. PICK t : t = Token(u, logins + 1, Lifetime(c))
  OBVIOUS
<1>1. /\ cookie' = [cookie EXCEPT ![b] = t] /\ logins' = logins + 1
      /\ keyset' = EnsureActive(MarkExpired(keyset))
  BY <1>t DEF OpenSession
<1>2. KeyInv' /\ keyset' \subseteq [created : Nat, active : BOOLEAN]
  <2>1. keyset' \subseteq [created : Nat, active : BOOLEAN] /\ \A k \in keyset' : k.created <= now
    BY <1>0, <1>1, SigningKeys DEF KeyInv
  <2>2. NewestOf(keyset', SigningKey(keyset)) /\ SigningKey(keyset) \in keyset'
    BY <1>0, <1>1, SigningKeys DEF KeyInv, NewestOf
  <2> QED
    BY <2>1, <2>2 DEF KeyInv, NewestOf
<1>3. /\ t \in Cookie /\ t.sid = logins + 1 /\ t.iat = now
      /\ now - RotationAge < t.key /\ \E k \in keyset' : k.created = t.key
  BY <1>0, <1>1, <1>t, Tokens
<1>4. cookie' \in [Browsers -> Cookie \cup {NoToken}]
  BY <1>0, <1>1, <1>3
<1>5. logins' \in Nat /\ ended' \subseteq 0 .. logins'
  BY <1>0, <1>1
<1>6. Signed(t)'
  BY <1>0, <1>3 DEF Signed
<1>7. \A x \in Browsers : x # b => cookie'[x] = cookie[x]
  BY <1>0, <1>1
<1>8. cookie'[b] = t
  BY <1>0, <1>1
<1>9. \A x \in Browsers : cookie[x] # NoToken =>
        cookie[x] \in Cookie /\ cookie[x].sid \in 1 .. logins /\ cookie[x].sid \notin ended /\ Signed(cookie[x])
  BY <1>0 DEF SidInv
<1>10. \A x \in Browsers : logout[x].sid \in 0 .. logins
  BY DEF SidInv
<1>11. SidInv'
  <2>1. SUFFICES ASSUME NEW x \in Browsers
        PROVE  /\ cookie'[x] # NoToken =>
                    Signed(cookie[x])' /\ cookie'[x].sid \in 1 .. logins' /\ cookie'[x].sid \notin ended'
               /\ \A y \in Browsers \ {x} : cookie'[x] # NoToken =>
                    /\ cookie'[y] # NoToken => cookie'[y].sid # cookie'[x].sid
                    /\ logout'[y].stage # "none" => logout'[y].sid # cookie'[x].sid
               /\ logout'[x].sid \in 0 .. logins'
    BY DEF SidInv
  <2>2. logout'[x].sid \in 0 .. logins'
    BY <1>0, <1>1, <1>10
  <2>3. CASE x = b
    <3>1. cookie'[x] = t
      BY <1>8, <2>3
    <3>2. t.sid \in 1 .. logins' /\ t.sid \notin ended'
      BY <1>0, <1>1, <1>3
    <3>3. \A y \in Browsers \ {x} : /\ cookie'[y] # NoToken => cookie'[y].sid # t.sid
                                   /\ logout'[y].sid # t.sid
      BY <1>0, <1>3, <1>7, <1>9, <1>10, <2>3
    <3>4. Signed(cookie[x])'
      BY <1>6, <3>1 DEF Signed
    <3> QED
      BY <2>2, <3>1, <3>2, <3>3, <3>4
  <2>4. CASE x # b
    <3>1. cookie'[x] = cookie[x]
      BY <1>7, <2>4
    <3>2. SUFFICES ASSUME cookie[x] # NoToken
          PROVE  /\ Signed(cookie[x])' /\ cookie'[x].sid \in 1 .. logins' /\ cookie'[x].sid \notin ended'
                 /\ \A y \in Browsers \ {x} :
                    /\ cookie'[y] # NoToken => cookie'[y].sid # cookie'[x].sid
                    /\ logout'[y].stage # "none" => logout'[y].sid # cookie'[x].sid
      BY <2>2, <3>1
    <3>3. PICK z : z = cookie[x] /\ z \in Cookie /\ z.sid \in 1 .. logins /\ z.sid \notin ended /\ Signed(z)
      BY <1>9, <3>2
    <3>4. Signed(z)'
      BY <1>0, <1>1, <3>3, SignedKept
    <3>5. Signed(cookie[x])'
      BY <3>1, <3>3, <3>4 DEF Signed
    <3>6. z.sid \in 1 .. logins' /\ z.sid \notin ended' /\ z.sid # t.sid
      BY <1>0, <1>1, <1>3, <3>3
    <3>7. \A y \in Browsers : y # x /\ cookie[y] # NoToken => cookie[y].sid # z.sid
      BY <3>2, <3>3 DEF SidInv
    <3>70. \A y \in Browsers : y # x /\ logout[y].stage # "none" => logout[y].sid # z.sid
      BY <3>2, <3>3 DEF SidInv
    <3>8. \A y \in Browsers \ {x} : cookie'[y] # NoToken => cookie'[y].sid # z.sid
      <4>1. SUFFICES ASSUME NEW y \in Browsers \ {x}, cookie'[y] # NoToken PROVE cookie'[y].sid # z.sid
        OBVIOUS
      <4>2. CASE y = b
        BY <1>8, <3>6, <4>2
      <4>3. CASE y # b
        <5>1. cookie'[y] = cookie[y]
          BY <1>7, <4>3
        <5>2. cookie[y] # NoToken => cookie[y].sid # z.sid
          BY <3>7
        <5> QED
          BY <4>1, <5>1, <5>2
      <4> QED
        BY <4>2, <4>3
    <3>9. cookie'[x] = z /\ logout' = logout
      BY <3>1, <3>3
    <3>10. \A y \in Browsers \ {x} : logout'[y].stage # "none" => logout'[y].sid # z.sid
      BY <3>70, <3>9
    <3> QED
      BY <3>5, <3>6, <3>8, <3>9, <3>10
  <2> QED
    BY <2>3, <2>4
<1> QED
  BY <1>2, <1>4, <1>5, <1>11

-----------------------------------------------------------------------------
(* Ending a session *)

\* A session that can be read is the one of the cookie.
LEMMA SessionSids ==
  ASSUME TypeOK, SidInv, NEW b \in Browsers
  PROVE  /\ SessionSid(b) \in 0 .. logins
         /\ SessionSid(b) # 0 => cookie[b] # NoToken /\ SessionSid(b) = cookie[b].sid
<1>1. logins \in Nat
  BY DEF TypeOK
<1>2. CASE Readable(cookie[b])
  <2>1. cookie[b] # NoToken /\ SessionSid(b) = cookie[b].sid
    BY <1>2 DEF SessionSid, Readable
  <2>2. cookie[b].sid \in 1 .. logins
    BY <2>1 DEF SidInv
  <2> QED
    BY <1>1, <2>1, <2>2
<1>3. CASE ~Readable(cookie[b])
  BY <1>1, <1>3 DEF SessionSid
<1> QED
  BY <1>2, <1>3

\* Steps of logouts: a logout keeps its sid or takes that of its browser, and
\* cookies are only cleared.
LEMMA SidsKept ==
  ASSUME TypeOK, SidInv, UNCHANGED <<now, keyset, logins>>,
         \A x \in Browsers : cookie'[x] = cookie[x] \/ cookie'[x] = NoToken,
         \A x \in Browsers : cookie'[x] # NoToken => cookie[x].sid \notin ended',
         \A x \in Browsers : logout'[x].sid \in 0 .. logins,
         \A x \in Browsers : logout'[x].stage # "none" =>
           \/ logout[x].stage # "none" /\ logout'[x].sid = logout[x].sid
           \/ logout'[x].sid = SessionSid(x)
  PROVE  SidInv'
<1>1. SUFFICES ASSUME NEW b \in Browsers
      PROVE  /\ cookie'[b] # NoToken =>
                  Signed(cookie[b])' /\ cookie'[b].sid \in 1 .. logins' /\ cookie'[b].sid \notin ended'
             /\ \A x \in Browsers \ {b} : cookie'[b] # NoToken =>
                  /\ cookie'[x] # NoToken => cookie'[x].sid # cookie'[b].sid
                  /\ logout'[x].stage # "none" => logout'[x].sid # cookie'[b].sid
             /\ logout'[b].sid \in 0 .. logins'
  BY DEF SidInv
<1>2. logout'[b].sid \in 0 .. logins' /\ logins' = logins /\ logins \in Nat
  BY DEF TypeOK
<1>3. SUFFICES ASSUME cookie'[b] # NoToken
      PROVE  /\ Signed(cookie[b])' /\ cookie'[b].sid \in 1 .. logins' /\ cookie'[b].sid \notin ended'
             /\ \A x \in Browsers \ {b} :
                  /\ cookie'[x] # NoToken => cookie'[x].sid # cookie'[b].sid
                  /\ logout'[x].stage # "none" => logout'[x].sid # cookie'[b].sid
  BY <1>2
<1>4. PICK z : z = cookie[b]
  OBVIOUS
<1>5. cookie'[b] = z /\ z # NoToken
  BY <1>3, <1>4
<1>6. Signed(z) /\ z.sid \in 1 .. logins
  BY <1>4, <1>5 DEF SidInv
<1>7. Signed(z)'
  BY <1>6 DEF Signed
<1>8. Signed(cookie[b])'
  BY <1>5, <1>7 DEF Signed
<1>9. z.sid \notin ended'
  BY <1>3, <1>4
<1>10. \A x \in Browsers : x # b /\ cookie[x] # NoToken => cookie[x].sid # z.sid
  BY <1>4, <1>5 DEF SidInv
<1>11. \A x \in Browsers : x # b /\ logout[x].stage # "none" => logout[x].sid # z.sid
  BY <1>4, <1>5 DEF SidInv
<1>12. \A x \in Browsers : x # b /\ cookie'[x] # NoToken => cookie'[x].sid # z.sid
  BY <1>10
<1>13. \A x \in Browsers : x # b /\ logout'[x].stage # "none" => logout'[x].sid # z.sid
  <2>1. SUFFICES ASSUME NEW x \in Browsers, x # b, logout'[x].stage # "none"
                 PROVE  logout'[x].sid # z.sid
    OBVIOUS
  <2>2. CASE logout[x].stage # "none" /\ logout'[x].sid = logout[x].sid
    BY <1>11, <2>1, <2>2
  <2>3. CASE logout'[x].sid = SessionSid(x)
    <3>1. SessionSid(x) # 0 => cookie[x] # NoToken /\ SessionSid(x) = cookie[x].sid
      BY SessionSids
    <3>2. SessionSid(x) # 0 => SessionSid(x) # z.sid
      BY <1>10, <2>1, <3>1
    <3>3. z.sid # 0
      BY <1>2, <1>6
    <3> QED
      BY <2>3, <3>2, <3>3
  <2> QED
    BY <2>1, <2>2, <2>3
<1> QED
  BY <1>2, <1>5, <1>6, <1>8, <1>9, <1>12, <1>13

\* The fields of a logout.
LEMMA LogoutType ==
  ASSUME NEW l \in Logout
  PROVE  /\ l.stage \in {"none", "notify", "answered"} /\ l.sid \in Nat /\ l.todo \subseteq Clients
         /\ l.since \subseteq Clients /\ l.told \subseteq Clients \X Nat /\ l.page \subseteq Clients \X Nat
BY DEF Logout

\* The part of the invariant about one logout.
Broadcast(l) ==
  /\ \A c \in l.since : c \in l.todo \/ <<c, l.sid>> \in l.told
  /\ l.stage = "answered" => l.todo = {}

\* What the invariant says of one browser.
LEMMA LogoutOf ==
  ASSUME TypeOK, SidInv, BroadcastInv, NEW b \in Browsers
  PROVE  logout[b] \in Logout /\ Broadcast(logout[b]) /\ logout[b].sid \in 0 .. logins
BY DEF TypeOK, SidInv, BroadcastInv, Broadcast

\* /end_session starts the broadcast for the session it reads.
LEMMA EndSessions ==
  ASSUME TypeOK, SidInv, NEW b \in Browsers, EndSession(b)
  PROVE  \E l \in Logout : logout' = [logout EXCEPT ![b] = l] /\ Broadcast(l) /\ l.sid = SessionSid(b)
<1>1. PICK subject : logout' = [logout EXCEPT ![b] =
               [stage |-> "notify", sid |-> SessionSid(b), todo |-> Targets(subject),
                since |-> Targets(subject), told |-> {}, page |-> {}]]
  BY DEF EndSession
<1>2. PICK S : S = Targets(subject)
  OBVIOUS
<1>3. S \subseteq Clients
  BY <1>2 DEF Targets, TypeOK
<1>4. PICK sid : sid = SessionSid(b) /\ sid \in Nat
  BY SessionSids DEF TypeOK
<1>5. PICK l : l = [stage |-> "notify", sid |-> sid, todo |-> S, since |-> S, told |-> {}, page |-> {}]
  OBVIOUS
<1>6. l \in Logout /\ l.sid = sid /\ l.todo = S /\ l.since = S /\ l.stage = "notify"
  BY <1>3, <1>4, <1>5 DEF Logout
<1>7. Broadcast(l)
  BY <1>6 DEF Broadcast
<1> QED
  BY <1>1, <1>2, <1>4, <1>5, <1>6, <1>7

\* Notifying one client keeps the account of those told.
LEMMA Notifies ==
  ASSUME NEW l \in Logout, NEW c \in Clients, Broadcast(l), l.stage = "notify"
  PROVE  LET n == [l EXCEPT !.todo = @ \ {c}, !.told = @ \cup {<<c, l.sid>>}]
         IN n \in Logout /\ n.sid = l.sid /\ n.stage = "notify" /\ Broadcast(n)
<1> DEFINE n == [l EXCEPT !.todo = @ \ {c}, !.told = @ \cup {<<c, l.sid>>}]
<1>1. /\ n.todo = l.todo \ {c} /\ n.told = l.told \cup {<<c, l.sid>>} /\ n.sid = l.sid
      /\ n.since = l.since /\ n.stage = l.stage /\ n \in Logout
  <2>1. PICK A \in SUBSET Clients, T \in SUBSET (Clients \X Nat) :
          A = l.todo \ {c} /\ T = l.told \cup {<<c, l.sid>>}
    <3>1. l.told \subseteq Clients \X Nat /\ l.sid \in Nat /\ l.todo \subseteq Clients
      BY LogoutType
    <3>2. <<c, l.sid>> \in Clients \X Nat
      BY <3>1
    <3>3. l.told \cup {<<c, l.sid>>} \in SUBSET (Clients \X Nat) /\ l.todo \ {c} \in SUBSET Clients
      BY <3>1, <3>2, Zenon
    <3> QED
      BY <3>3, Zenon
  <2>2. n = [l EXCEPT !.todo = A, !.told = T]
    BY <2>1
  <2>3. n \in Logout /\ n.todo = A /\ n.told = T /\ n.sid = l.sid /\ n.since = l.since /\ n.stage = l.stage
    BY <2>2 DEF Logout
  <2> QED
    BY <2>1, <2>3
<1> HIDE DEF n
<1>2. Broadcast(n)
  BY <1>1 DEF Broadcast
<1> QED
  BY <1>1, <1>2 DEF n

\* The answer comes when nobody is left to tell.
LEMMA Answers ==
  ASSUME NEW l \in Logout, NEW P \in SUBSET (Clients \X Nat), Broadcast(l), l.todo = {}
  PROVE  LET n == [l EXCEPT !.stage = "answered", !.page = P]
         IN n \in Logout /\ n.sid = l.sid /\ Broadcast(n)
<1> DEFINE n == [l EXCEPT !.stage = "answered", !.page = P]
<1>1. /\ n.todo = l.todo /\ n.told = l.told /\ n.sid = l.sid
      /\ n.since = l.since /\ n \in Logout
  BY LogoutType DEF Logout
<1> HIDE DEF n
<1>2. Broadcast(n)
  BY <1>1 DEF Broadcast
<1> QED
  BY <1>1, <1>2 DEF n

\* A deactivated client need not be told.
LEMMA Deactivates ==
  ASSUME NEW l \in Logout, NEW c \in Clients, Broadcast(l)
  PROVE  LET n == [l EXCEPT !.since = @ \ {c}]
         IN n \in Logout /\ n.sid = l.sid /\ n.stage = l.stage /\ Broadcast(n)
<1> DEFINE n == [l EXCEPT !.since = @ \ {c}]
<1>1. /\ n.todo = l.todo /\ n.told = l.told /\ n.sid = l.sid
      /\ n.since = l.since \ {c} /\ n.stage = l.stage /\ n \in Logout
  BY LogoutType DEF Logout
<1> HIDE DEF n
<1>2. Broadcast(n)
  BY <1>1 DEF Broadcast
<1> QED
  BY <1>1, <1>2 DEF n

\* No logout is a logout that tells nobody.
LEMMA NoLogouts ==
  NoLogout \in Logout /\ NoLogout.sid = 0 /\ NoLogout.stage = "none" /\ Broadcast(NoLogout)
<1>1. NoLogout \in Logout /\ NoLogout.sid = 0 /\ NoLogout.stage = "none" /\ NoLogout.since = {}
  BY DEF NoLogout, Logout
<1> QED
  BY <1>1 DEF Broadcast

\* The frames of the page of the answer.
LEMMA Frames ==
  ASSUME TypeOK, NEW sid \in Nat PROVE FrontchannelUris(sid) \in SUBSET (Clients \X Nat)
BY DEF FrontchannelUris, TypeOK

-----------------------------------------------------------------------------
(* The sessions: keys, cookies and logouts *)

Key == [created : Nat, active : BOOLEAN]

SessionsOK ==
  /\ now \in Nat /\ logins \in Nat /\ keyset \subseteq Key
  /\ cookie \in [Browsers -> Cookie \cup {NoToken}] /\ clients \subseteq Clients
  /\ logout \in [Browsers -> Logout] /\ ended \subseteq 0 .. logins
  /\ KeyInv /\ SidInv /\ BroadcastInv

AccountsOK ==
  /\ users \in [Emails -> User \cup {NoUser}]
  /\ mails \subseteq Mail /\ IsFiniteSet(mails)
  /\ signup \in [Browsers -> Signup \cup {NoSignup}]
  /\ resets \subseteq Reset /\ past \in [Emails -> Seq(Passwords)]
  /\ UserInv /\ MailInv /\ ResetInv

\* The invariant is about the sessions and about the accounts;
LEMMA TwoParts == AccountInv <=> SessionsOK /\ AccountsOK
BY DEF AccountInv, SessionsOK, AccountsOK, TypeOK, Key

\* the same after a step.
LEMMA TwoPartsNext == ASSUME SessionsOK', AccountsOK' PROVE AccountInv'
BY DEF AccountInv, SessionsOK, AccountsOK, TypeOK, Key

\* Steps on the accounts leave the sessions sound,
LEMMA SessionsSame ==
  ASSUME SessionsOK, UNCHANGED <<now, session, clients, logout, ended>>
  PROVE  SessionsOK'
<1>1. /\ now' = now /\ keyset' = keyset /\ cookie' = cookie /\ logins' = logins /\ clients' = clients
      /\ logout' = logout /\ ended' = ended
  BY DEF session
<1>2. KeyInv' /\ SidInv' /\ BroadcastInv'
  BY <1>1 DEF SessionsOK, KeyInv, NewestOf, SidInv, Signed, BroadcastInv
<1> QED
  BY <1>1, <1>2 DEF SessionsOK

\* and steps on the sessions the accounts.
LEMMA AccountsSame ==
  ASSUME AccountsOK, UNCHANGED <<users, mails, signup, resets, past, raced, spent>>
  PROVE  AccountsOK'
<1>1. UserInv' /\ MailInv' /\ ResetInv'
  BY DEF AccountsOK, UserInv, MailInv, ResetInv, HistoryOf, NoneRepeated, PasswordInHistory
<1> QED
  BY <1>1 DEF AccountsOK

\* The broadcasts are sound when each one is.
LEMMA BroadcastMade ==
  ASSUME \A x \in Browsers : Broadcast(logout'[x])
  PROVE  BroadcastInv'
BY DEF BroadcastInv, Broadcast

\* One logout takes a step.
LEMMA OneLogout ==
  ASSUME AccountInv, UNCHANGED <<now, session, clients, ended>>,
         NEW b \in Browsers, NEW l \in Logout, Broadcast(l), l.sid \in 0 .. logins,
         logout' = [logout EXCEPT ![b] = l],
         l.stage # "none" => \/ logout[b].stage # "none" /\ l.sid = logout[b].sid
                             \/ l.sid = SessionSid(b)
  PROVE  SessionsOK'
<1>0. TypeOK /\ SidInv /\ BroadcastInv /\ KeyInv
  BY DEF AccountInv
<1>1. /\ now' = now /\ keyset' = keyset /\ cookie' = cookie /\ logins' = logins /\ clients' = clients
      /\ ended' = ended /\ logout \in [Browsers -> Logout]
  BY <1>0 DEF session, TypeOK
<1>2. logout' \in [Browsers -> Logout] /\ logout'[b] = l /\ \A x \in Browsers : x # b => logout'[x] = logout[x]
  BY <1>1
<1>3. BroadcastInv'
  BY <1>0, <1>2, LogoutOf, BroadcastMade
<1>4. \A x \in Browsers : logout'[x].sid \in 0 .. logins
  BY <1>0, <1>2, LogoutOf
<1>5. \A x \in Browsers : logout'[x].stage # "none" =>
        \/ logout[x].stage # "none" /\ logout'[x].sid = logout[x].sid
        \/ logout'[x].sid = SessionSid(x)
  BY <1>2
<1>6. \A x \in Browsers : cookie'[x] # NoToken => cookie[x].sid \notin ended'
  BY <1>0, <1>1 DEF SidInv
<1>7. SidInv'
  BY <1>0, <1>1, <1>4, <1>5, <1>6, SidsKept
<1>8. KeyInv'
  BY <1>0, <1>1 DEF KeyInv, NewestOf
<1> QED
  BY <1>0, <1>1, <1>2, <1>3, <1>7, <1>8 DEF SessionsOK, TypeOK, Key

\* /end_session up to the broadcast.
LEMMA EndSessionKeeps ==
  ASSUME AccountInv, NEW b \in Browsers, EndSession(b)
  PROVE  SessionsOK'
<1>0. TypeOK /\ SidInv
  BY DEF AccountInv
<1>1. PICK l \in Logout : logout' = [logout EXCEPT ![b] = l] /\ Broadcast(l) /\ l.sid = SessionSid(b)
  BY <1>0, EndSessions
<1>2. UNCHANGED <<now, session, clients, ended>>
  BY DEF EndSession, history
<1>3. l.sid \in 0 .. logins
  BY <1>0, <1>1, SessionSids
<1> QED
  BY <1>1, <1>2, <1>3, OneLogout

\* A back-channel notification, whether or not it arrives.
LEMMA NotifyKeeps ==
  ASSUME AccountInv, NEW b \in Browsers, NEW c \in Clients, Notify(b, c)
  PROVE  SessionsOK'
<1>1. PICK l : l = logout[b]
  OBVIOUS
<1>2. l \in Logout /\ Broadcast(l) /\ l.sid \in 0 .. logins /\ l.stage = "notify"
  BY <1>1, LogoutOf DEF AccountInv, Notify
<1>3. PICK n : n = [l EXCEPT !.todo = @ \ {c}, !.told = @ \cup {<<c, l.sid>>}]
  OBVIOUS
<1>4. logout' = [logout EXCEPT ![b] = n]
  BY <1>1, <1>3 DEF Notify, AccountInv, TypeOK
<1>5. n \in Logout /\ n.sid = l.sid /\ n.stage = "notify" /\ Broadcast(n)
  BY <1>2, <1>3, Notifies
<1>6. UNCHANGED <<now, session, clients, ended>>
  BY DEF Notify, history
<1> QED
  BY <1>1, <1>2, <1>4, <1>5, <1>6, OneLogout

\* The logout is over.
LEMMA EndSessionOverKeeps ==
  ASSUME AccountInv, NEW b \in Browsers, EndSessionOver(b)
  PROVE  SessionsOK'
<1>1. PICK n : n = NoLogout
  OBVIOUS
<1>2. logout' = [logout EXCEPT ![b] = n] /\ UNCHANGED <<now, session, clients, ended>>
  BY <1>1 DEF EndSessionOver, history
<1>3. n \in Logout /\ n.sid \in 0 .. logins /\ n.stage = "none" /\ Broadcast(n)
  BY <1>1, NoLogouts DEF AccountInv, TypeOK
<1> QED
  BY <1>2, <1>3, OneLogout

\* /end_session answers.
LEMMA EndSessionAnswerKeeps ==
  ASSUME AccountInv, NEW b \in Browsers, EndSessionAnswer(b)
  PROVE  SessionsOK'
<1>0. TypeOK /\ SidInv /\ BroadcastInv /\ KeyInv
  BY DEF AccountInv
<1>1. /\ now' = now /\ keyset' = keyset /\ logins' = logins /\ clients' = clients
      /\ cookie' = [cookie EXCEPT ![b] = NoToken] /\ ended' = ended \cup {logout[b].sid}
      /\ logout[b].stage = "notify" /\ logout[b].todo = {}
  BY DEF EndSessionAnswer
<1>2. logout \in [Browsers -> Logout] /\ cookie \in [Browsers -> Cookie \cup {NoToken}]
      /\ logins \in Nat /\ ended \subseteq 0 .. logins /\ now \in Nat /\ clients \subseteq Clients
      /\ keyset \subseteq Key
  BY <1>0 DEF TypeOK, Key
<1>3. PICK l : l = logout[b]
  OBVIOUS
<1>4. l \in Logout /\ Broadcast(l) /\ l.sid \in 0 .. logins /\ l.todo = {} /\ l.sid \in Nat
  BY <1>0, <1>1, <1>2, <1>3, LogoutOf
<1>5. PICK P \in SUBSET (Clients \X Nat) : P = FrontchannelUris(l.sid)
  BY <1>0, <1>4, Frames
<1>6. PICK n : n = [l EXCEPT !.stage = "answered", !.page = P]
  OBVIOUS
<1>7. n \in Logout /\ n.sid = l.sid /\ Broadcast(n)
  BY <1>4, <1>6, Answers
<1>8. logout' = [logout EXCEPT ![b] = n]
  BY <1>2, <1>3, <1>5, <1>6 DEF EndSessionAnswer
<1>9. logout' \in [Browsers -> Logout] /\ logout'[b] = n /\ \A x \in Browsers : x # b => logout'[x] = logout[x]
  BY <1>2, <1>7, <1>8
<1>10. BroadcastInv'
  BY <1>0, <1>7, <1>9, LogoutOf, BroadcastMade
<1>11. \A x \in Browsers : logout'[x].sid \in 0 .. logins
  BY <1>0, <1>4, <1>7, <1>9, LogoutOf
<1>12. \A x \in Browsers : logout'[x].stage # "none" =>
        \/ logout[x].stage # "none" /\ logout'[x].sid = logout[x].sid
        \/ logout'[x].sid = SessionSid(x)
  BY <1>1, <1>3, <1>7, <1>9
<1>13. cookie' \in [Browsers -> Cookie \cup {NoToken}] /\ cookie'[b] = NoToken
       /\ \A x \in Browsers : x # b => cookie'[x] = cookie[x]
  BY <1>1, <1>2
<1>14. \A x \in Browsers : cookie'[x] # NoToken => cookie[x].sid \notin ended'
  <2>1. SUFFICES ASSUME NEW x \in Browsers, cookie'[x] # NoToken PROVE cookie[x].sid \notin ended'
    OBVIOUS
  <2>2. x # b /\ cookie[x] # NoToken
    BY <1>13, <2>1
  <2>3. cookie[x].sid \notin ended
    BY <1>0, <2>2 DEF SidInv
  <2>4. logout[b].sid # cookie[x].sid
    BY <1>0, <1>1, <2>2 DEF SidInv
  <2> QED
    BY <1>1, <2>3, <2>4
<1>15. SidInv'
  BY <1>0, <1>1, <1>11, <1>12, <1>13, <1>14, SidsKept
<1>16. KeyInv'
  BY <1>0, <1>1 DEF KeyInv, NewestOf
<1>17. ended' \subseteq 0 .. logins'
  BY <1>1, <1>2, <1>3, <1>4
<1> QED
  BY <1>1, <1>2, <1>9, <1>10, <1>13, <1>15, <1>16, <1>17 DEF SessionsOK

\* An administrator deactivates a client.
LEMMA DeactivateKeeps ==
  ASSUME AccountInv, NEW c \in Clients, Deactivate(c)
  PROVE  SessionsOK'
<1>0. TypeOK /\ SidInv /\ BroadcastInv /\ KeyInv
  BY DEF AccountInv
<1>1. /\ now' = now /\ keyset' = keyset /\ logins' = logins /\ clients' = clients \ {c}
      /\ cookie' = cookie /\ ended' = ended
      /\ logout' = [x \in Browsers |-> [logout[x] EXCEPT !.since = @ \ {c}]]
  BY DEF Deactivate, session, history
<1>2. \A x \in Browsers : /\ logout'[x] \in Logout /\ logout'[x].sid = logout[x].sid
                          /\ logout'[x].stage = logout[x].stage /\ Broadcast(logout'[x])
  <2>1. SUFFICES ASSUME NEW x \in Browsers
                 PROVE  /\ logout'[x] \in Logout /\ logout'[x].sid = logout[x].sid
                        /\ logout'[x].stage = logout[x].stage /\ Broadcast(logout'[x])
    OBVIOUS
  <2>2. PICK l \in Logout : l = logout[x] /\ Broadcast(l)
    BY <1>0, LogoutOf
  <2>3. logout'[x] = [l EXCEPT !.since = @ \ {c}]
    BY <1>1, <2>2
  <2> QED
    BY <2>2, <2>3, Deactivates
<1>3. logout' \in [Browsers -> Logout]
  BY <1>1, <1>2
<1>4. BroadcastInv'
  BY <1>2, BroadcastMade
<1>5. \A x \in Browsers : logout'[x].sid \in 0 .. logins
  BY <1>0, <1>2, LogoutOf
<1>6. \A x \in Browsers : cookie'[x] # NoToken => cookie[x].sid \notin ended'
  BY <1>0, <1>1 DEF SidInv
<1>7. SidInv'
  BY <1>0, <1>1, <1>2, <1>5, <1>6, SidsKept
<1>8. KeyInv'
  BY <1>0, <1>1 DEF KeyInv, NewestOf
<1> QED
  BY <1>0, <1>1, <1>3, <1>4, <1>7, <1>8 DEF SessionsOK, TypeOK, Key

\* Time passes: keys age, and no session outlives its key.
LEMMA TickKeeps ==
  ASSUME LifetimeAssumption, AccountInv, Tick
  PROVE  SessionsOK'
<1>0. TypeOK /\ SidInv /\ BroadcastInv /\ KeyInv
  BY DEF AccountInv
<1>1. /\ now' = now + 1 /\ keyset' = keyset /\ logins' = logins /\ clients' = clients
      /\ cookie' = cookie /\ ended' = ended /\ logout' = logout
  BY DEF Tick, session, history, flows
<1>2. now \in Nat /\ keyset \subseteq Key
  BY <1>0 DEF TypeOK, Key
<1>3. \A k \in keyset : k.created \in Nat /\ k.created <= now
  BY <1>0, <1>2 DEF KeyInv, Key
<1>4. KeyInv'
  BY <1>0, <1>1, <1>2, <1>3 DEF KeyInv, NewestOf
<1>5. \A t \in Cookie : Signed(t) => Signed(t)'
  <2>1. SUFFICES ASSUME NEW t \in Cookie, Signed(t) PROVE Signed(t)'
    OBVIOUS
  <2>2. t.iat \in Nat /\ t.key \in Int
    BY DEF Cookie
  <2> QED
    BY <1>1, <1>2, <2>1, <2>2 DEF Signed, LifetimeAssumption
<1>6. SidInv'
  <2>1. \A b \in Browsers : cookie[b] # NoToken => Signed(cookie[b])'
    <3>1. SUFFICES ASSUME NEW b \in Browsers, cookie[b] # NoToken PROVE Signed(cookie[b])'
      OBVIOUS
    <3>2. PICK z \in Cookie : z = cookie[b] /\ Signed(z)
      BY <1>0, <3>1 DEF TypeOK, SidInv
    <3>3. Signed(z)' /\ cookie'[b] = z
      BY <1>1, <1>5, <3>2
    <3> QED
      BY <3>3 DEF Signed
  <2> QED
    BY <1>0, <1>1, <2>1 DEF SidInv
<1>7. BroadcastInv'
  BY <1>0, <1>1 DEF BroadcastInv
<1> QED
  BY <1>0, <1>1, <1>2, <1>4, <1>6, <1>7 DEF SessionsOK, TypeOK, Key

-----------------------------------------------------------------------------
(* Passwords: an account, its history and the passwords it has had *)

\* What the invariant says of one account u with the past p.
Fits(u, p) ==
  /\ u = NoUser => p = <<>>
  /\ u # NoUser => p # <<>> /\ u.hash = Len(p)
Clean(u, p) == NoneRepeated(p) /\ (u # NoUser => HistoryOf(u, p))

\* The depth of the history.
LEMMA Depth == ASSUME PolicyAssumption PROVE Policy.history_depth \in Nat
BY DEF PolicyAssumption, InRange, MaxHistory

\* A word put before a sequence.
LEMMA Pushed ==
  ASSUME NEW S, NEW w \in S, NEW p \in Seq(S)
  PROVE  LET q == <<w>> \o p
         IN /\ q \in Seq(S) /\ Len(q) = Len(p) + 1 /\ q # <<>>
            /\ q[1] = w /\ \A i \in 1 .. Len(p) : q[i + 1] = p[i]
OBVIOUS

\* The fields of an account.
LEMMA UserType ==
  ASSUME NEW u \in User
  PROVE  u.password \in Passwords /\ u.hash \in Nat /\ u.history \in Seq(Passwords)
BY DEF User

\* The history after a reset: the old password, then the older ones, cut at the depth.
LEMMA HistoryAfters ==
  ASSUME PolicyAssumption, NEW u \in User
  PROVE  /\ HistoryAfter(u) \in Seq(Passwords)
         /\ Len(HistoryAfter(u)) = IF Len(u.history) + 1 < Policy.history_depth
                                   THEN Len(u.history) + 1 ELSE Policy.history_depth
         /\ Len(HistoryAfter(u)) >= 1 => HistoryAfter(u)[1] = u.password
         /\ \A i \in 1 .. Len(HistoryAfter(u)) : i > 1 => HistoryAfter(u)[i] = u.history[i - 1]
<1> DEFINE d == Policy.history_depth
           q == <<u.password>> \o u.history
           n == IF Len(u.history) + 1 < d THEN Len(u.history) + 1 ELSE d
<1>1. u.password \in Passwords /\ u.history \in Seq(Passwords)
  BY UserType
<1>2. /\ q \in Seq(Passwords) /\ Len(q) = Len(u.history) + 1
      /\ q[1] = u.password /\ \A i \in 1 .. Len(u.history) : q[i + 1] = u.history[i]
  BY <1>1, Pushed
<1>3. d \in Nat
  BY Depth
<1>4. Len(u.history) \in Nat
  BY <1>1
<1>5. n \in Nat /\ n <= Len(q)
  BY <1>2, <1>3, <1>4
<1>6. HistoryAfter(u) = SubSeq(q, 1, n)
  BY DEF HistoryAfter
<1> HIDE DEF d, q, n
<1>7. /\ SubSeq(q, 1, n) \in Seq(Passwords) /\ Len(SubSeq(q, 1, n)) = n
      /\ \A i \in 1 .. n : SubSeq(q, 1, n)[i] = q[i]
  BY <1>2, <1>5
<1>8. \A i \in 1 .. n : i > 1 => q[i] = u.history[i - 1]
  BY <1>2, <1>4, <1>5
<1> QED
  BY <1>2, <1>5, <1>6, <1>7, <1>8 DEF n, d

\* A new account.
LEMMA NewAccount ==
  ASSUME PolicyAssumption, BlankAssumption, NEW e \in Emails, NEW w \in Passwords,
         past[e] \in Seq(Passwords), Len(past[e]) = 0
  PROVE  /\ Account(e, w) \in User /\ Account(e, w) # NoUser
         /\ Fits(Account(e, w), <<w>> \o past[e]) /\ Clean(Account(e, w), <<w>> \o past[e])
<1> DEFINE u == Account(e, w)
           d == Policy.history_depth
<1>1. NewHash(e) = 1
  BY DEF NewHash
<1>2. /\ u = [password |-> w, hash |-> 1, history |-> <<>>, is_active |-> TRUE, is_verified |-> FALSE]
  BY <1>1 DEF Account
<1>3. <<>> \in Seq(Passwords)
  OBVIOUS
<1> HIDE DEF u
<1>4. u \in User /\ u.password = w /\ u.hash = 1 /\ u.history = <<>>
  BY <1>2, <1>3 DEF User
<1>5. u # NoUser
  BY <1>4 DEF BlankAssumption
<1>6. PICK q \in Seq(Passwords) : q = <<w>> \o past[e] /\ Len(q) = 1 /\ q[1] = w /\ q # <<>>
  <2>2. PICK z \in Seq(Passwords) : z = past[e] /\ Len(z) = 0
    OBVIOUS
  <2>3. /\ <<w>> \o z \in Seq(Passwords) /\ Len(<<w>> \o z) = Len(z) + 1
        /\ <<w>> \o z # <<>> /\ (<<w>> \o z)[1] = w
    BY Pushed
  <2>4. PICK q : q = <<w>> \o z
    OBVIOUS
  <2>5. q \in Seq(Passwords) /\ Len(q) = 1 /\ q # <<>> /\ q[1] = w
    BY <2>2, <2>3, <2>4
  <2>6. q = <<w>> \o past[e]
    BY <2>2, <2>4
  <2> QED
    BY <2>5, <2>6
<1>7. Fits(u, q)
  BY <1>4, <1>5, <1>6 DEF Fits
<1>8. NoneRepeated(q)
  <2>1. d \in Nat
    BY Depth
  <2>2. DOMAIN q = {1}
    BY <1>6
  <2> QED
    BY <2>1, <2>2 DEF NoneRepeated
<1>9. HistoryOf(u, q)
  <2>1. d \in Nat
    BY Depth
  <2>2. Len(u.history) = 0
    BY <1>4
  <2>3. Len(u.history) = IF Len(q) <= d THEN Len(q) - 1 ELSE d
    BY <1>6, <2>1, <2>2
  <2>4. \A i \in 1 .. Len(u.history) : u.history[i] = q[i + 1]
    BY <2>2
  <2> QED
    BY <1>4, <1>6, <2>3, <2>4 DEF HistoryOf
<1> QED
  BY <1>4, <1>5, <1>6, <1>7, <1>8, <1>9 DEF u, Clean

\* What a reset leaves of an account that was not raced.
LEMMA ResetClean ==
  ASSUME PolicyAssumption, NEW u \in User, NEW p \in Seq(Passwords), p # <<>>, Clean(u, p), u # NoUser,
         NEW v \in User, v.password = u.password, v.history = u.history,
         NEW w \in Passwords, ~PasswordInHistory(v, w),
         NEW n \in User, n.password = w, n.history = HistoryAfter(v)
  PROVE  Clean(n, <<w>> \o p)
<1> DEFINE d == Policy.history_depth
           h == u.history
           k == HistoryAfter(v)
<1>0. h \in Seq(Passwords) /\ Len(h) \in Nat /\ Len(p) \in Nat /\ Len(p) >= 1
  BY UserType
<1>1. d \in Nat
  BY Depth
<1>2. /\ u.password = p[1] /\ Len(h) = (IF Len(p) <= d THEN Len(p) - 1 ELSE d)
      /\ \A i \in 1 .. Len(h) : h[i] = p[i + 1]
  BY DEF Clean, HistoryOf
<1>3. PICK q \in Seq(Passwords) : /\ q = <<w>> \o p /\ Len(q) = Len(p) + 1 /\ q[1] = w
                                  /\ \A i \in 1 .. Len(p) : q[i + 1] = p[i]
  <2>1. /\ <<w>> \o p \in Seq(Passwords) /\ Len(<<w>> \o p) = Len(p) + 1 /\ (<<w>> \o p)[1] = w
        /\ \A i \in 1 .. Len(p) : (<<w>> \o p)[i + 1] = p[i]
    BY Pushed
  <2> QED
    BY <2>1
<1>4. /\ k \in Seq(Passwords) /\ Len(k) = (IF Len(h) + 1 < d THEN Len(h) + 1 ELSE d)
      /\ Len(k) >= 1 => k[1] = p[1]
      /\ \A i \in 1 .. Len(k) : i > 1 => k[i] = h[i - 1]
  BY <1>2, HistoryAfters
<1> HIDE DEF d, h, k
<1>5. Len(k) = (IF Len(q) <= d THEN Len(q) - 1 ELSE d)
  BY <1>0, <1>1, <1>2, <1>3, <1>4
<1>6. \A i \in 1 .. Len(k) : k[i] = q[i + 1]
  <2>1. SUFFICES ASSUME NEW i \in 1 .. Len(k) PROVE k[i] = q[i + 1]
    OBVIOUS
  <2>2. Len(k) \in Nat /\ i \in 1 .. Len(p) /\ Len(k) <= Len(h) + 1
    BY <1>0, <1>1, <1>2, <1>4
  <2>3. q[i + 1] = p[i]
    BY <1>3, <2>2
  <2>4. CASE i = 1
    BY <1>4, <2>2, <2>3, <2>4
  <2>5. CASE i > 1
    <3>1. k[i] = h[i - 1]
      BY <1>4, <2>5
    <3>2. i - 1 \in 1 .. Len(h)
      BY <1>0, <2>2, <2>5
    <3>3. h[i - 1] = p[(i - 1) + 1] /\ (i - 1) + 1 = i
      BY <1>2, <3>2
    <3> QED
      BY <2>3, <3>1, <3>3
  <2> QED
    BY <2>2, <2>4, <2>5
<1>7. \A i \in 1 .. Len(h) : h[i] # w
  BY <1>0 DEF PasswordInHistory, h
<1>8. NoneRepeated(q)
  <2>1. SUFFICES ASSUME NEW i \in DOMAIN q, NEW j \in DOMAIN q, j \in i + 2 .. i + 1 + d
                 PROVE  q[i] # q[j]
    BY DEF NoneRepeated, d
  <2>2. i \in 1 .. Len(p) + 1 /\ j \in 1 .. Len(p) + 1 /\ j >= i + 2 /\ j <= i + 1 + d
    BY <1>0, <1>1, <1>3, <2>1
  <2>3. q[j] = p[j - 1]
    <3>1. j - 1 \in 1 .. Len(p) /\ (j - 1) + 1 = j
      BY <1>0, <2>2
    <3> QED
      BY <1>3, <3>1
  <2>4. CASE i = 1
    <3>1. j - 2 \in 1 .. Len(h)
      BY <1>0, <1>1, <1>2, <2>2, <2>4
    <3>2. h[j - 2] = p[(j - 2) + 1] /\ (j - 2) + 1 = j - 1
      <4>1. \A x \in 1 .. Len(h) : h[x] = p[x + 1]
        BY <1>2
      <4>2. h[j - 2] = p[(j - 2) + 1]
        BY <3>1, <4>1
      <4>3. (j - 2) + 1 = j - 1
        BY <2>2
      <4> QED
        BY <4>2, <4>3
    <3>3. h[j - 2] # w
      BY <1>7, <3>1
    <3> QED
      BY <1>3, <2>3, <2>4, <3>2, <3>3
  <2>5. CASE i > 1
    <3>1. i - 1 \in 1 .. Len(p) /\ (i - 1) + 1 = i /\ j - 1 \in 1 .. Len(p)
      BY <1>0, <2>2, <2>5
    <3>2. q[i] = p[i - 1]
      BY <1>3, <3>1
    <3>3. j - 1 \in (i - 1) + 2 .. (i - 1) + 1 + d
      BY <1>0, <1>1, <2>2
    <3>4. DOMAIN p = 1 .. Len(p)
      BY <1>0
    <3>5. p[i - 1] # p[j - 1]
      BY <3>1, <3>3, <3>4 DEF Clean, NoneRepeated, d
    <3> QED
      BY <2>3, <3>2, <3>5
  <2> QED
    BY <2>2, <2>4, <2>5
<1>9. HistoryOf(n, q)
  BY <1>3, <1>5, <1>6 DEF HistoryOf, d, k
<1> QED
  BY <1>3, <1>8, <1>9 DEF Clean

-----------------------------------------------------------------------------
(* Accounts, tokens sent by mail, and resets *)

\* What the invariant says of one account.
LEMMA UserOf ==
  ASSUME AccountsOK, NEW e \in Emails
  PROVE  /\ users[e] \in User \cup {NoUser} /\ past[e] \in Seq(Passwords)
         /\ Fits(users[e], past[e]) /\ (e \notin raced => Clean(users[e], past[e]))
BY DEF AccountsOK, UserInv, Fits, Clean

\* The accounts are sound when each one is.
LEMMA UsersMade ==
  ASSUME \A e \in Emails : Fits(users'[e], past'[e]) /\ (e \notin raced' => Clean(users'[e], past'[e]))
  PROVE  UserInv'
BY DEF UserInv, Fits, Clean, NoneRepeated, HistoryOf

\* The fields of a token sent by mail.
LEMMA MailType ==
  ASSUME NEW t \in Mail
  PROVE  t.sub \in Emails /\ t.hash \in Nat /\ t.exp \in Nat /\ t.id \in Nat
BY DEF Mail

\* The fields of a reset in progress.
LEMMA ResetType ==
  ASSUME NEW r \in Reset
  PROVE  r.token \in Mail /\ r.user \in User /\ r.password \in Passwords
BY DEF Reset

\* What the invariant says of a token that was sent.
LEMMA MailOf ==
  ASSUME AccountsOK, NEW t \in mails
  PROVE  /\ t \in Mail /\ t.sub \in Emails /\ t.hash \in Nat /\ t.id \in 1 .. Cardinality(mails)
         /\ \A x \in mails : x.id = t.id => x = t
         /\ users[t.sub] # NoUser /\ users[t.sub] \in User /\ users[t.sub].hash \in Nat
         /\ t.id \in DOMAIN spent /\ t.sub \notin raced => spent[t.id] <= 1 /\ t.hash < users[t.sub].hash
<1>1. t \in Mail /\ t.sub \in Emails /\ t.hash \in Nat
  BY MailType DEF AccountsOK
<1>2. /\ t.id \in 1 .. Cardinality(mails) /\ \A x \in mails : x.id = t.id => x = t
      /\ users[t.sub] # NoUser
      /\ t.id \in DOMAIN spent /\ t.sub \notin raced => spent[t.id] <= 1 /\ t.hash < users[t.sub].hash
  BY DEF AccountsOK, MailInv
<1>3. users[t.sub] \in User
  BY <1>1, <1>2 DEF AccountsOK
<1> QED
  BY <1>1, <1>2, <1>3, UserType

\* What it says of a reset that has read the user.
LEMMA ResetOf ==
  ASSUME AccountsOK, NEW r \in resets
  PROVE  /\ r \in Reset /\ r.token \in mails /\ r.user \in User /\ r.password \in Passwords
         /\ r.token.sub \in Emails
         /\ r.token.sub \notin raced =>
              LET e == r.token.sub
              IN /\ r.user.password = users[e].password /\ r.user.history = users[e].history
                 /\ r.token.hash = users[e].hash /\ ~PasswordInHistory(r.user, r.password)
                 /\ \A x \in resets : x.token.sub = e => x = r
<1>1. r \in Reset
  BY DEF AccountsOK
<1> QED
  BY <1>1, ResetType, MailType DEF AccountsOK, ResetInv

\* An account is made: the email had none, so no token and no reset is its.
LEMMA AccountMade ==
  ASSUME PolicyAssumption, BlankAssumption, AccountsOK, NEW e \in Emails, NEW w \in Passwords,
         users[e] = NoUser, users' = [users EXCEPT ![e] = Account(e, w)], Remember(e, w),
         UNCHANGED <<mails, resets, raced, spent>>,
         signup' \in [Browsers -> Signup \cup {NoSignup}]
  PROVE  AccountsOK'
<1>1. PICK u : u = Account(e, w)
  OBVIOUS
<1>2. PICK q : q = <<w>> \o past[e]
  OBVIOUS
<1>3. users \in [Emails -> User \cup {NoUser}] /\ past \in [Emails -> Seq(Passwords)]
  BY DEF AccountsOK
<1>4. past[e] \in Seq(Passwords) /\ Len(past[e]) = 0
  BY <1>3, UserOf DEF Fits
<1>5. u \in User /\ u # NoUser /\ Fits(u, q) /\ Clean(u, q)
  BY <1>1, <1>2, <1>4, NewAccount
<1>6. q \in Seq(Passwords)
  BY <1>2, <1>4, Pushed
<1>7. users' = [users EXCEPT ![e] = u] /\ past' = [past EXCEPT ![e] = q]
  BY <1>1, <1>2, <1>3 DEF Remember
<1>8. /\ users' \in [Emails -> User \cup {NoUser}] /\ past' \in [Emails -> Seq(Passwords)]
      /\ users'[e] = u /\ past'[e] = q
      /\ \A x \in Emails : x # e => users'[x] = users[x] /\ past'[x] = past[x]
  BY <1>3, <1>5, <1>6, <1>7
<1>9. UserInv'
  <2>1. \A x \in Emails : Fits(users'[x], past'[x]) /\ (x \notin raced' => Clean(users'[x], past'[x]))
    BY <1>5, <1>8, UserOf
  <2> QED
    BY <2>1, UsersMade
<1>10. \A t \in mails : t.sub \in Emails /\ t.sub # e
  BY MailOf
<1>11. MailInv'
  BY <1>8, <1>10 DEF AccountsOK, MailInv
<1>12. ResetInv'
  <2>1. \A r \in resets : r.token \in mails
    BY ResetOf
  <2> QED
    BY <1>8, <1>10, <2>1 DEF AccountsOK, ResetInv, PasswordInHistory
<1> QED
  BY <1>8, <1>9, <1>11, <1>12 DEF AccountsOK

\* A token goes out.
LEMMA MailSent ==
  ASSUME AccountsOK, NEW m \in Mail, m.id = Cardinality(mails) + 1, users[m.sub] # NoUser,
         mails' = mails \cup {m}, UNCHANGED <<users, signup, resets, past, raced, spent>>
  PROVE  AccountsOK'
<1>1. IsFiniteSet(mails) /\ mails \subseteq Mail /\ DOMAIN spent \subseteq 1 .. Cardinality(mails)
  BY DEF AccountsOK, MailInv
<1>2. PICK n \in Nat : n = Cardinality(mails)
  BY <1>1, FS_CardinalityType
<1>3. \A t \in mails : t.id \in 1 .. n
  BY <1>2, MailOf
<1>4. m \notin mails
  BY <1>2, <1>3
<1>5. IsFiniteSet(mails') /\ Cardinality(mails') = n + 1 /\ mails' \subseteq Mail
  BY <1>1, <1>2, <1>4, FS_AddElement
<1>6. DOMAIN spent \subseteq 1 .. n + 1 /\ m.id \notin DOMAIN spent
  BY <1>1, <1>2
<1>7. MailInv'
  <2>1. SUFFICES ASSUME NEW t \in mails'
        PROVE  /\ t.id \in 1 .. n + 1 /\ \A x \in mails' : x.id = t.id => x = t
               /\ users[t.sub] # NoUser
               /\ t.id \in DOMAIN spent /\ t.sub \notin raced => spent[t.id] <= 1 /\ t.hash < users[t.sub].hash
    BY <1>5, <1>6 DEF MailInv
  <2>2. CASE t = m
    BY <1>2, <1>3, <1>6, <2>2
  <2>3. CASE t \in mails
    <3>1. /\ t.id \in 1 .. n /\ \A x \in mails : x.id = t.id => x = t
          /\ users[t.sub] # NoUser
          /\ t.id \in DOMAIN spent /\ t.sub \notin raced => spent[t.id] <= 1 /\ t.hash < users[t.sub].hash
      BY <1>2, <2>3, MailOf
    <3>2. m.id # t.id
      BY <1>2, <3>1
    <3>3. t.id \in 1 .. n + 1
      BY <1>2, <3>1
    <3> QED
      BY <3>1, <3>2, <3>3
  <2> QED
    BY <2>1, <2>2, <2>3
<1>8. ResetInv'
  BY DEF AccountsOK, ResetInv, PasswordInHistory
<1>9. UserInv'
  BY UserOf, UsersMade
<1> QED
  BY <1>5, <1>7, <1>8, <1>9 DEF AccountsOK

\* A mail is verified: of the account only the flag changes.
LEMMA VerifyKeeps ==
  ASSUME BlankAssumption, AccountsOK, NEW t \in mails, Verify(t)
  PROVE  AccountsOK'
<1>1. PICK e \in Emails : e = t.sub
  BY MailOf
<1>2. PICK u \in User : u = users[e] /\ u # NoUser
  BY <1>1, MailOf
<1>3. PICK n : n = [u EXCEPT !.is_verified = TRUE]
  OBVIOUS
<1>4. n \in User /\ n.password = u.password /\ n.hash = u.hash /\ n.history = u.history
  BY <1>3 DEF User
<1>5. n # NoUser
  BY <1>4 DEF BlankAssumption
<1>6. users \in [Emails -> User \cup {NoUser}] /\ past \in [Emails -> Seq(Passwords)]
  BY DEF AccountsOK
<1>7. /\ users' = [users EXCEPT ![e] = n] /\ mails' = mails /\ signup' = signup /\ resets' = resets
      /\ past' = past /\ raced' = raced /\ spent' = spent
  BY <1>1, <1>2, <1>3, <1>6 DEF Verify, flows, history
<1>8. /\ users' \in [Emails -> User \cup {NoUser}] /\ users'[e] = n
      /\ \A x \in Emails : x # e => users'[x] = users[x]
  BY <1>4, <1>6, <1>7
<1>9. \A x \in Emails : /\ users'[x] # NoUser <=> users[x] # NoUser
                        /\ users[x] # NoUser =>
                             /\ users'[x].hash = users[x].hash /\ users'[x].password = users[x].password
                             /\ users'[x].history = users[x].history
  BY <1>2, <1>4, <1>5, <1>8
<1>10. UserInv'
  <2>1. \A x \in Emails : Fits(users'[x], past'[x])
    BY <1>7, <1>9, UserOf DEF Fits
  <2>2. \A x \in Emails : x \notin raced' => Clean(users'[x], past'[x])
    BY <1>7, <1>9, UserOf DEF Clean, HistoryOf
  <2> QED
    BY <2>1, <2>2, UsersMade
<1>11. MailInv'
  <2>1. \A x \in mails : x.sub \in Emails /\ users[x.sub] # NoUser
    BY MailOf
  <2> QED
    BY <1>7, <1>9, <2>1 DEF AccountsOK, MailInv
<1>12. ResetInv'
  <2>1. \A r \in resets : r.token.sub \in Emails /\ users[r.token.sub] # NoUser
    BY ResetOf, MailOf
  <2> QED
    BY <1>7, <1>9, <2>1 DEF AccountsOK, ResetInv, PasswordInHistory
<1> QED
  BY <1>7, <1>8, <1>10, <1>11, <1>12 DEF AccountsOK

\* A reset reads the user: another of the same account makes it a race.
LEMMA ResetReadKeeps ==
  ASSUME AccountsOK, NEW t \in mails, ResetRead(t)
  PROVE  AccountsOK'
<1>1. PICK e \in Emails, u \in User : e = t.sub /\ u = users[e] /\ t \in Mail
  BY MailOf
<1>2. PICK w \in Passwords : ~PasswordInHistory(u, w) /\ resets' = resets \cup {[token |-> t, user |-> u, password |-> w]}
  BY <1>1 DEF ResetRead
<1>3. PICK n : n = [token |-> t, user |-> u, password |-> w]
  OBVIOUS
<1>4. n \in Reset /\ n.token = t /\ n.user = u /\ n.password = w
  BY <1>1, <1>3 DEF Reset
<1>5. /\ resets' = resets \cup {n} /\ users' = users /\ mails' = mails /\ signup' = signup /\ past' = past
      /\ spent' = spent /\ t.hash = u.hash
      /\ raced' = IF \E r \in resets : r.token.sub = t.sub THEN raced \cup {t.sub} ELSE raced
  BY <1>1, <1>2, <1>3 DEF ResetRead, ResetMatches
<1>6. /\ \A x : x \notin raced' => x \notin raced
      /\ e \notin raced' => \A r \in resets : r.token.sub # e
  BY <1>1, <1>5
<1>7. UserInv'
  <2>1. \A x \in Emails : Fits(users'[x], past'[x]) /\ (x \notin raced' => Clean(users'[x], past'[x]))
    BY <1>5, <1>6, UserOf
  <2> QED
    BY <2>1, UsersMade
<1>8. MailInv'
  BY <1>5, <1>6 DEF AccountsOK, MailInv
<1>9. ResetInv'
  <2>1. SUFFICES ASSUME NEW r \in resets'
        PROVE  LET d == r.token.sub
               IN /\ r.token \in mails
                  /\ d \notin raced' =>
                       /\ r.user.password = users[d].password /\ r.user.history = users[d].history
                       /\ r.token.hash = users[d].hash /\ ~PasswordInHistory(r.user, r.password)
                       /\ \A x \in resets' : x.token.sub = d => x = r
    BY <1>5 DEF ResetInv, PasswordInHistory
  <2>2. CASE r = n
    BY <1>1, <1>2, <1>4, <1>5, <1>6, <2>2
  <2>3. CASE r \in resets
    <3>1. r.token \in mails
      BY <2>3, ResetOf
    <3>2. SUFFICES ASSUME r.token.sub \notin raced'
          PROVE  LET d == r.token.sub
                 IN /\ r.user.password = users[d].password /\ r.user.history = users[d].history
                    /\ r.token.hash = users[d].hash /\ ~PasswordInHistory(r.user, r.password)
                    /\ \A x \in resets' : x.token.sub = d => x = r
      BY <3>1
    <3>3. r.token.sub \notin raced /\ n.token.sub # r.token.sub
      BY <1>1, <1>4, <1>6, <2>3, <3>2
    <3> QED
      BY <1>5, <2>3, <3>3, ResetOf
  <2> QED
    BY <1>5, <2>1, <2>2, <2>3
<1> QED
  BY <1>4, <1>5, <1>7, <1>8, <1>9 DEF AccountsOK

\* A reset writes what it computed from the row it read: only a race breaks the
\* history.
LEMMA ResetWriteKeeps ==
  ASSUME PolicyAssumption, BlankAssumption, AccountsOK, NEW r \in resets, ResetWrite(r)
  PROVE  AccountsOK'
<1>1. PICK t \in mails, v \in User, w \in Passwords : t = r.token /\ v = r.user /\ w = r.password
  BY ResetOf
<1>2. PICK e \in Emails, u \in User : e = t.sub /\ u = users[e] /\ u # NoUser
  BY MailOf
<1>3. PICK p \in Seq(Passwords) : p = past[e]
  BY UserOf
<1>4. p # <<>> /\ u.hash = Len(p) /\ Len(p) \in Nat
  BY <1>2, <1>3, UserOf DEF Fits
<1>5. PICK n : n = [u EXCEPT !.password = w, !.hash = Len(p) + 1, !.history = HistoryAfter(v)]
  OBVIOUS
<1>6. n \in User /\ n.password = w /\ n.hash = Len(p) + 1 /\ n.history = HistoryAfter(v) /\ n # NoUser
  <2>1. PICK h \in Nat : h = Len(p) + 1
    BY <1>4
  <2>2. PICK k \in Seq(Passwords) : k = HistoryAfter(v)
    BY HistoryAfters
  <2>3. n = [u EXCEPT !.password = w, !.hash = h, !.history = k]
    BY <1>5, <2>1, <2>2
  <2>4. n \in User /\ n.password = w /\ n.hash = h /\ n.history = k
    BY <2>3 DEF User
  <2> QED
    BY <2>1, <2>2, <2>4 DEF BlankAssumption
<1>7. PICK q : q = <<w>> \o p
  OBVIOUS
<1>8. q \in Seq(Passwords) /\ Len(q) = Len(p) + 1 /\ q # <<>>
  BY <1>7, Pushed
<1>9. users \in [Emails -> User \cup {NoUser}] /\ past \in [Emails -> Seq(Passwords)]
  BY DEF AccountsOK
<1>10. NewHash(e) = Len(p) + 1
  BY <1>3, <1>4 DEF NewHash
<1>11. /\ users' = [users EXCEPT ![e] = n] /\ past' = [past EXCEPT ![e] = q] /\ mails' = mails
       /\ signup' = signup /\ raced' = raced /\ resets' = resets \ {r}
  BY <1>1, <1>2, <1>3, <1>5, <1>7, <1>9, <1>10 DEF ResetWrite, Remember
<1>12. /\ users' \in [Emails -> User \cup {NoUser}] /\ past' \in [Emails -> Seq(Passwords)]
       /\ users'[e] = n /\ past'[e] = q
       /\ \A x \in Emails : x # e => users'[x] = users[x] /\ past'[x] = past[x]
  BY <1>6, <1>8, <1>9, <1>11
<1>13. e \notin raced =>
         /\ v.password = u.password /\ v.history = u.history /\ t.hash = u.hash
         /\ ~PasswordInHistory(v, w) /\ \A x \in resets : x.token.sub = e => x = r
  BY <1>1, <1>2, ResetOf
<1>14. e \notin raced => Clean(n, q)
  <2>1. SUFFICES ASSUME e \notin raced PROVE Clean(n, q)
    OBVIOUS
  <2>2. Clean(u, p)
    BY <1>2, <1>3, <2>1, UserOf
  <2> QED
    BY <1>2, <1>4, <1>6, <1>7, <1>13, <2>1, <2>2, ResetClean
<1>15. UserInv'
  <2>1. Fits(n, q)
    BY <1>6, <1>8 DEF Fits
  <2>2. \A x \in Emails : Fits(users'[x], past'[x]) /\ (x \notin raced' => Clean(users'[x], past'[x]))
    BY <1>11, <1>12, <1>14, <2>1, UserOf
  <2> QED
    BY <2>2, UsersMade
<1>16. t.id \in 1 .. Cardinality(mails) /\ t.hash \in Nat /\ \A x \in mails : x.id = t.id => x = t
  BY MailOf
<1>17. spent' = [i \in DOMAIN spent \cup {t.id} |->
                   IF i \notin DOMAIN spent THEN 1 ELSE IF i = t.id THEN spent[i] + 1 ELSE spent[i]]
  BY <1>1 DEF ResetWrite
<1>18. DOMAIN spent' = DOMAIN spent \cup {t.id}
  BY <1>17
<1>19. DOMAIN spent' \subseteq 1 .. Cardinality(mails')
  BY <1>11, <1>16, <1>18 DEF AccountsOK, MailInv
<1>20. \A m \in mails : m.id \in DOMAIN spent' /\ m.sub \notin raced =>
         spent'[m.id] <= 1 /\ m.hash < users'[m.sub].hash
  <2>1. SUFFICES ASSUME NEW m \in mails, m.id \in DOMAIN spent', m.sub \notin raced
                 PROVE  spent'[m.id] <= 1 /\ m.hash < users'[m.sub].hash
    OBVIOUS
  <2>2. CASE m = t
    <3>1. t.hash = u.hash /\ e \notin raced
      BY <1>2, <1>13, <2>1, <2>2
    <3>2. t.id \notin DOMAIN spent
      BY <1>2, <1>4, <3>1, MailOf
    <3>3. spent'[t.id] = 1
      BY <1>17, <3>2
    <3>4. t.hash < n.hash
      BY <1>4, <1>6, <3>1
    <3> QED
      BY <1>2, <1>12, <2>2, <3>3, <3>4
  <2>3. CASE m # t
    <3>1. m.id # t.id
      BY <1>16, <2>3
    <3>2. m.id \in DOMAIN spent
      BY <1>18, <2>1, <3>1
    <3>3. spent'[m.id] = spent[m.id]
      BY <1>17, <3>1, <3>2
    <3>4. spent[m.id] <= 1 /\ m.hash < users[m.sub].hash /\ m.hash \in Nat /\ m.sub \in Emails
      BY <2>1, <3>2, MailOf
    <3>5. m.sub = e => m.hash < n.hash
      BY <1>2, <1>4, <1>6, <3>4
    <3>6. m.hash < users'[m.sub].hash
      BY <1>12, <3>4, <3>5
    <3> QED
      BY <3>3, <3>4, <3>6
  <2> QED
    BY <2>2, <2>3
<1>21. MailInv'
  <2>1. \A m \in mails : /\ m.id \in 1 .. Cardinality(mails) /\ \A x \in mails : x.id = m.id => x = m
                         /\ users'[m.sub] # NoUser
    BY <1>6, <1>12, MailOf
  <2> QED
    BY <1>11, <1>19, <1>20, <2>1 DEF MailInv
<1>22. ResetInv'
  <2>1. SUFFICES ASSUME NEW s \in resets, s # r
        PROVE  LET d == s.token.sub
               IN /\ s.token \in mails
                  /\ d \notin raced =>
                       /\ s.user.password = users'[d].password /\ s.user.history = users'[d].history
                       /\ s.token.hash = users'[d].hash /\ ~PasswordInHistory(s.user, s.password)
                       /\ \A x \in resets \ {r} : x.token.sub = d => x = s
    BY <1>11 DEF ResetInv, PasswordInHistory
  <2>2. s.token \in mails /\ s.token.sub \in Emails
    BY ResetOf
  <2>3. SUFFICES ASSUME s.token.sub \notin raced
        PROVE  LET d == s.token.sub
               IN /\ s.user.password = users'[d].password /\ s.user.history = users'[d].history
                  /\ s.token.hash = users'[d].hash /\ ~PasswordInHistory(s.user, s.password)
                  /\ \A x \in resets \ {r} : x.token.sub = d => x = s
    BY <2>2
  <2>4. s.token.sub # e
    BY <1>13, <2>1, <2>3
  <2>5. users'[s.token.sub] = users[s.token.sub]
    BY <1>12, <2>2, <2>4
  <2> QED
    BY <2>3, <2>5, ResetOf
<1> QED
  BY <1>11, <1>12, <1>15, <1>21, <1>22 DEF AccountsOK

-----------------------------------------------------------------------------
(* The steps *)

\* /signup, the check.
LEMMA SignUpCheckKeeps ==
  ASSUME AccountsOK, NEW b \in Browsers, SignUpCheck(b)
  PROVE  AccountsOK'
<1>1. PICK s \in Signup : signup' = [signup EXCEPT ![b] = s]
  <2>1. PICK e \in Emails, w \in Passwords, c \in Clients \cup {""} :
          signup' = [signup EXCEPT ![b] = [email |-> e, password |-> w, client |-> c]]
    BY DEF SignUpCheck
  <2>2. [email |-> e, password |-> w, client |-> c] \in Signup
    BY <2>1 DEF Signup
  <2> QED
    BY <2>1, <2>2
<1>4. signup' \in [Browsers -> Signup \cup {NoSignup}]
  BY <1>1 DEF AccountsOK
<1>5. UNCHANGED <<users, mails, resets, past, raced, spent>>
  BY DEF SignUpCheck, history
<1>6. UserInv' /\ MailInv' /\ ResetInv'
  BY <1>5 DEF AccountsOK, UserInv, MailInv, ResetInv, HistoryOf, NoneRepeated, PasswordInHistory
<1> QED
  BY <1>4, <1>5, <1>6 DEF AccountsOK

\* /signup, the account and the session.
LEMMA SignUpCreateKeeps ==
  ASSUME PolicyAssumption, BlankAssumption, LifetimeAssumption, AccountInv,
         NEW b \in Browsers, SignUpCreate(b)
  PROVE  AccountInv'
<1>0. SessionsOK /\ AccountsOK /\ TypeOK /\ KeyInv /\ SidInv
  BY TwoParts DEF AccountInv
<1>1. PICK s : s = signup[b]
  OBVIOUS
<1>2. s \in Signup
  BY <1>0, <1>1 DEF SignUpCreate, AccountsOK
<1>3. s.email \in Emails /\ s.password \in Passwords
  BY <1>2 DEF Signup
<1>4. signup' \in [Browsers -> Signup \cup {NoSignup}]
  BY <1>0 DEF SignUpCreate, AccountsOK
<1>5. UNCHANGED <<now, clients, mails, resets, logout, ended, spent, raced>>
  BY DEF SignUpCreate
<1>6. CASE users[s.email] # NoUser
  <2>1. UNCHANGED <<users, session, past>>
    BY <1>1, <1>6 DEF SignUpCreate
  <2>2. SessionsOK'
    BY <1>0, <1>5, <2>1, SessionsSame
  <2>3. UserInv' /\ MailInv' /\ ResetInv'
    BY <1>0, <1>5, <2>1 DEF AccountsOK, UserInv, MailInv, ResetInv, HistoryOf, NoneRepeated, PasswordInHistory
  <2>4. AccountsOK'
    BY <1>0, <1>4, <1>5, <2>1, <2>3 DEF AccountsOK
  <2> QED
    BY <2>2, <2>4, TwoPartsNext
<1>7. CASE users[s.email] = NoUser
  <2>1. /\ users' = [users EXCEPT ![s.email] = Account(s.email, s.password)]
        /\ OpenSession(b, s.email, s.client) /\ Remember(s.email, s.password)
    BY <1>1, <1>7 DEF SignUpCreate
  <2>2. AccountsOK'
    BY <1>0, <1>3, <1>4, <1>5, <1>7, <2>1, AccountMade
  <2>3. /\ KeyInv' /\ SidInv' /\ logins' \in Nat /\ ended' \subseteq 0 .. logins'
        /\ keyset' \subseteq Key /\ cookie' \in [Browsers -> Cookie \cup {NoToken}]
    BY <1>0, <1>3, <1>5, <2>1, SessionOpened DEF Key
  <2>4. BroadcastInv'
    BY <1>0, <1>5 DEF SessionsOK, BroadcastInv
  <2>5. SessionsOK'
    BY <1>0, <1>5, <2>3, <2>4 DEF SessionsOK
  <2> QED
    BY <2>2, <2>5, TwoPartsNext
<1> QED
  BY <1>6, <1>7

\* /login.
LEMMA LoginKeeps ==
  ASSUME LifetimeAssumption, AccountInv, NEW b \in Browsers, Login(b)
  PROVE  AccountInv'
<1>0. SessionsOK /\ AccountsOK /\ TypeOK /\ KeyInv /\ SidInv
  BY TwoParts DEF AccountInv
<1>1. PICK e, c : e \in Emails /\ OpenSession(b, e, c)
  BY DEF Login
<1>2. UNCHANGED <<now, users, clients, mails, signup, resets, logout, ended, spent, past, raced>>
  BY DEF Login, flows, history
<1>3. /\ KeyInv' /\ SidInv' /\ logins' \in Nat /\ ended' \subseteq 0 .. logins'
      /\ keyset' \subseteq Key /\ cookie' \in [Browsers -> Cookie \cup {NoToken}]
  BY <1>0, <1>1, <1>2, SessionOpened DEF Key
<1>4. BroadcastInv'
  BY <1>0, <1>2 DEF SessionsOK, BroadcastInv
<1>5. SessionsOK'
  BY <1>0, <1>2, <1>3, <1>4 DEF SessionsOK
<1>6. AccountsOK'
  BY <1>0, <1>2, AccountsSame
<1> QED
  BY <1>5, <1>6, TwoPartsNext

\* /auth/register.
LEMMA RegisterKeeps ==
  ASSUME PolicyAssumption, BlankAssumption, AccountsOK, Register
  PROVE  AccountsOK'
<1>1. PICK e \in Emails, w \in Passwords :
        users[e] = NoUser /\ users' = [users EXCEPT ![e] = Account(e, w)] /\ Remember(e, w)
  BY DEF Register
<1>2. UNCHANGED <<mails, resets, raced, spent>> /\ signup' = signup
  BY DEF Register, flows
<1>3. signup' \in [Browsers -> Signup \cup {NoSignup}]
  BY <1>2 DEF AccountsOK
<1> QED
  BY <1>1, <1>2, <1>3, AccountMade

\* /auth/forgot-password.
LEMMA ForgotPasswordKeeps ==
  ASSUME LifetimeAssumption, AccountInv, NEW e \in Emails, ForgotPassword(e)
  PROVE  AccountsOK'
<1>0. AccountsOK /\ now \in Nat /\ users[e] # NoUser /\ users[e] \in User /\ IsFiniteSet(mails)
  BY TwoParts DEF SessionsOK, AccountsOK, ForgotPassword
<1>1. PICK n \in Nat, x \in Nat, h \in Nat : n = Cardinality(mails) + 1 /\ x = now + TokenLifetime /\ h = users[e].hash
  <2>1. users[e].hash \in Nat
    BY <1>0, UserType
  <2>2. Cardinality(mails) + 1 \in Nat /\ now + TokenLifetime \in Nat
    BY <1>0, FS_CardinalityType DEF LifetimeAssumption
  <2> QED
    BY <2>1, <2>2
<1>2. PICK m : m = [kind |-> "reset", sub |-> e, hash |-> h, exp |-> x, id |-> n]
  OBVIOUS
<1>3. m \in Mail /\ m.id = n /\ m.sub = e
  BY <1>1, <1>2 DEF Mail
<1>4. mails' = mails \cup {m} /\ UNCHANGED <<users, signup, resets, past, raced, spent>>
  BY <1>1, <1>2 DEF ForgotPassword, flows, history
<1> QED
  BY <1>0, <1>1, <1>3, <1>4, MailSent

\* /auth/request-verify-token.
LEMMA RequestVerifyKeeps ==
  ASSUME LifetimeAssumption, AccountInv, NEW e \in Emails, RequestVerify(e)
  PROVE  AccountsOK'
<1>0. AccountsOK /\ now \in Nat /\ users[e] # NoUser /\ IsFiniteSet(mails)
  BY TwoParts DEF SessionsOK, AccountsOK, RequestVerify
<1>1. PICK n \in Nat, x \in Nat : n = Cardinality(mails) + 1 /\ x = now + TokenLifetime
  BY <1>0, FS_CardinalityType DEF LifetimeAssumption
<1>2. PICK m : m = [kind |-> "verify", sub |-> e, hash |-> 0, exp |-> x, id |-> n]
  OBVIOUS
<1>3. m \in Mail /\ m.id = n /\ m.sub = e
  BY <1>1, <1>2 DEF Mail
<1>4. mails' = mails \cup {m} /\ UNCHANGED <<users, signup, resets, past, raced, spent>>
  BY <1>1, <1>2 DEF RequestVerify, flows, history
<1> QED
  BY <1>0, <1>1, <1>3, <1>4, MailSent

\* The initial states satisfy the invariant.
LEMMA AccountInit ==
  ASSUME LifetimeAssumption, Init PROVE AccountInv
<1>1. NoLogout \in Logout /\ NoLogout.sid = 0 /\ NoLogout.stage = "none" /\ Broadcast(NoLogout)
  BY NoLogouts
<1>2. SessionsOK
  <2>1. KeyInv /\ keyset \subseteq Key
    BY DEF Init, KeyInv
  <2>2. SidInv
    BY <1>1 DEF Init, SidInv
  <2>3. BroadcastInv
    BY <1>1 DEF Init, BroadcastInv, Broadcast
  <2>4. /\ now \in Nat /\ logins \in Nat /\ cookie \in [Browsers -> Cookie \cup {NoToken}]
        /\ clients \subseteq Clients /\ logout \in [Browsers -> Logout] /\ ended \subseteq 0 .. logins
    BY <1>1 DEF Init
  <2> QED
    BY <2>1, <2>2, <2>3, <2>4 DEF SessionsOK
<1>3. AccountsOK
  <2>1. UserInv
    <3>1. \A e \in Emails : users[e] = NoUser /\ past[e] = <<>>
      BY DEF Init
    <3> QED
      BY <3>1 DEF UserInv, NoneRepeated
  <2>2. mails = {} /\ resets = {} /\ DOMAIN spent = {}
    BY DEF Init
  <2>3. MailInv /\ ResetInv
    BY <2>2 DEF MailInv, ResetInv
  <2>4. IsFiniteSet(mails)
    BY <2>2, FS_EmptySet
  <2>5. /\ users \in [Emails -> User \cup {NoUser}] /\ signup \in [Browsers -> Signup \cup {NoSignup}]
        /\ past \in [Emails -> Seq(Passwords)]
    BY DEF Init
  <2> QED
    BY <2>1, <2>2, <2>3, <2>4, <2>5 DEF AccountsOK
<1> QED
  BY <1>2, <1>3, TwoParts

\* Every step keeps the invariant.
LEMMA AccountStep ==
  ASSUME PolicyAssumption, BlankAssumption, LifetimeAssumption, AccountInv, [Next]_vars
  PROVE  AccountInv'
<1>0. SessionsOK /\ AccountsOK
  BY TwoParts
<1>1. ASSUME NEW b \in Browsers, SignUpCheck(b) PROVE AccountInv'
  <2>1. UNCHANGED <<now, session, clients, logout, ended>>
    BY <1>1 DEF SignUpCheck, history
  <2> QED
    BY <1>0, <1>1, <2>1, TwoPartsNext, SessionsSame, SignUpCheckKeeps
<1>2. ASSUME NEW b \in Browsers, SignUpCreate(b) PROVE AccountInv'
  BY <1>2, SignUpCreateKeeps
<1>3. ASSUME NEW b \in Browsers, Login(b) PROVE AccountInv'
  BY <1>3, LoginKeeps
<1>4. ASSUME NEW b \in Browsers, Watch(b) PROVE AccountInv'
  <2>1. UNCHANGED <<now, session, clients, logout, ended>>
    BY <1>4 DEF Watch, history, flows
  <2>2. UNCHANGED <<users, mails, signup, resets, past, raced, spent>>
    BY <1>4 DEF Watch, history, flows
  <2> QED
    BY <1>0, <2>1, <2>2, TwoPartsNext, SessionsSame, AccountsSame
<1>5. ASSUME NEW b \in Browsers, EndSession(b) PROVE AccountInv'
  <2>1. UNCHANGED <<users, mails, signup, resets, past, raced, spent>>
    BY <1>5 DEF EndSession, history
  <2> QED
    BY <1>0, <1>5, <2>1, EndSessionKeeps, AccountsSame, TwoPartsNext
<1>6. ASSUME NEW b \in Browsers, EndSessionAnswer(b) PROVE AccountInv'
  <2>1. UNCHANGED <<users, mails, signup, resets, past, raced, spent>>
    BY <1>6 DEF EndSessionAnswer
  <2> QED
    BY <1>0, <1>6, <2>1, EndSessionAnswerKeeps, AccountsSame, TwoPartsNext
<1>7. ASSUME NEW b \in Browsers, EndSessionOver(b) PROVE AccountInv'
  <2>1. UNCHANGED <<users, mails, signup, resets, past, raced, spent>>
    BY <1>7 DEF EndSessionOver, history
  <2> QED
    BY <1>0, <1>7, <2>1, EndSessionOverKeeps, AccountsSame, TwoPartsNext
<1>8. ASSUME NEW b \in Browsers, NEW c \in Clients, Notify(b, c) PROVE AccountInv'
  <2>1. UNCHANGED <<users, mails, signup, resets, past, raced, spent>>
    BY <1>8 DEF Notify, history
  <2> QED
    BY <1>0, <1>8, <2>1, NotifyKeeps, AccountsSame, TwoPartsNext
<1>9. CASE Register
  <2>1. UNCHANGED <<now, session, clients, logout, ended>>
    BY <1>9 DEF Register, flows
  <2> QED
    BY <1>0, <1>9, <2>1, TwoPartsNext, SessionsSame, RegisterKeeps
<1>10. ASSUME NEW e \in Emails, ForgotPassword(e) PROVE AccountInv'
  <2>1. UNCHANGED <<now, session, clients, logout, ended>>
    BY <1>10 DEF ForgotPassword, flows, history
  <2> QED
    BY <1>0, <1>10, <2>1, TwoPartsNext, SessionsSame, ForgotPasswordKeeps
<1>11. ASSUME NEW e \in Emails, RequestVerify(e) PROVE AccountInv'
  <2>1. UNCHANGED <<now, session, clients, logout, ended>>
    BY <1>11 DEF RequestVerify, flows, history
  <2> QED
    BY <1>0, <1>11, <2>1, TwoPartsNext, SessionsSame, RequestVerifyKeeps
<1>12. ASSUME NEW t \in mails, Verify(t) PROVE AccountInv'
  <2>1. UNCHANGED <<now, session, clients, logout, ended>>
    BY <1>12 DEF Verify, flows, history
  <2> QED
    BY <1>0, <1>12, <2>1, TwoPartsNext, SessionsSame, VerifyKeeps
<1>13. ASSUME NEW t \in mails, ResetRead(t) PROVE AccountInv'
  <2>1. UNCHANGED <<now, session, clients, logout, ended>>
    BY <1>13 DEF ResetRead
  <2> QED
    BY <1>0, <1>13, <2>1, TwoPartsNext, SessionsSame, ResetReadKeeps
<1>14. ASSUME NEW r \in resets, ResetWrite(r) PROVE AccountInv'
  <2>1. UNCHANGED <<now, session, clients, logout, ended>>
    BY <1>14 DEF ResetWrite
  <2> QED
    BY <1>0, <1>14, <2>1, TwoPartsNext, SessionsSame, ResetWriteKeeps
<1>15. ASSUME NEW c \in Clients, Deactivate(c) PROVE AccountInv'
  <2>1. UNCHANGED <<users, mails, signup, resets, past, raced, spent>>
    BY <1>15 DEF Deactivate, history
  <2> QED
    BY <1>0, <1>15, <2>1, DeactivateKeeps, AccountsSame, TwoPartsNext
<1>16. CASE Tick
  <2>1. UNCHANGED <<users, mails, signup, resets, past, raced, spent>>
    BY <1>16 DEF Tick, history, flows
  <2> QED
    BY <1>0, <1>16, <2>1, TickKeeps, AccountsSame, TwoPartsNext
<1>17. CASE UNCHANGED vars
  <2>1. UNCHANGED <<now, session, clients, logout, ended>>
    BY <1>17 DEF vars, session
  <2>2. UNCHANGED <<users, mails, signup, resets, past, raced, spent>>
    BY <1>17 DEF vars
  <2> QED
    BY <1>0, <2>1, <2>2, TwoPartsNext, SessionsSame, AccountsSame
<1> QED
  BY <1>1, <1>2, <1>3, <1>4, <1>5, <1>6, <1>7, <1>8, <1>9, <1>10, <1>11, <1>12, <1>13, <1>14, <1>15,
     <1>16, <1>17 DEF Next

\* The parts of the invariant, for the theorems.
LEMMA SessionsFollow ==
  ASSUME LifetimeAssumption, AccountInv PROVE SessionsSurvive
<1>1. SUFFICES ASSUME NEW b \in Browsers, cookie[b] # NoToken, cookie[b].exp - cookie[b].iat <= GraceAge,
                      now < cookie[b].exp
               PROVE  Readable(cookie[b])
  BY DEF SessionsSurvive
<1>2. PICK t \in Cookie : t = cookie[b] /\ Signed(t)
  BY <1>1 DEF AccountInv, TypeOK, SidInv
<1>3. t.iat \in Nat /\ t.exp \in Nat /\ t.key \in Int /\ now \in Nat
  BY DEF Cookie, AccountInv, TypeOK
<1>4. ~(t.key <= now - RotationAge - GraceAge)
  BY <1>1, <1>2, <1>3 DEF Signed, LifetimeAssumption
<1> QED
  BY <1>1, <1>2, <1>4 DEF Signed, Readable

\* A spent token has another hash than the account, and so is refused.
LEMMA ResetsFollow ==
  ASSUME AccountInv PROVE ResetsSoundUnlessRaced
BY TwoParts, MailOf, UserOf DEF ResetsSoundUnlessRaced, Clean, NoneRepeated

\* A session that can be read has a sid that did not end.
LEMMA LogoutFollows ==
  ASSUME AccountInv PROVE LogoutReaches
<1>1. TypeOK /\ SidInv /\ BroadcastInv
  BY DEF AccountInv
<1>2. ASSUME NEW b \in Browsers, logout[b].stage = "answered"
      PROVE  logout[b].since \X {logout[b].sid} \subseteq logout[b].told
  BY <1>1, <1>2 DEF BroadcastInv
<1>3. ASSUME NEW b \in Browsers, CheckSession(b) = "ok"
      PROVE  watched[b].sid \notin ended
  <2>1. SessionSid(b) # 0 /\ watched[b].sid = SessionSid(b)
    BY <1>3 DEF CheckSession, VerifySessionState
  <2>2. cookie[b] # NoToken /\ SessionSid(b) = cookie[b].sid
    BY <1>1, <2>1, SessionSids
  <2> QED
    BY <1>1, <2>1, <2>2 DEF SidInv
<1> QED
  BY <1>2, <1>3 DEF LogoutReaches

-----------------------------------------------------------------------------
(* The theorems *)

\* The invariant holds throughout.
LEMMA AccountAlways ==
  Spec => []AccountInv
<1>1. Init => AccountInv
  BY AccountInit, LifetimeAssumption
<1>2. AccountInv /\ [Next]_vars => AccountInv'
  BY AccountStep, PolicyAssumption, BlankAssumption, LifetimeAssumption
<1> QED
  BY <1>1, <1>2, PTL DEF Spec

\* A cookie whose lifetime is within the grace period is readable until it
\* expires: RotatingTokenSigner signs with a key that is younger than the
\* rotation age, and deletes it only after the grace period.
THEOREM SessionsReadable == Spec => []SessionsSurvive
<1>1. AccountInv => SessionsSurvive
  BY SessionsFollow, LifetimeAssumption
<1> QED
  BY <1>1, AccountAlways, PTL

\* Where no two resets of an account overlap, a token changes its password once
\* at most, and no reset brings back one of the last history_depth passwords:
\* the hash in the token and the history of the row are those of the write.
THEOREM ResetsSound == Spec => []ResetsSoundUnlessRaced
<1>1. AccountInv => ResetsSoundUnlessRaced
  BY ResetsFollow
<1> QED
  BY <1>1, AccountAlways, PTL

\* /end_session answers when every client with a back-channel URI was sent the
\* sid, and a session that was ended is never again reported as going on, for
\* any number of browsers, clients and logins, whatever the interleaving.
THEOREM LogoutTells == Spec => []LogoutReaches
<1>1. AccountInv => LogoutReaches
  BY LogoutFollows
<1> QED
  BY <1>1, AccountAlways, PTL
=============================================================================
