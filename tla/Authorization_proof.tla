-------------------------- MODULE Authorization_proof --------------------------
(* Proofs about Authorization and, in the second half, AuthorizeRequests, for *)
(* every value of their constants.                                            *)
EXTENDS Authorization, TLAPS

USE DemandAssumption, BlankAssumption, ClientAssumption, TimeAssumption

--------------------------------------------------------------------------------
(* Data.                                                                    *)

\* A URL is a demand, or a reference that determines it.
LEMMA UrlType ==
  /\ \A u \in Urls : \/ u.ref = NoRef /\ u.demand \in Demand
                     \/ u.ref \in Refs /\ u.demand = NoDemand
  /\ \A u, v \in Urls : u.ref = v.ref /\ u.ref \in Refs => u = v
  /\ Elsewhere \notin Urls /\ Elsewhere.ref = NoRef /\ Elsewhere \in Fingerprints
  /\ Urls \subseteq Fingerprints /\ NoRef \notin Refs
BY DEF Urls, Elsewhere, Fingerprints, Demands

\* A browser that has not been anywhere, and one that is done.
LEMMA BlankType ==
  /\ Blank \in Page /\ Blank.at = "none" /\ Blank.next = "authorize"
  /\ [Blank EXCEPT !.at = "done"] \in Page /\ [Blank EXCEPT !.at = "done"].at = "done"
  /\ [Blank EXCEPT !.at = "done"].next = "authorize"
<1>1. Blank \in Page /\ Blank.at = "none" /\ Blank.next = "authorize"
  BY UrlType DEF Blank, Page, Pages
<1> QED
  BY <1>1 DEF Page, Pages

\* A free slot is a call.
LEMMA IdleType == Idle \in Call /\ Idle.pc = "idle"
<1>1. PICK b \in Browsers : b = CHOOSE o \in Browsers : TRUE
  OBVIOUS
<1>2. Elsewhere \in Fingerprints /\ "idle" \in Steps /\ "none" \in Pages /\ 0 \in 0 .. MaxTime
  BY UrlType DEF Steps, Pages
<1> QED
  BY <1>1, <1>2 DEF Idle, Call

\* Where a browser stands, and that it may move on from there.
LEMMA PageType ==
  ASSUME NEW p \in Page
  PROVE  /\ p.at \in Pages /\ p.next \in {"authorize", "consent"} /\ p.url \in Fingerprints
         /\ p.demand \in Demand \cup {NoDemand}
         /\ \A place \in Pages : /\ [p EXCEPT !.at = place] \in Page
                                 /\ [p EXCEPT !.at = place].at = place
                                 /\ [p EXCEPT !.at = place].next = p.next
                                 /\ [p EXCEPT !.at = place].url = p.url
                                 /\ [p EXCEPT !.at = place].demand = p.demand
BY DEF Page

\* What the handlers make of a demand is a demand of the same client, for the same
\* scopes and key, and for no more resources.
Handled(d, e) ==
  /\ e \in Demand /\ e.client = d.client /\ e.scopes = d.scopes
  /\ e.dpop_jkt = d.dpop_jkt /\ e.resource \subseteq d.resource

\* What the pages and the gate leave out of a demand.
LEMMA HandledDemand ==
  ASSUME NEW d \in Demand
  PROVE  /\ Handled(d, d) /\ Handled(d, [d EXCEPT !.prompt = {}])
         /\ Handled(d, [d EXCEPT !.resource = {}]) /\ Handled(d, ConsentParams(d))
<1>1. Handled(d, d) /\ Handled(d, [d EXCEPT !.prompt = {}])
  BY DEF Handled, Demand
<1>2. Handled(d, [d EXCEPT !.resource = {}])
  BY DEF Handled, Demand
<1>3. -1 \in -1 .. MaxTime
  OBVIOUS
<1>4. Handled(d, ConsentParams(d))
  BY <1>3 DEF Handled, ConsentParams, Demand
<1> QED
  BY <1>1, <1>2, <1>4

\* A demand bound to a DPoP key.
LEMMA BoundType ==
  ASSUME NEW d \in Demand, NEW proof \in Keys \cup {NoKey}
  PROVE  Bound(d, proof) \in Demand
BY DEF Bound, Demand

\* An absent row has no demand.
LEMMA RowType ==
  ASSUME NEW p \in PushedAuthorization
  PROVE  /\ p # Absent /\ p.demand \in Demand
         /\ [p EXCEPT !.is_consumed = TRUE] \in PushedAuthorization
         /\ [p EXCEPT !.is_consumed = TRUE].demand = p.demand
         /\ [p EXCEPT !.is_consumed = TRUE].is_consumed = TRUE
<1>1. p.demand \in Demand
  BY DEF PushedAuthorization
<1>2. Absent.demand = NoDemand
  BY DEF Absent
<1>3. [p EXCEPT !.is_consumed = TRUE] \in PushedAuthorization
  BY DEF PushedAuthorization
<1>4. /\ [p EXCEPT !.is_consumed = TRUE].demand = p.demand
      /\ [p EXCEPT !.is_consumed = TRUE].is_consumed = TRUE
  BY DEF PushedAuthorization
<1> QED
  BY <1>1, <1>2, <1>3, <1>4

--------------------------------------------------------------------------------
(* What no step takes back.                                                 *)

\* A pushed demand, a first visit and an acceptance stay what they are.
Grows ==
  /\ \A r \in Refs : asked[r] # NoDemand => asked'[r] = asked[r]
  /\ \A b \in Browsers, u \in Urls : firstVisit[b][u] # 0 => firstVisit'[b][u] = firstVisit[b][u]
  /\ \A u \in Users, c \in Clients : approved[u][c] \subseteq approved'[u][c]

\* The demand under a URL remains,
LEMMA OriginalKept ==
  ASSUME Grows, NEW u \in Urls, Original(u) \in Demand
  PROVE  Original(u)' = Original(u)
BY UrlType DEF Grows, Original

\* what a page or a call carries is still that demand,
LEMMA CarriesKept ==
  ASSUME Grows, NEW d, NEW u, Carries(d, u)
  PROVE  Carries(d, u)' /\ Original(u)' = Original(u)
<1>1. u \in Urls /\ Original(u) \in Demand
  BY DEF Carries
<1>2. Original(u)' = Original(u)
  BY <1>1, OriginalKept
<1> QED
  BY <1>2 DEF Carries

\* so that a page,
LEMMA PageKept ==
  ASSUME Grows, NEW b \in Browsers, NEW p, PageSound(b, p)
  PROVE  PageSound(b, p)'
<1>1. Consenting(p) => Carries(p.demand, p.url)'
  BY CarriesKept DEF PageSound
<1>2. p.at \notin {"none", "done"} => p.url \in Urls /\ firstVisit'[b][p.url] # 0
  BY DEF PageSound, Grows
<1> QED
  BY <1>1, <1>2 DEF PageSound

\* a session
LEMMA SessionKept ==
  ASSUME Grows, NEW b \in Browsers, NEW s \in Sessions, SessionSound(b, s)
  PROVE  SessionSound(b, s)'
<1>1. s.reauth \in Urls \cup {Elsewhere}
  BY DEF Sessions, Anonymous, Fingerprints
<1> QED
  BY <1>1 DEF SessionSound, Grows

\* and a call that the step leaves alone remain sound.
LEMMA CallKept ==
  ASSUME Grows, NEW c \in Call, CallSound(c)
  PROVE  CallSound(c)'
<1> SUFFICES ASSUME Working(c) PROVE CallSound(c)'
  BY DEF CallSound
<1>1. /\ Carries(c.demand, c.url) /\ firstVisit[c.browser][c.url] # 0
      /\ c.auth_time # 0 => LoginFresh(c)
      /\ c.from \in {"authorize", "consent", "form"}
      /\ c.from = "consent" => ConsentRule(c.demand) # "form"
      /\ Accepted(c)
  BY DEF CallSound
<1>2. Carries(c.demand, c.url)' /\ Original(c.url)' = Original(c.url)
  BY <1>1, CarriesKept
<1>3. c.url \in Urls /\ c.demand.client \in Clients /\ c.browser \in Browsers
  BY <1>1 DEF Carries, Demand, Call
<1>4. firstVisit'[c.browser][c.url] = firstVisit[c.browser][c.url]
  BY <1>1, <1>3 DEF Grows
<1>5. c.auth_time # 0 => LoginFresh(c)'
  BY <1>1, <1>2, <1>4 DEF LoginFresh
<1>6. Accepted(c)'
  BY <1>1, <1>3 DEF Accepted, Grows
<1> QED
  BY <1>1, <1>2, <1>4, <1>5, <1>6 DEF CallSound

\* The same, said of the slots of the next state.
LEMMA PageSlot ==
  ASSUME NEW b, NEW p, page'[b] = p, PageSound(b, p)'
  PROVE  PageSound(b, page[b])'
BY DEF PageSound, Consenting, Carries, Original

\* of a session,
LEMMA SessionSlot ==
  ASSUME NEW b, NEW s, session'[b] = s, SessionSound(b, s)'
  PROVE  SessionSound(b, session[b])'
BY DEF SessionSound

\* and of a call.
LEMMA CallSlot ==
  ASSUME NEW k, NEW c, call'[k] = c, CallSound(c)'
  PROVE  CallSound(call[k])'
BY DEF CallSound, Working, Carries, Original, LoginFresh, Accepted

\* The slots that a step leaves alone remain sound.
LEMMA SlotsKept ==
  ASSUME AuthInv, Grows
  PROVE  /\ \A b \in Browsers : page'[b] = page[b] => PageSound(b, page[b])'
         /\ \A b \in Browsers : session'[b] = session[b] => SessionSound(b, session[b])'
         /\ \A k \in Calls : call'[k] = call[k] => CallSound(call[k])'
<1>1. ASSUME NEW b \in Browsers, page'[b] = page[b] PROVE PageSound(b, page[b])'
  <2>1. PICK p \in Page : p = page[b]
    BY DEF AuthInv, TypeOK
  <2>2. PageSound(b, p)
    BY <2>1 DEF AuthInv
  <2> QED
    BY <1>1, <2>1, <2>2, PageKept, PageSlot
<1>2. ASSUME NEW b \in Browsers, session'[b] = session[b] PROVE SessionSound(b, session[b])'
  <2>1. PICK s \in Sessions : s = session[b]
    BY DEF AuthInv, TypeOK
  <2>2. SessionSound(b, s)
    BY <2>1 DEF AuthInv
  <2> QED
    BY <1>2, <2>1, <2>2, SessionKept, SessionSlot
<1>3. ASSUME NEW k \in Calls, call'[k] = call[k] PROVE CallSound(call[k])'
  <2>1. PICK c \in Call : c = call[k]
    BY DEF AuthInv, TypeOK
  <2>2. CallSound(c)
    BY <2>1 DEF AuthInv
  <2> QED
    BY <1>3, <2>1, <2>2, CallKept, CallSlot
<1> QED
  BY <1>1, <1>2, <1>3

--------------------------------------------------------------------------------
(* Flows: who holds a request_uri.                                          *)

\* A step that adds no holder keeps the flow one.
LEMMA FlowKept ==
  ASSUME NEW r, OneFlow(r), answers'[r] = answers[r], Gone(r) => Gone(r)',
         \A k \in Calls : Works(k, r)' =>
           /\ Works(k, r) /\ call'[k].browser = call[k].browser
           /\ call'[k].from = call[k].from /\ call'[k].demand = call[k].demand,
         \A b \in Browsers : Holds(b, r)' => Holds(b, r) /\ page'[b] = page[b]
  PROVE  OneFlow(r)'
BY DEF OneFlow

\* Only page b holds r, or nobody and r still resolves.
Vacant(b, r) ==
  /\ \A k \in Calls : ~Works(k, r)
  /\ \A o \in Browsers \ {b} : ~Holds(o, r)
  /\ Holds(b, r) \/ ~Gone(r)

\* Two flows that hold one request_uri are noted.
LEMMA RaceNoted ==
  ASSUME AuthInv, NEW b \in Browsers, NEW others, NoteRace(b, others)
  PROVE  /\ raced \subseteq raced' /\ raced' \subseteq Refs
         /\ \A r \in Refs \ raced' : page[b].url.ref = r =>
              /\ \A j \in others : ~Works(j, r)
              /\ \A o \in Browsers \ {b} : ~Holds(o, r)
<1>1. page[b].url.ref \in Refs \cup {NoRef} /\ raced \subseteq Refs
  BY UrlType, PageType DEF AuthInv, TypeOK, Fingerprints
<1>2. raced \subseteq raced' /\ raced' \subseteq Refs
  BY <1>1 DEF NoteRace
<1>3. ASSUME NEW r \in Refs \ raced', page[b].url.ref = r PROVE ~Held(b, others)
  BY <1>3, UrlType DEF NoteRace
<1> QED
  BY <1>2, <1>3 DEF Held, Works, Holds, Working, Consenting

--------------------------------------------------------------------------------
(* A browser moves to another page.                                         *)

Moves(b, p) ==
  /\ page' = [page EXCEPT ![b] = p]
  /\ UNCHANGED <<now, pushed, consents, call, approved, asked, answers, overlapped>>
  /\ raced \subseteq raced' /\ raced' \subseteq Refs
  /\ visits' \in 0 .. MaxVisits /\ session' \in [Browsers -> Sessions]
  /\ \A o \in Browsers : o # b => session'[o] = session[o]
  /\ firstVisit' \in [Browsers -> [Urls -> 0 .. MaxTime]]
  /\ \A o \in Browsers, u \in Urls : firstVisit'[o][u] <= now
  /\ \A r \in Refs \ raced' : Consenting(p) /\ p.url.ref = r => Vacant(b, r)

\* A browser moves to another page.
LEMMA MoveKeeps ==
  ASSUME AuthInv, NEW b \in Browsers, NEW p \in Page, Moves(b, p), Grows,
         PageSound(b, p)', SessionSound(b, session[b])'
  PROVE  AuthInv'
<1>1. /\ page' \in [Browsers -> Page] /\ page'[b] = p
      /\ \A o \in Browsers : o # b => page'[o] = page[o]
  BY DEF Moves, AuthInv, TypeOK
<1>2. TypeOK'
  BY <1>1 DEF Moves, AuthInv, TypeOK
<1>3. PushInv' /\ ConsentInv'
  BY DEF Moves, AuthInv, PushInv, ConsentInv, Gone
<1>4. \A o \in Browsers : PageSound(o, page[o])' /\ SessionSound(o, session[o])'
  <2>1. PageSound(b, page[b])'
    BY <1>1, PageSlot
  <2> QED
    BY <1>1, <2>1, SlotsKept DEF Moves
<1>5. \A k \in Calls : CallSound(call[k])'
  BY SlotsKept DEF Moves
<1>6. ASSUME NEW r \in Refs \ raced' PROVE OneFlow(r)'
  <2>1. OneFlow(r)
    BY DEF AuthInv, Moves
  <2>2. /\ answers'[r] = answers[r] /\ (Gone(r)' <=> Gone(r))
        /\ \A k \in Calls : (Works(k, r)' <=> Works(k, r)) /\ call'[k] = call[k]
    BY DEF Moves, Gone, Works
  <2>3. \A o \in Browsers : o # b => (Holds(o, r)' <=> Holds(o, r))
    BY <1>1 DEF Holds
  <2>4. Holds(b, r)' => Vacant(b, r)
    BY <1>1 DEF Holds, Moves
  <2>5. CASE ~Holds(b, r)'
    BY <1>1, <2>1, <2>2, <2>3, <2>5, FlowKept
  <2>6. CASE Holds(b, r)'
    <3>1. /\ \A k \in Calls : ~Works(k, r)'
          /\ \A o \in Browsers : Holds(o, r)' => o = b
      BY <2>2, <2>3, <2>4, <2>6 DEF Vacant
    <3>2. answers'[r] = 0
      BY <2>1, <2>2, <2>4, <2>6 DEF OneFlow, Vacant
    <3> QED
      BY <3>1, <3>2 DEF OneFlow
  <2> QED
    BY <2>5, <2>6
<1> QED
  BY <1>2, <1>3, <1>4, <1>5, <1>6 DEF AuthInv

\* Nothing but the page and the history of races changes.
LEMMA OnlyMoveKeeps ==
  ASSUME AuthInv, NEW b \in Browsers, NEW p \in Page, PageSound(b, p),
         page' = [page EXCEPT ![b] = p],
         UNCHANGED <<now, pushed, consents, session, call, visits, approved, firstVisit,
                     asked, answers, overlapped>>,
         raced \subseteq raced', raced' \subseteq Refs,
         \A r \in Refs \ raced' : Consenting(p) /\ p.url.ref = r => Vacant(b, r)
  PROVE  AuthInv'
<1>1. Grows
  BY DEF Grows
<1>2. PageSound(b, p)'
  BY <1>1, PageKept
<1>3. SessionSound(b, session[b])'
  BY <1>1, SlotsKept
<1>4. Moves(b, p)
  BY DEF Moves, AuthInv, TypeOK, PushInv
<1> QED
  BY <1>1, <1>2, <1>3, <1>4, MoveKeeps

\* The page that ends a visit.
LEMMA DoneKeeps ==
  ASSUME AuthInv, NEW b \in Browsers, page' = [page EXCEPT ![b] = [Blank EXCEPT !.at = "done"]],
         UNCHANGED <<now, stores, session, call, histories>>
  PROVE  AuthInv'
<1>1. PICK p \in Page : p = [Blank EXCEPT !.at = "done"]
  BY BlankType
<1>2. p.at = "done" /\ p.next = "authorize" /\ page' = [page EXCEPT ![b] = p]
  BY <1>1, BlankType
<1>3. ~Consenting(p) /\ PageSound(b, p)
  BY <1>2 DEF Consenting, PageSound
<1>4. raced' = raced /\ raced \subseteq Refs
  BY DEF histories, AuthInv, TypeOK
<1> QED
  BY <1>2, <1>3, <1>4, OnlyMoveKeeps DEF stores, histories

\* The page that a browser stands on.
LEMMA PageOf ==
  ASSUME AuthInv, NEW b \in Browsers
  PROVE  /\ page[b] \in Page /\ PageSound(b, page[b]) /\ page \in [Browsers -> Page]
         /\ page[b].at \notin {"none", "done"} => page[b].url \in Urls
BY DEF AuthInv, TypeOK, PageSound

\* A refusal, a cancelled sign-up or a denied consent ends the flow.
LEMMA GoToDoneKeeps ==
  ASSUME AuthInv, NEW b \in Browsers, AuthorizeRefused(b) \/ CancelSignUp(b) \/ ConsentDeny(b)
  PROVE  AuthInv'
<1>1. page' = [page EXCEPT ![b] = [Blank EXCEPT !.at = "done"]]
  BY PageOf DEF AuthorizeRefused, CancelSignUp, ConsentDeny, GoTo
<1>2. UNCHANGED <<now, stores, session, call, histories>>
  BY DEF AuthorizeRefused, CancelSignUp, ConsentDeny
<1> QED
  BY <1>1, <1>2, DoneKeeps

\* A client sends the browser to /authorize.
LEMMA NavigateKeeps ==
  ASSUME AuthInv, NEW b \in Browsers, NEW u \in Urls, Navigate(b, u)
  PROVE  AuthInv'
<1>1. PICK p \in Page :
        p = [at |-> "authorize", next |-> "authorize", url |-> u, demand |-> NoDemand]
  BY UrlType DEF Page, Pages
<1>2. p.at = "authorize" /\ p.next = "authorize" /\ p.url = u /\ page' = [page EXCEPT ![b] = p]
  BY <1>1 DEF Navigate
<1>3. /\ firstVisit \in [Browsers -> [Urls -> 0 .. MaxTime]] /\ now \in 1 .. MaxTime
      /\ \A o \in Browsers, v \in Urls : firstVisit[o][v] <= now
  BY DEF AuthInv, TypeOK, PushInv
<1>4. firstVisit' = [firstVisit EXCEPT ![b] =
        [firstVisit[b] EXCEPT ![u] = IF @ = 0 THEN now ELSE @]]
  BY <1>3 DEF Navigate
<1>5. /\ firstVisit' \in [Browsers -> [Urls -> 0 .. MaxTime]]
      /\ firstVisit'[b][u] = (IF firstVisit[b][u] = 0 THEN now ELSE firstVisit[b][u])
      /\ \A o \in Browsers, v \in Urls :
           o # b \/ v # u => firstVisit'[o][v] = firstVisit[o][v]
  BY <1>3, <1>4
<1>6. Grows
  BY <1>5 DEF Grows, Navigate
<1>7. /\ firstVisit'[b][u] # 0
      /\ \A o \in Browsers, v \in Urls : firstVisit'[o][v] <= now
  BY <1>3, <1>5
<1>8. PageSound(b, p)' /\ ~Consenting(p)
  BY <1>2, <1>7 DEF PageSound, Consenting
<1>9. SessionSound(b, session[b])'
  BY <1>6, SlotsKept DEF Navigate
<1>10. Moves(b, p)
  <2>1. visits' \in 0 .. MaxVisits
    BY DEF Navigate, AuthInv, TypeOK
  <2>2. /\ UNCHANGED <<now, pushed, consents, call, approved, asked, answers, overlapped>>
        /\ raced' = raced /\ raced \subseteq Refs
        /\ session' = session /\ session \in [Browsers -> Sessions]
    BY DEF Navigate, AuthInv, TypeOK, stores
  <2> QED
    BY <1>2, <1>5, <1>7, <1>8, <2>1, <2>2 DEF Moves
<1> QED
  BY <1>6, <1>8, <1>9, <1>10, MoveKeeps

\* A user signs in.
LEMMA SignInKeeps ==
  ASSUME AuthInv, NEW b \in Browsers, NEW user \in Users, SignIn(b, user)
  PROVE  AuthInv'
<1>1. PICK q \in Page : q = page[b]
  BY PageOf
<1>2. /\ q.at \in {"login", "signup"} /\ q.next \in {"authorize", "consent"} /\ q.url \in Urls
      /\ PageSound(b, q) /\ firstVisit[b][q.url] # 0 /\ firstVisit[b][q.url] <= now
      /\ now \in 1 .. MaxTime
  BY <1>1, PageOf, PageType DEF SignIn, PageSound, AuthInv, TypeOK, PushInv
<1>3. PICK p \in Page : p = [q EXCEPT !.at = q.next]
  BY <1>2, PageType DEF Pages
<1>4. /\ p.at = q.next /\ p.next = q.next /\ p.url = q.url /\ p.demand = q.demand
      /\ page' = [page EXCEPT ![b] = p]
  <2>1. q.next \in Pages /\ q.next # "done" /\ page \in [Browsers -> Page]
    BY <1>2, PageOf DEF Pages
  <2>2. page' = [page EXCEPT ![b] = [q EXCEPT !.at = q.next]]
    BY <1>1, <2>1 DEF SignIn, GoTo
  <2> QED
    BY <1>3, <2>1, <2>2, PageType
<1>5. PICK reauth \in Fingerprints :
        reauth = IF q.next = "authorize" THEN q.url ELSE Elsewhere
  BY <1>2, UrlType
<1>6. PICK s \in Sessions : s = [user |-> user, auth_time |-> now, reauth |-> reauth]
  BY <1>2, <1>5 DEF Sessions
<1>7. session' = [session EXCEPT ![b] = s] /\ session \in [Browsers -> Sessions]
  BY <1>1, <1>5, <1>6 DEF SignIn, AuthInv, TypeOK
<1>8. /\ session' \in [Browsers -> Sessions] /\ session'[b] = s
      /\ \A o \in Browsers : o # b => session'[o] = session[o]
  BY <1>7
<1>9. UNCHANGED <<now, pushed, consents, call, visits, approved, firstVisit, asked, answers,
                  raced, overlapped>>
  BY DEF SignIn, stores, histories
<1>10. Grows
  BY <1>9 DEF Grows
<1>11. SessionSound(b, session[b])'
  <2>1. SessionSound(b, s)'
    BY <1>2, <1>5, <1>6, <1>9 DEF SessionSound
  <2> QED
    BY <1>8, <2>1, SessionSlot
<1>12. PageSound(b, p)'
  <2>1. PageSound(b, p)
    BY <1>2, <1>4 DEF PageSound, Consenting
  <2> QED
    BY <1>10, <2>1, PageKept
<1>13. ASSUME NEW r \in Refs \ raced', Consenting(p), p.url.ref = r PROVE Vacant(b, r)
  <2>1. Holds(b, r) /\ page[b].at \in {"login", "signup"}
    BY <1>1, <1>2, <1>4, <1>13 DEF Holds, Consenting
  <2>2. OneFlow(r)
    BY <1>9 DEF AuthInv
  <2>3. \A k \in Calls : ~Works(k, r)
    <3>1. \A k \in Calls : Works(k, r) => call[k].from \in {"authorize", "consent", "form"}
      BY DEF AuthInv, CallSound, Works
    <3> QED
      BY <2>1, <2>2, <3>1 DEF OneFlow
  <2> QED
    BY <2>1, <2>2, <2>3 DEF Vacant, OneFlow
<1>14. Moves(b, p)
  BY <1>4, <1>8, <1>9, <1>13 DEF Moves, AuthInv, TypeOK, PushInv
<1> QED
  BY <1>10, <1>11, <1>12, <1>14, MoveKeeps

\* The redirections of /authorize and /consent to a form, which remembers where it
\* leads back to.
LEMMA AuthorizeGatedKeeps ==
  ASSUME AuthInv, NEW b \in Browsers, AuthorizeGated(b)
  PROVE  AuthInv'
<1>1. PICK q \in Page : q = page[b]
  BY PageOf
<1>2. PICK place \in {"done", "login", "signup"} : GoToForm(b, place, "authorize")
  BY DEF AuthorizeGated, AuthenticationGate, RegistrationGate, LoginOrError
<1>3. UNCHANGED <<now, stores, session, call, histories>> /\ q.at = "authorize"
  BY <1>1 DEF AuthorizeGated, Resolvable
<1>4. CASE place = "done"
  <2>1. page' = [page EXCEPT ![b] = [Blank EXCEPT !.at = "done"]]
    BY <1>2, <1>4 DEF GoToForm
  <2> QED
    BY <1>3, <2>1, DoneKeeps
<1>5. CASE place # "done"
  <2>1. PICK p \in Page : p = [q EXCEPT !.at = place, !.next = "authorize"]
    BY <1>2 DEF Page, Pages
  <2>2. /\ p.at = place /\ p.next = "authorize" /\ p.url = q.url
        /\ page' = [page EXCEPT ![b] = p]
    BY <1>1, <1>2, <1>5, <2>1, PageOf DEF GoToForm, Page
  <2>3. PageSound(b, p) /\ ~Consenting(p)
    BY <1>1, <1>2, <1>3, <2>2, PageOf DEF PageSound, Consenting
  <2>4. raced' = raced /\ raced \subseteq Refs
    BY <1>3 DEF histories, AuthInv, TypeOK
  <2> QED
    BY <1>3, <2>2, <2>3, <2>4, OnlyMoveKeeps DEF stores, histories
<1> QED
  BY <1>4, <1>5

\* The consent page without a session.
LEMMA ConsentLoginKeeps ==
  ASSUME AuthInv, NEW b \in Browsers, ConsentLogin(b)
  PROVE  AuthInv'
<1>1. PICK q \in Page : q = page[b]
  BY PageOf
<1>2. q.at \in {"consent", "form"} /\ PageSound(b, q)
  BY <1>1, PageOf DEF ConsentLogin
<1>3. PICK p \in Page : p = [q EXCEPT !.at = "login", !.next = "consent"]
  BY DEF Page, Pages
<1>4. /\ p.at = "login" /\ p.next = "consent" /\ p.url = q.url /\ p.demand = q.demand
      /\ page' = [page EXCEPT ![b] = p]
  <2>1. p.at = "login" /\ p.next = "consent" /\ p.url = q.url /\ p.demand = q.demand
    BY <1>3 DEF Page
  <2>2. page' = [page EXCEPT ![b] = p]
    BY <1>1, <1>3, PageOf DEF ConsentLogin, GoToForm
  <2> QED
    BY <2>1, <2>2
<1>5. PageSound(b, p)
  BY <1>2, <1>4 DEF PageSound, Consenting
<1>6. NoteRace(b, Calls)
  BY DEF ConsentLogin
<1>7. ASSUME NEW r \in Refs \ raced', p.url.ref = r PROVE Vacant(b, r)
  <2>1. Holds(b, r)
    BY <1>1, <1>2, <1>4, <1>7 DEF Holds, Consenting
  <2> QED
    BY <1>1, <1>4, <1>6, <1>7, <2>1, RaceNoted DEF Vacant
<1>8. raced \subseteq raced' /\ raced' \subseteq Refs
  BY <1>6, RaceNoted
<1> QED
  BY <1>4, <1>5, <1>7, <1>8, OnlyMoveKeeps DEF ConsentLogin, stores

\* The consent form is shown.
LEMMA ConsentFormKeeps ==
  ASSUME AuthInv, NEW b \in Browsers, ConsentForm(b)
  PROVE  AuthInv'
<1>1. PICK q \in Page : q = page[b]
  BY PageOf
<1>2. /\ q.at = "consent" /\ PageSound(b, q) /\ ConsentRule(q.demand) = "form"
      /\ UNCHANGED <<now, stores, session, call, histories>>
  BY <1>1, PageOf DEF ConsentForm
<1>3. PICK p \in Page : p = [q EXCEPT !.at = "form"]
  BY DEF Page, Pages
<1>4. /\ p.at = "form" /\ p.next = q.next /\ p.url = q.url /\ p.demand = q.demand
      /\ page' = [page EXCEPT ![b] = p]
  <2>1. p.at = "form" /\ p.next = q.next /\ p.url = q.url /\ p.demand = q.demand
    BY <1>3 DEF Page
  <2>2. page' = [page EXCEPT ![b] = p]
    BY <1>1, <1>3, PageOf DEF ConsentForm, GoTo
  <2> QED
    BY <2>1, <2>2
<1>5. PageSound(b, p)
  BY <1>2, <1>4 DEF PageSound, Consenting
<1>6. raced' = raced /\ raced \subseteq Refs
  BY <1>2 DEF histories, AuthInv, TypeOK
<1>7. ASSUME NEW r \in Refs \ raced', p.url.ref = r PROVE Vacant(b, r)
  <2>1. Holds(b, r)
    BY <1>1, <1>2, <1>4, <1>7 DEF Holds, Consenting
  <2>2. OneFlow(r)
    BY <1>6 DEF AuthInv
  <2>3. ASSUME NEW k \in Calls, Works(k, r) PROVE FALSE
    <3>1. call[k].from = "consent" /\ call[k].demand = q.demand
      BY <1>1, <1>2, <2>1, <2>2, <2>3 DEF OneFlow
    <3>2. ConsentRule(call[k].demand) # "form"
      BY <2>3, <3>1 DEF AuthInv, CallSound, Works
    <3> QED
      BY <1>2, <3>1, <3>2
  <2> QED
    BY <2>1, <2>2, <2>3 DEF Vacant, OneFlow
<1> QED
  BY <1>2, <1>4, <1>5, <1>6, <1>7, OnlyMoveKeeps DEF stores, histories

\* What /authorize works on is the demand that was made at the URL.
LEMMA Resolved ==
  ASSUME AuthInv, NEW b \in Browsers, Resolvable(b)
  PROVE  /\ DemandAt(page[b].url) \in Demand /\ DemandAt(page[b].url) = Original(page[b].url)
         /\ \A e : Handled(DemandAt(page[b].url), e) => Carries(e, page[b].url)
         /\ page[b].url.ref # NoRef => ~Gone(page[b].url.ref)
<1>1. PICK u \in Urls : u = page[b].url
  BY PageOf DEF Resolvable
<1>2. /\ ~MustPush(u)
      /\ u.ref # NoRef => pushed[u.ref] # Absent /\ ~Spent(pushed[u.ref])
  BY <1>1 DEF Resolvable
<1>3. CASE u.ref = NoRef
  <2>1. DemandAt(u) = u.demand /\ Original(u) = u.demand /\ u.demand \in Demand
    BY <1>3, UrlType DEF DemandAt, Original
  <2> QED
    BY <1>1, <1>2, <1>3, <2>1 DEF Carries, Handled
<1>4. CASE u.ref # NoRef
  <2>1. u.ref \in Refs /\ pushed[u.ref] \in PushedAuthorization
    BY <1>2, <1>4, UrlType DEF AuthInv, TypeOK
  <2>2. /\ DemandAt(u) = pushed[u.ref].demand /\ Original(u) = asked[u.ref]
        /\ pushed[u.ref].demand = asked[u.ref] /\ pushed[u.ref].demand \in Demand
    BY <1>2, <1>4, <2>1, RowType DEF DemandAt, Original, AuthInv, PushInv
  <2>3. ~Gone(u.ref)
    BY <1>2, <1>4 DEF Gone, Spent
  <2> QED
    BY <1>1, <1>2, <2>2, <2>3 DEF Carries, Handled
<1> QED
  BY <1>3, <1>4

\* The demand that /authorize hands to the consent page or to the code.
LEMMA SubjectDemand ==
  ASSUME NEW d \in Demand, NEW s
  PROVE  Handled(d, WithSubject(d, s)) /\ Handled(d, ConsentParams(WithSubject(d, s)))
<1>1. PICK e : e = WithSubject(d, s)
  OBVIOUS
<1>2. Handled(d, e)
  BY <1>1, HandledDemand DEF WithSubject
<1>3. Handled(e, ConsentParams(e))
  BY <1>2, HandledDemand DEF Handled
<1> QED
  BY <1>1, <1>2, <1>3 DEF Handled

\* /authorize sends the browser to the consent form.
LEMMA AuthorizeToConsentKeeps ==
  ASSUME AuthInv, NEW b \in Browsers, AuthorizeToConsent(b)
  PROVE  AuthInv'
<1>1. PICK q \in Page : q = page[b]
  BY PageOf
<1>2. /\ Resolvable(b) /\ q.at = "authorize" /\ q.url \in Urls /\ firstVisit[b][q.url] # 0
      /\ NoteRace(b, Calls)
  BY <1>1, PageOf DEF AuthorizeToConsent, Resolvable, PageSound
<1>3. PICK d \in Demand : d = ConsentParams(WithSubject(DemandAt(q.url), session[b]))
  BY <1>1, <1>2, Resolved, SubjectDemand DEF Handled
<1>4. Carries(d, q.url)
  <2>1. DemandAt(q.url) \in Demand
    BY <1>1, <1>2, Resolved
  <2>2. Handled(DemandAt(q.url), d)
    BY <1>3, <2>1, SubjectDemand
  <2> QED
    BY <1>1, <1>2, <2>2, Resolved
<1>5. PICK p \in Page : p = [q EXCEPT !.at = "consent", !.demand = d]
  BY DEF Page, Pages
<1>6. /\ p.at = "consent" /\ p.url = q.url /\ p.demand = d
      /\ page' = [page EXCEPT ![b] = p]
  <2>1. p.at = "consent" /\ p.url = q.url /\ p.demand = d
    BY <1>5 DEF Page
  <2>2. page' = [page EXCEPT ![b] = [q EXCEPT !.at = "consent", !.demand = d]]
    BY <1>1, <1>3, PageOf DEF AuthorizeToConsent, GoToConsent
  <2> QED
    BY <1>5, <2>1, <2>2
<1>7. PageSound(b, p)
  BY <1>2, <1>4, <1>6 DEF PageSound
<1>8. ASSUME NEW r \in Refs \ raced', p.url.ref = r PROVE Vacant(b, r)
  BY <1>1, <1>2, <1>6, <1>8, RaceNoted, Resolved, UrlType DEF Vacant
<1>9. raced \subseteq raced' /\ raced' \subseteq Refs
  BY <1>2, RaceNoted
<1> QED
  BY <1>6, <1>7, <1>8, <1>9, OnlyMoveKeeps DEF AuthorizeToConsent, stores

\* A login from elsewhere and the end of a session.
LEMMA SessionKeeps ==
  ASSUME AuthInv, NEW b \in Browsers,
         (\E user \in Users : SignInElsewhere(b, user)) \/ SignOut(b)
  PROVE  AuthInv'
<1>1. now \in 1 .. MaxTime
  BY DEF AuthInv, TypeOK
<1>2. PICK s \in Sessions : s.reauth = Elsewhere /\ session' = [session EXCEPT ![b] = s]
  <2>1. Anonymous \in Sessions /\ Anonymous.reauth = Elsewhere
    BY DEF Sessions, Anonymous
  <2>2. \A user \in Users : [user |-> user, auth_time |-> now, reauth |-> Elsewhere] \in Sessions
    BY <1>1, UrlType DEF Sessions
  <2> QED
    BY <2>1, <2>2 DEF SignInElsewhere, SignOut
<1>3. UNCHANGED <<now, stores, page, call, histories>>
  BY DEF SignInElsewhere, SignOut
<1>4. UNCHANGED <<now, pushed, consents, page, call, visits, approved, firstVisit, asked,
                  answers, raced, overlapped>>
  BY <1>3 DEF stores, histories
<1>5. /\ session' \in [Browsers -> Sessions] /\ session'[b] = s
      /\ \A o \in Browsers : o # b => session'[o] = session[o]
  BY <1>2 DEF AuthInv, TypeOK
<1>7. Grows
  BY <1>4 DEF Grows
<1>8. SessionSound(b, session[b])'
  <2>1. SessionSound(b, s)'
    BY <1>2 DEF SessionSound
  <2> QED
    BY <1>5, <2>1, SessionSlot
<1>9. TypeOK'
  BY <1>4, <1>5 DEF AuthInv, TypeOK
<1>10. PushInv' /\ ConsentInv'
  BY <1>4 DEF AuthInv, PushInv, ConsentInv, Gone
<1>11. \A r \in Refs \ raced' : OneFlow(r)'
  BY <1>4 DEF AuthInv, OneFlow, Works, Holds, Gone
<1>12. \A o \in Browsers : PageSound(o, page[o])' /\ SessionSound(o, session[o])'
  BY <1>4, <1>5, <1>7, <1>8, SlotsKept
<1>13. \A k \in Calls : CallSound(call[k])'
  BY <1>4, <1>7, SlotsKept
<1> QED
  BY <1>9, <1>10, <1>11, <1>12, <1>13 DEF AuthInv

\* A client pushes a request.
LEMMA PushKeeps ==
  ASSUME AuthInv, NEW r \in Refs, NEW d \in Pushed, NEW proof \in Keys \cup {NoKey},
         Push(r, d, proof)
  PROVE  AuthInv'
<1>1. PICK e \in Demand : e = Bound(d, proof)
  BY BoundType DEF Demands
<1>2. PICK row \in PushedAuthorization :
        row = [demand |-> e, expires_at |-> now + PushTtl, is_consumed |-> FALSE]
  <2>1. now + PushTtl \in Nat
    BY DEF AuthInv, TypeOK
  <2> QED
    BY <2>1 DEF PushedAuthorization
<1>3. /\ pushed' = [pushed EXCEPT ![r] = row] /\ asked' = [asked EXCEPT ![r] = e]
      /\ row.demand = e /\ asked[r] = NoDemand
  BY <1>1, <1>2 DEF Push
<1>4. UNCHANGED <<now, consents, session, page, call, visits, approved, firstVisit, answers,
                  raced, overlapped>>
  BY DEF Push
<1>5. /\ pushed \in [Refs -> PushedAuthorization \cup {Absent}]
      /\ asked \in [Refs -> Demand \cup {NoDemand}]
  BY DEF AuthInv, TypeOK
<1>6. /\ pushed' \in [Refs -> PushedAuthorization \cup {Absent}]
      /\ asked' \in [Refs -> Demand \cup {NoDemand}]
      /\ pushed'[r] = row /\ asked'[r] = e
      /\ \A j \in Refs : j # r => pushed'[j] = pushed[j] /\ asked'[j] = asked[j]
  BY <1>3, <1>5
<1>7. Grows
  BY <1>3, <1>4, <1>6 DEF Grows
<1>8. TypeOK'
  BY <1>4, <1>6 DEF AuthInv, TypeOK
<1>9. \A j \in Refs : Gone(j) => Gone(j)'
  BY <1>3, <1>6 DEF Gone
<1>10. PushInv'
  <2>1. \A k \in Calls : call[k].url.ref \in Refs \cup {NoRef}
    BY UrlType DEF AuthInv, TypeOK, Call, Fingerprints
  <2>2. \A k \in Calls : call'[k].pc = "respond" /\ call'[k].url.ref # NoRef =>
                           Gone(call[k].url.ref)
    BY <1>4 DEF AuthInv, PushInv
  <2>3. \A k \in Calls : call'[k].pc = "respond" /\ call'[k].url.ref # NoRef =>
          asked'[call'[k].url.ref] # NoDemand
            /\ (pushed'[call'[k].url.ref] = Absent \/ pushed'[call'[k].url.ref].is_consumed)
    BY <1>3, <1>4, <1>6, <2>1, <2>2 DEF Gone
  <2>4. \A j \in Refs : pushed'[j] # Absent => pushed'[j].demand = asked'[j]
    BY <1>3, <1>6 DEF AuthInv, PushInv
  <2> QED
    BY <1>4, <2>3, <2>4 DEF AuthInv, PushInv, Gone
<1>11. ConsentInv'
  BY <1>4 DEF AuthInv, ConsentInv
<1>12. ASSUME NEW j \in Refs \ raced' PROVE OneFlow(j)'
  <2>1. OneFlow(j) /\ (Gone(j) => Gone(j)') /\ answers'[j] = answers[j]
    BY <1>4, <1>9 DEF AuthInv
  <2>2. /\ \A k \in Calls : (Works(k, j)' <=> Works(k, j)) /\ call'[k] = call[k]
        /\ \A b \in Browsers : (Holds(b, j)' <=> Holds(b, j)) /\ page'[b] = page[b]
    BY <1>4 DEF Works, Holds
  <2> QED
    BY <2>1, <2>2, FlowKept
<1>13. \A o \in Browsers : PageSound(o, page[o])' /\ SessionSound(o, session[o])'
  BY <1>4, <1>7, SlotsKept
<1>14. \A k \in Calls : CallSound(call[k])'
  BY <1>4, <1>7, SlotsKept
<1> QED
  BY <1>8, <1>10, <1>11, <1>12, <1>13, <1>14 DEF AuthInv

\* Time passes.
LEMMA TickKeeps ==
  ASSUME AuthInv, Tick
  PROVE  AuthInv'
<1>1. now \in 1 .. MaxTime /\ now' \in 1 .. MaxTime /\ now <= now'
  BY DEF AuthInv, TypeOK, Tick
<1>2. UNCHANGED <<pushed, consents, session, page, call, visits, approved, firstVisit, asked,
                  answers, raced, overlapped>>
  BY DEF Tick, stores, histories
<1>3. Grows
  BY <1>2 DEF Grows
<1>4. TypeOK'
  BY <1>1, <1>2 DEF AuthInv, TypeOK
<1>5. \A b \in Browsers, u \in Urls : firstVisit'[b][u] <= now'
  <2>1. \A b \in Browsers, u \in Urls : firstVisit[b][u] \in Int /\ firstVisit[b][u] <= now
    BY DEF AuthInv, TypeOK, PushInv
  <2> QED
    BY <1>1, <1>2, <2>1
<1>6. PushInv' /\ ConsentInv'
  BY <1>2, <1>5 DEF AuthInv, PushInv, ConsentInv, Gone
<1>7. \A r \in Refs \ raced' : OneFlow(r)'
  BY <1>2 DEF AuthInv, OneFlow, Works, Holds, Gone
<1>8. /\ \A o \in Browsers : PageSound(o, page[o])' /\ SessionSound(o, session[o])'
      /\ \A k \in Calls : CallSound(call[k])'
  BY <1>2, <1>3, SlotsKept
<1> QED
  BY <1>4, <1>6, <1>7, <1>8 DEF AuthInv

--------------------------------------------------------------------------------
(* A call begins.                                                           *)

Begins(k, c) ==
  /\ call' = [call EXCEPT ![k] = c] /\ call[k].pc = "idle"
  /\ c.pc \in {"lookup", "execute", "read"}
  /\ UNCHANGED <<now, pushed, consents, session, page, visits, firstVisit, asked, answers,
                 overlapped>>
  /\ raced \subseteq raced' /\ raced' \subseteq Refs
  /\ approved' \in [Users -> [Clients -> SUBSET Scopes]]
  /\ \A r \in Refs \ raced' : c.url.ref = r =>
       /\ \A j \in Calls \ {k} : ~Works(j, r)
       /\ \A o \in Browsers : Holds(o, r) =>
            /\ o = c.browser /\ page[o].at = c.from
            /\ c.from = "consent" => page[o].demand = c.demand
       /\ (\E o \in Browsers : Holds(o, r)) \/ ~Gone(r)

\* A call begins.
LEMMA BeginKeeps ==
  ASSUME AuthInv, NEW k \in Calls, NEW c \in Call, Begins(k, c), Grows, CallSound(c)'
  PROVE  AuthInv'
<1>1. /\ call' \in [Calls -> Call] /\ call'[k] = c
      /\ \A j \in Calls : j # k => call'[j] = call[j]
  BY DEF Begins, AuthInv, TypeOK
<1>2. UNCHANGED <<now, pushed, consents, session, page, visits, firstVisit, asked, answers,
                  overlapped>>
  BY DEF Begins
<1>3. c.pc \notin {"purge", "complete", "respond", "save", "idle"}
  BY DEF Begins
<1>4. TypeOK'
  BY <1>1, <1>2 DEF Begins, AuthInv, TypeOK
<1>5. PushInv'
  BY <1>1, <1>2, <1>3 DEF AuthInv, PushInv, Gone
<1>6. ConsentInv'
  <2>1. \A u \in Users, cl \in Clients : consents'[u][cl].scopes \subseteq approved'[u][cl]
    BY <1>2 DEF AuthInv, ConsentInv, Grows
  <2>2. \A j \in Calls : call'[j].pc = "save" => j # k /\ call'[j] = call[j]
    BY <1>1, <1>3
  <2> QED
    BY <1>2, <2>1, <2>2 DEF AuthInv, ConsentInv
<1>7. \A o \in Browsers : PageSound(o, page[o])' /\ SessionSound(o, session[o])'
  BY <1>2, SlotsKept
<1>8. \A j \in Calls : CallSound(call[j])'
  <2>1. CallSound(call[k])'
    BY <1>1, CallSlot
  <2> QED
    BY <1>1, <2>1, SlotsKept
<1>9. ASSUME NEW r \in Refs \ raced' PROVE OneFlow(r)'
  <2>1. OneFlow(r) /\ answers'[r] = answers[r] /\ (Gone(r)' <=> Gone(r))
    BY <1>2 DEF AuthInv, Begins, Gone
  <2>2. /\ \A j \in Calls : j # k => (Works(j, r)' <=> Works(j, r)) /\ call'[j] = call[j]
        /\ \A o \in Browsers : (Holds(o, r)' <=> Holds(o, r)) /\ page'[o] = page[o]
        /\ Works(k, r)' <=> c.url.ref = r
    BY <1>1, <1>2, <1>3 DEF Works, Working, Holds
  <2>3. CASE c.url.ref # r
    BY <2>1, <2>2, <2>3, FlowKept
  <2>4. CASE c.url.ref = r
    <3>1. /\ \A j \in Calls : Works(j, r)' => j = k
          /\ \A o \in Browsers : Holds(o, r)' =>
               /\ call'[k].browser = o /\ page'[o].at = call'[k].from
               /\ call'[k].from = "consent" => page'[o].demand = call'[k].demand
      BY <1>1, <2>2, <2>4 DEF Begins
    <3>2. answers'[r] = 0
      BY <2>1, <2>4 DEF OneFlow, Begins
    <3> QED
      BY <2>1, <2>2, <3>1, <3>2 DEF OneFlow
  <2> QED
    BY <2>3, <2>4
<1> QED
  BY <1>4, <1>5, <1>6, <1>7, <1>8, <1>9 DEF AuthInv

\* A signed-in user who passes the gate of a URL has logged in recently enough for it.
LEMMA GatePassed ==
  ASSUME AuthInv, NEW b \in Browsers, NEW u \in Urls, NEW d \in Demand, firstVisit[b][u] # 0,
         AuthenticationGate(d, session[b], u) = "pass", session[b].auth_time # 0
  PROVE  /\ "login" \in d.prompt => session[b].auth_time >= firstVisit[b][u]
         /\ d.max_age >= 0 => session[b].auth_time + d.max_age >= firstVisit[b][u]
<1>1. PICK s \in Sessions : s = session[b]
  BY DEF AuthInv, TypeOK
<1>2. s.user # NoUser /\ s.auth_time \in 1 .. MaxTime
  BY <1>1 DEF Sessions, Anonymous
<1>3. PICK fv \in 0 .. MaxTime : fv = firstVisit[b][u]
  BY DEF AuthInv, TypeOK
<1>4. fv <= now /\ now \in 1 .. MaxTime /\ d.max_age \in -1 .. MaxTime
  BY <1>3 DEF AuthInv, TypeOK, PushInv, Demand
<1>5. CASE s.reauth = u
  <2>1. s.auth_time >= fv
    BY <1>1, <1>3, <1>5, UrlType DEF AuthInv, SessionSound
  <2> QED
    BY <1>1, <1>2, <1>3, <1>4, <2>1
<1>6. CASE s.reauth # u
  <2>1. "create" \notin d.prompt
    BY <1>1, <1>6 DEF AuthenticationGate, RegistrationGate
  <2>2. ~ReauthenticationRequired(d, s, u)
    BY <1>1, <1>2, <2>1 DEF AuthenticationGate, LoginOrError
  <2>3. "login" \notin d.prompt /\ (d.max_age >= 0 => now - s.auth_time <= d.max_age)
    BY <1>2, <1>4, <1>6, <2>2 DEF ReauthenticationRequired, MaxAgeUnmet
  <2> QED
    BY <1>1, <1>2, <1>3, <1>4, <2>3
<1> QED
  BY <1>5, <1>6

\* The record that Begin writes.
LEMMA BeginType ==
  ASSUME AuthInv, NEW b \in Browsers, NEW k \in Calls, NEW step \in Steps, NEW d \in Demand,
         Begin(k, b, step, d)
  PROVE  \E c \in Call :
           /\ call' = [call EXCEPT ![k] = c] /\ c.pc = step /\ c.from = page[b].at
           /\ c.browser = b /\ c.user = session[b].user /\ c.url = page[b].url /\ c.demand = d
           /\ c.auth_time = IF page[b].at = "authorize" THEN session[b].auth_time ELSE 0
           /\ c.user \in Users \cup {NoUser}
<1>1. session[b].user \in Users \cup {NoUser} /\ session[b].auth_time \in 0 .. MaxTime
  BY DEF AuthInv, TypeOK, Sessions, Anonymous
<1>2. PICK at \in 0 .. MaxTime : at = IF page[b].at = "authorize" THEN session[b].auth_time ELSE 0
  BY <1>1
<1>3. page[b].at \in Pages /\ page[b].url \in Fingerprints
  BY PageOf, PageType
<1>4. PICK c \in Call : c = [pc |-> step, from |-> page[b].at, browser |-> b,
        user |-> session[b].user, auth_time |-> at, url |-> page[b].url, demand |-> d,
        merged |-> {}]
  BY <1>1, <1>3 DEF Call
<1>5. /\ c.pc = step /\ c.from = page[b].at /\ c.browser = b /\ c.user = session[b].user
      /\ c.url = page[b].url /\ c.demand = d /\ c.auth_time = at
  BY <1>4
<1>6. call' = [call EXCEPT ![k] = c]
  BY <1>2, <1>4 DEF Begin
<1> QED
  BY <1>1, <1>2, <1>5, <1>6

\* /authorize passes the gate.
LEMMA AuthorizePassedKeeps ==
  ASSUME AuthInv, NEW b \in Browsers, NEW k \in Calls, AuthorizePassed(b, k)
  PROVE  AuthInv'
<1>1. PICK u \in Urls : u = page[b].url
  BY PageOf DEF AuthorizePassed, Resolvable
<1>2. /\ Resolvable(b) /\ page[b].at = "authorize" /\ firstVisit[b][u] # 0
      /\ page[b].next = "authorize" /\ call[k].pc = "idle"
  BY <1>1, PageOf DEF AuthorizePassed, Resolvable, PageSound, Free
<1>3. DemandAt(u) \in Demand /\ DemandAt(u) = Original(u)
  BY <1>1, <1>2, Resolved
<1>4. PICK d \in Demand : d = WithSubject(DemandAt(u), session[b])
  BY <1>3, SubjectDemand DEF Handled
<1>5. Carries(d, u)
  <2>1. Handled(DemandAt(u), d)
    BY <1>3, <1>4, SubjectDemand
  <2> QED
    BY <1>1, <1>2, <2>1, Resolved
<1>6. PICK step \in {"execute", "lookup"} : step = ConsentRule(d)
  BY <1>1, <1>4 DEF AuthorizePassed, ConsentRule
<1>7. /\ Begin(k, b, step, d) /\ AuthenticationGate(Original(u), session[b], u) = "pass"
      /\ UNCHANGED <<now, stores, session, page, visits, approved, firstVisit, asked, answers,
                     overlapped>>
  BY <1>1, <1>3, <1>4, <1>6 DEF AuthorizePassed
<1>8. PICK c \in Call :
           /\ call' = [call EXCEPT ![k] = c] /\ c.pc = step /\ c.from = "authorize"
           /\ c.browser = b /\ c.url = u /\ c.demand = d
           /\ c.auth_time = session[b].auth_time
  BY <1>1, <1>2, <1>6, <1>7, BeginType DEF Steps
<1>9. CallSound(c)
  <2>1. c.auth_time # 0 => LoginFresh(c)
    BY <1>2, <1>3, <1>7, <1>8, GatePassed DEF LoginFresh
  <2>2. Accepted(c)
    BY <1>6, <1>8 DEF Accepted, ConsentRule
  <2> QED
    BY <1>2, <1>5, <1>8, <2>1, <2>2 DEF CallSound
<1>10. Grows
  BY <1>7 DEF Grows
<1>11. NoteRace(b, Calls \ {k})
  BY <1>7 DEF Begin
<1>12. Begins(k, c)
  <2>1. ASSUME NEW r \in Refs \ raced', c.url.ref = r
        PROVE  /\ \A j \in Calls \ {k} : ~Works(j, r)
               /\ \A o \in Browsers : ~Holds(o, r)
               /\ ~Gone(r)
    <3>1. ~Holds(b, r)
      BY <1>2 DEF Holds, Consenting
    <3>2. ~Gone(r)
      BY <1>1, <1>2, <1>8, <2>1, Resolved, UrlType
    <3> QED
      BY <1>1, <1>8, <1>11, <2>1, <3>1, <3>2, RaceNoted
  <2>2. raced \subseteq raced' /\ raced' \subseteq Refs
    BY <1>11, RaceNoted
  <2>3. UNCHANGED <<now, pushed, consents, session, page, visits, approved, firstVisit, asked,
                    answers, overlapped>>
    BY <1>7 DEF stores
  <2> QED
    BY <1>2, <1>6, <1>8, <2>1, <2>2, <2>3 DEF Begins, AuthInv, TypeOK
<1> QED
  BY <1>9, <1>10, <1>12, CallKept, BeginKeeps

\* A call that a consent page starts, alone on the reference of that page.
LEMMA FromPage ==
  ASSUME AuthInv, NEW b \in Browsers, NEW k \in Calls, NEW c \in Call,
         NoteRace(b, Calls \ {k}), page[b].at \in {"consent", "form"},
         c.url = page[b].url, c.browser = b, c.from = page[b].at,
         c.from = "consent" => c.demand = page[b].demand
  PROVE  /\ raced \subseteq raced' /\ raced' \subseteq Refs
         /\ \A r \in Refs \ raced' : c.url.ref = r =>
              /\ \A j \in Calls \ {k} : ~Works(j, r)
              /\ \A o \in Browsers : Holds(o, r) =>
                   /\ o = c.browser /\ page[o].at = c.from
                   /\ c.from = "consent" => page[o].demand = c.demand
              /\ \E o \in Browsers : Holds(o, r)
<1>1. \A r \in Refs : c.url.ref = r => Holds(b, r)
  BY DEF Holds, Consenting
<1> QED
  BY <1>1, RaceNoted

\* The consent page where the store decides.
LEMMA HandleConsentKeeps ==
  ASSUME AuthInv, NEW b \in Browsers, NEW k \in Calls, HandleConsent(b, k)
  PROVE  AuthInv'
<1>1. PICK d \in Demand : d = page[b].demand
  BY PageOf DEF HandleConsent, PageSound, Consenting, Carries
<1>2. /\ page[b].at = "consent" /\ call[k].pc = "idle" /\ Carries(d, page[b].url)
      /\ firstVisit[b][page[b].url] # 0
  BY <1>1, PageOf DEF HandleConsent, PageSound, Consenting, Free
<1>3. PICK step \in {"execute", "lookup"} : step = ConsentRule(d)
  BY <1>1 DEF HandleConsent, ConsentRule
<1>4. /\ Begin(k, b, step, d)
      /\ UNCHANGED <<now, stores, session, page, visits, approved, firstVisit, asked, answers,
                     overlapped>>
  BY <1>1, <1>3 DEF HandleConsent
<1>5. PICK c \in Call :
           /\ call' = [call EXCEPT ![k] = c] /\ c.pc = step /\ c.from = "consent"
           /\ c.browser = b /\ c.url = page[b].url /\ c.demand = d /\ c.auth_time = 0
  BY <1>2, <1>3, <1>4, BeginType DEF Steps
<1>6. CallSound(c)
  <2>1. Accepted(c)
    BY <1>3, <1>5 DEF Accepted, ConsentRule
  <2> QED
    BY <1>2, <1>3, <1>5, <2>1 DEF CallSound
<1>7. Grows
  BY <1>4 DEF Grows
<1>8. NoteRace(b, Calls \ {k})
  BY <1>4 DEF Begin
<1>9. Begins(k, c)
  <2>1. UNCHANGED <<now, pushed, consents, session, page, visits, approved, firstVisit, asked,
                    answers, overlapped>>
    BY <1>4 DEF stores
  <2>2. approved' \in [Users -> [Clients -> SUBSET Scopes]]
    BY <2>1 DEF AuthInv, TypeOK
  <2>3. /\ raced \subseteq raced' /\ raced' \subseteq Refs
        /\ \A r \in Refs \ raced' : c.url.ref = r =>
             /\ \A j \in Calls \ {k} : ~Works(j, r)
             /\ \A o \in Browsers : Holds(o, r) =>
                  /\ o = c.browser /\ page[o].at = c.from
                  /\ c.from = "consent" => page[o].demand = c.demand
             /\ \E o \in Browsers : Holds(o, r)
    <3>1. page[b].at \in {"consent", "form"} /\ c.from = page[b].at /\ c.demand = page[b].demand
      BY <1>1, <1>2, <1>5
    <3> QED
      BY <1>5, <1>8, <3>1, FromPage
  <2> QED
    BY <1>2, <1>3, <1>5, <2>1, <2>2, <2>3 DEF Begins
<1> QED
  BY <1>6, <1>7, <1>9, CallKept, BeginKeeps

\* The user consents on the form.
LEMMA ConsentAuthorizeKeeps ==
  ASSUME AuthInv, NEW b \in Browsers, NEW k \in Calls, ConsentAuthorize(b, k)
  PROVE  AuthInv'
<1>1. PICK d \in Demand : d = page[b].demand
  BY PageOf DEF ConsentAuthorize, PageSound, Consenting, Carries
<1>2. /\ page[b].at = "form" /\ call[k].pc = "idle" /\ Carries(d, page[b].url)
      /\ firstVisit[b][page[b].url] # 0
  BY <1>1, PageOf DEF ConsentAuthorize, PageSound, Consenting, Free
<1>3. PICK e \in Demand : e = [d EXCEPT !.prompt = {}] /\ Handled(d, e)
  BY HandledDemand DEF Handled
<1>4. Carries(e, page[b].url)
  BY <1>2, <1>3 DEF Carries, Handled
<1>5. PICK user \in Users : user = session[b].user
  BY DEF ConsentAuthorize, AuthInv, TypeOK, Sessions, Anonymous
<1>6. PICK client \in Clients : client = d.client
  BY DEF Demand
<1>7. /\ Begin(k, b, "read", e)
      /\ approved' = [approved EXCEPT ![user] =
                        [approved[user] EXCEPT ![client] = @ \cup d.scopes]]
      /\ UNCHANGED <<now, stores, session, page, visits, firstVisit, asked, answers, overlapped>>
  <2>1. approved \in [Users -> [Clients -> SUBSET Scopes]]
    BY DEF AuthInv, TypeOK
  <2> QED
    BY <1>1, <1>3, <1>5, <1>6, <2>1 DEF ConsentAuthorize
<1>8. PICK c \in Call :
           /\ call' = [call EXCEPT ![k] = c] /\ c.pc = "read" /\ c.from = "form"
           /\ c.browser = b /\ c.url = page[b].url /\ c.demand = e /\ c.auth_time = 0
           /\ c.user = user
  BY <1>2, <1>5, <1>7, BeginType DEF Steps
<1>9. /\ approved' \in [Users -> [Clients -> SUBSET Scopes]]
      /\ approved'[user][client] = approved[user][client] \cup d.scopes
      /\ \A u \in Users, cl \in Clients : approved[u][cl] \subseteq approved'[u][cl]
  <2>1. approved \in [Users -> [Clients -> SUBSET Scopes]] /\ d.scopes \in SUBSET Scopes
    BY DEF AuthInv, TypeOK, Demand
  <2> QED
    BY <1>7, <2>1
<1>10. Grows
  BY <1>7, <1>9 DEF Grows
<1>11. CallSound(c)'
  <2>1. e.client = client /\ e.scopes = d.scopes
    BY <1>3, <1>6 DEF Handled
  <2>2. Accepted(c)'
    BY <1>8, <1>9, <2>1 DEF Accepted
  <2>3. PICK u \in Urls : u = page[b].url
    BY <1>2 DEF Carries
  <2>4. Carries(c.demand, c.url)
    BY <1>4, <1>8
  <2>5. Carries(c.demand, c.url)'
    BY <1>10, <2>4, CarriesKept
  <2>6. firstVisit'[c.browser][c.url] # 0
    BY <1>2, <1>7, <1>8
  <2> QED
    BY <1>8, <2>2, <2>5, <2>6 DEF CallSound
<1>12. NoteRace(b, Calls \ {k})
  BY <1>7 DEF Begin
<1>13. Begins(k, c)
  <2>1. UNCHANGED <<now, pushed, consents, session, page, visits, firstVisit, asked,
                    answers, overlapped>>
    BY <1>7 DEF stores
  <2> QED
    BY <1>2, <1>8, <1>9, <1>12, <2>1, FromPage DEF Begins
<1> QED
  BY <1>10, <1>11, <1>13, BeginKeeps

--------------------------------------------------------------------------------
(* A call goes on.                                                          *)

Advances(k, c) ==
  /\ call' = [call EXCEPT ![k] = c] /\ Working(call[k]) /\ Working(c)
  /\ c.from = call[k].from /\ c.browser = call[k].browser /\ c.url = call[k].url
  /\ c.demand = call[k].demand /\ c.user = call[k].user /\ c.auth_time = call[k].auth_time
  /\ UNCHANGED <<now, session, page, visits, approved, firstVisit, asked, answers, raced>>

\* A call takes its next step.
LEMMA AdvanceKeeps ==
  ASSUME AuthInv, NEW k \in Calls, NEW c \in Call, Advances(k, c), Accepted(c),
         pushed' \in [Refs -> PushedAuthorization \cup {Absent}],
         consents' \in [Users -> [Clients -> Consent]], overlapped' \subseteq Users \X Clients,
         PushInv', ConsentInv', \A r \in Refs : Gone(r) => Gone(r)'
  PROVE  AuthInv'
<1>1. /\ call' \in [Calls -> Call] /\ call'[k] = c
      /\ \A j \in Calls : j # k => call'[j] = call[j]
  BY DEF Advances, AuthInv, TypeOK
<1>2. UNCHANGED <<now, session, page, visits, approved, firstVisit, asked, answers, raced>>
  BY DEF Advances
<1>3. Grows
  BY <1>2 DEF Grows
<1>4. TypeOK'
  BY <1>1, <1>2 DEF AuthInv, TypeOK
<1>5. CallSound(c)
  <2>1. CallSound(call[k]) /\ Working(call[k])
    BY DEF AuthInv, Advances
  <2> QED
    BY <2>1 DEF CallSound, LoginFresh, Advances
<1>6. \A j \in Calls : CallSound(call[j])'
  <2>1. CallSound(call[k])'
    BY <1>1, <1>3, <1>5, CallKept, CallSlot
  <2> QED
    BY <1>1, <1>3, <2>1, SlotsKept
<1>7. \A o \in Browsers : PageSound(o, page[o])' /\ SessionSound(o, session[o])'
  BY <1>2, <1>3, SlotsKept
<1>8. ASSUME NEW r \in Refs \ raced' PROVE OneFlow(r)'
  <2>1. OneFlow(r) /\ answers'[r] = answers[r] /\ (Gone(r) => Gone(r)')
    BY <1>2 DEF AuthInv
  <2>2. /\ \A j \in Calls : Works(j, r)' =>
             /\ Works(j, r) /\ call'[j].browser = call[j].browser
             /\ call'[j].from = call[j].from /\ call'[j].demand = call[j].demand
        /\ \A o \in Browsers : (Holds(o, r)' <=> Holds(o, r)) /\ page'[o] = page[o]
    <3>1. \A j \in Calls :
             /\ Working(call'[j]) => Working(call[j])
             /\ call'[j].browser = call[j].browser /\ call'[j].url = call[j].url
             /\ call'[j].from = call[j].from /\ call'[j].demand = call[j].demand
      BY <1>1 DEF Advances
    <3> QED
      BY <1>2, <3>1 DEF Works, Working, Holds
  <2> QED
    BY <2>1, <2>2, FlowKept
<1> QED
  BY <1>4, <1>6, <1>7, <1>8 DEF AuthInv

\* A call in progress.
LEMMA CallOf ==
  ASSUME AuthInv, NEW k \in Calls
  PROVE  /\ call[k] \in Call /\ CallSound(call[k]) /\ call \in [Calls -> Call]
         /\ Working(call[k]) => call[k].url \in Urls /\ call[k].demand.client \in Clients
                                  /\ call[k].demand \in Demand
BY DEF AuthInv, TypeOK, CallSound, Carries, Demand

\* A call moves to another step of its handler.
LEMMA NextStep ==
  ASSUME NEW c \in Call, NEW pc \in Steps
  PROVE  /\ [c EXCEPT !.pc = pc] \in Call /\ [c EXCEPT !.pc = pc].pc = pc
         /\ \A e \in {[c EXCEPT !.pc = pc]} :
              /\ e.from = c.from /\ e.browser = c.browser /\ e.url = c.url
              /\ e.demand = c.demand /\ e.user = c.user /\ e.auth_time = c.auth_time
              /\ e.merged = c.merged
BY DEF Call

\* A code is issued.
LEMMA IssueCodeKeeps ==
  ASSUME AuthInv, NEW k \in Calls, IssueCode(k)
  PROVE  AuthInv'
<1>1. PICK q \in Call : q = call[k]
  BY CallOf
<1>2. q.pc = "execute" /\ CallSound(q) /\ Working(q) /\ q.url \in Urls
  BY <1>1, CallOf DEF IssueCode, Working
<1>3. PICK pc \in {"respond", "complete"} : pc = IF q.url.ref = NoRef THEN "respond" ELSE "complete"
  OBVIOUS
<1>4. PICK c \in Call : c = [q EXCEPT !.pc = pc]
  BY <1>3, NextStep DEF Steps
<1>5. /\ call' = [call EXCEPT ![k] = c] /\ c.pc = pc
      /\ c.from = q.from /\ c.browser = q.browser /\ c.url = q.url
      /\ c.demand = q.demand /\ c.user = q.user /\ c.auth_time = q.auth_time
  BY <1>1, <1>3, <1>4, CallOf, NextStep DEF IssueCode, Steps
<1>6. UNCHANGED <<now, pushed, consents, session, page, visits, approved, firstVisit, asked,
                  answers, raced, overlapped>>
  BY DEF IssueCode, histories
<1>7. Advances(k, c)
  BY <1>1, <1>2, <1>5, <1>6, <1>3 DEF Advances, Working
<1>8. Accepted(c)
  BY <1>2, <1>5, <1>3 DEF CallSound, Accepted
<1>9. /\ call'[k] = c /\ \A j \in Calls : j # k => call'[j] = call[j]
  BY <1>5, CallOf
<1>10. PushInv'
  <2>1. c.pc = "complete" => c.url.ref \in Refs
    BY <1>2, <1>3, <1>5, UrlType
  <2>2. c.pc = "respond" => c.url.ref = NoRef
    BY <1>3, <1>5
  <2> QED
    BY <1>3, <1>5, <1>6, <1>9, <2>1, <2>2 DEF AuthInv, PushInv, Gone
<1>11. ConsentInv'
  <2>1. \A j \in Calls : call'[j].pc = "save" => j # k /\ call'[j] = call[j]
    BY <1>3, <1>5, <1>9
  <2> QED
    BY <1>6, <2>1 DEF AuthInv, ConsentInv
<1>12. \A r \in Refs : Gone(r) => Gone(r)'
  BY <1>6 DEF Gone
<1> QED
  BY <1>6, <1>7, <1>8, <1>10, <1>11, <1>12, AdvanceKeeps DEF AuthInv, TypeOK

\* The pushed request is consumed.
LEMMA CompleteKeeps ==
  ASSUME AuthInv, NEW k \in Calls, Complete(k)
  PROVE  AuthInv'
<1>1. PICK q \in Call : q = call[k]
  BY CallOf
<1>2. q.pc = "complete" /\ CallSound(q) /\ Working(q) /\ q.url \in Urls
  BY <1>1, CallOf DEF Complete, Working
<1>3. PICK r \in Refs : r = q.url.ref
  BY <1>1, <1>2 DEF AuthInv, PushInv
<1>4. PICK c \in Call : c = [q EXCEPT !.pc = "respond"]
  BY NextStep DEF Steps
<1>5. /\ call' = [call EXCEPT ![k] = c] /\ c.pc = "respond"
      /\ c.from = q.from /\ c.browser = q.browser /\ c.url = q.url
      /\ c.demand = q.demand /\ c.user = q.user /\ c.auth_time = q.auth_time
  BY <1>1, <1>4, CallOf, NextStep DEF Complete, Steps
<1>6. UNCHANGED <<now, consents, session, page, visits, approved, firstVisit, asked,
                  answers, raced, overlapped>>
  BY DEF Complete, histories
<1>7. /\ pushed \in [Refs -> PushedAuthorization \cup {Absent}]
      /\ pushed' = IF pushed[r] = Absent THEN pushed
                   ELSE [pushed EXCEPT ![r] = [pushed[r] EXCEPT !.is_consumed = TRUE]]
  BY <1>1, <1>3 DEF Complete, AuthInv, TypeOK
<1>8. /\ pushed' \in [Refs -> PushedAuthorization \cup {Absent}]
      /\ \A j \in Refs : j # r => pushed'[j] = pushed[j]
      /\ pushed[r] = Absent => pushed'[r] = Absent
      /\ pushed[r] # Absent => /\ pushed'[r] # Absent /\ pushed'[r].is_consumed = TRUE
                               /\ pushed'[r].demand = pushed[r].demand
  <2>1. CASE pushed[r] = Absent
    BY <1>7, <2>1
  <2>2. CASE pushed[r] # Absent
    <3>1. PICK row \in PushedAuthorization : row = [pushed[r] EXCEPT !.is_consumed = TRUE]
      BY <1>7, <2>2, RowType
    <3>2. row.is_consumed = TRUE /\ row.demand = pushed[r].demand /\ row # Absent
      BY <1>7, <2>2, <3>1, RowType
    <3>3. pushed' = [pushed EXCEPT ![r] = row]
      BY <1>7, <2>2, <3>1
    <3> QED
      BY <1>7, <2>2, <3>2, <3>3
  <2> QED
    BY <2>1, <2>2
<1>9. Advances(k, c)
  BY <1>1, <1>2, <1>5, <1>6 DEF Advances, Working
<1>10. Accepted(c)
  BY <1>2, <1>5 DEF CallSound, Accepted
<1>11. call'[k] = c /\ \A j \in Calls : j # k => call'[j] = call[j]
  BY <1>5, CallOf
<1>12. \A j \in Refs : Gone(j) => Gone(j)'
  BY <1>6, <1>8 DEF Gone
<1>13. asked'[r] # NoDemand /\ (pushed'[r] = Absent \/ pushed'[r].is_consumed)
  <2>1. asked[r] # NoDemand
    BY <1>2, <1>3, UrlType DEF CallSound, Carries, Original
  <2> QED
    BY <1>6, <1>8, <2>1
<1>14. PushInv'
  <2>1. \A j \in Refs : pushed'[j] # Absent => pushed'[j].demand = asked'[j]
    BY <1>6, <1>8 DEF AuthInv, PushInv
  <2>2. \A j \in Calls : call'[j].pc \in {"purge", "complete"} => call'[j].url.ref \in Refs
    BY <1>5, <1>11 DEF AuthInv, PushInv
  <2>3. ASSUME NEW j \in Calls, call'[j].pc = "respond", call'[j].url.ref # NoRef
        PROVE  /\ asked'[call'[j].url.ref] # NoDemand
               /\ pushed'[call'[j].url.ref] = Absent \/ pushed'[call'[j].url.ref].is_consumed
    <3>1. CASE j = k
      BY <1>3, <1>5, <1>11, <1>13, <3>1
    <3>2. CASE j # k
      <4>1. call'[j] = call[j] /\ call[j].url.ref \in Refs
        BY <1>11, <2>3, <3>2, UrlType, CallOf DEF Working
      <4>2. Gone(call[j].url.ref)
        BY <2>3, <4>1 DEF AuthInv, PushInv
      <4> QED
        BY <1>6, <1>8, <4>1, <4>2 DEF Gone
    <3> QED
      BY <3>1, <3>2
  <2> QED
    BY <1>6, <2>1, <2>2, <2>3 DEF AuthInv, PushInv, Gone
<1>15. ConsentInv'
  <2>1. \A j \in Calls : call'[j].pc = "save" => j # k /\ call'[j] = call[j]
    BY <1>5, <1>11
  <2> QED
    BY <1>6, <2>1 DEF AuthInv, ConsentInv
<1> QED
  BY <1>6, <1>8, <1>9, <1>10, <1>12, <1>14, <1>15, AdvanceKeeps DEF AuthInv, TypeOK

\* The stored consent is read
LEMMA GrantReadKeeps ==
  ASSUME AuthInv, NEW k \in Calls, GrantRead(k)
  PROVE  AuthInv'
<1>1. PICK q \in Call : q = call[k]
  BY CallOf
<1>2. q.pc = "read" /\ CallSound(q) /\ Working(q) /\ q.user \in Users
  BY <1>1, CallOf DEF GrantRead, Working, CallSound, Accepted
<1>3. PICK u \in Users, cl \in Clients : u = q.user /\ cl = q.demand.client
  BY <1>1, <1>2, CallOf
<1>4. /\ q.demand.scopes \in SUBSET Scopes /\ q.demand.scopes \subseteq approved[u][cl]
      /\ consents[u][cl].scopes \in SUBSET Scopes
      /\ consents[u][cl].scopes \subseteq approved[u][cl]
  <2>1. q.demand.scopes \in SUBSET Scopes
    BY <1>1, <1>2, CallOf DEF Demand
  <2>2. consents[u][cl].scopes \in SUBSET Scopes
    BY DEF AuthInv, TypeOK, Consent
  <2> QED
    BY <1>2, <1>3, <2>1, <2>2 DEF CallSound, Accepted, AuthInv, ConsentInv
<1>5. PICK merged \in SUBSET Scopes : merged = Merge(consents[u][cl], q.demand.scopes)
  BY <1>4 DEF Merge
<1>6. merged \subseteq approved[u][cl] /\ consents[u][cl].scopes \subseteq merged
  BY <1>4, <1>5 DEF Merge
<1>7. PICK c \in Call : c = [q EXCEPT !.pc = "save", !.merged = merged]
  BY DEF Call, Steps
<1>8. /\ call' = [call EXCEPT ![k] = c] /\ c.pc = "save" /\ c.merged = merged
      /\ c.from = q.from /\ c.browser = q.browser /\ c.url = q.url
      /\ c.demand = q.demand /\ c.user = q.user /\ c.auth_time = q.auth_time
  <2>1. /\ c.pc = "save" /\ c.merged = merged
        /\ c.from = q.from /\ c.browser = q.browser /\ c.url = q.url
        /\ c.demand = q.demand /\ c.user = q.user /\ c.auth_time = q.auth_time
    BY <1>7 DEF Call
  <2>2. call' = [call EXCEPT ![k] = c]
    BY <1>1, <1>3, <1>5, <1>7, CallOf DEF GrantRead
  <2> QED
    BY <2>1, <2>2
<1>9. UNCHANGED <<now, pushed, consents, session, page, visits, approved, firstVisit, asked,
                  answers, raced>>
  BY DEF GrantRead, stores
<1>10. Advances(k, c)
  BY <1>1, <1>2, <1>8, <1>9 DEF Advances, Working
<1>11. Accepted(c)
  BY <1>2, <1>3, <1>4, <1>6, <1>8 DEF Accepted
<1>12. call'[k] = c /\ \A j \in Calls : j # k => call'[j] = call[j]
  BY <1>8, CallOf
<1>13. /\ overlapped' = IF \E j \in Calls \ {k} : /\ call[j].pc = "save" /\ call[j].user = u
                                                   /\ call[j].demand.client = cl
                        THEN overlapped \cup {<<u, cl>>} ELSE overlapped
       /\ overlapped \subseteq overlapped' /\ overlapped' \subseteq Users \X Clients
  <2>1. overlapped \subseteq Users \X Clients /\ <<u, cl>> \in Users \X Clients
    BY DEF AuthInv, TypeOK
  <2> QED
    BY <1>1, <1>3, <2>1 DEF GrantRead
<1>14. PushInv'
  BY <1>8, <1>9, <1>12 DEF AuthInv, PushInv, Gone
<1>15. ConsentInv'
  <2>1. ASSUME NEW j \in Calls, call'[j].pc = "save"
        PROVE  \/ <<call'[j].user, call'[j].demand.client>> \in overlapped'
               \/ /\ consents'[call'[j].user][call'[j].demand.client].scopes
                       \subseteq call'[j].merged
                  /\ \A i \in Calls : call'[i].pc = "save" /\ call'[i].user = call'[j].user
                                      /\ call'[i].demand.client = call'[j].demand.client => i = j
    <3>1. CASE j = k
      BY <1>3, <1>6, <1>8, <1>9, <1>12, <1>13, <3>1
    <3>2. CASE j # k
      <4>1. call'[j] = call[j] /\ call[j].pc = "save"
        BY <1>12, <2>1, <3>2
      <4>2. CASE call[j].user = u /\ call[j].demand.client = cl
        BY <1>13, <3>2, <4>1, <4>2
      <4>3. CASE ~(call[j].user = u /\ call[j].demand.client = cl)
        BY <1>3, <1>8, <1>9, <1>12, <1>13, <4>1, <4>3 DEF AuthInv, ConsentInv
      <4> QED
        BY <4>2, <4>3
    <3> QED
      BY <3>1, <3>2
  <2> QED
    BY <1>9, <2>1 DEF AuthInv, ConsentInv
<1>16. \A r \in Refs : Gone(r) => Gone(r)'
  BY <1>9 DEF Gone
<1> QED
  BY <1>9, <1>10, <1>11, <1>13, <1>14, <1>15, <1>16, AdvanceKeeps DEF AuthInv, TypeOK

\* and saved with the new scopes.
LEMMA GrantSaveKeeps ==
  ASSUME AuthInv, NEW k \in Calls, GrantSave(k)
  PROVE  AuthInv'
<1>1. PICK q \in Call : q = call[k]
  BY CallOf
<1>2. q.pc = "save" /\ CallSound(q) /\ Working(q) /\ q.user \in Users
  BY <1>1, CallOf DEF GrantSave, Working, CallSound, Accepted
<1>3. PICK u \in Users, cl \in Clients : u = q.user /\ cl = q.demand.client
  BY <1>1, <1>2, CallOf
<1>4. PICK row \in Consent : row = [stored |-> TRUE, scopes |-> q.merged]
  BY DEF Call, Consent
<1>5. row.scopes = q.merged /\ q.merged \subseteq approved[u][cl]
  BY <1>2, <1>3, <1>4 DEF CallSound, Accepted
<1>6. PICK c \in Call : c = [q EXCEPT !.pc = "execute"]
  BY NextStep DEF Steps
<1>7. /\ call' = [call EXCEPT ![k] = c] /\ c.pc = "execute"
      /\ c.from = q.from /\ c.browser = q.browser /\ c.url = q.url
      /\ c.demand = q.demand /\ c.user = q.user /\ c.auth_time = q.auth_time
  BY <1>1, <1>6, CallOf, NextStep DEF GrantSave, Steps
<1>8. UNCHANGED <<now, pushed, session, page, visits, approved, firstVisit, asked,
                  answers, raced, overlapped>>
  BY DEF GrantSave, histories
<1>9. /\ consents' \in [Users -> [Clients -> Consent]] /\ consents'[u][cl] = row
      /\ \A v \in Users, d \in Clients : v # u \/ d # cl => consents'[v][d] = consents[v][d]
  <2>1. consents \in [Users -> [Clients -> Consent]]
    BY DEF AuthInv, TypeOK
  <2>2. consents' = [consents EXCEPT ![u] = [consents[u] EXCEPT ![cl] = row]]
    BY <1>1, <1>3, <1>4, <2>1 DEF GrantSave
  <2> QED
    BY <2>1, <2>2
<1>10. Advances(k, c)
  BY <1>1, <1>2, <1>7, <1>8 DEF Advances, Working
<1>11. Accepted(c)
  BY <1>2, <1>7 DEF Accepted, CallSound
<1>12. call'[k] = c /\ \A j \in Calls : j # k => call'[j] = call[j]
  BY <1>7, CallOf
<1>13. PushInv'
  BY <1>7, <1>8, <1>12 DEF AuthInv, PushInv, Gone
<1>14. ConsentInv'
  <2>1. \A v \in Users, d \in Clients : consents'[v][d].scopes \subseteq approved'[v][d]
    BY <1>5, <1>8, <1>9 DEF AuthInv, ConsentInv
  <2>2. ASSUME NEW j \in Calls, call'[j].pc = "save"
        PROVE  \/ <<call'[j].user, call'[j].demand.client>> \in overlapped'
               \/ /\ consents'[call'[j].user][call'[j].demand.client].scopes
                       \subseteq call'[j].merged
                  /\ \A i \in Calls : call'[i].pc = "save" /\ call'[i].user = call'[j].user
                                      /\ call'[i].demand.client = call'[j].demand.client => i = j
    <3>1. j # k /\ call'[j] = call[j] /\ call[j].pc = "save"
      BY <1>7, <1>12, <2>2
    <3>2. call[j].user \in Users /\ call[j].demand.client \in Clients
      BY <3>1, CallOf DEF Working, CallSound, Accepted
    <3>3. CASE <<call[j].user, call[j].demand.client>> \in overlapped
      BY <1>8, <3>1, <3>3
    <3>4. CASE <<call[j].user, call[j].demand.client>> \notin overlapped
      <4>1. /\ consents[call[j].user][call[j].demand.client].scopes \subseteq call[j].merged
            /\ \A i \in Calls : call[i].pc = "save" /\ call[i].user = call[j].user
                                /\ call[i].demand.client = call[j].demand.client => i = j
        BY <3>1, <3>4 DEF AuthInv, ConsentInv
      <4>2. call[j].user # u \/ call[j].demand.client # cl
        BY <1>1, <1>2, <1>3, <3>1, <4>1
      <4>3. consents'[call[j].user][call[j].demand.client]
              = consents[call[j].user][call[j].demand.client]
        BY <1>9, <3>2, <4>2
      <4> QED
        BY <1>7, <1>12, <3>1, <4>1, <4>3
    <3> QED
      BY <3>3, <3>4
  <2> QED
    BY <2>1, <2>2 DEF ConsentInv
<1>15. \A r \in Refs : Gone(r) => Gone(r)'
  BY <1>8 DEF Gone
<1> QED
  BY <1>8, <1>9, <1>10, <1>11, <1>13, <1>14, <1>15, AdvanceKeeps DEF AuthInv, TypeOK

--------------------------------------------------------------------------------
(* A call ends, or works on no demand.                                      *)

\* A call ends.
LEMMA EndKeeps ==
  ASSUME AuthInv, NEW k \in Calls, NEW c \in Call, ~Working(c),
         c.pc = "purge" => c.url.ref \in Refs,
         call' = [call EXCEPT ![k] = c], page' \in [Browsers -> Page],
         \A b \in Browsers : PageSound(b, page[b])',
         UNCHANGED <<now, consents, session, visits, approved, firstVisit, asked, raced,
                     overlapped>>,
         pushed' \in [Refs -> PushedAuthorization \cup {Absent}], answers' \in [Refs -> Nat],
         \A r \in Refs : pushed'[r] \in {pushed[r], Absent},
         \A r \in Refs \ raced : OneFlow(r)'
  PROVE  AuthInv'
<1>1. /\ call' \in [Calls -> Call] /\ call'[k] = c /\ c.pc \in {"idle", "purge"}
      /\ \A j \in Calls : j # k => call'[j] = call[j]
  BY DEF AuthInv, TypeOK, Working
<1>2. Grows
  BY DEF Grows
<1>3. TypeOK'
  BY <1>1 DEF AuthInv, TypeOK
<1>4. PushInv'
  <2>1. \A r \in Refs : pushed'[r] # Absent => pushed'[r].demand = asked'[r]
    BY DEF AuthInv, PushInv
  <2>2. ASSUME NEW j \in Calls, call'[j].pc = "respond", call'[j].url.ref # NoRef
        PROVE  /\ asked'[call'[j].url.ref] # NoDemand
               /\ pushed'[call'[j].url.ref] = Absent \/ pushed'[call'[j].url.ref].is_consumed
    <3>1. call'[j] = call[j]
      BY <1>1, <2>2
    <3>2. Gone(call[j].url.ref) /\ call[j].url.ref \in Refs
      BY <2>2, <3>1, UrlType, CallOf DEF AuthInv, PushInv, Working
    <3> QED
      BY <3>1, <3>2 DEF Gone
  <2>3. \A j \in Calls : call'[j].pc \in {"purge", "complete"} => call'[j].url.ref \in Refs
    BY <1>1 DEF AuthInv, PushInv
  <2> QED
    BY <2>1, <2>2, <2>3 DEF AuthInv, PushInv, Gone
<1>5. ConsentInv'
  <2>1. \A j \in Calls : call'[j].pc = "save" => j # k /\ call'[j] = call[j]
    BY <1>1
  <2> QED
    BY <2>1 DEF AuthInv, ConsentInv
<1>6. \A j \in Calls : CallSound(call[j])'
  <2>1. CallSound(c)'
    BY DEF CallSound
  <2>2. CallSound(call[k])'
    BY <1>1, <2>1, CallSlot
  <2> QED
    BY <1>1, <1>2, <2>2, SlotsKept
<1>7. \A o \in Browsers : SessionSound(o, session[o])'
  BY <1>2, SlotsKept
<1> QED
  BY <1>3, <1>4, <1>5, <1>6, <1>7 DEF AuthInv

\* The pushed request has expired or was consumed.
LEMMA AuthorizeSpentKeeps ==
  ASSUME AuthInv, NEW b \in Browsers, NEW k \in Calls, AuthorizeSpent(b, k)
  PROVE  AuthInv'
<1>1. page[b].url \in Urls /\ page[b].url.ref \in Refs /\ page[b].url \in Fingerprints
  BY PageOf, UrlType DEF AuthorizeSpent
<1>2. PICK c \in Call :
        c = [Idle EXCEPT !.pc = "purge", !.from = "authorize", !.browser = b, !.url = page[b].url]
  BY <1>1, IdleType DEF Call, Steps, Pages
<1>3. c.pc = "purge" /\ c.url = page[b].url /\ call' = [call EXCEPT ![k] = c]
  <2>1. c.pc = "purge" /\ c.url = page[b].url
    BY <1>2, IdleType DEF Call
  <2> QED
    BY <1>2, <2>1 DEF AuthorizeSpent
<1>4. UNCHANGED <<now, pushed, consents, session, page, visits, approved, firstVisit, asked,
                  answers, raced, overlapped>>
  BY DEF AuthorizeSpent, stores, histories
<1>5. ~Working(c)
  BY <1>3 DEF Working
<1>6. \A o \in Browsers : PageSound(o, page[o])'
  <2>1. Grows
    BY <1>4 DEF Grows
  <2> QED
    BY <1>4, <2>1, SlotsKept
<1>7. ASSUME NEW r \in Refs \ raced PROVE OneFlow(r)'
  <2>1. OneFlow(r) /\ answers'[r] = answers[r] /\ (Gone(r)' <=> Gone(r))
    BY <1>4 DEF AuthInv, Gone
  <2>2. /\ \A j \in Calls : Works(j, r)' => Works(j, r) /\ call'[j] = call[j]
        /\ \A o \in Browsers : (Holds(o, r)' <=> Holds(o, r)) /\ page'[o] = page[o]
    <3>1. call'[k] = c /\ \A j \in Calls : j # k => call'[j] = call[j]
      BY <1>3, CallOf
    <3> QED
      BY <1>4, <1>5, <3>1 DEF Works, Working, Holds
  <2> QED
    BY <2>1, <2>2, FlowKept
<1>8. /\ page' \in [Browsers -> Page] /\ answers' \in [Refs -> Nat]
      /\ pushed' \in [Refs -> PushedAuthorization \cup {Absent}]
      /\ \A r \in Refs : pushed'[r] \in {pushed[r], Absent}
  BY <1>4 DEF AuthInv, TypeOK
<1> QED
  BY <1>1, <1>3, <1>4, <1>5, <1>6, <1>7, <1>8, EndKeeps

\* A call is cut off.
LEMMA AbortKeeps ==
  ASSUME AuthInv, NEW k \in Calls, Abort(k)
  PROVE  AuthInv'
<1>1. PICK c \in Call : c = Idle /\ c.pc = "idle"
  BY IdleType
<1>2. UNCHANGED <<now, pushed, consents, session, page, visits, approved, firstVisit, asked,
                  answers, raced, overlapped>> /\ call' = [call EXCEPT ![k] = c]
  BY <1>1 DEF Abort, stores, histories
<1>3. ~Working(c) /\ c.pc # "purge"
  BY <1>1 DEF Working
<1>4. \A o \in Browsers : PageSound(o, page[o])'
  <2>1. Grows
    BY <1>2 DEF Grows
  <2> QED
    BY <1>2, <2>1, SlotsKept
<1>5. ASSUME NEW r \in Refs \ raced PROVE OneFlow(r)'
  <2>1. OneFlow(r) /\ answers'[r] = answers[r] /\ (Gone(r)' <=> Gone(r))
    BY <1>2 DEF AuthInv, Gone
  <2>2. /\ \A j \in Calls : Works(j, r)' => Works(j, r) /\ call'[j] = call[j]
        /\ \A o \in Browsers : (Holds(o, r)' <=> Holds(o, r)) /\ page'[o] = page[o]
    <3>1. call'[k] = c /\ \A j \in Calls : j # k => call'[j] = call[j]
      BY <1>2, CallOf
    <3> QED
      BY <1>2, <1>3, <3>1 DEF Works, Working, Holds
  <2> QED
    BY <2>1, <2>2, FlowKept
<1>6. /\ page' \in [Browsers -> Page] /\ answers' \in [Refs -> Nat]
      /\ pushed' \in [Refs -> PushedAuthorization \cup {Absent}]
      /\ \A r \in Refs : pushed'[r] \in {pushed[r], Absent}
  BY <1>2 DEF AuthInv, TypeOK
<1> QED
  BY <1>2, <1>3, <1>4, <1>5, <1>6, EndKeeps

\* The answer that ends a visit: the browser is done, if it still waits for it.
LEMMA ReplyDone ==
  ASSUME AuthInv, NEW k \in Calls, Reply(k, "done", NoDemand), Grows
  PROVE  /\ page' \in [Browsers -> Page]
         /\ \A o \in Browsers : PageSound(o, page[o])'
         /\ \A o \in Browsers, r \in Refs : Holds(o, r)' => Holds(o, r) /\ page'[o] = page[o]
         /\ \A o \in Browsers, r \in Refs :
              o = call[k].browser /\ page[o].at = call[k].from /\ page[o].url = call[k].url
                => ~Holds(o, r)'
<1>1. PICK p \in Page : p = [Blank EXCEPT !.at = "done"]
  BY BlankType
<1>2. p.at = "done" /\ p.next = "authorize"
  BY <1>1, BlankType
<1>3. PICK b \in Browsers : b = call[k].browser
  BY CallOf DEF Call
<1>4. /\ page \in [Browsers -> Page]
      /\ page' = IF page[b].at = call[k].from /\ page[b].url = call[k].url
                 THEN [page EXCEPT ![b] = p] ELSE page
  BY <1>1, <1>3, PageOf DEF Reply
<1>5. /\ page' \in [Browsers -> Page]
      /\ \A o \in Browsers : page'[o] = page[o] \/ page'[o] = p
      /\ \A o \in Browsers :
           o = b /\ page[o].at = call[k].from /\ page[o].url = call[k].url => page'[o] = p
  BY <1>4
<1>6. \A o \in Browsers, r \in Refs : page'[o] = p => ~Holds(o, r)'
  BY <1>2 DEF Holds, Consenting
<1>7. ASSUME NEW o \in Browsers PROVE PageSound(o, page[o])'
  <2>1. PageSound(o, p)'
    BY <1>2 DEF PageSound, Consenting
  <2>2. CASE page'[o] = p
    BY <2>1, <2>2, PageSlot
  <2>3. CASE page'[o] = page[o]
    BY <2>3, SlotsKept
  <2> QED
    BY <1>5, <2>2, <2>3
<1>8. ASSUME NEW o \in Browsers, NEW r \in Refs, Holds(o, r)'
      PROVE  Holds(o, r) /\ page'[o] = page[o]
  BY <1>5, <1>6, <1>8 DEF Holds
<1> QED
  BY <1>3, <1>5, <1>6, <1>7, <1>8

\* Such a request is deleted.
LEMMA PurgeKeeps ==
  ASSUME AuthInv, NEW k \in Calls, Purge(k)
  PROVE  AuthInv'
<1>1. PICK c \in Call : c = Idle /\ c.pc = "idle"
  BY IdleType
<1>2. /\ UNCHANGED <<now, consents, session, visits, approved, firstVisit, asked,
                     answers, raced, overlapped>>
      /\ call' = [call EXCEPT ![k] = c] /\ Reply(k, "done", NoDemand)
  BY <1>1 DEF Purge, histories, Reply
<1>3. ~Working(c) /\ c.pc # "purge"
  BY <1>1 DEF Working
<1>4. Grows
  BY <1>2 DEF Grows
<1>5. PICK p \in Refs : p = call[k].url.ref /\ pushed' = [pushed EXCEPT ![p] = Absent]
  BY DEF Purge, AuthInv, PushInv
<1>6. /\ pushed' \in [Refs -> PushedAuthorization \cup {Absent}] /\ answers' \in [Refs -> Nat]
      /\ \A r \in Refs : pushed'[r] \in {pushed[r], Absent}
  BY <1>2, <1>5 DEF AuthInv, TypeOK
<1>7. ASSUME NEW r \in Refs \ raced PROVE OneFlow(r)'
  <2>1. OneFlow(r) /\ answers'[r] = answers[r] /\ (Gone(r) => Gone(r)')
    BY <1>2, <1>6 DEF AuthInv, Gone
  <2>2. \A j \in Calls : Works(j, r)' => Works(j, r) /\ call'[j] = call[j]
    <3>1. call'[k] = c /\ \A j \in Calls : j # k => call'[j] = call[j]
      BY <1>2, CallOf
    <3> QED
      BY <1>3, <3>1 DEF Works, Working
  <2>3. \A o \in Browsers : Holds(o, r)' => Holds(o, r) /\ page'[o] = page[o]
    BY <1>2, <1>4, ReplyDone
  <2> QED
    BY <2>1, <2>2, <2>3, FlowKept
<1> QED
  BY <1>2, <1>3, <1>4, <1>6, <1>7, ReplyDone, EndKeeps

\* The response is delivered.
LEMMA RespondKeeps ==
  ASSUME AuthInv, NEW k \in Calls, Respond(k)
  PROVE  AuthInv'
<1>1. PICK c \in Call : c = Idle /\ c.pc = "idle"
  BY IdleType
<1>2. /\ UNCHANGED <<now, pushed, consents, session, visits, approved, firstVisit, asked,
                     raced, overlapped>>
      /\ call' = [call EXCEPT ![k] = c] /\ Reply(k, "done", NoDemand)
  BY <1>1 DEF Respond, stores, Reply
<1>3. ~Working(c) /\ c.pc # "purge"
  BY <1>1 DEF Working
<1>4. Grows
  BY <1>2 DEF Grows
<1>5. PICK u \in Urls : u = call[k].url
  BY CallOf DEF Respond, Working
<1>6. /\ answers \in [Refs -> Nat] /\ call[k].pc = "respond" /\ Working(call[k])
      /\ answers' = IF u.ref = NoRef THEN answers ELSE [answers EXCEPT ![u.ref] = @ + 1]
  BY <1>5 DEF Respond, AuthInv, TypeOK, Working
<1>7. /\ answers' \in [Refs -> Nat]
      /\ \A r \in Refs : r # u.ref => answers'[r] = answers[r]
      /\ \A r \in Refs : r = u.ref => answers'[r] = answers[r] + 1
  BY <1>6, UrlType
<1>8. call'[k] = c /\ \A j \in Calls : j # k => call'[j] = call[j]
  BY <1>2, CallOf
<1>9. ASSUME NEW r \in Refs \ raced PROVE OneFlow(r)'
  <2>1. OneFlow(r) /\ (Gone(r)' <=> Gone(r))
    BY <1>2 DEF AuthInv, Gone
  <2>2. \A j \in Calls : Works(j, r)' => j # k /\ Works(j, r) /\ call'[j] = call[j]
    BY <1>3, <1>8 DEF Works, Working
  <2>3. \A o \in Browsers : Holds(o, r)' => Holds(o, r) /\ page'[o] = page[o]
    BY <1>2, <1>4, ReplyDone
  <2>4. CASE r # u.ref
    <3>1. answers'[r] = answers[r]
      BY <1>7, <2>4
    <3> QED
      BY <2>1, <2>2, <2>3, <3>1, FlowKept
  <2>5. CASE r = u.ref
    <3>1. Works(k, r)
      BY <1>5, <1>6, <2>5 DEF Works
    <3>2. answers[r] = 0 /\ \A j \in Calls : Works(j, r) => j = k
      BY <2>1, <3>1 DEF OneFlow
    <3>3. answers'[r] = 1 /\ \A j \in Calls : ~Works(j, r)'
      BY <1>7, <2>2, <2>5, <3>2
    <3>4. Gone(r)'
      BY <1>5, <1>6, <2>1, <2>5, UrlType DEF AuthInv, PushInv
    <3>5. ASSUME NEW o \in Browsers, Holds(o, r)' PROVE FALSE
      <4>1. Holds(o, r)
        BY <2>3, <3>5
      <4>2. call[k].browser = o /\ call[k].from = page[o].at
        BY <2>1, <3>1, <4>1 DEF OneFlow
      <4>3. page[o].url = u
        <5>1. Carries(page[o].demand, page[o].url) /\ page[o].url.ref = r
          BY <4>1, PageOf DEF Holds, PageSound
        <5> QED
          BY <2>5, <5>1, UrlType DEF Carries
      <4> QED
        BY <1>2, <1>4, <1>5, <3>5, <4>2, <4>3, ReplyDone
    <3> QED
      BY <3>3, <3>4, <3>5 DEF OneFlow
  <2> QED
    BY <2>4, <2>5
<1>10. /\ pushed' \in [Refs -> PushedAuthorization \cup {Absent}]
       /\ \A r \in Refs : pushed'[r] \in {pushed[r], Absent}
  BY <1>2 DEF AuthInv, TypeOK
<1> QED
  BY <1>2, <1>3, <1>4, <1>7, <1>9, <1>10, ReplyDone, EndKeeps

\* The stored consent decides whether the form is shown.
LEMMA ConsentLookupKeeps ==
  ASSUME AuthInv, NEW k \in Calls, ConsentLookup(k)
  PROVE  AuthInv'
<1>1. PICK q \in Call : q = call[k]
  BY CallOf
<1>2. /\ q.pc = "lookup" /\ CallSound(q) /\ Working(q) /\ q.url \in Urls
      /\ q.demand \in Demand /\ q.demand.client \in Clients
  BY <1>1, CallOf DEF ConsentLookup, Working
<1>3. PICK stored : stored = IF q.user = NoUser THEN NoConsent ELSE consents[q.user][q.demand.client]
  OBVIOUS
<1>4. UNCHANGED <<now, pushed, consents, session, visits, approved, firstVisit, asked, answers,
                  raced, overlapped>>
  BY DEF ConsentLookup, stores, histories
<1>5. CASE ~ConsentRequired(stored, q.demand)
  <2>1. call' = [call EXCEPT ![k].pc = "execute"] /\ page' = page
    BY <1>1, <1>3, <1>5 DEF ConsentLookup
  <2>2. PICK c \in Call : c = [q EXCEPT !.pc = "execute"]
    BY NextStep DEF Steps
  <2>3. /\ call' = [call EXCEPT ![k] = c] /\ c.pc = "execute"
        /\ c.from = q.from /\ c.browser = q.browser /\ c.url = q.url
        /\ c.demand = q.demand /\ c.user = q.user /\ c.auth_time = q.auth_time
    BY <1>1, <2>1, <2>2, CallOf, NextStep DEF Steps
  <2>4. Accepted(c)
    <3>1. q.user \in Users
      BY <1>3, <1>5 DEF ConsentRequired, NoConsent, Call
    <3>2. q.demand.scopes \subseteq consents[q.user][q.demand.client].scopes
      BY <1>3, <1>5, <3>1 DEF ConsentRequired, Covers
    <3>3. q.demand.scopes \subseteq approved[q.user][q.demand.client]
      BY <1>2, <3>1, <3>2 DEF AuthInv, ConsentInv
    <3> QED
      BY <2>3, <3>1, <3>3 DEF Accepted
  <2>5. Advances(k, c)
    BY <1>1, <1>2, <1>4, <2>1, <2>3 DEF Advances, Working
  <2>6. call'[k] = c /\ \A j \in Calls : j # k => call'[j] = call[j]
    BY <2>3, CallOf
  <2>7. PushInv'
    BY <1>4, <2>3, <2>6 DEF AuthInv, PushInv, Gone
  <2>8. ConsentInv'
    <3>1. \A j \in Calls : call'[j].pc = "save" => j # k /\ call'[j] = call[j]
      BY <2>3, <2>6
    <3> QED
      BY <1>4, <3>1 DEF AuthInv, ConsentInv
  <2>9. \A r \in Refs : Gone(r) => Gone(r)'
    BY <1>4 DEF Gone
  <2> QED
    BY <1>4, <2>4, <2>5, <2>7, <2>8, <2>9, AdvanceKeeps DEF AuthInv, TypeOK
<1>6. CASE ConsentRequired(stored, q.demand)
  <2>1. PICK place \in {"consent", "form"}, d \in Demand :
          /\ d = ConsentParams(q.demand) /\ Handled(q.demand, d) /\ Reply(k, place, d)
    <3>1. ConsentParams(q.demand) \in Demand /\ Handled(q.demand, ConsentParams(q.demand))
      BY <1>2, HandledDemand DEF Handled
    <3>2. Reply(k, IF q.from = "authorize" THEN "consent" ELSE "form", ConsentParams(q.demand))
      BY <1>1, <1>3, <1>6 DEF ConsentLookup
    <3> QED
      BY <3>1, <3>2
  <2>2. PICK b \in Browsers : b = q.browser
    BY DEF Call
  <2>3. PICK p \in Page : p = [page[b] EXCEPT !.at = place, !.demand = d]
    BY PageOf DEF Page, Pages
  <2>4. p.at = place /\ p.url = page[b].url /\ p.demand = d
    BY <2>3, PageOf DEF Page
  <2>5. PICK c \in Call : c = Idle /\ c.pc = "idle"
    BY IdleType
  <2>6. call' = [call EXCEPT ![k] = c] /\ ~Working(c) /\ c.pc # "purge"
    BY <2>1, <2>5 DEF Reply, Working
  <2>7. call'[k] = c /\ \A j \in Calls : j # k => call'[j] = call[j]
    BY <2>6, CallOf
  <2>8. page' = IF page[b].at = q.from /\ page[b].url = q.url
                THEN [page EXCEPT ![b] = p] ELSE page
    BY <1>1, <2>1, <2>2, <2>3, PageOf DEF Reply
  <2>9. /\ page' \in [Browsers -> Page]
        /\ \A o \in Browsers : o # b => page'[o] = page[o]
        /\ page'[b] = page[b] \/ (page'[b] = p /\ page[b].url = q.url)
    <3>1. page \in [Browsers -> Page]
      BY PageOf
    <3>2. CASE page[b].at = q.from /\ page[b].url = q.url
      <4>1. page' = [page EXCEPT ![b] = p] /\ p \in Page
        BY <2>3, <2>8, <3>2
      <4> QED
        BY <3>1, <3>2, <4>1
    <3>3. CASE ~(page[b].at = q.from /\ page[b].url = q.url)
      <4>1. page' = page
        BY <2>8, <3>3
      <4> QED
        BY <3>1, <4>1
    <3> QED
      BY <3>2, <3>3
  <2>10. Grows
    BY <1>4 DEF Grows
  <2>11. ASSUME NEW o \in Browsers PROVE PageSound(o, page[o])'
    <3>1. CASE page'[o] = page[o]
      BY <2>10, <3>1, SlotsKept
    <3>2. CASE page'[o] # page[o]
      <4>1. o = b /\ page'[b] = p /\ p.url = q.url
        BY <2>4, <2>9, <3>2
      <4>2. Carries(d, q.url)
        BY <1>2, <2>1 DEF CallSound, Carries, Handled
      <4>3. firstVisit[b][q.url] # 0
        BY <1>2, <2>2 DEF CallSound
      <4>4. PageSound(b, p)
        BY <1>2, <2>1, <2>4, <4>1, <4>2, <4>3 DEF PageSound
      <4> QED
        BY <2>10, <4>1, <4>4, PageKept, PageSlot
    <3> QED
      BY <3>1, <3>2
  <2>12. ASSUME NEW r \in Refs \ raced PROVE OneFlow(r)'
    <3>1. OneFlow(r) /\ answers'[r] = answers[r] /\ (Gone(r)' <=> Gone(r))
      BY <1>4 DEF AuthInv, Gone
    <3>2. \A j \in Calls : Works(j, r)' => j # k /\ Works(j, r) /\ call'[j] = call[j]
      BY <2>6, <2>7 DEF Works, Working
    <3>3. \A o \in Browsers : page'[o] = page[o] => (Holds(o, r)' <=> Holds(o, r))
      BY DEF Holds
    <3>4. CASE page'[b] = page[b] \/ ~Holds(b, r)'
      BY <2>9, <3>1, <3>2, <3>3, <3>4, FlowKept
    <3>5. CASE page'[b] # page[b] /\ Holds(b, r)'
      <4>1. q.url.ref = r
        BY <2>4, <2>9, <3>5 DEF Holds
      <4>2. Works(k, r)
        BY <1>1, <1>2, <4>1 DEF Works
      <4>3. /\ answers[r] = 0 /\ \A j \in Calls : Works(j, r) => j = k
            /\ \A o \in Browsers : Holds(o, r) => o = b
        BY <1>1, <2>2, <3>1, <4>2 DEF OneFlow
      <4>4. /\ \A j \in Calls : ~Works(j, r)'
            /\ \A o \in Browsers : Holds(o, r)' => o = b
        BY <2>9, <3>2, <3>3, <4>3
      <4> QED
        BY <3>1, <4>3, <4>4 DEF OneFlow
    <3> QED
      BY <3>4, <3>5
  <2>13. /\ pushed' \in [Refs -> PushedAuthorization \cup {Absent}] /\ answers' \in [Refs -> Nat]
         /\ \A r \in Refs : pushed'[r] \in {pushed[r], Absent}
    BY <1>4 DEF AuthInv, TypeOK
  <2> QED
    BY <1>4, <2>6, <2>9, <2>11, <2>12, <2>13, EndKeeps
<1> QED
  BY <1>5, <1>6

--------------------------------------------------------------------------------
(* The invariant.                                                           *)

\* The invariant holds at the start,
LEMMA InitInv == Init => AuthInv
<1> SUFFICES ASSUME Init PROVE AuthInv
  OBVIOUS
<1>1. /\ page \in [Browsers -> Page] /\ call \in [Calls -> Call]
      /\ \A b \in Browsers : page[b].at = "none" /\ page[b].next = "authorize"
      /\ \A k \in Calls : call[k].pc = "idle"
  BY BlankType, IdleType DEF Init
<1>2. Anonymous \in Sessions /\ Anonymous.reauth = Elsewhere
  BY DEF Sessions, Anonymous
<1>3. NoConsent \in Consent /\ NoConsent.scopes = {}
  BY DEF NoConsent, Consent
<1>4. TypeOK
  BY <1>1, <1>2, <1>3 DEF Init, TypeOK
<1>5. PushInv /\ ConsentInv
  BY <1>1, <1>3 DEF Init, PushInv, ConsentInv
<1>6. \A b \in Browsers : PageSound(b, page[b]) /\ SessionSound(b, session[b])
  BY <1>1, <1>2 DEF Init, PageSound, Consenting, SessionSound
<1>7. \A k \in Calls : CallSound(call[k])
  BY <1>1 DEF CallSound, Working
<1>8. \A r \in Refs : OneFlow(r)
  BY <1>1 DEF Init, OneFlow, Works, Working, Holds, Consenting
<1> QED
  BY <1>4, <1>5, <1>6, <1>7, <1>8 DEF AuthInv

\* what a page asks for keeps it,
LEMMA ServePageKeeps ==
  ASSUME AuthInv, NEW b \in Browsers, ServePage(b)
  PROVE  AuthInv'
<1>1. CASE AuthorizeRefused(b)
  BY <1>1, GoToDoneKeeps
<1>2. CASE AuthorizeGated(b)
  BY <1>2, AuthorizeGatedKeeps
<1>3. CASE AuthorizeToConsent(b)
  BY <1>3, AuthorizeToConsentKeeps
<1>4. CASE ConsentLogin(b)
  BY <1>4, ConsentLoginKeeps
<1>5. CASE ConsentForm(b)
  BY <1>5, ConsentFormKeeps
<1>6. ASSUME NEW k \in Calls, AuthorizeSpent(b, k) \/ AuthorizePassed(b, k) \/ HandleConsent(b, k)
      PROVE  AuthInv'
  BY <1>6, AuthorizeSpentKeeps, AuthorizePassedKeeps, HandleConsentKeeps
<1> QED
  BY <1>1, <1>2, <1>3, <1>4, <1>5, <1>6 DEF ServePage

\* so do the steps of the calls
LEMMA ServeCallKeeps ==
  ASSUME AuthInv, NEW k \in Calls, ServeCall(k) \/ Abort(k)
  PROVE  AuthInv'
BY PurgeKeeps, ConsentLookupKeeps, GrantReadKeeps, GrantSaveKeeps, IssueCodeKeeps, CompleteKeeps,
   RespondKeeps, AbortKeeps DEF ServeCall

\* and the answers to the forms,
LEMMA AnswerFormKeeps ==
  ASSUME AuthInv, NEW b \in Browsers, AnswerForm(b)
  PROVE  AuthInv'
BY SignInKeeps, GoToDoneKeeps, ConsentAuthorizeKeeps DEF AnswerForm

\* and hence every step.
LEMMA StepInv == AuthInv /\ [Next]_vars => AuthInv'
<1> SUFFICES ASSUME AuthInv, [Next]_vars PROVE AuthInv'
  OBVIOUS
<1>1. ASSUME NEW r \in Refs, NEW d \in Pushed, NEW proof \in Keys \cup {NoKey}, Push(r, d, proof)
      PROVE  AuthInv'
  BY <1>1, PushKeeps
<1>2. ASSUME NEW b \in Browsers, NEW u \in Urls, Navigate(b, u) PROVE AuthInv'
  BY <1>2, NavigateKeeps
<1>3. ASSUME NEW b \in Browsers, (\E user \in Users : SignInElsewhere(b, user)) \/ SignOut(b)
      PROVE  AuthInv'
  BY <1>3, SessionKeeps
<1>4. ASSUME NEW b \in Browsers, ServePage(b) \/ AnswerForm(b) PROVE AuthInv'
  BY <1>4, ServePageKeeps, AnswerFormKeeps
<1>5. ASSUME NEW k \in Calls, ServeCall(k) \/ Abort(k) PROVE AuthInv'
  BY <1>5, ServeCallKeeps
<1>6. CASE Tick
  BY <1>6, TickKeeps
<1>7. CASE UNCHANGED vars
  <2>1. Grows
    BY <1>7 DEF vars, Grows
  <2>2. TypeOK' /\ PushInv' /\ ConsentInv'
    BY <1>7 DEF vars, AuthInv, TypeOK, PushInv, ConsentInv, Gone
  <2>3. \A r \in Refs \ raced' : OneFlow(r)'
    BY <1>7 DEF vars, AuthInv, OneFlow, Works, Holds, Gone
  <2> QED
    BY <1>7, <2>1, <2>2, <2>3, SlotsKept DEF vars, AuthInv
<1> QED
  BY <1>1, <1>2, <1>3, <1>4, <1>5, <1>6, <1>7 DEF Next

\* Whatever browsers, clients and calls interleave, every page, session and call of
\* the authorization endpoint is sound, and a request_uri that was not raced is in
\* the hands of one flow.
THEOREM AuthInvariant == Spec => []AuthInv
BY InitInv, StepInv, PTL DEF Spec

--------------------------------------------------------------------------------
(* What follows from it.                                                    *)

\* A code comes from a call that is sound.
LEMMA CodeSound ==
  ASSUME AuthInv, NEW code \in Codes
  PROVE  CallSound(code) /\ Working(code) /\ code.pc \in {"complete", "respond"}
BY DEF AuthInv, Codes, Working

\* No code without consent: is_required and grant let through only what the user
\* named by the cookie accepted on the form, whichever cookie came with which page.
THEOREM ApprovalHolds == Spec => []CodesApproved
<1>1. AuthInv => CodesApproved
  <2> SUFFICES ASSUME AuthInv PROVE CodesApproved
    OBVIOUS
  <2>1. ASSUME NEW c \in Codes, c.demand.client \in RequireConsent
        PROVE  c.user \in Users /\ c.demand.scopes \subseteq approved[c.user][c.demand.client]
    BY <2>1, CodeSound DEF CallSound, Accepted
  <2> QED
    BY <2>1 DEF CodesApproved, AuthInv, ConsentInv
<1> QED
  BY <1>1, AuthInvariant, PTL

\* A code that /authorize issues to a signed-in user meets prompt=login and max_age:
\* the gate counts a login only for the URL that started it, and that login came
\* after the first visit of the URL.
THEOREM FreshLoginHolds == Spec => []FreshLogin
<1>1. AuthInv => FreshLogin
  BY CodeSound DEF FreshLogin, CallSound, LoginFresh
<1> QED
  BY <1>1, AuthInvariant, PTL

\* A code is for the client, the scopes and the key of the demand made at its URL,
\* pushed or not, through every redirection and form.
THEOREM RequestMatched == Spec => []CodeMatchesRequest
<1>1. AuthInv => CodeMatchesRequest
  BY CodeSound DEF CodeMatchesRequest, CallSound, Carries
<1> QED
  BY <1>1, AuthInvariant, PTL

\* A client that must push gets codes from pushed requests only, and a request_uri
\* yields one response, unless two flows held it at once.
THEOREM PushedOnce == Spec => []PushedOnceUnlessRaced
<1>1. AuthInv => PushedOnceUnlessRaced
  <2> SUFFICES ASSUME AuthInv PROVE PushedOnceUnlessRaced
    OBVIOUS
  <2>1. ASSUME NEW code \in Codes, code.demand.client \in ParRequired PROVE code.url.ref # NoRef
    <3>1. Carries(code.demand, code.url)
      BY CodeSound DEF CallSound
    <3> QED
      BY <2>1, <3>1 DEF Carries, MustPush, Original
  <2>2. ASSUME NEW r \in Refs, r \notin raced PROVE answers[r] <= 1
    <3>1. OneFlow(r)
      BY <2>2 DEF AuthInv
    <3> QED
      BY <3>1 DEF OneFlow
  <2> QED
    BY <2>1, <2>2 DEF PushedOnceUnlessRaced
<1> QED
  BY <1>1, AuthInvariant, PTL

\* No step takes a scope out of a stored consent, unless two grants for it read the
\* store before either saved.
THEOREM ConsentKept == Spec => ConsentKeptUnlessOverlapped
<1> DEFINE Kept == \A u \in Users, c \in Clients :
                     \/ consents[u][c].scopes \subseteq consents'[u][c].scopes
                     \/ <<u, c>> \in overlapped
<1>1. AuthInv /\ [Next]_vars => [Kept]_vars
  <2> SUFFICES ASSUME AuthInv, Next PROVE Kept
    BY DEF vars
  <2>1. CASE consents' = consents
    BY <2>1
  <2>2. ASSUME NEW k \in Calls, GrantSave(k) PROVE Kept
    <3>1. PICK q \in Call : q = call[k]
      BY CallOf
    <3>2. q.pc = "save" /\ q.user \in Users
      BY <2>2, <3>1, CallOf DEF GrantSave, Working, CallSound, Accepted
    <3>3. PICK u \in Users, cl \in Clients : u = q.user /\ cl = q.demand.client
      BY <3>1, <3>2, CallOf DEF Working
    <3>4. consents \in [Users -> [Clients -> Consent]]
      BY DEF AuthInv, TypeOK
    <3>5. consents' = [consents EXCEPT ![u] =
                         [consents[u] EXCEPT ![cl] = [stored |-> TRUE, scopes |-> q.merged]]]
      BY <2>2, <3>1, <3>3, <3>4 DEF GrantSave
    <3>6. /\ consents'[u][cl].scopes = q.merged
          /\ \A v \in Users, d \in Clients : v # u \/ d # cl => consents'[v][d] = consents[v][d]
      BY <3>4, <3>5
    <3>7. <<u, cl>> \in overlapped \/ consents[u][cl].scopes \subseteq q.merged
      BY <3>1, <3>2, <3>3 DEF AuthInv, ConsentInv
    <3> QED
      BY <3>6, <3>7
  <2>3. (\E k \in Calls : GrantSave(k)) \/ consents' = consents
    BY DEF Next, Push, Navigate, SignInElsewhere, SignOut, ServePage, AuthorizeRefused,
           AuthorizeGated, AuthorizeToConsent, ConsentLogin, ConsentForm, AuthorizeSpent,
           AuthorizePassed, HandleConsent, AnswerForm, SignIn, CancelSignUp, ConsentDeny,
           ConsentAuthorize, ServeCall, Purge, ConsentLookup, GrantRead, IssueCode, Complete,
           Respond, Abort, Tick, stores
  <2> QED
    BY <2>1, <2>2, <2>3
<1> QED
  BY <1>1, AuthInvariant, PTL DEF Spec, ConsentKeptUnlessOverlapped

--------------------------------------------------------------------------------
(* AuthorizeRequests: what the same endpoint decides about one request.  Its *)
(* assumptions are hypotheses of what follows.                               *)

CONSTANTS
  NoClient, KnownScopes, KnownResources, BadUris, RealmUris, ServerAlg, Visits, SessionIds,
  ClientIds, Entities, Registered, TrustChain, Changes(_), Cases

VARIABLES
  registry, changed, raw, visit, replays, accepted, jtiRaced

Q == INSTANCE AuthorizeRequests WITH Sessions <- SessionIds, raced <- jtiRaced

--------------------------------------------------------------------------------
(* Visits *)

\* A visit that is answered, and one that goes on.
Ended(x, a) == [x EXCEPT !.stage = "answered", !.answer = a]
Moved(x, s, p) == [x EXCEPT !.stage = s, !.params = p]

\* The one keeps the rest;
LEMMA AnsweredVisit ==
  ASSUME NEW x, Q!Shape(x), NEW a, NEW y, y = Ended(x, a)
  PROVE  /\ Q!Shape(y) /\ y.stage = "answered" /\ y.answer = a /\ y.session = x.session
         /\ y.signed_in = x.signed_in /\ y.params = x.params /\ y.client = x.client
         /\ y.mode = x.mode /\ y.code = x.code
<1>1. PICK s, se, si, p, c, m, co, an :
        x = [stage |-> s, session |-> se, signed_in |-> si, params |-> p, client |-> c,
             mode |-> m, code |-> co, answer |-> an]
  BY DEF Q!Shape
<1>2. y = [stage |-> "answered", session |-> se, signed_in |-> si, params |-> p, client |-> c,
           mode |-> m, code |-> co, answer |-> a]
  BY <1>1 DEF Ended
<1> QED
  BY <1>1, <1>2 DEF Q!Shape

\* so does the other.
LEMMA ProceedingVisit ==
  ASSUME NEW x, Q!Shape(x), NEW s1, NEW p1, NEW y, y = Moved(x, s1, p1)
  PROVE  /\ Q!Shape(y) /\ y.stage = s1 /\ y.params = p1 /\ y.session = x.session
         /\ y.signed_in = x.signed_in /\ y.answer = x.answer /\ y.client = x.client
         /\ y.mode = x.mode /\ y.code = x.code
<1>1. PICK s, se, si, p, c, m, co, an :
        x = [stage |-> s, session |-> se, signed_in |-> si, params |-> p, client |-> c,
             mode |-> m, code |-> co, answer |-> an]
  BY DEF Q!Shape
<1>2. y = [stage |-> s1, session |-> se, signed_in |-> si, params |-> p1, client |-> c,
           mode |-> m, code |-> co, answer |-> an]
  BY <1>1 DEF Moved
<1> QED
  BY <1>1, <1>2 DEF Q!Shape

\* The step replaces the visit by y.
Replaces(v, y) ==
  v \in Visits /\ visit' = [visit EXCEPT ![v] = y]

\* An answer replaces the visit by one that is answered,
LEMMA AnswerReplaces ==
  ASSUME DOMAIN visit = Visits, NEW v \in Visits, NEW a, Q!Answer(v, a)
  PROVE  \E y : Replaces(v, y) /\ y = Ended(visit[v], a)
BY DEF Q!Answer, Replaces, Ended

\* and going on by one at the next stage.
LEMMA ProceedReplaces ==
  ASSUME DOMAIN visit = Visits, NEW v \in Visits, NEW s, NEW p, Q!Proceed(v, s, p)
  PROVE  \E y : Replaces(v, y) /\ y = Moved(visit[v], s, p)
<1> DEFINE y == Moved(visit[v], s, p)
<1>1. visit' = [visit EXCEPT ![v] = y]
  BY DEF Q!Proceed, Moved
<1> QED
  BY <1>1 DEF Replaces

--------------------------------------------------------------------------------
(* The properties of one visit *)

Addressed(uri) == \E c \in ClientIds : uri \in Q!UrisOf(c)

\* The refusals that come before the client is looked up, to the URI of the
\* request.
Unseen(p, uri, error) ==
  /\ Q!RefusedUnseen(p) /\ uri = p.redirect_uri
  /\ error \in {"unsupported_response_type", "invalid_request"}

TargetOf(x) ==
  x.answer.kind = "redirect" =>
    \/ Addressed(x.answer.uri)
    \/ Unseen(x.params, x.answer.uri, x.answer.error) /\ x.answer.carries = {} /\ ~x.code

QueryOf(x) ==
  Q!HasTokens(x.answer.carries) /\ Q!Carrier(x.answer.mode) = "query" =>
    x.answer.mode = "jwt" /\ x.params.response_mode = "jwt" /\ x.client.jarm

LinksOf(a) ==
  "id_token" \in a.carries
    => /\ "code" \in a.carries => a.c_hash = Q!Digest[a.alg]
       /\ "token" \in a.carries /\ a.alg = ServerAlg => a.at_hash = Q!Digest[a.alg]

\* The mode m is one for a refusal of a request with the parameters p.
Fits(p, m) ==
  \/ m = Q!ResolveResponseMode(p.response_mode, Q!HasTokens(p.response_type))
  \/ /\ Q!ResolveResponseMode(p.response_mode, Q!HasTokens(p.response_type)) = "none"
     /\ m = "fragment"
  \/ /\ p.response_mode = "fragment" /\ m = "query"
     /\ raw.by # "none" /\ raw.transport.client_id \in Entities

Asked(x) == IF x.params = Q!Blank THEN raw.transport ELSE x.params

TransportOf(x) ==
  (/\ x.answer.kind = "redirect" /\ x.answer.error # Q!Empty /\ Asked(x).response_mode # "jwt"
   /\ ~(x.answer.error = "invalid_client" /\ x.stage = "answered" /\ x.client # NoClient))
  => Fits(Asked(x), x.answer.mode)

VainOf(x) ==
  (x.signed_in /\ x.answer.kind = "page" /\ ~changed /\ raw.by = "none")
    => raw.transport.client_id \in Entities

FapiOf(x) ==
  (/\ x.client # NoClient /\ x.client.profile = "fapi1" /\ raw.transport.client_id # Q!Empty
   /\ x.params.client_id = raw.transport.client_id /\ ~Q!BecameFapi(raw.transport.client_id))
  => Q!FromObject(x.params, raw.transport.client_id)

ReplayOf(x) ==
  x.answer.error = "replay" => <<x.session, raw.document.jti>> \in DOMAIN accepted \/ raw.document.sub

RememberOf(x) ==
  x.stage = "remember" /\ <<x.session, raw.document.jti>> \in DOMAIN accepted
    => <<x.session, raw.document.jti>> \in jtiRaced

\* Everything that the invariant says of one visit, except about its jti.
Sound(x) ==
  /\ Q!VisitType(x) /\ Q!IssuingInv(x) /\ Q!FapiInv(x) /\ Q!LoginInv(x)
  /\ TargetOf(x) /\ QueryOf(x) /\ LinksOf(x.answer) /\ TransportOf(x) /\ VainOf(x) /\ FapiOf(x)

\* What it says of the jti.
JtiSound ==
  /\ now \in Nat
  /\ \A r \in replays :
       r.exp = raw.document.exp /\ (r.key \in DOMAIN accepted \/ raw.document.sub)
  /\ \A k \in DOMAIN accepted :
       accepted[k] \in Nat /\ (raw.document.exp <= now \/ \E r \in replays : r.key = k)
  /\ Q!JtiOncePerScope

\* The invariant is about the registry, the store and each visit.
LEMMA Parts ==
  Q!RequestInv <=> /\ Q!RegistryInv /\ JtiSound /\ raw \in Cases /\ DOMAIN visit = Visits
                   /\ \A v \in Visits : Sound(visit[v]) /\ ReplayOf(visit[v]) /\ RememberOf(visit[v])
<1>1. Q!AnswersAddressed <=> \A v \in Visits : TargetOf(visit[v]) /\ VainOf(visit[v])
  BY DEF Q!AnswersAddressed, Q!TargetRegistered, Q!LoginNotInVain, TargetOf, VainOf, Unseen, Addressed
<1>2. Q!AnswerSound <=> \A v \in Visits :
        QueryOf(visit[v]) /\ LinksOf(visit[v].answer) /\ TransportOf(visit[v])
  BY DEF Q!AnswerSound, Q!TokensNeverBareInQuery, Q!ErrorTransport, Q!LinksVerifiable, QueryOf, LinksOf,
         TransportOf, Asked, Fits
<1>3. Q!ObjectsHonoured <=> Q!JtiOncePerScope /\ \A v \in Visits : ReplayOf(visit[v]) /\ FapiOf(visit[v])
  BY DEF Q!ObjectsHonoured, Q!ResumeNotReplay, Q!FapiFromObject, ReplayOf, FapiOf, Q!JtiKey
<1>4. Q!JtiInv /\ Q!JtiOncePerScope <=> JtiSound /\ \A v \in Visits : RememberOf(visit[v])
  BY DEF Q!JtiInv, JtiSound, RememberOf, Q!JtiKey
<1> QED
  BY <1>1, <1>2, <1>3, <1>4 DEF Q!RequestInv, Sound

\* The same after a step.
LEMMA PartsNext ==
  ASSUME Q!RegistryInv', JtiSound', (raw \in Cases)', DOMAIN visit' = Visits,
         \A v \in Visits : Sound(visit[v])' /\ ReplayOf(visit[v])' /\ RememberOf(visit[v])'
  PROVE  Q!RequestInv'
<1>1. Q!AnswersAddressed'
  BY DEF Q!AnswersAddressed, Q!TargetRegistered, Q!LoginNotInVain, Sound, TargetOf, VainOf, Unseen, Addressed
<1>2. Q!AnswerSound'
  BY DEF Q!AnswerSound, Q!TokensNeverBareInQuery, Q!ErrorTransport, Q!LinksVerifiable, Sound, QueryOf, LinksOf,
         TransportOf, Asked, Fits
<1>3. Q!ObjectsHonoured'
  BY DEF Q!ObjectsHonoured, Q!ResumeNotReplay, Q!FapiFromObject, Sound, ReplayOf, FapiOf, Q!JtiKey, JtiSound
<1>4. Q!JtiInv'
  BY DEF Q!JtiInv, JtiSound, RememberOf, Q!JtiKey
<1> QED
  BY <1>1, <1>2, <1>3, <1>4 DEF Q!RequestInv, Sound

\* What is said of a visit does not depend on the clock and the store;
LEMMA SoundKept ==
  ASSUME NEW x, Sound(x), UNCHANGED <<registry, changed, raw>>
  PROVE  Sound(x)'
<1>1. Q!VisitType(x)' /\ Q!IssuingInv(x)'
  BY DEF Sound, Q!VisitType, Q!IssuingInv
<1>2. Q!FapiInv(x)'
  BY DEF Sound, Q!FapiInv, Q!FapiAllAlong, Q!FromObject
<1>3. Q!LoginInv(x)'
  BY DEF Sound, Q!LoginInv, Q!Unsigned, Q!Admissible, Q!Redirectable, Q!ClientAtFirst
<1>4. TransportOf(x)'
  BY DEF Sound, TransportOf, Asked, Fits
<1>5. VainOf(x)' /\ FapiOf(x)'
  BY DEF Sound, VainOf, FapiOf, Q!BecameFapi, Q!FromObject
<1>6. TargetOf(x)' /\ QueryOf(x)' /\ LinksOf(x.answer)'
  BY DEF Sound, TargetOf, QueryOf, LinksOf, Addressed, Unseen, Q!RefusedUnseen
<1> QED
  BY <1>1, <1>2, <1>3, <1>4, <1>5, <1>6 DEF Sound

\* the registry on the registry alone.
LEMMA RegistryKept ==
  ASSUME Q!RegistryInv, UNCHANGED <<registry, changed>>
  PROVE  Q!RegistryInv'
BY DEF Q!RegistryInv

\* What is said of the jti does not depend on the registry.
LEMMA StoreKept ==
  ASSUME UNCHANGED <<now, raw, replays, accepted, jtiRaced>>
  PROVE  /\ JtiSound => JtiSound'
         /\ \A x : (ReplayOf(x) => ReplayOf(x)') /\ (RememberOf(x) => RememberOf(x)')
BY DEF JtiSound, Q!JtiOncePerScope, ReplayOf, RememberOf

\* The other visits stay as they are.
LEMMA OneReplaced ==
  ASSUME DOMAIN visit = Visits, NEW v, NEW y, Replaces(v, y)
  PROVE  /\ DOMAIN visit' = Visits /\ visit'[v] = y
         /\ \A w \in Visits : w # v => visit'[w] = visit[w]
BY DEF Replaces

\* A step of one visit keeps the invariant when the visit is sound after it.
LEMMA VisitStep ==
  ASSUME Q!RequestInv, NEW v, NEW y, Replaces(v, y), UNCHANGED <<Q!world, Q!store>>,
         Sound(y), ReplayOf(y), RememberOf(y)
  PROVE  Q!RequestInv'
<1>1. UNCHANGED <<now, registry, changed, raw, replays, accepted, jtiRaced>>
  BY DEF Q!world, Q!store
<1>2. /\ Q!RegistryInv /\ JtiSound /\ raw \in Cases /\ DOMAIN visit = Visits
      /\ \A w \in Visits : Sound(visit[w]) /\ ReplayOf(visit[w]) /\ RememberOf(visit[w])
  BY Parts
<1>3. Q!RegistryInv' /\ JtiSound' /\ (raw \in Cases)'
  BY <1>1, <1>2, RegistryKept, StoreKept
<1>4. /\ DOMAIN visit' = Visits /\ visit'[v] = y
      /\ \A w \in Visits : w # v => visit'[w] = visit[w]
  BY <1>2, OneReplaced
<1>5. ASSUME NEW w \in Visits
      PROVE  Sound(visit[w])' /\ ReplayOf(visit[w])' /\ RememberOf(visit[w])'
  <2>1. PICK x : x = visit'[w] /\ Sound(x) /\ ReplayOf(x) /\ RememberOf(x)
    BY <1>2, <1>4
  <2>2. Sound(x)' /\ ReplayOf(x)' /\ RememberOf(x)'
    BY <1>1, <2>1, SoundKept, StoreKept
  <2>3. Q!VisitType(visit[w])' /\ Q!IssuingInv(visit[w])'
    BY <2>1, <2>2 DEF Sound, Q!VisitType, Q!IssuingInv, Q!Shape
  <2>4. Q!FapiInv(visit[w])' /\ Q!LoginInv(visit[w])'
    BY <2>1, <2>2 DEF Sound, Q!FapiInv, Q!LoginInv
  <2>5. TargetOf(visit[w])' /\ QueryOf(visit[w])' /\ LinksOf(visit[w].answer)'
    BY <2>1, <2>2 DEF Sound, TargetOf, QueryOf, LinksOf
  <2>6. TransportOf(visit[w])' /\ VainOf(visit[w])' /\ FapiOf(visit[w])'
    BY <2>1, <2>2 DEF Sound, TransportOf, Asked, VainOf, FapiOf
  <2>7. ReplayOf(visit[w])' /\ RememberOf(visit[w])'
    BY <2>1, <2>2 DEF ReplayOf, RememberOf
  <2> QED
    BY <2>3, <2>4, <2>5, <2>6, <2>7 DEF Sound
<1> QED
  BY <1>3, <1>4, <1>5, PartsNext

--------------------------------------------------------------------------------
(* Answers *)

\* The empty string is none of these.
LEMMA EmptyIs ==
  Q!Empty \notin {"replay", "jwt", "form_post", "fragment", "query", "none", "invalid_client"}
BY Zenon DEF Q!Empty

\* Nothing is said of a visit without an answer.
LEMMA UnansweredSound ==
  ASSUME NEW x, x.answer = Q!NoAnswer
  PROVE  /\ TargetOf(x) /\ QueryOf(x) /\ LinksOf(x.answer) /\ TransportOf(x) /\ VainOf(x)
         /\ ReplayOf(x)
<1>1. x.answer.kind = "none" /\ x.answer.carries = {} /\ x.answer.error # "replay"
  BY EmptyIs DEF Q!NoAnswer
<1>2. QueryOf(x) /\ LinksOf(x.answer)
  BY <1>1 DEF QueryOf, LinksOf, Q!HasTokens
<1>3. TargetOf(x) /\ TransportOf(x) /\ VainOf(x) /\ ReplayOf(x)
  BY <1>1 DEF TargetOf, TransportOf, VainOf, ReplayOf
<1> QED
  BY <1>2, <1>3

\* The fields of an error page,
LEMMA PageFields ==
  ASSUME NEW e, NEW a, a = Q!Page(e)
  PROVE  a.kind = "page" /\ a.error = e /\ a.carries = {} /\ a.mode = Q!Empty
BY DEF Q!Page, Q!NoAnswer

\* and those of a redirection.
LEMMA RedirectFields ==
  ASSUME NEW u, NEW m, NEW e, NEW a, a = Q!Redirect(u, m, e)
  PROVE  a.kind = "redirect" /\ a.uri = u /\ a.mode = m /\ a.error = e /\ a.carries = {}
BY DEF Q!Redirect, Q!NoAnswer

\* An answered visit has no obligations but those of its answer.
LEMMA AnsweredSound ==
  ASSUME NEW x, Sound(x), x.stage # "answered", NEW a, NEW y,
         y = Ended(x, a),
         TargetOf(y), QueryOf(y), LinksOf(a), TransportOf(y), VainOf(y)
  PROVE  Sound(y) /\ RememberOf(y)
<1>1. /\ Q!Shape(y) /\ y.stage = "answered" /\ y.answer = a /\ y.session = x.session
      /\ y.signed_in = x.signed_in /\ y.params = x.params /\ y.client = x.client
      /\ y.mode = x.mode /\ y.code = x.code
  <2>1. Q!Shape(x)
    BY DEF Sound, Q!VisitType
  <2> QED
    BY <2>1, AnsweredVisit
<1>2. Q!IssuingInv(y) /\ Q!FapiInv(y) /\ RememberOf(y)
  BY <1>1 DEF Q!IssuingInv, Q!FapiInv, RememberOf, Q!Under
<1>5. Q!VisitType(y)
  <2>1. DOMAIN y.params = Q!Fields
    BY <1>1 DEF Sound, Q!VisitType
  <2> QED
    BY <1>1, <2>1 DEF Q!VisitType, Q!Stages, Q!Under
<1>3. Q!LoginInv(y)
  BY <1>1 DEF Sound, Q!LoginInv
<1>4. FapiOf(y)
  BY <1>1 DEF Sound, FapiOf
<1> QED
  BY <1>1, <1>2, <1>3, <1>4, <1>5 DEF Sound

--------------------------------------------------------------------------------
(* Clients and where they wait *)

\* A client that is found is one that a client is or was;
LEMMA FoundClient ==
  ASSUME Q!EntityAssumption, Q!RegistryInv, NEW c, NEW client \in Q!FindById(c), client # NoClient
  PROVE  c \in ClientIds /\ client \in Q!ClientsOf(c)
<1>1. c \in ClientIds
  BY DEF Q!FindById
<1>2. CASE registry[c] # NoClient
  <2>1. client = registry[c]
    BY <1>1, <1>2 DEF Q!FindById
  <2>2. registry[c] = Registered[c] \/ (Registered[c] # NoClient /\ registry[c] \in Changes(Registered[c]))
    BY <1>1 DEF Q!RegistryInv
  <2> QED
    BY <1>1, <1>2, <2>1, <2>2 DEF Q!ClientsOf
<1>3. CASE registry[c] = NoClient
  <2>1. c \in Entities /\ client = TrustChain[c]
    BY <1>1, <1>3 DEF Q!FindById
  <2> QED
    BY <1>1, <2>1 DEF Q!ClientsOf
<1> QED
  BY <1>2, <1>3

\* its URIs are good addresses,
LEMMA FoundUris ==
  ASSUME Q!EntityAssumption, Q!RegistryInv, NEW c, NEW client \in Q!FindById(c), client # NoClient,
         NEW u \in client.redirect_uris
  PROVE  Addressed(u)
<1>1. c \in ClientIds /\ client \in Q!ClientsOf(c)
  BY FoundClient
<1> QED
  BY <1>1 DEF Addressed, Q!UrisOf

\* and so are those of a trust chain.
LEMMA ChainUris ==
  ASSUME Q!EntityAssumption, NEW c, NEW allowed \in Q!AllowedByChain(c), NEW u \in allowed
  PROVE  Addressed(u)
<1>1. c \in Entities /\ u \in TrustChain[c].redirect_uris
  BY DEF Q!AllowedByChain
<1>2. c \in ClientIds /\ TrustChain[c] \in Q!ClientsOf(c)
  BY <1>1 DEF Q!EntityAssumption, Q!ClientsOf
<1> QED
  BY <1>1, <1>2 DEF Addressed, Q!UrisOf

\* The URIs that a refusal of the object may go to are good addresses.
LEMMA AllowedUris ==
  ASSUME Q!EntityAssumption, Q!RegistryInv, NEW c, NEW client \in Q!FindById(c),
         NEW allowed \in Q!ErrorRedirectUris(client, c), NEW u \in allowed
  PROVE  Addressed(u)
<1>1. CASE client # NoClient
  <2>1. u \in client.redirect_uris
    BY <1>1 DEF Q!ErrorRedirectUris
  <2> QED
    BY <1>1, <2>1, FoundUris
<1>2. CASE client = NoClient
  <2>1. PICK first \in Q!AllowedByChain(c), second \in Q!AllowedByChain(Q!UnverifiedIssuer(Q!ByValue)) :
          allowed = IF first # {} THEN first ELSE second
    BY <1>2 DEF Q!ErrorRedirectUris
  <2>2. CASE allowed = first
    BY <2>2, ChainUris
  <2>3. CASE allowed = second
    <3>1. PICK i : i = Q!UnverifiedIssuer(Q!ByValue)
      OBVIOUS
    <3>2. second \in Q!AllowedByChain(i)
      BY <2>1, <3>1
    <3> QED
      BY <2>3, <3>2, ChainUris
  <2> QED
    BY <2>1, <2>2, <2>3
<1> QED
  BY <1>1, <1>2

--------------------------------------------------------------------------------
(* Modes *)

ModeFits(p, m) == p.response_mode # "jwt" => Fits(p, m)

\* A mode that fits needs no signature, so that the signer does not change it.
LEMMA ErrorModeFits ==
  ASSUME NEW p, NEW m, ModeFits(p, m), NEW s
  PROVE  ModeFits(p, Q!ErrorMode(m, s))
<1>1. SUFFICES ASSUME p.response_mode # "jwt"
               PROVE  Fits(p, Q!ErrorMode(m, s))
  BY DEF ModeFits
<1>2. Fits(p, m)
  BY <1>1 DEF ModeFits
<1>3. m # "jwt"
  BY <1>1, <1>2 DEF Fits, Q!ResolveResponseMode
<1> QED
  BY <1>2, <1>3 DEF Q!ErrorMode

\* _requested_error_mode fits,
LEMMA RequestedFits ==
  ASSUME NEW p, NEW client
  PROVE  ModeFits(p, Q!RequestedErrorMode(client, p.response_mode, Q!HasTokens(p.response_type)))
<1>1. PICK t \in BOOLEAN : t = Q!HasTokens(p.response_type)
  BY DEF Q!HasTokens
<1>2. PICK r : r = p.response_mode
  OBVIOUS
<1> QED
  BY <1>1, <1>2 DEF ModeFits, Fits, Q!RequestedErrorMode, Q!ResolveResponseMode

\* and so does _federated_error_mode, but for the fragment it overlooks.
LEMMA FederatedFits ==
  ASSUME NEW p, p = raw.transport, raw.by # "none", raw.transport.client_id \in Entities
  PROVE  ModeFits(p, Q!FederatedErrorMode(p))
<1>1. PICK t \in BOOLEAN : t = Q!HasTokens(p.response_type)
  BY DEF Q!HasTokens
<1>2. PICK r : r = p.response_mode
  OBVIOUS
<1> QED
  BY <1>1, <1>2 DEF ModeFits, Fits, Q!FederatedErrorMode, Q!ResolveResponseMode

\* What validate_authorization_request says of the transport.
LEMMA ValidateFits ==
  ASSUME NEW p, NEW client, NEW reg
  PROVE  ModeFits(p, Q!Validate(p, client, reg).mode)
<1>1. PICK t \in BOOLEAN : t = Q!HasTokens(p.response_type)
  BY DEF Q!HasTokens
<1>2. PICK r : r = p.response_mode
  OBVIOUS
<1>3. Q!Validate(p, client, reg).mode \in
        {Q!ResolveResponseMode(r, t), Q!ErrorResponseMode(r, t)}
  BY <1>1, <1>2 DEF Q!Validate, Q!Refused, Q!RefusedHere, Q!Accepted
<1>4. ASSUME r # "jwt"
      PROVE  \/ Q!ErrorResponseMode(r, t) = Q!ResolveResponseMode(r, t)
             \/ Q!ResolveResponseMode(r, t) = "none" /\ Q!ErrorResponseMode(r, t) = "fragment"
  BY <1>4 DEF Q!ErrorResponseMode
<1> QED
  BY <1>1, <1>2, <1>3, <1>4 DEF ModeFits, Fits

--------------------------------------------------------------------------------
(* Refusals *)

\* A refusal: a page, or a redirection to where a client waits, by a mode that
\* fits.
RefusalOf(a, e, p) ==
  /\ a.error = e /\ a.carries = {}
  /\ a.kind = "page" \/ (a.kind = "redirect" /\ Addressed(a.uri) /\ ModeFits(p, a.mode))

\* error_redirect sends the error to the URI, by a mode that fits.
LEMMA ErrorAnswered ==
  ASSUME NEW v, NEW u, NEW m, NEW e, NEW id, NEW p, Q!AnswerError(v, u, m, e, id), ModeFits(p, m)
  PROVE  \E a : /\ Q!Answer(v, a) /\ a.kind = "redirect" /\ a.uri = u /\ a.error = e
                /\ a.carries = {} /\ ModeFits(p, a.mode)
<1>1. PICK c \in Q!FindById(id) : Q!Answer(v, Q!Redirect(u, Q!ErrorMode(m, Q!Signable(c)), e))
  BY DEF Q!AnswerError
<1>2. PICK n : n = Q!ErrorMode(m, Q!Signable(c)) /\ ModeFits(p, n)
  BY ErrorModeFits
<1>3. PICK a : a = Q!Redirect(u, n, e)
  OBVIOUS
<1>4. a.kind = "redirect" /\ a.uri = u /\ a.mode = n /\ a.error = e /\ a.carries = {}
  BY <1>3, RedirectFields
<1> QED
  BY <1>1, <1>2, <1>3, <1>4

\* An error page is a refusal.
LEMMA PageAnswered ==
  ASSUME NEW v, NEW e, NEW p, Q!Answer(v, Q!Page(e))
  PROVE  \E a : Q!Answer(v, a) /\ a.kind = "page" /\ RefusalOf(a, e, p)
<1>1. PICK a : a = Q!Page(e)
  OBVIOUS
<1>2. a.kind = "page" /\ a.error = e /\ a.carries = {}
  BY <1>1, PageFields
<1> QED
  BY <1>1, <1>2 DEF RefusalOf

\* _request_object_error_response
LEMMA ObjectRefused ==
  ASSUME Q!EntityAssumption, Q!RegistryInv, NEW v, NEW e, Q!RequestObjectError(v, e),
         raw.by # "none" \/ NoClient \notin Q!FindById(raw.transport.client_id)
  PROVE  \E a : Q!Answer(v, a) /\ RefusalOf(a, e, raw.transport)
<1>1. PICK p, id : p = raw.transport /\ id = p.client_id
  OBVIOUS
<1>2. PICK candidate : candidate = IF p.redirect_uri # Q!Empty THEN p.redirect_uri
                                   ELSE Q!UnverifiedClaim(Q!ByValue, "redirect_uri")
  OBVIOUS
<1>3. PICK client \in Q!FindById(id) :
        IF client = NoClient /\ id \notin Entities THEN Q!Answer(v, Q!Page(e))
        ELSE \E allowed \in Q!ErrorRedirectUris(client, id) :
               LET uri == Q!PickErrorRedirectUri(candidate, allowed)
               IN IF uri = Q!Empty THEN Q!Answer(v, Q!Page(e))
                  ELSE IF client = NoClient
                  THEN Q!AnswerError(v, uri, Q!FederatedErrorMode(p), e, id)
                  ELSE Q!AnswerError(v, uri, Q!RequestedErrorMode(client, p.response_mode,
                                               Q!HasTokens(p.response_type)), e, id)
  BY <1>1, <1>2 DEF Q!RequestObjectError
<1>4. CASE Q!Answer(v, Q!Page(e))
  BY <1>4, PageAnswered
<1>5. CASE ~Q!Answer(v, Q!Page(e))
  <2>1. client # NoClient \/ id \in Entities
    BY <1>3, <1>5
  <2>2. PICK allowed \in Q!ErrorRedirectUris(client, id) :
               LET uri == Q!PickErrorRedirectUri(candidate, allowed)
               IN /\ uri # Q!Empty
                  /\ IF client = NoClient
                     THEN Q!AnswerError(v, uri, Q!FederatedErrorMode(p), e, id)
                     ELSE Q!AnswerError(v, uri, Q!RequestedErrorMode(client, p.response_mode,
                                                  Q!HasTokens(p.response_type)), e, id)
    BY <1>3, <1>5, <2>1
  <2>3. PICK uri : uri = Q!PickErrorRedirectUri(candidate, allowed)
    OBVIOUS
  <2>4. uri \in allowed
    BY <2>2, <2>3 DEF Q!PickErrorRedirectUri
  <2>5. Addressed(uri)
    BY <2>4, AllowedUris
  <2>6. PICK m : Q!AnswerError(v, uri, m, e, id) /\ ModeFits(p, m)
    <3>1. CASE client = NoClient
      <4>1. raw.by # "none" /\ raw.transport.client_id \in Entities
        BY <1>1, <1>3, <2>1, <3>1
      <4>2. ModeFits(p, Q!FederatedErrorMode(p))
        BY <1>1, <4>1, FederatedFits
      <4> QED
        BY <2>2, <2>3, <3>1, <4>2
    <3>2. CASE client # NoClient
      <4>1. ModeFits(p, Q!RequestedErrorMode(client, p.response_mode, Q!HasTokens(p.response_type)))
        BY RequestedFits
      <4> QED
        BY <2>2, <2>3, <3>2, <4>1
    <3> QED
      BY <3>1, <3>2
  <2>7. PICK a : /\ Q!Answer(v, a) /\ a.kind = "redirect" /\ a.uri = uri /\ a.error = e
                 /\ a.carries = {} /\ ModeFits(p, a.mode)
    BY <2>6, ErrorAnswered
  <2> QED
    BY <1>1, <2>5, <2>7 DEF RefusalOf
<1> QED
  BY <1>4, <1>5

\* A visit that gets a refusal is sound.
LEMMA RefusalSound ==
  ASSUME NEW x, Sound(x), x.stage # "answered", NEW e, NEW a, NEW y, y = Ended(x, a),
         RefusalOf(a, e, Asked(x)), a.kind = "page" => VainOf(y)
  PROVE  Sound(y) /\ RememberOf(y) /\ y.answer.error = e /\ y.session = x.session
<1>1. /\ y.stage = "answered" /\ y.answer = a /\ y.session = x.session
      /\ y.signed_in = x.signed_in /\ y.params = x.params /\ y.client = x.client
  <2>1. Q!Shape(x)
    BY DEF Sound, Q!VisitType
  <2> QED
    BY <2>1, AnsweredVisit
<1>2. TargetOf(y)
  BY <1>1 DEF RefusalOf, TargetOf
<1>3. QueryOf(y) /\ LinksOf(a)
  BY <1>1 DEF RefusalOf, QueryOf, LinksOf, Q!HasTokens
<1>4. TransportOf(y)
  BY <1>1 DEF RefusalOf, TransportOf, ModeFits, Asked
<1>5. VainOf(y)
  BY <1>1 DEF RefusalOf, VainOf
<1> QED
  BY <1>1, <1>2, <1>3, <1>4, <1>5, AnsweredSound DEF RefusalOf

\* A visit whose object is refused is sound.
LEMMA ObjectRefusedVisit ==
  ASSUME Q!EntityAssumption, Q!RequestInv, NEW v \in Visits, visit[v].stage \in {"arrived", "remember"},
         NEW e, Q!RequestObjectError(v, e),
         raw.by = "none" => /\ NoClient \notin Q!FindById(raw.transport.client_id)
                            /\ visit[v].signed_in /\ ~changed => raw.transport.client_id \in Entities
  PROVE  \E y : /\ Replaces(v, y) /\ Sound(y) /\ RememberOf(y)
                /\ y.answer.error = e /\ y.session = visit[v].session
<1>1. Q!RegistryInv /\ DOMAIN visit = Visits /\ Sound(visit[v])
  BY Parts
<1>2. PICK a : Q!Answer(v, a) /\ RefusalOf(a, e, raw.transport)
  BY <1>1, ObjectRefused
<1>3. PICK x : x = visit[v]
  OBVIOUS
<1>4. PICK y : Replaces(v, y) /\ y = Ended(x, a)
  BY <1>1, <1>2, <1>3, AnswerReplaces
<1>5. Asked(x) = raw.transport /\ Q!Shape(x) /\ x.stage # "answered"
  BY <1>1, <1>3 DEF Sound, Q!VisitType, Asked
<1>6. y.signed_in = x.signed_in
  BY <1>4, <1>5, AnsweredVisit
<1>7. VainOf(y)
  BY <1>3, <1>6 DEF VainOf
<1>8. Sound(y) /\ RememberOf(y) /\ y.answer.error = e /\ y.session = x.session
  BY <1>1, <1>2, <1>3, <1>4, <1>5, <1>7, RefusalSound
<1> QED
  BY <1>3, <1>4, <1>8

--------------------------------------------------------------------------------
(* Resolving the object *)

\* A client that was FAPI 1 all along is found as one.
LEMMA FapiFound ==
  ASSUME Q!ClientAssumption, Q!RegistryInv, NEW c, Q!FapiAllAlong(c), NEW client \in Q!FindById(c)
  PROVE  client # NoClient /\ client.profile = "fapi1"
<1>1. c \in ClientIds /\ Registered[c] # NoClient /\ registry[c].profile = "fapi1"
  BY DEF Q!FapiAllAlong
<1>2. registry[c] # NoClient
  BY <1>1 DEF Q!RegistryInv, Q!ClientAssumption
<1> QED
  BY <1>1, <1>2 DEF Q!FindById

\* Where the client of the query did not change and is none of the federation,
\* it is found as it was.
LEMMA FirstFound ==
  ASSUME Q!RegistryInv, ~changed, raw.transport.client_id \notin Entities,
         NEW client \in Q!FindById(raw.transport.client_id)
  PROVE  client = Q!ClientAtFirst
<1>1. PICK c : c = raw.transport.client_id
  OBVIOUS
<1>2. registry = Registered
  BY DEF Q!RegistryInv
<1> QED
  BY <1>1, <1>2 DEF Q!FindById, Q!ClientAtFirst

\* The client of the query needs no object, as far as this is known.
FirstUnsigned == ~changed /\ raw.transport.client_id \notin Entities => Q!Unsigned

\* A request that is resolved comes from the query, or from the object.
LEMMA ResolvedSound ==
  ASSUME NEW x, Sound(x), x.stage \in {"arrived", "remember"}, NEW p, NEW y,
         y = Moved(x, "resolved", p), DOMAIN p = Q!Fields,
         raw.by = "none" => p = raw.transport /\ FirstUnsigned,
         Q!FapiAllAlong(raw.transport.client_id) => Q!FromObject(p, raw.transport.client_id)
  PROVE  Sound(y) /\ RememberOf(y) /\ ReplayOf(y) /\ y.session = x.session
<1>1. Q!Shape(x) /\ x.answer = Q!NoAnswer /\ x.client = NoClient /\ ~x.code
  BY DEF Sound, Q!VisitType
<1>2. /\ Q!Shape(y) /\ y.stage = "resolved" /\ y.params = p /\ y.session = x.session
      /\ y.signed_in = x.signed_in /\ y.answer = Q!NoAnswer /\ y.client = NoClient
      /\ ~y.code
  BY <1>1, ProceedingVisit
<1>3. Q!VisitType(y)
  BY <1>2 DEF Q!VisitType, Q!Stages
<1>4. Q!IssuingInv(y) /\ Q!FapiInv(y) /\ FapiOf(y) /\ RememberOf(y)
  BY <1>2 DEF Q!IssuingInv, Q!FapiInv, FapiOf, RememberOf
<1>5. Q!LoginInv(y)
  BY <1>2 DEF Sound, Q!LoginInv, FirstUnsigned
<1> QED
  BY <1>2, <1>3, <1>4, <1>5, UnansweredSound DEF Sound

\* Only a request with an object comes to remember a jti.
LEMMA RememberSound ==
  ASSUME NEW x, Sound(x), x.stage = "arrived", NEW y, y = Moved(x, "remember", raw.transport),
         DOMAIN raw.transport = Q!Fields, raw.by # "none", ~Q!FapiAllAlong(raw.transport.client_id)
  PROVE  Sound(y) /\ ReplayOf(y) /\ y.session = x.session
<1>1. Q!Shape(x) /\ x.answer = Q!NoAnswer /\ x.client = NoClient /\ ~x.code
  BY DEF Sound, Q!VisitType
<1>2. /\ Q!Shape(y) /\ y.stage = "remember" /\ y.params = raw.transport /\ y.session = x.session
      /\ y.signed_in = x.signed_in /\ y.answer = Q!NoAnswer /\ y.client = NoClient
      /\ ~y.code
  BY <1>1, ProceedingVisit
<1>3. Q!VisitType(y)
  BY <1>2 DEF Q!VisitType, Q!Stages, Q!Under
<1>4. Q!IssuingInv(y) /\ Q!FapiInv(y) /\ FapiOf(y) /\ Q!LoginInv(y)
  BY <1>2 DEF Q!IssuingInv, Q!FapiInv, FapiOf, Q!LoginInv
<1> QED
  BY <1>2, <1>3, <1>4, UnansweredSound DEF Sound

\* _merge
LEMMA Merged ==
  ASSUME NEW p, NEW doc
  PROVE  DOMAIN Q!Merge(p, doc) = Q!Fields /\ DOMAIN Q!MergeFapi(p, doc) = Q!Fields
BY DEF Q!Merge, Q!MergeFapi

\* _merge_fapi: what the object leaves out is blank.
LEMMA MergedFapi ==
  ASSUME NEW doc, doc = raw.document, NEW t, NEW c, NEW required, NEW time,
         Q!Verifies(doc, c, Q!FapiAlgs, required, time)
  PROVE  Q!FromObject(Q!MergeFapi(t, doc), c)
<1>1. doc.signer = c /\ doc.alg \in Q!FapiAlgs
  BY DEF Q!Verifies
<1>2. PICK b : b = [Q!Blank EXCEPT !.client_id = t.client_id]
  OBVIOUS
<1>3. ASSUME NEW f \in Q!Fields \ {"client_id"}
      PROVE  b[f] = Q!Blank[f]
  BY <1>2, <1>3 DEF Q!Fields
<1>4. ASSUME NEW f \in Q!Fields \ {"client_id"}, f \notin DOMAIN doc.claims
      PROVE  Q!MergeFapi(t, doc)[f] = Q!Blank[f]
  BY <1>2, <1>3, <1>4 DEF Q!MergeFapi, Q!Merge
<1>5. ASSUME NEW f \in Q!Fields, f \in DOMAIN doc.claims
      PROVE  Q!MergeFapi(t, doc)[f] = doc.claims[f]
  BY <1>5 DEF Q!MergeFapi, Q!Merge
<1> QED
  BY <1>1, <1>4, <1>5 DEF Q!FromObject

\* The case is one of those assumed.
LEMMA CaseType ==
  ASSUME Q!CaseAssumption, Q!RequestInv
  PROVE  DOMAIN raw.transport = Q!Fields /\ raw.document.exp \in Nat
         /\ DOMAIN raw.document.claims \subseteq Q!Fields
BY DEF Q!CaseAssumption, Q!RequestInv

\* A visit arrives.
LEMMA ArriveKeeps ==
  ASSUME Q!RequestInv, NEW v \in Visits, Q!Arrive(v)
  PROVE  Q!RequestInv'
<1>1. PICK s : visit' = [visit EXCEPT ![v].stage = "arrived", ![v].session = s]
  BY DEF Q!Arrive
<1>2. DOMAIN visit = Visits /\ Sound(visit[v]) /\ visit[v].stage = "idle" /\ UNCHANGED <<Q!world, Q!store>>
  BY Parts DEF Q!Arrive
<1>3. PICK x : x = visit[v]
  OBVIOUS
<1>4. PICK y : y = [x EXCEPT !.stage = "arrived", !.session = s]
  OBVIOUS
<1>5. Replaces(v, y)
  BY <1>1, <1>2, <1>3, <1>4 DEF Replaces
<1>6. /\ Q!Shape(x) /\ x.answer = Q!NoAnswer /\ x.client = NoClient /\ x.params = Q!Blank
      /\ DOMAIN x.params = Q!Fields /\ ~x.code
  BY <1>2, <1>3 DEF Sound, Q!VisitType
<1>7. /\ Q!Shape(y) /\ y.stage = "arrived" /\ y.params = Q!Blank /\ y.answer = Q!NoAnswer
      /\ y.client = NoClient /\ y.signed_in = x.signed_in /\ ~y.code
  BY <1>4, <1>6 DEF Q!Shape
<1>8. Q!VisitType(y)
  BY <1>6, <1>7 DEF Q!VisitType, Q!Stages, Q!Under
<1>9. Q!IssuingInv(y) /\ Q!FapiInv(y) /\ FapiOf(y) /\ RememberOf(y)
  BY <1>7 DEF Q!IssuingInv, Q!FapiInv, FapiOf, RememberOf, Q!Under
<1>10. Q!LoginInv(y)
  BY <1>2, <1>3, <1>7 DEF Sound, Q!LoginInv
<1>11. Sound(y) /\ ReplayOf(y)
  BY <1>7, <1>8, <1>9, <1>10, UnansweredSound DEF Sound
<1> QED
  BY <1>2, <1>5, <1>9, <1>11, VisitStep

\* The refusals of an object, other than that of a replay.
LEMMA RefusalKeeps ==
  ASSUME Q!EntityAssumption, Q!RequestInv, NEW v \in Visits, visit[v].stage \in {"arrived", "remember"},
         NEW e, e # "replay", Q!RequestObjectError(v, e), UNCHANGED <<Q!world, Q!store>>,
         raw.by = "none" => /\ NoClient \notin Q!FindById(raw.transport.client_id)
                            /\ visit[v].signed_in /\ ~changed => raw.transport.client_id \in Entities
  PROVE  Q!RequestInv'
<1>1. PICK y : /\ Replaces(v, y) /\ Sound(y) /\ RememberOf(y)
               /\ y.answer.error = e /\ y.session = visit[v].session
  BY ObjectRefusedVisit
<1>2. ReplayOf(y)
  BY <1>1 DEF ReplayOf
<1> QED
  BY <1>1, <1>2, VisitStep

\* A visit goes on with its parameters.
LEMMA ResolvedKeeps ==
  ASSUME Q!RequestInv, NEW v \in Visits, visit[v].stage = "arrived", NEW p, DOMAIN p = Q!Fields,
         Q!Proceed(v, "resolved", p), UNCHANGED <<Q!world, Q!store>>,
         raw.by = "none" => p = raw.transport /\ FirstUnsigned,
         Q!FapiAllAlong(raw.transport.client_id) => Q!FromObject(p, raw.transport.client_id)
  PROVE  Q!RequestInv'
<1>1. DOMAIN visit = Visits /\ Sound(visit[v])
  BY Parts
<1>2. PICK x : x = visit[v] /\ Sound(x) /\ x.stage = "arrived"
  BY <1>1
<1>3. PICK y : Replaces(v, y) /\ y = Moved(x, "resolved", p)
  BY <1>1, <1>2, ProceedReplaces
<1>4. Sound(y) /\ RememberOf(y) /\ ReplayOf(y)
  BY <1>2, <1>3, ResolvedSound
<1> QED
  BY <1>3, <1>4, VisitStep

\* The query alone.
LEMMA ResolveWithoutKeeps ==
  ASSUME Q!EntityAssumption, Q!ClientAssumption, Q!CaseAssumption, Q!RequestInv, NEW v \in Visits,
         Q!ResolveWithout(v)
  PROVE  Q!RequestInv'
<1>0. /\ visit[v].stage = "arrived" /\ raw.by = "none" /\ UNCHANGED <<Q!world, Q!store>>
      /\ Q!RegistryInv /\ Sound(visit[v]) /\ DOMAIN raw.transport = Q!Fields
  BY CaseType, Parts DEF Q!ResolveWithout
<1>1. PICK id : id = raw.transport.client_id
  OBVIOUS
<1>2. PICK client \in Q!FindById(id) :
        IF client # NoClient /\ client.profile = "fapi1"
        THEN Q!RequestObjectError(v, "invalid_request")
        ELSE Q!Proceed(v, "resolved", raw.transport)
  BY <1>1 DEF Q!ResolveWithout
<1>3. CASE client # NoClient /\ client.profile = "fapi1"
  <2>1. id \in ClientIds /\ registry[id] # NoClient /\ client = registry[id]
    BY <1>2, <1>3 DEF Q!FindById, Q!EntityAssumption
  <2>2. NoClient \notin Q!FindById(id)
    BY <2>1 DEF Q!FindById
  <2>3. ASSUME visit[v].signed_in, ~changed, id \notin Entities
        PROVE  FALSE
    <3>1. Q!Unsigned
      BY <1>0, <1>1, <2>3 DEF Sound, Q!LoginInv
    <3>2. Q!ClientAtFirst = client
      BY <1>0, <1>1, <1>2, <2>3, FirstFound
    <3> QED
      BY <1>3, <3>1, <3>2 DEF Q!Unsigned
  <2>4. Q!RequestObjectError(v, "invalid_request")
    BY <1>2, <1>3
  <2> QED
    BY <1>0, <1>1, <2>2, <2>3, <2>4, RefusalKeeps
<1>4. CASE ~(client # NoClient /\ client.profile = "fapi1")
  <2>1. ~Q!FapiAllAlong(id)
    BY <1>0, <1>2, <1>4, FapiFound
  <2>2. Q!Proceed(v, "resolved", raw.transport)
    BY <1>2, <1>4
  <2>3. FirstUnsigned
    BY <1>0, <1>1, <1>2, <1>4, FirstFound DEF FirstUnsigned, Q!Unsigned
  <2> QED
    BY <1>0, <1>1, <2>1, <2>2, <2>3, ResolvedKeeps
<1> QED
  BY <1>3, <1>4

\* No object that can be read.
LEMMA ResolveUnreadableKeeps ==
  ASSUME Q!EntityAssumption, Q!RequestInv, NEW v \in Visits, Q!ResolveUnreadable(v)
  PROVE  Q!RequestInv'
<1>1. /\ visit[v].stage = "arrived" /\ raw.by # "none" /\ UNCHANGED <<Q!world, Q!store>>
      /\ \E e \in {"invalid_request", "invalid_request_uri", "invalid_request_object"} :
           Q!RequestObjectError(v, e)
  BY DEF Q!ResolveUnreadable
<1> QED
  BY <1>1, RefusalKeeps

\* Where the jti is looked up it has been accepted before, or it is new.
LEMMA ReplayLooked ==
  ASSUME Q!RequestInv, NEW v \in Visits
  PROVE  /\ (\E r \in replays : r.key = Q!ReplayKey(v)) =>
              Q!JtiKey(v) \in DOMAIN accepted \/ raw.document.sub
         /\ now \in Nat
         /\ ~(\E r \in replays : r.key = Q!ReplayKey(v)) /\ Q!JtiKey(v) \in DOMAIN accepted =>
              raw.document.exp <= now
<1>1. JtiSound
  BY Parts
<1> QED
  BY <1>1 DEF JtiSound, Q!ReplayKey

\* An object that must have an expiry has not expired.
LEMMA FederatedExpiry ==
  ASSUME Q!CaseAssumption, Q!RequestInv, NEW id,
         Q!Verifies(raw.document, id, Q!StandardAlgs, Q!FederatedRequired, now)
  PROVE  now < raw.document.exp
<1>1. PICK doc : doc = raw.document
  OBVIOUS
<1>2. DOMAIN doc.claims \subseteq Q!Fields
  BY <1>1, CaseType
<1>3. "exp" \notin Q!Fields
  BY DEF Q!Fields, Q!Blank
<1>4. "exp" \in Q!ClaimNames(doc)
  BY <1>1 DEF Q!Verifies, Q!FederatedRequired
<1>5. doc.exp # 0
  BY <1>2, <1>3, <1>4 DEF Q!ClaimNames
<1> QED
  BY <1>1, <1>5 DEF Q!Verifies

\* _resolve_standard refuses, goes on, or comes to the jti.
LEMMA StandardOutcomes ==
  ASSUME NEW v, NEW id, NEW client, Q!ResolveStandard(v, id, client)
  PROVE  \/ Q!RequestObjectError(v, "invalid_request_object")
         \/ Q!RequestObjectError(v, "invalid_request")
         \/ Q!Proceed(v, "resolved", Q!Merge(raw.transport, raw.document))
         \/ (\E r \in replays : r.key = Q!ReplayKey(v)) /\ Q!RequestObjectError(v, "replay")
         \/ /\ ~(\E r \in replays : r.key = Q!ReplayKey(v))
            /\ Q!Verifies(raw.document, id, Q!StandardAlgs, Q!FederatedRequired, now)
            /\ Q!Proceed(v, "remember", raw.transport)
BY DEF Q!ResolveStandard

\* The object of a client that is not FAPI 1.
LEMMA ResolveStandardKeeps ==
  ASSUME Q!EntityAssumption, Q!CaseAssumption, Q!RequestInv, NEW v \in Visits,
         visit[v].stage = "arrived", raw.by # "none", UNCHANGED <<Q!world, Q!store>>,
         ~Q!FapiAllAlong(raw.transport.client_id), NEW id, NEW client, Q!ResolveStandard(v, id, client)
  PROVE  Q!RequestInv'
<1>0. DOMAIN visit = Visits /\ Sound(visit[v]) /\ DOMAIN raw.transport = Q!Fields
  BY CaseType, Parts
<1>1. CASE Q!RequestObjectError(v, "invalid_request_object") \/ Q!RequestObjectError(v, "invalid_request")
  BY <1>1, RefusalKeeps
<1>2. CASE Q!Proceed(v, "resolved", Q!Merge(raw.transport, raw.document))
  <2>1. PICK p : p = Q!Merge(raw.transport, raw.document) /\ DOMAIN p = Q!Fields
    BY Merged
  <2> QED
    BY <1>2, <2>1, ResolvedKeeps
<1>3. CASE (\E r \in replays : r.key = Q!ReplayKey(v)) /\ Q!RequestObjectError(v, "replay")
  <2>1. PICK y : /\ Replaces(v, y) /\ Sound(y) /\ RememberOf(y)
                 /\ y.answer.error = "replay" /\ y.session = visit[v].session
    BY <1>3, ObjectRefusedVisit
  <2>2. ReplayOf(y)
    BY <1>3, <2>1, ReplayLooked DEF ReplayOf, Q!JtiKey
  <2> QED
    BY <2>1, <2>2, VisitStep
<1>4. CASE /\ ~(\E r \in replays : r.key = Q!ReplayKey(v))
           /\ Q!Verifies(raw.document, id, Q!StandardAlgs, Q!FederatedRequired, now)
           /\ Q!Proceed(v, "remember", raw.transport)
  <2>1. PICK x : x = visit[v] /\ Sound(x) /\ x.stage = "arrived"
    BY <1>0
  <2>2. PICK y : Replaces(v, y) /\ y = Moved(x, "remember", raw.transport)
    BY <1>0, <1>4, <2>1, ProceedReplaces
  <2>3. Sound(y) /\ ReplayOf(y) /\ y.session = x.session
    BY <1>0, <2>1, <2>2, RememberSound
  <2>4. Q!JtiKey(v) \notin DOMAIN accepted
    <3>1. now < raw.document.exp
      BY <1>4, FederatedExpiry
    <3>2. now \in Nat /\ raw.document.exp \in Nat
      BY CaseType, ReplayLooked
    <3> QED
      BY <1>4, <3>1, <3>2, ReplayLooked
  <2>5. RememberOf(y)
    BY <2>1, <2>3, <2>4 DEF RememberOf, Q!JtiKey
  <2> QED
    BY <2>2, <2>3, <2>5, VisitStep
<1> QED
  BY <1>1, <1>2, <1>3, <1>4, StandardOutcomes

\* An object that can be read.
LEMMA ResolveDocumentKeeps ==
  ASSUME Q!EntityAssumption, Q!ClientAssumption, Q!CaseAssumption, Q!RequestInv, NEW v \in Visits,
         Q!ResolveDocument(v)
  PROVE  Q!RequestInv'
<1>0. /\ visit[v].stage = "arrived" /\ raw.by # "none" /\ UNCHANGED <<Q!world, Q!store>> /\ Q!RegistryInv
  BY Parts DEF Q!ResolveDocument
<1>1. PICK id : id = raw.transport.client_id
  OBVIOUS
<1>2. PICK found \in Q!FindById(id), byIssuer \in Q!FindById(Q!UnverifiedIssuer(raw.document)) :
        LET who == Q!ObjectClient(found, byIssuer)
        IN IF who.client # NoClient /\ who.client.profile = "fapi1"
           THEN Q!ResolveFapi(v, who.id)
           ELSE Q!ResolveStandard(v, who.id, who.client)
  BY <1>1 DEF Q!ResolveDocument
<1>3. PICK who : who = Q!ObjectClient(found, byIssuer)
  OBVIOUS
<1>4. found # NoClient => who.id = id /\ who.client = found
  BY <1>1, <1>3 DEF Q!ObjectClient
<1>5. Q!FapiAllAlong(id) => found # NoClient /\ found.profile = "fapi1"
  BY <1>0, <1>2, FapiFound
<1>6. CASE who.client # NoClient /\ who.client.profile = "fapi1"
  <2>1. Q!ResolveFapi(v, who.id)
    BY <1>2, <1>3, <1>6
  <2>2. CASE Q!RequestObjectError(v, "invalid_request_object")
    BY <1>0, <2>2, RefusalKeeps
  <2>3. CASE /\ Q!Verifies(raw.document, who.id, Q!FapiAlgs, Q!FapiRequired, now)
             /\ Q!Proceed(v, "resolved", Q!MergeFapi(raw.transport, raw.document))
    <3>1. PICK p : p = Q!MergeFapi(raw.transport, raw.document) /\ DOMAIN p = Q!Fields
      BY Merged
    <3>2. Q!FapiAllAlong(id) => Q!FromObject(p, id)
      BY <1>4, <1>5, <2>3, <3>1, MergedFapi
    <3> QED
      BY <1>0, <1>1, <2>3, <3>1, <3>2, ResolvedKeeps
  <2> QED
    BY <2>1, <2>2, <2>3 DEF Q!ResolveFapi
<1>7. CASE ~(who.client # NoClient /\ who.client.profile = "fapi1")
  <2>1. Q!ResolveStandard(v, who.id, who.client)
    BY <1>2, <1>3, <1>7
  <2>2. ~Q!FapiAllAlong(id)
    BY <1>4, <1>5, <1>7
  <2> QED
    BY <1>0, <1>1, <2>1, <2>2, ResolveStandardKeeps
<1> QED
  BY <1>6, <1>7

\* The visit that has a jti to remember ends refused or goes on.
LEMMA RememberVisit ==
  ASSUME Q!EntityAssumption, Q!CaseAssumption, Q!RequestInv, NEW v \in Visits, Q!Remember(v)
  PROVE  \E y : /\ Replaces(v, y) /\ Sound(y) /\ y.answer.error # "replay" /\ y.stage # "remember"
<1>0. /\ visit[v].stage = "remember" /\ DOMAIN visit = Visits /\ Sound(visit[v])
      /\ raw.by # "none" /\ ~Q!FapiAllAlong(raw.transport.client_id)
  BY Parts DEF Q!Remember, Sound, Q!VisitType, Q!FapiInv
<1>1. PICK x : x = visit[v] /\ Sound(x) /\ x.stage = "remember"
  BY <1>0
<1>2. CASE Q!RequestObjectError(v, "invalid_request")
  <2>1. PICK e : e = "invalid_request"
    OBVIOUS
  <2>2. PICK a : Q!Answer(v, a) /\ RefusalOf(a, e, raw.transport)
    BY <1>0, <1>2, <2>1, ObjectRefused, Parts
  <2>3. PICK y : Replaces(v, y) /\ y = Ended(x, a)
    BY <1>0, <1>1, <2>2, AnswerReplaces
  <2>4. Q!Shape(x) /\ Asked(x) = raw.transport /\ VainOf(y)
    BY <1>0, <1>1 DEF Sound, Q!VisitType, Asked, VainOf
  <2>5. Sound(y) /\ y.answer.error = e
    BY <1>1, <2>2, <2>3, <2>4, RefusalSound
  <2>6. y.stage = "answered"
    BY <2>3, <2>4, AnsweredVisit
  <2> QED
    BY <2>1, <2>3, <2>5, <2>6
<1>3. CASE Q!Proceed(v, "resolved", Q!Merge(raw.transport, raw.document))
  <2>1. PICK p : p = Q!Merge(raw.transport, raw.document) /\ DOMAIN p = Q!Fields
    BY Merged
  <2>2. PICK y : Replaces(v, y) /\ y = Moved(x, "resolved", p)
    BY <1>0, <1>1, <1>3, <2>1, ProceedReplaces
  <2>3. Sound(y) /\ Q!Shape(x) /\ x.answer = Q!NoAnswer
    BY <1>0, <1>1, <2>1, <2>2, ResolvedSound DEF Sound, Q!VisitType
  <2>4. y.stage = "resolved" /\ y.answer = Q!NoAnswer
    BY <2>2, <2>3, ProceedingVisit
  <2>5. y.answer.error # "replay"
    BY <2>4, EmptyIs DEF Q!NoAnswer
  <2> QED
    BY <2>2, <2>3, <2>4, <2>5
<1>4. CASE Q!Answer(v, Q!Page("server_error"))
  <2>1. PICK e : e = "server_error"
    OBVIOUS
  <2>2. PICK a : Q!Answer(v, a) /\ RefusalOf(a, e, raw.transport)
    BY <1>4, <2>1, PageAnswered
  <2>3. PICK y : Replaces(v, y) /\ y = Ended(x, a)
    BY <1>0, <1>1, <2>2, AnswerReplaces
  <2>4. Q!Shape(x) /\ Asked(x) = raw.transport /\ VainOf(y)
    BY <1>0, <1>1 DEF Sound, Q!VisitType, Asked, VainOf
  <2>5. Sound(y) /\ y.answer.error = e
    BY <1>1, <2>2, <2>3, <2>4, RefusalSound
  <2>6. y.stage = "answered"
    BY <2>3, <2>4, AnsweredVisit
  <2> QED
    BY <2>1, <2>3, <2>5, <2>6
<1> QED
  BY <1>2, <1>3, <1>4 DEF Q!Remember

\* What _remember_jti does to the store, and to the count of the acceptances.
LEMMA RememberStore ==
  ASSUME NEW v \in Visits, Q!Remember(v), NEW k, k = Q!JtiKey(v)
  PROVE  /\ replays' = {r \in replays \cup {[key |-> k, exp |-> raw.document.exp]} : r.exp > now}
         /\ jtiRaced \subseteq jtiRaced'
         /\ \A w \in Visits \ {v} : visit[w].stage = "remember" /\ Q!JtiKey(w) = k => k \in jtiRaced'
         /\ \/ /\ accepted' = accepted
               /\ raw.document.sub \/ \E r \in replays : r.key = k
            \/ accepted' = [j \in DOMAIN accepted \cup {k} |->
                              IF j \notin DOMAIN accepted THEN 1
                              ELSE IF j = k THEN accepted[j] + 1 ELSE accepted[j]]
BY DEF Q!Remember, Q!ReplayKey

\* What is accepted is in the store, and twice only where two visits raced.
LEMMA RememberJti ==
  ASSUME Q!CaseAssumption, Q!RequestInv, NEW v \in Visits, Q!Remember(v), NEW k, k = Q!JtiKey(v)
  PROVE  JtiSound' /\ DOMAIN accepted \subseteq DOMAIN accepted'
         /\ DOMAIN accepted' \subseteq DOMAIN accepted \cup {k}
<1>1. JtiSound /\ (k \in DOMAIN accepted => k \in jtiRaced)
  BY Parts DEF Q!Remember, RememberOf, Q!JtiKey
<1>2. UNCHANGED <<now, raw>>
  BY DEF Q!Remember, Q!world
<1>3. PICK E \in Nat : E = raw.document.exp
  BY CaseType
<1>4. now \in Nat
  BY <1>1 DEF JtiSound
<1>5. PICK new : new = [key |-> k, exp |-> E]
  OBVIOUS
<1>6. replays' = {r \in replays \cup {new} : r.exp > now}
  BY <1>3, <1>5, RememberStore
<1>7. /\ jtiRaced \subseteq jtiRaced'
      /\ \/ /\ accepted' = accepted
            /\ raw.document.sub \/ \E r \in replays : r.key = k
         \/ accepted' = [j \in DOMAIN accepted \cup {k} |->
                           IF j \notin DOMAIN accepted THEN 1
                           ELSE IF j = k THEN accepted[j] + 1 ELSE accepted[j]]
  BY RememberStore
<1>8. \A r \in replays : r.exp = E /\ (r.key \in DOMAIN accepted \/ raw.document.sub)
  BY <1>1, <1>3 DEF JtiSound
<1>9. \A j \in DOMAIN accepted :
        accepted[j] \in Nat /\ (E <= now \/ \E r \in replays : r.key = j)
        /\ (accepted[j] <= 1 \/ j \in jtiRaced)
  BY <1>1, <1>3 DEF JtiSound, Q!JtiOncePerScope
<1>10. /\ DOMAIN accepted \subseteq DOMAIN accepted'
       /\ DOMAIN accepted' \subseteq DOMAIN accepted \cup {k}
       /\ k \in DOMAIN accepted' \/ raw.document.sub
  BY <1>7, <1>8
<1>11. \A r \in replays' : r.exp = E /\ (r.key \in DOMAIN accepted' \/ raw.document.sub)
  <2>1. new.key = k /\ new.exp = E
    BY <1>5
  <2>2. replays' \subseteq replays \cup {new}
    BY <1>6
  <2> QED
    BY <2>1, <2>2, <1>8, <1>10
<1>12. ASSUME NEW j \in DOMAIN accepted'
       PROVE  accepted'[j] \in Nat /\ (accepted'[j] <= 1 \/ j \in jtiRaced')
  BY <1>1, <1>7, <1>9
<1>13. ASSUME NEW j \in DOMAIN accepted', ~(E <= now)
       PROVE  \E r \in replays' : r.key = j
  <2>1. CASE j \in DOMAIN accepted
    <3>1. PICK r \in replays : r.key = j
      BY <1>9, <1>13, <2>1
    <3>2. r.exp > now
      BY <1>4, <1>8, <1>13
    <3> QED
      BY <1>6, <3>1, <3>2
  <2>2. CASE j = k
    BY <1>4, <1>5, <1>6, <1>13, <2>2
  <2> QED
    BY <1>10, <2>1, <2>2
<1> QED
  BY <1>2, <1>3, <1>4, <1>10, <1>11, <1>12, <1>13 DEF JtiSound, Q!JtiOncePerScope

\* Remembering the jti keeps the invariant.
LEMMA RememberKeeps ==
  ASSUME Q!EntityAssumption, Q!CaseAssumption, Q!RequestInv, NEW v \in Visits, Q!Remember(v)
  PROVE  Q!RequestInv'
<1>1. PICK k : k = Q!JtiKey(v)
  OBVIOUS
<1>2. PICK y : /\ Replaces(v, y) /\ Sound(y) /\ y.answer.error # "replay" /\ y.stage # "remember"
  BY RememberVisit
<1>3. UNCHANGED <<now, registry, changed, raw>>
  BY DEF Q!Remember, Q!world
<1>4. /\ Q!RegistryInv /\ raw \in Cases /\ DOMAIN visit = Visits
      /\ \A w \in Visits : Sound(visit[w]) /\ ReplayOf(visit[w]) /\ RememberOf(visit[w])
  BY Parts
<1>5. /\ DOMAIN visit' = Visits /\ visit'[v] = y
      /\ \A w \in Visits : w # v => visit'[w] = visit[w]
  BY <1>2, <1>4, OneReplaced
<1>6. Q!RegistryInv' /\ JtiSound' /\ (raw \in Cases)'
  BY <1>1, <1>3, <1>4, RegistryKept, RememberJti
<1>7. /\ DOMAIN accepted \subseteq DOMAIN accepted' /\ jtiRaced \subseteq jtiRaced'
      /\ DOMAIN accepted' \subseteq DOMAIN accepted \cup {k}
      /\ \A w \in Visits \ {v} : visit[w].stage = "remember" /\ Q!JtiKey(w) = k => k \in jtiRaced'
  BY <1>1, RememberJti, RememberStore
<1>8. ASSUME NEW w \in Visits
      PROVE  Sound(visit[w])' /\ ReplayOf(visit[w])' /\ RememberOf(visit[w])'
  <2>1. PICK x : x = visit'[w] /\ Sound(x)
    BY <1>2, <1>4, <1>5
  <2>2. Sound(x)'
    BY <1>3, <2>1, SoundKept
  <2>3. Q!VisitType(visit[w])' /\ Q!IssuingInv(visit[w])'
    BY <2>1, <2>2 DEF Sound, Q!VisitType, Q!IssuingInv, Q!Shape
  <2>4. Q!FapiInv(visit[w])' /\ Q!LoginInv(visit[w])'
    BY <2>1, <2>2 DEF Sound, Q!FapiInv, Q!LoginInv
  <2>5. TargetOf(visit[w])' /\ QueryOf(visit[w])' /\ LinksOf(visit[w].answer)'
    BY <2>1, <2>2 DEF Sound, TargetOf, QueryOf, LinksOf
  <2>6. TransportOf(visit[w])' /\ VainOf(visit[w])' /\ FapiOf(visit[w])'
    BY <2>1, <2>2 DEF Sound, TransportOf, Asked, VainOf, FapiOf
  <2>7. ReplayOf(visit[w])'
    BY <1>2, <1>3, <1>4, <1>5, <1>7 DEF ReplayOf
  <2>8. RememberOf(visit[w])'
    BY <1>1, <1>2, <1>3, <1>4, <1>5, <1>7 DEF RememberOf, Q!JtiKey
  <2> QED
    BY <2>3, <2>4, <2>5, <2>6, <2>7, <2>8 DEF Sound
<1> QED
  BY <1>5, <1>6, <1>8, PartsNext

--------------------------------------------------------------------------------
(* From the parameters to the answer *)

\* Nobody signed in for a page that the visit gets now.
NotInVain(v) ==
  visit[v].signed_in /\ ~changed /\ raw.by = "none" => raw.transport.client_id \in Entities

\* A visit that gets a refusal once its parameters are known.
LEMMA RefusedKeeps ==
  ASSUME Q!RequestInv, NEW v \in Visits, visit[v].stage # "answered", UNCHANGED <<Q!world, Q!store>>,
         NEW p, p = visit[v].params, NEW a, Q!Answer(v, a), a.error # "replay", a.carries = {},
         \/ a.kind = "page" /\ NotInVain(v)
         \/ /\ a.kind = "redirect" /\ p # Q!Blank
            /\ Addressed(a.uri) \/ (Unseen(p, a.uri, a.error) /\ visit[v].stage # "issuing")
            /\ \/ ModeFits(p, a.mode)
               \/ a.error = "invalid_client" /\ visit[v].client # NoClient
  PROVE  Q!RequestInv'
<1>1. PICK x : x = visit[v]
  OBVIOUS
<1>2. DOMAIN visit = Visits /\ Sound(x) /\ Q!Shape(x)
  BY <1>1, Parts DEF Sound, Q!VisitType
<1>3. PICK y : Replaces(v, y) /\ y = Ended(x, a)
  BY <1>1, <1>2, AnswerReplaces
<1>4. /\ y.stage = "answered" /\ y.answer = a /\ y.session = x.session
      /\ y.signed_in = x.signed_in /\ y.params = x.params /\ y.client = x.client
      /\ y.code = x.code
  BY <1>2, <1>3, AnsweredVisit
<1>10. x.stage # "issuing" => ~x.code
  BY <1>1, <1>2 DEF Sound, Q!VisitType
<1>5. TargetOf(y)
  BY <1>1, <1>4, <1>10 DEF TargetOf
<1>6. QueryOf(y) /\ LinksOf(a)
  BY <1>4 DEF QueryOf, LinksOf, Q!HasTokens
<1>7. TransportOf(y)
  BY <1>1, <1>4 DEF TransportOf, ModeFits, Asked
<1>8. VainOf(y) /\ ReplayOf(y)
  BY <1>1, <1>4 DEF VainOf, NotInVain, ReplayOf
<1>9. Sound(y) /\ RememberOf(y)
  BY <1>1, <1>2, <1>3, <1>5, <1>6, <1>7, <1>8, AnsweredSound
<1> QED
  BY <1>3, <1>8, <1>9, VisitStep

\* An error page is such a refusal.
LEMMA PageKeeps ==
  ASSUME Q!RequestInv, NEW v \in Visits, visit[v].stage # "answered", UNCHANGED <<Q!world, Q!store>>,
         NEW e, e # "replay", Q!Answer(v, Q!Page(e)), NotInVain(v)
  PROVE  Q!RequestInv'
<1>1. PICK a : a = Q!Page(e)
  OBVIOUS
<1>2. a.kind = "page" /\ a.error = e /\ a.carries = {}
  BY <1>1, PageFields
<1>3. PICK p : p = visit[v].params
  OBVIOUS
<1>4. Q!Answer(v, a)
  BY <1>1
<1> QED
  BY <1>2, <1>3, <1>4, RefusedKeeps

\* So is a redirection,
LEMMA RedirectKeeps ==
  ASSUME Q!RequestInv, NEW v \in Visits, visit[v].stage # "answered", UNCHANGED <<Q!world, Q!store>>,
         NEW p, p = visit[v].params, p # Q!Blank, NEW u, NEW m, NEW e, e # "replay",
         Addressed(u) \/ (Unseen(p, u, e) /\ visit[v].stage # "issuing"),
         Q!Answer(v, Q!Redirect(u, m, e)),
         ModeFits(p, m) \/ (e = "invalid_client" /\ visit[v].client # NoClient)
  PROVE  Q!RequestInv'
<1>1. PICK a : a = Q!Redirect(u, m, e)
  OBVIOUS
<1>2. a.kind = "redirect" /\ a.uri = u /\ a.mode = m /\ a.error = e /\ a.carries = {}
  BY <1>1, RedirectFields
<1>3. Q!Answer(v, a)
  BY <1>1
<1> QED
  BY <1>2, <1>3, RefusedKeeps

\* signed or not.
LEMMA AnswerErrorKeeps ==
  ASSUME Q!RequestInv, NEW v \in Visits, visit[v].stage # "answered", UNCHANGED <<Q!world, Q!store>>,
         NEW p, p = visit[v].params, p # Q!Blank, NEW u, NEW m, NEW e, e # "replay", NEW id,
         Addressed(u) \/ (Unseen(p, u, e) /\ visit[v].stage # "issuing"),
         Q!AnswerError(v, u, m, e, id),
         ModeFits(p, m) \/ (e = "invalid_client" /\ visit[v].client # NoClient)
  PROVE  Q!RequestInv'
<1>1. PICK c \in Q!FindById(id) : Q!Answer(v, Q!Redirect(u, Q!ErrorMode(m, Q!Signable(c)), e))
  BY DEF Q!AnswerError
<1>2. PICK n : n = Q!ErrorMode(m, Q!Signable(c)) /\ (ModeFits(p, m) => ModeFits(p, n))
  BY ErrorModeFits
<1>3. Q!Answer(v, Q!Redirect(u, n, e))
  BY <1>1, <1>2
<1> QED
  BY <1>2, <1>3, RedirectKeeps

\* A visit goes on to the next stage.
LEMMA OnwardKeeps ==
  ASSUME Q!RequestInv, NEW v \in Visits, visit[v].stage \in Q!Under \ {"issuing"},
         NEW s \in Q!Under \ {"resolved", "issuing"}, NEW p, Q!Proceed(v, s, p),
         UNCHANGED <<Q!world, Q!store>>, DOMAIN p = Q!Fields, p # Q!Blank, p.client_id # Q!Empty,
         Q!FapiAllAlong(raw.transport.client_id) /\ p.client_id = raw.transport.client_id
           => Q!FromObject(p, raw.transport.client_id),
         raw.by = "none" =>
           /\ p = IF s = "authenticated" THEN Q!Stripped(raw.transport) ELSE raw.transport
           /\ ~changed /\ raw.transport.client_id \notin Entities /\ s # "authenticated" =>
                Q!Unsigned /\ Q!Admissible /\ (s # "admitted" => Q!Redirectable)
  PROVE  Q!RequestInv'
<1>1. PICK x : x = visit[v]
  OBVIOUS
<1>2. DOMAIN visit = Visits /\ Sound(x) /\ Q!Shape(x) /\ x.answer = Q!NoAnswer /\ x.client = NoClient
      /\ ~x.code
  BY <1>1, Parts DEF Sound, Q!VisitType, Q!Under
<1>3. PICK y : Replaces(v, y) /\ y = Moved(x, s, p)
  BY <1>1, <1>2, ProceedReplaces
<1>4. /\ Q!Shape(y) /\ y.stage = s /\ y.params = p /\ y.session = x.session
      /\ y.signed_in = x.signed_in /\ y.answer = Q!NoAnswer /\ y.client = NoClient /\ ~y.code
  BY <1>2, <1>3, ProceedingVisit
<1>5. s \in {"admitted", "checked", "login", "authenticated"}
  BY DEF Q!Under
<1>6. Q!VisitType(y)
  BY <1>4, <1>5 DEF Q!VisitType, Q!Stages
<1>7. Q!IssuingInv(y) /\ Q!FapiInv(y) /\ FapiOf(y) /\ RememberOf(y)
  BY <1>4, <1>5 DEF Q!IssuingInv, Q!FapiInv, FapiOf, RememberOf
<1>8. Q!LoginInv(y)
  BY <1>2, <1>4, <1>5 DEF Sound, Q!LoginInv
<1>9. Sound(y) /\ ReplayOf(y)
  BY <1>4, <1>6, <1>7, <1>8, UnansweredSound DEF Sound
<1> QED
  BY <1>3, <1>7, <1>9, VisitStep

\* What a visit knows of its parameters.
LEMMA ParamsOf ==
  ASSUME Q!RequestInv, NEW v \in Visits, visit[v].stage \in Q!Under, NEW p, p = visit[v].params
  PROVE  /\ DOMAIN p = Q!Fields
         /\ visit[v].stage # "resolved" => p # Q!Blank /\ p.client_id # Q!Empty
         /\ Q!FapiAllAlong(raw.transport.client_id) /\ p.client_id = raw.transport.client_id
              => Q!FromObject(p, raw.transport.client_id)
         /\ raw.by = "none" /\ visit[v].stage \in {"resolved", "admitted", "checked", "login"}
              => p = raw.transport
         /\ Q!LoginInv(visit[v])
<1>1. PICK x : x = visit[v]
  OBVIOUS
<1>2. Sound(x)
  BY <1>1, Parts
<1>3. DOMAIN p = Q!Fields /\ (x.stage # "resolved" => p # Q!Blank /\ p.client_id # Q!Empty)
  BY <1>1, <1>2 DEF Sound, Q!VisitType
<1>4. Q!FapiAllAlong(raw.transport.client_id) /\ p.client_id = raw.transport.client_id
        => Q!FromObject(p, raw.transport.client_id)
  BY <1>1, <1>2 DEF Sound, Q!FapiInv
<1>5. /\ raw.by = "none" /\ x.stage \in {"resolved", "admitted", "checked", "login"}
           => p = raw.transport
      /\ Q!LoginInv(x)
  BY <1>1, <1>2 DEF Sound, Q!LoginInv
<1> QED
  BY <1>1, <1>3, <1>4, <1>5

\* A parameter that must be there is.
LEMMA NothingMissing ==
  ASSUME NEW p, DOMAIN p = Q!Fields, "client_id" \notin Q!Missing(p)
  PROVE  p # Q!Blank /\ p.client_id # Q!Empty
<1>1. Q!Blank["client_id"] = Q!Empty
  BY DEF Q!Blank
<1>2. p["client_id"] # Q!Blank["client_id"]
  BY DEF Q!Missing
<1> QED
  BY <1>1, <1>2

\* A form_post refusal fits where it was asked for.
LEMMA FormPostFits ==
  ASSUME NEW p, p.response_mode = "form_post"
  PROVE  ModeFits(p, "form_post")
BY DEF ModeFits, Fits, Q!ResolveResponseMode

\* Missing parameters, and the clients that must push.
LEMMA AdmitKeeps ==
  ASSUME Q!EntityAssumption, Q!RequestInv, NEW v \in Visits, Q!Admit(v)
  PROVE  Q!RequestInv'
<1>1. PICK p : p = visit[v].params
  OBVIOUS
<1>2. /\ visit[v].stage = "resolved" /\ UNCHANGED <<Q!world, Q!store>> /\ Q!RegistryInv
      /\ visit[v].stage # "answered"
  BY Parts DEF Q!Admit
<1>3. /\ DOMAIN p = Q!Fields /\ Q!LoginInv(visit[v])
      /\ Q!FapiAllAlong(raw.transport.client_id) /\ p.client_id = raw.transport.client_id
           => Q!FromObject(p, raw.transport.client_id)
      /\ raw.by = "none" => p = raw.transport
  BY <1>1, <1>2, ParamsOf DEF Q!Under
<1>4. PICK client \in Q!FindById(p.client_id) :
        IF Q!Missing(p) # {}
        THEN IF Q!MissingAnswered(p, client)
             THEN Q!Answer(v, Q!Redirect(p.redirect_uri, "form_post", "invalid_request"))
             ELSE Q!Answer(v, Q!Page("invalid_request"))
        ELSE IF client # NoClient /\ (client.par_required \/ client.profile = "fapi2")
        THEN IF p.redirect_uri \in client.redirect_uris
             THEN Q!AnswerError(v, p.redirect_uri, Q!RequestedErrorMode(client, p.response_mode,
                                  Q!HasTokens(p.response_type)), "invalid_request", p.client_id)
             ELSE Q!Answer(v, Q!Page("invalid_request"))
        ELSE Q!Proceed(v, "admitted", p)
  BY <1>1 DEF Q!Admit
<1>5. ASSUME raw.by = "none", ~changed, raw.transport.client_id \notin Entities
      PROVE  client = Q!ClientAtFirst
  <2>1. p = raw.transport
    BY <1>3, <1>5
  <2> QED
    BY <1>2, <1>4, <1>5, <2>1, FirstFound
<1>6. ASSUME \/ Q!Missing(p) # {}
             \/ client # NoClient /\ (client.par_required \/ client.profile = "fapi2")
      PROVE  NotInVain(v)
  <2>1. SUFFICES ASSUME visit[v].signed_in, ~changed, raw.by = "none",
                        raw.transport.client_id \notin Entities
                 PROVE  FALSE
    BY DEF NotInVain
  <2>2. Q!Admissible
    BY <1>3, <2>1 DEF Q!LoginInv
  <2>3. p = raw.transport /\ client = Q!ClientAtFirst
    BY <1>3, <1>5, <2>1
  <2> QED
    BY <1>6, <2>2, <2>3 DEF Q!Admissible
<1>7. PICK e : e = "invalid_request" /\ e # "replay"
  OBVIOUS
<1>8. CASE Q!Missing(p) # {} /\ Q!MissingAnswered(p, client)
  <2>1. p # Q!Blank
    BY <1>3, <1>8, NothingMissing DEF Q!MissingAnswered
  <2>2. Addressed(p.redirect_uri) /\ ModeFits(p, "form_post")
    BY <1>2, <1>4, <1>8, FoundUris, FormPostFits DEF Q!MissingAnswered
  <2>3. Q!Answer(v, Q!Redirect(p.redirect_uri, "form_post", e))
    BY <1>4, <1>7, <1>8
  <2> QED
    BY <1>1, <1>2, <1>7, <2>1, <2>2, <2>3, RedirectKeeps
<1>9. CASE Q!Missing(p) # {} /\ ~Q!MissingAnswered(p, client)
  <2>1. Q!Answer(v, Q!Page(e)) /\ NotInVain(v)
    BY <1>4, <1>6, <1>7, <1>9
  <2> QED
    BY <1>2, <1>7, <2>1, PageKeeps
<1>10. CASE Q!Missing(p) = {} /\ client # NoClient /\ (client.par_required \/ client.profile = "fapi2")
  <2>1. CASE p.redirect_uri \in client.redirect_uris
    <3>1. PICK m, u, id : /\ Q!AnswerError(v, u, m, e, id) /\ u = p.redirect_uri
                          /\ m = Q!RequestedErrorMode(client, p.response_mode, Q!HasTokens(p.response_type))
      BY <1>4, <1>7, <1>10, <2>1
    <3>2. Addressed(u) /\ ModeFits(p, m)
      BY <1>2, <1>4, <1>10, <2>1, <3>1, FoundUris, RequestedFits
    <3>3. p # Q!Blank
      BY <1>3, <1>10, NothingMissing
    <3> QED
      BY <1>1, <1>2, <1>7, <3>1, <3>2, <3>3, AnswerErrorKeeps
  <2>2. CASE p.redirect_uri \notin client.redirect_uris
    <3>1. Q!Answer(v, Q!Page(e)) /\ NotInVain(v)
      BY <1>4, <1>6, <1>7, <1>10, <2>2
    <3> QED
      BY <1>2, <1>7, <3>1, PageKeeps
  <2> QED
    BY <2>1, <2>2
<1>11. CASE /\ Q!Missing(p) = {}
            /\ ~(client # NoClient /\ (client.par_required \/ client.profile = "fapi2"))
  <2>1. Q!Proceed(v, "admitted", p)
    BY <1>4, <1>11
  <2>2. p # Q!Blank /\ p.client_id # Q!Empty
    BY <1>3, <1>11, NothingMissing
  <2>3. ASSUME raw.by = "none", ~changed, raw.transport.client_id \notin Entities
        PROVE  Q!Unsigned /\ Q!Admissible
    <3>1. p = raw.transport /\ client = Q!ClientAtFirst
      BY <1>3, <1>5, <2>3
    <3>2. Q!Unsigned
      BY <1>2, <1>3, <2>3 DEF Q!LoginInv
    <3> QED
      BY <1>11, <3>1, <3>2 DEF Q!Admissible
  <2>4. "admitted" \in Q!Under \ {"resolved", "issuing"} /\ visit[v].stage \in Q!Under \ {"issuing"}
    BY <1>2 DEF Q!Under
  <2> QED
    BY <1>2, <1>3, <2>1, <2>2, <2>3, <2>4, OnwardKeeps
<1> QED
  BY <1>8, <1>9, <1>10, <1>11

\* What can be told to the client: what is wrong before it is looked up, and
\* what is wrong with a request that names one of its URIs.
LEMMA Redirectability ==
  ASSUME NEW p, NEW client, NEW reg
  PROVE  Q!Validate(p, client, reg).redirectable <=>
           \/ p.response_type \notin Q!ValidResponseTypes
           \/ Q!ResolveResponseMode(p.response_mode, Q!HasTokens(p.response_type)) = "none"
           \/ client # NoClient /\ client.is_active /\ p.redirect_uri \in client.redirect_uris
BY DEF Q!Validate, Q!Refused, Q!RefusedHere, Q!Accepted

\* An error of the validation is no replay, and without one the client is known.
LEMMA ValidateErrors ==
  ASSUME NEW p, NEW client, NEW reg, NEW r, r = Q!Validate(p, client, reg)
  PROVE  /\ r.error # "replay"
         /\ ~r.redirectable => r.error # Q!Empty
         /\ r.error = Q!Empty =>
              /\ client # NoClient /\ p.redirect_uri \in client.redirect_uris /\ r.redirectable
              /\ r.mode = Q!ResolveResponseMode(p.response_mode, Q!HasTokens(p.response_type))
              /\ r.mode # "none"
              /\ r.mode = "jwt" => p.response_mode = "jwt" /\ client.jarm
<1>1. PICK tk, mo, be, pe, ae, se :
        /\ tk = Q!HasTokens(p.response_type)
        /\ mo = Q!ResolveResponseMode(p.response_mode, tk)
        /\ be = Q!ErrorResponseMode(p.response_mode, tk)
        /\ pe = Q!ProfileError(p, client) /\ ae = Q!ParameterError(p, reg) /\ se = Q!ScopeError(p, reg)
  OBVIOUS
<1>2. pe # "replay" /\ ae # "replay" /\ se # "replay"
  BY <1>1, EmptyIs DEF Q!ProfileError, Q!ParameterError, Q!ScopeError, Q!ResourceError
<1>3. Q!Empty \notin {"unsupported_response_type", "invalid_request", "invalid_client",
                      "invalid_redirect_uri", "unsupported_response_mode", "replay"}
  BY Zenon DEF Q!Empty
<1>4. mo = "jwt" => p.response_mode = "jwt"
  BY <1>1 DEF Q!ResolveResponseMode
<1> QED
  BY <1>1, <1>2, <1>3, <1>4 DEF Q!Validate, Q!Refused, Q!RefusedHere, Q!Accepted

\* What comes before the lookup is refused with one of two errors.
LEMMA UnseenErrors ==
  ASSUME NEW p, Q!RefusedUnseen(p), NEW client, NEW reg, NEW r, r = Q!Validate(p, client, reg)
  PROVE  r.error \in {"unsupported_response_type", "invalid_request"} /\ r.error # Q!Empty
<1>1. PICK tk, mo, be :
        /\ tk = Q!HasTokens(p.response_type)
        /\ mo = Q!ResolveResponseMode(p.response_mode, tk)
        /\ be = Q!ErrorResponseMode(p.response_mode, tk)
  OBVIOUS
<1>2. p.response_type \notin Q!ValidResponseTypes \/ mo = "none"
  BY <1>1 DEF Q!RefusedUnseen
<1>3. r \in {Q!Refused("unsupported_response_type", be), Q!Refused("invalid_request", be)}
  BY <1>1, <1>2 DEF Q!Validate
<1>4. Q!Empty \notin {"unsupported_response_type", "invalid_request"}
  BY Zenon DEF Q!Empty
<1> QED
  BY <1>3, <1>4 DEF Q!Refused

\* The client of the query before and after the login: the same request.
LEMMA SameRedirectable ==
  ASSUME DOMAIN raw.transport = Q!Fields, Q!Redirectable, NEW p, NEW client, client = Q!ClientAtFirst, NEW reg,
         p \in {raw.transport, Q!Stripped(raw.transport)}
  PROVE  Q!Validate(p, client, reg).redirectable
<1>1. PICK t : t = raw.transport
  OBVIOUS
<1>2. /\ p.response_type = t.response_type /\ p.response_mode = t.response_mode
      /\ p.redirect_uri = t.redirect_uri
  BY <1>1 DEF Q!Stripped, Q!Fields, Q!Blank
<1>3. Q!Validate(t, client, FALSE).redirectable
  BY <1>1 DEF Q!Redirectable
<1> QED
  BY <1>2, <1>3, Redirectability

\* The first validation.
LEMMA PrecheckKeeps ==
  ASSUME Q!EntityAssumption, Q!RequestInv, NEW v \in Visits, Q!Precheck(v)
  PROVE  Q!RequestInv'
<1>1. PICK p : p = visit[v].params
  OBVIOUS
<1>2. /\ visit[v].stage = "admitted" /\ UNCHANGED <<Q!world, Q!store>> /\ Q!RegistryInv
      /\ visit[v].stage # "answered"
  BY Parts DEF Q!Precheck
<1>3. /\ DOMAIN p = Q!Fields /\ p # Q!Blank /\ p.client_id # Q!Empty /\ Q!LoginInv(visit[v])
      /\ Q!FapiAllAlong(raw.transport.client_id) /\ p.client_id = raw.transport.client_id
           => Q!FromObject(p, raw.transport.client_id)
      /\ raw.by = "none" => p = raw.transport
  BY <1>1, <1>2, ParamsOf DEF Q!Under
<1>4. PICK client \in Q!FindById(p.client_id) :
        LET r == Q!Validate(p, client, FALSE)
        IN IF r.redirectable THEN Q!Proceed(v, "checked", p)
           ELSE \E allowed \in IF r.error = "invalid_client" THEN Q!AllowedByChain(p.client_id)
                               ELSE {{}} : Q!FederatedRefusal(v, r, allowed)
  BY <1>1 DEF Q!Precheck
<1>5. PICK r : r = Q!Validate(p, client, FALSE)
  OBVIOUS
<1>6. ASSUME raw.by = "none", ~changed, raw.transport.client_id \notin Entities
      PROVE  client = Q!ClientAtFirst /\ p = raw.transport
  <2>1. p = raw.transport
    BY <1>3, <1>6
  <2> QED
    BY <1>2, <1>4, <1>6, <2>1, FirstFound
<1>7. CASE r.redirectable
  <2>1. Q!Proceed(v, "checked", p)
    BY <1>4, <1>5, <1>7
  <2>2. ASSUME raw.by = "none", ~changed, raw.transport.client_id \notin Entities
        PROVE  Q!Unsigned /\ Q!Admissible /\ Q!Redirectable
    <3>1. Q!Redirectable
      BY <1>5, <1>6, <1>7, <2>2 DEF Q!Redirectable
    <3> QED
      BY <1>2, <1>3, <2>2, <3>1 DEF Q!LoginInv
  <2>3. "checked" \in Q!Under \ {"resolved", "issuing"} /\ visit[v].stage \in Q!Under \ {"issuing"}
    BY <1>2 DEF Q!Under
  <2> QED
    BY <1>2, <1>3, <2>1, <2>2, <2>3, OnwardKeeps
<1>8. CASE ~r.redirectable
  <2>1. PICK allowed : /\ Q!FederatedRefusal(v, r, allowed)
                       /\ allowed \in Q!AllowedByChain(p.client_id) \/ allowed = {}
    BY <1>4, <1>5, <1>8
  <2>2. PICK e : e = r.error /\ e # "replay"
    <3>1. PICK reg : r = Q!Validate(p, client, reg)
      BY <1>5
    <3>2. r.error # "replay"
      BY <3>1, ValidateErrors
    <3> QED
      BY <3>2
  <2>3. PICK u : u = Q!PickErrorRedirectUri(p.redirect_uri, allowed)
    OBVIOUS
  <2>4. CASE Q!Answer(v, Q!Page(e))
    <3>1. NotInVain(v)
      <4>1. SUFFICES ASSUME visit[v].signed_in, ~changed, raw.by = "none",
                            raw.transport.client_id \notin Entities
                     PROVE  FALSE
        BY DEF NotInVain
      <4>2. Q!Redirectable
        BY <1>3, <4>1 DEF Q!LoginInv
      <4>3. client = Q!ClientAtFirst /\ p = raw.transport
        BY <1>6, <4>1
      <4> QED
        BY <1>5, <1>8, <4>2, <4>3 DEF Q!Redirectable
    <3> QED
      BY <1>2, <2>2, <2>4, <3>1, PageKeeps
  <2>5. CASE ~Q!Answer(v, Q!Page(e))
    <3>1. PICK m : m = Q!ErrorMode(r.mode, FALSE) /\ ModeFits(p, m)
      BY <1>5, ErrorModeFits, ValidateFits
    <3>2. Q!Answer(v, Q!Redirect(u, m, e)) /\ u # Q!Empty
      BY <1>1, <2>1, <2>2, <2>3, <2>5, <3>1 DEF Q!FederatedRefusal
    <3>3. u \in allowed
      BY <2>3, <3>2 DEF Q!PickErrorRedirectUri
    <3>4. Addressed(u)
      <4>1. PICK id : id = p.client_id
        OBVIOUS
      <4> QED
        BY <2>1, <3>3, <4>1, ChainUris
    <3> QED
      BY <1>1, <1>2, <1>3, <2>2, <3>1, <3>2, <3>4, RedirectKeeps
  <2> QED
    BY <2>4, <2>5
<1> QED
  BY <1>7, <1>8

\* error_response of a validation that refused, or of a login that is missing.
LEMMA AnswerRefusalKeeps ==
  ASSUME Q!EntityAssumption, Q!RequestInv, NEW v \in Visits, visit[v].stage \in {"checked", "authenticated"},
         UNCHANGED <<Q!world, Q!store>>, NEW p, p = visit[v].params,
         NEW client \in Q!FindById(p.client_id), NEW reg, NEW w, w = Q!Validate(p, client, reg),
         NEW r, Q!AnswerRefusal(v, r), r.error # "replay", r.mode = w.mode,
         r.redirectable = w.redirectable, w.redirectable \/ NotInVain(v),
         w.error # Q!Empty => r.error = w.error
  PROVE  Q!RequestInv'
<1>1. visit[v].stage # "answered" /\ visit[v].stage \in Q!Under /\ visit[v].stage # "resolved"
  BY DEF Q!Under
<1>2. p # Q!Blank /\ Q!RegistryInv
  BY <1>1, ParamsOf, Parts
<1>3. PICK e, m, u, id : e = r.error /\ m = r.mode /\ u = p.redirect_uri /\ id = p.client_id
  OBVIOUS
<1>4. CASE w.redirectable
  <2>1. Q!AnswerError(v, u, m, e, id)
    BY <1>3, <1>4 DEF Q!AnswerRefusal
  <2>2. ModeFits(p, m)
    BY <1>3, ValidateFits
  <2>3. Q!RefusedUnseen(p) \/ (client # NoClient /\ u \in client.redirect_uris)
    BY <1>2, <1>3, <1>4, Redirectability DEF Q!RefusedUnseen
  <2>4. Q!RefusedUnseen(p) => Unseen(p, u, e)
    BY <1>3, UnseenErrors DEF Unseen
  <2>5. Addressed(u) \/ Unseen(p, u, e)
    BY <1>2, <1>3, <2>3, <2>4, FoundUris
  <2>6. visit[v].stage # "issuing"
    OBVIOUS
  <2> QED
    BY <1>1, <1>2, <1>3, <2>1, <2>2, <2>5, <2>6, AnswerErrorKeeps
<1>5. CASE ~w.redirectable
  <2>1. Q!Answer(v, Q!Page(e)) /\ NotInVain(v)
    BY <1>3, <1>5 DEF Q!AnswerRefusal
  <2> QED
    BY <1>1, <1>3, <2>1, PageKeeps
<1> QED
  BY <1>4, <1>5

\* Without resources and details the request is the same in the rest.
LEMMA StrippedParams ==
  ASSUME NEW p, DOMAIN p = Q!Fields, p.client_id # Q!Empty, NEW q, q = Q!Stripped(p)
  PROVE  /\ DOMAIN q = Q!Fields /\ q # Q!Blank /\ q.client_id = p.client_id /\ q.client_id # Q!Empty
         /\ \A c : Q!FromObject(p, c) => Q!FromObject(q, c)
<1>1. /\ DOMAIN q = Q!Fields /\ \A f \in Q!Fields \ {"resource", "authorization_details"} : q[f] = p[f]
      /\ q["resource"] = {} /\ q["authorization_details"] = Q!Empty
  BY DEF Q!Stripped, Q!Fields, Q!Blank
<1>2. "client_id" \in Q!Fields /\ Q!Blank["client_id"] = Q!Empty
      /\ Q!Blank["resource"] = {} /\ Q!Blank["authorization_details"] = Q!Empty
  BY DEF Q!Fields, Q!Blank
<1>3. q["client_id"] = p["client_id"]
  BY <1>1, <1>2
<1>4. ASSUME NEW f \in Q!Fields, q[f] # Q!Blank[f]
      PROVE  q[f] = p[f]
  BY <1>1, <1>2, <1>4
<1>5. ASSUME NEW c, Q!FromObject(p, c)
      PROVE  Q!FromObject(q, c)
  BY <1>4, <1>5 DEF Q!FromObject
<1> QED
  BY <1>1, <1>2, <1>3, <1>5

\* _login_or_error
LEMMA GateKeeps ==
  ASSUME Q!EntityAssumption, Q!CaseAssumption, Q!RequestInv, NEW v \in Visits, Q!Gate(v)
  PROVE  Q!RequestInv'
<1>1. PICK p : p = visit[v].params
  OBVIOUS
<1>2. /\ visit[v].stage = "checked" /\ UNCHANGED <<Q!world, Q!store>> /\ Q!RegistryInv
      /\ DOMAIN raw.transport = Q!Fields
  BY Parts, CaseType DEF Q!Gate
<1>3. /\ DOMAIN p = Q!Fields /\ p # Q!Blank /\ p.client_id # Q!Empty /\ Q!LoginInv(visit[v])
      /\ Q!FapiAllAlong(raw.transport.client_id) /\ p.client_id = raw.transport.client_id
           => Q!FromObject(p, raw.transport.client_id)
      /\ raw.by = "none" => p = raw.transport
  BY <1>1, <1>2, ParamsOf DEF Q!Under
<1>4. /\ visit[v].stage \in Q!Under \ {"issuing"} /\ "authenticated" \in Q!Under \ {"resolved", "issuing"}
      /\ "login" \in Q!Under \ {"resolved", "issuing"}
  BY <1>2 DEF Q!Under
<1>5. CASE Q!Proceed(v, "authenticated", [p EXCEPT !.resource = {}, !.authorization_details = Q!Empty])
  <2>1. PICK q : q = Q!Stripped(p)
    OBVIOUS
  <2>2. Q!Proceed(v, "authenticated", q)
    BY <1>5, <2>1 DEF Q!Stripped
  <2>3. /\ DOMAIN q = Q!Fields /\ q # Q!Blank /\ q.client_id = p.client_id /\ q.client_id # Q!Empty
        /\ \A c : Q!FromObject(p, c) => Q!FromObject(q, c)
    BY <1>3, <2>1, StrippedParams
  <2> QED
    BY <1>2, <1>3, <1>4, <2>1, <2>2, <2>3, OnwardKeeps
<1>6. CASE Q!Proceed(v, "login", p)
  <2>1. ASSUME raw.by = "none", ~changed, raw.transport.client_id \notin Entities
        PROVE  Q!Unsigned /\ Q!Admissible /\ Q!Redirectable
    BY <1>2, <1>3, <2>1 DEF Q!LoginInv
  <2> QED
    BY <1>2, <1>3, <1>4, <1>6, <2>1, OnwardKeeps
<1>7. CASE Q!LoginRequired(v)
  <2>1. PICK client \in Q!FindById(p.client_id) :
          LET w == Q!Validate(p, client, FALSE)
          IN Q!AnswerRefusal(v, IF w.error = Q!Empty THEN Q!Refused("login_required", w.mode) ELSE w)
    BY <1>1, <1>7 DEF Q!LoginRequired
  <2>2. PICK reg, w : reg = FALSE /\ w = Q!Validate(p, client, reg)
    OBVIOUS
  <2>3. PICK r : r = IF w.error = Q!Empty THEN Q!Refused("login_required", w.mode) ELSE w
    OBVIOUS
  <2>4. Q!AnswerRefusal(v, r)
    BY <2>1, <2>2, <2>3
  <2>5. w.error # "replay" /\ (w.error = Q!Empty => w.redirectable = TRUE)
    <3>1. w.error # "replay" /\ (w.error = Q!Empty => w.redirectable)
      BY <2>2, ValidateErrors
    <3>2. w.redirectable \in BOOLEAN
      BY <2>2 DEF Q!Validate, Q!Refused, Q!RefusedHere, Q!Accepted
    <3> QED
      BY <3>1, <3>2
  <2>6. /\ r.error # "replay" /\ r.mode = w.mode /\ r.redirectable = w.redirectable
        /\ w.error # Q!Empty => r.error = w.error
    BY <2>3, <2>5 DEF Q!Refused
  <2>7. w.redirectable \/ NotInVain(v)
    <3>1. SUFFICES ASSUME ~changed, raw.by = "none", raw.transport.client_id \notin Entities
                   PROVE  w.redirectable
      BY DEF NotInVain
    <3>2. p = raw.transport /\ Q!Redirectable
      BY <1>2, <1>3, <3>1 DEF Q!LoginInv
    <3>3. client = Q!ClientAtFirst
      BY <1>2, <2>1, <3>1, <3>2, FirstFound
    <3> QED
      BY <1>2, <2>2, <3>2, <3>3, SameRedirectable
  <2> QED
    BY <1>1, <1>2, <2>1, <2>2, <2>4, <2>6, <2>7, AnswerRefusalKeeps
<1> QED
  BY <1>1, <1>5, <1>6, <1>7 DEF Q!Gate

\* The way back from the login form.
LEMMA ReturnKeeps ==
  ASSUME Q!RequestInv, NEW v \in Visits, Q!SignIn(v)
  PROVE  Q!RequestInv'
<1>1. PICK s : visit' = [visit EXCEPT ![v] = [Q!Idle EXCEPT !.stage = "arrived", !.session = s,
                                                            !.signed_in = TRUE]]
  BY DEF Q!SignIn
<1>2. /\ visit[v].stage = "login" /\ UNCHANGED <<Q!world, Q!store>> /\ Q!LoginInv(visit[v])
      /\ DOMAIN visit = Visits
  BY Parts DEF Q!SignIn, Sound
<1>3. PICK y : y = [Q!Idle EXCEPT !.stage = "arrived", !.session = s, !.signed_in = TRUE]
  OBVIOUS
<1>4. Replaces(v, y)
  BY <1>1, <1>3 DEF Replaces
<1>5. /\ Q!Shape(y) /\ y.stage = "arrived" /\ y.params = Q!Blank /\ y.answer = Q!NoAnswer
      /\ y.client = NoClient /\ ~y.code
  BY <1>3 DEF Q!Idle, Q!Shape
<1>6. Q!VisitType(y)
  BY <1>5 DEF Q!VisitType, Q!Stages, Q!Under, Q!Fields
<1>7. Q!IssuingInv(y) /\ Q!FapiInv(y) /\ FapiOf(y) /\ RememberOf(y)
  BY <1>5 DEF Q!IssuingInv, Q!FapiInv, FapiOf, RememberOf, Q!Under
<1>8. Q!LoginInv(y)
  BY <1>2, <1>5 DEF Q!LoginInv
<1>9. Sound(y) /\ ReplayOf(y)
  BY <1>5, <1>6, <1>7, <1>8, UnansweredSound DEF Sound
<1> QED
  BY <1>2, <1>4, <1>7, <1>9, VisitStep

\* A client of FAPI 1 that is found was one all along, or became one.
LEMMA FapiKnown ==
  ASSUME Q!EntityAssumption, Q!RegistryInv, NEW c, NEW client \in Q!FindById(c), client # NoClient,
         client.profile = "fapi1", ~Q!BecameFapi(c)
  PROVE  Q!FapiAllAlong(c)
<1>1. c \in ClientIds
  BY DEF Q!FindById
<1>2. registry[c] # NoClient /\ client = registry[c]
  <2>1. SUFFICES ASSUME registry[c] = NoClient PROVE FALSE
    BY <1>1 DEF Q!FindById
  <2>2. c \in Entities /\ client = TrustChain[c]
    BY <1>1, <2>1 DEF Q!FindById
  <2> QED
    BY <2>2 DEF Q!EntityAssumption
<1>3. Registered[c] # NoClient
  BY <1>1, <1>2 DEF Q!RegistryInv
<1> QED
  BY <1>1, <1>2, <1>3 DEF Q!FapiAllAlong, Q!BecameFapi

\* A visit that the tokens are made for.
Issuing(x, c, m, b) == [x EXCEPT !.stage = "issuing", !.client = c, !.mode = m, !.code = b]

\* It keeps the rest.
LEMMA IssuingVisit ==
  ASSUME NEW x, Q!Shape(x), NEW c1, NEW m1, NEW b1, NEW y, y = Issuing(x, c1, m1, b1)
  PROVE  /\ Q!Shape(y) /\ y.stage = "issuing" /\ y.params = x.params /\ y.session = x.session
         /\ y.signed_in = x.signed_in /\ y.answer = x.answer /\ y.client = c1 /\ y.mode = m1
<1>1. PICK s, se, si, p, c, m, co, an :
        x = [stage |-> s, session |-> se, signed_in |-> si, params |-> p, client |-> c,
             mode |-> m, code |-> co, answer |-> an]
  BY DEF Q!Shape
<1>2. y = [stage |-> "issuing", session |-> se, signed_in |-> si, params |-> p, client |-> c1,
           mode |-> m1, code |-> b1, answer |-> an]
  BY <1>1 DEF Issuing
<1> QED
  BY <1>1, <1>2 DEF Q!Shape

\* The second validation.
LEMMA ExecuteKeeps ==
  ASSUME Q!EntityAssumption, Q!CaseAssumption, Q!RequestInv, NEW v \in Visits, Q!Execute(v)
  PROVE  Q!RequestInv'
<1>1. PICK p : p = visit[v].params
  OBVIOUS
<1>2. /\ visit[v].stage = "authenticated" /\ UNCHANGED <<Q!world, Q!store>> /\ Q!RegistryInv
      /\ DOMAIN raw.transport = Q!Fields /\ DOMAIN visit = Visits
  BY Parts, CaseType DEF Q!Execute
<1>3. /\ DOMAIN p = Q!Fields /\ p # Q!Blank /\ p.client_id # Q!Empty /\ Q!LoginInv(visit[v])
      /\ Q!FapiAllAlong(raw.transport.client_id) /\ p.client_id = raw.transport.client_id
           => Q!FromObject(p, raw.transport.client_id)
      /\ raw.by = "none" => p = Q!Stripped(raw.transport)
  BY <1>1, <1>2, ParamsOf DEF Q!Under, Q!LoginInv
<1>4. PICK client \in Q!FindById(p.client_id) :
        LET r == Q!Validate(p, client, TRUE)
        IN IF r.error # Q!Empty THEN Q!AnswerRefusal(v, r)
           ELSE visit' = [visit EXCEPT ![v] =
                  [@ EXCEPT !.stage = "issuing", !.client = client, !.mode = r.mode,
                            !.code = "code" \in p.response_type]]
  BY <1>1 DEF Q!Execute
<1>5. PICK reg, r : reg = TRUE /\ r = Q!Validate(p, client, reg)
  OBVIOUS
<1>6. CASE r.error # Q!Empty
  <2>1. Q!AnswerRefusal(v, r)
    BY <1>4, <1>5, <1>6
  <2>2. r.error # "replay"
    BY <1>5, ValidateErrors
  <2>3. r.redirectable \/ NotInVain(v)
    <3>1. SUFFICES ASSUME visit[v].signed_in, ~changed, raw.by = "none",
                          raw.transport.client_id \notin Entities
                   PROVE  r.redirectable
      BY DEF NotInVain
    <3>2. p = Q!Stripped(raw.transport) /\ Q!Redirectable
      BY <1>2, <1>3, <3>1 DEF Q!LoginInv
    <3>3. p.client_id = raw.transport.client_id
      BY <1>2, <3>2 DEF Q!Stripped, Q!Fields, Q!Blank
    <3>4. client = Q!ClientAtFirst
      BY <1>2, <1>4, <3>1, <3>3, FirstFound
    <3>5. p \in {raw.transport, Q!Stripped(raw.transport)}
      BY <3>2
    <3>6. Q!Validate(p, client, reg).redirectable
      BY <1>2, <3>2, <3>4, <3>5, SameRedirectable
    <3> QED
      BY <1>5, <3>6
  <2> QED
    BY <1>1, <1>2, <1>4, <1>5, <2>1, <2>2, <2>3, AnswerRefusalKeeps
<1>7. CASE r.error = Q!Empty
  <2>1. /\ client # NoClient /\ p.redirect_uri \in client.redirect_uris
        /\ r.mode = Q!ResolveResponseMode(p.response_mode, Q!HasTokens(p.response_type))
        /\ r.mode # "none" /\ (r.mode = "jwt" => p.response_mode = "jwt" /\ client.jarm)
    BY <1>5, <1>7, ValidateErrors
  <2>2. PICK x : x = visit[v]
    OBVIOUS
  <2>3. Sound(x) /\ Q!Shape(x) /\ x.answer = Q!NoAnswer
    BY <1>2, <2>2, Parts DEF Sound, Q!VisitType
  <2>4. PICK y : y = Issuing(x, client, r.mode, "code" \in p.response_type)
    OBVIOUS
  <2>5. Replaces(v, y)
    BY <1>2, <1>4, <1>5, <1>7, <2>2, <2>4 DEF Replaces, Issuing
  <2>6. /\ Q!Shape(y) /\ y.stage = "issuing" /\ y.params = p /\ y.session = x.session
        /\ y.signed_in = x.signed_in /\ y.answer = Q!NoAnswer /\ y.client = client /\ y.mode = r.mode
    BY <1>1, <2>2, <2>3, <2>4, IssuingVisit
  <2>7. Q!VisitType(y)
    BY <1>3, <2>6 DEF Q!VisitType, Q!Stages, Q!Under
  <2>8. Addressed(p.redirect_uri)
    BY <1>2, <1>4, <2>1, FoundUris
  <2>9. Q!IssuingInv(y)
    BY <2>1, <2>6, <2>8 DEF Q!IssuingInv, Addressed
  <2>10. Q!FapiInv(y) /\ RememberOf(y)
    BY <1>3, <2>6 DEF Q!FapiInv, RememberOf
  <2>11. FapiOf(y)
    <3>1. SUFFICES ASSUME client.profile = "fapi1", p.client_id = raw.transport.client_id,
                          ~Q!BecameFapi(raw.transport.client_id)
                   PROVE  Q!FromObject(p, raw.transport.client_id)
      BY <2>6 DEF FapiOf
    <3>2. Q!FapiAllAlong(raw.transport.client_id)
      BY <1>2, <1>4, <2>1, <3>1, FapiKnown
    <3> QED
      BY <1>3, <3>1, <3>2
  <2>12. Q!LoginInv(y)
    BY <1>3, <2>2, <2>6 DEF Q!LoginInv
  <2>13. Sound(y) /\ ReplayOf(y)
    BY <2>6, <2>7, <2>9, <2>10, <2>11, <2>12, UnansweredSound DEF Sound
  <2> QED
    BY <1>2, <2>5, <2>10, <2>13, VisitStep
<1> QED
  BY <1>6, <1>7

\* The answer with what was asked for.
LEMMA IssueKeeps ==
  ASSUME Q!RequestInv, NEW v \in Visits, Q!Issue(v)
  PROVE  Q!RequestInv'
<1>1. PICK p, client, x : x = visit[v] /\ p = x.params /\ client = x.client
  OBVIOUS
<1>2. /\ x.stage = "issuing" /\ UNCHANGED <<Q!world, Q!store>> /\ Sound(x) /\ Q!Shape(x)
      /\ DOMAIN visit = Visits /\ x.stage # "answered"
  BY <1>1, Parts DEF Q!Issue, Sound, Q!VisitType
<1>3. p # Q!Blank
  BY <1>1, <1>2, ParamsOf DEF Q!Under
<1>4. /\ client # NoClient /\ Addressed(p.redirect_uri)
      /\ x.mode = Q!ResolveResponseMode(p.response_mode, Q!HasTokens(p.response_type))
      /\ x.mode # "none" /\ (x.mode = "jwt" => p.response_mode = "jwt" /\ client.jarm)
  BY <1>1, <1>2 DEF Sound, Q!IssuingInv, Addressed
<1>5. CASE Q!AnswerError(v, p.redirect_uri, "query", "invalid_client", p.client_id)
  <2>1. PICK u, m, e, id : /\ Q!AnswerError(v, u, m, e, id) /\ u = p.redirect_uri
                           /\ e = "invalid_client"
    BY <1>5
  <2> QED
    BY <1>1, <1>2, <1>3, <1>4, <2>1, AnswerErrorKeeps
<1>6. CASE ~Q!AnswerError(v, p.redirect_uri, "query", "invalid_client", p.client_id)
  <2>1. PICK idToken : idToken = ("id_token" \in p.response_type)
    OBVIOUS
  <2>2. PICK links : links = Q!Links(client, p.response_type)
    OBVIOUS
  <2>3. PICK signed \in BOOLEAN :
          Q!Answer(v, [Q!Redirect(p.redirect_uri,
                         Q!SuccessMode(x.mode, Q!HasTokens(p.response_type), signed), Q!Empty)
                       EXCEPT !.carries = p.response_type,
                              !.c_hash = IF idToken THEN links.c_hash ELSE Q!Empty,
                              !.at_hash = IF idToken THEN links.at_hash ELSE Q!Empty,
                              !.alg = IF idToken THEN Q!IdTokenAlg(client) ELSE Q!Empty])
    BY <1>1, <1>6, <2>1, <2>2 DEF Q!Issue
  <2>4. PICK m : m = Q!SuccessMode(x.mode, Q!HasTokens(p.response_type), signed)
    OBVIOUS
  <2>5. PICK a : a = [Q!Redirect(p.redirect_uri, m, Q!Empty)
                      EXCEPT !.carries = p.response_type,
                             !.c_hash = IF idToken THEN links.c_hash ELSE Q!Empty,
                             !.at_hash = IF idToken THEN links.at_hash ELSE Q!Empty,
                             !.alg = IF idToken THEN Q!IdTokenAlg(client) ELSE Q!Empty]
    OBVIOUS
  <2>6. Q!Answer(v, a)
    BY <2>3, <2>4, <2>5
  <2>7. /\ a.uri = p.redirect_uri /\ a.mode = m /\ a.error = Q!Empty /\ a.kind = "redirect"
        /\ a.carries = p.response_type
        /\ idToken => /\ a.c_hash = links.c_hash /\ a.at_hash = links.at_hash
                      /\ a.alg = Q!IdTokenAlg(client)
    BY <2>5 DEF Q!Redirect, Q!NoAnswer
  <2>8. LinksOf(a)
    <3>1. /\ "code" \in p.response_type => links.c_hash = Q!Digest[Q!IdTokenAlg(client)]
          /\ "token" \in p.response_type => links.at_hash = Q!Digest[ServerAlg]
      BY <2>2 DEF Q!Links
    <3> QED
      BY <2>1, <2>7, <3>1 DEF LinksOf
  <2>9. Q!HasTokens(p.response_type) /\ Q!Carrier(m) = "query"
          => m = "jwt" /\ p.response_mode = "jwt" /\ client.jarm
    BY <1>4, <2>4 DEF Q!SuccessMode, Q!ResolveResponseMode, Q!Carrier
  <2>10. PICK y : Replaces(v, y) /\ y = Ended(x, a)
    BY <1>1, <1>2, <2>6, AnswerReplaces
  <2>11. /\ y.stage = "answered" /\ y.answer = a /\ y.signed_in = x.signed_in
         /\ y.params = x.params /\ y.client = x.client
    BY <1>2, <2>10, AnsweredVisit
  <2>12. TargetOf(y) /\ QueryOf(y)
    BY <1>1, <1>4, <2>7, <2>9, <2>11 DEF TargetOf, QueryOf
  <2>13. TransportOf(y) /\ VainOf(y)
    BY <2>7, <2>11 DEF TransportOf, VainOf
  <2>14. ReplayOf(y)
    BY <2>7, <2>11, EmptyIs DEF ReplayOf
  <2>15. Sound(y) /\ RememberOf(y)
    BY <1>2, <2>8, <2>10, <2>12, <2>13, AnsweredSound
  <2> QED
    BY <1>2, <2>10, <2>14, <2>15, VisitStep
<1> QED
  BY <1>5, <1>6

--------------------------------------------------------------------------------
(* The world *)

\* Another client record: what was said of the visits remains, or is no longer
\* said.
LEMMA SoundChanged ==
  ASSUME Q!RegistryInv, ~changed, changed' = TRUE, raw' = raw, NEW x, Sound(x)
  PROVE  Sound(x)'
<1>1. Q!VisitType(x)' /\ Q!IssuingInv(x)'
  BY DEF Sound, Q!VisitType, Q!IssuingInv
<1>2. Q!FapiAllAlong(raw.transport.client_id)' => Q!FapiAllAlong(raw.transport.client_id)
  BY DEF Q!FapiAllAlong, Q!RegistryInv
<1>3. Q!FapiInv(x)'
  BY <1>2 DEF Sound, Q!FapiInv, Q!FromObject
<1>4. Q!LoginInv(x)'
  BY DEF Sound, Q!LoginInv
<1>5. TransportOf(x)'
  BY DEF Sound, TransportOf, Asked, Fits
<1>6. VainOf(x)' /\ FapiOf(x)'
  BY DEF Sound, VainOf, FapiOf, Q!BecameFapi, Q!FromObject
<1>7. TargetOf(x)' /\ QueryOf(x)' /\ LinksOf(x.answer)'
  BY DEF Sound, TargetOf, QueryOf, LinksOf, Addressed, Unseen, Q!RefusedUnseen
<1> QED
  BY <1>1, <1>3, <1>4, <1>5, <1>6, <1>7 DEF Sound

\* The visits are the same, and what is said of each holds after the step.
LEMMA SoundVisit ==
  ASSUME visit' = visit, NEW v, NEW x, x = visit[v], Sound(x)', ReplayOf(x)', RememberOf(x)'
  PROVE  Sound(visit[v])' /\ ReplayOf(visit[v])' /\ RememberOf(visit[v])'
<1>1. Q!VisitType(visit[v])' /\ Q!IssuingInv(visit[v])'
  BY DEF Sound, Q!VisitType, Q!IssuingInv, Q!Shape
<1>2. Q!FapiInv(visit[v])' /\ Q!LoginInv(visit[v])'
  BY DEF Sound, Q!FapiInv, Q!LoginInv
<1>3. TargetOf(visit[v])' /\ QueryOf(visit[v])' /\ LinksOf(visit[v].answer)'
  BY DEF Sound, TargetOf, QueryOf, LinksOf
<1>4. TransportOf(visit[v])' /\ VainOf(visit[v])' /\ FapiOf(visit[v])'
  BY DEF Sound, TransportOf, Asked, VainOf, FapiOf
<1>5. ReplayOf(visit[v])' /\ RememberOf(visit[v])'
  BY DEF ReplayOf, RememberOf
<1> QED
  BY <1>1, <1>2, <1>3, <1>4, <1>5 DEF Sound

\* The owner changes a client.
LEMMA ChangeClientKeeps ==
  ASSUME Q!ClientAssumption, Q!RequestInv, NEW c \in ClientIds, Q!ChangeClient(c)
  PROVE  Q!RequestInv'
<1>1. /\ Q!RegistryInv /\ JtiSound /\ raw \in Cases /\ DOMAIN visit = Visits
      /\ \A w \in Visits : Sound(visit[w]) /\ ReplayOf(visit[w]) /\ RememberOf(visit[w])
  BY Parts
<1>2. /\ ~changed /\ changed' = TRUE /\ registry[c] # NoClient
      /\ UNCHANGED <<now, raw, visit, replays, accepted, jtiRaced>>
  BY DEF Q!ChangeClient, Q!store
<1>3. PICK new \in Changes(registry[c]) : registry' = [registry EXCEPT ![c] = new]
  BY DEF Q!ChangeClient
<1>4. Q!RegistryInv'
  <2>1. registry = Registered /\ DOMAIN registry = ClientIds
    BY <1>1, <1>2 DEF Q!RegistryInv
  <2> QED
    BY <1>2, <1>3, <2>1 DEF Q!RegistryInv
<1>5. JtiSound' /\ (raw \in Cases)' /\ DOMAIN visit' = Visits
  BY <1>1, <1>2, StoreKept
<1>6. ASSUME NEW w \in Visits
      PROVE  Sound(visit[w])' /\ ReplayOf(visit[w])' /\ RememberOf(visit[w])'
  <2>1. PICK x : x = visit[w] /\ Sound(x) /\ ReplayOf(x) /\ RememberOf(x)
    BY <1>1
  <2>2. Sound(x)'
    BY <1>1, <1>2, <2>1, SoundChanged
  <2>3. ReplayOf(x)' /\ RememberOf(x)'
    BY <1>2, <2>1, StoreKept
  <2> QED
    BY <1>2, <2>1, <2>2, <2>3, SoundVisit
<1> QED
  BY <1>4, <1>5, <1>6, PartsNext

\* The clock and the store: what was accepted is there until it expires.
LEMMA StoreStep ==
  ASSUME Q!RequestInv, UNCHANGED <<registry, changed, raw, visit, accepted, jtiRaced>>, JtiSound'
  PROVE  Q!RequestInv'
<1>1. /\ Q!RegistryInv /\ raw \in Cases /\ DOMAIN visit = Visits
      /\ \A w \in Visits : Sound(visit[w]) /\ ReplayOf(visit[w]) /\ RememberOf(visit[w])
  BY Parts
<1>2. Q!RegistryInv' /\ (raw \in Cases)' /\ DOMAIN visit' = Visits
  BY <1>1, RegistryKept
<1>3. ASSUME NEW w \in Visits
      PROVE  Sound(visit[w])' /\ ReplayOf(visit[w])' /\ RememberOf(visit[w])'
  <2>1. PICK x : x = visit[w] /\ Sound(x) /\ ReplayOf(x) /\ RememberOf(x)
    BY <1>1
  <2>2. Sound(x)'
    BY <2>1, SoundKept
  <2>3. ReplayOf(x)' /\ RememberOf(x)'
    BY <2>1 DEF ReplayOf, RememberOf
  <2> QED
    BY <2>1, <2>2, <2>3, SoundVisit
<1> QED
  BY <1>2, <1>3, PartsNext

\* Time passes.
LEMMA ClockKeeps ==
  ASSUME Q!CaseAssumption, Q!RequestInv, Q!Tick
  PROVE  Q!RequestInv'
<1>1. /\ UNCHANGED <<registry, changed, raw, visit, replays, accepted, jtiRaced>> /\ now' = now + 1
      /\ JtiSound
  BY Parts DEF Q!Tick, Q!store
<1>2. PICK E \in Nat : E = raw.document.exp
  BY CaseType
<1>3. JtiSound'
  BY <1>1, <1>2 DEF JtiSound, Q!JtiOncePerScope
<1> QED
  BY <1>1, <1>3, StoreStep

\* Expired entries are purged.
LEMMA StorePurged ==
  ASSUME Q!CaseAssumption, Q!RequestInv, Q!Purge
  PROVE  Q!RequestInv'
<1>1. /\ UNCHANGED <<now, registry, changed, raw, visit, accepted, jtiRaced>>
      /\ replays' = {r \in replays : r.exp > now} /\ JtiSound
  BY Parts DEF Q!Purge, Q!world
<1>2. PICK E \in Nat : E = raw.document.exp
  BY CaseType
<1>3. now \in Nat /\ \A r \in replays : r.exp = E
  BY <1>1, <1>2 DEF JtiSound
<1>4. E <= now \/ replays' = replays
  BY <1>1, <1>2, <1>3
<1>5. JtiSound'
  BY <1>1, <1>2, <1>3, <1>4 DEF JtiSound, Q!JtiOncePerScope
<1> QED
  BY <1>1, <1>5, StoreStep

--------------------------------------------------------------------------------
(* The invariant *)

\* The invariant holds at the start,
LEMMA RequestInit ==
  ASSUME Q!ClientAssumption, Q!Init
  PROVE  Q!RequestInv
<1>1. Q!RegistryInv /\ raw \in Cases /\ DOMAIN visit = Visits
  BY DEF Q!Init, Q!RegistryInv, Q!ClientAssumption
<1>2. JtiSound
  BY DEF Q!Init, JtiSound, Q!JtiOncePerScope
<1>3. PICK x : x = Q!Idle
  OBVIOUS
<1>4. /\ Q!Shape(x) /\ x.stage = "idle" /\ x.params = Q!Blank /\ x.answer = Q!NoAnswer
      /\ x.client = NoClient /\ x.signed_in = FALSE /\ ~x.code
  BY <1>3 DEF Q!Idle, Q!Shape
<1>5. Q!VisitType(x)
  BY <1>4 DEF Q!VisitType, Q!Stages, Q!Under, Q!Fields
<1>6. Q!IssuingInv(x) /\ Q!FapiInv(x) /\ FapiOf(x) /\ RememberOf(x) /\ Q!LoginInv(x)
  BY <1>4 DEF Q!IssuingInv, Q!FapiInv, FapiOf, RememberOf, Q!LoginInv, Q!Under
<1>7. Sound(x) /\ ReplayOf(x)
  BY <1>4, <1>5, <1>6, UnansweredSound DEF Sound
<1>8. \A v \in Visits : visit[v] = x
  BY <1>3 DEF Q!Init
<1> QED
  BY <1>1, <1>2, <1>6, <1>7, <1>8, Parts

\* every step keeps it,
LEMMA RequestStep ==
  ASSUME Q!EntityAssumption, Q!ClientAssumption, Q!CaseAssumption, Q!RequestInv, [Q!Next]_Q!vars
  PROVE  Q!RequestInv'
<1>1. ASSUME NEW v \in Visits, Q!Arrive(v) \/ Q!SignIn(v)
      PROVE  Q!RequestInv'
  BY <1>1, ArriveKeeps, ReturnKeeps
<1>2. ASSUME NEW v \in Visits,
             Q!ResolveWithout(v) \/ Q!ResolveUnreadable(v) \/ Q!ResolveDocument(v) \/ Q!Remember(v)
      PROVE  Q!RequestInv'
  BY <1>2, ResolveWithoutKeeps, ResolveUnreadableKeeps, ResolveDocumentKeeps, RememberKeeps
<1>3. ASSUME NEW v \in Visits, Q!Admit(v) \/ Q!Precheck(v) \/ Q!Gate(v) \/ Q!Execute(v) \/ Q!Issue(v)
      PROVE  Q!RequestInv'
  BY <1>3, AdmitKeeps, PrecheckKeeps, GateKeeps, ExecuteKeeps, IssueKeeps
<1>4. ASSUME NEW c \in ClientIds, Q!ChangeClient(c)
      PROVE  Q!RequestInv'
  BY <1>4, ChangeClientKeeps
<1>5. CASE Q!Tick \/ Q!Purge
  BY <1>5, ClockKeeps, StorePurged
<1>6. CASE UNCHANGED Q!vars
  <2>1. UNCHANGED <<registry, changed, raw, visit, accepted, jtiRaced>> /\ UNCHANGED <<now, replays>>
    BY <1>6 DEF Q!vars
  <2>2. JtiSound'
    BY <2>1, Parts, StoreKept
  <2> QED
    BY <2>1, <2>2, StoreStep
<1> QED
  BY <1>1, <1>2, <1>3, <1>4, <1>5, <1>6 DEF Q!Next, Q!Step

\* and so it always holds.
LEMMA RequestAlways ==
  ASSUME Q!EntityAssumption, Q!ClientAssumption, Q!CaseAssumption
  PROVE  Q!Spec => []Q!RequestInv
<1>1. Q!Init => Q!RequestInv
  BY RequestInit
<1>2. Q!RequestInv /\ [Q!Next]_Q!vars => Q!RequestInv'
  BY RequestStep
<1> QED
  BY <1>1, <1>2, PTL DEF Q!Spec

\* Wherever /authorize answers, with tokens or a refusal, it answers to a URI
\* that a client registered or that its trust chain names, but for the two
\* refusals that come before the client is looked up, which carry nothing but
\* the error; and nobody signs in for a page that the first validation could have
\* shown: for any clients, requests, visits and changes.
THEOREM AnswersReachClients ==
  ASSUME Q!EntityAssumption, Q!ClientAssumption, Q!CaseAssumption
  PROVE  Q!Spec => []Q!AnswersAddressed
<1>1. Q!RequestInv => Q!AnswersAddressed
  BY DEF Q!RequestInv
<1> QED
  BY <1>1, RequestAlways, PTL

\* Tokens are in a query string only inside the signed envelope that the request
\* asked for, and in the clear never; a refusal travels as it was asked for, and
\* the parts of an answer are bound to each other.
THEOREM AnswersFit ==
  ASSUME Q!EntityAssumption, Q!ClientAssumption, Q!CaseAssumption
  PROVE  Q!Spec => []Q!AnswerSound
<1>1. Q!RequestInv => Q!AnswerSound
  BY DEF Q!RequestInv
<1> QED
  BY <1>1, RequestAlways, PTL

\* A request object is accepted once in a session unless two presentations
\* raced, a return from the login is no replay, and what a FAPI 1 client signed
\* counts alone.
THEOREM ObjectsCount ==
  ASSUME Q!EntityAssumption, Q!ClientAssumption, Q!CaseAssumption
  PROVE  Q!Spec => []Q!ObjectsHonoured
<1>1. Q!RequestInv => Q!ObjectsHonoured
  BY DEF Q!RequestInv
<1> QED
  BY <1>1, RequestAlways, PTL
================================================================================
