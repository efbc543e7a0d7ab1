--------------------------- MODULE TokenGrants_proof ---------------------------
(* Proofs about TokenGrants, for every value of its constants.              *)
EXTENDS TokenGrants, TLAPS

USE ClientAssumption, BlankAssumption, GrantAssumption, IdAssumption, TimeAssumption

\* A step moves one call at most; the others stay where they are.
LEMMA OneCall ==
  ASSUME TypeOK, NEW r \in Requests, NEW q \in Request, req' = [req EXCEPT ![r] = q]
  PROVE  /\ req' \in [Requests -> Request]
         /\ req'[r] = q
         /\ \A s \in Requests \ {r} : req'[s] = req[s]
BY DEF TypeOK

\* The blank request is a request.
LEMMA IdleType == Idle \in Request
BY DEF Idle, Request, Steps

\* The initial state is well typed.
LEMMA InitType == Init => TypeOK
BY IdleType DEF Init, TypeOK

\* Issuing a code keeps the types.
LEMMA IssueType ==
  ASSUME TypeOK, NEW c \in Codes, NEW g \in Grants, Issue(c, g)
  PROVE  TypeOK'
<1>1. g \in GrantType
  OBVIOUS
<1>2. codes'[c] \in CodeRow
  BY <1>1 DEF TypeOK, Issue, Put, CodeRow, GrantType
<1>3. \A d \in DOMAIN codes' : d # c => d \in DOMAIN codes /\ codes'[d] = codes[d]
  BY DEF Issue, Put
<1> QED
  BY <1>2, <1>3 DEF TypeOK, Issue

\* Looking a code up keeps the types.
LEMMA BeginType ==
  ASSUME TypeOK, NEW r \in Requests, NEW c \in DOMAIN codes, NEW client \in Clients,
         NEW res \in SUBSET Resources, NEW proof \in Keys \cup {NoKey},
         NEW cert \in Certs \cup {NoCert}, Begin(r, c, client, res, proof, cert)
  PROVE  TypeOK'
<1> DEFINE q == [Idle EXCEPT
       !.pc = "consume", !.code = c, !.client = client, !.scopes = codes[c].scopes,
       !.resources = res, !.jkt = proof, !.rt_jkt = RefreshKey(client, NoKey, proof),
       !.cert = cert, !.start = now]
<1>0. /\ c \in Codes /\ codes[c].scopes \in SUBSET Scopes /\ now \in Nat
      /\ RefreshKey(client, NoKey, proof) \in Keys \cup {NoKey}
  BY DEF TypeOK, CodeRow, RefreshKey
<1>1. q \in Request
  BY <1>0 DEF Request, Steps, Idle
<1>2. req' = [req EXCEPT ![r] = q]
  BY DEF Begin
<1>3. req' \in [Requests -> Request]
  BY <1>1, <1>2, OneCall
<1>4. raced' \subseteq Codes \cup RefreshIds
  BY DEF TypeOK, Begin, Race
<1> QED
  BY <1>3, <1>4 DEF TypeOK, Begin

\* What a call keeps when only its program counter moves.
SameCall(q, p) ==
  /\ p.code = q.code /\ p.refresh = q.refresh /\ p.client = q.client
  /\ p.scopes = q.scopes /\ p.resources = q.resources /\ p.jkt = q.jkt
  /\ p.rt_jkt = q.rt_jkt /\ p.cert = q.cert /\ p.start = q.start /\ p.due = q.due

\* A call that only moves its program counter stays a Request.
LEMMA PcMove ==
  ASSUME TypeOK, NEW r \in Requests, NEW p \in Steps, req' = [req EXCEPT ![r].pc = p]
  PROVE  /\ req' \in [Requests -> Request]
         /\ req'[r].pc = p
         /\ SameCall(req[r], req'[r])
         /\ req'[r].at = req[r].at /\ req'[r].at_exp = req[r].at_exp /\ req'[r].rt = req[r].rt
         /\ \A s \in Requests \ {r} : req'[s] = req[s]
<1>1. req[r] \in Request /\ req \in [Requests -> Request]
  BY DEF TypeOK
<1>2. req'[r] = [req[r] EXCEPT !.pc = p]
  BY <1>1
<1>3. req'[r] \in Request
  BY <1>1, <1>2 DEF Request
<1> QED
  BY <1>1, <1>2, <1>3 DEF Request, SameCall

\* The columns of a row that no step rewrites.
SameCode(row, new) ==
  /\ new.client = row.client /\ new.scopes = row.scopes /\ new.resources = row.resources
  /\ new.jkt = row.jkt /\ new.pre = row.pre

SameRefresh(row, new) ==
  /\ new.client = row.client /\ new.scopes = row.scopes /\ new.resources = row.resources
  /\ new.jkt = row.jkt /\ new.cert = row.cert /\ new.root = row.root /\ new.parent = row.parent

\* consume writes one column of one code.
LEMMA CodeConsumed ==
  ASSUME TypeOK, NEW k, codes' = [codes EXCEPT ![k].consumed = TRUE]
  PROVE  /\ DOMAIN codes' = DOMAIN codes
         /\ \A c \in DOMAIN codes :
              /\ codes'[c] \in CodeRow
              /\ SameCode(codes[c], codes'[c])
              /\ codes'[c].at = codes[c].at /\ codes'[c].at_exp = codes[c].at_exp
              /\ codes'[c].rt = codes[c].rt
              /\ codes[c].consumed \/ c = k => codes'[c].consumed
              /\ c # k => codes'[c] = codes[c]
<1>1. \A row \in CodeRow : /\ [row EXCEPT !.consumed = TRUE] \in CodeRow
                           /\ SameCode(row, [row EXCEPT !.consumed = TRUE])
                           /\ [row EXCEPT !.consumed = TRUE].consumed = TRUE
                           /\ [row EXCEPT !.consumed = TRUE].at = row.at
                           /\ [row EXCEPT !.consumed = TRUE].at_exp = row.at_exp
                           /\ [row EXCEPT !.consumed = TRUE].rt = row.rt
  BY DEF CodeRow, SameCode
<1>2. \A c \in DOMAIN codes :
        codes'[c] = IF c = k THEN [codes[c] EXCEPT !.consumed = TRUE] ELSE codes[c]
  OBVIOUS
<1>3. \A c \in DOMAIN codes : codes[c] \in CodeRow
  BY DEF TypeOK
<1> QED
  BY <1>1, <1>2, <1>3 DEF SameCode

\* consume writes one column of one refresh token.
LEMMA RefreshConsumed ==
  ASSUME TypeOK, NEW k, refresh_tokens' = [refresh_tokens EXCEPT ![k].consumed = TRUE]
  PROVE  /\ DOMAIN refresh_tokens' = DOMAIN refresh_tokens
         /\ \A t \in DOMAIN refresh_tokens :
              /\ refresh_tokens'[t] \in RefreshRow
              /\ SameRefresh(refresh_tokens[t], refresh_tokens'[t])
              /\ refresh_tokens[t].consumed \/ t = k => refresh_tokens'[t].consumed
              /\ t # k => refresh_tokens'[t] = refresh_tokens[t]
<1>1. \A row \in RefreshRow : /\ [row EXCEPT !.consumed = TRUE] \in RefreshRow
                              /\ SameRefresh(row, [row EXCEPT !.consumed = TRUE])
                              /\ [row EXCEPT !.consumed = TRUE].consumed = TRUE
  BY DEF RefreshRow, SameRefresh
<1>2. \A t \in DOMAIN refresh_tokens :
        refresh_tokens'[t] = IF t = k THEN [refresh_tokens[t] EXCEPT !.consumed = TRUE]
                                      ELSE refresh_tokens[t]
  OBVIOUS
<1>3. \A t \in DOMAIN refresh_tokens : refresh_tokens[t] \in RefreshRow
  BY DEF TypeOK
<1> QED
  BY <1>1, <1>2, <1>3 DEF SameRefresh

\* _record_issued_tokens rewrites the row it names and no other.
LEMMA CodeRecorded ==
  ASSUME TypeOK, NEW r \in Requests, Record(r)
  PROVE  /\ DOMAIN codes' = DOMAIN codes
         /\ \A c \in DOMAIN codes :
              /\ codes'[c] \in CodeRow
              /\ SameCode(codes[c], codes'[c])
              /\ codes[c].consumed \/ c = req[r].code => codes'[c].consumed
              /\ c # req[r].code => codes'[c] = codes[c]
              /\ c = req[r].code => /\ codes'[c].at = req[r].at
                                    /\ codes'[c].at_exp = req[r].at_exp
                                    /\ codes'[c].rt = req[r].rt
<1>1. /\ req[r].at \in AccessIds \cup {NoToken} /\ req[r].at_exp \in Nat
      /\ req[r].rt \in RefreshIds \cup {NoToken}
  BY DEF TypeOK, Request
<1> DEFINE New(row) == [row EXCEPT !.consumed = TRUE, !.at = req[r].at,
                                   !.at_exp = req[r].at_exp, !.rt = req[r].rt]
<1>2. \A row \in CodeRow : /\ New(row) \in CodeRow
                           /\ SameCode(row, New(row))
                           /\ New(row).consumed = TRUE
                           /\ New(row).at = req[r].at
                           /\ New(row).at_exp = req[r].at_exp
                           /\ New(row).rt = req[r].rt
  BY <1>1 DEF CodeRow, SameCode
<1>3. /\ DOMAIN codes' = DOMAIN codes
      /\ \A c \in DOMAIN codes : codes'[c] = IF c = req[r].code THEN New(codes[c]) ELSE codes[c]
  BY DEF Record
<1>4. \A c \in DOMAIN codes : codes[c] \in CodeRow
  BY DEF TypeOK
<1> HIDE DEF New
<1> QED
  BY <1>2, <1>3, <1>4 DEF SameCode

\* A call that was just given a token keeps the rest of its state.
LEMMA RefreshMove ==
  ASSUME TypeOK, NEW r \in Requests, NEW t \in RefreshIds,
         req' = [req EXCEPT ![r].pc = "mint_access", ![r].rt = t]
  PROVE  /\ req' \in [Requests -> Request]
         /\ req'[r].pc = "mint_access" /\ req'[r].rt = t
         /\ SameCall(req[r], req'[r])
         /\ req'[r].at = req[r].at /\ req'[r].at_exp = req[r].at_exp
         /\ \A s \in Requests \ {r} : req'[s] = req[s]
<1>1. req[r] \in Request /\ req \in [Requests -> Request]
  BY DEF TypeOK
<1>2. req'[r] = [req[r] EXCEPT !.pc = "mint_access", !.rt = t]
  BY <1>1
<1>3. req'[r] \in Request
  <2>0. "mint_access" \in Steps
    BY DEF Steps
  <2>1. \A p \in Steps, q \in Request : [q EXCEPT !.pc = p] \in Request
    BY DEF Request
  <2>2. \A q \in Request : [q EXCEPT !.rt = t] \in Request
    BY DEF Request
  <2> QED
    BY <1>1, <1>2, <2>0, <2>1, <2>2
<1> QED
  BY <1>1, <1>2, <1>3 DEF Request, SameCall

\* A call that has signed an access token stays a Request.
LEMMA AccessMove ==
  ASSUME TypeOK, NEW r \in Requests, NEW a \in AccessIds, NEW p \in Steps, NEW e \in Nat,
         req' = [req EXCEPT ![r].pc = p, ![r].at = a, ![r].at_exp = e]
  PROVE  /\ req' \in [Requests -> Request]
         /\ req'[r].pc = p /\ req'[r].at = a /\ req'[r].at_exp = e
         /\ SameCall(req[r], req'[r])
         /\ req'[r].rt = req[r].rt
         /\ \A s \in Requests \ {r} : req'[s] = req[s]
<1>1. req[r] \in Request /\ req \in [Requests -> Request]
  BY DEF TypeOK
<1>2. req'[r] = [req[r] EXCEPT !.pc = p, !.at = a, !.at_exp = e]
  BY <1>1
<1>3. req'[r] \in Request
  <2>1. \A q \in Request : [q EXCEPT !.pc = p] \in Request
    BY DEF Request
  <2>2. \A q \in Request : [q EXCEPT !.at = a] \in Request
    BY DEF Request
  <2>3. \A q \in Request : [q EXCEPT !.at_exp = e] \in Request
    BY DEF Request
  <2> QED
    BY <1>1, <1>2, <2>1, <2>2, <2>3
<1> QED
  BY <1>1, <1>2, <1>3 DEF Request, SameCall

\* Consuming a code keeps the types.
LEMMA ConsumeCodeType ==
  ASSUME TypeOK, NEW r \in Requests, ConsumeCode(r)
  PROVE  TypeOK'
<1>1. req' \in [Requests -> Request]
  <2>1. PICK p \in Steps : req' = [req EXCEPT ![r].pc = p]
    BY DEF ConsumeCode, Steps
  <2> QED
    BY <2>1, PcMove
<1>2. DOMAIN codes' = DOMAIN codes /\ \A c \in DOMAIN codes : codes'[c] \in CodeRow
  BY CodeConsumed DEF ConsumeCode
<1> QED
  BY <1>1, <1>2 DEF TypeOK, ConsumeCode

\* Issuing a refresh token keeps the types.
LEMMA MintRefreshType ==
  ASSUME TypeOK, RequestInv, NEW r \in Requests, NEW t \in RefreshIds, MintRefresh(r, t)
  PROVE  TypeOK'
<1>1. req[r] \in Request /\ req[r].client \in Clients /\ req[r].code \in Codes
  BY DEF TypeOK, RequestInv, InGrant, Redeeming, MintRefresh
<1>2. refresh_tokens'[t] \in RefreshRow
  BY <1>1 DEF MintRefresh, Put, RefreshRow, Request
<1>3. \A u \in DOMAIN refresh_tokens' : u # t =>
        u \in DOMAIN refresh_tokens /\ refresh_tokens'[u] = refresh_tokens[u]
  BY DEF MintRefresh, Put
<1>4. req' \in [Requests -> Request]
  BY RefreshMove DEF MintRefresh
<1>5. DOMAIN refresh_tokens' = DOMAIN refresh_tokens \cup {t}
  BY DEF MintRefresh, Put
<1> QED
  BY <1>2, <1>3, <1>4, <1>5 DEF TypeOK, MintRefresh

\* Signing an access token keeps the types.
LEMMA MintAccessType ==
  ASSUME TypeOK, RequestInv, NEW r \in Requests, NEW a \in AccessIds, MintAccess(r, a)
  PROVE  TypeOK'
<1>1. req[r] \in Request /\ req[r].client \in Clients /\ req[r].code \in Codes
  BY DEF TypeOK, RequestInv, InGrant, Redeeming, MintAccess
<1>2. access_tokens'[a] \in AccessRow
  BY <1>1 DEF MintAccess, Put, AccessRow, Request
<1>3. \A u \in DOMAIN access_tokens' : u # a =>
        u \in DOMAIN access_tokens /\ access_tokens'[u] = access_tokens[u]
  BY DEF MintAccess, Put
<1>4. req' \in [Requests -> Request]
  <2>1. PICK p \in Steps : req' = [req EXCEPT ![r].pc = p, ![r].at = a,
                                              ![r].at_exp = req[r].start + AccessTtl]
    BY DEF MintAccess, Steps
  <2>2. req[r].start + AccessTtl \in Nat
    BY <1>1 DEF Request
  <2> QED
    BY <2>1, <2>2, AccessMove
<1>5. DOMAIN access_tokens' = DOMAIN access_tokens \cup {a}
  BY DEF MintAccess, Put
<1> QED
  BY <1>2, <1>3, <1>4, <1>5 DEF TypeOK, MintAccess

\* Recording the issued tokens on the code keeps the types.
LEMMA RecordType ==
  ASSUME TypeOK, NEW r \in Requests, Record(r)
  PROVE  TypeOK'
<1>1. req' \in [Requests -> Request]
  BY PcMove DEF Record, Steps
<1>2. DOMAIN codes' = DOMAIN codes /\ \A c \in DOMAIN codes : codes'[c] \in CodeRow
  BY CodeRecorded
<1> QED
  BY <1>1, <1>2 DEF TypeOK, Record

\* Ending a call keeps the types.
LEMMA BlankType ==
  ASSUME TypeOK, NEW r \in Requests, req' = [req EXCEPT ![r] = Idle]
  PROVE  req' \in [Requests -> Request]
BY IdleType, OneCall

\* Answering a call keeps every variable in its type.
LEMMA RespondType ==
  ASSUME TypeOK, NEW r \in Requests, Respond(r)
  PROVE  TypeOK'
<1>1. req' \in [Requests -> Request]
  BY BlankType DEF Respond
<1>2. req[r].at \in AccessIds \cup {NoToken} /\ req[r].rt \in RefreshIds \cup {NoToken}
  BY DEF TypeOK, Request
<1> QED
  BY <1>1, <1>2 DEF TypeOK, Respond

\* Finding a consumed code keeps every variable in its type.
LEMMA ReplayStartType ==
  ASSUME TypeOK, NEW r \in Requests, NEW c \in DOMAIN codes, ReplayStart(r, c)
  PROVE  TypeOK'
<1> DEFINE q == [Idle EXCEPT
       !.pc = "revoke_access", !.code = c, !.at = codes[c].at, !.at_exp = codes[c].at_exp,
       !.rt = codes[c].rt, !.due = (DirectAccess(c) \cup DirectRefresh(c)) \cap delivered]
<1>1. /\ c \in Codes /\ codes[c].at \in AccessIds \cup {NoToken} /\ codes[c].at_exp \in Nat
      /\ codes[c].rt \in RefreshIds \cup {NoToken}
      /\ (DirectAccess(c) \cup DirectRefresh(c)) \cap delivered
           \in SUBSET (AccessIds \cup RefreshIds)
  BY DEF TypeOK, CodeRow
<1>2. q \in Request
  BY <1>1 DEF Request, Steps, Idle
<1>3. req' \in [Requests -> Request]
  BY <1>2, OneCall DEF ReplayStart
<1> QED
  BY <1>3 DEF TypeOK, ReplayStart

\* Saving a denylist entry keeps every variable in its type.
LEMMA RevokeAccessType ==
  ASSUME TypeOK, NEW r \in Requests, RevokeAccess(r)
  PROVE  TypeOK'
<1>1. req' \in [Requests -> Request]
  BY PcMove DEF RevokeAccess, Steps
<1>2. req[r].at \in AccessIds \cup {NoToken} /\ req[r].at_exp \in Nat
  BY DEF TypeOK, Request
<1>3. DOMAIN revoked' \subseteq AccessIds /\ \A a \in DOMAIN revoked' : revoked'[a] \in Nat
  BY <1>2 DEF TypeOK, RevokeAccess, Put
<1> QED
  BY <1>1, <1>3 DEF TypeOK, RevokeAccess

\* Consuming the refresh token of a replayed code keeps the types.
LEMMA RevokeRefreshType ==
  ASSUME TypeOK, NEW r \in Requests, RevokeRefresh(r)
  PROVE  TypeOK'
<1>1. req' \in [Requests -> Request]
  BY BlankType DEF RevokeRefresh
<1>2. /\ DOMAIN refresh_tokens' = DOMAIN refresh_tokens
      /\ \A t \in DOMAIN refresh_tokens : refresh_tokens'[t] \in RefreshRow
  BY RefreshConsumed DEF TypeOK, RevokeRefresh
<1>3. req[r].due \subseteq AccessIds \cup RefreshIds
  BY DEF TypeOK, Request
<1> QED
  BY <1>1, <1>2, <1>3 DEF TypeOK, RevokeRefresh

\* Looking a refresh token up keeps every variable in its type.
LEMMA RefreshStartType ==
  ASSUME TypeOK, NEW r \in Requests, NEW t \in DOMAIN refresh_tokens,
         NEW scopes \in SUBSET Scopes, NEW res \in SUBSET Resources,
         NEW proof \in Keys \cup {NoKey}, NEW cert \in Certs \cup {NoCert},
         RefreshStart(r, t, scopes, res, proof, cert)
  PROVE  TypeOK'
<1> DEFINE row == refresh_tokens[t]
           key == RefreshKey(row.client, row.jkt, proof)
<1>1. row \in RefreshRow /\ t \in RefreshIds /\ now \in Nat
  BY DEF TypeOK
<1>2. key \in Keys \cup {NoKey}
  BY <1>1 DEF RefreshKey, RefreshRow
<1>3. PICK p \in Steps : req' = [req EXCEPT ![r] = [Idle EXCEPT !.pc = p,
       !.code = row.root, !.refresh = t, !.client = row.client, !.scopes = scopes,
       !.resources = res, !.jkt = proof, !.rt_jkt = key, !.cert = cert, !.start = now]]
  BY DEF RefreshStart, Steps
<1> DEFINE q == [Idle EXCEPT !.pc = p,
       !.code = row.root, !.refresh = t, !.client = row.client, !.scopes = scopes,
       !.resources = res, !.jkt = proof, !.rt_jkt = key, !.cert = cert, !.start = now]
<1>4. row.root \in Codes /\ row.client \in Clients
  BY <1>1 DEF RefreshRow
<1>5. q \in Request
  <2> HIDE DEF row, key
  <2> QED BY <1>1, <1>2, <1>4 DEF Request, Steps, Idle
<1>6. req' \in [Requests -> Request]
  <2> HIDE DEF row, key
  <2> QED BY <1>3, <1>5, OneCall
<1>7. raced' \subseteq Codes \cup RefreshIds
  BY <1>1 DEF TypeOK, RefreshStart, Race
<1> QED
  BY <1>6, <1>7 DEF TypeOK, RefreshStart

\* Consuming a rotated refresh token keeps the types.
LEMMA ConsumeRefreshType ==
  ASSUME TypeOK, NEW r \in Requests, ConsumeRefresh(r)
  PROVE  TypeOK'
<1>1. req' \in [Requests -> Request]
  BY PcMove DEF ConsumeRefresh, Steps
<1>2. /\ DOMAIN refresh_tokens' = DOMAIN refresh_tokens
      /\ \A t \in DOMAIN refresh_tokens : refresh_tokens'[t] \in RefreshRow
  BY RefreshConsumed DEF ConsumeRefresh
<1> QED
  BY <1>1, <1>2 DEF TypeOK, ConsumeRefresh

\* Purging the denylist keeps every variable in its type.
LEMMA PurgeType ==
  ASSUME TypeOK, PurgeExpired
  PROVE  TypeOK'
<1>1. DOMAIN revoked' \subseteq DOMAIN revoked /\ \A a \in DOMAIN revoked' : revoked'[a] = revoked[a]
  BY DEF PurgeExpired
<1> QED
  BY <1>1 DEF TypeOK, PurgeExpired

--------------------------------------------------------------------------------
(* What every step keeps of the stores, and why a token stays in its grant. *)

RowsKept ==
  /\ \A c \in DOMAIN codes :
       /\ c \in DOMAIN codes' /\ SameCode(codes[c], codes'[c])
       /\ codes[c].consumed => codes'[c].consumed
  /\ \A t \in DOMAIN refresh_tokens :
       /\ t \in DOMAIN refresh_tokens' /\ SameRefresh(refresh_tokens[t], refresh_tokens'[t])
       /\ refresh_tokens[t].consumed => refresh_tokens'[t].consumed
  /\ \A a \in DOMAIN access_tokens :
       a \in DOMAIN access_tokens' /\ access_tokens'[a] = access_tokens[a]

\* A step that leaves the stores alone keeps their rows.
LEMMA StoresAlone ==
  ASSUME UNCHANGED <<codes, refresh_tokens, access_tokens>>
  PROVE  RowsKept
BY DEF RowsKept, SameCode, SameRefresh

\* No step loses a row, changes what it grants, or takes a consumption back.
LEMMA StepKeepsRows ==
  ASSUME TypeOK, [Next]_vars
  PROVE  RowsKept
<1>1. ASSUME NEW c \in Codes, NEW g \in Grants, Issue(c, g)
      PROVE  RowsKept
  BY <1>1 DEF Issue, Put, RowsKept, SameCode, SameRefresh
<1>2. ASSUME NEW r \in Requests, Redeem(r)
      PROVE  RowsKept
  <2>1. ASSUME NEW c \in DOMAIN codes, NEW res \in SUBSET Resources,
               NEW proof \in Keys \cup {NoKey}, NEW cert \in Certs \cup {NoCert},
               ExchangeStart(r, c, res, proof, cert)
                 \/ \E client \in Clients : PreAuthorizedStart(r, c, client, res, proof, cert)
        PROVE  RowsKept
    BY <2>1, StoresAlone DEF ExchangeStart, PreAuthorizedStart, Begin
  <2>6. CASE Respond(r)
    BY <2>6, StoresAlone DEF Respond
  <2>2. CASE ConsumeCode(r)
    BY <2>2, CodeConsumed DEF ConsumeCode, RowsKept, SameRefresh
  <2>3. ASSUME NEW t \in RefreshIds, MintRefresh(r, t)
        PROVE  RowsKept
    BY <2>3 DEF MintRefresh, Put, RowsKept, SameCode, SameRefresh
  <2>4. ASSUME NEW a \in AccessIds, MintAccess(r, a)
        PROVE  RowsKept
    BY <2>4 DEF MintAccess, Put, RowsKept, SameCode, SameRefresh
  <2>5. CASE Record(r)
    <3>1. UNCHANGED <<refresh_tokens, access_tokens>>
      BY <2>5 DEF Record
    <3> QED
      BY <2>5, <3>1, CodeRecorded DEF RowsKept, SameRefresh
  <2> QED
    BY <1>2, <2>1, <2>2, <2>3, <2>4, <2>5, <2>6 DEF Redeem
<1>3. ASSUME NEW r \in Requests, Replay(r)
      PROVE  RowsKept
  <2>1. CASE UNCHANGED <<codes, refresh_tokens, access_tokens>>
    BY <2>1, StoresAlone
  <2>2. CASE RevokeRefresh(r)
    <3>1. CASE req[r].rt = NoToken
      BY <2>2, <3>1, StoresAlone DEF RevokeRefresh
    <3>2. CASE req[r].rt # NoToken
      <4>1. /\ refresh_tokens' = [refresh_tokens EXCEPT ![req[r].rt].consumed = TRUE]
            /\ UNCHANGED <<codes, access_tokens>>
        BY <2>2, <3>2 DEF RevokeRefresh
      <4> QED
        BY <4>1, RefreshConsumed DEF RowsKept, SameCode
    <3> QED
      BY <3>1, <3>2
  <2> QED
    BY <1>3, <2>1, <2>2 DEF Replay, ReplayStart, RevokeAccess
<1>4. ASSUME NEW r \in Requests, Renew(r)
      PROVE  RowsKept
  <2>1. ASSUME NEW t \in DOMAIN refresh_tokens, NEW scopes \in SUBSET Scopes,
               NEW res \in SUBSET Resources, NEW proof \in Keys \cup {NoKey},
               NEW cert \in Certs \cup {NoCert}, RefreshStart(r, t, scopes, res, proof, cert)
        PROVE  RowsKept
    BY <2>1, StoresAlone DEF RefreshStart
  <2>2. CASE ConsumeRefresh(r)
    <3>1. /\ refresh_tokens' = [refresh_tokens EXCEPT ![req[r].refresh].consumed = TRUE]
          /\ UNCHANGED <<codes, access_tokens>>
      BY <2>2 DEF ConsumeRefresh
    <3> QED
      BY <3>1, RefreshConsumed DEF RowsKept, SameCode
  <2> QED
    BY <1>4, <2>1, <2>2 DEF Renew
<1>5. CASE UNCHANGED <<codes, refresh_tokens, access_tokens>>
  BY <1>5, StoresAlone
<1> QED
  BY <1>1, <1>2, <1>3, <1>4, <1>5 DEF Next, Abort, PurgeExpired, Tick, vars

\* A token that lay within its grant still does.
LEMMA KeptLineage ==
  ASSUME TypeOK, GrantLineage, RowsKept
  PROVE  /\ \A a \in DOMAIN access_tokens : Lineage(access_tokens[a])'
         /\ \A t \in DOMAIN refresh_tokens : Lineage(refresh_tokens[t])'
<1>1. \A a \in DOMAIN access_tokens : Lineage(access_tokens[a])'
  BY DEF GrantLineage, Lineage, Within, RowsKept, SameCode, SameRefresh
<1>2. \A t \in DOMAIN refresh_tokens : Lineage(refresh_tokens[t])'
  BY DEF GrantLineage, Lineage, Within, RowsKept, SameCode, SameRefresh
<1> QED
  BY <1>1, <1>2

\* A call that moves on without changing what it redeems keeps within it.
LEMMA KeptCall ==
  ASSUME TypeOK, RowsKept, NEW s \in Requests, SameCall(req[s], req'[s]), InGrant(req[s])
  PROVE  InGrant(req[s])'
BY DEF RowsKept, SameCode, SameRefresh, SameCall, InGrant, Within, Bound

\* Next, with the two ways of looking a code up seen as one.
LEMMA Cases ==
  ASSUME TypeOK, RowInv, [Next]_vars
  PROVE  \/ \E c \in Codes, g \in Grants : Issue(c, g)
         \/ \E r \in Requests :
              \/ \E c \in DOMAIN codes, client \in Clients, res \in SUBSET Resources,
                    proof \in Keys \cup {NoKey}, cert \in Certs \cup {NoCert} :
                   /\ codes[c].client \in {client, NoClient}
                   /\ Begin(r, c, client, res, proof, cert)
              \/ ConsumeCode(r)
              \/ \E t \in RefreshIds : MintRefresh(r, t)
              \/ \E a \in AccessIds : MintAccess(r, a)
              \/ Record(r)
              \/ Respond(r)
              \/ \E c \in DOMAIN codes : ReplayStart(r, c)
              \/ RevokeAccess(r)
              \/ RevokeRefresh(r)
              \/ \E t \in DOMAIN refresh_tokens, scopes \in SUBSET Scopes,
                    res \in SUBSET Resources, proof \in Keys \cup {NoKey},
                    cert \in Certs \cup {NoCert} : RefreshStart(r, t, scopes, res, proof, cert)
              \/ ConsumeRefresh(r)
              \/ Abort(r)
         \/ PurgeExpired
         \/ Tick
         \/ UNCHANGED vars
<1>1. ASSUME NEW r \in Requests, NEW c \in DOMAIN codes, NEW res \in SUBSET Resources,
             NEW proof \in Keys \cup {NoKey}, NEW cert \in Certs \cup {NoCert},
             ExchangeStart(r, c, res, proof, cert)
      PROVE  \E client \in Clients : /\ codes[c].client \in {client, NoClient}
                                     /\ Begin(r, c, client, res, proof, cert)
  BY <1>1 DEF TypeOK, CodeRow, ExchangeStart
<1>2. ASSUME NEW r \in Requests, NEW c \in DOMAIN codes, NEW client \in Clients,
             NEW res \in SUBSET Resources,
             NEW proof \in Keys \cup {NoKey}, NEW cert \in Certs \cup {NoCert},
             PreAuthorizedStart(r, c, client, res, proof, cert)
      PROVE  /\ codes[c].client \in {client, NoClient}
             /\ Begin(r, c, client, res, proof, cert)
  BY <1>2 DEF RowInv, PreAuthorizedStart
<1> QED
  BY <1>1, <1>2 DEF Next, Redeem, Replay, Renew

\* TypeOK is preserved.
LEMMA StepType ==
  ASSUME TypeOK, RowInv, RequestInv, [Next]_vars
  PROVE  TypeOK'
<1>1. CASE PurgeExpired
  BY <1>1, PurgeType
<1>2. CASE Tick
  BY <1>2 DEF TypeOK, Tick
<1>3. CASE UNCHANGED vars
  BY <1>3 DEF TypeOK, vars
<1>4. ASSUME NEW r \in Requests, Abort(r)
      PROVE  TypeOK'
  <2>1. req' \in [Requests -> Request]
    BY <1>4, BlankType DEF Abort
  <2> QED
    BY <1>4, <2>1 DEF Abort, TypeOK
<1> QED
  BY <1>1, <1>2, <1>3, <1>4, Cases, IssueType, BeginType, ConsumeCodeType, MintRefreshType,
     MintAccessType, RecordType, RespondType, ReplayStartType, RevokeAccessType,
     RevokeRefreshType, RefreshStartType, ConsumeRefreshType

\* A resource the checks let through stays within the bound ones.
LEMMA ResourcesNarrow ==
  ASSUME NEW bound, NEW res \in EffectiveResources(bound)
  PROVE  bound # {} => res # {} /\ res \subseteq bound
BY DEF EffectiveResources

\* A call that looks a code up starts within it.
LEMMA BeginInGrant ==
  ASSUME TypeOK, NEW r \in Requests, NEW c \in DOMAIN codes, NEW client \in Clients,
         NEW res \in SUBSET Resources, NEW proof \in Keys \cup {NoKey},
         NEW cert \in Certs \cup {NoCert}, codes[c].client \in {client, NoClient},
         Begin(r, c, client, res, proof, cert)
  PROVE  /\ InGrant(req[r])'
         /\ \A s \in Requests \ {r} : req'[s] = req[s]
<1>1. /\ req'[r].client = client /\ req'[r].rt_jkt = RefreshKey(client, NoKey, proof)
      /\ req'[r].code = c /\ req'[r].scopes = codes[c].scopes /\ req'[r].resources = res
      /\ req'[r].refresh = NoToken
      /\ \A s \in Requests \ {r} : req'[s] = req[s]
      /\ codes' = codes
  BY DEF TypeOK, Begin, Idle
<1>2. res \in EffectiveResources(codes[c].resources)
  BY DEF Begin
<1>3. Within(req'[r], codes'[c])
  BY <1>1, <1>2, ResourcesNarrow DEF Within
<1>4. RefreshKey(client, NoKey, proof) # NoKey => client \in PublicClients
  BY DEF RefreshKey
<1> QED
  BY <1>1, <1>3, <1>4 DEF InGrant, Within

\* A call that looks a refresh token up starts within it.
LEMMA RefreshInGrant ==
  ASSUME TypeOK, RowInv, GrantLineage, NEW r \in Requests, NEW t \in DOMAIN refresh_tokens,
         NEW scopes \in SUBSET Scopes, NEW res \in SUBSET Resources,
         NEW proof \in Keys \cup {NoKey}, NEW cert \in Certs \cup {NoCert},
         RefreshStart(r, t, scopes, res, proof, cert)
  PROVE  /\ InGrant(req[r])'
         /\ \A s \in Requests \ {r} : req'[s] = req[s]
<1> DEFINE row == refresh_tokens[t]
<1>1. /\ req'[r].client = row.client /\ req'[r].rt_jkt = RefreshKey(row.client, row.jkt, proof)
      /\ req'[r].code = row.root /\ req'[r].scopes = scopes /\ req'[r].resources = res
      /\ req'[r].refresh = t /\ req'[r].jkt = proof /\ req'[r].cert = cert
      /\ \A s \in Requests \ {r} : req'[s] = req[s]
      /\ codes' = codes /\ refresh_tokens' = refresh_tokens
  BY DEF TypeOK, RefreshStart, Idle
<1>2. /\ res \in EffectiveResources(row.resources) /\ scopes \subseteq row.scopes
      /\ DpopAccepts(row.client, row.jkt, proof) /\ row.cert \in {NoCert, cert}
  BY DEF RefreshStart, NarrowedScope
<1>3. row \in RefreshRow /\ Lineage(row)
  BY DEF TypeOK, GrantLineage
<1>4. Within(req'[r], row)
  BY <1>1, <1>2, ResourcesNarrow DEF Within
<1>5. Within(req'[r], codes[row.root]) /\ row.root \in DOMAIN codes /\ row.client \in Clients
  BY <1>1, <1>3, <1>4 DEF Within, Lineage, RefreshRow
<1>6. Bound(req'[r], row) /\ (row.jkt # NoKey => req'[r].rt_jkt = row.jkt)
      /\ (req'[r].rt_jkt # NoKey => row.client \in PublicClients)
  BY <1>1, <1>2 DEF Bound, DpopAccepts, RefreshKey, RowInv
<1> QED
  BY <1>1, <1>4, <1>5, <1>6 DEF InGrant, Within, Bound

\* RequestInv is preserved: a call either starts within its support or moves on
\* without changing what it redeems.
LEMMA StepRequest ==
  ASSUME TypeOK, RowInv, RequestInv, GrantLineage, [Next]_vars
  PROVE  RequestInv'
<1>1. RowsKept
  BY StepKeepsRows
<1>2. SUFFICES ASSUME NEW s \in Requests, Redeeming(req'[s])
               PROVE  InGrant(req[s])'
  BY DEF RequestInv, Redeeming
<1>3. CASE Redeeming(req[s]) /\ SameCall(req[s], req'[s])
  BY <1>1, <1>3, KeptCall DEF RequestInv
<1>4. ASSUME req'[s] = req[s]
      PROVE  InGrant(req[s])'
  BY <1>2, <1>3, <1>4 DEF SameCall
<1>5. ASSUME NEW r \in Requests, NEW c \in DOMAIN codes, NEW client \in Clients,
             NEW res \in SUBSET Resources, NEW proof \in Keys \cup {NoKey},
             NEW cert \in Certs \cup {NoCert}, codes[c].client \in {client, NoClient},
             Begin(r, c, client, res, proof, cert)
      PROVE  InGrant(req[s])'
  BY <1>4, <1>5, BeginInGrant
<1>6. ASSUME NEW r \in Requests, NEW t \in DOMAIN refresh_tokens, NEW scopes \in SUBSET Scopes,
             NEW res \in SUBSET Resources, NEW proof \in Keys \cup {NoKey},
             NEW cert \in Certs \cup {NoCert}, RefreshStart(r, t, scopes, res, proof, cert)
      PROVE  InGrant(req[s])'
  BY <1>4, <1>6, RefreshInGrant
<1>7. ASSUME NEW r \in Requests, Respond(r) \/ RevokeRefresh(r) \/ Abort(r)
      PROVE  InGrant(req[s])'
  <2>1. req'[s] = IF s = r THEN Idle ELSE req[s]
    BY <1>7 DEF TypeOK, Respond, RevokeRefresh, Abort
  <2> QED
    BY <1>2, <1>4, <2>1 DEF Redeeming, Idle
<1>8. ASSUME NEW r \in Requests, ConsumeCode(r) \/ ConsumeRefresh(r) \/ Record(r)
      PROVE  InGrant(req[s])'
  <2>1. PICK p \in Steps : req' = [req EXCEPT ![r].pc = p]
    BY <1>8 DEF ConsumeCode, ConsumeRefresh, Record, Steps
  <2>2. Redeeming(req[r])
    BY <1>8 DEF ConsumeCode, ConsumeRefresh, Record, Redeeming
  <2> QED
    BY <1>3, <1>4, <2>1, <2>2, PcMove
<1>9. ASSUME NEW r \in Requests, NEW t \in RefreshIds, MintRefresh(r, t)
      PROVE  InGrant(req[s])'
  <2>1. Redeeming(req[r])
    BY <1>9 DEF MintRefresh, Redeeming
  <2>2. SameCall(req[r], req'[r]) /\ \A q \in Requests \ {r} : req'[q] = req[q]
    BY <1>9, RefreshMove DEF MintRefresh
  <2> QED
    BY <1>3, <1>4, <2>1, <2>2
<1>10. ASSUME NEW r \in Requests, NEW a \in AccessIds, MintAccess(r, a)
       PROVE  InGrant(req[s])'
  <2>1. Redeeming(req[r]) /\ req[r].start + AccessTtl \in Nat
    BY <1>10 DEF MintAccess, Redeeming, TypeOK, Request
  <2>2. PICK p \in Steps : req' = [req EXCEPT ![r].pc = p, ![r].at = a,
                                              ![r].at_exp = req[r].start + AccessTtl]
    BY <1>10 DEF MintAccess, Steps
  <2>3. SameCall(req[r], req'[r]) /\ \A q \in Requests \ {r} : req'[q] = req[q]
    BY <2>1, <2>2, AccessMove
  <2> QED
    BY <1>3, <1>4, <2>1, <2>3
<1>11. ASSUME NEW r \in Requests, NEW c \in DOMAIN codes, ReplayStart(r, c)
       PROVE  InGrant(req[s])'
  <2>1. req'[r].pc = "revoke_access" /\ \A q \in Requests \ {r} : req'[q] = req[q]
    BY <1>11 DEF ReplayStart, TypeOK, Idle
  <2> QED
    BY <1>2, <1>4, <2>1 DEF Redeeming
<1>12. ASSUME NEW r \in Requests, RevokeAccess(r)
       PROVE  InGrant(req[s])'
  <2>1. req'[r].pc = "revoke_refresh" /\ \A q \in Requests \ {r} : req'[q] = req[q]
    BY <1>12 DEF RevokeAccess, TypeOK, Request
  <2> QED
    BY <1>2, <1>4, <2>1 DEF Redeeming
<1>13. ASSUME NEW c \in Codes, NEW g \in Grants, Issue(c, g)
       PROVE  InGrant(req[s])'
  BY <1>4, <1>13 DEF Issue
<1>14. CASE PurgeExpired \/ Tick \/ UNCHANGED vars
  BY <1>4, <1>14 DEF PurgeExpired, Tick, vars
<1> QED
  BY <1>5, <1>6, <1>7, <1>8, <1>9, <1>10, <1>11, <1>12, <1>13, <1>14, Cases

\* What a minting step adds, and that no other step adds a token.
LEMMA NewTokens ==
  ASSUME TypeOK, RowInv, [Next]_vars
  PROVE  /\ \A a \in DOMAIN access_tokens' : \/ a \in DOMAIN access_tokens
                                             \/ \E r \in Requests : MintAccess(r, a)
         /\ \A t \in DOMAIN refresh_tokens' : \/ t \in DOMAIN refresh_tokens
                                              \/ \E r \in Requests : MintRefresh(r, t)
<1>1. CASE UNCHANGED <<access_tokens, refresh_tokens>>
  BY <1>1
<1>2. ASSUME NEW r \in Requests, NEW a \in AccessIds, MintAccess(r, a)
      PROVE  DOMAIN access_tokens' = DOMAIN access_tokens \cup {a}
             /\ refresh_tokens' = refresh_tokens
  BY <1>2 DEF MintAccess, Put
<1>3. ASSUME NEW r \in Requests, NEW t \in RefreshIds, MintRefresh(r, t)
      PROVE  DOMAIN refresh_tokens' = DOMAIN refresh_tokens \cup {t}
             /\ access_tokens' = access_tokens
  BY <1>3 DEF MintRefresh, Put
<1>4. ASSUME NEW r \in Requests, ConsumeRefresh(r) \/ RevokeRefresh(r)
      PROVE  DOMAIN refresh_tokens' = DOMAIN refresh_tokens /\ access_tokens' = access_tokens
  BY <1>4, RefreshConsumed DEF ConsumeRefresh, RevokeRefresh
<1>5. ASSUME NEW r \in Requests,
             ConsumeCode(r) \/ Record(r) \/ Respond(r) \/ RevokeAccess(r) \/ Abort(r)
      PROVE  UNCHANGED <<access_tokens, refresh_tokens>>
  BY <1>5 DEF ConsumeCode, Record, Respond, RevokeAccess, Abort
<1>6. ASSUME NEW r \in Requests, NEW c, NEW client, NEW res, NEW proof, NEW cert,
             Begin(r, c, client, res, proof, cert)
      PROVE  UNCHANGED <<access_tokens, refresh_tokens>>
  BY <1>6 DEF Begin
<1>7. ASSUME NEW r \in Requests, NEW c, ReplayStart(r, c)
      PROVE  UNCHANGED <<access_tokens, refresh_tokens>>
  BY <1>7 DEF ReplayStart
<1>8. ASSUME NEW r \in Requests, NEW t, NEW scopes, NEW res, NEW proof, NEW cert,
             RefreshStart(r, t, scopes, res, proof, cert)
      PROVE  UNCHANGED <<access_tokens, refresh_tokens>>
  BY <1>8 DEF RefreshStart
<1>9. ASSUME NEW c \in Codes, NEW g \in Grants, Issue(c, g)
      PROVE  UNCHANGED <<access_tokens, refresh_tokens>>
  BY <1>9 DEF Issue
<1>10. CASE PurgeExpired \/ Tick \/ UNCHANGED vars
  BY <1>1, <1>10 DEF PurgeExpired, Tick, vars
<1> QED
  BY <1>1, <1>2, <1>3, <1>4, <1>5, <1>6, <1>7, <1>8, <1>9, <1>10, Cases

\* Codes are only added by Issue.
LEMMA NewCodes ==
  ASSUME TypeOK, RowInv, [Next]_vars
  PROVE  \A c \in DOMAIN codes' : c \in DOMAIN codes \/ \E g \in Grants : Issue(c, g)
<1>1. ASSUME NEW c \in Codes, NEW g \in Grants, Issue(c, g)
      PROVE  DOMAIN codes' = DOMAIN codes \cup {c}
  BY <1>1 DEF Issue, Put
<1>2. ASSUME NEW r \in Requests, ConsumeCode(r) \/ Record(r)
      PROVE  DOMAIN codes' = DOMAIN codes
  BY <1>2, CodeConsumed, CodeRecorded DEF ConsumeCode
<1>3. ASSUME NEW r \in Requests, Respond(r) \/ RevokeAccess(r) \/ RevokeRefresh(r)
                                 \/ ConsumeRefresh(r) \/ Abort(r)
      PROVE  codes' = codes
  BY <1>3 DEF Respond, RevokeAccess, RevokeRefresh, ConsumeRefresh, Abort
<1>4. ASSUME NEW r, NEW t, MintRefresh(r, t) \/ MintAccess(r, t) \/ ReplayStart(r, t)
      PROVE  codes' = codes
  BY <1>4 DEF MintRefresh, MintAccess, ReplayStart
<1>5. ASSUME NEW r, NEW c, NEW client, NEW res, NEW proof, NEW cert,
             Begin(r, c, client, res, proof, cert) \/ RefreshStart(r, c, client, res, proof, cert)
      PROVE  codes' = codes
  BY <1>5 DEF Begin, RefreshStart
<1>6. CASE PurgeExpired \/ Tick \/ UNCHANGED vars
  BY <1>6 DEF PurgeExpired, Tick, vars
<1> QED
  BY <1>1, <1>2, <1>3, <1>4, <1>5, <1>6, Cases

\* Every token a step signs or stores lies within the call's support.
LEMMA MintLineage ==
  ASSUME TypeOK, RequestInv, NEW r \in Requests
  PROVE  /\ \A a \in AccessIds : MintAccess(r, a) =>
              /\ Lineage(access_tokens[a])'
              /\ access_tokens'[a].parent # NoToken =>
                   Bound(access_tokens'[a], refresh_tokens'[access_tokens'[a].parent])
         /\ \A t \in RefreshIds : MintRefresh(r, t) =>
              /\ Lineage(refresh_tokens[t])'
              /\ refresh_tokens'[t].parent # NoToken =>
                   Bound(refresh_tokens'[t], refresh_tokens'[refresh_tokens'[t].parent])
              /\ refresh_tokens'[t].jkt # NoKey => refresh_tokens'[t].client \in PublicClients
<1>1. ASSUME NEW a \in AccessIds, MintAccess(r, a)
      PROVE  /\ Lineage(access_tokens[a])'
             /\ access_tokens'[a].parent # NoToken =>
                  Bound(access_tokens'[a], refresh_tokens'[access_tokens'[a].parent])
  <2>1. InGrant(req[r])
    BY <1>1 DEF RequestInv, MintAccess, Redeeming
  <2>2. /\ access_tokens'[a].client = req[r].client /\ access_tokens'[a].scopes = req[r].scopes
        /\ access_tokens'[a].resources = req[r].resources /\ access_tokens'[a].jkt = req[r].jkt
        /\ access_tokens'[a].cert = req[r].cert /\ access_tokens'[a].root = req[r].code
        /\ access_tokens'[a].parent = req[r].refresh
        /\ UNCHANGED <<codes, refresh_tokens>>
    BY <1>1 DEF MintAccess, Put
  <2> QED
    BY <2>1, <2>2 DEF InGrant, Lineage, Within, Bound
<1>2. ASSUME NEW t \in RefreshIds, MintRefresh(r, t)
      PROVE  /\ Lineage(refresh_tokens[t])'
             /\ refresh_tokens'[t].parent # NoToken =>
                  Bound(refresh_tokens'[t], refresh_tokens'[refresh_tokens'[t].parent])
             /\ refresh_tokens'[t].jkt # NoKey => refresh_tokens'[t].client \in PublicClients
  <2>1. InGrant(req[r])
    BY <1>2 DEF RequestInv, MintRefresh, Redeeming
  <2>2. /\ refresh_tokens'[t].client = req[r].client /\ refresh_tokens'[t].scopes = req[r].scopes
        /\ refresh_tokens'[t].resources = req[r].resources /\ refresh_tokens'[t].jkt = req[r].rt_jkt
        /\ refresh_tokens'[t].cert = req[r].cert /\ refresh_tokens'[t].root = req[r].code
        /\ refresh_tokens'[t].parent = req[r].refresh
        /\ UNCHANGED codes
        /\ t \notin DOMAIN refresh_tokens
        /\ \A u \in DOMAIN refresh_tokens : u \in DOMAIN refresh_tokens'
                                            /\ refresh_tokens'[u] = refresh_tokens[u]
    BY <1>2 DEF MintRefresh, Put
  <2> QED
    BY <2>1, <2>2 DEF InGrant, Lineage, Within, Bound
<1> QED
  BY <1>1, <1>2

\* LineageInv is inductive.
LEMMA LineageStep ==
  ASSUME LineageInv, [Next]_vars
  PROVE  LineageInv'
<1> USE DEF LineageInv
<1>1. RowsKept
  BY StepKeepsRows
<1>2. TypeOK' /\ RequestInv'
  BY StepType, StepRequest
<1>3. /\ DOMAIN access_tokens \subseteq AccessIds /\ DOMAIN access_tokens' \subseteq AccessIds
      /\ DOMAIN refresh_tokens \subseteq RefreshIds /\ DOMAIN refresh_tokens' \subseteq RefreshIds
  BY <1>2 DEF TypeOK
<1>4. GrantLineage'
  <2>1. \A a \in DOMAIN access_tokens' : Lineage(access_tokens[a])'
    BY <1>1, <1>3, KeptLineage, NewTokens, MintLineage
  <2>2. \A t \in DOMAIN refresh_tokens' : Lineage(refresh_tokens[t])'
    BY <1>1, <1>3, KeptLineage, NewTokens, MintLineage
  <2> QED
    BY <2>1, <2>2 DEF GrantLineage
<1>5. BindingInherited'
  <2>1. \A a \in DOMAIN access_tokens' : access_tokens'[a].parent # NoToken =>
          Bound(access_tokens'[a], refresh_tokens'[access_tokens'[a].parent])
    <3>1. SUFFICES ASSUME NEW a \in DOMAIN access_tokens, access_tokens[a].parent # NoToken
                   PROVE  Bound(access_tokens[a], refresh_tokens'[access_tokens[a].parent])
      BY <1>1, <1>3, NewTokens, MintLineage DEF RowsKept
    <3>2. access_tokens[a].parent \in DOMAIN refresh_tokens
      BY <3>1 DEF GrantLineage, Lineage
    <3> QED
      BY <1>1, <3>1, <3>2 DEF BindingInherited, Bound, RowsKept, SameRefresh
  <2>2. \A t \in DOMAIN refresh_tokens' : refresh_tokens'[t].parent # NoToken =>
          Bound(refresh_tokens'[t], refresh_tokens'[refresh_tokens'[t].parent])
    <3>1. SUFFICES ASSUME NEW t \in DOMAIN refresh_tokens, refresh_tokens'[t].parent # NoToken
                   PROVE  Bound(refresh_tokens'[t], refresh_tokens'[refresh_tokens'[t].parent])
      BY <1>3, NewTokens, MintLineage
    <3>2. /\ refresh_tokens[t].parent \in DOMAIN refresh_tokens
          /\ refresh_tokens'[t].parent = refresh_tokens[t].parent
      BY <1>1, <3>1 DEF GrantLineage, Lineage, RowsKept, SameRefresh
    <3> QED
      BY <1>1, <3>1, <3>2 DEF BindingInherited, Bound, RowsKept, SameRefresh
  <2> QED
    BY <2>1, <2>2 DEF BindingInherited, Bound
<1>6. RowInv'
  <2>1. \A t \in DOMAIN refresh_tokens' :
          refresh_tokens'[t].jkt # NoKey => refresh_tokens'[t].client \in PublicClients
    <3>1. \A t \in DOMAIN refresh_tokens :
            refresh_tokens'[t].jkt # NoKey => refresh_tokens'[t].client \in PublicClients
      BY <1>1 DEF RowInv, RowsKept, SameRefresh
    <3> QED
      BY <1>3, <3>1, NewTokens, MintLineage
  <2>2. \A c \in DOMAIN codes' : codes'[c].pre => codes'[c].client = NoClient
    <3>1. \A c \in DOMAIN codes : codes'[c].pre => codes'[c].client = NoClient
      BY <1>1 DEF RowInv, RowsKept, SameCode
    <3>2. \A c \in DOMAIN codes' : c \in DOMAIN codes \/ \E g \in Grants : Issue(c, g)
      BY NewCodes
    <3>3. ASSUME NEW c, NEW g \in Grants, Issue(c, g)
          PROVE  codes'[c].pre => codes'[c].client = NoClient
      BY <3>3 DEF Issue, Put
    <3> QED
      BY <3>1, <3>2, <3>3
  <2> QED
    BY <2>1, <2>2 DEF RowInv
<1> QED
  BY <1>2, <1>4, <1>5, <1>6

\* The empty stores satisfy the inductive invariant of the lineage.
LEMMA LineageInit == Init => LineageInv
<1> SUFFICES ASSUME Init PROVE LineageInv
  OBVIOUS
<1>1. RequestInv
  BY DEF Init, RequestInv, Redeeming, Idle
<1> QED
  BY <1>1, InitType DEF Init, LineageInv, RowInv, GrantLineage, BindingInherited

\* The inductive invariant of the lineage holds in every reachable state.
LEMMA LineageAlways == Spec => []LineageInv
BY LineageInit, LineageStep, PTL DEF Spec

\* Every state of the token endpoint's stores and calls is well typed; in
\* particular a call that reaches _issue_tokens has a registered client.
THEOREM TypeCorrect == Spec => []TypeOK
BY LineageAlways, PTL DEF LineageInv

\* No chain of renewals, of any length and under any interleaving, widens the
\* client, the scopes or the resources of the authorization it descends from.
THEOREM LineageHolds == Spec => []GrantLineage
BY LineageAlways, PTL DEF LineageInv

\* No rotation loses the key or the certificate a refresh token is bound to.
THEOREM BindingHolds == Spec => []BindingInherited
BY LineageAlways, PTL DEF LineageInv

\* No step takes back the consumption of a code or of a refresh token.
THEOREM ConsumptionHolds == Spec => ConsumedForever
<1>1. TypeOK /\ [Next]_vars =>
        [/\ \A c \in DOMAIN codes : codes[c].consumed => codes'[c].consumed
         /\ \A t \in DOMAIN refresh_tokens :
              refresh_tokens[t].consumed => refresh_tokens'[t].consumed]_vars
  BY StepKeepsRows DEF RowsKept
<1> QED
  BY <1>1, TypeCorrect, PTL DEF Spec, ConsumedForever

--------------------------------------------------------------------------------
(* Single use.                                                              *)

\* The support of a token is a code or a refresh token of the stores.
LEMMA SourceStored ==
  ASSUME LineageInv
  PROVE  /\ \A a \in DOMAIN access_tokens :
              Source(access_tokens[a]) \in DOMAIN codes \cup DOMAIN refresh_tokens
         /\ \A t \in DOMAIN refresh_tokens :
              Source(refresh_tokens[t]) \in DOMAIN codes \cup DOMAIN refresh_tokens
         /\ \A r \in Requests : Redeeming(req[r]) =>
              Support(req[r]) \in DOMAIN codes \cup DOMAIN refresh_tokens
BY DEF LineageInv, GrantLineage, Lineage, Source, RequestInv, InGrant, Support

\* A consumed support stays consumed.
LEMMA ConsumedKept ==
  ASSUME LineageInv, RowsKept, NEW x \in DOMAIN codes \cup DOMAIN refresh_tokens, Consumed(x)
  PROVE  Consumed(x)'
BY DEF LineageInv, TypeOK, RowsKept, Consumed

\* A step that starts no call, moves none on and mints nothing keeps UseInv.
LEMMA QuietStep ==
  ASSUME LineageInv, UseInv, RowsKept, raced' = raced,
         DOMAIN access_tokens' = DOMAIN access_tokens,
         DOMAIN refresh_tokens' = DOMAIN refresh_tokens,
         \A s \in Requests : Redeeming(req'[s]) => req'[s] = req[s]
  PROVE  UseInv'
<1>1. \A a \in DOMAIN access_tokens : access_tokens'[a] = access_tokens[a]
  BY DEF RowsKept
<1>2. \A t \in DOMAIN refresh_tokens :
        /\ Source(refresh_tokens'[t]) = Source(refresh_tokens[t])
        /\ Rotates(refresh_tokens'[t]) = Rotates(refresh_tokens[t])
  BY DEF RowsKept, SameRefresh, Source, Rotates
<1>3. \A x : Consumed(x) /\ x \in DOMAIN codes \cup DOMAIN refresh_tokens => Consumed(x)'
  BY ConsumedKept
<1>4. \A s \in Requests : \A x : Redeems(req'[s], x) => Redeems(req[s], x) /\ req'[s] = req[s]
  BY DEF Redeems
<1>5. FapiInv'
  BY <1>2 DEF UseInv, FapiInv, Redeeming, Rotates
<1>6. RedeemInv'
  <2>1. ASSUME NEW r \in Requests, Redeems(req'[r], Support(req'[r])), req'[r].pc # "consume"
        PROVE  Consumed(Support(req[r]))'
    <3>1. req'[r] = req[r] /\ Redeeming(req[r])
      BY <1>4, <2>1 DEF Redeems
    <3>2. Consumed(Support(req[r])) /\ Support(req[r]) \in DOMAIN codes \cup DOMAIN refresh_tokens
      BY <2>1, <3>1, SourceStored DEF UseInv, RedeemInv
    <3> QED
      BY <1>3, <3>1, <3>2 DEF Consumed
  <2>2. (raced \cap Codes \subseteq DOMAIN codes)'
    BY DEF UseInv, RedeemInv, RowsKept
  <2> QED
    <3>1. \A r, s \in Requests :
            /\ Redeems(req'[r], Support(req'[r])) /\ Redeems(req'[s], Support(req'[r]))
            /\ Support(req'[r]) \notin raced
            => r = s
      BY <1>4 DEF UseInv, RedeemInv
    <3> QED
      BY <2>1, <2>2, <3>1 DEF RedeemInv, Redeems, Support, Redeeming
<1>7. SourceInv'
  BY <1>1, <1>2, <1>3, <1>4, SourceStored
     DEF UseInv, SourceInv, Redeems, Redeeming, Support, Source, Rotates, Consumed
<1>8. SingleUseUnlessRaced'
  BY <1>1, <1>2 DEF UseInv, SingleUseUnlessRaced, Source, Rotates
<1> QED
  BY <1>5, <1>6, <1>7, <1>8 DEF UseInv

\* A call that consumes its support, or answers after recording, keeps UseInv.
LEMMA ForwardStep ==
  ASSUME LineageInv, UseInv, RowsKept, raced' = raced,
         DOMAIN access_tokens' = DOMAIN access_tokens,
         DOMAIN refresh_tokens' = DOMAIN refresh_tokens,
         NEW r \in Requests,
         SameCall(req[r], req'[r]), req'[r].at = req[r].at, req'[r].rt = req[r].rt,
         \A s \in Requests \ {r} : req'[s] = req[s],
         \/ /\ req[r].pc = "consume" /\ req'[r].pc \in {"mint_refresh", "mint_access"}
            /\ Consumed(Support(req[r]))'
         \/ req[r].pc = "record" /\ req'[r].pc = "respond"
  PROVE  UseInv'
<1>1. \A a \in DOMAIN access_tokens : access_tokens'[a] = access_tokens[a]
  BY DEF RowsKept
<1>2. \A t \in DOMAIN refresh_tokens :
        /\ Source(refresh_tokens'[t]) = Source(refresh_tokens[t])
        /\ Rotates(refresh_tokens'[t]) = Rotates(refresh_tokens[t])
  BY DEF RowsKept, SameRefresh, Source, Rotates
<1>3. \A x : Consumed(x) /\ x \in DOMAIN codes \cup DOMAIN refresh_tokens => Consumed(x)'
  BY ConsumedKept
<1>4. \A s \in Requests :
        /\ Support(req'[s]) = Support(req[s])
        /\ req'[s].at = req[s].at /\ req'[s].rt = req[s].rt
        /\ \A x : Redeems(req'[s], x) => Redeems(req[s], x)
  BY DEF Redeems, Redeeming, Support, SameCall
<1>5. FapiInv'
  <2>1. \A s \in Requests : Redeeming(req'[s]) /\ req'[s].refresh # NoToken
                         /\ req'[s].client \in Fapi2Clients => req'[s].pc \in {"mint_access", "respond"}
    BY DEF UseInv, FapiInv, Redeeming, SameCall
  <2> QED
    BY <1>2, <2>1 DEF UseInv, FapiInv, Redeeming, Rotates
<1>6. RedeemInv'
  <2>1. ASSUME NEW s \in Requests, Redeems(req'[s], Support(req'[s])), req'[s].pc # "consume"
        PROVE  Consumed(Support(req[s]))'
    <3>1. Redeems(req[s], Support(req[s])) /\ Redeeming(req[s])
      BY <1>4, <2>1 DEF Redeems
    <3>2. CASE req[s].pc # "consume"
      <4>1. Consumed(Support(req[s])) /\ Support(req[s]) \in DOMAIN codes \cup DOMAIN refresh_tokens
        BY <3>1, <3>2, SourceStored DEF UseInv, RedeemInv
      <4> QED
        BY <1>3, <1>4, <4>1 DEF Consumed
    <3>3. CASE req[s].pc = "consume"
      <4>1. s = r
        BY <2>1, <3>3
      <4> QED
        BY <3>3, <4>1
    <3> QED
      BY <3>2, <3>3
  <2>2. (raced \cap Codes \subseteq DOMAIN codes)'
    BY DEF UseInv, RedeemInv, RowsKept
  <2>3. \A p, s \in Requests :
          /\ Redeems(req'[p], Support(req'[p])) /\ Redeems(req'[s], Support(req'[p]))
          /\ Support(req'[p]) \notin raced
          => p = s
    BY <1>4 DEF UseInv, RedeemInv
  <2> QED
    BY <2>1, <2>2, <2>3 DEF RedeemInv, Redeems, Support, Redeeming
<1>7. SourceInv'
  <2>1. ASSUME NEW a \in DOMAIN access_tokens, Rotates(access_tokens[a])
        PROVE  /\ Consumed(Source(access_tokens[a]))'
               /\ Source(access_tokens[a]) \notin raced =>
                    \A s \in Requests : Redeems(req'[s], Source(access_tokens[a])) =>
                      req'[s].pc \in {"record", "respond"} /\ req'[s].at = a
    <3>1. Consumed(Source(access_tokens[a]))'
      BY <1>1, <1>3, <2>1, SourceStored DEF UseInv, SourceInv, Consumed
    <3> QED
      BY <1>4, <2>1, <3>1 DEF UseInv, SourceInv
  <2>2. ASSUME NEW t \in DOMAIN refresh_tokens
        PROVE  /\ Consumed(Source(refresh_tokens[t]))'
               /\ Source(refresh_tokens[t]) \notin raced =>
                    \A s \in Requests : Redeems(req'[s], Source(refresh_tokens[t])) =>
                      req'[s].pc \in {"mint_access", "record", "respond"} /\ req'[s].rt = t
    <3>1. Consumed(Source(refresh_tokens[t]))'
      BY <1>2, <1>3, <2>2, SourceStored DEF UseInv, SourceInv, Consumed, Source
    <3> QED
      BY <1>4, <2>2, <3>1 DEF UseInv, SourceInv
  <2> QED
    BY <1>1, <1>2, <2>1, <2>2 DEF SourceInv, Redeems, Redeeming, Support, Source, Rotates
<1>8. SingleUseUnlessRaced'
  BY <1>1, <1>2 DEF UseInv, SingleUseUnlessRaced, Source, Rotates
<1> QED
  BY <1>5, <1>6, <1>7, <1>8 DEF UseInv

\* Signing an access token keeps UseInv.
LEMMA MintAccessUse ==
  ASSUME LineageInv, UseInv, NEW r \in Requests, NEW a \in AccessIds, MintAccess(r, a)
  PROVE  UseInv'
<1>0. TypeOK
  BY DEF LineageInv
<1>1. /\ DOMAIN access_tokens' = DOMAIN access_tokens \cup {a} /\ a \notin DOMAIN access_tokens
      /\ \A b \in DOMAIN access_tokens : access_tokens'[b] = access_tokens[b]
      /\ access_tokens'[a].root = req[r].code /\ access_tokens'[a].parent = req[r].refresh
      /\ access_tokens'[a].client = req[r].client
      /\ UNCHANGED <<codes, refresh_tokens, raced>>
  BY DEF MintAccess, Put
<1>2. /\ SameCall(req[r], req'[r]) /\ req'[r].at = a /\ req'[r].rt = req[r].rt
      /\ \A s \in Requests \ {r} : req'[s] = req[s]
      /\ req[r].pc = "mint_access"
      /\ req'[r].pc \in {"record", "respond"}
      /\ req[r].refresh # NoToken => req'[r].pc = "respond"
  <2> DEFINE e == req[r].start + AccessTtl
  <2>1. e \in Nat
    BY <1>0 DEF TypeOK, Request
  <2>2. PICK p \in Steps :
          /\ req' = [req EXCEPT ![r].pc = p, ![r].at = a, ![r].at_exp = req[r].start + AccessTtl]
          /\ p \in {"record", "respond"}
          /\ req[r].refresh # NoToken => p = "respond"
    BY DEF MintAccess, Steps
  <2>3. req' = [req EXCEPT ![r].pc = p, ![r].at = a, ![r].at_exp = e]
    BY <2>2
  <2> HIDE DEF e
  <2>4. /\ req'[r].pc = p /\ req'[r].at = a /\ SameCall(req[r], req'[r])
        /\ req'[r].rt = req[r].rt
        /\ \A s \in Requests \ {r} : req'[s] = req[s]
    BY <1>0, <2>1, <2>3, AccessMove
  <2> QED
    BY <2>2, <2>4 DEF MintAccess
<1>3. /\ Source(access_tokens'[a]) = Support(req[r])
      /\ Rotates(access_tokens'[a]) => Redeems(req[r], Support(req[r]))
  BY <1>1, <1>2 DEF Source, Support, Rotates, Redeems, Redeeming
<1>4. \A s \in Requests :
        /\ Support(req'[s]) = Support(req[s])
        /\ \A x : Redeems(req'[s], x) => Redeems(req[s], x)
  BY <1>2 DEF Redeems, Redeeming, Support, SameCall
<1>5. \A x : Consumed(x)' = Consumed(x)
  BY <1>1 DEF Consumed
<1>6. FapiInv'
  <2>1. \A s \in Requests : Redeeming(req'[s]) /\ req'[s].refresh # NoToken
                         /\ req'[s].client \in Fapi2Clients => req'[s].pc \in {"mint_access", "respond"}
    BY <1>2 DEF UseInv, FapiInv, Redeeming, SameCall
  <2> QED
    BY <1>1, <2>1 DEF UseInv, FapiInv, Redeeming, Rotates
<1>7. RedeemInv'
  <2>1. \A s \in Requests : Redeems(req'[s], Support(req'[s])) /\ req'[s].pc # "consume" =>
          Consumed(Support(req[s]))
    BY <1>2, <1>4 DEF UseInv, RedeemInv
  <2>2. \A p, s \in Requests :
          /\ Redeems(req'[p], Support(req'[p])) /\ Redeems(req'[s], Support(req'[p]))
          /\ Support(req'[p]) \notin raced
          => p = s
    BY <1>4 DEF UseInv, RedeemInv
  <2>3. raced \cap Codes \subseteq DOMAIN codes
    BY DEF UseInv, RedeemInv
  <2> QED
    BY <1>1, <1>4, <2>1, <2>2, <2>3 DEF RedeemInv, Redeems, Redeeming, Support, Consumed
<1>8. /\ Rotates(access_tokens'[a]) => Consumed(Support(req[r]))
      /\ \A s \in Requests : /\ Rotates(access_tokens'[a]) /\ Support(req[r]) \notin raced
                             /\ Redeems(req[s], Support(req[r]))
                             => s = r
      /\ \A b \in DOMAIN access_tokens :
           ~ (/\ Rotates(access_tokens'[a]) /\ Rotates(access_tokens[b])
              /\ Source(access_tokens[b]) = Support(req[r]) /\ Support(req[r]) \notin raced)
  BY <1>2, <1>3 DEF UseInv, RedeemInv, SourceInv
<1>9. SourceInv'
  <2>1. \A b \in DOMAIN access_tokens' : Rotates(access_tokens'[b]) =>
          /\ Consumed(Source(access_tokens'[b]))
          /\ Source(access_tokens'[b]) \notin raced =>
               \A s \in Requests : Redeems(req'[s], Source(access_tokens'[b])) =>
                 req'[s].pc \in {"record", "respond"} /\ req'[s].at = b
    <3>1. SUFFICES ASSUME NEW b \in DOMAIN access_tokens', Rotates(access_tokens'[b])
                   PROVE  /\ Consumed(Source(access_tokens'[b]))
                          /\ Source(access_tokens'[b]) \notin raced =>
                               \A s \in Requests : Redeems(req'[s], Source(access_tokens'[b])) =>
                                 req'[s].pc \in {"record", "respond"} /\ req'[s].at = b
      OBVIOUS
    <3>2. CASE b = a
      BY <1>2, <1>3, <1>4, <1>8, <3>1, <3>2
    <3>3. CASE b # a
      BY <1>1, <1>2, <1>4, <3>1, <3>3 DEF UseInv, SourceInv
    <3> QED
      BY <3>2, <3>3
  <2>2. \A t \in DOMAIN refresh_tokens :
          /\ Consumed(Source(refresh_tokens[t]))
          /\ Source(refresh_tokens[t]) \notin raced =>
               \A s \in Requests : Redeems(req'[s], Source(refresh_tokens[t])) =>
                 req'[s].pc \in {"mint_access", "record", "respond"} /\ req'[s].rt = t
    BY <1>2, <1>4 DEF UseInv, SourceInv
  <2> QED
    BY <1>1, <2>1, <2>2 DEF SourceInv, Redeems, Redeeming, Support, Source, Rotates, Consumed
<1>10. SingleUseUnlessRaced'
  <2>1. \A b, d \in DOMAIN access_tokens' :
          /\ Source(access_tokens'[b]) = Source(access_tokens'[d])
          /\ Source(access_tokens'[b]) \notin raced
          /\ Rotates(access_tokens'[b]) /\ Rotates(access_tokens'[d])
          => b = d
    BY <1>1, <1>3, <1>8 DEF UseInv, SingleUseUnlessRaced
  <2>2. \A t, u \in DOMAIN refresh_tokens' :
          /\ Source(refresh_tokens'[t]) = Source(refresh_tokens'[u])
          /\ Source(refresh_tokens'[t]) \notin raced
          => t = u
    BY <1>1 DEF UseInv, SingleUseUnlessRaced
  <2> QED
    BY <1>1, <2>1, <2>2 DEF SingleUseUnlessRaced, Source, Rotates
<1> QED
  BY <1>6, <1>7, <1>9, <1>10 DEF UseInv

\* Storing a refresh token keeps UseInv.
LEMMA MintRefreshUse ==
  ASSUME LineageInv, UseInv, NEW r \in Requests, NEW t \in RefreshIds, MintRefresh(r, t)
  PROVE  UseInv'
<1>0. TypeOK
  BY DEF LineageInv
<1>1. /\ DOMAIN refresh_tokens' = DOMAIN refresh_tokens \cup {t} /\ t \notin DOMAIN refresh_tokens
      /\ \A u \in DOMAIN refresh_tokens : refresh_tokens'[u] = refresh_tokens[u]
      /\ refresh_tokens'[t].root = req[r].code /\ refresh_tokens'[t].parent = req[r].refresh
      /\ refresh_tokens'[t].client = req[r].client
      /\ UNCHANGED <<codes, access_tokens, raced>>
  BY DEF MintRefresh, Put
<1>2. /\ SameCall(req[r], req'[r]) /\ req'[r].at = req[r].at /\ req'[r].rt = t
      /\ \A s \in Requests \ {r} : req'[s] = req[s]
      /\ req[r].pc = "mint_refresh" /\ req'[r].pc = "mint_access"
  BY <1>0, RefreshMove DEF MintRefresh
<1>3. /\ Source(refresh_tokens'[t]) = Support(req[r])
      /\ Rotates(refresh_tokens'[t])
      /\ Redeems(req[r], Support(req[r]))
  BY <1>1, <1>2 DEF Source, Support, Rotates, Redeems, Redeeming, UseInv, FapiInv
<1>4. \A s \in Requests :
        /\ Support(req'[s]) = Support(req[s])
        /\ \A x : Redeems(req'[s], x) => Redeems(req[s], x)
  BY <1>2 DEF Redeems, Redeeming, Support, SameCall
<1>5. \A x \in DOMAIN codes \cup DOMAIN refresh_tokens : Consumed(x) => Consumed(x)'
  BY <1>0, <1>1 DEF Consumed, TypeOK
<1>6. FapiInv'
  <2>1. \A s \in Requests : Redeeming(req'[s]) /\ req'[s].refresh # NoToken
                         /\ req'[s].client \in Fapi2Clients => req'[s].pc \in {"mint_access", "respond"}
    BY <1>2 DEF UseInv, FapiInv, Redeeming, SameCall
  <2>2. \A u \in DOMAIN refresh_tokens' : Rotates(refresh_tokens'[u])
    BY <1>1, <1>3 DEF UseInv, FapiInv
  <2> QED
    BY <2>1, <2>2 DEF FapiInv, Redeeming, Rotates
<1>7. RedeemInv'
  <2>1. ASSUME NEW s \in Requests, Redeems(req'[s], Support(req'[s])), req'[s].pc # "consume"
        PROVE  Consumed(Support(req[s]))'
    <3>1. Consumed(Support(req[s])) /\ Redeeming(req[s])
      BY <1>2, <1>4, <2>1 DEF UseInv, RedeemInv, Redeems
    <3>2. Support(req[s]) \in DOMAIN codes \cup DOMAIN refresh_tokens
      BY <3>1, SourceStored
    <3> QED
      BY <1>4, <1>5, <3>1, <3>2 DEF Consumed
  <2>2. \A p, s \in Requests :
          /\ Redeems(req'[p], Support(req'[p])) /\ Redeems(req'[s], Support(req'[p]))
          /\ Support(req'[p]) \notin raced
          => p = s
    BY <1>4 DEF UseInv, RedeemInv
  <2>3. raced \cap Codes \subseteq DOMAIN codes
    BY DEF UseInv, RedeemInv
  <2> QED
    BY <1>1, <2>1, <2>2, <2>3 DEF RedeemInv, Redeems, Redeeming, Support
<1>8. /\ Consumed(Support(req[r]))
      /\ Support(req[r]) \in DOMAIN codes \cup DOMAIN refresh_tokens
      /\ \A s \in Requests : /\ Support(req[r]) \notin raced
                             /\ Redeems(req[s], Support(req[r]))
                             => s = r
      /\ \A u \in DOMAIN refresh_tokens :
           Source(refresh_tokens[u]) = Support(req[r]) => Support(req[r]) \in raced
  BY <1>2, <1>3, SourceStored DEF UseInv, RedeemInv, SourceInv, Redeems
<1>9. SourceInv'
  <2>1. ASSUME NEW b \in DOMAIN access_tokens, Rotates(access_tokens[b])
        PROVE  /\ Consumed(Source(access_tokens[b]))'
               /\ Source(access_tokens[b]) \notin raced =>
                    \A s \in Requests : Redeems(req'[s], Source(access_tokens[b])) =>
                      req'[s].pc \in {"record", "respond"} /\ req'[s].at = b
    <3>1. Consumed(Source(access_tokens[b]))
          /\ Source(access_tokens[b]) \in DOMAIN codes \cup DOMAIN refresh_tokens
      BY <2>1, SourceStored DEF UseInv, SourceInv
    <3>2. Consumed(Source(access_tokens[b]))'
      BY <1>1, <1>5, <3>1 DEF Consumed
    <3> QED
      BY <1>2, <1>4, <2>1, <3>2 DEF UseInv, SourceInv
  <2>2. ASSUME NEW u \in DOMAIN refresh_tokens'
        PROVE  /\ Consumed(Source(refresh_tokens[u]))'
               /\ Source(refresh_tokens'[u]) \notin raced =>
                    \A s \in Requests : Redeems(req'[s], Source(refresh_tokens'[u])) =>
                      req'[s].pc \in {"mint_access", "record", "respond"} /\ req'[s].rt = u
    <3>1. CASE u = t
      <4>1. Consumed(Source(refresh_tokens[u]))'
        BY <1>3, <1>5, <1>8, <3>1 DEF Consumed, Source
      <4> QED
        BY <1>2, <1>3, <1>4, <1>8, <3>1, <4>1
    <3>2. CASE u # t
      <4>1. /\ u \in DOMAIN refresh_tokens /\ refresh_tokens'[u] = refresh_tokens[u]
            /\ Consumed(Source(refresh_tokens[u]))
            /\ Source(refresh_tokens[u]) \in DOMAIN codes \cup DOMAIN refresh_tokens
        BY <1>1, <3>2, SourceStored DEF UseInv, SourceInv
      <4>2. Consumed(Source(refresh_tokens[u]))'
        BY <1>5, <4>1 DEF Consumed, Source
      <4> QED
        BY <1>2, <1>4, <4>1, <4>2 DEF UseInv, SourceInv
    <3> QED
      BY <3>1, <3>2
  <2> QED
    BY <1>1, <2>1, <2>2 DEF SourceInv, Redeems, Redeeming, Support, Source, Rotates
<1>10. SingleUseUnlessRaced'
  <2>1. \A b, d \in DOMAIN access_tokens :
          /\ Source(access_tokens[b]) = Source(access_tokens[d])
          /\ Source(access_tokens[b]) \notin raced
          /\ Rotates(access_tokens[b]) /\ Rotates(access_tokens[d])
          => b = d
    BY DEF UseInv, SingleUseUnlessRaced
  <2>2. \A u, v \in DOMAIN refresh_tokens' :
          /\ Source(refresh_tokens'[u]) = Source(refresh_tokens'[v])
          /\ Source(refresh_tokens'[u]) \notin raced
          => u = v
    BY <1>1, <1>3, <1>8 DEF UseInv, SingleUseUnlessRaced
  <2> QED
    BY <1>1, <2>1, <2>2 DEF SingleUseUnlessRaced, Source, Rotates
<1> QED
  BY <1>6, <1>7, <1>9, <1>10 DEF UseInv

\* A call that finds its support unconsumed keeps UseInv: if another call holds
\* it too, the support is marked as raced.
LEMMA StartStep ==
  ASSUME LineageInv, UseInv, NEW r \in Requests,
         NEW x \in DOMAIN codes \cup DOMAIN refresh_tokens,
         UNCHANGED <<codes, refresh_tokens, access_tokens>>,
         ~Consumed(x), Race(x), Support(req'[r]) = x,
         \A s \in Requests \ {r} : req'[s] = req[s],
         IF req'[r].refresh # NoToken /\ req'[r].client \in Fapi2Clients
         THEN req'[r].pc = "mint_access" ELSE req'[r].pc = "consume"
  PROVE  UseInv'
<1>1. raced \subseteq raced' /\ raced' \subseteq raced \cup {x}
  BY DEF Race
<1>2. \A s \in Requests : \A y : s # r =>
        /\ Redeems(req'[s], y) => Redeems(req[s], y)
        /\ req'[s] = req[s]
  OBVIOUS
<1>3. \A y : Redeems(req'[r], y) => y = x /\ req'[r].pc = "consume"
  BY DEF Redeems
<1>4. \A s \in Requests : s # r /\ Redeems(req[s], x) => x \in raced'
  BY DEF UseInv, RedeemInv, Redeems, Race, Holds
<1>5. FapiInv'
  BY DEF UseInv, FapiInv, Redeeming, Rotates
<1>6. RedeemInv'
  <2>1. raced' \cap Codes \subseteq DOMAIN codes
    BY <1>1 DEF UseInv, RedeemInv, LineageInv, TypeOK
  <2>2. \A s \in Requests : Redeems(req'[s], Support(req'[s])) /\ req'[s].pc # "consume" =>
          Consumed(Support(req'[s]))
    BY <1>2, <1>3 DEF UseInv, RedeemInv
  <2>3. \A p, s \in Requests :
          /\ Redeems(req'[p], Support(req'[p])) /\ Redeems(req'[s], Support(req'[p]))
          /\ Support(req'[p]) \notin raced'
          => p = s
    BY <1>1, <1>2, <1>3, <1>4 DEF UseInv, RedeemInv
  <2> QED
    BY <2>1, <2>2, <2>3 DEF RedeemInv, Redeems, Redeeming, Support, Consumed
<1>7. SourceInv'
  <2>1. \A b \in DOMAIN access_tokens : Rotates(access_tokens[b]) =>
          /\ Consumed(Source(access_tokens[b]))
          /\ Source(access_tokens[b]) \notin raced' =>
               \A s \in Requests : Redeems(req'[s], Source(access_tokens[b])) =>
                 req'[s].pc \in {"record", "respond"} /\ req'[s].at = b
    BY <1>1, <1>2, <1>3 DEF UseInv, SourceInv
  <2>2. \A t \in DOMAIN refresh_tokens :
          /\ Consumed(Source(refresh_tokens[t]))
          /\ Source(refresh_tokens[t]) \notin raced' =>
               \A s \in Requests : Redeems(req'[s], Source(refresh_tokens[t])) =>
                 req'[s].pc \in {"mint_access", "record", "respond"} /\ req'[s].rt = t
    BY <1>1, <1>2, <1>3 DEF UseInv, SourceInv
  <2> QED
    BY <2>1, <2>2 DEF SourceInv, Redeems, Redeeming, Support, Source, Rotates, Consumed
<1>8. SingleUseUnlessRaced'
  BY <1>1 DEF UseInv, SingleUseUnlessRaced, Source, Rotates
<1> QED
  BY <1>5, <1>6, <1>7, <1>8 DEF UseInv

\* UseInv is inductive, on top of LineageInv.
LEMMA UseStep ==
  ASSUME LineageInv, UseInv, [Next]_vars
  PROVE  UseInv'
<1>0. TypeOK /\ RowInv /\ RowsKept
  BY StepKeepsRows DEF LineageInv
<1>1. ASSUME NEW r \in Requests, NEW c \in DOMAIN codes, NEW client \in Clients,
             NEW res \in SUBSET Resources, NEW proof \in Keys \cup {NoKey},
             NEW cert \in Certs \cup {NoCert}, Begin(r, c, client, res, proof, cert)
      PROVE  UseInv'
  <2>1. /\ req'[r].pc = "consume" /\ req'[r].code = c /\ req'[r].refresh = NoToken
        /\ \A s \in Requests \ {r} : req'[s] = req[s]
    BY <1>0, <1>1 DEF Begin, TypeOK, Idle
  <2>2. UNCHANGED <<codes, refresh_tokens, access_tokens>> /\ ~Consumed(c) /\ Race(c)
    BY <1>0, <1>1 DEF Begin, Redeemable, TypeOK, Consumed
  <2> QED
    BY <2>1, <2>2, StartStep DEF Support
<1>2. ASSUME NEW r \in Requests, NEW t \in DOMAIN refresh_tokens, NEW scopes \in SUBSET Scopes,
             NEW res \in SUBSET Resources, NEW proof \in Keys \cup {NoKey},
             NEW cert \in Certs \cup {NoCert}, RefreshStart(r, t, scopes, res, proof, cert)
      PROVE  UseInv'
  <2>1. /\ req'[r].refresh = t /\ t # NoToken /\ req'[r].client = refresh_tokens[t].client
        /\ req'[r].pc = IF refresh_tokens[t].client \in Fapi2Clients THEN "mint_access" ELSE "consume"
        /\ \A s \in Requests \ {r} : req'[s] = req[s]
    BY <1>0, <1>2 DEF RefreshStart, TypeOK, Idle
  <2>2. UNCHANGED <<codes, refresh_tokens, access_tokens>> /\ ~Consumed(t) /\ Race(t)
    BY <1>0, <1>2 DEF RefreshStart, Redeemable, TypeOK, Consumed
  <2> QED
    BY <2>1, <2>2, StartStep DEF Support
<1>3. ASSUME NEW r \in Requests, ConsumeCode(r)
      PROVE  UseInv'
  <2>1. PICK p \in Steps : /\ req' = [req EXCEPT ![r].pc = p]
                           /\ p \in {"mint_refresh", "mint_access"}
    BY <1>3 DEF ConsumeCode, Steps
  <2>2. /\ req'[r].pc = p /\ SameCall(req[r], req'[r])
        /\ req'[r].at = req[r].at /\ req'[r].rt = req[r].rt
        /\ \A s \in Requests \ {r} : req'[s] = req[s]
    BY <1>0, <2>1, PcMove
  <2>3. req[r].code \in DOMAIN codes
    BY <1>3 DEF LineageInv, RequestInv, InGrant, Redeeming, ConsumeCode
  <2>4. codes'[req[r].code].consumed /\ req[r].code \in Codes /\ req[r].refresh = NoToken
    BY <1>0, <1>3, <2>3, CodeConsumed DEF ConsumeCode, TypeOK
  <2>5. Consumed(Support(req[r]))'
    BY <2>2, <2>4 DEF Consumed, Support, SameCall
  <2> QED
    BY <1>0, <1>3, <2>1, <2>2, <2>5, ForwardStep DEF ConsumeCode
<1>4. ASSUME NEW r \in Requests, ConsumeRefresh(r)
      PROVE  UseInv'
  <2>1. /\ req'[r].pc = "mint_refresh" /\ SameCall(req[r], req'[r])
        /\ req'[r].at = req[r].at /\ req'[r].rt = req[r].rt
        /\ \A s \in Requests \ {r} : req'[s] = req[s]
    BY <1>0, <1>4, PcMove DEF ConsumeRefresh, Steps
  <2>2. req[r].refresh \in DOMAIN refresh_tokens /\ req[r].refresh # NoToken
    BY <1>4 DEF LineageInv, RequestInv, InGrant, Redeeming, ConsumeRefresh
  <2>3. /\ refresh_tokens'[req[r].refresh].consumed /\ req[r].refresh \notin Codes
        /\ DOMAIN refresh_tokens' = DOMAIN refresh_tokens
    BY <1>0, <1>4, <2>2, RefreshConsumed DEF ConsumeRefresh, TypeOK
  <2>4. Consumed(Support(req[r]))'
    BY <2>1, <2>2, <2>3 DEF Consumed, Support, SameCall
  <2> QED
    BY <1>0, <1>4, <2>1, <2>3, <2>4, ForwardStep DEF ConsumeRefresh
<1>5. ASSUME NEW r \in Requests, Record(r)
      PROVE  UseInv'
  <2>1. /\ req'[r].pc = "respond" /\ SameCall(req[r], req'[r])
        /\ req'[r].at = req[r].at /\ req'[r].rt = req[r].rt
        /\ \A s \in Requests \ {r} : req'[s] = req[s]
    BY <1>0, <1>5, PcMove DEF Record, Steps
  <2> QED
    BY <1>0, <1>5, <2>1, ForwardStep DEF Record
<1>6. ASSUME NEW r \in Requests, Respond(r) \/ RevokeRefresh(r) \/ Abort(r)
      PROVE  UseInv'
  <2>1. \A s \in Requests : req'[s] = IF s = r THEN Idle ELSE req[s]
    BY <1>0, <1>6 DEF TypeOK, Respond, RevokeRefresh, Abort
  <2>2. ~Redeeming(Idle)
    BY DEF Redeeming, Idle
  <2>3. /\ raced' = raced /\ DOMAIN access_tokens' = DOMAIN access_tokens
        /\ DOMAIN refresh_tokens' = DOMAIN refresh_tokens
    BY <1>6 DEF Respond, RevokeRefresh, Abort
  <2> QED
    BY <1>0, <2>1, <2>2, <2>3, QuietStep
<1>7. ASSUME NEW r \in Requests, NEW c \in DOMAIN codes, ReplayStart(r, c)
      PROVE  UseInv'
  <2>1. req'[r].pc = "revoke_access" /\ \A s \in Requests \ {r} : req'[s] = req[s]
    BY <1>0, <1>7 DEF ReplayStart, TypeOK, Idle
  <2>2. \A s \in Requests : Redeeming(req'[s]) => req'[s] = req[s]
    BY <2>1 DEF Redeeming
  <2> QED
    BY <1>0, <1>7, <2>2, QuietStep DEF ReplayStart
<1>8. ASSUME NEW r \in Requests, RevokeAccess(r)
      PROVE  UseInv'
  <2>1. req'[r].pc = "revoke_refresh" /\ \A s \in Requests \ {r} : req'[s] = req[s]
    BY <1>0, <1>8, PcMove DEF RevokeAccess, Steps
  <2>2. \A s \in Requests : Redeeming(req'[s]) => req'[s] = req[s]
    BY <2>1 DEF Redeeming
  <2> QED
    BY <1>0, <1>8, <2>2, QuietStep DEF RevokeAccess
<1>9. ASSUME NEW c \in Codes, NEW g \in Grants, Issue(c, g)
      PROVE  UseInv'
  BY <1>0, <1>9, QuietStep DEF Issue
<1>10. CASE PurgeExpired \/ Tick \/ UNCHANGED vars
  BY <1>0, <1>10, QuietStep DEF PurgeExpired, Tick, vars
<1> QED
  BY <1>0, <1>1, <1>2, <1>3, <1>4, <1>5, <1>6, <1>7, <1>8, <1>9, <1>10, Cases,
     MintAccessUse, MintRefreshUse

\* The empty stores satisfy the inductive invariant of single use.
LEMMA UseInit == Init => UseInv
<1> SUFFICES ASSUME Init PROVE UseInv
  OBVIOUS
<1>1. \A r \in Requests : ~Redeeming(req[r])
  BY DEF Init, Redeeming, Idle
<1>2. DOMAIN access_tokens = {} /\ DOMAIN refresh_tokens = {} /\ raced = {}
  BY DEF Init
<1> QED
  BY <1>1, <1>2 DEF UseInv, FapiInv, RedeemInv, SourceInv, SingleUseUnlessRaced, Redeems

\* Both inductive invariants hold in every reachable state.
LEMMA UseAlways == Spec => [](LineageInv /\ UseInv)
<1>1. Init => LineageInv /\ UseInv
  BY LineageInit, UseInit
<1>2. LineageInv /\ UseInv /\ [Next]_vars => (LineageInv /\ UseInv)'
  BY LineageStep, UseStep
<1> QED
  BY <1>1, <1>2, PTL DEF Spec

\* A code or a rotated refresh token is redeemed once, however calls interleave
\* and abort, unless two of them found it unconsumed before either consumed it.
THEOREM SingleUse == Spec => []SingleUseUnlessRaced
<1>1. UseInv => SingleUseUnlessRaced
  BY DEF UseInv
<1> QED
  BY <1>1, UseAlways, PTL
--------------------------------------------------------------------------------
(* A replay revokes what the exchange answered.                             *)

\* How a step may move a call.
Moved(s) ==
  \/ req'[s] = req[s]
  \/ /\ req'[s].pc \in {"idle", "consume", "mint_access"}
     /\ req'[s].at = NoToken /\ req'[s].rt = NoToken
  \/ /\ req[s].pc = "consume" /\ req'[s].pc \in {"mint_refresh", "mint_access"}
     /\ SameCall(req[s], req'[s])
     /\ req'[s].at = req[s].at /\ req'[s].at_exp = req[s].at_exp /\ req'[s].rt = req[s].rt
  \/ \E t \in RefreshIds : MintRefresh(s, t)
  \/ \E a \in AccessIds : MintAccess(s, a)
  \/ Record(s)
  \/ \E c \in DOMAIN codes : ReplayStart(s, c)
  \/ RevokeAccess(s)

\* What a code's row says of the tokens of its exchange.
SameNames(c) ==
  /\ codes'[c].at = codes[c].at /\ codes'[c].at_exp = codes[c].at_exp
  /\ codes'[c].rt = codes[c].rt

\* What a step may do to the state a replay depends on, each change at the one
\* action that makes it.
Effects ==
  /\ raced \subseteq raced'
  /\ now' \in Nat /\ now <= now'
  /\ \A s \in Requests : Moved(s)
  /\ \A c \in DOMAIN codes :
       SameNames(c) \/ \E r \in Requests : Record(r) /\ req[r].code = c
  /\ \A c \in DOMAIN codes' \ DOMAIN codes : codes'[c].at = NoToken /\ codes'[c].rt = NoToken
  /\ delivered' = delivered \/ \E r \in Requests : Respond(r)
  /\ revoked' = revoked \/ PurgeExpired \/ \E r \in Requests : RevokeAccess(r)
  /\ killed' = killed \/ \E r \in Requests : RevokeRefresh(r)

LEMMA StepEffects ==
  ASSUME LineageInv, [Next]_vars
  PROVE  Effects
<1>0. TypeOK /\ RowInv /\ now \in Nat
  BY DEF LineageInv, TypeOK
<1>1. ASSUME NEW r \in Requests, NEW c \in DOMAIN codes, NEW client \in Clients,
             NEW res \in SUBSET Resources, NEW proof \in Keys \cup {NoKey},
             NEW cert \in Certs \cup {NoCert}, Begin(r, c, client, res, proof, cert)
      PROVE  Effects
  <2>1. /\ req'[r].pc = "consume" /\ req'[r].at = NoToken /\ req'[r].rt = NoToken
        /\ \A s \in Requests \ {r} : req'[s] = req[s]
    BY <1>0, <1>1 DEF Begin, TypeOK, Idle
  <2>2. raced \subseteq raced'
    BY <1>1 DEF Begin, Race
  <2> QED
    BY <1>0, <1>1, <2>1, <2>2 DEF Begin, Effects, Moved, SameNames
<1>2. ASSUME NEW r \in Requests, NEW t \in DOMAIN refresh_tokens, NEW scopes \in SUBSET Scopes,
             NEW res \in SUBSET Resources, NEW proof \in Keys \cup {NoKey},
             NEW cert \in Certs \cup {NoCert}, RefreshStart(r, t, scopes, res, proof, cert)
      PROVE  Effects
  <2>1. /\ req'[r].pc \in {"consume", "mint_access"}
        /\ req'[r].at = NoToken /\ req'[r].rt = NoToken
        /\ \A s \in Requests \ {r} : req'[s] = req[s]
    BY <1>0, <1>2 DEF RefreshStart, TypeOK, Idle
  <2>2. raced \subseteq raced'
    BY <1>2 DEF RefreshStart, Race
  <2> QED
    BY <1>0, <1>2, <2>1, <2>2 DEF RefreshStart, Effects, Moved, SameNames
<1>3. ASSUME NEW r \in Requests, ConsumeCode(r)
      PROVE  Effects
  <2>1. PICK p \in Steps : /\ req' = [req EXCEPT ![r].pc = p]
                           /\ p \in {"mint_refresh", "mint_access"}
    BY <1>3 DEF ConsumeCode, Steps
  <2>2. /\ req[r].pc = "consume" /\ req'[r].pc = p /\ SameCall(req[r], req'[r])
        /\ req'[r].at = req[r].at /\ req'[r].at_exp = req[r].at_exp /\ req'[r].rt = req[r].rt
        /\ \A s \in Requests \ {r} : req'[s] = req[s]
    BY <1>0, <1>3, <2>1, PcMove DEF ConsumeCode
  <2>3. DOMAIN codes' = DOMAIN codes /\ \A c \in DOMAIN codes : SameNames(c)
    BY <1>0, <1>3, CodeConsumed DEF ConsumeCode, SameNames
  <2> QED
    BY <1>0, <1>3, <2>1, <2>2, <2>3 DEF ConsumeCode, Effects, Moved
<1>4. ASSUME NEW r \in Requests, ConsumeRefresh(r)
      PROVE  Effects
  <2>1. /\ req[r].pc = "consume" /\ req'[r].pc = "mint_refresh" /\ SameCall(req[r], req'[r])
        /\ req'[r].at = req[r].at /\ req'[r].at_exp = req[r].at_exp /\ req'[r].rt = req[r].rt
        /\ \A s \in Requests \ {r} : req'[s] = req[s]
    BY <1>0, <1>4, PcMove DEF ConsumeRefresh, Steps
  <2> QED
    BY <1>0, <1>4, <2>1 DEF ConsumeRefresh, Effects, Moved, SameNames
<1>5. ASSUME NEW r \in Requests, NEW t \in RefreshIds, MintRefresh(r, t)
      PROVE  Effects
  <2>1. \A s \in Requests \ {r} : req'[s] = req[s]
    BY <1>0, <1>5, RefreshMove DEF MintRefresh
  <2>2. /\ raced' = raced /\ now' = now /\ codes' = codes /\ delivered' = delivered
        /\ revoked' = revoked /\ killed' = killed
    BY <1>5 DEF MintRefresh
  <2> QED
    BY <1>0, <1>5, <2>1, <2>2 DEF Effects, Moved, SameNames
<1>6. ASSUME NEW r \in Requests, NEW a \in AccessIds, MintAccess(r, a)
      PROVE  Effects
  <2>1. \A s \in Requests \ {r} : req'[s] = req[s]
    BY <1>0, <1>6 DEF MintAccess, TypeOK
  <2>2. /\ raced' = raced /\ now' = now /\ codes' = codes /\ delivered' = delivered
        /\ revoked' = revoked /\ killed' = killed
    BY <1>6 DEF MintAccess
  <2> QED
    BY <1>0, <1>6, <2>1, <2>2 DEF Effects, Moved, SameNames
<1>7. ASSUME NEW r \in Requests, Record(r)
      PROVE  Effects
  <2>1. \A s \in Requests \ {r} : req'[s] = req[s]
    BY <1>0, <1>7, PcMove DEF Record, Steps
  <2>2. /\ raced' = raced /\ now' = now /\ delivered' = delivered
        /\ revoked' = revoked /\ killed' = killed
    BY <1>7 DEF Record
  <2>3. DOMAIN codes' = DOMAIN codes
        /\ \A c \in DOMAIN codes : SameNames(c) \/ req[r].code = c
    BY <1>0, <1>7, CodeRecorded DEF SameNames
  <2> QED
    BY <1>0, <1>7, <2>1, <2>2, <2>3 DEF Effects, Moved
<1>8. ASSUME NEW r \in Requests, Respond(r) \/ RevokeRefresh(r) \/ Abort(r)
      PROVE  Effects
  <2>1. /\ req'[r].pc = "idle" /\ req'[r].at = NoToken /\ req'[r].rt = NoToken
        /\ \A s \in Requests \ {r} : req'[s] = req[s]
    BY <1>0, <1>8 DEF TypeOK, Respond, RevokeRefresh, Abort, Idle
  <2>2. /\ raced' = raced /\ now' = now /\ codes' = codes /\ revoked' = revoked
        /\ delivered' = delivered \/ Respond(r)
        /\ killed' = killed \/ RevokeRefresh(r)
    BY <1>8 DEF Respond, RevokeRefresh, Abort
  <2> QED
    BY <1>0, <2>1, <2>2 DEF Effects, Moved, SameNames
<1>9. ASSUME NEW r \in Requests, NEW c \in DOMAIN codes, ReplayStart(r, c)
      PROVE  Effects
  <2>1. \A s \in Requests \ {r} : req'[s] = req[s]
    BY <1>0, <1>9 DEF ReplayStart, TypeOK
  <2>2. /\ raced' = raced /\ now' = now /\ codes' = codes /\ delivered' = delivered
        /\ revoked' = revoked /\ killed' = killed
    BY <1>9 DEF ReplayStart
  <2> QED
    BY <1>0, <1>9, <2>1, <2>2 DEF Effects, Moved, SameNames
<1>10. ASSUME NEW r \in Requests, RevokeAccess(r)
       PROVE  Effects
  <2>1. \A s \in Requests \ {r} : req'[s] = req[s]
    BY <1>0, <1>10, PcMove DEF RevokeAccess, Steps
  <2>2. /\ raced' = raced /\ now' = now /\ codes' = codes /\ delivered' = delivered
        /\ killed' = killed
    BY <1>10 DEF RevokeAccess
  <2> QED
    BY <1>0, <1>10, <2>1, <2>2 DEF Effects, Moved, SameNames
<1>11. ASSUME NEW c \in Codes, NEW g \in Grants, Issue(c, g)
       PROVE  Effects
  <2>1. /\ DOMAIN codes' = DOMAIN codes \cup {c}
        /\ codes'[c].at = NoToken /\ codes'[c].rt = NoToken
        /\ \A d \in DOMAIN codes : codes'[d] = codes[d]
    BY <1>11 DEF Issue, Put
  <2>2. /\ raced' = raced /\ now' = now /\ req' = req /\ delivered' = delivered
        /\ revoked' = revoked /\ killed' = killed
    BY <1>11 DEF Issue
  <2> QED
    BY <1>0, <2>1, <2>2 DEF Effects, Moved, SameNames
<1>12. CASE PurgeExpired \/ Tick \/ UNCHANGED vars
  BY <1>0, <1>12 DEF PurgeExpired, Tick, vars, Effects, Moved, SameNames
<1> QED
  BY <1>0, <1>1, <1>2, <1>3, <1>4, <1>5, <1>6, <1>7, <1>8, <1>9, <1>10, <1>11, <1>12, Cases
\* The stores keep naming tokens that exist.
LEMMA StoreStep ==
  ASSUME LineageInv, ReplayInv, RowsKept, Effects
  PROVE  StoreInv'
<1>1. delivered' \subseteq DOMAIN access_tokens' \cup DOMAIN refresh_tokens'
  <2>1. CASE delivered' = delivered
    BY <2>1 DEF ReplayInv, StoreInv, RowsKept
  <2>2. ASSUME NEW r \in Requests, Respond(r)
        PROVE  delivered' \subseteq DOMAIN access_tokens' \cup DOMAIN refresh_tokens'
    <3>1. delivered' = delivered \cup ({req[r].at, req[r].rt} \ {NoToken})
      BY <2>2 DEF Respond
    <3>2. /\ req[r].at \in DOMAIN access_tokens
          /\ req[r].rt # NoToken => req[r].rt \in DOMAIN refresh_tokens
      BY <2>2 DEF Respond, ReplayInv, Holding, Names
    <3> QED
      BY <3>1, <3>2 DEF ReplayInv, StoreInv, RowsKept
  <2> QED
    BY <2>1, <2>2 DEF Effects
<1>2. killed' \subseteq DOMAIN access_tokens' \cup DOMAIN refresh_tokens'
  <2>1. CASE killed' = killed
    BY <2>1 DEF ReplayInv, StoreInv, RowsKept
  <2>2. ASSUME NEW r \in Requests, RevokeRefresh(r)
        PROVE  killed' \subseteq DOMAIN access_tokens' \cup DOMAIN refresh_tokens'
    <3>1. killed' = killed \cup req[r].due /\ Replaying(req[r])
      BY <2>2 DEF RevokeRefresh, Replaying
    <3>2. req[r].due \subseteq DOMAIN access_tokens \cup DOMAIN refresh_tokens
      BY <3>1 DEF ReplayInv, Revoking, DirectAccess, DirectRefresh
    <3> QED
      BY <3>1, <3>2 DEF ReplayInv, StoreInv, RowsKept
  <2> QED
    BY <2>1, <2>2 DEF Effects
<1>3. \A a \in DOMAIN revoked' :
        a \in DOMAIN access_tokens' /\ revoked'[a] = access_tokens'[a].exp
  <2>1. CASE revoked' = revoked
    BY <2>1 DEF ReplayInv, StoreInv, RowsKept
  <2>2. CASE PurgeExpired
    <3>1. DOMAIN revoked' \subseteq DOMAIN revoked /\ \A a \in DOMAIN revoked' : revoked'[a] = revoked[a]
      BY <2>2 DEF PurgeExpired
    <3> QED
      BY <3>1 DEF ReplayInv, StoreInv, RowsKept
  <2>3. ASSUME NEW r \in Requests, RevokeAccess(r), req[r].at # NoToken
        PROVE  \A a \in DOMAIN revoked' :
                 a \in DOMAIN access_tokens' /\ revoked'[a] = access_tokens'[a].exp
    <3>1. /\ DOMAIN revoked' = DOMAIN revoked \cup {req[r].at}
          /\ revoked'[req[r].at] = req[r].at_exp
          /\ \A a \in DOMAIN revoked : a # req[r].at => revoked'[a] = revoked[a]
      BY <2>3 DEF RevokeAccess, Put
    <3>2. req[r].at \in DOMAIN access_tokens /\ req[r].at_exp = access_tokens[req[r].at].exp
      BY <2>3 DEF ReplayInv, Holding, Names
    <3> QED
      BY <3>1, <3>2 DEF ReplayInv, StoreInv, RowsKept
  <2>4. ASSUME NEW r \in Requests, RevokeAccess(r), req[r].at = NoToken
        PROVE  revoked' = revoked
    BY <2>4 DEF RevokeAccess
  <2> QED
    BY <2>1, <2>2, <2>3, <2>4 DEF Effects
<1>4. ASSUME NEW c \in DOMAIN codes' PROVE Names(codes[c])'
  <2>1. CASE c \in DOMAIN codes /\ SameNames(c)
    <3>1. Names(codes[c])
      BY <2>1 DEF ReplayInv, StoreInv
    <3> QED
      BY <2>1, <3>1 DEF Names, RowsKept, SameNames
  <2>2. ASSUME NEW r \in Requests, Record(r), req[r].code = c, c \in DOMAIN codes
        PROVE  Names(codes[c])'
    <3>1. Names(req[r])
      BY DEF ReplayInv, Holding
    <3>2. codes'[c].at = req[r].at /\ codes'[c].at_exp = req[r].at_exp /\ codes'[c].rt = req[r].rt
      BY <2>2, CodeRecorded DEF LineageInv
    <3> QED
      BY <3>1, <3>2 DEF Names, RowsKept
  <2>3. CASE c \notin DOMAIN codes
    BY <2>3 DEF Effects, Names
  <2> QED
    BY <2>1, <2>2, <2>3 DEF Effects
<1> QED
  BY <1>1, <1>2, <1>3, <1>4 DEF StoreInv

\* What a minting call is left with.
LEMMA MintedRefresh ==
  ASSUME TypeOK, NEW r \in Requests, NEW t \in RefreshIds, MintRefresh(r, t)
  PROVE  /\ SameCall(req[r], req'[r]) /\ req'[r].pc = "mint_access" /\ req'[r].rt = t
         /\ req'[r].at = req[r].at /\ req'[r].at_exp = req[r].at_exp
         /\ DOMAIN refresh_tokens' = DOMAIN refresh_tokens \cup {t} /\ t \notin DOMAIN refresh_tokens
         /\ refresh_tokens'[t].root = req[r].code /\ refresh_tokens'[t].parent = req[r].refresh
<1>1. /\ DOMAIN refresh_tokens' = DOMAIN refresh_tokens \cup {t} /\ t \notin DOMAIN refresh_tokens
      /\ refresh_tokens'[t].root = req[r].code /\ refresh_tokens'[t].parent = req[r].refresh
  BY DEF MintRefresh, Put
<1> QED
  BY <1>1, RefreshMove DEF MintRefresh

LEMMA MintedAccess ==
  ASSUME TypeOK, NEW r \in Requests, NEW a \in AccessIds, MintAccess(r, a)
  PROVE  /\ SameCall(req[r], req'[r]) /\ req'[r].at = a /\ req'[r].rt = req[r].rt
         /\ req'[r].pc \in {"record", "respond"}
         /\ req'[r].pc = "record" => req[r].refresh = NoToken
         /\ req'[r].pc = "respond" => req[r].refresh # NoToken \/ codes[req[r].code].pre
         /\ DOMAIN access_tokens' = DOMAIN access_tokens \cup {a} /\ a \notin DOMAIN access_tokens
         /\ req'[r].at_exp = access_tokens'[a].exp
         /\ access_tokens'[a].root = req[r].code /\ access_tokens'[a].parent = req[r].refresh
<1>1. /\ DOMAIN access_tokens' = DOMAIN access_tokens \cup {a} /\ a \notin DOMAIN access_tokens
      /\ access_tokens'[a].exp = req[r].start + AccessTtl
      /\ access_tokens'[a].root = req[r].code /\ access_tokens'[a].parent = req[r].refresh
  BY DEF MintAccess, Put
<1> DEFINE e == req[r].start + AccessTtl
<1>2. e \in Nat
  BY DEF TypeOK, Request
<1>3. PICK p \in Steps :
        /\ req' = [req EXCEPT ![r].pc = p, ![r].at = a, ![r].at_exp = req[r].start + AccessTtl]
        /\ p \in {"record", "respond"}
        /\ p = "record" => req[r].refresh = NoToken
        /\ p = "respond" => req[r].refresh # NoToken \/ codes[req[r].code].pre
  BY DEF MintAccess, Steps
<1>4. req' = [req EXCEPT ![r].pc = p, ![r].at = a, ![r].at_exp = e]
  BY <1>3
<1> HIDE DEF e
<1>5. /\ SameCall(req[r], req'[r]) /\ req'[r].pc = p /\ req'[r].at = a
      /\ req'[r].rt = req[r].rt
  BY <1>2, <1>4, AccessMove
<1>6. req'[r].at_exp = req[r].start + AccessTtl
  BY DEF MintAccess, TypeOK, Request
<1> QED
  BY <1>1, <1>3, <1>5, <1>6

\* A call keeps holding the tokens of the support it redeems.
LEMMA HoldingStep ==
  ASSUME LineageInv, ReplayInv, RowsKept, Effects, NEW s \in Requests
  PROVE  Holding(req[s])'
<1>0. TypeOK /\ Moved(s) /\ Holding(req[s])
  BY DEF LineageInv, Effects, ReplayInv
<1>1. CASE req'[s] = req[s]
  BY <1>0, <1>1 DEF Holding, Names, Redeeming, RowsKept, SameRefresh
<1>2. CASE /\ req'[s].pc \in {"idle", "consume", "mint_access"}
           /\ req'[s].at = NoToken /\ req'[s].rt = NoToken
  BY <1>2 DEF Holding, Names
<1>3. CASE /\ req[s].pc = "consume" /\ req'[s].pc \in {"mint_refresh", "mint_access"}
           /\ SameCall(req[s], req'[s])
           /\ req'[s].at = req[s].at /\ req'[s].at_exp = req[s].at_exp /\ req'[s].rt = req[s].rt
  BY <1>0, <1>3 DEF Holding, Names, Redeeming, RowsKept, SameRefresh, SameCall
<1>4. ASSUME NEW t \in RefreshIds, MintRefresh(s, t)
      PROVE  Holding(req[s])'
  <2>1. /\ SameCall(req[s], req'[s]) /\ req'[s].pc = "mint_access" /\ req'[s].rt = t
        /\ req'[s].at = req[s].at /\ req'[s].at_exp = req[s].at_exp
        /\ t \in DOMAIN refresh_tokens'
        /\ refresh_tokens'[t].root = req[s].code /\ refresh_tokens'[t].parent = req[s].refresh
    BY <1>0, <1>4, MintedRefresh
  <2>2. Names(req[s])'
    BY <1>0, <2>1 DEF Holding, Names, RowsKept
  <2> QED
    BY <2>1, <2>2 DEF Holding, SameCall
<1>5. ASSUME NEW a \in AccessIds, MintAccess(s, a)
      PROVE  Holding(req[s])'
  <2>1. /\ SameCall(req[s], req'[s]) /\ req'[s].at = a /\ req'[s].rt = req[s].rt
        /\ req'[s].pc \in {"record", "respond"}
        /\ req'[s].pc = "record" => req[s].refresh = NoToken
        /\ a \in DOMAIN access_tokens' /\ req'[s].at_exp = access_tokens'[a].exp
        /\ access_tokens'[a].root = req[s].code /\ access_tokens'[a].parent = req[s].refresh
    BY <1>0, <1>5, MintedAccess
  <2>2. Redeeming(req[s])
    BY <1>5 DEF MintAccess, Redeeming
  <2>3. Names(req[s])'
    BY <1>0, <2>1 DEF Holding, Names, RowsKept
  <2>4. req'[s].rt # NoToken =>
          /\ refresh_tokens'[req'[s].rt].root = req'[s].code
          /\ refresh_tokens'[req'[s].rt].parent = req'[s].refresh
    BY <1>0, <2>1, <2>2 DEF Holding, Names, RowsKept, SameRefresh, SameCall
  <2> QED
    BY <2>1, <2>3, <2>4 DEF Holding, SameCall
<1>6. CASE Record(s)
  <2>1. /\ req[s].pc = "record" /\ req'[s].pc = "respond" /\ SameCall(req[s], req'[s])
        /\ req'[s].at = req[s].at /\ req'[s].at_exp = req[s].at_exp /\ req'[s].rt = req[s].rt
    BY <1>0, <1>6, PcMove DEF Record, Steps
  <2> QED
    BY <1>0, <2>1 DEF Holding, Names, Redeeming, RowsKept, SameRefresh, SameCall
<1>7. ASSUME NEW c \in DOMAIN codes, ReplayStart(s, c)
      PROVE  Holding(req[s])'
  <2>1. /\ req'[s].pc = "revoke_access" /\ req'[s].at = codes[c].at
        /\ req'[s].at_exp = codes[c].at_exp /\ req'[s].rt = codes[c].rt
    BY <1>0, <1>7 DEF ReplayStart, TypeOK, Idle
  <2>2. Names(codes[c])
    BY DEF ReplayInv, StoreInv
  <2> QED
    BY <2>1, <2>2 DEF Holding, Names, Redeeming, RowsKept
<1>8. CASE RevokeAccess(s)
  <2>1. /\ req'[s].pc = "revoke_refresh" /\ SameCall(req[s], req'[s])
        /\ req'[s].at = req[s].at /\ req'[s].at_exp = req[s].at_exp /\ req'[s].rt = req[s].rt
    BY <1>0, <1>8, PcMove DEF RevokeAccess, Steps
  <2> QED
    BY <1>0, <2>1 DEF Holding, Names, Redeeming, RowsKept
<1> QED
  BY <1>0, <1>1, <1>2, <1>3, <1>4, <1>5, <1>6, <1>7, <1>8 DEF Moved
\* A code that is unraced after a step was unraced before.
LEMMA ExchangedBefore ==
  ASSUME RowsKept, Effects, NEW c \in DOMAIN codes, Exchanged(c)'
  PROVE  Exchanged(c)
BY DEF RowsKept, Effects, SameCode, Exchanged

\* A dead token stays dead: a denylist entry is only purged with its token expired.
LEMMA DeadKept ==
  ASSUME LineageInv, StoreInv, RowsKept, Effects,
         NEW x \in DOMAIN access_tokens \cup DOMAIN refresh_tokens, Dead(x)
  PROVE  Dead(x)'
<1>1. CASE x \in AccessIds /\ access_tokens[x].exp <= now
  <2>1. x \in DOMAIN access_tokens /\ access_tokens[x].exp \in Nat /\ now \in Nat
    BY <1>1 DEF LineageInv, TypeOK, AccessRow
  <2> QED
    BY <1>1, <2>1 DEF Dead, RowsKept, Effects
<1>2. CASE x \in AccessIds /\ x \in DOMAIN revoked
  <2>1. /\ x \in DOMAIN access_tokens /\ access_tokens[x].exp \in Nat /\ now \in Nat
        /\ revoked[x] = access_tokens[x].exp
    BY <1>2 DEF LineageInv, TypeOK, AccessRow, StoreInv
  <2>2. x \in DOMAIN revoked' \/ revoked[x] <= now
    <3>1. CASE PurgeExpired
      BY <1>2, <2>1, <3>1 DEF PurgeExpired
    <3>2. ASSUME NEW r \in Requests, RevokeAccess(r)
          PROVE  x \in DOMAIN revoked'
      BY <1>2, <3>2 DEF RevokeAccess, Put
    <3> QED
      BY <1>2, <3>1, <3>2 DEF Effects
  <2> QED
    BY <1>2, <2>1, <2>2 DEF Dead, RowsKept, Effects
<1>3. CASE x \notin AccessIds
  BY <1>3 DEF Dead, RowsKept, LineageInv, TypeOK
<1> QED
  BY <1>1, <1>2, <1>3 DEF Dead

\* The call that records, on an unraced code, is the one call that redeems it.
LEMMA RecordAlone ==
  ASSUME LineageInv, UseInv, ReplayInv, NEW r \in Requests, Record(r), req[r].code \notin raced
  PROVE  /\ Redeems(req[r], req[r].code) /\ req[r].code \in DOMAIN codes
         /\ \A s \in Requests : Redeems(req[s], req[r].code) => s = r
<1>1. req[r].pc = "record" /\ req[r].refresh = NoToken
  BY DEF Record, ReplayInv, Holding
<1>2. Support(req[r]) = req[r].code /\ Redeems(req[r], req[r].code)
  BY <1>1 DEF Support, Redeems, Redeeming
<1>3. req[r].code \in DOMAIN codes
  BY <1>1 DEF LineageInv, RequestInv, InGrant, Redeeming
<1> QED
  BY <1>2, <1>3 DEF UseInv, RedeemInv

\* An exchange keeps answering what it has recorded.
LEMMA AnsweringStep ==
  ASSUME LineageInv, UseInv, ReplayInv, RowsKept, Effects, NEW s \in Requests
  PROVE  Answering(req[s])'
<1>0. TypeOK /\ Moved(s) /\ Answering(req[s])
  BY DEF LineageInv, Effects, ReplayInv
<1> SUFFICES ASSUME req'[s].pc = "respond", req'[s].refresh = NoToken,
                    Exchanged(req[s].code)'
             PROVE  codes'[req'[s].code].at = req'[s].at /\ codes'[req'[s].code].rt = req'[s].rt
  BY DEF Answering
<1>1. CASE req'[s] = req[s]
  <2>1. PICK c \in DOMAIN codes : c = req[s].code
    BY <1>1 DEF LineageInv, RequestInv, InGrant, Redeeming
  <2>2. Exchanged(c)'
    BY <1>1, <2>1 DEF Exchanged
  <2>3. Exchanged(c)
    BY <2>2, ExchangedBefore
  <2>4. codes[c].at = req[s].at /\ codes[c].rt = req[s].rt
    BY <1>0, <1>1, <2>1, <2>3 DEF Answering
  <2>5. SameNames(c)
    <3>1. ASSUME NEW r \in Requests, Record(r), req[r].code = c
          PROVE  FALSE
      <4>1. Redeems(req[s], c)
        BY <1>1, <2>1 DEF Redeems, Redeeming, Support
      <4>2. s = r
        BY <2>3, <3>1, <4>1, RecordAlone DEF Exchanged
      <4> QED
        BY <1>1, <3>1, <4>2 DEF Record
    <3> QED
      BY <3>1 DEF Effects
  <2> QED
    BY <1>1, <2>1, <2>4, <2>5 DEF SameNames
<1>2. ASSUME NEW t \in RefreshIds, MintRefresh(s, t)
      PROVE  FALSE
  BY <1>0, <1>2, MintedRefresh
<1>3. ASSUME NEW a \in AccessIds, MintAccess(s, a)
      PROVE  FALSE
  <2>1. /\ SameCall(req[s], req'[s])
        /\ req[s].refresh # NoToken \/ codes[req[s].code].pre
    BY <1>0, <1>3, MintedAccess
  <2>2. codes' = codes
    BY <1>3 DEF MintAccess
  <2> QED
    BY <2>1, <2>2 DEF SameCall, Exchanged
<1>4. CASE Record(s)
  <2>1. /\ SameCall(req[s], req'[s]) /\ req'[s].at = req[s].at /\ req'[s].rt = req[s].rt
    BY <1>0, <1>4, PcMove DEF Record, Steps
  <2>2. req[s].code \in DOMAIN codes
    BY <1>4 DEF LineageInv, RequestInv, InGrant, Redeeming, Record
  <2>3. codes'[req[s].code].at = req[s].at /\ codes'[req[s].code].rt = req[s].rt
    BY <1>0, <1>4, <2>2, CodeRecorded
  <2> QED
    BY <2>1, <2>3 DEF SameCall
<1>5. ASSUME NEW c \in DOMAIN codes, ReplayStart(s, c)
      PROVE  FALSE
  BY <1>0, <1>5 DEF ReplayStart, TypeOK, Idle
<1>6. CASE RevokeAccess(s)
  BY <1>0, <1>6, PcMove DEF RevokeAccess, Steps
<1> QED
  BY <1>0, <1>1, <1>2, <1>3, <1>4, <1>5, <1>6 DEF Moved

\* A row keeps naming every token a client holds from its exchange.
LEMMA RecordedStep ==
  ASSUME LineageInv, UseInv, ReplayInv, RowsKept, Effects, [Next]_vars, NEW c \in Codes
  PROVE  Recorded(c)'
<1>0. TypeOK /\ RowInv
  BY DEF LineageInv
<1> SUFFICES ASSUME Exchanged(c)'
             PROVE  /\ DirectAccess(c)' \cap delivered' \subseteq {codes'[c].at}
                    /\ DirectRefresh(c)' \cap delivered' \subseteq {codes'[c].rt}
  BY DEF Recorded
<1>1. CASE c \notin DOMAIN codes
  <2>1. PICK g \in Grants : Issue(c, g)
    BY <1>0, <1>1, NewCodes DEF Exchanged
  <2>2. access_tokens' = access_tokens /\ refresh_tokens' = refresh_tokens
    BY <2>1 DEF Issue
  <2>3. /\ \A a \in DOMAIN access_tokens : access_tokens[a].root # c
        /\ \A t \in DOMAIN refresh_tokens : refresh_tokens[t].root # c
    BY <1>1 DEF LineageInv, GrantLineage, Lineage
  <2> QED
    BY <2>2, <2>3 DEF DirectAccess, DirectRefresh
<1>2. CASE c \in DOMAIN codes
  <2>1. Exchanged(c) /\ c \notin raced
    BY <1>2, ExchangedBefore DEF Exchanged
  <2>2. /\ DirectAccess(c) \cap delivered \subseteq {codes[c].at}
        /\ DirectRefresh(c) \cap delivered \subseteq {codes[c].rt}
    BY <2>1 DEF ReplayInv, Recorded
  <2>3. /\ delivered \subseteq DOMAIN access_tokens \cup DOMAIN refresh_tokens
        /\ DOMAIN access_tokens \subseteq AccessIds /\ DOMAIN refresh_tokens \subseteq RefreshIds
        /\ DOMAIN access_tokens' \subseteq AccessIds /\ DOMAIN refresh_tokens' \subseteq RefreshIds
    <3>1. TypeOK'
      BY <1>0, StepType DEF LineageInv
    <3> QED
      BY <1>0, <3>1 DEF ReplayInv, StoreInv, TypeOK
  <2>4. ASSUME NEW x \in DirectAccess(c)' \cap delivered'
        PROVE  x = codes'[c].at
    <3>1. x \in AccessIds /\ x \in DOMAIN access_tokens'
          /\ access_tokens'[x].root = c /\ access_tokens'[x].parent = NoToken
      BY <2>3 DEF DirectAccess
    <3>2. CASE x \in delivered
      <4>1. x \in DOMAIN access_tokens /\ access_tokens'[x] = access_tokens[x]
        BY <2>3, <3>1, <3>2 DEF RowsKept
      <4>2. x \in DirectAccess(c) /\ x = codes[c].at
        BY <2>2, <3>1, <3>2, <4>1 DEF DirectAccess
      <4>3. ASSUME NEW r \in Requests, Record(r), req[r].code = c
            PROVE  x = codes'[c].at
        <5>1. Redeems(req[r], c)
          BY <2>1, <4>3, RecordAlone
        <5>2. Rotates(access_tokens[x]) /\ Source(access_tokens[x]) = c
          BY <3>1, <4>1 DEF Rotates, Source
        <5>3. req[r].at = x
          BY <2>1, <4>1, <5>1, <5>2 DEF UseInv, SourceInv
        <5> QED
          BY <1>0, <1>2, <4>3, <5>3, CodeRecorded
      <4> QED
        BY <1>2, <4>2, <4>3 DEF Effects, SameNames
    <3>3. CASE x \notin delivered
      <4>1. PICK r \in Requests : Respond(r)
        BY <3>3 DEF Effects
      <4>2. /\ req[r].pc = "respond" /\ x \in {req[r].at, req[r].rt} \ {NoToken}
            /\ codes' = codes /\ access_tokens' = access_tokens
        BY <3>3, <4>1 DEF Respond
      <4>3. x = req[r].at
        BY <1>0, <3>1, <4>2 DEF TypeOK, Request
      <4>4. req[r].code = c /\ req[r].refresh = NoToken
        BY <3>1, <4>2, <4>3 DEF ReplayInv, Holding
      <4> QED
        BY <2>1, <4>2, <4>3, <4>4 DEF ReplayInv, Answering
    <3> QED
      BY <3>2, <3>3
  <2>5. ASSUME NEW x \in DirectRefresh(c)' \cap delivered'
        PROVE  x = codes'[c].rt
    <3>1. x \in RefreshIds /\ x \in DOMAIN refresh_tokens'
          /\ refresh_tokens'[x].root = c /\ refresh_tokens'[x].parent = NoToken
      BY <2>3 DEF DirectRefresh
    <3>2. CASE x \in delivered
      <4>1. /\ x \in DOMAIN refresh_tokens
            /\ refresh_tokens[x].root = c /\ refresh_tokens[x].parent = NoToken
        BY <2>3, <3>1, <3>2 DEF RowsKept, SameRefresh
      <4>2. x \in DirectRefresh(c) /\ x = codes[c].rt
        BY <2>2, <3>2, <4>1 DEF DirectRefresh
      <4>3. ASSUME NEW r \in Requests, Record(r), req[r].code = c
            PROVE  x = codes'[c].rt
        <5>1. Redeems(req[r], c)
          BY <2>1, <4>3, RecordAlone
        <5>2. Source(refresh_tokens[x]) = c
          BY <4>1 DEF Source
        <5>3. req[r].rt = x
          BY <2>1, <4>1, <5>1, <5>2 DEF UseInv, SourceInv
        <5> QED
          BY <1>0, <1>2, <4>3, <5>3, CodeRecorded
      <4> QED
        BY <1>2, <4>2, <4>3 DEF Effects, SameNames
    <3>3. CASE x \notin delivered
      <4>1. PICK r \in Requests : Respond(r)
        BY <3>3 DEF Effects
      <4>2. /\ req[r].pc = "respond" /\ x \in {req[r].at, req[r].rt} \ {NoToken}
            /\ codes' = codes /\ refresh_tokens' = refresh_tokens
        BY <3>3, <4>1 DEF Respond
      <4>3. x = req[r].rt /\ x # NoToken
        BY <1>0, <3>1, <4>2 DEF TypeOK, Request
      <4>4. req[r].code = c /\ req[r].refresh = NoToken
        BY <3>1, <4>2, <4>3 DEF ReplayInv, Holding, Redeeming
      <4> QED
        BY <2>1, <4>2, <4>3, <4>4 DEF ReplayInv, Answering
    <3> QED
      BY <3>2, <3>3
  <2> QED
    BY <2>4, <2>5
<1> QED
  BY <1>1, <1>2
\* A replay keeps owing what its copy of the row names.
LEMMA RevokingStep ==
  ASSUME LineageInv, ReplayInv, RowsKept, Effects, NEW s \in Requests
  PROVE  Revoking(req[s])'
<1>0. TypeOK /\ Moved(s) /\ Revoking(req[s]) /\ Holding(req[s])
  BY DEF LineageInv, Effects, ReplayInv
<1>1. \A c : DirectAccess(c) \subseteq DirectAccess(c)' /\ DirectRefresh(c) \subseteq DirectRefresh(c)'
  BY DEF DirectAccess, DirectRefresh, RowsKept, SameRefresh
<1> SUFFICES ASSUME Replaying(req'[s])
             PROVE  /\ req'[s].code \in DOMAIN codes'
                    /\ req'[s].due \subseteq (DirectAccess(req[s].code) \cup DirectRefresh(req[s].code))'
                    /\ Exchanged(req[s].code)' => req'[s].due \subseteq {req'[s].at, req'[s].rt}
                    /\ req'[s].pc = "revoke_refresh" /\ req'[s].at # NoToken => Dead(req[s].at)'
  BY DEF Revoking, Replaying
<1>2. CASE req'[s] = req[s]
  <2>1. PICK c \in DOMAIN codes : c = req[s].code
    BY <1>0, <1>2 DEF Revoking
  <2>2. req[s].due \subseteq DirectAccess(c) \cup DirectRefresh(c)
    BY <1>0, <1>2, <2>1 DEF Revoking
  <2>3. req[s].due \subseteq (DirectAccess(req[s].code) \cup DirectRefresh(req[s].code))'
    BY <1>1, <1>2, <2>1, <2>2 DEF DirectAccess, DirectRefresh
  <2>4. Exchanged(req[s].code)' => req[s].due \subseteq {req[s].at, req[s].rt}
    <3>1. Exchanged(req[s].code)' => Exchanged(c)'
      BY <1>2, <2>1 DEF Exchanged
    <3>2. Exchanged(c)' => Exchanged(c)
      BY ExchangedBefore
    <3> QED
      BY <1>0, <1>2, <2>1, <3>1, <3>2 DEF Revoking
  <2>5. ASSUME req[s].pc = "revoke_refresh", req[s].at # NoToken
        PROVE  Dead(req[s].at)'
    <3>1. PICK x \in DOMAIN access_tokens : x = req[s].at
      BY <1>0, <2>5 DEF Holding, Names
    <3>2. Dead(x)
      BY <1>0, <1>2, <2>5, <3>1 DEF Revoking
    <3>3. Dead(x)'
      BY <3>2, DeadKept DEF ReplayInv
    <3> QED
      BY <1>2, <3>1, <3>3 DEF Dead
  <2>6. req'[s].code \in DOMAIN codes'
    BY <1>2, <2>1 DEF RowsKept
  <2> QED
    BY <1>2, <2>3, <2>4, <2>5, <2>6
<1>3. ASSUME NEW t \in RefreshIds, MintRefresh(s, t)
      PROVE  FALSE
  BY <1>0, <1>3, MintedRefresh DEF Replaying
<1>4. ASSUME NEW a \in AccessIds, MintAccess(s, a)
      PROVE  FALSE
  BY <1>0, <1>4, MintedAccess DEF Replaying
<1>5. CASE Record(s)
  BY <1>0, <1>5, PcMove DEF Record, Steps, Replaying
<1>6. ASSUME NEW c \in DOMAIN codes, ReplayStart(s, c)
      PROVE  /\ req'[s].code \in DOMAIN codes' /\ req'[s].pc = "revoke_access"
             /\ req'[s].due \subseteq (DirectAccess(req[s].code) \cup DirectRefresh(req[s].code))'
             /\ Exchanged(req[s].code)' => req'[s].due \subseteq {req'[s].at, req'[s].rt}
  <2>1. /\ req'[s].pc = "revoke_access" /\ req'[s].code = c
        /\ req'[s].at = codes[c].at /\ req'[s].rt = codes[c].rt
        /\ req'[s].due = (DirectAccess(c) \cup DirectRefresh(c)) \cap delivered
    BY <1>0, <1>6 DEF ReplayStart, TypeOK, Idle
  <2>2. /\ codes' = codes /\ raced' = raced
        /\ access_tokens' = access_tokens /\ refresh_tokens' = refresh_tokens
    BY <1>6 DEF ReplayStart
  <2>3. c \in Codes
    BY <1>0 DEF TypeOK
  <2>4. Exchanged(c) => /\ DirectAccess(c) \cap delivered \subseteq {codes[c].at}
                        /\ DirectRefresh(c) \cap delivered \subseteq {codes[c].rt}
    BY <2>3 DEF ReplayInv, Recorded
  <2>5. Exchanged(req[s].code)' => Exchanged(c)
    BY <2>1, <2>2 DEF Exchanged
  <2>6. (DirectAccess(req[s].code) \cup DirectRefresh(req[s].code))'
          = DirectAccess(c) \cup DirectRefresh(c)
    BY <2>1, <2>2 DEF DirectAccess, DirectRefresh
  <2> QED
    BY <2>1, <2>2, <2>4, <2>5, <2>6
<1>7. CASE RevokeAccess(s)
  <2>1. /\ req[s].pc = "revoke_access" /\ req'[s].pc = "revoke_refresh"
        /\ SameCall(req[s], req'[s]) /\ req'[s].at = req[s].at /\ req'[s].rt = req[s].rt
    BY <1>0, <1>7, PcMove DEF RevokeAccess, Steps
  <2>2. /\ codes' = codes /\ raced' = raced
        /\ access_tokens' = access_tokens /\ refresh_tokens' = refresh_tokens
    BY <1>7 DEF RevokeAccess
  <2>3. /\ req[s].code \in DOMAIN codes
        /\ req[s].due \subseteq DirectAccess(req[s].code) \cup DirectRefresh(req[s].code)
        /\ Exchanged(req[s].code) => req[s].due \subseteq {req[s].at, req[s].rt}
    BY <1>0, <2>1 DEF Revoking, Replaying
  <2>4. /\ (DirectAccess(req[s].code) \cup DirectRefresh(req[s].code))'
             = DirectAccess(req[s].code) \cup DirectRefresh(req[s].code)
        /\ Exchanged(req[s].code)' => Exchanged(req[s].code)
    BY <2>1, <2>2 DEF DirectAccess, DirectRefresh, Exchanged, SameCall
  <2>5. req[s].at # NoToken => req[s].at \in AccessIds /\ req[s].at \in DOMAIN revoked'
    BY <1>0, <1>7 DEF RevokeAccess, Put, TypeOK, Request
  <2> QED
    BY <2>1, <2>2, <2>3, <2>4, <2>5 DEF SameCall, Dead
<1> QED
  BY <1>0, <1>2, <1>3, <1>4, <1>5, <1>6, <1>7 DEF Moved, Replaying

\* What a completed replay killed stays dead, and what it kills is dead.
LEMMA RevokedStep ==
  ASSUME LineageInv, ReplayInv, RowsKept, Effects
  PROVE  ReplayRevokes'
<1>0. TypeOK
  BY DEF LineageInv
<1>1. ASSUME NEW x \in DOMAIN access_tokens \cup DOMAIN refresh_tokens
      PROVE  /\ RootOf(x)' = RootOf(x) /\ RootOf(x) \in DOMAIN codes
             /\ codes'[RootOf(x)].pre = codes[RootOf(x)].pre
  <2>1. RootOf(x)' = RootOf(x)
    BY <1>0 DEF RootOf, RowsKept, SameRefresh, TypeOK
  <2>2. RootOf(x) \in DOMAIN codes
    BY <1>0 DEF RootOf, LineageInv, GrantLineage, Lineage, TypeOK
  <2> QED
    BY <2>1, <2>2 DEF RowsKept, SameCode
<1>2. ASSUME NEW x \in killed
      PROVE  RootOf(x)' \in raced' \/ codes'[RootOf(x)'].pre \/ Dead(x)'
  <2>1. x \in DOMAIN access_tokens \cup DOMAIN refresh_tokens
    BY DEF ReplayInv, StoreInv
  <2>2. RootOf(x) \in raced \/ codes[RootOf(x)].pre \/ Dead(x)
    BY DEF ReplayInv, ReplayRevokes
  <2>3. Dead(x) => Dead(x)'
    BY <2>1, DeadKept DEF ReplayInv
  <2> QED
    BY <1>1, <2>1, <2>2, <2>3 DEF Effects
<1>3. ASSUME NEW r \in Requests, RevokeRefresh(r), NEW x \in req[r].due
      PROVE  RootOf(x)' \in raced' \/ codes'[RootOf(x)'].pre \/ Dead(x)'
  <2>1. req[r].pc = "revoke_refresh" /\ Replaying(req[r]) /\ Revoking(req[r]) /\ Holding(req[r])
    BY <1>3 DEF RevokeRefresh, Replaying, ReplayInv
  <2>2. PICK c \in DOMAIN codes : c = req[r].code
    BY <2>1 DEF Revoking
  <2>3. x \in DirectAccess(c) \cup DirectRefresh(c)
    BY <2>1, <2>2 DEF Revoking
  <2>4. x \in DOMAIN access_tokens \cup DOMAIN refresh_tokens /\ RootOf(x) = c
    BY <1>0, <2>3 DEF DirectAccess, DirectRefresh, RootOf, TypeOK
  <2>5. CASE ~Exchanged(c)
    BY <1>1, <2>2, <2>4, <2>5 DEF Exchanged, Effects
  <2>6. CASE Exchanged(c) /\ x = req[r].at
    <3>1. Dead(x)
      BY <1>0, <2>1, <2>4, <2>6 DEF Revoking, TypeOK
    <3> QED
      BY <2>4, <3>1, DeadKept DEF ReplayInv
  <2>7. CASE Exchanged(c) /\ x = req[r].rt
    <3>1. x # NoToken
      BY <1>0, <2>4 DEF TypeOK
    <3>2. x \in DOMAIN refresh_tokens /\ x \notin AccessIds
      BY <1>0, <2>1, <2>7, <3>1 DEF Holding, Names, TypeOK
    <3>3. refresh_tokens' = [refresh_tokens EXCEPT ![x].consumed = TRUE]
      BY <1>3, <2>7, <3>1 DEF RevokeRefresh
    <3>4. refresh_tokens'[x].consumed
      BY <1>0, <3>2, <3>3, RefreshConsumed
    <3> QED
      BY <3>2, <3>4 DEF Dead
  <2> QED
    BY <2>1, <2>2, <2>5, <2>6, <2>7 DEF Revoking
<1>4. killed' = killed \/ \E r \in Requests : RevokeRefresh(r) /\ killed' = killed \cup req[r].due
  BY DEF Effects, RevokeRefresh
<1> QED
  BY <1>2, <1>3, <1>4 DEF ReplayRevokes

\* The empty stores satisfy ReplayInv.
LEMMA ReplayInit == Init => ReplayInv
<1> SUFFICES ASSUME Init PROVE ReplayInv
  OBVIOUS
<1>1. /\ DOMAIN codes = {} /\ DOMAIN refresh_tokens = {} /\ DOMAIN revoked = {}
      /\ DOMAIN access_tokens = {} /\ delivered = {} /\ killed = {}
  BY DEF Init
<1>2. \A r \in Requests : /\ req[r].pc = "idle" /\ req[r].at = NoToken /\ req[r].rt = NoToken
  BY DEF Init, Idle
<1> QED
  BY <1>1, <1>2 DEF ReplayInv, StoreInv, Holding, Names, Redeeming, Answering, Revoking,
     Replaying, Recorded, Exchanged, ReplayRevokes

\* ReplayInv is inductive, on top of the two invariants above.
LEMMA ReplayStep ==
  ASSUME LineageInv, UseInv, ReplayInv, [Next]_vars
  PROVE  ReplayInv'
<1>1. RowsKept /\ Effects
  BY StepKeepsRows, StepEffects DEF LineageInv
<1>2. StoreInv' /\ ReplayRevokes'
  BY <1>1, StoreStep, RevokedStep
<1>3. \A r \in Requests : Holding(req[r])' /\ Answering(req[r])' /\ Revoking(req[r])'
  BY <1>1, HoldingStep, AnsweringStep, RevokingStep
<1>4. \A c \in Codes : Recorded(c)'
  BY <1>1, RecordedStep
<1> QED
  BY <1>2, <1>3, <1>4 DEF ReplayInv

LEMMA ReplayAlways == Spec => [](LineageInv /\ UseInv /\ ReplayInv)
<1>1. Init => LineageInv /\ UseInv /\ ReplayInv
  BY LineageInit, UseInit, ReplayInit
<1>2. LineageInv /\ UseInv /\ ReplayInv /\ [Next]_vars => (LineageInv /\ UseInv /\ ReplayInv)'
  BY LineageStep, UseStep, ReplayStep
<1> QED
  BY <1>1, <1>2, PTL DEF Spec

\* Once a call presenting a consumed code has completed, the tokens clients had
\* received from the exchange are dead for good, whatever aborts or is purged.
THEOREM ReplayHolds == Spec => []ReplayRevokes
<1>1. ReplayInv => ReplayRevokes
  BY DEF ReplayInv
<1> QED
  BY <1>1, ReplayAlways, PTL
--------------------------------------------------------------------------------
(* The endpoint implements a store of single-use grants.                    *)

\* What clients hold from the exchange of a code.
Out(c) == DirectAccess(c) \cap delivered

LEMMA InitAbstract == Init => Abstract!Init
BY DEF Init, Abstract!Init, Phase, DirectAccess

\* A step that answers nothing and moves one code at most is that move, or none.
LEMMA Moves ==
  ASSUME NEW c \in Codes,
         \A d \in Codes : Out(d)' = Out(d),
         \A d \in Codes : d # c => Phase(d)' = Phase(d),
         \/ Phase(c)' = Phase(c)
         \/ Phase(c) = "none" /\ Phase(c)' = "live"
         \/ Phase(c) = "live" /\ Phase(c)' \in {"spent", "raced"}
  PROVE  [Abstract!Next]_(Abstract!vars)
<1>1. [d \in Codes |-> DirectAccess(d) \cap delivered]'
        = [d \in Codes |-> DirectAccess(d) \cap delivered]
  BY DEF Out
<1>2. [d \in Codes |-> Phase(d)]' = [[d \in Codes |-> Phase(d)] EXCEPT ![c] = Phase(c)']
  OBVIOUS
<1>3. CASE Phase(c)' = Phase(c)
  <2>1. [d \in Codes |-> Phase(d)]' = [d \in Codes |-> Phase(d)]
    BY <1>2, <1>3
  <2> QED
    BY <1>1, <2>1 DEF Abstract!vars
<1>4. CASE Phase(c) = "none" /\ Phase(c)' = "live"
  <2>1. Abstract!Move(c, "none", "live")
    BY <1>1, <1>2, <1>4 DEF Abstract!Move
  <2> QED
    BY <2>1 DEF Abstract!Next
<1>5. CASE Phase(c) = "live" /\ Phase(c)' = "spent"
  <2>1. Abstract!Move(c, "live", "spent")
    BY <1>1, <1>2, <1>5 DEF Abstract!Move
  <2> QED
    BY <2>1 DEF Abstract!Next
<1>6. CASE Phase(c) = "live" /\ Phase(c)' = "raced"
  <2>1. Abstract!Move(c, "live", "raced")
    BY <1>1, <1>2, <1>6 DEF Abstract!Move
  <2> QED
    BY <2>1 DEF Abstract!Next
<1> QED
  BY <1>3, <1>4, <1>5, <1>6

\* A step that moves no code and answers nothing is a stutter.
LEMMA Stutters ==
  ASSUME \A d \in Codes : Out(d)' = Out(d) /\ Phase(d)' = Phase(d)
  PROVE  UNCHANGED Abstract!vars
<1>1. [d \in Codes |-> DirectAccess(d) \cap delivered]'
        = [d \in Codes |-> DirectAccess(d) \cap delivered]
  BY DEF Out
<1>2. [d \in Codes |-> Phase(d)]' = [d \in Codes |-> Phase(d)]
  OBVIOUS
<1> QED
  BY <1>1, <1>2 DEF Abstract!vars

\* Signing a token gives nobody a token: only an answer does.
LEMMA OutKept ==
  ASSUME LineageInv, ReplayInv, RowsKept, [Next]_vars, delivered' = delivered
  PROVE  \A d \in Codes : Out(d)' = Out(d)
<1> SUFFICES ASSUME NEW d \in Codes, NEW x \in delivered
             PROVE  x \in DirectAccess(d)' <=> x \in DirectAccess(d)
  BY DEF Out
<1>1. x \in DOMAIN access_tokens \cup DOMAIN refresh_tokens
  BY DEF ReplayInv, StoreInv
<1>2. DOMAIN refresh_tokens \subseteq RefreshIds /\ DOMAIN access_tokens' \subseteq AccessIds
  <2>1. TypeOK'
    BY StepType DEF LineageInv
  <2> QED
    BY <2>1 DEF LineageInv, TypeOK
<1>3. x \in DOMAIN access_tokens' => x \in DOMAIN access_tokens
  BY <1>1, <1>2
<1> QED
  BY <1>3 DEF DirectAccess, RowsKept

\* The answer to an exchange is the first of its code, unless the code was raced.
LEMMA RespondAnswers ==
  ASSUME LineageInv, UseInv, ReplayInv, NEW r \in Requests, Respond(r)
  PROVE  [Abstract!Next]_(Abstract!vars)
<1> DEFINE c == req[r].code
           a == req[r].at
<1>0. TypeOK
  BY DEF LineageInv
<1>1. /\ req[r].pc = "respond" /\ codes' = codes /\ access_tokens' = access_tokens
      /\ raced' = raced /\ delivered' = delivered \cup ({a, req[r].rt} \ {NoToken})
  BY DEF Respond
<1>2. /\ a \in DOMAIN access_tokens /\ a # NoToken
      /\ access_tokens[a].root = c /\ access_tokens[a].parent = req[r].refresh
  BY <1>0, <1>1 DEF ReplayInv, Holding, TypeOK
<1>3. c \in DOMAIN codes /\ c \in Codes
  BY <1>0, <1>1 DEF LineageInv, RequestInv, InGrant, Redeeming, TypeOK
<1>4. \A d \in Codes : Phase(d)' = Phase(d) /\ DirectAccess(d)' = DirectAccess(d)
  BY <1>1 DEF Phase, DirectAccess
<1>5. \A d \in Codes : req[r].rt \notin DirectAccess(d)
  BY <1>0 DEF TypeOK, Request, DirectAccess
<1>6. \A d \in Codes : Out(d)' = Out(d) \cup (IF a \in DirectAccess(d) THEN {a} ELSE {})
  BY <1>1, <1>2, <1>4, <1>5 DEF Out
<1>7. \A d \in Codes : a \in DirectAccess(d) => d = c /\ req[r].refresh = NoToken
  BY <1>2 DEF DirectAccess
<1>8. CASE a \in Out(c) \/ a \notin DirectAccess(c)
  <2>1. ASSUME NEW d \in Codes PROVE Out(d)' = Out(d)
    <3>1. a \in DirectAccess(d) => a \in Out(d)
      BY <1>7, <1>8
    <3>2. Out(d)' = Out(d) \cup (IF a \in DirectAccess(d) THEN {a} ELSE {})
      BY <1>6
    <3> QED
      BY <3>1, <3>2
  <2> QED
    BY <1>4, <2>1, Stutters
<1>9. CASE a \notin Out(c) /\ a \in DirectAccess(c)
  <2>1. req[r].refresh = NoToken
    BY <1>3, <1>7, <1>9
  <2>2. codes[c].consumed
    <3>1. Redeems(req[r], Support(req[r])) /\ Support(req[r]) = c
      BY <1>1, <2>1 DEF Redeems, Redeeming, Support
    <3>2. Consumed(c)
      BY <1>1, <3>1 DEF UseInv, RedeemInv
    <3> QED
      BY <1>3, <3>2 DEF Consumed
  <2>3. c \notin raced => Out(c) = {}
    <3> SUFFICES ASSUME c \notin raced, NEW b \in Out(c) PROVE FALSE
      OBVIOUS
    <3>1. /\ b \in DOMAIN access_tokens /\ Source(access_tokens[b]) = c
          /\ Rotates(access_tokens[b])
      BY DEF Out, DirectAccess, Source, Rotates
    <3>2. Source(access_tokens[a]) = c /\ Rotates(access_tokens[a])
      BY <1>2, <2>1 DEF Source, Rotates
    <3>3. a = b
      BY <1>2, <3>1, <3>2 DEF UseInv, SingleUseUnlessRaced
    <3> QED
      BY <1>9, <3>3
  <2>4. Phase(c) = "raced" \/ (Phase(c) = "spent" /\ Out(c) = {})
    BY <1>3, <2>2, <2>3 DEF Phase
  <2>5. [d \in Codes |-> DirectAccess(d) \cap delivered]'
          = [[d \in Codes |-> DirectAccess(d) \cap delivered] EXCEPT ![c] = @ \cup {a}]
    <3>1. \A d \in Codes : Out(d)' = IF d = c THEN Out(c) \cup {a} ELSE Out(d)
      BY <1>6, <1>7, <1>9
    <3> QED
      BY <1>3, <3>1 DEF Out
  <2>6. [d \in Codes |-> Phase(d)]' = [d \in Codes |-> Phase(d)]
    BY <1>4
  <2>7. Abstract!Answer(c, a)
    <3> HIDE DEF c, a
    <3>1. /\ [d \in Codes |-> Phase(d)][c] = Phase(c)
          /\ [d \in Codes |-> DirectAccess(d) \cap delivered][c] = Out(c)
      BY <1>3 DEF Out
    <3> QED
      BY <2>4, <2>5, <2>6, <3>1 DEF Abstract!Answer
  <2> QED
    BY <1>0, <1>2, <1>3, <2>7 DEF Abstract!Next, TypeOK
<1> QED
  BY <1>8, <1>9

\* Every step is a step of the single-use grant, or none.
LEMMA StepAbstract ==
  ASSUME LineageInv, UseInv, ReplayInv, [Next]_vars
  PROVE  [Abstract!Next]_(Abstract!vars)
<1>0. TypeOK /\ RowInv /\ RowsKept /\ DOMAIN codes \subseteq Codes
  BY StepKeepsRows DEF LineageInv, TypeOK
<1>1. delivered' = delivered => \A d \in Codes : Out(d)' = Out(d)
  BY <1>0, OutKept
<1>2. ASSUME NEW c \in Codes, NEW g \in Grants, Issue(c, g)
      PROVE  [Abstract!Next]_(Abstract!vars)
  <2>1. /\ c \notin DOMAIN codes /\ DOMAIN codes' = DOMAIN codes \cup {c} /\ ~codes'[c].consumed
        /\ \A d \in DOMAIN codes : codes'[d] = codes[d]
        /\ raced' = raced /\ delivered' = delivered
    BY <1>2 DEF Issue, Put
  <2>2. \A d \in Codes : d # c => Phase(d)' = Phase(d)
    BY <2>1 DEF Phase
  <2>3. Phase(c) = "none" /\ Phase(c)' = "live"
    BY <2>1 DEF Phase, UseInv, RedeemInv
  <2> QED
    BY <1>1, <2>1, <2>2, <2>3, Moves
<1>3. ASSUME NEW r \in Requests, NEW c \in DOMAIN codes, NEW client \in Clients,
             NEW res \in SUBSET Resources, NEW proof \in Keys \cup {NoKey},
             NEW cert \in Certs \cup {NoCert}, Begin(r, c, client, res, proof, cert)
      PROVE  [Abstract!Next]_(Abstract!vars)
  <2>1. /\ codes' = codes /\ delivered' = delivered /\ ~codes[c].consumed
        /\ raced \subseteq raced' /\ raced' \subseteq raced \cup {c}
    BY <1>3 DEF Begin, Race, Redeemable
  <2>2. \A d \in Codes : d # c => Phase(d)' = Phase(d)
    BY <2>1 DEF Phase
  <2>3. Phase(c)' = Phase(c) \/ (Phase(c) = "live" /\ Phase(c)' \in {"spent", "raced"})
    BY <2>1 DEF Phase
  <2>4. c \in Codes
    BY <1>0
  <2> QED
    BY <1>1, <2>1, <2>2, <2>3, <2>4, Moves
<1>4. ASSUME NEW r \in Requests, ConsumeCode(r) \/ Record(r)
      PROVE  [Abstract!Next]_(Abstract!vars)
  <2>1. PICK c \in DOMAIN codes : c = req[r].code
    BY <1>4 DEF LineageInv, RequestInv, InGrant, Redeeming, ConsumeCode, Record
  <2>2. raced' = raced /\ delivered' = delivered
    BY <1>4 DEF ConsumeCode, Record
  <2>3. /\ DOMAIN codes' = DOMAIN codes /\ codes'[c].consumed
        /\ \A d \in DOMAIN codes : d # c => codes'[d] = codes[d]
    <3>1. CASE ConsumeCode(r)
      <4>1. codes' = [codes EXCEPT ![c].consumed = TRUE]
        BY <2>1, <3>1 DEF ConsumeCode
      <4> QED
        BY <1>0, <4>1, CodeConsumed
    <3>2. CASE Record(r)
      BY <1>0, <2>1, <3>2, CodeRecorded
    <3> QED
      BY <1>4, <3>1, <3>2
  <2>4. \A d \in Codes : d # c => Phase(d)' = Phase(d)
    BY <2>2, <2>3 DEF Phase
  <2>5. Phase(c)' = Phase(c) \/ (Phase(c) = "live" /\ Phase(c)' \in {"spent", "raced"})
    BY <2>2, <2>3 DEF Phase
  <2>6. c \in Codes
    BY <1>0
  <2> QED
    BY <1>1, <2>2, <2>4, <2>5, <2>6, Moves
<1>5. ASSUME codes' = codes, raced' \cap Codes = raced \cap Codes, delivered' = delivered
      PROVE  [Abstract!Next]_(Abstract!vars)
  <2>1. \A d \in Codes : Phase(d)' = Phase(d)
    BY <1>5 DEF Phase
  <2> QED
    BY <1>1, <1>5, <2>1, Stutters
<1>6. ASSUME NEW r \in Requests, NEW t \in DOMAIN refresh_tokens, NEW scopes \in SUBSET Scopes,
             NEW res \in SUBSET Resources, NEW proof \in Keys \cup {NoKey},
             NEW cert \in Certs \cup {NoCert}, RefreshStart(r, t, scopes, res, proof, cert)
      PROVE  [Abstract!Next]_(Abstract!vars)
  <2>1. codes' = codes /\ delivered' = delivered /\ raced' \in {raced, raced \cup {t}}
    BY <1>6 DEF RefreshStart, Race
  <2>2. t \notin Codes
    BY <1>0 DEF TypeOK
  <2> QED
    BY <1>5, <2>1, <2>2
<1>7. ASSUME NEW r \in Requests,
             \/ ConsumeRefresh(r) \/ RevokeAccess(r) \/ RevokeRefresh(r) \/ Abort(r)
             \/ \E t \in RefreshIds : MintRefresh(r, t)
             \/ \E a \in AccessIds : MintAccess(r, a)
             \/ \E c \in DOMAIN codes : ReplayStart(r, c)
      PROVE  [Abstract!Next]_(Abstract!vars)
  <2>1. codes' = codes /\ raced' = raced /\ delivered' = delivered
    BY <1>7 DEF ConsumeRefresh, RevokeAccess, RevokeRefresh, Abort, MintRefresh, MintAccess,
       ReplayStart
  <2> QED
    BY <1>5, <2>1
<1>8. CASE PurgeExpired \/ Tick \/ UNCHANGED vars
  BY <1>5, <1>8 DEF PurgeExpired, Tick, vars
<1> QED
  BY <1>0, <1>2, <1>3, <1>4, <1>6, <1>7, <1>8, RespondAnswers, Cases

\* Seen through its codes, the token endpoint is a store of single-use grants: no
\* interleaving of lookups, consumptions, records and answers lets a code that was
\* not raced yield a second access token.
THEOREM SingleUseRefined == Spec => ImplementsSingleUse
BY InitAbstract, StepAbstract, ReplayAlways, PTL DEF Spec, ImplementsSingleUse, Abstract!Spec
================================================================================
