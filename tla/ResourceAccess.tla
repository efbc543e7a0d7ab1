----------------------------- MODULE ResourceAccess -----------------------------
(***************************************************************************)
(* Presenting an access token: /introspect, /userinfo and the protected    *)
(* resource validate the JWT, consult the denylist that /revoke and a      *)
(* replayed code fill, and for a token bound to a DPoP key check the proof *)
(* against the store of the jti already presented (RFC 9449).              *)
(*                                                                         *)
(* Both stores forget: an entry is purged once its expiry has passed.  A   *)
(* call reads the clock, the denylist and the jti store at different       *)
(* moments, and other calls write and purge in between.                    *)
(***************************************************************************)
EXTENDS Integers

CONSTANTS
  Tokens, NoToken, Exp, \* access tokens signed by the server, and their exp claims
  Keys, NoKey,
  BoundKey,         \* token -> its cnf.jkt, or NoKey
  Proofs, NoProof,  \* DPoP proofs, one jti each
  Ath, Jkt, Iat,    \* proof -> the token of its ath claim, its key, its iat claim
  Calls,            \* slots for presentations in progress
  Revocations,      \* slots for calls of /revoke in progress
  Skew,             \* DPOP_IAT_SKEW_SECONDS
  MaxTime           \* bound on the clock

ASSUME TokenAssumption ==
  /\ NoKey \notin Keys /\ NoProof \notin Proofs /\ NoToken \notin Tokens
  /\ Exp \in [Tokens -> Nat] /\ BoundKey \in [Tokens -> Keys \cup {NoKey}]

ASSUME ProofAssumption ==
  /\ Ath \in [Proofs -> Tokens] /\ Jkt \in [Proofs -> Keys] /\ Iat \in [Proofs -> Nat]
  /\ Skew \in Nat /\ MaxTime \in Nat

VARIABLES
  now,
  denylist,    \* token -> expiry of the entry
  replays,     \* proof (its jti) -> expiry of the entry
  call,        \* the presentations in progress
  revocation,  \* the calls of /revoke in progress
  confirmed,   \* history: tokens in force whose revocation was answered
  served,      \* the last answer that called a token active: was its revocation
               \* known before the call, was the token still in force
  accepted,    \* history: proofs that authorized a call
  reused,      \* history: proofs that authorized another
  excused      \* history: proofs raced, or looked up when their window had closed

vars == <<now, denylist, replays, call, revocation, confirmed, served, accepted, reused, excused>>

--------------------------------------------------------------------------------
(* State.                                                                   *)

\* known: the token's revocation had been answered when the call began.
\* until: the expiry of the jti entry, computed when the proof was checked.
Call == [pc : {"idle", "denylist", "lookup", "save", "purge"}, introspect : BOOLEAN,
         tok : Tokens \cup {NoToken}, proof : Proofs \cup {NoProof}, known : BOOLEAN, until : Nat]
CallIdle == [pc |-> "idle", introspect |-> FALSE, tok |-> NoToken,
             proof |-> NoProof, known |-> FALSE, until |-> 0]

Revocation == [pc : {"idle", "validate", "save"}, tok : Tokens \cup {NoToken}]
RevocationIdle == [pc |-> "idle", tok |-> NoToken]

Put(f, k, v) == [x \in DOMAIN f \cup {k} |-> IF x = k THEN v ELSE f[x]]

\* purge_expired of both stores.
Purged(f) == [x \in {y \in DOMAIN f : f[y] > now} |-> f[x]]

Init ==
  /\ now = 0
  /\ denylist = [t \in {} |-> 0]
  /\ replays = [p \in {} |-> 0]
  /\ call = [c \in Calls |-> CallIdle]
  /\ revocation = [v \in Revocations |-> RevocationIdle]
  /\ confirmed = {}
  /\ served = [known |-> FALSE, live |-> FALSE]
  /\ accepted = {}
  /\ reused = {}
  /\ excused = {}

\* validate_access_token: the signature, the issuer and exp.
InForce(t) == now < Exp[t]

\* _check_timestamps: iat within the skew, on either side.
InWindow(p) == Iat[p] - Skew <= now /\ now <= Iat[p] + Skew

--------------------------------------------------------------------------------
(* Revoking: /revoke, and the replay of a code.                             *)

RevokeStart(v, t) ==
  /\ revocation[v].pc = "idle"
  /\ denylist' = Purged(denylist)
  /\ revocation' = [revocation EXCEPT ![v] = [pc |-> "validate", tok |-> t]]
  /\ UNCHANGED <<now, replays, call, confirmed, served, accepted, reused, excused>>

\* An expired token is a success without effect.
RevokeValidate(v) ==
  /\ revocation[v].pc = "validate"
  /\ revocation' = [revocation EXCEPT ![v] =
       IF InForce(@.tok) THEN [@ EXCEPT !.pc = "save"] ELSE RevocationIdle]
  /\ UNCHANGED <<now, denylist, replays, call, confirmed, served, accepted, reused, excused>>

\* Faulty variant: the entry is dated with the moment of the revocation.
RevokeSaveNow(v) ==
  /\ revocation[v].pc = "save"
  /\ denylist' = Put(denylist, revocation[v].tok, now)
  /\ confirmed' = confirmed \cup {revocation[v].tok}
  /\ revocation' = [revocation EXCEPT ![v] = RevocationIdle]
  /\ UNCHANGED <<now, replays, call, served, accepted, reused, excused>>

RevokeSave(v) ==
  /\ revocation[v].pc = "save"
  /\ denylist' = Put(denylist, revocation[v].tok, Exp[revocation[v].tok])
  /\ confirmed' = confirmed \cup {revocation[v].tok}
  /\ revocation' = [revocation EXCEPT ![v] = RevocationIdle]
  /\ UNCHANGED <<now, replays, call, served, accepted, reused, excused>>

\* _revoke_issued_tokens writes the entry from the code's row, expired or not.
RevokeIssued(t) ==
  /\ denylist' = Put(denylist, t, Exp[t])
  /\ confirmed' = confirmed \cup {t}
  /\ UNCHANGED <<now, replays, call, revocation, served, accepted, reused, excused>>

--------------------------------------------------------------------------------
(* Presenting a token.                                                      *)

\* _validate_dpop_binding asks nothing of an unbound token; /introspect never.
Unbound(t, introspect) == introspect \/ BoundKey[t] = NoKey

\* The JWT is valid.  A proof that will not be asked for is ignored.
Present(c, t, p, introspect) ==
  /\ call[c].pc = "idle"
  /\ InForce(t)
  /\ Unbound(t, introspect) => p = NoProof
  /\ call' = [call EXCEPT ![c] = [pc |-> "denylist", introspect |-> introspect, tok |-> t,
                                  proof |-> p, known |-> t \in confirmed, until |-> 0]]
  /\ UNCHANGED <<now, denylist, replays, revocation, confirmed, served, accepted, reused, excused>>

Answer(c) == served' = [known |-> call[c].known, live |-> InForce(call[c].tok)]

\* Faulty variant: the entry lives one skew, not two.
UntilOneSkew == now + Skew

\* The jti is kept for the whole window, whichever end of it iat is at.
Until == now + 2 * Skew

\* A bound token needs a proof for it (ath) with an iat in the window.
ProofFits(q) == q.proof # NoProof /\ Ath[q.proof] = q.tok /\ InWindow(q.proof)

\* The denylist is read: the token is listed, or comes without a fitting proof;
Refuse(c) ==
  /\ call[c].pc = "denylist"
  /\ call[c].tok \in DOMAIN denylist \/ ~(Unbound(call[c].tok, call[c].introspect) \/ ProofFits(call[c]))
  /\ call' = [call EXCEPT ![c] = CallIdle]
  /\ UNCHANGED <<now, denylist, replays, revocation, confirmed, served, accepted, reused, excused>>

\* or nothing more is asked of it;
AnswerUnbound(c) ==
  /\ call[c].pc = "denylist"
  /\ call[c].tok \notin DOMAIN denylist /\ Unbound(call[c].tok, call[c].introspect)
  /\ Answer(c)
  /\ call' = [call EXCEPT ![c] = CallIdle]
  /\ UNCHANGED <<now, denylist, replays, revocation, confirmed, accepted, reused, excused>>

\* or its proof is in order and remains to be looked up.
CheckProof(c) ==
  /\ call[c].pc = "denylist"
  /\ call[c].tok \notin DOMAIN denylist /\ ~Unbound(call[c].tok, call[c].introspect) /\ ProofFits(call[c])
  /\ call' = [call EXCEPT ![c].pc = "lookup", ![c].until = Until]
  /\ UNCHANGED <<now, denylist, replays, revocation, confirmed, served, accepted, reused, excused>>

\* is_used.  A proof is excused when another call has looked it up and not saved
\* it yet, or when its window is closing or closed by the time of the lookup.
Lookup(c) ==
  LET p == call[c].proof IN
  /\ call[c].pc = "lookup"
  /\ call' = [call EXCEPT ![c] = IF p \in DOMAIN replays THEN CallIdle
                                 ELSE [@ EXCEPT !.pc = "save"]]
  /\ excused' = IF \/ \E d \in Calls : call[d].pc = "save" /\ call[d].proof = p
                   \/ now >= Iat[p] + Skew
                THEN excused \cup {p} ELSE excused
  /\ UNCHANGED <<now, denylist, replays, revocation, confirmed, served, accepted, reused>>

SaveJti(c) ==
  /\ call[c].pc = "save"
  /\ replays' = Put(replays, call[c].proof, call[c].until)
  /\ call' = [call EXCEPT ![c].pc = "purge"]
  /\ UNCHANGED <<now, denylist, revocation, confirmed, served, accepted, reused, excused>>

\* The purge that ends validate, then the comparison of the keys.
Accept(c) ==
  /\ call[c].pc = "purge"
  /\ replays' = Purged(replays)
  /\ IF Jkt[call[c].proof] = BoundKey[call[c].tok]
     THEN /\ Answer(c)
          /\ accepted' = accepted \cup {call[c].proof}
          /\ reused' = reused \cup (accepted \cap {call[c].proof})
     ELSE UNCHANGED <<served, accepted, reused>>
  /\ call' = [call EXCEPT ![c] = CallIdle]
  /\ UNCHANGED <<now, denylist, revocation, confirmed, excused>>

--------------------------------------------------------------------------------
(* The environment.                                                         *)

AbortCall(c) ==
  /\ call[c].pc # "idle"
  /\ call' = [call EXCEPT ![c] = CallIdle]
  /\ UNCHANGED <<now, denylist, replays, revocation, confirmed, served, accepted, reused, excused>>

AbortRevocation(v) ==
  /\ revocation[v].pc # "idle"
  /\ revocation' = [revocation EXCEPT ![v] = RevocationIdle]
  /\ UNCHANGED <<now, denylist, replays, call, confirmed, served, accepted, reused, excused>>

Tick ==
  /\ now < MaxTime
  /\ now' = now + 1
  /\ UNCHANGED <<denylist, replays, call, revocation, confirmed, served, accepted, reused, excused>>

Presentation(c) ==
  \/ \E t \in Tokens, p \in Proofs \cup {NoProof}, introspect \in BOOLEAN :
       Present(c, t, p, introspect)
  \/ Refuse(c) \/ AnswerUnbound(c) \/ CheckProof(c) \/ Lookup(c) \/ SaveJti(c) \/ Accept(c) \/ AbortCall(c)

Revoking(v) ==
  \/ \E t \in Tokens : RevokeStart(v, t)
  \/ RevokeValidate(v) \/ RevokeSave(v) \/ AbortRevocation(v)

Next ==
  \/ \E c \in Calls : Presentation(c)
  \/ \E v \in Revocations : Revoking(v)
  \/ \E t \in Tokens : RevokeIssued(t)
  \/ Tick

Spec == Init /\ [][Next]_vars

--------------------------------------------------------------------------------
(* Properties.                                                              *)

TypeOK ==
  /\ now \in Nat
  /\ DOMAIN denylist \subseteq Tokens /\ \A t \in DOMAIN denylist : denylist[t] \in Nat
  /\ DOMAIN replays \subseteq Proofs /\ \A p \in DOMAIN replays : replays[p] \in Nat
  /\ call \in [Calls -> Call]
  /\ revocation \in [Revocations -> Revocation]
  /\ confirmed \subseteq Tokens
  /\ served \in [known : BOOLEAN, live : BOOLEAN]
  /\ reused \subseteq accepted /\ accepted \subseteq Proofs /\ excused \subseteq Proofs

\* Once /revoke, or the replay of a code, has answered, no call that begins later
\* is told the token is active while it is in force: the purge of the denylist
\* removes an entry only when exp itself refuses the token, even though exp and
\* the denylist are read at different moments.
RevokedNotServed == ~(served.known /\ served.live)

\* A proof authorizes one call: its jti stays in the store for as long as its iat
\* is acceptable, from either end of the window.  The exceptions are two calls
\* that look it up before either saves it, and a lookup made at the last instant
\* of the window or after it (the iat is checked before the store is read).
ProofSingleUse == reused \subseteq excused

--------------------------------------------------------------------------------
(* The inductive strengthenings of the two properties.                      *)

\* A call under way has a token and, once it was checked, a proof.
TypeInv ==
  /\ TypeOK
  /\ \A v \in Revocations : revocation[v].pc # "idle" => revocation[v].tok \in Tokens
  /\ \A c \in Calls :
       /\ call[c].pc # "idle" => call[c].tok \in Tokens
       /\ call[c].pc \in {"lookup", "save", "purge"} => call[c].proof \in Proofs

\* An entry is dated with the exp of its token, so that a confirmed revocation
\* is listed for as long as the token is in force.  A call that began after the
\* confirmation gets past the denylist only once exp has passed.
DenylistInv ==
  /\ \A t \in DOMAIN denylist : denylist[t] = Exp[t]
  /\ \A t \in confirmed : InForce(t) => t \in DOMAIN denylist
  /\ \A c \in Calls : call[c].pc # "idle" =>
       /\ call[c].known => call[c].tok \in confirmed
       /\ call[c].known /\ call[c].pc # "denylist" => ~InForce(call[c].tok)
  /\ RevokedNotServed

\* The call c has looked its proof up, not found it, and not ended yet.
Passed(c) == call[c].pc \in {"save", "purge"}

\* An entry outlives the window of its proof.  A proof whose jti was saved is in
\* the store until its window closes, and of the calls that got past the lookup
\* there is one at most, unless the proof is excused.
ReplayInv ==
  /\ \A c \in Calls : call[c].pc \in {"lookup", "save"} =>
       call[c].until >= Iat[call[c].proof] + Skew
  /\ \A p \in DOMAIN replays : replays[p] >= Iat[p] + Skew
  /\ \A p \in Proofs :
       p \in accepted \/ (\E c \in Calls : call[c].pc = "purge" /\ call[c].proof = p)
       => p \in DOMAIN replays \/ now >= Iat[p] + Skew
  /\ \A c \in Calls : Passed(c) /\ call[c].proof \notin excused =>
       /\ call[c].proof \notin accepted
       /\ \A d \in Calls : Passed(d) /\ call[d].proof = call[c].proof => d = c
  /\ ProofSingleUse
================================================================================
