--------------------------------- MODULE CibaMC --------------------------------
(* Small instances of Ciba for TLC.                                         *)
EXTENDS Ciba, TLC

Symmetry == Permutations(Polls) \cup Permutations(Approvals) \cup Permutations(TokenIds)

RegisteredAs(mode) ==
  [active |-> TRUE, bound |-> FALSE, signing_alg |-> "", scopes |-> {"openid", "a"},
   mode |-> mode, binding_limit |-> -1]

MCClient ==
  "poller" :> RegisteredAs("poll") @@ "pinged" :> RegisteredAs("ping")
  @@ "pushed" :> [RegisteredAs("push") EXCEPT !.binding_limit = 0, !.bound = TRUE]
  @@ "signer" :> [RegisteredAs("ping") EXCEPT !.signing_alg = "ES256"]
  @@ "closed" :> [RegisteredAs("ping") EXCEPT !.active = FALSE]
  @@ "other" :> RegisteredAs("")
MCAccount == "u1" :> {"ada@x", "ada"} @@ "u2" :> {"bob@x"}

\* What a client sends that gets everything right.
Plain ==
  [scope |-> {"openid"}, login_hint |-> [NoHint EXCEPT !.names = <<"ada">>],
   login_hint_token |-> NoHint, id_token_hint |-> NoHint, binding_message |-> 0,
   resource |-> {}, client_notification_token |-> "token68", requested_expiry |-> -1]

Demand(c) ==
  [client |-> c, assertion |-> "", authenticated |-> TRUE, certificate |-> TRUE,
   request_uri |-> FALSE, user_code |-> "", object |-> NoObject, form |-> Plain]

Signed(c, claims) == [iss |-> c, verifies |-> TRUE, alg |-> "ES256", claims |-> claims]

Variants ==
  LET form(p, v) == [Plain EXCEPT ![p] = v]
      hint(by, names) == [by |-> by, expired |-> FALSE, names |-> names]
  IN {Plain, form("scope", {"a"}), form("scope", {"openid", "a"}), form("scope", {"openid", "b"}),
      form("login_hint", NoHint), form("login_hint", hint("", <<"u2">>)),
      form("login_hint", hint("", <<"eve">>)),
      form("login_hint_token", hint("pinged", <<"eve", "bob@x">>)),
      form("binding_message", 1), form("binding_message", 9), form("resource", {"r"}),
      form("resource", {"r", "s"}), form("client_notification_token", ""),
      form("requested_expiry", 0), form("requested_expiry", 1), form("requested_expiry", 9)}
     \cup {[Plain EXCEPT !.login_hint = NoHint, ![h] = t] :
            h \in {"login_hint_token", "id_token_hint"},
            t \in {hint("pinged", <<"eve", "bob@x">>), hint("pinged", <<"u1">>), hint("poller", <<"u1">>),
                   [hint("pinged", <<"u1">>) EXCEPT !.expired = TRUE]}}

MCDemands ==
  {[Demand(c) EXCEPT !.form = v] : c \in DOMAIN MCClient, v \in Variants}
  \cup {[Demand("pushed") EXCEPT !.certificate = FALSE], [Demand("pinged") EXCEPT !.authenticated = FALSE],
        [Demand("pinged") EXCEPT !.user_code = "short"], [Demand("pinged") EXCEPT !.request_uri = TRUE],
        [Demand("") EXCEPT !.assertion = "poller"], Demand("")}
  \cup {[Demand(c) EXCEPT !.form = v, !.object = Signed(iss, [p \in ps |-> Plain[p]])] :
         c \in {"", "signer", "pinged"}, iss \in {"signer", "closed"}, v \in Variants,
         ps \in {{}, {"scope", "login_hint"}, {"requested_expiry", "resource"}}}

--------------------------------------------------------------------------------
(* What the checks on a request are for, over these requests.              *)

\* A lifetime is between the floor and ttl_seconds, and what was asked for where
\* that is between them; the floor itself never exceeds ttl_seconds.
ASSUME TtlWithinBounds ==
  \A r \in -1 .. 6, t \in 1 .. 4, least \in 0 .. 5 :
    LET l == ResolveTtl(r, t, least)
    IN IF r <= 0 THEN l = 0
       ELSE l \in 1 .. t /\ (l >= least \/ l = t) /\ (r \in least .. t => l = r)

\* The user of an accepted request is named by exactly one hint, signed for this
\* client if it is signed at all; a client that signs its requests is not
\* accepted without an object of its own.
ASSUME AcceptedForTheClient ==
  \A d \in MCDemands : Accepted(d) =>
    LET c == ClientId(d)
        m == Merged(d)
    IN /\ \E h \in Hints :
            /\ \A k \in Hints : (m[k] # NoHint) <=> k = h
            /\ m[h].by \in {c} \cup (IF h = "login_hint" THEN {""} ELSE {})
       /\ ResolveSubject(c, m) \in DOMAIN MCAccount
       /\ Client[c].signing_alg # "" => d.object.iss = c /\ d.object.verifies
================================================================================
