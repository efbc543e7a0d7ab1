-------------------------- MODULE AuthorizationMC --------------------------
(* Instances of Authorization for TLC. *)
EXTENDS Authorization

CONSTANTS plain, asks, s1, s2, r1, k1

Request(client, scopes, prompt, max_age) ==
  [client |-> client, scopes |-> scopes, prompt |-> prompt, max_age |-> max_age,
   resource |-> {r1}, dpop_jkt |-> k1, code_challenge |-> "S256"]

Fresh == Request(plain, {s1}, {"login"}, -1)
Recent == Request(asks, {s1}, {}, 1)
Forced == Request(asks, {s2}, {"consent", "create"}, -1)

\* The client plain has no consent and must push; asks has consent: one scope
\* with a login at most 1 old, another with the form in any case and a new
\* account.
MCDirect == {Fresh, Recent}
MCPushed == {[Fresh EXCEPT !.dpop_jkt = NoKey], Forced}
=============================================================================
