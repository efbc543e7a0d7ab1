----------------------------- MODULE TokenGrantsMC -----------------------------
(* Small instances of TokenGrants for TLC.                                  *)
EXTENDS TokenGrants, TLC

CONSTANTS spa, fapi, offline, profile, api, k1

\* Few data and many interleavings: a rotating client, and a credential offer.
RaceGrants == {
  [client |-> spa, scopes |-> {offline}, resources |-> {}, jkt |-> NoKey, pre |-> FALSE],
  [client |-> NoClient, scopes |-> {}, resources |-> {}, jkt |-> NoKey, pre |-> TRUE] }

\* Many data and one call at a time: codes with and without a key and resources,
\* of a public client and of a FAPI2 client that uses mTLS.
LineageGrants == {
  [client |-> spa, scopes |-> {offline, profile}, resources |-> {api}, jkt |-> NoKey,
   pre |-> FALSE],
  [client |-> spa, scopes |-> {offline}, resources |-> {}, jkt |-> k1, pre |-> FALSE],
  [client |-> fapi, scopes |-> {offline}, resources |-> {api}, jkt |-> k1, pre |-> FALSE],
  [client |-> NoClient, scopes |-> {profile}, resources |-> {}, jkt |-> NoKey, pre |-> TRUE] }

Symmetry ==
  Permutations(Requests) \cup Permutations(AccessIds) \cup Permutations(RefreshIds)
================================================================================
