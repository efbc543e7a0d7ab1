---------------------------- MODULE SingleUseGrant -----------------------------
(***************************************************************************)
(* What a store of single-use grants promises, without saying how: a grant *)
(* is issued, spent once, and after it is spent at most one token reaches  *)
(* a client for it.  The promise has one exception, which the code makes   *)
(* possible and this specification names: a live grant may be raced, two   *)
(* redemptions being under way at once, and then yields any number.        *)
(***************************************************************************)
CONSTANTS Items, Tokens

VARIABLES
  phase,   \* item -> none, live, spent or raced
  out      \* item -> the tokens clients hold for it

vars == <<phase, out>>

Phases == {"none", "live", "spent", "raced"}

TypeOK == phase \in [Items -> Phases] /\ out \in [Items -> SUBSET Tokens]

Init ==
  /\ phase = [i \in Items |-> "none"]
  /\ out = [i \in Items |-> {}]

Move(i, from, to) ==
  /\ phase[i] = from
  /\ phase' = [phase EXCEPT ![i] = to]
  /\ UNCHANGED out

Answer(i, tok) ==
  /\ \/ phase[i] = "spent" /\ out[i] = {}
     \/ phase[i] = "raced"
  /\ out' = [out EXCEPT ![i] = @ \cup {tok}]
  /\ UNCHANGED phase

Next ==
  \E i \in Items :
    \/ Move(i, "none", "live")
    \/ Move(i, "live", "spent")
    \/ Move(i, "live", "raced")
    \/ \E tok \in Tokens : Answer(i, tok)

Spec == Init /\ [][Next]_vars
================================================================================
