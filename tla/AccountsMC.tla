----------------------------- MODULE AccountsMC -----------------------------
(***************************************************************************)
(* The instance of Accounts: one user, two browsers and two clients.       *)
(***************************************************************************)
EXTENDS Accounts, FiniteSetsExt, TLC

Symmetry == Permutations(Browsers)

Word(length, special, steps) ==
  [length |-> length, uppercase |-> 1, lowercase |-> 1, digits |-> 1, special |-> special,
   common |-> FALSE, has_email |-> FALSE, row |-> FALSE, steps |-> steps]

\* Two that the policy accepts and one with a run of four.
MCPasswords ==
  {Word(12, 1, <<0, 1, 1, 0>>), Word(14, 2, <<1, 1, -1>>), Word(12, 1, <<0, 1, 1, 1>>)}

MCPolicy == [DefaultPolicy EXCEPT !.history_depth = 1]
\* c1 asks for more special characters; c2's maximum is below the minimum.
MCPatch == [c \in {"c1", "c2"} |-> IF c = "c1" THEN [min_special |-> 2] ELSE [max_length |-> 8]]
MCSessionLifetime == [c \in {"c1", "c2"} |-> IF c = "c1" THEN 4 ELSE 0]
MCPostLogout == [c \in {"c1", "c2"} |-> IF c = "c1" THEN {"u"} ELSE {}]

\* _has_alnum_run against its meaning: SequenceMinRun characters in a row, each
\* the successor of the one before it, or each its predecessor.
ASSUME RunsFound ==
  \A steps \in UNION {[1 .. n -> {-1, 0, 1}] : n \in 0 .. 7} :
    HasAlnumRun(steps) <=>
      \E i \in 1 .. Len(steps) - (SequenceMinRun - 2), d \in {-1, 1} :
        \A j \in i .. i + SequenceMinRun - 2 : steps[j] = d
=============================================================================
