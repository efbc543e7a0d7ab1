--------------------------- MODULE PasswordPolicy ---------------------------
(***************************************************************************)
(* The password policy (domain/password_policy.py): its limits, the        *)
(* overrides of a client, and what it finds wrong with a password.         *)
(*                                                                         *)
(* A password is what the policy sees of it: its length, how many of each  *)
(* class of characters, whether it is common, contains the email or a row  *)
(* of the keyboard, and the steps from each character to the next: 1 and   *)
(* -1 between neighbours among letters or digits, 0 for all else.          *)
(***************************************************************************)
EXTENDS Integers, Sequences, SequencesExt

MaxLength == 1024
MaxHistory == 20
SequenceMinRun == 4

ClassFields == {"min_uppercase", "min_lowercase", "min_digits", "min_special"}

DefaultPolicy ==
  [min_length |-> 12, max_length |-> 128, min_uppercase |-> 1, min_lowercase |-> 1,
   min_digits |-> 1, min_special |-> 1, deny_common_passwords |-> TRUE,
   forbid_email_containment |-> TRUE, forbid_sequences |-> TRUE, history_depth |-> 5]

\* __post_init__: a policy out of its limits is not made.
InRange(p) ==
  /\ p.min_length \in 1 .. MaxLength /\ p.max_length \in p.min_length .. MaxLength
  /\ \A f \in ClassFields : p[f] \in 0 .. MaxLength
  /\ p.history_depth \in 0 .. MaxHistory

\* PasswordPolicyPatch.apply: only the keys that the client gives.
Apply(patch, base) ==
  [f \in DOMAIN base |-> IF f \in DOMAIN patch THEN patch[f] ELSE base[f]]

\* _has_alnum_run: two counters along the password, set back to zero by any
\* other step.
HasAlnumRun(steps) ==
  LET After(run, step) ==
        IF run.found THEN run
        ELSE LET up == IF step = 1 THEN run.up + 1 ELSE 0
                 down == IF step = -1 THEN run.down + 1 ELSE 0
             IN [up |-> up, down |-> down,
                 found |-> up >= SequenceMinRun - 1 \/ down >= SequenceMinRun - 1]
  IN FoldLeft(After, [up |-> 0, down |-> 0, found |-> FALSE], steps).found

\* _class_violations
ClassViolations(p, w) ==
  {f \in ClassFields :
     CASE f = "min_uppercase" -> w.uppercase < p[f]
       [] f = "min_lowercase" -> w.lowercase < p[f]
       [] f = "min_digits" -> w.digits < p[f]
       [] f = "min_special" -> w.special < p[f]}

\* validate: everything that is wrong, not only the first.
Violations(p, w) ==
  ClassViolations(p, w)
  \cup {f \in {"min_length"} : w.length < p.min_length}
  \cup {f \in {"max_length"} : w.length > p.max_length}
  \cup {f \in {"common"} : p.deny_common_passwords /\ w.common}
  \cup {f \in {"email"} : p.forbid_email_containment /\ w.has_email}
  \cup {f \in {"sequence"} : p.forbid_sequences /\ (HasAlnumRun(w.steps) \/ w.row)}

=============================================================================
