------------------------------ MODULE KeyRotation ------------------------------
(***************************************************************************)
(* The signing keys: generated, retired and purged by whoever reads the    *)
(* JWKS (application/jwks.py) or asks the administration server for a      *)
(* rotation, while other calls sign tokens (infrastructure/jwks.py,        *)
(* infrastructure/tokens.py).  All of them share one key store.            *)
(*                                                                         *)
(* A JWKSetUseCase holds a lock, so a process runs one publication or      *)
(* rotation at a time; two processes, and every signature, interleave      *)
(* freely.  A write is made with the row a read returned, and update is an *)
(* upsert.  The loops over keys and algorithms are worklists.              *)
(***************************************************************************)
EXTENDS Integers

CONSTANTS
  Algorithms, RotatedAlgorithms, \* managed algorithms; those rotated proactively
  Kids, NoKid,
  Providers,        \* processes that publish the JWKS
  Admins,           \* processes that rotate on demand
  Signers,          \* slots for signatures in progress
  Rotation, Grace,  \* rotation_days, grace_period_days
  Proactive,        \* rotation_seconds; 0 disables the proactive rotation
  TokenTtl,         \* longest life of a signed token
  MaxTime           \* bound on the clock

ASSUME KeyAssumption == NoKid \notin Kids /\ RotatedAlgorithms \subseteq Algorithms
ASSUME AgeAssumption ==
  Rotation \in Nat /\ Grace \in Nat /\ Proactive \in Nat /\ MaxTime \in Nat

\* A token is valid for a while, and not for longer than the grace period (by
\* default 7 days).
ASSUME GraceAssumption == TokenTtl \in Nat \ {0} /\ TokenTtl <= Grace

VARIABLES
  now,
  keys,      \* the key store: kid -> row
  server,    \* what each process is doing under its lock
  signer,    \* the signatures in progress
  tokens,    \* history: the signatures made, while the token is valid
  aged       \* history: algorithms of which a key was retired for its age

vars == <<now, keys, server, signer, tokens, aged>>

--------------------------------------------------------------------------------
(* State.                                                                   *)

Servers == Providers \cup Admins
NoAlg == "none"

Time == 0 .. MaxTime
Key == [alg : Algorithms, created : Time, active : BOOLEAN]
Rows == UNION {[K -> Key] : K \in SUBSET Kids}

\* goal: initialise, get_published_keys or rotate_signing_keys.  rows: the rows
\* read that are still to be written.  algs: the algorithms still to be visited,
\* alg: the one being visited.  then: where a generated key leads.  clock: the
\* time the deadlines are computed from.
Server == [
  pc : {"idle", "mark", "ensure", "check", "rotate", "generate", "retire",
        "read_active", "read_retired"},
  goal : {"initialise", "publish", "rotate"},
  algs : SUBSET Algorithms, alg : Algorithms \cup {NoAlg},
  then : {"ensure", "check", "retire"}, rows : Rows, removed : BOOLEAN, clock : Time,
  kids : SUBSET Kids, signing : SUBSET Algorithms, due : SUBSET Kids]

Resting == [pc |-> "idle", goal |-> "publish", algs |-> {}, alg |-> NoAlg, then |-> "ensure",
            rows |-> [k \in {} |-> {}], removed |-> FALSE, clock |-> 0,
            kids |-> {}, signing |-> {}, due |-> {}]

Starting == [Resting EXCEPT !.pc = "ensure", !.goal = "initialise", !.algs = Algorithms]

Signer == [pc : {"idle", "generate", "lookup", "sign"}, alg : Algorithms \cup {NoAlg},
           kid : Kids \cup {NoKid}, born : Time]
Quiet == [pc |-> "idle", alg |-> NoAlg, kid |-> NoKid, born |-> 0]

Put(f, k, v) == [x \in DOMAIN f \cup {k} |-> IF x = k THEN v ELSE f[x]]
Remove(f, k) == [x \in DOMAIN f \ {k} |-> f[x]]
Only(f, S) == [x \in S |-> f[x]]

Init ==
  /\ now = 0
  /\ keys = [k \in {} |-> {}]
  /\ server = [s \in Servers |-> IF s \in Providers THEN Starting ELSE Resting]
  /\ signer = [g \in Signers |-> Quiet]
  /\ tokens = {}
  /\ aged = {}

--------------------------------------------------------------------------------
(* Reads.                                                                   *)

ActiveKids(alg) == {k \in DOMAIN keys : keys[k].active /\ keys[k].alg = alg}

\* Faulty variant: a key is purged as soon as it is due for retirement.
PurgeableAtOnce(row, clock) == row.created + Rotation <= clock

\* The tests of mark_expired_keys on a key, seen from the time clock.
Purgeable(row, clock) == row.created + Rotation + Grace <= clock
Retirable(row, clock) == row.created + Rotation <= clock /\ row.active

\* The age of the youngest active key of alg reached rotation_seconds.
Overdue(alg, clock) == \A k \in ActiveKids(alg) : clock - keys[k].created >= Proactive

\* tok was signed with a key that mark_expired_keys would not have retired long ago.
InAge(tok) == tok.at - tok.born <= Rotation

--------------------------------------------------------------------------------
(* The order of the loops: what follows a loop with nothing left to do.     *)

AfterRotation(q) ==
  IF q.pc = "check" /\ q.algs = {}
  THEN IF q.goal = "publish" THEN [Resting EXCEPT !.pc = "read_active"] ELSE Resting
  ELSE q

Proactively ==
  AfterRotation([Resting EXCEPT !.pc = "check", !.clock = now,
                                !.algs = IF Proactive = 0 THEN {} ELSE RotatedAlgorithms])

Onward(q) ==
  CASE q.pc = "mark" /\ DOMAIN q.rows = {} ->
         IF q.removed THEN [Resting EXCEPT !.pc = "ensure", !.algs = Algorithms] ELSE Proactively
    [] q.pc = "ensure" /\ q.algs = {} ->
         IF q.goal = "initialise" THEN Resting ELSE Proactively
    [] q.pc = "retire" /\ DOMAIN q.rows = {} -> AfterRotation([q EXCEPT !.pc = "check"])
    [] q.pc = "check" -> AfterRotation(q)
    [] OTHER -> q

Goto(s, q) == server' = [server EXCEPT ![s] = Onward(q)]

--------------------------------------------------------------------------------
(* get_published_keys: mark_expired_keys, the proactive rotation, two reads. *)

\* mark_expired_keys reads the family, with the clock it has just read.
MarkStart(s) ==
  /\ s \in Providers /\ server[s].pc = "idle"
  /\ Goto(s, [Resting EXCEPT !.pc = "mark", !.clock = now,
       !.rows = Only(keys, {k \in DOMAIN keys :
                              Purgeable(keys[k], now) \/ Retirable(keys[k], now)})])
  /\ UNCHANGED <<now, keys, signer, tokens, aged>>

\* One key of that read is deleted or, from the row read, saved inactive.
MarkKey(s, k) ==
  LET q == server[s]
      purge == Purgeable(q.rows[k], q.clock)
  IN /\ q.pc = "mark"
     /\ keys' = IF purge THEN Remove(keys, k)
                ELSE Put(keys, k, [q.rows[k] EXCEPT !.active = FALSE])
     /\ Goto(s, [q EXCEPT !.rows = Remove(@, k), !.removed = @ \/ purge])
     /\ aged' = aged \cup {q.rows[k].alg}
     /\ UNCHANGED <<now, signer, tokens>>

\* One algorithm of a loop is visited: pc is where that leads.
Visit(s, alg, pc) ==
  /\ alg \in server[s].algs
  /\ Goto(s, [server[s] EXCEPT !.algs = @ \ {alg}, !.pc = pc,
                               !.alg = IF pc = server[s].pc THEN NoAlg ELSE alg,
                               !.then = server[s].pc])
  /\ UNCHANGED <<now, keys, signer, tokens, aged>>

\* ensure_active_key, of initialise and of _mark_expired_keys after a purge.
EnsureActive(s, alg) ==
  /\ server[s].pc = "ensure"
  /\ Visit(s, alg, IF ActiveKids(alg) = {} THEN "generate" ELSE "ensure")

\* _rotate_signing_keys: is the youngest active key of alg old enough?
CheckAge(s, alg) ==
  /\ server[s].pc = "check" /\ server[s].goal = "publish"
  /\ Visit(s, alg, IF ActiveKids(alg) = {} THEN "generate"
                   ELSE IF Overdue(alg, server[s].clock) THEN "rotate" ELSE "check")

\* get_active_keys and get_retired_keys are two reads of the store.
ReadActive(s) ==
  /\ server[s].pc = "read_active"
  /\ Goto(s, [server[s] EXCEPT !.pc = "read_retired",
       !.kids = {k \in DOMAIN keys : keys[k].active},
       !.signing = {alg \in Algorithms : ActiveKids(alg) # {}},
       !.due = {tok.kid : tok \in {t \in tokens : InAge(t)}}])
  /\ UNCHANGED <<now, keys, signer, tokens, aged>>

\* Faulty variant: the retired keys are not published.
PublishedActive(s) == server[s].kids

\* What the second read completes the answer to.
Published(s) == server[s].kids \cup {k \in DOMAIN keys : ~keys[k].active}

ReadRetired(s) ==
  /\ server[s].pc = "read_retired"
  /\ server' = [server EXCEPT ![s] = Resting]
  /\ UNCHANGED <<now, keys, signer, tokens, aged>>

--------------------------------------------------------------------------------
(* rotate_signing_keys and rotate_key: read, generate, then retire.         *)

AdminStart(s) ==
  /\ s \in Admins /\ server[s].pc = "idle"
  /\ Goto(s, [Resting EXCEPT !.pc = "check", !.goal = "rotate", !.algs = Algorithms])
  /\ UNCHANGED <<now, keys, signer, tokens, aged>>

RotateRead(s, alg) ==
  /\ \/ server[s].pc = "rotate" /\ server[s].alg = alg
     \/ server[s].pc = "check" /\ server[s].goal = "rotate" /\ alg \in server[s].algs
  /\ Goto(s, [server[s] EXCEPT !.algs = @ \ {alg}, !.alg = alg, !.then = "retire",
                               !.pc = "generate", !.rows = Only(keys, ActiveKids(alg))])
  /\ UNCHANGED <<now, keys, signer, tokens, aged>>

\* A new pair under a kid (a UUID) that nothing refers to.
Fresh(k, alg) ==
  /\ k \notin DOMAIN keys
  /\ \A tok \in tokens : tok.kid # k
  /\ \A s \in Servers : k \notin DOMAIN server[s].rows \cup server[s].kids \cup server[s].due
  /\ \A g \in Signers : signer[g].kid # k
  /\ keys' = Put(keys, k, [alg |-> alg, created |-> now, active |-> TRUE])

\* Faulty variant: the active keys to retire are read after the generation.
GenerateThenRead(s, k) ==
  /\ server[s].pc = "generate"
  /\ Fresh(k, server[s].alg)
  /\ Goto(s, [server[s] EXCEPT !.pc = server[s].then, !.alg = NoAlg, !.then = "ensure",
       !.rows = Only(keys', {j \in DOMAIN keys' :
                               keys'[j].active /\ keys'[j].alg = server[s].alg})])
  /\ UNCHANGED <<now, signer, tokens, aged>>

\* generate_key_pair: the pair is saved, and the caller goes on.
Generate(s, k) ==
  /\ server[s].pc = "generate"
  /\ Fresh(k, server[s].alg)
  /\ Goto(s, [server[s] EXCEPT !.pc = server[s].then, !.alg = NoAlg, !.then = "ensure"])
  /\ UNCHANGED <<now, signer, tokens, aged>>

Retire(s, k) ==
  /\ server[s].pc = "retire"
  /\ keys' = Put(keys, k, [server[s].rows[k] EXCEPT !.active = FALSE])
  /\ Goto(s, [server[s] EXCEPT !.rows = Remove(@, k)])
  /\ UNCHANGED <<now, signer, tokens, aged>>

--------------------------------------------------------------------------------
(* Signing: first_active_key, then the signature with the key it returned.  *)

Pick(g, alg, k) ==
  signer' = [signer EXCEPT ![g] =
    [pc |-> "sign", alg |-> alg, kid |-> k, born |-> keys[k].created]]

SignStart(g, alg) ==
  /\ signer[g].pc = "idle"
  /\ \/ \E k \in ActiveKids(alg) : Pick(g, alg, k)
     \/ /\ ActiveKids(alg) = {}
        /\ signer' = [signer EXCEPT ![g] = [Quiet EXCEPT !.pc = "generate", !.alg = alg]]
  /\ UNCHANGED <<now, keys, server, tokens, aged>>

SignGenerate(g, k) ==
  /\ signer[g].pc = "generate"
  /\ Fresh(k, signer[g].alg)
  /\ signer' = [signer EXCEPT ![g].pc = "lookup"]
  /\ UNCHANGED <<now, server, tokens, aged>>

\* The second lookup; without an active key the call fails.
SignLookup(g) ==
  /\ signer[g].pc = "lookup"
  /\ \/ \E k \in ActiveKids(signer[g].alg) : Pick(g, signer[g].alg, k)
     \/ /\ ActiveKids(signer[g].alg) = {}
        /\ signer' = [signer EXCEPT ![g] = Quiet]
  /\ UNCHANGED <<now, keys, server, tokens, aged>>

Sign(g) ==
  /\ signer[g].pc = "sign"
  /\ tokens' = tokens \cup {[kid |-> signer[g].kid, born |-> signer[g].born, at |-> now]}
  /\ signer' = [signer EXCEPT ![g] = Quiet]
  /\ UNCHANGED <<now, keys, server, aged>>

--------------------------------------------------------------------------------
(* The environment: a process that stops and starts again, and the clock.   *)

Crash(s) ==
  /\ server[s].pc # "idle"
  /\ server' = [server EXCEPT ![s] = IF s \in Providers THEN Starting ELSE Resting]
  /\ UNCHANGED <<now, keys, signer, tokens, aged>>

Tick ==
  /\ now < MaxTime
  /\ now' = now + 1
  /\ tokens' = {tok \in tokens : now + 1 < tok.at + TokenTtl}
  /\ UNCHANGED <<keys, server, signer, aged>>

Serve(s) ==
  \/ MarkStart(s) \/ AdminStart(s) \/ ReadActive(s) \/ ReadRetired(s) \/ Crash(s)
  \/ \E alg \in Algorithms : EnsureActive(s, alg) \/ CheckAge(s, alg) \/ RotateRead(s, alg)
  \/ \E k \in DOMAIN server[s].rows : MarkKey(s, k) \/ Retire(s, k)
  \/ \E k \in Kids : Generate(s, k)

Signature(g) ==
  \/ \E alg \in Algorithms : SignStart(g, alg)
  \/ \E k \in Kids : SignGenerate(g, k)
  \/ SignLookup(g) \/ Sign(g)

Next ==
  \/ \E s \in Servers : Serve(s)
  \/ \E g \in Signers : Signature(g)
  \/ Tick

Spec == Init /\ [][Next]_vars

--------------------------------------------------------------------------------
(* Properties.                                                              *)

TypeOK ==
  /\ now \in Time
  /\ keys \in Rows
  /\ server \in [Servers -> Server]
  /\ signer \in [Signers -> Signer]
  /\ tokens \subseteq [kid : Kids, born : Time, at : Time]
  /\ aged \subseteq Algorithms

\* rotate_key generates before it retires, so that "an active key exists at all
\* times": whatever rotations, publications and restarts interleave, an algorithm
\* that has keys has an active one, until one of its keys is retired for its age.
ActiveUnlessAged ==
  \A k \in DOMAIN keys : ActiveKids(keys[k].alg) # {} \/ keys[k].alg \in aged

\* A token signed with a key that was not over age stays verifiable until it
\* expires (_key_for looks its kid up in the store): retirement, purge and the
\* upsert of an old copy leave the key there for Rotation + Grace.
VerifiableUntilExpiry ==
  \A tok \in tokens : InAge(tok) => tok.kid \in DOMAIN keys

\* Every JWKS holds the key of every such token that was signed before its first
\* read and is still valid, although the JWKS is put together from two reads of the
\* store and another process may retire a key between them.
PublicationComplete ==
  \A s \in Servers : server[s].pc = "read_retired" =>
    \A tok \in tokens : InAge(tok) /\ tok.kid \in server[s].due => tok.kid \in Published(s)

--------------------------------------------------------------------------------
(* The inductive strengthening of the properties above.                     *)

\* Wherever kid k occurs it is the same key, made at t for alg.
Origin(k, t, alg) ==
  /\ k \in DOMAIN keys => keys[k].created = t /\ keys[k].alg = alg
  /\ \A s \in Servers : k \in DOMAIN server[s].rows =>
       server[s].rows[k].created = t /\ server[s].rows[k].alg = alg
  /\ \A g \in Signers : signer[g].kid = k => signer[g].born = t
  /\ \A tok \in tokens : tok.kid = k => tok.born = t

OneOrigin(k) == \E t \in Time, alg \in Algorithms \cup {NoAlg} : Origin(k, t, alg)

\* mark_expired_keys does not purge a key made at t yet.
Lasting(t) == now < t + Rotation + Grace

\* The tokens are the valid ones, and the key of a token, or of a signature about
\* to be made, is in the store for as long as it is not purged for its age.
KeptInv ==
  /\ \A s \in Servers : server[s].clock <= now
  /\ \A tok \in tokens : tok.at <= now /\ now < tok.at + TokenTtl
  /\ \A g \in Signers : signer[g].pc # "idle" => signer[g].alg \in Algorithms
  /\ \A g \in Signers : signer[g].pc = "sign" =>
       /\ signer[g].kid \in Kids
       /\ Lasting(signer[g].born) => signer[g].kid \in DOMAIN keys
  /\ \A tok \in tokens : Lasting(tok.born) => tok.kid \in DOMAIN keys

\* A key that the first read of a publication did not find active is not active now.
ReadInv ==
  \A s \in Servers : server[s].pc = "read_retired" =>
    \A k \in server[s].due \ server[s].kids : k \in DOMAIN keys => ~keys[k].active

\* An active key that no rotation is about to retire.
Spared(alg) ==
  \E k \in ActiveKids(alg) : \A s \in Servers :
    server[s].pc = "retire" => k \notin DOMAIN server[s].rows

\* A rotation retires keys of its algorithm only, and the last key generated is
\* not among them.
RotateInv ==
  /\ \A s \in Servers : server[s].pc = "generate" /\ server[s].then = "retire" =>
       \A k \in DOMAIN server[s].rows : server[s].rows[k].alg = server[s].alg
  /\ \A s \in Servers : server[s].pc \in {"generate", "rotate"} => server[s].alg \in Algorithms
  /\ \A s \in Servers : \A k \in DOMAIN server[s].rows :
       k \in DOMAIN keys \/ server[s].rows[k].alg \in aged
  /\ \A alg \in Algorithms \ aged : Spared(alg) \/ \A k \in DOMAIN keys : keys[k].alg # alg

KeyInv ==
  /\ TypeOK /\ KeptInv /\ ReadInv /\ RotateInv
  /\ \A k \in Kids : OneOrigin(k)
================================================================================
