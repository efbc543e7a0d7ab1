--------------------------- MODULE KeyRotation_proof ----------------------------
(***************************************************************************)
(* Proofs about KeyRotation, which rotates the keys that sign the tokens,  *)
(* and about ResourceAccess, where the tokens are presented; for every     *)
(* value of their constants.                                               *)
(***************************************************************************)
EXTENDS KeyRotation, TLAPS

USE KeyAssumption, AgeAssumption

--------------------------------------------------------------------------------
(* Rows: the store and the copies of it.                                    *)

\* A row set is a function from some kids to keys.
LEMMA RowsAre ==
  ASSUME NEW f
  PROVE  f \in Rows <=> DOMAIN f \subseteq Kids /\ f \in [DOMAIN f -> Key]
BY DEF Rows

LEMMA RowType ==
  ASSUME NEW f \in Rows
  PROVE  /\ DOMAIN f \subseteq Kids
         /\ \A k \in DOMAIN f : /\ f[k] \in Key /\ f[k].created \in Time
                                /\ f[k].alg \in Algorithms
BY RowsAre DEF Key

\* No rows.
LEMMA NoRows == [k \in {} |-> {}] \in Rows /\ DOMAIN [k \in {} |-> {}] = {}
<1>1. [k \in {} |-> {}] \in [{} -> Key]
  OBVIOUS
<1> QED
  BY <1>1, RowsAre

LEMMA PutRow ==
  ASSUME NEW f \in Rows, NEW k \in Kids, NEW v \in Key
  PROVE  /\ Put(f, k, v) \in Rows /\ DOMAIN Put(f, k, v) = DOMAIN f \cup {k}
         /\ Put(f, k, v)[k] = v
         /\ \A j \in DOMAIN f : j # k => Put(f, k, v)[j] = f[j]
<1>1. DOMAIN f \subseteq Kids /\ \A j \in DOMAIN f : f[j] \in Key
  BY RowType
<1>2. Put(f, k, v) \in [DOMAIN f \cup {k} -> Key]
  BY <1>1 DEF Put
<1>3. Put(f, k, v) \in Rows
  BY <1>1, <1>2, RowsAre
<1> QED
  BY <1>3 DEF Put

LEMMA RemoveRow ==
  ASSUME NEW f \in Rows, NEW k
  PROVE  /\ Remove(f, k) \in Rows /\ DOMAIN Remove(f, k) = DOMAIN f \ {k}
         /\ \A j \in DOMAIN f : j # k => Remove(f, k)[j] = f[j]
<1>1. DOMAIN f \subseteq Kids /\ \A j \in DOMAIN f : f[j] \in Key
  BY RowType
<1>2. Remove(f, k) \in [DOMAIN f \ {k} -> Key]
  BY <1>1 DEF Remove
<1>3. Remove(f, k) \in Rows
  BY <1>1, <1>2, RowsAre
<1> QED
  BY <1>3 DEF Remove

LEMMA OnlyRows ==
  ASSUME NEW f \in Rows, NEW S \in SUBSET DOMAIN f
  PROVE  /\ Only(f, S) \in Rows /\ DOMAIN Only(f, S) = S
         /\ \A j \in S : Only(f, S)[j] = f[j]
<1>1. DOMAIN f \subseteq Kids /\ \A j \in DOMAIN f : f[j] \in Key
  BY RowType
<1>2. Only(f, S) \in [S -> Key]
  BY <1>1 DEF Only
<1>3. Only(f, S) \in Rows
  BY <1>1, <1>2, RowsAre
<1> QED
  BY <1>3 DEF Only

\* Saving a row inactive keeps the rest of it.
LEMMA Retired ==
  ASSUME NEW row \in Key
  PROVE  /\ [row EXCEPT !.active = FALSE] \in Key
         /\ [row EXCEPT !.active = FALSE].created = row.created
         /\ [row EXCEPT !.active = FALSE].alg = row.alg
         /\ ~[row EXCEPT !.active = FALSE].active
BY DEF Key

--------------------------------------------------------------------------------
(* Servers: what the order of the loops makes of a slot.                    *)

LEMMA RestingType ==
  /\ Resting \in Server /\ Resting.pc = "idle" /\ DOMAIN Resting.rows = {} /\ Resting.clock = 0
  /\ Starting \in Server /\ Starting.pc = "ensure" /\ DOMAIN Starting.rows = {}
  /\ Starting.clock = 0
<1>1. 0 \in Time
  BY DEF Time
<1>2. Resting \in Server /\ Resting.pc = "idle" /\ DOMAIN Resting.rows = {} /\ Resting.clock = 0
  BY <1>1, NoRows DEF Resting, Server
<1> QED
  BY <1>2 DEF Starting, Server

\* What a loop with nothing left leads to is a slot without rows to write, or with
\* those it had.
Settled(q, p) ==
  /\ p \in Server
  /\ \/ p = q
     \/ /\ p.pc \in {"idle", "ensure", "check", "read_active"}
        /\ p.rows = q.rows \/ DOMAIN p.rows = {}
        /\ p.clock \in {q.clock, 0, now}

LEMMA RotationSettles ==
  ASSUME NEW q \in Server
  PROVE  Settled(q, AfterRotation(q))
<1>1. CASE AfterRotation(q) = q
  BY <1>1 DEF Settled
<1>2. CASE AfterRotation(q) = Resting
  BY <1>2, RestingType DEF Settled
<1>3. CASE AfterRotation(q) = [Resting EXCEPT !.pc = "read_active"]
  <2>1. /\ [Resting EXCEPT !.pc = "read_active"] \in Server
        /\ [Resting EXCEPT !.pc = "read_active"].pc = "read_active"
        /\ DOMAIN [Resting EXCEPT !.pc = "read_active"].rows = {}
        /\ [Resting EXCEPT !.pc = "read_active"].clock = 0
    BY RestingType DEF Server
  <2> QED
    BY <1>3, <2>1 DEF Settled
<1> QED
  BY <1>1, <1>2, <1>3 DEF AfterRotation

LEMMA ProactivelySettles ==
  ASSUME NEW q \in Server, now \in Time
  PROVE  Settled(q, Proactively)
<1>1. PICK algs \in SUBSET Algorithms : algs = IF Proactive = 0 THEN {} ELSE RotatedAlgorithms
  OBVIOUS
<1> DEFINE p == [Resting EXCEPT !.pc = "check", !.clock = now, !.algs = algs]
<1>2. p \in Server /\ p.pc = "check" /\ DOMAIN p.rows = {} /\ p.clock = now
  BY RestingType DEF Server
<1>3. Proactively = AfterRotation(p)
  BY <1>1 DEF Proactively
<1> HIDE DEF p
<1>4. Settled(p, AfterRotation(p))
  BY <1>2, RotationSettles
<1> QED
  BY <1>2, <1>3, <1>4 DEF Settled

LEMMA OnwardSettles ==
  ASSUME NEW q \in Server, now \in Time
  PROVE  Settled(q, Onward(q))
<1>1. CASE q.pc = "mark" /\ DOMAIN q.rows = {}
  <2> DEFINE p == [Resting EXCEPT !.pc = "ensure", !.algs = Algorithms]
  <2>1. p \in Server /\ p.pc = "ensure" /\ DOMAIN p.rows = {} /\ p.clock = 0
    BY RestingType DEF Server
  <2>2. Onward(q) = p \/ Onward(q) = Proactively
    BY <1>1 DEF Onward
  <2> HIDE DEF p
  <2> QED
    BY <2>1, <2>2, ProactivelySettles DEF Settled
<1>2. CASE q.pc = "ensure" /\ q.algs = {}
  <2>1. Onward(q) = Resting \/ Onward(q) = Proactively
    BY <1>2 DEF Onward
  <2> QED
    BY <2>1, ProactivelySettles, RestingType DEF Settled
<1>3. CASE q.pc = "retire" /\ DOMAIN q.rows = {}
  <2> DEFINE p == [q EXCEPT !.pc = "check"]
  <2>1. p \in Server /\ p.pc = "check" /\ p.rows = q.rows /\ p.clock = q.clock
    BY DEF Server
  <2>2. Onward(q) = AfterRotation(p)
    BY <1>3 DEF Onward
  <2> HIDE DEF p
  <2>3. Settled(p, AfterRotation(p))
    BY <2>1, RotationSettles
  <2> QED
    BY <2>1, <2>2, <2>3 DEF Settled
<1>4. CASE q.pc = "check"
  BY <1>4, RotationSettles DEF Onward
<1>5. CASE /\ ~(q.pc = "mark" /\ DOMAIN q.rows = {}) /\ ~(q.pc = "ensure" /\ q.algs = {})
           /\ ~(q.pc = "retire" /\ DOMAIN q.rows = {}) /\ q.pc # "check"
  <2>1. Onward(q) = q
    BY <1>5 DEF Onward
  <2> QED
    BY <2>1 DEF Settled
<1> QED
  BY <1>1, <1>2, <1>3, <1>4, <1>5

\* A server's step moves that server alone.
LEMMA OneServer ==
  ASSUME TypeOK, NEW s \in Servers, NEW q \in Server, Goto(s, q)
  PROVE  /\ server' \in [Servers -> Server] /\ Settled(q, server'[s])
         /\ \A r \in Servers : r # s => server'[r] = server[r]
<1>1. Settled(q, Onward(q))
  BY OnwardSettles DEF TypeOK
<1> QED
  BY <1>1 DEF Settled, Goto, TypeOK

--------------------------------------------------------------------------------
(* A kid always names the same key.                                         *)

\* What a step may take over: rows and the store from each other, a signature's key
\* from the store, a token from a signature.
Follows(k) ==
  /\ k \in DOMAIN keys' =>
       \/ /\ k \in DOMAIN keys
          /\ keys'[k].created = keys[k].created /\ keys'[k].alg = keys[k].alg
       \/ \E s \in Servers : /\ k \in DOMAIN server[s].rows
                             /\ keys'[k].created = server[s].rows[k].created
                             /\ keys'[k].alg = server[s].rows[k].alg
  /\ \A s \in Servers : k \in DOMAIN server'[s].rows =>
       \/ k \in DOMAIN server[s].rows /\ server'[s].rows[k] = server[s].rows[k]
       \/ k \in DOMAIN keys /\ server'[s].rows[k] = keys[k]
  /\ \A g \in Signers : signer'[g].kid = k =>
       \/ signer[g].kid = k /\ signer'[g].born = signer[g].born
       \/ k \in DOMAIN keys /\ signer'[g].born = keys[k].created
  /\ \A tok \in tokens' : tok.kid = k =>
       \/ tok \in tokens
       \/ \E g \in Signers : signer[g].kid = k /\ tok.born = signer[g].born

LEMMA OriginKept ==
  ASSUME NEW k, OneOrigin(k), Follows(k)
  PROVE  OneOrigin(k)'
<1>1. PICK t \in Time, alg \in Algorithms \cup {NoAlg} : Origin(k, t, alg)
  BY DEF OneOrigin
<1>2. Origin(k, t, alg)'
  BY <1>1 DEF Origin, Follows
<1> QED
  BY <1>2 DEF OneOrigin

--------------------------------------------------------------------------------
(* Steps of a server that do not write.                                     *)

\* What such a step makes of the slot of s: rows are kept or read, a rotation reads
\* rows of its algorithm, a publication notes which keys are active.
Sound(s, p) ==
  /\ p \in Server /\ p.clock <= now /\ p.pc # "retire"
  /\ \A k \in DOMAIN p.rows :
       \/ k \in DOMAIN server[s].rows /\ p.rows[k] = server[s].rows[k]
       \/ k \in DOMAIN keys /\ p.rows[k] = keys[k]
  /\ p.pc = "generate" /\ p.then = "retire" => \A k \in DOMAIN p.rows : p.rows[k].alg = p.alg
  /\ p.pc \in {"generate", "rotate"} => p.alg \in Algorithms
  /\ p.pc = "read_retired" =>
       \A k \in p.due \ p.kids : k \in DOMAIN keys => ~keys[k].active

LEMMA SoundSettled ==
  ASSUME NEW s, NEW q, NEW p, Sound(s, q), Settled(q, p), now \in Time
  PROVE  Sound(s, p)
BY DEF Sound, Settled, Server, Time

\* Such a step keeps the invariant.
LEMMA SoundKeeps ==
  ASSUME KeyInv, NEW s \in Servers, server' \in [Servers -> Server], Sound(s, server'[s]),
         \A r \in Servers : r # s => server'[r] = server[r],
         UNCHANGED <<now, keys, signer, tokens, aged>>
  PROVE  KeyInv'
<1>1. TypeOK'
  BY DEF KeyInv, TypeOK
<1>2. KeptInv'
  BY DEF KeyInv, KeptInv, Lasting, Sound
<1>3. ReadInv'
  BY DEF KeyInv, ReadInv, Sound
<1>4. RotateInv'
  <2>1. \A alg : ActiveKids(alg)' = ActiveKids(alg)
    BY DEF ActiveKids
  <2>2. ASSUME NEW alg, Spared(alg) PROVE Spared(alg)'
    BY <2>1, <2>2 DEF Spared, Sound
  <2>3. ASSUME NEW alg \in Algorithms \ aged'
        PROVE  Spared(alg)' \/ \A k \in DOMAIN keys' : keys'[k].alg # alg
    <3>1. Spared(alg) \/ \A k \in DOMAIN keys : keys[k].alg # alg
      BY DEF KeyInv, RotateInv
    <3> QED
      BY <2>2, <3>1
  <2>4. \A r \in Servers : \A k \in DOMAIN server'[r].rows :
          k \in DOMAIN keys \/ server'[r].rows[k].alg \in aged
    BY DEF KeyInv, RotateInv, Sound
  <2>5. \A r \in Servers :
          /\ server'[r].pc = "generate" /\ server'[r].then = "retire" =>
               \A k \in DOMAIN server'[r].rows : server'[r].rows[k].alg = server'[r].alg
          /\ server'[r].pc \in {"generate", "rotate"} => server'[r].alg \in Algorithms
    BY DEF KeyInv, RotateInv, Sound
  <2> QED
    BY <2>3, <2>4, <2>5 DEF RotateInv
<1>5. ASSUME NEW k \in Kids PROVE OneOrigin(k)'
  <2>1. OneOrigin(k)
    BY DEF KeyInv
  <2>2. Follows(k)
    BY DEF Follows, Sound
  <2> QED
    BY <2>1, <2>2, OriginKept
<1> QED
  BY <1>1, <1>2, <1>3, <1>4, <1>5 DEF KeyInv

LEMMA GotoKeeps ==
  ASSUME KeyInv, NEW s \in Servers, NEW q, Sound(s, q), Goto(s, q),
         UNCHANGED <<now, keys, signer, tokens, aged>>
  PROVE  KeyInv'
<1>1. q \in Server /\ TypeOK /\ now \in Time
  BY DEF Sound, KeyInv, TypeOK
<1>2. /\ server' \in [Servers -> Server] /\ Settled(q, server'[s])
      /\ \A r \in Servers : r # s => server'[r] = server[r]
  BY <1>1, OneServer
<1>3. Sound(s, server'[s])
  BY <1>1, <1>2, SoundSettled
<1> QED
  BY <1>2, <1>3, SoundKeeps

\* What the lemmas below need of a slot.
LEMMA SlotType ==
  ASSUME KeyInv, NEW s \in Servers
  PROVE  /\ server[s] \in Server /\ server[s].rows \in Rows /\ server[s].algs \subseteq Algorithms
         /\ server[s].clock \in Time /\ server[s].clock <= now
         /\ keys \in Rows /\ now \in Time /\ now \in Nat
BY DEF KeyInv, TypeOK, KeptInv, Server, Time

LEMMA MarkStartKeeps ==
  ASSUME KeyInv, NEW s \in Servers, MarkStart(s)
  PROVE  KeyInv'
<1> DEFINE S == {k \in DOMAIN keys : Purgeable(keys[k], now) \/ Retirable(keys[k], now)}
           q == [Resting EXCEPT !.pc = "mark", !.clock = now, !.rows = Only(keys, S)]
<1>1. keys \in Rows /\ now \in Time
  BY SlotType
<1>2. Only(keys, S) \in Rows /\ DOMAIN Only(keys, S) = S /\ \A j \in S : Only(keys, S)[j] = keys[j]
  BY <1>1, OnlyRows
<1>3. PICK rows \in Rows : rows = Only(keys, S)
  BY <1>2
<1>4. /\ q \in Server /\ q.pc = "mark" /\ q.clock = now /\ q.rows = rows
  BY <1>1, <1>3, RestingType DEF Server
<1>5. Goto(s, q) /\ UNCHANGED <<now, keys, signer, tokens, aged>>
  BY DEF MarkStart
<1>6. DOMAIN rows \subseteq DOMAIN keys /\ \A j \in DOMAIN rows : rows[j] = keys[j]
  BY <1>2, <1>3
<1> HIDE DEF q, S
<1>7. Sound(s, q)
  BY <1>1, <1>4, <1>6 DEF Sound, Time
<1> QED
  BY <1>5, <1>7, GotoKeeps

LEMMA AdminStartKeeps ==
  ASSUME KeyInv, NEW s \in Servers, AdminStart(s)
  PROVE  KeyInv'
<1> DEFINE q == [Resting EXCEPT !.pc = "check", !.goal = "rotate", !.algs = Algorithms]
<1>1. q \in Server /\ q.pc = "check" /\ q.clock = 0 /\ DOMAIN q.rows = {}
  BY RestingType DEF Server
<1>2. Goto(s, q) /\ UNCHANGED <<now, keys, signer, tokens, aged>>
  BY DEF AdminStart
<1>3. now \in Nat
  BY SlotType
<1> HIDE DEF q
<1>4. Sound(s, q)
  BY <1>1, <1>3 DEF Sound
<1> QED
  BY <1>2, <1>4, GotoKeeps

\* EnsureActive and CheckAge visit one algorithm.
LEMMA VisitKeeps ==
  ASSUME KeyInv, NEW s \in Servers, NEW alg \in Algorithms,
         NEW pc \in {"ensure", "check", "generate", "rotate"}, Visit(s, alg, pc),
         server[s].pc \in {"ensure", "check"}
  PROVE  KeyInv'
<1>1. PICK a \in Algorithms \cup {NoAlg} : a = IF pc = server[s].pc THEN NoAlg ELSE alg
  OBVIOUS
<1>2. a \in Algorithms \cup {NoAlg} /\ (pc \in {"generate", "rotate"} => a = alg)
  BY <1>1
<1> DEFINE q == [server[s] EXCEPT !.algs = server[s].algs \ {alg}, !.pc = pc, !.alg = a,
                                  !.then = server[s].pc]
<1>3. /\ q \in Server /\ q.pc = pc /\ q.alg = a /\ q.then \in {"ensure", "check"}
      /\ q.rows = server[s].rows /\ q.clock = server[s].clock
  BY <1>2, SlotType DEF Server
<1>4. Goto(s, q) /\ UNCHANGED <<now, keys, signer, tokens, aged>>
  BY <1>1 DEF Visit
<1> HIDE DEF q
<1>5. Sound(s, q)
  BY <1>2, <1>3, SlotType DEF Sound
<1> QED
  BY <1>4, <1>5, GotoKeeps

LEMMA RotateReadKeeps ==
  ASSUME KeyInv, NEW s \in Servers, NEW alg \in Algorithms, RotateRead(s, alg)
  PROVE  KeyInv'
<1>1. keys \in Rows /\ ActiveKids(alg) \in SUBSET DOMAIN keys
  BY SlotType DEF ActiveKids
<1>2. /\ Only(keys, ActiveKids(alg)) \in Rows
      /\ DOMAIN Only(keys, ActiveKids(alg)) = ActiveKids(alg)
      /\ \A j \in ActiveKids(alg) : Only(keys, ActiveKids(alg))[j] = keys[j]
  BY <1>1, OnlyRows
<1>3. PICK rows \in Rows : rows = Only(keys, ActiveKids(alg))
  BY <1>2
<1> DEFINE q == [server[s] EXCEPT !.algs = server[s].algs \ {alg}, !.alg = alg, !.then = "retire",
                                  !.pc = "generate", !.rows = rows]
<1>4. /\ q \in Server /\ q.pc = "generate" /\ q.alg = alg /\ q.rows = rows
      /\ q.clock = server[s].clock
  BY SlotType DEF Server
<1>5. Goto(s, q) /\ UNCHANGED <<now, keys, signer, tokens, aged>>
  BY <1>3 DEF RotateRead
<1>6. /\ DOMAIN rows \subseteq DOMAIN keys
      /\ \A j \in DOMAIN rows : rows[j] = keys[j] /\ rows[j].alg = alg
  BY <1>2, <1>3 DEF ActiveKids
<1> HIDE DEF q
<1>7. Sound(s, q)
  BY <1>4, <1>6, SlotType DEF Sound
<1> QED
  BY <1>5, <1>7, GotoKeeps

LEMMA ReadActiveKeeps ==
  ASSUME KeyInv, NEW s \in Servers, ReadActive(s)
  PROVE  KeyInv'
<1>1. PICK kids \in SUBSET Kids : kids = {k \in DOMAIN keys : keys[k].active}
  BY SlotType, RowType
<1>2. PICK due \in SUBSET Kids : due = {tok.kid : tok \in {t \in tokens : InAge(t)}}
  BY DEF KeyInv, TypeOK
<1>3. PICK signing \in SUBSET Algorithms : signing = {alg \in Algorithms : ActiveKids(alg) # {}}
  OBVIOUS
<1> DEFINE q == [server[s] EXCEPT !.pc = "read_retired", !.kids = kids, !.signing = signing,
                                  !.due = due]
<1>4. /\ q \in Server /\ q.pc = "read_retired" /\ q.kids = kids /\ q.due = due
      /\ q.rows = server[s].rows /\ q.clock = server[s].clock
  BY SlotType DEF Server
<1>5. Goto(s, q) /\ UNCHANGED <<now, keys, signer, tokens, aged>>
  BY <1>1, <1>2, <1>3 DEF ReadActive
<1> HIDE DEF q
<1>6. Sound(s, q)
  BY <1>1, <1>4, SlotType DEF Sound
<1> QED
  BY <1>5, <1>6, GotoKeeps

\* A publication ends, or a process stops and starts again.
LEMMA ResetKeeps ==
  ASSUME KeyInv, NEW s \in Servers, ReadRetired(s) \/ Crash(s)
  PROVE  KeyInv'
<1>1. PICK q \in {Resting, Starting} : server' = [server EXCEPT ![s] = q]
  BY DEF ReadRetired, Crash
<1>2. q \in Server /\ q.pc \in {"idle", "ensure"} /\ DOMAIN q.rows = {} /\ q.clock = 0
  BY <1>1, RestingType
<1>3. /\ server' \in [Servers -> Server] /\ server'[s] = q
      /\ \A r \in Servers : r # s => server'[r] = server[r]
  BY <1>1, <1>2 DEF KeyInv, TypeOK
<1>4. Sound(s, q)
  BY <1>2, SlotType DEF Sound
<1> QED
  BY <1>3, <1>4, SoundKeeps DEF ReadRetired, Crash

--------------------------------------------------------------------------------
(* Steps of a server that write a row it has read.                          *)

\* Key k is saved inactive from the copy that s holds, or purged because it is old
\* enough, and s goes on without that copy.
Wrote(s, k) ==
  LET row == server[s].rows[k] IN
  /\ keys' \in Rows
  /\ \A j \in Kids : j # k =>
       /\ j \in DOMAIN keys' <=> j \in DOMAIN keys
       /\ j \in DOMAIN keys => keys'[j] = keys[j]
  /\ k \in DOMAIN keys' =>
       keys'[k].created = row.created /\ keys'[k].alg = row.alg /\ ~keys'[k].active
  /\ k \notin DOMAIN keys' => ~Lasting(row.created) /\ row.alg \in aged'
  /\ server' \in [Servers -> Server]
  /\ \A r \in Servers : r # s => server'[r] = server[r]
  /\ server'[s].pc \notin {"generate", "rotate", "read_retired"}
  /\ server'[s].pc = "retire" => server[s].pc = "retire"
  /\ server'[s].clock <= now
  /\ \A j \in DOMAIN server'[s].rows :
       j \in DOMAIN server[s].rows /\ server'[s].rows[j] = server[s].rows[j]
  /\ aged \subseteq aged' /\ aged' \subseteq Algorithms
  /\ server[s].pc = "retire" \/ row.alg \in aged'
  /\ now' = now /\ signer' = signer /\ tokens' = tokens

LEMMA WroteKeeps ==
  ASSUME KeyInv, NEW s \in Servers, NEW k \in DOMAIN server[s].rows, Wrote(s, k)
  PROVE  KeyInv'
<1>1. PICK row \in Key : row = server[s].rows[k]
  BY SlotType, RowType
<1>2. k \in Kids /\ DOMAIN keys \subseteq Kids /\ DOMAIN keys' \subseteq Kids
  BY SlotType, RowType DEF Wrote
<1>3. PICK t \in Time, a \in Algorithms \cup {NoAlg} : Origin(k, t, a)
  BY <1>2 DEF KeyInv, OneOrigin
<1>4. /\ row.created = t /\ row.alg = a /\ a \in Algorithms
      /\ k \in DOMAIN keys => keys[k].created = t /\ keys[k].alg = a
  BY <1>1, <1>3 DEF Origin, Key
<1>5. /\ k \in DOMAIN keys' => keys'[k].created = t /\ keys'[k].alg = a /\ ~keys'[k].active
      /\ k \notin DOMAIN keys' => ~Lasting(t) /\ a \in aged'
      /\ server[s].pc = "retire" \/ a \in aged'
  BY <1>1, <1>4 DEF Wrote
<1>6. /\ \A j \in Kids : j # k => /\ j \in DOMAIN keys' <=> j \in DOMAIN keys
                                  /\ j \in DOMAIN keys => keys'[j] = keys[j]
      /\ now' = now /\ signer' = signer /\ tokens' = tokens /\ aged \subseteq aged'
      /\ \A r \in Servers : r # s => server'[r] = server[r]
  BY DEF Wrote
<1>7. TypeOK'
  BY <1>6 DEF KeyInv, TypeOK, Wrote
<1>8. KeptInv'
  <2>1. \A x : Lasting(x)' <=> Lasting(x)
    BY <1>6 DEF Lasting
  <2>2. \A r \in Servers : server'[r].clock <= now
    BY <1>6 DEF KeyInv, KeptInv, Wrote
  <2>3. ASSUME NEW g \in Signers, signer[g].pc = "sign"
        PROVE  signer[g].kid \in Kids /\ (Lasting(signer[g].born) => signer[g].kid \in DOMAIN keys')
    <3>1. signer[g].kid \in Kids /\ (Lasting(signer[g].born) => signer[g].kid \in DOMAIN keys)
      BY <2>3 DEF KeyInv, KeptInv
    <3>2. signer[g].kid = k => signer[g].born = t
      BY <1>3 DEF Origin
    <3> QED
      BY <1>5, <1>6, <3>1, <3>2
  <2>4. ASSUME NEW tok \in tokens
        PROVE  Lasting(tok.born) => tok.kid \in DOMAIN keys'
    <3>1. tok.kid \in Kids /\ (Lasting(tok.born) => tok.kid \in DOMAIN keys)
      BY DEF KeyInv, KeptInv, TypeOK
    <3>2. tok.kid = k => tok.born = t
      BY <1>3 DEF Origin
    <3> QED
      BY <1>5, <1>6, <3>1, <3>2
  <2>5. /\ \A tok \in tokens : tok.at <= now /\ now < tok.at + TokenTtl
        /\ \A g \in Signers : signer[g].pc # "idle" => signer[g].alg \in Algorithms
    BY DEF KeyInv, KeptInv
  <2> QED
    BY <1>6, <2>1, <2>2, <2>3, <2>4, <2>5 DEF KeptInv
<1>9. ReadInv'
  <2> SUFFICES ASSUME NEW r \in Servers, server'[r].pc = "read_retired",
                      NEW j \in server'[r].due \ server'[r].kids, j \in DOMAIN keys'
               PROVE  ~keys'[j].active
    BY DEF ReadInv
  <2>1. r # s /\ server'[r] = server[r] /\ j \in Kids
    BY <1>2, <1>6 DEF Wrote
  <2>2. j \in DOMAIN keys => ~keys[j].active
    BY <2>1 DEF KeyInv, ReadInv
  <2> QED
    BY <1>5, <1>6, <2>1, <2>2
<1>10. RotateInv'
  <2>1. \A r \in Servers :
          /\ server'[r].pc = "generate" /\ server'[r].then = "retire" =>
               \A j \in DOMAIN server'[r].rows : server'[r].rows[j].alg = server'[r].alg
          /\ server'[r].pc \in {"generate", "rotate"} => server'[r].alg \in Algorithms
    BY <1>6 DEF KeyInv, RotateInv, Wrote
  <2>2. ASSUME NEW r \in Servers, NEW j \in DOMAIN server'[r].rows
        PROVE  j \in DOMAIN keys' \/ server'[r].rows[j].alg \in aged'
    <3>1. j \in DOMAIN server[r].rows /\ server'[r].rows[j] = server[r].rows[j]
      BY <1>6 DEF Wrote
    <3>2. j \in Kids /\ (j \in DOMAIN keys \/ server[r].rows[j].alg \in aged)
      BY <3>1, SlotType, RowType DEF KeyInv, RotateInv
    <3>3. j = k => server[r].rows[j].alg = a
      BY <1>3, <3>1 DEF Origin
    <3> QED
      BY <1>5, <1>6, <3>1, <3>2, <3>3
  <2>3. ASSUME NEW alg \in Algorithms \ aged'
        PROVE  Spared(alg)' \/ \A j \in DOMAIN keys' : keys'[j].alg # alg
    <3>1. alg \in Algorithms \ aged
      BY <1>6
    <3>2. CASE Spared(alg)
      <4>1. PICK n \in ActiveKids(alg) : \A r \in Servers :
              server[r].pc = "retire" => n \notin DOMAIN server[r].rows
        BY <3>2 DEF Spared
      <4>2. n # k
        BY <1>4, <1>5, <4>1 DEF ActiveKids
      <4>3. n \in DOMAIN keys /\ n \in Kids /\ n \in ActiveKids(alg)'
        BY <1>2, <1>6, <4>1, <4>2 DEF ActiveKids
      <4>4. \A r \in Servers : server'[r].pc = "retire" => n \notin DOMAIN server'[r].rows
        BY <1>6, <4>1 DEF Wrote
      <4> QED
        BY <4>3, <4>4 DEF Spared
    <3>3. CASE \A j \in DOMAIN keys : keys[j].alg # alg
      <4>1. k \in DOMAIN keys \/ a \in aged
        BY <1>1, <1>4 DEF KeyInv, RotateInv
      <4>2. a # alg
        BY <1>4, <3>1, <3>3, <4>1
      <4> QED
        BY <1>2, <1>5, <1>6, <3>3, <4>2
    <3> QED
      BY <3>1, <3>2, <3>3 DEF KeyInv, RotateInv
  <2> QED
    BY <2>1, <2>2, <2>3 DEF RotateInv
<1>11. ASSUME NEW j \in Kids PROVE OneOrigin(j)'
  <2>1. OneOrigin(j)
    BY DEF KeyInv
  <2>2. Follows(j)
    BY <1>1, <1>4, <1>5, <1>6 DEF Follows, Wrote
  <2> QED
    BY <2>1, <2>2, OriginKept
<1> QED
  BY <1>7, <1>8, <1>9, <1>10, <1>11 DEF KeyInv

\* A rotation retires one of the keys it read before it generated.
LEMMA RetireKeeps ==
  ASSUME KeyInv, NEW s \in Servers, NEW k \in DOMAIN server[s].rows, Retire(s, k)
  PROVE  KeyInv'
<1>1. PICK row \in Key : row = server[s].rows[k]
  BY SlotType, RowType
<1>2. k \in Kids /\ keys \in Rows /\ TypeOK
  BY SlotType, RowType DEF KeyInv
<1>3. PICK dead \in Key : /\ dead = [row EXCEPT !.active = FALSE]
                          /\ dead.created = row.created /\ dead.alg = row.alg /\ ~dead.active
  BY Retired
<1>4. keys' = Put(keys, k, dead)
  BY <1>1, <1>3 DEF Retire
<1>5. /\ keys' \in Rows /\ DOMAIN keys' = DOMAIN keys \cup {k} /\ keys'[k] = dead
      /\ \A j \in DOMAIN keys : j # k => keys'[j] = keys[j]
  <2>1. dead \in Key
    BY <1>3
  <2>2. /\ Put(keys, k, dead) \in Rows /\ DOMAIN Put(keys, k, dead) = DOMAIN keys \cup {k}
        /\ Put(keys, k, dead)[k] = dead
        /\ \A j \in DOMAIN keys : j # k => Put(keys, k, dead)[j] = keys[j]
    BY <1>2, <2>1, PutRow
  <2> QED
    BY <1>4, <2>2
<1>6. PICK rows \in Rows : /\ rows = Remove(server[s].rows, k)
                           /\ DOMAIN rows = DOMAIN server[s].rows \ {k}
                           /\ \A j \in DOMAIN rows : rows[j] = server[s].rows[j]
  <2>1. server[s].rows \in Rows
    BY SlotType
  <2>2. /\ Remove(server[s].rows, k) \in Rows
        /\ DOMAIN Remove(server[s].rows, k) = DOMAIN server[s].rows \ {k}
        /\ \A j \in DOMAIN server[s].rows : j # k =>
             Remove(server[s].rows, k)[j] = server[s].rows[j]
    BY <2>1, RemoveRow
  <2> QED
    BY <2>2
<1> DEFINE q == [server[s] EXCEPT !.rows = rows]
<1>7. q \in Server /\ q.pc = "retire" /\ q.rows = rows /\ q.clock = server[s].clock
  BY SlotType DEF Server, Retire
<1>8. Goto(s, q)
  BY <1>6 DEF Retire
<1> HIDE DEF q
<1>9. /\ server' \in [Servers -> Server] /\ Settled(q, server'[s])
      /\ \A r \in Servers : r # s => server'[r] = server[r]
  BY <1>2, <1>7, <1>8, OneServer
<1>10. /\ server'[s].pc \in {"retire", "idle", "ensure", "check", "read_active"}
       /\ server'[s].rows = rows \/ DOMAIN server'[s].rows = {}
       /\ server'[s].clock <= now
  BY <1>7, <1>9, SlotType DEF Settled, Time
<1>11. /\ now' = now /\ signer' = signer /\ tokens' = tokens /\ aged' = aged
       /\ aged \subseteq Algorithms /\ server[s].pc = "retire"
  BY <1>2 DEF Retire, TypeOK
<1>12. \A j \in DOMAIN server'[s].rows :
         j \in DOMAIN server[s].rows /\ server'[s].rows[j] = server[s].rows[j]
  BY <1>6, <1>10
<1>13. Wrote(s, k)
  BY <1>1, <1>3, <1>5, <1>9, <1>10, <1>11, <1>12 DEF Wrote
<1> QED
  BY <1>13, WroteKeeps

\* mark_expired_keys purges or retires one of the keys it read.
LEMMA MarkKeyKeeps ==
  ASSUME KeyInv, NEW s \in Servers, NEW k \in DOMAIN server[s].rows, MarkKey(s, k)
  PROVE  KeyInv'
<1>1. PICK row \in Key : row = server[s].rows[k]
  BY SlotType, RowType
<1>2. k \in Kids /\ keys \in Rows /\ TypeOK
  BY SlotType, RowType DEF KeyInv
<1>3. PICK dead \in Key : /\ dead = [row EXCEPT !.active = FALSE]
                          /\ dead.created = row.created /\ dead.alg = row.alg /\ ~dead.active
  BY Retired
<1>4. PICK clock \in Time : clock = server[s].clock /\ clock <= now
  BY SlotType
<1>5. \/ Purgeable(row, clock) /\ keys' = Remove(keys, k)
      \/ keys' = Put(keys, k, dead)
  BY <1>1, <1>3, <1>4 DEF MarkKey
<1>6. \/ /\ keys' \in Rows /\ DOMAIN keys' = DOMAIN keys \cup {k} /\ keys'[k] = dead
         /\ \A j \in DOMAIN keys : j # k => keys'[j] = keys[j]
      \/ /\ Purgeable(row, clock) /\ keys' \in Rows /\ DOMAIN keys' = DOMAIN keys \ {k}
         /\ \A j \in DOMAIN keys : j # k => keys'[j] = keys[j]
  <2>0. dead \in Key
    BY <1>3
  <2>1. /\ Put(keys, k, dead) \in Rows /\ DOMAIN Put(keys, k, dead) = DOMAIN keys \cup {k}
        /\ Put(keys, k, dead)[k] = dead
        /\ \A j \in DOMAIN keys : j # k => Put(keys, k, dead)[j] = keys[j]
    BY <1>2, <2>0, PutRow
  <2>2. /\ Remove(keys, k) \in Rows /\ DOMAIN Remove(keys, k) = DOMAIN keys \ {k}
        /\ \A j \in DOMAIN keys : j # k => Remove(keys, k)[j] = keys[j]
    BY <1>2, RemoveRow
  <2> QED
    BY <1>5, <2>1, <2>2
<1>7. Purgeable(row, clock) => ~Lasting(row.created)
  <2>1. row.created \in Nat /\ clock \in Nat /\ now \in Nat /\ clock <= now
    BY <1>4, SlotType DEF Key, Time
  <2> QED
    BY <2>1 DEF Purgeable, Lasting
<1>8. PICK rows \in Rows : /\ rows = Remove(server[s].rows, k)
                           /\ DOMAIN rows = DOMAIN server[s].rows \ {k}
                           /\ \A j \in DOMAIN rows : rows[j] = server[s].rows[j]
  <2>1. server[s].rows \in Rows
    BY SlotType
  <2>2. /\ Remove(server[s].rows, k) \in Rows
        /\ DOMAIN Remove(server[s].rows, k) = DOMAIN server[s].rows \ {k}
        /\ \A j \in DOMAIN server[s].rows : j # k =>
             Remove(server[s].rows, k)[j] = server[s].rows[j]
    BY <2>1, RemoveRow
  <2> QED
    BY <2>2
<1>9. PICK removed \in BOOLEAN :
        removed = (server[s].removed \/ Purgeable(server[s].rows[k], server[s].clock))
  OBVIOUS
<1> DEFINE q == [server[s] EXCEPT !.rows = rows, !.removed = removed]
<1>10. q \in Server /\ q.pc = "mark" /\ q.rows = rows /\ q.clock = server[s].clock
  BY SlotType DEF Server, MarkKey
<1>11. Goto(s, q)
  BY <1>8, <1>9 DEF MarkKey
<1> HIDE DEF q
<1>12. /\ server' \in [Servers -> Server] /\ Settled(q, server'[s])
       /\ \A r \in Servers : r # s => server'[r] = server[r]
  BY <1>2, <1>10, <1>11, OneServer
<1>13. /\ server'[s].pc \in {"mark", "idle", "ensure", "check", "read_active"}
       /\ server'[s].rows = rows \/ DOMAIN server'[s].rows = {}
       /\ server'[s].clock <= now
  BY <1>10, <1>12, SlotType DEF Settled, Time
<1>14. /\ now' = now /\ signer' = signer /\ tokens' = tokens /\ aged' = aged \cup {row.alg}
       /\ aged' \subseteq Algorithms
  BY <1>1, <1>2 DEF MarkKey, TypeOK, Key
<1>15. \A j \in DOMAIN server'[s].rows :
         j \in DOMAIN server[s].rows /\ server'[s].rows[j] = server[s].rows[j]
  BY <1>8, <1>13
<1>16. Wrote(s, k)
  BY <1>1, <1>3, <1>6, <1>7, <1>12, <1>13, <1>14, <1>15 DEF Wrote
<1> QED
  BY <1>16, WroteKeeps

--------------------------------------------------------------------------------
(* Steps that generate a key.                                               *)

\* A new active key k of algorithm alg, under a kid that nothing refers to; a
\* rotation of alg may go on to retire what it has read.
Made(k, alg) ==
  /\ k \in Kids /\ alg \in Algorithms
  /\ k \notin DOMAIN keys /\ \A tok \in tokens : tok.kid # k
  /\ \A s \in Servers : k \notin DOMAIN server[s].rows \cup server[s].due
  /\ \A g \in Signers : signer[g].kid # k
  /\ keys' \in Rows /\ DOMAIN keys' = DOMAIN keys \cup {k}
  /\ keys'[k].created = now /\ keys'[k].alg = alg /\ keys'[k].active
  /\ \A j \in DOMAIN keys : keys'[j] = keys[j]
  /\ server' \in [Servers -> Server]
  /\ \A s \in Servers :
       \/ server'[s] = server[s]
       \/ /\ server'[s].rows = server[s].rows \/ DOMAIN server'[s].rows = {}
          /\ server'[s].clock <= now
          /\ server'[s].pc \notin {"generate", "rotate", "read_retired"}
          /\ server'[s].pc = "retire" =>
               \A j \in DOMAIN server[s].rows : server[s].rows[j].alg = alg
  /\ signer' \in [Signers -> Signer]
  /\ \A g \in Signers :
       \/ signer'[g] = signer[g]
       \/ /\ signer'[g].kid = signer[g].kid /\ signer'[g].born = signer[g].born
          /\ signer'[g].alg = alg /\ signer'[g].pc # "sign"
  /\ now' = now /\ tokens' = tokens /\ aged' = aged

LEMMA MadeKeeps ==
  ASSUME KeyInv, NEW k \in Kids, NEW alg \in Algorithms, Made(k, alg)
  PROVE  KeyInv'
<1>1. now \in Time /\ now \in Nat
  BY DEF KeyInv, TypeOK, Time
<1>2. TypeOK'
  BY DEF KeyInv, TypeOK, Made
<1>3. KeptInv'
  BY DEF KeyInv, KeptInv, Lasting, Made
<1>4. ReadInv'
  BY DEF KeyInv, ReadInv, Made
<1>5. RotateInv'
  <2>1. \A s \in Servers :
          /\ server'[s].pc = "generate" /\ server'[s].then = "retire" =>
               \A j \in DOMAIN server'[s].rows : server'[s].rows[j].alg = server'[s].alg
          /\ server'[s].pc \in {"generate", "rotate"} => server'[s].alg \in Algorithms
    BY DEF KeyInv, RotateInv, Made
  <2>2. \A s \in Servers : \A j \in DOMAIN server'[s].rows :
          j \in DOMAIN server[s].rows /\ server'[s].rows[j] = server[s].rows[j]
    BY DEF Made
  <2>3. \A s \in Servers : \A j \in DOMAIN server'[s].rows :
          j \in DOMAIN keys' \/ server'[s].rows[j].alg \in aged'
    BY <2>2 DEF KeyInv, RotateInv, Made
  <2>4. ASSUME NEW a \in Algorithms \ aged'
        PROVE  Spared(a)' \/ \A j \in DOMAIN keys' : keys'[j].alg # a
    <3>1. CASE a = alg
      <4>1. k \in ActiveKids(a)'
        BY <3>1 DEF ActiveKids, Made
      <4>2. \A s \in Servers : k \notin DOMAIN server'[s].rows
        BY <2>2 DEF Made
      <4> QED
        BY <4>1, <4>2 DEF Spared
    <3>2. CASE a # alg /\ Spared(a)
      <4>1. PICK n \in ActiveKids(a) : \A s \in Servers :
              server[s].pc = "retire" => n \notin DOMAIN server[s].rows
        BY <3>2 DEF Spared
      <4>2. n \in DOMAIN keys /\ keys[n].alg = a /\ n \in Kids /\ n \in ActiveKids(a)'
        BY <4>1, RowType DEF ActiveKids, Made, KeyInv, TypeOK
      <4>3. \A s \in Servers : n \in DOMAIN server[s].rows => server[s].rows[n].alg = a
        BY <4>2 DEF KeyInv, OneOrigin, Origin
      <4>4. \A s \in Servers : server'[s].pc = "retire" => n \notin DOMAIN server'[s].rows
        BY <2>2, <3>2, <4>1, <4>3 DEF Made
      <4> QED
        BY <4>2, <4>4 DEF Spared
    <3>3. CASE a # alg /\ \A j \in DOMAIN keys : keys[j].alg # a
      BY <3>3 DEF Made
    <3>4. a \in Algorithms \ aged
      BY DEF Made
    <3> QED
      BY <3>1, <3>2, <3>3, <3>4 DEF KeyInv, RotateInv
  <2> QED
    BY <2>1, <2>3, <2>4 DEF RotateInv
<1>6. ASSUME NEW j \in Kids PROVE OneOrigin(j)'
  <2>1. CASE j = k
    <3>1. Origin(k, now, alg)'
      BY DEF Origin, Made
    <3>2. now' = now
      BY DEF Made
    <3> QED
      BY <1>1, <2>1, <3>1, <3>2 DEF OneOrigin
  <2>2. CASE j # k
    <3>1. OneOrigin(j)
      BY DEF KeyInv
    <3>2. Follows(j)
      BY <2>2 DEF Follows, Made
    <3> QED
      BY <3>1, <3>2, OriginKept
  <2> QED
    BY <2>1, <2>2
<1> QED
  BY <1>2, <1>3, <1>4, <1>5, <1>6 DEF KeyInv

\* What a generation does to the store.
LEMMA FreshKey ==
  ASSUME KeyInv, NEW k \in Kids, NEW alg \in Algorithms, Fresh(k, alg)
  PROVE  /\ k \notin DOMAIN keys /\ \A tok \in tokens : tok.kid # k
         /\ \A s \in Servers : k \notin DOMAIN server[s].rows \cup server[s].due
         /\ \A g \in Signers : signer[g].kid # k
         /\ keys' \in Rows /\ DOMAIN keys' = DOMAIN keys \cup {k}
         /\ keys'[k].created = now /\ keys'[k].alg = alg /\ keys'[k].active
         /\ \A j \in DOMAIN keys : keys'[j] = keys[j]
<1>1. keys \in Rows /\ now \in Time
  BY DEF KeyInv, TypeOK
<1>2. PICK row \in Key : row = [alg |-> alg, created |-> now, active |-> TRUE]
  BY <1>1 DEF Key
<1>3. row \in Key /\ row.created = now /\ row.alg = alg /\ row.active
  BY <1>2
<1>4. /\ Put(keys, k, row) \in Rows /\ DOMAIN Put(keys, k, row) = DOMAIN keys \cup {k}
      /\ Put(keys, k, row)[k] = row
      /\ \A j \in DOMAIN keys : j # k => Put(keys, k, row)[j] = keys[j]
  BY <1>1, <1>3, PutRow
<1>5. keys' = Put(keys, k, row)
  BY <1>2 DEF Fresh
<1> QED
  BY <1>3, <1>4, <1>5 DEF Fresh

LEMMA GenerateKeeps ==
  ASSUME KeyInv, NEW s \in Servers, NEW k \in Kids, Generate(s, k)
  PROVE  KeyInv'
<1>1. PICK alg \in Algorithms : alg = server[s].alg
  BY DEF KeyInv, RotateInv, Generate
<1>2. Fresh(k, alg) /\ alg \in Algorithms
  BY <1>1 DEF Generate
<1>3. /\ k \notin DOMAIN keys /\ \A tok \in tokens : tok.kid # k
      /\ \A r \in Servers : k \notin DOMAIN server[r].rows \cup server[r].due
      /\ \A g \in Signers : signer[g].kid # k
      /\ keys' \in Rows /\ DOMAIN keys' = DOMAIN keys \cup {k}
      /\ keys'[k].created = now /\ keys'[k].alg = alg /\ keys'[k].active
      /\ \A j \in DOMAIN keys : keys'[j] = keys[j]
  BY <1>2, FreshKey
<1> DEFINE q == [server[s] EXCEPT !.pc = server[s].then, !.alg = NoAlg, !.then = "ensure"]
<1>4. /\ q \in Server /\ q.pc = server[s].then /\ q.pc \in {"ensure", "check", "retire"}
      /\ q.rows = server[s].rows /\ q.clock = server[s].clock
  BY SlotType DEF Server
<1>5. Goto(s, q) /\ TypeOK
  BY DEF Generate, KeyInv
<1> HIDE DEF q
<1>6. /\ server' \in [Servers -> Server] /\ Settled(q, server'[s])
      /\ \A r \in Servers : r # s => server'[r] = server[r]
  BY <1>4, <1>5, OneServer
<1>7. /\ server'[s].pc \in {"ensure", "check", "retire", "idle", "read_active"}
      /\ server'[s].pc = "retire" => server[s].then = "retire"
      /\ server'[s].rows = server[s].rows \/ DOMAIN server'[s].rows = {}
      /\ server'[s].clock <= now
  BY <1>4, <1>6, SlotType DEF Settled, Time
<1>8. server'[s].pc = "retire" => \A j \in DOMAIN server[s].rows : server[s].rows[j].alg = alg
  BY <1>1, <1>7 DEF KeyInv, RotateInv, Generate
<1>9. /\ now' = now /\ tokens' = tokens /\ aged' = aged /\ signer' = signer
      /\ signer \in [Signers -> Signer]
  BY DEF Generate, KeyInv, TypeOK
<1>10. Made(k, alg)
  BY <1>2, <1>3, <1>6, <1>7, <1>8, <1>9 DEF Made
<1> QED
  BY <1>2, <1>10, MadeKeeps

LEMMA SignGenerateKeeps ==
  ASSUME KeyInv, NEW g \in Signers, NEW k \in Kids, SignGenerate(g, k)
  PROVE  KeyInv'
<1>1. PICK alg \in Algorithms : alg = signer[g].alg
  BY DEF KeyInv, KeptInv, SignGenerate
<1>2. Fresh(k, alg) /\ alg \in Algorithms
  BY <1>1 DEF SignGenerate
<1>3. /\ k \notin DOMAIN keys /\ \A tok \in tokens : tok.kid # k
      /\ \A r \in Servers : k \notin DOMAIN server[r].rows \cup server[r].due
      /\ \A h \in Signers : signer[h].kid # k
      /\ keys' \in Rows /\ DOMAIN keys' = DOMAIN keys \cup {k}
      /\ keys'[k].created = now /\ keys'[k].alg = alg /\ keys'[k].active
      /\ \A j \in DOMAIN keys : keys'[j] = keys[j]
  BY <1>2, FreshKey
<1> DEFINE q == [signer[g] EXCEPT !.pc = "lookup"]
<1>4. signer[g] \in Signer /\ signer \in [Signers -> Signer]
  BY DEF KeyInv, TypeOK
<1>5. /\ q \in Signer /\ q.pc = "lookup" /\ q.kid = signer[g].kid
      /\ q.born = signer[g].born /\ q.alg = signer[g].alg
  BY <1>4 DEF Signer
<1>6. signer' = [signer EXCEPT ![g] = q]
  BY <1>4 DEF SignGenerate
<1> HIDE DEF q
<1>7. /\ signer' \in [Signers -> Signer] /\ signer'[g] = q
      /\ \A h \in Signers : h # g => signer'[h] = signer[h]
  BY <1>4, <1>5, <1>6
<1>8. /\ now' = now /\ tokens' = tokens /\ aged' = aged /\ server' = server
      /\ server \in [Servers -> Server]
  BY DEF SignGenerate, KeyInv, TypeOK
<1>9. Made(k, alg)
  BY <1>1, <1>2, <1>3, <1>5, <1>7, <1>8 DEF Made
<1> QED
  BY <1>2, <1>9, MadeKeeps

--------------------------------------------------------------------------------
(* Signatures and the clock.                                                *)

\* A signature picks a key of the store, or none.
Picked(g) ==
  /\ signer' \in [Signers -> Signer]
  /\ \A h \in Signers : h # g => signer'[h] = signer[h]
  /\ \/ /\ signer'[g].kid \in DOMAIN keys /\ signer'[g].born = keys[signer'[g].kid].created
        /\ signer'[g].alg \in Algorithms
     \/ /\ signer'[g].kid = NoKid /\ signer'[g].pc # "sign"
        /\ signer'[g].pc = "idle" \/ signer'[g].alg \in Algorithms
  /\ UNCHANGED <<now, keys, server, tokens, aged>>

LEMMA PickedKeeps ==
  ASSUME KeyInv, NEW g \in Signers, Picked(g)
  PROVE  KeyInv'
<1>1. DOMAIN keys \subseteq Kids
  BY RowType DEF KeyInv, TypeOK
<1>2. TypeOK'
  BY DEF KeyInv, TypeOK, Picked
<1>3. KeptInv'
  BY <1>1 DEF KeyInv, KeptInv, Lasting, Picked
<1>4. ReadInv' /\ RotateInv'
  BY DEF KeyInv, ReadInv, RotateInv, Spared, ActiveKids, Picked
<1>5. ASSUME NEW k \in Kids PROVE OneOrigin(k)'
  <2>1. OneOrigin(k)
    BY DEF KeyInv
  <2>2. Follows(k)
    BY DEF Follows, Picked
  <2> QED
    BY <2>1, <2>2, OriginKept
<1> QED
  BY <1>2, <1>3, <1>4, <1>5 DEF KeyInv

LEMMA SignPicks ==
  ASSUME KeyInv, NEW g \in Signers,
         (\E alg \in Algorithms : SignStart(g, alg)) \/ SignLookup(g)
  PROVE  Picked(g)
<1>1. PICK alg \in Algorithms :
        \/ \E k \in ActiveKids(alg) : Pick(g, alg, k)
        \/ signer' = [signer EXCEPT ![g] = [Quiet EXCEPT !.pc = "generate", !.alg = alg]]
        \/ signer' = [signer EXCEPT ![g] = Quiet]
  BY DEF SignStart, SignLookup, KeyInv, KeptInv
<1>2. UNCHANGED <<now, keys, server, tokens, aged>> /\ signer \in [Signers -> Signer]
  BY DEF SignStart, SignLookup, KeyInv, TypeOK
<1>3. alg \in Algorithms /\ 0 \in Time
  BY <1>1 DEF Time
<1>4. ASSUME NEW k \in ActiveKids(alg), Pick(g, alg, k) PROVE Picked(g)
  <2>1. k \in DOMAIN keys /\ k \in Kids /\ keys[k].created \in Time
    BY RowType DEF KeyInv, TypeOK, ActiveKids
  <2>2. [pc |-> "sign", alg |-> alg, kid |-> k, born |-> keys[k].created] \in Signer
    BY <1>3, <2>1 DEF Signer
  <2>3. /\ signer' \in [Signers -> Signer]
        /\ signer'[g] = [pc |-> "sign", alg |-> alg, kid |-> k, born |-> keys[k].created]
        /\ \A h \in Signers : h # g => signer'[h] = signer[h]
    BY <1>2, <1>4, <2>2 DEF Pick
  <2> QED
    BY <1>2, <1>3, <2>1, <2>3 DEF Picked
<1>5. ASSUME NEW q, q \in Signer, q.kid = NoKid, q.pc # "sign",
             q.pc = "idle" \/ q.alg \in Algorithms,
             signer' = [signer EXCEPT ![g] = q]
      PROVE  Picked(g)
  <2>1. /\ signer' \in [Signers -> Signer] /\ signer'[g] = q
        /\ \A h \in Signers : h # g => signer'[h] = signer[h]
    BY <1>2, <1>5
  <2> QED
    BY <1>2, <1>5, <2>1 DEF Picked
<1>6. Quiet \in Signer /\ Quiet.kid = NoKid /\ Quiet.pc = "idle"
  BY <1>3 DEF Quiet, Signer
<1> DEFINE q == [Quiet EXCEPT !.pc = "generate", !.alg = alg]
<1>7. q \in Signer /\ q.kid = NoKid /\ q.pc = "generate" /\ q.alg = alg
  BY <1>3, <1>6 DEF Signer
<1> HIDE DEF q
<1>8. CASE signer' = [signer EXCEPT ![g] = q]
  BY <1>3, <1>5, <1>7, <1>8
<1>9. CASE signer' = [signer EXCEPT ![g] = Quiet]
  BY <1>5, <1>6, <1>9
<1> QED
  BY <1>1, <1>4, <1>8, <1>9 DEF q

LEMMA SignKeeps ==
  ASSUME KeyInv, NEW g \in Signers, Sign(g)
  PROVE  KeyInv'
<1> USE GraceAssumption
<1>1. /\ signer[g] \in Signer /\ signer \in [Signers -> Signer] /\ signer[g].pc = "sign"
      /\ now \in Time /\ now \in Nat
  BY DEF KeyInv, TypeOK, Sign, Time
<1>2. signer[g].kid \in Kids /\ (Lasting(signer[g].born) => signer[g].kid \in DOMAIN keys)
  BY <1>1 DEF KeyInv, KeptInv
<1>3. PICK new \in [kid : Kids, born : Time, at : Time] :
        /\ new = [kid |-> signer[g].kid, born |-> signer[g].born, at |-> now]
  BY <1>1, <1>2 DEF Signer
<1>4. new.kid = signer[g].kid /\ new.born = signer[g].born /\ new.at = now
  BY <1>3
<1>5. tokens' = tokens \cup {new} /\ UNCHANGED <<now, keys, server, aged>>
  BY <1>3 DEF Sign
<1>6. Quiet \in Signer /\ Quiet.pc = "idle" /\ Quiet.kid = NoKid
  BY DEF Quiet, Signer, Time
<1>7. /\ signer' \in [Signers -> Signer] /\ signer'[g] = Quiet
      /\ \A h \in Signers : h # g => signer'[h] = signer[h]
  BY <1>1, <1>6 DEF Sign
<1>8. TypeOK'
  BY <1>3, <1>5, <1>7 DEF KeyInv, TypeOK
<1>9. KeptInv'
  BY <1>1, <1>2, <1>4, <1>5, <1>6, <1>7 DEF KeyInv, KeptInv, Lasting
<1>10. ReadInv' /\ RotateInv'
  BY <1>5 DEF KeyInv, ReadInv, RotateInv, Spared, ActiveKids
<1>11. ASSUME NEW k \in Kids PROVE OneOrigin(k)'
  <2>1. OneOrigin(k)
    BY DEF KeyInv
  <2>2. Follows(k)
    BY <1>4, <1>5, <1>6, <1>7 DEF Follows
  <2> QED
    BY <2>1, <2>2, OriginKept
<1> QED
  BY <1>8, <1>9, <1>10, <1>11 DEF KeyInv

\* A later time purges more: what lasts then lasts now.
LEMMA TickKeeps ==
  ASSUME KeyInv, Tick
  PROVE  KeyInv'
<1>1. now \in Nat /\ now' \in Time /\ now' = now + 1
  BY DEF KeyInv, TypeOK, Tick, Time
<1>2. UNCHANGED <<keys, server, signer, aged>> /\ tokens' \subseteq tokens
      /\ \A tok \in tokens' : now' < tok.at + TokenTtl
  BY <1>1 DEF Tick
<1>3. TypeOK'
  BY <1>1, <1>2 DEF KeyInv, TypeOK
<1>4. ASSUME NEW t \in Time, Lasting(t)' PROVE Lasting(t)
  BY <1>1, <1>4 DEF Lasting, Time
<1>5. KeptInv'
  <2>1. \A s \in Servers : server[s].clock <= now'
    <3>1. \A s \in Servers : server[s].clock \in Nat /\ server[s].clock <= now
      BY SlotType DEF Time
    <3> QED
      BY <1>1, <3>1
  <2>2. \A tok \in tokens' : tok.at <= now' /\ now' < tok.at + TokenTtl
    <3>1. \A tok \in tokens : tok.at \in Nat /\ tok.at <= now
      BY DEF KeyInv, KeptInv, TypeOK, Time
    <3> QED
      BY <1>1, <1>2, <3>1
  <2>3. \A g \in Signers : signer[g].born \in Time
    BY DEF KeyInv, TypeOK, Signer
  <2>4. \A tok \in tokens' : tok.born \in Time
    BY <1>2 DEF KeyInv, TypeOK
  <2> QED
    BY <1>2, <1>4, <2>1, <2>2, <2>3, <2>4 DEF KeyInv, KeptInv
<1>6. ReadInv' /\ RotateInv'
  BY <1>2 DEF KeyInv, ReadInv, RotateInv, Spared, ActiveKids
<1>7. ASSUME NEW k \in Kids PROVE OneOrigin(k)'
  <2>1. OneOrigin(k)
    BY DEF KeyInv
  <2>2. Follows(k)
    BY <1>2 DEF Follows
  <2> QED
    BY <2>1, <2>2, OriginKept
<1> QED
  BY <1>3, <1>5, <1>6, <1>7 DEF KeyInv

--------------------------------------------------------------------------------
(* The invariant.                                                           *)

LEMMA InitInv == Init => KeyInv
<1> SUFFICES ASSUME Init PROVE KeyInv
  OBVIOUS
<1>1. 0 \in Time /\ now = 0 /\ tokens = {} /\ aged = {} /\ keys \in Rows /\ DOMAIN keys = {}
  BY NoRows DEF Init, Time
<1>2. Quiet \in Signer /\ Quiet.kid = NoKid /\ Quiet.pc = "idle"
  BY <1>1 DEF Quiet, Signer
<1>3. server \in [Servers -> Server] /\ signer \in [Signers -> Signer]
  BY <1>2, RestingType DEF Init
<1>4. \A s \in Servers : /\ server[s].pc \in {"idle", "ensure"} /\ server[s].clock = 0
                         /\ DOMAIN server[s].rows = {}
  BY RestingType DEF Init
<1>5. \A g \in Signers : signer[g].kid = NoKid /\ signer[g].pc = "idle"
  BY <1>2 DEF Init
<1>6. TypeOK
  BY <1>1, <1>3 DEF TypeOK
<1>7. KeptInv /\ ReadInv /\ RotateInv
  BY <1>1, <1>4, <1>5 DEF KeptInv, ReadInv, RotateInv
<1>8. ASSUME NEW k \in Kids PROVE OneOrigin(k)
  <2>1. Origin(k, 0, NoAlg)
    BY <1>1, <1>4, <1>5 DEF Origin
  <2> QED
    BY <1>1, <2>1 DEF OneOrigin
<1> QED
  BY <1>6, <1>7, <1>8 DEF KeyInv

LEMMA ServeKeeps ==
  ASSUME KeyInv, NEW s \in Servers, Serve(s)
  PROVE  KeyInv'
<1>1. CASE MarkStart(s)
  BY <1>1, MarkStartKeeps
<1>2. CASE AdminStart(s)
  BY <1>2, AdminStartKeeps
<1>3. CASE ReadActive(s)
  BY <1>3, ReadActiveKeeps
<1>4. CASE ReadRetired(s) \/ Crash(s)
  BY <1>4, ResetKeeps
<1>5. ASSUME NEW alg \in Algorithms, EnsureActive(s, alg) PROVE KeyInv'
  <2>1. PICK pc \in {"ensure", "check", "generate", "rotate"} : Visit(s, alg, pc)
    BY <1>5 DEF EnsureActive
  <2>2. server[s].pc \in {"ensure", "check"}
    BY <1>5 DEF EnsureActive
  <2> QED
    BY <2>1, <2>2, VisitKeeps
<1>6. ASSUME NEW alg \in Algorithms, CheckAge(s, alg) PROVE KeyInv'
  <2>1. PICK pc \in {"ensure", "check", "generate", "rotate"} : Visit(s, alg, pc)
    BY <1>6 DEF CheckAge
  <2>2. server[s].pc \in {"ensure", "check"}
    BY <1>6 DEF CheckAge
  <2> QED
    BY <2>1, <2>2, VisitKeeps
<1>7. ASSUME NEW alg \in Algorithms, RotateRead(s, alg) PROVE KeyInv'
  BY <1>7, RotateReadKeeps
<1>8. ASSUME NEW k \in DOMAIN server[s].rows, MarkKey(s, k) PROVE KeyInv'
  BY <1>8, MarkKeyKeeps
<1>9. ASSUME NEW k \in DOMAIN server[s].rows, Retire(s, k) PROVE KeyInv'
  BY <1>9, RetireKeeps
<1>10. ASSUME NEW k \in Kids, Generate(s, k) PROVE KeyInv'
  BY <1>10, GenerateKeeps
<1> QED
  BY <1>1, <1>2, <1>3, <1>4, <1>5, <1>6, <1>7, <1>8, <1>9, <1>10 DEF Serve

LEMMA SignatureKeeps ==
  ASSUME KeyInv, NEW g \in Signers, Signature(g)
  PROVE  KeyInv'
<1>1. CASE (\E alg \in Algorithms : SignStart(g, alg)) \/ SignLookup(g)
  BY <1>1, SignPicks, PickedKeeps
<1>2. ASSUME NEW k \in Kids, SignGenerate(g, k) PROVE KeyInv'
  BY <1>2, SignGenerateKeeps
<1>3. CASE Sign(g)
  BY <1>3, SignKeeps
<1> QED
  BY <1>1, <1>2, <1>3 DEF Signature

LEMMA StepInv == KeyInv /\ [Next]_vars => KeyInv'
<1> SUFFICES ASSUME KeyInv, [Next]_vars PROVE KeyInv'
  OBVIOUS
<1>1. ASSUME NEW s \in Servers, Serve(s) PROVE KeyInv'
  BY <1>1, ServeKeeps
<1>2. ASSUME NEW g \in Signers, Signature(g) PROVE KeyInv'
  BY <1>2, SignatureKeeps
<1>3. CASE Tick
  BY <1>3, TickKeeps
<1>4. CASE UNCHANGED vars
  BY <1>4 DEF vars, KeyInv, TypeOK, KeptInv, ReadInv, RotateInv, Spared, ActiveKids,
              Lasting, OneOrigin, Origin
<1> QED
  BY <1>1, <1>2, <1>3, <1>4 DEF Next

\* The store, the copies of its rows that the processes of jwks.py hold, the
\* signatures in progress and the tokens agree: KeyInv holds in every state, for
\* any number of processes, keys, algorithms and signatures.
THEOREM KeyInvariant == Spec => []KeyInv
BY InitInv, StepInv, PTL DEF Spec

--------------------------------------------------------------------------------
(* What follows from it.                                                    *)

\* "An active key exists at all times": rotate_key generates before it retires, and
\* no interleaving of rotations, publications, signatures and restarts leaves an
\* algorithm with keys and no active one, until mark_expired_keys retires one of
\* them for its age.
THEOREM ActiveHolds == Spec => []ActiveUnlessAged
<1>1. KeyInv => ActiveUnlessAged
  <2> SUFFICES ASSUME KeyInv, NEW k \in DOMAIN keys, keys[k].alg \notin aged
               PROVE  ActiveKids(keys[k].alg) # {}
    BY DEF ActiveUnlessAged
  <2>1. keys[k].alg \in Algorithms \ aged
    BY RowType DEF KeyInv, TypeOK
  <2>2. Spared(keys[k].alg)
    BY <2>1 DEF KeyInv, RotateInv
  <2> QED
    BY <2>2 DEF Spared
<1> QED
  BY <1>1, KeyInvariant, PTL

LEMMA InAgeKept ==
  ASSUME KeyInv, NEW tok \in tokens, InAge(tok)
  PROVE  tok.kid \in DOMAIN keys
<1>1. /\ tok.at \in Nat /\ tok.born \in Nat /\ now \in Nat
      /\ now < tok.at + TokenTtl
  BY DEF KeyInv, TypeOK, KeptInv, Time
<1>2. Lasting(tok.born)
  BY <1>1, GraceAssumption DEF InAge, Lasting
<1> QED
  BY <1>2 DEF KeyInv, KeptInv

\* Retirement, purge and the upsert of an old copy of a row leave the key of a valid
\* token in the store, unless the key was over age when the token was signed: the
\* deadline of a purge is counted from a clock that is never ahead of the present,
\* and the grace period covers the life of a token.
THEOREM Verifiable == Spec => []VerifiableUntilExpiry
<1>1. KeyInv => VerifiableUntilExpiry
  BY InAgeKept DEF VerifiableUntilExpiry
<1> QED
  BY <1>1, KeyInvariant, PTL

\* get_published_keys reads the active keys and then the retired ones.  A key goes
\* from active to retired and never back, so that a key of the store is found by one
\* of the two reads although another process writes between them.
THEOREM PublicationHolds == Spec => []PublicationComplete
<1>1. KeyInv => PublicationComplete
  <2> SUFFICES ASSUME KeyInv, NEW s \in Servers, server[s].pc = "read_retired",
                      NEW tok \in tokens, InAge(tok), tok.kid \in server[s].due
               PROVE  tok.kid \in Published(s)
    BY DEF PublicationComplete
  <2>1. tok.kid \in DOMAIN keys
    BY InAgeKept
  <2>2. tok.kid \in server[s].kids \/ ~keys[tok.kid].active
    BY <2>1 DEF KeyInv, ReadInv
  <2> QED
    BY <2>1, <2>2 DEF Published
<1> QED
  BY <1>1, KeyInvariant, PTL

--------------------------------------------------------------------------------
(* ResourceAccess.  Its assumptions are hypotheses of what follows.         *)

CONSTANTS
  Tokens, NoToken, Exp, Keys, NoKey, BoundKey, Proofs, NoProof, Ath, Jkt, Iat,
  Calls, Revocations, Skew

VARIABLES
  denylist, replays, call, revocation, confirmed, served, accepted, reused, excused

R == INSTANCE ResourceAccess

USE DEF R!TokenAssumption, R!ProofAssumption

--------------------------------------------------------------------------------
(* Types.                                                                   *)

\* Writing an entry changes that entry alone.
LEMMA PutEntry ==
  ASSUME NEW f, NEW k, NEW v
  PROVE  /\ DOMAIN R!Put(f, k, v) = DOMAIN f \cup {k}
         /\ R!Put(f, k, v)[k] = v
         /\ \A x \in DOMAIN f : x # k => R!Put(f, k, v)[x] = f[x]
BY DEF R!Put

\* The purge removes the entries whose expiry has come, and no other.
LEMMA PurgedEntries ==
  ASSUME NEW f
  PROVE  /\ DOMAIN R!Purged(f) = {y \in DOMAIN f : f[y] > now}
         /\ \A x \in DOMAIN R!Purged(f) : R!Purged(f)[x] = f[x]
BY DEF R!Purged

\* What the type invariant says of a store.
Store(f, S) == DOMAIN f \subseteq S /\ \A x \in DOMAIN f : f[x] \in Nat

\* Writes and purges leave a store a store.
LEMMA StoreKept ==
  ASSUME NEW S, NEW f, Store(f, S)
  PROVE  /\ Store(R!Purged(f), S)
         /\ \A k \in S, v \in Nat : Store(R!Put(f, k, v), S)
<1>1. Store(R!Purged(f), S)
  BY PurgedEntries DEF Store
<1>2. ASSUME NEW k \in S, NEW v \in Nat
      PROVE  Store(R!Put(f, k, v), S)
  <2>1. /\ DOMAIN R!Put(f, k, v) = DOMAIN f \cup {k}
        /\ R!Put(f, k, v)[k] = v
        /\ \A x \in DOMAIN f : x # k => R!Put(f, k, v)[x] = f[x]
    BY DEF R!Put
  <2> QED
    BY <2>1 DEF Store
<1> QED
  BY <1>1, <1>2

\* The blank calls are calls.
LEMMA IdleType == R!CallIdle \in R!Call /\ R!RevocationIdle \in R!Revocation
BY DEF R!CallIdle, R!RevocationIdle, R!Call, R!Revocation

\* A step of a presentation moves that presentation alone.
LEMMA OneCall ==
  ASSUME R!TokenAssumption, R!ProofAssumption,
         R!TypeOK, NEW c \in Calls, NEW q \in R!Call, call' = [call EXCEPT ![c] = q]
  PROVE  /\ call' \in [Calls -> R!Call]
         /\ call'[c] = q
         /\ \A d \in Calls : d # c => call'[d] = call[d]
BY DEF R!TypeOK

\* A presentation stands where CheckProof, Lookup and SaveJti leave it.
LEMMA Moved ==
  ASSUME R!TokenAssumption, R!ProofAssumption,
         R!TypeInv, NEW c \in Calls, NEW p \in {"lookup", "save", "purge"}, NEW u \in Nat
  PROVE  [call[c] EXCEPT !.pc = p, !.until = u] \in R!Call
<1>1. call[c] \in R!Call
  BY DEF R!TypeInv, R!TypeOK
<1> QED
  BY <1>1 DEF R!Call

\* Every step of a presentation keeps the types.
LEMMA PresentationType ==
  ASSUME R!TokenAssumption, R!ProofAssumption,
         R!TypeInv, NEW c \in Calls, R!Presentation(c)
  PROVE  R!TypeInv'
<1>1. ASSUME NEW t \in Tokens, NEW p \in Proofs \cup {NoProof}, NEW i \in BOOLEAN,
             R!Present(c, t, p, i)
      PROVE  R!TypeInv'
  <2> DEFINE q == [pc |-> "denylist", introspect |-> i, tok |-> t, proof |-> p,
                   known |-> t \in confirmed, until |-> 0]
  <2>1. q \in R!Call
    BY DEF R!Call
  <2>2. call' = [call EXCEPT ![c] = q]
    BY <1>1 DEF R!Present
  <2>3. /\ call' \in [Calls -> R!Call] /\ call'[c] = q
        /\ \A d \in Calls : d # c => call'[d] = call[d]
    BY <2>1, <2>2, OneCall DEF R!TypeInv
  <2> QED
    BY <1>1, <2>3 DEF R!TypeInv, R!TypeOK, R!Present
<1>2. CASE R!Refuse(c) \/ R!AbortCall(c)
  <2>1. call' = [call EXCEPT ![c] = R!CallIdle]
    BY <1>2 DEF R!Refuse, R!AbortCall
  <2>2. /\ call' \in [Calls -> R!Call] /\ call'[c].pc = "idle"
        /\ \A d \in Calls : d # c => call'[d] = call[d]
    BY <2>1, IdleType, OneCall DEF R!TypeInv, R!CallIdle
  <2> QED
    BY <1>2, <2>2 DEF R!TypeInv, R!TypeOK, R!Refuse, R!AbortCall
<1>3. CASE R!AnswerUnbound(c)
  <2>1. R!InForce(call[c].tok) \in BOOLEAN /\ call[c].known \in BOOLEAN
    BY DEF R!TypeInv, R!TypeOK, R!InForce, R!Call
  <2> QED
    BY <1>3, <2>1, IdleType DEF R!TypeInv, R!TypeOK, R!AnswerUnbound, R!Answer, R!CallIdle
<1>4. CASE R!CheckProof(c)
  <2>1. R!Until \in Nat
    BY DEF R!TypeInv, R!TypeOK, R!Until
  <2>2. call' = [call EXCEPT ![c] = [call[c] EXCEPT !.pc = "lookup", !.until = R!Until]]
    BY <1>4 DEF R!TypeInv, R!TypeOK, R!CheckProof
  <2>3. call[c].tok \in Tokens /\ call[c].proof \in Proofs
    BY <1>4 DEF R!TypeInv, R!TypeOK, R!CheckProof, R!ProofFits, R!Call
  <2> DEFINE q == [call[c] EXCEPT !.pc = "lookup", !.until = R!Until]
  <2>4. q \in R!Call
    BY <2>1, Moved
  <2>5. /\ call' \in [Calls -> R!Call] /\ call'[c] = q
        /\ \A d \in Calls : d # c => call'[d] = call[d]
    BY <2>2, <2>4, OneCall DEF R!TypeInv
  <2>6. q.tok = call[c].tok /\ q.proof = call[c].proof
    BY DEF R!TypeInv, R!TypeOK, R!Call
  <2> QED
    BY <1>4, <2>3, <2>5, <2>6 DEF R!TypeInv, R!TypeOK, R!CheckProof
<1>5. CASE R!Lookup(c)
  <2>1. call[c].tok \in Tokens /\ call[c].proof \in Proofs
    BY <1>5 DEF R!TypeInv, R!Lookup
  <2>2. call' \in [Calls -> R!Call]
    BY <1>5, IdleType DEF R!TypeInv, R!TypeOK, R!Lookup, R!Call
  <2>3. excused' \subseteq Proofs
    BY <1>5, <2>1 DEF R!TypeInv, R!TypeOK, R!Lookup
  <2>4. \A d \in Calls : /\ call'[d].pc # "idle" => call'[d].tok \in Tokens
                         /\ call'[d].pc \in {"lookup", "save", "purge"} => call'[d].proof \in Proofs
    BY <1>5, <2>1, IdleType DEF R!TypeInv, R!TypeOK, R!Lookup, R!CallIdle, R!Call
  <2> QED
    BY <1>5, <2>2, <2>3, <2>4 DEF R!TypeInv, R!TypeOK, R!Lookup
<1>6. CASE R!SaveJti(c)
  <2>1. call[c].tok \in Tokens /\ call[c].proof \in Proofs /\ call[c].until \in Nat
    BY <1>6 DEF R!TypeInv, R!TypeOK, R!SaveJti, R!Call
  <2>2. Store(replays', Proofs)
    BY <1>6, <2>1, StoreKept DEF R!TypeInv, R!TypeOK, R!SaveJti, Store
  <2> DEFINE q == [call[c] EXCEPT !.pc = "purge"]
  <2>3. q \in R!Call /\ q.tok = call[c].tok /\ q.proof = call[c].proof
    BY DEF R!TypeInv, R!TypeOK, R!Call
  <2>4. /\ call' \in [Calls -> R!Call] /\ call'[c] = q
        /\ \A d \in Calls : d # c => call'[d] = call[d]
    BY <1>6, <2>3, OneCall DEF R!TypeInv, R!TypeOK, R!SaveJti
  <2> QED
    BY <1>6, <2>1, <2>2, <2>3, <2>4 DEF R!TypeInv, R!TypeOK, R!SaveJti, Store
<1>7. CASE R!Accept(c)
  <2>1. /\ R!InForce(call[c].tok) \in BOOLEAN /\ call[c].known \in BOOLEAN
        /\ call[c].proof \in Proofs
    BY <1>7 DEF R!TypeInv, R!TypeOK, R!Accept, R!InForce, R!Call
  <2>2. Store(replays', Proofs)
    BY <1>7, StoreKept DEF R!TypeInv, R!TypeOK, R!Accept, Store
  <2>3. served' \in [known : BOOLEAN, live : BOOLEAN]
    BY <1>7, <2>1 DEF R!TypeInv, R!TypeOK, R!Accept, R!Answer
  <2>4. accepted' \subseteq Proofs /\ reused' \subseteq accepted'
    BY <1>7, <2>1 DEF R!TypeInv, R!TypeOK, R!Accept
  <2> QED
    BY <1>7, <2>2, <2>3, <2>4, IdleType DEF R!TypeInv, R!TypeOK, R!Accept, Store, R!CallIdle
<1> QED
  BY <1>1, <1>2, <1>3, <1>4, <1>5, <1>6, <1>7 DEF R!Presentation

\* Every step of a revocation keeps the types.
LEMMA RevokingType ==
  ASSUME R!TokenAssumption, R!ProofAssumption,
         R!TypeInv, NEW v \in Revocations, R!Revoking(v)
  PROVE  R!TypeInv'
<1>1. ASSUME NEW t \in Tokens, R!RevokeStart(v, t)
      PROVE  R!TypeInv'
  <2>1. Store(denylist', Tokens)
    BY <1>1, StoreKept DEF R!TypeInv, R!TypeOK, R!RevokeStart, Store
  <2> QED
    BY <1>1, <2>1 DEF R!TypeInv, R!TypeOK, R!RevokeStart, R!Revocation, Store
<1>2. CASE R!RevokeValidate(v)
  <2>1. revocation[v].tok \in Tokens
    BY <1>2 DEF R!TypeInv, R!RevokeValidate
  <2>2. revocation' \in [Revocations -> R!Revocation]
    BY <1>2, IdleType DEF R!TypeInv, R!TypeOK, R!RevokeValidate, R!Revocation
  <2>3. \A w \in Revocations : revocation'[w].pc # "idle" => revocation'[w].tok \in Tokens
    BY <1>2, <2>1 DEF R!TypeInv, R!TypeOK, R!RevokeValidate, R!Revocation, R!RevocationIdle
  <2> QED
    BY <1>2, <2>2, <2>3 DEF R!TypeInv, R!TypeOK, R!RevokeValidate
<1>3. CASE R!RevokeSave(v)
  <2>1. revocation[v].tok \in Tokens
    BY <1>3 DEF R!TypeInv, R!RevokeSave
  <2>2. Store(denylist, Tokens) /\ Exp[revocation[v].tok] \in Nat
    BY <2>1 DEF R!TypeInv, R!TypeOK, Store
  <2>3. Store(R!Put(denylist, revocation[v].tok, Exp[revocation[v].tok]), Tokens)
    BY <2>1, <2>2, StoreKept
  <2>4. Store(denylist', Tokens)
    BY <1>3, <2>3 DEF R!RevokeSave
  <2> QED
    BY <1>3, <2>1, <2>4, IdleType DEF R!TypeInv, R!TypeOK, R!RevokeSave, R!RevocationIdle, Store
<1>4. CASE R!AbortRevocation(v)
  BY <1>4, IdleType DEF R!TypeInv, R!TypeOK, R!AbortRevocation, R!RevocationIdle
<1> QED
  BY <1>1, <1>2, <1>3, <1>4 DEF R!Revoking

\* Every step keeps the types.
LEMMA TypeStep ==
  ASSUME R!TokenAssumption, R!ProofAssumption,
         R!TypeInv, [R!Next]_R!vars
  PROVE  R!TypeInv'
<1>1. ASSUME NEW t \in Tokens, R!RevokeIssued(t)
      PROVE  R!TypeInv'
  <2>1. Store(denylist', Tokens)
    BY <1>1, StoreKept DEF R!TypeInv, R!TypeOK, R!RevokeIssued, Store
  <2> QED
    BY <1>1, <2>1 DEF R!TypeInv, R!TypeOK, R!RevokeIssued, Store
<1>2. CASE R!Tick
  BY <1>2 DEF R!TypeInv, R!TypeOK, R!Tick
<1>3. CASE UNCHANGED R!vars
  BY <1>3 DEF R!TypeInv, R!TypeOK, R!vars
<1> QED
  BY <1>1, <1>2, <1>3, PresentationType, RevokingType DEF R!Next

\* The initial state is well typed.
LEMMA InitType ==
  ASSUME R!TokenAssumption, R!ProofAssumption
  PROVE  R!Init => R!TypeInv
BY IdleType DEF R!Init, R!TypeInv, R!TypeOK, R!CallIdle, R!RevocationIdle

\* The strengthened type invariant holds throughout.
LEMMA TypeAlways ==
  ASSUME R!TokenAssumption, R!ProofAssumption
  PROVE  R!Spec => []R!TypeInv
BY InitType, TypeStep, PTL DEF R!Spec

\* The variables keep their types.
THEOREM TypeCorrect ==
  ASSUME R!TokenAssumption, R!ProofAssumption
  PROVE  R!Spec => []R!TypeOK
BY TypeAlways, PTL DEF R!TypeInv

--------------------------------------------------------------------------------
(* Revoked tokens.                                                          *)

\* A token that is in force after a step was in force before it.
LEMMA ForceEnds ==
  ASSUME R!TokenAssumption, R!ProofAssumption,
         R!TypeInv, [R!Next]_R!vars, NEW t \in Tokens, R!InForce(t)'
  PROVE  R!InForce(t)
<1>1. now \in Nat /\ (now' = now \/ now' = now + 1)
  BY DEF R!TypeInv, R!TypeOK, R!Next, R!Presentation, R!Revoking, R!Present, R!Refuse, R!AnswerUnbound, R!CheckProof,
         R!Lookup, R!SaveJti, R!Accept, R!AbortCall, R!RevokeStart, R!RevokeValidate, R!RevokeSave,
         R!AbortRevocation, R!RevokeIssued, R!Tick, R!vars
<1> QED
  BY <1>1 DEF R!InForce

\* What DenylistInv says of one presentation.
KnownDead(q) ==
  q.pc # "idle" =>
    /\ q.known => q.tok \in confirmed
    /\ q.known /\ q.pc # "denylist" => ~R!InForce(q.tok)

\* A call that was known to be about a revoked token still is.
LEMMA KnownKept ==
  ASSUME R!TokenAssumption, R!ProofAssumption,
         R!TypeInv, [R!Next]_R!vars, confirmed \subseteq confirmed',
         NEW d \in Calls, call'[d] = call[d], KnownDead(call[d])
  PROVE  KnownDead(call[d])'
<1>1. call[d].pc # "idle" => call[d].tok \in Tokens
  BY DEF R!TypeInv
<1>2. call[d].pc # "idle" /\ ~R!InForce(call[d].tok) => ~R!InForce(call[d].tok)'
  BY <1>1, ForceEnds DEF R!InForce
<1> QED
  BY <1>2 DEF KnownDead, R!InForce

\* The presentation of a revoked token keeps the invariant: the denylist stops
\* it unless its exp already does.
LEMMA PresentationDenylist ==
  ASSUME R!TokenAssumption, R!ProofAssumption,
         R!TypeInv, R!DenylistInv, NEW c \in Calls, R!Presentation(c)
  PROVE  R!DenylistInv'
<1>0. [R!Next]_R!vars /\ UNCHANGED <<now, denylist, confirmed>>
  BY DEF R!Next, R!Presentation, R!Present, R!Refuse, R!AnswerUnbound, R!CheckProof,
         R!Lookup, R!SaveJti, R!Accept, R!AbortCall
<1>1. \A d \in Calls : KnownDead(call[d])
  BY DEF R!DenylistInv, KnownDead
<1>2. \A d \in Calls : d # c => call'[d] = call[d]
  BY DEF R!TypeInv, R!TypeOK, R!Presentation, R!Present, R!Refuse, R!AnswerUnbound, R!CheckProof,
         R!Lookup, R!SaveJti, R!Accept, R!AbortCall
<1>3. \A d \in Calls : d # c => KnownDead(call[d])'
  BY <1>0, <1>1, <1>2, KnownKept
<1>4. /\ \A t \in DOMAIN denylist' : denylist'[t] = Exp[t]
      /\ \A t \in confirmed' : R!InForce(t)' => t \in DOMAIN denylist'
  BY <1>0 DEF R!DenylistInv, R!InForce
<1>5. ASSUME KnownDead(call[c])', R!RevokedNotServed'
      PROVE  R!DenylistInv'
  BY <1>3, <1>4, <1>5 DEF R!DenylistInv, KnownDead
<1>6. ASSUME NEW t \in Tokens, NEW p \in Proofs \cup {NoProof}, NEW i \in BOOLEAN,
             R!Present(c, t, p, i)
      PROVE  R!DenylistInv'
  <2>1. /\ call'[c].pc = "denylist" /\ call'[c].tok = t /\ call'[c].known = (t \in confirmed)
        /\ UNCHANGED served
    BY <1>6 DEF R!TypeInv, R!TypeOK, R!Present
  <2> QED
    BY <1>0, <1>5, <2>1 DEF KnownDead, R!DenylistInv, R!RevokedNotServed
<1>7. CASE R!Refuse(c) \/ R!AbortCall(c)
  <2>1. call'[c].pc = "idle" /\ UNCHANGED served
    BY <1>7 DEF R!TypeInv, R!TypeOK, R!Refuse, R!AbortCall, R!CallIdle
  <2> QED
    BY <1>5, <2>1 DEF KnownDead, R!DenylistInv, R!RevokedNotServed
<1>8. CASE R!AnswerUnbound(c)
  <2>1. call'[c].pc = "idle" /\ served' = [known |-> call[c].known, live |-> R!InForce(call[c].tok)]
    BY <1>8 DEF R!TypeInv, R!TypeOK, R!AnswerUnbound, R!Answer, R!CallIdle
  <2>2. call[c].known => ~R!InForce(call[c].tok)
    BY <1>8 DEF R!AnswerUnbound, R!DenylistInv
  <2> QED
    BY <1>5, <2>1, <2>2 DEF KnownDead, R!RevokedNotServed
<1>9. CASE R!CheckProof(c)
  <2>1. /\ call'[c].tok = call[c].tok /\ call'[c].known = call[c].known
        /\ UNCHANGED served
    BY <1>9 DEF R!TypeInv, R!TypeOK, R!CheckProof, R!Call
  <2>2. call[c].known => call[c].tok \in confirmed /\ ~R!InForce(call[c].tok)
    BY <1>9 DEF R!CheckProof, R!DenylistInv
  <2> QED
    BY <1>0, <1>5, <2>1, <2>2 DEF KnownDead, R!InForce, R!DenylistInv, R!RevokedNotServed
<1>10. CASE R!Lookup(c) \/ R!SaveJti(c)
  <2>1. /\ call'[c].pc # "idle" => call'[c].tok = call[c].tok /\ call'[c].known = call[c].known
        /\ UNCHANGED served
    BY <1>10 DEF R!TypeInv, R!TypeOK, R!Lookup, R!SaveJti, R!Call, R!CallIdle
  <2>2. call[c].known => call[c].tok \in confirmed /\ ~R!InForce(call[c].tok)
    BY <1>10 DEF R!Lookup, R!SaveJti, R!DenylistInv
  <2> QED
    BY <1>0, <1>5, <2>1, <2>2 DEF KnownDead, R!InForce, R!DenylistInv, R!RevokedNotServed
<1>11. CASE R!Accept(c)
  <2>1. /\ call'[c].pc = "idle"
        /\ \/ UNCHANGED served
           \/ served' = [known |-> call[c].known, live |-> R!InForce(call[c].tok)]
    BY <1>11 DEF R!TypeInv, R!TypeOK, R!Accept, R!Answer, R!CallIdle
  <2>2. call[c].known => ~R!InForce(call[c].tok)
    BY <1>11 DEF R!Accept, R!DenylistInv
  <2> QED
    BY <1>5, <2>1, <2>2 DEF KnownDead, R!DenylistInv, R!RevokedNotServed
<1> QED
  BY <1>6, <1>7, <1>8, <1>9, <1>10, <1>11 DEF R!Presentation

\* An entry written with the exp of its token keeps the invariant.
LEMMA EntryWritten ==
  ASSUME R!TokenAssumption, R!ProofAssumption,
         R!TypeInv, R!DenylistInv, [R!Next]_R!vars, NEW t \in Tokens,
         denylist' = R!Put(denylist, t, Exp[t]), confirmed' = confirmed \cup {t},
         UNCHANGED <<now, call, served>>
  PROVE  R!DenylistInv'
<1>1. \A d \in Calls : KnownDead(call[d])'
  <2>1. \A d \in Calls : KnownDead(call[d])
    BY DEF R!DenylistInv, KnownDead
  <2> QED
    BY <2>1, KnownKept
<1>2. /\ DOMAIN denylist' = DOMAIN denylist \cup {t}
      /\ \A x \in DOMAIN denylist' : denylist'[x] = Exp[x]
  BY DEF R!Put, R!DenylistInv
<1>3. \A x \in confirmed' : R!InForce(x)' => x \in DOMAIN denylist'
  BY <1>2 DEF R!DenylistInv, R!InForce
<1> QED
  BY <1>1, <1>2, <1>3 DEF R!DenylistInv, KnownDead, R!RevokedNotServed

\* Every step keeps the invariant.
LEMMA DenylistStep ==
  ASSUME R!TokenAssumption, R!ProofAssumption,
         R!TypeInv, R!DenylistInv, [R!Next]_R!vars
  PROVE  R!DenylistInv'
<1>1. ASSUME UNCHANGED <<denylist, confirmed, call, served>>
      PROVE  R!DenylistInv'
  <2>1. \A d \in Calls : KnownDead(call[d])'
    <3>1. \A d \in Calls : KnownDead(call[d])
      BY DEF R!DenylistInv, KnownDead
    <3> QED
      BY <1>1, <3>1, KnownKept
  <2>2. \A x \in confirmed' : R!InForce(x)' => x \in DOMAIN denylist'
    BY <1>1, ForceEnds DEF R!DenylistInv, R!TypeInv, R!TypeOK
  <2> QED
    BY <1>1, <2>1, <2>2 DEF R!DenylistInv, KnownDead, R!RevokedNotServed
<1>2. ASSUME NEW v \in Revocations, R!Revoking(v)
      PROVE  R!DenylistInv'
  <2>1. ASSUME NEW t \in Tokens, R!RevokeStart(v, t)
        PROVE  R!DenylistInv'
    <3>1. UNCHANGED <<now, confirmed, call, served>> /\ denylist' = R!Purged(denylist)
      BY <2>1 DEF R!RevokeStart
    <3>2. \A d \in Calls : KnownDead(call[d])'
      BY <3>1 DEF R!DenylistInv, KnownDead, R!InForce
    <3>3. /\ DOMAIN denylist' = {x \in DOMAIN denylist : denylist[x] > now}
          /\ \A x \in DOMAIN denylist' : denylist'[x] = denylist[x]
      BY <3>1 DEF R!Purged
    <3>4. \A x \in confirmed' : R!InForce(x)' => x \in DOMAIN denylist'
      BY <3>1, <3>3 DEF R!DenylistInv, R!InForce, R!TypeInv, R!TypeOK
    <3> QED
      BY <3>1, <3>2, <3>3, <3>4 DEF R!DenylistInv, KnownDead, R!RevokedNotServed
  <2>2. CASE R!RevokeSave(v)
    BY <2>2, EntryWritten DEF R!RevokeSave, R!TypeInv
  <2>3. CASE R!RevokeValidate(v) \/ R!AbortRevocation(v)
    BY <1>1, <2>3 DEF R!RevokeValidate, R!AbortRevocation
  <2> QED
    BY <1>2, <2>1, <2>2, <2>3 DEF R!Revoking
<1>3. ASSUME NEW t \in Tokens, R!RevokeIssued(t)
      PROVE  R!DenylistInv'
  BY <1>3, EntryWritten DEF R!RevokeIssued
<1> QED
  BY <1>1, <1>2, <1>3, PresentationDenylist DEF R!Next, R!Tick, R!vars

\* For any tokens, calls and lifetimes: once a revocation is answered, no call
\* that begins later is told that the token is active while it is in force.
THEOREM RevocationHolds ==
  ASSUME R!TokenAssumption, R!ProofAssumption
  PROVE  R!Spec => []R!RevokedNotServed
<1>1. R!Init => R!DenylistInv
  BY DEF R!Init, R!DenylistInv, R!RevokedNotServed, R!CallIdle
<1>2. R!DenylistInv => R!RevokedNotServed
  BY DEF R!DenylistInv
<1> QED
  BY <1>1, <1>2, TypeAlways, DenylistStep, PTL DEF R!Spec

--------------------------------------------------------------------------------
(* Single use of a proof.                                                   *)

\* The parts of ReplayInv: the date of an entry to come,
EntryDated(c) ==
  call[c].pc \in {"lookup", "save"} => call[c].until >= Iat[call[c].proof] + Skew

\* the store remembers a proof for its window,
Remembered(p) ==
  p \in accepted \/ (\E c \in Calls : call[c].pc = "purge" /\ call[c].proof = p)
  => p \in DOMAIN replays \/ now >= Iat[p] + Skew

\* and the one call that got past the lookup.
Alone(c) ==
  R!Passed(c) /\ call[c].proof \notin excused =>
    /\ call[c].proof \notin accepted
    /\ \A d \in Calls : R!Passed(d) /\ call[d].proof = call[c].proof => d = c

\* ReplayInv is the conjunction of its parts.
LEMMA ReplayParts ==
  R!ReplayInv <=> /\ \A c \in Calls : EntryDated(c)
                  /\ \A p \in DOMAIN replays : replays[p] >= Iat[p] + Skew
                  /\ \A p \in Proofs : Remembered(p)
                  /\ \A c \in Calls : Alone(c)
                  /\ R!ProofSingleUse
BY DEF R!ReplayInv, EntryDated, Remembered, Alone

\* The purge drops no entry whose proof is still in its window.
LEMMA PurgeRemembers ==
  ASSUME R!TokenAssumption, R!ProofAssumption,
         R!TypeInv, R!ReplayInv
  PROVE  \A p \in DOMAIN replays : p \in DOMAIN R!Purged(replays) \/ now >= Iat[p] + Skew
<1>1. DOMAIN R!Purged(replays) = {y \in DOMAIN replays : replays[y] > now}
  BY DEF R!Purged
<1>2. ASSUME NEW p \in DOMAIN replays
      PROVE  /\ now \in Nat /\ replays[p] \in Nat /\ Iat[p] + Skew \in Nat
             /\ replays[p] >= Iat[p] + Skew
  BY <1>2 DEF R!TypeInv, R!TypeOK, R!ReplayInv
<1> QED
  BY <1>1, <1>2

\* A step that moves no call past the lookup, and forgets nothing, keeps the
\* invariant.
LEMMA QuietReplay ==
  ASSUME R!TokenAssumption, R!ProofAssumption,
         R!TypeInv, R!ReplayInv, R!TypeInv',
         UNCHANGED <<replays, accepted, reused, excused>>,
         now' >= now, now' \in Nat,
         \A c \in Calls : call'[c] = call[c] \/ call'[c].pc \in {"idle", "denylist"}
  PROVE  R!ReplayInv'
<1>1. \A c \in Calls : EntryDated(c)'
  BY DEF R!ReplayInv, EntryDated
<1>2. ASSUME NEW p \in Proofs
      PROVE  Remembered(p)'
  <2>1. Remembered(p) /\ Iat[p] + Skew \in Nat /\ now \in Nat
    BY ReplayParts DEF R!TypeInv, R!TypeOK
  <2>2. ASSUME NEW c \in Calls, call'[c].pc = "purge", call'[c].proof = p
        PROVE  call[c].pc = "purge" /\ call[c].proof = p
    BY <2>2
  <2> QED
    BY <2>1, <2>2 DEF Remembered
<1>3. ASSUME NEW c \in Calls
      PROVE  Alone(c)'
  <2>1. \A d \in Calls : R!Passed(d)' => R!Passed(d) /\ call'[d] = call[d]
    BY DEF R!Passed
  <2>2. Alone(c)
    BY ReplayParts
  <2> QED
    BY <2>1, <2>2 DEF Alone
<1>4. R!ProofSingleUse' /\ \A p \in DOMAIN replays' : replays'[p] >= Iat[p] + Skew
  BY DEF R!ReplayInv, R!ProofSingleUse
<1>5. /\ \A c \in Calls : EntryDated(c)'
      /\ \A p \in Proofs : Remembered(p)'
      /\ \A c \in Calls : Alone(c)'
  BY <1>1, <1>2, <1>3
<1> QED
  BY <1>4, <1>5 DEF R!ReplayInv, EntryDated, Remembered, Alone

\* The entry that will be saved is good for the whole window, since the iat was
\* checked when it was dated.
LEMMA CheckProofReplay ==
  ASSUME R!TokenAssumption, R!ProofAssumption,
         R!TypeInv, R!ReplayInv, NEW c \in Calls, R!CheckProof(c)
  PROVE  R!ReplayInv'
<1>1. /\ call'[c].pc = "lookup" /\ call'[c].until = now + 2 * Skew
      /\ call'[c].proof = call[c].proof
      /\ \A d \in Calls : d # c => call'[d] = call[d]
      /\ UNCHANGED <<now, replays, accepted, reused, excused>>
  BY DEF R!CheckProof, R!Until, R!TypeInv, R!TypeOK, R!Call
<1>2. call[c].proof \in Proofs /\ Iat[call[c].proof] - Skew <= now
  BY DEF R!CheckProof, R!ProofFits, R!InWindow, R!TypeInv, R!TypeOK, R!Call
<1>3. Iat[call[c].proof] \in Nat /\ now \in Nat
  BY <1>2 DEF R!TypeInv, R!TypeOK
<1>4. call'[c].until >= Iat[call'[c].proof] + Skew
  BY <1>1, <1>2, <1>3
<1>5. \A d \in Calls : EntryDated(d)'
  BY <1>1, <1>4 DEF R!ReplayInv, EntryDated
<1>6. ASSUME NEW p \in Proofs
      PROVE  Remembered(p)'
  <2>1. Remembered(p)
    BY ReplayParts
  <2>2. ASSUME NEW d \in Calls, call'[d].pc = "purge", call'[d].proof = p
        PROVE  call[d].pc = "purge" /\ call[d].proof = p
    BY <1>1, <2>2
  <2> QED
    BY <1>1, <2>1, <2>2 DEF Remembered
<1>7. ASSUME NEW d \in Calls
      PROVE  Alone(d)'
  <2>1. \A e \in Calls : R!Passed(e)' => R!Passed(e) /\ call'[e] = call[e]
    BY <1>1 DEF R!Passed
  <2>2. Alone(d)
    BY ReplayParts
  <2> QED
    BY <1>1, <2>1, <2>2 DEF Alone
<1>8. R!ProofSingleUse' /\ \A p \in DOMAIN replays' : replays'[p] >= Iat[p] + Skew
  BY <1>1 DEF R!ReplayInv, R!ProofSingleUse
<1>9. /\ \A p \in Proofs : Remembered(p)'
      /\ \A d \in Calls : Alone(d)'
  BY <1>6, <1>7
<1> QED
  BY <1>5, <1>8, <1>9 DEF R!ReplayInv, EntryDated, Remembered, Alone

\* A call that does not find its proof is the only one past the lookup, and the
\* first, or the proof is excused.
LEMMA LookupReplay ==
  ASSUME R!TokenAssumption, R!ProofAssumption,
         R!TypeInv, R!ReplayInv, R!TypeInv', NEW c \in Calls, R!Lookup(c)
  PROVE  R!ReplayInv'
<1> DEFINE p == call[c].proof
<1>1. p \in Proofs /\ Iat[p] + Skew \in Nat /\ now \in Nat
  BY DEF R!Lookup, R!TypeInv, R!TypeOK
<1>2. /\ UNCHANGED <<now, replays, accepted, reused>> /\ excused \subseteq excused'
      /\ \A d \in Calls : d # c => call'[d] = call[d]
      /\ call'[c].pc # "idle" => p \notin DOMAIN replays /\ call'[c].pc = "save"
                                 /\ call'[c].proof = p /\ call'[c].until = call[c].until
      /\ call[c].pc = "lookup"
  BY DEF R!Lookup, R!TypeInv, R!TypeOK, R!Call, R!CallIdle
<1>3. \A d \in Calls : EntryDated(d)'
  BY <1>2 DEF R!ReplayInv, EntryDated
<1>4. ASSUME NEW x \in Proofs
      PROVE  Remembered(x)'
  <2>1. Remembered(x)
    BY ReplayParts
  <2>2. ASSUME NEW d \in Calls, call'[d].pc = "purge", call'[d].proof = x
        PROVE  call[d].pc = "purge" /\ call[d].proof = x
    BY <1>2, <2>2
  <2> QED
    BY <1>2, <2>1, <2>2 DEF Remembered
<1>5. ASSUME NEW d \in Calls
      PROVE  Alone(d)'
  <2>1. Alone(d) /\ Remembered(p)
    BY <1>1, ReplayParts
  <2>2. CASE ~(call'[c].pc = "save")
    <3>1. \A e \in Calls : R!Passed(e)' => R!Passed(e) /\ call'[e] = call[e] /\ e # c
      BY <1>2, <2>2 DEF R!Passed
    <3> QED
      BY <1>2, <2>1, <3>1 DEF Alone
  <2>3. CASE call'[c].pc = "save" /\ p \in excused'
    <3>1. \A e \in Calls : R!Passed(e)' => call'[e].proof = p \/ (R!Passed(e) /\ call'[e] = call[e] /\ e # c)
      BY <1>2, <2>3 DEF R!Passed
    <3> QED
      BY <1>2, <2>1, <2>3, <3>1 DEF Alone
  <2>4. CASE call'[c].pc = "save" /\ p \notin excused'
    <3>1. now < Iat[p] + Skew /\ \A e \in Calls : ~(call[e].pc = "save" /\ call[e].proof = p)
      BY <1>1, <2>4 DEF R!Lookup
    <3>2. p \notin accepted /\ \A e \in Calls : ~(call[e].pc = "purge" /\ call[e].proof = p)
      BY <1>1, <1>2, <2>1, <2>4, <3>1 DEF Remembered
    <3>3. \A e \in Calls : R!Passed(e)' => e = c \/ (R!Passed(e) /\ call'[e] = call[e] /\ call[e].proof # p)
      BY <1>2, <3>1, <3>2 DEF R!Passed
    <3>4. call'[c].proof = p
      BY <1>2, <2>4
    <3> QED
      BY <1>2, <2>1, <3>2, <3>3, <3>4 DEF Alone
  <2> QED
    BY <2>2, <2>3, <2>4
<1>6. R!ProofSingleUse' /\ \A x \in DOMAIN replays' : replays'[x] >= Iat[x] + Skew
  BY <1>2 DEF R!ReplayInv, R!ProofSingleUse
<1>7. /\ \A x \in Proofs : Remembered(x)'
      /\ \A d \in Calls : Alone(d)'
  BY <1>4, <1>5
<1> QED
  BY <1>3, <1>6, <1>7 DEF R!ReplayInv, EntryDated, Remembered, Alone

\* Saving the jti makes the store remember the proof.
LEMMA SaveReplay ==
  ASSUME R!TokenAssumption, R!ProofAssumption,
         R!TypeInv, R!ReplayInv, NEW c \in Calls, R!SaveJti(c)
  PROVE  R!ReplayInv'
<1> DEFINE p == call[c].proof
<1>1. /\ UNCHANGED <<now, accepted, reused, excused>>
      /\ call[c].pc = "save" /\ call'[c].pc = "purge" /\ call'[c].proof = p
      /\ \A d \in Calls : d # c => call'[d] = call[d]
  BY DEF R!SaveJti, R!TypeInv, R!TypeOK, R!Call
<1>2. /\ DOMAIN replays' = DOMAIN replays \cup {p}
      /\ replays'[p] = call[c].until
      /\ \A x \in DOMAIN replays : x # p => replays'[x] = replays[x]
  BY DEF R!SaveJti, R!Put
<1>3. \A x \in DOMAIN replays' : replays'[x] >= Iat[x] + Skew
  BY <1>1, <1>2 DEF R!ReplayInv
<1>4. \A d \in Calls : EntryDated(d)'
  BY <1>1 DEF R!ReplayInv, EntryDated
<1>5. ASSUME NEW x \in Proofs
      PROVE  Remembered(x)'
  <2>1. Remembered(x)
    BY ReplayParts
  <2>2. ASSUME NEW d \in Calls, call'[d].pc = "purge", call'[d].proof = x, x # p
        PROVE  call[d].pc = "purge" /\ call[d].proof = x
    BY <1>1, <2>2
  <2> QED
    BY <1>1, <1>2, <2>1, <2>2 DEF Remembered
<1>6. ASSUME NEW d \in Calls
      PROVE  Alone(d)'
  <2>1. Alone(d)
    BY ReplayParts
  <2>2. \A e \in Calls : R!Passed(e)' <=> R!Passed(e)
    BY <1>1 DEF R!Passed
  <2>3. \A e \in Calls : call'[e].proof = call[e].proof
    BY <1>1
  <2> QED
    BY <1>1, <2>1, <2>2, <2>3 DEF Alone
<1>7. R!ProofSingleUse'
  BY <1>1 DEF R!ReplayInv, R!ProofSingleUse
<1>8. /\ \A x \in Proofs : Remembered(x)'
      /\ \A d \in Calls : Alone(d)'
  BY <1>5, <1>6
<1> QED
  BY <1>3, <1>4, <1>7, <1>8 DEF R!ReplayInv, EntryDated, Remembered, Alone

\* Accepting a proof that is not excused is accepting it for the first time.
LEMMA AcceptReplay ==
  ASSUME R!TokenAssumption, R!ProofAssumption,
         R!TypeInv, R!ReplayInv, NEW c \in Calls, R!Accept(c)
  PROVE  R!ReplayInv'
<1> DEFINE p == call[c].proof
<1>1. /\ UNCHANGED <<now, excused>> /\ call[c].pc = "purge" /\ call'[c].pc = "idle"
      /\ \A d \in Calls : d # c => call'[d] = call[d]
      /\ replays' = R!Purged(replays)
      /\ \/ UNCHANGED <<accepted, reused>>
         \/ accepted' = accepted \cup {p} /\ reused' = reused \cup (accepted \cap {p})
  BY DEF R!Accept, R!TypeInv, R!TypeOK, R!CallIdle
<1>2. p \in Proofs
  BY <1>1 DEF R!TypeInv
<1>3. /\ \A x \in DOMAIN replays' : x \in DOMAIN replays /\ replays'[x] = replays[x]
      /\ \A x \in DOMAIN replays : x \in DOMAIN replays' \/ now >= Iat[x] + Skew
  BY <1>1, PurgeRemembers DEF R!Purged
<1>4. \A d \in Calls : EntryDated(d)'
  BY <1>1 DEF R!ReplayInv, EntryDated
<1>5. ASSUME NEW x \in Proofs
      PROVE  Remembered(x)'
  <2>1. Remembered(x)
    BY ReplayParts
  <2>2. ASSUME NEW d \in Calls, call'[d].pc = "purge", call'[d].proof = x
        PROVE  call[d].pc = "purge" /\ call[d].proof = x
    BY <1>1, <2>2
  <2>3. x \in accepted' => x \in accepted \/ (call[c].pc = "purge" /\ call[c].proof = x)
    BY <1>1
  <2> QED
    BY <1>1, <1>3, <2>1, <2>2, <2>3 DEF Remembered
<1>6. ASSUME NEW d \in Calls
      PROVE  Alone(d)'
  <2>1. Alone(d) /\ Alone(c)
    BY ReplayParts
  <2>2. R!Passed(c) /\ \A e \in Calls : R!Passed(e)' => R!Passed(e) /\ call'[e] = call[e] /\ e # c
    BY <1>1 DEF R!Passed
  <2>3. R!Passed(d)' /\ p \notin excused => call[d].proof # p
    BY <2>1, <2>2 DEF Alone
  <2> QED
    BY <1>1, <2>1, <2>2, <2>3 DEF Alone
<1>7. R!ProofSingleUse'
  <2>1. Alone(c) /\ R!Passed(c)
    BY <1>1, ReplayParts DEF R!Passed
  <2> QED
    BY <1>1, <2>1 DEF Alone, R!ReplayInv, R!ProofSingleUse
<1>8. /\ \A x \in Proofs : Remembered(x)'
      /\ \A d \in Calls : Alone(d)'
  BY <1>5, <1>6
<1>9. \A x \in DOMAIN replays' : replays'[x] >= Iat[x] + Skew
  BY <1>3 DEF R!ReplayInv
<1> QED
  BY <1>4, <1>7, <1>8, <1>9 DEF R!ReplayInv, EntryDated, Remembered, Alone

\* Every step keeps the invariant.
LEMMA ReplayStep ==
  ASSUME R!TokenAssumption, R!ProofAssumption,
         R!TypeInv, R!ReplayInv, [R!Next]_R!vars
  PROVE  R!ReplayInv'
<1>0. R!TypeInv' /\ now \in Nat
  BY TypeStep DEF R!TypeInv, R!TypeOK
<1>1. ASSUME UNCHANGED <<replays, accepted, reused, excused, call>>, now' = now \/ now' = now + 1
      PROVE  R!ReplayInv'
  BY <1>0, <1>1, QuietReplay
<1>2. ASSUME NEW c \in Calls, R!Presentation(c)
      PROVE  R!ReplayInv'
  <2>1. ASSUME NEW t \in Tokens, NEW p \in Proofs \cup {NoProof}, NEW i \in BOOLEAN,
               R!Present(c, t, p, i)
        PROVE  R!ReplayInv'
    <3>1. /\ UNCHANGED <<now, replays, accepted, reused, excused>>
          /\ \A d \in Calls : call'[d] = call[d] \/ call'[d].pc = "denylist"
      BY <2>1 DEF R!Present, R!TypeInv, R!TypeOK
    <3> QED
      BY <1>0, <3>1, QuietReplay
  <2>2. CASE R!Refuse(c) \/ R!AbortCall(c) \/ R!AnswerUnbound(c)
    <3>1. /\ UNCHANGED <<now, replays, accepted, reused, excused>>
          /\ \A d \in Calls : call'[d] = call[d] \/ call'[d].pc = "idle"
      BY <2>2 DEF R!Refuse, R!AbortCall, R!AnswerUnbound, R!TypeInv, R!TypeOK, R!CallIdle
    <3> QED
      BY <1>0, <3>1, QuietReplay
  <2> QED
    BY <1>0, <1>2, <2>1, <2>2, CheckProofReplay, LookupReplay, SaveReplay, AcceptReplay
    DEF R!Presentation
<1>3. ASSUME NEW v \in Revocations, R!Revoking(v)
      PROVE  R!ReplayInv'
  BY <1>1, <1>3 DEF R!Revoking, R!RevokeStart, R!RevokeValidate, R!RevokeSave, R!AbortRevocation
<1> QED
  BY <1>1, <1>2, <1>3 DEF R!Next, R!RevokeIssued, R!Tick, R!vars

\* For any skew, and any number of calls: a proof authorizes one call, unless two
\* look it up at once or at the very end of its window.
THEOREM ProofOnce ==
  ASSUME R!TokenAssumption, R!ProofAssumption
  PROVE  R!Spec => []R!ProofSingleUse
<1>1. R!Init => R!ReplayInv
  BY DEF R!Init, R!ReplayInv, R!ProofSingleUse, R!CallIdle, R!Passed
<1>2. R!ReplayInv => R!ProofSingleUse
  BY DEF R!ReplayInv
<1> QED
  BY <1>1, <1>2, TypeAlways, ReplayStep, PTL DEF R!Spec
================================================================================
