--------------------------- MODULE Credentials_proof ---------------------------
(***************************************************************************)
(* Proofs about Credentials: for any number of processes, tokens, offers,  *)
(* credentials and presentations the three properties of the module hold.  *)
(* The inductive invariant is CredentialInv.  Its parts speak of different *)
(* variables; the first lemmas say what keeps a part, so that the proof of *)
(* an action treats only those that it disturbs.                           *)
(***************************************************************************)
EXTENDS Credentials, FiniteSetTheorems, TLAPS

-----------------------------------------------------------------------------
(* Operators *)

\* Rounding goes down, by less than an hour (_rounded_now).
LEMMA Rounding ==
  ASSUME NEW t \in Nat
  PROVE  RoundedNow(t) \in Int /\ RoundedNow(t) <= t /\ RoundedNow(t) > t - Hour
<1>1. Hour \in Nat /\ Hour > 0
  BY LifetimeAssumption
<1> DEFINE q == t \div Hour
<1>2. q \in Int /\ t = Hour * q + (t % Hour) /\ 0 <= t % Hour /\ t % Hour < Hour
  BY <1>1
<1>3. t % Hour \in Int
  BY <1>1
<1>4. RoundedNow(t) = Hour * q /\ Hour * q \in Int
  BY <1>1, <1>2 DEF RoundedNow
<1> HIDE DEF q
<1> QED
  BY <1>1, <1>2, <1>3, <1>4

\* A request is added at the end of the history.
LEMMA Appended ==
  ASSUME NEW s, s \in Seq(ToSet(s)), NEW e
  PROVE  /\ Append(s, e) \in Seq(ToSet(Append(s, e)))
         /\ DOMAIN s = 1 .. Len(s) /\ Len(s) \in Nat
         /\ DOMAIN Append(s, e) = 1 .. Len(s) + 1
         /\ \A i \in DOMAIN s : Append(s, e)[i] = s[i]
         /\ Append(s, e)[Len(s) + 1] = e
<1> DEFINE S == ToSet(s) \cup {e}
           a == Append(s, e)
<1>1. s \in Seq(S) /\ e \in S
  <2>1. s \in Seq(S)
    BY ToSet(s) \subseteq S
  <2> QED
    BY <2>1
<1>2. /\ a \in Seq(S) /\ Len(a) = Len(s) + 1
      /\ \A i \in 1 .. Len(s) : a[i] = s[i]
      /\ a[Len(s) + 1] = e
  BY <1>1
<1>3. DOMAIN s = 1 .. Len(s) /\ Len(s) \in Nat /\ DOMAIN a = 1 .. Len(s) + 1 /\ Len(a) \in Nat
  BY <1>1, <1>2
<1> HIDE DEF a
<1>4. a \in [1 .. Len(a) -> ToSet(a)]
  <2>1. \A i \in 1 .. Len(a) : a[i] \in ToSet(a)
    BY <1>2, <1>3 DEF ToSet
  <2>2. a = [i \in 1 .. Len(a) |-> a[i]]
    BY <1>2, <1>3
  <2> QED
    BY <2>1, <2>2
<1>5. a \in Seq(ToSet(a))
  BY <1>3, <1>4
<1> QED
  BY <1>2, <1>3, <1>5 DEF a

-----------------------------------------------------------------------------
(* What keeps a part of the invariant *)

LEMMA OffersKept ==
  ASSUME CodesInv, OfferInv, UNCHANGED offering
  PROVE  CodesInv' /\ OfferInv'
BY DEF CodesInv, OfferInv, Vouched, Machine, offering

LEMMA IssuedKept ==
  ASSUME OfferedSubject, SignedInv, UNCHANGED issued, offers \subseteq offers'
  PROVE  OfferedSubject' /\ SignedInv'
<1>1. SignedInv'
  BY DEF SignedInv, Covered
<1>2. ASSUME NEW r, Answered(r)
      PROVE  Answered(r)'
  BY <1>2 DEF Answered, Machine
<1>3. OfferedSubject'
  BY <1>2 DEF OfferedSubject
<1> QED
  BY <1>1, <1>3

LEMMA PkisKept ==
  ASSUME TypeInv, GenuineInv, FileInv, UNCHANGED <<path, pkis, issued>>, now' \in Nat, now <= now'
  PROVE  GenuineInv' /\ FileInv'
<1>1. FileInv'
  BY DEF FileInv, MdocsOf, pkis
<1>2. ASSUME NEW p \in Pki, Genuine(p)
      PROVE  Genuine(p)'
  BY <1>2 DEF Genuine, TypeInv, Pki
<1>3. GenuineInv'
  BY <1>2 DEF GenuineInv, TypeInv, pkis
<1> QED
  BY <1>1, <1>3

LEMMA NoncesKept ==
  ASSUME NonceInv, UNCHANGED <<requested, presenting>>
  PROVE  NonceInv'
BY DEF NonceInv, presenting

\* A step that leaves all that the invariant speaks of alone, but for the time.
LEMMA QuietStep ==
  ASSUME CredentialInv, now' \in Nat, now <= now',
         UNCHANGED <<offering, issued, requested, path, pkis, presenting>>
  PROVE  CredentialInv'
<1>1. TypeInv'
  BY DEF CredentialInv, TypeInv, pkis, presenting
<1>2. CodesInv' /\ OfferInv'
  BY OffersKept DEF CredentialInv
<1>3. OfferedSubject' /\ SignedInv'
  BY IssuedKept DEF CredentialInv, offering
<1>4. GenuineInv' /\ FileInv'
  BY PkisKept DEF CredentialInv
<1>5. NonceInv'
  BY NoncesKept DEF CredentialInv
<1> QED
  BY <1>1, <1>2, <1>3, <1>4, <1>5 DEF CredentialInv

-----------------------------------------------------------------------------
(* The certificates *)

\* A step on the certificates.
LEMMA PkiStep ==
  ASSUME CredentialInv, TypeInv', GenuineInv', FileInv',
         UNCHANGED <<now, offering, issued, requested, path, presenting>>
  PROVE  CredentialInv'
<1>2. CodesInv' /\ OfferInv'
  BY OffersKept DEF CredentialInv
<1>3. OfferedSubject' /\ SignedInv'
  BY IssuedKept DEF CredentialInv, offering
<1>5. NonceInv'
  BY NoncesKept DEF CredentialInv
<1> QED
  BY <1>2, <1>3, <1>5 DEF CredentialInv

\* Certificates just generated.
LEMMA Generated ==
  ASSUME TypeInv, NEW n \in Nat
  PROVE  GeneratedPki(n) \in Pki /\ Genuine(GeneratedPki(n)) /\ GeneratedPki(n) # NoPki
BY LifetimeAssumption, BlankAssumption DEF GeneratedPki, Pki, Genuine, TypeInv

LEMMA EnsureStep ==
  ASSUME CredentialInv, NEW s \in Servers, EnsureMdocPki(s)
  PROVE  CredentialInv'
<1>1. TypeInv /\ GenuineInv /\ FileInv
  BY DEF CredentialInv
<1>2. UNCHANGED <<now, offering, issued, requested, path, presenting>>
  BY DEF EnsureMdocPki, memory
<1>3. cache[s] = NoPki /\ making[s] = NoPki
  BY DEF EnsureMdocPki
<1>a. ASSUME NEW p, Genuine(p)
      PROVE  Genuine(p)'
  BY <1>2, <1>a DEF Genuine
<1>5. CASE path /\ Loaded(file) # NoPki /\ cache' = [cache EXCEPT ![s] = Loaded(file)]
            /\ UNCHANGED <<file, making, made, disturbed>>
  <2>1. file \in Pki /\ Loaded(file) = file
    BY <1>1, <1>5 DEF Loaded, TypeInv
  <2>2. TypeInv'
    BY <1>1, <1>2, <1>5, <2>1 DEF TypeInv, presenting
  <2>3. GenuineInv'
    BY <1>1, <1>2, <1>5, <1>a, <2>1 DEF GenuineInv, TypeInv
  <2>4. FileInv'
    BY <1>1, <1>2, <1>5, <2>1 DEF FileInv, MdocsOf, TypeInv
  <2> QED
    BY <1>2, <2>2, <2>3, <2>4, PkiStep
<1>6. CASE path /\ Loaded(file) = NoPki /\ made' = made + 1
            /\ making' = [making EXCEPT ![s] = GeneratedPki(made + 1)]
            /\ disturbed' = (disturbed \/ \E x \in Servers : making[x] # NoPki)
            /\ UNCHANGED <<file, cache>>
  <2>0. PICK p : p = GeneratedPki(made + 1)
    OBVIOUS
  <2>1. p \in Pki /\ Genuine(p) /\ p # NoPki
    BY <1>1, <2>0, Generated DEF TypeInv
  <2>2. TypeInv'
    BY <1>1, <1>2, <1>6, <2>0, <2>1 DEF TypeInv, presenting
  <2>3. GenuineInv'
    BY <1>1, <1>2, <1>6, <1>a, <2>0, <2>1 DEF GenuineInv, TypeInv
  <2>4. file \notin Pki
    BY <1>1, <1>6, BlankAssumption DEF Loaded, TypeInv
  <2>5. FileInv'
    <3> SUFFICES ASSUME path', ~disturbed'
                 PROVE  /\ \A x \in Servers : cache[x] = NoPki
                        /\ \A x, y \in Servers : making'[x] # NoPki /\ making'[y] # NoPki => x = y
                        /\ MdocsOf({})'
      BY <1>6, <2>4 DEF FileInv
    <3>1. \A x \in Servers : making[x] = NoPki
      BY <1>6
    <3>2. \A x \in Servers : x # s => making'[x] = NoPki
      BY <1>1, <1>6, <3>1 DEF TypeInv
    <3>3. (\A x \in Servers : cache[x] = NoPki) /\ MdocsOf({})
      BY <1>1, <1>2, <1>6, <2>4 DEF FileInv
    <3> QED
      BY <1>2, <3>2, <3>3 DEF MdocsOf
  <2> QED
    BY <1>2, <2>2, <2>3, <2>5, PkiStep
<1>7. CASE ~path /\ made' = made + 1 /\ cache' = [cache EXCEPT ![s] = GeneratedPki(made + 1)]
            /\ UNCHANGED <<file, making, disturbed>>
  <2>0. PICK p : p = GeneratedPki(made + 1)
    OBVIOUS
  <2>1. p \in Pki /\ Genuine(p) /\ p # NoPki
    BY <1>1, <2>0, Generated DEF TypeInv
  <2>2. TypeInv'
    BY <1>1, <1>2, <1>7, <2>0, <2>1 DEF TypeInv, presenting
  <2>3. GenuineInv'
    BY <1>1, <1>2, <1>7, <1>a, <2>0, <2>1 DEF GenuineInv, TypeInv
  <2>4. FileInv'
    BY <1>2, <1>7 DEF FileInv
  <2> QED
    BY <1>2, <2>2, <2>3, <2>4, PkiStep
<1> QED
  BY <1>5, <1>6, <1>7 DEF EnsureMdocPki

LEMMA SaveOpenStep ==
  ASSUME CredentialInv, NEW s \in Servers, SaveOpen(s)
  PROVE  CredentialInv'
<1>1. TypeInv /\ GenuineInv /\ FileInv
  BY DEF CredentialInv
<1>2. UNCHANGED <<now, offering, issued, requested, path, presenting>>
  BY DEF SaveOpen, memory
<1>3. making[s] # NoPki /\ file' = Torn /\ UNCHANGED <<cache, making, made, disturbed>>
  BY DEF SaveOpen
<1>4. TypeInv'
  BY <1>1, <1>2, <1>3 DEF TypeInv, presenting
<1>5. GenuineInv'
  BY <1>1, <1>2, <1>3, BlankAssumption DEF GenuineInv, Genuine
<1>6. FileInv'
  BY <1>1, <1>2, <1>3, BlankAssumption DEF FileInv, MdocsOf
<1> QED
  BY <1>2, <1>4, <1>5, <1>6, PkiStep

LEMMA SaveWriteStep ==
  ASSUME CredentialInv, NEW s \in Servers, SaveWrite(s)
  PROVE  CredentialInv'
<1>1. TypeInv /\ GenuineInv /\ FileInv
  BY DEF CredentialInv
<1>2. UNCHANGED <<now, offering, issued, requested, path, presenting>> /\ made' = made
  BY DEF SaveWrite, memory
<1>3. /\ making[s] # NoPki
      /\ cache' = [cache EXCEPT ![s] = making[s]]
      /\ making' = [making EXCEPT ![s] = NoPki]
      /\ \/ file = Torn /\ file' = making[s] /\ UNCHANGED disturbed
         \/ disturbed' = TRUE /\ UNCHANGED file
  BY DEF SaveWrite
<1>4. PICK p \in Pki : p = making[s] /\ Genuine(p) /\ p # NoPki
  BY <1>1, <1>3 DEF TypeInv, GenuineInv
<1>a. ASSUME NEW q, Genuine(q)
      PROVE  Genuine(q)'
  BY <1>2, <1>a DEF Genuine
<1>5. TypeInv'
  BY <1>1, <1>2, <1>3, <1>4 DEF TypeInv, presenting
<1>6. GenuineInv'
  BY <1>1, <1>2, <1>3, <1>4, <1>a DEF GenuineInv, TypeInv
<1>7. FileInv'
  <2> SUFFICES ASSUME path', ~disturbed'
               PROVE  /\ file' \in Pki
                      /\ \A x \in Servers : making'[x] = NoPki /\ cache'[x] \in {NoPki, file'}
                      /\ MdocsOf({file})'
    BY DEF FileInv
  <2>1. file = Torn /\ file' = p /\ ~disturbed /\ path
    BY <1>2, <1>3, <1>4
  <2>2. /\ \A x \in Servers : cache[x] = NoPki
        /\ \A x \in Servers : x # s => making[x] = NoPki
        /\ MdocsOf({})
    BY <1>1, <1>3, <2>1, BlankAssumption DEF FileInv
  <2>3. \A x \in Servers : making'[x] = NoPki /\ cache'[x] \in {NoPki, p}
    BY <1>1, <1>3, <1>4, <2>2 DEF TypeInv
  <2>4. MdocsOf({file})'
    BY <1>2, <2>2 DEF MdocsOf
  <2> QED
    BY <2>1, <2>3, <2>4
<1> QED
  BY <1>2, <1>5, <1>6, <1>7, PkiStep

-----------------------------------------------------------------------------
(* Offers and tokens *)

\* A step on the codes, the offers and the tokens.
LEMMA OfferStep ==
  ASSUME CredentialInv, CodesInv', OfferInv', offers \subseteq offers',
         UNCHANGED <<now, issued, requested, path, pkis, presenting>>
  PROVE  CredentialInv'
<1>1. TypeInv'
  BY DEF CredentialInv, TypeInv, pkis, presenting
<1>3. OfferedSubject' /\ SignedInv'
  BY IssuedKept DEF CredentialInv
<1>4. GenuineInv' /\ FileInv'
  BY PkisKept, <1>1 DEF CredentialInv, TypeInv
<1>5. NonceInv'
  BY NoncesKept DEF CredentialInv
<1> QED
  BY <1>1, <1>3, <1>4, <1>5 DEF CredentialInv

LEMMA ClientTokenStep ==
  ASSUME CredentialInv, NEW c, NEW sub, NEW q, ClientToken(c, sub, q)
  PROVE  CredentialInv'
<1>1. CodesInv /\ OfferInv
  BY DEF CredentialInv
<1>2. UNCHANGED <<codes, offers, creating>>
  BY DEF ClientToken
<1>3. PICK t : t.offer = 0 /\ tokens' = tokens \cup {t}
  BY DEF ClientToken
<1>4. CodesInv'
  BY <1>1, <1>2 DEF CodesInv
<1>5. OfferInv'
  BY <1>1, <1>2, <1>3 DEF OfferInv, Vouched, Machine
<1> QED
  BY <1>2, <1>4, <1>5, OfferStep DEF ClientToken, memory

\* One more number.
LEMMA NextNumber ==
  ASSUME NEW k \in Nat
  PROVE  /\ 1 .. k + 1 = (1 .. k) \cup {k + 1} /\ k + 1 \notin 1 .. k
         /\ Cardinality(1 .. k + 1) = k + 1 /\ k + 1 \in Nat
<1>1. Cardinality(1 .. k + 1) = IF 1 > k + 1 THEN 0 ELSE (k + 1) - 1 + 1
  BY FS_Interval
<1>2. ~ (1 > k + 1) /\ (k + 1) - 1 + 1 = k + 1
  OBVIOUS
<1> QED
  BY <1>1, <1>2

\* A new code has the next number and replaces none.
LEMMA CodeAdded ==
  ASSUME CodesInv, NEW id, NEW c, id = Cardinality(DOMAIN codes) + 1,
         c = [sub |-> c.sub, exp |-> c.exp, consumed |-> c.consumed],
         codes' = [x \in DOMAIN codes \cup {id} |-> IF x = id THEN c ELSE codes[x]]
  PROVE  /\ CodesInv'
         /\ id \in DOMAIN codes' /\ codes'[id] = c
         /\ \A x \in DOMAIN codes : x \in DOMAIN codes' /\ codes'[x] = codes[x]
<1>1. PICK k \in Nat : k = Cardinality(DOMAIN codes)
  BY DEF CodesInv
<1>2. DOMAIN codes = 1 .. k /\ id = k + 1 /\ DOMAIN codes' = DOMAIN codes \cup {id}
  BY <1>1 DEF CodesInv
<1>3. DOMAIN codes' = 1 .. k + 1 /\ id \notin DOMAIN codes
  BY <1>2, NextNumber
<1>4. Cardinality(DOMAIN codes') = k + 1 /\ k + 1 \in Nat
  BY <1>3, NextNumber
<1>5. /\ id \in DOMAIN codes' /\ codes'[id] = c
      /\ \A x \in DOMAIN codes : x \in DOMAIN codes' /\ codes'[x] = codes[x]
  BY <1>2, <1>3
<1>6. codes' = [x \in DOMAIN codes' |-> codes'[x]]
  BY <1>2
<1>7. \A x \in DOMAIN codes' :
        codes'[x] = [sub |-> codes'[x].sub, exp |-> codes'[x].exp, consumed |-> codes'[x].consumed]
  BY <1>2, <1>5 DEF CodesInv
<1>8. CodesInv'
  BY <1>3, <1>4, <1>6, <1>7 DEF CodesInv
<1> QED
  BY <1>5, <1>8

LEMMA CreateOfferStep ==
  ASSUME CredentialInv, NEW t, CreateOffer(t)
  PROVE  CredentialInv'
<1>1. CodesInv /\ OfferInv
  BY DEF CredentialInv
<1>2. UNCHANGED <<tokens, offers>> /\ UNCHANGED <<now, issued, requested, path, pkis, presenting>>
  BY DEF CreateOffer, memory
<1>3. PICK r, o :
        /\ o \in OfferMade(t, r)
        /\ codes' = [x \in DOMAIN codes \cup {o.id} |->
             IF x = o.id THEN [sub |-> o.sub, exp |-> o.exp, consumed |-> FALSE] ELSE codes[x]]
        /\ creating' = creating \cup {o}
  BY DEF CreateOffer
<1>4. /\ o = [id |-> Cardinality(DOMAIN codes) + 1, sub |-> OfferSubject(t, r), by |-> t, exp |-> now + OfferTtl]
      /\ OfferSubject(t, r) # ""
  BY <1>3 DEF OfferMade
<1>5. o.id = Cardinality(DOMAIN codes) + 1 /\ Vouched(o)
  BY <1>4 DEF OfferSubject, Vouched, Machine
<1>6. PICK c : c = [sub |-> o.sub, exp |-> o.exp, consumed |-> FALSE]
  OBVIOUS
<1>7. c = [sub |-> c.sub, exp |-> c.exp, consumed |-> c.consumed] /\ c.sub = o.sub
  BY <1>6
<1>8. codes' = [x \in DOMAIN codes \cup {o.id} |-> IF x = o.id THEN c ELSE codes[x]]
  BY <1>3, <1>6
<1>a. PICK id : id = o.id
  OBVIOUS
<1>9. /\ CodesInv'
      /\ id \in DOMAIN codes' /\ codes'[id] = c
      /\ \A x \in DOMAIN codes : x \in DOMAIN codes' /\ codes'[x] = codes[x]
  <2>1. codes' = [x \in DOMAIN codes \cup {id} |-> IF x = id THEN c ELSE codes[x]]
    BY <1>8, <1>a
  <2>2. id = Cardinality(DOMAIN codes) + 1
    BY <1>5, <1>a
  <2>3. c = [sub |-> c.sub, exp |-> c.exp, consumed |-> c.consumed]
    BY <1>7
  <2> QED
    BY <1>1, <2>1, <2>2, <2>3, CodeAdded
<1>10. OfferInv'
  <2>1. creating' = creating \cup {o} /\ UNCHANGED <<tokens, offers>>
    BY <1>2, <1>3
  <2>2. ASSUME NEW x \in offers \cup creating
        PROVE  x.id \in DOMAIN codes' /\ codes'[x.id].sub = x.sub /\ Vouched(x)
    BY <1>1, <1>9 DEF OfferInv
  <2>3. o.id \in DOMAIN codes' /\ codes'[o.id].sub = o.sub /\ Vouched(o)
    BY <1>5, <1>7, <1>9, <1>a
  <2>4. \A x \in offers' \cup creating' : x.id \in DOMAIN codes' /\ codes'[x.id].sub = x.sub /\ Vouched(x)
    BY <2>1, <2>2, <2>3
  <2> QED
    BY <1>1, <2>1, <2>4 DEF OfferInv, Vouched, Machine
<1> QED
  BY <1>2, <1>9, <1>10, OfferStep

LEMMA SaveOfferStep ==
  ASSUME CredentialInv, NEW o \in creating, SaveOffer(o) \/ AbandonOffer(o)
  PROVE  CredentialInv'
<1>1. CodesInv /\ OfferInv
  BY DEF CredentialInv
<1>2. /\ UNCHANGED <<tokens, codes>> /\ offers \subseteq offers'
      /\ offers' \cup creating' \subseteq offers \cup creating
  BY DEF SaveOffer, AbandonOffer
<1>3. CodesInv'
  BY <1>1, <1>2 DEF CodesInv
<1>4. OfferInv'
  BY <1>1, <1>2 DEF OfferInv, Vouched, Machine
<1> QED
  BY <1>2, <1>3, <1>4, OfferStep DEF SaveOffer, AbandonOffer, memory

LEMMA RedeemOfferStep ==
  ASSUME CredentialInv, NEW o \in offers, RedeemOffer(o)
  PROVE  CredentialInv'
<1>1. CodesInv /\ OfferInv
  BY DEF CredentialInv
<1>2. UNCHANGED <<offers, creating>> /\ codes' = [codes EXCEPT ![o.id].consumed = TRUE]
  BY DEF RedeemOffer
<1>3. o.id \in DOMAIN codes /\ codes[o.id].sub = o.sub
  BY <1>1 DEF OfferInv
<1>4. PICK t : t.sub = o.sub /\ t.offer = o.id /\ tokens' = tokens \cup {t}
  BY <1>3 DEF RedeemOffer
<1>5. PICK c : c = codes[o.id] /\ c = [sub |-> c.sub, exp |-> c.exp, consumed |-> c.consumed]
  BY <1>1, <1>3 DEF CodesInv
<1>6. DOMAIN codes' = DOMAIN codes
  BY <1>2
<1>7. /\ codes'[o.id] = [sub |-> c.sub, exp |-> c.exp, consumed |-> TRUE]
      /\ \A x \in DOMAIN codes : x # o.id => codes'[x] = codes[x]
  BY <1>2, <1>3, <1>5
<1>8. CodesInv'
  <2>1. codes' = [x \in DOMAIN codes' |-> codes'[x]]
    BY <1>1, <1>2 DEF CodesInv
  <2>2. \A x \in DOMAIN codes :
          codes'[x] = [sub |-> codes'[x].sub, exp |-> codes'[x].exp, consumed |-> codes'[x].consumed]
    BY <1>1, <1>7 DEF CodesInv
  <2> QED
    BY <1>1, <1>6, <2>1, <2>2 DEF CodesInv
<1>9. \A x \in DOMAIN codes : codes'[x].sub = codes[x].sub
  BY <1>5, <1>7
<1>10. OfferInv'
  BY <1>1, <1>2, <1>4, <1>6, <1>9 DEF OfferInv, Vouched, Machine
<1> QED
  BY <1>2, <1>8, <1>10, OfferStep DEF RedeemOffer, memory
-----------------------------------------------------------------------------
(* Credentials *)

\* Something for each proof is as many as there are proofs.
LEMMA OnePerProof ==
  ASSUME NEW p, p \in Seq(ToSet(p)), NEW f, f = [i \in DOMAIN p |-> f[i]]
  PROVE  Len(f) = Len(p)
<1>1. DOMAIN p = 1 .. Len(p) /\ Len(p) \in Nat
  OBVIOUS
<1>2. DOMAIN f = 1 .. Len(p)
  BY <1>1
<1>3. f \in [1 .. Len(p) -> ToSet(f)]
  BY <1>1, <1>2 DEF ToSet
<1>4. f \in Seq(ToSet(f))
  BY <1>1, <1>3
<1>5. DOMAIN f = 1 .. Len(f) /\ Len(f) \in Nat
  BY <1>4
<1> QED
  BY <1>1, <1>2, <1>5

LEMMA MdocFields ==
  ASSUME NEW p, NEW k, NEW f, NEW u, NEW c,
         c = [config |-> Mdoc, sub |-> Nobody, key |-> k, pki |-> p, from |-> f, until |-> u]
  PROVE  c.config = Mdoc /\ c.sub = Nobody /\ c.pki = p /\ c.from = f /\ c.until = u
OBVIOUS

\* The certificates that a mdoc is signed with cover it.
LEMMA MdocSigned ==
  ASSUME TypeInv, NEW p \in Pki, Genuine(p), NEW key, NEW c, c = MdocCredential(p, key)
  PROVE  c.config = Mdoc /\ c.sub = Nobody /\ c.pki = p /\ c.until > now /\ Covered(c, now)
<1>1. now \in Nat /\ Hour \in Nat /\ MsoLifetime \in Nat /\ SignerLifetime \in Nat /\ MsoLifetime >= Hour
  BY LifetimeAssumption DEF TypeInv
<1>2. PICK r \in Int : r = RoundedNow(now) /\ r <= now /\ r > now - Hour
  BY <1>1, Rounding
<1>3. p.at \in Nat /\ p.notBefore \in Int /\ p.notAfter \in Int
  BY DEF Pki
<1>4. p.at <= now /\ p.notBefore = p.at - Hour - 1 /\ p.notAfter = p.at + SignerLifetime
  BY DEF Genuine
<1>5. PICK f \in Int : f = IF r < p.notBefore THEN p.notBefore ELSE r
  BY <1>2, <1>3
<1>6. f >= p.notBefore /\ f <= now /\ f >= r
  BY <1>1, <1>2, <1>3, <1>4, <1>5
<1>7. f + MsoLifetime > now
  BY <1>1, <1>2, <1>5, <1>6
<1>8. now <= p.at + SignerLifetime - MsoLifetime => f + MsoLifetime <= p.notAfter
  BY <1>1, <1>3, <1>4, <1>5, <1>6
<1>9. c = [config |-> Mdoc, sub |-> Nobody, key |-> key, pki |-> p, from |-> f, until |-> f + MsoLifetime]
  BY <1>2, <1>5 DEF MdocCredential
<1>10. /\ c.config = Mdoc /\ c.sub = Nobody /\ c.pki = p
       /\ c.from = f /\ c.until = f + MsoLifetime
  BY <1>9, MdocFields
<1>11. Covered(c, now)
  BY <1>6, <1>8, <1>10 DEF Covered
<1> QED
  BY <1>7, <1>10, <1>11

LEMMA SdJwtSigned ==
  ASSUME TypeInv, NEW sub, NEW key, NEW c, c = SdJwtCredential(sub, key)
  PROVE  c.config # Mdoc /\ c.sub = sub /\ c.until > now
<1>1. now \in Nat /\ Hour \in Nat
  BY LifetimeAssumption DEF TypeInv
<1>2. PICK r \in Int : r = RoundedNow(now) /\ r > now - Hour
  BY <1>1, Rounding
<1>3. r + Hour > now
  BY <1>1, <1>2
<1> QED
  BY <1>2, <1>3 DEF SdJwtCredential, SdJwt, Mdoc

\* What a request gets.
LEMMA Result ==
  ASSUME TypeInv, GenuineInv, NEW s \in Servers, NEW t, NEW config, NEW proofs \in Proofs, NEW n,
         config = Mdoc => cache[s] # NoPki,
         NEW cs, cs = CredentialResult(s, t, config, proofs, n), cs # <<>>
  PROVE  /\ Len(cs) = Len(proofs)
         /\ \A j \in DOMAIN cs : cs[j].sub \in {t.sub, Nobody} /\ cs[j].until > now
         /\ \A j \in DOMAIN cs : cs[j].config = Mdoc =>
              cs[j].pki = cache[s] /\ cache[s] \in Pki /\ Covered(cs[j], now)
<1>1. PICK keys : keys = BindingKeys(proofs, n)
  OBVIOUS
<1>2. keys # <<>> /\ cs = Issue(s, t.sub, keys, config)
  BY <1>1 DEF CredentialResult
<1>3. keys = [i \in DOMAIN proofs |-> proofs[i].key]
  BY <1>1, <1>2 DEF BindingKeys
<1>4. DOMAIN keys = DOMAIN proofs
  BY <1>3
<1>5. CASE config = Mdoc
  <2>1. cs = [i \in DOMAIN keys |-> MdocCredential(cache[s], keys[i])]
    BY <1>2, <1>5 DEF Issue
  <2>2. PICK p \in Pki : p = cache[s] /\ Genuine(p)
    BY <1>5 DEF TypeInv, GenuineInv
  <2>3. cs = [i \in DOMAIN proofs |-> cs[i]]
    BY <1>4, <2>1
  <2>4. Len(cs) = Len(proofs)
    BY <2>3, OnePerProof, InputAssumption
  <2>5. \A j \in DOMAIN cs : cs[j] = MdocCredential(p, keys[j])
    BY <2>1, <2>2
  <2>6. ASSUME NEW j \in DOMAIN cs
        PROVE  cs[j].sub = Nobody /\ cs[j].until > now /\ cs[j].pki = p /\ Covered(cs[j], now)
    <3>1. PICK c : c = cs[j] /\ c = MdocCredential(p, keys[j])
      BY <2>5
    <3>2. c.sub = Nobody /\ c.until > now /\ c.pki = p /\ Covered(c, now)
      BY <2>2, <3>1, MdocSigned
    <3> QED
      BY <3>1, <3>2
  <2> QED
    BY <2>2, <2>4, <2>6
<1>6. CASE config # Mdoc
  <2>1. cs = [i \in DOMAIN keys |-> SdJwtCredential(t.sub, keys[i])]
    BY <1>2, <1>6 DEF Issue
  <2>3. cs = [i \in DOMAIN proofs |-> cs[i]]
    BY <1>4, <2>1
  <2>4. Len(cs) = Len(proofs)
    BY <2>3, OnePerProof, InputAssumption
  <2>5. \A j \in DOMAIN cs : cs[j] = SdJwtCredential(t.sub, keys[j])
    BY <2>1
  <2>6. ASSUME NEW j \in DOMAIN cs
        PROVE  cs[j].sub = t.sub /\ cs[j].until > now /\ cs[j].config # Mdoc
    <3>1. PICK c : c = cs[j] /\ c = SdJwtCredential(t.sub, keys[j])
      BY <2>5
    <3>2. c.sub = t.sub /\ c.until > now /\ c.config # Mdoc
      BY <3>1, SdJwtSigned
    <3> QED
      BY <3>1, <3>2
  <2> QED
    BY <2>4, <2>6
<1> QED
  BY <1>5, <1>6

LEMMA IssueStep ==
  ASSUME CredentialInv, NEW s \in Servers, NEW t \in tokens, NEW proofs \in Proofs, NEW n,
         IssueCredential(s, t, proofs, n)
  PROVE  CredentialInv'
<1>1. TypeInv /\ GenuineInv /\ FileInv /\ OfferInv /\ OfferedSubject /\ SignedInv
  BY DEF CredentialInv
<1>2. UNCHANGED <<now, offering, requested, path, pkis, presenting>>
  BY DEF IssueCredential
<1>3. PICK config, cs :
        /\ cs = CredentialResult(s, t, config, proofs, n) /\ cs # <<>>
        /\ config = Mdoc => cache[s] # NoPki
        /\ issued' = Append(issued, [token |-> t, at |-> now, proofs |-> Len(proofs), credentials |-> cs])
  BY DEF IssueCredential
<1>4. /\ Len(cs) = Len(proofs)
      /\ \A j \in DOMAIN cs : cs[j].sub \in {t.sub, Nobody} /\ cs[j].until > now
      /\ \A j \in DOMAIN cs : cs[j].config = Mdoc =>
           cs[j].pki = cache[s] /\ cache[s] \in Pki /\ Covered(cs[j], now)
  <2>1. /\ cs = CredentialResult(s, t, config, proofs, n) /\ cs # <<>>
        /\ config = Mdoc => cache[s] # NoPki
    BY <1>3
  <2>2. TypeInv /\ GenuineInv
    BY <1>1
  <2> HIDE <1>1, <1>3
  <2> QED
    BY <2>1, <2>2, Result
<1>5. PICK r : r = [token |-> t, at |-> now, proofs |-> Len(proofs), credentials |-> cs]
  OBVIOUS
<1>6. r.token = t /\ r.at = now /\ r.proofs = Len(proofs) /\ r.credentials = cs
  BY <1>5
<1>7. /\ issued' \in Seq(ToSet(issued'))
      /\ \A i \in DOMAIN issued' : (i \in DOMAIN issued /\ issued'[i] = issued[i]) \/ issued'[i] = r
  <2>1. issued \in Seq(ToSet(issued)) /\ issued' = Append(issued, r)
    BY <1>1, <1>3, <1>5 DEF TypeInv
  <2>2. /\ issued' \in Seq(ToSet(issued'))
        /\ DOMAIN issued = 1 .. Len(issued) /\ Len(issued) \in Nat
        /\ DOMAIN issued' = 1 .. Len(issued) + 1
        /\ \A i \in DOMAIN issued : issued'[i] = issued[i]
        /\ issued'[Len(issued) + 1] = r
    BY <2>1, Appended
  <2>3. \A i \in 1 .. Len(issued) + 1 : i \in 1 .. Len(issued) \/ i = Len(issued) + 1
    BY <2>2
  <2> QED
    BY <2>2, <2>3
<1>8. TypeInv'
  BY <1>1, <1>2, <1>7 DEF TypeInv, pkis, presenting
<1>9. CodesInv' /\ OfferInv'
  BY <1>2, OffersKept DEF CredentialInv
<1>10. OfferedSubject'
  <2>1. ASSUME NEW x, Answered(x)
        PROVE  Answered(x)'
    BY <1>2, <2>1 DEF Answered, Machine, offering
  <2>2. t.offer # 0 => \E o \in offers : o.id = t.offer /\ o.sub = t.sub /\ Vouched(o)
    BY <1>1 DEF OfferInv
  <2>3. Answered(r)
    BY <1>4, <1>6, <2>2 DEF Answered, Vouched
  <2> QED
    BY <1>1, <1>7, <2>1, <2>3 DEF OfferedSubject
<1>11. SignedInv'
  BY <1>1, <1>4, <1>6, <1>7 DEF SignedInv, Covered
<1>12. FileInv'
  <2> SUFFICES ASSUME path, ~disturbed
               PROVE  IF file \in Pki
                      THEN (\A x \in Servers : making[x] = NoPki /\ cache[x] \in {NoPki, file}) /\ MdocsOf({file})'
                      ELSE /\ \A x \in Servers : cache[x] = NoPki
                           /\ \A x, y \in Servers : making[x] # NoPki /\ making[y] # NoPki => x = y
                           /\ MdocsOf({})'
    BY <1>2 DEF FileInv, pkis
  <2>1. CASE file \in Pki
    <3>1. (\A x \in Servers : making[x] = NoPki /\ cache[x] \in {NoPki, file}) /\ MdocsOf({file})
      BY <1>1, <2>1 DEF FileInv
    <3>2. \A j \in DOMAIN cs : cs[j].config = Mdoc => cs[j].pki = file
      BY <1>4, <3>1, BlankAssumption
    <3>3. ASSUME NEW i \in DOMAIN issued', NEW j \in DOMAIN issued'[i].credentials,
                 issued'[i].credentials[j].config = Mdoc
          PROVE  issued'[i].credentials[j].pki = file
      BY <1>6, <1>7, <3>1, <3>2, <3>3 DEF MdocsOf
    <3>4. MdocsOf({file})'
      BY <1>2, <3>3 DEF MdocsOf, pkis
    <3> QED
      BY <2>1, <3>1, <3>4
  <2>2. CASE file \notin Pki
    <3>1. /\ \A x \in Servers : cache[x] = NoPki
          /\ \A x, y \in Servers : making[x] # NoPki /\ making[y] # NoPki => x = y
          /\ MdocsOf({})
      BY <1>1, <2>2 DEF FileInv
    <3>2. \A j \in DOMAIN cs : cs[j].config # Mdoc
      BY <1>4, <3>1, BlankAssumption
    <3>3. ASSUME NEW i \in DOMAIN issued', NEW j \in DOMAIN issued'[i].credentials
          PROVE  issued'[i].credentials[j].config # Mdoc
      BY <1>6, <1>7, <3>1, <3>2 DEF MdocsOf
    <3>4. MdocsOf({})'
      BY <3>3 DEF MdocsOf
    <3> QED
      BY <2>2, <3>1, <3>4
  <2> QED
    BY <2>1, <2>2
<1>13. GenuineInv'
  BY <1>1, <1>2 DEF GenuineInv, Genuine, pkis
<1>14. NonceInv'
  BY <1>2, NoncesKept DEF CredentialInv
<1> QED
  BY <1>8, <1>9, <1>10, <1>11, <1>12, <1>13, <1>14 DEF CredentialInv

-----------------------------------------------------------------------------
(* Presentations *)

\* A step on the nonces of presentations.
LEMMA NonceStep ==
  ASSUME CredentialInv, TypeInv', NonceInv', UNCHANGED <<now, offering, issued, path, pkis>>
  PROVE  CredentialInv'
<1>1. CodesInv' /\ OfferInv'
  BY OffersKept DEF CredentialInv
<1>2. OfferedSubject' /\ SignedInv'
  BY IssuedKept DEF CredentialInv, offering
<1>3. GenuineInv' /\ FileInv'
  BY PkisKept DEF CredentialInv, TypeInv
<1> QED
  BY <1>1, <1>2, <1>3 DEF CredentialInv

LEMMA RequestStep ==
  ASSUME CredentialInv, NEW s \in Servers, RequestPresentation(s)
  PROVE  CredentialInv'
<1>1. TypeInv /\ NonceInv
  BY DEF CredentialInv
<1>2. UNCHANGED <<now, offering, issued, path, pkis, accepted>>
  BY DEF RequestPresentation
<1>3. /\ asked < MaxPresentations /\ asked' = asked + 1
      /\ requested' = [requested EXCEPT ![s] = @ \cup {asked + 1}]
  BY DEF RequestPresentation, AfterRequest
<1>4. asked \in Nat /\ asked + 1 \in Nat /\ asked + 1 \in 1 .. MaxPresentations
  BY <1>1, <1>3, InputAssumption DEF TypeInv
<1>5. TypeInv'
  BY <1>1, <1>2, <1>3, <1>4 DEF TypeInv, pkis
<1>6. /\ requested'[s] = requested[s] \cup {asked + 1}
      /\ \A x \in Servers : x # s => requested'[x] = requested[x]
  BY <1>1, <1>3 DEF TypeInv
<1>7. accepted[asked + 1] = 0 /\ \A x \in Servers : asked + 1 \notin requested[x]
  BY <1>1, <1>4, InputAssumption DEF NonceInv, TypeInv
<1>8. \A x \in Servers : \A k \in requested'[x] : k \in 1 .. asked + 1 /\ accepted[k] = 0
  BY <1>1, <1>4, <1>6, <1>7 DEF NonceInv
<1>9. \A x, y \in Servers : x # y => requested'[x] \cap requested'[y] = {}
  BY <1>1, <1>6, <1>7 DEF NonceInv
<1>10. \A k \in 1 .. MaxPresentations : accepted[k] <= 1 /\ (k > asked + 1 => accepted[k] = 0)
  BY <1>1, <1>4, InputAssumption DEF NonceInv
<1>11. NonceInv'
  BY <1>2, <1>3, <1>4, <1>8, <1>9, <1>10, InputAssumption DEF NonceInv
<1> QED
  BY <1>2, <1>5, <1>11, NonceStep

LEMMA ResponseStep ==
  ASSUME CredentialInv, NEW s \in Servers, NEW presented, PresentationResponse(s, presented)
  PROVE  CredentialInv'
<1>1. TypeInv /\ NonceInv
  BY DEF CredentialInv
<1>2. UNCHANGED <<now, offering, issued, path, pkis, asked>>
  BY DEF PresentationResponse
<1>3. PICK N : N = ToSet(presented)
  OBVIOUS
<1>4. /\ N \subseteq requested[s]
      /\ requested' = [requested EXCEPT ![s] = @ \ N]
      /\ accepted' = [k \in DOMAIN accepted |-> IF k \in N THEN accepted[k] + 1 ELSE accepted[k]]
  BY <1>3 DEF PresentationResponse, ResponseValid, Discard
<1>5. /\ requested'[s] = requested[s] \ N
      /\ \A x \in Servers : x # s => requested'[x] = requested[x]
      /\ requested' \in [Servers -> SUBSET Nat]
  BY <1>1, <1>4 DEF TypeInv
<1>6. /\ \A k \in 1 .. MaxPresentations : accepted'[k] = IF k \in N THEN accepted[k] + 1 ELSE accepted[k]
      /\ accepted' \in [1 .. MaxPresentations -> Nat]
  BY <1>1, <1>4 DEF TypeInv
<1>7. TypeInv'
  BY <1>1, <1>2, <1>5, <1>6 DEF TypeInv, pkis
<1>8. asked \in Nat /\ asked <= MaxPresentations /\ \A k \in 1 .. asked : k \in 1 .. MaxPresentations
  BY <1>1, InputAssumption DEF NonceInv, TypeInv
<1>9. \A k \in N : accepted[k] = 0 /\ k \in 1 .. asked
  BY <1>1, <1>4 DEF NonceInv
<1>10. \A x \in Servers : \A k \in requested'[x] : k \in requested[x] /\ k \notin N
  BY <1>1, <1>4, <1>5 DEF NonceInv
<1>11. \A x \in Servers : \A k \in requested'[x] : k \in 1 .. asked /\ accepted'[k] = 0
  BY <1>1, <1>6, <1>8, <1>10 DEF NonceInv
<1>12. \A x, y \in Servers : x # y => requested'[x] \cap requested'[y] = {}
  BY <1>1, <1>10 DEF NonceInv
<1>13. \A k \in 1 .. MaxPresentations : accepted'[k] <= 1 /\ (k > asked => accepted'[k] = 0)
  <2> SUFFICES ASSUME NEW k \in 1 .. MaxPresentations
               PROVE  accepted'[k] <= 1 /\ (k > asked => accepted'[k] = 0)
    OBVIOUS
  <2>1. CASE k \in N
    BY <1>6, <1>8, <1>9, <2>1, InputAssumption
  <2>2. CASE k \notin N
    BY <1>1, <1>6, <2>2 DEF NonceInv
  <2> QED
    BY <2>1, <2>2
<1>14. NonceInv'
  BY <1>2, <1>8, <1>11, <1>12, <1>13 DEF NonceInv
<1> QED
  BY <1>2, <1>7, <1>14, NonceStep

-----------------------------------------------------------------------------
(* Restarts, and the theorems *)

LEMMA RestartStep ==
  ASSUME CredentialInv, NEW s \in Servers, Restart(s)
  PROVE  CredentialInv'
<1>1. TypeInv /\ GenuineInv /\ FileInv /\ NonceInv
  BY DEF CredentialInv
<1>2. UNCHANGED <<now, offering, issued, path, file, made, presenting>>
  BY DEF Restart
<1>3. /\ requested' = [requested EXCEPT ![s] = {}]
      /\ cache' = [cache EXCEPT ![s] = NoPki] /\ making' = [making EXCEPT ![s] = NoPki]
      /\ disturbed' = (disturbed \/ making[s] # NoPki)
  BY DEF Restart
<1>4. /\ \A x \in Servers : requested'[x] \subseteq requested[x]
      /\ \A x \in Servers : cache'[x] \in {cache[x], NoPki} /\ making'[x] \in {making[x], NoPki}
  BY <1>1, <1>3 DEF TypeInv
<1>5. TypeInv'
  BY <1>1, <1>2, <1>3 DEF TypeInv, presenting
<1>6. CodesInv' /\ OfferInv'
  BY <1>2, OffersKept DEF CredentialInv
<1>7. OfferedSubject' /\ SignedInv'
  BY <1>2, IssuedKept DEF CredentialInv, offering
<1>8. GenuineInv'
  BY <1>1, <1>2, <1>4 DEF GenuineInv, Genuine
<1>9. FileInv'
  BY <1>1, <1>2, <1>3, <1>4 DEF FileInv, MdocsOf
<1>10. NonceInv'
  BY <1>1, <1>2, <1>4 DEF NonceInv, presenting
<1> QED
  BY <1>5, <1>6, <1>7, <1>8, <1>9, <1>10 DEF CredentialInv

LEMMA InitCredential == Init => CredentialInv
<1> SUFFICES ASSUME Init PROVE CredentialInv
  OBVIOUS
<1>1. issued \in Seq(ToSet(issued)) /\ DOMAIN issued = {}
  <2>1. issued = <<>>
    BY DEF Init
  <2>2. <<>> \in Seq(ToSet(<<>>)) /\ DOMAIN <<>> = {}
    OBVIOUS
  <2> QED
    BY <2>1, <2>2
<1>2. TypeInv
  BY <1>1, BlankAssumption, InputAssumption DEF Init, TypeInv
<1>3. CodesInv
  <2>1. DOMAIN codes = {} /\ codes = [x \in {} |-> codes[x]]
    BY DEF Init
  <2>2. Cardinality(DOMAIN codes) = 0 /\ 0 \in Nat /\ 1 .. 0 = {}
    BY <2>1, FS_EmptySet
  <2> QED
    BY <2>1, <2>2 DEF CodesInv
<1>4. OfferInv
  BY InputAssumption DEF Init, OfferInv
<1>5. OfferedSubject /\ SignedInv
  BY <1>1 DEF OfferedSubject, SignedInv
<1>6. GenuineInv /\ FileInv
  BY <1>1, BlankAssumption DEF Init, GenuineInv, FileInv, MdocsOf
<1>7. NonceInv
  BY InputAssumption DEF Init, NonceInv
<1> QED
  BY <1>2, <1>3, <1>4, <1>5, <1>6, <1>7 DEF CredentialInv

LEMMA StepCredential == CredentialInv /\ [Next]_vars => CredentialInv'
<1> SUFFICES ASSUME CredentialInv, [Next]_vars PROVE CredentialInv'
  OBVIOUS
<1>0. now \in Nat
  BY DEF CredentialInv, TypeInv
<1>1. CASE UNCHANGED vars
  BY <1>0, <1>1, QuietStep DEF vars, memory
<1>2. ASSUME NEW s \in Servers, EnsureMdocPki(s) \/ SaveOpen(s) \/ SaveWrite(s)
      PROVE  CredentialInv'
  BY <1>2, EnsureStep, SaveOpenStep, SaveWriteStep
<1>3. ASSUME NEW s \in Servers, NEW t \in tokens, NEW proofs \in Proofs, NEW n \in nonces,
             IssueCredential(s, t, proofs, n)
      PROVE  CredentialInv'
  BY <1>3, IssueStep
<1>4. ASSUME NEW s \in Servers, NEW id \in known[s], Notify(s, id)
      PROVE  CredentialInv'
  BY <1>0, <1>4, QuietStep DEF Notify
<1>5. ASSUME NEW s \in Servers, RequestPresentation(s) \/ Restart(s)
      PROVE  CredentialInv'
  BY <1>5, RequestStep, RestartStep
<1>6. ASSUME NEW s \in Servers, NEW presented, PresentationResponse(s, presented)
      PROVE  CredentialInv'
  BY <1>6, ResponseStep
<1>7. ASSUME NEW c, NEW q, ClientCredentials(c, q)
      PROVE  CredentialInv'
  BY <1>7, ClientTokenStep DEF ClientCredentials
<1>8. ASSUME NEW c, NEW a, NEW q, JwtBearer(c, a, q)
      PROVE  CredentialInv'
  BY <1>8, ClientTokenStep DEF JwtBearer
<1>9. ASSUME NEW t \in tokens, CreateOffer(t)
      PROVE  CredentialInv'
  BY <1>9, CreateOfferStep
<1>10. ASSUME NEW o \in creating, SaveOffer(o) \/ AbandonOffer(o)
       PROVE  CredentialInv'
  BY <1>10, SaveOfferStep
<1>11. ASSUME NEW o \in offers, RedeemOffer(o)
       PROVE  CredentialInv'
  BY <1>11, RedeemOfferStep
<1>12. CASE IssueNonce
  BY <1>0, <1>12, QuietStep DEF IssueNonce, memory
<1>13. CASE Tick
  <2>1. now' \in Nat /\ now <= now'
    BY <1>0, <1>13 DEF Tick
  <2> QED
    BY <1>13, <2>1, QuietStep DEF Tick, memory
<1> QED
  BY <1>1, <1>2, <1>3, <1>4, <1>5, <1>6, <1>7, <1>8, <1>9, <1>10, <1>11, <1>12, <1>13 DEF Next

\* The inductive invariant holds of every reachable state.
THEOREM CredentialInvariant == Spec => []CredentialInv
BY InitCredential, StepCredential, PTL DEF Spec

\* Credentials got through an offer are the offered subject's, and the offer
\* was made by that subject or by a client acting in its own name, through any
\* chain of offers (CredentialOfferUseCase, issue_credential).
THEOREM SubjectHolds == Spec => []OfferedSubject
<1>1. CredentialInv => OfferedSubject
  BY DEF CredentialInv
<1> QED
  BY <1>1, CredentialInvariant, PTL

\* Where one file holds the certificates, and nothing disturbed its writing,
\* the mdocs of all processes verify, and the signer's certificate covers them
\* (_ensure_mdoc_pki, MdocIssuerPKI.issue).
THEOREM MdocsVerify == Spec => []MdocVerifiable
<1>1. CredentialInv => MdocVerifiable
  <2> SUFFICES ASSUME CredentialInv, NEW i \in DOMAIN issued, NEW j \in DOMAIN issued[i].credentials,
                      issued[i].credentials[j].config = Mdoc
               PROVE  /\ (path /\ ~disturbed) =>
                           \A s \in Servers : cache[s] \in {NoPki, issued[i].credentials[j].pki}
                      /\ Covered(issued[i].credentials[j], issued[i].at)
    BY DEF MdocVerifiable
  <2>1. Covered(issued[i].credentials[j], issued[i].at)
    BY DEF CredentialInv, SignedInv
  <2>2. ASSUME path, ~disturbed, NEW s \in Servers
        PROVE  cache[s] \in {NoPki, issued[i].credentials[j].pki}
    <3>1. FileInv
      BY DEF CredentialInv
    <3>2. file \in Pki
      BY <2>2, <3>1 DEF FileInv, MdocsOf
    <3>3. issued[i].credentials[j].pki = file /\ cache[s] \in {NoPki, file}
      BY <2>2, <3>1, <3>2 DEF FileInv, MdocsOf
    <3> QED
      BY <3>3
  <2> QED
    BY <2>1, <2>2
<1> QED
  BY <1>1, CredentialInvariant, PTL

\* No nonce of a presentation request is accepted twice, by whichever process
\* and whatever it comes with (validate_presentation_response).
THEOREM PresentedOnce == Spec => []PresentationOnce
<1>1. CredentialInv => PresentationOnce
  BY DEF CredentialInv, TypeInv, NonceInv, PresentationOnce
<1> QED
  BY <1>1, CredentialInvariant, PTL
=============================================================================
