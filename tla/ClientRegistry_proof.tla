------------------------- MODULE ClientRegistry_proof -------------------------
(***************************************************************************)
(* Proofs about ClientRegistry: through any sequence of registrations,     *)
(* updates, deletions and rotations of the sealing key, by any number of   *)
(* calls at the same time, its three properties hold.  The inductive       *)
(* invariant is RegistryInv: CallSound of every call, ClientSound of every *)
(* client.  First what the new row of a call is like, then what a step     *)
(* does to the calls and the clients that it does not touch.               *)
(*                                                                         *)
(* The second half is about Federation, the other way for a client to      *)
(* become known: what a trust chain that is accepted rests on.             *)
(***************************************************************************)
EXTENDS ClientRegistry, TLAPS

-----------------------------------------------------------------------------
(* Sealing keys, hashes and rows *)

LEMMA MaxInterval ==
  ASSUME NEW n \in Nat \ {0}
  PROVE  Max(1 .. n) = n
<1>1. n \in 1 .. n /\ \A y \in 1 .. n : n >= y
  OBVIOUS
<1>2. PICK x : x = Max(1 .. n)
  OBVIOUS
<1>3. x \in 1 .. n /\ \A y \in 1 .. n : x >= y
  BY <1>1, <1>2 DEF Max
<1> QED
  BY <1>1, <1>2, <1>3

\* A hash tells secrets apart.
LEMMA HashInjective ==
  ASSUME NEW s, NEW t, Hash(s) = Hash(t)
  PROVE  s = t
<1>1. Hash(s).sha256 = s /\ Hash(t).sha256 = t
  BY DEF Hash
<1> QED
  BY <1>1

LEMMA NoHashIs == NoHash = Hash(NoSecret)
BY DEF NoHash, Hash

LEMMA SealFields ==
  ASSUME NEW s, NEW k
  PROVE  Seal(s, k).kid = k /\ Seal(s, k).of = s
BY DEF Seal

\* What is sealed is a ciphertext.
LEMMA SealType ==
  ASSUME SealInv, NEW s \in Secrets
  PROVE  /\ Seal(s, Newest) \in [kid: 0 .. MaxKeys, of: Secrets \cup {NoSecret}]
         /\ Seal(s, Newest) # NoCiphertext
         /\ Readable(Seal(s, Newest)) /\ Seal(s, Newest).of = s
<1>1. Newest \in 1 .. MaxKeys /\ Newest \in sealKeys /\ MaxKeys \in Nat
  BY RegistryAssumption DEF SealInv
<1>2. Newest \in 0 .. MaxKeys
  BY <1>1
<1>3. Seal(s, Newest).of = s /\ Seal(s, Newest).kid = Newest
  BY SealFields
<1>4. Seal(s, Newest) # NoCiphertext
  <2>1. NoCiphertext.of = NoSecret
    BY DEF NoCiphertext
  <2> QED
    BY <1>3, <2>1, RegistryAssumption
<1> QED
  BY <1>1, <1>2, <1>3, <1>4 DEF Seal, Readable

\* A ciphertext that is sealed again stays one of the same secret.
LEMMA ResealType ==
  ASSUME SealInv, NEW c \in [kid: 0 .. MaxKeys, of: Secrets \cup {NoSecret}], Readable(c), c.of \in Secrets
  PROVE  /\ Reseal(c) \in [kid: 0 .. MaxKeys, of: Secrets \cup {NoSecret}]
         /\ Reseal(c) # NoCiphertext
         /\ Readable(Reseal(c)) /\ Reseal(c).of = c.of
<1>1. NoCiphertext.of = NoSecret
  BY DEF NoCiphertext
<1>2. c # NoCiphertext
  BY <1>1, RegistryAssumption
<1> QED
  BY <1>2, SealType DEF Reseal

LEMMA ClientFields ==
  ASSUME NEW m, NEW cr, NEW t, NEW c, c = Client(m, cr, t)
  PROVE  /\ c.method = m.method /\ c.hash = cr.hash /\ c.ciphertext = cr.ciphertext
         /\ c.jwks = m.jwks /\ c.jwks_uri = m.jwks_uri /\ c.tls = m.tls
         /\ c.signing = m.signing /\ c.encryption = m.encryption
         /\ c.fapi2 = ("fapi2" \in m.fapi) /\ c.token = t
BY DEF Client

LEMMA BodyFields ==
  ASSUME NEW m \in Bodies
  PROVE  /\ m.method \in AuthMethods /\ m.jwks \in SUBSET Jwks /\ m.jwks_uri \in BOOLEAN
         /\ m.tls \in {"none", "dn", "certificate"} /\ m.signing \in {"asymmetric", "symmetric"}
         /\ m.encryption \in {"none", "rsa", "symmetric", "enc_only"}
         /\ m.fapi \in SUBSET {"fapi1", "fapi2"}
BY RegistryAssumption DEF Metadata

LEMMA NoRow == Absent \notin Row
<1>1. Absent.method = "absent"
  BY DEF Absent
<1>2. \A c \in Row : c.method \in AuthMethods
  BY DEF Row
<1> QED
  BY <1>1, <1>2 DEF AuthMethods, KeylessMethods, SecretMethods, TlsMethods

\* Rows stay sound, since sealing keys are never removed.
LEMMA RowKept ==
  ASSUME NEW c, RowSound(c), sealKeys \subseteq sealKeys'
  PROVE  RowSound(c)'
BY DEF RowSound, MaterialSound, SecretSound, Readable, NeedsSeal

\* The hash and the ciphertext that cr has suit metadata m.
CredentialsSound(m, cr) ==
  /\ cr.hash \in {Hash(s) : s \in Secrets \cup {NoSecret}}
  /\ cr.ciphertext \in [kid: 0 .. MaxKeys, of: Secrets \cup {NoSecret}]
  /\ cr.issued \in Secrets \cup {NoSecret}
  /\ cr.ciphertext # NoCiphertext => Readable(cr.ciphertext) /\ cr.ciphertext.of \in Secrets
  /\ m.method \in KeylessMethods =>
       cr.hash = NoHash /\ cr.ciphertext = NoCiphertext /\ ~NeedsSeal(m) /\ cr.issued = NoSecret
  /\ m.method = "client_secret_jwt" => cr.hash = NoHash
  /\ m.method \in {"client_secret_basic", "client_secret_post"} =>
       cr.hash # NoHash /\ (NeedsSeal(m) => cr.ciphertext # NoCiphertext)
  /\ cr.hash # NoHash /\ cr.ciphertext # NoCiphertext => cr.hash = Hash(cr.ciphertext.of)

\* The row that a call writes is sound.
LEMMA RowMade ==
  ASSUME NEW m \in Bodies, Acceptable(m), NEW cr, CredentialsSound(m, cr), NEW t \in Ids,
         NEW c, c = Client(m, cr, t)
  PROVE  RowSound(c)
<1>1. m.encryption # "enc_only"
  BY DEF Acceptable, EncryptionMaterial
<1>2. /\ c.method = m.method /\ c.hash = cr.hash /\ c.ciphertext = cr.ciphertext
      /\ c.jwks = m.jwks /\ c.jwks_uri = m.jwks_uri /\ c.tls = m.tls
      /\ c.signing = m.signing /\ c.encryption = m.encryption
      /\ c.fapi2 = ("fapi2" \in m.fapi) /\ c.token = t
  BY ClientFields
<1>3. c \in Row
  BY <1>1, BodyFields DEF Client, Row, CredentialsSound
<1>4. MaterialSound(c)
  <2>1. m.encryption = "rsa" => RequireEncryptionRsaKey(m.jwks)
    BY DEF Acceptable, EncryptionMaterial
  <2>2. MethodMaterial(m) /\ JwksUsage(m) /\ FapiProfile(m)
    BY DEF Acceptable
  <2>3. m.method = "private_key_jwt" =>
          /\ m.jwks # {} \/ m.jwks_uri
          /\ m.jwks # {} /\ ~m.jwks_uri => RequireSigningKey(m.jwks)
    BY <2>2 DEF MethodMaterial, JwksUsage
  <2>4. m.method \in TlsMethods => m.tls # "none"
    BY <2>2 DEF MethodMaterial
  <2>5. "fapi2" \in m.fapi => m.method \notin {"none", "client_secret_basic", "client_secret_post"}
    BY <2>2 DEF FapiProfile, TlsMethods
  <2> QED
    BY <1>2, <2>1, <2>3, <2>4, <2>5 DEF MaterialSound
<1>5. NeedsSeal(c) <=> NeedsSeal(m)
  BY <1>2 DEF NeedsSeal
<1>6. SecretSound(c)
  BY <1>2, <1>5 DEF SecretSound, CredentialsSound
<1> QED
  BY <1>3, <1>4, <1>6 DEF RowSound

-----------------------------------------------------------------------------
(* What the credentials of a call are like *)

LEMMA IssueFields ==
  ASSUME NEW h, NEW x, NEW i, NEW cr, cr = Issue(h, x, i)
  PROVE  cr.hash = h /\ cr.ciphertext = x /\ cr.issued = i
BY DEF Issue

\* Credentials cr, answered to an owner that had secret before, are about the
\* secret that it has then.
CredentialsFit(m, cr, before) ==
  LET told == IF cr.issued # NoSecret THEN cr.issued
              ELSE IF m.method \in KeylessMethods THEN NoSecret ELSE before
  IN told # NoSecret =>
       /\ m.method \notin KeylessMethods /\ cr.hash \in {NoHash, Hash(told)}
       /\ cr.ciphertext = NoCiphertext \/ cr.ciphertext.of = told

LEMMA Ciphertexts ==
  ASSUME NEW s \in Secrets
  PROVE  /\ NoCiphertext \in [kid: 0 .. MaxKeys, of: Secrets \cup {NoSecret}]
         /\ NoHash \in {Hash(t) : t \in Secrets \cup {NoSecret}}
         /\ Hash(s) \in {Hash(t) : t \in Secrets \cup {NoSecret}}
         /\ Hash(s) # NoHash
<1>1. 0 \in 0 .. MaxKeys
  BY RegistryAssumption
<1>2. Hash(s) # NoHash
  BY NoHashIs, HashInjective, RegistryAssumption
<1> QED
  BY <1>1, <1>2, NoHashIs DEF NoCiphertext

LEMMA NoSecretTypes ==
  /\ NoCiphertext \in [kid: 0 .. MaxKeys, of: Secrets \cup {NoSecret}]
  /\ NoHash \in {Hash(t) : t \in Secrets \cup {NoSecret}}
<1>1. 0 \in 0 .. MaxKeys
  BY RegistryAssumption
<1> QED
  BY <1>1, NoHashIs DEF NoCiphertext

\* No secret: the method has none.
LEMMA KeylessCredentials ==
  ASSUME NEW m \in Bodies, Acceptable(m), m.method \in KeylessMethods, NEW before,
         NEW cr, cr = Issue(NoHash, NoCiphertext, NoSecret)
  PROVE  CredentialsSound(m, cr) /\ CredentialsFit(m, cr, before)
<1>1. cr.hash = NoHash /\ cr.ciphertext = NoCiphertext /\ cr.issued = NoSecret
  BY IssueFields
<1>2. ~NeedsSeal(m)
  BY BodyFields DEF Acceptable, SigningMaterial, EncryptionMaterial, NeedsSeal
<1>3. m.method \notin {"client_secret_basic", "client_secret_post", "client_secret_jwt"}
  BY DEF KeylessMethods, TlsMethods
<1> QED
  BY <1>1, <1>2, <1>3, NoSecretTypes DEF CredentialsSound, CredentialsFit

\* A new secret, kept as a hash, sealed, or both.
LEMMA FreshCredentials ==
  ASSUME SealInv, NEW m \in Bodies, m.method \in SecretMethods, NEW s \in Secrets, NEW before,
         NEW h, NEW x, NEW cr, cr = Issue(h, x, s),
         h \in {NoHash, Hash(s)}, x \in {NoCiphertext, Seal(s, Newest)},
         m.method = "client_secret_jwt" <=> h = NoHash,
         NeedsSeal(m) => x # NoCiphertext
  PROVE  CredentialsSound(m, cr) /\ CredentialsFit(m, cr, before)
<1>1. cr.hash = h /\ cr.ciphertext = x /\ cr.issued = s
  BY IssueFields
<1>2. m.method \notin KeylessMethods
  BY DEF KeylessMethods, TlsMethods, SecretMethods
<1>3. /\ Seal(s, Newest) \in [kid: 0 .. MaxKeys, of: Secrets \cup {NoSecret}]
      /\ Readable(Seal(s, Newest)) /\ Seal(s, Newest).of = s
  BY SealType
<1>4. s # NoSecret
  BY RegistryAssumption
<1>5. CredentialsSound(m, cr)
  BY <1>1, <1>2, <1>3, Ciphertexts DEF CredentialsSound
<1>6. CredentialsFit(m, cr, before)
  BY <1>1, <1>2, <1>3, <1>4 DEF CredentialsFit
<1> QED
  BY <1>5, <1>6

\* The secret of a row is kept, perhaps sealed again.
LEMMA KeptCredentials ==
  ASSUME SealInv, NEW m \in Bodies, m.method \in SecretMethods, NEW old, RowSound(old),
         NEW before, Fits(old, before),
         NEW h, NEW x, NEW cr, cr = Issue(h, x, NoSecret),
         h = IF m.method = "client_secret_jwt" THEN NoHash ELSE old.hash,
         h = NoHash => m.method = "client_secret_jwt",
         \/ x = old.ciphertext
         \/ old.ciphertext # NoCiphertext /\ x = Reseal(old.ciphertext),
         m.method # "client_secret_jwt" /\ NeedsSeal(m) => x # NoCiphertext
  PROVE  CredentialsSound(m, cr) /\ CredentialsFit(m, cr, before)
<1>1. cr.hash = h /\ cr.ciphertext = x /\ cr.issued = NoSecret
  BY IssueFields
<1>2. m.method \notin KeylessMethods
  BY DEF KeylessMethods, TlsMethods, SecretMethods
<1>3. /\ old.hash \in {Hash(t) : t \in Secrets \cup {NoSecret}}
      /\ old.ciphertext \in [kid: 0 .. MaxKeys, of: Secrets \cup {NoSecret}]
  BY DEF RowSound, Row
<1>4. /\ old.ciphertext # NoCiphertext =>
           Readable(old.ciphertext) /\ old.ciphertext.of \in Secrets
      /\ old.hash # NoHash /\ old.ciphertext # NoCiphertext =>
           old.hash = Hash(old.ciphertext.of)
  BY DEF RowSound, SecretSound
<1>5. old.ciphertext = NoCiphertext => x = NoCiphertext
  OBVIOUS
<1>6. old.ciphertext # NoCiphertext =>
        /\ x # NoCiphertext /\ x \in [kid: 0 .. MaxKeys, of: Secrets \cup {NoSecret}]
        /\ Readable(x) /\ x.of = old.ciphertext.of
  <2> HAVE old.ciphertext # NoCiphertext
  <2>1. CASE x = old.ciphertext
    BY <2>1, <1>3, <1>4
  <2>2. CASE x = Reseal(old.ciphertext)
    BY <2>2, <1>3, <1>4, ResealType
  <2> QED
    BY <2>1, <2>2
<1>7. CredentialsSound(m, cr)
  BY <1>1, <1>2, <1>3, <1>4, <1>5, <1>6, NoSecretTypes DEF CredentialsSound
<1>8. CredentialsFit(m, cr, before)
  BY <1>1, <1>2, <1>5, <1>6 DEF CredentialsFit, Fits
<1> QED
  BY <1>7, <1>8

LEMMA CredentialsForSound ==
  ASSUME SealInv, NEW m \in Bodies, Acceptable(m), NEW s, Draw(m.method \in SecretMethods, s),
         NEW before, NEW cr, cr = CredentialsFor(m, s)
  PROVE  CredentialsSound(m, cr) /\ CredentialsFit(m, cr, before)
<1>1. CASE m.method \in KeylessMethods
  <2>1. ~NeedsSeal(m)
    BY <1>1, BodyFields DEF Acceptable, SigningMaterial, EncryptionMaterial, NeedsSeal
  <2>2. m.method \notin SecretMethods /\ m.method # "client_secret_jwt"
    BY <1>1 DEF KeylessMethods, TlsMethods, SecretMethods
  <2>3. cr = Issue(NoHash, NoCiphertext, NoSecret)
    BY <2>1, <2>2 DEF CredentialsFor
  <2> QED
    BY <1>1, <2>3, KeylessCredentials
<1>2. CASE m.method \in SecretMethods
  <2>1. s \in Secrets
    BY <1>2 DEF Draw
  <2>2. Hash(s) # NoHash /\ Seal(s, Newest) # NoCiphertext
    BY <2>1, Ciphertexts, SealType
  <2>3. CASE m.method = "client_secret_jwt"
    <3>1. cr = Issue(NoHash, Seal(s, Newest), s)
      BY <2>3 DEF CredentialsFor
    <3> QED
      BY <1>2, <2>1, <2>2, <2>3, <3>1, FreshCredentials
  <2>4. CASE m.method # "client_secret_jwt" /\ NeedsSeal(m)
    <3>1. cr = Issue(Hash(s), Seal(s, Newest), s)
      BY <2>4 DEF CredentialsFor
    <3> QED
      BY <1>2, <2>1, <2>2, <2>4, <3>1, FreshCredentials
  <2>5. CASE m.method # "client_secret_jwt" /\ ~NeedsSeal(m)
    <3>1. cr = Issue(Hash(s), NoCiphertext, s)
      BY <1>2, <2>5 DEF CredentialsFor
    <3> QED
      BY <1>2, <2>1, <2>2, <2>5, <3>1, FreshCredentials
  <2> QED
    BY <2>3, <2>4, <2>5
<1> QED
  BY <1>1, <1>2, BodyFields DEF AuthMethods

LEMMA UpdatedCredentialsSound ==
  ASSUME SealInv, NEW m \in Bodies, Acceptable(m), NEW old, RowSound(old),
         NEW before, Fits(old, before), NEW requested \in Secrets \cup {NoSecret},
         SigningRotation(old, m, requested), EncryptionRotation(old, m, requested),
         NEW s, Draw(Generates(old, m, requested), s),
         NEW cr, cr = UpdatedCredentials(old, m, requested, s)
  PROVE  CredentialsSound(m, cr) /\ CredentialsFit(m, cr, before)
<1>1. CASE m.method \in KeylessMethods
  <2>1. cr = Issue(NoHash, NoCiphertext, NoSecret)
    BY <1>1 DEF UpdatedCredentials
  <2> QED
    BY <1>1, <2>1, KeylessCredentials
<1>2. ASSUME m.method \in SecretMethods, m.method \notin KeylessMethods
      PROVE  CredentialsSound(m, cr) /\ CredentialsFit(m, cr, before)
  <2>1. requested # NoSecret =>
          requested \in Secrets /\ Hash(requested) # NoHash /\ Seal(requested, Newest) # NoCiphertext
    BY Ciphertexts, SealType
  <2>2. CASE m.method = "client_secret_jwt"
    <3>1. cr = RotateJwtSecret(old, requested)
      BY <1>2, <2>2 DEF UpdatedCredentials
    <3>2. CASE requested # NoSecret
      <4>1. cr = Issue(NoHash, Seal(requested, Newest), requested)
        BY <3>1, <3>2 DEF RotateJwtSecret
      <4> QED
        BY <1>2, <2>1, <2>2, <3>2, <4>1, FreshCredentials
    <3>3. CASE requested = NoSecret /\ old.ciphertext = NoCiphertext
      <4>1. cr = Issue(NoHash, old.ciphertext, NoSecret)
        BY <3>1, <3>3 DEF RotateJwtSecret
      <4> QED
        BY <1>2, <2>2, <4>1, KeptCredentials
    <3>4. CASE requested = NoSecret /\ old.ciphertext # NoCiphertext
      <4>1. cr = Issue(NoHash, Reseal(old.ciphertext), NoSecret)
        BY <3>1, <3>4 DEF RotateJwtSecret
      <4> QED
        BY <1>2, <2>2, <3>4, <4>1, KeptCredentials
    <3> QED
      BY <3>2, <3>3, <3>4
  <2>3. CASE m.method # "client_secret_jwt"
    <3>1. NeedsSeal(m) => Sealable(old, m, requested)
      BY DEF NeedsSeal, SigningRotation, EncryptionRotation
    <3>2. m.method \in {"client_secret_basic", "client_secret_post"}
      BY <1>2, <2>3 DEF SecretMethods
    <3>3. NeedsSeal(m) =>
            \/ old.ciphertext # NoCiphertext
            \/ requested # NoSecret /\ Hash(requested) # old.hash
      BY <3>1, <3>2 DEF Sealable
    <3>4. ASSUME cr = Issue(old.hash, RecoverCiphertext(old, NeedsSeal(m)), NoSecret),
                 old.hash # NoHash, NeedsSeal(m) => old.ciphertext # NoCiphertext
          PROVE  CredentialsSound(m, cr) /\ CredentialsFit(m, cr, before)
      <4> DEFINE x == RecoverCiphertext(old, NeedsSeal(m))
      <4>1. \/ x = old.ciphertext
            \/ old.ciphertext # NoCiphertext /\ x = Reseal(old.ciphertext)
        BY DEF RecoverCiphertext
      <4>2. NeedsSeal(m) => x # NoCiphertext
        <5> HAVE NeedsSeal(m)
        <5>1. old.ciphertext # NoCiphertext /\ x = Reseal(old.ciphertext)
          BY <3>4 DEF RecoverCiphertext
        <5>2. /\ old.ciphertext \in [kid: 0 .. MaxKeys, of: Secrets \cup {NoSecret}]
              /\ Readable(old.ciphertext) /\ old.ciphertext.of \in Secrets
          BY <5>1 DEF RowSound, SecretSound, Row
        <5> QED
          BY <5>1, <5>2, ResealType
      <4>3. cr = Issue(old.hash, x, NoSecret)
        BY <3>4
      <4> HIDE DEF x
      <4> QED
        BY <1>2, <2>3, <3>4, <4>1, <4>2, <4>3, KeptCredentials
    <3>5. ASSUME NEW t \in Secrets, cr = Issue(Hash(t), SealSecret(NeedsSeal(m), t), t)
          PROVE  CredentialsSound(m, cr) /\ CredentialsFit(m, cr, before)
      <4> DEFINE x == SealSecret(NeedsSeal(m), t)
      <4>1. Hash(t) # NoHash /\ Seal(t, Newest) # NoCiphertext
        BY Ciphertexts, SealType
      <4>2. x \in {NoCiphertext, Seal(t, Newest)} /\ (NeedsSeal(m) => x # NoCiphertext)
        BY <4>1 DEF SealSecret
      <4>3. cr = Issue(Hash(t), x, t)
        BY <3>5
      <4> HIDE DEF x
      <4> QED
        BY <1>2, <2>3, <4>1, <4>2, <4>3, FreshCredentials
    <3>6. CASE requested # NoSecret /\ Hash(requested) = old.hash /\ old.ciphertext # NoCiphertext
      <4>1. cr = Issue(old.hash, RecoverCiphertext(old, NeedsSeal(m)), NoSecret)
        BY <1>2, <2>3, <3>6 DEF UpdatedCredentials
      <4> QED
        BY <2>1, <3>4, <3>6, <4>1
    <3>7. CASE requested # NoSecret /\ ~(Hash(requested) = old.hash /\ old.ciphertext # NoCiphertext)
      <4>1. cr = Issue(Hash(requested), SealSecret(NeedsSeal(m), requested), requested)
        BY <1>2, <2>3, <3>7 DEF UpdatedCredentials
      <4> QED
        BY <2>1, <3>5, <3>7, <4>1
    <3>8. CASE requested = NoSecret /\ old.hash # NoHash
      <4>1. cr = Issue(old.hash, RecoverCiphertext(old, NeedsSeal(m)), NoSecret)
        BY <1>2, <2>3, <3>8 DEF UpdatedCredentials
      <4> QED
        BY <3>3, <3>4, <3>8, <4>1
    <3>9. CASE requested = NoSecret /\ old.hash = NoHash
      <4>1. cr = Issue(Hash(s), SealSecret(NeedsSeal(m), s), s)
        BY <1>2, <2>3, <3>9 DEF UpdatedCredentials
      <4>2. Generates(old, m, requested)
        BY <1>2, <2>3, <3>9 DEF Generates
      <4>3. s \in Secrets
        BY <4>2 DEF Draw
      <4> QED
        BY <3>5, <4>1, <4>3
    <3> QED
      BY <3>6, <3>7, <3>8, <3>9
  <2> QED
    BY <2>2, <2>3
<1> QED
  BY <1>1, <1>2, BodyFields DEF AuthMethods
-----------------------------------------------------------------------------
(* A step of one call, on one client *)

LEMMA IdleType == Idle \in Call /\ Idle.pc = "idle"
<1>1. (CHOOSE i \in Ids : TRUE) \in Ids
  BY RegistryAssumption
<1> QED
  BY <1>1 DEF Idle, Call, Steps

\* A sound call stays so while nobody else works on its client.
LEMMA CallKept ==
  ASSUME NEW c, CallSound(c), sealKeys \subseteq sealKeys', born \subseteq born',
         disturbed \subseteq disturbed', unsealed \subseteq unsealed',
         c.pc # "idle" /\ c.id \notin disturbed' =>
           clients'[c.id] = clients[c.id] /\ known'[c.id] = known[c.id]
  PROVE  CallSound(c)'
<1> SUFFICES ASSUME c.pc # "idle" PROVE CallSound(c)'
  BY DEF CallSound
<1>1. /\ c.id \in born
      /\ c.pc = "seal" =>
           /\ RowSound(c.old) /\ c.body \in Bodies /\ Acceptable(c.body)
           /\ SigningRotation(c.old, c.body, c.requested)
           /\ EncryptionRotation(c.old, c.body, c.requested)
      /\ c.pc \in {"save", "respond"} => RowSound(c.new)
      /\ c.id \notin disturbed \cup unsealed => Current(c)
  BY DEF CallSound
<1>2. c.pc = "seal" => RowSound(c.old)'
  BY <1>1, RowKept
<1>3. c.pc \in {"save", "respond"} => RowSound(c.new)'
  BY <1>1, RowKept
<1>4. c.id \notin disturbed' \cup unsealed' => Current(c)'
  BY <1>1 DEF Current
<1> QED
  BY <1>1, <1>2, <1>3, <1>4 DEF CallSound

\* The same, said of the slot of the next state.
LEMMA CallSlot ==
  ASSUME NEW k, NEW c, call'[k] = c, CallSound(c)'
  PROVE  CallSound(call[k])'
BY DEF CallSound, Current, RowSound, SecretSound, Readable

\* Call k, which works on client i, becomes c.
Focus(k, i, c) ==
  /\ call' = [call EXCEPT ![k] = c]
  /\ call[k].pc = "idle" \/ call[k].id = i
  /\ c.pc = "idle" \/ c.id = i
  /\ sealKeys' = sealKeys
  /\ born \subseteq born' /\ born' \subseteq born \cup {i}
  /\ gone \subseteq gone' /\ gone' \subseteq gone \cup {i}
  /\ disturbed \subseteq disturbed' /\ disturbed' \subseteq disturbed \cup {i}
  /\ unsealed \subseteq unsealed' /\ unsealed' \subseteq unsealed \cup {i}
  /\ \A id \in Ids : id # i => clients'[id] = clients[id] /\ known'[id] = known[id]
  /\ \/ clients'[i] = clients[i] /\ known'[i] = known[i]
     \/ WorksOn(k, i)

LEMMA OthersKept ==
  ASSUME RegistryInv, NEW k \in Calls, NEW i \in Ids, NEW c, Focus(k, i, c)
  PROVE  /\ \A j \in Calls \ {k} : CallSound(call[j])'
         /\ \A id \in Ids \ {i} : ClientSound(id)'
<1>1. /\ \A j \in Calls \ {k} : call'[j] = call[j]
      /\ call'[k] = c
  BY DEF Focus, RegistryInv, TypeOK
<1>2. ASSUME NEW j \in Calls \ {k} PROVE CallSound(call[j])'
  <2>1. PICK d \in Call : d = call[j]
    BY DEF RegistryInv, TypeOK
  <2>2. CallSound(d) /\ d.id \in Ids
    BY <2>1 DEF RegistryInv, Call
  <2>3. d.pc # "idle" /\ d.id \notin disturbed' =>
          clients'[d.id] = clients[d.id] /\ known'[d.id] = known[d.id]
    <3> HAVE d.pc # "idle" /\ d.id \notin disturbed'
    <3>1. CASE d.id # i
      BY <2>2, <3>1 DEF Focus
    <3>2. CASE d.id = i
      <4>1. ClientSound(i) /\ i \notin disturbed /\ WorksOn(j, i)
        BY <2>1, <3>2 DEF RegistryInv, Focus, WorksOn
      <4>2. ~WorksOn(k, i)
        BY <4>1 DEF ClientSound
      <4> QED
        BY <3>2, <4>2 DEF Focus
    <3> QED
      BY <3>1, <3>2
  <2>4. CallSound(d)'
    <3>1. /\ sealKeys \subseteq sealKeys' /\ born \subseteq born'
          /\ disturbed \subseteq disturbed' /\ unsealed \subseteq unsealed'
      BY DEF Focus
    <3> QED
      BY <2>2, <2>3, <3>1, CallKept
  <2> QED
    BY <1>1, <2>1, <2>4, CallSlot
<1>3. ASSUME NEW id \in Ids \ {i} PROVE ClientSound(id)'
  <2>1. ClientSound(id)
    BY DEF RegistryInv
  <2>2. /\ id \in born' <=> id \in born
        /\ id \in gone' <=> id \in gone
        /\ id \in disturbed' <=> id \in disturbed
        /\ id \in unsealed' <=> id \in unsealed
        /\ clients'[id] = clients[id] /\ known'[id] = known[id]
    BY DEF Focus
  <2>3. ~WorksOn(k, id) /\ ~WorksOn(k, id)'
    BY <1>1 DEF Focus, WorksOn
  <2>4. \A j \in Calls : /\ WorksOn(j, id)' <=> WorksOn(j, id)
                         /\ WorksOn(j, id) => call'[j] = call[j]
    BY <1>1, <2>3 DEF WorksOn
  <2>5. PICK r : r = clients[id]
    OBVIOUS
  <2>6. RowSound(r) => RowSound(r)'
    BY RowKept DEF Focus
  <2>7. RowSound(clients[id]) => RowSound(clients[id])'
    BY <2>2, <2>5, <2>6 DEF RowSound, SecretSound, Readable
  <2> QED
    BY <2>1, <2>2, <2>4, <2>7 DEF ClientSound, Unsealed, Fits
<1> QED
  BY <1>2, <1>3

\* What remains to be shown of such a step.
LEMMA FocusKeeps ==
  ASSUME RegistryInv, NEW k \in Calls, NEW i \in Ids, NEW c, Focus(k, i, c),
         TypeOK', CallSound(c)', ClientSound(i)'
  PROVE  RegistryInv'
<1>1. call'[k] = c
  BY DEF Focus, RegistryInv, TypeOK
<1>2. CallSound(call[k])'
  BY <1>1, CallSlot
<1>3. SealInv'
  BY DEF RegistryInv, SealInv, Newest, Focus
<1> QED
  BY <1>2, <1>3, OthersKept DEF RegistryInv
\* The client of the step, r its row and s the secret of its owner afterwards.
LEMMA ClientKept ==
  ASSUME RegistryInv, NEW k \in Calls, NEW i \in Ids, NEW c, Focus(k, i, c), i \in born',
         NEW r, r = clients'[i], NEW s, s = known'[i],
         r # Absent => RowSound(r) /\ (Unsealed(r) => i \in unsealed'),
         i \notin disturbed' => \A j \in Calls \ {k} : ~WorksOn(j, i),
         i \in gone' \ disturbed' => r = Absent /\ c.pc = "idle",
         r # Absent /\ i \notin disturbed' \cup unsealed' => Fits(r, s) \/ c.pc = "respond"
  PROVE  ClientSound(i)'
<1>1. /\ \A j \in Calls \ {k} : call'[j] = call[j]
      /\ call'[k] = c
  BY DEF Focus, RegistryInv, TypeOK
<1>2. i \notin disturbed' => \A j \in Calls : WorksOn(j, i)' => j = k
  BY <1>1 DEF WorksOn
<1>3. RowSound(r) => RowSound(r)'
  BY RowKept DEF Focus
<1>4. clients'[i] # Absent => RowSound(clients[i])'
  BY <1>3 DEF RowSound, SecretSound, Readable
<1>5. i \in gone' \ disturbed' => clients'[i] = Absent /\ \A j \in Calls : ~WorksOn(j, i)'
  BY <1>1, <1>2 DEF WorksOn
<1>6. c.pc = "respond" => WorksOn(k, i)' /\ call'[k].pc = "respond"
  BY <1>1 DEF WorksOn, Focus
<1>7. clients'[i] # Absent /\ i \notin disturbed' \cup unsealed' =>
        \/ Fits(clients[i], known[i])'
        \/ \E j \in Calls : WorksOn(j, i)' /\ call'[j].pc = "respond"
  BY <1>6 DEF Fits
<1>8. Unsealed(clients[i])' => Unsealed(r)
  BY DEF Unsealed
<1> QED
  BY <1>2, <1>4, <1>5, <1>7, <1>8 DEF ClientSound

\* A call of an undisturbed client is the only one; unless it has answered, the
\* row is about the secret of the owner.
LEMMA Alone ==
  ASSUME RegistryInv, NEW k \in Calls, NEW i \in Ids, WorksOn(k, i)
  PROVE  /\ i \in born
         /\ i \notin disturbed => i \notin gone /\ \A j \in Calls \ {k} : ~WorksOn(j, i)
         /\ clients[i] # Absent /\ i \notin disturbed \cup unsealed /\ call[k].pc # "respond" =>
              Fits(clients[i], known[i])
<1>1. ClientSound(i) /\ CallSound(call[k])
  BY DEF RegistryInv
<1>2. i \in born
  BY <1>1 DEF CallSound, WorksOn
<1>3. i \notin disturbed => i \notin gone /\ \A j \in Calls \ {k} : ~WorksOn(j, i)
  BY <1>1 DEF ClientSound
<1> QED
  BY <1>1, <1>2, <1>3 DEF ClientSound

\* What is stored is sound.
LEMMA StoredSound ==
  ASSUME RegistryInv, NEW i \in Ids, clients[i] # Absent
  PROVE  i \in born /\ RowSound(clients[i]) /\ (Unsealed(clients[i]) => i \in unsealed)
BY DEF RegistryInv, ClientSound

\* The answer of a call keeps its row about the secret of the owner.
LEMMA ToldFits ==
  ASSUME NEW m, NEW cr, NEW t, NEW before, CredentialsFit(m, cr, before),
         NEW c, c.new = Client(m, cr, t), c.issued = cr.issued
  PROVE  Fits(c.new, Told(c, before))
<1>1. c.new.method = m.method /\ c.new.hash = cr.hash /\ c.new.ciphertext = cr.ciphertext
  BY ClientFields
<1>2. PICK told : told = Told(c, before)
  OBVIOUS
<1>3. told = IF cr.issued # NoSecret THEN cr.issued
             ELSE IF m.method \in KeylessMethods THEN NoSecret ELSE before
  BY <1>1, <1>2 DEF Told
<1>4. Fits(c.new, told)
  BY <1>1, <1>3 DEF CredentialsFit, Fits
<1> QED
  BY <1>2, <1>4

-----------------------------------------------------------------------------
(* Every action keeps the invariant *)

LEMMA RegisterKeeps ==
  ASSUME RegistryInv, NEW k \in Calls, NEW i \in Ids, NEW m \in Bodies, NEW token,
         NEW s \in Secrets \cup {NoSecret}, Register(k, i, m, token, s)
  PROVE  RegistryInv'
<1>1. PICK cr : cr = CredentialsFor(m, s)
  OBVIOUS
<1>2. PICK r : r = Client(m, cr, i)
  OBVIOUS
<1>3. PICK c : c = [Idle EXCEPT !.pc = "save", !.id = i, !.new = r, !.issued = cr.issued]
  OBVIOUS
<1>4. /\ call[k].pc = "idle" /\ begun < MaxCalls /\ begun' = begun + 1
      /\ i \notin born /\ Acceptable(m) /\ Draw(m.method \in SecretMethods, s)
      /\ call' = [call EXCEPT ![k] = c]
      /\ drawn' = drawn \cup ({cr.issued} \ {NoSecret})
      /\ born' = born \cup {i}
      /\ UNCHANGED <<clients, sealKeys, known, gone, disturbed, unsealed>>
  BY <1>1, <1>2, <1>3 DEF Register, Begin, NewId
<1>5. CredentialsSound(m, cr) /\ CredentialsFit(m, cr, NoSecret)
  BY <1>1, <1>4, CredentialsForSound DEF RegistryInv
<1>6. RowSound(r) /\ r \in Row
  BY <1>2, <1>4, <1>5, RowMade DEF RowSound
<1>7. cr.issued \in Secrets \cup {NoSecret}
  BY <1>5 DEF CredentialsSound
<1>8. c \in Call /\ c.pc = "save" /\ c.id = i /\ c.new = r /\ c.issued = cr.issued
  BY <1>3, <1>6, <1>7, IdleType DEF Call, Steps
<1>9. clients[i] = Absent /\ known[i] = NoSecret /\ i \notin gone
  <2>1. ClientSound(i) /\ gone \subseteq born
    BY DEF RegistryInv, TypeOK
  <2> QED
    BY <1>4, <2>1 DEF ClientSound
<1>10. TypeOK'
  <2>1. begun' \in 0 .. MaxCalls
    BY <1>4, RegistryAssumption DEF RegistryInv, TypeOK
  <2>2. call' \in [Calls -> Call]
    BY <1>4, <1>8 DEF RegistryInv, TypeOK
  <2>3. drawn' \subseteq Secrets
    BY <1>4, <1>7 DEF RegistryInv, TypeOK
  <2> QED
    BY <1>4, <2>1, <2>2, <2>3 DEF RegistryInv, TypeOK
<1>11. Focus(k, i, c)
  BY <1>4, <1>8 DEF Focus
<1>12. CallSound(c)'
  <2>1. Fits(c.new, Told(c, NoSecret))
    BY <1>2, <1>5, <1>8, ToldFits
  <2>2. Fits(c.new, Told(c, known[c.id]))
    BY <1>8, <1>9, <2>1
  <2>3. Current(c)'
    BY <1>4, <1>8, <2>2 DEF Current
  <2>4. RowSound(c.new)'
    BY <1>4, <1>6, <1>8, RowKept
  <2> QED
    BY <1>4, <1>8, <2>3, <2>4 DEF CallSound
<1>13. ClientSound(i)'
  <2>1. \A j \in Calls \ {k} : ~WorksOn(j, i)
    BY <1>4 DEF RegistryInv, CallSound, WorksOn
  <2> QED
    BY <1>4, <1>9, <1>11, <2>1, ClientKept
<1> QED
  BY <1>10, <1>11, <1>12, <1>13, FocusKeeps
\* Calls that begin on a client of the store.
LEMMA BeginFocus ==
  ASSUME RegistryInv, NEW k \in Calls, NEW i \in Ids, NEW c \in Call, c.pc # "idle", c.id = i,
         c.pc # "respond", call[k].pc = "idle", clients[i] # Absent,
         call' = [call EXCEPT ![k] = c], NoteOverlap(i, k),
         UNCHANGED <<clients, sealKeys, known, born, gone, unsealed>>
  PROVE  /\ Focus(k, i, c) /\ ClientSound(i)'
         /\ call' \in [Calls -> Call] /\ disturbed' \subseteq born'
<1>1. i \in born /\ RowSound(clients[i]) /\ (Unsealed(clients[i]) => i \in unsealed)
  BY StoredSound
<1>2. disturbed \subseteq disturbed' /\ disturbed' \subseteq disturbed \cup {i}
  BY DEF NoteOverlap
<1>3. Focus(k, i, c)
  BY <1>2 DEF Focus
<1>4. i \notin disturbed' => \A j \in Calls \ {k} : ~WorksOn(j, i)
  BY DEF NoteOverlap, Busy, WorksOn
<1>5. ClientSound(i)
  BY DEF RegistryInv
<1>6. i \notin gone' \ disturbed'
  BY <1>2, <1>5 DEF ClientSound
<1>7. i \notin disturbed' \cup unsealed' => Fits(clients[i], known[i])
  BY <1>2, <1>4, <1>5 DEF ClientSound, WorksOn
<1>8. ClientSound(i)'
  BY <1>1, <1>3, <1>4, <1>6, <1>7, ClientKept
<1> QED
  BY <1>1, <1>2, <1>3, <1>8 DEF RegistryInv, TypeOK

LEMMA UpdateKeeps ==
  ASSUME RegistryInv, NEW k \in Calls, NEW i \in Ids, NEW token, NEW m \in Bodies,
         NEW requested \in Secrets \cup {NoSecret}, Update(k, i, token, m, requested)
  PROVE  RegistryInv'
<1>1. PICK old : old = clients[i]
  OBVIOUS
<1>2. PICK c : c = [pc |-> "seal", id |-> i, old |-> old, body |-> m, requested |-> requested,
                    new |-> Absent, issued |-> NoSecret]
  OBVIOUS
<1>3. /\ call[k].pc = "idle" /\ begun < MaxCalls /\ begun' = begun + 1
      /\ clients[i] # Absent /\ Acceptable(m)
      /\ SigningRotation(old, m, requested) /\ EncryptionRotation(old, m, requested)
      /\ call' = [call EXCEPT ![k] = c]
      /\ drawn' = drawn \cup ({requested} \ {NoSecret})
      /\ NoteOverlap(i, k)
      /\ UNCHANGED <<clients, sealKeys, known, born, gone, unsealed>>
  BY <1>1, <1>2 DEF Update, Begin, ResolveManaged
<1>4. i \in born /\ RowSound(old) /\ old \in Row
  BY <1>1, <1>3, StoredSound DEF RowSound
<1>5. c \in Call
  BY <1>2, <1>4 DEF Call, Steps
<1>6. c.pc = "seal" /\ c.id = i /\ c.old = old /\ c.body = m /\ c.requested = requested
  BY <1>2
<1>7. /\ Focus(k, i, c) /\ ClientSound(i)'
      /\ call' \in [Calls -> Call] /\ disturbed' \subseteq born'
  BY <1>3, <1>5, <1>6, BeginFocus
<1>8. TypeOK'
  <2>1. begun' \in 0 .. MaxCalls
    BY <1>3, RegistryAssumption DEF RegistryInv, TypeOK
  <2> QED
    BY <1>3, <1>7, <2>1 DEF RegistryInv, TypeOK
<1>9. CallSound(c)'
  <2>1. RowSound(c.old)'
    BY <1>3, <1>4, <1>6, RowKept
  <2>2. Current(c)'
    BY <1>1, <1>3, <1>6 DEF Current
  <2> QED
    BY <1>3, <1>4, <1>6, <2>1, <2>2 DEF CallSound
<1> QED
  BY <1>7, <1>8, <1>9, FocusKeeps

LEMMA DeleteKeeps ==
  ASSUME RegistryInv, NEW k \in Calls, NEW i \in Ids, NEW token, Delete(k, i, token)
  PROVE  RegistryInv'
<1>1. PICK c : c = [Idle EXCEPT !.pc = "delete", !.id = i]
  OBVIOUS
<1>2. /\ call[k].pc = "idle" /\ begun < MaxCalls /\ begun' = begun + 1
      /\ clients[i] # Absent
      /\ call' = [call EXCEPT ![k] = c]
      /\ NoteOverlap(i, k)
      /\ UNCHANGED <<clients, sealKeys, known, drawn, born, gone, unsealed>>
  BY <1>1 DEF Delete, Begin, ResolveManaged
<1>3. c \in Call /\ c.pc = "delete" /\ c.id = i
  BY <1>1, IdleType DEF Call, Steps
<1>4. /\ Focus(k, i, c) /\ ClientSound(i)'
      /\ call' \in [Calls -> Call] /\ disturbed' \subseteq born'
  BY <1>2, <1>3, BeginFocus
<1>5. TypeOK'
  <2>1. begun' \in 0 .. MaxCalls
    BY <1>2, RegistryAssumption DEF RegistryInv, TypeOK
  <2> QED
    BY <1>2, <1>4, <2>1 DEF RegistryInv, TypeOK
<1>6. CallSound(c)'
  <2>1. i \in born'
    BY <1>2, StoredSound
  <2> QED
    BY <1>3, <2>1 DEF CallSound, Current
<1> QED
  BY <1>4, <1>5, <1>6, FocusKeeps

LEMMA UpdateSealKeeps ==
  ASSUME RegistryInv, NEW k \in Calls, NEW s \in Secrets \cup {NoSecret}, UpdateSeal(k, s)
  PROVE  RegistryInv'
<1>1. PICK b \in Call : b = call[k]
  BY DEF RegistryInv, TypeOK
<1>2. PICK i \in Ids : i = b.id
  BY <1>1 DEF Call
<1>3. PICK cr : cr = UpdatedCredentials(b.old, b.body, b.requested, s)
  OBVIOUS
<1>4. PICK r : r = Client(b.body, cr, b.old.token)
  OBVIOUS
<1>5. PICK c : c = [Idle EXCEPT !.pc = "save", !.id = i, !.issued = cr.issued, !.new = r]
  OBVIOUS
<1>6. /\ b.pc = "seal" /\ Draw(Generates(b.old, b.body, b.requested), s)
      /\ call' = [call EXCEPT ![k] = c]
      /\ drawn' = drawn \cup ({cr.issued} \ {NoSecret})
      /\ UNCHANGED <<clients, sealKeys, known, born, gone, disturbed, unsealed, begun>>
  BY <1>1, <1>2, <1>3, <1>4, <1>5 DEF UpdateSeal
<1>7. /\ RowSound(b.old) /\ b.body \in Bodies /\ Acceptable(b.body)
      /\ SigningRotation(b.old, b.body, b.requested)
      /\ EncryptionRotation(b.old, b.body, b.requested)
      /\ i \notin disturbed \cup unsealed => clients[i] = b.old
      /\ b.requested \in Secrets \cup {NoSecret} /\ b.old.token \in Ids
  <2>1. CallSound(b)
    BY <1>1 DEF RegistryInv
  <2>2. /\ RowSound(b.old) /\ b.body \in Bodies /\ Acceptable(b.body)
        /\ SigningRotation(b.old, b.body, b.requested)
        /\ EncryptionRotation(b.old, b.body, b.requested)
        /\ i \notin disturbed \cup unsealed => clients[i] = b.old
    BY <1>2, <1>6, <2>1 DEF CallSound, Current
  <2>3. b.requested \in Secrets \cup {NoSecret} /\ b.old.token \in Ids
    BY <2>2 DEF Call, RowSound, Row
  <2> QED
    BY <2>2, <2>3
<1>8. WorksOn(k, i) /\ call[k].pc = "seal"
  BY <1>1, <1>2, <1>6 DEF WorksOn
<1>9. /\ i \in born
      /\ i \notin disturbed => i \notin gone /\ \A j \in Calls \ {k} : ~WorksOn(j, i)
      /\ clients[i] # Absent /\ i \notin disturbed \cup unsealed => Fits(clients[i], known[i])
  BY <1>8, Alone
<1>10. ASSUME NEW before, Fits(b.old, before)
       PROVE  CredentialsSound(b.body, cr) /\ CredentialsFit(b.body, cr, before)
  BY <1>3, <1>6, <1>7, <1>10, UpdatedCredentialsSound DEF RegistryInv
<1>11. CredentialsSound(b.body, cr)
  BY <1>10 DEF Fits
<1>12. RowSound(r) /\ r \in Row
  BY <1>4, <1>7, <1>11, RowMade DEF RowSound
<1>13. cr.issued \in Secrets \cup {NoSecret}
  BY <1>11 DEF CredentialsSound
<1>14. c \in Call /\ c.pc = "save" /\ c.id = i /\ c.new = r /\ c.issued = cr.issued
  BY <1>5, <1>12, <1>13, IdleType DEF Call, Steps
<1>15. TypeOK'
  <2>1. call' \in [Calls -> Call]
    BY <1>6, <1>14 DEF RegistryInv, TypeOK
  <2>2. drawn' \subseteq Secrets
    BY <1>6, <1>13 DEF RegistryInv, TypeOK
  <2> QED
    BY <1>6, <2>1, <2>2 DEF RegistryInv, TypeOK
<1>16. Focus(k, i, c)
  BY <1>1, <1>2, <1>6, <1>14 DEF Focus
<1>17. CallSound(c)'
  <2>1. ASSUME i \notin disturbed \cup unsealed PROVE Fits(c.new, Told(c, known[i]))
    <3>1. Fits(b.old, known[i])
      BY <1>7, <1>9, <2>1, NoRow DEF RowSound
    <3>2. CredentialsFit(b.body, cr, known[i])
      BY <1>10, <3>1
    <3> QED
      BY <1>4, <1>14, <3>2, ToldFits
  <2>2. i \notin disturbed \cup unsealed => Current(c)'
    BY <1>6, <1>14, <2>1 DEF Current
  <2>3. RowSound(c.new)'
    BY <1>6, <1>12, <1>14, RowKept
  <2> QED
    BY <1>6, <1>9, <1>14, <2>2, <2>3 DEF CallSound
<1>18. ClientSound(i)'
  <2>1. clients[i] # Absent => RowSound(clients[i]) /\ (Unsealed(clients[i]) => i \in unsealed)
    BY StoredSound
  <2> QED
    BY <1>6, <1>9, <1>14, <1>16, <2>1, ClientKept
<1> QED
  BY <1>15, <1>16, <1>17, <1>18, FocusKeeps
LEMMA SaveKeeps ==
  ASSUME RegistryInv, NEW k \in Calls, Save(k)
  PROVE  RegistryInv'
<1>1. PICK b \in Call : b = call[k]
  BY DEF RegistryInv, TypeOK
<1>2. PICK i \in Ids : i = b.id
  BY <1>1 DEF Call
<1>3. PICK c : c = [b EXCEPT !.pc = "respond"]
  OBVIOUS
<1>4. /\ b.pc = "save"
      /\ clients' = [clients EXCEPT ![i] = b.new]
      /\ unsealed' = IF Unsealed(b.new) THEN unsealed \cup {i} ELSE unsealed
      /\ call' = [call EXCEPT ![k] = c]
      /\ UNCHANGED <<sealKeys, known, drawn, born, gone, disturbed, begun>>
  BY <1>1, <1>2, <1>3 DEF Save, Unsealed
<1>5. c \in Call /\ c.pc = "respond" /\ c.id = i /\ c.new = b.new /\ c.issued = b.issued
  BY <1>2, <1>3 DEF Call, Steps
<1>6. /\ RowSound(b.new) /\ b.new \in Row
      /\ i \notin disturbed \cup unsealed => Fits(b.new, Told(b, known[i]))
  <2>1. CallSound(b)
    BY <1>1 DEF RegistryInv
  <2> QED
    BY <1>2, <1>4, <2>1 DEF CallSound, Current, RowSound
<1>7. WorksOn(k, i)
  BY <1>1, <1>2, <1>4 DEF WorksOn
<1>8. /\ i \in born
      /\ i \notin disturbed => i \notin gone /\ \A j \in Calls \ {k} : ~WorksOn(j, i)
  BY <1>7, Alone
<1>9. clients'[i] = b.new
  BY <1>4 DEF RegistryInv, TypeOK
<1>10. TypeOK'
  BY <1>4, <1>5, <1>6, <1>8 DEF RegistryInv, TypeOK
<1>11. Focus(k, i, c)
  BY <1>1, <1>2, <1>4, <1>5, <1>7 DEF Focus, RegistryInv, TypeOK
<1>12. CallSound(c)'
  <2>1. Told(c, known[i]) = Told(b, known[i])
    BY <1>5 DEF Told
  <2>2. i \notin disturbed' \cup unsealed' => Current(c)'
    <3> HAVE i \notin disturbed' \cup unsealed'
    <3>1. Fits(c.new, Told(c, known[i]))
      BY <1>4, <1>5, <1>6, <2>1
    <3> QED
      BY <1>4, <1>5, <1>9, <3>1 DEF Current
  <2>3. RowSound(c.new)'
    BY <1>4, <1>5, <1>6, RowKept
  <2> QED
    BY <1>4, <1>5, <1>8, <2>2, <2>3 DEF CallSound
<1>13. ClientSound(i)'
  <2>1. Unsealed(b.new) => i \in unsealed'
    BY <1>4
  <2> QED
    BY <1>4, <1>5, <1>6, <1>8, <1>9, <1>11, <2>1, ClientKept
<1> QED
  BY <1>10, <1>11, <1>12, <1>13, FocusKeeps

LEMMA IdleSound == CallSound(Idle)'
BY IdleType DEF CallSound

LEMMA RespondKeeps ==
  ASSUME RegistryInv, NEW k \in Calls, Respond(k)
  PROVE  RegistryInv'
<1>1. PICK b \in Call : b = call[k]
  BY DEF RegistryInv, TypeOK
<1>2. PICK i \in Ids : i = b.id
  BY <1>1 DEF Call
<1>3. PICK s : s = Told(b, known[i])
  OBVIOUS
<1>4. /\ b.pc = "respond"
      /\ known' = [known EXCEPT ![i] = s]
      /\ call' = [call EXCEPT ![k] = Idle]
      /\ UNCHANGED <<clients, sealKeys, drawn, born, gone, disturbed, unsealed, begun>>
  BY <1>1, <1>2, <1>3 DEF Respond
<1>5. s \in Secrets \cup {NoSecret}
  BY <1>3 DEF Told, Call, RegistryInv, TypeOK
<1>6. i \notin disturbed \cup unsealed => Fits(clients[i], s)
  <2>1. CallSound(b)
    BY <1>1 DEF RegistryInv
  <2> QED
    BY <1>2, <1>3, <1>4, <2>1 DEF CallSound, Current
<1>7. WorksOn(k, i)
  BY <1>1, <1>2, <1>4 DEF WorksOn
<1>8. /\ i \in born
      /\ i \notin disturbed => i \notin gone /\ \A j \in Calls \ {k} : ~WorksOn(j, i)
  BY <1>7, Alone
<1>9. known'[i] = s
  BY <1>4 DEF RegistryInv, TypeOK
<1>10. TypeOK'
  BY <1>4, <1>5, IdleType DEF RegistryInv, TypeOK
<1>11. Focus(k, i, Idle)
  BY <1>1, <1>2, <1>4, <1>7, IdleType DEF Focus, RegistryInv, TypeOK
<1>12. ClientSound(i)'
  <2>1. clients[i] # Absent => RowSound(clients[i]) /\ (Unsealed(clients[i]) => i \in unsealed)
    BY StoredSound
  <2> QED
    BY <1>4, <1>6, <1>8, <1>9, <1>11, <2>1, ClientKept
<1> QED
  BY <1>10, <1>11, <1>12, IdleSound, FocusKeeps

LEMMA DeleteRowKeeps ==
  ASSUME RegistryInv, NEW k \in Calls, DeleteRow(k)
  PROVE  RegistryInv'
<1>1. PICK i \in Ids : i = call[k].id
  BY DEF RegistryInv, TypeOK, Call
<1>2. /\ call[k].pc = "delete"
      /\ clients' = [clients EXCEPT ![i] = Absent]
      /\ gone' = gone \cup {i}
      /\ call' = [call EXCEPT ![k] = Idle]
      /\ UNCHANGED <<sealKeys, known, drawn, born, disturbed, unsealed, begun>>
  BY <1>1 DEF DeleteRow
<1>3. WorksOn(k, i)
  BY <1>1, <1>2 DEF WorksOn
<1>4. /\ i \in born
      /\ i \notin disturbed => \A j \in Calls \ {k} : ~WorksOn(j, i)
  BY <1>3, Alone
<1>5. clients'[i] = Absent
  BY <1>2 DEF RegistryInv, TypeOK
<1>6. TypeOK'
  BY <1>2, <1>4, IdleType DEF RegistryInv, TypeOK
<1>7. Focus(k, i, Idle)
  BY <1>1, <1>2, <1>3, IdleType DEF Focus, RegistryInv, TypeOK
<1>8. ClientSound(i)'
  BY <1>2, <1>4, <1>5, <1>7, IdleType, ClientKept
<1> QED
  BY <1>6, <1>7, <1>8, IdleSound, FocusKeeps

LEMMA AbortKeeps ==
  ASSUME RegistryInv, NEW k \in Calls, Abort(k)
  PROVE  RegistryInv'
<1>1. PICK i \in Ids : i = call[k].id
  BY DEF RegistryInv, TypeOK, Call
<1>2. /\ call[k].pc \in {"save", "respond"}
      /\ disturbed' = IF call[k].pc = "respond" THEN disturbed \cup {i} ELSE disturbed
      /\ call' = [call EXCEPT ![k] = Idle]
      /\ UNCHANGED <<clients, sealKeys, known, drawn, born, gone, unsealed, begun>>
  BY <1>1 DEF Abort
<1>3. WorksOn(k, i)
  BY <1>1, <1>2 DEF WorksOn
<1>4. /\ i \in born
      /\ i \notin disturbed => i \notin gone /\ \A j \in Calls \ {k} : ~WorksOn(j, i)
      /\ clients[i] # Absent /\ i \notin disturbed' \cup unsealed => Fits(clients[i], known[i])
  BY <1>2, <1>3, Alone
<1>5. TypeOK'
  BY <1>2, <1>4, IdleType DEF RegistryInv, TypeOK
<1>6. Focus(k, i, Idle)
  BY <1>1, <1>2, <1>3, IdleType DEF Focus, RegistryInv, TypeOK
<1>7. ClientSound(i)'
  <2>1. clients[i] # Absent => RowSound(clients[i]) /\ (Unsealed(clients[i]) => i \in unsealed)
    BY StoredSound
  <2>2. i \notin gone' \ disturbed' /\ (i \notin disturbed' => i \notin disturbed)
    BY <1>2, <1>4
  <2> QED
    BY <1>2, <1>4, <1>6, <2>1, <2>2, ClientKept
<1> QED
  BY <1>5, <1>6, <1>7, IdleSound, FocusKeeps

LEMMA RotateSealKeyKeeps ==
  ASSUME RegistryInv, RotateSealKey
  PROVE  RegistryInv'
<1>1. PICK n : n = Newest
  OBVIOUS
<1>2. /\ n \in 1 .. MaxKeys /\ sealKeys = 1 .. n /\ n < MaxKeys /\ MaxKeys \in Nat
      /\ sealKeys' = sealKeys \cup {n + 1}
      /\ UNCHANGED <<clients, call, known, begun, drawn, born, gone, disturbed, unsealed>>
  BY <1>1, RegistryAssumption DEF RegistryInv, SealInv, RotateSealKey, histories
<1>3. sealKeys' = 1 .. n + 1 /\ n + 1 \in 1 .. MaxKeys /\ n + 1 \in Nat \ {0}
  BY <1>2
<1>4. Newest' = n + 1
  BY <1>3, MaxInterval DEF Newest
<1>5. SealInv'
  BY <1>3, <1>4 DEF SealInv
<1>6. TypeOK'
  <2>1. sealKeys' \subseteq 1 .. MaxKeys /\ sealKeys' # {}
    BY <1>2, <1>3
  <2> QED
    BY <1>2, <2>1 DEF RegistryInv, TypeOK
<1>7. ASSUME NEW k \in Calls PROVE CallSound(call[k])'
  <2>1. PICK c : c = call[k]
    OBVIOUS
  <2>2. CallSound(c)
    BY <2>1 DEF RegistryInv
  <2>3. CallSound(c)'
    BY <1>2, <2>2, CallKept
  <2> QED
    BY <1>2, <2>1, <2>3, CallSlot
<1>8. ASSUME NEW id \in Ids PROVE ClientSound(id)'
  <2>1. ClientSound(id)
    BY DEF RegistryInv
  <2>2. PICK r : r = clients[id]
    OBVIOUS
  <2>3. RowSound(r) => RowSound(r)'
    BY <1>2, RowKept
  <2>4. RowSound(clients[id]) => RowSound(clients[id])'
    BY <1>2, <2>2, <2>3 DEF RowSound, SecretSound, Readable
  <2> QED
    BY <1>2, <2>1, <2>4 DEF ClientSound, Unsealed, Fits, WorksOn
<1> QED
  BY <1>5, <1>6, <1>7, <1>8 DEF RegistryInv

LEMMA InitRegistry == Init => RegistryInv
<1> SUFFICES ASSUME Init PROVE RegistryInv
  OBVIOUS
<1>1. sealKeys = 1 .. 1 /\ 1 \in 1 .. MaxKeys /\ sealKeys # {} /\ sealKeys \subseteq 1 .. MaxKeys
  <2>1. sealKeys = {1}
    BY DEF Init
  <2>2. {1} = 1 .. 1
    OBVIOUS
  <2>3. 1 \in 1 .. MaxKeys
    BY RegistryAssumption
  <2> QED
    BY <2>1, <2>2, <2>3
<1>2. SealInv
  <2>1. 1 \in Nat \ {0}
    OBVIOUS
  <2>2. Max(1 .. 1) = 1
    BY <2>1, MaxInterval
  <2>3. Newest = 1
    BY <1>1, <2>2 DEF Newest
  <2> QED
    BY <1>1, <2>3 DEF SealInv
<1>3. TypeOK
  <2>1. begun \in 0 .. MaxCalls
    BY RegistryAssumption DEF Init
  <2> QED
    BY <1>1, <2>1, IdleType DEF Init, TypeOK
<1>4. \A k \in Calls : CallSound(call[k])
  BY IdleType DEF Init, CallSound
<1>5. \A id \in Ids : ClientSound(id)
  BY IdleType DEF Init, ClientSound, WorksOn
<1> QED
  BY <1>2, <1>3, <1>4, <1>5 DEF RegistryInv

LEMMA StepRegistry == RegistryInv /\ [Next]_vars => RegistryInv'
<1> SUFFICES ASSUME RegistryInv, [Next]_vars PROVE RegistryInv'
  OBVIOUS
<1>1. ASSUME NEW k \in Calls, NEW id \in Ids, NEW m \in Bodies, NEW token,
             NEW s \in Secrets \cup {NoSecret}, Register(k, id, m, token, s)
      PROVE  RegistryInv'
  BY <1>1, RegisterKeeps
<1>2. ASSUME NEW k \in Calls, NEW id \in Ids, NEW token \in Ids, NEW m \in Bodies,
             NEW requested \in Secrets \cup {NoSecret}, Update(k, id, token, m, requested)
      PROVE  RegistryInv'
  BY <1>2, UpdateKeeps
<1>3. ASSUME NEW k \in Calls, NEW id \in Ids, NEW token \in Ids, Delete(k, id, token)
      PROVE  RegistryInv'
  BY <1>3, DeleteKeeps
<1>4. ASSUME NEW k \in Calls, NEW s \in Secrets \cup {NoSecret}, UpdateSeal(k, s)
      PROVE  RegistryInv'
  BY <1>4, UpdateSealKeeps
<1>5. ASSUME NEW k \in Calls, Save(k) \/ Respond(k) \/ DeleteRow(k) \/ Abort(k)
      PROVE  RegistryInv'
  BY <1>5, SaveKeeps, RespondKeeps, DeleteRowKeeps, AbortKeeps
<1>6. CASE RotateSealKey
  BY <1>6, RotateSealKeyKeeps
<1>7. CASE UNCHANGED vars
  BY <1>7 DEF vars, RegistryInv, TypeOK, SealInv, Newest, CallSound, Current, RowSound,
              SecretSound, Readable, ClientSound, WorksOn, Unsealed, Fits
<1> QED
  BY <1>1, <1>2, <1>3, <1>4, <1>5, <1>6, <1>7 DEF Next

-----------------------------------------------------------------------------
(* Theorems *)

\* In every reachable state hash and ciphertext of every row, stored or about
\* to be, are of one secret under a key that is still there, and what a call
\* of an undisturbed client has read is what the store still has
\* (registration.py, update and _updated_credentials).
THEOREM RegistryInvariant == Spec => []RegistryInv
<1> QED
  BY InitRegistry, StepRegistry, PTL DEF Spec
\* A key that has a kid, or is alone, can be found by an assertion that it signs,
\* or the first one that shares its kid can.
LEMMA KeyFound ==
  ASSUME NEW c, NEW y \in SigningKeys(c), SigningKeys(c) \subseteq Jwks \cup RemoteKeys,
         y.kid # NoKid \/ SigningKeys(c) = {y}
  PROVE  \E a \in Credentials :
           /\ a.kind = "signed" /\ a.own = TRUE /\ a.aud = "one"
           /\ a.key \in ResolveSigningKey(c, a)
<1> DEFINE a(k, named) ==
      [kind |-> "signed", key |-> k, names_kid |-> named, own |-> TRUE, aud |-> "one"]
<1>1. ASSUME NEW k \in SigningKeys(c), NEW named \in BOOLEAN PROVE a(k, named) \in Credentials
  BY <1>1 DEF Credentials
<1>2. CASE y.kid # NoKid
  <2> DEFINE named == {k \in SigningKeys(c) : k.kid = y.kid}
  <2>1. PICK k : k = CHOOSE x \in named : TRUE
    OBVIOUS
  <2>2. k \in SigningKeys(c) /\ k.kid = y.kid
    BY <2>1
  <2>3. {x \in SigningKeys(c) : x.kid = a(k, TRUE).key.kid} = named
    BY <2>2
  <2>4. ResolveSigningKey(c, a(k, TRUE)) = {k}
    BY <1>2, <2>1, <2>2, <2>3 DEF ResolveSigningKey, SelectKey
  <2>5. k \in ResolveSigningKey(c, a(k, TRUE))
    BY <2>4
  <2> QED
    BY <1>1, <2>2, <2>5
<1>3. CASE SigningKeys(c) = {y}
  <2>1. y \in ResolveSigningKey(c, a(y, FALSE))
    BY <1>3 DEF ResolveSigningKey, SelectKey
  <2> QED
    BY <1>1, <2>1
<1> QED
  BY <1>2, <1>3

\* The credential that each kind of row is authenticated by.
LEMMA RowUsable ==
  ASSUME SealInv, NEW c, RowSound(c), ~Unsealed(c)
  PROVE  \/ Unmatched(c)
         \/ \E a \in Credentials : AuthenticateClient(c, a)
<1>1. c.method \in AuthMethods
  BY DEF RowSound, Row
<1>2. CASE c.method \in {"client_secret_basic", "client_secret_post"}
  <2>1. PICK s \in Secrets : c.hash = Hash(s)
    BY <1>2, NoHashIs DEF RowSound, SecretSound, Row
  <2>2. [kind |-> "secret", secret |-> s] \in Credentials
    BY DEF Credentials, SecretCredentials
  <2>3. AuthenticateClient(c, [kind |-> "secret", secret |-> s])
    BY <1>2, <2>1 DEF AuthenticateClient, TlsMethods
  <2> QED
    BY <2>2, <2>3
<1>3. CASE c.method = "client_secret_jwt"
  <2>1. c.ciphertext # NoCiphertext /\ Readable(c.ciphertext) /\ c.ciphertext.of \in Secrets
    BY <1>3 DEF RowSound, SecretSound, Unsealed
  <2> DEFINE a == [kind |-> "hmac", secret |-> c.ciphertext.of, own |-> TRUE, aud |-> "one"]
  <2>2. a \in Credentials
    BY <2>1 DEF Credentials, SecretCredentials
  <2>3. VerifyHmacAssertion(c, a)
    BY <2>1 DEF VerifyHmacAssertion, Decode
  <2>4. AuthenticateAssertion(c, a)
    BY <2>3 DEF AuthenticateAssertion, VerifyAssertion
  <2>5. AuthenticateClient(c, a)
    BY <1>3, <2>4 DEF AuthenticateClient, TlsMethods
  <2> QED
    BY <2>2, <2>5
<1>4. ASSUME c.method = "private_key_jwt", NEW y \in SigningKeys(c),
             SigningKeys(c) \subseteq Jwks \cup RemoteKeys,
             y.kid # NoKid \/ SigningKeys(c) = {y}
      PROVE  \E a \in Credentials : AuthenticateClient(c, a)
  <2>1. PICK a \in Credentials : /\ a.kind = "signed" /\ a.own = TRUE /\ a.aud = "one"
                                 /\ a.key \in ResolveSigningKey(c, a)
    BY <1>4, KeyFound
  <2>2. VerifyJwksAssertion(c, a)
    BY <2>1 DEF VerifyJwksAssertion, Decode
  <2>3. AuthenticateAssertion(c, a)
    BY <2>1, <2>2 DEF AuthenticateAssertion, VerifyAssertion
  <2>4. AuthenticateClient(c, a)
    BY <1>4, <2>3 DEF AuthenticateClient, TlsMethods
  <2> QED
    BY <2>4
<1>5. CASE c.method = "private_key_jwt"
  <2>1. /\ c.jwks # {} \/ c.jwks_uri
        /\ c.jwks # {} /\ ~c.jwks_uri => RequireSigningKey(c.jwks)
        /\ c.jwks \subseteq Jwks
    BY <1>5 DEF RowSound, MaterialSound, Row
  <2>2. SigningKeys(c) \subseteq Jwks \cup RemoteKeys
    BY <2>1 DEF SigningKeys, RemoteSigningKeys, Parsed, UsableForSigning
  <2>3. CASE c.jwks_uri /\ c.jwks # {}
    BY <1>5, <2>3 DEF Unmatched
  <2>4. CASE c.jwks_uri /\ c.jwks = {}
    <3>1. CASE RemoteSigningKeys = {}
      <4>1. \A k \in RemoteKeys : k.alg \in {"jws", "oaep"}
        BY RegistryAssumption DEF Jwk
      <4>2. \A k \in RemoteKeys : k.use = "enc" \/ k.alg = "oaep" \/ k.kid = NoKid
        BY <3>1, <4>1 DEF RemoteSigningKeys, Parsed
      <4> QED
        BY <1>5, <2>4, <4>2 DEF Unmatched
    <3>2. CASE RemoteSigningKeys # {}
      <4>1. PICK y \in SigningKeys(c) : y.kid # NoKid
        BY <2>4, <3>2 DEF SigningKeys, RemoteSigningKeys
      <4> QED
        BY <1>4, <1>5, <2>2, <4>1
    <3> QED
      BY <3>1, <3>2
  <2>5. CASE ~c.jwks_uri /\ c.jwks # {}
    <3>1. /\ UsableForSigning(c.jwks) # {}
          /\ \A k \in UsableForSigning(c.jwks) : k.alg \in {"jws", "oaep"}
      BY <2>1, <2>5, MetadataAssumption DEF RequireSigningKey, UsableForSigning, Jwk
    <3>2. /\ SigningKeys(c) \subseteq {k \in UsableForSigning(c.jwks) : k.alg # "oaep"}
          /\ {k \in UsableForSigning(c.jwks) : k.alg # "oaep"} \subseteq SigningKeys(c)
      BY <2>5, <3>1 DEF SigningKeys, Parsed
    <3>3. CASE SigningKeys(c) = {}
      <4>1. {k \in UsableForSigning(c.jwks) : k.alg # "oaep"} = {}
        BY <3>2, <3>3
      <4> QED
        BY <1>5, <3>1, <4>1 DEF Unmatched
    <3>4. CASE \E y \in SigningKeys(c) : y.kid # NoKid
      BY <1>4, <1>5, <2>2, <3>4
    <3>5. CASE SigningKeys(c) # {} /\ \A k \in SigningKeys(c) : k.kid = NoKid
      <4>1. PICK y \in SigningKeys(c) : TRUE
        BY <3>5
      <4>2. CASE SigningKeys(c) = {y}
        BY <1>4, <1>5, <2>2, <4>2
      <4>3. CASE \E k \in SigningKeys(c) : k # y
        <5>1. PICK k \in SigningKeys(c) : k # y
          BY <4>3
        <5> DEFINE verifying == {x \in UsableForSigning(c.jwks) : x.alg # "oaep"}
        <5>2. y \in verifying /\ k \in verifying /\ \A x \in verifying : x.kid = NoKid
          BY <3>2, <3>5
        <5> QED
          BY <1>5, <5>1, <5>2 DEF Unmatched
      <4> QED
        BY <4>1, <4>2, <4>3
    <3> QED
      BY <3>3, <3>4, <3>5
  <2> QED
    BY <2>1, <2>3, <2>4, <2>5 DEF RowSound, Row
<1>6. CASE c.method \in TlsMethods
  <2>1. c.tls \in {"dn", "certificate"}
    BY <1>6 DEF RowSound, MaterialSound, Row
  <2> DEFINE a == [kind |-> "certificate", shows |-> c.tls, self_signed |-> TRUE]
  <2>2. a \in Credentials
    BY <2>1 DEF Credentials
  <2>3. VerifyTlsClientCertificate(c, a)
    BY <2>1 DEF VerifyTlsClientCertificate
  <2>4. AuthenticateClient(c, a)
    BY <1>6, <2>3 DEF AuthenticateClient, TlsMethods
  <2> QED
    BY <2>2, <2>4
<1>7. CASE c.method = "none"
  <2> DEFINE a == [kind |-> "certificate", shows |-> "dn", self_signed |-> TRUE]
  <2>1. a \in Credentials
    BY DEF Credentials
  <2>2. AuthenticateClient(c, a)
    BY <1>7 DEF AuthenticateClient, TlsMethods
  <2> QED
    BY <2>1, <2>2
<1> QED
  BY <1>1, <1>2, <1>3, <1>5, <1>6, <1>7 DEF AuthMethods, KeylessMethods, SecretMethods

\* A row that needs a sealed secret has one that can be read.
LEMMA SealedReadable ==
  ASSUME NEW c, RowSound(c), ~Unsealed(c), NeedsSeal(c)
  PROVE  /\ c.ciphertext # NoCiphertext /\ Readable(c.ciphertext)
         /\ c.ciphertext.of \in Secrets
<1>1. c.method \in AuthMethods /\ SecretSound(c)
  BY DEF RowSound, Row
<1>2. c.ciphertext # NoCiphertext
  BY <1>1 DEF SecretSound, Unsealed, AuthMethods, SecretMethods
<1> QED
  BY <1>1, <1>2 DEF SecretSound

\* Every stored client can be served, however it was updated, whatever sealing keys
\* have been added since, and whichever keys with or without kid it registered or
\* has at its jwks_uri, those of Unmatched apart (_validate_new_metadata,
\* _updated_credentials, rotate_if_stale, _embedded_signing_key,
\* _remote_signing_key).
THEOREM UsableHolds == Spec => []StoredUsable
<1>1. RegistryInv => StoredUsable
  <2> SUFFICES ASSUME RegistryInv, NEW id \in Stored \ unsealed, NEW c, c = clients[id]
               PROVE  /\ Unmatched(c) \/ \E a \in Credentials : AuthenticateClient(c, a)
                      /\ c.signing = "symmetric" => SigningSecret(c) # NoSecret
                      /\ c.encryption = "symmetric" => EncryptionSecret(c) # NoSecret
                      /\ c.encryption = "rsa" => RequireEncryptionRsaKey(c.jwks)
                      /\ c.fapi2 => c.method \notin {"none", "client_secret_basic", "client_secret_post"}
    BY DEF StoredUsable
  <2>1. RowSound(c) /\ ~Unsealed(c) /\ SealInv
    BY StoredSound DEF Stored, RegistryInv
  <2>2. NeedsSeal(c) => SigningSecret(c) # NoSecret /\ EncryptionSecret(c) # NoSecret
    BY <2>1, SealedReadable, RegistryAssumption DEF SigningSecret, EncryptionSecret
  <2>3. /\ c.signing = "symmetric" => SigningSecret(c) # NoSecret
        /\ c.encryption = "symmetric" => EncryptionSecret(c) # NoSecret
    BY <2>2 DEF NeedsSeal
  <2>4. /\ c.encryption = "rsa" => RequireEncryptionRsaKey(c.jwks)
        /\ c.fapi2 => c.method \notin {"none", "client_secret_basic", "client_secret_post"}
    BY <2>1 DEF RowSound, MaterialSound
  <2>5. Unmatched(c) \/ \E a \in Credentials : AuthenticateClient(c, a)
    BY <2>1, RowUsable
  <2> QED
    BY <2>3, <2>4, <2>5
<1> QED
  BY <1>1, RegistryInvariant, PTL

\* The secret that a client uses is the one of its hash or its ciphertext.
LEMMA UsedSecret ==
  ASSUME NEW c, RowSound(c), c.method # "none", NEW s \in Secrets, Uses(c, s)
  PROVE  \/ c.hash # NoHash /\ c.hash = Hash(s)
         \/ c.ciphertext # NoCiphertext /\ c.ciphertext.of = s
<1>1. s # NoSecret /\ Hash(s) # NoHash
  BY Ciphertexts, RegistryAssumption
<1>2. CASE c.signing = "symmetric" /\ SigningSecret(c) = s
  BY <1>1, <1>2 DEF SigningSecret
<1>3. CASE c.encryption = "symmetric" /\ EncryptionSecret(c) = s
  BY <1>1, <1>3 DEF EncryptionSecret
<1>4. ASSUME NEW a \in SecretCredentials, a.secret = s, AuthenticateClient(c, a)
      PROVE  \/ c.hash # NoHash /\ c.hash = Hash(s)
             \/ c.ciphertext # NoCiphertext /\ c.ciphertext.of = s
  <2>1. a.kind \in {"secret", "hmac"}
    BY DEF SecretCredentials
  <2>2. c.method \in AuthMethods
    BY DEF RowSound, Row
  <2>3. CASE c.method \in {"client_secret_basic", "client_secret_post"}
    BY <1>1, <1>4, <2>3 DEF AuthenticateClient, TlsMethods
  <2>4. CASE c.method \in {"client_secret_jwt", "private_key_jwt"}
    <3>1. AuthenticateAssertion(c, a)
      BY <1>4, <2>4 DEF AuthenticateClient, TlsMethods
    <3> QED
      BY <1>4, <2>1, <3>1 DEF AuthenticateAssertion, VerifyAssertion, VerifyHmacAssertion
  <2>5. CASE c.method \in TlsMethods
    <3>1. VerifyTlsClientCertificate(c, a)
      BY <1>4, <2>5 DEF AuthenticateClient, TlsMethods
    <3> QED
      BY <2>1, <3>1 DEF VerifyTlsClientCertificate
  <2> QED
    BY <2>2, <2>3, <2>4, <2>5 DEF AuthMethods, KeylessMethods, SecretMethods
<1> QED
  BY <1>2, <1>3, <1>4 DEF Uses

\* The secret that a row is about works.
LEMMA FittingWorks ==
  ASSUME NEW c, RowSound(c), ~Unsealed(c), NEW s \in Secrets, Fits(c, s)
  PROVE  Uses(c, s)
<1>1. /\ c.method \in SecretMethods /\ SecretSound(c) /\ c.hash \in {NoHash, Hash(s)}
      /\ c.ciphertext = NoCiphertext \/ c.ciphertext.of = s
  BY RegistryAssumption DEF Fits, RowSound, Row, AuthMethods
<1>2. CASE c.method \in {"client_secret_basic", "client_secret_post"}
  <2> DEFINE a == [kind |-> "secret", secret |-> s]
  <2>1. a \in SecretCredentials /\ a.secret = s
    BY DEF SecretCredentials
  <2>2. c.hash = Hash(s)
    BY <1>1, <1>2 DEF SecretSound
  <2>3. AuthenticateClient(c, a)
    BY <1>2, <2>2 DEF AuthenticateClient, TlsMethods
  <2> QED
    BY <2>1, <2>3 DEF Uses
<1>3. CASE c.method = "client_secret_jwt"
  <2> DEFINE a == [kind |-> "hmac", secret |-> s, own |-> TRUE, aud |-> "one"]
  <2>1. a \in SecretCredentials /\ a.secret = s
    BY DEF SecretCredentials
  <2>2. c.ciphertext # NoCiphertext /\ Readable(c.ciphertext) /\ c.ciphertext.of = s
    BY <1>1, <1>3 DEF SecretSound, Unsealed
  <2>3. VerifyHmacAssertion(c, a)
    BY <2>2 DEF VerifyHmacAssertion, Decode
  <2>4. AuthenticateAssertion(c, a)
    BY <2>3 DEF AuthenticateAssertion, VerifyAssertion
  <2>5. AuthenticateClient(c, a)
    BY <1>3, <2>4 DEF AuthenticateClient, TlsMethods
  <2> QED
    BY <2>1, <2>5 DEF Uses
<1> QED
  BY <1>1, <1>2, <1>3 DEF SecretMethods

\* One secret works for a client at a time, and it is the one that its owner
\* was last given (_updated_credentials, _registration_json).
THEOREM SecretHolds == Spec => []SecretInForce
<1>1. ASSUME RegistryInv PROVE OneSecret
  <2> SUFFICES ASSUME NEW id \in Stored, NEW s \in Secrets, NEW t \in Secrets,
                      NEW c, c = clients[id], c.method # "none", Uses(c, s), Uses(c, t)
               PROVE  s = t
    BY DEF OneSecret
  <2>1. RowSound(c)
    BY <1>1, StoredSound DEF Stored
  <2>2. c.hash # NoHash /\ c.ciphertext # NoCiphertext => c.hash = Hash(c.ciphertext.of)
    BY <2>1 DEF RowSound, SecretSound
  <2>3. /\ \/ c.hash # NoHash /\ c.hash = Hash(s)
           \/ c.ciphertext # NoCiphertext /\ c.ciphertext.of = s
        /\ \/ c.hash # NoHash /\ c.hash = Hash(t)
           \/ c.ciphertext # NoCiphertext /\ c.ciphertext.of = t
    BY <2>1, UsedSecret
  <2> QED
    BY <2>2, <2>3, HashInjective
<1>2. ASSUME RegistryInv PROVE SecretWorks
  <2> SUFFICES ASSUME NEW id \in Stored \ (disturbed \cup unsealed),
                      \A k \in Calls : call[k].pc = "idle" \/ call[k].id # id,
                      known[id] # NoSecret
               PROVE  Uses(clients[id], known[id])
    BY DEF SecretWorks
  <2>1. known[id] \in Secrets
    BY <1>2 DEF RegistryInv, TypeOK, Stored
  <2>2. RowSound(clients[id]) /\ ~Unsealed(clients[id])
    BY <1>2, StoredSound DEF Stored
  <2>3. Fits(clients[id], known[id])
    BY <1>2 DEF RegistryInv, ClientSound, WorksOn, Stored
  <2> QED
    BY <2>1, <2>2, <2>3, FittingWorks
<1>3. RegistryInv => SecretInForce
  BY <1>1, <1>2 DEF SecretInForce
<1> QED
  BY <1>3, RegistryInvariant, PTL

\* A client that was deleted stays deleted, unless two calls for it overlapped
\* (update, delete).
THEOREM DeletionHolds == Spec => DeletedForGood
<1> DEFINE Kept == \A id \in gone \ disturbed : clients[id] = Absent => clients'[id] = Absent
<1>1. RegistryInv /\ [Next]_vars => [Kept]_vars
  <2> SUFFICES ASSUME RegistryInv, Next, NEW id \in gone \ disturbed, clients[id] = Absent
               PROVE  clients'[id] = Absent
    OBVIOUS
  <2>1. clients \in [Ids -> Row \cup {Absent}] /\ id \in Ids
    BY DEF RegistryInv, TypeOK
  <2>2. \A k \in Calls : ~WorksOn(k, id)
    BY <2>1 DEF RegistryInv, ClientSound
  <2>3. ASSUME NEW k \in Calls, Save(k) PROVE clients'[id] = Absent
    <3>1. call[k].id # id
      BY <2>2, <2>3 DEF Save, WorksOn
    <3> QED
      BY <2>1, <2>3, <3>1 DEF Save
  <2>4. ASSUME NEW k \in Calls, DeleteRow(k) PROVE clients'[id] = Absent
    BY <2>1, <2>4 DEF DeleteRow
  <2>5. CASE UNCHANGED clients
    BY <2>5
  <2>6. \/ \E k \in Calls : Save(k) \/ DeleteRow(k)
        \/ UNCHANGED clients
    BY DEF Next, Register, Update, Delete, UpdateSeal, Respond, Abort, RotateSealKey
  <2> QED
    BY <2>3, <2>4, <2>5, <2>6
<1> QED
  BY <1>1, RegistryInvariant, PTL DEF Spec, DeletedForGood

-----------------------------------------------------------------------------
(* Federation.  Its assumptions are hypotheses of what follows.             *)

CONSTANTS
  Entities, Subject, Asked, Provider, Keys, Setups, Presented, NoDocument,
  NoParameter, Ttl, MaxTime, MaxChanges

VARIABLES
  now, setup, keys, signer, attested, changes, resolution

F == INSTANCE Federation WITH Absent <- NoParameter, call <- resolution

-----------------------------------------------------------------------------
(* Documents *)

\* The fields of a document.
LEMMA DocumentType ==
  ASSUME NEW d \in F!Document
  PROVE  /\ d.iss \in Entities /\ d.sub \in Entities /\ d.signer \in Keys /\ d.keys \subseteq Keys
         /\ d.hints \in Seq(Entities) /\ d.exp \in Int
BY DEF F!Document

\* A document expires at some time.
LEMMA ExpiryType ==
  ASSUME F!EntityAssumption, F!TypeOK, NEW e, NEW x \in F!Expiries(e) PROVE x \in Int
BY DEF F!EntityAssumption, F!TypeOK, F!Expiries

\* The layout is one of those assumed.
LEMMA SetupType ==
  ASSUME F!SetupAssumption, F!TypeOK
  PROVE  /\ setup.hints \in [Entities -> Seq(Entities)] /\ setup.serves \in [Entities -> Entities]
         /\ setup.attests \in [Entities -> SUBSET Keys] /\ setup \in Setups
BY DEF F!SetupAssumption, F!TypeOK

\* What makes a statement a document.
LEMMA StatementType ==
  ASSUME NEW iss \in Entities, NEW sub \in Entities, NEW k \in Keys, NEW ks \in SUBSET Keys,
         NEW hints \in Seq(Entities), NEW x \in Int,
         NEW policy \in F!Policies,
         NEW d, d = F!Statement(iss, sub, k, ks, hints, policy, x)
  PROVE  d \in F!Document /\ d.iss = iss /\ d.sub = sub /\ d.signer = k /\ d.keys = ks
BY DEF F!Statement, F!Document

\* A configuration that is fetched is that of the entity that was asked.
LEMMA FetchedConfiguration ==
  ASSUME F!EntityAssumption, F!SetupAssumption, F!TypeOK, NEW e \in Entities,
         NEW d \in F!FetchConfiguration(e), d # NoDocument
  PROVE  d \in F!Document /\ d.iss = e /\ d.sub = e /\ d.keys = keys[e]
<1>1. PICK x \in F!Expiries(e) : /\ d = F!EntityConfiguration(setup.serves[e], x)
                                 /\ F!VerifyEntityStatement(d, d.keys, e, e)
  BY DEF F!FetchConfiguration, F!ParseEntityStatement, F!Unreachable
<1>2. PICK f \in Entities : f = setup.serves[e]
  BY SetupType
<1>3. d = F!Statement(f, f, signer[f], keys[f], setup.hints[f], F!NoPolicy, x)
  BY <1>1, <1>2 DEF F!EntityConfiguration
<1>4. signer[f] \in Keys /\ keys[f] \in SUBSET Keys /\ setup.hints[f] \in Seq(Entities) /\ x \in Int
  <2>1. x \in Int
    BY <1>1, ExpiryType
  <2>2. setup.hints[f] \in Seq(Entities)
    BY SetupType
  <2> QED
    BY <2>1, <2>2 DEF F!TypeOK
<1>5. d \in F!Document /\ d.iss = f /\ d.sub = f /\ d.keys = keys[f]
  <2>1. F!NoPolicy \in F!Policies
    BY DEF F!Policies
  <2>2. PICK k \in Keys, ks \in SUBSET Keys, h \in Seq(Entities) : k = signer[f] /\ ks = keys[f] /\ h = setup.hints[f]
    BY <1>4
  <2>3. d = F!Statement(f, f, k, ks, h, F!NoPolicy, x)
    BY <1>3, <2>2
  <2>4. d \in F!Document /\ d.iss = f /\ d.sub = f /\ d.keys = ks
    BY <1>4, <2>1, <2>3, StatementType
  <2> QED
    BY <2>2, <2>4
<1>6. f = e
  BY <1>1, <1>5 DEF F!VerifyEntityStatement
<1> QED
  BY <1>5, <1>6

\* A statement that is fetched is of the superior, about the subject, signed
\* with a key of the superior's configuration.
LEMMA FetchedStatement ==
  ASSUME F!EntityAssumption, F!SetupAssumption, F!TypeOK, NEW s \in F!Document,
         NEW d \in F!FetchSubordinateStatement(s), d # NoDocument
  PROVE  /\ d \in F!Document /\ d.iss = s.iss /\ d.sub = Subject /\ d.signer \in s.keys
         /\ attested[s.iss] # {}
<1>1. d \in F!ServedBy(s.iss) /\ F!VerifyEntityStatement(d, s.keys, s.iss, Subject)
  BY DEF F!FetchSubordinateStatement, F!ParseEntityStatement, F!Unreachable
<1>2. PICK f \in Entities : f = s.iss
  BY DocumentType
<1>3. attested[f] # {} /\ \E k \in F!Stamps(f), x \in F!Expiries(f) : d = F!SubordinateStatement(f, k, x)
  BY <1>1, <1>2 DEF F!ServedBy
<1>4. PICK k \in F!Stamps(f), x \in F!Expiries(f) : d = F!SubordinateStatement(f, k, x)
  BY <1>3
<1>5. k \in Keys /\ x \in Int
  BY <1>4, ExpiryType DEF F!Stamps, F!TypeOK
<1>6. PICK policy \in F!Policies : policy = setup.policy[f]
  BY SetupType DEF F!Policies
<1>7. PICK ks \in SUBSET Keys : ks = attested[f]
  BY DEF F!TypeOK
<1>8. d = F!Statement(f, Subject, k, ks, <<>>, policy, x)
  BY <1>4, <1>6, <1>7 DEF F!SubordinateStatement
<1>9. <<>> \in Seq(Entities) /\ Subject \in Entities
  BY DEF F!EntityAssumption
<1>10. d \in F!Document
  BY <1>5, <1>8, <1>9, StatementType
<1> QED
  BY <1>1, <1>2, <1>3, <1>10 DEF F!VerifyEntityStatement

-----------------------------------------------------------------------------
(* The record of a resolution *)

\* No resolution is a resolution that is idle.
LEMMA NoCallType ==
  F!CallType(F!NoCall) /\ F!NoCall.stage = "idle" /\ F!NoCall.chain = <<>> /\ F!NoCall.rekeyed = {}
BY DEF F!CallType, F!Shape, F!NoCall, F!Stages

\* A new resolution, with a stage.
LEMMA BegunType ==
  ASSUME NEW kind, NEW anchor
  PROVE  LET c == F!Begun(kind, anchor)
         IN /\ F!CallType(c) /\ c.chain = <<>> /\ c.stage = "idle" /\ c.rekeyed = {}
            /\ c.absent = {e \in Entities : attested[e] = {}}
<1>1. PICK A : A = {e \in Entities : attested[e] = {}}
  OBVIOUS
<1>2. F!Begun(kind, anchor) = [F!NoCall EXCEPT !.kind = kind, !.anchor = anchor, !.absent = A]
  BY <1>1 DEF F!Begun
<1>3. PICK n : n = F!NoCall /\ F!CallType(n) /\ n.chain = <<>> /\ n.stage = "idle" /\ n.rekeyed = {}
  BY NoCallType
<1>4. PICK c : c = [n EXCEPT !.kind = kind, !.anchor = anchor, !.absent = A]
  OBVIOUS
<1>5. F!CallType(c) /\ c.chain = <<>> /\ c.stage = "idle" /\ c.rekeyed = {} /\ c.absent = A
  BY <1>1, <1>3, <1>4 DEF F!CallType, F!Shape
<1> QED
  BY <1>1, <1>2, <1>3, <1>4, <1>5

\* The ways in which a step changes the record.
LEMMA StageSet ==
  ASSUME NEW c, F!CallType(c), NEW s \in F!Stages, NEW d, d = [c EXCEPT !.stage = s]
  PROVE  /\ F!CallType(d) /\ d.stage = s /\ d.chain = c.chain /\ d.current = c.current
         /\ d.anchor = c.anchor /\ d.absent = c.absent /\ d.rekeyed = c.rekeyed /\ d.result = c.result
BY DEF F!CallType, F!Shape

\* A resolution that ends keeps what it gathered.
LEMMA DoneSet ==
  ASSUME NEW c, F!CallType(c), NEW r, NEW d, d = F!Done(c, r)
  PROVE  /\ F!CallType(d) /\ d.stage = "done" /\ d.result = r /\ d.chain = c.chain /\ d.at = now
         /\ d.anchor = c.anchor /\ d.absent = c.absent /\ d.rekeyed = c.rekeyed
<1>1. d = [c EXCEPT !.stage = "done", !.result = r, !.at = now]
  BY DEF F!Done
<1> QED
  BY <1>1 DEF F!CallType, F!Shape, F!Stages

\* A climb starts at the configuration of the subject.
LEMMA ClimbingSet ==
  ASSUME NEW c, F!CallType(c), NEW doc \in F!Document, NEW d, d = F!Climbing(c, doc)
  PROVE  /\ F!CallType(d) /\ d.stage = "climb" /\ d.chain = <<doc>> /\ d.current = doc
         /\ d.todo = doc.hints /\ d.absent = c.absent /\ d.rekeyed = c.rekeyed
<1>1. PICK h \in Seq(Entities), q \in Seq(F!Document) : h = doc.hints /\ q = <<doc>>
  <2>1. doc.hints \in Seq(Entities)
    BY DocumentType
  <2>2. <<doc>> \in Seq(F!Document)
    OBVIOUS
  <2> QED
    BY <2>1, <2>2
<1>2. PICK S : S = {Subject}
  OBVIOUS
<1>3. d = [c EXCEPT !.stage = "climb", !.chain = q, !.current = doc, !.todo = h, !.seen = S]
  BY <1>1, <1>2 DEF F!Climbing
<1>4. /\ F!CallType(d) /\ d.stage = "climb" /\ d.chain = q /\ d.current = doc
      /\ d.todo = h /\ d.absent = c.absent /\ d.rekeyed = c.rekeyed
  BY <1>3 DEF F!CallType, F!Shape, F!Stages
<1> QED
  BY <1>1, <1>4

\* Trying a superior changes the list of those to try,
LEMMA TodoSet ==
  ASSUME NEW c, F!CallType(c), NEW t \in Seq(Entities), NEW d, d = [c EXCEPT !.todo = t]
  PROVE  /\ F!CallType(d) /\ d.stage = c.stage /\ d.chain = c.chain /\ d.current = c.current
         /\ d.todo = t /\ d.absent = c.absent /\ d.rekeyed = c.rekeyed /\ d.result = c.result
BY DEF F!CallType, F!Shape

\* adding a statement the chain,
LEMMA AppendSet ==
  ASSUME NEW c, F!CallType(c), NEW doc \in F!Document, NEW d, d = [c EXCEPT !.chain = Append(@, doc)]
  PROVE  /\ F!CallType(d) /\ d.stage = c.stage /\ d.chain = Append(c.chain, doc)
         /\ d.anchor = c.anchor /\ d.absent = c.absent /\ d.rekeyed = c.rekeyed
<1>1. PICK q \in Seq(F!Document) : q = Append(c.chain, doc)
  <2>1. PICK p \in Seq(F!Document) : p = c.chain
    BY DEF F!CallType
  <2>2. Append(p, doc) \in Seq(F!Document)
    OBVIOUS
  <2> QED
    BY <2>1, <2>2
<1>2. d = [c EXCEPT !.chain = q]
  BY <1>1
<1>3. F!CallType(d) /\ d.stage = c.stage /\ d.chain = q
      /\ d.anchor = c.anchor /\ d.absent = c.absent /\ d.rekeyed = c.rekeyed
  BY <1>2 DEF F!CallType, F!Shape
<1> QED
  BY <1>1, <1>3

\* a change of keys the note of those who changed,
LEMMA RekeyedSet ==
  ASSUME NEW c, F!CallType(c), NEW R \in SUBSET Entities, NEW d, d = [c EXCEPT !.rekeyed = R]
  PROVE  /\ F!CallType(d) /\ d.stage = c.stage /\ d.chain = c.chain /\ d.current = c.current
         /\ d.superior = c.superior /\ d.todo = c.todo /\ d.anchor = c.anchor
         /\ d.absent = c.absent /\ d.rekeyed = R
BY DEF F!CallType, F!Shape

\* and an attestation the note of those who had none.
LEMMA AbsentSet ==
  ASSUME NEW c, F!CallType(c), NEW A \in SUBSET Entities, NEW d, d = [c EXCEPT !.absent = A]
  PROVE  /\ F!CallType(d) /\ d.stage = c.stage /\ d.chain = c.chain /\ d.current = c.current
         /\ d.superior = c.superior /\ d.todo = c.todo /\ d.anchor = c.anchor
         /\ d.absent = A /\ d.rekeyed = c.rekeyed
BY DEF F!CallType, F!Shape

-----------------------------------------------------------------------------
(* Expiry of a chain *)

\* A chain of one document expires with it.
LEMMA EndsOne ==
  ASSUME NEW d \in F!Document PROVE F!Ends(<<d>>)
<1>1. DOMAIN <<d>> = {1} /\ <<d>>[1] = d /\ d.exp \in Int
  BY DocumentType
<1> QED
  BY <1>1 DEF F!Ends

\* Whatever is added to a chain, it has an earliest expiry.
LEMMA EndsAppend ==
  ASSUME NEW p \in Seq(F!Document), F!Ends(p), NEW d \in F!Document
  PROVE  F!Ends(Append(p, d))
<1>1. PICK i \in 1 .. Len(p) : \A j \in 1 .. Len(p) : p[i].exp <= p[j].exp
  BY DEF F!Ends
<1>2. PICK q \in Seq(F!Document) : q = Append(p, d)
  <2>1. Append(p, d) \in Seq(F!Document)
    OBVIOUS
  <2> QED
    BY <2>1
<1>3. /\ Len(q) = Len(p) + 1 /\ DOMAIN q = 1 .. Len(p) + 1 /\ q[Len(p) + 1] = d
      /\ \A j \in 1 .. Len(p) : q[j] = p[j]
  BY <1>2
<1>4. d.exp \in Int /\ Len(p) \in Nat /\ \A j \in 1 .. Len(p) : p[j].exp \in Int
  <2>1. \A j \in 1 .. Len(p) : p[j] \in F!Document
    OBVIOUS
  <2> QED
    BY <2>1, DocumentType
<1>5. \A j \in DOMAIN q : j \in 1 .. Len(p) \/ j = Len(p) + 1
  BY <1>3, <1>4
<1>6. CASE p[i].exp <= d.exp
  <2>1. i \in DOMAIN q /\ q[i] = p[i]
    BY <1>3, <1>4
  <2>2. \A j \in DOMAIN q : q[i].exp <= q[j].exp
    BY <1>1, <1>3, <1>5, <1>6, <2>1
  <2> QED
    BY <1>2, <2>1, <2>2 DEF F!Ends
<1>7. CASE d.exp <= p[i].exp
  <2>1. Len(p) + 1 \in DOMAIN q
    BY <1>3, <1>4
  <2>2. \A j \in 1 .. Len(p) : d.exp <= p[j].exp
    BY <1>1, <1>4, <1>7
  <2>3. d.exp <= d.exp
    BY <1>4
  <2>4. \A j \in DOMAIN q : q[Len(p) + 1].exp <= q[j].exp
    BY <1>3, <1>5, <2>2, <2>3
  <2> QED
    BY <1>2, <2>1, <2>4 DEF F!Ends
<1> QED
  BY <1>4, <1>6, <1>7

\* chain_expiration is no later than any exp in the chain.
LEMMA ExpirationBound ==
  ASSUME NEW p, F!Ends(p)
  PROVE  \A i \in DOMAIN p : F!ChainExpiration(p) <= p[i].exp
BY DEF F!Ends, F!ChainExpiration

-----------------------------------------------------------------------------
(* The climb *)

\* A chain is made of documents.
LEMMA ChainDocuments ==
  ASSUME NEW c, F!CallType(c), NEW i \in 1 .. Len(c.chain)
  PROVE  c.chain[i] \in F!Document /\ c.chain[i].iss \in Entities
<1>1. c.chain[i] \in F!Document
  BY DEF F!CallType
<1> QED
  BY <1>1, DocumentType

\* What was vouched for stays so while the other entities change.
LEMMA ClimbedKept ==
  ASSUME NEW c, F!CallType(c), F!Climbed(c), NEW d, d.chain = c.chain, d.current = c.current,
         d.absent \subseteq c.absent, c.rekeyed \subseteq d.rekeyed,
         \A e \in Entities : e \notin d.rekeyed => keys'[e] = keys[e]
  PROVE  F!Climbed(d)'
<1>1. \A i \in 2 .. Len(d.chain) : F!Vouched(d, d.chain[i])'
  <2>1. SUFFICES ASSUME NEW i \in 2 .. Len(c.chain) PROVE F!Vouched(d, c.chain[i])'
    OBVIOUS
  <2>2. c.chain[i].iss \in Entities
    <3>1. i \in 1 .. Len(c.chain)
      BY DEF F!CallType
    <3> QED
      BY <3>1, ChainDocuments
  <2>3. F!Vouched(c, c.chain[i])
    BY DEF F!Climbed
  <2> QED
    BY <2>2, <2>3 DEF F!Vouched
<1> QED
  BY <1>1 DEF F!Climbed, F!Ends, F!Names

\* A change elsewhere keeps the climb vouched for by those who did not change.
LEMMA WorldKept ==
  ASSUME NEW c, F!CallType(c), F!ClimbInv(c), c.stage \notin {"idle", "done"}, setup' = setup,
         NEW d, d.stage = c.stage, d.chain = c.chain, d.current = c.current,
         d.superior = c.superior, d.todo = c.todo, d.anchor = c.anchor,
         d.absent \subseteq c.absent, c.rekeyed \subseteq d.rekeyed,
         \A e \in Entities : e \notin d.rekeyed => keys'[e] = keys[e],
         \A e \in d.absent : attested'[e] = {}
  PROVE  F!ClimbInv(d)'
<1>1. d.stage \in {"climb", "statement", "anchor"} => F!Climbed(d)'
  BY ClimbedKept DEF F!ClimbInv
<1>2. d.stage = "climb" /\ Len(d.chain) = 1 => \A i \in DOMAIN d.todo : F!Names(d.chain[1].hints, d.todo[i])
  BY DEF F!ClimbInv
<1>3. d.stage = "statement" =>
       /\ d.superior \in F!Document
       /\ d.superior.iss \notin d.rekeyed => d.superior.keys = keys'[d.superior.iss]
       /\ Len(d.chain) = 1 => F!Names(d.chain[1].hints, d.superior.iss)
  BY DocumentType DEF F!ClimbInv
<1>4. d.stage = "anchor" => (d.current.iss = F!AnchorIdentifier(d) /\ F!Trusted(F!AnchorIdentifier(d)))'
  BY DEF F!ClimbInv, F!AnchorIdentifier, F!Trusted
<1> QED
  BY <1>1, <1>2, <1>3, <1>4 DEF F!ClimbInv, F!Names

\* Only an answer with a chain is accepted.
LEMMA NotAccepted ==
  ASSUME NEW d, resolution' = d, d.stage # "done" \/ d.result # "chain"
  PROVE  F!ChainVouched'
BY DEF F!ChainVouched, F!AnchorTrusted, F!AnchorVouches, F!SubjectAttested, F!AnchorVerifies, F!ExpiryBounded, F!Accepted

\* The invariant from its parts.
LEMMA InvMade ==
  ASSUME F!TypeOK', NEW d, resolution' = d, F!CallType(d), F!ClimbInv(d)', F!ChainVouched'
  PROVE  F!FederationInv'
<1>1. F!CallType(resolution)'
  BY DEF F!CallType, F!Shape
<1>2. F!ClimbInv(resolution)'
  BY DEF F!ClimbInv, F!Climbed, F!Vouched, F!AnchorIdentifier, F!Trusted
<1> QED
  BY <1>1, <1>2 DEF F!FederationInv

\* A resolution that is over says nothing about the climb.
LEMMA OverInv ==
  ASSUME NEW d, d.stage = "done" PROVE F!ClimbInv(d)'
BY DEF F!ClimbInv

\* A step of the resolution leaves the entities alone.
LEMMA TypeSame ==
  ASSUME F!TypeOK, UNCHANGED <<now, F!world>> PROVE F!TypeOK'
BY DEF F!TypeOK, F!world

\* A resolution ends without a chain.
LEMMA DoneKeeps ==
  ASSUME F!TypeOK, UNCHANGED <<now, F!world>>, NEW c, F!CallType(c), NEW r, r # "chain", resolution' = F!Done(c, r)
  PROVE  F!FederationInv'
<1>1. PICK d : d = F!Done(c, r)
  OBVIOUS
<1>2. F!CallType(d) /\ d.stage = "done" /\ d.result = r
  BY <1>1, DoneSet
<1> QED
  BY <1>1, <1>2, TypeSame, OverInv, NotAccepted, InvMade

-----------------------------------------------------------------------------
(* The steps of a resolution *)

\* The climb begins.
LEMMA ClimbingKeeps ==
  ASSUME F!TypeOK, UNCHANGED <<now, F!world>>, NEW c, F!CallType(c),
         \A e \in c.absent : attested[e] = {},
         NEW doc \in F!Document, doc.iss = Subject, doc.sub = Subject, resolution' = F!Climbing(c, doc)
  PROVE  F!FederationInv'
<1>1. PICK d : d = F!Climbing(c, doc)
  OBVIOUS
<1>2. /\ F!CallType(d) /\ d.stage = "climb" /\ d.chain = <<doc>> /\ d.current = doc
      /\ d.todo = doc.hints /\ d.absent = c.absent /\ d.rekeyed = c.rekeyed
  BY <1>1, ClimbingSet
<1>3. /\ d.chain # <<>> /\ Len(d.chain) = 1 /\ d.chain[1] = doc /\ F!Ends(d.chain)
  BY <1>2, EndsOne
<1>4. F!Climbed(d)'
  BY <1>2, <1>3 DEF F!Climbed, F!Ends
<1>5. \A i \in DOMAIN d.todo : F!Names(d.chain[1].hints, d.todo[i])
  BY <1>2, <1>3 DEF F!Names
<1>6. attested' = attested
  BY DEF F!world
<1>7. F!ClimbInv(d)'
  BY <1>2, <1>4, <1>5, <1>6 DEF F!ClimbInv, F!Names
<1> QED
  BY <1>1, <1>2, <1>7, TypeSame, NotAccepted, InvMade

\* A resolution begins with the fetch of the subject's configuration.
LEMMA BeginKeeps ==
  ASSUME F!TypeOK, UNCHANGED <<now, F!world>>, NEW kind, NEW anchor,
         resolution' = [F!Begun(kind, anchor) EXCEPT !.stage = "configure"]
  PROVE  F!FederationInv'
<1>1. PICK c : c = F!Begun(kind, anchor) /\ F!CallType(c) /\ c.absent = {e \in Entities : attested[e] = {}}
  BY BegunType
<1>2. PICK d : d = [c EXCEPT !.stage = "configure"]
  OBVIOUS
<1>3. F!CallType(d) /\ d.stage = "configure" /\ d.absent = c.absent
  <2>1. "configure" \in F!Stages
    BY DEF F!Stages
  <2> QED
    BY <1>1, <1>2, <2>1, StageSet
<1>4. attested' = attested
  BY DEF F!world
<1>5. F!ClimbInv(d)'
  BY <1>1, <1>3, <1>4 DEF F!ClimbInv
<1> QED
  BY <1>1, <1>2, <1>3, <1>5, TypeSame, NotAccepted, InvMade

\* /federation/register starts from a document that anybody may have written.
LEMMA ExplicitRegisterKeeps ==
  ASSUME F!PresentedAssumption, F!TypeOK, F!ExplicitRegister
  PROVE  F!FederationInv'
<1>1. PICK c : c = F!Begun("explicit", "") /\ F!CallType(c) /\ c.absent = {e \in Entities : attested[e] = {}}
  BY BegunType
<1>2. UNCHANGED <<now, F!world>>
  BY DEF F!ExplicitRegister
<1>3. PICK p \in Presented :
         resolution' = IF ~F!RegistrationBody(p) THEN F!Done(c, "invalid_request")
                       ELSE IF ~F!ValidatedRegistrationStatement(p) THEN F!Done(c, "invalid_client")
                       ELSE IF p.statement.hints = <<>> THEN F!Done(c, "invalid_trust_chain")
                       ELSE F!Climbing(c, p.statement)
  BY <1>1 DEF F!ExplicitRegister
<1>4. CASE resolution' = F!Done(c, "invalid_request")
  BY <1>1, <1>2, <1>4, DoneKeeps
<1>5. CASE resolution' = F!Done(c, "invalid_client")
  BY <1>1, <1>2, <1>5, DoneKeeps
<1>6. CASE resolution' = F!Done(c, "invalid_trust_chain")
  BY <1>1, <1>2, <1>6, DoneKeeps
<1>7. CASE F!ValidatedRegistrationStatement(p) /\ resolution' = F!Climbing(c, p.statement)
  <2>1. PICK doc \in F!Document : doc = p.statement
    BY DEF F!PresentedAssumption
  <2>2. doc.iss = Subject /\ doc.sub = Subject
    BY <1>7, <2>1 DEF F!ValidatedRegistrationStatement, F!VerifyEntityStatement
  <2>3. \A e \in c.absent : attested[e] = {}
    BY <1>1
  <2> QED
    BY <1>1, <1>2, <1>7, <2>1, <2>2, <2>3, ClimbingKeeps
<1> QED
  BY <1>3, <1>4, <1>5, <1>6, <1>7

\* The configuration of the subject arrives, or does not.
LEMMA ConfigureKeeps ==
  ASSUME F!EntityAssumption, F!SetupAssumption, F!FederationInv, F!Configure
  PROVE  F!FederationInv'
<1>1. PICK c : c = resolution
  OBVIOUS
<1>2. F!TypeOK /\ F!CallType(c) /\ F!ClimbInv(c) /\ c.stage = "configure" /\ UNCHANGED <<now, F!world>>
  BY <1>1 DEF F!FederationInv, F!Configure
<1>3. PICK doc \in F!FetchConfiguration(Subject) :
        resolution' = IF doc = NoDocument THEN F!Done(c, "none") ELSE F!Climbing(c, doc)
  BY <1>1 DEF F!Configure
<1>4. CASE doc = NoDocument
  BY <1>2, <1>3, <1>4, DoneKeeps
<1>5. CASE doc # NoDocument
  <2>1. doc \in F!Document /\ doc.iss = Subject /\ doc.sub = Subject
    BY <1>2, <1>5, FetchedConfiguration DEF F!EntityAssumption
  <2>2. \A e \in c.absent : attested[e] = {}
    BY <1>2 DEF F!ClimbInv
  <2> QED
    BY <1>2, <1>3, <1>5, <2>1, <2>2, ClimbingKeeps
<1> QED
  BY <1>4, <1>5

\* The anchor that is reached is the entity at which the climb stands.
LEMMA AnchorReached ==
  ASSUME NEW c, F!IsTrustAnchor(c.current, c.anchor)
  PROVE  c.current.iss = F!AnchorIdentifier(c)
BY DEF F!IsTrustAnchor, F!AnchorIdentifier

\* The climb stops at a trust anchor.
LEMMA ReachAnchorKeeps ==
  ASSUME F!FederationInv, F!ReachAnchor
  PROVE  F!FederationInv'
<1>1. PICK c : c = resolution
  OBVIOUS
<1>2. /\ F!TypeOK /\ F!CallType(c) /\ F!ClimbInv(c) /\ c.stage = "climb" /\ UNCHANGED <<now, F!world>>
      /\ F!IsTrustAnchor(c.current, c.anchor)
  BY <1>1 DEF F!FederationInv, F!ReachAnchor
<1>3. resolution' = IF F!Trusted(F!AnchorIdentifier(c)) THEN [c EXCEPT !.stage = "anchor"] ELSE F!Done(c, "none")
  BY <1>1 DEF F!ReachAnchor
<1>4. CASE ~F!Trusted(F!AnchorIdentifier(c))
  BY <1>2, <1>3, <1>4, DoneKeeps
<1>5. CASE F!Trusted(F!AnchorIdentifier(c))
  <2>1. PICK d : d = [c EXCEPT !.stage = "anchor"]
    OBVIOUS
  <2>2. /\ F!CallType(d) /\ d.stage = "anchor" /\ d.chain = c.chain /\ d.current = c.current
        /\ d.anchor = c.anchor /\ d.absent = c.absent /\ d.rekeyed = c.rekeyed
    <3>1. "anchor" \in F!Stages
      BY DEF F!Stages
    <3> QED
      BY <1>2, <2>1, <3>1, StageSet
  <2>3. keys' = keys /\ setup' = setup /\ attested' = attested
    BY <1>2 DEF F!world
  <2>4. F!Climbed(d)'
    BY <1>2, <2>2, <2>3, ClimbedKept DEF F!ClimbInv
  <2>5. d.current.iss = F!AnchorIdentifier(d) /\ F!Trusted(F!AnchorIdentifier(d))'
    BY <1>2, <1>5, <2>2, <2>3, AnchorReached DEF F!AnchorIdentifier, F!Trusted
  <2>6. F!ClimbInv(d)'
    BY <1>2, <2>2, <2>3, <2>4, <2>5 DEF F!ClimbInv, F!AnchorIdentifier
  <2> QED
    BY <1>2, <1>3, <1>5, <2>1, <2>2, <2>6, TypeSame, NotAccepted, InvMade
<1> QED
  BY <1>4, <1>5

\* The next authority hint is tried, or none is left.
LEMMA NextSuperiorKeeps ==
  ASSUME F!EntityAssumption, F!SetupAssumption, F!FederationInv, F!NextSuperior
  PROVE  F!FederationInv'
<1>1. PICK c : c = resolution
  OBVIOUS
<1>2. /\ F!TypeOK /\ F!CallType(c) /\ F!ClimbInv(c) /\ c.stage = "climb" /\ UNCHANGED <<now, F!world>>
  BY <1>1 DEF F!FederationInv, F!NextSuperior
<1>3. keys' = keys /\ setup' = setup /\ attested' = attested
  BY <1>2 DEF F!world
<1>4. F!Climbed(c) /\ \A e \in c.absent : attested[e] = {}
  BY <1>2 DEF F!ClimbInv
<1>5. CASE resolution' = F!Done(c, "none")
  BY <1>2, <1>5, DoneKeeps
<1>6. ASSUME NEW i \in DOMAIN c.todo, NEW doc \in F!FetchConfiguration(c.todo[i]),
             resolution' = IF doc = NoDocument
                           THEN [c EXCEPT !.todo = SubSeq(@, i + 1, Len(c.todo))]
                           ELSE [c EXCEPT !.stage = "statement", !.superior = doc,
                                          !.seen = @ \cup {c.todo[i]}]
      PROVE  F!FederationInv'
  <2>1. c.todo \in Seq(Entities) /\ c.todo[i] \in Entities /\ i \in 1 .. Len(c.todo)
    BY <1>2 DEF F!CallType
  <2>2. CASE doc = NoDocument
    <3>1. PICK t : t = SubSeq(c.todo, i + 1, Len(c.todo))
      OBVIOUS
    <3>2. t \in Seq(Entities) /\ \A j \in DOMAIN t : \E k \in DOMAIN c.todo : t[j] = c.todo[k]
      <4>1. PICK o \in Seq(Entities) : o = c.todo
        BY <2>1
      <4>2. /\ SubSeq(o, i + 1, Len(o)) \in Seq(Entities)
            /\ DOMAIN SubSeq(o, i + 1, Len(o)) = 1 .. Len(o) - i
            /\ \A j \in 1 .. Len(o) - i : SubSeq(o, i + 1, Len(o))[j] = o[j + i] /\ j + i \in DOMAIN o
        BY <2>1, <4>1
      <4> QED
        BY <3>1, <4>1, <4>2
    <3>3. PICK d : d = [c EXCEPT !.todo = t]
      OBVIOUS
    <3>4. /\ F!CallType(d) /\ d.stage = c.stage /\ d.chain = c.chain /\ d.current = c.current
          /\ d.todo = t /\ d.absent = c.absent /\ d.rekeyed = c.rekeyed
      BY <1>2, <3>2, <3>3, TodoSet
    <3>5. resolution' = d
      BY <1>6, <2>2, <3>1, <3>3
    <3>6. F!Climbed(d)'
      BY <1>2, <1>3, <1>4, <3>4, ClimbedKept
    <3>7. Len(d.chain) = 1 => \A j \in DOMAIN d.todo : F!Names(d.chain[1].hints, d.todo[j])
      BY <1>2, <3>2, <3>4 DEF F!ClimbInv
    <3>8. F!ClimbInv(d)'
      BY <1>2, <1>3, <1>4, <3>4, <3>6, <3>7 DEF F!ClimbInv, F!Names
    <3> QED
      BY <1>2, <3>4, <3>5, <3>8, TypeSame, NotAccepted, InvMade
  <2>3. CASE doc # NoDocument
    <3>1. doc \in F!Document /\ doc.iss = c.todo[i] /\ doc.keys = keys[doc.iss]
      BY <1>2, <2>1, <2>3, FetchedConfiguration
    <3>2. PICK S : S = c.seen \cup {c.todo[i]}
      OBVIOUS
    <3>3. PICK d : d = [c EXCEPT !.stage = "statement", !.superior = doc, !.seen = S]
      OBVIOUS
    <3>4. /\ F!CallType(d) /\ d.stage = "statement" /\ d.chain = c.chain /\ d.current = c.current
          /\ d.superior = doc /\ d.absent = c.absent /\ d.rekeyed = c.rekeyed
      BY <1>2, <3>3 DEF F!CallType, F!Shape, F!Stages
    <3>5. resolution' = d
      BY <1>6, <2>3, <3>2, <3>3
    <3>6. F!Climbed(d)'
      BY <1>2, <1>3, <1>4, <3>4, ClimbedKept
    <3>7. Len(d.chain) = 1 => F!Names(d.chain[1].hints, d.superior.iss)
      BY <1>2, <3>1, <3>4 DEF F!ClimbInv
    <3>8. F!ClimbInv(d)'
      BY <1>3, <1>4, <3>1, <3>4, <3>6, <3>7 DEF F!ClimbInv, F!Names
    <3> QED
      BY <1>2, <3>4, <3>5, <3>8, TypeSame, NotAccepted, InvMade
  <2> QED
    BY <2>2, <2>3
<1> QED
  BY <1>1, <1>5, <1>6 DEF F!NextSuperior

\* The statement of a superior is verified with the keys it publishes.
LEMMA AddStatementKeeps ==
  ASSUME F!EntityAssumption, F!SetupAssumption, F!FederationInv, F!AddStatement
  PROVE  F!FederationInv'
<1>1. PICK c : c = resolution
  OBVIOUS
<1>2. /\ F!TypeOK /\ F!CallType(c) /\ F!ClimbInv(c) /\ c.stage = "statement" /\ UNCHANGED <<now, F!world>>
  BY <1>1 DEF F!FederationInv, F!AddStatement
<1>3. keys' = keys /\ setup' = setup /\ attested' = attested
  BY <1>2 DEF F!world
<1>4. /\ F!Climbed(c) /\ \A e \in c.absent : attested[e] = {}
  BY <1>2 DEF F!ClimbInv
<1>5. PICK s \in F!Document : /\ s = c.superior /\ (s.iss \notin c.rekeyed => s.keys = keys[s.iss])
                              /\ (Len(c.chain) = 1 => F!Names(c.chain[1].hints, s.iss))
  BY <1>2 DEF F!ClimbInv
<1>6. PICK doc \in F!FetchSubordinateStatement(s) :
        resolution' = IF doc = NoDocument THEN F!Done(c, "none")
                      ELSE [c EXCEPT !.stage = "climb", !.current = s, !.todo = s.hints, !.chain = Append(@, doc)]
  BY <1>1, <1>5 DEF F!AddStatement
<1>7. CASE doc = NoDocument
  BY <1>2, <1>6, <1>7, DoneKeeps
<1>8. CASE doc # NoDocument
  <2>1. /\ doc \in F!Document /\ doc.iss = s.iss /\ doc.sub = Subject /\ doc.signer \in s.keys
        /\ attested[s.iss] # {} /\ s.iss \in Entities
    BY <1>2, <1>8, FetchedStatement, DocumentType
  <2>2. PICK d : d = [c EXCEPT !.stage = "climb", !.current = s, !.todo = s.hints, !.chain = Append(@, doc)]
    OBVIOUS
  <2>3. /\ F!CallType(d) /\ d.stage = "climb" /\ d.chain = Append(c.chain, doc) /\ d.current = s
        /\ d.todo = s.hints /\ d.absent = c.absent /\ d.rekeyed = c.rekeyed
    <3>1. PICK p \in Seq(F!Document) : p = c.chain
      BY <1>2 DEF F!CallType
    <3>2. Append(p, doc) \in Seq(F!Document)
      BY <2>1
    <3>3. PICK q \in Seq(F!Document), h \in Seq(Entities) : q = Append(c.chain, doc) /\ h = s.hints
      BY <3>1, <3>2, DocumentType
    <3>4. d = [c EXCEPT !.stage = "climb", !.current = s, !.todo = h, !.chain = q]
      BY <2>2, <3>3
    <3>5. F!CallType(d) /\ d.stage = "climb" /\ d.chain = q /\ d.current = s
          /\ d.todo = h /\ d.absent = c.absent /\ d.rekeyed = c.rekeyed
      BY <1>2, <3>4 DEF F!CallType, F!Shape, F!Stages
    <3> QED
      BY <3>3, <3>5
  <2>4. PICK p \in Seq(F!Document) : p = c.chain /\ p # <<>> /\ Len(p) \in Nat /\ Len(p) >= 1
    BY <1>2, <1>4 DEF F!CallType, F!Climbed
  <2>5. PICK q : q = Append(p, doc)
    OBVIOUS
  <2>6. /\ q # <<>> /\ Len(q) = Len(p) + 1 /\ q[Len(p) + 1] = doc
        /\ \A i \in 1 .. Len(p) : q[i] = p[i]
    BY <2>1, <2>4, <2>5
  <2>7. F!Ends(q)
    BY <1>4, <2>1, <2>4, <2>5, EndsAppend DEF F!Climbed
  <2>8. q[1] = p[1] /\ Len(q) # 1 /\ q[Len(q)] = doc
    BY <2>4, <2>6
  <2>9. F!Names(q[1].hints, q[2].iss)
    <3>1. CASE Len(p) = 1
      BY <1>5, <2>1, <2>4, <2>6, <2>8, <3>1
    <3>2. CASE Len(p) # 1
      <4>0. 2 \in 1 .. Len(p)
        <5>1. PICK n \in Nat : n = Len(p) /\ n >= 1 /\ n # 1
          BY <2>4, <3>2
        <5>2. 2 \in 1 .. n
          BY <5>1
        <5> QED
          BY <5>1, <5>2
      <4>1. q[2] = p[2]
        BY <2>6, <4>0
      <4>2. F!Names(p[1].hints, p[2].iss)
        BY <1>4, <2>4, <3>2 DEF F!Climbed
      <4> QED
        BY <2>8, <4>1, <4>2
    <3> QED
      BY <3>1, <3>2
  <2>10. F!Vouched(d, doc)'
    BY <1>3, <1>4, <1>5, <2>1, <2>3 DEF F!Vouched
  <2>11. \A i \in 2 .. Len(p) : F!Vouched(d, p[i])'
    BY <1>3, <1>4, <2>3, <2>4 DEF F!Climbed, F!Vouched
  <2>12. \A i \in 2 .. Len(q) : F!Vouched(d, q[i])'
    <3>1. SUFFICES ASSUME NEW i \in 2 .. Len(q) PROVE F!Vouched(d, q[i])'
      OBVIOUS
    <3>2. CASE i = Len(p) + 1
      BY <2>6, <2>10, <3>2
    <3>3. CASE i # Len(p) + 1
      <4>1. i \in 2 .. Len(p) /\ i \in 1 .. Len(p)
        BY <2>4, <2>6, <3>3
      <4>2. q[i] = p[i]
        BY <2>6, <4>1
      <4> QED
        BY <2>11, <4>1, <4>2
    <3> QED
      BY <3>2, <3>3
  <2>13. d.chain = q /\ d.current.iss = q[Len(q)].iss /\ q[1].iss = Subject /\ q[1].sub = Subject
    BY <1>4, <2>1, <2>3, <2>4, <2>5, <2>8 DEF F!Climbed
  <2>14. F!Climbed(d)'
    BY <2>3, <2>6, <2>7, <2>8, <2>9, <2>12, <2>13 DEF F!Climbed, F!Ends, F!Names
  <2>15. F!ClimbInv(d)'
    BY <1>3, <1>4, <2>3, <2>8, <2>13, <2>14 DEF F!ClimbInv
  <2>16. resolution' = d
    BY <1>6, <1>8, <2>2
  <2> QED
    BY <1>2, <2>3, <2>15, <2>16, TypeSame, NotAccepted, InvMade
<1> QED
  BY <1>7, <1>8

\* The answer with a chain.
LEMMA ResponseSet ==
  ASSUME NEW c, F!CallType(c), NEW uris, NEW d, F!Response(c, uris) = d
  PROVE  /\ F!CallType(d) /\ d.stage = "done" /\ d.chain = c.chain /\ d.at = now
         /\ d.exp = F!ChainExpiration(c.chain)
         /\ d.anchor = c.anchor /\ d.absent = c.absent /\ d.rekeyed = c.rekeyed
<1>1. PICK b : b = F!Done(c, "chain")
  OBVIOUS
<1>2. /\ F!CallType(b) /\ b.stage = "done" /\ b.chain = c.chain /\ b.at = now
      /\ b.anchor = c.anchor /\ b.absent = c.absent /\ b.rekeyed = c.rekeyed
  BY <1>1, DoneSet
<1>3. PICK x : x = F!ChainExpiration(c.chain)
  OBVIOUS
<1>4. d = [b EXCEPT !.uris = uris, !.exp = x]
  BY <1>1, <1>3 DEF F!Response
<1>5. /\ F!CallType(d) /\ d.stage = b.stage /\ d.chain = b.chain /\ d.at = b.at /\ d.exp = x
      /\ d.anchor = b.anchor /\ d.absent = b.absent /\ d.rekeyed = b.rekeyed
  BY <1>2, <1>4 DEF F!CallType, F!Shape
<1> QED
  BY <1>2, <1>3, <1>5

\* The configuration of the anchor ends the chain.
LEMMA FetchAnchorKeeps ==
  ASSUME F!EntityAssumption, F!SetupAssumption, F!FederationInv, F!FetchAnchor
  PROVE  F!FederationInv'
<1>1. PICK c : c = resolution
  OBVIOUS
<1>2. /\ F!TypeOK /\ F!CallType(c) /\ F!ClimbInv(c) /\ c.stage = "anchor" /\ UNCHANGED <<now, F!world>>
  BY <1>1 DEF F!FederationInv, F!FetchAnchor
<1>3. keys' = keys /\ setup' = setup
  BY <1>2 DEF F!world
<1>4. F!Climbed(c) /\ c.current.iss = F!AnchorIdentifier(c) /\ F!Trusted(F!AnchorIdentifier(c))
  BY <1>2 DEF F!ClimbInv
<1>5. PICK a \in Entities : a = F!AnchorIdentifier(c) /\ a = c.current.iss
  BY <1>4, DocumentType DEF F!Climbed
<1>6. PICK doc \in F!FetchConfiguration(a) :
        resolution' = IF doc = NoDocument \/ ~F!SubjectAttestedKeys(c.chain) THEN F!Done(c, "none")
                      ELSE F!Answered([c EXCEPT !.chain = Append(@, doc)])
  BY <1>1, <1>5 DEF F!FetchAnchor
<1>7. CASE doc = NoDocument \/ ~F!SubjectAttestedKeys(c.chain)
  BY <1>2, <1>6, <1>7, DoneKeeps
<1>8. CASE doc # NoDocument /\ F!SubjectAttestedKeys(c.chain)
  <2>1. doc \in F!Document /\ doc.iss = a /\ doc.keys = keys[a]
    BY <1>2, <1>8, FetchedConfiguration
  <2>2. PICK b : b = [c EXCEPT !.chain = Append(@, doc)]
    OBVIOUS
  <2>3. /\ F!CallType(b) /\ b.chain = Append(c.chain, doc) /\ b.anchor = c.anchor
        /\ b.absent = c.absent /\ b.rekeyed = c.rekeyed
    BY <1>2, <2>1, <2>2, AppendSet
  <2>4. resolution' = F!Answered(b)
    BY <1>6, <1>8, <2>2
  <2>5. \/ resolution' = F!Done(b, "invalid_client_metadata") \/ resolution' = F!Done(b, "none")
        \/ \E uris : resolution' = F!Response(b, uris)
    BY <2>4 DEF F!Answered
  <2>6. CASE resolution' = F!Done(b, "invalid_client_metadata") \/ resolution' = F!Done(b, "none")
    BY <1>2, <2>3, <2>6, DoneKeeps
  <2>7. ASSUME NEW uris, resolution' = F!Response(b, uris) PROVE F!FederationInv'
    <3>1. PICK d : d = F!Response(b, uris)
      OBVIOUS
    <3>2. /\ F!CallType(d) /\ d.stage = "done" /\ d.chain = b.chain /\ d.at = now
          /\ d.exp = F!ChainExpiration(b.chain)
          /\ d.anchor = c.anchor /\ d.absent = c.absent /\ d.rekeyed = c.rekeyed
      <4>1. /\ F!CallType(d) /\ d.stage = "done" /\ d.chain = b.chain /\ d.at = now
            /\ d.exp = F!ChainExpiration(b.chain)
            /\ d.anchor = b.anchor /\ d.absent = b.absent /\ d.rekeyed = b.rekeyed
        <5>1. F!CallType(b) /\ F!Response(b, uris) = d
          BY <2>3, <3>1
        <5> QED
          BY <5>1, ResponseSet
      <4> QED
        BY <2>3, <4>1
    <3>3. PICK p \in Seq(F!Document) : p = c.chain /\ p # <<>> /\ Len(p) \in Nat /\ Len(p) >= 1
      BY <1>2, <1>4 DEF F!CallType, F!Climbed
    <3>4. PICK q : q = Append(p, doc)
      OBVIOUS
    <3>5. /\ Len(q) = Len(p) + 1 /\ q[Len(p) + 1] = doc /\ DOMAIN q = 1 .. Len(p) + 1
          /\ \A i \in 1 .. Len(p) : q[i] = p[i]
      BY <2>1, <3>3, <3>4
    <3>6. F!Ends(q)
      BY <1>4, <2>1, <3>3, <3>4, EndsAppend DEF F!Climbed
    <3>7. \A i \in DOMAIN q : d.exp <= q[i].exp
      BY <2>3, <3>2, <3>3, <3>4, <3>6, ExpirationBound
    <3>8. d.chain = q /\ q[Len(q)] = doc /\ q[1] = p[1]
      BY <2>3, <3>2, <3>3, <3>4, <3>5
    <3>9. 2 .. Len(q) - 1 = 2 .. Len(p) /\ \A i \in 2 .. Len(p) : q[i] = p[i] /\ F!Vouched(c, p[i])
      BY <1>4, <3>3, <3>5 DEF F!Climbed
    <3>10. a # Subject => Len(p) >= 2 /\ p[Len(p)].iss = a /\ F!Names(p[1].hints, p[2].iss)
      BY <1>4, <1>5, <3>3 DEF F!Climbed
    <3>11. a # Subject => p[1].signer \in p[2].keys /\ now < p[1].exp
      BY <1>8, <3>3, <3>10 DEF F!SubjectAttestedKeys, F!VerifyEntityStatement
    <3>12. /\ setup.anchors # {} => a \in setup.anchors
           /\ F!AnchorIdentifier(d) = a \/ d.anchor = c.anchor
      BY <1>4, <1>5, <3>2 DEF F!Trusted
    <3>13. F!AnchorTrusted'
      BY <1>3, <1>5, <2>1, <2>7, <3>1, <3>2, <3>8, <3>12 DEF F!AnchorTrusted, F!Anchor, F!AnchorIdentifier
    <3>14. a # Subject => q[2] = p[2] /\ q[Len(p)] = p[Len(p)] /\ Len(p) \in 2 .. Len(p)
      BY <3>3, <3>5, <3>10
    <3>15. F!AnchorVouches'
      <4>1. SUFFICES ASSUME a # Subject
            PROVE  /\ \E i \in 2 .. Len(q) - 1 : q[i].iss = a
                   /\ \A i \in 2 .. Len(q) - 1 : q[i].sub = Subject /\ q[i].iss \notin d.absent
                   /\ \E i \in DOMAIN q[1].hints : q[1].hints[i] = q[2].iss
        BY <2>1, <2>7, <3>1, <3>8 DEF F!AnchorVouches, F!Anchor, F!Statements
      <4>2. \E i \in 2 .. Len(q) - 1 : q[i].iss = a
        BY <3>9, <3>10, <3>14, <4>1
      <4>3. \A i \in 2 .. Len(q) - 1 : q[i].sub = Subject /\ q[i].iss \notin d.absent
        BY <3>2, <3>9 DEF F!Vouched
      <4>4. \E i \in DOMAIN q[1].hints : q[1].hints[i] = q[2].iss
        BY <3>8, <3>10, <3>14, <4>1 DEF F!Names
      <4> QED
        BY <4>2, <4>3, <4>4
    <3>16. F!SubjectAttested'
      BY <2>1, <2>7, <3>1, <3>8, <3>11, <3>14 DEF F!SubjectAttested, F!Anchor
    <3>17. F!AnchorVerifies'
      <4>1. SUFFICES ASSUME a \notin d.rekeyed
            PROVE  \A i \in 2 .. Len(q) - 1 : q[i].iss = a => q[i].signer \in keys[a]
        BY <2>1, <2>7, <3>1, <3>8 DEF F!AnchorVerifies, F!Anchor, F!Statements
      <4> QED
        BY <3>2, <3>9, <4>1 DEF F!Vouched
    <3>18. F!ExpiryBounded'
      BY <2>1, <2>7, <3>1, <3>2, <3>7, <3>8, <3>11 DEF F!ExpiryBounded, F!Anchor
    <3>19. F!ChainVouched'
      BY <3>13, <3>15, <3>16, <3>17, <3>18 DEF F!ChainVouched
    <3> QED
      BY <1>2, <2>7, <3>1, <3>2, <3>19, TypeSame, OverInv, InvMade
  <2> QED
    BY <2>5, <2>6, <2>7
<1> QED
  BY <1>7, <1>8

-----------------------------------------------------------------------------
(* The steps of the other entities *)

\* Another entity acts while a resolution is under way.
LEMMA WorldStep ==
  ASSUME F!FederationInv, F!TypeOK', setup' = setup, NEW c, c = resolution, c.stage \notin {"idle", "done"},
         NEW d, resolution' = d, F!CallType(d), d.stage = c.stage, d.chain = c.chain, d.current = c.current,
         d.superior = c.superior, d.todo = c.todo, d.anchor = c.anchor,
         d.absent \subseteq c.absent, c.rekeyed \subseteq d.rekeyed,
         \A e \in Entities : e \notin d.rekeyed => keys'[e] = keys[e],
         \A e \in d.absent : attested'[e] = {}
  PROVE  F!FederationInv'
<1>1. F!CallType(c) /\ F!ClimbInv(c)
  BY DEF F!FederationInv
<1>2. F!ClimbInv(d)'
  BY <1>1, WorldKept
<1>3. F!ChainVouched'
  BY NotAccepted
<1> QED
  BY <1>2, <1>3, InvMade

\* An entity changes its keys in the middle of a resolution,
LEMMA RekeyKeeps ==
  ASSUME F!FederationInv, NEW e \in Entities, F!PublishKeys(e) \/ F!SwitchKey(e)
  PROVE  F!FederationInv'
<1>1. PICK c : c = resolution /\ F!CallType(c) /\ F!ClimbInv(c) /\ c.stage \notin {"idle", "done"}
  BY DEF F!FederationInv, F!PublishKeys, F!SwitchKey, F!MayChange
<1>2. F!TypeOK'
  BY DEF F!FederationInv, F!TypeOK, F!PublishKeys, F!SwitchKey
<1>3. setup' = setup /\ attested' = attested /\ \A x \in Entities : x # e => keys'[x] = keys[x]
  BY DEF F!FederationInv, F!TypeOK, F!PublishKeys, F!SwitchKey
<1>4. PICK R \in SUBSET Entities : R = c.rekeyed \cup {e}
  BY <1>1 DEF F!CallType
<1>5. PICK d : d = [c EXCEPT !.rekeyed = R]
  OBVIOUS
<1>6. /\ F!CallType(d) /\ d.stage = c.stage /\ d.chain = c.chain /\ d.current = c.current
      /\ d.superior = c.superior /\ d.todo = c.todo /\ d.anchor = c.anchor
      /\ d.absent = c.absent /\ d.rekeyed = R
  BY <1>1, <1>5, RekeyedSet
<1>7. resolution' = d
  BY <1>1, <1>4, <1>5 DEF F!PublishKeys, F!SwitchKey, F!Rekeyed
<1>8. \A x \in d.absent : attested'[x] = {}
  BY <1>1, <1>3, <1>6 DEF F!ClimbInv
<1>9. \A x \in Entities : x \notin d.rekeyed => keys'[x] = keys[x]
  BY <1>3, <1>4, <1>6
<1>10. c.rekeyed \subseteq d.rekeyed /\ d.absent \subseteq c.absent
  BY <1>4, <1>6
<1> QED
  BY <1>1, <1>2, <1>3, <1>6, <1>7, <1>8, <1>9, <1>10, WorldStep

\* a superior attests other keys,
LEMMA AttestKeeps ==
  ASSUME F!EntityAssumption, F!FederationInv, NEW s \in Entities, F!Attest(s)
  PROVE  F!FederationInv'
<1>1. PICK c : c = resolution /\ F!CallType(c) /\ F!ClimbInv(c) /\ c.stage \notin {"idle", "done"}
  BY DEF F!FederationInv, F!Attest, F!MayChange
<1>2. F!TypeOK'
  BY DEF F!FederationInv, F!TypeOK, F!Attest, F!EntityAssumption
<1>3. setup' = setup /\ keys' = keys /\ \A x \in Entities : x # s => attested'[x] = attested[x]
  BY DEF F!FederationInv, F!TypeOK, F!Attest
<1>4. PICK A \in SUBSET Entities : A = c.absent \ {s}
  BY <1>1 DEF F!CallType
<1>5. PICK d : d = [c EXCEPT !.absent = A]
  OBVIOUS
<1>6. /\ F!CallType(d) /\ d.stage = c.stage /\ d.chain = c.chain /\ d.current = c.current
      /\ d.superior = c.superior /\ d.todo = c.todo /\ d.anchor = c.anchor
      /\ d.absent = A /\ d.rekeyed = c.rekeyed
  BY <1>1, <1>5, AbsentSet
<1>7. resolution' = d
  BY <1>1, <1>4, <1>5 DEF F!Attest
<1>8. \A x \in d.absent : attested'[x] = {}
  BY <1>1, <1>3, <1>4, <1>6 DEF F!ClimbInv
<1>9. c.rekeyed \subseteq d.rekeyed /\ d.absent \subseteq c.absent
  BY <1>4, <1>6
<1> QED
  BY <1>1, <1>2, <1>3, <1>6, <1>7, <1>8, <1>9, WorldStep

\* or none any more,
LEMMA WithdrawKeeps ==
  ASSUME F!FederationInv, NEW s \in Entities, F!Withdraw(s)
  PROVE  F!FederationInv'
<1>1. PICK c : c = resolution /\ F!CallType(c) /\ F!ClimbInv(c) /\ c.stage \notin {"idle", "done"} /\ resolution' = c
  BY DEF F!FederationInv, F!Withdraw, F!MayChange
<1>2. F!TypeOK'
  BY DEF F!FederationInv, F!TypeOK, F!Withdraw
<1>3. setup' = setup /\ keys' = keys
  BY DEF F!Withdraw
<1>4. \A x \in c.absent : attested'[x] = {}
  <2>1. \A x \in c.absent : attested[x] = {} /\ x \in Entities
    BY <1>1 DEF F!ClimbInv, F!CallType
  <2> QED
    BY <2>1 DEF F!FederationInv, F!TypeOK, F!Withdraw
<1> QED
  BY <1>1, <1>2, <1>3, <1>4, WorldStep

\* and time passes.
LEMMA TickKeeps ==
  ASSUME F!FederationInv, F!Tick
  PROVE  F!FederationInv'
<1>1. PICK c : c = resolution /\ F!CallType(c) /\ F!ClimbInv(c) /\ c.stage \notin {"idle", "done"} /\ resolution' = c
  BY DEF F!FederationInv, F!Tick
<1>2. F!TypeOK' /\ setup' = setup /\ keys' = keys /\ attested' = attested
  BY DEF F!FederationInv, F!TypeOK, F!Tick, F!world
<1>3. \A x \in c.absent : attested'[x] = {}
  BY <1>1, <1>2 DEF F!ClimbInv
<1> QED
  BY <1>1, <1>2, <1>3, WorldStep

-----------------------------------------------------------------------------
(* The invariant *)

\* The initial states satisfy the invariant.
LEMMA FederationInit ==
  ASSUME F!EntityAssumption, F!SetupAssumption, F!Init PROVE F!FederationInv
<1>1. F!TypeOK
  BY DEF F!TypeOK, F!Init, F!EntityAssumption, F!SetupAssumption
<1>2. F!CallType(resolution) /\ resolution.stage = "idle"
  BY NoCallType DEF F!Init
<1>3. F!ClimbInv(resolution)
  BY <1>2 DEF F!ClimbInv
<1>4. F!ChainVouched
  BY <1>2 DEF F!ChainVouched, F!AnchorTrusted, F!AnchorVouches, F!SubjectAttested, F!AnchorVerifies,
              F!ExpiryBounded, F!Accepted
<1> QED
  BY <1>1, <1>2, <1>3, <1>4 DEF F!FederationInv

\* Every step keeps the invariant.
LEMMA FederationStep ==
  ASSUME F!EntityAssumption, F!SetupAssumption, F!PresentedAssumption, F!FederationInv, [F!Next]_F!vars
  PROVE  F!FederationInv'
<1>0. F!TypeOK
  BY DEF F!FederationInv
<1>1. CASE F!ResolveClient
  BY <1>0, <1>1, BeginKeeps DEF F!ResolveClient
<1>2. CASE F!ResolveEntity
  BY <1>0, <1>2, BeginKeeps DEF F!ResolveEntity
<1>3. CASE F!ExplicitRegister
  BY <1>0, <1>3, ExplicitRegisterKeeps
<1>4. CASE F!Step
  BY <1>4, ConfigureKeeps, ReachAnchorKeeps, NextSuperiorKeeps, AddStatementKeeps, FetchAnchorKeeps DEF F!Step
<1>5. ASSUME NEW e \in Entities, F!PublishKeys(e) \/ F!SwitchKey(e) \/ F!Attest(e) \/ F!Withdraw(e)
      PROVE  F!FederationInv'
  BY <1>5, RekeyKeeps, AttestKeeps, WithdrawKeeps
<1>6. CASE F!Tick
  BY <1>6, TickKeeps
<1>7. CASE UNCHANGED F!vars
  <2>1. F!TypeOK'
    BY <1>0, <1>7 DEF F!TypeOK, F!vars
  <2>2. F!CallType(resolution)' /\ F!ClimbInv(resolution)'
    BY <1>7 DEF F!FederationInv, F!vars, F!CallType, F!Shape, F!ClimbInv, F!Climbed, F!Vouched, F!AnchorIdentifier, F!Trusted
  <2>3. F!ChainVouched'
    BY <1>7 DEF F!FederationInv, F!vars, F!ChainVouched, F!AnchorTrusted, F!AnchorVouches, F!SubjectAttested,
                F!AnchorVerifies, F!ExpiryBounded, F!Accepted, F!Anchor, F!Statements
  <2> QED
    BY <2>1, <2>2, <2>3 DEF F!FederationInv
<1> QED
  BY <1>1, <1>2, <1>3, <1>4, <1>5, <1>6, <1>7 DEF F!Next

\* A chain that is accepted ends at a trust anchor that has itself made a
\* statement about the subject, the configuration of the subject is signed with
\* an attested key, and the answer outlives no statement it rests on, whatever
\* keys and attestations change between the fetches of TrustChainResolver and
\* whatever configuration is posted to /federation/register.
THEOREM ChainsVouched ==
  ASSUME F!EntityAssumption, F!SetupAssumption, F!PresentedAssumption
  PROVE  F!Spec => []F!ChainVouched
<1>1. F!Init => F!FederationInv
  BY FederationInit
<1>2. F!FederationInv /\ [F!Next]_F!vars => F!FederationInv'
  BY FederationStep
<1>3. F!FederationInv => F!ChainVouched
  BY DEF F!FederationInv
<1> QED
  BY <1>1, <1>2, <1>3, PTL DEF F!Spec
=============================================================================
