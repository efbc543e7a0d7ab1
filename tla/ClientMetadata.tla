--------------------------- MODULE ClientMetadata ---------------------------
(***************************************************************************)
(* What POST and PUT /register accept: the parsers of a body, in their     *)
(* order, and the checks on the metadata they return                       *)
(* (application/registration.py, domain/key_validation.py).                *)
(*                                                                         *)
(* A body gives each member a shape: absent, the empty string, a value     *)
(* its parser takes, or one it refuses.  The values that the checks and    *)
(* the credentials depend on are fields of the metadata.                   *)
(***************************************************************************)
EXTENDS Integers, Sequences, FiniteSets, SequencesExt

CONSTANTS
  Jwks,             \* the keys clients may embed
  AllowFullGrants,  \* dcr_allow_full_grants
  CipherAvailable,  \* a SecretCipher is configured
  SubjectSeed,      \* subject_pairwise_seed is configured
  SectorFetcher     \* a fetcher of sector documents is configured

\* A JSON web key. use "any" and kid 0 stand for absent members; alg tells a key
\* whose alg is one of RSA-OAEP* from the others, with an alg for signatures or none.
Jwk == [kty: {"RSA", "EC", "oct"}, use: {"sig", "enc", "any"}, alg: {"jws", "oaep"},
        strong: BOOLEAN, kid: Nat]
NoKid == 0

ASSUME MetadataAssumption ==
  /\ Jwks \subseteq Jwk
  /\ {AllowFullGrants, CipherAvailable, SubjectSeed, SectorFetcher} \subseteq BOOLEAN

-----------------------------------------------------------------------------
(* Parsers *)

Shapes == {"absent", "empty", "good", "bad"}

\* The members that _parse_metadata reads before the extras.
LeadingMembers ==
  <<"grant_types", "redirect_uris", "post_logout_redirect_uris", "web_origins",
    "subject_type", "sector_identifier_uri", "userinfo_signed_response_alg">>

\* The members of _parse_metadata_extras.
ExtraMembers ==
  <<"scope", "token_endpoint_auth_method", "grant_types", "response_types",
    "client_secret", "require_pushed_authorization_requests", "require_consent",
    "jwks_uri", "jwks", "tls_client_auth_subject_dn", "tls_client_certificate",
    "id_token_signed_response_alg", "id_token_encrypted_response_alg",
    "id_token_encrypted_response_enc", "frontchannel_logout_uri",
    "frontchannel_logout_session_required", "backchannel_logout_uri",
    "backchannel_logout_session_required", "dpop_bound_access_tokens",
    "tls_client_certificate_bound_access_tokens",
    "backchannel_token_delivery_mode", "backchannel_client_notification_endpoint",
    "backchannel_authentication_request_signing_alg",
    "backchannel_user_code_parameter">>

ParseOrder == LeadingMembers \o ExtraMembers \o <<"fapi_enabled", "fapi2_enabled">>

\* Booleans: only true and false are values.
FlagMembers ==
  {"require_pushed_authorization_requests", "require_consent",
   "dpop_bound_access_tokens", "tls_client_certificate_bound_access_tokens",
   "frontchannel_logout_session_required", "backchannel_logout_session_required",
   "backchannel_user_code_parameter", "fapi_enabled", "fapi2_enabled"}

\* Lists of strings.
ListMembers ==
  {"grant_types", "response_types", "redirect_uris", "post_logout_redirect_uris",
   "web_origins"}

\* Names out of a fixed set, where the empty string means the default.
NameMembers ==
  {"userinfo_signed_response_alg", "id_token_signed_response_alg",
   "id_token_encrypted_response_alg", "id_token_encrypted_response_enc", "scope"}

\* What CIBA, the subject type, logout and the keys of a client add, with the
\* empty string for none.
CibaMembers ==
  {"backchannel_token_delivery_mode", "backchannel_client_notification_endpoint",
   "backchannel_authentication_request_signing_alg"}
SubjectMembers == {"subject_type", "sector_identifier_uri"}
LogoutMembers == {"frontchannel_logout_uri", "backchannel_logout_uri"}
MaterialMembers == {"jwks_uri", "tls_client_auth_subject_dn", "tls_client_certificate"}

\* Members of other types, which have no empty value.
OtherMembers == {"token_endpoint_auth_method", "client_secret", "jwks"}

Members ==
  FlagMembers \cup ListMembers \cup NameMembers \cup CibaMembers \cup SubjectMembers
  \cup LogoutMembers \cup MaterialMembers \cup OtherMembers

ASSUME EveryMemberParsed == Members = ToSet(ParseOrder)

\* _uses_redirect_flows, of the grant types or the lack of them.
UsesRedirectFlows(m) ==
  m.body["grant_types"] = "absent" \/ m.grants \cap {"authorization_code", "implicit"} # {}

\* A parser refuses the shape of its member.
Refused(m, member) ==
  \/ m.body[member] = "bad"
  \/ m.body[member] = "empty" /\ member \in FlagMembers \cup ListMembers \cup OtherMembers
  \/ member = "redirect_uris" /\ m.body[member] = "absent" /\ UsesRedirectFlows(m)

\* _parse_metadata: the member whose error is returned, or "".
ParseError(m) ==
  LET refused == SelectSeq(ParseOrder, LAMBDA member : Refused(m, member))
  IN IF refused = <<>> THEN "" ELSE Head(refused)

-----------------------------------------------------------------------------
(* Embedded keys *)

\* validate_client_jwks: no key has a structural problem.
ValidClientJwks(keys) == \A k \in keys : k.kty \in {"RSA", "EC"}

UsableForSigning(keys) == {k \in keys : k.use # "enc"}

RequireSigningKey(keys) == \E k \in UsableForSigning(keys) : k.kty \in {"RSA", "EC"}

\* A key of at least 2048 bits is strong.
RequireEncryptionRsaKey(keys) == \E k \in keys : k.kty = "RSA" /\ k.use # "sig" /\ k.strong

-----------------------------------------------------------------------------
(* Checks on what was parsed *)

TlsMethods == {"tls_client_auth", "self_signed_tls_client_auth"}
KeylessMethods == {"none", "private_key_jwt"} \cup TlsMethods
SecretMethods == {"client_secret_basic", "client_secret_post", "client_secret_jwt"}
AuthMethods == KeylessMethods \cup SecretMethods

\* signing: the server's algorithm, another asymmetric one, or HS*.
\* encryption: none, RSA-OAEP*, symmetric, or an enc without an alg.
\* sector: what the sector document turns out to be.
Metadata ==
  [body: [Members -> Shapes], grants: SUBSET {"authorization_code", "implicit", "ciba", "extended"},
   hosts: 0 .. 2, method: AuthMethods, jwks: SUBSET Jwks, jwks_uri: BOOLEAN,
   tls: {"none", "dn", "certificate"}, signing: {"asymmetric", "symmetric"},
   encryption: {"none", "rsa", "symmetric", "enc_only"}, fapi: SUBSET {"fapi1", "fapi2"},
   subject_type: {"public", "pairwise", "ephemeral"},
   sector: {"none", "covers", "misses", "unreachable"}]

\* _validate_method_material
MethodMaterial(m) ==
  /\ m.method = "client_secret_jwt" => CipherAvailable
  /\ m.method = "private_key_jwt" => m.jwks # {} \/ m.jwks_uri
  /\ m.method \in TlsMethods => m.tls # "none"

\* _validate_grant_profile
GrantProfile(m) ==
  "extended" \in m.grants =>
    AllowFullGrants /\ m.method \notin {"none", "client_secret_post"}

\* _validate_fapi_profile
FapiProfile(m) ==
  m.fapi # {} =>
    /\ Cardinality(m.fapi) = 1
    /\ m.method \in {"private_key_jwt", "client_secret_jwt"} \cup TlsMethods

\* _validate_jwks_usage
JwksUsage(m) ==
  m.method = "private_key_jwt" /\ m.jwks # {} /\ ~m.jwks_uri => RequireSigningKey(m.jwks)

\* _validate_signing_material
SigningMaterial(m) ==
  m.signing = "symmetric" => m.method \notin KeylessMethods /\ CipherAvailable

\* _validate_encryption_material
EncryptionMaterial(m) ==
  CASE m.encryption = "none" -> TRUE
    [] m.encryption = "enc_only" -> FALSE
    [] m.encryption = "rsa" -> RequireEncryptionRsaKey(m.jwks)
    [] m.encryption = "symmetric" -> m.method \notin KeylessMethods /\ CipherAvailable

\* _validate_subject_metadata, _validate_sector
SubjectMetadata(m) ==
  /\ m.subject_type # "public" => SubjectSeed
  /\ m.subject_type = "pairwise" =>
       IF m.sector = "none" THEN m.hosts = 1
       ELSE SectorFetcher /\ m.sector = "covers"

\* _parse_metadata and _validate_new_metadata
Acceptable(m) ==
  /\ ParseError(m) = ""
  /\ ValidClientJwks(m.jwks)
  /\ Cardinality(m.fapi) < 2
  /\ MethodMaterial(m) /\ GrantProfile(m) /\ FapiProfile(m) /\ JwksUsage(m)
  /\ SigningMaterial(m) /\ EncryptionMaterial(m) /\ SubjectMetadata(m)
=============================================================================
