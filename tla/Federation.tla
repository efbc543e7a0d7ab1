----------------------------- MODULE Federation -----------------------------
(***************************************************************************)
(* OpenID Federation: how the provider resolves the trust chain of a       *)
(* relying party (application/federation.py), what it derives from it      *)
(* (domain/federation.py), and the statements that it publishes itself.    *)
(*                                                                         *)
(* A resolution is a sequence of HTTP fetches.  Between any two of them    *)
(* the other entities may change their keys, and a superior may attest     *)
(* other keys for the subject or none any more; any fetch may fail.        *)
(* A key is a number; the owner of the key that signs a document is its    *)
(* issuer, the keys in a document belong to its subject.                   *)
(***************************************************************************)
EXTENDS Integers, Sequences, SequencesExt

CONSTANTS
  Entities,     \* entity identifiers
  Subject,      \* the relying party
  Asked,        \* trust_anchor parameters of /federation/resolve
  Provider,     \* the OP itself, an entity like the others
  Keys,         \* key numbers
  Setups,       \* how the federation is laid out: see SetupAssumption
  Presented,    \* configurations of the subject that may be posted to /register
  NoDocument,
  Absent,       \* a metadata parameter that is not there
  Ttl,          \* federation_statement_ttl_seconds
  MaxTime,      \* bound: the clock stops here
  MaxChanges    \* bound: changes of the other entities

VARIABLES
  now,
  setup,     \* the layout, chosen once
  keys,      \* the keys each entity publishes
  signer,    \* the key each entity signs with
  attested,  \* the keys each superior attests for the subject; {}: none
  changes,   \* how many changes there have been
  call       \* the resolution; it keeps nothing for the next one

vars == <<now, setup, keys, signer, attested, changes, call>>
world == <<setup, keys, signer, attested, changes>>

ASSUME EntityAssumption ==
  Subject \in Entities /\ Provider \in Entities /\ 1 \in Keys /\ Ttl \in Nat
ASSUME SetupAssumption ==
  \A s \in Setups :
    /\ s.anchors \subseteq Entities             \* federation_trust_anchors
    /\ s.hints \in [Entities -> Seq(Entities)]  \* authority_hints
    /\ s.serves \in [Entities -> Entities]      \* whose configuration is served
    /\ s.attests \in [Entities -> SUBSET Keys]  \* keys attested at the start
    /\ DOMAIN s.policy = Entities               \* metadata_policy of statements
    /\ s.fetch \subseteq Entities               \* have a federation_fetch_endpoint
    /\ s.hints[Provider] = SetToSeq(s.anchors)

-----------------------------------------------------------------------------
(* Statements *)

NoPolicy == [op |-> "none", uris |-> {}]

\* EntityStatement
Statement(iss, sub, k, ks, hints, policy, exp) ==
  [iss |-> iss, sub |-> sub, signer |-> k, keys |-> ks, hints |-> hints,
   policy |-> policy, exp |-> exp]

Policies == {NoPolicy} \cup UNION {{s.policy[e] : e \in Entities} : s \in Setups}
Document ==
  [iss : Entities, sub : Entities, signer : Keys, keys : SUBSET Keys, hints : Seq(Entities),
   policy : Policies, exp : Int]

\* What is posted is a statement, whoever signed it and whatever it says.
ASSUME PresentedAssumption == \A p \in Presented : p.statement \in Document

\* The entity configuration that e publishes.  That of the provider is
\* entity_statement: its keys, and its trust anchors as authority_hints.
EntityConfiguration(e, exp) ==
  Statement(e, e, signer[e], keys[e], setup.hints[e], NoPolicy, exp)

\* subordinate_statement: the provider answers for the clients of its
\* registry that are entities and have keys; so do the others.
SubordinateStatement(s, k, exp) ==
  Statement(s, Subject, k, attested[s], <<>>, setup.policy[s], exp)

\* When a document that somebody serves expires: at once or after the ttl.
Expiries(e) == IF e = Provider THEN {now + Ttl} ELSE {now, now + Ttl}

\* The key of a statement about the subject: another superior may serve one
\* that it signed before or after a change of its keys.
Stamps(s) == IF s = Provider THEN {signer[s]} ELSE Keys

\* What the fetch endpoint of a superior serves.
ServedBy(s) ==
  IF s \in setup.fetch /\ attested[s] # {}
  THEN {SubordinateStatement(s, k, exp) : k \in Stamps(s), exp \in Expiries(s)} ELSE {}

\* verify_entity_statement
VerifyEntityStatement(doc, ks, iss, sub) ==
  /\ doc.signer \in ks /\ now < doc.exp
  /\ doc.iss = iss /\ doc.sub = sub

\* HTTPFederationEntityFetcher: any fetch may bring nothing.
Unreachable == {NoDocument}

\* parse_entity_statement: a document that does not parse is as good as none.
ParseEntityStatement(docs) == docs \cup Unreachable

\* _fetch_configuration: verified with the keys that it carries itself.
FetchConfiguration(e) ==
  LET served == {EntityConfiguration(setup.serves[e], exp) : exp \in Expiries(e)}
  IN ParseEntityStatement({d \in served : VerifyEntityStatement(d, d.keys, e, e)})

\* _fetch_subordinate_statement: verified with the keys of the superior.
FetchSubordinateStatement(superior) ==
  ParseEntityStatement({d \in ServedBy(superior.iss) :
                          VerifyEntityStatement(d, superior.keys, superior.iss, Subject)})

-----------------------------------------------------------------------------
(* From a chain to a client *)

\* _apply_policy_operator: of the operators only value and default act.
ApplyPolicyOperator(policy, uris) ==
  CASE policy.op = "value" -> policy.uris
    [] policy.op = "default" /\ uris = Absent -> policy.uris
    [] OTHER -> uris

\* Faulty variant: the policies are applied from the anchor down.
ResolvedTopDown(chain, uris) ==
  FoldRight(LAMBDA d, u : ApplyPolicyOperator(d.policy, u), Tail(chain), uris)

\* resolved_metadata: the policies of all statements but the first, in order.
ResolvedMetadata(chain, uris) ==
  FoldLeft(LAMBDA u, d : ApplyPolicyOperator(d.policy, u), uris, Tail(chain))

\* _client_keys: inline or by reference
ClientKeys(meta) == meta.keys \in {"jwks", "jwks_uri"}

\* derive_client
DeriveClient(meta, chain) ==
  LET uris == ResolvedMetadata(chain, meta.uris)
  IN IF meta.relying_party /\ uris \notin {Absent, {}} /\ ClientKeys(meta) THEN uris ELSE Absent

\* _chain_expiration
ChainExpiration(chain) ==
  CHOOSE t \in {chain[i].exp : i \in DOMAIN chain} : \A i \in DOMAIN chain : t <= chain[i].exp

-----------------------------------------------------------------------------
(* A resolution *)

NoCall ==
  [stage |-> "idle", kind |-> "", anchor |-> "", chain |-> <<>>, current |-> NoDocument,
   superior |-> NoDocument, todo |-> <<>>, seen |-> {}, absent |-> {}, rekeyed |-> {},
   result |-> "", uris |-> Absent, exp |-> 0, at |-> 0]

Init ==
  /\ now = 0
  /\ setup \in Setups
  /\ keys = [e \in Entities |-> {1}]
  /\ signer = [e \in Entities |-> 1]
  /\ attested = setup.attests
  /\ changes = 0
  /\ call = NoCall

\* absent, rekeyed: history of what the superiors did since the start.
Begun(kind, anchor) ==
  [NoCall EXCEPT !.kind = kind, !.anchor = anchor,
                 !.absent = {e \in Entities : attested[e] = {}}]

Done(c, result) == [c EXCEPT !.stage = "done", !.result = result, !.at = now]

\* The chain starts with the configuration of the subject.
Climbing(c, doc) ==
  [c EXCEPT !.stage = "climb", !.chain = <<doc>>, !.current = doc, !.todo = doc.hints,
            !.seen = {Subject}]

\* TrustChainClientResolver.resolve: a client_id that is not registered.
ResolveClient ==
  /\ call.stage = "idle"
  /\ call' = [Begun("automatic", "") EXCEPT !.stage = "configure"]
  /\ UNCHANGED <<now, world>>

\* GET /federation/resolve
ResolveEntity ==
  /\ call.stage = "idle"
  /\ \E a \in Asked : call' = [Begun("resolve", a) EXCEPT !.stage = "configure"]
  /\ UNCHANGED <<now, world>>

\* _registration_body: a configuration, or a chain that begins with one.
RegistrationBody(doc) == doc.media \in {"statement", "chain"}

\* _validated_registration_statement
ValidatedRegistrationStatement(doc) ==
  /\ VerifyEntityStatement(doc.statement, doc.statement.keys, Subject, Subject)
  /\ doc.audience

\* POST /federation/register
ExplicitRegister ==
  /\ call.stage = "idle"
  /\ \E doc \in Presented :
       LET c == Begun("explicit", "")
       IN call' = IF ~RegistrationBody(doc) THEN Done(c, "invalid_request")
                  ELSE IF ~ValidatedRegistrationStatement(doc) THEN Done(c, "invalid_client")
                  ELSE IF doc.statement.hints = <<>> THEN Done(c, "invalid_trust_chain")
                  ELSE Climbing(c, doc.statement)
  /\ UNCHANGED <<now, world>>

\* resolve_trust_chain
Configure ==
  /\ call.stage = "configure"
  /\ \E doc \in FetchConfiguration(Subject) :
       call' = IF doc = NoDocument THEN Done(call, "none") ELSE Climbing(call, doc)
  /\ UNCHANGED <<now, world>>

\* _is_trust_anchor
IsTrustAnchor(doc, anchor) ==
  /\ doc.iss = doc.sub
  /\ IF anchor # "" THEN doc.iss = anchor
     ELSE doc.iss \in setup.anchors \/ doc.hints = <<>>

\* An empty list of trust anchors admits any.
Trusted(anchor) == setup.anchors = {} \/ anchor \in setup.anchors

AnchorIdentifier(c) == IF c.anchor # "" THEN c.anchor ELSE c.current.iss

ReachAnchor ==
  /\ call.stage = "climb" /\ IsTrustAnchor(call.current, call.anchor)
  /\ call' = IF Trusted(AnchorIdentifier(call)) THEN [call EXCEPT !.stage = "anchor"]
             ELSE Done(call, "none")
  /\ UNCHANGED <<now, world>>

\* The hints are tried in order, those of entities met before left out.
NewHint(i) ==
  call.todo[i] \notin call.seen /\ \A j \in 1 .. i - 1 : call.todo[j] \in call.seen

\* Faulty variant: a superior that cannot be fetched starts it all again.
NextSuperiorRetries ==
  /\ call.stage = "climb" /\ ~IsTrustAnchor(call.current, call.anchor)
  /\ \/ /\ \A i \in DOMAIN call.todo : call.todo[i] \in call.seen
        /\ call' = Done(call, "none")
     \/ \E i \in DOMAIN call.todo : \E doc \in FetchConfiguration(call.todo[i]) :
          /\ NewHint(i)
          /\ call' = IF doc = NoDocument THEN [call EXCEPT !.stage = "configure"]
                     ELSE [call EXCEPT !.stage = "statement", !.superior = doc,
                                       !.seen = @ \cup {call.todo[i]}]
  /\ UNCHANGED <<now, world>>

\* _next_superior: the first hint that is new and can be fetched.
NextSuperior ==
  /\ call.stage = "climb" /\ ~IsTrustAnchor(call.current, call.anchor)
  /\ \/ /\ \A i \in DOMAIN call.todo : call.todo[i] \in call.seen
        /\ call' = Done(call, "none")
     \/ \E i \in DOMAIN call.todo : \E doc \in FetchConfiguration(call.todo[i]) :
          /\ NewHint(i)
          /\ call' = IF doc = NoDocument
                     THEN [call EXCEPT !.todo = SubSeq(@, i + 1, Len(call.todo))]
                     ELSE [call EXCEPT !.stage = "statement", !.superior = doc,
                                       !.seen = @ \cup {call.todo[i]}]
  /\ UNCHANGED <<now, world>>

\* The statement of the superior about the subject joins the chain.
AddStatement ==
  /\ call.stage = "statement"
  /\ \E doc \in FetchSubordinateStatement(call.superior) :
       call' = IF doc = NoDocument THEN Done(call, "none")
               ELSE [call EXCEPT !.stage = "climb", !.current = call.superior,
                                 !.todo = call.superior.hints, !.chain = Append(@, doc)]
  /\ UNCHANGED <<now, world>>

\* Faulty variant: the signature is tested before the resolution only.
AttestedAnyway(chain) == TRUE

\* _subject_attested_keys: the configuration of the subject is verified once
\* more, with the keys that its first superior attests.
SubjectAttestedKeys(chain) ==
  Len(chain) >= 2 => VerifyEntityStatement(chain[1], chain[2].keys, Subject, Subject)

\* _registration_claims and the claims of resolve_entity.
Response(c, uris) ==
  [Done(c, "chain") EXCEPT !.uris = uris, !.exp = ChainExpiration(c.chain)]

\* explicit_register and the resolver of the client registry derive a client;
\* resolve_entity does not.
Answered(c) ==
  LET uris == DeriveClient(setup.meta, c.chain)
  IN IF c.kind # "resolve" /\ uris = Absent
     THEN Done(c, IF c.kind = "explicit" THEN "invalid_client_metadata" ELSE "none")
     ELSE Response(c, uris)

\* The configuration of the anchor is fetched again and ends the chain.
FetchAnchor ==
  /\ call.stage = "anchor"
  /\ \E doc \in FetchConfiguration(AnchorIdentifier(call)) :
       call' = IF doc = NoDocument \/ ~SubjectAttestedKeys(call.chain)
               THEN Done(call, "none")
               ELSE Answered([call EXCEPT !.chain = Append(@, doc)])
  /\ UNCHANGED <<now, world>>

-----------------------------------------------------------------------------
(* The other entities *)

\* Bound: only entities that the resolution may meet change, and only while
\* it lasts; what they did before is part of the layout.
Named(e) == {setup.hints[e][i] : i \in DOMAIN setup.hints[e]}
Near == {Subject} \cup Named(Subject) \cup UNION {Named(e) : e \in Named(Subject)}

MayChange(e) ==
  /\ changes < MaxChanges /\ changes' = changes + 1
  /\ e \in Near /\ call.stage \notin {"idle", "done"}

Rekeyed(e) == call' = [call EXCEPT !.rekeyed = @ \cup {e}]

\* An entity publishes other keys, or signs with another key; not always in
\* the right order.  The federation keys of the provider do not rotate.
PublishKeys(e) ==
  /\ e # Provider /\ MayChange(e)
  /\ \E ks \in (SUBSET Keys) \ {{}, keys[e]} : keys' = [keys EXCEPT ![e] = ks]
  /\ Rekeyed(e)
  /\ UNCHANGED <<now, setup, signer, attested>>

SwitchKey(e) ==
  /\ e # Provider /\ MayChange(e)
  /\ \E k \in Keys \ {signer[e]} : signer' = [signer EXCEPT ![e] = k]
  /\ Rekeyed(e)
  /\ UNCHANGED <<now, setup, keys, attested>>

\* A superior attests the keys that the subject has now.  For the provider
\* this is a registration or an update of the client.
Attest(s) ==
  /\ s # Subject /\ MayChange(s)
  /\ attested[s] # keys[Subject]
  /\ attested' = [attested EXCEPT ![s] = keys[Subject]]
  /\ call' = [call EXCEPT !.absent = @ \ {s}]
  /\ UNCHANGED <<now, setup, keys, signer>>

\* A superior no longer knows the subject.
Withdraw(s) ==
  /\ attested[s] # {} /\ MayChange(s)
  /\ attested' = [attested EXCEPT ![s] = {}]
  /\ UNCHANGED <<now, setup, keys, signer, call>>

Tick ==
  /\ now < MaxTime /\ now' = now + 1
  /\ call.stage \notin {"idle", "done"}
  /\ UNCHANGED <<world, call>>

Step == Configure \/ ReachAnchor \/ NextSuperior \/ AddStatement \/ FetchAnchor

Next ==
  \/ ResolveClient \/ ResolveEntity \/ ExplicitRegister
  \/ Step
  \/ \E e \in Entities : PublishKeys(e) \/ SwitchKey(e) \/ Attest(e) \/ Withdraw(e)
  \/ Tick

\* Every fetch has a timeout of ten seconds (_read_statement).
Spec == Init /\ [][Next]_vars /\ WF_vars(Step)

-----------------------------------------------------------------------------
(* Properties *)

Accepted == call.stage = "done" /\ call.result = "chain"
Anchor == call.chain[Len(call.chain)]
Statements == {call.chain[i] : i \in 2 .. Len(call.chain) - 1}

\* A chain ends at an anchor of federation_trust_anchors, when there are any,
\* and at the anchor that /federation/resolve was asked for.
AnchorTrusted ==
  Accepted => /\ setup.anchors # {} => Anchor.iss \in setup.anchors
              /\ call.anchor # "" => Anchor.iss = call.anchor

\* Unless the subject is the anchor itself, the anchor and the superior that
\* the subject names have each made a statement about the subject, and none
\* that contributes had withdrawn it before the resolution began: nothing is
\* kept from one resolution to the next.
AnchorVouches ==
  (Accepted /\ Anchor.iss # Subject)
    => /\ \E d \in Statements : d.iss = Anchor.iss
       /\ \A d \in Statements : d.sub = Subject /\ d.iss \notin call.absent
       /\ \E i \in DOMAIN call.chain[1].hints : call.chain[1].hints[i] = call.chain[2].iss

\* The configuration of the subject, from which the client is made, is signed
\* by a key that its first superior attests, also when the subject changed
\* its keys during the resolution or presented an old configuration
\* (_subject_attested_keys).
SubjectAttested ==
  (Accepted /\ Anchor.iss # Subject) => call.chain[1].signer \in call.chain[2].keys

\* The chain that is handed out verifies: the statement of the anchor with the
\* keys in the configuration of the anchor at its end, although that is
\* fetched again, unless the anchor changed its keys meanwhile.
AnchorVerifies ==
  (Accepted /\ Anchor.iss # Subject /\ Anchor.iss \notin call.rekeyed)
    => \A d \in Statements : d.iss = Anchor.iss => d.signer \in Anchor.keys

\* The redirect URIs of a federated client are those that the highest policy
\* with a value imposes; without one those of the subject, or else the lowest
\* default (resolved_metadata).
PolicyWins ==
  (Accepted /\ call.kind # "resolve")
    => LET Having(op) == {i \in 2 .. Len(call.chain) : call.chain[i].policy.op = op}
       IN IF Having("value") # {}
          THEN \E i \in Having("value") :
                 /\ \A j \in Having("value") : j <= i
                 /\ call.uris = call.chain[i].policy.uris
          ELSE IF setup.meta.uris # Absent THEN call.uris = setup.meta.uris
          ELSE \E i \in Having("default") :
                 /\ \A j \in Having("default") : i <= j
                 /\ call.uris = call.chain[i].policy.uris

\* An answer is valid no longer than any statement it rests on, and the
\* configuration of the subject had not expired when the answer was made.
ExpiryBounded ==
  Accepted => /\ \A i \in DOMAIN call.chain : call.exp <= call.chain[i].exp
              /\ Anchor.iss # Subject => call.at < call.chain[1].exp

\* A chain that is accepted is vouched for from end to end, whatever the other
\* entities change while it is resolved (TrustChainResolver).
ChainVouched ==
  AnchorTrusted /\ AnchorVouches /\ SubjectAttested /\ AnchorVerifies /\ ExpiryBounded

\* A resolution ends, also where entities name each other as superiors.
ResolutionEnds == call.stage = "configure" ~> call.stage = "done"

-----------------------------------------------------------------------------
(* The inductive strengthening of ChainVouched *)

Stages == {"idle", "configure", "climb", "statement", "anchor", "done"}

\* A resolution is a record with these fields.
Shape(c) ==
  c = [stage |-> c.stage, kind |-> c.kind, anchor |-> c.anchor, chain |-> c.chain,
       current |-> c.current, superior |-> c.superior, todo |-> c.todo, seen |-> c.seen,
       absent |-> c.absent, rekeyed |-> c.rekeyed, result |-> c.result, uris |-> c.uris,
       exp |-> c.exp, at |-> c.at]

TypeOK ==
  /\ now \in Nat /\ setup \in Setups
  /\ keys \in [Entities -> SUBSET Keys] /\ signer \in [Entities -> Keys]
  /\ attested \in [Entities -> SUBSET Keys]

CallType(c) ==
  /\ Shape(c) /\ c.stage \in Stages
  /\ c.chain \in Seq(Document) /\ c.todo \in Seq(Entities)
  /\ c.absent \subseteq Entities /\ c.rekeyed \subseteq Entities

Names(hints, e) == \E i \in DOMAIN hints : hints[i] = e

\* Some statement of the chain expires first.
Ends(chain) == \E i \in DOMAIN chain : \A j \in DOMAIN chain : chain[i].exp <= chain[j].exp

\* A statement about the subject, signed with a key of its issuer.
Vouched(c, d) ==
  /\ d.sub = Subject /\ d.iss \notin c.absent
  /\ d.iss \notin c.rekeyed => d.signer \in keys[d.iss]

\* The chain so far: from the configuration of the subject to the superior
\* that was reached.
Climbed(c) ==
  /\ c.chain # <<>> /\ Ends(c.chain)
  /\ c.chain[1].iss = Subject /\ c.chain[1].sub = Subject
  /\ c.current \in Document
  /\ IF Len(c.chain) = 1 THEN c.current = c.chain[1]
     ELSE /\ c.current.iss = c.chain[Len(c.chain)].iss
          /\ Names(c.chain[1].hints, c.chain[2].iss)
  /\ \A i \in 2 .. Len(c.chain) : Vouched(c, c.chain[i])

ClimbInv(c) ==
  /\ c.stage \notin {"idle", "done"} => \A e \in c.absent : attested[e] = {}
  /\ c.stage \in {"climb", "statement", "anchor"} => Climbed(c)
  /\ c.stage = "climb" /\ Len(c.chain) = 1 =>
       \A i \in DOMAIN c.todo : Names(c.chain[1].hints, c.todo[i])
  /\ c.stage = "statement" =>
       /\ c.superior \in Document
       /\ c.superior.iss \notin c.rekeyed => c.superior.keys = keys[c.superior.iss]
       /\ Len(c.chain) = 1 => Names(c.chain[1].hints, c.superior.iss)
  /\ c.stage = "anchor" => c.current.iss = AnchorIdentifier(c) /\ Trusted(AnchorIdentifier(c))

FederationInv == TypeOK /\ CallType(call) /\ ClimbInv(call) /\ ChainVouched
=============================================================================
