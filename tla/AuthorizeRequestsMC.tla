------------------------ MODULE AuthorizeRequestsMC ------------------------
(* Instance: seven kinds of clients and the requests that tell them apart.  *)
EXTENDS AuthorizeRequests, Sequences

Rec(uri, profile, jarm) ==
  [is_active |-> TRUE, redirect_uris |-> {uri}, profile |-> profile, jarm |-> jarm,
   federated |-> FALSE, par_required |-> FALSE, material |-> TRUE, alg |-> ""]

MCClientIds == {"web", "old", "fap", "two", "off", "ent"}
MCEntities == {"ent"}

MCRegistered ==
  [web |-> [Rec("u_web", "none", TRUE) EXCEPT !.alg = "ES512"],
   old |-> [Rec("u_old", "none", FALSE) EXCEPT !.material = FALSE],
   fap |-> Rec("u_fap", "fapi1", TRUE),
   two |-> Rec("u_two", "fapi2", FALSE),
   off |-> [Rec("u_off", "none", FALSE) EXCEPT !.is_active = FALSE],
   ent |-> NoClient]

MCTrustChain == [ent |-> [Rec("u_ent", "none", FALSE) EXCEPT !.federated = TRUE]]

MCChanges(c) ==
  {[c EXCEPT !.is_active = FALSE], [c EXCEPT !.redirect_uris = {"u_new"}], [c EXCEPT !.jarm = FALSE],
   [c EXCEPT !.profile = IF @ = "fapi1" THEN "none" ELSE "fapi1"]}

MCRealmUris == [good |-> {"u_web"}, alien |-> {"u_else"}]

Ask(c, uri, types) ==
  [Blank EXCEPT !.client_id = c, !.redirect_uri = uri, !.response_type = types,
                !.scope = {"openid"}, !.nonce = "n"]

Plain(p) == [transport |-> p, document |-> NoDocument, by |-> "none", visits |-> {1}]

Uri(c) == "u_" \o c

AllTypes == (SUBSET {"code", "id_token", "token"}) \cup {{"foo"}}
AllModes == {"", "query", "fragment", "form_post", "jwt"}

\* Response types, modes, nonce and URI, for a client that can sign and one
\* that cannot.
Flows ==
  {Plain([Ask(c, uri, t) EXCEPT !.response_mode = m, !.nonce = n]) :
     c \in {"web"}, uri \in {"u_web", "u_else"}, t \in AllTypes, m \in AllModes, n \in {"", "n"}}
  \cup {Plain([Ask(c, Uri(c), t) EXCEPT !.response_mode = m]) :
     c \in {"old", "fap", "two", "off", "ent", "ghost"},
     t \in {{"code"}, {"code", "id_token"}, {"id_token", "token"}}, m \in AllModes}

Base == Ask("web", "u_web", {"code"})

\* One parameter out of order.
Forms ==
  {Plain(p) : p \in
    {[Base EXCEPT !.malformed = {f}] : f \in FormChecked}
    \cup {[Base EXCEPT !.code_challenge = c] : c \in {"plain", "md5"}}
    \cup {[Base EXCEPT !.scope = s, !.authorization_details = d] :
            s \in {{}, {"openid"}, {"other"}}, d \in {"", "ok", "bad"}}
    \cup {[Base EXCEPT !.resource = r] : r \in {{"api"}, {"else"}, {"#"}}}
    \cup {[Base EXCEPT !.scope = {"openid", "openid2"}, !.openid2_realm = r] :
            r \in {"", "good", "alien"}}
    \cup {[Base EXCEPT !.prompt = {"none"}, !.response_mode = m] : m \in AllModes}
    \cup {[Base EXCEPT !.prompt = {"none"}, !.scope = {}, !.authorization_details = "ok"]}}

Doc(c, alg) ==
  [NoDocument EXCEPT !.alg = alg, !.signer = c, !.iss = c, !.aud = TRUE,
     !.claims = [client_id |-> c, redirect_uri |-> Uri(c), scope |-> {"openid"},
                 nonce |-> "n", response_type |-> {"code", "id_token"}]]

FapDoc == [Doc("fap", "PS256") EXCEPT !.exp = 3, !.nbf = TRUE]
EntDoc == [Doc("ent", "RS256") EXCEPT !.exp = 3, !.jti = "j"]
WebDoc == Doc("web", "RS256")

Documents ==
  {WebDoc, [WebDoc EXCEPT !.signer = "fap"], [WebDoc EXCEPT !.alg = "HS256"],
   [WebDoc EXCEPT !.alg = "none"], [WebDoc EXCEPT !.alg = "none", !.signer = ""],
   [WebDoc EXCEPT !.exp = 2], [WebDoc EXCEPT !.wrap = "ok"], [WebDoc EXCEPT !.wrap = "bad"],
   [NoDocument EXCEPT !.alg = ""],
   FapDoc, [FapDoc EXCEPT !.nested = TRUE], [FapDoc EXCEPT !.alg = "RS256"],
   [FapDoc EXCEPT !.long = TRUE], [FapDoc EXCEPT !.claims = [f \in {"scope"} |-> {"openid"}]],
   EntDoc, [EntDoc EXCEPT !.sub = TRUE], [EntDoc EXCEPT !.jti = ""]}

\* The query around the object: complete, the client only, or nothing.
Around(doc) ==
  {Ask(c, uri, {"code", "id_token"}) : c \in {doc.iss} \cup {"web"}, uri \in {Uri(doc.iss), "u_else"}}
  \cup {[Blank EXCEPT !.client_id = doc.iss], Blank,
        [Ask(doc.iss, Uri(doc.iss), {"code"}) EXCEPT !.response_mode = "form_post",
                                                   !.resource = {"api"}],
        [Ask(doc.iss, Uri(doc.iss), {"code"}) EXCEPT !.response_mode = "fragment"]}

Objects ==
  {[transport |-> p, document |-> d, by |-> by, visits |-> {1}] :
     <<p, d, by>> \in UNION {Around(d) \X {d} \X {"value", "reference", "both"} :
                               d \in Documents \ {EntDoc}}}
  \cup {[transport |-> p, document |-> EntDoc, by |-> "value", visits |-> Visits] :
     p \in {Ask("ent", "u_ent", {"code"}), [Blank EXCEPT !.client_id = "ent"]}}

MCCases == Flows \cup Forms \cup Objects

=============================================================================
