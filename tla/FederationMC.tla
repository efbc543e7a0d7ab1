---------------------------- MODULE FederationMC ----------------------------
(* Instance: a relying party, an intermediate, two anchors, the provider   *)
(* and an identifier whose URL serves the configuration of another entity. *)
EXTENDS Federation

MCEntities == {"rp", "int", "ta", "tb", "op", "old"}

Imposes(u) == [op |-> "value", uris |-> {u}]
Defaults(u) == [op |-> "default", uris |-> {u}]

Direct ==
  [anchors |-> {"ta"},
   hints |-> [rp |-> <<"ta">>, int |-> <<"ta">>, ta |-> <<>>, tb |-> <<>>, op |-> <<"ta">>, old |-> <<>>],
   serves |-> [rp |-> "rp", int |-> "int", ta |-> "ta", tb |-> "tb", op |-> "op", old |-> "ta"],
   attests |-> [rp |-> {}, int |-> {1}, ta |-> {1}, tb |-> {1}, op |-> {1}, old |-> {}],
   policy |-> [e \in MCEntities |-> NoPolicy],
   fetch |-> MCEntities,
   meta |-> [relying_party |-> TRUE, uris |-> {"own"}, keys |-> "jwks"]]

Hints(s, h) == [s EXCEPT !.hints = h @@ s.hints]

Indirect == Hints(Direct, [rp |-> <<"int">>])

MCSetups ==
  {Direct, Indirect,
   \* an intermediate and an anchor with policies of their own
   [Indirect EXCEPT !.policy["int"] = Imposes("int"), !.policy["ta"] = Imposes("ta")],
   [Indirect EXCEPT !.policy["int"] = Defaults("int"), !.policy["ta"] = Defaults("ta"),
                    !.meta.uris = Absent],
   [Indirect EXCEPT !.policy["int"] = [op |-> "other", uris |-> {"int"}], !.meta.uris = {}],
   [Direct EXCEPT !.meta.relying_party = FALSE], [Direct EXCEPT !.meta.keys = "none"],
   [Direct EXCEPT !.meta.keys = "jwks_uri"],
   \* superiors that name each other, or the subject
   Hints(Direct, [rp |-> <<"int">>, int |-> <<"rp", "tb">>, tb |-> <<"int">>]),
   \* two superiors, of which only one leads to the anchor; an old address
   Hints(Direct, [rp |-> <<"old", "tb", "ta">>]),
   Hints(Direct, [rp |-> <<"tb", "ta">>]),
   \* the intermediate has no fetch endpoint
   [Hints(Direct, [rp |-> <<"int", "ta">>]) EXCEPT !.fetch = {"ta"}],
   \* the anchor has withdrawn its statement, or attests a later key
   [Indirect EXCEPT !.attests["ta"] = {}], [Direct EXCEPT !.attests["ta"] = {2}],
   \* the provider is the superior
   Hints(Direct, [rp |-> <<"op">>]),
   \* no anchors are configured, or the subject is one
   [Hints(Direct, [rp |-> <<>>, op |-> <<>>]) EXCEPT !.anchors = {}],
   [Hints(Direct, [op |-> <<"rp">>]) EXCEPT !.anchors = {"rp"}]}

Old(k, ks, hints, audience) ==
  [media |-> "statement", audience |-> audience, statement |-> Statement("rp", "rp", k, ks, hints, NoPolicy, 2)]

MCPresented ==
  {Old(1, {1}, <<"ta">>, TRUE), Old(2, {2}, <<"ta">>, TRUE), Old(1, {2}, <<"ta">>, TRUE),
   Old(1, {1, 2}, <<"int">>, TRUE), Old(1, {1}, <<"ta">>, FALSE), Old(1, {1}, <<>>, TRUE),
   [Old(1, {1}, <<"ta">>, TRUE) EXCEPT !.media = "other"]}

=============================================================================
