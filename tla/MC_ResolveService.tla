--------------------------- MODULE MC_ResolveService ---------------------------
(* Instances of ResolveService.  Keys "id:a" and "id:b" have the prefix    *)
(* "id:"; "b" has no valid prefix.  Token "legacy" is no capability's.     *)
EXTENDS ResolveService, TLC

MCPrefixes ==
    [k \in {"id:a", "id:b", "b"} |-> IF k = "b" THEN {} ELSE {"id:"}]

Bearer(token) == <<[scheme |-> "bearer", token |-> token]>>

Input(headers, body, key) == [headers |-> headers, body |-> body, key |-> key]

(* Two callers with a capability each, a stalled body, an invalid          *)
(* selector, two header values at once and the legacy token.               *)
MCInputs ==
    {Input(Bearer("t1"), "json", "id:a"),
     Input(Bearer("t2"), "json", "id:a"),
     Input(Bearer("t1"), "json", "b"),
     Input(Bearer("t2"), "stalled", "id:b"),
     Input(Bearer("t1") \o Bearer("t2"), "malformed", "id:a"),
     Input(Bearer("legacy"), "json", "id:b"),
     Input(<<>>, "unsupported_media_type", "id:a")}

(* For liveness: an answer, a stalled body and a wrong one. *)
MCFewInputs ==
    {Input(Bearer("t1"), "json", "id:a"),
     Input(Bearer("t2"), "stalled", "id:b"),
     Input(Bearer("legacy"), "too_large", "b")}

MCSelectorPolicies ==
    {AllowAll,
     [keys |-> {"id:a"}, prefixes |-> {}],
     [keys |-> {}, prefixes |-> {"id:"}]}

Cap(name, tokens, keys, prefixes) ==
    [name |-> name, tokens |-> tokens,
     allowed_keys |-> keys, allowed_key_prefixes |-> prefixes]

Raw(version, caps) == [version |-> version, capabilities |-> caps]

MCRawPolicies ==
    {Raw(1, <<Cap("one", <<"t1">>, {"id:a"}, {}), Cap("two", <<"t2">>, {"id:b"}, {})>>),
     Raw(1, <<Cap("two", <<"t2", "t3">>, {}, {"id:"})>>),
     Raw(1, <<Cap("one", <<"t1", "t2">>, {"id:b"}, {})>>),
     \* invalid: a shared token, a repeated name, a short token, no entry
     Raw(1, <<Cap("one", <<"t1">>, {"id:a"}, {}), Cap("two", <<"t1">>, {"id:b"}, {})>>),
     Raw(1, <<Cap("one", <<"t1">>, {"id:a"}, {}), Cap("one", <<"t2">>, {"id:b"}, {})>>),
     Raw(1, <<Cap("one", <<"short">>, {"id:a"}, {})>>),
     Raw(1, <<Cap("one", <<"t1">>, {}, {})>>),
     Raw(2, <<Cap("one", <<"t1">>, {"id:a"}, {})>>),
     Raw(1, <<>>)}

MCFewPolicies ==
    {Raw(1, <<Cap("one", <<"t1">>, {"id:a"}, {}), Cap("two", <<"t2">>, {"id:b"}, {})>>),
     Raw(1, <<Cap("two", <<"t2">>, {}, {"id:"})>>)}

MCWellSized == {"t1", "t2", "t3"}
MCPrintable == {"t1", "t2", "t3", "short"}

Symmetry == Permutations(Requests)
=============================================================================
