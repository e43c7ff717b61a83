---------------------------- MODULE MC_CipherResolve ----------------------------
(* Two families of cases for CipherResolve: lookup over vaults of up to    *)
(* three small items, and extraction from one item with much in it.        *)
EXTENDS CipherResolve

Enc(key, text) == [key |-> key, text |-> text]

Item(id, org, deleted, key, name, notes, fields, login, ssh_key) ==
    [id |-> id, org |-> org, deleted |-> deleted, key |-> key, name |-> name,
     notes |-> notes, fields |-> fields, login |-> login, ssh_key |-> ssh_key]

-----------------------------------------------------------------------------
(* Lookup.  Ids are unique: the server's primary keys. *)

(* Keys and names: personal, with a key of its own, with one that does not *)
(* unwrap, and with a name that does not decrypt under the item's key.     *)
Sealed ==
    {<<None, Enc(UserKey, <<"a">>)>>, <<None, Enc(UserKey, <<"b">>)>>, <<None, None>>,
     <<None, Enc("other", <<"a">>)>>,
     <<Enc(UserKey, "item"), Enc("item", <<"a">>)>>,
     <<Enc(UserKey, "item"), Enc(UserKey, <<"a">>)>>,
     <<Enc("other", "item"), Enc("item", <<"b">>)>>}

Small(id) ==
    {Item(<<id>>, org, deleted, s[1], s[2],
          Enc(IF s[1] = None THEN UserKey ELSE s[1].text, id), <<>>, None, None) :
        org \in BOOLEAN, deleted \in BOOLEAN, s \in Sealed}

LookupVaults ==
    {<<>>} \cup {<<x>> : x \in Small("1")}
    \cup {<<x, y>> : x \in Small("1"), y \in Small("2")}
    \cup {<<x, y, z>> : x \in Small("1"), y \in Small("2"),
                        z \in {i \in Small("3") : i.key = None}}

Ref(key, property, version) == [key |-> key, property |-> property, version |-> version]

LookupRefs ==
    {Ref(<<"sp", "name:", "a">>, None, None),
     Ref(<<"id:", "1">>, None, <<"sp">>),
     Ref(<<"id:", "2", "sp">>, <<"totp">>, None)}

-----------------------------------------------------------------------------
(* Extraction *)

FieldNames ==
    {<<>>, <<"sp">>, <<"x">>, <<"x", "sp">>, <<"name">>, <<"username">>,
     <<"field.", "x">>, <<"attachment.", "x">>}

Field(name, value) ==
    [name  |-> IF name = None THEN None ELSE Enc(UserKey, name),
     value |-> IF value = None THEN None ELSE Enc(UserKey, value)]

SomeFields == {Field(n, v) : n \in FieldNames \cup {None}, v \in {None, "v1", "v2"}}

Logins ==
    {None,
     [username |-> Enc(UserKey, "u"), password |-> Enc(UserKey, "p"), totp |-> None],
     [username |-> None, password |-> Enc("other", "p"), totp |-> None]}

SshKeys ==
    {None,
     [private_key |-> Enc(UserKey, "priv"), public_key |-> None, key_fingerprint |-> None]}

ExtractVaults ==
    {<<Item(<<"1">>, FALSE, FALSE, None, Enc(UserKey, <<"a">>), None, fields, login, ssh)>> :
        fields \in {<<>>} \cup {<<f>> : f \in SomeFields}
                   \cup {<<f, g>> : f \in SomeFields, g \in SomeFields},
        login \in Logins, ssh \in SshKeys}

ExtractRefs ==
    {Ref(<<"id:", "1">>, p, None) :
        p \in {None, <<"sp">>, <<"x">>, <<"field.">>, <<"field.", "x", "sp">>,
               <<"custom.", "field.", "x">>, <<"username">>, <<"field.", "username">>,
               <<"login.totp">>, <<"sshPrivateKey">>, <<"attachment.", "x">>}}
    \cup {Ref(<<"name:", "sp">>, None, None), Ref(<<"1">>, None, None),
          Ref(<<"id:", "1">>, None, <<"v">>)}

MCCases ==
    [vault : LookupVaults, ref : LookupRefs]
    \cup [vault : ExtractVaults, ref : ExtractRefs]
=============================================================================
