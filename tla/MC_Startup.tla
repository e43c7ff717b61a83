------------------------------ MODULE MC_Startup ------------------------------
(***************************************************************************)
(* Startup for TLC: two working configurations with any two arguments      *)
(* changed, and one of them with every kind of account and reply.          *)
(***************************************************************************)
EXTENDS Startup

-----------------------------------------------------------------------------
(* Arguments *)

Url(scheme, host, path, query) ==
    [scheme |-> scheme, host |-> host, path |-> path, query |-> query]

Vault == Url("https", "vault", <<"">>, None)

Secret(inline, file) == [inline |-> inline, file |-> file]

SingleOrigin ==
    [healthcheck_url |-> None,
     single_origin_url |-> Vault, identity_url |-> None, api_url |-> None,
     client_id |-> Secret(None, TRUE), client_secret |-> Secret(None, TRUE),
     master_password |-> Secret(None, TRUE),
     device_identifier |-> <<"device">>, device_name |-> <<"name">>,
     http_connect_timeout_seconds |-> 5, http_request_timeout_seconds |-> 25,
     ca_bundle_file |-> FALSE, argon2_memory_limit_mib |-> 64,
     allowed_keys |-> Secret(<<>>, TRUE), allowed_key_prefixes |-> Secret(<<>>, FALSE),
     allow_all_selectors |-> FALSE,
     webhook_auth_token |-> Secret(None, TRUE), auth_policy_file |-> FALSE,
     insecure_allow_unauthenticated |-> FALSE,
     reload_interval_seconds |-> [p \in {"selector", "auth"} |-> 30],
     resolve_concurrency_limit |-> 16]

Split ==
    [SingleOrigin EXCEPT
        !.single_origin_url = None,
        !.identity_url = Url("https", "identity", <<"", "">>, "q"),
        !.api_url = Url("https", "api", <<"v1", "", "v2", "">>, None),
        !.master_password = Secret(<<"pw">>, FALSE),
        !.ca_bundle_file = TRUE,
        !.allowed_keys = Secret(<< <<"sp", "id:a">> >>, FALSE),
        !.webhook_auth_token = Secret(None, FALSE), !.auth_policy_file = TRUE]

(* Other values an argument may have. *)
Others ==
    [healthcheck_url |-> {Url("http", "localhost", <<"readyz">>, None), Vault},
     single_origin_url |->
        {None, Vault, Url("malformed", "", <<>>, None), Url("http", "vault", <<"">>, None),
         Url("http", "localhost", <<"a", "", "">>, "q"), Url("http", "::1", <<"">>, None)},
     identity_url |-> {None, Vault},
     api_url |-> {None, Url("http", "127.0.0.1", <<"">>, None)},
     client_id |-> {Secret(<<"id">>, TRUE), Secret(<<"id">>, FALSE)},
     client_secret |-> {Secret(None, FALSE)},
     master_password |-> {Secret(<<"pw", "nl">>, FALSE), Secret(<<"sp">>, FALSE)},
     device_identifier |-> {<<"sp">>}, device_name |-> {<<>>},
     http_connect_timeout_seconds |-> {0}, http_request_timeout_seconds |-> {0},
     ca_bundle_file |-> {TRUE, FALSE}, argon2_memory_limit_mib |-> {15, 16, 1024, 1025},
     allowed_keys |-> {Secret(<<>>, FALSE), Secret(<< <<"nl">> >>, FALSE)},
     allowed_key_prefixes |-> {Secret(<<>>, TRUE)},
     allow_all_selectors |-> {TRUE},
     webhook_auth_token |-> {Secret(<<"token">>, FALSE), Secret(None, FALSE)},
     auth_policy_file |-> {TRUE, FALSE},
     insecure_allow_unauthenticated |-> {TRUE},
     reload_interval_seconds |-> {[p \in {"selector", "auth"} |-> 0]},
     resolve_concurrency_limit |-> {0}]

Changed(base) ==
    UNION {{[base EXCEPT ![n] = v] : v \in Others[n]} : n \in DOMAIN Others}

WithChanges(base) == {base} \cup UNION {Changed(b) : b \in Changed(base)}

-----------------------------------------------------------------------------
(* Files *)

Mounted ==
    [client_id |-> <<"id", "nl">>, client_secret |-> <<"secret">>,
     master_password |-> <<"pw", "nl", "nl">>, webhook_auth_token |-> <<"token", "nl">>,
     ca_bundle |-> 1, allowed_keys |-> << << <<"#">>, <<"id:b">> >>, << <<"sp", "id:a">>, <<>> >> >>,
     allowed_key_prefixes |-> <<>>,
     auth_policy |-> "policy"]

Rotated ==
    [Mounted EXCEPT !.client_id = <<"id2">>, !.client_secret = <<"secret2", "nl">>,
                    !.master_password = <<"pw2">>]

Broken ==
    [Mounted EXCEPT !.client_secret = <<"sp", "nl">>, !.webhook_auth_token = None,
                    !.ca_bundle = 0, !.allowed_keys = << << <<"sp", "#">>, <<"id:b">> >> >>, !.auth_policy = None]

(* The entry moves from one file of the selector policy to the other. *)
Moved == [Mounted EXCEPT !.allowed_keys = <<>>,
                    !.allowed_key_prefixes = << << <<"p">>, <<"sp">> >> >>]

MCFileStates == {Mounted, Rotated, Broken, Moved}

-----------------------------------------------------------------------------
(* Accounts and what a server may send for them *)

Pbkdf2(iterations) == [type |-> "pbkdf2", iterations |-> iterations]

Argon2(iterations, memory, parallelism) ==
    [type |-> "argon2id", iterations |-> iterations, memory |-> memory,
     parallelism |-> parallelism]

Account(password, kdf) ==
    [password |-> password, email |-> <<"a", "@">>, kdf |-> kdf,
     userKey |-> [length |-> 64, is |-> "user key"]]

Parts(kdf) ==
    IF kdf.type = "pbkdf2"
    THEN [kdf_type |-> 0, iterations |-> kdf.iterations, memory |-> None, parallelism |-> None]
    ELSE [kdf_type |-> 1, iterations |-> kdf.iterations, memory |-> kdf.memory,
          parallelism |-> kdf.parallelism]

Reply(account) ==
    [wrapped |-> Sealed(account), encrypted |-> None, salt |-> account.email,
     kdf |-> Parts(account.kdf)]

Kdfs ==
    {Pbkdf2(n) : n \in {4999, 5000, 2000000, 2000001}}
        \cup {Argon2(3, m, 4) : m \in {0, 15, 16, 64, 65, 1024, 1025}}
        \cup {Argon2(n, 64, 4) : n \in {1, 2, 10, 11}}
        \cup {Argon2(3, 64, n) : n \in {0, 1, 16, 17}}

Usual == Account(<<"pw">>, Argon2(3, 64, 4))

Short == [Usual EXCEPT !.userKey.length = 32]

Wrapped(raw) == [Reply(Usual) EXCEPT !.wrapped = raw]

BadStrings ==
    LET good == Sealed(Usual)
    IN  {[good EXCEPT !.header = header] : header \in {"none", "text", "0", "4"}}
            \cup {[good EXCEPT !.parts = SubSeq(@, 1, 2)], [good EXCEPT !.parts = Append(@, @[1])]}
            \cup {[good EXCEPT !.parts[i].length = n] :
                     i \in 1..3, n \in {None, 0, 16, 32, 48, 79}}
            \cup {[good EXCEPT !.parts[2].is.plain = [length |-> 64, is |-> "another key"]],
                  [good EXCEPT !.parts[1].is.iv = "another iv"],
                  Sealed([Usual EXCEPT !.email = <<"b">>])}

Odd ==
    {None, Wrapped(None), [Wrapped(None) EXCEPT !.encrypted = Sealed(Usual)],
     [Reply(Usual) EXCEPT !.encrypted = Sealed([Usual EXCEPT !.email = <<"b">>])],
     [Reply(Usual) EXCEPT !.salt = <<"sp", "A", "@", "nl">>],
     [Reply(Usual) EXCEPT !.salt = <<"@">>],
     [Reply(Usual) EXCEPT !.kdf.kdf_type = 0], [Reply(Usual) EXCEPT !.kdf.kdf_type = 2],
     [Reply(Usual) EXCEPT !.kdf.memory = None], [Reply(Usual) EXCEPT !.kdf.parallelism = None],
     [Reply(Usual) EXCEPT !.kdf.memory = 16]}

-----------------------------------------------------------------------------

Case(a, account, unlock) ==
    [args |-> a, files |-> Mounted, account |-> account, unlock |-> unlock]

MCCases ==
    {Case(a, Usual, Reply(Usual)) : a \in WithChanges(SingleOrigin) \cup WithChanges(Split)}
        \cup {[Case(a, Usual, Reply(Usual)) EXCEPT !.files = f] :
                  a \in UNION {{b} \cup Changed(b) : b \in {SingleOrigin, Split}},
                  f \in MCFileStates}
        \cup {Case(SingleOrigin, Short, Reply(Short))}
        \cup {Case(SingleOrigin, Usual, u) : u \in Odd \cup {Wrapped(raw) : raw \in BadStrings}}
        \cup {Case([SingleOrigin EXCEPT !.argon2_memory_limit_mib = limit],
                   Account(<<"pw">>, kdf), Reply(Account(<<"pw">>, kdf))) :
                  kdf \in Kdfs, limit \in {64, 1024}}

MCReplies ==
    {None, [version |-> "1.1", class |-> 2], [version |-> "1.0", class |-> 2],
     [version |-> "1.1", class |-> 5], [version |-> "2", class |-> 2]}

=============================================================================
