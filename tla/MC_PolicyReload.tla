---------------------------- MODULE MC_PolicyReload ----------------------------
(***************************************************************************)
(* PolicyReload for TLC: the selector policy with its two files and the    *)
(* auth policy with its one.                                               *)
(***************************************************************************)
EXTENDS PolicyReload

MCFiles ==
    [t \in {"selector", "auth"} |->
        IF t = "selector" THEN <<"allowed_keys", "allowed_key_prefixes">>
        ELSE <<"auth_policy">>]

MCNoInline ==
    [t \in {"selector", "auth"} |->
        IF t = "selector" THEN << <<>>, <<>> >> ELSE << <<>> >>]

(* Unreadable, empty, and valid; for the auth policy two contents with the *)
(* same number of entries.                                                 *)
MCContents ==
    [t \in {"selector", "auth"} |->
        IF t = "selector" THEN {None, <<>>, <<"a">>} ELSE {None, <<>>, <<"a">>, <<"b">>}]

=============================================================================
