---------------------------- MODULE MC_VaultCache ----------------------------
(***************************************************************************)
(* VaultCache for TLC: the ways a server can answer, and the symmetry of   *)
(* the requests, which only their steps tell apart.                        *)
(***************************************************************************)
EXTENDS VaultCacheRefinement, TLC

(* A transport failure or timeout, a status on either side of the 5xx      *)
(* boundary, a refused credential and a malformed body.                    *)
MCHttpErrors ==
    {[kind |-> "Http", status |-> 0],
     [kind |-> "HttpStatus", status |-> 429],
     [kind |-> "HttpStatus", status |-> 401],
     [kind |-> "InvalidJson", status |-> 0]}

(* The two classes alone, for the runs where the variants multiply states. *)
MCTwoErrors ==
    {[kind |-> "HttpStatus", status |-> 503],
     [kind |-> "HttpStatus", status |-> 401]}

MCUnlockErrors == {[kind |-> "Unlock", status |-> 0]}

(* Tokens that carry no expiry, and tokens whose expiry less the skew ends *)
(* the freshness before the TTL does.                                      *)
MCExpiresIn == {None, 2}

MCNoExpiry == {None}

Symmetry == Permutations(Requests)

=============================================================================
