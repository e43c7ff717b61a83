------------------------------- MODULE AuthPolicy -------------------------------
(***************************************************************************)
(* The operators of webhook authentication and authorization: allow-list   *)
(* rules (PolicyRules, main.rs), validation of a capability-scoped auth    *)
(* policy and the match of a bearer token against it (auth.rs).            *)
(*                                                                         *)
(* A key, a prefix and a token are opaque; Prefixes[k] are the configured  *)
(* prefixes that key k starts with.  SHA-256 is taken to be injective, so  *)
(* a digest is its token.  Which check of TryFrom fails first is not told  *)
(* apart: every failure is the same rejected policy.                       *)
(*                                                                         *)
(* A definition marked "Mutant" is wrong on purpose and used by mutation   *)
(* tests only.                                                             *)
(***************************************************************************)
EXTENDS Naturals, Sequences, FiniteSets

CONSTANTS
    None,             \* no value
    AllowAll,         \* PolicyRules::AllowAll
    Global,           \* AuthorizedScope::Global
    Prefixes,         \* Prefixes[k]: the prefixes of key k
    WellSized,        \* tokens of 32 to 4096 bytes
    Printable,        \* tokens of graphic ASCII bytes only
    Blank,            \* an empty or white-space string
    Padded,           \* names with surrounding white space
    MaxCapabilities,
    MaxTokens

ASSUME LimitsAssumption == MaxCapabilities \in Nat /\ MaxTokens \in Nat

AuthPolicyVersion == 1

RangeOf(s) == {s[i] : i \in DOMAIN s}

-----------------------------------------------------------------------------
(* Selector rules *)

(* PolicyRules::allows: an exact key, or a key that starts with a prefix. *)
Allows(rules, key) ==
    \/ rules = AllowAll
    \/ /\ rules # AllowAll
       /\ \/ key \in rules.keys
          \/ Prefixes[key] \cap rules.prefixes # {}

(* AuthorizedScope::allows *)
ScopeAllows(scope, key) ==
    \/ scope = Global
    \/ scope # Global /\ Allows(scope, key)

-----------------------------------------------------------------------------
(* Capabilities *)

(* The places of a policy that hold a token. *)
TokenSlots(caps) ==
    UNION {{i} \X DOMAIN caps[i].tokens : i \in DOMAIN caps}

TokenAt(caps, s) == caps[s[1]].tokens[s[2]]

(* Mutant: the set of digests seen is made anew for every capability. *)
UniqueInCapability(caps) ==
    \A s, u \in TokenSlots(caps) :
        s # u /\ s[1] = u[1] => TokenAt(caps, s) # TokenAt(caps, u)

UniqueTokens(caps) ==
    \A s, u \in TokenSlots(caps) : s # u => TokenAt(caps, s) # TokenAt(caps, u)

ValidName(caps, i) ==
    /\ caps[i].name # Blank
    /\ caps[i].name \notin Padded
    /\ \A j \in DOMAIN caps : caps[j].name = caps[i].name => j = i

(* validate_scoped_token, and at least one token *)
ValidTokens(cap) ==
    /\ cap.tokens # <<>>
    /\ RangeOf(cap.tokens) \subseteq WellSized \cap Printable

(* normalize_entries on both lists, and at least one entry *)
ValidEntries(cap) ==
    /\ Blank \notin cap.allowed_keys \cup cap.allowed_key_prefixes
    /\ cap.allowed_keys \cup cap.allowed_key_prefixes # {}

(* TryFrom<RawAuthPolicy> succeeds. *)
ValidPolicy(raw) ==
    LET caps == raw.capabilities IN
    /\ raw.version = AuthPolicyVersion
    /\ caps # <<>>
    /\ Len(caps) <= MaxCapabilities
    /\ \A i \in DOMAIN caps :
          ValidName(caps, i) /\ ValidTokens(caps[i]) /\ ValidEntries(caps[i])
    /\ Cardinality(TokenSlots(caps)) <= MaxTokens
    /\ UniqueTokens(caps)

(* The capabilities of a valid policy: names are dropped. *)
Capabilities(raw) ==
    [i \in DOMAIN raw.capabilities |->
        [tokens |-> raw.capabilities[i].tokens,
         rules  |-> [keys     |-> raw.capabilities[i].allowed_keys,
                     prefixes |-> raw.capabilities[i].allowed_key_prefixes]]]

-----------------------------------------------------------------------------
(* Requests *)

(* bearer_token: one Authorization header, of the Bearer scheme, with a    *)
(* token that is neither empty nor contains white space.                   *)
BearerToken(headers) ==
    IF /\ Len(headers) = 1
       /\ headers[1].scheme = "bearer"
       /\ headers[1].token # Blank
    THEN headers[1].token
    ELSE None

Matching(caps, token) ==
    {i \in DOMAIN caps : token \in RangeOf(caps[i].tokens)}

(* ScopedAuthPolicy::authorize: every token is compared and the last match *)
(* is the one taken.                                                       *)
ScopeOf(caps, token) ==
    IF token \notin WellSized \/ Matching(caps, token) = {}
    THEN None
    ELSE caps[CHOOSE i \in Matching(caps, token) :
                 \A j \in Matching(caps, token) : j <= i].rules

=============================================================================
