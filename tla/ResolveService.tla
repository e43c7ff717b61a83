----------------------------- MODULE ResolveService -----------------------------
(***************************************************************************)
(* POST /v1/resolve (resolve, main.rs) as many requests run it at once,    *)
(* while the selector policy and the auth policy are reloaded under it and *)
(* the process is told to shut down.  A request is in one of these places: *)
(*                                                                         *)
(*   idle       not sent yet                                               *)
(*   arrived    the handler is about to authenticate it                    *)
(*   body       authenticated, its scope captured; the body is being read  *)
(*   decoded    about to try for a permit                                  *)
(*   admitted   holds a permit (if there is a cap); selector and policies  *)
(*              are about to be tested                                     *)
(*   provider   awaits provider.resolve                                    *)
(*   done       answered, or its future was dropped                        *)
(*                                                                         *)
(* provider.resolve is VaultCache and CipherResolve; here it takes any     *)
(* time and returns anything.  The response kinds are the error_kind       *)
(* labels; "ok" is a document.                                             *)
(*                                                                         *)
(* A definition marked "Mutant" is wrong on purpose and used by mutation   *)
(* tests only.                                                             *)
(***************************************************************************)
EXTENDS AuthPolicy

CONSTANTS
    Requests,
    Inputs,            \* what a request may be: [headers, body, key]
    InvalidKeys,       \* keys BitwardenSelector::try_from rejects
    SelectorPolicies,  \* rules the selector policy may be reloaded to
    RawPolicies,       \* what the auth policy file may hold
    LegacyToken,
    ProviderReplies,   \* what provider.resolve may return
    Limit,             \* resolve_concurrency_limit, 0 for no cap
    MaxReloads         \* bound on the reloads of the two policies together

BodyErrors == {"unsupported_media_type", "too_large", "malformed"}

(* The kinds the handler answers with by itself.  "validation" is one of   *)
(* them: the selector is validated before provider.resolve is called.      *)
HandlerReplies ==
    BodyErrors \cup {"auth", "request_timeout", "overloaded", "validation",
                     "policy_denied", "cancelled"}

ASSUME ServiceAssumption ==
    /\ Limit \in Nat /\ MaxReloads \in Nat
    /\ ProviderReplies \cap (HandlerReplies \cup {None}) = {}
    /\ None \notin HandlerReplies

VARIABLES
    mode,           \* which WebhookAuth was configured
    capabilities,   \* rules of the scoped auth policy
    selectorRules,  \* rules of the selector policy
    available,      \* free permits of resolve_semaphore
    pc, input,      \* where and what each request is
    scope,          \* the AuthorizedScope a request captured
    reply,          \* the kind of its response
    ready,          \* Lifecycle::is_ready
    server,         \* axum::serve: serving, draining, stopped
    reloads,
    authSince,      \* history: capabilities in force since the request arrived
    rulesSince      \* history: selector rules in force since it was admitted

requestVars == <<pc, input, scope, reply>>
policyVars == <<mode, capabilities, selectorRules, reloads>>
serverVars == <<ready, server>>
historyVars == <<authSince, rulesSince>>
vars == <<requestVars, policyVars, serverVars, historyVars, available>>

Replies == HandlerReplies \cup ProviderReplies \cup {None}

InFlight == {r \in Requests : pc[r] \notin {"idle", "done"}}
PermitHolders == {r \in Requests : pc[r] \in {"admitted", "provider"}}

Init ==
    /\ mode \in {"legacy", "scoped", "disabled"}
    /\ capabilities \in {Capabilities(raw) : raw \in {p \in RawPolicies : ValidPolicy(p)}}
    /\ selectorRules \in SelectorPolicies
    /\ available = Limit
    /\ pc = [r \in Requests |-> "idle"]
    /\ input = [r \in Requests |-> None]
    /\ scope = [r \in Requests |-> None]
    /\ reply = [r \in Requests |-> None]
    /\ ready = TRUE
    /\ server = "serving"
    /\ reloads = 0
    /\ authSince = [r \in Requests |-> {}]
    /\ rulesSince = [r \in Requests |-> {}]

-----------------------------------------------------------------------------
(* Policies *)

Reload ==
    /\ reloads < MaxReloads
    /\ reloads' = reloads + 1
    /\ UNCHANGED <<requestVars, serverVars, mode, available>>

(* SelectorPolicy::reload swapped the rules. *)
ReloadSelector ==
    /\ Reload
    /\ \E rules \in SelectorPolicies \ {selectorRules} :
          /\ selectorRules' = rules
          /\ rulesSince' = [r \in Requests |->
                               IF r \in PermitHolders THEN rulesSince[r] \cup {rules}
                               ELSE rulesSince[r]]
    /\ UNCHANGED <<capabilities, authSince>>

(* ScopedAuthPolicy::reload: an invalid file leaves the rules in force. *)
ReloadAuth ==
    /\ Reload
    /\ mode = "scoped"
    /\ \E raw \in RawPolicies :
          /\ ValidPolicy(raw)
          /\ Capabilities(raw) # capabilities
          /\ capabilities' = Capabilities(raw)
          /\ authSince' = [r \in Requests |->
                              IF r \in InFlight THEN authSince[r] \cup {Capabilities(raw)}
                              ELSE authSince[r]]
    /\ UNCHANGED <<selectorRules, rulesSince>>

-----------------------------------------------------------------------------
(* The handler *)

(* External: hyper has read the head of a request. *)
Arrive(r) ==
    /\ server = "serving"
    /\ pc[r] = "idle"
    /\ pc' = [pc EXCEPT ![r] = "arrived"]
    /\ \E q \in Inputs : input' = [input EXCEPT ![r] = q]
    /\ authSince' = [authSince EXCEPT ![r] = {capabilities}]
    /\ UNCHANGED <<scope, reply, policyVars, serverVars, rulesSince, available>>

(* The handler returns: the metrics are recorded and _permit is dropped. *)
Respond(r, kind) ==
    /\ pc' = [pc EXCEPT ![r] = "done"]
    /\ reply' = [reply EXCEPT ![r] = kind]
    /\ available' = IF Limit > 0 /\ r \in PermitHolders THEN available + 1 ELSE available
    /\ UNCHANGED <<input, scope, policyVars, serverVars, historyVars>>

Goto(r, to) == pc' = [pc EXCEPT ![r] = to]

(* WebhookAuth::authorize *)
ScopeFor(m, headers, caps) ==
    LET token == BearerToken(headers) IN
    CASE m = "disabled" -> Global
      [] m = "legacy"   -> IF token = LegacyToken THEN Global ELSE None
      [] m = "scoped"   -> IF token = None THEN None ELSE ScopeOf(caps, token)

(* Mutant: the body is decoded before the caller is authenticated. *)
UnauthenticatedAfterBody(r) ==
    /\ pc[r] = "arrived"
    /\ ScopeFor(mode, input[r].headers, capabilities) = None
    /\ Respond(r, IF input[r].body \in BodyErrors THEN input[r].body ELSE "auth")

Unauthenticated(r) ==
    /\ pc[r] = "arrived"
    /\ ScopeFor(mode, input[r].headers, capabilities) = None
    /\ Respond(r, "auth")

(* Mutant: the scope is looked up in rules cached at startup. *)
AuthenticateStale(r) ==
    /\ pc[r] = "arrived"
    /\ \E raw \in RawPolicies :
          /\ ScopeFor(mode, input[r].headers, Capabilities(raw)) # None
          /\ scope' = [scope EXCEPT ![r] = ScopeFor(mode, input[r].headers, Capabilities(raw))]
    /\ Goto(r, "body")
    /\ UNCHANGED <<input, reply, policyVars, serverVars, historyVars, available>>

Authenticate(r) ==
    /\ pc[r] = "arrived"
    /\ ScopeFor(mode, input[r].headers, capabilities) # None
    /\ scope' = [scope EXCEPT ![r] = ScopeFor(mode, input[r].headers, capabilities)]
    /\ Goto(r, "body")
    /\ UNCHANGED <<input, reply, policyVars, serverVars, historyVars, available>>

(* decode_resolve_request in its timeout *)
BodyRead(r) ==
    /\ pc[r] = "body"
    /\ input[r].body = "json"
    /\ Goto(r, "decoded")
    /\ UNCHANGED <<input, scope, reply, policyVars, serverVars, historyVars, available>>

BodyRejected(r) ==
    /\ pc[r] = "body"
    /\ input[r].body \in BodyErrors
    /\ Respond(r, input[r].body)

(* Mutant: the timer is reset whenever it fires on a body without data. *)
BodyTimeoutMissesStalls(r) ==
    /\ pc[r] = "body"
    /\ input[r].body = "json"
    /\ Respond(r, "request_timeout")

(* The content type is tested before anything is awaited; every other body *)
(* may be too slow, and a stalled one always is.                           *)
BodyTimeout(r) ==
    /\ pc[r] = "body"
    /\ input[r].body # "unsupported_media_type"
    /\ Respond(r, "request_timeout")

(* try_acquire_owned on the semaphore, if there is one *)
Admit(r) ==
    /\ pc[r] = "decoded"
    /\ Limit = 0 \/ available > 0
    /\ available' = IF Limit = 0 THEN available ELSE available - 1
    /\ rulesSince' = [rulesSince EXCEPT ![r] = {selectorRules}]
    /\ Goto(r, "admitted")
    /\ UNCHANGED <<input, scope, reply, policyVars, serverVars, authSince>>

Overloaded(r) ==
    /\ pc[r] = "decoded"
    /\ Limit > 0 /\ available = 0
    /\ Respond(r, "overloaded")

InvalidSelector(r) ==
    /\ pc[r] = "admitted"
    /\ input[r].key \in InvalidKeys
    /\ Respond(r, "validation")

Permitted(r) ==
    Allows(selectorRules, input[r].key) /\ ScopeAllows(scope[r], input[r].key)

(* Mutant: the early return forgets to give the permit back. *)
DeniedKeepsPermit(r) ==
    /\ pc[r] = "admitted"
    /\ input[r].key \notin InvalidKeys
    /\ ~Permitted(r)
    /\ Goto(r, "done")
    /\ reply' = [reply EXCEPT ![r] = "policy_denied"]
    /\ UNCHANGED <<input, scope, policyVars, serverVars, historyVars, available>>

Denied(r) ==
    /\ pc[r] = "admitted"
    /\ input[r].key \notin InvalidKeys
    /\ ~Permitted(r)
    /\ Respond(r, "policy_denied")

CallProvider(r) ==
    /\ pc[r] = "admitted"
    /\ input[r].key \notin InvalidKeys
    /\ Permitted(r)
    /\ Goto(r, "provider")
    /\ UNCHANGED <<input, scope, reply, policyVars, serverVars, historyVars, available>>

ProviderReply(r) ==
    /\ pc[r] = "provider"
    /\ \E kind \in ProviderReplies : Respond(r, kind)

Handle(r) ==
    \/ Unauthenticated(r) \/ Authenticate(r)
    \/ BodyRead(r) \/ BodyRejected(r) \/ BodyTimeout(r)
    \/ Admit(r) \/ Overloaded(r)
    \/ InvalidSelector(r) \/ Denied(r) \/ CallProvider(r)
    \/ ProviderReply(r)

(* External: the client went away and the handler's future is dropped, its *)
(* permit with it.  Nothing is recorded.                                   *)
Cancel(r) ==
    /\ r \in InFlight
    /\ Respond(r, "cancelled")

-----------------------------------------------------------------------------
(* Shutdown *)

(* shutdown_signal: mark_shutting_down, then axum may stop accepting. *)
MarkShuttingDown ==
    /\ ready
    /\ ready' = FALSE
    /\ UNCHANGED <<requestVars, policyVars, historyVars, server, available>>

StopAccepting ==
    /\ ~ready /\ server = "serving"
    /\ server' = "draining"
    /\ UNCHANGED <<requestVars, policyVars, historyVars, ready, available>>

(* The serve future resolves once no request is left. *)
ServeReturns ==
    /\ server = "draining"
    /\ InFlight = {}
    /\ server' = "stopped"
    /\ UNCHANGED <<requestVars, policyVars, historyVars, ready, available>>

Exited == server = "stopped" /\ UNCHANGED vars

-----------------------------------------------------------------------------

Next ==
    \/ ReloadSelector \/ ReloadAuth
    \/ \E r \in Requests : Arrive(r) \/ Handle(r) \/ Cancel(r)
    \/ MarkShuttingDown \/ StopAccepting \/ ServeReturns \/ Exited

(* The runtime polls handlers that can go on, the body timer fires, and    *)
(* provider.resolve returns (VaultCache!EveryRequestEnds).  Nothing is     *)
(* assumed of clients: a body may stall and no cancellation has to come.   *)
Fairness ==
    /\ \A r \in Requests : WF_vars(Handle(r))
    /\ WF_vars(StopAccepting) /\ WF_vars(ServeReturns)

Spec == Init /\ [][Next]_vars
FairSpec == Spec /\ Fairness

-----------------------------------------------------------------------------
(* Properties *)

TypeOK ==
    /\ available \in 0..Limit
    /\ pc \in [Requests -> {"idle", "arrived", "body", "decoded", "admitted",
                            "provider", "done"}]
    /\ input \in [Requests -> Inputs \cup {None}]
    /\ reply \in [Requests -> Replies]
    /\ server \in {"serving", "draining", "stopped"}
    /\ reloads \in 0..MaxReloads

(* A permit is out exactly for the requests between admission and answer:  *)
(* a body that is still being read holds none, and none is lost whichever  *)
(* way a request ends.                                                     *)
PermitsAccounted ==
    Limit > 0 => available + Cardinality(PermitHolders) = Limit

(* A request reaches the vault only with a scope its token had in a policy *)
(* in force since it arrived, and under selector rules in force since it   *)
(* was admitted; both allow its key.  A policy replaced before a request   *)
(* arrived admits nothing, and a mix of two capabilities neither.          *)
AllowedByBothPolicies ==
    \A r \in Requests :
        pc[r] = "provider" \/ reply[r] \in ProviderReplies =>
            /\ \E rules \in rulesSince[r] : Allows(rules, input[r].key)
            /\ \E caps \in authSince[r] :
                  LET s == ScopeFor(mode, input[r].headers, caps)
                  IN  s # None /\ ScopeAllows(s, input[r].key)

(* A request that no policy in force since its arrival authenticates is    *)
(* told so and nothing else: not that its body is wrong, that the server   *)
(* is busy, or that a key is denied.                                       *)
UnauthenticatedLearnsNothing ==
    \A r \in Requests :
        /\ pc[r] = "done" /\ reply[r] # "cancelled"
        /\ \A caps \in authSince[r] : ScopeFor(mode, input[r].headers, caps) = None
        => reply[r] = "auth"

(* A token names one capability: the last match of authorize is the only   *)
(* one, so the order of capabilities in the file does not matter.          *)
TokenHasOneScope ==
    \A r \in Requests :
        input[r] # None =>
            Cardinality(Matching(capabilities, BearerToken(input[r].headers))) <= 1

(* Every request that arrives is answered, whatever its body does. *)
EveryRequestAnswered ==
    \A r \in Requests : pc[r] = "arrived" ~> pc[r] = "done"

(* Once shutdown is marked the server drains and stops. *)
ShutdownDrains == ~ready ~> server = "stopped"

=============================================================================
