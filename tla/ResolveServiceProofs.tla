------------------------ MODULE ResolveServiceProofs ------------------------
(***************************************************************************)
(* The safety of POST /v1/resolve for any number of requests, any cap and  *)
(* any policies: permits are accounted for, what reaches the vault was     *)
(* allowed by both policies, and a caller no policy knows is told nothing. *)
(*                                                                         *)
(* The inductive invariant says what a request carries over its awaits:    *)
(* the scope it captured is that of its token under capabilities in force  *)
(* since it arrived, however often the policy was reloaded since.          *)
(***************************************************************************)
EXTENDS ResolveService, FiniteSetTheorems, TLAPS

Places ==
    {"idle", "arrived", "body", "decoded", "admitted", "provider", "done"}

(* Functions on the requests whose values have no type of their own. *)
OnRequests(f) == f = [r \in Requests |-> f[r]]

TypeInv ==
    /\ available \in Nat
    /\ pc \in [Requests -> Places]
    /\ input \in [Requests -> Inputs \cup {None}]
    /\ reply \in [Requests -> Replies]
    /\ server \in {"serving", "draining", "stopped"}
    /\ reloads \in 0..MaxReloads
    /\ OnRequests(scope) /\ OnRequests(authSince) /\ OnRequests(rulesSince)

(* Without a cap the count of permits means nothing and stays zero. *)
PermitInv ==
    /\ IsFiniteSet(PermitHolders)
    /\ Limit > 0 => available + Cardinality(PermitHolders) = Limit
    /\ Limit = 0 => available = 0

(* The capabilities in force are those of a file that was valid. *)
CapabilitiesInv ==
    \E raw \in RawPolicies : ValidPolicy(raw) /\ capabilities = Capabilities(raw)

(* The scope of r is that of its token at some time since it arrived. *)
Scoped(r) ==
    /\ scope[r] # None
    /\ \E caps \in authSince[r] : scope[r] = ScopeFor(mode, input[r].headers, caps)

ScopeInv ==
    \A r \in Requests :
        /\ pc[r] = "arrived" => capabilities \in authSince[r]
        /\ pc[r] \in {"body", "decoded", "admitted", "provider"} => Scoped(r)
        /\ pc[r] # "done" => reply[r] = None
        /\ pc[r] = "done" /\ reply[r] \notin {"auth", "cancelled"} => Scoped(r)

RulesInv ==
    \A r \in Requests :
        /\ pc[r] = "admitted" => selectorRules \in rulesSince[r]
        /\ pc[r] = "provider" \/ reply[r] \in ProviderReplies =>
              /\ \E rules \in rulesSince[r] : Allows(rules, input[r].key)
              /\ ScopeAllows(scope[r], input[r].key)

IInv == TypeInv /\ PermitInv /\ CapabilitiesInv /\ ScopeInv /\ RulesInv

-----------------------------------------------------------------------------
(* Operators *)

(* In a valid policy two capabilities share no token. *)
LEMMA MatchingUnique ==
  ASSUME NEW raw, ValidPolicy(raw), NEW token,
         NEW i \in Matching(Capabilities(raw), token),
         NEW j \in Matching(Capabilities(raw), token)
  PROVE  i = j
<1> DEFINE caps == raw.capabilities
<1>1. /\ i \in DOMAIN caps /\ j \in DOMAIN caps
      /\ token \in RangeOf(caps[i].tokens) /\ token \in RangeOf(caps[j].tokens)
  BY DEF Matching, Capabilities
<1>2. PICK a \in DOMAIN caps[i].tokens : caps[i].tokens[a] = token
  BY <1>1 DEF RangeOf
<1>3. PICK b \in DOMAIN caps[j].tokens : caps[j].tokens[b] = token
  BY <1>1 DEF RangeOf
<1>4. <<i, a>> \in TokenSlots(caps) /\ <<j, b>> \in TokenSlots(caps)
  BY <1>1, <1>2, <1>3 DEF TokenSlots
<1>5. TokenAt(caps, <<i, a>>) = token /\ TokenAt(caps, <<j, b>>) = token
  BY <1>2, <1>3 DEF TokenAt
<1>6. UniqueTokens(caps)
  BY DEF ValidPolicy
<1>7. <<i, a>> = <<j, b>>
  BY <1>4, <1>5, <1>6 DEF UniqueTokens
<1>8. QED
  BY <1>7

(* Moving a request changes the holders of permits by that request only. *)
LEMMA HoldersAfter ==
  ASSUME TypeInv, NEW r \in Requests, NEW to \in Places, Goto(r, to)
  PROVE  PermitHolders' = IF to \in {"admitted", "provider"}
                          THEN PermitHolders \cup {r} ELSE PermitHolders \ {r}
  BY DEF TypeInv, Goto, PermitHolders

(* The handler returns, or its future is dropped. *)
LEMMA RespondPermits ==
  ASSUME TypeInv, PermitInv, NEW r \in Requests, NEW kind, Respond(r, kind)
  PROVE  PermitInv'
<1>1. PermitHolders' = PermitHolders \ {r}
  BY HoldersAfter DEF Respond, Goto, Places
<1>2. IsFiniteSet(PermitHolders')
  BY <1>1, FS_RemoveElement DEF PermitInv
<1>3. CASE r \in PermitHolders
  <2>1. Cardinality(PermitHolders') = Cardinality(PermitHolders) - 1
    BY <1>1, <1>3, FS_RemoveElement DEF PermitInv
  <2>2. Cardinality(PermitHolders) \in Nat
    BY FS_CardinalityType DEF PermitInv
  <2>3. QED
    BY <1>2, <1>3, <2>1, <2>2, ServiceAssumption DEF Respond, PermitInv, TypeInv
<1>4. CASE r \notin PermitHolders
  <2>1. PermitHolders' = PermitHolders
    BY <1>1, <1>4
  <2>2. QED
    BY <1>2, <1>4, <2>1 DEF Respond, PermitInv
<1>5. QED
  BY <1>3, <1>4

-----------------------------------------------------------------------------
(* The invariant, part by part *)

(* Types hold before anything arrived. *)
LEMMA TypeInit == Init => TypeInv
  BY ServiceAssumption DEF Init, TypeInv, Places, Replies, OnRequests

(* A response of any kind keeps the types. *)
LEMMA RespondTypes ==
  ASSUME TypeInv, NEW r \in Requests, NEW kind \in Replies, Respond(r, kind)
  PROVE  TypeInv'
  BY DEF Respond, TypeInv, Places, OnRequests, policyVars, serverVars, historyVars

(* Every way the handler has to respond *)
LEMMA Responds ==
  ASSUME NEW r \in Requests,
         \/ Unauthenticated(r) \/ BodyRejected(r) \/ BodyTimeout(r)
         \/ Overloaded(r) \/ InvalidSelector(r) \/ Denied(r) \/ ProviderReply(r)
         \/ Cancel(r)
  PROVE  \E kind \in Replies \ {None} : Respond(r, kind)
  BY ServiceAssumption
     DEF Unauthenticated, BodyRejected, BodyTimeout, Overloaded, InvalidSelector,
         Denied, ProviderReply, Cancel, Replies, HandlerReplies, BodyErrors

(* The steps of a request that neither arrives nor ends *)
Proceeds(r) ==
    Authenticate(r) \/ BodyRead(r) \/ Admit(r) \/ CallProvider(r)

Ends(r) ==
    \/ Unauthenticated(r) \/ BodyRejected(r) \/ BodyTimeout(r)
    \/ Overloaded(r) \/ InvalidSelector(r) \/ Denied(r) \/ ProviderReply(r)
    \/ Cancel(r)

ServerStep == MarkShuttingDown \/ StopAccepting \/ ServeReturns \/ Exited

(* The steps, sorted for the proofs below *)
LEMMA NextCases ==
  ASSUME Next
  PROVE  \/ ReloadSelector \/ ReloadAuth \/ ServerStep
         \/ \E r \in Requests : Arrive(r) \/ Proceeds(r) \/ Ends(r)
  BY DEF Next, Handle, Proceeds, Ends, ServerStep

(* Every action keeps the types, the permits' upper bound aside. *)
LEMMA TypeStep == TypeInv /\ [Next]_vars => TypeInv'
<1> SUFFICES ASSUME TypeInv, [Next]_vars PROVE TypeInv'
  OBVIOUS
<1>1. CASE UNCHANGED vars
  BY <1>1 DEF TypeInv, OnRequests, vars, requestVars, policyVars, serverVars, historyVars
<1>2. CASE ReloadSelector
  BY <1>2, ServiceAssumption DEF ReloadSelector, Reload, TypeInv, OnRequests,
         requestVars, serverVars
<1>3. CASE ReloadAuth
  BY <1>3, ServiceAssumption DEF ReloadAuth, Reload, TypeInv, OnRequests,
         requestVars, serverVars
<1>4. CASE ServerStep
  BY <1>4 DEF ServerStep, MarkShuttingDown, StopAccepting, ServeReturns, Exited,
         TypeInv, OnRequests, vars, requestVars, policyVars, serverVars, historyVars
<1>5. ASSUME NEW r \in Requests, Arrive(r) PROVE TypeInv'
  BY <1>5 DEF Arrive, TypeInv, OnRequests, Places, policyVars, serverVars
<1>6. ASSUME NEW r \in Requests, Proceeds(r) PROVE TypeInv'
  <2>1. available' \in Nat
    BY <1>6, ServiceAssumption DEF Proceeds, Authenticate, BodyRead, Admit, CallProvider,
           TypeInv
  <2>2. QED
    BY <1>6, <2>1 DEF Proceeds, Authenticate, BodyRead, Admit, CallProvider, Goto,
           TypeInv, OnRequests, Places, policyVars, serverVars, historyVars
<1>7. ASSUME NEW r \in Requests, Ends(r) PROVE TypeInv'
  BY <1>7, Responds, RespondTypes DEF Ends
<1>8. QED
  BY <1>1, <1>2, <1>3, <1>4, <1>5, <1>6, <1>7, NextCases

(* No permit is out at first. *)
LEMMA PermitInit == Init => PermitInv
<1> SUFFICES ASSUME Init PROVE PermitInv
  OBVIOUS
<1>1. PermitHolders = {}
  BY DEF Init, PermitHolders
<1>2. IsFiniteSet(PermitHolders) /\ Cardinality(PermitHolders) = 0
  BY <1>1, FS_EmptySet
<1>3. QED
  BY <1>2, ServiceAssumption DEF Init, PermitInv

(* Admission is the only step that takes a permit. *)
LEMMA AdmitPermits ==
  ASSUME TypeInv, PermitInv, NEW r \in Requests, Admit(r)
  PROVE  PermitInv'
<1>1. PermitHolders' = PermitHolders \cup {r} /\ r \notin PermitHolders
  BY HoldersAfter DEF Admit, Places, PermitHolders
<1>2. IsFiniteSet(PermitHolders') /\ Cardinality(PermitHolders') = Cardinality(PermitHolders) + 1
  BY <1>1, FS_AddElement DEF PermitInv
<1>3. Cardinality(PermitHolders) \in Nat
  BY FS_CardinalityType DEF PermitInv
<1>4. QED
  BY <1>2, <1>3, ServiceAssumption DEF Admit, PermitInv, TypeInv

(* A request takes a permit on admission and gives it back when it ends. *)
LEMMA PermitStep == TypeInv /\ PermitInv /\ [Next]_vars => PermitInv'
<1> SUFFICES ASSUME TypeInv, PermitInv, [Next]_vars PROVE PermitInv'
  OBVIOUS
<1>1. ASSUME UNCHANGED <<pc, available>> PROVE PermitInv'
  <2>1. PermitHolders' = PermitHolders
    BY <1>1 DEF PermitHolders
  <2>2. QED
    BY <1>1, <2>1 DEF PermitInv
<1>2. CASE UNCHANGED vars \/ ReloadSelector \/ ReloadAuth \/ ServerStep
  BY <1>1, <1>2 DEF vars, requestVars, policyVars, serverVars, historyVars,
         ReloadSelector, ReloadAuth, Reload, ServerStep, MarkShuttingDown,
         StopAccepting, ServeReturns, Exited
<1>3. ASSUME NEW r \in Requests, Arrive(r) \/ Authenticate(r) \/ BodyRead(r) \/ CallProvider(r)
      PROVE  PermitInv'
  <2>1. PermitHolders' = PermitHolders
    <3>1. PICK to \in {"arrived", "body", "decoded"} \cup {"provider"} :
             /\ Goto(r, to)
             /\ to = "provider" => r \in PermitHolders
             /\ to # "provider" => r \notin PermitHolders
      BY <1>3 DEF Arrive, Authenticate, BodyRead, CallProvider, Goto, PermitHolders
    <3>2. QED
      BY <3>1, HoldersAfter DEF Places
  <2>2. available' = available
    BY <1>3 DEF Arrive, Authenticate, BodyRead, CallProvider
  <2>3. QED
    BY <2>1, <2>2 DEF PermitInv
<1>4. ASSUME NEW r \in Requests, Admit(r) PROVE PermitInv'
  BY <1>4, AdmitPermits
<1>5. ASSUME NEW r \in Requests, Ends(r) PROVE PermitInv'
  BY <1>5, Responds, RespondPermits DEF Ends
<1>6. QED
  BY <1>2, <1>3, <1>4, <1>5, NextCases DEF Proceeds

(* The process starts with a valid auth policy. *)
LEMMA CapabilitiesInit == Init => CapabilitiesInv
  BY DEF Init, CapabilitiesInv

(* A reload that finds an invalid file leaves the capabilities alone. *)
LEMMA CapabilitiesStep == CapabilitiesInv /\ [Next]_vars => CapabilitiesInv'
<1> SUFFICES ASSUME CapabilitiesInv, [Next]_vars PROVE CapabilitiesInv'
  OBVIOUS
<1>1. CASE ReloadAuth
  BY <1>1 DEF ReloadAuth, CapabilitiesInv
<1>2. CASE UNCHANGED vars \/ ReloadSelector \/ ServerStep
  BY <1>2 DEF CapabilitiesInv, ReloadSelector, ServerStep, MarkShuttingDown,
         StopAccepting, ServeReturns, Exited, vars, policyVars
<1>3. ASSUME NEW r \in Requests, Arrive(r) \/ Proceeds(r) PROVE CapabilitiesInv'
  BY <1>3 DEF CapabilitiesInv, Arrive, Proceeds, Authenticate, BodyRead, Admit,
         CallProvider, policyVars
<1>4. ASSUME NEW r \in Requests, Ends(r) PROVE CapabilitiesInv'
  <2>1. UNCHANGED capabilities
    BY <1>4, Responds DEF Ends, Respond, policyVars
  <2>2. QED
    BY <2>1 DEF CapabilitiesInv
<1>5. QED
  BY <1>1, <1>2, <1>3, <1>4, NextCases

-----------------------------------------------------------------------------
(* Scopes and rules over reloads *)

(* What is recorded of the past only grows, so a scope stays one the token *)
(* had.                                                                    *)
LEMMA ScopedStays ==
  ASSUME NEW r \in Requests, Scoped(r), authSince[r] \subseteq authSince'[r],
         scope'[r] = scope[r], input'[r] = input[r], mode' = mode
  PROVE  Scoped(r)'
  BY DEF Scoped

(* No request has a scope at first. *)
LEMMA ScopeInit == Init => ScopeInv
  BY DEF Init, ScopeInv

(* A response is "auth" for a request without a scope only. *)
LEMMA RespondScopes ==
  ASSUME TypeInv, ScopeInv, NEW r \in Requests, NEW kind \in Replies, Respond(r, kind),
         kind \in {"auth", "cancelled"} \/ Scoped(r)
  PROVE  ScopeInv'
<1> SUFFICES ASSUME NEW q \in Requests PROVE
       /\ (pc[q] = "arrived")' => (capabilities \in authSince[q])'
       /\ (pc[q] \in {"body", "decoded", "admitted", "provider"})' => Scoped(q)'
       /\ (pc[q] # "done")' => (reply[q] = None)'
       /\ (pc[q] = "done" /\ reply[q] \notin {"auth", "cancelled"})' => Scoped(q)'
  BY DEF ScopeInv
<1>1. UNCHANGED <<scope, authSince, input, mode, capabilities>>
  BY DEF Respond, policyVars, historyVars
<1>2. Scoped(q) => Scoped(q)'
  BY <1>1, ScopedStays
<1>3. CASE q = r
  BY <1>2, <1>3 DEF Respond, TypeInv, ScopeInv
<1>4. CASE q # r
  <2>1. pc'[q] = pc[q] /\ reply'[q] = reply[q]
    BY <1>4 DEF Respond, TypeInv
  <2>2. QED
    BY <1>1, <1>2, <2>1 DEF ScopeInv
<1>5. QED
  BY <1>3, <1>4

(* The handler answers otherwise only after authentication. *)
LEMMA EndsWithScope ==
  ASSUME ScopeInv, NEW r \in Requests, Ends(r)
  PROVE  \E kind \in Replies \ {None} :
            /\ Respond(r, kind)
            /\ kind \in {"auth", "cancelled"} \/ Scoped(r)
            /\ kind \in ProviderReplies => pc[r] = "provider"
<1>1. CASE Unauthenticated(r) \/ Cancel(r)
  BY <1>1, ServiceAssumption DEF Unauthenticated, Cancel, Replies, HandlerReplies
<1>2. CASE \/ BodyRejected(r) \/ BodyTimeout(r) \/ Overloaded(r)
           \/ InvalidSelector(r) \/ Denied(r)
  <2>1. Scoped(r)
    BY <1>2 DEF BodyRejected, BodyTimeout, Overloaded, InvalidSelector, Denied, ScopeInv
  <2>2. \E kind \in HandlerReplies : Respond(r, kind)
    BY <1>2 DEF BodyRejected, BodyTimeout, Overloaded, InvalidSelector, Denied,
           HandlerReplies, BodyErrors
  <2>3. QED
    BY <2>1, <2>2, ServiceAssumption DEF Replies
<1>3. CASE ProviderReply(r)
  BY <1>3, ServiceAssumption DEF ProviderReply, ScopeInv, Replies
<1>4. QED
  BY <1>1, <1>2, <1>3 DEF Ends

(* A captured scope never changes, and its history only grows. *)
LEMMA ScopeStep == TypeInv /\ ScopeInv /\ [Next]_vars => ScopeInv'
<1> SUFFICES ASSUME TypeInv, ScopeInv, [Next]_vars PROVE ScopeInv'
  OBVIOUS
<1>1. ASSUME UNCHANGED <<pc, input, scope, reply, mode, capabilities, authSince>>
      PROVE  ScopeInv'
  BY <1>1 DEF ScopeInv, Scoped
<1>2. CASE UNCHANGED vars \/ ReloadSelector \/ ServerStep
  BY <1>1, <1>2 DEF vars, requestVars, policyVars, historyVars, ReloadSelector, Reload,
         ServerStep, MarkShuttingDown, StopAccepting, ServeReturns, Exited
<1>3. CASE ReloadAuth
  <2>1. UNCHANGED <<pc, input, scope, reply, mode>>
    BY <1>3 DEF ReloadAuth, Reload, requestVars
  <2>2. \A q \in Requests :
           /\ authSince[q] \subseteq authSince'[q]
           /\ pc[q] \notin {"idle", "done"} => capabilities' \in authSince'[q]
    BY <1>3 DEF ReloadAuth, InFlight
  <2>3. \A q \in Requests : Scoped(q) => Scoped(q)'
    BY <2>1, <2>2, ScopedStays
  <2>4. QED
    BY <2>1, <2>2, <2>3 DEF ScopeInv
<1>4. ASSUME NEW r \in Requests, Arrive(r) PROVE ScopeInv'
  <2>1. \A q \in Requests \ {r} : pc'[q] = pc[q] /\ input'[q] = input[q]
                                /\ authSince'[q] = authSince[q]
    BY <1>4 DEF Arrive, TypeInv, OnRequests
  <2>2. pc'[r] = "arrived" /\ capabilities \in authSince'[r] /\ reply[r] = None
    BY <1>4 DEF Arrive, TypeInv, OnRequests, ScopeInv
  <2>3. UNCHANGED <<scope, reply, mode, capabilities>>
    BY <1>4 DEF Arrive, policyVars
  <2>4. \A q \in Requests \ {r} : Scoped(q) => Scoped(q)'
    BY <2>1, <2>3, ScopedStays
  <2>5. QED
    BY <2>1, <2>2, <2>3, <2>4 DEF ScopeInv
<1>5. ASSUME NEW r \in Requests, Authenticate(r) PROVE ScopeInv'
  <2>1. UNCHANGED <<input, reply, mode, capabilities, authSince>>
    BY <1>5 DEF Authenticate, policyVars, historyVars
  <2>2. \A q \in Requests \ {r} : pc'[q] = pc[q] /\ scope'[q] = scope[q]
    BY <1>5 DEF Authenticate, Goto, TypeInv, OnRequests
  <2>3. pc[r] = "arrived" /\ pc'[r] = "body"
    BY <1>5 DEF Authenticate, Goto, TypeInv
  <2>4. scope'[r] = ScopeFor(mode, input[r].headers, capabilities) /\ scope'[r] # None
    BY <1>5 DEF Authenticate, TypeInv, OnRequests
  <2>5. Scoped(r)'
    BY <2>1, <2>3, <2>4 DEF Scoped, ScopeInv
  <2>6. \A q \in Requests \ {r} : Scoped(q) => Scoped(q)'
    BY <2>1, <2>2, ScopedStays
  <2>7. QED
    BY <2>1, <2>2, <2>3, <2>5, <2>6 DEF ScopeInv
<1>6. ASSUME NEW r \in Requests, BodyRead(r) \/ Admit(r) \/ CallProvider(r) PROVE ScopeInv'
  <2>1. UNCHANGED <<input, scope, reply, mode, capabilities, authSince>>
    BY <1>6 DEF BodyRead, Admit, CallProvider, policyVars, historyVars
  <2>2. \A q \in Requests \ {r} : pc'[q] = pc[q]
    BY <1>6 DEF BodyRead, Admit, CallProvider, Goto, TypeInv
  <2>3. /\ pc[r] \in {"body", "decoded", "admitted"}
        /\ pc'[r] \in {"decoded", "admitted", "provider"}
    BY <1>6 DEF BodyRead, Admit, CallProvider, Goto, TypeInv
  <2>4. \A q \in Requests : Scoped(q) => Scoped(q)'
    BY <2>1, ScopedStays
  <2>5. QED
    BY <2>1, <2>2, <2>3, <2>4 DEF ScopeInv
<1>7. ASSUME NEW r \in Requests, Ends(r) PROVE ScopeInv'
  BY <1>7, EndsWithScope, RespondScopes
<1>8. QED
  BY <1>2, <1>3, <1>4, <1>5, <1>6, <1>7, NextCases DEF Proceeds

(* What RulesInv asks of a request that reaches the vault *)
Cleared(r) ==
    /\ \E rules \in rulesSince[r] : Allows(rules, input[r].key)
    /\ ScopeAllows(scope[r], input[r].key)

(* What cleared a request stays in its history. *)
LEMMA ClearedStays ==
  ASSUME NEW r \in Requests, Cleared(r), rulesSince[r] \subseteq rulesSince'[r],
         scope'[r] = scope[r], input'[r] = input[r]
  PROVE  Cleared(r)'
  BY DEF Cleared

(* No request is cleared at first. *)
LEMMA RulesInit == Init => RulesInv
  BY ServiceAssumption DEF Init, RulesInv

(* Requests are cleared by both policies on their way to the provider. *)
LEMMA RulesStep == TypeInv /\ ScopeInv /\ RulesInv /\ [Next]_vars => RulesInv'
<1> SUFFICES ASSUME TypeInv, ScopeInv, RulesInv, [Next]_vars PROVE RulesInv'
  OBVIOUS
<1>1. RulesInv = \A q \in Requests :
        /\ pc[q] = "admitted" => selectorRules \in rulesSince[q]
        /\ pc[q] = "provider" \/ reply[q] \in ProviderReplies => Cleared(q)
  BY DEF RulesInv, Cleared
<1>2. RulesInv' = \A q \in Requests :
        /\ pc'[q] = "admitted" => selectorRules' \in rulesSince'[q]
        /\ pc'[q] = "provider" \/ reply'[q] \in ProviderReplies => Cleared(q)'
  BY DEF RulesInv, Cleared
<1>3. ASSUME NEW q \in Requests, pc'[q] = pc[q], reply'[q] = reply[q],
             scope'[q] = scope[q], input'[q] = input[q], selectorRules' = selectorRules,
             rulesSince'[q] = rulesSince[q]
      PROVE  /\ pc'[q] = "admitted" => selectorRules' \in rulesSince'[q]
             /\ pc'[q] = "provider" \/ reply'[q] \in ProviderReplies => Cleared(q)'
  BY <1>1, <1>3, ClearedStays
<1>4. CASE UNCHANGED vars \/ ReloadAuth \/ ServerStep
  <2>1. UNCHANGED <<pc, reply, scope, input, selectorRules, rulesSince>>
    BY <1>4 DEF vars, requestVars, policyVars, historyVars, ReloadAuth, Reload,
           ServerStep, MarkShuttingDown, StopAccepting, ServeReturns, Exited
  <2>2. QED
    BY <1>2, <1>3, <2>1
<1>5. CASE ReloadSelector
  <2>1. UNCHANGED <<pc, reply, scope, input>>
    BY <1>5 DEF ReloadSelector, Reload, requestVars
  <2>2. \A q \in Requests :
           /\ rulesSince[q] \subseteq rulesSince'[q]
           /\ pc[q] = "admitted" => selectorRules' \in rulesSince'[q]
    BY <1>5 DEF ReloadSelector, PermitHolders
  <2>3. \A q \in Requests : Cleared(q) => Cleared(q)'
    BY <2>1, <2>2, ClearedStays
  <2>4. QED
    BY <1>1, <1>2, <2>1, <2>2, <2>3
<1>6. ASSUME NEW r \in Requests, Arrive(r) \/ Authenticate(r) \/ BodyRead(r) PROVE RulesInv'
  <2>1. UNCHANGED <<reply, selectorRules, rulesSince>>
    BY <1>6 DEF Arrive, Authenticate, BodyRead, policyVars, historyVars
  <2>2. \A q \in Requests \ {r} : pc'[q] = pc[q] /\ scope'[q] = scope[q] /\ input'[q] = input[q]
    BY <1>6 DEF Arrive, Authenticate, BodyRead, Goto, TypeInv, OnRequests
  <2>3. pc'[r] \in {"arrived", "body", "decoded"} /\ reply'[r] = None
    BY <1>6, <2>1 DEF Arrive, Authenticate, BodyRead, Goto, TypeInv, ScopeInv
  <2>4. QED
    BY <1>2, <1>3, <2>1, <2>2, <2>3, ServiceAssumption
<1>7. ASSUME NEW r \in Requests, Admit(r) PROVE RulesInv'
  <2>1. UNCHANGED <<reply, scope, input, selectorRules>>
    BY <1>7 DEF Admit, policyVars
  <2>2. \A q \in Requests \ {r} : pc'[q] = pc[q] /\ rulesSince'[q] = rulesSince[q]
    BY <1>7 DEF Admit, Goto, TypeInv, OnRequests
  <2>3. pc'[r] = "admitted" /\ reply'[r] = None /\ selectorRules \in rulesSince'[r]
    BY <1>7, <2>1 DEF Admit, Goto, TypeInv, OnRequests, ScopeInv
  <2>4. QED
    BY <1>2, <1>3, <2>1, <2>2, <2>3, ServiceAssumption
<1>8. ASSUME NEW r \in Requests, CallProvider(r) PROVE RulesInv'
  <2>1. UNCHANGED <<reply, scope, input, selectorRules, rulesSince>>
    BY <1>8 DEF CallProvider, policyVars, historyVars
  <2>2. \A q \in Requests \ {r} : pc'[q] = pc[q]
    BY <1>8 DEF CallProvider, Goto, TypeInv
  <2>3. pc[r] = "admitted" /\ pc'[r] = "provider"
    BY <1>8 DEF CallProvider, Goto, TypeInv
  <2>4. Cleared(r)
    BY <1>1, <1>8, <2>3 DEF CallProvider, Permitted, Cleared
  <2>5. Cleared(r)'
    BY <2>1, <2>4, ClearedStays
  <2>6. QED
    BY <1>2, <1>3, <2>1, <2>2, <2>3, <2>5
<1>9. ASSUME NEW r \in Requests, Ends(r) PROVE RulesInv'
  <2>1. PICK kind \in Replies \ {None} :
           Respond(r, kind) /\ (kind \in ProviderReplies => pc[r] = "provider")
    BY <1>9, EndsWithScope
  <2>2. UNCHANGED <<scope, input, selectorRules, rulesSince>>
    BY <2>1 DEF Respond, policyVars, historyVars
  <2>3. \A q \in Requests \ {r} : pc'[q] = pc[q] /\ reply'[q] = reply[q]
    BY <2>1 DEF Respond, TypeInv
  <2>4. pc'[r] = "done" /\ reply'[r] = kind
    BY <2>1 DEF Respond, TypeInv
  <2>5. kind \in ProviderReplies => Cleared(r)'
    BY <1>1, <2>1, <2>2, ClearedStays
  <2>6. QED
    BY <1>2, <1>3, <2>2, <2>3, <2>4, <2>5
<1>10. QED
  BY <1>4, <1>5, <1>6, <1>7, <1>8, <1>9, NextCases DEF Proceeds

-----------------------------------------------------------------------------
(* Theorems *)

(* So the invariant holds throughout. *)
LEMMA Inductive == Spec => []IInv
<1>1. Init => IInv
  BY TypeInit, PermitInit, CapabilitiesInit, ScopeInit, RulesInit DEF IInv
<1>2. IInv /\ [Next]_vars => IInv'
  BY TypeStep, PermitStep, CapabilitiesStep, ScopeStep, RulesStep DEF IInv
<1>3. QED
  BY <1>1, <1>2, PTL DEF Spec

(* Permits of resolve_semaphore: for any cap, any number of requests and   *)
(* every way a request can end, one is out exactly for each request        *)
(* between admission and answer.                                           *)
THEOREM PermitsAccountedHolds == Spec => []PermitsAccounted
<1>1. IInv => PermitsAccounted
  BY DEF IInv, PermitInv, PermitsAccounted
<1>2. QED
  BY <1>1, Inductive, PTL

(* Every variable of the service keeps its type; that a permit is never    *)
(* given back twice needs the accounting above.                            *)
THEOREM TypeCorrect == Spec => []TypeOK
<1>1. IInv => TypeOK
  <2> SUFFICES ASSUME IInv PROVE TypeOK
    OBVIOUS
  <2>1. Cardinality(PermitHolders) \in Nat
    BY FS_CardinalityType DEF IInv, PermitInv
  <2>2. available \in 0..Limit
    BY <2>1, ServiceAssumption DEF IInv, PermitInv, TypeInv
  <2>3. QED
    BY <2>2 DEF IInv, TypeInv, TypeOK, Places
<1>2. QED
  BY <1>1, Inductive, PTL

(* Whatever is reloaded while a request waits for its body or a permit, it *)
(* reaches the vault only if a policy of either kind, in force since it    *)
(* arrived or was admitted, allows its key.                                *)
THEOREM AllowedByBothPoliciesHolds == Spec => []AllowedByBothPolicies
<1>1. IInv => AllowedByBothPolicies
  <2> SUFFICES ASSUME IInv, NEW r \in Requests,
                      pc[r] = "provider" \/ reply[r] \in ProviderReplies
               PROVE  /\ \E rules \in rulesSince[r] : Allows(rules, input[r].key)
                      /\ \E caps \in authSince[r] :
                            LET s == ScopeFor(mode, input[r].headers, caps)
                            IN  s # None /\ ScopeAllows(s, input[r].key)
    BY DEF AllowedByBothPolicies
  <2>1. Scoped(r)
    BY ServiceAssumption DEF IInv, ScopeInv, HandlerReplies
  <2>2. Cleared(r)
    BY DEF IInv, RulesInv, Cleared
  <2>3. QED
    BY <2>1, <2>2 DEF Scoped, Cleared
<1>2. QED
  BY <1>1, Inductive, PTL

(* A caller that no policy in force since its arrival authenticates gets   *)
(* "auth", whatever else is wrong with the request or the server.          *)
THEOREM UnauthenticatedLearnsNothingHolds == Spec => []UnauthenticatedLearnsNothing
<1>1. IInv => UnauthenticatedLearnsNothing
  BY DEF IInv, ScopeInv, Scoped, UnauthenticatedLearnsNothing
<1>2. QED
  BY <1>1, Inductive, PTL

(* With any reloads, a token is in one capability at most, so that the     *)
(* last match of ScopedAuthRules::authorize is the only one.               *)
THEOREM TokenHasOneScopeHolds == Spec => []TokenHasOneScope
<1>1. IInv => TokenHasOneScope
  <2> SUFFICES ASSUME IInv, NEW r \in Requests
               PROVE  Cardinality(Matching(capabilities, BearerToken(input[r].headers))) <= 1
    BY DEF TokenHasOneScope
  <2> DEFINE matching == Matching(capabilities, BearerToken(input[r].headers))
  <2>1. \A i, j \in matching : i = j
    BY MatchingUnique DEF IInv, CapabilitiesInv
  <2>2. CASE matching = {}
    BY <2>2, FS_EmptySet
  <2>3. ASSUME NEW i \in matching PROVE Cardinality(matching) <= 1
    <3>1. matching = {i}
      BY <2>1, <2>3
    <3>2. Cardinality({i}) = 1
      BY FS_Singleton
    <3>3. Cardinality({i}) <= 1
      BY <3>2
    <3>4. QED
      BY ONLY <3>1, <3>3
  <2>4. QED
    BY <2>2, <2>3
<1>2. QED
  BY <1>1, Inductive, PTL

=============================================================================
