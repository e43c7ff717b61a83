-------------------------------- MODULE Startup --------------------------------
(***************************************************************************)
(* One pod of the provider: main from its arguments to the first unlock of *)
(* the vault, through crashes and restarts, while the kubelet replaces the *)
(* mounted files.  main reads every file once, one after the other, and    *)
(* ends with an error at the first thing that is wrong; the kubelet        *)
(* restarts it with the same arguments.  Once it serves, its credentials   *)
(* stay what they were at startup (the policies are PolicyReload's).       *)
(*                                                                         *)
(* pc is the next thing main does:                                         *)
(*                                                                         *)
(*   start                        Args::parse                              *)
(*   client_id, client_secret, master_password                             *)
(*                                read_sensitive_arg of each               *)
(*   options                      the checks up to the endpoints           *)
(*   certificates                 load_extra_root_certificates             *)
(*   client                       with_options                             *)
(*   selector                     SelectorPolicy::from_args                *)
(*   allowed_keys, allowed_key_prefixes                                    *)
(*                                PolicySources::evaluate, per file        *)
(*   auth                         WebhookAuth::from_config                 *)
(*   spawn, bind                  the rest of main                         *)
(*   serving                      axum::serve                              *)
(*   healthcheck, healthy         a process that is a health check         *)
(*   exited                       ended, by an error or a crash            *)
(*                                                                         *)
(* A file holds None when it cannot be read or parsed.  Which message an   *)
(* error has is not told apart.  A definition marked "Mutant" is wrong on  *)
(* purpose and used by mutation tests only.                                *)
(***************************************************************************)
EXTENDS Unlock, SequencesExt

CONSTANTS
    Cases,      \* pods: [args, files, account, unlock], see Init
    FileStates, \* what the kubelet may project later
    Replies,    \* what a health check may get: [version, class], or None
    MaxSwaps,   \* bound on projections
    MaxFaults   \* bound on crashes and failed binds

ASSUME StartupAssumption == MaxSwaps \in Nat /\ MaxFaults \in Nat

VARIABLES
    pod,        \* the arguments and the server, fixed
    files,      \* the mounted files now
    pc,
    args,       \* Args of this process
    app,        \* what this process has built so far (AppState and tasks)
    session,    \* what the first unlock of this process came to
    held,       \* history: the states of the files since it started
    refused,    \* history: it ended because of its configuration
    swaps, faults

vars == <<pod, files, pc, args, app, session, held, refused, swaps, faults>>

-----------------------------------------------------------------------------
(* Arguments *)

RequireNonEmpty(text) == Trim(text) # <<>>

(* Mutant: files are taken as they are. *)
TrimNothing(text) == text

(* trim_end_matches(['\r', '\n']) *)
TrimNewlines(text) ==
    LET keep == {i \in DOMAIN text : text[i] # "nl"}
    IN  IF keep = {} THEN <<>> ELSE SubSeq(text, 1, Max(keep))

(* read_optional_secret: the value or a file, not both, not blank.  A      *)
(* value is taken as it is, a file without its trailing newlines.          *)
OptionalSecret(arg, content) ==
    LET text == IF arg.inline # None THEN arg.inline ELSE TrimNewlines(content)
    IN  CASE arg.inline = None /\ ~arg.file -> Ok(None)
          [] arg.inline # None /\ arg.file -> Err("both")
          [] arg.inline = None /\ arg.file /\ content = None -> Err("unreadable")
          [] OTHER -> IF RequireNonEmpty(text) THEN Ok(text) ELSE Err("empty")

(* read_sensitive_arg: the same, and required. *)
SensitiveArg(arg, content) ==
    IF arg.inline = None /\ ~arg.file THEN Err("missing") ELSE OptionalSecret(arg, content)

Credentials == {"client_id", "client_secret", "master_password"}

(* Args::zeroize_sensitive *)
ZeroizeSensitive(a) ==
    [n \in DOMAIN a |-> IF n \in Credentials \cup {"webhook_auth_token"}
                        THEN [a[n] EXCEPT !.inline = None] ELSE a[n]]

-----------------------------------------------------------------------------
(* Endpoints.  A URL is None, "malformed" as its scheme, or a scheme, a    *)
(* host, its path as the segments between slashes ("" is an empty one) and *)
(* a query, or None.                                                       *)

(* What is between two slashes, or after the last one. *)
EmptySegment == ""

(* External: Url::host_str puts brackets around an IPv6 address. *)
HostStr(url) == IF url.host = "::1" THEN "[::1]" ELSE url.host

(* BitwardenEndpoint::parse_named *)
ValidEndpoint(url) ==
    /\ url.scheme # "malformed"
    /\ \/ url.scheme = "https"
       \/ url.scheme = "http" /\ HostStr(url) \in {"localhost", "127.0.0.1", "::1"}

(* Mutant: one trailing slash is cut off. *)
AppendAfterOneSlash(url, segments) ==
    LET n == Len(url.path)
        cut == IF n > 0 /\ url.path[n] = EmptySegment THEN n - 1 ELSE n
    IN  [url EXCEPT !.path = SubSeq(@, 1, cut) \o segments, !.query = None]

(* append_path_segments: all trailing slashes are cut off. *)
AppendPathSegments(url, segments) ==
    LET keep == {i \in DOMAIN url.path : url.path[i] # EmptySegment}
        path == IF keep = {} THEN <<>> ELSE SubSeq(url.path, 1, Max(keep))
    IN  [url EXCEPT !.path = path \o segments, !.query = None]

(* endpoint_url: pop_if_empty and push, for each request *)
EndpointUrl(url, segments) ==
    LET n == Len(url.path)
        base == IF n > 0 /\ url.path[n] = EmptySegment THEN SubSeq(url.path, 1, n - 1) ELSE url.path
    IN  [url EXCEPT !.path = base \o segments, !.query = None]

(* endpoints_from_args: one URL, or two, never a mixture. *)
Endpoints(a) ==
    CASE /\ a.single_origin_url # None
         /\ a.identity_url = None /\ a.api_url = None ->
            IF ValidEndpoint(a.single_origin_url)
            THEN Ok([identity |-> AppendPathSegments(a.single_origin_url, <<"identity">>),
                     api |-> AppendPathSegments(a.single_origin_url, <<"api">>)])
            ELSE Err("endpoint")
      [] /\ a.single_origin_url = None
         /\ a.identity_url # None /\ a.api_url # None ->
            IF ValidEndpoint(a.identity_url) /\ ValidEndpoint(a.api_url)
            THEN Ok([identity |-> AppendPathSegments(a.identity_url, <<>>),
                     api |-> AppendPathSegments(a.api_url, <<>>)])
            ELSE Err("endpoint")
      [] OTHER -> Err("endpoint_mode")

-----------------------------------------------------------------------------
(* The process *)

PolicyFiles == {"allowed_keys", "allowed_key_prefixes"}

NoApp ==
    [credentials |-> [n \in Credentials |-> None], endpoints |-> None,
     certificates |-> 0, budget |-> None, rules |-> None, auth |-> None,
     permits |-> None, baselines |-> {}, tasks |-> {}]

IsSequence(s) == s \in Seq(Range(s))

(* The files of a pod: texts without None, lines of texts, a number of     *)
(* certificates and a policy.                                              *)
WellFormedFiles(f) ==
    /\ DOMAIN f = Credentials \cup PolicyFiles
                    \cup {"webhook_auth_token", "ca_bundle", "auth_policy"}
    /\ \A n \in Credentials \cup {"webhook_auth_token"} :
          f[n] # None => IsSequence(f[n]) /\ TrimNewlines(f[n]) # None
    /\ \A n \in PolicyFiles :
          f[n] # None =>
             /\ IsSequence(f[n])
             /\ \A line \in Range(f[n]) :
                   IsSequence(line) /\ \A text \in Range(line) : IsSequence(text)

WellFormedUrl(url) ==
    url # None => DOMAIN url = {"scheme", "host", "path", "query"} /\ IsSequence(url.path)

(* The arguments of a pod, as Args::parse types them. *)
WellFormedArgs(a) ==
    /\ \A n \in Credentials \cup {"webhook_auth_token"} :
          /\ n \in DOMAIN a /\ DOMAIN a[n] = {"inline", "file"}
          /\ a[n].file \in BOOLEAN
          /\ a[n].inline # None => IsSequence(a[n].inline)
    /\ \A n \in PolicyFiles :
          /\ a[n].file \in BOOLEAN
          /\ IsSequence(a[n].inline)
          /\ \A text \in Range(a[n].inline) : IsSequence(text)
    /\ {a.ca_bundle_file, a.allow_all_selectors, a.auth_policy_file,
        a.insecure_allow_unauthenticated} \subseteq BOOLEAN
    /\ {a.http_connect_timeout_seconds, a.http_request_timeout_seconds,
        a.argon2_memory_limit_mib} \subseteq Nat
    /\ IsSequence(a.device_identifier) /\ IsSequence(a.device_name)
    /\ \A url \in {a.single_origin_url, a.identity_url, a.api_url} : WellFormedUrl(url)

ASSUME CasesAssumption ==
    /\ \A case \in Cases : WellFormedArgs(case.args) /\ WellFormedFiles(case.files)
    /\ \A f \in FileStates : WellFormedFiles(f)

(* An account as a client sets it up: an e-mail address without white      *)
(* space around it and parameters of one of the two functions.             *)
WellFormedAccount(account) ==
    /\ IsSequence(account.email)
    /\ account.email # <<>> =>
          account.email[1] \notin {"sp", "nl"} /\ account.email[Len(account.email)] \notin {"sp", "nl"}
    /\ account.kdf \in [type : {"pbkdf2"}, iterations : Nat]
                          \cup [type : {"argon2id"}, iterations : Nat, memory : Nat, parallelism : Nat]
    /\ Sealed(account) # None

(* A server holds no key, and no string of before the last change of the   *)
(* password: one it sends that is not the account's sealed key verifies    *)
(* under no key, or under one with another salt than the server announces. *)
Unforged(unlock, account) ==
    /\ IsSequence(unlock.salt)
    /\ \A raw \in {unlock.wrapped, unlock.encrypted} \ {None} :
          ParseEncrypted(raw).ok =>
             LET e == ParseEncrypted(raw).value
             IN  \/ raw = Sealed(account)
                 \/ e.mac.is # Hmac(e.mac.is.key, e.iv, e.data)
                 \/ e.mac.is.key.prk.salt.text # NormalizeSalt(unlock.salt)

ASSUME ServerAssumption ==
    /\ None \notin Nat
    /\ \A case \in Cases :
          /\ WellFormedAccount(case.account)
          /\ case.unlock # None => Unforged(case.unlock, case.account)

Init ==
    /\ \E case \in Cases :
          /\ pod = [args |-> case.args, account |-> case.account, unlock |-> case.unlock]
          /\ files = case.files
    /\ pc = "start"
    /\ args = pod.args
    /\ app = NoApp
    /\ session = None
    /\ held = {files}
    /\ refused = FALSE
    /\ swaps = 0 /\ faults = 0

Continue(from, to) ==
    /\ pc = from
    /\ pc' = to
    /\ UNCHANGED <<pod, files, session, held, refused, swaps, faults>>

(* main returns an error: the process is gone. *)
Refuse(from) ==
    /\ pc = from
    /\ pc' = "exited"
    /\ refused' = TRUE
    /\ args' = None
    /\ app' = NoApp
    /\ UNCHANGED <<pod, files, session, held, swaps, faults>>

(* Mutant: the secrets are wiped before they are read. *)
StartWiped ==
    /\ Continue("start", IF args.healthcheck_url # None THEN "healthcheck" ELSE "client_id")
    /\ args' = ZeroizeSensitive(args)
    /\ UNCHANGED app

(* A process with a health check URL is a probe and nothing else. *)
Start ==
    /\ Continue("start", IF args.healthcheck_url # None THEN "healthcheck" ELSE "client_id")
    /\ UNCHANGED <<args, app>>

(* run_healthcheck: plain http only, and the status line is all that       *)
(* counts of the reply.  None stands for no connection, no answer within   *)
(* two seconds, or an empty one.                                           *)
Healthy(url, reply) ==
    /\ url.scheme = "http"
    /\ reply # None
    /\ reply.version \in {"1.0", "1.1"} /\ reply.class = 2

Healthcheck ==
    pc = "healthcheck" /\ \E reply \in Replies :
        \/ /\ Healthy(args.healthcheck_url, reply)
           /\ Continue("healthcheck", "healthy")
           /\ UNCHANGED <<args, app>>
        \/ ~Healthy(args.healthcheck_url, reply) /\ Refuse("healthcheck")

(* provider_from_args: the three secrets, in order *)
ReadCredential(name, next) ==
    LET secret == SensitiveArg(args[name], files[name])
    IN  \/ /\ pc = name /\ secret.ok
           /\ Continue(name, next)
           /\ app' = [app EXCEPT !.credentials[name] = secret.value]
           /\ UNCHANGED args
        \/ pc = name /\ ~secret.ok /\ Refuse(name)

ReadCredentials ==
    \/ ReadCredential("client_id", "client_secret")
    \/ ReadCredential("client_secret", "master_password")
    \/ ReadCredential("master_password", "options")

(* provider_from_args: device, timeouts, endpoints *)
ValidOptions(a) ==
    /\ RequireNonEmpty(a.device_identifier) /\ RequireNonEmpty(a.device_name)
    /\ a.http_connect_timeout_seconds # 0 /\ a.http_request_timeout_seconds # 0
    /\ Endpoints(a).ok

CheckOptions ==
    \/ /\ pc = "options" /\ ValidOptions(args)
       /\ Continue("options", "certificates")
       /\ app' = [app EXCEPT !.endpoints = Endpoints(args).value]
       /\ UNCHANGED args
    \/ pc = "options" /\ ~ValidOptions(args) /\ Refuse("options")

(* load_extra_root_certificates: a bundle without any is an error. *)
LoadCertificates ==
    LET bundle == IF args.ca_bundle_file THEN files.ca_bundle ELSE 0
        valid == args.ca_bundle_file => bundle \notin {None, 0}
    IN  \/ /\ pc = "certificates" /\ valid
           /\ Continue("certificates", "client")
           /\ app' = [app EXCEPT !.certificates = bundle]
           /\ UNCHANGED args
        \/ pc = "certificates" /\ ~valid /\ Refuse("certificates")

(* Mutant: the lower bound is excluded. *)
MemoryLimitAbove(limit) == limit \in 17..1024

ValidMemoryLimit(limit) == limit \in 16..1024

(* BitwardenApiClient::with_options *)
BuildClient ==
    \/ /\ pc = "client" /\ ValidMemoryLimit(args.argon2_memory_limit_mib)
       /\ Continue("client", "selector")
       /\ app' = [app EXCEPT !.budget = args.argon2_memory_limit_mib]
       /\ UNCHANGED args
    \/ pc = "client" /\ ~ValidMemoryLimit(args.argon2_memory_limit_mib) /\ Refuse("client")

HasFile(a) == \E n \in PolicyFiles : a[n].file

(* from_args: a list or allow-all, not both and not neither *)
OneSelectorMode(a) ==
    a.allow_all_selectors # (HasFile(a) \/ \E n \in PolicyFiles : a[n].inline # <<>>)

(* normalize_policy_entries *)
Normalized(entries) == [i \in DOMAIN entries |-> Trim(entries[i])]

ValidInline(a) ==
    \A n \in PolicyFiles : \A i \in DOMAIN a[n].inline : RequireNonEmpty(a[n].inline[i])

SelectorPolicy ==
    LET valid == OneSelectorMode(args) /\ ValidInline(args)
    IN  \/ /\ pc = "selector" /\ valid
           /\ IF args.allow_all_selectors
              THEN /\ Continue("selector", "auth")
                   /\ app' = [app EXCEPT !.rules = "AllowAll"]
              ELSE /\ Continue("selector", "allowed_keys")
                   /\ app' = [app EXCEPT !.rules =
                                 [n \in PolicyFiles |-> Normalized(args[n].inline)]]
           /\ UNCHANGED args
        \/ pc = "selector" /\ ~valid /\ Refuse("selector")

Commented(line) == Trim(line[1]) # <<>> /\ Head(Trim(line[1])) = "#"

(* Mutant: what is between two commas is always an entry. *)
PolicyEntriesWithBlanks(lines) ==
    FlattenSeq([i \in DOMAIN lines |->
                   IF Commented(lines[i]) THEN <<>> ELSE Normalized(lines[i])])

(* read_policy_file: a file is a sequence of lines, a line a sequence of   *)
(* texts between commas.  entries[n] is what a loop has after n turns.     *)
LineEntries(line) ==
    LET entries[n \in 0..Len(line)] ==
            IF n = 0 THEN <<>>
            ELSE IF Trim(line[n]) = <<>> THEN entries[n - 1]
            ELSE Append(entries[n - 1], Trim(line[n]))
    IN  entries[Len(line)]

PolicyEntries(lines) ==
    LET entries[n \in 0..Len(lines)] ==
            IF n = 0 THEN <<>>
            ELSE IF Commented(lines[n]) THEN entries[n - 1]
            ELSE entries[n - 1] \o LineEntries(lines[n])
    IN  entries[Len(lines)]

(* PolicySources::evaluate: one file and then the other; in the end there  *)
(* must be an entry.                                                       *)
ReadPolicy(name, next) ==
    LET readable == args[name].file => files[name] # None
        entries == IF args[name].file THEN PolicyEntries(files[name]) ELSE <<>>
        rules == [app.rules EXCEPT ![name] = @ \o entries]
        valid == readable /\ (next = "auth" => \E n \in PolicyFiles : rules[n] # <<>>)
    IN  \/ /\ pc = name /\ valid
           /\ Continue(name, next)
           /\ app' = [app EXCEPT !.rules = rules]
           /\ UNCHANGED args
        \/ pc = name /\ ~valid /\ Refuse(name)

ReadPolicies ==
    \/ ReadPolicy("allowed_keys", "allowed_key_prefixes")
    \/ ReadPolicy("allowed_key_prefixes", "auth")

(* Mutant: the token wins over the other modes. *)
AuthTokenFirst(a, f) ==
    LET token == OptionalSecret(a.webhook_auth_token, f.webhook_auth_token)
    IN  CASE token.ok /\ token.value # None -> Ok([mode |-> "legacy", token |-> token.value])
          [] token.ok /\ token.value = None /\ a.auth_policy_file /\ f.auth_policy # None ->
                Ok([mode |-> "scoped", policy |-> f.auth_policy])
          [] token.ok /\ token.value = None /\ ~a.auth_policy_file
                /\ a.insecure_allow_unauthenticated -> Ok([mode |-> "disabled_insecure"])
          [] OTHER -> Err("auth")

(* WebhookAuth::from_config: exactly one mode.  The token's file is read   *)
(* even if another mode makes it an error.                                 *)
WebhookAuth(a, f) ==
    LET token == OptionalSecret(a.webhook_auth_token, f.webhook_auth_token)
        legacy == token.value # None
    IN  CASE ~token.ok -> token
          [] token.ok /\ legacy /\ ~a.auth_policy_file /\ ~a.insecure_allow_unauthenticated ->
                Ok([mode |-> "legacy", token |-> token.value])
          [] token.ok /\ ~legacy /\ a.auth_policy_file
                /\ ~a.insecure_allow_unauthenticated /\ f.auth_policy # None ->
                Ok([mode |-> "scoped", policy |-> f.auth_policy])
          [] token.ok /\ ~legacy /\ ~a.auth_policy_file /\ a.insecure_allow_unauthenticated ->
                Ok([mode |-> "disabled_insecure"])
          [] OTHER -> Err("auth")

ConfigureAuth ==
    LET auth == WebhookAuth(args, files)
    IN  \/ /\ pc = "auth" /\ auth.ok
           /\ Continue("auth", "spawn")
           /\ app' = [app EXCEPT !.auth = auth.value]
           /\ UNCHANGED args
        \/ pc = "auth" /\ ~auth.ok /\ Refuse("auth")

(* The policies with a file, and those of them that are reloaded: with an  *)
(* interval of zero a policy stays what it was at startup.                 *)
FileBacked(a) ==
    {p \in {"selector", "auth"} :
        (p = "selector" /\ HasFile(a)) \/ (p = "auth" /\ a.auth_policy_file)}

(* main after AppState is built: secrets wiped, baselines recorded, tasks  *)
(* spawned.                                                                *)
Spawn ==
    /\ Continue("spawn", "bind")
    /\ args' = ZeroizeSensitive(args)
    /\ app' = [app EXCEPT
                  !.permits = IF args.resolve_concurrency_limit > 0
                              THEN args.resolve_concurrency_limit ELSE None,
                  !.baselines = FileBacked(args),
                  !.tasks = {p \in FileBacked(args) : args.reload_interval_seconds[p] > 0}]

Bind ==
    /\ Continue("bind", "serving")
    /\ UNCHANGED <<args, app>>

(* The first resolve: login, unlock and sync with the URLs of the client.  *)
FirstUnlock ==
    /\ pc = "serving" /\ session = None
    /\ session' = [login  |-> EndpointUrl(app.endpoints.identity, <<"connect", "token">>),
                   sync   |-> [EndpointUrl(app.endpoints.api, <<"sync">>) EXCEPT
                                  !.query = "excludeDomains=true"],
                   unlock |-> UnlockSession(pod.unlock, app.credentials.master_password,
                                            app.budget)]
    /\ UNCHANGED <<pod, files, pc, args, app, held, refused, swaps, faults>>

-----------------------------------------------------------------------------
(* The environment *)

(* External: the process is killed, the address is in use, or reqwest      *)
(* cannot build its client (with_options returns that as an error).        *)
Crash ==
    /\ pc \notin {"exited", "healthy"}
    /\ faults < MaxFaults
    /\ faults' = faults + 1
    /\ pc' = "exited"
    /\ args' = None
    /\ app' = NoApp
    /\ session' = None
    /\ UNCHANGED <<pod, files, held, refused, swaps>>

(* External: the kubelet restarts the container, or probes again, with the *)
(* same arguments.                                                         *)
Restart ==
    /\ pc \in {"exited", "healthy"}
    /\ pc' = "start"
    /\ args' = pod.args
    /\ app' = NoApp
    /\ session' = None
    /\ held' = {files}
    /\ refused' = FALSE
    /\ UNCHANGED <<pod, files, swaps, faults>>

(* External: the kubelet projects Secrets and ConfigMaps. *)
Swap ==
    /\ swaps < MaxSwaps
    /\ swaps' = swaps + 1
    /\ files' \in FileStates \ {files}
    /\ held' = held \cup {files'}
    /\ UNCHANGED <<pod, pc, args, app, session, refused, faults>>

Step ==
    \/ Start \/ Healthcheck \/ ReadCredentials \/ CheckOptions \/ LoadCertificates
    \/ BuildClient \/ SelectorPolicy \/ ReadPolicies \/ ConfigureAuth
    \/ Spawn \/ Bind \/ FirstUnlock

(* Requests are ResolveService's. *)
Idle == pc = "serving" /\ session # None /\ UNCHANGED vars

Next == Step \/ Crash \/ Restart \/ Swap \/ Idle

(* A process runs, and one that ended is restarted. *)
Spec == Init /\ [][Next]_vars /\ WF_vars(Step) /\ WF_vars(Restart)

-----------------------------------------------------------------------------
(* Properties *)

(* What a secret is, given its argument and file: the value as it is, or   *)
(* the file up to the newlines at its end.                                 *)
IsSecret(secret, arg, content) ==
    \/ arg.inline # None /\ ~arg.file /\ secret = arg.inline
    \/ /\ arg.inline = None /\ arg.file /\ content # None
       /\ secret # <<>> => secret[Len(secret)] # "nl"
       /\ \E n \in 0..Len(content) : content = secret \o [i \in 1..n |-> "nl"]

Texts(arg, content) ==
    LET longest == IF arg.inline # None THEN arg.inline ELSE content
    IN  IF longest = None THEN {}
        ELSE {t \in {SubSeq(longest, 1, n) : n \in 0..Len(longest)} :
                 IsSecret(t, arg, content) /\ \E i \in DOMAIN t : t[i] \notin {"sp", "nl"}}

Exactly(n, modes) == Cardinality({m \in DOMAIN modes : modes[m]}) = n

(* Plain http is for the hosts that are this machine. *)
Usable(url) ==
    /\ url # None
    /\ \/ url.scheme = "https"
       \/ url.scheme = "http" /\ url.host \in {"localhost", "127.0.0.1", "::1"}

(* Some URL is plain http to the loopback address of IPv6. *)
Ipv6Loopback(a) ==
    \E url \in {a.single_origin_url, a.identity_url, a.api_url} :
        url # None /\ url.scheme = "http" /\ url.host = "::1"

(* The entries that stand in a policy file. *)
Written(lines) ==
    (UNION {{Trim(line[i]) : i \in DOMAIN line} :
               line \in {l \in Range(lines) : ~Commented(l)}}) \ {<<>>}

(* The arguments and files with which the provider is to start. *)
Acceptable(a, f) ==
    /\ \A n \in Credentials : Texts(a[n], f[n]) # {}
    /\ \A t \in {a.device_identifier, a.device_name} : \E i \in DOMAIN t : t[i] \notin {"sp", "nl"}
    /\ a.http_connect_timeout_seconds > 0 /\ a.http_request_timeout_seconds > 0
    /\ Exactly(1, <<a.single_origin_url # None, a.identity_url # None \/ a.api_url # None>>)
    /\ Usable(a.single_origin_url) \/ (Usable(a.identity_url) /\ Usable(a.api_url))
    /\ a.ca_bundle_file => f.ca_bundle \notin {None, 0}
    /\ 16 <= a.argon2_memory_limit_mib /\ a.argon2_memory_limit_mib <= 1024
    /\ Exactly(1, <<a.allow_all_selectors,
                    \E n \in PolicyFiles : a[n].file \/ a[n].inline # <<>> >>)
    /\ \A n \in PolicyFiles : \A i \in DOMAIN a[n].inline :
          \E j \in DOMAIN a[n].inline[i] : a[n].inline[i][j] \notin {"sp", "nl"}
    /\ \A n \in PolicyFiles : a[n].file => f[n] # None
    /\ \/ a.allow_all_selectors
       \/ \E n \in PolicyFiles : a[n].inline # <<>> \/ (a[n].file /\ Written(f[n]) # {})
    /\ Exactly(1, <<a.webhook_auth_token.inline # None \/ a.webhook_auth_token.file,
                    a.auth_policy_file, a.insecure_allow_unauthenticated>>)
    /\ \/ a.webhook_auth_token.inline = None /\ ~a.webhook_auth_token.file
       \/ Texts(a.webhook_auth_token, f.webhook_auth_token) # {}
    /\ a.auth_policy_file => f.auth_policy # None

(* The state each file was in when it was read need not be the same.       *)
Mixtures == {[n \in DOMAIN files |-> pick[n][n]] : pick \in [DOMAIN files -> held]}

(* No process serves with a configuration that is not acceptable, whatever *)
(* is in doubt: modes that exclude each other, blank secrets, no selector  *)
(* entry, plain http to another host.                                      *)
ServesOnlyAcceptable ==
    pc = "serving" => \E f \in Mixtures : Acceptable(pod.args, f)

(* A process refuses only a configuration that was wrong while it started, *)
(* or that it took from files of different moments.  Plain http to the     *)
(* loopback address of IPv6 is left out: see AcceptsLoopback.              *)
RefusesOnlyUnacceptable ==
    refused /\ pod.args.healthcheck_url = None /\ ~Ipv6Loopback(pod.args) =>
        \E f \in Mixtures : ~Acceptable(pod.args, f)

(* The same for every host that parse_named lists as local.  It does not   *)
(* hold: parse_named compares host_str, which is "[::1]" and never "::1".  *)
AcceptsLoopback ==
    refused /\ pod.args.healthcheck_url = None =>
        \E f \in Mixtures : ~Acceptable(pod.args, f)

(* A process that serves has the credentials that were mounted since it    *)
(* was started, none from before a restart, newlines at the end of a file  *)
(* left out, and keeps no copy of a secret in its arguments.               *)
CredentialsCurrent ==
    pc = "serving" =>
        /\ \A n \in Credentials : \E f \in held :
              IsSecret(app.credentials[n], pod.args[n], f[n])
        /\ \A n \in Credentials \cup {"webhook_auth_token"} : args[n].inline = None

(* The path without the slashes at its end *)
Base(url) ==
    CHOOSE path \in {SubSeq(url.path, 1, n) : n \in 0..Len(url.path)} :
        /\ path # <<>> => path[Len(path)] # EmptySegment
        /\ \E n \in 0..Len(url.path) : url.path = path \o [i \in 1..n |-> EmptySegment]

(* Every request goes to the path of the server's API right below the      *)
(* configured base, however many slashes that ends with, and carries       *)
(* nothing of a configured query.                                          *)
RequestsReachApi ==
    session # None =>
        LET a == pod.args
            root(url, name) ==
                IF a.single_origin_url # None THEN Base(a.single_origin_url) \o <<name>>
                ELSE Base(url)
        IN  /\ session.login.path = root(a.identity_url, "identity") \o <<"connect", "token">>
            /\ session.login.query = None
            /\ session.sync.path = root(a.api_url, "api") \o <<"sync">>
            /\ session.sync.query = "excludeDomains=true"

(* The allow-list grants what is written, in the arguments or the files as *)
(* they were since the start, and nothing else: no entry that is commented *)
(* out and no empty one, which as a prefix would allow every key.          *)
GrantsOnlyWhatIsWritten ==
    pc = "serving" /\ ~pod.args.allow_all_selectors =>
        \A n \in PolicyFiles : \A entry \in Range(app.rules[n]) :
            /\ entry # <<>>
            /\ \/ \E text \in Range(pod.args[n].inline) : entry = Trim(text)
               \/ pod.args[n].file /\ \E f \in held : f[n] # None /\ entry \in Written(f[n])

(* No key is derived with more memory than the operator allows or with     *)
(* parameters out of bounds, whatever the server sends.                    *)
DerivationBounded ==
    session # None /\ session.unlock.ran # None =>
        Supported(session.unlock.ran, pod.args.argon2_memory_limit_mib)

(* The server sends the account as it is; the salt may have another case   *)
(* and white space around it.                                              *)
Announces(unlock, account) ==
    /\ \/ unlock.wrapped = Sealed(account)
       \/ unlock.wrapped = None /\ unlock.encrypted = Sealed(account)
    /\ \E i \in 1..Len(unlock.salt) + 1, j \in 0..Len(unlock.salt) :
          /\ Lower(SubSeq(unlock.salt, i, j)) = account.email
          /\ \A k \in DOMAIN unlock.salt \ (i..j) : unlock.salt[k] \in {"sp", "nl"}
    /\ unlock.kdf.iterations = account.kdf.iterations
    /\ \/ unlock.kdf.kdf_type = 0 /\ account.kdf.type = "pbkdf2"
       \/ /\ unlock.kdf.kdf_type = 1 /\ account.kdf.type = "argon2id"
          /\ unlock.kdf.memory = account.kdf.memory
          /\ unlock.kdf.parallelism = account.kdf.parallelism

(* The vault opens if, and only if, the server sent the account's sealed   *)
(* key, in either field and whatever the case and the white space of the   *)
(* salt, the parameters are supported and the mounted password is the      *)
(* account's; and what opens is the account's key.                         *)
UnlocksExactly ==
    session # None =>
        LET account == pod.account
            genuine == pod.unlock # None /\ Announces(pod.unlock, account)
            opens == /\ genuine
                     /\ app.credentials.master_password = account.password
                     /\ Supported(account.kdf, app.budget)
                     /\ account.userKey.length = 64
        IN  /\ session.unlock.key.ok <=> opens
            /\ session.unlock.key.ok => session.unlock.key.value = account.userKey

(* Once the files stay acceptable, the pod comes up, whatever it went      *)
(* through: refused starts, crashes, restarts in the middle of an update.  *)
(* Plain http to the loopback address of IPv6 is left out here as well.    *)
ComesUp ==
    (/\ swaps = MaxSwaps /\ Acceptable(pod.args, files)
     /\ pod.args.healthcheck_url = None /\ ~Ipv6Loopback(pod.args)) ~> pc = "serving"

=============================================================================
