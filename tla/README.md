# TLA+ models of vaultwarden-eso-provider

The provider answers External Secrets Operator (ESO) webhook calls,
`POST /v1/resolve`, from a Bitwarden-compatible vault. These modules model the
parts of it whose correctness depends on order, time and failure, check them
with TLC on small instances, and prove their safety properties for every
instance with TLAPS.
Paths below are relative to `src/`; `api.rs`, `cipher.rs`, `lib.rs`, `crypto.rs`
and `keys.rs` are in `crates/bweso-bitwarden/src/`, `main.rs`, `auth.rs`,
`lifecycle.rs` and `metrics.rs` in `crates/vaultwarden-eso-provider/src/`.
`PROJECT.json` maps every definition to its lines.

## Inventory

| Component | State | Operations | What is hard | What makes it correct |
|---|---|---|---|---|
| Vault cache (`api.rs`) | `cache` (RwLock), `refresh_lock` with the retry deadline, `unlock_semaphore`, metric atomics | reuse, refresh (login, unlock, sync, install), stale fallback | every await is an interleaving point and a place where hyper may drop the request; the key derivation outlives its request; several deadlines | one refresh, one key derivation, bounded age, stale data only after transient failures, cooldown kept, nobody stuck |
| Item resolution (`lib.rs`, `api.rs`, `cipher.rs`) | none: a function of one snapshot | selector validation, lookup by id or name, decryption, extraction | ESO deletes on 404, so the kind of a failure matters; names and fields collide | 404 only for proven absence, never one of several, both ways to extract agree |
| Resolve handler (`main.rs`) | `resolve_semaphore`, the scope captured per request | authenticate, read body, admit, test policies, call provider, answer | scope captured before an await and used after it; permits; cancellation; drain at shutdown | both policies allow, permits accounted for, every request answered, server drains |
| Webhook authentication (`auth.rs`) | rules behind an RwLock'd Arc | validate a file, match a token | the last match is taken | a token has one scope |
| Policy hot reload (`main.rs`, `auth.rs`) | rules, files, gauges | tick, read files, compare, swap, record | volumes change at any moment; reads fail half-way | the last good policy stays, updates arrive, gauges agree |
| Shutdown broadcast (`lifecycle.rs`) | a flag and a `Notify` | mark, register, test, select | lost wakeups between threads | every task stops |
| Encrypted strings, key derivation, unlock (`crypto.rs`, `keys.rs`, `api.rs`) | none: a function of the token response and the password | parse, verify, decrypt, validate the KDF, derive, stretch, unwrap | parameters come from the server; boundaries; two fields, two salt forms | no derivation out of bounds or over budget; exactly the account's own key opens |
| Metrics (`metrics.rs`, `api.rs`) | maps of histograms, reload counts and timestamps behind a mutex; cache counters in relaxed atomics | record, baseline, load, clone, render | handler and middleware record at different moments; scrapes and dropped calls in between; a wall clock that is set | nothing lost or counted twice, scrapes monotone, ages off by no more than the clock was set |
| Startup (`main.rs`, `auth.rs`, `lib.rs`) | arguments, mounted files, the `AppState` being built | read secrets, check options, endpoints, policies, auth mode, wipe, spawn, bind; health check | files replaced between two reads; modes that exclude each other; crash and restart | serves only acceptable configurations, refuses no other, holds current secrets, comes up |

How they interact: the handler authenticates against the auth rules and tests
the selector rules, both of which the reload tasks swap as whole `Arc`s; it then
awaits the cache, which awaits the upstream server; the document is extracted
under a read guard from the immutable snapshot. `shutdown_signal` marks the
lifecycle, which readiness reports and the reload tasks wait for, and then lets
axum drain.

## Modules

| Module | Models | Extends |
|---|---|---|
| `VaultCache` | `BitwardenApiClient`'s cache | - |
| `VaultCacheProofs` | theorems about it | `VaultCache` |
| `VaultRegister` | what `BitwardenProvider::resolve` promises, without locks, logins or caches | - |
| `VaultCacheRefinement` | the mapping from `VaultCache` to `VaultRegister` | `VaultCache` |
| `VaultRefinementProofs` | the theorem that it is one | `VaultCacheProofs`, `VaultCacheRefinement` |
| `Lifecycle` | `mark_shutting_down` against the tasks' select loops | - |
| `PolicyReload` | both reload tasks, composed with their `Lifecycle` loop | `Lifecycle` |
| `PolicyReloadProofs` | theorems about it and about `Lifecycle` | `PolicyReload` |
| `AuthPolicy` | operators: rules, capabilities, tokens | - |
| `ResolveService` | the handler, under reloads and shutdown | `AuthPolicy` |
| `ResolveServiceProofs` | theorems about it | `ResolveService` |
| `CipherResolve` | operators: selector to answer | - |
| `CipherResolveProofs` | theorems about it | `CipherResolve`, `SetInduction` |
| `Unlock` | operators: token response and master password to user key | - |
| `Startup` | one pod from its arguments to the first unlock, through restarts | `Unlock` |
| `StartupProofs` | theorems about it and about `Unlock` | `Startup`, `SetInduction` |
| `Metrics` | the registry, what feeds it, and scrapes | - |
| `MetricsProofs` | theorems about it | `Metrics`, `SetInduction` |
| `SetInduction` | lemmas: induction, minima and maxima, sums over finite sets | - |
| `MC_*` | values of the constants for TLC | |

Definitions whose comment starts with "Mutant" stand before the definition they
break; only the mutation tests of `PROJECT.json` use them.

### VaultCache

A request is suspended at one of the awaits of `resolve_with_cached_sync` and
what it calls; a step runs from one await to the next, which is the atomicity a
tokio task has as far as the locks of this client go: no guard of the cache
RwLock is kept over an await, `refresh_lock` is (it is the variable `holder`).
`Cancel` drops a request at any await; if its blocking key derivation runs, the
task goes on as an `orphan` and keeps the permit. Vault contents are abstracted
to the instant at which the server took the snapshot. The server may answer,
fail in any way of `HttpErrors`, or let the call time out: `Tick` lets no call
grow older than the timeout.

Two simplifications: the `Instant::now()` of the second reuse test and that of
the cooldown test, a few instructions apart, are one tick; a completed call is
noticed within the tick its timeout ends in.

### VaultRegister

The cache as its callers may think of it: one register holding a snapshot of the
vault, which only moves forward, and requests that are asked, and then answered
from the register if it is recent enough for the moment they were asked, or
refused. `VaultCacheRefinement` maps the snapshot in the cache to the register
and every suspended place of a request to "waiting"; a request that finds no
vault (`MissingCachedSync`) maps to a status the register does not have. A
snapshot is recent enough for a request if it was taken after the request, or
less than timeout + ttl + stale window before it; with all windows zero only the
former.

### Lifecycle and PolicyReload

`Lifecycle` makes every access to the flag and the `Notify` a step. `TickWins`
may take a tick from the top of the select, because tokio polls the branches in
random order. `PolicyReload` fills the loop's body: one step per file, then the
comparison and swap, then the gauges. A volume is swapped as a whole
(`Swap`, the kubelet). Startup evaluates the sources before the tasks are
spawned, so `Init` has a valid policy in force. An unreadable, oversized or
unparsable file is `None`.

### ResolveService and AuthPolicy

One request per element of `Requests`; the auth mode is chosen in `Init`.
Reloads are single steps here (their detail is `PolicyReload`'s), so are calls
of the provider (`VaultCache`, `CipherResolve`). `Respond` is what returning
from the handler does: metrics, and the drop of the permit. `axum::serve` is
external: it stops accepting after `shutdown_signal` returns and returns when
nothing is in flight. Which check rejects an invalid policy file is not told
apart, all have the same effect; SHA-256 is taken to be injective.

### CipherResolve

The call works on one snapshot and is one step: `Init` takes a vault and a
`remoteRef` from `Cases`, `Call` computes the answer. Strings are sequences of
the pieces the code tells apart. An encrypted string carries the key it
decrypts under, so an item key that fails to unwrap and a field sealed under
another key both come out as decryption failures. A loop of the code is a
recursive function, its value at n what the loop has after n turns; the
properties compare the end with set definitions. White space is the piece "sp".
Ids in a vault are unique, as the server's primary keys are.

### Unlock

`unlock_session` as a function. Cryptography is a term algebra: a master key is
the record of password, salt, salt form and KDF that went into it, a MAC that of
its key and text, a ciphertext opens under the key it names. So a wrong salt,
password, parameter or key gives another term, and a swapped order of MAC and
padding another error. Parsing keeps headers, part counts and lengths. External:
the account and how a Bitwarden client seals its key (`AccountKey`, `Seal`).
`prelogin` and `master_password_authentication_hash` are not called by the
provider and are left out.

### Startup

`main` in its order, one step per file it opens or group of checks it makes; the
kubelet may replace the files (`Swap`), the process may be killed, its bind or
reqwest's client build fail (`Crash`) between any two, and it is restarted with
the same arguments. A
pod is its arguments and the server it talks to; `MC_Startup` takes two working
configurations with any two arguments changed, and one with every kind of
account and reply. `FirstUnlock` uses what was built: the URLs, the password, the
budget. The properties compare with `Acceptable`, a declarative definition of a
configuration that is to start; because each file is read once, at its own
moment, they speak of `Mixtures` of the states the files were in since the
start. A health check is a process with one argument and no other task; it is
modelled for what it does to the process, and no property is about its verdict.

### Metrics

Every call and every scrape passes the middleware, its handler and the
middleware again; a resolve passes the cache counters on its way. The registry
is one variable because it is behind one mutex; a scrape loads readiness, the
refresh timestamp, the age and the counters one by one before it clones the
registry. The four counters are one load: each only grows and nothing relates
them. Two clocks: durations are monotonic, ages are of the wall clock, which
`SetClockBack` and `SetClockForward` correct. History variables keep what really
happened (durations per call, the instant of a success, by how much the clock
was set in all), and the properties compare the registry and the scrapes with
it.

## Runs

| Run | Shows | Instance |
|---|---|---|
| `cache_safety` | one refresh and one key derivation at a time, no `MissingCachedSync`, the staleness bound, no regress, stale data only after transient failures, the cooldown; the refinement of `VaultRegister` | 3 requests, ttl 2, stale 1, retry 2, timeout 1, 5 ticks |
| `cache_disabled` | ttl and stale 0: every answer is younger than its request; the retry deadline overflows `Instant` and is dropped | 3 requests, all error kinds, 3 ticks |
| `cache_liveness` | every request ends | 2 requests, fairness |
| `cache_login_pressure`, `cache_age_limit` | statements of ADR 0005 the code does not keep (below) | 2 requests |
| `reload` | last good policy, gauges, no lost wakeup, both tasks stop without another tick, a valid update that stays comes into force | both policies, 2 swaps of volumes with unreadable, empty and equal-length files, fairness |
| `service_safety` | permits, both policies, unauthenticated callers, one scope per token | 2 requests, cap 1, 2 reloads, three modes |
| `service_liveness` | every request is answered, shutdown drains | 2 requests, no cap, stalled bodies |
| `item_resolution` | 404 only for absence, the right item, order irrelevant, extraction | all vaults of up to 3 small items; all items with up to 2 awkward fields |
| `metrics` | both families hold exactly the answered calls, agree in every scrape, scrapes are monotone, ages are off by no more than the clock was set | one call of any kind, two scrapes in sequence, 2 events (delay, clock set back or forward, reload, shutdown) |
| `startup` | which configurations serve and which are refused, current credentials, request URLs, allow-list entries, bounded derivation, exact unlock, the pod comes up | all pairs of changed arguments, 1 swap, 1 crash, fairness |
| `startup_loopback` | a list of `parse_named` that its comparison does not keep (below) | the same |

Bounds. Three requests are one that refreshes, one that waits for the lock and
one that arrives later; the cache has one entry and one lock, so more add
nothing new. Five ticks let an entry be fresh, stale, past its age limit, and be
refreshed after a cooldown. `InstantMax` is out of reach except in
`cache_disabled`, where it is below the retry interval. One permit and two
requests fill the semaphore. Two reloads put a change before and after each
captured scope. Three items are a match, a second match and something in the
way; two fields can collide in every manner. In `metrics` the scrapes are
sequential, as Prometheus's are, and a delay is either within the first bucket
or the last; 2 events put a success, two corrections of the clock, also one that
undoes the other, and a scrape in any order; the two policies are handled alike,
so one is enough. In `startup` one swap falls between any two reads, and one
crash anywhere. Requests are symmetric where a run says so; liveness runs use no
symmetry. `item_resolution` switches off the deadlock check because a call
computes one answer and stops.

Fairness. `VaultCache`: weak fairness of a request's own steps: tokio polls what
is woken, its mutex and semaphore are FIFO, reqwest ends a call by its timeout,
key derivation terminates. `Lifecycle`: weak fairness of the tasks' own steps
and of `notify_waiters` after the store; no tick is assumed, so shutdown must
work between two. `PolicyReload` takes the interval ticker as a premise of the
property about updates. `Startup`: the process runs, and the kubelet restarts
one that ended. `ResolveService`: handlers, the body timer, the provider
(`EveryRequestEnds`) and axum's drain. No fairness is given to clients,
cancellations, the server or the kubelet.

### Statements the code does not keep

- ADR 0005, "The retry interval bounds login pressure during an outage"
  (`docs/decisions/0005-bounded-stale-cache.md:47`). A refresh dropped in flight
  reaches neither branch that writes the deadline (`api.rs:274`), so a client
  that gives up makes room for the next login at once. What holds, and is
  proved, is `CooldownRespected`: after a refresh that *failed*.
- ADR 0005, "The provider never serves an entry after the combined age limit"
  (lines 24-25). The cache is read after an await, without a test of the age
  (`api.rs:240`): time may pass after the test that found the entry usable, or
  after the request's own refresh, which tests nothing. What holds, and is
  proved, is `StalenessBound`: age is bounded at the time the request arrived.
- `parse_named` lists `::1` among the hosts for which plain http is accepted
  (`lib.rs:63`; "HTTP is allowed only for localhost development endpoints",
  `lib.rs:46`), but compares the list with `Url::host_str`, which returns
  `[::1]`: `http://[::1]` is refused. `RefusesOnlyUnacceptable` and `ComesUp`
  hold for every other configuration.

Also met while modelling, and not held against a statement by a run:

- a success is recorded, and the cooldown cleared, before the await that installs
  the vault (`api.rs:280`), so a request dropped there leaves a last-success
  timestamp and no new vault;
- a custom field whose name has white space around it is in a whole-item document
  but out of reach of a property selector, which is trimmed;
- the selector policy has two files, opened one after the other (`main.rs:335`),
  so a reload may mix two states of the volume until the next tick;
  `LastGoodPolicy` says that each source is one the volume held. ADR 0004's "no
  torn read" is about one file, of which it is true;
- a wall clock that is set forward, also one whose earlier set-back is corrected,
  adds the correction to every age shown (`api.rs:671`, `metrics.rs:561`), so a
  staleness alert may fire though the refresh is recent; `AgesExplained` bounds
  the error by the corrections;
- the deadline of a cooldown that overflows `Instant` is dropped (`api.rs:288`),
  and with it the cooldown; `CooldownRespected` leaves that case out;
- an inline legacy token with white space in it is accepted at startup
  (`auth.rs:389`) and can authenticate nobody, because `bearer_token` rejects
  white space;
- while the wall clock is behind the last policy evaluation the age line is left
  out (`metrics.rs:561`), though `docs/operations/observability.md:62` says
  "Present for file-backed policy."; the cache age is 0 in that case;
- two policy files of different moments can be refused at startup although each
  state of the volume is acceptable; the restart recovers (`ComesUp`);
- the comment of `prelogin` (`api.rs:103`) says parameters are validated, the
  code only converts them; the provider does not call it.

## Proofs

`VaultCacheProofs` proves, for every number of requests, every configuration and
every behaviour of the server: `TypeOK`, `SingleFlight`, `OneUnlockTask`,
`NeverMissingSync`, `StalenessBound`, and the action properties
`CacheNeverRegresses`, `StaleOnlyAfterTransient` and `CooldownRespected`. It
assumes what `VaultCache` assumes of its constants: windows and bounds are
naturals, the clock stays below `InstantMax`, `None` is no value of another
kind, and unlock errors are told from HTTP errors.

None of these is inductive alone. The invariant `IInv` is built in layers:

1. `TypeInv`: types, and that a vault about to be installed has its snapshot;
2. `SingleFlight`, `PermitInv`, `OneUnlockTask`: who holds the lock and the
   permit. From here on the refresh is a sequential program: two requests in it
   are the same one;
3. `FilledInv`: whoever reads the cache finds it filled;
4. `AttemptInv`: the latest attempt is running while a request fetches; it failed
   for a transient reason while the entry may be served in deferral; its deadline
   is in the lock. This ties the entry's own `retryAfter`, the lock's deadline
   and the error, which the code keeps in different places;
5. `AgeInv`: arrival, call, snapshot, fetch and clock are in order, one timeout
   apart at most; the bound on the answer follows.

Each layer is shown inductive from those before it, one step per action;
`Inductive` combines them, and the action properties follow from `IInv` and the
few actions that write the cache, the stale counter and the login.

`VaultRefinementProofs` proves `CacheImplementsRegister`, `Spec =>
ImplementsRegister`, under the same assumptions and from the same `IInv`. The
initial state maps to the register's. A step that leaves the cache and the
mapped status of every request alone is a stutter; these are most of them, since
all suspended places map to "waiting". The others are an `Ask` (`Arrive`), an
`Install` (`Store`: `IInv` gives that the snapshot is not older than the one it
replaces nor from the future), an `Answer` (`ReadDocument`: the age invariant
gives that it is recent enough, `FilledInv` that there is one), a `Refuse` or a
`Tick`. `ServeStale` writes the entry's deadline only, which the register does
not have. What the theorem adds to the invariants is that answers come from the
register as it is at that step, and that no request is answered twice or lost.

`PolicyReloadProofs` proves `NoLostShutdown` of `Lifecycle` for any set of tasks:
the flag is set before the broadcast, so whoever sleeps after it registered
before it. It then proves `LastGoodPolicy`, `GaugesMatchPolicy`, `TypeOK` and,
for the tasks with the body of their loop, `NoLostShutdown` (every step of
`PolicyReload` is a step of `Lifecycle` or a stutter of it, so the broadcast's
invariant is reused). It holds for any number of policies, sources and updates;
the assumptions are that the sources of a policy are numbered from 1 and that its
inline entries have the same ones. `LastGoodPolicy` alone is not inductive, since
what is put in force is what was read in earlier steps while the volume moved on:
the invariant adds that every source read so far (`ReadSoFar`) is one the volume
held at some time, which stays true because `published` only grows (`HeldStays`).
When no source is left, what was read is complete (`AllRead`).

`ResolveServiceProofs` proves `PermitsAccounted`, `AllowedByBothPolicies`,
`UnauthenticatedLearnsNothing`, `TokenHasOneScope` and `TypeOK` for any number of
requests, any cap, any policies and any number of reloads. It assumes that the
labels the handler gives by itself are not among those the provider returns, as
is the case once the selector is validated. The parts of its invariant:

1. `PermitInv`: free permits and permit holders add up to the cap; the holders
   are a finite set, which is shown step by step since `Requests` need not be;
2. `CapabilitiesInv`: the capabilities in force come from a valid file, whose
   tokens are pairwise different (`MatchingUnique`), so a token has one scope;
3. `ScopeInv`: past authentication a request carries a scope that its token had
   under capabilities in force since it arrived. A reload may revoke the scope
   while the body is read; the history still has it;
4. `RulesInv`: at the provider and after it, a selector policy in force since
   admission and the captured scope both allow the key.

`MetricsProofs` proves `RegistryMatchesCalls`, `FamiliesAgree`,
`AgesExplained`, the action property `ScrapesMonotone` and that `TypeInv`
holds, for any set of calls (finite or not), outcomes, policies, durations and
settings of the clock in both directions. It assumes what `Metrics` does: the
bounds are naturals, `None` is not, and the clock is never set back before its
origin. Two inductive invariants:

1. `ScrapeInv`: each value a scrape has loaded (`LoadedBehind`), the scrape shown
   last (`ExposedBehind`) and each recorded success (`SuccessesBehind`) are behind
   what the registry, the counters and the clocks hold now, and a scrape that
   began after another one was shown has loaded nothing from before
   (`LoadedSince`). A scrape loads one thing at a time, so monotonicity needs the
   last one. An age needs that the wall clock is at every moment the monotonic one
   plus the corrections (`ClocksTyped`), at the moment of the success as well;
2. `RegistryInv`: each family is, label set by label set, the histogram of the
   durations of the calls recorded so far. Adding one call to a histogram is
   adding one element to a finite set and to a sum over it; `FamiliesAgree` follows
   because the calls in the HTTP family are among those in the resolve family and
   took no less time.

`CipherResolveProofs` proves all six properties of `item_resolution` for vaults of
any size, items with any number of fields and any selector. `CasesAssumption`
says what serde and the server guarantee: sequences, unique ids, flags that are
Booleans, and no value that is `None` itself. The argument is about the loops:
`resolve_synced_cipher_by_name` ends with an error exactly if something before it
does not decrypt or a second item matches, and else with the only match; the
loop over the custom fields ends with a document whose members are the outputs
read so far, or with the collision. Both are shown by induction on the number of
turns.

`StartupProofs` proves the seven safety properties of `startup` for any
arguments, files, accounts and answers, and any number of projections, crashes
and restarts. `CasesAssumption` gives arguments the types of `Args` and files
the shape of text; `ServerAssumption` says that an account is one a client set
up, and that the server cannot seal: a string it sends is the account's own, does
not verify, or was made with another salt. (An old string of the same account,
from before a change of its password, is excluded: with the old password still
mounted it would open.) The invariant `ProcessInv` follows the order of `main`:
past the step that reads a file, some state of the files since the start gave
what is in `app` (`CredentialsInv`, `ClientInv`, `RulesInv`, `AuthInv`), the
arguments are the pod's until they are wiped (`ArgsInv`), and a session was built
from `app` (`SessionInv`). Each file has its own state, because each is read at
its own moment; together they are the mixture of `ServesOnlyAcceptable`. The
other half of the work compares the code's functions with the declarative
definitions, for inputs of any length: trimming, secrets, endpoint paths, policy
files, the mode checks, the limits of the key derivation, and what opens under
which key (`SealedOpens`, `OpenedIsSealed`, `UnlockExact`).

`SetInduction` is what makes induction over data possible. The library's
induction theorems take an operator as a parameter, which the provers cannot
instantiate; its theorems on well-founded relations do not. So induction is done
on a least counterexample in a set (`LeastNatural`, `NatSetInduction`, and the
same for finite sets), that a recursive function exists is shown by building it
one argument at a time, and what `Min`, `Max` and `SumFunctionOnSet` of the
community modules return is proved once.

Every safety property of the runs that are expected to pass is proved, for every
value of the constants. Only model-checked: all liveness (`EveryRequestEnds`,
`ComesUp` and the like; the prover has no rule for fairness). `TypeOK` of
`PolicyReload` and `ResolveService` and `TypeInv` of `Metrics` are proved and not
part of a run.

## Not modelled

AES, HMAC, HKDF, Argon2, PBKDF2 and base64 themselves (terms in `Unlock`); what
clap and the URL parser accept; metric names, help texts, label escaping, build
information and uptime; wording, redaction and logging; zeroization of dropped
values (only that of the arguments is); `prelogin` and the authentication hash,
which the provider does not use; the Helm chart, manifests and release scripts.
ESO, the kubelet, hyper/axum and the Bitwarden-compatible server are external and
appear as what they may do.

## Plan

1. Done: `VaultCache` with its proofs, `Lifecycle`, `PolicyReload`, `AuthPolicy`,
   `ResolveService`, `CipherResolve`; the abstract `VaultRegister` with the proved
   refinement; `Unlock`, `Startup` and `Metrics`; the proofs of every safety
   property of these modules.
2. An abstract policy (one value, replaced as a whole) that `PolicyReload`
   implements for a one-file policy and whose swaps are `ResolveService`'s
   reloads, so that the two modules are tied together and the refinement is
   proved.
