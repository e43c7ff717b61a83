------------------------------ MODULE VaultCache ------------------------------
(***************************************************************************)
(* The vault cache of BitwardenApiClient (bweso-bitwarden/src/api.rs): one *)
(* unlocked session plus one encrypted sync response, shared by every      *)
(* resolve request of the process.  A request first tries to reuse the     *)
(* cache; if it cannot, it takes the refresh lock, looks again, and then   *)
(* logs in, unlocks the user key on a blocking thread and syncs the vault. *)
(* A failed refresh leaves a cooldown in the lock and may fall back to the *)
(* stale entry.                                                            *)
(*                                                                         *)
(* A request is one task of the async runtime.  It gives way only at an    *)
(* await, so a step of the model runs from one await to the next, and pc   *)
(* names the await a request is suspended at:                              *)
(*                                                                         *)
(*   new     not arrived yet                                               *)
(*   check   cache.read() of the first, unlocked reuse check               *)
(*   lock    refresh_lock.lock()                                           *)
(*   recheck cache.read() of the second reuse check, lock held             *)
(*   token   POST /connect/token in flight                                 *)
(*   permit  unlock_semaphore.acquire_owned()                              *)
(*   unlock  the blocking key-derivation task                              *)
(*   sync    GET /sync in flight                                           *)
(*   store   cache.write() that installs the fetched vault                 *)
(*   stale   cache.write() of serve_stale_after_error                      *)
(*   read    cache.read() of resolve_with_cached_sync                      *)
(*                                                                         *)
(* and, once it is over, how it ended: served, failed, throttled, missing, *)
(* cancelled, or orphan: its future was dropped but its blocking task      *)
(* still runs.  A guard of the cache RwLock is never held across an await, *)
(* so a critical section of it is a part of one step.                      *)
(*                                                                         *)
(* Time is a counter of ticks.  A vault's contents are abstracted to the   *)
(* instant at which the server took the snapshot it returned.              *)
(*                                                                         *)
(* A definition marked "Mutant" is wrong on purpose.  It stands before the *)
(* definition it is a mutation of, and nothing uses it but the mutation    *)
(* tests listed in PROJECT.json.                                           *)
(***************************************************************************)
EXTENDS Naturals, FiniteSets

CONSTANTS
    Requests,        \* resolve requests, each handled once
    None,            \* Rust's Option::None
    Ttl,             \* cache_config.ttl
    StaleIfError,    \* cache_config.stale_if_error
    RetryInterval,   \* cache_config.refresh_retry_interval
    Skew,            \* TOKEN_EXPIRY_REFRESH_SKEW
    HttpTimeout,     \* http_config.request_timeout, for each HTTP call
    InstantMax,      \* the largest Instant the platform represents
    MaxTime,         \* bound on the clock
    ExpiresIn,       \* the values of expires_in a token response may carry
    HttpErrors,      \* how a call to the server may fail
    UnlockErrors     \* how the local unlock may fail

(* An error as permits_stale_cache sees it: the variant, and the status    *)
(* code where the variant is HttpStatus.                                   *)
ErrorKinds == {"Http", "HttpStatus", "ResponseTooLarge", "InvalidJson", "Unlock"}

Errors == [kind : ErrorKinds, status : Nat]

ASSUME ConfigAssumption ==
    /\ Ttl \in Nat /\ StaleIfError \in Nat /\ RetryInterval \in Nat
    /\ Skew \in Nat /\ HttpTimeout \in Nat
    /\ InstantMax \in Nat /\ MaxTime \in Nat
    /\ MaxTime <= InstantMax

ASSUME ServerAssumption ==
    /\ ExpiresIn \subseteq Nat \cup {None}
    /\ HttpErrors \subseteq Errors
    /\ UnlockErrors \subseteq Errors
    /\ \A e \in HttpErrors : e.kind # "Unlock"
    /\ \A e \in UnlockErrors : e.kind = "Unlock"

ASSUME NoneAssumption ==
    None \notin Requests /\ None \notin Nat /\ None \notin Errors

VARIABLES
    now,        \* the clock behind Instant::now()
    cache,      \* cache: Option<CachedVault>
    retryAfter, \* the Option<Instant> inside refresh_lock
    holder,     \* who holds refresh_lock
    permits,    \* free permits of unlock_semaphore
    metrics,    \* CacheMetricState
    pc,         \* the await each request is suspended at
    fetch,      \* what each request keeps on its stack while it refreshes
    arrivedAt,  \* history: when each request arrived
    served,     \* history: the snapshot each request was answered from
    attempt     \* history: the latest login that no success has followed

client == <<cache, retryAfter, holder, permits, metrics>>
history == <<arrivedAt, served, attempt>>
vars == <<now, cache, retryAfter, holder, permits, metrics, pc, fetch,
          arrivedAt, served, attempt>>

-----------------------------------------------------------------------------
(* States *)

Refreshing == {"recheck", "token", "permit", "unlock", "sync", "store", "stale"}
Suspended == {"check", "lock", "read"} \cup Refreshing
Finished == {"served", "failed", "throttled", "missing", "cancelled"}
States == {"new", "orphan"} \cup Suspended \cup Finished

(* CachedVault: the session's expiry, the sync response, the three         *)
(* Instants.                                                               *)
Vaults == [syncedAt : Nat, fetchedAt : Nat, expiresAt : Nat \cup {None},
           retryAfter : Nat \cup {None}]

ASSUME VaultAssumption == None \notin Vaults

(* A refresh in progress: the last Instant the request read and still      *)
(* needs (when its HTTP call was sent, when the vault was fetched, when    *)
(* the stale fallback was considered), the session's expires_in, and the   *)
(* instant the server answered the sync with.                              *)
Fetches == [instant : Nat, expiresIn : Nat \cup {None}, syncedAt : Nat \cup {None}]
FetchAt(t) == [instant |-> t, expiresIn |-> None, syncedAt |-> None]
NoFetch == FetchAt(0)

Metrics == [cache_hits : Nat, refresh_successes : Nat, refresh_failures : Nat,
            stale_serves : Nat, last_success : Nat \cup {None}]

Attempts == [result : {"none", "running", "failed", "cancelled"},
             loginAt : Nat, endedAt : Nat, err : Errors \cup {None}]
NoAttempt == [result |-> "none", loginAt |-> 0, endedAt |-> 0, err |-> None]
Ended(result, e) ==
    [result |-> result, loginAt |-> attempt.loginAt, endedAt |-> now, err |-> e]

Init ==
    /\ now = 0
    /\ cache = None
    /\ retryAfter = None
    /\ holder = None
    /\ permits = 1
    /\ metrics = [cache_hits |-> 0, refresh_successes |-> 0,
                  refresh_failures |-> 0, stale_serves |-> 0,
                  last_success |-> None]
    /\ pc = [r \in Requests |-> "new"]
    /\ fetch = [r \in Requests |-> NoFetch]
    /\ arrivedAt = [r \in Requests |-> 0]
    /\ served = [r \in Requests |-> None]
    /\ attempt = NoAttempt

-----------------------------------------------------------------------------
(* Instants and the entry's age *)

(* Instant::checked_add. *)
CheckedAdd(t, d) == IF t + d <= InstantMax THEN t + d ELSE None

(* Mutant: an entry whose age is the TTL still counts as fresh. *)
IsFreshLate(v, t) ==
    /\ t <= v.fetchedAt + Ttl
    /\ v.expiresAt # None => t + Skew < v.expiresAt

(* CachedVault::is_fresh_at.  A zero TTL makes the age test fail by        *)
(* itself.  Instants reach back past the start of the process, so          *)
(* checked_sub of the skew does not underflow.                             *)
IsFresh(v, t) ==
    /\ t < v.fetchedAt + Ttl
    /\ v.expiresAt # None => t + Skew < v.expiresAt

(* Mutant: the fallback forgets the entry's age. *)
IsWithinStaleUnbounded(v, t) == StaleIfError # 0

(* CachedVault::is_within_stale_if_error_at. *)
IsWithinStale(v, t) ==
    /\ StaleIfError # 0
    /\ t < v.fetchedAt + Ttl + StaleIfError

(* CachedVault::can_defer_refresh_at. *)
CanDefer(v, t) ==
    /\ IsWithinStale(v, t)
    /\ v.retryAfter # None
    /\ t < v.retryAfter

(* Mutant: every status of the server is taken for a transient one. *)
PermitsStaleOnAnyStatus(e) == e.kind \in {"Http", "HttpStatus"}

(* permits_stale_cache of BitwardenApiError and BitwardenClientError. *)
PermitsStaleCache(e) ==
    \/ e.kind = "Http"
    \/ e.kind = "HttpStatus" /\ (e.status \in {408, 429} \/ e.status \in 500..599)

(* CachedVault::new of the session and sync response f, fetched at t. *)
NewVault(f, t) ==
    [syncedAt   |-> f.syncedAt,
     fetchedAt  |-> t,
     expiresAt  |-> IF f.expiresIn = None THEN None ELSE CheckedAdd(t, f.expiresIn),
     retryAfter |-> None]

-----------------------------------------------------------------------------
(* Steps of a request *)

Goto(r, to) == pc' = [pc EXCEPT ![r] = to]

(* The future ends, or leaves ensure_fresh_cached_sync: every guard and    *)
(* buffer it owned is dropped, the guard of refresh_lock included.         *)
Leave(r, to) ==
    /\ Goto(r, to)
    /\ holder' = IF holder = r THEN None ELSE holder
    /\ fetch' = [fetch EXCEPT ![r] = NoFetch]

Arrive(r) ==
    /\ pc[r] = "new"
    /\ Goto(r, "check")
    /\ arrivedAt' = [arrivedAt EXCEPT ![r] = now]
    /\ UNCHANGED <<now, client, fetch, served, attempt>>

(* reuse_cached_sync_if_available returns true, from either call. *)
ReuseFresh(r) ==
    /\ pc[r] \in {"check", "recheck"}
    /\ cache # None
    /\ IsFresh(cache, now)
    /\ metrics' = [metrics EXCEPT !.cache_hits = @ + 1]
    /\ Leave(r, "read")
    /\ UNCHANGED <<now, cache, retryAfter, permits, history>>

ReuseDeferred(r) ==
    /\ pc[r] \in {"check", "recheck"}
    /\ cache # None
    /\ ~IsFresh(cache, now)
    /\ CanDefer(cache, now)
    /\ metrics' = [metrics EXCEPT !.stale_serves = @ + 1]
    /\ Leave(r, "read")
    /\ UNCHANGED <<now, cache, retryAfter, permits, history>>

(* reuse_cached_sync_if_available returns false. *)
CannotReuse ==
    cache # None => ~IsFresh(cache, now) /\ ~CanDefer(cache, now)

MissCheck(r) ==
    /\ pc[r] = "check"
    /\ CannotReuse
    /\ Goto(r, "lock")
    /\ UNCHANGED <<now, client, fetch, history>>

(* tokio::sync::Mutex hands the lock to a waiter; the mutex itself is      *)
(* external.                                                               *)
AcquireLock(r) ==
    /\ pc[r] = "lock"
    /\ holder = None
    /\ holder' = r
    /\ Goto(r, "recheck")
    /\ UNCHANGED <<now, cache, retryAfter, permits, metrics, fetch, history>>

(* Mutant: the deadline is met one tick early. *)
InCooldownEarly == retryAfter # None /\ now + 1 < retryAfter

(* The deadline a failed refresh left in the lock is still ahead. *)
InCooldown == retryAfter # None /\ now < retryAfter

Throttle(r) ==
    /\ pc[r] = "recheck"
    /\ CannotReuse
    /\ InCooldown
    /\ Leave(r, "throttled")
    /\ UNCHANGED <<now, cache, retryAfter, permits, metrics, history>>

(* fetch_vault begins: login_with_api_key sends the token request. *)
StartLogin(r) ==
    /\ pc[r] = "recheck"
    /\ CannotReuse
    /\ ~InCooldown
    /\ fetch' = [fetch EXCEPT ![r].instant = now]
    /\ attempt' = [result |-> "running", loginAt |-> now, endedAt |-> 0, err |-> None]
    /\ Goto(r, "token")
    /\ UNCHANGED <<now, client, arrivedAt, served>>

(* The token response is decoded; its expires_in is the server's choice. *)
TokenReply(r) ==
    /\ pc[r] = "token"
    /\ \E e \in ExpiresIn : fetch' = [fetch EXCEPT ![r].expiresIn = e]
    /\ Goto(r, "permit")
    /\ UNCHANGED <<now, client, history>>

(* Mutant: the permit is taken without waiting for it. *)
AcquirePermitUnguarded(r) ==
    /\ pc[r] = "permit"
    /\ permits' = permits - 1
    /\ Goto(r, "unlock")
    /\ UNCHANGED <<now, cache, retryAfter, holder, metrics, fetch, history>>

(* The permit moves into the blocking task, which starts. *)
AcquirePermit(r) ==
    /\ pc[r] = "permit"
    /\ permits > 0
    /\ permits' = permits - 1
    /\ Goto(r, "unlock")
    /\ UNCHANGED <<now, cache, retryAfter, holder, metrics, fetch, history>>

(* unlock_session returned the user key: the task drops the permit and the *)
(* sync request is sent.                                                   *)
UnlockDone(r) ==
    /\ pc[r] = "unlock"
    /\ permits' = permits + 1
    /\ fetch' = [fetch EXCEPT ![r].instant = now]
    /\ Goto(r, "sync")
    /\ UNCHANGED <<now, cache, retryAfter, holder, metrics, history>>

(* Mutant: a task nobody awaits any more leaks its permit. *)
OrphanLeaksPermit(r) ==
    /\ pc[r] = "orphan"
    /\ Goto(r, "cancelled")
    /\ UNCHANGED <<now, client, fetch, history>>

(* The blocking task of a dropped future runs to its end all the same. *)
OrphanDone(r) ==
    /\ pc[r] = "orphan"
    /\ permits' = permits + 1
    /\ Goto(r, "cancelled")
    /\ UNCHANGED <<now, cache, retryAfter, holder, metrics, fetch, history>>

(* External: the server takes the snapshot it will return. *)
ServerSync(r) ==
    /\ pc[r] = "sync"
    /\ fetch[r].syncedAt = None
    /\ fetch' = [fetch EXCEPT ![r].syncedAt = now]
    /\ UNCHANGED <<now, client, pc, history>>

(* Mutant: the lock is given back before the vault is installed. *)
SyncReplyUnlocks(r) ==
    /\ pc[r] = "sync"
    /\ fetch[r].syncedAt # None
    /\ fetch' = [fetch EXCEPT ![r].instant = now]
    /\ retryAfter' = None
    /\ metrics' = [metrics EXCEPT !.refresh_successes = @ + 1, !.last_success = now]
    /\ attempt' = NoAttempt
    /\ Goto(r, "store")
    /\ holder' = None
    /\ UNCHANGED <<now, cache, permits, arrivedAt, served>>

(* The sync response is decoded, fetch_vault returns the vault, and the    *)
(* success is recorded before the vault is installed.                      *)
SyncReply(r) ==
    /\ pc[r] = "sync"
    /\ fetch[r].syncedAt # None
    /\ fetch' = [fetch EXCEPT ![r].instant = now]
    /\ retryAfter' = None
    /\ metrics' = [metrics EXCEPT !.refresh_successes = @ + 1, !.last_success = now]
    /\ attempt' = NoAttempt
    /\ Goto(r, "store")
    /\ UNCHANGED <<now, cache, holder, permits, arrivedAt, served>>

(* fetch_vault fails with e: the cooldown starts, whatever the error, and  *)
(* serve_stale_after_error decides whether the stale entry may be used.    *)
(* A failure of the unlock task also drops the permit.                     *)
RefreshFails(r, e) ==
    /\ retryAfter' = CheckedAdd(now, RetryInterval)
    /\ metrics' = [metrics EXCEPT !.refresh_failures = @ + 1]
    /\ attempt' = Ended("failed", e)
    /\ IF PermitsStaleCache(e)
       THEN /\ Goto(r, "stale")
            /\ fetch' = [fetch EXCEPT ![r] = FetchAt(now)]
            /\ UNCHANGED holder
       ELSE Leave(r, "failed")
    /\ UNCHANGED <<now, cache, arrivedAt, served>>

CallFails(r) ==
    /\ pc[r] \in {"token", "sync"}
    /\ \E e \in HttpErrors : RefreshFails(r, e)
    /\ UNCHANGED permits

UnlockFails(r) ==
    /\ pc[r] = "unlock"
    /\ \E e \in UnlockErrors : RefreshFails(r, e)
    /\ permits' = permits + 1

Store(r) ==
    /\ pc[r] = "store"
    /\ cache' = NewVault(fetch[r], fetch[r].instant)
    /\ Leave(r, "read")
    /\ UNCHANGED <<now, retryAfter, permits, metrics, history>>

StaleUsable(r) == cache # None /\ IsWithinStale(cache, fetch[r].instant)

(* serve_stale_after_error past its write lock; the Instant it uses was    *)
(* read before the lock.                                                   *)
ServeStale(r) ==
    /\ pc[r] = "stale"
    /\ StaleUsable(r)
    /\ LET t == fetch[r].instant
           deadline == CheckedAdd(t, RetryInterval)
       IN  cache' = [cache EXCEPT !.retryAfter =
                        IF deadline = None THEN t ELSE deadline]
    /\ metrics' = [metrics EXCEPT !.stale_serves = @ + 1]
    /\ Leave(r, "read")
    /\ UNCHANGED <<now, retryAfter, permits, history>>

(* Mutant: the refusal is ignored and the request goes on to read. *)
StaleRefusedContinues(r) ==
    /\ pc[r] = "stale"
    /\ ~StaleUsable(r)
    /\ Leave(r, "read")
    /\ UNCHANGED <<now, cache, retryAfter, permits, metrics, history>>

StaleRefused(r) ==
    /\ pc[r] = "stale"
    /\ ~StaleUsable(r)
    /\ Leave(r, "failed")
    /\ UNCHANGED <<now, cache, retryAfter, permits, metrics, history>>

(* resolve_with_cached_sync takes its own look at the cache.  What it does *)
(* with the vault is local to the request.                                 *)
ReadDocument(r) ==
    /\ pc[r] = "read"
    /\ IF cache = None
       THEN Goto(r, "missing") /\ UNCHANGED served
       ELSE /\ Goto(r, "served")
            /\ served' = [served EXCEPT ![r] = cache.syncedAt]
    /\ UNCHANGED <<now, client, fetch, arrivedAt, attempt>>

(* External: the HTTP server drops the request's future at an await        *)
(* because its client went away.                                           *)
Cancel(r) ==
    /\ pc[r] \in Suspended
    /\ Leave(r, IF pc[r] = "unlock" THEN "orphan" ELSE "cancelled")
    /\ attempt' = IF pc[r] \in {"token", "permit", "unlock", "sync"}
                  THEN Ended("cancelled", None)
                  ELSE attempt
    /\ UNCHANGED <<now, cache, retryAfter, permits, metrics, arrivedAt, served>>

-----------------------------------------------------------------------------
(* Time passes.  reqwest fails a call that is older than the timeout, so   *)
(* no call outlives it.                                                    *)
Tick ==
    /\ now < MaxTime
    /\ \A r \in Requests :
          pc[r] \in {"token", "sync"} => now < fetch[r].instant + HttpTimeout
    /\ now' = now + 1
    /\ UNCHANGED <<client, pc, fetch, history>>

Advance(r) ==
    \/ ReuseFresh(r) \/ ReuseDeferred(r) \/ MissCheck(r)
    \/ AcquireLock(r) \/ Throttle(r) \/ StartLogin(r)
    \/ TokenReply(r) \/ AcquirePermit(r) \/ UnlockDone(r) \/ OrphanDone(r)
    \/ ServerSync(r) \/ SyncReply(r) \/ CallFails(r) \/ UnlockFails(r)
    \/ Store(r) \/ ServeStale(r) \/ StaleRefused(r) \/ ReadDocument(r)

(* Every request is over. *)
Quiescent ==
    /\ \A r \in Requests : pc[r] \in Finished
    /\ UNCHANGED vars

Next ==
    \/ Tick
    \/ Quiescent
    \/ \E r \in Requests : Arrive(r) \/ Advance(r) \/ Cancel(r)

Spec == Init /\ [][Next]_vars

(* The runtime polls a task that can go on, an HTTP call ends by its       *)
(* timeout at the latest, key derivation terminates and the lock is handed *)
(* to a waiter.  Nothing is assumed of clients, of cancellation or of the  *)
(* server.                                                                 *)
FairSpec == Spec /\ \A r \in Requests : WF_vars(Advance(r))

-----------------------------------------------------------------------------
(* Properties *)

(* Every variable has the type its Rust counterpart has. *)
TypeOK ==
    /\ now \in 0..MaxTime
    /\ cache \in Vaults \cup {None}
    /\ retryAfter \in Nat \cup {None}
    /\ holder \in Requests \cup {None}
    /\ permits \in Nat
    /\ metrics \in Metrics
    /\ pc \in [Requests -> States]
    /\ fetch \in [Requests -> Fetches]
    /\ arrivedAt \in [Requests -> Nat]
    /\ served \in [Requests -> Nat \cup {None}]
    /\ attempt \in Attempts

(* At most one request is past the refresh lock, whatever was cancelled,   *)
(* and only the one that holds it: ensure_fresh_cached_sync keeps its      *)
(* guard over every await until the vault is stored.                       *)
SingleFlight ==
    /\ \A r \in Requests : pc[r] \in Refreshing => holder = r
    /\ holder # None => pc[holder] \in Refreshing

(* Key derivation, which may take 1 GiB, runs at most once at a time, the  *)
(* tasks nobody awaits any more included (login_with_api_key).             *)
OneUnlockTask ==
    \A r, s \in Requests :
        pc[r] \in {"unlock", "orphan"} /\ pc[s] \in {"unlock", "orphan"} => r = s

(* resolve_with_cached_sync never meets the empty cache it has the error   *)
(* MissingCachedSync for: ensure_fresh_cached_sync returned Ok before, and *)
(* nothing empties the cache in between.                                   *)
NeverMissingSync == \A r \in Requests : pc[r] # "missing"

(* A request is answered from a snapshot younger, when the request         *)
(* arrived, than one HTTP call, the TTL and the stale window together;     *)
(* with the cache disabled, from a snapshot taken after it arrived.  It is *)
(* the bound the age tests of CachedVault add up to across the two calls   *)
(* of reuse_cached_sync_if_available, the fallback and the later read.     *)
StalenessBound ==
    \A r \in Requests : served[r] # None =>
        \/ arrivedAt[r] <= served[r]
        \/ /\ Ttl + StaleIfError > 0
           /\ arrivedAt[r] < served[r] + HttpTimeout + Ttl + StaleIfError

(* An installed vault is never replaced by an older snapshot, although the *)
(* installation is a step of its own after the fetch.                      *)
CacheNeverRegresses ==
    [][cache # None => cache' # None /\ cache'.syncedAt >= cache.syncedAt]_vars

(* What ADR 0005 calls a transient failure. *)
Transient(e) ==
    \/ e.kind = "Http"
    \/ e.kind = "HttpStatus" /\ (e.status = 408 \/ e.status = 429
                                 \/ (e.status >= 500 /\ e.status < 600))

(* A stale entry is served only while the latest login attempt is one that *)
(* failed for a transient reason: an authentication failure, a success or  *)
(* a cancelled attempt since then ends the deferral.                       *)
StaleOnlyAfterTransient ==
    [][metrics'.stale_serves # metrics.stale_serves =>
          attempt.result = "failed" /\ Transient(attempt.err)]_vars

LoginStarts == \E r \in Requests : pc[r] = "recheck" /\ pc'[r] = "token"

(* After a refresh failed, for whatever reason, no request logs in again   *)
(* before the retry interval is over, unless the deadline is past the last *)
(* representable Instant, where checked_add drops the cooldown.            *)
CooldownRespected ==
    [][LoginStarts /\ attempt.result = "failed"
          /\ attempt.endedAt + RetryInterval <= InstantMax
          => now >= attempt.endedAt + RetryInterval]_vars

(* Every request that arrived ends: no order of cancellations, failures    *)
(* and unlock tasks leaves the lock or the permit behind.                  *)
EveryRequestEnds ==
    \A r \in Requests : pc[r] = "check" ~> pc[r] \in Finished

-----------------------------------------------------------------------------
(* Statements of the repository that the code does not keep *)

(* ADR 0005: "The retry interval bounds login pressure during an outage":  *)
(* without a success in between, two logins are a retry interval apart.    *)
LoginPressureBounded ==
    [][LoginStarts /\ attempt.result # "none"
          => now >= attempt.loginAt + RetryInterval]_vars

(* ADR 0005: "The provider never serves an entry after the combined age    *)
(* limit."                                                                 *)
NeverServedPastAgeLimit ==
    [][served' # served => now < cache.fetchedAt + Ttl + StaleIfError]_vars

=============================================================================
