------------------------------- MODULE Metrics -------------------------------
(***************************************************************************)
(* The metrics registry (metrics.rs), the handlers that feed it and the    *)
(* scrape that reads it (main.rs), while HTTP calls, reload tasks and      *)
(* scrapes run at once.  Everything in MetricsInner is behind one mutex;   *)
(* its closures cannot panic, so the branches for a poisoned lock are      *)
(* never taken.  The cache counters of the client are relaxed atomics      *)
(* outside of it (CacheMetricState in api.rs), loaded one by one.          *)
(*                                                                         *)
(* A call, a scrape as well, is in one of these places:                    *)
(*                                                                         *)
(*   idle        not sent yet                                              *)
(*   middleware  record_http_metrics has read the clock                    *)
(*   handler     the handler runs                                          *)
(*   counting    a refresh is counted, its timestamp not stored yet        *)
(*   failed      a refresh failed, the stale entry may still be used       *)
(*   resolved    the provider is done with the cache                       *)
(*   answered    the handler returned, the middleware has not recorded it  *)
(*   done        recorded                                                  *)
(*   cancelled   its future was dropped at an await                        *)
(*                                                                         *)
(* Instants are milliseconds of the monotonic clock, wall is SystemTime in *)
(* milliseconds since the epoch; it may be set, in either direction.  The  *)
(* counts of active rules are PolicyReload's gauges.  A definition marked  *)
(* "Mutant" is wrong on purpose and used by mutation tests only.           *)
(***************************************************************************)
EXTENDS Naturals, Sequences, FiniteSets, Functions

CONSTANTS
    None,
    Calls,       \* HTTP calls, each handled once
    Kinds,       \* Kinds[c]: what the call c may be
    After,       \* After[c]: the call its client waits for first, or None
    Outcomes,    \* how a resolve may end: [outcome, error_kind, status]
    Policies,    \* the selector policy and the auth policy
    WallStart,   \* SystemTime when the process starts
    Delays,      \* by how much time may advance at once
    SetBack,     \* by how much the wall clock may be set back
    SetForward,  \* by how much it may be set forward
    MaxEvents    \* bound on changes of the clocks, reloads and shutdown together

(* build_router: method and matched path of each kind of call, and the     *)
(* status where it does not depend on anything.                            *)
Endpoint ==
    [resolve      |-> [method |-> "POST", route |-> "/v1/resolve"],
     metrics      |-> [method |-> "GET",  route |-> "/metrics"],
     readyz       |-> [method |-> "GET",  route |-> "/readyz"],
     livez        |-> [method |-> "GET",  route |-> "/livez"],
     wrong_method |-> [method |-> "GET",  route |-> "/v1/resolve"],
     no_route     |-> [method |-> "GET",  route |-> "unmatched"]]

FixedStatus == [livez |-> 204, wrong_method |-> 405, no_route |-> 404]

ASSUME MetricsAssumption ==
    /\ \A c \in Calls : Kinds[c] \subseteq DOMAIN Endpoint /\ After[c] \in Calls \cup {None}
    /\ WallStart \in Nat /\ Delays \subseteq Nat
    /\ SetBack \in Nat /\ SetForward \in Nat /\ None \notin Nat
    /\ MaxEvents \in Nat /\ SetBack * MaxEvents \in 0..WallStart

VARIABLES
    now, wall,  \* the two clocks
    corrected,  \* history: by how much wall was set [forward, back] in all
    events,     \* changes of the clocks, reloads and shutdown so far
    inner,      \* MetricsInner
    atomics,    \* CacheMetricState
    ready,      \* Lifecycle::is_ready
    fileBacked, \* the policies that have a file, fixed at startup
    pc, kind,   \* where and what each call is
    instants,   \* when the middleware and the handler of each call started
    answer,     \* the status of its response, and of a resolve its labels
    took,       \* history: the durations recorded for the call
    loaded,     \* what a scrape has read so far
    exposed,    \* what the latest scrape showed
    since       \* history: the calls that arrived when it was over

clockVars == <<now, wall, corrected, events>>
callVars == <<pc, kind, instants, answer, took>>
scrapeVars == <<loaded, exposed, since>>
vars == <<clockVars, inner, atomics, ready, fileBacked, callVars, scrapeVars>>

-----------------------------------------------------------------------------
(* Histograms *)

HISTOGRAM_BUCKETS == <<5, 10, 25, 50, 100, 250, 500, 1000, 2500, 5000, 10000>>

EmptyHistogram ==
    [count |-> 0, sum |-> 0, buckets |-> [i \in DOMAIN HISTOGRAM_BUCKETS |-> 0]]

(* HistogramValues::observe: every bucket that fits is counted. *)
Observe(h, d) ==
    [count |-> h.count + 1, sum |-> h.sum + d,
     buckets |-> [i \in DOMAIN h.buckets |->
                    IF d <= HISTOGRAM_BUCKETS[i] THEN h.buckets[i] + 1 ELSE h.buckets[i]]]

(* entry(key).or_default().observe(duration) *)
Record(family, key, d) ==
    [k \in DOMAIN family \cup {key} |->
        IF k # key THEN family[k]
        ELSE Observe(IF key \in DOMAIN family THEN family[key] ELSE EmptyHistogram, d)]

(* append_histogram: the cumulative buckets, +Inf from the count. *)
HistogramLines(h) ==
    [le |-> Append(h.buckets, h.count), sum |-> h.sum, count |-> h.count]

(* render_http_metrics: a counter and a histogram for each set of labels;  *)
(* the counter is the histogram's count.                                   *)
HttpLines(family) == [k \in DOMAIN family |-> HistogramLines(family[k])]

(* render_resolve_metrics, with the labels of an outcome *)
ResolveLines(family) == [k \in DOMAIN family |-> HistogramLines(family[k])]

-----------------------------------------------------------------------------
(* Clocks *)

Seconds(ms) == ms \div 1000

(* A success as its holder remembers it, with the instant and the          *)
(* corrections made so far as history.                                     *)
Success == [wall |-> wall, at |-> now, corrected |-> corrected]

(* What happened since the success s: the time that really passed and the  *)
(* corrections of the wall clock.                                          *)
Elapsed(s) ==
    [real    |-> now - s.at,
     forward |-> corrected.forward - s.corrected.forward,
     back    |-> corrected.back - s.corrected.back]

(* Mutant: the subtraction wraps around (the width is scaled down). *)
CacheAgeWraps(ts) == (Seconds(wall) + 65536 - ts) % 65536

(* unix_now_seconds().saturating_sub(timestamp), both in whole seconds. *)
CacheAge(ts) == IF Seconds(wall) >= ts THEN Seconds(wall) - ts ELSE 0

(* SystemTime::now().duration_since(last_success): an error, and then no   *)
(* line, when the clock is behind.                                         *)
PolicyAge(s) == IF wall >= s.wall THEN Seconds(wall - s.wall) ELSE None

-----------------------------------------------------------------------------

Counters == {"cache_hits", "refresh_successes", "refresh_failures", "stale_serves"}
ReloadOutcomes == {"success", "unchanged", "failure"}

(* record_policy_baseline and record_auth_policy_baseline, which main      *)
(* calls for file-backed policies before it serves.                        *)
Baseline(files) ==
    [p \in Policies |-> IF p \in files THEN Success ELSE None]

Init ==
    /\ now = 0 /\ wall = WallStart /\ events = 0
    /\ corrected = [forward |-> 0, back |-> 0]
    /\ \E files \in SUBSET Policies :
          /\ inner = [http |-> <<>>, resolve |-> <<>>,
                      reloads |-> [p \in Policies |-> <<>>],
                      lastSuccess |-> Baseline(files)]
          /\ fileBacked = files
    /\ atomics = [counters |-> [n \in Counters |-> 0], last_success |-> None]
    /\ ready = TRUE
    /\ pc = [c \in Calls |-> "idle"]
    /\ kind = [c \in Calls |-> None]
    /\ instants = [c \in Calls |-> <<>>]
    /\ answer = [c \in Calls |-> None]
    /\ took = [c \in Calls |-> <<>>]
    /\ loaded = [c \in Calls |-> <<>>]
    /\ exposed = None
    /\ since = {}

-----------------------------------------------------------------------------
(* HTTP calls *)

Goto(c, to) == pc' = [pc EXCEPT ![c] = to]

(* record_http_metrics takes the call. *)
Arrive(c) ==
    /\ pc[c] = "idle"
    /\ After[c] # None => pc[After[c]] \in {"done", "cancelled"}
    /\ Goto(c, "middleware")
    /\ \E k \in Kinds[c] : kind' = [kind EXCEPT ![c] = k]
    /\ instants' = [instants EXCEPT ![c] = <<now>>]
    /\ since' = since \cup {c}
    /\ UNCHANGED <<clockVars, inner, atomics, ready, fileBacked, answer, took,
                   loaded, exposed>>

(* next.run: the handler starts; resolve reads the clock for itself. *)
Enter(c) ==
    /\ pc[c] = "middleware"
    /\ Goto(c, "handler")
    /\ instants' = [instants EXCEPT ![c] = Append(@, now)]
    /\ UNCHANGED <<clockVars, inner, atomics, ready, fileBacked, kind, answer,
                   took, scrapeVars>>

(* A handler returns with a status. *)
Return(c, status, labels) ==
    /\ Goto(c, "answered")
    /\ answer' = [answer EXCEPT ![c] = [status |-> status, labels |-> labels]]
    /\ UNCHANGED <<clockVars, atomics, ready, fileBacked, kind, instants>>

(* livez, and what the router answers by itself *)
FixedReply(c) ==
    /\ pc[c] = "handler"
    /\ kind[c] \in DOMAIN FixedStatus
    /\ Return(c, FixedStatus[kind[c]], None)
    /\ UNCHANGED <<inner, took, scrapeVars>>

Readyz(c) ==
    /\ pc[c] = "handler"
    /\ kind[c] = "readyz"
    /\ Return(c, IF ready THEN 204 ELSE 503, None)
    /\ UNCHANGED <<inner, took, scrapeVars>>

(* Mutant: every rejected body is recorded as a bad request. *)
ResolveReturnsOther(c) ==
    /\ pc[c] \in {"handler", "failed", "resolved"}
    /\ kind[c] = "resolve"
    /\ \E o \in Outcomes :
          LET d == now - instants[c][2]
              label == IF o.error_kind = "validation" THEN [o EXCEPT !.status = 400] ELSE o
          IN  /\ inner' = [inner EXCEPT !.resolve = Record(@, label, d)]
              /\ took' = [took EXCEPT ![c] = <<d>>]
              /\ Return(c, o.status, label)
    /\ UNCHANGED scrapeVars

(* resolve returns, by whichever path: it records the outcome first. *)
ResolveReturns(c) ==
    /\ pc[c] \in {"handler", "failed", "resolved"}
    /\ kind[c] = "resolve"
    /\ \E o \in Outcomes :
          LET d == now - instants[c][2]
          IN  /\ inner' = [inner EXCEPT !.resolve = Record(@, o, d)]
              /\ took' = [took EXCEPT ![c] = <<d>>]
              /\ Return(c, o.status, o)
    /\ UNCHANGED scrapeVars

HttpKey(c) ==
    [method |-> Endpoint[kind[c]].method, route |-> Endpoint[kind[c]].route,
     status |-> answer[c].status]

(* The middleware records the response; nothing is awaited since the       *)
(* handler returned, but other threads may have run.                       *)
RecordHttp(c) ==
    /\ pc[c] = "answered"
    /\ Goto(c, "done")
    /\ LET d == now - instants[c][1]
       IN  /\ inner' = [inner EXCEPT !.http = Record(@, HttpKey(c), d)]
           /\ took' = [took EXCEPT ![c] = Append(@, d)]
    /\ instants' = [instants EXCEPT ![c] = <<>>]
    /\ UNCHANGED <<clockVars, atomics, ready, fileBacked, kind, answer, scrapeVars>>

(* Mutant: a guard records dropped calls as well. *)
CancelRecords(c) ==
    /\ pc[c] \in {"handler", "failed", "resolved"}
    /\ kind[c] = "resolve"
    /\ Goto(c, "cancelled")
    /\ \E o \in Outcomes :
          inner' = [inner EXCEPT !.resolve = Record(@, o, now - instants[c][2])]
    /\ UNCHANGED <<clockVars, atomics, ready, fileBacked, kind, instants, answer,
                   took, scrapeVars>>

(* External: the client went away while resolve awaits its body or the     *)
(* provider.  The other handlers await nothing.                            *)
Cancel(c) ==
    /\ pc[c] \in {"handler", "failed", "resolved"}
    /\ kind[c] = "resolve"
    /\ Goto(c, "cancelled")
    /\ instants' = [instants EXCEPT ![c] = <<>>]
    /\ UNCHANGED <<clockVars, inner, atomics, ready, fileBacked, kind, answer, took,
                   scrapeVars>>

-----------------------------------------------------------------------------
(* The cache counters, as a resolve passes through VaultCache *)

Count(c, from, to, counter) ==
    /\ kind[c] = "resolve"
    /\ pc[c] \in from
    /\ Goto(c, to)
    /\ atomics' = [atomics EXCEPT !.counters[counter] = @ + 1]
    /\ UNCHANGED <<clockVars, inner, ready, fileBacked, kind, instants, answer,
                   took, scrapeVars>>

CacheHit(c) == Count(c, {"handler"}, "resolved", "cache_hits")
RefreshFailed(c) == Count(c, {"handler"}, "failed", "refresh_failures")
StaleServed(c) == Count(c, {"handler", "failed"}, "resolved", "stale_serves")
RefreshSucceeded(c) == Count(c, {"handler"}, "counting", "refresh_successes")

(* record_last_success_now *)
RefreshStamped(c) ==
    /\ pc[c] = "counting"
    /\ Goto(c, "resolved")
    /\ atomics' = [atomics EXCEPT !.last_success = Success]
    /\ UNCHANGED <<clockVars, inner, ready, fileBacked, kind, instants, answer,
                   took, scrapeVars>>

-----------------------------------------------------------------------------
(* GET /metrics *)

(* last_success_unix_seconds: zero stands for never. *)
LoadLastSuccess ==
    LET s == atomics.last_success
    IN  IF s = None \/ Seconds(s.wall) = 0 THEN None
        ELSE [ts |-> Seconds(s.wall), of |-> s]

(* The age is computed from a clock read after the load. *)
LoadAge(s) ==
    IF s = None THEN None ELSE [shown |-> CacheAge(s.ts), elapsed |-> Elapsed(s.of)]

(* The arguments of render: is_ready, then the loads of snapshot.  One     *)
(* step stands for the loads of the four counters: each only grows, and    *)
(* nothing relates two of them.                                            *)
LoadOrder == <<"ready", "last_success", "age", "counters">>

Loaded(c, name) == loaded[c][CHOOSE i \in DOMAIN LoadOrder : LoadOrder[i] = name]

ScrapeLoads(c) ==
    /\ pc[c] = "handler"
    /\ kind[c] = "metrics"
    /\ Len(loaded[c]) < Len(LoadOrder)
    /\ LET name == LoadOrder[Len(loaded[c]) + 1]
           value == CASE name = "ready" -> ready
                      [] name = "last_success" -> LoadLastSuccess
                      [] name = "age" -> LoadAge(Loaded(c, "last_success"))
                      [] name = "counters" -> atomics.counters
       IN  loaded' = [loaded EXCEPT ![c] = Append(@, value)]
    /\ UNCHANGED <<clockVars, inner, atomics, ready, fileBacked, callVars, exposed, since>>

(* render_policy_metrics and render_auth_policy_metrics: nothing without a *)
(* baseline or a reload, all three outcomes otherwise, and an age unless   *)
(* the clock is behind the success.                                        *)
ShownPolicies ==
    {p \in Policies : inner.reloads[p] # <<>> \/ inner.lastSuccess[p] # None}

(* Each outcome has a line, one that never happened as well. *)
ReloadLines(counts) ==
    [o \in ReloadOutcomes |-> IF o \in DOMAIN counts THEN counts[o] ELSE 0]

(* When the policy was last evaluated, and how long ago that is *)
LastSuccessLines(s) ==
    [stamp   |-> IF s = None THEN None ELSE Seconds(s.wall),
     age     |-> IF s = None THEN None ELSE PolicyAge(s),
     elapsed |-> IF s = None THEN None ELSE Elapsed(s)]

PolicyLines(p) ==
    [reloads |-> ReloadLines(inner.reloads[p]),
     success |-> LastSuccessLines(inner.lastSuccess[p])]

(* render_cache_metrics: no stamp and no age before the first refresh *)
CacheLines(c) ==
    [counters |-> Loaded(c, "counters"),
     stamp    |-> Loaded(c, "last_success"),
     age      |-> Loaded(c, "age")]

(* AppMetrics::render of one snapshot of the registry *)
Render(c) ==
    [ready    |-> Loaded(c, "ready"),
     http     |-> HttpLines(inner.http),
     resolve  |-> ResolveLines(inner.resolve),
     cache    |-> CacheLines(c),
     policies |-> [p \in ShownPolicies |-> PolicyLines(p)]]

(* Mutant: the snapshot takes the families out of the registry. *)
ScrapeTakes(c) ==
    /\ pc[c] = "handler"
    /\ Len(loaded[c]) = Len(LoadOrder)
    /\ exposed' = Render(c)
    /\ since' = {}
    /\ inner' = [inner EXCEPT !.http = <<>>, !.resolve = <<>>]
    /\ loaded' = [loaded EXCEPT ![c] = <<>>]
    /\ Return(c, 200, None)
    /\ UNCHANGED took

(* The registry is cloned under its lock, after everything else is loaded. *)
Scrape(c) ==
    /\ pc[c] = "handler"
    /\ Len(loaded[c]) = Len(LoadOrder)
    /\ exposed' = Render(c)
    /\ since' = {}
    /\ loaded' = [loaded EXCEPT ![c] = <<>>]
    /\ Return(c, 200, None)
    /\ UNCHANGED <<inner, took>>

-----------------------------------------------------------------------------
(* The rest of the process *)

Event == events < MaxEvents /\ events' = events + 1

(* record_policy_reload and record_auth_policy_reload at the end of a      *)
(* cycle of PolicyReload                                                   *)
RecordReload(p) ==
    /\ p \in fileBacked
    /\ Event
    /\ \E o \in ReloadOutcomes :
          LET counts == inner.reloads[p]
              n == IF o \in DOMAIN counts THEN counts[o] + 1 ELSE 1
          IN  inner' = [inner EXCEPT
                  !.reloads[p] = [q \in DOMAIN counts \cup {o} |->
                                     IF q = o THEN n ELSE counts[q]],
                  !.lastSuccess[p] = IF o # "failure" THEN Success ELSE @]
    /\ UNCHANGED <<now, wall, corrected, atomics, ready, fileBacked, callVars, scrapeVars>>

MarkShuttingDown ==
    /\ ready /\ Event
    /\ ready' = FALSE
    /\ UNCHANGED <<now, wall, corrected, inner, atomics, fileBacked, callVars, scrapeVars>>

(* External: time passes. *)
Tick ==
    /\ Event
    /\ \E d \in Delays : now' = now + d /\ wall' = wall + d
    /\ UNCHANGED <<corrected, inner, atomics, ready, fileBacked, callVars, scrapeVars>>

(* External: the wall clock is corrected, one way or the other. *)
SetClockBack ==
    /\ Event
    /\ wall' = wall - SetBack
    /\ corrected' = [corrected EXCEPT !.back = @ + SetBack]
    /\ UNCHANGED <<now, inner, atomics, ready, fileBacked, callVars,
                   scrapeVars>>

SetClockForward ==
    /\ Event
    /\ wall' = wall + SetForward
    /\ corrected' = [corrected EXCEPT !.forward = @ + SetForward]
    /\ UNCHANGED <<now, inner, atomics, ready, fileBacked, callVars,
                   scrapeVars>>

Quiescent ==
    /\ \A c \in Calls : pc[c] \in {"done", "cancelled"}
    /\ UNCHANGED vars

Handle(c) ==
    \/ Arrive(c) \/ Enter(c) \/ FixedReply(c) \/ Readyz(c)
    \/ ResolveReturns(c) \/ RecordHttp(c) \/ Cancel(c)
    \/ CacheHit(c) \/ RefreshFailed(c) \/ StaleServed(c)
    \/ RefreshSucceeded(c) \/ RefreshStamped(c)
    \/ ScrapeLoads(c) \/ Scrape(c)

Next ==
    \/ \E c \in Calls : Handle(c)
    \/ \E p \in Policies : RecordReload(p)
    \/ MarkShuttingDown \/ Tick \/ SetClockBack \/ SetClockForward \/ Quiescent

Spec == Init /\ [][Next]_vars

-----------------------------------------------------------------------------
(* Properties *)

(* What a histogram of the durations d of some calls is, by definition. *)
HistogramOf(cs, d) ==
    [count   |-> Cardinality(cs),
     sum     |-> SumFunctionOnSet(d, cs),
     buckets |-> [i \in DOMAIN HISTOGRAM_BUCKETS |->
                    Cardinality({c \in cs : d[c] <= HISTOGRAM_BUCKETS[i]})]]

Answered == {c \in Calls : kind[c] = "resolve" /\ pc[c] \in {"answered", "done"}}
Recorded == {c \in Calls : pc[c] = "done"}
HttpDuration == [c \in Calls |-> took[c][Len(took[c])]]
ResolveDuration == [c \in Calls |-> took[c][1]]

(* Both families hold exactly the calls that were answered, each once and  *)
(* in every bucket it belongs to: no interleaving of handlers loses one,   *)
(* and a dropped call is in neither.                                       *)
RegistryMatchesCalls ==
    /\ inner.resolve =
          [k \in {answer[c].labels : c \in Answered} |->
              HistogramOf({c \in Answered : answer[c].labels = k}, ResolveDuration)]
    /\ inner.http =
          [k \in {HttpKey(c) : c \in Recorded} |->
              HistogramOf({c \in Recorded : HttpKey(c) = k}, HttpDuration)]

(* Line i of the buckets, over several sets of labels *)
SumLines(family, keys, i) == SumFunctionOnSet([k \in keys |-> family[k].le[i]], keys)

Statuses(s) == {k.status : k \in DOMAIN s.http \cup DOMAIN s.resolve}

(* In every scrape the resolve family is ahead of the HTTP family for      *)
(* POST /v1/resolve, status by status and bucket by bucket (a handler      *)
(* records before its middleware does, and takes no longer).               *)
FamiliesAgree ==
    exposed # None =>
        LET s == exposed IN
        \A status \in Statuses(s), i \in 1..(Len(HISTOGRAM_BUCKETS) + 1) :
            SumLines(s.http, {k \in DOMAIN s.http : k.status = status
                                 /\ k.method = "POST" /\ k.route = "/v1/resolve"}, i)
            <= SumLines(s.resolve, {k \in DOMAIN s.resolve : k.status = status}, i)

NoLower(old, new) ==
    /\ new.ready => old.ready
    /\ \A n \in Counters : old.cache.counters[n] <= new.cache.counters[n]
    /\ \A family \in {"http", "resolve"} : \A k \in DOMAIN old[family] :
          /\ k \in DOMAIN new[family]
          /\ \A i \in DOMAIN old[family][k].le :
                old[family][k].le[i] <= new[family][k].le[i]
    /\ \A p \in DOMAIN old.policies :
          /\ p \in DOMAIN new.policies
          /\ \A o \in ReloadOutcomes :
                old.policies[p].reloads[o] <= new.policies[p].reloads[o]

(* A scrape that begins when another is over shows no counter lower, no    *)
(* bucket lower, no label set less, and no readiness regained.             *)
ScrapesMonotone ==
    [][\A c \in since :
          exposed # None /\ loaded[c] # <<>> /\ loaded'[c] = <<>>
              => NoLower(exposed, exposed')]_vars

(* The age a scrape shows for the cache is what really passed since the    *)
(* success it loaded, to the second, but for the corrections of the wall   *)
(* clock since then: too high by what it was set forward at most, too low  *)
(* by what it was set back at most.                                        *)
CacheAgeExplained(age) ==
    /\ age.shown * 1000 < age.elapsed.real + age.elapsed.forward + 1000
    /\ age.shown * 1000 > age.elapsed.real - age.elapsed.back - 1000

(* The same of a policy, whose age is left out only if the clock was set   *)
(* back by more than the time that passed.                                 *)
PolicyAgeExplained(lines) ==
    IF lines.age = None THEN lines.elapsed.back > lines.elapsed.real
    ELSE /\ lines.age * 1000 <= lines.elapsed.real + lines.elapsed.forward
         /\ lines.age * 1000 > lines.elapsed.real - lines.elapsed.back - 1000

(* No age a scrape shows or leaves out is further from the time since that *)
(* success than the wall clock was corrected in between, whatever was      *)
(* refreshed, reloaded or corrected between the loads of the scrape: a     *)
(* success that lies ahead of the clock wraps nothing around.              *)
AgesExplained ==
    exposed # None =>
        /\ exposed.cache.age # None => CacheAgeExplained(exposed.cache.age)
        /\ \A p \in DOMAIN exposed.policies :
              LET lines == exposed.policies[p].success
              IN  lines.stamp # None => PolicyAgeExplained(lines)

=============================================================================
