---------------------------- MODULE MetricsProofs ----------------------------
(***************************************************************************)
(* Proofs about Metrics, for every set of calls (finite or not), outcomes, *)
(* policies and clocks.  Two inductive invariants, conjunctions of named   *)
(* parts: ScrapeInv (what a scrape has loaded and shown so far is behind   *)
(* the registry) and RegistryInv (the registry is that of the calls).      *)
(***************************************************************************)
EXTENDS Metrics, SetInduction

-----------------------------------------------------------------------------
(* The inductive invariant *)

Places ==
    {"idle", "middleware", "handler", "counting", "failed", "resolved",
     "answered", "done", "cancelled"}

(* f is a function of the calls. *)
OnCalls(f) == f = [c \in Calls |-> f[c]]

Histograms == [count : Nat, sum : Nat, buckets : [1..11 -> Nat]]

(* Only calls that arrived matter, and those are finitely many. *)
Arrived == {c \in Calls : pc[c] # "idle"}

CallsTyped ==
    /\ pc \in [Calls -> Places]
    /\ OnCalls(kind) /\ OnCalls(instants) /\ OnCalls(answer) /\ OnCalls(took)
    /\ since \subseteq Calls
    /\ IsFiniteSet(Arrived)

(* The wall clock is the monotonic one and the corrections. *)
ClocksTyped ==
    /\ now \in Nat /\ wall \in Int /\ events \in Nat
    /\ corrected \in [forward : Nat, back : Nat]
    /\ wall = WallStart + now + corrected.forward - corrected.back

RegistryTyped ==
    /\ DOMAIN inner = {"http", "resolve", "reloads", "lastSuccess"}
    /\ \A k \in DOMAIN inner.http : inner.http[k] \in Histograms
    /\ \A k \in DOMAIN inner.resolve : inner.resolve[k] \in Histograms
    /\ DOMAIN inner.reloads = Policies
    /\ DOMAIN inner.lastSuccess = Policies
    /\ \A p \in Policies :
          /\ DOMAIN inner.reloads[p] \subseteq ReloadOutcomes
          /\ \A o \in DOMAIN inner.reloads[p] : inner.reloads[p][o] \in Nat
    /\ DOMAIN atomics = {"counters", "last_success"}
    /\ atomics.counters \in [Counters -> Nat]
    /\ ready \in BOOLEAN

(* How far a call is, and what is kept for it there: the instants its      *)
(* middleware and its handler read, in this order and not in the future.   *)
CallStage(c) ==
    /\ pc[c] # "idle" => kind[c] \in DOMAIN Endpoint
    /\ pc[c] = "middleware" =>
          /\ instants[c] = <<instants[c][1]>>
          /\ instants[c][1] \in Nat /\ instants[c][1] <= now
    /\ pc[c] \in {"handler", "counting", "failed", "resolved", "answered"} =>
          /\ instants[c] = <<instants[c][1], instants[c][2]>>
          /\ instants[c][1] \in Nat /\ instants[c][2] \in Nat
          /\ instants[c][1] <= instants[c][2] /\ instants[c][2] <= now
    /\ pc[c] \in {"counting", "failed", "resolved"} => kind[c] = "resolve"
    /\ pc[c] \notin {"answered", "done"} => took[c] = <<>>

(* What is recorded of a call: the handler's duration is not longer than   *)
(* the middleware's, also where the latter is not known yet.               *)
CallTook(c) ==
    /\ pc[c] = "answered" /\ kind[c] = "resolve" =>
          /\ took[c] = <<took[c][1]>>
          /\ took[c][1] \in Nat /\ took[c][1] <= now - instants[c][1]
    /\ pc[c] = "answered" /\ kind[c] # "resolve" => took[c] = <<>>
    /\ pc[c] = "done" /\ kind[c] = "resolve" =>
          /\ took[c] = <<took[c][1], took[c][2]>>
          /\ took[c][1] \in Nat /\ took[c][2] \in Nat /\ took[c][1] <= took[c][2]
    /\ pc[c] = "done" /\ kind[c] # "resolve" =>
          took[c] = <<took[c][1]>> /\ took[c][1] \in Nat
    /\ pc[c] \in {"answered", "done"} /\ kind[c] = "resolve" =>
          answer[c].status = answer[c].labels.status

(* What is remembered of a success was true then, and is past. *)
Behind(s) ==
    s # None =>
        /\ s.at \in Nat /\ s.at <= now
        /\ s.corrected \in [forward : Nat, back : Nat]
        /\ s.corrected.forward <= corrected.forward
        /\ s.corrected.back <= corrected.back
        /\ s.wall = WallStart + s.at + s.corrected.forward - s.corrected.back

SuccessesBehind ==
    /\ Behind(atomics.last_success)
    /\ \A p \in Policies : Behind(inner.lastSuccess[p])

(* A sequence, whatever its elements are *)
IsSequence(s) == Len(s) \in Nat /\ s = [i \in 1..Len(s) |-> s[i]]

(* What a scrape has loaded so far is a sequence of at most four values,   *)
(* and only a scrape in its handler has loaded anything.                   *)
LoadedTyped ==
    /\ OnCalls(loaded)
    /\ \A c \in Calls :
          /\ IsSequence(loaded[c]) /\ Len(loaded[c]) <= 4
          /\ loaded[c] # <<>> => pc[c] = "handler" /\ kind[c] = "metrics"

(* What is loaded was true, is not ahead of what is true now, and its      *)
(* times are good.                                                         *)
ReadyLoad(v) == ready => v

StampLoad(v) ==
    v # None => v.ts = Seconds(v.of.wall) /\ v.of # None /\ Behind(v.of)

AgeLoad(v) == v # None => CacheAgeExplained(v)

CounterLoad(v) ==
    /\ v \in [Counters -> Nat]
    /\ \A m \in Counters : v[m] <= atomics.counters[m]

LoadBehind(s) ==
    /\ Len(s) >= 1 => ReadyLoad(s[1])
    /\ Len(s) >= 2 => StampLoad(s[2])
    /\ Len(s) >= 3 => AgeLoad(s[3])
    /\ Len(s) >= 4 => CounterLoad(s[4])

LoadedBehind == \A c \in Calls : LoadBehind(loaded[c])

(* The lines of a family the latest scrape showed, against the registry *)
LinesBehind(lines, family) ==
    \A k \in DOMAIN lines :
        /\ k \in DOMAIN family
        /\ lines[k].le \in [1..12 -> Nat]
        /\ \A i \in 1..12 : lines[k].le[i] <= HistogramLines(family[k]).le[i]

(* Nothing the latest scrape showed is ahead of the current state. *)
ExposedBehind ==
    exposed # None =>
        /\ ready => exposed.ready
        /\ exposed.cache.counters \in [Counters -> Nat]
        /\ \A m \in Counters : exposed.cache.counters[m] <= atomics.counters[m]
        /\ LinesBehind(exposed.http, inner.http)
        /\ LinesBehind(exposed.resolve, inner.resolve)
        /\ \A p \in DOMAIN exposed.policies :
              /\ p \in ShownPolicies
              /\ \A o \in ReloadOutcomes :
                    /\ exposed.policies[p].reloads[o] \in Nat
                    /\ exposed.policies[p].reloads[o] <= ReloadLines(inner.reloads[p])[o]

(* A scrape that arrived after the latest one has loaded nothing older. *)
LoadedSince ==
    exposed # None =>
        \A c \in since :
            /\ Len(loaded[c]) >= 1 => (loaded[c][1] => exposed.ready)
            /\ Len(loaded[c]) >= 4 =>
                  \A m \in Counters : exposed.cache.counters[m] <= loaded[c][4][m]

-----------------------------------------------------------------------------
(* Types and stages *)

TypeInv ==
    /\ CallsTyped /\ ClocksTyped /\ RegistryTyped /\ LoadedTyped
    /\ \A c \in Calls : CallStage(c)

(* The set of arrived calls grows by one call at most. *)
LEMMA ArrivedFinite ==
  ASSUME CallsTyped, NEW c \in Calls, NEW to, Goto(c, to)
  PROVE  IsFiniteSet(Arrived')
<1>1. Arrived' \subseteq Arrived \cup {c}
  BY DEF CallsTyped, Arrived, Goto
<1>2. IsFiniteSet(Arrived \cup {c})
  BY FS_AddElement DEF CallsTyped
<1>3. QED
  BY <1>1, <1>2, FS_Subset

(* Every step of a call keeps the shape of what is stored for calls. *)
LEMMA CallsTypedStep ==
  ASSUME CallsTyped, [Next]_vars
  PROVE  CallsTyped'
<1> USE DEF CallsTyped, OnCalls
<1>1. ASSUME NEW c \in Calls, Handle(c) PROVE CallsTyped'
  <2>1. CASE Arrive(c)
    <3>1. IsFiniteSet(Arrived')
      BY <2>1, ArrivedFinite DEF Arrive
    <3>2. QED
      BY <2>1, <3>1 DEF Arrive, Goto, Places
  <2>2. CASE Enter(c)
    <3>1. IsFiniteSet(Arrived')
      BY <2>2, ArrivedFinite DEF Enter
    <3>2. QED
      BY <2>2, <3>1 DEF Enter, Goto, Places, scrapeVars
  <2>3. CASE FixedReply(c)
    <3>1. IsFiniteSet(Arrived')
      BY <2>3, ArrivedFinite DEF FixedReply, Return
    <3>2. QED
      BY <2>3, <3>1 DEF FixedReply, Return, Goto, Places, scrapeVars
  <2>4. CASE Readyz(c)
    <3>1. IsFiniteSet(Arrived')
      BY <2>4, ArrivedFinite DEF Readyz, Return
    <3>2. QED
      BY <2>4, <3>1 DEF Readyz, Return, Goto, Places, scrapeVars
  <2>5. CASE ResolveReturns(c)
    <3>1. IsFiniteSet(Arrived')
      BY <2>5, ArrivedFinite DEF ResolveReturns, Return
    <3>2. QED
      BY <2>5, <3>1 DEF ResolveReturns, Return, Goto, Places, scrapeVars
  <2>6. CASE RecordHttp(c)
    <3>1. IsFiniteSet(Arrived')
      BY <2>6, ArrivedFinite DEF RecordHttp
    <3>2. QED
      BY <2>6, <3>1 DEF RecordHttp, Goto, Places, scrapeVars
  <2>7. CASE Cancel(c)
    <3>1. IsFiniteSet(Arrived')
      BY <2>7, ArrivedFinite DEF Cancel
    <3>2. QED
      BY <2>7, <3>1 DEF Cancel, Goto, Places, scrapeVars
  <2>8. ASSUME NEW from, NEW to \in Places, NEW counter, Count(c, from, to, counter)
        PROVE  CallsTyped'
    <3>1. IsFiniteSet(Arrived')
      BY <2>8, ArrivedFinite DEF Count
    <3>2. QED
      BY <2>8, <3>1 DEF Count, Goto, scrapeVars
  <2>9. CASE CacheHit(c) \/ RefreshFailed(c) \/ StaleServed(c) \/ RefreshSucceeded(c)
    BY <2>8, <2>9 DEF CacheHit, RefreshFailed, StaleServed, RefreshSucceeded, Places
  <2>10. CASE RefreshStamped(c)
    <3>1. IsFiniteSet(Arrived')
      BY <2>10, ArrivedFinite DEF RefreshStamped
    <3>2. QED
      BY <2>10, <3>1 DEF RefreshStamped, Goto, Places, scrapeVars
  <2>11. CASE ScrapeLoads(c)
    BY <2>11 DEF ScrapeLoads, callVars, Arrived
  <2>12. CASE Scrape(c)
    <3>1. IsFiniteSet(Arrived')
      BY <2>12, ArrivedFinite DEF Scrape, Return
    <3>2. QED
      BY <2>12, <3>1 DEF Scrape, Return, Goto, Places
  <2>13. QED
    BY <1>1, <2>1, <2>2, <2>3, <2>4, <2>5, <2>6, <2>7, <2>9, <2>10, <2>11, <2>12
       DEF Handle
<1>2. CASE UNCHANGED <<callVars, since>>
  BY <1>2 DEF callVars, Arrived
<1>3. QED
  BY <1>1, <1>2 DEF Next, RecordReload, MarkShuttingDown, Tick, SetClockBack,
     SetClockForward, Quiescent, vars, scrapeVars

(* Time only moves forward, and corrections add up. *)
LEMMA ClocksTypedStep ==
  ASSUME ClocksTyped, [Next]_vars
  PROVE  /\ ClocksTyped' /\ now <= now'
         /\ corrected.forward <= corrected'.forward
         /\ corrected.back <= corrected'.back
<1> USE MetricsAssumption DEF ClocksTyped
<1>1. CASE Tick
  BY <1>1 DEF Tick, Event
<1>2. CASE SetClockBack \/ SetClockForward
  BY <1>2 DEF SetClockBack, SetClockForward, Event
<1>3. CASE UNCHANGED <<now, wall, corrected>> /\ Event
  BY <1>3 DEF Event
<1>4. CASE UNCHANGED clockVars
  BY <1>4 DEF clockVars
<1>5. ASSUME NEW c \in Calls, Handle(c) PROVE UNCHANGED clockVars
  BY <1>5 DEF Handle, Arrive, Enter, FixedReply, Readyz, ResolveReturns, Return,
     RecordHttp, Cancel, CacheHit, RefreshFailed, StaleServed, RefreshSucceeded,
     Count, RefreshStamped, ScrapeLoads, Scrape
<1>6. QED
  BY <1>1, <1>2, <1>3, <1>4, <1>5 DEF Next, RecordReload, MarkShuttingDown,
     Quiescent, vars

(* One more observation: a histogram again, with no line lower. *)
LEMMA ObserveTyped ==
  ASSUME NEW h \in Histograms, NEW d \in Nat
  PROVE  /\ Observe(h, d) \in Histograms
         /\ h.count <= Observe(h, d).count
         /\ \A i \in 1..11 : h.buckets[i] <= Observe(h, d).buckets[i]
BY DEF Histograms, Observe

(* Recording adds a key at most, and leaves every other histogram alone.   *)
LEMMA RecordTyped ==
  ASSUME NEW family, \A k \in DOMAIN family : family[k] \in Histograms,
         NEW key, NEW d \in Nat
  PROVE  /\ DOMAIN Record(family, key, d) = DOMAIN family \cup {key}
         /\ \A k \in DOMAIN Record(family, key, d) : Record(family, key, d)[k] \in Histograms
         /\ \A k \in DOMAIN family : k # key => Record(family, key, d)[k] = family[k]
         /\ key \in DOMAIN family => Record(family, key, d)[key] = Observe(family[key], d)
<1>1. EmptyHistogram \in Histograms
  BY DEF EmptyHistogram, Histograms, HISTOGRAM_BUCKETS
<1>2. Observe(EmptyHistogram, d) \in Histograms
  BY <1>1, ObserveTyped
<1>3. \A k \in DOMAIN family : Observe(family[k], d) \in Histograms
  BY ObserveTyped
<1>4. QED
  BY <1>2, <1>3 DEF Record

(* What is stored for a call allows to measure it. *)
LEMMA Durations ==
  ASSUME ClocksTyped, NEW c \in Calls, CallStage(c),
         pc[c] \in {"handler", "counting", "failed", "resolved", "answered"}
  PROVE  now - instants[c][1] \in Nat /\ now - instants[c][2] \in Nat
BY DEF ClocksTyped, CallStage

(* The registry and the counters keep their shape. *)
LEMMA RegistryTypedStep ==
  ASSUME TypeInv, [Next]_vars
  PROVE  RegistryTyped'
<1> USE DEF TypeInv
<1>1. ASSUME NEW c \in Calls, ResolveReturns(c) PROVE RegistryTyped'
  <2>1. PICK o \in Outcomes : inner' = [inner EXCEPT !.resolve = Record(@, o, now - instants[c][2])]
    BY <1>1 DEF ResolveReturns
  <2>2. now - instants[c][2] \in Nat
    BY <1>1, Durations DEF ResolveReturns
  <2>3. /\ inner'.http = inner.http /\ inner'.reloads = inner.reloads
        /\ inner'.lastSuccess = inner.lastSuccess /\ DOMAIN inner' = DOMAIN inner
        /\ inner'.resolve = Record(inner.resolve, o, now - instants[c][2])
    BY <2>1 DEF RegistryTyped
  <2>4. \A k \in DOMAIN inner'.resolve : inner'.resolve[k] \in Histograms
    <3> DEFINE family == inner.resolve
               d == now - instants[c][2]
    <3>1. \A k \in DOMAIN family : family[k] \in Histograms
      BY DEF RegistryTyped
    <3> HIDE DEF family, d
    <3>2. \A k \in DOMAIN Record(family, o, d) : Record(family, o, d)[k] \in Histograms
      BY <2>2, <3>1, RecordTyped DEF d
    <3>3. QED
      BY <2>3, <3>2 DEF family, d
  <2>5. UNCHANGED <<atomics, ready>>
    BY <1>1 DEF ResolveReturns, Return
  <2>6. QED
    BY <2>3, <2>4, <2>5 DEF RegistryTyped
<1>2. ASSUME NEW c \in Calls, RecordHttp(c) PROVE RegistryTyped'
  <2>1. inner' = [inner EXCEPT !.http = Record(@, HttpKey(c), now - instants[c][1])]
    BY <1>2 DEF RecordHttp
  <2>2. now - instants[c][1] \in Nat
    BY <1>2, Durations DEF RecordHttp
  <2>3. /\ inner'.resolve = inner.resolve /\ inner'.reloads = inner.reloads
        /\ inner'.lastSuccess = inner.lastSuccess /\ DOMAIN inner' = DOMAIN inner
        /\ inner'.http = Record(inner.http, HttpKey(c), now - instants[c][1])
    BY <2>1 DEF RegistryTyped
  <2>4. \A k \in DOMAIN inner'.http : inner'.http[k] \in Histograms
    <3> DEFINE family == inner.http
               d == now - instants[c][1]
    <3>1. \A k \in DOMAIN family : family[k] \in Histograms
      BY DEF RegistryTyped
    <3> HIDE DEF family, d
    <3>2. \A k \in DOMAIN Record(family, HttpKey(c), d) : Record(family, HttpKey(c), d)[k] \in Histograms
      BY <2>2, <3>1, RecordTyped DEF d
    <3>3. QED
      BY <2>3, <3>2 DEF family, d
  <2>5. UNCHANGED <<atomics, ready>>
    BY <1>2 DEF RecordHttp
  <2>6. QED
    BY <2>3, <2>4, <2>5 DEF RegistryTyped
<1>3. ASSUME NEW c \in Calls, NEW from, NEW to, NEW counter \in Counters,
             Count(c, from, to, counter)
      PROVE  RegistryTyped'
  BY <1>3 DEF Count, RegistryTyped
<1>4. ASSUME NEW c \in Calls, RefreshStamped(c) PROVE RegistryTyped'
  BY <1>4 DEF RefreshStamped, RegistryTyped
<1>5. ASSUME NEW p \in Policies, RecordReload(p) PROVE RegistryTyped'
  BY <1>5 DEF RecordReload, RegistryTyped
<1>6. CASE MarkShuttingDown
  BY <1>6 DEF MarkShuttingDown, RegistryTyped
<1>7. CASE UNCHANGED <<inner, atomics, ready>>
  BY <1>7 DEF RegistryTyped
<1>8. ASSUME NEW c \in Calls, Handle(c) PROVE RegistryTyped'
  <2>1. CASE CacheHit(c) \/ RefreshFailed(c) \/ StaleServed(c) \/ RefreshSucceeded(c)
    BY <1>3, <2>1 DEF CacheHit, RefreshFailed, StaleServed, RefreshSucceeded, Counters
  <2>2. CASE Arrive(c) \/ Enter(c) \/ FixedReply(c) \/ Readyz(c) \/ Cancel(c)
             \/ ScrapeLoads(c) \/ Scrape(c)
    BY <1>7, <2>2 DEF Arrive, Enter, FixedReply, Readyz, Return, Cancel, ScrapeLoads, Scrape
  <2>3. QED
    BY <1>1, <1>2, <1>4, <1>8, <2>1, <2>2 DEF Handle
<1>9. QED
  BY <1>5, <1>6, <1>7, <1>8 DEF Next, Tick, SetClockBack, SetClockForward,
     Quiescent, vars

(* The two ways to state that something is a sequence agree. *)
LEMMA SeqIsSequence ==
  ASSUME NEW S, NEW s \in Seq(S)
  PROVE  IsSequence(s)
BY DEF IsSequence

(* What Append does to a sequence of values of several types. *)
LEMMA AppendShape ==
  ASSUME NEW s, IsSequence(s), NEW x
  PROVE  /\ IsSequence(Append(s, x))
         /\ Len(Append(s, x)) = Len(s) + 1
         /\ Append(s, x)[Len(s) + 1] = x
         /\ \A i \in 1..Len(s) : Append(s, x)[i] = s[i]
<1> DEFINE S == {s[i] : i \in 1..Len(s)} \cup {x}
<1>1. s \in Seq(S) /\ x \in S
  BY DEF IsSequence
<1> HIDE DEF S
<1>2. Append(s, x) \in Seq(S) /\ Len(Append(s, x)) = Len(s) + 1
  BY <1>1
<1>3. Append(s, x)[Len(s) + 1] = x /\ \A i \in 1..Len(s) : Append(s, x)[i] = s[i]
  BY <1>1
<1>4. QED
  BY <1>2, <1>3, SeqIsSequence

(* The sequences of no, one and two values *)
LEMMA ShortSequences ==
  /\ IsSequence(<<>>) /\ Len(<<>>) = 0
  /\ \A t : IsSequence(<<t>>) /\ Len(<<t>>) = 1 /\ <<t>>[1] = t
  /\ \A s, u : IsSequence(s) /\ Len(s) = 1 => Append(s, u) = <<s[1], u>>
  /\ \A s, u : IsSequence(s) /\ Len(s) = 0 => Append(s, u) = <<u>>
<1>1. IsSequence(<<>>) /\ Len(<<>>) = 0
  BY DEF IsSequence
<1>2. ASSUME NEW t PROVE IsSequence(<<t>>) /\ Len(<<t>>) = 1 /\ <<t>>[1] = t
  BY DEF IsSequence
<1>3. ASSUME NEW s, NEW u, IsSequence(s), Len(s) = 1 PROVE Append(s, u) = <<s[1], u>>
  BY <1>3, AppendShape DEF IsSequence
<1>4. ASSUME NEW s, NEW u, IsSequence(s), Len(s) = 0 PROVE Append(s, u) = <<u>>
  BY <1>4, AppendShape DEF IsSequence
<1>5. QED
  BY <1>1, <1>2, <1>3, <1>4

(* Only a scrape loads anything, in four steps at most. *)
LEMMA LoadedTypedStep ==
  ASSUME TypeInv, [Next]_vars
  PROVE  LoadedTyped'
<1> USE DEF TypeInv, LoadedTyped, OnCalls
<1>0. pc \in [Calls -> Places]
  BY DEF CallsTyped
<1>1. ASSUME NEW c \in Calls, ScrapeLoads(c) PROVE LoadedTyped'
  <2>1. PICK v : loaded' = [loaded EXCEPT ![c] = Append(@, v)]
    BY <1>1 DEF ScrapeLoads
  <2>2. IsSequence(loaded[c])
    OBVIOUS
  <2>3. IsSequence(Append(loaded[c], v)) /\ Len(Append(loaded[c], v)) = Len(loaded[c]) + 1
    BY <2>2, AppendShape
  <2>4. Len(loaded[c]) + 1 <= 4
    BY <1>1, <2>2 DEF ScrapeLoads, LoadOrder, IsSequence
  <2>5. QED
    BY <1>1, <2>1, <2>3, <2>4 DEF ScrapeLoads, callVars
<1>2. ASSUME NEW c \in Calls, Scrape(c) PROVE LoadedTyped'
  BY <1>0, <1>2, ShortSequences DEF Scrape, Return, Goto
<1>3. ASSUME NEW c \in Calls, NEW to, Goto(c, to), UNCHANGED <<loaded, kind>>,
             pc[c] # "handler" \/ kind[c] # "metrics"
      PROVE  LoadedTyped'
  BY <1>0, <1>3 DEF Goto
<1>4. ASSUME NEW c \in Calls, Arrive(c) PROVE LoadedTyped'
  <2>1. PICK k : kind' = [kind EXCEPT ![c] = k]
    BY <1>4 DEF Arrive
  <2>2. DOMAIN kind = Calls
    BY DEF CallsTyped
  <2>3. QED
    BY <1>0, <1>4, <2>1, <2>2 DEF Arrive, Goto
<1>5. ASSUME NEW c \in Calls, Handle(c) PROVE LoadedTyped'
  <2>1. CASE Enter(c) \/ FixedReply(c) \/ Readyz(c) \/ ResolveReturns(c)
             \/ RecordHttp(c) \/ Cancel(c)
    BY <1>3, <2>1 DEF Enter, FixedReply, FixedStatus, Readyz, ResolveReturns, Return,
       RecordHttp, Cancel, scrapeVars
  <2>2. CASE CacheHit(c) \/ RefreshFailed(c) \/ StaleServed(c) \/ RefreshSucceeded(c)
             \/ RefreshStamped(c)
    BY <1>3, <2>2 DEF CacheHit, RefreshFailed, StaleServed, RefreshSucceeded, Count,
       RefreshStamped, scrapeVars
  <2>3. QED
    BY <1>1, <1>2, <1>4, <1>5, <2>1, <2>2 DEF Handle
<1>6. CASE UNCHANGED <<loaded, pc, kind>>
  BY <1>6
<1>7. QED
  BY <1>5, <1>6 DEF Next, RecordReload, MarkShuttingDown, Tick, SetClockBack,
     SetClockForward, Quiescent, vars, callVars, scrapeVars

(* Each call moves through its stages in order, and its clock readings     *)
(* with it.                                                                *)
LEMMA CallStageStep ==
  ASSUME TypeInv, [Next]_vars, NEW x \in Calls
  PROVE  CallStage(x)'
<1> USE DEF TypeInv
<1>0. /\ pc \in [Calls -> Places] /\ DOMAIN kind = Calls /\ DOMAIN instants = Calls
      /\ DOMAIN took = Calls /\ now \in Nat /\ CallStage(x)
  BY DEF CallsTyped, OnCalls, ClocksTyped
<1>1. now' \in Nat /\ now <= now'
  BY ClocksTypedStep DEF ClocksTyped
<1>2. CASE UNCHANGED <<pc[x], kind[x], instants[x], took[x]>>
  BY <1>0, <1>1, <1>2 DEF CallStage
<1>3. CASE Handle(x)
  <2>0. now' = now
    BY <1>3 DEF Handle, Arrive, Enter, FixedReply, Readyz, ResolveReturns, Return,
       RecordHttp, Cancel, CacheHit, RefreshFailed, StaleServed, RefreshSucceeded,
       Count, RefreshStamped, ScrapeLoads, Scrape, clockVars
  <2>1. CASE Arrive(x)
    BY <1>0, <2>0, <2>1, MetricsAssumption DEF Arrive, Goto, CallStage
  <2>2. CASE Enter(x)
    <3>1. /\ instants[x] = <<instants[x][1]>>
          /\ instants[x][1] \in Nat /\ instants[x][1] <= now
      BY <1>0, <2>2 DEF Enter, CallStage
    <3>2. instants'[x] = <<instants[x][1], now>>
      <4>1. IsSequence(instants[x]) /\ Len(instants[x]) = 1
        BY <3>1, ShortSequences
      <4>2. Append(instants[x], now) = <<instants[x][1], now>>
        BY <4>1, ShortSequences
      <4>3. QED
        BY <1>0, <2>2, <4>2 DEF Enter
    <3>3. QED
      BY <1>0, <2>0, <2>2, <3>1, <3>2 DEF Enter, Goto, CallStage
  <2>3. CASE FixedReply(x) \/ Readyz(x)
    BY <1>0, <2>0, <2>3 DEF FixedReply, Readyz, Return, Goto, CallStage
  <2>4. CASE ResolveReturns(x)
    BY <1>0, <2>0, <2>4 DEF ResolveReturns, Return, Goto, CallStage
  <2>5. CASE RecordHttp(x)
    BY <1>0, <2>0, <2>5 DEF RecordHttp, Goto, CallStage
  <2>6. CASE Cancel(x)
    BY <1>0, <2>0, <2>6 DEF Cancel, Goto, CallStage
  <2>7. CASE CacheHit(x) \/ RefreshFailed(x) \/ StaleServed(x) \/ RefreshSucceeded(x)
    BY <1>0, <2>0, <2>7 DEF CacheHit, RefreshFailed, StaleServed, RefreshSucceeded,
       Count, Goto, CallStage
  <2>8. CASE RefreshStamped(x)
    BY <1>0, <2>0, <2>8 DEF RefreshStamped, Goto, CallStage
  <2>9. CASE ScrapeLoads(x)
    BY <1>0, <2>0, <2>9 DEF ScrapeLoads, callVars, CallStage
  <2>10. CASE Scrape(x)
    BY <1>0, <2>0, <2>10 DEF Scrape, Return, Goto, CallStage
  <2>11. QED
    BY <1>3, <2>1, <2>2, <2>3, <2>4, <2>5, <2>6, <2>7, <2>8, <2>9, <2>10 DEF Handle
<1>4. ASSUME NEW c \in Calls, Handle(c), c # x
      PROVE  UNCHANGED <<pc[x], kind[x], instants[x], took[x]>>
  BY <1>0, <1>4 DEF Handle, Arrive, Enter, FixedReply, Readyz, ResolveReturns, Return,
     RecordHttp, Cancel, CacheHit, RefreshFailed, StaleServed, RefreshSucceeded,
     Count, RefreshStamped, ScrapeLoads, Scrape, Goto, callVars
<1>5. QED
  BY <1>2, <1>3, <1>4 DEF Next, RecordReload, MarkShuttingDown, Tick, SetClockBack,
     SetClockForward, Quiescent, vars, callVars

(* What the program stores always has the types and the stages above. *)
THEOREM TypeCorrect == Spec => []TypeInv
<1>1. Init => TypeInv
  <2> SUFFICES ASSUME Init PROVE TypeInv
    OBVIOUS
  <2> USE DEF Init
  <2>1. CallsTyped
    <3>1. Arrived = {}
      BY DEF Arrived
    <3>2. QED
      BY <3>1, FS_EmptySet DEF CallsTyped, OnCalls, Places
  <2>2. ClocksTyped
    BY MetricsAssumption DEF ClocksTyped
  <2>3. RegistryTyped
    BY DEF RegistryTyped, Baseline
  <2>4. LoadedTyped
    BY ShortSequences DEF LoadedTyped, OnCalls
  <2>5. \A c \in Calls : CallStage(c)
    BY DEF CallStage
  <2>6. QED
    BY <2>1, <2>2, <2>3, <2>4, <2>5 DEF TypeInv
<1>2. TypeInv /\ [Next]_vars => TypeInv'
  BY CallsTypedStep, ClocksTypedStep, RegistryTypedStep, LoadedTypedStep, CallStageStep
     DEF TypeInv
<1>3. QED
  BY <1>1, <1>2, PTL DEF Spec

-----------------------------------------------------------------------------
(* Ages *)

(* A success stays past. *)
LEMMA BehindStays ==
  ASSUME TypeInv, [Next]_vars, NEW s, Behind(s)
  PROVE  Behind(s)'
<1>1. ClocksTyped /\ ClocksTyped'
  BY ClocksTypedStep DEF TypeInv
<1>2. /\ now <= now' /\ corrected.forward <= corrected'.forward
      /\ corrected.back <= corrected'.back
  BY <1>1, ClocksTypedStep
<1>3. QED
  BY <1>1, <1>2 DEF Behind, ClocksTyped

(* What the wall clock made of the time since a success: what passed, and  *)
(* the corrections.                                                        *)
LEMMA WallElapsed ==
  ASSUME ClocksTyped, NEW s, Behind(s), s # None
  PROVE  /\ Elapsed(s).real \in Nat /\ Elapsed(s).forward \in Nat /\ Elapsed(s).back \in Nat
         /\ wall \in Int /\ s.wall \in Int
         /\ wall - s.wall = Elapsed(s).real + Elapsed(s).forward - Elapsed(s).back
<1> DEFINE t == s.at
           f == s.corrected.forward
           b == s.corrected.back
           w == s.wall
           F == corrected.forward
           B == corrected.back
<1>1. /\ t \in Nat /\ f \in Nat /\ b \in Nat /\ F \in Nat /\ B \in Nat
      /\ t <= now /\ f <= F /\ b <= B /\ now \in Nat /\ WallStart \in Nat
      /\ w = WallStart + t + f - b /\ wall = WallStart + now + F - B
  BY MetricsAssumption DEF ClocksTyped, Behind
<1>2. Elapsed(s).real = now - t /\ Elapsed(s).forward = F - f /\ Elapsed(s).back = B - b
  BY DEF Elapsed
<1> HIDE DEF t, f, b, w, F, B
<1>3. /\ now - t \in Nat /\ F - f \in Nat /\ B - b \in Nat /\ wall \in Int /\ w \in Int
      /\ wall - w = (now - t) + (F - f) - (B - b)
  BY <1>1
<1>4. QED
  BY <1>2, <1>3 DEF w

(* Every success that is stored is past. *)
LEMMA SuccessesBehindStep ==
  ASSUME TypeInv, SuccessesBehind, [Next]_vars
  PROVE  SuccessesBehind'
<1> USE DEF TypeInv
<1>1. ClocksTyped /\ Behind(Success)
  BY DEF ClocksTyped, Behind, Success
<1>2. CASE atomics'.last_success = atomics.last_success
           /\ inner'.lastSuccess = inner.lastSuccess
  <2>1. Behind(atomics.last_success)'
    BY <1>2, BehindStays DEF SuccessesBehind, Behind
  <2>2. ASSUME NEW p \in Policies PROVE Behind(inner.lastSuccess[p])'
    BY <1>2, BehindStays DEF SuccessesBehind, Behind
  <2>3. QED
    BY <2>1, <2>2 DEF SuccessesBehind
<1>3. ASSUME NEW c \in Calls, RefreshStamped(c) PROVE SuccessesBehind'
  <2>1. /\ atomics'.last_success = Success
        /\ UNCHANGED <<inner, now, corrected>>
    BY <1>3 DEF RefreshStamped, RegistryTyped, clockVars
  <2>2. QED
    BY <1>1, <2>1 DEF SuccessesBehind, Behind
<1>4. ASSUME NEW p \in Policies, RecordReload(p) PROVE SuccessesBehind'
  <2>1. PICK o \in ReloadOutcomes :
          inner'.lastSuccess = [inner.lastSuccess EXCEPT
                                   ![p] = IF o # "failure" THEN Success ELSE @]
    BY <1>4 DEF RecordReload, RegistryTyped
  <2>2. UNCHANGED <<atomics, now, corrected>>
    BY <1>4 DEF RecordReload
  <2>3. ASSUME NEW q \in Policies PROVE Behind(inner.lastSuccess[q])'
    <3>1. inner'.lastSuccess[q] = inner.lastSuccess[q]
          \/ inner'.lastSuccess[q] = Success
      BY <2>1 DEF RegistryTyped
    <3>2. QED
      BY <1>1, <2>2, <3>1 DEF SuccessesBehind, Behind
  <2>4. QED
    BY <2>2, <2>3 DEF SuccessesBehind, Behind
<1>5. ASSUME NEW c \in Calls, Handle(c), ~RefreshStamped(c)
      PROVE  atomics'.last_success = atomics.last_success
             /\ inner'.lastSuccess = inner.lastSuccess
  BY <1>5 DEF Handle, Arrive, Enter, FixedReply, Readyz, ResolveReturns, Return,
     RecordHttp, Cancel, CacheHit, RefreshFailed, StaleServed, RefreshSucceeded,
     Count, ScrapeLoads, Scrape, RegistryTyped
<1>6. QED
  BY <1>2, <1>3, <1>4, <1>5 DEF Next, MarkShuttingDown, Tick, SetClockBack,
     SetClockForward, Quiescent, vars

(* Readiness is only lost, counters only grow. *)
LEMMA StateMonotone ==
  ASSUME TypeInv, [Next]_vars
  PROVE  /\ ready' => ready
         /\ \A m \in Counters : atomics.counters[m] <= atomics'.counters[m]
<1> USE DEF TypeInv, RegistryTyped
<1>1. ASSUME NEW c \in Calls, Handle(c)
      PROVE  /\ ready' = ready
             /\ \A m \in Counters : atomics.counters[m] <= atomics'.counters[m]
  <2>1. ASSUME NEW from, NEW to, NEW n \in Counters, Count(c, from, to, n)
        PROVE  /\ ready' = ready
               /\ \A m \in Counters : atomics.counters[m] <= atomics'.counters[m]
    BY <2>1 DEF Count
  <2>2. CASE CacheHit(c) \/ RefreshFailed(c) \/ StaleServed(c) \/ RefreshSucceeded(c)
    BY <2>1, <2>2 DEF CacheHit, RefreshFailed, StaleServed, RefreshSucceeded, Counters
  <2>3. CASE RefreshStamped(c)
    BY <2>3 DEF RefreshStamped
  <2>4. CASE UNCHANGED <<ready, atomics>>
    BY <2>4
  <2>5. QED
    BY <1>1, <2>2, <2>3, <2>4 DEF Handle, Arrive, Enter, FixedReply, Readyz,
       ResolveReturns, Return, RecordHttp, Cancel, ScrapeLoads, Scrape
<1>2. CASE UNCHANGED <<atomics, ready>>
  BY <1>2
<1>3. CASE MarkShuttingDown
  BY <1>3 DEF MarkShuttingDown
<1>4. QED
  BY <1>1, <1>2, <1>3 DEF Next, RecordReload, Tick, SetClockBack, SetClockForward,
     Quiescent, vars

(* Which load is which *)
LEMMA LoadPlaces ==
  ASSUME NEW c
  PROVE  /\ Loaded(c, "ready") = loaded[c][1]
         /\ Loaded(c, "last_success") = loaded[c][2]
         /\ Loaded(c, "age") = loaded[c][3]
         /\ Loaded(c, "counters") = loaded[c][4]
BY DEF Loaded, LoadOrder

(* What a load reads is good at that moment. *)
LEMMA LoadsNow ==
  ASSUME TypeInv, SuccessesBehind
  PROVE  /\ ReadyLoad(ready)
         /\ StampLoad(LoadLastSuccess)
         /\ \A v : StampLoad(v) => AgeLoad(LoadAge(v))
         /\ CounterLoad(atomics.counters)
<1> USE DEF TypeInv
<1>1. ReadyLoad(ready)
  BY DEF ReadyLoad
<1>2. StampLoad(LoadLastSuccess)
  <2> DEFINE s == atomics.last_success
  <2>1. CASE LoadLastSuccess = None
    BY <2>1 DEF StampLoad
  <2>2. CASE LoadLastSuccess # None
    <3>1. /\ s # None /\ Behind(s)
          /\ LoadLastSuccess = [ts |-> Seconds(s.wall), of |-> s]
      BY <2>2 DEF LoadLastSuccess, SuccessesBehind
    <3> HIDE DEF s
    <3>2. QED
      BY <3>1 DEF StampLoad
  <2>3. QED
    BY <2>1, <2>2
<1>3. ASSUME NEW v, StampLoad(v) PROVE AgeLoad(LoadAge(v))
  <2>1. CASE LoadAge(v) = None
    BY <2>1 DEF AgeLoad
  <2>2. CASE LoadAge(v) # None
    <3> DEFINE s == v.of
               e == Elapsed(s)
               r == e.real
               f == e.forward
               b == e.back
               w == s.wall
               age == CacheAge(v.ts)
    <3>1. v # None /\ LoadAge(v) = [shown |-> age, elapsed |-> e]
      BY <2>2 DEF LoadAge
    <3>2. v.ts = w \div 1000 /\ s # None /\ Behind(s)
      BY <1>3, <3>1 DEF StampLoad, Seconds
    <3>3. age = IF wall \div 1000 >= w \div 1000 THEN wall \div 1000 - w \div 1000 ELSE 0
      BY <3>2 DEF CacheAge, Seconds
    <3> HIDE DEF s, e, r, f, b, w, age
    <3>4. /\ r \in Nat /\ f \in Nat /\ b \in Nat /\ wall \in Int /\ w \in Int
          /\ wall - w = r + f - b
      BY <3>2, WallElapsed DEF e, r, f, b, w
    <3>5. age * 1000 < r + f + 1000 /\ age * 1000 > r - b - 1000
      BY <3>3, <3>4
    <3>6. QED
      BY <3>1, <3>5 DEF AgeLoad, CacheAgeExplained, r, f, b
  <2>3. QED
    BY <2>1, <2>2
<1>4. CounterLoad(atomics.counters)
  BY DEF CounterLoad, RegistryTyped
<1>5. QED
  BY <1>1, <1>2, <1>3, <1>4

(* One load: which value it appends to what the scrape has. *)
LEMMA ScrapeLoadsOne ==
  ASSUME TypeInv, NEW c \in Calls, ScrapeLoads(c)
  PROVE  \E v :
           /\ Len(loaded[c]) \in 0..3
           /\ Len(loaded'[c]) = Len(loaded[c]) + 1
           /\ loaded'[c][Len(loaded[c]) + 1] = v
           /\ \A i \in 1..Len(loaded[c]) : loaded'[c][i] = loaded[c][i]
           /\ \A x \in Calls : x # c => loaded'[x] = loaded[x]
           /\ Len(loaded[c]) = 0 => v = ready
           /\ Len(loaded[c]) = 1 => v = LoadLastSuccess
           /\ Len(loaded[c]) = 2 => v = LoadAge(loaded[c][2])
           /\ Len(loaded[c]) = 3 => v = atomics.counters
<1> DEFINE s == loaded[c]
           name == LoadOrder[Len(loaded[c]) + 1]
           v == CASE name = "ready" -> ready
                  [] name = "last_success" -> LoadLastSuccess
                  [] name = "age" -> LoadAge(Loaded(c, "last_success"))
                  [] name = "counters" -> atomics.counters
<1>1. DOMAIN loaded = Calls /\ IsSequence(s)
  BY DEF TypeInv, LoadedTyped, OnCalls
<1>2. loaded' = [loaded EXCEPT ![c] = Append(@, v)]
  BY DEF ScrapeLoads
<1>3. Len(s) \in 0..3
  <2>1. Len(s) < Len(LoadOrder) /\ Len(LoadOrder) = 4
    BY DEF ScrapeLoads, LoadOrder
  <2> HIDE DEF s
  <2>2. QED
    BY <1>1, <2>1 DEF IsSequence
<1>4. Len(s) = 0 => v = ready
  <2> SUFFICES ASSUME Len(s) = 0 PROVE v = ready
    BY Zenon
  <2>1. name = "ready"
    BY DEF LoadOrder
  <2>2. QED
    BY <2>1
<1>5. Len(s) = 1 => v = LoadLastSuccess
  <2> SUFFICES ASSUME Len(s) = 1 PROVE v = LoadLastSuccess
    BY Zenon
  <2>1. name = "last_success"
    BY DEF LoadOrder
  <2>2. QED
    BY <2>1
<1>6. Len(s) = 2 => v = LoadAge(s[2])
  <2> SUFFICES ASSUME Len(s) = 2 PROVE v = LoadAge(s[2])
    BY Zenon
  <2>1. name = "age"
    BY DEF LoadOrder
  <2>2. QED
    BY <2>1, LoadPlaces
<1>7. Len(s) = 3 => v = atomics.counters
  <2> SUFFICES ASSUME Len(s) = 3 PROVE v = atomics.counters
    BY Zenon
  <2>1. name = "counters"
    BY DEF LoadOrder
  <2>2. QED
    BY <2>1
<1> HIDE DEF name, v
<1>8. loaded'[c] = Append(s, v) /\ \A x \in Calls : x # c => loaded'[x] = loaded[x]
  BY <1>1, <1>2
<1>9. /\ Len(loaded'[c]) = Len(s) + 1 /\ loaded'[c][Len(s) + 1] = v
      /\ \A i \in 1..Len(s) : loaded'[c][i] = s[i]
  <2> HIDE DEF s
  <2>1. QED
    BY <1>1, <1>8, AppendShape
<1>10. QED
  BY <1>3, <1>4, <1>5, <1>6, <1>7, <1>8, <1>9

(* Nothing that happens afterwards puts a load ahead of the state. *)
LEMMA LoadBehindStays ==
  ASSUME TypeInv, [Next]_vars, NEW l, LoadBehind(l)
  PROVE  LoadBehind(l)'
<1>1. ASSUME NEW v, StampLoad(v) PROVE StampLoad(v)'
  <2>1. CASE v = None
    BY <2>1 DEF StampLoad
  <2>2. CASE v # None
    <3> DEFINE s == v.of
    <3>1. v.ts = Seconds(s.wall) /\ s # None /\ Behind(s)
      BY <1>1, <2>2 DEF StampLoad
    <3> HIDE DEF s
    <3>2. Behind(s)'
      BY <3>1, BehindStays
    <3>3. QED
      BY <3>1, <3>2 DEF StampLoad, s
  <2>3. QED
    BY <2>1, <2>2
<1>2. ASSUME NEW v, ReadyLoad(v) PROVE ReadyLoad(v)'
  BY <1>2, StateMonotone DEF ReadyLoad
<1>3. ASSUME NEW v, CounterLoad(v) PROVE CounterLoad(v)'
  <2>1. \A m \in Counters : /\ v[m] \in Nat /\ v[m] <= atomics.counters[m]
                            /\ atomics.counters[m] <= atomics'.counters[m]
                            /\ atomics.counters[m] \in Nat /\ atomics'.counters[m] \in Nat
    BY <1>3, StateMonotone, RegistryTypedStep DEF CounterLoad, TypeInv, RegistryTyped
  <2>2. QED
    BY <1>3, <2>1 DEF CounterLoad
<1>4. ASSUME NEW v, AgeLoad(v) PROVE AgeLoad(v)'
  BY <1>4 DEF AgeLoad
<1>5. QED
  BY <1>1, <1>2, <1>3, <1>4 DEF LoadBehind

(* Every scrape in progress has loaded what was true. *)
LEMMA LoadedBehindStep ==
  ASSUME TypeInv, SuccessesBehind, LoadedBehind, [Next]_vars
  PROVE  LoadedBehind'
<1> USE DEF TypeInv
<1>0. DOMAIN loaded = Calls /\ \A c \in Calls : IsSequence(loaded[c]) /\ Len(loaded[c]) <= 4
  BY DEF LoadedTyped, OnCalls
<1>1. ASSUME NEW x \in Calls, loaded'[x] = loaded[x] PROVE LoadBehind(loaded[x])'
  <2> DEFINE s == loaded[x]
  <2>1. \A v : LoadBehind(v) => LoadBehind(v)'
    BY LoadBehindStays
  <2>2. LoadBehind(s)
    BY DEF LoadedBehind
  <2>3. QED
    BY <1>1, <2>1, <2>2, SMTT(30) DEF LoadBehind, ReadyLoad, StampLoad, AgeLoad, CounterLoad
<1>2. ASSUME NEW c \in Calls, Scrape(c) PROVE LoadedBehind'
  <2>1. loaded'[c] = <<>> /\ \A x \in Calls : x # c => loaded'[x] = loaded[x]
    BY <1>0, <1>2 DEF Scrape
  <2>2. LoadBehind(loaded[c])'
    BY <2>1, ShortSequences DEF LoadBehind
  <2>3. QED
    BY <1>1, <2>1, <2>2 DEF LoadedBehind
<1>3. ASSUME NEW c \in Calls, ScrapeLoads(c) PROVE LoadedBehind'
  <2> DEFINE s == loaded[c]
             a == loaded'[c]
  <2>1. PICK v :
          /\ Len(s) \in 0..3 /\ Len(a) = Len(s) + 1 /\ a[Len(s) + 1] = v
          /\ \A i \in 1..Len(s) : a[i] = s[i]
          /\ \A x \in Calls : x # c => loaded'[x] = loaded[x]
          /\ Len(s) = 0 => v = ready
          /\ Len(s) = 1 => v = LoadLastSuccess
          /\ Len(s) = 2 => v = LoadAge(s[2])
          /\ Len(s) = 3 => v = atomics.counters
    BY <1>3, ScrapeLoadsOne
  <2>2. UNCHANGED <<now, wall, corrected, atomics, ready>>
    BY <1>3 DEF ScrapeLoads, clockVars
  <2>3. LoadBehind(s)
    BY DEF LoadedBehind
  <2> HIDE DEF s, a
  <2>4. Len(s) = 2 => StampLoad(s[2])
    BY <2>3 DEF LoadBehind
  <2>5. /\ Len(s) = 0 => ReadyLoad(v)
        /\ Len(s) = 1 => StampLoad(v)
        /\ Len(s) = 2 => AgeLoad(v)
        /\ Len(s) = 3 => CounterLoad(v)
    BY <2>1, <2>4, LoadsNow, Zenon
  <2>6. LoadBehind(a)
    <3> DEFINE n == Len(s)
    <3>1. /\ n \in 0..3 /\ Len(a) = n + 1 /\ a[n + 1] = v
          /\ \A i \in 1..n : a[i] = s[i]
          /\ n >= 1 => ReadyLoad(s[1])
          /\ n >= 2 => StampLoad(s[2])
          /\ n >= 3 => AgeLoad(s[3])
      BY <2>1, <2>3 DEF LoadBehind
    <3>2. /\ n = 0 => ReadyLoad(v)
          /\ n = 1 => StampLoad(v)
          /\ n = 2 => AgeLoad(v)
          /\ n = 3 => CounterLoad(v)
      BY <2>5
    <3> HIDE DEF n
    <3>3. CASE n = 0
      BY <3>1, <3>2, <3>3 DEF LoadBehind
    <3>4. CASE n = 1
      BY <3>1, <3>2, <3>4 DEF LoadBehind
    <3>5. CASE n = 2
      BY <3>1, <3>2, <3>5 DEF LoadBehind
    <3>6. CASE n = 3
      BY <3>1, <3>2, <3>6 DEF LoadBehind
    <3>7. QED
      BY <3>1, <3>3, <3>4, <3>5, <3>6
  <2>7. LoadBehind(loaded[c])'
    BY <2>2, <2>6 DEF a, LoadBehind, ReadyLoad, StampLoad, Behind, AgeLoad, CounterLoad
  <2>8. QED
    BY <1>1, <2>1, <2>7 DEF LoadedBehind
<1>4. CASE UNCHANGED loaded
  BY <1>1, <1>4 DEF LoadedBehind
<1>5. ASSUME NEW c \in Calls, Handle(c), ~Scrape(c), ~ScrapeLoads(c)
      PROVE  UNCHANGED loaded
  BY <1>5 DEF Handle, Arrive, Enter, FixedReply, Readyz, ResolveReturns,
     RecordHttp, Cancel, CacheHit, RefreshFailed, StaleServed, RefreshSucceeded,
     Count, RefreshStamped, scrapeVars
<1>6. QED
  BY <1>2, <1>3, <1>4, <1>5 DEF Next, RecordReload, MarkShuttingDown, Tick,
     SetClockBack, SetClockForward, Quiescent, vars, scrapeVars

-----------------------------------------------------------------------------
(* What scrapes show *)

(* The lines of a histogram: its buckets, then its count. *)
LEMMA LinesOfHistogram ==
  ASSUME NEW h \in Histograms
  PROVE  /\ HistogramLines(h).le \in [1..12 -> Nat]
         /\ \A i \in 1..11 : HistogramLines(h).le[i] = h.buckets[i]
         /\ HistogramLines(h).le[12] = h.count
<1> DEFINE b == h.buckets
           n == h.count
           a == Append(b, n)
<1>1. b \in [1..11 -> Nat] /\ n \in Nat /\ HistogramLines(h).le = a
  BY DEF Histograms, HistogramLines
<1> HIDE DEF b, n
<1>2. b \in Seq(Nat)
  BY <1>1, SeqDef
<1>3. Len(b) = 11
  BY <1>1, <1>2
<1>4. /\ a \in Seq(Nat) /\ Len(a) = Len(b) + 1 /\ a[Len(b) + 1] = n
      /\ \A i \in 1..Len(b) : a[i] = b[i]
  BY <1>1, <1>2, AppendProperties
<1> HIDE DEF a
<1>5. a \in [1..12 -> Nat] /\ a[12] = n /\ \A i \in 1..11 : a[i] = b[i]
  <2>1. a \in [1..Len(a) -> Nat]
    BY <1>4, LenProperties
  <2>2. Len(a) = 12
    BY <1>3, <1>4
  <2>3. QED
    BY <1>3, <1>4, <2>1, <2>2
<1>6. QED
  BY <1>1, <1>5 DEF b, n

(* What is behind a family is behind it after a record as well. *)
LEMMA LinesBehindRecord ==
  ASSUME NEW family, \A k \in DOMAIN family : family[k] \in Histograms,
         NEW lines, LinesBehind(lines, family), NEW key, NEW d \in Nat
  PROVE  LinesBehind(lines, Record(family, key, d))
<1> DEFINE new == Record(family, key, d)
<1> SUFFICES ASSUME NEW k \in DOMAIN lines
             PROVE  /\ k \in DOMAIN new
                    /\ lines[k].le \in [1..12 -> Nat]
                    /\ \A i \in 1..12 : lines[k].le[i] <= HistogramLines(new[k]).le[i]
  BY DEF LinesBehind
<1>1. /\ k \in DOMAIN family /\ lines[k].le \in [1..12 -> Nat]
      /\ \A i \in 1..12 : lines[k].le[i] <= HistogramLines(family[k]).le[i]
  BY DEF LinesBehind
<1>2. k \in DOMAIN new /\ (new[k] = family[k] \/ new[k] = Observe(family[k], d))
  <2>1. /\ DOMAIN new = DOMAIN family \cup {key}
        /\ k \in DOMAIN family /\ k # key => new[k] = family[k]
        /\ key \in DOMAIN family => new[key] = Observe(family[key], d)
    <3>1. /\ DOMAIN new = DOMAIN family \cup {key}
          /\ \A l \in DOMAIN family : l # key => new[l] = family[l]
          /\ key \in DOMAIN family => new[key] = Observe(family[key], d)
      BY RecordTyped, ZenonT(30)
    <3> HIDE DEF new
    <3>2. QED
      BY <3>1
  <2> HIDE DEF new
  <2>2. QED
    BY <1>1, <2>1
<1> HIDE DEF new
<1>3. CASE new[k] = family[k]
  BY <1>1, <1>2, <1>3
<1>4. CASE new[k] = Observe(family[k], d)
  <2> DEFINE h == family[k]
             g == Observe(h, d)
  <2>1. h \in Histograms
    BY <1>1
  <2> HIDE DEF h
  <2>2. /\ g \in Histograms /\ h.count <= g.count
        /\ \A i \in 1..11 : h.buckets[i] <= g.buckets[i]
    BY <2>1, ObserveTyped
  <2> HIDE DEF g
  <2>3. /\ HistogramLines(h).le \in [1..12 -> Nat] /\ HistogramLines(g).le \in [1..12 -> Nat]
        /\ \A i \in 1..11 : HistogramLines(h).le[i] = h.buckets[i]
        /\ \A i \in 1..11 : HistogramLines(g).le[i] = g.buckets[i]
        /\ HistogramLines(h).le[12] = h.count /\ HistogramLines(g).le[12] = g.count
    BY <2>1, <2>2, LinesOfHistogram
  <2>4. ASSUME NEW i \in 1..12 PROVE HistogramLines(h).le[i] <= HistogramLines(g).le[i]
    <3>1. CASE i = 12
      BY <2>2, <2>3, <3>1
    <3>2. CASE i \in 1..11
      BY <2>2, <2>3, <3>2
    <3>3. QED
      BY <3>1, <3>2
  <2>5. ASSUME NEW i \in 1..12 PROVE lines[k].le[i] <= HistogramLines(g).le[i]
    <3>1. lines[k].le[i] \in Nat /\ lines[k].le[i] <= HistogramLines(h).le[i]
      BY <1>1 DEF h
    <3>2. HistogramLines(h).le[i] \in Nat /\ HistogramLines(g).le[i] \in Nat
      BY <2>3
    <3>3. QED
      BY <2>4, <3>1, <3>2
  <2>6. new[k] = g
    BY <1>4 DEF g, h
  <2>7. QED
    BY <1>1, <1>2, <2>5, <2>6
<1>5. QED
  BY <1>2, <1>3, <1>4

(* A family's own lines are not ahead of it. *)
LEMMA OwnLinesBehind ==
  ASSUME NEW family, \A k \in DOMAIN family : family[k] \in Histograms
  PROVE  LinesBehind([k \in DOMAIN family |-> HistogramLines(family[k])], family)
<1>1. ASSUME NEW k \in DOMAIN family
      PROVE  /\ HistogramLines(family[k]).le \in [1..12 -> Nat]
             /\ \A i \in 1..12 : HistogramLines(family[k]).le[i] <= HistogramLines(family[k]).le[i]
  <2> DEFINE le == HistogramLines(family[k]).le
  <2>1. le \in [1..12 -> Nat]
    BY LinesOfHistogram
  <2> HIDE DEF le
  <2>2. \A i \in 1..12 : le[i] <= le[i]
    BY <2>1
  <2>3. QED
    BY <2>1, <2>2 DEF le
<1>2. QED
  BY <1>1 DEF LinesBehind

(* The registry's families only grow. *)
LEMMA FamiliesGrow ==
  ASSUME TypeInv, [Next]_vars, NEW lines
  PROVE  /\ LinesBehind(lines, inner.http) => LinesBehind(lines, inner'.http)
         /\ LinesBehind(lines, inner.resolve) => LinesBehind(lines, inner'.resolve)
<1> USE DEF TypeInv, RegistryTyped
<1>1. ASSUME NEW c \in Calls, ResolveReturns(c)
      PROVE  /\ inner'.http = inner.http
             /\ \E o, d : d \in Nat /\ inner'.resolve = Record(inner.resolve, o, d)
  <2>1. now - instants[c][2] \in Nat
    BY <1>1, Durations DEF ResolveReturns
  <2>2. PICK o \in Outcomes : inner' = [inner EXCEPT !.resolve = Record(@, o, now - instants[c][2])]
    BY <1>1 DEF ResolveReturns
  <2>3. QED
    BY <2>1, <2>2
<1>2. ASSUME NEW c \in Calls, RecordHttp(c)
      PROVE  /\ inner'.resolve = inner.resolve
             /\ \E o, d : d \in Nat /\ inner'.http = Record(inner.http, o, d)
  <2>1. now - instants[c][1] \in Nat
    BY <1>2, Durations DEF RecordHttp
  <2>2. inner' = [inner EXCEPT !.http = Record(@, HttpKey(c), now - instants[c][1])]
    BY <1>2 DEF RecordHttp
  <2>3. QED
    BY <2>1, <2>2
<1>3. CASE inner'.http = inner.http /\ inner'.resolve = inner.resolve
  BY <1>3
<1>4. CASE \E c \in Calls : ResolveReturns(c)
  <2>1. PICK o, d : /\ d \in Nat /\ inner'.http = inner.http
                    /\ inner'.resolve = Record(inner.resolve, o, d)
    BY <1>1, <1>4
  <2>2. LinesBehind(lines, inner.resolve) => LinesBehind(lines, Record(inner.resolve, o, d))
    <3> DEFINE family == inner.resolve
    <3>1. \A k \in DOMAIN family : family[k] \in Histograms
      OBVIOUS
    <3> HIDE DEF family
    <3>2. LinesBehind(lines, family) => LinesBehind(lines, Record(family, o, d))
      BY <2>1, <3>1, LinesBehindRecord
    <3>3. QED
      BY <3>2 DEF family
  <2>3. QED
    BY <2>1, <2>2
<1>5. CASE \E c \in Calls : RecordHttp(c)
  <2>1. PICK o, d : /\ d \in Nat /\ inner'.resolve = inner.resolve
                    /\ inner'.http = Record(inner.http, o, d)
    BY <1>2, <1>5
  <2>2. LinesBehind(lines, inner.http) => LinesBehind(lines, Record(inner.http, o, d))
    <3> DEFINE family == inner.http
    <3>1. \A k \in DOMAIN family : family[k] \in Histograms
      OBVIOUS
    <3> HIDE DEF family
    <3>2. LinesBehind(lines, family) => LinesBehind(lines, Record(family, o, d))
      BY <2>1, <3>1, LinesBehindRecord
    <3>3. QED
      BY <3>2 DEF family
  <2>3. QED
    BY <2>1, <2>2
<1>6. ASSUME NEW p \in Policies, RecordReload(p)
      PROVE  inner'.http = inner.http /\ inner'.resolve = inner.resolve
  BY <1>6 DEF RecordReload
<1>7. ASSUME NEW c \in Calls, Handle(c), ~ResolveReturns(c), ~RecordHttp(c)
      PROVE  inner' = inner
  BY <1>7 DEF Handle, Arrive, Enter, FixedReply, Readyz, Return, Cancel, CacheHit,
     RefreshFailed, StaleServed, RefreshSucceeded, Count, RefreshStamped,
     ScrapeLoads, Scrape
<1>8. QED
  BY <1>3, <1>4, <1>5, <1>6, <1>7 DEF Next, MarkShuttingDown, Tick, SetClockBack,
     SetClockForward, Quiescent, vars

(* Policies stay shown, and their counts of reloads only grow. *)
LEMMA ReloadsGrow ==
  ASSUME TypeInv, [Next]_vars
  PROVE  /\ ShownPolicies \subseteq ShownPolicies'
         /\ \A p \in Policies, o \in ReloadOutcomes :
               /\ ReloadLines(inner.reloads[p])[o] \in Nat
               /\ ReloadLines(inner.reloads[p])[o] <= ReloadLines(inner'.reloads[p])[o]
<1> USE DEF TypeInv
<1>0. \A p \in Policies, o \in ReloadOutcomes : ReloadLines(inner.reloads[p])[o] \in Nat
  BY DEF RegistryTyped, ReloadLines
<1>1. CASE inner'.reloads = inner.reloads /\ inner'.lastSuccess = inner.lastSuccess
  BY <1>0, <1>1 DEF ShownPolicies
<1>2. ASSUME NEW q \in Policies, RecordReload(q)
      PROVE  /\ ShownPolicies \subseteq ShownPolicies'
             /\ \A p \in Policies, o \in ReloadOutcomes :
                   ReloadLines(inner.reloads[p])[o] <= ReloadLines(inner'.reloads[p])[o]
  <2> DEFINE counts == inner.reloads[q]
  <2>1. PICK r \in ReloadOutcomes :
          /\ inner'.reloads = [inner.reloads EXCEPT
                 ![q] = [x \in DOMAIN counts \cup {r} |->
                            IF x = r THEN IF r \in DOMAIN counts THEN counts[r] + 1 ELSE 1
                                     ELSE counts[x]]]
          /\ inner'.lastSuccess = [inner.lastSuccess EXCEPT
                 ![q] = IF r # "failure" THEN Success ELSE @]
    BY <1>2 DEF RecordReload, RegistryTyped
  <2>2. \A p \in Policies : p # q => /\ inner'.reloads[p] = inner.reloads[p]
                                     /\ inner'.lastSuccess[p] = inner.lastSuccess[p]
    BY <2>1 DEF RegistryTyped
  <2>3. inner'.reloads[q] = [x \in DOMAIN counts \cup {r} |->
                                IF x = r THEN IF r \in DOMAIN counts THEN counts[r] + 1 ELSE 1
                                         ELSE counts[x]]
    BY <2>1 DEF RegistryTyped
  <2>4. r \in DOMAIN inner'.reloads[q]
    BY <2>3
  <2>5. inner'.reloads[q] # <<>>
    BY <2>4
  <2>6. ShownPolicies \subseteq ShownPolicies'
    BY <2>2, <2>5 DEF ShownPolicies
  <2>7. ASSUME NEW o \in ReloadOutcomes
        PROVE  ReloadLines(inner.reloads[q])[o] <= ReloadLines(inner'.reloads[q])[o]
    <3>1. /\ ReloadLines(inner.reloads[q])[o] = IF o \in DOMAIN counts THEN counts[o] ELSE 0
          /\ ReloadLines(inner'.reloads[q])[o] =
                IF o \in DOMAIN inner'.reloads[q] THEN inner'.reloads[q][o] ELSE 0
      BY DEF ReloadLines
    <3>2. o \in DOMAIN counts => counts[o] \in Nat
      BY DEF RegistryTyped
    <3>3. QED
      BY <2>3, <3>1, <3>2
  <2>8. QED
    BY <1>0, <2>2, <2>6, <2>7
<1>3. ASSUME NEW c \in Calls, Handle(c)
      PROVE  inner'.reloads = inner.reloads /\ inner'.lastSuccess = inner.lastSuccess
  BY <1>3 DEF Handle, Arrive, Enter, FixedReply, Readyz, ResolveReturns, Return,
     RecordHttp, Cancel, CacheHit, RefreshFailed, StaleServed, RefreshSucceeded,
     Count, RefreshStamped, ScrapeLoads, Scrape, RegistryTyped
<1>4. QED
  BY <1>0, <1>1, <1>2, <1>3 DEF Next, MarkShuttingDown, Tick, SetClockBack, SetClockForward,
     Quiescent, vars

(* What a scrape shows *)
LEMMA RenderFields ==
  ASSUME NEW c
  PROVE  /\ Render(c).ready = loaded[c][1]
         /\ Render(c).cache.age = loaded[c][3]
         /\ Render(c).cache.counters = loaded[c][4]
         /\ Render(c).http = [k \in DOMAIN inner.http |-> HistogramLines(inner.http[k])]
         /\ Render(c).resolve =
               [k \in DOMAIN inner.resolve |-> HistogramLines(inner.resolve[k])]
         /\ Render(c).policies = [p \in ShownPolicies |-> PolicyLines(p)]
BY LoadPlaces DEF Render, CacheLines, HttpLines, ResolveLines

(* Only Scrape changes what was shown. *)
LEMMA OnlyScrapeExposes ==
  ASSUME [Next]_vars
  PROVE  \/ \E c \in Calls : Scrape(c)
         \/ exposed' = exposed /\ since \subseteq since'
<1>1. ASSUME NEW c \in Calls, Handle(c), ~Scrape(c)
      PROVE  exposed' = exposed /\ since \subseteq since'
  BY <1>1 DEF Handle, Arrive, Enter, FixedReply, Readyz, ResolveReturns, RecordHttp,
     Cancel, CacheHit, RefreshFailed, StaleServed, RefreshSucceeded, Count,
     RefreshStamped, ScrapeLoads, scrapeVars
<1>2. QED
  BY <1>1 DEF Next, RecordReload, MarkShuttingDown, Tick, SetClockBack, SetClockForward,
     Quiescent,
     vars, scrapeVars

(* A scrape is taken from loads that are complete. *)
LEMMA ScrapeIsLoaded ==
  ASSUME TypeInv, LoadedBehind, NEW c \in Calls, Scrape(c)
  PROVE  /\ ReadyLoad(loaded[c][1]) /\ AgeLoad(loaded[c][3]) /\ CounterLoad(loaded[c][4])
         /\ UNCHANGED <<inner, atomics, ready, clockVars>>
         /\ exposed' = Render(c) /\ since' = {}
<1>1. Len(loaded[c]) = 4
  BY DEF Scrape, LoadOrder
<1>2. LoadBehind(loaded[c])
  BY DEF LoadedBehind
<1>3. QED
  BY <1>1, <1>2 DEF LoadBehind, Scrape, Return, clockVars

(* What is shown was not ahead of the state, and the state only grows. *)
LEMMA ExposedBehindStep ==
  ASSUME TypeInv, LoadedBehind, ExposedBehind, [Next]_vars
  PROVE  ExposedBehind'
<1>0. RegistryTyped /\ RegistryTyped'
  BY RegistryTypedStep DEF TypeInv
<1>1. ASSUME NEW c \in Calls, Scrape(c) PROVE ExposedBehind'
  <2>1. /\ UNCHANGED <<inner, atomics, ready>> /\ exposed' = Render(c)
        /\ ReadyLoad(loaded[c][1]) /\ CounterLoad(loaded[c][4])
    BY <1>1, ScrapeIsLoaded
  <2>2. /\ ready' => exposed'.ready
        /\ exposed'.cache.counters \in [Counters -> Nat]
        /\ \A m \in Counters : exposed'.cache.counters[m] <= atomics'.counters[m]
    <3>1. exposed'.ready = loaded[c][1] /\ exposed'.cache.counters = loaded[c][4]
      BY <2>1, RenderFields
    <3>2. QED
      BY <2>1, <3>1 DEF ReadyLoad, CounterLoad
  <2>3. LinesBehind(exposed'.http, inner'.http) /\ LinesBehind(exposed'.resolve, inner'.resolve)
    <3>1. /\ exposed'.http = [k \in DOMAIN inner.http |-> HistogramLines(inner.http[k])]
          /\ exposed'.resolve = [k \in DOMAIN inner.resolve |-> HistogramLines(inner.resolve[k])]
          /\ inner' = inner
      BY <2>1, RenderFields
    <3> DEFINE h == inner.http
               r == inner.resolve
    <3>2. (\A k \in DOMAIN h : h[k] \in Histograms) /\ (\A k \in DOMAIN r : r[k] \in Histograms)
      BY <1>0 DEF RegistryTyped
    <3>3. /\ inner'.http = h /\ inner'.resolve = r
          /\ exposed'.http = [k \in DOMAIN h |-> HistogramLines(h[k])]
          /\ exposed'.resolve = [k \in DOMAIN r |-> HistogramLines(r[k])]
      BY <3>1
    <3> HIDE DEF h, r
    <3>4. /\ LinesBehind([k \in DOMAIN h |-> HistogramLines(h[k])], h)
          /\ LinesBehind([k \in DOMAIN r |-> HistogramLines(r[k])], r)
      BY <3>2, OwnLinesBehind
    <3>5. QED
      BY <3>3, <3>4
  <2>4. ASSUME NEW p \in DOMAIN exposed'.policies
        PROVE  /\ p \in ShownPolicies'
               /\ \A o \in ReloadOutcomes :
                     /\ exposed'.policies[p].reloads[o] \in Nat
                     /\ exposed'.policies[p].reloads[o] <= ReloadLines(inner'.reloads[p])[o]
    <3>1. exposed'.policies = [q \in ShownPolicies |-> PolicyLines(q)]
      BY <2>1, RenderFields
    <3>2. p \in ShownPolicies /\ p \in Policies /\ ShownPolicies' = ShownPolicies
      BY <2>1, <3>1 DEF ShownPolicies
    <3>3. exposed'.policies[p].reloads = ReloadLines(inner.reloads[p])
      BY <3>1, <3>2 DEF PolicyLines
    <3>4. \A o \in ReloadOutcomes : ReloadLines(inner.reloads[p])[o] \in Nat
      BY <3>2, ReloadsGrow
    <3>5. QED
      BY <2>1, <3>2, <3>3, <3>4
  <2>5. QED
    BY <2>2, <2>3, <2>4 DEF ExposedBehind
<1>2. CASE exposed' = exposed
  <2> SUFFICES ASSUME exposed # None PROVE ExposedBehind'
    BY <1>2 DEF ExposedBehind
  <2>1. /\ ready' => exposed'.ready
        /\ exposed'.cache.counters \in [Counters -> Nat]
        /\ \A m \in Counters : exposed'.cache.counters[m] <= atomics'.counters[m]
    <3>1. ready' => exposed'.ready
      BY <1>2, StateMonotone DEF ExposedBehind
    <3>2. exposed'.cache.counters \in [Counters -> Nat]
      BY <1>2 DEF ExposedBehind
    <3>3. ASSUME NEW m \in Counters
          PROVE  exposed'.cache.counters[m] <= atomics'.counters[m]
      <4>1. /\ exposed.cache.counters[m] <= atomics.counters[m]
            /\ atomics.counters[m] <= atomics'.counters[m]
            /\ exposed.cache.counters[m] \in Nat
            /\ atomics.counters[m] \in Nat /\ atomics'.counters[m] \in Nat
        BY <1>0, StateMonotone DEF ExposedBehind, RegistryTyped
      <4>2. QED
        BY <1>2, <4>1
    <3>4. QED
      BY <3>1, <3>2, <3>3
  <2>2. LinesBehind(exposed'.http, inner'.http) /\ LinesBehind(exposed'.resolve, inner'.resolve)
    <3>1. LinesBehind(exposed.http, inner.http) /\ LinesBehind(exposed.resolve, inner.resolve)
      BY DEF ExposedBehind
    <3> DEFINE h == exposed.http
               r == exposed.resolve
    <3>2. \A lines : /\ LinesBehind(lines, inner.http) => LinesBehind(lines, inner'.http)
                     /\ LinesBehind(lines, inner.resolve) => LinesBehind(lines, inner'.resolve)
      BY FamiliesGrow
    <3>3. LinesBehind(exposed.http, inner'.http) /\ LinesBehind(exposed.resolve, inner'.resolve)
      BY <3>1, <3>2
    <3>4. QED
      BY <1>2, <3>3
  <2>3. ASSUME NEW p \in DOMAIN exposed'.policies
        PROVE  /\ p \in ShownPolicies'
               /\ \A o \in ReloadOutcomes :
                     /\ exposed'.policies[p].reloads[o] \in Nat
                     /\ exposed'.policies[p].reloads[o] <= ReloadLines(inner'.reloads[p])[o]
    <3>1. p \in ShownPolicies /\ p \in Policies
      BY <1>2 DEF ExposedBehind, ShownPolicies
    <3>2. ASSUME NEW o \in ReloadOutcomes
          PROVE  /\ exposed.policies[p].reloads[o] \in Nat
                 /\ exposed.policies[p].reloads[o] <= ReloadLines(inner'.reloads[p])[o]
      <4> DEFINE a == exposed.policies[p].reloads[o]
                 b == ReloadLines(inner.reloads[p])[o]
                 d == ReloadLines(inner'.reloads[p])[o]
      <4>1. a \in Nat /\ a <= b
        BY <1>2 DEF ExposedBehind
      <4>2. b \in Nat /\ b <= d
        BY <3>1, ReloadsGrow
      <4>3. d \in Nat
        BY <1>0, <3>1 DEF RegistryTyped, ReloadLines
      <4> HIDE DEF a, b, d
      <4>4. a \in Nat /\ a <= d
        BY <4>1, <4>2, <4>3
      <4>5. QED
        BY <4>4 DEF a, d
    <3>3. QED
      BY <1>2, <3>1, <3>2, ReloadsGrow
  <2>4. QED
    BY <2>1, <2>2, <2>3 DEF ExposedBehind
<1>3. QED
  BY <1>1, <1>2, OnlyScrapeExposes

(* A scrape that arrived later loads nothing older than what was shown. *)
LEMMA LoadedSinceStep ==
  ASSUME TypeInv, ExposedBehind, LoadedSince, [Next]_vars
  PROVE  LoadedSince'
<1> USE DEF TypeInv
<1>0. /\ DOMAIN loaded = Calls /\ since \subseteq Calls
      /\ \A c \in Calls : IsSequence(loaded[c]) /\ Len(loaded[c]) <= 4
  BY DEF LoadedTyped, CallsTyped, OnCalls
<1>1. ASSUME NEW c \in Calls, Scrape(c) PROVE LoadedSince'
  BY <1>1 DEF Scrape, LoadedSince
<1>2. ASSUME NEW c \in Calls, Arrive(c) PROVE LoadedSince'
  <2>1. loaded[c] = <<>> /\ loaded' = loaded /\ since' = since \cup {c} /\ exposed' = exposed
    BY <1>2 DEF Arrive, LoadedTyped
  <2>2. Len(loaded[c]) = 0
    BY <2>1, ShortSequences
  <2>3. QED
    BY <2>1, <2>2 DEF LoadedSince
<1>3. ASSUME NEW c \in Calls, ScrapeLoads(c) PROVE LoadedSince'
  <2> DEFINE s == loaded[c]
             a == loaded'[c]
  <2>1. PICK v :
          /\ Len(s) \in 0..3 /\ Len(a) = Len(s) + 1 /\ a[Len(s) + 1] = v
          /\ \A i \in 1..Len(s) : a[i] = s[i]
          /\ \A x \in Calls : x # c => loaded'[x] = loaded[x]
          /\ Len(s) = 0 => v = ready
          /\ Len(s) = 3 => v = atomics.counters
    BY <1>3, ScrapeLoadsOne
  <2>2. exposed' = exposed /\ since' = since
    BY <1>3 DEF ScrapeLoads
  <2> SUFFICES ASSUME exposed # None, c \in since
               PROVE  /\ a[1] => exposed.ready
                      /\ Len(a) >= 4 =>
                            \A m \in Counters : exposed.cache.counters[m] <= a[4][m]
    BY <1>0, <2>1, <2>2 DEF LoadedSince
  <2>3. Len(s) >= 1 => (s[1] => exposed.ready)
    BY DEF LoadedSince
  <2> HIDE DEF s, a
  <2>4. a[1] => exposed.ready
    <3>1. CASE Len(s) = 0
      <4>1. a[1] = ready
        BY <2>1, <3>1
      <4>2. QED
        BY <4>1 DEF ExposedBehind
    <3>2. CASE Len(s) # 0
      <4>1. a[1] = s[1] /\ Len(s) >= 1
        BY <2>1, <3>2
      <4>2. QED
        BY <2>3, <4>1
    <3>3. QED
      BY <3>1, <3>2
  <2>5. ASSUME Len(a) >= 4, NEW m \in Counters
        PROVE  exposed.cache.counters[m] <= a[4][m]
    <3>1. Len(s) = 3
      BY <2>1, <2>5
    <3>2. a[4] = atomics.counters
      BY <2>1, <3>1
    <3>3. QED
      BY <3>2 DEF ExposedBehind
  <2>6. QED
    BY <2>4, <2>5
<1>4. CASE UNCHANGED <<loaded, exposed, since>>
  BY <1>4 DEF LoadedSince
<1>5. ASSUME NEW c \in Calls, Handle(c), ~Scrape(c), ~Arrive(c), ~ScrapeLoads(c)
      PROVE  UNCHANGED <<loaded, exposed, since>>
  BY <1>5 DEF Handle, Enter, FixedReply, Readyz, ResolveReturns, RecordHttp, Cancel,
     CacheHit, RefreshFailed, StaleServed, RefreshSucceeded, Count, RefreshStamped,
     scrapeVars
<1>6. QED
  BY <1>1, <1>2, <1>3, <1>4, <1>5 DEF Next, RecordReload, MarkShuttingDown, Tick,
     SetClockBack, SetClockForward, Quiescent, vars, scrapeVars

(* The age a policy is shown with, and when it is left out *)
LEMMA PolicyAgeNow ==
  ASSUME ClocksTyped, NEW s, Behind(s), s # None
  PROVE  PolicyAgeExplained(LastSuccessLines(s))
<1> DEFINE e == Elapsed(s)
           r == e.real
           f == e.forward
           b == e.back
           w == s.wall
           age == PolicyAge(s)
<1>1. LastSuccessLines(s).age = age /\ LastSuccessLines(s).elapsed = e
  BY DEF LastSuccessLines
<1>2. age = IF wall >= w THEN (wall - w) \div 1000 ELSE None
  BY DEF PolicyAge, Seconds
<1> HIDE DEF e, r, f, b, w, age
<1>3. /\ r \in Nat /\ f \in Nat /\ b \in Nat /\ wall \in Int /\ w \in Int
      /\ wall - w = r + f - b
  BY WallElapsed DEF e, r, f, b, w
<1>4. CASE age = None
  <2>1. CASE wall >= w
    <3>1. age \in Nat
      BY <1>2, <1>3, <2>1
    <3>2. QED
      BY <1>4, <3>1, MetricsAssumption
  <2>2. CASE ~(wall >= w)
    <3>1. b > r
      BY <1>3, <2>2
    <3>2. QED
      BY <1>1, <1>4, <3>1 DEF PolicyAgeExplained, r, b
  <2>3. QED
    BY <2>1, <2>2
<1>5. CASE age # None
  <2>1. wall >= w /\ age = (wall - w) \div 1000
    BY <1>2, <1>5
  <2>2. age * 1000 <= r + f /\ age * 1000 > r - b - 1000
    BY <1>3, <2>1
  <2>3. QED
    BY <1>1, <1>5, <2>2 DEF PolicyAgeExplained, r, f, b
<1>6. QED
  BY <1>4, <1>5

(* Each scrape shows ages that the corrections explain. *)
LEMMA AgeStep ==
  ASSUME TypeInv, SuccessesBehind, LoadedBehind, AgesExplained, [Next]_vars
  PROVE  AgesExplained'
<1>1. ASSUME NEW c \in Calls, Scrape(c) PROVE AgesExplained'
  <2>1. exposed' = Render(c) /\ AgeLoad(loaded[c][3])
    BY <1>1, ScrapeIsLoaded
  <2>2. exposed'.cache.age # None => CacheAgeExplained(exposed'.cache.age)
    <3>1. exposed'.cache.age = loaded[c][3]
      BY <2>1, RenderFields
    <3>2. QED
      BY <2>1, <3>1 DEF AgeLoad
  <2>3. ASSUME NEW p \in DOMAIN exposed'.policies,
               exposed'.policies[p].success.stamp # None
        PROVE  PolicyAgeExplained(exposed'.policies[p].success)
    <3> DEFINE s == inner.lastSuccess[p]
    <3>1. exposed'.policies = [q \in ShownPolicies |-> PolicyLines(q)]
      BY <2>1, RenderFields
    <3>2. p \in Policies /\ exposed'.policies[p].success = LastSuccessLines(s)
      BY <3>1 DEF ShownPolicies, PolicyLines
    <3>3. Behind(s)
      BY <3>2 DEF SuccessesBehind
    <3> HIDE DEF s
    <3>4. s # None
      BY <2>3, <3>2 DEF LastSuccessLines
    <3>5. PolicyAgeExplained(LastSuccessLines(s))
      BY <3>3, <3>4, PolicyAgeNow DEF TypeInv
    <3>6. QED
      BY <3>2, <3>5
  <2>4. QED
    BY <2>2, <2>3 DEF AgesExplained
<1>2. CASE exposed' = exposed
  BY <1>2 DEF AgesExplained
<1>3. QED
  BY <1>1, <1>2, OnlyScrapeExposes

ScrapeInv ==
    /\ TypeInv /\ SuccessesBehind /\ LoadedBehind
    /\ ExposedBehind /\ LoadedSince /\ AgesExplained

(* The parts together are inductive. *)
LEMMA ScrapeInvHolds == Spec => []ScrapeInv
<1>1. Init => SuccessesBehind /\ LoadedBehind /\ ExposedBehind /\ LoadedSince /\ AgesExplained
  <2> SUFFICES ASSUME Init
               PROVE  /\ SuccessesBehind /\ LoadedBehind
                      /\ ExposedBehind /\ LoadedSince /\ AgesExplained
    OBVIOUS
  <2> USE DEF Init
  <2>1. SuccessesBehind
    BY MetricsAssumption DEF SuccessesBehind, Behind, Baseline, Success
  <2>2. LoadedBehind
    BY ShortSequences DEF LoadedBehind, LoadBehind
  <2>3. ExposedBehind /\ LoadedSince /\ AgesExplained
    BY DEF ExposedBehind, LoadedSince, AgesExplained
  <2>4. QED
    BY <2>1, <2>2, <2>3
<1>2. TypeInv /\ ScrapeInv /\ [Next]_vars
        => SuccessesBehind' /\ LoadedBehind' /\ ExposedBehind' /\ LoadedSince' /\ AgesExplained'
  BY SuccessesBehindStep, LoadedBehindStep, ExposedBehindStep, LoadedSinceStep, AgeStep
     DEF ScrapeInv
<1>3. QED
  BY <1>1, <1>2, TypeCorrect, PTL DEF Spec, ScrapeInv

(* However the wall clock is set, back and forward, and however refreshes, *)
(* reloads and scrapes interleave, the age a scrape shows (or leaves out)  *)
(* is off by no more than the corrections made since that success.         *)
THEOREM AgesExplainedHolds == Spec => []AgesExplained
BY ScrapeInvHolds, PTL DEF ScrapeInv

(* A scrape taken after another one is not lower than it in any line. *)
LEMMA ScrapeNotLower ==
  ASSUME ScrapeInv, NEW c \in since, Scrape(c), exposed # None
  PROVE  NoLower(exposed, exposed')
<1> USE DEF ScrapeInv
<1>1. c \in Calls
  BY DEF TypeInv, CallsTyped
<1>2. exposed' = Render(c) /\ CounterLoad(loaded[c][4])
  BY <1>1, ScrapeIsLoaded
<1>3. Len(loaded[c]) = 4
  BY DEF Scrape, LoadOrder
<1>4. exposed'.ready => exposed.ready
  <2>1. exposed'.ready = loaded[c][1]
    BY <1>2, RenderFields
  <2>2. loaded[c][1] => exposed.ready
    BY <1>3 DEF LoadedSince
  <2>3. QED
    BY <2>1, <2>2
<1>5. \A m \in Counters : exposed.cache.counters[m] <= exposed'.cache.counters[m]
  <2>1. exposed'.cache.counters = loaded[c][4]
    BY <1>2, RenderFields
  <2>2. QED
    BY <1>3, <2>1 DEF LoadedSince
<1>6. ASSUME NEW old, NEW family, LinesBehind(old, family),
             NEW k \in DOMAIN old, NEW new,
             new = [j \in DOMAIN family |-> HistogramLines(family[j])]
      PROVE  /\ k \in DOMAIN new
             /\ \A i \in DOMAIN old[k].le : old[k].le[i] <= new[k].le[i]
  BY <1>6 DEF LinesBehind
<1>7. /\ exposed'.http = [k \in DOMAIN inner.http |-> HistogramLines(inner.http[k])]
      /\ exposed'.resolve = [k \in DOMAIN inner.resolve |-> HistogramLines(inner.resolve[k])]
      /\ exposed'.policies = [p \in ShownPolicies |-> PolicyLines(p)]
  BY <1>2, RenderFields
<1>8. /\ LinesBehind(exposed.http, inner.http)
      /\ LinesBehind(exposed.resolve, inner.resolve)
  BY DEF ExposedBehind
<1>9. ASSUME NEW f \in {"http", "resolve"}, NEW k \in DOMAIN exposed[f]
      PROVE  /\ k \in DOMAIN exposed'[f]
             /\ \A i \in DOMAIN exposed[f][k].le : exposed[f][k].le[i] <= exposed'[f][k].le[i]
  <2>1. CASE f = "http"
    BY <1>6, <1>7, <1>8, <2>1
  <2>2. CASE f = "resolve"
    BY <1>6, <1>7, <1>8, <2>2
  <2>3. QED
    BY <2>1, <2>2
<1>10. ASSUME NEW p \in DOMAIN exposed.policies
       PROVE  /\ p \in DOMAIN exposed'.policies
              /\ \A o \in ReloadOutcomes :
                    exposed.policies[p].reloads[o] <= exposed'.policies[p].reloads[o]
  BY <1>7 DEF ExposedBehind, PolicyLines
<1>11. QED
  BY <1>4, <1>5, <1>9, <1>10 DEF NoLower

(* A scrape that begins when another is over shows no counter and no       *)
(* bucket lower, no label set less and no readiness regained, whatever     *)
(* happens in between and whoever else scrapes.                            *)
THEOREM ScrapesMonotoneHolds == Spec => ScrapesMonotone
<1>1. ASSUME ScrapeInv, [Next]_vars
      PROVE  [\A c \in since :
                 exposed # None /\ loaded[c] # <<>> /\ loaded'[c] = <<>>
                     => NoLower(exposed, exposed')]_vars
  <2> SUFFICES ASSUME NEW c \in since, exposed # None, loaded[c] # <<>>, loaded'[c] = <<>>
               PROVE  NoLower(exposed, exposed')
    OBVIOUS
  <2>1. c \in Calls /\ DOMAIN loaded = Calls
    BY <1>1 DEF ScrapeInv, TypeInv, CallsTyped, LoadedTyped, OnCalls
  <2>2. CASE Scrape(c)
    BY <1>1, <2>2, ScrapeNotLower
  <2>3. ASSUME NEW x \in Calls, Scrape(x), x # c PROVE FALSE
    BY <2>1, <2>3 DEF Scrape
  <2>4. ASSUME NEW x \in Calls, ScrapeLoads(x) PROVE FALSE
    <3>1. CASE x = c
      <4>1. Len(loaded'[c]) = Len(loaded[c]) + 1 /\ Len(loaded[c]) \in 0..3
        BY <1>1, <2>4, <3>1, ScrapeLoadsOne DEF ScrapeInv
      <4>2. Len(loaded'[c]) = 0
        BY ShortSequences
      <4>3. QED
        BY <4>1, <4>2
    <3>2. CASE x # c
      <4>1. loaded'[c] = loaded[c]
        BY <2>1, <2>4, <3>2 DEF ScrapeLoads
      <4>2. QED
        BY <4>1
    <3>3. QED
      BY <3>1, <3>2
  <2>5. ASSUME NEW x \in Calls, Handle(x), ~Scrape(x), ~ScrapeLoads(x)
        PROVE  UNCHANGED loaded
    BY <2>5 DEF Handle, Arrive, Enter, FixedReply, Readyz, ResolveReturns, RecordHttp,
       Cancel, CacheHit, RefreshFailed, StaleServed, RefreshSucceeded, Count,
       RefreshStamped, scrapeVars
  <2>6. QED
    BY <1>1, <2>2, <2>3, <2>4, <2>5 DEF Next, RecordReload, MarkShuttingDown, Tick,
       SetClockBack, SetClockForward, Quiescent, vars, scrapeVars
<1>2. QED
  BY <1>1, ScrapeInvHolds, PTL DEF Spec, ScrapesMonotone

-----------------------------------------------------------------------------
(* Nothing is lost or counted twice *)

(* What is recorded of a call follows it through its stages. *)
LEMMA CallTookStep ==
  ASSUME TypeInv, \A c \in Calls : CallTook(c), [Next]_vars, NEW x \in Calls
  PROVE  CallTook(x)'
<1> USE DEF TypeInv
<1>0. /\ pc \in [Calls -> Places] /\ DOMAIN kind = Calls /\ DOMAIN instants = Calls
      /\ DOMAIN took = Calls /\ DOMAIN answer = Calls
      /\ now \in Nat /\ CallStage(x) /\ CallTook(x)
  BY DEF CallsTyped, OnCalls, ClocksTyped
<1>1. now' \in Nat /\ now <= now'
  BY ClocksTypedStep DEF ClocksTyped
<1>2. CASE UNCHANGED <<pc[x], kind[x], instants[x], took[x], answer[x]>>
  <2>1. CASE pc[x] = "answered" /\ kind[x] = "resolve"
    <3>1. instants[x][1] \in Nat /\ took[x][1] \in Nat /\ took[x][1] <= now - instants[x][1]
      BY <1>0, <2>1 DEF CallStage, CallTook
    <3>2. took[x][1] <= now' - instants[x][1]
      BY <1>0, <1>1, <3>1
    <3>3. QED
      BY <1>0, <1>2, <2>1, <3>2 DEF CallTook
  <2>2. CASE ~(pc[x] = "answered" /\ kind[x] = "resolve")
    BY <1>0, <1>2, <2>2 DEF CallTook
  <2>3. QED
    BY <2>1, <2>2
<1>3. CASE Handle(x)
  <2>1. CASE Arrive(x) \/ Enter(x) \/ Cancel(x) \/ RefreshStamped(x)
    BY <1>0, <2>1 DEF Arrive, Enter, Cancel, RefreshStamped, Goto, CallTook
  <2>2. CASE CacheHit(x) \/ RefreshFailed(x) \/ StaleServed(x) \/ RefreshSucceeded(x)
    BY <1>0, <2>2 DEF CacheHit, RefreshFailed, StaleServed, RefreshSucceeded, Count,
       Goto, CallTook
  <2>3. CASE FixedReply(x) \/ Readyz(x)
    BY <1>0, <2>3 DEF FixedReply, FixedStatus, Readyz, Return, Goto, CallStage, CallTook
  <2>4. CASE ResolveReturns(x)
    <3>1. PICK o \in Outcomes :
            /\ took' = [took EXCEPT ![x] = <<now - instants[x][2]>>]
            /\ Return(x, o.status, o)
      BY <2>4 DEF ResolveReturns
    <3>2. /\ took'[x] = <<now - instants[x][2]>> /\ instants' = instants /\ now' = now
          /\ pc'[x] = "answered" /\ kind' = kind /\ kind[x] = "resolve"
          /\ answer'[x].status = o.status /\ answer'[x].labels = o
      BY <1>0, <2>4, <3>1 DEF ResolveReturns, Return, Goto, clockVars
    <3>3. /\ instants[x][1] \in Nat /\ instants[x][2] \in Nat
          /\ instants[x][1] <= instants[x][2] /\ instants[x][2] <= now
      BY <1>0, <2>4 DEF ResolveReturns, CallStage
    <3>4. now - instants[x][2] \in Nat /\ now - instants[x][2] <= now - instants[x][1]
      BY <1>0, <3>3
    <3>5. QED
      BY <3>2, <3>4 DEF CallTook
  <2>5. CASE RecordHttp(x)
    <3> DEFINE d == now - instants[x][1]
    <3>1. /\ took'[x] = Append(took[x], d) /\ pc'[x] = "done" /\ UNCHANGED <<kind, answer>>
          /\ pc[x] = "answered"
      BY <1>0, <2>5 DEF RecordHttp, Goto
    <3>2. d \in Nat
      BY <2>5, Durations DEF RecordHttp
    <3> HIDE DEF d
    <3>3. CASE kind[x] = "resolve"
      <4>1. took[x] = <<took[x][1]>> /\ took[x][1] \in Nat /\ took[x][1] <= d
        BY <1>0, <3>1, <3>3 DEF CallTook, d
      <4>2. IsSequence(took[x]) /\ Len(took[x]) = 1
        BY <4>1, ShortSequences
      <4>3. took'[x] = <<took[x][1], d>>
        BY <3>1, <4>2, ShortSequences
      <4>4. QED
        BY <1>0, <3>1, <3>2, <3>3, <4>1, <4>3 DEF CallTook
    <3>4. CASE kind[x] # "resolve"
      <4>1. IsSequence(took[x]) /\ Len(took[x]) = 0
        BY <1>0, <3>1, <3>4, ShortSequences DEF CallTook
      <4>2. took'[x] = <<d>>
        BY <3>1, <4>1, ShortSequences
      <4>3. QED
        BY <3>1, <3>2, <3>4, <4>2 DEF CallTook
    <3>5. QED
      BY <3>3, <3>4
  <2>6. CASE ScrapeLoads(x)
    BY <1>2, <2>6 DEF ScrapeLoads, callVars
  <2>7. CASE Scrape(x)
    <3>1. kind[x] = "metrics" /\ took[x] = <<>>
      <4>1. Len(loaded[x]) = 4
        BY <2>7 DEF Scrape, LoadOrder
      <4>2. loaded[x] # <<>>
        BY <4>1, ShortSequences
      <4>3. QED
        BY <1>0, <2>7, <4>2 DEF LoadedTyped, Scrape, CallStage
    <3>2. QED
      BY <1>0, <2>7, <3>1 DEF Scrape, Return, Goto, CallTook
  <2>8. QED
    BY <1>3, <2>1, <2>2, <2>3, <2>4, <2>5, <2>6, <2>7 DEF Handle
<1>4. ASSUME NEW c \in Calls, Handle(c), c # x
      PROVE  UNCHANGED <<pc[x], kind[x], instants[x], took[x], answer[x]>>
  BY <1>0, <1>4 DEF Handle, Arrive, Enter, FixedReply, Readyz, ResolveReturns, Return,
     RecordHttp, Cancel, CacheHit, RefreshFailed, StaleServed, RefreshSucceeded,
     Count, RefreshStamped, ScrapeLoads, Scrape, Goto, callVars
<1>5. QED
  BY <1>2, <1>3, <1>4 DEF Next, RecordReload, MarkShuttingDown, Tick, SetClockBack,
     SetClockForward, Quiescent, vars, callVars

(* A histogram depends on the durations of its calls only. *)
LEMMA HistogramSame ==
  ASSUME NEW cs, IsFiniteSet(cs), NEW d, NEW e,
         \A x \in cs : d[x] \in Nat /\ e[x] = d[x]
  PROVE  HistogramOf(cs, e) = HistogramOf(cs, d)
<1>1. SumFunctionOnSet(e, cs) = SumFunctionOnSet(d, cs)
  BY SumCongruence
<1>2. \A i : {x \in cs : e[x] <= HISTOGRAM_BUCKETS[i]} = {x \in cs : d[x] <= HISTOGRAM_BUCKETS[i]}
  OBVIOUS
<1>3. QED
  BY <1>1, <1>2 DEF HistogramOf

(* The histogram of no calls is empty. *)
LEMMA HistogramNone ==
  ASSUME NEW d
  PROVE  HistogramOf({}, d) = EmptyHistogram
<1>1. SumFunctionOnSet(d, {}) = 0 /\ Cardinality({}) = 0
  BY FS_EmptySet, SumUnfold
<1>2. \A i : {x \in {} : d[x] <= HISTOGRAM_BUCKETS[i]} = {}
  OBVIOUS
<1>3. QED
  BY <1>1, <1>2 DEF HistogramOf, EmptyHistogram

(* Observing a duration makes the histogram that of one more call. *)
LEMMA HistogramAdd ==
  ASSUME NEW cs, IsFiniteSet(cs), NEW c, c \notin cs, NEW d, NEW e,
         \A x \in cs : d[x] \in Nat /\ e[x] = d[x], e[c] \in Nat
  PROVE  HistogramOf(cs \cup {c}, e) = Observe(HistogramOf(cs, d), e[c])
<1>1. SumFunctionOnSet(e, cs \cup {c}) = SumFunctionOnSet(d, cs) + e[c]
  <2>1. SumFunctionOnSet(e, cs \cup {c}) = e[c] + SumFunctionOnSet(e, cs)
    BY SumAdd
  <2>2. SumFunctionOnSet(e, cs) = SumFunctionOnSet(d, cs)
    BY SumCongruence
  <2>3. SumFunctionOnSet(d, cs) \in Nat
    BY SumType
  <2>4. QED
    BY <2>1, <2>2, <2>3
<1>2. Cardinality(cs \cup {c}) = Cardinality(cs) + 1
  BY FS_AddElement
<1>3. ASSUME NEW b
      PROVE  Cardinality({x \in cs \cup {c} : e[x] <= b})
                = IF e[c] <= b THEN Cardinality({x \in cs : d[x] <= b}) + 1
                  ELSE Cardinality({x \in cs : d[x] <= b})
  <2> DEFINE A == {x \in cs : d[x] <= b}
  <2>1. IsFiniteSet(A) /\ c \notin A
    BY FS_Subset
  <2>2. CASE e[c] <= b
    <3>1. {x \in cs \cup {c} : e[x] <= b} = A \cup {c}
      BY <2>2
    <3> HIDE DEF A
    <3>2. Cardinality(A \cup {c}) = Cardinality(A) + 1
      BY <2>1, FS_AddElement
    <3>3. QED
      BY <2>2, <3>1, <3>2 DEF A
  <2>3. CASE ~(e[c] <= b)
    <3>1. {x \in cs \cup {c} : e[x] <= b} = A
      BY <2>3
    <3>2. QED
      BY <2>3, <3>1
  <2>4. QED
    BY <2>2, <2>3
<1>4. QED
  BY <1>1, <1>2, <1>3 DEF HistogramOf, Observe

(* The family of the calls cs with the keys key and the durations d *)
FamilyOf(cs, key, d) ==
    [k \in {key[c] : c \in cs} |-> HistogramOf({c \in cs : key[c] = k}, d)]

(* A family depends on the keys and durations of its calls only. *)
LEMMA FamilySame ==
  ASSUME NEW cs, IsFiniteSet(cs), NEW key, NEW lock, NEW d, NEW e,
         \A x \in cs : d[x] \in Nat /\ e[x] = d[x] /\ lock[x] = key[x]
  PROVE  FamilyOf(cs, lock, e) = FamilyOf(cs, key, d)
<1>1. {lock[c] : c \in cs} = {key[c] : c \in cs}
  OBVIOUS
<1>2. ASSUME NEW k PROVE HistogramOf({c \in cs : lock[c] = k}, e) = HistogramOf({c \in cs : key[c] = k}, d)
  <2> DEFINE A == {c \in cs : key[c] = k}
  <2>1. {c \in cs : lock[c] = k} = A /\ IsFiniteSet(A) /\ A \subseteq cs
    BY FS_Subset
  <2>2. HistogramOf(A, e) = HistogramOf(A, d)
    <3> HIDE DEF A
    <3>1. QED
      BY <2>1, HistogramSame
  <2>3. QED
    BY <2>1, <2>2
<1>3. QED
  BY <1>1, <1>2 DEF FamilyOf

(* Recording a call makes the family that of one more call. *)
LEMMA FamilyAdd ==
  ASSUME NEW cs, IsFiniteSet(cs), NEW c, c \notin cs,
         NEW key, NEW lock, NEW d, NEW e,
         \A x \in cs : d[x] \in Nat /\ e[x] = d[x] /\ lock[x] = key[x],
         e[c] \in Nat
  PROVE  FamilyOf(cs \cup {c}, lock, e) = Record(FamilyOf(cs, key, d), lock[c], e[c])
<1> DEFINE F == FamilyOf(cs, key, d)
           G == FamilyOf(cs \cup {c}, lock, e)
           R == Record(F, lock[c], e[c])
           D == {key[x] : x \in cs} \cup {lock[c]}
           Of(k) == {x \in cs : key[x] = k}
<1>1. DOMAIN F = {key[x] : x \in cs} /\ \A k \in DOMAIN F : F[k] = HistogramOf(Of(k), d)
  BY DEF FamilyOf
<1>2. /\ G = [k \in D |-> HistogramOf({x \in cs \cup {c} : lock[x] = k}, e)]
  <2>1. {lock[x] : x \in cs \cup {c}} = D
    OBVIOUS
  <2>2. QED
    BY <2>1 DEF FamilyOf
<1>3. R = [k \in D |-> IF k # lock[c] THEN F[k]
                       ELSE Observe(IF lock[c] \in DOMAIN F THEN F[lock[c]] ELSE EmptyHistogram, e[c])]
  BY <1>1 DEF Record
<1>4. ASSUME NEW k \in D, k # lock[c]
      PROVE  HistogramOf({x \in cs \cup {c} : lock[x] = k}, e) = F[k]
  <2>1. {x \in cs \cup {c} : lock[x] = k} = Of(k) /\ IsFiniteSet(Of(k)) /\ Of(k) \subseteq cs
    BY <1>4, FS_Subset
  <2>2. HistogramOf(Of(k), e) = HistogramOf(Of(k), d)
    <3> DEFINE A == Of(k)
    <3>1. IsFiniteSet(A) /\ A \subseteq cs
      BY <2>1
    <3> HIDE DEF A
    <3>2. HistogramOf(A, e) = HistogramOf(A, d)
      BY <3>1, HistogramSame
    <3>3. QED
      BY <3>2 DEF A
  <2>3. k \in DOMAIN F
    BY <1>1, <1>4
  <2>4. QED
    BY <1>1, <2>1, <2>2, <2>3
<1>5. HistogramOf({x \in cs \cup {c} : lock[x] = lock[c]}, e)
        = Observe(IF lock[c] \in DOMAIN F THEN F[lock[c]] ELSE EmptyHistogram, e[c])
  <2> DEFINE A == Of(lock[c])
  <2>1. {x \in cs \cup {c} : lock[x] = lock[c]} = A \cup {c}
        /\ IsFiniteSet(A) /\ A \subseteq cs /\ c \notin A
    BY FS_Subset
  <2>2. HistogramOf(A \cup {c}, e) = Observe(HistogramOf(A, d), e[c])
    <3> HIDE DEF A
    <3>1. QED
      BY <2>1, HistogramAdd
  <2>3. CASE lock[c] \in DOMAIN F
    <3>1. F[lock[c]] = HistogramOf(A, d)
      BY <1>1, <2>3
    <3>2. QED
      BY <2>1, <2>2, <2>3, <3>1
  <2>4. CASE lock[c] \notin DOMAIN F
    <3>1. A = {}
      BY <1>1, <2>4
    <3>2. HistogramOf(A, d) = EmptyHistogram
      BY <3>1, HistogramNone
    <3>3. QED
      BY <2>1, <2>2, <2>4, <3>2
  <2>5. QED
    BY <2>3, <2>4
<1>6. G = R
  <2> DEFINE H(k) == HistogramOf({x \in cs \cup {c} : lock[x] = k}, e)
             O == Observe(IF lock[c] \in DOMAIN F THEN F[lock[c]] ELSE EmptyHistogram, e[c])
  <2>1. /\ G = [k \in D |-> H(k)] /\ R = [k \in D |-> IF k # lock[c] THEN F[k] ELSE O]
        /\ \A k \in D : k # lock[c] => H(k) = F[k]
        /\ H(lock[c]) = O
    BY <1>2, <1>3, <1>4, <1>5
  <2> HIDE DEF F, G, R, D, H, O
  <2>2. QED
    BY <2>1
<1>7. QED
  BY <1>6

LabelsOf == [c \in Calls |-> answer[c].labels]
HttpKeyOf == [c \in Calls |-> HttpKey(c)]

(* The property, as the two families of the calls *)
LEMMA RegistryAsFamilies ==
  RegistryMatchesCalls <=>
    /\ inner.resolve = FamilyOf(Answered, LabelsOf, ResolveDuration)
    /\ inner.http = FamilyOf(Recorded, HttpKeyOf, HttpDuration)
<1>1. FamilyOf(Answered, LabelsOf, ResolveDuration) =
        [k \in {answer[c].labels : c \in Answered} |->
            HistogramOf({c \in Answered : answer[c].labels = k}, ResolveDuration)]
  <2>1. \A c \in Answered : LabelsOf[c] = answer[c].labels
    BY DEF Answered, LabelsOf
  <2>2. {LabelsOf[c] : c \in Answered} = {answer[c].labels : c \in Answered}
    BY <2>1
  <2>3. \A k : {c \in Answered : LabelsOf[c] = k} = {c \in Answered : answer[c].labels = k}
    BY <2>1
  <2>4. QED
    BY <2>2, <2>3 DEF FamilyOf
<1>2. FamilyOf(Recorded, HttpKeyOf, HttpDuration) =
        [k \in {HttpKey(c) : c \in Recorded} |->
            HistogramOf({c \in Recorded : HttpKey(c) = k}, HttpDuration)]
  <2>1. \A c \in Recorded : HttpKeyOf[c] = HttpKey(c)
    BY DEF Recorded, HttpKeyOf
  <2>2. {HttpKeyOf[c] : c \in Recorded} = {HttpKey(c) : c \in Recorded}
    BY <2>1
  <2>3. \A k : {c \in Recorded : HttpKeyOf[c] = k} = {c \in Recorded : HttpKey(c) = k}
    BY <2>1
  <2>4. QED
    BY <2>2, <2>3 DEF FamilyOf
<1>3. QED
  BY <1>1, <1>2 DEF RegistryMatchesCalls

(* The recorded calls are finitely many and their durations are numbers. *)
LEMMA RecordedMeasured ==
  ASSUME TypeInv, \A c \in Calls : CallTook(c)
  PROVE  /\ IsFiniteSet(Answered) /\ IsFiniteSet(Recorded)
         /\ \A c \in Answered : ResolveDuration[c] \in Nat
         /\ \A c \in Recorded : HttpDuration[c] \in Nat
         /\ \A c \in Recorded : kind[c] = "resolve" =>
               c \in Answered /\ ResolveDuration[c] <= HttpDuration[c]
<1>1. Answered \subseteq Arrived /\ Recorded \subseteq Arrived
  BY DEF Answered, Recorded, Arrived
<1>2. IsFiniteSet(Answered) /\ IsFiniteSet(Recorded)
  BY <1>1, FS_Subset DEF TypeInv, CallsTyped
<1>3. ASSUME NEW c \in Answered PROVE ResolveDuration[c] \in Nat
  BY DEF Answered, ResolveDuration, CallTook
<1>4. ASSUME NEW c \in Recorded
      PROVE  HttpDuration[c] \in Nat
             /\ (kind[c] = "resolve" => c \in Answered /\ ResolveDuration[c] <= HttpDuration[c])
  <2>1. c \in Calls /\ pc[c] = "done" /\ HttpDuration[c] = took[c][Len(took[c])]
        /\ ResolveDuration[c] = took[c][1]
    BY DEF Recorded, HttpDuration, ResolveDuration
  <2>2. CASE kind[c] = "resolve"
    <3>1. /\ took[c] = <<took[c][1], took[c][2]>>
          /\ took[c][1] \in Nat /\ took[c][2] \in Nat /\ took[c][1] <= took[c][2]
      BY <2>1, <2>2 DEF CallTook
    <3>2. Len(took[c]) = 2
      BY <3>1
    <3>3. QED
      BY <2>1, <2>2, <3>1, <3>2 DEF Answered
  <2>3. CASE kind[c] # "resolve"
    <3>1. took[c] = <<took[c][1]>> /\ took[c][1] \in Nat
      BY <2>1, <2>3 DEF CallTook
    <3>2. Len(took[c]) = 1
      BY <3>1
    <3>3. QED
      BY <2>1, <2>3, <3>1, <3>2
  <2>4. QED
    BY <2>2, <2>3
<1>5. QED
  BY <1>2, <1>3, <1>4

(* The two families, one by one *)
ResolveFamily == inner.resolve = FamilyOf(Answered, LabelsOf, ResolveDuration)
HttpFamily == inner.http = FamilyOf(Recorded, HttpKeyOf, HttpDuration)

(* A step that leaves the answered calls alone leaves their family alone. *)
LEMMA ResolveFamilyKept ==
  ASSUME TypeInv, \A c \in Calls : CallTook(c), ResolveFamily,
         inner'.resolve = inner.resolve, Answered' = Answered,
         \A x \in Answered : answer'[x] = answer[x] /\ took'[x][1] = took[x][1]
  PROVE  ResolveFamily'
<1>1. /\ IsFiniteSet(Answered)
      /\ \A x \in Answered : ResolveDuration[x] \in Nat
  BY RecordedMeasured
<1>2. \A x \in Answered : /\ ResolveDuration'[x] = ResolveDuration[x]
                          /\ LabelsOf'[x] = LabelsOf[x]
  BY DEF Answered, ResolveDuration, LabelsOf
<1> DEFINE cs == Answered
           key == LabelsOf
           lock == LabelsOf'
           d == ResolveDuration
           e == ResolveDuration'
<1>3. /\ IsFiniteSet(cs)
      /\ \A x \in cs : d[x] \in Nat /\ e[x] = d[x] /\ lock[x] = key[x]
  BY <1>1, <1>2
<1>4. FamilyOf(cs, lock, e) = FamilyOf(cs, key, d)
  <2> HIDE DEF cs, key, lock, d, e
  <2>1. QED
    BY <1>3, FamilySame
<1>5. FamilyOf(Answered, LabelsOf, ResolveDuration)' = FamilyOf(cs, lock, e)
  BY DEF FamilyOf, HistogramOf
<1>6. QED
  BY <1>4, <1>5 DEF ResolveFamily

(* A step that leaves the recorded calls alone leaves their family alone. *)
LEMMA HttpFamilyKept ==
  ASSUME TypeInv, \A c \in Calls : CallTook(c), HttpFamily,
         inner'.http = inner.http, Recorded' = Recorded,
         \A x \in Recorded : /\ answer'[x] = answer[x] /\ took'[x] = took[x]
                             /\ kind'[x] = kind[x]
  PROVE  HttpFamily'
<1>1. /\ IsFiniteSet(Recorded)
      /\ \A x \in Recorded : HttpDuration[x] \in Nat
  BY RecordedMeasured
<1>2. \A x \in Recorded : /\ HttpDuration'[x] = HttpDuration[x]
                          /\ HttpKeyOf'[x] = HttpKeyOf[x]
  BY DEF Recorded, HttpDuration, HttpKeyOf, HttpKey
<1> DEFINE cs == Recorded
           key == HttpKeyOf
           lock == HttpKeyOf'
           d == HttpDuration
           e == HttpDuration'
<1>3. /\ IsFiniteSet(cs)
      /\ \A x \in cs : d[x] \in Nat /\ e[x] = d[x] /\ lock[x] = key[x]
  BY <1>1, <1>2
<1>4. FamilyOf(cs, lock, e) = FamilyOf(cs, key, d)
  <2> HIDE DEF cs, key, lock, d, e
  <2>1. QED
    BY <1>3, FamilySame
<1>5. FamilyOf(Recorded, HttpKeyOf, HttpDuration)' = FamilyOf(cs, lock, e)
  BY DEF FamilyOf, HistogramOf
<1>6. QED
  BY <1>4, <1>5 DEF HttpFamily

(* A resolve that returns is added to its family, and to no other. *)
LEMMA ResolveReturnsCounted ==
  ASSUME TypeInv, \A c \in Calls : CallTook(c), ResolveFamily, HttpFamily,
         NEW c \in Calls, ResolveReturns(c)
  PROVE  ResolveFamily' /\ HttpFamily'
<1>0. /\ pc \in [Calls -> Places] /\ DOMAIN took = Calls /\ DOMAIN answer = Calls
  BY DEF TypeInv, CallsTyped, OnCalls
<1> DEFINE n == now - instants[c][2]
<1>1. PICK o \in Outcomes :
        /\ inner' = [inner EXCEPT !.resolve = Record(@, o, n)]
        /\ took' = [took EXCEPT ![c] = <<n>>]
        /\ Return(c, o.status, o)
  BY DEF ResolveReturns
<1>2. n \in Nat
  BY Durations DEF ResolveReturns, TypeInv
<1> HIDE DEF n
<1>3. /\ inner'.resolve = Record(inner.resolve, o, n) /\ inner'.http = inner.http
      /\ kind' = kind /\ took'[c] = <<n>> /\ answer'[c].labels = o
      /\ \A x \in Calls : x # c => took'[x] = took[x] /\ answer'[x] = answer[x]
  BY <1>0, <1>1 DEF TypeInv, RegistryTyped, Return
<1>4. /\ c \notin Answered /\ Answered' = Answered \cup {c}
      /\ c \notin Recorded /\ Recorded' = Recorded
  BY <1>0, <1>1, <1>3 DEF ResolveReturns, Return, Goto, Answered, Recorded
<1>5. HttpFamily'
  <2>1. Recorded \subseteq Calls
    BY DEF Recorded
  <2>2. QED
    BY <1>3, <1>4, <2>1, HttpFamilyKept
<1>6. ResolveFamily'
  <2> DEFINE cs == Answered
             key == LabelsOf
             lock == LabelsOf'
             d == ResolveDuration
             e == ResolveDuration'
  <2>1. /\ IsFiniteSet(cs) /\ c \notin cs
        /\ \A x \in cs : d[x] \in Nat
    BY <1>4, RecordedMeasured
  <2>2. \A x \in cs : e[x] = d[x] /\ lock[x] = key[x]
    BY <1>3, <1>4 DEF Answered, ResolveDuration, LabelsOf
  <2>3. e[c] = n /\ lock[c] = o
    BY <1>3 DEF ResolveDuration, LabelsOf
  <2>4. FamilyOf(cs \cup {c}, lock, e) = Record(FamilyOf(cs, key, d), o, n)
    <3> HIDE DEF cs, key, lock, d, e
    <3>1. FamilyOf(cs \cup {c}, lock, e) = Record(FamilyOf(cs, key, d), lock[c], e[c])
      BY <1>2, <2>1, <2>2, <2>3, FamilyAdd
    <3>2. QED
      BY <2>3, <3>1
  <2>5. FamilyOf(Answered, LabelsOf, ResolveDuration)' = FamilyOf(Answered', lock, e)
    BY DEF FamilyOf, HistogramOf
  <2>6. FamilyOf(Answered', lock, e) = FamilyOf(cs \cup {c}, lock, e)
    BY <1>4
  <2>7. QED
    BY <1>3, <2>4, <2>5, <2>6 DEF ResolveFamily
<1>7. QED
  BY <1>5, <1>6

(* A call that is recorded is added to the HTTP family, and to no other. *)
LEMMA RecordHttpCounted ==
  ASSUME TypeInv, \A c \in Calls : CallTook(c), ResolveFamily, HttpFamily,
         NEW c \in Calls, RecordHttp(c)
  PROVE  ResolveFamily' /\ HttpFamily'
<1>0. /\ pc \in [Calls -> Places] /\ DOMAIN took = Calls /\ DOMAIN answer = Calls
  BY DEF TypeInv, CallsTyped, OnCalls
<1> DEFINE n == now - instants[c][1]
<1>1. /\ inner' = [inner EXCEPT !.http = Record(@, HttpKey(c), n)]
      /\ took' = [took EXCEPT ![c] = Append(@, n)]
      /\ UNCHANGED <<kind, answer>>
  BY DEF RecordHttp
<1>2. n \in Nat
  BY Durations DEF RecordHttp, TypeInv
<1> HIDE DEF n
<1>3. /\ inner'.http = Record(inner.http, HttpKey(c), n) /\ inner'.resolve = inner.resolve
      /\ took'[c] = Append(took[c], n)
      /\ \A x \in Calls : x # c => took'[x] = took[x]
  BY <1>0, <1>1 DEF TypeInv, RegistryTyped
<1>4. /\ Answered' = Answered
      /\ c \notin Recorded /\ Recorded' = Recorded \cup {c}
  BY <1>0, <1>1 DEF RecordHttp, Goto, Answered, Recorded
<1>5. /\ IsSequence(took[c]) /\ Len(took[c]) \in {0, 1}
      /\ kind[c] = "resolve" => Len(took[c]) = 1
  <2>1. CASE kind[c] = "resolve"
    <3>1. took[c] = <<took[c][1]>>
      BY <2>1 DEF RecordHttp, CallTook
    <3>2. QED
      BY <3>1, ShortSequences
  <2>2. CASE kind[c] # "resolve"
    BY <2>2, ShortSequences DEF RecordHttp, CallTook
  <2>3. QED
    BY <2>1, <2>2
<1>6. /\ IsSequence(took'[c]) /\ Len(took'[c]) = Len(took[c]) + 1
      /\ took'[c][Len(took'[c])] = n
      /\ kind[c] = "resolve" => took'[c][1] = took[c][1]
  BY <1>3, <1>5, AppendShape
<1>7. ResolveFamily'
  <2>1. \A x \in Answered : answer'[x] = answer[x] /\ took'[x][1] = took[x][1]
    BY <1>1, <1>3, <1>6 DEF Answered
  <2>2. QED
    BY <1>3, <1>4, <2>1, ResolveFamilyKept
<1>8. HttpFamily'
  <2> DEFINE cs == Recorded
             key == HttpKeyOf
             lock == HttpKeyOf'
             d == HttpDuration
             e == HttpDuration'
  <2>1. /\ IsFiniteSet(cs) /\ c \notin cs
        /\ \A x \in cs : d[x] \in Nat
    BY <1>4, RecordedMeasured
  <2>2. \A x \in cs : e[x] = d[x] /\ lock[x] = key[x]
    BY <1>1, <1>3, <1>4 DEF Recorded, HttpDuration, HttpKeyOf, HttpKey
  <2>3. e[c] = n /\ lock[c] = HttpKey(c)
    BY <1>1, <1>6 DEF HttpDuration, HttpKeyOf, HttpKey
  <2>4. FamilyOf(cs \cup {c}, lock, e) = Record(FamilyOf(cs, key, d), HttpKey(c), n)
    <3> HIDE DEF cs, key, lock, d, e
    <3>1. e[c] \in Nat
      BY <1>2, <2>3
    <3>2. FamilyOf(cs \cup {c}, lock, e) = Record(FamilyOf(cs, key, d), lock[c], e[c])
      BY <2>1, <2>2, <3>1, FamilyAdd
    <3>3. QED
      BY <2>3, <3>2
  <2>5. FamilyOf(Recorded, HttpKeyOf, HttpDuration)' = FamilyOf(Recorded', lock, e)
    BY DEF FamilyOf, HistogramOf
  <2>6. FamilyOf(Recorded', lock, e) = FamilyOf(cs \cup {c}, lock, e)
    BY <1>4
  <2>7. QED
    BY <1>3, <2>4, <2>5, <2>6 DEF HttpFamily
<1>9. QED
  BY <1>7, <1>8

(* Every other step leaves both families alone. *)
LEMMA FamiliesStep ==
  ASSUME TypeInv, \A c \in Calls : CallTook(c), ResolveFamily, HttpFamily, [Next]_vars
  PROVE  ResolveFamily' /\ HttpFamily'
<1>0. /\ pc \in [Calls -> Places] /\ DOMAIN took = Calls /\ DOMAIN answer = Calls
      /\ DOMAIN kind = Calls
  BY DEF TypeInv, CallsTyped, OnCalls
<1>1. ASSUME inner'.resolve = inner.resolve, inner'.http = inner.http, took' = took,
             NEW c \in Calls, pc[c] \notin {"answered", "done"},
             \A x \in Calls : x # c => /\ pc'[x] = pc[x] /\ kind'[x] = kind[x]
                                       /\ answer'[x] = answer[x],
             pc'[c] # "done", pc'[c] = "answered" => kind'[c] # "resolve"
      PROVE  ResolveFamily' /\ HttpFamily'
  <2>1. Answered' = Answered /\ Recorded' = Recorded /\ c \notin Answered /\ c \notin Recorded
    BY <1>0, <1>1 DEF Answered, Recorded
  <2>2. Answered \subseteq Calls /\ Recorded \subseteq Calls
    BY DEF Answered, Recorded
  <2>3. ResolveFamily'
    BY <1>1, <2>1, <2>2, ResolveFamilyKept
  <2>4. HttpFamily'
    BY <1>1, <2>1, <2>2, HttpFamilyKept
  <2>5. QED
    BY <2>3, <2>4
<1>2. CASE UNCHANGED callVars /\ inner'.resolve = inner.resolve /\ inner'.http = inner.http
  <2>1. Answered' = Answered /\ Recorded' = Recorded /\ took' = took /\ answer' = answer /\ kind' = kind
    BY <1>2 DEF Answered, Recorded, callVars
  <2>2. ResolveFamily'
    BY <1>2, <2>1, ResolveFamilyKept
  <2>3. HttpFamily'
    BY <1>2, <2>1, HttpFamilyKept
  <2>4. QED
    BY <2>2, <2>3
<1>3. ASSUME NEW c \in Calls, Handle(c) PROVE ResolveFamily' /\ HttpFamily'
  <2>1. CASE Arrive(c)
    BY <1>0, <1>1, <2>1 DEF Arrive, Goto
  <2>2. CASE Enter(c) \/ Cancel(c) \/ RefreshStamped(c)
    BY <1>0, <1>1, <2>2 DEF Enter, Cancel, RefreshStamped, Goto
  <2>3. CASE CacheHit(c) \/ RefreshFailed(c) \/ StaleServed(c) \/ RefreshSucceeded(c)
    BY <1>0, <1>1, <2>3 DEF CacheHit, RefreshFailed, StaleServed, RefreshSucceeded,
       Count, Goto
  <2>4. CASE FixedReply(c) \/ Readyz(c)
    BY <1>0, <1>1, <2>4 DEF FixedReply, FixedStatus, Readyz, Return, Goto
  <2>5. CASE ScrapeLoads(c)
    BY <1>2, <2>5 DEF ScrapeLoads
  <2>6. CASE Scrape(c)
    <3>1. kind[c] = "metrics"
      <4>1. Len(loaded[c]) = 4
        BY <2>6 DEF Scrape, LoadOrder
      <4>2. loaded[c] # <<>>
        BY <4>1, ShortSequences
      <4>3. QED
        BY <4>2 DEF TypeInv, LoadedTyped
    <3>2. QED
      BY <1>0, <1>1, <2>6, <3>1 DEF Scrape, Return, Goto
  <2>7. QED
    BY <1>3, <2>1, <2>2, <2>3, <2>4, <2>5, <2>6, ResolveReturnsCounted, RecordHttpCounted
       DEF Handle
<1>4. ASSUME NEW p \in Policies, RecordReload(p)
      PROVE  inner'.resolve = inner.resolve /\ inner'.http = inner.http
  BY <1>4 DEF RecordReload, TypeInv, RegistryTyped
<1>5. QED
  BY <1>2, <1>3, <1>4 DEF Next, RecordReload, MarkShuttingDown, Tick, SetClockBack,
     SetClockForward, Quiescent, vars

RegistryInv == (\A c \in Calls : CallTook(c)) /\ ResolveFamily /\ HttpFamily

(* The families and what is kept of the calls are inductive together. *)
LEMMA RegistryInvHolds == Spec => []RegistryInv
<1>1. Init => RegistryInv
  <2> SUFFICES ASSUME Init PROVE RegistryInv
    OBVIOUS
  <2>1. \A c \in Calls : CallTook(c)
    BY DEF Init, CallTook
  <2>2. Answered = {} /\ Recorded = {}
    BY DEF Init, Answered, Recorded
  <2>3. inner.resolve = <<>> /\ inner.http = <<>>
    BY DEF Init
  <2>4. \A key, d : FamilyOf({}, key, d) = <<>>
    BY DEF FamilyOf
  <2>5. QED
    BY <2>1, <2>2, <2>3, <2>4 DEF RegistryInv, ResolveFamily, HttpFamily
<1>2. TypeInv /\ RegistryInv /\ [Next]_vars => RegistryInv'
  BY CallTookStep, FamiliesStep DEF RegistryInv
<1>3. QED
  BY <1>1, <1>2, TypeCorrect, PTL DEF Spec

(* The registry is exactly what the answered calls amount to, each counted *)
(* once and in every bucket it belongs to, however many calls there are.   *)
THEOREM RegistryMatchesCallsHolds == Spec => []RegistryMatchesCalls
<1>1. RegistryInv => RegistryMatchesCalls
  BY RegistryAsFamilies DEF RegistryInv, ResolveFamily, HttpFamily
<1>2. QED
  BY <1>1, RegistryInvHolds, PTL

-----------------------------------------------------------------------------
(* The two families of one scrape *)

(* A duration d is counted in line i; the last line is +Inf. *)
Fits(d, i) == i = 12 \/ d <= HISTOGRAM_BUCKETS[i]

(* The calls of cs that are counted in line i *)
Fitting(cs, d, i) == {c \in cs : Fits(d[c], i)}

(* Line i of the histogram of some calls is how many of them fit. *)
LEMMA LineCounts ==
  ASSUME NEW cs, IsFiniteSet(cs), NEW d, \A c \in cs : d[c] \in Nat, NEW i \in 1..12
  PROVE  HistogramLines(HistogramOf(cs, d)).le[i] = Cardinality(Fitting(cs, d, i))
<1> USE DEF Fitting
<1> DEFINE h == HistogramOf(cs, d)
<1>1. \A b : Cardinality({c \in cs : d[c] <= b}) \in Nat
  <2>1. \A b : IsFiniteSet({c \in cs : d[c] <= b})
    BY FS_Subset
  <2>2. QED
    BY <2>1, FS_CardinalityType
<1>2. DOMAIN HISTOGRAM_BUCKETS = 1..11
  BY DEF HISTOGRAM_BUCKETS
<1>3. /\ h.count = Cardinality(cs)
      /\ h.sum = SumFunctionOnSet(d, cs)
      /\ h.buckets = [j \in 1..11 |-> Cardinality({c \in cs : d[c] <= HISTOGRAM_BUCKETS[j]})]
      /\ h = [count |-> h.count, sum |-> h.sum, buckets |-> h.buckets]
  BY <1>2 DEF HistogramOf
<1>4. Cardinality(cs) \in Nat /\ SumFunctionOnSet(d, cs) \in Nat
  BY FS_CardinalityType, SumType
<1> HIDE DEF h
<1>5. h \in Histograms
  <2>1. h.buckets \in [1..11 -> Nat]
    <3> DEFINE n == [j \in 1..11 |-> Cardinality({c \in cs : d[c] <= HISTOGRAM_BUCKETS[j]})]
    <3>1. \A j \in 1..11 : n[j] \in Nat
      BY <1>1
    <3> HIDE DEF n
    <3>2. n = [j \in 1..11 |-> n[j]]
      BY DEF n
    <3>3. QED
      BY <1>3, <3>1, <3>2 DEF n
  <2>2. h.count \in Nat /\ h.sum \in Nat
    BY <1>3, <1>4
  <2>3. QED
    BY <1>3, <2>1, <2>2 DEF Histograms
<1>6. CASE i = 12
  <2>1. {c \in cs : Fits(d[c], i)} = cs
    BY <1>6 DEF Fits
  <2>2. HistogramLines(h).le[12] = h.count
    BY <1>5, LinesOfHistogram
  <2>3. QED
    BY <1>3, <1>6, <2>1, <2>2 DEF h
<1>7. CASE i \in 1..11
  <2>1. {c \in cs : Fits(d[c], i)} = {c \in cs : d[c] <= HISTOGRAM_BUCKETS[i]}
    BY <1>7 DEF Fits
  <2>2. HistogramLines(h).le[i] = h.buckets[i]
    BY <1>5, <1>7, LinesOfHistogram
  <2>3. QED
    BY <1>3, <1>7, <2>1, <2>2 DEF h
<1>8. QED
  BY <1>6, <1>7

(* Line i, over some keys of a family, is how many calls with such a key   *)
(* fit.                                                                    *)
LEMMA SumLinesCount ==
  ASSUME NEW cs, IsFiniteSet(cs), NEW key, NEW d, \A c \in cs : d[c] \in Nat,
         NEW lines, DOMAIN lines = {key[c] : c \in cs},
         \A k \in DOMAIN lines :
             lines[k] = HistogramLines(HistogramOf(Fibre(cs, key, k), d)),
         NEW K, K \subseteq DOMAIN lines, NEW i \in 1..12
  PROVE  SumLines(lines, K, i) = Cardinality(Within(Fitting(cs, d, i), key, K))
<1> DEFINE C == Fitting(cs, d, i)
           f == [k \in K |-> lines[k].le[i]]
<1>1. IsFiniteSet(K)
  <2>1. IsFiniteSet(DOMAIN lines)
    BY ImageFinite
  <2>2. QED
    BY <2>1, FS_Subset
<1>2. IsFiniteSet(C)
  BY FS_Subset DEF Fitting
<1>3. ASSUME NEW k \in K PROVE f[k] = Cardinality(Fibre(C, key, k))
  <2> DEFINE A == Fibre(cs, key, k)
  <2>1. IsFiniteSet(A) /\ \A c \in A : d[c] \in Nat
    BY FS_Subset DEF Fibre
  <2>2. f[k] = HistogramLines(HistogramOf(A, d)).le[i]
    OBVIOUS
  <2>3. Fitting(A, d, i) = Fibre(C, key, k)
    BY DEF Fitting, Fibre
  <2>4. HistogramLines(HistogramOf(A, d)).le[i] = Cardinality(Fitting(A, d, i))
    <3> HIDE DEF A
    <3>1. QED
      BY <2>1, LineCounts
  <2>5. QED
    BY <2>2, <2>3, <2>4
<1>4. SumFunctionOnSet(f, K) = Cardinality(Within(C, key, K))
  <2> HIDE DEF C, f
  <2>1. QED
    BY <1>1, <1>2, <1>3, SumOfFibres
<1>5. SumLines(lines, K, i) = SumFunctionOnSet(f, K)
  BY DEF SumLines
<1>6. QED
  BY <1>4, <1>5

(* What a scrape shows now agrees. *)
LEMMA FamiliesAgreeNow ==
  ASSUME TypeInv, RegistryInv, NEW status, NEW i \in 1..12,
         NEW http, http = HttpLines(inner.http),
         NEW resolve, resolve = ResolveLines(inner.resolve)
  PROVE  SumLines(http, {k \in DOMAIN http : k.status = status
                            /\ k.method = "POST" /\ k.route = "/v1/resolve"}, i)
         <= SumLines(resolve, {k \in DOMAIN resolve : k.status = status}, i)
<1> DEFINE KH == {k \in DOMAIN http : k.status = status
                      /\ k.method = "POST" /\ k.route = "/v1/resolve"}
           KR == {k \in DOMAIN resolve : k.status = status}
           A == Within(Fitting(Recorded, HttpDuration, i), HttpKeyOf, KH)
           B == Within(Fitting(Answered, ResolveDuration, i), LabelsOf, KR)
<1>1. /\ IsFiniteSet(Answered) /\ IsFiniteSet(Recorded)
      /\ \A c \in Answered : ResolveDuration[c] \in Nat
      /\ \A c \in Recorded : HttpDuration[c] \in Nat
      /\ \A c \in Recorded : kind[c] = "resolve" =>
            c \in Answered /\ ResolveDuration[c] <= HttpDuration[c]
  BY RecordedMeasured DEF RegistryInv
<1>2. /\ DOMAIN http = {HttpKeyOf[c] : c \in Recorded}
      /\ \A k \in DOMAIN http :
            http[k] = HistogramLines(HistogramOf(Fibre(Recorded, HttpKeyOf, k), HttpDuration))
  BY DEF Fibre, RegistryInv, HttpFamily, FamilyOf, HttpLines
<1>3. /\ DOMAIN resolve = {LabelsOf[c] : c \in Answered}
      /\ \A k \in DOMAIN resolve :
            resolve[k] = HistogramLines(HistogramOf(Fibre(Answered, LabelsOf, k), ResolveDuration))
  BY DEF Fibre, RegistryInv, ResolveFamily, FamilyOf, ResolveLines
<1>4. SumLines(http, KH, i) = Cardinality(A)
  <2>1. KH \subseteq DOMAIN http
    OBVIOUS
  <2> HIDE DEF KH
  <2>2. QED
    BY <1>1, <1>2, <2>1, SumLinesCount
<1>5. SumLines(resolve, KR, i) = Cardinality(B)
  <2>1. KR \subseteq DOMAIN resolve
    OBVIOUS
  <2> HIDE DEF KR
  <2>2. QED
    BY <1>1, <1>3, <2>1, SumLinesCount
<1>6. A \subseteq B
  <2> SUFFICES ASSUME NEW c \in A PROVE c \in B
    OBVIOUS
  <2>1. c \in Recorded /\ c \in Calls /\ pc[c] = "done" /\ Fits(HttpDuration[c], i) /\ HttpKeyOf[c] \in KH
    BY DEF Recorded, Within, Fitting
  <2>2. /\ Endpoint[kind[c]].method = "POST" /\ answer[c].status = status
    BY <2>1 DEF HttpKeyOf, HttpKey
  <2>3. kind[c] \in DOMAIN Endpoint
    BY <2>1 DEF TypeInv, CallStage
  <2>4. kind[c] = "resolve"
    BY <2>2, <2>3 DEF Endpoint
  <2>5. c \in Answered /\ ResolveDuration[c] <= HttpDuration[c]
    BY <1>1, <2>1, <2>4
  <2>6. Fits(ResolveDuration[c], i)
    <3>1. i \in 1..11 => HISTOGRAM_BUCKETS[i] \in Nat
      BY DEF HISTOGRAM_BUCKETS
    <3>2. ResolveDuration[c] \in Nat /\ HttpDuration[c] \in Nat
      BY <1>1, <2>1, <2>5
    <3>3. QED
      BY <2>1, <2>5, <3>1, <3>2 DEF Fits
  <2>7. LabelsOf[c] \in DOMAIN resolve
    BY <1>3, <2>5
  <2>8. LabelsOf[c].status = status
    BY <2>1, <2>2, <2>4 DEF LabelsOf, RegistryInv, CallTook
  <2>9. QED
    BY <2>5, <2>6, <2>7, <2>8 DEF Within, Fitting
<1>7. IsFiniteSet(B)
  BY <1>1, FS_Subset DEF Within, Fitting
<1>8. Cardinality(A) <= Cardinality(B)
  <2> HIDE DEF A, B
  <2>1. QED
    BY <1>6, <1>7, FS_Subset
<1>9. QED
  BY <1>4, <1>5, <1>8

(* What FamiliesAgree says of a scrape s *)
AgreeIn(s) ==
    \A status \in Statuses(s), i \in 1..12 :
        SumLines(s.http, {k \in DOMAIN s.http : k.status = status
                             /\ k.method = "POST" /\ k.route = "/v1/resolve"}, i)
        <= SumLines(s.resolve, {k \in DOMAIN s.resolve : k.status = status}, i)

(* In every scrape the resolve family is ahead of the HTTP family for its  *)
(* route, status by status and bucket by bucket, for any number of calls.  *)
THEOREM FamiliesAgreeHolds == Spec => []FamiliesAgree
<1>1. Init => FamiliesAgree
  BY DEF Init, FamiliesAgree
<1>2. TypeInv /\ RegistryInv /\ FamiliesAgree /\ [Next]_vars => FamiliesAgree'
  <2> SUFFICES ASSUME TypeInv, RegistryInv, FamiliesAgree, [Next]_vars PROVE FamiliesAgree'
    OBVIOUS
  <2>0. Len(HISTOGRAM_BUCKETS) + 1 = 12
    BY DEF HISTOGRAM_BUCKETS
  <2>1. /\ FamiliesAgree <=> (exposed # None => AgreeIn(exposed))
        /\ FamiliesAgree' <=> (exposed' # None => AgreeIn(exposed'))
    BY <2>0 DEF FamiliesAgree, AgreeIn
  <2>2. CASE exposed' = exposed
    BY <2>1, <2>2
  <2>3. ASSUME NEW c \in Calls, Scrape(c) PROVE FamiliesAgree'
    <3>1. exposed' = Render(c)
      BY <2>3 DEF Scrape
    <3>2. exposed'.http = HttpLines(inner.http) /\ exposed'.resolve = ResolveLines(inner.resolve)
      BY <3>1 DEF Render
    <3>3. AgreeIn(exposed')
      BY <3>2, FamiliesAgreeNow DEF AgreeIn
    <3>4. QED
      BY <2>1, <3>3
  <2>4. QED
    BY <2>2, <2>3, OnlyScrapeExposes
<1>3. QED
  BY <1>1, <1>2, TypeCorrect, RegistryInvHolds, PTL DEF Spec

=============================================================================
