--------------------------- MODULE VaultCacheProofs ---------------------------
(***************************************************************************)
(* What VaultCache guarantees for every number of requests, every cache    *)
(* configuration and every behaviour of the server.                        *)
(*                                                                         *)
(* The inductive invariant is built in layers.  Types come first; then who *)
(* holds the lock and the permit, which makes the refresh a sequential     *)
(* program; then, for that one program, what the attempt record and the    *)
(* deferral mean, and how the recorded instants are ordered.               *)
(***************************************************************************)
EXTENDS VaultCache, TLAPS

(* The four awaits of fetch_vault. *)
Fetching == {"token", "permit", "unlock", "sync"}

(* The vault a request is about to install has its sync response. *)
StoreReady == \A r \in Requests : pc[r] = "store" => fetch[r].syncedAt # None

TypeInv == TypeOK /\ StoreReady

(* The permit is out while a blocking task runs. *)
PermitInv ==
    /\ permits <= 1
    /\ \A r \in Requests : pc[r] \in {"unlock", "orphan"} => permits = 0

(* A request that reads the cache finds it filled. *)
FilledInv ==
    \A r \in Requests : pc[r] # "missing" /\ (pc[r] = "read" => cache # None)

TransientFailure == attempt.result = "failed" /\ Transient(attempt.err)

(* The latest attempt is running while a request fetches; it has failed    *)
(* for a transient reason while the fallback is considered and as long as  *)
(* the entry may be served in deferral of a refresh; and it has left its   *)
(* deadline in the lock when it failed.                                    *)
AttemptInv ==
    /\ \A r \in Requests : pc[r] \in Fetching => attempt.result = "running"
    /\ \A r \in Requests : pc[r] = "stale" => TransientFailure
    /\ cache # None /\ CanDefer(cache, now) => TransientFailure
    /\ attempt.result = "failed" /\ attempt.endedAt + RetryInterval <= InstantMax
          => retryAfter = attempt.endedAt + RetryInterval

(* The bound of StalenessBound for a request that arrived at a and is      *)
(* answered from a snapshot of s.                                          *)
Recent(a, s) ==
    \/ a <= s
    \/ Ttl + StaleIfError > 0 /\ a < s + HttpTimeout + Ttl + StaleIfError

(* The entry's instants are in order and one HTTP call apart at most. *)
EntryInv ==
    cache # None =>
        /\ cache.syncedAt <= cache.fetchedAt
        /\ cache.fetchedAt <= now
        /\ cache.fetchedAt <= cache.syncedAt + HttpTimeout

(* The instants on the stack of a request that refreshes: they lie between *)
(* its arrival and now, a sync call is not older than its timeout, and the *)
(* snapshot it brings is no older than the one in the cache.               *)
FetchOK(r) ==
    /\ pc[r] \in Fetching \cup {"store", "stale"} =>
          arrivedAt[r] <= fetch[r].instant /\ fetch[r].instant <= now
    /\ pc[r] \notin {"sync", "store"} => fetch[r].syncedAt = None
    /\ pc[r] = "sync" => now <= fetch[r].instant + HttpTimeout
    /\ pc[r] = "sync" /\ fetch[r].syncedAt # None =>
          fetch[r].instant <= fetch[r].syncedAt /\ fetch[r].syncedAt <= now
    /\ pc[r] = "store" =>
          /\ fetch[r].syncedAt <= fetch[r].instant
          /\ fetch[r].instant <= fetch[r].syncedAt + HttpTimeout
    /\ pc[r] \in {"sync", "store"} /\ fetch[r].syncedAt # None =>
          /\ arrivedAt[r] <= fetch[r].syncedAt
          /\ cache # None => cache.syncedAt <= fetch[r].syncedAt

FetchInv == \A r \in Requests : FetchOK(r)

(* What a request was answered from, or is about to be. *)
AnswerInv ==
    \A r \in Requests :
        /\ arrivedAt[r] <= now
        /\ pc[r] # "served" => served[r] = None
        /\ pc[r] = "read" => Recent(arrivedAt[r], cache.syncedAt)
        /\ served[r] # None => Recent(arrivedAt[r], served[r])

AgeInv == EntryInv /\ FetchInv /\ AnswerInv

(* The whole inductive invariant. *)
IInv == TypeInv /\ SingleFlight /\ PermitInv /\ OneUnlockTask /\ FilledInv
           /\ AttemptInv /\ AgeInv

-----------------------------------------------------------------------------
(* The types hold initially.                                               *)
LEMMA TypeInit == Init => TypeInv
  BY ConfigAssumption, NoneAssumption DEF Init, TypeInv, StoreReady, TypeOK, States,
     Suspended, Refreshing, Finished, Fetches, NoFetch, FetchAt, Metrics, Attempts, NoAttempt

(* What is left of a request's types when it leaves the refresh. *)
LeaveTypes(r, to) ==
    /\ pc' \in [Requests -> States]
    /\ pc' = [pc EXCEPT ![r] = to]
    /\ holder' \in Requests \cup {None}
    /\ fetch' \in [Requests -> Fetches]
    /\ \A s \in Requests \ {r} : fetch'[s] = fetch[s]

(* Leaving the refresh keeps the types of pc, the lock and the stack.      *)
LEMMA LeaveTyped ==
  ASSUME TypeOK, NEW r \in Requests, NEW to \in States, Leave(r, to)
  PROVE  LeaveTypes(r, to) /\ pc'[r] = to
  BY DEF Leave, Goto, LeaveTypes, TypeOK, Fetches, NoFetch, FetchAt

(* Every step keeps the types.                                             *)
LEMMA TypeStep == TypeInv /\ [Next]_vars => TypeInv'
<1> SUFFICES ASSUME TypeOK, StoreReady, [Next]_vars PROVE TypeInv'
  BY DEF TypeInv
<1> USE ConfigAssumption, NoneAssumption DEF TypeInv
<1>1. CASE UNCHANGED vars
  BY <1>1 DEF vars, TypeOK, States, Suspended, Refreshing, Finished, StoreReady
<1>2. CASE Tick
  BY <1>2 DEF Tick, client, history, TypeOK, States, Suspended, Refreshing,
     Finished, StoreReady
<1>3. ASSUME NEW r \in Requests, Arrive(r) PROVE TypeInv'
  BY <1>3 DEF Arrive, Goto, client, TypeOK, States, Suspended, Refreshing,
     Finished, StoreReady
<1>4. ASSUME NEW r \in Requests, ReuseFresh(r) PROVE TypeInv'
  <2>1. LeaveTypes(r, "read")
    BY <1>4, LeaveTyped DEF ReuseFresh, TypeOK, States, Suspended, Refreshing,
       Finished
  <2>2. metrics' \in Metrics
    BY <1>4 DEF ReuseFresh, Metrics, TypeOK
  <2>3. QED
    BY <1>4, <2>1, <2>2 DEF ReuseFresh, LeaveTypes, history, TypeOK, StoreReady
<1>5. ASSUME NEW r \in Requests, ReuseDeferred(r) PROVE TypeInv'
  <2>1. LeaveTypes(r, "read")
    BY <1>5, LeaveTyped DEF ReuseDeferred, TypeOK, States, Suspended,
       Refreshing, Finished
  <2>2. metrics' \in Metrics
    BY <1>5 DEF ReuseDeferred, Metrics, TypeOK
  <2>3. QED
    BY <1>5, <2>1, <2>2 DEF ReuseDeferred, LeaveTypes, history, TypeOK, StoreReady
<1>6. ASSUME NEW r \in Requests, MissCheck(r) PROVE TypeInv'
  BY <1>6 DEF MissCheck, Goto, client, history, TypeOK, States, Suspended,
     Refreshing, Finished, StoreReady
<1>7. ASSUME NEW r \in Requests, AcquireLock(r) PROVE TypeInv'
  BY <1>7 DEF AcquireLock, Goto, history, TypeOK, States, Suspended, Refreshing,
     Finished, StoreReady
<1>8. ASSUME NEW r \in Requests, Throttle(r) PROVE TypeInv'
  BY <1>8 DEF Throttle, Leave, Goto, history, Fetches, NoFetch, FetchAt, TypeOK,
     States, Suspended, Refreshing, Finished, StoreReady
<1>9. ASSUME NEW r \in Requests, StartLogin(r) PROVE TypeInv'
  BY <1>9 DEF StartLogin, Goto, client, Fetches, Attempts, TypeOK, States,
     Suspended, Refreshing, Finished, StoreReady
<1>10. ASSUME NEW r \in Requests, TokenReply(r) PROVE TypeInv'
  BY <1>10, ServerAssumption DEF TokenReply, Goto, client, history, Fetches,
     StoreReady, TypeOK, States, Suspended, Refreshing, Finished
<1>11. ASSUME NEW r \in Requests, AcquirePermit(r) PROVE TypeInv'
  BY <1>11 DEF AcquirePermit, Goto, history, TypeOK, States, Suspended,
     Refreshing, Finished, StoreReady
<1>12. ASSUME NEW r \in Requests, UnlockDone(r) PROVE TypeInv'
  <2>1. fetch' \in [Requests -> Fetches] /\ permits' \in Nat
    BY <1>12 DEF UnlockDone, Fetches, TypeOK
  <2>2. QED
    BY <1>12, <2>1 DEF UnlockDone, Goto, history, StoreReady, TypeOK, States,
       Suspended, Refreshing, Finished
<1>13. ASSUME NEW r \in Requests, OrphanDone(r) PROVE TypeInv'
  BY <1>13 DEF OrphanDone, Goto, history, TypeOK, States, Suspended, Refreshing,
     Finished, StoreReady
<1>14. ASSUME NEW r \in Requests, ServerSync(r) PROVE TypeInv'
  BY <1>14 DEF ServerSync, client, history, Fetches, TypeOK, States, Suspended,
     Refreshing, Finished, StoreReady
<1>15. ASSUME NEW r \in Requests, SyncReply(r) PROVE TypeInv'
  <2>1. fetch' \in [Requests -> Fetches]
    BY <1>15 DEF SyncReply, Fetches, TypeOK
  <2>2. metrics' \in Metrics
    <3>1. metrics.refresh_successes + 1 \in Nat /\ now \in Nat
      BY DEF Metrics, TypeOK
    <3>2. metrics' = [cache_hits        |-> metrics.cache_hits,
                      refresh_successes |-> metrics.refresh_successes + 1,
                      refresh_failures  |-> metrics.refresh_failures,
                      stale_serves      |-> metrics.stale_serves,
                      last_success      |-> now]
      BY <1>15 DEF SyncReply, Metrics, TypeOK
    <3>3. QED
      BY <3>1, <3>2 DEF Metrics, TypeOK
  <2>3. attempt' \in Attempts
    BY <1>15 DEF SyncReply, Attempts, NoAttempt, TypeOK
  <2>4. StoreReady'
    BY <1>15 DEF SyncReply, Goto, Fetches, StoreReady, TypeOK
  <2>5. QED
    BY <1>15, <2>1, <2>2, <2>3, <2>4 DEF SyncReply, Goto, TypeOK, States,
       Suspended, Refreshing, Finished
<1>16. ASSUME NEW r \in Requests, CallFails(r) PROVE TypeInv'
  <2>1. PICK e \in HttpErrors : RefreshFails(r, e)
    BY <1>16 DEF CallFails
  <2>2. metrics' \in Metrics
    BY <2>1 DEF RefreshFails, Metrics, TypeOK
  <2>3. attempt' \in Attempts
    BY <2>1, ServerAssumption DEF RefreshFails, Ended, Attempts, TypeOK
  <2>4. /\ pc' \in [Requests -> States] /\ holder' \in Requests \cup {None}
        /\ fetch' \in [Requests -> Fetches] /\ pc'[r] \in {"stale", "failed"}
        /\ \A s \in Requests \ {r} : pc'[s] = pc[s] /\ fetch'[s] = fetch[s]
    <3>1. CASE PermitsStaleCache(e)
      BY <2>1, <3>1, SMTT(30) DEF RefreshFails, Goto, Fetches, NoFetch, FetchAt, TypeOK,
         States, Suspended, Refreshing, Finished
    <3>2. CASE ~PermitsStaleCache(e)
      <4>1. LeaveTypes(r, "failed")
        BY <2>1, <3>2, LeaveTyped DEF RefreshFails, TypeOK, States, Suspended,
           Refreshing, Finished
      <4>2. QED
        BY <4>1 DEF LeaveTypes
    <3>3. QED
      BY <3>1, <3>2
  <2>5. permits' \in Nat /\ retryAfter' \in Nat \cup {None}
    BY <1>16, <2>1 DEF CallFails, RefreshFails, CheckedAdd, TypeOK
  <2>6. QED
    BY <2>1, <2>2, <2>3, <2>4, <2>5 DEF RefreshFails, StoreReady, TypeOK
<1>17. ASSUME NEW r \in Requests, UnlockFails(r) PROVE TypeInv'
  <2>1. PICK e \in UnlockErrors : RefreshFails(r, e)
    BY <1>17 DEF UnlockFails
  <2>2. metrics' \in Metrics
    BY <2>1 DEF RefreshFails, Metrics, TypeOK
  <2>3. attempt' \in Attempts
    BY <2>1, ServerAssumption DEF RefreshFails, Ended, Attempts, TypeOK
  <2>4. /\ pc' \in [Requests -> States] /\ holder' \in Requests \cup {None}
        /\ fetch' \in [Requests -> Fetches] /\ pc'[r] \in {"stale", "failed"}
        /\ \A s \in Requests \ {r} : pc'[s] = pc[s] /\ fetch'[s] = fetch[s]
    <3>1. CASE PermitsStaleCache(e)
      BY <2>1, <3>1, SMTT(30) DEF RefreshFails, Goto, Fetches, NoFetch, FetchAt, TypeOK,
         States, Suspended, Refreshing, Finished
    <3>2. CASE ~PermitsStaleCache(e)
      <4>1. LeaveTypes(r, "failed")
        BY <2>1, <3>2, LeaveTyped DEF RefreshFails, TypeOK, States, Suspended,
           Refreshing, Finished
      <4>2. QED
        BY <4>1 DEF LeaveTypes
    <3>3. QED
      BY <3>1, <3>2
  <2>5. permits' \in Nat /\ retryAfter' \in Nat \cup {None}
    BY <1>17, <2>1 DEF UnlockFails, RefreshFails, CheckedAdd, TypeOK
  <2>6. QED
    BY <2>1, <2>2, <2>3, <2>4, <2>5 DEF RefreshFails, StoreReady, TypeOK
<1>18. ASSUME NEW r \in Requests, Store(r) PROVE TypeInv'
  <2>1. LeaveTypes(r, "read")
    BY <1>18, LeaveTyped DEF Store, TypeOK, States, Suspended, Refreshing, Finished
  <2>2. cache' \in Vaults
    BY <1>18 DEF Store, NewVault, CheckedAdd, Vaults, Fetches, StoreReady, TypeOK
  <2>3. QED
    BY <1>18, <2>1, <2>2 DEF Store, LeaveTypes, history, StoreReady, TypeOK
<1>19. ASSUME NEW r \in Requests, ServeStale(r) PROVE TypeInv'
  <2>1. LeaveTypes(r, "read")
    BY <1>19, LeaveTyped DEF ServeStale, TypeOK, States, Suspended, Refreshing,
       Finished
  <2>2. cache' \in Vaults /\ metrics' \in Metrics
    BY <1>19 DEF ServeStale, StaleUsable, CheckedAdd, Vaults, Fetches, Metrics,
       TypeOK
  <2>3. QED
    BY <1>19, <2>1, <2>2 DEF ServeStale, LeaveTypes, history, StoreReady, TypeOK
<1>20. ASSUME NEW r \in Requests, StaleRefused(r) PROVE TypeInv'
  BY <1>20 DEF StaleRefused, Leave, Goto, history, Fetches, NoFetch, FetchAt,
     TypeOK, States, Suspended, Refreshing, Finished, StoreReady
<1>21. ASSUME NEW r \in Requests, ReadDocument(r) PROVE TypeInv'
  BY <1>21 DEF ReadDocument, Goto, client, Vaults, TypeOK, States, Suspended,
     Refreshing, Finished, StoreReady
<1>22. ASSUME NEW r \in Requests, Cancel(r) PROVE TypeInv'
  <2>1. PICK to \in {"orphan", "cancelled"} : Leave(r, to)
    BY <1>22 DEF Cancel
  <2>2. LeaveTypes(r, to)
    BY <2>1, LeaveTyped DEF TypeOK, States, Suspended, Refreshing, Finished
  <2>3. attempt' \in Attempts
    BY <1>22 DEF Cancel, Ended, Attempts, TypeOK
  <2>4. QED
    BY <1>22, <2>2, <2>3 DEF Cancel, LeaveTypes, StoreReady, TypeOK
<1>23. QED
  BY <1>1, <1>2, <1>3, <1>4, <1>5, <1>6, <1>7, <1>8, <1>9, <1>10, <1>11, <1>12,
     <1>13, <1>14, <1>15, <1>16, <1>17, <1>18, <1>19, <1>20, <1>21,
     <1>22 DEF Next, Advance, Quiescent

(* TypeOK is an invariant: every field of the client and of its requests   *)
(* keeps the type api.rs declares.                                         *)
THEOREM TypeCorrect == Spec => []TypeOK
<1>1. TypeInv => TypeOK
  BY DEF TypeInv
<1>2. QED
  BY TypeInit, TypeStep, <1>1, PTL DEF Spec

-----------------------------------------------------------------------------
(* Initially nobody refreshes.                                             *)
LEMMA LockInit == Init => SingleFlight
  BY NoneAssumption DEF Init, SingleFlight, Refreshing

(* Every step keeps the refresh behind the lock.                           *)
LEMMA LockStep == TypeOK /\ SingleFlight /\ [Next]_vars => SingleFlight'
<1> SUFFICES ASSUME TypeOK, SingleFlight, [Next]_vars PROVE SingleFlight'
  OBVIOUS
<1> USE NoneAssumption DEF SingleFlight, Refreshing
<1>1. CASE UNCHANGED vars
  BY <1>1 DEF vars, TypeOK
<1>2. CASE Tick
  BY <1>2 DEF Tick, client, history, TypeOK
<1>3. ASSUME NEW r \in Requests, Arrive(r) PROVE SingleFlight'
  BY <1>3 DEF Arrive, Goto, client, TypeOK
<1>4. ASSUME NEW r \in Requests, ReuseFresh(r) PROVE SingleFlight'
  BY <1>4 DEF ReuseFresh, Leave, Goto, history, TypeOK
<1>5. ASSUME NEW r \in Requests, ReuseDeferred(r) PROVE SingleFlight'
  BY <1>5 DEF ReuseDeferred, Leave, Goto, history, TypeOK
<1>6. ASSUME NEW r \in Requests, MissCheck(r) PROVE SingleFlight'
  BY <1>6 DEF MissCheck, Goto, client, history, TypeOK
<1>7. ASSUME NEW r \in Requests, AcquireLock(r) PROVE SingleFlight'
  BY <1>7 DEF AcquireLock, Goto, history, TypeOK
<1>8. ASSUME NEW r \in Requests, Throttle(r) PROVE SingleFlight'
  BY <1>8 DEF Throttle, Leave, Goto, history, TypeOK
<1>9. ASSUME NEW r \in Requests, StartLogin(r) PROVE SingleFlight'
  BY <1>9 DEF StartLogin, Goto, client, TypeOK
<1>10. ASSUME NEW r \in Requests, TokenReply(r) PROVE SingleFlight'
  BY <1>10 DEF TokenReply, Goto, client, history, TypeOK
<1>11. ASSUME NEW r \in Requests, AcquirePermit(r) PROVE SingleFlight'
  BY <1>11 DEF AcquirePermit, Goto, history, TypeOK
<1>12. ASSUME NEW r \in Requests, UnlockDone(r) PROVE SingleFlight'
  BY <1>12 DEF UnlockDone, Goto, history, TypeOK
<1>13. ASSUME NEW r \in Requests, OrphanDone(r) PROVE SingleFlight'
  BY <1>13 DEF OrphanDone, Goto, history, TypeOK
<1>14. ASSUME NEW r \in Requests, ServerSync(r) PROVE SingleFlight'
  BY <1>14 DEF ServerSync, client, history, TypeOK
<1>15. ASSUME NEW r \in Requests, SyncReply(r) PROVE SingleFlight'
  BY <1>15 DEF SyncReply, Goto, TypeOK
<1>16. ASSUME NEW r \in Requests, CallFails(r) PROVE SingleFlight'
  BY <1>16 DEF CallFails, RefreshFails, Leave, Goto, TypeOK
<1>17. ASSUME NEW r \in Requests, UnlockFails(r) PROVE SingleFlight'
  BY <1>17 DEF UnlockFails, RefreshFails, Leave, Goto, TypeOK
<1>18. ASSUME NEW r \in Requests, Store(r) PROVE SingleFlight'
  BY <1>18 DEF Store, Leave, Goto, history, TypeOK
<1>19. ASSUME NEW r \in Requests, ServeStale(r) PROVE SingleFlight'
  BY <1>19 DEF ServeStale, StaleUsable, Leave, Goto, history, TypeOK
<1>20. ASSUME NEW r \in Requests, StaleRefused(r) PROVE SingleFlight'
  BY <1>20 DEF StaleRefused, Leave, Goto, history, TypeOK
<1>21. ASSUME NEW r \in Requests, ReadDocument(r) PROVE SingleFlight'
  BY <1>21 DEF ReadDocument, Goto, client, TypeOK
<1>22. ASSUME NEW r \in Requests, Cancel(r) PROVE SingleFlight'
  BY <1>22 DEF Cancel, Leave, Goto, Suspended, TypeOK
<1>23. QED
  BY <1>1, <1>2, <1>3, <1>4, <1>5, <1>6, <1>7, <1>8, <1>9, <1>10, <1>11, <1>12,
     <1>13, <1>14, <1>15, <1>16, <1>17, <1>18, <1>19, <1>20, <1>21,
     <1>22 DEF Next, Advance, Quiescent

(* Initially the permit is free.                                           *)
LEMMA PermitInit == Init => PermitInv /\ OneUnlockTask
  BY DEF Init, PermitInv, OneUnlockTask

(* Every step keeps the permit with the one blocking task.                 *)
LEMMA PermitStep ==
  TypeOK /\ PermitInv /\ OneUnlockTask /\ [Next]_vars => (PermitInv /\ OneUnlockTask)'
<1> SUFFICES ASSUME TypeOK, PermitInv, OneUnlockTask, [Next]_vars
             PROVE  (PermitInv /\ OneUnlockTask)'
  OBVIOUS
<1> USE DEF PermitInv, OneUnlockTask
<1>1. CASE UNCHANGED vars
  BY <1>1 DEF vars, TypeOK
<1>2. CASE Tick
  BY <1>2 DEF Tick, client, history, TypeOK
<1>3. ASSUME NEW r \in Requests, Arrive(r) PROVE (PermitInv /\ OneUnlockTask)'
  BY <1>3 DEF Arrive, Goto, client, TypeOK
<1>4. ASSUME NEW r \in Requests, ReuseFresh(r) PROVE (PermitInv /\ OneUnlockTask)'
  BY <1>4 DEF ReuseFresh, Leave, Goto, history, TypeOK
<1>5. ASSUME NEW r \in Requests, ReuseDeferred(r) PROVE (PermitInv /\ OneUnlockTask)'
  BY <1>5 DEF ReuseDeferred, Leave, Goto, history, TypeOK
<1>6. ASSUME NEW r \in Requests, MissCheck(r) PROVE (PermitInv /\ OneUnlockTask)'
  BY <1>6 DEF MissCheck, Goto, client, history, TypeOK
<1>7. ASSUME NEW r \in Requests, AcquireLock(r) PROVE (PermitInv /\ OneUnlockTask)'
  BY <1>7 DEF AcquireLock, Goto, history, TypeOK
<1>8. ASSUME NEW r \in Requests, Throttle(r) PROVE (PermitInv /\ OneUnlockTask)'
  BY <1>8 DEF Throttle, Leave, Goto, history, TypeOK
<1>9. ASSUME NEW r \in Requests, StartLogin(r) PROVE (PermitInv /\ OneUnlockTask)'
  BY <1>9 DEF StartLogin, Goto, client, TypeOK
<1>10. ASSUME NEW r \in Requests, TokenReply(r) PROVE (PermitInv /\ OneUnlockTask)'
  BY <1>10 DEF TokenReply, Goto, client, history, TypeOK
<1>11. ASSUME NEW r \in Requests, AcquirePermit(r) PROVE (PermitInv /\ OneUnlockTask)'
  BY <1>11 DEF AcquirePermit, Goto, history, TypeOK
<1>12. ASSUME NEW r \in Requests, UnlockDone(r) PROVE (PermitInv /\ OneUnlockTask)'
  BY <1>12 DEF UnlockDone, Goto, history, TypeOK
<1>13. ASSUME NEW r \in Requests, OrphanDone(r) PROVE (PermitInv /\ OneUnlockTask)'
  BY <1>13 DEF OrphanDone, Goto, history, TypeOK
<1>14. ASSUME NEW r \in Requests, ServerSync(r) PROVE (PermitInv /\ OneUnlockTask)'
  BY <1>14 DEF ServerSync, client, history, TypeOK
<1>15. ASSUME NEW r \in Requests, SyncReply(r) PROVE (PermitInv /\ OneUnlockTask)'
  BY <1>15 DEF SyncReply, Goto, TypeOK
<1>16. ASSUME NEW r \in Requests, CallFails(r) PROVE (PermitInv /\ OneUnlockTask)'
  BY <1>16 DEF CallFails, RefreshFails, Leave, Goto, TypeOK
<1>17. ASSUME NEW r \in Requests, UnlockFails(r) PROVE (PermitInv /\ OneUnlockTask)'
  BY <1>17 DEF UnlockFails, RefreshFails, Leave, Goto, TypeOK
<1>18. ASSUME NEW r \in Requests, Store(r) PROVE (PermitInv /\ OneUnlockTask)'
  BY <1>18 DEF Store, Leave, Goto, history, TypeOK
<1>19. ASSUME NEW r \in Requests, ServeStale(r) PROVE (PermitInv /\ OneUnlockTask)'
  BY <1>19 DEF ServeStale, StaleUsable, Leave, Goto, history, TypeOK
<1>20. ASSUME NEW r \in Requests, StaleRefused(r) PROVE (PermitInv /\ OneUnlockTask)'
  BY <1>20 DEF StaleRefused, Leave, Goto, history, TypeOK
<1>21. ASSUME NEW r \in Requests, ReadDocument(r) PROVE (PermitInv /\ OneUnlockTask)'
  BY <1>21 DEF ReadDocument, Goto, client, TypeOK
<1>22. ASSUME NEW r \in Requests, Cancel(r) PROVE (PermitInv /\ OneUnlockTask)'
  BY <1>22 DEF Cancel, Leave, Goto, Suspended, TypeOK
<1>23. QED
  BY <1>1, <1>2, <1>3, <1>4, <1>5, <1>6, <1>7, <1>8, <1>9, <1>10, <1>11, <1>12,
     <1>13, <1>14, <1>15, <1>16, <1>17, <1>18, <1>19, <1>20, <1>21,
     <1>22 DEF Next, Advance, Quiescent

-----------------------------------------------------------------------------
(* The two writes of the cache install an entry, never None; this is the   *)
(* installation of a fetched vault.                                        *)
LEMMA StoreWrites ==
  ASSUME TypeInv, NEW r \in Requests, Store(r)
  PROVE  /\ cache' \in Vaults /\ cache'.retryAfter = None
         /\ cache'.syncedAt = fetch[r].syncedAt /\ cache'.fetchedAt = fetch[r].instant
  BY ConfigAssumption DEF Store, NewVault, CheckedAdd, Vaults, Fetches, StoreReady,
     TypeInv, TypeOK

(* ... and this the deferral, which only moves the retry deadline.         *)
LEMMA ServeStaleWrites ==
  ASSUME TypeInv, NEW r \in Requests, ServeStale(r)
  PROVE  /\ cache \in Vaults /\ cache' \in Vaults
         /\ cache'.syncedAt = cache.syncedAt /\ cache'.fetchedAt = cache.fetchedAt
  BY ConfigAssumption DEF ServeStale, StaleUsable, CheckedAdd, Vaults, Fetches,
     TypeInv, TypeOK

(* Initially nobody reads.                                                 *)
LEMMA FilledInit == Init => FilledInv
  BY DEF Init, FilledInv

(* Every step keeps the cache filled for its readers.                      *)
LEMMA FilledStep == TypeInv /\ FilledInv /\ [Next]_vars => FilledInv'
<1> SUFFICES ASSUME TypeInv, FilledInv, [Next]_vars PROVE FilledInv'
  OBVIOUS
<1> USE VaultAssumption DEF FilledInv
<1>1. CASE UNCHANGED vars
  BY <1>1 DEF vars, TypeInv, TypeOK
<1>2. CASE Tick
  BY <1>2 DEF Tick, client, history, TypeInv, TypeOK
<1>3. ASSUME NEW r \in Requests, Arrive(r) PROVE FilledInv'
  BY <1>3 DEF Arrive, Goto, client, TypeInv, TypeOK
<1>4. ASSUME NEW r \in Requests, ReuseFresh(r) PROVE FilledInv'
  BY <1>4 DEF ReuseFresh, Leave, Goto, history, TypeInv, TypeOK
<1>5. ASSUME NEW r \in Requests, ReuseDeferred(r) PROVE FilledInv'
  BY <1>5 DEF ReuseDeferred, Leave, Goto, history, TypeInv, TypeOK
<1>6. ASSUME NEW r \in Requests, MissCheck(r) PROVE FilledInv'
  BY <1>6 DEF MissCheck, Goto, client, history, TypeInv, TypeOK
<1>7. ASSUME NEW r \in Requests, AcquireLock(r) PROVE FilledInv'
  BY <1>7 DEF AcquireLock, Goto, history, TypeInv, TypeOK
<1>8. ASSUME NEW r \in Requests, Throttle(r) PROVE FilledInv'
  BY <1>8 DEF Throttle, Leave, Goto, history, TypeInv, TypeOK
<1>9. ASSUME NEW r \in Requests, StartLogin(r) PROVE FilledInv'
  BY <1>9 DEF StartLogin, Goto, client, TypeInv, TypeOK
<1>10. ASSUME NEW r \in Requests, TokenReply(r) PROVE FilledInv'
  BY <1>10 DEF TokenReply, Goto, client, history, TypeInv, TypeOK
<1>11. ASSUME NEW r \in Requests, AcquirePermit(r) PROVE FilledInv'
  BY <1>11 DEF AcquirePermit, Goto, history, TypeInv, TypeOK
<1>12. ASSUME NEW r \in Requests, UnlockDone(r) PROVE FilledInv'
  BY <1>12 DEF UnlockDone, Goto, history, TypeInv, TypeOK
<1>13. ASSUME NEW r \in Requests, OrphanDone(r) PROVE FilledInv'
  BY <1>13 DEF OrphanDone, Goto, history, TypeInv, TypeOK
<1>14. ASSUME NEW r \in Requests, ServerSync(r) PROVE FilledInv'
  BY <1>14 DEF ServerSync, client, history, TypeInv, TypeOK
<1>15. ASSUME NEW r \in Requests, SyncReply(r) PROVE FilledInv'
  BY <1>15 DEF SyncReply, Goto, TypeInv, TypeOK
<1>16. ASSUME NEW r \in Requests, CallFails(r) PROVE FilledInv'
  BY <1>16 DEF CallFails, RefreshFails, Leave, Goto, TypeInv, TypeOK
<1>17. ASSUME NEW r \in Requests, UnlockFails(r) PROVE FilledInv'
  BY <1>17 DEF UnlockFails, RefreshFails, Leave, Goto, TypeInv, TypeOK
<1>18. ASSUME NEW r \in Requests, Store(r) PROVE FilledInv'
  BY <1>18, StoreWrites DEF Store, Leave, Goto, TypeInv, TypeOK
<1>19. ASSUME NEW r \in Requests, ServeStale(r) PROVE FilledInv'
  BY <1>19, ServeStaleWrites DEF ServeStale, Leave, Goto, TypeInv, TypeOK
<1>20. ASSUME NEW r \in Requests, StaleRefused(r) PROVE FilledInv'
  BY <1>20 DEF StaleRefused, Leave, Goto, history, TypeInv, TypeOK
<1>21. ASSUME NEW r \in Requests, ReadDocument(r) PROVE FilledInv'
  BY <1>21 DEF ReadDocument, Goto, client, TypeInv, TypeOK
<1>22. ASSUME NEW r \in Requests, Cancel(r) PROVE FilledInv'
  BY <1>22 DEF Cancel, Leave, Goto, TypeInv, TypeOK
<1>23. QED
  BY <1>1, <1>2, <1>3, <1>4, <1>5, <1>6, <1>7, <1>8, <1>9, <1>10, <1>11, <1>12,
     <1>13, <1>14, <1>15, <1>16, <1>17, <1>18, <1>19, <1>20, <1>21,
     <1>22 DEF Next, Advance, Quiescent

(* permits_stale_cache accepts exactly the failures ADR 0005 lists.        *)
LEMMA TransientErrors == \A e \in Errors : PermitsStaleCache(e) <=> Transient(e)
  BY DEF Errors, PermitsStaleCache, Transient

(* Initially there is no attempt.                                          *)
LEMMA AttemptInit == Init => AttemptInv
  BY DEF Init, AttemptInv, Fetching, NoAttempt

(* Every step keeps the meaning of the attempt record: the entry can be    *)
(* served in deferral only until the next login.                           *)
LEMMA AttemptStep == TypeInv /\ SingleFlight /\ AttemptInv /\ [Next]_vars => AttemptInv'
<1> SUFFICES ASSUME TypeInv, SingleFlight, AttemptInv, [Next]_vars PROVE AttemptInv'
  OBVIOUS
<1> USE NoneAssumption, VaultAssumption DEF AttemptInv, Fetching, TransientFailure
<1>1. CASE UNCHANGED vars
  BY <1>1 DEF vars, TypeInv, TypeOK, SingleFlight, Refreshing
<1>2. CASE Tick
  <2>1. cache # None /\ CanDefer(cache, now') => CanDefer(cache, now)
    BY <1>2, ConfigAssumption DEF Tick, CanDefer, IsWithinStale, Vaults,
       TypeInv, TypeOK
  <2>2. QED
    BY <1>2, <2>1 DEF Tick, client, history, TypeInv, TypeOK
<1>3. ASSUME NEW r \in Requests, Arrive(r) PROVE AttemptInv'
  BY <1>3 DEF Arrive, Goto, client, TypeInv, TypeOK, SingleFlight, Refreshing
<1>4. ASSUME NEW r \in Requests, ReuseFresh(r) PROVE AttemptInv'
  BY <1>4 DEF ReuseFresh, Leave, Goto, history, TypeInv, TypeOK, SingleFlight,
     Refreshing
<1>5. ASSUME NEW r \in Requests, ReuseDeferred(r) PROVE AttemptInv'
  BY <1>5 DEF ReuseDeferred, Leave, Goto, history, TypeInv, TypeOK,
     SingleFlight, Refreshing
<1>6. ASSUME NEW r \in Requests, MissCheck(r) PROVE AttemptInv'
  BY <1>6 DEF MissCheck, Goto, client, history, TypeInv, TypeOK, SingleFlight,
     Refreshing
<1>7. ASSUME NEW r \in Requests, AcquireLock(r) PROVE AttemptInv'
  BY <1>7 DEF AcquireLock, Goto, history, TypeInv, TypeOK, SingleFlight, Refreshing
<1>8. ASSUME NEW r \in Requests, Throttle(r) PROVE AttemptInv'
  BY <1>8 DEF Throttle, Leave, Goto, history, TypeInv, TypeOK, SingleFlight,
     Refreshing
<1>9. ASSUME NEW r \in Requests, StartLogin(r) PROVE AttemptInv'
  BY <1>9 DEF StartLogin, Goto, client, CannotReuse, TypeInv, TypeOK,
     SingleFlight, Refreshing
<1>10. ASSUME NEW r \in Requests, TokenReply(r) PROVE AttemptInv'
  BY <1>10 DEF TokenReply, Goto, client, history, TypeInv, TypeOK, SingleFlight,
     Refreshing
<1>11. ASSUME NEW r \in Requests, AcquirePermit(r) PROVE AttemptInv'
  BY <1>11 DEF AcquirePermit, Goto, history, TypeInv, TypeOK, SingleFlight,
     Refreshing
<1>12. ASSUME NEW r \in Requests, UnlockDone(r) PROVE AttemptInv'
  BY <1>12 DEF UnlockDone, Goto, history, TypeInv, TypeOK, SingleFlight, Refreshing
<1>13. ASSUME NEW r \in Requests, OrphanDone(r) PROVE AttemptInv'
  BY <1>13 DEF OrphanDone, Goto, history, TypeInv, TypeOK, SingleFlight, Refreshing
<1>14. ASSUME NEW r \in Requests, ServerSync(r) PROVE AttemptInv'
  BY <1>14 DEF ServerSync, client, history, TypeInv, TypeOK, SingleFlight,
     Refreshing
<1>15. ASSUME NEW r \in Requests, SyncReply(r) PROVE AttemptInv'
  BY <1>15 DEF SyncReply, Goto, NoAttempt, TypeInv, TypeOK, SingleFlight, Refreshing
<1>16. ASSUME NEW r \in Requests, CallFails(r) PROVE AttemptInv'
  <2>1. PICK e \in HttpErrors : RefreshFails(r, e)
    BY <1>16 DEF CallFails
  <2>2. ~(cache # None /\ CanDefer(cache, now))
    BY <1>16 DEF CallFails
  <2>3. attempt' = Ended("failed", e) /\ (PermitsStaleCache(e) => Transient(e))
    BY <2>1, TransientErrors, ServerAssumption DEF RefreshFails
  <2>4. QED
    BY <1>16, <2>1, <2>2, <2>3, ConfigAssumption DEF CallFails, RefreshFails, Ended,
       CheckedAdd, Leave, Goto, SingleFlight, Refreshing, TypeInv, TypeOK
<1>17. ASSUME NEW r \in Requests, UnlockFails(r) PROVE AttemptInv'
  <2>1. PICK e \in UnlockErrors : RefreshFails(r, e)
    BY <1>17 DEF UnlockFails
  <2>2. ~(cache # None /\ CanDefer(cache, now))
    BY <1>17 DEF UnlockFails
  <2>3. attempt' = Ended("failed", e) /\ (PermitsStaleCache(e) => Transient(e))
    BY <2>1, TransientErrors, ServerAssumption DEF RefreshFails
  <2>4. QED
    BY <1>17, <2>1, <2>2, <2>3, ConfigAssumption DEF UnlockFails, RefreshFails,
       Ended,
       CheckedAdd, Leave, Goto, SingleFlight, Refreshing, TypeInv, TypeOK
<1>18. ASSUME NEW r \in Requests, Store(r) PROVE AttemptInv'
  BY <1>18, StoreWrites DEF Store, Leave, Goto, history, CanDefer, TypeInv, TypeOK
<1>19. ASSUME NEW r \in Requests, ServeStale(r) PROVE AttemptInv'
  BY <1>19 DEF ServeStale, Leave, Goto, history, TypeInv, TypeOK
<1>20. ASSUME NEW r \in Requests, StaleRefused(r) PROVE AttemptInv'
  BY <1>20 DEF StaleRefused, Leave, Goto, history, TypeInv, TypeOK,
     SingleFlight, Refreshing
<1>21. ASSUME NEW r \in Requests, ReadDocument(r) PROVE AttemptInv'
  BY <1>21 DEF ReadDocument, Goto, client, TypeInv, TypeOK, SingleFlight, Refreshing
<1>22. ASSUME NEW r \in Requests, Cancel(r) PROVE AttemptInv'
  BY <1>22 DEF Cancel, Leave, Goto, Suspended, Ended, TypeInv, TypeOK,
     SingleFlight, Refreshing
<1>23. QED
  BY <1>1, <1>2, <1>3, <1>4, <1>5, <1>6, <1>7, <1>8, <1>9, <1>10, <1>11, <1>12,
     <1>13, <1>14, <1>15, <1>16, <1>17, <1>18, <1>19, <1>20, <1>21,
     <1>22 DEF Next, Advance, Quiescent

(* The ages hold initially.                                                *)
LEMMA AgeInit == Init => AgeInv
  BY ConfigAssumption, NoneAssumption DEF Init, AgeInv, EntryInv, FetchInv,
     FetchOK, AnswerInv, Fetching, NoFetch, FetchAt

(* Every step keeps the instants in order.                                 *)
LEMMA AgeStep == TypeInv /\ SingleFlight /\ FilledInv /\ AgeInv /\ [Next]_vars => AgeInv'
<1> SUFFICES ASSUME TypeInv, SingleFlight, FilledInv, AgeInv, [Next]_vars PROVE AgeInv'
  OBVIOUS
<1> USE ConfigAssumption, NoneAssumption, VaultAssumption DEF AgeInv
<1>1. CASE UNCHANGED vars
  BY <1>1 DEF vars, EntryInv, FetchInv, FetchOK, AnswerInv, Recent, Fetching,
     SingleFlight, Refreshing, FilledInv, NoFetch, FetchAt, TypeInv, TypeOK,
     Vaults, Fetches
<1>2. CASE Tick
  BY <1>2 DEF Tick, client, history, EntryInv, FetchInv, FetchOK, AnswerInv,
     Recent, Fetching, SingleFlight, Refreshing, FilledInv, NoFetch, FetchAt,
     TypeInv, TypeOK, Vaults, Fetches
<1>3. ASSUME NEW r \in Requests, Arrive(r) PROVE AgeInv'
  BY <1>3 DEF Arrive, Goto, client, EntryInv, FetchInv, FetchOK, AnswerInv,
     Recent, Fetching, SingleFlight, Refreshing, FilledInv, NoFetch, FetchAt,
     TypeInv, TypeOK, Vaults, Fetches
<1>4. ASSUME NEW r \in Requests, ReuseFresh(r) PROVE AgeInv'
  BY <1>4 DEF ReuseFresh, Leave, Goto, history, IsFresh, EntryInv, FetchInv,
     FetchOK, AnswerInv, Recent, Fetching, SingleFlight, Refreshing, FilledInv,
     NoFetch, FetchAt, TypeInv, TypeOK, Vaults, Fetches
<1>5. ASSUME NEW r \in Requests, ReuseDeferred(r) PROVE AgeInv'
  BY <1>5 DEF ReuseDeferred, Leave, Goto, history, CanDefer, IsWithinStale,
     EntryInv, FetchInv, FetchOK, AnswerInv, Recent, Fetching, SingleFlight,
     Refreshing, FilledInv, NoFetch, FetchAt, TypeInv, TypeOK, Vaults, Fetches
<1>6. ASSUME NEW r \in Requests, MissCheck(r) PROVE AgeInv'
  BY <1>6 DEF MissCheck, Goto, client, history, EntryInv, FetchInv, FetchOK,
     AnswerInv, Recent, Fetching, SingleFlight, Refreshing, FilledInv, NoFetch,
     FetchAt, TypeInv, TypeOK, Vaults, Fetches
<1>7. ASSUME NEW r \in Requests, AcquireLock(r) PROVE AgeInv'
  BY <1>7 DEF AcquireLock, Goto, history, EntryInv, FetchInv, FetchOK,
     AnswerInv, Recent, Fetching, SingleFlight, Refreshing, FilledInv, NoFetch,
     FetchAt, TypeInv, TypeOK, Vaults, Fetches
<1>8. ASSUME NEW r \in Requests, Throttle(r) PROVE AgeInv'
  BY <1>8 DEF Throttle, Leave, Goto, history, EntryInv, FetchInv, FetchOK,
     AnswerInv, Recent, Fetching, SingleFlight, Refreshing, FilledInv, NoFetch,
     FetchAt, TypeInv, TypeOK, Vaults, Fetches
<1>9. ASSUME NEW r \in Requests, StartLogin(r) PROVE AgeInv'
  BY <1>9 DEF StartLogin, Goto, client, EntryInv, FetchInv, FetchOK, AnswerInv,
     Recent, Fetching, SingleFlight, Refreshing, FilledInv, NoFetch, FetchAt,
     TypeInv, TypeOK, Vaults, Fetches
<1>10. ASSUME NEW r \in Requests, TokenReply(r) PROVE AgeInv'
  BY <1>10 DEF TokenReply, Goto, client, history, EntryInv, FetchInv, FetchOK,
     AnswerInv, Recent, Fetching, SingleFlight, Refreshing, FilledInv, NoFetch,
     FetchAt, TypeInv, TypeOK, Vaults, Fetches
<1>11. ASSUME NEW r \in Requests, AcquirePermit(r) PROVE AgeInv'
  BY <1>11 DEF AcquirePermit, Goto, history, EntryInv, FetchInv, FetchOK,
     AnswerInv, Recent, Fetching, SingleFlight, Refreshing, FilledInv, NoFetch,
     FetchAt, TypeInv, TypeOK, Vaults, Fetches
<1>12. ASSUME NEW r \in Requests, UnlockDone(r) PROVE AgeInv'
  BY <1>12 DEF UnlockDone, Goto, history, EntryInv, FetchInv, FetchOK,
     AnswerInv, Recent, Fetching, SingleFlight, Refreshing, FilledInv, NoFetch,
     FetchAt, TypeInv, TypeOK, Vaults, Fetches
<1>13. ASSUME NEW r \in Requests, OrphanDone(r) PROVE AgeInv'
  BY <1>13 DEF OrphanDone, Goto, history, EntryInv, FetchInv, FetchOK,
     AnswerInv, Recent, Fetching, SingleFlight, Refreshing, FilledInv, NoFetch,
     FetchAt, TypeInv, TypeOK, Vaults, Fetches
<1>14. ASSUME NEW r \in Requests, ServerSync(r) PROVE AgeInv'
  BY <1>14 DEF ServerSync, client, history, EntryInv, FetchInv, FetchOK,
     AnswerInv, Recent, Fetching, SingleFlight, Refreshing, FilledInv, NoFetch,
     FetchAt, TypeInv, TypeOK, Vaults, Fetches
<1>15. ASSUME NEW r \in Requests, SyncReply(r) PROVE AgeInv'
  BY <1>15 DEF SyncReply, Goto, EntryInv, FetchInv, FetchOK, AnswerInv, Recent,
     Fetching, SingleFlight, Refreshing, FilledInv, NoFetch, FetchAt, TypeInv,
     TypeOK, Vaults, Fetches
<1>16. ASSUME NEW r \in Requests, CallFails(r) PROVE AgeInv'
  BY <1>16 DEF CallFails, RefreshFails, Leave, Goto, EntryInv, FetchInv,
     FetchOK, AnswerInv, Recent, Fetching, SingleFlight, Refreshing, FilledInv,
     NoFetch, FetchAt, TypeInv, TypeOK, Vaults, Fetches
<1>17. ASSUME NEW r \in Requests, UnlockFails(r) PROVE AgeInv'
  BY <1>17 DEF UnlockFails, RefreshFails, Leave, Goto, EntryInv, FetchInv,
     FetchOK, AnswerInv, Recent, Fetching, SingleFlight, Refreshing, FilledInv,
     NoFetch, FetchAt, TypeInv, TypeOK, Vaults, Fetches
<1>18. ASSUME NEW r \in Requests, Store(r) PROVE AgeInv'
  <2>1. /\ pc[r] = "store" /\ holder = r /\ FetchOK(r)
        /\ fetch[r] \in Fetches /\ fetch[r].syncedAt # None
    BY <1>18 DEF Store, FetchInv, SingleFlight, Refreshing, TypeInv, TypeOK,
       StoreReady
  <2>2. /\ cache' \in Vaults
        /\ cache'.syncedAt = fetch[r].syncedAt /\ cache'.fetchedAt = fetch[r].instant
    BY <1>18, StoreWrites
  <2>3. EntryInv'
    BY <1>18, <2>1, <2>2 DEF Store, EntryInv, FetchOK
  <2>4. FetchInv'
    BY <1>18, <2>1 DEF Store, Leave, Goto, history, FetchInv, FetchOK, Fetching,
       SingleFlight, Refreshing, NoFetch, FetchAt, TypeInv, TypeOK, Fetches
  <2>5. cache # None => cache.syncedAt <= cache'.syncedAt
    BY <2>1, <2>2 DEF FetchOK
  <2>6. AnswerInv'
    <3>1. Recent(arrivedAt[r], cache'.syncedAt)
      BY <2>1, <2>2 DEF FetchOK, Recent
    <3>2. ASSUME NEW s \in Requests, s # r, pc[s] = "read"
          PROVE  Recent(arrivedAt[s], cache'.syncedAt)
      <4>1. Recent(arrivedAt[s], cache.syncedAt) /\ cache # None
        BY <3>2 DEF AnswerInv, FilledInv
      <4>2. cache \in Vaults /\ arrivedAt[s] \in Nat
        BY <4>1 DEF TypeInv, TypeOK
      <4>3. QED
        BY <4>1, <4>2, <2>2, <2>5 DEF Recent, Vaults
    <3>3. QED
      BY <1>18, <2>1, <3>1, <3>2 DEF Store, Leave, Goto, history, AnswerInv,
         TypeInv, TypeOK
  <2>7. QED
    BY <2>3, <2>4, <2>6
<1>19. ASSUME NEW r \in Requests, ServeStale(r) PROVE AgeInv'
  <2>1. /\ pc[r] = "stale" /\ holder = r /\ FetchOK(r) /\ fetch[r] \in Fetches
    BY <1>19 DEF ServeStale, FetchInv, SingleFlight, Refreshing, TypeInv, TypeOK
  <2>2. /\ cache \in Vaults /\ cache' \in Vaults
        /\ cache'.syncedAt = cache.syncedAt /\ cache'.fetchedAt = cache.fetchedAt
    BY <1>19, ServeStaleWrites
  <2>3. EntryInv'
    BY <1>19, <2>2 DEF ServeStale, EntryInv
  <2>4. FetchInv'
    BY <1>19, <2>1, <2>2 DEF ServeStale, Leave, Goto, history, FetchInv,
       FetchOK, Fetching, SingleFlight, Refreshing, NoFetch, FetchAt, TypeInv,
       TypeOK, Fetches
  <2>5. Recent(arrivedAt[r], cache.syncedAt)
    <3>1. StaleIfError # 0 /\ fetch[r].instant < cache.fetchedAt + Ttl + StaleIfError
      BY <1>19 DEF ServeStale, StaleUsable, IsWithinStale
    <3>2. cache.fetchedAt <= cache.syncedAt + HttpTimeout
      BY <2>2 DEF EntryInv
    <3>3. arrivedAt[r] <= fetch[r].instant
      BY <2>1 DEF FetchOK
    <3>4. /\ arrivedAt[r] \in Nat /\ fetch[r].instant \in Nat
          /\ cache.fetchedAt \in Nat /\ cache.syncedAt \in Nat
      BY <2>1, <2>2 DEF Fetches, Vaults, TypeInv, TypeOK
    <3>5. QED
      BY <3>1, <3>2, <3>3, <3>4 DEF Recent
  <2>6. AnswerInv'
    BY <1>19, <2>2, <2>5 DEF ServeStale, Leave, Goto, history, AnswerInv,
       Recent, TypeInv, TypeOK
  <2>7. QED
    BY <2>3, <2>4, <2>6
<1>20. ASSUME NEW r \in Requests, StaleRefused(r) PROVE AgeInv'
  BY <1>20 DEF StaleRefused, Leave, Goto, history, EntryInv, FetchInv, FetchOK,
     AnswerInv, Recent, Fetching, SingleFlight, Refreshing, FilledInv, NoFetch,
     FetchAt, TypeInv, TypeOK, Vaults, Fetches
<1>21. ASSUME NEW r \in Requests, ReadDocument(r) PROVE AgeInv'
  BY <1>21 DEF ReadDocument, Goto, client, EntryInv, FetchInv, FetchOK,
     AnswerInv, Recent, Fetching, SingleFlight, Refreshing, FilledInv, NoFetch,
     FetchAt, TypeInv, TypeOK, Vaults, Fetches
<1>22. ASSUME NEW r \in Requests, Cancel(r) PROVE AgeInv'
  BY <1>22 DEF Cancel, Leave, Goto, Suspended, EntryInv, FetchInv, FetchOK,
     AnswerInv, Recent, Fetching, SingleFlight, Refreshing, FilledInv, NoFetch,
     FetchAt, TypeInv, TypeOK, Vaults, Fetches
<1>23. QED
  BY <1>1, <1>2, <1>3, <1>4, <1>5, <1>6, <1>7, <1>8, <1>9, <1>10, <1>11, <1>12,
     <1>13, <1>14, <1>15, <1>16, <1>17, <1>18, <1>19, <1>20, <1>21,
     <1>22 DEF Next, Advance, Quiescent

-----------------------------------------------------------------------------
(* The inductive invariant holds in every reachable state. *)
LEMMA Inductive == Spec => []IInv
<1>1. Init => IInv
  BY TypeInit, LockInit, PermitInit, FilledInit, AttemptInit, AgeInit DEF IInv
<1>2. IInv /\ [Next]_vars => IInv'
  BY TypeStep, LockStep, PermitStep, FilledStep, AttemptStep, AgeStep DEF IInv,
     TypeInv
<1>3. QED
  BY <1>1, <1>2, PTL DEF Spec

(* At most one request is past the refresh lock at any time, and the lock  *)
(* is never held by a request that is not refreshing: no cancellation or   *)
(* failure of ensure_fresh_cached_sync leaks it.                           *)
THEOREM SingleFlightHolds == Spec => []SingleFlight
<1>1. IInv => SingleFlight
  BY DEF IInv
<1>2. QED
  BY Inductive, <1>1, PTL

(* At most one blocking key derivation of login_with_api_key runs at a     *)
(* time, the ones whose requests are gone included.                        *)
THEOREM OneUnlockTaskHolds == Spec => []OneUnlockTask
<1>1. IInv => OneUnlockTask
  BY DEF IInv
<1>2. QED
  BY Inductive, <1>1, PTL

(* MissingCachedSync is unreachable: after ensure_fresh_cached_sync the    *)
(* cache is filled.                                                        *)
THEOREM NeverMissingSyncHolds == Spec => []NeverMissingSync
<1>1. IInv => NeverMissingSync
  BY DEF IInv, FilledInv, NeverMissingSync
<1>2. QED
  BY Inductive, <1>1, PTL

(* A request is answered from a snapshot younger, at its arrival, than one *)
(* HTTP call, the TTL and the stale window together, and with the cache    *)
(* disabled from one taken after its arrival.                              *)
THEOREM StalenessBoundHolds == Spec => []StalenessBound
<1>1. IInv => StalenessBound
  BY DEF IInv, AgeInv, AnswerInv, Recent, StalenessBound
<1>2. QED
  BY Inductive, <1>1, PTL

(* Only the installation and the deferral write the cache. *)
LEMMA CacheWriters ==
  ASSUME [Next]_vars
  PROVE  cache' = cache \/ \E r \in Requests : Store(r) \/ ServeStale(r)
<1>1. CASE UNCHANGED vars
  BY <1>1 DEF vars
<1>2. CASE Tick
  BY <1>2 DEF Tick, client
<1>3. ASSUME NEW r \in Requests, Arrive(r) \/ Cancel(r) PROVE cache' = cache
  BY <1>3 DEF Arrive, Cancel, client
<1>4. ASSUME NEW r \in Requests, Advance(r) PROVE cache' = cache \/ Store(r) \/ ServeStale(r)
  BY <1>4 DEF Advance, ReuseFresh, ReuseDeferred, MissCheck, AcquireLock,
     Throttle, StartLogin, TokenReply, AcquirePermit, UnlockDone, OrphanDone,
     ServerSync, SyncReply, CallFails, UnlockFails, RefreshFails, StaleRefused,
     ReadDocument, client
<1>5. QED
  BY <1>1, <1>2, <1>3, <1>4 DEF Next, Quiescent

(* The snapshot in the cache never gets older: the request that installs   *)
(* one holds the refresh lock since before it asked for it.                *)
THEOREM CacheNeverRegressesHolds == Spec => CacheNeverRegresses
<1>1. IInv /\ [Next]_vars =>
        [cache # None => cache' # None /\ cache'.syncedAt >= cache.syncedAt]_vars
  <2> SUFFICES ASSUME IInv, [Next]_vars, cache # None
               PROVE  cache' # None /\ cache'.syncedAt >= cache.syncedAt
    OBVIOUS
  <2>1. cache \in Vaults
    BY DEF IInv, TypeInv, TypeOK
  <2>2. CASE cache' = cache
    BY <2>1, <2>2 DEF Vaults
  <2>3. ASSUME NEW r \in Requests, Store(r) PROVE cache' # None /\ cache'.syncedAt >= cache.syncedAt
    <3>1. FetchOK(r) /\ fetch[r] \in Fetches /\ fetch[r].syncedAt # None
      BY <2>3 DEF IInv, AgeInv, FetchInv, TypeInv, TypeOK, StoreReady, Store
    <3>2. cache.syncedAt <= fetch[r].syncedAt
      BY <2>3, <3>1 DEF FetchOK, Store
    <3>3. QED
      BY <2>1, <2>3, <3>1, <3>2, StoreWrites, VaultAssumption DEF IInv, Vaults,
         Fetches
  <2>4. ASSUME NEW r \in Requests, ServeStale(r) PROVE cache' # None /\ cache'.syncedAt >= cache.syncedAt
    BY <2>1, <2>4, ServeStaleWrites, VaultAssumption DEF IInv, Vaults
  <2>5. QED
    BY <2>2, <2>3, <2>4, CacheWriters
<1>2. QED
  BY Inductive, <1>1, PTL DEF Spec, CacheNeverRegresses

(* Only the deferral of a refresh and the fallback count a stale serve. *)
LEMMA StaleCounters ==
  ASSUME TypeOK, [Next]_vars, metrics'.stale_serves # metrics.stale_serves
  PROVE  \E r \in Requests : ReuseDeferred(r) \/ ServeStale(r)
<1>1. ASSUME NEW r \in Requests, Advance(r) PROVE ReuseDeferred(r) \/ ServeStale(r)
  BY <1>1 DEF Advance, ReuseFresh, MissCheck, AcquireLock, Throttle, StartLogin,
     TokenReply, AcquirePermit, UnlockDone, OrphanDone, ServerSync, SyncReply,
     CallFails, UnlockFails, RefreshFails, Store, StaleRefused, ReadDocument,
     client, Metrics, TypeOK
<1>2. QED
  BY <1>1 DEF Next, Quiescent, vars, Tick, Arrive, Cancel, client

(* The stale entry is served only while the latest login attempt is one    *)
(* that failed for a transient reason.                                     *)
THEOREM StaleOnlyAfterTransientHolds == Spec => StaleOnlyAfterTransient
<1>1. IInv /\ [Next]_vars =>
        [metrics'.stale_serves # metrics.stale_serves =>
            attempt.result = "failed" /\ Transient(attempt.err)]_vars
  <2> SUFFICES ASSUME IInv, [Next]_vars, metrics'.stale_serves # metrics.stale_serves
               PROVE  TransientFailure
    BY DEF TransientFailure
  <2>1. PICK r \in Requests : ReuseDeferred(r) \/ ServeStale(r)
    BY StaleCounters DEF IInv, TypeInv
  <2>2. QED
    BY <2>1 DEF IInv, AttemptInv, ReuseDeferred, ServeStale
<1>2. QED
  BY Inductive, <1>1, PTL DEF Spec, StaleOnlyAfterTransient

(* Only StartLogin sends a token request. *)
LEMMA LoginStarters ==
  ASSUME TypeOK, [Next]_vars, LoginStarts
  PROVE  \E r \in Requests : StartLogin(r)
<1>1. PICK s \in Requests : pc[s] = "recheck" /\ pc'[s] = "token"
  BY DEF LoginStarts
<1>2. ASSUME NEW r \in Requests, Arrive(r) \/ Advance(r) \/ Cancel(r), ~StartLogin(r) PROVE FALSE
  BY <1>1, <1>2 DEF Arrive, Advance, Cancel, ReuseFresh, ReuseDeferred,
     MissCheck, AcquireLock, Throttle, TokenReply, AcquirePermit, UnlockDone,
     OrphanDone, ServerSync, SyncReply, CallFails, UnlockFails, RefreshFails,
     Store, ServeStale, StaleRefused, ReadDocument, Leave, Goto, TypeOK
<1>3. QED
  BY <1>1, <1>2 DEF Next, Quiescent, vars, Tick

(* After a failed refresh no login is sent before the retry interval is    *)
(* over, whoever asks, as long as the deadline is a representable Instant. *)
THEOREM CooldownRespectedHolds == Spec => CooldownRespected
<1>1. IInv /\ [Next]_vars =>
        [LoginStarts /\ attempt.result = "failed"
            /\ attempt.endedAt + RetryInterval <= InstantMax
            => now >= attempt.endedAt + RetryInterval]_vars
  <2> SUFFICES ASSUME IInv, [Next]_vars, LoginStarts, attempt.result = "failed",
                      attempt.endedAt + RetryInterval <= InstantMax
               PROVE  now >= attempt.endedAt + RetryInterval
    OBVIOUS
  <2>1. PICK r \in Requests : StartLogin(r)
    BY LoginStarters DEF IInv, TypeInv
  <2>2. retryAfter = attempt.endedAt + RetryInterval
    BY DEF IInv, AttemptInv
  <2>3. attempt.endedAt \in Nat /\ now \in Nat
    BY ConfigAssumption DEF IInv, TypeInv, TypeOK, Attempts
  <2>4. QED
    BY <2>1, <2>2, <2>3, ConfigAssumption, NoneAssumption DEF StartLogin, InCooldown
<1>2. QED
  BY Inductive, <1>1, PTL DEF Spec, CooldownRespected

=============================================================================
