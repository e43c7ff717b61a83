------------------------ MODULE VaultRefinementProofs ------------------------
(***************************************************************************)
(* VaultCache implements VaultRegister, for every number of requests and   *)
(* every configuration.  A step of VaultCache that takes a request from    *)
(* one await to the next leaves the register alone; the others are one     *)
(* step of it, justified by the inductive invariant: what Store installs   *)
(* is no older than what is there, and what ReadDocument finds is there    *)
(* and recent enough.                                                      *)
(***************************************************************************)
EXTENDS VaultCacheProofs, VaultCacheRefinement

(* The status of each state. *)
LEMMA StatusTable ==
  /\ StatusOf("new") = "idle" /\ "new" \in States
  /\ \A s \in Suspended : StatusOf(s) = "waiting" /\ s \in States
  /\ StatusOf("served") = "answered" /\ "served" \in States
  /\ \A s \in {"failed", "throttled", "cancelled", "orphan"} :
        StatusOf(s) = "refused" /\ s \in States
  BY DEF StatusOf, Suspended, Refreshing, Finished, States

(* What the register sees of a request's move from one await to another. *)
LEMMA StatusMoves ==
  ASSUME TypeOK, NEW r \in Requests, NEW to \in States, Goto(r, to)
  PROVE  Status' = [Status EXCEPT ![r] = StatusOf(to)]
  BY DEF Goto, Status, TypeOK

(* A request that stays among the awaits goes unnoticed. *)
LEMMA StatusStays ==
  ASSUME TypeOK, NEW r \in Requests, NEW to \in Suspended, Goto(r, to),
         pc[r] \in Suspended
  PROVE  Status' = Status
<1>1. to \in States /\ StatusOf(to) = StatusOf(pc[r])
  BY StatusTable
<1>2. Status' = [Status EXCEPT ![r] = StatusOf(pc[r])]
  BY <1>1, StatusMoves
<1>3. QED
  BY <1>2 DEF Status

(* A suspended request whose future ends without an answer is refused. *)
LEMMA RefusedStep ==
  ASSUME TypeOK, NEW r \in Requests, pc[r] \in Suspended,
         NEW to \in {"failed", "throttled", "cancelled", "orphan"}, Goto(r, to),
         UNCHANGED <<now, cache, arrivedAt, served>>
  PROVE  Register!Refuse(r)
<1>1. to \in States /\ StatusOf(to) = "refused" /\ StatusOf(pc[r]) = "waiting"
  BY StatusTable
<1>2. Status[r] = "waiting" /\ Status' = [Status EXCEPT ![r] = "refused"]
  BY <1>1, StatusMoves DEF Status
<1>3. QED
  BY <1>2 DEF Register!Refuse, Value

(* The initial states are the register's. *)
LEMMA RegisterInit == Init => Register!Init
  BY StatusTable DEF Init, Register!Init, Value, Status

(* A failed call or unlock either considers the fallback or refuses. *)
LEMMA FailureStep ==
  ASSUME TypeOK, NEW r \in Requests, NEW e, RefreshFails(r, e), pc[r] \in Suspended
  PROVE  Register!Refuse(r) \/ UNCHANGED Register!vars
<1>1. CASE PermitsStaleCache(e)
  <2>1. Goto(r, "stale") /\ UNCHANGED <<now, cache, arrivedAt, served>>
    BY <1>1 DEF RefreshFails
  <2>2. Status' = Status
    BY <2>1, StatusStays DEF Suspended, Refreshing
  <2>3. QED
    BY <2>1, <2>2 DEF Register!vars, Value
<1>2. CASE ~PermitsStaleCache(e)
  <2>1. Goto(r, "failed") /\ UNCHANGED <<now, cache, arrivedAt, served>>
    BY <1>2 DEF RefreshFails, Leave
  <2>2. QED
    BY <2>1, RefusedStep
<1>3. QED
  BY <1>1, <1>2

(* The steps from one await to the next that do not touch the cache are no *)
(* steps of the register.                                                  *)
LEMMA SilentStep ==
  ASSUME TypeOK, NEW r \in Requests,
         \/ ReuseFresh(r) \/ ReuseDeferred(r) \/ MissCheck(r) \/ AcquireLock(r)
         \/ StartLogin(r) \/ TokenReply(r) \/ AcquirePermit(r) \/ UnlockDone(r)
         \/ SyncReply(r)
  PROVE  UNCHANGED Register!vars
<1>1. /\ pc[r] \in Suspended
      /\ \E to \in Suspended : Goto(r, to)
      /\ UNCHANGED <<now, cache, arrivedAt, served>>
  BY DEF ReuseFresh, ReuseDeferred, MissCheck, AcquireLock, StartLogin, TokenReply,
     AcquirePermit, UnlockDone, SyncReply, Leave, Suspended, Refreshing, client,
     history
<1>2. Status' = Status
  BY <1>1, StatusStays
<1>3. QED
  BY <1>1, <1>2 DEF Register!vars, Value

(* The installation of a vault moves the register forward. *)
LEMMA InstallStep ==
  ASSUME IInv, NEW r \in Requests, Store(r)
  PROVE  Register!Install
<1>1. TypeInv /\ TypeOK /\ pc[r] = "store"
  BY DEF IInv, TypeInv, Store
<1>2. /\ cache' \in Vaults /\ cache' # None
      /\ cache'.syncedAt = fetch[r].syncedAt
  BY <1>1, StoreWrites, VaultAssumption
<1>3. /\ FetchOK(r) /\ fetch[r] \in Fetches /\ fetch[r].syncedAt # None
      /\ now \in Nat
  BY <1>1 DEF IInv, AgeInv, FetchInv, TypeInv, TypeOK, StoreReady
<1>4. /\ fetch[r].syncedAt \in 0..now
      /\ cache # None => cache.syncedAt <= fetch[r].syncedAt
  BY <1>1, <1>3 DEF FetchOK, Fetches
<1>5. Goto(r, "read") /\ UNCHANGED <<now, arrivedAt, served>>
  BY DEF Store, Leave, history
<1>6. Status' = Status
  BY <1>1, <1>5, StatusStays DEF Suspended, Refreshing
<1>7. Value' \in 0..now /\ (Value # None => Value <= Value')
  BY <1>2, <1>4 DEF Value
<1>8. QED
  BY <1>5, <1>6, <1>7 DEF Register!Install

(* The deferral of a refresh keeps the snapshot. *)
LEMMA DeferStep ==
  ASSUME IInv, NEW r \in Requests, ServeStale(r)
  PROVE  UNCHANGED Register!vars
<1>1. TypeInv /\ TypeOK /\ pc[r] = "stale" /\ Goto(r, "read")
      /\ UNCHANGED <<now, arrivedAt, served>>
  BY DEF IInv, TypeInv, ServeStale, Leave, history
<1>2. Value' = Value
  BY <1>1, ServeStaleWrites, VaultAssumption DEF Value
<1>3. Status' = Status
  BY <1>1, StatusStays DEF Suspended, Refreshing
<1>4. QED
  BY <1>1, <1>2, <1>3 DEF Register!vars

(* A request that reads the cache is answered from the register. *)
LEMMA AnswerStep ==
  ASSUME IInv, NEW r \in Requests, ReadDocument(r)
  PROVE  Register!Answer(r)
<1>1. TypeOK /\ pc[r] = "read" /\ cache # None /\ cache \in Vaults
  BY DEF IInv, TypeInv, TypeOK, FilledInv, ReadDocument
<1>2. /\ Goto(r, "served")
      /\ served' = [served EXCEPT ![r] = Value]
      /\ UNCHANGED <<now, cache, arrivedAt>>
  BY <1>1 DEF ReadDocument, Value, client
<1>3. Value # None /\ Value \in Nat /\ arrivedAt[r] \in Nat
  BY <1>1, NoneAssumption DEF Value, Vaults, TypeOK
<1>4. Recent(arrivedAt[r], Value)
  BY <1>1 DEF IInv, AgeInv, AnswerInv, Value
<1>5. Register!RecentFor(r)
  BY <1>3, <1>4, ConfigAssumption DEF Recent, Register!RecentFor, MaxAge
<1>6. Status[r] = "waiting" /\ Status' = [Status EXCEPT ![r] = "answered"]
  BY <1>1, <1>2, StatusMoves, StatusTable DEF Status, Suspended
<1>7. QED
  BY <1>2, <1>3, <1>5, <1>6 DEF Register!Answer, Value

(* Every step of the cache is one of the register or leaves it alone. *)
LEMMA RegisterStep == IInv /\ [Next]_vars => [Register!Next]_(Register!vars)
<1> SUFFICES ASSUME IInv, [Next]_vars PROVE Register!Next \/ UNCHANGED Register!vars
  OBVIOUS
<1>t. TypeOK
  BY DEF IInv, TypeInv
<1>1. CASE UNCHANGED vars
  BY <1>1 DEF vars, Register!vars, Value, Status
<1>2. CASE Tick
  <2>1. Register!Tick
    BY <1>2 DEF Tick, Register!Tick, client, history, Value, Status
  <2>2. QED
    BY <2>1 DEF Register!Next
<1>3. ASSUME NEW r \in Requests, Arrive(r) PROVE Register!Next
  <2>1. Status[r] = "idle" /\ Status' = [Status EXCEPT ![r] = "waiting"]
    BY <1>t, <1>3, StatusMoves, StatusTable DEF Arrive, Status, Suspended
  <2>2. Register!Ask(r)
    BY <1>3, <2>1 DEF Arrive, Register!Ask, client, Value
  <2>3. QED
    BY <2>2 DEF Register!Next
<1>4. ASSUME NEW r \in Requests, Throttle(r) \/ StaleRefused(r) \/ Cancel(r)
      PROVE  Register!Next
  <2>1. /\ pc[r] \in Suspended
        /\ \E to \in {"failed", "throttled", "cancelled", "orphan"} : Goto(r, to)
        /\ UNCHANGED <<now, cache, arrivedAt, served>>
    BY <1>4 DEF Throttle, StaleRefused, Cancel, Leave, Suspended, Refreshing, history
  <2>2. Register!Refuse(r)
    BY <1>t, <2>1, RefusedStep
  <2>3. QED
    BY <2>2 DEF Register!Next
<1>5. ASSUME NEW r \in Requests, CallFails(r) \/ UnlockFails(r)
      PROVE  Register!Next \/ UNCHANGED Register!vars
  <2>1. pc[r] \in Suspended /\ \E e : RefreshFails(r, e)
    BY <1>5 DEF CallFails, UnlockFails, Suspended, Refreshing
  <2>2. QED
    BY <1>t, <2>1, FailureStep DEF Register!Next
<1>6. ASSUME NEW r \in Requests, OrphanDone(r) PROVE UNCHANGED Register!vars
  <2>1. Status' = Status
    <3>1. pc[r] = "orphan" /\ Goto(r, "cancelled")
      BY <1>6 DEF OrphanDone
    <3>2. Status' = [Status EXCEPT ![r] = "refused"] /\ Status[r] = "refused"
      BY <1>t, <3>1, StatusMoves, StatusTable DEF Status
    <3>3. QED
      BY <3>2 DEF Status
  <2>2. QED
    BY <1>6, <2>1 DEF OrphanDone, Register!vars, history, Value
<1>7. ASSUME NEW r \in Requests, ServerSync(r) PROVE UNCHANGED Register!vars
  BY <1>7 DEF ServerSync, Register!vars, client, history, Value, Status
<1>8. ASSUME NEW r \in Requests, Advance(r) PROVE Register!Next \/ UNCHANGED Register!vars
  BY <1>t, <1>4, <1>5, <1>6, <1>7, <1>8, SilentStep, InstallStep, DeferStep, AnswerStep
     DEF Advance, Register!Next
<1>9. QED
  BY <1>1, <1>2, <1>3, <1>4, <1>8 DEF Next, Quiescent

(* The vault cache of BitwardenApiClient implements the register: whatever *)
(* is cancelled, fails or interleaves, callers see one snapshot of the     *)
(* vault that only moves forward, and answers that are recent enough.      *)
THEOREM CacheImplementsRegister == Spec => ImplementsRegister
<1>1. QED
  BY Inductive, RegisterInit, RegisterStep, PTL DEF Spec, ImplementsRegister, Register!Spec

=============================================================================
