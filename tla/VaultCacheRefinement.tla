------------------------- MODULE VaultCacheRefinement -------------------------
(***************************************************************************)
(* VaultCache implements VaultRegister: the register is the snapshot in    *)
(* the cache, and a request waits as long as its future is suspended.      *)
(***************************************************************************)
EXTENDS VaultCache

(* "missing" is no status of the register: a request that finds no vault   *)
(* after ensure_fresh_cached_sync would not be refused but lost.           *)
StatusOf(state) ==
    CASE state = "new" -> "idle"
      [] state \in Suspended -> "waiting"
      [] state = "served" -> "answered"
      [] state = "missing" -> "lost"
      [] state \in {"failed", "throttled", "cancelled", "orphan"} -> "refused"

Status == [r \in Requests |-> StatusOf(pc[r])]

Value == IF cache = None THEN None ELSE cache.syncedAt

MaxAge == IF Ttl + StaleIfError = 0 THEN 0 ELSE HttpTimeout + Ttl + StaleIfError

Register == INSTANCE VaultRegister WITH
    value <- Value, status <- Status, askedAt <- arrivedAt, answer <- served

(* The cache, its refresh under lock and its stale fallback are one        *)
(* register of the vault that only moves forward: every step of            *)
(* resolve_with_cached_sync and ensure_fresh_cached_sync, cancelled or     *)
(* not, is a step of the register or none.                                 *)
ImplementsRegister == Register!Spec

=============================================================================
