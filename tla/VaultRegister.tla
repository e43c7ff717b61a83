---------------------------- MODULE VaultRegister ----------------------------
(***************************************************************************)
(* What BitwardenProvider::resolve promises a caller about the vault it is *)
(* answered from, without locks, logins, caches or cooldowns: there is one *)
(* register with a snapshot of the vault, which only ever moves forward,   *)
(* and a request is answered once, from what the register holds at that    *)
(* moment and only if that is recent enough for the moment it was asked,   *)
(* or it is refused.                                                       *)
(***************************************************************************)
EXTENDS Naturals

CONSTANTS
    Requests,
    None,
    MaxAge      \* how old a snapshot may be when a request is asked

VARIABLES
    now,
    value,      \* the snapshot: the instant it was taken, or None
    status,     \* idle, waiting, answered or refused, for each request
    askedAt,
    answer      \* the snapshot each request was answered from

vars == <<now, value, status, askedAt, answer>>

Init ==
    /\ now = 0
    /\ value = None
    /\ status = [r \in Requests |-> "idle"]
    /\ askedAt = [r \in Requests |-> 0]
    /\ answer = [r \in Requests |-> None]

Ask(r) ==
    /\ status[r] = "idle"
    /\ status' = [status EXCEPT ![r] = "waiting"]
    /\ askedAt' = [askedAt EXCEPT ![r] = now]
    /\ UNCHANGED <<now, value, answer>>

(* A snapshot is installed, none older than the one before. *)
Install ==
    /\ value' \in 0..now
    /\ value # None => value <= value'
    /\ UNCHANGED <<now, status, askedAt, answer>>

RecentFor(r) ==
    \/ askedAt[r] <= value
    \/ askedAt[r] < value + MaxAge

Answer(r) ==
    /\ status[r] = "waiting"
    /\ value # None
    /\ RecentFor(r)
    /\ status' = [status EXCEPT ![r] = "answered"]
    /\ answer' = [answer EXCEPT ![r] = value]
    /\ UNCHANGED <<now, value, askedAt>>

(* With an error, or because the caller went away. *)
Refuse(r) ==
    /\ status[r] = "waiting"
    /\ status' = [status EXCEPT ![r] = "refused"]
    /\ UNCHANGED <<now, value, askedAt, answer>>

Tick ==
    /\ now' = now + 1
    /\ UNCHANGED <<value, status, askedAt, answer>>

Next ==
    \/ Install
    \/ Tick
    \/ \E r \in Requests : Ask(r) \/ Answer(r) \/ Refuse(r)

Spec == Init /\ [][Next]_vars

=============================================================================
