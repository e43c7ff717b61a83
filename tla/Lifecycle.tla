------------------------------- MODULE Lifecycle -------------------------------
(***************************************************************************)
(* The shutdown broadcast of lifecycle.rs and the loop of the background   *)
(* tasks that wait for it (spawn_policy_reload, spawn_auth_policy_reload   *)
(* in main.rs).  mark_shutting_down sets a flag and then wakes whoever     *)
(* waits on a tokio Notify, which keeps nothing for those who do not; a    *)
(* task in its select registers with the Notify before it reads the flag.  *)
(* The two sides run on different threads, so every access is a step.      *)
(*                                                                         *)
(*   select      at the top of the loop, nothing polled yet                *)
(*   registered  shutdown_requested has enabled its Notified future        *)
(*   waiting     suspended in the select, both branches pending            *)
(*   ticked      the ticker won the select                                 *)
(*   working     past the is_ready test: the body of the loop              *)
(*   exited      the loop is left                                          *)
(*                                                                         *)
(* A definition marked "Mutant" is wrong on purpose and used by mutation   *)
(* tests only.                                                             *)
(***************************************************************************)
CONSTANT Tasks

VARIABLES
    shuttingDown,  \* the atomic flag
    marker,        \* where mark_shutting_down is: idle, stored, notified
    pc,            \* where each task is
    woken          \* whether the Notified future of each task is completed

lifecycleVars == <<shuttingDown, marker, pc, woken>>

LifecycleTypeOK ==
    /\ shuttingDown \in BOOLEAN
    /\ marker \in {"idle", "stored", "notified"}
    /\ pc \in [Tasks -> {"select", "registered", "waiting", "ticked", "working", "exited"}]
    /\ woken \in [Tasks -> BOOLEAN]

LifecycleInit ==
    /\ shuttingDown = FALSE
    /\ marker = "idle"
    /\ pc = [t \in Tasks |-> "select"]
    /\ woken = [t \in Tasks |-> FALSE]

-----------------------------------------------------------------------------
(* mark_shutting_down, called once by shutdown_signal *)

StoreFlag ==
    /\ marker = "idle"
    /\ marker' = "stored"
    /\ shuttingDown' = TRUE
    /\ UNCHANGED <<pc, woken>>

(* Mutant: notify_one in place of notify_waiters. *)
NotifyOne ==
    /\ marker = "stored"
    /\ marker' = "notified"
    /\ \E t \in Tasks :
          woken' = [woken EXCEPT ![t] = @ \/ pc[t] \in {"registered", "waiting"}]
    /\ UNCHANGED <<shuttingDown, pc>>

(* notify_waiters completes the futures that are registered, no others. *)
NotifyWaiters ==
    /\ marker = "stored"
    /\ marker' = "notified"
    /\ woken' = [t \in Tasks |-> woken[t] \/ pc[t] \in {"registered", "waiting"}]
    /\ UNCHANGED <<shuttingDown, pc>>

-----------------------------------------------------------------------------
(* The loop of a task *)

Goto(t, to) == pc' = [pc EXCEPT ![t] = to]

(* The select polls shutdown_requested: the Notified future is enabled. *)
Register(t) ==
    /\ pc[t] = "select"
    /\ Goto(t, "registered")
    /\ UNCHANGED <<shuttingDown, marker, woken>>

(* Mutant: a late waiter trusts the Notify alone. *)
SkipFlag(t) ==
    /\ pc[t] = "registered"
    /\ Goto(t, "waiting")
    /\ UNCHANGED <<shuttingDown, marker, woken>>

(* Only then the flag is read. *)
CheckFlag(t) ==
    /\ pc[t] = "registered"
    /\ Goto(t, IF shuttingDown THEN "exited" ELSE "waiting")
    /\ UNCHANGED <<shuttingDown, marker, woken>>

(* The ticker is due.  The select may poll it before the other branch, and *)
(* it drops the Notified future when the ticker wins.                      *)
TickWins(t) ==
    /\ pc[t] \in {"select", "waiting"}
    /\ Goto(t, "ticked")
    /\ woken' = [woken EXCEPT ![t] = FALSE]
    /\ UNCHANGED <<shuttingDown, marker>>

ShutdownWins(t) ==
    /\ pc[t] = "waiting"
    /\ woken[t]
    /\ Goto(t, "exited")
    /\ UNCHANGED <<shuttingDown, marker, woken>>

(* is_ready after a tick: shutdown may have raced with it. *)
CheckReady(t) ==
    /\ pc[t] = "ticked"
    /\ Goto(t, IF shuttingDown THEN "exited" ELSE "working")
    /\ UNCHANGED <<shuttingDown, marker, woken>>

WorkDone(t) ==
    /\ pc[t] = "working"
    /\ Goto(t, "select")
    /\ UNCHANGED <<shuttingDown, marker, woken>>

-----------------------------------------------------------------------------

(* The task goes on by itself; only the tick waits for the clock. *)
Proceed(t) ==
    Register(t) \/ CheckFlag(t) \/ ShutdownWins(t) \/ CheckReady(t)

Stopped ==
    /\ \A t \in Tasks : pc[t] = "exited"
    /\ UNCHANGED lifecycleVars

LifecycleNext ==
    \/ StoreFlag \/ NotifyWaiters \/ Stopped
    \/ \E t \in Tasks : Proceed(t) \/ TickWins(t) \/ WorkDone(t)

(* The runtime polls tasks that can go on and reload terminates.  Ticks    *)
(* are not assumed: shutdown has to work between two of them.              *)
LifecycleFairness ==
    /\ WF_lifecycleVars(NotifyWaiters)
    /\ \A t \in Tasks : WF_lifecycleVars(Proceed(t)) /\ WF_lifecycleVars(WorkDone(t))

LifecycleSpec == LifecycleInit /\ [][LifecycleNext]_lifecycleVars /\ LifecycleFairness

-----------------------------------------------------------------------------
(* Properties *)

(* No wakeup is lost: once notify_waiters has run, no task is suspended in *)
(* its select with a future that shutdown did not complete.                *)
NoLostShutdown ==
    marker = "notified" => \A t \in Tasks : pc[t] = "waiting" => woken[t]

(* Every background task leaves its loop after shutdown is requested, even *)
(* if its ticker never fires again.                                        *)
ShutdownStopsTasks == shuttingDown ~> \A t \in Tasks : pc[t] = "exited"

=============================================================================
