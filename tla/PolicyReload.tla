----------------------------- MODULE PolicyReload -----------------------------
(***************************************************************************)
(* Hot reload of file-backed policies: SelectorPolicy with its two files   *)
(* (main.rs) and ScopedAuthPolicy with its one (auth.rs).  Each policy has *)
(* a background task that re-reads the files on every tick, keeps the last *)
(* good rules when that fails and swaps the shared rules when they differ. *)
(* Requests only ever clone the shared Arc, so a policy in force is one    *)
(* value of rules.                                                         *)
(*                                                                         *)
(* Files live in a Kubernetes volume.  The kubelet replaces all files of a *)
(* volume at once (the ..data symlink), at any moment: between two files   *)
(* of one evaluation as well.  A file is the sequence of its entries, or   *)
(* None when it cannot be read, is too large, or does not parse or         *)
(* validate.  For the selector policy an entry is an allowed key or        *)
(* prefix, for the auth policy a capability.                               *)
(*                                                                         *)
(* The tasks' loop and its shutdown are Lifecycle's.  A definition marked  *)
(* "Mutant" is wrong on purpose and used by mutation tests only.           *)
(***************************************************************************)
EXTENDS Naturals, Sequences, Lifecycle

CONSTANTS
    None,
    Files,      \* Files[t]: the file sources of policy t, in reading order
    Inline,     \* Inline[t]: the inline entries unioned with each of them
    Contents,   \* Contents[t]: what a file of policy t may hold
    MaxSwaps    \* bound on the updates of all volumes

VARIABLES
    volume,     \* volume[t]: what each file of policy t holds now
    rules,      \* rules[t]: the entries in force, one sequence per source
    read,       \* read[t]: what the running evaluation has read so far
    gauges,     \* gauges[t]: the active counts the metrics report
    outcome,    \* outcome[t]: what reload returned, until it is recorded
    swaps,      \* updates of the volumes so far
    published   \* history: every state each volume has been in

policyVars == <<volume, rules, read, gauges, outcome, swaps, published>>
vars == <<lifecycleVars, policyVars>>

Sources(t) == DOMAIN Files[t]
Volumes(t) == [Sources(t) -> Contents[t]]

(* PolicySources::evaluate and ScopedAuthRules::read when every file was   *)
(* read: inline entries come first.                                        *)
Policy(t, v) == [i \in Sources(t) |-> Inline[t][i] \o v[i]]

Counts(p) == [i \in DOMAIN p |-> Len(p[i])]

(* A policy with no entry at all is an error, never allow-all. *)
HasEntries(p) == \E i \in DOMAIN p : p[i] # <<>>

Readable(t, v) == \A i \in Sources(t) : v[i] # None
Valid(t, v) == Readable(t, v) /\ HasEntries(Policy(t, v))

ASSUME PolicyAssumption ==
    /\ MaxSwaps \in Nat
    /\ \A t \in Tasks : Len(Files[t]) \in Nat /\ Sources(t) = 1..Len(Files[t])
    /\ \A t \in Tasks : DOMAIN Inline[t] = Sources(t)
    /\ \A t \in Tasks : \E v \in Volumes(t) : Valid(t, v)

(* Mutant: the gauges are not seeded before the first reload. *)
StartWithoutBaseline(vol) ==
    /\ rules = [t \in Tasks |-> Policy(t, vol[t])]
    /\ gauges = [t \in Tasks |-> [i \in Sources(t) |-> 0]]

(* Startup: from_args and from_file evaluate the sources and fail if they  *)
(* are invalid; main seeds the gauges before it spawns the tasks.          *)
StartFrom(vol) ==
    /\ rules = [t \in Tasks |-> Policy(t, vol[t])]
    /\ gauges = [t \in Tasks |-> Counts(rules[t])]

Init ==
    /\ LifecycleInit
    /\ volume \in [Tasks -> UNION {Volumes(t) : t \in Tasks}]
    /\ \A t \in Tasks : volume[t] \in Volumes(t) /\ Valid(t, volume[t])
    /\ StartFrom(volume)
    /\ read = [t \in Tasks |-> <<>>]
    /\ outcome = [t \in Tasks |-> None]
    /\ swaps = 0
    /\ published = [t \in Tasks |-> {volume[t]}]

-----------------------------------------------------------------------------
(* External: the kubelet projects a new state of the ConfigMap or Secret. *)
Swap(t) ==
    /\ swaps < MaxSwaps
    /\ \E v \in Volumes(t) \ {volume[t]} :
          /\ volume' = [volume EXCEPT ![t] = v]
          /\ published' = [published EXCEPT ![t] = @ \cup {v}]
    /\ swaps' = swaps + 1
    /\ UNCHANGED <<lifecycleVars, rules, read, gauges, outcome>>

-----------------------------------------------------------------------------
(* The body of the loop *)

(* reload returns o with p in force; what was read is dropped. *)
Return(t, o, p) ==
    /\ rules' = [rules EXCEPT ![t] = p]
    /\ outcome' = [outcome EXCEPT ![t] = o]
    /\ read' = [read EXCEPT ![t] = <<>>]
    /\ UNCHANGED <<lifecycleVars, volume, gauges, swaps, published>>

Evaluating(t) == pc[t] = "working" /\ outcome[t] = None

(* The files are read in order. *)
NextSource(t) == Len(read[t]) + 1

(* Mutant: a file that cannot be read counts as an empty one. *)
ReadFileLeniently(t) ==
    /\ Evaluating(t)
    /\ NextSource(t) \in Sources(t)
    /\ LET c == volume[t][NextSource(t)]
           entries == IF c = None THEN <<>> ELSE c
       IN  read' = [read EXCEPT ![t] = Append(@, Inline[t][NextSource(t)] \o entries)]
    /\ UNCHANGED <<lifecycleVars, volume, rules, gauges, outcome, swaps, published>>

(* The next file is opened and read. *)
ReadFile(t) ==
    /\ Evaluating(t)
    /\ NextSource(t) \in Sources(t)
    /\ volume[t][NextSource(t)] # None
    /\ read' = [read EXCEPT ![t] =
                   Append(@, Inline[t][NextSource(t)] \o volume[t][NextSource(t)])]
    /\ UNCHANGED <<lifecycleVars, volume, rules, gauges, outcome, swaps, published>>

(* The next file is an error: evaluate returns early. *)
ReadFails(t) ==
    /\ Evaluating(t)
    /\ NextSource(t) \in Sources(t)
    /\ volume[t][NextSource(t)] = None
    /\ Return(t, "failure", rules[t])

(* Mutant: only the counts are compared. *)
SameCounts(p, q) == Counts(p) = Counts(q)

SamePolicy(p, q) == p = q

(* Every file is read: evaluate checks that there are entries, and reload  *)
(* swaps the rules if they differ.                                         *)
Apply(t) ==
    /\ Evaluating(t)
    /\ NextSource(t) \notin Sources(t)
    /\ \/ /\ ~HasEntries(read[t])
          /\ Return(t, "failure", rules[t])
       \/ /\ HasEntries(read[t])
          /\ SamePolicy(rules[t], read[t])
          /\ Return(t, "unchanged", rules[t])
       \/ /\ HasEntries(read[t])
          /\ ~SamePolicy(rules[t], read[t])
          /\ Return(t, "success", read[t])

(* The counts of the policy now served are recorded, after a failure too,  *)
(* and the loop goes on.                                                   *)
RecordReload(t) ==
    /\ outcome[t] # None
    /\ gauges' = [gauges EXCEPT ![t] = Counts(rules[t])]
    /\ outcome' = [outcome EXCEPT ![t] = None]
    /\ WorkDone(t)
    /\ UNCHANGED <<volume, rules, read, swaps, published>>

Work(t) == ReadFile(t) \/ ReadFails(t) \/ Apply(t) \/ RecordReload(t)

Loop(t) == (Proceed(t) \/ TickWins(t)) /\ UNCHANGED policyVars

Next ==
    \/ (StoreFlag \/ NotifyWaiters \/ Stopped) /\ UNCHANGED policyVars
    \/ \E t \in Tasks : Loop(t) \/ Work(t) \/ Swap(t)

(* What Lifecycle assumes, with the body of the loop. *)
Fairness ==
    /\ WF_vars(NotifyWaiters /\ UNCHANGED policyVars)
    /\ \A t \in Tasks : WF_vars(Work(t)) /\ WF_vars(Proceed(t) /\ UNCHANGED policyVars)

Spec == Init /\ [][Next]_vars /\ Fairness

(* The interval ticker keeps firing. *)
Ticking(t) == WF_vars(TickWins(t) /\ UNCHANGED policyVars)

-----------------------------------------------------------------------------
(* Properties *)

TypeOK ==
    /\ LifecycleTypeOK
    /\ swaps \in 0..MaxSwaps
    /\ \A t \in Tasks :
          /\ volume[t] \in Volumes(t)
          /\ DOMAIN rules[t] = Sources(t)
          /\ Len(read[t]) <= Len(Files[t])
          /\ outcome[t] \in {None, "success", "unchanged", "failure"}

(* A policy in force always has entries, and each source of it is what     *)
(* that source held at some time: a failed or half-done evaluation never   *)
(* becomes the policy, and neither an unreadable nor an empty file widens  *)
(* or blanks it.                                                           *)
LastGoodPolicy ==
    \A t \in Tasks :
        /\ HasEntries(rules[t])
        /\ \A i \in Sources(t) : \E v \in published[t] :
              v[i] # None /\ rules[t][i] = Inline[t][i] \o v[i]

(* Outside of a reload the active counts the metrics report are those of   *)
(* the policy in force, from startup on and after failed reloads too.      *)
GaugesMatchPolicy ==
    \A t \in Tasks : pc[t] # "working" => gauges[t] = Counts(rules[t])

InForce(t, v) == Readable(t, v) /\ rules[t] = Policy(t, v)

(* If its ticker keeps firing, a valid update that stays is in force       *)
(* eventually, whatever the volume went through before, unless the process *)
(* is stopped.                                                             *)
UpdateTakesEffect ==
    \A t \in Tasks : Ticking(t) =>
        (swaps = MaxSwaps /\ Valid(t, volume[t])
            ~> InForce(t, volume[t]) \/ shuttingDown)

=============================================================================
