-------------------------- MODULE PolicyReloadProofs --------------------------
(***************************************************************************)
(* Hot reload keeps the last good policy, for any number of policies, any  *)
(* files and any updates of the volumes while files are being read.        *)
(*                                                                         *)
(* The inductive invariant is about the evaluation under way: each source  *)
(* it has read so far is one the volume held at some time, so that what is *)
(* put in force in the end is too.  The shutdown broadcast comes first: a  *)
(* step here is a step of Lifecycle, so what holds there holds here.       *)
(***************************************************************************)
EXTENDS PolicyReload, TLAPS

-----------------------------------------------------------------------------
(* The shutdown broadcast loses no wakeup, for any number of tasks. *)

(* The flag is set exactly from StoreFlag on, so a task that goes to sleep *)
(* did so before the broadcast, and registered before that.                *)
BroadcastInv ==
    /\ LifecycleTypeOK
    /\ shuttingDown <=> marker # "idle"
    /\ NoLostShutdown

(* The invariant holds before anything happened. *)
LEMMA BroadcastInit == LifecycleInit => BroadcastInv
  BY DEF LifecycleInit, BroadcastInv, LifecycleTypeOK, NoLostShutdown

(* Every step of a task and of mark_shutting_down keeps it. *)
LEMMA BroadcastStep == BroadcastInv /\ [LifecycleNext]_lifecycleVars => BroadcastInv'
<1> SUFFICES ASSUME BroadcastInv, [LifecycleNext]_lifecycleVars PROVE BroadcastInv'
  OBVIOUS
<1> USE DEF BroadcastInv, LifecycleTypeOK, NoLostShutdown
<1>1. CASE UNCHANGED lifecycleVars
  BY <1>1 DEF lifecycleVars
<1>2. CASE StoreFlag
  BY <1>2 DEF StoreFlag
<1>3. CASE NotifyWaiters
  BY <1>3 DEF NotifyWaiters
<1>4. ASSUME NEW t \in Tasks, Register(t) PROVE BroadcastInv'
  BY <1>4 DEF Register, Goto
<1>5. ASSUME NEW t \in Tasks, CheckFlag(t) PROVE BroadcastInv'
  BY <1>5 DEF CheckFlag, Goto
<1>6. ASSUME NEW t \in Tasks, ShutdownWins(t) PROVE BroadcastInv'
  BY <1>6 DEF ShutdownWins, Goto
<1>7. ASSUME NEW t \in Tasks, CheckReady(t) PROVE BroadcastInv'
  BY <1>7 DEF CheckReady, Goto
<1>8. ASSUME NEW t \in Tasks, TickWins(t) PROVE BroadcastInv'
  BY <1>8 DEF TickWins, Goto
<1>9. ASSUME NEW t \in Tasks, WorkDone(t) PROVE BroadcastInv'
  BY <1>9 DEF WorkDone, Goto
<1>10. QED
  BY <1>1, <1>2, <1>3, <1>4, <1>5, <1>6, <1>7, <1>8, <1>9
     DEF LifecycleNext, Stopped, Proceed

(* Once notify_waiters has run, every suspended task has been woken:       *)
(* shutdown_requested registers before it reads the flag.                  *)
THEOREM NoLostShutdownHolds == LifecycleSpec => []NoLostShutdown
<1>1. BroadcastInv => NoLostShutdown
  BY DEF BroadcastInv
<1>2. QED
  BY BroadcastInit, BroadcastStep, <1>1, PTL DEF LifecycleSpec

-----------------------------------------------------------------------------
(* Policies *)

(* What reading source i of policy t, or any of them, can give. *)
EntriesOf(t, i) == {Inline[t][i] \o c : c \in Contents[t]}
Entries(t) == UNION {EntriesOf(t, i) : i \in Sources(t)}

(* Source i of policy t held these entries at some time. *)
Held(t, i, entries) ==
    \E v \in published[t] : v[i] # None /\ entries = Inline[t][i] \o v[i]

(* Functions on the tasks whose values have no type of their own. *)
OnTasks(f) == f = [t \in Tasks |-> f[t]]

ShapeInv ==
    /\ swaps \in 0..MaxSwaps
    /\ OnTasks(volume) /\ OnTasks(rules) /\ OnTasks(read)
    /\ OnTasks(gauges) /\ OnTasks(outcome) /\ OnTasks(published)

VolumeInv ==
    \A t \in Tasks : volume[t] \in Volumes(t) /\ volume[t] \in published[t]

(* s is what an evaluation of policy t may have read so far. *)
ReadSoFar(t, s) ==
    /\ s \in Seq(Entries(t))
    /\ Len(s) <= Len(Files[t])
    /\ \A i \in 1..Len(s) : Held(t, i, s[i])

EvaluationInv ==
    \A t \in Tasks :
        /\ ReadSoFar(t, read[t])
        /\ outcome[t] \in {None, "success", "unchanged", "failure"}

(* p is a policy t may have in force. *)
Good(t, p) ==
    /\ DOMAIN p = Sources(t)
    /\ HasEntries(p)
    /\ \A i \in Sources(t) : Held(t, i, p[i])

RulesInv == \A t \in Tasks : Good(t, rules[t])

IInv ==
    /\ BroadcastInv /\ ShapeInv /\ VolumeInv
    /\ EvaluationInv /\ RulesInv /\ GaugesMatchPolicy

-----------------------------------------------------------------------------
(* The loop of Lifecycle *)

(* Every step of the reload tasks is one of the loop, or none of its. *)
LEMMA StepIsLifecycle == [Next]_vars => [LifecycleNext]_lifecycleVars
<1>1. ASSUME NEW t \in Tasks, Work(t) PROVE [LifecycleNext]_lifecycleVars
  BY <1>1 DEF Work, ReadFile, ReadFails, Apply, Return, RecordReload, LifecycleNext
<1>2. QED
  BY <1>1 DEF Next, vars, Loop, Swap, LifecycleNext

-----------------------------------------------------------------------------
(* What is read and put in force *)

(* What a source held once, it is known to have held ever after. *)
LEMMA HeldStays ==
  ASSUME NEW t, published[t] \subseteq published'[t]
  PROVE  /\ \A s : ReadSoFar(t, s) => ReadSoFar(t, s)'
         /\ \A p : Good(t, p) => Good(t, p)'
<1>1. \A i, e : Held(t, i, e) => Held(t, i, e)'
  BY DEF Held
<1>2. QED
  BY <1>1 DEF ReadSoFar, Good

(* An evaluation begins with nothing read, *)
LEMMA EmptyRead ==
  ASSUME NEW t \in Tasks
  PROVE  ReadSoFar(t, <<>>)
<1>1. <<>> \in Seq(Entries(t)) /\ Len(<<>>) = 0
  OBVIOUS
<1>2. QED
  BY <1>1, PolicyAssumption DEF ReadSoFar

(* goes on with a source as the volume has it now, *)
LEMMA OneMore ==
  ASSUME NEW t \in Tasks, NEW s, ReadSoFar(t, s), NEW i, i = Len(s) + 1, i \in Sources(t),
         volume[t] \in Volumes(t), volume[t] \in published[t], volume[t][i] # None
  PROVE  ReadSoFar(t, Append(s, Inline[t][i] \o volume[t][i]))
<1>1. volume[t][i] \in Contents[t]
  BY DEF Volumes
<1>2. Inline[t][i] \o volume[t][i] \in Entries(t)
  <2>1. Inline[t][i] \o volume[t][i] \in EntriesOf(t, i)
    BY <1>1, Zenon DEF EntriesOf
  <2>2. QED
    BY <2>1 DEF Entries
<1>3. PICK e : e = Inline[t][i] \o volume[t][i]
  OBVIOUS
<1>4. Held(t, i, e)
  BY <1>3 DEF Held
<1>5. s \in Seq(Entries(t)) /\ i <= Len(Files[t]) /\ e \in Entries(t)
  BY <1>2, <1>3, PolicyAssumption DEF ReadSoFar
<1>6. /\ Append(s, e) \in Seq(Entries(t))
      /\ Len(Append(s, e)) = i
      /\ \A j \in 1..i : Append(s, e)[j] = IF j = i THEN e ELSE s[j]
  BY <1>5
<1>7. \A j \in 1..i : Held(t, j, Append(s, e)[j])
  BY <1>4, <1>5, <1>6 DEF ReadSoFar
<1>8. QED
  BY <1>3, <1>5, <1>6, <1>7 DEF ReadSoFar

(* and what it has read in the end is a policy, unless it is empty. *)
LEMMA AllRead ==
  ASSUME NEW t \in Tasks, NEW s, ReadSoFar(t, s), HasEntries(s), Len(s) + 1 \notin Sources(t)
  PROVE  Good(t, s)
<1>1. Len(s) \in Nat /\ DOMAIN s = 1..Len(s)
  BY DEF ReadSoFar
<1>2. Len(s) = Len(Files[t])
  BY <1>1, PolicyAssumption DEF ReadSoFar
<1>3. DOMAIN s = Sources(t) /\ Sources(t) = 1..Len(s)
  BY <1>1, <1>2, PolicyAssumption
<1>4. QED
  BY <1>3 DEF ReadSoFar, Good

-----------------------------------------------------------------------------
(* The invariant holds at startup *)

(* main evaluated the sources and seeded the gauges before this. *)
LEMMA StartupInv == Init => IInv
<1> SUFFICES ASSUME Init PROVE IInv
  OBVIOUS
<1>1. BroadcastInv
  BY BroadcastInit DEF Init
<1>2. ShapeInv
  BY PolicyAssumption DEF Init, StartFrom, ShapeInv, OnTasks
<1>3. VolumeInv
  BY DEF Init, VolumeInv
<1>4. EvaluationInv
  <2>1. \A t \in Tasks : read[t] = <<>> /\ outcome[t] = None
    BY DEF Init
  <2>2. QED
    BY <2>1, EmptyRead DEF EvaluationInv
<1>5. ASSUME NEW t \in Tasks PROVE Good(t, rules[t])
  <2>1. rules[t] = Policy(t, volume[t]) /\ Valid(t, volume[t]) /\ published[t] = {volume[t]}
    BY DEF Init, StartFrom
  <2>2. QED
    BY <2>1 DEF Policy, Valid, Readable, Held, Good
<1>6. GaugesMatchPolicy
  BY DEF Init, StartFrom, GaugesMatchPolicy
<1>7. QED
  BY <1>1, <1>2, <1>3, <1>4, <1>5, <1>6 DEF IInv, RulesInv

-----------------------------------------------------------------------------
(* and every step keeps it *)

Rest == ShapeInv /\ VolumeInv /\ EvaluationInv /\ RulesInv /\ GaugesMatchPolicy

(* The kubelet may replace a volume in the middle of an evaluation. *)
LEMMA SwapStep ==
  ASSUME IInv, NEW t \in Tasks, Swap(t)
  PROVE  Rest'
<1>1. PICK v \in Volumes(t) \ {volume[t]} :
         /\ volume' = [volume EXCEPT ![t] = v]
         /\ published' = [published EXCEPT ![t] = @ \cup {v}]
  BY DEF Swap
<1>2. UNCHANGED <<rules, read, gauges, outcome, pc>> /\ swaps < MaxSwaps /\ swaps' = swaps + 1
  BY DEF Swap, lifecycleVars
<1>3. /\ OnTasks(volume)' /\ OnTasks(published)'
      /\ \A u \in Tasks : /\ volume'[u] = IF u = t THEN v ELSE volume[u]
                          /\ published[u] \subseteq published'[u]
      /\ v \in published'[t]
  BY <1>1 DEF IInv, ShapeInv, OnTasks
<1>4. swaps' \in 0..MaxSwaps
  BY <1>2, PolicyAssumption DEF IInv, ShapeInv
<1>5. ShapeInv'
  BY <1>2, <1>3, <1>4 DEF IInv, ShapeInv, OnTasks
<1>6. VolumeInv'
  BY <1>3 DEF IInv, VolumeInv, Volumes
<1>7. EvaluationInv' /\ RulesInv'
  BY <1>2, <1>3, HeldStays DEF IInv, EvaluationInv, RulesInv
<1>8. GaugesMatchPolicy'
  BY <1>2 DEF IInv, GaugesMatchPolicy
<1>9. QED
  BY <1>5, <1>6, <1>7, <1>8 DEF Rest

(* The next file is read as the volume has it at that moment. *)
LEMMA ReadStep ==
  ASSUME IInv, NEW t \in Tasks, ReadFile(t)
  PROVE  Rest'
<1> DEFINE i == NextSource(t)
           s == Append(read[t], Inline[t][i] \o volume[t][i])
<1>1. /\ read' = [read EXCEPT ![t] = s]
      /\ i \in Sources(t) /\ volume[t][i] # None
      /\ UNCHANGED <<volume, rules, gauges, outcome, swaps, published, pc>>
  BY DEF ReadFile, lifecycleVars
<1>2. ReadSoFar(t, s)
  BY <1>1, OneMore DEF IInv, VolumeInv, EvaluationInv, NextSource
<1> HIDE DEF i, s
<1>3. OnTasks(read)' /\ \A u \in Tasks : read'[u] = IF u = t THEN s ELSE read[u]
  BY <1>1 DEF IInv, ShapeInv, OnTasks
<1>4. ShapeInv' /\ VolumeInv' /\ GaugesMatchPolicy'
  BY <1>1, <1>3 DEF IInv, ShapeInv, OnTasks, VolumeInv, GaugesMatchPolicy
<1>5. \A u \in Tasks : published[u] \subseteq published'[u]
  BY <1>1
<1>6. EvaluationInv' /\ RulesInv'
  BY <1>1, <1>2, <1>3, <1>5, HeldStays DEF IInv, EvaluationInv, RulesInv
<1>7. QED
  BY <1>4, <1>6 DEF Rest

(* reload returns: what is in force next is what was, or all that was read. *)
LEMMA ReturnStep ==
  ASSUME IInv, NEW t \in Tasks, NEW o \in {"success", "unchanged", "failure"},
         NEW p, Return(t, o, p), Evaluating(t), Good(t, p)
  PROVE  Rest'
<1>1. UNCHANGED <<volume, gauges, swaps, published, pc>>
  BY DEF Return, lifecycleVars
<1>2. /\ OnTasks(rules)' /\ OnTasks(outcome)' /\ OnTasks(read)'
      /\ \A u \in Tasks :
            /\ rules'[u] = IF u = t THEN p ELSE rules[u]
            /\ outcome'[u] = IF u = t THEN o ELSE outcome[u]
            /\ read'[u] = IF u = t THEN <<>> ELSE read[u]
  BY DEF Return, IInv, ShapeInv, OnTasks
<1>3. ShapeInv' /\ VolumeInv'
  BY <1>1, <1>2 DEF IInv, ShapeInv, OnTasks, VolumeInv
<1>4. \A u \in Tasks : published[u] \subseteq published'[u]
  BY <1>1
<1>5. EvaluationInv'
  BY <1>2, <1>4, EmptyRead, HeldStays DEF IInv, EvaluationInv
<1>6. RulesInv'
  BY <1>2, <1>4, HeldStays DEF IInv, RulesInv
<1>7. pc'[t] = "working"
  BY <1>1 DEF Evaluating
<1>8. GaugesMatchPolicy'
  BY <1>1, <1>2, <1>7 DEF IInv, GaugesMatchPolicy
<1>9. QED
  BY <1>3, <1>5, <1>6, <1>8 DEF Rest

(* The gauges are set while the task is still in the body of its loop. *)
LEMMA RecordStep ==
  ASSUME IInv, NEW t \in Tasks, RecordReload(t)
  PROVE  Rest'
<1>1. UNCHANGED <<volume, rules, read, swaps, published>>
  BY DEF RecordReload
<1>2. /\ OnTasks(outcome)' /\ OnTasks(gauges)'
      /\ \A u \in Tasks :
            /\ outcome'[u] = IF u = t THEN None ELSE outcome[u]
            /\ gauges'[u] = IF u = t THEN Counts(rules[t]) ELSE gauges[u]
  BY DEF RecordReload, IInv, ShapeInv, OnTasks
<1>3. \A u \in Tasks \ {t} : pc'[u] = pc[u]
  BY DEF RecordReload, WorkDone, Goto, IInv, BroadcastInv, LifecycleTypeOK
<1>4. ShapeInv' /\ VolumeInv'
  BY <1>1, <1>2 DEF IInv, ShapeInv, OnTasks, VolumeInv
<1>5. \A u \in Tasks : published[u] \subseteq published'[u]
  BY <1>1
<1>6. EvaluationInv' /\ RulesInv'
  BY <1>1, <1>2, <1>5, HeldStays DEF IInv, EvaluationInv, RulesInv
<1>7. GaugesMatchPolicy'
  BY <1>1, <1>2, <1>3 DEF IInv, GaugesMatchPolicy
<1>8. QED
  BY <1>4, <1>6, <1>7 DEF Rest

(* A task goes round its loop with the policy as it is. *)
LEMMA LoopStep ==
  ASSUME IInv, UNCHANGED policyVars,
         \A t \in Tasks : pc'[t] = "working" \/ pc[t] # "working"
  PROVE  Rest'
<1>1. UNCHANGED <<volume, rules, read, gauges, outcome, swaps, published>>
  BY DEF policyVars
<1>2. ShapeInv' /\ VolumeInv'
  BY <1>1 DEF IInv, ShapeInv, OnTasks, VolumeInv
<1>3. \A u \in Tasks : published[u] \subseteq published'[u]
  BY <1>1
<1>4. EvaluationInv' /\ RulesInv'
  BY <1>1, <1>3, HeldStays DEF IInv, EvaluationInv, RulesInv
<1>5. GaugesMatchPolicy'
  BY <1>1 DEF IInv, GaugesMatchPolicy
<1>6. QED
  BY <1>2, <1>4, <1>5 DEF Rest

(* One case per action of Next. *)
LEMMA Step == IInv /\ [Next]_vars => IInv'
<1> SUFFICES ASSUME IInv, [Next]_vars PROVE IInv'
  OBVIOUS
<1>1. BroadcastInv'
  BY StepIsLifecycle, BroadcastStep DEF IInv
<1> SUFFICES Rest'
  BY <1>1 DEF IInv, Rest
<1>2. CASE UNCHANGED vars
  <2>1. UNCHANGED policyVars /\ UNCHANGED pc
    BY <1>2 DEF vars, lifecycleVars
  <2>2. QED
    BY <2>1, LoopStep
<1>3. CASE (StoreFlag \/ NotifyWaiters \/ Stopped) /\ UNCHANGED policyVars
  <2>1. UNCHANGED pc
    BY <1>3 DEF StoreFlag, NotifyWaiters, Stopped, lifecycleVars
  <2>2. QED
    BY <1>3, <2>1, LoopStep
<1>4. ASSUME NEW t \in Tasks, Loop(t) PROVE Rest'
  <2>1. \A u \in Tasks : pc'[u] = "working" \/ pc[u] # "working"
    BY <1>4 DEF Loop, Proceed, Register, CheckFlag, ShutdownWins, CheckReady, TickWins, Goto,
           IInv, BroadcastInv, LifecycleTypeOK
  <2>2. QED
    BY <1>4, <2>1, LoopStep DEF Loop
<1>5. ASSUME NEW t \in Tasks, ReadFails(t) PROVE Rest'
  BY <1>5, ReturnStep DEF ReadFails, IInv, RulesInv
<1>6. ASSUME NEW t \in Tasks, Apply(t) PROVE Rest'
  <2>1. Evaluating(t) /\ Len(read[t]) + 1 \notin Sources(t)
    BY <1>6 DEF Apply, NextSource
  <2>2. HasEntries(read[t]) => Good(t, read[t])
    BY <2>1, AllRead DEF IInv, EvaluationInv
  <2>3. QED
    BY <1>6, <2>1, <2>2, ReturnStep DEF Apply, IInv, RulesInv
<1>7. ASSUME NEW t \in Tasks, Work(t) PROVE Rest'
  BY <1>5, <1>6, <1>7, ReadStep, RecordStep DEF Work
<1>8. QED
  BY <1>2, <1>3, <1>4, <1>7, SwapStep DEF Next

(* So the invariant holds throughout. *)
LEMMA Inductive == Spec => []IInv
  BY StartupInv, Step, PTL DEF Spec

-----------------------------------------------------------------------------
(* Theorems *)

(* SelectorPolicy::reload and ScopedAuthPolicy::reload: whatever happens   *)
(* to the files, during an evaluation too, the policy in force has entries *)
(* and each source of it is what that source once held.                    *)
THEOREM LastGoodPolicyHolds == Spec => []LastGoodPolicy
<1>1. IInv => LastGoodPolicy
  BY DEF IInv, RulesInv, Good, Held, LastGoodPolicy
<1>2. QED
  BY <1>1, Inductive, PTL

(* The active-entry gauges of the metrics report the policy in force       *)
(* whenever no reload is under way.                                        *)
THEOREM GaugesMatchPolicyHolds == Spec => []GaugesMatchPolicy
<1>1. IInv => GaugesMatchPolicy
  BY DEF IInv
<1>2. QED
  BY <1>1, Inductive, PTL

(* With the body of their loop the reload tasks sleep through no shutdown  *)
(* broadcast: what NoLostShutdownHolds says of the loop alone holds here.  *)
THEOREM ReloadTasksWake == Spec => []NoLostShutdown
<1>1. IInv => NoLostShutdown
  BY DEF IInv, BroadcastInv
<1>2. QED
  BY <1>1, Inductive, PTL

(* Every variable of the reload model keeps its type. *)
THEOREM TypeCorrect == Spec => []TypeOK
<1>1. IInv => TypeOK
  BY DEF IInv, BroadcastInv, ShapeInv, VolumeInv, EvaluationInv, RulesInv,
         ReadSoFar, Good, TypeOK
<1>2. QED
  BY <1>1, Inductive, PTL

=============================================================================
