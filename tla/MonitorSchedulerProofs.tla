------------------------ MODULE MonitorSchedulerProofs ------------------------
(***************************************************************************)
(* Theorems about MonitorScheduler, for every set of monitors, settings    *)
(* and runs, and every concurrency, receipt limit and bound.               *)
(***************************************************************************)
EXTENDS MonitorScheduler, FiniteSetTheorems, TLAPS

(* What the helpers of the actions return. *)

LEMMA SettleType ==
  ASSUME NEW recs \in [Runs -> Receipt \cup {None}], NEW settled,
         NEW outcome \in Receipt
  PROVE  Settle(recs, settled, outcome) \in [Runs -> Receipt \cup {None}]
BY DEF Settle

LEMMA PrunedType ==
  ASSUME NEW recs \in [Runs -> Receipt \cup {None}], NEW gone
  PROVE  Pruned(recs, gone) \in [Runs -> Receipt \cup {None}]
BY DEF Pruned

LEMMA SyncedType ==
  ASSUME TypeOK, NEW snap \in Snapshot
  PROVE  /\ SyncedEntries(snap) \in [Monitors -> Entry \cup {None}]
         /\ SyncedTasks(snap) \in [Monitors -> Task \cup {None}]
         /\ SyncedRuns(snap) \in [Runs -> Receipt \cup {None}]
<1>1. ASSUME NEW m \in Monitors
      PROVE  SyncedEntries(snap)[m] \in Entry \cup {None}
  <2>1. snap[m] \in Configs \cup {None} /\ entries[m] \in Entry \cup {None}
    BY DEF TypeOK, Snapshot
  <2>2. CASE snap[m] = None
    BY <2>2 DEF SyncedEntries
  <2>3. CASE snap[m] # None
    <3>1. \A gen \in Nat : NewEntry(snap[m], gen) \in Entry
      BY <2>1, <2>3 DEF NewEntry, Entry
    <3>2. entries[m] # None => entries[m].gen + 1 \in Nat
      BY <2>1 DEF Entry
    <3>3. QED
      BY <2>1, <2>3, <3>1, <3>2 DEF SyncedEntries, Superseded
  <2>4. QED BY <2>2, <2>3
<1>2. SyncedTasks(snap) \in [Monitors -> Task \cup {None}]
  BY DEF TypeOK, SyncedTasks, Task
<1>3. SyncedRuns(snap) \in [Runs -> Receipt \cup {None}]
  BY SettleType DEF TypeOK, SyncedRuns, Receipt
<1>4. QED
  BY <1>1, <1>2, <1>3 DEF SyncedEntries

LEMMA SyncedPresent ==
  ASSUME TypeOK, NEW snap \in Snapshot, NEW m \in Monitors
  PROVE  SyncedEntries(snap)[m] = None <=> snap[m] = None
<1>1. snap[m] \in Configs \cup {None} /\ entries[m] \in Entry \cup {None}
  BY DEF TypeOK, Snapshot
<1>2. snap[m] # None => \A gen \in Nat : NewEntry(snap[m], gen) \in Entry
  BY <1>1 DEF NewEntry, Entry
<1>3. entries[m] # None => entries[m].gen + 1 \in Nat
  BY <1>1 DEF Entry
<1>4. None \notin Entry
  BY NoneAssumption
<1>5. QED
  BY <1>1, <1>2, <1>3, <1>4 DEF SyncedEntries, Superseded

LEMMA LaunchType ==
  ASSUME NEW ents \in [Monitors -> Entry \cup {None}],
         NEW tsks \in [Monitors -> Task \cup {None}],
         LaunchDue(ents, tsks)
  PROVE  /\ entries' \in [Monitors -> Entry \cup {None}]
         /\ tasks' \in [Monitors -> Task \cup {None}]
<1>1. PICK batch \in Batches(ents, tsks) :
        /\ entries' = [m \in Monitors |->
                     IF m \in batch
                     THEN [ents[m] EXCEPT !.due = FALSE, !.manual = None,
                                          !.fresh = FALSE]
                     ELSE ents[m]]
        /\ tasks' = [m \in Monitors |->
                   IF m \in batch THEN NewTask(ents[m]) ELSE tsks[m]]
  BY DEF LaunchDue
<1>2. ASSUME NEW m \in batch PROVE m \in Monitors /\ ents[m] \in Entry
  BY <1>2 DEF Batches, Ready
<1>3. ASSUME NEW m \in batch
      PROVE  [ents[m] EXCEPT !.due = FALSE, !.manual = None, !.fresh = FALSE]
               \in Entry
  BY <1>2 DEF Entry
<1>4. ASSUME NEW m \in batch PROVE NewTask(ents[m]) \in Task
  BY <1>2 DEF Entry, Task, NewTask
<1>5. QED
  BY <1>1, <1>3, <1>4

LEMMA FinishType ==
  ASSUME TypeOK, NEW m \in Monitors, tasks[m] # None,
         NEW outcome \in Receipt, Finish(m, outcome)
  PROVE  /\ entries' \in [Monitors -> Entry \cup {None}]
         /\ tasks' \in [Monitors -> Task \cup {None}]
         /\ manualRuns' \in [Runs -> Receipt \cup {None}]
<1>1. entries[m] # None => [entries[m] EXCEPT !.due = FALSE] \in Entry
  BY DEF TypeOK, Entry
<1>2. entries' \in [Monitors -> Entry \cup {None}]
  BY <1>1 DEF TypeOK, Finish
<1>3. tasks' \in [Monitors -> Task \cup {None}]
  BY DEF TypeOK, Finish
<1>4. manualRuns' \in [Runs -> Receipt \cup {None}]
  BY SettleType DEF TypeOK, Finish
<1>5. QED
  BY <1>2, <1>3, <1>4

LEMMA AcceptRunType ==
  ASSUME TypeOK, NEW m \in Monitors,
         NEW ents \in [Monitors -> Entry \cup {None}], ents[m] # None,
         NEW recs \in [Runs -> Receipt \cup {None}],
         AcceptRun(m, ents, recs)
  PROVE  /\ entries' \in [Monitors -> Entry \cup {None}]
         /\ manualRuns' \in [Runs -> Receipt \cup {None}]
         /\ persisted' \in SUBSET Runs
<1>1. PICK gone \in Prunable(recs, 1) :
        \/ /\ entries' = ents
           /\ manualRuns' = Pruned(recs, gone)
           /\ UNCHANGED persisted
        \/ \E r \in NewRuns :
             /\ entries' = [ents EXCEPT ![m].manual = r]
             /\ manualRuns' = [Pruned(recs, gone) EXCEPT ![r] = "queued"]
             /\ persisted' = persisted \ {r}
  BY DEF AcceptRun
<1>2. Pruned(recs, gone) \in [Runs -> Receipt \cup {None}]
  BY PrunedType
<1>3. \A r \in NewRuns : r \in Runs /\ [ents[m] EXCEPT !.manual = r] \in Entry
  BY DEF NewRuns, Entry
<1>4. QED
  BY <1>1, <1>2, <1>3 DEF TypeOK, Receipt

LEMMA IdleTypes == IdleCall \in Call /\ IdleSave \in Save
BY DEF IdleCall, IdleSave, Call, Save, NoSnapshot, Snapshot

LEMMA LoadingType ==
  /\ LoadingCall("refresh", None) \in Call
  /\ LoadingCall("reconcile", None) \in Call
  /\ \A m \in Monitors : LoadingCall("run", m) \in Call
BY NoneAssumption DEF LoadingCall, Call, NoSnapshot, Snapshot

LEMMA SaveEndsType ==
  ASSUME TypeOK, NEW s \in Saves, saves[s].phase \in Unfinished,
         NEW outcome \in Outcomes, SaveEnds(s, outcome)
  PROVE  saves' \in [Saves -> Save]
<1>1. saves[s] \in Save /\ saves[s].phase # "idle"
  BY DEF TypeOK, Unfinished
<1>2. [saves[s] EXCEPT !.phase = outcome] \in Save
  BY <1>1 DEF Save, Outcomes
<1>3. QED
  BY <1>2, IdleTypes DEF TypeOK, SaveEnds

(* The types are an invariant: what each action leaves in the tables, the   *)
(* scheduler's dictionaries and the calls in flight is of their types.      *)
LEMMA TypeStep == TypeOK /\ [Next]_vars => TypeOK'
<1> SUFFICES ASSUME TypeOK, [Next]_vars PROVE TypeOK'
  OBVIOUS
<1>1. CASE Start
  BY <1>1, LoadingType DEF Start, TypeOK, database, scheduler, Callers
<1>2. CASE Stop
  <2>1. tasks' \in [Monitors -> Task \cup {None}]
    <3>1. \A m \in Monitors :
            tasks[m] # None => [tasks[m] EXCEPT !.cancel = TRUE] \in Task
      BY DEF TypeOK, Task
    <3>2. QED
      BY <1>2, <3>1 DEF Stop
  <2>2. calls' \in [Callers -> Call]
    BY <1>2, IdleTypes DEF Stop, TypeOK
  <2>3. status' \in {"stopped", "starting", "running", "stopping"} /\ halts' \in Nat
    BY <1>2 DEF Stop, TypeOK
  <2>4. QED
    BY <1>2, <2>1, <2>2, <2>3 DEF Stop, TypeOK, database
<1>3. CASE Stopped
  <2>1. manualRuns' \in [Runs -> Receipt \cup {None}]
    BY <1>3, SettleType DEF Stopped, TypeOK, Receipt
  <2>2. QED
    BY <1>3, <2>1 DEF Stopped, TypeOK, NoEntries, NoTasks, database
<1>4. CASE Crash
  BY <1>4, IdleTypes
  DEF Crash, TypeOK, NoEntries, NoTasks, database
<1>5. ASSUME NEW c \in Requests, NEW m \in Monitors,
             NEW settings \in Configs \cup {"disabled"},
             CreateMonitor(c, m, settings) \/ PatchMonitor(c, m, settings)
      PROVE  TypeOK'
  BY <1>5, LoadingType
  DEF CreateMonitor, PatchMonitor, Edit, Refreshing, TypeOK, NotEnabled, scheduler
<1>6. ASSUME NEW c \in Requests, NEW m \in Monitors, DeleteMonitor(c, m)
      PROVE  TypeOK'
  <2>1. config' \in [Monitors -> Configs \cup NotEnabled]
    BY <1>6 DEF DeleteMonitor, Edit, TypeOK, NotEnabled
  <2>2. result' \in [Monitors -> Configs \cup {None}]
    BY <1>6 DEF DeleteMonitor, TypeOK
  <2>3. calls' = [calls EXCEPT ![c] = LoadingCall("refresh", None)]
    BY <1>6 DEF DeleteMonitor, Edit, Refreshing
  <2>4. calls' \in [Callers -> Call]
    BY <2>3, LoadingType DEF TypeOK
  <2>5. edits' \in Nat
    BY <1>6 DEF DeleteMonitor, Edit, TypeOK
  <2>6. QED
    BY <1>6, <2>1, <2>2, <2>4, <2>5 DEF DeleteMonitor, Edit, Refreshing, TypeOK, scheduler
<1>7. ASSUME NEW c \in Requests, NEW m \in Monitors, RequestRun(c, m)
      PROVE  TypeOK'
  BY <1>7, LoadingType DEF RequestRun, TypeOK, database, scheduler
<1>8. ASSUME NEW c \in Callers, LoadEnabledMonitors(c) PROVE TypeOK'
  <2>1. [m \in Monitors |-> IF config[m] \in Configs THEN config[m] ELSE None]
          \in Snapshot
    BY DEF Snapshot
  <2>2. QED
    BY <1>8, <2>1 DEF LoadEnabledMonitors, TypeOK, Call, database, scheduler
<1>9. ASSUME NEW c \in Callers, LoadFails(c) PROVE TypeOK'
  BY <1>9, IdleTypes DEF LoadFails, CallEnds, TypeOK, database, scheduler
<1>10. ASSUME NEW c \in Requests, Refresh(c) PROVE TypeOK'
  <2>1. calls[c].snap \in Snapshot
    BY DEF TypeOK, Call, Callers
  <2>2. QED
    BY <1>10, <2>1, SyncedType, IdleTypes
    DEF Refresh, Synced, CallEnds, TypeOK, database
<1>11. ASSUME NEW c \in Requests, RunNow(c) PROVE TypeOK'
  <2> DEFINE snap == calls[c].snap
             m == calls[c].mon
  <2>1. snap \in Snapshot /\ m \in Monitors
    BY <1>11 DEF TypeOK, Call, Callers, RunNow
  <2>2. /\ SyncedEntries(snap) \in [Monitors -> Entry \cup {None}]
        /\ SyncedTasks(snap) \in [Monitors -> Task \cup {None}]
        /\ SyncedRuns(snap) \in [Runs -> Receipt \cup {None}]
    BY <2>1, SyncedType
  <2>3. CASE isHealthy /\ snap[m] # None
    <3>1. SyncedEntries(snap)[m] # None
      BY <2>1, <2>3, SyncedPresent
    <3>2. /\ entries' \in [Monitors -> Entry \cup {None}]
          /\ manualRuns' \in [Runs -> Receipt \cup {None}]
          /\ persisted' \in SUBSET Runs
      BY <1>11, <2>1, <2>2, <2>3, <3>1, AcceptRunType DEF RunNow
    <3>3. QED
      BY <1>11, <2>2, <2>3, <3>2, IdleTypes
      DEF RunNow, CallEnds, TypeOK, database
  <2>4. CASE ~(isHealthy /\ snap[m] # None)
    BY <1>11, <2>2, <2>4, IdleTypes
    DEF RunNow, Synced, CallEnds, TypeOK, database
  <2>5. QED
    BY <2>3, <2>4
<1>12. ASSUME NEW r \in Runs, GetManualRun(r) PROVE TypeOK'
  <2>1. PICK gone \in Prunable(manualRuns, 0) :
          /\ manualRuns' = IF isHealthy THEN Pruned(manualRuns, gone)
                           ELSE Settle(Pruned(manualRuns, gone), {r}, "unavailable")
          /\ UNCHANGED <<database, entries, tasks, status, calls, saves,
                         persisted, edits, halts>>
    BY <1>12 DEF GetManualRun
  <2>2. manualRuns' \in [Runs -> Receipt \cup {None}]
    BY <2>1, PrunedType, SettleType DEF TypeOK, Receipt
  <2>3. QED
    BY <2>1, <2>2 DEF TypeOK, database
<1>13. CASE ReconcileDue
  BY <1>13, LoadingType DEF ReconcileDue, TypeOK, database, scheduler, Callers
<1>14. CASE Reconcile
  <2>1. calls[Loop].snap \in Snapshot
    BY DEF TypeOK, Call, Callers
  <2>2. /\ entries' \in [Monitors -> Entry \cup {None}]
        /\ tasks' \in [Monitors -> Task \cup {None}]
        /\ manualRuns' \in [Runs -> Receipt \cup {None}]
    BY <1>14, <2>1, SyncedType, LaunchType DEF Reconcile, Synced
  <2>3. QED
    BY <1>14, <2>2, IdleTypes DEF Reconcile, CallEnds, TypeOK, database
<1>15. CASE ReconcileFails
  <2>1. /\ entries' \in [Monitors -> Entry \cup {None}]
        /\ tasks' \in [Monitors -> Task \cup {None}]
    BY <1>15, LaunchType DEF ReconcileFails, TypeOK
  <2>2. QED
    BY <1>15, <2>1, IdleTypes DEF ReconcileFails, CallEnds, TypeOK, database
<1>16. CASE Pass
  <2>1. /\ entries' \in [Monitors -> Entry \cup {None}]
        /\ tasks' \in [Monitors -> Task \cup {None}]
    BY <1>16, LaunchType DEF Pass, TypeOK
  <2>2. QED
    BY <1>16, <2>1 DEF Pass, TypeOK, database
<1>17. ASSUME NEW m \in Monitors, BecomesDue(m) PROVE TypeOK'
  BY <1>17 DEF BecomesDue, TypeOK, Entry, database
<1>18. ASSUME NEW m \in Monitors, StartTask(m) \/ NeverStarts(m) PROVE TypeOK'
  BY <1>18 DEF StartTask, NeverStarts, TypeOK, Task, database
<1>19. ASSUME NEW m \in Monitors, Checked(m) PROVE TypeOK'
  <2>1. CASE isCurrent(m) /\ status # "stopping"
    <3>1. PICK s \in Saves :
            /\ saves' = [saves EXCEPT ![s] =
                 [phase |-> "verify", mon |-> m, check |-> tasks[m].check,
                  seen |-> FALSE]]
            /\ tasks' = [tasks EXCEPT ![m].phase = "saving", ![m].save = s]
            /\ UNCHANGED <<entries, manualRuns>>
      BY <1>19, <2>1 DEF Checked
    <3>2. tasks[m] \in Task
      BY <1>19 DEF Checked, TypeOK
    <3>3. saves' \in [Saves -> Save] /\ tasks' \in [Monitors -> Task \cup {None}]
      BY <3>1, <3>2, NoneAssumption DEF TypeOK, Save, Task, Unfinished
    <3>4. QED
      BY <1>19, <3>1, <3>3 DEF Checked, TypeOK, database
  <2>2. CASE ~(isCurrent(m) /\ status # "stopping")
    BY <1>19, <2>2, FinishType DEF Checked, TypeOK, database, Receipt
  <2>3. QED
    BY <2>1, <2>2
<1>20. ASSUME NEW m \in Monitors, SaveReturns(m) \/ Cancelled(m) PROVE TypeOK'
  <2>1. /\ entries' \in [Monitors -> Entry \cup {None}]
        /\ tasks' \in [Monitors -> Task \cup {None}]
        /\ manualRuns' \in [Runs -> Receipt \cup {None}]
    BY <1>20, FinishType DEF SaveReturns, Cancelled, Receipt
  <2>2. saves' \in [Saves -> Save]
    BY <1>20, IdleTypes DEF SaveReturns, Cancelled, TypeOK
  <2>3. QED
    BY <1>20, <2>1, <2>2 DEF SaveReturns, Cancelled, TypeOK, database
<1>21. ASSUME NEW s \in Saves, Verify(s) \/ Lookup(s) \/ SaveFails(s)
       PROVE  TypeOK'
  <2>1. saves' \in [Saves -> Save]
    BY <1>21, SaveEndsType
    DEF Verify, Lookup, SaveFails, TypeOK, Save, Unfinished, Outcomes
  <2>2. QED
    BY <1>21, <2>1 DEF Verify, Lookup, SaveFails, TypeOK, database, scheduler
<1>22. ASSUME NEW s \in Saves, Write(s) PROVE TypeOK'
  <2>1. saves' \in [Saves -> Save]
    BY <1>22, SaveEndsType DEF Write, Outcomes, Unfinished
  <2>2. saves[s].mon \in Monitors /\ saves[s].check \in Configs
    BY <1>22 DEF Write, TypeOK, Save
  <2>3. persisted' \in SUBSET Runs
    BY <1>22 DEF Write, TypeOK, Awaited, Task
  <2>4. QED
    BY <1>22, <2>1, <2>2, <2>3 DEF Write, TypeOK, scheduler
<1>23. CASE UNCHANGED vars
  BY <1>23 DEF vars, TypeOK
<1>24. QED
  BY <1>1, <1>2, <1>3, <1>4, <1>5, <1>6, <1>7, <1>8, <1>9, <1>10, <1>11, <1>12,
     <1>13, <1>14, <1>15, <1>16, <1>17, <1>18, <1>19, <1>20, <1>21, <1>22, <1>23
  DEF Next

(* TypeOK is an invariant of the scheduler. *)
THEOREM TypeCorrect == Spec => []TypeOK
<1>1. Init => TypeOK
  BY IdleTypes
  DEF Init, TypeOK, NotEnabled, NoEntries, NoTasks
<1>2. QED
  BY <1>1, TypeStep, PTL DEF Spec

-----------------------------------------------------------------------------
(* Capacity: launches are the only steps that add a task, and a batch fits  *)
(* beside the tasks that are there.                                         *)

LEMMA RunningFinite ==
  ASSUME NEW tsks
  PROVE  IsFiniteSet(Running(tsks)) /\ Cardinality(Running(tsks)) \in Nat
<1>1. Running(tsks) \subseteq Monitors
  BY DEF Running
<1>2. QED
  BY <1>1, SetsAssumption, FS_Subset, FS_CardinalityType

LEMMA LaunchFits ==
  ASSUME NEW ents \in [Monitors -> Entry \cup {None}],
         NEW tsks \in [Monitors -> Task \cup {None}],
         LaunchDue(ents, tsks)
  PROVE  Cardinality(Running(tasks')) <= Concurrency
<1>1. PICK batch \in Batches(ents, tsks) :
        tasks' = [m \in Monitors |->
                    IF m \in batch THEN NewTask(ents[m]) ELSE tsks[m]]
  BY DEF LaunchDue
<1>2. /\ batch \subseteq Monitors
      /\ \A m \in batch : ents[m] \in Entry
      /\ Cardinality(batch) + Cardinality(Running(tsks)) <= Concurrency
  <2>1. IsFiniteSet(batch) /\ Cardinality(batch) \in Nat
    BY SetsAssumption, FS_Subset, FS_CardinalityType DEF Batches, Ready
  <2>2. QED
    BY <2>1, RunningFinite, BoundsAssumption DEF Batches, Ready, Available
<1>3. \A m \in batch : NewTask(ents[m]) # None
  <2>1. \A m \in batch : NewTask(ents[m]) \in Task
    BY <1>2 DEF NewTask, Task, Entry
  <2>2. QED
    BY <2>1, NoneAssumption
<1>4. Running(tasks') = Running(tsks) \cup batch
  BY <1>1, <1>2, <1>3 DEF Running
<1>5. IsFiniteSet(batch) /\ Cardinality(batch) \in Nat
  BY <1>2, SetsAssumption, FS_Subset, FS_CardinalityType
<1>6. /\ Cardinality(Running(tsks) \cup batch)
           = Cardinality(Running(tsks)) + Cardinality(batch)
               - Cardinality(Running(tsks) \cap batch)
      /\ Cardinality(Running(tsks) \cap batch) \in Nat
  BY <1>5, RunningFinite, FS_Union, FS_Intersection, FS_CardinalityType
<1>7. QED
  BY <1>2, <1>4, <1>5, <1>6, RunningFinite, BoundsAssumption

LEMMA FewerRunning ==
  ASSUME WithinCapacity, Running(tasks') \subseteq Running(tasks)
  PROVE  WithinCapacity'
<1>1. Cardinality(Running(tasks')) <= Cardinality(Running(tasks))
  BY RunningFinite, FS_Subset
<1>2. QED
  BY <1>1, RunningFinite, BoundsAssumption DEF WithinCapacity

LEMMA SyncedRunning ==
  ASSUME TypeOK, NEW snap
  PROVE  Running(SyncedTasks(snap)) \subseteq Running(tasks)
BY DEF Running, SyncedTasks

LEMMA FinishRunning ==
  ASSUME TypeOK, NEW m \in Monitors, NEW outcome, Finish(m, outcome)
  PROVE  Running(tasks') \subseteq Running(tasks)
BY DEF TypeOK, Running, Finish

LEMMA CapacityStep == TypeOK /\ WithinCapacity /\ [Next]_vars => WithinCapacity'
<1> SUFFICES ASSUME TypeOK, WithinCapacity, [Next]_vars PROVE WithinCapacity'
  OBVIOUS
<1>1. CASE Stop \/ Stopped \/ Crash
  BY <1>1, FewerRunning DEF Stop, Stopped, Crash, NoTasks, Running
<1>2. ASSUME NEW c \in Requests, Refresh(c) PROVE WithinCapacity'
  BY <1>2, SyncedRunning, FewerRunning DEF Refresh, Synced
<1>3. ASSUME NEW c \in Requests, RunNow(c) PROVE WithinCapacity'
  BY <1>3, SyncedRunning, FewerRunning DEF RunNow, Synced
<1>4. CASE Reconcile
  <2>1. calls[Loop].snap \in Snapshot
    BY DEF TypeOK, Call, Callers
  <2>2. CASE status = "starting"
    BY <1>4, <2>2, SyncedRunning, FewerRunning DEF Reconcile, Synced
  <2>3. CASE status # "starting"
    BY <1>4, <2>1, <2>3, SyncedType, LaunchFits DEF Reconcile, WithinCapacity
  <2>4. QED
    BY <2>2, <2>3
<1>5. CASE ReconcileFails \/ Pass
  BY <1>5, LaunchFits, FewerRunning
  DEF ReconcileFails, Pass, TypeOK, WithinCapacity
<1>6. ASSUME NEW m \in Monitors, StartTask(m) \/ NeverStarts(m)
      PROVE  WithinCapacity'
  <2>1. Running(tasks') \subseteq Running(tasks)
    BY <1>6 DEF StartTask, NeverStarts, TypeOK, Running
  <2>2. QED
    BY <2>1, FewerRunning
<1>7. ASSUME NEW m \in Monitors, Checked(m) \/ SaveReturns(m) \/ Cancelled(m)
      PROVE  WithinCapacity'
  <2>1. Running(tasks') \subseteq Running(tasks)
    BY <1>7, FinishRunning
    DEF Checked, SaveReturns, Cancelled, TypeOK, Running
  <2>2. QED
    BY <2>1, FewerRunning
<1>8. CASE UNCHANGED tasks
  BY <1>8 DEF WithinCapacity
<1>9. QED
  BY <1>1, <1>2, <1>3, <1>4, <1>5, <1>6, <1>7, <1>8
  DEF Next, vars, scheduler, Start, CreateMonitor, PatchMonitor, DeleteMonitor,
      Edit, RequestRun, LoadEnabledMonitors, LoadFails, GetManualRun,
      ReconcileDue, BecomesDue, Verify, Lookup, Write, SaveFails

(* The scheduler never has more executions than its concurrency.            *)
THEOREM Capacity == Spec => []WithinCapacity
<1>1. Init => WithinCapacity
  <2>1. ASSUME Init PROVE Running(tasks) = {}
    BY <2>1 DEF Init, NoTasks, Running
  <2>2. QED
    BY <2>1, FS_EmptySet, BoundsAssumption DEF WithinCapacity
<1>2. QED
  BY <1>1, TypeCorrect, CapacityStep, PTL DEF Spec

-----------------------------------------------------------------------------
(* Receipts: settling and pruning add none, and run_now adds one only below *)
(* the limit.                                                               *)

LEMMA HeldFinite ==
  ASSUME NEW recs
  PROVE  IsFiniteSet(Held(recs)) /\ Cardinality(Held(recs)) \in Nat
<1>1. Held(recs) \subseteq Runs
  BY DEF Held
<1>2. QED
  BY <1>1, SetsAssumption, FS_Subset, FS_CardinalityType

LEMMA SettleHolds ==
  ASSUME NEW recs, NEW settled, NEW outcome
  PROVE  Held(Settle(recs, settled, outcome)) \subseteq Held(recs)
<1>1. "queued" # None
  BY NoneAssumption DEF Receipt
<1>2. QED
  BY <1>1 DEF Held, Settle

LEMMA PrunedHolds ==
  ASSUME NEW recs, NEW gone
  PROVE  Held(Pruned(recs, gone)) \subseteq Held(recs)
BY DEF Held, Pruned

LEMMA FewerHeld ==
  ASSUME ReceiptsBounded, Held(manualRuns') \subseteq Held(manualRuns)
  PROVE  ReceiptsBounded'
<1>1. Cardinality(Held(manualRuns')) <= Cardinality(Held(manualRuns))
  BY HeldFinite, FS_Subset
<1>2. QED
  BY <1>1, HeldFinite, BoundsAssumption DEF ReceiptsBounded

LEMMA AcceptRunBounded ==
  ASSUME TypeOK, ReceiptsBounded, NEW m, NEW ents,
         NEW recs \in [Runs -> Receipt \cup {None}],
         Held(recs) \subseteq Held(manualRuns), AcceptRun(m, ents, recs)
  PROVE  ReceiptsBounded'
<1>1. PICK gone \in Prunable(recs, 1) :
        \/ manualRuns' = Pruned(recs, gone)
        \/ /\ ~Full(Pruned(recs, gone))
           /\ \E r \in NewRuns :
                manualRuns' = [Pruned(recs, gone) EXCEPT ![r] = "queued"]
  BY DEF AcceptRun
<1>2. CASE manualRuns' = Pruned(recs, gone)
  BY <1>2, PrunedHolds, FewerHeld
<1>3. ASSUME NEW r \in NewRuns,
             ~Full(Pruned(recs, gone)),
             manualRuns' = [Pruned(recs, gone) EXCEPT ![r] = "queued"]
      PROVE  ReceiptsBounded'
  <2> DEFINE kept == Held(Pruned(recs, gone))
  <2>1. Held(manualRuns') \subseteq kept \cup {r}
    BY <1>3 DEF Held, Pruned
  <2>2. /\ IsFiniteSet(kept \cup {r})
        /\ Cardinality(kept \cup {r}) <= Cardinality(kept) + 1
    <3>1. IsFiniteSet(kept) /\ Cardinality(kept) \in Nat
      BY HeldFinite
    <3>2. /\ IsFiniteSet(kept \cup {r})
          /\ Cardinality(kept \cup {r})
               = IF r \in kept THEN Cardinality(kept) ELSE Cardinality(kept) + 1
      BY <3>1, FS_AddElement
    <3>3. QED
      BY <3>1, <3>2
  <2>3. Cardinality(Held(manualRuns')) <= Cardinality(kept \cup {r})
    BY <2>1, <2>2, FS_Subset
  <2>4. Cardinality(kept) + 1 <= ReceiptLimit
    BY <1>3, HeldFinite, BoundsAssumption DEF Full
  <2>5. QED
    BY <2>2, <2>3, <2>4, HeldFinite, FS_CardinalityType, BoundsAssumption
    DEF ReceiptsBounded
<1>4. QED
  BY <1>1, <1>2, <1>3

LEMMA ReceiptsStep == TypeOK /\ ReceiptsBounded /\ [Next]_vars => ReceiptsBounded'
<1> SUFFICES ASSUME TypeOK, ReceiptsBounded, [Next]_vars PROVE ReceiptsBounded'
  OBVIOUS
<1>1. \A snap : Held(SyncedRuns(snap)) \subseteq Held(manualRuns)
  BY SettleHolds DEF SyncedRuns
<1>2. CASE Stopped
  BY <1>2, SettleHolds, FewerHeld DEF Stopped
<1>3. CASE Crash
  BY <1>3, FewerHeld DEF Crash, Held
<1>4. ASSUME NEW c \in Requests, Refresh(c) PROVE ReceiptsBounded'
  BY <1>1, <1>4, FewerHeld DEF Refresh, Synced
<1>5. ASSUME NEW c \in Requests, RunNow(c) PROVE ReceiptsBounded'
  <2>1. SyncedRuns(calls[c].snap) \in [Runs -> Receipt \cup {None}]
    BY SyncedType DEF TypeOK, Call, Callers
  <2>2. QED
    BY <1>1, <1>5, <2>1, AcceptRunBounded, FewerHeld DEF RunNow, Synced
<1>6. ASSUME NEW r \in Runs, GetManualRun(r) PROVE ReceiptsBounded'
  <2>1. PICK gone : manualRuns' = IF isHealthy THEN Pruned(manualRuns, gone)
                    ELSE Settle(Pruned(manualRuns, gone), {r}, "unavailable")
    BY <1>6 DEF GetManualRun
  <2>2. Held(manualRuns') \subseteq Held(manualRuns)
    BY <2>1, PrunedHolds, SettleHolds
  <2>3. QED
    BY <2>2, FewerHeld
<1>7. CASE Reconcile
  BY <1>1, <1>7, FewerHeld DEF Reconcile, Synced
<1>8. ASSUME NEW m \in Monitors, Checked(m) \/ SaveReturns(m) \/ Cancelled(m)
      PROVE  ReceiptsBounded'
  <2>1. Held(manualRuns') \subseteq Held(manualRuns)
    BY <1>8, SettleHolds DEF Checked, SaveReturns, Cancelled, Finish
  <2>2. QED
    BY <2>1, FewerHeld
<1>9. CASE UNCHANGED manualRuns
  BY <1>9 DEF ReceiptsBounded
<1>10. QED
  BY <1>2, <1>3, <1>4, <1>5, <1>6, <1>7, <1>8, <1>9
  DEF Next, vars, scheduler, Start, Stop, CreateMonitor, PatchMonitor,
      DeleteMonitor, Edit, RequestRun, LoadEnabledMonitors, LoadFails,
      ReconcileDue, ReconcileFails, Pass, BecomesDue, StartTask, NeverStarts,
      Verify, Lookup, Write, SaveFails

(* The receipts in memory never exceed their limit.                         *)
THEOREM Receipts == Spec => []ReceiptsBounded
<1>1. Init => ReceiptsBounded
  <2>1. ASSUME Init PROVE Held(manualRuns) = {}
    BY <2>1 DEF Init, Held
  <2>2. QED
    BY <2>1, FS_EmptySet, BoundsAssumption DEF ReceiptsBounded
<1>2. QED
  BY <1>1, TypeCorrect, ReceiptsStep, PTL DEF Spec

-----------------------------------------------------------------------------
(* Currency: a reconciliation that replaces or removes an entry cancels the *)
(* task of its monitor in the same step, so an uncancelled task is of the   *)
(* entry as it stands.                                                      *)

LEMMA SyncedCurrent ==
  ASSUME TypeOK, UncancelledIsCurrent, NEW snap \in Snapshot,
         NEW m \in Monitors, SyncedTasks(snap)[m] # None,
         ~SyncedTasks(snap)[m].cancel
  PROVE  /\ SyncedEntries(snap)[m] = entries[m] /\ entries[m] # None
         /\ SyncedTasks(snap)[m] = tasks[m]
         /\ entries[m].gen = tasks[m].gen /\ entries[m].check = tasks[m].check
<1>1. tasks[m] # None /\ tasks[m] \in Task
  BY DEF SyncedTasks, TypeOK
<1>2. m \notin Superseded(snap) /\ SyncedTasks(snap)[m] = tasks[m]
  BY <1>1 DEF SyncedTasks, Task
<1>3. /\ entries[m] # None
      /\ entries[m].gen = tasks[m].gen /\ entries[m].check = tasks[m].check
  BY <1>1, <1>2 DEF UncancelledIsCurrent
<1>4. snap[m] = entries[m].check /\ snap[m] # None
  BY <1>2, <1>3, NoneAssumption DEF Superseded, TypeOK, Entry
<1>5. QED
  BY <1>2, <1>3, <1>4 DEF SyncedEntries

LEMMA SyncIsCurrent ==
  ASSUME TypeOK, UncancelledIsCurrent, NEW snap \in Snapshot,
         entries' = SyncedEntries(snap), tasks' = SyncedTasks(snap)
  PROVE  UncancelledIsCurrent'
BY SyncedCurrent DEF UncancelledIsCurrent

(* The tasks a pass launches are copies of their entries.                   *)
LEMMA LaunchIsCurrent ==
  ASSUME NEW ents \in [Monitors -> Entry \cup {None}],
         NEW tsks \in [Monitors -> Task \cup {None}],
         \A m \in Monitors : tsks[m] # None /\ ~tsks[m].cancel =>
           /\ ents[m] # None
           /\ ents[m].gen = tsks[m].gen /\ ents[m].check = tsks[m].check,
         LaunchDue(ents, tsks)
  PROVE  UncancelledIsCurrent'
<1>1. PICK batch \in Batches(ents, tsks) :
        /\ entries' = [m \in Monitors |->
                     IF m \in batch
                     THEN [ents[m] EXCEPT !.due = FALSE, !.manual = None,
                                          !.fresh = FALSE]
                     ELSE ents[m]]
        /\ tasks' = [m \in Monitors |->
                   IF m \in batch THEN NewTask(ents[m]) ELSE tsks[m]]
  BY DEF LaunchDue
<1>2. ASSUME NEW m \in batch
      PROVE  /\ entries'[m] # None
             /\ entries'[m].gen = tasks'[m].gen
             /\ entries'[m].check = tasks'[m].check
  <2>1. m \in Monitors /\ ents[m] \in Entry
    BY DEF Batches, Ready
  <2>2. entries'[m] \in Entry
    BY <1>1, <2>1 DEF Entry
  <2>3. entries'[m].gen = ents[m].gen /\ entries'[m].check = ents[m].check
    BY <1>1, <2>1 DEF Entry
  <2>4. tasks'[m].gen = ents[m].gen /\ tasks'[m].check = ents[m].check
    BY <1>1, <2>1 DEF NewTask
  <2>5. QED
    BY <2>2, <2>3, <2>4, NoneAssumption
<1>3. QED
  BY <1>1, <1>2 DEF UncancelledIsCurrent

LEMMA FinishIsCurrent ==
  ASSUME TypeOK, UncancelledIsCurrent, NEW m \in Monitors, tasks[m] # None,
         NEW outcome, Finish(m, outcome)
  PROVE  UncancelledIsCurrent'
<1>1. SUFFICES ASSUME NEW n \in Monitors, tasks'[n] # None, ~tasks'[n].cancel
               PROVE  /\ entries'[n] # None
                      /\ entries'[n].gen = tasks'[n].gen
                      /\ entries'[n].check = tasks'[n].check
  BY DEF UncancelledIsCurrent
<1>2. n # m /\ tasks'[n] = tasks[n]
  BY <1>1 DEF Finish, TypeOK
<1>3. entries'[n] = entries[n]
  BY <1>2 DEF Finish, TypeOK
<1>4. QED
  BY <1>1, <1>2, <1>3 DEF UncancelledIsCurrent

LEMMA CurrentStep ==
  TypeOK /\ UncancelledIsCurrent /\ [Next]_vars => UncancelledIsCurrent'
<1> SUFFICES ASSUME TypeOK, UncancelledIsCurrent, [Next]_vars
             PROVE  UncancelledIsCurrent'
  OBVIOUS
<1>1. \A c \in Callers : calls[c].snap \in Snapshot
  BY DEF TypeOK, Call
<1>2. CASE Stop
  <2>1. \A m \in Monitors : tasks'[m] # None => tasks'[m].cancel
    BY <1>2 DEF Stop, TypeOK, Task
  <2>2. QED
    BY <2>1 DEF UncancelledIsCurrent
<1>3. CASE Stopped \/ Crash
  BY <1>3 DEF Stopped, Crash, NoTasks, UncancelledIsCurrent
<1>4. ASSUME NEW c \in Requests, Refresh(c) PROVE UncancelledIsCurrent'
  BY <1>1, <1>4, SyncIsCurrent DEF Refresh, Synced, Callers
<1>5. ASSUME NEW c \in Requests, RunNow(c) PROVE UncancelledIsCurrent'
  <2> DEFINE snap == calls[c].snap
             k == calls[c].mon
  <2>1. snap \in Snapshot /\ k \in Monitors
    BY <1>5 DEF TypeOK, Call, Callers, RunNow
  <2>2. CASE isHealthy /\ snap[k] # None
    <3>1. \/ entries' = SyncedEntries(snap)
          \/ \E r \in Runs :
               entries' = [SyncedEntries(snap) EXCEPT ![k].manual = r]
      BY <1>5, <2>2 DEF RunNow, AcceptRun, NewRuns
    <3>2. SyncedEntries(snap) \in [Monitors -> Entry \cup {None}]
      BY <2>1, SyncedType
    <3>3. SyncedEntries(snap)[k] \in Entry
      BY <2>1, <2>2, <3>2, SyncedPresent
    <3>4. \A m \in Monitors :
            /\ entries'[m] = None <=> SyncedEntries(snap)[m] = None
            /\ entries'[m].gen = SyncedEntries(snap)[m].gen
            /\ entries'[m].check = SyncedEntries(snap)[m].check
      <4>1. \A r \in Runs :
              LET e == [SyncedEntries(snap)[k] EXCEPT !.manual = r]
              IN /\ e \in Entry /\ e.gen = SyncedEntries(snap)[k].gen
                 /\ e.check = SyncedEntries(snap)[k].check
        BY <3>3 DEF Entry
      <4>2. \A m \in Monitors : m # k => entries'[m] = SyncedEntries(snap)[m]
        BY <2>1, <3>1, <3>2
      <4>3. /\ entries'[k] \in Entry
            /\ entries'[k].gen = SyncedEntries(snap)[k].gen
            /\ entries'[k].check = SyncedEntries(snap)[k].check
        BY <2>1, <3>1, <3>2, <3>3, <4>1
      <4>4. QED
        BY <3>3, <4>2, <4>3, NoneAssumption
    <3>5. tasks' = SyncedTasks(snap)
      BY <1>5, <2>2 DEF RunNow
    <3>6. QED
      BY <2>1, <3>4, <3>5, SyncedCurrent DEF UncancelledIsCurrent
  <2>3. CASE ~(isHealthy /\ snap[k] # None)
    BY <1>5, <2>1, <2>3, SyncIsCurrent DEF RunNow, Synced
  <2>4. QED
    BY <2>2, <2>3
<1>6. CASE Reconcile
  <2> DEFINE snap == calls[Loop].snap
  <2>1. snap \in Snapshot
    BY <1>1 DEF Callers
  <2>2. CASE status = "starting"
    BY <1>6, <2>1, <2>2, SyncIsCurrent DEF Reconcile, Synced
  <2>3. CASE status # "starting"
    BY <1>6, <2>1, <2>3, SyncedType, SyncedCurrent, LaunchIsCurrent DEF Reconcile
  <2>4. QED
    BY <2>2, <2>3
<1>7. CASE ReconcileFails \/ Pass
  BY <1>7, LaunchIsCurrent
  DEF ReconcileFails, Pass, TypeOK, UncancelledIsCurrent
<1>8. ASSUME NEW m \in Monitors, BecomesDue(m) PROVE UncancelledIsCurrent'
  <2>1. entries[m] \in Entry
    BY <1>8 DEF BecomesDue, TypeOK
  <2>2. /\ [entries[m] EXCEPT !.due = TRUE] \in Entry
        /\ [entries[m] EXCEPT !.due = TRUE].gen = entries[m].gen
        /\ [entries[m] EXCEPT !.due = TRUE].check = entries[m].check
    BY <2>1 DEF Entry
  <2>3. /\ entries'[m] = [entries[m] EXCEPT !.due = TRUE]
        /\ \A n \in Monitors : n # m => entries'[n] = entries[n]
        /\ tasks' = tasks
    BY <1>8 DEF BecomesDue, TypeOK
  <2>4. QED
    BY <2>2, <2>3, NoneAssumption DEF UncancelledIsCurrent
<1>9. ASSUME NEW m \in Monitors, StartTask(m) \/ NeverStarts(m)
      PROVE  UncancelledIsCurrent'
  BY <1>9 DEF StartTask, NeverStarts, TypeOK, Task, UncancelledIsCurrent
<1>10. ASSUME NEW m \in Monitors, Checked(m) \/ SaveReturns(m) \/ Cancelled(m)
       PROVE  UncancelledIsCurrent'
  <2>1. tasks[m] # None
    BY <1>10 DEF Checked, SaveReturns, Cancelled
  <2>2. CASE \E outcome : Finish(m, outcome)
    BY <2>1, <2>2, FinishIsCurrent
  <2>3. CASE /\ UNCHANGED entries
             /\ \E s \in Saves :
                  tasks' = [tasks EXCEPT ![m].phase = "saving", ![m].save = s]
    BY <2>1, <2>3 DEF TypeOK, Task, UncancelledIsCurrent
  <2>4. QED
    BY <1>10, <2>2, <2>3 DEF Checked, SaveReturns, Cancelled
<1>11. CASE UNCHANGED <<entries, tasks>>
  BY <1>11 DEF UncancelledIsCurrent
<1>12. QED
  BY <1>2, <1>3, <1>4, <1>5, <1>6, <1>7, <1>8, <1>9, <1>10, <1>11
  DEF Next, vars, scheduler, Start, CreateMonitor, PatchMonitor, DeleteMonitor,
      Edit, RequestRun, LoadEnabledMonitors, LoadFails, GetManualRun,
      ReconcileDue, Verify, Lookup, Write, SaveFails

(* An uncancelled execution is always of the entry in force.                *)
THEOREM Currency == Spec => []UncancelledIsCurrent
<1>1. Init => UncancelledIsCurrent
  BY DEF Init, NoTasks, UncancelledIsCurrent
<1>2. QED
  BY <1>1, TypeCorrect, CurrentStep, PTL DEF Spec

-----------------------------------------------------------------------------
(* Completion: only the return of a save completes a receipt, and only of a *)
(* task that was not cancelled, which by Currency is of the entry in force. *)

CompletesCurrent ==
  \A r \in Runs :
    manualRuns[r] = "queued" /\ manualRuns'[r] = "completed" =>
      \E m \in Executors(r) :
        entries[m] # None /\ entries[m].check = tasks[m].check

LEMMA UnavailableOnly ==
  ASSUME NEW recs, NEW settled, NEW gone, NEW r \in Runs, recs[r] # "completed"
  PROVE  /\ Settle(recs, settled, "unavailable")[r] # "completed"
         /\ Pruned(recs, gone)[r] # "completed"
BY NoneAssumption DEF Settle, Pruned, Receipt

(* No step but the return of a save makes a receipt completed.              *)
LEMMA OnlySavesComplete ==
  ASSUME TypeOK, [Next]_vars, NEW r \in Runs,
         manualRuns[r] # "completed", manualRuns'[r] = "completed"
  PROVE  \E m \in Monitors : SaveReturns(m)
<1>1. \A snap : SyncedRuns(snap)[r] # "completed"
  BY UnavailableOnly DEF SyncedRuns
<1>2. ~Stopped /\ ~Crash
  BY UnavailableOnly, NoneAssumption DEF Stopped, Crash, Receipt
<1>3. \A c \in Callers : ~Refresh(c) /\ ~Reconcile
  BY <1>1 DEF Refresh, Reconcile, Synced
<1>4. ASSUME NEW c \in Requests PROVE ~RunNow(c)
  <2>1. \A gone : Pruned(SyncedRuns(calls[c].snap), gone)[r] # "completed"
    BY <1>1, UnavailableOnly
  <2>2. \A gone, n : [Pruned(SyncedRuns(calls[c].snap), gone)
                        EXCEPT ![n] = "queued"][r] # "completed"
    BY <2>1 DEF Pruned
  <2>3. ASSUME NEW m, NEW ents, AcceptRun(m, ents, SyncedRuns(calls[c].snap))
        PROVE  FALSE
    <3>1. PICK gone : \/ manualRuns' = Pruned(SyncedRuns(calls[c].snap), gone)
                      \/ \E n : manualRuns' =
                           [Pruned(SyncedRuns(calls[c].snap), gone)
                              EXCEPT ![n] = "queued"]
      BY <2>3 DEF AcceptRun
    <3>2. QED
      BY <2>1, <2>2, <3>1
  <2>4. QED
    BY <1>1, <2>3 DEF RunNow, Synced
<1>5. ASSUME NEW n \in Runs PROVE ~GetManualRun(n)
  BY UnavailableOnly DEF GetManualRun
<1>6. \A m \in Monitors : ~Finish(m, "unavailable")
  BY UnavailableOnly DEF Finish
<1>7. QED
  BY <1>2, <1>3, <1>4, <1>5, <1>6
  DEF Next, vars, scheduler, Start, Stop, CreateMonitor, PatchMonitor,
      DeleteMonitor, Edit, RequestRun, LoadEnabledMonitors, LoadFails,
      ReconcileDue, ReconcileFails, Pass, BecomesDue, StartTask, NeverStarts,
      Checked, Cancelled, Verify, Lookup, Write, SaveFails, Callers

LEMMA CompletionStep ==
  TypeOK /\ UncancelledIsCurrent /\ [Next]_vars => CompletesCurrent
<1> SUFFICES ASSUME TypeOK, UncancelledIsCurrent, [Next]_vars,
                    NEW r \in Runs,
                    manualRuns[r] = "queued", manualRuns'[r] = "completed"
             PROVE  \E m \in Executors(r) :
                      entries[m] # None /\ entries[m].check = tasks[m].check
  BY DEF CompletesCurrent
<1>1. PICK m \in Monitors : SaveReturns(m)
  BY OnlySavesComplete
<1>2. m \in Executors(r)
  BY <1>1 DEF SaveReturns, Finish, Settle, Executors
<1>3. entries[m] # None /\ entries[m].check = tasks[m].check
  BY <1>1 DEF SaveReturns, UncancelledIsCurrent
<1>4. QED
  BY <1>2, <1>3

(* A receipt is completed only while its monitor's checked settings are     *)
(* those of the entry.                                                      *)
THEOREM Completion == Spec => CompletedWhileCurrent
<1>1. TypeOK /\ UncancelledIsCurrent /\ [Next]_vars => [CompletesCurrent]_vars
  BY CompletionStep
<1>2. QED
  BY <1>1, TypeCorrect, Currency, PTL
  DEF Spec, CompletedWhileCurrent, CompletesCurrent

-----------------------------------------------------------------------------
(* Ownership: a run id is in at most one hand, queued or not, and a queued   *)
(* receipt is in one.                                                       *)

Holds(ents, m, r) == ents[m] # None /\ ents[m].manual = r
Carries(tsks, m, r) == tsks[m] # None /\ tsks[m].run = r

OneHand(ents, tsks) ==
  \A r \in Runs, m, n \in Monitors :
    /\ Holds(ents, m, r) /\ Holds(ents, n, r) => m = n
    /\ Carries(tsks, m, r) /\ Carries(tsks, n, r) => m = n
    /\ ~(Holds(ents, m, r) /\ Carries(tsks, n, r))
InHand(ents, tsks, recs) ==
  \A r \in Runs : recs[r] = "queued" =>
    \E m \in Monitors : Holds(ents, m, r) \/ Carries(tsks, m, r)
Owned(ents, tsks, recs) == OneHand(ents, tsks) /\ InHand(ents, tsks, recs)

(* What an entry holds is queued. *)
Pending(ents, recs) ==
  \A m \in Monitors, r \in Runs : Holds(ents, m, r) => recs[r] = "queued"

(* While the scheduler is not running it launches nothing, and before it     *)
(* runs nothing is in hand.                                                 *)
IdleOutside ==
  /\ status \in {"stopped", "stopping"} => calls[Loop].phase = "idle"
  /\ status \in {"stopped", "starting"} =>
       \A m \in Monitors :
         tasks[m] = None /\ \A r \in Runs : ~Holds(entries, m, r)

(* The inductive invariant of the receipts. *)
OwnershipInv ==
  /\ Owned(entries, tasks, manualRuns)
  /\ isHealthy => Pending(entries, manualRuns)
  /\ IdleOutside

(* A reconciliation takes a receipt out of a hand only to settle it.         *)
LEMMA SyncedHands ==
  ASSUME TypeOK, NEW snap \in Snapshot, NEW m \in Monitors, NEW r \in Runs
  PROVE  /\ Holds(SyncedEntries(snap), m, r) <=>
              Holds(entries, m, r) /\ m \notin Superseded(snap)
         /\ Carries(SyncedTasks(snap), m, r) <=> Carries(tasks, m, r)
         /\ SyncedTasks(snap)[m] = None <=> tasks[m] = None
<1>1. /\ snap[m] \in Configs \cup {None} /\ entries[m] \in Entry \cup {None}
      /\ tasks[m] \in Task \cup {None} /\ None \notin Runs /\ None \notin Configs
      /\ None \notin Task /\ None \notin Entry
  BY NoneAssumption DEF TypeOK, Snapshot
<1>2. \A gen : NewEntry(snap[m], gen).manual = None
  BY DEF NewEntry
<1>3. Holds(entries, m, r) /\ snap[m] = None => m \in Superseded(snap)
  BY <1>1, NoneAssumption DEF Holds, Superseded, Entry
<1>4. Holds(SyncedEntries(snap), m, r) <=>
        Holds(entries, m, r) /\ m \notin Superseded(snap)
  <2>1. CASE snap[m] = None
    BY <1>1, <1>3, <2>1 DEF SyncedEntries, Holds
  <2>2. CASE snap[m] # None /\ entries[m] = None
    BY <1>1, <1>2, <2>2 DEF SyncedEntries, Holds
  <2>3. CASE snap[m] # None /\ entries[m] # None /\ m \in Superseded(snap)
    BY <1>1, <1>2, <2>3 DEF SyncedEntries, Holds
  <2>4. CASE snap[m] # None /\ entries[m] # None /\ m \notin Superseded(snap)
    BY <1>1, <2>4 DEF SyncedEntries, Holds
  <2>5. QED BY <2>1, <2>2, <2>3, <2>4
<1>5. /\ Carries(SyncedTasks(snap), m, r) <=> Carries(tasks, m, r)
      /\ SyncedTasks(snap)[m] = None <=> tasks[m] = None
  <2>1. CASE tasks[m] = None
    BY <2>1 DEF SyncedTasks, Carries
  <2>2. CASE tasks[m] # None
    <3>1. /\ [tasks[m] EXCEPT !.cancel = TRUE] \in Task
          /\ [tasks[m] EXCEPT !.cancel = TRUE].run = tasks[m].run
      BY <1>1, <2>2 DEF Task
    <3>2. QED
      BY <1>1, <2>2, <3>1 DEF SyncedTasks, Carries
  <2>3. QED BY <2>1, <2>2
<1>6. QED
  BY <1>4, <1>5

LEMMA SettledQueue ==
  ASSUME NEW recs \in [Runs -> Receipt \cup {None}], NEW settled, NEW r \in Runs,
         NEW outcome \in {"completed", "unavailable"}
  PROVE  Settle(recs, settled, outcome)[r] = "queued"
           <=> recs[r] = "queued" /\ r \notin settled
BY DEF Settle

LEMMA SyncedOwned ==
  ASSUME TypeOK, NEW snap \in Snapshot, Owned(entries, tasks, manualRuns)
  PROVE  /\ Owned(SyncedEntries(snap), SyncedTasks(snap), SyncedRuns(snap))
         /\ Pending(entries, manualRuns) =>
              Pending(SyncedEntries(snap), SyncedRuns(snap))
<1>1. OneHand(SyncedEntries(snap), SyncedTasks(snap))
  BY SyncedHands DEF Owned, OneHand
<1>2. ASSUME NEW r \in Runs
      PROVE  SyncedRuns(snap)[r] = "queued" <=>
               /\ manualRuns[r] = "queued"
               /\ \A m \in Monitors : Holds(entries, m, r) => m \notin Superseded(snap)
  BY SettledQueue DEF SyncedRuns, Superseded, Holds, TypeOK
<1>3. InHand(SyncedEntries(snap), SyncedTasks(snap), SyncedRuns(snap))
  BY <1>2, SyncedHands DEF Owned, InHand
<1>4. ASSUME Pending(entries, manualRuns)
      PROVE  Pending(SyncedEntries(snap), SyncedRuns(snap))
  <2> SUFFICES ASSUME NEW m \in Monitors, NEW r \in Runs,
                      Holds(SyncedEntries(snap), m, r)
               PROVE  SyncedRuns(snap)[r] = "queued"
    BY DEF Pending
  <2>1. Holds(entries, m, r) /\ m \notin Superseded(snap)
    BY SyncedHands
  <2>2. \A n \in Monitors : Holds(entries, n, r) => n = m
    BY <2>1 DEF Owned, OneHand
  <2>3. QED
    BY <1>2, <1>4, <2>1, <2>2 DEF Pending
<1>5. QED
  BY <1>1, <1>3, <1>4 DEF Owned

(* A launch moves a receipt from the entry to the task.                     *)
LEMMA LaunchOwned ==
  ASSUME NEW ents \in [Monitors -> Entry \cup {None}],
         NEW tsks \in [Monitors -> Task \cup {None}], NEW recs,
         LaunchDue(ents, tsks), Owned(ents, tsks, recs), Pending(ents, recs)
  PROVE  Owned(entries', tasks', recs) /\ Pending(entries', recs)
<1>1. PICK batch \in Batches(ents, tsks) :
        /\ entries' = [m \in Monitors |->
                     IF m \in batch
                     THEN [ents[m] EXCEPT !.due = FALSE, !.manual = None,
                                          !.fresh = FALSE]
                     ELSE ents[m]]
        /\ tasks' = [m \in Monitors |->
                   IF m \in batch THEN NewTask(ents[m]) ELSE tsks[m]]
  BY DEF LaunchDue
<1>2. \A m \in batch : m \in Monitors /\ tsks[m] = None /\ ents[m] \in Entry
  BY DEF Batches, Ready
<1>3. ASSUME NEW m \in Monitors, NEW r \in Runs
      PROVE  /\ Holds(entries', m, r) <=> Holds(ents, m, r) /\ m \notin batch
             /\ Carries(tasks', m, r) <=>
                  IF m \in batch THEN Holds(ents, m, r) ELSE Carries(tsks, m, r)
  <2>1. CASE m \in batch
    <3>1. ents[m] # None /\ entries'[m].manual = None
      BY <1>1, <1>2, <2>1, NoneAssumption DEF Entry
    <3>2. NewTask(ents[m]) \in Task /\ tasks'[m] = NewTask(ents[m])
          /\ NewTask(ents[m]).run = ents[m].manual
      BY <1>1, <1>2, <2>1 DEF Entry, Task, NewTask
    <3>3. QED
      BY <2>1, <3>1, <3>2, NoneAssumption DEF Holds, Carries
  <2>2. CASE m \notin batch
    BY <1>1, <2>2 DEF Holds, Carries
  <2>3. QED BY <2>1, <2>2
<1>4. \A m \in Monitors, r \in Runs : m \in batch => ~Carries(tsks, m, r)
  BY <1>2 DEF Carries
<1>5. OneHand(entries', tasks')
  BY <1>3, <1>4 DEF Owned, OneHand
<1>6. InHand(entries', tasks', recs)
  <2> SUFFICES ASSUME NEW r \in Runs, recs[r] = "queued"
               PROVE  \E m \in Monitors : Holds(entries', m, r) \/ Carries(tasks', m, r)
    BY DEF InHand
  <2>1. PICK m \in Monitors : Holds(ents, m, r) \/ Carries(tsks, m, r)
    BY DEF Owned, InHand
  <2>2. QED
    BY <1>3, <1>4, <2>1
<1>7. Pending(entries', recs)
  BY <1>3 DEF Pending
<1>8. QED
  BY <1>5, <1>6, <1>7 DEF Owned

(* The end of an execution settles what it carries.                         *)
LEMMA FinishOwned ==
  ASSUME TypeOK, NEW m \in Monitors, tasks[m] # None,
         NEW outcome \in {"completed", "unavailable"}, Finish(m, outcome),
         Owned(entries, tasks, manualRuns)
  PROVE  /\ Owned(entries, tasks, manualRuns)'
         /\ Pending(entries, manualRuns) => Pending(entries, manualRuns)'
<1>1. ASSUME NEW n \in Monitors, NEW r \in Runs
      PROVE  /\ Holds(entries', n, r) <=> Holds(entries, n, r)
             /\ Carries(tasks', n, r) <=> Carries(tasks, n, r) /\ n # m
  <2>1. Carries(tasks', n, r) <=> Carries(tasks, n, r) /\ n # m
    BY DEF Finish, TypeOK, Carries
  <2>2. CASE entries'[n] = entries[n]
    BY <2>1, <2>2 DEF Holds
  <2>3. CASE entries'[n] # entries[n]
    <3>1. /\ entries[n] \in Entry
          /\ entries'[n] = [entries[n] EXCEPT !.due = FALSE]
      BY <2>3 DEF Finish, TypeOK
    <3>2. entries'[n] \in Entry /\ entries'[n].manual = entries[n].manual
      BY <3>1 DEF Entry
    <3>3. QED
      BY <2>1, <3>1, <3>2, NoneAssumption DEF Holds
  <2>4. QED BY <2>2, <2>3
<1>2. ASSUME NEW r \in Runs
      PROVE  manualRuns'[r] = "queued" <=>
               manualRuns[r] = "queued" /\ ~Carries(tasks, m, r)
  BY SettledQueue DEF Finish, TypeOK, Carries
<1>3. OneHand(entries', tasks')
  BY <1>1 DEF Owned, OneHand
<1>4. InHand(entries', tasks', manualRuns')
  BY <1>1, <1>2 DEF Owned, InHand
<1>5. Pending(entries, manualRuns) => Pending(entries', manualRuns')
  BY <1>1, <1>2 DEF Pending, Owned, OneHand
<1>6. QED
  BY <1>3, <1>4, <1>5 DEF Owned

LEMMA QueuedKept ==
  ASSUME NEW recs \in [Runs -> Receipt \cup {None}], NEW reserve,
         NEW gone \in Prunable(recs, reserve), NEW r \in Runs
  PROVE  Pruned(recs, gone)[r] = "queued" <=> recs[r] = "queued"
<1>1. "queued" # None
  BY NoneAssumption DEF Receipt
<1>2. QED
  BY <1>1 DEF Pruned, Prunable, Terminal

(* run_now coalesces onto a pending receipt, which is queued; only when      *)
(* there is none does it put a new one in the entry.                        *)
LEMMA AcceptOwned ==
  ASSUME NEW m \in Monitors,
         NEW ents \in [Monitors -> Entry \cup {None}], ents[m] # None,
         NEW tsks, NEW recs \in [Runs -> Receipt \cup {None}],
         Owned(ents, tsks, recs), Pending(ents, recs),
         \A r \in NewRuns, n \in Monitors :
           ~Holds(ents, n, r) /\ ~Carries(tsks, n, r),
         AcceptRun(m, ents, recs)
  PROVE  Owned(entries', tsks, manualRuns') /\ Pending(entries', manualRuns')
<1>1. PICK gone \in Prunable(recs, 1) :
        \/ /\ entries' = ents
           /\ manualRuns' = Pruned(recs, gone)
        \/ /\ ~(/\ ents[m].manual # None
                /\ Pruned(recs, gone)[ents[m].manual] = "queued")
           /\ \E r \in NewRuns :
                /\ entries' = [ents EXCEPT ![m].manual = r]
                /\ manualRuns' = [Pruned(recs, gone) EXCEPT ![r] = "queued"]
  BY DEF AcceptRun
<1>2. \A q \in Runs : Pruned(recs, gone)[q] = "queued" <=> recs[q] = "queued"
  BY QueuedKept
<1>3. CASE entries' = ents /\ manualRuns' = Pruned(recs, gone)
  BY <1>2, <1>3 DEF Owned, InHand, Pending
<1>4. ASSUME NEW r \in NewRuns,
             ~(/\ ents[m].manual # None
               /\ Pruned(recs, gone)[ents[m].manual] = "queued"),
             entries' = [ents EXCEPT ![m].manual = r],
             manualRuns' = [Pruned(recs, gone) EXCEPT ![r] = "queued"]
      PROVE  Owned(entries', tsks, manualRuns') /\ Pending(entries', manualRuns')
  <2>1. r \in Runs /\ ents[m] \in Entry /\ None \notin Runs
    BY NoneAssumption DEF NewRuns
  <2>2. \A q \in Runs : ~Holds(ents, m, q)
    BY <1>2, <1>4 , <2>1 DEF Holds, Pending
  <2>3. ASSUME NEW n \in Monitors, NEW q \in Runs
        PROVE  Holds(entries', n, q) <=> IF n = m THEN q = r ELSE Holds(ents, n, q)
    <3>1. CASE n = m
      <4>1. entries'[m] \in Entry /\ entries'[m].manual = r
        BY <1>4, <2>1 DEF Entry
      <4>2. QED
        BY <3>1, <4>1, NoneAssumption DEF Holds
    <3>2. CASE n # m
      BY <1>4, <3>2 DEF Holds
    <3>3. QED BY <3>1, <3>2
  <2>4. \A q \in Runs : manualRuns'[q] = "queued" <=> q = r \/ recs[q] = "queued"
    BY <1>2, <1>4, <2>1 DEF Pruned
  <2>5. OneHand(entries', tsks)
    BY <2>2, <2>3 DEF Owned, OneHand
  <2>6. InHand(entries', tsks, manualRuns')
    BY <2>2, <2>3, <2>4 DEF Owned, InHand
  <2>7. Pending(entries', manualRuns')
    BY <2>3, <2>4 DEF Pending
  <2>8. QED
    BY <2>5, <2>6, <2>7 DEF Owned
<1>5. QED
  BY <1>1, <1>3, <1>4

(* A step that takes receipts off the queue, and moves nothing, keeps the    *)
(* ownership.                                                               *)
LEMMA FewerQueued ==
  ASSUME Owned(entries, tasks, manualRuns), entries' = entries, tasks' = tasks,
         \A r \in Runs : manualRuns'[r] = "queued" => manualRuns[r] = "queued"
  PROVE  Owned(entries, tasks, manualRuns)'
<1>1. OneHand(entries', tasks')
  BY DEF Owned
<1>2. InHand(entries', tasks', manualRuns')
  BY DEF Owned, InHand
<1>3. QED
  BY <1>1, <1>2 DEF Owned

(* The same hands, and the same receipts.                                   *)
LEMMA SameHands ==
  ASSUME Owned(entries, tasks, manualRuns), manualRuns' = manualRuns,
         \A m \in Monitors, r \in Runs :
           /\ Holds(entries', m, r) <=> Holds(entries, m, r)
           /\ Carries(tasks', m, r) <=> Carries(tasks, m, r)
  PROVE  /\ Owned(entries, tasks, manualRuns)'
         /\ Pending(entries, manualRuns) => Pending(entries, manualRuns)'
<1>1. OneHand(entries', tasks')
  BY DEF Owned, OneHand
<1>2. InHand(entries', tasks', manualRuns')
  BY DEF Owned, InHand
<1>3. Pending(entries, manualRuns) => Pending(entries', manualRuns')
  BY DEF Pending
<1>4. QED
  BY <1>1, <1>2, <1>3 DEF Owned

LEMMA DueHands ==
  ASSUME TypeOK, NEW m \in Monitors, BecomesDue(m), NEW n \in Monitors, NEW r \in Runs
  PROVE  Holds(entries', n, r) <=> Holds(entries, n, r)
<1>1. CASE n = m
  <2>1. entries[m] \in Entry /\ entries'[m] = [entries[m] EXCEPT !.due = TRUE]
    BY DEF BecomesDue, TypeOK
  <2>2. entries'[m] \in Entry /\ entries'[m].manual = entries[m].manual
    BY <2>1 DEF Entry
  <2>3. QED
    BY <1>1, <2>1, <2>2, NoneAssumption DEF Holds
<1>2. CASE n # m
  BY <1>2 DEF BecomesDue, TypeOK, Holds
<1>3. QED
  BY <1>1, <1>2

LEMMA IdleStep == TypeOK /\ IdleOutside /\ [Next]_vars => IdleOutside'
<1> SUFFICES ASSUME TypeOK, IdleOutside, [Next]_vars PROVE IdleOutside'
  OBVIOUS
<1>1. CASE Start
  BY <1>1 DEF Start, IdleOutside, scheduler
<1>2. CASE Stop
  BY <1>2 DEF Stop, IdleOutside, IdleCall, TypeOK, Callers
<1>3. CASE Stopped
  BY <1>3 DEF Stopped, IdleOutside, NoEntries, NoTasks, Holds
<1>4. CASE Crash
  BY <1>4 DEF Crash, IdleOutside, IdleCall, NoEntries, NoTasks, Callers, Holds
<1>5. CASE status' = "running"
  BY <1>5 DEF IdleOutside
<1>6. ASSUME NEW c \in Callers, LoadEnabledMonitors(c) \/ LoadFails(c)
      PROVE  IdleOutside'
  <2>1. CASE LoadEnabledMonitors(c)
    <3>1. calls[c].phase = "loading" /\ UNCHANGED <<scheduler, status>>
      BY <2>1 DEF LoadEnabledMonitors
    <3>2. calls'[Loop] = calls[Loop] \/ c = Loop
      BY <2>1 DEF LoadEnabledMonitors, TypeOK, Callers
    <3>3. QED
      BY <3>1, <3>2 DEF IdleOutside, scheduler
  <2>2. CASE LoadFails(c)
    BY <2>2 DEF LoadFails, CallEnds, IdleOutside, scheduler, TypeOK, Callers
  <2>3. QED
    BY <1>6, <2>1, <2>2
<1>7. ASSUME NEW c \in Requests, Refresh(c) \/ RunNow(c) PROVE IdleOutside'
  <2>1. calls'[Loop] = calls[Loop] /\ status' = status
    BY <1>7, SetsAssumption DEF Refresh, RunNow, CallEnds, TypeOK, Callers
  <2>2. CASE isHealthy
    BY <1>5, <2>1, <2>2 DEF isHealthy
  <2>3. CASE ~isHealthy
    <3>1. calls[c].snap \in Snapshot
      BY DEF TypeOK, Call, Callers
    <3>2. Synced(c)
      BY <1>7, <2>3 DEF Refresh, RunNow
    <3>3. \A m \in Monitors :
            /\ tasks[m] = None => tasks'[m] = None
            /\ \A r \in Runs : Holds(entries', m, r) => Holds(entries, m, r)
      <4>1. \A m \in Monitors : tasks[m] = None => tasks'[m] = None
        BY <3>2 DEF Synced, SyncedTasks
      <4>2. QED
        BY <3>1, <3>2, <4>1, SyncedHands DEF Synced
    <3>4. QED
      BY <2>1, <3>3 DEF IdleOutside
  <2>4. QED
    BY <2>2, <2>3
<1>8. ASSUME NEW m \in Monitors, BecomesDue(m) PROVE IdleOutside'
  BY <1>8, DueHands DEF BecomesDue, IdleOutside
<1>9. ASSUME NEW m \in Monitors,
             \/ StartTask(m) \/ NeverStarts(m)
             \/ Checked(m) \/ SaveReturns(m) \/ Cancelled(m)
      PROVE  IdleOutside'
  BY <1>9 DEF StartTask, NeverStarts, Checked, SaveReturns, Cancelled, IdleOutside
<1>10. CASE UNCHANGED <<entries, tasks, status, calls>>
  BY <1>10 DEF IdleOutside
<1>11. QED
  BY <1>1, <1>2, <1>3, <1>4, <1>5, <1>6, <1>7, <1>8, <1>9, <1>10
  DEF Next, vars, scheduler, CreateMonitor, PatchMonitor, DeleteMonitor, Edit,
      Refreshing, RequestRun, isHealthy, GetManualRun, ReconcileDue, Reconcile,
      ReconcileFails, Pass, Verify, Lookup, Write, SaveFails

(* Who owns what after a step.  A launch needs Pending, which is there when  *)
(* the scheduler runs, and before it runs there is nothing to launch.       *)
OwnedNext ==
  /\ Owned(entries, tasks, manualRuns)'
  /\ status' = "running" => Pending(entries, manualRuns)'

LEMMA OwnedStep ==
  TypeOK /\ TypeOK' /\ OwnershipInv /\ [Next]_vars => OwnedNext
<1> SUFFICES ASSUME TypeOK, TypeOK', OwnershipInv, [Next]_vars PROVE OwnedNext
  OBVIOUS
<1>1. /\ Owned(entries, tasks, manualRuns) /\ IdleOutside
      /\ status = "running" => Pending(entries, manualRuns)
  BY DEF OwnershipInv, isHealthy
<1>2. \A r \in Runs : manualRuns[r] \in Receipt \cup {None}
  BY DEF TypeOK
<1>3. ASSUME manualRuns' = manualRuns,
             \A m \in Monitors, r \in Runs :
               /\ Holds(entries', m, r) <=> Holds(entries, m, r)
               /\ Carries(tasks', m, r) <=> Carries(tasks, m, r),
             status' = status \/ status' # "running"
      PROVE  OwnedNext
  BY <1>1, <1>3, SameHands DEF OwnedNext
<1>4. CASE UNCHANGED scheduler /\ (status' = status \/ status' # "running")
  BY <1>1, <1>3, <1>4 DEF scheduler
<1>5. CASE Stop
  <2>1. ASSUME NEW m \in Monitors, NEW r \in Runs
        PROVE  Carries(tasks', m, r) <=> Carries(tasks, m, r)
    <3>1. CASE tasks[m] = None
      BY <1>5, <3>1 DEF Stop, Carries
    <3>2. CASE tasks[m] # None
      <4>1. tasks[m] \in Task /\ tasks'[m] = [tasks[m] EXCEPT !.cancel = TRUE]
        BY <1>5, <3>2 DEF Stop, TypeOK
      <4>2. tasks'[m] \in Task /\ tasks'[m].run = tasks[m].run
        BY <4>1 DEF Task
      <4>3. QED
        BY <3>2, <4>2, NoneAssumption DEF Carries
    <3>3. QED BY <3>1, <3>2
  <2>2. entries' = entries /\ manualRuns' = manualRuns /\ status' = "stopping"
    BY <1>5 DEF Stop
  <2>3. QED
    BY <1>3, <2>1, <2>2 DEF Holds
<1>6. CASE Stopped \/ Crash
  <2>1. \A m \in Monitors : entries'[m] = None /\ tasks'[m] = None
    BY <1>6 DEF Stopped, Crash, NoEntries, NoTasks
  <2>2. \A r \in Runs : manualRuns'[r] # "queued"
    BY <1>6, NoneAssumption DEF Stopped, Crash, Settle, Receipt
  <2>3. OneHand(entries', tasks') /\ InHand(entries', tasks', manualRuns')
    BY <2>1, <2>2 DEF OneHand, InHand, Holds, Carries
  <2>4. status' # "running"
    BY <1>6 DEF Stopped, Crash
  <2>5. QED
    BY <2>3, <2>4 DEF OwnedNext, Owned
<1>7. ASSUME NEW c \in Callers, Synced(c), status' = status PROVE OwnedNext
  <2>1. calls[c].snap \in Snapshot
    BY DEF TypeOK, Call
  <2>2. QED
    BY <1>1, <1>7, <2>1, SyncedOwned DEF Synced, OwnedNext
<1>8. ASSUME NEW c \in Requests, Refresh(c) PROVE OwnedNext
  BY <1>7, <1>8 DEF Refresh, Callers
<1>9. ASSUME NEW c \in Requests, RunNow(c) PROVE OwnedNext
  <2> DEFINE snap == calls[c].snap
             m == calls[c].mon
  <2>1. snap \in Snapshot /\ m \in Monitors
    BY <1>9 DEF TypeOK, Call, Callers, RunNow
  <2>2. CASE isHealthy /\ snap[m] # None
    <3>1. /\ SyncedEntries(snap) \in [Monitors -> Entry \cup {None}]
          /\ SyncedRuns(snap) \in [Runs -> Receipt \cup {None}]
          /\ SyncedEntries(snap)[m] # None
      BY <2>1, <2>2, SyncedType, SyncedPresent
    <3>2. /\ Owned(SyncedEntries(snap), SyncedTasks(snap), SyncedRuns(snap))
          /\ Pending(SyncedEntries(snap), SyncedRuns(snap))
      BY <1>1, <2>1, <2>2, SyncedOwned DEF isHealthy
    <3>3. \A r \in NewRuns, n \in Monitors :
            /\ ~Holds(SyncedEntries(snap), n, r)
            /\ ~Carries(SyncedTasks(snap), n, r)
      BY <2>1, SyncedHands DEF NewRuns, Holders, Executors, Holds, Carries
    <3>4. /\ AcceptRun(m, SyncedEntries(snap), SyncedRuns(snap))
          /\ tasks' = SyncedTasks(snap)
      BY <1>9, <2>2 DEF RunNow
    <3>5. /\ Owned(entries', SyncedTasks(snap), manualRuns')
          /\ Pending(entries', manualRuns')
      BY <2>1, <3>1, <3>2, <3>3, <3>4, AcceptOwned
    <3>6. QED
      BY <3>4, <3>5 DEF OwnedNext
  <2>3. CASE ~(isHealthy /\ snap[m] # None)
    BY <1>7, <1>9, <2>3 DEF RunNow, Callers
  <2>4. QED
    BY <2>2, <2>3
<1>10. ASSUME NEW r \in Runs, GetManualRun(r) PROVE OwnedNext
  <2>1. PICK gone \in Prunable(manualRuns, 0) :
          manualRuns' = IF isHealthy THEN Pruned(manualRuns, gone)
                        ELSE Settle(Pruned(manualRuns, gone), {r}, "unavailable")
    BY <1>10 DEF GetManualRun
  <2>2. entries' = entries /\ tasks' = tasks /\ status' = status
    BY <1>10 DEF GetManualRun
  <2>3. manualRuns \in [Runs -> Receipt \cup {None}]
    BY DEF TypeOK
  <2>4. \A q \in Runs : Pruned(manualRuns, gone)[q] = "queued"
                          <=> manualRuns[q] = "queued"
    BY <2>3, QueuedKept
  <2>5. \A q \in Runs : manualRuns'[q] = "queued" => manualRuns[q] = "queued"
    BY <2>1, <2>4 DEF Settle
  <2>6. Owned(entries, tasks, manualRuns)'
    BY <1>1, <2>2, <2>5, FewerQueued
  <2>7. isHealthy /\ Pending(entries, manualRuns) => Pending(entries', manualRuns')
    BY <2>1, <2>2, <2>4 DEF Pending
  <2>8. QED
    BY <1>1, <2>2, <2>6, <2>7 DEF OwnedNext, isHealthy
<1>11. CASE Reconcile
  <2> DEFINE snap == calls[Loop].snap
  <2>1. snap \in Snapshot /\ status # "stopped" /\ status # "stopping"
    BY <1>1, <1>11 DEF TypeOK, Call, Callers, Reconcile, IdleOutside
  <2>2. status \in {"starting", "running"}
    BY <2>1 DEF TypeOK
  <2>3. Pending(entries, manualRuns)
    BY <1>1, <2>2 DEF IdleOutside, Pending
  <2>4. /\ Owned(SyncedEntries(snap), SyncedTasks(snap), SyncedRuns(snap))
        /\ Pending(SyncedEntries(snap), SyncedRuns(snap))
        /\ SyncedEntries(snap) \in [Monitors -> Entry \cup {None}]
        /\ SyncedTasks(snap) \in [Monitors -> Task \cup {None}]
    BY <1>1, <2>1, <2>3, SyncedOwned, SyncedType
  <2>5. manualRuns' = SyncedRuns(snap)
    BY <1>11 DEF Reconcile
  <2>6. CASE status = "starting"
    BY <1>11, <2>4, <2>5, <2>6 DEF Reconcile, Synced, OwnedNext
  <2>7. CASE status # "starting"
    <3>1. LaunchDue(SyncedEntries(snap), SyncedTasks(snap))
      BY <1>11, <2>7 DEF Reconcile
    <3>2. QED
      BY <2>4, <2>5, <3>1, LaunchOwned DEF OwnedNext
  <2>8. QED
    BY <2>6, <2>7
<1>12. CASE ReconcileFails \/ Pass
  <2>1. status # "stopped" /\ status # "stopping"
    BY <1>1, <1>12 DEF ReconcileFails, Pass, IdleOutside
  <2>2. status \in {"starting", "running"}
    BY <2>1 DEF TypeOK
  <2>3. Pending(entries, manualRuns)
    BY <1>1, <2>2 DEF IdleOutside, Pending
  <2>4. manualRuns' = manualRuns
    BY <1>12 DEF ReconcileFails, Pass
  <2>5. CASE LaunchDue(entries, tasks)
    BY <1>1, <2>3, <2>4, <2>5, LaunchOwned DEF OwnedNext, TypeOK
  <2>6. CASE UNCHANGED <<entries, tasks>>
    BY <1>1, <2>3, <2>4, <2>6, SameHands DEF OwnedNext
  <2>7. QED
    BY <1>12, <2>5, <2>6 DEF ReconcileFails, Pass
<1>13. ASSUME NEW m \in Monitors, BecomesDue(m) PROVE OwnedNext
  BY <1>3, <1>13, DueHands DEF BecomesDue, Carries
<1>14. ASSUME NEW m \in Monitors, tasks[m] # None, tasks'[m] \in Task,
              tasks'[m].run = tasks[m].run,
              \A n \in Monitors : n # m => tasks'[n] = tasks[n],
              UNCHANGED <<entries, manualRuns, status>>
       PROVE  OwnedNext
  <2>1. \A n \in Monitors, r \in Runs : Carries(tasks', n, r) <=> Carries(tasks, n, r)
    BY <1>14, NoneAssumption DEF Carries
  <2>2. QED
    BY <1>3, <1>14, <2>1 DEF Holds
<1>15. ASSUME NEW m \in Monitors, StartTask(m) \/ NeverStarts(m) PROVE OwnedNext
  <2>1. tasks[m] \in Task /\ tasks[m] # None
    BY <1>15 DEF StartTask, NeverStarts, TypeOK
  <2>2. tasks'[m] \in Task /\ tasks'[m].run = tasks[m].run
    BY <1>15, <2>1 DEF StartTask, NeverStarts, TypeOK, Task
  <2>3. QED
    BY <1>14, <1>15, <2>1, <2>2 DEF StartTask, NeverStarts, TypeOK
<1>16. ASSUME NEW m \in Monitors, tasks[m] # None,
              NEW outcome \in {"completed", "unavailable"}, Finish(m, outcome),
              status' = status
       PROVE  OwnedNext
  BY <1>1, <1>16, FinishOwned DEF OwnedNext
<1>17. ASSUME NEW m \in Monitors, Checked(m) PROVE OwnedNext
  <2>1. tasks[m] # None /\ status' = status
    BY <1>17 DEF Checked
  <2>2. CASE Finish(m, "unavailable")
    BY <1>16, <2>1, <2>2
  <2>3. CASE ~Finish(m, "unavailable")
    <3>1. PICK s \in Saves :
            /\ tasks' = [tasks EXCEPT ![m].phase = "saving", ![m].save = s]
            /\ UNCHANGED <<entries, manualRuns>>
      BY <1>17, <2>3 DEF Checked
    <3>2. tasks[m] \in Task
      BY <2>1 DEF TypeOK
    <3>3. tasks'[m] \in Task /\ tasks'[m].run = tasks[m].run
      BY <3>1, <3>2 DEF TypeOK, Task
    <3>4. QED
      BY <1>14, <2>1, <3>1, <3>3 DEF TypeOK
  <2>4. QED
    BY <2>2, <2>3
<1>18. ASSUME NEW m \in Monitors, SaveReturns(m) \/ Cancelled(m) PROVE OwnedNext
  BY <1>16, <1>18 DEF SaveReturns, Cancelled
<1>19. QED
  BY <1>4, <1>5, <1>6, <1>8, <1>9, <1>10, <1>11, <1>12, <1>13, <1>15, <1>17, <1>18
  DEF Next, vars, scheduler, Start, CreateMonitor, PatchMonitor, DeleteMonitor,
      Edit, Refreshing, RequestRun, LoadEnabledMonitors, LoadFails, ReconcileDue,
      Verify, Lookup, Write, SaveFails

LEMMA OwnershipStep ==
  TypeOK /\ TypeOK' /\ OwnershipInv /\ [Next]_vars => OwnershipInv'
BY OwnedStep, IdleStep DEF OwnershipInv, OwnedNext, isHealthy

LEMMA OwnersCounted ==
  ASSUME OneHand(entries, tasks), NEW r \in Runs,
         \E m \in Monitors : Holds(entries, m, r) \/ Carries(tasks, m, r)
  PROVE  Cardinality(Holders(r)) + Cardinality(Executors(r)) = 1
<1>1. PICK m \in Monitors : Holds(entries, m, r) \/ Carries(tasks, m, r)
  OBVIOUS
<1>2. Cardinality({m}) = 1 /\ Cardinality({}) = 0
  BY FS_Singleton, FS_EmptySet
<1>3. CASE Holds(entries, m, r)
  <2>1. Holders(r) = {m} /\ Executors(r) = {}
    BY <1>3 DEF OneHand, Holders, Executors, Holds, Carries
  <2>2. QED
    BY <1>2, <2>1
<1>4. CASE Carries(tasks, m, r)
  <2>1. Holders(r) = {} /\ Executors(r) = {m}
    BY <1>4 DEF OneHand, Holders, Executors, Holds, Carries
  <2>2. QED
    BY <1>2, <2>1
<1>5. QED
  BY <1>1, <1>3, <1>4

(* The inductive invariant of the receipts holds in every state.            *)
THEOREM Hands == Spec => []OwnershipInv
<1>1. Init => OwnershipInv
  <2> SUFFICES ASSUME Init PROVE OwnershipInv
    OBVIOUS
  <2>1. \A m \in Monitors : entries[m] = None /\ tasks[m] = None
    BY DEF Init, NoEntries, NoTasks
  <2>2. \A r \in Runs : manualRuns[r] # "queued"
    BY NoneAssumption DEF Init, Receipt
  <2>3. Owned(entries, tasks, manualRuns)
    BY <2>1, <2>2 DEF Owned, OneHand, InHand, Holds, Carries
  <2>4. IdleOutside
    BY <2>1 DEF Init, IdleOutside, IdleCall, Callers, Holds
  <2>5. QED
    BY <2>3, <2>4 DEF OwnershipInv, Init, isHealthy
<1>2. QED
  BY <1>1, TypeCorrect, OwnershipStep, PTL DEF Spec

(* A queued receipt is waiting in exactly one entry or carried by exactly    *)
(* one execution, and what waits in an entry of a healthy scheduler is       *)
(* queued.                                                                  *)
THEOREM Ownership == Spec => []QueueIsOwned
<1>1. TypeOK /\ OwnershipInv => QueueIsOwned
  <2> SUFFICES ASSUME TypeOK, OwnershipInv PROVE QueueIsOwned
    OBVIOUS
  <2>1. QueuedIsOwned
    BY OwnersCounted DEF OwnershipInv, Owned, InHand, QueuedIsOwned
  <2>2. ASSUME NEW m \in Monitors, isHealthy, entries[m] # None,
               entries[m].manual # None
        PROVE  manualRuns[entries[m].manual] = "queued"
    <3>1. entries[m].manual \in Runs
      BY <2>2 DEF TypeOK, Entry
    <3>2. QED
      BY <2>2, <3>1 DEF OwnershipInv, Pending, Holds
  <2>3. QED
    BY <2>1, <2>2 DEF QueueIsOwned, PendingIsQueued
<1>2. QED
  BY <1>1, TypeCorrect, Hands, PTL

-----------------------------------------------------------------------------
(* Persistence: what a task carries when its save has stored is persisted,   *)
(* and only the return of such a save completes the receipt.                *)

Carried(task, svs, done) ==
  /\ task.phase = "saving" => task.save # None
  /\ task.save # None /\ task.run # None /\ svs[task.save].phase = "stored"
       => task.run \in done
StoredIsPersisted ==
  \A m \in Monitors : tasks[m] # None => Carried(tasks[m], saves, persisted)

(* The inductive invariant of the completed receipts.                       *)
CompletionInv == StoredIsPersisted /\ CompletedIsPersisted

(* A step that stores nothing, lets no task pass to a save that has, and     *)
(* forgets no run a task carries, keeps what is stored persisted.           *)
LEMMA StoredKept ==
  ASSUME TypeOK, StoredIsPersisted,
         \A m \in Monitors : tasks'[m] # None =>
           \/ tasks'[m].save = None /\ tasks'[m].phase # "saving"
           \/ /\ tasks[m] # None
              /\ tasks'[m].phase = "saving" => tasks[m].phase = "saving"
              /\ tasks'[m].save = tasks[m].save /\ tasks'[m].run = tasks[m].run,
         \A s \in Saves : saves'[s].phase = "stored" => saves[s].phase = "stored",
         \A m \in Monitors : tasks[m] # None /\ tasks[m].run \in persisted
           => tasks[m].run \in persisted'
  PROVE  StoredIsPersisted'
<1> SUFFICES ASSUME NEW m \in Monitors, tasks'[m] # None
             PROVE  Carried(tasks'[m], saves', persisted')
  BY DEF StoredIsPersisted
<1>1. CASE tasks'[m].save = None /\ tasks'[m].phase # "saving"
  BY <1>1 DEF Carried
<1>2. CASE /\ tasks[m] # None
           /\ tasks'[m].phase = "saving" => tasks[m].phase = "saving"
           /\ tasks'[m].save = tasks[m].save /\ tasks'[m].run = tasks[m].run
  <2>1. Carried(tasks[m], saves, persisted) /\ tasks[m].save \in Saves \cup {None}
    BY <1>2 DEF StoredIsPersisted, TypeOK, Task
  <2>2. QED
    BY <1>2, <2>1 DEF Carried
<1>3. QED
  BY <1>1, <1>2

LEMMA FinishStored ==
  ASSUME TypeOK, StoredIsPersisted, NEW m \in Monitors, NEW outcome,
         Finish(m, outcome), persisted' = persisted,
         \A s \in Saves : saves'[s].phase = "stored" => saves[s].phase = "stored"
  PROVE  StoredIsPersisted'
<1>1. \A n \in Monitors : tasks'[n] # None => tasks'[n] = tasks[n]
  BY DEF Finish, TypeOK
<1>2. QED
  BY <1>1, StoredKept

LEMMA SyncedFields ==
  ASSUME TypeOK, NEW snap, NEW m \in Monitors, SyncedTasks(snap)[m] # None
  PROVE  /\ tasks[m] # None
         /\ SyncedTasks(snap)[m].phase = tasks[m].phase
         /\ SyncedTasks(snap)[m].save = tasks[m].save
         /\ SyncedTasks(snap)[m].run = tasks[m].run
BY DEF SyncedTasks, TypeOK, Task

LEMMA LaunchStored ==
  ASSUME TypeOK, StoredIsPersisted, UNCHANGED <<saves, persisted>>,
         NEW ents, NEW tsks, LaunchDue(ents, tsks),
         \A m \in Monitors : tsks[m] # None =>
           /\ tasks[m] # None /\ tsks[m].phase = tasks[m].phase
           /\ tsks[m].save = tasks[m].save /\ tsks[m].run = tasks[m].run
  PROVE  StoredIsPersisted'
<1>1. PICK batch : tasks' = [m \in Monitors |->
                     IF m \in batch THEN NewTask(ents[m]) ELSE tsks[m]]
  BY DEF LaunchDue
<1>2. \A m \in Monitors :
        NewTask(ents[m]).save = None /\ NewTask(ents[m]).phase = "created"
  BY DEF NewTask
<1>3. \A m \in Monitors : tasks'[m] # None =>
           \/ tasks'[m].save = None /\ tasks'[m].phase # "saving"
           \/ /\ tasks[m] # None
              /\ tasks'[m].phase = "saving" => tasks[m].phase = "saving"
              /\ tasks'[m].save = tasks[m].save /\ tasks'[m].run = tasks[m].run
  BY <1>1, <1>2
<1>4. QED
  BY <1>3, StoredKept

LEMMA StoredStep == TypeOK /\ StoredIsPersisted /\ [Next]_vars => StoredIsPersisted'
<1> SUFFICES ASSUME TypeOK, StoredIsPersisted, [Next]_vars PROVE StoredIsPersisted'
  OBVIOUS
<1>1. CASE UNCHANGED <<tasks, saves, persisted>>
  BY <1>1 DEF StoredIsPersisted
<1>2. CASE Stopped \/ Crash
  BY <1>2 DEF Stopped, Crash, NoTasks, StoredIsPersisted
<1>3. CASE Stop
  <2>1. \A m \in Monitors : tasks'[m] # None =>
          /\ tasks[m] # None /\ tasks'[m].phase = tasks[m].phase
          /\ tasks'[m].save = tasks[m].save /\ tasks'[m].run = tasks[m].run
    BY <1>3 DEF Stop, TypeOK, Task
  <2>2. QED
    BY <1>3, <2>1, StoredKept DEF Stop
<1>4. ASSUME NEW snap, tasks' = SyncedTasks(snap), saves' = saves,
             \A m \in Monitors : tasks[m] # None /\ tasks[m].run \in persisted
               => tasks[m].run \in persisted'
      PROVE  StoredIsPersisted'
  BY <1>4, SyncedFields, StoredKept
<1>5. ASSUME NEW c \in Requests, Refresh(c) \/ RunNow(c) PROVE StoredIsPersisted'
  <2>1. saves' = saves /\ tasks' = SyncedTasks(calls[c].snap)
    BY <1>5 DEF Refresh, RunNow, CallEnds, Synced
  <2>2. persisted' = persisted \/ \E r \in NewRuns : persisted' = persisted \ {r}
    BY <1>5 DEF Refresh, RunNow, AcceptRun
  <2>3. \A m \in Monitors : tasks[m] # None => tasks[m].run \notin NewRuns
    BY DEF NewRuns, Executors
  <2>4. QED
    BY <1>4, <2>1, <2>2, <2>3
<1>6. CASE Reconcile
  <2>1. saves' = saves /\ persisted' = persisted
    BY <1>6 DEF Reconcile, CallEnds
  <2>2. CASE status = "starting"
    BY <1>4, <1>6, <2>1, <2>2 DEF Reconcile, Synced
  <2>3. CASE status # "starting"
    BY <1>6, <2>1, <2>3, SyncedFields, LaunchStored DEF Reconcile
  <2>4. QED
    BY <2>2, <2>3
<1>7. CASE ReconcileFails \/ Pass
  <2>1. saves' = saves /\ persisted' = persisted
    BY <1>7 DEF ReconcileFails, Pass, CallEnds
  <2>2. QED
    BY <1>1, <1>7, <2>1, LaunchStored DEF ReconcileFails, Pass
<1>8. ASSUME NEW m \in Monitors, StartTask(m) \/ NeverStarts(m)
      PROVE  StoredIsPersisted'
  <2>1. tasks[m] # None /\ tasks[m] \in Task
    BY <1>8 DEF StartTask, NeverStarts, TypeOK
  <2>2. /\ tasks'[m].phase # "saving"
        /\ tasks'[m].save = tasks[m].save /\ tasks'[m].run = tasks[m].run
        /\ \A n \in Monitors : n # m => tasks'[n] = tasks[n]
    BY <1>8, <2>1 DEF StartTask, NeverStarts, TypeOK, Task
  <2>3. QED
    BY <1>8, <2>1, <2>2, StoredKept DEF StartTask, NeverStarts
<1>9. ASSUME NEW m \in Monitors, Checked(m) PROVE StoredIsPersisted'
  <2>1. tasks[m] # None /\ persisted' = persisted
    BY <1>9 DEF Checked
  <2>2. CASE Finish(m, "unavailable") /\ UNCHANGED saves
    BY <2>1, <2>2, FinishStored
  <2>3. CASE ~(Finish(m, "unavailable") /\ UNCHANGED saves)
    <3>1. PICK s \in Saves :
            /\ saves' = [saves EXCEPT ![s] =
                 [phase |-> "verify", mon |-> m, check |-> tasks[m].check,
                  seen |-> FALSE]]
            /\ tasks' = [tasks EXCEPT ![m].phase = "saving", ![m].save = s]
      BY <1>9, <2>3 DEF Checked
    <3>2. saves'[s].phase = "verify"
          /\ \A t \in Saves : t # s => saves'[t] = saves[t]
      BY <3>1 DEF TypeOK
    <3>3. tasks'[m].save = s /\ s # None
      BY <2>1, <3>1, NoneAssumption DEF TypeOK, Task
    <3>4. Carried(tasks'[m], saves', persisted')
      BY <3>2, <3>3 DEF Carried
    <3>5. ASSUME NEW n \in Monitors, n # m, tasks'[n] # None
          PROVE  Carried(tasks'[n], saves', persisted')
      <4>1. tasks'[n] = tasks[n]
        BY <3>1, <3>5 DEF TypeOK
      <4>2. Carried(tasks[n], saves, persisted) /\ tasks[n].save \in Saves \cup {None}
        BY <3>5, <4>1 DEF StoredIsPersisted, TypeOK, Task
      <4>3. QED
        BY <2>1, <3>2, <4>1, <4>2 DEF Carried
    <3>6. QED
      BY <3>4, <3>5 DEF StoredIsPersisted
  <2>4. QED
    BY <2>2, <2>3
<1>10. ASSUME NEW m \in Monitors, SaveReturns(m) \/ Cancelled(m)
       PROVE  StoredIsPersisted'
  <2>1. /\ persisted' = persisted
        /\ saves' = saves \/ saves' = [saves EXCEPT ![tasks[m].save] = IdleSave]
        /\ \E outcome : Finish(m, outcome)
    BY <1>10 DEF SaveReturns, Cancelled
  <2>2. \A s \in Saves : saves'[s].phase = "stored" => saves[s].phase = "stored"
    BY <2>1 DEF TypeOK, IdleSave
  <2>3. QED
    BY <2>1, <2>2, FinishStored
<1>11. ASSUME NEW s \in Saves, Verify(s) \/ Lookup(s) \/ SaveFails(s)
       PROVE  StoredIsPersisted'
  <2>1. tasks' = tasks /\ persisted' = persisted
    BY <1>11 DEF Verify, Lookup, SaveFails, scheduler
  <2>2. \A t \in Saves : saves'[t].phase = "stored" => saves[t].phase = "stored"
    <3>1. saves[s] \in Save /\ \A t \in Saves : t # s => saves'[t] = saves[t]
      BY <1>11 DEF Verify, Lookup, SaveFails, SaveEnds, TypeOK
    <3>2. saves'[s].phase # "stored"
      BY <1>11, <3>1 DEF Verify, Lookup, SaveFails, SaveEnds, TypeOK, IdleSave, Save
    <3>3. QED
      BY <3>1, <3>2
  <2>3. QED
    BY <2>1, <2>2, StoredKept
<1>12. ASSUME NEW s \in Saves, Write(s) PROVE StoredIsPersisted'
  <2>1. /\ tasks' = tasks
        /\ persisted' = persisted \cup ({tasks[m].run : m \in Awaited(s)} \ {None})
        /\ \A t \in Saves : t # s => saves'[t] = saves[t]
    BY <1>12 DEF Write, scheduler, SaveEnds, TypeOK
  <2> SUFFICES ASSUME NEW m \in Monitors, tasks[m] # None
               PROVE  Carried(tasks[m], saves', persisted')
    BY <2>1 DEF StoredIsPersisted
  <2>2. Carried(tasks[m], saves, persisted) /\ tasks[m].save \in Saves \cup {None}
    BY DEF StoredIsPersisted, TypeOK, Task
  <2>3. CASE tasks[m].save = s
    BY <2>1, <2>2, <2>3 DEF Carried, Awaited
  <2>4. CASE tasks[m].save # s
    BY <2>1, <2>2, <2>4 DEF Carried
  <2>5. QED BY <2>3, <2>4
<1>13. QED
  BY <1>1, <1>2, <1>3, <1>5, <1>6, <1>7, <1>8, <1>9, <1>10, <1>11, <1>12
  DEF Next, vars, scheduler, Start, CreateMonitor, PatchMonitor, DeleteMonitor,
      Edit, RequestRun, LoadEnabledMonitors, LoadFails, CallEnds, GetManualRun,
      ReconcileDue, BecomesDue

LEMMA PersistedStep ==
  TypeOK /\ CompletionInv /\ [Next]_vars => CompletedIsPersisted'
<1> SUFFICES ASSUME TypeOK, CompletionInv, [Next]_vars,
                    NEW r \in Runs, manualRuns'[r] = "completed"
             PROVE  r \in persisted'
  BY DEF CompletedIsPersisted
<1>1. CASE manualRuns[r] # "completed"
  <2>1. PICK m \in Monitors : SaveReturns(m)
    BY <1>1, OnlySavesComplete
  <2>2. /\ tasks[m] # None /\ tasks[m].phase = "saving" /\ tasks[m].run = r
        /\ saves[tasks[m].save].phase = "stored" /\ persisted' = persisted
    BY <1>1, <2>1 DEF SaveReturns, Finish, Settle
  <2>3. r # None
    BY NoneAssumption
  <2>4. QED
    BY <2>2, <2>3 DEF CompletionInv, StoredIsPersisted, Carried
<1>2. CASE manualRuns[r] = "completed"
  <2>1. r \in persisted
    BY <1>2 DEF CompletionInv, CompletedIsPersisted
  <2>2. r \notin NewRuns
    BY <1>2, NoneAssumption DEF NewRuns, Receipt
  <2>3. ~Crash
    BY NoneAssumption DEF Crash, Receipt
  <2>4. \/ persisted \subseteq persisted'
        \/ \E q \in NewRuns : persisted' = persisted \ {q}
    BY <2>3 DEF Next, vars, scheduler, Start, Stop, Stopped, CreateMonitor,
      PatchMonitor, DeleteMonitor, Edit, RequestRun, LoadEnabledMonitors,
      LoadFails, Refresh, RunNow, AcceptRun, GetManualRun, ReconcileDue, Reconcile,
      ReconcileFails, Pass, BecomesDue, StartTask, NeverStarts, Checked,
      SaveReturns, Cancelled, Verify, Lookup, Write, SaveFails
  <2>5. QED
    BY <2>1, <2>2, <2>4
<1>3. QED
  BY <1>1, <1>2

(* A receipt reads "completed" only after its execution's result committed. *)
THEOREM Persistence == Spec => []CompletedIsPersisted
<1>1. Init => CompletionInv
  BY NoneAssumption
  DEF Init, CompletionInv, StoredIsPersisted, CompletedIsPersisted, NoTasks, Receipt
<1>2. TypeOK /\ CompletionInv /\ [Next]_vars => CompletionInv'
  BY StoredStep, PersistedStep DEF CompletionInv
<1>3. CompletionInv => CompletedIsPersisted
  BY DEF CompletionInv
<1>4. QED
  BY <1>1, <1>2, <1>3, TypeCorrect, PTL DEF Spec

-----------------------------------------------------------------------------
(* The life of a receipt: queued once, settled once, then pruned.           *)

ReceiptsMove ==
  \/ ProcessEnds
  \/ \A r \in Runs : \/ ReceiptStep(manualRuns[r], manualRuns'[r])
                     \/ Replaced(r) /\ manualRuns'[r] = None

LEMMA SettleMoves ==
  ASSUME NEW recs, NEW settled, NEW outcome \in {"completed", "unavailable"},
         NEW r \in Runs
  PROVE  ReceiptStep(recs[r], Settle(recs, settled, outcome)[r])
BY DEF Settle, ReceiptStep

(* A receipt the click's own reconciliation settled is pruned only after all *)
(* the older ones, and only when the limit asks for it: every place was      *)
(* taken before the click.                                                  *)
LEMMA PrunedAtLimit ==
  ASSUME TypeOK, ReceiptsBounded, NEW snap \in Snapshot,
         NEW gone \in Prunable(SyncedRuns(snap), 1), NEW r \in gone,
         manualRuns[r] = "queued"
  PROVE  Cardinality(Held(manualRuns)) = ReceiptLimit
<1> DEFINE recs == SyncedRuns(snap)
           left == Held(recs) \ gone
<1>1. r \in Terminal(recs) /\ r \notin Terminal(manualRuns)
  BY DEF Prunable, Terminal
<1>2. Cardinality(left) + 1 >= ReceiptLimit
  BY <1>1 DEF Prunable
<1>3. Held(recs) \subseteq Held(manualRuns)
  BY SettleHolds DEF SyncedRuns
<1>4. r \in Held(manualRuns) /\ r \notin left /\ left \subseteq Held(manualRuns)
  BY <1>1, <1>3, NoneAssumption DEF Held, Terminal, Receipt
<1>5. IsFiniteSet(left) /\ Cardinality(left) \in Nat
  BY <1>4, HeldFinite, FS_Subset, FS_CardinalityType
<1>6. /\ IsFiniteSet(left \cup {r})
      /\ Cardinality(left \cup {r}) = Cardinality(left) + 1
  BY <1>4, <1>5, FS_AddElement
<1>7. left \cup {r} \subseteq Held(manualRuns)
  BY <1>4
<1>8. Cardinality(left \cup {r}) <= Cardinality(Held(manualRuns))
  BY <1>7, HeldFinite, FS_Subset
<1> HIDE DEF left
<1>9. QED
  BY <1>2, <1>5, <1>6, <1>8, HeldFinite, BoundsAssumption DEF ReceiptsBounded

LEMMA AcceptMoves ==
  ASSUME TypeOK, ReceiptsBounded, NEW snap \in Snapshot, NEW m \in Monitors,
         SyncedEntries(snap)[m] # None,
         AcceptRun(m, SyncedEntries(snap), SyncedRuns(snap)), NEW r \in Runs
  PROVE  \/ ReceiptStep(manualRuns[r], manualRuns'[r])
         \/ Replaced(r) /\ manualRuns'[r] = None
<1> DEFINE ents == SyncedEntries(snap)
           recs == SyncedRuns(snap)
<1>1. PICK gone \in Prunable(recs, 1) :
        \/ /\ entries' = ents
           /\ manualRuns' = Pruned(recs, gone)
        \/ \E q \in NewRuns :
             /\ entries' = [ents EXCEPT ![m].manual = q]
             /\ manualRuns' = [Pruned(recs, gone) EXCEPT ![q] = "queued"]
  BY DEF AcceptRun
<1>2. /\ ents \in [Monitors -> Entry \cup {None}]
      /\ recs \in [Runs -> Receipt \cup {None}]
      /\ manualRuns \in [Runs -> Receipt \cup {None}]
  BY SyncedType DEF TypeOK
<1>3. \/ manualRuns'[r] = Pruned(recs, gone)[r]
      \/ manualRuns[r] = None /\ manualRuns'[r] = "queued"
  BY <1>1 DEF NewRuns, Pruned
<1>4. ReceiptStep(manualRuns[r], recs[r])
  BY SettleMoves DEF SyncedRuns
<1>5. CASE r \notin gone
  BY <1>3, <1>4, <1>5 DEF Pruned, ReceiptStep
<1>6. CASE r \in gone /\ manualRuns[r] # "queued"
  <2>1. recs[r] = manualRuns[r] /\ recs[r] \in {"completed", "unavailable"}
    BY <1>2, <1>6 DEF SyncedRuns, Settle, Prunable, Terminal, Receipt
  <2>2. QED
    BY <1>3, <1>6, <2>1 DEF Pruned, ReceiptStep
<1>7. CASE r \in gone /\ manualRuns[r] = "queued"
  <2>1. Cardinality(Held(manualRuns)) = ReceiptLimit
    BY <1>7, PrunedAtLimit
  <2>2. recs[r] # "queued"
    BY <1>7 DEF Prunable, Terminal
  <2>3. PICK n \in Superseded(snap) : entries[n].manual = r
    BY <1>7, <2>2 DEF SyncedRuns, Settle
  <2>4. n \in Monitors /\ n \in Holders(r)
    BY <2>3 DEF Superseded, Holders
  <2>5. ents[n] # None => ents[n] \in Entry /\ ents[n].fresh
    <3>1. CASE snap[n] = None
      BY <2>4, <3>1 DEF SyncedEntries
    <3>2. CASE snap[n] # None
      BY <1>2, <2>3, <2>4, <3>2 DEF SyncedEntries, Superseded, NewEntry
    <3>3. QED BY <3>1, <3>2
  <2>6. entries'[n] # None => entries'[n].fresh
    <3>1. CASE entries'[n] = ents[n]
      BY <2>5, <3>1
    <3>2. CASE entries'[n] # ents[n]
      <4>1. ents[m] \in Entry
        BY <1>2
      <4>2. n = m /\ \E q : entries'[m] = [ents[m] EXCEPT !.manual = q]
        BY <1>1, <1>2, <2>4, <3>2
      <4>3. QED
        BY <2>5, <4>1, <4>2 DEF Entry
    <3>3. QED BY <3>1, <3>2
  <2>7. manualRuns'[r] = None
    BY <1>3, <1>7, NoneAssumption DEF Pruned, Receipt
  <2>8. QED
    BY <2>1, <2>4, <2>6, <2>7 DEF Replaced
<1>8. QED
  BY <1>5, <1>6, <1>7

LEMMA ReceiptsMoveStep ==
  TypeOK /\ ReceiptsBounded /\ [Next]_vars => ReceiptsMove
<1> SUFFICES ASSUME TypeOK, ReceiptsBounded, [Next]_vars PROVE ReceiptsMove
  OBVIOUS
<1>1. CASE UNCHANGED manualRuns
  BY <1>1 DEF ReceiptsMove, ReceiptStep
<1>2. ASSUME NEW settled, NEW outcome \in {"completed", "unavailable"},
             manualRuns' = Settle(manualRuns, settled, outcome)
      PROVE  ReceiptsMove
  BY <1>2, SettleMoves DEF ReceiptsMove
<1>3. CASE Stopped
  BY <1>2, <1>3 DEF Stopped
<1>4. CASE Crash
  BY <1>4 DEF Crash, TypeOK, ReceiptsMove, ProcessEnds
<1>5. ASSUME NEW c \in Callers, Refresh(c) \/ Synced(c) \/ (c = Loop /\ Reconcile)
      PROVE  ReceiptsMove
  BY <1>2, <1>5 DEF Refresh, Synced, Reconcile, SyncedRuns
<1>6. ASSUME NEW c \in Requests, RunNow(c) PROVE ReceiptsMove
  <2> DEFINE snap == calls[c].snap
             m == calls[c].mon
  <2>1. snap \in Snapshot /\ m \in Monitors
    BY <1>6 DEF TypeOK, Call, Callers, RunNow
  <2>2. CASE isHealthy /\ snap[m] # None
    <3>1. SyncedEntries(snap)[m] # None
      BY <2>1, <2>2, SyncedPresent
    <3>2. AcceptRun(m, SyncedEntries(snap), SyncedRuns(snap))
      BY <1>6, <2>2 DEF RunNow
    <3>3. QED
      BY <2>1, <3>1, <3>2, AcceptMoves DEF ReceiptsMove
  <2>3. CASE ~(isHealthy /\ snap[m] # None)
    BY <1>5, <1>6, <2>3 DEF RunNow, Callers
  <2>4. QED
    BY <2>2, <2>3
<1>7. ASSUME NEW q \in Runs, GetManualRun(q) PROVE ReceiptsMove
  <2>1. PICK gone \in Prunable(manualRuns, 0) :
          manualRuns' = IF isHealthy THEN Pruned(manualRuns, gone)
                        ELSE Settle(Pruned(manualRuns, gone), {q}, "unavailable")
    BY <1>7 DEF GetManualRun
  <2>2. ASSUME NEW r \in Runs PROVE ReceiptStep(manualRuns[r], manualRuns'[r])
    <3>1. CASE r \in gone
      <4>1. manualRuns[r] \in {"completed", "unavailable"}
        BY <3>1 DEF Prunable, Terminal, Receipt
      <4>2. manualRuns'[r] = None
        BY <2>1, <3>1, NoneAssumption DEF Pruned, Settle, Receipt
      <4>3. QED
        BY <4>1, <4>2 DEF ReceiptStep
    <3>2. CASE r \notin gone
      BY <2>1, <3>2, SettleMoves DEF Pruned, Settle, ReceiptStep
    <3>3. QED BY <3>1, <3>2
  <2>3. QED
    BY <2>2 DEF ReceiptsMove
<1>8. ASSUME NEW m \in Monitors, Checked(m) \/ SaveReturns(m) \/ Cancelled(m)
      PROVE  ReceiptsMove
  <2>1. CASE \E outcome \in {"completed", "unavailable"} : Finish(m, outcome)
    BY <1>2, <2>1 DEF Finish
  <2>2. QED
    BY <1>1, <1>8, <2>1 DEF Checked, SaveReturns, Cancelled
<1>9. QED
  BY <1>1, <1>3, <1>4, <1>5, <1>6, <1>7, <1>8
  DEF Next, vars, scheduler, Callers, Start, Stop, CreateMonitor, PatchMonitor,
      DeleteMonitor, Edit, RequestRun, LoadEnabledMonitors, LoadFails,
      ReconcileDue, ReconcileFails, Pass, BecomesDue, StartTask, NeverStarts,
      Verify, Lookup, Write, SaveFails

(* A receipt is settled once and kept until it is pruned; it vanishes while  *)
(* queued only with the process, or when its entry is replaced in a step     *)
(* that finds every place taken.                                            *)
THEOREM SettlesOnce == Spec => ReceiptsSettleOnce
<1>1. TypeOK /\ ReceiptsBounded /\ [Next]_vars => [ReceiptsMove]_vars
  BY ReceiptsMoveStep
<1>2. QED
  BY <1>1, TypeCorrect, Receipts, PTL DEF Spec, ReceiptsSettleOnce, ReceiptsMove
====
