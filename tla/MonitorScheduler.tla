--------------------------- MODULE MonitorScheduler ---------------------------
(***************************************************************************)
(* The lifespan-owned monitor scheduler of the backend                     *)
(* (backend/app/monitoring/scheduler.py), with the two tables it reads and *)
(* writes and the REST handlers that call it.                              *)
(*                                                                         *)
(* asyncio runs everything but the two to_thread bodies on one loop, and   *)
(* scheduler._lock is never held across a suspension.  An action is        *)
(* therefore everything the code does between two suspension points:       *)
(* loading the configurations, the check itself, the save, and the wait of *)
(* the run loop.  Every statement of _save_result that reaches the         *)
(* database is a step of its own, because pysqlite opens no transaction    *)
(* for a SELECT.                                                           *)
(*                                                                         *)
(* A definition whose name adds a fault to another's, such as              *)
(* SettleAgain to Settle, is that definition with a bug a change to the    *)
(* code could bring; it takes no part in Spec and shows, put in the        *)
(* other's place, that some property tells the two apart.                  *)
(*                                                                         *)
(* Time is abstracted to what the code tests: `due' stands for             *)
(* next_run <= now.  A monitor's settings are one value of Configs.        *)
(***************************************************************************)
EXTENDS Integers, FiniteSets

CONSTANTS
  Monitors,      \* monitor ids
  Configs,       \* the distinct settings an enabled monitor can have
  Runs,          \* manual run ids
  Requests,      \* REST handlers in flight: a bound
  Saves,         \* _save_result calls in flight: a bound
  Concurrency,   \* scheduler.concurrency
  ReceiptLimit,  \* MANUAL_RUN_RECEIPT_LIMIT
  MaxEdits,      \* bound: committed edits of monitors
  MaxHalts,      \* bound: stops and crashes of the process
  LoadMayFail,   \* whether reading the configurations may raise
  None           \* Python's None

VARIABLES
  config,      \* monitors table: settings, or why there are none
  result,      \* monitor_results table: the settings the stored result is of
  entries,     \* _entries
  tasks,       \* _tasks
  manualRuns,  \* _manual_runs: the status of each receipt, None if absent
  status,      \* of the scheduler: _stopping and _loop_task
  calls,       \* who is inside _reconcile, and what it has read
  saves,       \* _save_result threads
  persisted,   \* history: runs whose execution committed its result
  edits, halts \* counters for the two bounds

database == <<config, result>>
scheduler == <<entries, tasks, manualRuns>>
vars == <<config, result, entries, tasks, manualRuns, status, calls, saves,
          persisted, edits, halts>>

NotEnabled == {"unborn", "disabled", "deleted"}
Loop == "loop"
Callers == Requests \cup {Loop}

Entry == [check : Configs, gen : Nat, due : BOOLEAN,
          manual : Runs \cup {None}, fresh : BOOLEAN]
Task == [phase : {"created", "checking", "saving", "dead"}, check : Configs,
         gen : Nat, run : Runs \cup {None}, cancel : BOOLEAN,
         save : Saves \cup {None}]
Snapshot == [Monitors -> Configs \cup {None}]
Call == {call \in [phase : {"idle", "loading", "loaded"},
                   kind : {"refresh", "run", "reconcile"},
                   mon : Monitors \cup {None}, snap : Snapshot] :
           call.kind = "run" => call.mon # None}
Unfinished == {"verify", "lookup", "write"}
Outcomes == {"stored", "skipped", "failed"}
Save == {save \in [phase : {"idle"} \cup Unfinished \cup Outcomes,
                   mon : Monitors \cup {None}, check : Configs \cup {None},
                   seen : BOOLEAN] :
           save.phase # "idle" => save.mon # None /\ save.check # None}
Receipt == {"queued", "completed", "unavailable"}

ASSUME SetsAssumption ==
  /\ IsFiniteSet(Monitors) /\ IsFiniteSet(Runs)
  /\ Loop \notin Requests
  /\ Configs \cap NotEnabled = {}
ASSUME NoneAssumption ==
  None \notin Monitors \cup Configs \cup Runs \cup Saves
              \cup Entry \cup Task \cup Receipt
ASSUME BoundsAssumption ==
  /\ Concurrency \in Nat \ {0} /\ ReceiptLimit \in Nat \ {0}
  /\ MaxEdits \in Nat /\ MaxHalts \in Nat /\ LoadMayFail \in BOOLEAN

NoSnapshot == [m \in Monitors |-> None]
IdleCall == [phase |-> "idle", kind |-> "refresh", mon |-> None,
             snap |-> NoSnapshot]
LoadingCall(kind, m) ==
  [phase |-> "loading", kind |-> kind, mon |-> m, snap |-> NoSnapshot]
IdleSave == [phase |-> "idle", mon |-> None, check |-> None, seen |-> FALSE]
NoEntries == [m \in Monitors |-> None]
NoTasks == [m \in Monitors |-> None]

TypeOK ==
  /\ config \in [Monitors -> Configs \cup NotEnabled]
  /\ result \in [Monitors -> Configs \cup {None}]
  /\ entries \in [Monitors -> Entry \cup {None}]
  /\ tasks \in [Monitors -> Task \cup {None}]
  /\ manualRuns \in [Runs -> Receipt \cup {None}]
  /\ status \in {"stopped", "starting", "running", "stopping"}
  /\ calls \in [Callers -> Call]
  /\ saves \in [Saves -> Save]
  /\ persisted \in SUBSET Runs
  /\ edits \in Nat /\ halts \in Nat

Init ==
  /\ config \in [Monitors -> Configs \cup {"unborn", "disabled"}]
  /\ result = [m \in Monitors |-> None]
  /\ entries = NoEntries
  /\ tasks = NoTasks
  /\ manualRuns = [r \in Runs |-> None]
  /\ status = "stopped"
  /\ calls = [c \in Callers |-> IdleCall]
  /\ saves = [s \in Saves |-> IdleSave]
  /\ persisted = {}
  /\ edits = 0 /\ halts = 0

-----------------------------------------------------------------------------
(* The receipts. *)

isHealthy == status = "running"

Holders(r) == {m \in Monitors : entries[m] # None /\ entries[m].manual = r}
Executors(r) == {m \in Monitors : tasks[m] # None /\ tasks[m].run = r}

(* A receipt leaves "queued" once; every later write is ignored. *)
SettleAgain(recs, settled, outcome) ==
  [r \in Runs |-> IF r \in settled /\ recs[r] # None THEN outcome ELSE recs[r]]
Settle(recs, settled, outcome) ==
  [r \in Runs |-> IF r \in settled /\ recs[r] = "queued" THEN outcome
                  ELSE recs[r]]

Held(recs) == {r \in Runs : recs[r] # None}
FullTooLate(recs) == Cardinality(Held(recs)) > ReceiptLimit
Full(recs) == Cardinality(Held(recs)) >= ReceiptLimit
Terminal(recs) == {r \in Runs : recs[r] \in Receipt \ {"queued"}}

(* What _prune_manual_runs_locked may drop: terminal receipts whose TTL has *)
(* passed, which is any set of those that were terminal before this step,   *)
(* and then the oldest of the others, until `reserve' places are free.      *)
Prunable(recs, reserve) ==
  LET older == Terminal(recs) \cap Terminal(manualRuns)
      Left(gone) == Cardinality(Held(recs) \ gone) + reserve
  IN {gone \in SUBSET Terminal(recs) :
        /\ gone = Terminal(recs) \/ Left(gone) <= ReceiptLimit
        /\ \/ gone \subseteq older
           \/ older \subseteq gone /\ Left(gone) >= ReceiptLimit}

Pruned(recs, gone) == [r \in Runs |-> IF r \in gone THEN None ELSE recs[r]]

-----------------------------------------------------------------------------
(* _sync_monitors, once the configurations have been read. *)

NewEntry(check, gen) ==
  [check |-> check, gen |-> gen, due |-> TRUE, manual |-> None, fresh |-> TRUE]

(* The entries the snapshot removes or replaces. *)
Superseded(snap) ==
  {m \in Monitors : entries[m] # None /\ entries[m].check # snap[m]}

SyncedEntriesKeepsOld(snap) ==
  [m \in Monitors |->
     IF snap[m] # None /\ entries[m] = None THEN NewEntry(snap[m], 1)
     ELSE IF snap[m] = None THEN None ELSE entries[m]]
SyncedEntriesKeepsDisabled(snap) ==
  [m \in Monitors |->
     IF m \in Superseded(snap) THEN NewEntry(snap[m], entries[m].gen + 1)
     ELSE IF snap[m] # None /\ entries[m] = None THEN NewEntry(snap[m], 1)
     ELSE entries[m]]
SyncedEntries(snap) ==
  [m \in Monitors |->
     CASE snap[m] = None -> None
       [] snap[m] # None /\ entries[m] = None -> NewEntry(snap[m], 1)
       [] snap[m] # None /\ m \in Superseded(snap) ->
            NewEntry(snap[m], entries[m].gen + 1)
       [] OTHER -> entries[m]]

SyncedTasksUncancelled(snap) == tasks
SyncedTasks(snap) ==
  [m \in Monitors |->
     IF m \in Superseded(snap) /\ tasks[m] # None
     THEN [tasks[m] EXCEPT !.cancel = TRUE] ELSE tasks[m]]

SyncedRunsStayQueued(snap) == manualRuns
SyncedRunsAllPending(snap) ==
  Settle(manualRuns, {entries[m].manual : m \in {n \in Monitors : entries[n] # None}},
         "unavailable")
SyncedRuns(snap) ==
  Settle(manualRuns, {entries[m].manual : m \in Superseded(snap)},
         "unavailable")

-----------------------------------------------------------------------------
(* _launch_due *)

Ready(ents, tsks) ==
  {m \in Monitors : /\ ents[m] # None /\ tsks[m] = None
                    /\ ents[m].due \/ ents[m].manual # None}
Due(ents, tsks) == {m \in Ready(ents, tsks) : ents[m].due}
Running(tsks) == {m \in Monitors : tsks[m] # None}
AvailableUncancelled(tsks) ==
  Concurrency - Cardinality({m \in Running(tsks) : ~tsks[m].cancel})
Available(tsks) == Concurrency - Cardinality(Running(tsks))

(* The monitors one pass launches: as many ready ones as there is capacity *)
(* for, and those whose time has come before those only run by hand, as    *)
(* the sort on next_run puts them.                                         *)
Batches(ents, tsks) ==
  {batch \in SUBSET Ready(ents, tsks) :
     /\ Cardinality(batch) <= Available(tsks)
     /\ batch = Ready(ents, tsks) \/ Cardinality(batch) = Available(tsks)
     /\ batch \subseteq Due(ents, tsks) \/ Due(ents, tsks) \subseteq batch}

NewTaskForgetsRun(entry) ==
  [phase |-> "created", check |-> entry.check, gen |-> entry.gen,
   run |-> None, cancel |-> FALSE, save |-> None]
NewTask(entry) ==
  [phase |-> "created", check |-> entry.check, gen |-> entry.gen,
   run |-> entry.manual, cancel |-> FALSE, save |-> None]

LaunchDue(ents, tsks) ==
  \E batch \in Batches(ents, tsks) :
    /\ entries' = [m \in Monitors |->
                     IF m \in batch
                     THEN [ents[m] EXCEPT !.due = FALSE, !.manual = None,
                                          !.fresh = FALSE]
                     ELSE ents[m]]
    /\ tasks' = [m \in Monitors |->
                   IF m \in batch THEN NewTask(ents[m]) ELSE tsks[m]]

-----------------------------------------------------------------------------
(* start, stop, and the end of the process. *)

Start ==
  /\ status = "stopped"
  /\ status' = "starting"
  /\ calls' = [calls EXCEPT ![Loop] = LoadingCall("reconcile", None)]
  /\ UNCHANGED <<database, scheduler, saves, persisted, edits, halts>>

(* The requests to cancel; stop() then waits for the tasks to end. *)
Stop ==
  /\ status = "running" /\ halts < MaxHalts
  /\ status' = "stopping"
  /\ halts' = halts + 1
  /\ tasks' = [m \in Monitors |->
                 IF tasks[m] = None THEN None
                 ELSE [tasks[m] EXCEPT !.cancel = TRUE]]
  /\ calls' = [calls EXCEPT ![Loop] = IdleCall]
  /\ UNCHANGED <<database, entries, manualRuns, saves, persisted, edits>>

Stopped ==
  /\ status = "stopping"
  /\ \A m \in Monitors : tasks[m] # None => tasks[m].phase = "dead"
  /\ status' = "stopped"
  /\ entries' = NoEntries
  /\ tasks' = NoTasks
  /\ manualRuns' = Settle(manualRuns, Runs, "unavailable")
  /\ UNCHANGED <<database, calls, saves, persisted, edits, halts>>

(* The process ends: only the database outlives it. *)
Crash ==
  /\ status # "stopped" /\ halts < MaxHalts
  /\ halts' = halts + 1
  /\ status' = "stopped"
  /\ entries' = NoEntries
  /\ tasks' = NoTasks
  /\ manualRuns' = [r \in Runs |-> None]
  /\ calls' = [c \in Callers |-> IdleCall]
  /\ saves' = [s \in Saves |-> IdleSave]
  /\ persisted' = {}
  /\ UNCHANGED <<database, edits>>

-----------------------------------------------------------------------------
(* The handlers that commit an edit and then await scheduler.refresh().  *)

Refreshing(c) ==
  /\ status = "running" /\ calls[c].phase = "idle"
  /\ calls' = [calls EXCEPT ![c] = LoadingCall("refresh", None)]

Edit(c, m, settings) ==
  /\ edits < MaxEdits
  /\ edits' = edits + 1
  /\ config' = [config EXCEPT ![m] = settings]
  /\ Refreshing(c)
  /\ UNCHANGED <<scheduler, status, saves, persisted, halts>>

CreateMonitor(c, m, settings) ==
  /\ config[m] = "unborn"
  /\ Edit(c, m, settings)
  /\ UNCHANGED result

(* The update drops the stored result in the same transaction. *)
PatchMonitor(c, m, settings) ==
  /\ config[m] \notin {"unborn", "deleted"}
  /\ settings # config[m] \/ settings = "disabled"
  /\ Edit(c, m, settings)
  /\ result' = [result EXCEPT ![m] = None]

DeleteMonitor(c, m) ==
  /\ config[m] \notin {"unborn", "deleted"}
  /\ Edit(c, m, "deleted")
  /\ result' = [result EXCEPT ![m] = None]

(* POST /monitors/{id}/run up to the suspension inside run_now. *)
RequestRun(c, m) ==
  /\ config[m] \in Configs
  /\ status = "running" /\ calls[c].phase = "idle"
  /\ calls' = [calls EXCEPT ![c] = LoadingCall("run", m)]
  /\ UNCHANGED <<database, scheduler, status, saves, persisted, edits, halts>>

-----------------------------------------------------------------------------
(* _reconcile: a read in a worker thread, its effect on the loop later. *)

LoadEnabledMonitors(c) ==
  /\ calls[c].phase = "loading"
  /\ calls' = [calls EXCEPT
                 ![c].phase = "loaded",
                 ![c].snap = [m \in Monitors |->
                                IF config[m] \in Configs THEN config[m]
                                ELSE None]]
  /\ UNCHANGED <<database, scheduler, status, saves, persisted, edits, halts>>

CallEnds(c) ==
  /\ calls' = [calls EXCEPT ![c] = IdleCall]
  /\ UNCHANGED <<database, saves, edits, halts>>

Synced(c) ==
  /\ entries' = SyncedEntries(calls[c].snap)
  /\ tasks' = SyncedTasks(calls[c].snap)
  /\ manualRuns' = SyncedRuns(calls[c].snap)

Refresh(c) ==
  /\ calls[c].phase = "loaded" /\ calls[c].kind = "refresh"
  /\ Synced(c)
  /\ CallEnds(c)
  /\ UNCHANGED <<status, persisted>>

(* Ids no receipt, entry or task refers to: uuid4 never repeats one. *)
NewRuns ==
  {r \in Runs : manualRuns[r] = None /\ Holders(r) = {} /\ Executors(r) = {}}

(* The locked section of run_now. *)
AcceptRun(m, ents, recs) ==
  \E gone \in Prunable(recs, 1) :
    LET kept == Pruned(recs, gone)
        coalesces == ents[m].manual # None /\ kept[ents[m].manual] = "queued"
    IN \/ /\ coalesces \/ Full(kept)
          /\ entries' = ents
          /\ manualRuns' = kept
          /\ UNCHANGED persisted
       \/ /\ ~coalesces /\ ~Full(kept)
          /\ \E r \in NewRuns :
               /\ entries' = [ents EXCEPT ![m].manual = r]
               /\ manualRuns' = [kept EXCEPT ![r] = "queued"]
               /\ persisted' = persisted \ {r}

RunNow(c) ==
  /\ calls[c].phase = "loaded" /\ calls[c].kind = "run"
  /\ IF isHealthy /\ calls[c].snap[calls[c].mon] # None
     THEN /\ tasks' = SyncedTasks(calls[c].snap)
          /\ AcceptRun(calls[c].mon, SyncedEntries(calls[c].snap),
                       SyncedRuns(calls[c].snap))
     ELSE Synced(c) /\ UNCHANGED persisted
  /\ CallEnds(c)
  /\ UNCHANGED status

(* A failed read leaves a request's handler with nothing to do. *)
LoadFails(c) ==
  /\ LoadMayFail
  /\ c # Loop /\ calls[c].phase = "loading"
  /\ CallEnds(c)
  /\ UNCHANGED <<scheduler, status, persisted>>

GetManualRun(r) ==
  \E gone \in Prunable(manualRuns, 0) :
    LET kept == Pruned(manualRuns, gone)
    IN /\ manualRuns' = IF isHealthy THEN kept
                        ELSE Settle(kept, {r}, "unavailable")
       /\ UNCHANGED <<database, entries, tasks, status, calls, saves,
                      persisted, edits, halts>>

-----------------------------------------------------------------------------
(* _run_loop *)

ReconcileDue ==
  /\ status = "running" /\ calls[Loop].phase = "idle"
  /\ calls' = [calls EXCEPT ![Loop] = LoadingCall("reconcile", None)]
  /\ UNCHANGED <<database, scheduler, status, saves, persisted, edits, halts>>

(* The reconciliation of a pass and the launches that follow it, with no    *)
(* suspension between; the one in start() is followed by create_task.       *)
Reconcile ==
  /\ calls[Loop].phase = "loaded"
  /\ manualRuns' = SyncedRuns(calls[Loop].snap)
  /\ IF status = "starting"
     THEN Synced(Loop)
     ELSE LaunchDue(SyncedEntries(calls[Loop].snap),
                    SyncedTasks(calls[Loop].snap))
  /\ status' = "running"
  /\ CallEnds(Loop)
  /\ UNCHANGED persisted

ReconcileFails ==
  /\ LoadMayFail
  /\ calls[Loop].phase = "loading"
  /\ IF status = "starting" THEN UNCHANGED <<entries, tasks>>
     ELSE LaunchDue(entries, tasks)
  /\ status' = "running"
  /\ CallEnds(Loop)
  /\ UNCHANGED <<manualRuns, persisted>>

(* A pass of the loop after _wake or a timeout. *)
Pass ==
  /\ status = "running" /\ calls[Loop].phase = "idle"
  /\ LaunchDue(entries, tasks)
  /\ UNCHANGED <<database, manualRuns, status, calls, saves, persisted,
                 edits, halts>>

(* The time of an entry comes. *)
BecomesDue(m) ==
  /\ entries[m] # None /\ ~entries[m].due
  /\ entries' = [entries EXCEPT ![m].due = TRUE]
  /\ UNCHANGED <<database, tasks, manualRuns, status, calls, saves,
                 persisted, edits, halts>>

-----------------------------------------------------------------------------
(* _execute *)

(* The receipt's outcome, then the finally block: an entry of the same      *)
(* generation that came due meanwhile waits for its next interval.          *)
FinishCompletes(m, outcome) ==
  /\ manualRuns' = Settle(manualRuns, {tasks[m].run}, "completed")
  /\ UNCHANGED entries
  /\ tasks' = [tasks EXCEPT ![m] = None]
Finish(m, outcome) ==
  /\ manualRuns' = Settle(manualRuns, {tasks[m].run}, outcome)
  /\ entries' = IF entries[m] # None /\ entries[m].gen = tasks[m].gen
                THEN [entries EXCEPT ![m].due = FALSE]
                ELSE entries
  /\ tasks' = [tasks EXCEPT ![m] = None]

StartTask(m) ==
  /\ tasks[m] # None /\ tasks[m].phase = "created" /\ ~tasks[m].cancel
  /\ tasks' = [tasks EXCEPT ![m].phase = "checking"]
  /\ UNCHANGED <<database, entries, manualRuns, status, calls, saves,
                 persisted, edits, halts>>

(* A task cancelled before its first step: the coroutine is closed without  *)
(* entering its try, so no finally block removes it from _tasks.            *)
NeverStarts(m) ==
  /\ tasks[m] # None /\ tasks[m].phase = "created" /\ tasks[m].cancel
  /\ tasks' = [tasks EXCEPT ![m].phase = "dead"]
  /\ UNCHANGED <<database, entries, manualRuns, status, calls, saves,
                 persisted, edits, halts>>

isCurrent(m) == entries[m] # None /\ entries[m].gen = tasks[m].gen

Checked(m) ==
  /\ tasks[m] # None /\ tasks[m].phase = "checking" /\ ~tasks[m].cancel
  /\ IF isCurrent(m) /\ status # "stopping"
     THEN \E s \in Saves :
            /\ saves[s].phase = "idle"
            /\ saves' = [saves EXCEPT ![s] =
                 [phase |-> "verify", mon |-> m, check |-> tasks[m].check,
                  seen |-> FALSE]]
            /\ tasks' = [tasks EXCEPT ![m].phase = "saving", ![m].save = s]
            /\ UNCHANGED <<entries, manualRuns>>
     ELSE Finish(m, "unavailable") /\ UNCHANGED saves
  /\ UNCHANGED <<database, status, calls, persisted, edits, halts>>

SaveReturns(m) ==
  /\ tasks[m] # None /\ tasks[m].phase = "saving" /\ ~tasks[m].cancel
  /\ saves[tasks[m].save].phase \in Outcomes
  /\ Finish(m, IF saves[tasks[m].save].phase = "stored" THEN "completed"
               ELSE "unavailable")
  /\ saves' = [saves EXCEPT ![tasks[m].save] = IdleSave]
  /\ UNCHANGED <<database, status, calls, persisted, edits, halts>>

(* CancelledError reaches the check or the wait for the save.  A save whose *)
(* thread has not begun is dropped; one that has goes on without its task.  *)
Cancelled(m) ==
  /\ tasks[m] # None /\ tasks[m].cancel
  /\ \/ /\ tasks[m].phase = "checking"
        /\ UNCHANGED saves
     \/ /\ tasks[m].phase = "saving"
        /\ saves[tasks[m].save].phase \in Unfinished
        /\ UNCHANGED saves
     \/ /\ tasks[m].phase = "saving"
        /\ saves[tasks[m].save].phase \in {"verify"} \cup Outcomes
        /\ saves' = [saves EXCEPT ![tasks[m].save] = IdleSave]
  /\ Finish(m, "unavailable")
  /\ UNCHANGED <<database, status, calls, persisted, edits, halts>>

-----------------------------------------------------------------------------
(* _save_result, in its own thread *)

Awaited(s) == {m \in Monitors : tasks[m] # None /\ tasks[m].save = s}

SaveEnds(s, outcome) ==
  saves' = [saves EXCEPT
              ![s] = IF Awaited(s) = {} THEN IdleSave
                     ELSE [saves[s] EXCEPT !.phase = outcome]]

Verify(s) ==
  /\ saves[s].phase = "verify"
  /\ IF config[saves[s].mon] = saves[s].check
     THEN saves' = [saves EXCEPT ![s].phase = "lookup"]
     ELSE SaveEnds(s, "skipped")
  /\ UNCHANGED <<database, scheduler, status, calls, persisted, edits, halts>>

Lookup(s) ==
  /\ saves[s].phase = "lookup"
  /\ saves' = [saves EXCEPT ![s].phase = "write",
                            ![s].seen = result[saves[s].mon] # None]
  /\ UNCHANGED <<database, scheduler, status, calls, persisted, edits, halts>>

(* The INSERT or UPDATE, the event and the commit.  An UPDATE of a row that *)
(* is gone, an INSERT of one that is there, and an INSERT for a monitor     *)
(* that is gone all fail.                                                   *)
Write(s) ==
  /\ saves[s].phase = "write"
  /\ saves[s].seen = (result[saves[s].mon] # None)
  /\ config[saves[s].mon] \notin {"unborn", "deleted"}
  /\ result' = [result EXCEPT ![saves[s].mon] = saves[s].check]
  /\ persisted' = persisted \cup
       ({tasks[m].run : m \in Awaited(s)} \ {None})
  /\ SaveEnds(s, "stored")
  /\ UNCHANGED <<config, scheduler, status, calls, edits, halts>>

SaveFails(s) ==
  /\ saves[s].phase \in Unfinished
  /\ SaveEnds(s, "failed")
  /\ UNCHANGED <<database, scheduler, status, calls, persisted, edits, halts>>

-----------------------------------------------------------------------------
Next ==
  \/ Start \/ Stop \/ Stopped \/ Crash
  \/ \E c \in Requests, m \in Monitors :
       \/ \E settings \in Configs \cup {"disabled"} :
            CreateMonitor(c, m, settings) \/ PatchMonitor(c, m, settings)
       \/ DeleteMonitor(c, m)
       \/ RequestRun(c, m)
  \/ \E c \in Callers : LoadEnabledMonitors(c) \/ LoadFails(c)
  \/ \E c \in Requests : Refresh(c) \/ RunNow(c)
  \/ \E r \in Runs : GetManualRun(r)
  \/ ReconcileDue \/ Reconcile \/ ReconcileFails \/ Pass
  \/ \E m \in Monitors :
       \/ BecomesDue(m) \/ StartTask(m) \/ NeverStarts(m)
       \/ Checked(m) \/ SaveReturns(m) \/ Cancelled(m)
  \/ \E s \in Saves : Verify(s) \/ Lookup(s) \/ Write(s) \/ SaveFails(s)

Spec == Init /\ [][Next]_vars

-----------------------------------------------------------------------------
(* Safety. *)

(* _launch_due never has more executions than the configured concurrency,  *)
(* the ones being cancelled included.                                      *)
WithinCapacity == Cardinality(Running(tasks)) <= Concurrency

(* However clicks, polls and settled runs interleave, pruning keeps the     *)
(* in-memory receipts within MANUAL_RUN_RECEIPT_LIMIT.                      *)
ReceiptsBounded == Cardinality(Held(manualRuns)) <= ReceiptLimit

(* A queued receipt is in exactly one hand: waiting in one entry, or        *)
(* carried by one execution.  So nobody settles it twice and it is never    *)
(* queued with nobody left to settle it, whatever reconciliation replaced.  *)
QueuedIsOwned ==
  \A r \in Runs : manualRuns[r] = "queued" =>
    Cardinality(Holders(r)) + Cardinality(Executors(r)) = 1

(* While the scheduler is healthy, a receipt that waits in an entry is      *)
(* queued: run_now never coalesces a click onto a receipt that a            *)
(* reconciliation, a poll or a pruning has already settled or dropped.      *)
PendingIsQueued ==
  \A m \in Monitors :
    isHealthy /\ entries[m] # None /\ entries[m].manual # None
      => manualRuns[entries[m].manual] = "queued"

(* Receipts and the entries and executions that hold them agree, both ways. *)
QueueIsOwned == QueuedIsOwned /\ PendingIsQueued

(* An execution nobody has cancelled is of the entry as it stands, same     *)
(* generation and same settings, even though a removal restarts the         *)
(* generations at 1.                                                        *)
UncancelledIsCurrent ==
  \A m \in Monitors :
    tasks[m] # None /\ ~tasks[m].cancel =>
      /\ entries[m] # None
      /\ entries[m].gen = tasks[m].gen /\ entries[m].check = tasks[m].check

(* A receipt reads "completed" only if the execution that carried it has    *)
(* committed its result.                                                    *)
CompletedIsPersisted ==
  \A r \in Runs : manualRuns[r] = "completed" => r \in persisted

(* A receipt is settled once and kept until it is pruned, and a queued one  *)
(* is never pruned.  It may vanish in one step only when the process ends,  *)
(* or when run_now finds its entry replaced and all the receipts in use.    *)
ReceiptStep(before, after) ==
  \/ after = before
  \/ before = None /\ after = "queued"
  \/ before = "queued" /\ after \in {"completed", "unavailable"}
  \/ before \in {"completed", "unavailable"} /\ after = None
Replaced(r) ==
  /\ Cardinality(Held(manualRuns)) = ReceiptLimit
  /\ \E m \in Holders(r) : entries'[m] # None => entries'[m].fresh
ProcessEnds == status' = "stopped" /\ halts' > halts
ReceiptsSettleOnce ==
  [][\/ ProcessEnds
     \/ \A r \in Runs : \/ ReceiptStep(manualRuns[r], manualRuns'[r])
                        \/ (Replaced(r) /\ manualRuns'[r] = None)]_vars

(* A receipt is completed only while the scheduler still holds the very     *)
(* settings that were checked: one whose monitor was edited, disabled or    *)
(* deleted in the scheduler's eyes becomes unavailable instead.             *)
CompletedWhileCurrent ==
  [][\A r \in Runs :
       manualRuns[r] = "queued" /\ manualRuns'[r] = "completed" =>
         \E m \in Executors(r) :
           entries[m] # None /\ entries[m].check = tasks[m].check]_vars

-----------------------------------------------------------------------------
(* What the documentation says of the same code, and does not hold. *)

NeverStarted == {m \in Monitors : tasks[m] # None /\ tasks[m].phase = "dead"}

(* docs/api.md: a receipt becomes unavailable after cancellation. *)
UnavailableAfterCancellation ==
  \A m \in NeverStarted :
    tasks[m].run # None => manualRuns[tasks[m].run] # "queued"

-----------------------------------------------------------------------------
(* Fairness and liveness. *)

(* The run loop comes round at least every poll_seconds and never blocks on *)
(* a task; it sorts by next_run, so a monitor whose time has come is passed *)
(* over at most once by each other one: strong fairness of its launch.      *)
Launches(m) ==
  /\ entries[m] # None /\ entries[m].due /\ tasks[m] = None
  /\ Pass \/ Reconcile \/ ReconcileFails
  /\ tasks'[m] # None

(* Threads and checks end: every check has a timeout, and a thread's call   *)
(* returns or raises.                                                       *)
Fairness ==
  /\ WF_vars(Start) /\ WF_vars(Stopped)
  /\ WF_vars(ReconcileDue) /\ WF_vars(Reconcile)
  /\ WF_vars(LoadEnabledMonitors(Loop) \/ ReconcileFails)
  /\ \A c \in Requests :
       WF_vars(LoadEnabledMonitors(c) \/ LoadFails(c) \/ Refresh(c) \/ RunNow(c))
  /\ \A m \in Monitors :
       /\ WF_vars(BecomesDue(m)) /\ SF_vars(Launches(m))
       /\ WF_vars(StartTask(m) \/ NeverStarts(m) \/ Checked(m)
                  \/ SaveReturns(m) \/ Cancelled(m))
  /\ \A s \in Saves : WF_vars(Verify(s) \/ Lookup(s) \/ Write(s) \/ SaveFails(s))

(* The database is not broken for ever: a statement tried again and again   *)
(* succeeds in the end.                                                     *)
DatabaseFairness ==
  /\ SF_vars(LoadEnabledMonitors(Loop))
  /\ \A s \in Saves, m \in Monitors :
       LET Of(step) == saves[s].mon = m /\ step
       IN SF_vars(Of(Verify(s))) /\ SF_vars(Of(Lookup(s))) /\ SF_vars(Of(Write(s)))

FairSpec == Spec /\ Fairness
RecoveringSpec == FairSpec /\ DatabaseFairness

(* A manual run does not stay queued for ever, unless a task is cancelled   *)
(* between its creation and its first step and keeps its place.             *)
QueuedSettles ==
  \A r \in Runs :
    manualRuns[r] = "queued" ~> manualRuns[r] # "queued" \/ NeverStarted # {}

(* When edits, stops and crashes cease, periodic reconciliation makes the   *)
(* entries those of the monitors table, whatever order stale reads of it    *)
(* were applied in.                                                         *)
Agreed(m) ==
  IF config[m] \in Configs
  THEN entries[m] # None /\ entries[m].check = config[m]
  ELSE entries[m] = None
EntriesConverge == <>[](\A m \in Monitors : Agreed(m))

(* A result that a save committed for settings already replaced is in the   *)
(* end overwritten by one of the settings in force, with the same proviso.  *)
ResultsConverge ==
  <>[](\/ NeverStarted # {}
       \/ \A m \in Monitors : config[m] \in Configs => result[m] = config[m])

(* The scheduler and the stored results follow the settings in the end.     *)
Converges == EntriesConverge /\ ResultsConverge
====
