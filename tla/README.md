# network-topology-map: a verification project

The repository is a self-hosted map of a home network. A FastAPI backend keeps
maps, nodes, links, groups and monitors in SQLite, runs the monitors' checks,
and streams change notifications; a React frontend draws the map, edits it and
keeps its copy fresh. The TLA+ modules here model the parts of it where the
order of steps decides the outcome; TLC checks them on small instances, and
TLAPS proves the safety properties among them for every instance.

## 1. Inventory

Line numbers are in `PROJECT.json`, which maps every definition to its source.

| Component | State it keeps | Operations | Talks to | Hard part |
|---|---|---|---|---|
| **Monitor scheduler** (`monitoring/scheduler.py`) | `_entries`, `_tasks`, `_manual_runs`, `_loop_task`, `_stopping` | start, stop, refresh, run_now, get_manual_run; the run loop; one task per execution; result saves in threads | database (two threads' worth of reads and writes), REST handlers, event broker | five kinds of concurrent actor; snapshots of the database applied later than they were read; cancellation at any suspension; process loss |
| **Network checks** (`monitoring/checks.py`) | none | icmp, tcp, http | scheduler | deadline against a late answer, cancellation while a subprocess runs |
| **Event journal, broker, SSE stream** (`events.py`, `routes.py` 188-253) | `map_events` table (256 newest), one bounded queue per subscriber | append in a mutation's transaction, publish after commit, subscribe, replay, stream | every mutation, scheduler saves, browsers | publication happens after the commit and in any order; a replay of three queries without a transaction; queue overflow; cursors |
| **Live snapshot sync** (`liveSnapshotSync.ts`, `snapshotCoordinator.ts`, `App.tsx`) | applied and required revision, refreshing and queued flags, two timers; shown revision and tickets | start, open, error, event, refresh, retry, reconnect; beginRequest, shouldApply | SSE stream, snapshot endpoint | responses out of order, a stream that fails and comes back by itself, failed reads, a dropped event |
| **Topology store and REST handlers** (`routes.py`, `models.py`, `db.py`) | maps, nodes, links, groups, monitors | CRUD, each one transaction and one event | everything | read-modify-write without a write lock; errors of a flush outside `_commit` |
| **Node status** (`services.py`) | none | result_is_stale, node_status | snapshot | results of an earlier process count as unknown |
| **Node position persistence** (`nodePositionPersistence.ts`) | per node: pending, inFlight, failure | schedule, flush | REST | last drag must be last write; failures superseded |
| **Viewport persistence** (`viewportPersistence.ts`) | timer, pending, inFlight, accepting | schedule, dispose, flushForPageExit, flush | REST | the page-exit write overlaps the one in flight |
| **Receipt polling** (`MonitorPanel.tsx` 283-479) | a token per monitor, set of running monitors | run, poll, cancel | scheduler through REST | polls of an abandoned run answer late |
| **Monitor form and its validation** (`monitorState.ts`, `MonitorPanel.tsx`, `schemas.py`) | open editor, draft | open, type, save, cancel, remove; API validation of merged settings | REST | two validators that must agree; snapshots replace the records under a draft |
| **Editor** (`App.tsx`, `editorState.ts`, the inspectors) | selection, adding form, draft, `saving`, `loading`, `error` | select, add, save, delete, connect, drag, reload, the Delete key | REST, live sync | operations overlap and each sets the selection when it ends; another browser edits the same map |
| **Canvas geometry** (`App.tsx` 89-215) | none | drop into a group, sides of links, parallel links | editor | ties and limits |
| **Backup and restore** (`backup.py`, `scripts/*.sh`) | database file, -wal and -shm sidecars | online backup, validated restore | database | a crash between unlinking a sidecar and the replacement |
| **Lifespan and configuration** (`main.py`, `config.py`, `db.py`) | app.state | startup, shutdown order | scheduler, broker | shutdown order |
| Rendering, icons, search list, API client's wording, migrations, deployment | none | | | not concurrent, or generated, or pure presentation |

How they interact. A mutation handler runs in a thread-pool thread: it reads,
writes, appends an event to the journal and commits, then hands the event to the
loop with `call_soon_threadsafe`. Handlers that edit monitors are coroutines and
await `scheduler.refresh()` after the commit. The scheduler reads the enabled
monitors in a thread, reconciles its entries on the loop, launches executions,
and stores each result in a thread in the same way a handler writes. The broker
puts a published event on every subscriber's queue. A stream replays the journal
after its client's cursor and then forwards its queue. The browser treats an
event only as a reason to fetch a new snapshot; the snapshot's revision, the
newest journal id in the same read transaction, is what it compares.

What makes each part correct, in short:

* scheduler: capacity; one owner of each queued receipt; a receipt settled once,
  completed only when its own result is in the database and of settings still in
  force; stale reads repaired in the end;
* journal and stream: a client whose cursor is behind eventually gets an event
  or a resync, and then fetches a snapshot with every change committed so far;
  nothing that was rolled back is announced;
* live sync: the shown map never moves back to an older revision; after changes
  and failures cease it shows the newest; no refresh is forgotten or duplicated;
* persistence queues: the last value the user set is the last one written, and
  what the user is told of it is true;
* panel and editor: what is typed is lost only by what its user does, a button
  that is disabled is released, what is deleted is what is inspected.

## 2. Plan

Modules; each entry names what it composes with.

1. `MonitorScheduler`: scheduler, its two tables and the REST handlers
   that call it.
2. `EventStream`: journal, broker and stream, a client's cursor; it
   refines `Notification`, what the stream promises a client.
3. `SnapshotCoordinator`: the gate that fetched snapshots pass.
   `LiveSnapshotSync` extends it with the browser's sync against a server that
   may fail, and takes of the stream what `Notification` promises.
4. `ViewportPersistence` and `NodePositions`: the write queues with the
   handlers, the network and (positions) the snapshots that they race.
5. `MonitorForm`, the two validators as operators, and `MonitorPanel`, which
   extends it: receipts, editor and snapshots. It takes of the scheduler what
   `QueuedSettles` shows.
6. `CanvasGeometry`, operators, and `TopologyEditor`, which extends it: the
   selection, the inspectors and the operations of the editor, with the handlers
   of nodes, links and groups and another browser.

A component's theorems are in a module of its name with `Proofs` added, which
extends it; `MonitorPanelProofs` and `TopologyEditorProofs` hold those about
`MonitorForm` and `CanvasGeometry` too. Each has an inductive invariant, one
lemma for each action that keeps it, and the properties that the runs check as
its consequences. Constants are only assumed to be what the `ASSUME` of the
component's module says; the bounds of the runs are constants, so nothing proved
depends on their values.

To do, in this order: `Restore` (sidecars and replacement with a crash between),
`NodeStatus` and the outcomes of checks.

## 3. MonitorScheduler

### State and actions

| TLA+ | Code |
|---|---|
| `config` | the `monitors` table: the settings of an enabled monitor, or `disabled`, `deleted`, `unborn` |
| `result` | the `monitor_results` table: the settings the stored result was obtained with |
| `entries` | `_entries`; `gen` is `generation`, `due` is `next_run <= now`, `manual` is `manual_run_id` |
| `tasks` | `_tasks`, with the program counter of each `_execute` |
| `manualRuns` | `_manual_runs`, status only |
| `status` | `_loop_task` and `_stopping` |
| `calls` | who is suspended in `_sync_monitors`' `to_thread`, and what its thread has read |
| `saves` | `_save_result` threads, which may outlive the task that awaits them |
| `persisted` | history variable: the runs whose own execution committed |

asyncio suspends only at `await`, and `_lock` is never held across one that can
really suspend, so an action is all the code between two suspensions. A
reconciliation is two actions, the read (`LoadEnabledMonitors`) and its effect
(`Refresh`, `RunNow`, `Reconcile`), with anything between them. `_save_result`
is three: `Verify` and `Lookup` are SELECTs for which pysqlite opens no
transaction, `Write` is the INSERT or UPDATE with its commit. Starting a task
is a step of its own because `create_task` only schedules it: a cancellation
that arrives first closes the coroutine before its `try` (`NeverStarts`).
`PatchMonitor` is one step although its handler reads before it writes, because
the two commute with everything a save does except the row it replaces, whose
conflict is the failure `SaveFails` already has.

Left out: the values of a result (only whose settings it is of), times
(`due` becomes true at any moment after it became false), receipts' TTL
(`Prunable` lets any set of receipts expire and then drops the oldest), the
`monitor_id` of a receipt (asking with another id answers `unavailable` and
changes nothing), publication of events (the journal's own module).

### Runs

| Run | Checks | Instance |
|---|---|---|
| `scheduler_safety` | `TypeOK`, `QueueIsOwned`, `UncancelledIsCurrent`, `ReceiptsBounded`, `CompletedIsPersisted`, `CompletedWhileCurrent`, `ReceiptsSettleOnce` | one monitor, two settings, two edits, two stops or crashes, failing reads and writes, two runs for one receipt |
| `scheduler_settles` | `WithinCapacity`, `QueuedSettles` under `FairSpec` | two monitors for one place, an edit |
| `scheduler_converges` | `Converges` under `RecoveringSpec` | an edit of a monitor with two settings that races the loop's reads and the saves |
| `scheduler_leak` | `UnavailableAfterCancellation`, found violated | see Findings |

`QueueIsOwned` is `QueuedIsOwned` (a queued receipt is in exactly one entry or
execution) and `PendingIsQueued` (a receipt that an entry holds is still
queued); `Converges` is `EntriesConverge` and `ResultsConverge`.

Bounds. One monitor is enough for every property but capacity and fairness of
launches, because entries, tasks and receipts of different monitors meet only in
`Available` and in the receipt limit; two settings are enough for a change; two
edits are enough to remove an entry and restore it while its old execution still
runs, which is what makes generations repeat. `Requests` is the number of
handlers in flight besides the loop, whose read is the other one that may be
stale; `Saves` is that of threads, which may outlive their task. `MaxHalts`
counts stops and crashes together; two are a crash while `stop` still waits for
its tasks, and a restart between two of them. `LoadMayFail` lets reads raise.
`scheduler_safety` uses the symmetry of the runs and of the settings; it checks
no liveness.

Fairness. The loop's `wait_for` has a timeout (`poll_seconds`) and every pass
launches what is ready; every check is bounded by its timeout and every thread's
call returns or raises: weak fairness of each. `SF_vars(Launches(m))` is the
sort on `next_run`: a launched monitor's `next_run` moves behind that of the
waiting ones, so a ready monitor is passed over at most once by each other; a
pass launches even when its reconciliation failed. `DatabaseFairness`, only in
`RecoveringSpec`, says that a statement retried for ever in the end succeeds, for
each monitor of its own; results cannot converge on a database that always
fails. No fairness is assumed of handlers beginning, of edits, of stops, of
crashes or of `Start` after the last halt beyond the supervisor restarting the
process (`restart: unless-stopped`, compose.yaml:21).

### What is proved

`MonitorSchedulerProofs`, for all constants that meet the assumptions:

* `TypeCorrect`: `Spec => []TypeOK`.
* `Capacity`: `Spec => []WithinCapacity`. Inductive with the types; the argument
  is that a batch is never larger than what is free (`LaunchWithinCapacity`).
* `Receipts`: `Spec => []ReceiptsBounded`. A receipt is only added after a
  pruning that leaves room.
* `Currency`: `Spec => []UncancelledIsCurrent`. Generations restart at 1 when an
  entry is removed and comes back, so the generation alone does not identify the
  settings. The invariant holds because whatever replaces or removes an entry
  cancels its task in the same step: an uncancelled task is of the entry
  in force.
* `Completion`: `Spec => CompletedWhileCurrent`, from the same invariant.
* `Ownership`: `Spec => []QueueIsOwned`, from `Hands`: `OwnershipInv` says who
  holds each run (`Owned`), that while the scheduler is healthy what is held is
  pending (`Pending`), and that outside of its life nothing is (`IdleOutside`).
  The last is what makes it inductive: `start` and the end of `stop` would
  otherwise begin with leftovers.
* `Persistence`: `Spec => []CompletedIsPersisted`. Inductive with
  `StoredIsPersisted` (a save that has written is of a persisted run), because
  the thread of a save outlives the task that its receipt is completed by.
* `SettlesOnce`: `Spec => ReceiptsSettleOnce`: per action, from the owner of the
  receipt that it settles. The proof showed one case that no instance with a
  single halt reaches: a crash while `stop` still waits ends the process with
  receipts that `stop` had not settled. The property names it (`ProcessEnds`).

Assumptions: monitors and runs are finite sets, `None` is none of the values,
capacity and limit are positive.

Only model-checked: the liveness properties `QueuedSettles` and `Converges`,
which the proof system cannot treat.

### Findings

* `scheduler_leak` (docs/api.md:29, a receipt becomes unavailable after
  cancellation). A reconciliation that was waiting for its thread can run right
  after `_launch_due`, before the first step of the new task. Its `cancel()`
  closes the coroutine without entering `try`, so no `finally` runs: the receipt
  stays queued and the dead task keeps its key in `_tasks`, and one of the
  places of the concurrency, until `stop()`. `QueuedSettles` and
  `ResultsConverge` therefore except this state (`NeverStarted`).

Three more behaviours of the model that the documentation does not describe are
not runs of their own, because the properties above bound their effect.

* `_save_result` compares settings in one statement and writes in another; an
  edit between the two stores an old result for the new settings.
  `ResultsConverge` shows that it is overwritten.
* An older read of the run loop applied after a newer one of a handler puts a
  disabled monitor's entry back. `EntriesConverge` shows that it goes away.
* An entry that is removed and restored has generation 1 again, so the `finally`
  of the old execution (scheduler.py:334) sets the new entry's `next_run` and
  postpones its first check by an interval. `UncancelledIsCurrent` shows that
  the old execution itself is cancelled and stores nothing.

## 4. EventStream and Notification

### State and actions

| TLA+ | Code |
|---|---|
| `last`, `journal` | the newest committed id of `map_events` and the ids still stored |
| `writers` | a mutation's transaction after its flush (`flushed`), or committed and not yet published (`committed`); handlers and the scheduler's result saves |
| `streams` | one `_stream_map_events` generator per connection: where it is, its cursor, what `load_event_replay` has read so far, and its queue |
| `lost` | history variable: committed events that nobody will publish |
| `known`, `dropped` of a stream | history fields: the newest revision in the snapshot that the client fetches because of what it was told; events emptied from the queue for an older one |

`AppendEvent` holds SQLite's write lock until `Commit` or `Rollback`, so only
one writer is flushed at a time; a rolled back id is used again. `Commit`
contains the trim, which becomes visible with it. `Publish` is the callback that
`call_soon_threadsafe` puts on the loop: from different threads in any order.
`LosePublication` is an execution cancelled while its save thread runs.
`ReadEarliest`, `ReadLatest` and `ReadRows` are the three SELECTs of the replay:
no transaction holds them together (the comment in `get_snapshot` says why).
`Crash` is the end of the process, which the journal survives.

`Notification` knows no journal and no queue: a client is told of ever newer
revisions that exist, and not left behind for ever. `EventStream` implements it
with `latest <- last`, `told <- cursor`.

Left out: the kind of an event (the client treats all alike but for `resync`,
which `LiveSnapshotSync` chooses freely), the map (one is modelled; ids are
shared by all maps, so that with several the test for an expired cursor asks
for a resync more often than it must), keepalives and the SSE encoding.

### Runs

| Run | Checks | Instance |
|---|---|---|
| `stream_handoff` | `TypeOK`, `NothingMissed`, `JournalIsTrue`, `KeepsPromise` under `FairSpec` | a handler and an execution, a journal and a queue of 2, five events |
| `stream_truncated` | `NothingTruncated`, found violated | two handlers, a queue of 1 |

`JournalIsTrue` is `NoPhantom` (no stream is told of a revision that was not
committed) and `JournalIsSuffix` (the journal holds exactly the newest events).

Bounds. Five events against a journal of two trim at every step after the
second and leave cursors behind the journal; two writers publish out of order,
fill a queue of two and, with the fifth, overflow it again after an overflow.
`NothingMissed` is about the client's snapshot and not its cursor: an event that
is let through makes it fetch everything committed by then, so whatever is
forwarded covers all that came before. It excepts what an overflow drops for an
older event, which is `NothingTruncated`, and the revisions before that, which
earlier overflows may have left to it to announce: two overflows in a row, which
the proof of `NothingIsMissed` showed to be a case of their own.

Fairness: the loop runs its callbacks and its generators, so a committed event
is published and a stream with something to send sends it; a transaction ends.
No fairness of writers beginning, of subscriptions, disconnections or crashes.

`KeepsPromise` is the refinement of `Notification`. The clients that are
listening in its sense are `Informed`: connected, and with no event newer than
their cursor whose publication was lost or that an overflow dropped. A client
that is not waits for the next event or for its own reconnection, when the
journal bridges the gap; the repository promises no more. The finding below is
about such a client, and so is a publication that fails after its commit. The refinement needs no other assumption: executions
that are cancelled before they publish are in the run.

### What is proved

`EventStreamProofs`, for any writers, clients and limits:

* `StreamInvariant`: `Spec => []StreamInv`. Beside the journal's own invariant
  (`JournalInv`: the newest events, and one writer at most flushed, with the next
  id) it says of each stream that what it holds exists and its client is not
  behind its cursor (`Sound`), and that from the last SELECT of the replay on each
  committed event is known to the client, in the backlog, still to be published,
  lost, or queued at or before something queued (`Complete`). `NothingMissed`
  alone is not inductive: what is queued may be forwarded or emptied next, so
  `Announced` says which later event stands for it.
* `TypeCorrect`, `JournalStaysTrue` and `NothingIsMissed`: `TypeOK`,
  `JournalIsTrue` and `NothingMissed`, from it.
* `TellsInOrder`: the safety of `KeepsPromise`. `Init` implies that of
  `Notification` and each action is a step of it or none; a client leaves
  `Informed` only by what `Notification` lets a client forget.

The fairness of `Notification`, the rest of `KeepsPromise`, is only
model-checked.

### Findings

* `stream_truncated` (events.py:135, a slow client must recover from a snapshot
  rather than receive a silently truncated sequence). The marker that replaces a
  full queue has the revision of the event in hand. If that event was published
  late, the stream's cursor is already beyond it, the marker is skipped, and the
  newer events emptied from the queue are announced by nothing.

A behaviour that is not a run of its own: a commit between the first and the
third SELECT of the replay trims what the first counted on, so a partial
sequence is returned without a resync, against the docstring (events.py:60).
`NothingMissed` covers these steps: the client still fetches a whole snapshot
for the newest event, so nothing is lost on its screen.

## 5. SnapshotCoordinator

| TLA+ | Code |
|---|---|
| `revision`, `process` | the newest event of each map and the API process, which derives the stale flags |
| `coordinator` | the fields of `SnapshotCoordinator` |
| `requests` | fetches: their ticket, and once answered the snapshot; `since` is a history field, the process under which the ticket was taken |
| `shown` | `snapshot` of `App` |

`BeginRequest` is `requestSnapshot` up to its `await`; `Answer` is the read
transaction of `get_snapshot`, of any map; `Respond` is `shouldApply` with
`applySnapshot`; `Reject` is a fetch that fails at any point.

The gate is checked by TLC in the run `sync_recovery` of the module that extends
it (section 6), where its two properties `RevisionNeverGoesBack` and
`RestartNotUndone` meet real requests. On its own (`GateNext`, several maps) it
is the subject of the proofs.

`SnapshotCoordinatorProofs` proves the three for any maps and any number of
requests, changes, restarts and tickets (`GateTypeCorrect`, `NeverBack`,
`NotUndone`). `RestartNotUndone` is not inductive. A response is let through
because its revision is newer or because its ticket is the latest, so the
invariant `GateInv` says that both orders agree with the restarts: of two
snapshots of a map the newer revision was read from no older a process
(`SnapshotsAreOrdered`), and of two tickets the later began under no older a
process (`TicketsAreOrdered`). `ResponseShows` is the one lemma about
`shouldApply`; each action then has a lemma that it keeps the invariant. The
only assumptions are that the bounds are naturals and `None` is not a map.

## 6. LiveSnapshotSync

| TLA+ | Code |
|---|---|
| `sync` | the fields of `LiveSnapshotSync`; `source` is the state of its `EventSource`, `phase` is `absent` before the effect and `stopped` after `dispose` |
| `stream` | the connection: alive, the `after` of its URL, what it has told |
| `requests[Refresh]` | the fetch of `requestRefresh`, one at a time |
| other requests | `loadSnapshot` of `App`, the first load and those the user causes |

The browser has one thread, so each action is a callback with the microtasks
that follow it: `RefreshAnswered` is `then`, `shouldApply` and `finally`, and a
refresh queued meanwhile begins in the same step (`Settled`). `onerror` leaves
the source `retrying` (the browser opens it again by itself) or `dead`; the
timer (`reconnect`) replaces either. Of the stream it takes what `Notification`
states: a live one tells of every newer revision.

`error` is whether App shows an error: the load that failed, until something is
shown again.

| Run | Checks | Instance |
|---|---|---|
| `sync_recovery` | `TypeOK`, `AppliedIsShown`, `RecoveryIsScheduled`, `DisposedStaysQuiet`, `RevisionNeverGoesBack`, `RestartNotUndone`, and `Recovers` under `FairSpec` | a change, a restart, three failures, two loads |
| `sync_restart_lost` | `ShowsCurrentProcess`, found violated | the same with one failure |

`RecoveryIsScheduled` is three invariants: what is required is fetched or will
be (`RequiredIsFetched`), by one timer or one fetch (`OneRetry`), and a stream
that is dead is replaced (`FailedIsReplaced`). `Recovers` is `ShowsNewest` (in the
end the newest revision is on the screen) and `ShowsCurrentOrError` (so are the
diagnostics of the current process, or an error that a failed load left).

Bounds. Three failures are a failed stream, a failed fetch and a failed load, or
a fetch failing repeatedly; a change gives an answer that is too old for an event
and one that is not. `MaxTickets` bounds only `GateNext` and plays no part here.
The runs end when the bounds are used up, hence `CHECK_DEADLOCK FALSE`.

Fairness: timers fire, fetches settle, a connection being made opens or fails,
a live stream delivers, and React runs its effects. The user, the server's
changes and its restarts are free. `MaxFailures` is what makes failures cease.

### What is proved

`LiveSnapshotSyncProofs`, for any bounds: all but `Recovers`, which is liveness.
`SyncInv` is the gate's invariant with the sync's: what is outstanding is being
fetched or has a timer, there is one of either, the flag `refreshing` is true
just while the fetch is in flight, and what counts as applied is shown
(`Consistent`). The last is where the sync and the gate could part, since the
sync counts a revision as applied although the gate may refuse its snapshot; it
holds because the gate refuses only for something no older. From it
`AppliedStaysShown`, `RecoveryStaysScheduled` and `SyncTypeCorrect` follow.
`SyncNeverBack` and `SyncNotUndone` reuse the lemmas of section 5: a callback of
the sync may answer one request and begin the next, so it is no single step of
the gate, but each part of it is one. `StaysQuiet` goes through the actions of a
sync that is stopped.

### Findings

* `sync_restart_lost` (liveSnapshotSync.ts:176, retry rather than leave stale
  diagnostics visible). After a restart without a change the recovery fetch has
  the revision already shown. If a load began after it, `shouldApply` refuses
  it, and the sync takes it for applied. When that load then fails, nobody
  fetches again, and the former process's diagnostics stay until a later event.

## 7. ViewportPersistence

| TLA+ | Code |
|---|---|
| `queue` | the fields of `ViewportPersistence`; `inFlight` is the viewport of the write it waits for, `answer` the settled promise before its callbacks run |
| `page` | the page: open, movements made, exits |
| `onTheWay` | writes that the server has neither applied nor lost: `queued` ones the queue waits for, `exit` ones that nobody waits for, and those `given up` after a broken connection |
| `stored` | the viewport in the maps table |
| `history` | history variable: viewports sent while another was on its way, those reported as failed, those whose failure nobody hears of |

Viewports are numbered in the order the user made them. `schedule`,
`debounced`, `dispose`, `settled` and `pagehide` are the callbacks of one
thread; `Applied`, `Refused` and `ConnectionLost` are the network and the
server, in any order. After `pagehide` the page may be gone, or frozen and shown
again.

`viewport_writes` (four movements, two exits, two failures, every order) checks
`NewestWins` (serialized writes; once all is written the last viewport is
stored, or reported, or had raced), `EarlierNeverWins` (what is stored goes back
only to a viewport that was on its way together with another), and `Drains`
under `FairSpec` (nothing stays pending). Four movements are one stored, one in
flight, one pending and one that replaces it; two exits are a frozen page that
is left again. The user stops, hence `CHECK_DEADLOCK FALSE`.

`ViewportPersistenceProofs` proves `NewestIsKept`, `EarlierLoses` and the types
for any number of movements, exits and failures. The invariant `ViewInv` adds
what the two properties do not say of writes under way: the queue waits for one,
which it holds `inFlight` (`QueueInv`); nothing sent or stored is as new as what
is pending (`SentBefore`); of two viewports on their way the later is in
`history.raced` (`RacesKnown`); and the last viewport, if it did not race, is
pending, alone on its way, about to be reported, stored, or excused (`LastAlone`,
`LastAccounted`). `Drains` is liveness.

The comment at the head of the file (viewportPersistence.ts:6-9) says that a
slower earlier request can never overwrite a later one. For the queue this
holds; the page-exit write does not wait for the one in flight, and after a
broken connection the server may still come to a request the browser has given
up. Both are the exception `raced` of the properties.

## 8. NodePositions

| TLA+ | Code |
|---|---|
| `store` | positions and groups of nodes, the group's position, the map's revision |
| `calls` | requests at work in a handler: which of its SELECTs it has done and what it read |
| `shown`, `error` | `snapshot` and `error` of App, the optimistic drop included |
| `entries` | `NodePositionPersistence.entries` |
| `loads`, `gate` | snapshots being fetched, by App or by the live sync, and the gate they pass |
| `history` | history variable: each node's last drop, its answer and what was reported |

Handlers are modelled in their statements, because none takes a write lock
before it reads: `ReadNode` then `patch_node_position`; `ReadGroup`,
`ReadMembers`, then `patch_group`. SQLAlchemy writes only the columns whose
value differs from what was read, which is why `patch_node_position` may leave a
column as somebody else has set it. One coordinate stands for two: no
condition relates them.

`node_positions` runs one node in one group with at most three drops, one drag
of the group (here or in another browser) and two failures, four of these in
all. It checks `ReportIsTrue`: `LastDropWins` (reported as saved means stored
as last dropped) and `ReportIsOfLastDrop` (an earlier failure is not reported
after it was made good, nor the reverse); `MembersFollow` (a node keeps its
place in its group when the group moves); and `ShownConverges` under `FairSpec`.
Three drops are one in flight, one pending and one that replaces it. One node is
enough: entries of different nodes share nothing, and each property is about
one node and its group.

Exceptions that the code forces on the properties: `MembersFollow` holds only if
nothing was committed between the group handler's reads and its commit (`fresh`);
`LastDropWins` only if the group did not move meanwhile and no request that the
browser has given up is still at work (`clean`).

What the first exception hides is more than a shift. The documentation says that
moving a group moves its member nodes (docs/product-spec.md:23), and the code
does not keep it of a node that is dropped into the group after `patch_group` has
read its members (routes.py:291) and before it commits: the group moves and
leaves the node behind, a member of it still. In the model: a drop takes the node
out of the group and is committed, a drag of the group is sent, `ReadGroup` and
`ReadMembers` find no member, a second drop that puts the node back is committed,
`patch_group` moves the group alone. Sessions do not flush before they read
(`autoflush=False`, db.py:22), so nothing of the move holds the write lock until
its commit.

`NodePositionsProofs` proves the three safety properties for any nodes and any
number of drags, retries and failures. `MembersFollow` needs `FreshReads`: while
a group's handler is not overtaken, what each of its SELECTs has read is what is
stored. `ReportIsTrue` needs `DropInv`: of each node one write is awaited
(`AwaitedOnce`), an answer not yet settled is the last one, and a clean last
drop is waiting in the queue, on its way from what is stored, or stored
(`NodeInv`). Most of the proof is that a handler at work for one node
disturbs this of no other. `ShownConverges` is liveness and stays with TLC.

## 9. MonitorForm and MonitorPanel

`MonitorForm` has no state. Its operators are the form's validation
(`Errors`, `Payload`, `draftForMonitorKind`, `monitorDraftFor`) and the API's
(`FieldsAccepted`, `PatchAccepted`) on the same records. A text is the set of
what a validator can tell of it (blank, padded, begins with a slash, has a line
break, is too long), a numeral is its value or not one. The inputs are the
values at and around each limit and each text that some check tells apart.

| TLA+ (`MonitorPanel`) | Code |
|---|---|
| `server` | the monitors of the node, the map's revision, the receipts |
| `shown` | the snapshot's monitors |
| `panel` | state and refs of `MonitorPanel`: editor, feedback, running set, poll tokens; `typed` is the draft of `MonitorEditor` with the key it is of |
| `requests` | clicks, polls, refreshes and saves whose continuation has not run |
| `saving` | `App.saving`, shared with operations elsewhere (`otherBegins`) |

Each action is a continuation on the browser's thread with the effects of the
render that follows (`Rerender`: runs of monitors that are gone are pruned, an
editor of one is closed), or a step of the server.

`monitor_panel` runs two monitors, one of them not created yet, two clicks, two
editor operations, two changes of node, one event elsewhere and one failure, four
of these in all. `RunsAreFollowed`: a button that shows a run has a request or a
current poll that will release it (`RunningIsServed`), and a result announced as
"below" is below, or being fetched (`ResultIsShown`). `DraftSurvivesRefresh`: no
snapshot takes what was typed, unless the monitor is gone. `RunningSettles`
under `FairSpec`: no run is shown for ever. `FormAgrees` evaluates the
properties of `MonitorForm`: what the form accepts the API accepts
(`FormIsAccepted`), an untouched form saves what is stored
(`UntouchedSaveIsNoop`), errors are of fields that are shown, and changing the
kind leaves nothing behind; it is about the values, not the state, and is
evaluated with each open editor.

`MonitorPanelProofs` proves all of these but `RunningSettles`. `PanelInv` adds to
`RunningIsServed` that a result told of has ended and is shown or followed by a
refresh (`Followed`), that a poll told of a completed run has one that ended
(`RequestOK`), and that the editor is of a monitor that is listed (`PanelOK`);
`DraftStays` follows because `Rerender` closes the editor only of one that is not. Of the form more is proved
than a run can evaluate, for every draft with any integers, any target and any
text (`AnyDraft`): `FormMeetsApi`, `ErrorsStayShown`, `KindChangeStaysTidy`,
`UntouchedStays`; `FormsAgree` is their consequence for the values of the run.

Fairness: clicks and polls are answered and their continuations run, and every
queued run settles, which `QueuedSettles` shows of the scheduler (with its
exception, which would leave the panel polling).

## 10. CanvasGeometry and TopologyEditor

`CanvasGeometry` has no state: the group a drop falls into and where
(`groupDropPosition`), the sides at which links are drawn (`nearestHandle`,
`sourceHandle`, `targetHandle`), the order in which `create_link` stores the ends
with their sides, and which links are drawn apart (`parallelOffset`). Comparisons
of quotients are written as products of whole pixels.

| TLA+ (`TopologyEditor`) | Code |
|---|---|
| `server` | nodes with positions, links, groups, the map's revision; ids ever used |
| `shown` | `snapshot` of App |
| `ui` | what is selected, which adding form is open, `loading` |
| `draft` | the draft of the inspector that is mounted: whose, its position, whether typed into |
| `ops` | operations of App between their request and their last `setState` |
| `saving`, `error` | the states of App of these names |

`Inspected` is which inspector is rendered, `Rendered` what its effects do to
the draft: kept with the position merged, or initial. `loads` and `loaded` are
`loadSnapshot` before and after its fetch, with what each operation then selects
(`Done`). Creating a link is two steps of the server (`create_link_checks`,
`create_link`), because the second commit of a pair fails in a constraint and
not as a duplicate. `elsewhere` is another browser. An id that was deleted is
never used again.

`topology_editor` runs three nodes of which two exist, two links, a group, three
clicks, two operations, two changes elsewhere and one failure, four of these in
all. Two operations that overlap, with a change elsewhere and a failure, reach
each branch of the handlers and of `Done`; the third node gives a created node
an id and a link another end.

* `DeleteHitsInspected`: the Delete key, which looks for a node first, deletes
  what the inspector, which looks for a link first, shows.
* `ConnectEnds`: connecting two nodes ends with a link of theirs selected and
  shown, or with an error, although two browsers connect at once, or the link is
  deleted between the refusal and the load that looks for it. Of any kind: an
  operation that overlaps may have made the link virtual meanwhile, which takes
  a third operation to see and was found by the proof.
* `TypedIsKept`: what is typed goes only by a click, with what it is of, when an
  operation puts up the loading screen, or when a save or a connect ends and
  selects: by no move or change of another browser, no drag here, and no request
  that is begun, answered, refused or ended otherwise. Its last exception is an
  earlier save whose load failed: what it made is selected unseen, and its
  inspector replaces the form when it appears.
* `SavingEnds` under `FairSpec`: the buttons come back and the loading screen
  goes, whichever of overlapping operations fails.
* `CanvasIsSound`: a node dropped where it was just put stays, in the same group;
  a drop into a group is inside it; links without stored sides face each other;
  two links of a pair are told apart, whichever way each was drawn.

Fairness: requests are answered and callbacks run; the user need do nothing.

`TopologyEditorProofs` proves all of these but `SavingEnds`. `EditorInv` says that
a node and a link are never selected together, nor a node while the form of a new
link is open (`UiOK`), that the mounted draft is of what the inspector shows
(`DraftFor`), that what is shown is no newer than the tables, and what each
pending operation carries (`OpsOK`): a connect that was stored has a link of its
own two ends. The agreement of the
Delete key and the inspector is a consequence. `TypedStaysKept` needs that an
inspector stays the same one when a snapshot only takes away what was not
selected (`SameInspected`), that nothing is typed under a loading screen
(`TypedInMap`), and then goes through the steps: each either leaves the draft
alone or renders the same selection over another view (`RenderKeepsTyped`).

Of the canvas the theorems are about every whole position: `HandlesFace` for any
two of them, `DropsFit` for any groups of the least size, `DropsSettle` for any
that do not overlap, `LinksStayTold` for any sides and positions;
`CanvasStaysSound` is the run's property from these.

### What the code does besides

Met while modelling, and bounded by the properties above rather than checked as
properties of their own.

* editorState.ts:66-69 says that saving after a drag cannot restore an older
  coordinate. A snapshot that was read before a second drop was committed and is
  applied after it puts the older position into the canvas and the draft, until
  the next snapshot; a save in between writes it. A group's form does not merge
  positions at all: saving it after another browser moved the group moves it
  back.
* editorState.ts:77-79 says that drafts reset only for a new entity or a
  completed save, never for an unrelated drag. Whatever ends in `loadSnapshot`
  with the loading screen (Reload, a group drag, a deletion, a position that
  failed) unmounts the inspector (App.tsx:731-732), also when it was begun before
  the user typed: the entity stays selected and its form opens again as the
  snapshot has it. `TypedIsKept` excepts exactly this step.
* `persistPosition` reports a failed position and then loads, which clears the
  message at once.
* `saving` is one flag: an operation that ends releases the buttons while
  another is at work, and `connectNodes` begins without asking it. A save that
  ends selects its entity whatever was selected since.
* A click on a group leaves the adding form of a node or a link open, and the
  search leaves a group selected; the inspector of the former is then in front.
* The Delete key works while the loading screen is up.
* Selecting another node while a monitor's editor is open says that the monitor
  was removed.
* A monitor whose creation succeeded and whose refresh failed leaves the form in
  its create mode: sent again, it makes a second one. The form does not limit
  the length of a path or a host, which the API does.
* Nodes at the same position have both ends of a link on the right.
* Nothing keeps groups from overlapping. Where they do, the first in the list
  takes a node, and putting it inside that group can bring it under one before:
  dropped there again it changes its group. `DropsSettle` therefore asks for
  groups that do not overlap; `DropsFit` does not.

## 11. Assumptions and limits

What is proved, and from what, is in sections 3 to 10: each invariant and each
action property that a passing run checks, for all values of the constants, in
eight modules. The rest is only model-checked: the liveness properties
(`QueuedSettles`, `Converges`, `Recovers`, `Drains`, `ShownConverges`,
`RunningSettles`, `SavingEnds`) and the fairness in `KeepsPromise`, which are out
of the prover's reach, and the three statements of the documentation that the
code does not keep. A theorem is about the model: what the modules leave out,
listed in each section and below, it says nothing of.

Not modelled:

* Network checks (`checks.py`): processes and sockets; the scheduler's model
  has a check end within its timeout with some outcome.
* Node status (`services.py`): a pure function of results and process start.
* Backup and restore: run by hand on a stopped server. That a crash between the
  removal of the `-wal` and the replacement leaves the old database without its
  last commits (backup.py:70) is listed as a hazard that no property covers.
  The restore of an older backup, after which revisions go back, is not a
  behaviour of any module: `revision` and `last` only grow.
* Creation and names of maps, listing, and the rule that what a request names
  is of one map. Several maps are modelled only in `SnapshotCoordinator`; a
  change of map makes a new sync, which is disposal and a start.
* Rendering, icons, the search list, names, hyperlinks and the wording of errors;
  settings parsing, migrations and container scripts. None has concurrent state.
