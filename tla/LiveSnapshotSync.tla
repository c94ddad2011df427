--------------------------- MODULE LiveSnapshotSync ---------------------------
(***************************************************************************)
(* The browser's live synchronisation (frontend/src/app/                   *)
(* liveSnapshotSync.ts) with the explicit loads of App.tsx, through the    *)
(* gate of SnapshotCoordinator and against a server that may restart and   *)
(* requests and streams that may fail.  There is one map.                  *)
(*                                                                         *)
(* The browser has one thread, so an action is a callback: of the event    *)
(* source, of a timer, or of a settled fetch with the then, catch and      *)
(* finally that follow it.  Of the stream the model takes what             *)
(* Notification states: while it lives it tells of every newer revision.   *)
(***************************************************************************)
EXTENDS SnapshotCoordinator

CONSTANTS
  Refresh,      \* the request of the sync: it has one at a time
  LoadsMayFail, \* whether explicit loads fail too
  MaxLoads,     \* bound: explicit loads by the user
  MaxFailures   \* bound: failed requests and streams

VARIABLES
  sync,     \* LiveSnapshotSync
  stream,   \* the event source's connection
  error,    \* whether App shows an error
  loads,    \* counter for MaxLoads
  failures  \* counter for MaxFailures

vars == <<gateVars, sync, stream, error, loads, failures>>

ASSUME SyncAssumption ==
  /\ Refresh \in Requests
  /\ MaxLoads \in Nat /\ MaxFailures \in Nat /\ LoadsMayFail \in BOOLEAN
  /\ \E m \in Maps : Maps = {m}

Home == CHOOSE m \in Maps : TRUE
Loads == Requests \ {Refresh}

(* `source' is null, or the state of its EventSource: "retrying" will open  *)
(* again by itself, "dead" will not.                                        *)
Sync ==
  [phase : {"absent", "started", "stopped"}, source : {"null", "connecting",
    "open", "retrying", "dead"}, reconnectTimer : BOOLEAN,
   refreshRetryTimer : BOOLEAN, appliedRevision : Nat,
   requiredRevision : Nat, refreshing : BOOLEAN, refreshQueued : BOOLEAN]
Stream == [alive : BOOLEAN, after : Nat, cursor : Nat]

TypeOK ==
  /\ GateTypeOK
  /\ sync \in Sync
  /\ stream \in Stream /\ error \in BOOLEAN
  /\ loads \in 0..MaxLoads
  /\ failures \in 0..MaxFailures
  /\ sync.refreshing <=> requests[Refresh].phase # "idle"

Unconnected == [alive |-> FALSE, after |-> 0, cursor |-> 0]

Init ==
  /\ GateInit
  /\ sync = [phase |-> "absent", source |-> "null", reconnectTimer |-> FALSE,
             refreshRetryTimer |-> FALSE, appliedRevision |-> 0,
             requiredRevision |-> 0, refreshing |-> FALSE,
             refreshQueued |-> FALSE]
  /\ stream = Unconnected /\ error = FALSE
  /\ loads = 0 /\ failures = 0

-----------------------------------------------------------------------------
stopped == sync.phase = "stopped"

(* requestRefresh: what it makes of the sync, and whether a fetch begins. *)
RequestedLeavingTimer(s) ==
  IF s.refreshing \/ s.phase = "stopped"
  THEN [s EXCEPT !.refreshQueued = TRUE]
  ELSE [s EXCEPT !.refreshing = TRUE]
RequestedUnqueued(s) ==
  IF s.refreshing \/ s.phase = "stopped" THEN s
  ELSE [s EXCEPT !.refreshRetryTimer = FALSE, !.refreshing = TRUE]
Requested(s) ==
  IF s.refreshing \/ s.phase = "stopped"
  THEN [s EXCEPT !.refreshQueued = TRUE]
  ELSE [s EXCEPT !.refreshRetryTimer = FALSE, !.refreshing = TRUE]

RequestRefresh(s) ==
  /\ sync' = Requested(s)
  /\ IF s.refreshing \/ s.phase = "stopped"
     THEN UNCHANGED <<coordinator, requests>>
     ELSE /\ coordinator' = Begun(coordinator)
          /\ requests' = [requests EXCEPT ![Refresh] = Sent(coordinator)]
  /\ UNCHANGED shown

(* The finally of a fetch: a request queued meanwhile begins at once. *)
SettledStillRefreshing(s, coord) ==
  /\ sync' = s
  /\ coordinator' = coord
  /\ requests' = [requests EXCEPT ![Refresh] = NoRequest]
Settled(s, coord) ==
  LET done == [s EXCEPT !.refreshing = FALSE]
      again == done.refreshQueued /\ done.phase # "stopped"
  IN /\ sync' = IF again THEN Requested([done EXCEPT !.refreshQueued = FALSE])
                ELSE done
     /\ coordinator' = IF again THEN Begun(coord) ELSE coord
     /\ requests' = [requests EXCEPT
                       ![Refresh] = IF again THEN Sent(coord) ELSE NoRequest]

-----------------------------------------------------------------------------
(* App: the explicit loads, the first of which starts the sync. *)

Load(r) ==
  /\ r \in Loads /\ loads < MaxLoads
  /\ loads' = loads + 1 /\ error' = FALSE
  /\ BeginRequest(r)
  /\ UNCHANGED <<sync, stream, failures>>

LoadAnswered(r) ==
  /\ r \in Loads
  /\ Respond(r)
  /\ UNCHANGED <<sync, stream, loads, failures, error>>

LoadRejected(r) ==
  /\ r \in Loads /\ LoadsMayFail /\ failures < MaxFailures
  /\ failures' = failures + 1 /\ error' = TRUE
  /\ Reject(r)
  /\ UNCHANGED <<sync, stream, loads>>

connect(s) == [s EXCEPT !.source = "connecting"]

(* The effect that runs once a map is shown. *)
start ==
  /\ sync.phase = "absent" /\ shown # NothingShown
  /\ sync' = connect([sync EXCEPT !.phase = "started",
                                  !.appliedRevision = shown.revision,
                                  !.requiredRevision = shown.revision])
  /\ stream' = [Unconnected EXCEPT !.after = shown.revision]
  /\ UNCHANGED <<gateVars, loads, failures, error>>

disposeLeavingTimers ==
  /\ sync.phase = "started"
  /\ sync' = [sync EXCEPT !.phase = "stopped", !.source = "null"]
  /\ stream' = Unconnected
  /\ UNCHANGED <<gateVars, loads, failures, error>>
dispose ==
  /\ sync.phase = "started"
  /\ sync' = [sync EXCEPT !.phase = "stopped", !.source = "null",
                          !.reconnectTimer = FALSE,
                          !.refreshRetryTimer = FALSE]
  /\ stream' = Unconnected
  /\ UNCHANGED <<gateVars, loads, failures, error>>

-----------------------------------------------------------------------------
(* The event source. *)

onopen ==
  /\ sync.source \in {"connecting", "retrying"}
  /\ stream' = [stream EXCEPT !.alive = TRUE, !.cursor = stream.after]
  /\ RequestRefresh([sync EXCEPT !.source = "open", !.reconnectTimer = FALSE])
  /\ UNCHANGED <<server, loads, failures, error>>

(* An open connection fails by itself, or because its server is gone; one   *)
(* being made fails too.                                                    *)
onerror ==
  /\ sync.source \in {"connecting", "open", "retrying"}
  /\ IF sync.source = "open" /\ ~stream.alive THEN UNCHANGED failures
     ELSE failures < MaxFailures /\ failures' = failures + 1
  /\ \E outcome \in {"retrying", "dead"} :
       sync' = [sync EXCEPT !.source = outcome, !.reconnectTimer = TRUE]
  /\ stream' = [stream EXCEPT !.alive = FALSE]
  /\ UNCHANGED <<gateVars, loads, error>>

reconnect ==
  /\ sync.reconnectTimer
  /\ sync' = connect([sync EXCEPT !.reconnectTimer = FALSE])
  /\ stream' = [Unconnected EXCEPT !.after = sync.appliedRevision]
  /\ UNCHANGED <<gateVars, loads, failures, error>>

(* An event newer than the connection has told of; a resync event is also   *)
(* the answer to a cursor too old to replay.                                *)
handleEventAcknowledging(rev, isResync) ==
  /\ sync.source = "open" /\ stream.alive
  /\ rev \in stream.cursor + 1 .. revision[Home]
  /\ stream' = [stream EXCEPT !.cursor = rev]
  /\ IF ~isResync /\ rev <= sync.appliedRevision THEN UNCHANGED <<sync, gate>>
     ELSE RequestRefresh([sync EXCEPT !.appliedRevision = Larger(@, rev)])
  /\ UNCHANGED <<server, loads, failures, error>>
handleEvent(rev, isResync) ==
  /\ sync.source = "open" /\ stream.alive
  /\ rev \in stream.cursor + 1 .. revision[Home]
  /\ stream' = [stream EXCEPT !.cursor = rev]
  /\ IF ~isResync /\ rev <= sync.appliedRevision THEN UNCHANGED <<sync, gate>>
     ELSE RequestRefresh([sync EXCEPT !.requiredRevision = Larger(@, rev)])
  /\ UNCHANGED <<server, loads, failures, error>>

-----------------------------------------------------------------------------
(* The refresh. *)

(* A snapshot older than an event has announced is fetched again. *)
RefreshAnsweredAnyway ==
  /\ requests[Refresh].phase = "answered"
  /\ Settled(sync, AfterResponse(coordinator, requests[Refresh]))
  /\ shown' = AppliedTo(shown, coordinator, requests[Refresh])
  /\ UNCHANGED <<server, stream, loads, failures, error>>
RefreshAnswered ==
  /\ requests[Refresh].phase = "answered"
  /\ LET answer == requests[Refresh]
         tooOld == answer.revision < sync.requiredRevision
         applied == [sync EXCEPT
                       !.appliedRevision = Larger(@, answer.revision)]
     IN IF stopped
        THEN Settled(sync, coordinator) /\ UNCHANGED <<shown, error>>
        ELSE IF tooOld
        THEN /\ Settled([sync EXCEPT !.refreshQueued = TRUE], coordinator)
             /\ UNCHANGED <<shown, error>>
        ELSE /\ Settled(applied, AfterResponse(coordinator, answer))
             /\ shown' = AppliedTo(shown, coordinator, answer)
             /\ error' = (error /\ ~ShouldApply(Noted(coordinator, answer), answer))
  /\ UNCHANGED <<server, stream, loads, failures>>

RefreshRejectedForgotten ==
  /\ requests[Refresh].phase # "idle" /\ failures < MaxFailures
  /\ failures' = failures + 1
  /\ Settled(sync, coordinator)
  /\ UNCHANGED <<server, shown, stream, loads, error>>
RefreshRejected ==
  /\ requests[Refresh].phase # "idle" /\ failures < MaxFailures
  /\ failures' = failures + 1 /\ error' = (error \/ ~stopped)
  /\ Settled(IF stopped THEN sync ELSE [sync EXCEPT !.refreshRetryTimer = TRUE],
             coordinator)
  /\ UNCHANGED <<server, shown, stream, loads>>

refreshRetry ==
  /\ sync.refreshRetryTimer
  /\ RequestRefresh([sync EXCEPT !.refreshRetryTimer = FALSE])
  /\ UNCHANGED <<server, stream, loads, failures, error>>

-----------------------------------------------------------------------------
(* The server. *)

ServerMutates ==
  /\ Mutate(Home)
  /\ UNCHANGED <<sync, stream, loads, failures, error>>

ServerRestarts ==
  /\ Restart
  /\ stream' = [stream EXCEPT !.alive = FALSE]
  /\ UNCHANGED <<sync, loads, failures, error>>

ServerAnswers(r) ==
  /\ Answer(r)
  /\ UNCHANGED <<sync, stream, loads, failures, error>>

Deliver ==
  \E rev \in 1..MaxRevision, isResync \in BOOLEAN : handleEvent(rev, isResync)

Next ==
  \/ ServerMutates \/ ServerRestarts
  \/ \E r \in Requests :
       ServerAnswers(r) \/ Load(r) \/ LoadAnswered(r) \/ LoadRejected(r)
  \/ start \/ dispose \/ onopen \/ onerror \/ reconnect \/ Deliver
  \/ RefreshAnswered \/ RefreshRejected \/ refreshRetry

Spec == Init /\ [][Next]_vars

(* Timers fire, the server answers, its streams deliver, the browser tries  *)
(* to connect and notices a connection that is gone, React runs its         *)
(* effects.  Nothing makes the user load.                                   *)
Fairness ==
  /\ WF_vars(start) /\ WF_vars(reconnect) /\ WF_vars(refreshRetry)
  /\ WF_vars(onopen \/ onerror) /\ WF_vars(Deliver)
  /\ WF_vars(RefreshAnswered \/ RefreshRejected)
  /\ \A r \in Requests :
       WF_vars(ServerAnswers(r)) /\ WF_vars(LoadAnswered(r) \/ LoadRejected(r))

FairSpec == Spec /\ Fairness

-----------------------------------------------------------------------------
(* Safety. *)

(* A revision the sync takes as applied, whose events it therefore ignores, *)
(* is on the screen or has been overtaken there, although the gate may have *)
(* turned its snapshot down.                                                *)
AppliedIsShown ==
  sync.phase # "absent" => sync.appliedRevision <= shown.revision

(* A revision the sync has heard of and has not applied is being fetched or *)
(* will be: neither a failed nor an outdated answer is the end of it.       *)
RequiredIsFetched ==
  sync.phase = "started" /\ sync.requiredRevision > sync.appliedRevision =>
    sync.refreshing \/ sync.refreshRetryTimer

(* There is one authoritative retry: no timer waits while a fetch is in     *)
(* flight, however failures, events and reopenings interleave.              *)
OneRetry == ~(sync.refreshing /\ sync.refreshRetryTimer)

(* A failed stream is always about to be replaced, an open or a disposed    *)
(* one never is.                                                            *)
FailedIsReplaced ==
  sync.reconnectTimer <=> sync.source \in {"retrying", "dead"}

(* Whatever is outstanding, one thing, and one only, is going to see to it. *)
RecoveryIsScheduled == RequiredIsFetched /\ OneRetry /\ FailedIsReplaced

(* After dispose nothing restarts the sync and its last answer is not shown.*)
DisposedStaysQuiet ==
  [][stopped => /\ sync'.phase = "stopped"
                /\ sync'.refreshing => sync.refreshing
                /\ shown' # shown =>
                     \E r \in Loads : requests[r].phase = "answered"
                                      /\ requests'[r].phase = "idle"]_vars

-----------------------------------------------------------------------------
(* Liveness. *)

(* When the failures and changes cease, the map on the screen is the newest *)
(* one, whatever was lost with a stream, a request or a server.             *)
ShowsNewest ==
  <>[](sync.phase = "started" => shown.revision = revision[Home])

(* A reconnected browser shows what the restarted server derives, and no    *)
(* diagnostics of the process before it, although the restart announces     *)
(* nothing and may leave every revision as it was.                          *)
ShowsCurrentProcess ==
  <>[](sync.phase = "started" => shown.process = process)

(* When an explicit load fails this may not be so (see the README), but     *)
(* then the user is looking at an error and its Retry button.               *)
ShowsCurrentOrError ==
  <>[](sync.phase = "started" => shown.process = process \/ error)

(* The browser recovers from everything by itself, or asks its user to.     *)
Recovers == ShowsNewest /\ ShowsCurrentOrError
====
