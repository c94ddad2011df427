------------------------ MODULE LiveSnapshotSyncProofs ------------------------
(***************************************************************************)
(* Theorems about LiveSnapshotSync, for any number of explicit loads,      *)
(* changes, restarts and failures.  The proofs about the gate are those of *)
(* SnapshotCoordinatorProofs; what is new is that a refresh may begin in   *)
(* the very callback that ends one.                                        *)
(***************************************************************************)
EXTENDS LiveSnapshotSync, SnapshotCoordinatorProofs

(* What a sync may be while `view' is on the screen, except that a required *)
(* revision may still have to be asked for.                                 *)
Consistent(s, view) ==
  /\ s \in Sync
  /\ s.phase # "absent" => view.map # None /\ s.appliedRevision <= view.revision
  /\ s.reconnectTimer <=> s.source \in {"retrying", "dead"}
  /\ s.phase # "started" => s.source = "null" /\ ~s.refreshRetryTimer
  /\ s.phase = "absent" => ~s.refreshing /\ ~s.refreshQueued

Outstanding(s) == s.phase = "started" /\ s.requiredRevision > s.appliedRevision

(* The inductive invariant. *)
SyncInv ==
  /\ GateInv
  /\ Consistent(sync, shown)
  /\ Outstanding(sync) => sync.refreshing \/ sync.refreshRetryTimer
  /\ OneRetry
  /\ sync.refreshing <=> InFlight(Refresh)
  /\ stream \in Stream /\ error \in BOOLEAN
  /\ loads \in 0..MaxLoads /\ failures \in 0..MaxFailures

-----------------------------------------------------------------------------
(* The gate. *)

(* A request that ends and begins again in one callback keeps the gate's     *)
(* invariant, whether its answer was noted (after, view) or not.            *)
LEMMA AgainKeeps ==
  ASSUME GateInv, NEW r \in Requests, InFlight(r), UNCHANGED server,
         NEW view, NEW after,
         \/ view = shown /\ after = coordinator
         \/ /\ Answered(r)
            /\ view = AppliedTo(shown, coordinator, requests[r])
            /\ after = AfterResponse(coordinator, requests[r]),
         shown' = view, coordinator' = Begun(after),
         requests' = [requests EXCEPT ![r] = Sent(after)]
  PROVE  GateInv'
<1> USE GateAssumption DEF InFlight, Answered
<1> DEFINE next == coordinator.nextGeneration + 1
           newer == /\ Answered(r)
                    /\ view = [map |-> requests[r].map,
                               revision |-> requests[r].revision,
                               process |-> requests[r].process,
                               since |-> requests[r].since]
                    /\ after.mapId = requests[r].map
                    /\ after.revision = requests[r].revision
<1>1. revision' = revision /\ process' = process
  BY DEF server
<1>2. /\ coordinator \in Coordinator /\ shown \in Shown \cup {NothingShown}
      /\ coordinator.latestStartedGeneration = coordinator.nextGeneration
      /\ coordinator.nextGeneration \in Nat
      /\ coordinator.appliedGeneration \in Nat
      /\ coordinator.appliedGeneration <= coordinator.latestStartedGeneration
      /\ requests \in [Requests -> Request]
      /\ shown.since <= shown.process /\ shown.process <= process
      /\ shown.since \in Nat /\ shown.process \in Nat /\ process \in Nat
  BY GateTypes DEF GateInv, GateTypeOK, ShownIsGated, Coordinator
<1>3. /\ after \in Coordinator
      /\ after.nextGeneration = coordinator.nextGeneration
      /\ after.appliedGeneration <= coordinator.latestStartedGeneration
      /\ (view = shown /\ after = coordinator) \/ newer
  BY <1>2, GateDecides
<1> HIDE DEF newer
<1>4. Answered(r) => /\ requests[r].map \in Maps
                     /\ requests[r].revision <= revision[requests[r].map]
                     /\ requests[r].since <= requests[r].process
                     /\ requests[r].process <= process
  BY DEF GateInv, RequestsArePast
<1>5. /\ requests[r] \in Request /\ requests[r].since \in Nat
      /\ requests[r].process \in Nat /\ requests[r].revision \in Nat
  BY <1>2 DEF Request
<1>6. newer => /\ view \in Shown /\ view.map = requests[r].map /\ view.map \in Maps
               /\ view.revision = requests[r].revision
               /\ view.process = requests[r].process
               /\ view.since = requests[r].since
               /\ after.mapId = requests[r].map
               /\ after.revision = requests[r].revision
               /\ Answered(r)
  BY <1>4, <1>5 DEF newer, Shown
<1>7. next \in Nat
  BY <1>2
<1>8. /\ coordinator' \in Coordinator
      /\ coordinator'.mapId = after.mapId
      /\ coordinator'.revision = after.revision
      /\ coordinator'.appliedGeneration = after.appliedGeneration
      /\ coordinator'.nextGeneration = next
      /\ coordinator'.latestStartedGeneration = next
  <2>1. coordinator' = [after EXCEPT !.nextGeneration = next,
                                     !.latestStartedGeneration = next]
    BY <1>3 DEF Begun, Coordinator
  <2> HIDE DEF next
  <2>2. QED
    BY <1>3, <1>7, <2>1 DEF Coordinator
<1>9. /\ requests' \in [Requests -> Request]
      /\ \A q \in Requests : q # r => requests'[q] = requests[q]
      /\ requests'[r].generation = next
      /\ requests'[r].since = process
      /\ requests'[r].phase = "sent"
  <2>1. /\ Sent(after) \in Request /\ Sent(after).generation = next
        /\ Sent(after).since = process /\ Sent(after).phase = "sent"
    BY <1>2, <1>3, <1>7 DEF Sent, NoRequest, Request
  <2>2. QED
    BY <1>2, <2>1
<1>10. ASSUME NEW q \in Requests, q # r, requests[q].phase # "idle"
       PROVE  /\ requests[q].generation \in Nat
              /\ requests[q].generation < next
              /\ requests[q].since <= process
  <2>1. requests[q] \in Request
    BY <1>2
  <2>2. QED
    BY <1>2, <1>10, <2>1 DEF GateInv, RequestsArePast, Request
<1> HIDE DEF next
<1>11. GateTypeOK'
  BY <1>1, <1>2, <1>3, <1>6, <1>8, <1>9 DEF GateInv, GateTypeOK
<1>12. ShownIsGated'
  <2>1. after.appliedGeneration <= next
    <3>1. after.appliedGeneration \in Nat
      BY <1>3 DEF Coordinator
    <3>2. QED BY <1>2, <1>3, <3>1 DEF next
  <2>2. CASE view = shown /\ after = coordinator
    BY <1>1, <1>8, <2>1, <2>2 DEF GateInv, ShownIsGated
  <2>3. CASE newer
    BY <1>1, <1>4, <1>6, <1>8, <2>1, <2>3 DEF ShownIsGated
  <2>4. QED BY <1>3, <2>2, <2>3
<1>13. RequestsArePast'
  <2>1. ASSUME NEW q \in Requests, requests'[q].phase # "idle"
        PROVE  requests'[q].generation <= next /\ requests'[q].since <= process
    BY <1>2, <1>7, <1>9, <1>10, <2>1
  <2>2. ASSUME NEW q \in Requests, requests'[q].phase = "answered"
        PROVE  /\ requests'[q].map \in Maps
               /\ requests'[q].revision <= revision[requests'[q].map]
               /\ requests'[q].since <= requests'[q].process
               /\ requests'[q].process <= process
    <3>1. q # r /\ requests'[q] = requests[q]
      BY <1>9, <2>2
    <3>2. QED
      BY <2>2, <3>1 DEF GateInv, RequestsArePast
  <2>3. QED
    BY <1>1, <1>8, <2>1, <2>2 DEF RequestsArePast
<1>14. SnapshotsAreOrdered'
  <2>1. ASSUME NEW p \in Requests, NEW q \in Requests,
               requests'[p].phase = "answered", requests'[q].phase = "answered",
               requests'[q].map = requests'[p].map,
               requests'[p].revision > requests'[q].revision
        PROVE  requests'[p].process >= requests'[q].process
    <3>1. requests'[p] = requests[p] /\ requests'[q] = requests[q]
      BY <1>9, <2>1
    <3>2. QED
      BY <2>1, <3>1 DEF GateInv, SnapshotsAreOrdered
  <2>2. ASSUME NEW p \in Requests, requests'[p].phase = "answered",
               view.map = requests'[p].map,
               requests'[p].revision > view.revision
        PROVE  requests'[p].process >= view.process
    <3>1. requests'[p] = requests[p]
      BY <1>9, <2>2
    <3>2. CASE view = shown
      BY <2>2, <3>1, <3>2 DEF GateInv, SnapshotsAreOrdered
    <3>3. CASE newer
      BY <1>6, <2>2, <3>1, <3>3 DEF GateInv, SnapshotsAreOrdered
    <3>4. QED BY <1>3, <3>2, <3>3
  <2>3. QED
    BY <2>1, <2>2 DEF SnapshotsAreOrdered
<1>15. TicketsAreOrdered'
  <2>1. ASSUME NEW p \in Requests, NEW q \in Requests,
               requests'[p].phase # "idle", requests'[q].phase # "idle",
               requests'[q].generation <= requests'[p].generation
        PROVE  requests'[q].since <= requests'[p].since
    <3>1. CASE p = r
      BY <1>2, <1>9, <1>10, <2>1, <3>1
    <3>2. CASE p # r
      <4>1. requests'[p] = requests[p] /\ requests[p].generation < next
            /\ requests[p].generation \in Nat
        BY <1>9, <1>10, <2>1, <3>2
      <4>2. q # r
        BY <1>7, <1>9, <2>1, <4>1
      <4>3. requests'[q] = requests[q]
        BY <1>9, <4>2
      <4>4. QED
        BY <2>1, <4>1, <4>3 DEF GateInv, TicketsAreOrdered
    <3>3. QED BY <3>1, <3>2
  <2>2. ASSUME NEW p \in Requests, requests'[p].phase # "idle",
               requests'[p].generation >= next
        PROVE  view.since <= requests'[p].since
    <3>1. p = r
      BY <1>7, <1>9, <1>10, <2>2
    <3>2. view.since <= process
      <4>1. CASE view = shown
        BY <1>2, <4>1
      <4>2. CASE newer
        BY <1>2, <1>4, <1>5, <1>6, <4>2
      <4>3. QED BY <1>3, <4>1, <4>2
    <3>3. QED BY <1>9, <3>1, <3>2
  <2>3. QED
    BY <1>8, <2>1, <2>2 DEF TicketsAreOrdered
<1>16. QED
  BY <1>11, <1>12, <1>13, <1>14, <1>15 DEF GateInv

(* What an answer may make of the screen, which NeverBack and NotUndone say  *)
(* of a load; with one map, it then shows no less than the answer.          *)
LEMMA ViewAdvances ==
  ASSUME GateInv, NEW r \in Requests, Answered(r),
         NEW view, view = AppliedTo(shown, coordinator, requests[r])
  PROVE  /\ view.map = shown.map => view.revision >= shown.revision
         /\ view.process >= shown.since
         /\ shown.map # None =>
              /\ view.map # None /\ view.revision \in Nat
              /\ view.revision >= shown.revision
              /\ view.revision >= requests[r].revision
<1> DEFINE req == requests[r]
<1>1. /\ req \in Request /\ req.map \in Maps /\ req.revision \in Nat
      /\ req.generation \in Nat /\ req.process \in Nat /\ req.since \in Nat
      /\ req.since <= req.process /\ req.phase = "answered"
      /\ shown \in Shown \cup {NothingShown}
      /\ shown.revision \in Nat /\ shown.process \in Nat /\ shown.since \in Nat
      /\ shown.since <= shown.process
  BY GateTypes DEF GateInv, GateTypeOK, RequestsArePast, ShownIsGated, Answered, Request
<1>2. shown.map # None => shown.map = req.map
  BY <1>1, SyncAssumption DEF Shown, NothingShown
<1>3. PICK after : after = AfterResponse(coordinator, req)
  OBVIOUS
<1>4. \/ view = shown /\ (shown.map = req.map => req.revision <= shown.revision)
      \/ /\ view = [map |-> req.map, revision |-> req.revision,
                    process |-> req.process, since |-> req.since]
         /\ \/ req.generation >= coordinator.latestStartedGeneration
               /\ (shown.map = req.map => req.revision >= shown.revision)
            \/ shown.map = req.map /\ req.revision > shown.revision
  BY <1>3, GateDecides
<1>5. CASE view = shown /\ (shown.map = req.map => req.revision <= shown.revision)
  BY <1>1, <1>2, <1>5
<1>6. CASE /\ view = [map |-> req.map, revision |-> req.revision,
                      process |-> req.process, since |-> req.since]
           /\ req.generation >= coordinator.latestStartedGeneration
           /\ (shown.map = req.map => req.revision >= shown.revision)
  <2>1. shown.since <= req.since
    BY <1>1, <1>6 DEF GateInv, TicketsAreOrdered, InFlight
  <2>2. QED
    BY <1>1, <1>2, <1>6, <2>1, GateAssumption
<1>7. CASE /\ view = [map |-> req.map, revision |-> req.revision,
                      process |-> req.process, since |-> req.since]
           /\ shown.map = req.map /\ req.revision > shown.revision
  <2>1. req.process >= shown.process
    BY <1>1, <1>7 DEF GateInv, SnapshotsAreOrdered, Answered
  <2>2. QED
    BY <1>1, <1>2, <1>7, <2>1, GateAssumption
<1>8. QED
  BY <1>4, <1>5, <1>6, <1>7

LEMMA GateUnmoved == ASSUME GateInv, UNCHANGED gateVars PROVE GateInv'
<1>1. [GateNext]_gateVars
  OBVIOUS
<1>2. QED
  BY <1>1, GateInductive

-----------------------------------------------------------------------------
(* The refresh: one begins (RequestRefresh) or ends (Settled). *)

LEMMA RequestedIs ==
  ASSUME NEW view, NEW s, Consistent(s, view), s.phase = "started"
  PROVE  /\ Consistent(Requested(s), view)
         /\ Requested(s).phase = "started"
         /\ Requested(s).refreshing
         /\ s.refreshing => (Requested(s).refreshRetryTimer <=> s.refreshRetryTimer)
         /\ ~s.refreshing => ~Requested(s).refreshRetryTimer
<1>1. s \in Sync
  BY DEF Consistent
<1>2. CASE s.refreshing
  <2>1. Requested(s) = [s EXCEPT !.refreshQueued = TRUE]
    BY <1>2 DEF Requested
  <2>2. QED
    BY <1>1, <1>2, <2>1 DEF Consistent, Sync
<1>3. CASE ~s.refreshing
  <2>1. Requested(s) = [s EXCEPT !.refreshRetryTimer = FALSE, !.refreshing = TRUE]
    BY <1>3 DEF Requested
  <2>2. QED
    BY <1>1, <1>3, <2>1 DEF Consistent, Sync
<1>4. QED
  BY <1>2, <1>3

(* A callback that asks for a refresh, having changed the sync to s.        *)
LEMMA RequestKeeps ==
  ASSUME SyncInv, NEW s, Consistent(s, shown), s.phase = "started",
         s.refreshing = sync.refreshing, ~(s.refreshing /\ s.refreshRetryTimer),
         RequestRefresh(s), UNCHANGED server,
         stream' \in Stream, error' \in BOOLEAN,
         loads' \in 0..MaxLoads, failures' \in 0..MaxFailures
  PROVE  SyncInv'
<1>1. sync' = Requested(s) /\ shown' = shown
  BY DEF RequestRefresh
<1>2. /\ Consistent(Requested(s), shown)
      /\ Requested(s).refreshing
      /\ ~(Requested(s).refreshRetryTimer)
  BY RequestedIs
<1>3. Consistent(sync, shown)' /\ OneRetry' /\ sync'.refreshing
  BY <1>1, <1>2 DEF Consistent, OneRetry
<1>4. CASE s.refreshing
  <2>1. UNCHANGED gateVars
    BY <1>4 DEF RequestRefresh, server, gateVars
  <2>2. GateInv'
    BY <2>1, GateUnmoved DEF SyncInv
  <2>3. InFlight(Refresh)'
    BY <1>4, <2>1 DEF SyncInv, InFlight, gateVars
  <2>4. QED
    BY <1>3, <2>2, <2>3 DEF SyncInv
<1>5. CASE ~s.refreshing
  <2>1. requests[Refresh].phase = "idle" /\ Refresh \in Requests
    BY <1>5, SyncAssumption DEF SyncInv, InFlight
  <2>2. BeginRequest(Refresh)
    BY <1>5, <2>1 DEF RequestRefresh, BeginRequest
  <2>3. GateInv'
    BY <2>1, <2>2, BeginRequestKeeps DEF SyncInv
  <2>4. requests'[Refresh].phase = "sent"
    BY <2>1, <2>2 DEF BeginRequest, SyncInv, GateInv, GateTypeOK, Sent, NoRequest
  <2>5. InFlight(Refresh)'
    BY <2>4 DEF InFlight
  <2>6. QED
    BY <1>3, <2>3, <2>5 DEF SyncInv
<1>6. QED
  BY <1>4, <1>5

(* The finally of a fetch: with or without the next one, which a queued      *)
(* request calls for.                                                       *)
LEMMA SettledKeeps ==
  ASSUME SyncInv, sync.refreshing, UNCHANGED server,
         NEW s, NEW after, NEW view, Settled(s, after), shown' = view,
         \/ view = shown /\ after = coordinator
         \/ /\ Answered(Refresh)
            /\ view = AppliedTo(shown, coordinator, requests[Refresh])
            /\ after = AfterResponse(coordinator, requests[Refresh]),
         Consistent(s, view), s.phase # "absent",
         Outstanding(s) => s.refreshRetryTimer \/ s.refreshQueued,
         stream' \in Stream, error' \in BOOLEAN,
         loads' \in 0..MaxLoads, failures' \in 0..MaxFailures
  PROVE  SyncInv'
<1> DEFINE done == [s EXCEPT !.refreshing = FALSE]
           unqueued == [done EXCEPT !.refreshQueued = FALSE]
<1>0. Refresh \in Requests /\ InFlight(Refresh) /\ s \in Sync
  BY SyncAssumption DEF SyncInv, Consistent
<1>1. /\ Consistent(done, view) /\ ~done.refreshing /\ done.phase = s.phase
      /\ done.refreshQueued = s.refreshQueued
      /\ done.refreshRetryTimer = s.refreshRetryTimer
      /\ Outstanding(done) <=> Outstanding(s)
  BY <1>0 DEF Consistent, Sync, Outstanding
<1>2. CASE s.refreshQueued /\ s.phase # "stopped"
  <2>1. /\ sync' = Requested(unqueued) /\ coordinator' = Begun(after)
        /\ requests' = [requests EXCEPT ![Refresh] = Sent(after)]
    BY <1>1, <1>2 DEF Settled
  <2>2. unqueued.phase = "started" /\ ~unqueued.refreshing
        /\ Consistent(unqueued, view)
    BY <1>0, <1>2 DEF Consistent, Sync
  <2> HIDE DEF unqueued
  <2>3. /\ Consistent(sync', view) /\ sync'.refreshing /\ ~sync'.refreshRetryTimer
    BY <2>1, <2>2, RequestedIs
  <2>4. Consistent(sync, shown)' /\ OneRetry'
    BY <2>3 DEF Consistent, OneRetry
  <2>5. GateInv'
    BY <1>0, <2>1, AgainKeeps DEF SyncInv
  <2>6. InFlight(Refresh)'
    BY <1>0, <2>1 DEF SyncInv, GateInv, GateTypeOK, InFlight, Sent, NoRequest
  <2>7. QED
    BY <2>3, <2>4, <2>5, <2>6 DEF SyncInv
<1>3. CASE ~(s.refreshQueued /\ s.phase # "stopped")
  <2>1. /\ sync' = done /\ coordinator' = after
        /\ requests' = [requests EXCEPT ![Refresh] = NoRequest]
    BY <1>1, <1>3 DEF Settled
  <2> HIDE DEF done
  <2>2. Respond(Refresh) \/ Reject(Refresh)
    BY <1>0, <2>1 DEF Respond, Reject, InFlight, Answered
  <2>3. GateInv'
    BY <1>0, <2>2, RespondKeeps, RejectKeeps DEF SyncInv
  <2>4. ~InFlight(Refresh)'
    BY <1>0, <2>1 DEF SyncInv, GateInv, GateTypeOK, InFlight, NoRequest
  <2>5. Outstanding(sync') => sync'.refreshRetryTimer
    BY <1>1, <1>3, <2>1 DEF Outstanding
  <2>6. Consistent(sync, shown)' /\ OneRetry' /\ ~sync'.refreshing
    BY <1>1, <2>1 DEF Consistent, OneRetry
  <2>7. QED
    BY <2>3, <2>4, <2>5, <2>6 DEF SyncInv, Outstanding
<1>4. QED
  BY <1>2, <1>3

-----------------------------------------------------------------------------
(* Each step keeps the invariant. *)

LEMMA SyncInitially == Init => SyncInv
<1> SUFFICES ASSUME Init PROVE SyncInv
  OBVIOUS
<1>1. GateInv
  BY GateInitially DEF Init
<1>2. Refresh \in Requests /\ 0 \in 0..MaxLoads /\ 0 \in 0..MaxFailures
  BY SyncAssumption
<1>3. Consistent(sync, shown) /\ OneRetry /\ ~Outstanding(sync)
  BY DEF Init, Consistent, Sync, OneRetry, Outstanding
<1>4. ~sync.refreshing /\ ~InFlight(Refresh)
  BY <1>2 DEF Init, GateInit, NoRequest, InFlight
<1>5. stream \in Stream /\ error \in BOOLEAN /\ loads = 0 /\ failures = 0
  BY DEF Init, Stream, Unconnected
<1>6. QED
  BY <1>1, <1>2, <1>3, <1>4, <1>5 DEF SyncInv

(* The callbacks of the sync that leave the gate alone.                     *)
LEMMA ConnectionKeeps ==
  ASSUME SyncInv, start \/ dispose \/ onerror \/ reconnect
  PROVE  SyncInv'
<1>1. UNCHANGED gateVars /\ UNCHANGED loads
  BY DEF start, dispose, onerror, reconnect
<1>2. GateInv'
  BY <1>1, GateUnmoved DEF SyncInv
<1>3. /\ InFlight(Refresh)' <=> InFlight(Refresh)
      /\ shown' = shown
  BY <1>1 DEF InFlight, gateVars
<1>4. /\ sync \in Sync /\ Consistent(sync, shown) /\ stream \in Stream
      /\ shown.revision \in Nat
      /\ shown # NothingShown => shown.map # None
  BY GateTypes, GateAssumption
  DEF SyncInv, Consistent, GateInv, GateTypeOK, Shown
<1>5. /\ error' = error /\ failures' \in 0..MaxFailures /\ stream' \in Stream
  <2>1. error' = error
    BY DEF start, dispose, onerror, reconnect
  <2>2. failures' \in 0..MaxFailures
    BY SyncAssumption DEF SyncInv, start, dispose, onerror, reconnect
  <2>3. stream' \in Stream
    <3>1. \A rev \in Nat : [Unconnected EXCEPT !.after = rev] \in Stream
      BY DEF Unconnected, Stream
    <3>2. shown.revision \in Nat /\ sync.appliedRevision \in Nat
      BY <1>4 DEF Sync
    <3>3. CASE start \/ reconnect
      BY <3>1, <3>2, <3>3 DEF start, reconnect
    <3>4. CASE dispose
      BY <3>4 DEF dispose, Stream, Unconnected
    <3>5. CASE onerror
      BY <1>4, <3>5 DEF onerror, Stream
    <3>6. QED BY <3>3, <3>4, <3>5
  <2>4. QED BY <2>1, <2>2, <2>3
<1>6. /\ Consistent(sync', shown)
      /\ sync'.refreshing = sync.refreshing
      /\ sync'.refreshRetryTimer => sync.refreshRetryTimer
      /\ Outstanding(sync') =>
           Outstanding(sync) /\ (sync.refreshRetryTimer => sync'.refreshRetryTimer)
  <2>1. CASE start
    <3>1. /\ sync' = [sync EXCEPT !.phase = "started", !.source = "connecting",
                                  !.appliedRevision = shown.revision,
                                  !.requiredRevision = shown.revision]
          /\ sync.phase = "absent" /\ shown.map # None
      BY <1>4, <2>1 DEF start, connect, Sync
    <3>2. /\ sync' \in Sync /\ sync'.phase = "started"
          /\ sync'.source = "connecting"
          /\ sync'.appliedRevision = shown.revision
          /\ sync'.requiredRevision = shown.revision
          /\ sync'.reconnectTimer = sync.reconnectTimer
          /\ sync'.refreshRetryTimer = sync.refreshRetryTimer
          /\ sync'.refreshing = sync.refreshing
      BY <1>4, <3>1 DEF Sync
    <3>3. ~sync.reconnectTimer /\ ~sync.refreshRetryTimer
      BY <1>4, <3>1 DEF Consistent
    <3>4. QED
      BY <1>4, <3>1, <3>2, <3>3 DEF Consistent, Outstanding
  <2>2. CASE dispose
    BY <1>4, <2>2 DEF dispose, Consistent, Sync, Outstanding
  <2>3. CASE onerror
    <3>1. PICK outcome \in {"retrying", "dead"} :
            sync' = [sync EXCEPT !.source = outcome, !.reconnectTimer = TRUE]
      BY <2>3 DEF onerror
    <3>2. sync.phase = "started"
      BY <1>4, <2>3 DEF onerror, Consistent
    <3>3. QED
      BY <1>4, <3>1, <3>2 DEF Consistent, Sync, Outstanding
  <2>4. CASE reconnect
    <3>1. sync.phase = "started"
      BY <1>4, <2>4 DEF reconnect, Consistent
    <3>2. QED
      BY <1>4, <2>4, <3>1 DEF reconnect, connect, Consistent, Sync, Outstanding
  <2>5. QED BY <2>1, <2>2, <2>3, <2>4
<1>7. Consistent(sync, shown)' /\ OneRetry'
  BY <1>3, <1>6 DEF SyncInv, OneRetry, Consistent
<1>8. QED
  BY <1>1, <1>2, <1>3, <1>5, <1>6, <1>7 DEF SyncInv, Outstanding

(* The steps of the server and of the explicit loads leave the sync alone.   *)
LEMMA OthersKeep ==
  ASSUME SyncInv,
         \/ ServerMutates \/ ServerRestarts
         \/ \E r \in Requests : ServerAnswers(r)
         \/ \E r \in Loads : Load(r) \/ LoadAnswered(r) \/ LoadRejected(r)
  PROVE  SyncInv'
<1>1. Refresh \in Requests /\ Home \in Maps /\ Loads \subseteq Requests \ {Refresh}
  BY SyncAssumption DEF Home, Loads
<1>2. /\ sync' = sync /\ sync \in Sync /\ Consistent(sync, shown)
      /\ stream \in Stream /\ requests \in [Requests -> Request]
  BY DEF SyncInv, Consistent, GateInv, GateTypeOK, ServerMutates, ServerRestarts,
         ServerAnswers, Load, LoadAnswered, LoadRejected
<1>3. /\ stream' \in Stream /\ error' \in BOOLEAN
      /\ loads' \in 0..MaxLoads /\ failures' \in 0..MaxFailures
  <2>1. stream' \in Stream
    BY <1>2 DEF ServerMutates, ServerRestarts, ServerAnswers, Load, LoadAnswered,
                LoadRejected, Stream
  <2>2. error' \in BOOLEAN
    BY DEF SyncInv, ServerMutates, ServerRestarts, ServerAnswers, Load,
           LoadAnswered, LoadRejected
  <2>3. loads' \in 0..MaxLoads /\ failures' \in 0..MaxFailures
    BY SyncAssumption DEF SyncInv, ServerMutates, ServerRestarts, ServerAnswers,
           Load, LoadAnswered, LoadRejected
  <2>4. QED BY <2>1, <2>2, <2>3
<1>4. /\ GateInv'
      /\ InFlight(Refresh)' <=> InFlight(Refresh)
      /\ shown.map # None =>
           shown'.map # None /\ shown'.revision \in Nat
             /\ shown.revision <= shown'.revision
  <2>0. shown.revision \in Nat
    BY GateTypes DEF SyncInv
  <2>1. CASE ServerMutates
    <3>1. Mutate(Home) /\ UNCHANGED gate
      BY <2>1 DEF ServerMutates, Mutate
    <3>2. GateInv'
      BY <1>1, <3>1, MutateKeeps DEF SyncInv
    <3>3. QED
      BY <2>0, <3>1, <3>2 DEF gate, InFlight
  <2>2. CASE ServerRestarts
    BY <2>0, <2>2, RestartKeeps DEF SyncInv, ServerRestarts, Restart, gate, InFlight
  <2>3. ASSUME NEW r \in Requests, ServerAnswers(r)
        PROVE  /\ GateInv'
               /\ InFlight(Refresh)' <=> InFlight(Refresh)
               /\ shown' = shown
    <3>1. Answer(r)
      BY <2>3 DEF ServerAnswers
    <3>2. GateInv'
      BY <3>1, AnswerKeeps DEF SyncInv
    <3>3. requests'[Refresh].phase # "idle" <=> requests[Refresh].phase # "idle"
      BY <1>1, <1>2, <3>1 DEF Answer, Request
    <3>4. QED
      BY <3>1, <3>2, <3>3 DEF Answer, InFlight
  <2>4. ASSUME NEW r \in Loads, Load(r) \/ LoadRejected(r)
        PROVE  /\ GateInv'
               /\ InFlight(Refresh)' <=> InFlight(Refresh)
               /\ shown' = shown
    <3>1. (BeginRequest(r) \/ Reject(r)) /\ r \in Requests
      BY <1>1, <2>4 DEF Load, LoadRejected
    <3>2. GateInv'
      BY <3>1, BeginRequestKeeps, RejectKeeps DEF SyncInv
    <3>3. requests'[Refresh] = requests[Refresh] /\ shown' = shown
      BY <1>1, <1>2, <3>1 DEF BeginRequest, Reject
    <3>4. QED
      BY <3>2, <3>3 DEF InFlight
  <2>5. ASSUME NEW r \in Loads, LoadAnswered(r)
        PROVE  /\ GateInv'
               /\ InFlight(Refresh)' <=> InFlight(Refresh)
               /\ shown.map # None =>
                    shown'.map # None /\ shown'.revision \in Nat
                      /\ shown.revision <= shown'.revision
    <3>1. Respond(r) /\ r \in Requests /\ Answered(r)
          /\ shown' = AppliedTo(shown, coordinator, requests[r])
      BY <1>1, <2>5 DEF LoadAnswered, Respond, Answered
    <3>2. GateInv'
      BY <3>1, RespondKeeps DEF SyncInv
    <3>3. requests'[Refresh] = requests[Refresh]
      BY <1>1, <1>2, <3>1 DEF Respond
    <3>4. shown.map # None =>
            shown'.map # None /\ shown'.revision \in Nat
              /\ shown'.revision >= shown.revision
      BY <3>1, ViewAdvances DEF SyncInv
    <3>5. QED
      BY <2>0, <3>2, <3>3, <3>4 DEF InFlight
  <2>6. QED
    BY <2>0, <2>1, <2>2, <2>3, <2>4, <2>5
<1>5. Consistent(sync, shown')
  <2>1. sync.appliedRevision \in Nat /\ shown.revision \in Nat
    BY <1>2, GateTypes DEF Sync, SyncInv
  <2>2. QED
    BY <1>2, <1>4, <2>1 DEF Consistent
<1>6. Consistent(sync, shown)' /\ OneRetry'
  BY <1>2, <1>5 DEF SyncInv, OneRetry, Consistent
<1>7. QED
  BY <1>2, <1>3, <1>4, <1>6 DEF SyncInv, Outstanding

(* What asks for a refresh: an opening, an event, the retry timer.          *)
LEMMA AskingKeeps ==
  ASSUME SyncInv, onopen \/ Deliver \/ refreshRetry
  PROVE  SyncInv'
<1>1. /\ sync \in Sync /\ Consistent(sync, shown) /\ stream \in Stream
      /\ error' = error /\ loads' = loads /\ failures' = failures
      /\ UNCHANGED server
  BY DEF SyncInv, Consistent, onopen, Deliver, handleEvent, refreshRetry
<1>2. CASE onopen
  <2> DEFINE s == [sync EXCEPT !.source = "open", !.reconnectTimer = FALSE]
  <2>1. RequestRefresh(s) /\ stream' \in Stream /\ sync.phase = "started"
    BY <1>1, <1>2 DEF onopen, Stream, Consistent
  <2>2. /\ Consistent(s, shown) /\ s.phase = "started"
        /\ s.refreshing = sync.refreshing
        /\ ~(s.refreshing /\ s.refreshRetryTimer)
    BY <1>1, <2>1 DEF SyncInv, OneRetry, Consistent, Sync
  <2> HIDE DEF s
  <2>3. QED
    BY <1>1, <2>1, <2>2, RequestKeeps DEF SyncInv
<1>3. CASE Deliver
  <2>1. PICK rev \in 1..MaxRevision, isResync \in BOOLEAN : handleEvent(rev, isResync)
    BY <1>3 DEF Deliver
  <2>2. rev \in Nat /\ stream' \in Stream /\ sync.phase = "started"
    BY <1>1, <2>1, GateAssumption DEF handleEvent, Stream, Consistent
  <2>3. CASE ~isResync /\ rev <= sync.appliedRevision
    <3>1. UNCHANGED <<sync, gateVars>>
      BY <1>1, <2>1, <2>3 DEF handleEvent, gateVars, gate, server
    <3>2. GateInv' /\ sync' = sync /\ shown' = shown /\ requests' = requests
      BY <3>1, GateUnmoved DEF SyncInv, gateVars
    <3>3. QED
      BY <1>1, <2>2, <3>2
      DEF SyncInv, Consistent, OneRetry, Outstanding, InFlight
  <2>4. CASE ~(~isResync /\ rev <= sync.appliedRevision)
    <3> DEFINE s == [sync EXCEPT
                       !.requiredRevision = Larger(sync.requiredRevision, rev)]
    <3>1. RequestRefresh(s)
      BY <2>1, <2>4 DEF handleEvent
    <3>2. Larger(sync.requiredRevision, rev) \in Nat
      BY <1>1, <2>2 DEF Larger, Sync
    <3>3. /\ Consistent(s, shown) /\ s.phase = "started"
          /\ s.refreshing = sync.refreshing
          /\ ~(s.refreshing /\ s.refreshRetryTimer)
      BY <1>1, <2>2, <3>2 DEF SyncInv, OneRetry, Consistent, Sync
    <3> HIDE DEF s
    <3>4. QED
      BY <1>1, <2>2, <3>1, <3>3, RequestKeeps DEF SyncInv
  <2>5. QED BY <2>3, <2>4
<1>4. CASE refreshRetry
  <2> DEFINE s == [sync EXCEPT !.refreshRetryTimer = FALSE]
  <2>1. RequestRefresh(s) /\ stream' = stream /\ sync.phase = "started"
    BY <1>1, <1>4 DEF refreshRetry, Consistent
  <2>2. /\ Consistent(s, shown) /\ s.phase = "started"
        /\ s.refreshing = sync.refreshing
        /\ ~(s.refreshing /\ s.refreshRetryTimer)
    BY <1>1, <2>1 DEF SyncInv, OneRetry, Consistent, Sync
  <2> HIDE DEF s
  <2>3. QED
    BY <1>1, <2>1, <2>2, RequestKeeps DEF SyncInv
<1>5. QED
  BY <1>2, <1>3, <1>4

(* What ends a refresh.                                                     *)
LEMMA RefreshKeeps ==
  ASSUME SyncInv, RefreshAnswered \/ RefreshRejected
  PROVE  SyncInv'
<1>1. /\ Refresh \in Requests /\ sync \in Sync /\ Consistent(sync, shown)
      /\ InFlight(Refresh) /\ sync.refreshing /\ ~sync.refreshRetryTimer
      /\ sync.phase # "absent" /\ shown.map # None
      /\ stream' = stream /\ loads' = loads /\ UNCHANGED server
      /\ requests[Refresh] \in Request /\ shown.revision \in Nat
  BY SyncAssumption, GateTypes
  DEF SyncInv, Consistent, OneRetry, InFlight, RefreshAnswered, RefreshRejected
<1>2. error' \in BOOLEAN /\ failures' \in 0..MaxFailures
  <2>1. CASE RefreshAnswered
    <3>1. failures' = failures
      BY <2>1 DEF RefreshAnswered
    <3>2. \/ error' = error
          \/ error' = (error /\ ~ShouldApply(Noted(coordinator, requests[Refresh]),
                                            requests[Refresh]))
      BY <2>1 DEF RefreshAnswered
    <3>3. QED
      BY <3>1, <3>2 DEF SyncInv
  <2>2. CASE RefreshRejected
    <3>1. error' \in BOOLEAN
      BY <2>2 DEF RefreshRejected
    <3>2. QED
      BY <2>2, <3>1, SyncAssumption DEF SyncInv, RefreshRejected
  <2>3. QED BY <2>1, <2>2
<1> DEFINE answer == requests[Refresh]
           tooOld == answer.revision < sync.requiredRevision
<1>3. CASE RefreshAnswered /\ stopped
  <2>1. Settled(sync, coordinator) /\ shown' = shown
    BY <1>3 DEF RefreshAnswered
  <2>2. ~Outstanding(sync)
    BY <1>3 DEF Outstanding, stopped
  <2>3. QED
    BY <1>1, <1>2, <2>1, <2>2, SettledKeeps DEF SyncInv
<1>4. CASE RefreshAnswered /\ ~stopped /\ tooOld
  <2> DEFINE s == [sync EXCEPT !.refreshQueued = TRUE]
  <2>1. Settled(s, coordinator) /\ shown' = shown
    BY <1>4 DEF RefreshAnswered
  <2>2. Consistent(s, shown) /\ s.refreshQueued /\ s.phase # "absent"
    BY <1>1 DEF Consistent, Sync
  <2> HIDE DEF s
  <2>3. QED
    BY <1>1, <1>2, <2>1, <2>2, SettledKeeps DEF SyncInv
<1>5. CASE RefreshAnswered /\ ~stopped /\ ~tooOld
  <2> DEFINE s == [sync EXCEPT !.appliedRevision =
                                 Larger(sync.appliedRevision, answer.revision)]
             view == AppliedTo(shown, coordinator, answer)
             after == AfterResponse(coordinator, answer)
  <2>1. Settled(s, after) /\ shown' = view /\ Answered(Refresh)
    BY <1>5 DEF RefreshAnswered, Answered
  <2>2. /\ view.map # None /\ view.revision \in Nat
        /\ view.revision >= shown.revision /\ view.revision >= answer.revision
    BY <1>1, <2>1, ViewAdvances DEF SyncInv
  <2>3. /\ sync.appliedRevision \in Nat /\ answer.revision \in Nat
        /\ sync.requiredRevision \in Nat /\ sync.requiredRevision <= answer.revision
        /\ sync.appliedRevision <= shown.revision
    BY <1>1, <1>5 DEF Sync, Request, Consistent
  <2> HIDE DEF view, after
  <2>4. /\ Larger(sync.appliedRevision, answer.revision) \in Nat
        /\ Larger(sync.appliedRevision, answer.revision) <= view.revision
        /\ sync.requiredRevision <= Larger(sync.appliedRevision, answer.revision)
    BY <1>1, <2>2, <2>3 DEF Larger
  <2>5. Consistent(s, view) /\ s.phase # "absent" /\ ~Outstanding(s)
    BY <1>1, <2>2, <2>3, <2>4 DEF Consistent, Sync, Outstanding
  <2> HIDE DEF s
  <2>6. QED
    BY <1>1, <1>2, <2>1, <2>5, SettledKeeps DEF SyncInv, view, after
<1>6. CASE RefreshRejected
  <2> DEFINE s == IF stopped THEN sync
                  ELSE [sync EXCEPT !.refreshRetryTimer = TRUE]
  <2>1. Settled(s, coordinator) /\ shown' = shown
    BY <1>6 DEF RefreshRejected
  <2>2. /\ Consistent(s, shown) /\ s.phase # "absent"
        /\ Outstanding(s) => s.refreshRetryTimer
    BY <1>1 DEF Consistent, Sync, Outstanding, stopped
  <2> HIDE DEF s
  <2>3. QED
    BY <1>1, <1>2, <2>1, <2>2, SettledKeeps DEF SyncInv
<1>7. QED
  BY <1>3, <1>4, <1>5, <1>6

LEMMA SyncInductive == SyncInv /\ [Next]_vars => SyncInv'
<1> SUFFICES ASSUME SyncInv, [Next]_vars PROVE SyncInv'
  OBVIOUS
<1>1. CASE \/ ServerMutates \/ ServerRestarts
           \/ \E r \in Requests : ServerAnswers(r)
           \/ \E r \in Loads : Load(r) \/ LoadAnswered(r) \/ LoadRejected(r)
  BY <1>1, OthersKeep
<1>2. CASE start \/ dispose \/ onerror \/ reconnect
  BY <1>2, ConnectionKeeps
<1>3. CASE onopen \/ Deliver \/ refreshRetry
  BY <1>3, AskingKeeps
<1>4. CASE RefreshAnswered \/ RefreshRejected
  BY <1>4, RefreshKeeps
<1>5. CASE UNCHANGED vars
  <2>1. GateInv'
    BY <1>5, GateUnmoved DEF vars, SyncInv
  <2>2. QED
    BY <1>5, <2>1 DEF vars, gateVars, SyncInv, Consistent, OneRetry, Outstanding,
                      InFlight
<1>6. \A r \in Requests : Load(r) \/ LoadAnswered(r) \/ LoadRejected(r) => r \in Loads
  BY DEF Load, LoadAnswered, LoadRejected
<1>7. QED
  BY <1>1, <1>2, <1>3, <1>4, <1>5, <1>6 DEF Next

-----------------------------------------------------------------------------
(* The theorems. *)

(* Every reachable state of the sync has the inductive invariant.           *)
THEOREM SyncInvariant == Spec => []SyncInv
<1>1. QED
  BY SyncInitially, SyncInductive, PTL DEF Spec

(* The sync, its connection and the gate keep their types, and refreshing    *)
(* is true just while the refresh is in flight.                             *)
THEOREM SyncTypeCorrect == Spec => []TypeOK
<1>1. SyncInv => TypeOK
  BY DEF SyncInv, TypeOK, GateInv, Consistent, InFlight
<1>2. QED
  BY <1>1, SyncInvariant, PTL

(* Events are ignored only for what the screen has reached.                 *)
THEOREM AppliedStaysShown == Spec => []AppliedIsShown
<1>1. SyncInv => AppliedIsShown
  BY DEF SyncInv, Consistent, AppliedIsShown
<1>2. QED
  BY <1>1, SyncInvariant, PTL

(* However callbacks interleave with failures, what is outstanding has one   *)
(* fetch or one timer that will see to it, and a failed stream has its own. *)
THEOREM RecoveryStaysScheduled == Spec => []RecoveryIsScheduled
<1>1. SyncInv => RecoveryIsScheduled
  BY DEF SyncInv, Consistent, Outstanding, RecoveryIsScheduled, RequiredIsFetched,
         FailedIsReplaced
<1>2. QED
  BY <1>1, SyncInvariant, PTL

(* What a step may show: nothing new, or what the gate makes of an answer.   *)
LEMMA StepShows ==
  ASSUME SyncInv, [Next]_vars
  PROVE  \/ shown' = shown
         \/ \E r \in Requests :
              /\ Answered(r)
              /\ shown' = AppliedTo(shown, coordinator, requests[r])
              /\ r = Refresh => ~stopped
              /\ r # Refresh => Respond(r)
<1>1. CASE \/ ServerMutates \/ ServerRestarts
           \/ \E r \in Requests : ServerAnswers(r) \/ Load(r) \/ LoadRejected(r)
  BY <1>1 DEF ServerMutates, Mutate, gate, ServerRestarts, Restart, ServerAnswers,
              Answer, Load, BeginRequest, LoadRejected, Reject
<1>2. ASSUME NEW r \in Requests, LoadAnswered(r)
      PROVE  /\ Answered(r) /\ r # Refresh /\ Respond(r)
             /\ shown' = AppliedTo(shown, coordinator, requests[r])
  BY <1>2 DEF LoadAnswered, Loads, Respond, Answered
<1>3. CASE start \/ dispose \/ onerror \/ reconnect \/ UNCHANGED vars
  BY <1>3 DEF start, dispose, onerror, reconnect, vars, gateVars
<1>4. CASE onopen \/ Deliver \/ refreshRetry
  BY <1>4 DEF onopen, Deliver, handleEvent, refreshRetry, RequestRefresh, gate
<1>5. CASE RefreshRejected
  BY <1>5 DEF RefreshRejected
<1>6. CASE RefreshAnswered
  BY <1>6, SyncAssumption DEF RefreshAnswered, Answered
<1>7. QED
  BY <1>1, <1>2, <1>3, <1>4, <1>5, <1>6 DEF Next

(* After dispose the sync starts nothing, and shows nothing of what it had   *)
(* asked for; only an explicit load's answer still reaches the screen.      *)
THEOREM StaysQuiet == Spec => DisposedStaysQuiet
<1> DEFINE quiet ==
      stopped => /\ sync'.phase = "stopped"
                 /\ sync'.refreshing => sync.refreshing
                 /\ shown' # shown =>
                      \E r \in Loads : requests[r].phase = "answered"
                                       /\ requests'[r].phase = "idle"
<1>1. SyncInv /\ [Next]_vars => [quiet]_vars
  <2> SUFFICES ASSUME SyncInv, Next, stopped PROVE quiet
    OBVIOUS
  <2>1. /\ sync \in Sync /\ sync.phase = "stopped" /\ sync.source = "null"
        /\ ~sync.refreshRetryTimer /\ ~sync.reconnectTimer
        /\ requests \in [Requests -> Request]
    BY DEF SyncInv, Consistent, stopped, GateInv, GateTypeOK
  <2>2. /\ ~start /\ ~dispose /\ ~onopen /\ ~onerror /\ ~reconnect /\ ~Deliver
        /\ ~refreshRetry
    BY <2>1 DEF start, dispose, onopen, onerror, reconnect, Deliver, handleEvent,
                refreshRetry
  <2>3. CASE RefreshAnswered \/ RefreshRejected
    <3>1. \E coord : Settled(sync, coord)
      BY <2>3 DEF RefreshAnswered, RefreshRejected, stopped
    <3>2. sync' = [sync EXCEPT !.refreshing = FALSE]
      BY <2>1, <3>1 DEF Settled, Sync
    <3>3. QED
      <4>1. shown' = shown
        BY <2>3 DEF RefreshAnswered, RefreshRejected
      <4>2. sync'.phase = "stopped" /\ ~sync'.refreshing
        BY <2>1, <3>2 DEF Sync
      <4>3. QED BY <4>1, <4>2
  <2>4. CASE \/ ServerMutates \/ ServerRestarts
             \/ \E r \in Requests : ServerAnswers(r) \/ Load(r) \/ LoadRejected(r)
    BY <2>1, <2>4 DEF ServerMutates, Mutate, gate, ServerRestarts, Restart,
       ServerAnswers, Answer, Load, BeginRequest, LoadRejected, Reject
  <2>5. ASSUME NEW r \in Requests, LoadAnswered(r) PROVE quiet
    BY <2>1, <2>5 DEF LoadAnswered, Respond, NoRequest
  <2>6. QED
    BY <2>2, <2>3, <2>4, <2>5 DEF Next
<1>2. QED
  BY <1>1, SyncInvariant, PTL DEF Spec, DisposedStaysQuiet

(* Through the whole sync too, the screen never goes back to an older        *)
(* revision, ...                                                            *)
THEOREM SyncNeverBack == Spec => RevisionNeverGoesBack
<1> DEFINE kept == shown'.map = shown.map => shown'.revision >= shown.revision
<1>1. SyncInv /\ [Next]_vars => [kept]_gateVars
  <2> SUFFICES ASSUME SyncInv, [Next]_vars PROVE kept
    OBVIOUS
  <2>1. shown.revision \in Nat /\ GateInv
    BY GateTypes DEF SyncInv
  <2>2. QED
    BY <2>1, StepShows, ViewAdvances
<1>2. QED
  BY <1>1, SyncInvariant, PTL DEF Spec, RevisionNeverGoesBack

(* ... nor to a process before the one that a reconnection asked.           *)
THEOREM SyncNotUndone == Spec => RestartNotUndone
<1> DEFINE kept == shown'.process >= shown.since
<1>1. SyncInv /\ [Next]_vars => [kept]_gateVars
  <2> SUFFICES ASSUME SyncInv, [Next]_vars PROVE kept
    OBVIOUS
  <2>1. /\ shown.process \in Nat /\ shown.since \in Nat /\ GateInv
        /\ shown.since <= shown.process
    BY GateTypes DEF SyncInv, GateInv, ShownIsGated
  <2>2. QED
    BY <2>1, StepShows, ViewAdvances
<1>2. QED
  BY <1>1, SyncInvariant, PTL DEF Spec, RestartNotUndone
====
