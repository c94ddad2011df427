-------------------------- MODULE SnapshotCoordinator --------------------------
(***************************************************************************)
(* The gate that every fetched snapshot passes before it is shown          *)
(* (frontend/src/app/snapshotCoordinator.ts with applySnapshot and         *)
(* requestSnapshot of App.tsx).                                            *)
(*                                                                         *)
(* A request takes its ticket before its fetch begins; its snapshot is     *)
(* read by the server at some later moment, in one read transaction, and   *)
(* its response arrives later still, in any order with the others.  A      *)
(* snapshot is the map it is of, its revision, and the server process that *)
(* derived its stale flags, since a restart changes those without an event.*)
(***************************************************************************)
EXTENDS Integers

CONSTANTS
  Maps,         \* map ids
  Requests,     \* snapshot fetches that may be in flight at once
  None,         \* no snapshot
  MaxRevision,  \* bound: events of a map
  MaxRestarts,  \* bound: restarts of the server
  MaxTickets    \* bound: tickets

VARIABLES
  revision,     \* the newest committed revision of each map
  process,      \* the server process, counted
  coordinator,  \* SnapshotCoordinator
  requests,     \* the fetches
  shown         \* App's snapshot

server == <<revision, process>>
gate == <<coordinator, requests, shown>>
gateVars == <<revision, process, coordinator, requests, shown>>

ASSUME GateAssumption ==
  /\ MaxRevision \in Nat /\ MaxRestarts \in Nat /\ MaxTickets \in Nat
  /\ None \notin Maps

Snapshot == [map : Maps, revision : Nat, process : Nat]
Shown == [map : Maps, revision : Nat, process : Nat, since : Nat]
Coordinator ==
  [mapId : Maps \cup {None}, revision : Int, nextGeneration : Nat,
   latestStartedGeneration : Nat, appliedGeneration : Nat]
(* `since', a history field, is the process a request began under. *)
Request ==
  [phase : {"idle", "sent", "answered"}, generation : Nat, since : Nat,
   map : Maps \cup {None}, revision : Nat, process : Nat]

NoRequest == [phase |-> "idle", generation |-> 0, since |-> 0, map |-> None,
              revision |-> 0, process |-> 0]
NothingShown == [map |-> None, revision |-> 0, process |-> 0, since |-> 0]

GateTypeOK ==
  /\ revision \in [Maps -> Nat]
  /\ process \in Nat
  /\ coordinator \in Coordinator
  /\ coordinator.latestStartedGeneration = coordinator.nextGeneration
  /\ requests \in [Requests -> Request]
  /\ shown \in Shown \cup {NothingShown}

GateInit ==
  /\ revision = [m \in Maps |-> 0]
  /\ process = 0
  /\ coordinator = [mapId |-> None, revision |-> -1, nextGeneration |-> 0,
                    latestStartedGeneration |-> 0, appliedGeneration |-> 0]
  /\ requests = [r \in Requests |-> NoRequest]
  /\ shown = NothingShown

-----------------------------------------------------------------------------
(* The server. *)

Mutate(m) ==
  /\ revision[m] < MaxRevision
  /\ revision' = [revision EXCEPT ![m] = @ + 1]
  /\ UNCHANGED <<process, gate>>

Restart ==
  /\ process < MaxRestarts
  /\ process' = process + 1
  /\ UNCHANGED <<revision, gate>>

(* GET snapshot, of whichever map the fetch selects. *)
Answer(r) ==
  /\ requests[r].phase = "sent"
  /\ \E m \in Maps :
       requests' = [requests EXCEPT ![r].phase = "answered", ![r].map = m,
                                    ![r].revision = revision[m],
                                    ![r].process = process]
  /\ UNCHANGED <<server, coordinator, shown>>

-----------------------------------------------------------------------------
(* beginRequest *)

BegunUncounted(coord) == [coord EXCEPT !.nextGeneration = @ + 1]
Begun(coord) ==
  [coord EXCEPT !.nextGeneration = @ + 1,
                !.latestStartedGeneration = coord.nextGeneration + 1]
Sent(coord) ==
  [NoRequest EXCEPT !.phase = "sent", !.since = process,
                    !.generation = coord.nextGeneration + 1]

BeginRequest(r) ==
  /\ requests[r].phase = "idle"
  /\ coordinator' = Begun(coordinator)
  /\ requests' = [requests EXCEPT ![r] = Sent(coordinator)]
  /\ UNCHANGED <<server, shown>>

-----------------------------------------------------------------------------
(* shouldApply *)

Larger(i, j) == IF i < j THEN j ELSE i

(* A ticket the caller has kept never lowers the counters. *)
Noted(coord, request) ==
  [coord EXCEPT
     !.nextGeneration = Larger(@, request.generation),
     !.latestStartedGeneration = Larger(@, request.generation)]

ShouldApplyAnyOrder(coord, request) == TRUE
ShouldApplyLastAnswer(coord, request) ==
  coord.mapId = request.map => request.revision >= coord.revision
ShouldApply(coord, request) ==
  LET isLatest == request.generation >= coord.latestStartedGeneration
  IN IF coord.mapId # request.map THEN isLatest
     ELSE \/ request.revision > coord.revision
          \/ /\ request.revision = coord.revision
             /\ isLatest /\ request.generation >= coord.appliedGeneration

AfterResponse(coord, request) ==
  LET noted == Noted(coord, request)
  IN IF ~ShouldApply(noted, request) THEN noted
     ELSE [noted EXCEPT
             !.mapId = request.map,
             !.revision = request.revision,
             !.appliedGeneration =
               IF coord.mapId = request.map /\ request.revision > coord.revision
               THEN Larger(@, request.generation) ELSE request.generation]

AppliedTo(view, coord, request) ==
  IF ShouldApply(Noted(coord, request), request)
  THEN [map |-> request.map, revision |-> request.revision,
        process |-> request.process, since |-> request.since]
  ELSE view

Respond(r) ==
  /\ requests[r].phase = "answered"
  /\ coordinator' = AfterResponse(coordinator, requests[r])
  /\ shown' = AppliedTo(shown, coordinator, requests[r])
  /\ requests' = [requests EXCEPT ![r] = NoRequest]
  /\ UNCHANGED server

(* The fetch is rejected, before or after the server has read. *)
Reject(r) ==
  /\ requests[r].phase # "idle"
  /\ requests' = [requests EXCEPT ![r] = NoRequest]
  /\ UNCHANGED <<server, coordinator, shown>>

-----------------------------------------------------------------------------
GateNext ==
  \/ \E m \in Maps : Mutate(m)
  \/ Restart
  \/ \E r \in Requests :
       \/ coordinator.nextGeneration < MaxTickets /\ BeginRequest(r)
       \/ Answer(r) \/ Respond(r) \/ Reject(r)

GateSpec == GateInit /\ [][GateNext]_gateVars

-----------------------------------------------------------------------------
(* Properties. *)

(* The visible map is never replaced by an older revision of itself,        *)
(* whatever order the responses arrive in.                                  *)
RevisionNeverGoesBack ==
  [][shown'.map = shown.map => shown'.revision >= shown.revision]_gateVars

(* Once a snapshot requested under a server process is shown, no snapshot   *)
(* derived by an earlier process replaces it, of equal revision or of       *)
(* another map though it may be: an old in-flight refresh cannot undo the   *)
(* snapshot that a reconnection fetched.                                    *)
RestartNotUndone == [][shown'.process >= shown.since]_gateVars
====
