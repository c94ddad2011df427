----------------------- MODULE SnapshotCoordinatorProofs -----------------------
(***************************************************************************)
(* The map on the screen never goes back, for any number of requests, maps,*)
(* changes and restarts.                                                   *)
(*                                                                         *)
(* Neither property is inductive.  What carries them is that two orders    *)
(* agree with the restarts: a newer revision of a map was read from no     *)
(* older a process (SnapshotsAreOrdered), and a later ticket began under no*)
(* older a process (TicketsAreOrdered).  shouldApply lets a snapshot       *)
(* through for one of these two reasons, and for no other.                 *)
(***************************************************************************)
EXTENDS SnapshotCoordinator, TLAPS

Answered(r) == requests[r].phase = "answered"
InFlight(r) == requests[r].phase # "idle"

(* What is shown is what the coordinator last let through. *)
ShownIsGated ==
  /\ coordinator.mapId = shown.map
  /\ shown.map # None => /\ shown.revision = coordinator.revision
                         /\ shown.revision <= revision[shown.map]
  /\ shown.since <= shown.process /\ shown.process <= process
  /\ coordinator.appliedGeneration <= coordinator.latestStartedGeneration

(* A request is no newer than the tickets, its snapshot than the server. *)
RequestsArePast ==
  \A r \in Requests :
    /\ InFlight(r) =>
         /\ requests[r].generation <= coordinator.latestStartedGeneration
         /\ requests[r].since <= process
    /\ Answered(r) =>
         /\ requests[r].map \in Maps
         /\ requests[r].revision <= revision[requests[r].map]
         /\ requests[r].since <= requests[r].process
         /\ requests[r].process <= process

(* Of two snapshots of a map the newer revision is from no older a process. *)
SnapshotsAreOrdered ==
  /\ \A r, q \in Requests :
       (/\ Answered(r) /\ Answered(q)
        /\ requests[q].map = requests[r].map
        /\ requests[r].revision > requests[q].revision)
         => requests[r].process >= requests[q].process
  /\ \A r \in Requests :
       (/\ Answered(r)
        /\ shown.map = requests[r].map
        /\ requests[r].revision > shown.revision)
         => requests[r].process >= shown.process

(* Of two tickets the later began under no older a process. *)
TicketsAreOrdered ==
  /\ \A r, q \in Requests :
       (/\ InFlight(r) /\ InFlight(q)
        /\ requests[q].generation <= requests[r].generation)
         => requests[q].since <= requests[r].since
  /\ \A r \in Requests :
       (/\ InFlight(r)
        /\ requests[r].generation >= coordinator.latestStartedGeneration)
         => shown.since <= requests[r].since

GateInv ==
  /\ GateTypeOK
  /\ ShownIsGated
  /\ RequestsArePast
  /\ SnapshotsAreOrdered
  /\ TicketsAreOrdered

USE GateAssumption DEF InFlight, Answered

-----------------------------------------------------------------------------
(* A ticket in flight is not beyond the counters, so noting it changes      *)
(* nothing.                                                                 *)
LEMMA NotedIsSame ==
  ASSUME GateInv, NEW r \in Requests, InFlight(r)
  PROVE  Noted(coordinator, requests[r]) = coordinator
<1>1. /\ coordinator \in Coordinator
      /\ requests[r].generation \in Nat
      /\ requests[r].generation <= coordinator.latestStartedGeneration
      /\ coordinator.latestStartedGeneration = coordinator.nextGeneration
  BY DEF GateInv, GateTypeOK, RequestsArePast, Request
<1>2. /\ Larger(coordinator.nextGeneration, requests[r].generation)
           = coordinator.nextGeneration
      /\ Larger(coordinator.latestStartedGeneration, requests[r].generation)
           = coordinator.latestStartedGeneration
  BY <1>1 DEF Larger, Coordinator
<1> QED
  BY <1>1, <1>2 DEF Noted, Coordinator

(* What the gate makes of an answer: nothing, or it lets the snapshot        *)
(* through, which is then of a newer revision or of the latest ticket.  What *)
(* it turns down of the visible map is not newer than what is visible.       *)
LEMMA GateDecides ==
  ASSUME GateInv, NEW r \in Requests, Answered(r),
         NEW view, view = AppliedTo(shown, coordinator, requests[r]),
         NEW after, after = AfterResponse(coordinator, requests[r])
  PROVE  \/ /\ view = shown /\ after = coordinator
            /\ shown.map = requests[r].map =>
                 requests[r].revision <= shown.revision
         \/ /\ view = [map |-> requests[r].map,
                       revision |-> requests[r].revision,
                       process |-> requests[r].process,
                       since |-> requests[r].since]
            /\ after \in Coordinator
            /\ after.mapId = requests[r].map
            /\ after.revision = requests[r].revision
            /\ after.nextGeneration = coordinator.nextGeneration
            /\ after.latestStartedGeneration
                 = coordinator.latestStartedGeneration
            /\ after.appliedGeneration <= coordinator.latestStartedGeneration
            /\ \/ requests[r].generation >= coordinator.latestStartedGeneration
                  /\ (shown.map = requests[r].map =>
                        requests[r].revision >= shown.revision)
               \/ shown.map = requests[r].map
                  /\ requests[r].revision > shown.revision
<1> DEFINE req == requests[r]
<1>1. Answered(r) /\ InFlight(r)
  BY DEF Answered, InFlight
<1>2. Noted(coordinator, req) = coordinator
  BY <1>1, NotedIsSame
<1>3. /\ coordinator \in Coordinator
      /\ req \in Request /\ req.map \in Maps
      /\ req.generation <= coordinator.latestStartedGeneration
      /\ coordinator.mapId = shown.map
      /\ shown.map # None => shown.revision = coordinator.revision
      /\ coordinator.appliedGeneration <= coordinator.latestStartedGeneration
  BY <1>1 DEF GateInv, GateTypeOK, RequestsArePast, ShownIsGated
<1>4. CASE ~ShouldApply(coordinator, req)
  <2>1. view = shown /\ after = coordinator
    BY <1>2, <1>4 DEF AfterResponse, AppliedTo
  <2>2. shown.map = req.map => req.revision <= shown.revision
    BY <1>3, <1>4 DEF ShouldApply, Coordinator, Request
  <2> QED
    BY <2>1, <2>2
<1>5. CASE ShouldApply(coordinator, req)
  <2>1. view = [map |-> req.map, revision |-> req.revision,
                process |-> req.process, since |-> req.since]
    BY <1>2, <1>5 DEF AppliedTo
  <2> DEFINE applied ==
        IF coordinator.mapId = req.map /\ req.revision > coordinator.revision
        THEN Larger(coordinator.appliedGeneration, req.generation)
        ELSE req.generation
  <2>2. after = [coordinator EXCEPT !.mapId = req.map,
                                    !.revision = req.revision,
                                    !.appliedGeneration = applied]
    BY <1>2, <1>5 DEF AfterResponse
  <2>3. applied \in Nat /\ applied <= coordinator.latestStartedGeneration
    BY <1>3 DEF Larger, Coordinator, Request
  <2> HIDE DEF applied
  <2>4. /\ after \in Coordinator
        /\ after.mapId = req.map
        /\ after.revision = req.revision
        /\ after.nextGeneration = coordinator.nextGeneration
        /\ after.latestStartedGeneration = coordinator.latestStartedGeneration
        /\ after.appliedGeneration = applied
    <3>1. req.map \in Maps \cup {None} /\ req.revision \in Int
      BY <1>3 DEF Request
    <3> QED
      BY <1>3, <2>2, <2>3, <3>1 DEF Coordinator
  <2>5. \/ req.generation >= coordinator.latestStartedGeneration
           /\ (shown.map = req.map => req.revision >= shown.revision)
        \/ shown.map = req.map /\ req.revision > shown.revision
    BY <1>3, <1>5 DEF ShouldApply, Coordinator, Request
  <2> QED
    BY <2>1, <2>3, <2>4, <2>5
<1> QED
  BY <1>4, <1>5

(* The same of a response, which is the gate's decision made visible.       *)
LEMMA ResponseShows ==
  ASSUME GateInv, NEW r \in Requests, Respond(r)
  PROVE  \/ shown' = shown /\ coordinator' = coordinator
         \/ /\ shown' = [map |-> requests[r].map,
                         revision |-> requests[r].revision,
                         process |-> requests[r].process,
                         since |-> requests[r].since]
            /\ coordinator' \in Coordinator
            /\ coordinator'.mapId = requests[r].map
            /\ coordinator'.revision = requests[r].revision
            /\ coordinator'.nextGeneration = coordinator.nextGeneration
            /\ coordinator'.latestStartedGeneration
                 = coordinator.latestStartedGeneration
            /\ coordinator'.appliedGeneration
                 <= coordinator.latestStartedGeneration
            /\ \/ requests[r].generation >= coordinator.latestStartedGeneration
                  /\ (shown.map = requests[r].map =>
                        requests[r].revision >= shown.revision)
               \/ shown.map = requests[r].map
                  /\ requests[r].revision > shown.revision
<1>1. /\ Answered(r)
      /\ shown' = AppliedTo(shown, coordinator, requests[r])
      /\ coordinator' = AfterResponse(coordinator, requests[r])
  BY DEF Respond, Answered
<1> QED
  BY <1>1, GateDecides

-----------------------------------------------------------------------------
(* The invariant. *)

LEMMA GateInitially ==
  GateInit => GateInv
<1> SUFFICES ASSUME GateInit PROVE GateInv
  OBVIOUS
<1>1. \A r \in Requests : ~InFlight(r) /\ ~Answered(r)
  BY DEF GateInit, NoRequest, InFlight, Answered
<1>2. GateTypeOK
  BY DEF GateInit, GateTypeOK, Coordinator, Request, NoRequest
<1>3. ShownIsGated
  BY DEF GateInit, ShownIsGated, NothingShown
<1> QED
  BY <1>1, <1>2, <1>3
     DEF GateInv, RequestsArePast, SnapshotsAreOrdered, TicketsAreOrdered

LEMMA GateTypes ==
  ASSUME GateInv
  PROVE  /\ revision \in [Maps -> Nat] /\ process \in Nat
         /\ coordinator \in Coordinator
         /\ coordinator.latestStartedGeneration \in Nat
         /\ \A r \in Requests :
              requests[r] \in Request
         /\ shown.revision \in Nat /\ shown.process \in Nat
         /\ shown.since \in Nat
BY DEF GateInv, GateTypeOK, Coordinator, Shown, NothingShown

LEMMA MutateKeeps ==
  ASSUME GateInv, NEW m \in Maps, Mutate(m) PROVE GateInv'
<1> USE DEF Mutate, gate
<1>1. /\ revision' \in [Maps -> Nat]
      /\ \A n \in Maps : revision[n] <= revision'[n]
  BY DEF GateInv, GateTypeOK
<1>2. GateTypeOK'
  BY <1>1 DEF GateInv, GateTypeOK
<1>3. ShownIsGated'
  <2>1. shown.map # None => shown.map \in Maps /\ shown.revision \in Nat
    BY DEF GateInv, GateTypeOK, Shown, NothingShown
  <2> QED
    BY <1>1, <2>1 DEF GateInv, GateTypeOK, ShownIsGated
<1>4. RequestsArePast'
  BY <1>1 DEF GateInv, GateTypeOK, RequestsArePast, Request, InFlight, Answered
<1>5. SnapshotsAreOrdered' /\ TicketsAreOrdered'
  BY DEF GateInv, SnapshotsAreOrdered, TicketsAreOrdered, InFlight, Answered
<1> QED
  BY <1>2, <1>3, <1>4, <1>5 DEF GateInv

LEMMA RestartKeeps ==
  ASSUME GateInv, Restart PROVE GateInv'
<1> USE DEF Restart, gate
<1>1. process' \in Nat /\ process' = process + 1
  BY GateTypes
<1>2. GateTypeOK'
  BY <1>1 DEF GateInv, GateTypeOK
<1>3. ShownIsGated'
  BY <1>1, GateTypes DEF GateInv, ShownIsGated
<1>4. RequestsArePast'
  <2> SUFFICES ASSUME NEW r \in Requests PROVE
        /\ InFlight(r) =>
             /\ requests[r].generation <= coordinator.latestStartedGeneration
             /\ requests[r].since <= process + 1
        /\ Answered(r) =>
             /\ requests[r].map \in Maps
             /\ requests[r].revision <= revision[requests[r].map]
             /\ requests[r].since <= requests[r].process
             /\ requests[r].process <= process + 1
    BY <1>1 DEF RequestsArePast, InFlight, Answered
  <2>1. /\ requests[r].since \in Nat /\ requests[r].process \in Nat
        /\ process \in Nat
    BY GateTypes DEF Request
  <2> QED
    BY <2>1 DEF GateInv, RequestsArePast
<1>5. SnapshotsAreOrdered' /\ TicketsAreOrdered'
  BY DEF GateInv, SnapshotsAreOrdered, TicketsAreOrdered, InFlight, Answered
<1> QED
  BY <1>2, <1>3, <1>4, <1>5 DEF GateInv

LEMMA RejectKeeps ==
  ASSUME GateInv, NEW r \in Requests, Reject(r) PROVE GateInv'
<1>1. /\ requests' \in [Requests -> Request]
      /\ \A q \in Requests : q # r => requests'[q] = requests[q]
      /\ requests'[r] = NoRequest
      /\ UNCHANGED <<revision, process, coordinator, shown>>
  BY DEF Reject, server, GateInv, GateTypeOK, Request, NoRequest
<1>2. requests'[r].phase = "idle"
  BY <1>1 DEF InFlight, Answered, NoRequest
<1>3. \A q \in Requests :
        /\ requests'[q].phase # "idle" => requests[q].phase # "idle" /\ q # r
        /\ requests'[q].phase = "answered" => requests[q].phase = "answered" /\ q # r
  BY <1>1, <1>2 DEF InFlight, Answered
<1>4. GateTypeOK' /\ ShownIsGated'
  BY <1>1 DEF GateInv, GateTypeOK, ShownIsGated
<1>5. RequestsArePast'
  <2> SUFFICES ASSUME NEW q \in Requests
               PROVE  /\ requests'[q].phase # "idle" =>
                           /\ requests'[q].generation
                                <= coordinator.latestStartedGeneration
                           /\ requests'[q].since <= process
                      /\ requests'[q].phase = "answered" =>
                           /\ requests'[q].map \in Maps
                           /\ requests'[q].revision <= revision[requests'[q].map]
                           /\ requests'[q].since <= requests'[q].process
                           /\ requests'[q].process <= process
    BY <1>1 DEF RequestsArePast
  <2>1. CASE q = r
    BY <1>2, <2>1
  <2>2. CASE q # r
    BY <1>1, <2>2 DEF GateInv, RequestsArePast
  <2> QED
    BY <2>1, <2>2
<1>6. SnapshotsAreOrdered'
  <2>1. ASSUME NEW p \in Requests, NEW q \in Requests,
               requests'[p].phase = "answered", requests'[q].phase = "answered",
               requests'[q].map = requests'[p].map,
               requests'[p].revision > requests'[q].revision
        PROVE  requests'[p].process >= requests'[q].process
    <3>1. requests'[p] = requests[p] /\ requests'[q] = requests[q]
      BY <1>1, <1>2, <2>1
    <3> QED
      BY <1>1, <2>1, <3>1 DEF GateInv, SnapshotsAreOrdered
  <2>2. ASSUME NEW p \in Requests, requests'[p].phase = "answered",
               shown.map = requests'[p].map,
               requests'[p].revision > shown.revision
        PROVE  requests'[p].process >= shown.process
    <3>1. requests'[p] = requests[p]
      BY <1>1, <1>2, <2>2
    <3> QED
      BY <1>1, <2>2, <3>1 DEF GateInv, SnapshotsAreOrdered
  <2> QED
    BY <1>1, <2>1, <2>2 DEF SnapshotsAreOrdered
<1>7. TicketsAreOrdered'
  <2>1. ASSUME NEW p \in Requests, NEW q \in Requests,
               requests'[p].phase # "idle", requests'[q].phase # "idle",
               requests'[q].generation <= requests'[p].generation
        PROVE  requests'[q].since <= requests'[p].since
    <3>1. requests'[p] = requests[p] /\ requests'[q] = requests[q]
      BY <1>1, <1>2, <2>1
    <3> QED
      BY <1>1, <2>1, <3>1 DEF GateInv, TicketsAreOrdered
  <2>2. ASSUME NEW p \in Requests, requests'[p].phase # "idle",
               requests'[p].generation >= coordinator.latestStartedGeneration
        PROVE  shown.since <= requests'[p].since
    <3>1. requests'[p] = requests[p]
      BY <1>1, <1>2, <2>2
    <3> QED
      BY <1>1, <2>2, <3>1 DEF GateInv, TicketsAreOrdered
  <2> QED
    BY <1>1, <2>1, <2>2 DEF TicketsAreOrdered
<1> QED
  BY <1>4, <1>5, <1>6, <1>7 DEF GateInv

LEMMA BeginRequestKeeps ==
  ASSUME GateInv, NEW r \in Requests, BeginRequest(r) PROVE GateInv'
<1> DEFINE next == coordinator.nextGeneration + 1
<1>0. UNCHANGED <<revision, process, shown>>
  BY DEF BeginRequest, server
<1>1. /\ coordinator' \in Coordinator
      /\ coordinator'.mapId = coordinator.mapId
      /\ coordinator'.revision = coordinator.revision
      /\ coordinator'.appliedGeneration = coordinator.appliedGeneration
      /\ coordinator'.nextGeneration = next
      /\ coordinator'.latestStartedGeneration = next
      /\ next \in Nat
      /\ coordinator.latestStartedGeneration = coordinator.nextGeneration
      /\ coordinator.latestStartedGeneration \in Nat
  <2>1. /\ coordinator \in Coordinator
        /\ coordinator.latestStartedGeneration = coordinator.nextGeneration
    BY DEF GateInv, GateTypeOK
  <2>2. coordinator' = [coordinator EXCEPT !.nextGeneration = next,
                                           !.latestStartedGeneration = next]
    BY <2>1 DEF BeginRequest, Begun, Coordinator
  <2>3. next \in Nat
    BY <2>1 DEF Coordinator
  <2> HIDE DEF next
  <2> QED
    BY <2>1, <2>2, <2>3 DEF Coordinator
<1>2. /\ requests' \in [Requests -> Request]
      /\ \A q \in Requests : q # r => requests'[q] = requests[q]
      /\ requests'[r].generation = next
      /\ requests'[r].since = process
      /\ requests'[r].phase = "sent"
  BY <1>1, GateTypes
     DEF BeginRequest, GateInv, GateTypeOK, Request, Sent, NoRequest
<1>3. \A q \in Requests :
        /\ requests'[q].phase # "idle" => q = r \/ requests[q].phase # "idle"
        /\ requests'[q].phase = "answered" => requests[q].phase = "answered" /\ q # r
  BY <1>2 DEF InFlight, Answered
<1>4. \A q \in Requests : q # r /\ InFlight(q) =>
        /\ requests[q].generation \in Nat
        /\ requests[q].generation < next
        /\ requests[q].since <= process
  BY <1>1, GateTypes DEF GateInv, RequestsArePast, Request
<1> HIDE DEF next
<1>5. GateTypeOK'
  BY <1>0, <1>1, <1>2 DEF GateInv, GateTypeOK
<1>6. ShownIsGated'
  <2>1. coordinator.appliedGeneration \in Nat
    BY GateTypes DEF Coordinator
  <2>2. coordinator.appliedGeneration <= next
    BY <1>0, <1>1, <2>1 DEF GateInv, ShownIsGated, next
  <2> QED
    BY <1>0, <1>1, <2>2 DEF GateInv, ShownIsGated
<1>7. RequestsArePast'
  <2>1. ASSUME NEW q \in Requests, requests'[q].phase # "idle"
        PROVE  requests'[q].generation <= next /\ requests'[q].since <= process
    BY <1>0, <1>1, <1>2, <1>3, <1>4, <2>1, GateTypes
  <2>2. ASSUME NEW q \in Requests, requests'[q].phase = "answered"
        PROVE  /\ requests'[q].map \in Maps
               /\ requests'[q].revision <= revision[requests'[q].map]
               /\ requests'[q].since <= requests'[q].process
               /\ requests'[q].process <= process
    BY <1>0, <1>2, <1>3, <2>2 DEF GateInv, RequestsArePast
  <2> QED
    BY <1>0, <1>1, <2>1, <2>2 DEF RequestsArePast
<1>8. SnapshotsAreOrdered'
  BY <1>0, <1>2, <1>3 DEF GateInv, SnapshotsAreOrdered
<1>9. TicketsAreOrdered'
  <2> SUFFICES ASSUME NEW q \in Requests, requests'[q].phase # "idle"
               PROVE  /\ \A p \in Requests :
                          requests'[p].phase # "idle" /\ requests'[p].generation
                                            <= requests'[q].generation
                            => requests'[p].since <= requests'[q].since
                      /\ requests'[q].generation >= next
                           => shown.since <= requests'[q].since
    BY <1>0, <1>1 DEF TicketsAreOrdered
  <2>1. CASE q = r
    <3>1. shown.since <= process
      BY GateTypes DEF GateInv, ShownIsGated, GateTypeOK, NothingShown
    <3> QED
      BY <1>0, <1>2, <1>3, <1>4, <2>1, <3>1, GateTypes
  <2>2. CASE q # r
    <3>1. InFlight(q) /\ requests'[q] = requests[q]
      BY <1>0, <1>2, <1>3, <2>2
    <3>2. requests[q].generation < next /\ requests[q].generation \in Nat
      BY <1>0, <1>4, <2>2, <3>1
    <3>3. ASSUME NEW p \in Requests, requests'[p].phase # "idle",
                 requests'[p].generation <= requests'[q].generation
          PROVE  requests'[p].since <= requests'[q].since
      <4>1. p # r
        BY <1>0, <1>1, <1>2, <3>1, <3>2, <3>3
      <4> QED
        BY <1>0, <1>2, <1>3, <3>1, <3>3, <4>1 DEF GateInv, TicketsAreOrdered
    <3> QED
      BY <1>0, <1>1, <3>1, <3>2, <3>3
  <2> QED
    BY <2>1, <2>2
<1> QED
  BY <1>0, <1>5, <1>6, <1>7, <1>8, <1>9 DEF GateInv

LEMMA AnswerKeeps ==
  ASSUME GateInv, NEW r \in Requests, Answer(r) PROVE GateInv'
<1>1. PICK m \in Maps :
        requests' = [requests EXCEPT ![r].phase = "answered", ![r].map = m,
                                     ![r].revision = revision[m],
                                     ![r].process = process]
      /\ requests[r].phase = "sent"
  BY DEF Answer
<1>0. UNCHANGED <<revision, process, coordinator, shown>>
  BY DEF Answer, server
<1>2. /\ requests' \in [Requests -> Request]
      /\ \A q \in Requests : q # r => requests'[q] = requests[q]
      /\ requests'[r].generation = requests[r].generation
      /\ requests'[r].since = requests[r].since
      /\ requests'[r].phase = "answered"
      /\ requests'[r].map = m
      /\ requests'[r].revision = revision[m]
      /\ requests'[r].process = process
      /\ InFlight(r)
  BY <1>1, GateTypes DEF GateInv, GateTypeOK, Request, InFlight
<1>3. \A q \in Requests :
        /\ requests'[q].phase # "idle" => requests[q].phase # "idle"
        /\ requests'[q].phase = "answered" => requests[q].phase = "answered" \/ q = r
        /\ requests'[q].generation = requests[q].generation
        /\ requests'[q].since = requests[q].since
  BY <1>2 DEF InFlight, Answered
<1>4. GateTypeOK' /\ ShownIsGated'
  BY <1>0, <1>2 DEF GateInv, GateTypeOK, ShownIsGated
<1>5. RequestsArePast'
  <2>1. revision[m] <= revision[m] /\ process <= process
    BY GateTypes
  <2>2. ASSUME NEW q \in Requests, requests'[q].phase = "answered"
        PROVE  /\ requests'[q].map \in Maps
               /\ requests'[q].revision <= revision[requests'[q].map]
               /\ requests'[q].since <= requests'[q].process
               /\ requests'[q].process <= process
    BY <1>0, <1>2, <1>3, <2>1, <2>2 DEF GateInv, RequestsArePast
  <2>3. ASSUME NEW q \in Requests, requests'[q].phase # "idle"
        PROVE  /\ requests'[q].generation <= coordinator.latestStartedGeneration
               /\ requests'[q].since <= process
    <3>1. /\ requests[q].phase # "idle"
          /\ requests'[q].generation = requests[q].generation
          /\ requests'[q].since = requests[q].since
      <4>1. CASE q = r
        BY <1>2, <2>3, <4>1
      <4>2. CASE q # r
        BY <1>2, <2>3, <4>2
      <4> QED
        BY <4>1, <4>2
    <3> QED
      BY <2>3, <3>1 DEF GateInv, RequestsArePast
  <2> QED
    BY <1>0, <2>2, <2>3 DEF RequestsArePast
<1>6. SnapshotsAreOrdered'
  <2>1. ASSUME NEW p \in Requests, NEW q \in Requests,
               requests'[p].phase = "answered", requests'[q].phase = "answered",
               requests'[q].map = requests'[p].map,
               requests'[p].revision > requests'[q].revision
        PROVE  requests'[p].process >= requests'[q].process
    <3>1. CASE p = r
      BY <1>0, <1>2, <1>3, <2>1, <3>1, GateTypes
         DEF GateInv, RequestsArePast, Request
    <3>2. CASE p # r /\ q = r
      BY <1>0, <1>2, <1>3, <2>1, <3>2, GateTypes
         DEF GateInv, RequestsArePast, Request
    <3>3. CASE p # r /\ q # r
      BY <1>0, <1>2, <1>3, <2>1, <3>3 DEF GateInv, SnapshotsAreOrdered
    <3> QED
      BY <3>1, <3>2, <3>3
  <2>2. ASSUME NEW p \in Requests, requests'[p].phase = "answered",
               shown.map = requests'[p].map,
               requests'[p].revision > shown.revision
        PROVE  requests'[p].process >= shown.process
    <3>1. CASE p = r
      BY <1>0, <1>2, <2>2, <3>1, GateTypes DEF GateInv, ShownIsGated
    <3>2. CASE p # r
      BY <1>0, <1>2, <1>3, <2>2, <3>2 DEF GateInv, SnapshotsAreOrdered
    <3> QED
      BY <3>1, <3>2
  <2> QED
    BY <1>0, <2>1, <2>2 DEF SnapshotsAreOrdered
<1>7. TicketsAreOrdered'
  <2>1. ASSUME NEW p \in Requests, NEW q \in Requests,
               requests'[p].phase # "idle", requests'[q].phase # "idle",
               requests'[q].generation <= requests'[p].generation
        PROVE  requests'[q].since <= requests'[p].since
    <3>1. /\ requests[p].phase # "idle"
          /\ requests'[p].generation = requests[p].generation
          /\ requests'[p].since = requests[p].since
      <4>1. CASE p = r
        BY <1>2, <2>1, <4>1
      <4>2. CASE p # r
        BY <1>2, <2>1, <4>2
      <4> QED
        BY <4>1, <4>2
    <3>2. /\ requests[q].phase # "idle"
          /\ requests'[q].generation = requests[q].generation
          /\ requests'[q].since = requests[q].since
      <4>1. CASE q = r
        BY <1>2, <2>1, <4>1
      <4>2. CASE q # r
        BY <1>2, <2>1, <4>2
      <4> QED
        BY <4>1, <4>2
    <3> QED
      BY <2>1, <3>1, <3>2 DEF GateInv, TicketsAreOrdered
  <2>2. ASSUME NEW p \in Requests, requests'[p].phase # "idle",
               requests'[p].generation >= coordinator.latestStartedGeneration
        PROVE  shown.since <= requests'[p].since
    <3>1. /\ requests[p].phase # "idle"
          /\ requests'[p].generation = requests[p].generation
          /\ requests'[p].since = requests[p].since
      <4>1. CASE p = r
        BY <1>2, <2>2, <4>1
      <4>2. CASE p # r
        BY <1>2, <2>2, <4>2
      <4> QED
        BY <4>1, <4>2
    <3> QED
      BY <2>2, <3>1 DEF GateInv, TicketsAreOrdered
  <2> QED
    BY <1>0, <2>1, <2>2 DEF TicketsAreOrdered
<1> QED
  BY <1>4, <1>5, <1>6, <1>7 DEF GateInv

LEMMA RespondKeeps ==
  ASSUME GateInv, NEW r \in Requests, Respond(r) PROVE GateInv'
<1>0. UNCHANGED <<revision, process>>
  BY DEF Respond, server
<1>1. /\ requests[r].phase = "answered"
      /\ requests[r] \in Request
      /\ requests[r].map \in Maps
      /\ requests[r].generation <= coordinator.latestStartedGeneration
      /\ requests[r].revision <= revision[requests[r].map]
      /\ requests[r].since <= requests[r].process
      /\ requests[r].process <= process
  BY GateTypes DEF Respond, GateInv, RequestsArePast
<1>2. /\ requests' \in [Requests -> Request]
      /\ \A q \in Requests : q # r => requests'[q] = requests[q]
      /\ requests'[r].phase = "idle"
  BY DEF Respond, GateInv, GateTypeOK, Request, NoRequest
<1>3. coordinator'.latestStartedGeneration = coordinator.latestStartedGeneration
  BY ResponseShows
<1>4. ASSUME NEW p \in Requests, requests'[p].phase # "idle"
      PROVE  p # r /\ requests'[p] = requests[p]
  BY <1>2, <1>4
<1>5. /\ requests[r].generation \in Nat /\ requests[r].since \in Nat
      /\ requests[r].revision \in Nat /\ requests[r].process \in Nat
  BY <1>1 DEF Request
<1> DEFINE newer ==
      /\ shown' = [map |-> requests[r].map, revision |-> requests[r].revision,
                   process |-> requests[r].process, since |-> requests[r].since]
      /\ coordinator' \in Coordinator
      /\ coordinator'.mapId = requests[r].map
      /\ coordinator'.revision = requests[r].revision
      /\ coordinator'.nextGeneration = coordinator.nextGeneration
      /\ coordinator'.appliedGeneration <= coordinator.latestStartedGeneration
<1>6. (shown' = shown /\ coordinator' = coordinator) \/ newer
  BY ResponseShows
<1>7. newer => /\ shown' \in Shown
               /\ shown'.map = requests[r].map
               /\ shown'.revision = requests[r].revision
               /\ shown'.process = requests[r].process
               /\ shown'.since = requests[r].since
  BY <1>1, <1>5 DEF Shown
<1>8. GateTypeOK'
  <2>1. coordinator.latestStartedGeneration = coordinator.nextGeneration
    BY DEF GateInv, GateTypeOK
  <2>2. /\ coordinator' \in Coordinator
        /\ coordinator'.latestStartedGeneration = coordinator'.nextGeneration
    BY <1>3, <1>6, <2>1, GateTypes
  <2>3. shown' \in Shown \cup {NothingShown}
    BY <1>6, <1>7 DEF GateInv, GateTypeOK
  <2> QED
    BY <1>0, <1>2, <2>2, <2>3 DEF GateInv, GateTypeOK
<1>9. ShownIsGated'
  <2>1. CASE shown' = shown /\ coordinator' = coordinator
    BY <1>0, <2>1 DEF GateInv, ShownIsGated
  <2>2. CASE newer
    BY <1>0, <1>1, <1>3, <1>7, <2>2 DEF ShownIsGated
  <2> QED
    BY <1>6, <2>1, <2>2
<1> HIDE DEF newer
<1>10. RequestsArePast'
  <2>1. ASSUME NEW q \in Requests, requests'[q].phase # "idle"
        PROVE  /\ requests'[q].generation <= coordinator.latestStartedGeneration
               /\ requests'[q].since <= process
    <3>1. requests'[q] = requests[q]
      BY <1>4, <2>1
    <3> QED
      BY <2>1, <3>1 DEF GateInv, RequestsArePast
  <2>2. ASSUME NEW q \in Requests, requests'[q].phase = "answered"
        PROVE  /\ requests'[q].map \in Maps
               /\ requests'[q].revision <= revision[requests'[q].map]
               /\ requests'[q].since <= requests'[q].process
               /\ requests'[q].process <= process
    <3>1. requests'[q] = requests[q]
      BY <1>2, <2>2
    <3> QED
      BY <2>2, <3>1 DEF GateInv, RequestsArePast
  <2> QED
    BY <1>0, <1>3, <2>1, <2>2 DEF RequestsArePast
<1>11. SnapshotsAreOrdered'
  <2>1. ASSUME NEW p \in Requests, NEW q \in Requests,
               requests'[p].phase = "answered", requests'[q].phase = "answered",
               requests'[q].map = requests'[p].map,
               requests'[p].revision > requests'[q].revision
        PROVE  requests'[p].process >= requests'[q].process
    <3>1. requests'[p] = requests[p] /\ requests'[q] = requests[q]
      BY <1>2, <2>1
    <3> QED
      BY <2>1, <3>1 DEF GateInv, SnapshotsAreOrdered
  <2>2. ASSUME NEW p \in Requests, requests'[p].phase = "answered",
               shown'.map = requests'[p].map,
               requests'[p].revision > shown'.revision
        PROVE  requests'[p].process >= shown'.process
    <3>1. requests'[p] = requests[p]
      BY <1>2, <2>2
    <3>2. CASE shown' = shown
      BY <2>2, <3>1, <3>2 DEF GateInv, SnapshotsAreOrdered
    <3>3. CASE newer
      BY <1>1, <1>7, <2>2, <3>1, <3>3 DEF GateInv, SnapshotsAreOrdered
    <3> QED
      BY <1>6, <3>2, <3>3
  <2> QED
    BY <2>1, <2>2 DEF SnapshotsAreOrdered
<1>12. TicketsAreOrdered'
  <2>1. ASSUME NEW p \in Requests, NEW q \in Requests,
               requests'[p].phase # "idle", requests'[q].phase # "idle",
               requests'[q].generation <= requests'[p].generation
        PROVE  requests'[q].since <= requests'[p].since
    <3>1. requests'[p] = requests[p] /\ requests'[q] = requests[q]
      BY <1>2, <2>1
    <3> QED
      BY <2>1, <3>1 DEF GateInv, TicketsAreOrdered
  <2>2. ASSUME NEW p \in Requests, requests'[p].phase # "idle",
               requests'[p].generation >= coordinator.latestStartedGeneration
        PROVE  shown'.since <= requests'[p].since
    <3>1. requests'[p] = requests[p] /\ requests[p].generation \in Nat
      BY <1>4, <2>2, GateTypes DEF Request
    <3>2. CASE shown' = shown
      BY <2>2, <3>1, <3>2 DEF GateInv, TicketsAreOrdered
    <3>3. CASE newer
      <4>1. requests[r].generation <= requests[p].generation
        BY <1>1, <1>5, <2>2, <3>1, GateTypes
      <4> QED
        BY <1>1, <1>7, <2>2, <3>1, <3>3, <4>1 DEF GateInv, TicketsAreOrdered
    <3> QED
      BY <1>6, <3>2, <3>3
  <2> QED
    BY <1>3, <2>1, <2>2 DEF TicketsAreOrdered
<1> QED
  BY <1>8, <1>9, <1>10, <1>11, <1>12 DEF GateInv

LEMMA GateInductive ==
  GateInv /\ [GateNext]_gateVars => GateInv'
<1> SUFFICES ASSUME GateInv, [GateNext]_gateVars PROVE GateInv'
  OBVIOUS
<1>1. ASSUME NEW m \in Maps, Mutate(m) PROVE GateInv'
  BY <1>1, MutateKeeps
<1>2. CASE Restart
  BY <1>2, RestartKeeps
<1>3. ASSUME NEW r \in Requests, BeginRequest(r) PROVE GateInv'
  BY <1>3, BeginRequestKeeps
<1>4. ASSUME NEW r \in Requests, Answer(r) PROVE GateInv'
  BY <1>4, AnswerKeeps
<1>5. ASSUME NEW r \in Requests, Respond(r) PROVE GateInv'
  BY <1>5, RespondKeeps
<1>6. ASSUME NEW r \in Requests, Reject(r) PROVE GateInv'
  BY <1>6, RejectKeeps
<1>7. CASE UNCHANGED gateVars
  BY <1>7 DEF gateVars, GateInv, GateTypeOK, ShownIsGated, RequestsArePast,
              SnapshotsAreOrdered, TicketsAreOrdered
<1> QED
  BY <1>1, <1>2, <1>3, <1>4, <1>5, <1>6, <1>7 DEF GateNext

-----------------------------------------------------------------------------
(* The theorems. *)

(* Whatever the requests, their order and the restarts, the invariant       *)
(* behind the two theorems below holds of the coordinator, its requests and *)
(* the visible snapshot.                                                    *)
THEOREM GateInvariant == GateSpec => []GateInv
<1> QED
  BY GateInitially, GateInductive, PTL DEF GateSpec

(* The variables keep their types, and the latest ticket begun is the last  *)
(* one handed out (SnapshotCoordinator's counters).                         *)
THEOREM GateTypeCorrect == GateSpec => []GateTypeOK
<1>1. GateInv => GateTypeOK
  BY DEF GateInv
<1> QED
  BY <1>1, GateInvariant, PTL

(* shouldApply never lets an older revision of the visible map through.     *)
THEOREM NeverBack == GateSpec => RevisionNeverGoesBack
<1> DEFINE kept == shown'.map = shown.map => shown'.revision >= shown.revision
<1>1. GateInv /\ [GateNext]_gateVars => [kept]_gateVars
  <2> SUFFICES ASSUME GateInv, GateNext PROVE kept
    OBVIOUS
  <2>1. CASE shown' = shown
    BY <2>1, GateTypes
  <2>2. ASSUME NEW r \in Requests, Respond(r) PROVE kept
    <3>1. CASE shown' = shown
      BY <2>1, <3>1
    <3>2. CASE shown' # shown
      <4>1. requests[r].revision \in Nat /\ shown.revision \in Nat
        BY GateTypes DEF Request
      <4> QED
        BY <2>2, <3>2, <4>1, ResponseShows
    <3> QED
      BY <3>1, <3>2
  <2> QED
    BY <2>1, <2>2 DEF GateNext, Mutate, Restart, BeginRequest, Answer, Reject,
                      gate, server
<1> QED
  BY <1>1, GateInvariant, PTL DEF GateSpec, RevisionNeverGoesBack

(* A snapshot that a client took from one server process is never replaced  *)
(* by one that an earlier process derived: nothing asked before the         *)
(* reconnection, and nothing answered before it, survives the reconnection's*)
(* refresh.                                                                 *)
THEOREM NotUndone == GateSpec => RestartNotUndone
<1> DEFINE kept == shown'.process >= shown.since
<1>1. GateInv /\ [GateNext]_gateVars => [kept]_gateVars
  <2> SUFFICES ASSUME GateInv, GateNext PROVE kept
    OBVIOUS
  <2>0. /\ shown.process \in Nat /\ shown.since \in Nat
        /\ shown.since <= shown.process
    BY GateTypes DEF GateInv, ShownIsGated
  <2>1. CASE shown' = shown
    BY <2>0, <2>1
  <2>2. ASSUME NEW r \in Requests, Respond(r) PROVE kept
    <3>1. /\ requests[r].phase = "answered"
          /\ requests[r].generation \in Nat /\ requests[r].since \in Nat
          /\ requests[r].process \in Nat
          /\ requests[r].since <= requests[r].process
      BY <2>2, GateTypes DEF Respond, Request, GateInv, RequestsArePast
    <3>2. CASE requests[r].generation >= coordinator.latestStartedGeneration
      BY <2>0, <2>1, <2>2, <3>1, <3>2, ResponseShows
         DEF GateInv, TicketsAreOrdered
    <3>3. CASE /\ shown.map = requests[r].map
               /\ requests[r].revision > shown.revision
      BY <2>0, <2>1, <2>2, <3>1, <3>3, ResponseShows
         DEF GateInv, SnapshotsAreOrdered
    <3> QED
      BY <2>1, <2>2, <3>2, <3>3, ResponseShows
  <2> QED
    BY <2>1, <2>2 DEF GateNext, Mutate, Restart, BeginRequest, Answer, Reject,
                      gate, server
<1> QED
  BY <1>1, GateInvariant, PTL DEF GateSpec, RestartNotUndone
====
