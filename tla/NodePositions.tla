----------------------------- MODULE NodePositions -----------------------------
(***************************************************************************)
(* Dragging nodes and a group on the canvas: App.persistPosition with the  *)
(* per-node write queue (frontend/src/app/nodePositionPersistence.ts), the *)
(* handlers of PATCH node position and PATCH group in the statements they  *)
(* issue (backend/app/api/routes.py), and the snapshots that replace what  *)
(* the canvas shows, fetched by loadSnapshot and by the live sync.         *)
(*                                                                         *)
(* Positions are on one axis.  A drop gives a node a position and a group, *)
(* or none; a drag of the group gives the group a position, and the server *)
(* moves its members.  A view is what a snapshot holds of all this.        *)
(***************************************************************************)
EXTENDS Integers, FiniteSets

CONSTANTS
  Nodes,          \* node ids
  Spots,          \* positions that the user drags nodes to
  GroupSpots,     \* positions that users drag the group to
  MaxDrops,       \* bound: node drags
  MaxGroupDrags,  \* bound: group drags, here and in other browsers
  MaxFailures,    \* bound: requests that fail
  MaxEvents       \* bound: all three together

VARIABLES
  store,    \* the nodes and groups tables and the map's revision
  calls,    \* handlers at work on a PATCH
  shown,    \* App's snapshot, optimistic moves included
  entries,  \* NodePositionPersistence.entries
  loads,    \* snapshot fetches
  gate,     \* tickets, the revision shown and the one the sync has reached
  error,    \* App's error message
  history   \* history: the last drop of each node and what was said of it

vars == <<store, calls, shown, entries, loads, gate, error, history>>

ASSUME PositionsAssumption ==
  /\ Spots \subseteq Int /\ GroupSpots \subseteq Int
  /\ {MaxDrops, MaxGroupDrags, MaxFailures, MaxEvents} \subseteq Nat

Place == [at : Int, in : BOOLEAN]
View == [place : [Nodes -> Place], group : Int, revision : Nat]
NoPlace == [at |-> 0, in |-> FALSE]   \* nothing pending; unread

(* `fresh', a history field: nothing was committed since the first read.    *)
NodeCall == [what : {"node"}, node : Nodes, to : Place, read : Place,
             phase : {"sent", "read"}, awaited : BOOLEAN, fresh : BOOLEAN]
GroupCall == [what : {"group"}, here : BOOLEAN, to : Int, delta : Int,
              read : [Nodes -> Place], id : Nat,
              phase : {"sent", "delta", "read", "saved", "refused"},
              fresh : BOOLEAN]
Entry == [live : BOOLEAN, pending : SUBSET Place, inFlight : BOOLEAN,
          answer : {"none", "saved", "failed"}, failure : BOOLEAN]
NoEntry == [live |-> FALSE, pending |-> {}, inFlight |-> FALSE,
            answer |-> "none", failure |-> FALSE]
Load == [by : {"app", "sync"}, ticket : Nat, view : SUBSET View]
Gate == [ticket : Nat, revision : Nat, reached : Nat]

(* Type invariant; a queue entry holds at most one pending position. *)
TypeOK ==
  /\ store \in View /\ shown \in View
  /\ calls \subseteq NodeCall \cup GroupCall
  /\ entries \in [Nodes -> Entry]
  /\ \A n \in Nodes : Cardinality(entries[n].pending) <= 1
  /\ loads \subseteq Load /\ \A load \in loads : Cardinality(load.view) <= 1
  /\ gate \in Gate
  /\ error \in {"none", "group", "load"}

Init ==
  /\ store = [place |-> [n \in Nodes |-> [at |-> 0, in |-> TRUE]],
              group |-> 0, revision |-> 0]
  /\ shown = store
  /\ calls = {}
  /\ entries = [n \in Nodes |-> NoEntry]
  /\ loads = {}
  /\ gate = [ticket |-> 0, revision |-> 0, reached |-> 0]
  /\ error = "none"
  /\ history = [drops |-> 0, drags |-> 0, failures |-> 0,
                last |-> [n \in Nodes |-> NoPlace],
                answer |-> [n \in Nodes |-> "none"],
                clean |-> [n \in Nodes |-> FALSE],
                told |-> [n \in Nodes |-> "nothing"]]

Count(past, what) == [past EXCEPT ![what] = @ + 1]
MayGoOn == history.drops + history.drags + history.failures < MaxEvents
MayFail == MayGoOn /\ history.failures < MaxFailures

-----------------------------------------------------------------------------
(* NodePositionPersistence.                                                 *)

Patch(n, place) ==
  [what |-> "node", node |-> n, to |-> place, read |-> NoPlace,
   phase |-> "sent", awaited |-> TRUE, fresh |-> TRUE]

FlushAnyway(n, entry) ==
  /\ entries' = [entries EXCEPT ![n] = [entry EXCEPT !.pending = {},
                                                    !.inFlight = TRUE]]
  /\ calls' = calls \cup {Patch(n, place) : place \in entry.pending}
(* flush: one write of a node at a time. *)
flush(n, entry) ==
  IF entry.inFlight \/ entry.pending = {}
  THEN entries' = [entries EXCEPT ![n] = entry] /\ UNCHANGED calls
  ELSE /\ entries' = [entries EXCEPT ![n] = [entry EXCEPT !.pending = {},
                                                         !.inFlight = TRUE]]
       /\ calls' = calls \cup {Patch(n, place) : place \in entry.pending}

(* loadSnapshot and the sync's refresh, up to the fetch. *)
Fetch(by) ==
  /\ loads' = loads \cup {[by |-> by, ticket |-> gate.ticket + 1, view |-> {}]}
  /\ gate' = [gate EXCEPT !.ticket = @ + 1]

AfterAnswerSticky(entry) ==
  [entry EXCEPT !.inFlight = FALSE, !.answer = "none",
                !.failure = @ \/ entry.answer = "failed"]
(* The then, catch and finally of a write. *)
AfterAnswer(entry) ==
  [entry EXCEPT !.inFlight = FALSE, !.answer = "none",
                !.failure = entry.answer = "failed"]

(* reportSaved, or reportError, whose loadSnapshot clears the message that  *)
(* was set in the same breath.                                              *)
Report(n, failed) ==
  /\ history' = [history EXCEPT
       !.told[n] = IF failed THEN "failed" ELSE "saved"]
  /\ IF failed THEN Fetch("app") /\ error' = "none"
     ELSE UNCHANGED <<loads, gate, error>>

settled(n) ==
  /\ entries[n].answer # "none"
  /\ LET entry == AfterAnswer(entries[n])
     IN IF entry.pending # {}
        THEN flush(n, entry) /\ UNCHANGED <<loads, gate, error, history>>
        ELSE /\ entries' = [entries EXCEPT ![n] = NoEntry]
             /\ Report(n, entry.failure)
             /\ UNCHANGED calls
  /\ UNCHANGED <<store, shown>>

ScheduledToo(entry, place) ==
  [entry EXCEPT !.live = TRUE, !.pending = @ \cup {place}]
(* schedule: the latest drop replaces the one that waits. *)
schedule(entry, place) == [entry EXCEPT !.live = TRUE, !.pending = {place}]

(* persistPosition of a node: the canvas shows the drop at once. *)
persistPosition(n, place) ==
  /\ MayGoOn /\ history.drops < MaxDrops
  /\ error' = "none"
  /\ shown' = [shown EXCEPT !.place[n] = place]
  /\ history' = [Count(history, "drops") EXCEPT
       !.last[n] = place, !.told[n] = "nothing",
       !.clean[n] = \A c \in calls :
                      c.what = "node" /\ (c.node = n => c.awaited)]
  /\ flush(n, schedule(entries[n], place))
  /\ UNCHANGED <<store, loads, gate>>

(* A drag of the group, in this browser or another: not queued. *)
DragGroup(spot, here) ==
  /\ MayGoOn /\ history.drags < MaxGroupDrags
  /\ calls' = calls \cup
       {[what |-> "group", here |-> here, to |-> spot, delta |-> 0,
         read |-> [n \in Nodes |-> NoPlace], id |-> history.drags,
         phase |-> "sent", fresh |-> TRUE]}
  /\ history' = [Count(history, "drags") EXCEPT
                   !.clean = [n \in Nodes |-> FALSE]]
  /\ error' = IF here THEN "none" ELSE error
  /\ UNCHANGED <<store, shown, entries, loads, gate>>

(* The answer to a drag of the group made here. *)
GroupAnswered(c) ==
  /\ c.what = "group" /\ c.phase \in {"saved", "refused"}
  /\ calls' = calls \ {c}
  /\ IF c.here /\ c.phase = "saved" THEN Fetch("app") /\ error' = "none"
     ELSE /\ error' = IF c.here THEN "group" ELSE error
          /\ UNCHANGED <<loads, gate>>
  /\ UNCHANGED <<store, shown, entries, history>>
-----------------------------------------------------------------------------
(* The handlers.  Each statement reads what is committed; the writes of one *)
(* handler are a transaction, and only columns that changed are written.    *)

Step(c, next) == calls' = (calls \ {c}) \cup {next}
ReadOnly == UNCHANGED <<store, shown, entries, loads, gate, error, history>>

ReadNode(c) ==
  /\ c.what = "node" /\ c.phase = "sent"
  /\ Step(c, [c EXCEPT !.phase = "read", !.read = store.place[c.node]])
  /\ ReadOnly
ReadGroup(c) ==
  /\ c.what = "group" /\ c.phase = "sent"
  /\ Step(c, [c EXCEPT !.phase = "delta", !.delta = c.to - store.group])
  /\ ReadOnly
ReadMembers(c) ==
  /\ c.what = "group" /\ c.phase = "delta"
  /\ Step(c, [c EXCEPT !.phase = "read", !.read = store.place])
  /\ ReadOnly

(* Calls that have read are no longer fresh once something is committed.    *)
Overtaken(others) ==
  {[c EXCEPT !.fresh = c.phase \in {"sent", "saved", "refused"}] : c \in others}

(* The answer, unless the browser has given the request up. *)
Answered(c, answer, past) ==
  IF ~c.awaited THEN history' = past /\ UNCHANGED entries
  ELSE /\ entries' = [entries EXCEPT ![c.node].answer = answer]
       /\ history' = [past EXCEPT !.answer[c.node] = answer]

patch_node_position(c) ==
  /\ c.what = "node" /\ c.phase = "read"
  /\ store' = [store EXCEPT
       !.revision = @ + 1,
       !.place[c.node] = [at |-> IF c.to.at = c.read.at THEN @.at ELSE c.to.at,
                          in |-> IF c.to.in = c.read.in THEN @.in ELSE c.to.in]]
  /\ calls' = Overtaken(calls \ {c})
  /\ Answered(c, "saved", history)
  /\ UNCHANGED <<shown, loads, gate, error>>

GroupAlone(c) ==
  [store EXCEPT !.revision = @ + 1, !.group = IF c.delta = 0 THEN @ ELSE c.to]
(* The members move with the group. *)
Moved(c) ==
  [store EXCEPT
     !.revision = @ + 1,
     !.group = IF c.delta = 0 THEN @ ELSE c.to,
     !.place = [n \in Nodes |->
       IF c.read[n].in /\ c.delta # 0
       THEN [@[n] EXCEPT !.at = c.read[n].at + c.delta] ELSE @[n]]]

patch_group(c) ==
  /\ c.what = "group" /\ c.phase = "read"
  /\ store' = Moved(c)
  /\ calls' = Overtaken(calls \ {c}) \cup {[c EXCEPT !.phase = "saved"]}
  /\ UNCHANGED <<shown, entries, loads, gate, error, history>>

(* Refused, or the connection breaks while the handler goes on.             *)
Fails(c) ==
  /\ MayFail
  /\ \/ /\ c.what = "node"
        /\ \/ calls' = calls \ {c}
           \/ c.awaited /\ Step(c, [c EXCEPT !.awaited = FALSE])
        /\ Answered(c, "failed", [history EXCEPT !.failures = @ + 1,
                                                 !.clean[c.node] = FALSE])
        /\ UNCHANGED error
     \/ /\ c.what = "group" /\ c.phase \in {"sent", "delta", "read"}
        /\ \/ Step(c, [c EXCEPT !.phase = "refused"]) /\ UNCHANGED error
           \/ /\ c.here /\ Step(c, [c EXCEPT !.here = FALSE])
              /\ error' = "group"
        /\ history' = Count(history, "failures")
        /\ UNCHANGED entries
  /\ UNCHANGED <<store, shown, loads, gate>>

-----------------------------------------------------------------------------
(* Snapshots.                                                               *)

(* An event makes the live sync refresh; a failed refresh is retried.       *)
SyncBegins ==
  /\ gate.reached < store.revision
  /\ \A load \in loads : load.by # "sync"
  /\ Fetch("sync")
  /\ UNCHANGED <<store, calls, shown, entries, error, history>>

ReadSnapshot(load) ==
  /\ load.view = {}
  /\ loads' = (loads \ {load}) \cup {[load EXCEPT !.view = {store}]}
  /\ UNCHANGED <<store, calls, shown, entries, gate, error, history>>

AcceptsNewerOnly(load, view) == view.revision > gate.revision
(* SnapshotCoordinator.shouldApply, of one map. *)
Accepts(load, view) ==
  \/ view.revision > gate.revision
  \/ view.revision = gate.revision /\ load.ticket = gate.ticket

applySnapshot(load) ==
  /\ \E view \in load.view :
       /\ shown' = IF Accepts(load, view) THEN view ELSE shown
       /\ gate' = [gate EXCEPT
            !.revision = IF Accepts(load, view) THEN view.revision ELSE @,
            !.reached = IF load.by = "sync" THEN view.revision ELSE @]
       /\ error' = IF load.by = "sync" /\ Accepts(load, view) THEN "none"
                   ELSE error
  /\ loads' = loads \ {load}
  /\ UNCHANGED <<store, calls, entries, history>>

LoadFails(load) ==
  /\ MayFail
  /\ loads' = loads \ {load}
  /\ error' = "load"
  /\ history' = Count(history, "failures")
  /\ UNCHANGED <<store, calls, shown, entries, gate>>

-----------------------------------------------------------------------------
Browser ==
  \/ SyncBegins
  \/ \E n \in Nodes : settled(n)
  \/ \E c \in calls : GroupAnswered(c)
Server ==
  \/ \E c \in calls : \/ ReadNode(c) \/ patch_node_position(c)
                      \/ ReadGroup(c) \/ ReadMembers(c) \/ patch_group(c)
  \/ \E load \in loads : ReadSnapshot(load) \/ applySnapshot(load)

Next ==
  \/ \E n \in Nodes, spot \in Spots, in \in BOOLEAN :
       persistPosition(n, [at |-> spot, in |-> in])
  \/ \E spot \in GroupSpots, here \in BOOLEAN : DragGroup(spot, here)
  \/ Browser \/ Server
  \/ \E c \in calls : Fails(c)
  \/ \E load \in loads : LoadFails(load)

Spec == Init /\ [][Next]_vars

(* Requests are answered, callbacks run and the sync follows the journal;   *)
(* the rest is bounded, so that what is enabled runs out.                   *)
FairSpec == Spec /\ WF_vars(Browser) /\ WF_vars(Server)

-----------------------------------------------------------------------------
(* A node reported as saved is stored where it was last dropped, in the     *)
(* group it was dropped into, however many drags came while an earlier one  *)
(* was being saved; unless the group was dragged meanwhile or since, or a   *)
(* request that the browser had given up was still at work.                 *)
LastDropWins ==
  \A n \in Nodes :
    history.told[n] = "saved" /\ history.clean[n] =>
      store.place[n] = history.last[n]

(* What is reported once a node's writes have drained is the fate of the    *)
(* last drop: an earlier failure is not reported after it was made good, an *)
(* earlier success does not hide a later failure.                           *)
ReportIsOfLastDrop ==
  \A n \in Nodes :
    history.told[n] # "nothing" => history.told[n] = history.answer[n]

(* What the user is told of a drag is true, of the browser and the server.  *)
ReportIsTrue == LastDropWins /\ ReportIsOfLastDrop

(* When the group moves, every node that is then its member keeps its place *)
(* in it, unless something was committed between the handler's reads and    *)
(* its commit: patch_group adds the delta to positions it read without a    *)
(* write lock.                                                              *)
MembersFollow ==
  [][\A c \in calls :
       c.what = "group" /\ c.fresh /\ patch_group(c) =>
         \A n \in Nodes : store.place[n].in =>
           store'.place[n].at - store'.group = store.place[n].at - store.group
    ]_vars

(* When the requests have run out, the canvas shows what is stored, however *)
(* often it jumped between a drop and its snapshot, or an error is shown.   *)
ShownConverges ==
  <>[](\/ shown.place = store.place /\ shown.group = store.group
       \/ error # "none")
=============================================================================
