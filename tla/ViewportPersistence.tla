-------------------------- MODULE ViewportPersistence --------------------------
(***************************************************************************)
(* The debounced write queue of the viewport (frontend/src/app/            *)
(* viewportPersistence.ts) as App.tsx drives it: each canvas movement is   *)
(* scheduled, an unmount disposes the queue, and a page exit sends what is *)
(* pending with a keepalive request that waits for nobody.                 *)
(*                                                                         *)
(* Viewports are numbered in the order the user produced them, from 1; the *)
(* server starts with viewport 0.  A write is on its way from the moment   *)
(* it is sent until the server has applied or lost it; writes on their way *)
(* are applied in any order.                                               *)
(***************************************************************************)
EXTENDS Integers, FiniteSets

CONSTANTS
  MaxMoves,     \* bound: canvas movements
  MaxExits,     \* bound: page exits
  MaxFailures   \* bound: writes that fail

VARIABLES
  queue,     \* ViewportPersistence
  page,      \* the browser page
  onTheWay,  \* writes that the server has not applied or lost
  stored,    \* the viewport in the maps table
  history    \* history: what the properties need to know of the past

vars == <<queue, page, onTheWay, stored, history>>

ASSUME ViewportAssumption ==
  MaxMoves \in Nat /\ MaxExits \in Nat /\ MaxFailures \in Nat

Viewport == 0..MaxMoves
None == 0   \* no pending viewport

(* A write is `queued' while the queue waits for its answer, `exit' when it *)
(* was sent by a page exit, and `given up' when the connection has broken   *)
(* and the server may still come to it.                                     *)
Write == [viewport : Viewport \ {0}, by : {"queued", "exit", "given up"}]
Queue == [timer : BOOLEAN, pending : Viewport, inFlight : Viewport,
          answer : {"awaited", "saved", "failed"}, accepting : BOOLEAN]
Page == [open : BOOLEAN, moves : Viewport, exits : 0..MaxExits]
(* The viewports sent while another write was on its way, those whose       *)
(* failure App was told of, and those whose failure nobody hears of.        *)
History == [raced : SUBSET Viewport, reported : SUBSET Viewport,
            unheard : SUBSET Viewport, failures : 0..MaxFailures]

(* Type invariant of the queue, the page, the network and the store. *)
TypeOK ==
  /\ queue \in Queue /\ page \in Page /\ history \in History
  /\ onTheWay \subseteq Write
  /\ stored \in Viewport

Init ==
  /\ queue = [timer |-> FALSE, pending |-> None, inFlight |-> None,
              answer |-> "awaited", accepting |-> TRUE]
  /\ page = [open |-> TRUE, moves |-> 0, exits |-> 0]
  /\ onTheWay = {}
  /\ stored = 0
  /\ history = [raced |-> {}, reported |-> {}, unheard |-> {}, failures |-> 0]

-----------------------------------------------------------------------------
(* save, saveForPageExit: api.patchViewport. *)
Send(viewport, by, past) ==
  /\ onTheWay' = onTheWay \cup {[viewport |-> viewport, by |-> by]}
  /\ history' = [past EXCEPT
                   !.raced = IF onTheWay = {} THEN @ ELSE @ \cup {viewport}]

InFlight(q) == [q EXCEPT !.pending = None, !.inFlight = q.pending]

FlushAlways(q, past) ==
  queue' = InFlight(q) /\ Send(q.pending, "queued", past)
FlushAnyway(q, past) ==
  IF q.pending = None
  THEN queue' = q /\ history' = past /\ UNCHANGED onTheWay
  ELSE queue' = InFlight(q) /\ Send(q.pending, "queued", past)
(* At most one write of the queue at a time. *)
flush(q, past) ==
  IF q.inFlight # None \/ q.pending = None
  THEN queue' = q /\ history' = past /\ UNCHANGED onTheWay
  ELSE queue' = InFlight(q) /\ Send(q.pending, "queued", past)

(* The end of a canvas movement; the debounce starts again. *)
schedule ==
  /\ page.open /\ queue.accepting /\ page.moves < MaxMoves
  /\ page' = [page EXCEPT !.moves = @ + 1]
  /\ queue' = [queue EXCEPT !.pending = page.moves + 1, !.timer = TRUE]
  /\ UNCHANGED <<onTheWay, stored, history>>

debounced ==
  /\ page.open /\ queue.timer
  /\ flush([queue EXCEPT !.timer = FALSE], history)
  /\ UNCHANGED <<page, stored>>

DisposeForgetting ==
  /\ page.open /\ queue.accepting
  /\ queue' = [queue EXCEPT !.accepting = FALSE, !.timer = FALSE]
  /\ UNCHANGED <<page, onTheWay, stored, history>>
(* The unmount of the application, or another map's queue in its place. *)
dispose ==
  /\ page.open /\ queue.accepting
  /\ flush([queue EXCEPT !.accepting = FALSE, !.timer = FALSE], history)
  /\ UNCHANGED <<page, stored>>

SettledRetrying ==
  /\ page.open /\ queue.answer = "failed"
  /\ queue.pending # None /\ ~queue.timer
  /\ queue' = [queue EXCEPT !.inFlight = queue.pending, !.timer = TRUE,
                            !.pending = queue.inFlight, !.answer = "awaited"]
  /\ Send(queue.pending, "queued", history)
  /\ UNCHANGED <<page, stored>>
(* The catch and the finally of a write: a failure is reported and not       *)
(* retried; what is pending follows, unless its debounce is still running.   *)
settled ==
  /\ page.open /\ queue.answer # "awaited"
  /\ LET done == [queue EXCEPT !.inFlight = None, !.answer = "awaited"]
         past == IF queue.answer = "saved" THEN history
                 ELSE [history EXCEPT !.reported = @ \cup {queue.inFlight}]
     IN IF done.timer
        THEN queue' = done /\ history' = past /\ UNCHANGED onTheWay
        ELSE flush(done, past)
  /\ UNCHANGED <<page, stored>>

ExitUnsent ==
  /\ queue' = [queue EXCEPT !.timer = FALSE, !.pending = None]
  /\ UNCHANGED <<onTheWay, history>>
(* Does not wait for the write in flight. *)
flushForPageExit ==
  /\ queue' = [queue EXCEPT !.timer = FALSE, !.pending = None]
  /\ IF queue.pending = None THEN UNCHANGED <<onTheWay, history>>
     ELSE Send(queue.pending, "exit", history)

(* pagehide: the page is gone, or frozen and later shown again. A queue that *)
(* App has disposed of is not flushed.                                       *)
pagehide ==
  /\ page.open /\ page.exits < MaxExits
  /\ \E open \in BOOLEAN :
       page' = [page EXCEPT !.open = open, !.exits = @ + 1]
  /\ IF queue.accepting THEN flushForPageExit
     ELSE UNCHANGED <<queue, onTheWay, history>>
  /\ UNCHANGED stored

-----------------------------------------------------------------------------
(* The network and the server (external).                                   *)
Answered(write, answer) ==
  queue' = [queue EXCEPT !.answer = IF write.by = "queued" THEN answer ELSE @]

Applied(write) ==
  /\ stored' = write.viewport
  /\ onTheWay' = onTheWay \ {write}
  /\ Answered(write, "saved")
  /\ UNCHANGED <<page, history>>

Failing(write) ==
  /\ history.failures < MaxFailures
  /\ history' = [history EXCEPT
       !.failures = @ + 1,
       !.unheard = IF write.by = "exit" THEN @ \cup {write.viewport} ELSE @]
  /\ Answered(write, "failed")
  /\ UNCHANGED <<page, stored>>

Refused(write) == Failing(write) /\ onTheWay' = onTheWay \ {write}

(* The client has its error; the server may still come to the request. *)
ConnectionLost(write) ==
  /\ write.by = "queued"
  /\ Failing(write)
  /\ onTheWay' = (onTheWay \ {write}) \cup {[write EXCEPT !.by = "given up"]}

Server == \E write \in onTheWay :
            Applied(write) \/ Refused(write) \/ ConnectionLost(write)

Next ==
  \/ schedule \/ debounced \/ dispose \/ settled \/ pagehide
  \/ Server

Spec == Init /\ [][Next]_vars

(* Timers fire, callbacks run and the server answers; nobody is obliged to  *)
(* move the canvas or to leave the page.                                    *)
FairSpec == Spec /\ WF_vars(debounced) /\ WF_vars(settled) /\ WF_vars(Server)

-----------------------------------------------------------------------------
Idle == ~queue.timer /\ queue.pending = None /\ queue.inFlight = None
Quiet == onTheWay = {} /\ (page.open => Idle)

(* "Strictly serialized": of the writes whose answer the queue waits for, at *)
(* most one is on its way, and it is the one it holds in flight.             *)
OneQueuedWrite ==
  \A write \in onTheWay : write.by = "queued" =>
     write.viewport = queue.inFlight /\ queue.answer = "awaited"

(* The writes are serialized, and once everything has been written the       *)
(* server holds the user's last viewport, or the user was told that it was   *)
(* not saved, or it was sent while an earlier write was still on its way (by *)
(* a page exit, or after a broken connection), or nobody was left to hear of *)
(* it: the page was going, or had gone after the unmount.                    *)
NewestWins ==
  /\ OneQueuedWrite
  /\ Quiet =>
       \/ stored = page.moves
       \/ page.moves \in history.raced \cup history.reported \cup history.unheard
       \/ ~page.open /\ page.moves \in {queue.pending, queue.inFlight}

(* A slower earlier write undoes a later one only when both were on their    *)
(* way at once; the queue itself never sends an earlier viewport after a     *)
(* later one.                                                                *)
EarlierNeverWins == [][stored' < stored => stored \in history.raced]_vars

(* The queue always drains, disposed of or not: nothing stays pending behind *)
(* a write that has been answered.                                           *)
Drains == <>[]Quiet
=============================================================================
