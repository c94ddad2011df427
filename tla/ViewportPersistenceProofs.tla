----------------------- MODULE ViewportPersistenceProofs -----------------------
(***************************************************************************)
(* Theorems about ViewportPersistence, for every number of movements, page *)
(* exits and failures.                                                     *)
(***************************************************************************)
EXTENDS ViewportPersistence, TLAPS

(* The queue awaits an answer only of what it holds in flight, and what is  *)
(* pending is the user's last viewport.                                     *)
QueueInv ==
  /\ queue.answer # "awaited" => queue.inFlight # None
  /\ queue.pending \in {None, page.moves}
  /\ OneQueuedWrite

(* Nothing that was sent or stored is as new as what is pending.            *)
SentBefore ==
  /\ \A write \in onTheWay : write.viewport <= page.moves
  /\ stored <= page.moves
  /\ queue.pending # None =>
       /\ \A write \in onTheWay : write.viewport < queue.pending
       /\ stored < queue.pending

(* Of two viewports on their way at once, or on its way and stored, the     *)
(* later one was sent into a race.                                          *)
RacesKnown ==
  \A write \in onTheWay :
    /\ write.viewport < stored => stored \in history.raced
    /\ \A other \in onTheWay :
         write.viewport < other.viewport => other.viewport \in history.raced

(* Once the last viewport is sent, and not into a race, nothing else is on  *)
(* its way.                                                                 *)
LastAlone ==
  queue.pending = None /\ page.moves \notin history.raced =>
    \A write \in onTheWay : write.viewport = page.moves

(* Where the user's last viewport is: pending, on its way with someone      *)
(* waiting for it, failed and about to be reported, stored, or excused.     *)
Excused == history.raced \cup history.reported \cup history.unheard
LastAccounted ==
  \/ queue.pending # None
  \/ page.moves \in Excused
  \/ stored = page.moves
  \/ queue.inFlight = page.moves /\ queue.answer = "failed"
  \/ \E write \in onTheWay : write.viewport = page.moves /\ write.by # "given up"

(* The inductive invariant of the queue.                                    *)
ViewInv == QueueInv /\ SentBefore /\ RacesKnown /\ LastAlone /\ LastAccounted

-----------------------------------------------------------------------------
(* What sending and flushing do, field by field.                            *)

LEMMA Numbers ==
  /\ 0 \in Viewport /\ Viewport \subseteq Nat
  /\ \A n \in Viewport : n < MaxMoves => n + 1 \in Viewport
  /\ \A n \in 0..MaxExits : n < MaxExits => n + 1 \in 0..MaxExits
  /\ \A n \in 0..MaxFailures : n < MaxFailures => n + 1 \in 0..MaxFailures
BY ViewportAssumption DEF Viewport

LEMMA SendFields ==
  ASSUME TypeOK, NEW viewport \in Viewport \ {0}, NEW by \in {"queued", "exit"},
         NEW past \in History, Send(viewport, by, past)
  PROVE  /\ onTheWay' = onTheWay \cup {[viewport |-> viewport, by |-> by]}
         /\ onTheWay' \subseteq Write
         /\ history' \in History
         /\ history'.raced = IF onTheWay = {} THEN past.raced
                             ELSE past.raced \cup {viewport}
         /\ history'.reported = past.reported /\ history'.unheard = past.unheard
         /\ history'.failures = past.failures
<1> DEFINE raced == IF onTheWay = {} THEN past.raced
                    ELSE past.raced \cup {viewport}
<1>1. raced \in SUBSET Viewport
  BY DEF History
<1>2. history' = [past EXCEPT !.raced = raced]
  BY DEF Send
<1>3. onTheWay' = onTheWay \cup {[viewport |-> viewport, by |-> by]}
  BY DEF Send
<1>4. [viewport |-> viewport, by |-> by] \in Write
  BY DEF Write
<1>5. onTheWay' \subseteq Write
  BY <1>3, <1>4 DEF TypeOK
<1> HIDE DEF raced
<1>6. /\ history' \in History /\ history'.raced = raced
      /\ history'.reported = past.reported /\ history'.unheard = past.unheard
      /\ history'.failures = past.failures
  BY <1>1, <1>2 DEF History
<1>7. QED
  BY <1>3, <1>5, <1>6 DEF raced

LEMMA InFlightFields ==
  ASSUME NEW q \in Queue
  PROVE  /\ InFlight(q) \in Queue
         /\ InFlight(q).pending = None /\ InFlight(q).inFlight = q.pending
         /\ InFlight(q).answer = q.answer
BY Numbers DEF InFlight, Queue, None

(* flush sends what is pending, or changes nothing.                         *)
LEMMA FlushFields ==
  ASSUME TypeOK, NEW q \in Queue, NEW past \in History, flush(q, past)
  PROVE  \/ queue' = q /\ history' = past /\ onTheWay' = onTheWay
         \/ /\ q.inFlight = None /\ q.pending \in Viewport \ {0}
            /\ queue' = InFlight(q) /\ Send(q.pending, "queued", past)
BY DEF flush, Queue, None

(* The settled write is taken out of the queue, and a failure is reported.  *)
LEMMA DoneFields ==
  ASSUME TypeOK,
         NEW done, done = [queue EXCEPT !.inFlight = None, !.answer = "awaited"],
         NEW past, past = IF queue.answer = "saved" THEN history
                 ELSE [history EXCEPT !.reported = @ \cup {queue.inFlight}]
  PROVE  /\ done \in Queue /\ past \in History
         /\ done.inFlight = None /\ done.answer = "awaited"
         /\ done.pending = queue.pending
         /\ past.raced = history.raced /\ past.unheard = history.unheard
         /\ history.reported \subseteq past.reported
         /\ queue.answer = "failed" => queue.inFlight \in past.reported
<1>1. queue \in Queue /\ history \in History
  BY DEF TypeOK
<1>2. /\ done \in Queue /\ done.inFlight = None /\ done.answer = "awaited"
      /\ done.pending = queue.pending
  BY <1>1, Numbers DEF Queue, None
<1>3. CASE queue.answer = "saved"
  BY <1>1, <1>2, <1>3
<1>4. CASE queue.answer # "saved"
  <2>1. history.reported \cup {queue.inFlight} \in SUBSET Viewport
    BY <1>1 DEF Queue, History
  <2>2. past = [history EXCEPT !.reported = history.reported \cup {queue.inFlight}]
    BY <1>4
  <2>3. /\ past \in History /\ past.raced = history.raced
        /\ past.unheard = history.unheard
        /\ past.reported = history.reported \cup {queue.inFlight}
    BY <1>1, <2>1, <2>2 DEF History
  <2>4. QED
    BY <1>2, <2>3
<1>5. QED
  BY <1>3, <1>4

LEMMA TypeStep == TypeOK /\ [Next]_vars => TypeOK'
<1> SUFFICES ASSUME TypeOK, [Next]_vars PROVE TypeOK'
  OBVIOUS
<1>1. ASSUME NEW q \in Queue, NEW past \in History, flush(q, past)
      PROVE  queue' \in Queue /\ history' \in History /\ onTheWay' \subseteq Write
  <2>1. CASE queue' = q /\ history' = past /\ onTheWay' = onTheWay
    BY <1>1, <2>1 DEF TypeOK
  <2>2. CASE /\ q.pending \in Viewport \ {0}
             /\ queue' = InFlight(q) /\ Send(q.pending, "queued", past)
    BY <1>1, <2>2, InFlightFields, SendFields
  <2>3. QED
    BY <1>1, <2>1, <2>2, FlushFields
<1>2. CASE schedule
  <2>1. page.moves + 1 \in Viewport
    BY <1>2, Numbers DEF schedule, TypeOK, Page
  <2>2. page' \in Page /\ queue' \in Queue
    BY <1>2, <2>1 DEF schedule, TypeOK, Page, Queue
  <2>3. QED
    BY <1>2, <2>2 DEF schedule, TypeOK
<1>3. CASE debounced
  <2>1. [queue EXCEPT !.timer = FALSE] \in Queue
    BY DEF TypeOK, Queue
  <2>2. QED
    BY <1>1, <1>3, <2>1 DEF debounced, TypeOK
<1>4. CASE dispose
  <2>1. [queue EXCEPT !.accepting = FALSE, !.timer = FALSE] \in Queue
    BY DEF TypeOK, Queue
  <2>2. QED
    BY <1>1, <1>4, <2>1 DEF dispose, TypeOK
<1>5. CASE settled
  <2> DEFINE done == [queue EXCEPT !.inFlight = None, !.answer = "awaited"]
             past == IF queue.answer = "saved" THEN history
                 ELSE [history EXCEPT !.reported = @ \cup {queue.inFlight}]
  <2>1. done \in Queue /\ past \in History
    BY DoneFields
  <2>2. \/ queue' = done /\ history' = past /\ onTheWay' = onTheWay
        \/ flush(done, past)
    BY <1>5 DEF settled
  <2>3. page' = page /\ stored' = stored
    BY <1>5 DEF settled
  <2> HIDE DEF done, past
  <2>4. queue' \in Queue /\ history' \in History /\ onTheWay' \subseteq Write
    BY <1>1, <2>1, <2>2 DEF TypeOK
  <2>5. QED
    BY <2>3, <2>4 DEF TypeOK
<1>6. CASE pagehide
  <2>1. [queue EXCEPT !.timer = FALSE, !.pending = None] \in Queue
    BY Numbers DEF TypeOK, Queue, None
  <2>2. page' \in Page
    BY <1>6, Numbers DEF pagehide, TypeOK, Page
  <2>3. queue' \in Queue
    BY <1>6, <2>1 DEF pagehide, flushForPageExit, TypeOK
  <2>4. history' \in History /\ onTheWay' \subseteq Write
    <3>1. CASE UNCHANGED <<onTheWay, history>>
      BY <3>1 DEF TypeOK
    <3>2. CASE queue.pending # None /\ Send(queue.pending, "exit", history)
      BY <3>2, SendFields DEF TypeOK, Queue, None
    <3>3. QED
      BY <1>6, <3>1, <3>2 DEF pagehide, flushForPageExit
  <2>5. QED
    BY <1>6, <2>2, <2>3, <2>4 DEF pagehide, TypeOK
<1>7. ASSUME NEW write \in onTheWay, NEW answer \in {"saved", "failed"},
             Answered(write, answer)
      PROVE  queue' \in Queue
  BY <1>7 DEF Answered, TypeOK, Queue
<1>8. ASSUME NEW write \in onTheWay, Applied(write) PROVE TypeOK'
  <2>1. write.viewport \in Viewport
    BY DEF TypeOK, Write
  <2>2. queue' \in Queue
    BY <1>7, <1>8 DEF Applied
  <2>3. QED
    BY <1>8, <2>1, <2>2 DEF Applied, TypeOK
<1>9. ASSUME NEW write \in onTheWay, Refused(write) \/ ConnectionLost(write)
      PROVE  TypeOK'
  <2>1. Failing(write) /\ write \in Write
    BY <1>9 DEF Refused, ConnectionLost, TypeOK
  <2>2. queue' \in Queue
    BY <1>7, <2>1 DEF Failing
  <2>3. history' \in History
    <3>1. PICK unheard : /\ unheard \in {history.unheard,
                                        history.unheard \cup {write.viewport}}
                         /\ history' = [history EXCEPT !.failures = @ + 1,
                                                       !.unheard = unheard]
      BY <2>1 DEF Failing
    <3>2. unheard \in SUBSET Viewport
      BY <2>1, <3>1 DEF TypeOK, History, Write
    <3>3. history.failures + 1 \in 0..MaxFailures
      BY <2>1, Numbers DEF Failing, TypeOK, History
    <3>4. QED
      BY <3>1, <3>2, <3>3 DEF TypeOK, History
  <2>4. onTheWay' \subseteq Write
    BY <1>9, <2>1 DEF Refused, ConnectionLost, TypeOK, Write
  <2>5. QED
    BY <2>1, <2>2, <2>3, <2>4 DEF Failing, TypeOK
<1>10. CASE UNCHANGED vars
  BY <1>10 DEF vars, TypeOK
<1>11. QED
  BY <1>2, <1>3, <1>4, <1>5, <1>6, <1>8, <1>9, <1>10 DEF Next, Server

(* The types of the queue, the page, the network and the store hold.        *)
THEOREM ViewportTypeCorrect == Spec => []TypeOK
<1>1. Init => TypeOK
  BY ViewportAssumption
  DEF Init, TypeOK, Queue, Page, History, Viewport, None
<1>2. QED
  BY <1>1, TypeStep, PTL DEF Spec

-----------------------------------------------------------------------------
(* The invariant of the queue.                                              *)

(* Sending what is pending: it is newer than anything sent, and in a race    *)
(* if anything is on its way.                                               *)
LEMMA SendKeeps ==
  ASSUME TypeOK, TypeOK', ViewInv, queue.pending # None,
         NEW by \in {"queued", "exit"},
         onTheWay' = onTheWay \cup {[viewport |-> queue.pending, by |-> by]},
         history'.raced = IF onTheWay = {} THEN history.raced
                          ELSE history.raced \cup {queue.pending},
         queue'.pending = None, page'.moves = page.moves, stored' = stored,
         by = "queued" =>
           /\ queue.inFlight = None \/ queue.answer # "awaited"
           /\ queue'.inFlight = queue.pending /\ queue'.answer = "awaited",
         by = "exit" =>
           queue'.inFlight = queue.inFlight /\ queue'.answer = queue.answer
  PROVE  ViewInv'
<1> DEFINE new == [viewport |-> queue.pending, by |-> by]
<1>1. /\ queue.pending = page.moves /\ new.viewport = page.moves /\ new.by = by
      /\ page.moves \in Nat /\ page.moves # 0
  BY Numbers DEF ViewInv, QueueInv, TypeOK, Page, None
<1>2. \A write \in onTheWay : /\ write.viewport \in Nat /\ write.viewport # 0
                              /\ write.viewport < page.moves
  BY <1>1, Numbers DEF ViewInv, SentBefore, TypeOK, Write
<1>3. stored \in Nat /\ stored < page.moves
  BY <1>1, Numbers DEF ViewInv, SentBefore, TypeOK
<1>4. onTheWay' = onTheWay \cup {new}
  OBVIOUS
<1> HIDE DEF new
<1>5. QueueInv'
  <2>1. CASE by = "exit"
    BY <1>1, <1>4, <2>1 DEF ViewInv, QueueInv, OneQueuedWrite, None
  <2>2. CASE by = "queued"
    <3>1. \A write \in onTheWay : write.by # "queued"
      BY <1>2, <2>2 DEF ViewInv, QueueInv, OneQueuedWrite, None
    <3>2. QED
      BY <1>1, <1>4, <2>2, <3>1 DEF QueueInv, OneQueuedWrite, None
  <2>3. QED BY <2>1, <2>2
<1>6. SentBefore'
  <2>1. \A write \in onTheWay' : write.viewport <= page.moves
    BY <1>1, <1>2, <1>4
  <2>2. stored' <= page'.moves
    BY <1>1, <1>3
  <2>3. QED
    BY <2>1, <2>2 DEF SentBefore
<1>7. RacesKnown'
  <2>1. history.raced \subseteq history'.raced
    OBVIOUS
  <2>2. \A write, other \in onTheWay' : write.viewport < other.viewport =>
          other.viewport \in history'.raced
    <3>1. ASSUME NEW write \in onTheWay, NEW other \in onTheWay,
                 write.viewport < other.viewport
          PROVE  other.viewport \in history'.raced
      BY <2>1, <3>1 DEF ViewInv, RacesKnown
    <3>2. ASSUME NEW write \in onTheWay PROVE new.viewport \in history'.raced
      BY <1>1
    <3>3. ASSUME NEW other \in onTheWay' PROVE ~(new.viewport < other.viewport)
      BY <1>1, <1>2, <1>4
    <3>4. QED
      BY <1>4, <3>1, <3>2, <3>3
  <2>3. \A write \in onTheWay' : write.viewport < stored => stored \in history'.raced
    BY <1>1, <1>3, <1>4, <2>1 DEF ViewInv, RacesKnown
  <2>4. QED
    BY <2>2, <2>3 DEF RacesKnown
<1>8. LastAlone'
  BY <1>1, <1>4 DEF LastAlone
<1>9. LastAccounted'
  BY <1>1, <1>4 DEF LastAccounted
<1>10. QED
  BY <1>5, <1>6, <1>7, <1>8, <1>9 DEF ViewInv

(* A step that sends, stores and schedules nothing: the settled write may    *)
(* leave the queue, its failure reported.                                   *)
LEMMA QuietKeeps ==
  ASSUME ViewInv,
         onTheWay' = onTheWay, stored' = stored, page'.moves = page.moves,
         queue'.pending = queue.pending,
         history'.raced = history.raced, history'.unheard = history.unheard,
         history.reported \subseteq history'.reported,
         \/ queue'.inFlight = queue.inFlight /\ queue'.answer = queue.answer
         \/ /\ queue.answer # "awaited"
            /\ queue'.inFlight = None /\ queue'.answer = "awaited"
            /\ queue.answer = "failed" => queue.inFlight \in history'.reported
  PROVE  ViewInv'
<1>1. QueueInv'
  BY DEF ViewInv, QueueInv, OneQueuedWrite
<1>2. SentBefore'
  BY DEF ViewInv, SentBefore
<1>3. RacesKnown'
  BY DEF ViewInv, RacesKnown
<1>4. LastAlone'
  BY DEF ViewInv, LastAlone
<1>5. LastAccounted'
  BY DEF ViewInv, LastAccounted, Excused
<1>6. QED
  BY <1>1, <1>2, <1>3, <1>4, <1>5 DEF ViewInv

(* What flush does to a queue that is as it was, or whose write has settled. *)
LEMMA FlushKeeps ==
  ASSUME TypeOK, TypeOK', ViewInv, NEW q \in Queue, NEW past \in History,
         flush(q, past) \/ (queue' = q /\ history' = past /\ onTheWay' = onTheWay),
         page'.moves = page.moves, stored' = stored,
         q.pending = queue.pending,
         past.raced = history.raced, past.unheard = history.unheard,
         history.reported \subseteq past.reported,
         \/ q.inFlight = queue.inFlight /\ q.answer = queue.answer
         \/ /\ queue.answer # "awaited"
            /\ q.inFlight = None /\ q.answer = "awaited"
            /\ queue.answer = "failed" => queue.inFlight \in past.reported
  PROVE  ViewInv'
<1>1. CASE queue' = q /\ history' = past /\ onTheWay' = onTheWay
  BY <1>1, QuietKeeps
<1>2. CASE /\ q.inFlight = None /\ q.pending \in Viewport \ {0}
           /\ queue' = InFlight(q) /\ Send(q.pending, "queued", past)
  <2>1. /\ queue'.pending = None /\ queue'.inFlight = q.pending
        /\ queue'.answer = q.answer
    BY <1>2, InFlightFields
  <2>2. /\ onTheWay' = onTheWay \cup {[viewport |-> q.pending, by |-> "queued"]}
        /\ history'.raced = IF onTheWay = {} THEN past.raced
                            ELSE past.raced \cup {q.pending}
    BY <1>2, SendFields
  <2>3. q.answer = "awaited"
    BY <1>2 DEF ViewInv, QueueInv
  <2>4. queue.pending # None /\ (queue.inFlight = None \/ queue.answer # "awaited")
    BY <1>2 DEF None
  <2>5. QED
    BY <2>1, <2>2, <2>3, <2>4, SendKeeps
<1>3. QED
  BY <1>1, <1>2, FlushFields

LEMMA SameWrite ==
  ASSUME NEW a \in Write, NEW b \in Write, a.viewport = b.viewport, a.by = b.by
  PROVE  a = b
<1>1. ASSUME NEW w \in Write PROVE w = [viewport |-> w.viewport, by |-> w.by]
  BY DEF Write
<1>2. QED
  BY <1>1

(* What answering a write does to the queue: only the one in flight counts.  *)
LEMMA AnsweredFields ==
  ASSUME TypeOK, ViewInv, NEW write \in onTheWay, NEW answer \in {"saved", "failed"},
         Answered(write, answer)
  PROVE  /\ queue'.pending = queue.pending /\ queue'.inFlight = queue.inFlight
         /\ IF write.by = "queued"
            THEN /\ queue.answer = "awaited" /\ queue'.answer = answer
                 /\ write.viewport = queue.inFlight /\ queue.inFlight # None
            ELSE queue'.answer = queue.answer
BY DEF Answered, TypeOK, Queue, ViewInv, QueueInv, OneQueuedWrite, Write, None

(* A write that leaves the network, applied or failed, or that the client     *)
(* gives up: no other write is the queue's, and the order of the others is    *)
(* what it was.                                                              *)
LEMMA LeavingKeeps ==
  ASSUME TypeOK, TypeOK', ViewInv, NEW write \in onTheWay,
         NEW answer \in {"saved", "failed"}, Answered(write, answer),
         UNCHANGED page,
         stored' = IF answer = "saved" THEN write.viewport ELSE stored,
         \/ onTheWay' = onTheWay \ {write}
         \/ /\ answer = "failed" /\ write.by = "queued"
            /\ onTheWay' = (onTheWay \ {write})
                             \cup {[write EXCEPT !.by = "given up"]},
         history'.raced = history.raced, history'.reported = history.reported,
         history'.unheard = IF answer = "failed" /\ write.by = "exit"
                            THEN history.unheard \cup {write.viewport}
                            ELSE history.unheard
  PROVE  ViewInv'
<1>1. /\ queue'.pending = queue.pending /\ queue'.inFlight = queue.inFlight
      /\ IF write.by = "queued"
         THEN /\ queue.answer = "awaited" /\ queue'.answer = answer
              /\ write.viewport = queue.inFlight /\ queue.inFlight # None
         ELSE queue'.answer = queue.answer
  BY AnsweredFields
<1>2. ASSUME NEW other \in onTheWay'
      PROVE  \/ other \in onTheWay /\ other # write
             \/ other.viewport = write.viewport /\ other.by = "given up"
  BY <1>2 DEF TypeOK, Write
<1>3. \A other \in onTheWay' : \E w \in onTheWay : other.viewport = w.viewport
  BY <1>2
<1>4. QueueInv'
  <2>1. ASSUME NEW other \in onTheWay', other.by = "queued"
        PROVE  other.viewport = queue'.inFlight /\ queue'.answer = "awaited"
    <3>1. other \in onTheWay /\ other # write /\ other \in Write /\ write \in Write
      BY <1>2, <2>1 DEF TypeOK
    <3>2. other.viewport = queue.inFlight /\ queue.answer = "awaited"
      BY <2>1, <3>1 DEF ViewInv, QueueInv, OneQueuedWrite
    <3>3. write.by # "queued"
      BY <1>1, <2>1, <3>1, <3>2, SameWrite
    <3>4. QED
      BY <1>1, <3>2, <3>3
  <2>2. queue'.answer # "awaited" => queue'.inFlight # None
    BY <1>1 DEF ViewInv, QueueInv
  <2>3. QED
    BY <1>1, <2>1, <2>2 DEF ViewInv, QueueInv, OneQueuedWrite
<1>5. SentBefore'
  <2>1. \A other \in onTheWay' : other.viewport <= page.moves
    BY <1>3 DEF ViewInv, SentBefore
  <2>2. stored' <= page.moves
    BY DEF ViewInv, SentBefore
  <2>3. queue.pending # None =>
          /\ \A other \in onTheWay' : other.viewport < queue.pending
          /\ stored' < queue.pending
    BY <1>3 DEF ViewInv, SentBefore
  <2>4. QED
    BY <1>1, <2>1, <2>2, <2>3 DEF SentBefore
<1>6. RacesKnown'
  <2>1. \A w \in onTheWay :
          /\ w.viewport < stored' => stored' \in history.raced
          /\ \A other \in onTheWay :
               w.viewport < other.viewport => other.viewport \in history.raced
    BY DEF ViewInv, RacesKnown
  <2>2. QED
    BY <1>3, <2>1 DEF RacesKnown
<1>7. LastAlone'
  BY <1>1, <1>3 DEF ViewInv, LastAlone
<1>8. LastAccounted'
  <2>1. CASE queue.pending # None \/ page.moves \in Excused
    BY <1>1, <2>1 DEF LastAccounted, Excused
  <2>2. CASE /\ queue.pending = None /\ page.moves \notin Excused
             /\ answer = "saved" \/ stored = page.moves
    <3>1. write.viewport = page.moves
      BY <2>2 DEF ViewInv, LastAlone, Excused
    <3>2. stored' = page.moves
      BY <2>2, <3>1
    <3>3. QED
      BY <3>2 DEF LastAccounted
  <2>3. CASE queue.inFlight = page.moves /\ queue.answer = "failed"
    BY <1>1, <2>3 DEF LastAccounted
  <2>4. ASSUME NEW w \in onTheWay, w.viewport = page.moves, w.by # "given up",
               answer = "failed"
        PROVE  LastAccounted'
    <3>1. CASE w # write
      <4>1. w \in onTheWay'
        BY <3>1
      <4>2. QED
        BY <2>4, <4>1 DEF LastAccounted
    <3>2. CASE w = write /\ write.by = "queued"
      BY <1>1, <2>4, <3>2 DEF LastAccounted
    <3>3. CASE w = write /\ write.by = "exit"
      BY <2>4, <3>3 DEF LastAccounted, Excused
    <3>4. QED
      BY <2>4, <3>1, <3>2, <3>3 DEF TypeOK, Write
  <2>5. QED
    BY <2>1, <2>2, <2>3, <2>4 DEF ViewInv, LastAccounted
<1>9. QED
  BY <1>4, <1>5, <1>6, <1>7, <1>8 DEF ViewInv

LEMMA ViewStep == TypeOK /\ TypeOK' /\ ViewInv /\ [Next]_vars => ViewInv'
<1> SUFFICES ASSUME TypeOK, TypeOK', ViewInv, [Next]_vars PROVE ViewInv'
  OBVIOUS
<1>1. queue \in Queue /\ history \in History /\ page \in Page
  BY DEF TypeOK
<1>2. CASE schedule
  <2>1. /\ page'.moves = page.moves + 1 /\ page.moves \in Nat
        /\ queue'.pending = page.moves + 1 /\ queue'.inFlight = queue.inFlight
        /\ queue'.answer = queue.answer
        /\ UNCHANGED <<onTheWay, stored, history>>
    BY <1>1, <1>2, Numbers DEF schedule, Queue, Page
  <2>2. stored \in Nat /\ \A write \in onTheWay : write.viewport \in Nat
    BY Numbers DEF TypeOK, Write
  <2>3. QueueInv'
    BY <2>1 DEF ViewInv, QueueInv, OneQueuedWrite
  <2>4. SentBefore'
    <3>1. stored < page.moves + 1
          /\ \A write \in onTheWay : write.viewport < page.moves + 1
      BY <2>1, <2>2 DEF ViewInv, SentBefore
    <3>2. stored <= page.moves + 1
          /\ \A write \in onTheWay : write.viewport <= page.moves + 1
      BY <2>1, <2>2, <3>1
    <3>3. QED
      BY <2>1, <3>1, <3>2 DEF SentBefore
  <2>5. RacesKnown'
    BY <2>1 DEF ViewInv, RacesKnown
  <2>6. queue'.pending # None
    BY <2>1 DEF None
  <2>7. LastAlone' /\ LastAccounted'
    BY <2>6 DEF LastAlone, LastAccounted
  <2>8. QED
    BY <2>3, <2>4, <2>5, <2>7 DEF ViewInv
<1>3. CASE debounced
  <2> DEFINE q == [queue EXCEPT !.timer = FALSE]
  <2>1. /\ q \in Queue /\ q.pending = queue.pending
        /\ q.inFlight = queue.inFlight /\ q.answer = queue.answer
    BY <1>1 DEF Queue
  <2>2. flush(q, history) /\ page' = page /\ stored' = stored
    BY <1>3 DEF debounced
  <2> HIDE DEF q
  <2>3. QED
    BY <1>1, <2>1, <2>2, FlushKeeps
<1>4. CASE dispose
  <2> DEFINE q == [queue EXCEPT !.accepting = FALSE, !.timer = FALSE]
  <2>1. /\ q \in Queue /\ q.pending = queue.pending
        /\ q.inFlight = queue.inFlight /\ q.answer = queue.answer
    BY <1>1 DEF Queue
  <2>2. flush(q, history) /\ page' = page /\ stored' = stored
    BY <1>4 DEF dispose
  <2> HIDE DEF q
  <2>3. QED
    BY <1>1, <2>1, <2>2, FlushKeeps
<1>5. CASE settled
  <2> DEFINE done == [queue EXCEPT !.inFlight = None, !.answer = "awaited"]
             past == IF queue.answer = "saved" THEN history
                 ELSE [history EXCEPT !.reported = @ \cup {queue.inFlight}]
  <2>1. /\ done \in Queue /\ past \in History
        /\ done.inFlight = None /\ done.answer = "awaited"
        /\ done.pending = queue.pending
        /\ past.raced = history.raced /\ past.unheard = history.unheard
        /\ history.reported \subseteq past.reported
        /\ queue.answer = "failed" => queue.inFlight \in past.reported
    BY DoneFields
  <2>2. /\ \/ queue' = done /\ history' = past /\ onTheWay' = onTheWay
           \/ flush(done, past)
        /\ page' = page /\ stored' = stored /\ queue.answer # "awaited"
    BY <1>5 DEF settled
  <2> HIDE DEF done, past
  <2>3. QED
    BY <2>1, <2>2, FlushKeeps
<1>6. CASE pagehide
  <2> DEFINE q == [queue EXCEPT !.timer = FALSE, !.pending = None]
  <2>1. page'.moves = page.moves /\ stored' = stored
    BY <1>1, <1>6 DEF pagehide, Page
  <2>2. q.pending = None /\ q.inFlight = queue.inFlight /\ q.answer = queue.answer
    BY <1>1 DEF Queue
  <2>3. \/ UNCHANGED <<queue, onTheWay, history>>
        \/ /\ queue' = q
           /\ IF queue.pending = None THEN UNCHANGED <<onTheWay, history>>
              ELSE Send(queue.pending, "exit", history)
    BY <1>6 DEF pagehide, flushForPageExit
  <2> HIDE DEF q
  <2>4. CASE UNCHANGED <<onTheWay, history>> /\ queue'.pending = queue.pending
             /\ queue'.inFlight = queue.inFlight /\ queue'.answer = queue.answer
    BY <2>1, <2>4, QuietKeeps
  <2>5. CASE /\ queue' = q /\ queue.pending # None
             /\ Send(queue.pending, "exit", history)
    <3>1. queue.pending \in Viewport \ {0}
      BY <1>1, <2>5 DEF Queue, None
    <3>2. /\ onTheWay' = onTheWay \cup {[viewport |-> queue.pending, by |-> "exit"]}
          /\ history'.raced = IF onTheWay = {} THEN history.raced
                              ELSE history.raced \cup {queue.pending}
      BY <1>1, <2>5, <3>1, SendFields
    <3>3. QED
      BY <2>1, <2>2, <2>5, <3>2, SendKeeps
  <2>6. QED
    BY <2>2, <2>3, <2>4, <2>5
<1>7. ASSUME NEW write \in onTheWay, Applied(write) PROVE ViewInv'
  <2>1. /\ Answered(write, "saved") /\ page' = page /\ history' = history
        /\ stored' = write.viewport /\ onTheWay' = onTheWay \ {write}
    BY <1>7 DEF Applied
  <2>2. QED
    BY <2>1, LeavingKeeps
<1>8. ASSUME NEW write \in onTheWay, Refused(write) \/ ConnectionLost(write)
      PROVE  ViewInv'
  <2>1. /\ Answered(write, "failed") /\ page' = page /\ stored' = stored
        /\ Failing(write)
    BY <1>8 DEF Refused, ConnectionLost, Failing
  <2>2. /\ history'.raced = history.raced /\ history'.reported = history.reported
        /\ history'.unheard = IF write.by = "exit"
                              THEN history.unheard \cup {write.viewport}
                              ELSE history.unheard
    BY <1>1, <2>1 DEF Failing, History
  <2>3. \/ onTheWay' = onTheWay \ {write}
        \/ /\ write.by = "queued"
           /\ onTheWay' = (onTheWay \ {write})
                            \cup {[write EXCEPT !.by = "given up"]}
    BY <1>8 DEF Refused, ConnectionLost
  <2>4. QED
    BY <2>1, <2>2, <2>3, LeavingKeeps
<1>9. CASE UNCHANGED vars
  BY <1>9, QuietKeeps DEF vars
<1>10. QED
  BY <1>2, <1>3, <1>4, <1>5, <1>6, <1>7, <1>8, <1>9 DEF Next, Server

(* The inductive invariant of the queue holds in every state.               *)
THEOREM ViewInvariant == Spec => []ViewInv
<1>1. Init => ViewInv
  <2> SUFFICES ASSUME Init PROVE ViewInv
    OBVIOUS
  <2>1. /\ queue.pending = None /\ queue.inFlight = None /\ queue.answer = "awaited"
        /\ page.moves = 0 /\ onTheWay = {} /\ stored = 0
    BY DEF Init, None
  <2>2. QED
    BY <2>1 DEF ViewInv, QueueInv, OneQueuedWrite, SentBefore, RacesKnown,
                LastAlone, LastAccounted, None
<1>2. QED
  BY <1>1, ViewportTypeCorrect, ViewStep, PTL DEF Spec

(* Writes are serialized, and once everything is written the server holds    *)
(* the user's last viewport or one of the named excuses applies.            *)
THEOREM NewestIsKept == Spec => []NewestWins
<1>1. TypeOK /\ ViewInv => NewestWins
  <2> SUFFICES ASSUME TypeOK, ViewInv PROVE NewestWins
    OBVIOUS
  <2>1. OneQueuedWrite
    BY DEF ViewInv, QueueInv
  <2>2. ASSUME Quiet
        PROVE  \/ stored = page.moves
               \/ page.moves \in history.raced \cup history.reported \cup history.unheard
               \/ ~page.open /\ page.moves \in {queue.pending, queue.inFlight}
    BY <2>2 DEF ViewInv, QueueInv, LastAccounted, Excused, Quiet, Idle
  <2>3. QED
    BY <2>1, <2>2 DEF NewestWins
<1>2. QED
  BY <1>1, ViewportTypeCorrect, ViewInvariant, PTL

NoStaleOverwrite == stored' < stored => stored \in history.raced

(* A stored viewport is overwritten by an earlier one only if it was sent    *)
(* while another write was on its way.                                      *)
THEOREM EarlierLoses == Spec => EarlierNeverWins
<1>1. TypeOK /\ ViewInv /\ [Next]_vars => NoStaleOverwrite
  <2> SUFFICES ASSUME TypeOK, ViewInv, [Next]_vars PROVE NoStaleOverwrite
    OBVIOUS
  <2>1. stored \in Nat
    BY Numbers DEF TypeOK
  <2>2. CASE stored' = stored
    BY <2>1, <2>2 DEF NoStaleOverwrite
  <2>3. ASSUME NEW write \in onTheWay, Applied(write) PROVE NoStaleOverwrite
    BY <2>3 DEF Applied, ViewInv, RacesKnown, NoStaleOverwrite
  <2>4. QED
    BY <2>2, <2>3
    DEF Next, Server, schedule, debounced, dispose, settled, pagehide, Refused,
        ConnectionLost, Failing, vars
<1>2. TypeOK /\ ViewInv /\ [Next]_vars => [NoStaleOverwrite]_vars
  BY <1>1
<1>3. QED
  BY <1>2, ViewportTypeCorrect, ViewInvariant, PTL
  DEF Spec, EarlierNeverWins, NoStaleOverwrite
====
