--------------------------- MODULE EventStreamProofs ---------------------------
(***************************************************************************)
(* Theorems about EventStream, for every set of handlers, executions and   *)
(* clients, and every limit of the journal and of the queues.              *)
(***************************************************************************)
EXTENDS EventStream, FiniteSetTheorems, TLAPS

(* At most one transaction holds the write lock; its event has the next id, *)
(* and a committed event is one of the journal's history.                   *)
WritersInOrder ==
  /\ \A w \in Writers :
       /\ writers[w].phase = "flushed" => writers[w].revision = last + 1
       /\ writers[w].phase = "committed" => writers[w].revision \in 1..last
  /\ \A v, w \in Writers :
       writers[v].phase = "flushed" /\ writers[w].phase = "flushed" => v = w

(* What a stream holds exists, and its client's snapshot is never behind    *)
(* the cursor; until the journal is read both are what the client brought.  *)
Sound(s) ==
  /\ s.cursor <= s.known /\ s.known <= last /\ s.latest <= last
  /\ \A r \in s.backlog \cup Queued(s) : r <= last
  /\ s.phase \in {"subscribed", "bounded", "selecting"} =>
       s.cursor = s.after /\ s.known = s.after

(* The strengthening of Covered that each step keeps: what is queued need   *)
(* not be newer than the cursor, since the client then knows it, but not    *)
(* older than what it announces, since an overflow may drop the rest.       *)
Announced(s, r) ==
  \/ r <= s.known
  \/ r \in Unpublished \cup lost
  \/ \E t \in s.backlog : t > s.cursor
  \/ \E t \in Queued(s) : t >= r

Complete(s) ==
  s.phase \in {"replaying", "live"} =>
    \A r \in 1..last : (\A newer \in s.dropped : newer < r) => Announced(s, r)

Kept(s) ==
  s \in Stream /\ Len(s.queue) <= BufferLimit /\ Sound(s) /\ Complete(s)

JournalInv ==
  /\ last \in Nat /\ lost \subseteq Nat
  /\ writers \in [Writers -> Writer]
  /\ JournalIsSuffix
  /\ WritersInOrder

(* The inductive invariant. *)
StreamInv ==
  /\ JournalInv
  /\ streams \in [Clients -> Stream]
  /\ \A c \in Clients : Kept(streams[c])

-----------------------------------------------------------------------------
(* The operators of the journal and of the queues. *)

(* _trim_history: of the journal and the next event it keeps the newest.    *)
LEMMA TrimKeepsNewest ==
  ASSUME last \in Nat, JournalIsSuffix
  PROVE  Trimmed(journal \cup {last + 1})
           = {r \in 1..(last + 1) : r > last + 1 - HistoryLimit}
<1> DEFINE all == journal \cup {last + 1}
<1>1. HistoryLimit \in Nat /\ HistoryLimit > 0
  BY StreamAssumption
<1>2. all = {r \in 1..(last + 1) : r > last - HistoryLimit}
  BY <1>1 DEF JournalIsSuffix
<1>3. ASSUME NEW r \in all
      PROVE  Cardinality({newer \in all : newer >= r}) <= HistoryLimit
               <=> r > last + 1 - HistoryLimit
  <2>1. r \in 1..(last + 1) /\ r > last - HistoryLimit
    BY <1>2, <1>3
  <2>2. {newer \in all : newer >= r} = r..(last + 1)
    BY <1>1, <1>2, <2>1
  <2>3. Cardinality(r..(last + 1)) = last + 1 - r + 1
    BY <2>1, FS_Interval
  <2>4. Cardinality({newer \in all : newer >= r}) = Cardinality(r..(last + 1))
    BY <2>2, Zenon
  <2>5. QED
    BY <1>1, <2>1, <2>3, <2>4
<1>4. QED
  BY <1>1, <1>2, <1>3 DEF Trimmed

LEMMA TailQueued ==
  ASSUME NEW queue \in Seq(Nat), queue # <<>>
  PROVE  /\ Head(queue) \in Nat /\ Tail(queue) \in Seq(Nat)
         /\ Len(Tail(queue)) <= Len(queue)
         /\ Head(queue) \in {queue[i] : i \in DOMAIN queue}
         /\ {queue[i] : i \in DOMAIN queue} =
              {Head(queue)} \cup {Tail(queue)[i] : i \in DOMAIN Tail(queue)}
<1>1. /\ Len(queue) \in Nat \ {0} /\ DOMAIN queue = 1..Len(queue)
      /\ Head(queue) = queue[1] /\ Head(queue) \in Nat
      /\ Tail(queue) \in Seq(Nat) /\ Len(Tail(queue)) = Len(queue) - 1
      /\ DOMAIN Tail(queue) = 1..(Len(queue) - 1)
      /\ \A i \in 1..(Len(queue) - 1) : Tail(queue)[i] = queue[i + 1]
  OBVIOUS
<1>2. ASSUME NEW i \in 1..Len(queue), i # 1
      PROVE  i - 1 \in 1..(Len(queue) - 1) /\ Tail(queue)[i - 1] = queue[i]
  BY <1>1, <1>2
<1>3. ASSUME NEW i \in 1..(Len(queue) - 1)
      PROVE  i + 1 \in 1..Len(queue) /\ Tail(queue)[i] = queue[i + 1]
  BY <1>1, <1>3
<1>4. {queue[i] : i \in 1..Len(queue)} =
        {queue[1]} \cup {Tail(queue)[i] : i \in 1..(Len(queue) - 1)}
  BY <1>1, <1>2, <1>3
<1>5. queue[1] \in {queue[i] : i \in 1..Len(queue)}
  BY <1>1
<1>6. {queue[i] : i \in DOMAIN queue} = {queue[i] : i \in 1..Len(queue)}
  BY <1>1
<1>7. {Tail(queue)[i] : i \in DOMAIN Tail(queue)}
        = {Tail(queue)[i] : i \in 1..(Len(queue) - 1)}
  BY <1>1
<1>8. Len(Tail(queue)) <= Len(queue)
  BY <1>1
<1>9. QED
  BY <1>1, <1>4, <1>5, <1>6, <1>7, <1>8, Zenon

LEMMA OfferedQueued ==
  ASSUME NEW queue \in Seq(Nat), Len(queue) <= BufferLimit, NEW v \in Nat
  PROVE  /\ Offered(queue, v) \in Seq(Nat)
         /\ Len(Offered(queue, v)) <= BufferLimit
         /\ {Offered(queue, v)[i] : i \in DOMAIN Offered(queue, v)} =
              IF Len(queue) < BufferLimit
              THEN {queue[i] : i \in DOMAIN queue} \cup {v} ELSE {v}
<1>1. BufferLimit \in Nat /\ BufferLimit > 0
  BY StreamAssumption
<1>2. CASE Len(queue) < BufferLimit
  <2>1. /\ Append(queue, v) \in Seq(Nat)
        /\ Len(Append(queue, v)) = Len(queue) + 1
        /\ DOMAIN Append(queue, v) = 1..(Len(queue) + 1)
        /\ DOMAIN queue = 1..Len(queue)
        /\ \A i \in 1..Len(queue) : Append(queue, v)[i] = queue[i]
        /\ Append(queue, v)[Len(queue) + 1] = v
    OBVIOUS
  <2>2. Len(queue) + 1 \in 1..(Len(queue) + 1)
    OBVIOUS
  <2>3. QED
    BY <1>1, <1>2, <2>1, <2>2 DEF Offered
<1>3. CASE ~(Len(queue) < BufferLimit)
  <2>1. <<v>> \in Seq(Nat) /\ Len(<<v>>) = 1 /\ DOMAIN <<v>> = {1} /\ <<v>>[1] = v
    OBVIOUS
  <2>2. QED
    BY <1>1, <1>3, <2>1 DEF Offered
<1>4. QED
  BY <1>2, <1>3

LEMMA EarliestInJournal ==
  ASSUME last \in Nat, JournalIsSuffix
  PROVE  Earliest \in 0..last
<1>1. HistoryLimit \in Nat /\ HistoryLimit > 0
  BY StreamAssumption
<1>2. CASE journal = {}
  BY <1>2 DEF Earliest
<1>3. CASE journal # {}
  <2> DEFINE first == IF last > HistoryLimit THEN last - HistoryLimit + 1 ELSE 1
  <2>1. last > 0
    BY <1>1, <1>3 DEF JournalIsSuffix
  <2>2. first \in journal /\ \A s \in journal : first <= s
    BY <1>1, <2>1 DEF JournalIsSuffix
  <2>3. Earliest \in journal
    BY <1>3, <2>2 DEF Earliest
  <2>4. QED
    BY <1>1, <2>3 DEF JournalIsSuffix
<1>4. QED
  BY <1>2, <1>3

-----------------------------------------------------------------------------
(* Each step keeps the invariant. *)

(* A step of one stream leaves the journal and the other streams alone.     *)
LEMMA OneStream ==
  ASSUME StreamInv, NEW c \in Clients, NEW new, StreamSteps(c),
         streams' = [streams EXCEPT ![c] = new], Kept(new)
  PROVE  StreamInv'
<1>1. JournalInv'
  BY DEF StreamInv, JournalInv, StreamSteps, JournalIsSuffix, WritersInOrder
<1>2. streams' \in [Clients -> Stream]
  BY DEF StreamInv, Kept
<1>3. ASSUME NEW d \in Clients PROVE Kept(streams[d])'
  <2>1. streams'[d] = IF d = c THEN new ELSE streams[d]
    BY DEF StreamInv
  <2>2. Kept(streams'[d])
    BY <2>1 DEF StreamInv
  <2>3. last' = last /\ lost' = lost /\ Unpublished' = Unpublished
    BY DEF StreamSteps, Unpublished
  <2>4. QED
    BY <2>2, <2>3 DEF Kept, Sound, Complete, Announced, Queued
<1>4. QED
  BY <1>1, <1>2, <1>3 DEF StreamInv

(* What is published is announced, or dropped with all it announced.        *)
LEMMA PublishKeeps ==
  ASSUME StreamInv, NEW w \in Writers, Publish(w)
  PROVE  StreamInv'
<1> DEFINE v == writers[w].revision
<1>1. v \in 1..last /\ last \in Nat
  BY DEF StreamInv, JournalInv, WritersInOrder, Publish
<1>2. JournalInv'
  BY DEF StreamInv, JournalInv, Publish, JournalIsSuffix, WritersInOrder, Idle,
         Writer, Revision
<1>3. /\ last' = last /\ lost' = lost
      /\ Unpublished \subseteq Unpublished' \cup {v}
  BY DEF StreamInv, JournalInv, Publish, Unpublished
<1>4. ASSUME NEW c \in Clients PROVE streams'[c] \in Stream /\ Kept(streams[c])'
  <2> DEFINE s == streams[c]
             t == streams'[c]
  <2>1. Kept(s) /\ s \in Stream
    BY DEF StreamInv
  <2>2. CASE s.phase = "closed"
    <3>1. t = s
      BY <2>2 DEF Publish
    <3>2. QED
      BY <1>3, <2>1, <2>2, <3>1 DEF Kept, Sound, Complete, Queued
  <2>3. CASE s.phase # "closed"
    <3>1. t = Published(s, v)
      BY <2>3 DEF Publish
    <3>2. /\ t = [s EXCEPT !.queue = Offered(s.queue, v),
                           !.dropped = s.dropped \cup Dropped(s, v)]
          /\ Offered(s.queue, v) \in Seq(Nat)
          /\ Len(Offered(s.queue, v)) <= BufferLimit
          /\ Dropped(s, v) \subseteq Nat
          /\ Queued(t) = IF Len(s.queue) < BufferLimit THEN Queued(s) \cup {v}
                         ELSE {v}
      <4>1. s.queue \in Seq(Nat) /\ Len(s.queue) <= BufferLimit /\ v \in Nat
        BY <1>1, <2>1 DEF Kept, Stream, Revision
      <4>2. t = [s EXCEPT !.queue = Offered(s.queue, v),
                          !.dropped = s.dropped \cup Dropped(s, v)]
        BY <3>1 DEF Published
      <4>3. t.queue = Offered(s.queue, v)
        BY <2>1, <4>2 DEF Stream
      <4>4. Dropped(s, v) \subseteq Nat
        BY <4>1 DEF Dropped, Queued
      <4> DEFINE q == Offered(s.queue, v)
      <4>5. Queued(t) = {q[i] : i \in DOMAIN q}
        BY <4>3 DEF Queued
      <4>6. /\ q \in Seq(Nat) /\ Len(q) <= BufferLimit
            /\ {q[i] : i \in DOMAIN q} =
                 IF Len(s.queue) < BufferLimit THEN Queued(s) \cup {v} ELSE {v}
        BY <4>1, OfferedQueued DEF Queued
      <4>7. QED
        BY <4>2, <4>4, <4>5, <4>6, Zenon
    <3>3. t \in Stream /\ Len(t.queue) <= BufferLimit
      BY <2>1, <3>2 DEF Stream, Revision
    <3>4. Sound(s) /\ Complete(s)
      BY <2>1 DEF Kept
    <3>5. Sound(t)
      BY <1>1, <2>1, <3>2, <3>4 DEF Sound, Stream, Revision
    <3>6. ASSUME t.phase \in {"replaying", "live"}, NEW r \in 1..last,
                 \A newer \in t.dropped : newer < r
          PROVE  \/ r <= t.known \/ r \in Unpublished' \cup lost
                 \/ \E e \in t.backlog : e > t.cursor
                 \/ \E e \in Queued(t) : e >= r
      <4>1. Announced(s, r)
        BY <2>1, <3>2, <3>4, <3>6 DEF Complete, Stream
      <4>2. ASSUME NEW e \in Queued(s), e >= r, e \notin Queued(t)
            PROVE  \E f \in Queued(t) : f >= r
        <5>1. e \in Nat /\ r \in Nat /\ v \in Nat
          BY <1>1, <2>1, <4>2 DEF Queued, Stream, Revision
        <5>2. ~(Len(s.queue) < BufferLimit) /\ Queued(t) = {v}
          BY <3>2, <4>2
        <5>3. e > v => e \in t.dropped
          BY <3>2, <4>2, <5>2, <2>1 DEF Dropped, Stream
        <5>4. QED
          BY <3>6, <4>2, <5>1, <5>2, <5>3
      <4>3. v \in Queued(t)
        BY <3>2
      <4>4. t.known = s.known /\ t.backlog = s.backlog /\ t.cursor = s.cursor
        BY <2>1, <3>2 DEF Stream
      <4>5. QED
        BY <1>1, <1>3, <4>1, <4>2, <4>3, <4>4 DEF Announced
    <3>7. QED
      BY <1>3, <3>3, <3>5, <3>6 DEF Kept, Sound, Complete, Announced, Queued
  <2>4. QED
    BY <2>2, <2>3
<1>5. streams' \in [Clients -> Stream]
  BY <1>4 DEF Publish
<1>6. QED
  BY <1>2, <1>4, <1>5 DEF StreamInv

(* A writer's own steps: a revision that is committed is first unpublished, *)
(* and lost when nobody will publish it.                                    *)
LEMMA WriterKeeps ==
  ASSUME StreamInv, NEW w \in Writers,
         AppendEvent(w) \/ Commit(w) \/ Rollback(w) \/ LosePublication(w)
  PROVE  StreamInv'
<1>1. last \in Nat /\ writers \in [Writers -> Writer] /\ WritersInOrder
      /\ lost \subseteq Nat /\ JournalIsSuffix
  BY DEF StreamInv, JournalInv
<1>2. JournalInv'
  <2>1. CASE AppendEvent(w)
    BY <1>1, <2>1
    DEF AppendEvent, JournalInv, JournalIsSuffix, WritersInOrder, Writer, Revision
  <2>2. CASE Commit(w)
    <3>1. last' = last + 1 /\ journal' = Trimmed(journal \cup {last + 1})
      BY <1>1, <2>2 DEF Commit, WritersInOrder
    <3>2. JournalIsSuffix'
      <4>1. journal' = {r \in 1..(last + 1) : r > last + 1 - HistoryLimit}
        BY <1>1, <3>1, TrimKeepsNewest
      <4>2. last' = last + 1 /\ last \in Nat /\ HistoryLimit \in Nat
        BY <1>1, <3>1, StreamAssumption
      <4>3. \A r : r \in journal' <=> r \in 1..last' /\ r > last' - HistoryLimit
        BY <4>1, <4>2
      <4>4. QED BY <4>3 DEF JournalIsSuffix
    <3>3. writers' \in [Writers -> Writer] /\ lost' = lost
      BY <1>1, <2>2 DEF Commit, Writer
    <3>4. ASSUME NEW v \in Writers
          PROVE  /\ writers'[v].phase # "flushed"
                 /\ writers'[v].phase = "committed" =>
                      writers'[v].revision \in 1..last'
      <4>1. CASE v = w
        BY <1>1, <2>2, <3>1, <4>1 DEF Commit, WritersInOrder, Writer
      <4>2. CASE v # w
        BY <1>1, <2>2, <3>1, <4>2 DEF Commit, WritersInOrder, Writer
      <4>3. QED BY <4>1, <4>2
    <3>5. QED
      BY <1>1, <3>1, <3>2, <3>3, <3>4 DEF JournalInv, WritersInOrder
  <2>3. CASE Rollback(w)
    BY <1>1, <2>3
    DEF Rollback, JournalInv, JournalIsSuffix, WritersInOrder, Writer, Revision, Idle
  <2>4. CASE LosePublication(w)
    BY <1>1, <2>4
    DEF LosePublication, JournalInv, JournalIsSuffix, WritersInOrder, Writer,
        Revision, Idle
  <2>5. QED
    BY <2>1, <2>2, <2>3, <2>4
<1>3. \/ last' = last
      \/ last' = last + 1 /\ last + 1 \in Unpublished'
  BY <1>1 DEF AppendEvent, Commit, Rollback, LosePublication, WritersInOrder,
              Unpublished, Writer
<1>4. Unpublished \cup lost \subseteq Unpublished' \cup lost'
  <2>1. ASSUME NEW v \in Writers, writers[v].phase = "committed"
        PROVE  writers[v].revision \in Unpublished' \cup lost'
    <3>1. CASE v = w
      BY <1>1, <2>1, <3>1
      DEF AppendEvent, Commit, Rollback, LosePublication, Unpublished
    <3>2. CASE v # w
      <4>1. writers'[v] = writers[v]
        BY <1>1, <3>2 DEF AppendEvent, Commit, Rollback, LosePublication
      <4>2. QED BY <2>1, <4>1 DEF Unpublished
    <3>3. QED BY <3>1, <3>2
  <2>2. lost \subseteq lost'
    BY DEF AppendEvent, Commit, Rollback, LosePublication
  <2>3. QED
    BY <2>1, <2>2 DEF Unpublished
<1>5. streams' = streams
  BY DEF AppendEvent, Commit, Rollback, LosePublication
<1>6. ASSUME NEW c \in Clients PROVE Kept(streams[c])'
  <2> DEFINE s == streams[c]
  <2>1. Kept(s) /\ s \in Stream
    BY DEF StreamInv
  <2>2. Sound(s)'
    <3>1. /\ last' >= last /\ last' \in Nat /\ s' = s /\ Queued(s)' = Queued(s)
          /\ s.cursor \in Nat /\ s.known \in Nat /\ s.latest \in Nat
          /\ s.backlog \cup Queued(s) \subseteq Nat
      BY <1>1, <1>3, <1>5, <2>1 DEF Stream, Revision, Queued
    <3>2. QED
      BY <1>1, <2>1, <3>1 DEF Kept, Sound
  <2>3. ASSUME s.phase \in {"replaying", "live"}, NEW r \in 1..last',
               \A newer \in s.dropped : newer < r
        PROVE  Announced(s, r)'
    BY <1>1, <1>3, <1>4, <1>5, <2>1, <2>3 DEF Kept, Complete, Announced, Queued
  <2>4. QED
    BY <1>5, <2>1, <2>2, <2>3 DEF Kept, Complete
<1>7. QED
  BY <1>2, <1>5, <1>6 DEF StreamInv

(* The replay and the forwarding: what is told to the client is what it     *)
(* then fetches with everything committed so far.                           *)
LEMMA AdvanceKeeps ==
  ASSUME StreamInv, NEW c \in Clients, Advance(c)
  PROVE  StreamInv'
<1> DEFINE s == streams[c]
<1>1. /\ s \in Stream /\ Len(s.queue) <= BufferLimit /\ Sound(s) /\ Complete(s)
      /\ last \in Nat /\ JournalIsSuffix /\ StreamSteps(c)
      /\ HistoryLimit \in Nat /\ HistoryLimit > 0
  BY StreamAssumption
  DEF StreamInv, JournalInv, Kept, Advance, ReadEarliest, ReadLatest, ReadRows,
      SendResync, SendReplayed, ReplayDone, Forward
<1>2. CASE ReadEarliest(c)
  <2> DEFINE new == [s EXCEPT !.phase = "bounded", !.earliest = Earliest]
  <2>1. streams' = [streams EXCEPT ![c] = new]
    BY <1>2 DEF ReadEarliest
  <2>2. Earliest \in Nat
    BY <1>1, EarliestInJournal
  <2>3. Kept(new)
    BY <1>1, <1>2, <2>2
    DEF ReadEarliest, Kept, Sound, Complete, Stream, Revision, Queued
  <2>4. QED BY <1>1, <2>1, <2>3, OneStream
<1>3. CASE ReadLatest(c)
  <2> DEFINE new == [s EXCEPT !.phase = IF Expired(s) THEN "resync" ELSE "selecting",
                              !.latest = last]
  <2>1. streams' = [streams EXCEPT ![c] = new]
    BY <1>3 DEF ReadLatest
  <2>2. s.phase = "bounded" /\ s.known \in Nat /\ s.cursor \in Nat
    BY <1>1, <1>3 DEF ReadLatest, Stream, Revision
  <2>3. /\ new \in Stream /\ new.phase \in {"resync", "selecting"}
        /\ new.backlog = s.backlog /\ new.queue = s.queue /\ new.latest = last
        /\ new.known = s.known /\ new.cursor = s.cursor /\ new.after = s.after
    BY <1>1 DEF Stream, Revision
  <2> HIDE DEF new
  <2>4. Queued(new) = Queued(s)
    BY <2>3 DEF Queued
  <2>5. Sound(new)
    BY <1>1, <2>2, <2>3, <2>4 DEF Sound
  <2>6. Kept(new)
    BY <1>1, <2>3, <2>5 DEF Kept, Complete
  <2>7. QED BY <1>1, <2>1, <2>6, OneStream
<1>4. CASE ReadRows(c)
  <2> DEFINE rows == {r \in journal : r > s.after}
             new == [s EXCEPT !.phase = "replaying", !.backlog = rows]
  <2>1. streams' = [streams EXCEPT ![c] = new] /\ s.phase = "selecting"
    BY <1>4 DEF ReadRows
  <2>2. /\ \A r \in rows : r \in 1..last
        /\ s.known = s.after /\ s.cursor = s.after /\ s.after \in Nat
        /\ s.latest <= last /\ s.known <= last
    BY <1>1, <2>1 DEF Stream, Revision, Sound, JournalIsSuffix
  <2>3. /\ new \in Stream /\ new.phase = "replaying" /\ new.backlog = rows
        /\ new.queue = s.queue /\ new.latest = s.latest
        /\ new.known = s.known /\ new.cursor = s.cursor
    <3>1. rows \subseteq Nat
      BY <2>2
    <3> HIDE DEF rows
    <3>2. QED BY <1>1, <3>1 DEF Stream, Revision
  <2> HIDE DEF new
  <2>4. Queued(new) = Queued(s)
    BY <2>3 DEF Queued
  <2>5. Sound(new)
    BY <1>1, <2>2, <2>3, <2>4 DEF Sound
  <2>6. ASSUME NEW r \in 1..last PROVE Announced(new, r)
    <3>1. CASE r <= s.after
      BY <2>2, <2>3, <3>1 DEF Announced
    <3>2. CASE r > s.after
      <4>1. last \in rows /\ last > new.cursor
        BY <1>1, <2>2, <2>3, <3>2 DEF JournalIsSuffix
      <4>2. QED
        BY <2>3, <4>1 DEF Announced
    <3>3. QED BY <2>2, <3>1, <3>2
  <2>7. Kept(new)
    BY <1>1, <2>3, <2>5, <2>6 DEF Kept, Complete
  <2>8. QED
    BY <1>1, <2>1, <2>7, OneStream
<1>5. CASE SendResync(c)
  <2> DEFINE new == [s EXCEPT !.phase = "live", !.known = last,
                              !.cursor = IF s.cursor < s.latest THEN s.latest
                                         ELSE s.cursor]
  <2>1. streams' = [streams EXCEPT ![c] = new]
    BY <1>1, <1>5 DEF SendResync
  <2>2. s.latest \in Nat /\ s.cursor \in Nat /\ s.cursor <= last
    BY <1>1 DEF Stream, Revision, Sound
  <2>3. /\ new \in Stream /\ new.phase = "live" /\ new.backlog = s.backlog
        /\ new.queue = s.queue /\ new.latest = s.latest /\ new.known = last
        /\ new.cursor \in {s.latest, s.cursor}
    BY <1>1, <2>2 DEF Stream, Revision
  <2> HIDE DEF new
  <2>4. Queued(new) = Queued(s)
    BY <2>3 DEF Queued
  <2>5. Sound(new)
    BY <1>1, <2>2, <2>3, <2>4 DEF Sound
  <2>6. Complete(new)
    BY <1>1, <2>3 DEF Complete, Announced
  <2>7. Kept(new)
    BY <1>1, <2>3, <2>5, <2>6 DEF Kept
  <2>8. QED BY <1>1, <2>1, <2>7, OneStream
<1>6. CASE SendReplayed(c)
  <2>1. PICK r \in s.backlog :
          streams' = [streams EXCEPT
                        ![c] = [Told(s, r) EXCEPT !.backlog = s.backlog \ {r}]]
    BY <1>6 DEF SendReplayed
  <2>2. /\ r \in Nat /\ r <= last /\ s.phase = "replaying"
        /\ s.cursor \in Nat /\ s.known \in Nat /\ s.backlog \subseteq Nat
    BY <1>1, <1>6, <2>1 DEF Stream, Revision, Sound, SendReplayed
  <2> DEFINE cursor == IF r <= s.cursor THEN s.cursor ELSE r
             known == IF r <= s.cursor THEN s.known ELSE last
             new == [s EXCEPT !.cursor = cursor, !.known = known,
                              !.backlog = s.backlog \ {r}]
  <2>3. streams' = [streams EXCEPT ![c] = new]
    <3>1. [Told(s, r) EXCEPT !.backlog = s.backlog \ {r}] = new
      BY <1>1 DEF Told, Stream
    <3> HIDE DEF new
    <3>2. QED
      BY <2>1, <3>1, Zenon
  <2>4. cursor \in Nat /\ known \in Nat
    BY <1>1, <2>2
  <2>5. /\ new \in Stream /\ new.phase = s.phase /\ new.backlog = s.backlog \ {r}
        /\ new.queue = s.queue /\ new.latest = s.latest /\ new.known = known
        /\ new.cursor = cursor /\ new.dropped = s.dropped
    BY <1>1, <2>2, <2>4 DEF Stream, Revision
  <2> HIDE DEF new
  <2>6. Queued(new) = Queued(s)
    BY <2>5 DEF Queued
  <2>7. Sound(new)
    BY <1>1, <2>2, <2>5, <2>6 DEF Sound
  <2>8. ASSUME NEW t \in 1..last, \A newer \in s.dropped : newer < t
        PROVE  Announced(new, t)
    <3>1. CASE r <= s.cursor
      BY <1>1, <2>2, <2>5, <2>6, <2>8, <3>1 DEF Complete, Announced
    <3>2. CASE ~(r <= s.cursor)
      BY <2>5, <3>2 DEF Announced
    <3>3. QED BY <3>1, <3>2
  <2>9. Kept(new)
    BY <1>1, <2>5, <2>7, <2>8 DEF Kept, Complete
  <2>10. QED BY <1>1, <2>3, <2>9, OneStream
<1>7. CASE ReplayDone(c)
  <2> DEFINE new == [s EXCEPT !.phase = "live"]
  <2>1. streams' = [streams EXCEPT ![c] = new] /\ s.phase = "replaying"
    BY <1>7 DEF ReplayDone
  <2>2. /\ new \in Stream /\ new.phase = "live" /\ new.backlog = s.backlog
        /\ new.queue = s.queue /\ new.latest = s.latest /\ new.known = s.known
        /\ new.cursor = s.cursor /\ new.dropped = s.dropped
    BY <1>1 DEF Stream
  <2> HIDE DEF new
  <2>3. Queued(new) = Queued(s)
    BY <2>2 DEF Queued
  <2>4. Sound(new) /\ Complete(new)
    BY <1>1, <2>1, <2>2, <2>3 DEF Sound, Complete, Announced
  <2>5. Kept(new)
    BY <1>1, <2>2, <2>4 DEF Kept
  <2>6. QED BY <1>1, <2>1, <2>5, OneStream
<1>8. CASE Forward(c)
  <2> DEFINE r == Head(s.queue)
             rest == Tail(s.queue)
             cursor == IF r <= s.cursor THEN s.cursor ELSE r
             known == IF r <= s.cursor THEN s.known ELSE last
             new == [s EXCEPT !.cursor = cursor, !.known = known, !.queue = rest]
  <2>1. streams' = [streams EXCEPT ![c] = new]
    <3>1. [Told(s, r) EXCEPT !.queue = rest] = new
      BY <1>1 DEF Told, Stream
    <3>2. streams' = [streams EXCEPT ![c] = [Told(s, r) EXCEPT !.queue = rest]]
      BY <1>8 DEF Forward
    <3> HIDE DEF new
    <3>3. QED
      BY <3>1, <3>2, Zenon
  <2>2. /\ s.phase = "live" /\ s.queue \in Seq(Nat) /\ s.queue # <<>>
        /\ s.cursor \in Nat /\ s.known \in Nat
    BY <1>1, <1>8 DEF Forward, Stream, Revision
  <2>3. /\ r \in Nat /\ rest \in Seq(Nat) /\ Len(rest) <= Len(s.queue)
        /\ r \in Queued(s)
        /\ Queued(s) = {r} \cup {rest[i] : i \in DOMAIN rest}
    <3>1. /\ Head(s.queue) \in Nat /\ Tail(s.queue) \in Seq(Nat)
          /\ Len(Tail(s.queue)) <= Len(s.queue)
          /\ Head(s.queue) \in Queued(s)
          /\ Queued(s) = {Head(s.queue)}
                           \cup {Tail(s.queue)[i] : i \in DOMAIN Tail(s.queue)}
      BY <2>2, TailQueued, Zenon DEF Queued
    <3>2. QED BY <3>1, Zenon
  <2>4. r <= last /\ Len(rest) <= BufferLimit
    BY <1>1, <2>2, <2>3, StreamAssumption DEF Sound
  <2>5. cursor \in Nat /\ known \in Nat
    BY <1>1, <2>2, <2>3
  <2>6. /\ new \in Stream /\ new.phase = s.phase /\ new.backlog = s.backlog
        /\ new.queue = rest /\ new.latest = s.latest /\ new.known = known
        /\ new.cursor = cursor /\ new.dropped = s.dropped
    BY <1>1, <2>3, <2>5 DEF Stream, Revision
  <2> HIDE DEF new
  <2>7. Queued(new) = {rest[i] : i \in DOMAIN rest}
    BY <2>6 DEF Queued
  <2>8. Queued(s) = {r} \cup Queued(new)
    BY <2>3, <2>7, Zenon
  <2> HIDE DEF r, rest
  <2>9. Sound(new)
    BY <1>1, <2>2, <2>4, <2>6, <2>8 DEF Sound
  <2>10. ASSUME NEW t \in 1..last, \A newer \in s.dropped : newer < t
         PROVE  Announced(new, t)
    <3>1. CASE r <= s.cursor
      <4>1. new.known = s.known /\ new.cursor = s.cursor /\ s.cursor <= s.known
        BY <1>1, <2>6, <3>1 DEF Sound
      <4>2. Announced(s, t)
        BY <1>1, <2>2, <2>10 DEF Complete
      <4>3. r >= t => t <= new.known
        BY <2>2, <2>3, <3>1, <4>1
      <4>4. QED
        BY <2>6, <2>8, <4>1, <4>2, <4>3 DEF Announced
    <3>2. CASE ~(r <= s.cursor)
      BY <2>6, <3>2 DEF Announced
    <3>3. QED BY <3>1, <3>2
  <2>11. Kept(new)
    BY <2>4, <2>6, <2>9, <2>10 DEF Kept, Complete
  <2>12. QED BY <1>1, <2>1, <2>11, OneStream
<1>9. QED
  BY <1>2, <1>3, <1>4, <1>5, <1>6, <1>7, <1>8 DEF Advance

LEMMA ClosedKept ==
  ASSUME last \in Nat
  PROVE  Closed \in Stream /\ Kept(Closed)
<1>1. <<>> \in Seq(Nat) /\ Len(<<>>) = 0 /\ DOMAIN <<>> = {}
  OBVIOUS
<1>2. QED
  BY <1>1, StreamAssumption
  DEF Closed, Kept, Sound, Complete, Stream, Revision, Queued

LEMMA InvInit == Init => StreamInv
<1> SUFFICES ASSUME Init PROVE StreamInv
  OBVIOUS
<1>1. JournalInv
  BY StreamAssumption
  DEF Init, JournalInv, JournalIsSuffix, WritersInOrder, Idle, Writer, Revision
<1>2. QED
  BY <1>1, ClosedKept DEF Init, StreamInv, JournalInv

LEMMA InvStep == StreamInv /\ [Next]_vars => StreamInv'
<1> SUFFICES ASSUME StreamInv, [Next]_vars PROVE StreamInv'
  OBVIOUS
<1>1. ASSUME NEW w \in Writers,
             AppendEvent(w) \/ Commit(w) \/ Rollback(w) \/ LosePublication(w)
      PROVE  StreamInv'
  BY <1>1, WriterKeeps
<1>2. ASSUME NEW w \in Writers, Publish(w) PROVE StreamInv'
  BY <1>2, PublishKeeps
<1>3. ASSUME NEW c \in Clients, NEW after \in 0..last, Subscribe(c, after)
      PROVE  StreamInv'
  <2> DEFINE new == [Closed EXCEPT !.phase = "subscribed", !.after = after,
                                   !.cursor = after, !.known = after]
  <2>1. last \in Nat /\ Closed \in Stream /\ Kept(Closed)
    BY ClosedKept DEF StreamInv, JournalInv
  <2>0. after \in Nat /\ <<>> \in Seq(Nat)
    BY <2>1
  <2>2. /\ new \in Stream /\ new.phase = "subscribed" /\ new.backlog = {}
        /\ new.queue = <<>> /\ new.latest = 0 /\ new.known = after
        /\ new.cursor = after /\ new.after = after
    BY <2>0 DEF Stream, Revision, Closed
  <2> HIDE DEF new
  <2>3. Queued(new) = {} /\ Len(new.queue) <= BufferLimit
    BY <2>2, StreamAssumption DEF Queued
  <2>4. Kept(new)
    BY <2>1, <2>2, <2>3 DEF Kept, Sound, Complete
  <2>5. streams' = [streams EXCEPT ![c] = new] /\ StreamSteps(c)
    BY <1>3 DEF Subscribe, new
  <2>6. QED
    BY <2>4, <2>5, OneStream
<1>4. ASSUME NEW c \in Clients, Disconnect(c) PROVE StreamInv'
  BY <1>4, ClosedKept, OneStream DEF Disconnect, StreamInv, JournalInv
<1>5. ASSUME NEW c \in Clients, Advance(c) PROVE StreamInv'
  BY <1>5, AdvanceKeeps
<1>6. CASE Crash
  <2>1. last \in Nat /\ last' = last
    BY <1>6 DEF Crash, StreamInv, JournalInv
  <2>2. lost' \subseteq Nat
    BY <1>6 DEF Crash, StreamInv, JournalInv, Unpublished, Writer, Revision
  <2>3. JournalInv'
    BY <1>6, <2>1, <2>2 DEF Crash, StreamInv, JournalInv, JournalIsSuffix,
                       WritersInOrder, Idle, Writer, Revision
  <2>4. ASSUME NEW c \in Clients PROVE streams'[c] = Closed
    BY <1>6 DEF Crash
  <2>5. Closed \in Stream /\ Kept(Closed)
    BY <2>1, ClosedKept
  <2>6. ASSUME NEW c \in Clients PROVE Kept(streams[c])'
    BY <2>1, <2>4, <2>5 DEF Kept, Sound, Complete, Queued, Closed
  <2>7. QED
    BY <1>6, <2>3, <2>5, <2>6 DEF Crash, StreamInv
<1>7. CASE UNCHANGED vars
  BY <1>7 DEF vars, StreamInv, JournalInv, JournalIsSuffix, WritersInOrder, Kept,
              Sound, Complete, Announced, Unpublished, Queued
<1>8. QED
  BY <1>1, <1>2, <1>3, <1>4, <1>5, <1>6, <1>7 DEF Next

(* Every reachable state has the inductive invariant: whatever the order of  *)
(* commits, trims, publications and the statements of a replay.             *)
THEOREM StreamInvariant == Spec => []StreamInv
<1>1. QED
  BY InvInit, InvStep, PTL DEF Spec

-----------------------------------------------------------------------------
(* What the runs check, for every value of the constants. *)

(* The journal, the writers and the generators keep their types, and no     *)
(* queue outgrows SUBSCRIBER_BUFFER_LIMIT.                                  *)
THEOREM TypeCorrect == Spec => []TypeOK
<1>1. StreamInv => TypeOK
  BY DEF StreamInv, JournalInv, JournalIsSuffix, Kept, TypeOK, Revision
<1>2. QED
  BY <1>1, StreamInvariant, PTL

(* Nothing rolled back is announced, and the journal has no gap, whatever    *)
(* the writers and the trims.                                               *)
THEOREM JournalStaysTrue == Spec => []JournalIsTrue
<1>1. StreamInv => JournalIsTrue
  <2> SUFFICES ASSUME StreamInv PROVE JournalIsTrue
    OBVIOUS
  <2>1. ASSUME NEW c \in Clients,
               NEW r \in Ahead(streams[c]) \cup {streams[c].cursor}
        PROVE  r <= last
    <3>1. Sound(streams[c]) /\ streams[c] \in Stream /\ last \in Nat
      BY DEF StreamInv, JournalInv, Kept
    <3>2. /\ streams[c].cursor \in Nat /\ streams[c].known \in Nat
          /\ streams[c].cursor <= last
      BY <3>1 DEF Sound, Stream, Revision
    <3>3. QED
      BY <2>1, <3>1, <3>2 DEF Sound, Ahead
  <2>2. QED
    BY <2>1 DEF JournalIsTrue, NoPhantom, StreamInv, JournalInv
<1>2. QED
  BY <1>1, StreamInvariant, PTL

(* A client that reconnects or reads slowly misses no committed revision,    *)
(* up to what its queue has dropped.                                        *)
THEOREM NothingIsMissed == Spec => []NothingMissed
<1>1. StreamInv => NothingMissed
  <2> SUFFICES ASSUME StreamInv, NEW c \in ReadJournal, NEW r \in 1..last,
                      \A newer \in streams[c].dropped : newer < r
               PROVE  Covered(streams[c], r)
    BY DEF NothingMissed
  <2> DEFINE s == streams[c]
  <2>1. /\ s \in Stream /\ Sound(s) /\ Complete(s) /\ last \in Nat
        /\ s.phase \in {"resync", "replaying", "live"}
    BY DEF ReadJournal, StreamInv, JournalInv, Kept
  <2>2. /\ s.cursor \in Nat /\ s.known \in Nat /\ s.cursor <= s.known
        /\ Queued(s) \subseteq Nat
    BY <2>1 DEF Sound, Stream, Revision, Queued
  <2>3. CASE s.phase = "resync"
    BY <2>3 DEF Covered
  <2>4. CASE s.phase # "resync"
    <3>1. Announced(s, r)
      BY <2>1, <2>4 DEF Complete
    <3>2. ASSUME NEW t \in Queued(s), t >= r, t <= s.cursor
          PROVE  r <= s.known
      BY <2>2, <3>2
    <3>3. QED
      BY <2>2, <3>1, <3>2 DEF Announced, Covered, Ahead
  <2>5. QED BY <2>3, <2>4
<1>2. QED
  BY <1>1, StreamInvariant, PTL

-----------------------------------------------------------------------------
(* The steps of the stream are steps of the promise. *)

(* The cursor of a connection only rises.                                   *)
LEMMA CursorRises ==
  ASSUME StreamInv, NEW c \in Clients, Advance(c)
  PROVE  streams'[c].cursor >= streams[c].cursor
<1>1. /\ streams[c] \in Stream /\ streams[c].cursor \in Nat
      /\ streams[c].latest \in Nat /\ streams \in [Clients -> Stream]
  BY DEF StreamInv, Stream, Revision
<1>2. ASSUME NEW r \in Nat
      PROVE  Told(streams[c], r).cursor >= streams[c].cursor
  BY <1>1, <1>2 DEF Told, Stream
<1>3. CASE SendReplayed(c)
  <2>1. PICK r \in streams[c].backlog :
          streams' = [streams EXCEPT
                        ![c] = [Told(@, r) EXCEPT
                                  !.backlog = streams[c].backlog \ {r}]]
    BY <1>3 DEF SendReplayed
  <2>2. r \in Nat
    BY <1>1 DEF Stream, Revision
  <2>3. streams'[c].cursor = Told(streams[c], r).cursor
    BY <1>1, <2>1 DEF Told, Stream
  <2>4. QED BY <1>2, <2>2, <2>3
<1>4. CASE Forward(c)
  <2>1. Head(streams[c].queue) \in Nat
    BY <1>1, <1>4, TailQueued DEF Forward, Stream, Revision
  <2>2. streams'[c].cursor = Told(streams[c], Head(streams[c].queue)).cursor
    BY <1>1, <1>4 DEF Forward, Told, Stream
  <2>3. QED BY <1>2, <2>1, <2>2
<1>5. CASE SendResync(c)
  BY <1>1, <1>5 DEF SendResync, Stream
<1>6. CASE ReadEarliest(c) \/ ReadLatest(c) \/ ReadRows(c) \/ ReplayDone(c)
  <2>1. streams'[c].cursor = streams[c].cursor
    BY <1>1, <1>6 DEF ReadEarliest, ReadLatest, ReadRows, ReplayDone, Stream
  <2>2. QED BY <1>1, <2>1
<1>7. QED
  BY <1>3, <1>4, <1>5, <1>6 DEF Advance

(* A step that only takes clients away, without telling the rest anything.   *)
LEMMA ClientsLeave ==
  ASSUME last' = last, Informed' \subseteq Informed,
         \A c \in Informed' : streams'[c].cursor = streams[c].cursor
  PROVE  [Promise!Next]_(Promise!vars)
<1> DEFINE gone == Informed \ Informed'
           told == [c \in Clients |-> IF c \in Informed THEN streams[c].cursor ELSE 0]
<1>1. Informed' = Informed \ gone
  OBVIOUS
<1>2. told' = [c \in Clients |-> IF c \in gone THEN 0 ELSE told[c]]
  OBVIOUS
<1>3. CASE gone = {}
  <2>1. Informed' = Informed /\ told' = told
    BY <1>1, <1>2, <1>3
  <2>2. QED
    BY <2>1 DEF Promise!vars
<1>4. CASE gone # {}
  <2>1. PICK left \in SUBSET Informed : left = gone
    OBVIOUS
  <2>2. Promise!Leave(left)
    BY <1>1, <1>2, <1>4, <2>1 DEF Promise!Leave
  <2>3. QED
    BY <2>2 DEF Promise!Next
<1>5. QED
  BY <1>3, <1>4

(* A step of one connection: its client is told of something newer, leaves,  *)
(* comes under the promise, or nothing happens that the promise is about.    *)
LEMMA OneClient ==
  ASSUME StreamInv, StreamInv', NEW c \in Clients, StreamSteps(c),
         \A d \in Clients \ {c} : streams'[d] = streams[d],
         c \in Informed /\ c \in Informed'
           => streams'[c].cursor >= streams[c].cursor
  PROVE  [Promise!Next]_(Promise!vars)
<1> DEFINE told == [d \in Clients |-> IF d \in Informed THEN streams[d].cursor ELSE 0]
<1>1. last' = last /\ lost' = lost /\ last \in Nat
  BY DEF StreamSteps, StreamInv, JournalInv
<1>2. \A d \in Clients \ {c} : d \in Informed' <=> d \in Informed
  BY <1>1 DEF Informed
<1>3. Informed \subseteq Clients /\ Informed' \subseteq Clients
  BY DEF Informed
<1>4. streams[c].cursor \in 0..last /\ streams'[c].cursor \in 0..last
  <2>1. ASSUME NEW s \in Stream, Sound(s) PROVE s.cursor \in 0..last
    BY <1>1, <2>1 DEF Sound, Stream, Revision
  <2>2. streams[c] \in Stream /\ Sound(streams[c])
    BY DEF StreamInv, Kept
  <2>3. streams'[c] \in Stream /\ Sound(streams[c])'
    BY DEF StreamInv, Kept
  <2>4. Sound(streams'[c])
    BY <1>1, <2>3 DEF Sound, Queued
  <2>5. QED BY <2>1, <2>2, <2>3, <2>4
<1>5. \A d \in Clients \ {c} : told'[d] = told[d]
  BY <1>2
<1>6. CASE c \notin Informed'
  BY <1>1, <1>2, <1>3, <1>6, ClientsLeave
<1>7. CASE c \in Informed' /\ c \notin Informed
  <2>1. Informed' = Informed \cup {c}
    BY <1>2, <1>3, <1>7
  <2>2. told' = [told EXCEPT ![c] = streams'[c].cursor]
    BY <1>5, <1>7
  <2>3. Promise!Listen(c)
    BY <1>1, <1>4, <1>7, <2>1, <2>2 DEF Promise!Listen
  <2>4. QED
    BY <2>3 DEF Promise!Next
<1>8. CASE c \in Informed' /\ c \in Informed
  <2>1. Informed' = Informed
    BY <1>2, <1>3, <1>8
  <2>2. told' = [told EXCEPT ![c] = streams'[c].cursor] /\ told[c] = streams[c].cursor
    BY <1>5, <1>8
  <2>3. CASE streams'[c].cursor = streams[c].cursor
    <3>1. \A d \in Informed' : streams'[d].cursor = streams[d].cursor
      BY <1>3, <2>3
    <3>2. QED
      BY <1>1, <2>1, <3>1, ClientsLeave
  <2>4. CASE streams'[c].cursor # streams[c].cursor
    <3>1. streams'[c].cursor \in told[c] + 1 .. last
      BY <1>4, <1>8, <2>2, <2>4
    <3>2. Promise!Tell(c)
      BY <1>1, <1>8, <2>1, <2>2, <3>1 DEF Promise!Tell
    <3>3. QED
      BY <3>2 DEF Promise!Next
  <2>5. QED BY <2>3, <2>4
<1>9. QED
  BY <1>6, <1>7, <1>8

LEMMA PromiseStep ==
  ASSUME StreamInv, StreamInv', [Next]_vars
  PROVE  [Promise!Next]_(Promise!vars)
<1>1. streams \in [Clients -> Stream] /\ last \in Nat
  BY DEF StreamInv, JournalInv
<1>2. ASSUME NEW w \in Writers, AppendEvent(w) \/ Rollback(w)
      PROVE  [Promise!Next]_(Promise!vars)
  <2>1. UNCHANGED <<last, streams, lost>>
    BY <1>2 DEF AppendEvent, Rollback
  <2>2. QED BY <2>1, ClientsLeave DEF Informed
<1>3. ASSUME NEW w \in Writers, Commit(w) PROVE [Promise!Next]_(Promise!vars)
  <2>1. last' = last + 1 /\ streams' = streams /\ lost' = lost
    BY <1>3 DEF Commit, StreamInv, JournalInv, WritersInOrder
  <2>2. Promise!Change
    BY <2>1 DEF Promise!Change, Informed
  <2>3. QED BY <2>2 DEF Promise!Next
<1>4. ASSUME NEW w \in Writers, Publish(w) PROVE [Promise!Next]_(Promise!vars)
  <2>1. last' = last /\ lost' = lost
    BY <1>4 DEF Publish
  <2>2. ASSUME NEW c \in Clients
        PROVE  /\ streams'[c].phase = streams[c].phase
               /\ streams'[c].cursor = streams[c].cursor
               /\ streams[c].dropped \subseteq streams'[c].dropped
    <3>1. streams[c] \in Stream
      BY <1>1
    <3>2. \/ streams'[c] = streams[c]
          \/ streams'[c] = Published(streams[c], writers[w].revision)
      BY <1>4 DEF Publish
    <3>3. QED BY <3>1, <3>2 DEF Published, Stream
  <2>3. Informed' \subseteq Informed
    BY <2>1, <2>2 DEF Informed
  <2>4. \A c \in Informed' : streams'[c].cursor = streams[c].cursor
    BY <2>2 DEF Informed
  <2>5. QED BY <2>1, <2>3, <2>4, ClientsLeave
<1>5. ASSUME NEW w \in Writers, LosePublication(w)
      PROVE  [Promise!Next]_(Promise!vars)
  <2>1. last' = last /\ streams' = streams /\ lost \subseteq lost'
    BY <1>5 DEF LosePublication
  <2>2. QED BY <2>1, ClientsLeave DEF Informed
<1>6. CASE Crash
  <2>1. last' = last /\ Informed' = {}
    BY <1>6 DEF Crash, Informed, Closed
  <2>2. QED BY <2>1, ClientsLeave
<1>7. ASSUME NEW c \in Clients,
             \/ \E after \in 0..last : Subscribe(c, after)
             \/ Disconnect(c)
      PROVE  [Promise!Next]_(Promise!vars)
  <2>1. /\ StreamSteps(c)
        /\ \A d \in Clients \ {c} : streams'[d] = streams[d]
        /\ streams[c].phase = "closed" \/ streams'[c].phase = "closed"
    <3>1. \E new : streams' = [streams EXCEPT ![c] = new]
      BY <1>7 DEF Subscribe, Disconnect
    <3>2. \A d \in Clients \ {c} : streams'[d] = streams[d]
      BY <1>1, <3>1
    <3>3. streams[c].phase = "closed" \/ streams'[c].phase = "closed"
      <4>1. CASE Disconnect(c)
        BY <1>1, <4>1 DEF Disconnect, Closed
      <4>2. CASE \E after \in 0..last : Subscribe(c, after)
        BY <4>2 DEF Subscribe
      <4>3. QED BY <1>7, <4>1, <4>2
    <3>4. StreamSteps(c)
      BY <1>7 DEF Subscribe, Disconnect
    <3>5. QED BY <3>2, <3>3, <3>4
  <2>2. ~(c \in Informed /\ c \in Informed')
    BY <2>1 DEF Informed
  <2>3. QED BY <2>1, <2>2, OneClient
<1>8. ASSUME NEW c \in Clients, Advance(c) PROVE [Promise!Next]_(Promise!vars)
  <2>1. /\ StreamSteps(c)
        /\ \A d \in Clients \ {c} : streams'[d] = streams[d]
    BY <1>1, <1>8 DEF Advance, ReadEarliest, ReadLatest, ReadRows, SendResync,
                      SendReplayed, ReplayDone, Forward
  <2>2. QED BY <1>8, <2>1, CursorRises, OneClient
<1>9. CASE UNCHANGED vars
  <2>1. UNCHANGED <<last, streams, lost>>
    BY <1>9 DEF vars
  <2>2. QED BY <2>1, ClientsLeave DEF Informed
<1>10. QED
  BY <1>2, <1>3, <1>4, <1>5, <1>6, <1>7, <1>8, <1>9 DEF Next

(* The safety part of KeepsPromise: the broker, the journal and the replay   *)
(* together tell each client only of committed revisions, and of ever newer  *)
(* ones while it stays under the promise.                                   *)
THEOREM TellsInOrder == Spec => Promise!Init /\ [][Promise!Next]_(Promise!vars)
<1>1. Init => Promise!Init
  BY DEF Init, Promise!Init, Informed, Closed
<1>2. StreamInv /\ StreamInv' /\ [Next]_vars => [Promise!Next]_(Promise!vars)
  BY PromiseStep
<1>3. QED
  BY <1>1, <1>2, StreamInvariant, PTL DEF Spec
====
