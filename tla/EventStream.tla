------------------------------ MODULE EventStream ------------------------------
(***************************************************************************)
(* The event journal, the in-memory broker and the SSE stream of one map   *)
(* (backend/app/events.py and the stream of backend/app/api/routes.py).    *)
(*                                                                         *)
(* A writer is a request handler or the result save of an execution.  It   *)
(* appends an event in its own transaction, commits, and only then         *)
(* publishes the event on the event loop; writers are in different threads,*)
(* so they publish in any order.  A stream subscribes to the broker, reads *)
(* the journal in a thread, with one SELECT per step since pysqlite opens  *)
(* no transaction for them, and then forwards its queue.                   *)
(*                                                                         *)
(* Revisions are the ids of map_events.  The kind of an event matters only *)
(* to the client, so an event is its revision.                             *)
(***************************************************************************)
EXTENDS Integers, Sequences, FiniteSets

CONSTANTS
  Handlers,      \* request handlers: always publish, unless the process ends
  Executions,    \* monitor executions: may be cancelled before they publish
  Clients,       \* SSE connections
  HistoryLimit,  \* EVENT_HISTORY_LIMIT
  BufferLimit,   \* SUBSCRIBER_BUFFER_LIMIT
  MaxRevision    \* bound: committed events

VARIABLES
  last,     \* the newest committed revision
  journal,  \* map_events: the committed revisions still stored
  writers,  \* the transaction or the unpublished event of each writer
  streams,  \* the generator of each connection, with its queue
  lost      \* history: committed revisions that nobody will publish

vars == <<last, journal, writers, streams, lost>>

Writers == Handlers \cup Executions

ASSUME StreamAssumption ==
  /\ IsFiniteSet(Writers) /\ Handlers \cap Executions = {}
  /\ HistoryLimit \in Nat \ {0} /\ BufferLimit \in Nat \ {0}
  /\ MaxRevision \in Nat

Revision == Nat
(* Two history fields: `known' is the newest revision in a snapshot that the *)
(* client fetches because of what it was told, and `dropped' has the events  *)
(* emptied from the queue for the sake of an older one.                      *)
Writer == [phase : {"idle", "flushed", "committed"}, revision : Revision]
Stream == [phase : {"closed", "subscribed", "bounded", "selecting", "resync",
                    "replaying", "live"},
           after : Revision, cursor : Revision,
           earliest : Revision, latest : Revision,
           backlog : SUBSET Revision, queue : Seq(Revision),
           known : Revision, dropped : SUBSET Revision]

Idle == [phase |-> "idle", revision |-> 0]
Closed == [phase |-> "closed", after |-> 0, cursor |-> 0, earliest |-> 0,
           latest |-> 0, backlog |-> {}, queue |-> <<>>, known |-> 0,
           dropped |-> {}]

TypeOK ==
  /\ last \in Revision
  /\ journal \subseteq Revision
  /\ writers \in [Writers -> Writer]
  /\ streams \in [Clients -> Stream]
  /\ \A c \in Clients : Len(streams[c].queue) <= BufferLimit
  /\ lost \subseteq Revision

Init ==
  /\ last = 0
  /\ journal = {}
  /\ writers = [w \in Writers |-> Idle]
  /\ streams = [c \in Clients |-> Closed]
  /\ lost = {}

-----------------------------------------------------------------------------
(* append_event, commit, and the publication that follows it. *)

(* _trim_history keeps the newest HistoryLimit events. *)
TrimmedOfNewest(revisions) ==
  {r \in revisions :
     Cardinality({older \in revisions : older <= r}) <= HistoryLimit}
Trimmed(revisions) ==
  {r \in revisions :
     Cardinality({newer \in revisions : newer >= r}) <= HistoryLimit}

Unpublished == {writers[w].revision : w \in {v \in Writers : writers[v].phase = "committed"}}

(* The INSERT takes SQLite's write lock until the transaction ends. *)
AppendEventPublishing(w) ==
  /\ last < MaxRevision
  /\ writers[w].phase = "idle"
  /\ \A v \in Writers : writers[v].phase # "flushed"
  /\ writers' = [writers EXCEPT
                   ![w] = [phase |-> "flushed", revision |-> last + 1]]
  /\ streams' = [c \in Clients |->
                   IF streams[c].phase = "closed" THEN streams[c]
                   ELSE [streams[c] EXCEPT !.queue = <<last + 1>>]]
  /\ UNCHANGED <<last, journal, lost>>
AppendEvent(w) ==
  /\ last < MaxRevision
  /\ writers[w].phase = "idle"
  /\ \A v \in Writers : writers[v].phase # "flushed"
  /\ writers' = [writers EXCEPT
                   ![w] = [phase |-> "flushed", revision |-> last + 1]]
  /\ UNCHANGED <<last, journal, streams, lost>>

Commit(w) ==
  /\ writers[w].phase = "flushed"
  /\ writers' = [writers EXCEPT ![w].phase = "committed"]
  /\ last' = writers[w].revision
  /\ journal' = Trimmed(journal \cup {writers[w].revision})
  /\ UNCHANGED <<streams, lost>>

(* A conflict or any other error; the id will be used again. *)
Rollback(w) ==
  /\ writers[w].phase = "flushed"
  /\ writers' = [writers EXCEPT ![w] = Idle]
  /\ UNCHANGED <<last, journal, streams, lost>>

(* A full queue is emptied for one resync event of the same revision. *)
OfferedTooMany(queue, revision) ==
  IF Len(queue) <= BufferLimit THEN Append(queue, revision) ELSE <<revision>>
Offered(queue, revision) ==
  IF Len(queue) < BufferLimit THEN Append(queue, revision) ELSE <<revision>>

Queued(stream) == {stream.queue[i] : i \in DOMAIN stream.queue}
Dropped(stream, revision) ==
  IF Len(stream.queue) < BufferLimit THEN {}
  ELSE {r \in Queued(stream) : r > revision}
Published(stream, revision) ==
  [stream EXCEPT !.queue = Offered(@, revision),
                 !.dropped = @ \cup Dropped(stream, revision)]

PublishToLive(w) ==
  /\ writers[w].phase = "committed"
  /\ streams' = [c \in Clients |->
                   IF streams[c].phase # "live" THEN streams[c]
                   ELSE Published(streams[c], writers[w].revision)]
  /\ writers' = [writers EXCEPT ![w] = Idle]
  /\ UNCHANGED <<last, journal, lost>>
Publish(w) ==
  /\ writers[w].phase = "committed"
  /\ streams' = [c \in Clients |->
                   IF streams[c].phase = "closed" THEN streams[c]
                   ELSE Published(streams[c], writers[w].revision)]
  /\ writers' = [writers EXCEPT ![w] = Idle]
  /\ UNCHANGED <<last, journal, lost>>

(* An execution cancelled while its save thread commits does not publish. *)
LosePublication(w) ==
  /\ w \in Executions
  /\ writers[w].phase = "committed"
  /\ lost' = lost \cup {writers[w].revision}
  /\ writers' = [writers EXCEPT ![w] = Idle]
  /\ UNCHANGED <<last, journal, streams>>

(* The process ends, and with it the queues; the journal stays. *)
Crash ==
  /\ writers' = [w \in Writers |-> Idle]
  /\ streams' = [c \in Clients |-> Closed]
  /\ lost' = lost \cup Unpublished
  /\ UNCHANGED <<last, journal>>

-----------------------------------------------------------------------------
(* _stream_map_events *)

StreamSteps(c) == UNCHANGED <<last, journal, writers, lost>>

(* The cursor a client brings is the revision of a snapshot it has. *)
Subscribe(c, after) ==
  /\ streams[c].phase = "closed"
  /\ streams' = [streams EXCEPT
                   ![c] = [Closed EXCEPT !.phase = "subscribed",
                                         !.after = after, !.cursor = after,
                                         !.known = after]]
  /\ StreamSteps(c)

Disconnect(c) ==
  /\ streams[c].phase # "closed"
  /\ streams' = [streams EXCEPT ![c] = Closed]
  /\ StreamSteps(c)

(* load_event_replay, statement by statement: 0 stands for no event. *)
Earliest ==
  IF journal = {} THEN 0
  ELSE CHOOSE r \in journal : \A s \in journal : r <= s

ReadEarliest(c) ==
  /\ streams[c].phase = "subscribed"
  /\ streams' = [streams EXCEPT ![c].phase = "bounded",
                                ![c].earliest = Earliest]
  /\ StreamSteps(c)

Expired(stream) == stream.earliest # 0 /\ stream.after < stream.earliest - 1

ReadLatest(c) ==
  /\ streams[c].phase = "bounded"
  /\ streams' = [streams EXCEPT
                   ![c].phase = IF Expired(streams[c]) THEN "resync"
                                ELSE "selecting",
                   ![c].latest = last]
  /\ StreamSteps(c)

ReadRows(c) ==
  /\ streams[c].phase = "selecting"
  /\ streams' = [streams EXCEPT
                   ![c].phase = "replaying",
                   ![c].backlog = {r \in journal : r > streams[c].after}]
  /\ StreamSteps(c)

SendResync(c) ==
  /\ streams[c].phase = "resync"
  /\ streams' = [streams EXCEPT
                   ![c].phase = "live",
                   ![c].known = last,
                   ![c].cursor = IF @ < streams[c].latest
                                 THEN streams[c].latest ELSE @]
  /\ StreamSteps(c)

(* A client that is told of an event fetches the map as it then is. *)
Told(stream, revision) ==
  IF revision <= stream.cursor THEN stream
  ELSE [stream EXCEPT !.cursor = revision, !.known = last]

SendReplayed(c) ==
  /\ streams[c].phase = "replaying"
  /\ \E r \in streams[c].backlog :
       /\ \A s \in streams[c].backlog : r <= s
       /\ streams' = [streams EXCEPT
                        ![c] = [Told(@, r) EXCEPT
                                  !.backlog = streams[c].backlog \ {r}]]
  /\ StreamSteps(c)

ReplayDone(c) ==
  /\ streams[c].phase = "replaying" /\ streams[c].backlog = {}
  /\ streams' = [streams EXCEPT ![c].phase = "live"]
  /\ StreamSteps(c)

(* An event the client has been told of, or something newer, is skipped. *)
ForwardAll(c) ==
  /\ streams[c].phase = "live" /\ streams[c].queue # <<>>
  /\ streams' = [streams EXCEPT ![c].queue = Tail(@), ![c].known = last,
                                ![c].cursor = Head(streams[c].queue)]
  /\ StreamSteps(c)
Forward(c) ==
  /\ streams[c].phase = "live" /\ streams[c].queue # <<>>
  /\ streams' = [streams EXCEPT
                   ![c] = [Told(@, Head(streams[c].queue)) EXCEPT
                             !.queue = Tail(streams[c].queue)]]
  /\ StreamSteps(c)

-----------------------------------------------------------------------------
Advance(c) ==
  \/ ReadEarliest(c) \/ ReadLatest(c) \/ ReadRows(c)
  \/ SendResync(c) \/ SendReplayed(c) \/ ReplayDone(c) \/ Forward(c)

Next ==
  \/ \E w \in Writers :
       AppendEvent(w) \/ Commit(w) \/ Rollback(w) \/ Publish(w)
         \/ LosePublication(w)
  \/ \E c \in Clients :
       \/ \E after \in 0..last : Subscribe(c, after)
       \/ Disconnect(c)
       \/ Advance(c)
  \/ Crash

Spec == Init /\ [][Next]_vars

(* The loop runs every callback and every generator whose client reads, and *)
(* a transaction ends one way or the other.                                 *)
Fairness ==
  /\ \A w \in Writers : /\ WF_vars(Commit(w) \/ Rollback(w))
                        /\ WF_vars(Publish(w) \/ LosePublication(w))
  /\ \A c \in Clients : WF_vars(Advance(c))

FairSpec == Spec /\ Fairness

-----------------------------------------------------------------------------
(* Safety. *)

(* What a stream still has to tell its client of. *)
Ahead(stream) ==
  stream.backlog \cup Queued(stream)
    \cup IF stream.phase = "resync" THEN {stream.latest} ELSE {}

ReadJournal == {c \in Clients :
                  streams[c].phase \in {"resync", "replaying", "live"}}

(* A revision is covered when the client has fetched it, when it is still to *)
(* be published, or when something is on its way that the cursor will let    *)
(* through, whatever its revision, since the client then fetches all.        *)
Covered(stream, r) ==
  \/ r <= stream.known
  \/ r \in Unpublished \cup lost
  \/ stream.phase = "resync"
  \/ \E s \in Ahead(stream) : s > stream.cursor

(* Subscribing before the replay loses no write, wherever commits, trims and *)
(* publications fall between its statements: once the journal has been read, *)
(* each committed revision is covered.  Only what a full queue loses to an   *)
(* event older than itself is left to NothingTruncated, with the revisions   *)
(* before it, which earlier overflows may have left to it to announce.       *)
NothingMissed ==
  \A c \in ReadJournal :
    \A r \in 1..last :
      (\A newer \in streams[c].dropped : newer < r) => Covered(streams[c], r)

(* A mutation that was rolled back is not announced: everything a client is *)
(* or will be told of has been committed, though ids are reused.            *)
NoPhantom ==
  \A c \in Clients :
    \A s \in Ahead(streams[c]) \cup {streams[c].cursor} : s <= last

(* The journal is the newest events without a gap, as the test for an       *)
(* expired cursor in load_event_replay takes for granted.                   *)
JournalIsSuffix == journal = {r \in 1..last : r > last - HistoryLimit}

(* What is announced has been committed, and what has been committed lately *)
(* can be replayed.                                                         *)
JournalIsTrue == NoPhantom /\ JournalIsSuffix

(* The clients to which the stream owes its promise: those connected that   *)
(* no lost publication and no overflow, newer than what they know, concerns *)
(* (see LosePublication and NothingTruncated).                              *)
Informed ==
  {c \in Clients : /\ streams[c].phase # "closed"
                   /\ \A r \in lost \cup streams[c].dropped :
                        r <= streams[c].cursor}

(* The stream keeps what it promises to a client. *)
Promise ==
  INSTANCE Notification WITH
    latest <- last,
    listening <- Informed,
    told <- [c \in Clients |-> IF c \in Informed THEN streams[c].cursor ELSE 0]

(* Each client is told of ever newer committed revisions, and is not left   *)
(* behind for ever while it stays connected.                                *)
KeepsPromise == Promise!Spec

-----------------------------------------------------------------------------
(* What comments say of the same code, and does not hold. *)

(* events.py: a slow client recovers from a snapshot rather than receive a  *)
(* silently truncated sequence.  What its queue has lost is covered.        *)
NothingTruncated ==
  \A c \in ReadJournal :
    \A r \in streams[c].dropped : Covered(streams[c], r)
====
