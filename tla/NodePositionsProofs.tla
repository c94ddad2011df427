-------------------------- MODULE NodePositionsProofs --------------------------
(***************************************************************************)
(* Theorems about NodePositions, for every set of nodes and of positions   *)
(* and every bound.                                                        *)
(***************************************************************************)
EXTENDS NodePositions, FiniteSetTheorems, TLAPS

Told == {"nothing", "saved", "failed"}
Answers == {"none", "saved", "failed"}
Histories == [drops : Nat, drags : Nat, failures : Nat,
              last : [Nodes -> Place], answer : [Nodes -> Answers],
              clean : [Nodes -> BOOLEAN], told : [Nodes -> Told]]
HistoryOK == history \in Histories

OfNode(c, n) == c.what = "node" /\ c.node = n

(* At most one write of a node is awaited.                                   *)
AwaitedOnce ==
  \A n \in Nodes : \A c, d \in calls :
    OfNode(c, n) /\ OfNode(d, n) /\ c.awaited /\ d.awaited => c = d

(* It is awaited while the entry says so and has no answer, and at most one  *)
(* position waits behind it.                                                *)
Waiting(n) ==
  /\ \A p, q \in entries[n].pending : p = q
  /\ entries[n].pending # {} \/ entries[n].answer # "none" => entries[n].inFlight
  /\ \A c \in calls : OfNode(c, n) /\ c.awaited =>
       entries[n].inFlight /\ entries[n].answer = "none"

(* An answer not yet settled is the last one given, and a node that was      *)
(* reported has no entry.                                                   *)
AnswerKept(n) ==
  /\ entries[n].answer # "none" => history.answer[n] = entries[n].answer
  /\ history.told[n] # "nothing" =>
       entries[n] = NoEntry /\ history.told[n] = history.answer[n]

(* While nothing but its own writes bears on a node, its last drop is        *)
(* waiting, on its way from what is stored, or stored.                      *)
DropTracked(n) ==
  history.clean[n] =>
    /\ \A c \in calls : c.what = "node" /\ (c.node = n => c.awaited)
    /\ entries[n].pending \subseteq {history.last[n]}
    /\ entries[n].pending = {} =>
         /\ \A c \in calls : OfNode(c, n) =>
              /\ c.to = history.last[n]
              /\ c.phase = "read" => c.read = store.place[n]
         /\ entries[n].answer = "saved" \/ history.told[n] = "saved" =>
              store.place[n] = history.last[n]

NodeInv(n) == Waiting(n) /\ AnswerKept(n) /\ DropTracked(n)

(* A group's handler that nothing overtook has read what is stored.          *)
FreshReads ==
  \A c \in calls : c.what = "group" /\ c.fresh =>
    /\ c.phase \in {"delta", "read"} => c.delta = c.to - store.group
    /\ c.phase = "read" => c.read = store.place

(* The inductive invariant of the drags of nodes.                           *)
DropInv == AwaitedOnce /\ \A n \in Nodes : NodeInv(n)

-----------------------------------------------------------------------------
(* What the helpers of the actions do, field by field.                      *)

LEMMA CallKinds ==
  ASSUME TypeOK, NEW c \in calls
  PROVE  \/ c \in NodeCall /\ c.what = "node"
         \/ c \in GroupCall /\ c.what = "group"
BY DEF TypeOK, NodeCall, GroupCall

LEMMA NoPlaceType == NoPlace \in Place
BY DEF NoPlace, Place

LEMMA PatchFields ==
  ASSUME NEW n \in Nodes, NEW place \in Place
  PROVE  /\ Patch(n, place) \in NodeCall
         /\ Patch(n, place).what = "node" /\ Patch(n, place).node = n
         /\ Patch(n, place).to = place /\ Patch(n, place).phase = "sent"
         /\ Patch(n, place).awaited
BY NoPlaceType DEF Patch, NodeCall

LEMMA NoEntryFields ==
  /\ NoEntry \in Entry /\ NoEntry.pending = {} /\ NoEntry.answer = "none"
  /\ NoEntry.inFlight = FALSE
BY DEF NoEntry, Entry

LEMMA FlushFields ==
  ASSUME TypeOK, NEW n \in Nodes, NEW entry \in Entry, flush(n, entry)
  PROVE  \E left \in Entry :
           /\ entries' = [entries EXCEPT ![n] = left]
           /\ left.answer = entry.answer
           /\ \/ /\ entry.inFlight \/ entry.pending = {}
                 /\ left = entry /\ calls' = calls
              \/ /\ ~entry.inFlight /\ entry.pending # {}
                 /\ left.pending = {} /\ left.inFlight
                 /\ calls' = calls \cup {Patch(n, place) : place \in entry.pending}
<1>1. CASE entry.inFlight \/ entry.pending = {}
  BY <1>1 DEF flush
<1>2. CASE ~(entry.inFlight \/ entry.pending = {})
  <2> DEFINE left == [entry EXCEPT !.pending = {}, !.inFlight = TRUE]
  <2>1. /\ left \in Entry /\ left.answer = entry.answer
        /\ left.pending = {} /\ left.inFlight
    BY DEF Entry
  <2>2. /\ entries' = [entries EXCEPT ![n] = left]
        /\ calls' = calls \cup {Patch(n, place) : place \in entry.pending}
    BY <1>2 DEF flush
  <2> HIDE DEF left
  <2>3. QED
    BY <1>2, <2>1, <2>2
<1>3. QED
  BY <1>1, <1>2

LEMMA AfterAnswerFields ==
  ASSUME NEW entry \in Entry
  PROVE  /\ AfterAnswer(entry) \in Entry
         /\ AfterAnswer(entry).pending = entry.pending
         /\ ~AfterAnswer(entry).inFlight /\ AfterAnswer(entry).answer = "none"
         /\ AfterAnswer(entry).failure = (entry.answer = "failed")
<1>1. (entry.answer = "failed") \in BOOLEAN
  OBVIOUS
<1>2. QED
  BY <1>1 DEF AfterAnswer, Entry

LEMMA ScheduleFields ==
  ASSUME NEW entry \in Entry, NEW place \in Place
  PROVE  /\ schedule(entry, place) \in Entry
         /\ schedule(entry, place).pending = {place}
         /\ schedule(entry, place).inFlight = entry.inFlight
         /\ schedule(entry, place).answer = entry.answer
BY DEF schedule, Entry

LEMMA AnsweredFields ==
  ASSUME TypeOK, NEW c \in NodeCall, NEW answer \in {"saved", "failed"},
         NEW past, Answered(c, answer, past)
  PROVE  /\ entries' \in [Nodes -> Entry]
         /\ \A n \in Nodes : /\ entries'[n].pending = entries[n].pending
                             /\ entries'[n].inFlight = entries[n].inFlight
                             /\ IF c.awaited /\ n = c.node
                                THEN entries'[n].answer = answer
                                ELSE entries'[n] = entries[n]
         /\ history' = IF c.awaited THEN [past EXCEPT !.answer[c.node] = answer]
                       ELSE past
<1>1. c.node \in Nodes /\ c.awaited \in BOOLEAN
  BY DEF NodeCall
<1>2. CASE ~c.awaited
  BY <1>2 DEF Answered, TypeOK
<1>3. CASE c.awaited
  <2>1. /\ entries' = [entries EXCEPT ![c.node].answer = answer]
        /\ history' = [past EXCEPT !.answer[c.node] = answer]
    BY <1>3 DEF Answered
  <2>2. entries[c.node] \in Entry
    BY <1>1 DEF TypeOK
  <2>3. [entries[c.node] EXCEPT !.answer = answer] \in Entry
    BY <2>2 DEF Entry
  <2>4. \A n \in Nodes : n # c.node => entries'[n] = entries[n]
    BY <2>1 DEF TypeOK
  <2>5. entries'[c.node] = [entries[c.node] EXCEPT !.answer = answer]
    BY <1>1, <2>1 DEF TypeOK
  <2>6. /\ entries'[c.node].pending = entries[c.node].pending
        /\ entries'[c.node].inFlight = entries[c.node].inFlight
        /\ entries'[c.node].answer = answer
    BY <2>2, <2>5 DEF Entry
  <2>7. entries' \in [Nodes -> Entry]
    BY <1>1, <2>1, <2>3 DEF TypeOK
  <2>8. QED
    BY <1>3, <2>1, <2>4, <2>6, <2>7
<1>4. QED
  BY <1>1, <1>2, <1>3

-----------------------------------------------------------------------------
(* Types.                                                                   *)

AtMostOne(set) == Cardinality(set) <= 1

LEMMA FewSuffice ==
  AtMostOne({}) /\ \A x : AtMostOne({x})
<1>1. Cardinality({}) = 0 /\ \A x : Cardinality({x}) = 1
  BY FS_EmptySet, FS_Singleton
<1>2. QED
  BY <1>1 DEF AtMostOne

EntriesOK == entries \in [Nodes -> Entry] /\ \A n \in Nodes : AtMostOne(entries[n].pending)
CallsOK == calls \subseteq NodeCall \cup GroupCall
LoadsOK == loads \subseteq Load /\ \A load \in loads : AtMostOne(load.view)

LEMMA TypeParts ==
  TypeOK <=> /\ store \in View /\ shown \in View /\ CallsOK /\ EntriesOK /\ LoadsOK
             /\ gate \in Gate /\ error \in {"none", "group", "load"}
BY DEF TypeOK, CallsOK, EntriesOK, LoadsOK, AtMostOne

LEMMA EntryPut ==
  ASSUME EntriesOK, NEW n \in Nodes, NEW left \in Entry, AtMostOne(left.pending),
         entries' = [entries EXCEPT ![n] = left]
  PROVE  EntriesOK'
BY DEF EntriesOK

LEMMA FlushType ==
  ASSUME TypeOK, NEW n \in Nodes, NEW entry \in Entry, AtMostOne(entry.pending),
         flush(n, entry)
  PROVE  EntriesOK' /\ CallsOK'
<1>1. PICK left \in Entry :
           /\ entries' = [entries EXCEPT ![n] = left]
           /\ \/ left = entry /\ calls' = calls
              \/ /\ left.pending = {}
                 /\ calls' = calls \cup {Patch(n, place) : place \in entry.pending}
  BY FlushFields
<1>2. EntriesOK /\ CallsOK
  BY TypeParts
<1>3. AtMostOne(left.pending)
  BY <1>1, FewSuffice
<1>4. \A place \in entry.pending : Patch(n, place) \in NodeCall
  BY PatchFields DEF Entry
<1>5. CallsOK'
  BY <1>1, <1>2, <1>4 DEF CallsOK
<1>6. QED
  BY <1>1, <1>2, <1>3, <1>5, EntryPut

LEMMA FetchType ==
  ASSUME TypeOK, NEW by \in {"app", "sync"}, Fetch(by)
  PROVE  LoadsOK' /\ gate' \in Gate
<1> DEFINE load == [by |-> by, ticket |-> gate.ticket + 1, view |-> {}]
<1>1. gate \in Gate /\ gate.ticket + 1 \in Nat
  BY DEF TypeOK, Gate
<1>2. load \in Load /\ load.view = {}
  BY <1>1 DEF Load
<1>3. loads' = loads \cup {load} /\ gate' = [gate EXCEPT !.ticket = @ + 1]
  BY DEF Fetch
<1> HIDE DEF load
<1>4. LoadsOK
  BY TypeParts
<1>5. LoadsOK'
  BY <1>2, <1>3, <1>4, FewSuffice DEF LoadsOK
<1>6. gate' \in Gate
  BY <1>1, <1>3 DEF Gate
<1>7. QED
  BY <1>5, <1>6

LEMMA OvertakenType ==
  ASSUME NEW others \in SUBSET (NodeCall \cup GroupCall)
  PROVE  Overtaken(others) \subseteq NodeCall \cup GroupCall
<1>1. ASSUME NEW c \in others, NEW fresh \in BOOLEAN
      PROVE  [c EXCEPT !.fresh = fresh] \in NodeCall \cup GroupCall
  <2>1. CASE c \in NodeCall
    BY <2>1 DEF NodeCall
  <2>2. CASE c \in GroupCall
    BY <2>2 DEF GroupCall
  <2>3. QED BY <2>1, <2>2
<1>2. ASSUME NEW c \in others
      PROVE  [c EXCEPT !.fresh = c.phase \in {"sent", "saved", "refused"}]
               \in NodeCall \cup GroupCall
  <2>1. (c.phase \in {"sent", "saved", "refused"}) \in BOOLEAN
    OBVIOUS
  <2>2. QED
    BY <1>1, <2>1
<1>3. QED
  BY <1>2 DEF Overtaken

LEMMA StepType ==
  ASSUME CallsOK, NEW c \in calls, NEW next \in NodeCall \cup GroupCall,
         Step(c, next)
  PROVE  CallsOK'
BY DEF Step, CallsOK

LEMMA StoreFields ==
  ASSUME NEW view \in View
  PROVE  /\ view.place \in [Nodes -> Place] /\ view.group \in Int
         /\ view.revision \in Nat /\ view.revision + 1 \in Nat
BY DEF View

LEMMA MovedType ==
  ASSUME TypeOK, NEW c \in GroupCall
  PROVE  Moved(c) \in View
<1> DEFINE places == [n \in Nodes |->
       IF c.read[n].in /\ c.delta # 0
       THEN [store.place[n] EXCEPT !.at = c.read[n].at + c.delta]
       ELSE store.place[n]]
     group == IF c.delta = 0 THEN store.group ELSE c.to
<1>1. /\ store \in View /\ store.place \in [Nodes -> Place] /\ store.group \in Int
      /\ store.revision + 1 \in Nat
  BY StoreFields DEF TypeOK
<1>2. c.to \in Int /\ c.delta \in Int /\ c.read \in [Nodes -> Place]
  BY DEF GroupCall
<1>3. places \in [Nodes -> Place]
  <2>1. ASSUME NEW n \in Nodes PROVE places[n] \in Place
    <3>1. c.read[n].at + c.delta \in Int /\ store.place[n] \in Place
      BY <1>1, <1>2 DEF Place
    <3>2. QED
      BY <3>1 DEF Place
  <2>2. QED
    BY <2>1
<1>4. group \in Int
  BY <1>1, <1>2
<1>5. Moved(c) = [store EXCEPT !.revision = store.revision + 1, !.group = group,
                               !.place = places]
  BY <1>1 DEF Moved
<1> HIDE DEF places, group
<1>6. QED
  BY <1>1, <1>3, <1>4, <1>5 DEF View

(* What the handler of a node leaves: the columns that differ from what it   *)
(* read.                                                                    *)
LEMMA PatchedStore ==
  ASSUME TypeOK, NEW c \in NodeCall, patch_node_position(c)
  PROVE  /\ store' \in View /\ store'.group = store.group
         /\ \A n \in Nodes : n # c.node => store'.place[n] = store.place[n]
         /\ c.read = store.place[c.node] => store'.place[c.node] = c.to
<1> DEFINE old == store.place[c.node]
           new == [at |-> IF c.to.at = c.read.at THEN old.at ELSE c.to.at,
                   in |-> IF c.to.in = c.read.in THEN old.in ELSE c.to.in]
<1>1. /\ store \in View /\ store.place \in [Nodes -> Place]
      /\ store.revision + 1 \in Nat
  BY StoreFields DEF TypeOK
<1>2. /\ c.node \in Nodes /\ c.to \in Place /\ c.read \in Place /\ old \in Place
  BY <1>1 DEF NodeCall
<1>3. new \in Place
  BY <1>2 DEF Place
<1>4. c.read = old => new = c.to
  <2>1. c.to = [at |-> c.to.at, in |-> c.to.in]
    BY <1>2 DEF Place
  <2>2. ASSUME c.read = old PROVE new = [at |-> c.to.at, in |-> c.to.in]
    BY <2>2
  <2>3. QED
    BY <2>1, <2>2
<1>5. store' = [store EXCEPT !.revision = store.revision + 1,
                             !.place = [store.place EXCEPT ![c.node] = new]]
  BY <1>1, <1>2 DEF patch_node_position, View
<1> HIDE DEF new
<1>6. [store.place EXCEPT ![c.node] = new] \in [Nodes -> Place]
  BY <1>1, <1>3
<1>7. /\ store' \in View /\ store'.group = store.group
      /\ store'.place = [store.place EXCEPT ![c.node] = new]
  BY <1>1, <1>5, <1>6 DEF View
<1>8. QED
  BY <1>1, <1>2, <1>4, <1>7

LEMMA TypeStep == TypeOK /\ HistoryOK /\ [Next]_vars => TypeOK'
<1> SUFFICES ASSUME TypeOK, HistoryOK, [Next]_vars PROVE TypeOK'
  OBVIOUS
<1>1. /\ store \in View /\ shown \in View /\ CallsOK /\ EntriesOK /\ LoadsOK
      /\ gate \in Gate /\ error \in {"none", "group", "load"}
  BY TypeParts
<1>2. /\ UNCHANGED calls => CallsOK'
      /\ UNCHANGED entries => EntriesOK'
      /\ UNCHANGED loads => LoadsOK'
  BY <1>1 DEF CallsOK, EntriesOK, LoadsOK
<1>3. ASSUME store' \in View, shown' \in View, CallsOK', EntriesOK', LoadsOK',
             gate' \in Gate, error' \in {"none", "group", "load"}
      PROVE  TypeOK'
  BY <1>3 DEF TypeOK, CallsOK, EntriesOK, LoadsOK, AtMostOne
<1>4. ASSUME NEW n \in Nodes, NEW place \in Place, persistPosition(n, place)
      PROVE  TypeOK'
  <2>1. schedule(entries[n], place) \in Entry
        /\ AtMostOne(schedule(entries[n], place).pending)
    BY <1>1, ScheduleFields, FewSuffice DEF EntriesOK
  <2>2. EntriesOK' /\ CallsOK'
    BY <1>4, <2>1, FlushType DEF persistPosition
  <2>3. shown' \in View
    BY <1>1, <1>4 DEF persistPosition, View
  <2>4. QED
    BY <1>1, <1>2, <1>3, <1>4, <2>2, <2>3 DEF persistPosition
<1>5. ASSUME NEW spot \in GroupSpots, NEW here \in BOOLEAN, DragGroup(spot, here)
      PROVE  TypeOK'
  <2> DEFINE call == [what |-> "group", here |-> here, to |-> spot, delta |-> 0,
         read |-> [n \in Nodes |-> NoPlace], id |-> history.drags,
         phase |-> "sent", fresh |-> TRUE]
  <2>1. spot \in Int /\ history.drags \in Nat
    BY PositionsAssumption DEF HistoryOK, Histories
  <2>2. call \in GroupCall
    BY <2>1, NoPlaceType DEF GroupCall
  <2>3. calls' = calls \cup {call} /\ error' \in {"none", error}
        /\ UNCHANGED <<store, shown, entries, loads, gate>>
    BY <1>5 DEF DragGroup
  <2>4. CallsOK'
    BY <1>1, <2>2, <2>3 DEF CallsOK
  <2>5. QED
    BY <1>1, <1>2, <1>3, <2>3, <2>4
<1>6. CASE SyncBegins
  BY <1>1, <1>2, <1>3, <1>6, FetchType DEF SyncBegins
<1>7. ASSUME NEW n \in Nodes, settled(n) PROVE TypeOK'
  <2> DEFINE entry == AfterAnswer(entries[n])
  <2>1. entry \in Entry /\ AtMostOne(entry.pending)
    BY <1>1, AfterAnswerFields DEF EntriesOK
  <2>2. UNCHANGED <<store, shown>>
    BY <1>7 DEF settled
  <2> HIDE DEF entry
  <2>3. CASE flush(n, entry) /\ UNCHANGED <<loads, gate, error, history>>
    BY <1>1, <1>2, <1>3, <2>1, <2>2, <2>3, FlushType
  <2>4. CASE /\ entries' = [entries EXCEPT ![n] = NoEntry]
             /\ Report(n, entry.failure) /\ UNCHANGED calls
    <3>1. EntriesOK'
      BY <1>1, <2>4, NoEntryFields, FewSuffice, EntryPut
    <3>2. LoadsOK' /\ gate' \in Gate /\ error' \in {"none", "group", "load"}
      BY <1>1, <1>2, <2>4, FetchType DEF Report
    <3>3. QED
      BY <1>1, <1>2, <1>3, <2>2, <2>4, <3>1, <3>2
  <2>5. QED
    BY <1>7, <2>3, <2>4 DEF settled, entry
<1>8. ASSUME NEW c \in calls, GroupAnswered(c) PROVE TypeOK'
  <2>1. CallsOK'
    BY <1>1, <1>8 DEF GroupAnswered, CallsOK
  <2>2. LoadsOK' /\ gate' \in Gate /\ error' \in {"none", "group", "load"}
    BY <1>1, <1>2, <1>8, FetchType DEF GroupAnswered
  <2>3. QED
    BY <1>1, <1>2, <1>3, <1>8, <2>1, <2>2 DEF GroupAnswered
<1>9. ASSUME NEW c \in calls, ReadNode(c) \/ ReadGroup(c) \/ ReadMembers(c)
      PROVE  TypeOK'
  <2>1. store.place \in [Nodes -> Place] /\ store.group \in Int
    BY <1>1, StoreFields
  <2>2. CASE ReadNode(c)
    <3>1. c \in NodeCall
      BY <2>2, CallKinds DEF ReadNode
    <3>2. [c EXCEPT !.phase = "read", !.read = store.place[c.node]] \in NodeCall
      BY <2>1, <3>1 DEF NodeCall
    <3>3. CallsOK'
      BY <1>1, <2>2, <3>2, StepType DEF ReadNode
    <3>4. QED
      BY <1>1, <1>2, <1>3, <2>2, <3>3 DEF ReadNode, ReadOnly
  <2>3. CASE ReadGroup(c)
    <3>1. c \in GroupCall
      BY <2>3, CallKinds DEF ReadGroup
    <3>2. c.to - store.group \in Int
      BY <2>1, <3>1 DEF GroupCall
    <3>3. [c EXCEPT !.phase = "delta", !.delta = c.to - store.group] \in GroupCall
      BY <3>1, <3>2 DEF GroupCall
    <3>4. CallsOK'
      BY <1>1, <2>3, <3>3, StepType DEF ReadGroup
    <3>5. QED
      BY <1>1, <1>2, <1>3, <2>3, <3>4 DEF ReadGroup, ReadOnly
  <2>4. CASE ReadMembers(c)
    <3>1. c \in GroupCall
      BY <2>4, CallKinds DEF ReadMembers
    <3>2. [c EXCEPT !.phase = "read", !.read = store.place] \in GroupCall
      BY <2>1, <3>1 DEF GroupCall
    <3>3. CallsOK'
      BY <1>1, <2>4, <3>2, StepType DEF ReadMembers
    <3>4. QED
      BY <1>1, <1>2, <1>3, <2>4, <3>3 DEF ReadMembers, ReadOnly
  <2>5. QED
    BY <1>9, <2>2, <2>3, <2>4
<1>10. ASSUME NEW c \in calls, patch_node_position(c) PROVE TypeOK'
  <2>1. c \in NodeCall
    BY <1>10, CallKinds DEF patch_node_position
  <2>2. Answered(c, "saved", history) /\ calls' = Overtaken(calls \ {c})
    BY <1>10 DEF patch_node_position
  <2>3. CallsOK'
    BY <1>1, <2>2, OvertakenType DEF CallsOK
  <2>4. EntriesOK'
    BY <1>1, <2>1, <2>2, AnsweredFields DEF EntriesOK
  <2>5. store' \in View
    BY <1>10, <2>1, PatchedStore
  <2>6. QED
    BY <1>1, <1>2, <1>3, <1>10, <2>3, <2>4, <2>5 DEF patch_node_position
<1>11. ASSUME NEW c \in calls, patch_group(c) PROVE TypeOK'
  <2>1. c \in GroupCall
    BY <1>11, CallKinds DEF patch_group
  <2>2. [c EXCEPT !.phase = "saved"] \in GroupCall
    BY <2>1 DEF GroupCall
  <2>3. calls' = Overtaken(calls \ {c}) \cup {[c EXCEPT !.phase = "saved"]}
    BY <1>11 DEF patch_group
  <2>4. CallsOK'
    BY <1>1, <2>2, <2>3, OvertakenType DEF CallsOK
  <2>5. store' \in View
    BY <1>11, <2>1, MovedType DEF patch_group
  <2>6. QED
    BY <1>1, <1>2, <1>3, <1>11, <2>4, <2>5 DEF patch_group
<1>12. ASSUME NEW c \in calls, Fails(c) PROVE TypeOK'
  <2>1. UNCHANGED <<store, shown, loads, gate>>
    BY <1>12 DEF Fails
  <2>2. CASE c.what = "node"
    <3>1. c \in NodeCall
      BY <2>2, CallKinds
    <3>2. [c EXCEPT !.awaited = FALSE] \in NodeCall
      BY <3>1 DEF NodeCall
    <3>3. /\ calls' = calls \ {c} \/ Step(c, [c EXCEPT !.awaited = FALSE])
          /\ \E past : Answered(c, "failed", past)
          /\ UNCHANGED error
      BY <1>12, <2>2 DEF Fails
    <3>4. CallsOK'
      <4>1. CASE calls' = calls \ {c}
        BY <1>1, <4>1 DEF CallsOK
      <4>2. CASE Step(c, [c EXCEPT !.awaited = FALSE])
        BY <1>1, <3>2, <4>2, StepType
      <4>3. QED
        BY <3>3, <4>1, <4>2
    <3>5. EntriesOK'
      BY <1>1, <3>1, <3>3, AnsweredFields DEF EntriesOK
    <3>6. QED
      BY <1>1, <1>2, <1>3, <2>1, <3>3, <3>4, <3>5
  <2>3. CASE c.what # "node"
    <3>1. c \in GroupCall
      BY <2>3, CallKinds
    <3>2. /\ [c EXCEPT !.phase = "refused"] \in GroupCall
          /\ [c EXCEPT !.here = FALSE] \in GroupCall
      BY <3>1 DEF GroupCall
    <3>3. /\ \/ Step(c, [c EXCEPT !.phase = "refused"]) /\ UNCHANGED error
             \/ Step(c, [c EXCEPT !.here = FALSE]) /\ error' = "group"
          /\ UNCHANGED entries
      BY <1>12, <2>3 DEF Fails
    <3>4. CallsOK'
      BY <1>1, <3>2, <3>3, StepType
    <3>5. QED
      BY <1>1, <1>2, <1>3, <2>1, <3>3, <3>4
  <2>4. QED
    BY <2>2, <2>3
<1>13. ASSUME NEW load \in loads, ReadSnapshot(load) PROVE TypeOK'
  <2>1. load \in Load
    BY DEF TypeOK
  <2>2. /\ [load EXCEPT !.view = {store}] \in Load
        /\ [load EXCEPT !.view = {store}].view = {store}
    BY <1>1, <2>1 DEF Load
  <2>3. loads' = (loads \ {load}) \cup {[load EXCEPT !.view = {store}]}
    BY <1>13 DEF ReadSnapshot
  <2>4. LoadsOK'
    BY <1>1, <2>2, <2>3, FewSuffice DEF LoadsOK
  <2>5. QED
    BY <1>1, <1>2, <1>3, <1>13, <2>4 DEF ReadSnapshot
<1>14. ASSUME NEW load \in loads, applySnapshot(load) PROVE TypeOK'
  <2>1. PICK view \in load.view :
          /\ shown' = IF Accepts(load, view) THEN view ELSE shown
          /\ gate' = [gate EXCEPT
               !.revision = IF Accepts(load, view) THEN view.revision ELSE @,
               !.reached = IF load.by = "sync" THEN view.revision ELSE @]
          /\ error' = IF load.by = "sync" /\ Accepts(load, view) THEN "none"
                      ELSE error
    BY <1>14 DEF applySnapshot
  <2>2. view \in View /\ view.revision \in Nat
    BY StoreFields DEF TypeOK, Load
  <2>3. /\ (IF Accepts(load, view) THEN view.revision ELSE gate.revision) \in Nat
        /\ (IF load.by = "sync" THEN view.revision ELSE gate.reached) \in Nat
    BY <1>1, <2>2 DEF Gate
  <2>4. gate' \in Gate
    BY <1>1, <2>1, <2>3 DEF Gate
  <2>5. LoadsOK'
    BY <1>1, <1>14 DEF applySnapshot, LoadsOK
  <2>6. QED
    BY <1>1, <1>2, <1>3, <1>14, <2>1, <2>2, <2>4, <2>5 DEF applySnapshot
<1>15. ASSUME NEW load \in loads, LoadFails(load) PROVE TypeOK'
  <2>1. LoadsOK'
    BY <1>1, <1>15 DEF LoadFails, LoadsOK
  <2>2. QED
    BY <1>1, <1>2, <1>3, <1>15, <2>1 DEF LoadFails
<1>16. CASE UNCHANGED vars
  BY <1>1, <1>2, <1>3, <1>16 DEF vars
<1>17. ASSUME NEW spot \in Spots, NEW in \in BOOLEAN
       PROVE  [at |-> spot, in |-> in] \in Place
  BY PositionsAssumption DEF Place
<1>18. QED
  BY <1>4, <1>5, <1>6, <1>7, <1>8, <1>9, <1>10, <1>11, <1>12, <1>13, <1>14,
     <1>15, <1>16, <1>17
  DEF Next, Browser, Server

-----------------------------------------------------------------------------
(* The history, field by field.                                             *)

LEMMA CountFields ==
  ASSUME NEW past \in Histories, NEW what \in {"drops", "drags", "failures"}
  PROVE  /\ Count(past, what) \in Histories
         /\ Count(past, what).last = past.last
         /\ Count(past, what).answer = past.answer
         /\ Count(past, what).clean = past.clean
         /\ Count(past, what).told = past.told
BY DEF Count, Histories

LEMMA DropFields ==
  ASSUME HistoryOK, NEW n \in Nodes, NEW place \in Place, persistPosition(n, place)
  PROVE  /\ history' \in Histories
         /\ history'.last = [history.last EXCEPT ![n] = place]
         /\ history'.told = [history.told EXCEPT ![n] = "nothing"]
         /\ history'.answer = history.answer
         /\ \A k \in Nodes : k # n => history'.clean[k] = history.clean[k]
         /\ history'.clean[n] <=>
              \A c \in calls : c.what = "node" /\ (c.node = n => c.awaited)
<1> DEFINE clean == \A c \in calls : c.what = "node" /\ (c.node = n => c.awaited)
           past == Count(history, "drops")
<1>1. /\ past \in Histories /\ past.last = history.last
      /\ past.answer = history.answer /\ past.clean = history.clean
      /\ past.told = history.told
  BY CountFields DEF HistoryOK
<1>2. clean \in BOOLEAN
  OBVIOUS
<1>3. history' = [past EXCEPT !.last[n] = place, !.told[n] = "nothing",
                              !.clean[n] = clean]
  BY DEF persistPosition
<1> HIDE DEF clean, past
<1>4. /\ history' \in Histories
      /\ history'.last = [past.last EXCEPT ![n] = place]
      /\ history'.told = [past.told EXCEPT ![n] = "nothing"]
      /\ history'.answer = past.answer
      /\ history'.clean = [past.clean EXCEPT ![n] = clean]
  BY <1>1, <1>2, <1>3 DEF Histories, Told
<1>5. past.clean \in [Nodes -> BOOLEAN]
  BY <1>1 DEF Histories
<1>6. history'.clean[n] = clean /\ \A k \in Nodes : k # n => history'.clean[k] = past.clean[k]
  BY <1>4, <1>5
<1>7. QED
  BY <1>1, <1>4, <1>6 DEF clean

LEMMA DragFields ==
  ASSUME HistoryOK, NEW spot, NEW here, DragGroup(spot, here)
  PROVE  /\ history' \in Histories /\ history'.last = history.last
         /\ history'.answer = history.answer /\ history'.told = history.told
         /\ \A n \in Nodes : ~history'.clean[n]
<1>1. history' = [Count(history, "drags") EXCEPT !.clean = [n \in Nodes |-> FALSE]]
  BY DEF DragGroup
<1>2. QED
  BY <1>1, CountFields DEF HistoryOK, Histories

LEMMA ReportFields ==
  ASSUME HistoryOK, NEW n \in Nodes, NEW failed \in BOOLEAN, Report(n, failed)
  PROVE  /\ history' \in Histories /\ history'.last = history.last
         /\ history'.answer = history.answer /\ history'.clean = history.clean
         /\ history'.told = [history.told EXCEPT
                               ![n] = IF failed THEN "failed" ELSE "saved"]
BY DEF Report, HistoryOK, Histories, Told

LEMMA AnswerFields ==
  ASSUME NEW past \in Histories, NEW n \in Nodes, NEW answer \in {"saved", "failed"},
         NEW next, next = [past EXCEPT !.answer[n] = answer]
  PROVE  /\ next \in Histories /\ next.last = past.last
         /\ next.clean = past.clean /\ next.told = past.told
         /\ next.answer = [past.answer EXCEPT ![n] = answer]
BY DEF Histories, Answers

(* A failed write of a node: it is not clean any more.                      *)
LEMMA FailedFields ==
  ASSUME HistoryOK, NEW n \in Nodes,
         NEW past, past = [history EXCEPT !.failures = @ + 1, !.clean[n] = FALSE]
  PROVE  /\ past \in Histories /\ past.last = history.last
         /\ past.answer = history.answer /\ past.told = history.told
         /\ past.clean = [history.clean EXCEPT ![n] = FALSE]
<1> DEFINE clean == [history.clean EXCEPT ![n] = FALSE]
<1>1. history \in Histories /\ history.failures + 1 \in Nat
  BY DEF HistoryOK, Histories
<1>2. clean \in [Nodes -> BOOLEAN]
  BY <1>1 DEF Histories
<1>3. past = [history EXCEPT !.failures = history.failures + 1, !.clean = clean]
  BY <1>1 DEF Histories
<1> HIDE DEF clean
<1>4. /\ past \in Histories /\ past.last = history.last
      /\ past.answer = history.answer /\ past.told = history.told
      /\ past.clean = clean
  BY <1>1, <1>2, <1>3 DEF Histories
<1>5. QED
  BY <1>4 DEF clean

LEMMA HistoryStep == TypeOK /\ HistoryOK /\ [Next]_vars => HistoryOK'
<1> SUFFICES ASSUME TypeOK, HistoryOK, [Next]_vars PROVE HistoryOK'
  OBVIOUS
<1>1. ASSUME NEW n \in Nodes, NEW place \in Place, persistPosition(n, place)
      PROVE  HistoryOK'
  BY <1>1, DropFields DEF HistoryOK
<1>2. ASSUME NEW spot, NEW here, DragGroup(spot, here) PROVE HistoryOK'
  BY <1>2, DragFields DEF HistoryOK
<1>3. ASSUME NEW n \in Nodes, settled(n) PROVE HistoryOK'
  <2>1. AfterAnswer(entries[n]).failure \in BOOLEAN
    BY AfterAnswerFields DEF TypeOK
  <2>2. history' = history \/ Report(n, AfterAnswer(entries[n]).failure)
    BY <1>3 DEF settled
  <2>3. QED
    BY <2>1, <2>2, ReportFields DEF HistoryOK
<1>4. ASSUME NEW c \in calls, patch_node_position(c) PROVE HistoryOK'
  <2>1. c \in NodeCall /\ c.node \in Nodes
    BY <1>4, CallKinds DEF patch_node_position, NodeCall
  <2>2. history' = history \/ history' = [history EXCEPT !.answer[c.node] = "saved"]
    BY <1>4 DEF patch_node_position, Answered
  <2>3. QED
    BY <2>1, <2>2, AnswerFields DEF HistoryOK
<1>5. ASSUME NEW c \in calls, Fails(c) PROVE HistoryOK'
  <2>1. CASE c.what = "node"
    <3> DEFINE past == [history EXCEPT !.failures = @ + 1, !.clean[c.node] = FALSE]
    <3>1. c \in NodeCall /\ c.node \in Nodes
      BY <2>1, CallKinds DEF NodeCall
    <3>2. past \in Histories
      BY <3>1, FailedFields
    <3>3. history' = past \/ history' = [past EXCEPT !.answer[c.node] = "failed"]
      BY <1>5, <2>1 DEF Fails, Answered
    <3> HIDE DEF past
    <3>4. QED
      BY <3>1, <3>2, <3>3, AnswerFields DEF HistoryOK
  <2>2. CASE c.what # "node"
    BY <1>5, <2>2, CountFields DEF Fails, HistoryOK
  <2>3. QED
    BY <2>1, <2>2
<1>6. ASSUME NEW load \in loads, LoadFails(load) PROVE HistoryOK'
  BY <1>6, CountFields DEF LoadFails, HistoryOK
<1>7. CASE UNCHANGED history
  BY <1>7 DEF HistoryOK
<1>8. ASSUME NEW spot \in Spots, NEW in \in BOOLEAN
      PROVE  [at |-> spot, in |-> in] \in Place
  BY PositionsAssumption DEF Place
<1>9. QED
  BY <1>1, <1>2, <1>3, <1>4, <1>5, <1>6, <1>7, <1>8
  DEF Next, Browser, Server, SyncBegins, GroupAnswered, ReadNode, ReadGroup,
      ReadMembers, ReadOnly, patch_group, ReadSnapshot, applySnapshot, vars

(* The types hold in every state, those of the history included.            *)
THEOREM PositionsTypeCorrect == Spec => [](TypeOK /\ HistoryOK)
<1>1. Init => TypeOK /\ HistoryOK
  <2> SUFFICES ASSUME Init PROVE TypeOK /\ HistoryOK
    OBVIOUS
  <2>1. store \in View /\ shown \in View
    BY DEF Init, View, Place
  <2>2. CallsOK /\ LoadsOK /\ gate \in Gate /\ error \in {"none", "group", "load"}
    BY DEF Init, CallsOK, LoadsOK, Gate
  <2>3. EntriesOK
    BY NoEntryFields, FewSuffice DEF Init, EntriesOK
  <2>4. HistoryOK
    BY NoPlaceType DEF Init, HistoryOK, Histories, Answers, Told
  <2>5. QED
    BY <2>1, <2>2, <2>3, <2>4, TypeParts
<1>2. QED
  BY <1>1, TypeStep, HistoryStep, PTL DEF Spec

(* The type invariant that the run checks.                                  *)
THEOREM PositionsTypes == Spec => []TypeOK
BY PositionsTypeCorrect, PTL

-----------------------------------------------------------------------------
(* The group's handlers.                                                    *)

LEMMA OvertakenNode ==
  ASSUME NEW c \in NodeCall, NEW fresh \in BOOLEAN,
         NEW d, d = [c EXCEPT !.fresh = fresh]
  PROVE  /\ d.what = "node" /\ d.node = c.node /\ d.to = c.to /\ d.read = c.read
         /\ d.phase = c.phase /\ d.awaited = c.awaited
BY DEF NodeCall

LEMMA OvertakenGroup ==
  ASSUME NEW c \in GroupCall, NEW fresh \in BOOLEAN,
         NEW d, d = [c EXCEPT !.fresh = fresh]
  PROVE  d.what = "group" /\ d.fresh = fresh /\ d.phase = c.phase
BY DEF GroupCall

(* A call that something was committed past: a write of a node is as it was, *)
(* and a group's handler that has read is not fresh.                         *)
LEMMA OvertakenFields ==
  ASSUME TypeOK, NEW others \in SUBSET calls, NEW d \in Overtaken(others)
  PROVE  \E c \in others :
           /\ d = [c EXCEPT !.fresh = c.phase \in {"sent", "saved", "refused"}]
           /\ d.what = c.what
           /\ c.what = "node" =>
                /\ d.node = c.node /\ d.to = c.to /\ d.read = c.read
                /\ d.phase = c.phase /\ d.awaited = c.awaited
           /\ c.what = "group" /\ d.fresh =>
                d.phase \in {"sent", "saved", "refused"}
<1>1. PICK c \in others :
        d = [c EXCEPT !.fresh = c.phase \in {"sent", "saved", "refused"}]
  BY DEF Overtaken
<1>2. (c.phase \in {"sent", "saved", "refused"}) \in BOOLEAN
  OBVIOUS
<1>3. CASE c \in NodeCall /\ c.what = "node"
  BY <1>1, <1>2, <1>3, OvertakenNode
<1>4. CASE c \in GroupCall /\ c.what = "group"
  BY <1>1, <1>2, <1>4, OvertakenGroup
<1>5. QED
  BY <1>3, <1>4, CallKinds

FreshRead(c, view) ==
  c.what = "group" /\ c.fresh =>
    /\ c.phase \in {"delta", "read"} => c.delta = c.to - view.group
    /\ c.phase = "read" => c.read = view.place

LEMMA FreshStep == TypeOK /\ FreshReads /\ [Next]_vars => FreshReads'
<1> SUFFICES ASSUME TypeOK, FreshReads, [Next]_vars PROVE FreshReads'
  OBVIOUS
<1>1. \A c \in calls : FreshRead(c, store)
  BY DEF FreshReads, FreshRead
<1>2. ASSUME \A c \in calls' : FreshRead(c, store') PROVE FreshReads'
  BY <1>2 DEF FreshReads, FreshRead
<1>3. ASSUME store' = store, \A c \in calls' : c \in calls \/ FreshRead(c, store)
      PROVE  FreshReads'
  BY <1>1, <1>2, <1>3
<1>4. ASSUME NEW n \in Nodes, NEW entry \in Entry, flush(n, entry), store' = store
      PROVE  FreshReads'
  <2>1. \A c \in calls' : c \in calls
                            \/ \E place \in entry.pending : c = Patch(n, place)
    BY <1>4, FlushFields
  <2>2. \A place \in entry.pending : Patch(n, place).what = "node"
    BY PatchFields DEF Entry
  <2>3. QED
    BY <1>3, <1>4, <2>1, <2>2 DEF FreshRead
<1>5. ASSUME NEW n \in Nodes, NEW place \in Place, persistPosition(n, place)
      PROVE  FreshReads'
  <2>1. schedule(entries[n], place) \in Entry
    BY ScheduleFields DEF TypeOK
  <2>2. QED
    BY <1>4, <1>5, <2>1 DEF persistPosition
<1>6. ASSUME NEW n \in Nodes, settled(n) PROVE FreshReads'
  <2>1. AfterAnswer(entries[n]) \in Entry
    BY AfterAnswerFields DEF TypeOK
  <2>2. CASE calls' = calls
    BY <1>3, <1>6, <2>2 DEF settled
  <2>3. QED
    BY <1>4, <1>6, <2>1, <2>2 DEF settled
<1>7. ASSUME NEW spot, NEW here, DragGroup(spot, here) PROVE FreshReads'
  <2> DEFINE call == [what |-> "group", here |-> here, to |-> spot, delta |-> 0,
         read |-> [n \in Nodes |-> NoPlace], id |-> history.drags,
         phase |-> "sent", fresh |-> TRUE]
  <2>1. calls' = calls \cup {call} /\ store' = store
    BY <1>7 DEF DragGroup
  <2>2. call.phase = "sent"
    OBVIOUS
  <2> HIDE DEF call
  <2>3. QED
    BY <1>3, <2>1, <2>2 DEF FreshRead
<1>8. ASSUME NEW c \in calls, NEW next, Step(c, next), store' = store,
             FreshRead(next, store)
      PROVE  FreshReads'
  BY <1>3, <1>8 DEF Step
<1>9. ASSUME NEW c \in calls, ReadNode(c) PROVE FreshReads'
  <2>1. c \in NodeCall
    BY <1>9, CallKinds DEF ReadNode
  <2>2. [c EXCEPT !.phase = "read", !.read = store.place[c.node]].what = "node"
    BY <2>1 DEF NodeCall
  <2>3. QED
    BY <1>8, <1>9, <2>2 DEF ReadNode, ReadOnly, FreshRead
<1>10. ASSUME NEW c \in calls, ReadGroup(c) PROVE FreshReads'
  <2> DEFINE next == [c EXCEPT !.phase = "delta", !.delta = c.to - store.group]
  <2>1. c \in GroupCall
    BY <1>10, CallKinds DEF ReadGroup
  <2>2. next.delta = next.to - store.group /\ next.phase = "delta"
    BY <2>1 DEF GroupCall
  <2>3. Step(c, next) /\ store' = store
    BY <1>10 DEF ReadGroup, ReadOnly
  <2> HIDE DEF next
  <2>4. QED
    BY <1>8, <2>2, <2>3 DEF FreshRead
<1>11. ASSUME NEW c \in calls, ReadMembers(c) PROVE FreshReads'
  <2> DEFINE next == [c EXCEPT !.phase = "read", !.read = store.place]
  <2>1. c \in GroupCall /\ c.phase = "delta" /\ c.what = "group"
    BY <1>11, CallKinds DEF ReadMembers
  <2>2. /\ next.delta = c.delta /\ next.to = c.to /\ next.fresh = c.fresh
        /\ next.read = store.place
    BY <2>1 DEF GroupCall
  <2>3. Step(c, next) /\ store' = store
    BY <1>11 DEF ReadMembers, ReadOnly
  <2> HIDE DEF next
  <2>4. QED
    BY <1>1, <1>8, <2>1, <2>2, <2>3 DEF FreshRead
<1>12. ASSUME NEW c \in Overtaken(calls) PROVE FreshRead(c, store')
  BY <1>12, OvertakenFields, CallKinds DEF FreshRead
<1>13. ASSUME NEW c \in calls, patch_node_position(c) \/ patch_group(c)
       PROVE  FreshReads'
  <2>1. Overtaken(calls \ {c}) \subseteq Overtaken(calls)
    BY DEF Overtaken
  <2>2. CASE calls' = Overtaken(calls \ {c})
    BY <1>2, <1>12, <2>1, <2>2
  <2>3. CASE calls' = Overtaken(calls \ {c}) \cup {[c EXCEPT !.phase = "saved"]}
             /\ c.what = "group"
    <3>1. c \in GroupCall
      BY <2>3, CallKinds
    <3>2. [c EXCEPT !.phase = "saved"].phase = "saved"
      BY <3>1 DEF GroupCall
    <3>3. FreshRead([c EXCEPT !.phase = "saved"], store')
      BY <3>2 DEF FreshRead
    <3>4. QED
      BY <1>2, <1>12, <2>1, <2>3, <3>3
  <2>4. QED
    BY <1>13, <2>2, <2>3 DEF patch_node_position, patch_group
<1>14. ASSUME NEW c \in calls, Fails(c) PROVE FreshReads'
  <2>1. store' = store
    BY <1>14 DEF Fails
  <2>2. CASE calls' = calls \ {c}
    BY <1>3, <2>1, <2>2
  <2>3. CASE c \in NodeCall /\ Step(c, [c EXCEPT !.awaited = FALSE])
    <3>1. [c EXCEPT !.awaited = FALSE].what = "node"
      BY <2>3 DEF NodeCall
    <3>2. QED
      BY <1>8, <2>1, <2>3, <3>1 DEF FreshRead
  <2>4. CASE c \in GroupCall /\ Step(c, [c EXCEPT !.phase = "refused"])
    <3>1. [c EXCEPT !.phase = "refused"].phase = "refused"
      BY <2>4 DEF GroupCall
    <3>2. QED
      BY <1>8, <2>1, <2>4, <3>1 DEF FreshRead
  <2>5. CASE c \in GroupCall /\ Step(c, [c EXCEPT !.here = FALSE])
    <3> DEFINE next == [c EXCEPT !.here = FALSE]
    <3>1. /\ next.what = c.what /\ next.fresh = c.fresh /\ next.phase = c.phase
          /\ next.delta = c.delta /\ next.to = c.to /\ next.read = c.read
      BY <2>5 DEF GroupCall
    <3> HIDE DEF next
    <3>2. FreshRead(next, store)
      BY <1>1, <3>1 DEF FreshRead
    <3>3. QED
      BY <1>8, <2>1, <2>5, <3>2 DEF next
  <2>6. QED
    BY <1>14, <2>2, <2>3, <2>4, <2>5, CallKinds DEF Fails
<1>15. ASSUME NEW c \in calls, GroupAnswered(c) PROVE FreshReads'
  BY <1>3, <1>15 DEF GroupAnswered
<1>16. CASE UNCHANGED <<calls, store>>
  BY <1>16 DEF FreshReads
<1>17. ASSUME NEW spot \in Spots, NEW in \in BOOLEAN
       PROVE  [at |-> spot, in |-> in] \in Place
  BY PositionsAssumption DEF Place
<1>18. QED
  BY <1>5, <1>6, <1>7, <1>9, <1>10, <1>11, <1>13, <1>14, <1>15, <1>16, <1>17
  DEF Next, Browser, Server, SyncBegins, ReadSnapshot, applySnapshot, LoadFails, vars

Follow ==
  \A c \in calls :
    c.what = "group" /\ c.fresh /\ patch_group(c) =>
      \A n \in Nodes : store.place[n].in =>
        store'.place[n].at - store'.group = store.place[n].at - store.group

LEMMA FollowStep == TypeOK /\ FreshReads => Follow
<1> SUFFICES ASSUME TypeOK, FreshReads,
                    NEW c \in calls, c.what = "group", c.fresh, patch_group(c),
                    NEW n \in Nodes, store.place[n].in
             PROVE  store'.place[n].at - store'.group
                      = store.place[n].at - store.group
  BY DEF Follow
<1>1. c \in GroupCall /\ c.to \in Int /\ c.delta \in Int
  BY CallKinds DEF GroupCall
<1>2. c.read = store.place /\ c.delta = c.to - store.group
  BY DEF FreshReads, patch_group
<1>3. /\ store \in View /\ store.place \in [Nodes -> Place] /\ store.group \in Int
      /\ store.place[n] \in Place /\ store.place[n].at \in Int
  BY StoreFields DEF TypeOK, Place
<1>4. store' = Moved(c)
  BY DEF patch_group
<1>5. CASE c.delta = 0
  <2>1. Moved(c).group = store.group
    BY <1>3, <1>5 DEF Moved, View
  <2>2. Moved(c).place[n] = store.place[n]
    BY <1>3, <1>5 DEF Moved, View
  <2>3. QED
    BY <1>4, <2>1, <2>2
<1>6. CASE c.delta # 0
  <2>1. Moved(c).group = c.to
    BY <1>3, <1>6 DEF Moved, View
  <2>2. Moved(c).place[n] = [store.place[n] EXCEPT !.at = store.place[n].at + c.delta]
    BY <1>2, <1>3, <1>6 DEF Moved, View
  <2>3. Moved(c).place[n].at = store.place[n].at + c.delta
    BY <1>3, <2>2 DEF Place
  <2>4. QED
    BY <1>1, <1>2, <1>3, <1>4, <2>1, <2>3
<1>7. QED
  BY <1>5, <1>6

(* What a group's handler that nothing overtook holds is what is stored.    *)
THEOREM FreshIsStored == Spec => []FreshReads
<1>1. Init => FreshReads
  BY DEF Init, FreshReads
<1>2. QED
  BY <1>1, PositionsTypeCorrect, FreshStep, PTL DEF Spec

(* A member keeps its place in the group when the group moves, unless the    *)
(* handler was overtaken between its reads and its commit.                   *)
THEOREM MembersKeepTheirPlace == Spec => MembersFollow
<1>1. TypeOK /\ FreshReads /\ [Next]_vars => [Follow]_vars
  BY FollowStep
<1>2. QED
  BY <1>1, PositionsTypeCorrect, FreshIsStored, PTL DEF Spec, MembersFollow, Follow

-----------------------------------------------------------------------------
(* The drags of nodes.                                                      *)

Same(d, c) ==
  /\ d.what = "node" /\ c.what = "node" /\ d.node = c.node
  /\ d.to = c.to /\ d.read = c.read /\ d.phase = c.phase /\ d.awaited = c.awaited

(* A step that bears on nothing of a node keeps its invariant.              *)
LEMMA Undisturbed ==
  ASSUME NEW n \in Nodes, NodeInv(n), entries'[n] = entries[n],
         history'.last[n] = history.last[n],
         history'.answer[n] = history.answer[n],
         history'.told[n] = history.told[n],
         history'.clean[n] => history.clean[n],
         \A d \in calls' : OfNode(d, n) => \E c \in calls : Same(d, c),
         history'.clean[n] => /\ \A d \in calls' : d.what = "node"
                              /\ store'.place[n] = store.place[n]
  PROVE  NodeInv(n)'
<1>1. Waiting(n)'
  BY DEF NodeInv, Waiting, Same, OfNode
<1>2. AnswerKept(n)'
  BY DEF NodeInv, AnswerKept
<1>3. DropTracked(n)'
  <2> SUFFICES ASSUME history'.clean[n] PROVE DropTracked(n)'
    BY DEF DropTracked
  <2>1. /\ \A c \in calls : c.what = "node" /\ (c.node = n => c.awaited)
        /\ entries[n].pending \subseteq {history.last[n]}
        /\ entries[n].pending = {} =>
             /\ \A c \in calls : OfNode(c, n) =>
                  /\ c.to = history.last[n]
                  /\ c.phase = "read" => c.read = store.place[n]
             /\ entries[n].answer = "saved" \/ history.told[n] = "saved" =>
                  store.place[n] = history.last[n]
    BY DEF NodeInv, DropTracked
  <2>2. \A d \in calls' : d.what = "node" /\ (d.node = n => d.awaited)
    BY <2>1 DEF Same, OfNode
  <2>3. ASSUME entries[n].pending = {}, NEW d \in calls', OfNode(d, n)
        PROVE  /\ d.to = history.last[n]
               /\ d.phase = "read" => d.read = store.place[n]
    BY <2>1, <2>3 DEF Same, OfNode
  <2>4. QED
    BY <2>1, <2>2, <2>3 DEF DropTracked
<1>4. QED
  BY <1>1, <1>2, <1>3 DEF NodeInv

(* Sending a node's position when none of its writes is awaited.            *)
LEMMA SendAwaitedOnce ==
  ASSUME AwaitedOnce, NEW n \in Nodes, NEW place \in Place,
         calls' = calls \cup {Patch(n, place)},
         \A c \in calls : OfNode(c, n) => ~c.awaited
  PROVE  AwaitedOnce'
<1>1. OfNode(Patch(n, place), n)
      /\ \A k \in Nodes : OfNode(Patch(n, place), k) => k = n
  BY PatchFields DEF OfNode
<1>2. QED
  BY <1>1 DEF AwaitedOnce

LEMMA PendingOne ==
  ASSUME NEW set, \A p, q \in set : p = q, set # {}
  PROVE  \E p \in set : set = {p}
OBVIOUS

LEMMA DropKeeps ==
  ASSUME TypeOK, HistoryOK, DropInv, NEW k \in Nodes, NEW place \in Place,
         persistPosition(k, place)
  PROVE  DropInv'
<1> DEFINE entry == schedule(entries[k], place)
<1>1. /\ entry \in Entry /\ entry.pending = {place}
      /\ entry.inFlight = entries[k].inFlight /\ entry.answer = entries[k].answer
  BY ScheduleFields DEF TypeOK
<1>2. PICK left \in Entry :
           /\ entries' = [entries EXCEPT ![k] = left]
           /\ left.answer = entry.answer
           /\ \/ /\ entry.inFlight \/ entry.pending = {}
                 /\ left = entry /\ calls' = calls
              \/ /\ ~entry.inFlight
                 /\ left.pending = {} /\ left.inFlight
                 /\ calls' = calls \cup {Patch(k, p) : p \in entry.pending}
  BY <1>1, FlushFields DEF persistPosition
<1> HIDE DEF entry
<1>3. entries'[k] = left /\ \A n \in Nodes : n # k => entries'[n] = entries[n]
  BY <1>2 DEF TypeOK
<1>4. /\ history'.last[k] = place /\ history'.told[k] = "nothing"
      /\ history'.answer = history.answer
      /\ history'.clean[k] =>
           \A c \in calls : c.what = "node" /\ (c.node = k => c.awaited)
      /\ \A n \in Nodes : n # k =>
           /\ history'.last[n] = history.last[n]
           /\ history'.told[n] = history.told[n]
           /\ history'.clean[n] = history.clean[n]
  <2>1. /\ history'.last = [history.last EXCEPT ![k] = place]
        /\ history'.told = [history.told EXCEPT ![k] = "nothing"]
        /\ history'.answer = history.answer
        /\ \A n \in Nodes : n # k => history'.clean[n] = history.clean[n]
        /\ history'.clean[k] =>
             \A c \in calls : c.what = "node" /\ (c.node = k => c.awaited)
    BY DropFields
  <2>2. history.last \in [Nodes -> Place] /\ history.told \in [Nodes -> Told]
    BY DEF HistoryOK, Histories
  <2>3. /\ history'.last[k] = place /\ history'.told[k] = "nothing"
        /\ \A n \in Nodes : n # k =>
             history'.last[n] = history.last[n] /\ history'.told[n] = history.told[n]
    BY <2>1, <2>2
  <2>4. QED
    BY <2>1, <2>3
<1>5. store' = store
  BY DEF persistPosition
<1>6. /\ Patch(k, place).what = "node" /\ Patch(k, place).node = k
      /\ Patch(k, place).to = place /\ Patch(k, place).phase = "sent"
  BY PatchFields
<1>7. Waiting(k) /\ AnswerKept(k)
  BY DEF DropInv, NodeInv
<1>8. ASSUME NEW n \in Nodes, n # k PROVE NodeInv(n)'
  <2>1. \A d \in calls' : d \in calls \/ d = Patch(k, place)
    BY <1>1, <1>2
  <2>2. \A d \in calls' : OfNode(d, n) => d \in calls
    BY <1>6, <1>8, <2>1 DEF OfNode
  <2>3. history'.clean[n] => \A d \in calls' : d.what = "node"
    BY <1>4, <1>6, <1>8, <2>1 DEF DropInv, NodeInv, DropTracked
  <2>4. NodeInv(n)
    BY DEF DropInv
  <2>5. QED
    BY <1>3, <1>4, <1>5, <1>8, <2>2, <2>3, <2>4, Undisturbed DEF Same, OfNode
<1>9. CASE entries[k].inFlight
  <2>1. left = entry /\ calls' = calls
    BY <1>1, <1>2, <1>9
  <2>2. Waiting(k)'
    <3>1. /\ entries'[k].pending = {place} /\ entries'[k].inFlight
          /\ entries'[k].answer = entries[k].answer
      BY <1>1, <1>3, <1>9, <2>1
    <3>2. \A c \in calls : OfNode(c, k) /\ c.awaited => entries[k].answer = "none"
      BY <1>7 DEF Waiting
    <3>3. \A c \in calls' : OfNode(c, k) /\ c.awaited => entries'[k].answer = "none"
      BY <2>1, <3>1, <3>2
    <3>4. \A p, q \in entries'[k].pending : p = q
      BY <3>1
    <3>5. QED
      BY <3>1, <3>3, <3>4 DEF Waiting
  <2>3. AnswerKept(k)'
    BY <1>1, <1>3, <1>4, <1>7, <2>1 DEF AnswerKept
  <2>4. DropTracked(k)'
    BY <1>1, <1>3, <1>4, <2>1 DEF DropTracked
  <2>5. AwaitedOnce'
    BY <2>1 DEF DropInv, AwaitedOnce
  <2>6. QED
    BY <1>8, <2>2, <2>3, <2>4, <2>5 DEF DropInv, NodeInv
<1>10. CASE ~entries[k].inFlight
  <2>1. left.pending = {} /\ left.inFlight /\ left.answer = "none"
    BY <1>1, <1>2, <1>7, <1>10 DEF Waiting
  <2>2. calls' = calls \cup {Patch(k, place)}
    BY <1>1, <1>2, <1>10
  <2>3. \A c \in calls : OfNode(c, k) => ~c.awaited
    BY <1>7, <1>10 DEF Waiting
  <2>4. AwaitedOnce'
    BY <2>2, <2>3, SendAwaitedOnce DEF DropInv
  <2>5. Waiting(k)'
    BY <1>3, <2>1 DEF Waiting
  <2>6. AnswerKept(k)'
    BY <1>3, <1>4, <2>1 DEF AnswerKept
  <2>7. DropTracked(k)'
    <3>1. history'.clean[k] => \A c \in calls : ~OfNode(c, k)
      BY <1>4, <2>3 DEF OfNode
    <3>2. Patch(k, place).awaited
      BY PatchFields
    <3>3. QED
      BY <1>3, <1>4, <1>6, <2>1, <2>2, <3>1, <3>2 DEF DropTracked
  <2>8. QED
    BY <1>8, <2>4, <2>5, <2>6, <2>7 DEF DropInv, NodeInv
<1>11. QED
  BY <1>9, <1>10
LEMMA SettledKeeps ==
  ASSUME TypeOK, HistoryOK, DropInv, NEW k \in Nodes, settled(k)
  PROVE  DropInv'
<1> DEFINE entry == AfterAnswer(entries[k])
<1>1. /\ entry \in Entry /\ entry.pending = entries[k].pending /\ ~entry.inFlight
      /\ entry.answer = "none" /\ entry.failure = (entries[k].answer = "failed")
      /\ entries[k] \in Entry
  BY AfterAnswerFields DEF TypeOK
<1>2. /\ entries[k].answer # "none" /\ store' = store
      /\ \/ /\ entry.pending # {} /\ flush(k, entry) /\ history' = history
         \/ /\ entry.pending = {} /\ entries' = [entries EXCEPT ![k] = NoEntry]
            /\ Report(k, entry.failure) /\ calls' = calls
  BY DEF settled
<1> HIDE DEF entry
<1>3. /\ AwaitedOnce /\ Waiting(k) /\ AnswerKept(k) /\ DropTracked(k)
      /\ \A n \in Nodes : NodeInv(n)
  BY DEF DropInv, NodeInv
<1>4. \A c \in calls : OfNode(c, k) => ~c.awaited
  BY <1>2, <1>3 DEF Waiting
<1>5. history.told[k] = "nothing"
  BY <1>2, <1>3, NoEntryFields DEF AnswerKept
<1>6. history.clean[k] => \A c \in calls : c.what = "node" /\ ~OfNode(c, k)
  BY <1>3, <1>4 DEF DropTracked, OfNode
<1>7. CASE entry.pending # {}
  <2>1. PICK p \in Place : entry.pending = {p}
    <3>1. \A p, q \in entry.pending : p = q
      BY <1>1, <1>3 DEF Waiting
    <3>2. PICK p : entry.pending = {p}
      BY <1>7, <3>1, PendingOne
    <3>3. p \in Place
      BY <1>1, <3>2 DEF Entry
    <3>4. QED
      BY <3>2, <3>3
  <2>2. history' = history
    BY <1>2, <1>7
  <2>3. PICK left \in Entry :
             /\ entries' = [entries EXCEPT ![k] = left]
             /\ left.answer = "none" /\ left.pending = {} /\ left.inFlight
             /\ calls' = calls \cup {Patch(k, place) : place \in entry.pending}
    BY <1>1, <1>2, <1>7, FlushFields
  <2>4. calls' = calls \cup {Patch(k, p)}
    BY <2>1, <2>3
  <2>5. /\ Patch(k, p).what = "node" /\ Patch(k, p).node = k
        /\ Patch(k, p).to = p /\ Patch(k, p).phase = "sent" /\ Patch(k, p).awaited
    BY PatchFields
  <2>6. entries'[k] = left /\ \A n \in Nodes : n # k => entries'[n] = entries[n]
    BY <2>3 DEF TypeOK
  <2>7. AwaitedOnce'
    BY <1>3, <1>4, <2>4, SendAwaitedOnce
  <2>8. Waiting(k)'
    BY <2>3, <2>6 DEF Waiting
  <2>9. AnswerKept(k)'
    BY <1>5, <2>2, <2>3, <2>6 DEF AnswerKept
  <2>10. DropTracked(k)'
    <3> SUFFICES ASSUME history.clean[k] PROVE DropTracked(k)'
      BY <2>2 DEF DropTracked
    <3>1. p = history.last[k]
      BY <1>1, <1>3, <2>1 DEF DropTracked
    <3>2. \A d \in calls' : d.what = "node" /\ (d.node = k => d = Patch(k, p))
      BY <1>6, <2>4, <2>5 DEF OfNode
    <3>3. QED
      BY <1>5, <2>2, <2>3, <2>5, <2>6, <3>1, <3>2 DEF DropTracked, OfNode
  <2>11. ASSUME NEW n \in Nodes, n # k PROVE NodeInv(n)'
    <3>1. \A d \in calls' : OfNode(d, n) => d \in calls
      BY <2>4, <2>5, <2>11 DEF OfNode
    <3>2. history'.clean[n] => \A d \in calls' : d.what = "node"
      BY <1>3, <2>2, <2>4, <2>5 DEF NodeInv, DropTracked
    <3>3. QED
      BY <1>2, <1>3, <2>2, <2>6, <2>11, <3>1, <3>2, Undisturbed DEF Same, OfNode
  <2>12. QED
    BY <2>7, <2>8, <2>9, <2>10, <2>11 DEF DropInv, NodeInv
<1>8. CASE entry.pending = {}
  <2>1. /\ entries' = [entries EXCEPT ![k] = NoEntry] /\ calls' = calls
        /\ Report(k, entry.failure)
    BY <1>2, <1>8
  <2>2. /\ history'.last = history.last /\ history'.answer = history.answer
        /\ history'.clean = history.clean
        /\ history'.told = [history.told EXCEPT
                              ![k] = IF entry.failure THEN "failed" ELSE "saved"]
    BY <1>1, <2>1, ReportFields DEF Entry
  <2>3. history.told \in [Nodes -> Told]
    BY DEF HistoryOK, Histories
  <2>4. /\ history'.told[k] = IF entry.failure THEN "failed" ELSE "saved"
        /\ \A n \in Nodes : n # k => history'.told[n] = history.told[n]
    BY <2>2, <2>3
  <2>5. entries'[k] = NoEntry /\ \A n \in Nodes : n # k => entries'[n] = entries[n]
    BY <2>1 DEF TypeOK
  <2>6. entries[k].answer \in {"saved", "failed"}
    BY <1>1, <1>2 DEF Entry
  <2>7. history'.told[k] = entries[k].answer
    BY <1>1, <2>4, <2>6
  <2>8. Waiting(k)'
    BY <1>4, <2>1, <2>5, NoEntryFields DEF Waiting
  <2>9. AnswerKept(k)'
    BY <1>2, <1>3, <2>2, <2>5, <2>7, NoEntryFields DEF AnswerKept
  <2>10. DropTracked(k)'
    <3> SUFFICES ASSUME history.clean[k] PROVE DropTracked(k)'
      BY <2>2 DEF DropTracked
    <3>1. entries[k].answer = "saved" => store.place[k] = history.last[k]
      BY <1>1, <1>3, <1>8 DEF DropTracked
    <3>2. QED
      BY <1>2, <1>6, <2>1, <2>2, <2>5, <2>7, <3>1, NoEntryFields
      DEF DropTracked, OfNode
  <2>11. ASSUME NEW n \in Nodes, n # k PROVE NodeInv(n)'
    <3>1. history'.clean[n] => \A d \in calls' : d.what = "node"
      BY <1>3, <2>1, <2>2 DEF NodeInv, DropTracked
    <3>2. QED
      BY <1>2, <1>3, <2>1, <2>2, <2>4, <2>5, <2>11, <3>1, Undisturbed
      DEF Same, OfNode
  <2>12. AwaitedOnce'
    BY <1>3, <2>1 DEF AwaitedOnce
  <2>13. QED
    BY <2>8, <2>9, <2>10, <2>11, <2>12 DEF DropInv, NodeInv
<1>9. QED
  BY <1>7, <1>8

(* A commit leaves one awaited write of a node, and those of nodes the same. *)
LEMMA OvertakenCalls ==
  ASSUME TypeOK, AwaitedOnce, NEW others \in SUBSET calls
  PROVE  /\ \A d \in Overtaken(others) : d.what = "node" =>
              \E c \in others : Same(d, c)
         /\ \A d \in Overtaken(others) : \E c \in others : d.what = c.what
         /\ \A n \in Nodes : \A d, e \in Overtaken(others) :
              OfNode(d, n) /\ OfNode(e, n) /\ d.awaited /\ e.awaited => d = e
<1>1. \A d \in Overtaken(others) : \E c \in others : d.what = c.what
  BY OvertakenFields
<1>2. \A d \in Overtaken(others) : d.what = "node" =>
        \E c \in others : /\ Same(d, c)
                          /\ d = [c EXCEPT !.fresh =
                                    c.phase \in {"sent", "saved", "refused"}]
  BY OvertakenFields DEF Same
<1>3. ASSUME NEW n \in Nodes, NEW d \in Overtaken(others), NEW e \in Overtaken(others),
             OfNode(d, n), OfNode(e, n), d.awaited, e.awaited
      PROVE  d = e
  <2>1. PICK b \in others : /\ Same(d, b)
                            /\ d = [b EXCEPT !.fresh =
                                      b.phase \in {"sent", "saved", "refused"}]
    BY <1>2, <1>3 DEF OfNode
  <2>2. PICK c \in others : /\ Same(e, c)
                            /\ e = [c EXCEPT !.fresh =
                                      c.phase \in {"sent", "saved", "refused"}]
    BY <1>2, <1>3 DEF OfNode
  <2>3. b = c
    BY <1>3, <2>1, <2>2 DEF AwaitedOnce, Same, OfNode
  <2>4. QED
    BY <2>1, <2>2, <2>3
<1>4. QED
  BY <1>1, <1>2, <1>3

LEMMA PatchKeeps ==
  ASSUME TypeOK, HistoryOK, DropInv, NEW c \in calls, patch_node_position(c)
  PROVE  DropInv'
<1> DEFINE k == c.node
<1>1. c \in NodeCall /\ c.what = "node" /\ c.phase = "read" /\ k \in Nodes
  BY CallKinds DEF patch_node_position, NodeCall
<1>2. calls' = Overtaken(calls \ {c}) /\ Answered(c, "saved", history)
  BY DEF patch_node_position
<1>3. /\ \A n \in Nodes : /\ entries'[n].pending = entries[n].pending
                          /\ entries'[n].inFlight = entries[n].inFlight
                          /\ IF c.awaited /\ n = k
                             THEN entries'[n].answer = "saved"
                             ELSE entries'[n] = entries[n]
      /\ history' = IF c.awaited THEN [history EXCEPT !.answer[k] = "saved"]
                    ELSE history
  BY <1>1, <1>2, AnsweredFields
<1>4. /\ \A n \in Nodes : n # k => store'.place[n] = store.place[n]
      /\ c.read = store.place[k] => store'.place[k] = c.to
  BY <1>1, PatchedStore
<1>5. /\ history'.last = history.last /\ history'.clean = history.clean
      /\ history'.told = history.told
      /\ \A n \in Nodes : history'.answer[n] =
           IF c.awaited /\ n = k THEN "saved" ELSE history.answer[n]
  <2>1. CASE c.awaited
    <3>1. history' = [history EXCEPT !.answer[k] = "saved"]
      BY <1>3, <2>1
    <3>2. /\ history'.last = history.last /\ history'.clean = history.clean
          /\ history'.told = history.told
          /\ history'.answer = [history.answer EXCEPT ![k] = "saved"]
      BY <1>1, <3>1, AnswerFields DEF HistoryOK
    <3>3. history.answer \in [Nodes -> Answers]
      BY DEF HistoryOK, Histories
    <3>4. QED
      BY <1>1, <2>1, <3>2, <3>3
  <2>2. CASE ~c.awaited
    BY <1>3, <2>2
  <2>3. QED
    BY <2>1, <2>2
<1>6. /\ AwaitedOnce /\ Waiting(k) /\ AnswerKept(k) /\ DropTracked(k)
      /\ \A n \in Nodes : NodeInv(n)
  BY <1>1 DEF DropInv, NodeInv
<1>7. /\ \A d \in calls' : d.what = "node" =>
           \E e \in calls \ {c} : Same(d, e)
      /\ \A d \in calls' : \E e \in calls \ {c} : d.what = e.what
      /\ AwaitedOnce'
  BY <1>2, <1>6, OvertakenCalls DEF AwaitedOnce
<1>8. ASSUME NEW n \in Nodes, n # k \/ ~c.awaited PROVE NodeInv(n)'
  <2>1. entries'[n] = entries[n] /\ history'.answer[n] = history.answer[n]
    BY <1>3, <1>5, <1>8
  <2>2. \A d \in calls' : OfNode(d, n) => \E e \in calls : Same(d, e)
    BY <1>7 DEF OfNode
  <2>3. history.clean[n] => n # k
    BY <1>1, <1>6, <1>8 DEF DropTracked
  <2>4. history.clean[n] => \A d \in calls' : d.what = "node"
    BY <1>6, <1>7 DEF NodeInv, DropTracked
  <2>5. QED
    BY <1>4, <1>5, <1>6, <2>1, <2>2, <2>3, <2>4, Undisturbed
<1>9. CASE c.awaited
  <2>1. \A d \in calls' : OfNode(d, k) => ~d.awaited
    BY <1>1, <1>6, <1>7, <1>9 DEF AwaitedOnce, Same, OfNode
  <2>2. entries[k].inFlight
    BY <1>1, <1>6, <1>9 DEF Waiting, OfNode
  <2>3. /\ entries'[k].pending = entries[k].pending /\ entries'[k].inFlight
        /\ entries'[k].answer = "saved" /\ history'.answer[k] = "saved"
    BY <1>1, <1>3, <1>5, <1>9, <2>2
  <2>4. Waiting(k)'
    BY <1>6, <2>1, <2>3 DEF Waiting
  <2>5. AnswerKept(k)'
    BY <1>5, <1>6, <2>2, <2>3, NoEntryFields DEF AnswerKept
  <2>6. DropTracked(k)'
    <3> SUFFICES ASSUME history.clean[k] PROVE DropTracked(k)'
      BY <1>5 DEF DropTracked
    <3>1. /\ \A d \in calls : d.what = "node" /\ (d.node = k => d.awaited)
          /\ entries[k].pending \subseteq {history.last[k]}
      BY <1>6 DEF DropTracked
    <3>2. \A d \in calls' : d.what = "node" /\ d.node # k
      BY <1>7, <2>1, <3>1 DEF Same, OfNode
    <3>3. entries[k].pending = {} => store'.place[k] = history.last[k]
      BY <1>1, <1>4, <1>6 DEF DropTracked, OfNode
    <3>4. QED
      BY <1>5, <2>3, <3>1, <3>2, <3>3 DEF DropTracked, OfNode
  <2>7. QED
    BY <1>1, <1>7, <1>8, <2>4, <2>5, <2>6 DEF DropInv, NodeInv
<1>10. QED
  BY <1>7, <1>8, <1>9 DEF DropInv
LEMMA ReadNodeKeeps ==
  ASSUME TypeOK, DropInv, NEW c \in calls, ReadNode(c)
  PROVE  DropInv'
<1> DEFINE k == c.node
           next == [c EXCEPT !.phase = "read", !.read = store.place[k]]
<1>1. c \in NodeCall /\ c.what = "node" /\ k \in Nodes
  BY CallKinds DEF ReadNode, NodeCall
<1>2. /\ next.what = "node" /\ next.node = k /\ next.to = c.to
      /\ next.awaited = c.awaited /\ next.read = store.place[k]
  BY <1>1 DEF NodeCall
<1>3. /\ calls' = (calls \ {c}) \cup {next}
      /\ entries' = entries /\ history' = history /\ store' = store
  BY DEF ReadNode, Step, ReadOnly
<1> HIDE DEF next
<1>4. /\ AwaitedOnce /\ Waiting(k) /\ AnswerKept(k) /\ DropTracked(k)
      /\ \A n \in Nodes : NodeInv(n)
  BY <1>1 DEF DropInv, NodeInv
<1>5. ASSUME NEW n \in Nodes, n # k PROVE NodeInv(n)'
  <2>1. \A d \in calls' : OfNode(d, n) => d \in calls
    BY <1>2, <1>3, <1>5 DEF OfNode
  <2>2. history'.clean[n] => \A d \in calls' : d.what = "node"
    BY <1>2, <1>3, <1>4 DEF NodeInv, DropTracked
  <2>3. QED
    BY <1>3, <1>4, <2>1, <2>2, Undisturbed DEF Same, OfNode
<1>6. \A d \in calls' : \E e \in calls :
        /\ d.what = e.what /\ (d.what = "node" => d.node = e.node)
        /\ OfNode(d, k) => d.awaited = e.awaited
  BY <1>1, <1>2, <1>3 DEF OfNode
<1>7. Waiting(k)'
  BY <1>3, <1>4, <1>6 DEF Waiting, OfNode
<1>8. AnswerKept(k)'
  BY <1>3, <1>4 DEF AnswerKept
<1>9. DropTracked(k)'
  <2> SUFFICES ASSUME history.clean[k] PROVE DropTracked(k)'
    BY <1>3 DEF DropTracked
  <2>1. \A d \in calls : d.what = "node" /\ (d.node = k => d.awaited)
    BY <1>4 DEF DropTracked
  <2>2. \A d \in calls' : d.what = "node" /\ (d.node = k => d.awaited)
    BY <1>1, <1>2, <1>3, <2>1
  <2>3. ASSUME entries[k].pending = {}, NEW d \in calls', OfNode(d, k)
        PROVE  d.to = history.last[k] /\ (d.phase = "read" => d.read = store.place[k])
    <3>1. \A e \in calls : OfNode(e, k) =>
            /\ e.to = history.last[k]
            /\ e.phase = "read" => e.read = store.place[k]
      BY <1>4, <2>3 DEF DropTracked
    <3>2. CASE d = next
      BY <1>1, <1>2, <3>1, <3>2 DEF OfNode
    <3>3. CASE d \in calls
      BY <2>3, <3>1, <3>3
    <3>4. QED
      BY <1>3, <3>2, <3>3
  <2>4. QED
    BY <1>3, <1>4, <2>2, <2>3 DEF DropTracked
<1>10. AwaitedOnce'
  <2> SUFFICES ASSUME NEW n \in Nodes, NEW d \in calls', NEW e \in calls',
                      OfNode(d, n), OfNode(e, n), d.awaited, e.awaited
               PROVE  d = e
    BY DEF AwaitedOnce
  <2>1. CASE d \in calls \ {c} /\ e \in calls \ {c}
    BY <1>4, <2>1 DEF AwaitedOnce
  <2>2. CASE d = next \/ e = next
    <3>1. n = k /\ c.awaited /\ OfNode(c, k)
      BY <1>1, <1>2, <2>2 DEF OfNode
    <3>2. \A b \in calls \ {c} : OfNode(b, k) => ~b.awaited
      BY <1>4, <3>1 DEF AwaitedOnce
    <3>3. QED
      BY <1>3, <3>1, <3>2
  <2>3. QED
    BY <1>3, <2>1, <2>2
<1>11. QED
  BY <1>1, <1>5, <1>7, <1>8, <1>9, <1>10 DEF DropInv, NodeInv

LEMMA FailedNodeKeeps ==
  ASSUME TypeOK, HistoryOK, DropInv, NEW c \in calls, c.what = "node", Fails(c)
  PROVE  DropInv'
<1> DEFINE k == c.node
           past == [history EXCEPT !.failures = @ + 1, !.clean[k] = FALSE]
           next == [c EXCEPT !.awaited = FALSE]
<1>1. c \in NodeCall /\ k \in Nodes
  BY CallKinds DEF NodeCall
<1>2. next.what = "node" /\ next.node = k /\ ~next.awaited
  BY <1>1 DEF NodeCall
<1>3. /\ past \in Histories /\ past.last = history.last
      /\ past.answer = history.answer /\ past.told = history.told
      /\ past.clean = [history.clean EXCEPT ![k] = FALSE]
  BY <1>1, FailedFields
<1>4. /\ \/ calls' = calls \ {c}
         \/ c.awaited /\ calls' = (calls \ {c}) \cup {next}
      /\ Answered(c, "failed", past) /\ store' = store
  BY DEF Fails, Step
<1> HIDE DEF next, past
<1>5. /\ \A n \in Nodes : /\ entries'[n].pending = entries[n].pending
                          /\ entries'[n].inFlight = entries[n].inFlight
                          /\ IF c.awaited /\ n = k
                             THEN entries'[n].answer = "failed"
                             ELSE entries'[n] = entries[n]
      /\ history' = IF c.awaited THEN [past EXCEPT !.answer[k] = "failed"]
                    ELSE past
  BY <1>1, <1>4, AnsweredFields
<1>6. /\ history'.last = history.last /\ history'.clean = past.clean
      /\ history'.told = history.told
      /\ \A n \in Nodes : history'.answer[n] =
           IF c.awaited /\ n = k THEN "failed" ELSE history.answer[n]
  <2>1. CASE c.awaited
    <3>1. history' = [past EXCEPT !.answer[k] = "failed"]
      BY <1>5, <2>1
    <3>2. /\ history'.last = past.last /\ history'.clean = past.clean
          /\ history'.told = past.told
          /\ history'.answer = [past.answer EXCEPT ![k] = "failed"]
      BY <1>1, <1>3, <3>1, AnswerFields
    <3>3. history.answer \in [Nodes -> Answers]
      BY DEF HistoryOK, Histories
    <3>4. QED
      BY <1>1, <1>3, <2>1, <3>2, <3>3
  <2>2. CASE ~c.awaited
    BY <1>3, <1>5, <2>2
  <2>3. QED
    BY <2>1, <2>2
<1>7. ~history'.clean[k] /\ \A n \in Nodes : n # k => history'.clean[n] = history.clean[n]
  <2>1. history.clean \in [Nodes -> BOOLEAN]
    BY DEF HistoryOK, Histories
  <2>2. QED
    BY <1>1, <1>3, <1>6, <2>1
<1>8. /\ AwaitedOnce /\ Waiting(k) /\ AnswerKept(k)
      /\ \A n \in Nodes : NodeInv(n)
  BY <1>1 DEF DropInv, NodeInv
<1>9. \A d \in calls' : d \in calls \ {c} \/ (d = next /\ c.awaited)
  BY <1>4
<1>10. AwaitedOnce'
  BY <1>2, <1>8, <1>9 DEF AwaitedOnce
<1>11. ASSUME NEW n \in Nodes, n # k \/ ~c.awaited PROVE NodeInv(n)'
  <2>1. entries'[n] = entries[n] /\ history'.answer[n] = history.answer[n]
    BY <1>5, <1>6, <1>11
  <2>2. \A d \in calls' : OfNode(d, n) => d \in calls
    BY <1>2, <1>9, <1>11 DEF OfNode
  <2>3. history'.clean[n] => history.clean[n]
    BY <1>7
  <2>4. history'.clean[n] => \A d \in calls' : d.what = "node"
    BY <1>2, <1>8, <1>9, <2>3 DEF NodeInv, DropTracked
  <2>5. QED
    BY <1>4, <1>6, <1>8, <2>1, <2>2, <2>3, <2>4, Undisturbed DEF Same, OfNode
<1>12. CASE c.awaited
  <2>1. \A d \in calls' : OfNode(d, k) => ~d.awaited
    BY <1>1, <1>2, <1>8, <1>9, <1>12 DEF AwaitedOnce, OfNode
  <2>2. entries[k].inFlight
    BY <1>1, <1>8, <1>12 DEF Waiting, OfNode
  <2>3. /\ entries'[k].pending = entries[k].pending /\ entries'[k].inFlight
        /\ entries'[k].answer = "failed" /\ history'.answer[k] = "failed"
    BY <1>1, <1>5, <1>6, <1>12, <2>2
  <2>4. Waiting(k)'
    BY <1>8, <2>1, <2>3 DEF Waiting
  <2>5. AnswerKept(k)'
    BY <1>6, <1>8, <2>2, <2>3, NoEntryFields DEF AnswerKept
  <2>6. DropTracked(k)'
    BY <1>7 DEF DropTracked
  <2>7. QED
    BY <1>10, <1>11, <2>4, <2>5, <2>6 DEF DropInv, NodeInv
<1>13. QED
  BY <1>10, <1>11, <1>12 DEF DropInv

(* A step of the group's handler, or of the snapshots, which leaves the      *)
(* writes of nodes the same.                                                *)
LEMMA AsideKeeps ==
  ASSUME DropInv, AwaitedOnce', entries' = entries, history'.last = history.last,
         history'.answer = history.answer, history'.told = history.told,
         \A n \in Nodes : ~history'.clean[n],
         \A d \in calls' : d.what = "node" => \E c \in calls : Same(d, c)
  PROVE  DropInv'
<1>1. ASSUME NEW n \in Nodes PROVE NodeInv(n)'
  <2>1. NodeInv(n)
    BY DEF DropInv
  <2>2. \A d \in calls' : OfNode(d, n) => \E c \in calls : Same(d, c)
    BY DEF OfNode
  <2>3. QED
    BY <2>1, <2>2, Undisturbed
<1>2. QED
  BY <1>1 DEF DropInv

(* While a drag of the group is under way no node's last drop stands alone.  *)
LEMMA GroupBusy ==
  ASSUME DropInv, NEW c \in calls, c.what = "group"
  PROVE  \A n \in Nodes : ~history.clean[n]
BY DEF DropInv, NodeInv, DropTracked

LEMMA GroupKeeps ==
  ASSUME TypeOK, HistoryOK, DropInv, NEW c \in calls, c.what = "group",
         \/ ReadGroup(c) \/ ReadMembers(c) \/ patch_group(c) \/ GroupAnswered(c)
         \/ Fails(c)
  PROVE  DropInv'
<1>1. c \in GroupCall
  BY CallKinds
<1>2. /\ entries' = entries /\ history'.last = history.last
      /\ history'.answer = history.answer /\ history'.told = history.told
      /\ history'.clean = history.clean
  BY CountFields DEF ReadGroup, ReadMembers, patch_group, GroupAnswered, Fails,
                     ReadOnly, HistoryOK
<1>3. \A n \in Nodes : ~history'.clean[n]
  BY <1>2, GroupBusy
<1>4. AwaitedOnce
  BY DEF DropInv
<1>5. ASSUME \A d \in calls' : d.what = "node" => d \in calls PROVE DropInv'
  <2>1. AwaitedOnce'
    BY <1>4, <1>5 DEF AwaitedOnce, OfNode
  <2>2. \A d \in calls' : d.what = "node" => \E e \in calls : Same(d, e)
    BY <1>5 DEF Same
  <2>3. QED
    BY <1>2, <1>3, <2>1, <2>2, AsideKeeps
<1>6. CASE patch_group(c)
  <2>1. [c EXCEPT !.phase = "saved"].what = "group"
    BY <1>1 DEF GroupCall
  <2>2. calls' = Overtaken(calls \ {c}) \cup {[c EXCEPT !.phase = "saved"]}
    BY <1>6 DEF patch_group
  <2>3. \A d \in calls' : d.what = "node" => d \in Overtaken(calls \ {c})
    BY <2>1, <2>2
  <2>4. \A d \in calls' : d.what = "node" => \E e \in calls : Same(d, e)
    BY <1>4, <2>3, OvertakenCalls
  <2>5. AwaitedOnce'
    BY <1>4, <2>3, OvertakenCalls DEF AwaitedOnce, OfNode
  <2>6. QED
    BY <1>2, <1>3, <2>4, <2>5, AsideKeeps
<1>7. CASE GroupAnswered(c)
  BY <1>5, <1>7 DEF GroupAnswered
<1>8. ASSUME NEW next, Step(c, next), next.what = "group" PROVE DropInv'
  BY <1>5, <1>8 DEF Step
<1>9. /\ [c EXCEPT !.phase = "delta", !.delta = c.to - store.group].what = "group"
      /\ [c EXCEPT !.phase = "read", !.read = store.place].what = "group"
      /\ [c EXCEPT !.phase = "refused"].what = "group"
      /\ [c EXCEPT !.here = FALSE].what = "group"
  BY <1>1 DEF GroupCall
<1>10. CASE ReadGroup(c) \/ ReadMembers(c)
  BY <1>8, <1>9, <1>10 DEF ReadGroup, ReadMembers
<1>11. CASE Fails(c)
  <2>1. \/ Step(c, [c EXCEPT !.phase = "refused"])
        \/ Step(c, [c EXCEPT !.here = FALSE])
    BY <1>11 DEF Fails
  <2>2. QED
    BY <1>8, <1>9, <2>1
<1>12. QED
  BY <1>6, <1>7, <1>10, <1>11

LEMMA DragKeeps ==
  ASSUME HistoryOK, DropInv, NEW spot, NEW here, DragGroup(spot, here)
  PROVE  DropInv'
<1> DEFINE call == [what |-> "group", here |-> here, to |-> spot, delta |-> 0,
         read |-> [n \in Nodes |-> NoPlace], id |-> history.drags,
         phase |-> "sent", fresh |-> TRUE]
<1>1. calls' = calls \cup {call} /\ entries' = entries
  BY DEF DragGroup
<1>2. call.what = "group"
  OBVIOUS
<1> HIDE DEF call
<1>3. \A d \in calls' : d.what = "node" => d \in calls
  BY <1>1, <1>2
<1>4. AwaitedOnce'
  BY <1>3 DEF DropInv, AwaitedOnce, OfNode
<1>5. QED
  BY <1>1, <1>3, <1>4, DragFields, AsideKeeps DEF Same

LEMMA DropStep == TypeOK /\ HistoryOK /\ DropInv /\ [Next]_vars => DropInv'
<1> SUFFICES ASSUME TypeOK, HistoryOK, DropInv, [Next]_vars PROVE DropInv'
  OBVIOUS
<1>1. ASSUME UNCHANGED <<calls, entries, store>>, history'.last = history.last,
             history'.answer = history.answer, history'.told = history.told,
             history'.clean = history.clean
      PROVE  DropInv'
  BY <1>1 DEF DropInv, AwaitedOnce, NodeInv, Waiting, AnswerKept, DropTracked
<1>2. CASE UNCHANGED <<calls, entries, store, history>>
  BY <1>1, <1>2
<1>3. ASSUME NEW load \in loads, LoadFails(load) PROVE DropInv'
  BY <1>1, <1>3, CountFields DEF LoadFails, HistoryOK
<1>4. ASSUME NEW c \in calls, Fails(c) PROVE DropInv'
  BY <1>4, FailedNodeKeeps, GroupKeeps, CallKinds
<1>5. ASSUME NEW c \in calls, \/ ReadGroup(c) \/ ReadMembers(c) \/ patch_group(c)
                              \/ GroupAnswered(c)
      PROVE  DropInv'
  BY <1>5, GroupKeeps DEF ReadGroup, ReadMembers, patch_group, GroupAnswered
<1>6. ASSUME NEW spot \in Spots, NEW in \in BOOLEAN
      PROVE  [at |-> spot, in |-> in] \in Place
  BY PositionsAssumption DEF Place
<1>7. QED
  BY <1>2, <1>3, <1>4, <1>5, <1>6, DropKeeps, SettledKeeps, PatchKeeps,
     ReadNodeKeeps, DragKeeps
  DEF Next, Browser, Server, SyncBegins, ReadSnapshot, applySnapshot, vars

(* The inductive invariant: one write of a node is awaited, an answer not    *)
(* settled is the last one, and a last drop that nothing else bears on is    *)
(* waiting, on its way from what is stored, or stored.                      *)
THEOREM DropInvariant == Spec => []DropInv
<1>1. Init => DropInv
  <2> SUFFICES ASSUME Init, NEW n \in Nodes PROVE AwaitedOnce /\ NodeInv(n)
    BY DEF DropInv, Init, AwaitedOnce
  <2>1. /\ calls = {} /\ entries[n] = NoEntry /\ history.told[n] = "nothing"
        /\ ~history.clean[n]
    BY DEF Init
  <2>2. QED
    BY <2>1, NoEntryFields
    DEF AwaitedOnce, NodeInv, Waiting, AnswerKept, DropTracked
<1>2. QED
  BY <1>1, PositionsTypeCorrect, DropStep, PTL DEF Spec

(* What the user is told of a drag is true: a node reported as saved is      *)
(* stored where it was last dropped unless something else bore on it, and    *)
(* the report is of the last drop (App.persistPosition, the handlers).      *)
THEOREM ReportsAreTrue == Spec => []ReportIsTrue
<1>1. DropInv => ReportIsTrue
  <2> SUFFICES ASSUME DropInv PROVE ReportIsTrue
    OBVIOUS
  <2>1. ReportIsOfLastDrop
    BY DEF DropInv, NodeInv, AnswerKept, ReportIsOfLastDrop
  <2>2. ASSUME NEW n \in Nodes, history.told[n] = "saved", history.clean[n]
        PROVE  store.place[n] = history.last[n]
    <3>1. entries[n].pending = {}
      BY <2>2, NoEntryFields DEF DropInv, NodeInv, AnswerKept
    <3>2. QED
      BY <2>2, <3>1 DEF DropInv, NodeInv, DropTracked
  <2>3. QED
    BY <2>1, <2>2 DEF ReportIsTrue, LastDropWins
<1>2. QED
  BY <1>1, DropInvariant, PTL
====
