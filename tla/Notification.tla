----------------------------- MODULE Notification -----------------------------
(***************************************************************************)
(* What the live event stream promises to a client of one map, whatever    *)
(* journal, queues and replays it is made of.  Changes are numbered by the *)
(* revision of their event.  A client connects with the revision of its    *)
(* snapshot; while it is connected it is told of ever newer revisions that *)
(* exist, and not told for ever of nothing while it is behind.             *)
(***************************************************************************)
EXTENDS Naturals

CONSTANT Clients

VARIABLES
  latest,     \* the newest committed revision
  listening,  \* the clients connected
  told        \* the newest revision each connected client knows of

vars == <<latest, listening, told>>

Init ==
  /\ latest = 0
  /\ listening = {}
  /\ told = [c \in Clients |-> 0]

Change ==
  /\ latest' = latest + 1
  /\ UNCHANGED <<listening, told>>

Listen(c) ==
  /\ c \notin listening
  /\ listening' = listening \cup {c}
  /\ \E known \in 0..latest : told' = [told EXCEPT ![c] = known]
  /\ UNCHANGED latest

Leave(gone) ==
  /\ gone # {}
  /\ listening' = listening \ gone
  /\ told' = [c \in Clients |-> IF c \in gone THEN 0 ELSE told[c]]
  /\ UNCHANGED latest

(* One notification may stand for several changes, since its client fetches *)
(* the whole map.                                                           *)
Tell(c) ==
  /\ c \in listening
  /\ \E revision \in told[c] + 1 .. latest :
       told' = [told EXCEPT ![c] = revision]
  /\ UNCHANGED <<latest, listening>>

Next ==
  \/ Change
  \/ \E c \in Clients : Listen(c) \/ Tell(c)
  \/ \E gone \in SUBSET listening : Leave(gone)

Spec == Init /\ [][Next]_vars /\ \A c \in Clients : WF_vars(Tell(c))
====
