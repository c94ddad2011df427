--------------------------- MODULE MonitorPanelProofs ---------------------------
(***************************************************************************)
(* Theorems about MonitorPanel, for every set of monitors and every bound, *)
(* and about MonitorForm, for every draft.                                 *)
(***************************************************************************)
EXTENDS MonitorPanel, TLAPS

Tones == {"none", "queued", "completed", "unavailable", "error", "removed"}
AnswerValues == {"due", "awaited", "queued", "completed", "unavailable", "refused",
                 "stored", "shown"}
Counters == [clicks : Nat, edits : Nat, moves : Nat, others : Nat, failures : Nat]
CountsOK == counts \in Counters

(* A snapshot is of the past, and a result is in a revision that was made.   *)
ServerOK ==
  /\ server \in Server /\ shown \in View
  /\ shown.revision <= server.revision
  /\ \A r \in Runs : server.runs[r].at <= server.revision

(* The editor of a monitor is open only while the monitor is listed.         *)
PanelOK ==
  /\ panel \in Panel
  /\ \A m \in Monitors : panel.tokens[m] <= panel.nextToken
  /\ panel.editor.mode = "closed" => panel.editor = Closed
  /\ panel.editor.mode = "edit" => panel.editor.monitor \subseteq Listed(panel, shown)

Ended(r) == server.runs[r].status \in {"completed", "unavailable"}

(* A run or a poll is of one monitor, a receipt is of a run that was queued, *)
(* and a poll told of a completed run has one that has ended.               *)
RequestOK(q) ==
  /\ q \in Request
  /\ q.what \in {"run", "poll"} => \E m \in Monitors : q.monitor = {m}
  /\ \A r, s \in q.run : r = s
  /\ \A r \in q.run : server.runs[r].status # "none"
  /\ q.what = "poll" /\ q.answer = "completed" => \A r \in q.run : Ended(r)
RequestsOK == \A q \in requests : RequestOK(q)

(* A refresh that may still show the result, or tell that it failed.         *)
Refreshing(q, r) ==
  q.what = "refresh" /\ r \in q.run /\ q.answer \in {"awaited", "refused"}
Followed ==
  panel.feedback.tone = "completed" =>
    \A r \in panel.feedback.run :
      /\ Ended(r)
      /\ \/ shown.revision >= server.runs[r].at
         \/ \E q \in requests : Refreshing(q, r)

(* The inductive invariant.                                                 *)
PanelInv ==
  /\ ServerOK /\ PanelOK /\ RequestsOK /\ CountsOK /\ saving \in BOOLEAN
  /\ RunningIsServed /\ Followed

-----------------------------------------------------------------------------
(* What the helpers of the actions do, field by field.                      *)

LEMMA PanelFields ==
  ASSUME NEW p \in Panel
  PROVE  /\ p.node \in {"home", "away"} /\ p.editor \in Editor
         /\ p.typed \in SUBSET Editor /\ p.feedback \in Feedback
         /\ p.running \in SUBSET Monitors /\ p.tokens \in [Monitors -> Nat]
         /\ p.nextToken \in Nat
BY DEF Panel

LEMMA ClosedFields ==
  Closed \in Editor /\ Closed.mode = "closed" /\ Closed.monitor = {}
BY DEF Closed, Editor

SameRuns(p, old) ==
  p.running = old.running /\ p.tokens = old.tokens /\ p.nextToken = old.nextToken
SameForm(p, old) ==
  p.node = old.node /\ p.editor = old.editor /\ p.typed = old.typed

LEMMA SaidFields ==
  ASSUME NEW p \in Panel, NEW tone \in Tones, NEW monitor \in SUBSET Monitors,
         NEW run \in SUBSET Runs
  PROVE  /\ Said(p, tone, monitor, run) \in Panel
         /\ Said(p, tone, monitor, run).feedback
              = [tone |-> tone, monitor |-> monitor, run |-> run]
         /\ SameRuns(Said(p, tone, monitor, run), p)
         /\ SameForm(Said(p, tone, monitor, run), p)
<1> DEFINE said == [tone |-> tone, monitor |-> monitor, run |-> run]
<1>1. said \in Feedback
  BY DEF Feedback, Tones
<1>2. Said(p, tone, monitor, run) = [p EXCEPT !.feedback = said]
  BY DEF Said
<1> HIDE DEF said
<1>3. /\ [p EXCEPT !.feedback = said] \in Panel
      /\ [p EXCEPT !.feedback = said].feedback = said
      /\ SameRuns([p EXCEPT !.feedback = said], p)
      /\ SameForm([p EXCEPT !.feedback = said], p)
  BY <1>1 DEF Panel, SameRuns, SameForm
<1>4. QED
  BY <1>2, <1>3 DEF said

LEMMA ListedType ==
  ASSUME NEW p, NEW view \in View
  PROVE  Listed(p, view) \in SUBSET Monitors
BY DEF Listed, View

LEMMA PrunedFields ==
  ASSUME NEW p \in Panel, NEW view \in View
  PROVE  /\ Pruned(p, view) \in Panel
         /\ SameForm(Pruned(p, view), p)
         /\ Pruned(p, view).feedback = p.feedback
         /\ Pruned(p, view).running = p.running \cap Listed(p, view)
         /\ Pruned(p, view).nextToken = p.nextToken
         /\ \A m \in Monitors : Pruned(p, view).tokens[m] =
              IF m \in Listed(p, view) THEN p.tokens[m] ELSE 0
<1> DEFINE kept == p.running \cap Listed(p, view)
           tokens == [m \in Monitors |->
                        IF m \in Listed(p, view) THEN p.tokens[m] ELSE 0]
<1>1. kept \in SUBSET Monitors /\ tokens \in [Monitors -> Nat]
  BY DEF Panel
<1>2. Pruned(p, view) = [p EXCEPT !.running = kept, !.tokens = tokens]
  BY DEF Pruned, Panel
<1>3. \A m \in Monitors : tokens[m] =
         IF m \in Listed(p, view) THEN p.tokens[m] ELSE 0
  OBVIOUS
<1> HIDE DEF kept, tokens
<1>4. /\ Pruned(p, view) \in Panel
      /\ SameForm(Pruned(p, view), p)
      /\ Pruned(p, view).feedback = p.feedback
      /\ Pruned(p, view).running = kept
      /\ Pruned(p, view).nextToken = p.nextToken
      /\ Pruned(p, view).tokens = tokens
  BY <1>1, <1>2 DEF Panel, SameForm
<1>5. QED
  BY <1>3, <1>4 DEF kept

Closes(p, view) ==
  p.editor.mode = "edit" /\ ~(p.editor.monitor \subseteq Listed(p, view))

LEMMA CheckedFields ==
  ASSUME NEW p \in Panel, NEW view \in View
  PROVE  /\ Checked(p, view) \in Panel
         /\ SameRuns(Checked(p, view), p) /\ Checked(p, view).node = p.node
         /\ ~Closes(p, view) => Checked(p, view) = p
         /\ Closes(p, view) => /\ Checked(p, view).editor = Closed
                               /\ Checked(p, view).typed = {}
                               /\ Checked(p, view).feedback.tone = "removed"
<1>1. CASE ~Closes(p, view)
  BY <1>1 DEF Checked, Closes, SameRuns
<1>2. CASE Closes(p, view)
  <2> DEFINE said == Said(p, "removed", p.editor.monitor, {})
  <2>1. /\ p.editor.monitor \in SUBSET Monitors /\ "removed" \in Tones
        /\ {} \in SUBSET Runs
    BY PanelFields DEF Editor, Tones
  <2> HIDE DEF said
  <2>2. /\ said \in Panel /\ SameRuns(said, p) /\ SameForm(said, p)
        /\ said.feedback.tone = "removed"
    <3>1. /\ said \in Panel /\ SameRuns(said, p) /\ SameForm(said, p)
          /\ said.feedback = [tone |-> "removed", monitor |-> p.editor.monitor,
                             run |-> {}]
      BY <2>1, SaidFields DEF said
    <3>2. QED
      BY <3>1
  <2>3. Checked(p, view) = [said EXCEPT !.editor = Closed, !.typed = {}]
    BY <1>2 DEF Checked, Closes, said
  <2>4. /\ Checked(p, view) \in Panel
        /\ SameRuns(Checked(p, view), said) /\ Checked(p, view).node = said.node
        /\ Checked(p, view).editor = Closed /\ Checked(p, view).typed = {}
        /\ Checked(p, view).feedback = said.feedback
    BY <2>2, <2>3, ClosedFields DEF Panel, SameRuns
  <2>5. QED
    BY <1>2, <2>2, <2>4 DEF SameRuns, SameForm
<1>3. QED
  BY <1>1, <1>2

(* A state of the panel that PanelOK allows.                                 *)
Sound(p, view) ==
  /\ p \in Panel
  /\ \A m \in Monitors : p.tokens[m] <= p.nextToken
  /\ p.editor.mode = "closed" => p.editor = Closed
  /\ p.editor.mode = "edit" => p.editor.monitor \subseteq Listed(p, view)

LEMMA SoundPanel == PanelOK <=> Sound(panel, shown)
BY DEF PanelOK, Sound

LEMMA CheckedIsSound ==
  ASSUME NEW p \in Panel, NEW view \in View,
         \A m \in Monitors : p.tokens[m] <= p.nextToken,
         p.editor.mode = "closed" => p.editor = Closed
  PROVE  Sound(Checked(p, view), view)
<1>1. CASE Closes(p, view)
  BY <1>1, CheckedFields, ClosedFields DEF Sound, SameRuns
<1>2. CASE ~Closes(p, view)
  BY <1>2, CheckedFields DEF Sound, Closes
<1>3. QED
  BY <1>1, <1>2

LEMMA RerenderFields ==
  ASSUME NEW p, NEW old \in View, Sound(p, old), NEW view \in View
  PROVE  /\ Sound(Rerender(p, view), view)
         /\ Rerender(p, view).running \subseteq p.running
         /\ \A m \in Rerender(p, view).running :
              Rerender(p, view).tokens[m] = p.tokens[m]
         /\ \/ Rerender(p, view).feedback = p.feedback
            \/ Rerender(p, view).feedback.tone # "completed"
         /\ \/ Rerender(p, view).typed = p.typed
            \/ Closes(p, view)
<1> DEFINE pruned == Pruned(p, view)
<1>1. p \in Panel
  BY DEF Sound
<1>2. /\ pruned \in Panel /\ SameForm(pruned, p) /\ pruned.feedback = p.feedback
      /\ pruned.running = p.running \cap Listed(p, view)
      /\ pruned.nextToken = p.nextToken
      /\ \A m \in Monitors : pruned.tokens[m] =
           IF m \in Listed(p, view) THEN p.tokens[m] ELSE 0
  BY <1>1, PrunedFields
<1>3. Rerender(p, view) = Checked(pruned, view)
  BY DEF Rerender
<1> HIDE DEF pruned
<1>4. Listed(pruned, view) = Listed(p, view) /\ (Closes(pruned, view) <=> Closes(p, view))
  BY <1>2 DEF SameForm, Listed, Closes
<1>5. \A m \in Monitors : pruned.tokens[m] <= pruned.nextToken
  BY <1>1, <1>2, PanelFields DEF Sound
<1>6. Sound(Checked(pruned, view), view)
  BY <1>2, <1>5, CheckedIsSound DEF Sound, SameForm
<1>7. SameRuns(Checked(pruned, view), pruned)
  BY <1>2, CheckedFields
<1>8. \A m \in pruned.running : m \in Monitors /\ m \in Listed(p, view)
  BY <1>1, <1>2, PanelFields
<1>9. /\ Checked(pruned, view).feedback = p.feedback
         \/ Checked(pruned, view).feedback.tone # "completed"
      /\ Checked(pruned, view).typed = p.typed \/ Closes(p, view)
  BY <1>2, <1>4, CheckedFields DEF SameForm
<1>10. QED
  BY <1>2, <1>3, <1>6, <1>7, <1>8, <1>9 DEF SameRuns

LEMMA SetEditorFields ==
  ASSUME NEW p, Sound(p, shown), shown \in View, NEW editor \in Editor,
         editor.mode = "closed" => editor = Closed
  PROVE  /\ Sound(SetEditor(p, editor), shown)
         /\ SameRuns(SetEditor(p, editor), p)
         /\ \/ SetEditor(p, editor).feedback = p.feedback
            \/ SetEditor(p, editor).feedback.tone # "completed"
<1> DEFINE set == [p EXCEPT !.editor = editor, !.typed = {}]
<1>1. p \in Panel /\ \A m \in Monitors : p.tokens[m] <= p.nextToken
  BY DEF Sound
<1>2. /\ set \in Panel /\ SameRuns(set, p) /\ set.editor = editor
      /\ set.feedback = p.feedback
  BY <1>1 DEF Panel, SameRuns
<1>3. SetEditor(p, editor) = Checked(set, shown)
  BY DEF SetEditor
<1> HIDE DEF set
<1>4. Sound(Checked(set, shown), shown)
  BY <1>1, <1>2, CheckedIsSound DEF SameRuns
<1>5. QED
  BY <1>2, <1>3, <1>4, CheckedFields DEF SameRuns

LEMMA RequestFields ==
  ASSUME NEW q \in Request
  PROVE  /\ q.id \in Nat /\ q.monitor \in SUBSET Monitors /\ q.run \in SUBSET Runs
         /\ q.token \in Nat /\ q.answer \in AnswerValues
BY DEF Request, AnswerValues

LEMMA AnswerFields ==
  ASSUME NEW q \in Request, NEW answer \in AnswerValues,
         NEW next, next = [q EXCEPT !.answer = answer]
  PROVE  /\ next \in Request /\ next.what = q.what /\ next.monitor = q.monitor
         /\ next.run = q.run /\ next.token = q.token /\ next.answer = answer
BY DEF Request, AnswerValues

LEMMA AskFields ==
  ASSUME CountsOK,
         NEW what \in {"run", "poll", "refresh", "create", "edit", "delete",
                       "elsewhere"},
         NEW monitor \in SUBSET Monitors, NEW run \in SUBSET Runs,
         NEW token \in Nat, NEW answer \in AnswerValues
  PROVE  LET q == Ask(what, monitor, run, token, answer)
         IN /\ q \in Request /\ q.what = what /\ q.monitor = monitor /\ q.run = run
            /\ q.token = token /\ q.answer = answer
<1>1. counts.clicks + counts.others \in Nat
  BY DEF CountsOK, Counters
<1>2. QED
  BY <1>1 DEF Ask, Request, AnswerValues

LEMMA NewerFields ==
  ASSUME ServerOK
  PROVE  /\ Newer(shown) = [revision |-> server.revision,
                            monitors |-> server.monitors]
         /\ Newer(shown) \in View /\ Newer(shown).revision = server.revision
         /\ Newer(shown).monitors = server.monitors
BY DEF Newer, ServerOK, Server, View
-----------------------------------------------------------------------------
(* The server and the snapshot.                                             *)

(* Runs that have ended stay as they are but for pruning, and the snapshot   *)
(* never goes back.                                                         *)
Grows ==
  /\ shown.revision <= shown'.revision
  /\ \A r \in Runs :
       /\ server.runs[r].status # "none" => server'.runs[r].status # "none"
       /\ Ended(r) => Ended(r)' /\ server'.runs[r].at = server.runs[r].at

LEMMA ServerFields ==
  ASSUME ServerOK
  PROVE  /\ server.revision \in Nat /\ server.revision + 1 \in Nat
         /\ server.monitors \in SUBSET Monitors
         /\ server.runs \in [Runs -> Receipt]
         /\ shown.revision \in Nat /\ shown.revision <= server.revision
         /\ \A r \in Runs : /\ server.runs[r].at \in Nat
                            /\ server.runs[r].at <= server.revision
BY DEF ServerOK, Server, View, Receipt

LEMMA RunPut ==
  ASSUME ServerOK, shown' = shown, NEW r \in Runs,
         NEW receipt \in Receipt, receipt.status # "none",
         NEW revision \in Nat, server.revision <= revision, receipt.at <= revision,
         Ended(r) => /\ receipt.status \in {"completed", "unavailable"}
                     /\ receipt.at = server.runs[r].at,
         server' = [server EXCEPT !.revision = revision,
                                  !.runs = [server.runs EXCEPT ![r] = receipt]]
  PROVE  ServerOK' /\ Grows
<1> DEFINE runs == [server.runs EXCEPT ![r] = receipt]
<1>1. /\ server.runs \in [Runs -> Receipt] /\ shown.revision \in Nat
      /\ server.revision \in Nat /\ shown.revision <= server.revision
      /\ \A s \in Runs : /\ server.runs[s].at \in Nat
                         /\ server.runs[s].at <= server.revision
  BY ServerFields
<1>2. /\ runs \in [Runs -> Receipt] /\ runs[r] = receipt
      /\ \A s \in Runs : s # r => runs[s] = server.runs[s]
  BY <1>1
<1>3. receipt.at \in Nat
  BY DEF Receipt
<1> HIDE DEF runs
<1>4. server' = [server EXCEPT !.revision = revision, !.runs = runs]
  BY DEF runs
<1>5. server' \in Server /\ server'.revision = revision /\ server'.runs = runs
  BY <1>2, <1>4 DEF ServerOK, Server
<1>6. \A s \in Runs : runs[s].at <= revision
  BY <1>1, <1>2, <1>3
<1>7. ServerOK'
  BY <1>1, <1>5, <1>6 DEF ServerOK
<1>8. Grows
  BY <1>1, <1>2, <1>5 DEF Grows, Ended
<1>9. QED
  BY <1>7, <1>8

(* Changes that leave the runs alone.                                       *)
LEMMA TablesPut ==
  ASSUME ServerOK, shown' = shown, server' \in Server,
         server'.runs = server.runs, server'.revision = server.revision + 1
  PROVE  ServerOK' /\ Grows
<1>1. /\ shown.revision \in Nat /\ server.revision \in Nat
      /\ shown.revision <= server.revision
      /\ \A r \in Runs : /\ server.runs[r].at \in Nat
                         /\ server.runs[r].at <= server.revision
  BY ServerFields
<1>2. ServerOK'
  BY <1>1 DEF ServerOK
<1>3. Grows
  BY <1>1 DEF Grows, Ended
<1>4. QED
  BY <1>2, <1>3

LEMMA GoneFields ==
  ASSUME ServerOK, NEW m \in Monitors
  PROVE  /\ Gone(m) \in Server /\ Gone(m).runs = server.runs
         /\ Gone(m).revision = server.revision + 1
<1>1. /\ server.monitors \ {m} \in SUBSET Monitors
      /\ server.gone \cup {m} \in SUBSET Monitors
      /\ server.revision + 1 \in Nat
  BY DEF ServerOK, Server
<1>2. Gone(m) = [server EXCEPT !.revision = server.revision + 1,
                               !.monitors = server.monitors \ {m},
                               !.gone = server.gone \cup {m}]
  BY DEF Gone, ServerOK, Server
<1>3. QED
  BY <1>1, <1>2 DEF ServerOK, Server

LEMMA ServerStep == PanelInv /\ [Next]_vars => ServerOK' /\ Grows
<1> SUFFICES ASSUME PanelInv, [Next]_vars PROVE ServerOK' /\ Grows
  OBVIOUS
<1>1. ServerOK /\ RequestsOK
  BY DEF PanelInv
<1>2. /\ server.revision \in Nat /\ server.revision + 1 \in Nat
      /\ server.runs \in [Runs -> Receipt]
      /\ server.revision <= server.revision + 1
      /\ \A r \in Runs : /\ server.runs[r].at \in Nat
                         /\ server.runs[r].at <= server.revision
  BY <1>1, ServerFields
<1>3. CASE UNCHANGED <<server, shown>>
  <2>1. shown.revision \in Nat
    BY <1>1, ServerFields
  <2>2. QED
    BY <1>1, <1>3, <2>1 DEF ServerOK, Grows, Ended
<1>4. CASE Shows(panel) /\ UNCHANGED server
  <2>1. shown' \in View /\ shown'.revision = server.revision
    BY <1>1, <1>4, NewerFields DEF Shows
  <2>2. QED
    BY <1>1, <1>2, <1>4, <2>1, ServerFields DEF ServerOK, Grows, Ended
<1>5. ASSUME NEW q \in requests, NEW m \in Monitors, run_monitor_now(q, m)
      PROVE  ServerOK' /\ Grows
  <2>1. CASE m \notin server.monitors
    BY <1>3, <1>5, <2>1 DEF run_monitor_now
  <2>2. CASE m \in server.monitors
    <3> DEFINE receipt == [status |-> "queued", monitor |-> {m}, at |-> 0]
    <3>1. PICK r \in Runs : /\ server.runs[r].status \in {"queued", "none"}
                            /\ server' = [server EXCEPT !.runs[r] = receipt]
      BY <1>5, <2>2 DEF run_monitor_now
    <3>2. /\ receipt \in Receipt /\ receipt.status = "queued" /\ receipt.at = 0
      BY DEF Receipt
    <3> HIDE DEF receipt
    <3>3. server' = [server EXCEPT !.revision = server.revision,
                                   !.runs = [server.runs EXCEPT ![r] = receipt]]
      BY <1>1, <3>1 DEF ServerOK, Server
    <3>4. ~Ended(r) /\ server.revision <= server.revision /\ receipt.at <= server.revision
      BY <1>2, <3>1, <3>2 DEF Ended
    <3>5. QED
      BY <1>1, <1>2, <1>5, <3>2, <3>3, <3>4, RunPut DEF run_monitor_now
  <2>3. QED
    BY <2>1, <2>2
<1>6. ASSUME NEW r \in Runs, runEnds(r) \/ prune(r) PROVE ServerOK' /\ Grows
  <2> DEFINE old == server.runs[r]
             completed == [old EXCEPT !.status = "completed",
                                      !.at = server.revision + 1]
             unavailable == [old EXCEPT !.status = "unavailable"]
  <2>1. old \in Receipt
    BY <1>2
  <2>2. /\ completed \in Receipt /\ completed.status = "completed"
        /\ completed.at = server.revision + 1
        /\ unavailable \in Receipt /\ unavailable.status = "unavailable"
        /\ unavailable.at = old.at
    BY <1>2, <2>1 DEF Receipt
  <2>3. CASE /\ old.status = "queued"
             /\ server' = [server EXCEPT !.revision = @ + 1,
                  !.runs[r].status = "completed", !.runs[r].at = server.revision + 1]
    <3>1. server' = [server EXCEPT !.revision = server.revision + 1,
                       !.runs = [server.runs EXCEPT ![r] = completed]]
      BY <1>1, <1>2, <2>3 DEF ServerOK, Server, Receipt
    <3>2. ~Ended(r) /\ shown' = shown
      BY <1>6, <2>3 DEF Ended, runEnds, prune
    <3> HIDE DEF completed, unavailable, old
    <3>3. server.revision + 1 <= server.revision + 1
      BY <1>2
    <3>4. QED
      BY <1>1, <1>2, <2>2, <3>1, <3>2, <3>3, RunPut
  <2>4. CASE server' = [server EXCEPT !.runs[r].status = "unavailable"]
    <3>1. server' = [server EXCEPT !.revision = server.revision,
                       !.runs = [server.runs EXCEPT ![r] = unavailable]]
      BY <1>1, <1>2, <2>4 DEF ServerOK, Server, Receipt
    <3>2. shown' = shown /\ server.revision <= server.revision
      BY <1>2, <1>6 DEF runEnds, prune
    <3> HIDE DEF completed, unavailable
    <3>3. QED
      BY <1>1, <1>2, <2>2, <3>1, <3>2, RunPut
  <2>5. QED
    BY <1>6, <2>3, <2>4 DEF runEnds, prune
<1>7. ASSUME NEW q \in requests, store(q) PROVE ServerOK' /\ Grows
  <2>1. PICK m \in Monitors :
          \/ UNCHANGED server
          \/ server' = Gone(m)
          \/ server' = [server EXCEPT !.revision = @ + 1, !.monitors = @ \cup {m}]
    BY <1>7 DEF store
  <2>2. shown' = shown
    BY <1>7 DEF store
  <2>3. CASE UNCHANGED server
    BY <1>3, <2>2, <2>3
  <2>4. CASE server' = Gone(m)
    BY <1>1, <2>2, <2>4, GoneFields, TablesPut
  <2>5. CASE server' = [server EXCEPT !.revision = @ + 1, !.monitors = @ \cup {m}]
    <3>1. /\ server' \in Server /\ server'.runs = server.runs
          /\ server'.revision = server.revision + 1
      <4>1. /\ server.monitors \cup {m} \in SUBSET Monitors
            /\ server.revision + 1 \in Nat
        BY <1>1 DEF ServerOK, Server
      <4>2. server' = [server EXCEPT !.revision = server.revision + 1,
                                     !.monitors = server.monitors \cup {m}]
        BY <1>1, <2>5 DEF ServerOK, Server
      <4>3. QED
        BY <1>1, <4>1, <4>2 DEF ServerOK, Server
    <3>2. QED
      BY <1>1, <2>2, <3>1, TablesPut
  <2>6. QED
    BY <2>1, <2>3, <2>4, <2>5
<1>8. ASSUME NEW m \in Monitors, removedElsewhere(m) PROVE ServerOK' /\ Grows
  BY <1>1, <1>8, GoneFields, TablesPut DEF removedElsewhere
<1>9. CASE sync \/ \E q \in requests : refreshMonitorSnapshot(q)
  BY <1>4, <1>9 DEF sync, refreshMonitorSnapshot
<1>10. QED
  BY <1>3, <1>5, <1>6, <1>7, <1>8, <1>9
  DEF Next, User, Callbacks, Answers, Executions, requestRun, removeMonitor,
      openEditor, update, onCancel, saveMonitor, selectNode, unmount, otherBegins,
      refreshed, saveReturns, otherEnds, runAnswered, poll, pollAnswered,
      get_monitor_run, requestFails, vars
-----------------------------------------------------------------------------
(* The panel.                                                               *)

LEMMA SameFormIsSound ==
  ASSUME NEW p, NEW view, Sound(p, view), NEW next \in Panel, SameForm(next, p),
         \A m \in Monitors : next.tokens[m] <= next.nextToken
  PROVE  Sound(next, view)
BY DEF Sound, SameForm, Listed

LEMMA SaidIsSound ==
  ASSUME NEW p, NEW view, Sound(p, view), NEW tone \in Tones,
         NEW monitor \in SUBSET Monitors, NEW run \in SUBSET Runs
  PROVE  Sound(Said(p, tone, monitor, run), view)
<1> DEFINE next == Said(p, tone, monitor, run)
<1>1. p \in Panel /\ \A m \in Monitors : p.tokens[m] <= p.nextToken
  BY DEF Sound
<1>2. next \in Panel /\ SameRuns(next, p) /\ SameForm(next, p)
  BY <1>1, SaidFields
<1> HIDE DEF next
<1>3. \A m \in Monitors : next.tokens[m] <= next.nextToken
  BY <1>1, <1>2 DEF SameRuns
<1>4. Sound(next, view)
  BY <1>2, <1>3, SameFormIsSound
<1>5. QED
  BY <1>4 DEF next

LEMMA SaidTells ==
  ASSUME NEW p, NEW view, Sound(p, view), NEW tone \in Tones,
         NEW monitor \in SUBSET Monitors, NEW run \in SUBSET Runs,
         NEW next, next = Said(p, tone, monitor, run)
  PROVE  /\ Sound(next, view) /\ next.feedback.tone = tone
         /\ next.running = p.running /\ next.tokens = p.tokens
         /\ next.nextToken = p.nextToken
<1>1. p \in Panel
  BY DEF Sound
<1>2. /\ SameRuns(next, p)
      /\ next.feedback = [tone |-> tone, monitor |-> monitor, run |-> run]
  BY <1>1, SaidFields
<1>3. Sound(next, view)
  BY SaidIsSound
<1>4. QED
  BY <1>2, <1>3 DEF SameRuns

(* The runs in progress of a panel, and its polls' tokens.                   *)
LEMMA StartedFields ==
  ASSUME NEW p, NEW view, Sound(p, view), NEW m \in Monitors,
         NEW next, next = [p EXCEPT !.running = @ \cup {m}]
  PROVE  /\ Sound(next, view) /\ next.feedback = p.feedback
         /\ next.running = p.running \cup {m} /\ next.tokens = p.tokens
<1>1. p \in Panel /\ p.running \cup {m} \in SUBSET Monitors
  BY PanelFields DEF Sound
<1>2. next = [p EXCEPT !.running = p.running \cup {m}]
  BY <1>1 DEF Panel
<1>3. /\ next \in Panel /\ SameForm(next, p) /\ next.feedback = p.feedback
      /\ next.running = p.running \cup {m} /\ next.tokens = p.tokens
      /\ next.nextToken = p.nextToken
  BY <1>1, <1>2 DEF Panel, SameForm
<1>4. QED
  BY <1>3, SameFormIsSound DEF Sound

LEMMA StoppedFields ==
  ASSUME NEW p, NEW view, Sound(p, view), NEW m \in Monitors
  PROVE  /\ Sound(Stopped(p, m), view) /\ Stopped(p, m).feedback = p.feedback
         /\ Stopped(p, m).running = p.running \ {m}
         /\ Stopped(p, m).tokens = p.tokens
<1> DEFINE next == Stopped(p, m)
<1>1. p \in Panel /\ p.running \ {m} \in SUBSET Monitors
  BY PanelFields DEF Sound
<1>2. next = [p EXCEPT !.running = p.running \ {m}]
  BY <1>1 DEF Panel, Stopped
<1> HIDE DEF next
<1>3. /\ next \in Panel /\ SameForm(next, p) /\ next.feedback = p.feedback
      /\ next.running = p.running \ {m} /\ next.tokens = p.tokens
      /\ next.nextToken = p.nextToken
  BY <1>1, <1>2 DEF Panel, SameForm
<1>4. Sound(next, view)
  BY <1>3, SameFormIsSound DEF Sound
<1>5. QED
  BY <1>3, <1>4 DEF next

WithToken(p, m, token, nextToken) ==
  [p EXCEPT !.nextToken = nextToken, !.tokens = [p.tokens EXCEPT ![m] = token]]

LEMMA TokenPut ==
  ASSUME NEW p, NEW view, Sound(p, view), NEW m \in Monitors,
         NEW token \in Nat, NEW nextToken \in Nat,
         token <= nextToken, p.nextToken <= nextToken,
         NEW next, next = WithToken(p, m, token, nextToken)
  PROVE  /\ Sound(next, view) /\ next.feedback = p.feedback
         /\ next.running = p.running /\ next.tokens[m] = token
         /\ \A k \in Monitors : k # m => next.tokens[k] = p.tokens[k]
<1> DEFINE tokens == [p.tokens EXCEPT ![m] = token]
<1>1. /\ p \in Panel /\ p.tokens \in [Monitors -> Nat] /\ p.nextToken \in Nat
      /\ \A k \in Monitors : p.tokens[k] <= p.nextToken
  BY PanelFields DEF Sound
<1>2. /\ tokens \in [Monitors -> Nat] /\ tokens[m] = token
      /\ \A k \in Monitors : k # m => tokens[k] = p.tokens[k]
  BY <1>1
<1> HIDE DEF tokens
<1>3. next = [p EXCEPT !.nextToken = nextToken, !.tokens = tokens]
  BY DEF tokens, WithToken
<1>4. /\ next \in Panel /\ SameForm(next, p) /\ next.feedback = p.feedback
      /\ next.running = p.running /\ next.tokens = tokens
      /\ next.nextToken = nextToken
  BY <1>1, <1>2, <1>3 DEF Panel, SameForm
<1>5. \A k \in Monitors : tokens[k] <= nextToken
  BY <1>1, <1>2
<1>6. QED
  BY <1>2, <1>4, <1>5, SameFormIsSound

LEMMA PollFields ==
  ASSUME NEW p, NEW view, Sound(p, view), NEW m \in Monitors
  PROVE  LET next == pollRunReceipt(p, m)
         IN /\ Sound(next, view) /\ next.feedback = p.feedback
            /\ next.running = p.running /\ next.tokens[m] = p.nextToken + 1
            /\ \A k \in Monitors : k # m => next.tokens[k] = p.tokens[k]
<1>1. p \in Panel /\ p.nextToken \in Nat
  BY PanelFields DEF Sound
<1>2. pollRunReceipt(p, m) = WithToken(p, m, p.nextToken + 1, p.nextToken + 1)
  BY <1>1 DEF pollRunReceipt, WithToken, Panel
<1>3. /\ p.nextToken + 1 \in Nat /\ p.nextToken <= p.nextToken + 1
      /\ p.nextToken + 1 <= p.nextToken + 1
  BY <1>1
<1>4. QED
  BY <1>2, <1>3, TokenPut

LEMMA SettleFields ==
  ASSUME NEW p, NEW view, Sound(p, view), NEW m \in Monitors, NEW tone \in Tones,
         NEW run \in SUBSET Runs
  PROVE  LET next == Settle(p, m, tone, run)
         IN /\ Sound(next, view) /\ next.running = p.running \ {m}
            /\ next.feedback = [tone |-> tone, monitor |-> {m}, run |-> run]
            /\ \A k \in Monitors : k # m => next.tokens[k] = p.tokens[k]
<1> DEFINE reset == [p EXCEPT !.tokens[m] = 0]
           stopped == Stopped(reset, m)
<1>1. p \in Panel /\ p.nextToken \in Nat
  BY PanelFields DEF Sound
<1>2. reset = WithToken(p, m, 0, p.nextToken)
  BY <1>1 DEF WithToken, Panel
<1>3. 0 \in Nat /\ 0 <= p.nextToken /\ p.nextToken <= p.nextToken
  BY <1>1
<1> HIDE DEF reset
<1>4. /\ Sound(reset, view) /\ reset.running = p.running
      /\ \A k \in Monitors : k # m => reset.tokens[k] = p.tokens[k]
  BY <1>1, <1>2, <1>3, TokenPut
<1>5. /\ Sound(stopped, view) /\ stopped.running = p.running \ {m}
      /\ stopped.tokens = reset.tokens
  BY <1>4, StoppedFields
<1>6. Settle(p, m, tone, run) = Said(stopped, tone, {m}, run)
  BY DEF Settle, reset
<1> HIDE DEF stopped
<1>7. stopped \in Panel
  BY <1>5 DEF Sound
<1>8. /\ Sound(Said(stopped, tone, {m}, run), view)
      /\ SameRuns(Said(stopped, tone, {m}, run), stopped)
      /\ Said(stopped, tone, {m}, run).feedback
           = [tone |-> tone, monitor |-> {m}, run |-> run]
  BY <1>5, <1>7, SaidFields, SaidIsSound
<1>9. QED
  BY <1>4, <1>5, <1>6, <1>8 DEF SameRuns

(* What most steps do with the runs in progress and with the message.       *)
Tame ==
  /\ panel'.running \subseteq panel.running
  /\ \A m \in panel'.running : panel'.tokens[m] = panel.tokens[m]
  /\ panel'.feedback = panel.feedback \/ panel'.feedback.tone # "completed"

LEMMA TameSaid ==
  ASSUME NEW view, Sound(panel, view), NEW tone \in Tones \ {"completed"},
         NEW monitor \in SUBSET Monitors, NEW run \in SUBSET Runs,
         panel' = Said(panel, tone, monitor, run)
  PROVE  Sound(panel', view) /\ Tame
<1>1. panel \in Panel /\ tone \in Tones
  BY DEF Sound
<1>2. /\ SameRuns(panel', panel)
      /\ panel'.feedback = [tone |-> tone, monitor |-> monitor, run |-> run]
  BY <1>1, SaidFields
<1>3. Sound(panel', view)
  BY <1>1, SaidIsSound
<1>4. panel'.feedback.tone = tone
  BY <1>2
<1>5. QED
  BY <1>2, <1>3, <1>4 DEF Tame, SameRuns
(* Another editor, or another draft in it.                                  *)
WithEditor(p, editor, typed) == [p EXCEPT !.editor = editor, !.typed = typed]

LEMMA EditorPut ==
  ASSUME NEW p \in Panel, NEW editor \in Editor, NEW typed \in SUBSET Editor
  PROVE  LET next == WithEditor(p, editor, typed)
         IN /\ next \in Panel /\ SameRuns(next, p) /\ next.feedback = p.feedback
            /\ next.node = p.node /\ next.editor = editor
BY DEF WithEditor, Panel, SameRuns

ClearedAt(p, node) == [Cleared(p) EXCEPT !.node = node]

LEMMA ClearedFields ==
  ASSUME NEW p \in Panel, NEW node \in {"home", "away"},
         NEW next, next = ClearedAt(p, node)
  PROVE  /\ next \in Panel /\ next.editor = Closed /\ next.running = {}
         /\ next.feedback = Silent /\ \A m \in Monitors : next.tokens[m] = 0
         /\ next.nextToken = p.nextToken
<1> DEFINE tokens == [m \in Monitors |-> 0]
<1>1. /\ tokens \in [Monitors -> Nat] /\ Silent \in Feedback /\ Closed \in Editor
      /\ {} \in SUBSET Editor /\ {} \in SUBSET Monitors
  BY ClosedFields DEF Silent, Feedback
<1>2. next = [p EXCEPT !.editor = Closed, !.typed = {}, !.feedback = Silent,
                       !.running = {}, !.tokens = tokens, !.node = node]
  BY DEF ClearedAt, Cleared, Panel
<1>3. \A m \in Monitors : tokens[m] = 0
  OBVIOUS
<1> HIDE DEF tokens
<1>4. /\ next \in Panel /\ next.editor = Closed /\ next.running = {}
      /\ next.feedback = Silent /\ next.tokens = tokens
      /\ next.nextToken = p.nextToken
  BY <1>1, <1>2 DEF Panel
<1>5. QED
  BY <1>3, <1>4

LEMMA MountedFields ==
  ASSUME NEW token \in Nat
  PROVE  /\ Mounted(token) \in Panel /\ Mounted(token).editor = Closed
         /\ Mounted(token).running = {} /\ Mounted(token).feedback = Silent
         /\ Mounted(token).nextToken = token
         /\ \A m \in Monitors : Mounted(token).tokens[m] = 0
<1>1. /\ [m \in Monitors |-> 0] \in [Monitors -> Nat] /\ Silent \in Feedback
      /\ Closed \in Editor
  BY ClosedFields DEF Silent, Feedback
<1>2. QED
  BY <1>1 DEF Mounted, Panel

LEMMA ClosedIsSound ==
  ASSUME NEW p \in Panel, NEW view, p.editor = Closed,
         \A m \in Monitors : p.tokens[m] = 0
  PROVE  Sound(p, view)
BY ClosedFields, PanelFields DEF Sound

LEMMA SelectFields ==
  ASSUME PanelOK, selectNode
  PROVE  PanelOK' /\ Tame
<1> DEFINE other == IF panel.node = "home" THEN "away" ELSE "home"
           cleared == ClearedAt(panel, other)
<1>1. panel \in Panel /\ panel.editor.monitor \in SUBSET Monitors
  BY PanelFields DEF PanelOK, Editor
<1>2. other \in {"home", "away"}
  OBVIOUS
<1>3. panel' = IF panel.editor.mode = "edit"
               THEN Said(cleared, "removed", panel.editor.monitor, {})
               ELSE cleared
  BY DEF selectNode, ClearedAt
<1> HIDE DEF other
<1>4. /\ cleared \in Panel /\ cleared.editor = Closed /\ cleared.running = {}
      /\ cleared.feedback = Silent /\ \A m \in Monitors : cleared.tokens[m] = 0
  BY <1>1, <1>2, ClearedFields
<1> HIDE DEF cleared
<1>5. Sound(cleared, shown')
  BY <1>4, ClosedIsSound
<1>6. CASE panel' = cleared
  BY <1>4, <1>5, <1>6 DEF Tame, Silent, PanelOK, Sound
<1>7. CASE panel' = Said(cleared, "removed", panel.editor.monitor, {})
  <2>1. "removed" \in Tones /\ {} \in SUBSET Runs
    BY DEF Tones
  <2>2. Sound(panel', shown')
    BY <1>1, <1>5, <1>7, <2>1, SaidIsSound
  <2>3. /\ SameRuns(panel', cleared)
        /\ panel'.feedback = [tone |-> "removed", monitor |-> panel.editor.monitor,
                              run |-> {}]
    BY <1>1, <1>4, <1>7, <2>1, SaidFields
  <2>4. panel'.running = {} /\ panel'.feedback.tone = "removed"
    BY <1>4, <2>3 DEF SameRuns
  <2>5. QED
    BY <2>2, <2>4 DEF Tame, PanelOK, Sound
<1>8. QED
  BY <1>3, <1>6, <1>7

LEMMA OpenFields ==
  ASSUME PanelOK, CountsOK, NEW mode \in {"create", "edit"},
         NEW monitor \in SUBSET Monitors,
         mode = "edit" => monitor \subseteq Listed(panel, shown),
         openEditor(mode, monitor)
  PROVE  PanelOK' /\ Tame
<1> DEFINE said == Said(panel, "none", {}, {})
           editor == [mode |-> mode, monitor |-> monitor,
                      revision |-> 10 * (counts.edits + 1)]
<1>1. panel \in Panel /\ Sound(panel, shown)
  BY SoundPanel DEF PanelOK
<1>2. editor \in Editor /\ editor.mode = mode /\ editor.monitor = monitor
  <2>1. 10 * (counts.edits + 1) \in Nat
    BY DEF CountsOK, Counters
  <2>2. QED
    BY <2>1 DEF Editor
<1>3. panel' = WithEditor(said, editor, {}) /\ shown' = shown
  BY DEF openEditor, WithEditor
<1> HIDE DEF editor
<1>4. /\ said \in Panel /\ SameRuns(said, panel) /\ SameForm(said, panel)
      /\ said.feedback = [tone |-> "none", monitor |-> {}, run |-> {}]
  <2>1. "none" \in Tones /\ {} \in SUBSET Monitors /\ {} \in SUBSET Runs
    BY DEF Tones
  <2>2. QED
    BY <1>1, <2>1, SaidFields
<1> HIDE DEF said
<1>5. /\ panel' \in Panel /\ SameRuns(panel', said) /\ panel'.feedback = said.feedback
      /\ panel'.node = said.node /\ panel'.editor = editor
  <2>1. {} \in SUBSET Editor
    OBVIOUS
  <2>2. QED
    BY <1>2, <1>3, <1>4, <2>1, EditorPut
<1>6. Sound(panel', shown')
  BY <1>1, <1>2, <1>3, <1>4, <1>5 DEF Sound, SameRuns, SameForm, Listed
<1>7. panel'.feedback.tone = "none"
  BY <1>4, <1>5
<1>8. Tame
  BY <1>4, <1>5, <1>7 DEF Tame, SameRuns
<1>9. QED
  BY <1>6, <1>8 DEF Sound, PanelOK
LEMMA SetIsTame ==
  ASSUME ServerOK, PanelOK, shown' = shown, NEW editor \in Editor,
         editor.mode = "closed" => editor = Closed,
         panel' = SetEditor(panel, editor)
  PROVE  PanelOK' /\ Tame
<1>1. Sound(panel, shown) /\ shown \in View
  BY SoundPanel DEF ServerOK
<1>2. /\ Sound(panel', shown) /\ SameRuns(panel', panel)
      /\ panel'.feedback = panel.feedback \/ panel'.feedback.tone # "completed"
  BY <1>1, SetEditorFields
<1>3. QED
  BY <1>2 DEF Tame, SameRuns, Sound, PanelOK

LEMMA ReturnFields ==
  ASSUME ServerOK, PanelOK, NEW q \in Request, saveReturns(q)
  PROVE  PanelOK' /\ Tame
<1> DEFINE editor == [mode |-> "edit", monitor |-> q.monitor, revision |-> q.id + 1]
<1>1. /\ Sound(panel, shown) /\ shown' = shown /\ q.monitor \in SUBSET Monitors
      /\ q.id + 1 \in Nat
  BY SoundPanel, RequestFields DEF saveReturns
<1>2. editor \in Editor /\ editor.mode = "edit"
  BY <1>1 DEF Editor
<1>3. \/ panel' = Said(panel, "error", q.monitor, {})
      \/ panel' = SetEditor(panel, Closed)
      \/ panel' = SetEditor(panel, editor)
      \/ panel' = panel
  <2>1. CASE q.answer = "refused" /\ q.what = "delete"
    BY <2>1 DEF saveReturns
  <2>2. CASE q.answer = "shown" /\ q.what = "delete"
    BY <2>2 DEF saveReturns
  <2>3. CASE q.answer = "shown" /\ q.what # "delete"
    BY <2>3 DEF saveReturns
  <2>4. CASE q.answer = "refused" /\ q.what # "delete"
    BY <2>4 DEF saveReturns
  <2>5. QED
    BY <2>1, <2>2, <2>3, <2>4 DEF saveReturns
<1> HIDE DEF editor
<1>4. CASE panel' = Said(panel, "error", q.monitor, {})
  <2>1. "error" \in Tones \ {"completed"} /\ {} \in SUBSET Runs
    BY DEF Tones
  <2>2. Sound(panel', shown) /\ Tame
    BY <1>1, <1>4, <2>1, TameSaid
  <2>3. QED
    BY <1>1, <2>2 DEF Sound, PanelOK
<1>5. CASE panel' = SetEditor(panel, Closed)
  BY <1>1, <1>5, SetIsTame, ClosedFields
<1>6. CASE panel' = SetEditor(panel, editor)
  BY <1>1, <1>2, <1>6, SetIsTame
<1>7. CASE panel' = panel
  BY <1>1, <1>7 DEF Tame, Sound, PanelOK
<1>8. QED
  BY <1>3, <1>4, <1>5, <1>6, <1>7

LEMMA RunFields ==
  ASSUME PanelOK, NEW q \in Request, NEW m \in Monitors, runAnswered(q, m)
  PROVE  /\ PanelOK' /\ panel'.feedback.tone # "completed"
         /\ panel'.running \subseteq panel.running
         /\ \A k \in Monitors : k # m => panel'.tokens[k] = panel.tokens[k]
         /\ \/ /\ q.answer = "queued" /\ panel'.tokens[m] = panel.nextToken + 1
            \/ /\ q.answer # "queued" /\ m \notin panel'.running
<1>1. /\ Sound(panel, shown) /\ panel \in Panel /\ shown' = shown
      /\ q.run \in SUBSET Runs /\ {m} \in SUBSET Monitors /\ {} \in SUBSET Runs
      /\ "queued" \in Tones /\ "error" \in Tones
  BY SoundPanel, RequestFields DEF runAnswered, PanelOK, Tones
<1>2. CASE q.answer = "queued"
  <2> DEFINE said == Said(panel, "queued", {m}, q.run)
  <2>1. /\ Sound(said, shown) /\ said.feedback.tone = "queued"
        /\ said.running = panel.running /\ said.tokens = panel.tokens
        /\ said.nextToken = panel.nextToken
    BY <1>1, SaidTells
  <2>2. panel' = pollRunReceipt(said, m)
    BY <1>2 DEF runAnswered
  <2> HIDE DEF said
  <2>3. /\ Sound(panel', shown) /\ panel'.feedback = said.feedback
        /\ panel'.running = said.running
        /\ panel'.tokens[m] = said.nextToken + 1
        /\ \A k \in Monitors : k # m => panel'.tokens[k] = said.tokens[k]
    BY <2>1, <2>2, PollFields
  <2>4. QED
    BY <1>1, <1>2, <2>1, <2>3 DEF Sound, PanelOK
<1>3. CASE q.answer # "queued"
  <2> DEFINE stopped == Stopped(panel, m)
  <2>1. /\ Sound(stopped, shown) /\ stopped.running = panel.running \ {m}
        /\ stopped.tokens = panel.tokens
    BY <1>1, StoppedFields
  <2>2. panel' = Said(stopped, "error", {m}, {})
    BY <1>3 DEF runAnswered
  <2> HIDE DEF stopped
  <2>3. /\ Sound(panel', shown) /\ panel'.feedback.tone = "error"
        /\ panel'.running = stopped.running /\ panel'.tokens = stopped.tokens
    BY <1>1, <2>1, <2>2, SaidTells
  <2>4. QED
    BY <1>1, <1>3, <2>1, <2>3 DEF Sound, PanelOK
<1>4. QED
  BY <1>2, <1>3

LEMMA SettledFields ==
  ASSUME PanelOK, NEW q \in Request, NEW m \in Monitors, pollAnswered(q, m)
  PROVE  /\ PanelOK'
         /\ \/ /\ panel' = panel
               /\ ~Current(q, m) \/ q.answer = "queued"
            \/ /\ panel'.running = panel.running \ {m}
               /\ \A k \in Monitors : k # m => panel'.tokens[k] = panel.tokens[k]
               /\ requests' = (requests \ {q}) \cup AfterPoll(q)
               /\ \/ panel'.feedback.tone # "completed"
                  \/ q.answer = "completed" /\ panel'.feedback.run = q.run
<1>1. /\ Sound(panel, shown) /\ shown' = shown /\ q.run \in SUBSET Runs
      /\ "completed" \in Tones /\ "unavailable" \in Tones
  BY SoundPanel, RequestFields DEF pollAnswered, Tones
<1>2. CASE ~Current(q, m) \/ q.answer = "queued"
  <2>1. panel' = panel
    BY <1>2 DEF pollAnswered
  <2>2. QED
    BY <1>1, <1>2, <2>1 DEF Sound, PanelOK
<1>3. CASE Current(q, m) /\ q.answer # "queued"
  <2> DEFINE tone == IF q.answer = "completed" THEN "completed" ELSE "unavailable"
  <2>1. /\ panel' = Settle(panel, m, tone, q.run)
        /\ requests' = (requests \ {q}) \cup AfterPoll(q)
    BY <1>3 DEF pollAnswered
  <2>2. tone \in Tones /\ (tone = "completed" => q.answer = "completed")
    BY <1>1
  <2> HIDE DEF tone
  <2>3. /\ Sound(panel', shown) /\ panel'.running = panel.running \ {m}
        /\ panel'.feedback = [tone |-> tone, monitor |-> {m}, run |-> q.run]
        /\ \A k \in Monitors : k # m => panel'.tokens[k] = panel.tokens[k]
    BY <1>1, <2>1, <2>2, SettleFields
  <2>4. panel'.feedback.tone = tone /\ panel'.feedback.run = q.run
    BY <2>3
  <2>5. QED
    BY <1>1, <2>1, <2>2, <2>3, <2>4 DEF Sound, PanelOK
<1>4. QED
  BY <1>2, <1>3

LEMMA RequestRunFields ==
  ASSUME PanelOK, NEW m \in Monitors, requestRun(m)
  PROVE  /\ PanelOK' /\ panel'.feedback.tone # "completed"
         /\ panel'.running = panel.running \cup {m} /\ panel'.tokens = panel.tokens
<1> DEFINE started == [panel EXCEPT !.running = @ \cup {m}]
<1>1. /\ Sound(panel, shown) /\ shown' = shown
      /\ "none" \in Tones /\ {} \in SUBSET Monitors /\ {} \in SUBSET Runs
  BY SoundPanel DEF requestRun, Tones
<1>2. /\ Sound(started, shown) /\ started.running = panel.running \cup {m}
      /\ started.tokens = panel.tokens
  BY <1>1, StartedFields
<1>3. panel' = Said(started, "none", {}, {})
  BY DEF requestRun
<1> HIDE DEF started
<1>4. /\ Sound(panel', shown) /\ panel'.feedback.tone = "none"
      /\ panel'.running = started.running /\ panel'.tokens = started.tokens
  BY <1>1, <1>2, <1>3, SaidTells
<1>5. QED
  BY <1>1, <1>2, <1>4 DEF Sound, PanelOK

ChangesRuns(m) ==
  requestRun(m) \/ \E q \in requests : runAnswered(q, m) \/ pollAnswered(q, m)

LEMMA PanelStep ==
  PanelInv /\ [Next]_vars => PanelOK' /\ (Tame \/ \E m \in Monitors : ChangesRuns(m))
<1> SUFFICES ASSUME PanelInv, [Next]_vars
             PROVE  PanelOK' /\ (Tame \/ \E m \in Monitors : ChangesRuns(m))
  OBVIOUS
<1>1. /\ ServerOK /\ PanelOK /\ CountsOK /\ shown \in View /\ Sound(panel, shown)
      /\ panel \in Panel /\ \A q \in requests : q \in Request
  BY SoundPanel DEF PanelInv, ServerOK, RequestsOK, RequestOK, PanelOK
<1>2. ASSUME shown' = shown, Sound(panel', shown) PROVE PanelOK'
  BY <1>2 DEF Sound, PanelOK
<1>3. CASE UNCHANGED <<panel, shown>>
  BY <1>1, <1>2, <1>3 DEF Tame
<1>4. CASE Shows(panel)
  <2>1. Newer(shown) \in View /\ shown' = Newer(shown)
        /\ panel' = Rerender(panel, shown')
    BY <1>1, <1>4, NewerFields DEF Shows
  <2>2. /\ Sound(panel', shown') /\ Tame
    BY <1>1, <2>1, RerenderFields DEF Tame
  <2>3. QED
    BY <2>2 DEF Sound, PanelOK
<1>5. ASSUME NEW m \in Monitors, requestRun(m)
      PROVE  PanelOK' /\ \E k \in Monitors : ChangesRuns(k)
  BY <1>1, <1>5, RequestRunFields DEF ChangesRuns
<1>6. ASSUME NEW q \in requests, NEW m \in Monitors,
             runAnswered(q, m) \/ pollAnswered(q, m)
      PROVE  PanelOK' /\ \E k \in Monitors : ChangesRuns(k)
  BY <1>1, <1>6, RunFields, SettledFields DEF ChangesRuns
<1>7. ASSUME NEW tone \in {"none", "error"}, NEW monitor \in SUBSET Monitors,
             panel' = Said(panel, tone, monitor, {}), shown' = shown
      PROVE  PanelOK' /\ Tame
  <2>1. tone \in Tones \ {"completed"} /\ {} \in SUBSET Runs
    BY DEF Tones
  <2>2. QED
    BY <1>1, <1>2, <1>7, <2>1, TameSaid
<1>8. ASSUME NEW q \in requests, refreshed(q) PROVE PanelOK' /\ Tame
  <2>1. q.monitor \in SUBSET Monitors
    BY <1>1, RequestFields
  <2>2. QED
    BY <1>3, <1>7, <1>8, <2>1, <1>1, <1>2 DEF refreshed, Tame
<1>9. ASSUME NEW m \in Monitors, removeMonitor(m) PROVE PanelOK' /\ Tame
  <2>1. panel' = Said(panel, "none", {}, {}) /\ shown' = shown
    BY <1>9 DEF removeMonitor
  <2>2. QED
    BY <1>7, <2>1
<1>10. ASSUME NEW m \in Monitors, m \in Listed(panel, shown), openEditor("edit", {m})
       PROVE  PanelOK' /\ Tame
  BY <1>1, <1>10, OpenFields
<1>11. CASE openEditor("create", {})
  BY <1>1, <1>11, OpenFields
<1>12. CASE update
  <2>1. /\ panel' = [panel EXCEPT !.typed = {panel.editor}] /\ shown' = shown
        /\ {panel.editor} \in SUBSET Editor
    BY <1>1, <1>12, PanelFields DEF update
  <2>2. /\ panel' \in Panel /\ SameRuns(panel', panel) /\ panel'.node = panel.node
        /\ panel'.editor = panel.editor /\ panel'.feedback = panel.feedback
    BY <1>1, <2>1 DEF Panel, SameRuns
  <2>3. QED
    BY <1>1, <1>2, <2>1, <2>2 DEF Sound, SameRuns, Listed, Tame
<1>13. CASE onCancel
  <2>1. panel' = WithEditor(panel, Closed, {}) /\ shown' = shown
    BY <1>13 DEF onCancel, WithEditor
  <2>2. /\ panel' \in Panel /\ SameRuns(panel', panel) /\ panel'.node = panel.node
        /\ panel'.editor = Closed /\ panel'.feedback = panel.feedback
    BY <1>1, <2>1, EditorPut, ClosedFields
  <2>3. QED
    BY <1>1, <1>2, <2>1, <2>2, ClosedFields DEF Sound, SameRuns, Listed, Tame
<1>14. ASSUME NEW q \in requests, saveReturns(q) PROVE PanelOK' /\ Tame
  BY <1>1, <1>14, ReturnFields
<1>15. CASE selectNode
  BY <1>1, <1>15, SelectFields
<1>16. CASE unmount
  <2>1. /\ panel' = Mounted(panel.nextToken) /\ shown' = shown
        /\ panel.nextToken \in Nat
    BY <1>1, <1>16, PanelFields DEF unmount
  <2>2. /\ panel' \in Panel /\ panel'.editor = Closed /\ panel'.running = {}
        /\ panel'.feedback = Silent /\ \A m \in Monitors : panel'.tokens[m] = 0
    BY <2>1, MountedFields
  <2>3. QED
    BY <1>2, <2>1, <2>2, ClosedIsSound DEF Tame, Silent
<1>17. QED
  BY <1>3, <1>4, <1>5, <1>6, <1>8, <1>9, <1>10, <1>11, <1>12, <1>13, <1>14,
     <1>15, <1>16
  DEF Next, User, Callbacks, Answers, Executions, saveMonitor, otherBegins,
      otherEnds, poll, sync, run_monitor_now, get_monitor_run, store, runEnds,
      prune, requestFails, refreshMonitorSnapshot, removedElsewhere, vars
-----------------------------------------------------------------------------
(* The requests, and the counters.                                          *)

LEMMA CountStep ==
  ASSUME CountsOK, NEW what \in {"clicks", "edits", "moves", "others", "failures"},
         Count(what)
  PROVE  CountsOK'
BY DEF CountsOK, Counters, Count

LEMMA CountsStep == CountsOK /\ [Next]_vars => CountsOK'
<1> SUFFICES ASSUME CountsOK, [Next]_vars PROVE CountsOK'
  OBVIOUS
<1>1. CASE UNCHANGED counts
  BY <1>1 DEF CountsOK
<1>2. CASE Count("clicks") \/ Count("edits") \/ Count("moves") \/ Count("others")
           \/ Count("failures")
  BY <1>2, CountStep
<1>3. QED
  BY <1>1, <1>2
  DEF Next, User, Callbacks, Answers, Executions, requestRun, removeMonitor,
      openEditor, update, onCancel, saveMonitor, selectNode, unmount, otherBegins,
      otherEnds, refreshed, saveReturns, runAnswered, poll, pollAnswered, sync,
      run_monitor_now, get_monitor_run, store, runEnds, prune, requestFails,
      refreshMonitorSnapshot, removedElsewhere, vars

LEMMA SavingStep == saving \in BOOLEAN /\ [Next]_vars => saving' \in BOOLEAN
BY DEF Next, User, Callbacks, Answers, Executions, requestRun, removeMonitor,
       openEditor, update, onCancel, saveMonitor, selectNode, unmount, otherBegins,
       otherEnds, refreshed, saveReturns, runAnswered, poll, pollAnswered, sync,
       run_monitor_now, get_monitor_run, store, runEnds, prune, requestFails,
       refreshMonitorSnapshot, removedElsewhere, vars

LEMMA RequestsPut ==
  ASSUME RequestsOK, Grows, \A n \in requests' : n \in requests \/ RequestOK(n)'
  PROVE  RequestsOK'
<1>1. ASSUME NEW n \in requests PROVE RequestOK(n)'
  <2>1. RequestOK(n) /\ n.run \in SUBSET Runs
    BY RequestFields DEF RequestsOK, RequestOK
  <2>2. \A r \in n.run : server'.runs[r].status # "none"
    BY <2>1 DEF RequestOK, Grows
  <2>3. n.what = "poll" /\ n.answer = "completed" => \A r \in n.run : Ended(r)'
    BY <2>1 DEF RequestOK, Grows
  <2>4. QED
    BY <2>1, <2>2, <2>3 DEF RequestOK
<1>2. QED
  BY <1>1 DEF RequestsOK

(* A request that goes on, with its receipt or without.                     *)
LEMMA NextRequest ==
  ASSUME Grows, NEW q, RequestOK(q), NEW next \in Request,
         next.monitor = q.monitor \/ next.what \notin {"run", "poll"},
         next.what \in {"run", "poll"} => q.what \in {"run", "poll"},
         next.run = q.run,
         next.what # "poll" \/ next.answer # "completed"
  PROVE  RequestOK(next)'
<1>1. q.run \in SUBSET Runs
  BY RequestFields DEF RequestOK
<1>2. \A r \in next.run : server'.runs[r].status # "none"
  BY <1>1 DEF RequestOK, Grows
<1>3. QED
  BY <1>2 DEF RequestOK

LEMMA AskedRequest ==
  ASSUME NEW next \in Request, next.run = {},
         next.what \in {"run", "poll"} => \E m \in Monitors : next.monitor = {m}
  PROVE  RequestOK(next)'
BY DEF RequestOK
LEMMA RequestsStep == PanelInv /\ [Next]_vars => RequestsOK'
<1> SUFFICES ASSUME PanelInv, [Next]_vars PROVE RequestsOK'
  OBVIOUS
<1>1. /\ RequestsOK /\ Grows /\ CountsOK /\ PanelOK /\ ServerOK
      /\ \A q \in requests : RequestOK(q) /\ q \in Request
  BY ServerStep DEF PanelInv, RequestsOK, RequestOK
<1>2. CASE requests' \subseteq requests
  BY <1>1, <1>2, RequestsPut
<1>3. ASSUME NEW next, RequestOK(next)',
             \A n \in requests' : n \in requests \/ n = next
      PROVE  RequestsOK'
  BY <1>1, <1>3, RequestsPut
<1>4. ASSUME NEW q \in requests, NEW answer \in AnswerValues, Answer(q, answer),
             q.what # "poll" \/ answer # "completed"
      PROVE  RequestsOK'
  <2> DEFINE next == [q EXCEPT !.answer = answer]
  <2>1. /\ next \in Request /\ next.what = q.what /\ next.monitor = q.monitor
        /\ next.run = q.run /\ next.token = q.token /\ next.answer = answer
    BY <1>1, AnswerFields
  <2>2. \A n \in requests' : n \in requests \/ n = next
    BY <1>4 DEF Answer
  <2> HIDE DEF next
  <2>3. RequestOK(next)'
    BY <1>1, <1>4, <2>1, NextRequest
  <2>4. QED
    BY <1>3, <2>2, <2>3
<1>5. ASSUME NEW m \in Monitors, requestRun(m) PROVE RequestsOK'
  <2> DEFINE next == Ask("run", {m}, {}, 0, "awaited")
  <2>1. {m} \in SUBSET Monitors /\ {} \in SUBSET Runs /\ "awaited" \in AnswerValues
    BY DEF AnswerValues
  <2>2. next \in Request /\ next.run = {} /\ next.monitor = {m}
    BY <1>1, <2>1, AskFields
  <2>3. \A n \in requests' : n \in requests \/ n = next
    BY <1>5 DEF requestRun
  <2> HIDE DEF next
  <2>4. QED
    BY <1>3, <2>2, <2>3, AskedRequest
<1>6. CASE saveMonitor
  <2> DEFINE asked == Ask(panel.editor.mode, panel.editor.monitor, {}, 0, "awaited")
             next == [asked EXCEPT !.id = panel.editor.revision]
  <2>1. /\ panel.editor \in Editor /\ panel.editor.mode # "closed"
        /\ requests' = requests \cup {next}
    BY <1>1, <1>6, PanelFields DEF saveMonitor, PanelOK
  <2>2. /\ panel.editor.mode \in {"create", "edit"} /\ panel.editor.revision \in Nat
        /\ panel.editor.monitor \in SUBSET Monitors
        /\ {} \in SUBSET Runs /\ "awaited" \in AnswerValues
    BY <2>1 DEF Editor, AnswerValues
  <2>3. asked \in Request /\ asked.run = {} /\ asked.what \in {"create", "edit"}
    BY <1>1, <2>2, AskFields
  <2> HIDE DEF asked
  <2>4. next \in Request /\ next.run = {} /\ next.what \in {"create", "edit"}
    BY <2>2, <2>3 DEF Request
  <2> HIDE DEF next
  <2>5. QED
    BY <1>3, <2>1, <2>4, AskedRequest
<1>7. ASSUME NEW m \in Monitors, removeMonitor(m) PROVE RequestsOK'
  <2> DEFINE token == IF {m} = panel.editor.monitor THEN 1 ELSE 0
             next == Ask("delete", {m}, {}, token, "awaited")
  <2>1. /\ {m} \in SUBSET Monitors /\ {} \in SUBSET Runs /\ token \in Nat
        /\ "awaited" \in AnswerValues
    BY DEF AnswerValues
  <2>2. \A n \in requests' : n \in requests \/ n = next
    BY <1>7 DEF removeMonitor
  <2> HIDE DEF token
  <2>3. next \in Request /\ next.run = {} /\ next.what = "delete"
    BY <1>1, <2>1, AskFields
  <2> HIDE DEF next
  <2>4. QED
    BY <1>3, <2>2, <2>3, AskedRequest
<1>8. CASE otherBegins
  <2> DEFINE next == Ask("elsewhere", {}, {}, 0, "awaited")
  <2>1. {} \in SUBSET Monitors /\ {} \in SUBSET Runs /\ "awaited" \in AnswerValues
    BY DEF AnswerValues
  <2>2. next \in Request /\ next.run = {} /\ next.what = "elsewhere"
    BY <1>1, <2>1, AskFields
  <2>3. \A n \in requests' : n \in requests \/ n = next
    BY <1>8 DEF otherBegins
  <2> HIDE DEF next
  <2>4. QED
    BY <1>3, <2>2, <2>3, AskedRequest
<1>9. ASSUME NEW q \in requests, NEW m \in Monitors, runAnswered(q, m)
      PROVE  RequestsOK'
  <2>1. CASE q.answer # "queued"
    BY <1>2, <1>9, <2>1 DEF runAnswered
  <2>2. CASE q.answer = "queued"
    <3> DEFINE asked == [q EXCEPT !.what = "poll", !.answer = "due",
                                  !.token = panel.nextToken + 1]
    <3>1. panel.nextToken + 1 \in Nat /\ q.what = "run"
      BY <1>1, <1>9, PanelFields DEF PanelOK, runAnswered
    <3>2. PICK next : next = asked
      OBVIOUS
    <3>3. /\ next \in Request /\ next.what = "poll" /\ next.answer = "due"
          /\ next.monitor = q.monitor /\ next.run = q.run
          /\ \A n \in requests' : n \in requests \/ n = next
      <4>1. /\ asked \in Request /\ asked.what = "poll" /\ asked.answer = "due"
            /\ asked.monitor = q.monitor /\ asked.run = q.run
        BY <1>1, <3>1 DEF Request
      <4>2. \A n \in requests' : n \in requests \/ n = asked
        BY <1>9, <2>2 DEF runAnswered
      <4> HIDE DEF asked
      <4>3. QED
        BY <3>2, <4>1, <4>2
    <3>4. RequestOK(next)'
      BY <1>1, <3>1, <3>3, NextRequest
    <3>5. QED
      BY <1>3, <3>3, <3>4
  <2>3. QED
    BY <2>1, <2>2
<1>10. ASSUME NEW q \in requests, NEW m \in Monitors, poll(q, m) PROVE RequestsOK'
  <2>1. CASE Current(q, m)
    <3>1. Answer(q, "awaited") /\ "awaited" \in AnswerValues
      BY <1>10, <2>1 DEF poll, Answer, AnswerValues
    <3>2. QED
      BY <1>4, <3>1
  <2>2. CASE ~Current(q, m)
    BY <1>2, <1>10, <2>2 DEF poll
  <2>3. QED
    BY <2>1, <2>2
<1>11. ASSUME NEW q \in requests, NEW m \in Monitors, pollAnswered(q, m)
       PROVE  RequestsOK'
  <2>1. CASE ~Current(q, m)
    BY <1>2, <1>11, <2>1 DEF pollAnswered
  <2>2. CASE Current(q, m) /\ q.answer = "queued"
    <3>1. Answer(q, "due") /\ "due" \in AnswerValues
      BY <1>11, <2>2 DEF pollAnswered, Answer, AnswerValues
    <3>2. QED
      BY <1>4, <3>1
  <2>3. CASE Current(q, m) /\ q.answer # "queued"
    <3> DEFINE next == [q EXCEPT !.what = "refresh", !.answer = "awaited"]
    <3>1. /\ next \in Request /\ next.what = "refresh" /\ next.run = q.run
      BY <1>1 DEF Request
    <3>2. \A n \in requests' : n \in requests \/ n = next
      BY <1>11, <2>3 DEF pollAnswered, AfterPoll
    <3> HIDE DEF next
    <3>3. RequestOK(next)'
      BY <1>1, <3>1, NextRequest
    <3>4. QED
      BY <1>3, <3>2, <3>3
  <2>4. QED
    BY <2>1, <2>2, <2>3
<1>12. CASE unmount
  <2>1. ASSUME NEW q \in requests, q.what \in Saves \cup {"elsewhere"}
        PROVE  RequestOK([q EXCEPT !.what = "elsewhere"])'
    <3> DEFINE next == [q EXCEPT !.what = "elsewhere"]
    <3>1. /\ next \in Request /\ next.what = "elsewhere" /\ next.run = q.run
      BY <1>1 DEF Request
    <3> HIDE DEF next
    <3>2. RequestOK(next)'
      BY <1>1, <3>1, NextRequest
    <3>3. QED
      BY <3>2 DEF next
  <2>2. QED
    BY <1>1, <1>12, <2>1, RequestsPut DEF unmount
<1>13. ASSUME NEW q \in requests, NEW m \in Monitors, run_monitor_now(q, m)
       PROVE  RequestsOK'
  <2>1. CASE m \notin server.monitors
    <3>1. Answer(q, "refused") /\ "refused" \in AnswerValues
      BY <1>13, <2>1 DEF run_monitor_now, AnswerValues
    <3>2. QED
      BY <1>4, <3>1
  <2>2. CASE m \in server.monitors
    <3>1. PICK r \in Runs :
            /\ server' = [server EXCEPT
                 !.runs[r] = [status |-> "queued", monitor |-> {m}, at |-> 0]]
            /\ requests' = (requests \ {q}) \cup
                             {[q EXCEPT !.answer = "queued", !.run = {r}]}
      BY <1>13, <2>2 DEF run_monitor_now
    <3> DEFINE next == [q EXCEPT !.answer = "queued", !.run = {r}]
    <3>2. {r} \in SUBSET Runs
      OBVIOUS
    <3>3. /\ next \in Request /\ next.what = q.what /\ next.monitor = q.monitor
          /\ next.run = {r} /\ next.answer = "queued"
      BY <1>1, <3>2 DEF Request
    <3>4. server'.runs[r].status = "queued"
      BY <1>1, <3>1 DEF ServerOK, Server
    <3> HIDE DEF next
    <3>5. RequestOK(next)'
      BY <1>1, <3>3, <3>4 DEF RequestOK
    <3>6. QED
      BY <1>3, <3>1, <3>5 DEF next
  <2>3. QED
    BY <2>1, <2>2
<1>14. ASSUME NEW q \in requests, get_monitor_run(q) PROVE RequestsOK'
  <2>1. PICK r \in q.run : Answer(q, server.runs[r].status)
    BY <1>14 DEF get_monitor_run
  <2>2. /\ r \in Runs /\ q.run \in SUBSET Runs /\ server' = server
        /\ q.what = "poll"
    BY <1>1, <1>14, RequestFields DEF get_monitor_run
  <2>3. PICK status : status = server.runs[r].status
    OBVIOUS
  <2>4. status \in {"queued", "completed", "unavailable"} /\ Answer(q, status)
    BY <1>1, <2>1, <2>2, <2>3, ServerFields DEF RequestOK, Receipt
  <2>5. status = "completed" => \A s \in q.run : Ended(s)'
    BY <1>1, <2>2, <2>3 DEF RequestOK, Ended
  <2> DEFINE next == [q EXCEPT !.answer = status]
  <2>6. /\ next \in Request /\ next.what = q.what /\ next.monitor = q.monitor
        /\ next.run = q.run /\ next.answer = status
    BY <1>1, <2>4, AnswerFields DEF AnswerValues
  <2>7. \A n \in requests' : n \in requests \/ n = next
    BY <2>4 DEF Answer
  <2> HIDE DEF next
  <2>8. RequestOK(next)'
    BY <1>1, <2>2, <2>5, <2>6 DEF RequestOK
  <2>9. QED
    BY <1>3, <2>7, <2>8
<1>15. ASSUME NEW q \in requests, store(q) PROVE RequestsOK'
  <2>1. PICK m \in Monitors :
          \/ Answer(q, "refused")
          \/ requests' = (requests \ {q}) \cup
                           {[q EXCEPT !.answer = "stored", !.monitor = {m}]}
    BY <1>15 DEF store
  <2>2. CASE Answer(q, "refused")
    BY <1>4, <2>2 DEF AnswerValues
  <2>3. CASE requests' = (requests \ {q}) \cup
                           {[q EXCEPT !.answer = "stored", !.monitor = {m}]}
    <3> DEFINE next == [q EXCEPT !.answer = "stored", !.monitor = {m}]
    <3>1. {m} \in SUBSET Monitors /\ q.what \in Saves
      BY <1>15 DEF store
    <3>2. /\ next \in Request /\ next.what = q.what /\ next.run = q.run
      BY <1>1, <3>1 DEF Request
    <3> HIDE DEF next
    <3>3. RequestOK(next)'
      BY <1>1, <3>1, <3>2, NextRequest DEF Saves
    <3>4. QED
      BY <1>3, <2>3, <3>3 DEF next
  <2>4. QED
    BY <2>1, <2>2, <2>3
<1>16. ASSUME NEW q \in requests, refreshMonitorSnapshot(q) \/ requestFails(q)
       PROVE  RequestsOK'
  <2>1. Answer(q, "shown") \/ Answer(q, "refused")
    BY <1>16 DEF refreshMonitorSnapshot, requestFails
  <2>2. "shown" \in AnswerValues /\ "refused" \in AnswerValues
    BY DEF AnswerValues
  <2>3. QED
    BY <1>4, <2>1, <2>2
<1>17. QED
  BY <1>2, <1>5, <1>6, <1>7, <1>8, <1>9, <1>10, <1>11, <1>12, <1>13, <1>14,
     <1>15, <1>16
  DEF Next, User, Callbacks, Answers, Executions, openEditor, update, onCancel,
      selectNode, otherEnds, refreshed, saveReturns, sync, runEnds, prune,
      removedElsewhere, vars
-----------------------------------------------------------------------------
(* A run in progress is served.                                             *)

Serves(q, m) == m \in q.monitor /\ (q.what = "run" \/ (q.what = "poll" /\ Current(q, m)))

(* The requests of runs and polls are still there, answered or not.          *)
CallsKept ==
  \A q \in requests : q.what \in {"run", "poll"} =>
    \E n \in requests' :
      n.what = q.what /\ n.monitor = q.monitor /\ n.token = q.token

LEMMA ServedTame ==
  ASSUME RunningIsServed, Tame, CallsKept
  PROVE  RunningIsServed'
BY DEF RunningIsServed, Tame, CallsKept, Current

(* A run or a poll of one monitor ends: those of the others are served still. *)
LEMMA ServedOthers ==
  ASSUME RunningIsServed, NEW q \in requests, NEW m \in Monitors, q.monitor = {m},
         \A n \in requests : n = q \/ n \in requests',
         panel'.running \subseteq panel.running,
         \A k \in panel'.running : k # m => panel'.tokens[k] = panel.tokens[k],
         m \in panel'.running => (\E n \in requests' : Serves(n, m)')
  PROVE  RunningIsServed'
<1> SUFFICES ASSUME NEW k \in panel'.running
             PROVE  \E n \in requests' : Serves(n, k)'
  BY DEF RunningIsServed, Serves
<1>1. CASE k = m
  BY <1>1
<1>2. CASE k # m
  <2>1. PICK n \in requests : Serves(n, k)
    BY DEF RunningIsServed, Serves
  <2>2. n \in requests'
    BY <1>2, <2>1 DEF Serves
  <2>3. QED
    BY <1>2, <2>1, <2>2 DEF Serves, Current
<1>3. QED
  BY <1>1, <1>2

LEMMA ServedStep == PanelInv /\ [Next]_vars => RunningIsServed'
<1> SUFFICES ASSUME PanelInv, [Next]_vars PROVE RunningIsServed'
  OBVIOUS
<1>1. /\ PanelOK /\ CountsOK /\ RunningIsServed
      /\ \A q \in requests : RequestOK(q) /\ q \in Request
      /\ panel.running \in SUBSET Monitors
  BY PanelFields DEF PanelInv, RequestsOK, RequestOK, PanelOK
<1>2. Tame \/ \E m \in Monitors : ChangesRuns(m)
  BY PanelStep
<1>3. ASSUME NEW q \in requests, NEW answer \in AnswerValues, Answer(q, answer)
      PROVE  CallsKept
  <2> DEFINE next == [q EXCEPT !.answer = answer]
  <2>1. next.what = q.what /\ next.monitor = q.monitor /\ next.token = q.token
    BY <1>1, AnswerFields
  <2>2. requests' = (requests \ {q}) \cup {next}
    BY <1>3 DEF Answer
  <2> HIDE DEF next
  <2>3. QED
    BY <2>1, <2>2 DEF CallsKept
<1>4. ASSUME NEW q \in requests, NEW m \in Monitors, q.monitor = {m},
             q.what = "poll", ~Current(q, m), requests' = requests \ {q}, panel' = panel
      PROVE  RunningIsServed'
  <2>1. \A k \in panel.running : \E n \in requests : Serves(n, k)
    BY <1>1 DEF RunningIsServed, Serves
  <2>2. \A k \in panel.running : ~Serves(q, k)
    BY <1>4 DEF Serves
  <2>3. \A k \in panel.running : \E n \in requests' : Serves(n, k)
    BY <1>4, <2>1, <2>2
  <2>4. QED
    BY <1>4, <2>3 DEF RunningIsServed, Serves, Current
<1>5. ASSUME NEW m \in Monitors, requestRun(m) PROVE RunningIsServed'
  <2> DEFINE next == Ask("run", {m}, {}, 0, "awaited")
  <2>1. {m} \in SUBSET Monitors /\ {} \in SUBSET Runs /\ "awaited" \in AnswerValues
    BY DEF AnswerValues
  <2>2. next.what = "run" /\ next.monitor = {m}
    BY <1>1, <2>1, AskFields
  <2>3. requests' = requests \cup {next}
    BY <1>5 DEF requestRun
  <2> HIDE DEF next
  <2>4. panel'.running = panel.running \cup {m} /\ panel'.tokens = panel.tokens
    BY <1>1, <1>5, RequestRunFields
  <2>5. QED
    BY <1>1, <2>2, <2>3, <2>4 DEF RunningIsServed, Current
<1>6. ASSUME NEW q \in requests, NEW m \in Monitors, runAnswered(q, m)
      PROVE  RunningIsServed'
  <2>1. q.monitor = {m} /\ q.what = "run"
    BY <1>1, <1>6 DEF RequestOK, runAnswered
  <2>2. /\ panel'.running \subseteq panel.running
        /\ \A k \in Monitors : k # m => panel'.tokens[k] = panel.tokens[k]
        /\ \/ /\ q.answer = "queued" /\ panel'.tokens[m] = panel.nextToken + 1
           \/ /\ q.answer # "queued" /\ m \notin panel'.running
    BY <1>1, <1>6, RunFields
  <2>3. \A n \in requests : n = q \/ n \in requests'
    BY <1>6 DEF runAnswered
  <2>4. CASE q.answer = "queued"
    <3> DEFINE asked == [q EXCEPT !.what = "poll", !.answer = "due",
                                  !.token = panel.nextToken + 1]
    <3>1. asked.what = "poll" /\ asked.monitor = {m}
          /\ asked.token = panel.nextToken + 1
      BY <1>1, <2>1 DEF Request
    <3>2. asked \in requests'
      BY <1>6, <2>4 DEF runAnswered
    <3> HIDE DEF asked
    <3>3. \E n \in requests' : Serves(n, m)'
      BY <2>2, <2>4, <3>1, <3>2 DEF Serves, Current
    <3>4. QED
      BY <1>1, <2>1, <2>2, <2>3, <3>3, ServedOthers
  <2>5. CASE q.answer # "queued"
    BY <1>1, <2>1, <2>2, <2>3, <2>5, ServedOthers
  <2>6. QED
    BY <2>4, <2>5
<1>7. ASSUME NEW q \in requests, NEW m \in Monitors, pollAnswered(q, m)
      PROVE  RunningIsServed'
  <2>1. q.monitor = {m} /\ q.what = "poll"
    BY <1>1, <1>7 DEF RequestOK, pollAnswered
  <2>2. CASE ~Current(q, m)
    BY <1>4, <1>7, <2>1, <2>2 DEF pollAnswered
  <2>3. CASE Current(q, m) /\ q.answer = "queued"
    <3>1. Answer(q, "due") /\ panel' = panel /\ "due" \in AnswerValues
      BY <1>7, <2>3 DEF pollAnswered, Answer, AnswerValues
    <3>2. Tame
      BY <3>1 DEF Tame
    <3>3. QED
      BY <1>1, <1>3, <3>1, <3>2, ServedTame
  <2>4. CASE Current(q, m) /\ q.answer # "queued"
    <3>1. /\ panel'.running = panel.running \ {m}
          /\ \A k \in Monitors : k # m => panel'.tokens[k] = panel.tokens[k]
          /\ requests' = (requests \ {q}) \cup AfterPoll(q)
      BY <1>1, <1>7, <2>4, SettledFields
    <3>2. QED
      BY <1>1, <2>1, <3>1, ServedOthers
  <2>5. QED
    BY <2>2, <2>3, <2>4
<1>8. ASSUME NEW q \in requests, NEW m \in Monitors, poll(q, m) PROVE RunningIsServed'
  <2>1. q.monitor = {m} /\ q.what = "poll" /\ panel' = panel
    BY <1>1, <1>8 DEF RequestOK, poll
  <2>2. CASE ~Current(q, m)
    BY <1>4, <1>8, <2>1, <2>2 DEF poll
  <2>3. CASE Current(q, m)
    <3>1. Answer(q, "awaited") /\ "awaited" \in AnswerValues
      BY <1>8, <2>3 DEF poll, Answer, AnswerValues
    <3>2. Tame
      BY <2>1 DEF Tame
    <3>3. QED
      BY <1>1, <1>3, <3>1, <3>2, ServedTame
  <2>4. QED
    BY <2>2, <2>3
<1>9. CASE unmount
  <2>1. panel' = Mounted(panel.nextToken) /\ panel.nextToken \in Nat
    BY <1>1, <1>9, PanelFields DEF unmount, PanelOK
  <2>2. panel'.running = {}
    BY <2>1, MountedFields
  <2>3. QED
    BY <2>2 DEF RunningIsServed
<1>10. ASSUME CallsKept, Tame PROVE RunningIsServed'
  BY <1>1, <1>10, ServedTame
<1>11. ASSUME requests \subseteq requests' PROVE CallsKept
  BY <1>11 DEF CallsKept
<1>12. ASSUME NEW q \in requests, q.what \notin {"run", "poll"},
              \A n \in requests : n = q \/ n \in requests'
       PROVE  CallsKept
  BY <1>12 DEF CallsKept
<1>13. ASSUME NEW q \in requests, NEW m \in Monitors, run_monitor_now(q, m)
       PROVE  CallsKept
  <2>1. CASE m \notin server.monitors
    BY <1>3, <1>13, <2>1 DEF run_monitor_now, AnswerValues
  <2>2. CASE m \in server.monitors
    <3>1. PICK r \in Runs : requests' = (requests \ {q}) \cup
                              {[q EXCEPT !.answer = "queued", !.run = {r}]}
      BY <1>13, <2>2 DEF run_monitor_now
    <3> DEFINE next == [q EXCEPT !.answer = "queued", !.run = {r}]
    <3>2. next.what = q.what /\ next.monitor = q.monitor /\ next.token = q.token
      BY <1>1 DEF Request
    <3>3. requests' = (requests \ {q}) \cup {next}
      BY <3>1
    <3> HIDE DEF next
    <3>4. QED
      BY <3>2, <3>3 DEF CallsKept
  <2>3. QED
    BY <2>1, <2>2
<1>14. ASSUME NEW q \in requests, get_monitor_run(q) PROVE CallsKept
  <2>1. PICK r \in q.run : Answer(q, server.runs[r].status)
    BY <1>14 DEF get_monitor_run
  <2>2. server.runs[r].status \in AnswerValues
    <3>1. r \in Runs
      BY <1>1, RequestFields
    <3>2. server.runs[r] \in Receipt /\ server.runs[r].status # "none"
      BY <1>1, <3>1, ServerFields DEF RequestOK, PanelInv
    <3>3. QED
      BY <3>2 DEF Receipt, AnswerValues
  <2>3. QED
    BY <1>3, <2>1, <2>2
<1>15. ASSUME NEW q \in requests, refreshMonitorSnapshot(q) \/ requestFails(q)
       PROVE  CallsKept
  <2>1. Answer(q, "shown") \/ Answer(q, "refused")
    BY <1>15 DEF refreshMonitorSnapshot, requestFails
  <2>2. "shown" \in AnswerValues /\ "refused" \in AnswerValues
    BY DEF AnswerValues
  <2>3. QED
    BY <1>3, <2>1, <2>2
<1>16. ASSUME NEW q \in requests, store(q) PROVE CallsKept
  <2>1. q.what \notin {"run", "poll"} /\ \A n \in requests : n = q \/ n \in requests'
    BY <1>16 DEF store, Saves, Answer
  <2>2. QED
    BY <1>12, <2>1
<1>17. ASSUME NEW q \in requests, refreshed(q) \/ saveReturns(q) \/ otherEnds(q)
       PROVE  CallsKept
  <2>1. q.what \notin {"run", "poll"} /\ \A n \in requests : n = q \/ n \in requests'
    BY <1>17 DEF refreshed, saveReturns, otherEnds, Saves
  <2>2. QED
    BY <1>12, <2>1
<1>18. CASE requests \subseteq requests' /\ Tame
  BY <1>10, <1>11, <1>18
<1>19. ASSUME NEW m \in Monitors, ChangesRuns(m) PROVE RunningIsServed'
  BY <1>5, <1>6, <1>7, <1>19 DEF ChangesRuns
<1>20. CASE Tame
  BY <1>5, <1>6, <1>7, <1>8, <1>9, <1>10, <1>13, <1>14, <1>15, <1>16, <1>17, <1>18,
     <1>20
  DEF Next, User, Callbacks, Answers, Executions, removeMonitor, openEditor, update,
      onCancel, saveMonitor, selectNode, otherBegins, sync, runEnds, prune,
      removedElsewhere, vars
<1>21. QED
  BY <1>2, <1>19, <1>20
-----------------------------------------------------------------------------
(* A result is shown.                                                       *)

RefreshesKept == \A q \in requests : q.what = "refresh" => q \in requests'

LEMMA FollowedKept ==
  ASSUME PanelOK, Followed, Grows, ServerOK, ServerOK',
         panel'.feedback = panel.feedback \/ panel'.feedback.tone # "completed",
         \A r \in panel.feedback.run : \A q \in requests :
           Refreshing(q, r) =>
             \/ shown'.revision >= server'.runs[r].at
             \/ \E n \in requests' : Refreshing(n, r)
  PROVE  Followed'
<1> SUFFICES ASSUME panel'.feedback = panel.feedback,
                    panel.feedback.tone = "completed",
                    NEW r \in panel.feedback.run
             PROVE  /\ Ended(r)'
                    /\ \/ shown'.revision >= server'.runs[r].at
                       \/ \E q \in requests' : Refreshing(q, r)
  BY DEF Followed
<1>1. /\ r \in Runs /\ Ended(r)
      /\ \/ shown.revision >= server.runs[r].at
         \/ \E q \in requests : Refreshing(q, r)
  BY PanelFields DEF Followed, PanelOK, Feedback
<1>2. Ended(r)' /\ server'.runs[r].at = server.runs[r].at
      /\ shown.revision <= shown'.revision
  BY <1>1 DEF Grows
<1>3. shown.revision \in Nat /\ server.runs[r].at \in Nat /\ shown'.revision \in Nat
  BY <1>1, ServerFields DEF ServerOK, View
<1>4. CASE shown.revision >= server.runs[r].at
  BY <1>2, <1>3, <1>4
<1>5. CASE \E q \in requests : Refreshing(q, r)
  BY <1>2, <1>5
<1>6. QED
  BY <1>1, <1>4, <1>5

LEMMA FollowedStep == PanelInv /\ [Next]_vars => Followed'
<1> SUFFICES ASSUME PanelInv, [Next]_vars PROVE Followed'
  OBVIOUS
<1>1. /\ PanelOK /\ Followed /\ Grows /\ ServerOK /\ ServerOK'
      /\ \A q \in requests : RequestOK(q) /\ q \in Request
  BY ServerStep DEF PanelInv, RequestsOK, RequestOK
<1>2. Tame \/ \E m \in Monitors : ChangesRuns(m)
  BY PanelStep
<1>3. CASE panel'.feedback.tone # "completed"
  BY <1>3 DEF Followed
<1>4. CASE RefreshesKept /\ Tame
  <2>1. \A r \in panel.feedback.run : \A q \in requests :
          Refreshing(q, r) => \E n \in requests' : Refreshing(n, r)
    BY <1>4 DEF RefreshesKept, Refreshing
  <2>2. QED
    BY <1>1, <1>4, <2>1, FollowedKept DEF Tame
<1>5. ASSUME NEW q \in requests, q.what # "refresh",
             \A n \in requests : n = q \/ n \in requests'
      PROVE  RefreshesKept
  BY <1>5 DEF RefreshesKept
<1>6. ASSUME NEW q \in requests, NEW m \in Monitors, pollAnswered(q, m)
      PROVE  Followed'
  <2>1. q.what = "poll" /\ \A n \in requests : n = q \/ n \in requests'
    BY <1>6 DEF pollAnswered
  <2>2. \/ panel' = panel
        \/ /\ requests' = (requests \ {q}) \cup AfterPoll(q)
           /\ \/ panel'.feedback.tone # "completed"
              \/ q.answer = "completed" /\ panel'.feedback.run = q.run
    BY <1>1, <1>6, SettledFields
  <2>3. CASE panel' = panel
    BY <1>4, <1>5, <2>1, <2>3 DEF Tame
  <2>4. CASE /\ requests' = (requests \ {q}) \cup AfterPoll(q)
             /\ q.answer = "completed" /\ panel'.feedback.run = q.run
    <3> DEFINE asked == [q EXCEPT !.what = "refresh", !.answer = "awaited"]
    <3>1. /\ asked.what = "refresh" /\ asked.answer = "awaited"
          /\ asked.run = q.run
      BY <1>1 DEF Request
    <3>2. asked \in requests'
      BY <2>4 DEF AfterPoll
    <3> HIDE DEF asked
    <3>3. \A r \in q.run : \E n \in requests' : Refreshing(n, r)
      BY <3>1, <3>2 DEF Refreshing
    <3>4. \A r \in q.run : r \in Runs /\ Ended(r)
      BY <1>1, <2>1, <2>4, RequestFields DEF RequestOK
    <3>5. \A r \in q.run : Ended(r)'
      BY <1>1, <3>4 DEF Grows
    <3>6. QED
      BY <2>4, <3>3, <3>5 DEF Followed
  <2>5. QED
    BY <1>3, <2>2, <2>3, <2>4
<1>7. ASSUME NEW m \in Monitors, ChangesRuns(m) PROVE Followed'
  BY <1>1, <1>3, <1>6, <1>7, RequestRunFields, RunFields DEF ChangesRuns
<1>8. ASSUME NEW q \in requests, refreshed(q), Tame PROVE Followed'
  <2>1. CASE q.answer = "shown"
    <3>1. \A r \in panel.feedback.run : \A n \in requests :
            Refreshing(n, r) => n \in requests'
      BY <1>8, <2>1 DEF refreshed, Refreshing
    <3>2. QED
      BY <1>1, <1>8, <3>1, FollowedKept DEF Tame
  <2>2. CASE q.answer = "refused"
    <3>1. panel' = Said(panel, "error", q.monitor, {}) /\ Sound(panel, shown)
      BY <1>1, <1>8, <2>2, SoundPanel DEF refreshed
    <3>2. q.monitor \in SUBSET Monitors /\ {} \in SUBSET Runs /\ "error" \in Tones
      BY <1>1, RequestFields DEF Tones
    <3>3. panel'.feedback.tone = "error"
      BY <3>1, <3>2, SaidTells
    <3>4. QED
      BY <1>3, <3>3
  <2>3. QED
    BY <1>8, <2>1, <2>2 DEF refreshed
<1>9. ASSUME NEW q \in requests, refreshMonitorSnapshot(q), Tame PROVE Followed'
  <2>1. shown' = Newer(shown) /\ server' = server
    BY <1>9 DEF refreshMonitorSnapshot, Shows
  <2>2. shown'.revision = server.revision
    BY <1>1, <2>1, NewerFields
  <2>3. \A r \in panel.feedback.run : r \in Runs
    BY <1>1, PanelFields DEF PanelOK, Feedback
  <2>4. \A r \in panel.feedback.run : shown'.revision >= server'.runs[r].at
    BY <1>1, <2>1, <2>2, <2>3, ServerFields
  <2>5. QED
    BY <1>1, <1>9, <2>4, FollowedKept DEF Tame
<1>10. ASSUME NEW q \in requests, requestFails(q), Tame PROVE Followed'
  <2> DEFINE next == [q EXCEPT !.answer = "refused"]
  <2>1. requests' = (requests \ {q}) \cup {next}
    BY <1>10 DEF requestFails, Answer
  <2>2. next.what = q.what /\ next.run = q.run /\ next.answer = "refused"
    BY <1>1 DEF Request
  <2> HIDE DEF next
  <2>3. \A r \in panel.feedback.run : \A n \in requests :
          Refreshing(n, r) => \E k \in requests' : Refreshing(k, r)
    BY <2>1, <2>2 DEF Refreshing
  <2>4. QED
    BY <1>1, <1>10, <2>3, FollowedKept DEF Tame
<1>11. CASE unmount
  <2>1. panel' = Mounted(panel.nextToken) /\ panel.nextToken \in Nat
    BY <1>1, <1>11, PanelFields DEF unmount, PanelOK
  <2>2. panel'.feedback.tone = "none"
    BY <2>1, MountedFields DEF Silent
  <2>3. QED
    BY <1>3, <2>2
<1>12. ASSUME requests \subseteq requests' PROVE RefreshesKept
  BY <1>12 DEF RefreshesKept
<1>13. ASSUME NEW q \in requests, \E m \in Monitors :
                poll(q, m) \/ runAnswered(q, m) \/ run_monitor_now(q, m)
       PROVE  RefreshesKept
  <2>1. q.what # "refresh" /\ \A n \in requests : n = q \/ n \in requests'
    BY <1>13 DEF poll, runAnswered, run_monitor_now, Answer
  <2>2. QED
    BY <1>5, <2>1
<1>14. ASSUME NEW q \in requests,
              get_monitor_run(q) \/ store(q) \/ saveReturns(q) \/ otherEnds(q)
       PROVE  RefreshesKept
  <2>1. q.what # "refresh" /\ \A n \in requests : n = q \/ n \in requests'
    BY <1>14 DEF get_monitor_run, store, saveReturns, otherEnds, Answer, Saves
  <2>2. QED
    BY <1>5, <2>1
<1>15. CASE Tame
  <2>1. CASE RefreshesKept
    BY <1>4, <1>15, <2>1
  <2>2. QED
    BY <1>6, <1>8, <1>9, <1>10, <1>11, <1>12, <1>13, <1>14, <1>15, <2>1
    DEF Next, User, Callbacks, Answers, Executions, requestRun, removeMonitor,
        openEditor, update, onCancel, saveMonitor, selectNode, otherBegins, sync,
        runEnds, prune, removedElsewhere, vars
<1>16. QED
  BY <1>2, <1>7, <1>15

-----------------------------------------------------------------------------
(* The inductive invariant: the panel serves every run it shows in progress, *)
(* follows every result it tells of, and edits only what is listed.         *)
THEOREM PanelInvariant == Spec => []PanelInv
<1>1. Init => PanelInv
  <2> SUFFICES ASSUME Init PROVE PanelInv
    OBVIOUS
  <2>1. /\ panel = Mounted(0) /\ requests = {} /\ saving = FALSE
        /\ shown = [revision |-> 0, monitors |-> Initial]
    BY DEF Init
  <2>2. /\ panel \in Panel /\ panel.editor = Closed /\ panel.running = {}
        /\ panel.feedback = Silent /\ \A m \in Monitors : panel.tokens[m] = 0
    BY <2>1, MountedFields
  <2>3. PanelOK
    BY <2>2, ClosedIsSound, SoundPanel
  <2>4. ServerOK
    <3> DEFINE receipt == [status |-> "none", monitor |-> {}, at |-> 0]
               runs == [r \in Runs |-> receipt]
    <3>1. receipt \in Receipt /\ receipt.at = 0
      BY DEF Receipt
    <3> HIDE DEF receipt
    <3>2. runs \in [Runs -> Receipt] /\ \A r \in Runs : runs[r].at = 0
      BY <3>1
    <3> HIDE DEF runs
    <3>3. server = [revision |-> 0, monitors |-> Initial, gone |-> {}, runs |-> runs]
      BY DEF Init, runs, receipt
    <3>4. /\ server \in Server /\ server.revision = 0 /\ server.runs = runs
          /\ shown \in View /\ shown.revision = 0
      BY <2>1, <3>2, <3>3, PanelAssumption DEF Server, View
    <3>5. QED
      BY <3>2, <3>4 DEF ServerOK
  <2>5. CountsOK
    BY DEF Init, CountsOK, Counters
  <2>6. Followed /\ RunningIsServed /\ RequestsOK
    BY <2>1, <2>2 DEF Followed, RunningIsServed, RequestsOK, Silent
  <2>7. QED
    BY <2>1, <2>3, <2>4, <2>5, <2>6 DEF PanelInv
<1>2. PanelInv /\ [Next]_vars => PanelInv'
  <2> SUFFICES ASSUME PanelInv, [Next]_vars PROVE PanelInv'
    OBVIOUS
  <2>1. ServerOK' /\ PanelOK' /\ RequestsOK' /\ RunningIsServed' /\ Followed'
    BY ServerStep, PanelStep, RequestsStep, ServedStep, FollowedStep
  <2>2. CountsOK' /\ saving' \in BOOLEAN
    BY CountsStep, SavingStep DEF PanelInv
  <2>3. QED
    BY <2>1, <2>2 DEF PanelInv
<1>3. QED
  BY <1>1, <1>2, PTL DEF Spec

(* The type invariant that the run checks.                                  *)
THEOREM PanelTypeCorrect == Spec => []TypeOK
<1>1. PanelInv => TypeOK
  BY DEF PanelInv, ServerOK, PanelOK, RequestsOK, RequestOK, TypeOK
<1>2. QED
  BY <1>1, PanelInvariant, PTL

(* Every run shown in progress has somebody who will release its button, and *)
(* a result told of is shown once its refresh has ended (MonitorPanel's     *)
(* requestRun, pollRunReceipt and refreshAfterReceipt).                     *)
THEOREM RunsStayFollowed == Spec => []RunsAreFollowed
<1>1. PanelInv => RunsAreFollowed
  <2> SUFFICES ASSUME PanelInv PROVE RunningIsServed /\ ResultIsShown
    BY DEF RunsAreFollowed
  <2>1. ResultIsShown
    BY DEF PanelInv, Followed, Refreshing, ResultIsShown
  <2>2. QED
    BY <2>1 DEF PanelInv
<1>2. QED
  BY <1>1, PanelInvariant, PTL

Survives ==
  shown' # shown /\ panel.typed # {} =>
    \/ panel'.typed = panel.typed
    \/ /\ panel.editor.mode = "edit"
       /\ ~(panel.editor.monitor \subseteq server.monitors)

LEMMA SurvivesStep == PanelInv /\ [Next]_vars => Survives
<1> SUFFICES ASSUME PanelInv, [Next]_vars, shown' # shown
             PROVE  \/ panel'.typed = panel.typed
                    \/ /\ panel.editor.mode = "edit"
                       /\ ~(panel.editor.monitor \subseteq server.monitors)
  BY DEF Survives
<1>1. ServerOK /\ PanelOK /\ Sound(panel, shown) /\ shown \in View
  BY SoundPanel DEF PanelInv, ServerOK
<1>2. Shows(panel)
  BY DEF Next, User, Callbacks, Answers, Executions, requestRun, removeMonitor,
         openEditor, update, onCancel, saveMonitor, selectNode, unmount,
         otherBegins, otherEnds, refreshed, saveReturns, runAnswered, poll,
         pollAnswered, sync, run_monitor_now, get_monitor_run, store, runEnds,
         prune, requestFails, refreshMonitorSnapshot, removedElsewhere, vars
<1>3. /\ panel' = Rerender(panel, Newer(shown)) /\ Newer(shown) \in View
      /\ Newer(shown).monitors = server.monitors
  BY <1>1, <1>2, NewerFields DEF Shows
<1>4. panel'.typed = panel.typed \/ Closes(panel, Newer(shown))
  BY <1>1, <1>3, RerenderFields
<1>5. ASSUME Closes(panel, Newer(shown))
      PROVE  /\ panel.editor.mode = "edit"
             /\ ~(panel.editor.monitor \subseteq server.monitors)
  BY <1>1, <1>3, <1>5 DEF Closes, Listed, Sound
<1>6. QED
  BY <1>4, <1>5

(* A snapshot takes from the user what was typed only when the monitor that  *)
(* it is about has been removed (the draft's key in MonitorEditor).         *)
THEOREM DraftStays == Spec => DraftSurvivesRefresh
<1>1. PanelInv /\ [Next]_vars => [Survives]_vars
  BY SurvivesStep
<1>2. QED
  BY <1>1, PanelInvariant, PTL DEF Spec, DraftSurvivesRefresh, Survives
-----------------------------------------------------------------------------
(* The form and the API, for every draft: any integer, any target, any text. *)

AnyTarget == SUBSET {"ipv4", "filled", "indented", "trailing", "break"}
AnyDraft == Draft(AnyTarget, Int, Text, Int, Int)

(* Whatever the API may have stored of a monitor.                           *)
AnyStored ==
  {Normal(p) : p \in {p \in Draft({{"ipv4"}}, Int, Text \cup {Null}, Int, Int) :
                        FieldsAccepted(p)}}

(* A record of a draft's fields is what its fields are.                     *)
Fields(r) ==
  [kind |-> r.kind, target_ipv4 |-> r.target_ipv4, port |-> r.port,
   scheme |-> r.scheme, path |-> r.path, host_header |-> r.host_header,
   verify_tls |-> r.verify_tls, interval_seconds |-> r.interval_seconds,
   timeout_seconds |-> r.timeout_seconds]

LEMMA PayloadFields ==
  ASSUME NEW draft \in AnyDraft
  PROVE  LET p    == Payload(draft)
             http == draft.kind = "http"
         IN /\ p.kind = draft.kind /\ p.target_ipv4 = Trim(draft.target_ipv4)
            /\ p.port = (IF draft.kind = "icmp" THEN NoPort ELSE draft.port)
            /\ p.scheme = (IF http THEN draft.scheme ELSE NoScheme)
            /\ p.path = (IF http THEN HttpPath(draft) ELSE Null)
            /\ p.host_header = (IF http THEN trimOrNull(draft.host_header) ELSE Null)
            /\ p.verify_tls = (IF http /\ draft.scheme = "https"
                               THEN draft.verify_tls ELSE TRUE)
            /\ p.interval_seconds = draft.interval_seconds
            /\ p.timeout_seconds = draft.timeout_seconds
            /\ p = Fields(p)
<1> DEFINE target == Trim(draft.target_ipv4)
           port == IF draft.kind = "icmp" THEN NoPort ELSE draft.port
           scheme == IF draft.kind = "http" THEN draft.scheme ELSE NoScheme
           path == IF draft.kind = "http" THEN HttpPath(draft) ELSE Null
           host == IF draft.kind = "http" THEN trimOrNull(draft.host_header)
                   ELSE Null
           verify == IF draft.kind = "http" /\ draft.scheme = "https"
                     THEN draft.verify_tls ELSE TRUE
           p == Payload(draft)
<1>1. p = [draft EXCEPT !.target_ipv4 = target, !.port = port, !.scheme = scheme,
                        !.path = path, !.host_header = host, !.verify_tls = verify]
  BY DEF Payload
<1> HIDE DEF target, port, scheme, path, host, verify, p
<1>2. /\ p.kind = draft.kind /\ p.target_ipv4 = target /\ p.port = port
      /\ p.scheme = scheme /\ p.path = path /\ p.host_header = host
      /\ p.verify_tls = verify /\ p.interval_seconds = draft.interval_seconds
      /\ p.timeout_seconds = draft.timeout_seconds
  BY <1>1 DEF AnyDraft, Draft
<1>3. p = Fields(p)
  BY <1>1 DEF AnyDraft, Draft, Fields
<1>4. QED
  BY <1>2, <1>3 DEF target, port, scheme, path, host, verify, p

(* Which fields are in error, one by one.                                   *)
LEMMA ErrorFields ==
  ASSUME NEW draft
  PROVE  LET errors == Errors(draft)
         IN /\ "target_ipv4" \in errors <=> ~validIpv4(Trim(draft.target_ipv4))
            /\ "interval_seconds" \in errors
                 <=> ~integerInRange(draft.interval_seconds, 5, 3600)
            /\ "timeout_seconds" \in errors
                 <=> ~integerInRange(draft.timeout_seconds, 1, 30)
            /\ "port" \in errors <=> /\ draft.kind # "icmp"
                                     /\ ~integerInRange(draft.port, 1, 65535)
            /\ "scheme" \in errors <=> draft.kind = "http" /\ draft.scheme = NoScheme
            /\ "path" \in errors <=> /\ draft.kind = "http"
                                     /\ ~startsWithSlash(HttpPath(draft))
            /\ "host_header" \in errors <=> /\ draft.kind = "http"
                                            /\ "break" \in draft.host_header
            /\ errors \subseteq {"target_ipv4", "interval_seconds",
                 "timeout_seconds", "port", "scheme", "path", "host_header"}
<1> DEFINE errors == Errors(draft)
<1>1. "target_ipv4" \in errors <=> ~validIpv4(Trim(draft.target_ipv4))
  BY DEF Errors
<1>2. "interval_seconds" \in errors
        <=> ~integerInRange(draft.interval_seconds, 5, 3600)
  BY DEF Errors
<1>3. "timeout_seconds" \in errors
        <=> ~integerInRange(draft.timeout_seconds, 1, 30)
  BY DEF Errors
<1>4. "port" \in errors <=> /\ draft.kind # "icmp"
                           /\ ~integerInRange(draft.port, 1, 65535)
  BY DEF Errors
<1>5. "scheme" \in errors <=> draft.kind = "http" /\ draft.scheme = NoScheme
  BY DEF Errors
<1>6. "path" \in errors <=> /\ draft.kind = "http"
                           /\ ~startsWithSlash(HttpPath(draft))
  BY DEF Errors
<1>7. "host_header" \in errors <=> /\ draft.kind = "http"
                                  /\ "break" \in draft.host_header
  BY DEF Errors
<1>8. errors \subseteq {"target_ipv4", "interval_seconds", "timeout_seconds",
        "port", "scheme", "path", "host_header"}
  BY DEF Errors
<1>9. QED
  BY <1>1, <1>2, <1>3, <1>4, <1>5, <1>6, <1>7, <1>8

LEMMA NoErrors ==
  ASSUME NEW draft
  PROVE  Errors(draft) = {} <=>
           /\ validIpv4(Trim(draft.target_ipv4))
           /\ integerInRange(draft.interval_seconds, 5, 3600)
           /\ integerInRange(draft.timeout_seconds, 1, 30)
           /\ draft.kind # "icmp" => integerInRange(draft.port, 1, 65535)
           /\ draft.kind = "http" => /\ draft.scheme # NoScheme
                                     /\ startsWithSlash(HttpPath(draft))
                                     /\ "break" \notin draft.host_header
<1> PICK errors : errors = Errors(draft)
  OBVIOUS
<1>1. errors = {} <=> \A f \in {"target_ipv4", "interval_seconds",
        "timeout_seconds", "port", "scheme", "path", "host_header"} : f \notin errors
  BY ErrorFields
<1>2. QED
  BY <1>1, ErrorFields

(* What the form accepts the API accepts, whatever is typed (saveMonitor's   *)
(* validateMonitorDraft, MonitorFields and MonitorPatch).                   *)
THEOREM FormMeetsApi ==
  \A draft \in AnyDraft :
    Errors(draft) = {} /\ "long" \notin Payload(draft).path \cup Payload(draft).host_header
      => FieldsAccepted(Payload(draft)) /\ PatchAccepted(Payload(draft))
<1> SUFFICES ASSUME NEW draft \in AnyDraft, Errors(draft) = {},
                    "long" \notin Payload(draft).path \cup Payload(draft).host_header
             PROVE  FieldsAccepted(Payload(draft)) /\ PatchAccepted(Payload(draft))
  OBVIOUS
<1> DEFINE p == Payload(draft)
<1>1. /\ draft.kind \in Kinds /\ draft.scheme \in Schemes \cup {NoScheme}
      /\ draft.verify_tls \in BOOLEAN
  BY DEF AnyDraft, Draft
<1>2. /\ validIpv4(Trim(draft.target_ipv4))
      /\ integerInRange(draft.interval_seconds, 5, 3600)
      /\ integerInRange(draft.timeout_seconds, 1, 30)
      /\ draft.kind # "icmp" => integerInRange(draft.port, 1, 65535)
      /\ draft.kind = "http" => /\ draft.scheme # NoScheme
                                /\ startsWithSlash(HttpPath(draft))
                                /\ "break" \notin draft.host_header
  BY NoErrors
<1>3. /\ p.kind = draft.kind /\ p.target_ipv4 = Trim(draft.target_ipv4)
      /\ p.port = IF draft.kind = "icmp" THEN NoPort ELSE draft.port
      /\ p.scheme = IF draft.kind = "http" THEN draft.scheme ELSE NoScheme
      /\ p.path = IF draft.kind = "http" THEN HttpPath(draft) ELSE Null
      /\ p.host_header = IF draft.kind = "http" THEN trimOrNull(draft.host_header)
                         ELSE Null
      /\ p.verify_tls = IF draft.kind = "http" /\ draft.scheme = "https"
                        THEN draft.verify_tls ELSE TRUE
      /\ p.interval_seconds = draft.interval_seconds
      /\ p.timeout_seconds = draft.timeout_seconds
  BY PayloadFields
<1>4. "long" \notin p.path \cup p.host_header
  OBVIOUS
<1> HIDE DEF p
<1>5. \A n : integerInRange(n, 1, 65535) => n # NoPort
  BY DEF integerInRange, NoPort
<1>6. "break" \notin Null /\ \A t : "break" \notin t => "break" \notin trimOrNull(t)
  BY DEF Null, trimOrNull, Trim
<1>7. FieldsAccepted(p) /\ PatchAccepted(p)
  <2>1. CASE draft.kind = "icmp"
    BY <1>2, <1>3, <1>4, <1>6, <2>1 DEF FieldsAccepted, PatchAccepted
  <2>2. CASE draft.kind = "tcp"
    BY <1>2, <1>3, <1>4, <1>5, <1>6, <2>2 DEF FieldsAccepted, PatchAccepted
  <2>3. CASE draft.kind = "http"
    <3>1. draft.scheme # "https" => draft.scheme = "http"
      BY <1>1, <1>2, <2>3 DEF Schemes
    <3>2. "break" \notin p.host_header /\ startsWithSlash(p.path)
          /\ integerInRange(p.port, 1, 65535) /\ p.port # NoPort
          /\ p.scheme # NoScheme /\ (p.scheme = "http" => p.verify_tls)
      BY <1>2, <1>3, <1>5, <1>6, <2>3, <3>1
    <3>3. QED
      BY <1>2, <1>3, <1>4, <2>3, <3>2 DEF FieldsAccepted, PatchAccepted
  <2>4. QED
    BY <1>1, <2>1, <2>2, <2>3 DEF Kinds
<1>8. QED
  BY <1>7 DEF p

(* An error is of a field that the form shows.                              *)
THEOREM ErrorsStayShown == \A draft : Errors(draft) \subseteq ShownFields(draft.kind)
<1> SUFFICES ASSUME NEW draft, NEW field \in Errors(draft)
             PROVE  field \in ShownFields(draft.kind)
  OBVIOUS
<1>1. field \in {"target_ipv4", "interval_seconds", "timeout_seconds"}
      \/ (field = "port" /\ draft.kind # "icmp")
      \/ (field \in {"scheme", "path", "host_header"} /\ draft.kind = "http")
  BY ErrorFields
<1>2. QED
  BY <1>1 DEF ShownFields

LEMMA KindFields ==
  ASSUME NEW draft \in AnyDraft, NEW kind \in Kinds
  PROVE  LET changed == draftForMonitorKind(draft, kind)
         IN /\ changed.kind = kind /\ changed.target_ipv4 = draft.target_ipv4
            /\ changed.interval_seconds = draft.interval_seconds
            /\ changed.timeout_seconds = draft.timeout_seconds
            /\ kind = "icmp" => changed.port = Empty
            /\ kind # "icmp" => changed.port = draft.port
            /\ kind # "http" => /\ changed.scheme = NoScheme /\ changed.path = {}
                                /\ changed.host_header = {} /\ changed.verify_tls
            /\ kind = "http" =>
                 /\ changed.scheme = IF draft.scheme = NoScheme THEN "http"
                                     ELSE draft.scheme
                 /\ changed.path = IF draft.path = {} THEN {"filled", "slash"}
                                   ELSE draft.path
                 /\ changed.host_header = draft.host_header
<1>1. CASE kind = "icmp"
  BY <1>1 DEF draftForMonitorKind, AnyDraft, Draft
<1>2. CASE kind = "tcp"
  BY <1>2 DEF draftForMonitorKind, AnyDraft, Draft
<1>3. CASE kind = "http"
  BY <1>3 DEF draftForMonitorKind, AnyDraft, Draft
<1>4. QED
  BY <1>1, <1>2, <1>3 DEF Kinds

(* A change of kind leaves nothing of an HTTP check in the draft of another  *)
(* kind, and brings no error but that of a port (draftForMonitorKind).      *)
THEOREM KindChangeStaysTidy ==
  \A draft \in AnyDraft, kind \in Kinds :
    Tidy(draft) =>
      LET changed == draftForMonitorKind(draft, kind)
      IN Tidy(changed) /\ Errors(changed) \subseteq Errors(draft) \cup {"port"}
<1> SUFFICES ASSUME NEW draft \in AnyDraft, NEW kind \in Kinds, Tidy(draft)
             PROVE  /\ Tidy(draftForMonitorKind(draft, kind))
                    /\ Errors(draftForMonitorKind(draft, kind))
                         \subseteq Errors(draft) \cup {"port"}
  OBVIOUS
<1> DEFINE changed == draftForMonitorKind(draft, kind)
<1>1. /\ changed.kind = kind /\ changed.target_ipv4 = draft.target_ipv4
      /\ changed.interval_seconds = draft.interval_seconds
      /\ changed.timeout_seconds = draft.timeout_seconds
      /\ kind # "http" => /\ changed.scheme = NoScheme /\ changed.path = {}
                          /\ changed.host_header = {} /\ changed.verify_tls
      /\ kind = "http" =>
           /\ changed.scheme = IF draft.scheme = NoScheme THEN "http"
                               ELSE draft.scheme
           /\ changed.path = IF draft.path = {} THEN {"filled", "slash"}
                             ELSE draft.path
           /\ changed.host_header = draft.host_header
  BY KindFields
<1> HIDE DEF changed
<1>2. Tidy(changed)
  BY <1>1 DEF Tidy
<1>3. changed.kind = "http" => changed.scheme # NoScheme
  BY <1>1 DEF NoScheme
<1>4. ASSUME changed.kind = "http", "break" \in changed.host_header
      PROVE  draft.kind = "http" /\ "break" \in draft.host_header
  BY <1>1, <1>4 DEF Tidy
<1>5. ASSUME changed.kind = "http", ~startsWithSlash(HttpPath(changed))
      PROVE  draft.kind = "http" /\ ~startsWithSlash(HttpPath(draft))
  <2>1. \A d : d.path = {"filled", "slash"} => startsWithSlash(HttpPath(d))
    BY DEF HttpPath, trimOrNull, Trim, Null, startsWithSlash
  <2>2. draft.path # {} /\ draft.path # {"filled", "slash"}
        /\ changed.path = draft.path
    BY <1>1, <1>5, <2>1
  <2>3. draft.kind = "http"
    BY <2>2 DEF Tidy
  <2>4. HttpPath(changed) = HttpPath(draft)
    BY <2>2 DEF HttpPath
  <2>5. QED
    BY <1>5, <2>3, <2>4
<1>6. Errors(changed) \subseteq Errors(draft) \cup {"port"}
  <2> SUFFICES ASSUME NEW field \in Errors(changed), field # "port"
               PROVE  field \in Errors(draft)
    OBVIOUS
  <2>1. field # "scheme"
    BY <1>3, ErrorFields
  <2>2. CASE field \in {"target_ipv4", "interval_seconds", "timeout_seconds"}
    BY <1>1, <2>2, ErrorFields
  <2>3. CASE field = "path"
    BY <1>5, <2>3, ErrorFields
  <2>4. CASE field = "host_header"
    BY <1>4, <2>4, ErrorFields
  <2>5. QED
    BY <2>1, <2>2, <2>3, <2>4, ErrorFields
<1>7. QED
  BY <1>2, <1>6 DEF changed
(* What is known of a stored monitor (Normal).                              *)
LEMMA StoredFields ==
  ASSUME NEW m \in AnyStored
  PROVE  /\ m \in Draft({{"ipv4"}}, Int, Text \cup {Null}, Int, Int)
         /\ m.kind \in Kinds /\ m.target_ipv4 = {"ipv4"}
         /\ IF m.kind = "icmp" THEN m.port = NoPort
            ELSE integerInRange(m.port, 1, 65535)
         /\ m.kind = "http" => /\ m.scheme # NoScheme /\ m.path \in Text
                               /\ startsWithSlash(m.path)
                               /\ "break" \notin m.host_header
                               /\ m.scheme # "https" => m.verify_tls
         /\ m.kind # "http" => /\ m.scheme = NoScheme /\ m.path = Null
                               /\ m.host_header = Null /\ m.verify_tls
         /\ m.verify_tls \in BOOLEAN /\ m.host_header \in Text \cup {Null}
         /\ integerInRange(m.interval_seconds, 5, 3600)
         /\ integerInRange(m.timeout_seconds, 1, 30)
<1> PICK p \in Draft({{"ipv4"}}, Int, Text \cup {Null}, Int, Int) :
           FieldsAccepted(p) /\ m = Normal(p)
  BY DEF AnyStored
<1>1. /\ p.kind \in Kinds /\ p.target_ipv4 = {"ipv4"} /\ p.verify_tls \in BOOLEAN
      /\ p.path \in Text \cup {Null} /\ p.host_header \in Text \cup {Null}
      /\ p.scheme \in Schemes \cup {NoScheme}
  BY DEF Draft
<1> DEFINE path == IF p.kind = "http" /\ p.path = Null THEN {"filled", "slash"}
                   ELSE p.path
<1>2. m = [p EXCEPT !.path = path]
  BY DEF Normal
<1>3. path \in Text \cup {Null}
  BY <1>1 DEF Text
<1>4. p.kind = "http" => path \in Text /\ startsWithSlash(path)
  BY <1>1 DEF FieldsAccepted, Text, startsWithSlash
<1>5. p.kind # "http" => path = p.path
  OBVIOUS
<1> HIDE DEF path
<1>6. /\ m \in Draft({{"ipv4"}}, Int, Text \cup {Null}, Int, Int)
      /\ m.kind = p.kind /\ m.target_ipv4 = p.target_ipv4 /\ m.port = p.port
      /\ m.scheme = p.scheme /\ m.path = path /\ m.host_header = p.host_header
      /\ m.verify_tls = p.verify_tls
      /\ m.interval_seconds = p.interval_seconds
      /\ m.timeout_seconds = p.timeout_seconds
  BY <1>2, <1>3 DEF Draft
<1>7. /\ integerInRange(p.interval_seconds, 5, 3600)
      /\ integerInRange(p.timeout_seconds, 1, 30)
      /\ p.port = NoPort \/ integerInRange(p.port, 1, 65535)
  BY DEF FieldsAccepted
<1>8. CASE p.kind = "icmp"
  BY <1>1, <1>5, <1>6, <1>7, <1>8 DEF FieldsAccepted
<1>9. CASE p.kind = "tcp"
  BY <1>1, <1>5, <1>6, <1>7, <1>9 DEF FieldsAccepted
<1>10. CASE p.kind = "http"
  <2>1. /\ p.port # NoPort /\ p.scheme # NoScheme /\ "break" \notin p.host_header
        /\ p.scheme = "http" => p.verify_tls
    BY <1>10 DEF FieldsAccepted
  <2>2. p.scheme # "https" => p.scheme = "http"
    BY <1>1, <2>1 DEF Schemes
  <2>3. QED
    BY <1>1, <1>4, <1>6, <1>7, <1>10, <2>1, <2>2
<1>11. QED
  BY <1>1, <1>8, <1>9, <1>10 DEF Kinds

(* A monitor whose editor is opened and saved untouched is saved as it is   *)
(* stored, but for the blanks (monitorDraftFor, validateMonitorDraft).      *)
THEOREM UntouchedStays ==
  \A monitor \in AnyStored :
    LET draft == monitorDraftFor(monitor)
    IN /\ Errors(draft) = {}
       /\ Payload(draft) = [monitor EXCEPT
            !.path = IF @ = Null THEN @ ELSE Trim(@),
            !.host_header = IF @ = Null THEN @ ELSE trimOrNull(@)]
<1> TAKE m \in AnyStored
<1> DEFINE port == IF m.port = NoPort THEN Empty ELSE m.port
           path == IF m.path = Null THEN {"filled", "slash"} ELSE m.path
           host == IF m.host_header = Null THEN {} ELSE m.host_header
           draft == monitorDraftFor(m)
           pathOut == IF m.path = Null THEN m.path ELSE Trim(m.path)
           hostOut == IF m.host_header = Null THEN m.host_header
                      ELSE trimOrNull(m.host_header)
           out == [m EXCEPT !.path = pathOut, !.host_header = hostOut]
           p == Payload(draft)
<1>0. /\ m.kind \in Kinds /\ m.target_ipv4 = {"ipv4"}
      /\ IF m.kind = "icmp" THEN m.port = NoPort ELSE integerInRange(m.port, 1, 65535)
      /\ m.kind = "http" => /\ m.scheme # NoScheme /\ m.path \in Text
                            /\ startsWithSlash(m.path)
                            /\ "break" \notin m.host_header
                            /\ m.scheme # "https" => m.verify_tls
      /\ m.kind # "http" => /\ m.scheme = NoScheme /\ m.path = Null
                            /\ m.host_header = Null /\ m.verify_tls
      /\ m.verify_tls \in BOOLEAN /\ m.host_header \in Text \cup {Null}
      /\ integerInRange(m.interval_seconds, 5, 3600)
      /\ integerInRange(m.timeout_seconds, 1, 30)
  BY StoredFields
<1>1. draft = [m EXCEPT !.port = port, !.path = path, !.host_header = host]
  BY DEF monitorDraftFor
<1>2. m \in Draft({{"ipv4"}}, Int, Text \cup {Null}, Int, Int)
  BY StoredFields
<1>3. port \in Int /\ path \in Text /\ host \in Text
  BY <1>0, <1>2 DEF Draft, Text, Empty, NoPort, integerInRange
<1>4. /\ m.kind = "http" => /\ startsWithSlash(Trim(path)) /\ "break" \notin host
                            /\ path = m.path /\ m.path # Null
                            /\ Trim(path) # Null /\ trimOrNull(path) = Trim(path)
                            /\ trimOrNull(host) = hostOut
      /\ m.kind # "http" => pathOut = Null /\ hostOut = Null
      /\ m.kind # "icmp" => port = m.port
  <2>1. ASSUME m.kind = "http"
        PROVE  /\ m.path # Null /\ "slash" \in m.path /\ "indented" \notin m.path
               /\ "filled" \in m.path
    BY <1>0, <2>1 DEF Text, startsWithSlash, Null
  <2>2. ASSUME m.kind = "http" PROVE path = m.path
    BY <2>1, <2>2
  <2> HIDE DEF path
  <2>3. ASSUME m.kind = "http"
        PROVE  /\ startsWithSlash(Trim(path)) /\ Trim(path) # Null
               /\ trimOrNull(path) = Trim(path)
    <3>1. "slash" \in Trim(path) /\ "indented" \notin Trim(path)
      BY <2>1, <2>2, <2>3 DEF Trim
    <3>2. QED
      BY <2>1, <2>2, <2>3, <3>1 DEF trimOrNull, startsWithSlash, Null
  <2>4. ASSUME m.kind = "http"
        PROVE  "break" \notin host /\ trimOrNull(host) = hostOut
    BY <1>0, <2>4 DEF trimOrNull
  <2>5. m.kind # "http" => pathOut = Null /\ hostOut = Null
    BY <1>0
  <2>6. m.kind # "icmp" => port = m.port
    BY <1>0 DEF integerInRange, NoPort
  <2>7. QED
    BY <2>1, <2>2, <2>3, <2>4, <2>5, <2>6
<1>5. out.path = pathOut /\ out.host_header = hostOut
      /\ out.kind = m.kind /\ out.target_ipv4 = m.target_ipv4 /\ out.port = m.port
      /\ out.scheme = m.scheme /\ out.verify_tls = m.verify_tls
      /\ out.interval_seconds = m.interval_seconds
      /\ out.timeout_seconds = m.timeout_seconds
  BY <1>2 DEF Draft
<1> HIDE DEF port, path, host, draft, pathOut, hostOut
<1>6. /\ draft.kind = m.kind /\ draft.target_ipv4 = m.target_ipv4
      /\ draft.port = port /\ draft.scheme = m.scheme /\ draft.path = path
      /\ draft.host_header = host /\ draft.verify_tls = m.verify_tls
      /\ draft.interval_seconds = m.interval_seconds
      /\ draft.timeout_seconds = m.timeout_seconds
  BY <1>1, <1>2 DEF Draft
<1>7. draft \in AnyDraft
  <2>1. m.target_ipv4 \in AnyTarget
    BY <1>0 DEF AnyTarget
  <2>2. QED
    BY <1>1, <1>2, <1>3, <2>1 DEF Draft, AnyDraft
<1>8. Trim({"ipv4"}) = {"ipv4"}
  BY DEF Trim
<1>9. m.kind = "http" => HttpPath(draft) = Trim(path)
  BY <1>4, <1>6 DEF HttpPath
<1>10. Errors(draft) = {}
  BY <1>4, <1>6, <1>8, <1>9, <1>0, NoErrors DEF validIpv4
<1>11. /\ p.kind = out.kind /\ p.target_ipv4 = out.target_ipv4
       /\ p.port = out.port /\ p.scheme = out.scheme /\ p.path = out.path
       /\ p.host_header = out.host_header
       /\ p.interval_seconds = out.interval_seconds
       /\ p.timeout_seconds = out.timeout_seconds
       /\ p.verify_tls = out.verify_tls
  <2>1. /\ p.kind = draft.kind /\ p.target_ipv4 = Trim(draft.target_ipv4)
        /\ p.port = (IF draft.kind = "icmp" THEN NoPort ELSE draft.port)
        /\ p.scheme = (IF draft.kind = "http" THEN draft.scheme ELSE NoScheme)
        /\ p.path = (IF draft.kind = "http" THEN HttpPath(draft) ELSE Null)
        /\ p.host_header = (IF draft.kind = "http"
                            THEN trimOrNull(draft.host_header) ELSE Null)
        /\ p.verify_tls = (IF draft.kind = "http" /\ draft.scheme = "https"
                           THEN draft.verify_tls ELSE TRUE)
        /\ p.interval_seconds = draft.interval_seconds
        /\ p.timeout_seconds = draft.timeout_seconds
    BY <1>7, PayloadFields
  <2> HIDE DEF p, out
  <2>2. m.kind = "http" => pathOut = Trim(path)
    BY <1>4 DEF pathOut
  <2>3. m.verify_tls \in BOOLEAN
    BY <1>0
  <2>4. p.path = out.path /\ p.host_header = out.host_header
    BY <1>4, <1>5, <1>6, <1>9, <2>1, <2>2
  <2>5. p.port = out.port /\ p.scheme = out.scheme
    BY <1>4, <1>5, <1>6, <2>1, <1>0
  <2>6. p.verify_tls = out.verify_tls
    <3>1. out.verify_tls = m.verify_tls
      BY <1>5
    <3>2. p.verify_tls = (IF m.kind = "http" /\ m.scheme = "https"
                          THEN m.verify_tls ELSE TRUE)
      BY <1>6, <2>1
    <3>3. ~(m.kind = "http" /\ m.scheme = "https") => m.verify_tls = TRUE
      BY <1>0, <2>3
    <3>4. QED
      BY <3>1, <3>2, <3>3
  <2>7. p.kind = out.kind /\ p.target_ipv4 = out.target_ipv4
        /\ p.interval_seconds = out.interval_seconds
        /\ p.timeout_seconds = out.timeout_seconds
    BY <1>5, <1>6, <1>8, <2>1, <1>0
  <2>8. QED
    BY <2>4, <2>5, <2>6, <2>7
<1>12. p = out
  <2>1. out = Fields(out)
    <3> PICK r : r = out
      OBVIOUS
    <3>1. r = [m EXCEPT !.path = pathOut, !.host_header = hostOut]
      OBVIOUS
    <3>2. r = Fields(r)
      BY <1>2, <3>1 DEF Draft, Fields
    <3>3. QED
      BY <3>2
  <2>2. p = Fields(p)
    BY <1>7, PayloadFields
  <2> HIDE DEF p, out
  <2>3. Fields(p) = Fields(out)
    BY <1>11 DEF Fields
  <2>4. QED
    BY <2>1, <2>2, <2>3
<1>13. QED
  BY <1>10, <1>12 DEF draft, pathOut, hostOut
LEMMA BoundedDrafts == Drafts \subseteq AnyDraft
<1>1. Targets \subseteq AnyTarget
  BY DEF Targets, AnyTarget
<1>2. Ports \subseteq Int
  BY DEF Ports, Junk, Empty
<1>3. Texts \subseteq Text
  BY DEF Texts, Text
<1>4. {{"ipv4"}} \subseteq AnyTarget /\ {{}} \subseteq Text
  BY DEF AnyTarget, Text
<1>5. /\ {80} \subseteq Int /\ {30} \subseteq Int /\ {3} \subseteq Int
      /\ {Junk, Empty, 4, 5, 3600, 3601} \subseteq Int
      /\ {Junk, 0, 1, 30, 31} \subseteq Int
  BY DEF Junk, Empty
<1>6. Draft(Targets, Ports, Texts, {30}, {3}) \subseteq AnyDraft
  <2> PICK i, o : i = {30} /\ o = {3}
    OBVIOUS
  <2>1. i \subseteq Int /\ o \subseteq Int
    OBVIOUS
  <2>2. Draft(Targets, Ports, Texts, i, o) \subseteq AnyDraft
    BY <1>1, <1>2, <1>3, <2>1 DEF Draft, AnyDraft
  <2>3. QED
    BY <2>2 DEF Draft
<1>7. Draft({{"ipv4"}}, {80}, {{}}, {Junk, Empty, 4, 5, 3600, 3601},
            {Junk, 0, 1, 30, 31}) \subseteq AnyDraft
  BY <1>4, <1>5 DEF Draft, AnyDraft
<1>8. QED
  BY <1>6, <1>7 DEF Drafts, Draft

LEMMA BoundedStored == StoredMonitors \subseteq AnyStored
<1>1. {NoPort, 1, 65535} \subseteq Int /\ {5, 3600} \subseteq Int /\ {1, 30} \subseteq Int
  BY DEF NoPort
<1>2. Texts \cup {Null} \subseteq Text \cup {Null}
  BY DEF Texts, Text
<1>3. Draft({{"ipv4"}}, {NoPort, 1, 65535}, Texts \cup {Null}, {5, 3600}, {1, 30})
        \subseteq Draft({{"ipv4"}}, Int, Text \cup {Null}, Int, Int)
  BY <1>1, <1>2 DEF Draft
<1>4. SUFFICES ASSUME NEW m \in StoredMonitors PROVE m \in AnyStored
  OBVIOUS
<1>5. PICK p \in Draft({{"ipv4"}}, {NoPort, 1, 65535}, Texts \cup {Null},
                      {5, 3600}, {1, 30}) : FieldsAccepted(p) /\ m = Normal(p)
  BY DEF StoredMonitors, Draft
<1>6. p \in Draft({{"ipv4"}}, Int, Text \cup {Null}, Int, Int)
  BY <1>3, <1>5 DEF Draft
<1>7. QED
  BY <1>5, <1>6 DEF AnyStored

(* Hence the panel's form and the API agree (MonitorPanel.tsx's             *)
(* validateMonitorDraft and schemas.py).                                    *)
THEOREM FormsAgree == Spec => []FormAgrees
<1>1. FormIsAccepted
  BY FormMeetsApi, BoundedDrafts DEF FormIsAccepted
<1>2. UntouchedSaveIsNoop
  BY UntouchedStays, BoundedStored DEF UntouchedSaveIsNoop
<1>3. ErrorsAreShown
  BY ErrorsStayShown DEF ErrorsAreShown
<1>4. KindChangeIsTidy
  BY KindChangeStaysTidy, BoundedDrafts DEF KindChangeIsTidy
<1>5. FormAgrees
  BY <1>1, <1>2, <1>3, <1>4 DEF FormAgrees
<1>6. QED
  BY <1>5, PTL
====
