------------------------------ MODULE MonitorPanel ------------------------------
(***************************************************************************)
(* The monitor panel of a selected node (frontend/src/components/          *)
(* MonitorPanel.tsx) with App's monitor callbacks: manual runs and the     *)
(* polling of their receipts, the editor and its draft, and the snapshots  *)
(* that replace the list of monitors under them.                           *)
(*                                                                         *)
(* The monitors are those of one node, `home'; the user may select another *)
(* node, which has none, and come back.  Of a snapshot only its revision   *)
(* and the monitors matter; SnapshotCoordinator lets the shown revision    *)
(* grow only, so that a load that has ended leaves shown at least the      *)
(* revision it read.                                                       *)
(***************************************************************************)
EXTENDS MonitorForm, Integers, FiniteSets

CONSTANTS
  Monitors,     \* monitor ids
  Initial,      \* those that exist at first
  MaxClicks,    \* bound: manual runs
  MaxEdits,     \* bound: editors opened and saved
  MaxMoves,     \* bound: selections of the other node, and unmounts
  MaxOthers,    \* bound: monitors removed, and operations that end, elsewhere
  MaxFailures,  \* bound: requests that fail
  MaxEvents     \* bound: all of these together

VARIABLES
  server,    \* the monitors table, the map's revision and the receipts
  shown,     \* App's snapshot
  panel,     \* the state and the refs of MonitorPanel and MonitorEditor
  requests,  \* requests of the panel whose answer is awaited
  saving,    \* App.saving
  counts     \* of everything that is bounded

vars == <<server, shown, panel, requests, saving, counts>>

ASSUME PanelAssumption ==
  /\ Initial \subseteq Monitors
  /\ {MaxClicks, MaxEdits, MaxMoves, MaxOthers, MaxFailures, MaxEvents}
       \subseteq Nat

Runs == 1..MaxClicks
(* `at' is the revision that a completed run's result is in.               *)
Receipt == [status : {"none", "queued", "completed", "unavailable"},
            monitor : SUBSET Monitors, at : Nat]
Server == [revision : Nat, monitors : SUBSET Monitors, gone : SUBSET Monitors,
           runs : [Runs -> Receipt]]
View == [revision : Nat, monitors : SUBSET Monitors]
Editor == [mode : {"closed", "create", "edit"}, monitor : SUBSET Monitors,
           revision : Nat]
Feedback == [tone : {"none", "queued", "completed", "unavailable", "error",
                     "removed"},
             monitor : SUBSET Monitors, run : SUBSET Runs]
(* `typed' holds the key of the draft that the user has typed into.         *)
Panel == [node : {"home", "away"}, editor : Editor, typed : SUBSET Editor,
          feedback : Feedback, running : SUBSET Monitors,
          tokens : [Monitors -> Nat], nextToken : Nat]
(* A request is a click on a run, a poll of a receipt, a refresh after it,  *)
(* a save, or an operation of App elsewhere that shares App.saving.         *)
Request == [what : {"run", "poll", "refresh", "create", "edit", "delete",
                    "elsewhere"},
            id : Nat, monitor : SUBSET Monitors, run : SUBSET Runs, token : Nat,
            answer : {"due", "awaited", "queued", "completed", "unavailable",
                      "refused", "stored", "shown"}]

(* Type invariant; every token held was handed out. *)
TypeOK ==
  /\ server \in Server /\ shown \in View /\ panel \in Panel
  /\ \A m \in Monitors : panel.tokens[m] <= panel.nextToken
  /\ requests \subseteq Request
  /\ saving \in BOOLEAN

Closed == [mode |-> "closed", monitor |-> {}, revision |-> 0]
Silent == [tone |-> "none", monitor |-> {}, run |-> {}]
Mounted(token) ==
  [node |-> "home", editor |-> Closed, typed |-> {}, feedback |-> Silent,
   running |-> {}, tokens |-> [m \in Monitors |-> 0], nextToken |-> token]

Init ==
  /\ server = [revision |-> 0, monitors |-> Initial, gone |-> {},
               runs |-> [r \in Runs |->
                 [status |-> "none", monitor |-> {}, at |-> 0]]]
  /\ shown = [revision |-> 0, monitors |-> Initial]
  /\ panel = Mounted(0)
  /\ requests = {}
  /\ saving = FALSE
  /\ counts = [clicks |-> 0, edits |-> 0, moves |-> 0, others |-> 0, failures |-> 0]

May(what, bound) ==
  /\ counts[what] < bound
  /\ counts.clicks + counts.edits + counts.moves + counts.others
       + counts.failures < MaxEvents
Count(what) == counts' = [counts EXCEPT ![what] = @ + 1]

-----------------------------------------------------------------------------
(* What the effects do after a render. *)

(* The monitors that the panel is given: those of the selected node. *)
Listed(p, view) == IF p.node = "home" THEN view.monitors ELSE {}

Said(p, tone, monitor, run) ==
  [p EXCEPT !.feedback = [tone |-> tone, monitor |-> monitor, run |-> run]]

(* Runs of monitors that are gone are forgotten. *)
Pruned(p, view) ==
  [p EXCEPT !.running = @ \cap Listed(p, view),
            !.tokens = [m \in Monitors |->
                          IF m \in Listed(p, view) THEN @[m] ELSE 0]]

(* The editor of a monitor that is gone closes. *)
Checked(p, view) ==
  IF p.editor.mode = "edit" /\ ~(p.editor.monitor \subseteq Listed(p, view))
  THEN [Said(p, "removed", p.editor.monitor, {}) EXCEPT !.editor = Closed,
                                                         !.typed = {}]
  ELSE p

RerenderResetting(p, view) ==
  [Checked(Pruned(p, view), view) EXCEPT !.typed = {}]
(* A snapshot replaces the monitors; the draft is keyed by node, monitor    *)
(* and editor revision, not by the record.                                  *)
Rerender(p, view) == Checked(Pruned(p, view), view)

Newer(view) == IF server.revision >= view.revision
               THEN [revision |-> server.revision, monitors |-> server.monitors]
               ELSE view

(* A snapshot is fetched and applied; the effects follow. *)
Shows(p) == shown' = Newer(shown) /\ panel' = Rerender(p, Newer(shown))

SetEditor(p, editor) ==
  Checked([p EXCEPT !.editor = editor, !.typed = {}], shown)

-----------------------------------------------------------------------------
(* Manual runs. *)

Ask(what, monitor, run, token, answer) ==
  [what |-> what, id |-> counts.clicks + counts.others, monitor |-> monitor,
   run |-> run, token |-> token, answer |-> answer]

(* requestRun, up to its request. *)
requestRun(m) ==
  /\ May("clicks", MaxClicks) /\ Count("clicks")
  /\ m \in Listed(panel, shown) /\ ~saving /\ m \notin panel.running
  /\ panel' = Said([panel EXCEPT !.running = @ \cup {m}], "none", {}, {})
  /\ requests' = requests \cup {Ask("run", {m}, {}, 0, "awaited")}
  /\ UNCHANGED <<server, shown, saving>>

PollUncounted(p, m) == [p EXCEPT !.tokens[m] = p.nextToken + 1]
(* pollRunReceipt: a new token replaces the monitor's previous poll. *)
pollRunReceipt(p, m) ==
  [p EXCEPT !.nextToken = @ + 1, !.tokens[m] = p.nextToken + 1]

Stopped(p, m) == [p EXCEPT !.running = @ \ {m}]

(* requestRun goes on, whichever node is selected by now. *)
runAnswered(q, m) ==
  /\ q.what = "run" /\ q.answer # "awaited" /\ m \in q.monitor
  /\ IF q.answer = "queued"
     THEN /\ panel' = pollRunReceipt(Said(panel, "queued", {m}, q.run), m)
          /\ requests' = (requests \ {q}) \cup
               {[q EXCEPT !.what = "poll", !.answer = "due",
                          !.token = panel.nextToken + 1]}
     ELSE /\ panel' = Said(Stopped(panel, m), "error", {m}, {})
          /\ requests' = requests \ {q}
  /\ UNCHANGED <<server, shown, saving, counts>>

Current(q, m) == panel.tokens[m] = q.token

(* poll: called at once, then by its timer. *)
poll(q, m) ==
  /\ q.what = "poll" /\ q.answer = "due" /\ m \in q.monitor
  /\ requests' = (requests \ {q}) \cup
       (IF Current(q, m) THEN {[q EXCEPT !.answer = "awaited"]} ELSE {})
  /\ UNCHANGED <<server, shown, panel, saving, counts>>

SettleForgotten(p, m, tone, run) ==
  Said([p EXCEPT !.tokens[m] = 0], tone, {m}, run)
Settle(p, m, tone, run) ==
  Said(Stopped([p EXCEPT !.tokens[m] = 0], m), tone, {m}, run)

AfterPollUnrefreshed(q) == {}
(* refreshAfterReceipt *)
AfterPoll(q) == {[q EXCEPT !.what = "refresh", !.answer = "awaited"]}

(* poll goes on with its answer, unless its token was replaced meanwhile.   *)
pollAnswered(q, m) ==
  /\ q.what = "poll" /\ q.answer \notin {"due", "awaited"} /\ m \in q.monitor
  /\ CASE ~Current(q, m) -> requests' = requests \ {q} /\ UNCHANGED panel
       [] Current(q, m) /\ q.answer = "queued" ->
            /\ requests' = (requests \ {q}) \cup {[q EXCEPT !.answer = "due"]}
            /\ UNCHANGED panel
       [] OTHER ->
            /\ requests' = (requests \ {q}) \cup AfterPoll(q)
            /\ panel' = Settle(panel, m, IF q.answer = "completed" THEN "completed"
                                         ELSE "unavailable", q.run)
  /\ UNCHANGED <<server, shown, saving, counts>>

refreshed(q) ==
  /\ q.what = "refresh" /\ q.answer \in {"shown", "refused"}
  /\ panel' = IF q.answer = "shown" THEN panel
              ELSE Said(panel, "error", q.monitor, {})
  /\ requests' = requests \ {q}
  /\ UNCHANGED <<server, shown, saving, counts>>

-----------------------------------------------------------------------------
(* The editor. *)

(* Add check and Edit. *)
openEditor(mode, monitor) ==
  /\ May("edits", MaxEdits) /\ Count("edits")
  /\ ~saving /\ panel.node = "home"
  /\ panel' = [Said(panel, "none", {}, {}) EXCEPT
       !.editor = [mode |-> mode, monitor |-> monitor,
                   revision |-> 10 * (counts.edits + 1)],
       !.typed = {}]
  /\ UNCHANGED <<server, shown, requests, saving>>

update ==
  /\ panel.editor # Closed /\ panel.typed = {}
  /\ panel' = [panel EXCEPT !.typed = {panel.editor}]
  /\ UNCHANGED <<server, shown, requests, saving, counts>>

onCancel ==
  /\ panel.editor # Closed
  /\ panel' = [panel EXCEPT !.editor = Closed, !.typed = {}]
  /\ UNCHANGED <<server, shown, requests, saving, counts>>

Saves == {"create", "edit", "delete"}

(* saveMonitor, with a valid draft, and App.createMonitor or updateMonitor. *)
saveMonitor ==
  /\ May("edits", MaxEdits) /\ Count("edits")
  /\ panel.editor # Closed /\ ~saving
  /\ saving' = TRUE
  /\ requests' = requests \cup
       {[Ask(panel.editor.mode, panel.editor.monitor, {}, 0, "awaited")
          EXCEPT !.id = panel.editor.revision]}
  /\ UNCHANGED <<server, shown, panel>>

removeMonitor(m) ==
  /\ May("others", MaxOthers) /\ Count("others")
  /\ m \in Listed(panel, shown) /\ ~saving
  /\ saving' = TRUE
  /\ panel' = Said(panel, "none", {}, {})
  /\ requests' = requests \cup
       {Ask("delete", {m}, {}, IF {m} = panel.editor.monitor THEN 1 ELSE 0,
            "awaited")}
  /\ UNCHANGED <<server, shown>>

(* The save returns, after the refresh that App makes before it does, and   *)
(* sets the editor whatever is open by now.                                 *)
saveReturns(q) ==
  /\ q.what \in Saves /\ q.answer \in {"shown", "refused"}
  /\ saving' = FALSE
  /\ requests' = requests \ {q}
  /\ panel' =
       CASE q.answer = "refused" /\ q.what = "delete" ->
              Said(panel, "error", q.monitor, {})
         [] q.answer = "shown" /\ q.what = "delete" ->
              IF q.token = 1 THEN SetEditor(panel, Closed) ELSE panel
         [] q.answer = "shown" /\ q.what # "delete" ->
              SetEditor(panel, [mode |-> "edit", monitor |-> q.monitor,
                                revision |-> q.id + 1])
         [] OTHER -> panel
  /\ UNCHANGED <<server, shown, counts>>

-----------------------------------------------------------------------------
(* The rest of App and the server.                                          *)

Cleared(p) == [p EXCEPT !.editor = Closed, !.typed = {}, !.feedback = Silent,
                        !.running = {}, !.tokens = [m \in Monitors |-> 0]]

(* Another node is selected: the panel is cleared, and then its editor is   *)
(* checked against the monitors of the other node.                          *)
selectNode ==
  /\ May("moves", MaxMoves) /\ Count("moves")
  /\ LET other == IF panel.node = "home" THEN "away" ELSE "home"
     IN panel' = IF panel.editor.mode = "edit"
                 THEN Said([Cleared(panel) EXCEPT !.node = other],
                           "removed", panel.editor.monitor, {})
                 ELSE [Cleared(panel) EXCEPT !.node = other]
  /\ UNCHANGED <<server, shown, requests, saving>>

(* The panel is unmounted, by a deselection or by the loading screen, and   *)
(* later mounted again; nothing that its old polls do is seen.              *)
unmount ==
  /\ May("moves", MaxMoves) /\ Count("moves")
  /\ panel' = Mounted(panel.nextToken)
  /\ requests' = {[q EXCEPT !.what = "elsewhere"] :
                    q \in {q \in requests : q.what \in Saves \cup {"elsewhere"}}}
  /\ UNCHANGED <<server, shown, saving>>

(* An operation of App that is not gated by saving, such as a new link.     *)
otherBegins ==
  /\ May("others", MaxOthers) /\ Count("others")
  /\ saving' = TRUE
  /\ requests' = requests \cup {Ask("elsewhere", {}, {}, 0, "awaited")}
  /\ UNCHANGED <<server, shown, panel>>
otherEnds(q) ==
  /\ q.what = "elsewhere"
  /\ saving' = FALSE
  /\ requests' = requests \ {q}
  /\ UNCHANGED <<server, shown, panel, counts>>

(* An event arrives and its refresh is applied. *)
sync ==
  /\ shown.revision < server.revision
  /\ Shows(panel)
  /\ UNCHANGED <<server, requests, saving, counts>>

Answer(q, answer) ==
  requests' = (requests \ {q}) \cup {[q EXCEPT !.answer = answer]}

(* POST run: the monitor's queued run, if it has one, or a new one.         *)
run_monitor_now(q, m) ==
  /\ q.what = "run" /\ q.answer = "awaited" /\ q.monitor = {m}
  /\ IF m \notin server.monitors
     THEN Answer(q, "refused") /\ UNCHANGED server
     ELSE \E r \in Runs :
            /\ \/ server.runs[r].status = "queued" /\ server.runs[r].monitor = {m}
               \/ /\ server.runs[r].status = "none"
                  /\ \A s \in 1..(r - 1) : server.runs[s].status # "none"
            /\ server' = [server EXCEPT
                 !.runs[r] = [status |-> "queued", monitor |-> {m}, at |-> 0]]
            /\ requests' = (requests \ {q}) \cup
                             {[q EXCEPT !.answer = "queued", !.run = {r}]}
  /\ UNCHANGED <<shown, panel, saving, counts>>

get_monitor_run(q) ==
  /\ q.what = "poll" /\ q.answer = "awaited"
  /\ \E r \in q.run : Answer(q, server.runs[r].status)
  /\ UNCHANGED <<server, shown, panel, saving, counts>>

(* The execution has stored its result, or will not; a receipt may later be *)
(* pruned.                                                                  *)
runEnds(r) ==
  /\ server.runs[r].status = "queued"
  /\ \/ /\ server.runs[r].monitor \subseteq server.monitors
        /\ server' = [server EXCEPT !.revision = @ + 1,
             !.runs[r].status = "completed", !.runs[r].at = server.revision + 1]
     \/ server' = [server EXCEPT !.runs[r].status = "unavailable"]
  /\ UNCHANGED <<shown, panel, requests, saving, counts>>
prune(r) ==
  /\ server.runs[r].status = "completed"
  /\ server' = [server EXCEPT !.runs[r].status = "unavailable"]
  /\ UNCHANGED <<shown, panel, requests, saving, counts>>

Gone(m) == [server EXCEPT !.revision = @ + 1, !.monitors = @ \ {m},
                          !.gone = @ \cup {m}]

store(q) ==
  /\ q.what \in Saves /\ q.answer = "awaited"
  /\ \E m \in Monitors :
       /\ IF q.what = "create" THEN m \notin server.monitors \cup server.gone
          ELSE {m} = q.monitor
       /\ IF q.what # "create" /\ m \notin server.monitors
          THEN Answer(q, "refused") /\ UNCHANGED server
          ELSE /\ requests' = (requests \ {q}) \cup
                    {[q EXCEPT !.answer = "stored", !.monitor = {m}]}
               /\ server' = IF q.what = "delete" THEN Gone(m)
                            ELSE [server EXCEPT !.revision = @ + 1,
                                                !.monitors = @ \cup {m}]
  /\ UNCHANGED <<shown, panel, saving, counts>>

(* refreshMonitorSnapshot, after a save or a receipt.                       *)
refreshMonitorSnapshot(q) ==
  /\ \/ q.what \in Saves /\ q.answer = "stored"
     \/ q.what = "refresh" /\ q.answer = "awaited"
  /\ Shows(panel)
  /\ Answer(q, "shown")
  /\ UNCHANGED <<server, saving, counts>>

requestFails(q) ==
  /\ May("failures", MaxFailures) /\ Count("failures")
  /\ q.answer \in {"awaited", "stored"} /\ q.what # "elsewhere"
  /\ Answer(q, "refused")
  /\ UNCHANGED <<server, shown, panel, saving>>

removedElsewhere(m) ==
  /\ May("others", MaxOthers) /\ Count("others")
  /\ m \in server.monitors
  /\ server' = Gone(m)
  /\ UNCHANGED <<shown, panel, requests, saving>>

-----------------------------------------------------------------------------
User ==
  \/ \E m \in Monitors :
       \/ requestRun(m) \/ removeMonitor(m)
       \/ m \in Listed(panel, shown) /\ openEditor("edit", {m})
  \/ openEditor("create", {}) \/ update \/ onCancel \/ saveMonitor
  \/ selectNode \/ unmount \/ otherBegins
Callbacks(what) == \E q \in requests :
  /\ q.what = what
  /\ \/ refreshed(q) \/ saveReturns(q) \/ otherEnds(q)
     \/ \E m \in Monitors : runAnswered(q, m) \/ poll(q, m) \/ pollAnswered(q, m)
Answers(what) == \E q \in requests :
  /\ q.what = what
  /\ \/ get_monitor_run(q) \/ store(q) \/ refreshMonitorSnapshot(q)
     \/ \E m \in Monitors : run_monitor_now(q, m)
Executions == \E r \in Runs : runEnds(r)

Next ==
  \/ User \/ sync \/ Executions
  \/ \E what \in Saves \cup {"run", "poll", "refresh", "elsewhere"} :
       Callbacks(what) \/ Answers(what)
  \/ \E r \in Runs : prune(r)
  \/ \E q \in requests : requestFails(q)
  \/ \E m \in Monitors : removedElsewhere(m)

Spec == Init /\ [][Next]_vars

(* Requests are answered, timers and callbacks run, and every queued run    *)
(* settles; the user need do nothing.  MonitorScheduler.QueuedSettles shows *)
(* the latter but for an execution cancelled before its first step, whose   *)
(* receipt stays queued: its run would be polled, and its button disabled,  *)
(* until the process ends.                                                  *)
FairSpec == /\ Spec /\ WF_vars(Executions)
            /\ \A what \in {"run", "poll"} :
                 WF_vars(Callbacks(what)) /\ WF_vars(Answers(what))

-----------------------------------------------------------------------------
(* A button that shows a run in progress has somebody who will release it:  *)
(* the request of the run, or the poll that holds the monitor's token.      *)
RunningIsServed ==
  \A m \in panel.running : \E q \in requests :
    m \in q.monitor /\ (q.what = "run" \/ (q.what = "poll" /\ Current(q, m)))

(* "Check completed - the latest result below": once the refresh that goes  *)
(* with the message has ended, the snapshot shown holds the run's result.   *)
ResultIsShown ==
  panel.feedback.tone = "completed" =>
    \A r \in panel.feedback.run :
      \/ shown.revision >= server.runs[r].at
      \/ \E q \in requests : q.what = "refresh" /\ r \in q.run

(* What the panel tells of a run is followed up: both of the above. *)
RunsAreFollowed == RunningIsServed /\ ResultIsShown

(* Whatever was typed into an open editor, and whichever monitor it is of,  *)
(* what the form accepts the API accepts, an untouched monitor is saved as  *)
(* it is stored, and no error or leftover of another kind is out of sight.  *)
FormAgrees ==
  panel.editor # Closed =>
    FormIsAccepted /\ UntouchedSaveIsNoop /\ ErrorsAreShown /\ KindChangeIsTidy

(* The button does not stay disabled: every run shown in progress ends,     *)
(* whatever nodes are selected and whatever requests fail meanwhile.        *)
RunningSettles == \A m \in Monitors : []<>(m \notin panel.running)

(* No snapshot, whoever fetched it, takes from the user what was typed,     *)
(* unless the monitor it is about has been removed.                         *)
DraftSurvivesRefresh ==
  [][shown' # shown /\ panel.typed # {} =>
       \/ panel'.typed = panel.typed
       \/ /\ panel.editor.mode = "edit"
          /\ ~(panel.editor.monitor \subseteq server.monitors)]_vars
=============================================================================
