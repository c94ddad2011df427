----------------------------- MODULE TopologyEditor -----------------------------
(***************************************************************************)
(* Editing the map in one browser: the selection, the inspectors with      *)
(* their drafts and the operations of App (frontend/src/app/App.tsx,       *)
(* frontend/src/components/*Inspector.tsx), the handlers that they call    *)
(* (backend/app/api/routes.py), and another browser that edits the same    *)
(* map.                                                                    *)
(*                                                                         *)
(* A node is its id and its position, a link its id, its ends and its      *)
(* kind, a group its id.  A draft is whose it is, the position in it and   *)
(* whether anything has been typed into it.  Snapshots are applied as they *)
(* are read: SnapshotCoordinator and NodePositions tell of what is in      *)
(* between.                                                                *)
(***************************************************************************)
EXTENDS CanvasGeometry

CONSTANTS
  Nodes, Links, Groups,  \* ids
  FirstNodes, FirstGroups,  \* those that exist at first
  MaxClicks,             \* bound: selections
  MaxOps,                \* bound: operations begun
  MaxElsewhere,          \* bound: changes by another browser
  MaxFailures,           \* bound: requests that fail
  MaxEvents              \* bound: all of these together

VARIABLES
  server,   \* the tables, the ids ever used and the map's revision
  shown,    \* App's snapshot
  ui,       \* what is selected, which adding form is open, App.loading
  draft,    \* the draft of the inspector that is mounted
  ops,      \* operations that await an answer or a load
  saving,   \* App.saving
  error,    \* whether App shows an error
  counts    \* of everything that is bounded

vars == <<server, shown, ui, draft, ops, saving, error, counts>>

ASSUME EditorAssumption ==
  /\ FirstNodes \subseteq Nodes /\ FirstGroups \subseteq Groups
  /\ {MaxClicks, MaxOps, MaxElsewhere, MaxFailures, MaxEvents} \subseteq Nat

Tabs == {"node", "link", "group"}
Ids == Nodes \cup Links \cup Groups
LinkRecords == [id : Links, ends : SUBSET Nodes, kind : Kinds]
Tables == [nodes : SUBSET Nodes, links : SUBSET LinkRecords,
           groups : SUBSET Groups, at : [Nodes -> Nat], revision : Nat]
Draft == [tab : Tabs \cup {"none"}, owner : SUBSET Ids, at : SUBSET Nat,
          typed : BOOLEAN]
NoDraft == [tab |-> "none", owner |-> {}, at |-> {}, typed |-> FALSE]
UI == [node : SUBSET Nodes, link : SUBSET Links, group : SUBSET Groups,
       adding : SUBSET Tabs, loading : BOOLEAN]
Op == [what : {"save", "delete", "connect", "drag", "reload"},
       tab : Tabs, id : SUBSET Ids, at : SUBSET Nat, ends : SUBSET Nodes, kind : Kinds,
       n : Nat, phase : {"sent", "checked", "stored", "duplicate", "refused",
                         "loading", "searching"}]

(* Type invariant; an operation awaits one answer, a selection is of one. *)
TypeOK ==
  /\ server.tables \in Tables /\ server.used \subseteq Ids
  /\ shown \in Tables /\ ui \in UI /\ draft \in Draft /\ ops \subseteq Op
  /\ \A tab \in Tabs : Cardinality(ui[tab]) <= 1
  /\ Cardinality(ui.adding) <= 1
  /\ saving \in BOOLEAN /\ error \in BOOLEAN

Init ==
  /\ server = [tables |-> [nodes |-> FirstNodes, links |-> {},
                           groups |-> FirstGroups, at |-> [n \in Nodes |-> 0],
                           revision |-> 0],
               used |-> FirstNodes \cup FirstGroups]
  /\ shown = server.tables
  /\ ui = [node |-> {}, link |-> {}, group |-> {}, adding |-> {}, loading |-> FALSE]
  /\ draft = NoDraft
  /\ ops = {} /\ saving = FALSE /\ error = FALSE
  /\ counts = [clicks |-> 0, ops |-> 0, elsewhere |-> 0, failures |-> 0]

Existing(view, tab) ==
  CASE tab = "node" -> view.nodes
    [] tab = "link" -> {link.id : link \in view.links}
    [] tab = "group" -> view.groups
Spent == counts.clicks + counts.ops + counts.elsewhere + counts.failures
Spend(what, bound) ==
  /\ counts[what] < bound /\ Spent < MaxEvents
  /\ counts' = [counts EXCEPT ![what] = @ + 1]

-----------------------------------------------------------------------------
(* What is rendered. *)

(* selectedNode, selectedLink and selectedGroup: none that is not shown.    *)
Selected(u, view, tab) == u[tab] \cap Existing(view, tab)

(* The inspector: of a link before a node before a group; none while the    *)
(* loading screen replaces the map.                                         *)
Open(u, view, tab) == Selected(u, view, tab) # {} \/ tab \in u.adding
Inspected(u, view) ==
  LET Of(tab) == [tab |-> tab, owner |-> Selected(u, view, tab)]
  IN CASE u.loading -> [tab |-> "none", owner |-> {}]
       [] ~u.loading /\ Open(u, view, "link") -> Of("link")
       [] ~u.loading /\ ~Open(u, view, "link") /\ Open(u, view, "node") -> Of("node")
       [] OTHER -> IF Open(u, view, "group") THEN Of("group")
                   ELSE [tab |-> "none", owner |-> {}]

initialDraft(inspected, view) ==
  [tab |-> inspected.tab, owner |-> inspected.owner,
   at |-> {view.at[n] : n \in inspected.owner \cap Nodes}, typed |-> FALSE]

(* draftResetKey: the draft is of this entity. *)
SameDraft(d, inspected) == d.tab = inspected.tab /\ d.owner = inspected.owner

MergedOver(d, inspected, view) ==
  IF d.at = initialDraft(inspected, view).at THEN d ELSE initialDraft(inspected, view)
(* mergeExternalPosition: what is typed stays. *)
Merged(d, inspected, view) == [d EXCEPT !.at = initialDraft(inspected, view).at]

(* The effects of the inspectors after a render; `fresh' are the tabs whose *)
(* draft revision has just been raised.                                     *)
Rendered(u, view, fresh) ==
  LET inspected == Inspected(u, view)
  IN IF SameDraft(draft, inspected) /\ inspected.tab \notin fresh
     THEN Merged(draft, inspected, view)
     ELSE initialDraft(inspected, view)

Render(u, view, fresh) ==
  /\ ui' = u /\ shown' = view /\ draft' = Rendered(u, view, fresh)
Show(u) == Render(u, shown, {})
Newest == IF server.tables.revision >= shown.revision THEN server.tables ELSE shown

-----------------------------------------------------------------------------
(* Selecting. *)

Nothing == [node |-> {}, link |-> {}, group |-> {}, adding |-> {}, loading |-> FALSE]
Click == Spend("clicks", MaxClicks) /\ UNCHANGED <<server, ops, saving, error>>

selectSavedLink(u, id) == [Nothing EXCEPT !.link = {id}, !.loading = u.loading]

clickNode(n) ==
  /\ ~ui.loading /\ n \in shown.nodes
  /\ Show([Nothing EXCEPT !.node = {n}]) /\ Click
clickLink(id) ==
  /\ ~ui.loading /\ id \in Existing(shown, "link")
  /\ Show(selectSavedLink(ui, id)) /\ Click
(* An adding form of a node or a link stays open. *)
clickGroup(g) ==
  /\ ~ui.loading /\ g \in shown.groups
  /\ Show([Nothing EXCEPT !.group = {g}, !.adding = ui.adding \ {"group"}]) /\ Click
onPaneClick == ~ui.loading /\ Show(Nothing) /\ Click
selectSearchResult(n) ==
  /\ ~ui.loading /\ n \in shown.nodes
  /\ Show([ui EXCEPT !.node = {n}, !.link = {}, !.adding = @ \ {"node", "link"}])
  /\ Click
AddingToo(u, tab) == [Nothing EXCEPT !.adding = u.adding \cup {tab}]
AddingForm(u, tab) == [Nothing EXCEPT !.adding = {tab}]
beginAdding(tab) ==
  /\ ~ui.loading /\ tab = "link" => Cardinality(shown.nodes) >= 2
  /\ Render(AddingForm(ui, tab), shown, {tab}) /\ Click
onCancel ==
  /\ draft.tab \in Tabs
  /\ Show([ui EXCEPT ![draft.tab] = {}, !.adding = @ \ {draft.tab}]) /\ Click

(* update, of the inspectors. *)
update ==
  /\ draft.tab \in Tabs /\ ~draft.typed
  /\ draft' = [draft EXCEPT !.typed = TRUE]
  /\ UNCHANGED <<server, shown, ui, ops, saving, error, counts>>

-----------------------------------------------------------------------------
(* Beginning an operation. *)

Ask(what, tab, id) ==
  [what |-> what, tab |-> tab, id |-> id, at |-> {}, ends |-> {},
   kind |-> "local", n |-> counts.ops, phase |-> "sent"]
Send(op) ==
  /\ Spend("ops", MaxOps) /\ ops' = ops \cup {op}
  /\ UNCHANGED <<server, shown, ui, draft>>

matchingLink(links, ends, kind) ==
  {link \in links : link.ends = ends /\ link.kind = kind}
Pairs(nodes) == {ends \in SUBSET nodes : Cardinality(ends) = 2}

(* The ends that a link's form may hold: fixed for a saved link; else of    *)
(* nodes that it has shown, one of which may be deleted by now.             *)
FormEnds(id) == IF id = {} THEN Pairs(server.used \cap Nodes) ELSE {{}}
(* saveNode, saveLink and saveGroup; LinkInspector saves no duplicate. *)
save ==
  /\ draft.tab \in Tabs /\ ~saving
  /\ LET op == [Ask("save", draft.tab, Selected(ui, shown, draft.tab))
                  EXCEPT !.at = draft.at]
     IN IF draft.tab # "link" THEN Send(op)
        ELSE \E kind \in Kinds, ends \in FormEnds(op.id) :
               /\ op.id = {} => matchingLink(shown.links, ends, kind) = {}
               /\ Send([op EXCEPT !.kind = kind, !.ends = ends])
  /\ saving' = TRUE /\ error' = FALSE

(* deleteSelectedNode, deleteSelectedLink and deleteSelectedGroup.          *)
deleteSelected(tab) ==
  /\ Selected(ui, shown, tab) # {} /\ ~saving
  /\ Send(Ask("delete", tab, ui[tab]))
  /\ saving' = TRUE /\ error' = (error /\ tab # "link")
(* onKeyDown: what the Delete key deletes. *)
KeyTarget(u) == IF u.node # {} THEN "node" ELSE IF u.link # {} THEN "link" ELSE "none"
onKeyDown == KeyTarget(ui) \in Tabs /\ deleteSelected(KeyTarget(ui))
onDelete == draft.tab \in Tabs /\ deleteSelected(draft.tab)

(* connectNodes: not kept from beginning by saving. *)
connectNodes(ends) ==
  /\ ~ui.loading
  /\ LET existing == matchingLink(shown.links, ends, "local")
     IN IF existing # {}
        THEN \E link \in existing : Show(selectSavedLink(ui, link.id)) /\ Click
        ELSE /\ Send([Ask("connect", "link", {}) EXCEPT !.ends = ends])
             /\ saving' = TRUE /\ error' = FALSE

(* persistPosition: of a node, which is shown and stored (NodePositions has *)
(* the detail); of a group. *)
dragNode(n) ==
  /\ ~ui.loading /\ n \in shown.nodes \cap server.tables.nodes /\ Spend("ops", MaxOps)
  /\ error' = FALSE
  /\ server' = [server EXCEPT !.tables.at[n] = counts.ops + 1,
                              !.tables.revision = @ + 1]
  /\ Render(ui, [shown EXCEPT !.at[n] = counts.ops + 1], {})
  /\ UNCHANGED <<ops, saving>>
dragGroup(g) ==
  /\ ~ui.loading /\ g \in shown.groups
  /\ Send(Ask("drag", "group", {g}))
  /\ error' = FALSE /\ UNCHANGED saving

(* The Reload and Retry buttons. *)
reload ==
  /\ ~ui.loading /\ Spend("ops", MaxOps)
  /\ ops' = ops \cup {[Ask("reload", "node", {}) EXCEPT !.phase = "loading"]}
  /\ Show([ui EXCEPT !.loading = TRUE])
  /\ error' = FALSE /\ UNCHANGED <<server, saving>>

-----------------------------------------------------------------------------
(* The handlers. *)

Answer(op, answer) == ops' = (ops \ {op}) \cup {answer}
(* A commit, with its event in the journal. *)
Commit(op, tables, id) ==
  /\ server' = [tables |-> [tables EXCEPT !.revision = @ + 1],
                used |-> server.used \cup id]
  /\ Answer(op, [op EXCEPT !.phase = "stored", !.id = id])
Refuse(op) == Answer(op, [op EXCEPT !.phase = "refused"]) /\ UNCHANGED server
IdsOf(tab) == CASE tab = "node" -> Nodes [] tab = "link" -> Links [] tab = "group" -> Groups
(* A new id, and the tables with it; when the bounded ids run out the       *)
(* request is refused.                                                      *)
Created(op, tab, with) ==
  IF IdsOf(tab) \subseteq server.used THEN Refuse(op)
  ELSE LET id == CHOOSE id \in IdsOf(tab) \ server.used : TRUE
       IN Commit(op, with[id], {id})
Handling(op, what) ==
  /\ op.what = what /\ op.phase = "sent"
  /\ UNCHANGED <<shown, ui, draft, saving, error, counts>>

createNode(op) ==
  /\ Handling(op, "save") /\ op.tab = "node" /\ op.id = {}
  /\ Created(op, "node",
       [n \in Nodes |-> [server.tables EXCEPT !.nodes = @ \cup {n}]])
patch_node(op) ==
  /\ Handling(op, "save") /\ op.tab = "node" /\ op.id # {}
  /\ IF op.id \subseteq server.tables.nodes
     THEN Commit(op, [server.tables EXCEPT
            !.at = [n \in Nodes |-> IF n \in op.id THEN CHOOSE at \in op.at : TRUE
                                    ELSE @[n]]], op.id)
     ELSE Refuse(op)
(* create_group and patch_group, by a form or by a drag. *)
putGroup(op) ==
  /\ Handling(op, "save") \/ Handling(op, "drag")
  /\ op.tab = "group"
  /\ CASE op.id = {} -> Created(op, "group",
                          [g \in Groups |-> [server.tables EXCEPT !.groups = @ \cup {g}]])
       [] op.id # {} /\ op.id \subseteq server.tables.groups ->
            Commit(op, server.tables, op.id)
       [] OTHER -> Refuse(op)

Missing(op) == ~(op.ends \subseteq server.tables.nodes)

(* create_link up to its check; the commit comes later.                     *)
create_link_checks(op) ==
  /\ Handling(op, "save") \/ Handling(op, "connect")
  /\ op.tab = "link" /\ op.id = {}
  /\ IF Missing(op) THEN Refuse(op)
     ELSE /\ Answer(op, [op EXCEPT !.phase =
                 IF matchingLink(server.tables.links, op.ends, op.kind) = {}
                 THEN "checked"
                 ELSE IF op.what = "connect" THEN "duplicate" ELSE "refused"])
          /\ UNCHANGED server
(* The unique constraint of the links table: no error that anybody turns    *)
(* into a duplicate_link, since append_event flushes outside _commit.       *)
UniqueConstraint(op) == matchingLink(server.tables.links, op.ends, op.kind) = {}
create_link(op) ==
  /\ op.phase = "checked" /\ op.id = {}
  /\ IF ~UniqueConstraint(op) \/ Missing(op) THEN Refuse(op)
     ELSE Created(op, "link", [l \in Links |-> [server.tables EXCEPT
            !.links = @ \cup {[id |-> l, ends |-> op.ends, kind |-> op.kind]}]])
  /\ UNCHANGED <<shown, ui, draft, saving, error, counts>>

Retyped(link, op) ==
  [server.tables EXCEPT !.links = (@ \ {link}) \cup {[link EXCEPT !.kind = op.kind]}]
(* Nothing is written when the kind is what it was. *)
patch_link(op) ==
  /\ Handling(op, "save") /\ op.tab = "link" /\ op.id # {}
  /\ LET links == {link \in server.tables.links : {link.id} = op.id}
     IN IF links = {} THEN Refuse(op)
        ELSE \E link \in links :
          CASE link.kind = op.kind ->
                 Answer(op, [op EXCEPT !.phase = "stored"]) /\ UNCHANGED server
            [] link.kind # op.kind /\ matchingLink(server.tables.links, link.ends, op.kind) # {} ->
                 Refuse(op)
            [] OTHER -> Commit(op, Retyped(link, op), op.id)

Without(tables, tab, id) ==
  CASE tab = "node" -> [tables EXCEPT
         !.nodes = @ \ id, !.links = {link \in @ : link.ends \cap id = {}}]
    [] tab = "link" -> [tables EXCEPT !.links = {link \in @ : link.id \notin id}]
    [] tab = "group" -> [tables EXCEPT !.groups = @ \ id]
(* delete_node, with its links; delete_link; delete_group. *)
deletes(op) ==
  /\ Handling(op, "delete")
  /\ IF op.id \subseteq Existing(server.tables, op.tab)
     THEN Commit(op, Without(server.tables, op.tab, op.id), op.id)
     ELSE Refuse(op)

(* The connection fails, before the handler or after it.                    *)
requestFails(op) ==
  /\ Spend("failures", MaxFailures)
  /\ op.phase \in {"sent", "checked", "stored"}
  /\ Answer(op, [op EXCEPT !.phase = "refused"])
  /\ UNCHANGED <<server, shown, ui, draft, saving, error>>

-----------------------------------------------------------------------------
(* Going on with an answer. *)

ShowsLoading(op) == op.what \in {"drag", "delete", "reload"}
                    \/ (op.what = "save" /\ op.tab # "link")
Saves(op) == op.what \notin {"drag", "reload"}

AfterDelete(op) ==
  IF op.what # "delete" THEN ui
  ELSE CASE op.tab = "node" -> [ui EXCEPT !.node = {}, !.link = {}]
         [] op.tab = "link" -> [ui EXCEPT !.link = {}]
         [] op.tab = "group" -> [ui EXCEPT !.group = {}]
(* loadSnapshot, up to its fetch; a connect that was a duplicate loads to   *)
(* find the link. *)
loads(op) ==
  /\ op.phase \in {"stored", "duplicate"}
  /\ Answer(op, [op EXCEPT !.phase = IF op.phase = "stored" THEN "loading"
                                     ELSE "searching"])
  /\ Show([AfterDelete(op) EXCEPT !.loading = @ \/ ShowsLoading(op)])
  /\ error' = FALSE
  /\ UNCHANGED <<server, saving, counts>>

reportsErrorOnly(op) ==
  /\ op.phase = "refused"
  /\ ops' = ops \ {op} /\ error' = TRUE
  /\ UNCHANGED <<server, shown, ui, draft, saving, counts>>
reportsError(op) ==
  /\ op.phase = "refused"
  /\ ops' = ops \ {op}
  /\ error' = TRUE /\ saving' = (saving /\ ~Saves(op))
  /\ UNCHANGED <<server, shown, ui, draft, counts>>

Found(op, view) == {link.id : link \in matchingLink(view.links, op.ends, "local")}
DoneKeeping(op, u, view) == [u EXCEPT ![op.tab] = op.id, !.adding = @ \ {op.tab}]
(* What an operation selects when it is done, whatever was selected since.  *)
Done(op, u, view) ==
  CASE op.what = "save" /\ op.tab = "node" ->
         [u EXCEPT !.node = op.id, !.link = {}, !.adding = @ \ {"node", "link"}]
    [] op.what = "save" /\ op.tab = "group" ->
         [u EXCEPT !.group = op.id, !.node = {}, !.link = {}, !.adding = @ \ {"group"}]
    [] op.what = "save" /\ op.tab = "link" ->
         [u EXCEPT !.link = op.id, !.node = {}, !.adding = @ \ {"link"}]
    [] op.what = "connect" /\ op.phase = "loading" ->
         [Nothing EXCEPT !.link = op.id, !.loading = u.loading]
    [] op.what = "connect" /\ op.phase = "searching" /\ Found(op, view) # {} ->
         selectSavedLink(u, CHOOSE id \in Found(op, view) : TRUE)
    [] OTHER -> u

(* The duplicate that was searched for is not there. *)
LostSilently(op) == FALSE
Lost(op) == op.phase = "searching" /\ Found(op, Newest) = {}
(* The load ends, and the operation with it. *)
loaded(op) ==
  /\ op.phase \in {"loading", "searching"}
  /\ \E failed \in BOOLEAN :
       LET view == IF failed THEN shown ELSE Newest
           u == [ui EXCEPT !.loading = @ /\ ~ShowsLoading(op)]
       IN /\ IF failed THEN Spend("failures", MaxFailures) ELSE UNCHANGED counts
          /\ error' = (error \/ failed \/ Lost(op))
          /\ Render(IF failed /\ op.phase = "searching" THEN u ELSE Done(op, u, Newest),
                    view, IF op.what = "save" THEN {op.tab} ELSE {})
  /\ ops' = ops \ {op}
  /\ saving' = (saving /\ ~Saves(op))
  /\ UNCHANGED server

(* An event arrives and its refresh is applied. *)
sync ==
  /\ shown.revision < server.tables.revision
  /\ Render(ui, server.tables, {})
  /\ error' = FALSE /\ UNCHANGED <<server, ops, saving, counts>>

(* Another browser: what it commits is a change that keeps links apart.     *)
Changed(tables) ==
  /\ tables # server.tables
  /\ \A a, b \in tables.links : a.ends = b.ends /\ a.kind = b.kind => a = b
  /\ server' = [tables |-> [tables EXCEPT !.revision = @ + 1],
                used |-> server.used \cup {link.id : link \in tables.links}]
elsewhere ==
  /\ Spend("elsewhere", MaxElsewhere)
  /\ \/ \E tab \in Tabs, id \in server.used :
          Changed(Without(server.tables, tab, {id}))
     \/ \E n \in server.tables.nodes :
          Changed([server.tables EXCEPT !.at[n] = MaxOps + counts.elsewhere + 1])
     \/ \E l \in Links \ server.used, k \in Kinds, e \in Pairs(server.tables.nodes) :
          Changed([server.tables EXCEPT
                     !.links = @ \cup {[id |-> l, ends |-> e, kind |-> k]}])
  /\ UNCHANGED <<shown, ui, draft, ops, saving, error>>

-----------------------------------------------------------------------------
User ==
  \/ \E n \in Nodes : clickNode(n) \/ selectSearchResult(n) \/ dragNode(n)
  \/ \E id \in Links : clickLink(id)
  \/ \E g \in Groups : clickGroup(g) \/ dragGroup(g)
  \/ \E tab \in Tabs : beginAdding(tab)
  \/ \E ends \in Pairs(shown.nodes) : connectNodes(ends)
  \/ onPaneClick \/ onCancel \/ update \/ save \/ onKeyDown \/ onDelete \/ reload
Server == \E op \in ops :
  \/ createNode(op) \/ patch_node(op) \/ putGroup(op) \/ create_link_checks(op)
  \/ create_link(op) \/ patch_link(op) \/ deletes(op)
Callbacks == \E op \in ops : loads(op) \/ reportsError(op) \/ loaded(op)

Next ==
  \/ User \/ Server \/ Callbacks \/ sync \/ elsewhere
  \/ \E op \in ops : requestFails(op)

Spec == Init /\ [][Next]_vars

(* Requests are answered and callbacks run; the user need do nothing.       *)
FairSpec == Spec /\ WF_vars(Server) /\ WF_vars(Callbacks)

-----------------------------------------------------------------------------
(* The Delete key deletes what the inspector shows, whatever operations end *)
(* and change the selection meanwhile: the key looks for a selected node    *)
(* first, the inspector for a link.                                         *)
DeleteHitsInspected ==
  LET tab == KeyTarget(ui)
  IN ~ui.loading /\ tab \in Tabs /\ Selected(ui, shown, tab) # {} =>
       Inspected(ui, shown) = [tab |-> tab, owner |-> ui[tab]]

(* What is typed into a form is lost only when its user selects, closes or  *)
(* opens something, when what it is of is deleted, or by an operation that  *)
(* puts up the loading screen or ends by selecting what it made: not by a   *)
(* move or change of another browser or a drag here, nor by any other       *)
(* request that is begun, answered, refused or ended meanwhile.  The last   *)
(* exception is what an earlier save made, when its load failed: it is      *)
(* selected, and its inspector opens as soon as it is shown.                *)
TypedIsKept ==
  [][draft.typed /\ ~draft'.typed =>
       \/ counts'.clicks # counts.clicks
       \/ ~ui.loading /\ ui'.loading
       \/ \E op \in ops : op.what \in {"save", "connect"} /\ ops' = ops \ {op}
       \/ ~(draft.owner \subseteq Existing(shown', draft.tab))
       \/ \E tab \in Tabs : /\ Selected(ui, shown, tab) = {}
                            /\ Selected(ui, shown', tab) # {}]_vars

(* Connecting two nodes ends with a link of theirs selected and shown,      *)
(* whatever kind another operation has given it meanwhile, or with an       *)
(* error; unless the link that was made is gone already.                    *)
ConnectEnds ==
  [][\A op \in ops : op.what = "connect" /\ ops' = ops \ {op} =>
       \/ error'
       \/ \E link \in shown'.links : link.ends = op.ends /\ ui'.link = {link.id}
       \/ /\ op.phase = "loading"
          /\ op.id \cap Existing(server.tables, "link") = {}]_vars

(* The buttons do not stay disabled, nor the loading screen up, whichever   *)
(* of the operations that overlap fails.                                    *)
SavingEnds == []<>(~saving /\ ~ui.loading)

(* What the canvas computes from a snapshot, checked once on the bounds of  *)
(* CanvasGeometry.                                                          *)
CanvasIsSound ==
  shown.nodes # {} =>
    DropIsStable /\ DropFits /\ NearestHandlesFace /\ LinksAreTold
=============================================================================
