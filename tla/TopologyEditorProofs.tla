-------------------------- MODULE TopologyEditorProofs --------------------------
(***************************************************************************)
(* What holds of editing the map in one browser (TopologyEditor) for every *)
(* set of ids and whatever the bounds; and, for every drop and every pair  *)
(* of positions, of what the canvas computes (CanvasGeometry).             *)
(***************************************************************************)
EXTENDS TopologyEditor, FiniteSetTheorems, WellFoundedInduction, TLAPS

AtMostOne(S) == \A a, b \in S : a = b

LinksUsed(s) == \A link \in s.tables.links : link.id \in s.used

ServerOK ==
  /\ server = [tables |-> server.tables, used |-> server.used]
  /\ server.tables \in Tables /\ server.used \subseteq Ids /\ LinksUsed(server)

ViewOK == shown \in Tables /\ shown.revision <= server.tables.revision

(* A node and a link are never selected together, nor a node while the form *)
(* of a new link is open: the inspector and the Delete key agree.           *)
UiOK(u) ==
  /\ u \in UI /\ AtMostOne(u.node) /\ AtMostOne(u.link) /\ AtMostOne(u.group)
  /\ AtMostOne(u.adding)
  /\ u.node # {} => u.link = {} /\ "link" \notin u.adding

(* A draft is of what is inspected, with its place.                         *)
DraftFor(d, u, view) ==
  /\ d \in Draft
  /\ SameDraft(d, Inspected(u, view))
  /\ d.at = initialDraft(Inspected(u, view), view).at
  /\ d.typed => d.tab \in Tabs
DraftOK == DraftFor(draft, ui, shown)

CountsOK == counts \in [clicks : Nat, ops : Nat, elsewhere : Nat, failures : Nat]
FlagsOK == saving \in BOOLEAN /\ error \in BOOLEAN

OpOK(op) ==
  /\ op \in Op /\ AtMostOne(op.id) /\ op.id \subseteq IdsOf(op.tab)
  /\ op.phase = "checked" \/ op.what = "connect" => op.tab = "link"
  /\ op.what = "save" /\ op.tab = "node" /\ op.id # {} /\ op.phase = "sent"
       => op.at # {}

(* The link that a connect has made is between the nodes it was to connect. *)
Connected(op, s) ==
  op.what = "connect" /\ op.phase \in {"stored", "loading"} =>
    /\ op.id \subseteq s.used
    /\ \A link \in s.tables.links : link.id \in op.id => link.ends = op.ends

OpsOK ==
  /\ \A op \in ops : OpOK(op) /\ Connected(op, server) /\ op.n < counts.ops
  /\ \A a, b \in ops : a.n = b.n => a = b

EditorInv ==
  ServerOK /\ ViewOK /\ UiOK(ui) /\ DraftOK /\ CountsOK /\ FlagsOK
  /\ OpsOK

-----------------------------------------------------------------------------
(* Rendering. *)

LEMMA Tabbed ==
  ASSUME NEW u \in UI, NEW view \in Tables
  PROVE  /\ u["node"] = u.node /\ u["link"] = u.link /\ u["group"] = u.group
         /\ Existing(view, "node") = view.nodes
         /\ Existing(view, "link") = {link.id : link \in view.links}
         /\ Existing(view, "group") = view.groups
BY DEF UI, Existing

LEMMA SelectedTypes ==
  ASSUME NEW u \in UI, NEW view \in Tables, NEW tab \in Tabs
  PROVE  Selected(u, view, tab) \subseteq Ids /\ Selected(u, view, tab) \subseteq u[tab]
<1>1. u.node \subseteq Nodes /\ u.link \subseteq Links /\ u.group \subseteq Groups
  BY DEF UI
<1>2. u[tab] \subseteq Ids
  BY <1>1, Tabbed DEF Tabs, Ids
<1>3. QED
  BY <1>2 DEF Selected

LEMMA InspectedTypes ==
  ASSUME NEW u \in UI, NEW view \in Tables
  PROVE  LET i == Inspected(u, view)
         IN /\ i.tab \in Tabs \cup {"none"} /\ i.owner \subseteq Ids
            /\ i.tab \in Tabs => i.owner = Selected(u, view, i.tab)
            /\ i.tab = "none" => i.owner = {}
<1> DEFINE i == Inspected(u, view)
<1>1. \/ i = [tab |-> "link", owner |-> Selected(u, view, "link")]
      \/ i = [tab |-> "node", owner |-> Selected(u, view, "node")]
      \/ i = [tab |-> "group", owner |-> Selected(u, view, "group")]
      \/ i = [tab |-> "none", owner |-> {}]
  BY DEF Inspected
<1> HIDE DEF i
<1>2. QED
  BY <1>1, SelectedTypes DEF i, Tabs
LEMMA InitialDraftOK ==
  ASSUME NEW u \in UI, NEW view \in Tables
  PROVE  DraftFor(initialDraft(Inspected(u, view), view), u, view)
<1> PICK i : i = Inspected(u, view)
  OBVIOUS
<1>1. i.tab \in Tabs \cup {"none"} /\ i.owner \subseteq Ids
  BY InspectedTypes
<1>2. {view.at[n] : n \in i.owner \cap Nodes} \subseteq Nat
  BY DEF Tables
<1> DEFINE at == {view.at[n] : n \in i.owner \cap Nodes}
<1> HIDE DEF at
<1> PICK d : d = initialDraft(i, view)
  OBVIOUS
<1>3. d = [tab |-> i.tab, owner |-> i.owner, at |-> at, typed |-> FALSE]
  BY DEF initialDraft, at
<1>4. d \in Draft
  BY <1>1, <1>2, <1>3 DEF Draft, at
<1>5. d.tab = i.tab /\ d.owner = i.owner /\ d.typed = FALSE
  BY <1>3
<1>6. QED
  BY <1>4, <1>5 DEF DraftFor, SameDraft

LEMMA RenderedOK ==
  ASSUME NEW u \in UI, NEW view \in Tables, NEW fresh, draft \in Draft,
         draft.typed => draft.tab \in Tabs
  PROVE  DraftFor(Rendered(u, view, fresh), u, view)
<1> PICK i : i = Inspected(u, view)
  OBVIOUS
<1>1. CASE SameDraft(draft, i) /\ i.tab \notin fresh
  <2> PICK at : at = initialDraft(i, view).at
    OBVIOUS
  <2> PICK d : d = Rendered(u, view, fresh)
    OBVIOUS
  <2>1. d = [draft EXCEPT !.at = at]
    BY <1>1 DEF Rendered, Merged
  <2>2. at \subseteq Nat
    BY InitialDraftOK DEF DraftFor, Draft
  <2>3. d \in Draft /\ d.tab = draft.tab /\ d.owner = draft.owner
        /\ d.typed = draft.typed /\ d.at = at
    BY <2>1, <2>2 DEF Draft
  <2>4. QED
    BY <1>1, <2>3 DEF DraftFor, SameDraft
<1>2. CASE ~(SameDraft(draft, i) /\ i.tab \notin fresh)
  <2>1. Rendered(u, view, fresh) = initialDraft(i, view)
    BY <1>2 DEF Rendered
  <2>2. QED
    BY <2>1, InitialDraftOK
<1>3. QED
  BY <1>1, <1>2

(* Whatever is rendered, of a sound selection and a sound view.             *)
LEMMA RenderOK ==
  ASSUME EditorInv, NEW u, UiOK(u), NEW view \in Tables, NEW fresh,
         Render(u, view, fresh)
  PROVE  /\ UiOK(ui') /\ DraftOK' /\ shown' = view /\ ui' = u
         /\ draft' = Rendered(u, view, fresh)
<1>1. ui' = u /\ shown' = view /\ draft' = Rendered(u, view, fresh)
  BY DEF Render
<1>2. DraftFor(draft', u, view)
  BY <1>1, RenderedOK DEF EditorInv, DraftOK, DraftFor, UiOK
<1>3. DraftOK'
  BY <1>1, <1>2 DEF DraftOK
<1>4. QED
  BY <1>1, <1>3

LEMMA ShowOK ==
  ASSUME EditorInv, NEW u, UiOK(u), Show(u), UNCHANGED server
  PROVE  UiOK(ui') /\ DraftOK' /\ ViewOK'
<1>1. shown \in Tables /\ Render(u, shown, {})
  BY DEF EditorInv, ViewOK, Show
<1>2. UiOK(ui') /\ DraftOK' /\ shown' = shown
  BY <1>1, RenderOK
<1>3. QED
  BY <1>2 DEF EditorInv, ViewOK
-----------------------------------------------------------------------------
(* Counting, the operations and the tables. *)

LEMMA SpendOK ==
  ASSUME CountsOK, NEW what \in {"clicks", "ops", "elsewhere", "failures"},
         NEW bound, Spend(what, bound)
  PROVE  /\ CountsOK' /\ counts' # counts /\ counts.ops <= counts'.ops
         /\ what = "ops" => counts'.ops = counts.ops + 1
         /\ counts.ops \in Nat
<1>1. counts' = [counts EXCEPT ![what] = counts[what] + 1]
  BY DEF Spend
<1>2. /\ counts.clicks \in Nat /\ counts.ops \in Nat /\ counts.elsewhere \in Nat
      /\ counts.failures \in Nat
  BY DEF CountsOK
<1>3. CASE what = "clicks"
  <2>1. counts' = [counts EXCEPT !.clicks = counts.clicks + 1]
    BY <1>1, <1>3
  <2>2. counts'.clicks = counts.clicks + 1 /\ counts'.ops = counts.ops /\ CountsOK'
    BY <1>2, <2>1 DEF CountsOK
  <2>3. QED
    BY <1>2, <1>3, <2>2
<1>4. CASE what = "ops"
  <2>1. counts' = [counts EXCEPT !.ops = counts.ops + 1]
    BY <1>1, <1>4
  <2>2. counts'.ops = counts.ops + 1 /\ CountsOK'
    BY <1>2, <2>1 DEF CountsOK
  <2>3. QED
    BY <1>2, <1>4, <2>2
<1>5. CASE what = "elsewhere"
  <2>1. counts' = [counts EXCEPT !.elsewhere = counts.elsewhere + 1]
    BY <1>1, <1>5
  <2>2. counts'.elsewhere = counts.elsewhere + 1 /\ counts'.ops = counts.ops /\ CountsOK'
    BY <1>2, <2>1 DEF CountsOK
  <2>3. QED
    BY <1>2, <1>5, <2>2
<1>6. CASE what = "failures"
  <2>1. counts' = [counts EXCEPT !.failures = counts.failures + 1]
    BY <1>1, <1>6
  <2>2. counts'.failures = counts.failures + 1 /\ counts'.ops = counts.ops /\ CountsOK'
    BY <1>2, <2>1 DEF CountsOK
  <2>3. QED
    BY <1>2, <1>6, <2>2
<1>7. QED
  BY <1>3, <1>4, <1>5, <1>6

(* A change of the tables gives no link other ends, and no link the id of a *)
(* link that was ever there.                                                *)
Follows(s, t) ==
  /\ s.used \subseteq t.used
  /\ \A link \in t.tables.links : link.id \in s.used =>
       \E old \in s.tables.links : old.id = link.id /\ old.ends = link.ends

LEMMA ConnectedFollows ==
  ASSUME NEW op, NEW s, NEW t, Connected(op, s), Follows(s, t)
  PROVE  Connected(op, t)
BY DEF Connected, Follows

LEMMA OpsKept ==
  ASSUME OpsOK, CountsOK, CountsOK', Follows(server, server'),
         counts.ops <= counts'.ops, ops' \subseteq ops
  PROVE  OpsOK'
<1>1. counts.ops \in Nat /\ counts'.ops \in Nat
  BY DEF CountsOK
<1>2. \A op \in ops : op.n \in Nat
  BY DEF OpsOK, OpOK, Op
<1>3. \A op \in ops' : OpOK(op) /\ Connected(op, server') /\ op.n < counts'.ops
  BY <1>1, <1>2, ConnectedFollows DEF OpsOK
<1>4. \A a, b \in ops' : a.n = b.n => a = b
  BY DEF OpsOK
<1>5. QED
  BY <1>3, <1>4 DEF OpsOK

LEMMA AnswerOK ==
  ASSUME OpsOK, CountsOK, CountsOK', Follows(server, server'),
         counts.ops <= counts'.ops, NEW op \in ops, NEW answer,
         Answer(op, answer), answer.n = op.n, OpOK(answer),
         Connected(answer, server')
  PROVE  OpsOK'
<1>1. counts.ops \in Nat /\ counts'.ops \in Nat
  BY DEF CountsOK
<1>2. \A o \in ops : o.n \in Nat /\ o.n < counts.ops
  BY DEF OpsOK, OpOK, Op
<1>3. ops' = (ops \ {op}) \cup {answer}
  BY DEF Answer
<1>4. \A o \in ops' : OpOK(o) /\ Connected(o, server') /\ o.n < counts'.ops
  BY <1>1, <1>2, <1>3, ConnectedFollows DEF OpsOK
<1>5. \A a, b \in ops' : a.n = b.n => a = b
  BY <1>3 DEF OpsOK
<1>6. QED
  BY <1>4, <1>5 DEF OpsOK

LEMMA SendOK ==
  ASSUME OpsOK, CountsOK, CountsOK', Follows(server, server'),
         counts'.ops = counts.ops + 1, NEW op, OpOK(op), op.n = counts.ops,
         Connected(op, server'), ops' = ops \cup {op}
  PROVE  OpsOK'
<1>1. counts.ops \in Nat /\ counts'.ops \in Nat
  BY DEF CountsOK
<1>2. \A o \in ops : o.n \in Nat /\ o.n < counts.ops
  BY DEF OpsOK, OpOK, Op
<1>3. \A o \in ops' : OpOK(o) /\ Connected(o, server') /\ o.n < counts'.ops
  BY <1>1, <1>2, ConnectedFollows DEF OpsOK
<1>4. \A a, b \in ops' : a.n = b.n => a = b
  BY <1>1, <1>2 DEF OpsOK
<1>5. QED
  BY <1>3, <1>4 DEF OpsOK

LEMMA FollowsItself ==
  ASSUME UNCHANGED server
  PROVE  Follows(server, server')
BY DEF Follows

LEMMA ServerKept ==
  ASSUME ServerOK, ViewOK, UNCHANGED <<server, shown>>
  PROVE  ServerOK' /\ ViewOK' /\ Follows(server, server')
BY FollowsItself DEF ServerOK, ViewOK, LinksUsed

(* A commit of tables whose links are those of before or new.               *)
LEMMA CommitOK ==
  ASSUME ServerOK, ViewOK, UNCHANGED shown, NEW tables \in Tables, NEW id,
         tables.revision = server.tables.revision, id \subseteq Ids,
         \A link \in tables.links :
           \/ link.id \in id \ server.used
           \/ \E old \in server.tables.links : old.id = link.id /\ old.ends = link.ends,
         server' = [tables |-> [tables EXCEPT !.revision = @ + 1],
                    used |-> server.used \cup id]
  PROVE  ServerOK' /\ ViewOK' /\ Follows(server, server')
<1>1. tables.revision \in Nat /\ server.tables.revision \in Nat /\ shown.revision \in Nat
  BY DEF ServerOK, ViewOK, Tables
<1> PICK t : t = [tables EXCEPT !.revision = tables.revision + 1]
  OBVIOUS
<1>2. t \in Tables /\ t.links = tables.links /\ t.revision = server.tables.revision + 1
  BY <1>1 DEF Tables
<1>3. server'.tables = t /\ server'.used = server.used \cup id
      /\ server' = [tables |-> server'.tables, used |-> server'.used]
  OBVIOUS
<1>4. \A link \in t.links : link.id \in server.used \cup id
  BY <1>2 DEF ServerOK, LinksUsed
<1>5. ServerOK'
  BY <1>2, <1>3, <1>4 DEF ServerOK, LinksUsed
<1>6. ViewOK'
  <2>1. shown.revision <= server.tables.revision /\ shown \in Tables
    BY DEF ViewOK
  <2>2. shown.revision <= t.revision
    BY <1>1, <1>2, <2>1
  <2>3. QED
    BY <1>3, <2>1, <2>2 DEF ViewOK
<1>7. Follows(server, server')
  BY <1>2, <1>3 DEF Follows
<1>8. QED
  BY <1>5, <1>6, <1>7
-----------------------------------------------------------------------------
(* The user selects. *)

LEMMA ClickOK ==
  ASSUME EditorInv, NEW u, UiOK(u), Show(u), Click
  PROVE  EditorInv'
<1>1. CountsOK' /\ counts.ops <= counts'.ops
  BY SpendOK DEF Click, EditorInv
<1>2. UiOK(ui') /\ DraftOK' /\ ViewOK'
  BY ShowOK DEF Click
<1>3. ServerOK' /\ Follows(server, server')
  BY FollowsItself DEF Click, EditorInv, ServerOK, LinksUsed
<1>4. OpsOK'
  BY <1>1, <1>3, OpsKept DEF EditorInv, Click
<1>5. FlagsOK'
  BY DEF EditorInv, FlagsOK, Click
<1>6. QED
  BY <1>1, <1>2, <1>3, <1>4, <1>5 DEF EditorInv

LEMMA UiRecord ==
  ASSUME NEW node \in SUBSET Nodes, NEW link \in SUBSET Links,
         NEW group \in SUBSET Groups, NEW adding \in SUBSET Tabs,
         NEW loading \in BOOLEAN, AtMostOne(node), AtMostOne(link),
         AtMostOne(group), AtMostOne(adding),
         node # {} => link = {} /\ "link" \notin adding,
         NEW u, u = [node |-> node, link |-> link, group |-> group,
                     adding |-> adding, loading |-> loading]
  PROVE  UiOK(u)
<1>1. u \in UI
  BY DEF UI
<1>2. u.node = node /\ u.link = link /\ u.group = group /\ u.adding = adding
  OBVIOUS
<1>3. QED
  BY <1>1, <1>2 DEF UiOK

LEMMA NothingOK ==
  /\ UiOK(Nothing)
  /\ \A n \in Nodes : UiOK([Nothing EXCEPT !.node = {n}])
  /\ \A id \in Links, u \in UI : UiOK(selectSavedLink(u, id))
  /\ \A tab \in Tabs : \A u : UiOK(AddingForm(u, tab))
<1>1. AtMostOne({}) /\ \A x : AtMostOne({x})
  BY DEF AtMostOne
<1>2. UiOK(Nothing)
  <2> PICK none : none = {}
    OBVIOUS
  <2>1. Nothing = [node |-> none, link |-> none, group |-> none, adding |-> none,
                   loading |-> FALSE]
    BY DEF Nothing
  <2>2. QED
    BY <1>1, <2>1, UiRecord
<1>3. ASSUME NEW n \in Nodes PROVE UiOK([Nothing EXCEPT !.node = {n}])
  <2> PICK u : u = [Nothing EXCEPT !.node = {n}]
    OBVIOUS
  <2> PICK node \in SUBSET Nodes : node = {n}
    OBVIOUS
  <2>1. u = [node |-> node, link |-> {}, group |-> {}, adding |-> {}, loading |-> FALSE]
    BY DEF Nothing
  <2>2. AtMostOne(node)
    BY <1>1
  <2>3. UiOK(u)
    BY <1>1, <2>1, <2>2, UiRecord
  <2>4. QED
    BY <2>3
<1>4. ASSUME NEW id \in Links, NEW v \in UI PROVE UiOK(selectSavedLink(v, id))
  <2> PICK u : u = selectSavedLink(v, id)
    OBVIOUS
  <2> PICK link \in SUBSET Links : link = {id}
    OBVIOUS
  <2> PICK loading \in BOOLEAN : loading = v.loading
    BY DEF UI
  <2>1. u = [node |-> {}, link |-> link, group |-> {}, adding |-> {},
             loading |-> loading]
    BY DEF Nothing, selectSavedLink
  <2>2. AtMostOne(link)
    BY <1>1
  <2>3. UiOK(u)
    BY <1>1, <2>1, <2>2, UiRecord
  <2>4. QED
    BY <2>3
<1>5. ASSUME NEW tab \in Tabs, NEW v PROVE UiOK(AddingForm(v, tab))
  <2> PICK u : u = AddingForm(v, tab)
    OBVIOUS
  <2> PICK adding \in SUBSET Tabs : adding = {tab}
    OBVIOUS
  <2>1. u = [node |-> {}, link |-> {}, group |-> {}, adding |-> adding, loading |-> FALSE]
    BY DEF Nothing, AddingForm
  <2>2. AtMostOne(adding)
    BY <1>1
  <2>3. UiOK(u)
    BY <1>1, <2>1, <2>2, UiRecord
  <2>4. QED
    BY <2>3
<1>6. QED
  BY <1>2, <1>3, <1>4, <1>5

LEMMA ShownTypes ==
  ASSUME EditorInv
  PROVE  /\ shown.nodes \subseteq Nodes /\ Existing(shown, "link") \subseteq Links
         /\ shown.groups \subseteq Groups /\ ui \in UI /\ UiOK(ui)
         /\ shown \in Tables
         /\ \A link \in shown.links : link.id \in Links /\ link.ends \subseteq Nodes
BY DEF EditorInv, ViewOK, Tables, LinkRecords, Existing, UiOK

LEMMA ClickNode == ASSUME EditorInv, NEW n, clickNode(n) PROVE EditorInv'
<1> PICK u : u = [Nothing EXCEPT !.node = {n}]
  OBVIOUS
<1>1. n \in Nodes
  BY ShownTypes DEF clickNode
<1>2. UiOK(u)
  BY <1>1, NothingOK
<1>3. Show(u) /\ Click
  BY DEF clickNode
<1>4. QED
  BY <1>2, <1>3, ClickOK

LEMMA ClickLink == ASSUME EditorInv, NEW id, clickLink(id) PROVE EditorInv'
<1> PICK u : u = selectSavedLink(ui, id)
  OBVIOUS
<1>1. id \in Links /\ ui \in UI
  BY ShownTypes DEF clickLink
<1>2. UiOK(u)
  BY <1>1, NothingOK
<1>3. Show(u) /\ Click
  BY DEF clickLink
<1>4. QED
  BY <1>2, <1>3, ClickOK

LEMMA ClickGroup == ASSUME EditorInv, NEW g, clickGroup(g) PROVE EditorInv'
<1> PICK u : u = [Nothing EXCEPT !.group = {g}, !.adding = ui.adding \ {"group"}]
  OBVIOUS
<1>1. g \in Groups /\ ui \in UI /\ UiOK(ui)
  BY ShownTypes DEF clickGroup
<1> PICK adding : adding = ui.adding \ {"group"}
  OBVIOUS
<1>2. u = [node |-> {}, link |-> {}, group |-> {g}, adding |-> adding, loading |-> FALSE]
  BY DEF Nothing
<1>3. adding \in SUBSET Tabs /\ AtMostOne(adding)
  BY <1>1 DEF UI, AtMostOne, UiOK
<1> PICK group \in SUBSET Groups : group = {g}
  BY <1>1
<1>4. UiOK(u)
  <2>1. u = [node |-> {}, link |-> {}, group |-> group, adding |-> adding,
             loading |-> FALSE]
    BY <1>2
  <2>2. AtMostOne(group) /\ AtMostOne({})
    BY DEF AtMostOne
  <2>3. QED
    BY <1>3, <2>1, <2>2, UiRecord
<1>5. Show(u) /\ Click
  BY DEF clickGroup
<1>6. QED
  BY <1>4, <1>5, ClickOK

LEMMA PaneClick == ASSUME EditorInv, onPaneClick PROVE EditorInv'
BY NothingOK, ClickOK DEF onPaneClick

LEMMA SearchResult == ASSUME EditorInv, NEW n, selectSearchResult(n) PROVE EditorInv'
<1> PICK u : u = [ui EXCEPT !.node = {n}, !.link = {}, !.adding = @ \ {"node", "link"}]
  OBVIOUS
<1>1. n \in Nodes /\ ui \in UI /\ UiOK(ui)
  BY ShownTypes DEF selectSearchResult
<1>2. u \in UI /\ u.node = {n} /\ u.link = {} /\ u.group = ui.group
      /\ u.adding = ui.adding \ {"node", "link"}
  BY <1>1 DEF UI
<1>3. UiOK(u)
  BY <1>1, <1>2 DEF UiOK, AtMostOne
<1>4. Show(u) /\ Click
  BY DEF selectSearchResult
<1>5. QED
  BY <1>3, <1>4, ClickOK

LEMMA BeginAdding ==
  ASSUME EditorInv, NEW tab \in Tabs, beginAdding(tab) PROVE EditorInv'
<1> PICK u : u = AddingForm(ui, tab)
  OBVIOUS
<1>1. UiOK(u)
  BY NothingOK
<1>2. Render(u, shown, {tab}) /\ Click /\ shown \in Tables
  BY ShownTypes DEF beginAdding
<1>3. UiOK(ui') /\ DraftOK' /\ shown' = shown
  BY <1>1, <1>2, RenderOK
<1>4. CountsOK' /\ counts.ops <= counts'.ops
  BY <1>2, SpendOK DEF Click, EditorInv
<1>5. ServerOK' /\ ViewOK' /\ Follows(server, server')
  BY <1>2, <1>3, ServerKept DEF Click, EditorInv
<1>6. OpsOK'
  BY <1>2, <1>4, <1>5, OpsKept DEF EditorInv, Click
<1>7. FlagsOK'
  BY <1>2 DEF EditorInv, FlagsOK, Click
<1>8. QED
  BY <1>3, <1>4, <1>5, <1>6, <1>7 DEF EditorInv

(* Selections may be taken back, and the screen may load.                   *)
LEMMA FewerOK ==
  ASSUME NEW u, UiOK(u), NEW v \in UI, v.node \subseteq u.node,
         v.link \subseteq u.link, v.group \subseteq u.group,
         v.adding \subseteq u.adding
  PROVE  UiOK(v)
BY DEF UiOK, AtMostOne

LEMMA Cancel == ASSUME EditorInv, onCancel PROVE EditorInv'
<1> PICK tab : tab = draft.tab
  OBVIOUS
<1> PICK u : u = [ui EXCEPT ![tab] = {}, !.adding = @ \ {tab}]
  OBVIOUS
<1>1. tab \in Tabs /\ ui \in UI /\ UiOK(ui)
  BY ShownTypes DEF onCancel
<1>2. u \in UI /\ u.node \subseteq ui.node /\ u.link \subseteq ui.link
      /\ u.group \subseteq ui.group /\ u.adding \subseteq ui.adding
  <2>1. CASE tab = "node"
    BY <1>1, <2>1 DEF UI
  <2>2. CASE tab = "link"
    BY <1>1, <2>2 DEF UI
  <2>3. CASE tab = "group"
    BY <1>1, <2>3 DEF UI
  <2>4. QED
    BY <1>1, <2>1, <2>2, <2>3 DEF Tabs
<1>3. UiOK(u)
  BY <1>1, <1>2, FewerOK
<1>4. Show(u) /\ Click
  BY DEF onCancel
<1>5. QED
  BY <1>3, <1>4, ClickOK

LEMMA Update == ASSUME EditorInv, update PROVE EditorInv'
<1>1. draft' = [draft EXCEPT !.typed = TRUE] /\ draft.tab \in Tabs
      /\ UNCHANGED <<server, shown, ui, ops, saving, error, counts>>
  BY DEF update
<1>2. DraftFor(draft, ui, shown)
  BY DEF EditorInv, DraftOK
<1>3. DraftFor(draft', ui, shown)
  <2>1. draft' \in Draft /\ draft'.tab = draft.tab /\ draft'.owner = draft.owner
        /\ draft'.at = draft.at
    BY <1>1, <1>2 DEF DraftFor, Draft
  <2>2. QED
    BY <1>1, <1>2, <2>1 DEF DraftFor, SameDraft
<1>4. DraftOK'
  BY <1>1, <1>3 DEF DraftOK
<1>5. ServerOK' /\ ViewOK' /\ Follows(server, server')
  BY <1>1, ServerKept DEF EditorInv
<1>6. CountsOK' /\ counts.ops <= counts'.ops
  BY <1>1 DEF EditorInv, CountsOK
<1>7. OpsOK'
  BY <1>1, <1>5, <1>6, OpsKept DEF EditorInv
<1>8. UiOK(ui') /\ FlagsOK'
  BY <1>1 DEF EditorInv, FlagsOK
<1>9. QED
  BY <1>4, <1>5, <1>6, <1>7, <1>8 DEF EditorInv
-----------------------------------------------------------------------------
(* An operation begins. *)

LEMMA SelectedOK ==
  ASSUME NEW u, UiOK(u), NEW view \in Tables, NEW tab \in Tabs
  PROVE  /\ u[tab] \subseteq IdsOf(tab) /\ AtMostOne(u[tab])
         /\ Selected(u, view, tab) \subseteq u[tab]
         /\ IdsOf(tab) \subseteq Ids
<1>1. u.node \subseteq Nodes /\ u.link \subseteq Links /\ u.group \subseteq Groups
      /\ u \in UI /\ AtMostOne(u.node) /\ AtMostOne(u.link) /\ AtMostOne(u.group)
  BY DEF UiOK, UI
<1>2. CASE tab = "node"
  BY <1>1, <1>2, Tabbed DEF IdsOf, Ids, Selected
<1>3. CASE tab = "link"
  BY <1>1, <1>3, Tabbed DEF IdsOf, Ids, Selected
<1>4. CASE tab = "group"
  BY <1>1, <1>4, Tabbed DEF IdsOf, Ids, Selected
<1>5. QED
  BY <1>2, <1>3, <1>4 DEF Tabs

LEMMA OpRecord ==
  ASSUME NEW what \in {"save", "delete", "connect", "drag", "reload"},
         NEW tab \in Tabs, NEW id, NEW at \in SUBSET Nat,
         NEW ends \in SUBSET Nodes, NEW kind \in Kinds, CountsOK,
         NEW phase \in {"sent", "loading"}, id \subseteq IdsOf(tab), AtMostOne(id),
         what = "save" /\ tab = "node" /\ id # {} => at # {},
         what = "connect" => tab = "link",
         NEW op, op = [what |-> what, tab |-> tab, id |-> id, at |-> at,
                       ends |-> ends, kind |-> kind, n |-> counts.ops,
                       phase |-> phase]
  PROVE  /\ OpOK(op) /\ op.n = counts.ops
         /\ what # "connect" \/ phase = "sent" => \A s : Connected(op, s)
<1>1. counts.ops \in Nat
  BY DEF CountsOK
<1>2. id \subseteq Ids
  BY DEF IdsOf, Tabs, Ids
<1>3. op \in Op
  BY <1>1, <1>2 DEF Op
<1>4. op.what = what /\ op.tab = tab /\ op.id = id /\ op.at = at /\ op.phase = phase
      /\ op.n = counts.ops
  OBVIOUS
<1>5. OpOK(op)
  BY <1>3, <1>4 DEF OpOK
<1>6. QED
  BY <1>4, <1>5 DEF Connected

LEMMA SendStep ==
  ASSUME EditorInv, NEW op, Send(op), OpOK(op), op.n = counts.ops,
         \A s : Connected(op, s), FlagsOK'
  PROVE  EditorInv'
<1>1. CountsOK' /\ counts'.ops = counts.ops + 1
  BY SpendOK DEF Send, EditorInv
<1>2. ServerOK' /\ ViewOK' /\ Follows(server, server')
  BY ServerKept DEF Send, EditorInv
<1>3. OpsOK'
  BY <1>1, <1>2, SendOK DEF Send, EditorInv
<1>4. UiOK(ui') /\ DraftOK'
  <2>1. ui' = ui /\ draft' = draft /\ shown' = shown
    BY DEF Send
  <2>2. QED
    BY <2>1 DEF EditorInv, DraftOK
<1>5. QED
  BY <1>1, <1>2, <1>3, <1>4 DEF EditorInv

LEMMA DraftFacts ==
  ASSUME EditorInv, draft.tab \in Tabs
  PROVE  /\ draft.owner = Selected(ui, shown, draft.tab) /\ draft.at \in SUBSET Nat
         /\ draft.owner \subseteq IdsOf(draft.tab) /\ AtMostOne(draft.owner)
         /\ draft.tab = "node" /\ draft.owner # {} => draft.at # {}
<1>1. ui \in UI /\ UiOK(ui) /\ shown \in Tables
  BY ShownTypes
<1>2. DraftFor(draft, ui, shown)
  BY DEF EditorInv, DraftOK
<1> PICK i : i = Inspected(ui, shown)
  OBVIOUS
<1>3. draft.tab = i.tab /\ draft.owner = i.owner
      /\ draft.at = initialDraft(i, shown).at
  BY <1>2 DEF DraftFor, SameDraft
<1>4. draft.owner = Selected(ui, shown, draft.tab)
  BY <1>1, <1>3, InspectedTypes
<1>5. draft.owner \subseteq IdsOf(draft.tab) /\ AtMostOne(draft.owner)
  BY <1>1, <1>4, SelectedOK DEF AtMostOne
<1>6. draft.at = {shown.at[n] : n \in draft.owner \cap Nodes}
  BY <1>3 DEF initialDraft
<1>7. draft.tab = "node" /\ draft.owner # {} => draft.at # {}
  BY <1>5, <1>6 DEF IdsOf
<1>8. draft.at \in SUBSET Nat
  BY <1>2 DEF DraftFor, Draft
<1>9. QED
  BY <1>4, <1>5, <1>7, <1>8

LEMMA Save == ASSUME EditorInv, save PROVE EditorInv'
<1> PICK tab \in Tabs : tab = draft.tab
  BY DEF save
<1> PICK id : id = Selected(ui, shown, tab)
  OBVIOUS
<1> PICK at \in SUBSET Nat : at = draft.at
  BY DraftFacts
<1>1. id \subseteq IdsOf(tab) /\ AtMostOne(id) /\ (tab = "node" /\ id # {} => at # {})
  BY DraftFacts
<1>2. FlagsOK' /\ CountsOK
  BY DEF save, FlagsOK, EditorInv
<1>0. PICK op : op = [Ask("save", tab, id) EXCEPT !.at = at]
  OBVIOUS
<1>3. op = [what |-> "save", tab |-> tab, id |-> id, at |-> at, ends |-> {},
            kind |-> "local", n |-> counts.ops, phase |-> "sent"]
  BY <1>0 DEF Ask
<1>4. CASE tab # "link"
  <2>1. Send(op)
    BY <1>0, <1>4 DEF save
  <2>2. "local" \in Kinds
    BY DEF Kinds
  <2>3. OpOK(op) /\ op.n = counts.ops /\ \A s : Connected(op, s)
    BY <1>1, <1>2, <1>3, <2>2, OpRecord
  <2>4. QED
    BY <1>2, <2>1, <2>3, SendStep
<1>5. CASE tab = "link"
  <2>1. PICK kind \in Kinds, ends \in FormEnds(op.id) :
          Send([op EXCEPT !.kind = kind, !.ends = ends])
    BY <1>0, <1>5 DEF save
  <2>2. ends \in SUBSET Nodes
    BY DEF FormEnds, Pairs
  <2>6. PICK o : o = [op EXCEPT !.kind = kind, !.ends = ends]
    OBVIOUS
  <2>3. o = [what |-> "save", tab |-> tab, id |-> id, at |-> at, ends |-> ends,
             kind |-> kind, n |-> counts.ops, phase |-> "sent"]
    BY <1>3, <2>6
  <2>4. OpOK(o) /\ o.n = counts.ops /\ \A s : Connected(o, s)
    BY <1>1, <1>2, <2>2, <2>3, OpRecord
  <2>5. QED
    BY <1>2, <2>1, <2>4, <2>6, SendStep
<1>6. QED
  BY <1>4, <1>5

LEMMA DeleteSelected ==
  ASSUME EditorInv, NEW tab \in Tabs, deleteSelected(tab) PROVE EditorInv'
<1> PICK op : op = Ask("delete", tab, ui[tab])
  OBVIOUS
<1> PICK id : id = ui[tab]
  OBVIOUS
<1>1. id \subseteq IdsOf(tab) /\ AtMostOne(id)
  BY ShownTypes, SelectedOK
<1>2. FlagsOK' /\ CountsOK
  BY DEF deleteSelected, FlagsOK, EditorInv
<1>3. op = [what |-> "delete", tab |-> tab, id |-> id, at |-> {}, ends |-> {},
            kind |-> "local", n |-> counts.ops, phase |-> "sent"]
  BY DEF Ask
<1>4. "local" \in Kinds
  BY DEF Kinds
<1>5. OpOK(op) /\ op.n = counts.ops /\ \A s : Connected(op, s)
  BY <1>1, <1>2, <1>3, <1>4, OpRecord
<1>6. QED
  BY <1>2, <1>5, SendStep DEF deleteSelected

LEMMA ConnectNodes ==
  ASSUME EditorInv, NEW ends \in Pairs(shown.nodes), connectNodes(ends)
  PROVE  EditorInv'
<1> PICK existing : existing = matchingLink(shown.links, ends, "local")
  OBVIOUS
<1>1. CASE existing # {}
  <2>1. PICK link \in existing : Show(selectSavedLink(ui, link.id)) /\ Click
    BY <1>1 DEF connectNodes
  <2>2. link.id \in Links /\ ui \in UI
    BY ShownTypes DEF matchingLink
  <2> PICK u : u = selectSavedLink(ui, link.id)
    OBVIOUS
  <2>3. UiOK(u)
    BY <2>2, NothingOK
  <2>4. QED
    BY <2>1, <2>3, ClickOK
<1>2. CASE existing = {}
  <2> PICK op : op = [Ask("connect", "link", {}) EXCEPT !.ends = ends]
    OBVIOUS
  <2>1. Send(op) /\ saving' = TRUE /\ error' = FALSE
    BY <1>2 DEF connectNodes
  <2>2. ends \in SUBSET Nodes
    BY ShownTypes DEF Pairs
  <2>3. op = [what |-> "connect", tab |-> "link", id |-> {}, at |-> {},
              ends |-> ends, kind |-> "local", n |-> counts.ops, phase |-> "sent"]
    BY DEF Ask
  <2>4. "local" \in Kinds /\ "link" \in Tabs /\ AtMostOne({}) /\ CountsOK
    BY DEF Kinds, Tabs, AtMostOne, EditorInv
  <2>5. OpOK(op) /\ op.n = counts.ops /\ \A s : Connected(op, s)
    BY <2>2, <2>3, <2>4, OpRecord
  <2>6. FlagsOK'
    BY <2>1 DEF FlagsOK
  <2>7. QED
    BY <2>1, <2>5, <2>6, SendStep
<1>3. QED
  BY <1>1, <1>2
(* A position in the tables of a server or of a view.                       *)
At(tables, n, at) == [tables EXCEPT !.at = [tables.at EXCEPT ![n] = at]]

LEMMA AtOK ==
  ASSUME NEW tables \in Tables, NEW n, NEW at \in Nat
  PROVE  /\ At(tables, n, at) \in Tables
         /\ At(tables, n, at).links = tables.links
         /\ At(tables, n, at).nodes = tables.nodes
         /\ At(tables, n, at).groups = tables.groups
         /\ At(tables, n, at).revision = tables.revision
<1> PICK f : f = [tables.at EXCEPT ![n] = at]
  OBVIOUS
<1>1. f \in [Nodes -> Nat]
  BY DEF Tables
<1> PICK t : t = At(tables, n, at)
  OBVIOUS
<1>2. t = [tables EXCEPT !.at = f]
  BY DEF At
<1>3. t \in Tables /\ t.links = tables.links /\ t.nodes = tables.nodes
      /\ t.groups = tables.groups /\ t.revision = tables.revision
  BY <1>1, <1>2 DEF Tables
<1>4. QED
  BY <1>3

LEMMA DragNode == ASSUME EditorInv, NEW n, dragNode(n) PROVE EditorInv'
<1>1. CountsOK /\ counts.ops + 1 \in Nat
  BY DEF EditorInv, CountsOK
<1>2. CountsOK' /\ counts.ops <= counts'.ops
  BY <1>1, SpendOK DEF dragNode
<1>3. PICK at \in Nat : at = counts.ops + 1
  BY <1>1
<1>4. ServerOK /\ ViewOK /\ UiOK(ui) /\ shown \in Tables
  BY DEF EditorInv, ViewOK
<1>5. PICK tables : tables = At(server.tables, n, at)
  OBVIOUS
<1>6. tables \in Tables /\ tables.links = server.tables.links
      /\ tables.revision = server.tables.revision
  BY <1>4, <1>5, AtOK DEF ServerOK
<1>7. PICK s : s = server
  OBVIOUS
<1>8. PICK q : q = s.tables
  OBVIOUS
<1>9. server' = [tables |-> [tables EXCEPT !.revision = @ + 1],
                 used |-> server.used \cup {}]
  <2>1. s = [tables |-> q, used |-> s.used]
    BY <1>4, <1>7, <1>8 DEF ServerOK
  <2>2. server' = [s EXCEPT !.tables = [At(q, n, at) EXCEPT !.revision = q.revision + 1]]
    BY <1>3, <1>4, <1>7, <1>8 DEF dragNode, At, ServerOK, Tables
  <2>3. QED
    BY <1>5, <1>6, <1>7, <1>8, <2>1, <2>2
<1>10. PICK view : view = At(shown, n, at)
  OBVIOUS
<1>11. view \in Tables /\ view.revision = shown.revision
  BY <1>4, <1>10, AtOK
<1>12. Render(ui, view, {})
  BY <1>3, <1>10 DEF dragNode, At
<1>13. UiOK(ui') /\ DraftOK' /\ shown' = view
  BY <1>4, <1>11, <1>12, RenderOK
<1>14. ServerOK' /\ Follows(server, server')
       /\ server'.tables.revision = server.tables.revision + 1
  <2> PICK t : t = [tables EXCEPT !.revision = tables.revision + 1]
    OBVIOUS
  <2>1. t \in Tables /\ t.links = server.tables.links
        /\ t.revision = server.tables.revision + 1
    BY <1>4, <1>6 DEF Tables, ServerOK
  <2>2. server'.tables = t /\ server'.used = server.used
        /\ server' = [tables |-> server'.tables, used |-> server'.used]
    BY <1>9
  <2>3. QED
    BY <1>4, <2>1, <2>2 DEF ServerOK, LinksUsed, Follows
<1>15. ViewOK'
  <2>1. shown.revision <= server.tables.revision /\ shown.revision \in Nat
        /\ server.tables.revision \in Nat
    BY <1>4 DEF ViewOK, ServerOK, Tables
  <2>2. QED
    BY <1>11, <1>13, <1>14, <2>1 DEF ViewOK
<1>16. OpsOK' /\ FlagsOK'
  <2>1. UNCHANGED <<ops, saving>> /\ error' = FALSE
    BY DEF dragNode
  <2>2. OpsOK'
    BY <1>2, <1>14, <2>1, OpsKept DEF EditorInv
  <2>3. QED
    BY <2>1, <2>2 DEF EditorInv, FlagsOK
<1>17. QED
  BY <1>2, <1>13, <1>14, <1>15, <1>16 DEF EditorInv

LEMMA DragGroup == ASSUME EditorInv, NEW g, dragGroup(g) PROVE EditorInv'
<1> PICK op : op = Ask("drag", "group", {g})
  OBVIOUS
<1>1. Send(op) /\ error' = FALSE /\ UNCHANGED saving /\ g \in Groups
  BY ShownTypes DEF dragGroup
<1>2. op = [what |-> "drag", tab |-> "group", id |-> {g}, at |-> {}, ends |-> {},
            kind |-> "local", n |-> counts.ops, phase |-> "sent"]
  BY DEF Ask
<1>3. "local" \in Kinds /\ "group" \in Tabs /\ AtMostOne({g}) /\ CountsOK
      /\ {g} \subseteq IdsOf("group")
  BY <1>1 DEF Kinds, Tabs, AtMostOne, EditorInv, IdsOf
<1>4. OpOK(op) /\ op.n = counts.ops /\ \A s : Connected(op, s)
  BY <1>2, <1>3, OpRecord
<1>5. FlagsOK'
  BY <1>1 DEF FlagsOK, EditorInv
<1>6. QED
  BY <1>1, <1>4, <1>5, SendStep

LEMMA Reload == ASSUME EditorInv, reload PROVE EditorInv'
<1>1. PICK op : op = [Ask("reload", "node", {}) EXCEPT !.phase = "loading"]
  OBVIOUS
<1>2. op = [what |-> "reload", tab |-> "node", id |-> {}, at |-> {}, ends |-> {},
            kind |-> "local", n |-> counts.ops, phase |-> "loading"]
  BY <1>1 DEF Ask
<1>3. "local" \in Kinds /\ "node" \in Tabs /\ AtMostOne({}) /\ CountsOK
  BY DEF Kinds, Tabs, AtMostOne, EditorInv
<1>4. OpOK(op) /\ op.n = counts.ops /\ \A s : Connected(op, s)
  BY <1>2, <1>3, OpRecord
<1>5. CountsOK' /\ counts'.ops = counts.ops + 1
  BY <1>3, SpendOK DEF reload
<1>6. PICK u : u = [ui EXCEPT !.loading = TRUE]
  OBVIOUS
<1>7. u \in UI /\ u.node = ui.node /\ u.link = ui.link /\ u.group = ui.group
      /\ u.adding = ui.adding
  BY <1>6, ShownTypes DEF UI
<1>8. UiOK(u)
  BY <1>7, ShownTypes, FewerOK
<1>9. Show(u) /\ ops' = ops \cup {op} /\ error' = FALSE /\ UNCHANGED <<server, saving>>
  BY <1>1, <1>6 DEF reload
<1>10. UiOK(ui') /\ DraftOK' /\ ViewOK'
  BY <1>8, <1>9, ShowOK
<1>11. ServerOK' /\ Follows(server, server')
  BY <1>9, FollowsItself DEF EditorInv, ServerOK, LinksUsed
<1>12. OpsOK'
  BY <1>3, <1>4, <1>5, <1>9, <1>11, SendOK DEF EditorInv
<1>13. FlagsOK'
  BY <1>9 DEF EditorInv, FlagsOK
<1>14. QED
  BY <1>5, <1>10, <1>11, <1>12, <1>13 DEF EditorInv
-----------------------------------------------------------------------------
(* The handlers. *)

Waits == UNCHANGED <<shown, ui, draft, saving, error>>

LEMMA ServerStep ==
  ASSUME EditorInv, Waits, CountsOK', ServerOK', ViewOK', OpsOK'
  PROVE  EditorInv'
<1>1. UiOK(ui') /\ DraftOK' /\ FlagsOK'
  BY DEF EditorInv, Waits, DraftOK, FlagsOK
<1>2. QED
  BY <1>1 DEF EditorInv

LEMMA PhaseOK ==
  ASSUME EditorInv, NEW op \in ops,
         NEW phase \in {"checked", "stored", "duplicate", "refused", "loading",
                        "searching"},
         Answer(op, [op EXCEPT !.phase = phase]), CountsOK',
         counts.ops <= counts'.ops, Follows(server, server'),
         phase = "checked" => op.tab = "link",
         phase = "stored" => op.what # "connect",
         phase = "loading" => op.phase = "stored"
  PROVE  OpsOK'
<1> PICK answer : answer = [op EXCEPT !.phase = phase]
  OBVIOUS
<1>1. OpOK(op) /\ Connected(op, server)
  BY DEF EditorInv, OpsOK
<1>2. answer \in Op /\ answer.what = op.what /\ answer.tab = op.tab
      /\ answer.id = op.id /\ answer.at = op.at /\ answer.ends = op.ends
      /\ answer.n = op.n /\ answer.phase = phase
  BY <1>1 DEF OpOK, Op
<1>3. OpOK(answer)
  BY <1>1, <1>2 DEF OpOK
<1>4. Connected(answer, server)
  BY <1>1, <1>2 DEF Connected
<1>5. Connected(answer, server')
  BY <1>4, ConnectedFollows
<1>6. QED
  BY <1>2, <1>3, <1>5, AnswerOK DEF EditorInv

LEMMA PhaseStep ==
  ASSUME EditorInv, NEW op \in ops,
         NEW phase \in {"checked", "stored", "duplicate", "refused"},
         Answer(op, [op EXCEPT !.phase = phase]),
         phase = "checked" => op.tab = "link",
         phase = "stored" => op.what # "connect",
         UNCHANGED <<server, counts>>, Waits
  PROVE  EditorInv'
<1>1. CountsOK' /\ counts.ops <= counts'.ops
  BY DEF EditorInv, CountsOK
<1>2. ServerOK' /\ ViewOK' /\ Follows(server, server')
  BY ServerKept DEF EditorInv, Waits
<1>3. OpsOK'
  BY <1>1, <1>2, PhaseOK
<1>4. QED
  BY <1>1, <1>2, <1>3, ServerStep

LEMMA RefuseStep ==
  ASSUME EditorInv, NEW op \in ops, Refuse(op), UNCHANGED counts, Waits
  PROVE  EditorInv'
BY PhaseStep DEF Refuse

LinksFollow(tables, id) ==
  \A link \in tables.links :
    \/ link.id \in id \ server.used
    \/ \E old \in server.tables.links : old.id = link.id /\ old.ends = link.ends

LEMMA CommitStep ==
  ASSUME EditorInv, NEW op \in ops, NEW tables \in Tables, NEW id,
         Commit(op, tables, id), UNCHANGED counts, Waits,
         tables.revision = server.tables.revision, id \subseteq IdsOf(op.tab),
         AtMostOne(id), LinksFollow(tables, id),
         op.what = "connect" =>
           \A link \in tables.links : link.id \in id => link.ends = op.ends
  PROVE  EditorInv'
<1>1. OpOK(op)
  BY DEF EditorInv, OpsOK
<1>2. id \subseteq Ids
  BY <1>1 DEF OpOK, Op, IdsOf, Tabs, Ids
<1>3. server' = [tables |-> [tables EXCEPT !.revision = @ + 1],
                 used |-> server.used \cup id]
      /\ Answer(op, [op EXCEPT !.phase = "stored", !.id = id])
  BY DEF Commit
<1>4. ServerOK' /\ ViewOK' /\ Follows(server, server')
  BY <1>2, <1>3, CommitOK DEF EditorInv, Waits, LinksFollow
<1>5. CountsOK' /\ counts.ops <= counts'.ops
  BY DEF EditorInv, CountsOK
<1>6. PICK answer : answer = [op EXCEPT !.phase = "stored", !.id = id]
  OBVIOUS
<1>7. answer \in Op /\ answer.what = op.what /\ answer.tab = op.tab
      /\ answer.id = id /\ answer.ends = op.ends /\ answer.n = op.n
      /\ answer.phase = "stored"
  BY <1>1, <1>2, <1>6 DEF OpOK, Op
<1>8. OpOK(answer)
  BY <1>1, <1>7 DEF OpOK
<1>9. server'.tables.links = tables.links /\ id \subseteq server'.used
  BY <1>3 DEF Tables
<1>10. Connected(answer, server')
  BY <1>7, <1>9 DEF Connected
<1>11. OpsOK'
  BY <1>3, <1>4, <1>5, <1>6, <1>7, <1>8, <1>10, AnswerOK DEF EditorInv
<1>12. QED
  BY <1>4, <1>5, <1>11, ServerStep

LEMMA FreshId ==
  ASSUME NEW tab \in Tabs, ~(IdsOf(tab) \subseteq server.used)
  PROVE  (CHOOSE id \in IdsOf(tab) \ server.used : TRUE) \in IdsOf(tab) \ server.used
<1>1. \E id \in IdsOf(tab) \ server.used : TRUE
  OBVIOUS
<1>2. QED
  BY <1>1

LEMMA CreatedIs ==
  ASSUME NEW op, NEW tab \in Tabs, NEW with, Created(op, tab, with)
  PROVE  \/ Refuse(op)
         \/ \E id \in IdsOf(tab) \ server.used : Commit(op, with[id], {id})
BY FreshId DEF Created

LEMMA HandlingWaits ==
  ASSUME NEW op, NEW what, Handling(op, what)
  PROVE  op.what = what /\ op.phase = "sent" /\ UNCHANGED counts /\ Waits
BY DEF Handling, Waits

LEMMA TablesFields ==
  ASSUME NEW t \in Tables
  PROVE  /\ t.nodes \subseteq Nodes /\ t.links \subseteq LinkRecords
         /\ t.groups \subseteq Groups /\ t.at \in [Nodes -> Nat] /\ t.revision \in Nat
BY DEF Tables

LEMMA CreateNode == ASSUME EditorInv, NEW op \in ops, createNode(op) PROVE EditorInv'
<1>1. op.what = "save" /\ op.tab = "node" /\ UNCHANGED counts /\ Waits
  BY HandlingWaits DEF createNode
<1>2. PICK with : with = [n \in Nodes |-> [server.tables EXCEPT !.nodes = @ \cup {n}]]
  OBVIOUS
<1>3. Created(op, "node", with)
  BY <1>2 DEF createNode
<1>4. "node" \in Tabs /\ IdsOf("node") = Nodes
  BY DEF Tabs, IdsOf
<1>5. CASE Refuse(op)
  BY <1>1, <1>5, RefuseStep
<1>6. ASSUME NEW n \in Nodes \ server.used, Commit(op, with[n], {n})
      PROVE  EditorInv'
  <2>1. PICK t : t = server.tables
    OBVIOUS
  <2>2. PICK tables : tables = with[n]
    OBVIOUS
  <2>3. t \in Tables
    BY <2>1 DEF EditorInv, ServerOK
  <2>4. tables = [t EXCEPT !.nodes = t.nodes \cup {n}]
    BY <1>2, <2>1, <2>2
  <2>5. tables \in Tables /\ tables.links = t.links /\ tables.revision = t.revision
    BY <2>3, <2>4 DEF Tables
  <2>6. LinksFollow(tables, {n})
    BY <2>1, <2>5 DEF LinksFollow
  <2>7. {n} \subseteq IdsOf(op.tab) /\ AtMostOne({n})
    BY <1>1, <1>4 DEF AtMostOne
  <2>8. QED
    BY <1>1, <1>6, <2>1, <2>2, <2>5, <2>6, <2>7, CommitStep
<1>7. QED
  BY <1>3, <1>4, <1>5, <1>6, CreatedIs
LEMMA PatchNode == ASSUME EditorInv, NEW op \in ops, patch_node(op) PROVE EditorInv'
<1>1. op.what = "save" /\ op.tab = "node" /\ op.phase = "sent" /\ op.id # {}
      /\ UNCHANGED counts /\ Waits
  BY HandlingWaits DEF patch_node
<1>2. OpOK(op)
  BY DEF EditorInv, OpsOK
<1>3. PICK at \in Nat : at = CHOOSE other \in op.at : TRUE
  <2>1. op.at # {} /\ op.at \subseteq Nat
    BY <1>1, <1>2 DEF OpOK, Op
  <2>2. \E at \in op.at : TRUE
    BY <2>1
  <2>3. (CHOOSE at \in op.at : TRUE) \in op.at
    BY <2>2
  <2>4. QED
    BY <2>1, <2>3
<1>4. CASE ~(op.id \subseteq server.tables.nodes)
  BY <1>1, <1>4, RefuseStep DEF patch_node
<1>5. CASE op.id \subseteq server.tables.nodes
  <2>1. PICK t : t = server.tables
    OBVIOUS
  <2>2. PICK f : f = [n \in Nodes |-> IF n \in op.id THEN at ELSE t.at[n]]
    OBVIOUS
  <2>3. PICK tables : tables = [t EXCEPT !.at = f]
    OBVIOUS
  <2>4. t \in Tables
    BY <2>1 DEF EditorInv, ServerOK
  <2>5. f \in [Nodes -> Nat]
    BY <2>2, <2>4 DEF Tables
  <2>6. tables \in Tables /\ tables.links = t.links /\ tables.revision = t.revision
    BY <2>3, <2>4, <2>5 DEF Tables
  <2>7. Commit(op, tables, op.id)
    BY <1>3, <1>5, <2>1, <2>2, <2>3 DEF patch_node
  <2>8. LinksFollow(tables, op.id)
    BY <2>1, <2>6 DEF LinksFollow
  <2>9. op.id \subseteq IdsOf(op.tab) /\ AtMostOne(op.id)
    BY <1>2 DEF OpOK
  <2>10. QED
    BY <1>1, <2>1, <2>6, <2>7, <2>8, <2>9, CommitStep
<1>6. QED
  BY <1>4, <1>5

LEMMA PutGroup == ASSUME EditorInv, NEW op \in ops, putGroup(op) PROVE EditorInv'
<1>1. op.what \in {"save", "drag"} /\ op.tab = "group" /\ UNCHANGED counts /\ Waits
  BY HandlingWaits DEF putGroup
<1>2. OpOK(op)
  BY DEF EditorInv, OpsOK
<1>3. PICK t : t = server.tables
  OBVIOUS
<1>4. t \in Tables
  BY <1>3 DEF EditorInv, ServerOK
<1>5. CASE op.id = {}
  <2>1. PICK with : with = [g \in Groups |-> [server.tables EXCEPT !.groups = @ \cup {g}]]
    OBVIOUS
  <2>2. Created(op, "group", with)
    BY <1>5, <2>1 DEF putGroup
  <2>3. "group" \in Tabs /\ IdsOf("group") = Groups
    BY DEF Tabs, IdsOf
  <2>4. CASE Refuse(op)
    BY <1>1, <2>4, RefuseStep
  <2>5. ASSUME NEW g \in Groups \ server.used, Commit(op, with[g], {g})
        PROVE  EditorInv'
    <3>1. PICK tables : tables = with[g]
      OBVIOUS
    <3>2. tables = [t EXCEPT !.groups = t.groups \cup {g}]
      BY <1>3, <2>1, <3>1
    <3>3. tables \in Tables /\ tables.links = t.links /\ tables.revision = t.revision
      BY <1>4, <3>2 DEF Tables
    <3>4. LinksFollow(tables, {g})
      BY <1>3, <3>3 DEF LinksFollow
    <3>5. {g} \subseteq IdsOf(op.tab) /\ AtMostOne({g})
      BY <1>1, <2>3 DEF AtMostOne
    <3>6. QED
      BY <1>1, <1>3, <2>5, <3>1, <3>3, <3>4, <3>5, CommitStep
  <2>6. QED
    BY <2>2, <2>3, <2>4, <2>5, CreatedIs
<1>6. CASE op.id # {} /\ op.id \subseteq t.groups
  <2>1. Commit(op, t, op.id)
    BY <1>3, <1>6 DEF putGroup
  <2>2. LinksFollow(t, op.id) /\ op.id \subseteq IdsOf(op.tab) /\ AtMostOne(op.id)
    BY <1>2, <1>3 DEF LinksFollow, OpOK
  <2>3. QED
    BY <1>1, <1>3, <1>4, <2>1, <2>2, CommitStep
<1>7. CASE op.id # {} /\ ~(op.id \subseteq t.groups)
  BY <1>1, <1>3, <1>7, RefuseStep DEF putGroup
<1>8. QED
  BY <1>5, <1>6, <1>7

LEMMA LinkChecks ==
  ASSUME EditorInv, NEW op \in ops, create_link_checks(op) PROVE EditorInv'
<1>1. op.what \in {"save", "connect"} /\ op.tab = "link" /\ UNCHANGED counts /\ Waits
  BY HandlingWaits DEF create_link_checks
<1>2. CASE Missing(op)
  BY <1>1, <1>2, RefuseStep DEF create_link_checks
<1>3. CASE ~Missing(op)
  <2>1. PICK phase \in {"checked", "duplicate", "refused"} :
          Answer(op, [op EXCEPT !.phase = phase]) /\ UNCHANGED server
    BY <1>3 DEF create_link_checks
  <2>2. QED
    BY <1>1, <2>1, PhaseStep
<1>4. QED
  BY <1>2, <1>3

LEMMA CreateLink == ASSUME EditorInv, NEW op \in ops, create_link(op) PROVE EditorInv'
<1>1. op.phase = "checked" /\ UNCHANGED counts /\ Waits
  BY DEF create_link, Waits
<1>2. OpOK(op) /\ op.tab = "link"
  BY <1>1 DEF EditorInv, OpsOK, OpOK
<1>3. CASE ~UniqueConstraint(op) \/ Missing(op)
  BY <1>1, <1>3, RefuseStep DEF create_link
<1>4. CASE UniqueConstraint(op) /\ ~Missing(op)
  <2>1. PICK t : t = server.tables
    OBVIOUS
  <2>2. PICK with : with = [l \in Links |-> [server.tables EXCEPT
          !.links = @ \cup {[id |-> l, ends |-> op.ends, kind |-> op.kind]}]]
    OBVIOUS
  <2>3. Created(op, "link", with)
    BY <1>4, <2>2 DEF create_link
  <2>4. "link" \in Tabs /\ IdsOf("link") = Links
    BY DEF Tabs, IdsOf
  <2>5. CASE Refuse(op)
    BY <1>1, <2>5, RefuseStep
  <2>6. ASSUME NEW l \in Links \ server.used, Commit(op, with[l], {l})
        PROVE  EditorInv'
    <3>1. PICK tables : tables = with[l]
      OBVIOUS
    <3>2. PICK link : link = [id |-> l, ends |-> op.ends, kind |-> op.kind]
      OBVIOUS
    <3>3. link \in LinkRecords /\ link.id = l /\ link.ends = op.ends
      BY <1>2, <3>2 DEF LinkRecords, OpOK, Op
    <3>4. tables = [t EXCEPT !.links = t.links \cup {link}]
      BY <2>1, <2>2, <3>1, <3>2
    <3>5. t \in Tables /\ \A old \in t.links : old.id \in server.used
      BY <2>1 DEF EditorInv, ServerOK, LinksUsed
    <3>6. tables \in Tables /\ tables.links = t.links \cup {link}
          /\ tables.revision = t.revision
      BY <3>3, <3>4, <3>5 DEF Tables
    <3>7. LinksFollow(tables, {l})
      BY <2>1, <2>6, <3>3, <3>6 DEF LinksFollow
    <3>8. \A x \in tables.links : x.id \in {l} => x.ends = op.ends
      BY <2>6, <3>3, <3>5, <3>6
    <3>9. {l} \subseteq IdsOf(op.tab) /\ AtMostOne({l})
      BY <1>2, <2>4 DEF AtMostOne
    <3>10. QED
      BY <1>1, <2>1, <2>6, <3>1, <3>6, <3>7, <3>8, <3>9, CommitStep
  <2>7. QED
    BY <2>3, <2>4, <2>5, <2>6, CreatedIs
<1>5. QED
  BY <1>3, <1>4

LEMMA PatchLink == ASSUME EditorInv, NEW op \in ops, patch_link(op) PROVE EditorInv'
<1>1. op.what = "save" /\ op.tab = "link" /\ UNCHANGED counts /\ Waits
  BY HandlingWaits DEF patch_link
<1>2. OpOK(op)
  BY DEF EditorInv, OpsOK
<1>3. PICK t : t = server.tables
  OBVIOUS
<1>4. t \in Tables
  BY <1>3 DEF EditorInv, ServerOK
<1>5. CASE Refuse(op)
  BY <1>1, <1>5, RefuseStep
<1>6. CASE Answer(op, [op EXCEPT !.phase = "stored"]) /\ UNCHANGED server
  BY <1>1, <1>6, PhaseStep
<1>7. ASSUME NEW link \in t.links, {link.id} = op.id,
             Commit(op, Retyped(link, op), op.id)
      PROVE  EditorInv'
  <2>1. PICK new : new = [link EXCEPT !.kind = op.kind]
    OBVIOUS
  <2>2. new \in LinkRecords /\ new.id = link.id /\ new.ends = link.ends
    BY <1>2, <1>4, <2>1, TablesFields DEF LinkRecords, OpOK, Op
  <2>3. PICK tables : tables = Retyped(link, op)
    OBVIOUS
  <2>4. tables = [t EXCEPT !.links = (t.links \ {link}) \cup {new}]
    BY <1>3, <2>1, <2>3 DEF Retyped
  <2>5. tables \in Tables /\ tables.links = (t.links \ {link}) \cup {new}
        /\ tables.revision = t.revision
    BY <1>4, <2>2, <2>4 DEF Tables
  <2>6. LinksFollow(tables, op.id)
    BY <1>3, <1>7, <2>2, <2>5 DEF LinksFollow
  <2>7. op.id \subseteq IdsOf(op.tab) /\ AtMostOne(op.id)
    BY <1>2 DEF OpOK
  <2>8. QED
    BY <1>1, <1>3, <1>7, <2>3, <2>5, <2>6, <2>7, CommitStep
<1>8. \/ Refuse(op)
      \/ Answer(op, [op EXCEPT !.phase = "stored"]) /\ UNCHANGED server
      \/ \E link \in t.links :
           {link.id} = op.id /\ Commit(op, Retyped(link, op), op.id)
  BY <1>3 DEF patch_link
<1>9. QED
  BY <1>5, <1>6, <1>7, <1>8

LEMMA WithoutOK ==
  ASSUME NEW t \in Tables, NEW tab \in Tabs, NEW id
  PROVE  LET new == Without(t, tab, id)
         IN /\ new \in Tables /\ new.links \subseteq t.links
            /\ new.revision = t.revision
<1> PICK new : new = Without(t, tab, id)
  OBVIOUS
<1>1. CASE tab = "node"
  <2>1. PICK nodes, links : /\ nodes = t.nodes \ id
                            /\ links = {link \in t.links : link.ends \cap id = {}}
    OBVIOUS
  <2>2. new = [t EXCEPT !.nodes = nodes, !.links = links]
    BY <1>1, <2>1 DEF Without
  <2>3. nodes \subseteq t.nodes /\ links \subseteq t.links
    BY <2>1
  <2>4. QED
    BY <2>2, <2>3 DEF Tables
<1>2. CASE tab = "link"
  <2>1. PICK links : links = {link \in t.links : link.id \notin id}
    OBVIOUS
  <2>2. new = [t EXCEPT !.links = links]
    BY <1>2, <2>1 DEF Without
  <2>3. links \subseteq t.links
    BY <2>1
  <2>4. QED
    BY <2>2, <2>3 DEF Tables
<1>3. CASE tab = "group"
  <2>1. new = [t EXCEPT !.groups = t.groups \ id]
    BY <1>3 DEF Without
  <2>2. QED
    BY <2>1 DEF Tables
<1>4. QED
  BY <1>1, <1>2, <1>3 DEF Tabs

LEMMA Deletes == ASSUME EditorInv, NEW op \in ops, deletes(op) PROVE EditorInv'
<1>1. op.what = "delete" /\ UNCHANGED counts /\ Waits
  BY HandlingWaits DEF deletes
<1>2. OpOK(op) /\ op.tab \in Tabs
  BY DEF EditorInv, OpsOK, OpOK, Op
<1>3. CASE Refuse(op)
  BY <1>1, <1>3, RefuseStep
<1>4. CASE Commit(op, Without(server.tables, op.tab, op.id), op.id)
  <2>1. PICK t : t = server.tables
    OBVIOUS
  <2>2. PICK tables : tables = Without(t, op.tab, op.id)
    OBVIOUS
  <2>3. t \in Tables
    BY <2>1 DEF EditorInv, ServerOK
  <2>4. tables \in Tables /\ tables.links \subseteq t.links
        /\ tables.revision = t.revision
    BY <1>2, <2>2, <2>3, WithoutOK
  <2>5. LinksFollow(tables, op.id)
    BY <2>1, <2>4 DEF LinksFollow
  <2>6. op.id \subseteq IdsOf(op.tab) /\ AtMostOne(op.id)
    BY <1>2 DEF OpOK
  <2>7. QED
    BY <1>1, <1>4, <2>1, <2>2, <2>4, <2>5, <2>6, CommitStep
<1>5. QED
  BY <1>3, <1>4 DEF deletes

LEMMA RequestFails ==
  ASSUME EditorInv, NEW op \in ops, requestFails(op) PROVE EditorInv'
<1>1. CountsOK' /\ counts.ops <= counts'.ops
  BY SpendOK DEF requestFails, EditorInv
<1>2. Answer(op, [op EXCEPT !.phase = "refused"]) /\ UNCHANGED server /\ Waits
  BY DEF requestFails, Waits
<1>3. ServerOK' /\ ViewOK' /\ Follows(server, server')
  BY <1>2, ServerKept DEF EditorInv, Waits
<1>4. OpsOK'
  BY <1>1, <1>2, <1>3, PhaseOK
<1>5. QED
  BY <1>1, <1>2, <1>3, <1>4, ServerStep
-----------------------------------------------------------------------------
(* The callbacks, and what happens elsewhere. *)

LEMMA UiLoading ==
  ASSUME NEW u, UiOK(u), NEW loading \in BOOLEAN
  PROVE  UiOK([u EXCEPT !.loading = loading])
<1>1. PICK v : v = [u EXCEPT !.loading = loading]
  OBVIOUS
<1>2. v \in UI /\ v.node = u.node /\ v.link = u.link /\ v.group = u.group
      /\ v.adding = u.adding
  BY <1>1 DEF UiOK, UI
<1>3. QED
  BY <1>1, <1>2, FewerOK

LEMMA AfterDeleteOK ==
  ASSUME EditorInv, NEW op \in ops
  PROVE  UiOK(AfterDelete(op))
<1>1. UiOK(ui) /\ ui \in UI
  BY ShownTypes
<1>2. op.tab \in Tabs
  BY DEF EditorInv, OpsOK, OpOK, Op
<1>3. PICK u : u = AfterDelete(op)
  OBVIOUS
<1>4. \/ u = ui \/ u = [ui EXCEPT !.node = {}, !.link = {}]
      \/ u = [ui EXCEPT !.link = {}] \/ u = [ui EXCEPT !.group = {}]
  BY <1>2, <1>3 DEF AfterDelete, Tabs
<1>5. u \in UI /\ u.node \subseteq ui.node /\ u.link \subseteq ui.link
      /\ u.group \subseteq ui.group /\ u.adding \subseteq ui.adding
  <2>1. CASE u = [ui EXCEPT !.node = {}, !.link = {}]
    BY <1>1, <2>1 DEF UI
  <2>2. CASE u = [ui EXCEPT !.link = {}]
    BY <1>1, <2>2 DEF UI
  <2>3. CASE u = [ui EXCEPT !.group = {}]
    BY <1>1, <2>3 DEF UI
  <2>4. QED
    BY <1>1, <1>4, <2>1, <2>2, <2>3
<1>6. UiOK(u)
  BY <1>1, <1>5, FewerOK
<1>7. QED
  BY <1>3, <1>6

LEMMA Loads == ASSUME EditorInv, NEW op \in ops, loads(op) PROVE EditorInv'
<1>1. PICK v : v = AfterDelete(op)
  OBVIOUS
<1>2. UiOK(v)
  BY <1>1, AfterDeleteOK
<1>3. PICK loading \in BOOLEAN : loading = (v.loading \/ ShowsLoading(op))
  OBVIOUS
<1>4. PICK u : u = [v EXCEPT !.loading = loading]
  OBVIOUS
<1>5. UiOK(u)
  BY <1>2, <1>4, UiLoading
<1>6. Show(u) /\ error' = FALSE /\ UNCHANGED <<server, saving, counts>>
  BY <1>1, <1>3, <1>4 DEF loads
<1>7. UiOK(ui') /\ DraftOK' /\ ViewOK'
  BY <1>5, <1>6, ShowOK
<1>8. ServerOK' /\ Follows(server, server')
  BY <1>6, FollowsItself DEF EditorInv, ServerOK, LinksUsed
<1>9. CountsOK' /\ counts.ops <= counts'.ops /\ FlagsOK'
  <2>1. CountsOK' /\ counts.ops <= counts'.ops
    BY <1>6 DEF EditorInv, CountsOK
  <2>2. FlagsOK'
    BY <1>6 DEF EditorInv, FlagsOK
  <2>3. QED
    BY <2>1, <2>2
<1>10. OpsOK'
  <2>1. PICK phase \in {"loading", "searching"} :
          /\ Answer(op, [op EXCEPT !.phase = phase])
          /\ phase = "loading" => op.phase = "stored"
    BY DEF loads
  <2>2. QED
    BY <1>8, <1>9, <2>1, PhaseOK
<1>11. QED
  BY <1>7, <1>8, <1>9, <1>10 DEF EditorInv

LEMMA ReportsError ==
  ASSUME EditorInv, NEW op \in ops, reportsError(op) PROVE EditorInv'
<1>1. /\ ops' = ops \ {op} /\ error' = TRUE /\ saving' = (saving /\ ~Saves(op))
      /\ UNCHANGED <<server, shown, ui, draft, counts>>
  BY DEF reportsError
<1>2. ServerOK' /\ ViewOK' /\ Follows(server, server')
  BY <1>1, ServerKept DEF EditorInv
<1>3. CountsOK' /\ counts.ops <= counts'.ops /\ FlagsOK'
  BY <1>1 DEF EditorInv, CountsOK, FlagsOK
<1>4. OpsOK'
  BY <1>1, <1>2, <1>3, OpsKept DEF EditorInv
<1>5. UiOK(ui') /\ DraftOK'
  BY <1>1 DEF EditorInv, DraftOK
<1>6. QED
  BY <1>2, <1>3, <1>4, <1>5 DEF EditorInv

LEMMA NewestIs ==
  ASSUME EditorInv
  PROVE  Newest = server.tables /\ Newest \in Tables
BY DEF EditorInv, ViewOK, ServerOK, Tables, Newest

LEMMA FoundLinks ==
  ASSUME NEW op, NEW view \in Tables
  PROVE  Found(op, view) \subseteq Links
BY DEF Found, matchingLink, Tables, LinkRecords

LEMMA DoneOK ==
  ASSUME NEW op, OpOK(op), NEW u, UiOK(u), NEW view \in Tables
  PROVE  UiOK(Done(op, u, view))
<1>1. u \in UI /\ op.tab \in Tabs /\ op.id \subseteq IdsOf(op.tab) /\ AtMostOne(op.id)
  BY DEF UiOK, OpOK, Op
<1>2. PICK v : v = Done(op, u, view)
  OBVIOUS
<1>3. CASE op.what = "save" /\ op.tab = "node"
  <2>1. v = [u EXCEPT !.node = op.id, !.link = {}, !.adding = u.adding \ {"node", "link"}]
    BY <1>2, <1>3 DEF Done
  <2>2. op.id \subseteq Nodes
    BY <1>1, <1>3 DEF IdsOf
  <2>3. v \in UI /\ v.node = op.id /\ v.link = {} /\ v.group = u.group
        /\ v.adding = u.adding \ {"node", "link"}
    BY <1>1, <2>1, <2>2 DEF UI
  <2>4. UiOK(v)
    BY <1>1, <2>3 DEF UiOK, AtMostOne
  <2>5. QED
    BY <1>2, <2>4
<1>4. CASE op.what = "save" /\ op.tab = "group"
  <2>1. v = [u EXCEPT !.group = op.id, !.node = {}, !.link = {},
                      !.adding = u.adding \ {"group"}]
    BY <1>2, <1>4 DEF Done
  <2>2. op.id \subseteq Groups
    BY <1>1, <1>4 DEF IdsOf
  <2>3. v \in UI /\ v.node = {} /\ v.link = {} /\ v.group = op.id
        /\ v.adding = u.adding \ {"group"}
    BY <1>1, <2>1, <2>2 DEF UI
  <2>4. UiOK(v)
    BY <1>1, <2>3 DEF UiOK, AtMostOne
  <2>5. QED
    BY <1>2, <2>4
<1>5. CASE op.what = "save" /\ op.tab = "link"
  <2>1. v = [u EXCEPT !.link = op.id, !.node = {}, !.adding = u.adding \ {"link"}]
    BY <1>2, <1>5 DEF Done
  <2>2. op.id \subseteq Links
    BY <1>1, <1>5 DEF IdsOf
  <2>3. v \in UI /\ v.node = {} /\ v.link = op.id /\ v.group = u.group
        /\ v.adding = u.adding \ {"link"}
    BY <1>1, <2>1, <2>2 DEF UI
  <2>4. UiOK(v)
    BY <1>1, <2>3 DEF UiOK, AtMostOne
  <2>5. QED
    BY <1>2, <2>4
<1>6. CASE op.what = "connect" /\ op.phase = "loading"
  <2>1. PICK loading \in BOOLEAN : loading = u.loading
    BY <1>1 DEF UI
  <2>2. PICK link \in SUBSET Links : link = op.id
    BY <1>1, <1>6 DEF IdsOf, OpOK
  <2>3. v = [node |-> {}, link |-> link, group |-> {}, adding |-> {},
             loading |-> loading]
    BY <1>2, <1>6, <2>1, <2>2 DEF Done, Nothing
  <2>4. AtMostOne(link) /\ AtMostOne({})
    BY <1>1, <2>2 DEF AtMostOne
  <2>5. UiOK(v)
    BY <2>3, <2>4, UiRecord
  <2>6. QED
    BY <1>2, <2>5
<1>7. CASE op.what = "connect" /\ op.phase = "searching" /\ Found(op, view) # {}
  <2>1. PICK id \in Found(op, view) : id = CHOOSE other \in Found(op, view) : TRUE
    <3>1. \E id \in Found(op, view) : TRUE
      BY <1>7
    <3>2. QED
      BY <3>1
  <2>2. id \in Links
    BY FoundLinks
  <2>3. v = selectSavedLink(u, id)
    BY <1>2, <1>7, <2>1 DEF Done
  <2>4. QED
    BY <1>1, <1>2, <2>2, <2>3, NothingOK
<1>8. CASE v = u
  BY <1>2, <1>8
<1>9. QED
  BY <1>1, <1>2, <1>3, <1>4, <1>5, <1>6, <1>7, <1>8 DEF Done, Tabs
(* What `loaded' does, taken apart.                                         *)
LEMMA LoadedIs ==
  ASSUME EditorInv, NEW op \in ops, loaded(op)
  PROVE  \E failed \in BOOLEAN, u \in UI, view \in Tables, loading \in BOOLEAN :
           /\ u = [ui EXCEPT !.loading = loading] /\ UiOK(u)
           /\ view = IF failed THEN shown ELSE server.tables
           /\ IF failed THEN Spend("failures", MaxFailures) ELSE UNCHANGED counts
           /\ error' = (error \/ failed \/ Lost(op))
           /\ Render(IF failed /\ op.phase = "searching" THEN u
                     ELSE Done(op, u, server.tables),
                     view, IF op.what = "save" THEN {op.tab} ELSE {})
<1>1. PICK failed \in BOOLEAN :
        LET view == IF failed THEN shown ELSE Newest
            u == [ui EXCEPT !.loading = @ /\ ~ShowsLoading(op)]
        IN /\ IF failed THEN Spend("failures", MaxFailures) ELSE UNCHANGED counts
           /\ error' = (error \/ failed \/ Lost(op))
           /\ Render(IF failed /\ op.phase = "searching" THEN u ELSE Done(op, u, Newest),
                     view, IF op.what = "save" THEN {op.tab} ELSE {})
  BY DEF loaded
<1>2. PICK loading \in BOOLEAN : loading = (ui.loading /\ ~ShowsLoading(op))
  OBVIOUS
<1>3. PICK u : u = [ui EXCEPT !.loading = loading]
  OBVIOUS
<1>4. UiOK(u) /\ u \in UI
  BY <1>3, ShownTypes, UiLoading DEF UiOK
<1>5. PICK view : view = IF failed THEN shown ELSE server.tables
  OBVIOUS
<1>6. view \in Tables
  BY <1>5, NewestIs, ShownTypes
<1>7. Render(IF failed /\ op.phase = "searching" THEN u ELSE Done(op, u, server.tables),
             view, IF op.what = "save" THEN {op.tab} ELSE {})
  BY <1>1, <1>2, <1>3, <1>5, NewestIs
<1>8. QED
  BY <1>1, <1>3, <1>4, <1>5, <1>6, <1>7

LEMMA Loaded == ASSUME EditorInv, NEW op \in ops, loaded(op) PROVE EditorInv'
<1>1. PICK failed \in BOOLEAN, u \in UI, view \in Tables, loading \in BOOLEAN :
        /\ u = [ui EXCEPT !.loading = loading] /\ UiOK(u)
        /\ view = IF failed THEN shown ELSE server.tables
        /\ IF failed THEN Spend("failures", MaxFailures) ELSE UNCHANGED counts
        /\ error' = (error \/ failed \/ Lost(op))
        /\ Render(IF failed /\ op.phase = "searching" THEN u
                  ELSE Done(op, u, server.tables),
                  view, IF op.what = "save" THEN {op.tab} ELSE {})
  BY LoadedIs
<1>2. PICK v, fresh : /\ v = IF failed /\ op.phase = "searching" THEN u
                             ELSE Done(op, u, server.tables)
                      /\ fresh = IF op.what = "save" THEN {op.tab} ELSE {}
  OBVIOUS
<1>3. OpOK(op) /\ server.tables \in Tables
  BY DEF EditorInv, OpsOK, ServerOK
<1>4. UiOK(v)
  BY <1>1, <1>2, <1>3, DoneOK
<1>5. Render(v, view, fresh)
  BY <1>1, <1>2
<1>6. UiOK(ui') /\ DraftOK' /\ shown' = view
  BY <1>4, <1>5, RenderOK
<1>7. ops' = ops \ {op} /\ saving' = (saving /\ ~Saves(op)) /\ UNCHANGED server
  BY DEF loaded
<1>8. CountsOK' /\ counts.ops <= counts'.ops
  <2>1. CASE failed
    BY <1>1, <2>1, SpendOK DEF EditorInv
  <2>2. CASE ~failed
    <3>1. UNCHANGED counts
      BY <1>1, <2>2
    <3>2. QED
      BY <3>1 DEF EditorInv, CountsOK
  <2>3. QED
    BY <2>1, <2>2
<1>9. ServerOK' /\ Follows(server, server')
  BY <1>7, FollowsItself DEF EditorInv, ServerOK, LinksUsed
<1>10. ViewOK'
  <2>1. server.tables.revision \in Nat
    BY <1>3 DEF Tables
  <2>2. view.revision <= server.tables.revision
    BY <1>1, <2>1 DEF EditorInv, ViewOK
  <2>3. QED
    BY <1>6, <1>7, <2>2 DEF ViewOK
<1>11. OpsOK'
  BY <1>7, <1>8, <1>9, OpsKept DEF EditorInv
<1>12. FlagsOK'
  BY <1>1, <1>7 DEF FlagsOK, EditorInv
<1>13. QED
  BY <1>6, <1>8, <1>9, <1>10, <1>11, <1>12 DEF EditorInv

LEMMA Sync == ASSUME EditorInv, sync PROVE EditorInv'
<1>1. Render(ui, server.tables, {}) /\ error' = FALSE
      /\ UNCHANGED <<server, ops, saving, counts>>
  BY DEF sync
<1>2. server.tables \in Tables /\ UiOK(ui)
  BY DEF EditorInv, ServerOK
<1>3. UiOK(ui') /\ DraftOK' /\ shown' = server.tables
  BY <1>1, <1>2, RenderOK
<1>4. ServerOK' /\ Follows(server, server')
  BY <1>1, FollowsItself DEF EditorInv, ServerOK, LinksUsed
<1>5. ViewOK'
  <2>1. server.tables.revision \in Nat
    BY <1>2 DEF Tables
  <2>2. server.tables.revision <= server.tables.revision
    BY <2>1
  <2>3. QED
    BY <1>1, <1>2, <1>3, <2>2 DEF ViewOK
<1>6. CountsOK' /\ counts.ops <= counts'.ops
  BY <1>1 DEF EditorInv, CountsOK
<1>7. FlagsOK'
  BY <1>1 DEF EditorInv, FlagsOK
<1>8. OpsOK'
  BY <1>1, <1>4, <1>6, OpsKept DEF EditorInv
<1>9. QED
  BY <1>3, <1>4, <1>5, <1>6, <1>7, <1>8 DEF EditorInv

LEMMA Elsewhere == ASSUME EditorInv, elsewhere PROVE EditorInv'
<1>1. PICK t : t = server.tables
  OBVIOUS
<1>2. t \in Tables /\ CountsOK /\ ServerOK /\ ViewOK
  BY <1>1 DEF EditorInv, ServerOK
<1>3. PICK tables :
        /\ \/ \E tab \in Tabs, id \in server.used : tables = Without(t, tab, {id})
           \/ \E n \in t.nodes :
                tables = [t EXCEPT !.at[n] = MaxOps + counts.elsewhere + 1]
           \/ \E l \in Links \ server.used, k \in Kinds, e \in Pairs(t.nodes) :
                tables = [t EXCEPT !.links = @ \cup {[id |-> l, ends |-> e, kind |-> k]}]
        /\ server' = [tables |-> [tables EXCEPT !.revision = @ + 1],
                      used |-> server.used \cup {link.id : link \in tables.links}]
  BY <1>1 DEF elsewhere, Changed
<1>4. /\ tables \in Tables /\ tables.revision = t.revision
      /\ \A link \in tables.links :
           \/ link.id \notin server.used
           \/ \E old \in t.links : old.id = link.id /\ old.ends = link.ends
  <2>1. ASSUME NEW tab \in Tabs, NEW id, tables = Without(t, tab, {id})
        PROVE  tables \in Tables /\ tables.revision = t.revision
               /\ tables.links \subseteq t.links
    BY <1>2, <2>1, WithoutOK
  <2>2. ASSUME NEW n, tables = [t EXCEPT !.at[n] = MaxOps + counts.elsewhere + 1]
        PROVE  tables \in Tables /\ tables.revision = t.revision
               /\ tables.links \subseteq t.links
    <3>1. PICK at \in Nat : at = MaxOps + counts.elsewhere + 1
      BY <1>2, EditorAssumption DEF CountsOK
    <3>2. tables = At(t, n, at)
      BY <2>2, <3>1 DEF At
    <3>3. QED
      BY <1>2, <3>2, AtOK
  <2>3. ASSUME NEW l \in Links \ server.used, NEW k \in Kinds, NEW e \in Pairs(t.nodes),
               tables = [t EXCEPT !.links = @ \cup {[id |-> l, ends |-> e, kind |-> k]}]
        PROVE  /\ tables \in Tables /\ tables.revision = t.revision
               /\ \A link \in tables.links :
                    link.id \notin server.used \/ link \in t.links
    <3>1. PICK link : link = [id |-> l, ends |-> e, kind |-> k]
      OBVIOUS
    <3>2. link \in LinkRecords /\ link.id = l
      BY <1>2, <3>1 DEF LinkRecords, Pairs, Tables
    <3>3. tables = [t EXCEPT !.links = t.links \cup {link}]
      BY <2>3, <3>1
    <3>4. tables \in Tables /\ tables.links = t.links \cup {link}
          /\ tables.revision = t.revision
      BY <1>2, <3>2, <3>3 DEF Tables
    <3>5. QED
      BY <3>2, <3>4
  <2>4. /\ tables \in Tables /\ tables.revision = t.revision
        /\ \A link \in tables.links : link.id \notin server.used \/ link \in t.links
    BY <1>3, <2>1, <2>2, <2>3
  <2>5. QED
    BY <2>4
<1>5. PICK id : id = {link.id : link \in tables.links}
  OBVIOUS
<1>6. id \subseteq Ids
  BY <1>4, <1>5 DEF Tables, LinkRecords, Ids
<1>7. ServerOK' /\ ViewOK' /\ Follows(server, server')
  <2>1. UNCHANGED shown
    BY DEF elsewhere
  <2>2. \A link \in tables.links :
          \/ link.id \in id \ server.used
          \/ \E old \in server.tables.links : old.id = link.id /\ old.ends = link.ends
    BY <1>1, <1>4, <1>5
  <2>3. QED
    BY <1>1, <1>2, <1>3, <1>4, <1>5, <1>6, <2>1, <2>2, CommitOK
<1>8. CountsOK' /\ counts.ops <= counts'.ops
  BY <1>2, SpendOK DEF elsewhere
<1>9. OpsOK'
  BY <1>7, <1>8, OpsKept DEF elsewhere, EditorInv
<1>10. QED
  BY <1>7, <1>8, <1>9, ServerStep DEF elsewhere, Waits
-----------------------------------------------------------------------------
LEMMA EditorInit == Init => EditorInv
<1> SUFFICES ASSUME Init PROVE EditorInv
  OBVIOUS
<1>1. PICK t : t = server.tables
  OBVIOUS
<1>2. t = [nodes |-> FirstNodes, links |-> {}, groups |-> FirstGroups,
           at |-> [n \in Nodes |-> 0], revision |-> 0]
  BY <1>1 DEF Init
<1>3. t \in Tables /\ t.links = {} /\ t.revision = 0
  BY <1>2, EditorAssumption DEF Tables
<1>4. ServerOK
  <2>1. server = [tables |-> server.tables, used |-> server.used]
        /\ server.used = FirstNodes \cup FirstGroups
    BY DEF Init
  <2>2. QED
    BY <1>1, <1>3, <2>1, EditorAssumption DEF ServerOK, LinksUsed, Ids
<1>5. shown = t
  BY <1>1 DEF Init
<1>6. ViewOK
  BY <1>1, <1>3, <1>5 DEF ViewOK
<1>7. UiOK(ui)
  BY NothingOK DEF Init, Nothing
<1>8. DraftOK
  <2>1. PICK i : i = Inspected(ui, shown)
    OBVIOUS
  <2>2. i = [tab |-> "none", owner |-> {}]
    <3>1. ui.loading = FALSE /\ ui.adding = {} /\ ui["node"] = {} /\ ui["link"] = {}
          /\ ui["group"] = {}
      BY DEF Init
    <3>2. \A tab \in Tabs : ~Open(ui, shown, tab)
      BY <3>1 DEF Open, Selected, Tabs
    <3>3. QED
      BY <2>1, <3>1, <3>2 DEF Inspected, Tabs
  <2>3. draft = NoDraft /\ draft \in Draft
    BY DEF Init, NoDraft, Draft
  <2>4. initialDraft(i, shown).at = {}
    BY <2>2 DEF initialDraft
  <2>5. QED
    BY <2>1, <2>2, <2>3, <2>4 DEF DraftOK, DraftFor, SameDraft, NoDraft
<1>9. CountsOK /\ FlagsOK /\ OpsOK
  BY DEF Init, CountsOK, FlagsOK, OpsOK
<1>10. QED
  BY <1>4, <1>6, <1>7, <1>8, <1>9 DEF EditorInv

LEMMA EditorStuttering ==
  ASSUME EditorInv, UNCHANGED vars
  PROVE  EditorInv'
<1>1. ServerOK' /\ ViewOK' /\ UiOK(ui') /\ DraftOK' /\ CountsOK' /\ FlagsOK'
  BY DEF EditorInv, vars, ServerOK, ViewOK, DraftOK, CountsOK, FlagsOK, LinksUsed
<1>2. OpsOK'
  BY DEF EditorInv, vars, OpsOK
<1>3. QED
  BY <1>1, <1>2 DEF EditorInv

LEMMA EditorStep == EditorInv /\ [Next]_vars => EditorInv'
<1> SUFFICES ASSUME EditorInv, [Next]_vars PROVE EditorInv'
  OBVIOUS
<1>1. CASE User
  <2>1. ASSUME NEW n \in Nodes, clickNode(n) \/ selectSearchResult(n) \/ dragNode(n)
        PROVE  EditorInv'
    BY <2>1, ClickNode, SearchResult, DragNode
  <2>2. ASSUME NEW id \in Links, clickLink(id) PROVE EditorInv'
    BY <2>2, ClickLink
  <2>3. ASSUME NEW g \in Groups, clickGroup(g) \/ dragGroup(g) PROVE EditorInv'
    BY <2>3, ClickGroup, DragGroup
  <2>4. ASSUME NEW tab \in Tabs, beginAdding(tab) PROVE EditorInv'
    BY <2>4, BeginAdding
  <2>5. ASSUME NEW ends \in Pairs(shown.nodes), connectNodes(ends) PROVE EditorInv'
    BY <2>5, ConnectNodes
  <2>6. CASE onPaneClick
    BY <2>6, PaneClick
  <2>7. CASE onCancel
    BY <2>7, Cancel
  <2>8. CASE update
    BY <2>8, Update
  <2>9. CASE save
    BY <2>9, Save
  <2>10. CASE onKeyDown
    BY <2>10, DeleteSelected DEF onKeyDown
  <2>11. CASE onDelete
    BY <2>11, DeleteSelected DEF onDelete
  <2>12. CASE reload
    BY <2>12, Reload
  <2>13. QED
    BY <1>1, <2>1, <2>2, <2>3, <2>4, <2>5, <2>6, <2>7, <2>8, <2>9, <2>10, <2>11, <2>12
    DEF User
<1>2. CASE Server
  <2>1. PICK op \in ops :
          \/ createNode(op) \/ patch_node(op) \/ putGroup(op) \/ create_link_checks(op)
          \/ create_link(op) \/ patch_link(op) \/ deletes(op)
    BY <1>2 DEF Server
  <2>2. QED
    BY <2>1, CreateNode, PatchNode, PutGroup, LinkChecks, CreateLink, PatchLink, Deletes
<1>3. CASE Callbacks
  BY <1>3, Loads, ReportsError, Loaded DEF Callbacks
<1>4. CASE sync
  BY <1>4, Sync
<1>5. CASE elsewhere
  BY <1>5, Elsewhere
<1>6. ASSUME NEW op \in ops, requestFails(op) PROVE EditorInv'
  BY <1>6, RequestFails
<1>7. CASE UNCHANGED vars
  BY <1>7, EditorStuttering
<1>8. QED
  BY <1>1, <1>2, <1>3, <1>4, <1>5, <1>6, <1>7 DEF Next

(* The inductive invariant: the selections exclude one another, the draft   *)
(* is of what is inspected and every operation knows what it is about.      *)
THEOREM EditorInvariant == Spec => []EditorInv
<1>1. Init => EditorInv
  BY EditorInit
<1>2. EditorInv /\ [Next]_vars => EditorInv'
  BY EditorStep
<1>3. QED
  BY <1>1, <1>2, PTL DEF Spec

LEMMA OneAtMost ==
  ASSUME NEW S, AtMostOne(S)
  PROVE  Cardinality(S) <= 1
<1>1. CASE S = {}
  BY <1>1, FS_EmptySet
<1>2. CASE S # {}
  <2>1. PICK x : S = {x}
    BY <1>2 DEF AtMostOne
  <2>2. Cardinality({x}) = 1
    BY FS_Singleton
  <2>3. QED
    BY <2>1, <2>2
<1>3. QED
  BY <1>1, <1>2

(* Every operation awaits one answer, and one thing of a kind is selected.  *)
THEOREM EditorTypeCorrect == Spec => []TypeOK
<1>1. EditorInv => TypeOK
  <2> SUFFICES ASSUME EditorInv PROVE TypeOK
    OBVIOUS
  <2>1. server.tables \in Tables /\ server.used \subseteq Ids /\ shown \in Tables
        /\ ui \in UI /\ draft \in Draft /\ saving \in BOOLEAN /\ error \in BOOLEAN
    BY DEF EditorInv, ServerOK, ViewOK, UiOK, DraftOK, DraftFor, FlagsOK
  <2>2. ops \subseteq Op
    BY DEF EditorInv, OpsOK, OpOK
  <2>3. UiOK(ui)
    BY DEF EditorInv
  <2>4. \A tab \in Tabs : Cardinality(ui[tab]) <= 1
    BY <2>1, <2>3, SelectedOK, OneAtMost
  <2>5. Cardinality(ui.adding) <= 1
    BY <2>3, OneAtMost DEF UiOK
  <2>6. QED
    BY <2>1, <2>2, <2>4, <2>5 DEF TypeOK
<1>2. QED
  BY <1>1, EditorInvariant, PTL

(* The Delete key deletes what the inspector shows (onKeyDown).             *)
THEOREM DeletesInspected == Spec => []DeleteHitsInspected
<1>1. EditorInv => DeleteHitsInspected
  <2> SUFFICES ASSUME EditorInv, ~ui.loading, KeyTarget(ui) \in Tabs,
                      Selected(ui, shown, KeyTarget(ui)) # {}
               PROVE  Inspected(ui, shown)
                        = [tab |-> KeyTarget(ui), owner |-> ui[KeyTarget(ui)]]
    BY DEF DeleteHitsInspected
  <2>1. ui \in UI /\ UiOK(ui) /\ shown \in Tables
    BY ShownTypes
  <2>2. \A tab \in Tabs : Selected(ui, shown, tab) # {} =>
          Selected(ui, shown, tab) = ui[tab]
    <3> TAKE tab \in Tabs
    <3>1. PICK some, all : some = Selected(ui, shown, tab) /\ all = ui[tab]
      OBVIOUS
    <3>2. some \subseteq all /\ AtMostOne(all)
      BY <2>1, <3>1, SelectedOK
    <3>3. some # {} => some = all
      BY <3>2 DEF AtMostOne
    <3>4. QED
      BY <3>1, <3>3
  <2>3. CASE ui.node # {}
    <3>1. KeyTarget(ui) = "node" /\ ui["link"] = {} /\ "link" \notin ui.adding
      BY <2>1, <2>3, Tabbed DEF KeyTarget, UiOK
    <3>2. ~Open(ui, shown, "link") /\ Open(ui, shown, "node")
      BY <3>1 DEF Open, Selected
    <3>3. QED
      BY <2>2, <3>1, <3>2 DEF Inspected, Tabs
  <2>4. CASE ui.node = {}
    <3>1. KeyTarget(ui) = "link"
      BY <2>4 DEF KeyTarget, Tabs
    <3>2. Open(ui, shown, "link")
      BY <3>1 DEF Open
    <3>3. QED
      BY <2>2, <3>1, <3>2 DEF Inspected, Tabs
  <2>5. QED
    BY <2>3, <2>4
<1>2. QED
  BY <1>1, EditorInvariant, PTL
-----------------------------------------------------------------------------
(* Connecting ends. *)

LEMMA AnswersByPhase ==
  ASSUME EditorInv, NEW q \in ops, NEW phase, phase # q.phase,
         \/ Answer(q, [q EXCEPT !.phase = phase])
         \/ \E id : Answer(q, [q EXCEPT !.phase = phase, !.id = id])
  PROVE  \E a : Answer(q, a) /\ a.n = q.n /\ a # q
<1>1. q \in Op
  BY DEF EditorInv, OpsOK, OpOK
<1>2. CASE Answer(q, [q EXCEPT !.phase = phase])
  <2>1. PICK a : a = [q EXCEPT !.phase = phase]
    OBVIOUS
  <2>2. a.n = q.n /\ a.phase = phase
    BY <1>1, <2>1 DEF Op
  <2>3. QED
    BY <1>2, <2>1, <2>2
<1>3. ASSUME NEW id, Answer(q, [q EXCEPT !.phase = phase, !.id = id])
      PROVE  \E a : Answer(q, a) /\ a.n = q.n /\ a # q
  <2>1. PICK a : a = [q EXCEPT !.phase = phase, !.id = id]
    OBVIOUS
  <2>2. a.n = q.n /\ a.phase = phase
    BY <1>1, <2>1 DEF Op
  <2>3. QED
    BY <1>3, <2>1, <2>2
<1>4. QED
  BY <1>2, <1>3

LEMMA CommitOrRefuse ==
  ASSUME EditorInv, NEW q \in ops, q.phase \in {"sent", "checked"},
         Refuse(q) \/ \E tables, id : Commit(q, tables, id)
  PROVE  \E a : Answer(q, a) /\ a.n = q.n /\ a # q
<1>1. CASE Refuse(q)
  BY <1>1, AnswersByPhase DEF Refuse
<1>2. ASSUME NEW tables, NEW id, Commit(q, tables, id)
      PROVE  \E a : Answer(q, a) /\ a.n = q.n /\ a # q
  BY <1>2, AnswersByPhase DEF Commit
<1>3. QED
  BY <1>1, <1>2

LEMMA CreatedAnswers ==
  ASSUME EditorInv, NEW q \in ops, q.phase \in {"sent", "checked"},
         NEW tab, NEW with, Created(q, tab, with)
  PROVE  \E a : Answer(q, a) /\ a.n = q.n /\ a # q
BY CommitOrRefuse DEF Created

(* What a handler, a failure or the begin of a load does to an operation.   *)
Answers(q) ==
  \/ createNode(q) \/ patch_node(q) \/ putGroup(q) \/ create_link_checks(q)
  \/ create_link(q) \/ patch_link(q) \/ deletes(q) \/ loads(q) \/ requestFails(q)

LEMMA HandlersAnswer ==
  ASSUME EditorInv, NEW q \in ops, Answers(q)
  PROVE  \E a : Answer(q, a) /\ a.n = q.n /\ a # q
<1>1. CASE createNode(q)
  BY <1>1, CreatedAnswers DEF createNode, Handling
<1>2. CASE patch_node(q)
  BY <1>2, CommitOrRefuse DEF patch_node, Handling
<1>3. CASE putGroup(q)
  <2>1. q.phase = "sent"
    BY <1>3 DEF putGroup, Handling
  <2>2. CASE q.id = {}
    BY <1>3, <2>1, <2>2, CreatedAnswers DEF putGroup
  <2>3. CASE q.id # {}
    BY <1>3, <2>1, <2>3, CommitOrRefuse DEF putGroup
  <2>4. QED
    BY <2>2, <2>3
<1>4. CASE create_link_checks(q)
  <2>1. q.phase = "sent"
    BY <1>4 DEF create_link_checks, Handling
  <2>2. CASE Missing(q)
    BY <1>4, <2>1, <2>2, CommitOrRefuse DEF create_link_checks
  <2>3. CASE ~Missing(q)
    <3>1. PICK phase \in {"checked", "duplicate", "refused"} :
            Answer(q, [q EXCEPT !.phase = phase])
      BY <1>4, <2>3 DEF create_link_checks
    <3>2. QED
      BY <2>1, <3>1, AnswersByPhase
  <2>4. QED
    BY <2>2, <2>3
<1>5. CASE create_link(q)
  BY <1>5, CommitOrRefuse, CreatedAnswers DEF create_link
<1>6. CASE patch_link(q)
  <2>1. q.phase = "sent"
    BY <1>6 DEF patch_link, Handling
  <2>2. \/ Refuse(q) \/ Answer(q, [q EXCEPT !.phase = "stored"])
        \/ \E tables, id : Commit(q, tables, id)
    BY <1>6 DEF patch_link
  <2>3. QED
    BY <2>1, <2>2, CommitOrRefuse, AnswersByPhase
<1>7. CASE deletes(q)
  BY <1>7, CommitOrRefuse DEF deletes, Handling
<1>8. CASE loads(q)
  <2>1. PICK phase \in {"loading", "searching"} : Answer(q, [q EXCEPT !.phase = phase])
    BY <1>8 DEF loads
  <2>2. phase # q.phase
    BY <1>8 DEF loads
  <2>3. QED
    BY <2>1, <2>2, AnswersByPhase
<1>9. CASE requestFails(q)
  BY <1>9, AnswersByPhase DEF requestFails
<1>10. QED
  BY <1>1, <1>2, <1>3, <1>4, <1>5, <1>6, <1>7, <1>8, <1>9 DEF Answers

(* The user's actions begin operations and end none.                        *)
LEMMA UserOps ==
  ASSUME EditorInv, User
  PROVE  ops \subseteq ops'
<1>1. \A op : Send(op) => ops \subseteq ops'
  BY DEF Send
<1>2. Click => ops \subseteq ops'
  BY DEF Click
<1>3. ASSUME NEW n \in Nodes, clickNode(n) \/ selectSearchResult(n)
      PROVE  ops \subseteq ops'
  BY <1>2, <1>3 DEF clickNode, selectSearchResult
<1>4. ASSUME NEW n \in Nodes, dragNode(n)
      PROVE  ops \subseteq ops'
  BY <1>4 DEF dragNode
<1>5. ASSUME NEW id \in Links, clickLink(id)
      PROVE  ops \subseteq ops'
  BY <1>2, <1>5 DEF clickLink
<1>6. ASSUME NEW g \in Groups, clickGroup(g) \/ dragGroup(g)
      PROVE  ops \subseteq ops'
  BY <1>1, <1>2, <1>6 DEF clickGroup, dragGroup
<1>7. ASSUME NEW tab \in Tabs, beginAdding(tab)
      PROVE  ops \subseteq ops'
  BY <1>2, <1>7 DEF beginAdding
<1>8. ASSUME NEW ends \in Pairs(shown.nodes), connectNodes(ends)
      PROVE  ops \subseteq ops'
  BY <1>1, <1>2, <1>8 DEF connectNodes
<1>9. CASE onPaneClick \/ onCancel
  BY <1>2, <1>9 DEF onPaneClick, onCancel
<1>10. CASE save
  BY <1>1, <1>10 DEF save
<1>11. CASE onKeyDown \/ onDelete
  BY <1>1, <1>11 DEF onKeyDown, onDelete, deleteSelected
<1>12. CASE reload
  BY <1>12 DEF reload
<1>13. CASE update
  BY <1>13 DEF update
<1>14. QED
  BY <1>3, <1>4, <1>5, <1>6, <1>7, <1>8, <1>9, <1>10, <1>11, <1>12, <1>13 DEF User

(* An operation ends by its load or by its error, and not otherwise.        *)
LEMMA RemovedBy ==
  ASSUME EditorInv, Next, NEW op \in ops, ops' = ops \ {op}
  PROVE  loaded(op) \/ reportsError(op)
<1>1. ASSUME NEW q \in ops, Answers(q) PROVE FALSE
  <2>1. PICK a : Answer(q, a) /\ a.n = q.n
    BY <1>1, HandlersAnswer
  <2>2. q = op
    BY <2>1 DEF Answer
  <2>3. a \in ops /\ a # op
    BY <2>1 DEF Answer
  <2>4. QED
    BY <2>1, <2>2, <2>3 DEF EditorInv, OpsOK
<1>2. ~User
  BY UserOps
<1>3. ~Server /\ \A q \in ops : ~requestFails(q) /\ ~loads(q)
  BY <1>1 DEF Answers, Server
<1>4. ~sync /\ ~elsewhere
  BY DEF sync, elsewhere
<1>5. PICK q \in ops : loads(q) \/ reportsError(q) \/ loaded(q)
  BY <1>2, <1>3, <1>4 DEF Next, Callbacks
<1>6. ops' = ops \ {q}
  BY <1>3, <1>5 DEF reportsError, loaded
<1>7. q = op
  BY <1>6
<1>8. QED
  BY <1>3, <1>5, <1>7

ConnectHasEnded ==
  \A op \in ops : op.what = "connect" /\ ops' = ops \ {op} =>
    \/ error'
    \/ \E link \in shown'.links : link.ends = op.ends /\ ui'.link = {link.id}
    \/ /\ op.phase = "loading"
       /\ op.id \cap Existing(server.tables, "link") = {}

LEMMA ConnectLoaded ==
  ASSUME EditorInv, NEW op \in ops, op.what = "connect", loaded(op), error' # TRUE
  PROVE  \/ \E link \in shown'.links : link.ends = op.ends /\ ui'.link = {link.id}
         \/ /\ op.phase = "loading"
            /\ op.id \cap Existing(server.tables, "link") = {}
<1>1. PICK failed \in BOOLEAN, u \in UI, view \in Tables, loading \in BOOLEAN :
        /\ u = [ui EXCEPT !.loading = loading] /\ UiOK(u)
        /\ view = IF failed THEN shown ELSE server.tables
        /\ IF failed THEN Spend("failures", MaxFailures) ELSE UNCHANGED counts
        /\ error' = (error \/ failed \/ Lost(op))
        /\ Render(IF failed /\ op.phase = "searching" THEN u
                  ELSE Done(op, u, server.tables),
                  view, IF op.what = "save" THEN {op.tab} ELSE {})
  BY LoadedIs
<1>2. ~failed /\ ~Lost(op)
  BY <1>1
<1>3. shown' = server.tables /\ ui' = Done(op, u, server.tables)
  BY <1>1, <1>2 DEF Render
<1>4. OpOK(op) /\ Connected(op, server) /\ server.tables \in Tables
  BY DEF EditorInv, OpsOK, ServerOK
<1>5. CASE op.phase = "loading"
  <2>1. ui'.link = op.id
    BY <1>3, <1>5 DEF Done, Nothing
  <2>2. CASE op.id \cap Existing(server.tables, "link") # {}
    <3>1. PICK link \in server.tables.links : link.id \in op.id
      BY <1>4, <2>2, <1>1, Tabbed
    <3>2. link.ends = op.ends /\ op.id = {link.id}
      BY <1>4, <1>5, <3>1 DEF Connected, OpOK, AtMostOne
    <3>3. QED
      BY <1>3, <2>1, <3>1, <3>2
  <2>3. QED
    BY <1>5, <2>2
<1>6. CASE op.phase = "searching"
  <2>1. Found(op, server.tables) # {}
    BY <1>2, <1>6, NewestIs DEF Lost
  <2>2. PICK id \in Found(op, server.tables) :
          id = CHOOSE other \in Found(op, server.tables) : TRUE
    <3>1. \E id \in Found(op, server.tables) : TRUE
      BY <2>1
    <3>2. QED
      BY <3>1
  <2>3. PICK link \in server.tables.links : link.ends = op.ends /\ link.id = id
    BY <2>2 DEF Found, matchingLink
  <2>4. ui' = selectSavedLink(u, id)
    BY <1>3, <1>6, <2>1, <2>2 DEF Done
  <2>5. ui'.link = {id}
    BY <2>4 DEF selectSavedLink, Nothing
  <2>6. QED
    BY <1>3, <2>3, <2>5
<1>7. QED
  BY <1>5, <1>6 DEF loaded

(* Connecting two nodes ends with a link of theirs selected and shown, or   *)
(* with an error (connectNodes).                                            *)
THEOREM ConnectAlwaysEnds == Spec => ConnectEnds
<1>1. EditorInv /\ [Next]_vars => [ConnectHasEnded]_vars
  <2> SUFFICES ASSUME EditorInv, Next, NEW op \in ops, op.what = "connect",
                      ops' = ops \ {op}
               PROVE  \/ error'
                      \/ \E link \in shown'.links :
                           link.ends = op.ends /\ ui'.link = {link.id}
                      \/ /\ op.phase = "loading"
                         /\ op.id \cap Existing(server.tables, "link") = {}
    BY DEF ConnectHasEnded
  <2>1. CASE reportsError(op)
    BY <2>1 DEF reportsError
  <2>2. CASE loaded(op)
    <3>1. CASE error' = TRUE
      BY <3>1
    <3>2. CASE error' # TRUE
      BY <2>2, <3>2, ConnectLoaded
    <3>3. QED
      BY <3>1, <3>2
  <2>3. QED
    BY <2>1, <2>2, RemovedBy
<1>2. QED
  BY <1>1, EditorInvariant, PTL DEF Spec, ConnectEnds, ConnectHasEnded
-----------------------------------------------------------------------------
(* What is typed is kept. *)

(* Of another view of the map, which shows what the draft is of and nothing *)
(* that was selected and not shown, the same is inspected.                  *)
LEMMA SameInspected ==
  ASSUME NEW u, UiOK(u), NEW a \in Tables, NEW b \in Tables,
         Inspected(u, a).owner \subseteq Existing(b, Inspected(u, a).tab),
         \A tab \in Tabs : Selected(u, a, tab) = {} => Selected(u, b, tab) = {}
  PROVE  Inspected(u, b) = Inspected(u, a)
<1>1. u \in UI
  BY DEF UiOK
<1>2. \A tab \in Tabs : ~Open(u, a, tab) => ~Open(u, b, tab)
  BY DEF Open
<1>3. ASSUME NEW tab \in Tabs, Open(u, a, tab), Inspected(u, a).tab = tab,
             Inspected(u, a).owner = Selected(u, a, tab)
      PROVE  Selected(u, b, tab) = Selected(u, a, tab) /\ Open(u, b, tab)
  <2>1. PICK some, other, all : /\ some = Selected(u, a, tab)
                                /\ other = Selected(u, b, tab) /\ all = u[tab]
    OBVIOUS
  <2>2. some \subseteq other
    BY <1>3, <2>1 DEF Selected
  <2>3. other \subseteq all /\ AtMostOne(all)
    BY <2>1, SelectedOK
  <2>4. some = {} => other = {}
    BY <2>1
  <2>5. some = other
    BY <2>2, <2>3, <2>4 DEF AtMostOne
  <2>6. QED
    BY <1>3, <2>1, <2>5 DEF Open
<1>4. CASE u.loading
  BY <1>4 DEF Inspected
<1>5. CASE ~u.loading /\ Open(u, a, "link")
  <2>1. Inspected(u, a) = [tab |-> "link", owner |-> Selected(u, a, "link")]
    BY <1>5 DEF Inspected
  <2>2. Selected(u, b, "link") = Selected(u, a, "link") /\ Open(u, b, "link")
    BY <1>3, <1>5, <2>1 DEF Tabs
  <2>3. QED
    BY <1>5, <2>1, <2>2 DEF Inspected
<1>6. CASE ~u.loading /\ ~Open(u, a, "link") /\ Open(u, a, "node")
  <2>1. Inspected(u, a) = [tab |-> "node", owner |-> Selected(u, a, "node")]
    BY <1>6 DEF Inspected
  <2>2. Selected(u, b, "node") = Selected(u, a, "node") /\ Open(u, b, "node")
        /\ ~Open(u, b, "link")
    BY <1>2, <1>3, <1>6, <2>1 DEF Tabs
  <2>3. QED
    BY <1>6, <2>1, <2>2 DEF Inspected
<1>7. CASE /\ ~u.loading /\ ~Open(u, a, "link") /\ ~Open(u, a, "node")
           /\ Open(u, a, "group")
  <2>1. Inspected(u, a) = [tab |-> "group", owner |-> Selected(u, a, "group")]
    BY <1>7 DEF Inspected
  <2>2. Selected(u, b, "group") = Selected(u, a, "group") /\ Open(u, b, "group")
        /\ ~Open(u, b, "link") /\ ~Open(u, b, "node")
    BY <1>2, <1>3, <1>7, <2>1 DEF Tabs
  <2>3. QED
    BY <1>7, <2>1, <2>2 DEF Inspected
<1>8. CASE \A tab \in Tabs : ~Open(u, a, tab)
  BY <1>2, <1>8 DEF Inspected, Tabs
<1>9. QED
  BY <1>4, <1>5, <1>6, <1>7, <1>8 DEF Tabs

LEMMA ClickCounts ==
  ASSUME EditorInv, Click
  PROVE  counts'.clicks # counts.clicks
<1>1. counts.clicks \in Nat /\ counts' = [counts EXCEPT !.clicks = counts.clicks + 1]
  BY DEF EditorInv, CountsOK, Click, Spend
<1>2. counts'.clicks = counts.clicks + 1
  BY <1>1 DEF EditorInv, CountsOK
<1>3. QED
  BY <1>1, <1>2

(* What is typed is typed while no loading screen is up.                    *)
LEMMA TypedInMap == EditorInv /\ draft.typed => ~ui.loading
<1> SUFFICES ASSUME EditorInv, draft.typed, ui.loading PROVE FALSE
  OBVIOUS
<1>1. SameDraft(draft, Inspected(ui, shown)) /\ draft.tab \in Tabs
  BY DEF EditorInv, DraftOK, DraftFor
<1>2. Inspected(ui, shown) = [tab |-> "none", owner |-> {}]
  BY DEF Inspected
<1>3. QED
  BY <1>1, <1>2 DEF SameDraft, Tabs

(* A view in which what the draft is of is still shown, and nothing that    *)
(* was selected has appeared.                                               *)
Undisturbing(view) ==
  /\ draft.owner \subseteq Existing(view, draft.tab)
  /\ \A tab \in Tabs : Selected(ui, shown, tab) = {} => Selected(ui, view, tab) = {}

LEMMA RenderKeepsTyped ==
  ASSUME EditorInv, draft.typed, NEW view \in Tables, Render(ui, view, {}),
         Undisturbing(shown')
  PROVE  draft'.typed
<1>1. PICK i : i = Inspected(ui, shown)
  OBVIOUS
<1>2. shown' = view /\ draft' = Rendered(ui, view, {})
  BY DEF Render
<1>3. DraftFor(draft, ui, shown) /\ UiOK(ui) /\ shown \in Tables
  BY DEF EditorInv, DraftOK, ViewOK
<1>4. draft.tab = i.tab /\ draft.owner = i.owner
  BY <1>1, <1>3 DEF DraftFor, SameDraft
<1>5. Inspected(ui, view) = i
  BY <1>1, <1>2, <1>3, <1>4, SameInspected DEF Undisturbing
<1>6. draft' = Merged(draft, i, view)
  BY <1>2, <1>4, <1>5 DEF Rendered, SameDraft
<1>7. draft'.typed = draft.typed
  BY <1>3, <1>6 DEF Merged, DraftFor, Draft
<1>8. QED
  BY <1>7

(* What its user does clicks, puts up the loading screen, drags or leaves   *)
(* the draft alone.                                                         *)
LEMMA UserKeepsTyped ==
  ASSUME EditorInv, User, draft.typed, counts'.clicks = counts.clicks,
         ~ui'.loading, Undisturbing(shown')
  PROVE  draft'.typed
<1>1. ~Click
  BY ClickCounts
<1>2. \A op : Send(op) => draft' = draft
  BY DEF Send
<1>3. ASSUME NEW n \in Nodes, clickNode(n) \/ selectSearchResult(n) PROVE FALSE
  BY <1>1, <1>3 DEF clickNode, selectSearchResult
<1>4. ASSUME NEW n \in Nodes, dragNode(n) PROVE draft'.typed
  <2>1. PICK at \in Nat : at = counts.ops + 1
    BY DEF EditorInv, CountsOK
  <2>2. PICK view : view = At(shown, n, at)
    OBVIOUS
  <2>3. shown \in Tables
    BY DEF EditorInv, ViewOK
  <2>4. view \in Tables
    BY <2>1, <2>2, <2>3, AtOK
  <2>5. Render(ui, view, {})
    BY <1>4, <2>1, <2>2 DEF dragNode, At
  <2>6. QED
    BY <2>4, <2>5, RenderKeepsTyped
<1>5. ASSUME NEW id \in Links, clickLink(id) PROVE FALSE
  BY <1>1, <1>5 DEF clickLink
<1>6. ASSUME NEW g \in Groups, clickGroup(g) \/ dragGroup(g) PROVE draft' = draft
  BY <1>1, <1>2, <1>6 DEF clickGroup, dragGroup
<1>7. ASSUME NEW tab \in Tabs, beginAdding(tab) PROVE FALSE
  BY <1>1, <1>7 DEF beginAdding
<1>8. ASSUME NEW ends \in Pairs(shown.nodes), connectNodes(ends) PROVE draft' = draft
  BY <1>1, <1>2, <1>8 DEF connectNodes
<1>9. ~onPaneClick /\ ~onCancel
  BY <1>1 DEF onPaneClick, onCancel
<1>10. update => draft' = draft
  BY DEF update
<1>11. save => draft' = draft
  BY <1>2 DEF save
<1>12. onKeyDown \/ onDelete => draft' = draft
  BY <1>2 DEF onKeyDown, onDelete, deleteSelected
<1>13. ~reload
  <2>1. ui \in UI
    BY DEF EditorInv, UiOK
  <2>2. reload => ui' = [ui EXCEPT !.loading = TRUE]
    BY DEF reload, Show, Render
  <2>3. QED
    BY <2>1, <2>2 DEF UI
<1>14. QED
  BY <1>3, <1>4, <1>5, <1>6, <1>7, <1>8, <1>9, <1>10, <1>11, <1>12, <1>13 DEF User

(* The handlers have no draft. *)
LEMMA ServerKeepsDraft ==
  ASSUME NEW op, createNode(op) \/ patch_node(op) \/ putGroup(op)
                 \/ create_link_checks(op) \/ create_link(op) \/ patch_link(op)
                 \/ deletes(op) \/ requestFails(op)
  PROVE  draft' = draft
BY DEF createNode, patch_node, putGroup, create_link_checks, create_link, patch_link,
       deletes, requestFails, Handling

LEMMA LoadingFalse ==
  ASSUME NEW u, u \in UI, ~u.loading
  PROVE  [u EXCEPT !.loading = FALSE] = u
BY DEF UI

(* A load that begins without the loading screen leaves all as it was.      *)
LEMMA LoadsKeepsTyped ==
  ASSUME EditorInv, NEW op \in ops, loads(op), draft.typed, ~ui'.loading,
         Undisturbing(shown')
  PROVE  draft'.typed
<1>1. ui \in UI /\ shown \in Tables /\ ~ui.loading
  BY TypedInMap DEF EditorInv, UiOK, ViewOK
<1>2. PICK v : v = AfterDelete(op)
  OBVIOUS
<1>3. v \in UI
  BY <1>2, AfterDeleteOK DEF UiOK
<1>4. PICK u : u = [v EXCEPT !.loading = v.loading \/ ShowsLoading(op)]
  OBVIOUS
<1>5. Render(u, shown, {})
  BY <1>2, <1>4 DEF loads, Show
<1>6. ui' = u
  BY <1>5 DEF Render
<1>7. u.loading = (v.loading \/ ShowsLoading(op))
  BY <1>3, <1>4 DEF UI
<1>8. ~v.loading /\ ~ShowsLoading(op)
  BY <1>6, <1>7
<1>9. v = ui
  BY <1>2, <1>8 DEF AfterDelete, ShowsLoading
<1>10. u = ui
  <2>1. u = [v EXCEPT !.loading = FALSE]
    BY <1>4, <1>8
  <2>2. QED
    BY <1>3, <1>8, <1>9, <2>1, LoadingFalse
<1>11. QED
  BY <1>1, <1>5, <1>10, RenderKeepsTyped

(* Nor does a load that ends select anything, but of a save or a connect.   *)
LEMMA LoadedKeepsTyped ==
  ASSUME EditorInv, NEW op \in ops, loaded(op), op.what \notin {"save", "connect"},
         draft.typed, Undisturbing(shown')
  PROVE  draft'.typed
<1>1. ui \in UI /\ ~ui.loading
  BY TypedInMap DEF EditorInv, UiOK
<1>2. PICK failed \in BOOLEAN :
        LET view == IF failed THEN shown ELSE Newest
            u == [ui EXCEPT !.loading = @ /\ ~ShowsLoading(op)]
        IN Render(IF failed /\ op.phase = "searching" THEN u ELSE Done(op, u, Newest),
                  view, IF op.what = "save" THEN {op.tab} ELSE {})
  BY DEF loaded
<1>3. PICK view : view = IF failed THEN shown ELSE Newest
  OBVIOUS
<1>4. view \in Tables
  BY <1>3, NewestIs DEF EditorInv, ViewOK
<1>5. PICK u : u = [ui EXCEPT !.loading = ui.loading /\ ~ShowsLoading(op)]
  OBVIOUS
<1>6. u = ui
  <2>1. u = [ui EXCEPT !.loading = FALSE]
    BY <1>1, <1>5
  <2>2. QED
    BY <1>1, <2>1, LoadingFalse
<1>7. Done(op, u, Newest) = u
  BY DEF Done
<1>8. Render(ui, view, {})
  BY <1>2, <1>3, <1>5, <1>6, <1>7
<1>9. QED
  BY <1>4, <1>8, RenderKeepsTyped

TypedStays ==
  draft.typed /\ ~draft'.typed =>
    \/ counts'.clicks # counts.clicks
    \/ ~ui.loading /\ ui'.loading
    \/ \E op \in ops : op.what \in {"save", "connect"} /\ ops' = ops \ {op}
    \/ ~(draft.owner \subseteq Existing(shown', draft.tab))
    \/ \E tab \in Tabs : /\ Selected(ui, shown, tab) = {}
                         /\ Selected(ui, shown', tab) # {}

LEMMA TypedStep == EditorInv /\ [Next]_vars => [TypedStays]_vars
<1> SUFFICES ASSUME EditorInv, Next, draft.typed, counts'.clicks = counts.clicks,
                    ui.loading \/ ~ui'.loading, Undisturbing(shown'),
                    \A op \in ops : op.what \in {"save", "connect"} => ops' # ops \ {op}
             PROVE  draft'.typed
  BY DEF TypedStays, Undisturbing
<1>1. ~ui'.loading
  BY TypedInMap
<1>2. CASE User
  BY <1>1, <1>2, UserKeepsTyped
<1>3. CASE Server
  BY <1>3, ServerKeepsDraft DEF Server
<1>4. ASSUME NEW op \in ops, loads(op) PROVE draft'.typed
  BY <1>1, <1>4, LoadsKeepsTyped
<1>5. ASSUME NEW op \in ops, reportsError(op) PROVE draft'.typed
  BY <1>5 DEF reportsError
<1>6. ASSUME NEW op \in ops, loaded(op) PROVE draft'.typed
  <2>1. ops' = ops \ {op}
    BY <1>6 DEF loaded
  <2>2. QED
    BY <1>6, <2>1, LoadedKeepsTyped
<1>7. CASE sync
  <2>1. server.tables \in Tables /\ Render(ui, server.tables, {})
    BY <1>7 DEF sync, EditorInv, ServerOK
  <2>2. QED
    BY <2>1, RenderKeepsTyped
<1>8. CASE elsewhere
  BY <1>8 DEF elsewhere
<1>9. ASSUME NEW op \in ops, requestFails(op) PROVE draft'.typed
  BY <1>9, ServerKeepsDraft
<1>10. QED
  BY <1>2, <1>3, <1>4, <1>5, <1>6, <1>7, <1>8, <1>9 DEF Next, Callbacks

(* What is typed into an inspector is lost by what its user does, when what *)
(* it is of is deleted, when a loading screen is put up, or when a save or  *)
(* a connect ends and selects: by no snapshot (mergeExternalPosition), no   *)
(* drag and no other step of any operation.                                 *)
THEOREM TypedStaysKept == Spec => TypedIsKept
<1>1. EditorInv /\ [Next]_vars => [TypedStays]_vars
  BY TypedStep
<1>2. QED
  BY <1>1, EditorInvariant, PTL DEF Spec, TypedIsKept, TypedStays
-----------------------------------------------------------------------------
(* The canvas, for every drop and every pair of positions. *)

Place == [x : Int, y : Int]

(* A link leaves a node at the side that faces the other one, and arrives   *)
(* at the opposite side, wherever the two nodes are (nearestHandle).        *)
THEOREM HandlesFace ==
  \A here, there \in Place :
    here # there => nearestHandle(there, here) = Opposite(nearestHandle(here, there))
<1> SUFFICES ASSUME NEW here \in Place, NEW there \in Place, here # there
             PROVE  nearestHandle(there, here) = Opposite(nearestHandle(here, there))
  OBVIOUS
<1>1. /\ here.x \in Int /\ here.y \in Int /\ there.x \in Int /\ there.y \in Int
      /\ here.x # there.x \/ here.y # there.y
  BY DEF Place
<1>2. PICK dx, dy \in Int : /\ dx = there.x - here.x /\ dy = there.y - here.y
  BY <1>1
<1>3. here.x - there.x = -dx /\ here.y - there.y = -dy
  <2>1. PICK a, b, c, d \in Int : /\ a = here.x /\ b = there.x
                                 /\ c = here.y /\ d = there.y
    BY <1>1
  <2>2. dx = b - a /\ dy = d - c
    BY <1>2, <2>1
  <2>3. a - b = -dx /\ c - d = -dy
    BY <2>2
  <2>4. QED
    BY <2>1, <2>3
<1>0. dx # 0 \/ dy # 0
  <2>1. dx = 0 => here.x = there.x
    BY <1>1, <1>2
  <2>2. dy = 0 => here.y = there.y
    BY <1>1, <1>2
  <2>3. QED
    BY <1>1, <2>1, <2>2
<1>4. PICK a, b \in Int : a = Size(dx) * 59 /\ b = Size(dy) * 210
  BY <1>2 DEF Size
<1>5. Size(-dx) * 59 = a /\ Size(-dy) * 210 = b
  BY <1>2, <1>4 DEF Size
<1>6. /\ a >= b => dx # 0
      /\ ~(a >= b) => dy # 0
  BY <1>2, <1>0, <1>4 DEF Size
<1>7. nearestHandle(here, there) = IF a >= b THEN IF dx >= 0 THEN "right" ELSE "left"
                                   ELSE IF dy >= 0 THEN "bottom" ELSE "top"
  BY <1>2, <1>4 DEF nearestHandle, NODE_WIDTH, NODE_HEIGHT
<1>8. nearestHandle(there, here) = IF a >= b THEN IF -dx >= 0 THEN "right" ELSE "left"
                                   ELSE IF -dy >= 0 THEN "bottom" ELSE "top"
  BY <1>3, <1>5 DEF nearestHandle, NODE_WIDTH, NODE_HEIGHT
<1>9. QED
  BY <1>2, <1>6, <1>7, <1>8 DEF Opposite

(* The least size that a group may have. *)
Room == [x : Int, y : Int, width : Int, height : Int]
RoomyGroup(g) == g \in Room /\ g.width >= 260 /\ g.height >= 160
ApartGroups(g, h) ==
  \/ g.x + g.width < h.x \/ h.x + h.width < g.x
  \/ g.y + g.height < h.y \/ h.y + h.height < g.y

LEMMA InsideOK ==
  ASSUME NEW g, RoomyGroup(g), NEW p \in Place
  PROVE  LET q == Inside(g, p)
         IN /\ q \in Place /\ CentreIn(g, q) /\ Inside(g, q) = q
            /\ q.x >= g.x /\ q.x + NODE_WIDTH <= g.x + g.width
            /\ q.y >= g.y + GROUP_TITLE_HEIGHT
            /\ q.y + NODE_HEIGHT <= g.y + g.height
<1>1. /\ g.x \in Int /\ g.y \in Int /\ g.width \in Int /\ g.height \in Int
      /\ g.width >= 260 /\ g.height >= 160 /\ p.x \in Int /\ p.y \in Int
  BY DEF RoomyGroup, Room, Place
<1>2. PICK x \in Int : x = AtMost(AtLeast(p.x, g.x + 16), g.x + g.width - 210 - 16)
  BY <1>1 DEF AtMost, AtLeast
<1>3. PICK y \in Int : y = AtMost(AtLeast(p.y, g.y + 38), g.y + g.height - 59 - 16)
  BY <1>1 DEF AtMost, AtLeast
<1>4. g.x + 16 <= x /\ x <= g.x + g.width - 210 - 16
  BY <1>1, <1>2 DEF AtMost, AtLeast
<1>5. g.y + 38 <= y /\ y <= g.y + g.height - 59 - 16
  BY <1>1, <1>3 DEF AtMost, AtLeast
<1>6. PICK q : q = Inside(g, p)
  OBVIOUS
<1>7. q = [x |-> x, y |-> y]
  BY <1>2, <1>3, <1>6 DEF Inside, NODE_WIDTH, NODE_HEIGHT, GROUP_PADDING,
     GROUP_TITLE_HEIGHT
<1>8. q \in Place /\ q.x = x /\ q.y = y
  BY <1>7 DEF Place
<1>9. CentreIn(g, q)
  BY <1>1, <1>4, <1>5, <1>8 DEF CentreIn, NODE_WIDTH, NODE_HEIGHT, GROUP_TITLE_HEIGHT
<1>10. AtMost(AtLeast(x, g.x + 16), g.x + g.width - 210 - 16) = x
  BY <1>1, <1>4 DEF AtMost, AtLeast
<1>11. AtMost(AtLeast(y, g.y + 38), g.y + g.height - 59 - 16) = y
  BY <1>1, <1>5 DEF AtMost, AtLeast
<1>12. Inside(g, q) = q
  BY <1>7, <1>8, <1>10, <1>11 DEF Inside, NODE_WIDTH, NODE_HEIGHT, GROUP_PADDING,
     GROUP_TITLE_HEIGHT
<1>13. QED
  BY <1>1, <1>4, <1>5, <1>6, <1>8, <1>9, <1>12 DEF NODE_WIDTH, NODE_HEIGHT,
     GROUP_TITLE_HEIGHT

LEMMA OneCentre ==
  ASSUME NEW g, RoomyGroup(g), NEW h, RoomyGroup(h), ApartGroups(g, h),
         NEW p \in Place, CentreIn(g, p)
  PROVE  ~CentreIn(h, p)
<1>1. /\ g.x \in Int /\ g.y \in Int /\ g.width \in Int /\ g.height \in Int
      /\ h.x \in Int /\ h.y \in Int /\ h.width \in Int /\ h.height \in Int
      /\ p.x \in Int /\ p.y \in Int
  BY DEF RoomyGroup, Room, Place
<1>2. QED
  BY <1>1 DEF CentreIn, ApartGroups, NODE_WIDTH, NODE_HEIGHT, GROUP_TITLE_HEIGHT
Roomy(groups) ==
  Len(groups) \in Nat /\ \A i \in 1..Len(groups) : RoomyGroup(groups[i])
Apart(groups) ==
  \A i, j \in 1..Len(groups) : i # j => ApartGroups(groups[i], groups[j])
Taker(groups, p) == SelectInSeq(groups, LAMBDA group : CentreIn(group, p))

LEMMA TakerIs ==
  ASSUME NEW groups, Roomy(groups), NEW p \in Place
  PROVE  LET taker == Taker(groups, p)
         IN /\ taker = 0 => \A i \in 1..Len(groups) : ~CentreIn(groups[i], p)
            /\ taker # 0 => taker \in 1..Len(groups) /\ CentreIn(groups[taker], p)
<1> DEFINE In == {i \in 1..Len(groups) : CentreIn(groups[i], p)}
<1>1. Taker(groups, p) = IF In # {} THEN Min(In) ELSE 0
  BY DEF Taker, SelectInSeq
<1>2. In \subseteq Nat /\ 0 \notin In
  BY DEF Roomy
<1>3. CASE In = {}
  BY <1>1, <1>3
<1>4. CASE In # {}
  <2>1. PICK i \in In : \A j \in In : ~(<<j, i>> \in OpToRel(<, Nat))
    <3>1. IsWellFoundedOn(OpToRel(<, Nat), Nat)
      BY NatLessThanWellFounded
    <3>2. QED
      BY <1>2, <1>4, <3>1, WFMin
  <2>0. \A j \in In : i <= j
    <3>1. ASSUME NEW j \in In PROVE ~(j < i)
      BY <1>2, <2>1 DEF OpToRel
    <3>2. QED
      BY <1>2, <3>1
  <2>2. Min(In) \in In
    BY <2>0 DEF Min
  <2>3. Taker(groups, p) \in In
    BY <1>1, <1>4, <2>2
  <2>4. QED
    BY <1>2, <2>3
<1>5. QED
  BY <1>3, <1>4

LEMMA DropIs ==
  ASSUME NEW groups, NEW p
  PROVE  LET i == Taker(groups, p)
         IN groupDropPosition(groups, p) =
              [group |-> i, position |-> IF i = 0 THEN p ELSE Inside(groups[i], p)]
BY DEF groupDropPosition, Taker

(* A node that a group takes is moved inside it, clear of its title, what   *)
(* ever other groups the map has and wherever they are (groupDropPosition). *)
THEOREM DropsFit ==
  ASSUME NEW groups, Roomy(groups), NEW p \in Place
  PROVE  LET drop == groupDropPosition(groups, p)
             group == groups[drop.group]
         IN drop.group # 0 =>
              /\ drop.group \in 1..Len(groups) /\ drop.position \in Place
              /\ drop.position.x >= group.x
              /\ drop.position.x + NODE_WIDTH <= group.x + group.width
              /\ drop.position.y >= group.y + GROUP_TITLE_HEIGHT
              /\ drop.position.y + NODE_HEIGHT <= group.y + group.height
<1>1. PICK i : i = Taker(groups, p)
  OBVIOUS
<1>2. CASE i = 0
  <2>1. groupDropPosition(groups, p) = [group |-> 0, position |-> p]
    BY <1>1, <1>2, DropIs
  <2>2. QED
    BY <2>1
<1>3. CASE i # 0
  <2>1. i \in 1..Len(groups) /\ RoomyGroup(groups[i])
    BY <1>1, <1>3, TakerIs DEF Roomy
  <2>2. PICK g, q : g = groups[i] /\ q = Inside(g, p)
    OBVIOUS
  <2>3. /\ q \in Place /\ q.x >= g.x /\ q.x + NODE_WIDTH <= g.x + g.width
        /\ q.y >= g.y + GROUP_TITLE_HEIGHT
        /\ q.y + NODE_HEIGHT <= g.y + g.height
    BY <2>1, <2>2, InsideOK
  <2>4. groupDropPosition(groups, p) = [group |-> i, position |-> q]
    BY <1>1, <1>3, <2>2, DropIs
  <2>5. QED
    BY <2>1, <2>2, <2>3, <2>4
<1>4. QED
  BY <1>2, <1>3

(* Where no two groups of a map overlap, a node dropped where the canvas    *)
(* has just put it stays there, in the same group (groupDropPosition).      *)
THEOREM DropsSettle ==
  ASSUME NEW groups, Roomy(groups), Apart(groups), NEW p \in Place
  PROVE  LET drop == groupDropPosition(groups, p)
         IN groupDropPosition(groups, drop.position) = drop
<1>1. PICK i : i = Taker(groups, p)
  OBVIOUS
<1>2. CASE i = 0
  <2>1. groupDropPosition(groups, p) = [group |-> 0, position |-> p]
    BY <1>1, <1>2, DropIs
  <2>2. QED
    BY <2>1
<1>3. CASE i # 0
  <2>1. i \in 1..Len(groups) /\ RoomyGroup(groups[i])
    BY <1>1, <1>3, TakerIs DEF Roomy
  <2>2. PICK g, q : g = groups[i] /\ q = Inside(g, p)
    OBVIOUS
  <2>3. q \in Place /\ CentreIn(g, q) /\ Inside(g, q) = q
    BY <2>1, <2>2, InsideOK
  <2>4. groupDropPosition(groups, p) = [group |-> i, position |-> q]
    BY <1>1, <1>3, <2>2, DropIs
  <2>5. PICK j : j = Taker(groups, q)
    OBVIOUS
  <2>6. j \in 1..Len(groups) /\ CentreIn(groups[j], q)
    BY <2>1, <2>2, <2>3, <2>5, TakerIs
  <2>7. j = i
    <3>1. SUFFICES ASSUME j # i PROVE FALSE
      OBVIOUS
    <3>2. RoomyGroup(groups[j]) /\ ApartGroups(groups[i], groups[j])
      BY <2>1, <2>6, <3>1 DEF Roomy, Apart
    <3>3. QED
      BY <2>1, <2>2, <2>3, <2>6, <3>2, OneCentre
  <2>8. groupDropPosition(groups, q) = [group |-> i, position |-> q]
    BY <1>3, <2>2, <2>3, <2>5, <2>7, DropIs
  <2>9. QED
    BY <2>4, <2>8
<1>4. QED
  BY <1>2, <1>3

LEMMA GroupsAreApart == Roomy(SomeGroups) /\ Apart(SomeGroups)
<1>1. PICK g, h : /\ g = [x |-> 0, y |-> 0, width |-> 260, height |-> 160]
                  /\ h = [x |-> 300, y |-> -40, width |-> 360, height |-> 240]
  OBVIOUS
<1>2. Len(SomeGroups) = 2 /\ SomeGroups[1] = g /\ SomeGroups[2] = h
  BY <1>1 DEF SomeGroups
<1>3. RoomyGroup(g) /\ RoomyGroup(h)
  BY <1>1 DEF RoomyGroup, Room
<1>4. ApartGroups(g, h) /\ ApartGroups(h, g)
  BY <1>1 DEF ApartGroups
<1>5. \A i \in 1..2 : i = 1 \/ i = 2
  OBVIOUS
<1>6. QED
  BY <1>2, <1>3, <1>4, <1>5 DEF Roomy, Apart

LEMMA EdgesAreWhole ==
  ASSUME NEW low \in Int, NEW high \in Int, NEW size \in Nat, NEW pad \in Int
  PROVE  Edges(low, high, size, pad) \subseteq Int
<1> DEFINE Middles == {low + pad, high - size - pad, low - size \div 2,
                       high - size \div 2, low + 16, high - size - 16}
<1>1. size \div 2 \in Int
  OBVIOUS
<1>2. Middles \subseteq Int
  BY <1>1
<1>3. Edges(low, high, size, pad) = UNION {(v - 2) .. (v + 2) : v \in Middles}
  BY DEF Edges
<1> HIDE DEF Middles
<1>4. ASSUME NEW e \in Edges(low, high, size, pad) PROVE e \in Int
  <2>1. PICK v \in Middles : e \in (v - 2) .. (v + 2)
    BY <1>3, <1>4
  <2>2. QED
    BY <1>2, <2>1
<1>5. QED
  BY <1>4

LEMMA DropsArePlaces == SomeDrops \subseteq Place /\ SomeOffsets \subseteq Place
<1>1. /\ Edges(0, 260, NODE_WIDTH, 0) \subseteq Int
      /\ Edges(300, 660, NODE_WIDTH, 0) \subseteq Int
      /\ Edges(0, 160, NODE_HEIGHT, GROUP_TITLE_HEIGHT) \subseteq Int
      /\ Edges(-40, 200, NODE_HEIGHT, GROUP_TITLE_HEIGHT) \subseteq Int
  <2>1. NODE_WIDTH \in Nat /\ NODE_HEIGHT \in Nat /\ GROUP_TITLE_HEIGHT \in Int
    BY DEF NODE_WIDTH, NODE_HEIGHT, GROUP_TITLE_HEIGHT
  <2>2. QED
    BY <2>1, EdgesAreWhole
<1>2. SomeDrops \subseteq Place
  BY <1>1 DEF SomeDrops, Place
<1>3. SomeOffsets \subseteq Place
  BY DEF SomeOffsets, Place
<1>4. QED
  BY <1>2, <1>3
HandleOf(link, n, at) ==
  IF link.source = n THEN sourceHandle(link, at) ELSE targetHandle(link, at)
Drawn(ends, handles, kind) == WithKind(StoredEnds(ends[1], ends[2], handles), kind)

(* The ends are stored in the order of their ids, whichever way a link is   *)
(* drawn, and each end keeps its side (create_link).                        *)
LEMMA DrawnIs ==
  ASSUME NEW handles \in Handles \X Handles, NEW ends \in {<<1, 2>>, <<2, 1>>},
         NEW kind \in Kinds
  PROVE  LET link == Drawn(ends, handles, kind)
         IN /\ link.source = 1 /\ link.target = 2 /\ link.kind = kind
            /\ ends = <<1, 2>> => /\ link.source_handle = handles[1]
                                  /\ link.target_handle = handles[2]
            /\ ends = <<2, 1>> => /\ link.source_handle = handles[2]
                                  /\ link.target_handle = handles[1]
<1>1. CASE ends = <<1, 2>>
  <2>1. ends[1] = 1 /\ ends[2] = 2 /\ ends # <<2, 1>>
    BY <1>1
  <2>2. StoredEnds(ends[1], ends[2], handles) =
          [source |-> 1, target |-> 2,
           source_handle |-> handles[1], target_handle |-> handles[2]]
    BY <2>1 DEF StoredEnds
  <2>3. QED
    BY <2>1, <2>2 DEF Drawn, WithKind
<1>2. CASE ends = <<2, 1>>
  <2>1. ends[1] = 2 /\ ends[2] = 1 /\ ends # <<1, 2>>
    BY <1>2
  <2>2. StoredEnds(ends[1], ends[2], handles) =
          [source |-> 1, target |-> 2,
           source_handle |-> handles[2], target_handle |-> handles[1]]
    BY <2>1 DEF StoredEnds
  <2>3. QED
    BY <2>1, <2>2 DEF Drawn, WithKind
<1>3. QED
  BY <1>1, <1>2

LEMMA AskedSides ==
  ASSUME NEW hs \in Handles \X Handles, NEW ends \in {<<1, 2>>, <<2, 1>>},
         NEW kind \in Kinds, NEW at, NEW i \in 1..2, hs[i] # NoSide
  PROVE  HandleOf(Drawn(ends, hs, kind), ends[i], at) = hs[i]
<1>1. PICK link : link = Drawn(ends, hs, kind)
  OBVIOUS
<1>2. /\ link.source = 1
      /\ ends = <<1, 2>> => /\ link.source_handle = hs[1]
                            /\ link.target_handle = hs[2]
      /\ ends = <<2, 1>> => /\ link.source_handle = hs[2]
                            /\ link.target_handle = hs[1]
  BY <1>1, DrawnIs
<1>3. hs[i] \in Sides
  BY DEF Handles
<1>4. /\ link.source_handle \in Sides => sourceHandle(link, at) = link.source_handle
      /\ link.target_handle \in Sides => targetHandle(link, at) = link.target_handle
  BY DEF sourceHandle, targetHandle, visibleHandle
<1>5. i = 1 \/ i = 2
  OBVIOUS
<1>6. CASE ends = <<1, 2>>
  <2>1. ends[1] = 1 /\ ends[2] = 2
    BY <1>6
  <2>2. QED
    BY <1>1, <1>2, <1>3, <1>4, <1>5, <1>6, <2>1 DEF HandleOf
<1>7. CASE ends = <<2, 1>>
  <2>1. ends[1] = 2 /\ ends[2] = 1
    BY <1>7
  <2>2. QED
    BY <1>1, <1>2, <1>3, <1>4, <1>5, <1>7, <2>1 DEF HandleOf
<1>8. QED
  BY <1>6, <1>7

Told(hs, is, ends, others, at) ==
  LET local == Drawn(ends, hs, "local")
      virtual == Drawn(others, is, "virtual")
      links == {local, virtual}
  IN /\ (\A n \in 1..2 : HandleOf(local, n, at) = HandleOf(virtual, n, at)) =>
          parallelOffset(links, local, at) # parallelOffset(links, virtual, at)
     /\ \A i \in 1..2 : hs[i] # NoSide => HandleOf(local, ends[i], at) = hs[i]

(* The local and the virtual link of a pair of nodes, whichever way each    *)
(* was drawn, whatever sides each stores and wherever the nodes are: where  *)
(* both would be drawn over each other one is moved aside, and each leaves  *)
(* a node at the side that was asked for (toFlowEdges, create_link).        *)
THEOREM LinksStayTold ==
  \A hs, is \in Handles \X Handles, ends, others \in {<<1, 2>>, <<2, 1>>} :
    \A at : Told(hs, is, ends, others, at)
<1> SUFFICES ASSUME NEW hs \in Handles \X Handles, NEW is \in Handles \X Handles,
                    NEW ends \in {<<1, 2>>, <<2, 1>>},
                    NEW others \in {<<1, 2>>, <<2, 1>>}, NEW at
             PROVE  Told(hs, is, ends, others, at)
  OBVIOUS
<1>1. PICK local, virtual : /\ local = Drawn(ends, hs, "local")
                            /\ virtual = Drawn(others, is, "virtual")
  OBVIOUS
<1>2. /\ local.source = 1 /\ local.target = 2 /\ local.kind = "local"
      /\ virtual.source = 1 /\ virtual.target = 2 /\ virtual.kind = "virtual"
  <2>1. "local" \in Kinds /\ "virtual" \in Kinds
    BY DEF Kinds
  <2>2. QED
    BY <1>1, <2>1, DrawnIs
<1>3. ASSUME \A n \in 1..2 : HandleOf(local, n, at) = HandleOf(virtual, n, at)
      PROVE  parallelOffset({local, virtual}, local, at)
               # parallelOffset({local, virtual}, virtual, at)
  <2>1. sourceHandle(local, at) = sourceHandle(virtual, at)
    BY <1>2, <1>3 DEF HandleOf
  <2>2. targetHandle(local, at) = targetHandle(virtual, at)
    BY <1>2, <1>3 DEF HandleOf
  <2>3. attachmentKey(local, at) = attachmentKey(virtual, at)
    BY <1>2, <2>1, <2>2 DEF attachmentKey
  <2>4. local \in {local, virtual} \ {virtual}
    BY <1>2
  <2>5. parallelOffset({local, virtual}, virtual, at) = 28
    BY <1>2, <2>3, <2>4 DEF parallelOffset
  <2>6. parallelOffset({local, virtual}, local, at) = 0
    BY <1>2 DEF parallelOffset
  <2>7. QED
    BY <2>5, <2>6
<1>4. \A i \in 1..2 : hs[i] # NoSide => HandleOf(local, ends[i], at) = hs[i]
  BY <1>1, AskedSides DEF Kinds
<1>5. QED
  BY <1>1, <1>3, <1>4 DEF Told

(* What the canvas computes is sound whatever is shown: a drop is stable    *)
(* and fits, a link faces both of its nodes, and two links are told apart.  *)
THEOREM CanvasStaysSound == Spec => []CanvasIsSound
<1>1. DropIsStable
  BY GroupsAreApart, DropsArePlaces, DropsSettle DEF DropIsStable
<1>2. DropFits
  BY GroupsAreApart, DropsArePlaces, DropsFit DEF DropFits
<1>3. NearestHandlesFace
  <2>1. [x |-> 0, y |-> 0] \in Place
    BY DEF Place
  <2>2. QED
    BY <2>1, DropsArePlaces, HandlesFace DEF NearestHandlesFace
<1>4. LinksAreTold
  <2> SUFFICES ASSUME NEW p \in {[x |-> 300, y |-> 0], [x |-> 0, y |-> -200]},
                      NEW hs \in Handles \X Handles, NEW is \in Handles \X Handles,
                      NEW ends \in {<<1, 2>>, <<2, 1>>},
                      NEW others \in {<<1, 2>>, <<2, 1>>}
               PROVE  Told(hs, is, ends, others, <<[x |-> 0, y |-> 0], p>>)
    BY DEF LinksAreTold, Told, HandleOf, Drawn
  <2>1. QED
    BY LinksStayTold
<1>5. CanvasIsSound
  BY <1>1, <1>2, <1>3, <1>4 DEF CanvasIsSound
<1>6. QED
  BY <1>5, PTL
====
