----------------------------- MODULE CanvasGeometry -----------------------------
(***************************************************************************)
(* What the canvas computes from a snapshot (frontend/src/app/App.tsx):    *)
(* where a dropped node lands and in which group, at which sides of its    *)
(* nodes a link is drawn, and which links are drawn apart; with the order  *)
(* in which create_link (backend/app/api/routes.py) stores the ends.       *)
(*                                                                         *)
(* Coordinates are whole pixels.                                           *)
(***************************************************************************)
EXTENDS Integers, FiniteSets, Sequences, SequencesExt

NODE_WIDTH == 210
NODE_HEIGHT == 59
GROUP_PADDING == 16
GROUP_TITLE_HEIGHT == 38

Size(v) == IF v < 0 THEN -v ELSE v
AtLeast(v, bound) == IF v < bound THEN bound ELSE v
AtMost(v, bound) == IF v > bound THEN bound ELSE v

-----------------------------------------------------------------------------
(* Dropping a node. *)

(* The node's centre is in the group, below its title; in half pixels.      *)
CentreIn(group, p) ==
  /\ 2 * p.x + NODE_WIDTH \in 2 * group.x .. 2 * (group.x + group.width)
  /\ 2 * p.y + NODE_HEIGHT \in
       2 * (group.y + GROUP_TITLE_HEIGHT) .. 2 * (group.y + group.height)

Inside(group, p) ==
  [x |-> AtMost(AtLeast(p.x, group.x + GROUP_PADDING),
                group.x + group.width - NODE_WIDTH - GROUP_PADDING),
   y |-> AtMost(AtLeast(p.y, group.y + GROUP_TITLE_HEIGHT),
                group.y + group.height - NODE_HEIGHT - GROUP_PADDING)]

(* The first group that the centre is in takes the node. *)
groupDropPosition(groups, p) ==
  LET i == SelectInSeq(groups, LAMBDA group : CentreIn(group, p))
  IN [group |-> i, position |-> IF i = 0 THEN p ELSE Inside(groups[i], p)]

-----------------------------------------------------------------------------
(* Drawing links. *)

Sides == {"top", "right", "bottom", "left"}
NoSide == "none"

Opposite(side) ==
  CASE side = "top" -> "bottom" [] side = "bottom" -> "top"
    [] side = "left" -> "right" [] side = "right" -> "left"

(* Which side of a node at `from' faces a node at `to': the offsets are     *)
(* compared in widths and heights of a node.                                *)
nearestHandle(from, to) ==
  LET dx == to.x - from.x
      dy == to.y - from.y
  IN IF Size(dx) * NODE_HEIGHT >= Size(dy) * NODE_WIDTH
     THEN IF dx >= 0 THEN "right" ELSE "left"
     ELSE IF dy >= 0 THEN "bottom" ELSE "top"

visibleHandle(handle, fallback) == IF handle \in Sides THEN handle ELSE fallback

(* The sides at which a link is drawn; `at' are the positions of nodes.     *)
sourceHandle(link, at) ==
  visibleHandle(link.source_handle, nearestHandle(at[link.source], at[link.target]))
targetHandle(link, at) ==
  visibleHandle(link.target_handle, nearestHandle(at[link.target], at[link.source]))

StoredKey(link, at) ==
  <<link.source, link.source_handle, link.target, link.target_handle>>
attachmentKey(link, at) ==
  <<link.source, sourceHandle(link, at), link.target, targetHandle(link, at)>>

(* toFlowEdges *)
parallelOffset(links, link, at) ==
  IF /\ link.kind = "virtual"
     /\ \E other \in links \ {link} :
          attachmentKey(other, at) = attachmentKey(link, at)
  THEN 28 ELSE 0

(* create_link stores the ends in the order of their ids, each with the     *)
(* side that it was asked for.                                              *)
StoredEnds(source, target, handles) ==
  IF source < target
  THEN [source |-> source, target |-> target,
        source_handle |-> handles[1], target_handle |-> handles[2]]
  ELSE [source |-> target, target |-> source,
        source_handle |-> handles[2], target_handle |-> handles[1]]

Kinds == {"local", "virtual"}
WithKind(ends, kind) ==
  [source |-> ends.source, target |-> ends.target, kind |-> kind,
   source_handle |-> ends.source_handle, target_handle |-> ends.target_handle]

-----------------------------------------------------------------------------
(* Bounds: a group of the least size and a larger one that do not overlap,  *)
(* and the positions around the limits that the drop compares with; nodes   *)
(* around the diagonals of another.                                         *)

SomeGroups == <<[x |-> 0, y |-> 0, width |-> 260, height |-> 160],
                [x |-> 300, y |-> -40, width |-> 360, height |-> 240]>>
Edges(low, high, size, pad) ==
  UNION {(v - 2) .. (v + 2) :
           v \in {low + pad, high - size - pad, low - size \div 2,
                  high - size \div 2, low + 16, high - size - 16}}
SomeDrops ==
  {[x |-> x, y |-> y] :
     x \in Edges(0, 260, NODE_WIDTH, 0) \cup Edges(300, 660, NODE_WIDTH, 0),
     y \in Edges(0, 160, NODE_HEIGHT, GROUP_TITLE_HEIGHT)
             \cup Edges(-40, 200, NODE_HEIGHT, GROUP_TITLE_HEIGHT)}
SomeOffsets ==
  {[x |-> x, y |-> y] : x \in {-420, -210, -1, 0, 1, 210, 420},
                        y \in {-118, -59, -1, 0, 1, 59, 118}}
Handles == Sides \cup {NoSide}

-----------------------------------------------------------------------------
(* A node dropped where the canvas has just put it stays there, in the same *)
(* group: what is written is a fixed point, although the group is chosen by *)
(* the node's centre and the position is then moved.                        *)
DropIsStable ==
  \A p \in SomeDrops :
    LET drop == groupDropPosition(SomeGroups, p)
    IN groupDropPosition(SomeGroups, drop.position) = drop

(* A node dropped into a group of any allowed size is inside it, clear of   *)
(* the title.                                                               *)
DropFits ==
  \A p \in SomeDrops :
    LET drop == groupDropPosition(SomeGroups, p)
        group == SomeGroups[drop.group]
    IN drop.group # 0 =>
         /\ drop.position.x >= group.x
         /\ drop.position.x + NODE_WIDTH <= group.x + group.width
         /\ drop.position.y >= group.y + GROUP_TITLE_HEIGHT
         /\ drop.position.y + NODE_HEIGHT <= group.y + group.height

(* A link without stored sides leaves one node at the side that faces the   *)
(* other, and arrives at the opposite one; on the diagonals too.            *)
NearestHandlesFace ==
  \A p \in SomeOffsets :
    LET here == [x |-> 0, y |-> 0]
    IN p # here => nearestHandle(p, here) = Opposite(nearestHandle(here, p))

(* The two links that a pair of nodes may have, whatever sides each stores  *)
(* and in whichever direction each was drawn, are not drawn over each       *)
(* other, and each leaves a node at the side that was asked for.            *)
LinksAreTold ==
  \A p \in {[x |-> 300, y |-> 0], [x |-> 0, y |-> -200]},
     hs \in Handles \X Handles, is \in Handles \X Handles,
     ends \in {<<1, 2>>, <<2, 1>>}, others \in {<<1, 2>>, <<2, 1>>} :
    LET at == <<[x |-> 0, y |-> 0], p>>
        local == WithKind(StoredEnds(ends[1], ends[2], hs), "local")
        virtual == WithKind(StoredEnds(others[1], others[2], is), "virtual")
        links == {local, virtual}
        HandleAt(link, n) == IF link.source = n THEN sourceHandle(link, at)
                             ELSE targetHandle(link, at)
    IN /\ (\A n \in 1..2 : HandleAt(local, n) = HandleAt(virtual, n)) =>
            parallelOffset(links, local, at) # parallelOffset(links, virtual, at)
       /\ \A i \in 1..2 : hs[i] # NoSide => HandleAt(local, ends[i]) = hs[i]
=============================================================================
