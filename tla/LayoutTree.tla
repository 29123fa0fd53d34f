------------------------------ MODULE LayoutTree ------------------------------
(***************************************************************************)
(* The tree of splits and tiles of each workspace (core/src/layout.c): how *)
(* groups enter and leave it, how it becomes boxes on the screen, and what *)
(* looks at the boxes: focus and moves by direction, and the drag of a     *)
(* border.                                                                 *)
(*                                                                         *)
(* Nodes are heap objects that point at each other; a split that collapses *)
(* is freed and may be allocated again.  A leaf stands for its tile.  One  *)
(* output shows one of the workspaces.  Lengths are pixels; a ratio is an  *)
(* exact fraction, where the code has a double.  Every group has a mapped  *)
(* window; that the active group of the workspace shown is the one that    *)
(* commands are for, and which one follows a group that goes, is Desktop's.*)
(***************************************************************************)
EXTENDS Integers, FiniteSets, SequencesExt

CONSTANTS
    Groups, Leaves, Splits, Workspaces, None,
    Width, Height,      \* of the output
    Bars,               \* heights a panel may reserve at its top
    Gaps,               \* the gaps a policy may ask for, [outer, inner]
    Points,             \* where the pointer goes
    Drops,              \* where a group is dropped
    Chrome,             \* ONYRION_GROUP_CHROME_HEIGHT
    Initial, Step, Low, High,   \* ratios of the policy, [n, d]
    Slop                \* ONYRION_RESIZE_BORDER_SLOP

Nodes == Leaves \cup Splits
Directions == {"left", "right", "up", "down"}
Orientations == {"horizontal", "vertical"}
\* What a split may have, a fraction between 0 and 1.
Ratio == {r \in [n : Nat, d : Nat] : 0 < r.n /\ r.n < r.d}
SplitRecord == [first : Nodes, second : Nodes, orientation : Orientations, ratio : Ratio]
BorderRecord == [first : Groups, second : Groups, orientation : Orientations]

ASSUME LayoutAssumption ==
    /\ Leaves \cap Splits = {}
    /\ None \notin Nodes \cup Groups \cup Workspaces \cup SplitRecord \cup BorderRecord
    /\ IsFiniteSet(Nodes) /\ IsFiniteSet(Groups) /\ IsFiniteSet(Workspaces)
    /\ Cardinality(Groups) <= Cardinality(Leaves)
    /\ Cardinality(Groups) <= Cardinality(Splits)
    /\ Width \in Nat \ {0} /\ Height \in Nat \ {0}
    /\ Bars \subseteq 0 .. (Height - 1)
    /\ \A r \in {Initial, Low, High} : r \in Ratio
    /\ Step \in [n : Int, d : Nat \ {0}]
    /\ Gaps \subseteq [outer : Nat, inner : Nat]
    /\ Points \subseteq [x : Int, y : Int]
    /\ Chrome \in Nat

VARIABLES
    tree,      \* root of each workspace, parent of each node, the splits in use
    tile,      \* tile.group of each leaf in use
    tileOf,    \* group.tile
    list,      \* workspace.tiles
    home,      \* group.workspace of each group there is
    active,    \* workspace.active_group
    box,       \* tile.x .. tile.height
    told,      \* where the window of a tiled group was put
    visible,   \* the workspace shown
    bar, gap,  \* the panel, the policy
    drag       \* the border being dragged

vars == <<tree, tile, tileOf, list, home, active, box, told, visible, bar, gap, drag>>
screenVars == <<visible, bar, gap>>

Direction(d) == IF d \in {"left", "right"} THEN "horizontal" ELSE "vertical"
Live == {g \in Groups : home[g] # None}
Tiled == {g \in Groups : tileOf[g] # None}
\* Memory: which free node calloc returns makes no difference.
NewLeaf == CHOOSE l \in Leaves : tile[l] = None
NewSplit == CHOOSE s \in Splits : tree.split[s] = None

NoBox == [x |-> 0, y |-> 0, w |-> 0, h |-> 0]

Init ==
    /\ tree = [root |-> [w \in Workspaces |-> None], parent |-> [n \in Nodes |-> None],
               split |-> [s \in Splits |-> None]]
    /\ tile = [l \in Leaves |-> None] /\ tileOf = [g \in Groups |-> None]
    /\ list = [w \in Workspaces |-> <<>>]
    /\ home = [g \in Groups |-> None] /\ active = [w \in Workspaces |-> None]
    /\ box = [l \in Leaves |-> NoBox] /\ told = [g \in Groups |-> NoBox]
    /\ visible \in Workspaces /\ bar \in Bars /\ gap \in Gaps
    /\ drag = None

-----------------------------------------------------------------------------
\* The tree.

ReplaceNode(t, w, old, new) ==
    LET p == t.parent[old] IN
    IF p = None THEN [t EXCEPT !.parent[new] = None, !.root[w] = new]
    ELSE IF t.split[p].first = old
    THEN [t EXCEPT !.parent[new] = p, !.split[p].first = new]
    ELSE [t EXCEPT !.parent[new] = p, !.split[p].second = new]

Sibling(t, n) ==
    LET s == t.split[t.parent[n]] IN IF s.first = n THEN s.second ELSE s.first

\* The leaf n goes, and the split above it collapses into its sibling.
Detached(t, w, n) ==
    LET p == t.parent[n] IN
    IF p = None THEN [t EXCEPT !.root[w] = None]
    ELSE [ReplaceNode(t, w, p, Sibling(t, n)) EXCEPT
             !.split[p] = None, !.parent[p] = None, !.parent[n] = None]

\* Mutant: the anchor goes on pointing at what was above it.
AttachedLoose(t, w, s, anchor, n, o, nFirst) ==
    [ReplaceNode(t, w, anchor, s) EXCEPT
        !.split[s] = [first |-> IF nFirst THEN n ELSE anchor,
                      second |-> IF nFirst THEN anchor ELSE n,
                      orientation |-> o, ratio |-> Initial],
        !.parent[n] = s]

\* The split s takes the place of the leaf anchor and holds it and n.
Attached(t, w, s, anchor, n, o, nFirst) ==
    [ReplaceNode(t, w, anchor, s) EXCEPT
        !.split[s] = [first |-> IF nFirst THEN n ELSE anchor,
                      second |-> IF nFirst THEN anchor ELSE n,
                      orientation |-> o, ratio |-> Initial],
        !.parent[anchor] = s, !.parent[n] = s]

Planted(t, w, n) == [t EXCEPT !.root[w] = n]

\* find_anchor_tile
Anchor(w) ==
    IF active[w] # None /\ tileOf[active[w]] # None THEN tileOf[active[w]]
    ELSE list[w][Len(list[w])]

LeavesUnder(t, n) ==
    LET under[m \in Nodes] ==
            IF m \in Leaves THEN {m} ELSE IF t.split[m] = None THEN {}
            ELSE under[t.split[m].first] \cup under[t.split[m].second]
    IN IF n = None THEN {} ELSE under[n]

\* The first of the splits S on the way from n to the root.
NearestAbove(n, S) ==
    LET above[m \in Nodes] ==
            LET p == tree.parent[m] IN IF p = None \/ p \in S THEN p ELSE above[p]
    IN above[n]

Depth(n) ==
    LET depth[m \in Nodes] ==
            LET p == tree.parent[m] IN IF p = None THEN 0 ELSE depth[p] + 1
    IN depth[n]

-----------------------------------------------------------------------------
\* Boxes.

Below(p, q) == p.n * q.d < q.n * p.d   \* fractions
Least(a, b) == IF a < b THEN a ELSE b
Most(a, b) == IF a > b THEN a ELSE b
Span(b, o) == IF o = "horizontal" THEN b.w ELSE b.h
From(b, o) == IF o = "horizontal" THEN b.x ELSE b.y
Part(b, o, from, len) ==
    IF o = "horizontal" THEN [b EXCEPT !.x = @ + from, !.w = len]
                        ELSE [b EXCEPT !.y = @ + from, !.h = len]

BoundedGap(wanted, span) == IF wanted <= 0 \/ span <= 2 THEN 0 ELSE Least(wanted, span - 2)

Inset(b, outer) ==
    IF outer <= 0 \/ b.w <= 1 \/ b.h <= 1 THEN b
    ELSE LET ix == Least(outer, (b.w - 1) \div 2)
             iy == Least(outer, (b.h - 1) \div 2)
         IN [x |-> b.x + ix, y |-> b.y + iy, w |-> b.w - 2 * ix, h |-> b.h - 2 * iy]

\* arrange_output: of all layer surfaces one panel reserves its zone, at the top.
Usable(thick) == [x |-> 0, y |-> thick, w |-> Width, h |-> Height - thick]

\* onyrion_group_content_box: the window of a group is under the tab bar, and
\* keeps a pixel.
Content(b) ==
    LET top == IF Chrome >= b.h THEN b.h - 1 ELSE Chrome
    IN [b EXCEPT !.y = @ + top, !.h = @ - top]

\* onyrion_group_box
GroupBox(boxes, l) == IF l \in DOMAIN boxes /\ boxes[l].w > 0 /\ boxes[l].h > 0 THEN boxes[l] ELSE NoBox

\* What the split s gives of its box b to its first or to its second node.
Share(s, b, inner, isFirst) ==
    LET o == s.orientation
        g == BoundedGap(inner, Span(b, o))
        available == Span(b, o) - g
        cut == (available * s.ratio.n) \div s.ratio.d
        first == IF available > 1 THEN Least(Most(cut, 1), available - 1) ELSE cut
    IN IF isFirst THEN Part(b, o, 0, first) ELSE Part(b, o, first + g, available - first)

\* layout_node: the box of the node n when the roots have the area.
LayoutNode(t, n, area, inner) ==
    LET given[m \in Nodes] ==
            LET p == t.parent[m] IN
            IF p = None THEN area
            ELSE Share(t.split[p], given[p], inner, t.split[p].first = m)
    IN given[n]

\* onyrion_layout_apply_group of every group in the boxes.
Applied(boxes, tl) ==
    [g \in Groups |->
        IF ~\E l \in Leaves : tl[l] = g THEN NoBox
        ELSE LET b == GroupBox(boxes, CHOOSE l \in Leaves : tl[l] = g)
             IN IF b = NoBox THEN told[g] ELSE Content(b)]

\* onyrion_layout_reflow_workspace of the workspaces ws, once the tree is t, the
\* leaves hold tl, and the screen is as given.
ReflowWith(ws, t, tl, thick, policy) ==
    LET area == Inset(Usable(thick), policy.outer)
        laid == UNION {LeavesUnder(t, t.root[w]) : w \in ws}
        boxes == [l \in laid |-> LayoutNode(t, l, area, policy.inner)]
    IN /\ box' = [l \in Leaves |-> IF tl[l] = None THEN NoBox
                                   ELSE IF l \in DOMAIN boxes THEN boxes[l] ELSE box[l]]
       /\ told' = Applied(boxes, tl)

Reflow(ws, t, tl) == ReflowWith(ws, t, tl, bar, gap)

-----------------------------------------------------------------------------
\* Groups enter, leave and move.

\* onyrion_layout_add_group: the group g of the workspace w gets a tile.
Enter(g, w, o) ==
    /\ tile' = [tile EXCEPT ![NewLeaf] = g] /\ tileOf' = [tileOf EXCEPT ![g] = NewLeaf]
    /\ list' = [list EXCEPT ![w] = Append(@, NewLeaf)]
    /\ tree' = IF tree.root[w] = None THEN Planted(tree, w, NewLeaf)
               ELSE Attached(tree, w, NewSplit, Anchor(w), NewLeaf, o, FALSE)
    /\ Reflow({w}, tree', tile')

\* onyrion_layout_remove_group
Leave(g, w) ==
    LET l == tileOf[g] IN
    /\ tree' = Detached(tree, w, l)
    /\ tile' = [tile EXCEPT ![l] = None] /\ tileOf' = [tileOf EXCEPT ![g] = None]
    /\ list' = [list EXCEPT ![w] = RemoveFirst(@, l)]
    /\ Reflow({w}, tree', tile')

\* A window maps in a group of its own, or leaves a group of several
\* (onyrion_layout_split_active).
AddGroup(g, o) ==
    /\ home[g] = None /\ (drag # None => g \notin {drag.first, drag.second})
    /\ home' = [home EXCEPT ![g] = visible]
    /\ active' = [active EXCEPT ![visible] = g]
    /\ Enter(g, visible, o)
    /\ UNCHANGED <<screenVars, drag>>

\* The workspace w is left by g, and one of the others becomes its active group.
OthersOf(w, g) == {h \in Live \ {g} : home[h] = w}
Successor(w, g, a) ==
    IF active[w] # g THEN a = active[w]
    ELSE IF OthersOf(w, g) = {} THEN a = None ELSE a \in OthersOf(w, g)

DestroyGroup(g) ==
    /\ home[g] # None
    /\ home' = [home EXCEPT ![g] = None]
    /\ \E a \in Groups \cup {None} :
        Successor(home[g], g, a) /\ active' = [active EXCEPT ![home[g]] = a]
    /\ IF tileOf[g] # None THEN Leave(g, home[g])
                           ELSE UNCHANGED <<tree, tile, tileOf, list, box, told>>
    /\ UNCHANGED <<screenVars, drag>>

FloatGroup(g) ==
    /\ tileOf[g] # None
    /\ Leave(g, home[g])
    /\ active' = [active EXCEPT ![home[g]] = g]
    /\ UNCHANGED <<home, screenVars, drag>>

TileGroup(g) ==
    /\ home[g] # None /\ tileOf[g] = None
    /\ Enter(g, home[g], "horizontal")
    /\ active' = [active EXCEPT ![home[g]] = g]
    /\ UNCHANGED <<home, screenVars, drag>>

\* A window of the workspace shown is focused.
FocusGroup(g) ==
    /\ home[g] = visible /\ active[visible] # g
    /\ active' = [active EXCEPT ![visible] = g]
    /\ UNCHANGED <<tree, tile, tileOf, list, home, box, told, screenVars, drag>>

\* onyrion_layout_move_group_to_workspace and what its caller does
\* (onyrion_group_move_to_workspace_id).
MoveToWorkspace(g, w) ==
    /\ tileOf[g] # None /\ home[g] # w
    /\ LET l == tileOf[g]
           from == home[g]
           out == Detached(tree, from, l)
       IN /\ tree' = IF tree.root[w] = None THEN Planted(out, w, l)
                     ELSE Attached(out, w, NewSplit, Anchor(w), l, "horizontal", FALSE)
          /\ list' = [list EXCEPT ![from] = RemoveFirst(@, l), ![w] = Append(@, l)]
          /\ home' = [home EXCEPT ![g] = w]
          /\ \E a \in Groups \cup {None} :
                /\ Successor(from, g, a)
                /\ active' = [active EXCEPT ![from] = a, ![w] = IF @ = None THEN g ELSE @]
          /\ Reflow({from, w}, tree', tile)
    /\ UNCHANGED <<tile, tileOf, screenVars, drag>>

\* onyrion_layout_move_group_relative
MoveRelative(g, target, d) ==
    /\ g # target /\ home[g] = home[target]
    /\ tileOf[g] # None /\ tileOf[target] # None
    /\ LET w == home[g]
           out == Detached(tree, w, tileOf[g])
       IN /\ tree' = Attached(out, w, NewSplit, tileOf[target], tileOf[g], Direction(d),
                              d \in {"left", "up"})
          /\ Reflow({w}, tree', tile)
    /\ UNCHANGED <<tile, tileOf, list, home, active, screenVars, drag>>

\* layout_drop_target_at_cursor: within a quarter of the tile from the nearest
\* edge, and not on the tab bar, the drop goes beside the tile.
EdgeAt(b, p) ==
    LET part == [left |-> [n |-> p.x - b.x, d |-> b.w], right |-> [n |-> b.x + b.w - p.x, d |-> b.w],
                 up |-> [n |-> p.y - b.y, d |-> b.h], down |-> [n |-> b.y + b.h - p.y, d |-> b.h]]
        order == <<"left", "right", "up", "down">>
        near == {i \in 1..4 : 4 * part[order[i]].n < part[order[i]].d}
    IN IF near = {} THEN None
       ELSE order[CHOOSE i \in near : \A j \in near :
                \/ Below(part[order[i]], part[order[j]])
                \/ ~Below(part[order[j]], part[order[i]]) /\ i <= j]

Inside(b, p) == p.x \in b.x .. (b.x + b.w - 1) /\ p.y \in b.y .. (b.y + b.h - 1)

\* A tab bar shown at p; one of a floating group may be in the way as well.
OnChrome(p) ==
    \E g \in Tiled : home[g] = visible /\ Inside(box[tileOf[g]], p) /\ p.y < told[g].y

\* The tiles of hidden workspaces are looked at too; which group comes first
\* depends on their age.
DropTargets(p) ==
    IF OnChrome(p) THEN {} ELSE {h \in Tiled : Inside(box[tileOf[h]], p)}

\* handle_cursor_button: the group g is dropped at p.
DropGroup(g, p) ==
    \E h \in DropTargets(p) :
        LET d == EdgeAt(box[tileOf[h]], p) IN d # None /\ MoveRelative(g, h, d)

-----------------------------------------------------------------------------
\* Commands that go in a direction, for the active group.

Source == IF active[visible] = None THEN None ELSE tileOf[active[visible]]

Abs(n) == IF n < 0 THEN -n ELSE n

End(b, o) == From(b, o) + Span(b, o)
Middle(b, o) == 2 * From(b, o) + Span(b, o)
Across(o) == IF o = "horizontal" THEN "vertical" ELSE "horizontal"
Overlap(b, c, o) == Least(End(b, o), End(c, o)) - Most(From(b, o), From(c, o))

Ahead(b, c, d) ==
    LET o == Direction(d) IN
    IF d \in {"left", "up"} THEN Middle(c, o) < Middle(b, o) ELSE Middle(c, o) > Middle(b, o)

\* How far the box c lies from b in the direction d: whether off its lane, then
\* the distance of the edges, of the centres across and of the centres along.

Rank(b, c, d) ==
    LET o == Direction(d) IN
    <<IF Overlap(b, c, Across(o)) > 0 THEN 0 ELSE 1,
      Most(0, IF d \in {"left", "up"} THEN From(b, o) - End(c, o) ELSE From(c, o) - End(b, o)),
      Abs(Middle(c, Across(o)) - Middle(b, Across(o))),
      Abs(Middle(c, o) - Middle(b, o))>>

Before(r, q) == \E i \in 1..4 : r[i] < q[i] /\ \A j \in 1..(i - 1) : r[j] = q[j]

\* Mutant: what the best so far is like is not kept.
DirectionalLast(source, w, d) ==
    LET seen == {i \in DOMAIN list[w] : list[w][i] # source /\ Ahead(box[source], box[list[w][i]], d)}
    IN IF seen = {} THEN None ELSE list[w][CHOOSE i \in seen : \A j \in seen : i >= j]

\* find_directional_tile: the first of the best, in the order of the list.
Directional(source, w, d) ==
    LET seen == {i \in DOMAIN list[w] : list[w][i] # source /\ Ahead(box[source], box[list[w][i]], d)}
        R(i) == Rank(box[source], box[list[w][i]], d)
    IN IF seen = {} THEN None
       ELSE list[w][CHOOSE i \in seen :
                \A j \in seen \ {i} : Before(R(i), R(j)) \/ (R(i) = R(j) /\ i < j)]

FocusDirection(d) ==
    /\ Source # None
    /\ LET target == Directional(Source, visible, d) IN
        target # None /\ active' = [active EXCEPT ![visible] = tile[target]]
    /\ UNCHANGED <<tree, tile, tileOf, list, home, box, told, screenVars, drag>>

\* Two groups exchange their tiles.
SwapDirection(d) ==
    /\ Source # None
    /\ LET target == Directional(Source, visible, d)
           g == tile[Source]
           h == tile[target]
       IN /\ target # None
          /\ tile' = [tile EXCEPT ![Source] = h, ![target] = g]
          /\ tileOf' = [tileOf EXCEPT ![h] = Source, ![g] = target]
          /\ told' = [told EXCEPT ![h] = Content(box[Source]), ![g] = Content(box[target])]
    /\ UNCHANGED <<tree, list, home, active, box, screenVars, drag>>

FlipActiveSplit ==
    /\ Source # None /\ tree.parent[Source] # None
    /\ tree' = [tree EXCEPT !.split[tree.parent[Source]].orientation =
                    Across(@)]
    /\ Reflow({visible}, tree', tile)
    /\ UNCHANGED <<tile, tileOf, list, home, active, screenVars, drag>>

-----------------------------------------------------------------------------
\* Ratios.

\* A fraction in its lowest terms, for a double has one form of each.
Divides(k, n) == n % k = 0
Divisor(n, d) ==
    CHOOSE k \in 1 .. d : /\ Divides(k, n) /\ Divides(k, d)
                          /\ \A j \in (k + 1) .. d : ~(Divides(j, n) /\ Divides(j, d))
Fraction(n, d) == LET k == Divisor(n, d) IN [n |-> n \div k, d |-> d \div k]

Clamp(r) == IF Below(r, Low) THEN Low ELSE IF Below(High, r) THEN High ELSE r
Stepped(r, sign) ==
    LET n == r.n * Step.d + sign * Step.n * r.d IN
    IF n <= 0 THEN Low ELSE Clamp(Fraction(n, r.d * Step.d))

\* find_resize_split
Turned(o) == {s \in Splits : tree.split[s] # None /\ tree.split[s].orientation = o}
ResizeSplit(l, o) == NearestAbove(l, Turned(o))

\* Nothing is laid out for a ratio that is the same.
SetRatio(s, r) ==
    IF r = tree.split[s].ratio THEN UNCHANGED <<tree, box, told>>
    ELSE /\ tree' = [tree EXCEPT !.split[s].ratio = r]
         /\ Reflow({home[tile[l]] : l \in LeavesUnder(tree, s)}, tree', tile)

\* onyrion_layout_resize_direction
ResizeDirection(d) ==
    /\ Source # None
    /\ LET s == ResizeSplit(Source, Direction(d))
           grow == d \in {"right", "down"}
       IN /\ s # None
          /\ LET r == tree.split[s].ratio IN
             /\ IF grow THEN Below(r, High) ELSE Below(Low, r)
             /\ SetRatio(s, Stepped(r, IF grow THEN 1 ELSE -1))
    /\ UNCHANGED <<tile, tileOf, list, home, active, screenVars, drag>>

-----------------------------------------------------------------------------
\* The drag of a border.  It is held by the groups on its two sides, and looked
\* for again whenever the pointer moves.

\* layout_node_bounds
Bounds(n) ==
    LET ls == LeavesUnder(tree, n)
        Side(S) == CHOOSE e \in S : \A f \in S : e <= f
        Far(S) == CHOOSE e \in S : \A f \in S : e >= f
        left == Side({box[l].x : l \in ls})
        top == Side({box[l].y : l \in ls})
    IN [x |-> left, y |-> top,
        w |-> Far({box[l].x + box[l].w : l \in ls}) - left,
        h |-> Far({box[l].y + box[l].h : l \in ls}) - top]

HasBounds(n) == \A l \in LeavesUnder(tree, n) : box[l].w > 0 /\ box[l].h > 0

\* first_group_id_in_node
FirstGroup(n) ==
    LET group[m \in Nodes] ==
            IF m \in Leaves THEN tile[m]
            ELSE IF tree.split[m] = None THEN None ELSE group[tree.split[m].first]
    IN group[n]

Target(s) ==
    [first |-> FirstGroup(tree.split[s].first), second |-> FirstGroup(tree.split[s].second),
     orientation |-> tree.split[s].orientation]

\* Twice where the border of s is, and twice how far p is from it.
Border(s) ==
    LET o == tree.split[s].orientation
        b == Bounds(tree.split[s].first)
    IN From(b, o) + Span(b, o) + From(Bounds(tree.split[s].second), o)

Distance(s, p) ==
    Abs((IF tree.split[s].orientation = "horizontal" THEN 2 * p.x ELSE 2 * p.y) - Border(s))

InSpan(s, p) ==
    LET b == Bounds(s) IN
    IF tree.split[s].orientation = "horizontal" THEN p.y \in b.y .. (b.y + b.h - 1)
                                               ELSE p.x \in b.x .. (b.x + b.w - 1)

\* onyrion_layout_resize_border_at: the nearest border within reach, the deeper
\* of two.
BorderAt(p, s) ==
    LET root == tree.root[visible]
        near == {c \in Splits : /\ tree.split[c] # None
                                /\ LeavesUnder(tree, c) \subseteq LeavesUnder(tree, root)
                                /\ HasBounds(c) /\ InSpan(c, p) /\ Distance(c, p) <= 2 * Slop}
    IN /\ s \in near
       /\ \A c \in near :
            \/ Distance(s, p) < Distance(c, p)
            \/ /\ Distance(s, p) = Distance(c, p)
               /\ Depth(s) >= Depth(c)

BeginBorderDrag(p) ==
    /\ drag = None
    /\ \E s \in Splits : BorderAt(p, s) /\ drag' = Target(s)
    /\ UNCHANGED <<tree, tile, tileOf, list, home, active, box, told, screenVars>>

\* onyrion_layout_resize_active_target_at: the border on the side of the tile
\* the pointer is nearer to, or on the other side.
BeginActiveDrag(p) ==
    /\ drag = None
    /\ Source # None /\ HasBounds(Source)
    /\ LET b == box[Source]
           dx == Abs(2 * p.x - 2 * b.x - b.w)
           dy == Abs(2 * p.y - 2 * b.y - b.h)
           o == IF dx * b.h >= dy * b.w THEN "horizontal" ELSE "vertical"
           s == IF ResizeSplit(Source, o) # None THEN ResizeSplit(Source, o)
                                                 ELSE ResizeSplit(Source, Across(o))
       IN s # None /\ drag' = Target(s)
    /\ UNCHANGED <<tree, tile, tileOf, list, home, active, box, told, screenVars>>

\* resolve_resize_target
Resolve(t) ==
    IF \E g \in {t.first, t.second} : tileOf[g] = None \/ home[g] # home[t.first] THEN None
    ELSE NearestAbove(tileOf[t.first],
             {s \in Turned(t.orientation) :
                 /\ tileOf[t.first] \in LeavesUnder(tree, tree.split[s].first)
                 /\ tileOf[t.second] \in LeavesUnder(tree, tree.split[s].second)})

\* onyrion_layout_resize_target_to_position
RatioAt(s, p) ==
    LET o == tree.split[s].orientation
        f == Bounds(tree.split[s].first)
        c == Bounds(tree.split[s].second)
        gapHere == From(c, o) - From(f, o) - Span(f, o)
        n == 2 * (IF o = "horizontal" THEN p.x ELSE p.y) - 2 * From(f, o) - gapHere
        d == 2 * (Span(f, o) + Span(c, o))
    IN IF n <= 0 THEN Low ELSE Clamp(Fraction(n, d))

\* process_cursor_motion: a drag whose border is not found any more ends.
DragTo(p) ==
    /\ drag # None
    /\ LET s == Resolve(drag) IN
       IF s = None \/ ~HasBounds(s)
       THEN drag' = None /\ UNCHANGED <<tree, box, told>>
       ELSE SetRatio(s, RatioAt(s, p)) /\ UNCHANGED drag
    /\ UNCHANGED <<tile, tileOf, list, home, active, screenVars>>

EndDrag ==
    /\ drag # None /\ drag' = None
    /\ UNCHANGED <<tree, tile, tileOf, list, home, active, box, told, screenVars>>

-----------------------------------------------------------------------------
\* The screen.

\* Mutant: a workspace is shown as it was left.
ShowAsLeft(w) ==
    /\ w # visible /\ visible' = w
    /\ UNCHANGED <<tree, tile, tileOf, list, home, active, box, told, bar, gap, drag>>

\* switch_output_workspace
Show(w) ==
    /\ w # visible /\ visible' = w
    /\ Reflow({w}, tree, tile)
    /\ UNCHANGED <<tree, tile, tileOf, list, home, active, bar, gap, drag>>

\* onyrion_layer_shell_arrange, when a panel comes, goes or changes, and the
\* reflow if that changed what the output has left.
Arrange(thick) ==
    /\ Usable(thick) # Usable(bar) /\ bar' = thick
    /\ ReflowWith({visible}, tree, tile, thick, gap)
    /\ UNCHANGED <<tree, tile, tileOf, list, home, active, visible, gap, drag>>

\* handle_reload_timer
PolicyReload(policy) ==
    /\ policy # gap /\ gap' = policy
    /\ ReflowWith({visible}, tree, tile, bar, policy)
    /\ UNCHANGED <<tree, tile, tileOf, list, home, active, visible, bar, drag>>

-----------------------------------------------------------------------------
Next ==
    \/ \E g \in Groups :
        \/ \E o \in Orientations : AddGroup(g, o)
        \/ DestroyGroup(g) \/ FloatGroup(g) \/ TileGroup(g) \/ FocusGroup(g)
        \/ \E w \in Workspaces : MoveToWorkspace(g, w)
        \/ \E p \in Drops : DropGroup(g, p)
    \/ \E d \in Directions : FocusDirection(d) \/ SwapDirection(d) \/ ResizeDirection(d)
    \/ FlipActiveSplit
    \/ \E p \in Points : BeginBorderDrag(p) \/ BeginActiveDrag(p) \/ DragTo(p)
    \/ EndDrag
    \/ \E w \in Workspaces : Show(w)
    \/ \E thick \in Bars : Arrange(thick)
    \/ \E policy \in Gaps : PolicyReload(policy)

Spec == Init /\ [][Next]_vars

-----------------------------------------------------------------------------
(* Properties.                                                             *)

Used == {l \in Leaves : tile[l] # None} \cup {s \in Splits : tree.split[s] # None}

(* The nodes in use of a workspace are one tree whose leaves are its tiles,   *)
(* each in its list once: a node and the split above it point at each other,  *)
(* a split holds two nodes, and a tiled group and its tile point at each      *)
(* other (replace_node, create_tile_leaf and the moves).                      *)
TreesSound ==
    /\ \A n \in Used :
        LET p == tree.parent[n] IN
        IF p = None THEN \E w \in Workspaces : tree.root[w] = n
        ELSE p \in Used /\ n \in {tree.split[p].first, tree.split[p].second}
    /\ \A s \in Splits \cap Used :
        /\ tree.split[s].first # tree.split[s].second
        /\ \A n \in {tree.split[s].first, tree.split[s].second} : n \in Used /\ tree.parent[n] = s
    /\ \A n \in Nodes \ Used : tree.parent[n] = None
    /\ \A g \in Tiled : home[g] # None /\ tile[tileOf[g]] = g
    /\ \A l \in Leaves \cap Used : tileOf[tile[l]] = l
    /\ \A w \in Workspaces :
        /\ LeavesUnder(tree, tree.root[w]) = {tileOf[g] : g \in {h \in Tiled : home[h] = w}}
        /\ ToSet(list[w]) = LeavesUnder(tree, tree.root[w])
        /\ IsInjective(list[w])

Shown == {tileOf[g] : g \in {h \in Tiled : home[h] = visible}}

Apart(b, c) == b.x + b.w <= c.x \/ c.x + c.w <= b.x \/ b.y + b.h <= c.y \/ c.y + c.h <= b.y

(* The windows shown do not overlap, keep the policy's distance to the edge   *)
(* and out of the panel, and are where their tiles are, whatever happened     *)
(* while their workspace was hidden (onyrion_layout_reflow_workspace).        *)
TilesFit ==
    LET area == Inset(Usable(bar), gap.outer) IN
    /\ \A l \in Shown :
        /\ told[tile[l]] = Content(box[l])
        /\ box[l].w > 0 /\ box[l].h > 0
        /\ box[l].x >= area.x /\ box[l].x + box[l].w <= area.x + area.w
        /\ box[l].y >= area.y /\ box[l].y + box[l].h <= area.y + area.h
    /\ \A l, k \in Shown : l # k => Apart(box[l], box[k])

Steps(from) == {Directional(from, visible, d) : d \in Directions} \ {None}

(* Every tile shown can be reached from every other by moving the focus in    *)
(* the four directions (find_directional_tile).                               *)
Reachable ==
    LET reached[ls \in SUBSET Shown] ==
            LET more == ls \cup UNION {Steps(l) : l \in ls}
            IN IF more = ls THEN ls ELSE reached[more]
    IN \A l \in Shown : reached[{l}] = Shown

\* The split that has g on one side and h on the other.
Between(g, h) ==
    CHOOSE s \in Splits \cap Used :
        \/ /\ tileOf[g] \in LeavesUnder(tree, tree.split[s].first)
           /\ tileOf[h] \in LeavesUnder(tree, tree.split[s].second)
        \/ /\ tileOf[h] \in LeavesUnder(tree, tree.split[s].first)
           /\ tileOf[g] \in LeavesUnder(tree, tree.split[s].second)

(* While a border is dragged, whatever became of the tree meanwhile, it is    *)
(* the border between the two groups it was taken between that goes to the    *)
(* pointer, within a pixel or as far as the policy lets it; or the drag ends. *)
(* Of a workspace that is hidden meanwhile the boxes may be out of date       *)
(* (onyrion_layout_resize_target_to_position).                                *)
BorderFollows ==
    [][\A p \in Points :
        drag # None /\ drag' = drag /\ home[drag.first] = visible /\ DragTo(p) =>
            LET s == Between(drag.first, drag.second) IN
            tree'.split[s].ratio \in {Low, High} \/ Distance(s, p)' <= 2]_vars
=============================================================================
