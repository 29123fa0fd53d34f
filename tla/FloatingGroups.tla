---------------------------- MODULE FloatingGroups ----------------------------
(***************************************************************************)
(* The floating groups beside the tree: where they are put, and the move   *)
(* and the resize of one by the pointer (core/src/window.c, group.c).  A   *)
(* motion starts again from the box at the press; the panel, the limits of *)
(* the client and the group may have changed since.                        *)
(***************************************************************************)
EXTENDS LayoutTree

CONSTANTS
    MinSize,    \* ONYRION_FLOATING_MIN_SIZE
    Limits,     \* what a client may ask for, [min, max] for both axes; 0: no limit
    NoLimits,   \* what it asks for at first
    EdgeSets,   \* the edges a resize may drag
    Deltas      \* how far the pointer goes along an axis

ASSUME FloatingAssumption ==
    /\ MinSize \in Nat \ {0} /\ NoLimits \in Limits /\ None \notin EdgeSets
    /\ \A l \in Limits : l.min \in Nat /\ l.max \in Nat /\ (l.max = 0 \/ l.min <= l.max)
    /\ \A e \in EdgeSets :
        e \subseteq Directions /\ ~{"left", "right"} \subseteq e /\ ~{"up", "down"} \subseteq e

VARIABLES
    place,    \* group.floating_x .. floating_height
    limits,   \* toplevel->current of the window of the group
    grab      \* @OnyrionWindowInteraction: the group, its box at the press, the
              \* edges of a resize, none of a move

floatVars == <<place, limits, grab>>

Floating(g) == home[g] # None /\ tileOf[g] = None
Clamped(v, least, most) == IF v < least THEN least ELSE IF v > most THEN most ELSE v

FloatingInit ==
    /\ Init
    /\ place = [g \in Groups |-> NoBox]
    /\ limits = [g \in Groups |-> NoLimits]
    /\ grab = None

-----------------------------------------------------------------------------
\* Boxes.

\* floating_default_box: two thirds of what the panel leaves, in the middle.
DefaultBox ==
    LET a == Usable(bar)
        TwoThirds(span) == IF span > 1 THEN (span * 2) \div 3 ELSE span
        w == TwoThirds(a.w)
        h == TwoThirds(a.h)
    IN [x |-> a.x + (a.w - w) \div 2, y |-> a.y + (a.h - h) \div 2, w |-> w, h |-> h]

\* floating_size_constraints, of the window along an axis.
Constraints(l, span) ==
    LET most == IF l.max > 0 THEN Least(l.max, span) ELSE span
    IN [min |-> Least(Most(MinSize, l.min), most), max |-> most]

\* onyrion_group_content_overhead: of the group, with the tab bar.
Overhead(o) == IF o = "vertical" THEN Chrome ELSE 0

SizeRange(g, o) ==
    LET span == Span(Usable(bar), o)
        c == Constraints(limits[g], span)
    IN [min |-> Least(c.min + Overhead(o), span), max |-> Least(c.max + Overhead(o), span)]

\* onyrion_window_set_floating_geometry along an axis: first the size, then the
\* place.
Settle(g, o, from, len) ==
    LET size == Clamped(len, SizeRange(g, o).min, SizeRange(g, o).max)
    IN [from |-> Clamped(from, From(Usable(bar), o), End(Usable(bar), o) - size), len |-> size]

SetFloatingGeometry(g, b) ==
    LET x == Settle(g, "horizontal", b.x, b.w)
        y == Settle(g, "vertical", b.y, b.h)
    IN place' = [place EXCEPT ![g] = [x |-> x.from, y |-> y.from, w |-> x.len, h |-> y.len]]

\* Mutant: the near edge may be dragged past the least size.
DraggedFar(g, o, b, edges, d) ==
    LET near == IF o = "horizontal" THEN "left" ELSE "up"
        far == IF o = "horizontal" THEN "right" ELSE "down"
        a == Usable(bar)
        r == SizeRange(g, o)
    IN [from |-> IF near \in edges
                 THEN Most(From(b, o) + d, Most(End(b, o) - r.max, From(a, o)))
                 ELSE From(b, o),
        to |-> IF far \in edges
               THEN Clamped(End(b, o) + d, From(b, o) + r.min,
                            Least(From(b, o) + r.max, End(a, o)))
               ELSE End(b, o)]

\* onyrion_window_resize_floating_from_edges along an axis.
Dragged(g, o, b, edges, d) ==
    LET near == IF o = "horizontal" THEN "left" ELSE "up"
        far == IF o = "horizontal" THEN "right" ELSE "down"
        a == Usable(bar)
        r == SizeRange(g, o)
    IN [from |-> IF near \in edges
                 THEN Clamped(From(b, o) + d, Most(End(b, o) - r.max, From(a, o)),
                              End(b, o) - r.min)
                 ELSE From(b, o),
        to |-> IF far \in edges
               THEN Clamped(End(b, o) + d, From(b, o) + r.min,
                            Least(From(b, o) + r.max, End(a, o)))
               ELSE End(b, o)]

\* The box that is asked for when the pointer has gone dx and dy since the press.
Wanted(dx, dy) ==
    LET b == grab.box
        x == Dragged(grab.group, "horizontal", b, grab.edges, dx)
        y == Dragged(grab.group, "vertical", b, grab.edges, dy)
    IN IF grab.edges = {} THEN [b EXCEPT !.x = @ + dx, !.y = @ + dy]
       ELSE [x |-> x.from, y |-> y.from, w |-> x.to - x.from, h |-> y.to - y.from]

-----------------------------------------------------------------------------
\* What happens to the tree, and to the windows of the groups in it.

TreeStep ==
    /\ Next
    /\ place' = [g \in Groups |->
                    IF home'[g] = None \/ tileOf'[g] # None THEN NoBox
                    ELSE IF tileOf[g] # None THEN DefaultBox ELSE place[g]]
    /\ limits' = [g \in Groups |-> IF home'[g] = None THEN NoLimits ELSE limits[g]]
    /\ grab' = IF grab # None /\ home'[grab.group] = None THEN None ELSE grab

\* The client commits new limits; nothing is moved.
LimitsChange(g, l) ==
    /\ home[g] # None /\ l # limits[g]
    /\ limits' = [limits EXCEPT ![g] = l]
    /\ UNCHANGED <<vars, place, grab>>

\* begin_window_interaction
BeginGrab(g, edges) ==
    /\ grab = None /\ drag = None
    /\ Floating(g) /\ home[g] = visible
    /\ grab' = [group |-> g, box |-> place[g], edges |-> edges]
    /\ active' = [active EXCEPT ![visible] = g]
    /\ UNCHANGED <<tree, tile, tileOf, list, home, box, told, visible, bar, gap, drag,
                   place, limits>>

\* process_cursor_motion: a group that was tiled, or a drag that would turn the
\* box inside out, ends the interaction.
Applies(dx, dy) ==
    Floating(grab.group) /\ Wanted(dx, dy).w > 0 /\ Wanted(dx, dy).h > 0

Motion(dx, dy) ==
    /\ grab # None
    /\ \/ /\ Applies(dx, dy)
          /\ SetFloatingGeometry(grab.group, Wanted(dx, dy))
          /\ UNCHANGED grab
       \/ /\ ~Applies(dx, dy)
          /\ grab' = None
          /\ UNCHANGED place
    /\ UNCHANGED <<vars, limits>>

EndGrab ==
    /\ grab # None /\ grab' = None
    /\ UNCHANGED <<vars, place, limits>>

FloatingNext ==
    \/ TreeStep
    \/ \E g \in Groups, l \in Limits : LimitsChange(g, l)
    \/ \E g \in Groups, edges \in EdgeSets \cup {{}} : BeginGrab(g, edges)
    \/ \E dx, dy \in Deltas : Motion(dx, dy)
    \/ EndGrab

FloatingSpec == FloatingInit /\ [][FloatingNext]_<<vars, floatVars>>

-----------------------------------------------------------------------------
\* Properties.

NearEdge(o) == IF o = "horizontal" THEN "left" ELSE "up"
FarEdge(o) == IF o = "horizontal" THEN "right" ELSE "down"

\* A stretch <<from, to>> that the group may have along an axis.
Fits(s, g, o) ==
    /\ From(Usable(bar), o) <= s[1] /\ s[2] <= End(Usable(bar), o)
    /\ SizeRange(g, o).min <= s[2] - s[1] /\ s[2] - s[1] <= SizeRange(g, o).max

Stretch(b, o) == <<From(b, o), End(b, o)>>

\* The stretches that keep what a drag of these edges keeps.
Keeping(o, b, edges) ==
    LET line == From(Usable(bar), o) .. End(Usable(bar), o)
    IN IF edges = {} THEN {<<p, p + Span(b, o)>> : p \in line}
       ELSE IF NearEdge(o) \in edges THEN {<<p, End(b, o)>> : p \in line}
       ELSE IF FarEdge(o) \in edges THEN {<<From(b, o), p>> : p \in line}
       ELSE {Stretch(b, o)}

Off(s, b, edges, o, d) ==
    IF edges = {} \/ NearEdge(o) \in edges THEN Abs(s[1] - From(b, o) - d)
    ELSE IF FarEdge(o) \in edges THEN Abs(s[2] - End(b, o) - d)
    ELSE 0

(* A floating group that is moved or resized ends up on the screen, out of    *)
(* the panel and within what its client can be, whatever changed since the    *)
(* press; and if its box at the press still is, the edges that are not        *)
(* dragged stay and no box that may be had is nearer to the pointer           *)
(* (onyrion_window_resize_floating_from_edges,                                *)
(* onyrion_window_set_floating_geometry).                                     *)
EdgesKept ==
    [][\A dx, dy \in Deltas : grab # None /\ grab' # None /\ Motion(dx, dy) =>
        \A o \in Orientations :
            LET g == grab.group
                b == grab.box
                d == IF o = "horizontal" THEN dx ELSE dy
                s == Stretch(place'[g], o)
            IN /\ Fits(s, g, o)
               /\ Fits(Stretch(b, o), g, o) =>
                    /\ s \in Keeping(o, b, grab.edges)
                    /\ \A t \in Keeping(o, b, grab.edges) : Fits(t, g, o) =>
                        Off(s, b, grab.edges, o, d) <= Off(t, b, grab.edges, o, d)
        ]_<<vars, floatVars>>

(* What is dragged goes where the pointer goes: the border of two tiles, and  *)
(* the box or the edges of a floating group.                                  *)
DragsFollow == BorderFollows /\ EdgesKept
=============================================================================
