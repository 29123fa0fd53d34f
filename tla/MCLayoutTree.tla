---------------------------- MODULE MCLayoutTree ----------------------------
(* A small instance of FloatingGroups: an output of a few pixels, a panel    *)
(* that comes and goes, two policies, and places to drop groups at near and  *)
(* far from the borders.  As many leaves and splits as groups.               *)
EXTENDS FloatingGroups

CONSTANTS g1, g2, g3, wa, wb

\* States that differ in which memory the nodes have, or only in the names of
\* groups and workspaces, are taken for one: a tiled group is known by its place
\* in the list of its workspace, another by whether the border dragged was its.
Held(g) == IF drag = None THEN <<FALSE, FALSE>> ELSE <<drag.first = g, drag.second = g>>
Place(l) == CHOOSE i \in 1 .. Cardinality(Groups) : i \in DOMAIN list[home[tile[l]]]
                                                   /\ list[home[tile[l]]][i] = l
Name(g) ==
    IF g = None THEN None
    ELSE IF tileOf[g] # None THEN <<home[g] = visible, Place(tileOf[g])>>
    ELSE <<home[g] # None, home[g] = visible, Held(g)>>

RECURSIVE Shape(_)
Shape(n) ==
    IF n = None THEN None ELSE IF n \in Leaves THEN Place(n)
    ELSE <<tree.split[n].orientation, tree.split[n].ratio,
           Shape(tree.split[n].first), Shape(tree.split[n].second)>>

Side(w) ==
    <<Shape(tree.root[w]), Name(active[w]),
      [i \in DOMAIN list[w] |-> <<box[list[w][i]], told[tile[list[w][i]]]>>],
      {<<Held(g), place[g], limits[g],
         Cardinality({h \in Groups : /\ home[h] = w /\ tileOf[h] = None
                                     /\ Held(h) = Held(g) /\ place[h] = place[g]})>> :
           g \in {h \in Groups : home[h] = w /\ tileOf[h] = None}}>>

Nameless ==
    <<Side(visible), Side(CHOOSE w \in Workspaces : w # visible),
      bar, gap,
      IF drag = None THEN None ELSE <<drag.orientation, Name(drag.first), Name(drag.second)>>,
      IF grab = None THEN None ELSE <<grab.box, grab.edges>> >>

\* To keep the instance small: the policy changes only while there is no panel,
\* a border is dragged only with gaps and without a panel, and a workspace that
\* is hidden has one group at most.
Bounded ==
    /\ gap' = gap \/ bar = 0
    /\ bar' = bar \/ gap.outer = 1
    /\ drag' # None => bar' = 0 /\ gap'.outer = 1
    /\ Cardinality({g \in Groups : home'[g] \notin {None, visible'}}) <= 1

\* A floating group is moved, resized and limited while it is the only group, on
\* the workspace shown, and from where it was first or under the panel.
Alone(g) == home[g] = visible /\ \A h \in Groups \ {g} : home[h] = None
Placed == [x |-> 3, y |-> 3, w |-> 13, h |-> 13]
FloatingBounded ==
    /\ \A g \in Groups :
        \/ place'[g] = NoBox /\ limits'[g] = NoLimits
        \/ place'[g] = Placed /\ limits'[g] = NoLimits /\ bar' = 0
        \/ Floating(g)' /\ Alone(g)' /\ gap'.outer = 0
    /\ grab' # None => Alone(grab.group)' /\ gap'.outer = 0
    /\ grab = None /\ grab' # None => grab'.box \in {Placed, DefaultBox} \/ grab'.box.y < bar

SmallSpec ==
    FloatingInit /\ [][FloatingNext /\ Bounded /\ FloatingBounded]_<<vars, floatVars>>

ClientLimits == {[min |-> 0, max |-> 0], [min |-> 7, max |-> 10], [min |-> 15, max |-> 0]}
Unlimited == [min |-> 0, max |-> 0]
DraggedEdges == {{"left"}, {"down"}, {"right", "up"}, {"left", "up"}}
Distances == {-9, 0, 4}

BarHeights == {0, 2}
PolicyGaps == {[outer |-> 0, inner |-> 0], [outer |-> 1, inner |-> 2]}
\* Near each edge of the area, of the tiles of its halves, and in the middle.
DropPositions == [x : {2, 8, 11, 17}, y : {10}] \cup [x : {5, 14}, y : {5, 8, 12, 18}]
PointerPositions == {[x |-> 10, y |-> 10]}
Half == [n |-> 1, d |-> 2]
Quarter == [n |-> 1, d |-> 4]
ThreeQuarters == [n |-> 3, d |-> 4]
=============================================================================
