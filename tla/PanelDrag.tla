------------------------------ MODULE PanelDrag ------------------------------
(* A window dragged by its tab in a panel.  The plugin sees the press, begins *)
(* the drag of the compositor, and while it lasts answers the compositor's    *)
(* reports of where the pointer is over the panels with the tab it stands on; *)
(* the compositor keeps the last answer as the hint of where the window goes  *)
(* when the button comes up.  The plugin sends an answer only when it differs *)
(* from the last it sent.  The drag's messages share the connection, and the  *)
(* queues, of GroupPanels, whose panels come and go meanwhile.                *)
(*                                                                            *)
(* Left out: drags of whole groups, which have no hint, the compositor's own  *)
(* threshold, where the pointer is while no button is down, and presses while *)
(* a drag that began after its button came up is stuck.  A press finds the    *)
(* screen settled.  The two halves of a tab stand for any two places of a     *)
(* panel that are answered differently, the blank strip beside the tabs among *)
(* them; tabs that move under a pointer that stays are left out.              *)
EXTENDS GroupPanels

CONSTANT Motions   \* bound: reports of the pointer and answers in flight

VARIABLES
    at,        \* the half of a tab the pointer is on with its button down, or None
    button,    \* the button is down
    chrome,    \* the group of the window the compositor drags, or None
    hint,      \* its hint, or None
    armed,     \* the panel whose tab may become a drag, for GTK
    primary    \* the bridge's: the panel pressed, its drag, the last answer

dragVars == <<at, button, chrome, hint, armed, primary>>
allVars == <<panelVars, dragVars>>

Halves == {"before", "after"}
Spot == [group : Groups, half : Halves]

ASSUME DragAssumption == Motions \in Nat /\ None \notin Spot

NoPress == [on |-> None, drag |-> FALSE, target |-> None]

DragInit ==
    /\ PanelInit
    /\ at = None /\ button = FALSE /\ chrome = None /\ hint = None
    /\ armed = None /\ primary = NoPress

-----------------------------------------------------------------------------
(* What the panels' coming and going does to a drag. *)

\* The panel's window goes, and may be made anew at once.
Remade(g, panels) ==
    panel[g] # None => panels[g] = None \/ panels[g].since # panel[g].since

\* The bridge forgets the press with the surface it was on.
RoleDestroyed(panels) ==
    IF primary.on # None /\ Remade(primary.on, panels) THEN NoPress ELSE primary

\* A panel drawn anew has new buttons.
Redrawn(g) == drawn' # drawn \/ Remade(g, panel') \/ panel'[g].height # panel[g].height

DragFollows ==
    /\ UNCHANGED button
    /\ at' = IF at # None /\ (surf'[at.group] = None \/ ~surf'[at.group].shown)
             THEN None ELSE at
    /\ IF ewwii' = "down"
       THEN chrome' = None /\ hint' = None /\ armed' = None /\ primary' = NoPress
       ELSE /\ IF chrome # None /\ ~Exists(desk', chrome)
               THEN chrome' = None /\ hint' = None
               ELSE UNCHANGED <<chrome, hint>>
            /\ armed' = IF armed # None /\ Redrawn(armed) THEN None ELSE armed
            /\ primary' = RoleDestroyed(panel')

-----------------------------------------------------------------------------
(* The compositor. *)

\* The panels the pointer can be on.
OnScreen(g) == surf[g] # None /\ surf[g].shown /\ surf[g].height > 0 /\ g \in Visible(desk)

\* While a drag lasts every motion is reported, and the hint is dropped where
\* it does not belong.
Reported(place) == [kind |-> "motion", place |-> place]

InFlight ==
    Len(SelectSeq(down, LAMBDA e : e.kind = "motion"))
    + Len(SelectSeq(up, LAMBDA r : r.kind = "target"))

HintAt(place) ==
    IF place # None /\ hint # None /\ hint.group = place.group THEN hint ELSE None

MovePointer(place) ==
    /\ button /\ place # at /\ at' = place
    /\ IF chrome = None THEN UNCHANGED <<down, hint>>
       ELSE /\ InFlight < Motions
            /\ down' = Append(down, Reported(place))
            /\ hint' = HintAt(place)
    /\ UNCHANGED <<coreVars, up, snap, watchVars, lines, ewwiiVars, pluginVars, budget,
                   button, chrome, armed, primary>>

PressTab(place) ==
    /\ ~button /\ chrome = None /\ changes < Changes
    /\ ScreenRight /\ up = <<>> /\ down = <<>>
    /\ at' = place /\ button' = TRUE /\ changes' = changes + 1
    /\ down' = Append(down, [kind |-> "press", group |-> place.group])
    /\ armed' = place.group
    /\ UNCHANGED <<coreVars, up, snap, watchVars, lines, ewwiiVars, pluginVars, faults,
                   chrome, hint, primary>>

\* The release that ends a drag is not passed on.
ReleaseButton ==
    /\ button /\ button' = FALSE
    /\ IF chrome # None
       THEN chrome' = None /\ hint' = None /\ UNCHANGED down
       ELSE /\ down' = IF ewwii = "down" THEN down ELSE Append(down, [kind |-> "release"])
            /\ UNCHANGED <<chrome, hint>>
    /\ armed' = None /\ at' = None
    /\ UNCHANGED <<coreVars, up, snap, watchVars, lines, ewwiiVars, pluginVars, budget,
                   primary>>

\* The serial shows that the button was pressed, not that it still is.
BeginShellDrag ==
    /\ Request("begin")
    /\ chrome' = IF chrome = None /\ Exists(desk, Head(up).group) THEN Head(up).group
                 ELSE chrome
    /\ up' = Tail(up)
    /\ UNCHANGED <<coreVars, down, snap, watchVars, lines, ewwiiVars, pluginVars, budget,
                   at, button, hint, armed, primary>>

SetShellDragTarget ==
    /\ Request("target")
    /\ hint' = IF chrome # None /\ Exists(desk, Head(up).place.group)
               THEN Head(up).place ELSE hint
    /\ up' = Tail(up)
    /\ UNCHANGED <<coreVars, down, snap, watchVars, lines, ewwiiVars, pluginVars, budget,
                   at, button, chrome, armed, primary>>

-----------------------------------------------------------------------------
(* The plugin. *)

PointerButton ==
    /\ Event("press") \/ Event("release")
    /\ primary' = IF Event("press") /\ panel[Head(down).group] # None
                  THEN [NoPress EXCEPT !.on = Head(down).group] ELSE NoPress
    /\ down' = Tail(down)
    /\ UNCHANGED <<coreVars, up, snap, watchVars, lines, ewwiiVars, pluginVars, budget,
                   at, button, chrome, hint, armed>>

\* GTK's motion past the threshold.  The bridge has seen the press by then, for
\* it first reads what GDK has read.
BeginCoreDrag ==
    /\ armed # None /\ button
    /\ primary.on = armed /\ ~primary.drag
    /\ up' = Append(up, [kind |-> "begin", group |-> armed])
    /\ primary' = [primary EXCEPT !.drag = TRUE, !.target = None]
    /\ armed' = None
    /\ UNCHANGED <<coreVars, down, snap, watchVars, lines, ewwiiVars, pluginVars, budget,
                   at, button, chrome, hint>>

\* Mutant: the answer sent last is compared by its group alone.
AnsweredGroup(place) == primary.target # None /\ primary.target.group = place.group

\* drag_target_cache_matches
Answered(place) == primary.target = place

SetDragTarget(place) ==
    /\ primary' = [primary EXCEPT !.target = place]
    /\ up' = Append(up, [kind |-> "target", place |-> place])

SendDragHit(place) ==
    IF place = None \/ Answered(place) THEN UNCHANGED <<primary, up>>
    ELSE SetDragTarget(place)

\* The panel says which of its tabs it is.
DragHit(place) == IF panel[place.group] = None THEN None ELSE place

\* A report of the pointer: off the panels, or with no drag of a window, it is
\* ignored.
DragSurfaceMotion ==
    /\ Event("motion")
    /\ LET place == Head(down).place IN
        IF ~primary.drag \/ place = None
        THEN UNCHANGED <<primary, up>>
        ELSE SendDragHit(DragHit(place))
    /\ down' = Tail(down)
    /\ UNCHANGED <<coreVars, snap, watchVars, lines, ewwiiVars, pluginVars, budget,
                   at, button, chrome, hint, armed>>

-----------------------------------------------------------------------------
Place == [group : {g \in Groups : OnScreen(g)}, half : Halves]

DragCore == BeginShellDrag \/ SetShellDragTarget
DragPlugin == PointerButton \/ DragSurfaceMotion

DragNext ==
    \/ PanelNext /\ DragFollows
    \/ \E place \in Place \cup {None} : MovePointer(place)
    \/ \E place \in Place : PressTab(place)
    \/ ReleaseButton \/ BeginCoreDrag
    \/ DragCore \/ DragPlugin

DragSpec ==
    /\ DragInit /\ [][DragNext]_allVars
    /\ PanelFairness /\ WF_allVars(DragCore) /\ WF_allVars(DragPlugin)

-----------------------------------------------------------------------------
\* Where the window drops: the hint counts where its group's panel is.
DropTarget ==
    IF at # None /\ hint # None /\ hint.group = at.group THEN hint ELSE None

\* All the reports and answers of a drag have arrived.
Heard == up = <<>> /\ down = <<>>

\* Once every message has arrived, the window that hangs on a button held down
\* drops where the pointer stands: the compositor's hint is that place.  It may
\* only miss a hint, which the plugin's cache costs it: when the pointer left
\* the panel and came back to the tab answered last, the compositor dropped the
\* hint and the plugin does not repeat it.  A hint for another place would drop
\* the window where the user does not point (drag_target_cache_matches,
\* update_shell_drag_hint).
DropFollowsPointer ==
    button /\ chrome # None /\ primary.drag /\ at # None /\ Heard =>
        \/ DropTarget = at
        \/ hint = None /\ primary.target \in {None, at}
=============================================================================
