------------------------------- MODULE Desktop -------------------------------
(***************************************************************************)
(* The desktop of the compositor as a state machine: one action for every  *)
(* event that reaches it -- outputs plugged and unplugged, clients that    *)
(* create, map, unmap and destroy windows at their own pace, pointer       *)
(* motion, key bindings and the requests of the shell protocol.  The       *)
(* compositor is single-threaded: an event runs to its end, and events of  *)
(* the different sources come in any order.                                *)
(***************************************************************************)
EXTENDS DesktopOps

VARIABLE desk

Plugged == ToSet(desk.outs)
Managed == {w \in Windows : desk.own[w] # None}  \* windows of some group
Tabs == Managed \cap desk.mapped
WsOf(w) == desk.gws[desk.own[w]]

Init == desk = InitialDesk

-----------------------------------------------------------------------------
\* Outputs.  handle_new_output, handle_output_destroy; MaxWs bounds the
\* workspaces created for outputs that find none.
OutputAdd(o) ==
    /\ o \notin Plugged
    /\ \/ desk.nws < MaxWs
       \/ \E ws \in Unassigned(desk) : Affinity[ws] \in {None, o}
    /\ desk' = OutputAdded(desk, o)

OutputRemove(o) ==
    /\ o \in Plugged
    /\ desk' = OutputRemoved(desk, o)

-----------------------------------------------------------------------------
\* Clients.

\* handle_new_toplevel: the window joins the focused workspace, not shown yet.
NewToplevel(w) ==
    LET ws == FocusedWs(desk) IN
    /\ w \notin Managed
    /\ ws # NoWs
    /\ desk' = IF desk.wact[ws] # None THEN AddWindow(desk, desk.wact[ws], w)
               ELSE AddWindow(CreateGroup(desk, ws), NewGroup(desk), w)

\* handle_window_map: the placement rule of the window, then
\* onyrion_group_window_mapped.
WindowMap(w, rule) ==
    LET placed == CASE rule = "floating" -> MakeFloating(desk, w)
                    [] rule = "tiled" -> MakeTiled(desk, w)
                    [] OTHER -> desk
    IN  /\ w \in Managed \ desk.mapped
        /\ desk' = FocusWindow([placed EXCEPT !.mapped = @ \cup {w}], w)

\* handle_window_unmap, onyrion_group_window_unmapped
WindowUnmap(w) ==
    LET g == desk.own[w]
        e == [desk EXCEPT !.mapped = @ \ {w}]
    IN  /\ w \in Tabs
        /\ desk' = IF desk.gact[g] = w
                   THEN SetActiveWindow(e, g, LastMapped(e, g)) ELSE e

\* destroy_window: wlroots has unmapped the window before, and takes the
\* keyboard from the surface that goes.
WindowDestroy(w) ==
    /\ w \in Managed \ desk.mapped
    /\ desk' = [RemoveWindow(desk, w) EXCEPT
                  !.wws[w] = NoWs, !.full = @ \ {w},
                  !.kbd = IF @ = w THEN None ELSE @]

\* handle_window_request_fullscreen
RequestFullscreen(w, on) ==
    /\ w \in Managed
    /\ on # (w \in desk.full)
    /\ desk' = SetFullscreen(desk, w, on)

\* handle_request_activate: no workspace is switched.
RequestActivate(w) ==
    /\ w \in Tabs
    /\ desk' = FocusWindow(desk, w)

-----------------------------------------------------------------------------
\* The pointer: process_cursor_motion.

\* Over the background, chrome or a layer surface only the output changes.
PointerOnOutput(o) ==
    /\ o \in Plugged
    /\ desk' = [desk EXCEPT !.fo = o]

\* Over a window, which is then the active one of a group on a screen.
PointerOnWindow(w) ==
    /\ w \in Tabs
    /\ IsVisible(desk, WsOf(w))
    /\ desk.gact[desk.own[w]] = w
    /\ desk' = FocusWindow([desk EXCEPT !.fo = desk.home[WsOf(w)]], w)

-----------------------------------------------------------------------------
\* Key bindings and shell requests: workspaces and focus.

\* handle_workspace_next.  MaxWs bounds the workspaces that are made.
WorkspaceNext ==
    /\ FocusedWs(desk) # NoWs
    /\ Place(desk, desk.fo) = Len(desk.asg[desk.fo]) => desk.nws < MaxWs
    /\ desk' = NextWorkspace(desk)

\* handle_workspace_previous
WorkspacePrevious ==
    /\ FocusedWs(desk) # NoWs
    /\ Place(desk, desk.fo) > 1
    /\ desk' = PreviousWorkspace(desk)

\* handle_activate_workspace, execute_id_action
WorkspaceActivate(ws) ==
    /\ desk.home[ws] # None
    /\ desk' = ActivateWorkspace(desk, ws)

\* onyrion_group_focus_id
GroupFocus(g) ==
    /\ g \in Live(desk)
    /\ desk.gact[g] \in desk.mapped
    /\ desk' = FocusWindowId(desk, desk.gact[g])

\* onyrion_window_focus_id, onyrion_group_focus_window_id
WindowFocus(w) ==
    /\ w \in Tabs
    /\ desk' = FocusWindowId(desk, w)

\* handle_window_next, handle_window_previous
WindowCycle(forward) ==
    /\ desk.act # None
    /\ Adjacent(desk, desk.act, forward) # None
    /\ desk' = CycleWindow(desk, forward)

\* handle_focus_direction, onyrion_layout_focus_direction: which neighbour is
\* nearest is geometry (LayoutTree).
FocusDirection(g) ==
    /\ desk.act # None
    /\ g \in Live(desk) \ (desk.flt \cup {desk.act})
    /\ desk.act \notin desk.flt
    /\ desk.gws[g] = FocusedWs(desk)
    /\ desk.gws[desk.act] = FocusedWs(desk)
    /\ desk.gact[g] \in desk.mapped
    /\ desk' = FocusWindow(desk, desk.gact[g])

\* handle_toggle_fullscreen_active
ToggleFullscreen ==
    /\ desk.act # None
    /\ desk.gact[desk.act] \in desk.mapped
    /\ desk' = ToggleActive(desk)

-----------------------------------------------------------------------------
\* Key bindings, drags and shell requests: placement.

\* handle_float_window, handle_tile_window
WindowFloat(w) ==
    /\ w \in Tabs \ desk.full
    /\ desk.own[w] \notin desk.flt
    /\ desk' = MakeFloating(desk, w)

WindowTile(w) ==
    /\ w \in Tabs
    /\ desk.own[w] \in desk.flt
    /\ desk' = MakeTiled(desk, w)

\* handle_float_group, handle_tile_group
GroupFloat(g) == g \in Live(desk) /\ CanFloat(desk, g) /\ desk' = FloatGroup(desk, g)
GroupTile(g) == g \in Live(desk) /\ CanTile(desk, g) /\ desk' = TileGroup(desk, g)

\* handle_set_group_pinned
GroupSetPinned(g, pinned) ==
    /\ g \in Live(desk) \cap desk.flt
    /\ desk.home[desk.gws[g]] # None
    /\ desk' = SetPinned(desk, g, pinned)

\* onyrion_group_move_to_workspace_id: refused for a pinned group.
GroupToWorkspace(g, ws) ==
    /\ g \in Live(desk)
    /\ desk.home[ws] # None /\ desk.gws[g] # ws
    /\ g \in desk.flt => desk.pin[g] = None
    /\ desk' = MoveGroupTo(desk, g, ws)

\* handle_move_window_to_workspace, execute_pair_action
WindowToWorkspace(w, ws) ==
    /\ w \in Managed
    /\ desk.home[ws] # None /\ WsOf(w) # ws
    /\ desk' = MoveWindowToWs(desk, w, ws)

-----------------------------------------------------------------------------
\* Key bindings, drags and shell requests: windows between groups.

\* onyrion_group_move_window_id
WindowToGroup(w, target) ==
    /\ w \in Managed
    /\ target \in Live(desk) \ {desk.own[w]}
    /\ desk.gws[target] = WsOf(w)
    /\ desk' = MoveWindow(desk, w, target)

\* onyrion_group_move_window_relative_id; a window already in its place is
\* left alone.
WindowBeside(w, ref, before) ==
    LET e == MoveWindow(desk, w, desk.own[ref])
        placed == PlaceBeside(e, w, ref, before)
    IN  /\ w # ref
        /\ {w, ref} \subseteq Tabs
        /\ WsOf(w) = WsOf(ref)
        /\ placed # desk
        /\ desk' = placed

\* onyrion_group_move_window_to_layout_zone_id: a drop beside a tile, which
\* belongs to a tiled group.
WindowToZone(w, target) ==
    /\ w \in Tabs
    /\ target \in Live(desk) \ desk.flt
    /\ desk.gws[target] = WsOf(w)
    /\ target = desk.own[w] => Len(desk.gwin[target]) > 1
    /\ desk' = Detach(desk, w, WsOf(w))

\* onyrion_group_merge_id
GroupMerge(source, target) ==
    /\ source # target /\ {source, target} \subseteq Live(desk)
    /\ desk.gws[source] = desk.gws[target]
    /\ desk' = MoveWindows(desk, desk.gwin[source], target)

\* handle_move_window_range, first and last in the same group
WindowRangeToGroup(first, last, target) ==
    LET g == desk.own[first] IN
    /\ {first, last} \subseteq Managed
    /\ desk.own[last] = g
    /\ target \in Live(desk) \ {g}
    /\ desk.gws[target] = desk.gws[g]
    /\ Between(desk, first, last) # <<>>
    /\ desk' = MoveWindows(desk, Between(desk, first, last), target)

\* handle_split_active
SplitActiveWindow ==
    /\ desk.act # None
    /\ desk.gact[desk.act] # None
    /\ Len(desk.gwin[desk.act]) > 1
    /\ FocusedWs(desk) # NoWs
    /\ desk' = SplitActive(desk)

\* handle_split_window
SplitWindow(w) ==
    /\ w \in Tabs
    /\ desk.own[w] \notin desk.flt
    /\ Len(desk.gwin[desk.own[w]]) > 1
    /\ desk.home[WsOf(w)] # None
    /\ desk' = SplitWindowOut(desk, w)

\* handle_split_group_at; at its first window a group is not split.
SplitAt(w) ==
    /\ w \in Tabs
    /\ desk.own[w] \notin desk.flt
    /\ w # Head(desk.gwin[desk.own[w]])
    /\ desk.home[WsOf(w)] # None
    /\ desk' = SplitGroupAt(desk, w)

-----------------------------------------------------------------------------
OutputStep == \E o \in Outputs : OutputAdd(o) \/ OutputRemove(o)

ClientStep ==
    \E w \in Windows :
      \/ NewToplevel(w)
      \/ \E rule \in {"none", "floating", "tiled"} : WindowMap(w, rule)
      \/ WindowUnmap(w)
      \/ WindowDestroy(w)
      \/ \E on \in BOOLEAN : RequestFullscreen(w, on)
      \/ RequestActivate(w)

PointerStep ==
    \/ \E o \in Outputs : PointerOnOutput(o)
    \/ \E w \in Windows : PointerOnWindow(w)

FocusStep ==
    \/ WorkspaceNext
    \/ WorkspacePrevious
    \/ \E ws \in Workspaces : WorkspaceActivate(ws)
    \/ \E g \in Groups : GroupFocus(g)
    \/ \E w \in Windows : WindowFocus(w)
    \/ \E forward \in BOOLEAN : WindowCycle(forward)
    \/ \E g \in Groups : FocusDirection(g)
    \/ ToggleFullscreen

PlaceStep ==
    \/ \E w \in Windows : WindowFloat(w)
    \/ \E w \in Windows : WindowTile(w)
    \/ \E g \in Groups : GroupFloat(g)
    \/ \E g \in Groups : GroupTile(g)
    \/ \E g \in Groups, pinned \in BOOLEAN : GroupSetPinned(g, pinned)
    \/ \E g \in Groups, ws \in Workspaces : GroupToWorkspace(g, ws)
    \/ \E w \in Windows, ws \in Workspaces : WindowToWorkspace(w, ws)

GroupingStep ==
    \/ \E w \in Windows, g \in Groups : WindowToGroup(w, g)
    \/ \E w, ref \in Windows, before \in BOOLEAN : WindowBeside(w, ref, before)
    \/ \E w \in Windows, target \in Groups : WindowToZone(w, target)
    \/ \E s, t \in Groups : GroupMerge(s, t)
    \/ \E v, w \in Windows, g \in Groups : WindowRangeToGroup(v, w, g)
    \/ SplitActiveWindow
    \/ \E w \in Windows : SplitWindow(w)
    \/ \E w \in Windows : SplitAt(w)

\* onyrion_action_execute: the actions that bindings and the Shell share.
ActionStep == FocusStep \/ PlaceStep \/ GroupingStep

Next == OutputStep \/ ClientStep \/ PointerStep \/ ActionStep

Spec == Init /\ [][Next]_desk

-----------------------------------------------------------------------------
TypeOK ==
    /\ desk \in Desk
    /\ IsInjective(desk.outs) /\ IsInjective(desk.groups)
    /\ \A g \in Groups : IsInjective(desk.gwin[g])
    /\ \A o \in Outputs : IsInjective(desk.asg[o])

\* The pointers of groups and windows agree in every state between two
\* events: the groups in use are those that hold a window, a window is in the
\* list of its group and in no other, on the workspace of its group
\* (destroy_group, onyrion_group_add_window and all moves).
Ownership ==
    /\ \A g \in Groups :
         /\ g \in Live(desk) <=> desk.gwin[g] # <<>>
         /\ g \in Live(desk) => desk.gws[g] # NoWs
    /\ \A w \in Windows, g \in Groups :
         w \in ToSet(desk.gwin[g]) <=> desk.own[w] = g
    /\ \A w \in Managed : desk.wws[w] = WsOf(w)
    /\ desk.mapped \subseteq Managed

\* No pointer to an active group dangles or lies: a workspace has an active
\* group exactly when it has groups, and it is one of its own; the group the
\* server calls active is in use.
ActiveGroups ==
    /\ \A ws \in Workspaces :
         /\ desk.wact[ws] = None <=> \A g \in Live(desk) : desk.gws[g] # ws
         /\ desk.wact[ws] # None => /\ desk.wact[ws] \in Live(desk)
                                    /\ desk.gws[desk.wact[ws]] = ws
    /\ desk.act # None => desk.act \in Live(desk)

\* The active window of a group is a mapped member of it, whatever was
\* unmapped, destroyed or moved away since it became active.
ActiveTab ==
    \A g \in Live(desk) :
        desk.gact[g] # None => /\ desk.own[desk.gact[g]] = g
                               /\ desk.gact[g] \in desk.mapped

\* The pointers between windows, groups and workspaces agree.
PointersAgree == TypeOK /\ Ownership /\ ActiveGroups /\ ActiveTab

\* A pinned group floats and is always on the workspace that its output
\* shows: "While pinned, the Group follows workspace changes only on the
\* output where pinning occurred" (core/protocol/onyrion-shell-unstable-v1.xml).
PinnedShown ==
    \A g \in Live(desk) :
        desk.pin[g] # None => /\ g \in desk.flt
                              /\ desk.gws[g] = desk.vis[desk.pin[g]]

\* Every output that is plugged in shows one of the workspaces assigned to it,
\* the two directions of the assignment agree, and some output is focused
\* while there is one.
Screens ==
    /\ \A o \in Plugged : desk.vis[o] \in ToSet(desk.asg[o])
    /\ \A o \in Outputs, ws \in Workspaces :
         desk.home[ws] = o <=> ws \in ToSet(desk.asg[o])
    /\ \A ws \in Workspaces : desk.home[ws] \in Plugged \cup {None}
    /\ IF Plugged = {} THEN desk.fo = None ELSE desk.fo \in Plugged

\* Through any sequence of plugging and unplugging, a workspace configured for
\* an output is on that output whenever it is there, and else on none.
AffinityHonoured ==
    \A ws \in 1..desk.nws :
        Affinity[ws] # None =>
          desk.home[ws] = IF Affinity[ws] \in Plugged THEN Affinity[ws] ELSE None

\* The workspaces are where they belong, and the pinned groups with them.
WorkspacesPlaced == Screens /\ AffinityHonoured /\ PinnedShown

\* The active window of the group the server calls active has the keyboard,
\* and nobody has it when no group is active.
KeyboardIsActive ==
    IF desk.act = None THEN desk.kbd = None
    ELSE desk.gact[desk.act] # None => desk.kbd = desk.gact[desk.act]

\* When the active window of the active group gives the keyboard to another of
\* its workspace, it does not stay fullscreen on top (onyrion_group_focus_window);
\* except into a group just made for the other window: by then the server's
\* active group is the new one, and the fullscreen window is not found.
FullscreenYields ==
    [][\A v \in desk.full :
         /\ desk.act # None /\ v = desk.gact[desk.act]
         /\ desk'.kbd \notin {None, v, desk.kbd}
         /\ v \in desk'.mapped
         /\ desk'.own[desk'.kbd] \in Live(desk)
         /\ IsVisible(desk, desk.wws[v]) /\ desk.wact[desk.wws[v]] = desk.act
         /\ desk.wws[v] = desk.wws[desk'.kbd]
         /\ desk'.wws[v] = desk'.wws[desk'.kbd]
         => v \notin desk'.full]_desk

\* Two tabs of one group that are tabs of one group afterwards keep their
\* order, wherever merging, splitting and range moves take them; only a drag
\* beside another tab (onyrion_group_move_window_relative_id) reorders.
Precedes(d, v, w) ==
    \E g \in Groups : \E i, j \in DOMAIN d.gwin[g] :
        i < j /\ d.gwin[g][i] = v /\ d.gwin[g][j] = w

TabOrder ==
    [][\A v, w \in Windows :
         Precedes(desk, v, w) /\ Precedes(desk', w, v) =>
           \E x \in {v, w}, ref \in Windows, before \in BOOLEAN :
              WindowBeside(x, ref, before)]_desk
=============================================================================
