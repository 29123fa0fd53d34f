----------------------------- MODULE DesktopOps -----------------------------
(***************************************************************************)
(* What the functions of core/src/group.c, workspace.c, window.c and       *)
(* output.c do to the desktop: outputs show workspaces, workspaces own     *)
(* groups, groups own ordered windows (tabs).  The functions call one      *)
(* another in the middle of their own updates, so each is an operator from *)
(* a desktop (a record of everything they share) to the desktop it leaves. *)
(*                                                                         *)
(* The layout tree is reduced to the set of floating groups: a group has a *)
(* tile exactly when it is not floating, the shape of the tree is left     *)
(* out.  Transient windows, which belong to no group, are added by         *)
(* DesktopSnapshot.  Keyboard focus is what onyrion_input_focus_window     *)
(* asks for while neither a lock nor an exclusive layer surface takes it   *)
(* (SeatFocus).                                                            *)
(***************************************************************************)
EXTENDS Integers, FiniteSets, SequencesExt

CONSTANTS Outputs, Groups, Windows,
          None,       \* the NULL of a group, window or output pointer
          MaxWs,      \* bound on the number of workspaces
          Configured, \* workspaces created at start
          Affinity,   \* output_affinity of a workspace, or None
          Startup     \* workspaces with the startup mark

Workspaces == 1..MaxWs
NoWs == 0             \* the NULL of a workspace pointer

ASSUME DesktopAssumption ==
    /\ None \notin Outputs \cup Groups \cup Windows
    /\ MaxWs \in Nat /\ Configured \in Workspaces
    /\ Affinity \in [Workspaces -> Outputs \cup {None}]
    /\ \A ws \in Workspaces : ws > Configured => Affinity[ws] = None
    /\ Startup \subseteq 1..Configured
    /\ IsFiniteSet(Windows) /\ IsFiniteSet(Groups)
    /\ Cardinality(Groups) > Cardinality(Windows) \* a new group can be had

Desk == [
    outs   : Seq(Outputs),                        \* server.outputs
    fo     : Outputs \cup {None},                 \* server.focused_output
    nws    : 0..MaxWs,                            \* workspaces 1..nws exist
    home   : [Workspaces -> Outputs \cup {None}], \* workspace.output
    asg    : [Outputs -> Seq(Workspaces)],        \* output.assigned_workspaces
    vis    : [Outputs -> Workspaces \cup {NoWs}], \* output.visible_workspace
    wact   : [Workspaces -> Groups \cup {None}],  \* workspace.active_group
    act    : Groups \cup {None},                  \* server.active_group
    groups : Seq(Groups),                         \* server.groups
    gws    : [Groups -> Workspaces \cup {NoWs}],  \* group.workspace
    gwin   : [Groups -> Seq(Windows)],            \* group.windows
    gact   : [Groups -> Windows \cup {None}],     \* group.active
    flt    : SUBSET Groups,                       \* floating groups
    pin    : [Groups -> Outputs \cup {None}],     \* group.pinned_output
    own    : [Windows -> Groups \cup {None}],     \* window.group
    wws    : [Windows -> Workspaces \cup {NoWs}], \* window.workspace
    mapped : SUBSET Windows,
    full   : SUBSET Windows,                      \* window.fullscreen
    kbd    : Windows \cup {None}]                 \* keyboard focus of the seat

\* onyrion_workspace_init with the configured workspaces, no output yet.
InitialDesk == [
    outs |-> <<>>, fo |-> None, nws |-> Configured,
    home |-> [ws \in Workspaces |-> None],
    asg |-> [o \in Outputs |-> <<>>],
    vis |-> [o \in Outputs |-> NoWs],
    wact |-> [ws \in Workspaces |-> None],
    act |-> None, groups |-> <<>>,
    gws |-> [g \in Groups |-> NoWs],
    gwin |-> [g \in Groups |-> <<>>],
    gact |-> [g \in Groups |-> None],
    flt |-> {}, pin |-> [g \in Groups |-> None],
    own |-> [w \in Windows |-> None],
    wws |-> [w \in Windows |-> NoWs],
    mapped |-> {}, full |-> {}, kbd |-> None]

Live(d) == ToSet(d.groups)

IsVisible(d, ws) == d.home[ws] # None /\ d.vis[d.home[ws]] = ws

FocusedWs(d) == IF d.fo = None THEN NoWs ELSE d.vis[d.fo]

\* The last window of a group that is mapped, or None.
LastMapped(d, g) ==
    LET i == SelectLastInSeq(d.gwin[g], LAMBDA w : w \in d.mapped)
    IN  IF i = 0 THEN None ELSE d.gwin[g][i]

\* The most recent group of a workspace, or None.
LastGroupIn(d, ws) ==
    LET i == SelectLastInSeq(d.groups, LAMBDA g : d.gws[g] = ws)
    IN  IF i = 0 THEN None ELSE d.groups[i]

\* onyrion_input_focus_window
InputFocusWindow(d, w) ==
    [d EXCEPT !.kbd = IF w \in d.mapped THEN w ELSE None]

\* set_active_window; w may be None.
SetActiveWindow(d, g, w) ==
    LET e == [d EXCEPT !.gact[g] = w]
    IN  IF d.act = g THEN InputFocusWindow(e, w) ELSE e

\* Mutant: the workspace keeps pointing to the group it loses.
DestroyGroupDangling(d, g) ==
    LET e == [d EXCEPT !.groups = RemoveFirst(@, g), !.gws[g] = NoWs,
                       !.gwin[g] = <<>>, !.gact[g] = None,
                       !.flt = @ \ {g}, !.pin[g] = None]
    IN  IF d.act = g THEN [e EXCEPT !.act = None, !.kbd = None] ELSE e

\* destroy_group: its workspace falls back to its most recent group, and so
\* does the server when the group was active on both.
DestroyGroup(d, g) ==
    LET ws == d.gws[g]
        e == [d EXCEPT !.groups = RemoveFirst(@, g), !.gws[g] = NoWs,
                       !.gwin[g] = <<>>, !.gact[g] = None,
                       !.flt = @ \ {g}, !.pin[g] = None]
        fallback == IF d.wact[ws] = g THEN LastGroupIn(e, ws) ELSE None
        f == IF d.wact[ws] = g THEN [e EXCEPT !.wact[ws] = fallback] ELSE e
    IN  CASE d.act # g -> f
          [] d.act = g /\ fallback = None ->
               [f EXCEPT !.act = None, !.kbd = None]
          [] OTHER ->
               SetActiveWindow([f EXCEPT !.act = fallback], fallback,
                               f.gact[fallback])

\* The group object that calloc hands out next: any that is not in use.
NewGroup(d) == CHOOSE g \in Groups : g \notin Live(d)

\* onyrion_group_create_in_workspace: the new group, still empty, becomes the
\* active one of its workspace.
CreateGroup(d, ws) ==
    LET g == NewGroup(d)
    IN  [d EXCEPT !.groups = Append(@, g), !.gws[g] = ws, !.wact[ws] = g,
                  !.act = IF ws = FocusedWs(d) THEN g ELSE @]

\* onyrion_group_add_window
AddWindow(d, g, w) ==
    [d EXCEPT !.own[w] = g, !.wws[w] = d.gws[g],
              !.gwin[g] = Append(d.gwin[g], w)]

\* Mutant: the window that had the focus stays fullscreen.
FocusWindowKeepsFull(d, w) ==
    LET g == d.own[w]
        ws == d.gws[g]
        e == [d EXCEPT !.fo = d.home[ws], !.wact[ws] = g, !.act = g]
    IN  IF g = None \/ w \notin d.mapped \/ ~IsVisible(d, ws) THEN d
        ELSE SetActiveWindow(e, g, w)

\* onyrion_group_focus_window
FocusWindow(d, w) ==
    LET g == d.own[w]
        ws == d.gws[g]
        prev == IF d.act = None THEN None ELSE d.gact[d.act]
        leaves == /\ prev \in d.full \ {w}
                  /\ d.own[prev] # None
                  /\ d.gws[d.own[prev]] = ws
        e == [d EXCEPT !.fo = d.home[ws], !.wact[ws] = g, !.act = g,
                       !.full = IF leaves THEN @ \ {prev} ELSE @]
    IN  IF g = None \/ w \notin d.mapped \/ ~IsVisible(d, ws) THEN d
        ELSE SetActiveWindow(e, g, w)

\* Unlinks w from its group; the caller deals with the group that may be left
\* empty.
Unlink(d, w) ==
    [d EXCEPT !.gwin[d.own[w]] = RemoveFirst(@, w), !.own[w] = None]

\* What remains to be done for a group that has just lost a window.
AfterLoss(d, g, wasActive) ==
    CASE d.gwin[g] = <<>> -> DestroyGroup(d, g)
      [] d.gwin[g] # <<>> /\ wasActive ->
           SetActiveWindow(d, g, LastMapped(d, g))
      [] OTHER -> d

\* onyrion_group_move_window
MoveWindow(d, w, target) ==
    LET s == d.own[w]
        e == AddWindow(Unlink(d, w), target, w)
    IN  IF s \in {None, target} THEN d
        ELSE FocusWindow(AfterLoss(e, s, d.gact[s] = w), w)

\* onyrion_group_remove_window
RemoveWindow(d, w) ==
    IF d.own[w] = None THEN d
    ELSE AfterLoss(Unlink(d, w), d.own[w], d.gact[d.own[w]] = w)

-----------------------------------------------------------------------------
\* Workspaces on outputs.

\* focus_visible_workspace
FocusVisible(d, o) ==
    LET ws == d.vis[o]
        g == d.wact[ws]
        e == [d EXCEPT !.fo = o]
    IN  CASE ws = NoWs -> d
          [] ws # NoWs /\ g # None /\ d.gact[g] \in d.mapped ->
               FocusWindow(e, d.gact[g])
          [] OTHER -> [e EXCEPT !.act = g, !.kbd = None]

\* The pinned groups of an output that a switch to ws takes along.
Followers(d, o, ws) ==
    {g \in Live(d) : g \in d.flt /\ d.pin[g] = o /\ d.gws[g] # ws}

\* onyrion_group_follow_pinned_workspace: the loop over the groups, each moved
\* by move_floating_group_to_workspace with pin_follow.  The first of them
\* becomes active in ws if no group was; a workspace that loses its active
\* group falls back to its most recent one, in the end one that stays.
FollowPinned(d, o, ws) ==
    LET P == Followers(d, o, ws)
        first == SelectInSeq(d.groups, LAMBDA g : g \in P)
        e == [d EXCEPT
                !.gws = [g \in Groups |-> IF g \in P THEN ws ELSE @[g]],
                !.wws = [w \in Windows |-> IF d.own[w] \in P THEN ws ELSE @[w]]]
    IN  [e EXCEPT !.wact = [x \in Workspaces |->
            CASE x = ws /\ @[x] = None /\ P # {} -> d.groups[first]
              [] x # ws /\ @[x] \in P -> LastGroupIn(e, x)
              [] OTHER -> @[x]]]

\* switch_output_workspace, for a workspace assigned to the output.
SwitchWorkspace(d, o, ws, focus) ==
    LET e == IF d.vis[o] = ws THEN d
             ELSE [FollowPinned(d, o, ws) EXCEPT !.vis[o] = ws]
    IN  IF focus THEN FocusVisible(e, o) ELSE e

\* The workspaces of S in their order.
Sorted(S) ==
    CHOOSE s \in [1..Cardinality(S) -> S] : \A i, j \in DOMAIN s : i < j => s[i] < s[j]

\* create_workspace_with_policy, for a workspace nothing was configured for.
CreateWorkspace(d) == [d EXCEPT !.nws = @ + 1]

\* assign_workspace, once for every workspace of the list.
Assign(d, o, list) ==
    [d EXCEPT !.asg[o] = @ \o list,
              !.home = [ws \in Workspaces |->
                          IF ws \in ToSet(list) THEN o ELSE @[ws]]]

Unassigned(d) == {ws \in 1..d.nws : d.home[ws] = None}

\* onyrion_workspace_output_added: the workspaces meant for the output, on the
\* first output also those meant for none, else one spare or new workspace.
OutputAdded(d, o) ==
    LET first == d.fo = None
        spare == {ws \in Unassigned(d) : Affinity[ws] = None}
        mine == Sorted({ws \in Unassigned(d) : Affinity[ws] = o})
                  \o (IF first THEN Sorted(spare) ELSE <<>>)
        list == CASE mine # <<>> -> mine
                  [] mine = <<>> /\ spare # {} -> <<Min(spare)>>
                  [] OTHER -> <<d.nws + 1>>
        start == SelectInSeq(list, LAMBDA ws : ws \in Startup)
        new == [d EXCEPT !.outs = Append(@, o)]
        e == IF d.nws + 1 \in ToSet(list) THEN CreateWorkspace(new) ELSE new
    IN  SwitchWorkspace(Assign(e, o, list), o,
                        IF start = 0 THEN Head(list) ELSE list[start], first)

\* handle_output_destroy, onyrion_group_output_removed and
\* onyrion_workspace_output_removed: the workspaces stay, on no output.
OutputRemoved(d, o) ==
    LET e == [d EXCEPT
                !.outs = RemoveFirst(@, o), !.asg[o] = <<>>, !.vis[o] = NoWs,
                !.pin = [g \in Groups |-> IF @[g] = o THEN None ELSE @[g]],
                !.home = [ws \in Workspaces |->
                            IF ws \in ToSet(d.asg[o]) THEN None ELSE @[ws]]]
        f == [e EXCEPT !.fo = None]
    IN  CASE d.fo # o -> e
          [] d.fo = o /\ e.outs # <<>> -> FocusVisible(f, Head(e.outs))
          [] OTHER -> [f EXCEPT !.act = None, !.kbd = None]

-----------------------------------------------------------------------------
\* Floating, pinning and moving groups.

\* onyrion_group_float_id.  The default box needs a screen: for a workspace on
\* no output it is that of the whole layout.
CanFloat(d, g) ==
    /\ g \notin d.flt
    /\ d.gact[g] \notin d.full
    /\ d.outs # <<>>

\* The active window of a group that changed its placement gets the focus.
Refocus(d, g) ==
    IF d.gact[g] \in d.mapped THEN FocusWindow(d, d.gact[g]) ELSE d

FloatGroup(d, g) ==
    IF CanFloat(d, g)
    THEN Refocus([d EXCEPT !.flt = @ \cup {g}, !.pin[g] = None], g)
    ELSE d

\* onyrion_group_tile_id
CanTile(d, g) == g \in d.flt /\ d.gact[g] \notin d.full

\* Mutant: a group keeps its pin when it goes back to a tile.
TileGroupKeepsPin(d, g) ==
    IF CanTile(d, g) THEN Refocus([d EXCEPT !.flt = @ \ {g}], g) ELSE d

TileGroup(d, g) ==
    IF CanTile(d, g)
    THEN Refocus([d EXCEPT !.flt = @ \ {g}, !.pin[g] = None], g)
    ELSE d

\* A window moves to a new group of the workspace.
Detach(d, w, ws) == MoveWindow(CreateGroup(d, ws), w, NewGroup(d))

\* make_floating: a window with neighbours is first taken out of its group.
MakeFloating(d, w) ==
    LET s == d.own[w]
    IN  CASE s = None \/ s \in d.flt \/ w \in d.full -> d
          [] s # None /\ s \notin d.flt /\ w \notin d.full
               /\ Len(d.gwin[s]) = 1 -> FloatGroup(d, s)
          [] OTHER -> FloatGroup(Detach(d, w, d.gws[s]), NewGroup(d))

\* make_tiled, for a window of a group.
MakeTiled(d, w) ==
    LET s == d.own[w]
    IN  CASE s = None \/ s \notin d.flt \/ w \in d.full -> d
          [] s # None /\ s \in d.flt /\ w \notin d.full
               /\ Len(d.gwin[s]) = 1 -> TileGroup(d, s)
          [] OTHER -> Detach(d, w, d.gws[s])

\* g and its windows change workspace; the workspace it leaves falls back to
\* its most recent group, the one it joins takes it if it has none.
Rehome(d, g, ws) ==
    LET src == d.gws[g]
        e == [d EXCEPT !.gws[g] = ws,
                !.wws = [w \in Windows |-> IF d.own[w] = g THEN ws ELSE @[w]]]
    IN  [e EXCEPT
            !.wact[src] = IF @ = g THEN LastGroupIn(e, src) ELSE @,
            !.wact[ws] = IF @ = None THEN g ELSE @]

\* Mutant: the keyboard is left where it was.
StayOnSilent(d, g) == [d EXCEPT !.act = g]

\* The server stays on a workspace that has just lost its active group.
StayOn(d, g) ==
    LET e == [d EXCEPT !.act = g]
    IN  IF g # None /\ d.gact[g] # None THEN SetActiveWindow(e, g, d.gact[g])
        ELSE [e EXCEPT !.kbd = None]

\* move_floating_group_to_workspace.  A pin does not follow to another output.
MoveFloating(d, g, ws, pinFollow) ==
    LET src == d.gws[g]
        e == [Rehome(d, g, ws) EXCEPT
                !.pin[g] = IF d.home[src] # d.home[ws] /\ @ # d.home[ws]
                           THEN None ELSE @]
    IN  IF d.act = g /\ ~pinFollow THEN StayOn(e, e.wact[src]) ELSE e

\* onyrion_group_set_pinned_id, for a floating group of a workspace on a screen.
SetPinned(d, g, pinned) ==
    LET o == d.home[d.gws[g]]
        e == [d EXCEPT !.pin[g] = IF pinned THEN o ELSE None]
    IN  IF pinned /\ d.vis[o] \notin {NoWs, d.gws[g]}
        THEN MoveFloating(e, g, d.vis[o], TRUE) ELSE e

\* The tiled case of onyrion_group_move_to_workspace_id.
MoveTiled(d, g, ws) ==
    LET src == d.gws[g]
        e == Rehome(d, g, ws)
        f == IF d.act = g THEN StayOn(e, LastGroupIn(e, src)) ELSE e
    IN  SetActiveWindow(f, g, f.gact[g])

\* onyrion_group_move_to_workspace_id, once it is not refused.
MoveGroupTo(d, g, ws) ==
    IF g \in d.flt THEN MoveFloating(d, g, ws, FALSE) ELSE MoveTiled(d, g, ws)

\* onyrion_group_move_window_to_workspace_id: the window joins the active
\* group of the workspace, or a new one.
MoveWindowToWs(d, w, ws) ==
    IF d.wact[ws] # None THEN MoveWindow(d, w, d.wact[ws])
    ELSE Detach(d, w, ws)

-----------------------------------------------------------------------------
\* Commands made of several moves.

\* Mutant: the windows are taken from the end.
MoveWindowsReversed(d, list, target) ==
    FoldRight(LAMBDA w, e : MoveWindow(e, w, target), list, d)

\* onyrion_group_merge_id and onyrion_group_move_window_range_ids: the windows
\* move to the target one after the other.
MoveWindows(d, list, target) ==
    LET Moved[n \in 0..Len(list)] ==
            IF n = 0 THEN d ELSE MoveWindow(Moved[n - 1], list[n], target)
    IN  Moved[Len(list)]

\* The relinking of onyrion_group_move_window_relative_id.
PlaceBeside(d, w, ref, before) ==
    LET g == d.own[ref]
        rest == RemoveFirst(d.gwin[g], w)
        at == SelectInSeq(rest, LAMBDA x : x = ref)
    IN  [d EXCEPT !.gwin[g] = InsertAt(rest, IF before THEN at ELSE at + 1, w)]

\* onyrion_layout_split_active: the active window moves to a new group of the
\* focused workspace.
SplitActive(d) == Detach(d, d.gact[d.act], FocusedWs(d))

\* onyrion_workspace_activate_id
ActivateWorkspace(d, ws) ==
    IF d.home[ws] = None THEN d ELSE SwitchWorkspace(d, d.home[ws], ws, TRUE)

\* onyrion_group_focus_window_id, for a mapped window.
FocusWindowId(d, w) ==
    IF d.home[d.gws[d.own[w]]] = None THEN d
    ELSE FocusWindow(ActivateWorkspace(d, d.gws[d.own[w]]), w)

-----------------------------------------------------------------------------
\* The operations behind key bindings and shell requests, for arguments that
\* they do not refuse: the guards are those of the actions of Desktop.

\* Where the visible workspace of an output stands among its own.
Place(d, o) == SelectInSeq(d.asg[o], LAMBDA ws : ws = d.vis[o])

\* onyrion_workspace_next: past the last workspace of the focused output a new
\* one is made.
NextWorkspace(d) ==
    LET o == d.fo
        i == Place(d, o)
        new == CreateWorkspace(d)
    IN  IF i < Len(d.asg[o]) THEN SwitchWorkspace(d, o, d.asg[o][i + 1], TRUE)
        ELSE SwitchWorkspace(Assign(new, o, <<new.nws>>), o, new.nws, TRUE)

\* onyrion_workspace_previous
PreviousWorkspace(d) ==
    SwitchWorkspace(d, d.fo, d.asg[d.fo][Place(d, d.fo) - 1], TRUE)

\* find_adjacent_mapped_window: the next mapped window around the group.
Adjacent(d, g, forward) ==
    LET s == d.gwin[g]
        n == Len(s)
        i == SelectInSeq(s, LAMBDA x : x = d.gact[g])
        At(k) == s[1 + ((IF forward THEN i - 1 + k ELSE i - 1 + n - k) % n)]
        ks == {k \in 1..(n - 1) : At(k) \in d.mapped}
    IN  IF d.gact[g] = None \/ ks = {} THEN None ELSE At(Min(ks))

\* onyrion_group_window_next, onyrion_group_window_previous
CycleWindow(d, forward) == FocusWindow(d, Adjacent(d, d.act, forward))

\* onyrion_window_set_fullscreen
SetFullscreen(d, w, on) ==
    [d EXCEPT !.full = IF on THEN @ \cup {w} ELSE @ \ {w}]

\* onyrion_window_toggle_fullscreen_active
ToggleActive(d) ==
    LET w == d.gact[d.act] IN SetFullscreen(d, w, w \notin d.full)

\* onyrion_group_split_window_id
SplitWindowOut(d, w) == SplitActive(FocusWindowId(d, w))

\* onyrion_group_split_at_window_id: w and the windows after it leave.
SplitGroupAt(d, w) ==
    LET s == d.own[w]
        i == SelectInSeq(d.gwin[s], LAMBDA x : x = w)
        e == FocusWindowId(d, w)
    IN  MoveWindows(CreateGroup(e, d.gws[s]), SubSeq(d.gwin[s], i, Len(d.gwin[s])),
                    NewGroup(e))

\* onyrion_group_move_window_range_ids: the windows from first to last.
Between(d, first, last) ==
    LET s == d.gwin[d.own[first]]
        At(w) == SelectInSeq(s, LAMBDA x : x = w)
    IN  SubSeq(s, At(first), At(last))
=============================================================================
