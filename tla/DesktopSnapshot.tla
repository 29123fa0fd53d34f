---------------------------- MODULE DesktopSnapshot ----------------------------
(***************************************************************************)
(* The desktop with its transient windows (core/src/window.c): dialogs     *)
(* that follow the window they belong to and are tabs of no group; and the *)
(* snapshot of it that send_snapshot (core/src/shell_protocol.c) puts on   *)
(* the wire, against the strict validation of the Shell (snapshot_validate *)
(* in shell/src/state.c), which rejects a snapshot as a whole.             *)
(*                                                                         *)
(* A client chooses the parent of a window.  wlroots keeps it: it accepts  *)
(* mapped parents only, hands the children of a window that is unmapped to *)
(* the parent of that window, telling the compositor each time, and        *)
(* forgets the parent of the unmapped window itself without a word.        *)
(***************************************************************************)
EXTENDS Desktop

VARIABLES parent,     \* toplevel->parent, kept by wlroots
          transient,  \* the windows of placement TRANSIENT
          tws         \* window.workspace of those

vars == <<desk, parent, transient, tws>>

Exists == Managed \cup transient   \* server.windows

\* The handlers call one another: each is an operator from all of the state
\* to all of the state.
Now == [d |-> desk, parent |-> parent, transient |-> transient, tws |-> tws]
Become(s) ==
    /\ desk' = s.d /\ parent' = s.parent
    /\ transient' = s.transient /\ tws' = s.tws

WorkspaceOf(s, w) == IF w \in s.transient THEN s.tws[w] ELSE s.d.wws[w]

SnapshotInit ==
    /\ Init
    /\ parent = [w \in Windows |-> None]
    /\ transient = {}
    /\ tws = [w \in Windows |-> NoWs]

-----------------------------------------------------------------------------
\* onyrion_window_focus: a dialog takes the keyboard, the active group stays.
Focus(s, w) ==
    LET ws == WorkspaceOf(s, w) IN
    CASE w \notin s.d.mapped -> s
      [] w \in s.d.mapped /\ s.d.own[w] # None ->
           [s EXCEPT !.d = FocusWindow(@, w)]
      [] w \in s.d.mapped /\ s.d.own[w] = None ->
           IF IsVisible(s.d, ws)
           THEN [s EXCEPT !.d.fo = s.d.home[ws], !.d.kbd = w]
           ELSE s

\* make_transient
MakeTransient(s, w, p) ==
    Focus([s EXCEPT !.d = [RemoveWindow(@, w) EXCEPT !.wws[w] = NoWs],
                    !.transient = @ \cup {w},
                    !.tws[w] = WorkspaceOf(s, p)], w)

\* make_tiled for a window of no group: it becomes a tab of the active group
\* of its workspace, or of a new one when that group floats.
MakeTab(s, w) ==
    LET ws == s.tws[w]
        g == s.d.wact[ws]
        joins == g # None /\ g \notin s.d.flt
        e == IF joins THEN AddWindow(s.d, g, w)
             ELSE AddWindow(CreateGroup(s.d, ws), NewGroup(s.d), w)
    IN  Focus([s EXCEPT !.d = e, !.transient = @ \ {w}, !.tws[w] = NoWs], w)

\* Mutant: a dialog whose parent is gone stays a dialog.
HandleSetParentIgnoresLoss(s, w, p) ==
    LET e == [s EXCEPT !.parent[w] = p]
    IN  IF p # None THEN MakeTransient(e, w, p) ELSE e

\* handle_window_set_parent, after wlroots has set the parent to p.
HandleSetParent(s, w, p) ==
    LET e == [s EXCEPT !.parent[w] = p]
    IN  CASE p # None -> MakeTransient(e, w, p)
          [] p = None /\ w \in s.transient -> MakeTab(e, w)
          [] OTHER -> e

\* The ancestors of w, along toplevel->parent.
Ancestors(w) ==
    LET Up[n \in 0..Cardinality(Windows)] ==
            IF n = 0 THEN {parent[w]} \ {None}
            ELSE Up[n - 1] \cup ({parent[v] : v \in Up[n - 1]} \ {None})
    IN  Up[Cardinality(Windows)]

\* wlr_xdg_toplevel_set_parent refuses a loop, and takes a parent that is not
\* mapped for none.
SetParent(w, p) ==
    /\ w \in Exists
    /\ p \in Exists \cup {None}
    /\ p # None => w \notin Ancestors(p) \cup {p}
    /\ Become(HandleSetParent(Now, w, IF p \in desk.mapped THEN p ELSE None))

-----------------------------------------------------------------------------
\* Clients, with windows of both kinds.

\* handle_new_toplevel
CreateWindow(w) ==
    /\ w \notin Exists
    /\ NewToplevel(w)
    /\ UNCHANGED <<parent, transient, tws>>

\* handle_window_map
MapWindow(w, rule) ==
    \/ /\ w \notin transient
       /\ WindowMap(w, rule)
       /\ UNCHANGED <<parent, transient, tws>>
    \/ /\ w \in transient \ desk.mapped
       /\ rule = "none"
       /\ Become(Focus([Now EXCEPT !.d.mapped = @ \cup {w}], w))

\* handle_window_unmap: a dialog gives the focus to its parent.
Unmapped(s, w) ==
    LET e == [s EXCEPT !.d.mapped = @ \ {w}]
        g == s.d.own[w]
    IN  CASE w \in s.transient /\ s.parent[w] # None -> Focus(e, s.parent[w])
          [] w \in s.transient /\ s.parent[w] = None -> e
          [] w \notin s.transient /\ s.d.gact[g] = w ->
               [e EXCEPT !.d = SetActiveWindow(@, g, LastMapped(@, g))]
          [] OTHER -> e

\* The windows of a list are given the parent p, one after the other.
HandedOver(s, list, p) ==
    LET Given[n \in 0..Len(list)] ==
            IF n = 0 THEN s ELSE HandleSetParent(Given[n - 1], list[n], p)
    IN  Given[Len(list)]

\* Surface unmapped: handle_window_unmap, then the children go to the parent
\* of w (in the order in which they asked for w, not kept here), then w
\* returns to the state of a new toplevel, with no parent.
UnmapWindow(w) ==
    LET children == {c \in Exists : parent[c] = w}
        p == IF parent[w] \in desk.mapped THEN parent[w] ELSE None
    IN  /\ w \in desk.mapped
        /\ \E order \in SetToSeqs(children) :
             Become([HandedOver(Unmapped(Now, w), order, p) EXCEPT !.parent[w] = None])

\* destroy_window, of a window that has been unmapped
DestroyWindow(w) ==
    /\ w \in Exists \ desk.mapped
    /\ \/ w \in transient
          /\ desk' = [desk EXCEPT !.kbd = IF @ = w THEN None ELSE @]
       \/ w \notin transient /\ WindowDestroy(w)
    /\ parent' = [parent EXCEPT ![w] = None]
    /\ transient' = transient \ {w}
    /\ tws' = [tws EXCEPT ![w] = NoWs]

-----------------------------------------------------------------------------
\* Windows that belong to w through a chain of dialogs.
Dialogs(w) ==
    LET Down[n \in 0..Cardinality(Windows)] ==
            IF n = 0 THEN {c \in transient : parent[c] = w}
            ELSE Down[n - 1] \cup {c \in transient : parent[c] \in Down[n - 1]}
    IN  Down[Cardinality(Windows)]

\* Mutant: only the dialogs of the window itself.
CarriedOneLevel(d) ==
    [c \in Windows |->
        LET moved == {w \in Managed : /\ c \in transient /\ parent[c] = w
                                      /\ d.wws[w] # desk.wws[w]}
        IN  IF moved = {} THEN tws[c] ELSE d.wws[CHOOSE w \in moved : TRUE]]

\* onyrion_window_move_transients_to_workspace, called wherever a window of a
\* group goes to another workspace: where the dialogs are when the desktop
\* becomes d.
Carried(d) ==
    [c \in Windows |->
        LET moved == {w \in Managed : d.wws[w] # desk.wws[w] /\ c \in Dialogs(w)}
        IN  IF moved = {} THEN tws[c] ELSE d.wws[CHOOSE w \in moved : TRUE]]

\* handle_request_activate, onyrion_window_focus_id and the pointer over a
\* dialog; asked for by its id, its workspace is shown first, and groups that
\* are pinned to the output come along with their dialogs.
FocusDialog(w, byId) ==
    LET d == ActivateWorkspace(desk, tws[w]) IN
    /\ w \in transient \cap desk.mapped
    /\ IF byId
       THEN /\ desk.home[tws[w]] # None
            /\ Become(Focus([Now EXCEPT !.d = d, !.tws = Carried(d)], w))
       ELSE Become(Focus(Now, w))

\* Whatever else happens to the desktop takes the dialogs along.
DesktopStep ==
    /\ \/ OutputStep
       \/ PointerStep
       \/ FocusStep
       \/ PlaceStep
       \/ GroupingStep
       \/ \E w \in Windows : RequestActivate(w)
       \/ \E w \in Windows, on \in BOOLEAN : RequestFullscreen(w, on)
    /\ tws' = Carried(desk')
    /\ UNCHANGED <<parent, transient>>

DialogStep ==
    \E w \in Windows :
        \/ CreateWindow(w)
        \/ \E rule \in {"none", "floating", "tiled"} : MapWindow(w, rule)
        \/ UnmapWindow(w)
        \/ DestroyWindow(w)
        \/ \E p \in Windows \cup {None} : SetParent(w, p)
        \/ \E byId \in BOOLEAN : FocusDialog(w, byId)

SnapshotNext == DesktopStep \/ DialogStep

SnapshotSpec == SnapshotInit /\ [][SnapshotNext]_vars

-----------------------------------------------------------------------------
\* The snapshot.

\* Mutant: the windows counted are the tabs.
TabsOn(ws) == {w \in Managed : WorkspaceOf(Now, w) = ws}

\* get_workspace_counts
GroupsOn(ws) == {g \in Live(desk) : desk.gws[g] = ws}
WindowsOn(ws) == {w \in Exists : WorkspaceOf(Now, w) = ws}

Placement(w) ==
    CASE w \in transient -> "transient"
      [] w \notin transient /\ desk.own[w] \in desk.flt -> "floating"
      [] OTHER -> "tiled"

\* send_snapshot: what state_begin ... state_end carry.
Sent == [
    outputs |-> [o \in Plugged |->
        [focused |-> o = desk.fo, visible |-> desk.vis[o],
         assigned |-> Len(desk.asg[o])]],
    workspaces |-> [ws \in 1..desk.nws |->
        [groups |-> Cardinality(GroupsOn(ws)),
         windows |-> Cardinality(WindowsOn(ws)),
         output |-> desk.home[ws], visible |-> IsVisible(desk, ws)]],
    groups |-> [g \in Live(desk) |->
        [workspace |-> desk.gws[g], active |-> desk.wact[desk.gws[g]] = g,
         windows |-> Len(desk.gwin[g]), floating |-> g \in desk.flt,
         pin |-> desk.pin[g]]],
    windows |-> [w \in Exists |->
        [group |-> desk.own[w],
         active |-> desk.own[w] # None /\ desk.gact[desk.own[w]] = w,
         workspace |-> WorkspaceOf(Now, w), placement |-> Placement(w),
         parent |-> parent[w]]]]

\* snapshot_validate, one conjunct for each of its loops.
OutputsValid(s) ==
    /\ \A o \in DOMAIN s.outputs :
         LET out == s.outputs[o] IN
         /\ out.assigned = Cardinality({ws \in DOMAIN s.workspaces :
                                           s.workspaces[ws].output = o})
         /\ out.visible # NoWs =>
              /\ out.visible \in DOMAIN s.workspaces
              /\ s.workspaces[out.visible].visible
              /\ s.workspaces[out.visible].output = o
    /\ Cardinality({o \in DOMAIN s.outputs : s.outputs[o].focused}) <= 1

WorkspacesValid(s) ==
    \A ws \in DOMAIN s.workspaces :
        LET space == s.workspaces[ws]
            groups == {g \in DOMAIN s.groups : s.groups[g].workspace = ws}
        IN  /\ space.visible => space.output # None
            /\ space.output \in DOMAIN s.outputs \cup {None}
            /\ space.groups = Cardinality(groups)
            /\ space.windows = Cardinality({w \in DOMAIN s.windows :
                                               s.windows[w].workspace = ws})
            /\ Cardinality({g \in groups : s.groups[g].active}) <= 1

\* shell_state_set_group_placement: only a floating group has a pin.
GroupPlacementAccepted(group) == group.pin # None => group.floating

GroupsValid(s) ==
    \A g \in DOMAIN s.groups :
        LET group == s.groups[g]
            tabs == {w \in DOMAIN s.windows : s.windows[w].group = g}
        IN  /\ group.workspace \in DOMAIN s.workspaces
            /\ GroupPlacementAccepted(group)
            /\ group.pin \in DOMAIN s.outputs \cup {None}
            /\ group.windows = Cardinality(tabs)
            /\ Cardinality({w \in tabs : s.windows[w].active}) <= 1

WindowValid(s, win) ==
    /\ win.workspace \in DOMAIN s.workspaces
    /\ IF win.placement = "transient"
       THEN win.group = None /\ win.parent \in DOMAIN s.windows
       ELSE /\ win.parent = None
            /\ win.group \in DOMAIN s.groups
            /\ s.groups[win.group].workspace = win.workspace
            /\ s.groups[win.group].floating <=> win.placement = "floating"

Accepted(s) ==
    /\ OutputsValid(s)
    /\ WorkspacesValid(s)
    /\ GroupsValid(s)
    /\ \A w \in DOMAIN s.windows : WindowValid(s, s.windows[w])

-----------------------------------------------------------------------------
Orphans == {w \in transient : parent[w] = None}

\* The Shell accepts every state that the compositor may send between two
\* events, except those in which a dialog has no parent.
AcceptedUnlessOrphans == Accepted(Sent) <=> Orphans = {}

\* A dialog is left without a parent by its own unmapping and nothing else:
\* when its parent goes, it is given to the parent of that one or becomes a
\* tab (handle_window_set_parent).
OrphanedByOwnUnmap ==
    [][\A w \in transient' :
         parent'[w] = None /\ w \notin Orphans
           => w \in desk.mapped \ desk'.mapped]_vars

\* A dialog that is on the workspace of its parent is not parted from it by
\* what happens to the desktop, whichever of them the command names: it goes
\* where its parent goes, through any chain of dialogs
\* (onyrion_window_move_transients_to_workspace).  Only a client parts them, by
\* giving the parent a parent elsewhere: make_transient takes no dialogs.
StayTogether ==
    [][\A c \in transient \cap transient' :
         LET p == parent[c] IN
         /\ p # None /\ parent'[c] = p
         /\ WorkspaceOf(Now, c) = WorkspaceOf(Now, p)
         /\ WorkspaceOf(Now, c)' # WorkspaceOf(Now, p)'
         => parent'[p] # parent[p] \/ \E q \in Windows : SetParent(p, q)]_vars
=============================================================================
