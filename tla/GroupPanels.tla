----------------------------- MODULE GroupPanels -----------------------------
(* The panels of the groups, from the compositor to the user's screen and     *)
(* back.  The compositor's desktop reaches the shell daemon as snapshots; a   *)
(* watcher (`onyrion-shell watch-state --ewwii`) projects each one on what    *)
(* Ewwii has to show, opens and closes Ewwii's windows by one command after   *)
(* the other, and only then prints the projection, which Ewwii hands to the   *)
(* plugin that draws the panels.  The plugin's bridge gives every panel a     *)
(* group surface of the compositor; the compositor tells it the group's size, *)
(* and the bridge answers with the panel's place and the space the group's    *)
(* windows must leave to it.  Ewwii is started by a script that kills it if   *)
(* the bar does not come up, and the provider runtime starts it again.        *)
(* Nothing ends a watcher when its Ewwii ends: it may stay behind on the      *)
(* daemon's socket, and deal with the next Ewwii by what it remembers of the  *)
(* last, until it prints a line that nobody reads.                            *)
(*                                                                            *)
(* One output.  Outside of src/: Ewwii runs the watcher once a window of its  *)
(* own is open, hands its lines on in order, and does not run it again when   *)
(* it ends; it makes a window anew that is opened again, and refuses to close *)
(* one that it does not have; requests and events of one connection arrive in *)
(* order.                                                                     *)
EXTENDS Naturals, Sequences, FiniteSets

CONSTANTS Groups, Heights, UiHeight, None,
          Gone,      \* a group that was: its id is never used again
          Watchers,  \* bound: watchers at a time, the one Ewwii reads and those left behind
          Meddlings, \* bound: commands of the watchers left behind an Ewwii is given
          Changes,   \* bound: changes of the desktop
          Faults     \* bound: commands that fail, processes that die or are left behind

Bar == "bar"
Background == "background"
Workspaces == 1..2

\* A group of the desktop, its surface in the compositor, its panel in Ewwii.
Group == [workspace : Workspaces, height : Heights, tabs : 1..2, full : BOOLEAN]
\* A role of the bridge is told by the snapshot and the watcher it was opened for.
Role == Nat \X Watchers
Surface == [since : Role, height : Nat, sent : Nat, shown : BOOLEAN]
Panel == [since : Role, height : Nat, tabs : Nat]

ASSUME PanelAssumption ==
    /\ Heights \subseteq Nat \ {0} /\ Heights # {} /\ UiHeight \in Nat \ {0}
    /\ Meddlings \in Nat /\ Changes \in Nat /\ Faults \in Nat
    /\ Bar \notin Groups /\ Background \notin Groups
    /\ None \notin Groups \cup {Gone} \cup Group \cup Surface \cup Panel
    /\ Gone \notin Group /\ None \notin Watchers /\ Watchers # {}

VARIABLES
    desk,      \* the compositor's groups, and the workspace on the output
    gen,       \* the generation of the desktop
    surf,      \* the group surfaces the compositor has
    insets,    \* the space a group leaves to its panel, None: the core's chrome
    up, down,  \* requests to the compositor and events from it, in flight
    snap,      \* the daemon's snapshot
    watch,     \* the watchers, each with the windows it believes open, None: it never asked
    live,      \* the one Ewwii reads, None: it has not run any
    lines,     \* what that one printed and Ewwii has not read
    meddled,   \* history: the commands watchers left behind have given this Ewwii
    ewwii,     \* the Ewwii process and its start script
    open,      \* the bars and backgrounds Ewwii shows
    panel,     \* its panel windows, with their role and their drawing
    bridge,    \* whether the plugin's bridge found the compositor's protocol
    pend,      \* the newest projection the plugin has stored
    drawn,     \* the generation the panels were drawn from
    changes, faults

coreVars == <<desk, gen, surf, insets>>
watchVars == <<watch, live, meddled>>
pluginVars == <<bridge, pend, drawn>>
ewwiiVars == <<ewwii, open, panel>>
budget == <<changes, faults>>
panelVars == <<coreVars, up, down, snap, watchVars, lines, ewwiiVars, pluginVars, budget>>

SmallerOf(a, b) == IF a < b THEN a ELSE b
NoPanels == [g \in Groups |-> None]
NoView == [gen |-> 0, bar |-> FALSE, workspace |-> 1, tabs |-> <<>>]

\* A watcher that is not running.
Off == [at |-> "off", gen |-> 0, view |-> NoView, cache |-> None]

-----------------------------------------------------------------------------
(* What a snapshot asks Ewwii to show. *)

Exists(d, g) == d.group[g] \notin {None, Gone}

Visible(d) == {g \in Groups : Exists(d, g) /\ d.group[g].workspace = d.shown}

Fullscreen(d) == \E g \in Visible(d) : d.group[g].full

Tabs(d) == [g \in Visible(d) |-> d.group[g].tabs]

Project(s) == [gen |-> s.gen, bar |-> ~Fullscreen(s.desk),
               workspace |-> s.desk.shown, tabs |-> Tabs(s.desk)]

\* The windows a projection wants, and the ones Ewwii has.
Desired(view) ==
    DOMAIN view.tabs \cup {Background} \cup (IF view.bar THEN {Bar} ELSE {})

ActiveWindows == open \cup {g \in Groups : panel[g] # None}

\* What the panel of a group is drawn from, 0: an empty panel.
GroupFor(view, g) == IF g \in DOMAIN view.tabs THEN view.tabs[g] ELSE 0

-----------------------------------------------------------------------------
(* The compositor: its desktop, and the surfaces that belong to its groups. *)

\* Mutant: a surface is told the size of its group once.
SizeNew(d, g, s) == s.sent = 0

\* A surface is told the size of its group once, and again when it changes.
SizeChanged(d, g, s) == s.sent # d.group[g].height

SentSize(d, g, s) == [s EXCEPT !.sent = d.group[g].height]

Configure(d, g, s) ==
    [kind |-> "configure", group |-> g, since |-> s.since, height |-> d.group[g].height]

\* A surface is hidden while its group's window covers the screen.
Applied(d, g, s) == [s EXCEPT !.shown = ~d.group[g].full]

\* A surface outlives its group without a place on the screen.
Inert(d, g) == ~Exists(d, g)

\* The surfaces once the desktop is d.
Refreshed(d) ==
    [g \in Groups |->
        IF surf[g] = None \/ Inert(d, g) THEN None
        ELSE Applied(d, g, SentSize(d, g, surf[g]))]

Resized(d) ==
    {g \in Groups : surf[g] # None /\ Exists(d, g) /\ SizeChanged(d, g, surf[g])}

\* The desktop changes: the surfaces follow, and no one else hears of it yet.
Becomes(d) ==
    /\ changes < Changes
    /\ d # desk
    /\ desk' = d /\ gen' = gen + 1 /\ changes' = changes + 1
    /\ surf' = Refreshed(d)
    /\ insets' = [g \in Groups |-> IF Exists(d, g) THEN insets[g] ELSE None]
    /\ \/ Resized(d) = {} /\ down' = down
       \/ \E g \in Resized(d) : down' = Append(down, Configure(d, g, surf[g]))
    /\ UNCHANGED <<up, snap, watchVars, lines, ewwiiVars, pluginVars, faults>>

OpenGroup(g, h) ==
    /\ desk.group[g] = None
    /\ Becomes([desk EXCEPT !.group[g] =
        [workspace |-> desk.shown, height |-> h, tabs |-> 1, full |-> FALSE]])

CloseGroup(g) ==
    Exists(desk, g) /\ Becomes([desk EXCEPT !.group[g] = Gone])

ResizeGroup(g, h) ==
    Exists(desk, g) /\ Becomes([desk EXCEPT !.group[g].height = h])

ChangeTabs(g, n) ==
    Exists(desk, g) /\ Becomes([desk EXCEPT !.group[g].tabs = n])

SetFullscreen(g, on) ==
    Exists(desk, g) /\ Becomes([desk EXCEPT !.group[g].full = on])

ShowWorkspace(w) == Becomes([desk EXCEPT !.shown = w])

\* Nothing of this code ends the watcher with its Ewwii; Ewwii may, where it
\* ends in order.
Spare == \E w \in Watchers : w # live /\ watch[w] = Off

LeaveWatcher(stays) ==
    /\ stays => live # None /\ watch[live].at # "off" /\ Spare
    /\ watch' = IF live = None \/ stays THEN watch ELSE [watch EXCEPT ![live] = Off]
    /\ live' = None /\ meddled' = 0

\* Ewwii is gone: its connection's end takes its surfaces and gives the groups
\* their chrome back; its provider's state starts from nothing.
EwwiiGone(stays) ==
    /\ ewwii' = "down" /\ open' = {} /\ panel' = NoPanels
    /\ surf' = NoPanels /\ insets' = NoPanels /\ up' = <<>> /\ down' = <<>>
    /\ LeaveWatcher(stays)
    /\ lines' = <<>> /\ bridge' = "unknown"
    /\ pend' = NoView /\ drawn' = 0

\* Bound: a watcher that stays behind costs a change, and a fault where nothing
\* else has failed.
EwwiiEnds ==
    \/ EwwiiGone(FALSE) /\ UNCHANGED budget
    \/ /\ EwwiiGone(TRUE) /\ faults < Faults /\ changes < Changes
       /\ faults' = faults + 1 /\ changes' = changes + 1

EwwiiFails ==
    /\ faults < Faults /\ faults' = faults + 1
    /\ \/ EwwiiGone(FALSE) /\ UNCHANGED changes
       \/ EwwiiGone(TRUE) /\ changes < Changes /\ changes' = changes + 1

\* The compositor reads a request.  One that names a group that is gone is a
\* protocol error, and the connection with everything on it ends.
Request(kind) == up # <<>> /\ Head(up).kind = kind

Event(kind) == down # <<>> /\ Head(down).kind = kind

Unanswerable ==
    /\ Request("create") \/ Request("place")
    /\ ~Exists(desk, Head(up).group)
    /\ EwwiiEnds
    /\ UNCHANGED <<desk, gen, snap>>

GetGroupSurface ==
    /\ Request("create")
    /\ LET g == Head(up).group
           s == [since |-> Head(up).since, height |-> 0, sent |-> 0, shown |-> FALSE] IN
        /\ Exists(desk, g)
        /\ surf' = [surf EXCEPT ![g] = Applied(desk, g, SentSize(desk, g, s))]
        /\ down' = Append(down, Configure(desk, g, s))
    /\ up' = Tail(up)
    /\ UNCHANGED <<desk, gen, insets, snap, watchVars, lines, ewwiiVars, pluginVars, budget>>

\* set_rect and set_layer, which an inert surface ignores.
Placed(g, h) ==
    IF surf[g] = None THEN surf
    ELSE [surf EXCEPT ![g] = Applied(desk, g, [@ EXCEPT !.height = h])]

\* The insets of the group, which need no surface: its chrome gives way.
Reserved(g, h) == [insets EXCEPT ![g] = h]

PlaceSurface ==
    /\ Request("place")
    /\ LET m == Head(up) IN
        /\ Exists(desk, m.group)
        /\ surf' = Placed(m.group, m.height) /\ insets' = Reserved(m.group, m.height)
    /\ up' = Tail(up)
    /\ UNCHANGED <<desk, gen, down, snap, watchVars, lines, ewwiiVars, pluginVars, budget>>

DestroySurface ==
    /\ Request("destroy")
    /\ LET m == Head(up) IN
        surf' = IF surf[m.group] = None \/ surf[m.group].since # m.since THEN surf
                ELSE [surf EXCEPT ![m.group] = None]
    /\ up' = Tail(up)
    /\ UNCHANGED <<desk, gen, insets, down, snap, watchVars, lines, ewwiiVars,
                   pluginVars, budget>>

-----------------------------------------------------------------------------
(* The bridge of the plugin: one role per panel window. *)

\* Asked once per process whether the compositor speaks the protocol.
EnsureProtocol ==
    IF bridge # "unknown" THEN bridge' = bridge /\ UNCHANGED faults
    ELSE \/ bridge' = "ready" /\ UNCHANGED faults
         \/ faults < Faults /\ bridge' = "refused" /\ faults' = faults + 1

\* The plugin draws a new window from what it has stored.
PrepareWindow(g, role) == [since |-> role, height |-> 0, tabs |-> GroupFor(pend, g)]

\* GTK makes its surface: the bridge asks for a group surface.
ExternalRoleCreate(g, role) == [kind |-> "create", group |-> g, since |-> role]

\* Mutant: the role forgets its surface and does not destroy it.
RoleForgotten(g) == up

\* The role of a window that goes lets the surface go with it.
ExternalRoleDestroy(g) ==
    IF panel[g] = None THEN up
    ELSE Append(up, [kind |-> "destroy", group |-> g, since |-> panel[g].since])

\* Ewwii builds the panel's window, with a role of the bridge; one it has
\* already goes first.
PreparePanel(g, role) ==
    /\ panel' = [panel EXCEPT ![g] = PrepareWindow(g, role)]
    /\ up' = Append(ExternalRoleDestroy(g), ExternalRoleCreate(g, role))

ReleasePanel(g) ==
    /\ panel' = [panel EXCEPT ![g] = None]
    /\ up' = ExternalRoleDestroy(g)

\* The poll of the bridge's queue.  Events of a surface let go are dropped;
\* the answer to a size is the panel's place and the group's insets.
GroupConfigure ==
    /\ Event("configure")
    /\ LET e == Head(down)
           g == e.group
           h == SmallerOf(UiHeight, e.height) IN
        IF panel[g] = None \/ panel[g].since # e.since
        THEN UNCHANGED <<panel, up>>
        ELSE /\ panel' = [panel EXCEPT ![g].height = e.height]
             /\ up' = Append(up, [kind |-> "place", group |-> g, height |-> h])
    /\ down' = Tail(down)
    /\ UNCHANGED <<coreVars, snap, watchVars, lines, ewwii, open, pluginVars, budget>>

-----------------------------------------------------------------------------
(* The watchers and their adapter to Ewwii. *)

\* A watcher asks for a snapshot newer than the last.  While the daemon does
\* not listen yet it asks again, up to a hundred times in its first seconds.
Connect(w) ==
    /\ watch[w].at = "connect"
    /\ watch' = [watch EXCEPT ![w].at = "wait"]
    /\ UNCHANGED <<coreVars, up, down, snap, live, lines, meddled, ewwiiVars, pluginVars, budget>>

Receive(w) ==
    /\ watch[w].at = "wait" /\ snap.gen > watch[w].gen
    /\ watch' = [watch EXCEPT ![w] = [@ EXCEPT !.at = "work", !.gen = snap.gen, !.view = Project(snap)]]
    /\ UNCHANGED <<coreVars, up, down, snap, live, lines, meddled, ewwiiVars, pluginVars, budget>>

Working(w) == watch[w].at = "work"

\* Ewwii answers commands.
Served == ewwii # "down"

\* The adapter asks Ewwii once what it shows; from then on it only remembers.
Seeded(w) == watch[w].cache # None

SeedRuntime(w) ==
    /\ Working(w) /\ ~Seeded(w) /\ Served
    /\ watch' = [watch EXCEPT ![w].cache = ActiveWindows]
    /\ UNCHANGED <<coreVars, up, down, snap, live, lines, meddled, ewwiiVars, pluginVars, budget>>

\* One command at a time: the panels to close, the panels to open, the
\* background, the bar.
Commanding(w) == Working(w) /\ Seeded(w) /\ Served
Stale(w) == (watch[w].cache \cap Groups) \ DOMAIN watch[w].view.tabs
Missing(w) == DOMAIN watch[w].view.tabs \ watch[w].cache
Wanted(w, root) == root \in Desired(watch[w].view)
Settled(w, root) == root \in watch[w].cache <=> Wanted(w, root)
Done(w) == Seeded(w) /\ watch[w].cache = Desired(watch[w].view)

\* What it remembers once a command has answered; one that failed ends it.  One
\* left behind reports it on a pipe that went with its Ewwii, at the latest
\* when it prints its projection.
CommandAnswered(w, windows, success) ==
    /\ meddled' = IF w = live THEN meddled ELSE meddled + 1
    /\ watch' = [watch EXCEPT ![w] = IF success /\ (w # live => meddled' < Meddlings)
                                    THEN [@ EXCEPT !.cache = windows] ELSE Off]

CloseStale(w, g) ==
    /\ Commanding(w) /\ g \in Stale(w)
    /\ ReleasePanel(g)
    /\ CommandAnswered(w, watch[w].cache \ {g}, panel[g] # None)
    /\ UNCHANGED <<coreVars, down, snap, live, lines, ewwii, open, pluginVars, budget>>

OpenMissing(w, g) ==
    /\ Commanding(w) /\ Stale(w) = {} /\ g \in Missing(w)
    /\ EnsureProtocol
    /\ IF bridge' = "ready" THEN PreparePanel(g, <<watch[w].gen, w>>) ELSE UNCHANGED <<panel, up>>
    /\ CommandAnswered(w, watch[w].cache \cup {g}, bridge' = "ready")
    /\ UNCHANGED <<coreVars, down, snap, live, lines, ewwii, open, pend, drawn, changes>>

SetRoot(w, root) ==
    /\ Commanding(w) /\ Stale(w) \cup Missing(w) = {} /\ ~Settled(w, root)
    /\ LET With(windows) == IF Wanted(w, root) THEN windows \cup {root} ELSE windows \ {root} IN
        /\ open' = With(open)
        /\ CommandAnswered(w, With(watch[w].cache), Wanted(w, root) \/ root \in open)
    /\ UNCHANGED <<coreVars, up, down, snap, live, lines, ewwii, panel, pluginVars, budget>>

SetBackground(w) == SetRoot(w, Background)

SetBar(w) == Commanding(w) /\ Settled(w, Background) /\ SetRoot(w, Bar)

\* Only when all of them are done it prints the new state.  Where Ewwii does
\* not read it any more, the pipe's signal is its end.
PrintProjection(w) ==
    /\ Working(w) /\ Done(w)
    /\ IF w = live
       THEN /\ lines' = Append(lines, watch[w].view)
            /\ watch' = [watch EXCEPT ![w].at = "wait", ![w].view = NoView]
       ELSE watch' = [watch EXCEPT ![w] = Off] /\ UNCHANGED lines
    /\ UNCHANGED <<coreVars, up, down, snap, live, meddled, ewwiiVars, pluginVars, budget>>

\* The daemon does not answer in time, or a command fails: the watcher ends.
\* One left behind may find no Ewwii, or write to a pipe that is no more.
WatcherFails(w) ==
    /\ watch[w].at = "connect" \/ (Working(w) /\ ~Done(w))
    /\ watch' = [watch EXCEPT ![w] = Off]
    /\ IF w = live THEN faults < Faults /\ faults' = faults + 1 ELSE faults' = faults
    /\ UNCHANGED <<coreVars, up, down, snap, live, lines, meddled, ewwiiVars, pluginVars, changes>>

-----------------------------------------------------------------------------
(* The plugin's drawing. *)

\* Only a newer projection is stored.
Ingest(view) == pend' = IF view.gen > pend.gen THEN view ELSE pend

\* Ewwii reads a line, and the plugin hears of it.
ReadLine ==
    /\ lines # <<>>
    /\ lines' = Tail(lines)
    /\ Ingest(Head(lines))
    /\ UNCHANGED <<coreVars, up, down, snap, watchVars, ewwiiVars, bridge, drawn, budget>>

\* Its tabs are thrown away and made anew.
Rebuilt(p, tabs) == [p EXCEPT !.tabs = tabs]

\* A timer of GTK's loop draws what has been stored since.
DrawPanels ==
    /\ drawn # pend.gen /\ drawn' = pend.gen
    /\ panel' = [g \in Groups |-> IF panel[g] = None THEN None
                                  ELSE Rebuilt(panel[g], GroupFor(pend, g))]
    /\ UNCHANGED <<coreVars, up, down, snap, watchVars, lines, ewwii, open, bridge, pend, budget>>

-----------------------------------------------------------------------------
(* Ewwii's process and its start script. *)

StartEwwii ==
    /\ ewwii = "down" /\ ewwii' = "started"
    /\ UNCHANGED <<coreVars, up, down, snap, watchVars, lines, open, panel, pluginVars, budget>>

\* Ewwii runs its listener once it has a window: the script opens one for it.
OpenSeedWindow ==
    /\ ewwii = "started" /\ ewwii' = "seeded"
    /\ UNCHANGED <<coreVars, up, down, snap, watchVars, lines, open, panel, pluginVars, budget>>

RunWatcher(w) ==
    /\ live = None /\ w = CHOOSE x \in Watchers : watch[x] = Off
    /\ ewwii \in {"seeded", "ready"} \/ ActiveWindows # {}
    /\ live' = w /\ watch' = [watch EXCEPT ![w].at = "connect"]
    /\ UNCHANGED <<coreVars, up, down, snap, lines, meddled, ewwiiVars, pluginVars, budget>>

\* The bar is up: the script closes its window and leaves.
BarUp ==
    /\ ewwii = "seeded" /\ Bar \in open /\ ewwii' = "ready"
    /\ UNCHANGED <<coreVars, up, down, snap, watchVars, lines, open, panel, pluginVars, budget>>

\* The script counts 240 attempts from Ewwii's start, and kills an Ewwii whose
\* bar is not up by then.  They are over in the end when no bar will come: the
\* watcher has ended, or waits and knows the desktop.
NoBarComes ==
    /\ ewwii = "seeded" /\ Bar \notin open /\ live # None
    /\ watch[live].at = "off" \/ (watch[live].at = "wait" /\ watch[live].gen = gen)

GiveUp == NoBarComes /\ EwwiiEnds /\ UNCHANGED <<desk, gen, snap>>

\* They may be over before: Ewwii or its plugin came up late, a command of the
\* watcher, none of which has a deadline, took long.
GiveUpEarly ==
    /\ ewwii \in {"started", "seeded"} /\ EwwiiFails
    /\ UNCHANGED <<desk, gen, snap>>

EwwiiDies ==
    /\ ewwii # "down" /\ EwwiiFails
    /\ UNCHANGED <<desk, gen, snap>>

-----------------------------------------------------------------------------
\* The daemon learns the desktop's state (ShellLink says how).
DaemonLearns ==
    /\ snap.gen # gen /\ snap' = [gen |-> gen, desk |-> desk]
    /\ UNCHANGED <<coreVars, up, down, watchVars, lines, ewwiiVars, pluginVars, budget>>

\* The desktop is up with one group, and the shell has just been started (bound:
\* of one height; it may be given another).
PanelInit ==
    /\ LET g == CHOOSE x \in Groups : TRUE
           h == CHOOSE x \in Heights : TRUE IN
        desk = [shown |-> 1, group |-> [x \in Groups |-> IF x = g THEN
            [workspace |-> 1, height |-> h, tabs |-> 1, full |-> FALSE] ELSE None]]
    /\ gen = 1 /\ surf = NoPanels /\ insets = NoPanels
    /\ up = <<>> /\ down = <<>> /\ snap = [gen |-> 1, desk |-> desk]
    /\ watch = [w \in Watchers |-> Off] /\ live = None /\ meddled = 0
    /\ lines = <<>> /\ ewwii = "down" /\ open = {} /\ panel = NoPanels
    /\ bridge = "unknown" /\ pend = NoView /\ drawn = 0 /\ changes = 0 /\ faults = 0

Desktop ==
    \/ \E g \in Groups, h \in Heights : OpenGroup(g, h) \/ ResizeGroup(g, h)
    \/ \E g \in Groups : CloseGroup(g) \/ (\E n \in 1..2 : ChangeTabs(g, n))
    \/ \E g \in Groups, on \in BOOLEAN : SetFullscreen(g, on)
    \/ \E w \in Workspaces : ShowWorkspace(w)

Core == Unanswerable \/ GetGroupSurface \/ PlaceSurface \/ DestroySurface

Watcher(w) ==
    \/ RunWatcher(w) \/ Connect(w) \/ Receive(w) \/ SeedRuntime(w) \/ SetBackground(w) \/ SetBar(w)
    \/ PrintProjection(w)
    \/ \E g \in Groups : CloseStale(w, g) \/ OpenMissing(w, g)

Script == StartEwwii \/ OpenSeedWindow \/ BarUp

PanelNext ==
    \/ Desktop \/ Core \/ Script \/ ReadLine
    \/ \E w \in Watchers : Watcher(w) \/ WatcherFails(w)
    \/ GroupConfigure \/ DrawPanels \/ GiveUp \/ DaemonLearns
    \/ GiveUpEarly \/ EwwiiDies

\* Each loop turns: the compositor's, the bridge's poll, the watchers', the
\* timer of the plugin, the script's, the daemon's.  Nothing has to fail or to
\* change.
PanelFairness ==
    /\ WF_panelVars(Core) /\ WF_panelVars(ReadLine) /\ WF_panelVars(Script)
    /\ \A w \in Watchers : WF_panelVars(Watcher(w))
    /\ WF_panelVars(GroupConfigure) /\ WF_panelVars(DrawPanels)
    /\ WF_panelVars(GiveUp) /\ WF_panelVars(DaemonLearns)

PanelSpec == PanelInit /\ [][PanelNext]_panelVars /\ PanelFairness

-----------------------------------------------------------------------------
PanelRight(g) ==
    /\ panel[g] # None /\ surf[g] # None
    /\ panel[g].height = desk.group[g].height
    /\ panel[g].tabs = desk.group[g].tabs
    /\ surf[g].height = SmallerOf(UiHeight, desk.group[g].height)
    /\ insets[g] = surf[g].height
    /\ surf[g].shown = ~desk.group[g].full

ScreenRight ==
    /\ \A g \in Visible(desk) : PanelRight(g)
    /\ \A g \in Groups \ Visible(desk) : panel[g] = None /\ surf[g] = None
    /\ open = {Background} \cup (IF Fullscreen(desk) THEN {} ELSE {Bar})
    /\ pend.workspace = desk.shown

\* The watcher failed once the start script had left: nobody runs it again.
Deaf == live # None /\ watch[live].at = "off" /\ (ewwii = "ready" \/ Bar \in open)

\* Ewwii was started behind a fullscreen window: its bar never comes up.
BarAwaited == ewwii \in {"down", "started", "seeded"} /\ Fullscreen(desk)

\* A watcher left behind by an earlier Ewwii has opened or closed windows of
\* this one, and the watcher of this one remembers them otherwise.
Misled == meddled > 0 /\ live # None /\ watch[live].cache \notin {None, ActiveWindows}

\* Once the desktop is left alone the screen comes to show it and stays so: a
\* panel for each group on the workspace and none besides, of the group's size,
\* with its tabs, and the group leaves room for it; the bar unless a window is
\* fullscreen.  Each of the watcher, the bridge, the compositor's surfaces and
\* the plugin can lose a step to a change between; the exceptions are a watcher
\* that failed after the start script left, a bar that cannot come up, and a
\* watcher whose memory one of an earlier Ewwii has made wrong
\* (watch_daemon_state, onyrion_group_surface_refresh, ewwii_adapter_reconcile).
PanelsInTheEnd == <>[](ScreenRight \/ Deaf \/ BarAwaited \/ Misled)

\* A request of the life of a panel's surface.
About(m, g) == m.kind \in {"create", "destroy"} /\ m.group = g

\* The panel is the one a surface was made for.
Answers(g, role) == panel[g] # None /\ panel[g].since = role

\* Once the compositor has read what is on its way, a group that is still there
\* has a surface just when it has a panel, and that panel's own: a panel may be
\* closed and opened again, by two watchers, before its first surface is made;
\* a surface left over would be seen, and take the pointer, over the windows
\* (external_role_create, external_role_destroy, destroy_group_surface_state).
SurfacePerPanel ==
    \A g \in Groups : Exists(desk, g) =>
        /\ (\A i \in 1..Len(up) : ~About(up[i], g)) =>
             IF surf[g] = None THEN panel[g] = None ELSE Answers(g, surf[g].since)
        /\ \A i \in 1..Len(up) :
             About(up[i], g) /\ (\A j \in 1..Len(up) : j > i => ~About(up[j], g)) =>
                IF up[i].kind = "destroy" THEN panel[g] = None ELSE Answers(g, up[i].since)
=============================================================================
