# Onyrion in TLA+

Onyrion is a Wayland desktop in two halves. **Core** (`core/`, C23 on wlroots
0.20) is the compositor: it owns outputs, workspaces, groups and windows, the
keyboard, the session lock. **Shell** (`shell/`) is a session supervisor, a
daemon that follows the compositor's state and supervises UI providers, and
the tools and plugins that draw the panels. This directory holds TLA+ models of
the parts where the order of events matters, TLC configurations that check them
on small instances, and proofs, checked by TLAPS, of what must hold for every
instance.

Everything is written from the source; paths below are relative to the
repository. `PROJECT.json` names, for every definition that models code, the
lines it stands for; for every property a mutation of the model that TLC must
catch; and the places in the code that are hard to test, with the properties
that cover them.

To repeat a check or a proof, in this directory:

    tlc -config SessionLock.cfg MCSessionLock.tla
    tlapm Session_proofs.tla

## 1. Inventory

Every process is a single-threaded event loop. What interleaves is the events:
clients, outputs, keyboards, timers, child processes and the other end of each
socket act when they like, and each handler runs to its end.

| component | source | state | operations | what is hard | what makes it correct | model |
|---|---|---|---|---|---|---|
| session lock | `core/src/session_lock.c`, frame and present handlers of `output.c` | attached lock, `secure`, `locked_sent`, per output `presented`, `secure_commit_pending`, `secure_commit_seq` | new lock, unlock, lock destroyed, output added and removed, frame, present | frames already in flight, sequence numbers that wrap, failed and dropped frames, hotplug, a locker that dies | "locked" is never early; only an unlock opens; a request is answered | SessionLock |
| keyboard focus | `input.c`, `layer_shell.c`, `session_lock.c` | the seat's keyboard and focus, layer surfaces by interest, lock surfaces, active window | map, unmap, commit, click, plug, unplug, lock, unlock | four parties ask, requests are dropped silently | no typing reaches the desktop while locked; exclusive surfaces hold; no focus on dead surfaces | SeatFocus |
| desktop: outputs, workspaces, groups, windows | `output.c`, `workspace.c`, `group.c`, `window.c`, `action.c` | ordered lists of each, visible and assigned workspaces, active group per workspace and for the server, active window per group, pins, floating, fullscreen, parents | hotplug, some thirty commands, client events, pointer motion | objects destroyed in the middle of the command that moves them; pointers in both directions; hidden workspaces | lists and pointers agree, nothing dangles, the keyboard follows the active window | DesktopOps, Desktop, DesktopSnapshot |
| layout tree | `layout.c`, boxes of `group.c` | per workspace a tree of splits with tiles as leaves, a list of tiles, a box per tile; the border that is dragged | insert, remove, swap, move by direction, by drop and between workspaces, split, flip, resize, reflow, focus by direction | nodes freed in the middle of a move; boxes of hidden workspaces; rounding; a drag across a change of the tree | one tree per workspace; tiles fit; every tile can be reached; the border follows the pointer | LayoutTree |
| floating groups | `window.c`, `group.c`, `input.c` | box of each group, limits of its client, box at the press | float, place, move, resize | limits that contradict one another; panels that come during a drag | the edge not dragged stays; the box fits | FloatingGroups |
| input modes | `input.c`, recovery window of `fallback.c` | chrome drag, layout resize, window interaction, gesture, captured buttons, standalone Super per keyboard, recovery panel | press, motion, release, keys, gestures, requests of clients and the Shell, unplug, new policy, lock | modes begun before an event that ends what they hold; several devices at once | nothing acts behind the lock; taps are clean; no grab outlives its target | InputModes |
| panels of the groups | `group_surface.c`, plugin `group_surface_bridge.c` and `tabgroup_renderer.rs`, `widget_model.c`, `ewwii_adapter.c`, watcher of `main.c`, `start-ewwii.sh` | snapshot, projection, cache of open windows, surfaces with size and place, insets of groups, hint of a drag | snapshot, project, open, close, get surface, configure, place, draw, drag | five processes in a row, each working on what the one before it knew | the screen comes to show the desktop; each panel has its own surface and no other; a drop lands where the pointer is | GroupPanels, PanelDrag |
| shell protocol, compositor side | `shell_protocol.c` | resources, controller, pending invocations, serial, generation | bind, get_state, claim, release, result, invoke, mark changed, resource destroyed | a dead controller not yet noticed, serial reuse, a snapshot that crosses a change | one controller, recovery exactly without one, each invocation settled once | ShellLink, ControllerRole; contents: DesktopSnapshot |
| shell daemon, its side of the link and the control socket | `shell/src/main.c` | request outstanding, latest change, snapshot, claim; watchers | changed, state_end, claim result, invoke, WATCH_STATE, stop | a change during a snapshot, a watcher between two requests | no lost change, no lost wake-up | ShellLink |
| shell state | `shell/src/state.c` | pending and committed snapshot | begin, records, end with validation | all or nothing: one wrong record freezes the Shell | what the compositor sends is accepted | DesktopSnapshot |
| providers | `shell/src/provider_runtime.c` | per provider state, process, probe, three timers | start, exit, restart, probe, alarm, stop | callbacks of a process that is gone, an alarm against an answer | no stale callback, nothing forgotten, nothing outlives | ProviderRuntime |
| shell configuration reload | `shell/src/config_runtime.c`, `run_daemon` in `main.c` | file, last known good copy, configuration in use, watch, timer | bootstrap, inotify, debounce, load, persist, apply, restore | the file is read twice; changes while a reload is under way | the file is followed; the copy is lost only to a known race | ShellConfigReload |
| compositor configuration reload | `core/src/config_foundation.c`, `config_runtime.c`, policies of `input.c` and `workspace.c` | file, two slots of the last good copy, watch, timer, policy per device, homes of workspaces | start, inotify, debounce, load, apply, take back, save | half an application refused; crashes in the middle of a copy; edits at any moment | one policy is in force; a start gets the last copy; the file is followed | CoreReload |
| session supervisor | `shell/src/session.c` | compositor, Xwayland, polkit agent, daemon: groups, delays, counters; sockets of X | start, exit, restart, terminate | descendants that outlive their leader, signals in blocking waits, other X servers | children are gone before a restart; everything of its own is taken down and nothing else | SessionSupervisor, Service |
| control plane, Wi-Fi, Bluetooth, audio, tray, launcher, menus, configuration documents, server set-up, KDL parser, tools | see `PROJECT.json` | | | | | not modelled (section 7) |

How they interact: the Shell daemon binds the shell protocol, receives
`changed`, asks for a snapshot and validates it; it claims the controller role,
through which commands of the user (key bindings that name an action of the
Shell) arrive as invocations. Panels long-poll the daemon's control socket. The
supervisor restarts the daemon and ends its process group, providers included;
one of the providers is Ewwii, which draws the panels and whose plugin speaks to
the compositor directly. Inside the compositor, the desktop tells the seat which
window is active, the lock controller overrules it, and outputs report frames to
the lock controller.

The models are connected where one relies on another: `SessionSupervisor`
promises to `ShellConfigReload` and `ShellLink` that no process of a daemon is
left when the next one starts (`ImplementsServices`); `ShellLink` leaves the
contents of a snapshot to `DesktopSnapshot`; `DesktopOps` says which groups are
tiled, `LayoutTree` where; `LayoutTree` takes as given which group is active,
and `SeatFocus` which window.

## 2. Modules

| module | role |
|---|---|
| `SessionLock` | lock controller, outputs' commits and presents; safety proved in `Session_proofs` |
| `SeatFocus`, `SeatFocus_proofs` | the keyboard; safety proved |
| `DesktopOps` | the functions of `group.c`, `workspace.c`, `window.c` as operators from desktop to desktop |
| `Desktop`, `Desktop_proofs` | EXTENDS `DesktopOps`: variable `desk`, one action per event or command; the invariants proved |
| `DesktopSnapshot` | EXTENDS `Desktop`: dialogs, what the compositor sends, what the Shell accepts |
| `LayoutTree` | trees, tiles and boxes; border drags; drops |
| `FloatingGroups` | EXTENDS `LayoutTree`: floating boxes, moves and resizes |
| `Layout_proofs` | EXTENDS `FloatingGroups`: trees and boxes proved |
| `InputModes`, `InputModes_proofs` | what buttons, keys and gestures begin and end; the recovery panel; safety proved |
| `GroupPanels` | snapshot to panel and back |
| `PanelDrag` | EXTENDS `GroupPanels`: a tab dragged over the panels; safety proved in `Shell_proofs` |
| `ControllerRole` | abstract: one controller, recovery without one, no invocation outlives it |
| `ShellLink`, `ShellLink_proofs` | the two ends, the sockets and the watchers; implements `ControllerRole`; safety proved |
| `ProviderRuntime` | the provider supervisor as functions of a runtime and callbacks |
| `ShellConfigReload` | EXTENDS `ProviderRuntime`: file, copy, daemon life, reload; safety proved in `Shell_proofs` |
| `Shell_proofs` | EXTENDS `ShellConfigReload` and `PanelDrag`: the proofs of both |
| `CoreReload`, `CoreReload_proofs` | the compositor's configuration, its copies and its application; safety proved |
| `Service` | abstract: one instance at a time, started over nothing |
| `SessionSupervisor` | the session; implements `Service` twice; safety proved in `Session_proofs` |
| `Session_proofs` | EXTENDS `SessionLock` and `SessionSupervisor`: the proofs of both, for which the names of the former's specification begin with `Lock` (`LockSpec`) |
| `MC...` | small instances: model values, configurations, symmetry, bounds |

### SessionLock

`lock`, `secure`, `lockedSent` are fields of `LockController`; `presented`,
`pending`, `pendSeq` those of `LockOutput`; `seq` is `wlr_output.commit_seq`.
`flight` is the queue of commits the backend has accepted and not reported,
each with its number and whether it carries the desktop; `shown` is what the
screen shows, `told` what each client knows.

`NewLock`, `Unlock`, `LockDestroy`, `OutputAdd`, `OutputRemove` are the handlers
of `session_lock.c`. The frame handler of `output.c` has three actions, by what
wlroots does with the commit: `FrameCommitted`, `FrameUndamaged`, `FrameFailed`.
The present handler has two, `PresentShown` and `PresentDropped`. The number is
`0 .. 2*Half-1`; `SeqReached` is the signed comparison of unsigned numbers.
`MaxLag` bounds how many commits may be unreported. The code needs it below half
the range, where a wlroots backend has a handful against 2^31.

A frame that finds the scene undamaged is the subtle case. The frame handler has
then recorded the number of a commit that did not happen; the next real commit
gets this number, so the record is right if nothing comes in between.

### SeatFocus

`FocusSurface` is `onyrion_input_focus_surface`, including its two silent
refusals; `FocusWindow`, `FocusFirst`, `TopExclusive`, `RefreshKeyboardFocus` are
the helpers above it. `seat.missed` is history: a request was lost because the
seat had no keyboard ("dropped"), or was and a keyboard has come back since
("replugged"). Which window is active and when "locked" is sent are left open,
being the subject of `Desktop` and `SessionLock`.

### DesktopOps, Desktop

`desk` is one record: `outs` and `groups` in the order of the lists; `asg`,
`vis`, `home` between outputs and workspaces; `wact`, `act`, `gact` the active
pointers; `gwin`, `own`, `wws` between groups and windows; `flt`, `pin`, `full`,
`mapped`; `fo` the focused output, `kbd` the window with the keyboard. An
operator of `DesktopOps` is a function of the code, from one record to the next,
so an action of `Desktop` is the handler's calls in their order: the intermediate
states in which a group exists without windows are seen by the next call and not
by the next event. A freed group is a name that is not in `groups`; it is reused
by `NewGroup`, as memory is. Geometry, animation, titles and the shape of the
tiling are left out; where geometry decides (which group lies to the left, which
window is under the pointer), any candidate may be the one.

### DesktopSnapshot

Adds `parent`, `transient`, `tws` for dialogs, which belong to no group and have
a workspace of their own, and wraps every command so that dialogs are carried
along (`Carried` is `onyrion_window_move_transients_to_workspace`, which is also
called for the groups that are pinned to an output when a command shows the
workspace of a dialog there). When a window is unmapped wlroots gives its
dialogs to its parent, one after the other, and each time calls
`handle_window_set_parent` (`HandedOver`). `Sent` is what
`send_snapshot` transmits, `Accepted` the validation of `shell/src/state.c`; the
property is that one implies the other, over every reachable desktop.

### LayoutTree, FloatingGroups

`tree` is the heap of split and leaf nodes with their pointers up and down, and
the root of each workspace; a leaf stands for its tile, `tile` and `tileOf` are
the pointers between tiles and groups, `list` is `workspace.tiles`. `box` is the
box of a tile, which is computed only for the workspace shown; `told` is where
the window was put, which also leaves out the tab bar. The functions of
`layout.c` (`Anchor`, `Detached`, ... down to `ResizeSplit`) are
operators on `tree`; an action is a command or an event, reflow included.
`Directional` is the search for a tile in a direction, overlap first, then
distance. `BeginBorderDrag`, `DragTo`, `EndDrag` are the resize of a border by the
pointer, which names two groups and looks the split up at each motion.
`DropGroup` is a group or tab dropped at a point: `EdgeAt` reads the half of the
tile, `DropTargets` the tiles the search may find.

`FloatingGroups` adds `place` (`group.floating_x` and the others), `limits` (what
the client asked for) and `grab` (`OnyrionWindowInteraction`: the group, its box
at the press, the edges). `SetFloatingGeometry` is the clamping all paths end
in; `Motion` starts at the box at the press, as the code does.

Lengths are pixels and divisions round as in C. Ratios are exact fractions where
the code has doubles.

### InputModes

`chrome`, `resize`, `inter` are the modes of the pointers, `gesture` the one of
the touchpad; `captures`, `tap`, `pending` belong to one pointer or keyboard.
`held` is what the hardware says and `seat` what wlroots was told. A press
(`PressBinding`, `PressChrome`, `PressWindow`, ...) is an action per branch of
`handle_cursor_button`, a release likewise. What lies under the cursor, which
binding matches and whether a threshold is passed are choices. The windows, the
Shell, the lock and the configuration act in between; `effect`, `touched` and
`again` are history for the properties. `panel`, `awaiting`, `recovery` are the
recovery panel of `fallback.c`, whose keys are read in `input.c`.

### GroupPanels, PanelDrag

One chain: `desk` and `gen` in the compositor, `snap` in the daemon, `watch` for
the watchers (`onyrion-shell watch-state --ewwii`) and what each remembers, `live`
for the one whose `lines` Ewwii reads, `ewwii` and `open` for the process and its
windows, `pend`, `drawn`, `panel` and
`bridge` in the plugin, `up` and `down` for the messages between the plugin and
the compositor, `surf` and `insets` in the compositor again. `Project` is
`widget_model.c`; `OpenMissing`, `SetRoot` and their neighbours are the adapter,
one command per step; `PrepareWindow`, `Rebuilt`, `ReleasePanel` the plugin;
`StartEwwii`, `BarUp`, `GiveUp` the script.

When Ewwii is gone (`EwwiiGone`) its watcher may go with it or stay behind
(`LeaveWatcher`): it is blocked on the daemon's socket, and nothing in the code
ends it. At the next generation it works on whatever Ewwii there is, by what it
remembers of the last one, and ends when it reports to a pipe that is no more.
`meddled` counts the commands that an Ewwii was given in that way. The script may
kill Ewwii when no bar will come (`GiveUp`), which it does in the end, or before,
for its attempts are counted from Ewwii's start and nothing bounds how long the
plugin's start or a command takes (`GiveUpEarly`, a fault).

`PanelDrag` adds the drag of a tab: `chrome` and `hint` in the compositor, `armed`
in the renderer, `primary` in the bridge, whose last field is the cache of the
last answer. The pointer's reports and the answers use the queues of
`GroupPanels`, whose panels may go meanwhile.

### ControllerRole, ShellLink

`up` and `down` are the two directions of each daemon's socket, FIFO. A daemon
that ends leaves its connection behind until `Disconnect`; its successor may have
connected by then, which is why `connected` may hold two. Generations and
serials are small and skip zero, as in the code. `ImplementsRole` is
`Role!Spec` under `holder <- Holder, recovery <- fallback, open <- Open`: the
abstract role knows neither sockets nor processes.

### ProviderRuntime, ShellConfigReload

A child process is "live", ended well or badly and not waited for, or "none". A
timer that is armed may fire. `StopProvider` waits for its children, so that it
is one step. The functions (`HandleHealthResult`, `ScheduleHealthProbe`,
`CancelHealthProbe`) map a runtime to a runtime; the five callbacks are the
actions. `Started` stops what runs and starts another set; any spawn may fail.

`phase` is where `run_daemon` stands: "booting" is between the two reads of the
file at start, "loaded" between the two reads of a reload. An editor replaces the
file by a rename, or truncates it and closes it later. `missed` is history: the
daemon has passed over the file's present contents.

### CoreReload

`phase` runs from "down" through `Start` (file, legacy file, copy, installed
policy), `ServerInit` and `Save` to "running". `slot` and `newer` are the two
files of the copy. `Reload` is the timer's handler: it loads, gives the policy to
keyboards and then pointers, takes it back from all if one refuses
(`KeyboardsRefuse`, `PointersRefuse`), and gives workspaces their new homes.
`Stop`, an end or a crash, may come between any two steps, and `Save` may fail;
a slot is written aside and renamed, so it has the old text or the new. `odd` is
history: devices that refused to take the old policy back.

### SessionSupervisor, Service

`pc` is the place in `main` and its helpers at which the supervisor waits or
polls next. A group is `leader` and `rest`; `path` and `foreign` say who has the
socket and the lock of each X display. `CheckCore`, `CheckSatellite`,
`CausalWindow`, `CheckPolkit`, `CheckShell` are the polls of the main loop in
their order, each a step of its own because anything may die between two;
`EndPolkit` to `EndCore` is the way out that all branches share. Core ends in two
steps: `CoreCloses` takes its connections down (and with them, perhaps, the
satellite), `Dies` makes it a zombie that `waitpid` finds; `CausalWindow` exists for
the time between the two. Each readiness wait is a loop of two places, the checks
at its top and the roundtrip, and a roundtrip whose peer is `silent` has no step:
neither its deadline (`over`) nor a signal is looked at there. `coreFirst`, `late`
and `attempts` are history. `Service` is the promise for one program; `Seen` maps a
group to it.

## 3. Runs

| run | instance | fairness | what it shows |
|---|---|---|---|
| `session_lock` | two lockers, one output, three-bit numbers, three commits in flight | scheduled frames come, commits are reported | no locker is told "locked" while a screen shows the desktop or will; who was told keeps the lock; nothing but an unlock opens a locked session; a request is answered unless a lost frame left an output with none to come |
| `seat_focus` | two of each | none | a locked session's typing reaches the locker only; exclusive surfaces keep windows off; focus is never on what is gone; a locker with a surface, and on unlock a waiting exclusive surface, are served |
| `desktop` | two outputs, two windows, three groups, up to three workspaces with an affinity and a start-up mark; no fullscreen | none | lists and pointers agree after every event; affinities, pins, visible workspaces, the keyboard |
| `desktop_snapshot` | two windows as tabs or dialogs, tiled, floating or fullscreen; two outputs | none | the Shell accepts every snapshot but those with an orphaned dialog; fullscreen yields to a neighbour |
| `desktop_dialogs` | three windows on one output and two workspaces; one group floats, or is pinned, while there is a dialog | none | chains of dialogs stay with their windows, only its own unmapping orphans a dialog, tabs keep their order |
| `layout` | three groups, two workspaces, an output of 20 by 20 pixels, a panel, two gap policies | none | trees stay trees, tiles fit, focus reaches every tile, drags go where the pointer goes |
| `input` | two pointers, two buttons, a keyboard with two Super keys, a window, a Shell | none | nothing acts behind the lock, taps are clean, grabs are held, the recovery panel returns |
| `panels` | two groups, two heights, two changes of the desktop, one fault, two watchers, two reports in flight | each loop turns | the screen comes to show the desktop; each panel has its own surface and no other; a tab drops where the pointer is |
| `shell_link` | two daemons, a watcher, two unread messages and three invocations, serials that wrap | see below | role, invocations and snapshots, refinement, and the liveness of all three |
| `shell_config` | two configurations, two providers, one probed and always restarted | see below | supervision, reload, and the liveness of both |
| `core_reload` | two configurations, two outputs, three workspaces, a keyboard, a pointer | the loop serves what is due | one policy in force, the copy comes back, the file is followed |
| `session` | four programs, two of which fork, two displays, an agent that may be started twice | the supervisor steps | a clean end, the satellite blamed for Core's end only when Core was late, services; a session ends or serves, unless it hangs in a roundtrip of its start |

### Bounds, and why they are enough

* *Lock.* Three bits of sequence number make every run wrap several times; the
  proofs cover every width, every lag below half of it and every number of
  outputs, which is why the run keeps to one.
* *Desktop.* Two windows and two outputs reach every pair of pointers; a third
  window is needed for chains of dialogs, for a range of tabs and for a group
  left with one of three, and has its own run. There is one group more than
  windows because a command makes a group before it empties another. `MaxWs`
  bounds the workspaces that `workspace_next` makes: three give an affine one, a
  marked one and a new one. `desktop` and `desktop_dialogs` leave fullscreen out,
  which is in `desktop_snapshot`. `OneFloatsSpec` lets one group float in
  `desktop_dialogs`, and only while there is a dialog: a pinned group goes where
  its output goes, and what could go wrong then is that a dialog stays behind.
  Any number of floating groups is in `desktop` and `desktop_snapshot`.
* *Layout.* Three groups give every tree with one split below another, where a
  move frees the split that it also hangs something on. `Bounded` in
  `MCLayoutTree` lets the gaps change only without a panel, drags a border only
  with gaps, and puts one group at most on the hidden workspace; `FloatingBounded`
  moves and resizes a floating group while it is alone, from three starting
  boxes. `VIEW Nameless` takes states for one that differ in which memory the
  nodes have or in the names of groups and workspaces: renaming is a bisimulation
  of the specification, and no property mentions a name.
* *Input.* `FewOngoing` lets two things last from one event to another at once,
  beside the mode of the pointer: pairs are where the code can confuse them.
  `VIEW Observed` forgets `effect`, which nothing reads but a property.
* *Panels.* `Changes`, `Faults` and `Motions` are bounds. Two changes let one
  cross the other anywhere in the chain, one fault hits any step; the run may
  stop when they are used up, and deadlock is not checked. Of two `Watchers` one
  may have stayed behind its Ewwii; that it does costs a fault and a change, which
  leaves one change for it to meet the next Ewwii with. `Meddlings` bounds the
  commands of watchers left behind; one is enough to make the memory of the next
  watcher wrong. The first group has one height at the start and may be given
  another.
* *Link.* Two daemons give a successor and its predecessor's connection. `StopMax`
  bounds how often daemons end, `PendingMax` unanswered invocations, `QueueMax`
  unread messages of the compositor, `GenMax` the changes. The serial wraps
  (`SerialMax` is two).
* *Configurations.* All parts cycle; nothing is bounded but the number of
  contents, providers, devices and workspaces.
* *Session.* A session ends, so deadlock is not checked. `VIEW Observed` forgets
  who wrote the configuration once Core is started, a deadline after its wait and
  `coreFirst` once the cause of the end is not the satellite: no step reads them
  after that, so neither safety nor liveness depends on them.

Symmetry is used in runs without liveness only. Deadlock is checked in the other
runs: no part of the system may stop.

### Fairness

* SessionLock: a frame scheduled by `wlr_output_schedule_frame` is delivered, and
  a backend reports every commit. Nothing promises that a commit succeeds or is
  shown; `LockAnswered` assumes from some time on no more losses and no hotplug.
* ShellLink: both loops read what arrives; a broken connection is noticed; the
  supervisor restarts a daemon; a watcher asks again. A daemon may always be
  slow. It is the bound `StopMax` that makes daemons stop ending.
* ShellConfigReload: the main loop serves each source; the supervisor restarts;
  the compositor answers. Nobody has to write the file, no child has to end, no
  restart delay is shorter than another. The two parts of `SettlesInTheEnd`,
  `FollowsFile` and `ReadyInTheEnd`, state their own conditions: the file is left
  alone, the provider does well.
* CoreReload: `Reload`, `HandleInotify`, `Save` and `ServerInit` happen when due.
* GroupPanels: each loop turns (compositor, bridge, watcher, plugin timer, script,
  daemon). Nothing has to fail or to change.
* SessionSupervisor: its steps are taken when they can be, which excepts the two
  roundtrips of the start with a silent peer: every other wait polls until a
  deadline or follows a SIGKILL. Deadlines and the delay of the Shell end; a fork
  that is tried again and again succeeds in the end (the only strong fairness).
  No process has to die or live, no peer has to answer. `SessionServes` therefore
  says "or `Blocked`".

## 4. Properties

The comments at each property say what it means. Those that took most thought:

* `LockPromise`: a commit made before the lock request and presented after it must
  not count, though the numbers wrap and the recorded number may be that of a
  commit still to come.
* `PointersAgree`: `destroy_group` runs inside moves that still hold the pointers,
  and the fallback of each level depends on the order.
* `AcceptedUnlessOrphans`: two programs' ideas of a consistent desktop, over all
  reachable desktops.
* `StayTogether`: five commands and a pin move a group, and each has to take chains
  of dialogs along.
* `TilesFit`, `Reachable`: boxes are computed only for the workspace shown and read
  by commands on it, after any history of the hidden one.
* `DragsFollow` (`BorderFollows` and `EdgesKept`): a drag lasts while the tree, the
  panel and the client's limits change under it.
* `InertBehindLock`, `CleanTap`, `GrabsHeld`: several modes and devices, each ended
  by events of the others.
* `NothingMissed`: two lost wake-up arguments in a row, from the compositor to the
  daemon and from the daemon to the watcher.
* `PanelsInTheEnd`: five programs each work on what the one before knew; its three
  exceptions (`Deaf`, `BarAwaited`, `Misled`) are how the chain really can end.
* `SurfacePerPanel`: panels are closed and opened again by two watchers, and groups
  go, while the requests of their first surfaces are still unread.
* `DropFollowsPointer`: answers, resets and the cache of the last answer cross.
* `ComesBack`: the copy survives any number of crashes, failed copies and broken
  files, because the slot that is replaced is the other one.
* `PolicyInForce`: half an application is taken back, and workspaces keep a screen.
* `ProvidersTracked` (`NothingStale`, `NothingOutlives`, `NeverForgotten`): an
  alarm, an exit and a timer per probe, and no way to lose the provider.
* `CleansUpItsOwn` (`CleanExit` and `ForeignKept`): every way out, and the X server
  of somebody else.
* `CoreBlamed`: the polls come in an order, deaths do not.

`FocusKept`, `WaitingServed`, `LockPromise`, `ProvidersTracked` and the like are
conjunctions of parts that have names and comments of their own.

## 5. Observations

Behaviour the models show. Where the code and its documents seem to disagree the
property that is checked states what the code does, with the exception spelled out.

*Session lock and keyboard*

* `handle_lock_destroy` decides by `locked_sent` alone
  (`core/src/session_lock.c:248`). After a locker that was told "locked" dies the
  compositor logs that it keeps the session locked; if a second locker attaches and
  dies before its secure frames were shown, `locked_sent` is false again and
  `leave_secure` opens the session. What holds is `OnlyUnlockOpens`: one death does
  not open it.
* A seat keyboard that is unplugged while another stays leaves requests dropped
  until a key is pressed (`core/src/input.c:4415`; `WaitingServed` excepts it). A
  launcher mapped while the seat has no keyboard does not get it from
  `add_keyboard`. A click on an on-demand panel takes the keyboard from an exclusive
  one until the next layer commit. After an unlock no window is given the keyboard.

*Desktop*

* A window that maps while its workspace is hidden leaves its group without an
  active window: the focus request of the map handler is dropped
  (`core/src/group.c:1266`). `PointersAgree` allows a group without one.
* A dialog unmapped by its client keeps placement TRANSIENT with no parent
  (`core/src/window.c:1851`), and the Shell rejects every snapshot that has one
  (`shell/src/state.c:707`): it stays on its old snapshot while the window exists.
  `AcceptedUnlessOrphans` and `OrphanedByOwnUnmap` say that this is the only way.
* A window with dialogs that becomes a dialog on another workspace leaves its
  own dialogs behind; `StayTogether` excepts this step. Unmapping a dialog that
  has no focus gives the focus to its parent.
* An unmapped window may keep the keyboard while a group just made, still
  empty, is the active one (`KeyboardIsActive` allows for it).
* Pointer motion changes the focused output and not the active group, so a
  split may put its new group on another output's workspace.

*Layout*

* A border drag goes on while its workspace is hidden and then uses boxes that are
  out of date; `BorderFollows` excepts it. Very small areas may give a tile no
  pixels; the instance has none.
* `layout_drop_target_at_cursor` looks at the tiles of hidden workspaces too
  (`core/src/input.c:2367`): an older group of a hidden workspace with a tile under
  the pointer makes a drop do nothing. It ignores floating windows above the tile.
* Floating groups are not placed anew when a panel appears and may lie under it
  until they are moved. A resize of a box that lies wholly under the panel may turn
  it inside out, which ends the interaction.

*Input*

* A release that ends a drag of the Shell is swallowed though the press was
  forwarded (`core/src/input.c:3217`), and one pressed before an interaction may be
  released into it (`input.c:3013`): `seat` then counts a button that is up.
* `onyrion_input_begin_shell_drag` accepts the serial of any press that was delivered; if the
  button is up by then the drag sticks until another event cancels it.
  `arm_chrome_drag` keeps owner and hint of such a drag.
* A second terminal asked for while the recovery panel is hidden
  (`core/src/fallback.c:389`) can leave it hidden for good; `PanelReturns` excepts it.
* The release of a bound key is matched against the bindings of its own time
  (`input.c:4371`); a press whose capture finds the table full is swallowed without
  one; a pointer whose policy cannot be applied is not added at all.

*Shell link*

* The daemon compares generations by `>`. Once the compositor's 32-bit counter
  wraps (`Wrap = TRUE`), `latest_change_generation` stays above every snapshot's
  and a snapshot is requested after every snapshot; a daemon that starts then
  does not get ready, and a watcher with a large number waits. The run uses
  `Wrap = FALSE`; the invariants proved hold for both.
* A successor's claim is refused until the compositor has noticed that the old
  connection broke; it ends and is started again.

*Panels*

* Any command to Ewwii that fails ends the watcher; once the bar is up nobody runs
  it again (`Deaf`), before that the script kills Ewwii and it heals. An Ewwii
  started behind a fullscreen window never opens its bar, and the script kills it
  after 240 attempts, again and again (`BarAwaited`). The attempts are counted from
  Ewwii's start, before the plugin answers, and go on while the watcher works
  (`shell/ui/ewwii/start-ewwii.sh:42`): on a slow start an Ewwii whose bar was about
  to come is killed as well.
* A watcher outlives the Ewwii that ran it (`shell/src/main.c:4852` never looks at
  its output while it waits). At the next change of the desktop it opens and closes
  windows of the restarted Ewwii by what it remembers of the old one, and the new
  watcher, which has asked Ewwii already, does not notice: a panel or the bar stays
  missing, or stays, until something closes or opens it (`Misled`, without which
  `PanelsInTheEnd` fails).
* A group that goes while the plugin asks for its surface costs the connection
  (INVALID_GROUP), and with it Ewwii. A roundtrip that fails in `ensure_protocol`
  is remembered for the life of the process. Windows the adapter believes open are
  not verified again. A panel closed on a hidden workspace leaves its inset.
* A snapshot that arrives during a press replaces the buttons of the tabs and the
  candidate of the drag is lost. When the pointer leaves a panel and comes back to
  the half of the tab answered last, the compositor has dropped its hint and the
  plugin's cache keeps it from being repeated; `DropFollowsPointer` excepts it.
* `daily_ui_sync_apply`, and with it `ui_daily_v11.c`, has no caller.

*Providers and configurations*

* `persist_lkg` reads the file again instead of writing what was validated
  (`shell/src/config_runtime.c:324`): an editor that truncates it in between gets
  the truncated file copied over the good one. `LkgLostOnlyToRace` says that
  nothing else costs the copy.
* A provider that outlives its startup timeout is sent one SIGTERM and not probed
  again; if it ignores it, it stays unavailable. If it exits with status 0 on
  that signal, policy on-failure does not restart it. `restart_attempt` is never
  reset. An alarm that fires between a probe's good end and its handler counts as
  a failure.
* A reload of the Shell whose copy cannot be written is dropped and not tried
  again. A file changed between the bootstrap's load and the start of the watch is
  not looked at until it changes again. When a configuration cannot be applied, the
  copy already holds it.
* In the compositor a reload that a device refuses is not tried again either, and a
  pointer may be left with half of a policy. With the clock set back the copy keeps
  overwriting the slot it takes for the older one, and a start picks a stale copy
  (`ComesBack` excepts it). Deleting `compositor.kdl` after a migration brings the
  old `core.kdl` back, and while that is watched a new `compositor.kdl` is not
  noticed. A crash leaves `*.tmp.XXXXXX` files.

*Session*

* `wl_display_roundtrip` (`session.c:1059-1073`, called at 1110), `xcb_connect` and
  `xcb_get_input_focus_reply` (1004-1028, called at 1433) wait without a deadline,
  and a signal that sets `g_stop_requested` does not end them. A Core or satellite
  that lives and does not answer hangs the start past its readiness timeout and past
  SIGTERM. The session itself holds the listening sockets of the display, so that
  the death of a satellite that has not accepted the connection does not end the
  wait either. `SessionServes` excepts exactly these two places (`Blocked`).
* A Core that closes its clients' connections and then takes longer than
  `XWAYLAND_CORE_EXIT_GRACE_MS` to exit is not found by the causal window: the session
  returns the satellite's status (`late` in `CoreBlamed`).
* The loop reads the clock once, so after a group took its grace period to end a
  restart delay may already be over. An unreaped zombie makes `terminate_group`
  wait for the whole grace period. Core's death goes unnoticed while displays are
  tried. A stop during the import of the environment returns failure.

## 6. Proofs

All theorems hold for every value of the constants under the module's named
assumption. Types are proved as well.

**SessionLock** (`SLAssumption`: a lag below half the range). The invariant is
`LockTypeOK`, `HolderAgrees`, `UnpluggedIsBlank`, `FlightIsRecent`, `ReachedIsNewer`,
`PresentedIsHidden` and `SentIsHidden`. `LockedHidesDesktop` alone is not
inductive: that "locked" was sent says nothing of a frame that is presented next,
unless the outputs counted as presented have nothing of the desktop in flight
(`PresentedIsHidden`). When a present makes an output count, this follows from
`ReachedIsNewer`: a frame whose number is accepted is newer than every frame of
the desktop, and presents come in order. `ReachedIsNewer` in turn needs
`FlightIsRecent`, by which the comparison of wrapped numbers is the comparison of
ages; the lemmas `IncAges` and `RecentNotReached` are the only places where the
wrap shows. Theorems: `NoEarlyLocked`, `PromiseKept` (the property
`LockPromise`), `OpenedByUnlock` (`OnlyUnlockOpens`), `LockTypeCorrect`.

**SeatFocus** (`SeatAssumption`: the kinds of surface are disjoint). Secrecy is
`TypeOK` and `SecureFocus`. Every change of focus is a composition of a few
functions, and the lemmas `FocusKeeps`, `ClearedKeeps`, `FocusWindowKeeps`,
`RefreshKeeps`, `FocusFirstKeeps` say of each that an allowed focus stays allowed;
the steps then follow one by one. That requests are kept needs more. `FocusKept`
says that no window has the keyboard past an exclusive surface; this lasts only
because a window that has it is the active one, which the next refresh moves away
(`KeptInv`), and because every mapped layer surface is still listed, so that the
refresh finds it whatever the order of the list (`ListsInv`). Theorems:
`TypeCorrect`, `LockedKeyboard` (`SecureFocus`), `RequestsKept` (`FocusKept`),
`WaitersServed` (`WaitingServed`).

**Desktop** (`DesktopAssumption`: any outputs, windows and affinities, finite, and
more names for groups than windows, which stands for memory to make a group of:
as no group in use is empty, there is always a free name). All three invariants
follow from one, `Sound`. It says of outputs, workspaces, groups and windows that
the fields which mirror each other agree and that a field which names something
names something in use; that a group which is not in use is blank, since a new
one takes over its pointers; that an output which is unplugged shows nothing; and
that an output is focused while there is one. None of the invariants
is inductive without the others: what becomes of the keyboard when a group goes
depends on what the outputs show, and this on the pins of groups.

A function of the code leaves the desktop unsound while it is under way.
`Good(d, E, O)` is `Sound` but for the groups `E`, which may be without windows,
and the outputs `O`, which may show a workspace that is no longer theirs. There is
a lemma for each function of `DesktopOps`, with the exceptions it starts from and
those it leaves, proved in the order of the calls from `SetActiveWindow` to
`OutputRemoved`. Each is proved for any roster `R`, which says of `Sound` what
dialogs change: which mapped windows are in no group, which workspaces must
exist, and whether the keyboard is always with a tab. Sequences without duplicates have lemmas of their own; that a
walk over a list keeps what each step keeps is shown by the least step that would
not. Theorems: `AlwaysSound`, `PointersAlwaysAgree` (`PointersAgree`),
`WorkspacesAlwaysPlaced` (`WorkspacesPlaced`), `KeyboardAlwaysActive`
(`KeyboardIsActive`).

`TabsKeepOrder` (`TabOrder`) concerns the lists of windows only. Most functions
leave them alone (`SameLists`) or take one window out; a move appends a window to
another list (`Shifted`); a chain of moves takes the windows in the order of the
list they leave, so that two of them arrive in that order, and an insertion
between others keeps the order of those.

**DesktopSnapshot** (the same assumption and the same module of proofs). The
invariant `Tended` is `Sound` for the roster of the present dialogs (`Hale`), with
`Rooted`: every set of windows has one whose parent is outside of it, so that
nobody is above itself, which is what `wlr_xdg_toplevel_set_parent` checks. That
the ancestors found in a bounded number of steps are all there are rests on the
finiteness of the windows (`AncestorsClosed`). While the children of an unmapped
window are given away one by one, some still have it for a parent: `Hale(s, X)`
excepts those in `X`, and the least child at which it would fail closes the walk.
`Tended` gives `AlwaysAccepted` (`AcceptedUnlessOrphans`), loop by loop of
`snapshot_validate`, counting with the lemmas about finite sets, and
`OrphansAlwaysByOwnUnmap` (`OrphanedByOwnUnmap`). Theorems: these and
`AlwaysTended`.

`DialogsStayTogether` (`StayTogether`) needs that moving a window finds all
dialogs below it (`DialogsClosed`); this and `AncestorsClosed` hold because a set
which grows with each step does so at most as often as there are windows
(`ClimbEnds`). What belongs to a window through a dialog then belongs to it
through the dialog's parent (`FollowTogether`), so a command that moves a group
takes both or neither. Each handler of a client leaves every window but the one it
names where it is (`Unmoved`).

**LayoutTree and FloatingGroups** (`LayoutAssumption`: finite groups, nodes and
workspaces, a leaf and a split for each group, which stands for memory that
`calloc` finds; a screen of at least a pixel that no panel covers wholly; ratios
between 0 and 1, which `config.c` guarantees). `TreesSound` is not inductive: it
counts what each workspace's tree has, and says nothing of the nodes of which a
move makes use. The invariant says that there is a labelling `W` of the nodes by
workspaces under which they are a forest (`Forest`: labels, pointers up and down,
no circles), that the leaves in use are the tiles (`Hung`), that lists, tiles and
groups agree (`Listed`, `Matched`), and that there are as many splits and trees as
leaves (`Counted`). The last is why a free split is always found. The rewritings of
a tree, `Attached`, `Planted` and `Detached`, change the labels of one or two nodes,
and a move between trees or within one is composed of them (`Moves`, `MovesTwice`).
Functions that walk a tree are defined by recursion on a finite, circle-free
relation; `Solution` shows once, by the least set of nodes that is left without a
solution, that they satisfy their equations, and each walk then has a lemma of its
own (`UnderIs`, `NearestAboveIs`, `FirstGroupIs`, `LayoutIs`).

`Laid` says that the boxes of the workspace shown are those its tree gives, and
that the windows are in them. A command may act on a hidden workspace, and nothing
is laid out then that is not shown: `Elsewhere` says that it leaves the tree shown
as it was, and `SameBoxes` that this suffices. That the boxes of leaves below a node
lie within its box and apart from one another is shown from the leaves up
(`LeavesFit`). `TilesFit` is proved under `ShownHavePixels`: with more tiles in a row
than pixels, `layout_node` makes boxes without width, `onyrion_group_box` reports
none for them, and the window stays where it was, over others. The screens and
three groups of the run never come to this, so there `TilesFit` holds without the
condition. Theorems: `LayoutInvariance`, `TreesStaySound` (`TreesSound`),
`TilesStayFit` (`TilesFit`).

**InputModes** (`InputAssumption`). `InertBehindLock`, `CleanTap` and `PanelReturns`
are inductive once the types are known. `GrabsHeld` is not: that some pointer
holds the button of a grab does not say that its release will reach the grab,
for a release whose press was taken by a binding goes to the binding. `Held` says
that one of the pointers which hold the button is free of captures, and that two
are where two modes wait for one button (the layout can be resized while a drag
is armed). Theorems: `TypeCorrect`, `LockedDesktopIsInert`, `TapsAreClean`,
`GrabsEndWithTheirPress`, `PanelComesBack`.

**ShellLink** (`LinkAssumption`; `Wrap` either way). The invariant is `TypeOK`,
`RoleInv` (recovery, at most one controller, its invocations only, connected) and
`LinkInv`, which says of each daemon and its sockets what may be under way: a dead
process has no mail, who believes to be the controller or is about to hear so is
the controller, who is not connected has at most its greeting under way, and who
has nothing outstanding has the present generation or a change to read (`Fresh`).
From it follow `OwnerIsController`, `ShowsPresent` and `Refinement`: every step
maps to a step of `ControllerRole` or to a stutter. `Refinement` concerns safety;
the abstract role states no fairness.

`EveryInvocationAccounted` (`InvocationsAccounted`) rests on `AccountInv`, which
says of every serial, pending or not, how many messages of its controller's
sockets speak of it, so that a serial which is used again finds none of its old
ones. `WaitersHaveSeen` holds
with or without a wrap of the generation. `NothingIsMissed` (`NothingMissed`) is
proved for `~Wrap`, as the run has it, and cannot be had otherwise: once the
32-bit number has wrapped, a watcher that compares generations by size takes a new
state for an old one, which is listed as a hazard (`main.c:421`).

**ShellConfigReload** (`ProviderRuntime` within it; any providers with any
policies). What `ProvidersTracked` says of a provider is said of its runtime alone
(`Tracked`), and each function of the handlers keeps it; it is inductive as it
stands. Theorems: `ProvidersStayTracked`, and `LkgSurvives`
(`LkgLostOnlyToRace`), which needs that a candidate under way loads.

**GroupPanels and PanelDrag** (`PanelAssumption`, `DragAssumption`: `None` and
`Gone` are nothing else; any groups, heights, watchers, numbers of commands,
changes, faults and messages). `DragInvariant` has four parts beside the types.
`Surfaced` is what makes `SurfacePerPanel` inductive: for a group that is there the
requests on their way form a chain from its surface to its panel (`Chained`): the
first finds the surface there is, each "destroy" is of the surface that the
"create" before it makes, the last leaves what the panel asks for, and with none
the two are of one role. `ChainedAppend` and `ChainedTail` say what one request
more or less leaves of it. `Begun` says that no message of an earlier drag is left
when one begins. `Dragging` relates the two ends through the queues: the plugin's
last answer is the last "target" on its way, or the compositor's hint, or was
dropped (`Answer`); the pointer's place is the last "motion" on its way, or the
place answered last, or its panel is closing or made anew, or nothing was answered
yet (`Motion`). None of them lasts without the others: an answer dropped because
the group is gone must not be for the place under the pointer, which has a surface
and so a group; and a report that finds no panel needs the request on its way that
`Chained` promises. Theorems: `DragInvariance`, `SurfacesPerPanel`
(`SurfacePerPanel`), `DropsWhereItPoints` (`DropFollowsPointer`).

**CoreReload** (`ReloadAssumption`: `None` is no output and no workspace).
`PolicyInForce` is inductive once the types are known: a reload that is refused
gives every device back what it had, device by device, `odd` ones excepted.
`ComesBack` speaks of a start that may come long after the copy was made, so the
invariant keeps that the slot with the later time holds that copy (`CopyKept`)
and that only a policy from a file is copied (`PolicyLoads`). Theorems:
`Invariance`, `OnePolicy`, `ComesBackWithLastCopy`.

**SessionSupervisor** (`SupervisorAssumption`: any number of displays, any programs
that fork, any limit of restarts above one; with a limit of one a failed first
start would not count as degraded, `session.c:1898`). The invariant says which
programs may have processes at each `pc`, on which display a socket of ours may be,
what a cause means for the status, and how the agent's counters bound its attempts.
For the status it follows Core from the closing of its connections: when the
causal window is over, Core either did not go first or is recorded as late. A
clean end is not inductive by itself: that nothing is left at "ended" needs, for
every earlier place, that the groups still to be ended are the only ones there
are. Theorems: `CleansUp` (`CleansUpItsOwn`), `BlamesCore` (`CoreBlamed`),
`Implements` (`ImplementsServices`: each step is a step of `Service` or a stutter,
for the daemon and for the agent), and `BoundsPolkit`, a bound on the agent's
starts for every limit, which no run repeats.

What only TLC checks:

* all liveness (`LockAnswered`, `LinkServes`, `SettlesInTheEnd`, `PanelsInTheEnd`,
  `SessionServes`, the `FollowsFile` of both configurations): neither fairness nor
  ENABLED is within the prover's reach;
* of `LayoutTree` and `FloatingGroups`, `Reachable` and `DragsFollow`. The first says
  that a graph made by comparing boxes is connected, whose proof would be an
  induction over cuts of the screen; the second follows one group's edges through
  divisions that round, for which non-linear arithmetic would be needed;
* of `Desktop`, `FullscreenYields`, which is a claim about every place where a step
  may touch the screen and needs a case of its own for each of about thirty
  actions.

## 7. Not modelled, and why

* Configuration documents (`config.c` of both halves, `config_editor.c`), the KDL
  parser, searches of the launcher and menus are sequential functions of their
  input: unit tests reach them.
* Drawing, animations, titles and icons change no state that the properties tell
  apart. Of geometry the models have what decides about tiles, floating boxes and
  panels; dialogs' places and the legacy tab bar are left out.
* Wi-Fi, Bluetooth, audio and the control plane are requests to NetworkManager,
  BlueZ, PipeWire and UPower. Whatever can go wrong in them depends on what those
  services do, whose code is not here; the checkpoint of `wifi_extended.c` is listed
  as a hazard without a property for that reason.
* In `layout` the output is always there and no window is fullscreen: both are in
  the desktop modules. In `input` a window is the only tab of its group.
* In `panels` projecting a snapshot never fails, the first snapshot is there before
  a watcher asks, and the seed of `signal_value` races and its guard by generation
  are left out. The daemon does not end, which would end its watchers too
  (`main.c:4961`). The loop of the start script that an Ewwii leaves behind can only
  open or close the seed window of the next one, and signals a process that is
  gone; it is left out. A command to an Ewwii that is down is taken to fail.
  `DragHit` has two places to a panel, which stand for its tabs, their halves and
  the blank strip; tabs that are laid out anew under a pointer that stays are left
  out.
* In `session` killing a group leaves nothing of it, `listen()` on a socket that
  was bound succeeds, `waitpid()` does not fail, and nobody replaces a socket
  between the `lstat` and the `unlink` of `x11_listener_close`.

## 8. Plan

1. *Done:* the modules above, and every safety property of the runs proved but three.
2. *Proofs next:* `FullscreenYields` on top of `AlwaysSound`; `DragsFollow`, for which
   the sizes of floating groups must be in an invariant first.
3. *Larger instances:* two outputs in `layout`, two windows in `input`.
4. *Further code:* the debounce of `control_watch.c`, and the checkpoint of
   `wifi_extended.c` with an external model of NetworkManager.
