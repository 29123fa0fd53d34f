------------------------------ MODULE CoreReload ------------------------------
(***************************************************************************)
(* The configuration of the compositor (core/src/config_foundation.c,      *)
(* core/src/config_runtime.c): where a start takes it from, what a reload  *)
(* does with it, and the copy of the last good one that is kept in two     *)
(* slots, the one written longest ago being replaced.                      *)
(*                                                                         *)
(* A policy is in force when every keyboard and pointer has it (input.c)   *)
(* and the workspaces are on the outputs it names (workspace.c).  Devices  *)
(* may refuse; then all of them get the old policy back.  The compositor   *)
(* may crash between any two steps, and a copy may fail.                   *)
(*                                                                         *)
(* A text is the configuration it describes.  Outputs stay plugged in:     *)
(* what plugging does to workspaces is in Desktop.                         *)
(***************************************************************************)
EXTENDS Naturals, FiniteSets

CONSTANTS
    Configs,      \* texts that load
    Broken,       \* a text that does not
    NoFile,
    Default,      \* the installed or the built-in policy
    Keyboards, Pointers, Outputs, Workspaces,
    Absent,       \* the name of an output that is not there
    None,
    Declares,     \* the workspaces a policy declares
    Affinity      \* its "output" of each, or None

Policies == Configs \cup {Default}
Texts == Configs \cup {Broken, NoFile}
Devices == Keyboards \cup Pointers
Slots == {0, 1}

ASSUME ReloadAssumption ==
    /\ {Broken, NoFile, Default, None} \cap Configs = {}
    /\ Cardinality({Broken, NoFile, Default, None}) = 4
    /\ None \notin Outputs \cup Workspaces /\ Absent \notin Outputs \cup {None}
    /\ Keyboards \cap Pointers = {}
    /\ Declares \in [Policies -> SUBSET Workspaces]
    /\ Affinity \in [Policies -> [Workspaces -> Outputs \cup {Absent, None}]]

VARIABLES
    \* the disk
    file,      \* compositor.kdl
    open,      \* an editor has truncated it and not closed it
    legacy,    \* core.kdl of earlier versions
    slot,      \* compositor.lkg.0.kdl, compositor.lkg.1.kdl
    newer,     \* the one with the later mtime
    \* the compositor
    phase,     \* what it is doing
    policy,    \* *config
    source,    \* config.source
    watch,     \* the file that is watched
    notified,  \* an inotify event is unread
    timer,     \* reload_timer is armed
    dev,       \* the policy each device was given
    home,      \* workspace.output
    visible,   \* output.visible_workspace
    focused,   \* focused_output
    \* recorded for the properties
    odd,       \* devices that refused to go back
    saved,     \* the copy made last
    back,      \* the clock was set back
    missed     \* the file changed before it was watched, or a device or keymap refused

fileVars == <<file, open, legacy>>
slotVars == <<slot, newer, saved, back>>
watchVars == <<notified, timer, missed>>
deskVars == <<home, visible, focused>>
configVars == <<policy, source, watch>>
vars == <<file, open, legacy, slot, newer, phase, policy, source, watch, notified, timer,
          dev, home, visible, focused, odd, saved, back, missed>>

TypeOK ==
    /\ file \in Texts /\ legacy \in Texts
    /\ slot \in [Slots -> Texts] /\ newer \in Slots
    /\ phase \in {"down", "starting", "saving", "running"}
    /\ policy \in Policies
    /\ source \in {"explicit", "current", "legacy", "lkg", "default"}
    /\ watch \in {"current", "legacy"}
    /\ {open, notified, timer, back, missed} \subseteq BOOLEAN
    /\ dev \in [Devices -> Policies \cup {None}] /\ odd \subseteq Devices
    /\ home \in [Workspaces -> Outputs \cup {None}]
    /\ visible \in [Outputs -> Workspaces \cup {None}]
    /\ focused \in Outputs \cup {None}
    /\ saved \in Configs \cup {None}

Init ==
    /\ file \in Texts /\ legacy \in {NoFile} \cup Configs /\ open = FALSE
    /\ slot = [i \in Slots |-> NoFile] /\ newer = 0
    /\ phase = "down" /\ policy = Default /\ source = "default" /\ watch = "current"
    /\ notified = FALSE /\ timer = FALSE
    /\ dev = [d \in Devices |-> None] /\ odd = {}
    /\ home = [ws \in Workspaces |-> None]
    /\ visible = [o \in Outputs |-> None] /\ focused = None
    /\ saved = None /\ back = FALSE /\ missed = FALSE

-----------------------------------------------------------------------------
\* The start: onyrion_core_config_load_startup.

Use(p, from, path) == policy' = p /\ source' = from /\ watch' = path

LoadInstalled == Use(Default, "default", "current")

\* Mutant: slot 0 is tried first.
LoadLkgInOrder ==
    LET copy == IF slot[0] \in Configs THEN slot[0] ELSE slot[1] IN
    IF copy \in Configs THEN Use(copy, "lkg", "current") ELSE LoadInstalled

\* load_lkg: the newer slot, or the other one, if they load.
LoadLkg ==
    LET copy == IF slot[newer] \in Configs THEN slot[newer] ELSE slot[1 - newer] IN
    IF copy \in Configs THEN Use(copy, "lkg", "current") ELSE LoadInstalled

\* A missing file is looked for under its old name, and brought to the new one
\* unless that fails.
LoadStartup ==
    CASE file \in Configs -> Use(file, "current", "current") /\ UNCHANGED file
      [] file = NoFile /\ legacy \in Configs ->
            \/ Use(legacy, "current", "current") /\ file' = legacy
            \/ Use(legacy, "legacy", "legacy") /\ UNCHANGED file
      [] OTHER -> LoadLkg /\ UNCHANGED file

\* main: with --config, only that file will do.
Start ==
    /\ phase = "down"
    /\ \/ file \in Configs /\ Use(file, "explicit", "current") /\ UNCHANGED file
       \/ LoadStartup
    /\ phase' = "starting"
    /\ notified' = FALSE /\ timer' = FALSE /\ missed' = FALSE
    /\ UNCHANGED <<open, legacy, slotVars, dev, odd, deskVars>>

\* The outputs find workspaces, those that are named first
\* (onyrion_workspace_output_added).
Named(p, ws) == ws \in Declares[p] /\ Affinity[p][ws] # None
Place(p, ws) == IF Affinity[p][ws] \in Outputs THEN Affinity[p][ws] ELSE None
Homes == [Workspaces -> Outputs \cup {None}]

\* onyrion_server_init: the watch is set, outputs and devices appear.  It may
\* fail, and then no copy is made.
ServerInit ==
    /\ phase = "starting"
    /\ \E h \in Homes :
        /\ \A ws \in Workspaces :
              IF Named(policy, ws) THEN h[ws] = Place(policy, ws) ELSE h[ws] # None
        /\ \A o \in Outputs : \E ws \in Workspaces : h[ws] = o
        /\ home' = h
        /\ visible' = [o \in Outputs |-> CHOOSE ws \in Workspaces : h[ws] = o]
    /\ dev' = [d \in Devices |-> policy]
    /\ phase' = "saving"
    /\ focused' \in Outputs
    /\ UNCHANGED <<fileVars, slotVars, watchVars, configVars, odd>>

-----------------------------------------------------------------------------
\* onyrion_core_config_persist_lkg

Persisted == source \in {"current", "legacy"}

\* atomic_write: a temporary file is written and renamed.  With a clock that was
\* set back the slot may go on seeming older than the other.
WriteSlot(i, text) ==
    /\ slot' = [slot EXCEPT ![i] = text]
    /\ newer' = i \/ (back /\ slot[1 - i] # NoFile /\ newer' = 1 - i)

\* An empty slot is filled, or the one that seems older is replaced.
Save ==
    /\ phase = "saving"
    /\ phase' = "running"
    /\ \/ /\ Persisted
          /\ WriteSlot(IF slot[newer] = NoFile THEN newer ELSE 1 - newer, policy)
          /\ saved' = policy
       \/ UNCHANGED <<slot, newer, saved>>
    /\ UNCHANGED <<fileVars, watchVars, configVars, dev, odd, deskVars, back>>

ClockBack ==
    /\ back' = TRUE
    /\ UNCHANGED <<fileVars, slot, newer, saved, phase, configVars, watchVars, dev, odd,
                   deskVars>>

-----------------------------------------------------------------------------
\* The file changes and the change is noticed.

\* Mutant: the watch is set up when the copy has been made.
NotifyOnceSaved(path) ==
    IF watch = path /\ phase = "running"
    THEN notified' = TRUE /\ UNCHANGED missed
    ELSE notified' = notified /\ missed' = (missed \/ phase = "starting")

\* The watch is there once the policy is in use, before the copy is made.
Notify(path) ==
    IF watch = path /\ phase \in {"saving", "running"}
    THEN notified' = TRUE /\ UNCHANGED missed
    ELSE notified' = notified /\ missed' = (missed \/ phase = "starting")

\* Replaced by another, created, deleted, or closed by whoever wrote to it.
FileWritten(text) ==
    /\ ~open
    /\ file' = text
    /\ Notify("current")
    /\ UNCHANGED <<open, legacy, slotVars, phase, configVars, timer, dev, odd, deskVars>>

\* The watch does not report what is written before the file is closed.
Truncate ==
    /\ file # NoFile /\ ~open
    /\ file' = Broken /\ open' = TRUE
    /\ missed' = (missed \/ phase = "starting")
    /\ UNCHANGED <<legacy, slotVars, phase, configVars, notified, timer, dev, odd, deskVars>>

CloseWrite(text) ==
    /\ open
    /\ file' = text /\ open' = FALSE
    /\ Notify("current")
    /\ UNCHANGED <<legacy, slotVars, phase, configVars, timer, dev, odd, deskVars>>

\* handle_inotify, schedule_reload
HandleInotify ==
    /\ phase = "running" /\ notified
    /\ notified' = FALSE /\ timer' = TRUE
    /\ UNCHANGED <<fileVars, slotVars, phase, configVars, missed, dev, odd, deskVars>>

-----------------------------------------------------------------------------
\* handle_reload_timer

Watched == IF watch = "current" THEN file ELSE legacy

\* workspace_policy_target_output
TargetOutput(p, ws) ==
    IF Named(p, ws) THEN Place(p, ws)
    ELSE IF ws \in Declares[p] /\ home[ws] = None THEN focused ELSE home[ws]

\* onyrion_workspace_policy_validate_runtime
ValidateWorkspaces(p) ==
    /\ Declares[p] = Declares[policy]
    /\ \A o \in Outputs : \E ws \in Workspaces : TargetOutput(p, ws) = o

\* onyrion_workspace_policy_apply_runtime: an output that lost what it showed
\* shows another of its own.
ApplyWorkspaces(p) ==
    /\ home' = [ws \in Workspaces |-> TargetOutput(p, ws)]
    /\ visible' \in {v \in [Outputs -> Workspaces] : \A o \in Outputs :
            /\ home'[v[o]] = o
            /\ visible[o] # None /\ home'[visible[o]] = o => v[o] = visible[o]}
    /\ UNCHANGED focused

\* A device that is asked to take p may refuse.  Then all are given the old
\* policy again; a device of stuck refuses that too, and those of some had
\* taken p before.
Plugged == {d \in Devices : dev[d] # None}

TakeBack(ds, p, some, stuck) ==
    /\ dev' = [d \in Devices |->
                 IF d \notin ds THEN dev[d]
                 ELSE IF d \notin stuck THEN policy
                 ELSE IF d \in some THEN p ELSE dev[d]]
    /\ odd' = (odd \ ds) \cup stuck

\* onyrion_input_apply_keyboard_policy: a keymap does not compile, that of p or
\* the old one again, whatever keyboards there are; or a keyboard refuses it.
KeyboardsRefuse(p) ==
    LET ds == Keyboards \cap Plugged IN
    \/ UNCHANGED <<dev, odd>>
    \/ \E some \in SUBSET ds, stuck \in SUBSET ds : some # ds /\ TakeBack(ds, p, some, stuck)

\* Mutant: the keyboards keep what the pointers refused.
PointersRefuseAlone(p) ==
    LET ds == Pointers \cap Plugged IN
    \E some \in SUBSET ds, stuck \in SUBSET ds :
        /\ some # ds
        /\ dev' = [d \in Devices |->
                     IF d \in Keyboards \cap Plugged THEN p
                     ELSE IF d \in stuck \cap some THEN p
                     ELSE IF d \in ds \ stuck THEN policy ELSE dev[d]]
        /\ odd' = (odd \ Plugged) \cup stuck

\* onyrion_input_apply_pointer_policy; the keyboards have p by then and are
\* given the old policy as well.
PointersRefuse(p) ==
    LET ds == Pointers \cap Plugged IN
    \E some \in SUBSET ds, stuck \in SUBSET Plugged :
        some # ds /\ TakeBack(Plugged, p, Keyboards \cup some, stuck)

Refuse(p) ==
    /\ KeyboardsRefuse(p) \/ PointersRefuse(p)
    /\ missed' = TRUE
    /\ UNCHANGED <<deskVars, configVars, phase>>

Accept(p) ==
    /\ dev' = [d \in Devices |-> IF d \in Plugged THEN p ELSE None] /\ odd' = {}
    /\ ApplyWorkspaces(p)
    /\ policy' = p /\ UNCHANGED watch
    /\ source' = IF source \in {"explicit", "legacy"} THEN source ELSE "current"
    /\ phase' = "saving"
    /\ missed' = FALSE

Reload ==
    /\ phase = "running" /\ timer
    /\ timer' = FALSE
    /\ IF Watched \in Configs /\ ValidateWorkspaces(Watched)
       THEN Accept(Watched) \/ Refuse(Watched)
       ELSE missed' = FALSE /\ UNCHANGED <<dev, odd, deskVars, configVars, phase>>
    /\ UNCHANGED <<fileVars, slotVars, notified>>

-----------------------------------------------------------------------------
\* A device is plugged in; one that refuses the policy is not used.
DeviceAdd(d) ==
    /\ phase = "running" /\ dev[d] = None
    /\ dev' = [dev EXCEPT ![d] = policy]
    /\ UNCHANGED <<fileVars, slotVars, phase, configVars, watchVars, odd, deskVars>>

DeviceRemove(d) ==
    /\ phase = "running" /\ dev[d] # None
    /\ dev' = [dev EXCEPT ![d] = None] /\ odd' = odd \ {d}
    /\ UNCHANGED <<fileVars, slotVars, phase, configVars, watchVars, deskVars>>

\* The user shows a workspace on its output.
ShowWorkspace(ws) ==
    /\ phase = "running" /\ home[ws] # None
    /\ visible' = [visible EXCEPT ![home[ws]] = ws]
    /\ focused' = home[ws]
    /\ UNCHANGED <<fileVars, slotVars, phase, configVars, watchVars, dev, odd, home>>

\* It ends, crashes or fails to start.
Stop ==
    /\ phase # "down" /\ phase' = "down"
    /\ notified' = FALSE /\ timer' = FALSE /\ missed' = FALSE
    /\ dev' = [d \in Devices |-> None] /\ odd' = {}
    /\ home' = [ws \in Workspaces |-> None] /\ visible' = [o \in Outputs |-> None]
    /\ policy' = Default /\ source' = "default" /\ watch' = "current"
    /\ focused' = None
    /\ UNCHANGED <<fileVars, slotVars>>

-----------------------------------------------------------------------------
Next ==
    \/ Start \/ ServerInit \/ Save \/ ClockBack \/ Truncate \/ HandleInotify \/ Reload \/ Stop
    \/ \E text \in Texts : FileWritten(text)
    \/ \E text \in Configs \cup {Broken} : CloseWrite(text)
    \/ \E d \in Devices : DeviceAdd(d) \/ DeviceRemove(d)
    \/ \E ws \in Workspaces : ShowWorkspace(ws)

Spec == Init /\ [][Next]_vars

\* The event loop serves what is due.
Fairness ==
    /\ WF_vars(ServerInit) /\ WF_vars(Save) /\ WF_vars(HandleInotify) /\ WF_vars(Reload)

FairSpec == Spec /\ Fairness

-----------------------------------------------------------------------------
(* Properties.                                                             *)

(* A compositor that finds its file broken, or finds none, comes back with    *)
(* the policy copied last, whatever was written, refused or cut short since,  *)
(* unless a file of an earlier version is there or the clock was set back     *)
(* (onyrion_core_config_persist_lkg, load_lkg).                               *)
ComesBack ==
    [][Start /\ file \notin Configs /\ ~(file = NoFile /\ legacy \in Configs)
             /\ saved # None /\ ~back
          => policy' = saved]_vars

(* Between two events a single policy is in force: every device has it, save  *)
(* one that refused to go back, every output shows a workspace of its own,    *)
(* and those the policy names are where it says (handle_reload_timer).        *)
PolicyInForce ==
    phase \in {"saving", "running"} =>
        /\ \A d \in Devices : dev[d] \in {None, policy} \/ d \in odd
        /\ \A o \in Outputs : visible[o] # None /\ home[visible[o]] = o
        /\ \A ws \in Workspaces : Named(policy, ws) => home[ws] = Place(policy, ws)

\* A policy that fits the outputs whatever else is on them.
Fits(p) ==
    /\ Declares[p] = Declares[policy]
    /\ \A o \in Outputs : \E ws \in Declares[p] : Affinity[p][ws] = o

\* Nobody writes the file and the compositor goes on.
Quiet ==
    /\ file' = file /\ open' = open
    /\ phase # "down" => phase' # "down"

(* Once the file is left alone, it is the policy if it loads and fits,        *)
(* however fast it changed before and whatever was rejected; unless a device  *)
(* refused it, its keymap did not compile, or it changed between the start    *)
(* and the watch                                                              *)
(* (handle_inotify, onyrion_config_runtime_init).                             *)
FollowsFile ==
    <>[][Quiet]_vars =>
        <>[](phase = "running" /\ watch = "current" /\ file \in Configs /\ Fits(file)
                => missed \/ policy = file)
=============================================================================
