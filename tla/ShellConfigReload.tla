--------------------------- MODULE ShellConfigReload ---------------------------
(***************************************************************************)
(* The configuration of the shell daemon over its life, from               *)
(* shell/src/config_runtime.c and run_daemon in shell/src/main.c: the file *)
(* the user edits, the last known good copy (LKG) that survives the        *)
(* daemon, the configuration in use and the providers it names.            *)
(*                                                                         *)
(* handle_reload and the start of the daemon read the file twice: to load  *)
(* it and, after it was found valid, to copy it.  Whoever writes the file  *)
(* may do so in between.  An editor replaces it by a rename, or truncates  *)
(* it and closes it when everything is written; the watch hears of the     *)
(* close, not of the truncation.                                           *)
(***************************************************************************)
EXTENDS ProviderRuntime

CONSTANTS Configs,  \* the valid contents of the file
          Names,    \* the providers each of them names
          Broken,   \* any contents that shell_config_load rejects
          NoFile,
          Default   \* the configuration of shell_config_init, without providers

ASSUME ConfigAssumption ==
    /\ Names \in [Configs -> SUBSET Providers]
    /\ Cardinality({Broken, NoFile, Default}) = 3
    /\ {Broken, NoFile, Default} \cap Configs = {}

VARIABLES file,       \* what a reader of the file sees
          writing,    \* somebody has truncated the file and not closed it
          lkg,        \* contents of shell.kdl.lkg
          phase,      \* of the daemon
          config,     \* the configuration in use
          candidate,  \* loaded, not yet copied
          notified,   \* the watch has events to read
          timer,      \* reload_source
          missed      \* the file holds what the daemon passed over: it changed before
                      \* the daemon watched it, or its reload failed

confVars == <<config, candidate, notified, timer>>
fileVars == <<file, writing, lkg>>
vars == <<file, writing, lkg, phase, config, candidate, notified, timer, missed, provVars>>

Contents == Configs \cup {Broken, NoFile}
Used == Configs \cup {Default}
NamedBy(c) == IF c \in Configs THEN Names[c] ELSE {}

TypeOK ==
    /\ ProviderTypeOK
    /\ file \in Contents /\ lkg \in Contents
    /\ writing \in BOOLEAN /\ notified \in BOOLEAN /\ timer \in BOOLEAN /\ missed \in BOOLEAN
    /\ phase \in {"down", "booting", "starting", "running", "loaded"}
    /\ config \in Used /\ candidate \in Used

Init ==
    /\ ProviderInit
    /\ file \in Contents
    /\ writing = FALSE
    /\ lkg = NoFile
    /\ phase = "down"
    /\ config = Default /\ candidate = Default
    /\ notified = FALSE /\ timer = FALSE /\ missed = FALSE

-----------------------------------------------------------------------------
(* Whoever writes the file.                                                *)

Watching == phase \in {"running", "loaded"}

\* The contents become c; heard says whether the watch has an event for it.
FileBecomes(c, heard) ==
    /\ file' = c
    /\ notified' = (notified \/ (heard /\ Watching))
    /\ missed' = (missed \/ phase \in {"booting", "starting"})
    /\ UNCHANGED <<lkg, phase, config, candidate, timer, provVars>>

\* A rename, or an unlink when c is NoFile.
Replace(c) ==
    /\ ~writing
    /\ FileBecomes(c, TRUE)
    /\ UNCHANGED writing

Truncate ==
    /\ ~writing
    /\ writing' = TRUE
    /\ FileBecomes(Broken, FALSE)

CloseWrite(c) ==
    /\ writing
    /\ writing' = FALSE
    /\ FileBecomes(c, TRUE)

-----------------------------------------------------------------------------
(* The start of the daemon.                                                *)

\* shell_config_runtime_bootstrap: the file is loaded, or the copy in its
\* place, or neither; in the last two cases the providers are started at once.
BootLoad ==
    /\ phase = "down"
    /\ missed' = FALSE
    /\ IF file \in Configs
       THEN /\ phase' = "booting"
            /\ candidate' = file
            /\ UNCHANGED <<config, provVars>>
       ELSE /\ phase' = "starting"
            /\ config' = IF lkg \in Configs THEN lkg ELSE Default
            /\ Started(NamedBy(config'))
            /\ UNCHANGED candidate
    /\ UNCHANGED <<fileVars, notified, timer>>

\* The rest of it when the file was valid: the copy reads the file again.
BootPersist ==
    /\ phase = "booting"
    /\ file # NoFile
    /\ lkg' = file
    /\ config' = candidate
    /\ phase' = "starting"
    /\ Started(NamedBy(candidate))
    /\ UNCHANGED <<file, writing, candidate, notified, timer, missed>>

\* The file is gone, or the copy cannot be written: the daemon ends.
BootPersistFails ==
    /\ phase = "booting"
    /\ phase' = "down"
    /\ UNCHANGED <<fileVars, confVars, missed, provVars>>

\* shell_config_runtime_start, after the compositor has answered.
WatchStarts ==
    /\ phase = "starting"
    /\ phase' = "running"
    /\ UNCHANGED <<fileVars, confVars, missed, provVars>>

\* The daemon ends, of its own or killed; the session then ends the whole
\* process group before it starts another (shell/src/session.c).
Ends ==
    /\ phase # "down"
    /\ phase' = "down"
    /\ config' = Default /\ candidate' = Default
    /\ notified' = FALSE /\ timer' = FALSE
    /\ members' = {}
    /\ prov' = [p \in Providers |-> Stopped]
    /\ UNCHANGED <<fileVars, missed, lost>>

-----------------------------------------------------------------------------
(* Reloading.                                                              *)

\* handle_inotify with schedule_reload
HandleInotify ==
    /\ phase = "running"
    /\ notified
    /\ notified' = FALSE
    /\ timer' = TRUE
    /\ UNCHANGED <<fileVars, phase, config, candidate, missed, provVars>>

\* Mutant: the copy is made first, then the contents are looked at.
ReloadLoadUnchecked ==
    /\ phase = "running"
    /\ timer
    /\ timer' = FALSE
    /\ missed' = FALSE
    /\ phase' = "loaded"
    /\ candidate' = file
    /\ UNCHANGED <<fileVars, config, notified, provVars>>

\* The first half of handle_reload.
ReloadLoad ==
    /\ phase = "running"
    /\ timer
    /\ timer' = FALSE
    /\ missed' = FALSE
    /\ IF file \in Configs
       THEN phase' = "loaded" /\ candidate' = file
       ELSE UNCHANGED <<phase, candidate>>
    /\ UNCHANGED <<fileVars, config, notified, provVars>>

\* persist_lkg fails: the candidate is dropped.
PersistFails ==
    /\ phase = "loaded"
    /\ phase' = "running"
    /\ missed' = TRUE
    /\ UNCHANGED <<fileVars, confVars, provVars>>

Persisted ==
    /\ phase = "loaded"
    /\ file # NoFile
    /\ lkg' = file
    /\ phase' = "running"
    /\ UNCHANGED <<file, writing, candidate, notified, timer>>

\* Mutant: what the watch has heard during the reload is thrown away.
ReloadApplyDrains ==
    /\ phase = "loaded"
    /\ file # NoFile
    /\ lkg' = file
    /\ phase' = "running"
    /\ config' = candidate
    /\ Started(NamedBy(candidate))
    /\ notified' = FALSE
    /\ UNCHANGED <<file, writing, candidate, timer, missed>>

\* The second half of handle_reload: persist_lkg, then apply_candidate.
ReloadApply ==
    /\ Persisted
    /\ config' = candidate
    /\ Started(NamedBy(candidate))
    /\ UNCHANGED missed

\* apply_candidate cannot prepare the new configuration and restores the
\* previous one (restore_previous_runtime), which may fail the same way.
ReloadRestore ==
    /\ Persisted
    /\ Started(members) \/ Made(members)
    /\ missed' = TRUE
    /\ UNCHANGED config

-----------------------------------------------------------------------------
Writes == (\E c \in Contents : Replace(c) \/ CloseWrite(c)) \/ Truncate

\* The main loop serves the callbacks, but not before the daemon has started.
ProviderCallback(p) ==
    /\ phase = "running"
    /\ Callback(p)
    /\ UNCHANGED <<fileVars, phase, confVars, missed>>

ProviderChildren(p) ==
    /\ Children(p)
    /\ UNCHANGED <<fileVars, phase, confVars, missed>>

Next ==
    \/ Writes
    \/ BootLoad \/ BootPersist \/ BootPersistFails \/ WatchStarts \/ Ends
    \/ HandleInotify \/ ReloadLoad \/ PersistFails \/ ReloadApply \/ ReloadRestore
    \/ \E p \in Providers : ProviderCallback(p) \/ ProviderChildren(p)

Spec == Init /\ [][Next]_vars

\* The main loop serves every source, the session restarts the daemon, and the
\* compositor answers it; nobody has to write the file, and no child to end.
Fairness ==
    /\ WF_vars(BootLoad) /\ WF_vars(BootPersist) /\ WF_vars(WatchStarts)
    /\ WF_vars(HandleInotify) /\ WF_vars(ReloadLoad) /\ WF_vars(ReloadApply)
    /\ \A p \in Providers :
          /\ WF_vars(ProviderCallback(p) /\ ProviderChildExited(p))
          /\ WF_vars(ProviderCallback(p) /\ RestartProvider(p))
          /\ WF_vars(ProviderCallback(p) /\ StartHealthProbe(p))
          /\ WF_vars(ProviderCallback(p) /\ HealthProbeTimeout(p))
          /\ WF_vars(ProviderCallback(p) /\ HealthProbeExited(p))

FairSpec == Spec /\ Fairness

-----------------------------------------------------------------------------
(* Properties.                                                             *)

\* Through any reload, the runtime of a provider knows of its process, its
\* probe and its timers all there is to know.
ProvidersTracked == TypeOK /\ NothingStale /\ NothingOutlives /\ NeverForgotten

\* A copy that can be loaded is overwritten by one
\* that cannot only when the file changed between the two times it was read.
LkgLostOnlyToRace ==
    [][(lkg \in Configs /\ lkg' \notin Configs)
          => candidate \in Configs /\ file # candidate]_vars

\* Nobody writes the file any more, and the daemon does not end.
Quiet ==
    /\ file' = file
    /\ notified' => notified
    /\ phase' = "down" => phase = "down"

\* Once the file is left alone, a valid one is in use and copied, whatever was
\* written before, while a reload was under way or half read: unless its last
\* change came while a daemon that had read it was not yet watching it, or its
\* copy or its application failed.
FollowsFile ==
    <>[][Quiet]_vars =>
        <>[](file \in Configs => missed \/ (config = file /\ lkg = file))

\* Process and probes of p do well and can be started.
Undisturbed(p) ==
    /\ prov[p].process = "live" => prov'[p].process = "live"
    /\ prov[p].restart /\ ~prov'[p].restart => prov'[p].process = "live"
    /\ prov[p].due =>
          \/ prov'[p].due /\ prov'[p].state = prov[p].state
          \/ prov'[p].probe = "live"
          \/ prov'[p].asked
    /\ prov'[p].probe = "bad" => prov[p].probe = "bad"
    /\ prov'[p].timedOut => prov[p].timedOut

\* A provider that is always restarted, and does well from some time on, gets
\* ready and stays so, whatever failed before and wherever its timers stood;
\* unless it outlived its startup timeout and ignores the SIGTERM.
ReadyInTheEnd ==
    \A p \in Autostart :
        /\ Policy[p] = "always"
        /\ <>[](phase = "running" /\ p \in members /\ prov[p].state # "stopped")
        /\ <>[][Undisturbed(p)]_vars
        => <>[](prov[p].state = "ready" \/ prov[p].asked)

\* Left alone, the daemon runs what the file says, and what it runs gets ready.
SettlesInTheEnd == FollowsFile /\ ReadyInTheEnd
=============================================================================
