------------------------- MODULE SessionSupervisor -------------------------
(***************************************************************************)
(* onyrion-session (shell/src/session.c): one process that starts the      *)
(* compositor (Core), finds an X display for xwayland-satellite, exports   *)
(* the environment, and then keeps the Shell daemon and the Polkit agent   *)
(* running until a signal comes or Core or the satellite ends.             *)
(*                                                                         *)
(* Each program leads a process group of its own.  Programs die, and leave *)
(* descendants behind, at any moment; the supervisor only learns of it by  *)
(* polling, one program after another, so each waitpid is a step.  Backoff *)
(* delays are timers that are due some time after they are armed: the      *)
(* length of a delay, doubled from 250 ms to 4 s, is left out.  Killing a  *)
(* group (SIGTERM, a grace period, SIGKILL) is one step and leaves nothing *)
(* of it: what withstands SIGKILL is not modelled.                         *)
(*                                                                         *)
(* Core ends in two steps: it closes its connections, which may take the   *)
(* satellite along, and some time after that it can be waited for.  The    *)
(* two roundtrips of the start block for as long as the peer says nothing: *)
(* no deadline and no signal ends them.                                    *)
(***************************************************************************)
EXTENDS Naturals

CONSTANTS Forking,          \* programs whose group outlives its leader
          DisplayMax,       \* X_DISPLAY_MAX
          PolkitRestartMax  \* POLKIT_RESTART_MAX

Roles == {"core", "satellite", "shell", "polkit"}
Displays == 0..DisplayMax

ASSUME SupervisorAssumption ==
    /\ Forking \subseteq Roles
    /\ DisplayMax \in Nat
    /\ PolkitRestartMax \in Nat \ {0, 1}

VARIABLES
    \* the processes and the file system
    leader,    \* the leader of each group: "none", "live", "zombie" (waitable)
    rest,      \* the groups with descendants of their leader
    foreign,   \* displays whose lock or abstract name another X server holds
    path,      \* who made /tmp/.X11-unix/X<n>: "none", "ours", "foreign"
    config,    \* who wrote shell.kdl: "none", "ours", "user"
    coreGone,  \* Core has closed its connections
    silent,    \* the peer of a roundtrip neither answers nor hangs up
    \* the supervisor
    pc,
    stop,      \* g_stop_requested
    display,   \* display_number, then the display selected
    failures, degraded,  \* polkit_failures, polkit_degraded
    due,       \* next_shell_start and next_polkit_start are over
    over,      \* deadline or causal_deadline is over
    cause,     \* the branch that ends the session
    code,      \* what main returns
    \* recorded for the properties
    coreFirst, \* Core closed its connections while the satellite was alive
    late,      \* and was not to be waited for when XWAYLAND_CORE_EXIT_GRACE_MS was over
    attempts   \* starts of the agent since the last one that was stable

procVars == <<leader, rest>>
fileVars == <<foreign, path, config>>
polkitVars == <<failures, degraded, attempts>>
waitVars == <<coreGone, coreFirst, silent, over, late>>
vars == <<leader, rest, foreign, path, config, pc, stop, display, failures, degraded,
          due, cause, code, coreFirst, attempts, coreGone, silent, over, late>>

Phases == {"config", "seed", "core_start", "core_wait", "core_roundtrip",
           "satellite_probe", "display", "satellite_wait", "satellite_roundtrip",
           "import", "start", "core_check", "satellite_check", "window",
           "polkit_check", "shell_check",
           "end_polkit", "end_shell", "end_satellite", "end_core", "ended"}

Init ==
    /\ leader = [r \in Roles |-> "none"]
    /\ rest = {}
    /\ foreign \in SUBSET Displays
    /\ path \in [Displays -> {"none", "foreign"}]
    /\ config \in {"none", "user"}
    /\ pc = "config"
    /\ stop = FALSE
    /\ display = 0
    /\ failures = 0 /\ degraded = FALSE
    /\ due = [r \in {"shell", "polkit"} |-> TRUE]
    /\ cause = "none" /\ code = "none"
    /\ coreFirst = FALSE
    /\ attempts = 0
    /\ coreGone = FALSE /\ silent = FALSE /\ over = FALSE /\ late = FALSE

-----------------------------------------------------------------------------
\* Processes.

\* spawn_exec: the fork fails, or the child leads a new group.
Spawn(r, forked) ==
    leader' = IF forked THEN [leader EXCEPT ![r] = "live"] ELSE leader

\* waitpid(.., WNOHANG) returns the pid of r.
Exited(r) == leader[r] = "zombie"

\* Mutant: only the leader is killed.
TerminateLeader(r) ==
    /\ leader' = [leader EXCEPT ![r] = "none"]
    /\ UNCHANGED rest

\* terminate_group, then reap_if_child unless the leader was reaped before.
Terminate(r) ==
    /\ leader' = [leader EXCEPT ![r] = "none"]
    /\ rest' = rest \ {r}

\* A program ends by itself, starts a descendant, a descendant ends.
\* Core ends only after CoreCloses.
Dies(r) ==
    /\ leader[r] = "live"
    /\ r = "core" => coreGone
    /\ leader' = [leader EXCEPT ![r] = "zombie"]
    /\ UNCHANGED <<rest, fileVars, pc, stop, display, polkitVars, due, cause, code,
                   waitVars>>

\* Core begins to end: the connections of its clients are closed, the satellite's
\* and that of a roundtrip among them; waitpid still says that it runs.
CoreCloses ==
    /\ leader["core"] = "live" /\ ~coreGone
    /\ coreGone' = TRUE
    /\ coreFirst' = (leader["satellite"] = "live")
    /\ silent' = (silent /\ pc # "core_roundtrip")
    /\ UNCHANGED <<procVars, fileVars, pc, stop, display, polkitVars, due, cause, code,
                   over, late>>

\* The peer of a roundtrip stops to answer, or answers again.  Of an X display
\* the session holds the listening sockets itself, so that a connection which
\* nobody accepts stays open even when the satellite is gone.
Silence ==
    /\ \/ pc = "core_roundtrip" /\ ~coreGone
       \/ pc = "satellite_roundtrip"
    /\ silent' = ~silent
    /\ UNCHANGED <<procVars, fileVars, pc, stop, display, polkitVars, due, cause, code,
                   coreGone, coreFirst, over, late>>

Descendant(r) ==
    /\ r \in Forking
    /\ \/ leader[r] = "live" /\ rest' = rest \cup {r}
       \/ r \in rest /\ rest' = rest \ {r}
    /\ UNCHANGED <<leader, fileVars, pc, stop, display, polkitVars, due, cause,
                   code, waitVars>>

\* handle_signal
Signal ==
    /\ pc \notin {"config", "seed", "ended"} /\ ~stop
    /\ stop' = TRUE
    /\ UNCHANGED <<procVars, fileVars, pc, display, polkitVars, due, cause, code,
                   waitVars>>

\* monotonic_ms reaches next_shell_start or next_polkit_start.
DelayOver(r) ==
    /\ pc # "ended" /\ ~due[r]
    /\ due' = [due EXCEPT ![r] = TRUE]
    /\ UNCHANGED <<procVars, fileVars, pc, stop, display, polkitVars, cause, code,
                   waitVars>>

\* monotonic_ms reaches the deadline of a wait.  An end of Core that shows within
\* the causal window is polled before the window is over.
Timed == {"core_wait", "core_roundtrip", "satellite_wait", "satellite_roundtrip",
          "window"}

DeadlineOver ==
    /\ pc \in Timed /\ ~over
    /\ pc = "window" => ~Exited("core")
    /\ over' = TRUE
    /\ late' = (late \/ (pc = "window" /\ coreGone))
    /\ UNCHANGED <<procVars, fileVars, pc, stop, display, polkitVars, due, cause, code,
                   coreGone, coreFirst, silent>>

-----------------------------------------------------------------------------
\* X displays.

\* Another X server starts on d: it takes the lock file, which the session
\* does not, and replaces a socket it finds.  Or it ends and removes its own.
ForeignServer(d) ==
    /\ pc # "ended"
    /\ \/ /\ d \notin foreign
          /\ foreign' = foreign \cup {d}
          /\ path' = [path EXCEPT ![d] = "foreign"]
       \/ /\ d \in foreign
          /\ foreign' = foreign \ {d}
          /\ path' = [path EXCEPT ![d] = IF @ = "foreign" THEN "none" ELSE @]
    /\ UNCHANGED <<procVars, config, pc, stop, display, polkitVars, due, cause,
                   code, waitVars>>

\* Mutant: the name is removed, whoever's socket has it.
ListenerCloseAny(d) ==
    path' = [path EXCEPT ![d] = "none"]

\* x11_listener_close: the inode tells whether the socket is still ours.
ListenerClose(d) ==
    path' = [path EXCEPT ![d] = IF @ = "ours" THEN "none" ELSE @]

\* x11_listener_open returns 0: skipped before anything is made, or after the
\* socket was made and removed because the abstract name is taken.
Occupied(d) == d \in foreign \/ path[d] # "none"

-----------------------------------------------------------------------------
\* main, up to supervise.

\* main returns after stop_core_group; the flag is read when it returns.
GiveUp(why) == pc' = "end_core" /\ cause' = why

\* resolve_shell_config: a path is given, the file is there, there is none, or
\* its directory cannot be made.  No handler of signals is installed yet.
ResolveConfig ==
    /\ pc = "config"
    /\ \/ pc' = "core_start" /\ UNCHANGED code
       \/ config = "none" /\ pc' = "seed" /\ UNCHANGED code
       \/ pc' = "ended" /\ code' = "failure"
    /\ UNCHANGED <<procVars, fileVars, stop, display, polkitVars, due, cause, waitVars>>

\* seed_shell_config: the template is copied to a temporary file, which is then
\* linked: that fails when a file of that name has come to be.
SeedConfig ==
    /\ pc = "seed"
    /\ \/ config = "none" /\ config' = "ours" /\ pc' = "core_start" /\ UNCHANGED code
       \/ pc' = "ended" /\ code' = "failure" /\ UNCHANGED config
    /\ UNCHANGED <<procVars, foreign, path, stop, display, polkitVars, due, cause,
                   waitVars>>

\* Another session, or the user, writes the file in between.
UserWrites ==
    /\ pc = "seed" /\ config = "none"
    /\ config' = "user"
    /\ UNCHANGED <<procVars, foreign, path, pc, stop, display, polkitVars, due,
                   cause, code, waitVars>>

StartCore ==
    /\ pc = "core_start"
    /\ \/ Spawn("core", TRUE) /\ pc' = "core_wait" /\ UNCHANGED code
       \/ Spawn("core", FALSE) /\ pc' = "ended" /\ code' = "failure"
    /\ over' = FALSE
    /\ UNCHANGED <<rest, fileVars, stop, display, polkitVars, due, cause,
                   coreGone, coreFirst, silent, late>>

\* wait_core_ready: the top of its loop.
WaitCoreReady ==
    /\ pc = "core_wait"
    /\ \/ (stop \/ over \/ Exited("core")) /\ GiveUp("early")
       \/ ~(stop \/ over \/ Exited("core")) /\ pc' = "core_roundtrip" /\ UNCHANGED cause
    /\ UNCHANGED <<procVars, fileVars, stop, display, polkitVars, due, code, waitVars>>

\* wayland_roundtrip_ready: there is no socket yet or it does not answer, and the
\* loop goes round; or some compositor answers, and Core must be alive after that.
CoreRoundtrip ==
    /\ pc = "core_roundtrip" /\ ~silent
    /\ \/ pc' = "core_wait" /\ UNCHANGED cause
       \/ ~Exited("core") /\ pc' = "satellite_probe" /\ UNCHANGED cause
       \/ Exited("core") /\ GiveUp("early")
    /\ UNCHANGED <<procVars, fileVars, stop, display, polkitVars, due, code, waitVars>>

\* xwayland_listenfd_supported, through run_command_timeout
ProbeSatellite ==
    /\ pc = "satellite_probe"
    /\ \/ pc' = "display" /\ display' = 0 /\ UNCHANGED cause
       \/ GiveUp("early") /\ UNCHANGED display
    /\ UNCHANGED <<procVars, fileVars, stop, polkitVars, due, code, waitVars>>

\* spawn_xwayland_satellite: it inherits the sockets of the display.
SpawnSatellite(d) ==
    /\ Spawn("satellite", TRUE)
    /\ path' = [path EXCEPT ![d] = "ours"]

\* The sockets, the channel of its notification or the fork fail: what was
\* made is removed, and no other display is tried.
CannotStart == GiveUp("early") /\ UNCHANGED <<leader, path>>

\* start_xwayland_satellite: one turn of its loop, up to the spawn.
TryDisplay ==
    /\ pc = "display"
    /\ \/ (stop \/ display > DisplayMax) /\ GiveUp("early")
          /\ UNCHANGED <<display, procVars, path>>
       \/ /\ ~stop /\ display \in Displays /\ Occupied(display)
          /\ display' = display + 1
          /\ UNCHANGED <<pc, cause, procVars, path>>
       \/ /\ ~stop /\ display \in Displays /\ ~Occupied(display)
          /\ \/ SpawnSatellite(display) /\ pc' = "satellite_wait" /\ UNCHANGED cause
             \/ CannotStart
          /\ UNCHANGED <<display, rest>>
    /\ over' = FALSE
    /\ UNCHANGED <<foreign, config, stop, polkitVars, due, code,
                   coreGone, coreFirst, silent, late>>

\* The rest of the turn when the display is not to be used: the satellite is
\* killed, its socket removed and the next display tried.
DisplayFailed ==
    /\ Terminate("satellite")
    /\ ListenerClose(display)
    /\ display' = display + 1
    /\ pc' = "display"

\* wait_xwayland_ready: the top of its loop.
WaitSatelliteReady ==
    /\ pc = "satellite_wait"
    /\ \/ (stop \/ over \/ Exited("satellite")) /\ DisplayFailed
       \/ /\ ~(stop \/ over \/ Exited("satellite"))
          /\ pc' = "satellite_roundtrip"
          /\ UNCHANGED <<procVars, path, display>>
    /\ UNCHANGED <<foreign, config, stop, polkitVars, due, cause, code, waitVars>>

\* x11_roundtrip_ready: the satellite has not notified yet or the roundtrip fails,
\* and the loop goes round; or the display is served, and the satellite must be
\* alive after that.
SatelliteRoundtrip ==
    /\ pc = "satellite_roundtrip" /\ ~silent
    /\ \/ /\ pc' = "satellite_wait" \/ (~Exited("satellite") /\ pc' = "import")
          /\ UNCHANGED <<procVars, path, display>>
       \/ Exited("satellite") /\ DisplayFailed
    /\ UNCHANGED <<foreign, config, stop, polkitVars, due, cause, code, waitVars>>

\* main fails past the satellite: it is stopped, then Core.
GiveUpWithSatellite(why) == pc' = "end_satellite" /\ cause' = why

\* setenv of DISPLAY and import_activation_environment
ImportEnvironment ==
    /\ pc = "import"
    /\ \/ pc' = "start" /\ UNCHANGED cause
       \/ GiveUpWithSatellite("import")
    /\ UNCHANGED <<procVars, fileVars, stop, display, polkitVars, due, code, waitVars>>

-----------------------------------------------------------------------------
\* supervise.

\* polkit_failures++, then the limit or the next delay.
PolkitFailed(recent) ==
    LET n == recent + 1 IN
    /\ failures' = n
    /\ degraded' = (degraded \/ n >= PolkitRestartMax)
    /\ due' = [due EXCEPT !["polkit"] = FALSE]

StartShell(forked) == Spawn("shell", forked)
StartPolkitAgent(forked) == Spawn("polkit", forked)

\* start_shell and start_polkit_agent.  A Shell that could not be forked is
\* tried again at once, the agent after its delay.
StartDaemons ==
    /\ pc = "start"
    /\ \E shell, polkit \in BOOLEAN :
         /\ leader' = [r \in Roles |->
                IF (r = "shell" /\ shell) \/ (r = "polkit" /\ polkit)
                THEN "live" ELSE leader[r]]
         /\ failures' = IF polkit THEN 0 ELSE 1
         /\ due' = [due EXCEPT !["polkit"] = polkit]
    /\ attempts' = 1
    /\ pc' = "core_check"
    /\ UNCHANGED <<rest, fileVars, stop, display, degraded, cause, code, waitVars>>

\* The top of the loop: g_stop_requested, then waitpid of Core.
CheckCore ==
    /\ pc = "core_check"
    /\ \/ /\ stop
          /\ pc' = "end_polkit" /\ cause' = "stop"
          /\ UNCHANGED leader
       \/ /\ ~stop /\ Exited("core")
          /\ leader' = [leader EXCEPT !["core"] = "none"]
          /\ pc' = "end_polkit" /\ cause' = "core"
       \/ /\ ~stop /\ ~Exited("core")
          /\ pc' = "satellite_check"
          /\ UNCHANGED <<leader, cause>>
    /\ UNCHANGED <<rest, fileVars, stop, display, polkitVars, due, code, waitVars>>

\* Mutant: the satellite takes the blame at once.
CheckSatelliteNoWindow ==
    /\ pc = "satellite_check"
    /\ \/ /\ Exited("satellite")
          /\ leader' = [leader EXCEPT !["satellite"] = "none"]
          /\ ListenerClose(display)
          /\ pc' = "end_polkit" /\ cause' = "satellite"
       \/ /\ ~Exited("satellite")
          /\ pc' = "polkit_check"
          /\ UNCHANGED <<leader, path, cause>>
    /\ UNCHANGED <<rest, foreign, config, stop, display, polkitVars, due, code, waitVars>>

\* Mutant: a session goes on without X.
CheckSatelliteIgnores ==
    /\ pc = "satellite_check"
    /\ pc' = "polkit_check"
    /\ IF Exited("satellite")
       THEN ListenerClose(display) /\ leader' = [leader EXCEPT !["satellite"] = "none"]
       ELSE UNCHANGED <<leader, path>>
    /\ UNCHANGED <<rest, foreign, config, stop, display, polkitVars, due, cause, code,
                   waitVars>>

\* waitpid of the satellite; when it has ended its listener is closed first.
CheckSatellite ==
    /\ pc = "satellite_check"
    /\ \/ /\ Exited("satellite")
          /\ leader' = [leader EXCEPT !["satellite"] = "none"]
          /\ ListenerClose(display)
          /\ pc' = "window"
       \/ /\ ~Exited("satellite")
          /\ pc' = "polkit_check"
          /\ UNCHANGED <<leader, path>>
    /\ over' = FALSE
    /\ UNCHANGED <<rest, foreign, config, stop, display, polkitVars, due, cause, code,
                   coreGone, coreFirst, silent, late>>

\* XWAYLAND_CORE_EXIT_GRACE_MS: Core may have gone first, and its end may show
\* only now.  Polled until it shows, a signal comes or the time is over.
CausalWindow ==
    /\ pc = "window"
    /\ \/ /\ ~stop /\ ~over /\ Exited("core")
          /\ leader' = [leader EXCEPT !["core"] = "none"]
          /\ cause' = "core"
       \/ /\ stop \/ over
          /\ cause' = "satellite"
          /\ UNCHANGED leader
    /\ pc' = "end_polkit"
    /\ UNCHANGED <<rest, fileVars, stop, display, polkitVars, due, code, waitVars>>

\* The agent: reaped and its group killed when it has exited, after a stable
\* run or not; else, when it is not running and not given up, started again.
CheckPolkit ==
    /\ pc = "polkit_check"
    /\ \/ /\ Exited("polkit")
          /\ Terminate("polkit")
          /\ \E stable \in BOOLEAN :
               /\ PolkitFailed(IF stable THEN 0 ELSE failures)
               /\ attempts' = IF stable THEN 1 ELSE attempts
       \/ /\ leader["polkit"] = "none" /\ ~degraded /\ due["polkit"]
          /\ \/ StartPolkitAgent(TRUE) /\ UNCHANGED <<failures, degraded, due>>
             \/ StartPolkitAgent(FALSE) /\ PolkitFailed(failures)
          /\ attempts' = attempts + 1
          /\ UNCHANGED rest
       \/ /\ \/ leader["polkit"] = "live"
             \/ (leader["polkit"] = "none" /\ (degraded \/ ~due["polkit"]))
          /\ UNCHANGED <<procVars, polkitVars, due>>
    /\ pc' = "shell_check"
    /\ UNCHANGED <<fileVars, stop, display, cause, code, waitVars>>

\* Mutant: started again at once, over what it left.
CheckShellLeavesRest ==
    /\ pc = "shell_check"
    /\ \/ /\ Exited("shell")
          /\ TerminateLeader("shell")
          /\ due' = [due EXCEPT !["shell"] = FALSE]
       \/ /\ leader["shell"] = "none" /\ due["shell"]
          /\ \/ Spawn("shell", TRUE) /\ UNCHANGED due
             \/ Spawn("shell", FALSE) /\ due' = [due EXCEPT !["shell"] = FALSE]
          /\ UNCHANGED rest
       \/ /\ leader["shell"] = "live" \/ (leader["shell"] = "none" /\ ~due["shell"])
          /\ UNCHANGED <<procVars, due>>
    /\ pc' = "core_check"
    /\ UNCHANGED <<fileVars, stop, display, polkitVars, cause, code, waitVars>>

\* The Shell: when it has exited its whole group is killed before the delay
\* is armed; when the delay is over it is started.
CheckShell ==
    /\ pc = "shell_check"
    /\ \/ /\ Exited("shell")
          /\ Terminate("shell")
          /\ due' = [due EXCEPT !["shell"] = FALSE]
       \/ /\ leader["shell"] = "none" /\ due["shell"]
          /\ \/ StartShell(TRUE) /\ UNCHANGED due
             \/ StartShell(FALSE) /\ due' = [due EXCEPT !["shell"] = FALSE]
          /\ UNCHANGED rest
       \/ /\ leader["shell"] = "live" \/ (leader["shell"] = "none" /\ ~due["shell"])
          /\ UNCHANGED <<procVars, due>>
    /\ pc' = "core_check"
    /\ UNCHANGED <<fileVars, stop, display, polkitVars, cause, code, waitVars>>

-----------------------------------------------------------------------------
\* The end of a session, the same order in every branch.

\* stop_polkit_group
EndPolkit ==
    /\ pc = "end_polkit"
    /\ Terminate("polkit")
    /\ pc' = "end_shell"
    /\ UNCHANGED <<fileVars, stop, display, polkitVars, due, cause, code, waitVars>>

EndShell ==
    /\ pc = "end_shell"
    /\ Terminate("shell")
    /\ pc' = "end_satellite"
    /\ UNCHANGED <<fileVars, stop, display, polkitVars, due, cause, code, waitVars>>

\* stop_xwayland_group
EndSatellite ==
    /\ pc = "end_satellite"
    /\ Terminate("satellite")
    /\ ListenerClose(display)
    /\ pc' = "end_core"
    /\ UNCHANGED <<foreign, config, stop, display, polkitVars, due, cause, code, waitVars>>

\* stop_core_group, or terminate_group when Core was reaped; then the return
\* value of the branch, some of which read g_stop_requested only now.
EndCore ==
    /\ pc = "end_core"
    /\ Terminate("core")
    /\ code' = CASE cause = "core" -> "core"
                 [] cause = "stop" -> "success"
                 [] cause = "import" -> "failure"
                 [] cause = "early" -> IF stop THEN "success" ELSE "failure"
                 [] cause = "satellite" -> IF stop THEN "success" ELSE "satellite"
    /\ pc' = "ended"
    /\ UNCHANGED <<fileVars, stop, display, polkitVars, due, cause, waitVars>>

-----------------------------------------------------------------------------
Supervisor ==
    \/ ResolveConfig \/ SeedConfig
    \/ StartCore \/ WaitCoreReady \/ CoreRoundtrip \/ ProbeSatellite
    \/ TryDisplay \/ WaitSatelliteReady \/ SatelliteRoundtrip \/ ImportEnvironment
    \/ StartDaemons
    \/ CheckCore \/ CheckSatellite \/ CausalWindow \/ CheckPolkit \/ CheckShell
    \/ EndPolkit \/ EndShell \/ EndSatellite \/ EndCore

Environment ==
    \/ \E r \in Roles : Dies(r) \/ Descendant(r)
    \/ CoreCloses \/ Silence
    \/ Signal \/ DeadlineOver
    \/ UserWrites
    \/ \E r \in {"shell", "polkit"} : DelayOver(r)
    \/ \E d \in Displays : ForeignServer(d)

Next == Supervisor \/ Environment

Spec == Init /\ [][Next]_vars

\* The supervisor takes its steps, except in a roundtrip with a silent peer:
\* every other wait of it has a deadline or follows a SIGKILL.  Deadlines and
\* delays end.  A Shell is forked in the end when it is tried again and again.
Fairness ==
    /\ WF_vars(Supervisor)
    /\ WF_vars(DeadlineOver)
    /\ WF_vars(DelayOver("shell"))
    /\ SF_vars(CheckShell /\ leader'["shell"] = "live" /\ leader["shell"] # "live")

FairSpec == Spec /\ Fairness

-----------------------------------------------------------------------------
TypeOK ==
    /\ leader \in [Roles -> {"none", "live", "zombie"}]
    /\ rest \in SUBSET Roles
    /\ foreign \in SUBSET Displays
    /\ path \in [Displays -> {"none", "ours", "foreign"}]
    /\ config \in {"none", "ours", "user"}
    /\ pc \in Phases
    /\ stop \in BOOLEAN
    /\ display \in 0..(DisplayMax + 1)
    /\ failures \in Nat /\ degraded \in BOOLEAN
    /\ due \in [{"shell", "polkit"} -> BOOLEAN]
    /\ cause \in {"none", "early", "import", "stop", "core", "satellite"}
    /\ code \in {"none", "failure", "success", "core", "satellite"}
    /\ coreFirst \in BOOLEAN /\ coreGone \in BOOLEAN /\ late \in BOOLEAN
    /\ silent \in BOOLEAN /\ over \in BOOLEAN
    /\ attempts \in Nat

\* However the session ends, at whatever point of its start or by whichever
\* program, nothing it started is alive and no socket it made is left.
CleanExit ==
    pc = "ended" =>
        /\ \A r \in Roles : leader[r] = "none"
        /\ rest = {}
        /\ \A d \in Displays : path[d] # "ours"

\* The session destroys nothing that is not its own: a socket that another X
\* server has put in the place of ours is removed by that server only
\* (x11_listener_close compares inodes), and a configuration that appears while
\* the template is copied stays (seed_shell_config links, it does not rename).
ForeignKept ==
    [][/\ \A d \in Displays :
            path[d] = "foreign" /\ path'[d] # "foreign" => d \in foreign \ foreign'
       /\ config = "user" => config' = "user"]_vars

\* The session takes away all that is its own and nothing else.
CleansUpItsOwn == []CleanExit /\ ForeignKept

\* When Core closed its connections first and took the satellite along ("Core
\* teardown can close satellite's Wayland connection before waitpid(core_pid)
\* becomes observable"), the session returns the status of the satellite only if
\* Core's teardown outlasted the causal window of XWAYLAND_CORE_EXIT_GRACE_MS.
CoreBlamed == code = "satellite" => ~coreFirst \/ late

\* From one stable run of the agent to the next, the first start of a session
\* counted as one, it is started POLKIT_RESTART_MAX times at most, whether its
\* starts fail or it dies.
PolkitBounded == attempts <= PolkitRestartMax

\* What a program looks like to the session's user.
Seen(r) ==
    CASE pc = "ended" -> "over"
      [] pc # "ended" /\ leader[r] = "live" -> "up"
      [] pc # "ended" /\ leader[r] # "live"
           /\ (leader[r] = "zombie" \/ r \in rest) -> "left"
      [] OTHER -> "down"

ShellService == INSTANCE Service WITH state <- Seen("shell")
PolkitService == INSTANCE Service WITH state <- Seen("polkit")

\* The Shell and the agent are services: a crashed one is started again only
\* when the providers it left behind are gone, and none when the session ends.
ImplementsServices == ShellService!Spec /\ PolkitService!Spec

\* The session hangs in a roundtrip of its start: wl_display_roundtrip, or
\* xcb_connect and xcb_get_input_focus_reply, with a peer that is silent.
Blocked == silent /\ pc \in {"core_roundtrip", "satellite_roundtrip"}

\* After a signal, and after the end of Core or of the satellite of a session
\* that is running, the session ends, unless a peer that says nothing blocks it.
SessionEnds ==
    \/ stop
    \/ /\ pc \in {"core_check", "satellite_check", "polkit_check", "shell_check"}
       /\ Exited("core") \/ Exited("satellite")
    ~> pc = "ended" \/ Blocked

\* A session that goes on always has a Shell again, and one that is starting does
\* not wait for Core, the satellite or a display for ever.
ShellReturns == []<>(leader["shell"] = "live" \/ pc = "ended" \/ Blocked)

\* The session does not stay without its Shell, and only a silent peer of a
\* roundtrip of its start can hang it.
SessionServes == SessionEnds /\ ShellReturns
=============================================================================
