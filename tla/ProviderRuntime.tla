---------------------------- MODULE ProviderRuntime ----------------------------
(***************************************************************************)
(* The supervision of UI providers, shell/src/provider_runtime.c: each is  *)
(* a child process, started, restarted after a delay when its policy says  *)
(* so and, in health mode "command", probed by a second child process, one *)
(* probe at a time and each under an alarm.  All handlers are callbacks of *)
(* one main loop; the child processes run and end whenever they like.      *)
(*                                                                         *)
(* Durations are left out: a timer that is armed may fire.  So is          *)
(* restart_attempt, which only chooses the delay.  A child watch stands    *)
(* exactly as long as its process is not waited for; it has no variable.   *)
(* GLib's functions that add a source never return 0, what the code does   *)
(* in that case is left out.                                               *)
(***************************************************************************)
EXTENDS FiniteSets, Naturals

CONSTANTS Providers,  \* every provider some configuration names
          Probed,     \* those of health mode "command"
          Autostart,
          Policy      \* restart_policy of each

ASSUME ProviderAssumption ==
    /\ Probed \subseteq Providers
    /\ Autostart \subseteq Providers
    /\ Policy \in [Providers -> {"never", "on-failure", "always"}]

VARIABLES members,  \* the providers the manager was made for
          prov,     \* ProviderRuntime and its children, by provider
          lost      \* providers with a child that nobody will ever wait for

provVars == <<members, prov, lost>>

Runtime ==
    [state : {"stopped", "starting", "ready", "backoff", "unavailable"},
     process : {"none", "live", "ok", "bad"}, \* "ok", "bad": ended, not waited for
     asked : BOOLEAN,    \* SIGTERM was sent after the startup timeout
     restart : BOOLEAN,  \* restart_source
     due : BOOLEAN,      \* health_source
     probe : {"none", "live", "ok", "bad"},
     alarm : BOOLEAN,    \* health_timeout_source
     timedOut : BOOLEAN, \* health_timed_out
     expired : BOOLEAN]  \* health_startup_timeout_ms have passed since the start

Stopped ==
    [state |-> "stopped", process |-> "none", asked |-> FALSE, restart |-> FALSE,
     due |-> FALSE, probe |-> "none", alarm |-> FALSE, timedOut |-> FALSE,
     expired |-> FALSE]

ProviderTypeOK ==
    /\ members \subseteq Providers
    /\ prov \in [Providers -> Runtime]
    /\ lost \subseteq Providers

ProviderInit ==
    /\ members = {}
    /\ prov = [p \in Providers |-> Stopped]
    /\ lost = {}

Set(p, r) ==
    /\ prov' = [prov EXCEPT ![p] = r]
    /\ UNCHANGED members

-----------------------------------------------------------------------------
(* The functions the handlers are made of, from runtime to runtime.        *)

\* Mutant: the probe of a process that is gone goes on.
CancelHealthProbeKeeps(r) == r
\* cancel_health_probe: timers are removed, the probe is killed and waited for.
CancelHealthProbe(r) ==
    [r EXCEPT !.due = FALSE, !.alarm = FALSE, !.probe = "none", !.timedOut = FALSE]

ScheduleHealthProbe(r) ==
    IF r.process = "none" \/ r.due \/ r.probe # "none"
    THEN r
    ELSE [r EXCEPT !.due = TRUE]

HandleHealthResult(r, success) ==
    CASE r.process = "none" -> r
      [] r.process # "none" /\ success ->
           ScheduleHealthProbe([r EXCEPT !.state = "ready"])
      [] r.process # "none" /\ ~success /\ r.state = "starting" /\ r.expired ->
           [r EXCEPT !.state = "unavailable", !.asked = TRUE]
      [] OTHER ->
           ScheduleHealthProbe([r EXCEPT !.state = IF @ = "ready" THEN "unavailable" ELSE @])

ScheduleRestart(r) == [r EXCEPT !.state = "backoff", !.restart = TRUE]

\* should_restart
ShouldRestart(p, success) ==
    \/ Policy[p] = "always"
    \/ Policy[p] = "on-failure" /\ ~success

\* spawn_provider once the child is there.
Spawned(p, r) ==
    LET s == [r EXCEPT !.process = "live", !.asked = FALSE, !.expired = FALSE]
    IN IF p \in Probed
       THEN ScheduleHealthProbe([s EXCEPT !.state = "starting"])
       ELSE [s EXCEPT !.state = "ready"]

\* spawn_provider when g_spawn_async fails.
NotSpawned(p, r) ==
    IF Policy[p] # "never" THEN ScheduleRestart(r)
    ELSE [r EXCEPT !.state = "unavailable"]

\* stop_provider: the children are terminated, killed if need be, waited for.
StopProvider(r) == Stopped

-----------------------------------------------------------------------------
(* The manager.                                                            *)

\* provider_manager_finish, then provider_manager_init for the providers S.
Made(S) ==
    /\ members' = S
    /\ prov' = [p \in Providers |-> IF p \in members THEN StopProvider(prov[p]) ELSE prov[p]]
    /\ UNCHANGED lost

\* The same, then provider_manager_start; the spawn of any of them may fail.
Started(S) ==
    /\ members' = S
    /\ \E failing \in SUBSET (S \cap Autostart) :
          prov' = [p \in Providers |->
                     LET r == IF p \in members THEN StopProvider(prov[p]) ELSE prov[p] IN
                     CASE p \notin S \cap Autostart -> r
                       [] p \in failing -> NotSpawned(p, r)
                       [] OTHER -> Spawned(p, r)]
    /\ lost' = lost \cup {p \in S \cap Autostart :
                            prov[p].process # "none" /\ p \notin members}

-----------------------------------------------------------------------------
(* The callbacks.                                                          *)

\* provider_child_exited
ProviderChildExited(p) ==
    LET r == prov[p]
        gone == CancelHealthProbe([r EXCEPT !.process = "none", !.asked = FALSE])
    IN /\ r.process \in {"ok", "bad"}
       /\ Set(p, IF ShouldRestart(p, r.process = "ok")
                 THEN ScheduleRestart(gone)
                 ELSE [gone EXCEPT !.state = "unavailable"])
       /\ UNCHANGED lost

\* restart_provider
RestartProvider(p) ==
    LET r == [prov[p] EXCEPT !.restart = FALSE] IN
    /\ prov[p].restart
    /\ \/ /\ Set(p, Spawned(p, r))
          /\ lost' = IF r.process = "none" THEN lost ELSE lost \cup {p}
       \/ /\ Set(p, NotSpawned(p, r))
          /\ UNCHANGED lost

\* start_health_probe
StartHealthProbe(p) ==
    LET r == [prov[p] EXCEPT !.due = FALSE] IN
    /\ prov[p].due
    /\ IF r.process = "none" \/ p \notin Probed
       THEN Set(p, r)
       ELSE \/ Set(p, HandleHealthResult(r, FALSE))   \* expired, or not spawned
            \/ /\ ~(r.state = "starting" /\ r.expired)
               /\ Set(p, [r EXCEPT !.probe = "live", !.alarm = TRUE, !.timedOut = FALSE])
    /\ UNCHANGED lost

\* health_probe_timeout
HealthProbeTimeout(p) ==
    LET r == prov[p] IN
    /\ r.alarm
    /\ Set(p, [r EXCEPT !.alarm = FALSE,
                        !.timedOut = r.probe # "none",
                        !.probe = IF @ = "live" THEN "bad" ELSE @])
    /\ UNCHANGED lost

\* health_probe_exited
HealthProbeExited(p) ==
    LET r == prov[p]
        success == /\ ~r.timedOut
                   /\ r.probe = "ok"
                   /\ ~(r.state = "starting" /\ r.expired)
    IN /\ r.probe \in {"ok", "bad"}
       /\ Set(p, HandleHealthResult([r EXCEPT !.probe = "none", !.alarm = FALSE,
                                              !.timedOut = FALSE], success))
       /\ UNCHANGED lost

Callback(p) ==
    \/ ProviderChildExited(p)
    \/ RestartProvider(p)
    \/ StartHealthProbe(p)
    \/ HealthProbeTimeout(p)
    \/ HealthProbeExited(p)

-----------------------------------------------------------------------------
(* The children, and the time they take.                                   *)

ProcessEnds(p, how) ==
    /\ prov[p].process = "live"
    /\ Set(p, [prov[p] EXCEPT !.process = how])
    /\ UNCHANGED lost

ProbeEnds(p, how) ==
    /\ prov[p].probe = "live"
    /\ Set(p, [prov[p] EXCEPT !.probe = how])
    /\ UNCHANGED lost

\* Past "starting" nobody asks whether the startup timeout has passed.
StartupExpires(p) ==
    /\ prov[p].state = "starting"
    /\ ~prov[p].expired
    /\ Set(p, [prov[p] EXCEPT !.expired = TRUE])
    /\ UNCHANGED lost

Children(p) ==
    \/ \E how \in {"ok", "bad"} : ProcessEnds(p, how) \/ ProbeEnds(p, how)
    \/ StartupExpires(p)

-----------------------------------------------------------------------------
(* Properties.                                                             *)

\* A provider that has no process left has no probe and no timer of one, so
\* that no result for an old process is counted for a new one; and a provider
\* that waits for its restart has none that could be started twice.
NothingStale ==
    \A p \in Providers :
        /\ prov[p].process = "none" =>
              /\ ~prov[p].due /\ ~prov[p].alarm
              /\ prov[p].probe = "none"
              /\ prov[p].state # "ready"
        /\ prov[p].restart => prov[p].process = "none"

\* What configurations no longer name is gone, and every child the daemon ever
\* started is waited for.
NothingOutlives ==
    /\ lost = {}
    /\ \A p \in Providers \ members : prov[p] = Stopped

\* A provider is never forgotten: while its process lives either a probe is
\* under way or due, or it was told to end; without a process it is restarted
\* unless its policy forbids.
NeverForgotten ==
    \A p \in Providers :
        /\ prov[p].process = "live" /\ p \in Probed =>
              prov[p].due \/ prov[p].probe # "none" \/ prov[p].asked
        /\ prov[p].state # "stopped" /\ Policy[p] = "always" =>
              prov[p].process # "none" \/ prov[p].restart
=============================================================================
