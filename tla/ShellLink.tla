----------------------------- MODULE ShellLink -----------------------------
(***************************************************************************)
(* The link between the compositor and the Shell daemon: the server side   *)
(* in core/src/shell_protocol.c, the daemon in shell/src/main.c, and the   *)
(* watchers that long-poll the daemon for the next state.  Compositor and  *)
(* daemon are two processes with a socket between them; a socket keeps the *)
(* order of what is sent.  A daemon may crash at any step; the compositor  *)
(* learns of it later, possibly after the next daemon has connected.       *)
(*                                                                         *)
(* A snapshot's contents are the subject of DesktopSnapshot; here it is    *)
(* its generation.                                                         *)
(***************************************************************************)
EXTENDS Naturals, Sequences, FiniteSets

CONSTANTS Daemons,     \* daemon processes, one connection each
          Watchers,    \* watch-state clients of the control socket
          NoDaemon,
          GenMax,      \* the last generation before the wrap, 2^32 - 1
          Wrap,        \* whether the generation may pass GenMax
          SerialMax,   \* the last invocation serial before the wrap
          PendingMax,  \* bound on unanswered invocations
          QueueMax,    \* bound on what the compositor has sent and nobody read
          StopMax      \* bound on how often a daemon ends

ASSUME LinkAssumption ==
    /\ NoDaemon \notin Daemons
    /\ GenMax \in Nat \ {0}
    /\ SerialMax \in Nat \ {0}
    /\ Wrap \in BOOLEAN
    /\ PendingMax \in Nat
    /\ QueueMax \in Nat
    /\ StopMax \in Nat

VARIABLES
    \* the compositor
    generation, connected, controller, fallback, pending, nextSerial,
    \* the sockets
    up, down,
    \* the processes
    daemon, watch, stops

coreVars == <<generation, connected, controller, fallback, pending, nextSerial>>
vars == <<coreVars, up, down, daemon, watch, stops>>

Generations == 1..GenMax
Serials == 1..SerialMax

Msg(type, n) == [type |-> type, n |-> n]
Request(type) == Msg(type, 0)

Requests == [type : {"bind", "get_state", "claim", "release"}, n : {0}]
                \cup [type : {"result"}, n : Serials]
Events == [type : {"changed", "snapshot"}, n : Generations]
                \cup [type : {"granted", "refused"}, n : {0}]
                \cup [type : {"invoke"}, n : Serials]

Off == [proc |-> "off", outstanding |-> FALSE, latest |-> 0, snap |-> 0,
        claim |-> "none"]

Processes == [proc : {"off", "starting", "running"},
              outstanding : BOOLEAN,
              latest : 0..GenMax,
              snap : 0..GenMax,
              claim : {"none", "granted", "refused"}]
Waits == [waiting : BOOLEAN, after : 0..GenMax]

\* Every variable keeps its type.
TypeOK ==
    /\ generation \in Generations
    /\ connected \in SUBSET Daemons
    /\ controller \in SUBSET Daemons
    /\ fallback \in BOOLEAN
    /\ pending \in SUBSET [serial : Serials, controller : Daemons]
    /\ nextSerial \in Serials
    /\ up \in [Daemons -> Seq(Requests)]
    /\ down \in [Daemons -> Seq(Events)]
    /\ daemon \in [Daemons -> Processes]
    /\ watch \in [Watchers -> Waits]
    /\ stops \in 0..StopMax

Init ==
    /\ generation = 1
    /\ connected = {}
    /\ controller = {}
    /\ fallback = TRUE
    /\ pending = {}
    /\ nextSerial = 1
    /\ up = [d \in Daemons |-> <<>>]
    /\ down = [d \in Daemons |-> <<>>]
    /\ daemon = [d \in Daemons |-> Off]
    /\ watch = [w \in Watchers |-> [waiting |-> FALSE, after |-> 0]]
    /\ stops = 0

----------------------------------------------------------------------------
(* The compositor.                                                         *)

\* What is sent to a process that is gone reaches nobody.
Delivered(d, m) ==
    IF daemon[d].proc = "off" THEN down[d] ELSE Append(down[d], m)
Send(d, m) == down' = [down EXCEPT ![d] = Delivered(d, m)]

Succ(n, max) == IF n = max THEN 1 ELSE n + 1
RoomFor(d) == Len(down[d]) < QueueMax

MarkChanged ==
    /\ Wrap \/ generation < GenMax
    /\ \A d \in connected : RoomFor(d)
    /\ generation' = Succ(generation, GenMax)
    /\ down' = [d \in Daemons |->
                    IF d \in connected THEN Delivered(d, Msg("changed", generation'))
                    ELSE down[d]]
    /\ UNCHANGED <<connected, controller, fallback, pending, nextSerial, up, daemon,
                   watch, stops>>

Reads(d, type) ==
    /\ up[d] # <<>>
    /\ Head(up[d]).type = type
    /\ up' = [up EXCEPT ![d] = Tail(@)]
    /\ UNCHANGED <<daemon, watch, stops>>

Bind(d) ==
    /\ Reads(d, "bind")
    /\ connected' = connected \cup {d}
    /\ UNCHANGED <<generation, controller, fallback, pending, nextSerial, down>>

GetState(d) ==
    /\ Reads(d, "get_state")
    /\ Send(d, Msg("snapshot", generation))
    /\ UNCHANGED coreVars

ClaimController(d) ==
    /\ Reads(d, "claim")
    /\ IF controller \subseteq {d}
       THEN /\ controller' = {d}
            /\ fallback' = FALSE
            /\ Send(d, Request("granted"))
       ELSE /\ Send(d, Request("refused"))
            /\ UNCHANGED <<controller, fallback>>
    /\ UNCHANGED <<generation, connected, pending, nextSerial>>

\* Mutant: the recovery panel does not come back.
LoseControllerSilent(d) ==
    IF d \in controller
    THEN /\ pending' = {p \in pending : p.controller # d}
         /\ controller' = controller \ {d}
         /\ UNCHANGED fallback
    ELSE UNCHANGED <<pending, controller, fallback>>

\* handle_release_controller and handle_shell_resource_destroy: what was sent
\* to the controller fails, and the recovery panel comes back.
LoseController(d) ==
    IF d \in controller
    THEN /\ pending' = {p \in pending : p.controller # d}
         /\ controller' = controller \ {d}
         /\ fallback' = TRUE
    ELSE UNCHANGED <<pending, controller, fallback>>

ReleaseController(d) ==
    /\ Reads(d, "release")
    /\ LoseController(d)
    /\ UNCHANGED <<generation, connected, nextSerial, down>>

\* find_pending_invoke
Pending(s) == {p \in pending : p.serial = s}

ControllerResult(d) ==
    /\ Reads(d, "result")
    /\ pending' = IF d \in controller
                  THEN pending \ {[serial |-> Head(up[d]).n, controller |-> d]}
                  ELSE pending
    /\ UNCHANGED <<generation, connected, controller, fallback, nextSerial, down>>

\* Mutant: a serial still in use is used again.
ProtocolInvokeUnchecked(d) ==
    /\ d \in controller
    /\ RoomFor(d)
    /\ Cardinality(pending) < PendingMax
    /\ nextSerial' = Succ(nextSerial, SerialMax)
    /\ pending' = pending \cup {[serial |-> nextSerial, controller |-> d]}
    /\ Send(d, Msg("invoke", nextSerial))
    /\ UNCHANGED <<generation, connected, controller, fallback, up, daemon, watch, stops>>

\* onyrion_shell_protocol_invoke for a shortcut.  A serial still in use fails
\* the invocation, yet the serial is spent.
ProtocolInvoke(d) ==
    /\ d \in controller
    /\ RoomFor(d)
    /\ Cardinality(pending) < PendingMax
    /\ nextSerial' = Succ(nextSerial, SerialMax)
    /\ IF Pending(nextSerial) = {}
       THEN /\ pending' = pending \cup {[serial |-> nextSerial, controller |-> d]}
            /\ Send(d, Msg("invoke", nextSerial))
       ELSE UNCHANGED <<pending, down>>
    /\ UNCHANGED <<generation, connected, controller, fallback, up, daemon, watch, stops>>

\* The connection of a process that is gone breaks: what it had sent and the
\* compositor has not read is lost with it.
Disconnect(d) ==
    /\ daemon[d].proc = "off"
    /\ d \in connected \/ up[d] # <<>>
    /\ connected' = connected \ {d}
    /\ LoseController(d)
    /\ up' = [up EXCEPT ![d] = <<>>]
    /\ UNCHANGED <<generation, nextSerial, down, daemon, watch, stops>>

----------------------------------------------------------------------------
(* The daemon.                                                             *)

Hello == <<Request("bind"), Request("get_state"), Request("claim")>>

\* shell_connect and run_daemon.  Another daemon's control socket refuses.
Start(d) ==
    /\ \A e \in Daemons : daemon[e].proc = "off"
    /\ d \notin connected
    /\ up[d] = <<>>
    /\ daemon' = [daemon EXCEPT ![d] = [Off EXCEPT !.proc = "starting",
                                                   !.outstanding = TRUE]]
    /\ up' = [up EXCEPT ![d] = Hello]
    /\ UNCHANGED <<coreVars, down, watch, stops>>

Dispatches(d, type) ==
    /\ daemon[d].proc # "off"
    /\ down[d] # <<>>
    /\ Head(down[d]).type = type
    /\ down' = [down EXCEPT ![d] = Tail(@)]
    /\ UNCHANGED <<coreVars, stops>>

Later(m, n) == IF m > n THEN m ELSE n

HandleChanged(d) ==
    /\ Dispatches(d, "changed")
    /\ LET latest == Later(daemon[d].latest, Head(down[d]).n)
       IN daemon' = [daemon EXCEPT ![d] = [@ EXCEPT !.latest = latest,
                                                    !.outstanding = TRUE]]
    /\ up' = IF daemon[d].outstanding THEN up
             ELSE [up EXCEPT ![d] = Append(@, Request("get_state"))]
    /\ UNCHANGED watch

\* Mutant: a waiter sleeps through the next generation.
WokenLate(w, g) == watch[w].waiting /\ g > watch[w].after + 1
\* Mutant: waiters are not looked at.
NotifyNone(g) == UNCHANGED watch
\* state_waiters_notify
Woken(w, g) == watch[w].waiting /\ g > watch[w].after
Notify(g) ==
    watch' = [w \in Watchers |-> IF Woken(w, g) THEN [waiting |-> FALSE, after |-> g]
                                 ELSE watch[w]]

HandleStateEnd(d) ==
    /\ Dispatches(d, "snapshot")
    /\ LET g == Head(down[d]).n
           again == daemon[d].latest > g
       IN /\ daemon' = [daemon EXCEPT ![d] = [@ EXCEPT !.snap = g, !.outstanding = again]]
          /\ up' = IF again THEN [up EXCEPT ![d] = Append(@, Request("get_state"))]
                   ELSE up
          /\ Notify(g)

HandleClaimResult(d) ==
    /\ \E r \in {"granted", "refused"} :
          /\ Dispatches(d, r)
          /\ daemon' = [daemon EXCEPT ![d] = [@ EXCEPT !.claim = r]]
    /\ UNCHANGED <<up, watch>>

HandleControllerInvoke(d) ==
    /\ Dispatches(d, "invoke")
    /\ up' = [up EXCEPT ![d] = Append(@, Msg("result", Head(down[d]).n))]
    /\ UNCHANGED <<daemon, watch>>

\* The end of the startup loop.
StartupEnds(d) ==
    /\ daemon[d].proc = "starting"
    /\ daemon[d].claim # "none"
    /\ ~daemon[d].outstanding

DaemonReady(d) ==
    /\ StartupEnds(d)
    /\ daemon[d].claim = "granted"
    /\ daemon' = [daemon EXCEPT ![d] = [@ EXCEPT !.proc = "running"]]
    /\ UNCHANGED <<coreVars, up, down, watch, stops>>

\* The process ends and closes its sockets; a watcher that waits gets an end
\* of file and exits, and the next one started in its place has seen nothing.
Ends(d) ==
    /\ daemon' = [daemon EXCEPT ![d] = Off]
    /\ down' = [down EXCEPT ![d] = <<>>]
    /\ watch' = [w \in Watchers |-> IF watch[w].waiting
                                    THEN [waiting |-> FALSE, after |-> 0]
                                    ELSE watch[w]]

StartupRefused(d) ==
    /\ StartupEnds(d)
    /\ daemon[d].claim = "refused"
    /\ Ends(d)
    /\ UNCHANGED <<coreVars, up, stops>>

Stop(d) ==
    /\ daemon[d].proc = "running"
    /\ stops < StopMax
    /\ stops' = stops + 1
    /\ up' = [up EXCEPT ![d] = Append(@, Request("release"))]
    /\ Ends(d)
    /\ UNCHANGED coreVars

Crash(d) ==
    /\ daemon[d].proc # "off"
    /\ stops < StopMax
    /\ stops' = stops + 1
    /\ Ends(d)
    /\ UNCHANGED <<coreVars, up>>

----------------------------------------------------------------------------
(* The watchers of the control socket.                                     *)

\* WATCH_STATE: answered at once with a newer state, kept otherwise.  The
\* watcher takes the answer's generation as the one it has seen.
WatchState(w, d) ==
    /\ daemon[d].proc = "running"
    /\ ~watch[w].waiting
    /\ watch' = [watch EXCEPT ![w] =
                    IF daemon[d].snap > @.after
                    THEN [waiting |-> FALSE, after |-> daemon[d].snap]
                    ELSE [@ EXCEPT !.waiting = TRUE]]
    /\ UNCHANGED <<coreVars, up, down, daemon, stops>>

\* No socket to connect to: a watcher that has received a state gives up.
WatchRefused(w) ==
    /\ \A d \in Daemons : daemon[d].proc = "off"
    /\ ~watch[w].waiting
    /\ watch[w].after # 0
    /\ watch' = [watch EXCEPT ![w].after = 0]
    /\ UNCHANGED <<coreVars, up, down, daemon, stops>>

----------------------------------------------------------------------------
CoreReads(d) ==
    Bind(d) \/ GetState(d) \/ ClaimController(d) \/ ReleaseController(d)
        \/ ControllerResult(d)

DaemonDispatches(d) ==
    \/ HandleChanged(d)
    \/ HandleStateEnd(d)
    \/ HandleClaimResult(d)
    \/ HandleControllerInvoke(d)

Next ==
    \/ MarkChanged
    \/ \E d \in Daemons :
          \/ CoreReads(d)
          \/ ProtocolInvoke(d)
          \/ Disconnect(d)
          \/ Start(d)
          \/ DaemonDispatches(d)
          \/ DaemonReady(d)
          \/ StartupRefused(d)
          \/ Stop(d)
          \/ Crash(d)
          \/ \E w \in Watchers : WatchState(w, d)
    \/ \E w \in Watchers : WatchRefused(w)

Spec == Init /\ [][Next]_vars

\* Both event loops read what arrives, a broken connection is noticed, the
\* session restarts a daemon that ended, and a watcher asks again.
Fairness ==
    /\ \A d \in Daemons :
          /\ WF_vars(CoreReads(d))
          /\ WF_vars(Disconnect(d))
          /\ WF_vars(DaemonDispatches(d))
          /\ WF_vars(DaemonReady(d) \/ StartupRefused(d))
    /\ WF_vars(\E d \in Daemons : Start(d))
    /\ \A w \in Watchers : WF_vars(\E d \in Daemons : WatchState(w, d))

FairSpec == Spec /\ Fairness

----------------------------------------------------------------------------
(* Properties.                                                             *)

\* A daemon that believes it is the controller is: no release, crash or claim
\* of another connection takes the role from a daemon still alive.
OwnershipAgrees ==
    \A d \in Daemons : daemon[d].claim = "granted" => controller = {d}

\* Every invocation the compositor still waits for was sent to the present
\* controller, and while that process lives exactly one message under way will
\* answer it, whatever serials were used before.
InFlight(s, d) ==
    {<<"down", i>> : i \in {i \in 1..Len(down[d]) : down[d][i] = Msg("invoke", s)}}
        \cup {<<"up", i>> : i \in {i \in 1..Len(up[d]) : up[d][i] = Msg("result", s)}}

InvocationsAccounted ==
    \A p \in pending :
        /\ controller = {p.controller}
        /\ daemon[p.controller].proc # "off" =>
              Cardinality(InFlight(p.serial, p.controller)) = 1

Contains(q, type) == \E i \in 1..Len(q) : q[i].type = type

\* A daemon with no request outstanding and no change left to read shows the
\* compositor's present state: no change is lost between two snapshots.
NoLostChange ==
    \A d \in Daemons :
        /\ daemon[d].proc # "off"
        /\ ~daemon[d].outstanding
        /\ ~Contains(down[d], "changed")
        => daemon[d].snap = generation

\* A watcher that is kept waiting has seen the state the daemon would answer
\* with: whatever changed before its request was answered at once.
WaitsForNews ==
    \A w \in Watchers, d \in Daemons :
        watch[w].waiting /\ daemon[d].proc = "running" => watch[w].after = daemon[d].snap

\* No change is missed, by the daemon nor by those who watch it.
NothingMissed == NoLostChange /\ WaitsForNews

\* find_controller
Holder == IF controller = {} THEN NoDaemon ELSE CHOOSE d \in Daemons : d \in controller
Open == {p.serial : p \in pending}

Role == INSTANCE ControllerRole WITH
    Clients <- Daemons,
    NoClient <- NoDaemon,
    holder <- Holder,
    recovery <- fallback,
    open <- Open

\* The compositor's half implements the abstract controller role: one
\* controller, the recovery panel without one, no invocation left over.
ImplementsRole == Role!Spec

\* When daemons stop ending, one gets the role and keeps it: a dead daemon's
\* claim does not keep its successor out for ever.
ControllerReturns == <>[](\E d \in Daemons : daemon[d].proc = "running" /\ d \in controller)

\* Every invocation is answered or fails with its controller.
InvocationsSettle == \A s \in Serials : []<>(Pending(s) = {})

\* A watcher is told of every change that stays.
WatchersServed ==
    \A w \in Watchers :
        (\E d \in Daemons : daemon[d].proc = "running" /\ watch[w].after < generation)
            ~> (\/ watch[w].after = generation
                \/ \A d \in Daemons : daemon[d].proc = "off")

\* What the two together owe the user in the end.
LinkServes == ControllerReturns /\ InvocationsSettle /\ WatchersServed
=============================================================================
