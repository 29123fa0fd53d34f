---------------------------- MODULE Shell_proofs ----------------------------
(***************************************************************************)
(* Proofs about the shell.  First ShellConfigReload and the                *)
(* ProviderRuntime in it, for any configurations and any providers with    *)
(* any policies; then GroupPanels and the PanelDrag in it, for any groups, *)
(* any number of watchers, changes, faults and messages.                   *)
(*                                                                         *)
(* What ProvidersTracked says of a provider is said of its runtime alone   *)
(* (Tracked), and each function of the handlers keeps it.  It is inductive *)
(* as it stands: that no runtime is left outside the manager is what makes *)
(* a restart of the manager lose no child.                                 *)
(*                                                                         *)
(* The surfaces there are and the panels there are are related through the *)
(* requests on their way (Surfaced): for each group they form a chain, in  *)
(* which each request destroys what the one before it makes.  That is      *)
(* inductive, where SurfacePerPanel, which tells the two ends of the chain *)
(* only, is not.  What the plugin and the compositor know of a drag is     *)
(* related in the same way (DragInvariant): each fact is known at the      *)
(* other end or the last message of its kind carries it.                   *)
(***************************************************************************)
EXTENDS ShellConfigReload, PanelDrag, SequenceTheorems, TLAPS

\* What the runtime r of the provider p must know.
Tracked(p, r) ==
    /\ r \in Runtime
    /\ r.process = "none" => ~r.due /\ ~r.alarm /\ r.probe = "none" /\ r.state # "ready"
    /\ r.restart => r.process = "none"
    /\ r.process = "live" /\ p \in Probed => r.due \/ r.probe # "none" \/ r.asked
    /\ r.state # "stopped" /\ Policy[p] = "always" => r.process # "none" \/ r.restart

Supervised ==
    /\ members \subseteq Providers
    /\ lost = {}
    /\ prov \in [Providers -> Runtime]
    /\ \A p \in Providers : Tracked(p, prov[p]) /\ (p \notin members => prov[p] = Stopped)

\* The rest of TypeOK.
ConfigTypeOK ==
    /\ file \in Contents /\ lkg \in Contents
    /\ writing \in BOOLEAN /\ notified \in BOOLEAN /\ timer \in BOOLEAN /\ missed \in BOOLEAN
    /\ phase \in {"down", "booting", "starting", "running", "loaded"}
    /\ config \in Used /\ candidate \in Used

\* What waits to be copied was found to load.
CandidateLoads == phase \in {"booting", "loaded"} => candidate \in Configs

IInv == Supervised /\ ConfigTypeOK /\ CandidateLoads

LEMMA SupervisedIsTracked ==
  ASSUME Supervised, ConfigTypeOK
  PROVE  ProvidersTracked
  BY DEF Supervised, ConfigTypeOK, Tracked, ProvidersTracked, TypeOK, ProviderTypeOK, NothingStale,
    NothingOutlives, NeverForgotten

-----------------------------------------------------------------------------
\* The functions the handlers are made of.

LEMMA StoppedTracked ==
  ASSUME NEW p \in Providers
  PROVE  Stopped \in Runtime /\ Tracked(p, Stopped)
  BY DEF Stopped, Runtime, Tracked

\* A provider is spawned, or not, where there was no process.
LEMMA SpawnTracked ==
  ASSUME NEW p \in Providers, NEW r \in Runtime, r.process = "none", ~r.restart,
         ~r.due, ~r.alarm, r.probe = "none", r.state # "ready"
  PROVE  /\ Spawned(p, r) \in Runtime /\ Tracked(p, Spawned(p, r))
         /\ NotSpawned(p, r) \in Runtime /\ Tracked(p, NotSpawned(p, r))
  <1>1. Spawned(p, r) \in Runtime /\ Tracked(p, Spawned(p, r))
    BY DEF Spawned, ScheduleHealthProbe, Runtime, Tracked
  <1>2. NotSpawned(p, r) \in Runtime /\ Tracked(p, NotSpawned(p, r))
    BY ProviderAssumption DEF NotSpawned, ScheduleRestart, Runtime, Tracked
  <1> QED
    BY <1>1, <1>2

\* The answer of a probe, or that there was none, for a process not waited for:
\* unless the process is told to end, the next probe is due.
LEMMA ResultTracked ==
  ASSUME NEW p \in Providers, NEW r \in Runtime, NEW success \in BOOLEAN,
         r.process # "none", ~r.restart
  PROVE  /\ HandleHealthResult(r, success) \in Runtime
         /\ Tracked(p, HandleHealthResult(r, success))
  <1>1. CASE success
    BY <1>1 DEF HandleHealthResult, ScheduleHealthProbe, Runtime, Tracked
  <1>2. CASE ~success /\ r.state = "starting" /\ r.expired
    BY <1>2 DEF HandleHealthResult, Runtime, Tracked
  <1>3. CASE ~success /\ ~(r.state = "starting" /\ r.expired)
    BY <1>3, ZenonT(60) DEF HandleHealthResult, ScheduleHealthProbe, Runtime, Tracked
  <1> QED
    BY <1>1, <1>2, <1>3

LEMMA ExitTracked ==
  ASSUME NEW p \in Providers, NEW r \in Runtime, NEW again \in BOOLEAN,
         Policy[p] = "always" => again
  PROVE  LET gone == CancelHealthProbe([r EXCEPT !.process = "none", !.asked = FALSE])
             next == IF again THEN ScheduleRestart(gone) ELSE [gone EXCEPT !.state = "unavailable"]
         IN  ~r.restart => next \in Runtime /\ Tracked(p, next)
  BY DEF CancelHealthProbe, ScheduleRestart, Runtime, Tracked

-----------------------------------------------------------------------------
\* The callbacks and the children.

\* A step that gives one runtime another value.
LEMMA SetSupervised ==
  ASSUME Supervised, NEW p \in members, NEW r \in Runtime, Tracked(p, r), Set(p, r), lost' = lost
  PROVE  Supervised'
  <1>1. members' = members /\ prov' = [prov EXCEPT ![p] = r]
    BY DEF Set
  <1>2. p \in Providers
    BY DEF Supervised
  <1>3. /\ prov' \in [Providers -> Runtime] /\ prov'[p] = r
        /\ \A q \in Providers \ {p} : prov'[q] = prov[q]
    BY <1>1, <1>2 DEF Supervised
  <1> QED
    BY <1>1, <1>2, <1>3 DEF Supervised

LEMMA CallbackSupervised ==
  ASSUME Supervised, NEW p \in Providers, Callback(p)
  PROVE  Supervised'
  <1> DEFINE r == prov[p]
  <1>1. Tracked(p, r) /\ r \in Runtime
    BY DEF Supervised
  <1>2. p \in members
    <2>1. SUFFICES ASSUME r = Stopped PROVE FALSE
      BY DEF Supervised
    <2>2. ~Callback(p)
      BY <2>1 DEF Stopped, Callback, ProviderChildExited, RestartProvider, StartHealthProbe,
        HealthProbeTimeout, HealthProbeExited
    <2> QED
      BY <2>2
  <1>3. CASE ProviderChildExited(p)
    <2> DEFINE gone == CancelHealthProbe([r EXCEPT !.process = "none", !.asked = FALSE])
               next == IF ShouldRestart(p, r.process = "ok") THEN ScheduleRestart(gone)
                       ELSE [gone EXCEPT !.state = "unavailable"]
    <2>1. ~r.restart
      BY <1>1, <1>3 DEF Tracked, ProviderChildExited
    <2>2. ShouldRestart(p, r.process = "ok") \in BOOLEAN
          /\ (Policy[p] = "always" => ShouldRestart(p, r.process = "ok"))
      BY DEF ShouldRestart
    <2>3. next \in Runtime /\ Tracked(p, next)
      <3> HIDE DEF r
      <3> QED
        BY <1>1, <2>1, <2>2, ExitTracked
    <2>4. Set(p, next) /\ lost' = lost
      BY <1>3 DEF ProviderChildExited
    <2> HIDE DEF r, next
    <2> QED
      BY <1>2, <2>3, <2>4, SetSupervised
  <1>4. CASE RestartProvider(p)
    <2> DEFINE s == [r EXCEPT !.restart = FALSE]
    <2>1. /\ s \in Runtime /\ s.process = "none" /\ ~s.restart
          /\ ~s.due /\ ~s.alarm /\ s.probe = "none" /\ s.state # "ready"
      BY <1>1, <1>4 DEF Tracked, RestartProvider, Runtime
    <2>2. /\ Set(p, Spawned(p, s)) \/ Set(p, NotSpawned(p, s))
          /\ lost' = lost
      BY <1>4, <2>1 DEF RestartProvider
    <2> HIDE DEF s
    <2> QED
      BY <1>2, <2>1, <2>2, SpawnTracked, SetSupervised
  <1>5. CASE StartHealthProbe(p)
    <2> DEFINE s == [r EXCEPT !.due = FALSE]
               t == [s EXCEPT !.probe = "live", !.alarm = TRUE, !.timedOut = FALSE]
    <2>1. lost' = lost
      BY <1>5 DEF StartHealthProbe
    <2>2. r.due /\ r.process # "none" /\ s.process # "none" /\ ~s.restart /\ s \in Runtime
      BY <1>1, <1>5 DEF Tracked, StartHealthProbe, Runtime
    <2>3. CASE p \notin Probed
      <3>1. Set(p, s)
        BY <1>5, <2>2, <2>3 DEF StartHealthProbe
      <3>2. Tracked(p, s)
        BY <1>1, <2>2, <2>3 DEF Tracked, Runtime
      <3> HIDE DEF s
      <3> QED
        BY <1>2, <2>1, <2>2, <3>1, <3>2, SetSupervised
    <2>4. CASE p \in Probed /\ Set(p, HandleHealthResult(s, FALSE))
      <3> HIDE DEF s
      <3> QED
        BY <1>2, <2>1, <2>2, <2>4, ResultTracked, SetSupervised
    <2>5. CASE p \in Probed /\ Set(p, t)
      <3>1. t \in Runtime /\ Tracked(p, t)
        BY <1>1, <2>2 DEF Tracked, Runtime
      <3> HIDE DEF t
      <3> QED
        BY <1>2, <2>1, <2>5, <3>1, SetSupervised
    <2> QED
      BY <1>5, <2>2, <2>3, <2>4, <2>5 DEF StartHealthProbe
  <1>6. CASE HealthProbeTimeout(p)
    <2> DEFINE s == [r EXCEPT !.alarm = FALSE, !.timedOut = r.probe # "none",
                              !.probe = IF r.probe = "live" THEN "bad" ELSE r.probe]
    <2>1. Set(p, s) /\ lost' = lost
      BY <1>6 DEF HealthProbeTimeout
    <2>2. s \in Runtime /\ Tracked(p, s)
      BY <1>1, <1>6 DEF Tracked, Runtime, HealthProbeTimeout
    <2> HIDE DEF s
    <2> QED
      BY <1>2, <2>1, <2>2, SetSupervised
  <1>7. CASE HealthProbeExited(p)
    <2> DEFINE s == [r EXCEPT !.probe = "none", !.alarm = FALSE, !.timedOut = FALSE]
    <2>1. PICK success \in BOOLEAN : Set(p, HandleHealthResult(s, success)) /\ lost' = lost
      BY <1>7 DEF HealthProbeExited
    <2>2. s \in Runtime /\ s.process # "none" /\ ~s.restart /\ ~s.alarm
      BY <1>1, <1>7 DEF Tracked, Runtime, HealthProbeExited
    <2> HIDE DEF s
    <2> QED
      BY <1>2, <2>1, <2>2, ResultTracked, SetSupervised
  <1> QED
    BY <1>3, <1>4, <1>5, <1>6, <1>7 DEF Callback

LEMMA ChildrenSupervised ==
  ASSUME Supervised, NEW p \in Providers, Children(p)
  PROVE  Supervised'
  <1> DEFINE r == prov[p]
  <1>1. Tracked(p, r) /\ r \in Runtime
    BY DEF Supervised
  <1>2. p \in members
    <2>1. SUFFICES ASSUME r = Stopped PROVE FALSE
      BY DEF Supervised
    <2> QED
      BY <2>1 DEF Stopped, Children, ProcessEnds, ProbeEnds, StartupExpires
  <1>3. ASSUME NEW how \in {"ok", "bad"}, ProcessEnds(p, how) PROVE Supervised'
    <2> DEFINE s == [r EXCEPT !.process = how]
    <2>1. s \in Runtime /\ Tracked(p, s) /\ Set(p, s) /\ lost' = lost
      BY <1>1, <1>3 DEF Tracked, Runtime, ProcessEnds
    <2> QED
      BY <1>2, <2>1, SetSupervised
  <1>4. ASSUME NEW how \in {"ok", "bad"}, ProbeEnds(p, how) PROVE Supervised'
    <2> DEFINE s == [r EXCEPT !.probe = how]
    <2>1. s \in Runtime /\ Tracked(p, s) /\ Set(p, s) /\ lost' = lost
      BY <1>1, <1>4 DEF Tracked, Runtime, ProbeEnds
    <2> QED
      BY <1>2, <2>1, SetSupervised
  <1>5. CASE StartupExpires(p)
    <2> DEFINE s == [r EXCEPT !.expired = TRUE]
    <2>1. s \in Runtime /\ Tracked(p, s) /\ Set(p, s) /\ lost' = lost
      BY <1>1, <1>5 DEF Tracked, Runtime, StartupExpires
    <2> QED
      BY <1>2, <2>1, SetSupervised
  <1> QED
    BY <1>3, <1>4, <1>5 DEF Children

-----------------------------------------------------------------------------
\* The manager.

LEMMA NamedAreProviders ==
  ASSUME NEW c
  PROVE  NamedBy(c) \subseteq Providers
  BY ConfigAssumption DEF NamedBy

\* Whatever the manager was made for before, no child is lost: a provider that
\* is not among its members has none.
LEMMA StartedSupervised ==
  ASSUME Supervised, NEW S \in SUBSET Providers, Started(S)
  PROVE  Supervised'
  <1>1. \A p \in Providers : (IF p \in members THEN StopProvider(prov[p]) ELSE prov[p]) = Stopped
    BY DEF Supervised, StopProvider
  <1>2. PICK failing \in SUBSET (S \cap Autostart) :
          prov' = [p \in Providers |->
                     CASE p \notin S \cap Autostart -> Stopped
                       [] p \in failing -> NotSpawned(p, Stopped)
                       [] OTHER -> Spawned(p, Stopped)]
    <2>1. PICK failing \in SUBSET (S \cap Autostart) :
            prov' = [p \in Providers |->
                     LET r == IF p \in members THEN StopProvider(prov[p]) ELSE prov[p] IN
                     CASE p \notin S \cap Autostart -> r
                       [] p \in failing -> NotSpawned(p, r)
                       [] OTHER -> Spawned(p, r)]
      BY DEF Started
    <2> QED
      BY <1>1, <2>1
  <1>3. \A p \in Providers :
          /\ Stopped \in Runtime /\ Tracked(p, Stopped)
          /\ Spawned(p, Stopped) \in Runtime /\ Tracked(p, Spawned(p, Stopped))
          /\ NotSpawned(p, Stopped) \in Runtime /\ Tracked(p, NotSpawned(p, Stopped))
    <2> SUFFICES ASSUME NEW p \in Providers
                 PROVE  /\ Stopped \in Runtime /\ Tracked(p, Stopped)
                        /\ Spawned(p, Stopped) \in Runtime /\ Tracked(p, Spawned(p, Stopped))
                        /\ NotSpawned(p, Stopped) \in Runtime /\ Tracked(p, NotSpawned(p, Stopped))
      OBVIOUS
    <2>1. /\ Stopped.process = "none" /\ ~Stopped.restart /\ ~Stopped.due /\ ~Stopped.alarm
          /\ Stopped.probe = "none" /\ Stopped.state # "ready"
      BY DEF Stopped
    <2> QED
      BY <2>1, StoppedTracked, SpawnTracked
  <1>4. \A p \in Providers : /\ prov'[p] \in Runtime /\ Tracked(p, prov'[p])
                             /\ p \notin S => prov'[p] = Stopped
    BY <1>2, <1>3
  <1>5. prov' \in [Providers -> Runtime]
    BY <1>2, <1>4
  <1>6. {p \in S \cap Autostart : prov[p].process # "none" /\ p \notin members} = {}
    BY DEF Supervised, Stopped
  <1>7. members' = S /\ lost' = {}
    BY <1>6 DEF Started, Supervised
  <1> QED
    BY <1>4, <1>5, <1>7 DEF Supervised

LEMMA MadeSupervised ==
  ASSUME Supervised, Made(members)
  PROVE  Supervised'
  <1>1. members' = members /\ lost' = {} /\ prov' = [p \in Providers |-> Stopped]
    BY DEF Made, Supervised, StopProvider
  <1> QED
    BY <1>1, StoppedTracked DEF Supervised

LEMMA StepSupervised ==
  ASSUME Supervised, [Next]_vars
  PROVE  Supervised'
  <1>1. ASSUME UNCHANGED provVars PROVE Supervised'
    BY <1>1 DEF Supervised, provVars
  <1>2. CASE BootLoad
    <2>1. UNCHANGED provVars \/ Started(NamedBy(config'))
      BY <1>2 DEF BootLoad
    <2> QED
      BY <1>1, <2>1, NamedAreProviders, StartedSupervised
  <1>3. CASE BootPersist \/ ReloadApply
    BY <1>3, NamedAreProviders, StartedSupervised DEF BootPersist, ReloadApply
  <1>4. CASE ReloadRestore
    <2>1. members \subseteq Providers
      BY DEF Supervised
    <2> QED
      BY <1>4, <2>1, StartedSupervised, MadeSupervised DEF ReloadRestore
  <1>5. CASE Ends
    BY <1>5, StoppedTracked DEF Ends, Supervised
  <1>6. ASSUME NEW p \in Providers, ProviderCallback(p) \/ ProviderChildren(p) PROVE Supervised'
    BY <1>6, CallbackSupervised, ChildrenSupervised DEF ProviderCallback, ProviderChildren
  <1>7. CASE Writes \/ BootPersistFails \/ WatchStarts \/ HandleInotify \/ ReloadLoad
             \/ PersistFails \/ UNCHANGED vars
    BY <1>1, <1>7 DEF Writes, Replace, CloseWrite, Truncate, FileBecomes, BootPersistFails,
      WatchStarts, HandleInotify, ReloadLoad, PersistFails, vars
  <1> QED
    BY <1>2, <1>3, <1>4, <1>5, <1>6, <1>7 DEF Next

-----------------------------------------------------------------------------
\* The configuration.

LEMMA StepTyped ==
  ASSUME ConfigTypeOK, [Next]_vars
  PROVE  ConfigTypeOK'
  <1> USE DEF ConfigTypeOK
  <1>1. CASE Writes
    BY <1>1 DEF Writes, Replace, CloseWrite, Truncate, FileBecomes, Contents
  <1>2. CASE BootLoad
    <2>1. CASE file \in Configs
      BY <1>2, <2>1 DEF BootLoad, Used, fileVars
    <2>2. CASE file \notin Configs
      BY <1>2, <2>2 DEF BootLoad, Used, fileVars
    <2> QED
      BY <2>1, <2>2
  <1>3. CASE BootPersist
    BY <1>3 DEF BootPersist
  <1>4. CASE Ends
    BY <1>4 DEF Ends, Used, fileVars
  <1>5. CASE HandleInotify \/ ReloadLoad
    BY <1>5 DEF HandleInotify, ReloadLoad, Used, fileVars
  <1>6. CASE ReloadApply \/ ReloadRestore
    BY <1>6 DEF ReloadApply, ReloadRestore, Persisted
  <1>7. CASE BootPersistFails \/ WatchStarts \/ PersistFails
    BY <1>7 DEF BootPersistFails, WatchStarts, PersistFails, fileVars, confVars
  <1>8. ASSUME NEW p \in Providers, ProviderCallback(p) \/ ProviderChildren(p) PROVE ConfigTypeOK'
    BY <1>8 DEF ProviderCallback, ProviderChildren, fileVars, confVars
  <1>9. CASE UNCHANGED vars
    BY <1>9 DEF vars
  <1> QED
    BY <1>1, <1>2, <1>3, <1>4, <1>5, <1>6, <1>7, <1>8, <1>9 DEF Next

LEMMA StepLoads ==
  ASSUME CandidateLoads, [Next]_vars
  PROVE  CandidateLoads'
  BY DEF CandidateLoads, Next, Writes, Replace, CloseWrite, Truncate, FileBecomes, BootLoad,
    BootPersist, BootPersistFails, WatchStarts, Ends, HandleInotify, ReloadLoad, PersistFails,
    ReloadApply, ReloadRestore, Persisted, ProviderCallback, ProviderChildren, confVars, vars

LEMMA Invariance == Spec => []IInv
  <1>1. Init => IInv
    BY StoppedTracked DEF Init, ProviderInit, IInv, Supervised, ConfigTypeOK, CandidateLoads,
      Contents, Used
  <1>2. IInv /\ [Next]_vars => IInv'
    BY StepSupervised, StepTyped, StepLoads DEF IInv
  <1> QED
    BY <1>1, <1>2, PTL DEF Spec

(* Through any sequence of starts, reloads that succeed or fail and deaths of *)
(* children, nothing is left over of a provider that is stopped, no child is  *)
(* lost, and none is forgotten that should be probed or restarted.            *)
THEOREM ProvidersStayTracked == Spec => []ProvidersTracked
  <1>1. IInv => ProvidersTracked
    BY SupervisedIsTracked DEF IInv
  <1> QED
    BY <1>1, Invariance, PTL

LEMMA LostOnlyToRace ==
  ASSUME CandidateLoads, [Next]_vars, lkg \in Configs, lkg' \notin Configs
  PROVE  candidate \in Configs /\ file # candidate
  <1>1. lkg' # lkg
    OBVIOUS
  <1>2. BootPersist \/ Persisted
    BY <1>1 DEF Next, Writes, Replace, CloseWrite, Truncate, FileBecomes, BootLoad,
      BootPersistFails, WatchStarts, Ends, HandleInotify, ReloadLoad, PersistFails, ReloadApply,
      ReloadRestore, ProviderCallback, ProviderChildren, fileVars, vars
  <1>3. lkg' = file /\ phase \in {"booting", "loaded"}
    BY <1>2 DEF BootPersist, Persisted
  <1> QED
    BY <1>3 DEF CandidateLoads

(* A copy that loads is lost only when the file was written between the two   *)
(* times the daemon read it.                                                  *)
THEOREM LkgSurvives == Spec => LkgLostOnlyToRace
  <1>1. IInv /\ [Next]_vars =>
          [(lkg \in Configs /\ lkg' \notin Configs)
             => candidate \in Configs /\ file # candidate]_vars
    BY LostOnlyToRace DEF IInv
  <1> QED
    BY <1>1, Invariance, PTL DEF Spec, LkgLostOnlyToRace
-----------------------------------------------------------------------------
(* Queues.                                                                 *)

Free(q, k) == \A i \in 1..Len(q) : q[i].kind # k

\* The last message of its kind is m.
Latest(q, m) ==
    \E i \in 1..Len(q) : q[i] = m /\ \A j \in 1..Len(q) : j > i => q[j].kind # m.kind

AtMostOne(q, k) ==
    \A i, j \in 1..Len(q) : q[i].kind = k /\ q[j].kind = k => i = j

LEMMA TailIs ==
  ASSUME NEW S, NEW q \in Seq(S), q # << >>
  PROVE  /\ Len(q) \in Nat \ {0} /\ Head(q) = q[1] /\ Head(q) \in S
         /\ Tail(q) \in Seq(S) /\ Len(Tail(q)) = Len(q) - 1
         /\ \A i \in 1..Len(Tail(q)) : Tail(q)[i] = q[i + 1]
  <1>1. Len(q) \in Nat \ {0} /\ Head(q) = q[1] /\ q[1] \in S
    BY EmptySeq, LenProperties
  <1>2. Tail(q) \in Seq(S) /\ Len(Tail(q)) = Len(q) - 1
    BY HeadTailProperties
  <1> QED
    BY <1>1, <1>2, HeadTailProperties

LEMMA AppendIs ==
  ASSUME NEW S, NEW q \in Seq(S), NEW m \in S
  PROVE  /\ Len(q) \in Nat /\ Append(q, m) \in Seq(S) /\ Len(Append(q, m)) = Len(q) + 1
         /\ \A i \in 1..Len(q) : Append(q, m)[i] = q[i]
         /\ Append(q, m)[Len(q) + 1] = m
  BY AppendProperties, LenProperties

LEMMA EmptyIs ==
  /\ \A m : ~Latest(<< >>, m)
  /\ \A k : Free(<< >>, k) /\ AtMostOne(<< >>, k)
  <1>1. Len(<< >>) = 0
    OBVIOUS
  <1> QED
    BY <1>1 DEF Latest, Free, AtMostOne

LEMMA AppendHolds ==
  ASSUME NEW S, NEW q \in Seq(S), NEW m \in S
  PROVE  /\ \A k : Free(q, k) /\ m.kind # k => Free(Append(q, m), k)
         /\ \A k : Free(Append(q, m), k) => Free(q, k)
         /\ Latest(Append(q, m), m)
         /\ \A x : Latest(q, x) /\ m.kind # x.kind => Latest(Append(q, m), x)
         /\ \A k : AtMostOne(q, k) /\ (m.kind # k \/ Free(q, k)) => AtMostOne(Append(q, m), k)
  <1> DEFINE r == Append(q, m)
             n == Len(q)
  <1>1. /\ n \in Nat /\ Len(r) = n + 1
        /\ \A i \in 1..n : r[i] = q[i]
        /\ r[n + 1] = m
    BY AppendIs
  <1> HIDE DEF r
  <1>2. \A i \in 1..Len(r) : i = n + 1 \/ i \in 1..n
    BY <1>1
  <1>3. n + 1 \in 1..Len(r) /\ \A i \in 1..n : i \in 1..Len(r) /\ i < n + 1
    BY <1>1
  <1>4. \A i \in 1..Len(r) : ~(i > n + 1)
    BY <1>1
  <1> HIDE DEF n
  <1>6. \A k : Free(q, k) /\ m.kind # k => Free(r, k)
    BY <1>1, <1>2 DEF Free, n
  <1>7. \A k : Free(r, k) => Free(q, k)
    BY <1>1, <1>3 DEF Free, n
  <1>8. Latest(r, m)
    BY <1>1, <1>3, <1>4 DEF Latest, n
  <1>9. ASSUME NEW x, Latest(q, x), m.kind # x.kind
        PROVE  Latest(r, x)
    <2>1. PICK i \in 1..n : q[i] = x /\ \A j \in 1..n : j > i => q[j].kind # x.kind
      BY <1>9 DEF Latest, n
    <2>2. i \in 1..Len(r) /\ r[i] = x
      BY <1>1, <1>3, <2>1
    <2>3. \A j \in 1..Len(r) : j > i => r[j].kind # x.kind
      BY <1>1, <1>2, <1>9, <2>1
    <2> QED
      BY <2>2, <2>3 DEF Latest
  <1>10. ASSUME NEW k, AtMostOne(q, k), m.kind # k \/ Free(q, k)
         PROVE  AtMostOne(r, k)
    <2> SUFFICES ASSUME NEW i \in 1..Len(r), NEW j \in 1..Len(r), r[i].kind = k, r[j].kind = k
                 PROVE  i = j
      BY DEF AtMostOne
    <2>1. CASE i \in 1..n /\ j \in 1..n
      BY <1>1, <1>10, <2>1 DEF AtMostOne, n
    <2>2. CASE i = n + 1 /\ j \in 1..n
      BY <1>1, <1>10, <2>2 DEF Free, n
    <2>3. CASE j = n + 1 /\ i \in 1..n
      BY <1>1, <1>10, <2>3 DEF Free, n
    <2> QED
      BY <1>2, <2>1, <2>2, <2>3
  <1> QED
    BY <1>6, <1>7, <1>8, <1>9, <1>10 DEF r

LEMMA TailHolds ==
  ASSUME NEW S, NEW q \in Seq(S), q # << >>
  PROVE  /\ \A k : Free(q, k) => Free(Tail(q), k) /\ Head(q).kind # k
         /\ \A k : Free(Tail(q), k) /\ Head(q).kind # k => Free(q, k)
         /\ \A x : Latest(q, x) =>
              Latest(Tail(q), x) \/ (Head(q) = x /\ Free(Tail(q), x.kind))
         /\ \A k : AtMostOne(q, k) =>
              AtMostOne(Tail(q), k) /\ (Head(q).kind = k => Free(Tail(q), k))
  <1> DEFINE r == Tail(q)
             n == Len(r)
  <1>1. /\ n \in Nat /\ Len(q) = n + 1 /\ Head(q) = q[1]
        /\ \A i \in 1..n : r[i] = q[i + 1]
    BY TailIs
  <1> HIDE DEF r
  <1>2. 1 \in 1..Len(q) /\ \A i \in 1..n : i + 1 \in 1..Len(q) /\ i + 1 > 1
    BY <1>1
  <1>3. \A i \in 1..Len(q) : i = 1 \/ \E j \in 1..n : i = j + 1
    <2> TAKE i \in 1..Len(q)
    <2>1. CASE i # 1
      <3>1. i - 1 \in 1..n /\ i = (i - 1) + 1
        BY <1>1, <2>1
      <3> QED
        BY <3>1
    <2> QED
      BY <2>1
  <1>4. \A i, j \in 1..n : (i + 1 = j + 1 => i = j) /\ (j + 1 > i + 1 <=> j > i)
    BY <1>1
  <1> HIDE DEF n
  <1>7. \A k : Free(q, k) => Free(r, k) /\ Head(q).kind # k
    BY <1>1, <1>2 DEF Free, n
  <1>8. \A k : Free(r, k) /\ Head(q).kind # k => Free(q, k)
    BY <1>1, <1>3 DEF Free, n
  <1>9. ASSUME NEW x, Latest(q, x)
        PROVE  Latest(r, x) \/ (Head(q) = x /\ Free(r, x.kind))
    <2>1. PICK i \in 1..Len(q) : q[i] = x /\ \A j \in 1..Len(q) : j > i => q[j].kind # x.kind
      BY <1>9 DEF Latest
    <2>2. CASE i = 1
      BY <1>1, <1>2, <2>1, <2>2 DEF Free, n
    <2>3. ASSUME NEW j \in 1..n, i = j + 1
          PROVE  Latest(r, x)
      <3>1. r[j] = x
        BY <1>1, <2>1, <2>3
      <3>2. \A l \in 1..n : l > j => r[l].kind # x.kind
        BY <1>1, <1>2, <1>4, <2>1, <2>3
      <3> QED
        BY <3>1, <3>2 DEF Latest, n
    <2> QED
      BY <1>3, <2>2, <2>3
  <1>10. ASSUME NEW k, AtMostOne(q, k)
         PROVE  AtMostOne(r, k) /\ (Head(q).kind = k => Free(r, k))
    <2>1. \A i, j \in 1..n : r[i].kind = k /\ r[j].kind = k => i = j
      BY <1>1, <1>2, <1>4, <1>10 DEF AtMostOne
    <2>2. \A i \in 1..n : i + 1 # 1
      BY <1>1
    <2>3. q[1].kind = k => \A i \in 1..n : r[i].kind # k
      BY <1>1, <1>2, <2>2, <1>10 DEF AtMostOne
    <2> QED
      BY <1>1, <2>1, <2>3 DEF AtMostOne, Free, n
  <1> QED
    BY <1>7, <1>8, <1>9, <1>10 DEF r
-----------------------------------------------------------------------------
(* The life of a group's surface, as the requests on their way tell it.    *)

Busy(q, g) == \E i \in 1..Len(q) : About(q[i], g)

\* A surface s and a panel p of each other.
Same(s, p) == (s = None <=> p = None) /\ (s # None => s.since = p.since)

\* What a request m finds, what it leaves, and what may come after it.
Meets(s, m) == IF m.kind = "create" THEN s = None ELSE s # None /\ s.since = m.since
Leaves(m, p) == IF m.kind = "create" THEN p # None /\ p.since = m.since ELSE p = None
Linked(m, n) ==
    IF m.kind = "create" THEN n.kind # "create" /\ n.since = m.since ELSE n.kind = "create"

Foremost(q, g, i) == About(q[i], g) /\ \A j \in 1..Len(q) : j < i => ~About(q[j], g)
Hindmost(q, g, i) == About(q[i], g) /\ \A j \in 1..Len(q) : j > i => ~About(q[j], g)
Following(q, g, i, j) ==
    /\ i < j /\ About(q[i], g) /\ About(q[j], g)
    /\ \A k \in 1..Len(q) : i < k /\ k < j => ~About(q[k], g)

\* From the surface s the requests lead to the panel p, one making what the
\* next destroys.
Chained(s, q, p, g) ==
    /\ Busy(q, g) \/ Same(s, p)
    /\ \A i \in 1..Len(q) : Foremost(q, g, i) => Meets(s, q[i])
    /\ \A i \in 1..Len(q) : Hindmost(q, g, i) => Leaves(q[i], p)
    /\ \A i, j \in 1..Len(q) : Following(q, g, i, j) => Linked(q[i], q[j])

LEMMA ChainedEmpty ==
  ASSUME NEW s, NEW p, NEW g, Same(s, p)
  PROVE  Chained(s, << >>, p, g)
  <1>1. Len(<< >>) = 0
    OBVIOUS
  <1> QED
    BY <1>1 DEF Chained

LEMMA ChainedSame ==
  ASSUME NEW s, NEW t, NEW p, NEW r, NEW q, NEW g, Same(s, t), Same(p, r), Chained(s, q, p, g)
  PROVE  Chained(t, q, r, g)
  BY DEF Chained, Same, Meets, Leaves

\* One more request.
LEMMA AppendPlaces ==
  ASSUME NEW S, NEW q \in Seq(S), NEW m \in S, NEW g
  PROVE  LET r == Append(q, m)
             n == Len(q) IN
         /\ n + 1 \in 1..Len(r) /\ r[n + 1] = m
         /\ \A i \in 1..Len(r) : i = n + 1 \/ (i \in 1..n /\ i < n + 1 /\ r[i] = q[i])
         /\ \A i \in 1..n : i \in 1..Len(r) /\ i < n + 1 /\ r[i] = q[i]
         /\ \A i \in 1..Len(r) : ~(i > n + 1) /\ ~(i < i)
         /\ Busy(r, g) <=> Busy(q, g) \/ About(m, g)
  <1> DEFINE r == Append(q, m)
             n == Len(q)
  <1>1. /\ n \in Nat /\ Len(r) = n + 1
        /\ \A i \in 1..n : r[i] = q[i]
        /\ r[n + 1] = m
    BY AppendIs
  <1> HIDE DEF r
  <1>2. n + 1 \in 1..Len(r) /\ \A i \in 1..Len(r) : i = n + 1 \/ (i \in 1..n /\ i < n + 1)
    BY <1>1
  <1>3. \A i \in 1..n : i \in 1..Len(r) /\ i < n + 1
    BY <1>1
  <1>4. \A i \in 1..Len(r) : ~(i > n + 1) /\ ~(i < i)
    BY <1>1
  <1> HIDE DEF n
  <1>5. Busy(r, g) <=> Busy(q, g) \/ About(m, g)
    BY <1>1, <1>2, <1>3 DEF Busy, n
  <1> QED
    BY <1>1, <1>2, <1>3, <1>4, <1>5 DEF r, n

LEMMA ChainedOther ==
  ASSUME NEW S, NEW q \in Seq(S), NEW m \in S, NEW s, NEW p, NEW g,
         Chained(s, q, p, g), ~About(m, g)
  PROVE  Chained(s, Append(q, m), p, g)
  <1> DEFINE r == Append(q, m)
             n == Len(q)
  <1>1. /\ n + 1 \in 1..Len(r) /\ r[n + 1] = m
        /\ \A i \in 1..Len(r) : i = n + 1 \/ (i \in 1..n /\ i < n + 1 /\ r[i] = q[i])
        /\ \A i \in 1..n : i \in 1..Len(r) /\ i < n + 1 /\ r[i] = q[i]
        /\ Busy(r, g) <=> Busy(q, g) \/ About(m, g)
    BY AppendPlaces
  <1> HIDE DEF r
  <1>2. \A i \in 1..Len(r) : About(r[i], g) => i \in 1..n /\ r[i] = q[i]
    BY <1>1
  <1>3. \A i \in 1..Len(r) : Foremost(r, g, i) => i \in 1..n /\ Foremost(q, g, i)
    BY <1>1, <1>2 DEF Foremost, n
  <1>4. \A i \in 1..Len(r) : Hindmost(r, g, i) => i \in 1..n /\ Hindmost(q, g, i)
    BY <1>1, <1>2 DEF Hindmost, n
  <1>5. \A i, j \in 1..Len(r) : Following(r, g, i, j) =>
           i \in 1..n /\ j \in 1..n /\ Following(q, g, i, j)
    BY <1>1, <1>2 DEF Following, n
  <1> QED
    BY <1>1, <1>2, <1>3, <1>4, <1>5 DEF Chained, r, n, Foremost, Hindmost, Following

LEMMA ChainedAppend ==
  ASSUME NEW S, NEW q \in Seq(S), NEW m \in S, NEW s, NEW p, NEW t, NEW g,
         Chained(s, q, p, g), About(m, g), Meets(p, m), Leaves(m, t)
  PROVE  Chained(s, Append(q, m), t, g)
  <1> DEFINE r == Append(q, m)
             n == Len(q)
  <1>1. /\ n + 1 \in 1..Len(r) /\ r[n + 1] = m
        /\ \A i \in 1..Len(r) : i = n + 1 \/ (i \in 1..n /\ i < n + 1 /\ r[i] = q[i])
        /\ \A i \in 1..n : i \in 1..Len(r) /\ i < n + 1 /\ r[i] = q[i]
        /\ \A i \in 1..Len(r) : ~(i > n + 1) /\ ~(i < i)
        /\ Busy(r, g) <=> Busy(q, g) \/ About(m, g)
    BY AppendPlaces
  <1> HIDE DEF r
  <1>2. \A i \in 1..Len(r) : Hindmost(r, g, i) => i = n + 1
    BY <1>1 DEF Hindmost
  <1>3. ASSUME NEW i \in 1..Len(r), Foremost(r, g, i)
        PROVE  Meets(s, r[i])
    <2>1. CASE i \in 1..n
      <3>1. Foremost(q, g, i)
        BY <1>1, <1>3, <2>1 DEF Foremost, n
      <3> QED
        BY <1>1, <2>1, <3>1 DEF Chained, n
    <2>2. CASE i = n + 1
      <3>1. ~Busy(q, g)
        BY <1>1, <1>3, <2>2 DEF Foremost, Busy, n
      <3>2. Same(s, p)
        BY <3>1 DEF Chained
      <3> QED
        BY <1>1, <2>2, <3>2 DEF Same, Meets
    <2> QED
      BY <1>1, <2>1, <2>2
  <1>4. ASSUME NEW i \in 1..Len(r), NEW j \in 1..Len(r), Following(r, g, i, j)
        PROVE  Linked(r[i], r[j])
    <2>1. i \in 1..n
      BY <1>1, <1>4 DEF Following
    <2>2. CASE j \in 1..n
      <3>1. Following(q, g, i, j)
        BY <1>1, <1>4, <2>1, <2>2 DEF Following, n
      <3> QED
        BY <1>1, <2>1, <2>2, <3>1 DEF Chained, n
    <2>3. CASE j = n + 1
      <3>1. Hindmost(q, g, i)
        BY <1>1, <1>4, <2>1, <2>3 DEF Following, Hindmost, n
      <3>2. Leaves(q[i], p)
        BY <2>1, <3>1 DEF Chained, n
      <3> QED
        BY <1>1, <2>1, <2>3, <3>2 DEF Leaves, Meets, Linked
    <2> QED
      BY <1>1, <2>2, <2>3
  <1> QED
    BY <1>1, <1>2, <1>3, <1>4 DEF Chained, r

\* One request read.
LEMMA TailPlaces ==
  ASSUME NEW S, NEW q \in Seq(S), q # << >>, NEW g
  PROVE  LET r == Tail(q)
             n == Len(r) IN
         /\ 1 \in 1..Len(q) /\ Head(q) = q[1]
         /\ \A i \in 1..n : i + 1 \in 1..Len(q) /\ i + 1 > 1 /\ r[i] = q[i + 1]
         /\ \A i \in 1..Len(q) : i = 1 \/ \E j \in 1..n : i = j + 1
         /\ \A i, j \in 1..n : (j + 1 > i + 1 <=> j > i) /\ (j + 1 < i + 1 <=> j < i)
         /\ Busy(q, g) <=> Busy(r, g) \/ About(Head(q), g)
  <1> DEFINE r == Tail(q)
             n == Len(r)
  <1>1. /\ n \in Nat /\ Len(q) = n + 1 /\ Head(q) = q[1]
        /\ \A i \in 1..n : r[i] = q[i + 1]
    BY TailIs
  <1> HIDE DEF r
  <1>2. 1 \in 1..Len(q) /\ \A i \in 1..n : i + 1 \in 1..Len(q) /\ i + 1 > 1
    BY <1>1
  <1>3. \A i \in 1..Len(q) : i = 1 \/ \E j \in 1..n : i = j + 1
    <2> TAKE i \in 1..Len(q)
    <2>1. CASE i # 1
      <3>1. i - 1 \in 1..n /\ i = (i - 1) + 1
        BY <1>1, <2>1
      <3> QED
        BY <3>1
    <2> QED
      BY <2>1
  <1>4. \A i, j \in 1..n : (j + 1 > i + 1 <=> j > i) /\ (j + 1 < i + 1 <=> j < i)
    BY <1>1
  <1> HIDE DEF n
  <1>5. Busy(q, g) <=> Busy(r, g) \/ About(Head(q), g)
    BY <1>1, <1>2, <1>3 DEF Busy, n
  <1> QED
    BY <1>1, <1>2, <1>3, <1>4, <1>5 DEF r, n

LEMMA ChainedTail ==
  ASSUME NEW S, NEW q \in Seq(S), q # << >>, NEW s, NEW t, NEW p, NEW g, Chained(s, q, p, g),
         IF About(Head(q), g) THEN Leaves(Head(q), t) ELSE t = s
  PROVE  /\ Chained(t, Tail(q), p, g)
         /\ About(Head(q), g) => Meets(s, Head(q))
  <1> DEFINE r == Tail(q)
             n == Len(r)
  <1>1. /\ 1 \in 1..Len(q) /\ Head(q) = q[1]
        /\ \A i \in 1..n : i + 1 \in 1..Len(q) /\ i + 1 > 1 /\ r[i] = q[i + 1]
        /\ \A i \in 1..Len(q) : i = 1 \/ \E j \in 1..n : i = j + 1
        /\ \A i, j \in 1..n : (j + 1 > i + 1 <=> j > i) /\ (j + 1 < i + 1 <=> j < i)
        /\ Busy(q, g) <=> Busy(r, g) \/ About(Head(q), g)
    BY TailPlaces
  <1>2. \A i \in 1..Len(q) : ~(i < 1) /\ (i > 1 <=> 1 < i)
    <2>1. Len(q) \in Nat
      BY TailIs
    <2> QED
      BY <2>1
  <1>a. \A i, j \in 1..n : j > i <=> i < j
    <2>1. n \in Nat
      BY TailIs
    <2> QED
      BY <2>1
  <1> HIDE DEF r, n
  <1>3. About(Head(q), g) => Meets(s, Head(q))
    BY <1>1, <1>2 DEF Chained, Foremost
  <1>4. \A i \in 1..n : Hindmost(r, g, i) => Hindmost(q, g, i + 1)
    <2> SUFFICES ASSUME NEW i \in 1..n, Hindmost(r, g, i), NEW j \in 1..Len(q), j > i + 1
                 PROVE  ~About(q[j], g)
      BY <1>1 DEF Hindmost
    <2>1. j # 1
      BY <1>1, <1>2
    <2>2. PICK k \in 1..n : j = k + 1
      BY <1>1, <2>1
    <2>3. k > i
      BY <1>1, <2>2
    <2> QED
      BY <1>1, <2>2, <2>3 DEF Hindmost, n
  <1>5. \A i, j \in 1..n : Following(r, g, i, j) => Following(q, g, i + 1, j + 1)
    <2> SUFFICES ASSUME NEW i \in 1..n, NEW j \in 1..n, Following(r, g, i, j),
                        NEW k \in 1..Len(q), i + 1 < k, k < j + 1
                 PROVE  ~About(q[k], g)
      BY <1>1 DEF Following
    <2>1. k # 1
      BY <1>1, <1>2
    <2>2. PICK l \in 1..n : k = l + 1
      BY <1>1, <2>1
    <2>3. i < l /\ l < j
      BY <1>1, <2>2
    <2> QED
      BY <1>1, <2>2, <2>3 DEF Following, n
  <1>6. CASE About(Head(q), g)
    <2>1. ASSUME NEW i \in 1..n, Foremost(r, g, i)
          PROVE  Meets(t, r[i])
      <3>1. Following(q, g, 1, i + 1)
        <4> SUFFICES ASSUME NEW k \in 1..Len(q), 1 < k, k < i + 1
                     PROVE  ~About(q[k], g)
          BY <1>1, <1>2, <1>6, <2>1 DEF Following, Foremost
        <4>1. PICK l \in 1..n : k = l + 1
          BY <1>1, <1>2
        <4>2. l < i
          BY <1>1, <4>1
        <4> QED
          BY <1>1, <2>1, <4>1, <4>2 DEF Foremost, n
      <3>2. Linked(Head(q), r[i])
        BY <1>1, <3>1 DEF Chained
      <3> QED
        BY <1>6, <3>2 DEF Linked, Leaves, Meets
    <2>2. ~Busy(r, g) => Same(t, p)
      <3> SUFFICES ASSUME ~Busy(r, g)
                   PROVE  Same(t, p)
        OBVIOUS
      <3>1. Hindmost(q, g, 1)
        <4> SUFFICES ASSUME NEW j \in 1..Len(q), j > 1
                     PROVE  ~About(q[j], g)
          BY <1>1, <1>6 DEF Hindmost
        <4>1. PICK l \in 1..n : j = l + 1
          BY <1>1, <1>2
        <4> QED
          BY <1>1, <4>1 DEF Busy, n
      <3>2. Leaves(Head(q), p)
        BY <1>1, <3>1 DEF Chained
      <3> QED
        BY <1>6, <3>2 DEF Leaves, Same
    <2>3. \A i \in 1..n : Hindmost(r, g, i) => Leaves(r[i], p)
      BY <1>1, <1>4 DEF Chained
    <2>4. \A i, j \in 1..n : Following(r, g, i, j) => Linked(r[i], r[j])
      BY <1>1, <1>5 DEF Chained
    <2> QED
      BY <1>3, <2>1, <2>2, <2>3, <2>4 DEF Chained, r, n
  <1>7. CASE ~About(Head(q), g)
    <2>1. ASSUME NEW i \in 1..n, Foremost(r, g, i)
          PROVE  Meets(t, r[i])
      <3>1. Foremost(q, g, i + 1)
        <4> SUFFICES ASSUME NEW k \in 1..Len(q), k < i + 1
                     PROVE  ~About(q[k], g)
          BY <1>1, <2>1 DEF Foremost
        <4>1. CASE k = 1
          BY <1>1, <1>7, <4>1
        <4>2. ASSUME NEW l \in 1..n, k = l + 1
              PROVE  ~About(q[k], g)
          <5>1. l < i
            BY <1>1, <4>2
          <5> QED
            BY <1>1, <2>1, <4>2, <5>1 DEF Foremost, n
        <4> QED
          BY <1>1, <4>1, <4>2
      <3> QED
        BY <1>1, <1>7, <3>1 DEF Chained
    <2>2. Busy(r, g) \/ Same(t, p)
      BY <1>1, <1>7 DEF Chained
    <2>3. \A i \in 1..n : Hindmost(r, g, i) => Leaves(r[i], p)
      BY <1>1, <1>4 DEF Chained
    <2>4. \A i, j \in 1..n : Following(r, g, i, j) => Linked(r[i], r[j])
      BY <1>1, <1>5 DEF Chained
    <2> QED
      BY <1>7, <2>1, <2>2, <2>3, <2>4 DEF Chained, r, n
  <1> QED
    BY <1>6, <1>7

-----------------------------------------------------------------------------
(* Types.                                                                  *)

Desks == [shown : Workspaces, group : [Groups -> Group \cup {None, Gone}]]

Views == [gen : Nat, bar : BOOLEAN, workspace : Workspaces,
          tabs : UNION {[S -> Nat] : S \in SUBSET Groups}]

Requests ==
    [kind : {"create", "destroy"}, group : Groups, since : Role]
        \cup [kind : {"place"}, group : Groups, height : Nat]
        \cup [kind : {"begin"}, group : Groups]
        \cup [kind : {"target"}, place : Spot]

Events ==
    [kind : {"configure"}, group : Groups, since : Role, height : Nat]
        \cup [kind : {"press"}, group : Groups]
        \cup [kind : {"release"}]
        \cup [kind : {"motion"}, place : Spot \cup {None}]

Remembered == SUBSET (Groups \cup {Bar, Background})

WatchRecord ==
    [at : {"off", "connect", "wait", "work"}, gen : Nat, view : Views,
     cache : Remembered \cup {None}]

CoreTyped ==
    /\ desk \in Desks /\ gen \in Nat \ {0}
    /\ surf \in [Groups -> Surface \cup {None}]
    /\ up \in Seq(Requests) /\ down \in Seq(Events)
    /\ snap \in [gen : Nat, desk : Desks]

EwwiiTyped ==
    /\ watch \in [Watchers -> WatchRecord]
    /\ live \in Watchers \cup {None} /\ meddled \in Nat
    /\ lines \in Seq(Views) /\ pend \in Views /\ drawn \in Nat
    /\ open \subseteq {Bar, Background}
    /\ panel \in [Groups -> Panel \cup {None}]

DragTyped ==
    /\ at \in Spot \cup {None} /\ hint \in Spot \cup {None}
    /\ chrome \in Groups \cup {None} /\ armed \in Groups \cup {None}
    /\ primary \in [on : Groups \cup {None}, drag : BOOLEAN, target : Spot \cup {None}]

PanelsTyped == CoreTyped /\ EwwiiTyped

LEMMA EmptyView == NoView \in Views
  <1>1. << >> \in [{} -> Nat]
    OBVIOUS
  <1>2. {} \in SUBSET Groups
    OBVIOUS
  <1> QED
    BY <1>1, <1>2 DEF NoView, Views, Workspaces

LEMMA RequestIs ==
  ASSUME NEW m \in Requests
  PROVE  /\ m.kind \in {"create", "place", "destroy", "begin", "target"}
         /\ m.kind # "target" => m.group \in Groups
         /\ m.kind = "target" => m.place \in Spot /\ m = [kind |-> "target", place |-> m.place]
         /\ m.kind \in {"create", "destroy"} => m.since \in Role
         /\ m.kind = "place" => m.height \in Nat
  <1>1. CASE m \in [kind : {"create", "destroy"}, group : Groups, since : Role]
    BY <1>1
  <1>2. CASE m \in [kind : {"place"}, group : Groups, height : Nat]
    BY <1>2
  <1>3. CASE m \in [kind : {"begin"}, group : Groups]
    BY <1>3
  <1>4. CASE m \in [kind : {"target"}, place : Spot]
    BY <1>4
  <1> QED
    BY <1>1, <1>2, <1>3, <1>4 DEF Requests

LEMMA EventIs ==
  ASSUME NEW m \in Events
  PROVE  /\ m.kind \in {"configure", "press", "release", "motion"}
         /\ m.kind \in {"configure", "press"} => m.group \in Groups
         /\ m.kind = "configure" => m.since \in Role /\ m.height \in Nat
         /\ m.kind = "motion" => m.place \in Spot \cup {None} /\ m = Reported(m.place)
  <1>1. CASE m \in [kind : {"configure"}, group : Groups, since : Role, height : Nat]
    BY <1>1
  <1>2. CASE m \in [kind : {"press"}, group : Groups]
    BY <1>2
  <1>3. CASE m \in [kind : {"release"}]
    BY <1>3
  <1>4. CASE m \in [kind : {"motion"}, place : Spot \cup {None}]
    BY <1>4 DEF Reported
  <1> QED
    BY <1>1, <1>2, <1>3, <1>4 DEF Events

LEMMA GroupIs ==
  ASSUME NEW d \in Desks, NEW g \in Groups, Exists(d, g)
  PROVE  /\ d.group[g] \in Group
         /\ d.group[g].height \in Nat /\ d.group[g].tabs \in Nat /\ d.group[g].full \in BOOLEAN
  <1>1. d.group[g] \in Group \cup {None, Gone}
    BY DEF Desks
  <1>2. d.group[g] \in Group
    BY <1>1 DEF Exists
  <1>3. Heights \subseteq Nat
    BY PanelAssumption
  <1>4. /\ d.group[g].height \in Heights /\ d.group[g].tabs \in 1..2
        /\ d.group[g].full \in BOOLEAN
    BY <1>2 DEF Group
  <1>5. d.group[g].height \in Nat
    BY <1>3, <1>4
  <1>6. d.group[g].tabs \in Nat
    BY <1>4
  <1> QED
    BY <1>2, <1>4, <1>5, <1>6

LEMMA ProjectTyped ==
  ASSUME NEW s \in [gen : Nat, desk : Desks]
  PROVE  Project(s) \in Views
  <1>1. \A g \in Visible(s.desk) : s.desk.group[g].tabs \in Nat
    BY GroupIs DEF Visible
  <1>2. Tabs(s.desk) \in [Visible(s.desk) -> Nat] /\ Visible(s.desk) \in SUBSET Groups
    BY <1>1 DEF Tabs, Visible
  <1>3. s.desk.shown \in Workspaces /\ s.gen \in Nat
    BY DEF Desks
  <1>4. Fullscreen(s.desk) \in BOOLEAN
    BY DEF Fullscreen
  <1> QED
    BY <1>2, <1>3, <1>4 DEF Project, Views

\* What the compositor does to its desktop.
LEMMA DesktopTyped ==
  ASSUME PanelsTyped, Desktop
  PROVE  /\ desk' \in Desks /\ Becomes(desk')
         /\ \A g \in Groups : /\ desk.group[g] # None => desk'.group[g] # None
                              /\ desk.group[g] = Gone => desk'.group[g] = Gone
  <1>1. desk \in Desks
    BY DEF PanelsTyped, CoreTyped
  <1>2. ASSUME NEW g \in Groups, NEW h \in Heights, OpenGroup(g, h)
        PROVE  /\ desk' \in Desks /\ Becomes(desk') /\ \A x \in Groups : x # g => desk'.group[x] = desk.group[x]
               /\ desk.group[g] = None
    <2>1. [workspace |-> desk.shown, height |-> h, tabs |-> 1, full |-> FALSE] \in Group
      BY <1>1 DEF Group, Desks
    <2> DEFINE n == [workspace |-> desk.shown, height |-> h, tabs |-> 1, full |-> FALSE]
    <2>2. Becomes([desk EXCEPT !.group[g] = n]) /\ desk' = [desk EXCEPT !.group[g] = n]
      BY <1>2 DEF OpenGroup, Becomes
    <2> HIDE DEF n
    <2> QED
      BY <1>1, <1>2, <2>1, <2>2 DEF OpenGroup, Desks, n
  <1>3. ASSUME NEW g \in Groups, Exists(desk, g), NEW r \in Group \cup {Gone},
               Becomes([desk EXCEPT !.group[g] = r])
        PROVE  /\ desk' \in Desks /\ Becomes(desk')
               /\ \A x \in Groups : x # g => desk'.group[x] = desk.group[x]
               /\ desk'.group[g] # None /\ desk.group[g] # Gone
    <2>1. desk' = [desk EXCEPT !.group[g] = r]
      BY <1>3 DEF Becomes
    <2>2. r # None
      BY PanelAssumption
    <2> QED
      BY <1>1, <1>3, <2>1, <2>2 DEF Desks, Exists
  <1> DEFINE Fine == /\ desk' \in Desks /\ Becomes(desk')
                     /\ \A g \in Groups : /\ desk.group[g] # None => desk'.group[g] # None
                                          /\ desk.group[g] = Gone => desk'.group[g] = Gone
  <1>4. ASSUME NEW g \in Groups, NEW h \in Heights, OpenGroup(g, h)
        PROVE  Fine
    BY <1>2, <1>4, PanelAssumption
  <1>5. ASSUME NEW g \in Groups, Exists(desk, g), NEW r \in Group \cup {Gone},
               Becomes([desk EXCEPT !.group[g] = r])
        PROVE  Fine
    BY <1>3, <1>5
  <1>6. ASSUME NEW g \in Groups, Exists(desk, g)
        PROVE  desk.group[g] \in Group
    BY <1>1, <1>6, GroupIs
  <1>7. ASSUME NEW g \in Groups, NEW h \in Heights, ResizeGroup(g, h)
        PROVE  Fine
    <2>1. [desk.group[g] EXCEPT !.height = h] \in Group
      BY <1>6, <1>7 DEF ResizeGroup, Group
    <2>2. Becomes([desk EXCEPT !.group[g] = [desk.group[g] EXCEPT !.height = h]])
      BY <1>1, <1>7 DEF ResizeGroup, Desks
    <2> QED
      BY <1>5, <1>7, <2>1, <2>2 DEF ResizeGroup
  <1>8. ASSUME NEW g \in Groups, CloseGroup(g)
        PROVE  Fine
    BY <1>5, <1>8 DEF CloseGroup
  <1>9. ASSUME NEW g \in Groups, NEW n \in 1..2, ChangeTabs(g, n)
        PROVE  Fine
    <2>1. [desk.group[g] EXCEPT !.tabs = n] \in Group
      BY <1>6, <1>9 DEF ChangeTabs, Group
    <2>2. Becomes([desk EXCEPT !.group[g] = [desk.group[g] EXCEPT !.tabs = n]])
      BY <1>1, <1>9 DEF ChangeTabs, Desks
    <2> QED
      BY <1>5, <1>9, <2>1, <2>2 DEF ChangeTabs
  <1>10. ASSUME NEW g \in Groups, NEW on \in BOOLEAN, SetFullscreen(g, on)
         PROVE  Fine
    <2>1. [desk.group[g] EXCEPT !.full = on] \in Group
      BY <1>6, <1>10 DEF SetFullscreen, Group
    <2>2. Becomes([desk EXCEPT !.group[g] = [desk.group[g] EXCEPT !.full = on]])
      BY <1>1, <1>10 DEF SetFullscreen, Desks
    <2> QED
      BY <1>5, <1>10, <2>1, <2>2 DEF SetFullscreen
  <1>11. ASSUME NEW w \in Workspaces, ShowWorkspace(w)
         PROVE  Fine
    <2>1. desk' = [desk EXCEPT !.shown = w]
      BY <1>11 DEF ShowWorkspace, Becomes
    <2>2. desk' \in Desks /\ desk'.group = desk.group
      BY <1>1, <2>1 DEF Desks
    <2>3. Becomes(desk')
      BY <1>11, <2>1 DEF ShowWorkspace
    <2> QED
      BY <2>2, <2>3
  <1> QED
    BY <1>4, <1>7, <1>8, <1>9, <1>10, <1>11 DEF Desktop
-----------------------------------------------------------------------------
(* Steps of the panels, whatever the drag does.                            *)

Lively == {"create", "place", "destroy"}

UpMoves ==
    \/ up' = up
    \/ up # << >> /\ up' = Tail(up) /\ Head(up).kind \in Lively
    \/ \E m \in Requests : m.kind \in Lively /\ up' = Append(up, m)
    \/ \E m, n \in Requests :
         m.kind \in Lively /\ n.kind \in Lively /\ up' = Append(Append(up, m), n)

DownMoves ==
    \/ down' = down
    \/ down # << >> /\ down' = Tail(down) /\ Head(down).kind = "configure"
    \/ \E m \in Events : m.kind = "configure" /\ down' = Append(down, m)

\* Groups come once and go once.
Aging ==
    /\ desk' \in Desks
    /\ \A g \in Groups : /\ desk.group[g] # None => desk'.group[g] # None
                         /\ desk.group[g] = Gone => desk'.group[g] = Gone

Ended == \E stays \in BOOLEAN : EwwiiGone(stays)

Shape == Aging /\ (Ended \/ (UpMoves /\ DownMoves))

LEMMA MoveTyped ==
  ASSUME PanelsTyped, UpMoves, DownMoves
  PROVE  up' \in Seq(Requests) /\ down' \in Seq(Events)
  <1>1. up \in Seq(Requests) /\ down \in Seq(Events)
    BY DEF PanelsTyped, CoreTyped
  <1>2. up # << >> => Tail(up) \in Seq(Requests)
    BY <1>1, TailIs
  <1>3. down # << >> => Tail(down) \in Seq(Events)
    BY <1>1, TailIs
  <1>4. \A m \in Requests : Append(up, m) \in Seq(Requests)
    BY <1>1, AppendIs
  <1>5. \A m, n \in Requests : Append(Append(up, m), n) \in Seq(Requests)
    BY <1>4, AppendIs
  <1>6. \A m \in Events : Append(down, m) \in Seq(Events)
    BY <1>1, AppendIs
  <1> QED
    BY <1>1, <1>2, <1>3, <1>4, <1>5, <1>6 DEF UpMoves, DownMoves

LEMMA HeadsTyped ==
  ASSUME PanelsTyped
  PROVE  /\ up # << >> => Head(up) \in Requests
         /\ down # << >> => Head(down) \in Events
  <1>1. up \in Seq(Requests) /\ down \in Seq(Events)
    BY DEF PanelsTyped, CoreTyped
  <1> QED
    BY <1>1, TailIs

LEMMA OffIs ==
  /\ Off \in WatchRecord /\ Off.at = "off"
  <1>1. Off \in WatchRecord
    BY EmptyView DEF Off, WatchRecord
  <1>2. Off.at = "off"
    BY DEF Off
  <1> QED
    BY <1>1, <1>2

LEMMA WatchIs ==
  ASSUME NEW r \in WatchRecord
  PROVE  /\ r.gen \in Nat /\ r.view \in Views /\ r.cache \in Remembered \cup {None}
         /\ \A a \in {"off", "connect", "wait", "work"} : [r EXCEPT !.at = a] \in WatchRecord
         /\ \A c \in Remembered : [r EXCEPT !.cache = c] \in WatchRecord
         /\ \A v \in Views : [r EXCEPT !.at = "wait", !.view = v] \in WatchRecord
         /\ \A v \in Views, n \in Nat :
              [r EXCEPT !.at = "work", !.gen = n, !.view = v] \in WatchRecord
  <1>1. r.gen \in Nat /\ r.view \in Views /\ r.cache \in Remembered \cup {None}
    BY DEF WatchRecord
  <1>2. \A a \in {"off", "connect", "wait", "work"} : [r EXCEPT !.at = a] \in WatchRecord
    BY DEF WatchRecord
  <1>3. \A c \in Remembered : [r EXCEPT !.cache = c] \in WatchRecord
    BY DEF WatchRecord
  <1>4. \A v \in Views : [r EXCEPT !.at = "wait", !.view = v] \in WatchRecord
    BY DEF WatchRecord
  <1>5. \A v \in Views, n \in Nat :
          [r EXCEPT !.at = "work", !.gen = n, !.view = v] \in WatchRecord
    BY DEF WatchRecord
  <1> QED
    BY <1>1, <1>2, <1>3, <1>4, <1>5

LEMMA WatchMoves ==
  ASSUME watch \in [Watchers -> WatchRecord], NEW w, NEW r \in WatchRecord,
         watch' = [watch EXCEPT ![w] = r]
  PROVE  watch' \in [Watchers -> WatchRecord]
  OBVIOUS

LEMMA EndedIs ==
  /\ EwwiiEnds => Ended 
  /\ EwwiiFails => Ended
  BY DEF EwwiiEnds, EwwiiFails, Ended

LEMMA GoneTyped ==
  ASSUME PanelsTyped, Ended, UNCHANGED <<desk, gen, snap>>
  PROVE  PanelsTyped' /\ Shape
  <1>0. PICK stays \in BOOLEAN : EwwiiGone(stays)
    BY DEF Ended
  <1>1. << >> \in Seq(Requests) /\ << >> \in Seq(Events) /\ << >> \in Seq(Views)
    BY EmptySeq
  <1>2. NoPanels \in [Groups -> Surface \cup {None}] /\ NoPanels \in [Groups -> Panel \cup {None}]
    BY DEF NoPanels
  <1>3. CoreTyped'
    BY <1>0, <1>1, <1>2 DEF PanelsTyped, CoreTyped, EwwiiGone
  <1>4. watch' \in [Watchers -> WatchRecord] /\ live' = None /\ meddled' = 0
    <2>1. watch \in [Watchers -> WatchRecord]
      BY DEF PanelsTyped, EwwiiTyped
    <2>2. watch' = watch \/ watch' = [watch EXCEPT ![live] = Off]
      BY <1>0 DEF EwwiiGone, LeaveWatcher
    <2> QED
      BY <1>0, <2>1, <2>2, OffIs DEF EwwiiGone, LeaveWatcher
  <1>5. EwwiiTyped'
    BY <1>0, <1>1, <1>2, <1>4, EmptyView DEF EwwiiTyped, EwwiiGone
  <1>6. Aging
    BY DEF Aging, PanelsTyped, CoreTyped
  <1> QED
    BY <1>3, <1>5, <1>6 DEF PanelsTyped, Shape

LEMMA AppliedTyped ==
  ASSUME NEW d \in Desks, NEW g \in Groups, Exists(d, g), NEW s \in Surface
  PROVE  /\ Applied(d, g, s) \in Surface /\ SentSize(d, g, s) \in Surface
         /\ Applied(d, g, s).since = s.since /\ SentSize(d, g, s).since = s.since
  <1>1. d.group[g].height \in Nat /\ (~d.group[g].full) \in BOOLEAN
    BY GroupIs
  <1>2. Applied(d, g, s) \in Surface /\ Applied(d, g, s).since = s.since
    BY <1>1 DEF Applied, Surface
  <1>3. [s EXCEPT !.sent = d.group[g].height] \in Surface
    BY <1>1 DEF Surface
  <1>4. SentSize(d, g, s).since = s.since
    BY DEF SentSize, Surface
  <1> QED
    BY <1>2, <1>3, <1>4 DEF SentSize

LEMMA BecomesTyped ==
  ASSUME PanelsTyped, Desktop
  PROVE  PanelsTyped' /\ Shape
  <1>1. desk' \in Desks /\ Becomes(desk') /\ Aging
    BY DesktopTyped DEF Aging
  <1>t. surf \in [Groups -> Surface \cup {None}] /\ gen \in Nat \ {0}
    BY DEF PanelsTyped, CoreTyped
  <1>2. \A g \in Groups : surf[g] # None => surf[g] \in Surface
    BY <1>t
  <1>3. \A g \in Groups : Exists(desk', g) => desk'.group[g].height \in Nat /\ desk'.group[g].full \in BOOLEAN
    BY <1>1, GroupIs
  <1>4. ASSUME NEW g \in Groups, surf[g] # None, ~Inert(desk', g)
        PROVE  Applied(desk', g, SentSize(desk', g, surf[g])) \in Surface
    BY <1>1, <1>2, <1>4, AppliedTyped DEF Inert
  <1>5. Refreshed(desk') \in [Groups -> Surface \cup {None}]
    BY <1>4 DEF Refreshed
  <1>6. \A g \in Resized(desk') : Configure(desk', g, surf[g]) \in Events
    <2> TAKE g \in Resized(desk')
    <2>1. /\ g \in Groups /\ surf[g] \in Surface /\ Exists(desk', g)
      BY <1>2 DEF Resized
    <2>2. surf[g].since \in Role /\ desk'.group[g].height \in Nat
      BY <1>3, <2>1 DEF Surface
    <2> QED
      BY <2>1, <2>2 DEF Configure, Events
  <1>7. UpMoves /\ DownMoves
    <2>1. up' = up /\ (down' = down \/ \E g \in Resized(desk') :
                         down' = Append(down, Configure(desk', g, surf[g])))
      BY <1>1 DEF Becomes
    <2>2. \A g \in Resized(desk') : Configure(desk', g, surf[g]).kind = "configure"
      BY DEF Configure
    <2> QED
      BY <1>6, <2>1, <2>2 DEF UpMoves, DownMoves
  <1>8. up' \in Seq(Requests) /\ down' \in Seq(Events)
    BY <1>7, MoveTyped
  <1>9. gen' \in Nat \ {0} /\ surf' = Refreshed(desk') /\ snap' = snap
    BY <1>1, <1>t DEF Becomes
  <1>10. CoreTyped'
    BY <1>1, <1>5, <1>8, <1>9 DEF PanelsTyped, CoreTyped
  <1>11. EwwiiTyped'
    <2>1. UNCHANGED <<watchVars, lines, pend, drawn, open, panel>>
      BY <1>1 DEF Becomes, ewwiiVars, pluginVars
    <2>2. EwwiiTyped
      BY DEF PanelsTyped
    <2> QED
      BY <2>1, <2>2 DEF EwwiiTyped, watchVars
  <1> QED
    BY <1>1, <1>7, <1>10, <1>11 DEF PanelsTyped, Shape

LEMMA CoreStepTyped ==
  ASSUME PanelsTyped, Core
  PROVE  PanelsTyped' /\ Shape
  <1>t. /\ desk \in Desks /\ gen \in Nat \ {0} /\ surf \in [Groups -> Surface \cup {None}]
        /\ snap \in [gen : Nat, desk : Desks]
    BY DEF PanelsTyped, CoreTyped
  <1>1. CASE Unanswerable
    BY <1>1, GoneTyped, EndedIs DEF Unanswerable
  <1>a. ASSUME UNCHANGED <<desk, gen, snap, watchVars, lines, pend, drawn, open, panel>>,
               surf' \in [Groups -> Surface \cup {None}], UpMoves, DownMoves
        PROVE  PanelsTyped' /\ Shape
    <2>1. up' \in Seq(Requests) /\ down' \in Seq(Events)
      BY <1>a, MoveTyped
    <2>2. CoreTyped'
      BY <1>a, <1>t, <2>1 DEF CoreTyped
    <2>3. EwwiiTyped'
      BY <1>a DEF PanelsTyped, EwwiiTyped, watchVars
    <2>4. Aging
      BY <1>a, <1>t DEF Aging
    <2> QED
      BY <1>a, <2>2, <2>3, <2>4 DEF PanelsTyped, Shape
  <1>2. CASE GetGroupSurface
    <2>1. up # << >> /\ Head(up) \in Requests /\ Head(up).kind = "create"
      BY <1>2, HeadsTyped DEF GetGroupSurface, Request
    <2> DEFINE g == Head(up).group
               s == [since |-> Head(up).since, height |-> 0, sent |-> 0, shown |-> FALSE]
    <2>2. g \in Groups /\ Head(up).since \in Role
      BY <2>1, RequestIs
    <2>3. s \in Surface
      BY <2>2 DEF Surface
    <2>4. /\ Exists(desk, g) /\ up' = Tail(up)
          /\ surf' = [surf EXCEPT ![g] = Applied(desk, g, SentSize(desk, g, s))]
          /\ down' = Append(down, Configure(desk, g, s))
          /\ UNCHANGED <<desk, gen, snap, watchVars, lines, pend, drawn, open, panel>>
      BY <1>2 DEF GetGroupSurface, ewwiiVars, pluginVars
    <2>5. Configure(desk, g, s) \in Events /\ Configure(desk, g, s).kind = "configure"
      <3>1. desk.group[g].height \in Nat /\ s.since \in Role
        BY <1>t, <2>2, <2>3, <2>4, GroupIs DEF Surface
      <3> HIDE DEF s, g
      <3> QED
        BY <2>2, <3>1 DEF Configure, Events
    <2> HIDE DEF s, g
    <2>6. Applied(desk, g, SentSize(desk, g, s)) \in Surface
      BY <1>t, <2>2, <2>3, <2>4, AppliedTyped
    <2>7. surf' \in [Groups -> Surface \cup {None}]
      BY <1>t, <2>2, <2>4, <2>6
    <2>8. UpMoves /\ DownMoves
      BY <2>1, <2>4, <2>5 DEF UpMoves, DownMoves, Lively
    <2> QED
      BY <1>a, <2>4, <2>7, <2>8
  <1>3. CASE PlaceSurface
    <2>1. up # << >> /\ Head(up) \in Requests /\ Head(up).kind = "place"
      BY <1>3, HeadsTyped DEF PlaceSurface, Request
    <2> DEFINE g == Head(up).group
               h == Head(up).height
    <2>2. g \in Groups /\ h \in Nat
      BY <2>1, RequestIs
    <2>3. /\ Exists(desk, g) /\ up' = Tail(up) /\ surf' = Placed(g, h) /\ down' = down
          /\ UNCHANGED <<desk, gen, snap, watchVars, lines, pend, drawn, open, panel>>
      BY <1>3 DEF PlaceSurface, ewwiiVars, pluginVars
    <2> HIDE DEF g, h
    <2>4. surf[g] # None => [surf[g] EXCEPT !.height = h] \in Surface
      BY <1>t, <2>2 DEF Surface
    <2>5. surf[g] # None => Applied(desk, g, [surf[g] EXCEPT !.height = h]) \in Surface
      BY <1>t, <2>2, <2>3, <2>4, AppliedTyped
    <2>6. Placed(g, h) = IF surf[g] = None THEN surf
                         ELSE [surf EXCEPT ![g] = Applied(desk, g, [surf[g] EXCEPT !.height = h])]
      BY <1>t, <2>2 DEF Placed
    <2>7. surf' \in [Groups -> Surface \cup {None}]
      BY <1>t, <2>2, <2>3, <2>5, <2>6
    <2>8. UpMoves /\ DownMoves
      BY <2>1, <2>3 DEF UpMoves, DownMoves, Lively
    <2> QED
      BY <1>a, <2>3, <2>7, <2>8
  <1>4. CASE DestroySurface
    <2>1. up # << >> /\ Head(up).kind = "destroy" /\ Head(up) \in Requests
      BY <1>4, HeadsTyped DEF DestroySurface, Request
    <2>2. /\ up' = Tail(up) /\ down' = down
          /\ surf' = surf \/ surf' = [surf EXCEPT ![Head(up).group] = None]
          /\ UNCHANGED <<desk, gen, snap, watchVars, lines, pend, drawn, open, panel>>
      BY <1>4 DEF DestroySurface, ewwiiVars, pluginVars
    <2>3. surf' \in [Groups -> Surface \cup {None}]
      BY <1>t, <2>2
    <2>4. UpMoves /\ DownMoves
      BY <2>1, <2>2 DEF UpMoves, DownMoves, Lively
    <2> QED
      BY <1>a, <2>2, <2>3, <2>4
  <1> QED
    BY <1>1, <1>2, <1>3, <1>4 DEF Core

\* Steps which leave the desktop and its surfaces alone.
LEMMA OutsideTyped ==
  ASSUME PanelsTyped, UNCHANGED <<desk, gen, surf>>, UpMoves, DownMoves,
         snap' \in [gen : Nat, desk : Desks], EwwiiTyped'
  PROVE  PanelsTyped' /\ Shape
  <1>1. up' \in Seq(Requests) /\ down' \in Seq(Events)
    BY MoveTyped
  <1>2. CoreTyped'
    BY <1>1 DEF PanelsTyped, CoreTyped
  <1>3. Aging
    BY DEF Aging, PanelsTyped, CoreTyped
  <1> QED
    BY <1>2, <1>3 DEF PanelsTyped, Shape

LEMMA GroupConfigureTyped ==
  ASSUME PanelsTyped, GroupConfigure
  PROVE  PanelsTyped' /\ Shape
  <1>1. down # << >> /\ Head(down) \in Events /\ Head(down).kind = "configure"
    BY HeadsTyped DEF GroupConfigure, Event
  <1> DEFINE e == Head(down)
             g == e.group
             h == SmallerOf(UiHeight, e.height)
  <1>2. g \in Groups /\ e.height \in Nat
    BY <1>1, EventIs
  <1>3. h \in Nat
    <2>1. UiHeight \in Nat
      BY PanelAssumption
    <2> QED
      BY <1>2, <2>1 DEF SmallerOf
  <1>4. /\ down' = Tail(down)
        /\ UNCHANGED <<desk, gen, surf, snap, watchVars, lines, pend, drawn, open>>
        /\ \/ panel' = panel /\ up' = up
           \/ /\ panel[g] # None
              /\ panel' = [panel EXCEPT ![g].height = e.height]
              /\ up' = Append(up, [kind |-> "place", group |-> g, height |-> h])
    BY DEF GroupConfigure, coreVars, pluginVars
  <1> HIDE DEF h
  <1>5. [kind |-> "place", group |-> g, height |-> h] \in Requests
    BY <1>2, <1>3 DEF Requests
  <1> HIDE DEF g, e
  <1>6. UpMoves /\ DownMoves
    BY <1>1, <1>4, <1>5 DEF UpMoves, DownMoves, Lively, e
  <1>p. panel \in [Groups -> Panel \cup {None}]
    BY DEF PanelsTyped, EwwiiTyped
  <1>7. panel' \in [Groups -> Panel \cup {None}]
    <2>1. ASSUME panel[g] # None
          PROVE  [panel[g] EXCEPT !.height = e.height] \in Panel
      BY <1>2, <1>p, <2>1 DEF Panel
    <2>2. ASSUME panel[g] # None
          PROVE  [panel EXCEPT ![g].height = e.height] \in [Groups -> Panel \cup {None}]
      <3>1. [panel EXCEPT ![g].height = e.height]
              = [panel EXCEPT ![g] = [panel[g] EXCEPT !.height = e.height]]
        BY <1>2, <1>p
      <3> QED
        BY <1>p, <1>2, <2>1, <2>2, <3>1
    <2> QED
      BY <1>4, <1>p, <2>2
  <1>8. EwwiiTyped'
    BY <1>4, <1>7 DEF PanelsTyped, EwwiiTyped, watchVars
  <1>9. snap' \in [gen : Nat, desk : Desks]
    BY <1>4 DEF PanelsTyped, CoreTyped
  <1> QED
    BY <1>4, <1>6, <1>8, <1>9, OutsideTyped

LEMMA DrawnFrom ==
  ASSUME NEW v \in Views, NEW g
  PROVE  GroupFor(v, g) \in Nat
  <1>1. v.tabs \in UNION {[S -> Nat] : S \in SUBSET Groups}
    BY DEF Views
  <1>2. \A x \in DOMAIN v.tabs : v.tabs[x] \in Nat
    BY <1>1
  <1> QED
    BY <1>2 DEF GroupFor

LEMMA ViewGroups ==
  ASSUME NEW v \in Views
  PROVE  DOMAIN v.tabs \subseteq Groups
  <1>1. v.tabs \in UNION {[S -> Nat] : S \in SUBSET Groups}
    BY DEF Views
  <1> QED
    BY <1>1

\* A new window of a panel.

Destroy(g) == [kind |-> "destroy", group |-> g, since |-> panel[g].since]

\* The queue once the role of a panel is let go.
LEMMA ReleaseIs ==
  ASSUME PanelsTyped, NEW g \in Groups
  PROVE  /\ panel[g] = None => ExternalRoleDestroy(g) = up
         /\ panel[g] # None => /\ Destroy(g) \in Requests /\ Destroy(g).kind = "destroy"
                               /\ ExternalRoleDestroy(g) = Append(up, Destroy(g))
         /\ ExternalRoleDestroy(g) \in Seq(Requests)
  <1>1. panel \in [Groups -> Panel \cup {None}] /\ up \in Seq(Requests)
    BY DEF PanelsTyped, CoreTyped, EwwiiTyped
  <1>2. panel[g] # None => panel[g].since \in Role
    BY <1>1 DEF Panel
  <1>3. panel[g] # None => Destroy(g) \in Requests /\ Destroy(g).kind = "destroy"
    BY <1>2 DEF Destroy, Requests
  <1>4. /\ panel[g] = None => ExternalRoleDestroy(g) = up
        /\ panel[g] # None => ExternalRoleDestroy(g) = Append(up, Destroy(g))
    BY DEF ExternalRoleDestroy, Destroy
  <1>5. panel[g] # None => Append(up, Destroy(g)) \in Seq(Requests)
    BY <1>1, <1>3, AppendIs
  <1> QED
    BY <1>1, <1>3, <1>4, <1>5

\* A new window of a panel.
LEMMA PrepareTyped ==
  ASSUME PanelsTyped, NEW g \in Groups, NEW role \in Role, PreparePanel(g, role)
  PROVE  /\ UpMoves /\ panel' \in [Groups -> Panel \cup {None}]
         /\ \E p \in Panel : p.since = role /\ panel' = [panel EXCEPT ![g] = p]
         /\ up' = Append(ExternalRoleDestroy(g), ExternalRoleCreate(g, role))
         /\ ExternalRoleCreate(g, role) \in Requests
         /\ About(ExternalRoleCreate(g, role), g)
         /\ ExternalRoleCreate(g, role).kind = "create"
         /\ ExternalRoleCreate(g, role).since = role
  <1>1. pend \in Views /\ panel \in [Groups -> Panel \cup {None}]
    BY DEF PanelsTyped, EwwiiTyped
  <1>2. GroupFor(pend, g) \in Nat
    BY <1>1, DrawnFrom
  <1>3. PrepareWindow(g, role) \in Panel /\ PrepareWindow(g, role).since = role
    BY <1>2 DEF PrepareWindow, Panel
  <1>4. /\ ExternalRoleCreate(g, role) \in Requests
        /\ ExternalRoleCreate(g, role).kind = "create"
        /\ ExternalRoleCreate(g, role).group = g
        /\ ExternalRoleCreate(g, role).since = role
    BY DEF ExternalRoleCreate, Requests
  <1>5. About(ExternalRoleCreate(g, role), g)
    BY <1>4 DEF About
  <1>6. /\ up' = Append(ExternalRoleDestroy(g), ExternalRoleCreate(g, role))
        /\ panel' = [panel EXCEPT ![g] = PrepareWindow(g, role)]
    BY DEF PreparePanel
  <1>7. UpMoves
    BY <1>4, <1>6, ReleaseIs DEF UpMoves, Lively
  <1> QED
    BY <1>1, <1>3, <1>4, <1>5, <1>6, <1>7

LEMMA ReleaseTyped ==
  ASSUME PanelsTyped, NEW g \in Groups, ReleasePanel(g)
  PROVE  /\ UpMoves /\ panel' \in [Groups -> Panel \cup {None}]
         /\ panel' = [panel EXCEPT ![g] = None]
         /\ up' = ExternalRoleDestroy(g)
  <1>1. panel \in [Groups -> Panel \cup {None}]
    BY DEF PanelsTyped, EwwiiTyped
  <1>2. up' = ExternalRoleDestroy(g) /\ panel' = [panel EXCEPT ![g] = None]
    BY DEF ReleasePanel
  <1>3. UpMoves
    BY <1>2, ReleaseIs DEF UpMoves, Lively
  <1> QED
    BY <1>1, <1>2, <1>3

\* What a watcher has after a command.
LEMMA AnsweredTyped ==
  ASSUME PanelsTyped, NEW w \in Watchers, NEW windows \in Remembered, NEW success \in BOOLEAN,
         CommandAnswered(w, windows, success)
  PROVE  watch' \in [Watchers -> WatchRecord] /\ meddled' \in Nat
  <1>1. watch \in [Watchers -> WatchRecord] /\ meddled \in Nat
    BY DEF PanelsTyped, EwwiiTyped
  <1>2. meddled' \in Nat
    BY <1>1 DEF CommandAnswered
  <1>3. \/ watch' = [watch EXCEPT ![w] = [watch[w] EXCEPT !.cache = windows]]
        \/ watch' = [watch EXCEPT ![w] = Off]
    BY <1>1 DEF CommandAnswered
  <1>4. watch[w] \in WatchRecord
    BY <1>1
  <1>5. [watch[w] EXCEPT !.cache = windows] \in WatchRecord
    BY <1>4, WatchIs
  <1>6. watch' \in [Watchers -> WatchRecord]
    BY <1>1, <1>3, <1>5, OffIs, WatchMoves
  <1> QED
    BY <1>2, <1>6

\* What a watcher remembers is made of windows.
LEMMA MemoryTyped ==
  ASSUME PanelsTyped, NEW w \in Watchers
  PROVE  /\ watch[w] \in WatchRecord /\ watch[w].gen \in Nat /\ watch[w].view \in Views
         /\ Seeded(w) => watch[w].cache \in Remembered
         /\ ActiveWindows \in Remembered
  <1>1. /\ watch[w] \in WatchRecord /\ open \subseteq {Bar, Background}
    BY DEF PanelsTyped, EwwiiTyped
  <1>2. ActiveWindows \in Remembered
    BY <1>1 DEF ActiveWindows, Remembered
  <1> QED
    BY <1>1, <1>2, WatchIs DEF Seeded

\* The watchers, and what they do to Ewwii.
LEMMA WatcherTyped ==
  ASSUME PanelsTyped, NEW w \in Watchers, Watcher(w) \/ WatcherFails(w)
  PROVE  PanelsTyped' /\ Shape
  <1>t. /\ watch \in [Watchers -> WatchRecord]
        /\ live \in Watchers \cup {None} /\ meddled \in Nat
        /\ lines \in Seq(Views) /\ pend \in Views /\ drawn \in Nat
        /\ open \subseteq {Bar, Background} /\ panel \in [Groups -> Panel \cup {None}]
        /\ snap \in [gen : Nat, desk : Desks]
    BY DEF PanelsTyped, CoreTyped, EwwiiTyped
  <1>w. /\ watch[w] \in WatchRecord /\ watch[w].gen \in Nat /\ watch[w].view \in Views
        /\ Seeded(w) => watch[w].cache \in Remembered
        /\ ActiveWindows \in Remembered
    BY MemoryTyped
  <1>a. ASSUME UNCHANGED <<coreVars, down, snap, pend, drawn>>, UpMoves,
               watch' \in [Watchers -> WatchRecord], live' \in Watchers \cup {None},
               meddled' \in Nat, lines' \in Seq(Views),
               open' \subseteq {Bar, Background}, panel' \in [Groups -> Panel \cup {None}]
        PROVE  PanelsTyped' /\ Shape
    <2>1. EwwiiTyped'
      BY <1>a, <1>t DEF EwwiiTyped
    <2> QED
      BY <1>a, <1>t, <2>1, OutsideTyped DEF coreVars, DownMoves
  <1>b. ASSUME NEW r \in WatchRecord, watch' = [watch EXCEPT ![w] = r],
               UNCHANGED <<coreVars, down, snap, pend, drawn, lines, open, panel, up>>,
               live' \in Watchers \cup {None}, meddled' = meddled
        PROVE  PanelsTyped' /\ Shape
    <2>1. watch' \in [Watchers -> WatchRecord]
      BY <1>b, <1>t, WatchMoves
    <2>2. UpMoves
      BY <1>b DEF UpMoves
    <2> QED
      BY <1>a, <1>b, <1>t, <2>1, <2>2
  <1>1. CASE RunWatcher(w)
    <2>1. [watch[w] EXCEPT !.at = "connect"] \in WatchRecord
      BY <1>w, WatchIs
    <2>2. /\ UNCHANGED <<coreVars, down, snap, pend, drawn, lines, open, panel, up, meddled>>
          /\ live' = w /\ watch' = [watch EXCEPT ![w] = [watch[w] EXCEPT !.at = "connect"]]
      BY <1>1, <1>t DEF RunWatcher, ewwiiVars, pluginVars
    <2> QED
      BY <1>b, <2>1, <2>2
  <1>2. CASE Connect(w)
    <2>1. [watch[w] EXCEPT !.at = "wait"] \in WatchRecord
      BY <1>w, WatchIs
    <2>2. /\ UNCHANGED <<coreVars, down, snap, pend, drawn, lines, open, panel, up, live, meddled>>
          /\ watch' = [watch EXCEPT ![w] = [watch[w] EXCEPT !.at = "wait"]]
      BY <1>2, <1>t DEF Connect, ewwiiVars, pluginVars
    <2> QED
      BY <1>b, <1>t, <2>1, <2>2
  <1>3. CASE Receive(w)
    <2>1. Project(snap) \in Views /\ snap.gen \in Nat
      BY <1>t, ProjectTyped
    <2>2. [watch[w] EXCEPT !.at = "work", !.gen = snap.gen, !.view = Project(snap)] \in WatchRecord
      BY <1>w, <2>1, WatchIs
    <2>3. /\ UNCHANGED <<coreVars, down, snap, pend, drawn, lines, open, panel, up, live, meddled>>
          /\ watch' = [watch EXCEPT ![w] =
               [watch[w] EXCEPT !.at = "work", !.gen = snap.gen, !.view = Project(snap)]]
      BY <1>3, <1>t DEF Receive, ewwiiVars, pluginVars
    <2> QED
      BY <1>b, <1>t, <2>2, <2>3
  <1>4. CASE SeedRuntime(w)
    <2>1. [watch[w] EXCEPT !.cache = ActiveWindows] \in WatchRecord
      BY <1>w, WatchIs
    <2>2. /\ UNCHANGED <<coreVars, down, snap, pend, drawn, lines, open, panel, up, live, meddled>>
          /\ watch' = [watch EXCEPT ![w] = [watch[w] EXCEPT !.cache = ActiveWindows]]
      BY <1>4, <1>t DEF SeedRuntime, ewwiiVars, pluginVars
    <2> QED
      BY <1>b, <1>t, <2>1, <2>2
  <1>5. CASE SetBackground(w) \/ SetBar(w)
    <2>1. PICK root \in {Bar, Background} : SetRoot(w, root)
      BY <1>5 DEF SetBackground, SetBar
    <2> DEFINE With(windows) == IF Wanted(w, root) THEN windows \cup {root} ELSE windows \ {root}
    <2>2. /\ UNCHANGED <<coreVars, down, snap, pend, drawn, lines, panel, up, live>>
          /\ open' = With(open) /\ Seeded(w)
          /\ CommandAnswered(w, With(watch[w].cache), Wanted(w, root) \/ root \in open)
      BY <2>1 DEF SetRoot, pluginVars, Commanding
    <2>3. open' \subseteq {Bar, Background}
      BY <1>t, <2>2
    <2>4. With(watch[w].cache) \in Remembered
      BY <1>w, <2>2 DEF Remembered
    <2>5. (Wanted(w, root) \/ root \in open) \in BOOLEAN
      OBVIOUS
    <2> HIDE DEF With
    <2>6. watch' \in [Watchers -> WatchRecord] /\ meddled' \in Nat
      BY <2>2, <2>4, <2>5, AnsweredTyped
    <2>7. UpMoves
      BY <2>2 DEF UpMoves
    <2> QED
      BY <1>a, <1>t, <2>2, <2>3, <2>6, <2>7
  <1>6. CASE PrintProjection(w)
    <2>1. UNCHANGED <<coreVars, down, snap, pend, drawn, open, panel, up, live, meddled>>
      BY <1>6 DEF PrintProjection, ewwiiVars, pluginVars
    <2>2. lines' \in Seq(Views)
      BY <1>6, <1>t, <1>w, AppendIs DEF PrintProjection
    <2>3. [watch[w] EXCEPT !.at = "wait", !.view = NoView] \in WatchRecord
      BY <1>w, WatchIs, EmptyView
    <2>4. \/ watch' = [watch EXCEPT ![w] = [watch[w] EXCEPT !.at = "wait", !.view = NoView]]
          \/ watch' = [watch EXCEPT ![w] = Off]
      BY <1>6, <1>t DEF PrintProjection
    <2>5. watch' \in [Watchers -> WatchRecord]
      BY <1>t, <2>3, <2>4, OffIs, WatchMoves
    <2>6. UpMoves
      BY <2>1 DEF UpMoves
    <2> QED
      BY <1>a, <1>t, <2>1, <2>2, <2>5, <2>6
  <1>7. ASSUME NEW g \in Groups, CloseStale(w, g)
        PROVE  PanelsTyped' /\ Shape
    <2>1. /\ ReleasePanel(g) /\ UNCHANGED <<coreVars, down, snap, pend, drawn, lines, open, live>>
          /\ Seeded(w) /\ CommandAnswered(w, watch[w].cache \ {g}, panel[g] # None)
      BY <1>7 DEF CloseStale, pluginVars, Commanding
    <2>2. UpMoves /\ panel' \in [Groups -> Panel \cup {None}]
      BY <2>1, ReleaseTyped
    <2>3. watch[w].cache \ {g} \in Remembered /\ (panel[g] # None) \in BOOLEAN
      BY <1>w, <2>1 DEF Remembered
    <2>4. watch' \in [Watchers -> WatchRecord] /\ meddled' \in Nat
      BY <2>1, <2>3, AnsweredTyped
    <2> QED
      BY <1>a, <1>t, <2>1, <2>2, <2>4
  <1>8. ASSUME NEW g \in Groups, OpenMissing(w, g)
        PROVE  PanelsTyped' /\ Shape
    <2>1. /\ UNCHANGED <<coreVars, down, snap, pend, drawn, lines, open, live>>
          /\ Seeded(w) /\ CommandAnswered(w, watch[w].cache \cup {g}, bridge' = "ready")
          /\ IF bridge' = "ready" THEN PreparePanel(g, <<watch[w].gen, w>>)
             ELSE UNCHANGED <<panel, up>>
      BY <1>8 DEF OpenMissing, Commanding
    <2>2. watch[w].cache \cup {g} \in Remembered /\ (bridge' = "ready") \in BOOLEAN
      BY <1>w, <2>1 DEF Remembered
    <2>3. watch' \in [Watchers -> WatchRecord] /\ meddled' \in Nat
      BY <2>1, <2>2, AnsweredTyped
    <2>4. <<watch[w].gen, w>> \in Role
      BY <1>w DEF Role
    <2>5. UpMoves /\ panel' \in [Groups -> Panel \cup {None}]
      BY <1>t, <2>1, <2>4, PrepareTyped DEF UpMoves
    <2> QED
      BY <1>a, <1>t, <2>1, <2>3, <2>5
  <1>9. CASE WatcherFails(w)
    <2>1. /\ UNCHANGED <<coreVars, down, snap, pend, drawn, lines, open, panel, up, live, meddled>>
          /\ watch' = [watch EXCEPT ![w] = Off]
      BY <1>9 DEF WatcherFails, ewwiiVars, pluginVars
    <2> QED
      BY <1>b, <1>t, <2>1, OffIs
  <1> QED
    BY <1>1, <1>2, <1>3, <1>4, <1>5, <1>6, <1>7, <1>8, <1>9 DEF Watcher

LEMMA PanelStepTyped ==
  ASSUME PanelsTyped, PanelNext
  PROVE  PanelsTyped' /\ Shape
  <1>t. /\ watch \in [Watchers -> WatchRecord]
        /\ live \in Watchers \cup {None} /\ meddled \in Nat
        /\ lines \in Seq(Views) /\ pend \in Views /\ drawn \in Nat
        /\ open \subseteq {Bar, Background} /\ panel \in [Groups -> Panel \cup {None}]
        /\ snap \in [gen : Nat, desk : Desks] /\ desk \in Desks /\ gen \in Nat
    BY DEF PanelsTyped, CoreTyped, EwwiiTyped
  <1>a. ASSUME UNCHANGED <<coreVars, watchVars, down, up>>, snap' \in [gen : Nat, desk : Desks],
               lines' \in Seq(Views), pend' \in Views, drawn' \in Nat, open' = open,
               panel' \in [Groups -> Panel \cup {None}]
        PROVE  PanelsTyped' /\ Shape
    <2>1. EwwiiTyped'
      BY <1>a, <1>t DEF EwwiiTyped, watchVars
    <2>2. UpMoves /\ DownMoves
      BY <1>a DEF UpMoves, DownMoves
    <2> QED
      BY <1>a, <2>1, <2>2, OutsideTyped DEF coreVars
  <1>1. CASE Script
    <2>1. UNCHANGED <<coreVars, watchVars, down, up, snap, lines, pend, drawn, open, panel>>
      BY <1>1 DEF Script, StartEwwii, OpenSeedWindow, BarUp, pluginVars
    <2> QED
      BY <1>a, <1>t, <2>1
  <1>2. CASE ReadLine
    <2>1. UNCHANGED <<coreVars, down, up, snap, watchVars, drawn, open, panel>>
      BY <1>2 DEF ReadLine, ewwiiVars
    <2>2. lines # << >> /\ lines' = Tail(lines) /\ pend' \in {Head(lines), pend}
      BY <1>2 DEF ReadLine, Ingest
    <2>3. Head(lines) \in Views /\ Tail(lines) \in Seq(Views)
      BY <1>t, <2>2, TailIs
    <2> QED
      BY <1>a, <1>t, <2>1, <2>2, <2>3
  <1>3. CASE DrawPanels
    <2>1. UNCHANGED <<coreVars, down, up, snap, watchVars, lines, pend, open>> /\ drawn' = pend.gen
      BY <1>3 DEF DrawPanels
    <2>2. pend.gen \in Nat
      BY <1>t DEF Views
    <2>3. \A g \in Groups : panel[g] # None => Rebuilt(panel[g], GroupFor(pend, g)) \in Panel
      <3> TAKE g \in Groups
      <3>1. GroupFor(pend, g) \in Nat
        BY <1>t, DrawnFrom
      <3> QED
        BY <1>t, <3>1 DEF Rebuilt, Panel
    <2>4. panel' \in [Groups -> Panel \cup {None}]
      BY <1>3, <2>3 DEF DrawPanels
    <2> QED
      BY <1>a, <1>t, <2>1, <2>2, <2>4
  <1>4. CASE DaemonLearns
    <2>1. /\ UNCHANGED <<coreVars, down, up, watchVars, lines, pend, drawn, open, panel>>
          /\ snap' = [gen |-> gen, desk |-> desk]
      BY <1>4 DEF DaemonLearns, ewwiiVars, pluginVars
    <2>2. snap' \in [gen : Nat, desk : Desks]
      BY <1>t, <2>1
    <2> QED
      BY <1>a, <1>t, <2>1, <2>2
  <1>5. CASE GiveUp \/ GiveUpEarly \/ EwwiiDies
    BY <1>5, GoneTyped, EndedIs DEF GiveUp, GiveUpEarly, EwwiiDies
  <1> QED
    BY <1>1, <1>2, <1>3, <1>4, <1>5, BecomesTyped, CoreStepTyped, GroupConfigureTyped, WatcherTyped
       DEF PanelNext
-----------------------------------------------------------------------------
(* Surfaces and panels.                                                    *)

\* A surface is of a group that is there, and the requests on their way lead
\* from the surfaces there are to the panels there are.
Surfaced ==
    \A g \in Groups :
        /\ surf[g] # None => Exists(desk, g)
        /\ desk.group[g] # Gone => Chained(surf[g], up, panel[g], g)

LEMMA SameIs ==
  \A s : Same(s, s)
  BY DEF Same

\* A step that makes and lets go no surface and no panel.
LEMMA SurfacedIdle ==
  ASSUME PanelsTyped, Surfaced,
         \A g \in Groups : desk'.group[g] # Gone => desk.group[g] # Gone,
         \A g \in Groups : surf'[g] # None => Exists(desk', g),
         \A g \in Groups : desk'.group[g] # Gone =>
            Same(surf[g], surf'[g]) /\ Same(panel[g], panel'[g]),
         \/ up' = up
         \/ up # << >> /\ up' = Tail(up) /\ Head(up).kind \notin {"create", "destroy"}
         \/ \E m \in Requests : up' = Append(up, m) /\ m.kind \notin {"create", "destroy"}
  PROVE  Surfaced'
  <1> SUFFICES ASSUME NEW g \in Groups, desk'.group[g] # Gone
               PROVE  Chained(surf'[g], up', panel'[g], g)
    BY DEF Surfaced
  <1>1. up \in Seq(Requests)
    BY DEF PanelsTyped, CoreTyped
  <1>2. Chained(surf[g], up, panel[g], g) /\ Same(surf[g], surf'[g]) /\ Same(panel[g], panel'[g])
    BY DEF Surfaced
  <1>3. CASE up' = up
    BY <1>2, <1>3, ChainedSame
  <1>4. CASE up # << >> /\ up' = Tail(up) /\ Head(up).kind \notin {"create", "destroy"}
    <2>1. ~About(Head(up), g)
      BY <1>4 DEF About
    <2>2. Chained(surf[g], Tail(up), panel[g], g)
      BY <1>1, <1>2, <1>4, <2>1, ChainedTail
    <2> QED
      BY <1>2, <1>4, <2>2, ChainedSame
  <1>5. ASSUME NEW m \in Requests, up' = Append(up, m), m.kind \notin {"create", "destroy"}
        PROVE  Chained(surf'[g], up', panel'[g], g)
    <2>1. ~About(m, g)
      BY <1>5 DEF About
    <2>2. Chained(surf[g], Append(up, m), panel[g], g)
      BY <1>1, <1>2, <2>1, ChainedOther
    <2> QED
      BY <1>2, <1>5, <2>2, ChainedSame
  <1> QED
    BY <1>3, <1>4, <1>5

LEMMA SurfacedGone ==
  ASSUME Ended
  PROVE  Surfaced'
  <1>1. \A g \in Groups : Same(NoPanels[g], NoPanels[g])
    BY DEF Same
  <1>2. /\ surf' = NoPanels /\ panel' = NoPanels /\ up' = << >>
        /\ \A g \in Groups : NoPanels[g] = None
    BY DEF Ended, EwwiiGone, NoPanels
  <1>3. \A g \in Groups : Chained(NoPanels[g], << >>, NoPanels[g], g)
    BY <1>1, ChainedEmpty
  <1> QED
    BY <1>2, <1>3 DEF Surfaced

\* The compositor reads a request of a surface's life.
LEMMA SurfacedRead ==
  ASSUME PanelsTyped, Surfaced, UNCHANGED <<desk, panel>>, up # << >>, up' = Tail(up),
         NEW g \in Groups, About(Head(up), g),
         \A x \in Groups : x # g => surf'[x] = surf[x],
         surf'[g] # None => Exists(desk, g),
         desk.group[g] # Gone => Leaves(Head(up), surf'[g])
  PROVE  Surfaced'
  <1>1. up \in Seq(Requests)
    BY DEF PanelsTyped, CoreTyped
  <1>2. Head(up).group = g
    BY DEF About
  <1>3. ASSUME NEW x \in Groups, desk.group[x] # Gone
        PROVE  Chained(surf'[x], Tail(up), panel[x], x)
    <2>1. Chained(surf[x], up, panel[x], x)
      BY <1>3 DEF Surfaced
    <2>2. CASE x = g
      BY <1>1, <1>3, <2>1, <2>2, ChainedTail
    <2>3. CASE x # g
      <3>1. ~About(Head(up), x)
        BY <1>2, <2>3 DEF About
      <3> QED
        BY <1>1, <2>1, <2>3, <3>1, ChainedTail
    <2> QED
      BY <2>2, <2>3
  <1>4. \A x \in Groups : surf'[x] # None => Exists(desk, x)
    BY DEF Surfaced
  <1> QED
    BY <1>3, <1>4 DEF Surfaced, Exists

\* The first request of its life finds the surface as it is.
LEMMA HeadIs ==
  ASSUME PanelsTyped, Surfaced, NEW g \in Groups, desk.group[g] # Gone, up # << >>,
         About(Head(up), g)
  PROVE  Meets(surf[g], Head(up))
  <1>1. up \in Seq(Requests) /\ Chained(surf[g], up, panel[g], g)
    BY DEF PanelsTyped, CoreTyped, Surfaced
  <1>2. \E t : Leaves(Head(up), t)
    <2>1. CASE Head(up).kind # "create"
      BY <2>1 DEF Leaves
    <2>2. CASE Head(up).kind = "create"
      <3> DEFINE t == [since |-> Head(up).since, height |-> 0, tabs |-> 0]
      <3>1. Head(up) \in Requests
        BY <1>1, TailIs
      <3>2. Head(up).since \in Role
        BY <2>2, <3>1, RequestIs
      <3>3. t \in Panel /\ t.since = Head(up).since
        BY <3>2 DEF Panel
      <3>4. t # None
        BY <3>3, PanelAssumption
      <3> QED
        BY <2>2, <3>3, <3>4 DEF Leaves
    <2> QED
      BY <2>1, <2>2
  <1>3. PICK t : Leaves(Head(up), t)
    BY <1>2
  <1> QED
    BY <1>1, <1>3, ChainedTail

\* A panel is let go, or remade, and the queue has what that sends.
LEMMA ReleaseChained ==
  ASSUME PanelsTyped, Surfaced, NEW g \in Groups
  PROVE  /\ desk.group[g] # Gone => Chained(surf[g], ExternalRoleDestroy(g), None, g)
         /\ \A x \in Groups : x # g /\ desk.group[x] # Gone =>
              Chained(surf[x], ExternalRoleDestroy(g), panel[x], x)
  <1>1. up \in Seq(Requests)
    BY DEF PanelsTyped, CoreTyped
  <1>2. \A x \in Groups : desk.group[x] # Gone => Chained(surf[x], up, panel[x], x)
    BY DEF Surfaced
  <1>3. CASE panel[g] = None
    <2>1. ExternalRoleDestroy(g) = up
      BY <1>3, ReleaseIs
    <2> QED
      BY <1>2, <1>3, <2>1
  <1>4. CASE panel[g] # None
    <2>1. /\ Destroy(g) \in Requests /\ Destroy(g).kind = "destroy"
          /\ ExternalRoleDestroy(g) = Append(up, Destroy(g))
      BY <1>4, ReleaseIs
    <2>2. About(Destroy(g), g) /\ \A x : x # g => ~About(Destroy(g), x)
      BY DEF About, Destroy
    <2>3. Meets(panel[g], Destroy(g)) /\ Leaves(Destroy(g), None)
      BY <1>4 DEF Meets, Leaves, Destroy
    <2>4. desk.group[g] # Gone => Chained(surf[g], Append(up, Destroy(g)), None, g)
      BY <1>1, <1>2, <2>1, <2>2, <2>3, ChainedAppend
    <2>5. ASSUME NEW x \in Groups, x # g, desk.group[x] # Gone
          PROVE  Chained(surf[x], Append(up, Destroy(g)), panel[x], x)
      BY <1>1, <1>2, <2>1, <2>2, <2>5, ChainedOther
    <2> QED
      BY <2>1, <2>4, <2>5
  <1> QED
    BY <1>3, <1>4

LEMMA WatcherSurfaced ==
  ASSUME PanelsTyped, Surfaced, NEW w \in Watchers, Watcher(w) \/ WatcherFails(w)
  PROVE  Surfaced'
  <1>t. panel \in [Groups -> Panel \cup {None}] /\ up \in Seq(Requests)
    BY DEF PanelsTyped, CoreTyped, EwwiiTyped
  <1>a. ASSUME UNCHANGED <<desk, surf, panel, up>>
        PROVE  Surfaced'
    BY <1>a DEF Surfaced, Exists
  <1>1. CASE \/ RunWatcher(w) \/ Connect(w) \/ Receive(w) \/ SeedRuntime(w) \/ PrintProjection(w)
             \/ WatcherFails(w)
    BY <1>a, <1>1 DEF RunWatcher, Connect, Receive, SeedRuntime, PrintProjection, WatcherFails,
                      coreVars, ewwiiVars
  <1>2. CASE SetBackground(w) \/ SetBar(w)
    BY <1>a, <1>2 DEF SetBackground, SetBar, SetRoot, coreVars
  <1>3. ASSUME NEW g \in Groups, CloseStale(w, g)
        PROVE  Surfaced'
    <2>1. ReleasePanel(g) /\ UNCHANGED <<desk, surf>>
      BY <1>3 DEF CloseStale, coreVars
    <2>2. panel' = [panel EXCEPT ![g] = None] /\ up' = ExternalRoleDestroy(g)
      BY <2>1, ReleaseTyped
    <2>3. panel'[g] = None /\ \A x \in Groups : x # g => panel'[x] = panel[x]
      BY <1>t, <2>2
    <2>4. \A x \in Groups : desk.group[x] # Gone => Chained(surf[x], up', panel'[x], x)
      BY <2>2, <2>3, ReleaseChained
    <2> QED
      BY <2>1, <2>4 DEF Surfaced, Exists
  <1>4. ASSUME NEW g \in Groups, OpenMissing(w, g)
        PROVE  Surfaced'
    <2>1. UNCHANGED <<desk, surf>>
      BY <1>4 DEF OpenMissing, coreVars
    <2>2. CASE bridge' = "ready"
      <3> DEFINE role == <<watch[w].gen, w>>
                 m == ExternalRoleCreate(g, role)
                 q == ExternalRoleDestroy(g)
      <3>1. PreparePanel(g, role)
        BY <1>4, <2>2 DEF OpenMissing
      <3>2. role \in Role
        BY MemoryTyped DEF Role
      <3> HIDE DEF role
      <3>3. PICK p \in Panel : p.since = role /\ panel' = [panel EXCEPT ![g] = p]
        BY <3>1, <3>2, PrepareTyped
      <3>4. /\ up' = Append(q, m) /\ m \in Requests /\ About(m, g)
            /\ m.kind = "create" /\ m.since = role
        BY <3>1, <3>2, PrepareTyped
      <3>5. p # None /\ panel'[g] = p /\ \A x \in Groups : x # g => panel'[x] = panel[x]
        BY <1>t, <3>3, PanelAssumption
      <3>6. q \in Seq(Requests)
        BY ReleaseIs
      <3>7. /\ desk.group[g] # Gone => Chained(surf[g], q, None, g)
            /\ \A x \in Groups : x # g /\ desk.group[x] # Gone => Chained(surf[x], q, panel[x], x)
        BY ReleaseChained
      <3> HIDE DEF q, m
      <3>8. Meets(None, m) /\ Leaves(m, p)
        BY <3>3, <3>4, <3>5 DEF Meets, Leaves
      <3>9. desk.group[g] # Gone => Chained(surf[g], Append(q, m), p, g)
        BY <3>4, <3>6, <3>7, <3>8, ChainedAppend
      <3>10. ASSUME NEW x \in Groups, x # g, desk.group[x] # Gone
             PROVE  Chained(surf[x], Append(q, m), panel[x], x)
        <4>1. ~About(m, x)
          BY <3>4, <3>10 DEF About
        <4> QED
          BY <3>4, <3>6, <3>7, <3>10, <4>1, ChainedOther
      <3>11. \A x \in Groups : desk.group[x] # Gone => Chained(surf[x], up', panel'[x], x)
        BY <3>4, <3>5, <3>9, <3>10
      <3> QED
        BY <2>1, <3>11 DEF Surfaced, Exists
    <2>3. CASE bridge' # "ready"
      BY <1>4, <1>a, <2>1, <2>3 DEF OpenMissing
    <2> QED
      BY <2>2, <2>3
  <1> QED
    BY <1>1, <1>2, <1>3, <1>4 DEF Watcher

LEMMA PanelSurfaced ==
  ASSUME PanelsTyped, Surfaced, PanelNext
  PROVE  Surfaced'
  <1>t. /\ panel \in [Groups -> Panel \cup {None}] /\ surf \in [Groups -> Surface \cup {None}]
        /\ up \in Seq(Requests) /\ desk \in Desks
    BY DEF PanelsTyped, CoreTyped, EwwiiTyped
  <1>n. None \notin Panel /\ None \notin Surface
    BY PanelAssumption
  <1>s. \A g \in Groups : surf[g] # None => Exists(desk, g)
    BY DEF Surfaced
  <1>a. ASSUME UNCHANGED <<desk, surf, panel, up>>
        PROVE  Surfaced'
    BY <1>a DEF Surfaced, Exists
  <1>b. ASSUME UNCHANGED <<desk, surf>>, \A g \in Groups : Same(panel[g], panel'[g]),
               \/ up' = up
               \/ \E m \in Requests : up' = Append(up, m) /\ m.kind \notin {"create", "destroy"}
        PROVE  Surfaced'
    <2>1. \A g \in Groups : surf'[g] # None => Exists(desk', g)
      BY <1>b, <1>s
    <2> QED
      BY <1>b, <2>1, SameIs, SurfacedIdle
  <1>1. CASE Desktop
    <2>1. /\ desk' \in Desks /\ Becomes(desk')
          /\ \A g \in Groups : /\ desk.group[g] # None => desk'.group[g] # None
                               /\ desk.group[g] = Gone => desk'.group[g] = Gone
      BY <1>1, DesktopTyped
    <2>2. surf' = Refreshed(desk') /\ up' = up /\ panel' = panel
      BY <2>1 DEF Becomes, ewwiiVars
    <2>3. \A g \in Groups : surf'[g] # None => Exists(desk', g)
      BY <2>2 DEF Refreshed, Inert
    <2>4. ASSUME NEW g \in Groups, desk'.group[g] # Gone
          PROVE  Same(surf[g], surf'[g])
      <3>1. CASE surf[g] = None
        BY <2>2, <3>1, SameIs DEF Refreshed
      <3>2. CASE surf[g] # None
        <4>1. Exists(desk', g) /\ surf[g] \in Surface
          BY <1>s, <1>t, <2>1, <2>4, <3>2 DEF Exists
        <4>2. surf'[g] = Applied(desk', g, SentSize(desk', g, surf[g]))
          BY <2>2, <3>2, <4>1 DEF Refreshed, Inert
        <4>3. /\ SentSize(desk', g, surf[g]) \in Surface
              /\ SentSize(desk', g, surf[g]).since = surf[g].since
          BY <2>1, <4>1, AppliedTyped
        <4>4. surf'[g] \in Surface /\ surf'[g].since = surf[g].since
          BY <2>1, <4>1, <4>2, <4>3, AppliedTyped
        <4> QED
          BY <1>n, <3>2, <4>4 DEF Same
      <3> QED
        BY <3>1, <3>2
    <2> QED
      BY <2>1, <2>2, <2>3, <2>4, SameIs, SurfacedIdle
  <1>2. CASE GetGroupSurface
    <2>1. up # << >> /\ Head(up) \in Requests /\ Head(up).kind = "create"
      BY <1>2, HeadsTyped DEF GetGroupSurface, Request
    <2> DEFINE g == Head(up).group
               s == [since |-> Head(up).since, height |-> 0, sent |-> 0, shown |-> FALSE]
    <2>2. g \in Groups /\ Head(up).since \in Role
      BY <2>1, RequestIs
    <2>3. s \in Surface /\ s.since = Head(up).since
      BY <2>2 DEF Surface
    <2>4. About(Head(up), g)
      BY <2>1 DEF About
    <2>5. /\ Exists(desk, g) /\ up' = Tail(up) /\ UNCHANGED <<desk, panel>>
          /\ surf' = [surf EXCEPT ![g] = Applied(desk, g, SentSize(desk, g, s))]
      BY <1>2 DEF GetGroupSurface, ewwiiVars
    <2> HIDE DEF g, s
    <2>6. SentSize(desk, g, s) \in Surface /\ SentSize(desk, g, s).since = s.since
      BY <1>t, <2>2, <2>3, <2>5, AppliedTyped
    <2>7. /\ Applied(desk, g, SentSize(desk, g, s)) \in Surface
          /\ Applied(desk, g, SentSize(desk, g, s)).since = s.since
      BY <1>t, <2>2, <2>5, <2>6, AppliedTyped
    <2>8. /\ surf'[g] # None /\ surf'[g].since = Head(up).since
          /\ \A x \in Groups : x # g => surf'[x] = surf[x]
      BY <1>t, <1>n, <2>2, <2>3, <2>5, <2>7
    <2>9. Leaves(Head(up), surf'[g])
      BY <2>1, <2>8 DEF Leaves
    <2> QED
      BY <2>1, <2>2, <2>4, <2>5, <2>8, <2>9, SurfacedRead
  <1>3. CASE PlaceSurface
    <2>1. up # << >> /\ Head(up) \in Requests /\ Head(up).kind = "place"
      BY <1>3, HeadsTyped DEF PlaceSurface, Request
    <2> DEFINE g == Head(up).group
               h == Head(up).height
    <2>2. g \in Groups /\ h \in Nat
      BY <2>1, RequestIs
    <2>3. Exists(desk, g) /\ up' = Tail(up) /\ surf' = Placed(g, h) /\ UNCHANGED <<desk, panel>>
      BY <1>3 DEF PlaceSurface, ewwiiVars
    <2> HIDE DEF g, h
    <2>4. ASSUME NEW x \in Groups
          PROVE  Same(surf[x], surf'[x])
      <3>1. CASE surf[g] = None \/ x # g
        BY <1>t, <2>2, <2>3, <3>1, SameIs DEF Placed
      <3>2. CASE surf[g] # None /\ x = g
        <4> DEFINE s == [surf[g] EXCEPT !.height = h]
        <4>1. s \in Surface /\ s.since = surf[g].since
          BY <1>t, <2>2, <3>2 DEF Surface
        <4>2. surf'[g] = Applied(desk, g, s)
          BY <1>t, <2>2, <2>3, <3>2 DEF Placed
        <4> HIDE DEF s
        <4>3. surf'[g] \in Surface /\ surf'[g].since = surf[g].since
          BY <1>t, <2>2, <2>3, <4>1, <4>2, AppliedTyped
        <4> QED
          BY <1>n, <3>2, <4>3 DEF Same
      <3> QED
        BY <3>1, <3>2
    <2>5. \A x \in Groups : surf'[x] # None => Exists(desk', x)
      BY <1>s, <2>3, <2>4 DEF Same
    <2> QED
      BY <2>1, <2>3, <2>4, <2>5, SameIs, SurfacedIdle
  <1>4. CASE DestroySurface
    <2>1. up # << >> /\ Head(up) \in Requests /\ Head(up).kind = "destroy"
      BY <1>4, HeadsTyped DEF DestroySurface, Request
    <2> DEFINE g == Head(up).group
    <2>2. g \in Groups
      BY <2>1, RequestIs
    <2>3. About(Head(up), g)
      BY <2>1 DEF About
    <2>4. /\ up' = Tail(up) /\ UNCHANGED <<desk, panel>>
          /\ surf' = IF surf[g] = None \/ surf[g].since # Head(up).since THEN surf
                     ELSE [surf EXCEPT ![g] = None]
      BY <1>4 DEF DestroySurface, ewwiiVars
    <2> HIDE DEF g
    <2>5. \A x \in Groups : x # g => surf'[x] = surf[x]
      BY <1>t, <2>2, <2>4
    <2>6. surf'[g] # None => surf[g] # None
      BY <1>t, <2>2, <2>4
    <2>7. desk.group[g] # Gone => Leaves(Head(up), surf'[g])
      <3> SUFFICES ASSUME desk.group[g] # Gone
                   PROVE  surf'[g] = None
        BY <2>1 DEF Leaves
      <3>1. Meets(surf[g], Head(up))
        BY <2>1, <2>2, <2>3, HeadIs
      <3> QED
        BY <1>t, <2>1, <2>2, <2>4, <3>1 DEF Meets
    <2> QED
      BY <1>s, <2>1, <2>2, <2>3, <2>4, <2>5, <2>6, <2>7, SurfacedRead
  <1>5. CASE Unanswerable \/ GiveUp \/ GiveUpEarly \/ EwwiiDies
    BY <1>5, EndedIs, SurfacedGone DEF Unanswerable, GiveUp, GiveUpEarly, EwwiiDies
  <1>6. CASE GroupConfigure
    <2>1. down # << >> /\ Head(down) \in Events /\ Head(down).kind = "configure"
      BY <1>6, HeadsTyped DEF GroupConfigure, Event
    <2> DEFINE g == Head(down).group
               h == SmallerOf(UiHeight, Head(down).height)
    <2>2. g \in Groups /\ Head(down).height \in Nat
      BY <2>1, EventIs
    <2>3. h \in Nat
      <3>1. UiHeight \in Nat
        BY PanelAssumption
      <3> QED
        BY <2>2, <3>1 DEF SmallerOf
    <2>4. /\ UNCHANGED <<desk, surf>>
          /\ \/ panel' = panel /\ up' = up
             \/ /\ panel[g] # None
                /\ panel' = [panel EXCEPT ![g].height = Head(down).height]
                /\ up' = Append(up, [kind |-> "place", group |-> g, height |-> h])
      BY <1>6 DEF GroupConfigure, coreVars
    <2> HIDE DEF h
    <2>5. /\ [kind |-> "place", group |-> g, height |-> h] \in Requests
          /\ [kind |-> "place", group |-> g, height |-> h].kind \notin {"create", "destroy"}
      BY <2>2, <2>3 DEF Requests
    <2> HIDE DEF g
    <2>6. ASSUME panel[g] # None, panel' = [panel EXCEPT ![g].height = Head(down).height]
          PROVE  \A x \in Groups : Same(panel[x], panel'[x])
      <3>1. panel'[g] = [panel[g] EXCEPT !.height = Head(down).height] /\ panel[g] \in Panel
        BY <1>t, <2>2, <2>6
      <3>2. panel'[g] \in Panel /\ panel'[g].since = panel[g].since
        BY <2>2, <3>1 DEF Panel
      <3>3. \A x \in Groups : x # g => panel'[x] = panel[x]
        BY <1>t, <2>2, <2>6
      <3> QED
        BY <1>n, <2>6, <3>2, <3>3 DEF Same
    <2>7. \A x \in Groups : Same(panel[x], panel'[x])
      BY <2>4, <2>6, SameIs
    <2> QED
      BY <1>b, <2>4, <2>5, <2>7
  <1>7. CASE DrawPanels
    <2>1. /\ UNCHANGED <<desk, surf, up>>
          /\ panel' = [g \in Groups |-> IF panel[g] = None THEN None
                                        ELSE Rebuilt(panel[g], GroupFor(pend, g))]
      BY <1>7 DEF DrawPanels, coreVars
    <2>2. ASSUME NEW g \in Groups, panel[g] # None
          PROVE  /\ Rebuilt(panel[g], GroupFor(pend, g)) \in Panel
                 /\ Rebuilt(panel[g], GroupFor(pend, g)).since = panel[g].since
      <3>1. GroupFor(pend, g) \in Nat
        BY DrawnFrom DEF PanelsTyped, EwwiiTyped
      <3>2. panel[g] \in Panel
        BY <1>t, <2>2
      <3> QED
        BY <3>1, <3>2 DEF Rebuilt, Panel
    <2>3. \A g \in Groups : Same(panel[g], panel'[g])
      BY <1>n, <2>1, <2>2 DEF Same
    <2> QED
      BY <1>b, <2>1, <2>3
  <1>8. CASE Script \/ ReadLine \/ DaemonLearns
    BY <1>a, <1>8
       DEF Script, StartEwwii, OpenSeedWindow, BarUp, ReadLine, DaemonLearns, coreVars, ewwiiVars
  <1> QED
    BY <1>1, <1>2, <1>3, <1>4, <1>5, <1>6, <1>7, <1>8, WatcherSurfaced DEF PanelNext, Core
-----------------------------------------------------------------------------
(* A drag's reports and answers.                                           *)

Target(place) == [kind |-> "target", place |-> place]

\* The messages of a kind are about these places.
AllIn(q, k, places) == \A i \in 1..Len(q) : q[i].kind = k => q[i].place \in places

\* The places of groups there have been.
KnownSpots == {place \in Spot : desk.group[place.group] # None} \cup {None}

\* The pointer is on a panel only while the compositor has its surface; what
\* the plugin and the compositor tell each other names groups there have been.
Places ==
    /\ at # None => surf[at.group] # None
    /\ primary.target \in KnownSpots
    /\ AllIn(up, "target", KnownSpots)
    /\ AllIn(down, "motion", KnownSpots)

\* No drag, and nothing of an earlier one is on its way.
Silent == chrome = None /\ hint = None /\ Free(up, "target") /\ Free(down, "motion")

\* A drag begins from a silent connection, one at a time.
Begun ==
    /\ chrome = None => hint = None
    /\ armed # None => Silent /\ Free(up, "begin")
    /\ ~Free(up, "begin") => Silent /\ armed = None /\ (primary.drag => primary.target = None)
    /\ AtMostOne(up, "begin")

\* The plugin's last answer is on its way, or it is the compositor's hint, if
\* that was not dropped, or its group is gone.
Answer ==
    \/ Latest(up, Target(primary.target))
    \/ /\ Free(up, "target")
       /\ \/ hint \in {None, primary.target}
          \/ primary.target # None /\ desk.group[primary.target.group] = Gone

\* Where the pointer is is on its way to the plugin, or it is what the plugin
\* answered last, or the panel is closing, or nothing was answered yet.
Motion ==
    \/ Latest(down, Reported(at))
    \/ /\ Free(down, "motion")
       /\ \/ primary.target = at
          \/ Busy(up, at.group)
          \/ primary.target = None /\ hint = None /\ Free(up, "target")

Dragging == chrome # None /\ primary.drag => Answer /\ (at # None => Motion)

DragInvariant ==
    PanelsTyped /\ DragTyped /\ Surfaced /\ Places /\ Begun /\ Dragging

LEMMA AllInHolds ==
  ASSUME NEW S, NEW q \in Seq(S), NEW k, NEW P
  PROVE  /\ AllIn(<< >>, k, P)
         /\ AllIn(q, k, P) => \A Q : P \subseteq Q => AllIn(q, k, Q)
         /\ \A m \in S : AllIn(q, k, P) /\ (m.kind = k => m.place \in P) => AllIn(Append(q, m), k, P)
         /\ q # << >> /\ AllIn(q, k, P) =>
              AllIn(Tail(q), k, P) /\ (Head(q).kind = k => Head(q).place \in P)
  <1>1. AllIn(<< >>, k, P)
    <2>1. Len(<< >>) = 0
      OBVIOUS
    <2> QED
      BY <2>1 DEF AllIn
  <1>2. AllIn(q, k, P) => \A Q : P \subseteq Q => AllIn(q, k, Q)
    BY DEF AllIn
  <1>3. ASSUME NEW m \in S, AllIn(q, k, P), m.kind = k => m.place \in P
        PROVE  AllIn(Append(q, m), k, P)
    <2>1. /\ Len(q) \in Nat /\ Len(Append(q, m)) = Len(q) + 1
          /\ \A i \in 1..Len(q) : Append(q, m)[i] = q[i]
          /\ Append(q, m)[Len(q) + 1] = m
      BY AppendIs
    <2>2. \A i \in 1..Len(Append(q, m)) : i = Len(q) + 1 \/ i \in 1..Len(q)
      BY <2>1
    <2> QED
      BY <1>3, <2>1, <2>2 DEF AllIn
  <1>4. ASSUME q # << >>, AllIn(q, k, P)
        PROVE  AllIn(Tail(q), k, P) /\ (Head(q).kind = k => Head(q).place \in P)
    <2>1. /\ Len(q) \in Nat \ {0} /\ Head(q) = q[1] /\ Len(Tail(q)) = Len(q) - 1
          /\ \A i \in 1..Len(Tail(q)) : Tail(q)[i] = q[i + 1]
      BY <1>4, TailIs
    <2>2. 1 \in 1..Len(q) /\ \A i \in 1..Len(Tail(q)) : i + 1 \in 1..Len(q)
      BY <2>1
    <2> QED
      BY <1>4, <2>1, <2>2 DEF AllIn
  <1> QED
    BY <1>1, <1>2, <1>3, <1>4

\* What requests of the panels leave of the drag's requests q.
Keeps(q, r) ==
    /\ \A k \in {"begin", "target"} : Free(q, k) <=> Free(r, k)
    /\ AtMostOne(q, "begin") => AtMostOne(r, "begin")
    /\ \A x : x.kind = "target" /\ Latest(q, x) => Latest(r, x)
    /\ \A P : AllIn(q, "target", P) => AllIn(r, "target", P)

LEMMA KeepsAppend ==
  ASSUME NEW q \in Seq(Requests), NEW m \in Requests, m.kind \in Lively
  PROVE  Keeps(q, Append(q, m))
  <1>1. m.kind \notin {"begin", "target"}
    BY DEF Lively
  <1>2. \A k \in {"begin", "target"} : Free(q, k) <=> Free(Append(q, m), k)
    BY <1>1, AppendHolds
  <1>3. AtMostOne(q, "begin") => AtMostOne(Append(q, m), "begin")
    BY <1>1, AppendHolds
  <1>4. \A x : x.kind = "target" /\ Latest(q, x) => Latest(Append(q, m), x)
    BY <1>1, AppendHolds
  <1>5. \A P : AllIn(q, "target", P) => AllIn(Append(q, m), "target", P)
    BY <1>1, AllInHolds
  <1> QED
    BY <1>2, <1>3, <1>4, <1>5 DEF Keeps

\* What a step of the panels leaves of the drag's requests.
LEMMA UpKeeps ==
  ASSUME PanelsTyped, UpMoves
  PROVE  /\ \A k \in {"begin", "target"} : Free(up, k) <=> Free(up', k)
         /\ AtMostOne(up, "begin") => AtMostOne(up', "begin")
         /\ \A x : x.kind = "target" /\ Latest(up, x) => Latest(up', x)
         /\ \A P : AllIn(up, "target", P) => AllIn(up', "target", P)
  <1> SUFFICES Keeps(up, up')
    BY DEF Keeps
  <1>1. up \in Seq(Requests)
    BY DEF PanelsTyped, CoreTyped
  <1>2. CASE up' = up
    BY <1>2 DEF Keeps
  <1>3. CASE up # << >> /\ up' = Tail(up) /\ Head(up).kind \in Lively
    <2>1. Head(up).kind \notin {"begin", "target"}
      BY <1>3 DEF Lively
    <2>2. \A k \in {"begin", "target"} : Free(up, k) <=> Free(Tail(up), k)
      BY <1>1, <1>3, <2>1, TailHolds
    <2>3. AtMostOne(up, "begin") => AtMostOne(Tail(up), "begin")
      BY <1>1, <1>3, TailHolds
    <2>4. \A x : x.kind = "target" /\ Latest(up, x) => Latest(Tail(up), x)
      BY <1>1, <1>3, <2>1, TailHolds
    <2>5. \A P : AllIn(up, "target", P) => AllIn(Tail(up), "target", P)
      BY <1>1, <1>3, AllInHolds
    <2> QED
      BY <1>3, <2>2, <2>3, <2>4, <2>5 DEF Keeps
  <1>4. ASSUME NEW m \in Requests, m.kind \in Lively, up' = Append(up, m)
        PROVE  Keeps(up, up')
    BY <1>1, <1>4, KeepsAppend
  <1>5. ASSUME NEW m \in Requests, NEW n \in Requests, m.kind \in Lively, n.kind \in Lively,
               up' = Append(Append(up, m), n)
        PROVE  Keeps(up, up')
    <2> DEFINE r == Append(up, m)
    <2>1. r \in Seq(Requests)
      BY <1>1, AppendIs
    <2>2. Keeps(up, r)
      BY <1>1, <1>5, KeepsAppend
    <2> HIDE DEF r
    <2>3. Keeps(r, Append(r, n))
      BY <1>5, <2>1, KeepsAppend
    <2>4. Keeps(up, Append(r, n))
      BY <2>2, <2>3 DEF Keeps
    <2> QED
      BY <1>5, <2>4 DEF r
  <1> QED
    BY <1>2, <1>3, <1>4, <1>5 DEF UpMoves

\* A surface whose panel closes, or is remade, stays so until it goes.
LEMMA BusyKeeps ==
  ASSUME PanelsTyped, Surfaced, PanelNext
  PROVE  \A g \in Groups : surf[g] # None /\ Busy(up, g) => Busy(up', g) \/ surf'[g] = None
  <1> SUFFICES ASSUME NEW g \in Groups, surf[g] # None, Busy(up, g)
               PROVE  Busy(up', g) \/ surf'[g] = None
    OBVIOUS
  <1>t. up \in Seq(Requests) /\ surf \in [Groups -> Surface \cup {None}]
    BY DEF PanelsTyped, CoreTyped
  <1>a. ASSUME NEW m \in Requests, NEW q \in Seq(Requests), Busy(q, g)
        PROVE  Busy(Append(q, m), g)
    BY <1>a, AppendPlaces
  <1>b. ASSUME up # << >>, up' = Tail(up), ~Busy(up', g)
        PROVE  About(Head(up), g) /\ Meets(surf[g], Head(up))
    <2>1. About(Head(up), g)
      BY <1>t, <1>b, TailPlaces
    <2>2. desk.group[g] # Gone
      BY DEF Surfaced, Exists
    <2> QED
      BY <1>b, <2>1, <2>2, HeadIs
  <1>c. ASSUME NEW x \in Groups
        PROVE  ExternalRoleDestroy(x) \in Seq(Requests) /\ Busy(ExternalRoleDestroy(x), g)
    <2>1. CASE panel[x] = None
      BY <1>t, <2>1, ReleaseIs
    <2>2. CASE panel[x] # None
      <3>1. /\ Destroy(x) \in Requests /\ ExternalRoleDestroy(x) = Append(up, Destroy(x))
            /\ ExternalRoleDestroy(x) \in Seq(Requests)
        BY <2>2, ReleaseIs
      <3> QED
        BY <1>a, <1>t, <3>1
    <2> QED
      BY <2>1, <2>2
  <1>1. CASE UNCHANGED up
    BY <1>1
  <1>2. CASE GetGroupSurface
    BY <1>2, <1>b DEF GetGroupSurface, Request, Meets
  <1>3. CASE PlaceSurface
    BY <1>3, <1>b DEF PlaceSurface, Request, About
  <1>4. CASE DestroySurface
    <2>1. /\ up # << >> /\ Head(up).kind = "destroy" /\ up' = Tail(up)
          /\ surf' = IF surf[Head(up).group] = None \/ surf[Head(up).group].since # Head(up).since
                     THEN surf ELSE [surf EXCEPT ![Head(up).group] = None]
      BY <1>4 DEF DestroySurface, Request
    <2>2. SUFFICES ASSUME ~Busy(up', g)
                   PROVE  surf'[g] = None
      OBVIOUS
    <2>3. Head(up).group = g /\ surf[g].since = Head(up).since
      BY <1>b, <2>1, <2>2 DEF About, Meets
    <2> QED
      BY <1>t, <2>1, <2>3
  <1>5. CASE Unanswerable \/ GiveUp \/ GiveUpEarly \/ EwwiiDies
    <2>1. surf' = NoPanels
      BY <1>5 DEF Unanswerable, GiveUp, GiveUpEarly, EwwiiDies, EwwiiEnds, EwwiiFails, EwwiiGone
    <2> QED
      BY <2>1 DEF NoPanels
  <1>6. CASE GroupConfigure
    <2>1. down # << >> /\ Head(down) \in Events /\ Head(down).kind = "configure"
      BY <1>6, HeadsTyped DEF GroupConfigure, Event
    <2> DEFINE x == Head(down).group
               h == SmallerOf(UiHeight, Head(down).height)
               m == [kind |-> "place", group |-> x, height |-> h]
    <2>2. x \in Groups /\ Head(down).height \in Nat
      BY <2>1, EventIs
    <2>3. h \in Nat
      <3>1. UiHeight \in Nat
        BY PanelAssumption
      <3> QED
        BY <2>2, <3>1 DEF SmallerOf
    <2>4. up' = up \/ up' = Append(up, m)
      BY <1>6 DEF GroupConfigure
    <2> HIDE DEF h, x
    <2>5. m \in Requests
      BY <2>2, <2>3 DEF Requests
    <2> QED
      BY <1>a, <1>t, <2>4, <2>5
  <1>7. ASSUME NEW w \in Watchers, NEW x \in Groups, CloseStale(w, x)
        PROVE  Busy(up', g)
    BY <1>7, <1>c DEF CloseStale, ReleasePanel
  <1>8. ASSUME NEW w \in Watchers, NEW x \in Groups, OpenMissing(w, x)
        PROVE  Busy(up', g)
    <2>1. CASE UNCHANGED up
      BY <2>1
    <2>2. CASE PreparePanel(x, <<watch[w].gen, w>>)
      <3> DEFINE role == <<watch[w].gen, w>>
      <3>1. role \in Role
        BY MemoryTyped DEF Role
      <3>2. PreparePanel(x, role)
        BY <2>2
      <3> HIDE DEF role
      <3>3. /\ up' = Append(ExternalRoleDestroy(x), ExternalRoleCreate(x, role))
            /\ ExternalRoleCreate(x, role) \in Requests
        BY <3>1, <3>2, PrepareTyped
      <3> QED
        BY <1>a, <1>c, <3>3
    <2> QED
      BY <1>8, <2>1, <2>2 DEF OpenMissing
  <1>9. ASSUME NEW w \in Watchers, Watcher(w) \/ WatcherFails(w)
        PROVE  Busy(up', g)
    <2>1. CASE \/ RunWatcher(w) \/ Connect(w) \/ Receive(w) \/ SeedRuntime(w) \/ PrintProjection(w)
               \/ WatcherFails(w) \/ SetBackground(w) \/ SetBar(w)
      BY <2>1 DEF RunWatcher, Connect, Receive, SeedRuntime, PrintProjection, WatcherFails,
                  SetBackground, SetBar, SetRoot
    <2> QED
      BY <1>7, <1>8, <1>9, <2>1 DEF Watcher
  <1>10. CASE Desktop
    BY <1>1, <1>10, DesktopTyped DEF Becomes
  <1>11. CASE Script \/ ReadLine \/ DrawPanels \/ DaemonLearns
    BY <1>1, <1>11
       DEF Script, StartEwwii, OpenSeedWindow, BarUp, ReadLine, DrawPanels, DaemonLearns
  <1> QED
    BY <1>2, <1>3, <1>4, <1>5, <1>6, <1>9, <1>10, <1>11 DEF PanelNext, Core

\* And of its events.
LEMMA DownKeeps ==
  ASSUME PanelsTyped, DownMoves
  PROVE  /\ Free(down, "motion") => Free(down', "motion")
         /\ \A x : x.kind = "motion" /\ Latest(down, x) => Latest(down', x)
         /\ \A P : AllIn(down, "motion", P) => AllIn(down', "motion", P)
  <1>1. down \in Seq(Events)
    BY DEF PanelsTyped, CoreTyped
  <1>2. CASE down' = down
    BY <1>2
  <1>3. CASE down # << >> /\ down' = Tail(down) /\ Head(down).kind = "configure"
    <2>1. Head(down).kind # "motion"
      BY <1>3
    <2>2. Free(down, "motion") => Free(down', "motion")
      BY <1>1, <1>3, TailHolds
    <2>3. \A x : x.kind = "motion" /\ Latest(down, x) => Latest(down', x)
      BY <1>1, <1>3, <2>1, TailHolds
    <2>4. \A P : AllIn(down, "motion", P) => AllIn(down', "motion", P)
      BY <1>1, <1>3, AllInHolds
    <2> QED
      BY <2>2, <2>3, <2>4
  <1>4. ASSUME NEW m \in Events, m.kind = "configure", down' = Append(down, m)
        PROVE  /\ Free(down, "motion") => Free(down', "motion")
               /\ \A x : x.kind = "motion" /\ Latest(down, x) => Latest(down', x)
               /\ \A P : AllIn(down, "motion", P) => AllIn(down', "motion", P)
    <2>1. m.kind # "motion"
      BY <1>4
    <2>2. Free(down, "motion") => Free(down', "motion")
      BY <1>1, <1>4, <2>1, AppendHolds
    <2>3. \A x : x.kind = "motion" /\ Latest(down, x) => Latest(down', x)
      BY <1>1, <1>4, <2>1, AppendHolds
    <2>4. \A P : AllIn(down, "motion", P) => AllIn(down', "motion", P)
      BY <1>1, <1>4, <2>1, AllInHolds
    <2> QED
      BY <2>2, <2>3, <2>4
  <1> QED
    BY <1>2, <1>3, <1>4 DEF DownMoves
-----------------------------------------------------------------------------
(* Steps of the panels, and what the drag makes of them.                   *)

LEMMA Pressless ==
  NoPress.target = None /\ NoPress.on = None /\ NoPress.drag = FALSE
  BY DEF NoPress

LEMMA SpotsKnown ==
  ASSUME Aging
  PROVE  KnownSpots \subseteq KnownSpots'
  <1>1. \A place \in Spot : place.group \in Groups
    BY DEF Spot
  <1>2. \A g \in Groups : desk.group[g] # None => desk'.group[g] # None
    BY DEF Aging
  <1> QED
    BY <1>1, <1>2 DEF KnownSpots

LEMMA FollowsIs ==
  ASSUME DragFollows
  PROVE  /\ at' \in {at, None} /\ (at' # None => surf'[at'.group] # None)
         /\ (chrome' = chrome /\ hint' = hint) \/ (chrome' = None /\ hint' = None)
         /\ armed' \in {armed, None}
         /\ primary' \in {primary, NoPress}
         /\ ewwii' = "down" => /\ chrome' = None /\ hint' = None
                               /\ armed' = None /\ primary' = NoPress
  <1>1. at' \in {at, None} /\ (at' # None => surf'[at'.group] # None)
    BY DEF DragFollows
  <1>2. CASE ewwii' = "down"
    BY <1>1, <1>2 DEF DragFollows
  <1>3. CASE ewwii' # "down"
    BY <1>1, <1>3 DEF DragFollows, RoleDestroyed
  <1> QED
    BY <1>2, <1>3

LEMMA FollowsTyped ==
  ASSUME DragTyped, DragFollows
  PROVE  DragTyped'
  <1>1. NoPress \in [on : Groups \cup {None}, drag : BOOLEAN, target : Spot \cup {None}]
    BY DEF NoPress
  <1>2. /\ at' \in {at, None} /\ chrome' \in {chrome, None} /\ hint' \in {hint, None}
        /\ armed' \in {armed, None} /\ primary' \in {primary, NoPress}
    BY FollowsIs
  <1> QED
    BY <1>1, <1>2 DEF DragTyped

\* The connection ends, and the drag with it.
LEMMA FollowsGone ==
  ASSUME DragTyped, DragFollows, Ended
  PROVE  Places' /\ Begun' /\ Dragging'
  <1>1. /\ chrome' = None /\ hint' = None /\ armed' = None /\ primary' = NoPress
        /\ up' = << >> /\ down' = << >> /\ surf' = NoPanels
    BY FollowsIs DEF Ended, EwwiiGone
  <1>2. at' = None
    <2>1. at' # None => at' \in Spot /\ surf'[at'.group] # None
      BY FollowsIs DEF DragTyped
    <2>2. \A place \in Spot : NoPanels[place.group] = None
      BY DEF Spot, NoPanels
    <2> QED
      BY <1>1, <2>1, <2>2
  <1>3. primary'.target = None
    BY <1>1, Pressless
  <1>4. Places'
    <2>1. << >> \in Seq({})
      BY EmptySeq
    <2>2. \A k, P : AllIn(<< >>, k, P)
      BY <2>1, AllInHolds
    <2>3. None \in KnownSpots'
      BY DEF KnownSpots
    <2> QED
      BY <1>1, <1>2, <1>3, <2>2, <2>3 DEF Places
  <1>5. Begun'
    BY <1>1, EmptyIs DEF Begun
  <1> QED
    BY <1>1, <1>4, <1>5 DEF Dragging

LEMMA FollowsPlaces ==
  ASSUME PanelsTyped, Places, DragFollows, Aging, UpMoves, DownMoves
  PROVE  Places'
  <1>1. up' \in Seq(Requests) /\ down' \in Seq(Events)
    BY MoveTyped
  <1>2. KnownSpots \subseteq KnownSpots' /\ None \in KnownSpots
    BY SpotsKnown DEF KnownSpots
  <1>3. AllIn(up', "target", KnownSpots) /\ AllIn(down', "motion", KnownSpots)
    BY UpKeeps, DownKeeps DEF Places
  <1>4. AllIn(up', "target", KnownSpots') /\ AllIn(down', "motion", KnownSpots')
    BY <1>1, <1>2, <1>3, AllInHolds
  <1>5. primary'.target \in KnownSpots
    BY <1>2, FollowsIs, Pressless DEF Places
  <1>6. at' # None => surf'[at'.group] # None
    BY FollowsIs
  <1> QED
    BY <1>2, <1>4, <1>5, <1>6 DEF Places

LEMMA FollowsBegun ==
  ASSUME PanelsTyped, Begun, DragFollows, UpMoves, DownMoves
  PROVE  Begun'
  <1>1. /\ Free(up, "begin") <=> Free(up', "begin")
        /\ Free(up, "target") => Free(up', "target")
        /\ Free(down, "motion") => Free(down', "motion")
        /\ AtMostOne(up', "begin")
    BY UpKeeps, DownKeeps DEF Begun
  <1>2. /\ (chrome' = chrome /\ hint' = hint) \/ (chrome' = None /\ hint' = None)
        /\ armed' \in {armed, None} /\ primary' \in {primary, NoPress}
    BY FollowsIs
  <1>3. Silent => Silent'
    BY <1>1, <1>2 DEF Silent
  <1>4. chrome' = None => hint' = None
    BY <1>2 DEF Begun
  <1>5. armed' # None => Silent' /\ Free(up', "begin")
    BY <1>1, <1>2, <1>3 DEF Begun
  <1>6. ~Free(up', "begin") =>
           Silent' /\ armed' = None /\ (primary'.drag => primary'.target = None)
    BY <1>1, <1>2, <1>3, Pressless DEF Begun
  <1> QED
    BY <1>1, <1>4, <1>5, <1>6 DEF Begun

LEMMA FollowsDragging ==
  ASSUME PanelsTyped, DragTyped, Places, Dragging, DragFollows, Aging, UpMoves, DownMoves,
         \A g \in Groups : surf[g] # None /\ Busy(up, g) => Busy(up', g) \/ surf'[g] = None
  PROVE  Dragging'
  <1> SUFFICES ASSUME chrome' # None, primary'.drag
               PROVE  Answer' /\ (at' # None => Motion')
    BY DEF Dragging
  <1>1. chrome' = chrome /\ hint' = hint /\ primary' = primary
    BY FollowsIs, Pressless
  <1>2. Answer /\ (at # None => Motion)
    BY <1>1 DEF Dragging
  <1>3. Target(primary.target).kind = "target" /\ Reported(at).kind = "motion"
    BY DEF Target, Reported
  <1>4. /\ Latest(up, Target(primary.target)) => Latest(up', Target(primary.target))
        /\ Free(up, "target") => Free(up', "target")
    BY <1>3, UpKeeps
  <1>5. ASSUME primary.target # None, desk.group[primary.target.group] = Gone
        PROVE  desk'.group[primary.target.group] = Gone
    <2>1. primary.target.group \in Groups
      BY <1>5 DEF DragTyped, Spot
    <2> QED
      BY <1>5, <2>1 DEF Aging
  <1>6. Answer'
    BY <1>1, <1>2, <1>4, <1>5 DEF Answer
  <1>7. ASSUME at' # None
        PROVE  Motion'
    <2>1. at' = at /\ surf'[at.group] # None
      BY <1>7, FollowsIs
    <2>2. /\ Latest(down, Reported(at)) => Latest(down', Reported(at))
          /\ Free(down, "motion") => Free(down', "motion")
      BY <1>3, DownKeeps
    <2>3. Busy(up, at.group) => Busy(up', at.group)
      <3>1. at.group \in Groups /\ surf[at.group] # None
        BY <1>7, <2>1 DEF DragTyped, Spot, Places
      <3> QED
        BY <2>1, <3>1
    <2>4. Motion
      BY <1>2, <1>7, <2>1
    <2> QED
      BY <1>1, <1>4, <2>1, <2>2, <2>3, <2>4 DEF Motion
  <1> QED
    BY <1>6, <1>7

LEMMA PanelDragStep ==
  ASSUME DragInvariant, PanelNext, DragFollows
  PROVE  DragInvariant'
  <1>1. PanelsTyped' /\ Shape
    BY PanelStepTyped DEF DragInvariant
  <1>2. Surfaced'
    BY PanelSurfaced DEF DragInvariant
  <1>3. DragTyped'
    BY FollowsTyped DEF DragInvariant
  <1>4. CASE Ended
    BY <1>1, <1>2, <1>3, <1>4, FollowsGone DEF DragInvariant
  <1>5. CASE Aging /\ UpMoves /\ DownMoves
    <2>1. Places'
      BY <1>5, FollowsPlaces DEF DragInvariant
    <2>2. Begun'
      BY <1>5, FollowsBegun DEF DragInvariant
    <2>3. Dragging'
      BY <1>5, FollowsDragging, BusyKeeps DEF DragInvariant
    <2> QED
      BY <1>1, <1>2, <1>3, <2>1, <2>2, <2>3 DEF DragInvariant
  <1> QED
    BY <1>1, <1>4, <1>5 DEF Shape
-----------------------------------------------------------------------------
(* Steps of the drag.                                                      *)

restVars ==
    <<desk, gen, surf, snap, watch, live, meddled, lines, ewwii, open, panel, pend, drawn>>

\* A step of the drag only sends and takes messages of its own.
LEMMA DragIdle ==
  ASSUME PanelsTyped, Surfaced, UNCHANGED restVars,
         \/ up' = up
         \/ up # << >> /\ up' = Tail(up) /\ Head(up).kind \notin {"create", "destroy"}
         \/ \E m \in Requests : up' = Append(up, m) /\ m.kind \notin {"create", "destroy"},
         \/ down' = down
         \/ down # << >> /\ down' = Tail(down)
         \/ \E m \in Events : down' = Append(down, m)
  PROVE  PanelsTyped' /\ Surfaced'
  <1>1. up \in Seq(Requests) /\ down \in Seq(Events)
    BY DEF PanelsTyped, CoreTyped
  <1>2. up' \in Seq(Requests)
    <2>1. up # << >> => Tail(up) \in Seq(Requests)
      BY <1>1, TailIs
    <2>2. \A m \in Requests : Append(up, m) \in Seq(Requests)
      BY <1>1, AppendIs
    <2> QED
      BY <1>1, <2>1, <2>2
  <1>3. down' \in Seq(Events)
    <2>1. down # << >> => Tail(down) \in Seq(Events)
      BY <1>1, TailIs
    <2>2. \A m \in Events : Append(down, m) \in Seq(Events)
      BY <1>1, AppendIs
    <2> QED
      BY <1>1, <2>1, <2>2
  <1>4. PanelsTyped'
    BY <1>2, <1>3 DEF PanelsTyped, CoreTyped, EwwiiTyped, restVars
  <1>5. UNCHANGED <<desk, surf, panel>>
    BY DEF restVars
  <1>6. \A g \in Groups : surf'[g] # None => Exists(desk', g)
    BY <1>5 DEF Surfaced
  <1>7. Surfaced'
    BY <1>5, <1>6, SameIs, SurfacedIdle
  <1> QED
    BY <1>4, <1>7

LEMMA SpotsIdle ==
  ASSUME desk' = desk
  PROVE  KnownSpots' = KnownSpots
  BY DEF KnownSpots

LEMMA PlaceIs ==
  ASSUME PanelsTyped, Surfaced, NEW place \in Place
  PROVE  /\ place \in Spot /\ place # None /\ place.group \in Groups
         /\ surf[place.group] # None /\ place \in KnownSpots
  <1>1. place \in Spot /\ place.group \in Groups /\ surf[place.group] # None
    BY DEF Place, Spot, OnScreen
  <1>2. desk.group[place.group] # None
    BY <1>1 DEF Surfaced, Exists
  <1> QED
    BY <1>1, <1>2, DragAssumption DEF KnownSpots

LEMMA MovePointerStep ==
  ASSUME DragInvariant, NEW place \in Place \cup {None}, MovePointer(place)
  PROVE  DragInvariant'
  <1> USE DEF DragInvariant
  <1>t. up \in Seq(Requests) /\ down \in Seq(Events)
    BY DEF PanelsTyped, CoreTyped
  <1>1. /\ UNCHANGED restVars /\ UNCHANGED <<up, button, chrome, armed, primary>> /\ at' = place
        /\ \/ chrome = None /\ UNCHANGED <<down, hint>>
           \/ chrome # None /\ down' = Append(down, Reported(place)) /\ hint' \in {hint, None}
    BY DEF MovePointer, HintAt, restVars, coreVars, watchVars, ewwiiVars, pluginVars
  <1>2. place \in Spot \cup {None} /\ (place # None => surf[place.group] # None) /\ place \in KnownSpots
    BY PlaceIs DEF KnownSpots
  <1>3. Reported(place) \in Events /\ Reported(place).kind = "motion" /\ Reported(place).place = place
    BY <1>2 DEF Reported, Events
  <1>4. PanelsTyped' /\ Surfaced'
    BY <1>1, <1>3, DragIdle
  <1>5. DragTyped'
    BY <1>1, <1>2 DEF DragTyped
  <1>6. KnownSpots' = KnownSpots /\ surf' = surf
    BY <1>1, SpotsIdle DEF restVars
  <1>7. AllIn(down', "motion", KnownSpots)
    <2>1. AllIn(down, "motion", KnownSpots)
      BY DEF Places
    <2>2. AllIn(Append(down, Reported(place)), "motion", KnownSpots)
      BY <1>t, <1>2, <1>3, <2>1, AllInHolds
    <2> QED
      BY <1>1, <2>1, <2>2
  <1>8. Places'
    BY <1>1, <1>2, <1>6, <1>7 DEF Places
  <1>9. CASE chrome = None /\ UNCHANGED <<down, hint>>
    <2>1. Begun'
      BY <1>1, <1>9 DEF Begun, Silent
    <2> QED
      BY <1>1, <1>4, <1>5, <1>8, <1>9, <2>1 DEF Dragging
  <1>10. CASE chrome # None /\ down' = Append(down, Reported(place)) /\ hint' \in {hint, None}
    <2>1. armed = None /\ Free(up, "begin") /\ AtMostOne(up, "begin")
      BY <1>10 DEF Begun, Silent
    <2>2. Begun'
      BY <1>1, <1>10, <2>1 DEF Begun
    <2>3. Answer => Answer'
      BY <1>1, <1>10 DEF Answer, restVars
    <2>4. Motion'
      BY <1>t, <1>1, <1>3, <1>10, AppendHolds DEF Motion
    <2>5. Dragging'
      BY <1>1, <2>3, <2>4 DEF Dragging
    <2> QED
      BY <1>4, <1>5, <1>8, <2>2, <2>5
  <1> QED
    BY <1>1, <1>9, <1>10

LEMMA PressTabStep ==
  ASSUME DragInvariant, NEW place \in Place, PressTab(place)
  PROVE  DragInvariant'
  <1> USE DEF DragInvariant
  <1> DEFINE m == [kind |-> "press", group |-> place.group]
  <1>1. /\ UNCHANGED restVars /\ UNCHANGED <<up, chrome, hint, primary>> /\ at' = place
        /\ chrome = None /\ up = << >> /\ down = << >> /\ down' = Append(down, m)
        /\ armed' = place.group
    BY DEF PressTab, restVars, coreVars, watchVars, ewwiiVars, pluginVars
  <1>2. place \in Spot /\ place.group \in Groups /\ surf[place.group] # None
    BY PlaceIs
  <1>3. m \in Events /\ m.kind = "press"
    BY <1>2 DEF Events
  <1> HIDE DEF m
  <1>t. down \in Seq(Events)
    BY DEF PanelsTyped, CoreTyped
  <1>4. PanelsTyped' /\ Surfaced'
    BY <1>1, <1>3, DragIdle
  <1>5. DragTyped'
    BY <1>1, <1>2 DEF DragTyped
  <1>6. KnownSpots' = KnownSpots /\ surf' = surf
    BY <1>1, SpotsIdle DEF restVars
  <1>7. AllIn(down', "motion", KnownSpots) /\ Free(down', "motion")
    <2>1. Free(down, "motion")
      BY <1>1, EmptyIs
    <2> QED
      BY <1>t, <1>1, <1>3, <2>1, AllInHolds, AppendHolds DEF Places
  <1>8. Places'
    BY <1>1, <1>2, <1>6, <1>7 DEF Places
  <1>9. hint = None /\ Free(up, "target") /\ Free(up, "begin")
    BY <1>1, EmptyIs DEF Begun
  <1>10. Begun'
    BY <1>1, <1>7, <1>9 DEF Begun, Silent
  <1> QED
    BY <1>1, <1>4, <1>5, <1>8, <1>10 DEF Dragging

LEMMA ReleaseButtonStep ==
  ASSUME DragInvariant, ReleaseButton
  PROVE  DragInvariant'
  <1> USE DEF DragInvariant
  <1> DEFINE m == [kind |-> "release"]
  <1>1. /\ UNCHANGED restVars /\ UNCHANGED <<up, primary>> /\ at' = None /\ armed' = None
        /\ chrome' = None /\ (chrome # None => hint' = None) /\ (chrome = None => hint' = hint)
        /\ down' = down \/ down' = Append(down, m)
    BY DEF ReleaseButton, restVars, coreVars, watchVars, ewwiiVars, pluginVars
  <1>2. m \in Events /\ m.kind = "release"
    BY DEF Events
  <1> HIDE DEF m
  <1>t. down \in Seq(Events)
    BY DEF PanelsTyped, CoreTyped
  <1>3. PanelsTyped' /\ Surfaced'
    BY <1>1, <1>2, DragIdle
  <1>4. DragTyped' /\ hint' = None
    BY <1>1 DEF DragTyped, Begun
  <1>5. KnownSpots' = KnownSpots
    BY <1>1, SpotsIdle DEF restVars
  <1>6. AllIn(down', "motion", KnownSpots) /\ (Free(down, "motion") => Free(down', "motion"))
    <2>1. AllIn(down, "motion", KnownSpots) /\ m.kind # "motion"
      BY <1>2 DEF Places
    <2>2. AllIn(Append(down, m), "motion", KnownSpots)
      BY <1>t, <1>2, <2>1, AllInHolds
    <2>3. Free(down, "motion") => Free(Append(down, m), "motion")
      BY <1>t, <1>2, <2>1, AppendHolds
    <2> QED
      BY <1>1, <2>1, <2>2, <2>3
  <1>7. Places'
    BY <1>1, <1>5, <1>6 DEF Places
  <1>8. Begun'
    BY <1>1, <1>4, <1>6 DEF Begun, Silent
  <1> QED
    BY <1>1, <1>3, <1>4, <1>7, <1>8 DEF Dragging

LEMMA BeginShellDragStep ==
  ASSUME DragInvariant, BeginShellDrag
  PROVE  DragInvariant'
  <1> USE DEF DragInvariant
  <1>t. up \in Seq(Requests)
    BY DEF PanelsTyped, CoreTyped
  <1>1. /\ UNCHANGED restVars /\ UNCHANGED <<down, at, hint, armed, primary>>
        /\ up # << >> /\ Head(up).kind = "begin" /\ up' = Tail(up)
        /\ chrome' \in {chrome, Head(up).group}
    BY DEF BeginShellDrag, Request, restVars, coreVars, watchVars, ewwiiVars, pluginVars
  <1>2. Head(up) \in Requests /\ Head(up).group \in Groups
    BY <1>1, HeadsTyped, RequestIs
  <1>3. PanelsTyped' /\ Surfaced'
    BY <1>1, DragIdle
  <1>4. DragTyped'
    BY <1>1, <1>2 DEF DragTyped
  <1>5. ~Free(up, "begin")
    BY <1>t, <1>1, TailHolds
  <1>6. /\ chrome = None /\ hint = None /\ Free(up, "target") /\ Free(down, "motion")
        /\ armed = None /\ (primary.drag => primary.target = None) /\ AtMostOne(up, "begin")
    BY <1>5 DEF Begun, Silent
  <1>7. Free(up', "target") /\ Free(up', "begin") /\ AtMostOne(up', "begin")
    BY <1>t, <1>1, <1>6, TailHolds
  <1>8. KnownSpots' = KnownSpots /\ surf' = surf
    BY <1>1, SpotsIdle DEF restVars
  <1>9. AllIn(up', "target", KnownSpots)
    BY <1>t, <1>1, AllInHolds DEF Places
  <1>10. Places'
    BY <1>1, <1>8, <1>9 DEF Places
  <1>11. Begun'
    BY <1>1, <1>6, <1>7 DEF Begun
  <1>12. Dragging'
    BY <1>1, <1>6, <1>7 DEF Dragging, Answer, Motion
  <1> QED
    BY <1>3, <1>4, <1>10, <1>11, <1>12

LEMMA SetShellDragTargetStep ==
  ASSUME DragInvariant, SetShellDragTarget
  PROVE  DragInvariant'
  <1> USE DEF DragInvariant
  <1>t. up \in Seq(Requests)
    BY DEF PanelsTyped, CoreTyped
  <1> DEFINE p == Head(up).place
  <1>1. /\ UNCHANGED restVars /\ UNCHANGED <<down, at, chrome, armed, primary>>
        /\ up # << >> /\ Head(up).kind = "target" /\ up' = Tail(up)
        /\ hint' = IF chrome # None /\ Exists(desk, p.group) THEN p ELSE hint
    BY DEF SetShellDragTarget, Request, restVars, coreVars, watchVars, ewwiiVars, pluginVars
  <1>2. Head(up) \in Requests
    BY <1>1, HeadsTyped
  <1>3. p \in Spot /\ Head(up) = Target(p)
    BY <1>1, <1>2, RequestIs DEF Target
  <1>4. p \in KnownSpots /\ AllIn(up', "target", KnownSpots)
    BY <1>t, <1>1, AllInHolds DEF Places
  <1> HIDE DEF p
  <1>5. PanelsTyped' /\ Surfaced'
    BY <1>1, DragIdle
  <1>6. DragTyped'
    BY <1>1, <1>3 DEF DragTyped
  <1>7. KnownSpots' = KnownSpots /\ surf' = surf
    BY <1>1, SpotsIdle DEF restVars
  <1>8. Places'
    BY <1>1, <1>4, <1>7 DEF Places
  <1>9. ~Free(up, "target")
    BY <1>t, <1>1, TailHolds
  <1>10. armed = None /\ Free(up, "begin") /\ AtMostOne(up, "begin")
    BY <1>9 DEF Begun, Silent
  <1>11. Free(up', "begin") /\ AtMostOne(up', "begin")
    BY <1>t, <1>1, <1>10, TailHolds
  <1>12. Begun'
    BY <1>1, <1>10, <1>11 DEF Begun
  <1>13. ASSUME chrome # None, Answer
         PROVE  Answer'
    <2>1. Latest(up, Target(primary.target)) /\ Target(primary.target).kind = "target"
      BY <1>9, <1>13 DEF Answer, Target
    <2>2. \/ Latest(Tail(up), Target(primary.target))
          \/ Head(up) = Target(primary.target) /\ Free(Tail(up), "target")
      BY <1>t, <1>1, <2>1, TailHolds
    <2>3. CASE Latest(Tail(up), Target(primary.target))
      BY <1>1, <2>3 DEF Answer
    <2>4. CASE Head(up) = Target(primary.target) /\ Free(Tail(up), "target")
      <3>1. p = primary.target
        BY <2>4 DEF p, Target
      <3>2. CASE Exists(desk, p.group)
        BY <1>1, <1>13, <2>4, <3>1, <3>2 DEF Answer
      <3>3. CASE ~Exists(desk, p.group)
        <4>1. p # None /\ desk.group[p.group] # None
          BY <1>3, <1>4, DragAssumption DEF KnownSpots
        <4>2. desk.group[p.group] = Gone
          BY <3>3, <4>1 DEF Exists
        <4> QED
          BY <1>1, <2>4, <3>1, <4>1, <4>2 DEF Answer, restVars
      <3> QED
        BY <3>2, <3>3
    <2> QED
      BY <2>2, <2>3, <2>4
  <1>14. ASSUME Motion
         PROVE  Motion'
    <2>1. ~About(Head(up), at.group)
      BY <1>1 DEF About
    <2>2. Busy(up, at.group) => Busy(Tail(up), at.group)
      BY <1>t, <1>1, <2>1, TailPlaces
    <2> QED
      BY <1>1, <1>9, <1>14, <2>2 DEF Motion
  <1>15. Dragging'
    BY <1>1, <1>13, <1>14 DEF Dragging
  <1> QED
    BY <1>5, <1>6, <1>8, <1>12, <1>15

LEMMA PointerButtonStep ==
  ASSUME DragInvariant, PointerButton
  PROVE  DragInvariant'
  <1> USE DEF DragInvariant
  <1>t. down \in Seq(Events)
    BY DEF PanelsTyped, CoreTyped
  <1>1. /\ UNCHANGED restVars /\ UNCHANGED <<up, at, chrome, hint, armed>>
        /\ down # << >> /\ down' = Tail(down)
        /\ \/ primary' = NoPress
           \/ /\ Head(down).kind = "press"
              /\ primary' = [NoPress EXCEPT !.on = Head(down).group]
    BY DEF PointerButton, Event, restVars, coreVars, watchVars, ewwiiVars, pluginVars
  <1>2. Head(down) \in Events
    BY <1>1, HeadsTyped
  <1>3. Head(down).kind = "press" => Head(down).group \in Groups
    BY <1>2, EventIs
  <1>4. PanelsTyped' /\ Surfaced'
    BY <1>1, DragIdle
  <1>5. /\ primary' \in [on : Groups \cup {None}, drag : BOOLEAN, target : Spot \cup {None}]
        /\ primary'.target = None /\ primary'.drag = FALSE
    <2>1. CASE primary' = NoPress
      BY <2>1 DEF NoPress
    <2>2. CASE Head(down).kind = "press" /\ primary' = [NoPress EXCEPT !.on = Head(down).group]
      <3> DEFINE g == Head(down).group
      <3>1. g \in Groups /\ primary' = [NoPress EXCEPT !.on = g]
        <4>1. g \in Groups
          BY <1>3, <2>2
        <4> QED
          BY <2>2, <4>1
      <3> HIDE DEF g
      <3>2. primary' = [on |-> g, drag |-> FALSE, target |-> None]
        BY <3>1 DEF NoPress
      <3>3. [on |-> g, drag |-> FALSE, target |-> None]
              \in [on : Groups \cup {None}, drag : BOOLEAN, target : Spot \cup {None}]
        BY <3>1
      <3>4. primary'.target = None /\ primary'.drag = FALSE
        BY <3>2
      <3> QED
        BY <3>2, <3>3, <3>4
    <2> QED
      BY <1>1, <2>1, <2>2
  <1>6. DragTyped'
    BY <1>1, <1>5 DEF DragTyped
  <1>7. KnownSpots' = KnownSpots /\ surf' = surf /\ None \in KnownSpots
    BY <1>1, SpotsIdle DEF restVars, KnownSpots
  <1>8. AllIn(down', "motion", KnownSpots) /\ (Free(down, "motion") => Free(down', "motion"))
    BY <1>t, <1>1, AllInHolds, TailHolds DEF Places
  <1>9. Places'
    BY <1>1, <1>5, <1>7, <1>8 DEF Places
  <1>10. Begun'
    BY <1>1, <1>5, <1>8 DEF Begun, Silent
  <1>11. Dragging'
    BY <1>5 DEF Dragging
  <1> QED
    BY <1>4, <1>6, <1>9, <1>10, <1>11

LEMMA BeginCoreDragStep ==
  ASSUME DragInvariant, BeginCoreDrag
  PROVE  DragInvariant'
  <1> USE DEF DragInvariant
  <1>t. up \in Seq(Requests)
    BY DEF PanelsTyped, CoreTyped
  <1> DEFINE m == [kind |-> "begin", group |-> armed]
  <1>1. /\ UNCHANGED restVars /\ UNCHANGED <<down, at, chrome, hint>>
        /\ armed # None /\ armed' = None /\ up' = Append(up, m)
        /\ primary' = [primary EXCEPT !.drag = TRUE, !.target = None]
    BY DEF BeginCoreDrag, restVars, coreVars, watchVars, ewwiiVars, pluginVars
  <1>2. m \in Requests /\ m.kind = "begin"
    <2>1. armed \in Groups
      BY <1>1 DEF DragTyped
    <2> QED
      BY <2>1 DEF Requests
  <1> HIDE DEF m
  <1>3. PanelsTyped' /\ Surfaced'
    BY <1>1, <1>2, DragIdle
  <1>4. /\ primary' \in [on : Groups \cup {None}, drag : BOOLEAN, target : Spot \cup {None}]
        /\ primary'.target = None
    BY <1>1 DEF DragTyped
  <1>5. DragTyped'
    BY <1>1, <1>4 DEF DragTyped
  <1>6. Silent /\ Free(up, "begin") /\ AtMostOne(up, "begin")
    BY <1>1 DEF Begun
  <1>7. KnownSpots' = KnownSpots /\ surf' = surf /\ None \in KnownSpots
    BY <1>1, SpotsIdle DEF restVars, KnownSpots
  <1>8. AllIn(up', "target", KnownSpots)
    BY <1>t, <1>1, <1>2, AllInHolds DEF Places
  <1>9. Free(up', "target") /\ AtMostOne(up', "begin")
    BY <1>t, <1>1, <1>2, <1>6, AppendHolds DEF Silent
  <1>10. Places'
    BY <1>1, <1>4, <1>7, <1>8 DEF Places
  <1>11. chrome = None /\ hint = None
    BY <1>6 DEF Silent
  <1>12. Begun'
    BY <1>1, <1>4, <1>6, <1>9, <1>11 DEF Begun, Silent
  <1>13. Dragging'
    BY <1>1, <1>11 DEF Dragging
  <1> QED
    BY <1>3, <1>5, <1>10, <1>12, <1>13

LEMMA DragSurfaceMotionStep ==
  ASSUME DragInvariant, DragSurfaceMotion
  PROVE  DragInvariant'
  <1> USE DEF DragInvariant
  <1>t. up \in Seq(Requests) /\ down \in Seq(Events)
    BY DEF PanelsTyped, CoreTyped
  <1> DEFINE place == Head(down).place
  <1>1. /\ UNCHANGED restVars /\ UNCHANGED <<at, chrome, hint, armed>>
        /\ down # << >> /\ Head(down).kind = "motion" /\ down' = Tail(down)
        /\ \/ /\ UNCHANGED <<primary, up>>
              /\ \/ ~primary.drag \/ place = None
                 \/ panel[place.group] = None
                 \/ primary.target = place
           \/ place # None /\ SetDragTarget(place)
    BY DEF DragSurfaceMotion, SendDragHit, DragHit, Answered, Event, restVars, coreVars, watchVars,
           ewwiiVars, pluginVars
  <1>2. Head(down) \in Events
    BY <1>1, HeadsTyped
  <1>3. place \in Spot \cup {None} /\ Head(down) = Reported(place)
    BY <1>1, <1>2, EventIs
  <1>4. place \in KnownSpots /\ AllIn(down', "motion", KnownSpots)
    BY <1>t, <1>1, AllInHolds DEF Places
  <1> HIDE DEF place
  <1>5. KnownSpots' = KnownSpots /\ surf' = surf
    BY <1>1, SpotsIdle DEF restVars
  <1>6. ~Free(down, "motion")
    BY <1>t, <1>1, TailHolds
  <1>7. armed = None /\ Free(up, "begin") /\ AtMostOne(up, "begin")
    BY <1>6 DEF Begun, Silent
  <1>8. ASSUME Motion, at # None
        PROVE  \/ Latest(down', Reported(at))
               \/ place = at /\ Free(down', "motion")
    <2>1. Latest(down, Reported(at)) /\ Reported(at).kind = "motion"
      BY <1>6, <1>8 DEF Motion, Reported
    <2>2. \/ Latest(Tail(down), Reported(at))
          \/ Head(down) = Reported(at) /\ Free(Tail(down), "motion")
      BY <1>t, <1>1, <2>1, TailHolds
    <2>3. Reported(place) = Reported(at) => place = at
      BY DEF Reported
    <2> QED
      BY <1>1, <1>3, <2>2, <2>3
  <1>9. CASE /\ UNCHANGED <<primary, up>>
             /\ \/ ~primary.drag \/ place = None
                \/ panel[place.group] = None
                \/ primary.target = place
    <2>1. PanelsTyped' /\ Surfaced'
      BY <1>1, <1>9, DragIdle
    <2>2. DragTyped'
      BY <1>1, <1>9 DEF DragTyped
    <2>3. Places'
      BY <1>1, <1>4, <1>5, <1>9 DEF Places
    <2>4. Begun'
      BY <1>1, <1>7, <1>9 DEF Begun
    <2>5. Answer => Answer'
      BY <1>1, <1>9 DEF Answer, restVars
    <2>6. ASSUME primary.drag, Motion, at # None
          PROVE  Motion'
      <3>1. CASE Latest(down', Reported(at))
        BY <1>1, <3>1 DEF Motion
      <3>2. CASE place = at /\ Free(down', "motion")
        <4>1. panel[at.group] = None => Busy(up, at.group)
          <5>1. at.group \in Groups /\ surf[at.group] # None
            BY <2>6 DEF DragTyped, Spot, Places
          <5>2. Chained(surf[at.group], up, panel[at.group], at.group)
            BY <5>1 DEF Surfaced, Exists
          <5> QED
            BY <5>1, <5>2 DEF Chained, Same
        <4> QED
          BY <1>1, <1>9, <2>6, <3>2, <4>1 DEF Motion
      <3> QED
        BY <1>8, <2>6, <3>1, <3>2
    <2>7. Dragging'
      BY <1>1, <1>9, <2>5, <2>6 DEF Dragging
    <2> QED
      BY <2>1, <2>2, <2>3, <2>4, <2>7
  <1>10. CASE place # None /\ SetDragTarget(place)
    <2>1. /\ primary' = [primary EXCEPT !.target = place]
          /\ up' = Append(up, Target(place))
      BY <1>10 DEF SetDragTarget, Target
    <2>2. place \in Spot
      BY <1>3, <1>10
    <2>3. /\ Target(place) \in Requests /\ Target(place).kind = "target"
          /\ Target(place).place = place
      BY <2>2 DEF Target, Requests
    <2>4. PanelsTyped' /\ Surfaced'
      BY <1>1, <2>1, <2>3, DragIdle
    <2>5. /\ primary' \in [on : Groups \cup {None}, drag : BOOLEAN, target : Spot \cup {None}]
          /\ primary'.target = place /\ primary'.drag = primary.drag
      BY <2>1, <2>2 DEF DragTyped
    <2>6. DragTyped'
      BY <1>1, <2>5 DEF DragTyped
    <2>7. AllIn(up', "target", KnownSpots)
      BY <1>t, <1>4, <2>1, <2>3, AllInHolds DEF Places
    <2>8. Places'
      BY <1>1, <1>4, <1>5, <2>5, <2>7 DEF Places
    <2>9. Free(up', "begin") /\ AtMostOne(up', "begin")
      BY <1>t, <1>7, <2>1, <2>3, AppendHolds
    <2>10. Begun'
      BY <1>1, <1>7, <2>9 DEF Begun
    <2>11. Answer'
      <3>1. Latest(up', Target(place))
        BY <1>t, <2>1, <2>3, AppendHolds
      <3> QED
        BY <2>5, <3>1 DEF Answer
    <2>12. ASSUME Motion, at # None
           PROVE  Motion'
      BY <1>1, <1>8, <2>5, <2>12 DEF Motion
    <2>13. Dragging'
      BY <1>1, <2>5, <2>11, <2>12 DEF Dragging
    <2> QED
      BY <2>4, <2>6, <2>8, <2>10, <2>13
  <1> QED
    BY <1>1, <1>9, <1>10
-----------------------------------------------------------------------------
(* The invariant, and what it says of the panels and of a drag.            *)

LEMMA PanelsStart ==
  ASSUME DragInit
  PROVE  PanelsTyped /\ Surfaced
  <1> DEFINE g == CHOOSE x \in Groups : TRUE
             h == CHOOSE x \in Heights : TRUE
             n == [workspace |-> 1, height |-> h, tabs |-> 1, full |-> FALSE]
             f == [x \in Groups |-> IF x = g THEN n ELSE None]
  <1>1. desk = [shown |-> 1, group |-> f]
    BY DEF DragInit, PanelInit
  <1>2. h \in Heights
    BY PanelAssumption
  <1> HIDE DEF g, h
  <1>3. n \in Group
    BY <1>2 DEF Group, Workspaces
  <1> HIDE DEF n
  <1>4. desk \in Desks
    <2>1. f \in [Groups -> Group \cup {None, Gone}]
      BY <1>3
    <2> HIDE DEF f
    <2>2. 1 \in Workspaces
      BY DEF Workspaces
    <2> QED
      BY <1>1, <2>1, <2>2 DEF Desks
  <1>5. /\ gen = 1 /\ surf = NoPanels /\ up = << >> /\ down = << >>
        /\ snap = [gen |-> 1, desk |-> desk]
        /\ watch = [w \in Watchers |-> Off] /\ live = None /\ meddled = 0
        /\ lines = << >> /\ ewwii = "down" /\ open = {} /\ panel = NoPanels
        /\ pend = NoView /\ drawn = 0
    BY DEF DragInit, PanelInit
  <1>6. /\ NoPanels \in [Groups -> Surface \cup {None}]
        /\ NoPanels \in [Groups -> Panel \cup {None}]
        /\ \A x \in Groups : NoPanels[x] = None
    BY DEF NoPanels
  <1>7. << >> \in Seq(Requests) /\ << >> \in Seq(Events) /\ << >> \in Seq(Views)
    BY EmptySeq
  <1>8. CoreTyped
    BY <1>4, <1>5, <1>6, <1>7 DEF CoreTyped
  <1>9. watch \in [Watchers -> WatchRecord]
    BY <1>5, OffIs
  <1>10. EwwiiTyped
    BY <1>5, <1>6, <1>7, <1>9, EmptyView DEF EwwiiTyped
  <1>11. \A x \in Groups : Chained(NoPanels[x], << >>, NoPanels[x], x)
    BY SameIs, ChainedEmpty
  <1>12. Surfaced
    BY <1>5, <1>6, <1>11 DEF Surfaced
  <1> QED
    BY <1>8, <1>10, <1>12 DEF PanelsTyped

LEMMA DragStart ==
  ASSUME DragInit
  PROVE  DragInvariant
  <1>1. PanelsTyped /\ Surfaced
    BY PanelsStart
  <1>2. /\ at = None /\ button = FALSE /\ chrome = None /\ hint = None
        /\ armed = None /\ primary = NoPress /\ up = << >> /\ down = << >>
    BY DEF DragInit, PanelInit
  <1>3. DragTyped
    BY <1>2 DEF DragTyped, NoPress
  <1>4. Places
    <2>1. << >> \in Seq({})
      BY EmptySeq
    <2>2. \A k, P : AllIn(<< >>, k, P)
      BY <2>1, AllInHolds
    <2>3. None \in KnownSpots
      BY DEF KnownSpots
    <2> QED
      BY <1>2, <2>2, <2>3, Pressless DEF Places
  <1>5. Begun
    BY <1>2, EmptyIs DEF Begun
  <1>6. Dragging
    BY <1>2 DEF Dragging
  <1> QED
    BY <1>1, <1>3, <1>4, <1>5, <1>6 DEF DragInvariant

LEMMA DragStep ==
  ASSUME DragInvariant, [DragNext]_allVars
  PROVE  DragInvariant'
  <1>1. CASE PanelNext /\ DragFollows
    BY <1>1, PanelDragStep
  <1>2. ASSUME NEW place \in Place \cup {None}, MovePointer(place)
        PROVE  DragInvariant'
    BY <1>2, MovePointerStep
  <1>3. ASSUME NEW place \in Place, PressTab(place)
        PROVE  DragInvariant'
    BY <1>3, PressTabStep
  <1>4. CASE ReleaseButton
    BY <1>4, ReleaseButtonStep
  <1>5. CASE BeginCoreDrag
    BY <1>5, BeginCoreDragStep
  <1>6. CASE DragCore
    BY <1>6, BeginShellDragStep, SetShellDragTargetStep DEF DragCore
  <1>7. CASE DragPlugin
    BY <1>7, PointerButtonStep, DragSurfaceMotionStep DEF DragPlugin
  <1>8. CASE UNCHANGED allVars
    <2>1. /\ UNCHANGED restVars /\ UNCHANGED <<up, down>>
          /\ UNCHANGED <<at, chrome, hint, armed, primary>>
      BY <1>8 DEF allVars, panelVars, dragVars, restVars, coreVars, watchVars, ewwiiVars, pluginVars
    <2>2. PanelsTyped' /\ Surfaced'
      BY <2>1, DragIdle DEF DragInvariant
    <2>3. DragTyped'
      BY <2>1 DEF DragInvariant, DragTyped
    <2>4. desk' = desk /\ surf' = surf
      BY <2>1 DEF restVars
    <2>5. Places'
      BY <2>1, <2>4, SpotsIdle DEF DragInvariant, Places
    <2>6. Begun'
      BY <2>1 DEF DragInvariant, Begun, Silent
    <2>7. Dragging'
      BY <2>1, <2>4 DEF DragInvariant, Dragging, Answer, Motion
    <2> QED
      BY <2>2, <2>3, <2>5, <2>6, <2>7 DEF DragInvariant
  <1> QED
    BY <1>1, <1>2, <1>3, <1>4, <1>5, <1>6, <1>7, <1>8 DEF DragNext

\* In every state of the panels and of a drag everything has its type, the
\* requests on their way lead from the surfaces there are to the panels there
\* are, and the plugin and the compositor agree on the drag as far as their
\* messages have come (DragInvariant).
THEOREM DragInvariance == DragSpec => []DragInvariant
  <1>1. DragInit => DragInvariant
    BY DragStart
  <1>2. DragInvariant /\ [DragNext]_allVars => DragInvariant'
    BY DragStep
  <1> QED
    BY <1>1, <1>2, PTL DEF DragSpec

LEMMA SurfacesRight ==
  ASSUME DragInvariant
  PROVE  SurfacePerPanel
  <1> SUFFICES ASSUME NEW g \in Groups, Exists(desk, g)
               PROVE  /\ (\A i \in 1..Len(up) : ~About(up[i], g)) =>
                           IF surf[g] = None THEN panel[g] = None ELSE Answers(g, surf[g].since)
                      /\ \A i \in 1..Len(up) :
                           About(up[i], g) /\ (\A j \in 1..Len(up) : j > i => ~About(up[j], g)) =>
                              IF up[i].kind = "destroy" THEN panel[g] = None
                              ELSE Answers(g, up[i].since)
    BY DEF SurfacePerPanel
  <1>1. Chained(surf[g], up, panel[g], g)
    BY DEF DragInvariant, Surfaced, Exists
  <1>2. ASSUME \A i \in 1..Len(up) : ~About(up[i], g)
        PROVE  IF surf[g] = None THEN panel[g] = None ELSE Answers(g, surf[g].since)
    <2>1. Same(surf[g], panel[g])
      BY <1>1, <1>2 DEF Chained, Busy
    <2> QED
      BY <2>1 DEF Same, Answers
  <1>3. ASSUME NEW i \in 1..Len(up), About(up[i], g), \A j \in 1..Len(up) : j > i => ~About(up[j], g)
        PROVE  IF up[i].kind = "destroy" THEN panel[g] = None ELSE Answers(g, up[i].since)
    <2>1. Leaves(up[i], panel[g])
      BY <1>1, <1>3 DEF Chained, Hindmost
    <2> QED
      BY <1>3, <2>1 DEF Leaves, Answers, About
  <1> QED
    BY <1>2, <1>3

\* Once the compositor has read what is on its way, each group that is there has
\* a surface just when it has a panel, and that panel's own, for any numbers of
\* groups, watchers left behind, commands, changes and faults
\* (external_role_create, external_role_destroy).
THEOREM SurfacesPerPanel == DragSpec => []SurfacePerPanel
  <1>1. DragInvariant => SurfacePerPanel
    BY SurfacesRight
  <1> QED
    BY <1>1, DragInvariance, PTL

LEMMA DropRight ==
  ASSUME DragInvariant
  PROVE  DropFollowsPointer
  <1> USE DEF DragInvariant
  <1> SUFFICES ASSUME chrome # None, primary.drag, at # None, up = << >>, down = << >>
               PROVE  DropTarget = at \/ (hint = None /\ primary.target \in {None, at})
    BY DEF DropFollowsPointer, Heard
  <1>1. Answer /\ Motion
    BY DEF Dragging
  <1>2. (\A m : ~Latest(up, m) /\ ~Latest(down, m)) /\ (\A g : ~Busy(up, g))
    <2>1. Len(<< >>) = 0
      OBVIOUS
    <2> QED
      BY <2>1, EmptyIs DEF Busy
  <1>3. \/ hint \in {None, primary.target}
        \/ primary.target # None /\ desk.group[primary.target.group] = Gone
    BY <1>1, <1>2 DEF Answer
  <1>4. primary.target = at \/ (primary.target = None /\ hint = None)
    BY <1>1, <1>2 DEF Motion
  <1>5. desk.group[at.group] # Gone
    <2>1. at.group \in Groups /\ surf[at.group] # None
      BY DEF DragTyped, Spot, Places
    <2> QED
      BY <2>1 DEF Surfaced, Exists
  <1>6. hint \in {None, at}
    BY <1>3, <1>4, <1>5
  <1> QED
    BY <1>4, <1>6 DEF DropTarget

\* Once everything is heard the compositor's hint is where the pointer stands,
\* or it is missing: never another place (drag_target_cache_matches).
THEOREM DropsWhereItPoints == DragSpec => []DropFollowsPointer
  <1>1. DragInvariant => DropFollowsPointer
    BY DropRight
  <1> QED
    BY <1>1, DragInvariance, PTL
=============================================================================
