------------------------- MODULE CoreReload_proofs -------------------------
(***************************************************************************)
(* Proofs about CoreReload for any configurations, devices, outputs and    *)
(* workspaces.                                                             *)
(*                                                                         *)
(* PolicyInForce holds from the moment the server is up, and a reload that *)
(* is refused restores it device by device; it is inductive once the types *)
(* are known.  ComesBack speaks of a start that may come long after the    *)
(* copy was made.  Between them the slot with the later time must go on    *)
(* holding that copy (CopyKept), and a policy is copied only if it came    *)
(* from a file, so that the copy loads (PolicyLoads).                      *)
(***************************************************************************)
EXTENDS CoreReload, TLAPS

\* What is copied was read from a file.
PolicyLoads == Persisted => policy \in Configs

\* The copy made last is the one a start tries first.
CopyKept == saved # None /\ ~back => slot[newer] = saved

IInv == TypeOK /\ PolicyLoads /\ CopyKept

-----------------------------------------------------------------------------
\* What a policy asks of the workspaces.

LEMMA PlaceTyped ==
  ASSUME NEW p \in Policies, NEW ws \in Workspaces
  PROVE  Place(p, ws) \in Outputs \cup {None}
  BY ReloadAssumption DEF Place

LEMMA TargetTyped ==
  ASSUME TypeOK, NEW p \in Policies, NEW ws \in Workspaces
  PROVE  TargetOutput(p, ws) \in Outputs \cup {None}
  BY PlaceTyped DEF TypeOK, TargetOutput

LEMMA AppliedInForce ==
  ASSUME TypeOK, NEW p \in Policies, ApplyWorkspaces(p)
  PROVE  /\ home' \in [Workspaces -> Outputs \cup {None}]
         /\ visible' \in [Outputs -> Workspaces \cup {None}]
         /\ focused' \in Outputs \cup {None}
         /\ \A o \in Outputs : visible'[o] # None /\ home'[visible'[o]] = o
         /\ \A ws \in Workspaces : Named(p, ws) => home'[ws] = Place(p, ws)
  <1>1. home' = [ws \in Workspaces |-> TargetOutput(p, ws)]
    BY DEF ApplyWorkspaces
  <1>2. home' \in [Workspaces -> Outputs \cup {None}]
    BY <1>1, TargetTyped
  <1>3. /\ visible' \in [Outputs -> Workspaces]
        /\ \A o \in Outputs : home'[visible'[o]] = o
    BY DEF ApplyWorkspaces
  <1>4. \A o \in Outputs : visible'[o] # None
    BY <1>3, ReloadAssumption
  <1>5. \A ws \in Workspaces : Named(p, ws) => home'[ws] = Place(p, ws)
    BY <1>1 DEF TargetOutput
  <1>6. focused' \in Outputs \cup {None}
    BY DEF TypeOK, ApplyWorkspaces
  <1> QED
    BY <1>2, <1>3, <1>4, <1>5, <1>6

\* The same for the outputs that appear at the start.
LEMMA InitInForce ==
  ASSUME TypeOK, ServerInit
  PROVE  /\ home' \in [Workspaces -> Outputs \cup {None}]
         /\ visible' \in [Outputs -> Workspaces \cup {None}]
         /\ \A o \in Outputs : visible'[o] # None /\ home'[visible'[o]] = o
         /\ \A ws \in Workspaces : Named(policy, ws) => home'[ws] = Place(policy, ws)
  <1>1. PICK h \in Homes :
          /\ \A ws \in Workspaces :
                IF Named(policy, ws) THEN h[ws] = Place(policy, ws) ELSE h[ws] # None
          /\ \A o \in Outputs : \E ws \in Workspaces : h[ws] = o
          /\ home' = h
          /\ visible' = [o \in Outputs |-> CHOOSE ws \in Workspaces : h[ws] = o]
    BY DEF ServerInit
  <1>2. \A o \in Outputs : visible'[o] \in Workspaces /\ h[visible'[o]] = o
    BY <1>1
  <1>3. visible' \in [Outputs -> Workspaces]
    BY <1>1, <1>2
  <1> QED
    BY <1>1, <1>2, <1>3, ReloadAssumption DEF Homes

\* Devices that refuse.
LEMMA TakenBack ==
  ASSUME TypeOK, NEW p \in Policies, NEW ds \in SUBSET Plugged, NEW some,
         NEW stuck \in SUBSET ds, TakeBack(ds, p, some, stuck)
  PROVE  /\ dev' \in [Devices -> Policies \cup {None}] /\ odd' \subseteq Devices
         /\ (\A d \in Devices : dev[d] \in {None, policy} \/ d \in odd) =>
              \A d \in Devices : dev'[d] \in {None, policy} \/ d \in odd'
  <1>1. dev' \in [Devices -> Policies \cup {None}] /\ odd' \subseteq Devices
    BY DEF TypeOK, TakeBack, Plugged
  <1>2. ASSUME NEW d \in Devices, dev[d] \in {None, policy} \/ d \in odd
        PROVE  dev'[d] \in {None, policy} \/ d \in odd'
    BY <1>2 DEF TakeBack
  <1> QED
    BY <1>1, <1>2

LEMMA Refused ==
  ASSUME TypeOK, NEW p \in Policies, Refuse(p)
  PROVE  /\ dev' \in [Devices -> Policies \cup {None}] /\ odd' \subseteq Devices
         /\ (\A d \in Devices : dev[d] \in {None, policy} \/ d \in odd) =>
              \A d \in Devices : dev'[d] \in {None, policy} \/ d \in odd'
  <1>1. CASE KeyboardsRefuse(p)
    <2>1. CASE UNCHANGED <<dev, odd>>
      BY <2>1 DEF TypeOK
    <2> DEFINE ds == Keyboards \cap Plugged
    <2>2. ASSUME NEW some \in SUBSET ds, NEW stuck \in SUBSET ds, TakeBack(ds, p, some, stuck)
          PROVE  /\ dev' \in [Devices -> Policies \cup {None}] /\ odd' \subseteq Devices
                 /\ (\A d \in Devices : dev[d] \in {None, policy} \/ d \in odd) =>
                      \A d \in Devices : dev'[d] \in {None, policy} \/ d \in odd'
      BY <2>2, TakenBack
    <2> QED
      BY <1>1, <2>1, <2>2 DEF KeyboardsRefuse
  <1>2. CASE PointersRefuse(p)
    BY <1>2, TakenBack DEF PointersRefuse
  <1> QED
    BY <1>1, <1>2 DEF Refuse

LEMMA WatchedLoads ==
  ASSUME Reload
  PROVE  \/ \E p \in Configs : Accept(p)
         \/ \E p \in Configs : Refuse(p)
         \/ missed' = FALSE /\ UNCHANGED <<dev, odd, deskVars, configVars, phase>>
  BY DEF Reload

-----------------------------------------------------------------------------
\* The copy.

LEMMA StartUses ==
  ASSUME TypeOK, Start
  PROVE  /\ policy' \in Policies
         /\ source' \in {"explicit", "current", "legacy", "lkg", "default"}
         /\ watch' \in {"current", "legacy"}
         /\ file' \in Texts
         /\ PolicyLoads'
  <1>1. ASSUME LoadLkg
        PROVE  policy' \in Policies /\ source' \in {"lkg", "default"} /\ watch' = "current"
    BY <1>1 DEF LoadLkg, LoadInstalled, Use, Policies
  <1>2. CASE file \in Configs /\ Use(file, "explicit", "current") /\ UNCHANGED file
    BY <1>2 DEF TypeOK, Use, Policies, PolicyLoads, Persisted
  <1>3. CASE LoadStartup
    <2>1. CASE file \in Configs
      BY <1>3, <2>1 DEF LoadStartup, Use, Policies, Texts, PolicyLoads, Persisted
    <2>2. CASE file \notin Configs /\ file = NoFile /\ legacy \in Configs
      BY <1>3, <2>2 DEF LoadStartup, Use, Policies, Texts, PolicyLoads, Persisted
    <2>3. CASE file \notin Configs /\ ~(file = NoFile /\ legacy \in Configs)
      BY <1>1, <1>3, <2>3 DEF TypeOK, LoadStartup, PolicyLoads, Persisted
    <2> QED
      BY <2>1, <2>2, <2>3
  <1> QED
    BY <1>2, <1>3 DEF Start

LEMMA SaveKeeps ==
  ASSUME TypeOK, PolicyLoads, CopyKept, Save
  PROVE  /\ slot' \in [Slots -> Texts] /\ newer' \in Slots
         /\ saved' \in Configs \cup {None}
         /\ CopyKept'
  <1>1. CASE UNCHANGED <<slot, newer, saved>>
    BY <1>1 DEF TypeOK, CopyKept, Save
  <1>2. CASE Persisted /\ ~UNCHANGED <<slot, newer, saved>>
    <2>1. policy \in Configs /\ policy \in Texts
      BY <1>2 DEF PolicyLoads, Texts
    <2>2. saved' = policy /\ back' = back
      BY <1>2 DEF Save
    <2> DEFINE target == IF slot[newer] = NoFile THEN newer ELSE 1 - newer
    <2>3. target \in Slots
      BY DEF TypeOK, Slots
    <2> WriteSlot(target, policy)
      BY <1>2 DEF Save
    <2> HIDE DEF target
    <2>4. slot' = [slot EXCEPT ![target] = policy] /\ newer' \in Slots
      BY <2>3 DEF WriteSlot, Slots
    <2>5. ~back => newer' = target
      BY DEF WriteSlot
    <2>6. slot' \in [Slots -> Texts] /\ slot'[target] = policy
      BY <2>1, <2>3, <2>4 DEF TypeOK
    <2> QED
      BY <2>1, <2>2, <2>4, <2>5, <2>6 DEF CopyKept
  <1> QED
    BY <1>1, <1>2 DEF Save

-----------------------------------------------------------------------------
LEMMA InitInvariant == Init => IInv
  BY ReloadAssumption DEF Init, IInv, TypeOK, PolicyLoads, CopyKept, Persisted, Texts, Policies, Slots

LEMMA AcceptKeeps ==
  ASSUME TypeOK, NEW p \in Configs, Accept(p)
  PROVE  /\ dev' \in [Devices -> Policies \cup {None}] /\ odd' = {}
         /\ policy' = p /\ p \in Policies
         /\ source' \in {"explicit", "current", "legacy", "lkg", "default"}
         /\ watch' = watch /\ phase' = "saving" /\ missed' = FALSE
         /\ home' \in [Workspaces -> Outputs \cup {None}]
         /\ visible' \in [Outputs -> Workspaces \cup {None}]
         /\ focused' \in Outputs \cup {None}
         /\ PolicyInForce'
  <1>1. p \in Policies
    BY DEF Policies
  <1>2. /\ dev' \in [Devices -> Policies \cup {None}] /\ odd' = {}
        /\ \A d \in Devices : dev'[d] \in {None, p}
    BY <1>1 DEF Accept
  <1>3. /\ policy' = p /\ watch' = watch /\ phase' = "saving" /\ missed' = FALSE
        /\ source' \in {"explicit", "current", "legacy", "lkg", "default"}
        /\ ApplyWorkspaces(p)
    BY DEF TypeOK, Accept
  <1>4. /\ home' \in [Workspaces -> Outputs \cup {None}]
        /\ visible' \in [Outputs -> Workspaces \cup {None}]
        /\ focused' \in Outputs \cup {None}
        /\ \A o \in Outputs : visible'[o] # None /\ home'[visible'[o]] = o
        /\ \A ws \in Workspaces : Named(p, ws) => home'[ws] = Place(p, ws)
    BY <1>1, <1>3, AppliedInForce
  <1>5. PolicyInForce'
    <2>1. \A ws \in Workspaces : (Named(policy, ws) => home[ws] = Place(policy, ws))'
      BY <1>3, <1>4 DEF Named, Place
    <2> QED
      BY <1>2, <1>3, <1>4, <2>1 DEF PolicyInForce
  <1> QED
    BY <1>1, <1>2, <1>3, <1>4, <1>5

LEMMA StepTyped ==
  ASSUME IInv, [Next]_vars
  PROVE  TypeOK'
  <1> USE DEF IInv
  <1>1. CASE Start
    BY <1>1, StartUses DEF TypeOK, Start, slotVars, deskVars
  <1>2. CASE ServerInit
    <2>1. dev' \in [Devices -> Policies \cup {None}] /\ focused' \in Outputs
      BY <1>2 DEF TypeOK, ServerInit
    <2> QED
      BY <1>2, <2>1, InitInForce
      DEF TypeOK, ServerInit, fileVars, slotVars, watchVars, configVars
  <1>3. CASE Save
    BY <1>3, SaveKeeps DEF TypeOK, Save, fileVars, watchVars, configVars, deskVars
  <1>4. CASE ClockBack
    BY <1>4 DEF TypeOK, ClockBack, fileVars, watchVars, configVars, deskVars
  <1>5. CASE \/ Truncate \/ \E text \in Texts : FileWritten(text)
             \/ \E text \in Configs \cup {Broken} : CloseWrite(text)
    <2>1. file' \in Texts /\ {open, notified, timer, missed}' \subseteq BOOLEAN
      BY <1>5 DEF TypeOK, Texts, Truncate, FileWritten, CloseWrite, Notify
    <2>2. UNCHANGED <<legacy, slotVars, phase, configVars, dev, odd, deskVars>>
      BY <1>5 DEF Truncate, FileWritten, CloseWrite
    <2> QED
      BY <2>1, <2>2 DEF TypeOK, slotVars, configVars, deskVars
  <1>6. CASE HandleInotify
    BY <1>6 DEF TypeOK, HandleInotify, fileVars, slotVars, configVars, deskVars
  <1>7. CASE Reload
    <2>1. UNCHANGED <<fileVars, slotVars, notified>> /\ timer' = FALSE
      BY <1>7 DEF Reload
    <2>2. ASSUME NEW p \in Configs, Accept(p) PROVE TypeOK'
      BY <2>1, <2>2, AcceptKeeps DEF TypeOK, fileVars, slotVars
    <2>3. ASSUME NEW p \in Configs, Refuse(p) PROVE TypeOK'
      <3>1. dev' \in [Devices -> Policies \cup {None}] /\ odd' \subseteq Devices
        BY <2>3, Refused DEF Policies
      <3> QED
        BY <2>1, <2>3, <3>1 DEF TypeOK, Refuse, fileVars, slotVars, configVars, deskVars
    <2>4. CASE missed' = FALSE /\ UNCHANGED <<dev, odd, deskVars, configVars, phase>>
      BY <2>1, <2>4 DEF TypeOK, fileVars, slotVars, configVars, deskVars
    <2> QED
      BY <1>7, <2>2, <2>3, <2>4, WatchedLoads
  <1>8. ASSUME NEW d \in Devices, DeviceAdd(d) \/ DeviceRemove(d) PROVE TypeOK'
    BY <1>8 DEF TypeOK, DeviceAdd, DeviceRemove, fileVars, slotVars, configVars, watchVars, deskVars
  <1>9. ASSUME NEW ws \in Workspaces, ShowWorkspace(ws) PROVE TypeOK'
    <2>1. home[ws] \in Outputs
      BY <1>9 DEF TypeOK, ShowWorkspace
    <2> QED
      BY <1>9, <2>1 DEF TypeOK, ShowWorkspace, fileVars, slotVars, configVars, watchVars
  <1>10. CASE Stop
    BY <1>10 DEF TypeOK, Stop, Policies, fileVars, slotVars
  <1>11. CASE UNCHANGED vars
    BY <1>11 DEF TypeOK, vars
  <1> QED
    BY <1>1, <1>2, <1>3, <1>4, <1>5, <1>6, <1>7, <1>8, <1>9, <1>10, <1>11 DEF Next

LEMMA StepCopies ==
  ASSUME IInv, [Next]_vars
  PROVE  PolicyLoads' /\ CopyKept'
  <1> USE DEF IInv
  <1>1. ASSUME UNCHANGED slotVars PROVE CopyKept'
    BY <1>1 DEF CopyKept, slotVars
  <1>2. ASSUME UNCHANGED configVars PROVE PolicyLoads'
    BY <1>2 DEF PolicyLoads, Persisted, configVars
  <1>3. CASE Start
    BY <1>1, <1>3, StartUses DEF Start
  <1>4. CASE Save
    BY <1>2, <1>4, SaveKeeps DEF Save
  <1>5. CASE ClockBack
    BY <1>2, <1>5 DEF ClockBack, CopyKept
  <1>6. CASE Reload
    <2>1. ASSUME NEW p \in Configs, Accept(p) PROVE PolicyLoads'
      BY <2>1 DEF Accept, PolicyLoads
    <2>2. ASSUME NEW p \in Configs, Refuse(p) PROVE PolicyLoads'
      BY <1>2, <2>2 DEF Refuse
    <2>3. CopyKept'
      BY <1>1, <1>6 DEF Reload
    <2> QED
      BY <1>2, <1>6, <2>1, <2>2, <2>3, WatchedLoads
  <1>7. CASE Stop
    BY <1>1, <1>7 DEF Stop, PolicyLoads, Persisted
  <1>8. ASSUME \/ ServerInit \/ Truncate \/ HandleInotify
               \/ \E text : FileWritten(text) \/ CloseWrite(text)
               \/ \E d : DeviceAdd(d) \/ DeviceRemove(d)
               \/ \E ws : ShowWorkspace(ws)
               \/ UNCHANGED vars
        PROVE  PolicyLoads' /\ CopyKept'
    <2>1. UNCHANGED <<slotVars, configVars>>
      BY <1>8 DEF ServerInit, Truncate, HandleInotify, FileWritten, CloseWrite, DeviceAdd,
        DeviceRemove, ShowWorkspace, vars, slotVars, configVars
    <2> QED
      BY <1>1, <1>2, <2>1
  <1> QED
    BY <1>3, <1>4, <1>5, <1>6, <1>7, <1>8 DEF Next

(* Every variable keeps its type, what is copied was read from a file, and    *)
(* with an honest clock the later slot holds the copy made last.              *)
THEOREM Invariance == Spec => []IInv
  <1>1. IInv /\ [Next]_vars => IInv'
    BY StepTyped, StepCopies DEF IInv
  <1> QED
    BY <1>1, InitInvariant, PTL DEF Spec

LEMMA StartsFromCopy ==
  ASSUME IInv
  PROVE  Start /\ file \notin Configs /\ ~(file = NoFile /\ legacy \in Configs)
             /\ saved # None /\ ~back
           => policy' = saved
  <1> SUFFICES ASSUME Start, file \notin Configs, ~(file = NoFile /\ legacy \in Configs),
                      saved # None, ~back
               PROVE  policy' = saved
    OBVIOUS
  <1>1. LoadLkg
    BY DEF Start, LoadStartup
  <1>2. slot[newer] = saved /\ saved \in Configs
    BY DEF IInv, CopyKept, TypeOK
  <1> QED
    BY <1>1, <1>2 DEF LoadLkg, Use

(* Whatever was written, refused or cut short since the last copy, a start    *)
(* without a file that loads takes that copy.                                 *)
THEOREM ComesBackWithLastCopy == Spec => ComesBack
  <1>1. IInv /\ [Next]_vars =>
           [Start /\ file \notin Configs /\ ~(file = NoFile /\ legacy \in Configs)
              /\ saved # None /\ ~back
            => policy' = saved]_vars
    BY StartsFromCopy
  <1> QED
    BY <1>1, Invariance, PTL DEF Spec, ComesBack

-----------------------------------------------------------------------------
\* One policy in force.

LEMMA StepInForce ==
  ASSUME TypeOK, PolicyInForce, [Next]_vars
  PROVE  PolicyInForce'
  <1>1. ASSUME UNCHANGED <<phase, policy, dev, odd, deskVars>> PROVE PolicyInForce'
    BY <1>1 DEF PolicyInForce, Named, Place, deskVars
  <1>2. CASE Start \/ Stop
    BY <1>2 DEF PolicyInForce, Start, Stop
  <1>3. CASE ServerInit
    <2>1. \A d \in Devices : dev'[d] = policy
      BY <1>3 DEF ServerInit
    <2>2. policy' = policy
      BY <1>3 DEF ServerInit, configVars
    <2>3. \A ws \in Workspaces : (Named(policy, ws) => home[ws] = Place(policy, ws))'
      BY <1>3, <2>2, InitInForce DEF Named, Place
    <2> QED
      BY <1>3, <2>1, <2>2, <2>3, InitInForce DEF PolicyInForce
  <1>4. CASE Save
    BY <1>4 DEF PolicyInForce, Save, Named, Place, configVars, deskVars
  <1>5. CASE Reload
    <2>1. ASSUME NEW p \in Configs, Refuse(p) PROVE PolicyInForce'
      <3>1. phase = "running" /\ UNCHANGED <<deskVars, configVars, phase>>
        BY <1>5, <2>1 DEF Reload, Refuse
      <3>2. \A d \in Devices : dev'[d] \in {None, policy} \/ d \in odd'
        BY <2>1, <3>1, Refused DEF PolicyInForce, Policies
      <3> QED
        BY <3>1, <3>2 DEF PolicyInForce, Named, Place, deskVars, configVars
    <2>2. ASSUME NEW p \in Configs, Accept(p) PROVE PolicyInForce'
      BY <2>2, AcceptKeeps
    <2>3. CASE UNCHANGED <<dev, odd, deskVars, configVars, phase>>
      BY <1>1, <2>3 DEF configVars
    <2> QED
      BY <1>5, <2>1, <2>2, <2>3, WatchedLoads
  <1>6. ASSUME NEW d \in Devices, DeviceAdd(d) \/ DeviceRemove(d) PROVE PolicyInForce'
    <2>1. phase = "running" /\ UNCHANGED <<phase, configVars, deskVars>>
      BY <1>6 DEF DeviceAdd, DeviceRemove
    <2>2. \A e \in Devices : dev[e] \in {None, policy} \/ e \in odd
      BY <2>1 DEF PolicyInForce
    <2>3. \A e \in Devices : dev'[e] \in {None, policy} \/ e \in odd'
      BY <1>6, <2>2 DEF TypeOK, DeviceAdd, DeviceRemove
    <2> QED
      BY <2>1, <2>3 DEF PolicyInForce, Named, Place, configVars, deskVars
  <1>7. ASSUME NEW ws \in Workspaces, ShowWorkspace(ws) PROVE PolicyInForce'
    <2>1. /\ phase = "running" /\ home[ws] \in Outputs
          /\ visible' = [visible EXCEPT ![home[ws]] = ws]
          /\ UNCHANGED <<phase, policy, dev, odd, home>>
      BY <1>7 DEF TypeOK, ShowWorkspace, configVars
    <2>2. \A o \in Outputs : visible'[o] # None /\ home[visible'[o]] = o
      BY <2>1, ReloadAssumption DEF TypeOK, PolicyInForce
    <2> QED
      BY <2>1, <2>2 DEF PolicyInForce, Named, Place
  <1>8. ASSUME \/ ClockBack \/ Truncate \/ HandleInotify
               \/ \E text : FileWritten(text) \/ CloseWrite(text)
               \/ UNCHANGED vars
        PROVE  PolicyInForce'
    <2>1. UNCHANGED <<phase, policy, dev, odd, deskVars>>
      BY <1>8 DEF ClockBack, Truncate, HandleInotify, FileWritten, CloseWrite, vars, configVars,
        deskVars
    <2> QED
      BY <1>1, <2>1
  <1> QED
    BY <1>2, <1>3, <1>4, <1>5, <1>6, <1>7, <1>8 DEF Next

(* From the moment the server is up a single policy is in force on devices,   *)
(* outputs and workspaces, through any reload that is accepted or refused.    *)
THEOREM OnePolicy == Spec => []PolicyInForce
  <1>1. Init => PolicyInForce
    BY DEF Init, PolicyInForce
  <1>2. IInv => TypeOK
    BY DEF IInv
  <1> QED
    BY <1>1, <1>2, StepInForce, Invariance, PTL DEF Spec
============================================================================
