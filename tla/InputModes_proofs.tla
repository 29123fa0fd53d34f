------------------------- MODULE InputModes_proofs -------------------------
(***************************************************************************)
(* Proofs about InputModes for any pointers, keyboards, buttons, windows   *)
(* and Shells, and any capture capacity.                                   *)
(*                                                                         *)
(* InertBehindLock, CleanTap and PanelReturns are inductive once the types *)
(* are known.  GrabsHeld is not: that some pointer holds the button of a   *)
(* grab says nothing about whose release will reach the grab.  IInv adds   *)
(* who may release it (Held) and keeps what a mode is about apart from who *)
(* holds it (TargetsThere).                                                *)
(***************************************************************************)
EXTENDS InputModes, TLAPS

-----------------------------------------------------------------------------
\* Types, one lemma per kind of input.

LEMMA TypeOfInit == Init => TypeOK
  BY DEF Init, TypeOK

LEMMA ArmedDragTyped ==
  ASSUME TypeOK, NEW subject \in {"window", "group"}, NEW w \in Windows, NEW b \in Buttons,
         ArmChromeDrag(subject, w, b)
  PROVE  chrome' \in Drags \cup {None}
  <1>1. CASE chrome = None
    BY <1>1 DEF ArmChromeDrag, Drags
  <1>2. CASE chrome # None
    BY <1>2 DEF TypeOK, ArmChromeDrag, Drags
  <1> QED
    BY <1>1, <1>2

LEMMA BegunTyped ==
  ASSUME TypeOK, NEW source \in {"xdg", "binding"}, NEW w \in Windows,
         NEW b \in Buttons \cup {None}, BeginInteraction(w, source, b)
  PROVE  inter' \in Interactions \cup {None}
  BY DEF BeginInteraction, Interactions

LEMMA CaptureTyped ==
  ASSUME TypeOK, NEW p \in Pointers, NEW b \in Buttons, NEW release \in BOOLEAN,
         BeginCapture(p, b, release) \/ UNCHANGED captures
  PROVE  captures' \subseteq [pointer : Pointers, button : Buttons, release : BOOLEAN]
  BY DEF TypeOK, BeginCapture

LEMMA CancelArmsTyped ==
  ASSUME TypeOK, CancelArms
  PROVE  /\ tap' \in [Supers -> {"up", "down", "armed"}]
         /\ pending' \subseteq Keyboards
         /\ touched' \subseteq Supers
  BY DEF TypeOK, CancelArms

LEMMA PressTyped ==
  ASSUME TypeOK, NEW p \in Pointers, NEW b \in Buttons, ButtonPress(p, b)
  PROVE  TypeOK'
  <1> DEFINE ModesTyped ==
                /\ chrome \in Drags \cup {None}
                /\ hint \in Windows \cup {None}
                /\ resize \in Buttons \cup {None}
                /\ inter \in Interactions \cup {None}
             Caps == captures \subseteq [pointer : Pointers, button : Buttons, release : BOOLEAN]
             Effect == effect \in {"none", "action", "grab", "drop", "context", "focus", "tap"}
             Goal == ModesTyped' /\ Caps' /\ Effect' /\ seat' \subseteq Buttons
  <1>1. /\ tap' \in [Supers -> {"up", "down", "armed"}]
        /\ pending' \subseteq Keyboards
        /\ touched' \subseteq Supers
    BY CancelArmsTyped DEF ButtonPress
  <1>2. ASSUME PressInInteraction(b) PROVE Goal
    BY <1>2 DEF TypeOK, PressInInteraction, modeVars
  <1>3. ASSUME PressOnSurface(b) PROVE Goal
    BY <1>3 DEF TypeOK, PressOnSurface, modeVars
  <1>4. ASSUME PressInteractiveBinding(p, b) PROVE Goal
    <2>1. CASE InteractiveMove(b) /\ effect' = "grab" /\ UNCHANGED captures
      BY <1>4, <2>1, BegunTyped, ArmedDragTyped
      DEF TypeOK, PressInteractiveBinding, InteractiveMove
    <2>2. CASE InteractiveResize(b) /\ effect' = "grab" /\ UNCHANGED captures
      BY <1>4, <2>2, BegunTyped DEF TypeOK, PressInteractiveBinding, InteractiveResize
    <2>3. CASE /\ IF CanCapture(p, b) THEN BeginCapture(p, b, FALSE) ELSE UNCHANGED captures
               /\ effect' = "none"
               /\ UNCHANGED modeVars
      <3>1. Caps'
        BY <2>3, CaptureTyped
      <3> QED
        BY <1>4, <2>3, <3>1 DEF TypeOK, PressInteractiveBinding, modeVars
    <2> QED
      BY <1>4, <2>1, <2>2, <2>3 DEF PressInteractiveBinding
  <1>5. ASSUME PressBinding(p, b) PROVE Goal
    BY <1>5 DEF TypeOK, PressBinding, BeginCapture, modeVars
  <1>6. ASSUME b = Right, PressContext(p) PROVE Goal
    <2>1. Caps'
      BY <1>6, CaptureTyped DEF PressContext
    <2> QED
      BY <1>6, <2>1 DEF TypeOK, PressContext, modeVars
  <1>7. ASSUME b = Left, PressChrome PROVE Goal
    BY <1>7, ArmedDragTyped DEF TypeOK, PressChrome
  <1>8. ASSUME PressWindow(b) PROVE Goal
    BY <1>8 DEF TypeOK, PressWindow, modeVars
  <1>9. Goal
    BY <1>2, <1>3, <1>4, <1>5, <1>6, <1>7, <1>8 DEF ButtonPress
  <1>10. /\ {locked, layer, fallback, panel, awaiting, again}' \subseteq BOOLEAN
         /\ UNCHANGED <<win, shells, gesture, recovery>>
    BY DEF TypeOK, ButtonPress, aroundVars, panelVars
  <1>11. held' \subseteq Pointers \X Buttons
    BY DEF TypeOK, ButtonPress
  <1> HIDE DEF Goal
  <1> QED
    BY <1>1, <1>9, <1>10, <1>11 DEF TypeOK, Goal

LEMMA ReleaseTyped ==
  ASSUME TypeOK, NEW p \in Pointers, NEW b \in Buttons, ButtonRelease(p, b)
  PROVE  TypeOK'
  <1> DEFINE Goal == /\ chrome' \in Drags \cup {None}
                     /\ hint' \in Windows \cup {None}
                     /\ resize' \in Buttons \cup {None}
                     /\ inter' \in Interactions \cup {None}
                     /\ seat' \subseteq Buttons
                     /\ captures' \subseteq captures
                     /\ effect' \in {"none", "action", "drop"}
  <1>1. /\ tap' \in [Supers -> {"up", "down", "armed"}]
        /\ pending' \subseteq Keyboards
        /\ touched' \subseteq Supers
    BY CancelArmsTyped DEF ButtonRelease
  <1>2. ASSUME ReleaseCaptured(p, b) PROVE Goal
    BY <1>2 DEF TypeOK, ReleaseCaptured, modeVars
  <1>3. ASSUME ReleaseInInteraction(p, b) PROVE Goal
    BY <1>3 DEF TypeOK, ReleaseInInteraction, FinishInteraction
  <1>4. ASSUME ReleaseResize(p, b) PROVE Goal
    BY <1>4 DEF TypeOK, ReleaseResize
  <1>5. ASSUME ReleaseChromeDrag(p, b) PROVE Goal
    BY <1>5 DEF TypeOK, ReleaseChromeDrag, ResetChromeDrag
  <1>6. ASSUME ReleaseForwarded(p, b) PROVE Goal
    BY <1>6 DEF TypeOK, ReleaseForwarded, modeVars
  <1>7. Goal
    BY <1>2, <1>3, <1>4, <1>5, <1>6 DEF ButtonRelease
  <1>8. /\ {locked, layer, fallback, panel, awaiting, again}' \subseteq BOOLEAN
        /\ UNCHANGED <<win, shells, gesture, recovery>>
        /\ held' \subseteq Pointers \X Buttons
    BY DEF TypeOK, ButtonRelease, aroundVars, panelVars
  <1> QED
    BY <1>1, <1>7, <1>8 DEF TypeOK

LEMMA MotionTyped ==
  ASSUME TypeOK, Motion
  PROVE  TypeOK'
  <1> DEFINE Modes == /\ chrome' \in Drags \cup {None}
                      /\ hint' \in Windows \cup {None}
                      /\ resize' \in Buttons \cup {None}
                      /\ inter' \in Interactions \cup {None}
  <1>1. ASSUME MotionChromeDrag
        PROVE  chrome' \in Drags \cup {None} /\ hint' \in Windows \cup {None}
    BY <1>1, ZenonT(60) DEF TypeOK, MotionChromeDrag, ResetChromeDrag, Drags
  <1>2. inter' \in Interactions \cup {None}
    BY DEF TypeOK, Motion, MotionInteraction, FinishInteraction
  <1>3. ASSUME MotionResize PROVE resize' \in Buttons \cup {None}
    BY <1>3 DEF TypeOK, MotionResize
  <1>4. Modes
    BY <1>1, <1>2, <1>3 DEF TypeOK, Motion
  <1>5. effect' \in {"none", "focus"}
    BY DEF Motion
  <1>6. UNCHANGED <<aroundVars, held, seat, gesture, captures, tapVars, panelVars>>
    BY DEF Motion
  <1> QED
    BY <1>4, <1>5, <1>6 DEF TypeOK, aroundVars, tapVars, panelVars

LEMMA GestureTyped ==
  ASSUME TypeOK,
         \E kind \in {"swipe", "pinch"} :
            GestureBegin(kind) \/ GestureUpdate(kind) \/ GestureEnd(kind)
  PROVE  TypeOK'
  <1> PICK kind \in {"swipe", "pinch"} :
            GestureBegin(kind) \/ GestureUpdate(kind) \/ GestureEnd(kind)
    OBVIOUS
  <1>1. CASE GestureBegin(kind)
    BY <1>1, CancelArmsTyped DEF TypeOK, GestureBegin, aroundVars, modeVars, panelVars
  <1>2. CASE GestureUpdate(kind)
    BY <1>2 DEF TypeOK, GestureUpdate, aroundVars, modeVars, tapVars, panelVars
  <1>3. CASE GestureEnd(kind)
    BY <1>3 DEF TypeOK, GestureEnd, aroundVars, modeVars, tapVars, panelVars
  <1> QED
    BY <1>1, <1>2, <1>3

LEMMA KeyTyped ==
  ASSUME TypeOK,
         \/ Axis \/ KeyPress \/ ApplyKeyboardPolicy
         \/ \E s \in Supers : SuperPress(s) \/ SuperRelease(s)
         \/ \E k \in Keyboards : ReleaseTimer(k) \/ KeyboardDestroy(k)
  PROVE  TypeOK'
  <1>1. CASE Axis
    BY <1>1, CancelArmsTyped DEF TypeOK, Axis, aroundVars, modeVars, panelVars
  <1>2. CASE KeyPress
    <2>1. /\ effect' \in {"none", "action"}
          /\ {fallback, panel, awaiting, again}' \subseteq BOOLEAN
          /\ recovery' \in Windows \cup {None}
      BY <1>2 DEF TypeOK, KeyPress, KeyBinding, RecoveryTerminal, panelVars
    <2> QED
      BY <1>2, <2>1, CancelArmsTyped DEF TypeOK, KeyPress, aroundVars, modeVars
  <1>3. ASSUME NEW s \in Supers, SuperPress(s) PROVE TypeOK'
    <2>1. /\ tap' \in [Supers -> {"up", "down", "armed"}]
          /\ touched' \subseteq Supers
      BY <1>3 DEF TypeOK, SuperPress, OthersDown
    <2>2. effect' \in {"none", "action"}
      BY <1>3 DEF SuperPress, KeyBinding
    <2> QED
      BY <1>3, <2>1, <2>2 DEF TypeOK, SuperPress, aroundVars, modeVars, panelVars
  <1>4. ASSUME NEW s \in Supers, SuperRelease(s) PROVE TypeOK'
    <2>1. s[1] \in Keyboards
      BY DEF Supers
    <2>2. pending' \subseteq Keyboards
      BY <1>4, <2>1 DEF TypeOK, SuperRelease, QueueRelease, CancelRelease
    <2> QED
      BY <1>4, <2>2 DEF TypeOK, SuperRelease, aroundVars, modeVars, panelVars
  <1>5. ASSUME NEW k \in Keyboards, ReleaseTimer(k) PROVE TypeOK'
    BY <1>5 DEF TypeOK, ReleaseTimer, aroundVars, modeVars, panelVars
  <1>6. ASSUME NEW keyboards, ForgetTaps(keyboards) PROVE TypeOK'
    BY <1>6 DEF TypeOK, ForgetTaps, CancelRelease, aroundVars, modeVars, panelVars
  <1> QED
    BY <1>1, <1>2, <1>3, <1>4, <1>5, <1>6 DEF ApplyKeyboardPolicy, KeyboardDestroy

LEMMA ClientTyped ==
  ASSUME TypeOK,
         \/ \E p \in Pointers : PointerDestroy(p)
         \/ \E c \in Shells : BeginShellDrag(c) \/ SetShellDragTarget(c) \/ ShellConnect(c)
                              \/ ShellGone(c)
         \/ \E w \in Windows : XdgRequest(w)
  PROVE  TypeOK'
  <1>1. ASSUME NEW p \in Pointers, PointerDestroy(p) PROVE TypeOK'
    BY <1>1 DEF TypeOK, PointerDestroy, aroundVars, modeVars, tapVars, panelVars
  <1>2. ASSUME NEW c \in Shells, BeginShellDrag(c) PROVE TypeOK'
    <2>1. chrome' \in Drags
      BY <1>2 DEF BeginShellDrag, Drags
    <2> QED
      BY <1>2, <2>1 DEF TypeOK, BeginShellDrag, aroundVars, tapVars, panelVars
  <1>3. ASSUME NEW c \in Shells, SetShellDragTarget(c) PROVE TypeOK'
    BY <1>3 DEF TypeOK, SetShellDragTarget, aroundVars, tapVars, panelVars
  <1>4. ASSUME NEW c \in Shells, ShellConnect(c) PROVE TypeOK'
    BY <1>4 DEF TypeOK, ShellConnect, modeVars, tapVars, panelVars
  <1>5. ASSUME NEW c \in Shells, ShellGone(c) PROVE TypeOK'
    BY <1>5 DEF TypeOK, ShellGone, ResetChromeDrag, tapVars, panelVars
  <1>6. ASSUME NEW w \in Windows, XdgRequest(w) PROVE TypeOK'
    <2>1. inter' \in Interactions \cup {None}
      BY <1>6, BegunTyped DEF XdgRequest
    <2> QED
      BY <1>6, <2>1 DEF TypeOK, XdgRequest, aroundVars, tapVars, panelVars
  <1> QED
    BY <1>1, <1>2, <1>3, <1>4, <1>5, <1>6

LEMMA WindowTyped ==
  ASSUME TypeOK, NEW w \in Windows,
         Map(w) \/ Place(w) \/ Unmap(w) \/ Destroy(w) \/ GroupGone(w)
  PROVE  TypeOK'
  <1>1. ASSUME NEW what \in {"none", "unmapped", "tiled", "floating", "fullscreen"},
               Become(w, what)
        PROVE  /\ win' \in [Windows -> {"none", "unmapped", "tiled", "floating", "fullscreen"}]
               /\ {locked, layer, fallback}' \subseteq BOOLEAN
               /\ effect' = "none"
               /\ UNCHANGED <<shells, held, seat, resize, gesture, captures, tap, pending, touched>>
    BY <1>1 DEF TypeOK, Become, tapVars
  <1>2. ASSUME NEW subject, CancelChromeDrag(subject, w)
        PROVE  chrome' \in Drags \cup {None} /\ hint' \in Windows \cup {None}
    BY <1>2 DEF TypeOK, CancelChromeDrag, ResetChromeDrag
  <1>3. ASSUME WindowUnavailable(w)
        PROVE  /\ recovery' \in Windows \cup {None}
               /\ {panel, awaiting, again}' \subseteq BOOLEAN
    BY <1>3 DEF TypeOK, WindowUnavailable
  <1>4. CASE Map(w)
    BY <1>1, <1>4 DEF TypeOK, Map
  <1>5. CASE Place(w)
    BY <1>1, <1>5 DEF TypeOK, Place
  <1>6. CASE Unmap(w)
    <2>1. inter' \in Interactions \cup {None}
      BY <1>6 DEF TypeOK, Unmap, CancelInteraction, FinishInteraction
    <2> QED
      BY <1>1, <1>2, <1>3, <1>6, <2>1 DEF TypeOK, Unmap
  <1>7. CASE Destroy(w)
    BY <1>1, <1>2, <1>3, <1>7 DEF TypeOK, Destroy
  <1>8. CASE GroupGone(w)
    BY <1>2, <1>8 DEF TypeOK, GroupGone, aroundVars, tapVars, panelVars
  <1> QED
    BY <1>4, <1>5, <1>6, <1>7, <1>8

LEMMA AroundTyped ==
  ASSUME TypeOK, Lock \/ LayerFocus \/ FallbackSet
  PROVE  TypeOK'
  BY DEF TypeOK, Lock, LayerFocus, FallbackSet, aroundVars, modeVars, tapVars, panelVars

LEMMA StepTyped ==
  ASSUME TypeOK, [Next]_vars
  PROVE  TypeOK'
  <1>1. CASE UNCHANGED vars
    BY <1>1 DEF vars, TypeOK
  <1>2. CASE Next
    BY <1>2, PressTyped, ReleaseTyped, MotionTyped, GestureTyped, KeyTyped, ClientTyped,
       WindowTyped, AroundTyped
    DEF Next, SwipeBegin, SwipeUpdate, SwipeEnd, PinchBegin, PinchUpdate, PinchEnd
  <1> QED
    BY <1>1, <1>2

(* Every variable keeps its type.                                             *)
THEOREM TypeCorrect == Spec => []TypeOK
  BY TypeOfInit, StepTyped, PTL DEF Spec

-----------------------------------------------------------------------------
\* What a step does to the desktop.  The invariant speaks of the state alone,
\* so each action is looked at by itself.

LEMMA PressInert ==
  ASSUME TypeOK, NEW p \in Pointers, NEW b \in Buttons, ButtonPress(p, b)
  PROVE  InertBehindLock'
  <1>1. locked' = locked /\ fallback' = fallback
    BY DEF ButtonPress, aroundVars, panelVars
  <1>2. CASE PressInInteraction(b) \/ PressOnSurface(b)
    BY <1>2 DEF InertBehindLock, PressInInteraction, PressOnSurface
  <1>3. CASE PressInteractiveBinding(p, b)
    BY <1>1, <1>3 DEF InertBehindLock, PressInteractiveBinding
  <1>4. CASE PressBinding(p, b)
    BY <1>1, <1>4 DEF InertBehindLock, PressBinding
  <1>5. CASE PressContext(p)
    BY <1>1, <1>5 DEF InertBehindLock, PressContext
  <1>6. CASE PressChrome
    BY <1>1, <1>6 DEF InertBehindLock, PressChrome
  <1>7. CASE PressWindow(b)
    BY <1>1, <1>7 DEF InertBehindLock, PressWindow
  <1> QED
    BY <1>2, <1>3, <1>4, <1>5, <1>6, <1>7 DEF ButtonPress

LEMMA ReleaseInert ==
  ASSUME TypeOK, NEW p \in Pointers, NEW b \in Buttons, ButtonRelease(p, b)
  PROVE  InertBehindLock'
  <1>1. locked' = locked /\ fallback' = fallback
    BY DEF ButtonRelease, aroundVars, panelVars
  <1>2. CASE ReleaseCaptured(p, b)
    BY <1>1, <1>2 DEF InertBehindLock, ReleaseCaptured, DesktopListens
  <1>3. CASE ReleaseChromeDrag(p, b)
    BY <1>1, <1>3 DEF InertBehindLock, ReleaseChromeDrag
  <1>4. CASE ReleaseInInteraction(p, b) \/ ReleaseResize(p, b) \/ ReleaseForwarded(p, b)
    BY <1>4 DEF InertBehindLock, ReleaseInInteraction, ReleaseResize, ReleaseForwarded
  <1> QED
    BY <1>2, <1>3, <1>4 DEF ButtonRelease

LEMMA ListeningInert ==
  ASSUME locked' = locked, fallback' = fallback,
         effect' \in IF DesktopListens THEN {"none", "action", "focus"} ELSE {"none"}
  PROVE  InertBehindLock'
  BY DEF InertBehindLock, DesktopListens

LEMMA StepInert ==
  ASSUME TypeOK, InertBehindLock, [Next]_vars
  PROVE  InertBehindLock'
  <1>1. ASSUME effect' = "none" PROVE InertBehindLock'
    BY <1>1 DEF InertBehindLock
  <1>2. CASE Motion
    <2>1. effect' \in IF DesktopListens THEN {"none", "focus"} ELSE {"none"}
      BY <1>2 DEF Motion
    <2> QED
      BY <1>2, <2>1, ListeningInert DEF Motion, aroundVars, panelVars
  <1>3. CASE Axis
    BY <1>3, ListeningInert DEF Axis, aroundVars, panelVars
  <1>4. ASSUME NEW kind, GestureBegin(kind) \/ GestureUpdate(kind) \/ GestureEnd(kind)
        PROVE  InertBehindLock'
    BY <1>1, <1>4, ListeningInert
    DEF GestureBegin, GestureUpdate, GestureEnd, aroundVars, panelVars
  <1>5. CASE KeyPress
    BY <1>1, <1>5, ListeningInert DEF KeyPress, KeyBinding, RecoveryTerminal, aroundVars, panelVars
  <1>6. ASSUME NEW s \in Supers, SuperPress(s) PROVE InertBehindLock'
    BY <1>6, ListeningInert DEF SuperPress, KeyBinding, aroundVars, panelVars
  <1>7. ASSUME NEW k \in Keyboards, ReleaseTimer(k) PROVE InertBehindLock'
    BY <1>7 DEF InertBehindLock, ReleaseTimer, TapAllowed, aroundVars, panelVars
  <1>8. ASSUME NEW w \in Windows, XdgRequest(w) PROVE InertBehindLock'
    BY <1>8 DEF InertBehindLock, XdgRequest, BeginInteraction, CanInteract, aroundVars, panelVars
  <1>9. ASSUME \/ \E s \in Supers : SuperRelease(s)
               \/ \E k \in Keyboards : KeyboardDestroy(k)
               \/ ApplyKeyboardPolicy
               \/ \E p \in Pointers : PointerDestroy(p)
               \/ \E c \in Shells : BeginShellDrag(c) \/ SetShellDragTarget(c)
                                    \/ ShellConnect(c) \/ ShellGone(c)
               \/ \E w \in Windows : Map(w) \/ Place(w) \/ Unmap(w) \/ Destroy(w) \/ GroupGone(w)
               \/ Lock \/ LayerFocus \/ FallbackSet
        PROVE  InertBehindLock'
    <2>1. effect' = "none"
      BY <1>9 DEF SuperRelease, KeyboardDestroy, ApplyKeyboardPolicy, ForgetTaps, PointerDestroy,
        BeginShellDrag, SetShellDragTarget, ShellConnect, ShellGone, Become, Map, Place, Unmap,
        Destroy, GroupGone, Lock, LayerFocus, FallbackSet
    <2> QED
      BY <1>1, <2>1
  <1>10. CASE UNCHANGED vars
    BY <1>10 DEF InertBehindLock, vars
  <1> QED
    BY <1>2, <1>3, <1>4, <1>5, <1>6, <1>7, <1>8, <1>9, <1>10, PressInert, ReleaseInert
    DEF Next, SwipeBegin, SwipeUpdate, SwipeEnd, PinchBegin, PinchUpdate, PinchEnd

(* In every state the program reaches, what the last step did to the desktop  *)
(* was done in a session that was open, and an action or a tap of the         *)
(* configuration with the recovery panel away.                                *)
THEOREM LockedDesktopIsInert == Spec => []InertBehindLock
  <1>1. Init => InertBehindLock
    BY DEF Init, InertBehindLock
  <1> QED
    BY <1>1, StepInert, TypeCorrect, PTL DEF Spec

-----------------------------------------------------------------------------
\* Taps.  The invariant is inductive as it stands.

LEMMA CancelledIsClean ==
  ASSUME TypeOK, CancelArms
  PROVE  CleanTap'
  <1>1. \A s \in Supers : tap'[s] # "armed"
    BY DEF TypeOK, CancelArms
  <1> QED
    BY <1>1 DEF CleanTap

LEMMA SuperPressIsClean ==
  ASSUME TypeOK, CleanTap, NEW s \in Supers, SuperPress(s)
  PROVE  CleanTap'
  <1> PICK bound \in BOOLEAN :
        tap' = [t \in Supers |->
                 IF t = s
                 THEN IF bound /\ OthersDown(s) = {} /\ TapAllowed THEN "armed" ELSE "down"
                 ELSE IF tap[t] = "armed" THEN "down" ELSE tap[t]]
    BY DEF SuperPress
  <1> SUFFICES ASSUME NEW t \in Supers, tap'[t] = "armed"
               PROVE  t \notin touched' /\ \A u \in Supers \ {t} : tap'[u] = "up"
    BY DEF CleanTap
  <1>1. t = s /\ OthersDown(s) = {}
    BY DEF TypeOK
  <1>2. touched' = {}
    BY <1>1 DEF SuperPress
  <1>3. \A u \in Supers \ {s} : tap[u] = "up"
    BY <1>1 DEF OthersDown
  <1> QED
    BY <1>1, <1>2, <1>3 DEF TypeOK

LEMMA StepClean ==
  ASSUME TypeOK, CleanTap, [Next]_vars
  PROVE  CleanTap'
  <1>1. ASSUME UNCHANGED <<tap, touched>> PROVE CleanTap'
    BY <1>1 DEF CleanTap
  <1>2. ASSUME NEW p \in Pointers, NEW b \in Buttons, ButtonPress(p, b) \/ ButtonRelease(p, b)
        PROVE  CleanTap'
    BY <1>2, CancelledIsClean DEF ButtonPress, ButtonRelease
  <1>3. CASE Axis \/ KeyPress \/ SwipeBegin \/ PinchBegin
    BY <1>3, CancelledIsClean DEF Axis, KeyPress, SwipeBegin, PinchBegin, GestureBegin
  <1>4. ASSUME NEW s \in Supers, SuperRelease(s) PROVE CleanTap'
    BY <1>4 DEF TypeOK, CleanTap, SuperRelease
  <1>5. ASSUME NEW keyboards, ForgetTaps(keyboards) PROVE CleanTap'
    BY <1>5 DEF TypeOK, CleanTap, ForgetTaps
  <1>6. CASE UNCHANGED vars
    BY <1>1, <1>6 DEF vars
  <1>7. ASSUME \/ Motion \/ SwipeUpdate \/ SwipeEnd \/ PinchUpdate \/ PinchEnd
               \/ \E k \in Keyboards : ReleaseTimer(k)
               \/ \E p \in Pointers : PointerDestroy(p)
               \/ \E c \in Shells : BeginShellDrag(c) \/ SetShellDragTarget(c)
                                    \/ ShellConnect(c) \/ ShellGone(c)
               \/ \E w \in Windows : XdgRequest(w) \/ Map(w) \/ Place(w) \/ Unmap(w)
                                     \/ Destroy(w) \/ GroupGone(w)
               \/ Lock \/ LayerFocus \/ FallbackSet
        PROVE  CleanTap'
    <2>1. UNCHANGED <<tap, touched>>
      BY <1>7 DEF Motion, SwipeUpdate, SwipeEnd, PinchUpdate, PinchEnd, GestureUpdate, GestureEnd,
        ReleaseTimer, PointerDestroy, BeginShellDrag, SetShellDragTarget, ShellConnect,
        ShellGone, XdgRequest, Become, Map, Place, Unmap, Destroy, GroupGone, Lock, LayerFocus,
        FallbackSet, tapVars
    <2> QED
      BY <1>1, <2>1
  <1> QED
    BY <1>2, <1>3, <1>4, <1>5, <1>6, <1>7, SuperPressIsClean
    DEF Next, ApplyKeyboardPolicy, KeyboardDestroy

(* A Super key that counts as tapped was alone from its press on, whatever    *)
(* the keyboards, pointers and gestures did meanwhile.                        *)
THEOREM TapsAreClean == Spec => []CleanTap
  <1>1. Init => CleanTap
    BY DEF Init, CleanTap
  <1> QED
    BY <1>1, StepClean, TypeCorrect, PTL DEF Spec

-----------------------------------------------------------------------------
\* The recovery panel.  This invariant too is inductive as it stands.

LEMMA StepPanel ==
  ASSUME TypeOK, PanelReturns, [Next]_vars
  PROVE  PanelReturns'
  <1>1. ASSUME UNCHANGED <<panelVars, win>> PROVE PanelReturns'
    BY <1>1 DEF PanelReturns, Mapped, panelVars
  <1>2. CASE KeyPress
    <2>1. CASE UNCHANGED panelVars
      BY <1>1, <1>2, <2>1 DEF KeyPress, aroundVars
    <2>2. CASE RecoveryTerminal
      BY <2>2 DEF PanelReturns, RecoveryTerminal
    <2> QED
      BY <1>2, <2>1, <2>2 DEF KeyPress
  <1>3. ASSUME NEW w \in Windows, Map(w) PROVE PanelReturns'
    <2>1. win' = [win EXCEPT ![w] = win'[w]] /\ Mapped(w)' /\ fallback' = fallback
      BY <1>3 DEF TypeOK, Map, Become, Mapped
    <2>2. CASE fallback /\ awaiting
      BY <1>3, <2>1, <2>2, InputAssumption DEF PanelReturns, Map
    <2>3. CASE ~(fallback /\ awaiting)
      BY <1>3, <2>1, <2>3 DEF TypeOK, PanelReturns, Map, Mapped
    <2> QED
      BY <2>2, <2>3
  <1>4. ASSUME NEW w \in Windows, Place(w) PROVE PanelReturns'
    BY <1>4 DEF TypeOK, PanelReturns, Place, Become, Mapped
  <1>5. ASSUME NEW w \in Windows, Unmap(w) \/ Destroy(w) PROVE PanelReturns'
    <2>1. /\ WindowUnavailable(w)
          /\ fallback' = fallback
          /\ \A v \in Windows \ {w} : win'[v] = win[v]
      BY <1>5 DEF TypeOK, Unmap, Destroy, Become
    <2>2. CASE recovery = w
      BY <2>1, <2>2 DEF TypeOK, PanelReturns, WindowUnavailable
    <2>3. CASE recovery # w
      BY <2>1, <2>3 DEF TypeOK, PanelReturns, WindowUnavailable, Mapped
    <2> QED
      BY <2>2, <2>3
  <1>6. CASE FallbackSet
    BY <1>6 DEF TypeOK, PanelReturns, FallbackSet
  <1>7. CASE UNCHANGED vars
    BY <1>1, <1>7 DEF vars, panelVars
  <1>8. ASSUME \/ \E p \in Pointers, b \in Buttons : ButtonPress(p, b) \/ ButtonRelease(p, b)
               \/ \E p \in Pointers : PointerDestroy(p)
               \/ Motion \/ Axis
               \/ \E kind : GestureBegin(kind) \/ GestureUpdate(kind) \/ GestureEnd(kind)
               \/ \E s \in Supers : SuperPress(s) \/ SuperRelease(s)
               \/ \E k \in Keyboards : ReleaseTimer(k)
               \/ \E keyboards : ForgetTaps(keyboards)
               \/ \E c \in Shells : BeginShellDrag(c) \/ SetShellDragTarget(c)
                                    \/ ShellConnect(c) \/ ShellGone(c)
               \/ \E w \in Windows : XdgRequest(w) \/ GroupGone(w)
               \/ Lock \/ LayerFocus
        PROVE  PanelReturns'
    <2>1. UNCHANGED <<panelVars, win>>
      BY <1>8 DEF ButtonPress, ButtonRelease, PointerDestroy, Motion, Axis, GestureBegin,
        GestureUpdate, GestureEnd, SuperPress, SuperRelease, ReleaseTimer, ForgetTaps,
        BeginShellDrag, SetShellDragTarget, ShellConnect, ShellGone, XdgRequest, GroupGone,
        Lock, LayerFocus, aroundVars
    <2> QED
      BY <1>1, <2>1
  <1> QED
    BY <1>2, <1>3, <1>4, <1>5, <1>6, <1>7, <1>8
    DEF Next, SwipeBegin, SwipeUpdate, SwipeEnd, PinchBegin, PinchUpdate, PinchEnd,
      ApplyKeyboardPolicy, KeyboardDestroy

(* The user of the recovery panel is never left with neither the panel nor    *)
(* the terminal that hid it.                                                  *)
THEOREM PanelComesBack == Spec => []PanelReturns
  <1>1. Init => PanelReturns
    BY DEF Init, PanelReturns
  <1> QED
    BY <1>1, StepPanel, TypeCorrect, PTL DEF Spec

-----------------------------------------------------------------------------
\* Grabs.  Who is told that a button went up?  A release whose press a binding
\* took goes to the binding, so a grab is safe only if one of the pointers
\* that hold its button is not in that position.  The layout can be resized
\* while a drag is armed, with the same button on two pointers: the first
\* release ends the resize and the second must be left for the drag.

free == [b \in Buttons |-> {p \in Pointers : <<p, b>> \in held /\ Capture(p, b) = {}}]

CapturesHeld == \A c \in captures : <<c.pointer, c.button>> \in held

\* A drag of the compositor's own, with the button b.
OwnDrag(ch, b) == ch # None /\ ch.shell = None /\ ch.button = b

\* Each mode of its own has a free pointer, two modes with one button have
\* two, and an interaction shares the pointers with no other mode.
Secure(ch, rs, it, f) ==
    /\ \A b \in Buttons :
        /\ OwnDrag(ch, b) \/ rs = b => f[b] # {}
        /\ OwnDrag(ch, b) /\ rs = b => \E p, q \in f[b] : p # q
    /\ it # None =>
        /\ ch = None /\ rs = None
        /\ it.source = "binding" => it.button \in Buttons /\ f[it.button] # {}

Held == CapturesHeld /\ Secure(chrome, resize, inter, free)

\* What a mode holds on to is there.
TargetsThere ==
    /\ chrome # None =>
        /\ chrome.shell # None => chrome.shell \in shells
        /\ IF chrome.subject = "window" THEN Mapped(chrome.of) ELSE win[chrome.of] # "none"
    /\ inter # None => Mapped(inter.window)

IInv == TypeOK /\ Held /\ TargetsThere

LEMMA HeldIsEnough ==
  ASSUME TypeOK, Held, TargetsThere
  PROVE  GrabsHeld
  <1>1. \A b \in Buttons : free[b] # {} => IsDown(b)
    BY DEF free, IsDown
  <1>2. chrome # None => chrome.button \in Buttons
    BY DEF TypeOK, Drags
  <1>3. resize # None => resize \in Buttons
    BY DEF TypeOK
  <1> QED
    BY <1>1, <1>2, <1>3 DEF Held, Secure, OwnDrag, TargetsThere, GrabsHeld

\* A step that begins no mode and takes no free pointer away.
LEMMA NothingBegun ==
  ASSUME NEW ch, NEW rs, NEW it, NEW f, Secure(ch, rs, it, f),
         NEW ch2, NEW rs2 \in {None, rs}, NEW it2 \in {None, it}, NEW f2,
         ch2 # None => ch # None /\ ch2.shell = ch.shell /\ ch2.button = ch.button,
         \A b \in Buttons : f[b] \subseteq f2[b],
         None \notin Buttons
  PROVE  Secure(ch2, rs2, it2, f2)
  <1>1. \A b \in Buttons : (OwnDrag(ch2, b) => OwnDrag(ch, b)) /\ (rs2 = b => rs = b)
    BY DEF OwnDrag
  <1>2. \A b \in Buttons : f[b] # {} => f2[b] # {}
    OBVIOUS
  <1>3. \A b \in Buttons : (\E p, q \in f[b] : p # q) => \E p, q \in f2[b] : p # q
    OBVIOUS
  <1> QED
    BY <1>1, <1>2, <1>3 DEF Secure

\* A press of a button that was up, whatever it does, leaves every free pointer
\* free, and if it captures nothing its own pointer is one more.
LEMMA PressFrees ==
  ASSUME TypeOK, CapturesHeld, NEW p \in Pointers, NEW b \in Buttons,
         <<p, b>> \notin held, held' = held \cup {<<p, b>>},
         \/ captures' = captures
         \/ \E release \in BOOLEAN : BeginCapture(p, b, release)
  PROVE  /\ CapturesHeld'
         /\ \A x \in Buttons : free[x] \subseteq free'[x]
         /\ p \notin free[b]
         /\ captures' = captures => p \in free'[b]
  <1>1. \A c \in captures' : c \in captures \/ (c.pointer = p /\ c.button = b)
    BY DEF BeginCapture
  <1>2. Capture(p, b) = {}
    BY DEF CapturesHeld, Capture
  <1>3. CapturesHeld'
    BY <1>1 DEF CapturesHeld
  <1>4. ASSUME NEW x \in Buttons, NEW q \in Pointers, <<q, x>> \in held, Capture(q, x) = {}
        PROVE  <<q, x>> \in held' /\ Capture(q, x)' = {}
    <2>1. <<q, x>> # <<p, b>>
      BY <1>4
    <2>2. q # p \/ x # b
      BY <2>1
    <2> QED
      BY <1>1, <1>4, <2>2 DEF Capture
  <1>5. \A x \in Buttons : free[x] \subseteq free'[x]
    BY <1>4 DEF free
  <1>6. captures' = captures => p \in free'[b]
    BY <1>2 DEF free, Capture
  <1> QED
    BY <1>3, <1>5, <1>6 DEF free

LEMMA ReleaseFrees ==
  ASSUME TypeOK, CapturesHeld, NEW p \in Pointers, NEW b \in Buttons,
         held' = held \ {<<p, b>>}, captures' = captures \ Capture(p, b)
  PROVE  /\ CapturesHeld'
         /\ \A x \in Buttons \ {b} : free[x] \subseteq free'[x]
         /\ free[b] \ {p} \subseteq free'[b]
         /\ Capture(p, b) # {} => p \notin free[b]
  <1>1. CapturesHeld'
    BY DEF CapturesHeld, Capture
  <1>2. ASSUME NEW x \in Buttons, NEW q \in Pointers, <<q, x>> # <<p, b>>,
               <<q, x>> \in held, Capture(q, x) = {}
        PROVE  <<q, x>> \in held' /\ Capture(q, x)' = {}
    BY <1>2 DEF Capture
  <1>3. \A x \in Buttons \ {b} : free[x] \subseteq free'[x]
    BY <1>2 DEF free
  <1>4. free[b] \ {p} \subseteq free'[b]
    BY <1>2 DEF free
  <1> QED
    BY <1>1, <1>3, <1>4 DEF free

\* What a press that begins a mode leaves: the mode is held by the pointer that
\* was pressed, which was not free before.
LEMMA GrabBegun ==
  ASSUME NEW b \in Buttons, NEW f, NEW f2, NEW p, p \notin f[b], p \in f2[b],
         \A x \in Buttons : f[x] \subseteq f2[x],
         NEW ch, NEW rs, Secure(ch, rs, None, f), None \notin Buttons,
         NEW ch2, NEW rs2,
         \/ rs2 = b /\ ch2 = ch
         \/ rs2 = rs /\ \A x \in Buttons : OwnDrag(ch2, x) => x = b
  PROVE  Secure(ch2, rs2, None, f2)
  <1>1. f2[b] # {}
    OBVIOUS
  <1>2. \A x \in Buttons : OwnDrag(ch, x) \/ rs = x => f2[x] # {}
    BY DEF Secure
  <1>3. OwnDrag(ch, b) \/ rs = b => \E q \in f2[b] : q # p
    BY DEF Secure
  <1>4. \A x \in Buttons : OwnDrag(ch2, x) \/ rs2 = x => f2[x] # {}
    BY <1>1, <1>2
  <1>5. \A x \in Buttons : OwnDrag(ch2, x) /\ rs2 = x => \E q, r \in f2[x] : q # r
    <2> SUFFICES ASSUME NEW x \in Buttons, OwnDrag(ch2, x), rs2 = x
                 PROVE  \E q, r \in f2[x] : q # r
      OBVIOUS
    <2>1. x = b
      OBVIOUS
    <2>2. \E q \in f2[b] : q # p
      BY <1>3, <2>1
    <2> QED
      BY <2>1, <2>2
  <1> QED
    BY <1>4, <1>5 DEF Secure

LEMMA PressHolds ==
  ASSUME TypeOK, Held, NEW p \in Pointers, NEW b \in Buttons, ButtonPress(p, b)
  PROVE  Held'
  <1> USE InputAssumption
  <1>1. None \notin Buttons /\ <<p, b>> \notin held /\ held' = held \cup {<<p, b>>}
    BY DEF ButtonPress
  <1>2. ASSUME \/ captures' = captures
               \/ \E release \in BOOLEAN : BeginCapture(p, b, release)
        PROVE  /\ CapturesHeld'
               /\ \A x \in Buttons : free[x] \subseteq free'[x]
               /\ p \notin free[b]
               /\ captures' = captures => p \in free'[b]
    BY <1>1, <1>2, PressFrees DEF Held
  <1>3. ASSUME UNCHANGED modeVars,
               \/ captures' = captures
               \/ \E release \in BOOLEAN : BeginCapture(p, b, release)
        PROVE  Held'
    <2>1. Secure(chrome, resize, inter, free')
      BY <1>1, <1>2, <1>3, NothingBegun DEF Held
    <2> QED
      BY <1>2, <1>3, <2>1 DEF Held, modeVars
  <1>4. ASSUME inter = None, inter' = None, captures' = captures,
               \/ resize' = b /\ chrome' = chrome
               \/ resize' = resize /\ \A x \in Buttons : OwnDrag(chrome', x) => x = b
        PROVE  Held'
    <2>1. Secure(chrome', resize', None, free')
      BY <1>1, <1>2, <1>4, GrabBegun DEF Held
    <2> QED
      BY <1>2, <1>4, <2>1 DEF Held
  <1>5. CASE PressInInteraction(b) \/ PressOnSurface(b) \/ PressWindow(b)
    BY <1>3, <1>5 DEF PressInInteraction, PressOnSurface, PressWindow
  <1>6. ASSUME NEW subject, NEW w, ArmChromeDrag(subject, w, b)
        PROVE  \A x \in Buttons : OwnDrag(chrome', x) => x = b
    BY <1>6 DEF ArmChromeDrag, OwnDrag
  <1>7. CASE PressInteractiveBinding(p, b)
    <2>1. ASSUME NEW w \in Windows, BeginInteraction(w, "binding", b), captures' = captures,
                 UNCHANGED <<chrome, resize>>
          PROVE  Held'
      <3>1. chrome = None /\ resize = None /\ inter'.source = "binding" /\ inter'.button = b
        BY <2>1 DEF BeginInteraction, CanInteract, NoMode
      <3>2. free'[b] # {}
        BY <1>2, <2>1
      <3>3. Secure(None, None, inter', free')
        BY <1>1, <3>1, <3>2 DEF Secure, OwnDrag
      <3> QED
        BY <1>2, <2>1, <3>1, <3>3 DEF Held
    <2>2. CASE InteractiveMove(b) /\ captures' = captures
      BY <1>4, <1>6, <1>7, <2>1, <2>2 DEF PressInteractiveBinding, InteractiveMove
    <2>3. CASE InteractiveResize(b) /\ captures' = captures
      BY <1>4, <1>7, <2>1, <2>3 DEF PressInteractiveBinding, InteractiveResize
    <2>4. CASE /\ IF CanCapture(p, b) THEN BeginCapture(p, b, FALSE) ELSE UNCHANGED captures
               /\ UNCHANGED modeVars
      BY <1>3, <2>4
    <2> QED
      BY <1>7, <2>2, <2>3, <2>4 DEF PressInteractiveBinding
  <1>8. CASE PressBinding(p, b)
    BY <1>3, <1>8 DEF PressBinding
  <1>9. CASE b = Right /\ PressContext(p)
    BY <1>3, <1>9 DEF PressContext
  <1>10. CASE b = Left /\ PressChrome
    BY <1>4, <1>6, <1>10 DEF PressChrome
  <1> QED
    BY <1>5, <1>7, <1>8, <1>9, <1>10 DEF ButtonPress

LEMMA ReleaseHolds ==
  ASSUME TypeOK, Held, NEW p \in Pointers, NEW b \in Buttons, ButtonRelease(p, b)
  PROVE  Held'
  <1> USE InputAssumption
  <1>1. None \notin Buttons /\ captures' = captures \ Capture(p, b)
    BY DEF ButtonRelease, ReleaseCaptured, ReleaseInInteraction, ReleaseResize,
      ReleaseChromeDrag, ReleaseForwarded
  <1>2. /\ CapturesHeld'
        /\ \A x \in Buttons \ {b} : free[x] \subseteq free'[x]
        /\ free[b] \ {p} \subseteq free'[b]
        /\ Capture(p, b) # {} => p \notin free[b]
    BY <1>1, ReleaseFrees DEF Held, ButtonRelease
  <1>3. CASE ReleaseCaptured(p, b)
    <2>1. \A x \in Buttons : free[x] \subseteq free'[x]
      BY <1>2, <1>3 DEF ReleaseCaptured
    <2>2. Secure(chrome, resize, inter, free')
      BY <1>1, <2>1, NothingBegun DEF Held
    <2> QED
      BY <1>2, <1>3, <2>2 DEF Held, ReleaseCaptured, modeVars
  <1>4. CASE ReleaseInInteraction(p, b)
    <2>1. chrome = None /\ resize = None /\ UNCHANGED <<chrome, resize>>
      BY <1>4 DEF Held, Secure, ReleaseInInteraction
    <2>2. inter' # None => inter' = inter /\ (inter.source = "binding" => b # inter.button)
      BY <1>4 DEF TypeOK, Interactions, ReleaseInInteraction, FinishInteraction
    <2>3. inter' # None /\ inter'.source = "binding" =>
             inter'.button \in Buttons /\ free'[inter'.button] # {}
      BY <1>2, <2>2 DEF Held, Secure
    <2>4. Secure(None, None, inter', free')
      BY <1>1, <2>3 DEF Secure, OwnDrag
    <2> QED
      BY <1>2, <2>1, <2>4 DEF Held
  <1>5. ASSUME inter = None, inter' = None,
               resize' # b, resize' \in {None, resize},
               chrome' = None \/ chrome' = chrome,
               OwnDrag(chrome', b) => resize = b
        PROVE  Held'
    <2>1. ASSUME NEW x \in Buttons, x # b
          PROVE  /\ OwnDrag(chrome', x) \/ resize' = x => free'[x] # {}
                 /\ OwnDrag(chrome', x) /\ resize' = x => \E q, r \in free'[x] : q # r
      BY <1>1, <1>2, <1>5, <2>1 DEF Held, Secure, OwnDrag
    <2>2. OwnDrag(chrome', b) => free'[b] # {}
      BY <1>2, <1>5 DEF Held, Secure, OwnDrag
    <2>3. Secure(chrome', resize', None, free')
      BY <1>1, <1>5, <2>1, <2>2 DEF Secure
    <2> QED
      BY <1>2, <1>5, <2>3 DEF Held
  <1>6. CASE ReleaseResize(p, b)
    BY <1>1, <1>5, <1>6 DEF ReleaseResize
  <1>7. CASE ReleaseChromeDrag(p, b)
    BY <1>5, <1>7 DEF ReleaseChromeDrag, ResetChromeDrag, OwnDrag
  <1>8. CASE ReleaseForwarded(p, b)
    BY <1>5, <1>8 DEF ReleaseForwarded, OwnDrag, modeVars
  <1> QED
    BY <1>3, <1>4, <1>6, <1>7, <1>8 DEF ButtonRelease

LEMMA StepHolds ==
  ASSUME TypeOK, Held, [Next]_vars
  PROVE  Held'
  <1> USE InputAssumption
  <1>1. ASSUME UNCHANGED <<held, captures>>,
               chrome' # None => chrome # None /\ chrome'.shell = chrome.shell
                                               /\ chrome'.button = chrome.button,
               resize' \in {None, resize}, inter' \in {None, inter}
        PROVE  Held'
    <2>1. free' = free
      BY <1>1 DEF free, Capture
    <2>2. Secure(chrome', resize', inter', free)
      BY <1>1, NothingBegun DEF Held
    <2> QED
      BY <1>1, <2>1, <2>2 DEF Held, CapturesHeld
  <1>2. CASE Motion
    <2>1. MotionChromeDrag => /\ chrome' # None => /\ chrome # None
                                                   /\ chrome'.shell = chrome.shell
                                                   /\ chrome'.button = chrome.button
      BY DEF TypeOK, Drags, MotionChromeDrag, ResetChromeDrag
    <2> QED
      BY <1>1, <1>2, <2>1 DEF Motion, MotionInteraction, FinishInteraction, MotionResize
  <1>3. ASSUME NEW p \in Pointers, PointerDestroy(p) PROVE Held'
    <2>1. CapturesHeld' /\ UNCHANGED <<chrome, resize, inter, held>>
      BY <1>3 DEF Held, CapturesHeld, PointerDestroy, modeVars
    <2>2. \A b \in Buttons : free[b] \subseteq free'[b]
      BY <1>3, <2>1 DEF free, Capture, PointerDestroy
    <2>3. Secure(chrome, resize, inter, free')
      BY <2>2, NothingBegun DEF Held
    <2> QED
      BY <2>1, <2>3 DEF Held
  <1>4. ASSUME NEW c \in Shells, BeginShellDrag(c) PROVE Held'
    <2>1. UNCHANGED <<resize, inter, held, captures>> /\ resize = None /\ inter = None
      BY <1>4 DEF BeginShellDrag, NoMode
    <2>2. \A b : ~OwnDrag(chrome', b)
      BY <1>4 DEF BeginShellDrag, OwnDrag
    <2>3. Secure(chrome', None, None, free')
      BY <2>2 DEF Secure
    <2> QED
      BY <2>1, <2>3 DEF Held, CapturesHeld
  <1>5. ASSUME NEW w \in Windows, XdgRequest(w) PROVE Held'
    <2>1. /\ UNCHANGED <<chrome, resize, held, captures>> /\ chrome = None /\ resize = None
          /\ inter'.source # "binding"
      BY <1>5 DEF XdgRequest, BeginInteraction, CanInteract, NoMode
    <2>2. Secure(None, None, inter', free')
      BY <2>1 DEF Secure, OwnDrag
    <2> QED
      BY <2>1, <2>2 DEF Held, CapturesHeld
  <1>6. ASSUME NEW c \in Shells, ShellGone(c) PROVE Held'
    BY <1>1, <1>6 DEF ShellGone, ResetChromeDrag
  <1>7. ASSUME NEW w \in Windows, Unmap(w) \/ Destroy(w) \/ GroupGone(w) PROVE Held'
    BY <1>1, <1>7 DEF Unmap, Destroy, GroupGone, Become, CancelInteraction, FinishInteraction,
      CancelChromeDrag, ResetChromeDrag
  <1>8. CASE UNCHANGED vars
    BY <1>1, <1>8 DEF vars
  <1>9. ASSUME \/ Axis \/ KeyPress
               \/ \E kind : GestureBegin(kind) \/ GestureUpdate(kind) \/ GestureEnd(kind)
               \/ \E s \in Supers : SuperPress(s) \/ SuperRelease(s)
               \/ \E k \in Keyboards : ReleaseTimer(k)
               \/ \E keyboards : ForgetTaps(keyboards)
               \/ \E c \in Shells : SetShellDragTarget(c) \/ ShellConnect(c)
               \/ \E w \in Windows : Map(w) \/ Place(w)
               \/ Lock \/ LayerFocus \/ FallbackSet
        PROVE  Held'
    <2>1. UNCHANGED <<chrome, resize, inter, held, captures>>
      BY <1>9 DEF Axis, KeyPress, GestureBegin, GestureUpdate, GestureEnd, SuperPress,
        SuperRelease, ReleaseTimer, ForgetTaps, SetShellDragTarget, ShellConnect, Map, Place,
        Become, Lock, LayerFocus, FallbackSet, modeVars
    <2> QED
      BY <1>1, <2>1
  <1> QED
    BY <1>2, <1>3, <1>4, <1>5, <1>6, <1>7, <1>8, <1>9, PressHolds, ReleaseHolds
    DEF Next, SwipeBegin, SwipeUpdate, SwipeEnd, PinchBegin, PinchUpdate, PinchEnd,
      ApplyKeyboardPolicy, KeyboardDestroy

\* The targets of the modes.

\* A step after which no window and no Shell is gone, and which begins nothing.
LEMMA TargetsStay ==
  ASSUME TypeOK, TargetsThere,
         \A w \in Windows : (Mapped(w) => Mapped(w)') /\ (win[w] # "none" => win'[w] # "none"),
         shells \subseteq shells',
         chrome' # None => /\ chrome # None /\ chrome'.shell = chrome.shell
                          /\ chrome'.subject = chrome.subject /\ chrome'.of = chrome.of,
         inter' \in {None, inter}
  PROVE  TargetsThere'
  <1>1. chrome # None => chrome.of \in Windows
    BY DEF TypeOK, Drags
  <1>2. inter # None => inter.window \in Windows
    BY DEF TypeOK, Interactions
  <1> QED
    BY <1>1, <1>2 DEF TargetsThere, Mapped

LEMMA ArmedAtTarget ==
  ASSUME TypeOK, TargetsThere, UNCHANGED <<win, shells, inter>>,
         NEW subject \in {"window", "group"}, NEW w \in Windows, NEW b,
         ArmChromeDrag(subject, w, b),
         win[w] # "none", subject = "window" => Mapped(w)
  PROVE  TargetsThere'
  BY DEF TargetsThere, ArmChromeDrag, Mapped

LEMMA InteractsAtTarget ==
  ASSUME TargetsThere, UNCHANGED <<win, shells, chrome>>, NEW w \in Windows, NEW source, NEW b,
         BeginInteraction(w, source, b)
  PROVE  TargetsThere'
  BY DEF TargetsThere, BeginInteraction, CanInteract, Mapped

LEMMA PressAtTarget ==
  ASSUME TypeOK, TargetsThere, NEW p \in Pointers, NEW b \in Buttons, ButtonPress(p, b)
  PROVE  TargetsThere'
  <1>1. UNCHANGED <<win, shells>>
    BY DEF ButtonPress, aroundVars
  <1>2. ASSUME UNCHANGED <<chrome, inter>> PROVE TargetsThere'
    BY <1>1, <1>2, TargetsStay DEF Mapped
  <1>3. CASE PressInInteraction(b) \/ PressOnSurface(b) \/ PressWindow(b)
             \/ PressBinding(p, b) \/ PressContext(p)
    BY <1>2, <1>3 DEF PressInInteraction, PressOnSurface, PressWindow, PressBinding, PressContext,
      modeVars
  <1>4. ASSUME InteractiveMove(b) PROVE TargetsThere'
    BY <1>1, <1>4, ArmedAtTarget, InteractsAtTarget DEF InteractiveMove, Mapped
  <1>5. ASSUME InteractiveResize(b) PROVE TargetsThere'
    BY <1>1, <1>2, <1>5, InteractsAtTarget DEF InteractiveResize
  <1>6. CASE PressInteractiveBinding(p, b)
    BY <1>2, <1>4, <1>5, <1>6 DEF PressInteractiveBinding, modeVars
  <1>7. CASE PressChrome
    <2>1. ASSUME NEW w \in Windows, Mapped(w) PROVE win[w] # "none"
      BY <2>1 DEF Mapped
    <2> QED
      BY <1>1, <1>2, <1>7, <2>1, ArmedAtTarget DEF PressChrome
  <1> QED
    BY <1>3, <1>6, <1>7 DEF ButtonPress

LEMMA WindowAtTarget ==
  ASSUME TypeOK, TargetsThere, NEW w \in Windows,
         Map(w) \/ Place(w) \/ Unmap(w) \/ Destroy(w) \/ GroupGone(w)
  PROVE  TargetsThere'
  <1>1. ASSUME NEW subject \in {"window", "group"}, CancelChromeDrag(subject, w)
        PROVE  /\ chrome' = chrome \/ chrome' = None
               /\ chrome' # None => ~(chrome'.subject = subject /\ chrome'.of = w)
    BY <1>1 DEF CancelChromeDrag, ResetChromeDrag
  <1>2. CASE Map(w) \/ Place(w)
    <2>1. Mapped(w)' /\ win'[w] # "none" /\ \A v \in Windows \ {w} : win'[v] = win[v]
      BY <1>2 DEF TypeOK, Map, Place, Become, Mapped
    <2>2. UNCHANGED <<chrome, inter, shells>>
      BY <1>2 DEF Map, Place, Become
    <2> QED
      BY <2>1, <2>2, TargetsStay DEF Mapped
  <1>3. CASE Unmap(w)
    <2>1. win'[w] = "unmapped" /\ \A v \in Windows \ {w} : win'[v] = win[v]
      BY <1>3 DEF TypeOK, Unmap, Become
    <2>2. inter' # None => inter' = inter /\ inter.window # w
      BY <1>3 DEF Unmap, CancelInteraction, FinishInteraction
    <2>3. UNCHANGED shells
      BY <1>3 DEF Unmap, Become
    <2>4. chrome' # None => chrome' = chrome /\ ~(chrome.subject = "window" /\ chrome.of = w)
      BY <1>1, <1>3 DEF Unmap
    <2>5. chrome' # None => /\ chrome.subject \in {"window", "group"} /\ chrome.of \in Windows
      BY <2>4 DEF TypeOK, Drags
    <2>6. inter' # None => inter.window \in Windows
      BY <2>2 DEF TypeOK, Interactions
    <2> QED
      BY <2>1, <2>2, <2>3, <2>4, <2>5, <2>6 DEF TargetsThere, Mapped
  <1>4. CASE Destroy(w)
    <2>1. ~Mapped(w) /\ \A v \in Windows \ {w} : win'[v] = win[v]
      BY <1>4 DEF TypeOK, Destroy, Become, Mapped
    <2>2. UNCHANGED <<inter, shells>>
      BY <1>4 DEF Destroy, Become
    <2>3. chrome' # None => chrome' = chrome /\ ~(chrome.subject = "group" /\ chrome.of = w)
      BY <1>1, <1>4 DEF Destroy
    <2>4. chrome' # None => /\ chrome.subject \in {"window", "group"} /\ chrome.of \in Windows
      BY <2>3 DEF TypeOK, Drags
    <2>5. inter # None => inter.window \in Windows
      BY DEF TypeOK, Interactions
    <2> QED
      BY <2>1, <2>2, <2>3, <2>4, <2>5 DEF TargetsThere, Mapped
  <1>5. CASE GroupGone(w)
    BY <1>1, <1>5, TargetsStay DEF GroupGone, aroundVars, Mapped
  <1> QED
    BY <1>2, <1>3, <1>4, <1>5

LEMMA StepAtTarget ==
  ASSUME TypeOK, TargetsThere, [Next]_vars
  PROVE  TargetsThere'
  <1>1. ASSUME UNCHANGED win, shells \subseteq shells', inter' \in {None, inter},
               chrome' # None => /\ chrome # None /\ chrome'.shell = chrome.shell
                                /\ chrome'.subject = chrome.subject /\ chrome'.of = chrome.of
        PROVE  TargetsThere'
    BY <1>1, TargetsStay DEF Mapped
  <1>2. ASSUME NEW p \in Pointers, NEW b \in Buttons, ButtonRelease(p, b) PROVE TargetsThere'
    <2>1. inter' \in {None, inter} /\ chrome' \in {None, chrome}
      BY <1>2 DEF ButtonRelease, ReleaseCaptured, ReleaseInInteraction, ReleaseResize,
        ReleaseChromeDrag, ReleaseForwarded, FinishInteraction, ResetChromeDrag, modeVars
    <2> QED
      BY <1>1, <1>2, <2>1 DEF ButtonRelease, aroundVars
  <1>3. CASE Motion
    <2>1. ASSUME MotionChromeDrag
          PROVE  chrome' # None => /\ chrome # None /\ chrome'.shell = chrome.shell
                                  /\ chrome'.subject = chrome.subject /\ chrome'.of = chrome.of
      BY <2>1 DEF TypeOK, Drags, MotionChromeDrag, ResetChromeDrag
    <2> QED
      BY <1>1, <1>3, <2>1 DEF Motion, MotionInteraction, FinishInteraction, aroundVars
  <1>4. ASSUME NEW c \in Shells, BeginShellDrag(c) PROVE TargetsThere'
    BY <1>4 DEF TargetsThere, BeginShellDrag, NoMode, Mapped, aroundVars
  <1>5. ASSUME NEW c \in Shells, ShellGone(c) PROVE TargetsThere'
    BY <1>5 DEF TypeOK, Interactions, TargetsThere, ShellGone, ResetChromeDrag, Mapped
  <1>6. ASSUME NEW w \in Windows, XdgRequest(w) PROVE TargetsThere'
    BY <1>6, InteractsAtTarget DEF XdgRequest, aroundVars
  <1>7. CASE UNCHANGED vars
    BY <1>1, <1>7 DEF vars
  <1>8. ASSUME \/ Axis \/ KeyPress
               \/ \E kind : GestureBegin(kind) \/ GestureUpdate(kind) \/ GestureEnd(kind)
               \/ \E s \in Supers : SuperPress(s) \/ SuperRelease(s)
               \/ \E k \in Keyboards : ReleaseTimer(k)
               \/ \E keyboards : ForgetTaps(keyboards)
               \/ \E p \in Pointers : PointerDestroy(p)
               \/ \E c \in Shells : SetShellDragTarget(c) \/ ShellConnect(c)
               \/ Lock \/ LayerFocus \/ FallbackSet
        PROVE  TargetsThere'
    <2>1. UNCHANGED <<win, chrome, inter>> /\ shells \subseteq shells'
      BY <1>8 DEF Axis, KeyPress, GestureBegin, GestureUpdate, GestureEnd, SuperPress,
        SuperRelease, ReleaseTimer, ForgetTaps, PointerDestroy, SetShellDragTarget,
        ShellConnect, Lock, LayerFocus, FallbackSet, modeVars, aroundVars
    <2> QED
      BY <1>1, <2>1
  <1> QED
    BY <1>2, <1>3, <1>4, <1>5, <1>6, <1>7, <1>8, PressAtTarget, WindowAtTarget
    DEF Next, SwipeBegin, SwipeUpdate, SwipeEnd, PinchBegin, PinchUpdate, PinchEnd,
      ApplyKeyboardPolicy, KeyboardDestroy

(* A grab ends with the press that began it, also with several pointers and   *)
(* bindings that take some of the presses, and no mode holds on to a window,  *)
(* a group or a Shell that is gone.                                           *)
THEOREM GrabsEndWithTheirPress == Spec => []GrabsHeld
  <1>1. Init => IInv
    BY InputAssumption, TypeOfInit
    DEF Init, IInv, Held, CapturesHeld, Secure, OwnDrag, TargetsThere
  <1>2. IInv /\ [Next]_vars => IInv'
    BY StepTyped, StepHolds, StepAtTarget DEF IInv
  <1>3. IInv => GrabsHeld
    BY HeldIsEnough DEF IInv
  <1> QED
    BY <1>1, <1>2, <1>3, PTL DEF Spec
=============================================================================
