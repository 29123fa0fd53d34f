----------------------------- MODULE InputModes -----------------------------
(***************************************************************************)
(* What a press of a button or a key does (core/src/input.c).  The         *)
(* compositor has one set of pointer modes for all pointers: a chrome drag *)
(* (of a tab or of a group, begun by the compositor or asked for by the    *)
(* Shell), a resize of the layout, an interactive move or resize of a      *)
(* floating window.  Beside them each pointer remembers the buttons whose  *)
(* press a binding took, each keyboard the Super keys that may turn out to *)
(* be taps, and the touchpad one gesture.  All of it lasts from one event  *)
(* to a later one, and in between the session may lock, the Shell or the   *)
(* window may go and the configuration may be read anew.                   *)
(*                                                                         *)
(* Where the cursor is, which binding matches and how far a drag went are  *)
(* choices.  A window is the only tab of its group.  The recovery panel    *)
(* (fallback.c) is part of it, for its keys are read here.                 *)
(***************************************************************************)
EXTENDS Naturals, FiniteSets

CONSTANTS Pointers, Keyboards, Windows, Shells, None,
          Left, Right, Other,   \* BTN_LEFT, BTN_RIGHT, the other buttons
          CaptureCapacity       \* ONYRION_POINTER_BUTTON_CAPTURE_CAPACITY

Buttons == {Left, Right} \cup Other
Supers == Keyboards \X {"left", "right"}

ASSUME InputAssumption ==
    /\ None \notin Buttons \cup Windows \cup Shells
    /\ CaptureCapacity \in Nat \ {0}

VARIABLES
    \* the rest of the compositor, as far as it is asked
    locked,    \* onyrion_session_lock_active
    layer,     \* onyrion_layer_shell_has_keyboard_focus
    win,       \* what each window is
    shells,    \* the controllers that are connected
    \* the hardware, and what wlroots was told
    held,      \* the buttons that are down, by pointer
    seat,      \* the buttons wlroots counts as pressed
    \* @OnyrionServer
    chrome,    \* chrome_pointer_grab and chrome_drag_*
    hint,      \* chrome_drag_hint_group_id
    resize,    \* layout_resize_pointer_button of the grab
    inter,     \* window_interaction
    gesture,   \* gesture_recognizer
    \* @OnyrionPointer, @OnyrionKeyboard
    captures,  \* button_captures
    tap,       \* standalone_super_left, standalone_super_right
    pending,   \* keyboards with standalone_release_pending
    \* @OnyrionFallbackController
    fallback,  \* fallback_active
    panel,     \* the overlay is enabled
    awaiting,  \* recovery_window_pending
    recovery,  \* recovery_window
    \* recorded for the properties
    effect,    \* what the last step did to the desktop
    touched,   \* Super keys since whose press something else was pressed
    again      \* a terminal was asked for while the panel was hidden

modeVars == <<chrome, hint, resize, inter>>
tapVars == <<tap, pending, touched>>
panelVars == <<fallback, panel, awaiting, recovery, again>>
aroundVars == <<locked, layer, win, shells>>
vars == <<locked, layer, win, shells, held, seat, chrome, hint, resize, inter, gesture,
          captures, tap, pending, fallback, panel, awaiting, recovery, effect, touched,
          again>>

Mapped(w) == win[w] \in {"tiled", "floating", "fullscreen"}
Drags == [subject : {"window", "group"}, of : Windows, button : Buttons,
          active : BOOLEAN, shell : Shells \cup {None}]
Interactions == [source : {"xdg", "binding"}, button : Buttons \cup {None},
                 window : Windows]

TypeOK ==
    /\ {locked, layer, fallback, panel, awaiting, again} \subseteq BOOLEAN
    /\ win \in [Windows -> {"none", "unmapped", "tiled", "floating", "fullscreen"}]
    /\ shells \subseteq Shells
    /\ held \subseteq Pointers \X Buttons
    /\ seat \subseteq Buttons
    /\ chrome \in Drags \cup {None}
    /\ hint \in Windows \cup {None}
    /\ resize \in Buttons \cup {None}
    /\ inter \in Interactions \cup {None}
    /\ gesture \in {"none", "swipe", "pinch", "dead"}
    /\ captures \subseteq [pointer : Pointers, button : Buttons, release : BOOLEAN]
    /\ tap \in [Supers -> {"up", "down", "armed"}]
    /\ pending \subseteq Keyboards
    /\ recovery \in Windows \cup {None}
    /\ effect \in {"none", "action", "grab", "drop", "context", "focus", "tap"}
    /\ touched \subseteq Supers

Init ==
    /\ locked = FALSE /\ layer = FALSE
    /\ win = [w \in Windows |-> "none"]
    /\ shells = {}
    /\ held = {} /\ seat = {}
    /\ chrome = None /\ hint = None /\ resize = None /\ inter = None
    /\ gesture = "none"
    /\ captures = {}
    /\ tap = [s \in Supers |-> "up"] /\ pending = {}
    /\ fallback = TRUE /\ panel = TRUE /\ awaiting = FALSE /\ recovery = None
    /\ effect = "none" /\ touched = {} /\ again = FALSE

-----------------------------------------------------------------------------
\* The guards the handlers share.

\* gestures_allowed, and the same three questions in the button, axis and key
\* handlers.
DesktopListens == ~locked /\ ~layer /\ ~fallback

\* standalone_desktop_action_allowed
TapAllowed == ~locked /\ ~fallback

NoMode == chrome = None /\ resize = None /\ inter = None

IsDown(b) == \E p \in Pointers : <<p, b>> \in held

\* Mutant: the pointer handlers leave an armed tap armed.
CancelArmsNot ==
    /\ touched' = {s \in Supers : tap[s] # "up"}
    /\ UNCHANGED <<tap, pending>>

\* cancel_standalone_modifier_arms, called first by every press, button, axis
\* and gesture handler.
CancelArms ==
    /\ tap' = [s \in Supers |-> IF tap[s] = "armed" THEN "down" ELSE tap[s]]
    /\ touched' = {s \in Supers : tap[s] # "up"}
    /\ UNCHANGED pending

\* other_standalone_modifier_down, on any keyboard.
OthersDown(s) == {t \in Supers \ {s} : tap[t] # "up"}

\* cancel_pending_standalone_release
CancelRelease(keyboards) == pending' = pending \ keyboards

\* queue_standalone_release: what was queued on this keyboard is given up, and
\* the timer may not start.
QueueRelease(k) == pending' = pending \cup {k} \/ CancelRelease({k})

ResetChromeDrag == chrome' = None /\ hint' = None

\* arm_chrome_drag sets neither the Shell's fields nor the hint.
ArmChromeDrag(subject, w, b) ==
    chrome' = [subject |-> subject, of |-> w, button |-> b, active |-> FALSE,
               shell |-> IF chrome = None THEN None ELSE chrome.shell]

\* Mutant: a drag does not hear that its tab or its group went.
CancelChromeDragNot(subject, w) == UNCHANGED <<chrome, hint>>

\* cancel_chrome_drag_owner: a group takes the drags of its windows along.
CancelChromeDrag(subject, w) ==
    IF chrome # None /\ chrome.of = w /\ (subject = "group" \/ chrome.subject = "window")
    THEN ResetChromeDrag ELSE UNCHANGED <<chrome, hint>>

\* window_interaction_window: whether the window can still be moved.
StillMovable(i) == win[i.window] = "floating"

\* finish_window_interaction, once the button that holds it is up.
FinishInteraction(over) == inter' = IF over THEN None ELSE inter

\* onyrion_input_cancel_window_interaction
CancelInteraction(w) ==
    FinishInteraction(inter # None /\ inter.window = w)

Capture(p, b) == {c \in captures : c.pointer = p /\ c.button = b}

\* pointer_capture_begin can find all slots in use.
CanCapture(p, b) ==
    /\ Capture(p, b) = {}
    /\ Cardinality({c \in captures : c.pointer = p}) < CaptureCapacity

BeginCapture(p, b, release) ==
    captures' = captures \cup {[pointer |-> p, button |-> b, release |-> release]}

-----------------------------------------------------------------------------
\* Bindings that move and resize.

\* begin_window_interaction: focusing the window or finding its box may fail.
CanInteract(w) == win[w] = "floating" /\ ~locked /\ ~fallback /\ NoMode

BeginInteraction(w, source, b) ==
    /\ CanInteract(w)
    /\ inter' = [source |-> source, button |-> b, window |-> w]

\* arm_interactive_move_active
InteractiveMove(b) ==
    /\ NoMode
    /\ \E w \in Windows :
        \/ BeginInteraction(w, "binding", b) /\ UNCHANGED <<chrome, hint, resize>>
        \/ win[w] = "tiled" /\ ArmChromeDrag("group", w, b) /\ UNCHANGED <<hint, resize, inter>>

\* arm_interactive_resize_active
InteractiveResize(b) ==
    /\ NoMode
    /\ \E w \in Windows :
        \/ BeginInteraction(w, "binding", b) /\ UNCHANGED <<chrome, hint, resize>>
        \/ win[w] = "tiled" /\ resize' = b /\ UNCHANGED <<chrome, hint, inter>>

-----------------------------------------------------------------------------
\* handle_cursor_button: a press, from the first case that applies.

PressInInteraction(b) ==
    /\ inter # None
    /\ seat' = IF inter.source = "xdg" THEN seat \cup {b} ELSE seat
    /\ effect' = "none"
    /\ UNCHANGED <<modeVars, captures>>

\* The lock surface, or a layer surface under the cursor, gets the press.
PressOnSurface(b) ==
    /\ inter = None
    /\ seat' = seat \cup {b}
    /\ effect' = "none"
    /\ UNCHANGED <<modeVars, captures>>

PressInteractiveBinding(p, b) ==
    /\ inter = None /\ ~locked /\ ~fallback
    /\ \/ /\ InteractiveMove(b) \/ InteractiveResize(b)
          /\ effect' = "grab"
          /\ UNCHANGED captures
       \/ /\ IF CanCapture(p, b) THEN BeginCapture(p, b, FALSE) ELSE UNCHANGED captures
          /\ effect' = "none"
          /\ UNCHANGED modeVars
    /\ UNCHANGED seat

\* A binding for the press, for the release or for both.
PressBinding(p, b) ==
    /\ inter = None /\ ~locked /\ ~fallback
    /\ IF CanCapture(p, b)
       THEN \E release \in BOOLEAN, press \in BOOLEAN :
                /\ press \/ release
                /\ BeginCapture(p, b, release)
                /\ effect' = IF press THEN "action" ELSE "none"
       ELSE effect' = "none" /\ UNCHANGED captures
    /\ UNCHANGED <<seat, modeVars>>

\* The right button on a handle or a tab of the compositor's own.
PressContext(p) ==
    /\ inter = None /\ ~locked
    /\ IF CanCapture(p, Right)
       THEN BeginCapture(p, Right, FALSE) /\ effect' = "context"
       ELSE effect' = "none" /\ UNCHANGED captures
    /\ UNCHANGED <<seat, modeVars>>

\* The left button on a handle, on a tab or on a border.
PressChrome ==
    /\ inter = None /\ ~locked
    /\ \/ /\ \E w \in Windows :
                \/ win[w] # "none" /\ ArmChromeDrag("group", w, Left)
                \/ Mapped(w) /\ ArmChromeDrag("window", w, Left)
          /\ UNCHANGED <<hint, resize, inter>>
       \/ resize' = Left /\ UNCHANGED <<chrome, hint, inter>>
    /\ effect' = "grab"
    /\ UNCHANGED <<seat, captures>>

\* An ordinary click: the Shell closes what is open, the window gets focus.
PressWindow(b) ==
    /\ inter = None /\ ~locked
    /\ seat' = seat \cup {b}
    /\ effect' = "focus"
    /\ UNCHANGED <<modeVars, captures>>

ButtonPress(p, b) ==
    /\ <<p, b>> \notin held
    /\ held' = held \cup {<<p, b>>}
    /\ CancelArms
    /\ \/ PressInInteraction(b) \/ PressOnSurface(b)
       \/ PressInteractiveBinding(p, b) \/ PressBinding(p, b)
       \/ (b = Right /\ PressContext(p))
       \/ (b = Left /\ PressChrome)
       \/ PressWindow(b)
    /\ UNCHANGED <<aroundVars, gesture, panelVars>>

-----------------------------------------------------------------------------
\* handle_cursor_button: a release.

\* execute_pointer_action: a release action is never interactive.
ReleaseCaptured(p, b) ==
    /\ Capture(p, b) # {}
    /\ captures' = captures \ Capture(p, b)
    /\ effect' = IF DesktopListens /\ \E c \in Capture(p, b) : c.release
                 THEN "action" ELSE "none"
    /\ UNCHANGED <<seat, modeVars>>

\* finish_window_interaction
ReleaseInInteraction(p, b) ==
    /\ Capture(p, b) = {} /\ inter # None
    /\ IF inter.source = "xdg"
       THEN /\ seat' = seat \ {b}
            /\ FinishInteraction(seat \ {b} = {})
       ELSE /\ FinishInteraction(b = inter.button)
            /\ UNCHANGED seat
    /\ effect' = "none"
    /\ UNCHANGED <<chrome, hint, resize, captures>>

ReleaseResize(p, b) ==
    /\ Capture(p, b) = {} /\ inter = None /\ resize = b
    /\ resize' = None
    /\ effect' = "none"
    /\ UNCHANGED <<chrome, hint, inter, seat, captures>>

\* Over a layer surface, or in a locked session, the drag is given up.  What
\* a drop does to the groups is the business of Desktop.
ReleaseChromeDrag(p, b) ==
    /\ Capture(p, b) = {} /\ inter = None /\ resize # b
    /\ chrome # None /\ chrome.button = b
    /\ ResetChromeDrag
    /\ effect' \in IF chrome.active /\ ~locked THEN {"none", "drop"} ELSE {"none"}
    /\ UNCHANGED <<resize, inter, seat, captures>>

ReleaseForwarded(p, b) ==
    /\ Capture(p, b) = {} /\ inter = None /\ resize # b
    /\ ~(chrome # None /\ chrome.button = b)
    /\ seat' = seat \ {b}
    /\ effect' = "none"
    /\ UNCHANGED <<modeVars, captures>>

ButtonRelease(p, b) ==
    /\ <<p, b>> \in held
    /\ held' = held \ {<<p, b>>}
    /\ CancelArms
    /\ \/ ReleaseCaptured(p, b) \/ ReleaseInInteraction(p, b) \/ ReleaseResize(p, b)
       \/ ReleaseChromeDrag(p, b) \/ ReleaseForwarded(p, b)
    /\ UNCHANGED <<aroundVars, gesture, panelVars>>

-----------------------------------------------------------------------------
\* process_cursor_motion.  A mode whose target is gone, or that finds the
\* session locked, ends here, and the motion goes on to the next case.

MotionInteraction ==
    \/ FinishInteraction(TRUE)
    \/ /\ inter # None /\ ~locked /\ StillMovable(inter)
       /\ UNCHANGED inter

MotionResize ==
    resize' \in IF resize # None /\ ~locked THEN {resize, None} ELSE {None}

\* The drag starts past a threshold; the hint of a Shell-origin drag lasts
\* while the pointer is over the surface of its group.
MotionChromeDrag ==
    IF chrome = None THEN UNCHANGED <<chrome, hint>>
    ELSE IF locked THEN ResetChromeDrag
    ELSE /\ \E active \in {chrome.active, TRUE} :
                chrome' = [chrome EXCEPT !.active = active]
         /\ hint' \in IF chrome.shell # None THEN {hint, None} ELSE {hint}

\* Focus follows the mouse when no mode is left.
Motion ==
    /\ MotionInteraction
    /\ IF inter' # None
       THEN UNCHANGED <<resize, chrome, hint>> /\ effect' = "none"
       ELSE /\ MotionResize
            /\ IF resize' # None
               THEN UNCHANGED <<chrome, hint>> /\ effect' = "none"
               ELSE /\ MotionChromeDrag
                    /\ effect' \in IF chrome' = None /\ DesktopListens
                                   THEN {"none", "focus"} ELSE {"none"}
    /\ UNCHANGED <<aroundVars, held, seat, gesture, captures, tapVars, panelVars>>

\* handle_cursor_axis: a wheel binding, or the client scrolls.
Axis ==
    /\ CancelArms
    /\ effect' \in IF DesktopListens THEN {"none", "action"} ELSE {"none"}
    /\ UNCHANGED <<aroundVars, held, seat, modeVars, gesture, captures, panelVars>>

-----------------------------------------------------------------------------
\* Gestures.  "dead" is a gesture that was not allowed when it began or was
\* cancelled since.

GestureBegin(kind) ==
    /\ CancelArms
    /\ gesture' = IF DesktopListens THEN kind ELSE "dead"
    /\ effect' = "none"
    /\ UNCHANGED <<aroundVars, held, seat, modeVars, captures, panelVars>>

\* An update of another gesture, or with another number of fingers.
GestureUpdate(kind) ==
    /\ gesture # "none"
    /\ gesture' \in IF gesture = kind THEN {kind, "dead"} ELSE {"dead"}
    /\ effect' = "none"
    /\ UNCHANGED <<aroundVars, held, seat, modeVars, captures, tapVars, panelVars>>

\* Mutant: what was allowed when the gesture began is not asked again.
GestureEndUnasked(kind) ==
    /\ gesture # "none"
    /\ gesture' = "none"
    /\ effect' \in IF gesture = kind THEN {"none", "action"} ELSE {"none"}
    /\ UNCHANGED <<aroundVars, held, seat, modeVars, captures, tapVars, panelVars>>

\* gesture_commit asks again whether the desktop listens.
GestureEnd(kind) ==
    /\ gesture # "none"
    /\ gesture' = "none"
    /\ effect' \in IF gesture = kind /\ DesktopListens THEN {"none", "action"}
                   ELSE {"none"}
    /\ UNCHANGED <<aroundVars, held, seat, modeVars, captures, tapVars, panelVars>>

SwipeBegin == GestureBegin("swipe")
SwipeUpdate == GestureUpdate("swipe")
SwipeEnd == GestureEnd("swipe")
PinchBegin == GestureBegin("pinch")
PinchUpdate == GestureUpdate("pinch")
PinchEnd == GestureEnd("pinch")

-----------------------------------------------------------------------------
\* Keys.  handle_keyboard_key: what comes after the Super keys were looked at.

KeyBinding == effect' \in IF DesktopListens THEN {"none", "action"} ELSE {"none"}

\* onyrion_fallback_expect_recovery_window, and the cancellation when no
\* terminal could be started.
RecoveryTerminal ==
    /\ fallback /\ ~locked /\ ~layer
    /\ awaiting' \in BOOLEAN
    /\ recovery' = None
    /\ again' = (again \/ ~panel)
    /\ effect' = "none"
    /\ UNCHANGED <<fallback, panel>>

\* Any key but Super: a switch of the terminal, a binding, one of the two keys
\* of the recovery panel, or a key for the client.
KeyPress ==
    /\ CancelArms
    /\ \/ KeyBinding /\ UNCHANGED panelVars
       \/ RecoveryTerminal
    /\ UNCHANGED <<aroundVars, held, seat, modeVars, gesture, captures>>

\* handle_standalone_modifier_key: a press.  Another Super key that is down
\* makes it a chord.
SuperPress(s) ==
    /\ tap[s] = "up"
    /\ LET others == OthersDown(s) IN
        /\ \E bound \in BOOLEAN :
            tap' = [t \in Supers |->
                     IF t = s THEN IF bound /\ others = {} /\ TapAllowed THEN "armed" ELSE "down"
                     ELSE IF tap[t] = "armed" THEN "down" ELSE tap[t]]
        /\ touched' = others \cup (IF others = {} THEN {} ELSE {s})
    /\ KeyBinding
    /\ UNCHANGED <<aroundVars, held, seat, modeVars, gesture, captures, pending, panelVars>>

\* A release.  The action waits in case the keyboard is about to be unplugged.
SuperRelease(s) ==
    /\ tap[s] # "up"
    /\ tap' = [tap EXCEPT ![s] = "up"]
    /\ IF tap[s] = "armed" /\ TapAllowed THEN QueueRelease(s[1]) ELSE UNCHANGED pending
    /\ touched' = touched \ {s}
    /\ effect' = "none"
    /\ UNCHANGED <<aroundVars, held, seat, modeVars, gesture, captures, panelVars>>

\* dispatch_standalone_release_timer
ReleaseTimer(k) ==
    /\ k \in pending
    /\ pending' = pending \ {k}
    /\ effect' = IF TapAllowed THEN "tap" ELSE "none"
    /\ UNCHANGED <<aroundVars, held, seat, modeVars, gesture, captures, tap, touched,
                   panelVars>>

ForgetTaps(keyboards) ==
    /\ tap' = [s \in Supers |-> IF s[1] \in keyboards THEN "up" ELSE tap[s]]
    /\ CancelRelease(keyboards)
    /\ touched' = {s \in touched : s[1] \notin keyboards}
    /\ effect' = "none"
    /\ UNCHANGED <<aroundVars, held, seat, modeVars, gesture, captures, panelVars>>

\* reset_all_standalone_modifier_states, when a configuration is applied.
ApplyKeyboardPolicy == ForgetTaps(Keyboards)

\* handle_keyboard_destroy
KeyboardDestroy(k) == ForgetTaps({k})

\* handle_pointer_destroy: libinput has released its buttons.
PointerDestroy(p) ==
    /\ \A b \in Buttons : <<p, b>> \notin held
    /\ captures' = {c \in captures : c.pointer # p}
    /\ effect' = "none"
    /\ UNCHANGED <<aroundVars, held, seat, modeVars, gesture, tapVars, panelVars>>

-----------------------------------------------------------------------------
\* Requests of clients.

\* onyrion_input_begin_shell_drag: the serial proves that the Shell was told
\* of some event, not that the button is still down.
BeginShellDrag(c) ==
    /\ c \in shells /\ NoMode
    /\ \E w \in Windows, b \in Buttons, subject \in {"window", "group"} :
        /\ win[w] \in {"tiled", "floating"}
        /\ chrome' = [subject |-> subject, of |-> w, button |-> b, active |-> FALSE,
                      shell |-> c]
    /\ effect' = "none"
    /\ UNCHANGED <<aroundVars, held, seat, hint, resize, inter, gesture, captures, tapVars,
                   panelVars>>

\* onyrion_input_set_shell_drag_target
SetShellDragTarget(c) ==
    /\ c \in shells
    /\ chrome # None /\ chrome.shell = c /\ chrome.subject = "window"
    /\ hint' \in {w \in Windows : win[w] # "none"} \cup {None}
    /\ effect' = "none"
    /\ UNCHANGED <<aroundVars, held, seat, chrome, resize, inter, gesture, captures, tapVars,
                   panelVars>>

\* handle_window_request_move, handle_window_request_resize: wlroots knows the
\* serial as that of the one button that is pressed.
XdgRequest(w) ==
    /\ Cardinality(seat) = 1
    /\ BeginInteraction(w, "xdg", None)
    /\ effect' = "grab"
    /\ UNCHANGED <<aroundVars, held, seat, chrome, hint, resize, gesture, captures, tapVars,
                   panelVars>>

ShellConnect(c) ==
    /\ shells' = shells \cup {c}
    /\ effect' = "none"
    /\ UNCHANGED <<locked, layer, win, held, seat, modeVars, gesture, captures, tapVars,
                   panelVars>>

\* onyrion_group_surface_owner_destroyed
ShellGone(c) ==
    /\ c \in shells
    /\ shells' = shells \ {c}
    /\ IF chrome # None /\ chrome.shell = c THEN ResetChromeDrag
       ELSE UNCHANGED <<chrome, hint>>
    /\ effect' = "none"
    /\ UNCHANGED <<locked, layer, win, held, seat, resize, inter, gesture, captures, tapVars,
                   panelVars>>

-----------------------------------------------------------------------------
\* Windows come and go.

Become(w, what) ==
    /\ win' = [win EXCEPT ![w] = what]
    /\ effect' = "none"
    /\ UNCHANGED <<locked, layer, shells, held, seat, resize, gesture, captures, tapVars,
                   fallback>>

\* handle_window_map.  The first window to map after a terminal was asked for
\* passes for it (onyrion_fallback_window_mapped).
Map(w) ==
    /\ ~Mapped(w)
    /\ \E what \in {"tiled", "floating"} : Become(w, what)
    /\ IF fallback /\ awaiting
       THEN awaiting' = FALSE /\ recovery' = w /\ panel' = FALSE /\ again' = FALSE
       ELSE UNCHANGED <<panel, awaiting, recovery, again>>
    /\ UNCHANGED <<chrome, hint, inter>>

\* A window is tiled, floated, made fullscreen.
Place(w) ==
    /\ Mapped(w)
    /\ \E what \in {"tiled", "floating", "fullscreen"} : Become(w, what)
    /\ UNCHANGED <<chrome, hint, inter, panel, awaiting, recovery, again>>

\* Mutant: the panel is not shown again.
WindowUnavailableNot(w) ==
    IF recovery = w
    THEN recovery' = None /\ again' = FALSE /\ UNCHANGED <<panel, awaiting>>
    ELSE UNCHANGED <<panel, awaiting, recovery, again>>

\* onyrion_fallback_window_unavailable
WindowUnavailable(w) ==
    IF recovery = w
    THEN recovery' = None /\ panel' = fallback /\ again' = FALSE /\ UNCHANGED awaiting
    ELSE UNCHANGED <<panel, awaiting, recovery, again>>

\* handle_window_unmap
Unmap(w) ==
    /\ Mapped(w)
    /\ Become(w, "unmapped")
    /\ CancelInteraction(w)
    /\ CancelChromeDrag("window", w)
    /\ WindowUnavailable(w)

\* destroy_window, and with the window its group; the window was unmapped.
Destroy(w) ==
    /\ win[w] = "unmapped"
    /\ Become(w, "none")
    /\ CancelChromeDrag("group", w)
    /\ WindowUnavailable(w)
    /\ UNCHANGED inter

\* destroy_group, when the window joins another group.
GroupGone(w) ==
    /\ win[w] # "none"
    /\ CancelChromeDrag("group", w)
    /\ effect' = "none"
    /\ UNCHANGED <<aroundVars, held, seat, resize, inter, gesture, captures, tapVars,
                   panelVars>>

-----------------------------------------------------------------------------
\* The session locks and opens, a launcher takes the keyboard; no mode is
\* told.

Lock ==
    /\ locked' = ~locked
    /\ effect' = "none"
    /\ UNCHANGED <<layer, win, shells, held, seat, modeVars, gesture, captures, tapVars,
                   panelVars>>

LayerFocus ==
    /\ layer' = ~layer
    /\ effect' = "none"
    /\ UNCHANGED <<locked, win, shells, held, seat, modeVars, gesture, captures, tapVars,
                   panelVars>>

\* onyrion_fallback_set_active: the controller role was given or taken.
FallbackSet ==
    /\ fallback' = ~fallback
    /\ panel' = ~fallback
    /\ awaiting' = FALSE /\ recovery' = None /\ again' = FALSE
    /\ effect' = "none"
    /\ UNCHANGED <<aroundVars, held, seat, modeVars, gesture, captures, tapVars>>

-----------------------------------------------------------------------------
Next ==
    \/ \E p \in Pointers, b \in Buttons : ButtonPress(p, b) \/ ButtonRelease(p, b)
    \/ Motion \/ Axis
    \/ SwipeBegin \/ SwipeUpdate \/ SwipeEnd
    \/ PinchBegin \/ PinchUpdate \/ PinchEnd
    \/ KeyPress
    \/ \E s \in Supers : SuperPress(s) \/ SuperRelease(s)
    \/ \E k \in Keyboards : ReleaseTimer(k) \/ KeyboardDestroy(k)
    \/ ApplyKeyboardPolicy
    \/ \E p \in Pointers : PointerDestroy(p)
    \/ \E c \in Shells : BeginShellDrag(c) \/ SetShellDragTarget(c) \/ ShellConnect(c)
                         \/ ShellGone(c)
    \/ \E w \in Windows : XdgRequest(w) \/ Map(w) \/ Place(w) \/ Unmap(w) \/ Destroy(w)
                          \/ GroupGone(w)
    \/ Lock \/ LayerFocus \/ FallbackSet

Spec == Init /\ [][Next]_vars

-----------------------------------------------------------------------------
\* Properties.

(* While the session is locked nothing of the desktop moves: no binding, no   *)
(* gesture, no drop, no grab and no tap that was begun before the lock takes  *)
(* effect behind it; and while the recovery panel is up no binding, gesture   *)
(* or tap of the configuration does (input.c:722, 3100, 3698).                *)
InertBehindLock ==
    /\ effect # "none" => ~locked
    /\ effect \in {"action", "tap"} => ~fallback

(* A Super key counts as tapped only if nothing else was pressed since it     *)
(* went down, on any keyboard or pointer, and two are never armed at a time   *)
(* (handle_standalone_modifier_key, cancel_standalone_modifier_arms).         *)
CleanTap ==
    \A s \in Supers : tap[s] = "armed" =>
        /\ s \notin touched
        /\ \A t \in Supers \ {s} : tap[t] = "up"

(* A grab the compositor began at a press lasts no longer than its button is  *)
(* down, and no mode outlives what it holds on to: the window of an           *)
(* interaction and the tab of a drag are mapped, the group of a drag exists,  *)
(* and the Shell that gets the motion of its drag is connected                *)
(* (handle_cursor_button, cancel_chrome_drag_owner, handle_window_unmap).     *)
GrabsHeld ==
    /\ chrome # None =>
        /\ chrome.shell = None => IsDown(chrome.button)
        /\ chrome.shell # None => chrome.shell \in shells
        /\ IF chrome.subject = "window" THEN Mapped(chrome.of) ELSE win[chrome.of] # "none"
    /\ resize # None => IsDown(resize)
    /\ inter # None =>
        /\ Mapped(inter.window)
        /\ inter.source = "binding" => IsDown(inter.button)

(* A recovery panel that is hidden is hidden by a window that is mapped, or a *)
(* second terminal was asked for while it was (fallback.c:389).               *)
PanelReturns == (fallback /\ ~panel) => (again \/ (recovery # None /\ Mapped(recovery)))
=============================================================================
