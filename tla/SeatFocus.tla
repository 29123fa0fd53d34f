------------------------------ MODULE SeatFocus ------------------------------
(***************************************************************************)
(* Who receives what is typed.  Four parties ask for the keyboard: the     *)
(* lock surfaces, layer surfaces with exclusive or on-demand interest, the *)
(* windows, and keyboards that are plugged and unplugged.  They meet in    *)
(* onyrion_input_focus_surface, which drops a request for a surface the    *)
(* lock does not allow and, silently, any request made while the seat has  *)
(* no keyboard.                                                            *)
(*                                                                         *)
(* Desktop says which window is the active one and SessionLock when the    *)
(* locker is told "locked"; both are left open here.                       *)
(***************************************************************************)
EXTENDS Naturals, Sequences, SequencesExt

CONSTANTS Windows, Layers, LockSurfaces, Keyboards, None

Surfaces == Windows \cup Layers \cup LockSurfaces

ASSUME SeatAssumption ==
    /\ None \notin Surfaces \cup Keyboards
    /\ Windows \cap Layers = {}
    /\ (Windows \cup Layers) \cap LockSurfaces = {}

VARIABLES
    \* @LockController
    locker,      \* a lock object is attached
    secure,      \* the desktop is hidden
    lockedSent,  \* the locker was told "locked"
    lockList,    \* the lock surfaces, oldest first
    \* @OnyrionServer
    layerList,   \* layer_surfaces, oldest first
    layer,       \* what each layer surface last committed
    keyboards,   \* the keyboards plugged in
    mapped,      \* the windows on show
    active,      \* active_group->active
    \* @wlr_seat
    seat         \* kbd: the seat's keyboard, focus: the surface with the
                 \* keyboard, and, as history, missed: "dropped" when a
                 \* request was lost for want of a keyboard and none was
                 \* carried out since, "replugged" once one is plugged in

lockVars == <<locker, secure, lockedSent, lockList>>
layerVars == <<layerList, layer>>
windowVars == <<mapped, active>>
vars == <<lockVars, layerVars, keyboards, windowVars, seat>>

Kinds == {"overlay", "top", "low"}
Modes == {"none", "exclusive", "demand"}
Absent == [mapped |-> FALSE, kind |-> "low", mode |-> "none"]
Seat == [kbd : Keyboards \cup {None},
         focus : Surfaces \cup {None},
         missed : {"no", "dropped", "replugged"}]

TypeOK ==
    /\ locker \in BOOLEAN
    /\ secure \in BOOLEAN
    /\ lockedSent \in BOOLEAN
    /\ lockList \in Seq(LockSurfaces)
    /\ layerList \in Seq(Layers)
    /\ layer \in [Layers -> [mapped : BOOLEAN, kind : Kinds, mode : Modes]]
    /\ keyboards \subseteq Keyboards
    /\ mapped \subseteq Windows
    /\ active \in Windows \cup {None}
    /\ seat \in Seat
    /\ seat.kbd \in keyboards \cup {None}

Init ==
    /\ locker = FALSE
    /\ secure = FALSE
    /\ lockedSent = FALSE
    /\ lockList = << >>
    /\ layerList = << >>
    /\ layer = [l \in Layers |-> Absent]
    /\ keyboards = {}
    /\ mapped = {}
    /\ active = None
    /\ seat = [kbd |-> None, focus |-> None, missed |-> "no"]

-----------------------------------------------------------------------------
\* Moving the keyboard.  e is the seat before, the value the seat after; sec
\* and open are the lock state at the call.

Cleared(e) == [e EXCEPT !.focus = None, !.missed = "no"]

\* Mutant: the lock is not asked.
FocusSurfaceUnchecked(e, sec, open, s) ==
    IF e.kbd = None
    THEN [e EXCEPT !.missed = "dropped"]
    ELSE [e EXCEPT !.focus = s, !.missed = "no"]

\* onyrion_input_focus_surface for a surface that is not NULL.
FocusSurface(e, sec, open, s) ==
    IF sec /\ s \notin open
    THEN e
    ELSE IF e.kbd = None
         THEN [e EXCEPT !.missed = "dropped"]
         ELSE [e EXCEPT !.focus = s, !.missed = "no"]

\* focus_first
FocusFirst(e, list) ==
    IF list = << >>
    THEN Cleared(e)
    ELSE FocusSurface(e, TRUE, Range(list), list[1])

Exclusive(list, ly, kind) ==
    {i \in DOMAIN list : /\ ly[list[i]].mapped
                         /\ ly[list[i]].kind = kind
                         /\ ly[list[i]].mode = "exclusive"}

\* top_exclusive_surface: the newest on the overlay, else the newest on top.
TopExclusive(list, ly) ==
    LET over == Exclusive(list, ly, "overlay")
        top == Exclusive(list, ly, "top")
    IN  CASE over # {} -> list[Max(over)]
          [] over = {} /\ top # {} -> list[Max(top)]
          [] OTHER -> None

\* onyrion_input_focus_window
FocusWindow(e, sec, open, exclusive, shown, w) ==
    IF sec \/ exclusive # None THEN e
    ELSE IF w \in shown THEN FocusSurface(e, sec, open, w) ELSE Cleared(e)

\* Mutant: an unmapped surface keeps the keyboard.
RefreshKeyboardFocusKeeps(e, sec, open, list, ly) ==
    LET exclusive == TopExclusive(list, ly)
    IN  IF exclusive # None THEN FocusSurface(e, sec, open, exclusive) ELSE e

\* onyrion_layer_shell_refresh_keyboard_focus; only a surface still in the
\* list counts as a layer surface that has the keyboard.
RefreshKeyboardFocus(e, sec, open, list, ly) ==
    LET exclusive == TopExclusive(list, ly)
        lost == /\ e.focus \in Range(list)
                /\ ~ly[e.focus].mapped \/ ly[e.focus].mode = "none"
    IN  IF exclusive # None THEN FocusSurface(e, sec, open, exclusive)
        ELSE IF lost THEN FocusWindow(e, sec, open, None, mapped, active)
        ELSE e

-----------------------------------------------------------------------------
\* Windows: Desktop decides which window is active, and asks for the keyboard
\* for it whenever that changes.

ActiveIs(shown, w) ==
    /\ mapped' = shown
    /\ active' = w
    /\ seat' = FocusWindow(seat, secure, Range(lockList),
                           TopExclusive(layerList, layer), shown, w)
    /\ UNCHANGED <<lockVars, layerVars, keyboards>>

\* onyrion_group_window_mapped, with the focus it gives.
WindowMap(w) ==
    /\ w \notin mapped
    /\ ActiveIs(mapped \cup {w}, w)

\* onyrion_group_window_unmapped: another window of the group, or another
\* group, or nothing becomes active.
WindowUnmap(w) ==
    /\ w \in mapped
    /\ \/ /\ w = active
          /\ \E next \in (mapped \ {w}) \cup {None} : ActiveIs(mapped \ {w}, next)
       \/ /\ w # active
          /\ mapped' = mapped \ {w}
          /\ UNCHANGED <<lockVars, layerVars, keyboards, active, seat>>

\* A click, a command of the shell or a binding: set_active_window.
WindowFocus(w) ==
    /\ w \in mapped
    /\ ActiveIs(mapped, w)

-----------------------------------------------------------------------------
\* Layer surfaces.

\* handle_new_surface
LayerNew(l) ==
    /\ l \notin Range(layerList)
    /\ layerList' = Append(layerList, l)
    /\ UNCHANGED <<lockVars, layer, keyboards, windowVars, seat>>

LayersAre(list, ly) ==
    /\ layerList' = list
    /\ layer' = ly
    /\ seat' = RefreshKeyboardFocus(seat, secure, Range(lockList), list, ly)
    /\ UNCHANGED <<lockVars, keyboards, windowVars>>

\* handle_surface_map and handle_surface_commit: the first buffer maps the
\* surface, and every later commit may change its layer and its interest.
LayerCommit(l, kind, mode) ==
    /\ l \in Range(layerList)
    /\ LayersAre(layerList,
                 [layer EXCEPT ![l] = [mapped |-> TRUE, kind |-> kind, mode |-> mode]])

\* handle_surface_commit after the first one, still without a buffer.
LayerCommitUnmapped(l) ==
    /\ l \in Range(layerList)
    /\ ~layer[l].mapped
    /\ LayersAre(layerList, layer)

\* handle_surface_unmap
LayerUnmap(l) ==
    /\ layer[l].mapped
    /\ LayersAre(layerList, [layer EXCEPT ![l].mapped = FALSE])

\* handle_surface_destroy: a surface that is on show is unmapped first.
LayerDestroy(i) ==
    LET l == layerList[i]
        hidden == [layer EXCEPT ![l].mapped = FALSE]
        unmapped == IF layer[l].mapped
                    THEN RefreshKeyboardFocus(seat, secure, Range(lockList), layerList, hidden)
                    ELSE seat
        list == RemoveAt(layerList, i)
        gone == [layer EXCEPT ![l] = Absent]
    IN  /\ layerList' = list
        /\ layer' = gone
        /\ seat' = RefreshKeyboardFocus(unmapped, secure, Range(lockList), list, gone)
        /\ UNCHANGED <<lockVars, keyboards, windowVars>>

\* onyrion_layer_shell_focus_at_cursor, on a press while the session is open.
LayerClick(l) ==
    /\ ~secure
    /\ layer[l].mapped
    /\ layer[l].mode # "none"
    /\ seat' = FocusSurface(seat, secure, Range(lockList), l)
    /\ UNCHANGED <<lockVars, layerVars, keyboards, windowVars>>

-----------------------------------------------------------------------------
\* Keyboards.

\* The seat with the keyboard that was just plugged in.
Plugged(k) ==
    [seat EXCEPT !.kbd = k,
                 !.missed = IF @ = "no" THEN "no" ELSE "replugged"]

\* add_keyboard
KeyboardAdd(k) ==
    LET e == Plugged(k) IN
    /\ k \notin keyboards
    /\ keyboards' = keyboards \cup {k}
    /\ seat' = IF secure
               THEN FocusFirst(e, lockList)
               ELSE FocusWindow(e, secure, Range(lockList),
                                TopExclusive(layerList, layer), mapped, active)
    /\ UNCHANGED <<lockVars, layerVars, windowVars>>

\* handle_keyboard_destroy; the seat forgets its keyboard and does not look
\* for another.
KeyboardRemove(k) ==
    /\ k \in keyboards
    /\ keyboards' = keyboards \ {k}
    /\ seat' = IF seat.kbd = k THEN [seat EXCEPT !.kbd = None] ELSE seat
    /\ UNCHANGED <<lockVars, layerVars, windowVars>>

\* handle_keyboard_key and handle_keyboard_modifiers, when no binding takes
\* the key: the seat follows the keyboard, the focus stays.
KeyboardKey(k) ==
    /\ k \in keyboards
    /\ seat' = [seat EXCEPT !.kbd = k]
    /\ UNCHANGED <<lockVars, layerVars, keyboards, windowVars>>

-----------------------------------------------------------------------------
\* The lock.

\* handle_new_lock with enter_secure
Lock ==
    /\ ~locker
    /\ locker' = TRUE
    /\ secure' = TRUE
    /\ lockedSent' = FALSE
    /\ seat' = IF secure THEN seat ELSE Cleared(seat)
    /\ UNCHANGED <<lockList, layerVars, keyboards, windowVars>>

\* maybe_send_locked: when it is sent is the subject of SessionLock.
LockedSent ==
    /\ locker
    /\ secure
    /\ ~lockedSent
    /\ lockedSent' = TRUE
    /\ UNCHANGED <<locker, secure, lockList, layerVars, keyboards, windowVars, seat>>

\* handle_new_surface of session_lock.c
LockSurfaceNew(s) ==
    LET list == Append(lockList, s) IN
    /\ locker
    /\ s \notin Range(lockList)
    /\ lockList' = list
    /\ seat' = IF secure /\ seat.focus \notin Range(list)
               THEN FocusSurface(seat, secure, Range(list), s)
               ELSE seat
    /\ UNCHANGED <<locker, secure, lockedSent, layerVars, keyboards, windowVars>>

\* handle_surface_destroy of session_lock.c
LockSurfaceDestroy(i) ==
    LET list == RemoveAt(lockList, i)
        left == IF seat.focus = lockList[i] THEN Cleared(seat) ELSE seat
    IN  /\ lockList' = list
        /\ seat' = IF secure THEN FocusFirst(left, list) ELSE left
        /\ UNCHANGED <<locker, secure, lockedSent, layerVars, keyboards, windowVars>>

\* onyrion_session_lock_focus_at_cursor, on a press while the session is locked.
LockClick(s) ==
    /\ secure
    /\ s \in Range(lockList)
    /\ seat' = FocusSurface(seat, secure, Range(lockList), s)
    /\ UNCHANGED <<lockVars, layerVars, keyboards, windowVars>>

\* Mutant: the keyboard stays where the lock left it.
LeaveSecureSilent(e) == e

\* The focus change of leave_secure.
LeaveSecure(e) == RefreshKeyboardFocus(e, FALSE, {}, layerList, layer)

\* handle_unlock with leave_secure; wlroots then destroys the lock surfaces
\* and the lock object.
Unlock ==
    LET e == LeaveSecure(seat) IN
    /\ locker
    /\ lockedSent
    /\ locker' = FALSE
    /\ secure' = FALSE
    /\ lockedSent' = FALSE
    /\ lockList' = << >>
    /\ seat' = IF e.focus \in Range(lockList) THEN Cleared(e) ELSE e
    /\ UNCHANGED <<layerVars, keyboards, windowVars>>

\* handle_lock_destroy for a locker that died: its surfaces go first.  A
\* session whose locker was told "locked" stays hidden.
LockerGone ==
    LET e == IF lockList = << >> THEN seat ELSE Cleared(seat) IN
    /\ locker
    /\ locker' = FALSE
    /\ lockedSent' = FALSE
    /\ lockList' = << >>
    /\ secure' = lockedSent
    /\ seat' = IF lockedSent THEN Cleared(e) ELSE LeaveSecure(e)
    /\ UNCHANGED <<layerVars, keyboards, windowVars>>

-----------------------------------------------------------------------------
\* wlroots takes the keyboard from a surface that is destroyed while it has it.
SurfaceDestroyed ==
    /\ \/ seat.focus \in Windows \ mapped
       \/ seat.focus \in Layers \ Range(layerList)
    /\ seat' = Cleared(seat)
    /\ UNCHANGED <<lockVars, layerVars, keyboards, windowVars>>

WindowStep ==
    \E w \in Windows : WindowMap(w) \/ WindowUnmap(w) \/ WindowFocus(w)

LayerStep ==
    \/ \E l \in Layers :
          \/ LayerNew(l)
          \/ \E kind \in Kinds, mode \in Modes : LayerCommit(l, kind, mode)
          \/ LayerCommitUnmapped(l)
          \/ LayerUnmap(l)
          \/ LayerClick(l)
    \/ \E i \in DOMAIN layerList : LayerDestroy(i)

KeyboardStep ==
    \E k \in Keyboards : KeyboardAdd(k) \/ KeyboardRemove(k) \/ KeyboardKey(k)

LockStep ==
    \/ Lock
    \/ LockedSent
    \/ \E s \in LockSurfaces : LockSurfaceNew(s) \/ LockClick(s)
    \/ \E i \in DOMAIN lockList : LockSurfaceDestroy(i)
    \/ Unlock
    \/ LockerGone

Next == WindowStep \/ LayerStep \/ KeyboardStep \/ LockStep \/ SurfaceDestroyed

Spec == Init /\ [][Next]_vars

-----------------------------------------------------------------------------
\* While the desktop is hidden nothing but a surface of the present locker has
\* the keyboard: what a user types at the lock screen, a password, reaches no
\* window and no panel, whatever maps, commits or is plugged in meanwhile.
SecureFocus ==
    secure => seat.focus \in Range(lockList) \cup {None}

\* A locker that shows a surface can be typed into: one of its surfaces has the
\* keyboard.  The exception is a request that came when the seat had no
\* keyboard, until one is plugged in.
LockerServed ==
    secure /\ lockList # << >> /\ seat.missed # "dropped" => seat.focus \in Range(lockList)

\* While a surface with exclusive interest is on show no window has the
\* keyboard, unless the request for it was lost for want of a keyboard.
ExclusiveHolds ==
    TopExclusive(layerList, layer) # None /\ seat.missed = "no" => seat.focus \notin Windows

\* The keyboard is never left with a surface that is off the screen or gave
\* up its interest, unless the request that moves it away was lost.
FocusAlive ==
    seat.missed = "no" =>
        /\ seat.focus \in Windows => seat.focus \in mapped
        /\ seat.focus \in Layers =>
               layer[seat.focus].mapped /\ layer[seat.focus].mode # "none"
        /\ seat.focus \in LockSurfaces => secure /\ seat.focus \in Range(lockList)

\* A request for the keyboard is lost only for want of a keyboard.
FocusKept == ExclusiveHolds /\ FocusAlive

\* An exclusive surface that waited behind the lock has the keyboard as soon as
\* the session opens; on the overlay before on top, the newest first.
UnlockServesExclusive ==
    [][secure /\ ~secure' /\ seat.kbd # None /\ TopExclusive(layerList, layer) # None
         => seat'.focus = TopExclusive(layerList, layer)]_vars

\* Whoever the lock keeps waiting gets the keyboard: the locker while the
\* session is locked, the exclusive surface when it opens.
WaitingServed == []LockerServed /\ UnlockServesExclusive
=============================================================================
