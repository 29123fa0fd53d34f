-------------------------- MODULE SeatFocus_proofs --------------------------
(***************************************************************************)
(* Proofs about SeatFocus for any windows, layers, lock surfaces and       *)
(* keyboards.                                                              *)
(*                                                                         *)
(* While the session is locked the keyboard moves only through             *)
(* FocusSurface and Cleared, and both leave it with a surface the lock     *)
(* allows (FocusKeeps, RefreshKeeps).  SecureFocus needs one fact more to  *)
(* be inductive: the list of lock surfaces only shrinks while it is        *)
(* examined, so a surface that stays in the list stays allowed.            *)
(*                                                                         *)
(* The second half is about requests that are kept.  FocusKept is not      *)
(* inductive: that no window has the keyboard past an exclusive surface    *)
(* holds on only because a window that has it is the active one, which a   *)
(* refresh moves away (KeptInv), and because every mapped layer surface is *)
(* still listed, so that a refresh finds it (ListsInv).  The operators     *)
(* that move the keyboard keep Kept for any seat (RefreshKept, WindowKept, *)
(* LockSurfaceKept, FirstKept), and every action is made of them.          *)
(***************************************************************************)
EXTENDS SeatFocus, SequenceTheorems, WellFoundedInduction, TLAPS

IInv == TypeOK /\ SecureFocus

\* The keyboard of a seat is with a surface the lock allows.
Allowed(e, sec, open) == sec => e.focus \in open \cup {None}

-----------------------------------------------------------------------------
LEMMA MaxOfSeqDomain ==
  ASSUME NEW n \in Nat, NEW I \in SUBSET (1..n), I # {}
  PROVE  Max(I) \in I
  <1> DEFINE R == OpToRel(<, Nat)
             D == {k \in Nat : n - k \in I}
  <1>1. \A x, y \in Nat : x < y => <<x, y>> \in R
    BY DEF OpToRel
  <1>2. IsWellFoundedOn(R, Nat)
    BY NatLessThanWellFounded
  <1>3. D # {}
    <2>1. PICK i \in I : TRUE
      OBVIOUS
    <2>2. n - i \in D
      BY <2>1
    <2> QED
      BY <2>2
  <1>4. PICK d \in D : \A k \in D : ~(<<k, d>> \in R)
    <2> HIDE DEF R
    <2> QED
      BY <1>2, <1>3, WFMin
  <1>5. \A i \in I : n - d >= i
    <2>1. SUFFICES ASSUME NEW i \in I PROVE n - d >= i
      OBVIOUS
    <2>2. n - i \in D
      OBVIOUS
    <2>3. i \in 1..n /\ d \in Nat /\ n - i \in Nat
      OBVIOUS
    <2> HIDE DEF R, D
    <2>4. ~(n - i < d)
      BY <1>1, <1>4, <2>2, <2>3
    <2> QED
      BY <2>3, <2>4
  <1> QED
    BY <1>4, <1>5 DEF Max

LEMMA TopExclusiveType ==
  ASSUME NEW list \in Seq(Layers), NEW ly
  PROVE  TopExclusive(list, ly) \in Layers \cup {None}
  <1>1. \A kind : Exclusive(list, ly, kind) # {}
                    => list[Max(Exclusive(list, ly, kind))] \in Layers
    <2> SUFFICES ASSUME NEW kind, Exclusive(list, ly, kind) # {}
                 PROVE  list[Max(Exclusive(list, ly, kind))] \in Layers
      OBVIOUS
    <2>1. Len(list) \in Nat /\ Exclusive(list, ly, kind) \in SUBSET (1..Len(list))
      BY LenProperties DEF Exclusive
    <2>2. Max(Exclusive(list, ly, kind)) \in 1..Len(list)
      BY <2>1, MaxOfSeqDomain
    <2> QED
      BY <2>2
  <1> QED
    BY <1>1 DEF TopExclusive

LEMMA RangeOfAppend ==
  ASSUME NEW S, NEW list \in Seq(S), NEW s \in S
  PROVE  /\ Append(list, s) \in Seq(S)
         /\ Range(list) \subseteq Range(Append(list, s))
         /\ s \in Range(Append(list, s))
  BY SMTT(30) DEF Range

LEMMA RemoveAtType ==
  ASSUME NEW S, NEW list \in Seq(S), NEW i \in DOMAIN list
  PROVE  /\ RemoveAt(list, i) \in Seq(S)
         /\ \A x \in Range(list) : x = list[i] \/ x \in Range(RemoveAt(list, i))
  <1> DEFINE a == SubSeq(list, 1, i - 1)
             b == SubSeq(list, i + 1, Len(list))
  <1>1. a \in Seq(S) /\ Len(a) = i - 1 /\ \A j \in 1..(i - 1) : a[j] = list[j]
    OBVIOUS
  <1>2. /\ b \in Seq(S)
        /\ Len(b) = Len(list) - i
        /\ \A j \in 1..(Len(list) - i) : b[j] = list[i + j]
    OBVIOUS
  <1>3. RemoveAt(list, i) = a \o b
    BY DEF RemoveAt
  <1>4. ASSUME NEW j \in DOMAIN list, j # i
        PROVE  list[j] \in Range(a \o b)
    <2> HIDE DEF a, b
    <2>1. CASE j < i
      <3>1. j \in DOMAIN (a \o b) /\ (a \o b)[j] = list[j]
        BY <1>1, <1>2, <2>1
      <3> QED
        BY <3>1 DEF Range
    <2>2. CASE j > i
      <3>1. j - 1 \in DOMAIN (a \o b) /\ (a \o b)[j - 1] = b[j - i]
        BY <1>1, <1>2, <2>2, SMTT(30)
      <3>2. b[j - i] = list[j]
        BY <1>2, <2>2
      <3> QED
        BY <3>1, <3>2 DEF Range
    <2> QED
      BY <1>4, <2>1, <2>2
  <1>5. a \o b \in Seq(S)
    BY <1>1, <1>2
  <1> QED
    BY <1>3, <1>4, <1>5 DEF Range

-----------------------------------------------------------------------------
\* What the operators that move the keyboard keep.

LEMMA FocusKeeps ==
  ASSUME NEW e \in Seat, NEW sec \in BOOLEAN, NEW open, NEW s \in Surfaces
  PROVE  /\ FocusSurface(e, sec, open, s) \in Seat
         /\ FocusSurface(e, sec, open, s).kbd = e.kbd
         /\ Allowed(e, sec, open) => Allowed(FocusSurface(e, sec, open, s), sec, open)
         /\ Cleared(e) \in Seat
         /\ Cleared(e).kbd = e.kbd
         /\ Allowed(Cleared(e), sec, open)
  BY DEF Seat, FocusSurface, Cleared, Allowed

LEMMA ClearedKeeps ==
  ASSUME NEW e \in Seat, NEW sec \in BOOLEAN, NEW open
  PROVE  /\ Cleared(e) \in Seat
         /\ Cleared(e).kbd = e.kbd
         /\ Cleared(e).focus = None
  BY DEF Seat, Cleared

LEMMA FocusWindowKeeps ==
  ASSUME NEW e \in Seat, NEW sec \in BOOLEAN, NEW open, NEW exclusive,
         NEW shown \in SUBSET Windows, NEW w
  PROVE  /\ FocusWindow(e, sec, open, exclusive, shown, w) \in Seat
         /\ FocusWindow(e, sec, open, exclusive, shown, w).kbd = e.kbd
         /\ sec => FocusWindow(e, sec, open, exclusive, shown, w) = e
  BY FocusKeeps, ClearedKeeps DEF FocusWindow, Surfaces

LEMMA RefreshKeeps ==
  ASSUME TypeOK, NEW e \in Seat, NEW sec \in BOOLEAN, NEW open,
         NEW list \in Seq(Layers), NEW ly
  PROVE  LET r == RefreshKeyboardFocus(e, sec, open, list, ly) IN
         /\ r \in Seat
         /\ r.kbd = e.kbd
         /\ Allowed(e, sec, open) => Allowed(r, sec, open)
  <1> DEFINE x == TopExclusive(list, ly)
             r == RefreshKeyboardFocus(e, sec, open, list, ly)
  <1>1. x \in Layers \cup {None}
    BY TopExclusiveType
  <1> HIDE DEF x
  <1>2. \/ r = e
        \/ x \in Surfaces /\ r = FocusSurface(e, sec, open, x)
        \/ r = FocusWindow(e, sec, open, None, mapped, active)
    BY <1>1 DEF RefreshKeyboardFocus, x, Surfaces
  <1>3. mapped \in SUBSET Windows
    BY DEF TypeOK
  <1> HIDE DEF r
  <1>4. /\ r \in Seat
        /\ r.kbd = e.kbd
        /\ Allowed(e, sec, open) => Allowed(r, sec, open)
    BY <1>2, <1>3, FocusKeeps, FocusWindowKeeps DEF Allowed
  <1> QED
    BY <1>4 DEF r

LEMMA FocusFirstKeeps ==
  ASSUME NEW e \in Seat, NEW list \in Seq(LockSurfaces)
  PROVE  /\ FocusFirst(e, list) \in Seat
         /\ FocusFirst(e, list).kbd = e.kbd
         /\ e.focus \in Range(list) \cup {None}
              => FocusFirst(e, list).focus \in Range(list) \cup {None}
  <1>1. CASE list = << >>
    BY <1>1, ClearedKeeps DEF FocusFirst
  <1>2. CASE list # << >>
    <2>1. list[1] \in LockSurfaces /\ list[1] \in Range(list)
      BY <1>2 DEF Range
    <2> DEFINE open == Range(list)
               f == FocusSurface(e, TRUE, open, list[1])
    <2>2. FocusFirst(e, list) = f
      BY <1>2 DEF FocusFirst
    <2>3. /\ f \in Seat
          /\ f.kbd = e.kbd
          /\ Allowed(e, TRUE, open) => Allowed(f, TRUE, open)
      <3>1. TRUE \in BOOLEAN /\ list[1] \in Surfaces
        BY <2>1 DEF Surfaces
      <3> HIDE DEF open
      <3> QED
        BY <3>1, FocusKeeps
    <2> QED
      BY <2>2, <2>3 DEF Allowed
  <1> QED
    BY <1>1, <1>2

-----------------------------------------------------------------------------
\* A step that leaves the lock alone keeps IInv when the keyboard stays allowed.
LEMMA QuietStep ==
  ASSUME TypeOK', Allowed(seat', secure, Range(lockList)),
         UNCHANGED <<secure, lockList>>
  PROVE  IInv'
  BY DEF IInv, SecureFocus, Allowed

LEMMA InitHolds == Init => IInv
  <1> SUFFICES ASSUME Init PROVE IInv
    OBVIOUS
  <1>1. seat \in Seat /\ seat.kbd = None
    BY DEF Init, Seat
  <1>2. layer \in [Layers -> [mapped : BOOLEAN, kind : Kinds, mode : Modes]]
    BY DEF Init, Absent, Kinds, Modes
  <1>3. lockList \in Seq(LockSurfaces) /\ layerList \in Seq(Layers)
    BY DEF Init
  <1>4. TypeOK
    BY <1>1, <1>2, <1>3 DEF Init, TypeOK
  <1> QED
    BY <1>4 DEF Init, IInv, SecureFocus

LEMMA WindowsKeep == IInv /\ WindowStep => IInv'
  <1> SUFFICES ASSUME IInv, NEW w \in Windows,
                      WindowMap(w) \/ WindowUnmap(w) \/ WindowFocus(w)
               PROVE  IInv'
    BY DEF WindowStep
  <1>1. ASSUME NEW shown \in SUBSET Windows, NEW x \in Windows \cup {None},
               ActiveIs(shown, x)
        PROVE  IInv'
    <2>1. seat' \in Seat /\ seat'.kbd = seat.kbd /\ (secure => seat' = seat)
      BY <1>1, FocusWindowKeeps DEF ActiveIs, IInv, TypeOK
    <2>2. TypeOK'
      BY <1>1, <2>1 DEF ActiveIs, IInv, TypeOK, lockVars, layerVars
    <2> QED
      BY <1>1, <2>1, <2>2, QuietStep
         DEF ActiveIs, IInv, SecureFocus, Allowed, lockVars
  <1>2. CASE WindowMap(w)
    <2>1. mapped \cup {w} \in SUBSET Windows
      BY DEF IInv, TypeOK
    <2> QED
      BY <1>1, <1>2, <2>1 DEF WindowMap
  <1>3. CASE WindowUnmap(w)
    <2>1. CASE w # active
      <3>1. TypeOK' /\ seat' = seat
        BY <1>3, <2>1 DEF WindowUnmap, IInv, TypeOK, lockVars, layerVars
      <3> QED
        BY <1>3, <2>1, <3>1 DEF WindowUnmap, IInv, SecureFocus, lockVars
    <2>2. CASE w = active
      <3>1. PICK next \in (mapped \ {w}) \cup {None} : ActiveIs(mapped \ {w}, next)
        BY <1>3, <2>2 DEF WindowUnmap
      <3>2. mapped \ {w} \in SUBSET Windows /\ next \in Windows \cup {None}
        BY DEF IInv, TypeOK
      <3> QED
        BY <1>1, <3>1, <3>2
    <2> QED
      BY <2>1, <2>2
  <1>4. CASE WindowFocus(w)
    <2>1. mapped \in SUBSET Windows
      BY DEF IInv, TypeOK
    <2> QED
      BY <1>1, <1>4, <2>1 DEF WindowFocus
  <1> QED
    BY <1>2, <1>3, <1>4

LEMMA LayersKeep == IInv /\ LayerStep => IInv'
  <1> SUFFICES ASSUME IInv, LayerStep PROVE IInv'
    OBVIOUS
  <1> USE DEF IInv
  <1>1. Allowed(seat, secure, Range(lockList))
    BY DEF SecureFocus, Allowed
  <1>2. ASSUME NEW ly \in [Layers -> [mapped : BOOLEAN, kind : Kinds, mode : Modes]],
               LayersAre(layerList, ly)
        PROVE  IInv'
    <2>1. /\ seat' \in Seat
          /\ seat'.kbd = seat.kbd
          /\ Allowed(seat', secure, Range(lockList))
      BY <1>1, <1>2, RefreshKeeps DEF LayersAre, TypeOK
    <2>2. TypeOK'
      BY <1>2, <2>1 DEF LayersAre, TypeOK, lockVars, windowVars
    <2> QED
      BY <1>2, <2>1, <2>2, QuietStep DEF LayersAre, lockVars
  <1>3. ASSUME NEW l \in Layers, LayerNew(l) PROVE IInv'
    <2>1. layerList' \in Seq(Layers)
      BY <1>3 DEF LayerNew, TypeOK
    <2>2. TypeOK'
      BY <1>3, <2>1 DEF LayerNew, TypeOK, lockVars, windowVars
    <2> QED
      BY <1>3, <2>2 DEF LayerNew, SecureFocus, lockVars
  <1>4. ASSUME NEW l \in Layers, NEW kind \in Kinds, NEW mode \in Modes,
               LayerCommit(l, kind, mode)
        PROVE  IInv'
    <2>1. [layer EXCEPT ![l] = [mapped |-> TRUE, kind |-> kind, mode |-> mode]]
             \in [Layers -> [mapped : BOOLEAN, kind : Kinds, mode : Modes]]
      BY DEF TypeOK
    <2> QED
      BY <1>2, <1>4, <2>1 DEF LayerCommit
  <1>5. ASSUME NEW l \in Layers, LayerCommitUnmapped(l) PROVE IInv'
    BY <1>2, <1>5 DEF LayerCommitUnmapped, TypeOK
  <1>6. ASSUME NEW l \in Layers, LayerUnmap(l) PROVE IInv'
    <2>1. [layer EXCEPT ![l].mapped = FALSE]
             \in [Layers -> [mapped : BOOLEAN, kind : Kinds, mode : Modes]]
      BY DEF TypeOK
    <2> QED
      BY <1>2, <1>6, <2>1 DEF LayerUnmap
  <1>7. ASSUME NEW l \in Layers, LayerClick(l) PROVE IInv'
    <2>0. seat \in Seat /\ secure \in BOOLEAN /\ l \in Surfaces
      BY DEF TypeOK, Surfaces
    <2>1. seat' \in Seat /\ seat'.kbd = seat.kbd
      BY <1>7, <2>0, FocusKeeps DEF LayerClick
    <2>2. TypeOK'
      BY <1>7, <2>1 DEF LayerClick, TypeOK, lockVars, layerVars, windowVars
    <2> QED
      BY <1>7, <2>2, QuietStep DEF LayerClick, Allowed, lockVars
  <1>8. ASSUME NEW i \in DOMAIN layerList, LayerDestroy(i) PROVE IInv'
    <2> DEFINE l == layerList[i]
               hidden == [layer EXCEPT ![l].mapped = FALSE]
               gone == [layer EXCEPT ![l] = Absent]
               open == Range(lockList)
               list == RemoveAt(layerList, i)
               unmapped == IF layer[l].mapped
                           THEN RefreshKeyboardFocus(seat, secure, open, layerList, hidden)
                           ELSE seat
    <2>1. list \in Seq(Layers) /\ layerList \in Seq(Layers)
      BY RemoveAtType DEF TypeOK
    <2>2. l \in Layers
      BY <2>1
    <2>3. gone \in [Layers -> [mapped : BOOLEAN, kind : Kinds, mode : Modes]]
      BY <2>2 DEF TypeOK, Absent, Kinds, Modes
    <2>4. seat' = RefreshKeyboardFocus(unmapped, secure, open, list, gone)
      BY <1>8 DEF LayerDestroy
    <2> HIDE DEF hidden, gone, open, list
    <2>5. unmapped \in Seat /\ unmapped.kbd = seat.kbd /\ Allowed(unmapped, secure, open)
      BY <1>1, <2>1, RefreshKeeps DEF TypeOK, open
    <2> HIDE DEF unmapped
    <2>6. seat' \in Seat /\ seat'.kbd = seat.kbd /\ Allowed(seat', secure, open)
      BY <2>1, <2>4, <2>5, RefreshKeeps DEF TypeOK
    <2>7. TypeOK'
      BY <1>8, <2>1, <2>3, <2>6
         DEF LayerDestroy, TypeOK, lockVars, windowVars, list, gone
    <2> QED
      BY <1>8, <2>6, <2>7, QuietStep DEF LayerDestroy, lockVars, open
  <1> QED
    BY <1>3, <1>4, <1>5, <1>6, <1>7, <1>8 DEF LayerStep

LEMMA KeyboardsKeep == IInv /\ KeyboardStep => IInv'
  <1> SUFFICES ASSUME IInv, NEW k \in Keyboards,
                      KeyboardAdd(k) \/ KeyboardRemove(k) \/ KeyboardKey(k)
               PROVE  IInv'
    BY DEF KeyboardStep
  <1> USE DEF IInv
  <1>1. ASSUME seat' \in Seat,
               seat'.kbd \in keyboards' \cup {None},
               secure => seat'.focus \in Range(lockList) \cup {None},
               keyboards' \subseteq Keyboards,
               UNCHANGED <<lockVars, layerVars, windowVars>>
        PROVE  IInv'
    <2>1. TypeOK'
      BY <1>1 DEF TypeOK, lockVars, layerVars, windowVars
    <2> QED
      BY <1>1, <2>1, QuietStep DEF Allowed, lockVars
  <1>2. CASE KeyboardAdd(k)
    <2> DEFINE e == Plugged(k)
    <2>1. /\ e \in Seat
          /\ e.kbd = k
          /\ secure => e.focus \in Range(lockList) \cup {None}
      BY DEF Plugged, TypeOK, Seat, SecureFocus
    <2> HIDE DEF e
    <2>2. CASE secure
      <3>1. seat' = FocusFirst(e, lockList)
        BY <1>2, <2>2 DEF KeyboardAdd, e
      <3> QED
        BY <1>1, <1>2, <2>1, <2>2, <3>1, FocusFirstKeeps DEF KeyboardAdd, TypeOK
    <2>3. CASE ~secure
      <3>1. seat' = FocusWindow(e, secure, Range(lockList),
                                TopExclusive(layerList, layer), mapped, active)
        BY <1>2, <2>3 DEF KeyboardAdd, e
      <3>2. seat' \in Seat /\ seat'.kbd = k
        BY <2>1, <3>1, FocusWindowKeeps DEF TypeOK
      <3> QED
        BY <1>1, <1>2, <2>3, <3>2 DEF KeyboardAdd, TypeOK
    <2> QED
      BY <2>2, <2>3
  <1>3. CASE KeyboardRemove(k)
    <2>1. /\ seat' \in Seat
          /\ seat'.focus = seat.focus
          /\ seat'.kbd \in (keyboards \ {k}) \cup {None}
      BY <1>3 DEF KeyboardRemove, TypeOK, Seat
    <2> QED
      BY <1>1, <1>3, <2>1 DEF KeyboardRemove, TypeOK, SecureFocus
  <1>4. CASE KeyboardKey(k)
    <2>1. seat' \in Seat /\ seat'.focus = seat.focus /\ seat'.kbd = k
      BY <1>4 DEF KeyboardKey, TypeOK, Seat
    <2> QED
      BY <1>1, <1>4, <2>1 DEF KeyboardKey, TypeOK, SecureFocus
  <1> QED
    BY <1>2, <1>3, <1>4

LEMMA LockKeeps == IInv /\ LockStep => IInv'
  <1> SUFFICES ASSUME IInv, LockStep PROVE IInv'
    OBVIOUS
  <1> USE DEF IInv
  <1>0. seat \in Seat /\ secure \in BOOLEAN /\ lockList \in Seq(LockSurfaces)
    BY DEF TypeOK
  <1>1. ASSUME locker' \in BOOLEAN,
               secure' \in BOOLEAN,
               lockedSent' \in BOOLEAN,
               lockList' \in Seq(LockSurfaces),
               seat' \in Seat,
               seat'.kbd = seat.kbd,
               secure' => seat'.focus \in Range(lockList') \cup {None},
               UNCHANGED <<layerVars, keyboards, windowVars>>
        PROVE  IInv'
    BY <1>1 DEF TypeOK, SecureFocus, layerVars, windowVars
  <1>2. CASE Lock
    <2>1. seat' \in Seat /\ seat'.kbd = seat.kbd
      BY <1>0, <1>2, ClearedKeeps DEF Lock
    <2>2. seat'.focus \in Range(lockList') \cup {None}
      BY <1>0, <1>2, ClearedKeeps DEF Lock, SecureFocus
    <2> QED
      BY <1>0, <1>1, <1>2, <2>1, <2>2 DEF Lock
  <1>3. CASE LockedSent
    BY <1>0, <1>1, <1>3 DEF LockedSent, TypeOK, SecureFocus
  <1>4. ASSUME NEW s \in LockSurfaces, LockSurfaceNew(s) PROVE IInv'
    <2> DEFINE list == Append(lockList, s)
               open == Range(list)
               f == FocusSurface(seat, secure, open, s)
    <2>1. list \in Seq(LockSurfaces) /\ Range(lockList) \subseteq open
      BY <1>0, RangeOfAppend
    <2>2. s \in Surfaces
      BY DEF Surfaces
    <2>3. lockList' = list /\ (seat' = seat \/ seat' = f)
      BY <1>4 DEF LockSurfaceNew
    <2>4. Allowed(seat, secure, open)
      BY <2>1 DEF SecureFocus, Allowed
    <2> HIDE DEF list, open
    <2>5. f \in Seat /\ f.kbd = seat.kbd /\ Allowed(f, secure, open)
      BY <1>0, <2>2, <2>4 DEF FocusSurface, Seat, Allowed
    <2>6. seat' \in Seat /\ seat'.kbd = seat.kbd /\ Allowed(seat', secure, open)
      BY <1>0, <2>3, <2>4, <2>5
    <2> QED
      BY <1>0, <1>1, <1>4, <2>1, <2>3, <2>6
         DEF LockSurfaceNew, TypeOK, Allowed, open
  <1>5. ASSUME NEW s \in LockSurfaces, LockClick(s) PROVE IInv'
    <2>1. s \in Surfaces
      BY DEF Surfaces
    <2>2. seat' \in Seat /\ seat'.kbd = seat.kbd
          /\ Allowed(seat', secure, Range(lockList))
      BY <1>0, <1>5, <2>1 DEF LockClick, SecureFocus, Allowed, FocusSurface, Seat
    <2> QED
      BY <1>0, <1>1, <1>5, <2>2 DEF LockClick, TypeOK, Allowed, lockVars
  <1>6. ASSUME NEW i \in DOMAIN lockList, LockSurfaceDestroy(i) PROVE IInv'
    <2> DEFINE list == RemoveAt(lockList, i)
               left == IF seat.focus = lockList[i] THEN Cleared(seat) ELSE seat
    <2>1. /\ list \in Seq(LockSurfaces)
          /\ \A x \in Range(lockList) : x = lockList[i] \/ x \in Range(list)
      BY <1>0, RemoveAtType
    <2>2. lockList' = list
      BY <1>6 DEF LockSurfaceDestroy
    <2>3. seat' = IF secure THEN FocusFirst(left, list) ELSE left
      BY <1>6 DEF LockSurfaceDestroy
    <2> HIDE DEF list
    <2>4. /\ left \in Seat
          /\ left.kbd = seat.kbd
          /\ secure => left.focus \in Range(list) \cup {None}
      BY <1>0, <2>1, ClearedKeeps DEF SecureFocus
    <2> HIDE DEF left
    <2>5. /\ seat' \in Seat
          /\ seat'.kbd = seat.kbd
          /\ secure => seat'.focus \in Range(list) \cup {None}
      BY <2>1, <2>3, <2>4, FocusFirstKeeps
    <2> QED
      BY <1>0, <1>1, <1>6, <2>1, <2>2, <2>5 DEF LockSurfaceDestroy, TypeOK
  <1>7. ASSUME NEW e \in Seat PROVE LeaveSecure(e) \in Seat /\ LeaveSecure(e).kbd = e.kbd
    <2>1. TypeOK /\ layerList \in Seq(Layers) /\ FALSE \in BOOLEAN
      BY DEF TypeOK
    <2> QED
      BY <1>7, <2>1, RefreshKeeps, ZenonT(60) DEF LeaveSecure
  <1>8. CASE Unlock
    <2> DEFINE e == LeaveSecure(seat)
    <2>1. e \in Seat /\ e.kbd = seat.kbd
      BY <1>0, <1>7
    <2>2. seat' = e \/ seat' = Cleared(e)
      BY <1>8 DEF Unlock
    <2> HIDE DEF e
    <2>3. seat' \in Seat /\ seat'.kbd = seat.kbd
      BY <2>1, <2>2, ClearedKeeps
    <2>4. << >> \in Seq(LockSurfaces)
      OBVIOUS
    <2> QED
      BY <1>1, <1>8, <2>3, <2>4 DEF Unlock
  <1>9. CASE LockerGone
    <2> DEFINE e == IF lockList = << >> THEN seat ELSE Cleared(seat)
    <2>1. e \in Seat /\ e.kbd = seat.kbd
      BY <1>0, ClearedKeeps
    <2>2. seat' = IF lockedSent THEN Cleared(e) ELSE LeaveSecure(e)
      BY <1>9 DEF LockerGone
    <2> HIDE DEF e
    <2>3. seat' \in Seat /\ seat'.kbd = seat.kbd /\ (lockedSent => seat'.focus = None)
      BY <1>7, <2>1, <2>2, ClearedKeeps
    <2>4. << >> \in Seq(LockSurfaces) /\ lockedSent \in BOOLEAN
      BY DEF TypeOK
    <2> QED
      BY <1>1, <1>9, <2>3, <2>4 DEF LockerGone
  <1> QED
    BY <1>2, <1>3, <1>4, <1>5, <1>6, <1>8, <1>9 DEF LockStep

LEMMA DestroyedKeeps == IInv /\ SurfaceDestroyed => IInv'
  <1> SUFFICES ASSUME IInv, SurfaceDestroyed PROVE IInv'
    OBVIOUS
  <1>1. seat' \in Seat /\ seat'.kbd = seat.kbd /\ seat'.focus = None
    BY ClearedKeeps DEF SurfaceDestroyed, IInv, TypeOK
  <1>2. TypeOK'
    BY <1>1 DEF SurfaceDestroyed, IInv, TypeOK, lockVars, layerVars, windowVars
  <1> QED
    BY <1>1, <1>2, QuietStep DEF SurfaceDestroyed, Allowed, lockVars

LEMMA StutterKeeps == IInv /\ UNCHANGED vars => IInv'
  BY DEF IInv, TypeOK, SecureFocus, vars, lockVars, layerVars, windowVars

LEMMA Invariance == Spec => []IInv
  <1>1. IInv /\ [Next]_vars => IInv'
    BY WindowsKeep, LayersKeep, KeyboardsKeep, LockKeeps, DestroyedKeeps, StutterKeeps
       DEF Next
  <1> QED
    BY InitHolds, <1>1, PTL DEF Spec

\* Every variable of SeatFocus keeps its type, and the seat's keyboard is one
\* that is plugged in: handle_keyboard_destroy leaves no dangling keyboard.
THEOREM TypeCorrect == Spec => []TypeOK
  BY Invariance, PTL DEF IInv

\* While the desktop is hidden only a surface of the present locker has the
\* keyboard, whatever windows, layers and keyboards there are and whatever
\* they do: onyrion_input_focus_surface is the only way to the keyboard.
THEOREM LockedKeyboard == Spec => []SecureFocus
  BY Invariance, PTL DEF IInv

-----------------------------------------------------------------------------
(* Requests that are kept.                                                 *)

\* The layer surface that TopExclusive finds is on show and asks for all keys;
\* it finds one whenever there is one.
LEMMA ExclusiveIs ==
  ASSUME NEW list \in Seq(Layers), NEW ly, NEW kind, Exclusive(list, ly, kind) # {}
  PROVE  \E l \in Layers :
            /\ l = list[Max(Exclusive(list, ly, kind))]
            /\ l \in Range(list)
            /\ ly[l].mapped
            /\ ly[l].mode = "exclusive"
            /\ ly[l].kind = kind
  <1>1. Len(list) \in Nat /\ DOMAIN list = 1..Len(list)
    BY LenProperties
  <1>2. Exclusive(list, ly, kind) \in SUBSET (1..Len(list))
    BY <1>1 DEF Exclusive
  <1>3. PICK m \in Exclusive(list, ly, kind) : m = Max(Exclusive(list, ly, kind))
    BY <1>1, <1>2, MaxOfSeqDomain
  <1>4. m \in DOMAIN list
    BY <1>1, <1>2
  <1>5. ly[list[m]].mapped /\ ly[list[m]].mode = "exclusive" /\ ly[list[m]].kind = kind
    BY DEF Exclusive
  <1>6. list[m] \in Layers /\ list[m] \in Range(list)
    BY <1>1, <1>4 DEF Range
  <1> QED
    BY <1>3, <1>5, <1>6

LEMMA TopExclusiveIs ==
  ASSUME SeatAssumption, NEW list \in Seq(Layers), NEW ly
  PROVE  /\ TopExclusive(list, ly) # None =>
              /\ TopExclusive(list, ly) \in Layers
              /\ TopExclusive(list, ly) \in Range(list)
              /\ ly[TopExclusive(list, ly)].mapped
              /\ ly[TopExclusive(list, ly)].mode = "exclusive"
              /\ ly[TopExclusive(list, ly)].kind \in {"overlay", "top"}
         /\ TopExclusive(list, ly) = None =>
              \A l \in Range(list) :
                 ly[l].mapped /\ ly[l].mode = "exclusive" => ly[l].kind \notin {"overlay", "top"}
  <1> DEFINE over == Exclusive(list, ly, "overlay")
             top == Exclusive(list, ly, "top")
             x == TopExclusive(list, ly)
  <1>1. /\ over # {} => x = list[Max(over)]
        /\ over = {} /\ top # {} => x = list[Max(top)]
        /\ over = {} /\ top = {} => x = None
    BY DEF TopExclusive
  <1>2. over # {} => \E l \in Layers : /\ l = list[Max(over)] /\ l \in Range(list)
                                       /\ ly[l].mapped /\ ly[l].mode = "exclusive"
                                       /\ ly[l].kind = "overlay"
    BY ExclusiveIs
  <1>3. top # {} => \E l \in Layers : /\ l = list[Max(top)] /\ l \in Range(list)
                                      /\ ly[l].mapped /\ ly[l].mode = "exclusive"
                                      /\ ly[l].kind = "top"
    BY ExclusiveIs
  <1>4. \A kind : Exclusive(list, ly, kind) = {} => \A l \in Range(list) :
                    ly[l].mapped /\ ly[l].mode = "exclusive" => ly[l].kind # kind
    BY DEF Exclusive, Range
  <1>5. over = {} /\ top = {} => \A l \in Range(list) :
           ly[l].mapped /\ ly[l].mode = "exclusive" => ly[l].kind \notin {"overlay", "top"}
    BY <1>4
  <1>6. None \notin Layers
    BY DEF SeatAssumption, Surfaces
  <1> HIDE DEF over, top, x
  <1>7. /\ x # None => /\ x \in Layers
                       /\ x \in Range(list)
                       /\ ly[x].mapped
                       /\ ly[x].mode = "exclusive"
                       /\ ly[x].kind \in {"overlay", "top"}
        /\ x = None => \A l \in Range(list) :
              ly[l].mapped /\ ly[l].mode = "exclusive" => ly[l].kind \notin {"overlay", "top"}
    BY <1>1, <1>2, <1>3, <1>5, <1>6
  <1> QED
    BY <1>7 DEF x

\* FocusKept for a seat e; a window that has the keyboard is the active one.
\* list and ly are the layer surfaces, shown and w the windows.
Kept(e, sec, open, list, ly, shown, w) ==
  e.missed = "no" =>
     /\ TopExclusive(list, ly) # None => e.focus \notin Windows
     /\ e.focus \in Windows => e.focus \in shown /\ e.focus = w
     /\ e.focus \in Layers => ly[e.focus].mapped /\ ly[e.focus].mode # "none"
     /\ e.focus \in LockSurfaces => sec /\ e.focus \in open

\* What a refresh needs: layer surfaces off show are still listed.
Listed(e, list, ly, shown, w) ==
  e.missed = "no" =>
     /\ e.focus \in Windows => e.focus \in shown /\ e.focus = w
     /\ e.focus \in Layers => \/ e.focus \in Range(list)
                              \/ ly[e.focus].mapped /\ ly[e.focus].mode # "none"

\* The bookkeeping the requests rely on.
ListsInv ==
  /\ \A l \in Layers : layer[l].mapped => l \in Range(layerList)
  /\ locker => secure
  /\ ~locker => lockList = << >>

KeptInv == Kept(seat, secure, Range(lockList), layerList, layer, mapped, active)

JInv == IInv /\ ListsInv /\ KeptInv /\ LockerServed

LEMMA Disjoint ==
  ASSUME SeatAssumption
  PROVE  /\ \A s \in LockSurfaces : s \notin Windows /\ s \notin Layers /\ s # None
         /\ \A l \in Layers : l \notin Windows /\ l \notin LockSurfaces /\ l # None
         /\ \A w \in Windows : w \notin Layers /\ w \notin LockSurfaces /\ w # None
  BY DEF SeatAssumption, Surfaces

LEMMA SeatFields ==
  ASSUME NEW e \in Seat
  PROVE  /\ Cleared(e).focus = None /\ Cleared(e).missed = "no"
         /\ \A sec, open, s :
              \/ FocusSurface(e, sec, open, s) = e /\ sec /\ s \notin open
              \/ FocusSurface(e, sec, open, s).missed = "dropped" /\ e.kbd = None
                    /\ ~(sec /\ s \notin open)
              \/ /\ FocusSurface(e, sec, open, s).missed = "no"
                 /\ FocusSurface(e, sec, open, s).focus = s
                 /\ e.kbd # None
  BY ZenonT(60) DEF Seat, Cleared, FocusSurface

\* Nothing has the keyboard.
LEMMA ClearedKept ==
  ASSUME SeatAssumption, NEW e \in Seat
  PROVE  \A sec, open, list, ly, shown, w : Kept(Cleared(e), sec, open, list, ly, shown, w)
  BY Disjoint, SeatFields DEF Kept

\* A refresh hands the keyboard to the exclusive surface, takes it from one
\* that went off show, and else leaves it alone.
LEMMA RefreshKept ==
  ASSUME SeatAssumption, TypeOK, NEW e \in Seat, NEW sec \in BOOLEAN,
         NEW open \in SUBSET LockSurfaces, NEW list \in Seq(Layers), NEW ly,
         Allowed(e, sec, open),
         Listed(e, list, ly, mapped, active),
         e.missed = "no" /\ e.focus \in LockSurfaces /\ sec => e.focus \in open
  PROVE  /\ \/ Kept(RefreshKeyboardFocus(e, sec, open, list, ly),
                    sec, open, list, ly, mapped, active)
            \/ /\ RefreshKeyboardFocus(e, sec, open, list, ly) = e
               /\ e.focus \in LockSurfaces
               /\ ~sec
         /\ sec => RefreshKeyboardFocus(e, sec, open, list, ly) = e
  <1> DEFINE x == TopExclusive(list, ly)
             r == RefreshKeyboardFocus(e, sec, open, list, ly)
             lost == /\ e.focus \in Range(list)
                     /\ ~ly[e.focus].mapped \/ ly[e.focus].mode = "none"
             Done == /\ \/ Kept(r, sec, open, list, ly, mapped, active)
                        \/ r = e /\ e.focus \in LockSurfaces /\ ~sec
                     /\ sec => r = e
  <1>1. /\ x # None => /\ x \in Layers
                       /\ ly[x].mapped
                       /\ ly[x].mode = "exclusive"
    BY TopExclusiveIs
  <1>2. /\ x # None => r = FocusSurface(e, sec, open, x)
        /\ x = None /\ lost => r = FocusWindow(e, sec, open, None, mapped, active)
        /\ x = None /\ ~lost => r = e
    BY DEF RefreshKeyboardFocus
  <1>3. active \in Windows \cup {None} /\ mapped \in SUBSET Windows
    BY DEF TypeOK
  <1>4. sec => e.focus \notin Windows /\ e.focus \notin Layers
    BY Disjoint DEF Allowed
  <1>5. x = TopExclusive(list, ly)
    OBVIOUS
  <1> HIDE DEF x, r, lost
  <1>6. ASSUME x # None PROVE Done
    <2>1. r = FocusSurface(e, sec, open, x)
      BY <1>2, <1>6
    <2>2. x \in Layers /\ x \notin open /\ x \notin Windows /\ x \notin LockSurfaces
      BY <1>1, <1>6, Disjoint
    <2>3. CASE sec
      <3>1. r = e
        BY <2>1, <2>2, <2>3 DEF FocusSurface
      <3>2. Kept(r, sec, open, list, ly, mapped, active)
        BY <1>4, <2>3, <3>1 DEF Kept
      <3> QED
        BY <3>1, <3>2
    <2>4. CASE ~sec
      <3>1. r.missed = "dropped" \/ (r.missed = "no" /\ r.focus = x)
        BY <2>1, <2>4, SeatFields
      <3>2. Kept(r, sec, open, list, ly, mapped, active)
        BY <1>1, <1>6, <2>2, <3>1 DEF Kept
      <3> QED
        BY <2>4, <3>2
    <2> QED
      BY <2>3, <2>4
  <1>7. ASSUME x = None /\ lost PROVE Done
    <2>1. r = FocusWindow(e, sec, open, None, mapped, active)
      BY <1>2, <1>7
    <2>2. CASE sec
      <3>1. r = e
        BY <2>1, <2>2 DEF FocusWindow
      <3>2. Kept(r, sec, open, list, ly, mapped, active)
        BY <1>4, <2>2, <3>1 DEF Kept
      <3> QED
        BY <3>1, <3>2
    <2>3. CASE ~sec /\ active \in mapped
      <3>1. r = FocusSurface(e, sec, open, active)
        BY <2>1, <2>3 DEF FocusWindow
      <3>2. active \in Windows
        BY <1>3, <2>3
      <3>3. r.missed = "dropped" \/ (r.missed = "no" /\ r.focus = active)
        BY <2>3, <3>1, SeatFields
      <3>4. TopExclusive(list, ly) = None
        BY <1>5, <1>7
      <3>5. Kept(r, sec, open, list, ly, mapped, active)
        BY <2>3, <3>2, <3>3, <3>4, Disjoint DEF Kept
      <3> QED
        BY <2>3, <3>5
    <2>4. CASE ~sec /\ active \notin mapped
      <3>1. r = Cleared(e)
        BY <2>1, <2>4 DEF FocusWindow
      <3>2. Kept(r, sec, open, list, ly, mapped, active)
        BY <3>1, ClearedKept
      <3> QED
        BY <2>4, <3>2
    <2> QED
      BY <2>2, <2>3, <2>4
  <1>8. ASSUME x = None /\ ~lost PROVE Done
    <2>1. r = e
      BY <1>2, <1>8
    <2>2. e.missed = "no" => /\ e.focus \in Windows => e.focus \in mapped /\ e.focus = active
                             /\ e.focus \in Layers =>
                                   ly[e.focus].mapped /\ ly[e.focus].mode # "none"
      BY <1>8 DEF Listed, lost
    <2>3. TopExclusive(list, ly) = None
      BY <1>5, <1>8
    <2>4. CASE e.missed = "no" /\ e.focus \in LockSurfaces /\ ~sec
      BY <2>1, <2>4
    <2>5. CASE ~(e.missed = "no" /\ e.focus \in LockSurfaces /\ ~sec)
      <3>1. Kept(r, sec, open, list, ly, mapped, active)
        BY <2>1, <2>2, <2>3, <2>5 DEF Kept
      <3> QED
        BY <2>1, <3>1
    <2> QED
      BY <2>4, <2>5
  <1>9. Done
    BY <1>6, <1>7, <1>8
  <1> QED
    BY <1>9 DEF r

\* A window that asks while nothing hides it gets the keyboard, and what is
\* refused takes it from nobody.
LEMMA WindowKept ==
  ASSUME SeatAssumption, NEW e \in Seat, NEW sec \in BOOLEAN,
         NEW open \in SUBSET LockSurfaces, NEW list, NEW ly,
         NEW shown \in SUBSET Windows, NEW w \in Windows \cup {None},
         Allowed(e, sec, open),
         e.missed = "no" =>
            /\ TopExclusive(list, ly) # None => e.focus \notin Windows
            /\ e.focus \in Layers => ly[e.focus].mapped /\ ly[e.focus].mode # "none"
            /\ e.focus \in LockSurfaces => sec /\ e.focus \in open
  PROVE  LET r == FocusWindow(e, sec, open, TopExclusive(list, ly), shown, w) IN
         /\ Kept(r, sec, open, list, ly, shown, w)
         /\ sec => r = e
  <1> DEFINE x == TopExclusive(list, ly)
             r == FocusWindow(e, sec, open, x, shown, w)
  <1>1. sec => e.focus \notin Windows /\ e.focus \notin Layers
    BY Disjoint DEF Allowed
  <1>2. CASE sec \/ x # None
    <2>1. r = e
      BY <1>2 DEF FocusWindow
    <2> QED
      BY <1>1, <1>2, <2>1 DEF Kept
  <1>3. CASE ~sec /\ x = None /\ w \in shown
    <2>1. r = FocusSurface(e, sec, open, w) /\ w \in Windows
      BY <1>3 DEF FocusWindow
    <2> HIDE DEF r, x
    <2>2. r.missed = "dropped" \/ (r.missed = "no" /\ r.focus = w)
      BY <1>3, <2>1, SeatFields
    <2>3. Kept(r, sec, open, list, ly, shown, w)
      BY <1>3, <2>1, <2>2, Disjoint DEF Kept, x
    <2> QED
      BY <1>3, <2>3 DEF r, x
  <1>4. CASE ~sec /\ x = None /\ w \notin shown
    <2>1. r = Cleared(e)
      BY <1>4 DEF FocusWindow
    <2> QED
      BY <1>4, <2>1, ClearedKept
  <1> QED
    BY <1>2, <1>3, <1>4

\* A lock surface that is listed gets the keyboard unless there is none to give,
\* and while the session is open so does a layer surface that is on show.
LEMMA LockSurfaceKept ==
  ASSUME SeatAssumption, NEW e \in Seat, NEW open, NEW list, NEW ly, NEW shown, NEW w,
         NEW s \in LockSurfaces, s \in open
  PROVE  /\ Kept(FocusSurface(e, TRUE, open, s), TRUE, open, list, ly, shown, w)
         /\ \/ FocusSurface(e, TRUE, open, s).missed = "dropped"
            \/ FocusSurface(e, TRUE, open, s).focus = s
  <1> DEFINE r == FocusSurface(e, TRUE, open, s)
  <1>1. r.missed = "dropped" \/ (r.missed = "no" /\ r.focus = s)
    BY DEF Seat, FocusSurface
  <1> HIDE DEF r
  <1>2. Kept(r, TRUE, open, list, ly, shown, w)
    BY <1>1, Disjoint DEF Kept
  <1> QED
    BY <1>1, <1>2 DEF r

LEMMA LayerSurfaceKept ==
  ASSUME SeatAssumption, NEW e \in Seat, NEW open, NEW list, NEW ly, NEW shown, NEW w,
         NEW l \in Layers, ly[l].mapped, ly[l].mode # "none"
  PROVE  Kept(FocusSurface(e, FALSE, open, l), FALSE, open, list, ly, shown, w)
  <1> DEFINE r == FocusSurface(e, FALSE, open, l)
  <1>1. r.missed = "dropped" \/ (r.missed = "no" /\ r.focus = l)
    BY DEF Seat, FocusSurface
  <1> HIDE DEF r
  <1>2. Kept(r, FALSE, open, list, ly, shown, w)
    BY <1>1, Disjoint DEF Kept
  <1> QED
    BY <1>2 DEF r

\* focus_first serves the locker.
LEMMA FirstKept ==
  ASSUME SeatAssumption, NEW e \in Seat, NEW lst \in Seq(LockSurfaces), NEW list, NEW ly,
         NEW shown, NEW w
  PROVE  /\ Kept(FocusFirst(e, lst), TRUE, Range(lst), list, ly, shown, w)
         /\ \/ lst = << >>
            \/ FocusFirst(e, lst).missed = "dropped"
            \/ FocusFirst(e, lst).focus \in Range(lst)
  <1>1. CASE lst = << >>
    BY <1>1, ClearedKept DEF FocusFirst
  <1>2. CASE lst # << >>
    <2>1. lst[1] \in LockSurfaces /\ lst[1] \in Range(lst)
      BY <1>2 DEF Range
    <2>2. FocusFirst(e, lst) = FocusSurface(e, TRUE, Range(lst), lst[1])
      BY <1>2 DEF FocusFirst
    <2>3. /\ Kept(FocusSurface(e, TRUE, Range(lst), lst[1]),
                  TRUE, Range(lst), list, ly, shown, w)
          /\ \/ FocusSurface(e, TRUE, Range(lst), lst[1]).missed = "dropped"
             \/ FocusSurface(e, TRUE, Range(lst), lst[1]).focus = lst[1]
      BY <2>1, LockSurfaceKept
    <2> QED
      BY <2>1, <2>2, <2>3
  <1> QED
    BY <1>1, <1>2

-----------------------------------------------------------------------------
LEMMA RangeOfLocks ==
  ASSUME TypeOK
  PROVE  Range(lockList) \in SUBSET LockSurfaces /\ Range(layerList) \in SUBSET Layers
  BY DEF TypeOK, Range

LEMMA WindowsServe ==
  ASSUME SeatAssumption, JInv, WindowStep
  PROVE  ListsInv' /\ KeptInv' /\ LockerServed'
  <1> SUFFICES ASSUME NEW w \in Windows, WindowMap(w) \/ WindowUnmap(w) \/ WindowFocus(w)
               PROVE  ListsInv' /\ KeptInv' /\ LockerServed'
    BY DEF WindowStep
  <1>1. /\ TypeOK /\ KeptInv /\ LockerServed /\ ListsInv
        /\ seat \in Seat /\ secure \in BOOLEAN
        /\ Range(lockList) \in SUBSET LockSurfaces
        /\ Allowed(seat, secure, Range(lockList))
    BY RangeOfLocks DEF JInv, IInv, TypeOK, SecureFocus, Allowed
  <1>2. UNCHANGED <<lockVars, layerVars>>
    BY DEF WindowMap, WindowUnmap, WindowFocus, ActiveIs
  <1>3. ListsInv'
    BY <1>1, <1>2 DEF ListsInv, lockVars, layerVars
  <1>4. ASSUME NEW shown \in SUBSET Windows, NEW x \in Windows \cup {None},
               ActiveIs(shown, x)
        PROVE  KeptInv' /\ LockerServed'
    <2>1. seat' = FocusWindow(seat, secure, Range(lockList), TopExclusive(layerList, layer),
                              shown, x)
      BY <1>4 DEF ActiveIs
    <2>2. /\ Kept(seat', secure, Range(lockList), layerList, layer, shown, x)
          /\ secure => seat' = seat
      BY <1>1, <2>1, WindowKept DEF KeptInv, Kept
    <2> QED
      BY <1>1, <1>2, <1>4, <2>2
         DEF ActiveIs, KeptInv, LockerServed, lockVars, layerVars
  <1>5. CASE WindowMap(w)
    <2>1. mapped \cup {w} \in SUBSET Windows
      BY <1>1 DEF TypeOK
    <2> QED
      BY <1>3, <1>4, <1>5, <2>1 DEF WindowMap
  <1>6. CASE WindowUnmap(w)
    <2>1. CASE w # active
      <3>1. UNCHANGED <<active, seat>> /\ mapped' = mapped \ {w}
        BY <1>6, <2>1 DEF WindowUnmap
      <3>2. KeptInv'
        BY <1>1, <1>2, <2>1, <3>1 DEF KeptInv, Kept, lockVars, layerVars
      <3> QED
        BY <1>1, <1>2, <1>3, <3>1, <3>2 DEF LockerServed, lockVars
    <2>2. CASE w = active
      <3>1. PICK next \in (mapped \ {w}) \cup {None} : ActiveIs(mapped \ {w}, next)
        BY <1>6, <2>2 DEF WindowUnmap
      <3>2. mapped \ {w} \in SUBSET Windows /\ next \in Windows \cup {None}
        BY <1>1 DEF TypeOK
      <3> QED
        BY <1>3, <1>4, <3>1, <3>2
    <2> QED
      BY <2>1, <2>2
  <1>7. CASE WindowFocus(w)
    <2>1. mapped \in SUBSET Windows
      BY <1>1 DEF TypeOK
    <2> QED
      BY <1>3, <1>4, <1>7, <2>1 DEF WindowFocus
  <1> QED
    BY <1>5, <1>6, <1>7

LEMMA LayersServe ==
  ASSUME SeatAssumption, JInv, LayerStep
  PROVE  ListsInv' /\ KeptInv' /\ LockerServed'
  <1>1. /\ TypeOK /\ KeptInv /\ LockerServed /\ ListsInv
        /\ seat \in Seat /\ secure \in BOOLEAN
        /\ layerList \in Seq(Layers)
        /\ layer \in [Layers -> [mapped : BOOLEAN, kind : Kinds, mode : Modes]]
        /\ Range(lockList) \in SUBSET LockSurfaces
        /\ Allowed(seat, secure, Range(lockList))
    BY RangeOfLocks DEF JInv, IInv, TypeOK, SecureFocus, Allowed
  <1>2. ASSUME UNCHANGED lockVars, secure => seat' = seat PROVE LockerServed'
    BY <1>1, <1>2 DEF LockerServed, lockVars
  <1>3. ASSUME NEW ly, LayersAre(layerList, ly),
               Listed(seat, layerList, ly, mapped, active),
               \A l \in Layers : ly[l].mapped => l \in Range(layerList)
        PROVE  ListsInv' /\ KeptInv' /\ LockerServed'
    <2>1. /\ seat' = RefreshKeyboardFocus(seat, secure, Range(lockList), layerList, ly)
          /\ layerList' = layerList /\ layer' = ly
          /\ UNCHANGED <<lockVars, windowVars>>
      BY <1>3 DEF LayersAre
    <2>2. seat.missed = "no" /\ seat.focus \in LockSurfaces => secure /\ seat.focus \in Range(lockList)
      BY <1>1 DEF KeptInv, Kept
    <2>3. /\ \/ Kept(seat', secure, Range(lockList), layerList, ly, mapped, active)
             \/ seat' = seat /\ seat.focus \in LockSurfaces /\ ~secure
          /\ secure => seat' = seat
      BY <1>1, <1>3, <2>1, <2>2, RefreshKept
    <2>4. Kept(seat', secure, Range(lockList), layerList, ly, mapped, active)
      BY <2>2, <2>3 DEF Kept
    <2>5. KeptInv'
      BY <2>1, <2>4 DEF KeptInv, lockVars, windowVars
    <2>6. ListsInv'
      BY <1>1, <1>3, <2>1 DEF ListsInv, lockVars
    <2> QED
      BY <1>2, <2>1, <2>3, <2>5, <2>6
  <1>4. \A ly : Listed(seat, layerList, ly, mapped, active)
    BY <1>1 DEF Listed, KeptInv, Kept, ListsInv
  <1>5. ASSUME NEW l \in Layers, LayerNew(l) PROVE ListsInv' /\ KeptInv' /\ LockerServed'
    <2>1. /\ layerList' = Append(layerList, l) /\ l \notin Range(layerList)
          /\ UNCHANGED <<lockVars, layer, windowVars, seat>>
      BY <1>5 DEF LayerNew
    <2>2. Range(layerList) \subseteq Range(layerList')
      BY <1>1, <2>1, RangeOfAppend
    <2>3. \A m \in Range(layerList') : m \in Range(layerList) \/ m = l
      BY <1>1, <2>1 DEF Range
    <2>4. ListsInv'
      BY <1>1, <2>1, <2>2 DEF ListsInv, lockVars
    <2>5. layerList' \in Seq(Layers)
      BY <1>1, <2>1
    <2>6. TopExclusive(layerList', layer) # None => TopExclusive(layerList, layer) # None
      <3> DEFINE x == TopExclusive(layerList', layer)
      <3> SUFFICES ASSUME x # None PROVE TopExclusive(layerList, layer) # None
        OBVIOUS
      <3>1. /\ x \in Layers /\ x \in Range(layerList')
            /\ layer[x].mapped /\ layer[x].mode = "exclusive"
            /\ layer[x].kind \in {"overlay", "top"}
        BY <2>5, TopExclusiveIs
      <3> HIDE DEF x
      <3>2. x \in Range(layerList)
        BY <1>1, <3>1 DEF ListsInv
      <3> QED
        BY <1>1, <3>1, <3>2, TopExclusiveIs
    <2>7. KeptInv'
      BY <1>1, <2>1, <2>6 DEF KeptInv, Kept, lockVars, windowVars
    <2> QED
      BY <1>2, <2>1, <2>4, <2>7
  <1>6. ASSUME NEW l \in Layers, NEW kind \in Kinds, NEW mode \in Modes,
               LayerCommit(l, kind, mode)
        PROVE  ListsInv' /\ KeptInv' /\ LockerServed'
    <2> DEFINE ly == [layer EXCEPT ![l] = [mapped |-> TRUE, kind |-> kind, mode |-> mode]]
    <2>1. LayersAre(layerList, ly) /\ l \in Range(layerList)
      BY <1>6 DEF LayerCommit
    <2>2. \A m \in Layers : ly[m].mapped => m \in Range(layerList)
      BY <1>1, <2>1 DEF ListsInv
    <2> HIDE DEF ly
    <2> QED
      BY <1>3, <1>4, <2>1, <2>2
  <1>7. ASSUME NEW l \in Layers, LayerCommitUnmapped(l)
        PROVE  ListsInv' /\ KeptInv' /\ LockerServed'
    BY <1>1, <1>3, <1>4, <1>7 DEF LayerCommitUnmapped, ListsInv
  <1>8. ASSUME NEW l \in Layers, LayerUnmap(l) PROVE ListsInv' /\ KeptInv' /\ LockerServed'
    <2> DEFINE ly == [layer EXCEPT ![l].mapped = FALSE]
    <2>1. LayersAre(layerList, ly)
      BY <1>8 DEF LayerUnmap
    <2>2. \A m \in Layers : ly[m].mapped => m \in Range(layerList)
      BY <1>1 DEF ListsInv
    <2> HIDE DEF ly
    <2> QED
      BY <1>3, <1>4, <2>1, <2>2
  <1>9. ASSUME NEW l \in Layers, LayerClick(l) PROVE ListsInv' /\ KeptInv' /\ LockerServed'
    <2>1. /\ ~secure /\ layer[l].mapped /\ layer[l].mode # "none"
          /\ seat' = FocusSurface(seat, secure, Range(lockList), l)
          /\ UNCHANGED <<lockVars, layerVars, windowVars>>
      BY <1>9 DEF LayerClick
    <2>2. Kept(seat', secure, Range(lockList), layerList, layer, mapped, active)
      <3>1. secure = FALSE
        BY <1>1, <2>1
      <3> QED
        BY <1>1, <2>1, <3>1, LayerSurfaceKept
    <2> QED
      BY <1>1, <1>2, <2>1, <2>2 DEF KeptInv, ListsInv, lockVars, layerVars, windowVars
  <1>10. ASSUME NEW i \in DOMAIN layerList, LayerDestroy(i)
         PROVE  ListsInv' /\ KeptInv' /\ LockerServed'
    <2> DEFINE l == layerList[i]
               hidden == [layer EXCEPT ![l].mapped = FALSE]
               gone == [layer EXCEPT ![l] = Absent]
               open == Range(lockList)
               list == RemoveAt(layerList, i)
               unmapped == IF layer[l].mapped
                           THEN RefreshKeyboardFocus(seat, secure, open, layerList, hidden)
                           ELSE seat
    <2>1. /\ layerList' = list /\ layer' = gone
          /\ seat' = RefreshKeyboardFocus(unmapped, secure, open, list, gone)
          /\ UNCHANGED <<lockVars, windowVars>>
      BY <1>10 DEF LayerDestroy
    <2>2. list \in Seq(Layers) /\ \A x \in Range(layerList) : x = l \/ x \in Range(list)
      BY <1>1, RemoveAtType
    <2>3. l \in Layers
      BY <1>1
    <2>4. /\ ~hidden[l].mapped /\ ~gone[l].mapped
          /\ \A m \in Layers : m # l => hidden[m] = layer[m] /\ gone[m] = layer[m]
      BY <1>1, <2>3 DEF Absent
    <2>5. open \in SUBSET LockSurfaces /\ Allowed(seat, secure, open)
      BY <1>1
    <2>6. seat.missed = "no" /\ seat.focus \in LockSurfaces => secure /\ seat.focus \in open
      BY <1>1 DEF KeptInv, Kept
    <2>7. KeptInv = Kept(seat, secure, open, layerList, layer, mapped, active)
      BY DEF KeptInv
    <2> HIDE DEF open, list, hidden, gone, l
    <2>8. /\ unmapped \in Seat
          /\ Allowed(unmapped, secure, open)
      BY <1>1, <2>5, RefreshKeeps
    <2>9. /\ secure => unmapped = seat
          /\ unmapped.missed = "no" =>
                /\ unmapped.focus \in Windows =>
                      unmapped.focus \in mapped /\ unmapped.focus = active
                /\ unmapped.focus \in Layers =>
                      gone[unmapped.focus].mapped /\ gone[unmapped.focus].mode # "none"
                /\ unmapped.focus \in LockSurfaces => secure /\ unmapped.focus \in open
      <3>1. CASE layer[l].mapped
        <4>1. unmapped = RefreshKeyboardFocus(seat, secure, open, layerList, hidden)
          BY <3>1
        <4> HIDE DEF unmapped
        <4>2. /\ \/ Kept(unmapped, secure, open, layerList, hidden, mapped, active)
                 \/ unmapped = seat /\ seat.focus \in LockSurfaces /\ ~secure
              /\ secure => unmapped = seat
          BY <1>1, <1>4, <2>5, <2>6, <4>1, RefreshKept
        <4>3. Kept(unmapped, secure, open, layerList, hidden, mapped, active)
          BY <2>6, <4>2 DEF Kept
        <4> QED
          BY <2>4, <4>2, <4>3 DEF Kept
      <3>2. CASE ~layer[l].mapped
        <4>1. unmapped = seat
          BY <3>2
        <4> QED
          BY <1>1, <2>4, <2>7, <3>2, <4>1 DEF Kept
      <3> QED
        BY <3>1, <3>2
    <2> HIDE DEF unmapped
    <2>10. Listed(unmapped, list, gone, mapped, active)
      BY <2>9 DEF Listed
    <2>11. /\ \/ Kept(seat', secure, open, list, gone, mapped, active)
              \/ seat' = unmapped /\ unmapped.focus \in LockSurfaces /\ ~secure
           /\ secure => seat' = unmapped
      BY <1>1, <2>1, <2>2, <2>5, <2>8, <2>9, <2>10, RefreshKept
    <2>12. Kept(seat', secure, open, list, gone, mapped, active)
      BY <2>9, <2>11 DEF Kept
    <2>13. KeptInv'
      BY <2>1, <2>12 DEF KeptInv, lockVars, windowVars, open
    <2>14. ListsInv'
      BY <1>1, <2>1, <2>2, <2>4 DEF ListsInv, lockVars
    <2>15. secure => seat' = seat
      BY <2>9, <2>11
    <2> QED
      BY <1>2, <2>1, <2>13, <2>14, <2>15
  <1> QED
    BY <1>5, <1>6, <1>7, <1>8, <1>9, <1>10 DEF LayerStep

LEMMA KeyboardsServe ==
  ASSUME SeatAssumption, JInv, KeyboardStep
  PROVE  ListsInv' /\ KeptInv' /\ LockerServed'
  <1> SUFFICES ASSUME NEW k \in Keyboards, KeyboardAdd(k) \/ KeyboardRemove(k) \/ KeyboardKey(k)
               PROVE  ListsInv' /\ KeptInv' /\ LockerServed'
    BY DEF KeyboardStep
  <1>1. /\ TypeOK /\ KeptInv /\ LockerServed /\ ListsInv
        /\ seat \in Seat /\ secure \in BOOLEAN
        /\ lockList \in Seq(LockSurfaces)
        /\ active \in Windows \cup {None} /\ mapped \in SUBSET Windows
        /\ Range(lockList) \in SUBSET LockSurfaces
        /\ Allowed(seat, secure, Range(lockList))
    BY RangeOfLocks DEF JInv, IInv, TypeOK, SecureFocus, Allowed
  <1>2. UNCHANGED <<lockVars, layerVars, windowVars>>
    BY DEF KeyboardAdd, KeyboardRemove, KeyboardKey
  <1>3. ListsInv'
    BY <1>1, <1>2 DEF ListsInv, lockVars, layerVars
  <1>4. ASSUME Kept(seat', secure, Range(lockList), layerList, layer, mapped, active)
        PROVE  KeptInv'
    BY <1>2, <1>4 DEF KeptInv, lockVars, layerVars, windowVars
  <1>5. CASE KeyboardAdd(k)
    <2> DEFINE e == Plugged(k)
    <2>1. /\ e \in Seat
          /\ e.focus = seat.focus
          /\ e.missed = "no" => seat.missed = "no"
      BY <1>1 DEF Plugged, Seat
    <2>2. seat' = IF secure THEN FocusFirst(e, lockList)
                  ELSE FocusWindow(e, secure, Range(lockList),
                                   TopExclusive(layerList, layer), mapped, active)
      BY <1>5 DEF KeyboardAdd
    <2> HIDE DEF e
    <2>3. CASE secure
      <3>1. secure = TRUE /\ seat' = FocusFirst(e, lockList)
        BY <1>1, <2>2, <2>3
      <3>2. /\ Kept(seat', secure, Range(lockList), layerList, layer, mapped, active)
            /\ lockList = << >> \/ seat'.missed = "dropped" \/ seat'.focus \in Range(lockList)
        BY <1>1, <2>1, <3>1, FirstKept
      <3> QED
        BY <1>2, <1>3, <1>4, <3>2 DEF LockerServed, lockVars
    <2>4. CASE ~secure
      <3>1. Allowed(e, secure, Range(lockList))
        BY <2>4 DEF Allowed
      <3>2. Kept(seat', secure, Range(lockList), layerList, layer, mapped, active)
        BY <1>1, <2>1, <2>2, <2>4, <3>1, WindowKept DEF KeptInv, Kept
      <3> QED
        BY <1>2, <1>3, <1>4, <2>4, <3>2 DEF LockerServed, lockVars
    <2> QED
      BY <2>3, <2>4
  <1>6. CASE KeyboardRemove(k) \/ KeyboardKey(k)
    <2>1. seat'.focus = seat.focus /\ seat'.missed = seat.missed
      BY <1>1, <1>6 DEF KeyboardRemove, KeyboardKey, Seat
    <2> QED
      BY <1>1, <1>2, <1>3, <1>4, <2>1 DEF KeptInv, Kept, LockerServed, lockVars
  <1> QED
    BY <1>5, <1>6

LEMMA LocksServe ==
  ASSUME SeatAssumption, JInv, LockStep
  PROVE  ListsInv' /\ KeptInv' /\ LockerServed'
  <1>1. /\ TypeOK /\ KeptInv /\ LockerServed /\ ListsInv
        /\ seat \in Seat /\ secure \in BOOLEAN
        /\ lockList \in Seq(LockSurfaces) /\ layerList \in Seq(Layers)
        /\ Range(lockList) \in SUBSET LockSurfaces
        /\ SecureFocus
    BY RangeOfLocks DEF JInv, IInv, TypeOK
  <1>2. UNCHANGED <<layerVars, windowVars>>
    BY DEF LockStep, Lock, LockedSent, LockSurfaceNew, LockClick, LockSurfaceDestroy,
           Unlock, LockerGone
  <1>3. ASSUME Kept(seat', secure', Range(lockList'), layerList, layer, mapped, active)
        PROVE  KeptInv'
    BY <1>2, <1>3 DEF KeptInv, layerVars, windowVars
  <1>4. ASSUME locker' => secure', ~locker' => lockList' = << >> PROVE ListsInv'
    BY <1>1, <1>2, <1>4 DEF ListsInv, layerVars
  <1>5. CASE Lock
    <2>1. /\ locker' /\ secure' /\ lockList' = lockList /\ lockList = << >>
          /\ seat' = IF secure THEN seat ELSE Cleared(seat)
      BY <1>1, <1>5 DEF Lock, ListsInv
    <2>2. Kept(seat', secure', Range(lockList'), layerList, layer, mapped, active)
      BY <1>1, <2>1, ClearedKept DEF KeptInv, Kept
    <2> QED
      BY <1>3, <1>4, <2>1, <2>2 DEF LockerServed
  <1>6. CASE LockedSent
    <2>1. UNCHANGED <<locker, secure, lockList, seat>>
      BY <1>6 DEF LockedSent
    <2> QED
      BY <1>1, <1>3, <1>4, <2>1 DEF KeptInv, ListsInv, LockerServed
  <1>7. ASSUME NEW s \in LockSurfaces, LockSurfaceNew(s)
        PROVE  ListsInv' /\ KeptInv' /\ LockerServed'
    <2>1. /\ locker /\ UNCHANGED <<locker, secure>>
          /\ lockList' = Append(lockList, s)
          /\ seat' = IF secure /\ seat.focus \notin Range(lockList')
                     THEN FocusSurface(seat, secure, Range(lockList'), s) ELSE seat
      BY <1>7 DEF LockSurfaceNew
    <2>2. secure
      BY <1>1, <2>1 DEF ListsInv
    <2>3. s \in Range(lockList') /\ Range(lockList) \subseteq Range(lockList')
      BY <1>1, <2>1, RangeOfAppend
    <2>4. CASE seat' = seat /\ seat.focus \in Range(lockList')
      <3>1. Kept(seat', secure', Range(lockList'), layerList, layer, mapped, active)
        BY <1>1, <2>1, <2>3, <2>4 DEF KeptInv, Kept
      <3> QED
        BY <1>1, <1>3, <1>4, <2>1, <2>2, <2>4, <3>1 DEF LockerServed
    <2>5. CASE seat' = FocusSurface(seat, secure, Range(lockList'), s)
      <3>1. /\ Kept(seat', secure', Range(lockList'), layerList, layer, mapped, active)
            /\ seat'.missed = "dropped" \/ seat'.focus = s
        <4>1. secure = TRUE /\ secure' = TRUE
          BY <1>1, <2>1, <2>2
        <4> QED
          BY <1>1, <2>3, <2>5, <4>1, LockSurfaceKept
      <3> QED
        BY <1>3, <1>4, <2>1, <2>2, <2>3, <3>1 DEF LockerServed
    <2> QED
      BY <2>1, <2>2, <2>4, <2>5
  <1>8. ASSUME NEW s \in LockSurfaces, LockClick(s)
        PROVE  ListsInv' /\ KeptInv' /\ LockerServed'
    <2>1. /\ secure /\ s \in Range(lockList) /\ UNCHANGED <<locker, secure, lockList>>
          /\ seat' = FocusSurface(seat, secure, Range(lockList), s)
      BY <1>8 DEF LockClick, lockVars
    <2>2. /\ Kept(seat', secure, Range(lockList), layerList, layer, mapped, active)
          /\ seat'.missed = "dropped" \/ seat'.focus = s
      <3>1. secure = TRUE
        BY <1>1, <2>1
      <3> QED
        BY <1>1, <2>1, <3>1, LockSurfaceKept
    <2> QED
      BY <1>1, <1>3, <1>4, <2>1, <2>2 DEF LockerServed, ListsInv
  <1>9. ASSUME NEW i \in DOMAIN lockList, LockSurfaceDestroy(i)
        PROVE  ListsInv' /\ KeptInv' /\ LockerServed'
    <2> DEFINE left == IF seat.focus = lockList[i] THEN Cleared(seat) ELSE seat
    <2>1. /\ UNCHANGED <<locker, secure>>
          /\ lockList' = RemoveAt(lockList, i)
          /\ seat' = IF secure THEN FocusFirst(left, lockList') ELSE left
      BY <1>9 DEF LockSurfaceDestroy
    <2>2. /\ lockList' \in Seq(LockSurfaces)
          /\ \A x \in Range(lockList) : x = lockList[i] \/ x \in Range(lockList')
      BY <1>1, <2>1, RemoveAtType
    <2>3. left \in Seat
      BY <1>1, ClearedKeeps
    <2>4. locker
      <3>1. lockList # << >>
        BY <1>1
      <3> QED
        BY <1>1, <3>1 DEF ListsInv
    <2>5. secure = TRUE
      BY <1>1, <2>4 DEF ListsInv
    <2> HIDE DEF left
    <2>6. seat' = FocusFirst(left, lockList')
      BY <2>1, <2>5
    <2>7. /\ Kept(seat', TRUE, Range(lockList'), layerList, layer, mapped, active)
          /\ lockList' = << >> \/ seat'.missed = "dropped" \/ seat'.focus \in Range(lockList')
      BY <2>2, <2>3, <2>6, FirstKept
    <2>8. secure' = TRUE
      BY <2>1, <2>5
    <2> QED
      BY <1>3, <1>4, <2>1, <2>4, <2>7, <2>8 DEF LockerServed
  <1>10. ASSUME NEW e \in Seat,
                e.missed = "no" /\ e.focus \in Windows => e.focus \in mapped /\ e.focus = active,
                e.missed = "no" /\ e.focus \in Layers =>
                    layer[e.focus].mapped /\ layer[e.focus].mode # "none"
         PROVE  /\ LeaveSecure(e) \in Seat
                /\ \/ Kept(LeaveSecure(e), FALSE, {}, layerList, layer, mapped, active)
                   \/ LeaveSecure(e) = e /\ e.focus \in LockSurfaces
    <2>1. FALSE \in BOOLEAN /\ {} \in SUBSET LockSurfaces /\ Allowed(e, FALSE, {})
      BY DEF Allowed
    <2>2. Listed(e, layerList, layer, mapped, active)
      BY <1>10 DEF Listed
    <2> QED
      <3>1. LeaveSecure(e) = RefreshKeyboardFocus(e, FALSE, {}, layerList, layer)
        BY DEF LeaveSecure
      <3>2. LeaveSecure(e) \in Seat
        <4>1. TypeOK /\ layerList \in Seq(Layers) /\ FALSE \in BOOLEAN
          BY <1>1
        <4> QED
          BY <1>10, <4>1, RefreshKeeps DEF LeaveSecure
      <3>3. /\ TypeOK /\ layerList \in Seq(Layers) /\ FALSE \in BOOLEAN
            /\ e.missed = "no" /\ e.focus \in LockSurfaces /\ FALSE => e.focus \in {}
        BY <1>1
      <3>4. \/ Kept(LeaveSecure(e), FALSE, {}, layerList, layer, mapped, active)
            \/ LeaveSecure(e) = e /\ e.focus \in LockSurfaces
        BY <1>10, <2>1, <2>2, <3>3, RefreshKept, ZenonT(60) DEF LeaveSecure
      <3> QED
        BY <3>2, <3>4
  <1>11. CASE Unlock
    <2> DEFINE e == LeaveSecure(seat)
    <2>1. /\ ~locker' /\ ~secure' /\ lockList' = << >>
          /\ seat' = IF e.focus \in Range(lockList) THEN Cleared(e) ELSE e
      BY <1>11 DEF Unlock
    <2>2. /\ e \in Seat
          /\ \/ Kept(e, FALSE, {}, layerList, layer, mapped, active)
             \/ e = seat /\ seat.focus \in LockSurfaces
      BY <1>1, <1>10 DEF KeptInv, Kept
    <2>3. Range(lockList') = {} /\ secure' = FALSE
      <3>1. Range(<< >>) = {}
        BY DEF Range
      <3>2. secure' = FALSE
        BY <1>11 DEF Unlock
      <3> QED
        BY <2>1, <3>1, <3>2
    <2> HIDE DEF e
    <2>4. CASE e.focus \in Range(lockList)
      <3>1. Kept(seat', secure', Range(lockList'), layerList, layer, mapped, active)
        BY <2>1, <2>2, <2>4, ClearedKept
      <3> QED
        BY <1>3, <1>4, <2>1, <3>1 DEF LockerServed
    <2>5. CASE e.focus \notin Range(lockList)
      <3>1. seat' = e
        BY <2>1, <2>5
      <3>2. Kept(e, FALSE, {}, layerList, layer, mapped, active)
        BY <1>1, <2>2, <2>5 DEF KeptInv, Kept
      <3>3. Kept(seat', secure', Range(lockList'), layerList, layer, mapped, active)
        BY <2>3, <3>1, <3>2
      <3> QED
        BY <1>3, <1>4, <2>1, <3>3 DEF LockerServed
    <2> QED
      BY <2>4, <2>5
  <1>12. CASE LockerGone
    <2> DEFINE e == IF lockList = << >> THEN seat ELSE Cleared(seat)
    <2>1. /\ ~locker' /\ secure' = lockedSent /\ lockList' = << >>
          /\ seat' = IF lockedSent THEN Cleared(e) ELSE LeaveSecure(e)
      BY <1>12 DEF LockerGone
    <2>2. Range(lockList') = {} /\ lockedSent \in BOOLEAN
      <3>1. Range(<< >>) = {}
        BY DEF Range
      <3> QED
        BY <1>1, <2>1, <3>1 DEF TypeOK
    <2>3. Range(lockList) = {} \/ lockList # << >>
      BY DEF Range
    <2>4. /\ e \in Seat
          /\ e.missed = "no" => /\ e.focus \in Windows => e.focus \in mapped /\ e.focus = active
                                /\ e.focus \in Layers =>
                                      layer[e.focus].mapped /\ layer[e.focus].mode # "none"
                                /\ e.focus \notin LockSurfaces
      <3>1. CASE lockList = << >>
        BY <1>1, <2>3, <3>1 DEF KeptInv, Kept
      <3>2. CASE lockList # << >>
        BY <1>1, <3>2, ClearedKeeps, Disjoint
      <3> QED
        BY <3>1, <3>2
    <2> HIDE DEF e
    <2>5. CASE lockedSent
      <3>1. Kept(seat', secure', Range(lockList'), layerList, layer, mapped, active)
        BY <2>1, <2>4, <2>5, ClearedKept
      <3> QED
        BY <1>3, <1>4, <2>1, <3>1 DEF LockerServed
    <2>6. CASE ~lockedSent
      <3>1. seat' = LeaveSecure(e) /\ secure' = FALSE
        BY <2>1, <2>2, <2>6
      <3>2. \/ Kept(seat', FALSE, {}, layerList, layer, mapped, active)
            \/ seat' = e /\ e.focus \in LockSurfaces
        BY <1>10, <2>4, <3>1
      <3>3. Kept(seat', secure', Range(lockList'), layerList, layer, mapped, active)
        BY <2>2, <2>4, <3>1, <3>2 DEF Kept
      <3> QED
        BY <1>3, <1>4, <2>1, <3>3 DEF LockerServed
    <2> QED
      BY <2>5, <2>6
  <1> QED
    BY <1>5, <1>6, <1>7, <1>8, <1>9, <1>11, <1>12 DEF LockStep

LEMMA NextServes ==
  ASSUME SeatAssumption, JInv, [Next]_vars
  PROVE  JInv'
  <1>1. IInv'
    BY WindowsKeep, LayersKeep, KeyboardsKeep, LockKeeps, DestroyedKeeps, StutterKeeps
       DEF Next, JInv
  <1>2. CASE UNCHANGED vars
    <2>1. ListsInv' /\ KeptInv' /\ LockerServed'
      BY <1>2 DEF JInv, ListsInv, KeptInv, LockerServed, vars, lockVars, layerVars, windowVars
    <2> QED
      BY <1>1, <2>1 DEF JInv
  <1>3. CASE SurfaceDestroyed
    <2>1. seat \in Seat /\ seat' = Cleared(seat)
      BY <1>3 DEF SurfaceDestroyed, JInv, IInv, TypeOK
    <2>2. UNCHANGED <<lockVars, layerVars, windowVars>>
      BY <1>3 DEF SurfaceDestroyed
    <2>3. ~secure
      <3>1. seat.focus \in Windows \cup Layers
        BY <1>3 DEF SurfaceDestroyed
      <3>2. Range(lockList) \in SUBSET LockSurfaces
        BY RangeOfLocks DEF JInv, IInv
      <3> QED
        BY <3>1, <3>2, Disjoint DEF JInv, IInv, SecureFocus
    <2>4. Kept(seat', secure, Range(lockList), layerList, layer, mapped, active)
      BY <2>1, ClearedKept
    <2>5. ListsInv' /\ KeptInv' /\ LockerServed'
      BY <2>2, <2>3, <2>4
         DEF JInv, ListsInv, KeptInv, LockerServed, lockVars, layerVars, windowVars
    <2> QED
      BY <1>1, <2>5 DEF JInv
  <1> QED
    BY <1>1, <1>2, <1>3, WindowsServe, LayersServe, KeyboardsServe, LocksServe
       DEF Next, JInv

LEMMA InitServes == ASSUME SeatAssumption PROVE Init => JInv
  <1> SUFFICES ASSUME Init PROVE JInv
    OBVIOUS
  <1>1. ListsInv /\ LockerServed
    BY DEF Init, ListsInv, LockerServed, Absent
  <1>2. None \notin Windows /\ None \notin Layers /\ None \notin LockSurfaces
    BY Disjoint
  <1>3. KeptInv
    BY <1>2 DEF Init, KeptInv, Kept
  <1> QED
    BY <1>1, <1>3, InitHolds DEF JInv

LEMMA Serving == Spec => []JInv
  <1>1. Init => JInv
    BY SeatAssumption, InitServes
  <1>2. JInv /\ [Next]_vars => JInv'
    BY SeatAssumption, NextServes
  <1> QED
    BY <1>1, <1>2, PTL DEF Spec

\* A request for the keyboard is lost only for want of a keyboard: otherwise no
\* window has it past an exclusive surface, and no surface that went off the
\* screen or gave up its interest keeps it.
THEOREM RequestsKept == Spec => []FocusKept
  <1>1. JInv => FocusKept
    BY DEF JInv, KeptInv, Kept, FocusKept, ExclusiveHolds, FocusAlive
  <1> QED
    BY <1>1, Serving, PTL

\* An exclusive surface that waited behind the lock gets the keyboard when the
\* session opens.
LEMMA OpensToExclusive ==
  ASSUME SeatAssumption, JInv, [Next]_vars,
         secure, ~secure', seat.kbd # None, TopExclusive(layerList, layer) # None
  PROVE  seat'.focus = TopExclusive(layerList, layer)
  <1> DEFINE x == TopExclusive(layerList, layer)
  <1>1. /\ TypeOK /\ seat \in Seat /\ layerList \in Seq(Layers)
        /\ Range(lockList) \in SUBSET LockSurfaces
    BY RangeOfLocks DEF JInv, IInv, TypeOK
  <1>2. x \in Layers
    BY <1>1, TopExclusiveIs
  <1>3. ASSUME NEW e \in Seat, e.kbd # None PROVE LeaveSecure(e).focus = x
    <2>1. LeaveSecure(e) = FocusSurface(e, FALSE, {}, x)
      BY DEF LeaveSecure, RefreshKeyboardFocus
    <2>2. x \in Layers
      BY <1>2
    <2> HIDE DEF x
    <2>3. FocusSurface(e, FALSE, {}, x).focus = x
      BY <1>3 DEF FocusSurface, Seat
    <2> QED
      BY <2>1, <2>3
  <1> HIDE DEF x
  <1>4. CASE Unlock
    <2>1. LeaveSecure(seat).focus = x /\ x \notin Range(lockList)
      BY <1>1, <1>2, <1>3, Disjoint
    <2> QED
      BY <1>4, <2>1 DEF Unlock, x
  <1>5. CASE LockerGone
    <2> DEFINE e == IF lockList = << >> THEN seat ELSE Cleared(seat)
    <2>1. e \in Seat /\ e.kbd # None
      BY <1>1, ClearedKeeps
    <2>2. seat' = LeaveSecure(e)
      BY <1>5 DEF LockerGone
    <2> HIDE DEF e
    <2> QED
      BY <1>3, <2>1, <2>2 DEF x
  <1>6. ~Unlock /\ ~LockerGone => secure'
    BY DEF Next, vars, lockVars, WindowStep, WindowMap, WindowUnmap, WindowFocus, ActiveIs,
       LayerStep, LayerNew, LayerCommit, LayerCommitUnmapped, LayerUnmap, LayerClick,
       LayersAre, LayerDestroy, KeyboardStep, KeyboardAdd, KeyboardRemove, KeyboardKey,
       LockStep, Lock, LockedSent, LockSurfaceNew, LockClick, LockSurfaceDestroy,
       SurfaceDestroyed
  <1> QED
    BY <1>4, <1>5, <1>6

\* Whoever the lock keeps waiting gets the keyboard: the locker while the
\* session is locked (focus_first, handle_new_surface), the exclusive surface
\* when it opens (leave_secure).
THEOREM WaitersServed == Spec => WaitingServed
  <1>1. JInv => LockerServed
    BY DEF JInv
  <1>2. JInv /\ [Next]_vars =>
          [secure /\ ~secure' /\ seat.kbd # None /\ TopExclusive(layerList, layer) # None
             => seat'.focus = TopExclusive(layerList, layer)]_vars
    BY SeatAssumption, OpensToExclusive
  <1> QED
    BY <1>1, <1>2, Serving, PTL DEF Spec, WaitingServed, UnlockServesExclusive
=============================================================================
