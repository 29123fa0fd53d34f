--------------------------- MODULE Session_proofs ---------------------------
(***************************************************************************)
(* Proofs about the session and its lock: SessionLock for any clients, any *)
(* outputs and any width of the commit sequence number, then               *)
(* SessionSupervisor for any number of displays, any set of programs that  *)
(* fork and any limit of restarts.                                         *)
(*                                                                         *)
(* The claim that a locked session shows no desktop rests on which commits *)
(* a sequence number comparison accepts: ReachedIsNewer says that no frame *)
(* of the desktop is as new as a frame the comparison accepts, although    *)
(* the numbers wrap and older frames are still in flight.                  *)
(*                                                                         *)
(* CleanExit holds because each phase of the supervisor allows only some   *)
(* programs to have a process (Placed), and a socket only on the display   *)
(* that is being tried or was selected (Sockets).  A program that is not   *)
(* running has nothing left (Left), so what is started next is alone.      *)
(***************************************************************************)
EXTENDS SessionLock, SessionSupervisor, TLAPS

-----------------------------------------------------------------------------
\* The lock.

Hidden(o) ==
    /\ shown[o] # "desktop"
    /\ \A f \in flight[o] : ~f.desktop

\* The controller and its client agree on who holds the lock.
HolderAgrees ==
    /\ lockedSent => lock # NoLock
    /\ lock # NoLock => secure
    /\ \A c \in Clients :
          /\ told[c] \in {"pending", "locked"} <=> lock = c
          /\ told[c] = "locked" => lockedSent

\* An unplugged output has nothing on its screen and nothing on the way.
UnpluggedIsBlank ==
    \A o \in Outputs : o \notin outs => flight[o] = {} /\ shown[o] = "blank"

FlightIsRecent == \A o \in Outputs : \A f \in flight[o] : Age(o, f) <= MaxLag

ReachedIsNewer ==
    \A o \in Outputs :
        secure /\ pending[o] =>
            \A f, g \in flight[o] :
                SeqReached(f.seq, pendSeq[o]) /\ g.desktop =>
                    Age(o, g) > Age(o, f)

PresentedIsHidden ==
    \A o \in outs : secure /\ presented[o] => Hidden(o)

SentIsHidden == lockedSent => \A o \in outs : Hidden(o)

LockInv ==
    /\ LockTypeOK
    /\ HolderAgrees
    /\ UnpluggedIsBlank
    /\ FlightIsRecent
    /\ ReachedIsNewer
    /\ PresentedIsHidden
    /\ SentIsHidden

-----------------------------------------------------------------------------
\* The arithmetic of sequence numbers, the only place where the wrap shows.

LEMMA DiffType == ASSUME NEW a \in Seqs, NEW b \in Seqs
                  PROVE  Diff(a, b) \in Seqs
  BY SLAssumption DEF Diff, Seqs, SeqMod

LEMMA IncType == ASSUME NEW a \in Seqs PROVE Inc(a) \in Seqs
  BY SLAssumption DEF Inc, Seqs, SeqMod

\* One more commit makes every commit one step older.
LEMMA IncAges == ASSUME NEW a \in Seqs, NEW b \in Seqs, Diff(a, b) < Half
                 PROVE  Diff(Inc(a), b) = Diff(a, b) + 1
  BY SLAssumption DEF Diff, Inc, Seqs, SeqMod

\* No recent commit counts as reached by the number of the next one.
LEMMA RecentNotReached ==
    ASSUME NEW a \in Seqs, NEW b \in Seqs, Diff(a, b) < Half
    PROVE  ~SeqReached(b, Inc(a))
  BY SLAssumption DEF Diff, Inc, SeqReached, Seqs, SeqMod

LEMMA DiffSelf == ASSUME NEW a \in Seqs PROVE Diff(a, a) = 0
  BY SLAssumption DEF Diff, Seqs, SeqMod
-----------------------------------------------------------------------------
\* What maybe_send_locked and schedule_locked_frames leave behind.

LEMMA SendType ==
    ASSUME NEW os, NEW now, NEW l \in Clients \cup {NoLock},
           NEW sec \in BOOLEAN, NEW sent \in BOOLEAN,
           NEW t \in [Clients -> {"none", "pending", "locked", "finished"}],
           MaybeSendLocked(os, now, l, sec, sent, t)
    PROVE  /\ lockedSent' \in BOOLEAN
           /\ told' \in [Clients -> {"none", "pending", "locked", "finished"}]
  BY DEF MaybeSendLocked

LEMMA ScheduleType ==
    ASSUME LockTypeOK, NEW l \in Clients \cup {NoLock},
           NEW t \in [Clients -> {"none", "pending", "locked", "finished"}],
           ScheduleLockedFrames(l, t)
    PROVE  /\ presented' = [o \in Outputs |-> FALSE]
           /\ pending' = [o \in Outputs |-> FALSE]
           /\ sched' \in [Outputs -> BOOLEAN]
           /\ lockedSent' \in BOOLEAN
           /\ told' \in [Clients -> {"none", "pending", "locked", "finished"}]
           /\ lockedSent' => outs = {} /\ l # NoLock
           /\ told' = IF lockedSent' THEN [t EXCEPT ![l] = "locked"] ELSE t
<1>1. \A o \in outs : ~[p \in Outputs |-> FALSE][o]
  BY DEF LockTypeOK
<1>2. /\ lockedSent' \in BOOLEAN
      /\ lockedSent' => outs = {} /\ l # NoLock
      /\ told' = IF lockedSent' THEN [t EXCEPT ![l] = "locked"] ELSE t
  BY <1>1 DEF ScheduleLockedFrames, MaybeSendLocked
<1>3. sched' \in [Outputs -> BOOLEAN]
  BY DEF ScheduleLockedFrames, LockTypeOK
<1>4. /\ presented' = [o \in Outputs |-> FALSE]
      /\ pending' = [o \in Outputs |-> FALSE]
  BY DEF ScheduleLockedFrames
<1> QED
  BY <1>2, <1>3, <1>4

LEMMA LockInitInv == LockInit => LockInv
<1> SUFFICES ASSUME LockInit PROVE LockInv
  OBVIOUS
<1>1. 0 \in Seqs
  BY SLAssumption DEF Seqs, SeqMod
<1>2. LockTypeOK
  BY <1>1 DEF LockInit, LockTypeOK
<1>3. HolderAgrees
  BY SLAssumption DEF LockInit, HolderAgrees
<1> QED
  BY <1>2, <1>3 DEF LockInit, LockInv, UnpluggedIsBlank, FlightIsRecent,
       ReachedIsNewer, PresentedIsHidden, SentIsHidden

LEMMA NewLockInv ==
    ASSUME LockInv, NEW c \in Clients, NewLock(c)
    PROVE  LockInv'
<1> USE DEF LockInv
<1>1. CASE lock # NoLock
  <2>1. told' = [told EXCEPT ![c] = "finished"] /\ UNCHANGED <<ctlVars, outVars, backVars, sched>>
    BY <1>1 DEF NewLock
  <2> QED
    BY <2>1 DEF NewLock, LockTypeOK, HolderAgrees, UnpluggedIsBlank, FlightIsRecent,
         ReachedIsNewer, PresentedIsHidden, SentIsHidden, Hidden, Age,
         ctlVars, outVars, backVars
<1>2. CASE lock = NoLock
  <2> DEFINE t == [told EXCEPT ![c] = "pending"]
  <2>1. /\ lock' = c /\ secure' = TRUE /\ ScheduleLockedFrames(c, t)
        /\ UNCHANGED <<outs, pendSeq, seq, flight, shown>>
    BY <1>2 DEF NewLock, backVars
  <2>2. t \in [Clients -> {"none", "pending", "locked", "finished"}]
    BY DEF LockTypeOK
  <2>3. /\ presented' = [o \in Outputs |-> FALSE]
        /\ pending' = [o \in Outputs |-> FALSE]
        /\ sched' \in [Outputs -> BOOLEAN]
        /\ lockedSent' \in BOOLEAN
        /\ told' \in [Clients -> {"none", "pending", "locked", "finished"}]
        /\ lockedSent' => outs = {}
        /\ told' = IF lockedSent' THEN [t EXCEPT ![c] = "locked"] ELSE t
    <3> HIDE DEF t
    <3> QED BY <2>1, <2>2, ScheduleType
  <2>4. LockTypeOK'
    BY <2>1, <2>3 DEF LockTypeOK
  <2>5. HolderAgrees'
    BY <1>2, <2>1, <2>3, SLAssumption DEF HolderAgrees, LockTypeOK
  <2> QED
    BY <2>1, <2>3, <2>4, <2>5 DEF LockTypeOK, UnpluggedIsBlank, FlightIsRecent,
         ReachedIsNewer, PresentedIsHidden, SentIsHidden, Age
<1> QED BY <1>1, <1>2

LEMMA UnlockInv ==
    ASSUME LockInv, NEW c \in Clients, Unlock(c)
    PROVE  LockInv'
  BY SLAssumption DEF LockInv, Unlock, LockTypeOK, HolderAgrees, UnpluggedIsBlank,
       FlightIsRecent, ReachedIsNewer, PresentedIsHidden, SentIsHidden, Age,
       outVars, backVars

LEMMA LockDestroyInv ==
    ASSUME LockInv, NEW c \in Clients, LockDestroy(c)
    PROVE  LockInv'
<1> USE DEF LockInv
<1> DEFINE t == [told EXCEPT ![c] = "none"]
<1>0. t \in [Clients -> {"none", "pending", "locked", "finished"}]
  BY DEF LockTypeOK
<1>1. CASE lock # c
  BY <1>1 DEF LockDestroy, LockTypeOK, HolderAgrees, UnpluggedIsBlank,
       FlightIsRecent, ReachedIsNewer, PresentedIsHidden, SentIsHidden, Hidden,
       Age, ctlVars, outVars, backVars
<1>2. CASE lock = c /\ lockedSent
  <2>1. /\ lock' = NoLock /\ ScheduleLockedFrames(NoLock, t)
        /\ UNCHANGED <<secure, outs, pendSeq, seq, flight, shown>>
    BY <1>2 DEF LockDestroy, backVars
  <2>2. /\ presented' = [o \in Outputs |-> FALSE]
        /\ pending' = [o \in Outputs |-> FALSE]
        /\ sched' \in [Outputs -> BOOLEAN]
        /\ lockedSent' = FALSE
        /\ told' = t
    <3> HIDE DEF t
    <3> QED BY <1>0, <2>1, ScheduleType
  <2>3. LockTypeOK'
    BY <1>0, <2>1, <2>2 DEF LockTypeOK
  <2>4. HolderAgrees'
    BY <1>2, <2>1, <2>2, SLAssumption DEF HolderAgrees, LockTypeOK
  <2> QED
    BY <2>1, <2>2, <2>3, <2>4 DEF LockTypeOK, UnpluggedIsBlank, FlightIsRecent,
         ReachedIsNewer, PresentedIsHidden, SentIsHidden, Age
<1>3. CASE lock = c /\ ~lockedSent
  BY <1>3, SLAssumption DEF LockDestroy, LockTypeOK, HolderAgrees, UnpluggedIsBlank,
       FlightIsRecent, ReachedIsNewer, PresentedIsHidden, SentIsHidden, Age,
       outVars, backVars
<1> QED BY <1>1, <1>2, <1>3 DEF LockTypeOK

LEMMA OutputAddInv ==
    ASSUME LockInv, NEW o \in Outputs, OutputAdd(o)
    PROVE  LockInv'
  BY DEF LockInv, OutputAdd, LockTypeOK, HolderAgrees, UnpluggedIsBlank,
       FlightIsRecent, ReachedIsNewer, PresentedIsHidden, SentIsHidden, Hidden,
       Age, ctlVars, backVars

LEMMA OutputRemoveInv ==
    ASSUME LockInv, NEW o \in Outputs, OutputRemove(o)
    PROVE  LockInv'
<1> USE DEF LockInv
<1>1. LockTypeOK'
  <2>1. lockedSent' \in BOOLEAN
        /\ told' \in [Clients -> {"none", "pending", "locked", "finished"}]
    BY SendType DEF LockTypeOK, OutputRemove
  <2>2. 0 \in Seqs
    BY SLAssumption DEF Seqs, SeqMod
  <2> QED BY <2>1, <2>2 DEF LockTypeOK, OutputRemove
<1>2. HolderAgrees'
  BY SLAssumption DEF OutputRemove, MaybeSendLocked, HolderAgrees, LockTypeOK
<1>3. \A p \in Outputs \ {o} :
         /\ flight'[p] = flight[p] /\ shown'[p] = shown[p] /\ seq'[p] = seq[p]
         /\ pending'[p] = pending[p] /\ pendSeq'[p] = pendSeq[p]
         /\ presented'[p] = presented[p]
  BY DEF OutputRemove, LockTypeOK
<1>4. flight'[o] = {} /\ shown'[o] = "blank" /\ ~pending'[o] /\ ~presented'[o]
  BY DEF OutputRemove, LockTypeOK
<1>5. outs' = outs \ {o} /\ secure' = secure
  BY DEF OutputRemove
<1>6. UnpluggedIsBlank' /\ FlightIsRecent' /\ ReachedIsNewer'
  BY <1>3, <1>4, <1>5 DEF UnpluggedIsBlank, FlightIsRecent, ReachedIsNewer, Age
<1>7. PresentedIsHidden'
  BY <1>3, <1>5 DEF PresentedIsHidden, Hidden, LockTypeOK
<1>8. lockedSent' => lockedSent \/ (secure /\ \A p \in outs' : presented[p])
  BY <1>5 DEF OutputRemove, MaybeSendLocked
<1>9. SentIsHidden'
  BY <1>3, <1>5, <1>8 DEF SentIsHidden, PresentedIsHidden, Hidden, LockTypeOK
<1> QED BY <1>1, <1>2, <1>6, <1>7, <1>9

LEMMA CommitPendingType ==
    ASSUME LockTypeOK, NEW o \in Outputs, CommitPending(o)
    PROVE  /\ pending' \in [Outputs -> BOOLEAN]
           /\ pendSeq' \in [Outputs -> Seqs]
           /\ \A p \in Outputs \ {o} : /\ pending'[p] = pending[p]
                                       /\ pendSeq'[p] = pendSeq[p]
           /\ \/ secure /\ pending'[o] /\ pendSeq'[o] = Inc(seq[o])
              \/ pending'[o] = pending[o] /\ pendSeq'[o] = pendSeq[o]
<1>1. Inc(seq[o]) \in Seqs
  BY IncType DEF LockTypeOK
<1> QED BY <1>1, ZenonT(60) DEF CommitPending, LockTypeOK

\* A number noted for the next commit is reached by no commit in flight.
LEMMA NotedIsNewer ==
    ASSUME LockInv, NEW o \in Outputs, NEW f \in flight[o]
    PROVE  ~SeqReached(f.seq, Inc(seq[o]))
<1>1. f \in Frame /\ f.seq \in Seqs /\ seq[o] \in Seqs
  BY DEF LockInv, LockTypeOK, Frame
<1>2. Diff(seq[o], f.seq) < Half
  <2>1. Diff(seq[o], f.seq) \in Seqs
    BY <1>1, DiffType
  <2>2. Diff(seq[o], f.seq) <= MaxLag
    BY DEF LockInv, FlightIsRecent, Age
  <2> QED
    BY <2>1, <2>2, SLAssumption DEF Seqs, SeqMod
<1> QED BY <1>1, <1>2, RecentNotReached

LEMMA FrameUndamagedInv ==
    ASSUME LockInv, NEW o \in Outputs, FrameUndamaged(o)
    PROVE  LockInv'
<1> USE DEF LockInv
<1>1. CommitPending(o) /\ UNCHANGED <<ctlVars, outs, presented, told, backVars, sched>>
  BY DEF FrameUndamaged
<1>2. LockTypeOK'
  BY <1>1, CommitPendingType DEF LockTypeOK, ctlVars, backVars
<1>3. ReachedIsNewer'
  BY <1>1, CommitPendingType, NotedIsNewer
     DEF ReachedIsNewer, Age, ctlVars, backVars
<1> QED
  BY <1>1, <1>2, <1>3 DEF HolderAgrees, UnpluggedIsBlank, FlightIsRecent,
       PresentedIsHidden, SentIsHidden, Hidden, Age, ctlVars, backVars

LEMMA FrameFailedInv ==
    ASSUME LockInv, NEW o \in Outputs, FrameFailed(o)
    PROVE  LockInv'
<1> USE DEF LockInv
<1> DEFINE noted == secure /\ ~presented[o] /\ ~pending[o]
<1>1. Inc(seq[o]) \in Seqs
  BY IncType DEF LockTypeOK
<1>2. /\ pendSeq' = IF noted THEN [pendSeq EXCEPT ![o] = Inc(seq[o])] ELSE pendSeq
      /\ pending' = IF secure /\ (noted \/ pendSeq[o] = Inc(seq[o]))
                    THEN [pending EXCEPT ![o] = FALSE] ELSE pending
      /\ sched' = [sched EXCEPT ![o] = FALSE]
      /\ UNCHANGED <<ctlVars, outs, presented, told, backVars>>
  BY DEF FrameFailed
<1>3. LockTypeOK'
  BY <1>1, <1>2 DEF LockTypeOK, ctlVars, backVars
<1>4. \A p \in Outputs : secure /\ pending'[p] =>
         pending[p] /\ pendSeq'[p] = pendSeq[p]
  BY <1>2 DEF LockTypeOK
<1>5. ReachedIsNewer'
  BY <1>2, <1>4 DEF ReachedIsNewer, Age, ctlVars, backVars
<1> QED
  BY <1>2, <1>3, <1>5 DEF HolderAgrees, UnpluggedIsBlank, FlightIsRecent,
       PresentedIsHidden, SentIsHidden, Hidden, Age, ctlVars, backVars

LEMMA FrameCommittedInv ==
    ASSUME LockInv, NEW o \in Outputs, FrameCommitted(o)
    PROVE  LockInv'
<1> USE DEF LockInv
\* the frame committed, as a constant of the step
<1>0. PICK new : new = [seq |-> Inc(seq[o]), desktop |-> ~secure]
  OBVIOUS
<1>1. /\ seq[o] \in Seqs /\ Inc(seq[o]) \in Seqs /\ new \in Frame
      /\ new.seq = Inc(seq[o]) /\ new.desktop = ~secure
  BY <1>0, IncType DEF LockTypeOK, Frame
<1>2. /\ CommitPending(o) /\ o \in outs
      /\ seq' = [seq EXCEPT ![o] = Inc(seq[o])]
      /\ flight' = [flight EXCEPT ![o] = @ \cup {new}]
      /\ sched' = [sched EXCEPT ![o] = FALSE]
      /\ \A f \in flight[o] : Age(o, f) < MaxLag
      /\ UNCHANGED <<lock, secure, lockedSent, outs, presented, told, shown>>
  BY <1>0 DEF FrameCommitted, ctlVars
<1>3. LockTypeOK'
  <2>1. flight' \in [Outputs -> SUBSET Frame] /\ seq' \in [Outputs -> Seqs]
    BY <1>1, <1>2 DEF LockTypeOK
  <2> QED BY <1>2, <2>1, CommitPendingType DEF LockTypeOK
<1>4. /\ seq'[o] = Inc(seq[o]) /\ flight'[o] = flight[o] \cup {new}
      /\ \A p \in Outputs \ {o} : seq'[p] = seq[p] /\ flight'[p] = flight[p]
  BY <1>2 DEF LockTypeOK
<1>5. \A f \in flight[o] : /\ f.seq \in Seqs
                           /\ Age(o, f) \in Int
                           /\ Age(o, f)' = Age(o, f) + 1
  <2> TAKE f \in flight[o]
  <2>1. f.seq \in Seqs
    BY DEF LockTypeOK, Frame
  <2>2. Age(o, f) \in Seqs
    BY <1>1, <2>1, DiffType DEF Age
  <2>3. Age(o, f) < Half
    BY <1>2, <2>2, SLAssumption DEF Seqs, SeqMod
  <2> QED
    BY <1>1, <1>4, <2>1, <2>2, <2>3, IncAges DEF Age, Seqs
<1>6. Age(o, new)' = 0
  BY <1>1, <1>4, DiffSelf DEF Age
<1>7. FlightIsRecent'
  <2>1. \A f \in flight'[o] : Age(o, f)' <= MaxLag
    BY <1>2, <1>4, <1>5, <1>6, SLAssumption
  <2> QED BY <1>4, <2>1 DEF FlightIsRecent, Age
<1>8. ReachedIsNewer'
  <2> SUFFICES ASSUME NEW p \in Outputs, secure, pending'[p],
                      NEW f \in flight'[p], NEW g \in flight'[p],
                      SeqReached(f.seq, pendSeq'[p]), g.desktop
               PROVE  Age(p, g)' > Age(p, f)'
    BY <1>2 DEF ReachedIsNewer
  <2>1. CASE p # o
    BY <1>2, <1>4, <2>1, CommitPendingType DEF ReachedIsNewer, Age
  <2>2. CASE p = o
    <3>1. g \in flight[o]
      BY <1>1, <1>4, <2>2
    <3>2. CASE f = new
      BY <1>5, <1>6, <2>2, <3>1, <3>2, DiffType, <1>1, SMTT(30) DEF Age, Seqs
    <3>3. CASE f \in flight[o]
      <4>1. pending[o] /\ pendSeq'[o] = pendSeq[o]
        BY <1>2, <2>2, <3>3, CommitPendingType, NotedIsNewer
      <4> QED BY <1>5, <2>2, <3>1, <3>3, <4>1 DEF ReachedIsNewer
    <3> QED BY <1>4, <2>2, <3>2, <3>3
  <2> QED BY <2>1, <2>2
<1>9. \A p \in Outputs : secure /\ Hidden(p) => Hidden(p)'
  BY <1>1, <1>2, <1>4 DEF Hidden
<1>10. UnpluggedIsBlank' /\ HolderAgrees'
  BY <1>2, <1>4 DEF UnpluggedIsBlank, HolderAgrees
<1>11. PresentedIsHidden' /\ SentIsHidden'
  BY <1>2, <1>9 DEF PresentedIsHidden, SentIsHidden, HolderAgrees, LockTypeOK
<1> QED BY <1>3, <1>7, <1>8, <1>10, <1>11

LEMMA PresentDroppedInv ==
    ASSUME LockInv, NEW o \in Outputs, PresentDropped(o)
    PROVE  LockInv'
<1> USE DEF LockInv
<1>1. /\ \A p \in Outputs : flight'[p] \subseteq flight[p]
      /\ flight' \in [Outputs -> SUBSET Frame]
      /\ UNCHANGED <<lock, secure, lockedSent, outs, presented, pending,
                     pendSeq, told, seq, shown, sched>>
  BY DEF PresentDropped, LockTypeOK, ctlVars, outVars
<1>2. LockTypeOK'
  BY <1>1 DEF LockTypeOK
<1>3. HolderAgrees' /\ UnpluggedIsBlank' /\ FlightIsRecent' /\ ReachedIsNewer'
  BY <1>1 DEF HolderAgrees, UnpluggedIsBlank, FlightIsRecent, ReachedIsNewer, Age
<1>4. PresentedIsHidden' /\ SentIsHidden'
  BY <1>1 DEF PresentedIsHidden, SentIsHidden, Hidden, LockTypeOK
<1> QED BY <1>2, <1>3, <1>4

LEMMA PresentShownInv ==
    ASSUME LockInv, NEW o \in Outputs, PresentShown(o)
    PROVE  LockInv'
<1> USE DEF LockInv
<1>1. PICK f \in Oldest(o) :
        LET counts == /\ secure /\ ~presented[o] /\ pending[o]
                      /\ SeqReached(f.seq, pendSeq[o])
            now == [presented EXCEPT ![o] = presented[o] \/ counts]
        IN  /\ flight' = [flight EXCEPT ![o] = @ \ {f}]
            /\ shown' = [shown EXCEPT ![o] =
                           IF f.desktop THEN "desktop" ELSE "lock"]
            /\ presented' = now
            /\ pending' = [pending EXCEPT ![o] = pending[o] /\ ~counts]
            /\ IF counts
               THEN MaybeSendLocked(outs, now, lock, secure, lockedSent, told)
               ELSE UNCHANGED <<lockedSent, told>>
  BY DEF PresentShown
<1> DEFINE counts == /\ secure /\ ~presented[o] /\ pending[o]
                     /\ SeqReached(f.seq, pendSeq[o])
<1>2. /\ o \in outs
      /\ UNCHANGED <<lock, secure, outs, pendSeq, seq, sched>>
  BY DEF PresentShown
<1>3. /\ f \in flight[o]
      /\ f \in Frame
      /\ \A g \in flight[o] : Age(o, g) <= Age(o, f)
  BY DEF Oldest, LockTypeOK
<1>4. /\ flight'[o] = flight[o] \ {f}
      /\ shown'[o] = IF f.desktop THEN "desktop" ELSE "lock"
      /\ presented'[o] <=> presented[o] \/ counts
      /\ pending'[o] <=> pending[o] /\ ~counts
      /\ \A p \in Outputs \ {o} :
            /\ flight'[p] = flight[p] /\ shown'[p] = shown[p]
            /\ presented'[p] = presented[p] /\ pending'[p] = pending[p]
  BY <1>1 DEF LockTypeOK
<1>5. LockTypeOK'
  <2>1. /\ flight' \in [Outputs -> SUBSET Frame]
        /\ shown' \in [Outputs -> {"blank", "desktop", "lock"}]
        /\ presented' \in [Outputs -> BOOLEAN]
        /\ pending' \in [Outputs -> BOOLEAN]
    BY <1>1 DEF LockTypeOK
  <2>2. /\ lockedSent' \in BOOLEAN
        /\ told' \in [Clients -> {"none", "pending", "locked", "finished"}]
    BY <1>1, SendType DEF LockTypeOK
  <2> QED BY <1>2, <2>1, <2>2 DEF LockTypeOK
<1>6. HolderAgrees'
  <2>1. CASE counts
    <3>1. MaybeSendLocked(outs, presented', lock, secure, lockedSent, told)
      BY <1>1, <2>1
    <3> QED BY <1>2, <3>1, SLAssumption DEF MaybeSendLocked, HolderAgrees, LockTypeOK
  <2>2. CASE ~counts
    <3>1. UNCHANGED <<lockedSent, told>>
      BY <1>1, <2>2
    <3> QED BY <1>2, <3>1 DEF HolderAgrees
  <2> QED BY <2>1, <2>2
<1>7. UnpluggedIsBlank' /\ FlightIsRecent' /\ ReachedIsNewer'
  BY <1>2, <1>4 DEF UnpluggedIsBlank, FlightIsRecent, ReachedIsNewer, Age, LockTypeOK
\* The frame just shown is the oldest; if it counts, nothing on the way is the
\* desktop's.
<1>8. counts => Hidden(o)'
  <2> SUFFICES ASSUME counts PROVE Hidden(o)'
    OBVIOUS
  <2>1. \A g \in flight[o] : g.desktop => Age(o, g) > Age(o, f)
    BY <1>3 DEF ReachedIsNewer
  <2>2. \A g \in flight[o] : Age(o, g) \in Int
    BY DiffType DEF LockTypeOK, Frame, Age, Seqs
  <2>3. \A g \in flight[o] : ~g.desktop
    BY <1>3, <2>1, <2>2
  <2> QED BY <1>3, <1>4, <2>3 DEF Hidden
<1>9. \A p \in Outputs : Hidden(p) => Hidden(p)'
  BY <1>3, <1>4 DEF Hidden
<1>10. PresentedIsHidden'
  BY <1>2, <1>4, <1>8, <1>9 DEF PresentedIsHidden, LockTypeOK
<1>11. lockedSent' => lockedSent \/ (secure /\ \A p \in outs : presented'[p])
  <2>1. CASE counts
    <3>1. MaybeSendLocked(outs, presented', lock, secure, lockedSent, told)
      BY <1>1, <2>1
    <3> QED BY <3>1 DEF MaybeSendLocked
  <2>2. CASE ~counts
    BY <1>1, <2>2
  <2> QED BY <2>1, <2>2
<1>12. SentIsHidden'
  BY <1>2, <1>9, <1>10, <1>11 DEF SentIsHidden, PresentedIsHidden, LockTypeOK
<1> QED BY <1>5, <1>6, <1>7, <1>10, <1>12

-----------------------------------------------------------------------------
LEMMA LockStutterInv == ASSUME LockInv, UNCHANGED lockVars PROVE LockInv'
  BY DEF LockInv, lockVars, ctlVars, outVars, backVars, LockTypeOK, HolderAgrees,
       UnpluggedIsBlank, FlightIsRecent, ReachedIsNewer, PresentedIsHidden,
       SentIsHidden, Hidden, Age

THEOREM LockInvariance == LockSpec => []LockInv
<1>1. LockInv /\ [LockNext]_lockVars => LockInv'
  <2> SUFFICES ASSUME LockInv, [LockNext]_lockVars PROVE LockInv'
    OBVIOUS
  <2>1. CASE UNCHANGED lockVars
    BY <2>1, LockStutterInv
  <2>2. ASSUME NEW c \in Clients, NewLock(c) \/ Unlock(c) \/ LockDestroy(c)
        PROVE  LockInv'
    BY <2>2, NewLockInv, UnlockInv, LockDestroyInv
  <2>3. ASSUME NEW o \in Outputs, OutputAdd(o) \/ OutputRemove(o)
        PROVE  LockInv'
    BY <2>3, OutputAddInv, OutputRemoveInv
  <2>4. ASSUME NEW o \in Outputs, Frames(o)
        PROVE  LockInv'
    BY <2>4, FrameCommittedInv, FrameUndamagedInv, FrameFailedInv DEF Frames
  <2>5. ASSUME NEW o \in Outputs, Presents(o)
        PROVE  LockInv'
    BY <2>5, PresentDroppedInv, PresentShownInv DEF Presents
  <2> QED BY <2>1, <2>2, <2>3, <2>4, <2>5 DEF LockNext
<1> QED BY <1>1, LockInitInv, PTL DEF LockSpec

\* Every variable keeps its type, for every number of clients and outputs and
\* every width of commit_seq.
THEOREM LockTypeCorrect == LockSpec => []LockTypeOK
<1>1. LockInv => LockTypeOK
  BY DEF LockInv
<1> QED BY <1>1, LockInvariance, PTL

\* "locked" is sent only when no screen shows the desktop any more, and none
\* will: maybe_send_locked is not early whatever was in flight.
THEOREM NoEarlyLocked == LockSpec => []LockedHidesDesktop
<1>1. LockInv => LockedHidesDesktop
  BY DEF LockInv, SentIsHidden, LockedHidesDesktop, Hidden
<1> QED BY <1>1, LockInvariance, PTL

\* What a client was told stays true until it unlocks or dies.
THEOREM PromiseToLocker == LockSpec => []ToldLockedHolds
<1>1. LockInv => ToldLockedHolds
  BY SLAssumption DEF LockInv, HolderAgrees, ToldLockedHolds, LockTypeOK
<1> QED BY <1>1, LockInvariance, PTL

\* The promise of "locked" is kept, for any number of outputs and clients and
\* any width of commit_seq.
THEOREM PromiseKept == LockSpec => []LockPromise
BY NoEarlyLocked, PromiseToLocker, PTL DEF LockPromise

\* The death of a locker that was told "locked" never opens the session.
THEOREM OpenedByUnlock == LockSpec => OnlyUnlockOpens
<1> DEFINE Opening == secure /\ ~secure' =>
                        /\ lock # NoLock
                        /\ lockedSent => \E c \in Clients : Unlock(c)
<1>1. LockInv /\ [LockNext]_lockVars => [Opening]_lockVars
  <2> SUFFICES ASSUME LockInv, LockNext, secure, ~secure'
               PROVE  /\ lock # NoLock
                      /\ lockedSent => \E c \in Clients : Unlock(c)
    BY DEF lockVars
  <2>1. ASSUME NEW c \in Clients, NewLock(c) \/ LockDestroy(c)
        PROVE  lock # NoLock /\ ~lockedSent
    BY <2>1, SLAssumption DEF NewLock, LockDestroy, ctlVars
  <2>2. ASSUME NEW c \in Clients, Unlock(c)
        PROVE  lock # NoLock
    BY <2>2, SLAssumption DEF Unlock
  <2>3. ASSUME NEW o \in Outputs, OutputAdd(o) \/ OutputRemove(o)
        PROVE  FALSE
    BY <2>3 DEF OutputAdd, OutputRemove, ctlVars
  <2>4. ASSUME NEW o \in Outputs, Frames(o) \/ Presents(o)
        PROVE  FALSE
    BY <2>4 DEF Frames, Presents, FrameCommitted, FrameUndamaged, FrameFailed,
         PresentDropped, PresentShown, ctlVars
  <2> QED BY <2>1, <2>2, <2>3, <2>4 DEF LockNext
<1> QED BY <1>1, LockInvariance, PTL DEF LockSpec, OnlyUnlockOpens


-----------------------------------------------------------------------------
\* The supervisor.

\* The programs with a process, and those that a phase allows to have one.
Present == {r \in Roles : leader[r] # "none"} \cup rest

MayRun(phase) ==
    CASE phase \in {"config", "seed", "core_start", "ended"} -> {}
      [] phase \in {"core_wait", "core_roundtrip", "satellite_probe", "display", "end_core"} ->
           {"core"}
      [] phase \in {"satellite_wait", "satellite_roundtrip", "import", "start",
                    "end_satellite"} -> {"core", "satellite"}
      [] phase = "end_shell" -> {"core", "satellite", "shell"}
      [] OTHER -> Roles

Placed == Present \subseteq MayRun(pc)

\* The only socket of the session is that of the display in use.
Sockets ==
    /\ \A d \in Displays : path[d] = "ours" =>
         d = display /\ pc \notin {"config", "seed", "core_start", "core_wait",
                                   "core_roundtrip", "satellite_probe", "display",
                                   "end_core", "ended"}
    /\ pc \in {"satellite_wait", "satellite_roundtrip", "import", "start", "core_check", "satellite_check",
               "window", "polkit_check", "shell_check", "end_polkit", "end_shell",
               "end_satellite"} => display \in Displays

\* A restarted program that is not there has left nothing.
Left == \A r \in {"shell", "polkit"} : leader[r] = "none" => r \notin rest

\* The starts of the agent are its failures, and the instance that runs.
Looping == {"core_check", "satellite_check", "window", "polkit_check", "shell_check",
            "end_polkit"}
Tried ==
    /\ attempts <= PolkitRestartMax
    /\ pc \in Looping =>
         IF leader["polkit"] = "none"
         THEN attempts <= failures /\ (degraded \/ failures < PolkitRestartMax)
         ELSE attempts <= failures + 1 /\ failures < PolkitRestartMax /\ ~degraded
    /\ pc \notin Looping \cup {"end_shell", "end_satellite", "end_core", "ended"}
         => failures = 0 /\ ~degraded

\* When Core went first and the satellite's end was seen, the window is not over
\* before Core can be waited for, unless it is late.
Ending == {"end_polkit", "end_shell", "end_satellite", "end_core", "ended"}
Blame ==
    /\ coreFirst => coreGone
    /\ pc = "window" =>
         leader["satellite"] = "none" /\ (over => late \/ ~coreFirst)
    /\ pc \in Ending /\ cause = "satellite" =>
         leader["satellite"] = "none" /\ (stop \/ late \/ ~coreFirst)
    /\ pc \notin Ending => cause = "none"
    /\ pc \in Ending \ {"ended"} => cause # "none"
    /\ code = "satellite" =>
         (late \/ ~coreFirst) /\ pc = "ended" /\ leader["satellite"] = "none"

\* What ForeignKept says of a step, and Service of a step of a program.
ForeignStays ==
    /\ \A d \in Displays :
         path[d] = "foreign" /\ path'[d] # "foreign" => d \in foreign \ foreign'
    /\ config = "user" => config' = "user"

ServiceMoves(q) ==
    \/ Seen(q) = "down" /\ Seen(q)' = "up"
    \/ Seen(q) = "up" /\ Seen(q)' = "left"
    \/ Seen(q) \in {"up", "left"} /\ Seen(q)' = "down"
    \/ Seen(q) = "down" /\ Seen(q)' = "over"
    \/ Seen(q)' = Seen(q)

IInv == TypeOK /\ Placed /\ Sockets /\ Left /\ Tried /\ Blame

-----------------------------------------------------------------------------
LEMMA FailureCounts ==
  ASSUME NEW recent \in Nat, degraded \in BOOLEAN, PolkitFailed(recent)
  PROVE  /\ failures' = recent + 1 /\ degraded' \in BOOLEAN
         /\ degraded' \/ failures' < PolkitRestartMax
  <1>1. failures' = recent + 1 /\ degraded' = (degraded \/ recent + 1 >= PolkitRestartMax)
    BY DEF PolkitFailed
  <1>2. CASE recent + 1 >= PolkitRestartMax
    <2>1. degraded' = TRUE
      BY <1>1, <1>2
    <2> QED
      BY <1>1, <2>1
  <1>3. CASE ~(recent + 1 >= PolkitRestartMax)
    <2>1. degraded' = degraded
      BY <1>1, <1>3
    <2>2. recent + 1 < PolkitRestartMax
      BY <1>3, SupervisorAssumption
    <2> QED
      BY <1>1, <2>1, <2>2
  <1> QED
    BY <1>2, <1>3

LEMMA TypeKept ==
  ASSUME TypeOK, Blame, Sockets, [Next]_vars
  PROVE  TypeOK'
  <1>1. CASE ResolveConfig
    BY <1>1
      DEF TypeOK, Blame, Ending, Roles, Displays, Phases, ResolveConfig, procVars,
          fileVars, polkitVars, waitVars
  <1>2. CASE SeedConfig
    BY <1>2
      DEF TypeOK, Blame, Ending, Roles, Displays, Phases, SeedConfig, procVars,
          polkitVars, waitVars
  <1>3. CASE StartCore
    <2>1. (leader \in [Roles -> {"none", "live", "zombie"}])'
      BY <1>3 DEF TypeOK, Roles, StartCore, Spawn, fileVars, polkitVars, waitVars
    <2>2. (foreign \in SUBSET Displays /\ path \in [Displays -> {"none", "ours", "foreign"}])'
      BY <1>3 DEF TypeOK, StartCore, Spawn, fileVars, polkitVars, waitVars
    <2>3. (pc \in Phases /\ display \in 0..(DisplayMax + 1))'
      BY <1>3, SupervisorAssumption DEF TypeOK, Phases, Displays, StartCore, Spawn, fileVars, polkitVars, waitVars
    <2>4. (rest \in SUBSET Roles /\ config \in {"none", "ours", "user"} /\ stop \in BOOLEAN)'
      BY <1>3 DEF TypeOK, StartCore, Spawn, fileVars, polkitVars, waitVars
    <2>5. (failures \in Nat /\ degraded \in BOOLEAN /\ attempts \in Nat)'
      BY <1>3 DEF TypeOK, StartCore, Spawn, fileVars, polkitVars, waitVars
    <2>6. (due \in [{"shell", "polkit"} -> BOOLEAN])'
      BY <1>3 DEF TypeOK, StartCore, Spawn, fileVars, polkitVars, waitVars
    <2>7. (cause \in {"none", "early", "import", "stop", "core", "satellite"} /\ code \in {"none", "failure", "success", "core", "satellite"})'
      BY <1>3 DEF TypeOK, StartCore, Spawn, fileVars, polkitVars, waitVars
    <2>8. (coreFirst \in BOOLEAN /\ coreGone \in BOOLEAN /\ late \in BOOLEAN /\ silent \in BOOLEAN /\ over \in BOOLEAN)'
      BY <1>3 DEF TypeOK, StartCore, Spawn, fileVars, polkitVars, waitVars
    <2> QED
      BY <2>1, <2>2, <2>3, <2>4, <2>5, <2>6, <2>7, <2>8 DEF TypeOK
  <1>4. CASE WaitCoreReady
    BY <1>4
      DEF TypeOK, Blame, Ending, Roles, Displays, Phases, WaitCoreReady, GiveUp, Exited,
          procVars, fileVars, polkitVars, waitVars
  <1>5. CASE ProbeSatellite
    BY <1>5, SupervisorAssumption
      DEF TypeOK, Blame, Ending, Roles, Displays, Phases, ProbeSatellite, GiveUp,
          procVars, fileVars, polkitVars, waitVars
  <1>6. CASE TryDisplay
    <2>1. (leader \in [Roles -> {"none", "live", "zombie"}])'
      BY <1>6
        DEF TypeOK, TryDisplay, SpawnSatellite, CannotStart, Spawn, GiveUp, Occupied, procVars, polkitVars, waitVars, Roles
    <2>2. (rest \in SUBSET Roles)'
      BY <1>6
        DEF TypeOK, TryDisplay, SpawnSatellite, CannotStart, Spawn, GiveUp, Occupied, procVars, polkitVars, waitVars, Roles
    <2>3. (foreign \in SUBSET Displays)'
      BY <1>6 DEF TypeOK, TryDisplay, SpawnSatellite, CannotStart, Spawn, GiveUp, Occupied, procVars, polkitVars, waitVars
    <2>4. (path \in [Displays -> {"none", "ours", "foreign"}])'
      BY <1>6 DEF TypeOK, TryDisplay, SpawnSatellite, CannotStart, Spawn, GiveUp, Occupied, procVars, polkitVars, waitVars
    <2>5. (config \in {"none", "ours", "user"} /\ pc \in Phases /\ stop \in BOOLEAN)'
      BY <1>6
        DEF TypeOK, TryDisplay, SpawnSatellite, CannotStart, Spawn, GiveUp, Occupied, procVars, polkitVars, waitVars,
            Phases
    <2>6. (display \in 0..(DisplayMax + 1))'
      BY <1>6, SupervisorAssumption
        DEF TypeOK, TryDisplay, SpawnSatellite, CannotStart, Spawn, GiveUp, Occupied, procVars, polkitVars, waitVars,
            Displays
    <2>7. (failures \in Nat /\ degraded \in BOOLEAN /\ attempts \in Nat)'
      BY <1>6 DEF TypeOK, TryDisplay, SpawnSatellite, CannotStart, Spawn, GiveUp, Occupied, procVars, polkitVars, waitVars
    <2>8. (due \in [{"shell", "polkit"} -> BOOLEAN])'
      BY <1>6 DEF TypeOK, TryDisplay, SpawnSatellite, CannotStart, Spawn, GiveUp, Occupied, procVars, polkitVars, waitVars
    <2>9. (cause \in {"none", "early", "import", "stop", "core", "satellite"} /\ code \in {"none", "failure", "success", "core", "satellite"} /\ coreFirst \in BOOLEAN /\ coreGone \in BOOLEAN /\ late \in BOOLEAN /\ silent \in BOOLEAN /\ over \in BOOLEAN)'
      BY <1>6 DEF TypeOK, TryDisplay, SpawnSatellite, CannotStart, Spawn, GiveUp, Occupied, procVars, polkitVars, waitVars
    <2> QED
      BY <2>1, <2>2, <2>3, <2>4, <2>5, <2>6, <2>7, <2>8, <2>9 DEF TypeOK
  <1>7. CASE WaitSatelliteReady
    <2>1. (leader \in [Roles -> {"none", "live", "zombie"}])'
      BY <1>7
        DEF TypeOK, WaitSatelliteReady, DisplayFailed, Exited, Terminate, ListenerClose,
            procVars, polkitVars, waitVars, Roles
    <2>2. (rest \in SUBSET Roles)'
      BY <1>7
        DEF TypeOK, WaitSatelliteReady, DisplayFailed, Exited, Terminate, ListenerClose,
            procVars, polkitVars, waitVars, Roles
    <2>3. (foreign \in SUBSET Displays)'
      BY <1>7
        DEF TypeOK, WaitSatelliteReady, DisplayFailed, Exited, Terminate, ListenerClose,
            procVars, polkitVars, waitVars
    <2>4. (path \in [Displays -> {"none", "ours", "foreign"}])'
      BY <1>7
        DEF TypeOK, WaitSatelliteReady, DisplayFailed, Exited, Terminate, ListenerClose,
            procVars, polkitVars, waitVars
    <2>5. (config \in {"none", "ours", "user"} /\ pc \in Phases /\ stop \in BOOLEAN)'
      BY <1>7
        DEF TypeOK, WaitSatelliteReady, DisplayFailed, Exited, Terminate, ListenerClose,
            procVars, polkitVars, waitVars, Phases
    <2>6. (display \in 0..(DisplayMax + 1))'
      BY <1>7, SupervisorAssumption
        DEF TypeOK, Sockets, WaitSatelliteReady, DisplayFailed, Exited, Terminate,
            ListenerClose, procVars, polkitVars, waitVars, Displays
    <2>7. (failures \in Nat /\ degraded \in BOOLEAN /\ attempts \in Nat)'
      BY <1>7
        DEF TypeOK, WaitSatelliteReady, DisplayFailed, Exited, Terminate, ListenerClose,
            procVars, polkitVars, waitVars
    <2>8. (due \in [{"shell", "polkit"} -> BOOLEAN])'
      BY <1>7
        DEF TypeOK, WaitSatelliteReady, DisplayFailed, Exited, Terminate, ListenerClose,
            procVars, polkitVars, waitVars
    <2>9. (cause \in {"none", "early", "import", "stop", "core", "satellite"} /\ code \in {"none", "failure", "success", "core", "satellite"} /\ coreFirst \in BOOLEAN /\ coreGone \in BOOLEAN /\ late \in BOOLEAN /\ silent \in BOOLEAN /\ over \in BOOLEAN)'
      BY <1>7
        DEF TypeOK, WaitSatelliteReady, DisplayFailed, Exited, Terminate, ListenerClose,
            procVars, polkitVars, waitVars
    <2> QED
      BY <2>1, <2>2, <2>3, <2>4, <2>5, <2>6, <2>7, <2>8, <2>9 DEF TypeOK
  <1>8. CASE ImportEnvironment
    BY <1>8
      DEF TypeOK, Blame, Ending, Roles, Displays, Phases, ImportEnvironment, GiveUpWithSatellite,
          procVars, fileVars, polkitVars, waitVars
  <1>9. CASE StartDaemons
    <2>1. (leader \in [Roles -> {"none", "live", "zombie"}])'
      BY <1>9 DEF TypeOK, StartDaemons, fileVars, waitVars
    <2>2. (rest \in SUBSET Roles)'
      BY <1>9 DEF TypeOK, StartDaemons, fileVars, waitVars, Roles
    <2>3. (foreign \in SUBSET Displays)'
      BY <1>9 DEF TypeOK, StartDaemons, fileVars, waitVars
    <2>4. (path \in [Displays -> {"none", "ours", "foreign"}])'
      BY <1>9 DEF TypeOK, StartDaemons, fileVars, waitVars
    <2>5. (config \in {"none", "ours", "user"} /\ pc \in Phases /\ stop \in BOOLEAN)'
      BY <1>9 DEF TypeOK, StartDaemons, fileVars, waitVars, Phases
    <2>6. (display \in 0..(DisplayMax + 1))'
      BY <1>9, SupervisorAssumption
        DEF TypeOK, StartDaemons, fileVars, waitVars, Displays
    <2>7. (failures \in Nat /\ degraded \in BOOLEAN /\ attempts \in Nat)'
      BY <1>9 DEF TypeOK, StartDaemons
    <2>8. (due \in [{"shell", "polkit"} -> BOOLEAN])'
      BY <1>9 DEF TypeOK, StartDaemons, fileVars, waitVars
    <2>9. (cause \in {"none", "early", "import", "stop", "core", "satellite"} /\ code \in {"none", "failure", "success", "core", "satellite"} /\ coreFirst \in BOOLEAN /\ coreGone \in BOOLEAN /\ late \in BOOLEAN /\ silent \in BOOLEAN /\ over \in BOOLEAN)'
      BY <1>9 DEF TypeOK, StartDaemons, fileVars, waitVars
    <2> QED
      BY <2>1, <2>2, <2>3, <2>4, <2>5, <2>6, <2>7, <2>8, <2>9 DEF TypeOK
  <1>10. CASE CheckCore
    BY <1>10
      DEF TypeOK, Blame, Ending, Roles, Displays, Phases, CheckCore, Exited,
          fileVars, polkitVars, waitVars
  <1>11. CASE CheckSatellite
    <2>1. (leader \in [Roles -> {"none", "live", "zombie"}])'
      BY <1>11 DEF TypeOK, Roles, CheckSatellite, Exited, ListenerClose, polkitVars, waitVars
    <2>2. (foreign \in SUBSET Displays /\ path \in [Displays -> {"none", "ours", "foreign"}])'
      BY <1>11 DEF TypeOK, CheckSatellite, Exited, ListenerClose, polkitVars, waitVars
    <2>3. (pc \in Phases /\ display \in 0..(DisplayMax + 1))'
      BY <1>11, SupervisorAssumption DEF TypeOK, Phases, Displays, CheckSatellite, Exited, ListenerClose, polkitVars, waitVars
    <2>4. (rest \in SUBSET Roles /\ config \in {"none", "ours", "user"} /\ stop \in BOOLEAN)'
      BY <1>11 DEF TypeOK, CheckSatellite, Exited, ListenerClose, polkitVars, waitVars
    <2>5. (failures \in Nat /\ degraded \in BOOLEAN /\ attempts \in Nat)'
      BY <1>11 DEF TypeOK, CheckSatellite, Exited, ListenerClose, polkitVars, waitVars
    <2>6. (due \in [{"shell", "polkit"} -> BOOLEAN])'
      BY <1>11 DEF TypeOK, CheckSatellite, Exited, ListenerClose, polkitVars, waitVars
    <2>7. (cause \in {"none", "early", "import", "stop", "core", "satellite"} /\ code \in {"none", "failure", "success", "core", "satellite"})'
      BY <1>11 DEF TypeOK, CheckSatellite, Exited, ListenerClose, polkitVars, waitVars
    <2>8. (coreFirst \in BOOLEAN /\ coreGone \in BOOLEAN /\ late \in BOOLEAN /\ silent \in BOOLEAN /\ over \in BOOLEAN)'
      BY <1>11 DEF TypeOK, CheckSatellite, Exited, ListenerClose, polkitVars, waitVars
    <2> QED
      BY <2>1, <2>2, <2>3, <2>4, <2>5, <2>6, <2>7, <2>8 DEF TypeOK
  <1>12. CASE CausalWindow
    BY <1>12
      DEF TypeOK, Blame, Ending, Roles, Displays, Phases, CausalWindow, Exited,
          fileVars, polkitVars, waitVars
  <1>13. CASE CheckPolkit
    <2>1. (leader \in [Roles -> {"none", "live", "zombie"}])'
      BY <1>13
        DEF TypeOK, CheckPolkit, StartPolkitAgent, Exited, Terminate, PolkitFailed, Spawn, procVars,
            fileVars, polkitVars, waitVars, Roles
    <2>2. (rest \in SUBSET Roles)'
      <3>1. rest' \in {rest, rest \ {"polkit"}}
        BY <1>13 DEF CheckPolkit, StartPolkitAgent, Terminate, procVars
      <3> QED
        BY <3>1 DEF TypeOK
    <2>3. (foreign \in SUBSET Displays)'
      BY <1>13
        DEF TypeOK, CheckPolkit, StartPolkitAgent, Exited, Terminate, PolkitFailed, Spawn, procVars,
            fileVars, polkitVars, waitVars
    <2>4. (path \in [Displays -> {"none", "ours", "foreign"}])'
      BY <1>13
        DEF TypeOK, CheckPolkit, StartPolkitAgent, Exited, Terminate, PolkitFailed, Spawn, procVars,
            fileVars, polkitVars, waitVars
    <2>5. (config \in {"none", "ours", "user"} /\ pc \in Phases /\ stop \in BOOLEAN)'
      BY <1>13
        DEF TypeOK, CheckPolkit, StartPolkitAgent, Exited, Terminate, PolkitFailed, Spawn, procVars,
            fileVars, polkitVars, waitVars, Phases
    <2>6. (display \in 0..(DisplayMax + 1))'
      BY <1>13, SupervisorAssumption
        DEF TypeOK, CheckPolkit, StartPolkitAgent, Exited, Terminate, PolkitFailed, Spawn, procVars,
            fileVars, polkitVars, waitVars, Displays
    <2>7. (failures \in Nat /\ degraded \in BOOLEAN /\ attempts \in Nat)'
      <3>1. CASE Exited("polkit")
        <4>1. PICK stable \in BOOLEAN :
                 /\ PolkitFailed(IF stable THEN 0 ELSE failures)
                 /\ attempts' = IF stable THEN 1 ELSE attempts
          BY <1>13, <3>1 DEF CheckPolkit, StartPolkitAgent, Exited
        <4>2. (IF stable THEN 0 ELSE failures) \in Nat
          BY DEF TypeOK
        <4> QED
          BY <4>1, <4>2, FailureCounts DEF TypeOK
      <3>2. CASE ~Exited("polkit")
        <4>1. attempts' \in {attempts, attempts + 1}
          BY <1>13, <3>2 DEF CheckPolkit, StartPolkitAgent, polkitVars, waitVars
        <4>2. UNCHANGED <<failures, degraded>> \/ PolkitFailed(failures)
          BY <1>13, <3>2 DEF CheckPolkit, StartPolkitAgent, polkitVars, waitVars
        <4> QED
          BY <4>1, <4>2, FailureCounts DEF TypeOK
      <3> QED
        BY <3>1, <3>2
    <2>8. (due \in [{"shell", "polkit"} -> BOOLEAN])'
      BY <1>13
        DEF TypeOK, CheckPolkit, StartPolkitAgent, Exited, Terminate, PolkitFailed, Spawn, procVars,
            fileVars, polkitVars, waitVars
    <2>9. (cause \in {"none", "early", "import", "stop", "core", "satellite"} /\ code \in {"none", "failure", "success", "core", "satellite"} /\ coreFirst \in BOOLEAN /\ coreGone \in BOOLEAN /\ late \in BOOLEAN /\ silent \in BOOLEAN /\ over \in BOOLEAN)'
      BY <1>13
        DEF TypeOK, CheckPolkit, StartPolkitAgent, Exited, Terminate, PolkitFailed, Spawn, procVars,
            fileVars, polkitVars, waitVars
    <2> QED
      BY <2>1, <2>2, <2>3, <2>4, <2>5, <2>6, <2>7, <2>8, <2>9 DEF TypeOK
  <1>14. CASE CheckShell
    <2>1. (leader \in [Roles -> {"none", "live", "zombie"}])'
      BY <1>14
        DEF TypeOK, CheckShell, StartShell, Exited, Terminate, Spawn, procVars, fileVars,
            polkitVars, waitVars, Roles
    <2>2. (rest \in SUBSET Roles)'
      BY <1>14
        DEF TypeOK, CheckShell, StartShell, Exited, Terminate, Spawn, procVars, fileVars,
            polkitVars, waitVars, Roles
    <2>3. (foreign \in SUBSET Displays)'
      BY <1>14
        DEF TypeOK, CheckShell, StartShell, Exited, Terminate, Spawn, procVars, fileVars,
            polkitVars, waitVars
    <2>4. (path \in [Displays -> {"none", "ours", "foreign"}])'
      BY <1>14
        DEF TypeOK, CheckShell, StartShell, Exited, Terminate, Spawn, procVars, fileVars,
            polkitVars, waitVars
    <2>5. (config \in {"none", "ours", "user"} /\ pc \in Phases /\ stop \in BOOLEAN)'
      BY <1>14
        DEF TypeOK, CheckShell, StartShell, Exited, Terminate, Spawn, procVars, fileVars,
            polkitVars, waitVars, Phases
    <2>6. (display \in 0..(DisplayMax + 1))'
      BY <1>14, SupervisorAssumption
        DEF TypeOK, CheckShell, StartShell, Exited, Terminate, Spawn, procVars, fileVars,
            polkitVars, waitVars, Displays
    <2>7. (failures \in Nat /\ degraded \in BOOLEAN /\ attempts \in Nat)'
      BY <1>14
        DEF TypeOK, CheckShell, StartShell, Exited, Terminate, Spawn, procVars, fileVars,
            polkitVars, waitVars
    <2>8. (due \in [{"shell", "polkit"} -> BOOLEAN])'
      BY <1>14
        DEF TypeOK, CheckShell, StartShell, Exited, Terminate, Spawn, procVars, fileVars,
            polkitVars, waitVars
    <2>9. (cause \in {"none", "early", "import", "stop", "core", "satellite"} /\ code \in {"none", "failure", "success", "core", "satellite"} /\ coreFirst \in BOOLEAN /\ coreGone \in BOOLEAN /\ late \in BOOLEAN /\ silent \in BOOLEAN /\ over \in BOOLEAN)'
      BY <1>14
        DEF TypeOK, CheckShell, StartShell, Exited, Terminate, Spawn, procVars, fileVars,
            polkitVars, waitVars
    <2> QED
      BY <2>1, <2>2, <2>3, <2>4, <2>5, <2>6, <2>7, <2>8, <2>9 DEF TypeOK
  <1>15. CASE EndPolkit
    BY <1>15
      DEF TypeOK, Blame, Ending, Roles, Displays, Phases, EndPolkit, Terminate,
          fileVars, polkitVars, waitVars
  <1>16. CASE EndShell
    BY <1>16
      DEF TypeOK, Blame, Ending, Roles, Displays, Phases, EndShell, Terminate,
          fileVars, polkitVars, waitVars
  <1>17. CASE EndSatellite
    <2>1. (leader \in [Roles -> {"none", "live", "zombie"}])'
      BY <1>17 DEF TypeOK, Roles, EndSatellite, Terminate, ListenerClose, polkitVars, waitVars
    <2>2. (foreign \in SUBSET Displays /\ path \in [Displays -> {"none", "ours", "foreign"}])'
      BY <1>17 DEF TypeOK, EndSatellite, Terminate, ListenerClose, polkitVars, waitVars
    <2>3. (pc \in Phases /\ display \in 0..(DisplayMax + 1))'
      BY <1>17, SupervisorAssumption DEF TypeOK, Phases, Displays, EndSatellite, Terminate, ListenerClose, polkitVars, waitVars
    <2>4. (rest \in SUBSET Roles /\ config \in {"none", "ours", "user"} /\ stop \in BOOLEAN)'
      BY <1>17 DEF TypeOK, EndSatellite, Terminate, ListenerClose, polkitVars, waitVars
    <2>5. (failures \in Nat /\ degraded \in BOOLEAN /\ attempts \in Nat)'
      BY <1>17 DEF TypeOK, EndSatellite, Terminate, ListenerClose, polkitVars, waitVars
    <2>6. (due \in [{"shell", "polkit"} -> BOOLEAN])'
      BY <1>17 DEF TypeOK, EndSatellite, Terminate, ListenerClose, polkitVars, waitVars
    <2>7. (cause \in {"none", "early", "import", "stop", "core", "satellite"} /\ code \in {"none", "failure", "success", "core", "satellite"})'
      BY <1>17 DEF TypeOK, EndSatellite, Terminate, ListenerClose, polkitVars, waitVars
    <2>8. (coreFirst \in BOOLEAN /\ coreGone \in BOOLEAN /\ late \in BOOLEAN /\ silent \in BOOLEAN /\ over \in BOOLEAN)'
      BY <1>17 DEF TypeOK, EndSatellite, Terminate, ListenerClose, polkitVars, waitVars
    <2> QED
      BY <2>1, <2>2, <2>3, <2>4, <2>5, <2>6, <2>7, <2>8 DEF TypeOK
  <1>18. CASE EndCore
    BY <1>18
      DEF TypeOK, Blame, Ending, Roles, Displays, Phases, EndCore, Terminate,
          fileVars, polkitVars, waitVars
  <1>19. CASE Signal
    BY <1>19
      DEF TypeOK, Blame, Ending, Roles, Displays, Phases, Signal, procVars,
          fileVars, polkitVars, waitVars
  <1>20. CASE UserWrites
    BY <1>20
      DEF TypeOK, Blame, Ending, Roles, Displays, Phases, UserWrites, procVars,
          polkitVars, waitVars
  <1>21. ASSUME NEW r \in Roles, Dies(r) PROVE TypeOK'
    BY <1>21
      DEF TypeOK, Blame, Ending, Roles, Displays, Phases, Dies, fileVars, polkitVars, waitVars
  <1>22. ASSUME NEW r \in Roles, Descendant(r) PROVE TypeOK'
    <2>1. (leader \in [Roles -> {"none", "live", "zombie"}])'
      BY <1>22 DEF TypeOK, Descendant, fileVars, polkitVars, waitVars
    <2>2. (rest \in SUBSET Roles)'
      BY <1>22 DEF TypeOK, Descendant, fileVars, polkitVars, waitVars
    <2>3. (foreign \in SUBSET Displays)'
      BY <1>22 DEF TypeOK, Descendant, fileVars, polkitVars, waitVars
    <2>4. (path \in [Displays -> {"none", "ours", "foreign"}])'
      BY <1>22 DEF TypeOK, Descendant, fileVars, polkitVars, waitVars
    <2>5. (config \in {"none", "ours", "user"} /\ pc \in Phases /\ stop \in BOOLEAN)'
      BY <1>22 DEF TypeOK, Descendant, fileVars, polkitVars, waitVars, Phases
    <2>6. (display \in 0..(DisplayMax + 1))'
      BY <1>22, SupervisorAssumption
        DEF TypeOK, Descendant, fileVars, polkitVars, waitVars, Displays
    <2>7. (failures \in Nat /\ degraded \in BOOLEAN /\ attempts \in Nat)'
      BY <1>22 DEF TypeOK, Descendant, fileVars, polkitVars, waitVars
    <2>8. (due \in [{"shell", "polkit"} -> BOOLEAN])'
      BY <1>22 DEF TypeOK, Descendant, fileVars, polkitVars, waitVars
    <2>9. (cause \in {"none", "early", "import", "stop", "core", "satellite"} /\ code \in {"none", "failure", "success", "core", "satellite"} /\ coreFirst \in BOOLEAN /\ coreGone \in BOOLEAN /\ late \in BOOLEAN /\ silent \in BOOLEAN /\ over \in BOOLEAN)'
      BY <1>22 DEF TypeOK, Descendant, fileVars, polkitVars, waitVars
    <2> QED
      BY <2>1, <2>2, <2>3, <2>4, <2>5, <2>6, <2>7, <2>8, <2>9 DEF TypeOK
  <1>23. ASSUME NEW r \in {"shell", "polkit"}, DelayOver(r) PROVE TypeOK'
    BY <1>23
      DEF TypeOK, Blame, Ending, Roles, Displays, Phases, DelayOver, procVars,
          fileVars, polkitVars, waitVars
  <1>24. ASSUME NEW d \in Displays, ForeignServer(d) PROVE TypeOK'
    <2>1. (leader \in [Roles -> {"none", "live", "zombie"}])'
      BY <1>24 DEF TypeOK, ForeignServer, procVars, polkitVars, waitVars
    <2>2. (rest \in SUBSET Roles)'
      BY <1>24 DEF TypeOK, ForeignServer, procVars, polkitVars, waitVars, Roles
    <2>3. (foreign \in SUBSET Displays)'
      BY <1>24 DEF TypeOK, ForeignServer, procVars, polkitVars, waitVars
    <2>4. (path \in [Displays -> {"none", "ours", "foreign"}])'
      BY <1>24 DEF TypeOK, ForeignServer, procVars, polkitVars, waitVars
    <2>5. (config \in {"none", "ours", "user"} /\ pc \in Phases /\ stop \in BOOLEAN)'
      BY <1>24 DEF TypeOK, ForeignServer, procVars, polkitVars, waitVars, Phases
    <2>6. (display \in 0..(DisplayMax + 1))'
      BY <1>24, SupervisorAssumption
        DEF TypeOK, ForeignServer, procVars, polkitVars, waitVars, Displays
    <2>7. (failures \in Nat /\ degraded \in BOOLEAN /\ attempts \in Nat)'
      BY <1>24 DEF TypeOK, ForeignServer, procVars, polkitVars, waitVars
    <2>8. (due \in [{"shell", "polkit"} -> BOOLEAN])'
      BY <1>24 DEF TypeOK, ForeignServer, procVars, polkitVars, waitVars
    <2>9. (cause \in {"none", "early", "import", "stop", "core", "satellite"} /\ code \in {"none", "failure", "success", "core", "satellite"} /\ coreFirst \in BOOLEAN /\ coreGone \in BOOLEAN /\ late \in BOOLEAN /\ silent \in BOOLEAN /\ over \in BOOLEAN)'
      BY <1>24 DEF TypeOK, ForeignServer, procVars, polkitVars, waitVars
    <2> QED
      BY <2>1, <2>2, <2>3, <2>4, <2>5, <2>6, <2>7, <2>8, <2>9 DEF TypeOK
  <1>25. CASE UNCHANGED vars
    BY <1>25
      DEF TypeOK, Blame, Ending, Roles, Displays, Phases, vars, procVars, fileVars,
          polkitVars, waitVars
  <1>26. CASE CoreRoundtrip
    BY <1>26
      DEF TypeOK, Blame, Ending, Roles, Displays, Phases, CoreRoundtrip, GiveUp, Exited,
          procVars, fileVars, polkitVars, waitVars
  <1>27. CASE SatelliteRoundtrip
    <2>1. (leader \in [Roles -> {"none", "live", "zombie"}])'
      BY <1>27
        DEF TypeOK, SatelliteRoundtrip, DisplayFailed, Exited, Terminate, ListenerClose,
            procVars, polkitVars, waitVars, Roles
    <2>2. (rest \in SUBSET Roles)'
      BY <1>27
        DEF TypeOK, SatelliteRoundtrip, DisplayFailed, Exited, Terminate, ListenerClose,
            procVars, polkitVars, waitVars, Roles
    <2>3. (foreign \in SUBSET Displays)'
      BY <1>27
        DEF TypeOK, SatelliteRoundtrip, DisplayFailed, Exited, Terminate, ListenerClose,
            procVars, polkitVars, waitVars
    <2>4. (path \in [Displays -> {"none", "ours", "foreign"}])'
      BY <1>27
        DEF TypeOK, SatelliteRoundtrip, DisplayFailed, Exited, Terminate, ListenerClose,
            procVars, polkitVars, waitVars
    <2>5. (config \in {"none", "ours", "user"} /\ pc \in Phases /\ stop \in BOOLEAN)'
      BY <1>27
        DEF TypeOK, SatelliteRoundtrip, DisplayFailed, Exited, Terminate, ListenerClose,
            procVars, polkitVars, waitVars, Phases
    <2>6. (display \in 0..(DisplayMax + 1))'
      BY <1>27, SupervisorAssumption
        DEF TypeOK, Sockets, SatelliteRoundtrip, DisplayFailed, Exited, Terminate,
            ListenerClose, procVars, polkitVars, waitVars, Displays
    <2>7. (failures \in Nat /\ degraded \in BOOLEAN /\ attempts \in Nat)'
      BY <1>27
        DEF TypeOK, SatelliteRoundtrip, DisplayFailed, Exited, Terminate, ListenerClose,
            procVars, polkitVars, waitVars
    <2>8. (due \in [{"shell", "polkit"} -> BOOLEAN])'
      BY <1>27
        DEF TypeOK, SatelliteRoundtrip, DisplayFailed, Exited, Terminate, ListenerClose,
            procVars, polkitVars, waitVars
    <2>9. (cause \in {"none", "early", "import", "stop", "core", "satellite"} /\ code \in {"none", "failure", "success", "core", "satellite"} /\ coreFirst \in BOOLEAN /\ coreGone \in BOOLEAN /\ late \in BOOLEAN /\ silent \in BOOLEAN /\ over \in BOOLEAN)'
      BY <1>27
        DEF TypeOK, SatelliteRoundtrip, DisplayFailed, Exited, Terminate, ListenerClose,
            procVars, polkitVars, waitVars
    <2> QED
      BY <2>1, <2>2, <2>3, <2>4, <2>5, <2>6, <2>7, <2>8, <2>9 DEF TypeOK
  <1>28. CASE CoreCloses
    BY <1>28
      DEF TypeOK, Blame, Ending, Roles, Displays, Phases, CoreCloses, procVars,
          fileVars, polkitVars, waitVars
  <1>29. CASE Silence
    BY <1>29
      DEF TypeOK, Blame, Ending, Roles, Displays, Phases, Silence, procVars,
          fileVars, polkitVars, waitVars
  <1>30. CASE DeadlineOver
    BY <1>30
      DEF TypeOK, Blame, Ending, Roles, Displays, Phases, DeadlineOver, Timed, Exited, procVars,
          fileVars, polkitVars, waitVars
  <1> QED
    BY <1>1, <1>2, <1>3, <1>4, <1>5, <1>6, <1>7, <1>8, <1>9, <1>10, <1>11, <1>12,
       <1>13, <1>14, <1>15, <1>16, <1>17, <1>18, <1>19, <1>20, <1>21, <1>22, <1>23,
       <1>24, <1>25, <1>26, <1>27, <1>28, <1>29, <1>30
      DEF Next, Supervisor, Environment

LEMMA PlacedKept ==
  ASSUME TypeOK, Placed, [Next]_vars
  PROVE  Placed'
  <1>1. CASE ResolveConfig
    BY <1>1
      DEF Placed, TypeOK, Present, MayRun, Roles, Phases, ResolveConfig, procVars,
          fileVars, polkitVars, waitVars
  <1>2. CASE SeedConfig
    BY <1>2
      DEF Placed, TypeOK, Present, MayRun, Roles, Phases, SeedConfig, procVars,
          polkitVars, waitVars
  <1>3. CASE StartCore
    BY <1>3
      DEF Placed, TypeOK, Present, MayRun, Roles, Phases, StartCore, Spawn,
          fileVars, polkitVars, waitVars
  <1>4. CASE WaitCoreReady
    BY <1>4
      DEF Placed, TypeOK, Present, MayRun, Roles, Phases, WaitCoreReady, GiveUp, Exited,
          procVars, fileVars, polkitVars, waitVars
  <1>5. CASE ProbeSatellite
    BY <1>5
      DEF Placed, TypeOK, Present, MayRun, Roles, Phases, ProbeSatellite, GiveUp,
          procVars, fileVars, polkitVars, waitVars
  <1>6. CASE TryDisplay
    BY <1>6
      DEF Placed, TypeOK, Present, MayRun, Roles, Phases, TryDisplay, SpawnSatellite, CannotStart, Spawn, GiveUp,
          Occupied, procVars, polkitVars, waitVars
  <1>7. CASE WaitSatelliteReady
    BY <1>7
      DEF Placed, TypeOK, Present, MayRun, Roles, Phases, WaitSatelliteReady,
          DisplayFailed, Exited, Terminate, ListenerClose, procVars, polkitVars, waitVars
  <1>8. CASE ImportEnvironment
    BY <1>8
      DEF Placed, TypeOK, Present, MayRun, Roles, Phases, ImportEnvironment, GiveUpWithSatellite,
          procVars, fileVars, polkitVars, waitVars
  <1>9. CASE StartDaemons
    BY <1>9
      DEF Placed, TypeOK, Present, MayRun, Roles, Phases, StartDaemons,
          fileVars, waitVars
  <1>10. CASE CheckCore
    BY <1>10
      DEF Placed, TypeOK, Present, MayRun, Roles, Phases, CheckCore, Exited,
          fileVars, polkitVars, waitVars
  <1>11. CASE CheckSatellite
    BY <1>11
      DEF Placed, TypeOK, Present, MayRun, Roles, Phases, CheckSatellite, Exited,
          ListenerClose, polkitVars, waitVars
  <1>12. CASE CausalWindow
    BY <1>12
      DEF Placed, TypeOK, Present, MayRun, Roles, Phases, CausalWindow, Exited,
          fileVars, polkitVars, waitVars
  <1>13. CASE CheckPolkit
    BY <1>13
      DEF Placed, TypeOK, Present, MayRun, Roles, Phases, CheckPolkit, StartPolkitAgent, Exited,
          Terminate, PolkitFailed, Spawn, procVars, fileVars, polkitVars, waitVars
  <1>14. CASE CheckShell
    BY <1>14
      DEF Placed, TypeOK, Present, MayRun, Roles, Phases, CheckShell, StartShell, Exited,
          Terminate, Spawn, procVars, fileVars, polkitVars, waitVars
  <1>15. CASE EndPolkit
    BY <1>15
      DEF Placed, TypeOK, Present, MayRun, Roles, Phases, EndPolkit, Terminate,
          fileVars, polkitVars, waitVars
  <1>16. CASE EndShell
    BY <1>16
      DEF Placed, TypeOK, Present, MayRun, Roles, Phases, EndShell, Terminate,
          fileVars, polkitVars, waitVars
  <1>17. CASE EndSatellite
    BY <1>17
      DEF Placed, TypeOK, Present, MayRun, Roles, Phases, EndSatellite, Terminate,
          ListenerClose, polkitVars, waitVars
  <1>18. CASE EndCore
    BY <1>18
      DEF Placed, TypeOK, Present, MayRun, Roles, Phases, EndCore, Terminate,
          fileVars, polkitVars, waitVars
  <1>19. CASE Signal
    BY <1>19
      DEF Placed, TypeOK, Present, MayRun, Roles, Phases, Signal, procVars,
          fileVars, polkitVars, waitVars
  <1>20. CASE UserWrites
    BY <1>20
      DEF Placed, TypeOK, Present, MayRun, Roles, Phases, UserWrites, procVars,
          polkitVars, waitVars
  <1>21. ASSUME NEW r \in Roles, Dies(r) PROVE Placed'
    BY <1>21
      DEF Placed, TypeOK, Present, MayRun, Roles, Phases, Dies, fileVars, polkitVars, waitVars
  <1>22. ASSUME NEW r \in Roles, Descendant(r) PROVE Placed'
    BY <1>22
      DEF Placed, TypeOK, Present, MayRun, Roles, Phases, Descendant, fileVars,
          polkitVars, waitVars
  <1>23. ASSUME NEW r \in {"shell", "polkit"}, DelayOver(r) PROVE Placed'
    BY <1>23
      DEF Placed, TypeOK, Present, MayRun, Roles, Phases, DelayOver, procVars,
          fileVars, polkitVars, waitVars
  <1>24. ASSUME NEW d \in Displays, ForeignServer(d) PROVE Placed'
    BY <1>24
      DEF Placed, TypeOK, Present, MayRun, Roles, Phases, ForeignServer, procVars,
          polkitVars, waitVars
  <1>25. CASE UNCHANGED vars
    BY <1>25
      DEF Placed, TypeOK, Present, MayRun, Roles, Phases, vars, procVars, fileVars,
          polkitVars, waitVars
  <1>26. CASE CoreRoundtrip
    BY <1>26
      DEF Placed, TypeOK, Present, MayRun, Roles, Phases, CoreRoundtrip, GiveUp, Exited,
          procVars, fileVars, polkitVars, waitVars
  <1>27. CASE SatelliteRoundtrip
    BY <1>27
      DEF Placed, TypeOK, Present, MayRun, Roles, Phases, SatelliteRoundtrip,
          DisplayFailed, Exited, Terminate, ListenerClose, procVars, polkitVars, waitVars
  <1>28. CASE CoreCloses
    BY <1>28
      DEF Placed, TypeOK, Present, MayRun, Roles, Phases, CoreCloses, procVars,
          fileVars, polkitVars, waitVars
  <1>29. CASE Silence
    BY <1>29
      DEF Placed, TypeOK, Present, MayRun, Roles, Phases, Silence, procVars,
          fileVars, polkitVars, waitVars
  <1>30. CASE DeadlineOver
    BY <1>30
      DEF Placed, TypeOK, Present, MayRun, Roles, Phases, DeadlineOver, Timed, Exited, procVars,
          fileVars, polkitVars, waitVars
  <1> QED
    BY <1>1, <1>2, <1>3, <1>4, <1>5, <1>6, <1>7, <1>8, <1>9, <1>10, <1>11, <1>12,
       <1>13, <1>14, <1>15, <1>16, <1>17, <1>18, <1>19, <1>20, <1>21, <1>22, <1>23,
       <1>24, <1>25, <1>26, <1>27, <1>28, <1>29, <1>30
      DEF Next, Supervisor, Environment

LEMMA SocketsKept ==
  ASSUME TypeOK, Placed, Sockets, [Next]_vars
  PROVE  Sockets'
  <1>1. CASE ResolveConfig
    BY <1>1, SupervisorAssumption
      DEF Sockets, Placed, MayRun, Present, TypeOK, Displays, Roles, ResolveConfig,
          procVars, fileVars, polkitVars, waitVars
  <1>2. CASE SeedConfig
    BY <1>2, SupervisorAssumption
      DEF Sockets, Placed, MayRun, Present, TypeOK, Displays, Roles, SeedConfig,
          procVars, polkitVars, waitVars
  <1>3. CASE StartCore
    BY <1>3, SupervisorAssumption
      DEF Sockets, Placed, MayRun, Present, TypeOK, Displays, Roles, StartCore,
          Spawn, fileVars, polkitVars, waitVars
  <1>4. CASE WaitCoreReady
    BY <1>4, SupervisorAssumption
      DEF Sockets, Placed, MayRun, Present, TypeOK, Displays, Roles, WaitCoreReady,
          GiveUp, Exited, procVars, fileVars, polkitVars, waitVars
  <1>5. CASE ProbeSatellite
    BY <1>5, SupervisorAssumption
      DEF Sockets, Placed, MayRun, Present, TypeOK, Displays, Roles, ProbeSatellite,
          GiveUp, procVars, fileVars, polkitVars, waitVars
  <1>6. CASE TryDisplay
    BY <1>6, SupervisorAssumption
      DEF Sockets, Placed, MayRun, Present, TypeOK, Displays, Roles, TryDisplay, SpawnSatellite, CannotStart,
          Spawn, GiveUp, Occupied, procVars, polkitVars, waitVars
  <1>7. CASE WaitSatelliteReady
    BY <1>7, SupervisorAssumption, SMTT(30)
      DEF Sockets, Placed, MayRun, Present, TypeOK, Displays, Roles,
          WaitSatelliteReady, DisplayFailed, Exited, Terminate, ListenerClose, procVars,
          polkitVars, waitVars
  <1>8. CASE ImportEnvironment
    BY <1>8, SupervisorAssumption
      DEF Sockets, Placed, MayRun, Present, TypeOK, Displays, Roles,
          ImportEnvironment, GiveUpWithSatellite, procVars, fileVars, polkitVars, waitVars
  <1>9. CASE StartDaemons
    BY <1>9, SupervisorAssumption
      DEF Sockets, Placed, MayRun, Present, TypeOK, Displays, Roles, StartDaemons,
          fileVars, waitVars
  <1>10. CASE CheckCore
    BY <1>10, SupervisorAssumption
      DEF Sockets, Placed, MayRun, Present, TypeOK, Displays, Roles, CheckCore,
          Exited, fileVars, polkitVars, waitVars
  <1>11. CASE CheckSatellite
    BY <1>11, SupervisorAssumption
      DEF Sockets, Placed, MayRun, Present, TypeOK, Displays, Roles, CheckSatellite,
          Exited, ListenerClose, polkitVars, waitVars
  <1>12. CASE CausalWindow
    BY <1>12, SupervisorAssumption
      DEF Sockets, Placed, MayRun, Present, TypeOK, Displays, Roles, CausalWindow,
          Exited, fileVars, polkitVars, waitVars
  <1>13. CASE CheckPolkit
    BY <1>13, SupervisorAssumption
      DEF Sockets, Placed, MayRun, Present, TypeOK, Displays, Roles, CheckPolkit, StartPolkitAgent,
          Exited, Terminate, PolkitFailed, Spawn, procVars, fileVars, polkitVars, waitVars
  <1>14. CASE CheckShell
    BY <1>14, SupervisorAssumption
      DEF Sockets, Placed, MayRun, Present, TypeOK, Displays, Roles, CheckShell, StartShell,
          Exited, Terminate, Spawn, procVars, fileVars, polkitVars, waitVars
  <1>15. CASE EndPolkit
    BY <1>15, SupervisorAssumption
      DEF Sockets, Placed, MayRun, Present, TypeOK, Displays, Roles, EndPolkit,
          Terminate, fileVars, polkitVars, waitVars
  <1>16. CASE EndShell
    BY <1>16, SupervisorAssumption
      DEF Sockets, Placed, MayRun, Present, TypeOK, Displays, Roles, EndShell,
          Terminate, fileVars, polkitVars, waitVars
  <1>17. CASE EndSatellite
    BY <1>17, SupervisorAssumption
      DEF Sockets, Placed, MayRun, Present, TypeOK, Displays, Roles, EndSatellite,
          Terminate, ListenerClose, polkitVars, waitVars
  <1>18. CASE EndCore
    BY <1>18, SupervisorAssumption
      DEF Sockets, Placed, MayRun, Present, TypeOK, Displays, Roles, EndCore,
          Terminate, fileVars, polkitVars, waitVars
  <1>19. CASE Signal
    BY <1>19, SupervisorAssumption
      DEF Sockets, Placed, MayRun, Present, TypeOK, Displays, Roles, Signal,
          procVars, fileVars, polkitVars, waitVars
  <1>20. CASE UserWrites
    BY <1>20, SupervisorAssumption
      DEF Sockets, Placed, MayRun, Present, TypeOK, Displays, Roles, UserWrites,
          procVars, polkitVars, waitVars
  <1>21. ASSUME NEW r \in Roles, Dies(r) PROVE Sockets'
    BY <1>21, SupervisorAssumption
      DEF Sockets, Placed, MayRun, Present, TypeOK, Displays, Roles, Dies, fileVars,
          polkitVars, waitVars
  <1>22. ASSUME NEW r \in Roles, Descendant(r) PROVE Sockets'
    BY <1>22, SupervisorAssumption
      DEF Sockets, Placed, MayRun, Present, TypeOK, Displays, Roles, Descendant,
          fileVars, polkitVars, waitVars
  <1>23. ASSUME NEW r \in {"shell", "polkit"}, DelayOver(r) PROVE Sockets'
    BY <1>23, SupervisorAssumption
      DEF Sockets, Placed, MayRun, Present, TypeOK, Displays, Roles, DelayOver,
          procVars, fileVars, polkitVars, waitVars
  <1>24. ASSUME NEW d \in Displays, ForeignServer(d) PROVE Sockets'
    BY <1>24, SupervisorAssumption
      DEF Sockets, Placed, MayRun, Present, TypeOK, Displays, Roles, ForeignServer,
          procVars, polkitVars, waitVars
  <1>25. CASE UNCHANGED vars
    BY <1>25
      DEF Sockets, Placed, MayRun, Present, TypeOK, Displays, Roles, vars, procVars,
          fileVars, polkitVars, waitVars
  <1>26. CASE CoreRoundtrip
    BY <1>26, SupervisorAssumption
      DEF Sockets, Placed, MayRun, Present, TypeOK, Displays, Roles, CoreRoundtrip,
          GiveUp, Exited, procVars, fileVars, polkitVars, waitVars
  <1>27. CASE SatelliteRoundtrip
    BY <1>27, SupervisorAssumption, SMTT(30)
      DEF Sockets, Placed, MayRun, Present, TypeOK, Displays, Roles,
          SatelliteRoundtrip, DisplayFailed, Exited, Terminate, ListenerClose, procVars,
          polkitVars, waitVars
  <1>28. CASE CoreCloses
    BY <1>28, SupervisorAssumption
      DEF Sockets, Placed, MayRun, Present, TypeOK, Displays, Roles, CoreCloses,
          procVars, fileVars, polkitVars, waitVars
  <1>29. CASE Silence
    BY <1>29, SupervisorAssumption
      DEF Sockets, Placed, MayRun, Present, TypeOK, Displays, Roles, Silence,
          procVars, fileVars, polkitVars, waitVars
  <1>30. CASE DeadlineOver
    BY <1>30, SupervisorAssumption
      DEF Sockets, Placed, MayRun, Present, TypeOK, Displays, Roles, DeadlineOver, Timed, Exited,
          procVars, fileVars, polkitVars, waitVars
  <1> QED
    BY <1>1, <1>2, <1>3, <1>4, <1>5, <1>6, <1>7, <1>8, <1>9, <1>10, <1>11, <1>12,
       <1>13, <1>14, <1>15, <1>16, <1>17, <1>18, <1>19, <1>20, <1>21, <1>22, <1>23,
       <1>24, <1>25, <1>26, <1>27, <1>28, <1>29, <1>30
      DEF Next, Supervisor, Environment

LEMMA LeftKept ==
  ASSUME TypeOK, Left, [Next]_vars
  PROVE  Left'
  <1>1. CASE ResolveConfig
    BY <1>1 DEF Left, TypeOK, Roles, ResolveConfig, procVars, fileVars, polkitVars, waitVars
  <1>2. CASE SeedConfig
    BY <1>2 DEF Left, TypeOK, Roles, SeedConfig, procVars, polkitVars, waitVars
  <1>3. CASE StartCore
    BY <1>3 DEF Left, TypeOK, Roles, StartCore, Spawn, fileVars, polkitVars, waitVars
  <1>4. CASE WaitCoreReady
    BY <1>4
      DEF Left, TypeOK, Roles, WaitCoreReady, GiveUp, Exited, procVars, fileVars, polkitVars, waitVars
  <1>5. CASE ProbeSatellite
    BY <1>5
      DEF Left, TypeOK, Roles, ProbeSatellite, GiveUp, procVars, fileVars,
          polkitVars, waitVars
  <1>6. CASE TryDisplay
    BY <1>6
      DEF Left, TypeOK, Roles, TryDisplay, SpawnSatellite, CannotStart, Spawn, GiveUp, Occupied, procVars,
          polkitVars, waitVars
  <1>7. CASE WaitSatelliteReady
    BY <1>7
      DEF Left, TypeOK, Roles, WaitSatelliteReady, DisplayFailed, Exited, Terminate,
          ListenerClose, procVars, polkitVars, waitVars
  <1>8. CASE ImportEnvironment
    BY <1>8
      DEF Left, TypeOK, Roles, ImportEnvironment, GiveUpWithSatellite, procVars, fileVars, polkitVars, waitVars
  <1>9. CASE StartDaemons
    BY <1>9 DEF Left, TypeOK, Roles, StartDaemons, fileVars, waitVars
  <1>10. CASE CheckCore
    BY <1>10 DEF Left, TypeOK, Roles, CheckCore, Exited, fileVars, polkitVars, waitVars
  <1>11. CASE CheckSatellite
    BY <1>11
      DEF Left, TypeOK, Roles, CheckSatellite, Exited, ListenerClose, polkitVars, waitVars
  <1>12. CASE CausalWindow
    BY <1>12 DEF Left, TypeOK, Roles, CausalWindow, Exited, fileVars, polkitVars, waitVars
  <1>13. CASE CheckPolkit
    BY <1>13
      DEF Left, TypeOK, Roles, CheckPolkit, StartPolkitAgent, Exited, Terminate, PolkitFailed, Spawn,
          procVars, fileVars, polkitVars, waitVars
  <1>14. CASE CheckShell
    BY <1>14
      DEF Left, TypeOK, Roles, CheckShell, StartShell, Exited, Terminate, Spawn, procVars,
          fileVars, polkitVars, waitVars
  <1>15. CASE EndPolkit
    BY <1>15 DEF Left, TypeOK, Roles, EndPolkit, Terminate, fileVars, polkitVars, waitVars
  <1>16. CASE EndShell
    BY <1>16 DEF Left, TypeOK, Roles, EndShell, Terminate, fileVars, polkitVars, waitVars
  <1>17. CASE EndSatellite
    BY <1>17
      DEF Left, TypeOK, Roles, EndSatellite, Terminate, ListenerClose, polkitVars, waitVars
  <1>18. CASE EndCore
    BY <1>18 DEF Left, TypeOK, Roles, EndCore, Terminate, fileVars, polkitVars, waitVars
  <1>19. CASE Signal
    BY <1>19 DEF Left, TypeOK, Roles, Signal, procVars, fileVars, polkitVars, waitVars
  <1>20. CASE UserWrites
    BY <1>20 DEF Left, TypeOK, Roles, UserWrites, procVars, polkitVars, waitVars
  <1>21. ASSUME NEW r \in Roles, Dies(r) PROVE Left'
    BY <1>21 DEF Left, TypeOK, Roles, Dies, fileVars, polkitVars, waitVars
  <1>22. ASSUME NEW r \in Roles, Descendant(r) PROVE Left'
    BY <1>22 DEF Left, TypeOK, Roles, Descendant, fileVars, polkitVars, waitVars
  <1>23. ASSUME NEW r \in {"shell", "polkit"}, DelayOver(r) PROVE Left'
    BY <1>23 DEF Left, TypeOK, Roles, DelayOver, procVars, fileVars, polkitVars, waitVars
  <1>24. ASSUME NEW d \in Displays, ForeignServer(d) PROVE Left'
    BY <1>24 DEF Left, TypeOK, Roles, ForeignServer, procVars, polkitVars, waitVars
  <1>25. CASE UNCHANGED vars
    BY <1>25 DEF Left, TypeOK, Roles, vars, procVars, fileVars, polkitVars, waitVars
  <1>26. CASE CoreRoundtrip
    BY <1>26
      DEF Left, TypeOK, Roles, CoreRoundtrip, GiveUp, Exited, procVars, fileVars, polkitVars, waitVars
  <1>27. CASE SatelliteRoundtrip
    BY <1>27
      DEF Left, TypeOK, Roles, SatelliteRoundtrip, DisplayFailed, Exited, Terminate,
          ListenerClose, procVars, polkitVars, waitVars
  <1>28. CASE CoreCloses
    BY <1>28 DEF Left, TypeOK, Roles, CoreCloses, procVars, fileVars, polkitVars, waitVars
  <1>29. CASE Silence
    BY <1>29 DEF Left, TypeOK, Roles, Silence, procVars, fileVars, polkitVars, waitVars
  <1>30. CASE DeadlineOver
    BY <1>30 DEF Left, TypeOK, Roles, DeadlineOver, Timed, Exited, procVars, fileVars, polkitVars, waitVars
  <1> QED
    BY <1>1, <1>2, <1>3, <1>4, <1>5, <1>6, <1>7, <1>8, <1>9, <1>10, <1>11, <1>12,
       <1>13, <1>14, <1>15, <1>16, <1>17, <1>18, <1>19, <1>20, <1>21, <1>22, <1>23,
       <1>24, <1>25, <1>26, <1>27, <1>28, <1>29, <1>30
      DEF Next, Supervisor, Environment

LEMMA TriedKept ==
  ASSUME TypeOK, Tried, Placed, [Next]_vars
  PROVE  Tried'
  <1>1. CASE ResolveConfig
    BY <1>1
      DEF Tried, TypeOK, Placed, Present, MayRun, Roles, Looping, ResolveConfig,
          procVars, fileVars, polkitVars, waitVars
  <1>2. CASE SeedConfig
    BY <1>2
      DEF Tried, TypeOK, Placed, Present, MayRun, Roles, Looping, SeedConfig,
          procVars, polkitVars, waitVars
  <1>3. CASE StartCore
    BY <1>3
      DEF Tried, TypeOK, Placed, Present, MayRun, Roles, Looping, StartCore, Spawn,
          fileVars, polkitVars, waitVars
  <1>4. CASE WaitCoreReady
    BY <1>4
      DEF Tried, TypeOK, Placed, Present, MayRun, Roles, Looping, WaitCoreReady,
          GiveUp, Exited, procVars, fileVars, polkitVars, waitVars
  <1>5. CASE ProbeSatellite
    BY <1>5
      DEF Tried, TypeOK, Placed, Present, MayRun, Roles, Looping, ProbeSatellite,
          GiveUp, procVars, fileVars, polkitVars, waitVars
  <1>6. CASE TryDisplay
    BY <1>6
      DEF Tried, TypeOK, Placed, Present, MayRun, Roles, Looping, TryDisplay, SpawnSatellite, CannotStart, Spawn,
          GiveUp, Occupied, procVars, polkitVars, waitVars
  <1>7. CASE WaitSatelliteReady
    BY <1>7
      DEF Tried, TypeOK, Placed, Present, MayRun, Roles, Looping,
          WaitSatelliteReady, DisplayFailed, Exited, Terminate, ListenerClose, procVars,
          polkitVars, waitVars
  <1>8. CASE ImportEnvironment
    BY <1>8
      DEF Tried, TypeOK, Placed, Present, MayRun, Roles, Looping, ImportEnvironment, GiveUpWithSatellite,
          procVars, fileVars, polkitVars, waitVars
  <1>9. CASE StartDaemons
    <2>1. pc = "start" /\ pc' = "core_check" /\ attempts' = 1
      BY <1>9 DEF StartDaemons
    <2>2. PICK shell \in BOOLEAN, polkit \in BOOLEAN :
            /\ leader' = [r \in Roles |->
                   IF (r = "shell" /\ shell) \/ (r = "polkit" /\ polkit)
                   THEN "live" ELSE leader[r]]
            /\ failures' = IF polkit THEN 0 ELSE 1
      BY <1>9 DEF StartDaemons
    <2>3. leader["polkit"] = "none" /\ "polkit" \in Roles
      BY <2>1 DEF Placed, Present, MayRun, Roles, TypeOK
    <2>4. failures = 0 /\ degraded' = FALSE
      BY <1>9, <2>1 DEF Tried, Looping, TypeOK, StartDaemons
    <2>5. CASE polkit
      <3>1. leader'["polkit"] = "live" /\ failures' = 0
        BY <2>2, <2>3, <2>5
      <3> QED
        BY <2>1, <2>4, <3>1, SupervisorAssumption DEF Tried, Looping
    <2>6. CASE ~polkit
      <3>1. leader'["polkit"] = "none" /\ failures' = 1
        BY <2>2, <2>3, <2>6
      <3> QED
        BY <2>1, <2>4, <3>1, SupervisorAssumption DEF Tried, Looping
    <2> QED
      BY <2>5, <2>6
  <1>10. CASE CheckCore
    BY <1>10
      DEF Tried, TypeOK, Placed, Present, MayRun, Roles, Looping, CheckCore, Exited,
          fileVars, polkitVars, waitVars
  <1>11. CASE CheckSatellite
    BY <1>11
      DEF Tried, TypeOK, Placed, Present, MayRun, Roles, Looping, CheckSatellite,
          Exited, ListenerClose, polkitVars, waitVars
  <1>12. CASE CausalWindow
    BY <1>12
      DEF Tried, TypeOK, Placed, Present, MayRun, Roles, Looping, CausalWindow,
          Exited, fileVars, polkitVars, waitVars
  <1>13. CASE CheckPolkit
    <2>1. pc = "polkit_check" /\ pc' = "shell_check"
      BY <1>13 DEF CheckPolkit
    <2> USE SupervisorAssumption DEF Tried, Looping
    <2>2. CASE Exited("polkit")
      <3>1. PICK stable \in BOOLEAN :
               /\ PolkitFailed(IF stable THEN 0 ELSE failures)
               /\ attempts' = IF stable THEN 1 ELSE attempts
        BY <1>13, <2>2 DEF CheckPolkit, StartPolkitAgent, Exited
      <3>2. leader'["polkit"] = "none"
        BY <1>13, <2>2 DEF CheckPolkit, StartPolkitAgent, Exited, Terminate, TypeOK, Roles
      <3>3. /\ failures \in Nat /\ attempts \in Nat /\ failures < PolkitRestartMax
            /\ attempts <= failures + 1
        BY <2>1, <2>2 DEF Exited, TypeOK
      <3>4. /\ failures' = (IF stable THEN 0 ELSE failures) + 1
            /\ degraded' \/ failures' < PolkitRestartMax
        BY <3>1, <3>3, FailureCounts DEF TypeOK
      <3> QED
        BY <2>1, <3>1, <3>2, <3>3, <3>4
    <2>3. CASE leader["polkit"] = "none" /\ ~degraded /\ due["polkit"] /\ ~Exited("polkit")
      <3>1. /\ failures \in Nat /\ attempts \in Nat /\ failures < PolkitRestartMax
            /\ attempts <= failures
        BY <2>1, <2>3 DEF TypeOK
      <3>2. attempts' = attempts + 1
        BY <1>13, <2>3 DEF CheckPolkit, StartPolkitAgent, Exited
      <3>3. CASE Spawn("polkit", TRUE) /\ UNCHANGED <<failures, degraded, due>>
        <4>1. leader'["polkit"] = "live"
          BY <3>3 DEF Spawn, TypeOK, Roles
        <4> QED
          BY <2>1, <2>3, <3>1, <3>2, <3>3, <4>1
      <3>4. CASE Spawn("polkit", FALSE) /\ PolkitFailed(failures)
        <4>1. leader'["polkit"] = "none"
          BY <2>3, <3>4 DEF Spawn
        <4>2. failures' = failures + 1 /\ (degraded' \/ failures' < PolkitRestartMax)
          BY <3>1, <3>4, FailureCounts DEF TypeOK
        <4> QED
          BY <2>1, <3>1, <3>2, <4>1, <4>2
      <3> QED
        BY <1>13, <2>3, <3>3, <3>4 DEF CheckPolkit, StartPolkitAgent, Exited
    <2>4. CASE UNCHANGED <<leader, rest, failures, degraded, attempts>>
      BY <2>1, <2>4
    <2> QED
      BY <1>13, <2>2, <2>3, <2>4 DEF CheckPolkit, StartPolkitAgent, procVars, polkitVars, waitVars
  <1>14. CASE CheckShell
    BY <1>14
      DEF Tried, TypeOK, Placed, Present, MayRun, Roles, Looping, CheckShell, StartShell,
          Exited, Terminate, Spawn, procVars, fileVars, polkitVars, waitVars
  <1>15. CASE EndPolkit
    BY <1>15
      DEF Tried, TypeOK, Placed, Present, MayRun, Roles, Looping, EndPolkit,
          Terminate, fileVars, polkitVars, waitVars
  <1>16. CASE EndShell
    BY <1>16
      DEF Tried, TypeOK, Placed, Present, MayRun, Roles, Looping, EndShell,
          Terminate, fileVars, polkitVars, waitVars
  <1>17. CASE EndSatellite
    BY <1>17
      DEF Tried, TypeOK, Placed, Present, MayRun, Roles, Looping, EndSatellite,
          Terminate, ListenerClose, polkitVars, waitVars
  <1>18. CASE EndCore
    BY <1>18
      DEF Tried, TypeOK, Placed, Present, MayRun, Roles, Looping, EndCore,
          Terminate, fileVars, polkitVars, waitVars
  <1>19. CASE Signal
    BY <1>19
      DEF Tried, TypeOK, Placed, Present, MayRun, Roles, Looping, Signal, procVars,
          fileVars, polkitVars, waitVars
  <1>20. CASE UserWrites
    BY <1>20
      DEF Tried, TypeOK, Placed, Present, MayRun, Roles, Looping, UserWrites,
          procVars, polkitVars, waitVars
  <1>21. ASSUME NEW r \in Roles, Dies(r) PROVE Tried'
    BY <1>21
      DEF Tried, TypeOK, Placed, Present, MayRun, Roles, Looping, Dies, fileVars,
          polkitVars, waitVars
  <1>22. ASSUME NEW r \in Roles, Descendant(r) PROVE Tried'
    BY <1>22
      DEF Tried, TypeOK, Placed, Present, MayRun, Roles, Looping, Descendant,
          fileVars, polkitVars, waitVars
  <1>23. ASSUME NEW r \in {"shell", "polkit"}, DelayOver(r) PROVE Tried'
    BY <1>23
      DEF Tried, TypeOK, Placed, Present, MayRun, Roles, Looping, DelayOver,
          procVars, fileVars, polkitVars, waitVars
  <1>24. ASSUME NEW d \in Displays, ForeignServer(d) PROVE Tried'
    BY <1>24
      DEF Tried, TypeOK, Placed, Present, MayRun, Roles, Looping, ForeignServer,
          procVars, polkitVars, waitVars
  <1>25. CASE UNCHANGED vars
    BY <1>25
      DEF Tried, TypeOK, Placed, Present, MayRun, Roles, Looping, vars, procVars,
          fileVars, polkitVars, waitVars
  <1>26. CASE CoreRoundtrip
    BY <1>26
      DEF Tried, TypeOK, Placed, Present, MayRun, Roles, Looping, CoreRoundtrip,
          GiveUp, Exited, procVars, fileVars, polkitVars, waitVars
  <1>27. CASE SatelliteRoundtrip
    BY <1>27
      DEF Tried, TypeOK, Placed, Present, MayRun, Roles, Looping,
          SatelliteRoundtrip, DisplayFailed, Exited, Terminate, ListenerClose, procVars,
          polkitVars, waitVars
  <1>28. CASE CoreCloses
    BY <1>28
      DEF Tried, TypeOK, Placed, Present, MayRun, Roles, Looping, CoreCloses, procVars,
          fileVars, polkitVars, waitVars
  <1>29. CASE Silence
    BY <1>29
      DEF Tried, TypeOK, Placed, Present, MayRun, Roles, Looping, Silence, procVars,
          fileVars, polkitVars, waitVars
  <1>30. CASE DeadlineOver
    BY <1>30
      DEF Tried, TypeOK, Placed, Present, MayRun, Roles, Looping, DeadlineOver, Timed, Exited, procVars,
          fileVars, polkitVars, waitVars
  <1> QED
    BY <1>1, <1>2, <1>3, <1>4, <1>5, <1>6, <1>7, <1>8, <1>9, <1>10, <1>11, <1>12,
       <1>13, <1>14, <1>15, <1>16, <1>17, <1>18, <1>19, <1>20, <1>21, <1>22, <1>23,
       <1>24, <1>25, <1>26, <1>27, <1>28, <1>29, <1>30
      DEF Next, Supervisor, Environment

LEMMA BlameKept ==
  ASSUME TypeOK, Placed, Blame, [Next]_vars
  PROVE  Blame'
  <1>1. CASE ResolveConfig
    BY <1>1
      DEF Blame, Placed, Present, MayRun, TypeOK, Roles, Ending, ResolveConfig,
          procVars, fileVars, polkitVars, waitVars
  <1>2. CASE SeedConfig
    BY <1>2
      DEF Blame, Placed, Present, MayRun, TypeOK, Roles, Ending, SeedConfig,
          procVars, polkitVars, waitVars
  <1>3. CASE StartCore
    BY <1>3
      DEF Blame, Placed, Present, MayRun, TypeOK, Roles, Ending, StartCore, Spawn,
          fileVars, polkitVars, waitVars
  <1>4. CASE WaitCoreReady
    BY <1>4
      DEF Blame, Placed, Present, MayRun, TypeOK, Roles, Ending, WaitCoreReady,
          GiveUp, Exited, procVars, fileVars, polkitVars, waitVars
  <1>5. CASE ProbeSatellite
    BY <1>5
      DEF Blame, Placed, Present, MayRun, TypeOK, Roles, Ending, ProbeSatellite,
          GiveUp, procVars, fileVars, polkitVars, waitVars
  <1>6. CASE TryDisplay
    BY <1>6
      DEF Blame, Placed, Present, MayRun, TypeOK, Roles, Ending, TryDisplay, SpawnSatellite, CannotStart, Spawn,
          GiveUp, Occupied, procVars, polkitVars, waitVars
  <1>7. CASE WaitSatelliteReady
    BY <1>7
      DEF Blame, Placed, Present, MayRun, TypeOK, Roles, Ending, WaitSatelliteReady,
          DisplayFailed, Exited, Terminate, ListenerClose, procVars, polkitVars, waitVars
  <1>8. CASE ImportEnvironment
    BY <1>8
      DEF Blame, Placed, Present, MayRun, TypeOK, Roles, Ending, ImportEnvironment, GiveUpWithSatellite,
          procVars, fileVars, polkitVars, waitVars
  <1>9. CASE StartDaemons
    BY <1>9
      DEF Blame, Placed, Present, MayRun, TypeOK, Roles, Ending, StartDaemons,
          fileVars, waitVars
  <1>10. CASE CheckCore
    BY <1>10
      DEF Blame, Placed, Present, MayRun, TypeOK, Roles, Ending, CheckCore, Exited,
          fileVars, polkitVars, waitVars
  <1>11. CASE CheckSatellite
    BY <1>11
      DEF Blame, Placed, Present, MayRun, TypeOK, Roles, Ending, CheckSatellite,
          Exited, ListenerClose, polkitVars, waitVars
  <1>12. CASE CausalWindow
    BY <1>12
      DEF Blame, Placed, Present, MayRun, TypeOK, Roles, Ending, CausalWindow,
          Exited, fileVars, polkitVars, waitVars
  <1>13. CASE CheckPolkit
    BY <1>13
      DEF Blame, Placed, Present, MayRun, TypeOK, Roles, Ending, CheckPolkit, StartPolkitAgent,
          Exited, Terminate, PolkitFailed, Spawn, procVars, fileVars, polkitVars, waitVars
  <1>14. CASE CheckShell
    BY <1>14
      DEF Blame, Placed, Present, MayRun, TypeOK, Roles, Ending, CheckShell, StartShell, Exited,
          Terminate, Spawn, procVars, fileVars, polkitVars, waitVars
  <1>15. CASE EndPolkit
    BY <1>15
      DEF Blame, Placed, Present, MayRun, TypeOK, Roles, Ending, EndPolkit,
          Terminate, fileVars, polkitVars, waitVars
  <1>16. CASE EndShell
    BY <1>16
      DEF Blame, Placed, Present, MayRun, TypeOK, Roles, Ending, EndShell,
          Terminate, fileVars, polkitVars, waitVars
  <1>17. CASE EndSatellite
    BY <1>17
      DEF Blame, Placed, Present, MayRun, TypeOK, Roles, Ending, EndSatellite,
          Terminate, ListenerClose, polkitVars, waitVars
  <1>18. CASE EndCore
    BY <1>18
      DEF Blame, Placed, Present, MayRun, TypeOK, Roles, Ending, EndCore, Terminate,
          fileVars, polkitVars, waitVars
  <1>19. CASE Signal
    BY <1>19
      DEF Blame, Placed, Present, MayRun, TypeOK, Roles, Ending, Signal, procVars,
          fileVars, polkitVars, waitVars
  <1>20. CASE UserWrites
    BY <1>20
      DEF Blame, Placed, Present, MayRun, TypeOK, Roles, Ending, UserWrites,
          procVars, polkitVars, waitVars
  <1>21. ASSUME NEW r \in Roles, Dies(r) PROVE Blame'
    BY <1>21
      DEF Blame, Placed, Present, MayRun, TypeOK, Roles, Ending, Dies, fileVars,
          polkitVars, waitVars
  <1>22. ASSUME NEW r \in Roles, Descendant(r) PROVE Blame'
    BY <1>22
      DEF Blame, Placed, Present, MayRun, TypeOK, Roles, Ending, Descendant,
          fileVars, polkitVars, waitVars
  <1>23. ASSUME NEW r \in {"shell", "polkit"}, DelayOver(r) PROVE Blame'
    BY <1>23
      DEF Blame, Placed, Present, MayRun, TypeOK, Roles, Ending, DelayOver,
          procVars, fileVars, polkitVars, waitVars
  <1>24. ASSUME NEW d \in Displays, ForeignServer(d) PROVE Blame'
    BY <1>24
      DEF Blame, Placed, Present, MayRun, TypeOK, Roles, Ending, ForeignServer,
          procVars, polkitVars, waitVars
  <1>25. CASE UNCHANGED vars
    BY <1>25
      DEF Blame, Placed, Present, MayRun, TypeOK, Roles, Ending, vars, procVars,
          fileVars, polkitVars, waitVars
  <1>26. CASE CoreRoundtrip
    BY <1>26
      DEF Blame, Placed, Present, MayRun, TypeOK, Roles, Ending, CoreRoundtrip,
          GiveUp, Exited, procVars, fileVars, polkitVars, waitVars
  <1>27. CASE SatelliteRoundtrip
    BY <1>27
      DEF Blame, Placed, Present, MayRun, TypeOK, Roles, Ending, SatelliteRoundtrip,
          DisplayFailed, Exited, Terminate, ListenerClose, procVars, polkitVars, waitVars
  <1>28. CASE CoreCloses
    BY <1>28
      DEF Blame, Placed, Present, MayRun, TypeOK, Roles, Ending, CoreCloses, procVars,
          fileVars, polkitVars, waitVars
  <1>29. CASE Silence
    BY <1>29
      DEF Blame, Placed, Present, MayRun, TypeOK, Roles, Ending, Silence, procVars,
          fileVars, polkitVars, waitVars
  <1>30. CASE DeadlineOver
    BY <1>30
      DEF Blame, Placed, Present, MayRun, TypeOK, Roles, Ending, DeadlineOver, Timed, Exited, procVars,
          fileVars, polkitVars, waitVars
  <1> QED
    BY <1>1, <1>2, <1>3, <1>4, <1>5, <1>6, <1>7, <1>8, <1>9, <1>10, <1>11, <1>12,
       <1>13, <1>14, <1>15, <1>16, <1>17, <1>18, <1>19, <1>20, <1>21, <1>22, <1>23,
       <1>24, <1>25, <1>26, <1>27, <1>28, <1>29, <1>30
      DEF Next, Supervisor, Environment

LEMMA ForeignStep ==
  ASSUME TypeOK, [Next]_vars
  PROVE  ForeignStays
  <1>1. CASE ResolveConfig
    BY <1>1
      DEF ForeignStays, TypeOK, Displays, ResolveConfig, procVars, fileVars,
          polkitVars, waitVars
  <1>2. CASE SeedConfig
    BY <1>2 DEF ForeignStays, TypeOK, Displays, SeedConfig, procVars, polkitVars, waitVars
  <1>3. CASE StartCore
    BY <1>3
      DEF ForeignStays, TypeOK, Displays, StartCore, Spawn, fileVars, polkitVars, waitVars
  <1>4. CASE WaitCoreReady
    BY <1>4
      DEF ForeignStays, TypeOK, Displays, WaitCoreReady, GiveUp, Exited, procVars, fileVars,
          polkitVars, waitVars
  <1>5. CASE ProbeSatellite
    BY <1>5
      DEF ForeignStays, TypeOK, Displays, ProbeSatellite, GiveUp, procVars,
          fileVars, polkitVars, waitVars
  <1>6. CASE TryDisplay
    BY <1>6, SupervisorAssumption
      DEF ForeignStays, TypeOK, Displays, TryDisplay, SpawnSatellite, CannotStart, Spawn, GiveUp, Occupied,
          procVars, polkitVars, waitVars
  <1>7. CASE WaitSatelliteReady
    BY <1>7, SupervisorAssumption
      DEF ForeignStays, TypeOK, Displays, WaitSatelliteReady, DisplayFailed, Exited,
          Terminate, ListenerClose, procVars, polkitVars, waitVars
  <1>8. CASE ImportEnvironment
    BY <1>8
      DEF ForeignStays, TypeOK, Displays, ImportEnvironment, GiveUpWithSatellite, procVars, fileVars,
          polkitVars, waitVars
  <1>9. CASE StartDaemons
    BY <1>9 DEF ForeignStays, TypeOK, Displays, StartDaemons, fileVars, waitVars
  <1>10. CASE CheckCore
    BY <1>10
      DEF ForeignStays, TypeOK, Displays, CheckCore, Exited, fileVars, polkitVars, waitVars
  <1>11. CASE CheckSatellite
    BY <1>11, SupervisorAssumption
      DEF ForeignStays, TypeOK, Displays, CheckSatellite, Exited, ListenerClose,
          polkitVars, waitVars
  <1>12. CASE CausalWindow
    BY <1>12
      DEF ForeignStays, TypeOK, Displays, CausalWindow, Exited, fileVars, polkitVars, waitVars
  <1>13. CASE CheckPolkit
    BY <1>13
      DEF ForeignStays, TypeOK, Displays, CheckPolkit, StartPolkitAgent, Exited, Terminate,
          PolkitFailed, Spawn, procVars, fileVars, polkitVars, waitVars
  <1>14. CASE CheckShell
    BY <1>14
      DEF ForeignStays, TypeOK, Displays, CheckShell, StartShell, Exited, Terminate, Spawn,
          procVars, fileVars, polkitVars, waitVars
  <1>15. CASE EndPolkit
    BY <1>15
      DEF ForeignStays, TypeOK, Displays, EndPolkit, Terminate, fileVars, polkitVars, waitVars
  <1>16. CASE EndShell
    BY <1>16
      DEF ForeignStays, TypeOK, Displays, EndShell, Terminate, fileVars, polkitVars, waitVars
  <1>17. CASE EndSatellite
    BY <1>17, SupervisorAssumption
      DEF ForeignStays, TypeOK, Displays, EndSatellite, Terminate, ListenerClose,
          polkitVars, waitVars
  <1>18. CASE EndCore
    BY <1>18
      DEF ForeignStays, TypeOK, Displays, EndCore, Terminate, fileVars, polkitVars, waitVars
  <1>19. CASE Signal
    BY <1>19
      DEF ForeignStays, TypeOK, Displays, Signal, procVars, fileVars, polkitVars, waitVars
  <1>20. CASE UserWrites
    BY <1>20 DEF ForeignStays, TypeOK, Displays, UserWrites, procVars, polkitVars, waitVars
  <1>21. ASSUME NEW r \in Roles, Dies(r) PROVE ForeignStays
    BY <1>21 DEF ForeignStays, TypeOK, Displays, Dies, fileVars, polkitVars, waitVars
  <1>22. ASSUME NEW r \in Roles, Descendant(r) PROVE ForeignStays
    BY <1>22 DEF ForeignStays, TypeOK, Displays, Descendant, fileVars, polkitVars, waitVars
  <1>23. ASSUME NEW r \in {"shell", "polkit"}, DelayOver(r) PROVE ForeignStays
    BY <1>23
      DEF ForeignStays, TypeOK, Displays, DelayOver, procVars, fileVars, polkitVars, waitVars
  <1>24. ASSUME NEW d \in Displays, ForeignServer(d) PROVE ForeignStays
    BY <1>24 DEF ForeignStays, TypeOK, Displays, ForeignServer, procVars, polkitVars, waitVars
  <1>25. CASE UNCHANGED vars
    BY <1>25
      DEF ForeignStays, TypeOK, Displays, vars, procVars, fileVars, polkitVars, waitVars
  <1>26. CASE CoreRoundtrip
    BY <1>26
      DEF ForeignStays, TypeOK, Displays, CoreRoundtrip, GiveUp, Exited, procVars, fileVars,
          polkitVars, waitVars
  <1>27. CASE SatelliteRoundtrip
    BY <1>27, SupervisorAssumption
      DEF ForeignStays, TypeOK, Displays, SatelliteRoundtrip, DisplayFailed, Exited,
          Terminate, ListenerClose, procVars, polkitVars, waitVars
  <1>28. CASE CoreCloses
    BY <1>28
      DEF ForeignStays, TypeOK, Displays, CoreCloses, procVars, fileVars, polkitVars, waitVars
  <1>29. CASE Silence
    BY <1>29
      DEF ForeignStays, TypeOK, Displays, Silence, procVars, fileVars, polkitVars, waitVars
  <1>30. CASE DeadlineOver
    BY <1>30
      DEF ForeignStays, TypeOK, Displays, DeadlineOver, Timed, Exited, procVars, fileVars, polkitVars, waitVars
  <1> QED
    BY <1>1, <1>2, <1>3, <1>4, <1>5, <1>6, <1>7, <1>8, <1>9, <1>10, <1>11, <1>12,
       <1>13, <1>14, <1>15, <1>16, <1>17, <1>18, <1>19, <1>20, <1>21, <1>22, <1>23,
       <1>24, <1>25, <1>26, <1>27, <1>28, <1>29, <1>30
      DEF Next, Supervisor, Environment

\* A step of the session as a step of a program it keeps running.
LEMMA ServiceStep ==
  ASSUME IInv, NEW q \in {"shell", "polkit"}, [Next]_vars
  PROVE  ServiceMoves(q)
  <1>1. CASE ResolveConfig
    BY <1>1
      DEF ServiceMoves, IInv, TypeOK, Placed, Present, MayRun, Left, Seen, Roles,
          ResolveConfig, procVars, fileVars, polkitVars, waitVars
  <1>2. CASE SeedConfig
    BY <1>2
      DEF ServiceMoves, IInv, TypeOK, Placed, Present, MayRun, Left, Seen, Roles,
          SeedConfig, procVars, polkitVars, waitVars
  <1>3. CASE StartCore
    BY <1>3
      DEF ServiceMoves, IInv, TypeOK, Placed, Present, MayRun, Left, Seen, Roles,
          StartCore, Spawn, fileVars, polkitVars, waitVars
  <1>4. CASE WaitCoreReady
    BY <1>4
      DEF ServiceMoves, IInv, TypeOK, Placed, Present, MayRun, Left, Seen, Roles,
          WaitCoreReady, GiveUp, Exited, procVars, fileVars, polkitVars, waitVars
  <1>5. CASE ProbeSatellite
    BY <1>5
      DEF ServiceMoves, IInv, TypeOK, Placed, Present, MayRun, Left, Seen, Roles,
          ProbeSatellite, GiveUp, procVars, fileVars, polkitVars, waitVars
  <1>6. CASE TryDisplay
    BY <1>6
      DEF ServiceMoves, IInv, TypeOK, Placed, Present, MayRun, Left, Seen, Roles,
          TryDisplay, SpawnSatellite, CannotStart, Spawn, GiveUp, Occupied, procVars, polkitVars, waitVars
  <1>7. CASE WaitSatelliteReady
    BY <1>7
      DEF ServiceMoves, IInv, TypeOK, Placed, Present, MayRun, Left, Seen, Roles,
          WaitSatelliteReady, DisplayFailed, Exited, Terminate, ListenerClose, procVars,
          polkitVars, waitVars
  <1>8. CASE ImportEnvironment
    BY <1>8
      DEF ServiceMoves, IInv, TypeOK, Placed, Present, MayRun, Left, Seen, Roles,
          ImportEnvironment, GiveUpWithSatellite, procVars, fileVars, polkitVars, waitVars
  <1>9. CASE StartDaemons
    BY <1>9
      DEF ServiceMoves, IInv, TypeOK, Placed, Present, MayRun, Left, Seen, Roles,
          StartDaemons, fileVars, waitVars
  <1>10. CASE CheckCore
    BY <1>10
      DEF ServiceMoves, IInv, TypeOK, Placed, Present, MayRun, Left, Seen, Roles,
          CheckCore, Exited, fileVars, polkitVars, waitVars
  <1>11. CASE CheckSatellite
    BY <1>11
      DEF ServiceMoves, IInv, TypeOK, Placed, Present, MayRun, Left, Seen, Roles,
          CheckSatellite, Exited, ListenerClose, polkitVars, waitVars
  <1>12. CASE CausalWindow
    BY <1>12
      DEF ServiceMoves, IInv, TypeOK, Placed, Present, MayRun, Left, Seen, Roles,
          CausalWindow, Exited, fileVars, polkitVars, waitVars
  <1>13. CASE CheckPolkit
    BY <1>13
      DEF ServiceMoves, IInv, TypeOK, Placed, Present, MayRun, Left, Seen, Roles,
          CheckPolkit, StartPolkitAgent, Exited, Terminate, PolkitFailed, Spawn, procVars, fileVars,
          polkitVars, waitVars
  <1>14. CASE CheckShell
    BY <1>14
      DEF ServiceMoves, IInv, TypeOK, Placed, Present, MayRun, Left, Seen, Roles,
          CheckShell, StartShell, Exited, Terminate, Spawn, procVars, fileVars, polkitVars, waitVars
  <1>15. CASE EndPolkit
    BY <1>15
      DEF ServiceMoves, IInv, TypeOK, Placed, Present, MayRun, Left, Seen, Roles,
          EndPolkit, Terminate, fileVars, polkitVars, waitVars
  <1>16. CASE EndShell
    BY <1>16
      DEF ServiceMoves, IInv, TypeOK, Placed, Present, MayRun, Left, Seen, Roles,
          EndShell, Terminate, fileVars, polkitVars, waitVars
  <1>17. CASE EndSatellite
    BY <1>17
      DEF ServiceMoves, IInv, TypeOK, Placed, Present, MayRun, Left, Seen, Roles,
          EndSatellite, Terminate, ListenerClose, polkitVars, waitVars
  <1>18. CASE EndCore
    BY <1>18
      DEF ServiceMoves, IInv, TypeOK, Placed, Present, MayRun, Left, Seen, Roles,
          EndCore, Terminate, fileVars, polkitVars, waitVars
  <1>19. CASE Signal
    BY <1>19
      DEF ServiceMoves, IInv, TypeOK, Placed, Present, MayRun, Left, Seen, Roles,
          Signal, procVars, fileVars, polkitVars, waitVars
  <1>20. CASE UserWrites
    BY <1>20
      DEF ServiceMoves, IInv, TypeOK, Placed, Present, MayRun, Left, Seen, Roles,
          UserWrites, procVars, polkitVars, waitVars
  <1>21. ASSUME NEW r \in Roles, Dies(r) PROVE ServiceMoves(q)
    BY <1>21
      DEF ServiceMoves, IInv, TypeOK, Placed, Present, MayRun, Left, Seen, Roles,
          Dies, fileVars, polkitVars, waitVars
  <1>22. ASSUME NEW r \in Roles, Descendant(r) PROVE ServiceMoves(q)
    BY <1>22
      DEF ServiceMoves, IInv, TypeOK, Placed, Present, MayRun, Left, Seen, Roles,
          Descendant, fileVars, polkitVars, waitVars
  <1>23. ASSUME NEW r \in {"shell", "polkit"}, DelayOver(r) PROVE ServiceMoves(q)
    BY <1>23
      DEF ServiceMoves, IInv, TypeOK, Placed, Present, MayRun, Left, Seen, Roles,
          DelayOver, procVars, fileVars, polkitVars, waitVars
  <1>24. ASSUME NEW d \in Displays, ForeignServer(d) PROVE ServiceMoves(q)
    BY <1>24
      DEF ServiceMoves, IInv, TypeOK, Placed, Present, MayRun, Left, Seen, Roles,
          ForeignServer, procVars, polkitVars, waitVars
  <1>25. CASE UNCHANGED vars
    BY <1>25
      DEF ServiceMoves, IInv, TypeOK, Placed, Present, MayRun, Left, Seen, Roles,
          vars, procVars, fileVars, polkitVars, waitVars
  <1>26. CASE CoreRoundtrip
    BY <1>26
      DEF ServiceMoves, IInv, TypeOK, Placed, Present, MayRun, Left, Seen, Roles,
          CoreRoundtrip, GiveUp, Exited, procVars, fileVars, polkitVars, waitVars
  <1>27. CASE SatelliteRoundtrip
    BY <1>27
      DEF ServiceMoves, IInv, TypeOK, Placed, Present, MayRun, Left, Seen, Roles,
          SatelliteRoundtrip, DisplayFailed, Exited, Terminate, ListenerClose, procVars,
          polkitVars, waitVars
  <1>28. CASE CoreCloses
    BY <1>28
      DEF ServiceMoves, IInv, TypeOK, Placed, Present, MayRun, Left, Seen, Roles,
          CoreCloses, procVars, fileVars, polkitVars, waitVars
  <1>29. CASE Silence
    BY <1>29
      DEF ServiceMoves, IInv, TypeOK, Placed, Present, MayRun, Left, Seen, Roles,
          Silence, procVars, fileVars, polkitVars, waitVars
  <1>30. CASE DeadlineOver
    BY <1>30
      DEF ServiceMoves, IInv, TypeOK, Placed, Present, MayRun, Left, Seen, Roles,
          DeadlineOver, Timed, Exited, procVars, fileVars, polkitVars, waitVars
  <1> QED
    BY <1>1, <1>2, <1>3, <1>4, <1>5, <1>6, <1>7, <1>8, <1>9, <1>10, <1>11, <1>12,
       <1>13, <1>14, <1>15, <1>16, <1>17, <1>18, <1>19, <1>20, <1>21, <1>22, <1>23,
       <1>24, <1>25, <1>26, <1>27, <1>28, <1>29, <1>30
      DEF Next, Supervisor, Environment

LEMMA InitInvariant == Init => IInv
  <1> SUFFICES ASSUME Init PROVE IInv
    OBVIOUS
  <1>1. TypeOK
    <2>1. path \in [Displays -> {"none", "ours", "foreign"}]
      BY DEF Init
    <2>2. display \in 0..(DisplayMax + 1)
      BY SupervisorAssumption DEF Init
    <2> QED
      BY <2>1, <2>2 DEF Init, TypeOK, Phases
  <1>2. Placed /\ Left
    BY DEF Init, Placed, Present, MayRun, Left, Roles
  <1>3. Sockets
    BY DEF Init, Sockets
  <1>4. Tried
    BY SupervisorAssumption DEF Init, Tried, Looping
  <1>5. Blame
    BY DEF Init, Blame, Ending
  <1> QED
    BY <1>1, <1>2, <1>3, <1>4, <1>5 DEF IInv

\* The inductive invariant behind the safety results: where each program may
\* have processes, where a socket may be, what the counters of the agent mean.
THEOREM Invariance == Spec => []IInv
  <1>1. Init => IInv
    BY InitInvariant
  <1>2. IInv /\ [Next]_vars => IInv'
    BY TypeKept, PlacedKept, SocketsKept, LeftKept, TriedKept, BlameKept DEF IInv
  <1> QED
    BY <1>1, <1>2, PTL DEF Spec

\* Every variable keeps its type.
THEOREM TypeCorrect == Spec => []TypeOK
  <1>1. IInv => TypeOK
    BY DEF IInv
  <1> QED
    BY <1>1, Invariance, PTL

\* However a session ends, no process of its groups and no socket is left.
LEMMA EndsClean == Spec => []CleanExit
  <1>1. IInv => CleanExit
    BY DEF IInv, TypeOK, Placed, Present, MayRun, Sockets, CleanExit
  <1> QED
    BY <1>1, Invariance, PTL

\* The satellite is blamed for an end that Core brought about only when Core
\* could not be waited for within the causal window.
THEOREM BlamesCore == Spec => []CoreBlamed
  <1>1. IInv => CoreBlamed
    BY DEF IInv, Blame, CoreBlamed
  <1> QED
    BY <1>1, Invariance, PTL

\* The agent is not started for ever.
THEOREM BoundsPolkit == Spec => []PolkitBounded
  <1>1. IInv => PolkitBounded
    BY DEF IInv, Tried, PolkitBounded
  <1> QED
    BY <1>1, Invariance, PTL

\* A foreign socket and a foreign configuration file stay.
LEMMA KeepsForeign == Spec => ForeignKept
  <1>1. TypeOK /\ [Next]_vars => [ForeignStays]_vars
    BY ForeignStep
  <1> QED
    BY <1>1, TypeCorrect, PTL DEF Spec, ForeignKept, ForeignStays

\* A session takes away its processes and sockets, and nothing that is another's.
THEOREM CleansUp == Spec => CleansUpItsOwn
  BY EndsClean, KeepsForeign DEF CleansUpItsOwn

\* The Shell daemon and the agent are services: the next instance is started
\* over nothing of the last, and none is there when the session is over.
THEOREM Implements == Spec => ImplementsServices
  <1>1. Init => ShellService!Init /\ PolkitService!Init
    BY DEF Init, ShellService!Init, PolkitService!Init, Seen, Roles
  <1>2. IInv /\ [Next]_vars => [ShellService!Next]_(Seen("shell"))
    BY ServiceStep
      DEF ServiceMoves, ShellService!Next, ShellService!Start, ShellService!Crash,
       ShellService!Clear, ShellService!Over
  <1>3. IInv /\ [Next]_vars => [PolkitService!Next]_(Seen("polkit"))
    BY ServiceStep
      DEF ServiceMoves, PolkitService!Next, PolkitService!Start,
          PolkitService!Crash,
       PolkitService!Clear, PolkitService!Over
  <1> QED
    BY <1>1, <1>2, <1>3, Invariance, PTL
    DEF Spec, ImplementsServices, ShellService!Spec, PolkitService!Spec
=============================================================================
