----------------------------- MODULE SessionLock -----------------------------
(***************************************************************************)
(* The session-lock controller of the compositor (core/src/session_lock.c) *)
(* together with the frame and present handlers of core/src/output.c that  *)
(* drive it.  A locker is told "locked" only when every output has shown a *)
(* frame committed after the desktop was hidden; which frames those are is *)
(* decided by comparing 32-bit commit sequence numbers with a signed       *)
(* difference.                                                             *)
(*                                                                         *)
(* The lock surfaces and the keyboard are the subject of SeatFocus.        *)
(***************************************************************************)
EXTENDS Integers, FiniteSets

CONSTANTS Clients,      \* lock clients that may connect
          NoLock,       \* the NULL of LockController.lock
          Outputs,      \* outputs that may be plugged in
          Half,         \* half the range of a commit sequence number
          MaxLag        \* how far a commit may run ahead of the oldest one not
                        \* yet presented

SeqMod == 2 * Half      \* 2^32 in the code

ASSUME SLAssumption ==
    /\ NoLock \notin Clients
    /\ Half \in Nat \ {0}
    /\ MaxLag \in 0..(Half - 1)

VARIABLES
    \* @LockController
    lock,        \* the attached lock object's client, or NoLock
    secure,      \* the desktop scene is hidden
    lockedSent,  \* the attached client was told "locked"
    \* @LockOutput, one entry per plugged output
    outs,        \* outputs with an entry
    presented,   \* the output has shown a secure frame
    pending,     \* secure_commit_pending
    pendSeq,     \* secure_commit_seq
    \* what the clients know
    told,        \* "none", "pending", "locked" or "finished"
    \* the backend
    seq,         \* wlr_output.commit_seq
    flight,      \* commits not yet presented or discarded
    shown,       \* what the screen shows: "blank", "desktop" or "lock"
    sched        \* a frame is scheduled on the output

ctlVars == <<lock, secure, lockedSent>>
outVars == <<outs, presented, pending, pendSeq>>
backVars == <<seq, flight, shown>>
lockVars == <<ctlVars, outVars, told, backVars, sched>>

Seqs == 0..(SeqMod - 1)
Frame == [seq : Seqs, desktop : BOOLEAN]

LockTypeOK ==
    /\ lock \in Clients \cup {NoLock}
    /\ secure \in BOOLEAN
    /\ lockedSent \in BOOLEAN
    /\ outs \in SUBSET Outputs
    /\ presented \in [Outputs -> BOOLEAN]
    /\ pending \in [Outputs -> BOOLEAN]
    /\ pendSeq \in [Outputs -> Seqs]
    /\ told \in [Clients -> {"none", "pending", "locked", "finished"}]
    /\ seq \in [Outputs -> Seqs]
    /\ flight \in [Outputs -> SUBSET Frame]
    /\ shown \in [Outputs -> {"blank", "desktop", "lock"}]
    /\ sched \in [Outputs -> BOOLEAN]

-----------------------------------------------------------------------------
\* Unsigned arithmetic of commit sequence numbers.

Inc(a) == IF a = SeqMod - 1 THEN 0 ELSE a + 1
Diff(a, b) == IF a >= b THEN a - b ELSE a - b + SeqMod

\* Mutant: the plain unsigned comparison.
SeqReachedUnsigned(s, target) == s >= target

\* (int32_t)(commit_seq - secure_commit_seq) >= 0
SeqReached(s, target) == Diff(s, target) < Half

Age(o, f) == Diff(seq[o], f.seq)

LockInit ==
    /\ lock = NoLock
    /\ secure = FALSE
    /\ lockedSent = FALSE
    /\ outs = {}
    /\ presented = [o \in Outputs |-> FALSE]
    /\ pending = [o \in Outputs |-> FALSE]
    /\ pendSeq = [o \in Outputs |-> 0]
    /\ told = [c \in Clients |-> "none"]
    /\ seq = [o \in Outputs |-> 0]
    /\ flight = [o \in Outputs |-> {}]
    /\ shown = [o \in Outputs |-> "blank"]
    /\ sched = [o \in Outputs |-> FALSE]

-----------------------------------------------------------------------------
\* maybe_send_locked, with the values the caller has just given to the output
\* list, the flags and the controller.
MaybeSendLocked(os, shownSecure, l, sec, sent, t) ==
    LET answer == /\ l # NoLock
                  /\ ~sent
                  /\ sec
                  /\ \A o \in os : shownSecure[o]
    IN  /\ lockedSent' = (sent \/ answer)
        /\ told' = IF answer THEN [t EXCEPT ![l] = "locked"] ELSE t

\* schedule_locked_frames: every output must show a new frame.
ScheduleLockedFrames(l, t) ==
    LET none == [o \in Outputs |-> FALSE] IN
    /\ presented' = none
    /\ pending' = none
    /\ sched' = [o \in Outputs |-> o \in outs \/ sched[o]]
    /\ MaybeSendLocked(outs, none, l, TRUE, FALSE, t)

\* handle_new_lock with attach_lock and enter_secure; a second lock object is
\* rejected while one is attached.
NewLock(c) ==
    /\ told[c] = "none"
    /\ \/ /\ lock # NoLock
          /\ told' = [told EXCEPT ![c] = "finished"]
          /\ UNCHANGED <<ctlVars, outVars, sched>>
       \/ /\ lock = NoLock
          /\ lock' = c
          /\ secure' = TRUE
          /\ ScheduleLockedFrames(c, [told EXCEPT ![c] = "pending"])
          /\ UNCHANGED <<outs, pendSeq>>
    /\ UNCHANGED backVars

\* handle_unlock with leave_secure.  wlroots destroys the lock object at once,
\* and handle_lock_destroy finds the session already open; the client, which is
\* through, may go on for a while.
Unlock(c) ==
    /\ told[c] = "locked"
    /\ lock = c
    /\ lockedSent
    /\ lock' = NoLock
    /\ secure' = FALSE
    /\ lockedSent' = FALSE
    /\ told' = [told EXCEPT ![c] = "finished"]
    /\ UNCHANGED <<outVars, backVars, sched>>

\* Mutant: was_locked is read after locked_sent was cleared.
LockDestroyForgets(c) ==
    /\ told[c] # "none"
    /\ told' = [told EXCEPT ![c] = "none"]
    /\ IF lock = c
       THEN lock' = NoLock /\ secure' = FALSE /\ lockedSent' = FALSE
       ELSE UNCHANGED ctlVars
    /\ UNCHANGED <<outVars, backVars, sched>>

\* handle_lock_destroy: the client died, or gave up before it was told.
LockDestroy(c) ==
    /\ told[c] # "none"
    /\ IF lock # c
       THEN /\ told' = [told EXCEPT ![c] = "none"]
            /\ UNCHANGED <<ctlVars, outVars, sched>>
       ELSE /\ lock' = NoLock
            /\ IF lockedSent
               THEN /\ ScheduleLockedFrames(NoLock, [told EXCEPT ![c] = "none"])
                    /\ UNCHANGED <<secure, outs, pendSeq>>
               ELSE /\ secure' = FALSE
                    /\ lockedSent' = FALSE
                    /\ told' = [told EXCEPT ![c] = "none"]
                    /\ UNCHANGED <<outVars, sched>>
    /\ UNCHANGED backVars

-----------------------------------------------------------------------------
\* onyrion_session_lock_output_add
OutputAdd(o) ==
    /\ o \notin outs
    /\ outs' = outs \cup {o}
    /\ presented' = [presented EXCEPT ![o] = ~secure]
    /\ pending' = [pending EXCEPT ![o] = FALSE]
    /\ sched' = [sched EXCEPT ![o] = TRUE]
    /\ UNCHANGED <<ctlVars, pendSeq, told, backVars>>

\* Mutant: the removal does not look again whether all others have shown.
OutputRemoveSilent(o) ==
    /\ o \in outs
    /\ outs' = outs \ {o}
    /\ flight' = [flight EXCEPT ![o] = {}]
    /\ shown' = [shown EXCEPT ![o] = "blank"]
    /\ sched' = [sched EXCEPT ![o] = FALSE]
    /\ presented' = [presented EXCEPT ![o] = FALSE]
    /\ pending' = [pending EXCEPT ![o] = FALSE]
    /\ pendSeq' = [pendSeq EXCEPT ![o] = 0]
    /\ seq' = [seq EXCEPT ![o] = 0]
    /\ UNCHANGED <<ctlVars, told>>

\* onyrion_session_lock_output_remove, from the output's destroy handler; the
\* entry is freed, and a later entry starts zeroed.
OutputRemove(o) ==
    /\ o \in outs
    /\ outs' = outs \ {o}
    /\ flight' = [flight EXCEPT ![o] = {}]
    /\ shown' = [shown EXCEPT ![o] = "blank"]
    /\ sched' = [sched EXCEPT ![o] = FALSE]
    /\ presented' = [presented EXCEPT ![o] = FALSE]
    /\ pending' = [pending EXCEPT ![o] = FALSE]
    /\ pendSeq' = [pendSeq EXCEPT ![o] = 0]
    /\ seq' = [seq EXCEPT ![o] = 0]
    /\ MaybeSendLocked(outs \ {o}, presented, lock, secure, lockedSent, told)
    /\ UNCHANGED <<lock, secure>>

\* onyrion_session_lock_output_commit_pending
CommitPending(o) ==
    IF secure /\ ~presented[o] /\ ~pending[o]
    THEN /\ pending' = [pending EXCEPT ![o] = TRUE]
         /\ pendSeq' = [pendSeq EXCEPT ![o] = Inc(seq[o])]
    ELSE UNCHANGED <<pending, pendSeq>>

\* handle_output_frame, the scene was committed.
FrameCommitted(o) ==
    /\ o \in outs
    /\ \A f \in flight[o] : Age(o, f) < MaxLag
    /\ CommitPending(o)
    /\ seq' = [seq EXCEPT ![o] = Inc(seq[o])]
    /\ flight' = [flight EXCEPT ![o] =
                    @ \cup {[seq |-> Inc(seq[o]), desktop |-> ~secure]}]
    /\ sched' = [sched EXCEPT ![o] = FALSE]
    /\ UNCHANGED <<ctlVars, outs, presented, told, shown>>

\* handle_output_frame, nothing was damaged: wlroots commits nothing.
FrameUndamaged(o) ==
    /\ o \in outs
    /\ ~sched[o]
    /\ CommitPending(o)
    /\ UNCHANGED <<ctlVars, outs, presented, told, backVars, sched>>

\* handle_output_frame, the commit failed: commit_pending is undone when it
\* recorded this very commit, and nothing schedules another frame.
FrameFailed(o) ==
    /\ o \in outs
    /\ LET next == Inc(seq[o])
           noted == secure /\ ~presented[o] /\ ~pending[o]
       IN  /\ pendSeq' = IF noted THEN [pendSeq EXCEPT ![o] = next] ELSE pendSeq
           /\ pending' = IF secure /\ (noted \/ pendSeq[o] = next)
                         THEN [pending EXCEPT ![o] = FALSE]
                         ELSE pending
    /\ sched' = [sched EXCEPT ![o] = FALSE]
    /\ UNCHANGED <<ctlVars, outs, presented, told, backVars>>

Oldest(o) == {f \in flight[o] : \A g \in flight[o] : Age(o, g) <= Age(o, f)}

\* handle_output_present with presented = false: the frame was dropped.
PresentDropped(o) ==
    /\ o \in outs
    /\ \E f \in Oldest(o) : flight' = [flight EXCEPT ![o] = @ \ {f}]
    /\ UNCHANGED <<ctlVars, outVars, told, seq, shown, sched>>

\* handle_output_present with onyrion_session_lock_output_presented
PresentShown(o) ==
    /\ o \in outs
    /\ \E f \in Oldest(o) :
         LET counts == /\ secure
                       /\ ~presented[o]
                       /\ pending[o]
                       /\ SeqReached(f.seq, pendSeq[o])
             now == [presented EXCEPT ![o] = presented[o] \/ counts]
         IN  /\ flight' = [flight EXCEPT ![o] = @ \ {f}]
             /\ shown' = [shown EXCEPT ![o] =
                            IF f.desktop THEN "desktop" ELSE "lock"]
             /\ presented' = now
             /\ pending' = [pending EXCEPT ![o] = pending[o] /\ ~counts]
             /\ IF counts
                THEN MaybeSendLocked(outs, now, lock, secure, lockedSent, told)
                ELSE UNCHANGED <<lockedSent, told>>
    /\ UNCHANGED <<lock, secure, outs, pendSeq, seq, sched>>

Frames(o) == FrameCommitted(o) \/ FrameUndamaged(o) \/ FrameFailed(o)
Presents(o) == PresentDropped(o) \/ PresentShown(o)

LockNext ==
    \/ \E c \in Clients : NewLock(c) \/ Unlock(c) \/ LockDestroy(c)
    \/ \E o \in Outputs : \/ OutputAdd(o)
                          \/ OutputRemove(o)
                          \/ Frames(o)
                          \/ Presents(o)

LockSpec == LockInit /\ [][LockNext]_lockVars

\* The backend delivers a scheduled frame and reports every commit; it owes
\* the compositor neither a successful commit nor a frame that reaches the
\* screen.
LockFairness ==
    \A o \in Outputs :
        /\ WF_lockVars(sched[o] /\ (FrameCommitted(o) \/ FrameFailed(o)))
        /\ WF_lockVars(Presents(o))

LockFairSpec == LockSpec /\ LockFairness
-----------------------------------------------------------------------------
\* An output whose frame was lost and for which nothing will try again.
Stuck(o) == ~presented[o] /\ ~sched[o] /\ flight[o] = {}

\* While the locker stands told "locked", no screen shows the desktop and no
\* commit under way carries it: the answer of maybe_send_locked is not early,
\* whatever commits were in flight when the lock was requested.
LockedHidesDesktop ==
    lockedSent =>
        \A o \in outs : /\ shown[o] # "desktop"
                        /\ \A f \in flight[o] : ~f.desktop

\* A client that was told "locked" and has not unlocked is the attached one,
\* and the session is secure: no other client's request, death or answer ends
\* its lock.
ToldLockedHolds ==
    \A c \in Clients : told[c] = "locked" => lock = c /\ secure /\ lockedSent

\* The promise of "locked": nothing of the desktop is seen, and nobody but
\* the client it was made to can end it.
LockPromise == LockedHidesDesktop /\ ToldLockedHolds

\* A session whose locker was told "locked" opens only at its unlock request,
\* never at its death, and one whose locker disappeared opens only after
\* another locker has attached.
OnlyUnlockOpens ==
    [][secure /\ ~secure' =>
          /\ lock # NoLock
          /\ lockedSent => \E c \in Clients : Unlock(c)]_lockVars

Settled == outs' = outs /\ \A o \in Outputs : ~FrameFailed(o) /\ ~PresentDropped(o)

\* Once outputs are no longer plugged and unplugged and no more frames are
\* lost, a pending lock request is answered or its client leaves, unless an
\* earlier loss left some output with no frame to come: a request is never
\* forgotten while frames and presents go on.
LockAnswered ==
    <>[][Settled]_lockVars =>
        \A c \in Clients :
            told[c] = "pending" ~>
                (told[c] # "pending" \/ \E o \in outs : Stuck(o))
=============================================================================
