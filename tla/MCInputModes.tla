---------------------------- MODULE MCInputModes ----------------------------
(* Model values for InputModes. *)
EXTENDS InputModes, TLC

NoButton == {}
InputSymmetry == Permutations(Windows) \cup Permutations(Pointers) \cup Permutations(Keyboards)

\* effect says what the last step did and nothing depends on it.
Observed == <<locked, layer, win, shells, held, seat, modeVars, gesture, captures, tapVars,
              panelVars, InertBehindLock>>

\* At most MaxOngoing of the things that last from one event to another at once.
CONSTANT MaxOngoing
One(b) == IF b THEN 1 ELSE 0
FewOngoing ==
    Cardinality(held) + Cardinality({s \in Supers : tap[s] # "up"}) + Cardinality(pending)
        + One(gesture # "none") + One(awaiting \/ recovery # None) <= MaxOngoing
=============================================================================
