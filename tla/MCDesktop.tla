----------------------------- MODULE MCDesktop -----------------------------
(* Small instances of Desktop.  One group more than windows: a command may *)
(* make a group before it empties another.                                 *)
EXTENDS Desktop

CONSTANTS w1, w2, g1, g2, g3, o1, o2

TwoWindows == {w1, w2}
ThreeGroups == {g1, g2, g3}
TwoOutputs == {o1, o2}
FirstAffinity == [ws \in Workspaces |-> IF ws = 1 THEN o2 ELSE None]
SecondStartup == {2}

\* Windows and groups are interchangeable; outputs are named by affinities.
ObjectSymmetry == Permutations(Groups) \cup Permutations(Windows)

\* No window asks for fullscreen, to leave room for more workspaces or windows.
NoFullscreenSpec == Init /\ [][Next /\ desk'.full = {}]_desk
=============================================================================
