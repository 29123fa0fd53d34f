-------------------------- MODULE MCDesktopSnapshot --------------------------
(* Small instances of DesktopSnapshot.  One group more than windows: a       *)
(* command may make a group before it empties another.                       *)
EXTENDS DesktopSnapshot

CONSTANTS w1, w2, w3, g1, g2, g3, g4, o1, o2

TwoWindows == {w1, w2}
ThreeWindows == {w1, w2, w3}
ThreeGroups == {g1, g2, g3}
FourGroups == {g1, g2, g3, g4}
OneOutput == {o1}
TwoOutputs == {o1, o2}
NoAffinity == [ws \in Workspaces |-> None]
NoStartup == {}

SnapshotSymmetry ==
    Permutations(Groups) \cup Permutations(Windows) \cup Permutations(Outputs)

\* Bound: no window is fullscreen, and at most one group floats (and so may be
\* pinned to the output), while there is a dialog.
OneFloats ==
    /\ desk'.full = {}
    /\ desk'.flt # {} => Cardinality(desk'.flt) = 1 /\ transient' # {}

OneFloatsSpec == SnapshotInit /\ [][SnapshotNext /\ OneFloats]_vars
=============================================================================
