---------------------------- MODULE MCSeatFocus ----------------------------
(* Model values for SeatFocus. *)
EXTENDS SeatFocus, TLC

SurfaceSymmetry ==
    Permutations(Windows) \cup Permutations(Layers)
        \cup Permutations(LockSurfaces) \cup Permutations(Keyboards)
=============================================================================
