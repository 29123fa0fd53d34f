------------------------------ MODULE Service ------------------------------
(***************************************************************************)
(* What the session promises about each program it keeps running: one      *)
(* instance at a time, the next one started only when nothing of the last  *)
(* is left, and none once the session is over.  SessionSupervisor          *)
(* implements this for the Shell daemon and for the Polkit agent.          *)
(***************************************************************************)
VARIABLE state  \* "down", "up", "left": descendants of a dead instance

Init == state = "down"

Start == state = "down" /\ state' = "up"

\* The instance dies; what it had started may stay.
Crash == state = "up" /\ state' = "left"

\* Whatever is left is killed; a running instance too, when the session ends.
Clear == state \in {"up", "left"} /\ state' = "down"

Over == state' = "over"

Next == Start \/ Crash \/ Clear \/ (state = "down" /\ Over)

Spec == Init /\ [][Next]_state
=============================================================================
