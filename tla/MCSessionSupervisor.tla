------------------------ MODULE MCSessionSupervisor ------------------------
(* A small session: two X displays, an agent that may be started twice.    *)
EXTENDS SessionSupervisor

Forkers == {"satellite", "shell"}

\* Nothing reads the configuration file once Core is started, a deadline after its
\* wait, nor what Core did first when the satellite is not to be blamed.
Observed ==
    <<procVars, foreign, path, IF pc \in {"config", "seed"} THEN config ELSE "none",
      pc, stop, display, polkitVars, due, cause, code,
      coreGone, coreFirst /\ cause \in {"none", "satellite"}, silent,
      over /\ pc \in Timed, late>>
=============================================================================
