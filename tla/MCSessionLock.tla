--------------------------- MODULE MCSessionLock ---------------------------
(* A small instance of SessionLock: sequence numbers of three bits, so     *)
(* that they wrap around.                                                  *)
EXTENDS SessionLock

CONSTANTS c1, c2, o1

MCClients == {c1, c2}
MCOneOutput == {o1}
=============================================================================
