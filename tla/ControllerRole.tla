--------------------------- MODULE ControllerRole ---------------------------
(***************************************************************************)
(* What the compositor promises about the Shell: one controller at a time, *)
(* recovery shown exactly while there is none, and no invocation that      *)
(* outlives the controller it was sent to.  ShellLink implements this.     *)
(***************************************************************************)
CONSTANTS Clients,
          NoClient,  \* not a client
          Serials

VARIABLES holder,    \* who has the role
          recovery,  \* the compositor shows its own recovery panel
          open       \* invocations sent to the holder and not answered

vars == <<holder, recovery, open>>

Init ==
    /\ holder = NoClient
    /\ recovery = TRUE
    /\ open = {}

Grant(c) ==
    /\ holder = NoClient
    /\ holder' = c
    /\ recovery' = FALSE
    /\ UNCHANGED open

\* Released, or the holder's connection broke.
Lose ==
    /\ holder # NoClient
    /\ holder' = NoClient
    /\ recovery' = TRUE
    /\ open' = {}

Invoke(s) ==
    /\ holder # NoClient
    /\ s \notin open
    /\ open' = open \cup {s}
    /\ UNCHANGED <<holder, recovery>>

Answer(s) ==
    /\ s \in open
    /\ open' = open \ {s}
    /\ UNCHANGED <<holder, recovery>>

Next ==
    \/ \E c \in Clients : Grant(c)
    \/ Lose
    \/ \E s \in Serials : Invoke(s) \/ Answer(s)

Spec == Init /\ [][Next]_vars
=============================================================================
