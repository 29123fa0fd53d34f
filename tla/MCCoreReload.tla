---------------------------- MODULE MCCoreReload ----------------------------
(* A small instance of CoreReload: one policy gives each output a workspace,  *)
(* the other takes the second one away and leaves an output with what no      *)
(* policy names, if anything; the default one declares none.                  *)
EXTENDS CoreReload

CONSTANTS ca, cb, o1, o2

TwoConfigs == {ca, cb}
TwoOutputs == {o1, o2}
DeclaredBy == [p \in Policies |-> IF p = Default THEN {} ELSE {1, 2}]
AffinityOf ==
    [p \in Policies |-> [ws \in 1..3 |->
        CASE p = ca /\ ws = 1 -> o1
          [] p = ca /\ ws = 2 -> o2
          [] p = cb /\ ws = 1 -> o2
          [] p = cb /\ ws = 2 -> Absent
          [] OTHER -> None]]
=============================================================================
