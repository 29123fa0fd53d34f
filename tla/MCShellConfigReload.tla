------------------------- MODULE MCShellConfigReload -------------------------
(* A small instance of ShellConfigReload: two configurations, one with a     *)
(* probed provider that is always restarted, both with another one that is   *)
(* restarted on failure and judged by its process alone.                     *)
EXTENDS ShellConfigReload

CONSTANTS p1, p2, ca, cb

TwoProviders == {p1, p2}
FirstProvider == {p1}
Policies == [p \in TwoProviders |-> IF p = p1 THEN "always" ELSE "on-failure"]
TwoConfigs == {ca, cb}
BothOrOne == [c \in TwoConfigs |-> IF c = ca THEN {p1, p2} ELSE {p2}]
=============================================================================
