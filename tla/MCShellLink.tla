---------------------------- MODULE MCShellLink ----------------------------
(* Small instances of ShellLink: two daemons, one after the other, a       *)
(* generation of two bits, two serials.                                    *)
EXTENDS ShellLink

CONSTANTS d1, d2, w1

TwoDaemons == {d1, d2}
OneWatcher == {w1}
=============================================================================
