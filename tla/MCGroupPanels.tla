----------------------------- MODULE MCGroupPanels -----------------------------
(* Two groups: one that is there, one that comes.  A group is higher or lower *)
(* than its panel.                                                            *)
EXTENDS PanelDrag

CONSTANTS g1, g2

TwoGroups == {g1, g2}
TwoWatchers == {1, 2}
LowAndHigh == {20, 40}
=============================================================================
