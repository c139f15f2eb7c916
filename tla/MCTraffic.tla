------------------------------ MODULE MCTraffic ------------------------------
(* Two sessions of the profile, two requests of the panel.                 *)
EXTENDS Traffic, TLC

CONSTANTS c1, c2, p1, p2
MCClients == {c1, c2}
MCPanels  == {p1, p2}
Symmetry  == Permutations(MCClients) \cup Permutations(MCPanels)
=============================================================================
