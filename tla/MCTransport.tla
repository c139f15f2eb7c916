----------------------------- MODULE MCTransport -----------------------------
(* Two remote addresses, two connections, a RAW channel of one place, two  *)
(* keys.                                                                    *)
EXTENDS Transport, TLC

CONSTANTS e1, e2, k1, k2
MCEndpoints == {e1, e2}
OneEndpoint == {e1}
MCKeys == {k1, k2}
OneKey == {k1}
Symmetry == Permutations(MCEndpoints) \cup Permutations(MCKeys)
=============================================================================
