------------------------------ MODULE MCRuntime ------------------------------
(* Runtime on a small instance: two concurrent panel requests and main.    *)
EXTENDS Runtime

CONSTANTS h1, h2, n1, n2, r1, p1, p2

Conf(e, n, r, p) == [enabled |-> e, net |-> n, raw |-> r, pol |-> p]
MCInitial == Conf(TRUE, n1, r1, p1)

(* A saved configuration differs in settings that need a restart, or in    *)
(* policies only; Toggle turns the server off.                             *)
MCInputs  == {Conf(TRUE, n2, r1, p1), Conf(TRUE, n1, r1, p2)}
MCHandlers == {h1, h2}
MCNets == {n1, n2}
MCPols == {p1, p2}
OneRaw == {r1}
=============================================================================
