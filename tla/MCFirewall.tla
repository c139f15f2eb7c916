------------------------------ MODULE MCFirewall ------------------------------
(* Two profiles, of which one is internet-only and at first off; a policy  *)
(* of each kind.                                                           *)
EXTENDS Firewall, TLC

CONSTANTS i1, i2

P(ip, raw, on, internet, rules) ==
    [ip |-> ip, rawIP |-> raw, enabled |-> on, internet |-> internet,
     rules |-> rules]
R(on, block, from, to, ports) ==
    [on |-> on, block |-> block, from |-> from, to |-> to, ports |-> ports]

NoWeb == R(TRUE, TRUE, {}, {"lan", "net"}, {"80"})
Web   == R(TRUE, FALSE, {}, {"lan"}, {"80"})
Off   == R(FALSE, TRUE, {}, {}, {})

A(on, rules) == P("a", "ra", on, FALSE, rules)
B(on)        == P("b", "rb", on, TRUE, <<>>)
C(profiles, global) == [profiles |-> profiles, global |-> global]

MCInitial  == C(<<A(TRUE, <<NoWeb>>), B(FALSE)>>, <<>>)
Both(global) == C(<<A(TRUE, <<>>), B(TRUE)>>, global)
MCConfigs  == {Both(<<Off, Web>>)}
MCAddresses == {"a", "ra", "b", "rb"}
MCInstalls == {i1, i2}
Symmetry   == Permutations(MCInstalls)
=============================================================================
