------------------------------- MODULE MCPeers -------------------------------
(* Two profiles, two devices, a network with two host addresses for        *)
(* clients and one with a single one.                                      *)
EXTENDS Peers, TLC

CONSTANTS a, b, d1, d2

MCIds == {a, b}
MCDevices == {d1, d2}
Wide == ServerNetwork(0, 4)
Narrow == ServerNetwork(10, 13)

Far == RawNetwork(20, 22, 26)
Other == RawNetwork(40, 42, 46)

P(i, ip) == [id |-> i, ip |-> ip, raw |-> NoAddress]
R(i, raw) == [id |-> i, ip |-> NoAddress, raw |-> raw]
Entry(i, n) ==
    {P(i, x) : x \in {NoAddress, n.first, n.first + 2, n.first + 3}}
Pairs(n) == Entry(a, n) \X Entry(b, n) \cup Entry(b, n) \X Entry(a, n)
Lists(n) ==
    {<<>>, <<P(a, NoAddress), P(a, NoAddress)>>} \cup Pairs(n)
        \cup {<<p>> : p \in Entry(a, n) \cup Entry(b, n)}

(* RAW addresses: none, below the gateway, the gateway, the first to give. *)
RawLists ==
    {<<R(a, x), R(b, y)>> : x \in {20, 23}, y \in {NoAddress, 23}}
        \cup {<<R(a, 20), R(b, Far.gateway)>>}

MCInitial ==
    [net |-> Wide, rawNet |-> Far, list |-> <<[P(a, 2) EXCEPT !.raw = 23]>>]
MCRequests ==
    [net : {Wide}, rawNet : {Far}, list : Lists(Wide)]
        \cup [net : {Wide}, rawNet : {Far}, list : RawLists]
        \cup [net : {Wide}, rawNet : {Other}, list : {<<R(a, 23)>>}]
        \cup [net : {Narrow}, rawNet : {Far},
               list : {<<P(a, 2)>>, <<P(a, 2), P(b, 3)>>}]

Symmetry == Permutations(MCDevices)
=============================================================================
