------------------------------ MODULE Addressing ------------------------------
(***************************************************************************)
(* The WireGuard and RAW addresses of the profiles: NormalizeProfiles and  *)
(* the address checks of Validate (config.go).  An address is a number, a  *)
(* network a record of its first, gateway and last (broadcast) addresses.  *)
(* A profile list is reduced to the sequence of its addresses of one kind. *)
(***************************************************************************)
EXTENDS Integers, Sequences, FiniteSets

(* What does not parse, and the empty field.                               *)
NoAddress == -1

Network == [first : Int, gateway : Int, last : Int]

(* serverTunnelAddress: the server takes the first host address.           *)
ServerNetwork(first, last) ==
    [first |-> first, gateway |-> first + 1, last |-> last]

(* rawGateway: x.y.66.1, amid its /16.                                     *)
RawNetwork(first, gateway, last) ==
    [first |-> first, gateway |-> gateway, last |-> last]

Usable(n, a) == a \in (n.first .. n.last) \ {n.gateway, n.last}

(* Mutant of Kept: addresses are given by position in the list.            *)
NothingKept(n, as) == {}

(* The profiles that keep their address: of two that claim one, the first. *)
Kept(n, as) ==
    {i \in DOMAIN as : Usable(n, as[i]) /\ \A j \in 1 .. i - 1 : as[j] # as[i]}

(* Mutant of Room: the last host address is forgotten.                     *)
OneShort(n) == n.gateway + 1 .. n.last - 2

(* Automatic addresses are sought upwards from the gateway.                *)
Room(n) == n.gateway + 1 .. n.last - 1

(* The rest get the addresses nobody keeps, in ascending order, while      *)
(* there are any.                                                          *)
Fill(n, as) ==
    LET kept == Kept(n, as)
        free == Room(n) \ {as[i] : i \in kept}
        rank(a) == Cardinality({b \in free : b < a})
        blanks(i) == Cardinality((1 .. i - 1) \ kept)
    IN  [i \in DOMAIN as |->
            IF i \in kept THEN as[i]
            ELSE IF blanks(i) < Cardinality(free)
                 THEN CHOOSE a \in free : rank(a) = blanks(i)
                 ELSE NoAddress]

(* The checks of Validate on either kind of address.                       *)
Distinct(n, as) ==
    /\ \A i \in DOMAIN as : Usable(n, as[i])
    /\ \A i, j \in DOMAIN as : as[i] = as[j] => i = j

(* Only of a client's address it refuses the network's own.                *)
Valid(n, as) == Distinct(n, as) /\ \A i \in DOMAIN as : as[i] # n.first
=============================================================================
