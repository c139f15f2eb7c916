------------------------------- MODULE MCRelays -------------------------------
(* Three relays for the address.                                           *)
EXTENDS Relays

CONSTANTS w1, w2, w3
MCRelaySet == {w1, w2, w3}
=============================================================================
