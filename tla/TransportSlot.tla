---------------------------- MODULE TransportSlot ----------------------------
(***************************************************************************)
(* What Runtime promises about the transport, whatever the panel asks: one *)
(* slot, held by at most one instance at a time.  An instance gets the     *)
(* slot once in its life; having lost it, it only drains.  A restarted     *)
(* process starts with an empty slot.                                      *)
(***************************************************************************)
EXTENDS Integers

CONSTANT Ids
VARIABLES slot, draining, last

NoId == 0

Init == slot = NoId /\ draining = {} /\ last = 0

Grant(i) ==
    /\ slot = NoId /\ i > last
    /\ slot' = i /\ last' = i
    /\ UNCHANGED draining

Revoke ==
    /\ slot # NoId
    /\ slot' = NoId
    /\ draining' = draining \cup {slot}
    /\ UNCHANGED last

Drained(i) ==
    /\ i \in draining
    /\ draining' = draining \ {i}
    /\ UNCHANGED <<slot, last>>

Restart == slot' = NoId /\ draining' = {} /\ last' = 0

Next ==
    \/ \E i \in Ids : Grant(i) \/ Drained(i)
    \/ Revoke
    \/ Restart

Spec == Init /\ [][Next]_<<slot, draining, last>>
=============================================================================
