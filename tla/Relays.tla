-------------------------------- MODULE Relays --------------------------------
(***************************************************************************)
(* RAW traffic to one client address (raw.go): the relays, which are the   *)
(* sessions of that address; the downlink, which hands the packets of the  *)
(* TUN device to them in turn; and their writers.  Each address has entries*)
(* of its own in the maps of the router.                                   *)
(***************************************************************************)
EXTENDS Integers, Sequences, FiniteSets, SequencesExt

CONSTANTS Relays,    \* sessions with the address, each at most once
          Chunk,     \* packets in a row for a relay (8)
          SendCap    \* capacity of sendCh (256)

Nobody == 0
Stopped == -1         \* the downlink has returned

ASSUME RelaysAssumption ==
    /\ Chunk \in Nat \ {0} /\ SendCap \in Nat \ {0}
    /\ IsFiniteSet(Relays) /\ Nobody \notin Relays /\ Stopped \notin Relays

VARIABLES
    items, rr, chunk, \* the router's entries for the address
    hand,             \* the relay the downlink is to send a packet to
    stage,            \* per relay: new, member, removed, left
    queued,           \* per relay: packets in its sendCh
    writer,           \* per relay: none, idle, writing, over
    passed,   \* auxiliary: packets for others since the relay's last one
    late      \* auxiliary: packets sent to the relay since it was removed

router == <<items, rr, chunk>>
aux    == <<passed, late>>
vars == <<router, hand, stage, queued, writer, aux>>

Members == {w \in Relays : stage[w] = "member"}

Init ==
    /\ items = <<>> /\ rr = 0 /\ chunk = 0 /\ hand = Nobody
    /\ stage = [w \in Relays |-> "new"]
    /\ queued = [w \in Relays |-> 0]
    /\ writer = [w \in Relays |-> "none"]
    /\ passed = [w \in Relays |-> 0]
    /\ late = [w \in Relays |-> 0]

(***************************************************************************)
(* The sessions: handleRaw, add, remove                                    *)
(***************************************************************************)
Add(w) ==
    /\ stage[w] = "new"
    /\ stage' = [stage EXCEPT ![w] = "member"]
    /\ items' = Append(items, w)
    /\ writer' = [writer EXCEPT ![w] = "idle"]
    /\ UNCHANGED <<rr, chunk, hand, queued, passed, late>>

(* Mutant of Position: the position stays, wherever it then points.        *)
StaysPut(rest) == rr

Position(rest) == IF rr >= Len(rest) THEN 0 ELSE rr

Rest(w) == RemoveFirst(items, w)

(* The entries go with the last relay.                                     *)
Leave(w) ==
    /\ stage[w] = "member"
    /\ stage' = [stage EXCEPT ![w] = "removed"]
    /\ items' = Rest(w)
    /\ rr' = Position(Rest(w))
    /\ chunk' = IF Rest(w) = <<>> THEN 0 ELSE chunk
    /\ passed' = [passed EXCEPT ![w] = 0]
    /\ UNCHANGED <<hand, queued, writer, late>>

(* Mutant of Done: done is not closed.                                     *)
NotDone == "over"

Done == "left"

CloseDone(w) ==
    /\ stage[w] = "removed"
    /\ stage' = [stage EXCEPT ![w] = Done]
    /\ UNCHANGED <<router, hand, queued, writer, aux>>

(***************************************************************************)
(* The downlink                                                            *)
(***************************************************************************)
(* Mutant of NextTurn: one relay too far.                                  *)
SkipsOne(k) == (k + 2) % Len(items)

NextTurn(k) == (k + 1) % Len(items)

(* A packet from the TUN device: under the mutex a relay is chosen, the    *)
(* same one for a chunk.                                                   *)
Route ==
    /\ hand = Nobody /\ items # <<>>
    /\ LET k    == rr % Len(items)
           w    == items[k + 1]
           left == (IF chunk <= 0 THEN Chunk ELSE chunk) - 1
       IN  /\ chunk' = left
           /\ rr' = IF left = 0 THEN NextTurn(k) ELSE rr
           /\ hand' = w
           /\ passed' = [v \in Relays |->
                            IF v \in Members \ {w} THEN passed[v] + 1 ELSE 0]
    /\ UNCHANGED <<items, stage, queued, writer, late>>

(* Mutant of Full: it waits for room.                                      *)
WaitsForRoom(w) == FALSE

(* A relay whose channel is full loses the packet.                         *)
Full(w) == queued[w] = SendCap

(* The select behind the unlock: the relay may be gone by now.             *)
Send ==
    /\ hand \in Relays
    /\ hand' = Nobody
    /\ \/ /\ queued[hand] < SendCap
          /\ queued' = [queued EXCEPT ![hand] = @ + 1]
       \/ (stage[hand] = "left" \/ Full(hand)) /\ UNCHANGED queued
    /\ late' = IF hand \in Members THEN late
               ELSE [late EXCEPT ![hand] = @ + 1]
    /\ UNCHANGED <<router, stage, writer, passed>>

(* The TUN device is closed, or a read of it fails; or the context is done.*)
DownlinkEnds ==
    /\ hand = Nobody
    /\ hand' = Stopped
    /\ UNCHANGED <<router, stage, queued, writer, aux>>

(***************************************************************************)
(* The writers                                                             *)
(***************************************************************************)
Take(w) ==
    /\ writer[w] = "idle" /\ queued[w] > 0
    /\ queued' = [queued EXCEPT ![w] = @ - 1]
    /\ writer' = [writer EXCEPT ![w] = "writing"]
    /\ UNCHANGED <<router, hand, stage, aux>>

Written(w) ==
    /\ writer[w] = "writing"
    /\ writer' = [writer EXCEPT ![w] = "idle"]
    /\ UNCHANGED <<router, hand, stage, queued, aux>>

WriterEnds(w) ==
    /\ writer[w] = "idle" /\ stage[w] = "left"
    /\ writer' = [writer EXCEPT ![w] = "over"]
    /\ UNCHANGED <<router, hand, stage, queued, aux>>

Next ==
    \/ \E w \in Relays :
           \/ Add(w) \/ Leave(w) \/ CloseDone(w)
           \/ Take(w) \/ Written(w) \/ WriterEnds(w)
    \/ Route \/ Send \/ DownlinkEnds

(* The downlink and the writers run; a write need not return before the    *)
(* session's connection is closed.                                         *)
Spec ==
    /\ Init /\ [][Next]_vars
    /\ WF_vars(Send)
    /\ \A w \in Relays :
           /\ WF_vars(CloseDone(w)) /\ WF_vars(Take(w))
           /\ WF_vars(WriterEnds(w))
           /\ WF_vars(stage[w] = "left" /\ Written(w))

(***************************************************************************)
(* Properties                                                              *)
(***************************************************************************)
TypeOK ==
    /\ IsInjective(items) /\ ToSet(items) = Members
    /\ rr \in 0 .. Len(items) /\ (items # <<>> => rr < Len(items))
    /\ chunk \in 0 .. Chunk /\ (items = <<>> => rr = 0 /\ chunk = 0)
    /\ hand \in Relays \cup {Nobody, Stopped}
    /\ stage \in [Relays -> {"new", "member", "removed", "left"}]
    /\ queued \in [Relays -> 0 .. SendCap]
    /\ writer \in [Relays -> {"none", "idle", "writing", "over"}]

(* The relays take turns, whatever position remove leaves behind: a relay  *)
(* waits for a chunk of each other one, and when one of them leaves just   *)
(* before its turn, for a chunk of each that is left, and so on.  One that *)
(* has been removed gets at most the one packet that the downlink had in   *)
(* its hand, which it sends without the mutex.                             *)
FairTurns ==
    LET others == Cardinality(Relays) - 1
    IN  /\ \A w \in Members : 2 * passed[w] <= Chunk * others * (others + 1)
        /\ \A w \in Relays : late[w] <= 1

(* A relay that does not take its packets holds up nobody else: the        *)
(* downlink always comes back to the TUN device.                           *)
DownlinkGoesOn == hand \in Relays ~> hand \notin Relays

(* The writer of a session that is over ends too.                          *)
WritersEnd == \A w \in Relays : stage[w] = "removed" ~> writer[w] = "over"
=============================================================================
