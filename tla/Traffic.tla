------------------------------- MODULE Traffic -------------------------------
(***************************************************************************)
(* What the panel shows of one profile's traffic (profile_traffic.go): the *)
(* object that counts it, made by whichever session comes first, and the   *)
(* snapshots, which several requests of the panel take at once.            *)
(***************************************************************************)
EXTENDS Integers

CONSTANTS Clients,  \* the sessions of the profile
          Panels,   \* requests of the panel
          MaxBytes, \* bound: what a counter counts
          MaxShots  \* bound: snapshots

VARIABLES
    tracked, \* the object in the map, named for the session that made it
    found,   \* per session: what its look at the map has found
    object,  \* per session: the object it counts in
    rx, tx,  \* per object: its counters
    panel,   \* per request: where its snapshot is, and what it has read
    prev,    \* of the object: the snapshot before
    clock    \* the snapshots begun, which tell the time

trafficVars == <<tracked, found, object, rx, tx, panel, prev, clock>>

None == 0

ASSUME TrafficAssumption ==
    None \notin Clients /\ MaxBytes \in Nat /\ MaxShots \in Nat

Objects == Clients \cup {None}
NoShot == [at |-> 0, rx |-> 0, tx |-> 0]
Resting == [pc |-> "idle", shot |-> NoShot, shared |-> FALSE]

TrafficInit ==
    /\ tracked = None
    /\ found = [c \in Clients |-> None]
    /\ object = [c \in Clients |-> None]
    /\ rx = [o \in Objects |-> 0] /\ tx = [o \in Objects |-> 0]
    /\ panel = [p \in Panels |-> Resting]
    /\ prev = NoShot /\ clock = 0

(***************************************************************************)
(* ConnectMode                                                             *)
(***************************************************************************)
Look(c) ==
    /\ object[c] = None
    /\ found' = [found EXCEPT ![c] = tracked]
    /\ UNCHANGED <<tracked, object, rx, tx, panel, prev, clock>>

Busy == {p \in Panels : panel[p].pc # "idle"}

(* Mutant of Chosen: the map is not looked at again under the lock.        *)
NotAgain(c) == IF found[c] = None THEN c ELSE found[c]

(* Under the lock the map is looked at again.                              *)
Chosen(c) ==
    IF found[c] # None THEN found[c]
    ELSE IF tracked # None THEN tracked ELSE c

(* A snapshot holds the map's read lock throughout.                        *)
ConnectMode(c) ==
    /\ object[c] = None
    /\ found[c] = None => Busy = {}
    /\ object' = [object EXCEPT ![c] = Chosen(c)]
    /\ tracked' = IF found[c] = None THEN Chosen(c) ELSE tracked
    /\ UNCHANGED <<found, rx, tx, panel, prev, clock>>

(***************************************************************************)
(* AddRX, AddTX                                                            *)
(***************************************************************************)
Count(counter, c) ==
    [counter EXCEPT ![object[c]] = IF @ < MaxBytes THEN @ + 1 ELSE @]

AddRX(c) ==
    /\ rx' = Count(rx, c)
    /\ UNCHANGED <<tracked, found, object, tx, panel, prev, clock>>

AddTX(c) ==
    /\ tx' = Count(tx, c)
    /\ UNCHANGED <<tracked, found, object, rx, panel, prev, clock>>

(***************************************************************************)
(* snapshot                                                                *)
(***************************************************************************)
Now(p) ==
    /\ panel[p].pc = "idle" /\ tracked # None /\ clock < MaxShots
    /\ clock' = clock + 1
    /\ panel' = [q \in Panels |->
                    IF q = p
                    THEN [pc |-> "load", shot |-> [NoShot EXCEPT !.at = clock'],
                          shared |-> Busy # {}]
                    ELSE [panel[q] EXCEPT !.shared = TRUE]]
    /\ UNCHANGED <<tracked, found, object, rx, tx, prev>>

Load(p) ==
    /\ panel[p].pc = "load"
    /\ panel' = [panel EXCEPT ![p].pc = "rate",
                              ![p].shot.rx = rx[tracked],
                              ![p].shot.tx = tx[tracked]]
    /\ UNCHANGED <<tracked, found, object, rx, tx, prev, clock>>

(* Mutant of Kept: the two directions are exchanged.                       *)
Exchanged(shot) == [shot EXCEPT !.rx = shot.tx, !.tx = shot.rx]

Kept(shot) == shot

(* Under the mutex: the rates since the snapshot before, which this one    *)
(* then takes the place of.                                                *)
Rate(p) ==
    /\ panel[p].pc = "rate"
    /\ prev' = Kept(panel[p].shot)
    /\ panel' = [panel EXCEPT ![p] = Resting]
    /\ UNCHANGED <<tracked, found, object, rx, tx, clock>>

TrafficNext ==
    \/ \E c \in Clients :
           \/ Look(c) \/ ConnectMode(c)
           \/ object[c] # None /\ (AddRX(c) \/ AddTX(c))
    \/ \E p \in Panels : Now(p) \/ Load(p) \/ Rate(p)

TrafficSpec == TrafficInit /\ [][TrafficNext]_trafficVars

(***************************************************************************)
(* Properties                                                              *)
(***************************************************************************)
(* Besides the types: what a snapshot has read is in the past of the       *)
(* object's counters, and so is the snapshot before it.                    *)
TrafficTypeOK ==
    /\ tracked \in Objects
    /\ found \in [Clients -> Objects] /\ object \in [Clients -> Objects]
    /\ rx \in [Objects -> 0 .. MaxBytes] /\ tx \in [Objects -> 0 .. MaxBytes]
    /\ clock \in 0 .. MaxShots
    /\ \A p \in Panels : panel[p].pc \in {"idle", "load", "rate"}
    /\ \A shot \in {prev} \cup {panel[p].shot : p \in Panels} :
          /\ shot.at <= clock
          /\ shot.rx <= rx[tracked] /\ shot.tx <= tx[tracked]

(* All sessions of the profile count in the object the panel reads, also   *)
(* if several of them connect for the first time at once.                  *)
OneTally == \A c \in Clients : object[c] \in {None, tracked}

Shown(p) ==
    panel[p].pc = "rate" /\ prev.at # 0 /\ panel[p].shot.at > prev.at

(* A rate is the difference of two unsigned counters: it does not wrap     *)
(* around as long as no two requests take their snapshots at once.  (When  *)
(* they do, the one with the later time may have read the counters first.) *)
RatesDoNotWrap ==
    \A p \in Panels :
        Shown(p) /\ ~panel[p].shared =>
            panel[p].shot.rx >= prev.rx /\ panel[p].shot.tx >= prev.tx
=============================================================================
