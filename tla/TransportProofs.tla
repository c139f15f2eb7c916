--------------------------- MODULE TransportProofs ---------------------------
(* Proofs about Transport, for any set of endpoints and any bounds.        *)
EXTENDS Transport, TLAPS

USE DEF keyVars

(***************************************************************************)
(* The inductive invariant                                                 *)
(***************************************************************************)
Control ==
    /\ mode \in {"shared", "dtls", "raw"} /\ ctx \in BOOLEAN
    /\ svc \in {"serving", "failing", "waiting", "returned"}
    /\ acc \in {"accept", "store", "read", "offer", "handoff", "drop",
                "stopped"}
    /\ cur \in Conns \cup {NoConn}
    /\ cur # NoConn <=> acc \notin {"accept", "stopped"}
    /\ cons \in {"none", "take", "stopped"}
    /\ closed \in BOOLEAN
    /\ closer \in {"idle", "visit", "range", "inner", "done"}
    /\ toVisit \subseteq Conns /\ raced \subseteq Conns
    /\ packets \in 0 .. MaxPackets

Lists ==
    /\ rawCh \in Seq(Conns) /\ Len(rawCh) <= RawCap
    /\ ep \in Seq(Endpoints) /\ Len(ep) <= MaxConns

Maps ==
    /\ conns \in [Endpoints -> Conns \cup {NoConn}]
    /\ selected \in [Endpoints -> Keys \cup {NoKey}]
    /\ key \in [Conns -> Keys \cup {NoKey}]
    /\ storing \subseteq Conns /\ overtaken \subseteq Endpoints
    /\ st \in [Conns -> {"none", "queued", "open", "closing", "half", "closed"}]
    /\ buf \in [Conns -> Kinds \cup {"empty"}]
    /\ session \in [Conns -> {"none", "wg", "raw", "ending", "done"}]

Types == Control /\ Lists /\ Maps

(* The library has one connection for an address at a time.                *)
Addressed ==
    /\ \A c \in Conns : c <= Len(ep) <=> st[c] # "none"
    /\ \A c, d \in Conns : InTable(c) /\ InTable(d) /\ ep[c] = ep[d] => c = d

Storing(c) == acc = "store" /\ cur = c

(* An accepted connection is the one in the map, from Store to its Close.  *)
Entries ==
    /\ \A e \in Endpoints : conns[e] # NoConn =>
           /\ ep[conns[e]] = e /\ st[conns[e]] \in {"open", "closing"}
           /\ ~Storing(conns[e])
    /\ \A c \in Conns : st[c] \in {"open", "closing"} /\ ~Storing(c)
           => conns[ep[c]] = c
    /\ acc = "store" => st[cur] = "open"

InRawCh(c) == \E i \in 1 .. Len(rawCh) : rawCh[i] = c

(* Whoever owns a connection has got it from Accept.                       *)
Owned(c) == cur = c \/ InRawCh(c) \/ session[c] # "none"

Owners ==
    /\ OneOwner
    /\ \A c \in Conns : Owned(c) => st[c] \notin {"none", "queued"}
    /\ \A c \in Conns : session[c] = "done" => st[c] = "closed"

(* The first payload of these was read, and selected their key.            *)
Authenticated(c) ==
    \/ cur = c /\ acc \in {"offer", "handoff"}
    \/ InRawCh(c)
    \/ session[c] \in {"wg", "raw"}

KeyKnown ==
    /\ \A c \in storing : session[c] # "none"
    /\ \A c \in Conns :
        Authenticated(c) /\ st[c] = "open" /\ c \notin storing
        => selected[ep[c]] = key[c] \/ ep[c] \in overtaken

(* A connection is being closed by someone who will finish: its session,   *)
(* the accept loop, or the listener, which leaves none open that it could  *)
(* see.                                                                    *)
Ranged == closer \in {"range", "inner", "done"}

Closing ==
    /\ \A c \in Conns : st[c] \in {"closing", "half"} =>
           \/ c \in toVisit \/ session[c] = "ending"
           \/ acc = "drop" /\ cur = c
    /\ \A c \in Conns : Ranged /\ st[c] = "open" => c \in raced \/ Storing(c)
    /\ ~Ranged => toVisit = {}
    /\ closer \in {"inner", "done"} => \A c \in toVisit : st[c] = "closed"
    /\ closer = "done" => \A c \in Conns : st[c] # "queued"

(* Start returns behind the loops and the sessions.                        *)
Returning ==
    /\ svc \in {"waiting", "returned"} =>
           closer = "done" /\ (mode # "raw" => acc = "stopped")
    /\ svc = "returned" =>
           /\ cons # "take" /\ acc = "stopped"
           /\ \A c \in Conns : session[c] \in {"none", "done"}

Inv ==
    /\ Types /\ Addressed /\ Entries /\ Owners
    /\ KeyKnown /\ Closing /\ Returning

(* What the lemmas need to know of connections and their owners.           *)
LEMMA Known ==
    ASSUME Inv
    PROVE  /\ NoConn \notin Conns
           /\ \A i \in 1 .. Len(rawCh) : rawCh[i] \in Conns
           /\ \A c \in Conns : c <= Len(ep) => ep[c] \in Endpoints
           /\ \A c \in Conns : Authenticated(c) => Owned(c)
           /\ \A c \in Conns : Owned(c) => c <= Len(ep)
<1>1. NoConn \notin Conns
  BY BoundAssumption DEF NoConn, Conns
<1>2. \A i \in 1 .. Len(rawCh) : rawCh[i] \in Conns
  BY DEF Inv, Types, Lists
<1>3. \A c \in Conns : c <= Len(ep) => ep[c] \in Endpoints
  BY BoundAssumption DEF Inv, Types, Lists, Conns
<1>4. \A c \in Conns : Authenticated(c) => Owned(c)
  BY DEF Authenticated, Owned
<1>5. \A c \in Conns : Owned(c) => c <= Len(ep)
  BY DEF Inv, Owners, Addressed
<1> QED
  BY <1>1, <1>2, <1>3, <1>4, <1>5

(* The map lets go of a connection before the UDP library does.           *)
LEMMA Order == CloseOrder[1] = "forget" /\ CloseOrder[2] = "close"
BY DEF CloseOrder

LEMMA InitInv == Init => Inv
<1> SUFFICES ASSUME Init PROVE Inv
  OBVIOUS
<1>1. Control
  <2>1. cons \in {"none", "take", "stopped"}
    BY DEF Init
  <2>2. /\ mode \in {"shared", "dtls", "raw"} /\ ctx \in BOOLEAN
        /\ svc = "serving" /\ acc = "accept" /\ cur = NoConn
        /\ closed \in BOOLEAN /\ closer = "idle" /\ toVisit = {}
        /\ raced = {} /\ packets = 0
    BY DEF Init
  <2> QED
    BY <2>1, <2>2, BoundAssumption DEF Control
<1>2. Lists /\ Maps
  BY BoundAssumption DEF Init, Lists, Maps
<1>3. \A c \in Conns : st[c] = "none" /\ session[c] = "none" /\ ~Owned(c)
  BY DEF Init, Conns, NoConn, Owned, InRawCh
<1>4. Addressed /\ Entries
  BY <1>3 DEF Init, Addressed, Entries, Storing, InTable, Conns
<1>5. Owners /\ KeyKnown
  BY <1>3 DEF Init, Owners, OneOwner, KeyKnown
<1>6. Closing /\ Returning
  BY <1>3 DEF Init, Closing, Ranged, Returning
<1> QED
  BY <1>1, <1>2, <1>4, <1>5, <1>6 DEF Inv, Types

(***************************************************************************)
(* The network and the connections                                         *)
(***************************************************************************)
(* A packet creates a connection only where the library has none.          *)
LEMMA PacketInv ==
    ASSUME Inv, NEW c \in Conns, NEW kind \in Kinds, Packet(c, kind)
    PROVE  Inv'
<1>1. UNCHANGED <<mode, ctx, svc, acc, cur, cons, rawCh, closed, closer,
                  toVisit, raced, conns, keyVars, session>>
  BY DEF Packet, lstVars
<1>2. Control'
  BY <1>1, BoundAssumption DEF Packet, Inv, Types, Control
<1>3. CASE UNCHANGED <<ep, st>>
  <2>1. Lists' /\ Maps'
    BY <1>1, <1>3 DEF Packet, Inv, Types, Lists, Maps
  <2>2. Addressed' /\ Entries'
    BY <1>1, <1>3 DEF Inv, Addressed, InTable, Entries, Storing
  <2>3. Owners' /\ KeyKnown'
    BY <1>1, <1>3
    DEF Inv, Owners, OneOwner, Owned, InRawCh, KeyKnown, Authenticated
  <2>4. Closing' /\ Returning'
    BY <1>1, <1>3 DEF Inv, Closing, Ranged, Storing, Returning
  <2> QED
    BY <1>2, <2>1, <2>2, <2>3, <2>4 DEF Inv, Types
<1>4. ASSUME NEW e \in Endpoints,
             c = Len(ep) + 1, ~InnerClosed,
             \A d \in Conns : InTable(d) => ep[d] # e,
             ep' = Append(ep, e), st' = [st EXCEPT ![c] = "queued"]
      PROVE  Inv'
  <2>1. /\ ep \in Seq(Endpoints) /\ Len(ep') = c /\ ep'[c] = e
        /\ c \in 1 .. MaxConns /\ MaxConns \in Nat /\ Len(ep) \in Nat
        /\ \A d \in 1 .. Len(ep) : ep'[d] = ep[d]
    BY <1>4, BoundAssumption DEF Inv, Types, Lists, Conns
  <2>2. st[c] = "none" /\ ~Owned(c)
    BY <2>1, <1>4, Known DEF Inv, Types, Maps, Addressed
  <2>3. \A d \in Conns : d # c => st'[d] = st[d]
    BY <1>4 DEF Inv, Types, Maps
  <2>0. st'[c] = "queued"
    BY <1>4 DEF Inv, Types, Maps
  <2>4. \A d \in Conns : d # c /\ st[d] # "none" => ep'[d] = ep[d]
    BY <2>1 DEF Inv, Addressed, Conns
  <2>5. Lists' /\ Maps'
    BY <1>1, <1>4, <2>1 DEF Packet, Inv, Types, Lists, Maps
  <2>6. Addressed'
    <3>1. \A d \in Conns : d <= Len(ep') <=> st'[d] # "none"
      BY <1>4, <2>1, <2>2, <2>3, <2>0 DEF Inv, Addressed, Conns
    <3>2. \A d \in Conns : d # c => InTable(d)' = InTable(d)
      BY <2>3 DEF InTable
    <3>3. \A d \in Conns : d # c /\ InTable(d) => ep'[d] = ep[d]
      BY <2>4 DEF InTable
    <3> QED
      BY <1>4, <2>1, <3>1, <3>2, <3>3 DEF Inv, Addressed
  <2>7. Entries'
    <3>1. acc = "store" => cur # c
      BY <2>2 DEF Owned
    <3>2. \A d \in Endpoints :
              conns[d] # NoConn => conns[d] \in Conns /\ conns[d] # c
      BY <2>2 DEF Inv, Types, Maps, Entries
    <3> QED
      BY <1>1, <2>0, <2>3, <2>4, <3>1, <3>2
      DEF Inv, Types, Control, Entries, Storing
  <2>8. Owners'
    <3>1. \A d \in Conns : Owned(d)' = Owned(d)
      BY <1>1 DEF Owned, InRawCh
    <3> QED
      BY <1>1, <2>2, <2>3, <3>1 DEF Inv, Owners, OneOwner, Owned
  <2>9. KeyKnown'
    <3>1. \A d \in Conns : Authenticated(d)' = Authenticated(d)
      BY <1>1 DEF Authenticated, InRawCh
    <3> QED
      BY <1>1, <2>0, <2>3, <2>4, <3>1 DEF Inv, KeyKnown
  <2>10. Closing' /\ Returning'
    BY <1>1, <1>4, <2>0, <2>2, <2>3
    DEF Inv, Closing, Ranged, Storing, Returning, InnerClosed
  <2> QED
    BY <1>2, <2>5, <2>6, <2>7, <2>8, <2>9, <2>10 DEF Inv, Types
<1> QED
  BY <1>3, <1>4 DEF Packet

(* The entry that is deleted is that of the connection itself, and the     *)
(* profile that is forgotten is nobody else's.                             *)
LEMMA ForgetInv ==
    ASSUME Inv, NEW c \in Conns, CloseHalf(c, "closing", "half", "forget")
    PROVE  Inv'
<1>1. /\ st[c] = "closing" /\ st' = [st EXCEPT ![c] = "half"]
      /\ conns' = [conns EXCEPT ![ep[c]] = NoConn]
      /\ selected' = [selected EXCEPT ![ep[c]] = NoKey]
      /\ UNCHANGED <<mode, ctx, svc, acc, cur, cons, rawCh, closed, closer,
                     toVisit, raced, key, storing, overtaken, ep, buf,
                     session, packets>>
  BY DEF CloseHalf, lstVars
<1>2. conns[ep[c]] = c /\ ep[c] \in Endpoints
  BY <1>1, Known DEF Inv, Addressed, Entries, Storing
<1>3. Types'
  BY <1>1, <1>2 DEF Inv, Types, Control, Lists, Maps
<1>4. \A d \in Conns : InTable(d)' => InTable(d)
  BY <1>1, Order DEF Inv, Types, Maps, InTable
<1>5. Addressed'
  BY <1>1, <1>4 DEF Inv, Types, Maps, Addressed
<1>6. \A d \in Conns : d # c /\ InTable(d) => ep[d] # ep[c]
  BY <1>1 DEF Inv, Addressed, InTable
<1>7. Entries'
  BY <1>1, <1>2, Known DEF Inv, Types, Maps, Entries, Storing
<1>8. Owners'
  BY <1>1 DEF Inv, Types, Maps, Owners, OneOwner, Owned, InRawCh
<1>9. KeyKnown'
  BY <1>1, <1>2, <1>6
  DEF Inv, Types, Maps, KeyKnown, Authenticated, InRawCh, InTable
<1>10. Closing' /\ Returning'
  BY <1>1 DEF Inv, Types, Maps, Closing, Ranged, Storing, Returning
<1> QED
  BY <1>3, <1>5, <1>7, <1>8, <1>9, <1>10 DEF Inv

LEMMA CloseInv ==
    ASSUME Inv, NEW c \in Conns, CloseHalf(c, "half", "closed", "close")
    PROVE  Inv'
<1>1. /\ st[c] = "half" /\ st' = [st EXCEPT ![c] = "closed"]
      /\ UNCHANGED <<mode, ctx, svc, acc, cur, cons, rawCh, closed, closer,
                     toVisit, raced, conns, keyVars, ep, buf, session,
                     packets>>
  BY DEF CloseHalf, lstVars
<1>2. Types'
  BY <1>1 DEF Inv, Types, Control, Lists, Maps
<1>3. \A d \in Conns : InTable(d)' => InTable(d)
  BY <1>1 DEF Inv, Types, Maps, InTable
<1>4. Addressed'
  BY <1>1, <1>3 DEF Inv, Types, Maps, Addressed
<1>5. Entries'
  BY <1>1 DEF Inv, Types, Maps, Entries, Storing
<1>6. Owners' /\ KeyKnown'
  BY <1>1
  DEF Inv, Types, Maps, Owners, OneOwner, Owned, InRawCh, KeyKnown,
      Authenticated
<1>7. Closing' /\ Returning'
  BY <1>1 DEF Inv, Types, Maps, Closing, Ranged, Storing, Returning
<1> QED
  BY <1>2, <1>4, <1>5, <1>6, <1>7 DEF Inv

LEMMA ConnCloseInv ==
    ASSUME Inv, NEW c \in Conns, ConnClose(c)
    PROVE  Inv'
BY Order, ForgetInv, CloseInv DEF ConnClose

(***************************************************************************)
(* The accept loop                                                         *)
(***************************************************************************)
LEMMA AcceptConnInv ==
    ASSUME Inv, NEW c \in Conns, AcceptConn(c)
    PROVE  Inv'
<1>1. /\ acc = "accept" /\ acc' = "store" /\ cur = NoConn /\ cur' = c
      /\ st[c] = "queued" /\ st' = [st EXCEPT ![c] = "open"] /\ closer # "done"
      /\ UNCHANGED <<mode, ctx, svc, cons, rawCh, closed, closer, toVisit,
                     raced, conns, keyVars, ep, buf, session, packets>>
  BY DEF AcceptConn, InnerClosed, lstVars, Inv, Types, Control
<1>2. ~Owned(c)
  BY <1>1 DEF Inv, Owners
<1>3. Types'
  BY <1>1, Known DEF Inv, Types, Control, Lists, Maps
<1>4. Addressed'
  BY <1>1 DEF Inv, Types, Maps, Addressed, InTable
<1>5. Entries'
  BY <1>1 DEF Inv, Types, Maps, Entries, Storing
<1>6. Owners'
  BY <1>1, <1>2 DEF Inv, Types, Maps, Owners, OneOwner, Owned, InRawCh
<1>7. KeyKnown'
  <2>1. ~Authenticated(c)'
    BY <1>1, <1>2 DEF Owned, Authenticated, InRawCh
  <2>2. \A d \in Conns : d # c /\ Authenticated(d)' => Authenticated(d)
    BY <1>1 DEF Authenticated, InRawCh
  <2> QED
    BY <1>1, <2>1, <2>2 DEF Inv, Types, Maps, KeyKnown
<1>8. Closing' /\ Returning'
  BY <1>1 DEF Inv, Types, Maps, Closing, Ranged, Storing, Returning
<1> QED
  BY <1>3, <1>4, <1>5, <1>6, <1>7, <1>8 DEF Inv

LEMMA StoreConnInv ==
    ASSUME Inv, StoreConn
    PROVE  Inv'
<1>1. /\ acc = "store" /\ acc' = "read" /\ cur \in Conns /\ st[cur] = "open"
      /\ conns' = [conns EXCEPT ![ep[cur]] = cur]
      /\ raced' = IF Ranged THEN raced \cup {cur} ELSE raced
      /\ UNCHANGED <<mode, ctx, svc, cur, cons, rawCh, closed, closer, toVisit,
                     keyVars, ep, st, buf, session, packets>>
  BY DEF StoreConn, Ranged, Inv, Types, Control, Entries
<1>2. ep[cur] \in Endpoints
  BY <1>1, Known DEF Inv, Addressed
<1>3. Types'
  BY <1>1 DEF Inv, Types, Control, Lists, Maps
<1>4. Addressed'
  BY <1>1 DEF Inv, Addressed, InTable
<1>5. \A d \in Conns :
          d # cur /\ st[d] \in {"open", "closing"} => ep[d] # ep[cur]
  BY <1>1 DEF Inv, Addressed, InTable
<1>6. Entries'
  BY <1>1, <1>2, <1>5, Known DEF Inv, Types, Maps, Entries, Storing
<1>7. Owners' /\ KeyKnown'
  BY <1>1
  DEF Inv, Owners, OneOwner, Owned, InRawCh, KeyKnown, Authenticated
<1>8. Closing' /\ Returning'
  BY <1>1 DEF Inv, Closing, Ranged, Storing, Returning
<1> QED
  BY <1>3, <1>4, <1>6, <1>7, <1>8 DEF Inv

(* The loop drops what it read, or turns to the next connection.           *)
LEMMA TurnInv ==
    ASSUME Inv, AcceptFails \/ ReadFails \/ ReadBad \/ Dropped
    PROVE  Inv'
<1>1. /\ acc \notin {"store", "stopped"} /\ acc' # "store"
      /\ UNCHANGED <<mode, ctx, svc, cons, rawCh, closed, closer, toVisit,
                     raced, conns, keyVars, ep, st, session, packets>>
  BY DEF AcceptFails, ReadFails, ReadBad, Dropped, lstVars, connVars
<1>2. \/ acc' = acc /\ cur' = cur
      \/ acc' = "stopped" /\ cur' = cur /\ cur = NoConn
      \/ acc' = "accept" /\ cur' = NoConn /\ st[cur] = "closed"
  BY DEF AcceptFails, ReadFails, ReadBad, Dropped, Inv, Types, Control
<1>3. Types'
  <2>1. buf' \in [Conns -> Kinds \cup {"empty"}]
    BY DEF AcceptFails, ReadFails, ReadBad, Dropped, connVars, Inv, Types, Maps
  <2> QED
    BY <1>1, <1>2, <2>1 DEF Inv, Types, Control, Lists, Maps
<1>4. Addressed' /\ Entries'
  BY <1>1, <1>2 DEF Inv, Addressed, InTable, Entries, Storing
<1>5. Owners' /\ KeyKnown'
  BY <1>1, <1>2, Known
  DEF Inv, Owners, OneOwner, Owned, InRawCh, KeyKnown, Authenticated
<1>6. Closing' /\ Returning'
  BY <1>1, <1>2, Known DEF Inv, Closing, Ranged, Storing, Returning
<1> QED
  BY <1>3, <1>4, <1>5, <1>6 DEF Inv

(* A key that is recorded is that of the address's own connection, or the  *)
(* address counts as overtaken.                                            *)
LEMMA RecordKnown ==
    ASSUME Inv, NEW c \in Conns, NEW k \in Keys \cup {NoKey},
           ep[c] \in Endpoints, Record(c, k)
    PROVE  /\ selected' \in [Endpoints -> Keys \cup {NoKey}]
           /\ overtaken' \subseteq Endpoints
           /\ \A d \in Conns : st[d] = "open" /\ ~Storing(d) =>
                  IF d = c THEN selected'[ep[d]] = k
                  ELSE ep[d] \in overtaken'
                       \/ /\ selected'[ep[d]] = selected[ep[d]]
                          /\ ep[d] \notin overtaken
<1>1. /\ selected' = [selected EXCEPT ![ep[c]] = k]
      /\ overtaken' = IF conns[ep[c]] = c THEN overtaken \ {ep[c]}
                      ELSE overtaken \cup {ep[c]}
  BY DEF Record
<1>2. /\ selected' \in [Endpoints -> Keys \cup {NoKey}]
      /\ overtaken' \subseteq Endpoints
  BY <1>1 DEF Inv, Types, Maps
<1>3. ASSUME NEW d \in Conns, st[d] = "open", ~Storing(d)
      PROVE  IF d = c THEN selected'[ep[d]] = k
             ELSE ep[d] \in overtaken'
                  \/ /\ selected'[ep[d]] = selected[ep[d]]
                     /\ ep[d] \notin overtaken
  <2>1. conns[ep[d]] = d /\ ep[d] \in Endpoints
    BY <1>3, Known DEF Inv, Entries, Addressed
  <2> QED
    BY <1>1, <2>1 DEF Inv, Types, Maps
<1> QED
  BY <1>2, <1>3

(* The first payload selects the key of the connection.                    *)
LEMMA ReadFirstInv ==
    ASSUME Inv, ReadFirst
    PROVE  Inv'
<1>1. /\ acc = "read" /\ acc' \in {"offer", "handoff"}
      /\ buf' = [buf EXCEPT ![cur] = "empty"]
      /\ UNCHANGED <<mode, ctx, svc, cur, cons, rawCh, closed, closer, toVisit,
                     raced, conns, storing, ep, st, session, packets>>
  BY DEF ReadFirst, lstVars
<1>2. cur \in Conns /\ ep[cur] \in Endpoints
  BY <1>1, Known DEF Inv, Types, Control, Owned
<1>3. PICK k \in Keys : key' = [key EXCEPT ![cur] = k] /\ Record(cur, k)
  BY DEF ReadFirst
<1>4. /\ selected' \in [Endpoints -> Keys \cup {NoKey}]
      /\ overtaken' \subseteq Endpoints
      /\ \A d \in Conns : st[d] = "open" /\ ~Storing(d) =>
             IF d = cur THEN selected'[ep[d]] = k
             ELSE ep[d] \in overtaken'
                  \/ /\ selected'[ep[d]] = selected[ep[d]]
                     /\ ep[d] \notin overtaken
  BY <1>2, <1>3, RecordKnown
<1>5. Types'
  BY <1>1, <1>2, <1>3, <1>4 DEF Inv, Types, Control, Lists, Maps
<1>6. Addressed' /\ Entries'
  BY <1>1 DEF Inv, Addressed, InTable, Entries, Storing
<1>7. Owners'
  BY <1>1 DEF Inv, Owners, OneOwner, Owned, InRawCh
<1>8. KeyKnown'
  <2>1. \A d \in Conns : d # cur /\ Authenticated(d)' => Authenticated(d)
    BY <1>1 DEF Authenticated, InRawCh
  <2>2. /\ key'[cur] = k
        /\ \A d \in Conns : d # cur => key'[d] = key[d]
    BY <1>2, <1>3 DEF Inv, Types, Maps
  <2>3. \A d \in Conns : ~Storing(d)
    BY <1>1 DEF Storing
  <2>4. ASSUME NEW d \in Conns,
               Authenticated(d)', st[d] = "open", d \notin storing
        PROVE  selected'[ep[d]] = key'[d] \/ ep[d] \in overtaken'
    BY <1>4, <2>1, <2>2, <2>3, <2>4 DEF Inv, KeyKnown
  <2> QED
    BY <1>1, <2>4 DEF Inv, KeyKnown
<1>9. Closing' /\ Returning'
  BY <1>1 DEF Inv, Closing, Ranged, Storing, Returning
<1> QED
  BY <1>5, <1>6, <1>7, <1>8, <1>9 DEF Inv

(* The connection goes from the accept loop to the end of rawCh.           *)
LEMMA OfferRawInv ==
    ASSUME Inv, OfferRaw
    PROVE  Inv'
<1>1. /\ acc = "offer" /\ acc' = "accept" /\ cur \in Conns /\ cur' = NoConn
      /\ rawCh \in Seq(Conns) /\ Len(rawCh) < RawCap
      /\ rawCh' = Append(rawCh, cur)
      /\ UNCHANGED <<mode, ctx, svc, cons, closed, closer, toVisit, raced,
                     conns, keyVars, ep, st, buf, session, packets>>
  BY DEF OfferRaw, RoomInRawCh, NextLabel, connVars, Inv, Types, Control, Lists
<1>2. /\ Len(rawCh) \in Nat /\ Len(rawCh') = Len(rawCh) + 1
      /\ \A i \in 1 .. Len(rawCh') :
             rawCh'[i] = IF i \in 1 .. Len(rawCh) THEN rawCh[i] ELSE cur
  BY <1>1
<1>3. Types'
  BY <1>1, BoundAssumption DEF Inv, Types, Control, Lists, Maps
<1>4. Addressed' /\ Entries'
  BY <1>1 DEF Inv, Addressed, InTable, Entries, Storing
<1>5. Owners'
  <2>1. \A i, j \in 1 .. Len(rawCh') : rawCh'[i] = rawCh'[j] => i = j
    BY <1>2 DEF Inv, Owners, OneOwner
  <2>2. \A i \in 1 .. Len(rawCh') :
            rawCh'[i] # NoConn /\ session[rawCh'[i]] = "none"
    BY <1>1, <1>2, Known DEF Inv, Owners, OneOwner
  <2>3. \A c \in Conns : Owned(c)' => Owned(c)
    BY <1>1, <1>2, Known DEF Owned, InRawCh
  <2> QED
    BY <1>1, <2>1, <2>2, <2>3 DEF Inv, Owners, OneOwner
<1>6. KeyKnown'
  BY <1>1, <1>2, Known DEF Inv, KeyKnown, Authenticated, InRawCh
<1>7. Closing' /\ Returning'
  BY <1>1 DEF Inv, Closing, Ranged, Storing, Returning
<1> QED
  BY <1>3, <1>4, <1>5, <1>6, <1>7 DEF Inv

(* The loop closes the connection it holds, and waits for it.              *)
LEMMA DropInv ==
    ASSUME Inv, acc \in {"offer", "handoff"}, acc' = "drop", BeginClose(cur),
           UNCHANGED <<mode, ctx, svc, cur, cons, rawCh, closed, closer,
                       toVisit, raced, conns, keyVars, ep, buf, session,
                       packets>>
    PROVE  Inv'
<1>1. /\ cur \in Conns
      /\ st' = IF st[cur] = "open" THEN [st EXCEPT ![cur] = "closing"] ELSE st
  BY DEF BeginClose, Inv, Types, Control
<1>2. Types'
  BY <1>1 DEF Inv, Types, Control, Lists, Maps
<1>3. Addressed'
  BY <1>1 DEF Inv, Types, Maps, Addressed, InTable
<1>4. Entries'
  BY <1>1 DEF Inv, Types, Maps, Entries, Storing
<1>5. Owners' /\ KeyKnown'
  BY <1>1
  DEF Inv, Types, Maps, Owners, OneOwner, Owned, InRawCh, KeyKnown,
      Authenticated
<1>6. Closing' /\ Returning'
  BY <1>1 DEF Inv, Types, Maps, Closing, Ranged, Storing, Returning
<1> QED
  BY <1>2, <1>3, <1>4, <1>5, <1>6 DEF Inv

LEMMA HandOffInv ==
    ASSUME Inv, HandOff
    PROVE  Inv'
<1>1. CASE mode = "raw"
  BY <1>1, DropInv DEF HandOff, lstVars
<1>2. CASE mode # "raw"
  <2>1. /\ acc = "handoff" /\ acc' = "accept" /\ cur \in Conns /\ cur' = NoConn
        /\ session[cur] = "none" /\ session' = [session EXCEPT ![cur] = "wg"]
        /\ UNCHANGED <<mode, ctx, svc, cons, rawCh, closed, closer, toVisit,
                       raced, conns, keyVars, ep, st, buf, packets>>
    BY <1>2 DEF HandOff, lstVars, Inv, Types, Control, Owners, OneOwner
  <2>2. Types'
    BY <2>1 DEF Inv, Types, Control, Lists, Maps
  <2>3. Addressed' /\ Entries'
    BY <2>1 DEF Inv, Addressed, InTable, Entries, Storing
  <2>4. Owners'
    BY <2>1, Known DEF Inv, Types, Maps, Owners, OneOwner, Owned, InRawCh
  <2>5. KeyKnown'
    BY <2>1 DEF Inv, Types, Maps, KeyKnown, Authenticated, InRawCh
  <2>6. Closing' /\ Returning'
    BY <2>1 DEF Inv, Types, Maps, Closing, Ranged, Storing, Returning
  <2> QED
    BY <2>2, <2>3, <2>4, <2>5, <2>6 DEF Inv
<1> QED
  BY <1>1, <1>2

LEMMA AcceptorInv ==
    ASSUME Inv, Acceptor
    PROVE  Inv'
<1>1. CASE DropRaw
  BY <1>1, DropInv DEF DropRaw, lstVars
<1> QED
  BY <1>1, AcceptConnInv, StoreConnInv, TurnInv, ReadFirstInv, OfferRawInv,
     HandOffInv
  DEF Acceptor

(***************************************************************************)
(* The sessions                                                            *)
(***************************************************************************)
(* The connection goes from the head of rawCh to a session.                *)
LEMMA TakeRawInv ==
    ASSUME Inv, TakeRaw
    PROVE  Inv'
<1>1. /\ cons = "take" /\ rawCh \in Seq(Conns) /\ rawCh # <<>>
      /\ rawCh' = Tail(rawCh)
      /\ session' = [session EXCEPT ![rawCh[1]] = "raw"]
      /\ UNCHANGED <<mode, ctx, svc, acc, cur, cons, closed, closer, toVisit,
                     raced, conns, keyVars, ep, st, buf, packets>>
  BY DEF TakeRaw, connVars, Inv, Types, Lists
<1>2. /\ Len(rawCh) \in Nat /\ 1 \in 1 .. Len(rawCh)
      /\ Len(rawCh') = Len(rawCh) - 1
      /\ \A i \in 1 .. Len(rawCh') :
             i + 1 \in 1 .. Len(rawCh) /\ rawCh'[i] = rawCh[i + 1]
  BY <1>1
<1>3. /\ rawCh[1] \in Conns /\ rawCh[1] # cur /\ session[rawCh[1]] = "none"
      /\ \A i \in 1 .. Len(rawCh') : rawCh'[i] # rawCh[1]
  BY <1>2, Known DEF Inv, Owners, OneOwner
<1>4. Types'
  <2>1. rawCh' \in Seq(Conns)
    BY <1>1
  <2> QED
    BY <1>1, <1>2, <1>3, <2>1, BoundAssumption
    DEF Inv, Types, Control, Lists, Maps
<1>5. Addressed' /\ Entries'
  BY <1>1 DEF Inv, Addressed, InTable, Entries, Storing
<1>6. Owners'
  <2>1. OneOwner'
    BY <1>1, <1>2, <1>3, Known DEF Inv, Types, Maps, Owners, OneOwner
  <2>2. \A c \in Conns : Owned(c)' => Owned(c)
    BY <1>1, <1>2, <1>3 DEF Inv, Types, Maps, Owned, InRawCh
  <2> QED
    BY <1>1, <1>3, <2>1, <2>2 DEF Inv, Types, Maps, Owners
<1>7. KeyKnown'
  BY <1>1, <1>2, <1>3 DEF Inv, Types, Maps, KeyKnown, Authenticated, InRawCh
<1>8. Closing' /\ Returning'
  BY <1>1, <1>3 DEF Inv, Types, Maps, Closing, Ranged, Storing, Returning
<1> QED
  BY <1>4, <1>5, <1>6, <1>7, <1>8 DEF Inv

(* A packet under another key: the reader changes the connection's key.    *)
LEMMA NewKeyInv ==
    ASSUME Inv, NEW c \in Conns, NEW k \in Keys, NewKey(c, k)
    PROVE  Inv'
<1>1. /\ session[c] \in {"wg", "raw"}
      /\ packets < MaxPackets /\ packets' = packets + 1
      /\ key' = [key EXCEPT ![c] = k] /\ storing' = storing \cup {c}
      /\ UNCHANGED <<mode, ctx, svc, acc, cur, cons, rawCh, closed, closer,
                     toVisit, raced, conns, selected, overtaken, ep, st, buf,
                     session>>
  BY DEF NewKey, lstVars
<1>2. Types'
  BY <1>1, BoundAssumption DEF Inv, Types, Control, Lists, Maps
<1>3. Addressed' /\ Entries'
  BY <1>1 DEF Inv, Addressed, InTable, Entries, Storing
<1>4. Owners'
  BY <1>1 DEF Inv, Owners, OneOwner, Owned, InRawCh
<1>5. KeyKnown'
  BY <1>1 DEF Inv, Types, Maps, KeyKnown, Authenticated, InRawCh
<1>6. Closing' /\ Returning'
  BY <1>1 DEF Inv, Closing, Ranged, Storing, Returning
<1> QED
  BY <1>2, <1>3, <1>4, <1>5, <1>6 DEF Inv

(* The reader records the new key, in time or overtaken.                   *)
LEMMA RecordNewKeyInv ==
    ASSUME Inv, NEW c \in Conns, RecordNewKey(c)
    PROVE  Inv'
<1>1. /\ c \in storing /\ Record(c, key[c]) /\ storing' = storing \ {c}
      /\ UNCHANGED <<mode, ctx, svc, acc, cur, cons, rawCh, closed, closer,
                     toVisit, raced, conns, key, ep, st, buf, session,
                     packets>>
  BY DEF RecordNewKey, lstVars
<1>2. ep[c] \in Endpoints /\ key[c] \in Keys \cup {NoKey} /\ c # cur
  BY <1>1, Known DEF Inv, Types, Maps, KeyKnown, Owned, Owners, OneOwner
<1>3. /\ selected' \in [Endpoints -> Keys \cup {NoKey}]
      /\ overtaken' \subseteq Endpoints
      /\ \A d \in Conns : st[d] = "open" /\ ~Storing(d) =>
             IF d = c THEN selected'[ep[d]] = key[c]
             ELSE ep[d] \in overtaken'
                  \/ /\ selected'[ep[d]] = selected[ep[d]]
                     /\ ep[d] \notin overtaken
  <2>1. Record(c, key[c])
    BY <1>1
  <2> QED
    BY <1>2, <2>1, RecordKnown
<1>4. Types'
  BY <1>1, <1>3 DEF Inv, Types, Control, Lists, Maps
<1>5. Addressed' /\ Entries'
  BY <1>1 DEF Inv, Addressed, InTable, Entries, Storing
<1>6. Owners'
  BY <1>1 DEF Inv, Owners, OneOwner, Owned, InRawCh
<1>7. KeyKnown'
  <2>1. \A d \in Conns : Authenticated(d)' = Authenticated(d)
    BY <1>1 DEF Authenticated, InRawCh
  <2>2. \A d \in Conns : Authenticated(d) => ~Storing(d)
    BY Known
    DEF Inv, Owners, OneOwner, Authenticated, Storing, InRawCh, Types, Control
  <2>3. ASSUME NEW d \in Conns, Authenticated(d), st[d] = "open",
               d \notin storing \ {c}
        PROVE  selected'[ep[d]] = key[d] \/ ep[d] \in overtaken'
    BY <1>3, <2>2, <2>3 DEF Inv, KeyKnown
  <2> QED
    BY <1>1, <2>1, <2>3 DEF Inv, KeyKnown
<1>8. Closing' /\ Returning'
  BY <1>1 DEF Inv, Closing, Ranged, Storing, Returning
<1> QED
  BY <1>4, <1>5, <1>6, <1>7, <1>8 DEF Inv

LEMMA EndSessionInv ==
    ASSUME Inv, NEW c \in Conns, EndSession(c)
    PROVE  Inv'
<1>1. /\ session[c] \in {"wg", "raw"}
      /\ session' = [session EXCEPT ![c] = "ending"]
      /\ st' = IF st[c] = "open" THEN [st EXCEPT ![c] = "closing"] ELSE st
      /\ UNCHANGED <<mode, ctx, svc, acc, cur, cons, rawCh, closed, closer,
                     toVisit, raced, conns, keyVars, ep, buf, packets>>
  BY DEF EndSession, BeginClose, lstVars
<1>2. c # cur /\ ~InRawCh(c)
  BY <1>1, Known DEF Inv, Owners, OneOwner, InRawCh
<1>3. Types'
  BY <1>1 DEF Inv, Types, Control, Lists, Maps
<1>4. Addressed'
  BY <1>1 DEF Inv, Types, Maps, Addressed, InTable
<1>5. Entries'
  BY <1>1, <1>2 DEF Inv, Types, Maps, Entries, Storing
<1>6. Owners' /\ KeyKnown'
  BY <1>1, <1>2
  DEF Inv, Types, Maps, Owners, OneOwner, Owned, InRawCh, KeyKnown,
      Authenticated
<1>7. Closing' /\ Returning'
  BY <1>1 DEF Inv, Types, Maps, Closing, Ranged, Storing, Returning
<1> QED
  BY <1>3, <1>4, <1>5, <1>6, <1>7 DEF Inv

LEMMA SessionDoneInv ==
    ASSUME Inv, NEW c \in Conns, SessionDone(c)
    PROVE  Inv'
<1>1. /\ session[c] = "ending" /\ st[c] = "closed"
      /\ session' = [session EXCEPT ![c] = "done"]
      /\ UNCHANGED <<mode, ctx, svc, acc, cur, cons, rawCh, closed, closer,
                     toVisit, raced, conns, keyVars, ep, st, buf, packets>>
  BY DEF SessionDone, lstVars, connVars
<1>2. Types'
  BY <1>1 DEF Inv, Types, Control, Lists, Maps
<1>3. Addressed' /\ Entries'
  BY <1>1 DEF Inv, Addressed, InTable, Entries, Storing
<1>4. Owners' /\ KeyKnown'
  BY <1>1
  DEF Inv, Types, Maps, Owners, OneOwner, Owned, InRawCh, KeyKnown,
      Authenticated
<1>5. Closing' /\ Returning'
  BY <1>1 DEF Inv, Types, Maps, Closing, Ranged, Storing, Returning
<1> QED
  BY <1>2, <1>3, <1>4, <1>5 DEF Inv

(***************************************************************************)
(* The shutdown                                                            *)
(***************************************************************************)
(* Close leaves no connection open that is in the map.                     *)
LEMMA CloseTrackedInv ==
    ASSUME Inv, CloseTracked
    PROVE  Inv'
<1>1. /\ toVisit = {} /\ toVisit' = Tracked
      /\ closer = "visit" /\ closer' = "range"
      /\ UNCHANGED <<mode, ctx, svc, acc, cur, cons, rawCh, closed, raced,
                     conns, keyVars, ep, buf, session, packets>>
  BY DEF CloseTracked, Inv, Closing, Ranged
<1>2. \A c \in Conns : st[c] = "open" /\ ~Storing(c) => c \in Tracked
  <2> SUFFICES ASSUME NEW c \in Conns, st[c] = "open", ~Storing(c)
               PROVE  c \in Tracked
    OBVIOUS
  <2>1. conns[ep[c]] = c
    BY DEF Inv, Entries
  <2>2. ep[c] \in Endpoints
    BY Known DEF Inv, Addressed
  <2> QED
    BY <2>1, <2>2 DEF Tracked
<1>3. st' = [c \in Conns |->
               IF c \in Tracked /\ st[c] = "open" THEN "closing" ELSE st[c]]
  BY DEF CloseTracked
<1>4. \A c \in Conns : c \in Tracked => ~Storing(c)
  BY Known DEF Tracked, Inv, Entries
<1>5. Types'
  BY <1>1, <1>3 DEF Inv, Types, Control, Lists, Maps, Tracked
<1>6. Addressed'
  BY <1>1, <1>3 DEF Inv, Addressed, InTable
<1>7. Entries'
  BY <1>1, <1>3, <1>4 DEF Inv, Types, Control, Maps, Entries, Storing
<1>8. Owners' /\ KeyKnown'
  BY <1>1, <1>3
  DEF Inv, Owners, OneOwner, Owned, InRawCh, KeyKnown, Authenticated
<1>9. Closing' /\ Returning'
  BY <1>1, <1>2, <1>3 DEF Inv, Closing, Ranged, Storing, Returning
<1> QED
  BY <1>5, <1>6, <1>7, <1>8, <1>9 DEF Inv

LEMMA CloseInnerInv ==
    ASSUME Inv, CloseInner
    PROVE  Inv'
<1>1. /\ closer = "inner" /\ closer' = "done"
      /\ st' = [c \in Conns |-> IF st[c] = "queued" THEN "closed" ELSE st[c]]
      /\ UNCHANGED <<mode, ctx, svc, acc, cur, cons, rawCh, closed, toVisit,
                     raced, conns, keyVars, ep, buf, session, packets>>
  BY DEF CloseInner
<1>2. Types'
  BY <1>1 DEF Inv, Types, Control, Lists, Maps
<1>3. Addressed'
  BY <1>1 DEF Inv, Addressed, InTable
<1>4. Entries'
  BY <1>1 DEF Inv, Types, Control, Maps, Entries, Storing
<1>5. Owners' /\ KeyKnown'
  BY <1>1
  DEF Inv, Owners, OneOwner, Owned, InRawCh, KeyKnown, Authenticated
<1>6. Closing' /\ Returning'
  BY <1>1 DEF Inv, Types, Control, Closing, Ranged, Storing, Returning
<1> QED
  BY <1>2, <1>3, <1>4, <1>5, <1>6 DEF Inv

(* The other steps of the shutdown leave the connections alone.            *)
LEMMA ShutdownInv ==
    ASSUME Inv, \/ StopTaking \/ CloseSignal \/ TrackedClosed \/ Cancel
                \/ DTLSBindFails \/ Service
    PROVE  Inv'
<1>1. UNCHANGED <<mode, acc, cur, rawCh, toVisit, raced, conns, keyVars, ep,
                  st, buf, session, packets>>
  BY DEF StopTaking, CloseSignal, TrackedClosed, Cancel, DTLSBindFails, Service,
         StartWaits, StartReturns, lstVars, connVars
<1>2. Types'
  <2>1. /\ ctx' \in BOOLEAN /\ closed' \in BOOLEAN
        /\ svc' \in {"serving", "failing", "waiting", "returned"}
        /\ cons' \in {"none", "take", "stopped"}
        /\ closer' \in {"idle", "visit", "range", "inner", "done"}
    BY DEF StopTaking, CloseSignal, TrackedClosed, Cancel, DTLSBindFails,
           Service, StartWaits, StartReturns, lstVars, Inv, Types, Control
  <2> QED
    BY <1>1, <2>1 DEF Inv, Types, Control, Lists, Maps
<1>3. Addressed' /\ Entries'
  BY <1>1 DEF Inv, Addressed, InTable, Entries, Storing
<1>4. Owners' /\ KeyKnown'
  BY <1>1
  DEF Inv, Owners, OneOwner, Owned, InRawCh, KeyKnown, Authenticated
<1>5. CASE closer' = closer
  <2>1. Closing'
    BY <1>1, <1>5 DEF Inv, Closing, Ranged, Storing
  <2>2. Returning'
    BY <1>1, <1>5
    DEF StopTaking, CloseSignal, TrackedClosed, Cancel, DTLSBindFails, Service,
        StartWaits, StartReturns, Inv, Types, Control, Returning
  <2> QED
    BY <1>2, <1>3, <1>4, <2>1, <2>2 DEF Inv
<1>6. CASE closer' # closer
  <2>1. /\ CloseSignal \/ TrackedClosed
        /\ closer # "done" /\ UNCHANGED svc
    BY <1>6 DEF StopTaking, CloseSignal, TrackedClosed, Cancel, DTLSBindFails,
                Service, StartWaits, StartReturns, lstVars
  <2>2. Closing' /\ Returning'
    BY <1>1, <2>1
    DEF CloseSignal, TrackedClosed, Inv, Closing, Ranged, Storing, Returning
  <2> QED
    BY <1>2, <1>3, <1>4, <2>2 DEF Inv
<1> QED
  BY <1>5, <1>6

(***************************************************************************)
(* The theorems                                                            *)
(***************************************************************************)
LEMMA StepInv == Inv /\ [Next]_vars => Inv'
<1> SUFFICES ASSUME Inv, [Next]_vars PROVE Inv'
  OBVIOUS
<1>1. CASE UNCHANGED vars
  <2>1. UNCHANGED <<mode, ctx, svc, acc, cur, cons, rawCh, closed, closer,
                    toVisit, raced, conns, keyVars, ep, st, buf, session,
                    packets>>
    BY <1>1 DEF vars, lstVars, connVars
  <2>2. Types' /\ Addressed' /\ Entries'
    BY <2>1 DEF Inv, Types, Control, Lists, Maps, Addressed, InTable, Entries,
                Storing
  <2>3. Owners' /\ KeyKnown'
    BY <2>1
    DEF Inv, Owners, OneOwner, Owned, InRawCh, KeyKnown, Authenticated
  <2>4. Closing' /\ Returning'
    BY <2>1 DEF Inv, Closing, Ranged, Storing, Returning
  <2> QED
    BY <2>2, <2>3, <2>4 DEF Inv
<1>2. ASSUME NEW c \in Conns, NEW k \in Kinds, Packet(c, k) PROVE Inv'
  BY <1>2, PacketInv
<1>3. ASSUME NEW c \in Conns,
             \/ ConnClose(c) \/ ClientLeaves(c)
             \/ ShutdownReaches(c) \/ SessionDone(c) \/ RecordNewKey(c)
      PROVE  Inv'
  BY <1>3, ConnCloseInv, EndSessionInv, SessionDoneInv, RecordNewKeyInv
  DEF ClientLeaves, ShutdownReaches
<1>4. CASE Closer
  BY <1>4, ShutdownInv, CloseTrackedInv, CloseInnerInv DEF Closer
<1>5. CASE Acceptor \/ TakeRaw
  BY <1>5, AcceptorInv, TakeRawInv
<1>6. CASE StopTaking \/ Cancel \/ DTLSBindFails \/ Service
  BY <1>6, ShutdownInv
<1>7. ASSUME NEW c \in Conns, NEW k \in Keys, NewKey(c, k) PROVE Inv'
  BY <1>7, NewKeyInv
<1> QED
  BY <1>1, <1>2, <1>3, <1>4, <1>5, <1>6, <1>7 DEF Next

LEMMA Invariance == Spec => []Inv
BY InitInv, StepInv, PTL DEF Spec

(* Besides the types: a connection that Accept has stored is the one that  *)
(* listener.Close finds under its address, until its own Close, whatever   *)
(* came from that address before (wrap_listener.go:308).                   *)
THEOREM TransportTypeCorrect == Spec => []TypeOK
<1>1. Inv => TypeOK
  BY DEF Inv, Types, Control, Lists, Maps, Entries, Storing, TypeOK
<1> QED
  BY <1>1, Invariance, PTL

(* The profile recorded for the address of a live session is that of the   *)
(* key its own connection was authenticated with last, unless an older     *)
(* connection of that address recorded a new key behind its own Close      *)
(* (wrap_listener.go:277).                                                 *)
THEOREM ProfilesAreFound == Spec => []SessionFindsItsProfile
<1>1. Inv => SessionFindsItsProfile
  BY DEF Inv, KeyKnown, Authenticated, SessionFindsItsProfile
<1> QED
  BY <1>1, Invariance, PTL

(* The accept loop, rawCh and the sessions never hold one connection both. *)
THEOREM OwnersAreUnique == Spec => []OneOwner
<1>1. Inv => OneOwner
  BY DEF Inv, Owners
<1> QED
  BY <1>1, Invariance, PTL

(* When Start returns the sockets are released, save those of connections  *)
(* stored behind the walk of Close (service.go:88).                        *)
THEOREM SocketsAreReleased == Spec => []ReturnReleasesSockets
<1>1. Inv => ReturnReleasesSockets
  BY DEF Inv, Types, Control, Closing, Ranged, Storing, Returning, InTable,
         ReturnReleasesSockets
<1> QED
  BY <1>1, Invariance, PTL
=============================================================================
