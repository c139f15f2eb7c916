------------------------------ MODULE Transport ------------------------------
(***************************************************************************)
(* One transport instance around one wrapped UDP listener: its accept      *)
(* loop, its RAW channel and the loop that empties it, the sessions, and   *)
(* the shutdown (wrap_listener.go, and Start, serveProfiles, startRaw and  *)
(* startRawOnListener of service.go and raw.go).                           *)
(*                                                                         *)
(* The listener is used in one of three ways, fixed by Server.RawPort:     *)
(*   shared    the one port: DTLS and RAW endpoints come through it        *)
(*   dtls      the DTLS port when RAW has a port of its own, or none       *)
(*   raw       that RAW port                                               *)
(* A packet is bad (no key unwraps it), or its payload is a RAW command or *)
(* anything else, taken for DTLS.  A connection is what the UDP library    *)
(* creates for a remote endpoint it has no connection for.                 *)
(***************************************************************************)
EXTENDS Integers, Sequences

CONSTANTS Endpoints,   \* remote UDP addresses
          Keys,        \* the WRAP keys, each of one profile
          RawCap,      \* capacity of rawCh (64)
          MaxConns,    \* bound: connections the UDP library creates
          MaxPackets   \* bound: packets received

ASSUME BoundAssumption ==
    RawCap \in Nat /\ MaxConns \in Nat /\ MaxPackets \in Nat

VARIABLES
    mode,       \* "shared", "dtls" or "raw"
    ctx,        \* the instance's context is cancelled
    svc,        \* Service.Start: serving, failing, waiting, returned
    acc, cur,   \* the accept loop and the connection in its hands
    cons,       \* the loop around AcceptRaw
    rawCh, closed,    \* the listener's channels
    closer, toVisit,  \* listener.Close and the connections its Range visits
    conns, selected,  \* the listener's maps, by address: connection, key
    key,        \* per connection: the key its last packet came under
    storing,    \* connections whose reader has yet to record a new key
    ep,               \* the connections' addresses, in order of creation
    st, buf,          \* per connection: state, the packet to read
    session,          \* per connection: the session that owns it
    packets,          \* the bound's counter
    raced,      \* auxiliary: connections stored after Close began its Range
    overtaken   \* auxiliary: addresses whose key was recorded last by a
                \* connection that the map no longer held

lstVars  == <<rawCh, closed, closer, toVisit, raced>>
keyVars  == <<selected, key, storing, overtaken>>
connVars == <<conns, keyVars, ep, st, buf>>
vars == <<mode, ctx, svc, acc, cur, cons, lstVars, connVars, session, packets>>

Conns == 1 .. MaxConns
NoConn == 0
NoKey == "none"
Kinds == {"bad", "raw", "dtls"}

Init ==
    /\ mode \in {"shared", "dtls", "raw"}
    /\ ctx = FALSE /\ svc = "serving"
    /\ acc = "accept" /\ cur = NoConn
    (* startRawOnListener may have failed: "raw mode disabled" *)
    /\ cons \in CASE mode = "shared" -> {"take", "none"}
                  [] mode = "dtls"   -> {"none"}
                  [] mode = "raw"    -> {"take"}
    /\ rawCh = <<>> /\ closed = FALSE
    /\ closer = "idle" /\ toVisit = {} /\ raced = {}
    /\ conns = [e \in Endpoints |-> NoConn]
    /\ selected = [e \in Endpoints |-> NoKey]
    /\ key = [c \in Conns |-> NoKey]
    /\ storing = {} /\ overtaken = {}
    /\ ep = <<>>
    /\ st = [c \in Conns |-> "none"]
    /\ buf = [c \in Conns |-> "empty"]
    /\ session = [c \in Conns |-> "none"]
    /\ packets = 0

(***************************************************************************)
(* wrappedConn.Close: two operations, in this order                        *)
(***************************************************************************)
(* Mutant of CloseOrder: the socket is closed first.                       *)
CloseThenForget == <<"close", "forget">>

CloseOrder == <<"forget", "close">>

(* The UDP library still maps the address to connection c.                 *)
InTable(c) ==
    \/ st[c] \in {"queued", "open", "closing"}
    \/ st[c] = "half" /\ CloseOrder[1] = "forget"

BeginClose(c) ==
    st' = IF st[c] = "open" THEN [st EXCEPT ![c] = "closing"] ELSE st

CloseHalf(c, from, to, operation) ==
    /\ st[c] = from
    /\ st' = [st EXCEPT ![c] = to]
    /\ IF operation = "forget"
       THEN /\ selected' = [selected EXCEPT ![ep[c]] = NoKey]
            /\ conns' = [conns EXCEPT ![ep[c]] = NoConn]
       ELSE UNCHANGED <<selected, conns>>
    /\ UNCHANGED <<mode, ctx, svc, acc, cur, cons, lstVars, key, storing,
                   overtaken, ep, buf, session, packets>>

ConnClose(c) ==
    \/ CloseHalf(c, "closing", "half", CloseOrder[1])
    \/ CloseHalf(c, "half", "closed", CloseOrder[2])

(***************************************************************************)
(* The network and the UDP library                                         *)
(***************************************************************************)
InnerClosed == closer = "done"

(* A packet from a known address goes to its connection.  Of what a        *)
(* session reads only a packet under another key matters (NewKey).         *)
Packet(c, kind) ==
    /\ packets < MaxPackets /\ buf[c] = "empty"
    /\ packets' = packets + 1
    /\ \/ /\ \/ st[c] = "queued"
             \/ st[c] = "open" /\ cur = c /\ acc \in {"store", "read"}
          /\ UNCHANGED <<ep, st>>
       \/ \E e \in Endpoints :
             /\ c = Len(ep) + 1 /\ ~InnerClosed
             /\ \A d \in Conns : InTable(d) => ep[d] # e
             /\ ep' = Append(ep, e)
             /\ st' = [st EXCEPT ![c] = "queued"]
    /\ buf' = [buf EXCEPT ![c] = kind]
    /\ UNCHANGED <<mode, ctx, svc, acc, cur, cons, lstVars, conns, keyVars,
                   session>>

(***************************************************************************)
(* wrappedListener.Accept and the loop that calls it                       *)
(***************************************************************************)
AcceptConn(c) ==
    /\ acc = "accept" /\ st[c] = "queued" /\ ~InnerClosed
    /\ acc' = "store" /\ cur' = c
    /\ st' = [st EXCEPT ![c] = "open"]
    /\ UNCHANGED <<mode, ctx, svc, cons, lstVars, conns, keyVars, ep, buf,
                   session, packets>>

(* The library's Accept fails.  serveProfiles goes on unless its context   *)
(* is done; the RAW port's loop returns.                                   *)
AcceptFails ==
    /\ acc = "accept" /\ InnerClosed
    /\ mode = "raw" \/ ctx
    /\ acc' = "stopped"
    /\ UNCHANGED <<mode, ctx, svc, cur, cons, lstVars, connVars, session,
                   packets>>

StoreConn ==
    /\ acc = "store"
    /\ acc' = "read"
    /\ conns' = [conns EXCEPT ![ep[cur]] = cur]
    /\ raced' = IF closer \in {"range", "inner", "done"}
                THEN raced \cup {cur} ELSE raced
    /\ UNCHANGED <<mode, ctx, svc, cur, cons, rawCh, closed, closer, toVisit,
                   keyVars, ep, st, buf, session, packets>>

(* A closed connection still hands out what it had received.               *)
ReadFails ==
    /\ acc = "read" /\ st[cur] = "closed" /\ buf[cur] = "empty"
    /\ acc' = "accept" /\ cur' = NoConn
    /\ UNCHANGED <<mode, ctx, svc, cons, lstVars, connVars, session, packets>>

(* ReadFrom drops what no key unwraps and waits for the next packet.       *)
ReadBad ==
    /\ acc = "read" /\ buf[cur] = "bad"
    /\ buf' = [buf EXCEPT ![cur] = "empty"]
    /\ UNCHANGED <<mode, ctx, svc, acc, cur, cons, lstVars, conns, keyVars,
                   ep, st, session, packets>>

(* onSelected records the key's profile for the address, whoever has it.   *)
Record(c, k) ==
    /\ selected' = [selected EXCEPT ![ep[c]] = k]
    /\ overtaken' = IF conns[ep[c]] = c THEN overtaken \ {ep[c]}
                    ELSE overtaken \cup {ep[c]}

ReadFirst ==
    /\ acc = "read" /\ buf[cur] \in {"raw", "dtls"}
    /\ acc' = IF buf[cur] = "raw" THEN "offer" ELSE "handoff"
    /\ \E k \in Keys : key' = [key EXCEPT ![cur] = k] /\ Record(cur, k)
    /\ buf' = [buf EXCEPT ![cur] = "empty"]
    /\ UNCHANGED <<mode, ctx, svc, cur, cons, lstVars, conns, storing, ep, st,
                   session, packets>>

(* Mutant of NextLabel: the accept loop hands a queued connection on.      *)
NoContinue == "handoff"

(* Accept's loop goes on after it has queued a RAW endpoint.               *)
NextLabel == "accept"

(* Mutant of RoomInRawCh: rawCh is a queue without a limit.                *)
NoLimit == TRUE

RoomInRawCh == Len(rawCh) < RawCap

OfferRaw ==
    /\ acc = "offer" /\ RoomInRawCh
    /\ rawCh' = Append(rawCh, cur)
    /\ acc' = NextLabel
    /\ cur' = IF NextLabel = "accept" THEN NoConn ELSE cur
    /\ UNCHANGED <<mode, ctx, svc, cons, closed, closer, toVisit, raced,
                   connVars, session, packets>>

(* A select takes either of two cases that are ready.                      *)
DropRaw ==
    /\ acc = "offer" /\ closed
    /\ BeginClose(cur)
    /\ acc' = "drop"
    /\ UNCHANGED <<mode, ctx, svc, cur, cons, lstVars, conns, keyVars, ep, buf,
                   session, packets>>

(* Mutant of HandOff: the accept loop handles the session itself.          *)
HandledInLine ==
    /\ acc = "handoff"
    /\ acc' = "drop"
    /\ session' = [session EXCEPT ![cur] = "wg"]
    /\ UNCHANGED <<mode, ctx, svc, cur, cons, lstVars, connVars, packets>>

(* A DTLS connection gets a session; the RAW port's loop closes it.        *)
HandOff ==
    /\ acc = "handoff"
    /\ IF mode = "raw"
       THEN acc' = "drop" /\ BeginClose(cur) /\ UNCHANGED <<cur, session>>
       ELSE /\ acc' = "accept" /\ cur' = NoConn
            /\ session' = [session EXCEPT ![cur] = "wg"] /\ UNCHANGED st
    /\ UNCHANGED <<mode, ctx, svc, cons, lstVars, conns, keyVars, ep, buf,
                   packets>>

(* The accept loop's own call of Close has returned.                       *)
Dropped ==
    /\ acc = "drop" /\ st[cur] = "closed"
    /\ acc' = "accept" /\ cur' = NoConn
    /\ UNCHANGED <<mode, ctx, svc, cons, lstVars, connVars, session, packets>>

Acceptor ==
    \/ \E c \in Conns : AcceptConn(c)
    \/ AcceptFails \/ StoreConn \/ ReadFails \/ ReadBad \/ ReadFirst
    \/ OfferRaw \/ DropRaw \/ HandOff \/ Dropped

(***************************************************************************)
(* The loops around AcceptRaw                                              *)
(***************************************************************************)
TakeRaw ==
    /\ cons = "take" /\ rawCh # <<>>
    /\ session' = [session EXCEPT ![Head(rawCh)] = "raw"]
    /\ rawCh' = Tail(rawCh)
    /\ UNCHANGED <<mode, ctx, svc, acc, cur, cons, closed, closer, toVisit,
                   raced, connVars, packets>>

(* Mutant of SeesClosed: AcceptRaw only looks at rawCh.                    *)
NeverLooks == FALSE

(* AcceptRaw's select can take the closed channel.                         *)
SeesClosed == closed

(* The shared port's loop returns on any error, the RAW port's only when   *)
(* its context is done: until then it calls AcceptRaw again at once.       *)
StopTaking ==
    /\ cons = "take" /\ SeesClosed
    /\ mode = "shared" \/ ctx
    /\ cons' = "stopped"
    /\ UNCHANGED <<mode, ctx, svc, acc, cur, lstVars, connVars, session,
                   packets>>

(***************************************************************************)
(* The sessions                                                            *)
(***************************************************************************)
(* ReadFrom gets a packet that only another of the keys unwraps, changes   *)
(* the connection under its mutex, and records the profile afterwards.     *)
NewKey(c, k) ==
    /\ packets < MaxPackets
    /\ session[c] \in {"wg", "raw"} /\ c \notin storing /\ k # key[c]
    /\ packets' = packets + 1
    /\ key' = [key EXCEPT ![c] = k]
    /\ storing' = storing \cup {c}
    /\ UNCHANGED <<mode, ctx, svc, acc, cur, cons, lstVars, conns, selected,
                   overtaken, ep, st, buf, session>>

RecordNewKey(c) ==
    /\ c \in storing
    /\ Record(c, key[c])
    /\ storing' = storing \ {c}
    /\ UNCHANGED <<mode, ctx, svc, acc, cur, cons, lstVars, conns, key, ep, st,
                   buf, session, packets>>

(* A RAW session reads itself; the DTLS library reads for the others.      *)
EndSession(c) ==
    /\ session[c] \in {"wg", "raw"}
    /\ session[c] = "raw" => c \notin storing
    /\ session' = [session EXCEPT ![c] = "ending"]
    /\ BeginClose(c)
    /\ UNCHANGED <<mode, ctx, svc, acc, cur, cons, lstVars, conns, keyVars,
                   ep, buf, packets>>

(* The client leaves, or a read deadline passes.                           *)
ClientLeaves(c) == EndSession(c)

(* The shutdown reaches the session: its connection is closed under it, or *)
(* a DTLS session's deadline is set to the past.                           *)
ShutdownReaches(c) ==
    /\ \/ st[c] = "closed"
       \/ session[c] = "wg" /\ ctx
    /\ EndSession(c)

SessionDone(c) ==
    /\ session[c] = "ending" /\ st[c] = "closed"
    /\ session' = [session EXCEPT ![c] = "done"]
    /\ UNCHANGED <<mode, ctx, svc, acc, cur, cons, lstVars, connVars, packets>>

(***************************************************************************)
(* wrappedListener.Close                                                   *)
(***************************************************************************)
CloseSignal ==
    /\ closer = "idle" /\ (ctx \/ svc = "failing")
    /\ closed' = TRUE
    /\ closer' = "visit"
    /\ UNCHANGED <<mode, ctx, svc, acc, cur, cons, rawCh, toVisit, raced,
                   connVars, session, packets>>

(* Mutant of Tracked: Close leaves the accepted connections alone.         *)
NothingTracked == {}

Tracked == {c \in Conns : \E e \in Endpoints : conns[e] = c}

(* Range calls Close on every connection in the map.                       *)
CloseTracked ==
    /\ closer = "visit"
    /\ closer' = "range"
    /\ toVisit' = Tracked
    /\ st' = [c \in Conns |->
                IF c \in Tracked /\ st[c] = "open" THEN "closing" ELSE st[c]]
    /\ UNCHANGED <<mode, ctx, svc, acc, cur, cons, rawCh, closed, raced,
                   conns, keyVars, ep, buf, session, packets>>

TrackedClosed ==
    /\ closer = "range" /\ \A c \in toVisit : st[c] = "closed"
    /\ closer' = "inner"
    /\ UNCHANGED <<mode, ctx, svc, acc, cur, cons, rawCh, closed, toVisit,
                   raced, connVars, session, packets>>

(* The library drops the connections nobody has accepted.                  *)
CloseInner ==
    /\ closer = "inner"
    /\ closer' = "done"
    /\ st' = [c \in Conns |-> IF st[c] = "queued" THEN "closed" ELSE st[c]]
    /\ UNCHANGED <<mode, ctx, svc, acc, cur, cons, rawCh, closed, toVisit,
                   raced, conns, keyVars, ep, buf, session, packets>>

Closer == CloseSignal \/ CloseTracked \/ TrackedClosed \/ CloseInner

(***************************************************************************)
(* Service.Start                                                           *)
(***************************************************************************)
Cancel ==
    /\ ~ctx
    /\ ctx' = TRUE
    /\ UNCHANGED <<mode, svc, acc, cur, cons, lstVars, connVars, session,
                   packets>>

(* With the RAW port up, serveProfiles cannot bind the DTLS port: startServer*)
(* returns the error, and cleanupRaw closes the RAW listener.              *)
DTLSBindFails ==
    /\ mode = "raw" /\ svc = "serving"
    /\ svc' = "failing"
    /\ UNCHANGED <<mode, ctx, acc, cur, cons, lstVars, connVars, session,
                   packets>>

(* startServer returns, its deferred closes done, and Start waits for the  *)
(* sessions.                                                               *)
StartWaits ==
    /\ svc \in {"serving", "failing"} /\ closer = "done"
    /\ IF mode = "raw" THEN svc = "failing" \/ ctx ELSE acc = "stopped"
    /\ svc' = "waiting"
    /\ UNCHANGED <<mode, ctx, acc, cur, cons, lstVars, connVars, session,
                   packets>>

(* The WaitGroup counts the sessions and the loops started as sessions.    *)
StartReturns ==
    /\ svc = "waiting"
    /\ cons # "take" /\ (mode = "raw" => acc = "stopped")
    /\ \A c \in Conns : session[c] \in {"none", "done"}
    /\ svc' = "returned"
    /\ UNCHANGED <<mode, ctx, acc, cur, cons, lstVars, connVars, session,
                   packets>>

Service == StartWaits \/ StartReturns

Next ==
    \/ \E c \in Conns, k \in Kinds : Packet(c, k)
    \/ \E c \in Conns : \/ ConnClose(c) \/ ClientLeaves(c)
                        \/ ShutdownReaches(c) \/ SessionDone(c)
                        \/ RecordNewKey(c)
    \/ \E c \in Conns, k \in Keys : NewKey(c, k)
    \/ Acceptor \/ TakeRaw \/ StopTaking \/ Closer \/ Cancel \/ DTLSBindFails
    \/ Service

(* Goroutines that can run do run.  The network owes nothing, and nobody   *)
(* has to cancel the instance.  AcceptRaw's select, run over and over with *)
(* the closed channel ready, does not always prefer rawCh.  A session      *)
(* whose connection is closed sees it at the latest when its read deadline *)
(* passes (rawNetConn.Read retries every other error).                     *)
Fairness ==
    /\ WF_vars(Acceptor) /\ WF_vars(Closer) /\ WF_vars(Service)
    /\ WF_vars(TakeRaw) /\ WF_vars(StopTaking)
    /\ \A c \in Conns : /\ WF_vars(ConnClose(c)) /\ WF_vars(SessionDone(c))
                        /\ WF_vars(ShutdownReaches(c))
                        /\ WF_vars(RecordNewKey(c))

Spec == Init /\ [][Next]_vars /\ Fairness

(***************************************************************************)
(* Properties                                                              *)
(***************************************************************************)
(* Besides the types: once Accept has stored a connection it stays in the  *)
(* map until its own Close, so that the listener's Close can find it; the  *)
(* Close of an older connection from the same address must not take the    *)
(* entry away (wrap_listener.go:308, onClose before inner.Close).          *)
TypeOK ==
    /\ mode \in {"shared", "dtls", "raw"} /\ ctx \in BOOLEAN
    /\ svc \in {"serving", "failing", "waiting", "returned"}
    /\ acc \in {"accept", "store", "read", "offer", "handoff", "drop",
                "stopped"}
    /\ cur \in Conns \cup {NoConn}
    /\ cur # NoConn <=> acc \notin {"accept", "stopped"}
    /\ cons \in {"none", "take", "stopped"}
    /\ rawCh \in Seq(Conns) /\ Len(rawCh) <= RawCap
    /\ closed \in BOOLEAN
    /\ closer \in {"idle", "visit", "range", "inner", "done"}
    /\ toVisit \subseteq Conns /\ raced \subseteq Conns
    /\ conns \in [Endpoints -> Conns \cup {NoConn}]
    /\ selected \in [Endpoints -> Keys \cup {NoKey}]
    /\ key \in [Conns -> Keys \cup {NoKey}]
    /\ storing \subseteq Conns /\ overtaken \subseteq Endpoints
    /\ ep \in Seq(Endpoints) /\ Len(ep) <= MaxConns
    /\ st \in [Conns -> {"none", "queued", "open", "closing", "half", "closed"}]
    /\ buf \in [Conns -> Kinds \cup {"empty"}]
    /\ session \in [Conns -> {"none", "wg", "raw", "ending", "done"}]
    /\ packets \in 0 .. MaxPackets
    /\ \A c \in Conns :
          st[c] = "open" /\ ~(acc = "store" /\ cur = c) => conns[ep[c]] = c

(* A live session looks its profile up by address and finds the key that   *)
(* its own connection was authenticated with last, not a leftover or       *)
(* nothing, once its reader has recorded it (wrap_listener.go:114, 278).   *)
(* One store is excepted: that of an older connection of the same address  *)
(* whose reader got a packet under a new key, and was overtaken by its     *)
(* Close and by the new connection before it recorded the key.             *)
SessionFindsItsProfile ==
    \A c \in Conns :
        session[c] \in {"wg", "raw"} /\ st[c] = "open" /\ c \notin storing
        => selected[ep[c]] = key[c] \/ ep[c] \in overtaken

(* A connection has one owner: the accept loop, a place in rawCh, or a     *)
(* session.                                                                *)
OneOwner ==
    /\ \A i, j \in 1 .. Len(rawCh) : rawCh[i] = rawCh[j] => i = j
    /\ \A i \in 1 .. Len(rawCh) : rawCh[i] # cur /\ session[rawCh[i]] = "none"
    /\ cur # NoConn => session[cur] = "none"

(* "A transport instance is not stopped until every accepted DTLS/RAW      *)
(* session has released its socket" (service.go:88): when Start returns,   *)
(* only a connection that entered the map behind the Range of Close can    *)
(* still be open.                                                          *)
ReturnReleasesSockets ==
    svc = "returned" => \A c \in Conns : InTable(c) => c \in raced

(* A cancelled instance comes to its end, whatever the accept loop and the *)
(* sessions were doing, unless a connection slipped past Close.            *)
CancelStops == ctx ~> (svc = "returned" \/ raced # {})

(* The accept loop is held up for good only by what its code waits for: a  *)
(* connection none of whose packets a key unwraps (Accept reads its first  *)
(* payload itself), or a full rawCh that nobody empties, startRawOnListener*)
(* having failed.  Else every connection comes to be accepted, however     *)
(* long the sessions before it last.                                       *)
AcceptGoesOn ==
    \A c \in Conns :
        \/ []<>(st[c] # "queued")
        \/ <>[](acc = "read" /\ buf[cur] = "empty")
        \/ <>[](acc = "offer" /\ cons = "none")

(* runtime.go:221, "transport stopped: %v; retrying in %s": an instance    *)
(* that could not bind its DTLS port returns, so that Runtime retries it.  *)
(* Unless it is cancelled first, or a connection slipped past Close.       *)
FailedStartReturns ==
    svc = "failing" ~> (svc = "returned" \/ ctx \/ raced # {})
=============================================================================
