------------------------------- MODULE Sessions -------------------------------
(***************************************************************************)
(* The sessions of clients and their deadlines: handleConnection and       *)
(* proxyWG of service.go for WireGuard over DTLS, handleRaw and rawNetConn *)
(* of raw.go for RAW, what the shutdown does to them, and the list from    *)
(* which the panel tells who is online (profile_traffic.go).               *)
(*                                                                         *)
(* Time passes in ticks of five seconds.  What a goroutine can do at once  *)
(* it does before the next tick, in any order with the others.             *)
(***************************************************************************)
EXTENDS Integers, FiniteSets

CONSTANTS Wgs, Raws,  \* the sessions of the two kinds
          MaxLive     \* bound: sessions at a time

ASSUME SessionsAssumption == Wgs \cap Raws = {} /\ MaxLive \in Nat

Sessions == Wgs \cup Raws

VARIABLES
    ses,       \* per session, a record:
               \*   stage  the phase of its handler
               \*   at     arm: about to set its read deadline; read;
               \*          check: about to look at its context
               \*   left   ticks to its read deadline
               \*   cut    what the end of its context calls: no, due, done
               \*   down   its loop towards the client runs
               \*   quiet  ticks since it heard its client
               \*   seen   ticks since it was last touched
               \*   why    auxiliary: why it ended, silence or other
    listed,    \* sessions in the list of the profile
    open,      \* sessions whose endpoint is open
    stop,      \* the transport: no; cancelled; its listener closed
    since      \* auxiliary: ticks since it was cancelled

vars == <<ses, listed, open, stop, since>>

RawIdle == 5            \* rawIdleTimeout
OnlineWindow == 4       \* profileOnlineWindow
Long == 10              \* bound: ticks that are counted

cancelled == stop # "no"

(* How long each phase waits for the client.                               *)
Timeout(s) ==
    CASE ses[s].stage = "command" -> IF s \in Wgs THEN 6 ELSE 9
      [] ses[s].stage \in {"getconf", "auth", "ready"} -> 18
      [] ses[s].stage = "proxy"   -> IF s \in Wgs THEN 6 ELSE 4

Live == {s \in Sessions : ses[s].stage \notin {"none", "over"}}

Waiting == [stage |-> "none", at |-> "read", left |-> 12, cut |-> "no",
            down |-> FALSE, quiet |-> 0, seen |-> 0, why |-> "none"]

Init ==
    /\ ses = [s \in Sessions |-> Waiting]
    /\ listed = {} /\ open = Sessions
    /\ stop = "no" /\ since = 0

Becomes(s, new) == ses' = [ses EXCEPT ![s] = new]

(***************************************************************************)
(* The end of a session                                                    *)
(***************************************************************************)
(* The handler returns: its entry goes, and its endpoint is closed.        *)
Leave(s, reason) ==
    /\ Becomes(s, [Waiting EXCEPT !.stage = "over", !.why = reason,
                                  !.down = ses[s].down])
    /\ listed' = listed \ {s} /\ open' = open \ {s}
    /\ UNCHANGED <<stop, since>>

Stays(s, new) ==
    /\ Becomes(s, new)
    /\ UNCHANGED <<listed, open, stop, since>>

(* A loop of proxyWG that ends cancels the context of both, and proxyWG    *)
(* waits for the other one.                                                *)
Cut(cut) == IF cut = "no" THEN "due" ELSE cut

End(s, reason) ==
    IF s \in Wgs /\ ses[s].stage = "proxy"
    THEN Stays(s, [ses[s] EXCEPT !.stage = "ending", !.why = reason,
                                 !.cut = Cut(@)])
    ELSE Leave(s, reason)

DownEnds(s) ==
    /\ ses[s].stage = "proxy" /\ ses[s].down
    /\ Stays(s, [ses[s] EXCEPT !.down = FALSE, !.cut = Cut(@),
                               !.why = "other"])

(* Mutant of Interrupted: the socket of WireGuard keeps its deadline.      *)
OnlyClient(r) == [r EXCEPT !.cut = "done", !.left = 0]

(* AfterFunc: both sockets time out now, and the loop towards the client   *)
(* ends with its read.                                                     *)
Interrupted(r) == [r EXCEPT !.cut = "done", !.left = 0, !.down = FALSE]

Interrupt(s) ==
    /\ s \in Live /\ ses[s].cut = "due"
    /\ Stays(s, Interrupted(ses[s]))

(* Mutant of BothEnded: proxyWG returns with the first loop.               *)
FirstEnded(s) ==
    /\ ses[s].stage = "ending"
    /\ Leave(s, ses[s].why)

BothEnded(s) ==
    /\ ses[s].stage = "ending" /\ ~ses[s].down
    /\ Leave(s, ses[s].why)

(***************************************************************************)
(* The loop that reads from the client                                     *)
(***************************************************************************)
(* SetReadDeadline, over whatever deadline there is.                       *)
Arm(s) ==
    /\ s \in Live /\ ses[s].at = "arm"
    /\ Stays(s, [ses[s] EXCEPT !.at = "read", !.left = Timeout(s)])

(* Mutant of Check: the loop does not look at its context.                 *)
NeverLooks(s) ==
    /\ ses[s].stage = "proxy" /\ ses[s].at = "check"
    /\ Stays(s, [ses[s] EXCEPT !.at = "arm"])

Check(s) ==
    /\ ses[s].stage = "proxy" /\ ses[s].at = "check"
    /\ IF ses[s].cut # "no" THEN End(s, "other")
       ELSE Stays(s, [ses[s] EXCEPT !.at = "arm"])

InRead(s) == s \in Live /\ ses[s].stage # "ending" /\ ses[s].at = "read"

(* Mutant of GoesOn: RAW ends with its first read that times out.          *)
NeverGoesOn(s) == FALSE

(* Mutant of GoesOn: RAW forgets to ask how long it was silent.            *)
AlwaysGoesOn(s) == s \in Raws /\ ses[s].stage = "proxy"

(* A RAW session that was heard a short while ago reads again.             *)
GoesOn(s) ==
    s \in Raws /\ ses[s].stage = "proxy" /\ ses[s].quiet <= RawIdle

TimesOut(s) ==
    /\ InRead(s) /\ ses[s].left = 0
    /\ IF GoesOn(s) THEN Stays(s, [ses[s] EXCEPT !.at = "arm"])
       ELSE End(s, IF ses[s].cut = "no" THEN "silence" ELSE "other")

(* A read from a closed endpoint fails.  rawNetConn.Read takes the error   *)
(* for none of the net's and tries again until its deadline.               *)
ReadFails(s) ==
    /\ InRead(s) /\ s \in Wgs \ open
    /\ End(s, "other")

Reads(s) == InRead(s) /\ ses[s].left # 0 /\ s \in open

Heard(r, next, at) == [r EXCEPT !.stage = next, !.at = at, !.quiet = 0]
Touched(r) == [r EXCEPT !.seen = 0]

(* ConnectMode: a new entry in the list.                                   *)
Connect(s, new) ==
    /\ Becomes(s, Touched(new))
    /\ listed' = listed \cup {s}
    /\ UNCHANGED <<open, stop, since>>

(* RAW skips keepalives until AUTH or GETCONF_RAW comes, and leaves with   *)
(* any other command or a wrong password.                                  *)
RawHeard(s) ==
    \/ Leave(s, "other")
    \/ Stays(s, Heard(ses[s], "command", "arm"))
    \/ Connect(s, Heard(ses[s], "proxy", "arm"))

(* DTLS shakes hands within a minute under the context of the transport;   *)
(* RAW comes with the first packet read, which may be the command.         *)
Accept(s) ==
    /\ ses[s].stage = "none" /\ ~cancelled /\ Cardinality(Live) < MaxLive
    /\ \/ s \in Wgs /\ Stays(s, [ses[s] EXCEPT !.stage = "handshake"])
       \/ s \in Raws /\ RawHeard(s)

Handshake(s) ==
    /\ Reads(s) /\ ses[s].stage = "handshake"
    /\ Connect(s, Heard(ses[s], "command", "arm"))

(* The phases a client may go through; what is no command is the first     *)
(* packet for WireGuard.                                                   *)
Follows(stage) ==
    CASE stage = "command" -> {"getconf", "auth", "ready", "proxy"}
      [] stage = "getconf" -> {"auth", "ready", "proxy"}
      [] stage = "auth"    -> {"ready", "proxy"}
      [] stage = "ready"   -> {"proxy"}
      [] OTHER             -> {}

(* proxyWG starts with a context of its own, under the transport's.        *)
ProxyStarts(r) ==
    [Heard(r, "proxy", "check") EXCEPT
        !.down = TRUE, !.cut = IF cancelled THEN "due" ELSE "no"]

Command(s) ==
    /\ s \in Wgs /\ Reads(s)
    /\ \E next \in Follows(ses[s].stage) :
          Stays(s, IF next = "proxy" THEN ProxyStarts(ses[s])
                   ELSE Heard(ses[s], next, "arm"))

(* A failed handshake, a wrong password, no such profile, no address left, *)
(* no way to WireGuard: the end.                                           *)
Denied(s) ==
    /\ s \in Wgs /\ Reads(s) /\ ses[s].stage # "proxy"
    /\ Leave(s, "other")

RawCommand(s) ==
    /\ s \in Raws /\ Reads(s) /\ ses[s].stage = "command"
    /\ RawHeard(s)

Keepalive(s) ==
    /\ Reads(s) /\ ses[s].stage = "proxy"
    /\ Stays(s, Touched(Heard(ses[s], "proxy",
                              IF s \in Wgs THEN "check" ELSE "arm")))

(* RAW looks at the context of the transport behind a packet only.         *)
Data(s) ==
    /\ Reads(s) /\ ses[s].stage = "proxy"
    /\ IF s \in Raws /\ cancelled THEN Leave(s, "other")
       ELSE Stays(s, Touched(Heard(ses[s], "proxy",
                                   IF s \in Wgs THEN "check" ELSE "arm")))

(* WireGuard's socket or the TUN device does not take the packet.          *)
NotDelivered(s) ==
    /\ Reads(s) /\ ses[s].stage = "proxy"
    /\ End(s, "other")

Disconnect(s) ==
    /\ s \in Raws /\ Reads(s) /\ ses[s].stage = "proxy"
    /\ Leave(s, "other")

(* Mutant of SentTo: what is sent counts as a sign of life.                *)
TouchedBySending(s) == Touched(ses[s])

(* A packet for the client.  AddTX does not touch; RAW counts what it      *)
(* sends with AddRX, and touches even if the write fails.                  *)
SentTo(s) == IF s \in Raws THEN Touched(ses[s]) ELSE ses[s]

Downlink(s) ==
    /\ ses[s].stage = "proxy" /\ (s \in Wgs => ses[s].down)
    /\ Stays(s, SentTo(s))

(***************************************************************************)
(* The transport and time                                                  *)
(***************************************************************************)
Cancel ==
    /\ ~cancelled
    /\ stop' = "cancelled"
    /\ ses' = [s \in Sessions |->
                  IF s \in Live \cap Wgs THEN [ses[s] EXCEPT !.cut = Cut(@)]
                  ELSE ses[s]]
    /\ UNCHANGED <<listed, open, since>>

(* The listener closes the endpoints it tracks, which may leave out one    *)
(* stored behind it.                                                       *)
CloseEndpoints ==
    /\ stop = "cancelled"
    /\ stop' = "closed"
    /\ \E missed \in SUBSET (open \cap Live) :
          /\ Cardinality(missed) <= 1
          /\ open' = missed
    /\ UNCHANGED <<ses, listed, since>>

(* ResetSessions, before the next transport is launched.                   *)
ResetSessions ==
    /\ cancelled /\ listed # {}
    /\ listed' = {}
    /\ UNCHANGED <<ses, open, stop, since>>

Urgent(s) ==
    \/ ses[s].cut = "due"
    \/ ses[s].at \in {"arm", "check"}
    \/ InRead(s) /\ (ses[s].left = 0 \/ s \in Wgs \ open)
    \/ ses[s].stage = "ending" /\ ~ses[s].down

OneMore(n) == IF n < Long THEN n + 1 ELSE n

Tick ==
    /\ stop # "cancelled"
    /\ ~ \E s \in Live : Urgent(s)
    /\ Live # {}
    /\ since' = IF cancelled THEN OneMore(since) ELSE since
    /\ ses' = [s \in Sessions |->
                  IF s \notin Live THEN ses[s]
                  ELSE [ses[s] EXCEPT !.left = IF @ = 0 THEN 0 ELSE @ - 1,
                                      !.quiet = OneMore(@),
                                      !.seen = OneMore(@)]]
    /\ UNCHANGED <<listed, open, stop>>

(* What a session does by itself, and what its client and WireGuard do.    *)
Step(s) ==
    Arm(s) \/ Check(s) \/ TimesOut(s) \/ ReadFails(s) \/ Interrupt(s)
    \/ BothEnded(s)

Traffic(s) ==
    Accept(s) \/ Handshake(s) \/ Command(s) \/ Denied(s) \/ RawCommand(s)
    \/ Keepalive(s) \/ Data(s) \/ NotDelivered(s) \/ Disconnect(s)
    \/ Downlink(s) \/ DownEnds(s)

Next ==
    \/ \E s \in Sessions : Step(s) \/ Traffic(s)
    \/ Cancel \/ CloseEndpoints \/ ResetSessions \/ Tick

(* Goroutines run, the listener that saw the context end closes, and time  *)
(* passes; nothing is promised of clients, WireGuard or the runtime.       *)
Spec ==
    /\ Init /\ [][Next]_vars
    /\ \A s \in Sessions : WF_vars(Step(s))
    /\ WF_vars(CloseEndpoints) /\ SF_vars(Tick)

(***************************************************************************)
(* Properties                                                              *)
(***************************************************************************)
TypeOK ==
    /\ ses \in [Sessions ->
          [stage : {"none", "handshake", "command", "getconf", "auth", "ready",
                    "proxy", "ending", "over"},
           at : {"arm", "read", "check"}, left : 0 .. 18,
           cut : {"no", "due", "done"}, down : BOOLEAN,
           quiet : 0 .. Long, seen : 0 .. Long,
           why : {"none", "silence", "other"}]]
    /\ listed \subseteq Sessions /\ open \subseteq Sessions
    /\ stop \in {"no", "cancelled", "closed"} /\ since \in 0 .. Long
    /\ \A s \in Sessions : ses[s].down => s \in Wgs /\ s \in Live

(* A client that vanished frees its address within the half minute after   *)
(* which a new ClientHello is to be accepted, or within forty seconds for  *)
(* RAW: no forwarding session is silent for longer, whatever is sent to it *)
(* and whatever the shutdown does to its deadlines.                        *)
SilentEnds ==
    \A s \in Live : ses[s].stage = "proxy" =>
        ses[s].quiet <= IF s \in Wgs THEN 6 ELSE 8

(* A session is dropped for silence only behind six ticks without a packet *)
(* of its client, eight for RAW: one that sends its keepalives every 25    *)
(* seconds stays.                                                          *)
OnlySilentDropped ==
    [][\A s \in Sessions :
          ses[s].why = "none" /\ ses'[s].why = "silence"
              => ses[s].quiet >= IF s \in Wgs THEN 6 ELSE 8]_vars

(* The panel shows a WireGuard session online only while its client was    *)
(* heard within the window, although its goroutines run on: what the       *)
(* server sends it does not count.                                         *)
OnlineMeansHeard ==
    \A s \in Wgs \cap listed :
        ses[s].seen <= OnlineWindow => ses[s].quiet <= OnlineWindow

(* The shutdown ends the sessions: one of WireGuard before time passes,    *)
(* unless the listener missed its endpoint, and then within half a minute  *)
(* once it forwards; one of RAW within 45 seconds, unless it was missed.   *)
(* (So a restart may give up its wait of ten seconds for RAW clients,      *)
(* although the comment in Close says that their reads wake immediately.)  *)
ShutdownBound ==
    \A s \in Live : stop = "closed" =>
        IF s \in Wgs
        THEN /\ s \notin open => since = 0
             /\ ses[s].stage = "proxy" /\ ses[s].at = "read" => since <= 6
        ELSE s \notin open => since <= 9

(* Either loop of proxyWG takes the other one with it, and the session     *)
(* ends: WireGuard's silence does not keep a goroutine, nor the client's.  *)
BothLoopsEnd ==
    \A s \in Wgs :
        (ses[s].stage = "ending" \/ (ses[s].stage = "proxy" /\ ~ses[s].down))
            ~> ses[s].stage = "over"
=============================================================================
