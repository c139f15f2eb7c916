---------------------------- MODULE SessionsProofs ----------------------------
(* Proofs about Sessions, for any sets of sessions of the two kinds, and   *)
(* about Traffic, which counts what they carry, for any number of sessions *)
(* of a profile and of panel requests.                                     *)
EXTENDS Sessions, Traffic, TLAPS

(***************************************************************************)
(* The inductive invariant                                                 *)
(***************************************************************************)
Stages == {"none", "handshake", "command", "getconf", "auth", "ready",
           "proxy", "ending", "over"}
Reasons == {"none", "silence", "other"}

Record ==
    [stage : Stages, at : {"arm", "read", "check"}, left : 0 .. 18,
     cut : {"no", "due", "done"}, down : BOOLEAN,
     quiet : 0 .. Long, seen : 0 .. Long, why : Reasons]

Alive(r) == r.stage \notin {"none", "over"}

(* A session of WireGuard.  The deadline was set when the client was last  *)
(* heard, six ticks ahead or more; only an interruption brings it forward. *)
(* Nothing but what the client sends is later than the last word of it.    *)
GoodWg(r) ==
    /\ r.stage = "none" => r = Waiting
    /\ r.stage = "handshake" => r.at = "read"
    /\ r.stage = "ending" => r.at # "arm"
    /\ r.quiet <= r.seen
    /\ r.at # "read" /\ Alive(r) /\ r.stage # "ending" => r.quiet = 0
    /\ r.at = "read" /\ r.stage = "proxy" => r.quiet + r.left <= 6
    /\ r.at = "read" /\ Alive(r) /\ r.stage # "ending" /\ r.cut = "no"
           => r.quiet + r.left >= 6
    /\ r.down => r.stage \in {"proxy", "ending"}
    /\ r.stage = "ending" => r.cut # "no"
    /\ r.stage \in {"proxy", "ending"} /\ r.cut = "done" => ~r.down

(* A session of RAW: two reads of four ticks in a row and no more.         *)
GoodRaw(r) ==
    /\ r.stage \in {"none", "command", "proxy", "over"}
    /\ r.stage = "none" => r = Waiting
    /\ r.at # "check" /\ r.cut = "no" /\ ~r.down
    /\ r.stage = "command" =>
           r.quiet + (IF r.at = "read" THEN r.left ELSE 9) = 9
    /\ r.stage = "proxy" =>
           r.quiet + (IF r.at = "read" THEN r.left ELSE 4) \in {4, 8}

(* What the shutdown has to do with it.  A session whose endpoint is closed*)
(* hears nothing: RAW is silent since then, and WireGuard notices at once. *)
(* A loop that set its deadline behind the interruption did so when the    *)
(* transport was cancelled, not later.                                     *)
Shut(s, r) ==
    /\ stop = "closed" /\ Alive(r) /\ s \notin open =>
           since <= IF s \in Wgs THEN 0 ELSE r.quiet
    /\ s \in Wgs /\ cancelled /\ r.stage = "proxy" =>
           /\ r.cut # "no"
           /\ r.at = "arm" => since = 0
           /\ r.at = "read" => since + r.left <= 6

Good(s, r) ==
    /\ r \in Record
    /\ s \in Wgs => GoodWg(r)
    /\ s \in Raws => GoodRaw(r)
    /\ Shut(s, r)

Globals ==
    /\ listed \subseteq Sessions /\ open \subseteq Sessions
    /\ stop \in {"no", "cancelled", "closed"} /\ since \in 0 .. Long
    /\ stop # "closed" => since = 0

Inv ==
    /\ Globals
    /\ ses \in [Sessions -> Record]
    /\ \A s \in Sessions : Good(s, ses[s])

(* A step drops for silence only a session that was silent long enough.    *)
Late(s) == ses[s].quiet >= IF s \in Wgs THEN 6 ELSE 8
Drops(s, reason) == ses[s].why = "none" /\ reason = "silence"
OnlyLate == \A s \in Sessions : Drops(s, ses'[s].why) => Late(s)

LEMMA InitInv == Init => Inv
<1> SUFFICES ASSUME Init PROVE Inv
  OBVIOUS
<1>1. Waiting \in Record
  BY DEF Waiting, Record, Stages, Reasons, Long
<1>2. Globals /\ ses \in [Sessions -> Record]
  BY <1>1 DEF Init, Globals, Long
<1>3. ASSUME NEW s \in Sessions PROVE Good(s, ses[s])
  BY <1>1
  DEF Init, Good, GoodWg, GoodRaw, Shut, Waiting, Alive, cancelled
<1> QED
  BY <1>2, <1>3 DEF Inv

(***************************************************************************)
(* The three ways in which an action changes a session                     *)
(***************************************************************************)
LEMMA StaysInv ==
    ASSUME Inv, NEW s \in Sessions, NEW new, Good(s, new),
           Drops(s, new.why) => Late(s), Stays(s, new)
    PROVE  Inv' /\ OnlyLate
<1>1. Globals'
  BY DEF Inv, Globals, Stays
<1>2. ses' = [ses EXCEPT ![s] = new] /\ new \in Record
  BY DEF Stays, Becomes, Good
<1>3. ses' \in [Sessions -> Record]
  BY <1>2 DEF Inv
<1>4. ASSUME NEW u \in Sessions PROVE Good(u, ses'[u])
  BY <1>2 DEF Inv
<1>5. ASSUME NEW u \in Sessions PROVE Good(u, ses[u])'
  BY <1>4 DEF Good, Shut, Stays, cancelled
<1>6. OnlyLate
  BY <1>2 DEF OnlyLate, Drops, Inv
<1> QED
  BY <1>1, <1>3, <1>5, <1>6 DEF Inv

LEMMA ConnectInv ==
    ASSUME Inv, NEW s \in Sessions, NEW new, Good(s, Touched(new)),
           new \in Record, new.why = ses[s].why, Connect(s, new)
    PROVE  Inv' /\ OnlyLate
<1>1. Globals'
  BY DEF Inv, Globals, Connect
<1>2. ses' = [ses EXCEPT ![s] = Touched(new)] /\ Touched(new) \in Record
  BY DEF Connect, Becomes, Good
<1>3. ses' \in [Sessions -> Record]
  BY <1>2 DEF Inv
<1>4. ASSUME NEW u \in Sessions PROVE Good(u, ses'[u])
  BY <1>2 DEF Inv
<1>5. ASSUME NEW u \in Sessions PROVE Good(u, ses[u])'
  BY <1>4 DEF Good, Shut, Connect, cancelled
<1>6. Touched(new).why = ses[s].why
  BY DEF Touched, Record
<1>7. OnlyLate
  BY <1>2, <1>6 DEF OnlyLate, Drops, Inv
<1> QED
  BY <1>1, <1>3, <1>5, <1>7 DEF Inv

(* The session is over: one of proxyWG only behind both of its loops.      *)
LEMMA LeaveInv ==
    ASSUME Inv, NEW s \in Sessions, NEW reason \in Reasons,
           Drops(s, reason) => Late(s), ~ses[s].down, Leave(s, reason)
    PROVE  Inv' /\ OnlyLate
<1> DEFINE new == [Waiting EXCEPT !.stage = "over", !.why = reason,
                                  !.down = ses[s].down]
<1>1. Globals'
  BY DEF Inv, Globals, Leave
<1>2. ses' = [ses EXCEPT ![s] = new]
  BY DEF Leave, Becomes
<1>3. ses[s] \in Record
  BY DEF Inv
<1>4. /\ new \in Record /\ new.stage = "over" /\ new.at = "read"
      /\ new.cut = "no" /\ ~new.down /\ new.quiet = 0 /\ new.seen = 0
      /\ new.why = reason
  <2>1. Waiting \in Record /\ ses[s].down \in BOOLEAN
    BY <1>3 DEF Waiting, Record, Stages, Reasons, Long
  <2>2. new \in Record
    BY <2>1 DEF Record, Stages
  <2>3. /\ new.stage = "over" /\ new.at = Waiting.at /\ new.cut = Waiting.cut
        /\ new.down = ses[s].down
        /\ new.quiet = Waiting.quiet /\ new.seen = Waiting.seen
        /\ new.why = reason
    BY <2>1 DEF Record
  <2> QED
    BY <2>2, <2>3 DEF Waiting
<1>5. ses' \in [Sessions -> Record]
  BY <1>2, <1>4 DEF Inv
<1>6. GoodWg(new) /\ GoodRaw(new)
  BY <1>4 DEF GoodWg, GoodRaw, Alive
<1>7. ASSUME NEW u \in Sessions PROVE Good(u, ses[u])'
  <2>1. CASE u = s
    BY <1>2, <1>4, <1>6, <2>1 DEF Good, Shut, Alive, Inv
  <2>2. CASE u # s
    <3>1. ses'[u] = ses[u] /\ Good(u, ses[u])
      BY <1>2, <2>2 DEF Inv
    <3>2. (u \in open' <=> u \in open) /\ UNCHANGED <<stop, since>>
      BY <2>2 DEF Leave
    <3> QED
      BY <3>1, <3>2 DEF Good, Shut, cancelled
  <2> QED
    BY <2>1, <2>2
<1>8. OnlyLate
  BY <1>2, <1>4 DEF OnlyLate, Drops, Inv
<1> QED
  BY <1>1, <1>5, <1>7, <1>8 DEF Inv

LEMMA EndInv ==
    ASSUME Inv, NEW s \in Live, NEW reason \in Reasons,
           Drops(s, reason) => Late(s),
           ses[s].stage # "ending", ses[s].at # "arm", End(s, reason)
    PROVE  Inv' /\ OnlyLate
<1> DEFINE r == ses[s]
           new == [r EXCEPT !.stage = "ending", !.why = reason, !.cut = Cut(@)]
<1>1. s \in Sessions /\ r \in Record /\ Good(s, r) /\ Alive(r)
  BY DEF Inv, Live, Alive
<1>2. CASE s \in Wgs /\ r.stage = "proxy"
  <2>1. Stays(s, new)
    BY <1>2 DEF End
  <2>2. new \in Record
    BY <1>1 DEF Record, Stages, Cut
  <2>3. /\ new.stage = "ending" /\ new.why = reason /\ new.at = r.at
        /\ new.cut = (IF r.cut = "no" THEN "due" ELSE r.cut)
        /\ new.down = r.down /\ new.quiet = r.quiet /\ new.seen = r.seen
    BY <1>1 DEF Record, Cut
  <2>4. GoodWg(new) /\ Shut(s, new)
    BY <1>1, <1>2, <2>3 DEF Good, GoodWg, Shut, Alive, Record
  <2>5. Good(s, new)
    BY <1>2, <2>2, <2>4, SessionsAssumption DEF Good
  <2> QED
    BY <1>1, <2>1, <2>3, <2>5, StaysInv
<1>3. CASE ~(s \in Wgs /\ r.stage = "proxy")
  <2>1. Leave(s, reason)
    BY <1>3 DEF End
  <2>2. ~r.down
    BY <1>1, <1>3 DEF Good, GoodWg, GoodRaw, Sessions
  <2> QED
    BY <1>1, <2>1, <2>2, LeaveInv
<1> QED
  BY <1>2, <1>3

(***************************************************************************)
(* What a session does by itself                                           *)
(***************************************************************************)
LEMMA ArmInv ==
    ASSUME Inv, NEW s \in Sessions, Arm(s)
    PROVE  Inv' /\ OnlyLate
<1> DEFINE r == ses[s]
           new == [r EXCEPT !.at = "read", !.left = Timeout(s)]
<1>1. r \in Record /\ Good(s, r) /\ Alive(r) /\ r.at = "arm"
  BY DEF Inv, Live, Alive, Arm
<1>2. /\ r.stage \in {"command", "getconf", "auth", "ready", "proxy"}
      /\ s \in Raws => r.stage \in {"command", "proxy"}
  BY <1>1 DEF Good, GoodWg, GoodRaw, Alive, Sessions, Record, Stages
<1>3. /\ r.stage = "command" => Timeout(s) = IF s \in Wgs THEN 6 ELSE 9
      /\ r.stage \in {"getconf", "auth", "ready"} => Timeout(s) = 18
      /\ r.stage = "proxy" => Timeout(s) = IF s \in Wgs THEN 6 ELSE 4
  BY DEF Timeout
<1>4. Timeout(s) \in 0 .. 18
  BY <1>2, <1>3
<1>5. new \in Record /\ new = [r EXCEPT !.at = "read", !.left = new.left]
  BY <1>1, <1>4 DEF Record
<1>6. /\ new.stage = r.stage /\ new.at = "read" /\ new.left = Timeout(s)
      /\ new.cut = r.cut /\ new.down = r.down /\ new.why = r.why
      /\ new.quiet = r.quiet /\ new.seen = r.seen
  BY <1>1 DEF Record
<1>7. s \in Wgs => GoodWg(new)
  BY <1>1, <1>2, <1>3, <1>6 DEF Good, GoodWg, Alive, Record
<1>8. s \in Raws => GoodRaw(new)
  BY <1>1, <1>2, <1>3, <1>6, SessionsAssumption DEF Good, GoodRaw, Record
<1>9. Shut(s, new)
  BY <1>1, <1>3, <1>6 DEF Good, Shut, Alive, Record
<1>10. Good(s, new)
  BY <1>5, <1>7, <1>8, <1>9 DEF Good
<1>11. Drops(s, new.why) => Late(s)
  BY <1>6 DEF Drops
<1> QED
  BY <1>10, <1>11, StaysInv DEF Arm

LEMMA CheckInv ==
    ASSUME Inv, NEW s \in Sessions, Check(s)
    PROVE  Inv' /\ OnlyLate
<1> DEFINE r == ses[s]
           new == [r EXCEPT !.at = "arm"]
<1>1. r \in Record /\ Good(s, r) /\ r.stage = "proxy" /\ r.at = "check"
  BY DEF Inv, Check
<1>2. s \in Wgs \ Raws
  BY <1>1, SessionsAssumption DEF Good, GoodRaw, Sessions
<1>3. CASE r.cut # "no"
  <2>1. End(s, "other") /\ s \in Live
    BY <1>1, <1>3 DEF Check, Live
  <2> QED
    BY <1>1, <2>1, EndInv DEF Drops, Reasons
<1>4. CASE r.cut = "no"
  <2>1. Stays(s, new)
    BY <1>4 DEF Check
  <2>2. new \in Record
    BY <1>1 DEF Record
  <2>3. /\ new.stage = "proxy" /\ new.at = "arm" /\ new.cut = "no"
        /\ new.down = r.down /\ new.why = r.why
        /\ new.quiet = r.quiet /\ new.seen = r.seen
    BY <1>1, <1>4 DEF Record
  <2>4. GoodWg(new) /\ Shut(s, new)
    BY <1>1, <1>2, <1>4, <2>3 DEF Good, GoodWg, Shut, Alive, Record
  <2>5. Good(s, new) /\ (Drops(s, new.why) => Late(s))
    BY <1>2, <2>2, <2>3, <2>4 DEF Good, Drops
  <2> QED
    BY <2>1, <2>5, StaysInv
<1> QED
  BY <1>3, <1>4

LEMMA TimesOutInv ==
    ASSUME Inv, NEW s \in Sessions, TimesOut(s)
    PROVE  Inv' /\ OnlyLate
<1> DEFINE r == ses[s]
           new == [r EXCEPT !.at = "arm"]
<1>1. /\ r \in Record /\ Good(s, r) /\ Alive(r) /\ s \in Live
      /\ r.stage # "ending" /\ r.at = "read" /\ r.left = 0
  BY DEF Inv, TimesOut, InRead, Live, Alive
<1>2. CASE GoesOn(s)
  <2>1. Stays(s, new)
    BY <1>2 DEF TimesOut
  <2>2. s \in Raws \ Wgs /\ r.stage = "proxy" /\ r.quiet = 4
    BY <1>1, <1>2, SessionsAssumption
    DEF GoesOn, Good, GoodRaw, Record, RawIdle
  <2>3. new \in Record
    BY <1>1 DEF Record
  <2>4. /\ new.stage = "proxy" /\ new.at = "arm" /\ new.cut = r.cut
        /\ new.down = r.down /\ new.why = r.why /\ new.quiet = 4
    BY <1>1, <2>2 DEF Record
  <2>5. GoodRaw(new) /\ Shut(s, new)
    BY <1>1, <2>2, <2>4 DEF Good, GoodRaw, Shut, Alive
  <2>6. Good(s, new) /\ (Drops(s, new.why) => Late(s))
    BY <2>2, <2>3, <2>4, <2>5 DEF Good, Drops
  <2> QED
    BY <2>1, <2>6, StaysInv
<1>3. CASE ~GoesOn(s)
  <2> DEFINE reason == IF r.cut = "no" THEN "silence" ELSE "other"
  <2>1. End(s, reason)
    BY <1>3 DEF TimesOut
  <2>2. ASSUME r.cut = "no" PROVE Late(s)
    <3>1. CASE s \in Wgs
      BY <1>1, <2>2, <3>1 DEF Good, GoodWg, Late, Record
    <3>2. CASE s \in Raws \ Wgs
      <4>1. CASE r.stage = "command"
        BY <1>1, <3>2, <4>1 DEF Good, GoodRaw, Late, Record
      <4>2. CASE r.stage = "proxy"
        BY <1>1, <1>3, <3>2, <4>2
        DEF Good, GoodRaw, GoesOn, Late, Record, RawIdle
      <4> QED
        BY <1>1, <3>2, <4>1, <4>2 DEF Good, GoodRaw, Alive
    <3> QED
      BY <3>1, <3>2 DEF Sessions
  <2>3. reason \in Reasons /\ (Drops(s, reason) => Late(s))
    BY <2>2 DEF Reasons, Drops
  <2> QED
    BY <1>1, <2>1, <2>3, EndInv
<1> QED
  BY <1>2, <1>3

LEMMA ReadFailsInv ==
    ASSUME Inv, NEW s \in Sessions, ReadFails(s)
    PROVE  Inv' /\ OnlyLate
<1>1. s \in Live /\ ses[s].stage # "ending" /\ ses[s].at # "arm"
  BY DEF ReadFails, InRead
<1> QED
  BY <1>1, EndInv DEF ReadFails, Drops, Reasons

LEMMA InterruptInv ==
    ASSUME Inv, NEW s \in Sessions, Interrupt(s)
    PROVE  Inv' /\ OnlyLate
<1> DEFINE r == ses[s]
           new == Interrupted(r)
<1>1. r \in Record /\ Good(s, r) /\ Alive(r) /\ r.cut = "due" /\ Stays(s, new)
  BY DEF Inv, Live, Alive, Interrupt
<1>2. s \in Wgs \ Raws
  BY <1>1, SessionsAssumption DEF Good, GoodRaw, Sessions
<1>3. new \in Record
  <2>1. 0 \in 0 .. 18
    OBVIOUS
  <2> QED
    BY <1>1, <2>1 DEF Record, Interrupted
<1>4. /\ new.stage = r.stage /\ new.at = r.at /\ new.left = 0
      /\ new.cut = "done" /\ ~new.down /\ new.why = r.why
      /\ new.quiet = r.quiet /\ new.seen = r.seen
  BY <1>1 DEF Record, Interrupted
<1>5. GoodWg(new)
  BY <1>1, <1>2, <1>4 DEF Good, GoodWg, Alive, Record
<1>6. Shut(s, new)
  <2>1. since \in Nat
    BY DEF Inv, Globals
  <2> QED
    BY <1>1, <1>2, <1>4, <2>1 DEF Good, Shut, Alive, Record
<1>7. Good(s, new) /\ (Drops(s, new.why) => Late(s))
  BY <1>2, <1>3, <1>4, <1>5, <1>6 DEF Good, Drops
<1> QED
  BY <1>1, <1>7, StaysInv

LEMMA BothEndedInv ==
    ASSUME Inv, NEW s \in Sessions, BothEnded(s)
    PROVE  Inv' /\ OnlyLate
<1>1. ses[s].why \in Reasons
  BY DEF Inv, Record
<1> QED
  BY <1>1, LeaveInv DEF BothEnded, Drops

LEMMA StepInv ==
    ASSUME Inv, NEW s \in Sessions, Step(s)
    PROVE  Inv' /\ OnlyLate
BY ArmInv, CheckInv, TimesOutInv, ReadFailsInv, InterruptInv, BothEndedInv
DEF Step

(***************************************************************************)
(* What its client and WireGuard do                                        *)
(***************************************************************************)
LEMMA HeardFields ==
    ASSUME NEW r \in Record, NEW next \in Stages,
           NEW at \in {"arm", "read", "check"}
    PROVE  LET h == Heard(r, next, at)
           IN  /\ h \in Record
               /\ h.stage = next /\ h.at = at /\ h.quiet = 0
               /\ h.left = r.left /\ h.cut = r.cut /\ h.down = r.down
               /\ h.seen = r.seen /\ h.why = r.why
<1>1. 0 \in 0 .. Long
  BY DEF Long
<1> QED
  BY <1>1 DEF Record, Heard

LEMMA TouchedFields ==
    ASSUME NEW r \in Record
    PROVE  LET h == Touched(r)
           IN  /\ h \in Record /\ h.seen = 0
               /\ h.stage = r.stage /\ h.at = r.at /\ h.quiet = r.quiet
               /\ h.left = r.left /\ h.cut = r.cut /\ h.down = r.down
               /\ h.why = r.why
<1>1. 0 \in 0 .. Long
  BY DEF Long
<1> QED
  BY <1>1 DEF Record, Touched

LEMMA RawHeardInv ==
    ASSUME Inv, NEW s \in Raws, RawHeard(s),
           stop = "closed" => s \in open, ses[s].cut = "no", ~ses[s].down
    PROVE  Inv' /\ OnlyLate
<1> DEFINE r == ses[s]
<1>1. r \in Record /\ Good(s, r) /\ s \in Sessions /\ s \notin Wgs
  BY SessionsAssumption DEF Inv, Sessions
<1>2. CASE Stays(s, Heard(r, "command", "arm"))
  <2> DEFINE new == Heard(r, "command", "arm")
  <2>1. /\ new \in Record /\ new.stage = "command" /\ new.at = "arm"
        /\ new.quiet = 0 /\ new.cut = r.cut /\ new.down = r.down
        /\ new.why = r.why
    BY <1>1, HeardFields DEF Stages
  <2>2. Good(s, new) /\ (Drops(s, new.why) => Late(s))
    BY <1>1, <2>1 DEF Good, GoodRaw, Shut, Drops
  <2> QED
    BY <1>1, <1>2, <2>2, StaysInv
<1>3. CASE Connect(s, Heard(r, "proxy", "arm"))
  <2> DEFINE h == Heard(r, "proxy", "arm")
             new == Touched(h)
  <2>1. h \in Record /\ h.why = r.why
    BY <1>1, HeardFields DEF Stages
  <2>2. /\ new \in Record /\ new.stage = "proxy" /\ new.at = "arm"
        /\ new.quiet = 0 /\ new.cut = r.cut /\ new.down = r.down
    BY <1>1, HeardFields, TouchedFields DEF Stages
  <2>3. Good(s, new)
    BY <1>1, <2>2 DEF Good, GoodRaw, Shut
  <2> QED
    BY <1>1, <1>3, <2>1, <2>3, ConnectInv
<1>4. CASE Leave(s, "other")
  BY <1>1, <1>4, LeaveInv DEF Drops, Reasons
<1> QED
  BY <1>2, <1>3, <1>4 DEF RawHeard

LEMMA AcceptInv ==
    ASSUME Inv, NEW s \in Sessions, Accept(s)
    PROVE  Inv' /\ OnlyLate
<1> DEFINE r == ses[s]
           wg == [r EXCEPT !.stage = "handshake"]
<1>1. r \in Record /\ Good(s, r) /\ r = Waiting /\ stop = "no"
  BY DEF Inv, Good, GoodWg, GoodRaw, Accept, cancelled, Sessions
<1>2. CASE s \in Wgs /\ Stays(s, wg)
  <2>1. wg \in Record
    BY <1>1 DEF Record, Stages
  <2>2. /\ wg.stage = "handshake" /\ wg.at = "read" /\ wg.left = 12
        /\ wg.cut = "no" /\ ~wg.down /\ wg.why = r.why
        /\ wg.quiet = 0 /\ wg.seen = 0
    BY <1>1 DEF Waiting
  <2>3. GoodWg(wg) /\ Shut(s, wg)
    BY <1>1, <2>2 DEF GoodWg, Shut, Alive, cancelled
  <2>4. Good(s, wg) /\ (Drops(s, wg.why) => Late(s))
    BY <1>2, <2>1, <2>2, <2>3, SessionsAssumption DEF Good, Drops
  <2> QED
    BY <1>2, <2>4, StaysInv
<1>3. CASE s \in Raws /\ RawHeard(s)
  BY <1>1, <1>3, RawHeardInv DEF Waiting
<1> QED
  BY <1>2, <1>3 DEF Accept

LEMMA HandshakeInv ==
    ASSUME Inv, NEW s \in Sessions, Handshake(s)
    PROVE  Inv' /\ OnlyLate
<1> DEFINE r == ses[s]
           h == Heard(r, "command", "arm")
           new == Touched(h)
<1>1. /\ r \in Record /\ Good(s, r) /\ s \in open /\ r.stage = "handshake"
      /\ Connect(s, h)
  BY DEF Inv, Handshake, Reads
<1>2. s \in Wgs \ Raws
  BY <1>1, SessionsAssumption DEF Good, GoodRaw, Sessions
<1>3. h \in Record /\ h.why = r.why
  BY <1>1, HeardFields DEF Stages
<1>4. /\ new \in Record /\ new.stage = "command" /\ new.at = "arm"
      /\ new.quiet = 0 /\ new.seen = 0 /\ new.down = r.down
  BY <1>1, HeardFields, TouchedFields DEF Stages
<1>5. GoodWg(new) /\ Shut(s, new)
  BY <1>1, <1>2, <1>4 DEF Good, GoodWg, Shut, Alive
<1>6. Good(s, new)
  BY <1>2, <1>4, <1>5 DEF Good
<1> QED
  BY <1>1, <1>3, <1>6, ConnectInv

LEMMA CommandInv ==
    ASSUME Inv, NEW s \in Sessions, Command(s)
    PROVE  Inv' /\ OnlyLate
<1> DEFINE r == ses[s]
<1>1. /\ r \in Record /\ Good(s, r) /\ s \in open
      /\ s \in Wgs \ Raws /\ Follows(r.stage) # {}
  BY SessionsAssumption DEF Inv, Command, Reads
<1>2. PICK next \in Follows(r.stage) :
          Stays(s, IF next = "proxy" THEN ProxyStarts(r)
                   ELSE Heard(r, next, "arm"))
  BY DEF Command
<1>3. /\ r.stage \in {"command", "getconf", "auth", "ready"}
      /\ next \in {"getconf", "auth", "ready", "proxy"}
  BY <1>1, <1>2 DEF Follows
<1>4. ~r.down /\ r.quiet \in 0 .. Long /\ r.seen \in 0 .. Long
  BY <1>1, <1>3 DEF Good, GoodWg, Record
<1>5. CASE next = "proxy"
  <2> DEFINE h == Heard(r, "proxy", "check")
             new == ProxyStarts(r)
  <2>1. /\ h \in Record /\ h.stage = "proxy" /\ h.at = "check"
        /\ h.quiet = 0 /\ h.seen = r.seen /\ h.why = r.why
    BY <1>1, HeardFields DEF Stages
  <2>2. new \in Record
    BY <2>1, TRUE \in BOOLEAN DEF Record, ProxyStarts
  <2>3. /\ new.stage = "proxy" /\ new.at = "check" /\ new.quiet = 0
        /\ new.cut = (IF cancelled THEN "due" ELSE "no")
        /\ new.seen = r.seen /\ new.why = r.why
    BY <2>1 DEF Record, ProxyStarts
  <2>4. GoodWg(new) /\ Shut(s, new)
    BY <1>1, <1>4, <2>3 DEF GoodWg, Shut, Alive
  <2>5. Good(s, new) /\ (Drops(s, new.why) => Late(s))
    BY <1>1, <2>2, <2>3, <2>4 DEF Good, Drops
  <2> QED
    BY <1>2, <1>5, <2>5, StaysInv
<1>6. CASE next # "proxy"
  <2> DEFINE new == Heard(r, next, "arm")
  <2>1. /\ new \in Record /\ new.stage = next /\ new.at = "arm"
        /\ new.quiet = 0 /\ new.seen = r.seen /\ new.why = r.why
        /\ new.down = r.down
    BY <1>1, <1>3, HeardFields DEF Stages
  <2>2. GoodWg(new) /\ Shut(s, new)
    BY <1>1, <1>3, <1>4, <1>6, <2>1 DEF GoodWg, Shut, Alive
  <2>3. Good(s, new) /\ (Drops(s, new.why) => Late(s))
    BY <1>1, <2>1, <2>2 DEF Good, Drops
  <2> QED
    BY <1>2, <1>6, <2>3, StaysInv
<1> QED
  BY <1>5, <1>6

LEMMA DeniedInv ==
    ASSUME Inv, NEW s \in Sessions, Denied(s)
    PROVE  Inv' /\ OnlyLate
<1>1. ~ses[s].down
  BY DEF Inv, Good, GoodWg, Denied, Reads, InRead
<1> QED
  BY <1>1, LeaveInv DEF Denied, Drops, Reasons

LEMMA RawCommandInv ==
    ASSUME Inv, NEW s \in Sessions, RawCommand(s)
    PROVE  Inv' /\ OnlyLate
<1>1. s \in Raws /\ s \in open /\ RawHeard(s)
  BY DEF RawCommand, Reads
<1>2. ses[s].cut = "no" /\ ~ses[s].down
  BY <1>1, SessionsAssumption DEF Inv, Good, GoodRaw
<1> QED
  BY <1>1, <1>2, RawHeardInv

(* A packet that is forwarded.                                             *)
LEMMA ForwardInv ==
    ASSUME Inv, NEW s \in Sessions, Reads(s), ses[s].stage = "proxy",
           Stays(s, Touched(Heard(ses[s], "proxy",
                                  IF s \in Wgs THEN "check" ELSE "arm")))
    PROVE  Inv' /\ OnlyLate
<1> DEFINE r == ses[s]
           at == IF s \in Wgs THEN "check" ELSE "arm"
           new == Touched(Heard(r, "proxy", at))
<1>1. r \in Record /\ Good(s, r) /\ s \in open
  BY DEF Inv, Reads
<1>2. /\ new \in Record /\ new.stage = "proxy" /\ new.at = at
      /\ new.quiet = 0 /\ new.seen = 0 /\ new.cut = r.cut
      /\ new.down = r.down /\ new.why = r.why
  BY <1>1, HeardFields, TouchedFields DEF Stages
<1>3. s \in Wgs => GoodWg(new)
  BY <1>1, <1>2 DEF Good, GoodWg
<1>4. s \in Raws => GoodRaw(new)
  BY <1>1, <1>2, SessionsAssumption DEF Good, GoodRaw
<1>5. Shut(s, new)
  BY <1>1, <1>2 DEF Good, Shut
<1>6. Good(s, new) /\ (Drops(s, new.why) => Late(s))
  BY <1>2, <1>3, <1>4, <1>5 DEF Good, Drops
<1> QED
  BY <1>6, StaysInv

LEMMA DataInv ==
    ASSUME Inv, NEW s \in Sessions, Data(s)
    PROVE  Inv' /\ OnlyLate
<1>1. CASE s \in Raws /\ cancelled
  <2>1. ~ses[s].down
    BY <1>1 DEF Inv, Good, GoodRaw
  <2> QED
    BY <1>1, <2>1, LeaveInv DEF Data, Drops, Reasons
<1>2. CASE ~(s \in Raws /\ cancelled)
  BY <1>2, ForwardInv DEF Data
<1> QED
  BY <1>1, <1>2

LEMMA NotDeliveredInv ==
    ASSUME Inv, NEW s \in Sessions, NotDelivered(s)
    PROVE  Inv' /\ OnlyLate
<1>1. s \in Live /\ ses[s].stage # "ending" /\ ses[s].at # "arm"
  BY DEF NotDelivered, Reads, InRead
<1> QED
  BY <1>1, EndInv DEF NotDelivered, Drops, Reasons

LEMMA DisconnectInv ==
    ASSUME Inv, NEW s \in Sessions, Disconnect(s)
    PROVE  Inv' /\ OnlyLate
<1>1. ~ses[s].down
  BY DEF Inv, Good, GoodRaw, Disconnect
<1> QED
  BY <1>1, LeaveInv DEF Disconnect, Drops, Reasons

LEMMA DownlinkInv ==
    ASSUME Inv, NEW s \in Sessions, Downlink(s)
    PROVE  Inv' /\ OnlyLate
<1> DEFINE r == ses[s]
           new == SentTo(s)
<1>1. r \in Record /\ Good(s, r) /\ r.stage = "proxy" /\ Stays(s, new)
  BY DEF Inv, Downlink
<1>2. CASE s \in Raws
  <2>1. /\ new \in Record /\ new.stage = r.stage /\ new.at = r.at
        /\ new.quiet = r.quiet /\ new.left = r.left /\ new.cut = r.cut
        /\ new.down = r.down /\ new.why = r.why
    BY <1>1, <1>2, TouchedFields DEF SentTo
  <2>2. GoodRaw(new) /\ Shut(s, new)
    BY <1>1, <1>2, <2>1, SessionsAssumption DEF Good, GoodRaw, Shut, Alive
  <2>3. Good(s, new) /\ (Drops(s, new.why) => Late(s))
    BY <1>2, <2>1, <2>2, SessionsAssumption DEF Good, Drops
  <2> QED
    BY <1>1, <2>3, StaysInv
<1>3. CASE s \notin Raws
  BY <1>1, <1>3, StaysInv DEF SentTo, Drops
<1> QED
  BY <1>2, <1>3

LEMMA DownEndsInv ==
    ASSUME Inv, NEW s \in Sessions, DownEnds(s)
    PROVE  Inv' /\ OnlyLate
<1> DEFINE r == ses[s]
           new == [r EXCEPT !.down = FALSE, !.cut = Cut(@), !.why = "other"]
<1>1. /\ r \in Record /\ Good(s, r) /\ r.stage = "proxy" /\ r.down
      /\ Stays(s, new)
  BY DEF Inv, DownEnds
<1>2. s \in Wgs \ Raws
  BY <1>1, SessionsAssumption DEF Good, GoodRaw, Sessions
<1>3. Cut(r.cut) \in {"due", "done"}
  BY <1>1 DEF Record, Cut
<1>4. new \in Record
  BY <1>1, <1>3, FALSE \in BOOLEAN DEF Record, Reasons
<1>5. /\ new.stage = "proxy" /\ new.at = r.at /\ new.left = r.left
      /\ new.cut = Cut(r.cut) /\ ~new.down /\ new.why = "other"
      /\ new.quiet = r.quiet /\ new.seen = r.seen
  BY <1>1 DEF Record
<1>6. GoodWg(new) /\ Shut(s, new)
  BY <1>1, <1>2, <1>3, <1>5 DEF Good, GoodWg, Shut, Alive
<1>7. Good(s, new) /\ (Drops(s, new.why) => Late(s))
  BY <1>2, <1>4, <1>5, <1>6 DEF Good, Drops
<1> QED
  BY <1>1, <1>7, StaysInv

LEMMA TrafficInv ==
    ASSUME Inv, NEW s \in Sessions, Traffic(s)
    PROVE  Inv' /\ OnlyLate
BY AcceptInv, HandshakeInv, CommandInv, DeniedInv, RawCommandInv, ForwardInv,
   DataInv, NotDeliveredInv, DisconnectInv, DownlinkInv, DownEndsInv
DEF Traffic, Keepalive

(***************************************************************************)
(* The transport and time                                                  *)
(***************************************************************************)
LEMMA CancelInv ==
    ASSUME Inv, Cancel
    PROVE  Inv' /\ OnlyLate
<1>1. Globals' /\ since = 0 /\ since' = 0
  BY DEF Inv, Globals, Cancel, cancelled
<1>2. ASSUME NEW s \in Sessions
      PROVE  /\ ses'[s] \in Record /\ Good(s, ses[s])'
             /\ ses'[s].why = ses[s].why
  <2> DEFINE r == ses[s]
             new == [r EXCEPT !.cut = Cut(@)]
  <2>1. r \in Record /\ Good(s, r)
    BY DEF Inv
  <2>2. CASE s \in Live \cap Wgs
    <3>1. ses'[s] = new
      BY <2>2 DEF Cancel
    <3>2. /\ Cut(r.cut) \in {"due", "done"}
          /\ r.cut = "done" <=> Cut(r.cut) = "done"
      BY <2>1 DEF Record, Cut
    <3>3. /\ new \in Record /\ new.stage = r.stage /\ new.at = r.at
          /\ new.left = r.left /\ new.cut = Cut(r.cut) /\ new.down = r.down
          /\ new.quiet = r.quiet /\ new.seen = r.seen /\ new.why = r.why
      BY <2>1, <3>2 DEF Record
    <3>4. GoodWg(new)
      BY <2>1, <2>2, <3>2, <3>3 DEF Good, GoodWg, Live, Alive
    <3>5. Shut(s, ses[s])'
      BY <1>1, <3>1, <3>2, <3>3, <3>4
      DEF Shut, GoodWg, Cancel, cancelled, Record
    <3> QED
      BY <2>2, <3>1, <3>3, <3>4, <3>5, SessionsAssumption DEF Good
  <2>3. CASE s \notin Live \cap Wgs
    <3>1. ses'[s] = r
      BY <2>3 DEF Cancel
    <3>2. Shut(s, ses[s])'
      BY <2>3, <3>1 DEF Shut, Cancel, cancelled, Live
    <3> QED
      BY <2>1, <3>1, <3>2 DEF Good
  <2> QED
    BY <2>2, <2>3
<1>3. ses' \in [Sessions -> Record]
  BY <1>2 DEF Cancel
<1> QED
  BY <1>1, <1>2, <1>3 DEF Inv, OnlyLate, Drops

LEMMA CloseEndpointsInv ==
    ASSUME Inv, CloseEndpoints
    PROVE  Inv' /\ OnlyLate
<1>1. Globals' /\ since = 0 /\ UNCHANGED <<ses, since>>
  BY DEF Inv, Globals, CloseEndpoints, Live
<1>2. ASSUME NEW s \in Sessions PROVE Good(s, ses[s])'
  <2>1. Good(s, ses[s]) /\ ses[s].quiet \in 0 .. Long
    BY DEF Inv, Record
  <2>2. Shut(s, ses[s])'
    BY <1>1, <2>1 DEF Good, Shut, CloseEndpoints, cancelled, Long
  <2> QED
    BY <1>1, <2>1, <2>2 DEF Good
<1> QED
  BY <1>1, <1>2 DEF Inv, OnlyLate, Drops

LEMMA ResetSessionsInv ==
    ASSUME Inv, ResetSessions
    PROVE  Inv' /\ OnlyLate
<1>1. UNCHANGED <<ses, open, stop, since>> /\ listed' = {}
  BY DEF ResetSessions
<1>2. Globals'
  BY <1>1 DEF Inv, Globals
<1>3. ASSUME NEW s \in Sessions PROVE Good(s, ses[s])'
  BY <1>1 DEF Inv, Good, Shut, cancelled
<1> QED
  BY <1>1, <1>2, <1>3 DEF Inv, OnlyLate, Drops

LEMMA OneMoreFacts ==
    /\ \A n \in 0 .. Long : OneMore(n) \in 0 .. Long /\ n <= OneMore(n)
    /\ \A m, n \in 0 .. Long : m <= n => OneMore(m) <= OneMore(n)
    /\ \A n \in 0 .. Long : n < Long => OneMore(n) = n + 1
BY DEF OneMore, Long

(* Time passes for a session that has nothing to do at once: its loop is   *)
(* in a read, or waits for the other one, with a deadline ahead.           *)
LEMMA TickInv ==
    ASSUME Inv, Tick
    PROVE  Inv' /\ OnlyLate
<1>1. /\ UNCHANGED <<listed, open, stop>> /\ since \in 0 .. Long
      /\ since' = IF cancelled THEN OneMore(since) ELSE since
  BY DEF Tick, Inv, Globals
<1>2. Globals'
  BY <1>1, OneMoreFacts DEF Inv, Globals, Tick, cancelled
<1>3. ASSUME NEW s \in Sessions
      PROVE  /\ ses'[s] \in Record /\ Good(s, ses[s])'
             /\ ses'[s].why = ses[s].why
  <2> DEFINE r == ses[s]
             new == [r EXCEPT !.left = IF @ = 0 THEN 0 ELSE @ - 1,
                              !.quiet = OneMore(@), !.seen = OneMore(@)]
  <2>1. r \in Record /\ Good(s, r)
    BY DEF Inv
  <2>2. CASE s \in Live
    <3>1. ses'[s] = new
      BY <2>2 DEF Tick
    <3>2. Alive(r) /\ ~Urgent(s)
      BY <2>2 DEF Tick, Live, Alive
    <3>3. /\ r.at = "read" /\ r.cut # "due"
          /\ r.stage # "ending" => r.left > 0 /\ s \notin Wgs \ open
          /\ r.stage = "ending" => r.down
      BY <2>1, <2>2, <3>2 DEF Urgent, InRead, Record
    <3>4. r.stage # "ending"
      BY <2>1, <3>3 DEF Good, GoodWg, GoodRaw, Record, Sessions
    <3>5. /\ r.quiet \in 0 .. Long /\ r.seen \in 0 .. Long /\ r.left \in 1 .. 18
          /\ r.left - 1 \in 0 .. 18
      BY <2>1, <3>3, <3>4 DEF Record
    <3>6. /\ OneMore(r.quiet) \in 0 .. Long /\ OneMore(r.seen) \in 0 .. Long
          /\ r.quiet <= r.seen => OneMore(r.quiet) <= OneMore(r.seen)
          /\ since <= r.quiet => OneMore(since) <= OneMore(r.quiet)
          /\ r.quiet < Long => OneMore(r.quiet) = r.quiet + 1
          /\ OneMore(r.quiet) <= r.quiet + 1 /\ r.quiet <= OneMore(r.quiet)
          /\ OneMore(since) <= since + 1 /\ since <= OneMore(since)
      BY <1>1, <3>5 DEF OneMore, Long
    <3>7. (IF r.left = 0 THEN 0 ELSE r.left - 1) = r.left - 1
      BY <3>5
    <3>8. /\ new \in Record /\ new.stage = r.stage /\ new.at = "read"
          /\ new.left = r.left - 1 /\ new.cut = r.cut /\ new.down = r.down
          /\ new.quiet = OneMore(r.quiet) /\ new.seen = OneMore(r.seen)
          /\ new.why = r.why
      BY <2>1, <3>3, <3>5, <3>6, <3>7 DEF Record
    <3>9. s \in Wgs => GoodWg(new)
      BY <2>1, <3>2, <3>3, <3>4, <3>5, <3>6, <3>8
      DEF Good, GoodWg, Alive, Long
    <3>10. s \in Raws => GoodRaw(new)
      BY <2>1, <3>2, <3>3, <3>4, <3>5, <3>6, <3>8
      DEF Good, GoodRaw, Alive, Long
    <3>11. Shut(s, ses[s])'
      <4>1. stop = "closed" /\ s \notin open => s \notin Wgs /\ since <= r.quiet
        BY <2>1, <3>2, <3>3, <3>4 DEF Good, Shut
      <4>2. stop = "closed" /\ s \notin open
                => s \notin Wgs /\ since' <= OneMore(r.quiet)
        BY <1>1, <3>6, <4>1 DEF cancelled
      <4>3. s \in Wgs /\ cancelled /\ r.stage = "proxy"
                => r.cut # "no" /\ since + r.left <= 6
        BY <2>1, <3>3 DEF Good, Shut
      <4>4. s \in Wgs /\ cancelled /\ r.stage = "proxy"
                => r.cut # "no" /\ since' + (r.left - 1) <= 6
        <5>1. since' \in Int /\ since' <= since + 1
          BY <1>1, <3>6 DEF Inv, Globals, OneMore, Long
        <5> QED
          BY <1>1, <3>5, <4>3, <5>1
      <4> QED
        BY <1>1, <3>1, <3>8, <4>2, <4>4 DEF Shut, cancelled
    <3> QED
      BY <3>1, <3>8, <3>9, <3>10, <3>11 DEF Good
  <2>3. CASE s \notin Live
    <3>1. ses'[s] = r
      BY <2>3 DEF Tick
    <3>2. Shut(s, ses[s])'
      BY <2>3, <3>1 DEF Shut, Live, Alive
    <3> QED
      BY <2>1, <3>1, <3>2 DEF Good
  <2> QED
    BY <2>2, <2>3
<1>4. ses' \in [Sessions -> Record]
  BY <1>3 DEF Tick
<1> QED
  BY <1>2, <1>3, <1>4 DEF Inv, OnlyLate, Drops

LEMMA NextInv == Inv /\ [Next]_vars => Inv' /\ (OnlyLate \/ UNCHANGED ses)
<1> SUFFICES ASSUME Inv, [Next]_vars
             PROVE  Inv' /\ (OnlyLate \/ UNCHANGED ses)
  OBVIOUS
<1>1. CASE Next
  BY <1>1, StepInv, TrafficInv, CancelInv, CloseEndpointsInv, ResetSessionsInv,
     TickInv
  DEF Next
<1>2. CASE UNCHANGED vars
  BY <1>2 DEF vars, Inv, Globals, Good, Shut, cancelled
<1> QED
  BY <1>1, <1>2

LEMMA Invariance == Spec => []Inv
BY InitInv, NextInv, PTL DEF Spec

(***************************************************************************)
(* The theorems                                                            *)
(***************************************************************************)
(* Every reachable state is type correct, and the loop towards the client  *)
(* runs only for a session that is not over.                               *)
THEOREM SessionsTypeCorrect == Spec => []TypeOK
<1>1. Inv => TypeOK
  <2> SUFFICES ASSUME Inv PROVE TypeOK
    OBVIOUS
  <2>1. ASSUME NEW s \in Sessions, ses[s].down PROVE s \in Wgs /\ s \in Live
    BY <2>1 DEF Inv, Good, GoodWg, GoodRaw, Sessions, Live
  <2> QED
    BY <2>1 DEF Inv, Globals, TypeOK, Record, Stages, Reasons
<1> QED
  BY <1>1, Invariance, PTL

(* No session that forwards is silent for longer than its bound.           *)
THEOREM SilentSessionsEnd == Spec => []SilentEnds
<1>1. Inv => SilentEnds
  <2> SUFFICES ASSUME Inv, NEW s \in Live, ses[s].stage = "proxy"
               PROVE  ses[s].quiet <= IF s \in Wgs THEN 6 ELSE 8
    BY DEF SilentEnds
  <2>1. ses[s] \in Record /\ Good(s, ses[s]) /\ s \in Sessions
    BY DEF Inv, Live
  <2>2. CASE s \in Wgs
    BY <2>1, <2>2 DEF Good, GoodWg, Alive, Record
  <2>3. CASE s \in Raws \ Wgs
    BY <2>1, <2>3 DEF Good, GoodRaw, Record
  <2> QED
    BY <2>1, <2>2, <2>3 DEF Sessions
<1> QED
  BY <1>1, Invariance, PTL

(* What is online was heard.                                               *)
THEOREM OnlineWasHeard == Spec => []OnlineMeansHeard
<1>1. Inv => OnlineMeansHeard
  <2> SUFFICES ASSUME Inv, NEW s \in Wgs, ses[s].seen <= OnlineWindow
               PROVE  ses[s].quiet <= OnlineWindow
    BY DEF OnlineMeansHeard
  <2>1. ses[s] \in Record /\ GoodWg(ses[s])
    BY DEF Inv, Good, Sessions
  <2> QED
    BY <2>1 DEF GoodWg, Record, OnlineWindow
<1> QED
  BY <1>1, Invariance, PTL

(* The shutdown ends every session within its bound.                       *)
THEOREM ShutdownIsBounded == Spec => []ShutdownBound
<1>1. Inv => ShutdownBound
  <2> SUFFICES ASSUME Inv, NEW s \in Live, stop = "closed"
               PROVE  IF s \in Wgs
                      THEN /\ s \notin open => since = 0
                           /\ ses[s].stage = "proxy" /\ ses[s].at = "read"
                                  => since <= 6
                      ELSE s \notin open => since <= 9
    BY DEF ShutdownBound
  <2>1. /\ ses[s] \in Record /\ Good(s, ses[s]) /\ s \in Sessions
        /\ Alive(ses[s]) /\ since \in 0 .. Long
    BY DEF Inv, Globals, Live, Alive
  <2>2. CASE s \in Wgs
    BY <2>1, <2>2 DEF Good, Shut, cancelled, Record, Long
  <2>3. CASE s \in Raws \ Wgs
    <3>1. ses[s].quiet <= 9
      BY <2>1, <2>3 DEF Good, GoodRaw, Alive, Record
    <3> QED
      BY <2>1, <2>3, <3>1 DEF Good, Shut, Record, Long
  <2> QED
    BY <2>1, <2>2, <2>3 DEF Sessions
<1> QED
  BY <1>1, Invariance, PTL

(* Only a session that was silent for its whole bound is dropped for that. *)
THEOREM DroppedWereSilent == Spec => OnlySilentDropped
<1>1. Inv /\ [Next]_vars =>
          [\A s \in Sessions :
              ses[s].why = "none" /\ ses'[s].why = "silence"
                  => ses[s].quiet >= IF s \in Wgs THEN 6 ELSE 8]_vars
  BY NextInv DEF OnlyLate, Drops, Late
<1> QED
  BY <1>1, Invariance, PTL DEF Spec, OnlySilentDropped

(***************************************************************************)
(* Traffic: the inductive invariant                                        *)
(***************************************************************************)
Shots == [at : Nat, rx : Nat, tx : Nat]
Request ==
    [pc : {"idle", "load", "rate"}, shot : Shots, shared : BOOLEAN]

Types ==
    /\ tracked \in Objects
    /\ found \in [Clients -> Objects] /\ object \in [Clients -> Objects]
    /\ rx \in [Objects -> 0 .. MaxBytes] /\ tx \in [Objects -> 0 .. MaxBytes]
    /\ panel \in [Panels -> Request]
    /\ prev \in Shots
    /\ clock \in 0 .. MaxShots

(* What a session has found or counts in is the object in the map, which   *)
(* is never replaced.                                                      *)
Tallies ==
    \A c \in Clients :
        found[c] \in {None, tracked} /\ object[c] \in {None, tracked}

(* Counters only grow: what was read of them is in their past.             *)
InThePast(shot) ==
    /\ shot.at <= clock
    /\ shot.rx <= rx[tracked] /\ shot.tx <= tx[tracked]

Past == InThePast(prev) /\ \A p \in Panels : InThePast(panel[p].shot)

(* Nobody has read anything before there is an object, and a request has   *)
(* read nothing before its Load.                                           *)
Unread ==
    /\ tracked = None => Busy = {} /\ prev = NoShot
    /\ \A p \in Panels :
          panel[p].pc # "rate" => panel[p].shot.rx = 0 /\ panel[p].shot.tx = 0
    /\ \A p \in Panels : panel[p].pc = "idle" => panel[p].shot.at = 0

(* Two requests that take snapshots at once know of each other.            *)
SharedKnown ==
    \A p, q \in Busy : p # q => panel[p].shared /\ panel[q].shared

(* The snapshot before a request's own Load was read before it, unless     *)
(* another request came in between.                                        *)
Ordered ==
    \A p \in Panels : panel[p].pc = "rate" /\ ~panel[p].shared =>
        panel[p].shot.rx >= prev.rx /\ panel[p].shot.tx >= prev.tx

TallyInv == Types /\ Tallies /\ Past /\ Unread /\ SharedKnown /\ Ordered

LEMMA TallyInitInv == TrafficInit => TallyInv
BY TrafficAssumption
   DEF TrafficInit, TallyInv, Types, Tallies, Past, InThePast, Unread,
       SharedKnown, Ordered, Busy, Objects, Resting, NoShot, Shots, Request

(***************************************************************************)
(* Traffic: one lemma for each group of actions                            *)
(***************************************************************************)
LEMMA ConnectModeInv ==
    ASSUME TallyInv, NEW c \in Clients, Look(c) \/ ConnectMode(c)
    PROVE  TallyInv'
<1> USE TrafficAssumption DEF TallyInv, Types, Objects, Request
<1>1. CASE Look(c)
  BY <1>1 DEF Look, Tallies, Past, InThePast, Unread, SharedKnown, Ordered, Busy
<1>2. CASE ConnectMode(c)
  <2>1. UNCHANGED <<found, rx, tx, panel, prev, clock>> /\ Busy' = Busy
    BY <1>2 DEF ConnectMode, Busy
  <2>2. Chosen(c) \in Clients /\ Chosen(c) \in Objects
    BY DEF Chosen, Tallies
  <2>3. tracked' = Chosen(c) /\ (tracked # None => tracked' = tracked)
    BY <1>2 DEF ConnectMode, Chosen, Tallies
  <2>4. Types'
    BY <1>2, <2>1, <2>2, <2>3 DEF ConnectMode
  <2>5. Tallies'
    BY <1>2, <2>1, <2>2, <2>3 DEF ConnectMode, Tallies
  <2>6. Past'
    <3>1. CASE tracked = None
      <4>1. prev = NoShot
            /\ \A p \in Panels : panel[p].shot = NoShot
        BY <3>1 DEF Unread, Busy, Shots, NoShot, Request
      <4>2. rx[tracked'] \in Nat /\ tx[tracked'] \in Nat /\ clock \in Nat
        BY <2>2, <2>3
      <4>3. QED
        BY <2>1, <4>1, <4>2 DEF Past, InThePast, NoShot
    <3>2. CASE tracked # None
      BY <2>1, <2>3, <3>2 DEF Past, InThePast
    <3>3. QED
      BY <3>1, <3>2
  <2>7. Unread'
    BY <2>1, <2>2, <2>3 DEF Unread
  <2>8. SharedKnown' /\ Ordered'
    BY <2>1 DEF SharedKnown, Ordered
  <2>9. QED
    BY <2>4, <2>5, <2>6, <2>7, <2>8
<1>3. QED
  BY <1>1, <1>2

LEMMA CountType ==
    ASSUME NEW f \in [Objects -> 0 .. MaxBytes], NEW c \in Clients,
           object[c] \in Objects
    PROVE  /\ Count(f, c) \in [Objects -> 0 .. MaxBytes]
           /\ \A o \in Objects : Count(f, c)[o] >= f[o]
BY TrafficAssumption DEF Count

LEMMA AddInv ==
    ASSUME TallyInv, NEW c \in Clients, AddRX(c) \/ AddTX(c)
    PROVE  TallyInv'
<1> USE TrafficAssumption DEF TallyInv, Types, Request
<1>1. /\ UNCHANGED <<tracked, found, object, panel, prev, clock>>
      /\ rx' \in [Objects -> 0 .. MaxBytes] /\ tx' \in [Objects -> 0 .. MaxBytes]
      /\ rx'[tracked] >= rx[tracked] /\ tx'[tracked] >= tx[tracked]
  BY CountType DEF AddRX, AddTX
<1>2. Past'
  <2>1. \A shot \in Shots : InThePast(shot) => InThePast(shot)'
    BY <1>1 DEF InThePast, Shots
  <2>2. QED
    BY <1>1, <2>1 DEF Past, InThePast
<1>3. QED
  BY <1>1, <1>2 DEF Tallies, Unread, SharedKnown, Ordered, Busy

LEMMA SnapshotInv ==
    ASSUME TallyInv, NEW p \in Panels, Now(p) \/ Load(p) \/ Rate(p)
    PROVE  TallyInv'
<1> USE TrafficAssumption DEF TallyInv, Types, Shots, Request
<1>1. CASE Now(p)
  <2>1. /\ UNCHANGED <<tracked, found, object, rx, tx, prev>>
        /\ tracked # None /\ clock' = clock + 1 /\ clock' \in 0 .. MaxShots
    BY <1>1 DEF Now
  <2>2. panel'[p] = [pc |-> "load", shot |-> [at |-> clock', rx |-> 0, tx |-> 0],
                     shared |-> Busy # {}]
    BY <1>1 DEF Now, NoShot
  <2>3. \A q \in Panels \ {p} :
           /\ panel'[q].pc = panel[q].pc /\ panel'[q].shot = panel[q].shot
           /\ panel'[q].shared
           /\ panel'[q] \in Request
    <3> SUFFICES ASSUME NEW q \in Panels \ {p}
                 PROVE  /\ panel'[q].pc = panel[q].pc
                        /\ panel'[q].shot = panel[q].shot
                        /\ panel'[q].shared
                        /\ panel'[q] \in Request
      OBVIOUS
    <3>1. panel'[q] = [panel[q] EXCEPT !.shared = TRUE]
      BY <1>1 DEF Now
    <3>2. panel[q] \in Request
      OBVIOUS
    <3>3. QED
      BY <3>1, <3>2
  <2>4. panel' \in [Panels -> Request]
    <3>1. panel' = [q \in Panels |-> panel'[q]]
      BY <1>1 DEF Now
    <3>2. [at |-> clock', rx |-> 0, tx |-> 0] \in Shots /\ (Busy # {}) \in BOOLEAN
      BY <2>1
    <3>3. panel'[p] \in Request
      BY <2>2, <3>2
    <3>4. QED
      BY <2>3, <3>1, <3>3
  <2>5. Types' /\ Tallies'
    BY <2>1, <2>4 DEF Tallies
  <2>6. Past'
    <3>1. InThePast(prev)' /\ \A q \in Panels \ {p} : InThePast(panel[q].shot)'
      BY <2>1, <2>3 DEF Past, InThePast
    <3>2. InThePast(panel[p].shot)'
      BY <2>1, <2>2 DEF InThePast
    <3>3. QED
      BY <3>1, <3>2 DEF Past
  <2>7. Unread'
    <3>1. panel'[p].pc = "load" /\ panel'[p].shot.rx = 0 /\ panel'[p].shot.tx = 0
      BY <2>2
    <3>2. QED
      BY <2>1, <2>3, <3>1 DEF Unread
  <2>8. SharedKnown'
    <3>1. \A q \in Busy' : q # p => q \in Busy
      BY <2>3 DEF Busy
    <3>2. QED
      BY <2>2, <2>3, <3>1 DEF SharedKnown, Busy
  <2>9. Ordered'
    BY <2>1, <2>2, <2>3 DEF Ordered
  <2>10. QED
    BY <2>5, <2>6, <2>7, <2>8, <2>9
<1>2. CASE Load(p)
  <2>1. UNCHANGED <<tracked, found, object, rx, tx, prev, clock>>
    BY <1>2 DEF Load
  <2>2. /\ panel[p].pc = "load"
        /\ panel'[p] = [pc |-> "rate",
                        shot |-> [at |-> panel[p].shot.at, rx |-> rx[tracked],
                                  tx |-> tx[tracked]],
                        shared |-> panel[p].shared]
    BY <1>2 DEF Load
  <2>3. \A q \in Panels \ {p} : panel'[q] = panel[q]
    BY <1>2 DEF Load
  <2>4. rx[tracked] \in Nat /\ tx[tracked] \in Nat
    OBVIOUS
  <2>5. Types' /\ Tallies'
    <3>1. panel' = [q \in Panels |-> panel'[q]]
      BY <1>2 DEF Load
    <3>2. \A q \in Panels : panel'[q] \in Request
      BY <2>2, <2>3, <2>4
    <3>3. panel' \in [Panels -> Request]
      BY <3>1, <3>2
    <3>4. QED
      BY <2>1, <3>3 DEF Tallies
  <2>6. Past'
    BY <2>1, <2>2, <2>3, <2>4 DEF Past, InThePast
  <2>7. Unread'
    <3>1. tracked # None
      BY <2>2 DEF Unread, Busy
    <3>2. panel'[p].pc = "rate"
      BY <2>2
    <3>3. QED
      BY <2>1, <2>3, <3>1, <3>2 DEF Unread
  <2>8. SharedKnown'
    <3>1. Busy' = Busy /\ \A q \in Panels : panel'[q].shared = panel[q].shared
      BY <2>2, <2>3 DEF Busy
    <3>2. QED
      BY <3>1 DEF SharedKnown, Busy
  <2>9. Ordered'
    BY <2>1, <2>2, <2>3, <2>4 DEF Ordered, Past, InThePast
  <2>10. QED
    BY <2>5, <2>6, <2>7, <2>8, <2>9
<1>3. CASE Rate(p)
  <2>1. /\ UNCHANGED <<tracked, found, object, rx, tx, clock>>
        /\ panel[p].pc = "rate" /\ prev' = panel[p].shot
    BY <1>3 DEF Rate, Kept
  <2>2. panel'[p] = Resting
    BY <1>3 DEF Rate
  <2>3. \A q \in Panels \ {p} : panel'[q] = panel[q]
    BY <1>3 DEF Rate
  <2>4. Resting \in Request
    BY DEF Resting, NoShot
  <2>5. Types' /\ Tallies'
    <3>1. panel' \in [Panels -> Request]
      BY <1>3, <2>4 DEF Rate
    <3>2. QED
      BY <2>1, <3>1 DEF Tallies
  <2>6. Past'
    <3>1. /\ rx[tracked] \in Nat /\ tx[tracked] \in Nat /\ clock \in Nat
      OBVIOUS
    <3>2. QED
      BY <2>1, <2>2, <2>3, <3>1 DEF Past, InThePast, Resting, NoShot
  <2>7. Unread'
    <3>1. tracked # None
      BY <2>1 DEF Unread, Busy
    <3>2. QED
      BY <2>1, <2>2, <2>3, <3>1 DEF Unread, Resting, NoShot
  <2>8. SharedKnown'
    <3>1. \A q \in Busy' : q \in Busy /\ q # p
      BY <2>2, <2>3 DEF Busy, Resting
    <3>2. QED
      BY <2>3, <3>1 DEF SharedKnown, Busy
  <2>9. Ordered'
    <3>1. \A q \in Panels \ {p} : panel[q].pc = "rate" => panel[q].shared
      BY <2>1 DEF SharedKnown, Busy
    <3>2. QED
      BY <2>2, <2>3, <3>1 DEF Ordered, Resting
  <2>10. QED
    BY <2>5, <2>6, <2>7, <2>8, <2>9
<1>4. QED
  BY <1>1, <1>2, <1>3

LEMMA TallyNextInv == TallyInv /\ [TrafficNext]_trafficVars => TallyInv'
<1> SUFFICES ASSUME TallyInv, [TrafficNext]_trafficVars PROVE TallyInv'
  OBVIOUS
<1>1. ASSUME NEW c \in Clients, Look(c) \/ ConnectMode(c) PROVE TallyInv'
  BY <1>1, ConnectModeInv
<1>2. ASSUME NEW c \in Clients, AddRX(c) \/ AddTX(c) PROVE TallyInv'
  BY <1>2, AddInv
<1>3. ASSUME NEW p \in Panels, Now(p) \/ Load(p) \/ Rate(p) PROVE TallyInv'
  BY <1>3, SnapshotInv
<1>4. CASE UNCHANGED trafficVars
  BY <1>4 DEF trafficVars, TallyInv, Types, Tallies, Past, InThePast, Unread,
              SharedKnown, Ordered, Busy
<1>5. QED
  BY <1>1, <1>2, <1>3, <1>4 DEF TrafficNext

(***************************************************************************)
(* Traffic: the theorems                                                   *)
(***************************************************************************)
(* Every reachable state is type correct, and what a snapshot has read is  *)
(* in the past of the counters, for any number of sessions and requests.   *)
THEOREM TrafficTypeCorrect == TrafficSpec => []TrafficTypeOK
<1>1. TallyInv => TrafficTypeOK
  BY DEF TallyInv, Types, Past, InThePast, TrafficTypeOK, Request
<1>2. QED
  BY TallyInitInv, TallyNextInv, <1>1, PTL DEF TrafficSpec

(* However many sessions of a profile connect for the first time at once,  *)
(* all of them count in the object the panel reads (ConnectMode).          *)
THEOREM OneTallyHolds == TrafficSpec => []OneTally
<1>1. TallyInv => OneTally
  BY DEF TallyInv, Tallies, OneTally
<1>2. QED
  BY TallyInitInv, TallyNextInv, <1>1, PTL DEF TrafficSpec

(* A rate of a snapshot that no other one overlaps is a difference that    *)
(* does not wrap around (snapshot).                                        *)
THEOREM RatesAreDifferences == TrafficSpec => []RatesDoNotWrap
<1>1. TallyInv => RatesDoNotWrap
  BY DEF TallyInv, Ordered, Shown, RatesDoNotWrap
<1>2. QED
  BY TallyInitInv, TallyNextInv, <1>1, PTL DEF TrafficSpec
=============================================================================
