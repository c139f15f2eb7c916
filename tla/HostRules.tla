------------------------------ MODULE HostRules ------------------------------
(***************************************************************************)
(* The rules the server puts into the router's own iptables chains: NAT,   *)
(* the jumps to the profile chains, what is accepted behind them, and the  *)
(* openings of the UDP ports (nat.go, newRawRouter of raw.go).  They are   *)
(* written one command at a time by a starting transport, by a save that   *)
(* needs no restart, and by the hook that NDMS calls after it has rebuilt  *)
(* a table and lost them (60-qwdtt-netfilter.sh).                          *)
(*                                                                         *)
(* What the profile chains contain is the subject of Firewall.  Left out:  *)
(* the mangle table, the further MASQUERADE rules of the same network,     *)
(* deletions of rules that only older releases wrote, and the opening in   *)
(* ip6tables, which no hook restores.                                      *)
(***************************************************************************)
EXTENDS Integers, Sequences, FiniteSets, SequencesExt

CONSTANTS Ports,      \* UDP ports
          Configs,    \* what a save may store: [dtls, raw, on]
          Initial,    \* the configuration at first
          MaxEvents,  \* bound: saves, stops, failures, rebuilt tables
          MaxBusy     \* bound: actors at work at a time

Tables == [filter |-> {"FORWARD", "INPUT"}, nat |-> {"POSTROUTING"}]
NoPort == "none"                                \* RAW is off
Actors == {"start", "save"} \cup DOMAIN Tables  \* the hook, per table

(* The other names are those of the interfaces and of NoPort.              *)
ASSUME ConfigsAssumption ==
    /\ Ports \cap {NoPort, "wg", "raw", "any"} = {}
    /\ Configs \cup {Initial} \subseteq
           [dtls : Ports, raw : Ports \cup {NoPort}, on : BOOLEAN]

VARIABLES
    stored,    \* the stored configuration
    launched,  \* the configuration of the transport
    running,   \* the process runs
    todo,      \* per actor: the commands it has yet to give
    chain,     \* per chain of the router: its rules
    disturbed, \* auxiliary: actors whose commands failed or met others'
    last,      \* auxiliary: who finished last, whether undisturbed, and
               \* whether the last install was
    events     \* the number of events so far

vars == <<stored, launched, running, todo, chain, disturbed, last, events>>

(***************************************************************************)
(* Rules and commands                                                      *)
(***************************************************************************)
Rule(dir, what, target) == [dir |-> dir, what |-> what, target |-> target]

Jump(i)    == Rule("in", i, "PROFILE")
JumpOut(i) == Rule("out", i, "PROFILE")
In(i)      == Rule("in", i, "ACCEPT")
Out(i)     == Rule("out", i, "ACCEPT")
Port(p)    == Rule("port", p, "ACCEPT")
Masquerade(i) == Rule("src", i, "MASQUERADE")
Terminal   == Rule("any", "any", "REJECT")   \* the end of Keenetic's chain

(* A command inserts a rule at a place of a chain (0: behind the last),    *)
(* perhaps only if -C does not find it (once); or it stands for a run of   *)
(* -D and deletes the rules of a set.                                      *)
Add(part, ch, rule, at, once) == [op |-> "add", part |-> part, ch |-> ch,
                                  rule |-> rule, at |-> at, once |-> once]
Insert(part, ch, rule) == Add(part, ch, rule, 1, FALSE)
Second(part, ch, rule) == Add(part, ch, rule, 2, FALSE)
InsertMissing(part, ch, rule) == Add(part, ch, rule, 1, TRUE)
AppendMissing(part, ch, rule) == Add(part, ch, rule, 0, TRUE)
Delete(part, rules) == [op |-> "delete", part |-> part, rule |-> rules]

(* EnsureNATMode, which the server calls with internetOnly off.            *)
NATMode ==
    <<AppendMissing("nat", "POSTROUTING", Masquerade("wg")),
      AppendMissing("nat", "FORWARD", In("wg")),
      AppendMissing("nat", "FORWARD", Out("wg")),
      AppendMissing("nat", "INPUT", In("wg"))>>

(* EnsureProfileFirewallHooks, for one interface.                          *)
Hooks(part, i) ==
    <<Delete(part, {Jump(i), In(i), Out(i)}),
      Insert(part, "FORWARD", Jump(i)), Insert(part, "INPUT", Jump(i)),
      Second(part, "FORWARD", In(i)), Second(part, "FORWARD", Out(i)),
      Second(part, "INPUT", In(i))>>

Policies(part, raw) ==
    Hooks(part, "wg") \o (IF raw THEN Hooks(part, "raw") ELSE <<>>)

(* Mutant of OpenPort: an earlier copy is left where it is.                *)
OpenAnother(part, p) == <<Insert(part, "INPUT", Port(p))>>

(* EnsureDTLSWAN: "Reinsert it at the top on every service start".         *)
OpenPort(part, p) ==
    <<Delete(part, {Port(p)}), Insert(part, "INPUT", Port(p))>>

RawTUN ==
    <<InsertMissing("raw", "POSTROUTING", Masquerade("raw")),
      InsertMissing("raw", "FORWARD", In("raw")),
      InsertMissing("raw", "FORWARD", Out("raw")),
      InsertMissing("raw", "INPUT", In("raw"))>>

OwnRawPort(c) == c.raw \notin {NoPort, c.dtls}

(* Service.startServer.  RAW on the port of DTLS is started by             *)
(* serveProfiles, which installs no policies for it.                       *)
StartScript(c) ==
    NATMode \o Policies("policies", FALSE)
    \o (IF c.on THEN OpenPort("port", c.dtls) ELSE <<>>)
    \o (IF c.on /\ c.raw # NoPort THEN RawTUN ELSE <<>>)
    \o (IF c.on /\ OwnRawPort(c)
        THEN Policies("raw policies", TRUE) \o OpenPort("raw port", c.raw)
        ELSE <<>>)

SaveScript == Policies("save", TRUE)

(***************************************************************************)
(* The hook: what is in place is left there, except for the openings and   *)
(* the rules of RAW, which are deleted and inserted again.                 *)
(***************************************************************************)
HookRaw ==
    <<Delete("hook", {Jump("raw"), JumpOut("raw"), In("raw"), Out("raw")}),
      Insert("hook", "FORWARD", Jump("raw")),
      Insert("hook", "FORWARD", JumpOut("raw")),
      Insert("hook", "INPUT", Jump("raw")),
      Second("hook", "FORWARD", In("raw")),
      Second("hook", "FORWARD", Out("raw")),
      Second("hook", "INPUT", In("raw"))>>

(* Mutants of HookFilter: what accepts a port is appended if it is missing *)
(* and RAW forgotten; what accepts the tunnel is inserted in front.        *)
HookAppends(c) ==
    <<AppendMissing("hook", "INPUT", Port(c.dtls)),
      InsertMissing("hook", "FORWARD", Jump("wg"))>>

HookInserts(c) ==
    OpenPort("hook", c.dtls)
    \o <<InsertMissing("hook", "INPUT", Jump("wg")),
         InsertMissing("hook", "INPUT", In("wg"))>>

HookFilter(c) ==
    OpenPort("hook", c.dtls)
    \o (IF c.raw # NoPort THEN OpenPort("hook", c.raw) ELSE <<>>)
    \o <<InsertMissing("hook", "FORWARD", Jump("wg")),
         InsertMissing("hook", "INPUT", Jump("wg")),
         AppendMissing("hook", "FORWARD", In("wg")),
         AppendMissing("hook", "FORWARD", Out("wg")),
         AppendMissing("hook", "INPUT", In("wg"))>>
    \o (IF c.raw # NoPort THEN HookRaw ELSE <<>>)

HookNat(c) ==
    <<AppendMissing("hook", "POSTROUTING", Masquerade("wg"))>>
    \o (IF c.raw # NoPort
        THEN <<InsertMissing("hook", "POSTROUTING", Masquerade("raw"))>>
        ELSE <<>>)

HookScript(c, table) == IF table = "nat" THEN HookNat(c) ELSE HookFilter(c)

(***************************************************************************)
(* Actions                                                                 *)
(***************************************************************************)
Nobody == [by |-> "nobody", clean |-> FALSE, solid |-> FALSE]
Own(table) == IF table = "filter" THEN <<Terminal>> ELSE <<>>

Init ==
    /\ stored = Initial /\ launched = Initial /\ running = FALSE
    /\ todo = [a \in Actors |-> <<>>]
    /\ chain = [FORWARD |-> Own("filter"), INPUT |-> Own("filter"),
                POSTROUTING |-> Own("nat")]
    /\ disturbed = {} /\ last = Nobody
    /\ events = 0

Event == events < MaxEvents /\ events' = events + 1

Others(a) == {b \in Actors \ {a} : todo[b] # <<>>}

(* Auxiliary: whoever begins while others write does not work undisturbed. *)
Begin(a, script) ==
    /\ Cardinality(Others(a)) + 1 <= MaxBusy
    /\ todo' = [todo EXCEPT ![a] = script]
    /\ disturbed' = IF Others(a) = {} THEN {} ELSE Others(a) \cup {a}
    /\ last' = [Nobody EXCEPT !.solid = last.solid /\ a \in DOMAIN Tables]

(* A transport is launched: at the start of the process, after a failure,  *)
(* or because a save needs it.  The commands of the one before it are      *)
(* cancelled with its context.                                             *)
Start(c) ==
    /\ launched' = c /\ running' = TRUE
    /\ Begin("start", StartScript(c))
    /\ UNCHANGED chain

Boot ==
    /\ ~running
    /\ Start(stored)
    /\ UNCHANGED <<stored, events>>

(* transportRestartRequired looks at the DTLS port and the profiles, not   *)
(* at the port of RAW.                                                     *)
RestartRequired(c) == c.dtls # stored.dtls \/ c.on # stored.on

Save(c) ==
    /\ running /\ Event
    /\ stored' = c
    /\ IF RestartRequired(c) THEN Start(c)
       ELSE /\ todo["save"] = <<>>
            /\ Begin("save", SaveScript)
            /\ UNCHANGED <<launched, running, chain>>

(* The process is stopped or killed; the hook is a shell of its own.       *)
Stop ==
    /\ running
    /\ Event
    /\ running' = FALSE
    /\ todo' = [todo EXCEPT !["start"] = <<>>, !["save"] = <<>>]
    /\ disturbed' = disturbed \ {"start", "save"}
    /\ last' = [Nobody EXCEPT !.solid = last.solid]
    /\ UNCHANGED <<stored, launched, chain>>

(* NDMS rebuilds a table from its own rules and calls the hook, which does *)
(* nothing unless the process runs.                                        *)
Rebuild(table) ==
    /\ \A t \in DOMAIN Tables : todo[t] = <<>>
    /\ Event
    /\ chain' = [ch \in DOMAIN chain |->
                    IF ch \in Tables[table] THEN Own(table) ELSE chain[ch]]
    /\ Begin(table, IF running THEN HookScript(stored, table) ELSE <<>>)
    /\ UNCHANGED <<stored, launched, running>>

Without(s, set) ==
    FlattenSeq([k \in DOMAIN s |-> IF s[k] \in set THEN <<>> ELSE <<s[k]>>])

Changed(c) ==
    IF c.op = "delete"
    THEN [ch \in DOMAIN chain |-> Without(chain[ch], c.rule)]
    ELSE [chain EXCEPT ![c.ch] =
             IF c.once /\ Contains(@, c.rule) THEN @
             ELSE InsertAt(@, IF c.at = 0 THEN Len(@) + 1 ELSE c.at, c.rule)]

Continue(a, rest, harmed) ==
    /\ todo' = [todo EXCEPT ![a] = rest]
    /\ disturbed' = IF rest = <<>> THEN harmed \ {a} ELSE harmed
    /\ last' = IF rest # <<>> THEN last
               ELSE [by |-> a, clean |-> a \notin harmed,
                     solid |-> IF a \in DOMAIN Tables THEN last.solid
                               ELSE a \notin harmed]

Give(a) ==
    /\ todo[a] # <<>>
    /\ chain' = Changed(Head(todo[a]))
    /\ Continue(a, Tail(todo[a]),
                IF chain' = chain THEN disturbed
                ELSE disturbed \cup Others(a))
    /\ UNCHANGED <<stored, launched, running, events>>

(* EnsureNATMode does not ask whether its rules of the filter table were   *)
(* added.                                                                  *)
Ignored(c) == c.part = "nat" /\ c.ch \in Tables["filter"]

(* A command that adds a rule fails.  What becomes of the rest: a start    *)
(* without policies is over and retried, RAW without its rules is          *)
(* disabled, and any other part is left behind with a line in the log.     *)
Abandoned(part) ==
    IF part = "raw" THEN {"raw", "raw policies", "raw port"} ELSE {part}

Lost(c, rest) ==
    IF Ignored(c) THEN {c} ELSE {d \in rest : d.part \in Abandoned(c.part)}

Fail(a) ==
    /\ a \in {"start", "save"} /\ todo[a] # <<>>
    /\ Head(todo[a]).op # "delete"
    /\ Event
    /\ IF Head(todo[a]).part = "policies" THEN Start(launched)
       ELSE /\ Continue(a, Without(todo[a],
                                   Lost(Head(todo[a]), ToSet(todo[a]))),
                        disturbed \cup {a})
            /\ UNCHANGED <<launched, running, chain>>
    /\ UNCHANGED stored

Next ==
    \/ Boot \/ Stop
    \/ \E c \in Configs : Save(c)
    \/ \E t \in DOMAIN Tables : Rebuild(t)
    \/ \E a \in Actors : Give(a) \/ Fail(a)

Spec == Init /\ [][Next]_vars

(***************************************************************************)
(* Properties                                                              *)
(***************************************************************************)
AtRest == running /\ \A a \in Actors : todo[a] = <<>>

(* Besides the types: Keenetic's own rule stays where it is, only the hook *)
(* works while the process does not run, and starts, saves and hooks do    *)
(* not pile up rules in the chains every packet passes: an undisturbed     *)
(* start leaves one copy of each rule of the tunnel and of the DTLS port,  *)
(* however many there were.                                                *)
TypeOK ==
    /\ stored \in Configs \cup {Initial} /\ launched \in Configs \cup {Initial}
    /\ running \in BOOLEAN /\ disturbed \subseteq Actors
    /\ \A a \in Actors : todo[a] # <<>> => running \/ a \in DOMAIN Tables
    /\ \A t \in DOMAIN Tables : \A ch \in Tables[t] :
          Contains(chain[ch], Terminal) <=> t = "filter"
    /\ AtRest /\ last.by = "start" /\ last.clean =>
           \A ch \in Tables["filter"] : \A i, j \in DOMAIN chain[ch] :
               /\ chain[ch][i] = chain[ch][j]
               /\ chain[ch][i].what \in {"wg", launched.dtls} /\ launched.on
               => i = j

(* What a packet meets on its way through a chain: the rules about it, of  *)
(* which the profile chains may reject it or pass it on, and Keenetic's.   *)
About(r, dir, what) == r = Terminal \/ (r.dir = dir /\ r.what = what)

Accepted(ch, dir, what) ==
    \E k \in DOMAIN chain[ch] :
        /\ About(chain[ch][k], dir, what) /\ chain[ch][k].target = "ACCEPT"
        /\ \A j \in 1 .. k - 1 :
              About(chain[ch][j], dir, what) => chain[ch][j].target = "PROFILE"

Unscreened(i) ==
    \E ch \in Tables["filter"] : \E k \in DOMAIN chain[ch] :
        /\ About(chain[ch][k], "in", i) /\ chain[ch][k].target = "ACCEPT"
        /\ \A j \in 1 .. k - 1 : ~About(chain[ch][j], "in", i)

(* The traffic of an interface is screened by the profile chains, and then *)
(* accepted, in both directions.                                           *)
Carried(i) ==
    /\ ~Unscreened(i)
    /\ Accepted("FORWARD", "in", i) /\ Accepted("INPUT", "in", i)
    /\ Accepted("FORWARD", "out", i)

Translated(i) == Contains(chain["POSTROUTING"], Masquerade(i))
Open(p) == Accepted("INPUT", "port", p)

(* Once an install has not been disturbed, nothing that comes out of the   *)
(* WireGuard tunnel is accepted before it has met the profile chains,      *)
(* however often NDMS rebuilds the tables and the hook repairs them, until *)
(* another install writes.                                                 *)
TunnelScreened == AtRest /\ last.solid => ~Unscreened("wg")

(* What a start, a save or the hook leaves if nobody disturbed it.  A      *)
(* start or save: the tunnel screened and carried; a start also the DTLS   *)
(* port open ahead of what Keenetic rejects, the tunnel translated, and so *)
(* RAW, with its port, if it has one of its own.  The hook of the filter   *)
(* table: the ports of the stored configuration open again, and RAW sends  *)
(* and receives; that of the nat table: tunnel and RAW translated.         *)
WorkComplete ==
    AtRest /\ last.clean =>
        /\ last.by \in {"start", "save"} => Carried("wg")
        /\ last.by = "save" => Carried("raw")
        /\ last.by = "start" =>
               /\ Translated("wg")
               /\ launched.on => Open(launched.dtls)
               /\ launched.on /\ OwnRawPort(launched) =>
                      Carried("raw") /\ Translated("raw") /\ Open(launched.raw)
        /\ last.by = "filter" =>
               /\ Open(stored.dtls)
               /\ stored.raw # NoPort =>
                      /\ Open(stored.raw)
                      /\ Accepted("FORWARD", "in", "raw")
                      /\ Accepted("FORWARD", "out", "raw")
        /\ last.by = "nat" =>
               /\ Translated("wg")
               /\ stored.raw # NoPort => Translated("raw")

(* "EnsureGlobalFirewallPoliciesWithRaw applies the same UI firewall       *)
(* policy to both the WireGuard and RAW address of every profile"          *)
(* (nat.go:167).  It fails: the hook inserts what accepts the traffic of   *)
(* RAW before the jump it has just inserted.                               *)
RawScreened == AtRest /\ last.clean => ~Unscreened("raw")
=============================================================================
