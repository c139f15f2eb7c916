------------------------------- MODULE Firewall -------------------------------
(***************************************************************************)
(* The access policies of the profiles: how ensureProfilePolicies compiles *)
(* them to iptables rules and installs these one command at a time         *)
(* (nat.go), who installs them and when (service.go, runtime.go), and the  *)
(* hook that runs after NDMS has rebuilt the firewall                      *)
(* (60-qwdtt-netfilter.sh).                                                *)
(*                                                                         *)
(* The chains QWDTT_PROFILE_FWD and QWDTT_PROFILE_IN get the same rules at *)
(* the same time, so there is one chain here.  A rule stands for the       *)
(* commands of all its protocols, addresses and ports; no set of addresses *)
(* or ports means any.                                                     *)
(***************************************************************************)
EXTENDS Integers, Sequences, FiniteSets, SequencesExt

CONSTANTS Addresses, \* of profiles, and that rules name as sources
          Installs,  \* slots for installs: saves and starting transports
          Configs,   \* the policies a save may carry: [profiles, global]
          Initial,   \* the policies at the start of the process
          MaxMixed   \* bound: the length of a chain overlapping installs fill

Private == {"lan"}                \* privateNetworks
LooksPrivate == {"lan", "ten"}    \* what firewallBlocksPrivate recognises
Dests == {"lan", "ten", "net"}
Ports == {"53", "80"}

Rule == [on : BOOLEAN, block : BOOLEAN, from : SUBSET Addresses,
         to : SUBSET Dests, ports : SUBSET Ports]
Profile == [ip : Addresses, rawIP : Addresses, enabled : BOOLEAN,
            internet : BOOLEAN, rules : Seq(Rule)]
Policies == [profiles : Seq(Profile), global : Seq(Rule)]

Known == Configs \cup {Initial}

(* Validate keeps the addresses of one kind apart; that the networks of    *)
(* the two kinds have none in common is assumed.                           *)
ASSUME PoliciesAssumption ==
    /\ MaxMixed \in Nat
    /\ \A c \in Known :
          /\ c \in Policies
          /\ \A k, j \in DOMAIN c.profiles :
                /\ c.profiles[k].ip # c.profiles[j].rawIP
                /\ k # j => /\ c.profiles[k].ip # c.profiles[j].ip
                            /\ c.profiles[k].rawIP # c.profiles[j].rawIP

VARIABLES
    stored,   \* the stored configuration
    install,  \* per slot: the configuration it installs, the rules to come
    chain,    \* the rules of the chain
    jump,     \* whose traffic goes through the chain: none, tunnel, both
    hook,     \* where the hook is
    last      \* auxiliary: what the last install left, undisturbed

vars == <<stored, install, chain, jump, hook, last>>

(***************************************************************************)
(* Compiling the policies                                                  *)
(***************************************************************************)
Filter(from, to, ports, target) ==
    [from |-> from, to |-> to, ports |-> ports, target |-> target]

AllowDNS(a, to) == Filter({a}, to, {"53"}, "ACCEPT")
Reject(a) == Filter({a}, Private, {}, "REJECT")
Return == Filter({}, {}, {}, "RETURN")

BlocksPrivate(rules) ==
    \E k \in DOMAIN rules :
        /\ rules[k].on /\ rules[k].block
        /\ rules[k].to = {} \/ rules[k].to \cap LooksPrivate # {}

(* A rule without sources is about the profile it is compiled for.         *)
RuleFilter(a, r) ==
    Filter(IF r.from = {} THEN {a} ELSE r.from, r.to, r.ports,
           IF r.block THEN "REJECT" ELSE "ACCEPT")

RulesOf(c, p) == IF c.global # <<>> THEN c.global ELSE p.rules

EnabledRules(rules) ==
    FlattenSeq([k \in DOMAIN rules |->
                   IF rules[k].on THEN <<rules[k]>> ELSE <<>>])

(* Mutant of Internet: the exception for DNS comes behind the rejection.   *)
DNSLast(a) == <<Reject(a), AllowDNS(a, {})>>

Internet(a) == <<AllowDNS(a, {}), Reject(a)>>

ForSource(a, p, rules) ==
    (IF BlocksPrivate(rules) THEN <<AllowDNS(a, Private)>> ELSE <<>>)
    \o (IF p.internet THEN Internet(a) ELSE <<>>)
    \o [k \in DOMAIN EnabledRules(rules) |->
           RuleFilter(a, EnabledRules(rules)[k])]

Sources(p, raw) == IF raw THEN <<p.ip, p.rawIP>> ELSE <<p.ip>>

ForProfile(p, raw, rules) ==
    IF p.enabled
    THEN FlattenSeq([s \in DOMAIN Sources(p, raw) |->
                        ForSource(Sources(p, raw)[s], p, rules)])
    ELSE <<>>

(* The rules for all enabled profiles, in the order of the list.           *)
Compile(c, raw) ==
    FlattenSeq([k \in DOMAIN c.profiles |->
                   ForProfile(c.profiles[k], raw, RulesOf(c, c.profiles[k]))])

(***************************************************************************)
(* Installing them                                                         *)
(***************************************************************************)
NoInstall == [at |-> "free", c |-> Initial, raw |-> FALSE, todo |-> <<>>,
              alone |-> FALSE, hooked |-> FALSE]
Nothing == [c |-> Initial, raw |-> FALSE, known |-> FALSE, hooked |-> FALSE]

Init ==
    /\ stored = Initial
    /\ install = [i \in Installs |-> NoInstall]
    /\ chain = <<>> /\ jump = "none"
    /\ hook = "idle" /\ last = Nothing

Started(c, raw) == [NoInstall EXCEPT !.at = "begin", !.c = c, !.raw = raw,
                                     !.todo = Compile(c, raw)]

Begin(i, c, raw) ==
    /\ install[i].at = "free"
    /\ install' = [install EXCEPT ![i] = Started(c, raw)]

(* A save that needs no restart installs the policies itself, with RAW.    *)
Save(c) ==
    /\ stored' = c
    /\ \/ UNCHANGED install
       \/ \E i \in Installs : Begin(i, c, TRUE)
    /\ UNCHANGED <<chain, jump, hook, last>>

(* A transport takes a copy of the configuration when it is launched.      *)
Launch(i) ==
    /\ Begin(i, stored, FALSE)
    /\ UNCHANGED <<stored, chain, jump, hook, last>>

(* Auxiliary: install i has written; the others are not alone.             *)
Writes(i, new) ==
    install' = [j \in Installs |->
                   IF j = i THEN new ELSE [install[j] EXCEPT !.alone = FALSE]]

(* Mutant of Flushed: the chain is not flushed.                            *)
Unflushed == chain

Flushed == <<>>

Flush(i) ==
    /\ install[i].at = "begin"
    /\ chain' = Flushed
    /\ Writes(i, [install[i] EXCEPT !.at = "jump", !.alone = TRUE])
    /\ last' = Nothing
    /\ UNCHANGED <<stored, jump, hook>>

(* EnsureProfileFirewallHooks: the jump is put at the top, with RAW's for  *)
(* an install with RAW.  The one that is there stays.                      *)
Hook(i) ==
    /\ install[i].at = "jump"
    /\ jump' = IF install[i].raw \/ jump = "both" THEN "both" ELSE "tunnel"
    /\ install' = [install EXCEPT ![i].at = "fill"]
    /\ UNCHANGED <<stored, chain, hook, last>>

AppendRule(i) ==
    /\ install[i].at = "fill" /\ install[i].todo # <<>>
    /\ install[i].alone \/ Len(chain) < MaxMixed
    /\ chain' = Append(chain, Head(install[i].todo))
    /\ Writes(i, [install[i] EXCEPT !.todo = Tail(@)])
    /\ last' = Nothing
    /\ UNCHANGED <<stored, jump, hook>>

(* The RETURN ends an install.  A transport installs again once RAW is up. *)
Finish(i) ==
    /\ install[i].at = "fill" /\ install[i].todo = <<>>
    /\ chain' = Append(chain, Return)
    /\ Writes(i, IF install[i].raw THEN NoInstall
                 ELSE [install[i] EXCEPT !.at = "served"])
    /\ last' = [c |-> install[i].c, raw |-> install[i].raw,
                known |-> install[i].alone, hooked |-> install[i].hooked]
    /\ UNCHANGED <<stored, jump, hook>>

StartRaw(i) ==
    /\ install[i].at = "served"
    /\ \/ install' = [install EXCEPT ![i] = NoInstall]
       \/ install' = [install EXCEPT ![i] = Started(install[i].c, TRUE)]
    /\ UNCHANGED <<stored, chain, jump, hook, last>>

(* A command fails, and the rest of the rules is not installed.            *)
Fail(i) ==
    /\ install[i].at \in {"begin", "jump", "fill"}
    /\ install' = [install EXCEPT ![i] = NoInstall]
    /\ UNCHANGED <<stored, chain, jump, hook, last>>

(***************************************************************************)
(* The hook, for the filter table                                          *)
(***************************************************************************)
InChain(f) == \E k \in DOMAIN chain : chain[k] = f

(* NDMS rebuilds the built-in chains and calls the hook.                   *)
Rebuild ==
    /\ hook = "idle"
    /\ hook' = "jump" /\ jump' = "none"
    /\ UNCHANGED <<stored, install, chain, last>>

(* It puts the jump of RAW behind an ACCEPT (see HostRules).               *)
HookJump ==
    /\ hook = "jump"
    /\ hook' = "internet"
    /\ jump' = IF jump = "none" THEN "tunnel" ELSE jump
    /\ UNCHANGED <<stored, install, chain, last>>

Missing(rules) ==
    FlattenSeq([k \in DOMAIN rules |->
                   IF InChain(rules[k]) THEN <<>> ELSE <<rules[k]>>])

(* The rules of the internet-only profiles of the stored configuration,    *)
(* enabled or not, with both their addresses; those that are missing are   *)
(* appended.                                                               *)
HookRulesFor(p) ==
    IF p.internet
    THEN <<AllowDNS(p.ip, {}), AllowDNS(p.rawIP, {}),
           Reject(p.ip), Reject(p.rawIP)>>
    ELSE <<>>

HookRules ==
    Missing(FlattenSeq([k \in DOMAIN stored.profiles |->
                           HookRulesFor(stored.profiles[k])]))

(* Auxiliary: the hook has written while installs were under way.          *)
Hooked ==
    install' = IF chain' = chain THEN install
               ELSE [i \in Installs |->
                        IF install[i].at \in {"jump", "fill"}
                        THEN [install[i] EXCEPT !.hooked = TRUE]
                        ELSE install[i]]

HookInternet ==
    /\ hook = "internet"
    /\ hook' = "return"
    /\ chain' = chain \o HookRules
    /\ Hooked
    /\ UNCHANGED <<stored, jump, last>>

HookReturn ==
    /\ hook = "return"
    /\ hook' = "idle"
    /\ chain' = IF InChain(Return) THEN chain ELSE Append(chain, Return)
    /\ Hooked
    /\ UNCHANGED <<stored, jump, last>>

Next ==
    \/ \E c \in Configs : Save(c)
    \/ \E i \in Installs :
           \/ Launch(i) \/ Flush(i) \/ Hook(i) \/ AppendRule(i) \/ Finish(i)
           \/ StartRaw(i) \/ Fail(i)
    \/ Rebuild \/ HookJump \/ HookInternet \/ HookReturn

Spec == Init /\ [][Next]_vars

(***************************************************************************)
(* Properties                                                              *)
(***************************************************************************)
(* Besides the types: an install starts from an empty chain, so the chain  *)
(* of an undisturbed one has its RETURN once, and does not grow from       *)
(* install to install.                                                     *)
TypeOK ==
    /\ stored \in Known
    /\ \A i \in Installs :
          /\ install[i].at \in {"free", "begin", "jump", "fill", "served"}
          /\ install[i].c \in Known
          /\ Len(install[i].todo) <= Len(Compile(install[i].c, install[i].raw))
    /\ last.known /\ ~last.hooked =>
           Cardinality({k \in DOMAIN chain : chain[k] = Return}) = 1
    /\ jump \in {"none", "tunnel", "both"}
    /\ hook \in {"idle", "jump", "internet", "return"}

(* What becomes of a packet: the first rule that matches decides, and      *)
(* behind RETURN the interface's traffic is accepted.                      *)
Matches(f, a, to, port) ==
    /\ f.from = {} \/ a \in f.from
    /\ f.to = {} \/ to \in f.to
    /\ f.ports = {} \/ port \in f.ports

First(rules, a, to, port) ==
    LET hits == {k \in DOMAIN rules : Matches(rules[k], a, to, port)}
    IN  IF hits = {} THEN "RETURN"
        ELSE rules[CHOOSE k \in hits : \A h \in hits : k <= h].target

Passes(a, to, port) == jump # "none" => First(chain, a, to, port) # "REJECT"

(* What the policies say: DNS is kept open for whoever is kept out of the  *)
(* private networks, an internet-only profile reaches nothing else there,  *)
(* and apart from that "the rules are applied from top to bottom"          *)
(* (README.md:132) and what no rule is about is allowed.                   *)
Allowed(c, p, a, to, port) ==
    LET rules == RulesOf(c, p)
        about == [k \in DOMAIN EnabledRules(rules) |->
                     RuleFilter(a, EnabledRules(rules)[k])]
    IN  \/ port = "53" /\ to \in Private /\ BlocksPrivate(rules)
        \/ port = "53" /\ p.internet
        \/ /\ ~(p.internet /\ to \in Private)
           /\ First(about, a, to, port) # "REJECT"

SaysWhatItMeans(c, raw) ==
    \A k \in DOMAIN c.profiles :
        LET p == c.profiles[k] IN
        p.enabled =>
            \A s \in DOMAIN Sources(p, raw), to \in Dests, port \in Ports :
                LET a == Sources(p, raw)[s]
                IN  Passes(a, to, port) <=> Allowed(c, p, a, to, port)

NamesSources(c) ==
    \E k \in DOMAIN c.profiles : \E r \in DOMAIN RulesOf(c, c.profiles[k]) :
        RulesOf(c, c.profiles[k])[r].from # {}

(* After an install that neither another install nor the hook wrote into,  *)
(* every packet of every profile is treated as the installed policies say, *)
(* until the next install begins: however often NDMS rebuilds the firewall *)
(* it is so again for WireGuard as soon as the hook has put the jump back. *)
(* Rules that name source addresses are left out: compiled once for each   *)
(* profile, they come before the earlier rules of later profiles.          *)
PoliciesInForce ==
    last.known /\ ~last.hooked /\ ~NamesSources(last.c) /\ hook # "jump" =>
        SaysWhatItMeans(last.c, last.raw /\ jump = "both")
=============================================================================
