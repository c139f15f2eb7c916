------------------------------- MODULE Runtime -------------------------------
(***************************************************************************)
(* The lifecycle of the transport behind the web panel (runtime.go).       *)
(*                                                                         *)
(* Callers are the goroutines that enter Runtime: main calls Start once,   *)
(* the HTTP handlers call Update and Toggle, all concurrently.  A call     *)
(* runs through the labels                                                 *)
(*                                                                         *)
(*   write, fill   ApplyConfig: truncate and write the config file         *)
(*   store         ApplyConfig: replace the config in memory               *)
(*   decide        Update: restart, policies only, or nothing              *)
(*   policies      Update: install access policies without a restart       *)
(*   lock, detach, wait, launch, release                     reconcile     *)
(*                                                                         *)
(* with one step per critical section of Runtime.mu.  A transport instance *)
(* is the goroutine reconcile launches; it is named by its generation.     *)
(* A configuration is abstracted to what the code below tells apart:       *)
(*   enabled   Config.Enabled                                              *)
(*   net       the fields transportRestartRequired compares                *)
(*   raw       the fields an instance reads and it does not compare        *)
(*             (rawPort, rawNetwork, rawMtu, the profiles' rawIP, DNS)     *)
(*   pol       the firewall and the profiles' access rules                 *)
(***************************************************************************)
EXTENDS Integers

CONSTANTS
    Main,          \* the goroutine that calls Start
    Handlers,      \* the goroutines that serve panel requests
    NoThread,      \* nobody
    Nets, Raws, Pols,
    Inputs,        \* the configurations a request may carry
    InitialConfig, \* what LoadConfig returned
    Empty, Torn,   \* an unreadable config file: truncated, or garbled
    MaxCalls,      \* bound: panel requests served between two restarts
    MaxCrashes     \* bound: times the process is killed and started again

Threads == Handlers \cup {Main}
Configs == [enabled : BOOLEAN, net : Nets, raw : Raws, pol : Pols]
MaxGen  == MaxCalls + 1
Gens    == 1 .. MaxGen
NoGen   == 0

ASSUME CallsAssumption  == MaxCalls \in Nat /\ MaxCrashes \in Nat
ASSUME ConfigAssumption == Inputs \subseteq Configs /\ InitialConfig \in Configs
ASSUME FileAssumption   == Empty \notin Configs /\ Torn \notin Configs
ASSUME ThreadAssumption == Main \notin Handlers /\ NoThread \notin Threads

VARIABLES
    up,            \* the process is running
    disk,          \* the contents of the config file
    cfg,           \* Runtime.cfg
    policies,      \* the access policies installed in the kernel
    pc, call,      \* each thread's label, and its call's kind and locals
    reconcileMu,   \* the holder of Runtime.reconcileMu
    transitioning, run, gen,      \* the fields of that name
    cancel, done,  \* the instance Runtime.cancel and Runtime.done belong to
    oldDone, snapshot,            \* reconcile's locals
    inst,          \* the instances, by generation
    calls, crashes,               \* the bounds' counters
    history        \* auxiliary: what happened since the process started

callVars == <<pc, call>>
runVars  == <<transitioning, run, gen, cancel, done>>
recVars  == <<reconcileMu, oldDone, snapshot>>
auxVars  == <<calls, crashes, history>>
vars == <<up, disk, cfg, policies, callVars, runVars, recVars, inst, auxVars>>

Labels == {"idle", "write", "fill", "store", "decide", "policies",
           "lock", "detach", "wait", "launch", "release"}
Phases == {"none", "start", "serve", "backoff", "exit", "closing", "closed"}
Instance == [phase : Phases, cfg : Configs, cancelled : BOOLEAN]
NotLaunched == [phase |-> "none", cfg |-> InitialConfig, cancelled |-> FALSE]
Calls == [op : {"Start", "Update", "Toggle"},
          next : Configs, previous : Configs]
NoCall == [op |-> "Start", next |-> InitialConfig, previous |-> InitialConfig]
Events == {"overlap", "timeout", "failure"}

(* Service.Start is running or will be called again: the instance may own  *)
(* its sockets.                                                            *)
Live == {g \in Gens : inst[g].phase \in {"start", "serve", "backoff"}}

Init ==
    /\ up = TRUE
    /\ disk = InitialConfig /\ cfg = InitialConfig
    /\ policies \in Pols
    /\ pc = [t \in Threads |-> IF t = Main THEN "lock" ELSE "idle"]
    /\ call = [t \in Threads |-> NoCall]
    /\ reconcileMu = NoThread
    /\ transitioning = FALSE /\ run = FALSE /\ gen = 0
    /\ cancel = NoGen /\ done = NoGen
    /\ oldDone = NoGen /\ snapshot = InitialConfig
    /\ inst = [g \in Gens |-> NotLaunched]
    /\ calls = 0 /\ crashes = 0 /\ history = {}

(* A call that returns drops its locals.                                   *)
Goto(t, from, to) ==
    /\ up /\ pc[t] = from
    /\ pc' = [pc EXCEPT ![t] = to]
    /\ call' = IF to = "idle" THEN [call EXCEPT ![t] = NoCall] ELSE call

(***************************************************************************)
(* The calls                                                               *)
(***************************************************************************)
Call(t, kind, new) ==
    /\ up /\ pc[t] = "idle"
    /\ t \in Handlers /\ calls < MaxCalls
    /\ calls' = calls + 1
    /\ pc' = [pc EXCEPT ![t] = "write"]
    /\ call' = [call EXCEPT ![t] =
                   [op |-> kind, next |-> new, previous |-> cfg]]
    /\ history' = IF \E u \in Threads : pc[u] # "idle"
                  THEN history \cup {"overlap"} ELSE history
    /\ UNCHANGED <<up, disk, cfg, policies, runVars, recVars, inst, crashes>>

(* Update reads the configuration it replaces before it applies the new    *)
(* one; Toggle builds its new configuration from the one it reads.         *)
Update(t) == \E c \in Inputs : Call(t, "Update", c)
Toggle(t) == \E b \in BOOLEAN : Call(t, "Toggle", [cfg EXCEPT !.enabled = b])

(* os.WriteFile opens with O_TRUNC, then writes.  A write that lands in a  *)
(* file another call filled meanwhile may leave that call's tail.          *)
TruncateFile(t) ==
    /\ Goto(t, "write", "fill")
    /\ disk' = Empty
    /\ UNCHANGED <<up, cfg, policies, runVars, recVars, inst, auxVars>>

FillFile(t) ==
    /\ Goto(t, "fill", "store")
    /\ disk' \in IF disk = Empty THEN {call[t].next} ELSE {call[t].next, Torn}
    /\ UNCHANGED <<up, cfg, policies, runVars, recVars, inst, auxVars>>

(* The open fails, or the write (a full flash, say), and the call returns  *)
(* the error.                                                              *)
WriteFails(t) ==
    /\ \/ Goto(t, "write", "idle") /\ UNCHANGED disk
       \/ Goto(t, "fill", "idle") /\ disk' \in {disk, Torn}
    /\ history' = history \cup {"failure"}
    /\ UNCHANGED <<up, cfg, policies, runVars, recVars, inst, calls, crashes>>

StoreConfig(t) ==
    /\ Goto(t, "store", IF call[t].op = "Toggle" THEN "lock" ELSE "decide")
    /\ cfg' = call[t].next
    /\ UNCHANGED <<up, disk, policies, runVars, recVars, inst, auxVars>>

(* Mutants of transportRestartRequired: it forgets the network settings,   *)
(* or restarts for any difference.                                         *)
RestartForEnabledOnly(old, new) == old.enabled # new.enabled
RestartForAnything(old, new) == old # new

transportRestartRequired(old, new) ==
    old.enabled # new.enabled \/ old.net # new.net

Decide(t) ==
    /\ Goto(t, "decide",
            IF \/ call[t].next.enabled /\ ~run
               \/ transportRestartRequired(call[t].previous, call[t].next)
            THEN "lock"
            ELSE IF call[t].next.enabled THEN "policies" ELSE "idle")
    /\ UNCHANGED <<up, disk, cfg, policies, runVars, recVars, inst, auxVars>>

(* EnsureGlobalFirewallPoliciesWithRaw, or its failure.                    *)
InstallPolicies(t) ==
    /\ Goto(t, "policies", "idle")
    /\ \/ policies' = call[t].next.pol /\ UNCHANGED history
       \/ UNCHANGED policies /\ history' = history \cup {"failure"}
    /\ UNCHANGED <<up, disk, cfg, runVars, recVars, inst, calls, crashes>>

(***************************************************************************)
(* reconcile                                                               *)
(***************************************************************************)
LockReconcile(t) ==
    /\ Goto(t, "lock", "detach")
    /\ reconcileMu = NoThread
    /\ reconcileMu' = t
    /\ transitioning' = TRUE
    /\ UNCHANGED <<up, disk, cfg, policies, run, gen, cancel, done, oldDone,
                   snapshot, inst, auxVars>>

(* Mutant of CancelInstance: the old instance is never told.               *)
DropInstance(g) == inst' = inst

CancelInstance(g) ==
    inst' = IF g = NoGen THEN inst ELSE [inst EXCEPT ![g].cancelled = TRUE]

Detach(t) ==
    /\ Goto(t, "detach", "wait")
    /\ oldDone' = done
    /\ CancelInstance(cancel)
    /\ cancel' = NoGen /\ done' = NoGen /\ run' = FALSE
    /\ snapshot' = cfg
    /\ UNCHANGED <<up, disk, cfg, policies, reconcileMu, transitioning, gen,
                   auxVars>>

(* Mutant of OldIsOver: reconcile does not wait.                           *)
NobodyWaits == TRUE

OldIsOver == oldDone # NoGen => inst[oldDone].phase = "closed"

(* The old instance has closed its channel.  What follows up to launch     *)
(* (deleting the interfaces, resetting the sessions) is no state here.     *)
OldStopped(t) ==
    /\ Goto(t, "wait", IF snapshot.enabled THEN "launch" ELSE "release")
    /\ OldIsOver
    /\ UNCHANGED <<up, disk, cfg, policies, runVars, recVars, inst, auxVars>>

(* Mutant of WaitTimesOut: the wait has no limit.                          *)
WaitsForEver(t) == pc[t] = "timed out"

(* 10 seconds have passed: the handler returns an error.                   *)
WaitTimesOut(t) ==
    /\ Goto(t, "wait", "release")
    /\ t \in Handlers /\ oldDone # NoGen
    /\ history' = history \cup {"timeout"}
    /\ UNCHANGED <<up, disk, cfg, policies, runVars, recVars, inst, calls,
                   crashes>>

Launch(t) ==
    /\ Goto(t, "launch", "release")
    /\ gen < MaxGen
    /\ gen' = gen + 1
    /\ cancel' = gen + 1 /\ done' = gen + 1 /\ run' = TRUE
    /\ inst' = [inst EXCEPT ![gen + 1] =
                  [phase |-> "start", cfg |-> snapshot, cancelled |-> FALSE]]
    /\ UNCHANGED <<up, disk, cfg, policies, recVars, transitioning, auxVars>>

Release(t) ==
    /\ Goto(t, "release", "idle")
    /\ transitioning' = FALSE
    /\ reconcileMu' = NoThread
    /\ oldDone' = NoGen /\ snapshot' = InitialConfig
    /\ UNCHANGED <<up, disk, cfg, policies, run, gen, cancel, done, inst,
                   auxVars>>

(***************************************************************************)
(* A transport instance: the goroutine's loop around Service.Start         *)
(***************************************************************************)
Phase(g, from, to) ==
    up /\ inst[g].phase = from /\ inst' = [inst EXCEPT ![g].phase = to]

(* Service.Start gets through its setup, which installs the policies of    *)
(* the instance's own copy of the configuration, and serves.               *)
InstanceServes(g) ==
    /\ Phase(g, "start", "serve")
    /\ policies' = inst[g].cfg.pol
    /\ UNCHANGED <<up, disk, cfg, callVars, runVars, recVars, auxVars>>

(* Service.Start returns, with or without having installed the policies.   *)
InstanceFails(g) ==
    /\ Phase(g, "start", IF inst[g].cancelled THEN "exit" ELSE "backoff")
    /\ policies' \in {policies, inst[g].cfg.pol}
    /\ UNCHANGED <<up, disk, cfg, callVars, runVars, recVars, auxVars>>

(* A serving instance returns only once its context is cancelled.          *)
InstanceStops(g) ==
    /\ Phase(g, "serve", "exit")
    /\ inst[g].cancelled
    /\ UNCHANGED <<up, disk, cfg, policies, callVars, runVars, recVars,
                   auxVars>>

(* The backoff timer fires, or the context is cancelled meanwhile.         *)
InstanceRetries(g) ==
    /\ Phase(g, "backoff", IF inst[g].cancelled THEN "exit" ELSE "start")
    /\ UNCHANGED <<up, disk, cfg, policies, callVars, runVars, recVars,
                   auxVars>>

(* Mutant of ClearFields: a late instance clears its successor's fields.   *)
ClearAnyFields(g) == run' = FALSE /\ cancel' = NoGen /\ done' = NoGen

ClearFields(g) ==
    IF gen = g THEN run' = FALSE /\ cancel' = NoGen /\ done' = NoGen
               ELSE UNCHANGED <<run, cancel, done>>

(* The instance clears the fields that are still its own ...               *)
InstanceForgets(g) ==
    /\ Phase(g, "exit", "closing")
    /\ ClearFields(g)
    /\ UNCHANGED <<up, disk, cfg, policies, callVars, transitioning, gen,
                   recVars, auxVars>>

(* ... and closes its done channel.                                        *)
InstanceCloses(g) ==
    /\ Phase(g, "closing", "closed")
    /\ UNCHANGED <<up, disk, cfg, policies, callVars, runVars, recVars,
                   auxVars>>

InstanceStep(g) ==
    \/ InstanceServes(g) \/ InstanceFails(g) \/ InstanceStops(g)
    \/ InstanceRetries(g) \/ InstanceForgets(g) \/ InstanceCloses(g)

(***************************************************************************)
(* The process ends, and with it everything but the file and the kernel's  *)
(* policies.  It is killed and started again, when main loads the file and *)
(* gives up if it cannot be parsed; or main gives up because Start failed, *)
(* a panel request having launched an instance before it.                  *)
(***************************************************************************)
ProcessEnds ==
    /\ call' = [t \in Threads |-> NoCall]
    /\ reconcileMu' = NoThread
    /\ transitioning' = FALSE /\ run' = FALSE /\ gen' = 0
    /\ cancel' = NoGen /\ done' = NoGen
    /\ oldDone' = NoGen /\ snapshot' = InitialConfig
    /\ inst' = [g \in Gens |-> NotLaunched]
    /\ history' = {}
    /\ UNCHANGED <<disk, policies, calls>>

(* Mutant of LoadConfig: the parse error is ignored.                       *)
LoadAnything == TRUE

(* The file can be parsed.                                                 *)
LoadConfig == disk \in Configs

Killed ==
    /\ up /\ crashes < MaxCrashes
    /\ crashes' = crashes + 1
    /\ ProcessEnds

Restart ==
    /\ Killed /\ LoadConfig
    /\ cfg' = disk
    /\ pc' = [t \in Threads |-> IF t = Main THEN "lock" ELSE "idle"]
    /\ UNCHANGED up

RestartFails ==
    /\ Killed /\ ~LoadConfig
    /\ up' = FALSE
    /\ pc' = [t \in Threads |-> "idle"]
    /\ UNCHANGED cfg

StartFails(t) ==
    /\ up /\ t = Main /\ pc[t] = "wait" /\ oldDone # NoGen
    /\ up' = FALSE
    /\ pc' = [u \in Threads |-> "idle"]
    /\ ProcessEnds
    /\ UNCHANGED <<cfg, crashes>>

Step(t) ==
    \/ TruncateFile(t) \/ FillFile(t) \/ WriteFails(t) \/ StoreConfig(t)
    \/ Decide(t) \/ InstallPolicies(t)
    \/ Detach(t) \/ OldStopped(t) \/ WaitTimesOut(t) \/ Launch(t) \/ Release(t)
    \/ StartFails(t)

Next ==
    \/ \E t \in Threads : Update(t) \/ Toggle(t) \/ LockReconcile(t) \/ Step(t)
    \/ \E g \in Gens : InstanceStep(g)
    \/ Restart \/ RestartFails

(* A goroutine past its locks keeps running, and Go's mutex queues its     *)
(* waiters, so a call that waits for reconcileMu gets it in the end.       *)
(* Nothing is assumed of the instances: one may hang for ever.             *)
Fairness == \A t \in Threads : WF_vars(Step(t)) /\ SF_vars(LockReconcile(t))

Spec == Init /\ [][Next]_vars /\ Fairness

(***************************************************************************)
(* Properties                                                              *)
(***************************************************************************)
TypeOK ==
    /\ up \in BOOLEAN
    /\ disk \in Configs \cup {Empty, Torn}
    /\ cfg \in Configs
    /\ policies \in Pols
    /\ pc \in [Threads -> Labels]
    /\ call \in [Threads -> Calls]
    /\ reconcileMu \in Threads \cup {NoThread}
    /\ transitioning \in BOOLEAN /\ run \in BOOLEAN
    /\ gen \in 0 .. MaxGen
    /\ cancel \in 0 .. MaxGen /\ done \in 0 .. MaxGen
    /\ oldDone \in 0 .. MaxGen
    /\ snapshot \in Configs
    /\ inst \in [Gens -> Instance]
    /\ calls \in 0 .. MaxCalls
    /\ crashes \in 0 .. MaxCrashes
    /\ history \subseteq Events

(* The instance that is allowed to run, if any: not cancelled, not over.   *)
Authorised == {g \in Live : ~inst[g].cancelled}

(* At most one instance is allowed to run, and Runtime's fields know it:   *)
(* the panel's "running" is true exactly while there is one, and cancel    *)
(* and done are that instance's own.  An instance that outlived a timed    *)
(* out restart must not clear the fields of its successor                  *)
(* (runtime.go:238, if r.gen == gen).                                      *)
FieldsNameTheInstance ==
    /\ run => Authorised = {gen} /\ cancel = gen /\ done = gen
    /\ ~run => Authorised = {} /\ cancel = NoGen /\ done = NoGen

(* "Never let two transport restarts overlap" (runtime.go:148): two        *)
(* instances can own sockets at once only if a restart gave up waiting.    *)
OverlapOnlyAfterTimeout ==
    \A g, h \in Live : g # h => "timeout" \in history

Quiet == up /\ \A t \in Threads : pc[t] = "idle"

(* When no two calls ever overlapped and none failed, the file, the memory *)
(* and the transport agree once the calls have returned: the transport     *)
(* runs iff the stored configuration enables it, with the network settings *)
(* stored.  It covers the whole path of Update and Toggle, every restart   *)
(* decision and the launch.                                                *)
SerialCallsTakeEffect ==
    Quiet /\ history = {} =>
        /\ disk = cfg
        /\ run <=> cfg.enabled
        /\ run => inst[gen].cfg.net = cfg.net

(* Log line runtime.go:110, "applied without interrupting active           *)
(* connections", and TestTransportRestartRequiredIgnoresLinkAndPolicyFields:*)
(* an Update cancels the running instance only for a difference that needs *)
(* a restart.  Calls that overlap may each restart the transport, and a    *)
(* Toggle always does: Toggle(TRUE) on a running transport restarts it.    *)
NoNeedlessRestart ==
    [][\A g \in Gens :
        history = {} /\ up' /\ ~inst[g].cancelled /\ inst'[g].cancelled =>
            \E t \in Threads :
                /\ pc[t] = "detach"
                /\ call[t].op = "Update" =>
                     \/ call[t].previous.enabled # call[t].next.enabled
                     \/ call[t].previous.net # call[t].next.net]_vars

(* Runtime implements TransportSlot: the slot belongs to the instance that *)
(* Runtime.cancel cancels, and the instances still draining are those      *)
(* cancelled but not over.                                                 *)
Slot == INSTANCE TransportSlot WITH
    Ids <- Gens, slot <- cancel, last <- gen,
    draining <- {g \in Live : inst[g].cancelled}
ImplementsSlot == Slot!Spec

(* Every request returns, whatever the old instance does: the wait for it  *)
(* is bounded and reconcileMu is always released.                          *)
CallsReturn == \A t \in Threads : []<>(pc[t] = "idle")
=============================================================================
