---------------------------- MODULE RuntimeProofs ----------------------------
(* Proofs about Runtime, for any number of handlers, calls and crashes.    *)
EXTENDS Runtime, TLAPS

(***************************************************************************)
(* Type correctness                                                        *)
(***************************************************************************)
LEMMA ConstantTypes ==
    /\ MaxGen \in Nat /\ NoGen \in 0 .. MaxGen /\ Gens \subseteq 0 .. MaxGen
    /\ NoCall \in Calls
    /\ NotLaunched \in Instance
    /\ \A c \in Configs : c.pol \in Pols
    /\ \A i \in Instance : i.cfg \in Configs
BY CallsAssumption, ConfigAssumption
   DEF MaxGen, NoGen, Gens, NoCall, Calls, NotLaunched, Instance, Phases, Configs

LEMMA CallType ==
    ASSUME TypeOK, NEW t \in Threads, NEW kind \in {"Update", "Toggle"},
           NEW new \in Configs, Call(t, kind, new)
    PROVE  TypeOK'
BY CallsAssumption
   DEF Call, TypeOK, Calls, Labels, Events, runVars, recVars

LEMMA FileStepType ==
    ASSUME TypeOK, NEW t \in Threads,
           \/ TruncateFile(t) \/ FillFile(t) \/ WriteFails(t) \/ StoreConfig(t)
           \/ Decide(t) \/ InstallPolicies(t)
    PROVE  TypeOK'
<1> USE ConstantTypes DEF TypeOK, Goto, Labels, Events, runVars, recVars, auxVars
<1>1. CASE TruncateFile(t)
  BY <1>1 DEF TruncateFile
<1>2. CASE FillFile(t)
  BY <1>2 DEF FillFile, Calls
<1>3. CASE WriteFails(t)
  BY <1>3 DEF WriteFails
<1>4. CASE StoreConfig(t)
  BY <1>4 DEF StoreConfig, Calls
<1>5. CASE Decide(t)
  BY <1>5 DEF Decide
<1>6. CASE InstallPolicies(t)
  <2>1. call[t].next.pol \in Pols
    BY DEF Calls
  <2>2. QED
    BY <1>6, <2>1 DEF InstallPolicies
<1>7. QED
  BY <1>1, <1>2, <1>3, <1>4, <1>5, <1>6

LEMMA ReconcileStepType ==
    ASSUME TypeOK, NEW t \in Threads,
           \/ LockReconcile(t) \/ Detach(t) \/ OldStopped(t)
           \/ WaitTimesOut(t) \/ Launch(t) \/ Release(t)
    PROVE  TypeOK'
<1> USE ConstantTypes, ConfigAssumption
        DEF TypeOK, Goto, Labels, Events, runVars, recVars, auxVars
<1>1. CASE LockReconcile(t)
  BY <1>1 DEF LockReconcile
<1>2. CASE Detach(t)
  <2>1. inst' \in [Gens -> Instance]
    BY <1>2 DEF Detach, CancelInstance, Instance
  <2>2. QED
    BY <1>2, <2>1 DEF Detach
<1>3. CASE OldStopped(t)
  BY <1>3 DEF OldStopped
<1>4. CASE WaitTimesOut(t)
  BY <1>4 DEF WaitTimesOut
<1>5. CASE Launch(t)
  <2>1. gen + 1 \in 0 .. MaxGen
    BY <1>5 DEF Launch
  <2>2. inst' \in [Gens -> Instance]
    BY <1>5 DEF Launch, Instance, Phases
  <2>3. QED
    BY <1>5, <2>1, <2>2 DEF Launch
<1>6. CASE Release(t)
  BY <1>6 DEF Release
<1>7. QED
  BY <1>1, <1>2, <1>3, <1>4, <1>5, <1>6

LEMMA InstanceStepType ==
    ASSUME TypeOK, NEW g \in Gens, InstanceStep(g)
    PROVE  TypeOK'
<1> USE DEF TypeOK, Phase, Instance, Phases, Configs, callVars, runVars,
        recVars, auxVars
<1>1. CASE InstanceServes(g)
  BY <1>1 DEF InstanceServes
<1>2. CASE InstanceFails(g)
  BY <1>2 DEF InstanceFails
<1>3. CASE InstanceStops(g)
  BY <1>3 DEF InstanceStops
<1>4. CASE InstanceRetries(g)
  BY <1>4 DEF InstanceRetries
<1>5. CASE InstanceForgets(g)
  BY <1>5, ConstantTypes DEF InstanceForgets, ClearFields
<1>6. CASE InstanceCloses(g)
  BY <1>6 DEF InstanceCloses
<1>7. QED
  BY <1>1, <1>2, <1>3, <1>4, <1>5, <1>6 DEF InstanceStep

LEMMA ProcessEndType ==
    ASSUME TypeOK, NEW t \in Threads, Restart \/ RestartFails \/ StartFails(t)
    PROVE  TypeOK'
<1> USE ConstantTypes, ConfigAssumption
        DEF TypeOK, ProcessEnds, Labels, NoGen
<1>0. Killed => crashes' \in 0 .. MaxCrashes
  BY CallsAssumption DEF Killed
<1>1. CASE Restart
  BY <1>0, <1>1 DEF Restart, Killed, LoadConfig
<1>2. CASE RestartFails
  BY <1>0, <1>2 DEF RestartFails, Killed
<1>3. CASE StartFails(t)
  BY <1>3 DEF StartFails
<1>4. QED
  BY <1>1, <1>2, <1>3

(* Every variable keeps its type: in particular no instance is ever        *)
(* launched with, and no restart ever loads, an unreadable configuration.  *)
THEOREM TypeCorrect == Spec => []TypeOK
<1>1. Init => TypeOK
  <2> SUFFICES ASSUME Init PROVE TypeOK
    OBVIOUS
  <2>1. 0 \in 0 .. MaxGen /\ 0 \in 0 .. MaxCalls /\ 0 \in 0 .. MaxCrashes
    BY ConstantTypes, CallsAssumption
  <2>2. pc \in [Threads -> Labels]
    BY DEF Init, Labels
  <2>3. QED
    BY <2>1, <2>2, ConstantTypes, ConfigAssumption, Zenon
       DEF Init, TypeOK, NoGen, Events
<1>2. TypeOK /\ [Next]_vars => TypeOK'
  <2> SUFFICES ASSUME TypeOK, [Next]_vars
               PROVE  TypeOK'
    OBVIOUS
  <2>1. ASSUME NEW t \in Threads, Update(t)
        PROVE  TypeOK'
    BY <2>1, CallType, ConfigAssumption DEF Update
  <2>2. ASSUME NEW t \in Threads, Toggle(t)
        PROVE  TypeOK'
    <3>1. \A b \in BOOLEAN : [cfg EXCEPT !.enabled = b] \in Configs
      BY DEF TypeOK, Configs
    <3>2. QED
      BY <2>2, <3>1, CallType DEF Toggle
  <2>3. ASSUME NEW t \in Threads, LockReconcile(t) \/ Step(t)
        PROVE  TypeOK'
    BY <2>3, FileStepType, ReconcileStepType, ProcessEndType DEF Step
  <2>4. ASSUME NEW g \in Gens, InstanceStep(g)
        PROVE  TypeOK'
    BY <2>4, InstanceStepType
  <2>5. CASE Restart \/ RestartFails
    BY <2>5, ProcessEndType DEF Threads
  <2>6. CASE UNCHANGED vars
    BY <2>6 DEF TypeOK, vars, callVars, runVars, recVars, auxVars
  <2>7. QED
    BY <2>1, <2>2, <2>3, <2>4, <2>5, <2>6 DEF Next
<1>3. QED
  BY <1>1, <1>2, PTL DEF Spec

(***************************************************************************)
(* The inductive invariant                                                 *)
(***************************************************************************)
Held == {"detach", "wait", "launch", "release"}
LivePhases == {"start", "serve", "backoff"}

(* reconcileMu belongs to the one call that is inside reconcile.           *)
LockInv == \A t \in Threads : pc[t] \in Held <=> reconcileMu = t

(* The instances are those of the generations so far; one that is not      *)
(* cancelled is the latest, still in its loop, and Runtime's fields are    *)
(* set exactly for it.                                                     *)
InstanceInv ==
    /\ \A g \in Gens : inst[g].phase = "none" <=> g > gen
    /\ \A g \in Gens : inst[g].phase # "none" /\ ~inst[g].cancelled =>
                         run /\ g = gen
    /\ run => /\ gen \in Gens /\ cancel = gen /\ done = gen
              /\ inst[gen].phase \in LivePhases
              /\ ~inst[gen].cancelled
    /\ ~run => cancel = NoGen /\ done = NoGen

(* Between detaching the old instance and launching the new one no         *)
(* instance is allowed to run.                                             *)
DetachedInv == \A t \in Threads : pc[t] \in {"wait", "launch"} => ~run

(* Until a restart times out, every generation but the latest is over, and *)
(* a cancelled one that is not over is being waited for.                   *)
WaitInv ==
    "timeout" \notin history =>
        /\ \A g \in Gens : g < gen => inst[g].phase = "closed"
        /\ \A g \in Gens :
              inst[g].cancelled /\ inst[g].phase \notin {"none", "closed"} =>
                \E t \in Threads : pc[t] = "wait" /\ oldDone = g

Safe == LockInv /\ InstanceInv /\ DetachedInv /\ WaitInv

(* A call that moves about outside reconcile touches nothing of this.      *)
LEMMA OutsideStep ==
    ASSUME TypeOK, Safe, NEW t \in Threads, NEW to \in Labels \ Held,
           pc[t] \notin Held, pc' = [pc EXCEPT ![t] = to],
           UNCHANGED <<runVars, recVars, inst>>, history \subseteq history'
    PROVE  Safe'
<1> USE DEF TypeOK, Safe, runVars, recVars
<1>1. LockInv'
  BY DEF LockInv
<1>2. InstanceInv'
  BY DEF InstanceInv
<1>3. DetachedInv'
  BY DEF DetachedInv, Held
<1>4. WaitInv'
  BY DEF WaitInv, Held
<1>5. QED
  BY <1>1, <1>2, <1>3, <1>4

LEMMA OutsideSafe ==
    ASSUME TypeOK, Safe, NEW t \in Threads,
           \/ Update(t) \/ Toggle(t) \/ TruncateFile(t) \/ FillFile(t)
           \/ WriteFails(t) \/ StoreConfig(t) \/ Decide(t) \/ InstallPolicies(t)
    PROVE  Safe'
<1> USE OutsideStep DEF Labels, Held, Goto, auxVars
<1>1. CASE Update(t) \/ Toggle(t)
  BY <1>1 DEF Update, Toggle, Call
<1>2. CASE TruncateFile(t)
  BY <1>2 DEF TruncateFile
<1>3. CASE FillFile(t)
  BY <1>3 DEF FillFile
<1>4. CASE WriteFails(t)
  BY <1>4 DEF WriteFails
<1>5. CASE StoreConfig(t)
  BY <1>5 DEF StoreConfig
<1>6. CASE Decide(t)
  BY <1>6 DEF Decide
<1>7. CASE InstallPolicies(t)
  BY <1>7 DEF InstallPolicies
<1>8. QED
  BY <1>1, <1>2, <1>3, <1>4, <1>5, <1>6, <1>7

LEMMA LockReconcileSafe ==
    ASSUME TypeOK, Safe, NEW t \in Threads, LockReconcile(t)
    PROVE  Safe'
<1> USE DEF TypeOK, Safe, LockReconcile, Goto, auxVars
<1>1. LockInv'
  BY ThreadAssumption DEF LockInv, Held
<1>2. InstanceInv'
  BY DEF InstanceInv
<1>3. DetachedInv'
  BY DEF DetachedInv
<1>4. WaitInv'
  BY DEF WaitInv
<1>5. QED
  BY <1>1, <1>2, <1>3, <1>4

(* Cancelling the one instance that runs leaves none that may run.         *)
LEMMA CancelSafe ==
    ASSUME TypeOK, InstanceInv, CancelInstance(cancel), gen' = gen,
           run' = FALSE, cancel' = NoGen, done' = NoGen
    PROVE  InstanceInv'
<1>1. inst \in [Gens -> Instance]
  BY DEF TypeOK
<1>2. \A g \in Gens : inst'[g].phase = inst[g].phase
  BY <1>1 DEF CancelInstance, Instance
<1>3. ASSUME NEW g \in Gens, inst[g].phase # "none", ~inst'[g].cancelled
      PROVE  FALSE
  <2>1. CASE cancel = NoGen
    BY <1>3, <2>1 DEF CancelInstance, InstanceInv, NoGen, Gens
  <2>2. CASE cancel # NoGen
    <3>1. inst' = [inst EXCEPT ![cancel].cancelled = TRUE]
      BY <2>2 DEF CancelInstance
    <3>2. cancel = gen
      BY <2>2 DEF InstanceInv, TypeOK
    <3>3. g # cancel
      BY <1>1, <1>3, <3>1 DEF Instance
    <3>4. ~inst[g].cancelled
      BY <1>1, <1>3, <3>1, <3>3
    <3>5. QED
      BY <1>3, <3>2, <3>3, <3>4 DEF InstanceInv
  <2>3. QED
    BY <2>1, <2>2
<1>4. QED
  BY <1>2, <1>3 DEF InstanceInv

LEMMA DetachSafe ==
    ASSUME TypeOK, Safe, NEW t \in Threads, Detach(t)
    PROVE  Safe'
<1> USE DEF TypeOK, Safe, Detach, Goto, auxVars
<1>1. LockInv'
  BY DEF LockInv, Held
<1>2. InstanceInv'
  BY CancelSafe
<1>3. DetachedInv'
  BY DEF DetachedInv
<1>4. WaitInv'
  <2> SUFFICES ASSUME "timeout" \notin history
               PROVE  /\ \A g \in Gens : g < gen => inst'[g].phase = "closed"
                      /\ \A g \in Gens :
                           /\ inst'[g].cancelled
                           /\ inst'[g].phase \notin {"none", "closed"}
                           => \E u \in Threads : pc'[u] = "wait" /\ oldDone' = g
    BY DEF WaitInv
  <2>1. \A g \in Gens : inst'[g].phase = inst[g].phase
    BY DEF CancelInstance, Instance
  <2>2. \A u \in Threads : pc[u] # "wait"
    BY DEF LockInv, Held
  <2>3. ASSUME NEW g \in Gens, inst'[g].cancelled,
               inst'[g].phase \notin {"none", "closed"}
        PROVE  pc'[t] = "wait" /\ oldDone' = g
    <3>1. ~inst[g].cancelled
      BY <2>1, <2>2, <2>3 DEF WaitInv
    <3>2. cancel = g /\ done = g
      BY <2>1, <2>3, <3>1 DEF InstanceInv
    <3>3. QED
      BY <3>2
  <2>4. QED
    BY <2>1, <2>3 DEF WaitInv
<1>5. QED
  BY <1>1, <1>2, <1>3, <1>4

LEMMA OldStoppedSafe ==
    ASSUME TypeOK, Safe, NEW t \in Threads, OldStopped(t)
    PROVE  Safe'
<1> USE DEF TypeOK, Safe, OldStopped, Goto, runVars, recVars, auxVars
<1>1. LockInv'
  BY DEF LockInv, Held
<1>2. InstanceInv'
  BY DEF InstanceInv
<1>3. DetachedInv'
  BY DEF DetachedInv
<1>4. WaitInv'
  BY DEF WaitInv, OldIsOver, NoGen, Gens, LockInv, Held
<1>5. QED
  BY <1>1, <1>2, <1>3, <1>4

LEMMA WaitTimesOutSafe ==
    ASSUME TypeOK, Safe, NEW t \in Threads, WaitTimesOut(t)
    PROVE  Safe'
<1> USE DEF TypeOK, Safe, WaitTimesOut, Goto, runVars, recVars
<1>1. LockInv'
  BY DEF LockInv, Held
<1>2. InstanceInv'
  BY DEF InstanceInv
<1>3. DetachedInv'
  BY DEF DetachedInv
<1>4. WaitInv'
  BY DEF WaitInv
<1>5. QED
  BY <1>1, <1>2, <1>3, <1>4

LEMMA LaunchSafe ==
    ASSUME TypeOK, Safe, NEW t \in Threads, Launch(t)
    PROVE  Safe'
<1> USE DEF TypeOK, Safe, Launch, Goto, recVars, auxVars
<1>1. LockInv'
  BY DEF LockInv, Held
<1>2. ~run
  BY DEF DetachedInv
<1>3. gen + 1 \in Gens
  BY ConstantTypes DEF Gens
<1>4. \A g \in Gens : inst'[g] = IF g = gen + 1
                                 THEN [phase |-> "start", cfg |-> snapshot,
                                       cancelled |-> FALSE]
                                 ELSE inst[g]
  BY <1>3
<1>5. InstanceInv'
  BY <1>2, <1>3, <1>4 DEF InstanceInv, LivePhases, Gens
<1>6. DetachedInv'
  BY DEF DetachedInv, LockInv, Held
<1>7. WaitInv'
  <2> SUFFICES ASSUME "timeout" \notin history, NEW g \in Gens, g < gen + 1
               PROVE  inst[g].phase = "closed"
    BY <1>3, <1>4, ConstantTypes DEF WaitInv, LockInv, Held, InstanceInv, Gens
  <2>1. CASE g < gen
    BY <2>1 DEF WaitInv
  <2>2. CASE g = gen
    <3>1. inst[g].phase # "none" /\ inst[g].cancelled
      BY <1>2, <2>2 DEF InstanceInv, Gens
    <3>2. \A u \in Threads : pc[u] # "wait"
      BY DEF LockInv, Held
    <3>3. QED
      BY <3>1, <3>2 DEF WaitInv
  <2>3. QED
    BY <2>1, <2>2 DEF Gens
<1>8. QED
  BY <1>1, <1>5, <1>6, <1>7

LEMMA ReleaseSafe ==
    ASSUME TypeOK, Safe, NEW t \in Threads, Release(t)
    PROVE  Safe'
<1> USE DEF TypeOK, Safe, Release, Goto, auxVars
<1>1. LockInv'
  BY ThreadAssumption DEF LockInv, Held
<1>2. InstanceInv'
  BY DEF InstanceInv
<1>3. DetachedInv'
  BY DEF DetachedInv
<1>4. WaitInv'
  BY DEF WaitInv, LockInv, Held
<1>5. QED
  BY <1>1, <1>2, <1>3, <1>4

(* An instance's own steps: it changes no call.                            *)
LEMMA InstanceStepSafe ==
    ASSUME TypeOK, Safe, NEW g \in Gens, InstanceStep(g)
    PROVE  Safe'
<1> USE DEF TypeOK, Safe, Phase, callVars, runVars, recVars, auxVars
<1>1. LockInv'
  BY DEF InstanceStep, InstanceServes, InstanceFails, InstanceStops,
         InstanceRetries, InstanceForgets, InstanceCloses, LockInv
<1>2. DetachedInv'
  BY DEF InstanceStep, InstanceServes, InstanceFails, InstanceStops,
         InstanceRetries, InstanceForgets, InstanceCloses, ClearFields,
         DetachedInv
<1>3. InstanceInv'
  <2>1. ASSUME NEW to \in LivePhases \cup {"exit"},
               inst[g].phase \in LivePhases, to = "exit" => inst[g].cancelled,
               inst' = [inst EXCEPT ![g].phase = to],
               UNCHANGED <<run, gen, cancel, done>>
        PROVE  InstanceInv'
    <3>1. /\ inst'[g].phase = to /\ inst'[g].cancelled = inst[g].cancelled
          /\ \A h \in Gens \ {g} : inst'[h] = inst[h]
      BY <2>1 DEF Instance
    <3>2. QED
      BY <2>1, <3>1 DEF InstanceInv, LivePhases, Gens
  <2>2. CASE \/ InstanceServes(g) \/ InstanceFails(g)
             \/ InstanceStops(g) \/ InstanceRetries(g)
    BY <2>1, <2>2 DEF InstanceServes, InstanceFails, InstanceStops,
                      InstanceRetries, LivePhases
  <2>3. CASE InstanceForgets(g)
    BY <2>3 DEF InstanceForgets, ClearFields, InstanceInv, Instance,
                LivePhases, Gens
  <2>4. CASE InstanceCloses(g)
    BY <2>4 DEF InstanceCloses, InstanceInv, Instance, LivePhases, Gens
  <2>5. QED
    BY <2>2, <2>3, <2>4 DEF InstanceStep
<1>4. WaitInv'
  <2>1. /\ UNCHANGED <<pc, oldDone, gen, history>>
        /\ inst[g].phase \notin {"none", "closed"}
        /\ \A h \in Gens : /\ inst'[h].cancelled = inst[h].cancelled
                           /\ h # g => inst'[h].phase = inst[h].phase
    BY DEF InstanceStep, InstanceServes, InstanceFails, InstanceStops,
           InstanceRetries, InstanceForgets, InstanceCloses, Instance
  <2>2. QED
    BY <2>1 DEF WaitInv
<1>5. QED
  BY <1>1, <1>2, <1>3, <1>4

LEMMA ProcessEndSafe ==
    ASSUME TypeOK, Safe, NEW t \in Threads, Restart \/ RestartFails \/ StartFails(t)
    PROVE  Safe'
<1>1. /\ ProcessEnds
      /\ \A u \in Threads : pc'[u] \in {"lock", "idle"}
  BY DEF Restart, RestartFails, StartFails, Killed
<1>2. QED
  BY <1>1, ThreadAssumption
     DEF ProcessEnds, Safe, LockInv, InstanceInv, DetachedInv, WaitInv, Held,
         NotLaunched, NoGen, Gens

LEMMA Invariance == Spec => [](TypeOK /\ Safe)
<1>1. Init => Safe
  BY ThreadAssumption
     DEF Init, Safe, LockInv, InstanceInv, DetachedInv, WaitInv, Held,
         NotLaunched, NoGen, Gens
<1>2. TypeOK /\ Safe /\ [Next]_vars => Safe'
  <2> SUFFICES ASSUME TypeOK, Safe, [Next]_vars
               PROVE  Safe'
    OBVIOUS
  <2>1. ASSUME NEW t \in Threads, Update(t) \/ Toggle(t) \/ LockReconcile(t)
        PROVE  Safe'
    BY <2>1, OutsideSafe, LockReconcileSafe
  <2>2. ASSUME NEW t \in Threads, Step(t)
        PROVE  Safe'
    BY <2>2, OutsideSafe, DetachSafe, OldStoppedSafe, WaitTimesOutSafe,
       LaunchSafe, ReleaseSafe, ProcessEndSafe DEF Step
  <2>3. ASSUME NEW g \in Gens, InstanceStep(g)
        PROVE  Safe'
    BY <2>3, InstanceStepSafe
  <2>4. CASE Restart \/ RestartFails
    BY <2>4, ProcessEndSafe DEF Threads
  <2>5. CASE UNCHANGED vars
    BY <2>5 DEF vars, callVars, runVars, recVars, auxVars, Safe, LockInv,
                InstanceInv, DetachedInv, WaitInv
  <2>6. QED
    BY <2>1, <2>2, <2>3, <2>4, <2>5 DEF Next
<1>3. QED
  BY <1>1, <1>2, TypeCorrect, PTL DEF Spec

(***************************************************************************)
(* The safety theorems                                                     *)
(***************************************************************************)
(* At any time at most one instance is allowed to run, the panel's         *)
(* "running" says so exactly, and Runtime can cancel it and wait for it.   *)
THEOREM FieldsCorrect == Spec => []FieldsNameTheInstance
<1>1. TypeOK /\ Safe => FieldsNameTheInstance
  <2> SUFFICES ASSUME TypeOK, Safe
               PROVE  FieldsNameTheInstance
    OBVIOUS
  <2> USE DEF Safe, InstanceInv, Authorised, Live, LivePhases
  <2>1. CASE run
    BY <2>1 DEF FieldsNameTheInstance
  <2>2. CASE ~run
    BY <2>2 DEF FieldsNameTheInstance
  <2>3. QED
    BY <2>1, <2>2
<1>2. QED
  BY <1>1, Invariance, PTL

(* Two instances own sockets at once only after a restart has given up     *)
(* waiting for the old one.                                                *)
THEOREM OverlapNeedsTimeout == Spec => []OverlapOnlyAfterTimeout
<1>1. TypeOK /\ Safe => OverlapOnlyAfterTimeout
  <2> SUFFICES ASSUME TypeOK, Safe, "timeout" \notin history,
                      NEW g \in Live
               PROVE  g = gen
    BY DEF OverlapOnlyAfterTimeout
  <2>1. g \in Gens /\ inst[g].phase \notin {"none", "closed"}
    BY DEF Live
  <2>2. ~(g > gen) /\ ~(g < gen)
    BY <2>1 DEF Safe, InstanceInv, WaitInv
  <2>3. QED
    BY <2>1, <2>2 DEF TypeOK, Gens
<1>2. QED
  BY <1>1, Invariance, PTL

(***************************************************************************)
(* Calls that do not overlap                                               *)
(***************************************************************************)
(* The transport is the one that the configuration c asks for.             *)
Settled(c) == (run <=> c.enabled) /\ (run => inst[gen].cfg.net = c.net)

(* What a call has done so far, when no other call is under way.           *)
Progress(t) ==
    /\ pc[t] \in {"write", "fill", "store"} =>
          call[t].previous = cfg /\ Settled(cfg)
    /\ pc[t] = "fill" => disk = Empty
    /\ pc[t] = "store" => disk = call[t].next
    /\ pc[t] \in {"decide", "policies"} => disk = cfg /\ cfg = call[t].next
    /\ pc[t] = "decide" => Settled(call[t].previous)
    /\ pc[t] \in {"lock"} \cup Held => disk = cfg
    /\ pc[t] \in {"lock", "detach"} /\ call[t].op = "Update" =>
          ~run \/ transportRestartRequired(call[t].previous, call[t].next)
    /\ pc[t] \in {"wait", "launch"} => snapshot = cfg
    /\ pc[t] = "launch" => cfg.enabled
    /\ pc[t] \in {"policies", "release"} => Settled(cfg)

(* Without overlaps, timeouts and failures one call at a time is under     *)
(* way, and between calls everything agrees.                               *)
Serial ==
    up /\ history = {} =>
        /\ \A t, u \in Threads : pc[t] # "idle" /\ pc[u] # "idle" => t = u
        /\ \A t \in Threads : Progress(t)
        /\ (\A t \in Threads : pc[t] = "idle") => disk = cfg /\ Settled(cfg)

LEMMA SerialMove ==
    ASSUME TypeOK, Serial, NEW t \in Threads, NEW to \in Labels,
           pc[t] # "idle", pc' = [pc EXCEPT ![t] = to],
           up' = up, history \subseteq history',
           up /\ history = {} =>
               Progress(t)' /\ (to = "idle" => disk' = cfg' /\ Settled(cfg)')
    PROVE  Serial'
<1> SUFFICES ASSUME up', history' = {} PROVE Serial'
  BY DEF Serial
<1>1. up /\ history = {}
  OBVIOUS
<1>2. \A u \in Threads \ {t} : pc[u] = "idle" /\ pc'[u] = "idle"
  BY <1>1 DEF Serial, TypeOK
<1>3. pc'[t] = to
  BY DEF TypeOK
<1>4. \A u \in Threads \ {t} : Progress(u)'
  BY <1>2 DEF Progress, Held
<1>5. QED
  BY <1>1, <1>2, <1>3, <1>4 DEF Serial

LEMMA CallSerial ==
    ASSUME TypeOK, Serial, NEW t \in Threads, NEW kind \in {"Update", "Toggle"},
           NEW new \in Configs, Call(t, kind, new)
    PROVE  Serial'
<1>1. /\ up /\ up' = up /\ pc' = [pc EXCEPT ![t] = "write"]
      /\ call' = [call EXCEPT ![t] =
                     [op |-> kind, next |-> new, previous |-> cfg]]
      /\ UNCHANGED <<disk, cfg, run, gen, inst>>
  BY DEF Call, runVars
<1> SUFFICES ASSUME history' = {} PROVE Serial'
  BY DEF Serial
<1>2. history = {} /\ \A u \in Threads : pc[u] = "idle"
  BY DEF Call
<1>3. Settled(cfg)
  BY <1>1, <1>2 DEF Serial
<1>4. /\ pc'[t] = "write" /\ call'[t].previous = cfg
      /\ \A u \in Threads \ {t} : pc'[u] = "idle"
  BY <1>1, <1>2 DEF TypeOK
<1>5. Settled(cfg)'
  BY <1>1, <1>3 DEF Settled
<1>6. \A u \in Threads : Progress(u)'
  BY <1>1, <1>4, <1>5 DEF Progress, Held
<1>7. QED
  BY <1>4, <1>6 DEF Serial

LEMMA FileStepSerial ==
    ASSUME TypeOK, Serial, NEW t \in Threads,
           \/ TruncateFile(t) \/ FillFile(t) \/ WriteFails(t) \/ StoreConfig(t)
           \/ Decide(t) \/ InstallPolicies(t)
    PROVE  Serial'
<1> USE DEF Goto, runVars, recVars, auxVars
<1>1. up /\ history = {} => Progress(t)
  BY DEF Serial
<1>2. CASE TruncateFile(t)
  <2>1. /\ pc[t] = "write" /\ pc' = [pc EXCEPT ![t] = "fill"]
        /\ disk' = Empty
        /\ UNCHANGED <<up, cfg, call, run, gen, inst, history>>
    BY <1>2 DEF TruncateFile
  <2>2. up /\ history = {} => Progress(t)'
    BY <1>1, <2>1 DEF Progress, Settled, Held, TypeOK
  <2>3. QED
    BY <2>1, <2>2, SerialMove DEF Labels
<1>3. CASE FillFile(t)
  <2>1. /\ pc[t] = "fill" /\ pc' = [pc EXCEPT ![t] = "store"]
        /\ disk = Empty => disk' = call[t].next
        /\ UNCHANGED <<up, cfg, call, run, gen, inst, history>>
    BY <1>3 DEF FillFile
  <2>2. up /\ history = {} => Progress(t)'
    BY <1>1, <2>1 DEF Progress, Settled, Held, TypeOK
  <2>3. QED
    BY <2>1, <2>2, SerialMove DEF Labels
<1>4. CASE WriteFails(t)
  BY <1>4 DEF WriteFails, Serial
<1>5. CASE StoreConfig(t)
  <2> DEFINE to == IF call[t].op = "Toggle" THEN "lock" ELSE "decide"
  <2>1. /\ pc[t] = "store" /\ pc' = [pc EXCEPT ![t] = to]
        /\ cfg' = call[t].next
        /\ UNCHANGED <<up, disk, call, run, gen, inst, history>>
    BY <1>5 DEF StoreConfig
  <2>2. to \in {"lock", "decide"} /\ (to = "lock" => call[t].op # "Update")
    OBVIOUS
  <2> HIDE DEF to
  <2>3. up /\ history = {} => Progress(t)'
    BY <1>1, <2>1, <2>2 DEF Progress, Settled, Held, TypeOK
  <2>4. QED
    BY <2>1, <2>2, <2>3, SerialMove DEF Labels
<1>6. CASE Decide(t)
  <2> DEFINE to == IF \/ call[t].next.enabled /\ ~run
                      \/ transportRestartRequired(call[t].previous, call[t].next)
                   THEN "lock"
                   ELSE IF call[t].next.enabled THEN "policies" ELSE "idle"
  <2>1. /\ pc[t] = "decide" /\ pc' = [pc EXCEPT ![t] = to]
        /\ to # "idle" => call' = call
        /\ UNCHANGED <<up, disk, cfg, run, gen, inst, history>>
    BY <1>6 DEF Decide
  <2>2. to \in {"lock", "policies", "idle"}
    OBVIOUS
  <2>3. /\ call[t].next.enabled \in BOOLEAN
        /\ call[t].previous.enabled \in BOOLEAN
    BY DEF TypeOK, Calls, Configs
  <2>4. CASE to = "lock"
    <3>1. ~run \/ transportRestartRequired(call[t].previous, call[t].next)
      BY <2>4
    <3>2. up /\ history = {} => Progress(t)'
      BY <1>1, <2>1, <2>4, <3>1
         DEF Progress, Settled, Held, TypeOK, transportRestartRequired
    <3>3. QED
      BY <2>1, <2>4, <3>2, SerialMove DEF Labels
  <2>5. CASE to # "lock"
    <3>1. /\ call[t].previous.enabled = call[t].next.enabled
          /\ call[t].previous.net = call[t].next.net
      BY <2>5 DEF transportRestartRequired
    <3>2. up /\ history = {} => disk = cfg /\ Settled(cfg)
      BY <1>1, <2>1, <3>1 DEF Progress, Settled
    <3>3. up /\ history = {} => disk' = cfg' /\ Settled(cfg)'
      BY <2>1, <3>2 DEF Settled
    <3>4. up /\ history = {} => Progress(t)'
      <4>1. CASE to = "policies"
        BY <1>1, <2>1, <3>3, <4>1 DEF Progress, Held, TypeOK
      <4>2. CASE to = "idle"
        BY <2>1, <4>2 DEF Progress, Held, TypeOK
      <4>3. QED
        BY <2>2, <2>5, <4>1, <4>2
    <3>5. QED
      BY <2>1, <2>2, <3>3, <3>4, SerialMove DEF Labels
  <2>6. QED
    BY <2>4, <2>5
<1>7. CASE InstallPolicies(t)
  <2>1. /\ pc[t] = "policies" /\ pc' = [pc EXCEPT ![t] = "idle"]
        /\ history \subseteq history'
        /\ UNCHANGED <<up, disk, cfg, run, gen, inst>>
    BY <1>7 DEF InstallPolicies
  <2>2. up /\ history = {} => disk' = cfg' /\ Settled(cfg)'
    BY <1>1, <2>1 DEF Progress, Settled
  <2>3. Progress(t)'
    BY <2>1 DEF Progress, Held, TypeOK
  <2>4. QED
    BY <2>1, <2>2, <2>3, SerialMove DEF Labels
<1>8. QED
  BY <1>2, <1>3, <1>4, <1>5, <1>6, <1>7

LEMMA ReconcileStepSerial ==
    ASSUME TypeOK, Safe, Serial, NEW t \in Threads,
           \/ LockReconcile(t) \/ Detach(t) \/ OldStopped(t)
           \/ WaitTimesOut(t) \/ Launch(t) \/ Release(t)
    PROVE  Serial'
<1> USE DEF Goto, runVars, recVars, auxVars
<1>1. up /\ history = {} => Progress(t)
  BY DEF Serial
<1>2. CASE LockReconcile(t)
  <2>1. /\ pc[t] = "lock" /\ pc' = [pc EXCEPT ![t] = "detach"]
        /\ UNCHANGED <<up, disk, cfg, call, run, gen, inst, history>>
    BY <1>2 DEF LockReconcile
  <2>2. up /\ history = {} => Progress(t)'
    BY <1>1, <2>1 DEF Progress, Held, TypeOK, transportRestartRequired
  <2>3. QED
    BY <2>1, <2>2, SerialMove DEF Labels
<1>3. CASE Detach(t)
  <2>1. /\ pc[t] = "detach" /\ pc' = [pc EXCEPT ![t] = "wait"]
        /\ snapshot' = cfg
        /\ UNCHANGED <<up, disk, cfg, call, history>>
    BY <1>3 DEF Detach
  <2>2. up /\ history = {} => Progress(t)'
    BY <1>1, <2>1 DEF Progress, Held, TypeOK
  <2>3. QED
    BY <2>1, <2>2, SerialMove DEF Labels
<1>4. CASE OldStopped(t)
  <2> DEFINE to == IF snapshot.enabled THEN "launch" ELSE "release"
  <2>1. /\ pc[t] = "wait" /\ pc' = [pc EXCEPT ![t] = to]
        /\ UNCHANGED <<up, disk, cfg, call, run, gen, inst, snapshot, history>>
    BY <1>4 DEF OldStopped
  <2>2. /\ to \in {"launch", "release"}
        /\ to = "launch" <=> snapshot.enabled
    OBVIOUS
  <2>3. ~run
    BY <2>1 DEF Safe, DetachedInv
  <2> HIDE DEF to
  <2>4. up /\ history = {} => Progress(t)'
    BY <1>1, <2>1, <2>2, <2>3 DEF Progress, Settled, Held, TypeOK
  <2>5. QED
    BY <2>1, <2>2, <2>4, SerialMove DEF Labels
<1>5. CASE WaitTimesOut(t)
  BY <1>5 DEF WaitTimesOut, Serial
<1>6. CASE Launch(t)
  <2>1. /\ pc[t] = "launch" /\ pc' = [pc EXCEPT ![t] = "release"]
        /\ run' = TRUE /\ gen' = gen + 1
        /\ UNCHANGED <<up, disk, cfg, call, snapshot, history>>
    BY <1>6 DEF Launch
  <2>2. inst'[gen + 1].cfg = snapshot
    <3>1. gen + 1 \in Gens
      BY <1>6, ConstantTypes DEF Launch, Gens, TypeOK
    <3>2. QED
      BY <1>6, <3>1 DEF Launch, TypeOK
  <2>3. up /\ history = {} => Progress(t)'
    BY <1>1, <2>1, <2>2 DEF Progress, Settled, Held, TypeOK
  <2>4. QED
    BY <2>1, <2>3, SerialMove DEF Labels
<1>7. CASE Release(t)
  <2>1. /\ pc[t] = "release" /\ pc' = [pc EXCEPT ![t] = "idle"]
        /\ UNCHANGED <<up, disk, cfg, run, gen, inst, history>>
    BY <1>7 DEF Release
  <2>2. up /\ history = {} => disk' = cfg' /\ Settled(cfg)'
    BY <1>1, <2>1 DEF Progress, Settled, Held
  <2>3. Progress(t)'
    BY <2>1 DEF Progress, Held, TypeOK
  <2>4. QED
    BY <2>1, <2>2, <2>3, SerialMove DEF Labels
<1>8. QED
  BY <1>2, <1>3, <1>4, <1>5, <1>6, <1>7

(* An instance changes neither what it was launched with nor, unless it    *)
(* has been detached already, what the fields say.                         *)
LEMMA InstanceStepSerial ==
    ASSUME TypeOK, Safe, Serial, NEW g \in Gens, InstanceStep(g)
    PROVE  Serial'
<1>1. UNCHANGED <<up, disk, cfg, pc, call, run, gen, snapshot, history>>
  BY DEF InstanceStep, InstanceServes, InstanceFails, InstanceStops,
         InstanceRetries, InstanceForgets, InstanceCloses, ClearFields, Phase,
         Safe, InstanceInv, LivePhases, TypeOK, callVars, runVars, recVars, auxVars
<1>2. \A h \in Gens : inst'[h].cfg = inst[h].cfg
  BY DEF InstanceStep, InstanceServes, InstanceFails, InstanceStops,
         InstanceRetries, InstanceForgets, InstanceCloses, Phase, TypeOK, Instance
<1>3. run => inst'[gen].cfg = inst[gen].cfg
  BY <1>2 DEF Safe, InstanceInv
<1>4. \A c \in Configs : Settled(c)' <=> Settled(c)
  BY <1>1, <1>3 DEF Settled
<1>5. cfg \in Configs /\ \A t \in Threads : call[t].previous \in Configs
  BY DEF TypeOK, Calls
<1>6. \A t \in Threads : Progress(t) => Progress(t)'
  BY <1>1, <1>4, <1>5 DEF Progress, transportRestartRequired
<1>7. QED
  BY <1>1, <1>4, <1>5, <1>6 DEF Serial

LEMMA ProcessEndSerial ==
    ASSUME TypeOK, NEW t \in Threads, Restart \/ RestartFails \/ StartFails(t)
    PROVE  Serial'
<1>1. CASE Restart
  <2>1. /\ pc' = [u \in Threads |-> IF u = Main THEN "lock" ELSE "idle"]
        /\ cfg' = disk' /\ run' = FALSE
    BY <1>1 DEF Restart, Killed, ProcessEnds
  <2>2. \A u \in Threads : Progress(u)'
    BY <2>1 DEF Progress, Held
  <2>3. QED
    BY <2>1, <2>2 DEF Serial, Threads
<1>2. CASE RestartFails \/ StartFails(t)
  BY <1>2 DEF RestartFails, StartFails, Serial
<1>3. QED
  BY <1>1, <1>2

LEMMA SerialInvariance == Spec => [](TypeOK /\ Safe /\ Serial)
<1>1. Init => Serial
  <2> SUFFICES ASSUME Init PROVE Serial
    OBVIOUS
  <2>1. \A t \in Threads : Progress(t)
    BY DEF Init, Progress, Held
  <2>2. QED
    BY <2>1 DEF Init, Serial, Threads
<1>2. TypeOK /\ Safe /\ Serial /\ [Next]_vars => Serial'
  <2> SUFFICES ASSUME TypeOK, Safe, Serial, [Next]_vars
               PROVE  Serial'
    OBVIOUS
  <2>1. ASSUME NEW t \in Threads, Update(t)
        PROVE  Serial'
    BY <2>1, CallSerial, ConfigAssumption DEF Update
  <2>2. ASSUME NEW t \in Threads, Toggle(t)
        PROVE  Serial'
    <3>1. \A b \in BOOLEAN : [cfg EXCEPT !.enabled = b] \in Configs
      BY DEF TypeOK, Configs
    <3>2. QED
      BY <2>2, <3>1, CallSerial DEF Toggle
  <2>3. ASSUME NEW t \in Threads, LockReconcile(t) \/ Step(t)
        PROVE  Serial'
    BY <2>3, FileStepSerial, ReconcileStepSerial, ProcessEndSerial DEF Step
  <2>4. ASSUME NEW g \in Gens, InstanceStep(g)
        PROVE  Serial'
    BY <2>4, InstanceStepSerial
  <2>5. CASE Restart \/ RestartFails
    BY <2>5, ProcessEndSerial DEF Threads
  <2>6. CASE UNCHANGED vars
    BY <2>6 DEF vars, callVars, runVars, recVars, auxVars, Serial, Progress,
                Settled, transportRestartRequired
  <2>7. QED
    BY <2>1, <2>2, <2>3, <2>4, <2>5, <2>6 DEF Next
<1>3. QED
  BY <1>1, <1>2, Invariance, PTL DEF Spec

(* Calls that did not overlap, time out or fail leave the file, the memory *)
(* and the transport in agreement: through every decision of Update and    *)
(* Toggle, every launch, and the restarts of the process between them.     *)
THEOREM SerialCalls == Spec => []SerialCallsTakeEffect
<1>1. Serial => SerialCallsTakeEffect
  BY DEF Serial, Settled, SerialCallsTakeEffect, Quiet
<1>2. QED
  BY <1>1, SerialInvariance, PTL

(* Only a call inside reconcile cancels the running instance, and only if  *)
(* what it saves differs in a setting that needs a restart (runtime.go:110).*)
LEMMA CancelledByDetach ==
    ASSUME TypeOK, Safe, Serial, Next, up', history = {},
           NEW g \in Gens, ~inst[g].cancelled, inst'[g].cancelled
    PROVE  \E t \in Threads :
              /\ pc[t] = "detach"
              /\ call[t].op = "Update" =>
                   \/ call[t].previous.enabled # call[t].next.enabled
                   \/ call[t].previous.net # call[t].next.net
<1>1. inst' # inst
  OBVIOUS
<1>2. ASSUME NEW t \in Threads, Detach(t)
      PROVE  /\ pc[t] = "detach"
             /\ call[t].op = "Update" =>
                  transportRestartRequired(call[t].previous, call[t].next)
  <2>1. up /\ pc[t] = "detach" /\ CancelInstance(cancel)
    BY <1>2 DEF Detach, Goto
  <2>2. cancel # NoGen
    BY <1>1, <2>1 DEF CancelInstance
  <2>3. run
    BY <2>2 DEF Safe, InstanceInv
  <2>4. QED
    BY <2>1, <2>3 DEF Serial, Progress
<1>3. ASSUME NEW t \in Threads, Launch(t) PROVE FALSE
  BY <1>3 DEF Launch, TypeOK
<1>4. ASSUME NEW h \in Gens, InstanceStep(h) PROVE FALSE
  BY <1>4 DEF InstanceStep, InstanceServes, InstanceFails, InstanceStops,
     InstanceRetries, InstanceForgets, InstanceCloses, Phase, TypeOK, Instance
<1>5. CASE ProcessEnds
  BY <1>5 DEF ProcessEnds, NotLaunched
<1>6. QED
  <2>1. \/ inst' = inst \/ ProcessEnds
        \/ \E t \in Threads : Detach(t) \/ Launch(t)
        \/ \E h \in Gens : InstanceStep(h)
    BY DEF Next, Update, Toggle, Call, LockReconcile, Step, TruncateFile,
           FillFile, WriteFails, StoreConfig, Decide, InstallPolicies,
           OldStopped, WaitTimesOut, Release, StartFails, Restart,
           RestartFails, Killed
  <2>2. QED
    BY <1>1, <1>2, <1>3, <1>4, <1>5, <2>1 DEF transportRestartRequired

(* No Update that overlaps no other call gives up the running transport    *)
(* unless it stores another enabled or other network settings              *)
(* (transportRestartRequired).  A Toggle always gives it up (reconcile).   *)
THEOREM NoRestartWithoutReason == Spec => NoNeedlessRestart
<1>1. TypeOK /\ Safe /\ Serial /\ [Next]_vars =>
        [\A g \in Gens :
           history = {} /\ up' /\ ~inst[g].cancelled /\ inst'[g].cancelled =>
             \E t \in Threads :
                /\ pc[t] = "detach"
                /\ call[t].op = "Update" =>
                     \/ call[t].previous.enabled # call[t].next.enabled
                     \/ call[t].previous.net # call[t].next.net]_vars
  BY CancelledByDetach
<1>2. QED
  BY <1>1, SerialInvariance, PTL DEF Spec, NoNeedlessRestart

(***************************************************************************)
(* Runtime implements TransportSlot                                        *)
(***************************************************************************)
Draining == {g \in Live : inst[g].cancelled}

LEMMA CallStutters ==
    ASSUME UNCHANGED <<inst, gen, cancel>>
    PROVE  UNCHANGED <<cancel, Draining, gen>>
BY DEF Draining, Live

LEMMA DetachRevokes ==
    ASSUME TypeOK, Safe, NEW t \in Threads, Detach(t)
    PROVE  Slot!Revoke \/ UNCHANGED <<cancel, Draining, gen>>
<1> USE DEF TypeOK, Safe, Detach
<1>1. CASE cancel = NoGen
  BY <1>1 DEF CancelInstance, Draining, Live
<1>2. CASE cancel # NoGen
  <2>1. /\ inst' = [inst EXCEPT ![cancel].cancelled = TRUE]
        /\ cancel \in Live
    BY <1>2 DEF CancelInstance, InstanceInv, Live, LivePhases
  <2>2. Draining' = Draining \cup {cancel}
    <3>1. \A g \in Gens : /\ inst'[g].phase = inst[g].phase
                          /\ g = cancel => inst'[g].cancelled
                          /\ g # cancel => inst'[g].cancelled = inst[g].cancelled
      BY <2>1 DEF Instance
    <3>2. QED
      BY <2>1, <3>1 DEF Draining, Live
  <2>3. QED
    BY <1>2, <2>2 DEF Slot!Revoke, Slot!NoId, NoGen, Draining
<1>3. QED
  BY <1>1, <1>2

LEMMA LaunchGrants ==
    ASSUME TypeOK, Safe, NEW t \in Threads, Launch(t)
    PROVE  gen + 1 \in Gens /\ Slot!Grant(gen + 1)
<1> USE DEF TypeOK, Safe, Launch
<1>1. gen + 1 \in Gens /\ gen + 1 > gen
  BY ConstantTypes DEF Gens
<1>2. cancel = NoGen
  BY DEF Goto, DetachedInv, InstanceInv
<1>3. Draining' = Draining
  <2>1. inst[gen + 1].phase = "none"
    BY <1>1 DEF InstanceInv
  <2>2. /\ ~inst'[gen + 1].cancelled
        /\ \A g \in Gens : g # gen + 1 => inst'[g] = inst[g]
    BY <1>1
  <2>3. QED
    BY <2>1, <2>2 DEF Draining, Live
<1>4. QED
  BY <1>1, <1>2, <1>3 DEF Slot!Grant, Slot!NoId, NoGen, Draining

LEMMA InstanceDrains ==
    ASSUME TypeOK, Safe, NEW g \in Gens, InstanceStep(g)
    PROVE  Slot!Drained(g) \/ UNCHANGED <<cancel, Draining, gen>>
<1> USE DEF TypeOK, Safe, callVars, runVars, recVars, auxVars
<1>1. UNCHANGED <<cancel, gen>>
  BY DEF InstanceStep, InstanceServes, InstanceFails, InstanceStops,
         InstanceRetries, InstanceForgets, InstanceCloses, ClearFields,
         InstanceInv, Phase, LivePhases
<1>2. /\ inst'[g].cancelled = inst[g].cancelled
      /\ \A h \in Gens \ {g} : inst'[h] = inst[h]
  BY DEF InstanceStep, InstanceServes, InstanceFails, InstanceStops,
         InstanceRetries, InstanceForgets, InstanceCloses, Phase, Instance
<1>3. g \in Live' => g \in Live
  BY DEF InstanceStep, InstanceServes, InstanceFails, InstanceStops,
         InstanceRetries, InstanceForgets, InstanceCloses, Phase, Instance, Live
<1>4. CASE g \in Draining /\ g \notin Live'
  <2>1. Draining' = Draining \ {g}
    BY <1>2, <1>4 DEF Draining, Live
  <2>2. QED
    BY <1>1, <1>4, <2>1 DEF Slot!Drained, Draining
<1>5. CASE ~(g \in Draining /\ g \notin Live')
  <2>1. Draining' = Draining
    BY <1>2, <1>3, <1>5 DEF Draining, Live
  <2>2. QED
    BY <1>1, <2>1
<1>6. QED
  BY <1>4, <1>5

LEMMA ProcessEndClears ==
    ASSUME ProcessEnds
    PROVE  Slot!Restart
BY DEF ProcessEnds, Slot!Restart, Slot!NoId, NoGen, NotLaunched, Live

(* Whatever the panel asks and however the instances behave, the transport *)
(* slot is held by one instance at a time, each instance gets it once, and *)
(* an instance that lost it only drains.                                   *)
THEOREM SlotImplemented == Spec => ImplementsSlot
<1>1. Init => Slot!Init
  BY DEF Init, Slot!Init, Slot!NoId, NoGen, NotLaunched, Live
<1>2. TypeOK /\ Safe /\ [Next]_vars => [Slot!Next]_<<cancel, Draining, gen>>
  <2> SUFFICES ASSUME TypeOK, Safe, [Next]_vars
               PROVE  Slot!Next \/ UNCHANGED <<cancel, Draining, gen>>
    OBVIOUS
  <2> USE DEF callVars, runVars, recVars, auxVars
  <2>1. ASSUME NEW t \in Threads, Update(t) \/ Toggle(t) \/ LockReconcile(t)
        PROVE  UNCHANGED <<cancel, Draining, gen>>
    BY <2>1, CallStutters DEF Update, Toggle, Call, LockReconcile
  <2>2. ASSUME NEW t \in Threads, Step(t)
        PROVE  Slot!Next \/ UNCHANGED <<cancel, Draining, gen>>
    <3>1. CASE \/ TruncateFile(t) \/ FillFile(t) \/ WriteFails(t)
               \/ StoreConfig(t) \/ Decide(t) \/ InstallPolicies(t)
      BY <3>1, CallStutters DEF TruncateFile, FillFile, WriteFails,
           StoreConfig, Decide, InstallPolicies
    <3>2. CASE OldStopped(t) \/ WaitTimesOut(t) \/ Release(t)
      BY <3>2, CallStutters DEF OldStopped, WaitTimesOut, Release
    <3>3. CASE Detach(t)
      BY <3>3, DetachRevokes DEF Slot!Next
    <3>4. CASE Launch(t)
      BY <3>4, LaunchGrants DEF Slot!Next
    <3>5. CASE StartFails(t)
      BY <3>5, ProcessEndClears DEF StartFails, Slot!Next
    <3>6. QED
      BY <2>2, <3>1, <3>2, <3>3, <3>4, <3>5 DEF Step
  <2>3. ASSUME NEW g \in Gens, InstanceStep(g)
        PROVE  Slot!Next \/ UNCHANGED <<cancel, Draining, gen>>
    BY <2>3, InstanceDrains DEF Slot!Next
  <2>4. CASE Restart \/ RestartFails
    BY <2>4, ProcessEndClears DEF Restart, RestartFails, Killed, Slot!Next
  <2>5. CASE UNCHANGED vars
    BY <2>5, CallStutters DEF vars
  <2>6. QED
    BY <2>1, <2>2, <2>3, <2>4, <2>5 DEF Next
<1>3. QED
  BY <1>1, <1>2, Invariance, PTL DEF Spec, ImplementsSlot, Slot!Spec, Draining
=============================================================================
