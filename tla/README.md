# Verification of the qWDTT server

TLA+ specifications, TLC runs and TLAPS proofs for the qWDTT server for
Keenetic routers (the Go program in `cmd/qwdtt` and `internal/qwdtt`, the
netfilter hook and the package scripts). Paths below without a directory are
files of `internal/qwdtt`.

## The system

One process runs on the router. `main` loads `config.json`, starts the web
panel and asks `Runtime` to start the transport. A transport instance
(`Service.Start`) creates a WireGuard interface, installs firewall rules and
listens on UDP: each datagram is wrapped like RTP with a key per profile, and
inside it a client speaks DTLS (whose payload is proxied to WireGuard) or RAW
(packets routed to a TUN device). The panel changes the configuration at any
time, and the updater replaces the whole program through opkg.

| Component | State it keeps | Operations | What makes it hard |
|---|---|---|---|
| Runtime (`runtime.go`, `main.go`) | configuration in memory and on disk; `run`, `gen`, `cancel`, `done`, two mutexes | Start, Update, Toggle, the instance goroutine with its retries | requests overlap; an old instance may hang; the process may be killed while it writes |
| Transport instance (`service.go`, `wrap_listener.go`, `raw.go`) | connections by address, selected profiles, the RAW channel, the sessions' wait group | Accept, AcceptRaw, session start and end, Close, Start | accept loop, RAW loop, sessions and Close run concurrently; a shutdown has to reach all of them |
| Addressing (`config.go`) | none: a function of the profile list | NormalizeProfiles, Validate | boundaries of a network; edits must not move the others |
| WireGuard peers (`service.go`, `wg_backend.go`) | `peerStore`, the kernel's peers | GETCONF, restore after a restart | the store outlives restarts and edits; an address belongs to one key in the kernel |
| Access policies (`nat.go`, `60-qwdtt-netfilter.sh`) | two iptables chains | install, hook | one command at a time, several installers, the hook in between, failing commands |
| Updater (`update.go`, `package-qwdtt.ps1`) | `updateState`, IPK files, what is installed | check, install, the detached script, preinst, postinst | the script outlives the process that started it; a status shared by checks and installs |
| Router rules (`nat.go`, `raw.go`, `60-qwdtt-netfilter.sh`) | rules in FORWARD, INPUT and POSTROUTING | start, save, hook | NDMS rebuilds the tables at any time; order decides; failing commands |
| Sessions (`service.go`, `raw.go`) | read deadlines, contexts, the list of the profile | handshake, commands, two copy loops, RAW loop | idle timeout against cancellation, two sockets, a client that vanished |
| RAW router (`raw.go`) | sessions and round robin position per client address, send queues | add, remove, downlink, writers | sessions come and go under the downlink |
| Traffic accounting (`profile_traffic.go`, `traffic.go`) | atomic counters, previous values, sessions | Connect, AddRX/TX, Snapshot, ResetSessions | snapshots interleave with each other and with traffic |
| Wrapping (`wrap.go`, `crypto.go`) | sequence number, timestamp, key | WrapPacket, UnwrapPacket | 16 and 32 bit counters that wrap |
| Panel and authentication (`web.go`, `auth.go`) | session tokens with an expiry | login, requests | concurrent requests |
| Log book, links, policy routing, packaging | a ring of entries; otherwise none | | sequential or pure |

They interact as follows. Panel handlers call `Runtime.Update` and
`Runtime.Toggle`; these write the file, decide on a restart and either run
`reconcile` (cancel the old instance, wait for it, launch another) or install
the access policies at once. The instance works on the copy of the
configuration it was launched with. Its accept loop hands connections to
sessions, or through a channel to the RAW loop; a session looks its profile up
by remote address, and GETCONF takes a peer from a store shared by all
instances. NDMS calls the hook whenever it rebuilds the firewall, and the hook
reads the stored configuration and writes the same chains. The updater's script
stops and starts the process.

What has to be right: at most one instance owns the sockets, and it is the one
the stored configuration asks for; a cancelled instance ends and releases them;
every connection has one owner and its own profile; profiles keep their
addresses and handed out configurations work; packets are treated as the
policies say; the newest version is installed, once; every request returns.

## Modules

| Module | Models | Uses |
|---|---|---|
| `TransportSlot` | what Runtime promises: a slot that one instance holds at a time | |
| `Runtime` | `runtime.go`, the start of `main.go` | refines `TransportSlot` |
| `RuntimeProofs` | theorems about Runtime | `Runtime`, TLAPS |
| `Transport` | one instance around one wrapped listener | |
| `TransportProofs` | theorems about Transport | `Transport`, TLAPS |
| `Sessions` | what a session is to Transport, in detail: phases, deadlines, who is online | |
| `SessionsProofs` | theorems about Sessions and Traffic | `Sessions`, `Traffic`, TLAPS |
| `Relays` | the RAW router for one client address, the downlink, the writers | |
| `RelaysProofs` | theorems about Relays | `Relays`, TLAPS |
| `Addressing` | the WireGuard and RAW addresses of `NormalizeProfiles` and `Validate` | |
| `Peers` | saves, restarts, the peer store, GETCONF, the kernel's addresses | `Addressing` |
| `PeersProofs` | theorems about Addressing and Peers | `Peers`, TLAPS |
| `Firewall` | the profile chains: compiling, installing, and the hook | |
| `FirewallProofs` | theorems about Firewall | `Firewall`, TLAPS |
| `HostRules` | the router's own chains: jumps, NAT, open ports, and the hook | |
| `HostRulesProofs` | theorems about HostRules | `HostRules`, TLAPS |
| `Traffic` | `profile_traffic.go`: who counts where, and the snapshots | |
| `Updater` | `update.go`, preinst and postinst | |
| `UpdaterProofs` | theorems about Updater | `Updater`, TLAPS |
| `MC...` | the constants of the runs | the module of that name |

**Runtime.** Each goroutine that enters Runtime has a label; there is one step
for each critical section of `Runtime.mu` and one for each operation on the
file, so the steps of two requests interleave as the locks allow. `Call` reads
the previous configuration as `Update` does before it applies the new one.
`TruncateFile` and `FillFile` are the two halves of `os.WriteFile`. `Detach`,
`OldStopped`, `WaitTimesOut`, `Launch`, `Release` are `reconcile`. An instance
has the phases of its loop: start, serve, backoff, exit, closing, closed. A
configuration is a record of what the code tells apart: enabled, the settings
that need a restart, the RAW settings that are read but not compared, the
policies. The variable `policies` is what the kernel got last.

**Transport.** The listener is used in three ways (shared port, DTLS port, RAW
port), chosen in Init. Actions follow the select statements of `Accept`,
`AcceptRaw` and their loops; `Close` of the listener and `Close` of a connection
are split at the points where another goroutine can see the difference. A
session is what it means to the shutdown: it owns a connection and ends. It
finds its profile by address: `Record` is `onSelected`, which stores the key for
the address of a connection. Both callers of it are there, the first packet
(`ReadFirst`) and a later one that only another key unwraps: `NewKey` changes the
connection under its mutex, and `RecordNewKey` is the callback behind the unlock,
which may come when the connection is closed and its address another one's
(`overtaken`).

**Sessions.** Time passes in ticks of five seconds, which all the timeouts of
the code are multiples of: 30 seconds for a command and for a silent WireGuard
client, 45 for the first command of RAW, 20 for a RAW read behind which a
session goes on if it was heard 25 seconds ago, 90 for the phases in between, 60
for the handshake, 20 for "online". `Tick` waits until no goroutine has anything
urgent to do. A session sets its deadline (`arm`), reads, and looks at its
context (`check`), which are the points where the cancellation can come in
between; the AfterFunc of proxyWG is the step `Interrupt`. The end of one loop
of proxyWG and the end of the other are two steps, and a session is over behind
both.

**Relays.** The entries of the router for one address: `items`, the round robin
position `rr` and what is left of the chunk. The downlink chooses a relay under
the mutex (`Route`) and sends behind it (`Send`), and the relay may leave in
between, which is two steps as well: it is removed, then its `done` is closed.

**Addressing and Peers.** An address is a number. `Fill` is the two loops of
`NormalizeProfiles`, written as the sets they compute; it serves both kinds of
addresses, which differ in where the gateway is (a RAW gateway is x.y.66.1, amid
its /16). In Peers a save is normalised, validated and stored in one step
(`ApplySave`), and the old interface goes in a later one if
`transportRestartRequired` says so (`Reconcile`): in between, which may be long
when another call holds `reconcileMu`, the old instance answers GETCONFs with the
profiles it was launched with (`live`). `Toggle` restarts the transport, too, from
the stored profiles or from those it had read before. GETCONF is two steps, the
look-up under the store's lock and the `wg set` behind it. That the kernel moves
an address to the peer that claims it last is taken from WireGuard. Saves are
handled one at a time here; calls that overlap are the subject of Runtime.

**Firewall.** A filter stands for the iptables commands of all its protocols,
addresses and ports, and the two chains are one, since they get the same rules
in the same order; an install appends one filter at a time. The hook is three
steps: the jump, the internet-only profiles, the RETURN. Its look at a chain and
the command behind it are one step. That the jump is deleted for a moment before
it is inserted at the top (`nat.go:188`) is not visible in the model.
What a packet meets is the first filter that matches.

**HostRules.** A script is the sequence of commands an actor has yet to give:
the start of a transport, a save that needs no restart, the hook for either
table. Actors give one command at a time, in any interleaving, and a command has
the effect iptables gives it (`-I`, `-A`, `-D`, and `-C` before the first two
where the code has it). `Rebuild` is NDMS: a table is back to Keenetic's own
rules, and the hook runs. `Fail` follows the error handling of each part of a
start.

**Traffic.** `Look` and `ConnectMode` are the two looks of ConnectMode at the map,
the second one under the lock. A snapshot is three steps: it reads the clock,
the counters (both at once), and computes its rates under the mutex.

**Updater.** A version is its dotted parts and package release. The mutex of
`updateState` makes one step of a read, a write or a claim; the time between
them belongs to other requests. A check gets a listing of some of the releases in
any order, from the API or from the page (`Fetch`), and goes through it with a
step for each turn of the loop (`Consider`). opkg holds its lock, and does not
downgrade.

## Runs

| Run | Checks | States |
|---|---|---|
| `runtime` | fields name the one authorised instance; overlap only after a timeout; serial calls take effect; no needless restart; every call returns; refinement of TransportSlot | 365 thousand |
| `transport` | a connection is tracked until it is closed, has one owner, a session finds the profile of its own key, sockets are released | 717 thousand |
| `transport_progress` | a cancelled instance ends, the accept loop goes on | 377 thousand |
| `transport_failed_start` | violated: a failed start returns (`runtime.go:221`) | |
| `sessions` | silent clients are dropped in time, and no others; online means heard; the shutdown ends sessions within a bound; neither loop of proxyWG is left behind | 63 thousand |
| `relays` | the round robin position stays valid, relays take turns, a removed one gets one packet more at most, a slow relay holds up nobody, writers end | 330 thousand |
| `peers` | profiles keep their addresses, saves are refused for a reason, configurations work | 934 thousand |
| `firewall` | packets are treated as the installed policies say | 1.2 million |
| `host_rules` | what leaves the tunnel meets the profile chains; an undisturbed start, save or hook leaves open what it should; nothing piles up | 1.1 million |
| `host_rules_raw` | violated: RAW meets the same policies (`nat.go:167`) | |
| `traffic` | one object counts; rates do not wrap unless snapshots overlap | 35 thousand |
| `updater` | one install unless its claim was overwritten; offers are newer; IPK files have an owner; a check finds the newest of what it is shown, in whatever order | 670 thousand |

The type invariants of Transport, Relays, HostRules and Traffic also say how the
parts of the state fit together (the connection in the map until its own Close,
the position within the list, one copy of each rule behind a start, what was
read within the past of the counters): each is described where it is defined.

### Bounds

- Runtime: two handlers and main, two requests (`MaxCalls`), one kill
  (`MaxCrashes`), two network settings and two policies. Two overlapping
  requests with an instance that hangs are enough for every pair of steps of
  `reconcile` and `Update` to interleave; each request launches one instance at
  most, so three generations exist: a hanging one, its successor, and one more.
- Transport: two endpoints, two connections, two keys, four packets, a RAW channel
  of one place. Four packets are a first one for either connection, one under
  another key and one more; liveness is checked with a single key and three
  packets, as keys have no part in it. One connection in the channel and one in
  the accept loop's hands fill it; two connections of one address show what an old
  Close does to a new entry; the channel's real size (64) changes nothing in the
  control.
- Peers: two profile IDs, two devices, two keys, a network with two client
  addresses (full with two profiles) and one with a single address; requests
  are the lists of one or two profiles whose address is missing, the network's
  own, or one of the two, the empty one, one that names a profile twice, and lists
  with RAW addresses that are missing, below
  the gateway, the gateway itself or the first one to give; either network may
  change.
- Updater: one check and two installs, two releases with numbers of different
  length, the newer one a prerelease, a router with a development build or the
  oldest release. The second install is the one that could get past the first. A
  check is shown either release, or both in either order, from the API or the page,
  whatever is published; for longer listings `FindsNewest` is the claim.
- Firewall: two slots for installs, two profiles, two configurations, two ports,
  three destinations. `MaxMixed` bounds the chain that overlapping installs fill:
  nothing is claimed about its contents, only about what the next undisturbed
  install makes of it. The proofs do without these bounds.
- HostRules: two events (a save, a stop, a failure, a rebuilt table) and two
  actors at work at a time: a pair of writers, or a rebuild behind a save, is what
  the properties can tell apart. Three configurations: RAW off, on a port of its
  own with another DTLS port, and on the port of DTLS. The proofs do without these
  bounds.
- Sessions: one session of either kind, one at a time (`MaxLive`): sessions share
  only the list, from which each removes its own entry. Ticks are counted up to
  ten, beyond every bound that is claimed.
- Relays: three relays, so that the position can point at, before and behind the
  one that leaves; chunks of two packets and a channel of one place, where the
  code has eight and 256. Each joins once, which is a new session in the code too.
  The proofs do without these bounds.
- Traffic: two sessions, two requests of the panel, two bytes in each direction
  and four snapshots: enough for one snapshot to overlap another and a third to
  follow. The proofs do without these bounds.

`CHECK_DEADLOCK FALSE` is set where the system really may come to rest: in
Runtime, Transport, HostRules and Traffic once the bounded requests, packets,
events and snapshots are used up, the server idles (and a process whose start
failed is over); in Sessions and Relays all sessions may be over. Peers,
Firewall and Updater cannot deadlock and are checked for it.

### Fairness

Runtime assumes that a goroutine that can run does run, and that Go's mutex is
handed to a waiter in the end (`SF` for `LockReconcile`; a starving waiter is
served first after a millisecond). Nothing is assumed of the instances:
`CallsReturn` holds although one may hang for ever. Transport assumes the same
of the accept loop, the RAW loop, `Close`, the sessions and `Start`; nobody has
to send packets, leave or cancel. That a session notices its closed connection
is justified by its read deadline. Sessions assumes it of each goroutine of a
session and of the listener that has seen the context end, and that time passes
(`SF` for `Tick`, which a goroutine with something to do holds back for a
moment). Relays assumes it of the downlink behind the mutex, of `remove` and of
the writers, but a write has to return only once the connection is closed: a
slow client may keep its writer for as long as it likes. No fairness is assumed
of clients, WireGuard, opkg, the hook or the network; Peers, Updater, Firewall,
HostRules and Traffic state safety properties only.

## Proofs

`RuntimeProofs` proves, for any sets of handlers and configurations and any
bounds, from the assumptions named in `Runtime` (the bounds are naturals, the
configurations well typed, `Main` is not a handler, the unreadable file
contents are not configurations):

- `TypeCorrect`: `Spec => []TypeOK`;
- `FieldsCorrect`: `Spec => []FieldsNameTheInstance`;
- `OverlapNeedsTimeout`: `Spec => []OverlapOnlyAfterTimeout`;
- `SerialCalls`: `Spec => []SerialCallsTakeEffect`;
- `NoRestartWithoutReason`: `Spec => NoNeedlessRestart`. It speaks of Updates: as
  long as no calls overlap, fail or time out, one gives up the running transport
  only for another `enabled` or other network settings. A Toggle is free to, and
  does: `Toggle(true)` on a running transport restarts it (`runtime.go:257-265`);
- `SlotImplemented`: `Spec => ImplementsSlot`, the refinement of TransportSlot.

`FieldsNameTheInstance` is not inductive: whether a launch keeps it depends on
who may launch. The inductive invariant `TypeOK /\ Safe` (lemma `Invariance`)
adds four parts. `LockInv`: the holder of `reconcileMu` is the one call inside
`reconcile`, so no two calls launch. `DetachedInv`: between detaching and
launching no instance is authorised. `InstanceInv`: the instances are those of
the generations so far, the only one that may be authorised is the latest, and
the fields are set exactly for it; this is where the test `r.gen == gen` of
`runtime.go:239` is needed. `WaitInv`: as long as no wait has timed out, every
older generation is over, and a cancelled one that is not is being waited for.
There is a lemma for each group of actions, with a step for each action. The
refinement follows from the invariant: a launch finds the slot empty and its
number unused, a detach revokes, the end of a cancelled instance is `Drained`,
and all else stutters or restarts. `SerialCallsTakeEffect` needs to know how far a
call has got: `Serial` says that without overlaps, failures and timeouts one call
at a time is under way, and `Progress`, label by label, which of the file, the
memory and the transport already carry what it asks for. The step that decides is
the one where `transportRestartRequired` compares the configuration the call read
before: only because nobody wrote in between is that the running one.

`SessionsProofs` proves, for any sets of WireGuard and RAW sessions and any
bounds, from `SessionsAssumption`:

- `SessionsTypeCorrect`: `Spec => []TypeOK`;
- `SilentSessionsEnd`: `Spec => []SilentEnds`;
- `OnlineWasHeard`: `Spec => []OnlineMeansHeard`;
- `ShutdownIsBounded`: `Spec => []ShutdownBound`;
- `DroppedWereSilent`: `Spec => OnlySilentDropped`.

Sessions meet only in `stop` and `since`, so the inductive invariant `Inv` says
of each session by itself what its record may be. `GoodWg`: in a forwarding read
the ticks of silence and the ticks the deadline has left add up to six unless
the read was interrupted; this ties what the code keeps (a deadline) to what the
property is about (silence). `GoodRaw`: the same for the two reads of four ticks
that a RAW session is given. `Shut`: a closed endpoint delivers nothing, so that
the shutdown is no older than the silence, and what is set behind the
interruption is set in the same tick. Without `Shut` a session could renew its
deadline while the service waits for it.

About Traffic the same module proves, for any sets of sessions of a profile and of
panel requests and any bounds, from `TrafficAssumption` (the bounds are naturals,
and `None` is not a session):

- `TrafficTypeCorrect`: `TrafficSpec => []TrafficTypeOK`;
- `OneTallyHolds`: `TrafficSpec => []OneTally`;
- `RatesAreDifferences`: `TrafficSpec => []RatesDoNotWrap`.

The inductive invariant `TallyInv` has six parts. `Tallies`: what a session has
found, and where it counts, is the object in the map, which is never replaced;
this is where the second look under the lock is needed. `Past` and `Unread`:
whatever a snapshot has read is in the past of the counters, and before its Load
it has read nothing. `SharedKnown`: of two snapshots that are under way each is
marked as shared, so that one which is not marked has been alone since it began.
`Ordered` follows: the snapshot it is compared with was complete before it read.

`TransportProofs` proves, for any set of endpoints and any bounds, from
`BoundAssumption` (the capacity of `rawCh` and the bounds are naturals):

- `TransportTypeCorrect`: `Spec => []TypeOK`, and with it that a stored
  connection stays in the map until its own `Close`;
- `ProfilesAreFound`: `Spec => []SessionFindsItsProfile`;
- `OwnersAreUnique`: `Spec => []OneOwner`;
- `SocketsAreReleased`: `Spec => []ReturnReleasesSockets`.

The inductive invariant `Inv` is the types and six parts. `Addressed`: the UDP
library has one connection for an address at a time. `Entries`: the map holds a
connection from its store to its own `Close`, and nothing else; with `Addressed`
and the order of the two operations of `wrappedConn.Close` it follows that a late
`Close` takes no younger connection's entry away. `Owners`: who owns a connection
has it from Accept, behind the packet that selected its key. `KeyKnown`: the map of
profiles has for an open connection the key it came under last, unless its reader
has yet to record that, or one whose connection had left the map recorded later.
`Closing`: a connection that is being closed has somebody who will finish, and
behind the walk of `listener.Close` none is open that it could see. `Returning`:
Start returns behind the loops and the sessions.

`RelaysProofs` proves, for any finite set of relays, any chunk and any capacity,
from `RelaysAssumption` (the marks `Nobody` and `Stopped` are not relays):

- `TypeCorrect`: `Spec => []TypeOK`, and with it that the list holds exactly the
  members, each once, and the position points into it;
- `TurnsAreFair`: `Spec => []FairTurns`.

That a relay is not passed over for ever is not inductive: a relay that leaves in
front of the others moves the position back to the start of the list, and those
who were about to be served wait again. The invariant `Turns` is a debt that no
step increases. For a member it adds the packets that passed it (`passed`), those
that come before its turn (`Wait`, from its place in the list, the position and
the rest of the chunk), a chunk for each relay that may yet join, and what it may
lose if all the others leave one after another: a chunk for each that is left,
each time, which sums to a product of two consecutive numbers. Serving another
relay moves one packet from the second term to the first; a relay that joins is
paid for by the third, one that leaves by the fourth. `Counted` bounds how many
can still join or leave, `Listed` ties the list to the sessions, and `Lates` says
that the packet in the downlink's hand is the only one that can come late.

`PeersProofs` proves, for any profiles, devices, networks and requests, from
`SettingsAssumption` and `InitialAssumption` (the settings are well typed, the
server's address follows the network's own, the RAW network has room for the
list, the first settings are valid):

- `TypeCorrect`: `Spec => []TypeOK`;
- `ConfigurationsHold`: `Spec => []ConfigurationsWork`;
- `AddressesAreKept`: `Spec => KeptAddresses`;
- `RefusalsHaveAReason`: `Spec => RefusedForAReason`.

The inductive invariant has three parts beside the types. `Sound`: only settings
that `Validate` passed are stored. `Stored`: a peer in the store never changes,
so what a device was given, or is about to be given, is still its profile's peer,
whatever the settings say by then. `Routed`: the kernel routes only to stored
peers, and has a route for every peer a device was given. If only one profile's
peer has an address, the route of that address can have no other key, and the
order in which `restoreWireGuardPeers` adds the peers does not matter.

Of `NormalizeProfiles` alone the same module proves, for every network and list
of addresses:

- `KeepsUsable`: a usable address that only one profile names stays where it is;
- `FillsDistinctly`: with room for the list every profile has a usable address
  of its own;
- `FillsValidly`: if, besides, none names the network's own address, `Validate`
  accepts the result.

They rest on `OneOfEachRank`: in a finite set of integers every number below its
size is the rank of exactly one member, because ranks are an injection between
two sets of one size. `Fill` chooses the free address whose rank is the number of
blanks before the profile, so a second profile cannot be given the same one.

`UpdaterProofs` proves, for any sets of checks, installs and releases and any
version numbers, from `ReleasesAssumption` (a version is a sequence of naturals
and a package release, and the router may start with a development build):

- `TypeCorrect`: `Spec => []TypeOK`;
- `OneInstall`: `Spec => []OneUnlessForgotten`;
- `NewerOffers`: `Spec => []OffersAreNewer`;
- `OwnedPackages`: `Spec => []PackagesOwned`;
- `FindsNewest`: `Spec => NewestFound`.

The inductive invariant `Inv` adds four parts to `PackagesOwned`: the types;
`Offers`, that whatever is offered, found by a check not stored yet, or asked for
by an install that is still a goroutine, is a release newer than the running
version; `Gone`, that a process that is not there keeps no offer, so that the
next one starts with none; and `Claims`, that unless the claim was forgotten one
install at most is live, and the status says "installing" or the process is a new
one, which has nothing to offer yet and was asked for nothing. The last case is
an install whose script outlives the process: the next process knows nothing of
it, but cannot start a second one before a check has found a release, which
forgets the claim. What `compareReleaseVersions` computes, a comparison of
sequences, is shown to be the order `Precedes` of the version numbers
(`OlderPrecedes`). A fifth part, `Scanning`, is the invariant of the loop over a
listing: of those it has looked at and that count, none precedes its choice
(`Best`). A turn that replaces the choice keeps this because the order is transitive
(`TurnBest`), one that does not because what was looked at is no newer.

`FirewallProofs` proves, for any lists of profiles and rules, any number of
installs and any bound, from `PoliciesAssumption` (the policies are well typed,
and no two profiles share an address, as `Validate` has it; that the networks of
WireGuard and RAW do not overlap is assumed):

- `TypeCorrect`: `Spec => []TypeOK`, and with it that the chain of an
  undisturbed install has its RETURN once;
- `PoliciesHold`: `Spec => []PoliciesInForce`.

The inductive invariant `Inv` is about the chain as a sequence. `Written`: while
an install is alone and the hook has not written, the chain and what the install
has yet to append make up the compiled policies; the flush makes this true, and
whoever else writes takes `alone` or sets `hooked`. `InForce`: behind an
undisturbed install the chain is the compiled policies, a RETURN, and whatever
the hook has appended since, which no packet reaches. `Jumped`: the jump is missing
only until the hook has come, or before anything was installed. `ToDo` is the
types of what is left to append.

What the chain does to a packet is a statement about sequences alone.
`FirstFlatten`: of concatenated lists of rules, only those decide that have a rule
about the packet; `CompileDecides` follows, as the compiled rules of every other
profile name another source; and `SourceMeans` says that the rules for one source
are what `Allowed` says of the policies. `FlattenSeq` is a recursive function of
the library. An induction over it is possible because the theorem about
naturals is stated for a set (`Induction`, from the least member of its
complement), and not for a predicate.

`HostRulesProofs` proves, for any ports and configurations, any number of saves,
stops, failures and rebuilt tables, and any number of actors at work at a time,
from `ConfigsAssumption` (the configurations are well typed, and a port is not the
name of an interface):

- `TypeCorrect`: `Spec => []TypeOK`, and with it that an undisturbed start leaves
  one copy of each rule of the tunnel and of the DTLS port;
- `TunnelStaysScreened`: `Spec => []TunnelScreened`;
- `WorkIsComplete`: `Spec => []WorkComplete`.

None of the three says anything of an actor that is still at work, so the
inductive invariant `Inv` has to. `Working` says it by what is to come: if nobody
else wrote from here on, the commands an actor has yet to give would leave what it
is there to leave (`Done`). Giving one of them keeps this by the definition of
`Turns`, which applies commands to a chain one after the other; at the last one
it is `Clean`, the claim about what is there. `Apart` ends the claim in time: of two
actors at work both are marked. `Solid` is what survives the hooks: behind an
undisturbed install no `ACCEPT` of the tunnel comes before its jump and before
Keenetic's rule, which is weaker than what the install left, but is kept by each
single command of a hook (`GentleKeeps`: it appends that `ACCEPT` and never deletes
the jump), wherever the hook is interrupted.

That a script does its work (`StartDone`, `SaveDone`, `HookFilterDone`,
`HookNatDone`) is proved from any contents of the chain, which is the point of the
deletions in the scripts: whatever earlier starts, other scripts and hooks have
left is gone or stays out of the way. Each part of a script is shown to
leave what it should, and the parts behind it to leave that alone (`WiredKept`,
`OpenedKept`): a command about other rules makes a chain that is `Alike`, in which
the rules in question come in the same order.

Only model-checked, because the prover cannot do it: the liveness properties
(`CallsReturn`, `CancelStops`, `AcceptGoesOn`, `BothLoopsEnd`, `DownlinkGoesOn`,
`WritersEnd`; fairness and ENABLED). Every safety property of a passing run is a
theorem.

## Where code and documents disagree

Two runs show what a comment says of the program and the program does not do;
they are the findings of `PROJECT.json`:

1. With RAW on its own port and the DTLS port occupied, `Service.Start` never
   returns: the RAW loop spins on the closed listener (`raw.go:377`), and the
   retry that `runtime.go:221` announces never comes.
2. After NDMS has rebuilt the filter table, the hook puts what accepts RAW
   traffic in front of the jump to the profile chains
   (`60-qwdtt-netfilter.sh:125`): the policies are no longer applied to RAW, in
   spite of `nat.go:167`, until the next save or restart.

Further behaviour that the models contain, and that properties exclude by a
named condition, or that no property mentions.

Runtime:

- A restart that times out forgets the old instance, and the next one runs
  beside it (`runtime.go:182`), although "a restart must not overlap two
  transport instances" (`runtime.go:175`). `OverlapOnlyAfterTimeout` says that
  this is the only way.
- A Toggle stored between the read and the write of an Update is missed by both
  (`runtime.go:98`): the transport may stay up with enabled=false stored.
- Policies saved while the instance starts are reverted by those it was launched
  with (`service.go:144`; `policies`, and `InstanceServes`).
- An edit of RAW settings is stored and not applied until something else
  restarts the transport (`raw` in Runtime's configurations, `RestartNeeded` in
  Peers). The policies, though, are installed at once for the new RAW addresses,
  while the instance serves the old ones.
- A kill between truncating and writing `config.json` leaves a file that the
  next start refuses (`RestartFails`).

Transport and sessions:

- A connection accepted behind `Close`'s walk over the map is never closed
  (`raced` in Transport).
- A connection that is closed while its reader changes the key records its profile
  for an address that a newer connection may have by then
  (`wrap_listener.go:278`; `overtaken` in Transport): the newer session is taken for
  the profile of the older one.
- The accept loop stays with an endpoint that sends only packets no key unwraps
  (`wrap_listener.go:123`), and with a full `rawCh` that nobody empties
  (`wrap_listener.go:133`): the two exceptions of `AcceptGoesOn`. The second one
  needs three connections, more than the run has.
- `rawNetConn.Read` tries a closed endpoint again until its read deadline
  (`raw.go:69`): a RAW session may live for 45 seconds after the listener has
  closed its endpoint, where `wrap_listener.go:175-177` says that reads "wake
  immediately" and `reconcile` waits for 10 seconds.
- A RAW session looks at its context only behind a packet of data: one whose
  endpoint the listener missed lives as long as keepalives come
  (`raw.go:527`; `ShutdownBound` excludes it).
- `service.go:23-24` speaks of keepalives every 25 seconds which 90 seconds
  tolerate; the deadline is 30.
- RAW touches its entry when it sends as well: a vanished client is online
  while packets arrive for it (`OnlineMeansHeard` is about WireGuard).
- An error when the TUN device is read ends the downlink for good, and the
  transport runs on (`DownlinkEnds` in Relays).

Peers:

- After a save has moved a profile (or the network), GETCONF hands out the address
  the profile had before, although the restart is over: the peer store outlives the
  transport, and `peerForProfile` (`service.go:461`) answers from it without a look
  at the profile, while the policies are installed for the new address (`PeerOf`
  prefers what `store` has). The same peer comes from a first GETCONF that the old
  instance answers between `runtime.go:87` and the end of its sessions.
- The peer of a deleted or moved profile is never removed; after a restart it
  competes for its old address with the profile that has it now, and the order of
  a map decides. `ConfigurationsWork` excepts exactly the addresses that the peers
  of two profiles share.

Firewall and router rules:

- A rule that names source addresses is compiled once per profile and comes
  before rules it should follow (`nat.go:369`), although rules apply from top to
  bottom (`README.md:132`).
- The hook's RETURN can get in front of rules an install has yet to append
  (`60-qwdtt-netfilter.sh:110`): then the LAN is open to an internet-only
  profile, against `60-qwdtt-netfilter.sh:90`.
- A port range in the form the panel suggests (`README.md:155`) makes iptables
  refuse the command and the install fail (`nat.go:385`).
- If the hook inserts its opening of a port between an install's jump and the
  ACCEPT at place 2, the ACCEPT comes to stand before the jump, and the tunnel is
  not screened until the next install (`solid` in HostRules).
- After a rebuild the hook appends what accepts the tunnel (`wdtt0`) behind
  Keenetic's last rule, which rejects: the tunnel is screened, and not carried,
  until the next install. `WorkComplete` claims `Carried` of starts and saves.
- With RAW on the port of DTLS, `startRawOnListener` installs no policies for it
  (`service.go:251`): RAW is not screened until the next save.
- The hook opens the RAW port that is stored, the instance uses the one it was
  launched with. The opening of a port that is given up stays.

Accounting:

- Two snapshots that overlap may make a rate wrap around
  (`profile_traffic.go:177`; `shared` in Traffic). RAW counts the directions the
  other way round than WireGuard does, into the same counters.

Updater:

- A check that ends during an install stores "idle" over "installing"
  (`update.go:391`), and the next request installs a second time
  (`forgotten`), in spite of "update is already installing".
- The releases page does not tell prereleases, so the fallback offers them
  (`Counts`); a fourth part of a version number is not compared (`Key`).
- If opkg fails behind preinst the service stays stopped (`Break`).

## Not modelled

- The packet format of wrapping (`wrap.go`, `crypto.go`): a computation on bytes
  with a random padding, around a cipher from a library. The sequence number and
  the time stamp wrap as RTP's do. That a changed key is written beside a running
  `WriteTo` (`wrap_listener.go:270`) may spoil one datagram.
- The selective routing (`policy.go`, `routing.go`, `backend.go`), key files, the
  `ip` commands of `WGBackend.Setup`, the legacy address and port modes of a
  firewall, the mangle table, ip6tables and the further MASQUERADE rules: lists
  of commands in a fixed order, which nobody else writes.
- The panel's sessions (`auth.go`), the log book (`log.go`) and `TrafficStats`
  (`traffic.go`): each operation is one critical section of one mutex that
  nothing else takes, so there is no interleaving to explore.
- The formats of links, configurations and answers, the DTLS handshake,
  rendering and the HTTP layer of the panel, build tooling: pure functions,
  libraries, or nothing that lives at run time.

## Plan

1. Composition: Runtime with the policies of Firewall, and with the peers' life
   across a timed out restart; Transport with Sessions as the refinement of its
   sessions.
2. Peers with the RAW addresses an instance serves, beside those the policies
   are installed for.
