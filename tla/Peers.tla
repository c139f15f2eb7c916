-------------------------------- MODULE Peers --------------------------------
(***************************************************************************)
(* The WireGuard peers: the profiles a save stores, the process-wide peer  *)
(* store that outlives transport restarts, the peers of the kernel         *)
(* interface, and the GETCONF command that hands a device its              *)
(* configuration (service.go, wg_backend.go, runtime.go, config.go).       *)
(*                                                                         *)
(* A peer is an address and a key.  In the kernel an address belongs to    *)
(* one key at a time: adding a peer takes the address from its last owner. *)
(* A save is stored first; only then is the old transport taken down, and  *)
(* until that is done its sessions still answer, from the profiles it was  *)
(* launched with.  Runtime waits for them before a new interface is set up *)
(* (module Runtime has the case where it gives up waiting).                *)
(***************************************************************************)
EXTENDS Addressing

CONSTANTS Ids,       \* profile IDs
          Devices,   \* client devices
          Requests,  \* the settings a save may carry: [net, rawNet, list]
          Initial,   \* the settings at the first start
          MaxKeys    \* bound: keys generated in the life of a process

Profile == [id : Ids, ip : Int, raw : Int]
Ips(list) == [i \in DOMAIN list |-> list[i].ip]
Raws(list) == [i \in DOMAIN list |-> list[i].raw]
IdsOf(list) == {list[i].id : i \in DOMAIN list}

Settings == [net : Network, rawNet : Network, list : Seq(Profile)]

(* The server's address follows the network's own, the RAW gateway lies    *)
(* within its /16, and that has room for any list.                         *)
ASSUME SettingsAssumption ==
    /\ MaxKeys \in Nat
    /\ \A r \in Requests \cup {Initial} :
          /\ r \in Settings
          /\ r.net.gateway = r.net.first + 1
          /\ r.rawNet.first <= r.rawNet.gateway
          /\ Len(r.list) <= Cardinality(Room(r.rawNet))
ASSUME InitialAssumption ==
    /\ Valid(Initial.net, Ips(Initial.list))
    /\ Distinct(Initial.rawNet, Raws(Initial.list))

VARIABLES
    settings,  \* the stored networks and profile list
    request,   \* the settings of the save being handled, or none
    applying,  \* the save is stored, and its restart yet to come
    live,      \* the profiles the transport was launched with
    serving,   \* the interface is up and its peers restored
    store,     \* peerStore.peers, by profile ID
    routes,    \* the kernel's allowed IPs: the key each address belongs to
    pending,   \* per device: the peer GETCONF has looked up
    given,     \* per device: the configuration it was given
    keys       \* keys generated

cfgVars  == <<settings, request, applying>>
peerVars == <<serving, store, routes, pending, given, keys>>
vars == <<cfgVars, live, peerVars>>

NoRequest ==
    [net |-> ServerNetwork(0, 0), rawNet |-> RawNetwork(0, 0, 0), list |-> <<>>]
NoPeer == [id |-> "none", ip |-> NoAddress, key |-> 0]
NoRoutes == [a \in {} |-> 0]

Init ==
    /\ settings = Initial /\ request = NoRequest /\ applying = FALSE
    /\ live = Initial.list
    /\ serving = FALSE /\ routes = NoRoutes
    /\ store = [i \in Ids |-> NoPeer]
    /\ pending = [d \in Devices |-> NoPeer]
    /\ given = [d \in Devices |-> NoPeer]
    /\ keys = 0

(***************************************************************************)
(* Saving the settings                                                     *)
(***************************************************************************)
ReceiveSave ==
    /\ request = NoRequest /\ ~applying
    /\ request' \in Requests
    /\ UNCHANGED <<settings, applying, live, peerVars>>

(* NormalizeProfiles, on what a request carries.                           *)
Normalize(r) ==
    LET ips == Fill(r.net, Ips(r.list))
        raws == Fill(r.rawNet, Raws(r.list))
    IN  [r EXCEPT !.list = [i \in DOMAIN @ |->
            [@[i] EXCEPT !.ip = ips[i], !.raw = raws[i]]]]

(* Mutant of Validates: only the IDs are checked.                          *)
ChecksIdsOnly(r) == Cardinality(IdsOf(r.list)) = Len(r.list)

Validates(r) ==
    /\ Valid(r.net, Ips(r.list))
    /\ Distinct(r.rawNet, Raws(r.list))
    /\ Cardinality(IdsOf(r.list)) = Len(r.list)

(* transportRestartRequired, as far as addresses go: it does not look at   *)
(* the RAW ones.                                                           *)
RestartNeeded(old, new) ==
    \/ old.net # new.net \/ Len(old.list) # Len(new.list)
    \/ \E i \in DOMAIN new.list : \A j \in DOMAIN old.list :
           <<old.list[j].id, old.list[j].ip>> # <<new.list[i].id, new.list[i].ip>>

(* Update stores the settings; the old transport goes on meanwhile.        *)
ApplySave ==
    LET new == Normalize(request) IN
    /\ request # NoRequest
    /\ request' = NoRequest
    /\ settings' = IF Validates(new) THEN new ELSE settings
    /\ applying' = (Validates(new) /\ RestartNeeded(settings, new))
    /\ UNCHANGED <<live, peerVars>>

(* A restart ends the sessions and deletes the interface with its peers.   *)
InterfaceDown ==
    /\ serving' = FALSE /\ routes' = NoRoutes
    /\ pending' = [d \in Devices |-> NoPeer]

(* reconcile for the save: the old sessions are over, the next transport   *)
(* has the stored profiles.                                                *)
Reconcile ==
    /\ applying
    /\ applying' = FALSE
    /\ live' = settings.list
    /\ InterfaceDown
    /\ UNCHANGED <<settings, request, store, given, keys>>

(* reconcile for a Toggle, which restarts a running transport, too: it may *)
(* have read the configuration before the save stored its own.             *)
Toggle ==
    /\ live' \in {live, settings.list}
    /\ InterfaceDown
    /\ UNCHANGED <<cfgVars, store, given, keys>>

(***************************************************************************)
(* Starting the transport                                                  *)
(***************************************************************************)
(* Mutant of Restored: the new interface starts without peers.             *)
NothingRestored == {NoRoutes}

(* restoreWireGuardPeers adds the peers in the order of a map's iteration: *)
(* of two with one address, either may come last.                          *)
Restored ==
    LET peers == {store[i] : i \in Ids} \ {NoPeer}
    IN  {r \in [{p.ip : p \in peers} -> 1 .. MaxKeys] :
            \A a \in DOMAIN r : \E p \in peers : p.ip = a /\ p.key = r[a]}

(* A setup that fails is tried again, from the start.                      *)
Serve ==
    /\ ~serving
    /\ serving' = TRUE
    /\ routes' \in Restored
    /\ UNCHANGED <<cfgVars, live, store, pending, given, keys>>

(* The process is killed and started again: the peers are gone, and the    *)
(* devices have to ask again.                                              *)
Restart ==
    /\ InterfaceDown
    /\ request' = NoRequest /\ applying' = FALSE
    /\ live' = settings.list
    /\ store' = [i \in Ids |-> NoPeer]
    /\ given' = [d \in Devices |-> NoPeer]
    /\ keys' = 0
    /\ UNCHANGED settings

(***************************************************************************)
(* GETCONF                                                                 *)
(***************************************************************************)
(* peerForProfile: the stored peer, or a new one at the profile's address. *)
PeerOf(p) ==
    IF store[p.id] # NoPeer THEN store[p.id]
    ELSE [id |-> p.id, ip |-> p.ip, key |-> keys + 1]

LookUpPeer(d, p) ==
    /\ serving /\ pending[d] = NoPeer
    /\ pending' = [pending EXCEPT ![d] = PeerOf(p)]
    /\ store' = [store EXCEPT ![p.id] = PeerOf(p)]
    /\ keys' = IF PeerOf(p).key > keys THEN keys + 1 ELSE keys
    /\ keys' <= MaxKeys
    /\ UNCHANGED <<cfgVars, live, serving, routes, given>>

Route(p) ==
    [a \in DOMAIN routes \cup {p.ip} |-> IF a = p.ip THEN p.key ELSE routes[a]]

(* AddPeer, then the answer.                                               *)
AddPeer(d) ==
    /\ pending[d] # NoPeer
    /\ routes' = Route(pending[d])
    /\ given' = [given EXCEPT ![d] = pending[d]]
    /\ pending' = [pending EXCEPT ![d] = NoPeer]
    /\ UNCHANGED <<cfgVars, live, serving, store, keys>>

(* The wg command fails: the answer is NOCONF.                             *)
AddPeerFails(d) ==
    /\ pending[d] # NoPeer
    /\ pending' = [pending EXCEPT ![d] = NoPeer]
    /\ UNCHANGED <<cfgVars, live, serving, store, routes, given, keys>>

Next ==
    \/ ReceiveSave \/ ApplySave \/ Reconcile \/ Toggle \/ Serve \/ Restart
    \/ \E d \in Devices :
         \/ \E i \in DOMAIN live : LookUpPeer(d, live[i])
         \/ AddPeer(d) \/ AddPeerFails(d)

Spec == Init /\ [][Next]_vars

(***************************************************************************)
(* Properties                                                              *)
(***************************************************************************)
Peer == [id : Ids, ip : Int, key : 1 .. MaxKeys]

TypeOK ==
    /\ \A i \in DOMAIN settings.list :
          /\ settings.list[i].id \in Ids
          /\ settings.list[i].ip \in Room(settings.net)
          /\ Usable(settings.rawNet, settings.list[i].raw)
    /\ request \in Requests \cup {NoRequest}
    /\ \A i \in DOMAIN live : live[i] \in Profile
    /\ serving \in BOOLEAN /\ applying \in BOOLEAN
    /\ store \in [Ids -> Peer \cup {NoPeer}]
    /\ pending \in [Devices -> Peer \cup {NoPeer}]
    /\ given \in [Devices -> Peer \cup {NoPeer}]
    /\ DOMAIN routes \subseteq Int
    /\ \A a \in DOMAIN routes : routes[a] \in 1 .. MaxKeys
    /\ keys \in 0 .. MaxKeys

(* In the network named n, the save moves no address of kind f that it     *)
(* hands in unchanged and gives to one profile only.                       *)
StaysPut(n, f) ==
    \A i \in DOMAIN settings.list, j \in DOMAIN request.list :
        /\ request[n] = settings[n]
        /\ request.list[j].id = settings.list[i].id
        /\ request.list[j][f] = settings.list[i][f]
        /\ \A k \in DOMAIN request.list \ {j} :
               request.list[k][f] # request.list[j][f]
        => settings'.list[j][f] = settings.list[i][f]

(* A save leaves a profile it does not touch where it was, wherever the    *)
(* other profiles move, come or go (config.go:283, NormalizeProfiles):     *)
(* devices hold configurations with the address, and so do the rules.      *)
(* That holds for the WireGuard and for the RAW addresses.                 *)
KeptAddresses ==
    [][request # NoRequest /\ settings' # settings =>
            StaysPut("net", "ip") /\ StaysPut("rawNet", "raw")]_vars

(* A save is refused for its addresses only if the network has no room for *)
(* the profiles, or one names the network's own address: whatever else is  *)
(* missing, foreign or doubled NormalizeProfiles repairs.                  *)
RefusedForAReason ==
    [][ApplySave /\ settings' # Normalize(request) =>
        \/ Cardinality(IdsOf(request.list)) # Len(request.list)
        \/ Len(request.list) > request.net.last - request.net.gateway - 1
        \/ \E j \in DOMAIN request.list :
               request.list[j].ip = request.net.first]_vars

(* What GETCONF has handed out keeps working: while the interface is up    *)
(* the kernel routes the address to the key, whatever was saved, restarted *)
(* or failed since, and whenever in a restart GETCONF was answered         *)
(* (service.go:205, 350, 455), unless the store holds a peer of another    *)
(* profile for the same address.                                           *)
ConfigurationsWork ==
    serving => \A d \in Devices : given[d] # NoPeer =>
        \/ /\ given[d].ip \in DOMAIN routes
           /\ routes[given[d].ip] = given[d].key
        \/ \E i \in Ids \ {given[d].id} :
              store[i] # NoPeer /\ store[i].ip = given[d].ip
=============================================================================
