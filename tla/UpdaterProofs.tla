---------------------------- MODULE UpdaterProofs ----------------------------
(* Proofs about Updater, for any number of requests and any releases.      *)
EXTENDS Updater, SequenceTheorems, FiniteSetTheorems, TLAPS

(***************************************************************************)
(* Comparing releases                                                      *)
(***************************************************************************)
LEMMA KeyParts ==
    ASSUME NEW v \in Version \cup {Dev}
    PROVE  /\ \A i \in 1 .. 3 : Key(v)[i] = Part(v, i) /\ Part(v, i) \in Nat
           /\ Key(v)[4] = v.release /\ v.release \in Int
<1> DEFINE s == [i \in 1 .. 3 |->
                    IF i \in DOMAIN v.parts THEN v.parts[i] ELSE 0]
<1>1. /\ v.parts \in Seq(Nat) /\ v.release \in Int
      /\ DOMAIN v.parts = 1 .. Len(v.parts) /\ Len(v.parts) \in Nat
  <2>1. CASE v \in Version
    BY <2>1, LenProperties DEF Version
  <2>2. CASE v = Dev
    BY <2>2 DEF Dev
  <2>3. QED
    BY <2>1, <2>2
<1>2. s \in Seq(Int) /\ Len(s) = 3
  <2>1. s \in [1 .. 3 -> Int]
    BY <1>1
  <2>2. QED
    BY <2>1
<1>3. <<v.release>> \in Seq(Int) /\ Len(<<v.release>>) = 1
  BY <1>1
<1>4. \A i \in 1 .. 3 : (s \o <<v.release>>)[i] = s[i]
  BY <1>2, <1>3, ConcatProperties
<1>5. (s \o <<v.release>>)[4] = v.release
  BY <1>2, <1>3, ConcatProperties
<1>6. \A i \in 1 .. 3 : s[i] = Part(v, i) /\ Part(v, i) \in Nat
  BY <1>1 DEF Part
<1>7. QED
  BY <1>1, <1>4, <1>5, <1>6 DEF Key

(* The loop over the parts compares them in their order.                   *)
LEMMA OlderPrecedes ==
    ASSUME NEW v \in Version \cup {Dev}, NEW w \in Version \cup {Dev}
    PROVE  Older(v, w) <=> Precedes(v, w)
<1> DEFINE k == Key(v)
           l == Key(w)
<1>1. /\ k[1] = Part(v, 1) /\ k[2] = Part(v, 2) /\ k[3] = Part(v, 3)
      /\ k[4] = v.release
      /\ l[1] = Part(w, 1) /\ l[2] = Part(w, 2) /\ l[3] = Part(w, 3)
      /\ l[4] = w.release
  BY KeyParts
<1> HIDE DEF k, l
<1>2. 1 .. 4 = {1, 2, 3, 4} /\ 1 .. 1 - 1 = {} /\ 1 .. 2 - 1 = {1}
      /\ 1 .. 3 - 1 = {1, 2} /\ 1 .. 4 - 1 = {1, 2, 3}
  OBVIOUS
<1>3. (\E i \in 1 .. 4 : k[i] < l[i] /\ \A j \in 1 .. i - 1 : k[j] = l[j])
      <=> \/ k[1] < l[1]
          \/ k[1] = l[1] /\ k[2] < l[2]
          \/ k[1] = l[1] /\ k[2] = l[2] /\ k[3] < l[3]
          \/ k[1] = l[1] /\ k[2] = l[2] /\ k[3] = l[3] /\ k[4] < l[4]
  BY <1>2
<1>4. QED
  BY <1>1, <1>3 DEF Older, Precedes, k, l

LEMMA PrecedesTransitive ==
    ASSUME NEW u \in Version, NEW v \in Version, NEW w \in Version,
           Precedes(u, v), ~Precedes(u, w)
    PROVE  ~Precedes(v, w)
<1>1. /\ \A i \in 1 .. 3 : /\ Part(u, i) \in Nat /\ Part(v, i) \in Nat
                             /\ Part(w, i) \in Nat
      /\ u.release \in Int /\ v.release \in Int /\ w.release \in Int
  BY KeyParts
<1>2. /\ Part(u, 1) \in Nat /\ Part(u, 2) \in Nat /\ Part(u, 3) \in Nat
      /\ Part(v, 1) \in Nat /\ Part(v, 2) \in Nat /\ Part(v, 3) \in Nat
      /\ Part(w, 1) \in Nat /\ Part(w, 2) \in Nat /\ Part(w, 3) \in Nat
  BY <1>1
<1>3. QED
  BY <1>1, <1>2 DEF Precedes

LEMMA NothingPrecedesItself ==
    ASSUME NEW v \in Version
    PROVE  ~Precedes(v, v)
<1>1. /\ Part(v, 1) \in Nat /\ Part(v, 2) \in Nat /\ Part(v, 3) \in Nat
      /\ v.release \in Int
  BY KeyParts
<1>2. QED
  BY <1>1 DEF Precedes

(* A release is newer than a development build.                            *)
LEMMA DevPrecedes == ASSUME NEW v \in Version PROVE Precedes(Dev, v)
<1>1. \A i \in 1 .. 3 : Part(Dev, i) = 0 /\ Part(v, i) \in Nat
  BY KeyParts DEF Part, Dev
<1>2. Dev.release = -1 /\ v.release \in Nat
  BY DEF Dev, Version
<1>3. QED
  BY <1>1, <1>2 DEF Precedes

LEMMA OutdatedPrecedes ==
    ASSUME NEW v \in Versions, running \in Versions \cup Installed
    PROVE  Outdated(v) => Precedes(running, v)
<1>1. v \in Version /\ running \in Version \cup {Dev}
  BY ReleasesAssumption DEF Versions
<1>2. QED
  BY <1>1, OlderPrecedes, DevPrecedes DEF Outdated

(***************************************************************************)
(* The inductive invariant                                                 *)
(***************************************************************************)
Infos ==
    [available : BOOLEAN, latest : Versions \cup {NoVersion}, status : Statuses]

Scans == [list : Seq(Releases), next : Nat, page : BOOLEAN,
          latest : Versions \cup {NoVersion}]

Places == {"free", "asked", "downloading", "saving", "runner", "opkg"}

Types ==
    /\ published \subseteq Releases
    /\ up \in BOOLEAN /\ interrupted \in BOOLEAN /\ forgotten \in BOOLEAN
    /\ running \in Versions \cup Installed /\ disk \in Versions \cup Installed
    /\ info \in Infos
    /\ scan \in [Checks -> Scans] /\ check \in [Checks -> Infos]
    /\ install \in [Installs -> [at : Places, info : Infos]]
    /\ files \subseteq Installs

(* The installs that are goroutines of the process.                        *)
Early(i) == install[i].at \in {"asked", "downloading", "saving"}

(* What is offered is a release, and so is what an install was asked for.  *)
OfferIn(n) == n.available => n.latest \in Versions /\ Precedes(running, n.latest)

Offers ==
    /\ \A i \in Installs :
          install[i].at # "free" => install[i].info.latest \in Versions
    /\ OfferIn(info) /\ \A c \in Checks : OfferIn(check[c])
    /\ \A i \in Installs :
          Early(i) => up /\ Precedes(running, install[i].info.latest)

(* What the loop over the releases keeps: the best of those it has passed. *)
Eligible(s) == {i \in DOMAIN s.list : s.page \/ ~s.list[i].pre}

Best(s) ==
    /\ s.next <= Len(s.list) + 1
    /\ s.latest # NoVersion => \E i \in Eligible(s) : s.list[i].version = s.latest
    /\ \A i \in Eligible(s) :
          i < s.next => s.latest # NoVersion
                        /\ ~Precedes(s.latest, s.list[i].version)

Scanning == \A c \in Checks : Best(scan[c])

(* A process that is not there keeps nothing.                              *)
Gone ==
    ~up => info = NoInfo
           /\ \A c \in Checks : check[c] = NoInfo /\ scan[c] = NoScan

(* The claim of the one live install stands: the status says so, or the    *)
(* process is a new one, which has nothing to offer yet.                   *)
Claims ==
    ~forgotten =>
        /\ \A i, j \in Live : i = j
        /\ Live # {} =>
              \/ info.status = "installing"
              \/ /\ ~info.available
                 /\ \A i \in Installs : install[i].at # "asked"

Inv == Types /\ Scanning /\ Offers /\ Gone /\ Claims /\ PackagesOwned

(* Without a scan there is no turn and no end of one.                      *)
LEMMA NoScanIdle ==
    ~(NoScan.next \in DOMAIN NoScan.list) /\ ~(NoScan.next > Len(NoScan.list))
BY DEF NoScan

LEMMA NoScanBest == NoScan \in Scans /\ Best(NoScan)
<1>1. Len(NoScan.list) = 0 /\ DOMAIN NoScan.list = {} /\ NoScan.next = 0
      /\ NoScan.latest = NoVersion
  BY DEF NoScan
<1>2. NoScan \in Scans
  BY EmptySeq DEF NoScan, Scans
<1>3. QED
  BY <1>1, <1>2 DEF Best, Eligible

LEMMA InitInv == Init => Inv
<1> SUFFICES ASSUME Init PROVE Inv
  OBVIOUS
<1> USE DEF Init, NoInfo, Free
<1>1. Types
  BY NoScanBest DEF Types, Infos, Places, Statuses
<1>2. Offers /\ Gone /\ Scanning
  BY NoScanBest DEF Offers, OfferIn, Early, Gone, Scanning
<1>3. Live = {} /\ {i \in Installs : install[i].at \in {"saving"} \cup Detached} = {}
  BY DEF Live, Detached
<1>4. Claims /\ PackagesOwned
  BY <1>3 DEF Claims, PackagesOwned
<1>5. QED
  BY <1>1, <1>2, <1>4 DEF Inv

(***************************************************************************)
(* What several actions have in common                                     *)
(***************************************************************************)
LEMMA SameScans == ASSUME Scanning, scan' = scan PROVE Scanning'
BY DEF Scanning, Best, Eligible

LEMMA LiveStates ==
    ASSUME Types
    PROVE  /\ Live = {i \in Installs : install[i].at \notin {"free", "asked"}}
           /\ NoInfo \in Infos /\ Free \in [at : Places, info : Infos]
BY DEF Types, Live, Places, Detached, NoInfo, Free, Infos, Statuses

LEMMA Remembers ==
    ASSUME Types, Types', NEW overwritten \in BOOLEAN, Remember(overwritten)
    PROVE  ~forgotten' <=> (~forgotten /\ ~overwritten) \/ Live' = {}
<1>1. Live' = {i \in Installs : install'[i].at \notin {"free", "asked"}}
  BY DEF Types, Live, Places, Detached
<1>2. (\E i \in Installs : install'[i].at \notin {"free", "asked"})
      <=> Live' # {}
  BY <1>1
<1>3. forgotten' = (/\ forgotten \/ overwritten
                    /\ \E i \in Installs : install'[i].at \notin {"free", "asked"})
  BY DEF Remember
<1>4. QED
  BY <1>2, <1>3

(* When a live install ends nothing is left of its claim.                  *)
LEMMA ClaimEnds ==
    ASSUME Types, Types', Claims, Remember(FALSE),
           NEW i \in Live, Live' \subseteq Live \ {i}
    PROVE  Claims'
<1>1. ASSUME ~forgotten' PROVE Live' = {}
  BY <1>1, Remembers DEF Claims
<1>2. QED
  BY <1>1 DEF Claims

(***************************************************************************)
(* The process and its checks                                              *)
(***************************************************************************)
LEMMA PublishInv ==
    ASSUME Inv, NEW r \in Releases, Publish(r)
    PROVE  Inv'
<1>1. /\ published' = published \cup {r}
      /\ UNCHANGED <<up, running, disk, info, scan, check, install, files, interrupted,
                     forgotten>>
  BY DEF Publish
<1>2. Live' = Live
  BY <1>1 DEF Live
<1>3. Types' /\ Offers' /\ Gone' /\ Claims' /\ PackagesOwned'
  BY <1>1, <1>2
     DEF Inv, Types, Offers, OfferIn, Early, Gone, Claims, PackagesOwned
<1>4. QED
  BY <1>1, <1>3, SameScans DEF Inv

(* What is left of the installs when the process ends.                     *)
LEMMA EndedInv ==
    ASSUME Inv, ProcessEnds,
           NEW keep \in SUBSET Live,
           \A i \in keep : /\ install'[i].at = "opkg" /\ install[i].at = "runner"
                           /\ install'[i].info = install[i].info,
           \A i \in Installs \ keep :
               install'[i] = IF install[i].at \in Detached THEN install[i] ELSE Free,
           install' \in [Installs -> [at : Places, info : Infos]],
           Remember(Live # keep),
           UNCHANGED <<published, running, disk, files>>
    PROVE  Inv'
<1> USE DEF Inv
<1>1. /\ up' = FALSE /\ info' = NoInfo /\ check' = [c \in Checks |-> NoInfo]
      /\ scan' = [c \in Checks |-> NoScan]
      /\ interrupted' = (interrupted \/ \E i \in Installs : Saving(i))
  BY DEF ProcessEnds
<1>2. NoInfo \in Infos /\ ~NoInfo.available /\ Free.at = "free"
  BY LiveStates DEF NoInfo, Free
<1>3. Types'
  <2>1. forgotten' \in BOOLEAN /\ interrupted' \in BOOLEAN
    BY <1>1 DEF Remember
  <2>2. check' \in [Checks -> Infos] /\ scan' \in [Checks -> Scans]
    BY <1>1, <1>2, NoScanBest
  <2>3. QED
    BY <1>1, <1>2, <2>1, <2>2 DEF Types
<1>4. /\ \A i \in Installs : install'[i].at \in {"free", "runner", "opkg"}
      /\ Live' \subseteq Live
      /\ \A i \in Installs : install'[i].at # "free" =>
            /\ install[i].at \in Detached
            /\ install'[i].info = install[i].info
  BY <1>2 DEF Detached, Live
<1>5. Offers' /\ Gone'
  BY <1>1, <1>2, <1>4 DEF Offers, OfferIn, Early, Gone, Detached
<1>6. Claims'
  <2>1. ASSUME ~forgotten'
        PROVE  (~forgotten /\ Live = keep) \/ Live' = {}
    BY <1>3, <2>1, Remembers
  <2>2. ASSUME ~forgotten' PROVE \A i, j \in Live' : i = j
    BY <1>4, <2>1, <2>2 DEF Claims
  <2>3. ~info'.available /\ \A i \in Installs : install'[i].at # "asked"
    BY <1>1, <1>2, <1>4
  <2>4. QED
    BY <2>2, <2>3 DEF Claims
<1>7. PackagesOwned'
  <2> DEFINE owners == {i \in Installs : install[i].at \in {"saving"} \cup Detached}
  <2>1. owners' \subseteq owners
    BY <1>4 DEF Detached
  <2>2. ASSUME ~interrupted' PROVE owners' = owners
    <3>1. \A i \in Installs : install[i].at # "saving"
      BY <1>1, <2>2 DEF Saving
    <3>2. \A i \in owners : install'[i].at \in Detached
      BY <3>1 DEF Detached
    <3>3. QED
      BY <2>1, <3>2
  <2>3. owners \subseteq files /\ (~interrupted => files = owners)
    BY DEF PackagesOwned
  <2>4. ~interrupted' => ~interrupted
    BY <1>1
  <2>5. owners' \subseteq files' /\ (~interrupted' => files' = owners')
    BY <2>1, <2>2, <2>3, <2>4
  <2>6. QED
    BY <2>5 DEF PackagesOwned
<1>8. Scanning'
  <2>1. \A c \in Checks : Best(scan'[c])
    BY <1>1, NoScanBest
  <2>2. QED
    BY <2>1 DEF Scanning, Best, Eligible
<1>9. QED
  BY <1>3, <1>5, <1>6, <1>7, <1>8

LEMMA StopInv ==
    ASSUME Inv, Stop
    PROVE  Inv'
<1>1. install' = [i \in Installs |->
                    IF install[i].at \in Detached THEN install[i] ELSE Free]
  BY DEF Stop, OthersEnd
<1>2. install' \in [Installs -> [at : Places, info : Infos]]
  BY <1>1, LiveStates DEF Inv, Types
<1>3. QED
  BY <1>1, <1>2, EndedInv DEF Stop

LEMMA StartInv ==
    ASSUME Inv, Start
    PROVE  Inv'
<1> USE DEF Inv
<1>1. /\ ~up /\ up' = TRUE /\ running' = disk
      /\ UNCHANGED <<published, disk, info, scan, check, install, files, interrupted,
                     forgotten>>
  BY DEF Start
<1>2. info = NoInfo /\ ~NoInfo.available /\ \A c \in Checks : check[c] = NoInfo
  BY <1>1 DEF Gone, NoInfo
<1>3. \A i \in Installs : ~Early(i)
  BY <1>1 DEF Offers
<1>4. Live' = Live
  BY <1>1 DEF Live
<1>5. Types' /\ Gone'
  BY <1>1 DEF Types, Gone
<1>6. Offers'
  BY <1>1, <1>2, <1>3 DEF Offers, OfferIn, Early
<1>7. Claims' /\ PackagesOwned'
  BY <1>1, <1>4 DEF Claims, PackagesOwned
<1>8. QED
  BY <1>1, <1>5, <1>6, <1>7, SameScans

LEMMA OfferType ==
    ASSUME Types, NEW v \in Versions
    PROVE  Offer(v) \in Infos /\ OfferIn(Offer(v))
<1>1. Outdated(v) \in BOOLEAN
  BY DEF Outdated, Older
<1>2. Outdated(v) => Precedes(running, v)
  BY OutdatedPrecedes DEF Types
<1>3. QED
  BY <1>1, <1>2 DEF Offer, Infos, Statuses, OfferIn

(* The steps of a check leave everything else alone.                       *)
LEMMA CheckInv ==
    ASSUME Inv, up,
           UNCHANGED <<published, up, running, disk, info, install, files,
                       interrupted, forgotten>>,
           scan' \in [Checks -> Scans], Scanning',
           check' \in [Checks -> Infos], \A c \in Checks : OfferIn(check'[c])
    PROVE  Inv'
<1> USE DEF Inv
<1>1. Types'
  BY DEF Types
<1>2. Offers'
  BY DEF Types, Offers, OfferIn, Early
<1>3. Live' = Live
  BY DEF Live
<1>4. Gone' /\ Claims' /\ PackagesOwned'
  BY <1>3 DEF Gone, Claims, PackagesOwned
<1>5. QED
  BY <1>1, <1>2, <1>4

(* One check's scan changes, and the new one is right.                     *)
LEMMA OneScan ==
    ASSUME Types, Scanning, NEW c \in Checks, NEW s \in Scans, Best(s),
           scan' = [scan EXCEPT ![c] = s]
    PROVE  scan' \in [Checks -> Scans] /\ Scanning'
<1>1. scan' \in [Checks -> Scans]
  BY DEF Types
<1>2. \A d \in Checks : Best(scan'[d])
  BY DEF Types, Scanning
<1>3. QED
  BY <1>1, <1>2 DEF Scanning, Best, Eligible

LEMMA FetchInv ==
    ASSUME Inv, NEW c \in Checks, Fetch(c)
    PROVE  Inv'
<1> USE DEF Inv
<1>1. PICK list \in Listings, page \in BOOLEAN :
          scan' = [scan EXCEPT ![c] = [list |-> list, next |-> 1, page |-> page,
                                       latest |-> NoVersion]]
  BY DEF Fetch
<1>2. PICK n \in 0 .. Cardinality(published) : list \in [1 .. n -> published]
  BY DEF Listings
<1>3. n \in Nat
  <2>1. IsFiniteSet(published)
    BY ReleasesAssumption, FS_Subset DEF Types
  <2>2. QED
    BY <2>1, FS_CardinalityType
<1> DEFINE s == [list |-> list, next |-> 1, page |-> page, latest |-> NoVersion]
<1>4. list \in Seq(Releases) /\ Len(list) = n /\ DOMAIN list = 1 .. n
  <2>1. list \in [1 .. n -> Releases]
    BY <1>2 DEF Types
  <2>2. QED
    BY <1>3, <2>1
<1>5. s \in Scans
  BY <1>4 DEF Scans
<1>6. Best(s)
  BY <1>3, <1>4 DEF Best, Eligible
<1> HIDE DEF s
<1>7. scan' = [scan EXCEPT ![c] = s]
  BY <1>1 DEF s
<1>8. scan' \in [Checks -> Scans] /\ Scanning'
  BY <1>5, <1>6, <1>7, OneScan
<1>9. check' = check /\ check \in [Checks -> Infos]
      /\ \A d \in Checks : OfferIn(check'[d])
  BY DEF Fetch, Types, Offers
<1>10. QED
  BY <1>8, <1>9, CheckInv DEF Fetch

LEMMA FetchFailsInv ==
    ASSUME Inv, NEW c \in Checks, FetchFails(c)
    PROVE  Inv'
<1> USE DEF Inv
<1>1. FailedCheck \in Infos /\ OfferIn(FailedCheck)
  BY DEF FailedCheck, NoInfo, Infos, Statuses, OfferIn
<1>2. check' = [check EXCEPT ![c] = FailedCheck] /\ scan' = scan
  BY DEF FetchFails
<1>3. check' \in [Checks -> Infos] /\ \A d \in Checks : OfferIn(check'[d])
  BY <1>1, <1>2 DEF Types, Offers
<1>4. scan' \in [Checks -> Scans] /\ Scanning'
  BY <1>2, SameScans DEF Types
<1>5. QED
  BY <1>3, <1>4, CheckInv DEF FetchFails

(* One turn of the loop: the best so far stays the best of what was passed. *)
LEMMA TurnBest ==
    ASSUME NEW s \in Scans, NEW t \in Scans, Best(s), s.next \in DOMAIN s.list,
           t.list = s.list, t.page = s.page, t.next = s.next + 1,
           t.latest = IF /\ Counts(s.page, s.list[s.next])
                         /\ Better(s.latest, s.list[s.next].version)
                      THEN s.list[s.next].version ELSE s.latest
    PROVE  Best(t)
<1>1. PICK n \in Nat : n = s.next
  BY DEF Scans
<1>2. s.list \in Seq(Releases) /\ DOMAIN s.list = 1 .. Len(s.list)
      /\ Len(s.list) \in Nat
  BY LenProperties DEF Scans
<1>3. \A i \in DOMAIN s.list : s.list[i].version \in Version
                                /\ s.list[i].version # NoVersion
  <2>1. \A i \in DOMAIN s.list : s.list[i] \in Releases
    BY <1>2, ElementOfSeq
  <2>2. \A v \in Version : v # NoVersion
    <3>1. NoVersion.release = -2 /\ \A v \in Version : v.release \in Nat
      BY DEF Version, NoVersion
    <3>2. QED
      BY <3>1
  <2>3. QED
    BY <2>1, <2>2, ReleasesAssumption
<1>4. Eligible(t) = Eligible(s) /\ Eligible(s) \subseteq DOMAIN s.list
  BY DEF Eligible
<1>5. s.latest # NoVersion => s.latest \in Version
  BY <1>3, <1>4 DEF Best
<1>6. t.next <= Len(t.list) + 1
  BY <1>1, <1>2
<1>7. Counts(s.page, s.list[n]) <=> n \in Eligible(s)
  BY <1>1 DEF Counts, Eligible
<1> DEFINE v == s.list[n].version
<1>8. v \in Version /\ v # NoVersion
  BY <1>1, <1>3
<1> HIDE DEF v
<1>9. \A i \in Eligible(s) : i \in Int /\ (i < n + 1 <=> i < n \/ i = n)
  BY <1>1, <1>2, <1>4
<1>10. CASE n \in Eligible(s) /\ Better(s.latest, v)
  <2>1. t.latest = v
    BY <1>1, <1>7, <1>10 DEF v
  <2>2. s.latest = NoVersion \/ Precedes(s.latest, v)
    BY <1>5, <1>8, <1>10, OlderPrecedes DEF Better
  <2>3. ASSUME NEW i \in Eligible(s), i < t.next
        PROVE  ~Precedes(v, s.list[i].version)
    <3>1. CASE i = n
      BY <1>8, <3>1, NothingPrecedesItself DEF v
    <3>2. CASE i < n
      <4>1. s.latest # NoVersion /\ ~Precedes(s.latest, s.list[i].version)
        BY <1>1, <3>2 DEF Best
      <4>2. QED
        BY <1>3, <1>4, <1>5, <1>8, <2>2, <4>1, PrecedesTransitive
    <3>3. QED
      BY <1>1, <1>9, <2>3, <3>1, <3>2
  <2>4. \E i \in Eligible(t) : t.list[i].version = t.latest
    BY <1>4, <1>10, <2>1 DEF v
  <2>5. QED
    BY <1>4, <1>6, <1>8, <2>1, <2>3, <2>4 DEF Best
<1>11. CASE ~(n \in Eligible(s) /\ Better(s.latest, v))
  <2>1. t.latest = s.latest
    BY <1>1, <1>7, <1>11 DEF v
  <2>2. ASSUME NEW i \in Eligible(s), i < t.next
        PROVE  s.latest # NoVersion /\ ~Precedes(s.latest, s.list[i].version)
    <3>1. CASE i = n
      <4>1. s.latest # NoVersion /\ ~Older(s.latest, v)
        BY <1>11, <3>1 DEF Better
      <4>2. QED
        BY <1>5, <1>8, <3>1, <4>1, OlderPrecedes DEF v
    <3>2. CASE i < n
      BY <1>1, <3>2 DEF Best
    <3>3. QED
      BY <1>1, <1>9, <2>2, <3>1, <3>2
  <2>3. QED
    BY <1>4, <1>6, <2>1, <2>2 DEF Best
<1>12. QED
  BY <1>10, <1>11

LEMMA ConsiderInv ==
    ASSUME Inv, NEW c \in Checks, Consider(c)
    PROVE  Inv'
<1> USE DEF Inv
<1> DEFINE s == scan[c]
           release == s.list[s.next]
           best == IF Counts(s.page, release) /\ Better(s.latest, release.version)
                   THEN release.version ELSE s.latest
           t == [s EXCEPT !.next = s.next + 1, !.latest = best]
<1>1. s \in Scans /\ Best(s) /\ s.next \in DOMAIN s.list
      /\ scan' = [scan EXCEPT ![c] = t] /\ check' = check
  BY DEF Consider, Types, Scanning
<1>2. release.version \in Versions
  <2>1. release \in Releases
    BY <1>1, ElementOfSeq, LenProperties DEF Scans
  <2>2. QED
    BY <2>1 DEF Versions
<1> HIDE DEF s, release
<1>3. best \in Versions \cup {NoVersion}
  BY <1>1, <1>2 DEF Scans
<1> HIDE DEF best
<1>4. s.next + 1 \in Nat
  BY <1>1 DEF Scans
<1>5. /\ t \in Scans
      /\ t.list = s.list /\ t.page = s.page /\ t.next = s.next + 1
      /\ t.latest = best
  <2>1. PICK r \in Scans : r = s
    BY <1>1
  <2>2. PICK n \in Nat : n = s.next + 1
    BY <1>4
  <2>3. PICK v \in Versions \cup {NoVersion} : v = best
    BY <1>3
  <2>4. t = [r EXCEPT !.next = n, !.latest = v]
    BY <2>1, <2>2, <2>3
  <2> HIDE DEF t
  <2>5. t.list = r.list /\ t.page = r.page /\ t.next = n /\ t.latest = v
    BY <2>4 DEF Scans
  <2>6. t \in Scans
    BY <2>4 DEF Scans
  <2>7. QED
    BY <2>1, <2>2, <2>3, <2>5, <2>6
<1> HIDE DEF t
<1>6. Best(t)
  BY <1>1, <1>5, TurnBest DEF release, best
<1>7. scan' \in [Checks -> Scans] /\ Scanning'
  BY <1>1, <1>5, <1>6, OneScan
<1>8. check' \in [Checks -> Infos] /\ \A d \in Checks : OfferIn(check'[d])
  BY <1>1 DEF Types, Offers
<1>9. up
  BY <1>1, NoScanIdle DEF s, Gone
<1>10. QED
  BY <1>7, <1>8, <1>9, CheckInv DEF Consider

LEMMA FoundInv ==
    ASSUME Inv, NEW c \in Checks, Found(c)
    PROVE  Inv'
<1> USE DEF Inv
<1> DEFINE latest == scan[c].latest
           result == IF latest = NoVersion THEN FailedCheck ELSE Offer(latest)
<1>1. /\ scan' = [scan EXCEPT ![c] = NoScan]
      /\ check' = [check EXCEPT ![c] = result]
      /\ scan[c].next > Len(scan[c].list)
  BY DEF Found
<1>2. latest \in Versions \cup {NoVersion}
  BY DEF Types, Scans
<1>3. result \in Infos /\ OfferIn(result)
  <2>1. CASE latest = NoVersion
    BY <2>1 DEF FailedCheck, NoInfo, Infos, Statuses, OfferIn
  <2>2. CASE latest # NoVersion
    BY <1>2, <2>2, OfferType
  <2>3. QED
    BY <2>1, <2>2
<1> HIDE DEF result
<1>4. check' \in [Checks -> Infos] /\ \A d \in Checks : OfferIn(check'[d])
  BY <1>1, <1>3 DEF Types, Offers
<1>5. scan' \in [Checks -> Scans] /\ Scanning'
  BY <1>1, NoScanBest, OneScan
<1>6. up
  BY <1>1, NoScanIdle DEF Gone
<1>7. QED
  BY <1>4, <1>5, <1>6, CheckInv DEF Found

LEMMA StoreInv ==
    ASSUME Inv, NEW c \in Checks, Store(c)
    PROVE  Inv'
<1> USE DEF Inv
<1>1. /\ up /\ info' = check[c] /\ check' = [check EXCEPT ![c] = NoInfo]
      /\ UNCHANGED <<published, up, running, disk, scan, install, files,
                     interrupted>>
      /\ Remember(Live # {})
  BY DEF Store
<1>2. NoInfo \in Infos /\ ~NoInfo.available
  BY LiveStates DEF NoInfo
<1>3. Types'
  <2>1. forgotten' \in BOOLEAN
    BY <1>1 DEF Remember
  <2>2. check' \in [Checks -> Infos] /\ info' \in Infos
    BY <1>1, <1>2 DEF Types
  <2>3. QED
    BY <1>1, <2>1, <2>2 DEF Types
<1>4. Offers'
  BY <1>1, <1>2 DEF Types, Offers, OfferIn, Early
<1>5. Live' = Live
  BY <1>1 DEF Live
<1>6. Claims'
  <2>1. ~forgotten' => Live' = {}
    BY <1>1, <1>3, <1>5, Remembers
  <2>2. QED
    BY <2>1 DEF Claims
<1>7. Gone' /\ PackagesOwned'
  BY <1>1, <1>5 DEF Gone, PackagesOwned
<1>8. QED
  BY <1>1, <1>3, <1>4, <1>6, <1>7, SameScans

(***************************************************************************)
(* The install goroutine                                                   *)
(***************************************************************************)
LEMMA AskInv ==
    ASSUME Inv, NEW i \in Installs, Ask(i)
    PROVE  Inv'
<1> USE DEF Inv
<1>1. /\ up /\ install[i].at = "free" /\ info.available
      /\ install' = [install EXCEPT ![i] = [at |-> "asked", info |-> info]]
      /\ UNCHANGED <<published, up, running, disk, info, scan, check, files,
                     interrupted, forgotten>>
  BY DEF Ask, MayAsk
<1>2. Types'
  BY <1>1 DEF Types, Places
<1>3. install'[i] = [at |-> "asked", info |-> info]
      /\ \A j \in Installs \ {i} : install'[j] = install[j]
  BY <1>1 DEF Types
<1>4. Offers'
  BY <1>1, <1>3 DEF Offers, OfferIn, Early
<1>5. Live' = Live
  BY <1>1, <1>3 DEF Live, Detached
<1>6. Claims'
  BY <1>1, <1>5 DEF Claims
<1>7. Gone' /\ PackagesOwned'
  BY <1>1, <1>3 DEF Gone, PackagesOwned, Detached
<1>8. QED
  BY <1>1, <1>2, <1>4, <1>6, <1>7, SameScans

LEMMA ClaimInv ==
    ASSUME Inv, NEW i \in Installs, Claim(i)
    PROVE  Inv'
<1> USE DEF Inv
<1>1. /\ up /\ install[i].at = "asked"
      /\ UNCHANGED <<published, up, running, disk, scan, check, files, interrupted,
                     forgotten>>
  BY DEF Claim, Offers, Early
<1>2. \A j \in Installs \ {i} : install'[j] = install[j]
  BY DEF Claim, Types
<1>3. CASE info.status = "installing"
  <2>1. install' = [install EXCEPT ![i] = Free] /\ info' = info
    BY <1>3 DEF Claim, Claimed
  <2>2. install'[i] = Free /\ Free.at = "free" /\ install' \in [Installs -> [at : Places, info : Infos]]
    BY <2>1, LiveStates DEF Types, Free
  <2>3. Types' /\ Offers' /\ Gone'
    BY <1>1, <1>2, <2>1, <2>2 DEF Types, Offers, OfferIn, Early, Gone
  <2>4. Live' = Live
    BY <1>1, <1>2, <2>2 DEF Live, Detached
  <2>5. Claims' /\ PackagesOwned'
    BY <1>1, <1>2, <1>3, <2>1, <2>2, <2>4 DEF Claims, PackagesOwned, Detached
  <2>6. QED
    BY <1>1, <2>3, <2>5, SameScans
<1>4. CASE info.status # "installing"
  <2>1. /\ install' = [install EXCEPT ![i].at = "downloading"]
        /\ info' = [info EXCEPT !.status = "installing"]
    BY <1>4 DEF Claim, Claimed
  <2>2. install'[i].at = "downloading" /\ install'[i].info = install[i].info
    BY <2>1 DEF Types
  <2>3. info'.available = info.available /\ info'.latest = info.latest
        /\ info'.status = "installing" /\ info' \in Infos
    BY <2>1 DEF Types, Infos, Statuses
  <2>4. Types'
    BY <1>1, <2>1, <2>3 DEF Types, Places
  <2>5. Offers' /\ Gone'
    BY <1>1, <1>2, <2>2, <2>3 DEF Offers, OfferIn, Early, Gone
  <2>6. Live' = Live \cup {i}
    BY <1>2, <2>2 DEF Live
  <2>7. ~forgotten => Live = {}
    BY <1>1, <1>4 DEF Claims
  <2>8. Claims'
    BY <1>1, <2>3, <2>6, <2>7 DEF Claims
  <2>9. PackagesOwned'
    BY <1>1, <1>2, <2>2 DEF PackagesOwned, Detached
  <2>10. QED
    BY <1>1, <2>4, <2>5, <2>8, <2>9, SameScans
<1>5. QED
  BY <1>3, <1>4

LEMMA SaveInv ==
    ASSUME Inv, NEW i \in Installs, Save(i)
    PROVE  Inv'
<1> USE DEF Inv
<1>1. /\ install[i].at = "downloading"
      /\ install' = [install EXCEPT ![i].at = "saving"]
      /\ files' = files \cup {i}
      /\ UNCHANGED <<published, up, running, disk, info, scan, check, interrupted,
                     forgotten>>
  BY DEF Save
<1>2. /\ install'[i].at = "saving" /\ install'[i].info = install[i].info
      /\ \A j \in Installs \ {i} : install'[j] = install[j]
  BY <1>1 DEF Types
<1>3. Types'
  BY <1>1 DEF Types, Places
<1>4. Offers' /\ Gone'
  BY <1>1, <1>2 DEF Offers, OfferIn, Early, Gone
<1>5. Live' = Live
  BY <1>1, <1>2 DEF Live
<1>6. Claims'
  BY <1>1, <1>2, <1>5 DEF Claims
<1>7. PackagesOwned'
  BY <1>1, <1>2 DEF PackagesOwned, Detached
<1>8. QED
  BY <1>1, <1>3, <1>4, <1>6, <1>7, SameScans

(* What the end of an install leaves, wherever it ends.                    *)
LEMMA FreedInv ==
    ASSUME Inv, NEW i \in Live, install' = [install EXCEPT ![i] = Free],
           files' = files \ {i}, Remember(FALSE), interrupted' = interrupted
    PROVE  /\ install' \in [Installs -> [at : Places, info : Infos]]
           /\ forgotten' \in BOOLEAN /\ files' \subseteq Installs
           /\ install'[i].at = "free"
           /\ \A j \in Installs \ {i} : install'[j] = install[j]
           /\ Types' => Claims'
           /\ PackagesOwned'
<1> USE DEF Inv
<1>1. i \in Installs /\ Free.at = "free"
  BY DEF Live, Free
<1>2. /\ install' \in [Installs -> [at : Places, info : Infos]]
      /\ files' \subseteq Installs
      /\ install'[i].at = "free"
      /\ \A j \in Installs \ {i} : install'[j] = install[j]
  BY <1>1, LiveStates DEF Types
<1>3. forgotten' \in BOOLEAN
  BY DEF Remember
<1>4. Live' \subseteq Live \ {i}
  BY <1>2 DEF Live, Detached
<1>5. Types' => Claims'
  BY <1>4, ClaimEnds
<1>6. PackagesOwned'
  BY <1>1, <1>2 DEF PackagesOwned, Detached
<1>7. QED
  BY <1>2, <1>3, <1>5, <1>6

LEMMA FailInv ==
    ASSUME Inv, NEW i \in Installs, Fail(i)
    PROVE  Inv'
<1> USE DEF Inv
<1>1. /\ install[i].at \in {"downloading", "saving"}
      /\ install' = [install EXCEPT ![i] = Free] /\ files' = files \ {i}
      /\ Remember(FALSE)
      /\ info' = [install[i].info EXCEPT !.status = "error", !.available = TRUE]
      /\ UNCHANGED <<published, up, running, disk, scan, check, interrupted>>
  BY DEF Fail
<1>2. i \in Live /\ Early(i)
  BY <1>1 DEF Live, Early
<1>3. info' \in Infos /\ info'.latest = install[i].info.latest
  BY <1>1 DEF Types, Infos, Statuses
<1>4. /\ install' \in [Installs -> [at : Places, info : Infos]]
      /\ forgotten' \in BOOLEAN /\ files' \subseteq Installs
      /\ install'[i].at = "free"
      /\ \A j \in Installs \ {i} : install'[j] = install[j]
      /\ Types' => Claims'
      /\ PackagesOwned'
  BY <1>1, <1>2, FreedInv
<1>5. Types'
  BY <1>1, <1>3, <1>4 DEF Types
<1>6. up /\ install[i].info.latest \in Versions
      /\ Precedes(running, install[i].info.latest)
  BY <1>1, <1>2 DEF Offers
<1>7. Offers' /\ Gone'
  BY <1>1, <1>3, <1>4, <1>6 DEF Offers, OfferIn, Early, Gone
<1>8. QED
  BY <1>1, <1>4, <1>5, <1>7, SameScans

LEMMA LaunchInv ==
    ASSUME Inv, NEW i \in Installs, Launch(i)
    PROVE  Inv'
<1> USE DEF Inv
<1>1. /\ install[i].at = "saving"
      /\ install' = [install EXCEPT ![i].at = "runner"]
      /\ info' = [install[i].info EXCEPT
                      !.status = "installing", !.available = FALSE]
      /\ UNCHANGED <<published, up, running, disk, scan, check, files, interrupted,
                     forgotten>>
  BY DEF Launch, AfterLaunch
<1>2. /\ install'[i].at = "runner" /\ install'[i].info = install[i].info
      /\ \A j \in Installs \ {i} : install'[j] = install[j]
  BY <1>1 DEF Types
<1>3. info' \in Infos /\ ~info'.available /\ info'.status = "installing"
  BY <1>1 DEF Types, Infos, Statuses
<1>4. Types'
  BY <1>1, <1>3 DEF Types, Places
<1>5. up
  BY <1>1 DEF Offers, Early
<1>6. Offers' /\ Gone'
  BY <1>1, <1>2, <1>3, <1>5 DEF Offers, OfferIn, Early, Gone
<1>7. Live' = Live
  BY <1>1, <1>2 DEF Live, Detached
<1>8. Claims' /\ PackagesOwned'
  BY <1>1, <1>2, <1>3, <1>7 DEF Claims, PackagesOwned, Detached
<1>9. QED
  BY <1>1, <1>4, <1>6, <1>8, SameScans

(***************************************************************************)
(* The script and opkg                                                     *)
(***************************************************************************)
LEMMA PreinstInv ==
    ASSUME Inv, NEW i \in Installs, Preinst(i)
    PROVE  Inv'
<1>1. /\ install[i].at = "runner" /\ ProcessEnds /\ Remember(Live # {i})
      /\ install' = OthersEnd([j \in {i} |-> [install[i] EXCEPT !.at = "opkg"]])
      /\ UNCHANGED <<published, running, disk, files>>
  BY DEF Preinst
<1>2. install[i] \in [at : Places, info : Infos] /\ {i} \in SUBSET Live
  BY <1>1 DEF Inv, Types, Live, Detached
<1> DEFINE new == [install[i] EXCEPT !.at = "opkg"]
<1>4. new.at = "opkg" /\ new.info = install[i].info
      /\ new \in [at : Places, info : Infos]
  BY <1>2 DEF Places
<1> HIDE DEF new
<1>5. install' = [j \in Installs |->
                    IF j \in {i} THEN new
                    ELSE IF install[j].at \in Detached THEN install[j] ELSE Free]
  BY <1>1 DEF OthersEnd, new
<1>6. install' \in [Installs -> [at : Places, info : Infos]]
  BY <1>4, <1>5, LiveStates DEF Inv, Types
<1>7. install'[i] = new
  BY <1>5
<1>8. \A j \in Installs \ {i} :
         install'[j] = IF install[j].at \in Detached THEN install[j] ELSE Free
  BY <1>5
<1>9. QED
  BY <1>1, <1>2, <1>4, <1>6, <1>7, <1>8, EndedInv

LEMMA RefusedInv ==
    ASSUME Inv, NEW i \in Installs, Refused(i)
    PROVE  Inv'
<1> USE DEF Inv
<1>1. /\ install[i].at = "runner"
      /\ install' = [install EXCEPT ![i] = Free] /\ files' = files \ {i}
      /\ Remember(FALSE)
      /\ UNCHANGED <<published, up, running, disk, info, scan, check, interrupted>>
  BY DEF Refused, ScriptEnds
<1>2. i \in Live
  BY <1>1 DEF Live, Detached
<1>3. /\ install' \in [Installs -> [at : Places, info : Infos]]
      /\ forgotten' \in BOOLEAN /\ files' \subseteq Installs
      /\ install'[i].at = "free"
      /\ \A j \in Installs \ {i} : install'[j] = install[j]
      /\ Types' => Claims'
      /\ PackagesOwned'
  BY <1>1, <1>2, FreedInv
<1>4. Types'
  BY <1>1, <1>3 DEF Types
<1>5. Offers' /\ Gone'
  BY <1>1, <1>3 DEF Offers, OfferIn, Early, Gone
<1>6. QED
  BY <1>1, <1>3, <1>4, <1>5, SameScans

(* The process that runs keeps its version until it ends, and a process    *)
(* that starts has no offers.                                              *)
LEMMA OpkgInv ==
    ASSUME Inv, NEW i \in Installs, Replace(i) \/ Break(i)
    PROVE  Inv'
<1> USE DEF Inv
<1>1. /\ install[i].at = "opkg"
      /\ install' = [install EXCEPT ![i] = Free] /\ files' = files \ {i}
      /\ Remember(FALSE)
      /\ disk' \in {disk, install[i].info.latest}
      /\ UNCHANGED <<published, info, scan, check, interrupted>>
      /\ \/ up' = up /\ running' = running
         \/ up' = TRUE /\ ~up /\ running' = disk'
  <2>1. CASE Replace(i)
    BY <2>1 DEF Replace, ScriptEnds, Types
  <2>2. CASE Break(i)
    BY <2>2 DEF Break, ScriptEnds
  <2>3. QED
    BY <2>1, <2>2
<1>2. i \in Live
  BY <1>1 DEF Live, Detached
<1>3. /\ install' \in [Installs -> [at : Places, info : Infos]]
      /\ forgotten' \in BOOLEAN /\ files' \subseteq Installs
      /\ install'[i].at = "free"
      /\ \A j \in Installs \ {i} : install'[j] = install[j]
      /\ Types' => Claims'
      /\ PackagesOwned'
  BY <1>1, <1>2, FreedInv
<1>4. install[i].info.latest \in Versions
  BY <1>1 DEF Offers
<1>5. Types'
  BY <1>1, <1>3, <1>4 DEF Types
<1>6. Offers'
  <2>1. CASE up' = up /\ running' = running
    BY <1>1, <1>3, <2>1 DEF Offers, OfferIn, Early
  <2>2. CASE ~up
    <3>1. ~NoInfo.available /\ info = NoInfo /\ \A c \in Checks : check[c] = NoInfo
      BY <2>2 DEF Gone, NoInfo
    <3>2. \A j \in Installs : ~Early(j)
      BY <2>2 DEF Offers
    <3>3. QED
      BY <1>1, <1>3, <3>1, <3>2 DEF Offers, OfferIn, Early
  <2>3. QED
    BY <1>1, <2>1, <2>2
<1>7. Gone'
  BY <1>1 DEF Gone
<1>8. QED
  BY <1>1, <1>3, <1>5, <1>6, <1>7, SameScans

(***************************************************************************)
(* The theorems                                                            *)
(***************************************************************************)
LEMMA NextInv == Inv /\ [Next]_vars => Inv'
<1> SUFFICES ASSUME Inv, [Next]_vars PROVE Inv'
  OBVIOUS
<1>1. CASE \E r \in Releases : Publish(r)
  BY <1>1, PublishInv
<1>2. CASE Stop \/ Start
  BY <1>2, StopInv, StartInv
<1>3. CASE \E c \in Checks : \/ Fetch(c) \/ FetchFails(c) \/ Consider(c)
                             \/ Found(c) \/ Store(c)
  BY <1>3, FetchInv, FetchFailsInv, ConsiderInv, FoundInv, StoreInv
<1>4. CASE \E i \in Installs : Ask(i) \/ Claim(i) \/ Save(i) \/ Fail(i) \/ Launch(i)
  BY <1>4, AskInv, ClaimInv, SaveInv, FailInv, LaunchInv
<1>5. CASE \E i \in Installs : Preinst(i) \/ Refused(i) \/ Replace(i) \/ Break(i)
  BY <1>5, PreinstInv, RefusedInv, OpkgInv
<1>6. CASE UNCHANGED vars
  <2>1. Live' = Live
    BY <1>6 DEF vars, Live
  <2>2. QED
    BY <1>6, <2>1, SameScans DEF vars, Inv, Types, Offers, OfferIn, Early, Gone, Claims,
                      PackagesOwned
<1>7. QED
  BY <1>1, <1>2, <1>3, <1>4, <1>5, <1>6 DEF Next

(* The inductive invariant holds of every run.                             *)
THEOREM Invariance == Spec => []Inv
BY InitInv, NextInv, PTL DEF Spec

(* The state of the updater has its type; an install that was accepted is  *)
(* for a published release.                                                *)
THEOREM TypeCorrect == Spec => []TypeOK
<1>1. Inv => TypeOK
  <2> SUFFICES ASSUME Inv PROVE TypeOK
    OBVIOUS
  <2>1. \A n \in {info} \cup {check[c] : c \in Checks} : n \in Infos
    BY DEF Inv, Types
  <2>2. \A i \in Installs : install[i].at \in Places
    BY DEF Inv, Types
  <2>3. ASSUME NEW c \in Checks
        PROVE  /\ scan[c].next \in 0 .. Len(scan[c].list) + 1
               /\ scan[c].latest \in Versions \cup {NoVersion}
    <3>1. scan[c] \in Scans /\ scan[c].next <= Len(scan[c].list) + 1
      BY DEF Inv, Types, Scanning, Best
    <3>2. Len(scan[c].list) \in Nat
      BY <3>1, LenProperties DEF Scans
    <3>3. QED
      BY <3>1, <3>2 DEF Scans
  <2>4. QED
    BY <2>1, <2>2, <2>3 DEF Inv, Types, Offers, TypeOK, Infos, Places, Detached
<1>2. QED
  BY <1>1, Invariance, PTL

(* However many requests arrive, the lock around the status lets one       *)
(* install through at a time, until a check or a restart overwrites the    *)
(* claim (update.go:405).                                                  *)
THEOREM OneInstall == Spec => []OneUnlessForgotten
<1>1. Inv => OneUnlessForgotten
  <2> SUFFICES ASSUME Inv, ~forgotten PROVE ~(Cardinality(Live) > 1)
    BY DEF OneUnlessForgotten
  <2>1. \A i, j \in Live : i = j
    BY DEF Inv, Claims
  <2>2. CASE Live = {}
    BY <2>2, FS_EmptySet
  <2>3. ASSUME NEW i \in Live PROVE ~(Cardinality(Live) > 1)
    <3>1. Live = {i}
      BY <2>1
    <3>2. QED
      BY <3>1, FS_Singleton
  <2>4. QED
    BY <2>2, <2>3
<1>2. QED
  BY <1>1, Invariance, PTL

(* Whatever is offered, kept, restored by a failure or used late is newer  *)
(* than what runs (update.go:213, 400, 419).                               *)
THEOREM NewerOffers == Spec => []OffersAreNewer
<1>1. Inv => OffersAreNewer
  BY DEF Inv, Offers, OfferIn, Early, OffersAreNewer
<1>2. QED
  BY <1>1, Invariance, PTL

(* A script finds its IPK, and none stays behind unless the process died   *)
(* while it wrote one (update.go:369).                                     *)
THEOREM OwnedPackages == Spec => []PackagesOwned
<1>1. Inv => PackagesOwned
  BY DEF Inv
<1>2. QED
  BY <1>1, Invariance, PTL

(* The end of a check: its loop has passed every release it was shown.     *)
LEMMA FoundStep ==
    ASSUME Inv, NEW c \in Checks, Found(c), check'[c].status = "idle"
    PROVE  /\ \E i \in Eligible(scan[c]) :
                 scan[c].list[i].version = check'[c].latest
           /\ \A i \in Eligible(scan[c]) :
                 ~Precedes(check'[c].latest, scan[c].list[i].version)
<1> DEFINE s == scan[c]
<1>1. /\ s \in Scans /\ Best(s) /\ check \in [Checks -> Infos]
      /\ s.next > Len(s.list)
      /\ check' = [check EXCEPT ![c] = IF s.latest = NoVersion THEN FailedCheck
                                       ELSE Offer(s.latest)]
  BY DEF Inv, Types, Scanning, Found
<1>2. s.latest # NoVersion /\ check'[c].latest = s.latest
  BY <1>1 DEF FailedCheck, Offer
<1> HIDE DEF s
<1>3. \A i \in Eligible(s) : i < s.next
  <2>1. DOMAIN s.list = 1 .. Len(s.list) /\ Len(s.list) \in Nat /\ s.next \in Nat
    BY <1>1, LenProperties DEF Scans
  <2>2. QED
    BY <1>1, <2>1 DEF Eligible
<1>4. QED
  BY <1>1, <1>2, <1>3 DEF Best, s

(* Only the end of its loop, or a failure, gives a check its result.       *)
LEMMA ResultStep ==
    ASSUME Inv, Next, NEW c \in Checks,
           check'[c] # check[c], check'[c].status = "idle", check'[c] # NoInfo
    PROVE  Found(c)
<1>1. check \in [Checks -> Infos]
  BY DEF Inv, Types
<1>2. CASE \E d \in Checks : Store(d)
  BY <1>1, <1>2 DEF Store
<1>3. ASSUME NEW d \in Checks, FetchFails(d) PROVE FALSE
  <2>1. check'[c] \in {check[c], FailedCheck}
    BY <1>1, <1>3 DEF FetchFails
  <2>2. FailedCheck.status = "error"
    BY DEF FailedCheck, NoInfo
  <2>3. QED
    BY <2>1, <2>2
<1>4. ASSUME NEW d \in Checks, Found(d) PROVE Found(c)
  BY <1>1, <1>4 DEF Found
<1>5. CASE check' = check \/ ProcessEnds
  BY <1>5 DEF ProcessEnds
<1>6. \/ check' = check \/ ProcessEnds
      \/ \E d \in Checks : FetchFails(d) \/ Found(d) \/ Store(d)
  BY DEF Next, Publish, Stop, Start, Fetch, Consider, Ask, Claim, Save, Fail,
         Launch, Preinst, Refused, Replace, Break
<1>7. QED
  BY <1>2, <1>3, <1>4, <1>5, <1>6

(* A check ends with a release it was shown and could offer, and with one  *)
(* that no other such release precedes, in whatever order they are listed: *)
(* by what the loop has kept of those it passed (checkForUpdate,           *)
(* checkReleasePage).                                                      *)
THEOREM FindsNewest == Spec => NewestFound
<1>1. Inv /\ [Next]_vars =>
        [\A c \in Checks :
            LET s == scan[c]
                shown == {i \in DOMAIN s.list : s.page \/ ~s.list[i].pre}
                found == check'[c]
            IN  found \notin {NoInfo, check[c]} /\ found.status = "idle" =>
                    /\ \E i \in shown : s.list[i].version = found.latest
                    /\ \A i \in shown :
                           ~Precedes(found.latest, s.list[i].version)]_vars
  BY FoundStep, ResultStep DEF Eligible
<1>2. QED
  BY <1>1, Invariance, PTL DEF Spec, NewestFound
=============================================================================
