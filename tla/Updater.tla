------------------------------- MODULE Updater -------------------------------
(***************************************************************************)
(* The updater: looking for a newer release, the status the control panel  *)
(* shows, the install goroutine and the detached script that runs opkg     *)
(* (update.go), and what the package does to the process (the preinst and  *)
(* postinst of package-qwdtt.ps1).                                         *)
(*                                                                         *)
(* Handlers run concurrently.  The mutex of updateState makes reading,     *)
(* setting and claiming atomic, but no more than that.  The script of an   *)
(* install outlives the process that started it.                           *)
(***************************************************************************)
EXTENDS Integers, Sequences, FiniteSets

CONSTANTS Checks,    \* slots for GET /update/check requests
          Installs,  \* slots for POST /update/install requests
          Releases,  \* what may be published for this architecture
          Installed  \* the versions the router may start with

(* A version is the dotted number and the package release.                 *)
Version == [parts : Seq(Nat), release : Nat]
Dev == [parts |-> <<>>, release |-> -1]
NoVersion == [parts |-> <<>>, release |-> -2]

ASSUME ReleasesAssumption ==
    /\ IsFiniteSet(Releases)
    /\ Releases \subseteq [version : Version, pre : BOOLEAN]
    /\ Installed \subseteq Version \cup {Dev}

VARIABLES
    published,    \* the releases on GitHub
    up,           \* the process runs
    running,      \* the version of the process
    disk,         \* the version that is installed
    info,         \* updateState.info
    scan,         \* per check: the releases it was shown, and how far it is
    check,        \* per check: what was found, not yet stored
    install,      \* per install: where it is, and the info it read
    files,        \* the installs whose IPK file exists
    interrupted,  \* auxiliary: a process died while it saved an IPK
    forgotten     \* auxiliary: the claim of a live install was overwritten

vars == <<published, up, running, disk, info, scan, check, install, files,
          interrupted, forgotten>>

(***************************************************************************)
(* Comparing releases                                                      *)
(***************************************************************************)
(* Missing parts are zero, parts after the third are not looked at.        *)
Key(v) ==
    [i \in 1 .. 3 |-> IF i \in DOMAIN v.parts THEN v.parts[i] ELSE 0]
        \o <<v.release>>

(* compareReleaseVersions(l, r) < 0                                        *)
Older(l, r) ==
    \E i \in 1 .. 4 : /\ Key(l)[i] < Key(r)[i]
                      /\ \A j \in 1 .. i - 1 : Key(l)[j] = Key(r)[j]

(* Mutant of Outdated: the running version is offered again.               *)
NotNewer(v) == running = Dev \/ ~Older(v, running)

Outdated(v) == running = Dev \/ Older(running, v)

(***************************************************************************)
(* The process                                                             *)
(***************************************************************************)
NoScan == [list |-> <<>>, next |-> 0, page |-> FALSE, latest |-> NoVersion]
NoInfo == [available |-> FALSE, latest |-> NoVersion, status |-> "idle"]
Free == [at |-> "free", info |-> NoInfo]

Detached == {"runner", "opkg"}
Saving(i) == install[i].at = "saving"

(* An install from its claim to the end of its script.                     *)
Live == {i \in Installs :
            install[i].at \in {"downloading", "saving"} \cup Detached}

(* Auxiliary: the claims that were overwritten stay so until all is over.  *)
Remember(overwritten) ==
    forgotten' =
        /\ forgotten \/ overwritten
        /\ \E i \in Installs : install'[i].at \notin {"free", "asked"}

(* Every goroutine ends, and only the scripts go on.                       *)
ProcessEnds ==
    /\ up' = FALSE
    /\ info' = NoInfo
    /\ scan' = [c \in Checks |-> NoScan]
    /\ check' = [c \in Checks |-> NoInfo]
    /\ interrupted' = (interrupted \/ \E i \in Installs : Saving(i))

OthersEnd(keep) ==
    [i \in Installs |->
        IF i \in DOMAIN keep THEN keep[i]
        ELSE IF install[i].at \in Detached THEN install[i] ELSE Free]

Init ==
    /\ published = {} /\ disk \in Installed /\ running = disk
    /\ up = TRUE /\ info = NoInfo
    /\ scan = [c \in Checks |-> NoScan]
    /\ check = [c \in Checks |-> NoInfo]
    /\ install = [i \in Installs |-> Free]
    /\ files = {} /\ interrupted = FALSE /\ forgotten = FALSE

Publish(r) ==
    /\ published' = published \cup {r}
    /\ UNCHANGED <<up, running, disk, info, scan, check, install, files,
                   interrupted, forgotten>>

(* The service is stopped and started by hand.                             *)
Stop ==
    /\ up
    /\ ProcessEnds
    /\ install' = OthersEnd(<<>>)
    /\ Remember(Live # {})
    /\ UNCHANGED <<published, running, disk, files>>

Start ==
    /\ ~up
    /\ up' = TRUE /\ running' = disk
    /\ UNCHANGED <<published, disk, info, scan, check, install, files,
                   interrupted, forgotten>>

(***************************************************************************)
(* GET /update/check                                                       *)
(***************************************************************************)
FailedCheck == [NoInfo EXCEPT !.status = "error"]

Offer(v) == [available |-> Outdated(v), latest |-> v, status |-> "idle"]

(* What one answer may list, in any order: not always all there is.        *)
Listings ==
    UNION {{l \in [1 .. n -> published] :
                \A i, j \in 1 .. n : l[i] = l[j] => i = j} :
           n \in 0 .. Cardinality(published)}

(* The API answers; or it refuses, and the releases page does.             *)
Fetch(c) ==
    /\ up /\ scan[c] = NoScan /\ check[c] = NoInfo
    /\ \E l \in Listings, page \in BOOLEAN :
           scan' = [scan EXCEPT ![c] = [list |-> l, next |-> 1, page |-> page,
                                        latest |-> NoVersion]]
    /\ UNCHANGED <<published, up, running, disk, info, check, install, files,
                   interrupted, forgotten>>

FetchFails(c) ==
    /\ up /\ scan[c] = NoScan /\ check[c] = NoInfo
    /\ check' = [check EXCEPT ![c] = FailedCheck]
    /\ UNCHANGED <<published, up, running, disk, info, scan, install, files,
                   interrupted, forgotten>>

(* The API tells prereleases; the page does not.                           *)
Counts(page, release) == page \/ ~release.pre

(* Mutant of Better: the list is taken to begin with the newest.           *)
FirstListed(latest, v) == latest = NoVersion

Better(latest, v) == latest = NoVersion \/ Older(latest, v)

(* One turn of the loop over the releases.                                 *)
Consider(c) ==
    LET s == scan[c]
        release == s.list[s.next]
        best == IF Counts(s.page, release) /\ Better(s.latest, release.version)
                THEN release.version ELSE s.latest
    IN  /\ s.next \in DOMAIN s.list
        /\ scan' = [scan EXCEPT ![c] =
                       [s EXCEPT !.next = s.next + 1, !.latest = best]]
        /\ UNCHANGED <<published, up, running, disk, info, check, install,
                       files, interrupted, forgotten>>

(* The end of the loop.                                                    *)
Found(c) ==
    LET latest == scan[c].latest IN
    /\ scan[c].next > Len(scan[c].list)
    /\ scan' = [scan EXCEPT ![c] = NoScan]
    /\ check' = [check EXCEPT ![c] =
                    IF latest = NoVersion THEN FailedCheck ELSE Offer(latest)]
    /\ UNCHANGED <<published, up, running, disk, info, install, files,
                   interrupted, forgotten>>

Store(c) ==
    /\ up /\ check[c] # NoInfo
    /\ info' = check[c]
    /\ check' = [check EXCEPT ![c] = NoInfo]
    /\ UNCHANGED <<published, up, running, disk, scan, install, files,
                   interrupted>>
    /\ Remember(Live # {})

(***************************************************************************)
(* POST /update/install                                                    *)
(***************************************************************************)
(* Mutant of MayAsk: the request does not look whether there is an update. *)
AnyTime == TRUE

MayAsk == info.available

Ask(i) ==
    /\ up /\ install[i].at = "free" /\ MayAsk
    /\ install' = [install EXCEPT ![i] = [at |-> "asked", info |-> info]]
    /\ UNCHANGED <<published, up, running, disk, info, scan, check, files,
                   interrupted, forgotten>>

(* Mutant of Claimed: the status is the one that was read before.          *)
WasClaimed(i) == install[i].info.status = "installing"

Claimed(i) == info.status = "installing"

(* With the state locked: either the answer is 409, or the status is taken *)
(* and the goroutine starts, with the info the request read.               *)
Claim(i) ==
    /\ install[i].at = "asked"
    /\ IF Claimed(i)
       THEN install' = [install EXCEPT ![i] = Free] /\ UNCHANGED info
       ELSE /\ install' = [install EXCEPT ![i].at = "downloading"]
            /\ info' = [info EXCEPT !.status = "installing"]
    /\ UNCHANGED <<published, up, running, disk, scan, check, files, interrupted,
                   forgotten>>

Save(i) ==
    /\ install[i].at = "downloading"
    /\ install' = [install EXCEPT ![i].at = "saving"]
    /\ files' = files \cup {i}
    /\ UNCHANGED <<published, up, running, disk, info, scan, check, interrupted,
                   forgotten>>

Fail(i) ==
    /\ install[i].at \in {"downloading", "saving"}
    /\ install' = [install EXCEPT ![i] = Free]
    /\ files' = files \ {i}
    /\ info' = [install[i].info EXCEPT !.status = "error", !.available = TRUE]
    /\ Remember(FALSE)
    /\ UNCHANGED <<published, up, running, disk, scan, check, interrupted>>

(* Mutant of AfterLaunch: the deferred removal is left armed (path is not  *)
(* cleared).                                                               *)
AlwaysRemoved(i) == files \ {i}

AfterLaunch(i) == files

Launch(i) ==
    /\ install[i].at = "saving"
    /\ install' = [install EXCEPT ![i].at = "runner"]
    /\ files' = AfterLaunch(i)
    /\ info' = [install[i].info EXCEPT
                    !.status = "installing", !.available = FALSE]
    /\ UNCHANGED <<published, up, running, disk, scan, check, interrupted,
                   forgotten>>

(***************************************************************************)
(* The script and opkg                                                     *)
(***************************************************************************)
(* The script ends and removes its IPK.                                    *)
ScriptEnds(i) ==
    /\ install' = [install EXCEPT ![i] = Free]
    /\ files' = files \ {i}
    /\ Remember(FALSE)

(* opkg holds a lock and does not downgrade.  preinst stops the process.   *)
Preinst(i) ==
    /\ install[i].at = "runner"
    /\ \A j \in Installs : install[j].at # "opkg"
    /\ disk = Dev \/ Older(disk, install[i].info.latest)
    /\ ProcessEnds
    /\ install' = OthersEnd([j \in {i} |-> [install[i] EXCEPT !.at = "opkg"]])
    /\ Remember(Live # {i})
    /\ UNCHANGED <<published, running, disk, files>>

(* opkg fails before it has touched anything.                              *)
Refused(i) ==
    /\ install[i].at = "runner"
    /\ ScriptEnds(i)
    /\ UNCHANGED <<published, up, running, disk, info, scan, check, interrupted>>

(* The files are replaced; postinst, or the script, starts the process if  *)
(* nobody else has.                                                        *)
Replace(i) ==
    /\ install[i].at = "opkg"
    /\ disk' = install[i].info.latest
    /\ up' = TRUE
    /\ running' = IF up THEN running ELSE disk'
    /\ ScriptEnds(i)
    /\ UNCHANGED <<published, info, scan, check, interrupted>>

(* opkg or postinst fails behind preinst: nothing starts the process.      *)
Break(i) ==
    /\ install[i].at = "opkg"
    /\ disk' \in {disk, install[i].info.latest}
    /\ ScriptEnds(i)
    /\ UNCHANGED <<published, up, running, info, scan, check, interrupted>>

Next ==
    \/ \E r \in Releases : Publish(r)
    \/ Stop \/ Start
    \/ \E c \in Checks :
           Fetch(c) \/ FetchFails(c) \/ Consider(c) \/ Found(c) \/ Store(c)
    \/ \E i \in Installs :
           \/ Ask(i) \/ Claim(i) \/ Save(i) \/ Fail(i) \/ Launch(i)
           \/ Preinst(i) \/ Refused(i) \/ Replace(i) \/ Break(i)

Spec == Init /\ [][Next]_vars

(***************************************************************************)
(* Properties                                                              *)
(***************************************************************************)
Statuses == {"idle", "installing", "error"}
Versions == {r.version : r \in Releases}

TypeOK ==
    /\ published \subseteq Releases
    /\ up \in BOOLEAN /\ interrupted \in BOOLEAN /\ forgotten \in BOOLEAN
    /\ {running, disk} \subseteq Versions \cup Installed
    /\ \A n \in {info} \cup {check[c] : c \in Checks} :
          /\ n.available \in BOOLEAN /\ n.status \in Statuses
          /\ n.latest \in Versions \cup {NoVersion}
    /\ \A c \in Checks :
          /\ scan[c].next \in 0 .. Len(scan[c].list) + 1
          /\ scan[c].latest \in Versions \cup {NoVersion}
    /\ \A i \in Installs :
          /\ install[i].at \in {"free", "asked", "downloading", "saving"}
                                   \cup Detached
          /\ install[i].at # "free" => install[i].info.latest \in Versions
    /\ files \subseteq Installs

(* Two installs are under way at once only if the claim of the first was   *)
(* overwritten, by a check or a new process: however requests interleave,  *)
(* the lock around the status lets one of them through (update.go:405).    *)
OneUnlessForgotten == Cardinality(Live) > 1 => forgotten

(* The order of versions, part by part: the one the releases are meant to  *)
(* have.                                                                   *)
Part(v, i) == IF i <= Len(v.parts) THEN v.parts[i] ELSE 0

Precedes(v, w) ==
    \/ Part(v, 1) < Part(w, 1)
    \/ /\ Part(v, 1) = Part(w, 1)
       /\ \/ Part(v, 2) < Part(w, 2)
          \/ /\ Part(v, 2) = Part(w, 2)
             /\ \/ Part(v, 3) < Part(w, 3)
                \/ Part(v, 3) = Part(w, 3) /\ v.release < w.release

(* The panel offers, and a request installs, only versions newer than the  *)
(* one that runs, also when an offer is read, kept, restored by a failure  *)
(* and used much later (update.go:213, 400, 419).                          *)
OffersAreNewer ==
    up => /\ info.available => Precedes(running, info.latest)
          /\ \A i \in Installs :
                install[i].at \in {"asked", "downloading", "saving"} =>
                    Precedes(running, install[i].info.latest)

(* A check ends with one of the releases it was shown, and none of them    *)
(* that it may offer precedes that one, in whatever order they are listed  *)
(* (update.go:200, 258): the loop compares each only with the best so far. *)
NewestFound ==
    [][\A c \in Checks :
          LET s == scan[c]
              shown == {i \in DOMAIN s.list : s.page \/ ~s.list[i].pre}
              found == check'[c]
          IN  found \notin {NoInfo, check[c]} /\ found.status = "idle" =>
                  /\ \E i \in shown : s.list[i].version = found.latest
                  /\ \A i \in shown :
                         ~Precedes(found.latest, s.list[i].version)]_vars

(* "The runner owns both files from this point" (update.go:369): a script  *)
(* always finds its IPK, and none is left behind unless the process died   *)
(* while it wrote one.                                                     *)
PackagesOwned ==
    LET owners == {i \in Installs : install[i].at \in {"saving"} \cup Detached}
    IN  owners \subseteq files /\ (~interrupted => files = owners)
=============================================================================
