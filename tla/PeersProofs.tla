------------------------------ MODULE PeersProofs ------------------------------
(* Proofs about Addressing, for any list of addresses in any network, and  *)
(* about Peers, for any profiles, devices, networks and requests.          *)
EXTENDS Peers, SequenceTheorems, FiniteSetTheorems, TLAPS

(***************************************************************************)
(* Ranks                                                                   *)
(***************************************************************************)
Below(F, a) == {b \in F : b < a}

LEMMA RankOrder ==
    ASSUME NEW F \in SUBSET Int, IsFiniteSet(F), NEW a \in F, NEW b \in F, a < b
    PROVE  Cardinality(Below(F, a)) < Cardinality(Below(F, b))
<1>1. Below(F, a) \in SUBSET Below(F, b) /\ Below(F, b) \in SUBSET F
      /\ a \in Below(F, b) /\ a \notin Below(F, a)
  <2>1. \A c \in F : c < a => c < b
    OBVIOUS
  <2>2. ~(a < a)
    OBVIOUS
  <2>3. QED
    BY <2>1, <2>2 DEF Below
<1>2. IsFiniteSet(Below(F, b))
  BY <1>1, FS_Subset
<1>3. IsFiniteSet(Below(F, a))
      /\ Cardinality(Below(F, a)) <= Cardinality(Below(F, b))
      /\ Cardinality(Below(F, b)) # Cardinality(Below(F, a))
  BY <1>1, <1>2, FS_Subset
<1>4. Cardinality(Below(F, a)) \in Nat /\ Cardinality(Below(F, b)) \in Nat
  BY <1>2, <1>3, FS_CardinalityType
<1>5. QED
  BY <1>3, <1>4

(* Every number below the size of a finite set of integers is the rank of  *)
(* exactly one of them.                                                    *)
LEMMA OneOfEachRank ==
    ASSUME NEW F \in SUBSET Int, IsFiniteSet(F), NEW k \in Nat, k < Cardinality(F)
    PROVE  \E a \in F : Cardinality(Below(F, a)) = k
<1>1. PICK n \in Nat : n = Cardinality(F)
  BY FS_CardinalityType
<1> DEFINE rank == [a \in F |-> Cardinality(Below(F, a))]
           T == 0 .. n - 1
<1>2. ASSUME NEW a \in F PROVE Cardinality(Below(F, a)) \in T
  <2>1. Below(F, a) \in SUBSET F /\ a \notin Below(F, a)
    BY DEF Below
  <2>2. Cardinality(Below(F, a)) <= n /\ n # Cardinality(Below(F, a))
    BY <1>1, <2>1, FS_Subset
  <2>3. Cardinality(Below(F, a)) \in Nat
    BY <2>1, FS_Subset, FS_CardinalityType
  <2>4. QED
    <3>1. PICK c \in Nat : c = Cardinality(Below(F, a))
      BY <2>3
    <3>2. QED
      BY <2>2, <3>1
<1>3. ASSUME NEW a \in F, NEW b \in F, rank[a] = rank[b] PROVE a = b
  <2>1. CASE a < b
    BY <1>1, <1>2, <1>3, <2>1, RankOrder
  <2>2. CASE b < a
    BY <1>1, <1>2, <1>3, <2>2, RankOrder
  <2>3. a \in Int /\ b \in Int
    OBVIOUS
  <2>4. QED
    BY <2>1, <2>2, <2>3
<1>4. rank \in Injection(F, T)
  BY <1>2, <1>3 DEF Injection, IsInjective
<1>5. IsFiniteSet(T) /\ Cardinality(T) = n
  <2>1. /\ IsFiniteSet(T)
        /\ Cardinality(T) = IF 0 > n - 1 THEN 0 ELSE n - 1 - 0 + 1
    BY FS_Interval
  <2>2. (IF 0 > n - 1 THEN 0 ELSE n - 1 - 0 + 1) = n
    BY <1>1
  <2>3. QED
    BY <2>1, <2>2
<1>6. rank \in Surjection(F, T)
  <2>1. Cardinality(F) = Cardinality(T)
    BY <1>1, <1>5
  <2> HIDE DEF rank, T
  <2>2. QED
    BY <1>4, <1>5, <2>1, FS_Injection
<1>7. k \in T
  BY <1>1
<1>8. QED
  BY <1>6, <1>7 DEF Surjection

(***************************************************************************)
(* The addresses that are kept and those that are filled in                *)
(***************************************************************************)
Free(n, as) == Room(n) \ {as[i] : i \in Kept(n, as)}

Blanks(n, as, i) == Cardinality((1 .. i - 1) \ Kept(n, as))

Address(n, as, i) ==
    IF i \in Kept(n, as) THEN as[i]
    ELSE IF Blanks(n, as, i) < Cardinality(Free(n, as))
         THEN CHOOSE a \in Free(n, as) :
                 Cardinality(Below(Free(n, as), a)) = Blanks(n, as, i)
         ELSE NoAddress

LEMMA Filled ==
    ASSUME NEW n, NEW as
    PROVE  Fill(n, as) = [i \in DOMAIN as |-> Address(n, as, i)]
BY DEF Fill, Address, Free, Blanks, Below

LEMMA FreeIsFinite ==
    ASSUME NEW n \in Network, NEW as
    PROVE  /\ Free(n, as) \in SUBSET Int /\ IsFiniteSet(Free(n, as))
           /\ Free(n, as) \subseteq Room(n)
           /\ IsFiniteSet(Room(n)) /\ Room(n) \subseteq Int
<1>1. n.gateway + 1 \in Int /\ n.last - 1 \in Int
  BY DEF Network
<1>2. IsFiniteSet(Room(n)) /\ Room(n) \subseteq Int
  BY <1>1, FS_Interval DEF Room
<1>3. Free(n, as) \in SUBSET Room(n)
  BY DEF Free
<1>4. QED
  BY <1>2, <1>3, FS_Subset

LEMMA BlanksType ==
    ASSUME NEW n, NEW as, NEW i \in Nat
    PROVE  Blanks(n, as, i) \in Nat
<1>1. IsFiniteSet(1 .. i - 1)
  BY FS_Interval
<1>2. QED
  BY <1>1, FS_Difference, FS_CardinalityType DEF Blanks

(* Each address that is filled in comes after those of the profiles before.*)
LEMMA BlanksGrow ==
    ASSUME NEW n, NEW as, NEW i \in Nat, NEW j \in Nat,
           1 <= i, i < j, i \notin Kept(n, as)
    PROVE  Blanks(n, as, i) < Blanks(n, as, j)
<1> DEFINE S == (1 .. i - 1) \ Kept(n, as)
           T == (1 .. j - 1) \ Kept(n, as)
<1>1. S \in SUBSET T /\ i \in T /\ i \notin S
  <2>1. (1 .. i - 1) \subseteq (1 .. j - 1) /\ i \in 1 .. j - 1
        /\ i \notin 1 .. i - 1
    OBVIOUS
  <2>2. QED
    BY <2>1
<1>2. IsFiniteSet(1 .. j - 1)
  BY FS_Interval
<1>3. IsFiniteSet(T)
  BY <1>2, FS_Difference
<1>4. Cardinality(S) <= Cardinality(T) /\ Cardinality(T) # Cardinality(S)
  BY <1>1, <1>3, FS_Subset
<1>5. Cardinality(S) = Blanks(n, as, i) /\ Cardinality(T) = Blanks(n, as, j)
  BY DEF Blanks
<1>6. PICK b \in Nat, c \in Nat : b = Blanks(n, as, i) /\ c = Blanks(n, as, j)
  BY BlanksType
<1> HIDE DEF S, T
<1>7. b <= c /\ c # b
  BY <1>4, <1>5, <1>6
<1>8. b < c
  BY <1>7
<1>9. QED
  BY <1>6, <1>8

(* What is filled in is free, and has the rank of its blank.               *)
LEMMA FilledIn ==
    ASSUME NEW n \in Network, NEW as, NEW i \in DOMAIN as, i \in Nat,
           i \notin Kept(n, as), Blanks(n, as, i) < Cardinality(Free(n, as))
    PROVE  /\ Fill(n, as)[i] \in Free(n, as)
           /\ Cardinality(Below(Free(n, as), Fill(n, as)[i])) = Blanks(n, as, i)
<1>1. Fill(n, as)[i] = CHOOSE a \in Free(n, as) :
                          Cardinality(Below(Free(n, as), a)) = Blanks(n, as, i)
  BY Filled DEF Address
<1>2. \E a \in Free(n, as) :
          Cardinality(Below(Free(n, as), a)) = Blanks(n, as, i)
  BY BlanksType, FreeIsFinite, OneOfEachRank
<1>3. QED
  BY <1>1, <1>2

(* In a network with room for the whole list there is an address for every *)
(* blank.                                                                  *)
LEMMA RoomForAll ==
    ASSUME NEW n \in Network, NEW as \in Seq(Int),
           Len(as) <= Cardinality(Room(n)),
           NEW i \in DOMAIN as, i \notin Kept(n, as)
    PROVE  Blanks(n, as, i) < Cardinality(Free(n, as))
<1>0. PICK m \in Nat : m = Len(as)
  BY LenProperties
<1> DEFINE kept == Kept(n, as)
           values == {as[k] : k \in kept}
           blank == (1 .. m) \ kept
<1>1. DOMAIN as = 1 .. m /\ kept \in SUBSET (1 .. m)
      /\ i \in 1 .. m /\ i \in Nat /\ 1 <= i /\ i <= m
  <2>1. DOMAIN as = 1 .. m
    BY <1>0, LenProperties
  <2>2. kept \in SUBSET (1 .. m)
    BY <2>1 DEF Kept
  <2>3. i \in 1 .. m
    BY <2>1
  <2>4. i \in Nat /\ 1 <= i /\ i <= m
    BY <2>3
  <2>5. QED
    BY <2>1, <2>2, <2>3, <2>4
<1>2. IsFiniteSet(1 .. m) /\ Cardinality(1 .. m) = m
  <2>1. /\ IsFiniteSet(1 .. m)
        /\ Cardinality(1 .. m) = IF 1 > m THEN 0 ELSE m - 1 + 1
    BY FS_Interval
  <2>2. (IF 1 > m THEN 0 ELSE m - 1 + 1) = m
    BY <1>1
  <2>3. QED
    BY <2>1, <2>2
<1>3. IsFiniteSet(kept) /\ Cardinality(kept) \in Nat
  BY <1>1, <1>2, FS_Subset, FS_CardinalityType
<1>4. IsFiniteSet(values) /\ Cardinality(values) <= Cardinality(kept)
      /\ Cardinality(values) \in Nat
  <2> DEFINE f == [k \in kept |-> as[k]]
  <2>1. f \in Surjection(kept, values)
    BY DEF Surjection
  <2>2. IsFiniteSet(values) /\ Cardinality(values) <= Cardinality(kept)
    BY <1>3, <2>1, FS_Surjection
  <2>3. QED
    BY <2>2, FS_CardinalityType
<1>5. Cardinality(blank) = m - Cardinality(kept) /\ IsFiniteSet(blank)
  <2>1. (1 .. m) \cap kept = kept
    BY <1>1
  <2>2. /\ IsFiniteSet(blank)
        /\ Cardinality(blank) =
              Cardinality(1 .. m) - Cardinality((1 .. m) \cap kept)
    BY <1>2, FS_Difference
  <2>3. QED
    BY <1>2, <2>1, <2>2
<1>6. Cardinality(Free(n, as)) >= Cardinality(Room(n)) - Cardinality(values)
  <2>1. IsFiniteSet(Room(n))
    BY FreeIsFinite
  <2>2. Cardinality(Free(n, as)) =
            Cardinality(Room(n)) - Cardinality(Room(n) \cap values)
    BY <2>1, FS_Difference DEF Free
  <2>3. Room(n) \cap values \in SUBSET values
    OBVIOUS
  <2>4. Cardinality(Room(n) \cap values) <= Cardinality(values)
        /\ Cardinality(Room(n) \cap values) \in Nat
    BY <1>4, <2>3, FS_Subset, FS_CardinalityType
  <2>5. Cardinality(Room(n)) \in Nat
    BY <2>1, FS_CardinalityType
  <2> HIDE DEF values
  <2>6. QED
    BY <1>4, <2>2, <2>4, <2>5
<1>7. Blanks(n, as, i) < Cardinality(blank)
  <2>1. (1 .. i - 1) \ kept \in SUBSET blank /\ i \in blank
        /\ i \notin (1 .. i - 1) \ kept
    <3> HIDE DEF kept
    <3>1. (1 .. i - 1) \subseteq (1 .. m) /\ i \in 1 .. m
          /\ i \notin 1 .. i - 1
      BY <1>1
    <3>2. i \notin kept
      BY DEF kept
    <3>3. QED
      BY <3>1, <3>2
  <2>2. Blanks(n, as, i) <= Cardinality(blank)
        /\ Cardinality(blank) # Blanks(n, as, i)
    BY <1>5, <2>1, FS_Subset DEF Blanks
  <2>3. PICK b \in Nat, c \in Nat :
            b = Cardinality(blank) /\ c = Blanks(n, as, i)
    BY <1>1, <1>5, BlanksType, FS_CardinalityType
  <2> HIDE DEF blank
  <2>4. c <= b /\ b # c
    BY <2>2, <2>3
  <2>5. c < b
    BY <2>4
  <2>6. QED
    BY <2>3, <2>5
<1>8. PICK room \in Nat, free \in Nat, before \in Nat,
           all \in Nat, own \in Nat, named \in Nat :
         /\ room = Cardinality(Room(n)) /\ free = Cardinality(Free(n, as))
         /\ before = Blanks(n, as, i) /\ all = Cardinality(blank)
         /\ own = Cardinality(kept) /\ named = Cardinality(values)
  BY <1>1, <1>3, <1>4, <1>5, FreeIsFinite, BlanksType, FS_CardinalityType
<1>9. m <= room
  BY <1>0, <1>8
<1> HIDE DEF kept, values, blank
<1>10. named <= own /\ all = m - own /\ free >= room - named /\ before < all
  BY <1>4, <1>5, <1>6, <1>7, <1>8
<1>11. before < free
  BY <1>9, <1>10
<1>12. QED
  BY <1>8, <1>11

LEMMA FillType ==
    ASSUME NEW n \in Network, NEW as \in Seq(Int)
    PROVE  /\ Fill(n, as) \in Seq(Int) /\ Len(Fill(n, as)) = Len(as)
           /\ DOMAIN Fill(n, as) = DOMAIN as
<1>1. PICK m \in Nat : m = Len(as) /\ DOMAIN as = 1 .. m
  BY LenProperties
<1>2. DOMAIN Fill(n, as) = 1 .. m
  BY <1>1, Filled
<1>3. ASSUME NEW i \in 1 .. m PROVE Address(n, as, i) \in Int
  <2>1. as[i] \in Int
    BY <1>1, ElementOfSeq
  <2>2. CASE i \in Kept(n, as)
    BY <2>1, <2>2 DEF Address
  <2>3. CASE i \notin Kept(n, as) /\ Blanks(n, as, i) < Cardinality(Free(n, as))
    <3>1. Fill(n, as)[i] \in Free(n, as)
      <4>1. i \in DOMAIN as
        BY <1>1
      <4>2. i \in Nat
        OBVIOUS
      <4>3. QED
        BY <2>3, <4>1, <4>2, FilledIn
    <3>2. Fill(n, as)[i] = Address(n, as, i)
      BY <1>1, Filled
    <3>3. QED
      BY <3>1, <3>2, FreeIsFinite
  <2>4. CASE i \notin Kept(n, as)
             /\ ~(Blanks(n, as, i) < Cardinality(Free(n, as)))
    <3>1. Address(n, as, i) = NoAddress
      BY <2>4 DEF Address
    <3>2. QED
      BY <3>1 DEF NoAddress
  <2>5. QED
    BY <2>2, <2>3, <2>4
<1>4. Fill(n, as) \in [1 .. m -> Int]
  BY <1>1, <1>3, Filled
<1>5. Fill(n, as) \in Seq(Int)
  <2>1. [1 .. m -> Int] \subseteq Seq(Int)
    BY SeqDef
  <2>2. QED
    BY <1>4, <2>1
<1>6. Len(Fill(n, as)) = m
  <2>1. DOMAIN Fill(n, as) = 1 .. Len(Fill(n, as)) /\ Len(Fill(n, as)) \in Nat
    BY <1>5, LenProperties
  <2>2. PICK l \in Nat : l = Len(Fill(n, as))
    BY <2>1
  <2>3. 1 .. l = 1 .. m
    BY <1>2, <2>1, <2>2
  <2>4. l = m
    BY <2>3
  <2>5. QED
    BY <2>2, <2>4
<1>7. QED
  BY <1>1, <1>2, <1>5, <1>6

(***************************************************************************)
(* What NormalizeProfiles makes of any list, in any network                *)
(***************************************************************************)
(* NormalizeProfiles leaves an address alone that can be used and that no  *)
(* other profile names.                                                    *)
THEOREM KeepsUsable ==
    ASSUME NEW n, NEW as \in Seq(Int), NEW j \in DOMAIN as,
           Usable(n, as[j]), \A k \in DOMAIN as \ {j} : as[k] # as[j]
    PROVE  Fill(n, as)[j] = as[j]
<1>1. j \in Kept(n, as)
  <2>1. PICK m \in Nat : DOMAIN as = 1 .. m
    BY LenProperties
  <2>2. \A k \in 1 .. j - 1 : k \in 1 .. m /\ k # j
    BY <2>1
  <2>3. QED
    BY <2>1, <2>2 DEF Kept
<1>2. QED
  BY <1>1, Filled DEF Address

(* In a network with room for the whole list, NormalizeProfiles gives each *)
(* profile a usable address of its own, whatever is missing, foreign or    *)
(* doubled.                                                                *)
THEOREM FillsDistinctly ==
    ASSUME NEW n \in Network, n.first <= n.gateway, NEW as \in Seq(Int),
           Len(as) <= Cardinality(Room(n))
    PROVE  Distinct(n, Fill(n, as))
<1>0. PICK m \in Nat : m = Len(as)
  BY LenProperties
<1> DEFINE new == Fill(n, as)
           kept == Kept(n, as)
<1>1. DOMAIN as = 1 .. m /\ DOMAIN new = 1 .. m
  BY <1>0, LenProperties, Filled
<1>2. ASSUME NEW i \in 1 .. m, i \in kept
      PROVE  new[i] = as[i] /\ Usable(n, as[i])
             /\ \A j \in 1 .. i - 1 : as[j] # as[i]
  BY <1>1, <1>2, Filled DEF Kept, Address
<1>3. ASSUME NEW i \in 1 .. m, i \notin kept
      PROVE  /\ new[i] \in Free(n, as)
             /\ Cardinality(Below(Free(n, as), new[i])) = Blanks(n, as, i)
  <2>1. Blanks(n, as, i) < Cardinality(Free(n, as))
    BY <1>1, <1>3, RoomForAll
  <2>2. i \in DOMAIN as /\ i \in Nat
    BY <1>1
  <2> HIDE DEF new
  <2>3. QED
    BY <1>3, <2>1, <2>2, FilledIn DEF new
<1>4. \A i \in 1 .. m : Usable(n, new[i])
  <2>1. ASSUME NEW a \in Room(n) PROVE Usable(n, a)
    BY DEF Usable, Room, Network
  <2>2. Free(n, as) \subseteq Room(n)
    BY FreeIsFinite
  <2>3. QED
    BY <1>2, <1>3, <2>1, <2>2
<1> HIDE DEF new
<1>5. ASSUME NEW i \in 1 .. m, NEW j \in 1 .. m, i < j PROVE new[i] # new[j]
  <2>1. CASE i \in kept /\ j \in kept
    <3>1. i \in 1 .. j - 1
      BY <1>5
    <3>2. QED
      BY <1>2, <2>1, <3>1
  <2>2. CASE i \in kept /\ j \notin kept
    BY <1>2, <1>3, <2>2 DEF Free
  <2>3. CASE i \notin kept /\ j \in kept
    BY <1>2, <1>3, <2>3 DEF Free
  <2>4. CASE i \notin kept /\ j \notin kept
    <3>1. i \in Nat /\ j \in Nat /\ 1 <= i
      BY <1>1
    <3>2. Blanks(n, as, i) < Blanks(n, as, j)
      BY <1>5, <2>4, <3>1, BlanksGrow
    <3>3. PICK b \in Nat, c \in Nat :
              b = Blanks(n, as, i) /\ c = Blanks(n, as, j)
      BY <3>1, BlanksType
    <3>4. b < c
      BY <3>2, <3>3
    <3>5. b # c
      BY <3>4
    <3>6. Blanks(n, as, i) # Blanks(n, as, j)
      BY <3>3, <3>5
    <3>7. QED
      BY <1>3, <2>4, <3>6
  <2>5. QED
    BY <2>1, <2>2, <2>3, <2>4
<1>6. ASSUME NEW i \in 1 .. m, NEW j \in 1 .. m, new[i] = new[j] PROVE i = j
  <2>1. i < j \/ j < i \/ i = j
    OBVIOUS
  <2>2. QED
    BY <1>5, <1>6, <2>1
<1>7. QED
  BY <1>1, <1>4, <1>6 DEF Distinct, new

(* If, besides, no profile names the network's own address, Validate has   *)
(* nothing to object to.                                                   *)
THEOREM FillsValidly ==
    ASSUME NEW n \in Network, n.first < n.gateway, NEW as \in Seq(Int),
           Len(as) <= Cardinality(Room(n)),
           \A i \in DOMAIN as : as[i] # n.first
    PROVE  Valid(n, Fill(n, as))
<1>1. n.first <= n.gateway
  BY DEF Network
<1>2. Distinct(n, Fill(n, as))
  BY <1>1, FillsDistinctly
<1>3. ASSUME NEW i \in DOMAIN Fill(n, as) PROVE Fill(n, as)[i] # n.first
  <2>1. i \in DOMAIN as /\ i \in Nat
    <3>1. i \in DOMAIN as
      BY Filled
    <3>2. PICK m \in Nat : DOMAIN as = 1 .. m
      BY LenProperties
    <3>3. QED
      BY <3>1, <3>2
  <2>2. CASE i \in Kept(n, as)
    BY <2>1, <2>2, Filled DEF Address
  <2>3. CASE i \notin Kept(n, as)
    <3>1. Fill(n, as)[i] \in Room(n)
      BY <2>1, <2>3, RoomForAll, FilledIn, FreeIsFinite
    <3>2. \A a \in Room(n) : a # n.first
      BY DEF Room, Network
    <3>3. QED
      BY <3>1, <3>2
  <2>4. QED
    BY <2>2, <2>3
<1>4. QED
  BY <1>2, <1>3 DEF Valid

(***************************************************************************)
(* The inductive invariant                                                 *)
(***************************************************************************)
Types ==
    /\ settings \in Settings
    /\ request \in Requests \cup {NoRequest}
    /\ live \in Seq(Profile)
    /\ serving \in BOOLEAN /\ applying \in BOOLEAN
    /\ store \in [Ids -> Peer \cup {NoPeer}]
    /\ pending \in [Devices -> Peer \cup {NoPeer}]
    /\ given \in [Devices -> Peer \cup {NoPeer}]
    /\ DOMAIN routes \subseteq Int
    /\ \A a \in DOMAIN routes : routes[a] \in 1 .. MaxKeys
    /\ keys \in 0 .. MaxKeys

(* Only settings that Validate has passed are stored.                      *)
Sound ==
    /\ settings.net.gateway = settings.net.first + 1
    /\ Valid(settings.net, Ips(settings.list))
    /\ Distinct(settings.rawNet, Raws(settings.list))

(* A peer in the store never changes: what a device was given, or is about *)
(* to be given, is still the peer of its profile.                          *)
Stored ==
    /\ \A i \in Ids : store[i] # NoPeer => store[i].id = i
    /\ \A d \in Devices :
          /\ given[d] # NoPeer => given[d] = store[given[d].id]
          /\ pending[d] # NoPeer => pending[d] = store[pending[d].id]

(* The kernel routes only to stored peers, and while the interface is up   *)
(* it has a route for every peer that a device was given.                  *)
Routed ==
    /\ \A a \in DOMAIN routes : \E i \in Ids :
          store[i] # NoPeer /\ store[i].ip = a /\ store[i].key = routes[a]
    /\ serving => \A d \in Devices :
          given[d] # NoPeer => given[d].ip \in DOMAIN routes

Inv == Types /\ Sound /\ Stored /\ Routed

(***************************************************************************)
(* The settings                                                            *)
(***************************************************************************)
LEMMA Addresses ==
    ASSUME NEW list \in Seq(Profile)
    PROVE  /\ Ips(list) \in Seq(Int) /\ Raws(list) \in Seq(Int)
           /\ Len(Ips(list)) = Len(list) /\ Len(Raws(list)) = Len(list)
           /\ DOMAIN Ips(list) = DOMAIN list /\ DOMAIN Raws(list) = DOMAIN list
<1>1. PICK m \in Nat : m = Len(list) /\ DOMAIN list = 1 .. m
  BY LenProperties
<1>2. \A i \in 1 .. m : list[i] \in Profile
  BY <1>1, ElementOfSeq
<1>3. Ips(list) \in [1 .. m -> Int] /\ Raws(list) \in [1 .. m -> Int]
  BY <1>1, <1>2 DEF Ips, Raws, Profile
<1>4. Ips(list) \in Seq(Int) /\ Raws(list) \in Seq(Int)
  BY <1>3, SeqDef
<1>5. DOMAIN Ips(list) = 1 .. m /\ DOMAIN Raws(list) = 1 .. m
  BY <1>3
<1>6. QED
  BY <1>1, <1>4, <1>5, LenProperties

LEMMA Normalized ==
    ASSUME NEW r \in Settings
    PROVE  /\ Normalize(r) \in Settings
           /\ Normalize(r).net = r.net /\ Normalize(r).rawNet = r.rawNet
           /\ DOMAIN Normalize(r).list = DOMAIN r.list
           /\ Len(Normalize(r).list) = Len(r.list)
           /\ Ips(Normalize(r).list) = Fill(r.net, Ips(r.list))
           /\ Raws(Normalize(r).list) = Fill(r.rawNet, Raws(r.list))
           /\ \A i \in DOMAIN r.list : Normalize(r).list[i].id = r.list[i].id
<1> DEFINE ips == Fill(r.net, Ips(r.list))
           raws == Fill(r.rawNet, Raws(r.list))
           list == [i \in DOMAIN r.list |->
                       [r.list[i] EXCEPT !.ip = ips[i], !.raw = raws[i]]]
<1>1. r.net \in Network /\ r.rawNet \in Network /\ r.list \in Seq(Profile)
  BY DEF Settings
<1>2. Normalize(r) = [r EXCEPT !.list = list]
  BY DEF Normalize
<1>3. PICK m \in Nat : m = Len(r.list) /\ DOMAIN r.list = 1 .. m
  BY <1>1, LenProperties
<1>4. \A i \in 1 .. m : r.list[i] \in Profile
  BY <1>1, <1>3, ElementOfSeq
<1>5. /\ ips \in Seq(Int) /\ Len(ips) = m /\ DOMAIN ips = 1 .. m
      /\ raws \in Seq(Int) /\ Len(raws) = m /\ DOMAIN raws = 1 .. m
  BY <1>1, <1>3, Addresses, FillType
<1>6. \A i \in 1 .. m : ips[i] \in Int /\ raws[i] \in Int
  BY <1>5, ElementOfSeq
<1> HIDE DEF ips, raws
<1>7. \A i \in 1 .. m :
          /\ list[i] \in Profile /\ list[i].id = r.list[i].id
          /\ list[i].ip = ips[i] /\ list[i].raw = raws[i]
  BY <1>3, <1>4, <1>6 DEF Profile
<1>8. DOMAIN list = 1 .. m /\ list \in [1 .. m -> Profile]
  BY <1>3, <1>7
<1>9. list \in Seq(Profile)
  BY <1>8, SeqDef
<1>10. Ips(list) = ips /\ Raws(list) = raws
  <2> HIDE DEF list
  <2>1. Ips(list) = [i \in 1 .. m |-> ips[i]]
        /\ Raws(list) = [i \in 1 .. m |-> raws[i]]
    BY <1>7, <1>8 DEF Ips, Raws
  <2>2. ips = [i \in 1 .. m |-> ips[i]] /\ raws = [i \in 1 .. m |-> raws[i]]
    BY <1>5, SeqDef
  <2>3. QED
    BY <2>1, <2>2
<1> HIDE DEF list
<1>11. Len(list) = m
  <2>1. PICK l \in Nat : l = Len(list) /\ DOMAIN list = 1 .. l
    BY <1>9, LenProperties
  <2>2. 1 .. l = 1 .. m
    BY <1>8, <2>1
  <2>3. l = m
    BY <2>2
  <2>4. QED
    BY <2>1, <2>3
<1>12. /\ Normalize(r) \in Settings /\ Normalize(r).list = list
       /\ Normalize(r).net = r.net /\ Normalize(r).rawNet = r.rawNet
  BY <1>2, <1>9 DEF Settings
<1>13. QED
  BY <1>3, <1>7, <1>8, <1>10, <1>11, <1>12 DEF ips, raws

LEMMA Requested ==
    ASSUME Types, request # NoRequest
    PROVE  request \in Requests /\ request \in Settings
BY SettingsAssumption DEF Types

LEMMA PeersExist ==
    \A p \in Peer : p # NoPeer /\ p.id \in Ids /\ p.ip \in Int
                   /\ p.key \in 1 .. MaxKeys
<1>1. ASSUME NEW p \in Peer PROVE p # NoPeer
  <2>1. p.key >= 1 /\ NoPeer.key = 0
    BY DEF Peer, NoPeer
  <2>2. QED
    BY <2>1
<1>2. QED
  BY <1>1 DEF Peer

(***************************************************************************)
(* The invariant holds                                                     *)
(***************************************************************************)
LEMMA InitInv == Init => Inv
<1> SUFFICES ASSUME Init PROVE Inv
  OBVIOUS
<1> USE DEF Init
<1>1. Types
  <2>1. settings \in Settings /\ keys \in 0 .. MaxKeys /\ live \in Seq(Profile)
    BY SettingsAssumption DEF Settings
  <2>2. DOMAIN routes = {}
    BY DEF NoRoutes
  <2>3. QED
    BY <2>1, <2>2 DEF Types
<1>2. Sound
  BY SettingsAssumption, InitialAssumption DEF Sound
<1>3. Stored
  BY DEF Stored
<1>4. Routed
  BY DEF Routed, NoRoutes
<1>5. QED
  BY <1>1, <1>2, <1>3, <1>4 DEF Inv

LEMMA ReceiveSaveInv == Inv /\ ReceiveSave => Inv'
<1> SUFFICES ASSUME Inv, ReceiveSave PROVE Inv'
  OBVIOUS
<1> USE DEF Inv
<1>1. /\ request' \in Requests
      /\ UNCHANGED <<settings, applying, live, serving, store, routes, pending,
                     given, keys>>
  BY DEF ReceiveSave, peerVars
<1>2. Types'
  BY <1>1 DEF Types
<1>3. Sound' /\ Stored' /\ Routed'
  BY <1>1 DEF Sound, Stored, Routed
<1>4. QED
  BY <1>2, <1>3

LEMMA ApplySaveInv == Inv /\ ApplySave => Inv'
<1> SUFFICES ASSUME Inv, ApplySave PROVE Inv'
  OBVIOUS
<1> USE DEF Inv
<1> DEFINE new == Normalize(request)
<1>1. /\ request # NoRequest /\ request' = NoRequest
      /\ settings' = IF Validates(new) THEN new ELSE settings
      /\ applying' \in BOOLEAN
      /\ UNCHANGED <<live, serving, store, routes, pending, given, keys>>
  BY DEF ApplySave, peerVars
<1>2. request \in Requests /\ request \in Settings
  BY <1>1, Requested
<1>3. new \in Settings /\ new.net = request.net /\ new.rawNet = request.rawNet
  BY <1>2, Normalized
<1>4. Sound'
  BY <1>1, <1>2, <1>3, SettingsAssumption DEF Sound, Validates
<1> HIDE DEF new
<1>5. settings' \in Settings
  BY <1>1, <1>3 DEF Types
<1>6. Types'
  BY <1>1, <1>5 DEF Types
<1>7. Stored' /\ Routed'
  BY <1>1 DEF Stored, Routed
<1>8. QED
  BY <1>4, <1>6, <1>7

(* Taking the interface down leaves no route and nobody waiting.           *)
LEMMA DownInv ==
    ASSUME Inv, InterfaceDown, UNCHANGED <<settings, request, store, given, keys>>,
           applying' \in BOOLEAN, live' \in Seq(Profile)
    PROVE  Inv'
<1> USE DEF Inv
<1>1. /\ serving' = FALSE /\ routes' = NoRoutes
      /\ pending' = [d \in Devices |-> NoPeer]
  BY DEF InterfaceDown
<1>2. Types'
  <2>1. DOMAIN routes' = {}
    BY <1>1 DEF NoRoutes
  <2>2. QED
    BY <1>1, <2>1 DEF Types
<1>3. Sound' /\ Stored'
  BY <1>1 DEF Sound, Stored
<1>4. Routed'
  BY <1>1 DEF Routed, NoRoutes
<1>5. QED
  BY <1>2, <1>3, <1>4

LEMMA ReconcileInv == Inv /\ Reconcile => Inv'
<1> SUFFICES ASSUME Inv, Reconcile PROVE Inv'
  OBVIOUS
<1>1. live' \in Seq(Profile)
  BY DEF Inv, Types, Settings, Reconcile
<1>2. QED
  BY <1>1, DownInv DEF Reconcile

LEMMA ToggleInv == Inv /\ Toggle => Inv'
<1> SUFFICES ASSUME Inv, Toggle PROVE Inv'
  OBVIOUS
<1>1. live' \in Seq(Profile) /\ applying' \in BOOLEAN
  BY DEF Inv, Types, Settings, Toggle, cfgVars
<1>2. QED
  BY <1>1, DownInv DEF Toggle, cfgVars

LEMMA ServeInv == Inv /\ Serve => Inv'
<1> SUFFICES ASSUME Inv, Serve PROVE Inv'
  OBVIOUS
<1> USE DEF Inv
<1> DEFINE peers == {store[i] : i \in Ids} \ {NoPeer}
<1>1. /\ serving' = TRUE /\ routes' \in Restored
      /\ UNCHANGED <<settings, request, applying, live, store, pending, given,
                     keys>>
  BY DEF Serve, cfgVars
<1>2. /\ routes' \in [{p.ip : p \in peers} -> 1 .. MaxKeys]
      /\ \A a \in DOMAIN routes' :
             \E p \in peers : p.ip = a /\ p.key = routes'[a]
  BY <1>1 DEF Restored
<1>3. \A p \in peers : p \in Peer
  BY DEF Types
<1>4. Types'
  <2>1. \A p \in peers : p.ip \in Int
    BY <1>3, PeersExist
  <2>2. DOMAIN routes' = {p.ip : p \in peers}
        /\ \A a \in DOMAIN routes' : routes'[a] \in 1 .. MaxKeys
    BY <1>2
  <2>3. DOMAIN routes' \subseteq Int
    BY <2>1, <2>2
  <2> HIDE DEF peers
  <2>4. QED
    BY <1>1, <2>2, <2>3 DEF Types
<1>5. Sound' /\ Stored'
  BY <1>1 DEF Sound, Stored
<1>6. Routed'
  <2>1. \A p \in peers : \E i \in Ids : store[i] # NoPeer /\ store[i] = p
    OBVIOUS
  <2>2. ASSUME NEW d \in Devices, given[d] # NoPeer
        PROVE  given[d].ip \in DOMAIN routes'
    <3>1. given[d] \in Peer /\ given[d] = store[given[d].id]
      BY <2>2 DEF Types, Stored
    <3>2. given[d] \in peers
      BY <2>2, <3>1, PeersExist
    <3>3. QED
      BY <1>2, <3>2
  <2>3. \A a \in DOMAIN routes' : \E i \in Ids :
            store[i] # NoPeer /\ store[i].ip = a /\ store[i].key = routes'[a]
    <3> HIDE DEF peers
    <3>1. QED
      BY <1>2, <2>1
  <2>4. QED
    BY <1>1, <2>2, <2>3 DEF Routed
<1>7. QED
  BY <1>4, <1>5, <1>6

LEMMA RestartInv == Inv /\ Restart => Inv'
<1> SUFFICES ASSUME Inv, Restart PROVE Inv'
  OBVIOUS
<1> USE DEF Inv
<1>1. /\ serving' = FALSE /\ routes' = NoRoutes
      /\ pending' = [d \in Devices |-> NoPeer]
      /\ request' = NoRequest
      /\ store' = [i \in Ids |-> NoPeer]
      /\ given' = [d \in Devices |-> NoPeer]
      /\ keys' = 0 /\ settings' = settings
      /\ applying' = FALSE /\ live' = settings.list
  BY DEF Restart, InterfaceDown
<1>2. Types'
  <2>1. keys' \in 0 .. MaxKeys
    BY <1>1, SettingsAssumption
  <2>2. DOMAIN routes' = {}
    BY <1>1 DEF NoRoutes
  <2>3. QED
    BY <1>1, <2>1, <2>2 DEF Types, Settings
<1>3. Sound' /\ Stored'
  BY <1>1 DEF Sound, Stored
<1>4. Routed'
  BY <1>1 DEF Routed, NoRoutes
<1>5. QED
  BY <1>2, <1>3, <1>4

LEMMA LookUpPeerInv ==
    ASSUME Inv, NEW d \in Devices, NEW k \in DOMAIN live,
           LookUpPeer(d, live[k])
    PROVE  Inv'
<1> USE DEF Inv
<1> DEFINE p == live[k]
           q == PeerOf(p)
<1>1. p \in Profile
  BY ElementOfSeq, LenProperties DEF Types
<1>2. /\ pending[d] = NoPeer /\ pending' = [pending EXCEPT ![d] = q]
      /\ store' = [store EXCEPT ![p.id] = q]
      /\ keys' = IF q.key > keys THEN keys + 1 ELSE keys
      /\ keys' <= MaxKeys
      /\ UNCHANGED <<settings, request, applying, live, serving, routes, given>>
  BY DEF LookUpPeer, cfgVars
<1>3. p.id \in Ids /\ p.ip \in Int
  BY <1>1 DEF Profile
<1>4. /\ q \in Peer /\ q.id = p.id
      /\ store[p.id] # NoPeer => q = store[p.id]
      /\ store[p.id] = NoPeer => q.ip = p.ip
  <2>1. CASE store[p.id] # NoPeer
    BY <1>3, <2>1 DEF PeerOf, Stored, Types
  <2>2. CASE store[p.id] = NoPeer
    <3>1. q = [id |-> p.id, ip |-> p.ip, key |-> keys + 1]
      BY <2>2 DEF PeerOf
    <3>2. q.key = keys + 1
      BY <3>1
    <3>3. keys + 1 \in 1 .. MaxKeys
      BY <1>2, <3>2 DEF Types
    <3>4. QED
      BY <1>3, <2>2, <3>1, <3>3 DEF Peer
  <2>3. QED
    BY <2>1, <2>2
<1> HIDE DEF p, q
<1>5. /\ \A i \in Ids : store[i] # NoPeer => store'[i] = store[i]
      /\ \A i \in Ids \ {p.id} : store'[i] = store[i]
      /\ store'[p.id] = q /\ q # NoPeer
  BY <1>2, <1>3, <1>4, PeersExist DEF Types
<1>6. Types'
  <2>1. keys' \in 0 .. MaxKeys
    BY <1>2 DEF Types
  <2>2. QED
    BY <1>2, <1>3, <1>4, <2>1 DEF Types
<1>7. Sound'
  BY <1>2 DEF Sound
<1>8. Stored'
  <2>1. \A i \in Ids : store'[i] # NoPeer => store'[i].id = i
    BY <1>4, <1>5 DEF Stored
  <2>2. ASSUME NEW e \in Devices
        PROVE  /\ given'[e] # NoPeer => given'[e] = store'[given'[e].id]
               /\ pending'[e] # NoPeer => pending'[e] = store'[pending'[e].id]
    <3>1. given[e] # NoPeer => given[e].id \in Ids /\ store[given[e].id] # NoPeer
      BY PeersExist DEF Types, Stored
    <3>2. pending[e] # NoPeer =>
              pending[e].id \in Ids /\ store[pending[e].id] # NoPeer
      BY PeersExist DEF Types, Stored
    <3>3. e # d => pending'[e] = pending[e]
      BY <1>2 DEF Types
    <3>4. pending'[d] = q
      BY <1>2 DEF Types
    <3>5. QED
      BY <1>2, <1>4, <1>5, <3>1, <3>2, <3>3, <3>4 DEF Stored
  <2>3. QED
    BY <2>1, <2>2 DEF Stored
<1>9. Routed'
  <2>1. ASSUME NEW a \in DOMAIN routes
        PROVE  \E i \in Ids : store'[i] # NoPeer /\ store'[i].ip = a
                              /\ store'[i].key = routes[a]
    <3>1. PICK i \in Ids :
              store[i] # NoPeer /\ store[i].ip = a /\ store[i].key = routes[a]
      BY DEF Routed
    <3>2. QED
      BY <1>5, <3>1
  <2>2. QED
    BY <1>2, <2>1 DEF Routed
<1>10. QED
  BY <1>6, <1>7, <1>8, <1>9

LEMMA AddPeerInv ==
    ASSUME Inv, NEW d \in Devices, AddPeer(d)
    PROVE  Inv'
<1> USE DEF Inv
<1> DEFINE p == pending[d]
<1>1. /\ p # NoPeer /\ routes' = Route(p)
      /\ given' = [given EXCEPT ![d] = p]
      /\ pending' = [pending EXCEPT ![d] = NoPeer]
      /\ UNCHANGED <<settings, request, applying, live, serving, store, keys>>
  BY DEF AddPeer, cfgVars
<1>2. p \in Peer /\ p = store[p.id] /\ p.id \in Ids /\ p.ip \in Int
      /\ p.key \in 1 .. MaxKeys
  BY <1>1, PeersExist DEF Types, Stored
<1> HIDE DEF p
<1>3. /\ DOMAIN routes' = DOMAIN routes \cup {p.ip}
      /\ \A a \in DOMAIN routes' :
             routes'[a] = IF a = p.ip THEN p.key ELSE routes[a]
  BY <1>1 DEF Route
<1>4. Types'
  <2>1. DOMAIN routes' \subseteq Int
        /\ \A a \in DOMAIN routes' : routes'[a] \in 1 .. MaxKeys
    BY <1>2, <1>3 DEF Types
  <2>2. QED
    BY <1>1, <1>2, <2>1 DEF Types
<1>5. Sound'
  BY <1>1 DEF Sound
<1>6. Stored'
  BY <1>1, <1>2 DEF Stored, Types
<1>7. Routed'
  <2>1. ASSUME NEW a \in DOMAIN routes'
        PROVE  \E i \in Ids : store[i] # NoPeer /\ store[i].ip = a
                              /\ store[i].key = routes'[a]
    <3>1. CASE a = p.ip
      BY <1>1, <1>2, <1>3, <3>1
    <3>2. CASE a # p.ip
      BY <1>3, <3>2 DEF Routed
    <3>3. QED
      BY <3>1, <3>2
  <2>2. ASSUME serving, NEW e \in Devices, given'[e] # NoPeer
        PROVE  given'[e].ip \in DOMAIN routes'
    <3>1. CASE e = d
      BY <1>1, <1>3, <3>1 DEF Types
    <3>2. CASE e # d
      BY <1>1, <1>3, <2>2, <3>2 DEF Types, Routed
    <3>3. QED
      BY <3>1, <3>2
  <2>3. QED
    BY <1>1, <2>1, <2>2 DEF Routed
<1>8. QED
  BY <1>4, <1>5, <1>6, <1>7

LEMMA AddPeerFailsInv ==
    ASSUME Inv, NEW d \in Devices, AddPeerFails(d)
    PROVE  Inv'
<1> USE DEF Inv
<1>1. /\ pending' = [pending EXCEPT ![d] = NoPeer]
      /\ UNCHANGED <<settings, request, applying, live, serving, store, routes,
                     given, keys>>
  BY DEF AddPeerFails, cfgVars
<1>2. Types' /\ Stored'
  BY <1>1 DEF Types, Stored
<1>3. Sound' /\ Routed'
  BY <1>1 DEF Sound, Routed
<1>4. QED
  BY <1>2, <1>3

LEMMA NextInv == Inv /\ [Next]_vars => Inv'
<1> SUFFICES ASSUME Inv, [Next]_vars PROVE Inv'
  OBVIOUS
<1>1. CASE UNCHANGED vars
  <2>1. UNCHANGED <<settings, request, applying, live, serving, store, routes,
                    pending, given, keys>>
    BY <1>1 DEF vars, cfgVars, peerVars
  <2>2. Types' /\ Sound' /\ Stored' /\ Routed'
    BY <2>1 DEF Inv, Types, Sound, Stored, Routed
  <2>3. QED
    BY <2>2 DEF Inv
<1>2. ASSUME NEW d \in Devices, NEW i \in DOMAIN live,
             LookUpPeer(d, live[i])
      PROVE  Inv'
  BY <1>2, LookUpPeerInv
<1>3. ASSUME NEW d \in Devices, AddPeer(d) PROVE Inv'
  BY <1>3, AddPeerInv
<1>4. ASSUME NEW d \in Devices, AddPeerFails(d) PROVE Inv'
  BY <1>4, AddPeerFailsInv
<1>5. QED
  BY <1>1, <1>2, <1>3, <1>4, ReceiveSaveInv, ApplySaveInv, ReconcileInv,
     ToggleInv, ServeInv, RestartInv DEF Next

(***************************************************************************)
(* The theorems                                                            *)
(***************************************************************************)
(* The inductive invariant holds of every run.                             *)
THEOREM Invariance == Spec => []Inv
<1>1. Init => Inv
  BY InitInv
<1>2. Inv /\ [Next]_vars => Inv'
  BY NextInv
<1>3. QED
  BY <1>1, <1>2, PTL DEF Spec

(* Whatever the saves ask for, every stored profile has a WireGuard        *)
(* address among those for clients and a RAW address that can be used      *)
(* (NormalizeProfiles and Validate).                                       *)
THEOREM TypeCorrect == Spec => []TypeOK
<1>1. Inv => TypeOK
  <2> SUFFICES ASSUME Inv PROVE TypeOK
    OBVIOUS
  <2> USE DEF Inv
  <2>1. settings.net \in Network /\ settings.rawNet \in Network
        /\ settings.list \in Seq(Profile)
    BY DEF Types, Settings
  <2>2. ASSUME NEW i \in DOMAIN settings.list
        PROVE  /\ settings.list[i].id \in Ids
               /\ settings.list[i].ip \in Room(settings.net)
               /\ Usable(settings.rawNet, settings.list[i].raw)
    <3>1. settings.list[i] \in Profile
      BY <2>1, ElementOfSeq, LenProperties
    <3>2. Ips(settings.list)[i] = settings.list[i].ip
          /\ Raws(settings.list)[i] = settings.list[i].raw
          /\ i \in DOMAIN Ips(settings.list) /\ i \in DOMAIN Raws(settings.list)
      BY DEF Ips, Raws
    <3>3. Usable(settings.net, settings.list[i].ip)
          /\ settings.list[i].ip # settings.net.first
          /\ Usable(settings.rawNet, settings.list[i].raw)
      BY <3>2 DEF Sound, Valid, Distinct
    <3>4. settings.list[i].ip \in Room(settings.net)
      <4>1. PICK f \in Int, l \in Int, a \in Int :
                f = settings.net.first /\ l = settings.net.last
                /\ a = settings.list[i].ip /\ settings.net.gateway = f + 1
        BY <2>1, <3>1 DEF Network, Profile, Sound
      <4>2. a \in f .. l /\ a # f + 1 /\ a # l /\ a # f
        BY <3>3, <4>1 DEF Usable
      <4>3. a \in f + 1 + 1 .. l - 1
        BY <4>2
      <4>4. QED
        BY <4>1, <4>3 DEF Room
    <3>5. QED
      BY <3>1, <3>3, <3>4 DEF Profile
  <2>3. \A i \in DOMAIN live : live[i] \in Profile
    BY ElementOfSeq, LenProperties DEF Types
  <2>4. QED
    BY <2>2, <2>3 DEF TypeOK, Types
<1>2. QED
  BY <1>1, Invariance, PTL

(* While the interface is up the kernel routes the address of every        *)
(* configuration that GETCONF has handed out to its key (peerForProfile,   *)
(* restoreWireGuardPeers, AddPeer), whatever saves, restarts, failures and *)
(* other devices did and whenever in a restart it was handed out, unless   *)
(* another profile has its peer at the same address.                       *)
THEOREM ConfigurationsHold == Spec => []ConfigurationsWork
<1>1. Inv => ConfigurationsWork
  <2> SUFFICES ASSUME Inv, serving, NEW d \in Devices, given[d] # NoPeer,
                      \A i \in Ids \ {given[d].id} :
                          store[i] # NoPeer => store[i].ip # given[d].ip
               PROVE  /\ given[d].ip \in DOMAIN routes
                      /\ routes[given[d].ip] = given[d].key
    BY DEF ConfigurationsWork
  <2> USE DEF Inv
  <2>1. given[d].id \in Ids /\ store[given[d].id] = given[d]
    BY PeersExist DEF Types, Stored
  <2>2. given[d].ip \in DOMAIN routes
    BY DEF Routed
  <2>3. PICK j \in Ids :
            /\ store[j] # NoPeer /\ store[j].ip = given[d].ip
            /\ store[j].key = routes[given[d].ip]
    BY <2>2 DEF Routed
  <2>4. j = given[d].id
    BY <2>3
  <2>5. QED
    BY <2>1, <2>2, <2>3, <2>4
<1>2. QED
  BY <1>1, Invariance, PTL

(* No save moves an address that it hands in unchanged and gives to one    *)
(* profile only (NormalizeProfiles), in any network and any list.          *)
THEOREM AddressesAreKept == Spec => KeptAddresses
<1> DEFINE Keeps ==
        request # NoRequest /\ settings' # settings =>
            StaysPut("net", "ip") /\ StaysPut("rawNet", "raw")
<1>1. ASSUME Inv, [Next]_vars PROVE [Keeps]_vars
  <2> SUFFICES ASSUME request # NoRequest, settings' # settings
               PROVE  StaysPut("net", "ip") /\ StaysPut("rawNet", "raw")
    OBVIOUS
  <2> USE <1>1 DEF Inv
  <2>1. ApplySave
    BY DEF Next, vars, cfgVars, ReceiveSave, Reconcile, Toggle, Serve, Restart,
           LookUpPeer, AddPeer, AddPeerFails
  <2>2. settings' = Normalize(request)
    BY <2>1 DEF ApplySave
  <2>3. request \in Settings
    BY Requested
  <2>4. /\ request.list \in Seq(Profile)
        /\ Ips(request.list) \in Seq(Int) /\ Raws(request.list) \in Seq(Int)
        /\ DOMAIN Ips(request.list) = DOMAIN request.list
        /\ DOMAIN Raws(request.list) = DOMAIN request.list
    BY <2>3, Addresses DEF Settings
  <2>5. /\ DOMAIN settings'.list = DOMAIN request.list
        /\ Ips(settings'.list) = Fill(request.net, Ips(request.list))
        /\ Raws(settings'.list) = Fill(request.rawNet, Raws(request.list))
    BY <2>2, <2>3, Normalized
  <2>6. StaysPut("net", "ip")
    <3> SUFFICES ASSUME NEW i \in DOMAIN settings.list,
                        NEW j \in DOMAIN request.list,
                        request.net = settings.net,
                        request.list[j].ip = settings.list[i].ip,
                        \A k \in DOMAIN request.list \ {j} :
                            request.list[k].ip # request.list[j].ip
                 PROVE  settings'.list[j].ip = settings.list[i].ip
      BY DEF StaysPut
    <3>1. Usable(request.net, Ips(request.list)[j])
      BY DEF Sound, Valid, Distinct, Ips
    <3>2. \A k \in DOMAIN Ips(request.list) \ {j} :
              Ips(request.list)[k] # Ips(request.list)[j]
      BY DEF Ips
    <3>3. Fill(request.net, Ips(request.list))[j] = Ips(request.list)[j]
      BY <2>4, <3>1, <3>2, KeepsUsable
    <3>4. QED
      BY <2>5, <3>3 DEF Ips
  <2>7. StaysPut("rawNet", "raw")
    <3> SUFFICES ASSUME NEW i \in DOMAIN settings.list,
                        NEW j \in DOMAIN request.list,
                        request.rawNet = settings.rawNet,
                        request.list[j].raw = settings.list[i].raw,
                        \A k \in DOMAIN request.list \ {j} :
                            request.list[k].raw # request.list[j].raw
                 PROVE  settings'.list[j].raw = settings.list[i].raw
      BY DEF StaysPut
    <3>1. Usable(request.rawNet, Raws(request.list)[j])
      BY DEF Sound, Distinct, Raws
    <3>2. \A k \in DOMAIN Raws(request.list) \ {j} :
              Raws(request.list)[k] # Raws(request.list)[j]
      BY DEF Raws
    <3>3. Fill(request.rawNet, Raws(request.list))[j] = Raws(request.list)[j]
      BY <2>4, <3>1, <3>2, KeepsUsable
    <3>4. QED
      BY <2>5, <3>3 DEF Raws
  <2>8. QED
    BY <2>6, <2>7
<1>2. QED
  BY <1>1, Invariance, PTL DEF Spec, KeptAddresses

(* A save whose profiles have different IDs is refused for its addresses   *)
(* only when the network has too few, or a profile names the network's own *)
(* (NormalizeProfiles followed by Validate), for any lists and networks.   *)
THEOREM RefusalsHaveAReason == Spec => RefusedForAReason
<1> DEFINE Reason ==
        \/ Cardinality(IdsOf(request.list)) # Len(request.list)
        \/ Len(request.list) > request.net.last - request.net.gateway - 1
        \/ \E j \in DOMAIN request.list :
               request.list[j].ip = request.net.first
      Justified == ApplySave /\ settings' # Normalize(request) => Reason
<1>1. ASSUME Inv PROVE Justified
  <2> SUFFICES ASSUME ApplySave, settings' # Normalize(request), ~Reason
               PROVE  FALSE
    OBVIOUS
  <2> USE <1>1 DEF Inv
  <2>1. request \in Requests /\ request \in Settings
    BY Requested DEF ApplySave
  <2>2. /\ request.list \in Seq(Profile)
        /\ request.net \in Network /\ request.rawNet \in Network
        /\ request.net.gateway = request.net.first + 1
        /\ request.rawNet.first <= request.rawNet.gateway
        /\ Len(request.list) <= Cardinality(Room(request.rawNet))
    BY <2>1, SettingsAssumption DEF Settings
  <2>3. /\ Ips(request.list) \in Seq(Int) /\ Raws(request.list) \in Seq(Int)
        /\ Len(Ips(request.list)) = Len(request.list)
        /\ Len(Raws(request.list)) = Len(request.list)
    BY <2>2, Addresses
  <2>4. request.net.first < request.net.gateway
        /\ Len(request.list) <= Cardinality(Room(request.net))
    <3>1. PICK f \in Int, l \in Int, g \in Int :
              f = request.net.first /\ l = request.net.last
              /\ g = request.net.gateway /\ g = f + 1
      BY <2>2 DEF Network
    <3>2. PICK m \in Nat : m = Len(request.list) /\ m <= l - g - 1
      BY <2>2, <3>1, LenProperties
    <3>3. Cardinality(g + 1 .. l - 1) =
              IF g + 1 > l - 1 THEN 0 ELSE l - 1 - (g + 1) + 1
      BY FS_Interval
    <3>4. m <= (IF g + 1 > l - 1 THEN 0 ELSE l - 1 - (g + 1) + 1)
      BY <3>2
    <3>5. f < g
      BY <3>1
    <3>6. QED
      BY <3>1, <3>2, <3>3, <3>4, <3>5 DEF Room
  <2>5. \A i \in DOMAIN Ips(request.list) :
            Ips(request.list)[i] # request.net.first
    BY DEF Ips
  <2>6. Valid(request.net, Fill(request.net, Ips(request.list)))
    BY <2>2, <2>3, <2>4, <2>5, FillsValidly
  <2>7. Distinct(request.rawNet, Fill(request.rawNet, Raws(request.list)))
    BY <2>2, <2>3, FillsDistinctly
  <2>8. Cardinality(IdsOf(Normalize(request).list)) = Len(Normalize(request).list)
    <3>1. IdsOf(Normalize(request).list) = IdsOf(request.list)
      BY <2>1, Normalized DEF IdsOf
    <3>2. QED
      BY <2>1, <3>1, Normalized
  <2>9. Validates(Normalize(request))
    BY <2>1, <2>6, <2>7, <2>8, Normalized DEF Validates
  <2>10. QED
    BY <2>9 DEF ApplySave
<1>2. Inv => [Justified]_vars
  BY <1>1
<1>3. QED
  BY <1>2, Invariance, PTL DEF RefusedForAReason
=============================================================================
