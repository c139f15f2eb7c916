----------------------------- MODULE RelaysProofs -----------------------------
(* Proofs about Relays, for any finite set of relays and any chunk.        *)
EXTENDS Relays, SequenceTheorems, FiniteSetTheorems, TLAPS

(***************************************************************************)
(* The inductive invariant                                                 *)
(***************************************************************************)
New  == {w \in Relays : stage[w] = "new"}
Gone == {w \in Relays : stage[w] \in {"removed", "left"}}

Types ==
    /\ items \in Seq(Relays)
    /\ rr \in Nat /\ chunk \in 0 .. Chunk
    /\ hand \in Relays \cup {Nobody, Stopped}
    /\ stage \in [Relays -> {"new", "member", "removed", "left"}]
    /\ queued \in [Relays -> 0 .. SendCap]
    /\ writer \in [Relays -> {"none", "idle", "writing", "over"}]
    /\ passed \in [Relays -> Nat] /\ late \in [Relays -> Nat]

(* The list holds each member once, and the position points into it.       *)
Listed ==
    /\ \A i, j \in 1 .. Len(items) : items[i] = items[j] => i = j
    /\ \A w \in Relays :
          stage[w] = "member" <=> \E i \in 1 .. Len(items) : items[i] = w
    /\ items # <<>> => rr < Len(items)
    /\ items = <<>> => rr = 0 /\ chunk = 0

(* Every relay is new, in the list or gone.                                *)
Counted ==
    Len(items) + Cardinality(New) + Cardinality(Gone) = Cardinality(Relays)

(* What is left of this turn; the turns, and the packets, before the one   *)
(* of the relay at i.                                                      *)
Left == IF chunk = 0 THEN Chunk ELSE chunk

Ahead(i) == IF i - 1 >= rr THEN i - 1 - rr ELSE i - 1 - rr + Len(items)

Until(ahead, left) == IF ahead = 0 THEN 0 ELSE left + Chunk * (ahead - 1)

Wait(i) == Until(Ahead(i), Left)

(* The packets that have passed a relay, those it still has to wait for, a *)
(* chunk for each of the m relays that may join before its turn, and what  *)
(* it may lose when the others, of n in the list, leave one after another. *)
Within(p, w, n, m) ==
    2 * p + 2 * w + 2 * (Chunk * m) + Chunk * ((n + m - 1) * (n + m - 2))
        <= Chunk * ((Cardinality(Relays) - 1) * Cardinality(Relays))

Bounded(i) == Within(passed[items[i]], Wait(i), Len(items), Cardinality(New))

Turns == \A i \in 1 .. Len(items) : Bounded(i)

(* Only a relay that the downlink held when it was removed gets a packet   *)
(* late, and it is then held no more.                                      *)
Lates ==
    \A w \in Relays :
        /\ late[w] <= 1
        /\ late[w] = 1 => w \in Gone /\ hand # w
        /\ hand = w => w \notin New
        /\ w \notin Members => passed[w] = 0

Inv == Types /\ Listed /\ Counted /\ Turns /\ Lates

(***************************************************************************)
(* Arithmetic                                                              *)
(***************************************************************************)
LEMMA TimesMonotonic ==
    ASSUME NEW c \in Nat, NEW a \in Nat, NEW b \in Nat, a <= b
    PROVE  c * a \in Nat /\ c * b \in Nat /\ c * a <= c * b
OBVIOUS

(* The bound of a relay that has just been served, or has just joined.     *)
LEMMA FreshBound ==
    ASSUME NEW c \in Nat, NEW n \in Nat, NEW m \in Nat, NEW t \in Nat,
           NEW w \in Nat, n >= 1, n + m <= t, w <= c * (n - 1)
    PROVE  2 * w + 2 * (c * m) + c * ((n + m - 1) * (n + m - 2))
               <= c * ((t - 1) * t)
<1> DEFINE s == n + m - 1
<1>1. s \in Nat /\ s <= t - 1 /\ s + 1 <= t
  OBVIOUS
<1>2. c * (n - 1) + c * m = c * s
  OBVIOUS
<1>3. 2 * (c * s) + c * (s * (s - 1)) = c * (s * (s + 1))
  OBVIOUS
<1>4. s * (s + 1) <= (t - 1) * t /\ s * (s + 1) \in Nat /\ (t - 1) * t \in Nat
  BY <1>1
<1>5. c * (s * (s + 1)) <= c * ((t - 1) * t)
  BY <1>4, TimesMonotonic
<1>6. c * (n - 1) \in Int /\ c * m \in Int /\ c * s \in Int
  OBVIOUS
<1>7. 2 * w + 2 * (c * m) <= 2 * (c * s)
  BY <1>2, <1>6
<1>8. s * (s - 1) = (n + m - 1) * (n + m - 2)
  OBVIOUS
<1>9. c * (s * (s - 1)) \in Int /\ c * (s * (s + 1)) \in Int /\ c * ((t - 1) * t) \in Int
  OBVIOUS
<1> HIDE DEF s
<1>10. QED
  BY <1>3, <1>5, <1>6, <1>7, <1>8, <1>9

(* A leaving relay pays for all the turns that those behind it may lose.   *)
LEMMA LeaveBound ==
    ASSUME NEW c \in Nat, NEW n \in Nat, NEW m \in Nat, NEW w \in Nat,
           n >= 1, w <= c * (n - 1)
    PROVE  2 * w + c * ((n + m - 1) * (n + m - 2))
               <= c * ((n + m) * (n + m - 1))
<1> DEFINE s == n + m - 1
<1>1. s \in Nat /\ n - 1 \in Nat /\ n - 1 <= s
  OBVIOUS
<1>2. c * (n - 1) <= c * s
  BY <1>1, TimesMonotonic
<1>3. 2 * (c * s) + c * (s * (s - 1)) = c * (s * (s + 1))
  OBVIOUS
<1>4. s * (s - 1) = (n + m - 1) * (n + m - 2)
      /\ s * (s + 1) = (n + m) * (n + m - 1)
  OBVIOUS
<1>5. c * (n - 1) \in Int /\ c * s \in Int /\ c * (s * (s - 1)) \in Int
      /\ c * (s * (s + 1)) \in Int
  OBVIOUS
<1> HIDE DEF s
<1>6. QED
  BY <1>2, <1>3, <1>4, <1>5

(* A relay that has just been served, or has just joined.                  *)
LEMMA FreshWithin ==
    ASSUME NEW n \in Nat, NEW m \in Nat, NEW w \in Nat, n >= 1,
           n + m <= Cardinality(Relays), w <= Chunk * (n - 1)
    PROVE  Within(0, w, n, m)
<1>1. Cardinality(Relays) \in Nat /\ Chunk \in Nat
  BY RelaysAssumption, FS_CardinalityType
<1>2. 2 * w + 2 * (Chunk * m) + Chunk * ((n + m - 1) * (n + m - 2))
         <= Chunk * ((Cardinality(Relays) - 1) * Cardinality(Relays))
  BY <1>1, FreshBound
<1>3. 2 * 0 + 2 * w = 2 * w
  OBVIOUS
<1>4. QED
  BY <1>2, <1>3 DEF Within

LEMMA JoinWithin ==
    ASSUME NEW n \in Nat, NEW m \in Nat, NEW p \in Nat, NEW w \in Nat,
           NEW x \in Nat, m >= 1, x <= w + Chunk, Within(p, w, n, m)
    PROVE  Within(p, x, n + 1, m - 1)
<1>1. Cardinality(Relays) \in Nat /\ Chunk \in Nat
  BY RelaysAssumption, FS_CardinalityType
<1> DEFINE rest == Chunk * ((n + m - 1) * (n + m - 2))
           bound == Chunk * ((Cardinality(Relays) - 1) * Cardinality(Relays))
<1>2. 2 * p + 2 * w + 2 * (Chunk * m) + rest <= bound
  BY DEF Within
<1>3. Chunk * (m - 1) = Chunk * m - Chunk
  BY <1>1
<1>4. rest \in Int /\ bound \in Int /\ Chunk * m \in Int
  BY <1>1
<1>5. (n + 1) + (m - 1) - 1 = n + m - 1 /\ (n + 1) + (m - 1) - 2 = n + m - 2
  OBVIOUS
<1> HIDE DEF rest, bound
<1>6. 2 * p + 2 * x + 2 * (Chunk * (m - 1)) + rest <= bound
  BY <1>1, <1>2, <1>3, <1>4
<1>7. QED
  BY <1>5, <1>6 DEF Within, rest, bound

LEMMA LeaveWithin ==
    ASSUME NEW n \in Nat, NEW m \in Nat, NEW p \in Nat, NEW w \in Nat,
           NEW x \in Nat, n >= 1, x <= Chunk * (n - 1), Within(p, w, n + 1, m)
    PROVE  Within(p, x, n, m)
<1>1. Cardinality(Relays) \in Nat /\ Chunk \in Nat
  BY RelaysAssumption, FS_CardinalityType
<1> DEFINE rest == Chunk * ((n + m - 1) * (n + m - 2))
           before == Chunk * ((n + m) * (n + m - 1))
           bound == Chunk * ((Cardinality(Relays) - 1) * Cardinality(Relays))
<1>2. (n + 1) + m - 1 = n + m /\ (n + 1) + m - 2 = n + m - 1
  OBVIOUS
<1>3. 2 * p + 2 * w + 2 * (Chunk * m) + before <= bound
  BY <1>2 DEF Within
<1>4. 2 * x + rest <= before
  BY <1>1, LeaveBound
<1>5. rest \in Int /\ before \in Int /\ bound \in Int /\ Chunk * m \in Int
  BY <1>1
<1> HIDE DEF rest, before, bound
<1>6. 2 * p + 2 * x + 2 * (Chunk * m) + rest <= bound
  BY <1>3, <1>4, <1>5
<1>7. QED
  BY <1>6 DEF Within, rest, bound

(* A packet for the relay before it brings its turn closer.                *)
LEMMA CloserWithin ==
    ASSUME NEW n \in Nat, NEW m \in Nat, NEW p \in Nat, NEW w \in Nat,
           NEW x \in Nat, w = x + 1, Within(p, w, n, m)
    PROVE  Within(p + 1, x, n, m)
<1>1. 2 * (p + 1) + 2 * x = 2 * p + 2 * w
  OBVIOUS
<1>2. QED
  BY <1>1 DEF Within

LEMMA WithinBound ==
    ASSUME NEW n \in Nat, NEW m \in Nat, NEW p \in Nat, NEW w \in Nat,
           n >= 1, Within(p, w, n, m)
    PROVE  2 * p <= Chunk * ((Cardinality(Relays) - 1) * Cardinality(Relays))
<1>1. Cardinality(Relays) \in Nat /\ Chunk \in Nat
  BY RelaysAssumption, FS_CardinalityType
<1> DEFINE rest == Chunk * ((n + m - 1) * (n + m - 2))
           bound == Chunk * ((Cardinality(Relays) - 1) * Cardinality(Relays))
<1>2. 2 * p + 2 * w + 2 * (Chunk * m) + rest <= bound
  BY DEF Within
<1>3. (n + m - 1) * (n + m - 2) \in Nat
  <2> DEFINE k == n + m - 1
  <2>1. k \in Nat /\ (k = 0 \/ k - 1 \in Nat)
    OBVIOUS
  <2>2. k * (k - 1) \in Nat
    BY <2>1
  <2>3. k - 1 = n + m - 2
    OBVIOUS
  <2>4. QED
    BY <2>2, <2>3
<1>4. rest \in Nat /\ bound \in Int /\ Chunk * m \in Nat
  BY <1>1, <1>3
<1> HIDE DEF rest, bound
<1>5. QED
  BY <1>2, <1>4 DEF bound

LEMMA UntilBound ==
    ASSUME NEW n \in Nat, NEW a \in 0 .. n, NEW l \in 1 .. Chunk
    PROVE  Until(a, l) \in Nat /\ Until(a, l) <= Chunk * n
<1> USE RelaysAssumption
<1>1. CASE a = 0
  BY <1>1 DEF Until
<1>2. CASE a # 0
  <2>1. l + Chunk * (a - 1) <= Chunk * a /\ Chunk * (a - 1) \in Nat
    BY <1>2
  <2>2. Chunk * a <= Chunk * n
    BY TimesMonotonic
  <2>3. Chunk * a \in Int /\ Chunk * n \in Int
    OBVIOUS
  <2>4. QED
    BY <1>2, <2>1, <2>2, <2>3 DEF Until
<1>3. QED
  BY <1>1, <1>2

(***************************************************************************)
(* Removing an element                                                     *)
(***************************************************************************)
LEMMA RemoveFirstAt ==
    ASSUME NEW S, NEW s \in Seq(S), NEW j \in 1 .. Len(s),
           \A i \in 1 .. Len(s) : s[i] = s[j] => i = j
    PROVE  /\ RemoveFirst(s, s[j]) \in Seq(S)
           /\ Len(RemoveFirst(s, s[j])) = Len(s) - 1
           /\ \A i \in 1 .. Len(s) - 1 :
                 RemoveFirst(s, s[j])[i] = IF i < j THEN s[i] ELSE s[i + 1]
<1> DEFINE front == SubSeq(s, 1, j - 1)
           back  == SubSeq(s, j + 1, Len(s))
<1>1. Len(s) \in Nat /\ \A i \in 1 .. Len(s) : s[i] \in S
  BY LenProperties, ElementOfSeq
<1>2. SelectInSeq(s, LAMBDA v : v = s[j]) = j
  <2>1. {i \in 1 .. Len(s) : s[i] = s[j]} = {j}
    OBVIOUS
  <2>2. Min({j}) = j
    BY <1>1 DEF Min
  <2>3. QED
    BY <2>1, <2>2 DEF SelectInSeq
<1>3. RemoveFirst(s, s[j]) = front \o back
  BY <1>2 DEF RemoveFirst, RemoveAt
<1>4. /\ front \in Seq(S) /\ Len(front) = j - 1
      /\ \A i \in 1 .. j - 1 : front[i] = s[i]
  <2>1. \A i \in 1 .. j - 1 : s[i] \in S
    BY <1>1
  <2>2. 1 \in Int /\ j - 1 \in Int /\ (j - 1) - 1 + 1 = j - 1
        /\ \A i \in Int : 1 + i - 1 = i
    OBVIOUS
  <2>3. QED
    BY <2>1, <2>2, SubSeqProperties
<1>5. /\ back \in Seq(S) /\ Len(back) = Len(s) - j
      /\ \A i \in 1 .. Len(s) - j : back[i] = s[i + j]
  <2>1. \A i \in j + 1 .. Len(s) : s[i] \in S
    BY <1>1
  <2>2. j + 1 \in Int /\ Len(s) \in Int /\ Len(s) - (j + 1) + 1 = Len(s) - j
        /\ \A i \in Int : j + 1 + i - 1 = i + j
    BY <1>1
  <2>3. /\ back \in Seq(S)
        /\ Len(back) = IF j + 1 <= Len(s) THEN Len(s) - (j + 1) + 1 ELSE 0
        /\ \A i \in 1 .. Len(s) - (j + 1) + 1 : back[i] = s[j + 1 + i - 1]
    BY <2>1, <2>2, SubSeqProperties
  <2> HIDE DEF back
  <2>4. Len(back) = Len(s) - j
    BY <1>1, <2>3
  <2>5. ASSUME NEW i \in 1 .. Len(s) - j PROVE back[i] = s[i + j]
    <3>1. i \in 1 .. Len(s) - (j + 1) + 1 /\ j + 1 + i - 1 = i + j
      BY <1>1
    <3>2. QED
      BY <2>3, <3>1
  <2>6. QED
    BY <2>3, <2>4, <2>5
<1> HIDE DEF front, back
<1>6. /\ front \o back \in Seq(S)
      /\ Len(front \o back) = Len(front) + Len(back)
      /\ \A i \in 1 .. Len(front) + Len(back) : (front \o back)[i] =
            IF i <= Len(front) THEN front[i] ELSE back[i - Len(front)]
  BY <1>4, <1>5, ConcatProperties
<1>7. ASSUME NEW i \in 1 .. Len(s) - 1
      PROVE  (front \o back)[i] = IF i < j THEN s[i] ELSE s[i + 1]
  <2>1. CASE i < j
    BY <1>1, <1>4, <1>5, <1>6, <2>1
  <2>2. CASE i >= j
    <3>1. (front \o back)[i] = back[i - (j - 1)]
      BY <1>1, <1>4, <1>5, <1>6, <2>2
    <3>2. i - (j - 1) \in 1 .. Len(s) - j /\ i - (j - 1) + j = i + 1
      BY <1>1, <2>2
    <3>3. QED
      BY <1>5, <2>2, <3>1, <3>2
  <2>3. i < j \/ i >= j
    BY <1>1
  <2>4. QED
    BY <2>1, <2>2, <2>3
<1>8. QED
  BY <1>1, <1>3, <1>4, <1>5, <1>6, <1>7

(***************************************************************************)
(* Facts of any state                                                      *)
(***************************************************************************)
LEMMA Counts ==
    /\ IsFiniteSet(New) /\ IsFiniteSet(Gone)
    /\ Cardinality(Relays) \in Nat
    /\ Cardinality(New) \in Nat /\ Cardinality(Gone) \in Nat
<1>1. New \in SUBSET Relays /\ Gone \in SUBSET Relays
  BY DEF New, Gone
<1>2. QED
  BY <1>1, RelaysAssumption, FS_Subset, FS_CardinalityType

LEMMA Known ==
    ASSUME Types, Listed
    PROVE  /\ Len(items) \in Nat /\ (items = <<>> <=> Len(items) = 0)
           /\ \A i \in 1 .. Len(items) :
                 items[i] \in Relays /\ stage[items[i]] = "member"
           /\ Left \in 1 .. Chunk
           /\ \A i \in 1 .. Len(items) :
                 /\ Ahead(i) \in 0 .. Len(items) - 1
                 /\ Wait(i) \in Nat /\ Wait(i) <= Chunk * (Len(items) - 1)
<1>1. Len(items) \in Nat /\ (items = <<>> <=> Len(items) = 0)
  BY EmptySeq, LenProperties DEF Types
<1>2. \A i \in 1 .. Len(items) : items[i] \in Relays
  BY ElementOfSeq DEF Types
<1>3. Left \in 1 .. Chunk
  BY RelaysAssumption DEF Types, Left
<1>4. ASSUME NEW i \in 1 .. Len(items) PROVE Ahead(i) \in 0 .. Len(items) - 1
  <2>1. rr \in Nat /\ rr < Len(items)
    BY <1>1 DEF Types, Listed
  <2>2. QED
    BY <1>1, <2>1 DEF Ahead
<1>5. ASSUME NEW i \in 1 .. Len(items)
      PROVE  Wait(i) \in Nat /\ Wait(i) <= Chunk * (Len(items) - 1)
  <2>1. Len(items) - 1 \in Nat
    BY <1>1
  <2>2. QED
    BY <1>3, <1>4, <2>1, UntilBound DEF Wait
<1>6. QED
  BY <1>1, <1>2, <1>3, <1>4, <1>5 DEF Listed

LEMMA InitInv == Init => Inv
<1> SUFFICES ASSUME Init PROVE Inv
  OBVIOUS
<1> USE DEF Init
<1>1. items = <<>> /\ Len(items) = 0 /\ <<>> \in Seq(Relays)
  BY EmptySeq
<1>2. New = Relays /\ Gone = {} /\ Members = {}
  BY DEF New, Gone, Members
<1>3. Types
  BY <1>1, RelaysAssumption DEF Types
<1>4. Listed
  BY <1>1 DEF Listed
<1>5. Counted
  BY <1>1, <1>2, Counts, FS_EmptySet DEF Counted
<1>6. Turns
  BY <1>1 DEF Turns
<1>7. Lates
  BY <1>2, RelaysAssumption DEF Lates, Nobody
<1>8. QED
  BY <1>3, <1>4, <1>5, <1>6, <1>7 DEF Inv

(***************************************************************************)
(* The sessions                                                            *)
(***************************************************************************)
LEMMA AddInv ==
    ASSUME Inv, NEW w \in Relays, Add(w)
    PROVE  Inv'
<1> USE DEF Inv
<1>1. /\ stage[w] = "new" /\ stage' = [stage EXCEPT ![w] = "member"]
      /\ items' = Append(items, w)
      /\ writer' = [writer EXCEPT ![w] = "idle"]
      /\ UNCHANGED <<rr, chunk, hand, queued, passed, late>>
  BY DEF Add
<1>2. /\ stage'[w] = "member"
      /\ \A v \in Relays \ {w} : stage'[v] = stage[v]
  BY <1>1 DEF Types
<1>0. PICK n \in Nat : n = Len(items)
  BY Known
<1> USE <1>0
<1>3. /\ items' \in Seq(Relays) /\ items' # <<>> /\ Len(items') = n + 1
      /\ \A i \in 1 .. n : items'[i] = items[i]
      /\ items'[n + 1] = w
  BY <1>1, AppendProperties DEF Types
<1>4. n \in Nat /\ (items = <<>> <=> n = 0)
      /\ \A i \in 1 .. n : items[i] \in Relays /\ stage[items[i]] = "member"
  BY Known
<1>5. Types'
  BY <1>1, <1>3 DEF Types
<1>6. Listed'
  <2>1. \A i \in 1 .. n + 1 : i = n + 1 \/ i \in 1 .. n
    BY <1>4
  <2>2. \A i \in 1 .. n : items'[i] # w
    BY <1>1, <1>3, <1>4
  <2>3. \A i, j \in 1 .. n + 1 : items'[i] = items'[j] => i = j
    BY <1>3, <2>1, <2>2 DEF Listed
  <2>4. ASSUME NEW v \in Relays
        PROVE  stage'[v] = "member" <=> \E i \in 1 .. n + 1 : items'[i] = v
    <3>1. CASE v = w
      BY <1>2, <1>3, <1>4, <3>1
    <3>2. CASE v # w
      <4>1. stage[v] = "member" <=> \E i \in 1 .. n : items[i] = v
        BY DEF Listed
      <4>2. 1 .. n \subseteq 1 .. n + 1
        BY <1>4
      <4>3. QED
        BY <1>2, <1>3, <2>1, <3>2, <4>1, <4>2
    <3>3. QED
      BY <3>1, <3>2
  <2>5. rr' < n + 1
    BY <1>1, <1>4 DEF Listed, Types
  <2>6. QED
    BY <1>3, <2>3, <2>4, <2>5 DEF Listed
<1>7. /\ New' = New \ {w} /\ w \in New /\ Gone' = Gone
      /\ Cardinality(New') = Cardinality(New) - 1
  <2>1. New' = New \ {w} /\ w \in New /\ Gone' = Gone
    BY <1>1, <1>2 DEF New, Gone
  <2>2. QED
    BY <2>1, Counts, FS_RemoveElement
<1>8. Counted'
  BY <1>3, <1>4, <1>7, Counts DEF Counted
<1>9. Turns'
  <2>0. PICK m \in Nat : m = Cardinality(New)
    BY Counts
  <2> USE <2>0
  <2>1. Cardinality(New') = m - 1 /\ m - 1 \in Nat /\ m >= 1
        /\ n + m <= Cardinality(Relays)
    <3>1. m # 0
      BY <1>7, Counts, FS_EmptySet
    <3>2. QED
      BY <1>4, <1>7, <3>1, Counts DEF Counted
  <2>2. Left' = Left /\ Left \in 1 .. Chunk /\ Chunk \in Nat
    BY <1>1, Known, RelaysAssumption DEF Left
  <2>3. ASSUME NEW i \in 1 .. n PROVE Bounded(i)'
    <3>1. Ahead(i)' = Ahead(i) \/ (Ahead(i)' = Ahead(i) + 1 /\ Ahead(i) # 0)
      <4>1. rr \in Nat /\ rr < n
        BY <1>4 DEF Types, Listed
      <4>2. QED
        BY <1>1, <1>3, <1>4, <4>1 DEF Ahead
    <3>2. Ahead(i) \in Nat /\ Wait(i) \in Nat
      BY Known
    <3>3. Wait(i)' \in Nat /\ Wait(i)' <= Wait(i) + Chunk
      <4> DEFINE a == Ahead(i)
      <4>1. Wait(i) = Until(a, Left) /\ Wait(i)' = Until(Ahead(i)', Left)
        BY <2>2 DEF Wait
      <4>2. a \in Nat
        BY <3>2
      <4>3. Until(a, Left) \in Nat
        BY <3>2 DEF Wait
      <4> HIDE DEF a
      <4>4. a # 0 => Until(a + 1, Left) = Until(a, Left) + Chunk
        BY <2>2, <4>2 DEF Until
      <4>5. QED
        BY <2>2, <3>1, <4>1, <4>3, <4>4 DEF a
    <3>4. items'[i] = items[i] /\ passed[items[i]] \in Nat
      BY <1>3, <1>4 DEF Types
    <3>5. Within(passed[items[i]], Wait(i), n, m)
      BY DEF Turns, Bounded
    <3>6. Within(passed[items[i]], Wait(i)', n + 1, m - 1)
      BY <1>4, <2>1, <3>2, <3>3, <3>4, <3>5, JoinWithin
    <3>7. QED
      BY <1>1, <1>3, <2>1, <3>4, <3>6 DEF Bounded
  <2>4. Bounded(n + 1)'
    <3>1. passed'[items'[n + 1]] = 0
      BY <1>1, <1>3 DEF Lates, Members
    <3>2. Ahead(n + 1)' \in 0 .. n
      <4>1. rr \in Nat /\ rr <= n
        BY <1>4 DEF Types, Listed
      <4>2. QED
        BY <1>1, <1>3, <1>4, <4>1 DEF Ahead
    <3>3. Wait(n + 1)' \in Nat /\ Wait(n + 1)' <= Chunk * n
      BY <2>2, <3>2, UntilBound DEF Wait
    <3>4. Within(0, Wait(n + 1)', n + 1, m - 1)
      <4>1. n + 1 \in Nat /\ n + 1 >= 1 /\ n + 1 + (m - 1) <= Cardinality(Relays)
            /\ n + 1 - 1 = n
        BY <1>4, <2>1, Counts
      <4>2. QED
        BY <2>1, <3>3, <4>1, FreshWithin
    <3>5. QED
      BY <1>3, <2>1, <3>1, <3>4 DEF Bounded
  <2>5. \A i \in 1 .. n + 1 : i = n + 1 \/ i \in 1 .. n
    BY <1>4
  <2>6. QED
    BY <1>3, <2>3, <2>4, <2>5 DEF Turns
<1>10. Lates'
  BY <1>1, <1>2, <1>7 DEF Lates, Members, New, Gone
<1>11. QED
  BY <1>5, <1>6, <1>8, <1>9, <1>10

LEMMA LeaveInv ==
    ASSUME Inv, NEW w \in Relays, Leave(w)
    PROVE  Inv'
<1> USE DEF Inv
<1>1. /\ stage[w] = "member" /\ stage' = [stage EXCEPT ![w] = "removed"]
      /\ items' = RemoveFirst(items, w)
      /\ rr' = Position(items')
      /\ chunk' = IF items' = <<>> THEN 0 ELSE chunk
      /\ passed' = [passed EXCEPT ![w] = 0]
      /\ UNCHANGED <<hand, queued, writer, late>>
  BY DEF Leave, Rest
<1>2. /\ stage'[w] = "removed"
      /\ \A v \in Relays \ {w} : stage'[v] = stage[v]
  BY <1>1 DEF Types
<1>3. PICK n \in Nat : n + 1 = Len(items)
  <2>1. \E i \in 1 .. Len(items) : items[i] = w
    BY <1>1 DEF Listed
  <2>2. Len(items) \in Nat /\ Len(items) # 0
    BY <2>1, Known
  <2>3. Len(items) - 1 \in Nat /\ Len(items) - 1 + 1 = Len(items)
    BY <2>2
  <2>4. QED
    BY <2>3
<1>4. PICK j \in 1 .. n + 1 : items[j] = w
  BY <1>1, <1>3 DEF Listed
<1> DEFINE at(i) == IF i < j THEN i ELSE i + 1
<1>5. /\ items' \in Seq(Relays) /\ Len(items') = n
      /\ \A i \in 1 .. n : items'[i] = items[at(i)]
  <2>1. /\ RemoveFirst(items, items[j]) \in Seq(Relays)
        /\ Len(RemoveFirst(items, items[j])) = Len(items) - 1
        /\ \A i \in 1 .. Len(items) - 1 :
              RemoveFirst(items, items[j])[i] =
                 IF i < j THEN items[i] ELSE items[i + 1]
    <3>1. j \in 1 .. Len(items)
      BY <1>3
    <3>2. \A i \in 1 .. Len(items) : items[i] = items[j] => i = j
      BY <3>1 DEF Listed
    <3>3. QED
      BY <3>1, <3>2, RemoveFirstAt DEF Types
  <2>2. Len(items) - 1 = n
    BY <1>3
  <2>3. QED
    BY <1>1, <1>4, <2>1, <2>2
<1>6. /\ \A i \in 1 .. n : at(i) \in 1 .. n + 1 /\ at(i) # j
      /\ \A i, k \in 1 .. n : at(i) = at(k) => i = k
      /\ \A k \in 1 .. n + 1 : k # j => \E i \in 1 .. n : at(i) = k
  <2>1. \A i \in 1 .. n : at(i) \in 1 .. n + 1 /\ at(i) # j
    OBVIOUS
  <2>2. \A i, k \in 1 .. n : at(i) = at(k) => i = k
    OBVIOUS
  <2>3. ASSUME NEW k \in 1 .. n + 1, k # j
        PROVE  \E i \in 1 .. n : at(i) = k
    <3>1. CASE k < j
      <4>1. k \in 1 .. n /\ at(k) = k
        BY <3>1
      <4>2. QED
        BY <4>1
    <3>2. CASE k > j
      <4>1. k - 1 \in 1 .. n /\ at(k - 1) = k
        BY <3>2
      <4>2. QED
        BY <4>1
    <3>3. QED
      BY <2>3, <3>1, <3>2
  <2>4. QED
    BY <2>1, <2>2, <2>3
<1> HIDE DEF at
<1>7. /\ rr' \in Nat /\ (n > 0 => rr' < n) /\ (n = 0 => rr' = 0)
      /\ chunk' \in 0 .. Chunk /\ (n = 0 => chunk' = 0)
      /\ (items' = <<>> <=> n = 0)
  <2>1. items' = <<>> <=> n = 0
    BY <1>5, EmptySeq
  <2>2. QED
    BY <1>1, <1>5, <2>1, RelaysAssumption DEF Position, Types
<1>8. Types'
  BY <1>1, <1>5, <1>7 DEF Types
<1>9. Listed'
  <2>1. \A i, k \in 1 .. n : items'[i] = items'[k] => i = k
    BY <1>3, <1>5, <1>6 DEF Listed
  <2>2. ASSUME NEW v \in Relays
        PROVE  stage'[v] = "member" <=> \E i \in 1 .. n : items'[i] = v
    <3>1. CASE v = w
      BY <1>2, <1>3, <1>4, <1>5, <1>6, <3>1 DEF Listed
    <3>2. CASE v # w
      <4>1. stage'[v] = "member" <=> \E i \in 1 .. n + 1 : items[i] = v
        BY <1>2, <1>3, <3>2 DEF Listed
      <4>2. QED
        BY <1>4, <1>5, <1>6, <3>2, <4>1
    <3>3. QED
      BY <3>1, <3>2
  <2>3. QED
    BY <1>5, <1>7, <2>1, <2>2 DEF Listed
<1>10. /\ New' = New /\ Gone' = Gone \cup {w} /\ w \notin Gone /\ w \notin New
       /\ Cardinality(Gone') = Cardinality(Gone) + 1
  <2>1. New' = New /\ Gone' = Gone \cup {w} /\ w \notin Gone /\ w \notin New
    BY <1>1, <1>2 DEF New, Gone
  <2>2. QED
    BY <2>1, Counts, FS_AddElement
<1>11. Counted'
  BY <1>3, <1>5, <1>10, Counts DEF Counted
<1>12. Turns'
  <2>1. PICK m \in Nat : m = Cardinality(New)
    BY Counts
  <2>2. ASSUME NEW i \in 1 .. n PROVE Bounded(i)'
    <3>1. PICK k \in 1 .. n + 1 : k # j /\ k = at(i)
      BY <1>6
    <3>2. items'[i] = items[k] /\ items[k] # w /\ items[k] \in Relays
      BY <1>3, <1>4, <1>5, <3>1, Known DEF Listed
    <3>3. passed'[items'[i]] = passed[items[k]] /\ passed[items[k]] \in Nat
      BY <1>1, <3>2 DEF Types
    <3>4. Within(passed[items[k]], Wait(k), n + 1, m)
      BY <1>3, <2>1 DEF Turns, Bounded
    <3>5. Wait(k) \in Nat
      BY <1>3, Known
    <3>6. Wait(i)' \in Nat /\ Wait(i)' <= Chunk * (n - 1)
      <4>1. Left' \in 1 .. Chunk
        BY <1>7, RelaysAssumption DEF Left
      <4>2. Ahead(i)' \in 0 .. n - 1
        <5>1. PICK r \in Nat : r = rr' /\ r < n
          BY <1>7
        <5>2. Ahead(i)' = IF i - 1 >= r THEN i - 1 - r ELSE i - 1 - r + n
          BY <1>5, <5>1 DEF Ahead
        <5>3. r < n
          BY <5>1
        <5>4. i - 1 >= r => i - 1 - r \in 0 .. n - 1
          BY <5>3
        <5>5. ~(i - 1 >= r) => i - 1 - r + n \in 0 .. n - 1
          BY <5>3
        <5>6. QED
          BY <5>2, <5>4, <5>5
      <4>3. n - 1 \in Nat
        OBVIOUS
      <4>4. QED
        BY <4>1, <4>2, <4>3, UntilBound DEF Wait
    <3>7. Within(passed[items[k]], Wait(i)', n, m)
      <4>1. n >= 1
        OBVIOUS
      <4>2. QED
        BY <2>1, <3>3, <3>4, <3>5, <3>6, <4>1, LeaveWithin
    <3>8. QED
      BY <1>5, <1>10, <2>1, <3>3, <3>7 DEF Bounded
  <2>3. QED
    BY <1>5, <2>2 DEF Turns
<1>13. Lates'
  BY <1>1, <1>2, <1>10 DEF Lates, Members, New, Gone, Types
<1>14. QED
  BY <1>8, <1>9, <1>11, <1>12, <1>13

(* What changes neither the list nor who is new leaves the turns as they   *)
(* are.                                                                    *)
LEMMA SameTurns ==
    ASSUME Inv, UNCHANGED <<items, rr, chunk, passed>>, New' = New
    PROVE  Turns'
<1>1. \A i \in 1 .. Len(items) : Wait(i)' = Wait(i)
  BY DEF Wait, Left, Ahead
<1>2. QED
  BY <1>1 DEF Inv, Turns, Bounded

LEMMA CloseDoneInv ==
    ASSUME Inv, NEW w \in Relays, CloseDone(w)
    PROVE  Inv'
<1> USE DEF Inv
<1>1. /\ stage[w] = "removed" /\ stage' = [stage EXCEPT ![w] = "left"]
      /\ UNCHANGED <<items, rr, chunk, hand, queued, writer, passed, late>>
  BY DEF CloseDone, Done, router, aux
<1>2. /\ stage'[w] = "left"
      /\ \A v \in Relays \ {w} : stage'[v] = stage[v]
  BY <1>1 DEF Types
<1>3. New' = New /\ Gone' = Gone /\ Members' = Members
  BY <1>1, <1>2 DEF New, Gone, Members
<1>4. Types'
  BY <1>1 DEF Types
<1>5. Listed' /\ Counted'
  BY <1>1, <1>2, <1>3 DEF Listed, Counted
<1>6. Turns' /\ Lates'
  BY <1>1, <1>3, SameTurns DEF Lates
<1>7. QED
  BY <1>4, <1>5, <1>6

(***************************************************************************)
(* The downlink and the writers                                            *)
(***************************************************************************)
LEMMA Modulo ==
    ASSUME NEW n \in Nat, NEW r \in Nat, r < n
    PROVE  r % n = r /\ (r + 1) % n = IF r + 1 = n THEN 0 ELSE r + 1
<1>1. \A a \in Nat : a < n => a % n = a
  OBVIOUS
<1>2. n % n = 0
  OBVIOUS
<1>3. QED
  BY <1>1, <1>2

LEMMA RouteInv ==
    ASSUME Inv, Route
    PROVE  Inv'
<1> USE DEF Inv
<1>1. PICK n \in Nat : n = Len(items) /\ n >= 1
  BY Known DEF Route
<1>2. PICK r \in Nat : r = rr /\ r < n
  BY <1>1, Known DEF Route, Types, Listed
<1>3. r % n = r /\ (r + 1) % n = IF r + 1 = n THEN 0 ELSE r + 1
  BY <1>2, Modulo
<1>4. PICK l \in 1 .. Chunk : l = Left
  BY Known
<1>5. PICK w \in Relays : w = items[r + 1] /\ stage[w] = "member"
  <2>1. r + 1 \in 1 .. n
    BY <1>2
  <2>2. QED
    BY <1>1, <2>1, Known
<1>6. /\ hand = Nobody /\ hand' = w
      /\ chunk' = l - 1
      /\ rr' = IF l = 1 THEN (IF r + 1 = n THEN 0 ELSE r + 1) ELSE r
      /\ passed' = [v \in Relays |->
                       IF v \in Members \ {w} THEN passed[v] + 1 ELSE 0]
      /\ UNCHANGED <<items, stage, queued, writer, late>>
  <2>1. (IF chunk <= 0 THEN Chunk ELSE chunk) = l
    BY <1>4 DEF Left, Types
  <2>2. (l - 1 = 0 <=> l = 1) /\ rr % Len(items) = r
    BY <1>1, <1>2, <1>3
  <2>3. NextTurn(r) = IF r + 1 = n THEN 0 ELSE r + 1
    BY <1>1, <1>3 DEF NextTurn
  <2>4. /\ hand = Nobody
        /\ hand' = items[(rr % Len(items)) + 1]
        /\ chunk' = (IF chunk <= 0 THEN Chunk ELSE chunk) - 1
        /\ rr' = IF (IF chunk <= 0 THEN Chunk ELSE chunk) - 1 = 0
                 THEN NextTurn(rr % Len(items)) ELSE rr
        /\ passed' = [v \in Relays |->
                         IF v \in Members \ {items[(rr % Len(items)) + 1]}
                         THEN passed[v] + 1 ELSE 0]
        /\ UNCHANGED <<items, stage, queued, writer, late>>
    BY DEF Route
  <2>5. items[(rr % Len(items)) + 1] = w
    BY <1>5, <2>2
  <2>6. rr' = IF l - 1 = 0 THEN NextTurn(r) ELSE rr
    BY <2>1, <2>2, <2>4
  <2>7. rr' = IF l = 1 THEN (IF r + 1 = n THEN 0 ELSE r + 1) ELSE r
    BY <1>2, <2>2, <2>3, <2>6
  <2>8. QED
    BY <2>1, <2>4, <2>5, <2>7
<1>7. New' = New /\ Gone' = Gone /\ Members' = Members /\ w \in Members
  BY <1>5, <1>6 DEF New, Gone, Members
<1>8. PICK q \in Nat : q = rr' /\ q < n
  BY <1>1, <1>2, <1>6
<1>9. Types'
  <2>1. passed' \in [Relays -> Nat] /\ chunk' \in 0 .. Chunk
    BY <1>6, RelaysAssumption DEF Types
  <2>2. QED
    BY <1>6, <1>8, <2>1 DEF Types
<1>10. Listed' /\ Counted'
  <2>1. items # <<>>
    BY <1>1, Known
  <2>2. QED
    BY <1>1, <1>6, <1>7, <1>8, <2>1 DEF Listed, Counted
<1>11. Turns'
  <2>1. PICK m \in Nat : m = Cardinality(New) /\ n + m <= Cardinality(Relays)
    BY <1>1, Counts DEF Counted
  <2>2. PICK k \in 1 .. Chunk : k = Left' /\ k = (IF l = 1 THEN Chunk ELSE l - 1)
    BY <1>6, RelaysAssumption DEF Left
  <2>3. ASSUME NEW i \in 1 .. n
        PROVE  Ahead(i)' = IF i - 1 >= q THEN i - 1 - q ELSE i - 1 - q + n
    BY <1>1, <1>6, <1>8 DEF Ahead
  <2>4. ASSUME NEW i \in 1 .. n
        PROVE  Ahead(i) = IF i - 1 >= r THEN i - 1 - r ELSE i - 1 - r + n
    BY <1>1, <1>2 DEF Ahead
  <2>5. ASSUME NEW i \in 1 .. n PROVE Ahead(i)' \in 0 .. n - 1
    <3>1. q < n
      BY <1>8
    <3>2. i - 1 >= q => i - 1 - q \in 0 .. n - 1
      BY <3>1
    <3>3. ~(i - 1 >= q) => i - 1 - q + n \in 0 .. n - 1
      BY <3>1
    <3>4. QED
      BY <2>3, <3>2, <3>3
  <2>6. ASSUME NEW i \in 1 .. n, i = r + 1 PROVE Bounded(i)'
    <3>1. items'[i] = w /\ passed'[w] = 0
      BY <1>5, <1>6, <2>6
    <3>2. n - 1 \in Nat /\ Left' \in 1 .. Chunk
      BY <1>1, <2>2
    <3>3. Wait(i)' \in Nat /\ Wait(i)' <= Chunk * (n - 1)
      BY <2>5, <3>2, UntilBound DEF Wait
    <3>4. Within(0, Wait(i)', n, m)
      BY <1>1, <2>1, <3>3, FreshWithin
    <3>5. QED
      BY <1>1, <1>6, <1>7, <2>1, <3>1, <3>4 DEF Bounded
  <2>7. ASSUME NEW i \in 1 .. n, i # r + 1 PROVE Bounded(i)'
    <3>1. items[i] \in Members \ {w} /\ items[i] \in Relays
      <4>1. r + 1 \in 1 .. n
        BY <1>2
      <4>2. QED
        BY <1>1, <1>5, <2>7, <4>1, Known DEF Listed, Members
    <3>2. items'[i] = items[i] /\ passed'[items[i]] = passed[items[i]] + 1
          /\ passed[items[i]] \in Nat
      BY <1>6, <3>1 DEF Types
    <3>3. PICK a \in 1 .. n - 1 : a = Ahead(i)
      <4>1. Ahead(i) \in 0 .. n - 1
        BY <1>1, Known
      <4>2. Ahead(i) # 0
        <5>1. i - 1 >= r => i - 1 - r # 0
          BY <2>7
        <5>2. ~(i - 1 >= r) => i - 1 - r + n # 0
          BY <1>2
        <5>3. QED
          BY <2>4, <5>1, <5>2
      <4>3. QED
        BY <4>1, <4>2
    <3>4. Wait(i) = l + Chunk * (a - 1) /\ Wait(i) \in Nat
      BY <1>1, <1>4, <3>3, Known DEF Wait, Until
    <3>5. PICK t \in Nat : t = Chunk * (a - 1)
      <4>1. Chunk * (a - 1) \in Nat
        BY RelaysAssumption
      <4>2. QED
        BY <4>1
    <3>6. Wait(i)' = l - 1 + t
      <4>1. CASE l # 1
        <5>1. q = r /\ Left' = l - 1
          BY <1>6, <1>8, <2>2, <4>1
        <5>2. Ahead(i)' = a
          BY <2>3, <2>4, <3>3, <5>1
        <5>3. QED
          BY <3>3, <3>5, <5>1, <5>2 DEF Wait, Until
      <4>2. CASE l = 1
        <5>1. q = (IF r + 1 = n THEN 0 ELSE r + 1) /\ Left' = Chunk
          BY <1>6, <1>8, <2>2, <4>2
        <5>2. Ahead(i)' = a - 1
          <6>1. CASE r + 1 = n
            <7>1. q = 0 /\ ~(i - 1 >= r)
              BY <2>7, <5>1, <6>1
            <7>2. i - 1 >= q /\ i - 1 - q = i - 1 - r + n - 1
              BY <6>1, <7>1
            <7>3. QED
              BY <2>3, <2>4, <3>3, <7>1, <7>2
          <6>2. CASE r + 1 # n
            <7>1. q = r + 1 /\ (i - 1 >= q <=> i - 1 >= r)
              BY <2>7, <5>1, <6>2
            <7>2. i - 1 - q = i - 1 - r - 1
                  /\ i - 1 - q + n = i - 1 - r + n - 1
              BY <7>1
            <7>3. QED
              BY <2>3, <2>4, <3>3, <7>1, <7>2
          <6>3. QED
            BY <6>1, <6>2
        <5>3. Wait(i)' = Until(a - 1, Chunk)
          BY <5>1, <5>2 DEF Wait
        <5>4. Until(a - 1, Chunk) = Chunk * (a - 1)
          <6>1. CASE a = 1
            BY <6>1, RelaysAssumption DEF Until
          <6>2. CASE a # 1
            <7>1. Chunk + Chunk * (a - 1 - 1) = Chunk * (a - 1)
              BY RelaysAssumption
            <7>2. QED
              BY <6>2, <7>1 DEF Until
          <6>3. QED
            BY <6>1, <6>2
        <5>5. QED
          BY <3>5, <4>2, <5>3, <5>4
      <4>3. QED
        BY <4>1, <4>2
    <3>7. Within(passed[items[i]], Wait(i), n, m)
      BY <1>1, <2>1 DEF Turns, Bounded
    <3>8. l - 1 + t \in Nat /\ Wait(i) = l - 1 + t + 1
      BY <3>4, <3>5
    <3>9. Within(passed[items[i]] + 1, Wait(i)', n, m)
      BY <2>1, <3>2, <3>6, <3>7, <3>8, CloserWithin
    <3>10. QED
      BY <1>1, <1>6, <1>7, <2>1, <3>2, <3>9 DEF Bounded
  <2>8. QED
    BY <1>1, <1>6, <2>6, <2>7 DEF Turns
<1>12. Lates'
  BY <1>5, <1>6, <1>7 DEF Lates, Members, New, Gone, Types
<1>13. QED
  BY <1>9, <1>10, <1>11, <1>12

LEMMA SendInv ==
    ASSUME Inv, Send
    PROVE  Inv'
<1> USE DEF Inv
<1>1. /\ hand \in Relays /\ hand' = Nobody
      /\ \/ /\ queued[hand] < SendCap
            /\ queued' = [queued EXCEPT ![hand] = @ + 1]
         \/ UNCHANGED queued
      /\ late' = IF hand \in Members THEN late
                 ELSE [late EXCEPT ![hand] = @ + 1]
      /\ UNCHANGED <<items, rr, chunk, stage, writer, passed>>
  BY DEF Send, router
<1>2. New' = New /\ Gone' = Gone /\ Members' = Members
  BY <1>1 DEF New, Gone, Members
<1>3. hand \notin New /\ (hand \notin Members => hand \in Gone)
  BY <1>1 DEF Types, Lates, New, Gone, Members
<1>4. late[hand] = 0
  BY <1>1 DEF Types, Lates
<1>5. Types'
  <2>1. queued' \in [Relays -> 0 .. SendCap]
    <3>1. queued[hand] < SendCap => queued[hand] + 1 \in 0 .. SendCap
      BY <1>1, RelaysAssumption DEF Types
    <3>2. QED
      BY <1>1, <3>1 DEF Types
  <2>2. late' \in [Relays -> Nat]
    BY <1>1 DEF Types
  <2>3. QED
    BY <1>1, <2>1, <2>2 DEF Types
<1>6. Listed' /\ Counted'
  BY <1>1, <1>2 DEF Listed, Counted
<1>7. Turns'
  BY <1>1, <1>2, SameTurns
<1>8. Lates'
  <2>1. ASSUME NEW w \in Relays
        PROVE  late'[w] <= 1 /\ (late'[w] = 1 => w \in Gone)
    <3>1. CASE hand \in Members \/ w # hand
      BY <1>1, <3>1 DEF Types, Lates
    <3>2. CASE hand \notin Members /\ w = hand
      BY <1>1, <1>3, <1>4, <3>2 DEF Types
    <3>3. QED
      BY <3>1, <3>2
  <2>2. \A w \in Relays : hand' # w
    BY <1>1, RelaysAssumption
  <2>3. QED
    BY <1>1, <1>2, <2>1, <2>2 DEF Lates
<1>9. QED
  BY <1>5, <1>6, <1>7, <1>8

LEMMA DownlinkEndsInv ==
    ASSUME Inv, DownlinkEnds
    PROVE  Inv'
<1> USE DEF Inv
<1>1. /\ hand' = Stopped
      /\ UNCHANGED <<items, rr, chunk, stage, queued, writer, passed, late>>
  BY DEF DownlinkEnds, router, aux
<1>2. New' = New /\ Gone' = Gone /\ Members' = Members
  BY <1>1 DEF New, Gone, Members
<1>3. Types' /\ Listed' /\ Counted'
  BY <1>1, <1>2 DEF Types, Listed, Counted
<1>4. Lates'
  BY <1>1, <1>2, RelaysAssumption DEF Lates
<1>5. QED
  BY <1>1, <1>2, <1>3, <1>4, SameTurns

LEMMA WriterInv ==
    ASSUME Inv, NEW w \in Relays, Take(w) \/ Written(w) \/ WriterEnds(w)
    PROVE  Inv'
<1> USE DEF Inv
<1>1. /\ UNCHANGED <<items, rr, chunk, hand, stage, passed, late>>
      /\ \/ /\ queued[w] > 0
            /\ queued' = [queued EXCEPT ![w] = @ - 1]
         \/ UNCHANGED queued
      /\ \E x \in {"idle", "writing", "over"} :
            writer' = [writer EXCEPT ![w] = x]
  BY DEF Take, Written, WriterEnds, router, aux
<1>2. New' = New /\ Gone' = Gone /\ Members' = Members
  BY <1>1 DEF New, Gone, Members
<1>3. Types'
  <2>1. queued' \in [Relays -> 0 .. SendCap]
    <3>1. queued[w] > 0 => queued[w] - 1 \in 0 .. SendCap
      BY RelaysAssumption DEF Types
    <3>2. QED
      BY <1>1, <3>1 DEF Types
  <2>2. writer' \in [Relays -> {"none", "idle", "writing", "over"}]
    BY <1>1 DEF Types
  <2>3. QED
    BY <1>1, <2>1, <2>2 DEF Types
<1>4. Listed' /\ Counted' /\ Lates'
  BY <1>1, <1>2 DEF Listed, Counted, Lates
<1>5. QED
  BY <1>1, <1>2, <1>3, <1>4, SameTurns

LEMMA NextInv == Inv /\ [Next]_vars => Inv'
<1> SUFFICES ASSUME Inv, [Next]_vars PROVE Inv'
  OBVIOUS
<1>1. ASSUME NEW w \in Relays, Add(w) PROVE Inv'
  BY <1>1, AddInv
<1>2. ASSUME NEW w \in Relays, Leave(w) PROVE Inv'
  BY <1>2, LeaveInv
<1>3. ASSUME NEW w \in Relays, CloseDone(w) PROVE Inv'
  BY <1>3, CloseDoneInv
<1>4. ASSUME NEW w \in Relays, Take(w) \/ Written(w) \/ WriterEnds(w)
      PROVE  Inv'
  BY <1>4, WriterInv
<1>5. CASE Route
  BY <1>5, RouteInv
<1>6. CASE Send
  BY <1>6, SendInv
<1>7. CASE DownlinkEnds
  BY <1>7, DownlinkEndsInv
<1>8. CASE UNCHANGED vars
  <2>1. UNCHANGED <<items, rr, chunk, hand, stage, queued, writer, passed, late>>
    BY <1>8 DEF vars, router, aux
  <2>2. New' = New /\ Gone' = Gone /\ Members' = Members
    BY <2>1 DEF New, Gone, Members
  <2>3. Types' /\ Listed' /\ Counted' /\ Lates'
    BY <2>1, <2>2 DEF Inv, Types, Listed, Counted, Lates
  <2>4. QED
    BY <2>1, <2>2, <2>3, SameTurns DEF Inv
<1>9. QED
  BY <1>1, <1>2, <1>3, <1>4, <1>5, <1>6, <1>7, <1>8 DEF Next

(***************************************************************************)
(* The theorems                                                            *)
(***************************************************************************)
(* The inductive invariant holds of every run.                             *)
THEOREM Invariance == Spec => []Inv
<1>1. Init => Inv
  BY InitInv
<1>2. Inv /\ [Next]_vars => Inv'
  BY NextInv
<1>3. QED
  BY <1>1, <1>2, PTL DEF Spec

(* The list of the address holds exactly the relays that have been added   *)
(* and not removed, each once, and the position always points into it,     *)
(* whichever relay has left and whenever (add, remove and pickTarget).     *)
THEOREM TypeCorrect == Spec => []TypeOK
<1>1. Inv => TypeOK
  <2> SUFFICES ASSUME Inv PROVE TypeOK
    OBVIOUS
  <2> USE DEF Inv
  <2>1. /\ Len(items) \in Nat /\ DOMAIN items = 1 .. Len(items)
        /\ items # <<>> => rr < Len(items)
    BY Known, LenProperties DEF Types, Listed
  <2>2. IsInjective(items)
    BY <2>1 DEF Listed, IsInjective
  <2>3. ToSet(items) = Members
    <3>1. \A i \in 1 .. Len(items) : items[i] \in Members
      BY Known DEF Members
    <3>2. \A w \in Members : \E i \in 1 .. Len(items) : items[i] = w
      BY DEF Members, Listed
    <3>3. QED
      BY <2>1, <3>1, <3>2 DEF ToSet
  <2>4. rr \in 0 .. Len(items)
    BY <2>1, Known DEF Types, Listed
  <2>5. QED
    BY <2>1, <2>2, <2>3, <2>4 DEF TypeOK, Types, Listed
<1>2. QED
  BY <1>1, Invariance, PTL

(* However the relays come and go, and wherever remove leaves the          *)
(* position, no relay waits for more than the bound that the chunks of the *)
(* others and their leaving add up to; and a relay that has been removed   *)
(* is sent at most one packet more (pickTarget, remove and the send        *)
(* behind the unlock).                                                     *)
THEOREM TurnsAreFair == Spec => []FairTurns
<1>1. Inv => FairTurns
  <2> SUFFICES ASSUME Inv PROVE FairTurns
    OBVIOUS
  <2> USE DEF Inv
  <2>1. PICK t \in Nat : t = Cardinality(Relays)
    BY Counts
  <2>2. ASSUME NEW w \in Members
        PROVE  2 * passed[w] <= Chunk * (t - 1) * (t - 1 + 1)
    <3>1. PICK i \in 1 .. Len(items) : items[i] = w
      BY DEF Members, Listed
    <3>2. PICK n \in Nat : n = Len(items) /\ n >= 1
      BY <3>1, Known
    <3>3. PICK m \in Nat : m = Cardinality(New)
      BY Counts
    <3>4. Within(passed[w], Wait(i), n, m)
      BY <3>1, <3>2, <3>3 DEF Turns, Bounded
    <3>5. Wait(i) \in Nat /\ passed[w] \in Nat
      BY Known DEF Members, Types
    <3>6. 2 * passed[w] <= Chunk * ((t - 1) * t)
      BY <2>1, <3>2, <3>4, <3>5, WithinBound
    <3>7. Chunk * ((t - 1) * t) = Chunk * (t - 1) * (t - 1 + 1)
      BY RelaysAssumption
    <3>8. QED
      BY <3>6, <3>7
  <2>3. \A w \in Relays : late[w] <= 1
    BY DEF Lates
  <2>4. QED
    BY <2>1, <2>2, <2>3 DEF FairTurns
<1>2. QED
  BY <1>1, Invariance, PTL
=============================================================================
