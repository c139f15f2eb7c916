---------------------------- MODULE FirewallProofs ----------------------------
(* Proofs about Firewall, for any profiles, rules and number of installs.  *)
EXTENDS Firewall, SequenceTheorems, WellFoundedInduction, FiniteSetTheorems,
        TLAPS

(***************************************************************************)
(* Concatenations                                                          *)
(***************************************************************************)
LEMMA Least ==
    ASSUME NEW S, S \subseteq Nat, S # {}
    PROVE  \E m \in S : \A k \in S : m <= k
<1>1. PICK m \in S : \A k \in S : ~ (<<k, m>> \in OpToRel(<, Nat))
  BY WFMin, NatLessThanWellFounded
<1>2. \A k \in S : ~ (k < m)
  BY <1>1 DEF OpToRel
<1>3. \A k \in S : m <= k
  BY <1>2
<1>4. QED
  BY <1>3

(* Induction over the naturals, for a set and not a predicate.             *)
LEMMA Induction ==
    ASSUME NEW S, S \subseteq Nat, 0 \in S, \A n \in S : n + 1 \in S
    PROVE  S = Nat
<1> SUFFICES ASSUME Nat \ S # {} PROVE FALSE
  OBVIOUS
<1>1. PICK m \in Nat \ S : \A k \in Nat \ S : m <= k
  BY Least
<1>2. m # 0 /\ m - 1 \in Nat
  BY <1>1
<1>3. m - 1 \in S
  BY <1>1, <1>2
<1>4. QED
  BY <1>1, <1>3

(* FlattenSeq concatenates the members in their order: there is a sequence *)
(* of the partial results.                                                 *)
Partial(f, ss) ==
    /\ f[0] = <<>>
    /\ \A n \in Nat : n < Len(ss) => f[n + 1] = f[n] \o ss[n + 1]

LEMMA Flatten ==
    ASSUME NEW R, NEW ss \in Seq(Seq(R))
    PROVE  \E f : /\ Partial(f, ss)
                  /\ FlattenSeq(ss) = f[Len(ss)]
<1>1. PICK m \in Nat : m = Len(ss) /\ DOMAIN ss = 1 .. m
  BY LenProperties
<1> DEFINE
      Step(f, i) == IF i = 1 THEN ss[i] ELSE f[i - 1] \o ss[i]
      Good(n) == \E f : f = [i \in 1 .. n |-> Step(f, i)]
<1>2. ASSUME NEW n \in Nat, Good(n) PROVE Good(n + 1)
  <2>1. PICK f : f = [i \in 1 .. n |-> Step(f, i)]
    BY <1>2
  <2> DEFINE g == [i \in 1 .. n + 1 |-> IF i = n + 1 THEN Step(f, i) ELSE f[i]]
  <2>2. ASSUME NEW i \in 1 .. n + 1 PROVE g[i] = Step(g, i)
    <3>1. CASE i = 1 /\ i = n + 1
      BY <3>1
    <3>2. CASE i # 1 /\ i = n + 1
      <4>1. i - 1 \in 1 .. n + 1 /\ i - 1 # n + 1
        BY <3>2
      <4>2. g[i - 1] = f[i - 1]
        BY <4>1
      <4>3. QED
        BY <3>2, <4>2
    <3>3. CASE i # n + 1
      <4>1. i \in 1 .. n
        BY <3>3
      <4>2. f[i] = Step(f, i)
        BY <2>1, <4>1
      <4>3. CASE i = 1
        BY <4>2, <4>3, <3>3
      <4>4. CASE i # 1
        <5>1. i - 1 \in 1 .. n + 1 /\ i - 1 # n + 1
          BY <4>1, <4>4
        <5>2. g[i - 1] = f[i - 1]
          BY <5>1
        <5>3. QED
          BY <4>2, <4>4, <5>2, <3>3
      <4>5. QED
        BY <4>3, <4>4
    <3>4. QED
      BY <3>1, <3>2, <3>3
  <2>3. g = [i \in 1 .. n + 1 |-> Step(g, i)]
    <3>1. DOMAIN g = 1 .. n + 1 /\ g = [i \in 1 .. n + 1 |-> g[i]]
      OBVIOUS
    <3> HIDE DEF g
    <3>2. QED
      BY <2>2, <3>1
  <2>4. QED
    BY <2>3
<1>3. Good(0)
  <2>1. \A f : [i \in 1 .. 0 |-> Step(f, i)] = <<>>
    OBVIOUS
  <2>2. <<>> = [i \in 1 .. 0 |-> Step(<<>>, i)]
    BY <2>1
  <2>3. QED
    BY <2>2
<1>4. Good(m)
  <2> DEFINE S == {n \in Nat : Good(n)}
  <2> HIDE DEF Good
  <2>1. 0 \in S
    BY <1>3
  <2>2. \A n \in S : n + 1 \in S
    BY <1>2
  <2>3. S = Nat
    <3> HIDE DEF S
    <3>1. S \subseteq Nat
      BY DEF S
    <3>2. QED
      BY <2>1, <2>2, <3>1, Induction
  <2>4. QED
    BY <2>3
<1>5. QED
  <2>1. CASE m = 0
    <3>1. ss = <<>> /\ FlattenSeq(ss) = <<>>
      BY <1>1, <2>1, EmptySeq DEF FlattenSeq
    <3>2. Partial([n \in {0} |-> <<>>], ss)
      BY <1>1, <2>1 DEF Partial
    <3>3. QED
      BY <1>1, <2>1, <3>1, <3>2
  <2>2. CASE m # 0
    <3>1. PICK f : /\ f = [i \in 1 .. m |-> Step(f, i)]
                   /\ FlattenSeq(ss) = f[m]
      BY <1>1, <1>4, <2>2 DEF FlattenSeq
    <3> DEFINE g == [i \in 0 .. m |-> IF i = 0 THEN <<>> ELSE f[i]]
    <3>2. FlattenSeq(ss) = g[m]
      BY <3>1, <2>2
    <3>3. ASSUME NEW n \in Nat, n < m PROVE g[n + 1] = g[n] \o ss[n + 1]
      <4>1. n + 1 \in 1 .. m /\ n \in 0 .. m /\ n + 1 # 0
        BY <3>3
      <4>2. g[n + 1] = Step(f, n + 1)
        <5>1. f[n + 1] = Step(f, n + 1)
          BY <3>1, <4>1
        <5> HIDE DEF Step
        <5>2. QED
          BY <4>1, <5>1
      <4>3. CASE n = 0
        <5>1. ss[1] \in Seq(R)
          BY <1>1, <4>1, <4>3, ElementOfSeq
        <5>2. g[n] = <<>>
          BY <4>1, <4>3
        <5>3. g[n + 1] = ss[1]
          BY <4>2, <4>3
        <5> HIDE DEF g
        <5>4. <<>> \o ss[1] = ss[1]
          BY <5>1, ConcatEmptySeq
        <5>5. QED
          BY <4>3, <5>2, <5>3, <5>4
      <4>4. CASE n # 0
        <5>1. n + 1 # 1 /\ (n + 1) - 1 = n
          BY <4>4
        <5>2. g[n] = f[n]
          BY <4>1, <4>4
        <5> HIDE DEF g
        <5>3. Step(f, n + 1) = f[n] \o ss[n + 1]
          <6>1. f[(n + 1) - 1] = f[n]
            BY <5>1
          <6>2. QED
            BY <5>1, <6>1
        <5> HIDE DEF Step
        <5>4. QED
          BY <4>2, <5>2, <5>3
      <4>5. QED
        BY <4>3, <4>4
    <3>4. g[0] = <<>>
      OBVIOUS
    <3> HIDE DEF g
    <3>5. Partial(g, ss)
      BY <1>1, <3>3, <3>4 DEF Partial
    <3>6. QED
      BY <1>1, <3>2, <3>5
  <2>3. QED
    BY <2>1, <2>2

LEMMA FlattenType ==
    ASSUME NEW R, NEW ss \in Seq(Seq(R))
    PROVE  FlattenSeq(ss) \in Seq(R)
<1>1. PICK f : Partial(f, ss) /\ FlattenSeq(ss) = f[Len(ss)]
  BY Flatten
<1>2. PICK m \in Nat : m = Len(ss) /\ DOMAIN ss = 1 .. m
  BY LenProperties
<1> DEFINE S == {n \in Nat : n <= m => f[n] \in Seq(R)}
<1>3. f[0] \in Seq(R)
  BY <1>1, EmptySeq DEF Partial
<1>4. ASSUME NEW n \in Nat, n < m, f[n] \in Seq(R) PROVE f[n + 1] \in Seq(R)
  <2>1. n + 1 \in 1 .. m
    BY <1>4
  <2>2. ss[n + 1] \in Seq(R)
    BY <1>2, <2>1, ElementOfSeq
  <2>3. f[n + 1] = f[n] \o ss[n + 1]
    BY <1>1, <1>2, <1>4 DEF Partial
  <2>4. QED
    BY <1>4, <2>2, <2>3, ConcatProperties
<1>5. \A n \in S : n + 1 \in S
  BY <1>4
<1>6. 0 \in S /\ S \subseteq Nat
  BY <1>3
<1>7. S = Nat
  <2> HIDE DEF S
  <2>1. QED
    BY <1>5, <1>6, Induction
<1>8. QED
  BY <1>1, <1>2, <1>7

(***************************************************************************)
(* What becomes of a packet                                                *)
(***************************************************************************)
Hit(rules, a, to, port) ==
    \E k \in DOMAIN rules : Matches(rules[k], a, to, port)

LEMMA FirstMatch ==
    ASSUME NEW R, NEW rules \in Seq(R), NEW a, NEW to, NEW port,
           NEW k \in DOMAIN rules, Matches(rules[k], a, to, port),
           \A j \in DOMAIN rules : j < k => ~Matches(rules[j], a, to, port)
    PROVE  First(rules, a, to, port) = rules[k].target
<1> DEFINE hits == {j \in DOMAIN rules : Matches(rules[j], a, to, port)}
           best == CHOOSE j \in hits : \A h \in hits : j <= h
<1>1. DOMAIN rules \subseteq Nat
  BY LenProperties
<1>2. k \in hits /\ \A h \in hits : k <= h
  BY <1>1
<1>3. best \in hits /\ \A h \in hits : best <= h
  <2> HIDE DEF hits
  <2>1. QED
    BY <1>2
<1>4. best = k
  <2>1. best \in Nat /\ k \in Nat
    BY <1>1, <1>3
  <2> HIDE DEF best, hits
  <2>2. best <= k /\ k <= best
    BY <1>2, <1>3
  <2>3. QED
    BY <2>1, <2>2
<1>5. First(rules, a, to, port) = rules[best].target
  BY <1>2 DEF First
<1>6. QED
  <2> HIDE DEF best
  <2>1. QED
    BY <1>4, <1>5

LEMMA FirstExists ==
    ASSUME NEW R, NEW rules \in Seq(R), NEW a, NEW to, NEW port,
           Hit(rules, a, to, port)
    PROVE  \E k \in DOMAIN rules :
              /\ Matches(rules[k], a, to, port)
              /\ \A j \in DOMAIN rules :
                    j < k => ~Matches(rules[j], a, to, port)
              /\ First(rules, a, to, port) = rules[k].target
<1> DEFINE hits == {j \in DOMAIN rules : Matches(rules[j], a, to, port)}
<1>1. DOMAIN rules \subseteq Nat
  BY LenProperties
<1>2. hits \subseteq Nat /\ hits # {}
  BY <1>1 DEF Hit
<1>3. PICK k \in hits : \A h \in hits : k <= h
  <2> HIDE DEF hits
  <2>1. QED
    BY <1>2, Least
<1>4. \A j \in DOMAIN rules : j < k => ~Matches(rules[j], a, to, port)
  <2> SUFFICES ASSUME NEW j \in DOMAIN rules, j < k, j \in hits PROVE FALSE
    OBVIOUS
  <2>1. j \in Nat /\ k \in Nat /\ k <= j
    BY <1>1, <1>3
  <2>2. QED
    BY <2>1
<1>5. QED
  BY <1>3, <1>4, FirstMatch

(* A rule in front of the others decides, if it matches.                   *)
LEMMA FirstInFront ==
    ASSUME NEW R, NEW s \in Seq(R), NEW t \in Seq(R), NEW a, NEW to, NEW port,
           Hit(s, a, to, port)
    PROVE  First(s \o t, a, to, port) = First(s, a, to, port)
<1>1. PICK k \in DOMAIN s :
          /\ Matches(s[k], a, to, port)
          /\ \A j \in DOMAIN s : j < k => ~Matches(s[j], a, to, port)
          /\ First(s, a, to, port) = s[k].target
  BY FirstExists
<1>2. PICK m \in Nat, n \in Nat :
          m = Len(s) /\ n = Len(t) /\ DOMAIN s = 1 .. m
  BY LenProperties
<1>3. /\ s \o t \in Seq(R) /\ DOMAIN (s \o t) = 1 .. m + n
      /\ \A i \in 1 .. m + n : i <= m => (s \o t)[i] = s[i]
  BY <1>2, ConcatProperties, LenProperties
<1>4. k \in 1 .. m + n /\ (s \o t)[k] = s[k]
  BY <1>2, <1>3
<1>5. ASSUME NEW j \in 1 .. m + n, j < k
      PROVE  ~Matches((s \o t)[j], a, to, port)
  <2>1. j \in 1 .. m /\ (s \o t)[j] = s[j]
    BY <1>2, <1>3, <1>5
  <2>2. QED
    BY <1>1, <1>2, <1>5, <2>1
<1>6. /\ k \in DOMAIN (s \o t) /\ Matches((s \o t)[k], a, to, port)
      /\ \A j \in DOMAIN (s \o t) :
            j < k => ~Matches((s \o t)[j], a, to, port)
  BY <1>1, <1>3, <1>4, <1>5
<1>7. First(s \o t, a, to, port) = (s \o t)[k].target
  <2>1. PICK u \in Seq(R) : u = s \o t
    BY <1>3
  <2>2. /\ k \in DOMAIN u /\ Matches(u[k], a, to, port)
        /\ \A j \in DOMAIN u : j < k => ~Matches(u[j], a, to, port)
    BY <1>6, <2>1
  <2>3. First(u, a, to, port) = u[k].target
    BY <2>2, FirstMatch
  <2>4. QED
    BY <2>1, <2>3
<1>8. QED
  BY <1>1, <1>4, <1>7

(* If no rule matches, none of the concatenated ones does.                 *)
LEMMA NoHit ==
    ASSUME NEW R, NEW s \in Seq(R), NEW t \in Seq(R), NEW a, NEW to, NEW port,
           ~Hit(s, a, to, port), ~Hit(t, a, to, port)
    PROVE  ~Hit(s \o t, a, to, port)
<1>1. PICK m \in Nat, n \in Nat :
          m = Len(s) /\ n = Len(t) /\ DOMAIN s = 1 .. m /\ DOMAIN t = 1 .. n
  BY LenProperties
<1>2. /\ DOMAIN (s \o t) = 1 .. m + n
      /\ \A i \in 1 .. m + n :
            (s \o t)[i] = IF i <= m THEN s[i] ELSE t[i - m]
  BY <1>1, ConcatProperties, LenProperties
<1>3. ASSUME NEW i \in 1 .. m + n PROVE ~Matches((s \o t)[i], a, to, port)
  <2>1. CASE i <= m
    BY <1>1, <1>2, <2>1 DEF Hit
  <2>2. CASE m < i
    <3>1. i - m \in 1 .. n /\ ~(i <= m)
      BY <2>2
    <3>2. QED
      BY <1>1, <1>2, <3>1 DEF Hit
  <2>3. i <= m \/ m < i
    OBVIOUS
  <2>4. QED
    BY <2>1, <2>2, <2>3
<1>4. QED
  BY <1>2, <1>3 DEF Hit

(* One that does not match is passed over.                                 *)
LEMMA FirstBehind ==
    ASSUME NEW R, NEW s \in Seq(R), NEW t \in Seq(R), NEW a, NEW to, NEW port,
           ~Hit(s, a, to, port)
    PROVE  First(s \o t, a, to, port) = First(t, a, to, port)
<1>1. PICK m \in Nat, n \in Nat :
          m = Len(s) /\ n = Len(t) /\ DOMAIN s = 1 .. m /\ DOMAIN t = 1 .. n
  BY LenProperties
<1>2. /\ s \o t \in Seq(R) /\ DOMAIN (s \o t) = 1 .. m + n
      /\ \A i \in 1 .. m + n :
            (s \o t)[i] = IF i <= m THEN s[i] ELSE t[i - m]
  BY <1>1, ConcatProperties, LenProperties
<1>3. ASSUME NEW i \in 1 .. m + n, Matches((s \o t)[i], a, to, port)
      PROVE  i - m \in 1 .. n /\ (s \o t)[i] = t[i - m]
  <2>1. i \notin 1 .. m
    BY <1>1, <1>2, <1>3 DEF Hit
  <2>2. QED
    BY <1>2, <2>1
<1>4. CASE Hit(t, a, to, port)
  <2>1. PICK k \in 1 .. n :
            /\ Matches(t[k], a, to, port)
            /\ \A j \in 1 .. n : j < k => ~Matches(t[j], a, to, port)
            /\ First(t, a, to, port) = t[k].target
    BY <1>1, <1>4, FirstExists
  <2>2. k + m \in 1 .. m + n /\ (s \o t)[k + m] = t[k]
    <3>1. k + m \in 1 .. m + n /\ ~(k + m <= m) /\ (k + m) - m = k
      OBVIOUS
    <3>2. QED
      BY <1>2, <3>1
  <2>3. ASSUME NEW j \in 1 .. m + n, j < k + m
        PROVE  ~Matches((s \o t)[j], a, to, port)
    <3> SUFFICES ASSUME Matches((s \o t)[j], a, to, port) PROVE FALSE
      OBVIOUS
    <3>1. j - m \in 1 .. n /\ (s \o t)[j] = t[j - m]
      BY <1>3
    <3>2. j - m < k
      BY <2>3
    <3>3. QED
      BY <2>1, <3>1, <3>2
  <2>4. /\ k + m \in DOMAIN (s \o t) /\ Matches((s \o t)[k + m], a, to, port)
        /\ \A j \in DOMAIN (s \o t) :
              j < k + m => ~Matches((s \o t)[j], a, to, port)
    BY <1>2, <2>1, <2>2, <2>3
  <2>5. First(s \o t, a, to, port) = (s \o t)[k + m].target
    <3>1. PICK u \in Seq(R) : u = s \o t
      BY <1>2
    <3>2. PICK i : i = k + m
      OBVIOUS
    <3>3. /\ i \in DOMAIN u /\ Matches(u[i], a, to, port)
          /\ \A j \in DOMAIN u : j < i => ~Matches(u[j], a, to, port)
      BY <2>4, <3>1, <3>2
    <3>4. First(u, a, to, port) = u[i].target
      BY <3>3, FirstMatch
    <3>5. QED
      BY <3>1, <3>2, <3>4
  <2>6. QED
    BY <2>1, <2>2, <2>5
<1>5. CASE ~Hit(t, a, to, port)
  <2>1. ~Hit(s \o t, a, to, port)
    BY <1>5, NoHit
  <2>2. QED
    BY <1>5, <2>1 DEF Hit, First
<1>6. QED
  BY <1>4, <1>5

(* What comes behind and does not match changes nothing.                   *)
LEMMA NoHitBehind ==
    ASSUME NEW R, NEW s \in Seq(R), NEW t \in Seq(R), NEW a, NEW to, NEW port,
           ~Hit(t, a, to, port)
    PROVE  First(s \o t, a, to, port) = First(s, a, to, port)
<1>1. CASE Hit(s, a, to, port)
  BY <1>1, FirstInFront
<1>2. CASE ~Hit(s, a, to, port)
  BY <1>2, NoHit DEF Hit, First
<1>3. QED
  BY <1>1, <1>2

LEMMA FirstOfThree ==
    ASSUME NEW R, NEW s \in Seq(R), NEW t \in Seq(R), NEW u \in Seq(R),
           NEW a, NEW to, NEW port
    PROVE  First((s \o t) \o u, a, to, port) =
               IF Hit(s, a, to, port) THEN First(s, a, to, port)
               ELSE IF Hit(t, a, to, port) THEN First(t, a, to, port)
               ELSE First(u, a, to, port)
<1>1. t \o u \in Seq(R)
  BY ConcatProperties
<1>2. PICK v : v = t \o u
  OBVIOUS
<1>3. (s \o t) \o u = s \o v
  BY <1>2, ConcatAssociative
<1>4. v \in Seq(R)
  BY <1>1, <1>2
<1>5. First(v, a, to, port) =
          IF Hit(t, a, to, port) THEN First(t, a, to, port)
          ELSE First(u, a, to, port)
  BY <1>2, FirstInFront, FirstBehind
<1>6. First(s \o v, a, to, port) =
          IF Hit(s, a, to, port) THEN First(s, a, to, port)
          ELSE First(v, a, to, port)
  BY <1>4, FirstInFront, FirstBehind
<1>7. QED
  BY <1>3, <1>5, <1>6

(* Of concatenated rules only those decide that are about the packet.      *)
LEMMA FirstFlatten ==
    ASSUME NEW R, NEW ss \in Seq(Seq(R)), NEW a, NEW to, NEW port,
           NEW k \in DOMAIN ss,
           \A j \in DOMAIN ss : j # k => ~Hit(ss[j], a, to, port)
    PROVE  First(FlattenSeq(ss), a, to, port) = First(ss[k], a, to, port)
<1>1. PICK f : Partial(f, ss) /\ FlattenSeq(ss) = f[Len(ss)]
  BY Flatten
<1>2. PICK m \in Nat : m = Len(ss) /\ DOMAIN ss = 1 .. m
  BY LenProperties
<1> DEFINE
      Good(n) ==
          /\ f[n] \in Seq(R)
          /\ n < k => ~Hit(f[n], a, to, port)
          /\ k <= n => First(f[n], a, to, port) = First(ss[k], a, to, port)
      S == {n \in Nat : n <= m => Good(n)}
<1>3. Good(0)
  <2>1. f[0] = <<>>
    BY <1>1 DEF Partial
  <2>2. DOMAIN <<>> = {}
    OBVIOUS
  <2>3. QED
    BY <1>2, <2>1, <2>2, EmptySeq DEF Hit
<1>4. ASSUME NEW n \in Nat, n < m, Good(n) PROVE Good(n + 1)
  <2>1. n + 1 \in 1 .. m
    BY <1>4
  <2>2. ss[n + 1] \in Seq(R)
    BY <1>2, <2>1, ElementOfSeq
  <2>3. f[n + 1] = f[n] \o ss[n + 1]
    BY <1>1, <1>2, <1>4 DEF Partial
  <2>4. f[n + 1] \in Seq(R)
    BY <1>4, <2>2, <2>3, ConcatProperties
  <2>5. ASSUME ~Hit(f[n], a, to, port), ~Hit(ss[n + 1], a, to, port)
        PROVE  ~Hit(f[n + 1], a, to, port)
    BY <1>4, <2>2, <2>3, <2>5, NoHit
  <2>6. CASE n + 1 < k
    <3>1. n + 1 # k /\ n < k /\ n + 1 \in DOMAIN ss
      BY <1>2, <2>1, <2>6
    <3>2. ~Hit(ss[n + 1], a, to, port) /\ ~Hit(f[n], a, to, port)
      BY <1>4, <3>1
    <3>3. QED
      BY <1>2, <2>4, <2>5, <2>6, <3>2
  <2>7. CASE n + 1 = k
    BY <1>2, <1>4, <2>2, <2>3, <2>4, <2>7, FirstBehind
  <2>8. CASE k < n + 1
    <3>0. n + 1 # k /\ n + 1 \in DOMAIN ss
      BY <1>2, <2>1, <2>8
    <3>1. ~Hit(ss[n + 1], a, to, port)
      BY <3>0
    <3>2. First(f[n + 1], a, to, port) = First(f[n], a, to, port)
      BY <1>4, <2>2, <2>3, <3>1, NoHitBehind
    <3>3. QED
      BY <1>2, <1>4, <2>4, <2>8, <3>2
  <2>9. QED
    BY <1>2, <2>6, <2>7, <2>8
<1>5. \A n \in S : n + 1 \in S
  <2> HIDE DEF Good
  <2>1. QED
    BY <1>4
<1>6. 0 \in S /\ S \subseteq Nat
  <2> HIDE DEF Good
  <2>1. QED
    BY <1>3
<1>7. S = Nat
  <2> HIDE DEF S
  <2>1. QED
    BY <1>5, <1>6, Induction
<1>8. Good(m)
  BY <1>2, <1>7
<1>9. QED
  BY <1>1, <1>2, <1>8

(***************************************************************************)
(* What the policies are compiled to                                       *)
(***************************************************************************)
Deciding == [from : SUBSET Addresses, to : SUBSET Dests,
             ports : SUBSET Ports, target : {"ACCEPT", "REJECT"}]
Filters == Deciding \cup {Return}
About(a) == {f \in Deciding : f.from = {a}}

(* The rules that name no sources of their own.                            *)
Plain == {r \in Rule : r.from = {}}

LEMMA Positions ==
    ASSUME NEW S, NEW T, NEW s \in Seq(S), NEW t, DOMAIN t = DOMAIN s,
           t = [k \in DOMAIN s |-> t[k]], \A k \in DOMAIN s : t[k] \in T
    PROVE  t \in Seq(T) /\ Len(t) = Len(s)
<1>1. PICK m \in Nat : m = Len(s) /\ DOMAIN s = 1 .. m
  BY LenProperties
<1>2. t \in [1 .. m -> T]
  BY <1>1
<1>3. t \in Seq(T)
  BY <1>2, SeqDef
<1>4. QED
  BY <1>1, <1>2, <1>3

LEMMA EnabledType ==
    ASSUME NEW S, NEW rules \in Seq(S)
    PROVE  EnabledRules(rules) \in Seq(S)
<1> DEFINE ss == [k \in DOMAIN rules |->
                     IF rules[k].on THEN <<rules[k]>> ELSE <<>>]
<1>1. ASSUME NEW k \in DOMAIN rules PROVE ss[k] \in Seq(S)
  <2>1. rules[k] \in S
    BY LenProperties, ElementOfSeq
  <2>2. <<rules[k]>> \in Seq(S) /\ <<>> \in Seq(S)
    BY <2>1
  <2>3. QED
    BY <2>2
<1>2. DOMAIN ss = DOMAIN rules /\ ss = [k \in DOMAIN rules |-> ss[k]]
  OBVIOUS
<1>3. EnabledRules(rules) = FlattenSeq(ss)
  BY DEF EnabledRules
<1> HIDE DEF ss
<1>4. ss \in Seq(Seq(S))
  BY <1>1, <1>2, Positions
<1>5. QED
  BY <1>3, <1>4, FlattenType

Fixed(a, p, rules) ==
    (IF BlocksPrivate(rules) THEN <<AllowDNS(a, Private)>> ELSE <<>>)
    \o (IF p.internet THEN Internet(a) ELSE <<>>)
Chosen(a, rules) ==
    [k \in DOMAIN EnabledRules(rules) |-> RuleFilter(a, EnabledRules(rules)[k])]

LEMMA FixedType ==
    ASSUME NEW a \in Addresses
    PROVE  /\ AllowDNS(a, Private) \in About(a) /\ AllowDNS(a, {}) \in About(a)
           /\ Reject(a) \in About(a)
  BY DEF About, Deciding, AllowDNS, Reject, Filter, Private, Dests, Ports

LEMMA ChosenType ==
    ASSUME NEW a \in Addresses, NEW rules
    PROVE  /\ rules \in Seq(Rule) => Chosen(a, rules) \in Seq(Deciding)
           /\ rules \in Seq(Plain) => Chosen(a, rules) \in Seq(About(a))
<1>1. ASSUME NEW S, NEW T, rules \in Seq(S),
             \A r \in S : RuleFilter(a, r) \in T
      PROVE  Chosen(a, rules) \in Seq(T)
  <2>1. PICK e \in Seq(S) : e = EnabledRules(rules)
    BY <1>1, EnabledType
  <2>2. \A k \in DOMAIN e : e[k] \in S
    BY LenProperties, ElementOfSeq
  <2> DEFINE t == [k \in DOMAIN e |-> RuleFilter(a, e[k])]
  <2>3. DOMAIN t = DOMAIN e /\ t = [k \in DOMAIN e |-> t[k]]
        /\ \A k \in DOMAIN e : t[k] \in T
    BY <1>1, <2>2
  <2>4. Chosen(a, rules) = t
    BY <2>1 DEF Chosen
  <2> HIDE DEF t
  <2>5. QED
    BY <2>3, <2>4, Positions
<1>2. \A r \in Rule : RuleFilter(a, r) \in Deciding
  BY DEF Rule, RuleFilter, Filter, Deciding
<1>3. \A r \in Plain : RuleFilter(a, r) \in About(a)
  BY DEF Plain, Rule, RuleFilter, Filter, About, Deciding
<1>4. QED
  BY <1>1, <1>2, <1>3

LEMMA SourceType ==
    ASSUME NEW a \in Addresses, NEW p \in Profile, NEW rules
    PROVE  /\ rules \in Seq(Rule) => ForSource(a, p, rules) \in Seq(Deciding)
           /\ rules \in Seq(Plain) => ForSource(a, p, rules) \in Seq(About(a))
<1>1. Fixed(a, p, rules) \in Seq(About(a))
  <2>1. /\ (IF BlocksPrivate(rules) THEN <<AllowDNS(a, Private)>> ELSE <<>>)
               \in Seq(About(a))
        /\ (IF p.internet THEN Internet(a) ELSE <<>>) \in Seq(About(a))
    BY FixedType DEF Internet
  <2>2. QED
    BY <2>1, ConcatProperties DEF Fixed
<1>2. Seq(About(a)) \subseteq Seq(Deciding)
  BY SeqMonotonic DEF About
<1>3. ForSource(a, p, rules) = Fixed(a, p, rules) \o Chosen(a, rules)
  BY DEF ForSource, Fixed, Chosen
<1>4. QED
  BY <1>1, <1>2, <1>3, ChosenType, ConcatProperties

LEMMA SourcesType ==
    ASSUME NEW p \in Profile, NEW raw \in BOOLEAN
    PROVE  /\ Sources(p, raw) \in Seq({p.ip, p.rawIP})
           /\ Sources(p, raw)[1] = p.ip
           /\ DOMAIN Sources(p, raw) = IF raw THEN {1, 2} ELSE {1}
           /\ raw => Sources(p, raw)[2] = p.rawIP
           /\ \A s \in DOMAIN Sources(p, raw) :
                 Sources(p, raw)[s] \in {p.ip, p.rawIP}
           /\ p.ip \in Addresses /\ p.rawIP \in Addresses
<1>1. p.ip \in Addresses /\ p.rawIP \in Addresses
  BY DEF Profile
<1>2. CASE raw
  <2>1. Sources(p, raw) = <<p.ip, p.rawIP>>
    BY <1>2 DEF Sources
  <2>2. <<p.ip, p.rawIP>> \in Seq({p.ip, p.rawIP})
    OBVIOUS
  <2>3. /\ DOMAIN <<p.ip, p.rawIP>> = {1, 2}
        /\ <<p.ip, p.rawIP>>[1] = p.ip /\ <<p.ip, p.rawIP>>[2] = p.rawIP
    OBVIOUS
  <2>4. PICK q : q = <<p.ip, p.rawIP>>
    OBVIOUS
  <2>5. /\ q \in Seq({p.ip, p.rawIP}) /\ DOMAIN q = {1, 2}
        /\ q[1] = p.ip /\ q[2] = p.rawIP /\ Sources(p, raw) = q
    BY <2>1, <2>2, <2>3, <2>4
  <2>6. QED
    BY <1>1, <1>2, <2>5
<1>3. CASE ~raw
  <2>1. Sources(p, raw) = <<p.ip>>
    BY <1>3 DEF Sources
  <2>2. <<p.ip>> \in Seq({p.ip, p.rawIP}) /\ DOMAIN <<p.ip>> = {1}
    OBVIOUS
  <2>3. QED
    BY <1>1, <1>3, <2>1, <2>2
<1>4. QED
  BY <1>2, <1>3

LEMMA ProfileType ==
    ASSUME NEW p \in Profile, NEW raw \in BOOLEAN, NEW rules
    PROVE  /\ rules \in Seq(Rule) => ForProfile(p, raw, rules) \in Seq(Deciding)
           /\ rules \in Seq(Plain) =>
                  ForProfile(p, raw, rules)
                      \in Seq(About(p.ip) \cup About(p.rawIP))
<1>1. ASSUME NEW T, ForSource(p.ip, p, rules) \in Seq(T),
             ForSource(p.rawIP, p, rules) \in Seq(T)
      PROVE  ForProfile(p, raw, rules) \in Seq(T)
  <2> DEFINE ss == [s \in DOMAIN Sources(p, raw) |->
                       ForSource(Sources(p, raw)[s], p, rules)]
  <2>1. DOMAIN ss = DOMAIN Sources(p, raw)
        /\ ss = [s \in DOMAIN Sources(p, raw) |-> ss[s]]
    OBVIOUS
  <2>2. \A s \in DOMAIN Sources(p, raw) :
            Sources(p, raw)[s] \in {p.ip, p.rawIP}
    BY SourcesType
  <2>3. \A s \in DOMAIN Sources(p, raw) : ss[s] \in Seq(T)
    BY <1>1, <2>2
  <2>4. ForProfile(p, raw, rules) = IF p.enabled THEN FlattenSeq(ss) ELSE <<>>
    BY DEF ForProfile
  <2> HIDE DEF ss
  <2>5. ss \in Seq(Seq(T))
    BY <2>1, <2>3, Positions, SourcesType
  <2>6. QED
    BY <2>4, <2>5, FlattenType, EmptySeq
<1>2. p.ip \in Addresses /\ p.rawIP \in Addresses
  BY SourcesType
<1>3. CASE rules \in Seq(Rule)
  BY <1>1, <1>2, <1>3, SourceType
<1>4. ASSUME rules \in Seq(Plain)
      PROVE  ForProfile(p, raw, rules) \in Seq(About(p.ip) \cup About(p.rawIP))
  <2> DEFINE T == About(p.ip) \cup About(p.rawIP)
  <2>1. /\ ForSource(p.ip, p, rules) \in Seq(About(p.ip))
        /\ ForSource(p.rawIP, p, rules) \in Seq(About(p.rawIP))
    BY <1>2, <1>4, SourceType
  <2>2. /\ ForSource(p.ip, p, rules) \in Seq(T)
        /\ ForSource(p.rawIP, p, rules) \in Seq(T)
    BY <2>1, SeqMonotonic
  <2> HIDE DEF T
  <2>3. ForProfile(p, raw, rules) \in Seq(T)
    BY <1>1, <2>2
  <2>4. QED
    BY <2>3 DEF T
<1>5. QED
  BY <1>3, <1>4, <1>1, <1>2, SourceType

LEMMA PoliciesType ==
    ASSUME NEW c \in Policies, NEW k \in DOMAIN c.profiles
    PROVE  /\ c.profiles[k] \in Profile
           /\ RulesOf(c, c.profiles[k]) \in Seq(Rule)
           /\ ~NamesSources(c) => RulesOf(c, c.profiles[k]) \in Seq(Plain)
<1>1. c.profiles \in Seq(Profile) /\ c.global \in Seq(Rule)
  BY DEF Policies
<1>2. c.profiles[k] \in Profile
  BY <1>1, LenProperties, ElementOfSeq
<1>3. RulesOf(c, c.profiles[k]) \in Seq(Rule)
  BY <1>1, <1>2 DEF RulesOf, Profile
<1>4. ASSUME ~NamesSources(c) PROVE RulesOf(c, c.profiles[k]) \in Seq(Plain)
  <2>1. PICK rules \in Seq(Rule) : rules = RulesOf(c, c.profiles[k])
    BY <1>3
  <2>2. PICK m \in Nat : m = Len(rules) /\ DOMAIN rules = 1 .. m
    BY LenProperties
  <2>3. \A r \in 1 .. m : rules[r] \in Plain
    <3> SUFFICES ASSUME NEW r \in 1 .. m PROVE rules[r] \in Plain
      OBVIOUS
    <3>1. rules[r] \in Rule
      BY <2>2, ElementOfSeq
    <3>2. rules[r].from = {}
      BY <1>4, <2>1, <2>2 DEF NamesSources
    <3>3. QED
      BY <3>1, <3>2 DEF Plain
  <2>4. rules \in [1 .. m -> Plain]
    BY <2>2, <2>3, LenProperties
  <2>5. rules \in Seq(Plain)
    BY <2>4, SeqDef
  <2>6. QED
    BY <2>1, <2>5
<1>5. QED
  BY <1>2, <1>3, <1>4

Parts(c, raw) ==
    [k \in DOMAIN c.profiles |->
        ForProfile(c.profiles[k], raw, RulesOf(c, c.profiles[k]))]

LEMMA CompileType ==
    ASSUME NEW c \in Policies, NEW raw \in BOOLEAN
    PROVE  /\ Compile(c, raw) = FlattenSeq(Parts(c, raw))
           /\ Parts(c, raw) \in Seq(Seq(Deciding))
           /\ Compile(c, raw) \in Seq(Deciding)
<1>1. Compile(c, raw) = FlattenSeq(Parts(c, raw))
  BY DEF Compile, Parts
<1>2. c.profiles \in Seq(Profile)
  BY DEF Policies
<1>3. \A k \in DOMAIN c.profiles : Parts(c, raw)[k] \in Seq(Deciding)
  BY PoliciesType, ProfileType DEF Parts
<1>4. DOMAIN Parts(c, raw) = DOMAIN c.profiles
      /\ Parts(c, raw) = [k \in DOMAIN c.profiles |-> Parts(c, raw)[k]]
  BY DEF Parts
<1>5. Parts(c, raw) \in Seq(Seq(Deciding))
  BY <1>2, <1>3, <1>4, Positions
<1>6. QED
  BY <1>1, <1>5, FlattenType

(***************************************************************************)
(* A packet of a profile in its compiled rules                             *)
(***************************************************************************)
(* Rules about another address do not match.                               *)
LEMMA NotAbout ==
    ASSUME NEW R, NEW rules \in Seq(R), NEW a, NEW to, NEW port,
           \A f \in R : f.from # {} /\ a \notin f.from
    PROVE  ~Hit(rules, a, to, port)
  BY LenProperties, ElementOfSeq DEF Hit, Matches

LEMMA OneRule ==
    ASSUME NEW f \in Deciding, NEW a, NEW to, NEW port
    PROVE  /\ Hit(<<f>>, a, to, port) <=> Matches(f, a, to, port)
           /\ Matches(f, a, to, port) => First(<<f>>, a, to, port) = f.target
<1>1. <<f>> \in Seq(Deciding) /\ DOMAIN <<f>> = {1} /\ <<f>>[1] = f
  OBVIOUS
<1>2. Hit(<<f>>, a, to, port) <=> Matches(f, a, to, port)
  BY <1>1 DEF Hit
<1>3. ASSUME Matches(f, a, to, port)
      PROVE  First(<<f>>, a, to, port) = f.target
  <2>1. PICK u \in Seq(Deciding) : u = <<f>>
    BY <1>1
  <2>2. /\ 1 \in DOMAIN u /\ Matches(u[1], a, to, port) /\ u[1] = f
        /\ \A j \in DOMAIN u : j < 1 => ~Matches(u[j], a, to, port)
    BY <1>1, <1>3, <2>1
  <2>3. First(u, a, to, port) = f.target
    BY <2>2, FirstMatch
  <2>4. QED
    BY <2>1, <2>3
<1>4. QED
  BY <1>2, <1>3

LEMMA Empty ==
    ASSUME NEW a, NEW to, NEW port
    PROVE  ~Hit(<<>>, a, to, port)
<1>1. DOMAIN <<>> = {}
  OBVIOUS
<1>2. QED
  BY <1>1 DEF Hit

Says(p, rules, a, to, port) ==
    \/ port = "53" /\ to \in Private /\ BlocksPrivate(rules)
    \/ port = "53" /\ p.internet
    \/ /\ ~(p.internet /\ to \in Private)
       /\ First(Chosen(a, rules), a, to, port) # "REJECT"

LEMMA SourceMeans ==
    ASSUME NEW a \in Addresses, NEW p \in Profile, NEW rules \in Seq(Rule),
           NEW to \in Dests, NEW port \in Ports
    PROVE  First(ForSource(a, p, rules), a, to, port) # "REJECT"
           <=> Says(p, rules, a, to, port)
<1> DEFINE A == IF BlocksPrivate(rules) THEN <<AllowDNS(a, Private)>> ELSE <<>>
           B == IF p.internet THEN Internet(a) ELSE <<>>
           C == Chosen(a, rules)
           F(s) == First(s, a, to, port)
           H(s) == Hit(s, a, to, port)
<1>1. ForSource(a, p, rules) = (A \o B) \o C
  BY DEF ForSource, Chosen
<1>2. /\ AllowDNS(a, Private) \in Deciding /\ AllowDNS(a, {}) \in Deciding
      /\ Reject(a) \in Deciding
  BY FixedType DEF About
<1>3. /\ Matches(AllowDNS(a, Private), a, to, port)
             <=> port = "53" /\ to \in Private
      /\ Matches(AllowDNS(a, {}), a, to, port) <=> port = "53"
      /\ Matches(Reject(a), a, to, port) <=> to \in Private
      /\ AllowDNS(a, Private).target = "ACCEPT"
      /\ AllowDNS(a, {}).target = "ACCEPT" /\ Reject(a).target = "REJECT"
  BY DEF Matches, AllowDNS, Reject, Filter, Private
<1>4. /\ A \in Seq(Deciding)
      /\ H(A) <=> BlocksPrivate(rules) /\ port = "53" /\ to \in Private
      /\ H(A) => F(A) = "ACCEPT"
  <2>1. CASE BlocksPrivate(rules)
    BY <1>2, <1>3, <2>1, OneRule
  <2>2. CASE ~BlocksPrivate(rules)
    BY <2>2, Empty
  <2>3. QED
    BY <2>1, <2>2
<1>5. /\ B \in Seq(Deciding)
      /\ H(B) <=> p.internet /\ (port = "53" \/ to \in Private)
      /\ H(B) => F(B) = IF port = "53" THEN "ACCEPT" ELSE "REJECT"
  <2>1. CASE p.internet
    <3> DEFINE s == <<AllowDNS(a, {})>>
               t == <<Reject(a)>>
    <3>1. B = s \o t
      BY <2>1 DEF Internet
    <3>2. s \in Seq(Deciding) /\ t \in Seq(Deciding)
      BY <1>2
    <3>3. /\ H(s) <=> port = "53"
          /\ H(s) => F(s) = "ACCEPT"
          /\ H(t) <=> to \in Private
          /\ H(t) => F(t) = "REJECT"
      BY <1>2, <1>3, OneRule
    <3> HIDE DEF s, t, B
    <3>4. B \in Seq(Deciding)
      BY <3>1, <3>2, ConcatProperties
    <3>5. CASE port = "53"
      <4>1. F(B) = "ACCEPT"
        BY <3>1, <3>2, <3>3, <3>5, FirstInFront
      <4>2. H(B)
        BY <4>1 DEF Hit, First
      <4>3. QED
        BY <2>1, <3>4, <3>5, <4>1, <4>2
    <3>6. CASE port # "53" /\ to \in Private
      <4>1. F(B) = "REJECT"
        BY <3>1, <3>2, <3>3, <3>6, FirstBehind
      <4>2. H(B)
        BY <4>1 DEF Hit, First
      <4>3. QED
        BY <2>1, <3>4, <3>6, <4>1, <4>2
    <3>7. CASE port # "53" /\ to \notin Private
      <4>1. ~H(B)
        BY <3>1, <3>2, <3>3, <3>7, NoHit
      <4>2. QED
        BY <2>1, <3>4, <3>7, <4>1
    <3>8. QED
      BY <3>5, <3>6, <3>7
  <2>2. CASE ~p.internet
    BY <2>2, Empty
  <2>3. QED
    BY <2>1, <2>2
<1>6. C \in Seq(Deciding)
  BY ChosenType
<1> HIDE DEF A, B, C
<1>7. F((A \o B) \o C) = IF H(A) THEN F(A) ELSE IF H(B) THEN F(B) ELSE F(C)
  BY <1>4, <1>5, <1>6, FirstOfThree
<1>8. F((A \o B) \o C) # "REJECT" <=> Says(p, rules, a, to, port)
  <2>1. CASE H(A)
    BY <1>4, <1>7, <2>1 DEF Says
  <2>2. CASE ~H(A) /\ H(B)
    BY <1>5, <1>7, <2>2 DEF Says
  <2>3. CASE ~H(A) /\ ~H(B)
    BY <1>4, <1>5, <1>7, <2>3 DEF Says, C
  <2>4. QED
    BY <2>1, <2>2, <2>3
<1>9. QED
  BY <1>1, <1>8

(* Of the rules of all profiles those for the packet's source decide.      *)
LEMMA ProfileDecides ==
    ASSUME NEW p \in Profile, NEW raw \in BOOLEAN, NEW rules \in Seq(Plain),
           p.enabled, p.ip # p.rawIP,
           NEW s \in DOMAIN Sources(p, raw), NEW to, NEW port
    PROVE  LET a == Sources(p, raw)[s]
           IN  First(ForProfile(p, raw, rules), a, to, port)
               = First(ForSource(a, p, rules), a, to, port)
<1> DEFINE a == Sources(p, raw)[s]
           ss == [k \in DOMAIN Sources(p, raw) |->
                     ForSource(Sources(p, raw)[k], p, rules)]
<1>1. \A k \in DOMAIN Sources(p, raw) : Sources(p, raw)[k] \in Addresses
  BY SourcesType
<1>2. \A k \in DOMAIN Sources(p, raw) :
          ss[k] \in Seq(About(Sources(p, raw)[k]))
  BY <1>1, SourceType
<1>3. ForProfile(p, raw, rules) = FlattenSeq(ss)
  BY DEF ForProfile
<1>4. ss[s] = ForSource(a, p, rules)
  OBVIOUS
<1>5. DOMAIN ss = DOMAIN Sources(p, raw)
      /\ ss = [k \in DOMAIN Sources(p, raw) |-> ss[k]]
  OBVIOUS
<1>6. ASSUME NEW k \in DOMAIN Sources(p, raw), k # s
      PROVE  ~Hit(ss[k], a, to, port)
  <2>1. Sources(p, raw)[k] # a
    <3>1. CASE raw
      <4>1. /\ k \in {1, 2} /\ s \in {1, 2}
            /\ Sources(p, raw)[1] # Sources(p, raw)[2]
        BY <3>1, SourcesType
      <4>2. QED
        BY <1>6, <4>1
    <3>2. CASE ~raw
      <4>1. DOMAIN Sources(p, raw) = {1}
        BY <3>2, SourcesType
      <4>2. QED
        BY <1>6, <4>1
    <3>3. QED
      BY <3>1, <3>2
  <2>2. \A f \in About(Sources(p, raw)[k]) : f.from # {} /\ a \notin f.from
    BY <2>1 DEF About
  <2> HIDE DEF a, ss
  <2>3. QED
    BY <1>2, <2>2, NotAbout
<1> HIDE DEF a, ss
<1>7. ss \in Seq(Seq(Deciding))
  <2>1. \A k \in DOMAIN Sources(p, raw) : ss[k] \in Seq(Deciding)
    BY <1>2, SeqMonotonic DEF About
  <2>2. Sources(p, raw) \in Seq({p.ip, p.rawIP})
    BY SourcesType
  <2>3. QED
    BY <1>5, <2>1, <2>2, Positions
<1>8. First(FlattenSeq(ss), a, to, port) = First(ss[s], a, to, port)
  BY <1>5, <1>6, <1>7, FirstFlatten
<1>9. QED
  BY <1>3, <1>4, <1>8 DEF a

LEMMA CompileDecides ==
    ASSUME NEW c \in Known, NEW raw \in BOOLEAN, ~NamesSources(c),
           NEW k \in DOMAIN c.profiles, c.profiles[k].enabled,
           NEW s \in DOMAIN Sources(c.profiles[k], raw), NEW to, NEW port
    PROVE  First(Compile(c, raw), Sources(c.profiles[k], raw)[s], to, port)
           = First(ForSource(Sources(c.profiles[k], raw)[s], c.profiles[k],
                             RulesOf(c, c.profiles[k])),
                   Sources(c.profiles[k], raw)[s], to, port)
<1> DEFINE p == c.profiles[k]
           a == Sources(p, raw)[s]
<1>1. c \in Policies
      /\ \A i, j \in DOMAIN c.profiles :
            /\ c.profiles[i].ip # c.profiles[j].rawIP
            /\ i # j => /\ c.profiles[i].ip # c.profiles[j].ip
                        /\ c.profiles[i].rawIP # c.profiles[j].rawIP
  BY PoliciesAssumption
<1>2. p \in Profile /\ a \in {p.ip, p.rawIP}
  <2>1. p \in Profile
    BY <1>1, PoliciesType
  <2>2. \A q \in Profile : \A t \in DOMAIN Sources(q, raw) :
            Sources(q, raw)[t] \in {q.ip, q.rawIP}
    BY SourcesType
  <2>3. QED
    BY <2>1, <2>2
<1>3. ASSUME NEW j \in DOMAIN c.profiles, j # k
      PROVE  ~Hit(Parts(c, raw)[j], a, to, port)
  <2> DEFINE q == c.profiles[j]
  <2>1. q \in Profile /\ RulesOf(c, q) \in Seq(Plain)
    BY <1>1, PoliciesType
  <2>2. Parts(c, raw)[j] \in Seq(About(q.ip) \cup About(q.rawIP))
    BY <2>1, ProfileType DEF Parts
  <2>3. a \notin {q.ip, q.rawIP}
    BY <1>1, <1>2, <1>3
  <2>4. \A f \in About(q.ip) \cup About(q.rawIP) :
            f.from # {} /\ a \notin f.from
    BY <2>3 DEF About
  <2> HIDE DEF q, a
  <2>5. QED
    BY <2>2, <2>4, NotAbout
<1>4. DOMAIN Parts(c, raw) = DOMAIN c.profiles
  BY DEF Parts
<1>5. Parts(c, raw)[k] = ForProfile(p, raw, RulesOf(c, p))
  BY DEF Parts
<1>6. First(ForProfile(p, raw, RulesOf(c, p)), a, to, port)
      = First(ForSource(a, p, RulesOf(c, p)), a, to, port)
  <2>1. p \in Profile /\ RulesOf(c, p) \in Seq(Plain) /\ p.ip # p.rawIP
    BY <1>1, PoliciesType
  <2>2. QED
    BY <2>1, ProfileDecides
<1> HIDE DEF a, p
<1>7. First(FlattenSeq(Parts(c, raw)), a, to, port)
      = First(Parts(c, raw)[k], a, to, port)
  BY <1>1, <1>3, <1>4, CompileType, FirstFlatten
<1>8. QED
  BY <1>1, <1>5, <1>6, <1>7, CompileType DEF a, p

LEMMA AllDecided ==
    \A c \in Known, raw \in BOOLEAN : ~NamesSources(c) =>
        \A k \in DOMAIN c.profiles : c.profiles[k].enabled =>
            \A s \in DOMAIN Sources(c.profiles[k], raw),
               to \in Dests, port \in Ports :
                First(Compile(c, raw), Sources(c.profiles[k], raw)[s], to, port)
                = First(ForSource(Sources(c.profiles[k], raw)[s], c.profiles[k],
                                  RulesOf(c, c.profiles[k])),
                        Sources(c.profiles[k], raw)[s], to, port)
  BY CompileDecides

(***************************************************************************)
(* The inductive invariant                                                 *)
(***************************************************************************)
Places == {"free", "begin", "jump", "fill", "served"}
Slot == [at : Places, c : Known, raw : BOOLEAN, todo : Seq(Deciding),
         alone : BOOLEAN, hooked : BOOLEAN]
Left == [c : Known, raw : BOOLEAN, known : BOOLEAN, hooked : BOOLEAN]

USE DEF Slot, Left

Types ==
    /\ stored \in Known
    /\ install \in [Installs -> Slot]
    /\ chain \in Seq(Filters)
    /\ jump \in {"none", "tunnel", "both"}
    /\ hook \in {"idle", "jump", "internet", "return"}
    /\ last \in Left

(* What an install has yet to write.                                       *)
ToDo ==
    \A i \in Installs :
        /\ Len(install[i].todo) <= Len(Compile(install[i].c, install[i].raw))
        /\ install[i].at = "begin" =>
               /\ install[i].todo = Compile(install[i].c, install[i].raw)
               /\ ~install[i].hooked

(* Nobody has written into the chain but the install: it holds the first   *)
(* of its rules, and the others are still to come.                         *)
Written ==
    \A i \in Installs :
        install[i].at \in {"jump", "fill"} /\ install[i].alone
            /\ ~install[i].hooked =>
        chain \o install[i].todo = Compile(install[i].c, install[i].raw)

(* After an undisturbed install the chain holds its rules and a RETURN,    *)
(* behind which the hook appends.                                          *)
Ended(c, raw, rest) == (Compile(c, raw) \o <<Return>>) \o rest

InForce ==
    last.known /\ ~last.hooked =>
        \E rest \in Seq(Deciding) : chain = Ended(last.c, last.raw, rest)

(* The jump is missing only until the hook has come, or while nothing has  *)
(* been installed yet.                                                     *)
Jumped ==
    jump = "none" => \/ hook = "jump"
                     \/ /\ ~last.known
                        /\ \A i \in Installs : install[i].at # "fill"

Inv == Types /\ ToDo /\ Written /\ InForce /\ Jumped

LEMMA Compiled ==
    ASSUME NEW c \in Known, NEW raw \in BOOLEAN
    PROVE  Compile(c, raw) \in Seq(Deciding) /\ Len(Compile(c, raw)) \in Nat
  BY PoliciesAssumption, CompileType, LenProperties

LEMMA ReturnIsLast == Return \notin Deciding /\ Return \in Filters
  BY DEF Return, Filter, Deciding, Filters

LEMMA StartedType ==
    ASSUME NEW c \in Known, NEW raw \in BOOLEAN
    PROVE  /\ Started(c, raw) \in Slot
           /\ Started(c, raw).at = "begin" /\ Started(c, raw).c = c
           /\ Started(c, raw).raw = raw /\ ~Started(c, raw).hooked
           /\ Started(c, raw).todo = Compile(c, raw)
<1>1. PICK todo \in Seq(Deciding) : todo = Compile(c, raw)
  BY Compiled
<1>2. Started(c, raw) = [NoInstall EXCEPT !.at = "begin", !.c = c, !.raw = raw,
                                          !.todo = todo]
  BY <1>1 DEF Started
<1>3. QED
  BY <1>1, <1>2 DEF NoInstall, Places

LEMMA FreeType ==
    /\ NoInstall \in Slot
    /\ NoInstall.at = "free" /\ Len(NoInstall.todo) = 0
    /\ ~NoInstall.alone /\ NoInstall.c \in Known /\ NoInstall.raw \in BOOLEAN
    /\ Nothing \in Left
    /\ ~Nothing.known
  BY DEF NoInstall, Nothing, Places, Known

LEMMA InitInv == Init => Inv
<1> SUFFICES ASSUME Init PROVE Inv
  OBVIOUS
<1> USE DEF Init
<1>1. Types
  BY FreeType DEF Types, Known
<1>2. ToDo
  BY FreeType, Compiled DEF ToDo
<1>3. Written /\ InForce /\ Jumped
  BY FreeType DEF Written, InForce, Jumped
<1>4. QED
  BY <1>1, <1>2, <1>3 DEF Inv

(* An install begins or ends, and nothing else changes.                    *)
LEMMA ReplaceInv ==
    ASSUME Inv, NEW i \in Installs, NEW new,
           install' = [install EXCEPT ![i] = new],
           \/ new = NoInstall
           \/ \E c \in Known, raw \in BOOLEAN : new = Started(c, raw),
           stored' \in Known, UNCHANGED <<chain, jump, hook, last>>
    PROVE  Inv'
<1> USE DEF Inv
<1>1. /\ new \in Slot
      /\ new.at \in {"free", "begin"}
      /\ Len(new.todo) <= Len(Compile(new.c, new.raw))
      /\ new.at = "begin" => /\ new.todo = Compile(new.c, new.raw)
                             /\ ~new.hooked
  <2>1. CASE new = NoInstall
    BY <2>1, FreeType, Compiled
  <2>2. ASSUME NEW c \in Known, NEW raw \in BOOLEAN, new = Started(c, raw)
        PROVE  /\ new.at = "begin" /\ ~new.hooked
               /\ new.todo = Compile(new.c, new.raw)
               /\ Len(new.todo) <= Len(Compile(new.c, new.raw))
               /\ new \in Slot
    <3>1. /\ new.at = "begin" /\ ~new.hooked /\ new.c = c /\ new.raw = raw
          /\ new.todo = Compile(c, raw)
          /\ new \in Slot
      BY <2>2, StartedType
    <3>2. Len(Compile(c, raw)) \in Nat
      BY Compiled
    <3>3. QED
      BY <3>1, <3>2
  <2>3. QED
    BY <2>1, <2>2
<1>2. /\ DOMAIN install = Installs /\ install'[i] = new
      /\ \A j \in Installs : j # i => install'[j] = install[j]
  BY DEF Types
<1>3. Types'
  BY <1>1 DEF Types
<1>4. ToDo' /\ Written'
  BY <1>1, <1>2 DEF ToDo, Written
<1>5. InForce' /\ Jumped'
  BY <1>1, <1>2 DEF InForce, Jumped
<1>6. QED
  BY <1>3, <1>4, <1>5

LEMMA BeginInv ==
    ASSUME Inv, NEW i \in Installs, NEW c \in Known, NEW raw \in BOOLEAN,
           Begin(i, c, raw), stored' \in Known,
           UNCHANGED <<chain, jump, hook, last>>
    PROVE  Inv'
  BY ReplaceInv DEF Begin

LEMMA SaveInv ==
    ASSUME Inv, NEW c \in Configs, Save(c)
    PROVE  Inv'
<1>1. stored' \in Known /\ c \in Known
  BY DEF Save, Known
<1>2. CASE UNCHANGED install
  BY <1>1, <1>2 DEF Save, Inv, Types, ToDo, Written, InForce, Jumped
<1>3. ASSUME NEW i \in Installs, Begin(i, c, TRUE) PROVE Inv'
  BY <1>1, <1>3, BeginInv DEF Save
<1>4. QED
  BY <1>2, <1>3 DEF Save

LEMMA LaunchInv ==
    ASSUME Inv, NEW i \in Installs, Launch(i)
    PROVE  Inv'
  BY BeginInv DEF Launch, Inv, Types

LEMMA StartRawInv ==
    ASSUME Inv, NEW i \in Installs, StartRaw(i)
    PROVE  Inv'
<1>1. install[i].c \in Known /\ stored' \in Known
  BY DEF Inv, Types, StartRaw
<1>2. QED
  BY <1>1, ReplaceInv DEF StartRaw

LEMMA FailInv ==
    ASSUME Inv, NEW i \in Installs, Fail(i)
    PROVE  Inv'
<1>1. stored' \in Known
  BY DEF Inv, Types, Fail
<1>2. QED
  BY <1>1, ReplaceInv DEF Fail

(* An install writes into the chain, and the others are not alone.         *)
LEMMA WritesInv ==
    ASSUME Inv, NEW i \in Installs, NEW new, Writes(i, new),
           new \in Slot,
           new.at # "begin",
           Len(new.todo) <= Len(Compile(new.c, new.raw)),
           new.at \in {"jump", "fill"} /\ new.alone /\ ~new.hooked =>
               chain' \o new.todo = Compile(new.c, new.raw),
           new.at = "fill" => install[i].at = "fill",
           chain' \in Seq(Filters),
           \/ last' = Nothing
           \/ /\ last' \in Left
              /\ install[i].at = "fill"
              /\ last'.known /\ ~last'.hooked =>
                     \E rest \in Seq(Deciding) :
                         chain' = Ended(last'.c, last'.raw, rest),
           UNCHANGED <<stored, jump, hook>>
    PROVE  Inv'
<1> USE DEF Inv
<1>1. install'[i] = new
  BY DEF Writes
<1>2. \A j \in Installs :
          j # i => install'[j] = [install[j] EXCEPT !.alone = FALSE]
  BY DEF Writes
<1>3. \A j \in Installs : j # i =>
          /\ install'[j].at = install[j].at /\ install'[j].c = install[j].c
          /\ install'[j].raw = install[j].raw
          /\ install'[j].todo = install[j].todo
          /\ install'[j].hooked = install[j].hooked
          /\ install'[j].alone = FALSE
          /\ install'[j] \in Slot
  <2> SUFFICES ASSUME NEW j \in Installs, j # i
               PROVE  /\ install'[j].at = install[j].at
                      /\ install'[j].c = install[j].c
                      /\ install'[j].raw = install[j].raw
                      /\ install'[j].todo = install[j].todo
                      /\ install'[j].hooked = install[j].hooked
                      /\ install'[j].alone = FALSE
                      /\ install'[j] \in Slot
    OBVIOUS
  <2>1. install[j] \in Slot
    BY DEF Types
  <2>2. install'[j] = [install[j] EXCEPT !.alone = FALSE]
    BY <1>2
  <2>3. QED
    BY <2>1, <2>2
<1>4. Types'
  <2>1. \A j \in Installs : install'[j] \in Slot
    BY <1>1, <1>3
  <2>2. install' = [j \in Installs |-> install'[j]]
    BY DEF Writes
  <2>3. last' \in Left
    BY FreeType
  <2>4. QED
    BY <2>1, <2>2, <2>3 DEF Types
<1>5. ToDo'
  BY <1>1, <1>3 DEF ToDo
<1>6. Written'
  BY <1>1, <1>3 DEF Written
<1>7. InForce'
  BY FreeType DEF InForce
<1>8. Jumped'
  <2> SUFFICES ASSUME jump = "none", hook # "jump"
               PROVE  /\ ~last'.known
                      /\ \A j \in Installs : install'[j].at # "fill"
    BY DEF Jumped
  <2>1. \A j \in Installs : install[j].at # "fill"
    BY DEF Jumped
  <2>2. QED
    BY <1>1, <1>3, <2>1, FreeType
<1>9. QED
  BY <1>4, <1>5, <1>6, <1>7, <1>8

LEMMA FlushInv ==
    ASSUME Inv, NEW i \in Installs, Flush(i)
    PROVE  Inv'
<1> DEFINE new == [install[i] EXCEPT !.at = "jump", !.alone = TRUE]
<1>1. /\ install[i].at = "begin" /\ chain' = <<>> /\ Writes(i, new)
      /\ last' = Nothing /\ UNCHANGED <<stored, jump, hook>>
  BY DEF Flush, Flushed
<1>2. install[i] \in Slot
  BY DEF Inv, Types
<1>3. /\ new \in Slot
      /\ new.at = "jump" /\ new.c = install[i].c /\ new.raw = install[i].raw
      /\ new.todo = install[i].todo
  BY <1>2 DEF Places
<1>4. new.todo = Compile(new.c, new.raw)
  BY <1>1, <1>3 DEF Inv, ToDo
<1> HIDE DEF new
<1>5. chain' \o new.todo = Compile(new.c, new.raw)
  BY <1>1, <1>3, <1>4, ConcatEmptySeq
<1>6. Len(new.todo) <= Len(Compile(new.c, new.raw))
  BY <1>2, <1>3, <1>4, Compiled
<1>7. chain' \in Seq(Filters)
  BY <1>1, EmptySeq
<1>8. QED
  BY <1>1, <1>3, <1>5, <1>6, <1>7, WritesInv

LEMMA HookInv ==
    ASSUME Inv, NEW i \in Installs, Hook(i)
    PROVE  Inv'
<1> USE DEF Inv
<1>1. /\ install[i].at = "jump" /\ install' = [install EXCEPT ![i].at = "fill"]
      /\ jump' \in {"tunnel", "both"} /\ UNCHANGED <<stored, chain, hook, last>>
  BY DEF Hook
<1>2. /\ install'[i].at = "fill" /\ install'[i].c = install[i].c
      /\ install'[i].raw = install[i].raw /\ install'[i].todo = install[i].todo
      /\ install'[i].hooked = install[i].hooked
      /\ install'[i].alone = install[i].alone
      /\ \A j \in Installs : j # i => install'[j] = install[j]
  BY <1>1 DEF Types
<1>3. Types'
  BY <1>1 DEF Types, Places
<1>4. ToDo' /\ Written'
  BY <1>1, <1>2 DEF ToDo, Written
<1>5. InForce' /\ Jumped'
  BY <1>1 DEF InForce, Jumped
<1>6. QED
  BY <1>3, <1>4, <1>5

LEMMA AppendRuleInv ==
    ASSUME Inv, NEW i \in Installs, AppendRule(i)
    PROVE  Inv'
<1> DEFINE new == [install[i] EXCEPT !.todo = Tail(@)]
<1>1. /\ install[i].at = "fill" /\ install[i].todo # <<>>
      /\ chain' = Append(chain, Head(install[i].todo)) /\ Writes(i, new)
      /\ last' = Nothing /\ UNCHANGED <<stored, jump, hook>>
  BY DEF AppendRule
<1>2. install[i] \in Slot
      /\ chain \in Seq(Filters)
  BY DEF Inv, Types
<1>3. PICK todo \in Seq(Deciding) : todo = install[i].todo
  BY <1>2
<1>4. /\ Head(todo) \in Deciding /\ Tail(todo) \in Seq(Deciding)
      /\ Len(Tail(todo)) = Len(todo) - 1
      /\ todo = <<Head(todo)>> \o Tail(todo)
  <2>1. todo # <<>>
    BY <1>1, <1>3
  <2>2. QED
    BY <2>1, HeadTailProperties
<1>5. /\ new \in Slot
      /\ new.at = "fill" /\ new.c = install[i].c /\ new.raw = install[i].raw
      /\ new.todo = Tail(todo) /\ new.alone = install[i].alone
      /\ new.hooked = install[i].hooked
  BY <1>1, <1>2, <1>3, <1>4
<1> HIDE DEF new
<1>6. Len(new.todo) <= Len(Compile(new.c, new.raw))
  <2>1. PICK l \in Nat : l = Len(todo)
    BY LenProperties
  <2>2. PICK n \in Nat : n = Len(Compile(new.c, new.raw))
    BY <1>5, Compiled
  <2>3. l <= n
    BY <1>3, <1>5, <2>1, <2>2 DEF Inv, ToDo
  <2>4. l - 1 <= n
    BY <2>3
  <2>5. QED
    BY <1>4, <1>5, <2>1, <2>2, <2>4
<1>7. chain' \in Seq(Filters) /\ chain' = chain \o <<Head(todo)>>
  BY <1>1, <1>2, <1>3, <1>4, AppendProperties, AppendIsConcat DEF Filters
<1>8. chain' \o new.todo = chain \o todo
  <2>1. /\ todo \in Seq(Filters) /\ <<Head(todo)>> \in Seq(Filters)
        /\ Tail(todo) \in Seq(Filters)
    BY <1>4, SeqMonotonic DEF Filters
  <2>2. (chain \o <<Head(todo)>>) \o Tail(todo)
        = chain \o (<<Head(todo)>> \o Tail(todo))
    BY <1>2, <2>1, ConcatAssociative
  <2>3. QED
    BY <1>4, <1>5, <1>7, <2>2
<1>9. new.alone /\ ~new.hooked => chain' \o new.todo = Compile(new.c, new.raw)
  BY <1>1, <1>3, <1>5, <1>8 DEF Inv, Written
<1>10. QED
  BY <1>1, <1>5, <1>6, <1>7, <1>9, WritesInv

LEMMA FinishInv ==
    ASSUME Inv, NEW i \in Installs, Finish(i)
    PROVE  Inv'
<1> DEFINE new == IF install[i].raw THEN NoInstall
                  ELSE [install[i] EXCEPT !.at = "served"]
<1>1. /\ install[i].at = "fill" /\ install[i].todo = <<>>
      /\ chain' = Append(chain, Return) /\ Writes(i, new)
      /\ last' = [c |-> install[i].c, raw |-> install[i].raw,
                  known |-> install[i].alone, hooked |-> install[i].hooked]
      /\ UNCHANGED <<stored, jump, hook>>
  BY DEF Finish
<1>2. /\ install[i] \in Slot
      /\ chain \in Seq(Filters)
  BY DEF Inv, Types
<1>3. /\ new \in Slot
      /\ new.at \in {"free", "served"}
      /\ Len(new.todo) <= Len(Compile(new.c, new.raw))
  <2>1. CASE install[i].raw
    BY <2>1, FreeType, Compiled
  <2>2. CASE ~install[i].raw
    <3>1. /\ new = [install[i] EXCEPT !.at = "served"]
          /\ new.at = "served" /\ new.todo = <<>>
          /\ new.c = install[i].c /\ new.raw = install[i].raw
      BY <1>1, <1>2, <2>2
    <3>2. Len(new.todo) = 0
      BY <3>1, EmptySeq
    <3>3. new \in Slot
      BY <1>2, <3>1 DEF Places
    <3>4. install[i].c \in Known /\ install[i].raw \in BOOLEAN
      BY <1>2
    <3> HIDE DEF new
    <3>5. Len(Compile(new.c, new.raw)) \in Nat
      BY <3>1, <3>4, Compiled
    <3>6. QED
      BY <3>1, <3>2, <3>3, <3>5
  <2>3. QED
    BY <2>1, <2>2
<1> HIDE DEF new
<1>4. chain' = chain \o <<Return>> /\ chain' \in Seq(Filters)
  BY <1>1, <1>2, ReturnIsLast, AppendProperties, AppendIsConcat
<1>5. last' \in Left
  BY <1>1, <1>2
<1>6. ASSUME last'.known, ~last'.hooked
      PROVE  \E rest \in Seq(Deciding) : chain' = Ended(last'.c, last'.raw, rest)
  <2>1. install[i].alone /\ ~install[i].hooked
    BY <1>1, <1>6
  <2>2. chain \o <<>> = Compile(install[i].c, install[i].raw)
    BY <1>1, <2>1 DEF Inv, Written
  <2>3. chain = Compile(last'.c, last'.raw)
    BY <1>1, <1>2, <2>2, ConcatEmptySeq
  <2>4. chain' = Ended(last'.c, last'.raw, <<>>)
    BY <1>4, <2>3, ConcatEmptySeq DEF Ended
  <2>5. QED
    BY <2>4, EmptySeq
<1>7. QED
  BY <1>1, <1>3, <1>4, <1>5, <1>6, WritesInv

(***************************************************************************)
(* The hook                                                                *)
(***************************************************************************)
LEMMA RebuildInv == Inv /\ Rebuild => Inv'
  BY DEF Inv, Rebuild, Types, ToDo, Written, InForce, Jumped

LEMMA HookJumpInv == Inv /\ HookJump => Inv'
  BY DEF Inv, HookJump, Types, ToDo, Written, InForce, Jumped

LEMMA HookRulesType ==
    ASSUME Inv
    PROVE  HookRules \in Seq(Deciding)
<1>1. stored \in Policies
  BY PoliciesAssumption DEF Inv, Types
<1>2. stored.profiles \in Seq(Profile)
  BY <1>1 DEF Policies
<1> DEFINE all == [k \in DOMAIN stored.profiles |->
                      HookRulesFor(stored.profiles[k])]
           rules == FlattenSeq(all)
           ss == [k \in DOMAIN rules |->
                     IF InChain(rules[k]) THEN <<>> ELSE <<rules[k]>>]
<1>3. \A k \in DOMAIN stored.profiles : all[k] \in Seq(Deciding)
  <2> SUFFICES ASSUME NEW k \in DOMAIN stored.profiles
               PROVE  HookRulesFor(stored.profiles[k]) \in Seq(Deciding)
    OBVIOUS
  <2>1. PICK p \in Profile : p = stored.profiles[k]
    BY <1>1, PoliciesType
  <2>2. p.ip \in Addresses /\ p.rawIP \in Addresses
    BY DEF Profile
  <2>3. /\ AllowDNS(p.ip, {}) \in Deciding /\ AllowDNS(p.rawIP, {}) \in Deciding
        /\ Reject(p.ip) \in Deciding /\ Reject(p.rawIP) \in Deciding
    BY <2>2, FixedType DEF About
  <2>4. HookRulesFor(p) \in Seq(Deciding)
    BY <2>3 DEF HookRulesFor
  <2>5. QED
    BY <2>1, <2>4
<1>4. DOMAIN all = DOMAIN stored.profiles
      /\ all = [k \in DOMAIN stored.profiles |-> all[k]]
  OBVIOUS
<1> HIDE DEF all
<1>5. all \in Seq(Seq(Deciding))
  BY <1>2, <1>3, <1>4, Positions
<1>6. rules \in Seq(Deciding)
  BY <1>5, FlattenType
<1>7. HookRules = FlattenSeq(ss)
  BY DEF HookRules, Missing, all
<1> HIDE DEF rules
<1>8. \A k \in DOMAIN rules : ss[k] \in Seq(Deciding)
  <2> SUFFICES ASSUME NEW k \in DOMAIN rules PROVE ss[k] \in Seq(Deciding)
    OBVIOUS
  <2>1. rules[k] \in Deciding
    BY <1>6, LenProperties, ElementOfSeq
  <2>2. <<rules[k]>> \in Seq(Deciding) /\ <<>> \in Seq(Deciding)
    BY <2>1
  <2>3. QED
    BY <2>2
<1>9. DOMAIN ss = DOMAIN rules /\ ss = [k \in DOMAIN rules |-> ss[k]]
  OBVIOUS
<1> HIDE DEF ss
<1>10. ss \in Seq(Seq(Deciding))
  BY <1>6, <1>8, <1>9, Positions
<1>11. QED
  BY <1>7, <1>10, FlattenType

(* The hook writes while an install is under way: that one is disturbed.   *)
LEMMA HookedFacts ==
    ASSUME Inv, Hooked
    PROVE  /\ install' \in [Installs -> Slot]
           /\ \A i \in Installs :
                 /\ install'[i].at = install[i].at /\ install'[i].c = install[i].c
                 /\ install'[i].raw = install[i].raw
                 /\ install'[i].todo = install[i].todo
                 /\ install'[i].alone = install[i].alone
                 /\ chain' = chain \/ install[i].at \notin {"jump", "fill"} =>
                        install'[i].hooked = install[i].hooked
                 /\ ~(chain' = chain) /\ install[i].at \in {"jump", "fill"} =>
                        install'[i].hooked
<1>1. install \in [Installs -> Slot]
  BY DEF Inv, Types
<1>2. CASE chain' = chain
  BY <1>1, <1>2 DEF Hooked
<1>3. CASE ~(chain' = chain)
  <2>1. install' = [i \in Installs |->
                       IF install[i].at \in {"jump", "fill"}
                       THEN [install[i] EXCEPT !.hooked = TRUE]
                       ELSE install[i]]
    BY <1>3 DEF Hooked
  <2>2. \A i \in Installs :
            /\ install'[i] = IF install[i].at \in {"jump", "fill"}
                             THEN [install[i] EXCEPT !.hooked = TRUE]
                             ELSE install[i]
            /\ install[i] \in Slot
    BY <1>1, <2>1
  <2>3. \A i \in Installs :
            /\ install'[i] \in Slot
            /\ install'[i].at = install[i].at /\ install'[i].c = install[i].c
            /\ install'[i].raw = install[i].raw
            /\ install'[i].todo = install[i].todo
            /\ install'[i].alone = install[i].alone
            /\ install[i].at \notin {"jump", "fill"} =>
                   install'[i].hooked = install[i].hooked
            /\ install[i].at \in {"jump", "fill"} => install'[i].hooked
    BY <2>2
  <2>4. install' \in [Installs -> Slot]
    BY <2>1, <2>3
  <2>5. QED
    BY <1>3, <2>3, <2>4
<1>4. QED
  BY <1>2, <1>3

LEMMA HookWritesInv ==
    ASSUME Inv, Hooked, chain' \in Seq(Filters),
           hook' \in {"idle", "jump", "internet", "return"}, hook # "jump",
           last.known /\ ~last.hooked =>
               \E rest \in Seq(Deciding) : chain' = Ended(last.c, last.raw, rest),
           UNCHANGED <<stored, jump, last>>
    PROVE  Inv'
<1>1. Types'
  BY HookedFacts DEF Inv, Types
<1>2. ToDo' /\ Written'
  <2> SUFFICES ASSUME NEW i \in Installs
               PROVE  /\ Len(install'[i].todo)
                             <= Len(Compile(install'[i].c, install'[i].raw))
                      /\ install'[i].at = "begin" =>
                             /\ install'[i].todo
                                    = Compile(install'[i].c, install'[i].raw)
                             /\ ~install'[i].hooked
                      /\ install'[i].at \in {"jump", "fill"} /\ install'[i].alone
                             /\ ~install'[i].hooked =>
                         chain' \o install'[i].todo
                             = Compile(install'[i].c, install'[i].raw)
    BY DEF ToDo, Written
  <2>1. /\ install'[i].at = install[i].at /\ install'[i].c = install[i].c
        /\ install'[i].raw = install[i].raw
        /\ install'[i].todo = install[i].todo
        /\ install'[i].alone = install[i].alone
    BY HookedFacts
  <2>2. Len(install'[i].todo) <= Len(Compile(install'[i].c, install'[i].raw))
    BY <2>1 DEF Inv, ToDo
  <2>3. ASSUME install'[i].at = "begin"
        PROVE  /\ install'[i].todo = Compile(install'[i].c, install'[i].raw)
               /\ ~install'[i].hooked
    <3>1. install[i].at = "begin" /\ install[i].at \notin {"jump", "fill"}
      BY <2>1, <2>3
    <3>2. install[i].todo = Compile(install[i].c, install[i].raw)
          /\ ~install[i].hooked
      BY <3>1 DEF Inv, ToDo
    <3>3. install'[i].hooked = install[i].hooked
      BY <3>1, HookedFacts
    <3>4. QED
      BY <2>1, <3>2, <3>3
  <2>4. ASSUME install'[i].at \in {"jump", "fill"}, install'[i].alone,
               ~install'[i].hooked
        PROVE  chain' \o install'[i].todo
                   = Compile(install'[i].c, install'[i].raw)
    <3>1. install[i].at \in {"jump", "fill"} /\ install[i].alone
      BY <2>1, <2>4
    <3>2. chain' = chain
      BY <2>4, <3>1, HookedFacts
    <3>3. ~install[i].hooked
      BY <2>4, <3>2, HookedFacts
    <3>4. chain \o install[i].todo = Compile(install[i].c, install[i].raw)
      BY <3>1, <3>3 DEF Inv, Written
    <3>5. QED
      BY <2>1, <3>2, <3>4
  <2>5. QED
    BY <2>2, <2>3, <2>4
<1>3. InForce' /\ Jumped'
  BY HookedFacts DEF Inv, InForce, Jumped
<1>4. QED
  BY <1>1, <1>2, <1>3 DEF Inv

LEMMA EndedType ==
    ASSUME NEW c \in Known, NEW raw \in BOOLEAN, NEW rest \in Seq(Deciding)
    PROVE  /\ Compile(c, raw) \in Seq(Filters) /\ <<Return>> \in Seq(Filters)
           /\ Compile(c, raw) \o <<Return>> \in Seq(Filters)
           /\ rest \in Seq(Filters)
           /\ Ended(c, raw, rest) \in Seq(Filters)
<1>1. Compile(c, raw) \in Seq(Filters) /\ rest \in Seq(Filters)
  BY Compiled, SeqMonotonic DEF Filters
<1>2. <<Return>> \in Seq(Filters)
  BY ReturnIsLast
<1>3. Compile(c, raw) \o <<Return>> \in Seq(Filters)
  BY <1>1, <1>2, ConcatProperties
<1>4. QED
  BY <1>1, <1>2, <1>3, ConcatProperties DEF Ended

(* The RETURN is where the compiled rules end, and nowhere else.           *)
LEMMA OneReturn ==
    ASSUME NEW c \in Known, NEW raw \in BOOLEAN, NEW rest \in Seq(Deciding)
    PROVE  {k \in DOMAIN Ended(c, raw, rest) : Ended(c, raw, rest)[k] = Return}
           = {Len(Compile(c, raw)) + 1}
<1>1. PICK s \in Seq(Filters) : s = Compile(c, raw) /\ s \in Seq(Deciding)
  BY EndedType, Compiled
<1>2. PICK t \in Seq(Filters) : t = s \o <<Return>>
  BY <1>1, EndedType
<1>3. PICK u \in Seq(Filters) : u = t \o rest /\ u = Ended(c, raw, rest)
  BY <1>1, <1>2, EndedType DEF Ended
<1>4. PICK m \in Nat, n \in Nat : m = Len(s) /\ n = Len(rest)
                                /\ DOMAIN s = 1 .. m /\ DOMAIN rest = 1 .. n
  BY <1>1, LenProperties
<1>5. /\ Len(t) = m + 1
      /\ \A k \in 1 .. m + 1 : t[k] = IF k <= m THEN s[k] ELSE Return
  <2>1. <<Return>> \in Seq(Filters) /\ Len(<<Return>>) = 1
    BY EndedType
  <2>2. /\ Len(s \o <<Return>>) = Len(s) + Len(<<Return>>)
        /\ \A k \in 1 .. Len(s) + Len(<<Return>>) :
              (s \o <<Return>>)[k] =
                  IF k <= Len(s) THEN s[k] ELSE <<Return>>[k - Len(s)]
    BY <2>1, ConcatProperties
  <2>3. \A k \in 1 .. m + 1 : ~(k <= m) => k - m = 1
    OBVIOUS
  <2>4. <<Return>>[1] = Return
    OBVIOUS
  <2>5. QED
    BY <1>2, <1>4, <2>1, <2>2, <2>3, <2>4
<1>6. /\ DOMAIN u = 1 .. m + 1 + n
      /\ \A k \in 1 .. m + 1 + n :
            u[k] = IF k <= m + 1 THEN t[k] ELSE rest[k - (m + 1)]
  <2>1. /\ Len(t \o rest) = Len(t) + Len(rest)
        /\ \A k \in 1 .. Len(t) + Len(rest) :
              (t \o rest)[k] = IF k <= Len(t) THEN t[k] ELSE rest[k - Len(t)]
    BY EndedType, ConcatProperties
  <2>2. DOMAIN u = 1 .. Len(u)
    BY LenProperties
  <2>3. QED
    BY <1>3, <1>4, <1>5, <2>1, <2>2
<1>7. /\ \A k \in 1 .. m : s[k] # Return
      /\ \A k \in 1 .. n : rest[k] # Return
  BY <1>1, <1>4, ElementOfSeq, ReturnIsLast
<1>8. ASSUME NEW k \in 1 .. m + 1 + n PROVE u[k] = Return <=> k = m + 1
  <2>1. CASE k <= m
    <3>1. k \in 1 .. m /\ k \in 1 .. m + 1 /\ k <= m + 1 /\ k # m + 1
      BY <2>1
    <3>2. QED
      BY <1>5, <1>6, <1>7, <2>1, <3>1
  <2>2. CASE k = m + 1
    <3>1. k \in 1 .. m + 1 /\ k <= m + 1 /\ ~(k <= m)
      BY <2>2
    <3>2. QED
      BY <1>5, <1>6, <2>2, <3>1
  <2>3. CASE k > m + 1
    <3>1. k - (m + 1) \in 1 .. n /\ ~(k <= m + 1) /\ k # m + 1
      BY <2>3
    <3>2. QED
      BY <1>6, <1>7, <3>1
  <2>4. QED
    BY <2>1, <2>2, <2>3
<1>9. m + 1 \in 1 .. m + 1 + n
  OBVIOUS
<1>10. {k \in 1 .. m + 1 + n : u[k] = Return} = {m + 1}
  BY <1>8, <1>9
<1>11. QED
  BY <1>1, <1>3, <1>4, <1>6, <1>10

LEMMA HookInternetInv == Inv /\ HookInternet => Inv'
<1> SUFFICES ASSUME Inv, HookInternet PROVE Inv'
  OBVIOUS
<1>1. PICK more \in Seq(Deciding) : more = HookRules
  BY HookRulesType
<1>2. chain' = chain \o more /\ Hooked /\ hook = "internet" /\ hook' = "return"
      /\ UNCHANGED <<stored, jump, last>>
  BY <1>1 DEF HookInternet
<1>3. more \in Seq(Filters) /\ chain \in Seq(Filters)
  BY SeqMonotonic DEF Inv, Types, Filters
<1>4. chain' \in Seq(Filters)
  BY <1>2, <1>3, ConcatProperties
<1>5. ASSUME last.known, ~last.hooked
      PROVE  \E rest \in Seq(Deciding) : chain' = Ended(last.c, last.raw, rest)
  <2>1. PICK rest \in Seq(Deciding) : chain = Ended(last.c, last.raw, rest)
    BY <1>5 DEF Inv, InForce
  <2>2. last.c \in Known /\ last.raw \in BOOLEAN
    BY DEF Inv, Types
  <2>3. PICK t : t = Compile(last.c, last.raw) \o <<Return>>
    OBVIOUS
  <2>4. t \in Seq(Filters) /\ rest \in Seq(Filters)
    BY <2>2, <2>3, EndedType
  <2>5. (t \o rest) \o more = t \o (rest \o more)
    BY <1>3, <2>4, ConcatAssociative
  <2>6. rest \o more \in Seq(Deciding)
    BY ConcatProperties
  <2>7. chain' = Ended(last.c, last.raw, rest \o more)
    BY <1>2, <2>1, <2>3, <2>5 DEF Ended
  <2>8. QED
    BY <2>6, <2>7
<1>6. QED
  BY <1>2, <1>4, <1>5, HookWritesInv

LEMMA HookReturnInv == Inv /\ HookReturn => Inv'
<1> SUFFICES ASSUME Inv, HookReturn PROVE Inv'
  OBVIOUS
<1>1. /\ chain' = IF InChain(Return) THEN chain ELSE Append(chain, Return)
      /\ Hooked /\ hook = "return" /\ hook' = "idle"
      /\ UNCHANGED <<stored, jump, last>>
  BY DEF HookReturn
<1>2. chain' \in Seq(Filters)
  BY <1>1, ReturnIsLast, AppendProperties DEF Inv, Types
<1>3. ASSUME last.known, ~last.hooked
      PROVE  \E rest \in Seq(Deciding) : chain' = Ended(last.c, last.raw, rest)
  <2>1. PICK rest \in Seq(Deciding) : chain = Ended(last.c, last.raw, rest)
    BY <1>3 DEF Inv, InForce
  <2>2. last.c \in Known /\ last.raw \in BOOLEAN
    BY DEF Inv, Types
  <2>3. InChain(Return)
    <3>1. PICK m : m = Len(Compile(last.c, last.raw)) + 1
      OBVIOUS
    <3>2. {k \in DOMAIN chain : chain[k] = Return} = {m}
      BY <2>1, <2>2, <3>1, OneReturn
    <3>3. m \in DOMAIN chain /\ chain[m] = Return
      BY <3>2
    <3>4. QED
      BY <3>3 DEF InChain
  <2>4. QED
    BY <1>1, <2>1, <2>3
<1>4. QED
  BY <1>1, <1>2, <1>3, HookWritesInv

(***************************************************************************)
(* All steps                                                               *)
(***************************************************************************)
LEMMA NextInv == Inv /\ [Next]_vars => Inv'
<1> SUFFICES ASSUME Inv, [Next]_vars PROVE Inv'
  OBVIOUS
<1>1. ASSUME NEW c \in Configs, Save(c) PROVE Inv'
  BY <1>1, SaveInv
<1>2. ASSUME NEW i \in Installs,
             \/ Launch(i) \/ Flush(i) \/ Hook(i) \/ AppendRule(i) \/ Finish(i)
             \/ StartRaw(i) \/ Fail(i)
      PROVE  Inv'
  BY <1>2, LaunchInv, FlushInv, HookInv, AppendRuleInv, FinishInv, StartRawInv,
     FailInv
<1>3. CASE Rebuild \/ HookJump \/ HookInternet \/ HookReturn
  BY <1>3, RebuildInv, HookJumpInv, HookInternetInv, HookReturnInv
<1>4. CASE UNCHANGED vars
  BY <1>4 DEF vars, Inv, Types, ToDo, Written, InForce, Jumped
<1>5. QED
  BY <1>1, <1>2, <1>3, <1>4 DEF Next

(***************************************************************************)
(* The theorems                                                            *)
(***************************************************************************)
(* The inductive invariant holds of every run.                             *)
THEOREM Invariance == Spec => []Inv
  BY InitInv, NextInv, PTL DEF Spec

(* Every reachable state is type correct, and after an undisturbed install *)
(* the chain has its RETURN once (ensureProfilePolicies, the hook).        *)
THEOREM TypeCorrect == Spec => []TypeOK
<1>1. Inv => TypeOK
  <2> SUFFICES ASSUME Inv PROVE TypeOK
    OBVIOUS
  <2>1. \A i \in Installs :
            /\ install[i].at \in {"free", "begin", "jump", "fill", "served"}
            /\ install[i].c \in Known
            /\ Len(install[i].todo)
                   <= Len(Compile(install[i].c, install[i].raw))
    BY DEF Inv, Types, ToDo, Places
  <2>2. ASSUME last.known, ~last.hooked
        PROVE  Cardinality({k \in DOMAIN chain : chain[k] = Return}) = 1
    <3>1. PICK rest \in Seq(Deciding) : chain = Ended(last.c, last.raw, rest)
      BY <2>2 DEF Inv, InForce
    <3>2. last.c \in Known /\ last.raw \in BOOLEAN
      BY DEF Inv, Types
    <3>3. PICK m : m = Len(Compile(last.c, last.raw)) + 1
      OBVIOUS
    <3>4. {k \in DOMAIN chain : chain[k] = Return} = {m}
      BY <3>1, <3>2, <3>3, OneReturn
    <3>5. Cardinality({m}) = 1
      BY FS_Singleton
    <3>6. QED
      BY <3>4, <3>5
  <2>3. QED
    BY <2>1, <2>2 DEF Inv, Types, TypeOK
<1>2. QED
  BY <1>1, Invariance, PTL

(* After an install that neither another install nor the hook wrote into,  *)
(* every packet of every profile is treated as the installed policies say, *)
(* until the next install begins (ensureProfilePolicies, and the hook that *)
(* repairs the chains), for any profiles and any rules without sources.    *)
THEOREM PoliciesHold == Spec => []PoliciesInForce
<1>1. Inv => PoliciesInForce
  <2> SUFFICES ASSUME Inv, last.known, ~last.hooked, ~NamesSources(last.c),
                      hook # "jump",
                      NEW k \in DOMAIN last.c.profiles,
                      last.c.profiles[k].enabled,
                      NEW s \in DOMAIN Sources(last.c.profiles[k],
                                               last.raw /\ jump = "both"),
                      NEW to \in Dests, NEW port \in Ports
               PROVE  LET p == last.c.profiles[k]
                          a == Sources(p, last.raw /\ jump = "both")[s]
                      IN  Passes(a, to, port) <=> Allowed(last.c, p, a, to, port)
    BY DEF PoliciesInForce, SaysWhatItMeans
  <2> DEFINE c == last.c
             p == c.profiles[k]
             a == Sources(p, last.raw /\ jump = "both")[s]
             rules == RulesOf(c, p)
  <2>1. c \in Known /\ c \in Policies /\ last.raw \in BOOLEAN
    BY PoliciesAssumption DEF Inv, Types
  <2>2. p \in Profile /\ rules \in Seq(Rule)
    BY <2>1, PoliciesType
  <2>3. s \in DOMAIN Sources(p, last.raw) /\ a = Sources(p, last.raw)[s]
        /\ a \in Addresses
    <3>1. PICK raw \in BOOLEAN : raw = (last.raw /\ jump = "both")
      OBVIOUS
    <3>2. s \in DOMAIN Sources(p, raw) /\ a = Sources(p, raw)[s]
      BY <3>1
    <3>3. raw => last.raw
      BY <3>1
    <3> HIDE DEF p, a
    <3>4. CASE raw
      <4>1. last.raw = TRUE /\ raw = TRUE
        BY <2>1, <3>3, <3>4
      <4>2. QED
        BY <2>2, <3>2, <4>1, SourcesType
    <3>5. CASE ~raw
      <4>1. s = 1 /\ a = p.ip
        BY <2>2, <3>2, <3>5, SourcesType
      <4>2. QED
        BY <2>1, <2>2, <4>1, SourcesType
    <3>6. QED
      BY <3>4, <3>5
  <2>4. jump # "none"
    BY DEF Inv, Jumped
  <2>5. PICK rest \in Seq(Deciding) : chain = Ended(c, last.raw, rest)
    BY DEF Inv, InForce
  <2>6. First(chain, a, to, port) = First(Compile(c, last.raw), a, to, port)
    <3>1. PICK v \in Seq(Filters) : v = Compile(c, last.raw)
      BY <2>1, EndedType
    <3>2. chain = (v \o <<Return>>) \o rest
          /\ <<Return>> \in Seq(Filters) /\ rest \in Seq(Filters)
      BY <2>1, <2>5, <3>1, EndedType DEF Ended
    <3>3. Hit(<<Return>>, a, to, port)
          /\ First(<<Return>>, a, to, port) = "RETURN"
      <4>1. PICK u \in Seq(Filters) : u = <<Return>>
        BY <3>2
      <4>2. DOMAIN u = {1} /\ u[1] = Return
        BY <4>1
      <4>3. Matches(Return, a, to, port) /\ Return.target = "RETURN"
        BY DEF Matches, Return, Filter
      <4>4. First(u, a, to, port) = u[1].target
        BY <4>2, <4>3, FirstMatch
      <4>5. QED
        BY <4>1, <4>2, <4>3, <4>4 DEF Hit
    <3>4. First(chain, a, to, port) =
              IF Hit(v, a, to, port) THEN First(v, a, to, port) ELSE "RETURN"
      <4>1. PICK t \in Seq(Filters) : t = <<Return>>
        BY <3>2
      <4>2. PICK x : x = a
        OBVIOUS
      <4>3. First((v \o t) \o rest, x, to, port) =
                IF Hit(v, x, to, port) THEN First(v, x, to, port)
                ELSE IF Hit(t, x, to, port) THEN First(t, x, to, port)
                ELSE First(rest, x, to, port)
        BY <3>2, FirstOfThree
      <4>4. QED
        BY <3>2, <3>3, <4>1, <4>2, <4>3
    <3>5. ~Hit(v, a, to, port) => First(v, a, to, port) = "RETURN"
      BY DEF Hit, First
    <3>6. QED
      BY <3>1, <3>4, <3>5
  <2>7. First(Compile(c, last.raw), a, to, port)
        = First(ForSource(a, p, rules), a, to, port)
    <3>1. PICK raw \in BOOLEAN : raw = last.raw
      BY <2>1
    <3>2. PICK d \in Known : d = last.c
      BY <2>1
    <3>3. PICK x : x = a
      OBVIOUS
    <3>4. /\ ~NamesSources(d) /\ k \in DOMAIN d.profiles
          /\ d.profiles[k].enabled
          /\ s \in DOMAIN Sources(d.profiles[k], raw)
          /\ Sources(d.profiles[k], raw)[s] = x
      BY <2>3, <3>1, <3>2, <3>3
    <3>5. First(Compile(d, raw), Sources(d.profiles[k], raw)[s], to, port)
          = First(ForSource(Sources(d.profiles[k], raw)[s], d.profiles[k],
                            RulesOf(d, d.profiles[k])),
                  Sources(d.profiles[k], raw)[s], to, port)
      BY <3>4, AllDecided
    <3>6. QED
      BY <3>1, <3>2, <3>3, <3>4, <3>5
  <2>8. First(ForSource(a, p, rules), a, to, port) # "REJECT"
        <=> Says(p, rules, a, to, port)
    BY <2>2, <2>3, SourceMeans
  <2>9. Allowed(c, p, a, to, port) <=> Says(p, rules, a, to, port)
    BY DEF Allowed, Says, Chosen
  <2>10. Passes(a, to, port) <=> First(chain, a, to, port) # "REJECT"
    BY <2>4 DEF Passes
  <2>11. QED
    BY <2>6, <2>7, <2>8, <2>9, <2>10
<1>2. QED
  BY <1>1, Invariance, PTL
=============================================================================
