--------------------------- MODULE HostRulesProofs ---------------------------
(* Proofs about HostRules, for any ports and configurations, and for any   *)
(* number of saves, stops, failures, rebuilt tables and actors at work.    *)
EXTENDS HostRules, SequenceTheorems, WellFoundedInduction, TLAPS

(***************************************************************************)
(* Concatenations                                                          *)
(***************************************************************************)
LEMMA Least ==
    ASSUME NEW S, S \subseteq Nat, S # {}
    PROVE  \E m \in S : \A k \in S : m <= k
<1>1. PICK m \in S : \A k \in S : ~ (<<k, m>> \in OpToRel(<, Nat))
  BY WFMin, NatLessThanWellFounded
<1>2. \A k \in S : ~ (k < m)
  BY <1>1 DEF OpToRel
<1>3. \A k \in S : m <= k
  BY <1>2
<1>4. QED
  BY <1>3

(* Induction over the naturals, for a set and not a predicate.             *)
LEMMA Induction ==
    ASSUME NEW S, S \subseteq Nat, 0 \in S, \A n \in S : n + 1 \in S
    PROVE  S = Nat
<1> SUFFICES ASSUME Nat \ S # {} PROVE FALSE
  OBVIOUS
<1>1. PICK m \in Nat \ S : \A k \in Nat \ S : m <= k
  BY Least
<1>2. m # 0 /\ m - 1 \in Nat
  BY <1>1
<1>3. m - 1 \in S
  BY <1>1, <1>2
<1>4. QED
  BY <1>1, <1>3

(* FlattenSeq concatenates the members in their order: there is a sequence *)
(* of the partial results.                                                 *)
Partial(f, ss) ==
    /\ f[0] = <<>>
    /\ \A n \in Nat : n < Len(ss) => f[n + 1] = f[n] \o ss[n + 1]

LEMMA Flatten ==
    ASSUME NEW R, NEW ss \in Seq(Seq(R))
    PROVE  \E f : /\ Partial(f, ss)
                  /\ FlattenSeq(ss) = f[Len(ss)]
<1>1. PICK m \in Nat : m = Len(ss) /\ DOMAIN ss = 1 .. m
  BY LenProperties
<1> DEFINE
      Step(f, i) == IF i = 1 THEN ss[i] ELSE f[i - 1] \o ss[i]
      Good(n) == \E f : f = [i \in 1 .. n |-> Step(f, i)]
<1>2. ASSUME NEW n \in Nat, Good(n) PROVE Good(n + 1)
  <2>1. PICK f : f = [i \in 1 .. n |-> Step(f, i)]
    BY <1>2
  <2> DEFINE g == [i \in 1 .. n + 1 |-> IF i = n + 1 THEN Step(f, i) ELSE f[i]]
  <2>2. ASSUME NEW i \in 1 .. n + 1 PROVE g[i] = Step(g, i)
    <3>1. CASE i = 1 /\ i = n + 1
      BY <3>1
    <3>2. CASE i # 1 /\ i = n + 1
      <4>1. i - 1 \in 1 .. n + 1 /\ i - 1 # n + 1
        BY <3>2
      <4>2. g[i - 1] = f[i - 1]
        BY <4>1
      <4>3. QED
        BY <3>2, <4>2
    <3>3. CASE i # n + 1
      <4>1. i \in 1 .. n
        BY <3>3
      <4>2. f[i] = Step(f, i)
        BY <2>1, <4>1
      <4>3. CASE i = 1
        BY <4>2, <4>3, <3>3
      <4>4. CASE i # 1
        <5>1. i - 1 \in 1 .. n + 1 /\ i - 1 # n + 1
          BY <4>1, <4>4
        <5>2. g[i - 1] = f[i - 1]
          BY <5>1
        <5>3. QED
          BY <4>2, <4>4, <5>2, <3>3
      <4>5. QED
        BY <4>3, <4>4
    <3>4. QED
      BY <3>1, <3>2, <3>3
  <2>3. g = [i \in 1 .. n + 1 |-> Step(g, i)]
    <3>1. DOMAIN g = 1 .. n + 1 /\ g = [i \in 1 .. n + 1 |-> g[i]]
      OBVIOUS
    <3> HIDE DEF g
    <3>2. QED
      BY <2>2, <3>1
  <2>4. QED
    BY <2>3
<1>3. Good(0)
  <2>1. \A f : [i \in 1 .. 0 |-> Step(f, i)] = <<>>
    OBVIOUS
  <2>2. <<>> = [i \in 1 .. 0 |-> Step(<<>>, i)]
    BY <2>1
  <2>3. QED
    BY <2>2
<1>4. Good(m)
  <2> DEFINE S == {n \in Nat : Good(n)}
  <2> HIDE DEF Good
  <2>1. 0 \in S
    BY <1>3
  <2>2. \A n \in S : n + 1 \in S
    BY <1>2
  <2>3. S = Nat
    <3> HIDE DEF S
    <3>1. S \subseteq Nat
      BY DEF S
    <3>2. QED
      BY <2>1, <2>2, <3>1, Induction
  <2>4. QED
    BY <2>3
<1>5. QED
  <2>1. CASE m = 0
    <3>1. ss = <<>> /\ FlattenSeq(ss) = <<>>
      BY <1>1, <2>1, EmptySeq DEF FlattenSeq
    <3>2. Partial([n \in {0} |-> <<>>], ss)
      BY <1>1, <2>1 DEF Partial
    <3>3. QED
      BY <1>1, <2>1, <3>1, <3>2
  <2>2. CASE m # 0
    <3>1. PICK f : /\ f = [i \in 1 .. m |-> Step(f, i)]
                   /\ FlattenSeq(ss) = f[m]
      BY <1>1, <1>4, <2>2 DEF FlattenSeq
    <3> DEFINE g == [i \in 0 .. m |-> IF i = 0 THEN <<>> ELSE f[i]]
    <3>2. FlattenSeq(ss) = g[m]
      BY <3>1, <2>2
    <3>3. ASSUME NEW n \in Nat, n < m PROVE g[n + 1] = g[n] \o ss[n + 1]
      <4>1. n + 1 \in 1 .. m /\ n \in 0 .. m /\ n + 1 # 0
        BY <3>3
      <4>2. g[n + 1] = Step(f, n + 1)
        <5>1. f[n + 1] = Step(f, n + 1)
          BY <3>1, <4>1
        <5> HIDE DEF Step
        <5>2. QED
          BY <4>1, <5>1
      <4>3. CASE n = 0
        <5>1. ss[1] \in Seq(R)
          BY <1>1, <4>1, <4>3, ElementOfSeq
        <5>2. g[n] = <<>>
          BY <4>1, <4>3
        <5>3. g[n + 1] = ss[1]
          BY <4>2, <4>3
        <5> HIDE DEF g
        <5>4. <<>> \o ss[1] = ss[1]
          BY <5>1, ConcatEmptySeq
        <5>5. QED
          BY <4>3, <5>2, <5>3, <5>4
      <4>4. CASE n # 0
        <5>1. n + 1 # 1 /\ (n + 1) - 1 = n
          BY <4>4
        <5>2. g[n] = f[n]
          BY <4>1, <4>4
        <5> HIDE DEF g
        <5>3. Step(f, n + 1) = f[n] \o ss[n + 1]
          <6>1. f[(n + 1) - 1] = f[n]
            BY <5>1
          <6>2. QED
            BY <5>1, <6>1
        <5> HIDE DEF Step
        <5>4. QED
          BY <4>2, <5>2, <5>3
      <4>5. QED
        BY <4>3, <4>4
    <3>4. g[0] = <<>>
      OBVIOUS
    <3> HIDE DEF g
    <3>5. Partial(g, ss)
      BY <1>1, <3>3, <3>4 DEF Partial
    <3>6. QED
      BY <1>1, <3>2, <3>5
  <2>3. QED
    BY <2>1, <2>2

LEMMA FlattenType ==
    ASSUME NEW R, NEW ss \in Seq(Seq(R))
    PROVE  FlattenSeq(ss) \in Seq(R)
<1>1. PICK f : Partial(f, ss) /\ FlattenSeq(ss) = f[Len(ss)]
  BY Flatten
<1>2. PICK m \in Nat : m = Len(ss) /\ DOMAIN ss = 1 .. m
  BY LenProperties
<1> DEFINE S == {n \in Nat : n <= m => f[n] \in Seq(R)}
<1>3. f[0] \in Seq(R)
  BY <1>1, EmptySeq DEF Partial
<1>4. ASSUME NEW n \in Nat, n < m, f[n] \in Seq(R) PROVE f[n + 1] \in Seq(R)
  <2>1. n + 1 \in 1 .. m
    BY <1>4
  <2>2. ss[n + 1] \in Seq(R)
    BY <1>2, <2>1, ElementOfSeq
  <2>3. f[n + 1] = f[n] \o ss[n + 1]
    BY <1>1, <1>2, <1>4 DEF Partial
  <2>4. QED
    BY <1>4, <2>2, <2>3, ConcatProperties
<1>5. \A n \in S : n + 1 \in S
  BY <1>4
<1>6. 0 \in S /\ S \subseteq Nat
  BY <1>3
<1>7. S = Nat
  <2> HIDE DEF S
  <2>1. QED
    BY <1>5, <1>6, Induction
<1>8. QED
  BY <1>1, <1>2, <1>7

(***************************************************************************)
(* Alike: one sequence is the other without rules that are not of a set.   *)
(* What a chain says of the rules of the set, and of the order in which it *)
(* has them, is then the same for both.                                    *)
(***************************************************************************)
Embeds(e, s, t) ==
    /\ e \in [DOMAIN s -> DOMAIN t]
    /\ \A i \in DOMAIN s : t[e[i]] = s[i]
    /\ \A i, j \in DOMAIN s : i < j => e[i] < e[j]

Alike(s, t, X) ==
    \E e : /\ Embeds(e, s, t)
           /\ \A k \in DOMAIN t : t[k] \in X => \E i \in DOMAIN s : e[i] = k

Has(s, x) == \E k \in DOMAIN s : s[k] = x
Single(s, x) == \A j, k \in DOMAIN s : s[j] = x /\ s[k] = x => j = k

(* Every x comes behind a rule of P.                                       *)
Guarded(s, P, x) ==
    \A k \in DOMAIN s : s[k] = x => \E j \in DOMAIN s : j < k /\ s[j] \in P

(* Some x has no y before it.                                              *)
Leads(s, x, y) ==
    \E k \in DOMAIN s : s[k] = x /\ \A j \in DOMAIN s : j < k => s[j] # y

LEMMA AlikeOrder ==
    ASSUME NEW R, NEW s \in Seq(R), NEW t \in Seq(R), NEW X, Alike(s, t, X)
    PROVE  \E e : /\ Embeds(e, s, t)
                  /\ \A i, j \in DOMAIN s : i < j <=> e[i] < e[j]
                  /\ \A i, j \in DOMAIN s : e[i] = e[j] => i = j
                  /\ \A k \in DOMAIN t :
                        t[k] \in X => \E i \in DOMAIN s : e[i] = k
<1>1. PICK e : /\ Embeds(e, s, t)
               /\ \A k \in DOMAIN t :
                     t[k] \in X => \E i \in DOMAIN s : e[i] = k
  BY DEF Alike
<1>2. PICK m \in Nat, n \in Nat : DOMAIN s = 1 .. m /\ DOMAIN t = 1 .. n
  BY LenProperties
<1>3. ASSUME NEW i \in DOMAIN s, NEW j \in DOMAIN s
      PROVE  /\ i < j <=> e[i] < e[j]
             /\ e[i] = e[j] => i = j
  <2>1. i \in 1 .. m /\ j \in 1 .. m /\ e[i] \in 1 .. n /\ e[j] \in 1 .. n
    BY <1>1, <1>2, <1>3 DEF Embeds
  <2>2. (i < j => e[i] < e[j]) /\ (j < i => e[j] < e[i])
    BY <1>1, <1>3 DEF Embeds
  <2>3. QED
    BY <2>1, <2>2
<1>4. QED
  BY <1>1, <1>3

LEMMA AlikeHas ==
    ASSUME NEW R, NEW s \in Seq(R), NEW t \in Seq(R), NEW X, Alike(s, t, X),
           NEW x \in X
    PROVE  Has(s, x) <=> Has(t, x)
<1>1. PICK e : /\ Embeds(e, s, t)
               /\ \A k \in DOMAIN t :
                     t[k] \in X => \E i \in DOMAIN s : e[i] = k
  BY DEF Alike
<1>2. QED
  BY <1>1 DEF Has, Embeds

LEMMA AlikeSingle ==
    ASSUME NEW R, NEW s \in Seq(R), NEW t \in Seq(R), NEW X, Alike(s, t, X),
           NEW x \in X
    PROVE  Single(s, x) <=> Single(t, x)
<1>1. PICK e : /\ Embeds(e, s, t)
               /\ \A i, j \in DOMAIN s : e[i] = e[j] => i = j
               /\ \A k \in DOMAIN t :
                     t[k] \in X => \E i \in DOMAIN s : e[i] = k
  BY AlikeOrder
<1>2. ASSUME Single(s, x) PROVE Single(t, x)
  BY <1>1, <1>2 DEF Single, Embeds
<1>3. ASSUME Single(t, x) PROVE Single(s, x)
  BY <1>1, <1>3 DEF Single, Embeds
<1>4. QED
  BY <1>2, <1>3

LEMMA AlikeGuards ==
    ASSUME NEW R, NEW s \in Seq(R), NEW t \in Seq(R), NEW X, Alike(s, t, X),
           NEW x \in X, NEW P, Guarded(s, P, x)
    PROVE  Guarded(t, P, x)
<1>1. PICK e : /\ Embeds(e, s, t)
               /\ \A k \in DOMAIN t :
                     t[k] \in X => \E i \in DOMAIN s : e[i] = k
  BY DEF Alike
<1>2. ASSUME NEW k \in DOMAIN t, t[k] = x
      PROVE  \E j \in DOMAIN t : j < k /\ t[j] \in P
  <2>1. PICK i \in DOMAIN s : e[i] = k /\ s[i] = x
    BY <1>1, <1>2 DEF Embeds
  <2>2. PICK j \in DOMAIN s : j < i /\ s[j] \in P
    BY <2>1 DEF Guarded
  <2>3. e[j] \in DOMAIN t /\ e[j] < k /\ t[e[j]] \in P
    BY <1>1, <2>1, <2>2 DEF Embeds
  <2>4. QED
    BY <2>3
<1>3. QED
  BY <1>2 DEF Guarded

LEMMA AlikeGuarded ==
    ASSUME NEW R, NEW s \in Seq(R), NEW t \in Seq(R), NEW X, Alike(s, t, X),
           NEW x \in X, NEW P \in SUBSET X
    PROVE  Guarded(s, P, x) <=> Guarded(t, P, x)
<1>1. PICK e : /\ Embeds(e, s, t)
               /\ \A i, j \in DOMAIN s : i < j <=> e[i] < e[j]
               /\ \A k \in DOMAIN t :
                     t[k] \in X => \E i \in DOMAIN s : e[i] = k
  BY AlikeOrder
<1>2. ASSUME Guarded(s, P, x) PROVE Guarded(t, P, x)
  BY <1>2, AlikeGuards
<1>3. ASSUME Guarded(t, P, x), NEW i \in DOMAIN s, s[i] = x
      PROVE  \E j \in DOMAIN s : j < i /\ s[j] \in P
  <2>1. e[i] \in DOMAIN t /\ t[e[i]] = x
    BY <1>1, <1>3 DEF Embeds
  <2>2. PICK k \in DOMAIN t : k < e[i] /\ t[k] \in P
    BY <1>3, <2>1 DEF Guarded
  <2>3. PICK j \in DOMAIN s : e[j] = k /\ s[j] \in P
    BY <1>1, <2>2 DEF Embeds
  <2>4. QED
    BY <1>1, <2>2, <2>3
<1>4. QED
  BY <1>2, <1>3 DEF Guarded

LEMMA AlikeLeads ==
    ASSUME NEW R, NEW s \in Seq(R), NEW t \in Seq(R), NEW X, Alike(s, t, X),
           NEW x \in X, NEW y \in X
    PROVE  Leads(s, x, y) <=> Leads(t, x, y)
<1>1. PICK e : /\ Embeds(e, s, t)
               /\ \A i, j \in DOMAIN s : i < j <=> e[i] < e[j]
               /\ \A k \in DOMAIN t :
                     t[k] \in X => \E i \in DOMAIN s : e[i] = k
  BY AlikeOrder
<1>2. ASSUME Leads(s, x, y) PROVE Leads(t, x, y)
  <2>1. PICK i \in DOMAIN s : s[i] = x /\ \A j \in DOMAIN s : j < i => s[j] # y
    BY <1>2 DEF Leads
  <2>2. e[i] \in DOMAIN t /\ t[e[i]] = x
    BY <1>1, <2>1 DEF Embeds
  <2>3. ASSUME NEW k \in DOMAIN t, k < e[i], t[k] = y PROVE FALSE
    <3>1. PICK j \in DOMAIN s : e[j] = k /\ s[j] = y
      BY <1>1, <2>3 DEF Embeds
    <3>2. QED
      BY <1>1, <2>1, <2>3, <3>1
  <2>4. QED
    BY <2>2, <2>3 DEF Leads
<1>3. ASSUME Leads(t, x, y) PROVE Leads(s, x, y)
  <2>1. PICK k \in DOMAIN t : t[k] = x /\ \A j \in DOMAIN t : j < k => t[j] # y
    BY <1>3 DEF Leads
  <2>2. PICK i \in DOMAIN s : e[i] = k /\ s[i] = x
    BY <1>1, <2>1 DEF Embeds
  <2>3. ASSUME NEW j \in DOMAIN s, j < i, s[j] = y PROVE FALSE
    <3>1. e[j] \in DOMAIN t /\ e[j] < k /\ t[e[j]] = y
      BY <1>1, <2>2, <2>3 DEF Embeds
    <3>2. QED
      BY <2>1, <3>1
  <2>4. QED
    BY <2>2, <2>3 DEF Leads
<1>4. QED
  BY <1>2, <1>3

(***************************************************************************)
(* What a command does to a chain                                          *)
(***************************************************************************)
LEMMA Inserting ==
    ASSUME NEW R, NEW s \in Seq(R), NEW x \in R, NEW p \in 1 .. Len(s) + 1
    PROVE  /\ InsertAt(s, p, x) \in Seq(R)
           /\ Len(InsertAt(s, p, x)) = Len(s) + 1
           /\ DOMAIN InsertAt(s, p, x) = 1 .. Len(s) + 1
           /\ InsertAt(s, p, x)[p] = x
           /\ \A k \in 1 .. Len(s) :
                 /\ k < p => InsertAt(s, p, x)[k] = s[k]
                 /\ p <= k => InsertAt(s, p, x)[k + 1] = s[k]
<1>1. PICK m \in Nat :
          m = Len(s) /\ \A i \in 1 .. m : s[i] \in R
  BY LenProperties
<1>2. PICK u \in Seq(R) : /\ u = SubSeq(s, 1, p - 1)
                          /\ Len(u) = p - 1
                          /\ \A i \in 1 .. p - 1 : u[i] = s[i]
  <2>1. \A i \in 1 .. p - 1 : s[i] \in R
    BY <1>1
  <2>2. p - 1 \in Int /\ 1 \in Int /\ p - 1 >= 0
    BY <1>1
  <2>3. /\ SubSeq(s, 1, p - 1) \in Seq(R)
        /\ Len(SubSeq(s, 1, p - 1)) = IF 1 <= p - 1 THEN (p - 1) - 1 + 1 ELSE 0
        /\ \A i \in 1 .. (p - 1) - 1 + 1 :
              SubSeq(s, 1, p - 1)[i] = s[(1 + i) - 1]
    BY <2>1, <2>2, SubSeqProperties
  <2>4. Len(SubSeq(s, 1, p - 1)) = p - 1
    BY <2>2, <2>3
  <2>5. \A i \in 1 .. p - 1 : SubSeq(s, 1, p - 1)[i] = s[i]
    <3>1. \A i \in 1 .. p - 1 : i \in 1 .. (p - 1) - 1 + 1 /\ (1 + i) - 1 = i
      BY <2>2
    <3>2. QED
      BY <2>3, <3>1
  <2>6. QED
    BY <2>3, <2>4, <2>5
<1>3. PICK v \in Seq(R) : /\ v = SubSeq(s, p, m)
                          /\ Len(v) = m - (p - 1)
                          /\ \A i \in 1 .. m - (p - 1) : v[i] = s[(p + i) - 1]
  <2>1. p \in Int /\ m \in Int /\ \A i \in p .. m : s[i] \in R
    BY <1>1
  <2>2. /\ SubSeq(s, p, m) \in Seq(R)
        /\ Len(SubSeq(s, p, m)) = IF p <= m THEN (m - p) + 1 ELSE 0
        /\ \A i \in 1 .. (m - p) + 1 : SubSeq(s, p, m)[i] = s[(p + i) - 1]
    BY <2>1, SubSeqProperties
  <2>3. (m - p) + 1 = m - (p - 1) /\ (~(p <= m) => m - (p - 1) = 0)
    BY <1>1
  <2>4. QED
    BY <2>2, <2>3
<1>4. PICK w \in Seq(R) : w = <<x>> /\ Len(w) = 1 /\ w[1] = x
  <2>1. <<x>> \in Seq(R) /\ Len(<<x>>) = 1 /\ <<x>>[1] = x
    OBVIOUS
  <2>2. QED
    BY <2>1
<1>5. PICK uw \in Seq(R) : /\ uw = u \o w
                           /\ Len(uw) = p
                           /\ \A i \in 1 .. p - 1 : uw[i] = s[i]
                           /\ uw[p] = x
  <2>1. /\ u \o w \in Seq(R)
        /\ Len(u \o w) = Len(u) + Len(w)
        /\ \A i \in 1 .. Len(u) + Len(w) :
              (u \o w)[i] = IF i <= Len(u) THEN u[i] ELSE w[i - Len(u)]
    BY ConcatProperties
  <2>2. \A i \in 1 .. p : (u \o w)[i] = IF i <= p - 1 THEN u[i] ELSE w[i - (p - 1)]
    <3>1. Len(u) + Len(w) = p
      BY <1>1, <1>2, <1>4
    <3>2. QED
      BY <1>2, <2>1, <3>1
  <2>3. p \in 1 .. p /\ ~(p <= p - 1) /\ p - (p - 1) = 1 /\ (p - 1) + 1 = p
    BY <1>1
  <2>4. (u \o w)[p] = x
    BY <1>4, <2>2, <2>3
  <2>5. \A i \in 1 .. p - 1 : (u \o w)[i] = s[i]
    BY <1>1, <1>2, <2>2
  <2>6. u \o w \in Seq(R) /\ Len(u \o w) = p
    BY <1>1, <1>2, <1>4, <2>1
  <2>7. QED
    BY <2>4, <2>5, <2>6
<1>6. PICK t \in Seq(R) : /\ t = uw \o v
                          /\ Len(t) = m + 1
                          /\ \A i \in 1 .. m + 1 :
                                t[i] = IF i <= p THEN uw[i] ELSE s[i - 1]
  <2>1. /\ uw \o v \in Seq(R)
        /\ Len(uw \o v) = Len(uw) + Len(v)
        /\ \A i \in 1 .. Len(uw) + Len(v) :
              (uw \o v)[i] = IF i <= Len(uw) THEN uw[i] ELSE v[i - Len(uw)]
    BY ConcatProperties
  <2>2. Len(uw) + Len(v) = m + 1
    BY <1>1, <1>3, <1>5
  <2>3. ASSUME NEW i \in 1 .. m + 1, ~(i <= p) PROVE v[i - p] = s[i - 1]
    <3>1. i - p \in 1 .. m - (p - 1) /\ (p + (i - p)) - 1 = i - 1
      BY <1>1, <2>3
    <3>2. QED
      BY <1>3, <3>1
  <2>4. \A i \in 1 .. m + 1 :
            (uw \o v)[i] = IF i <= p THEN uw[i] ELSE s[i - 1]
    BY <1>5, <2>1, <2>2, <2>3
  <2>5. uw \o v \in Seq(R) /\ Len(uw \o v) = m + 1
    BY <2>1, <2>2
  <2>6. QED
    BY <2>4, <2>5
<1>7. InsertAt(s, p, x) = t
  BY <1>1, <1>2, <1>3, <1>4, <1>5, <1>6 DEF InsertAt
<1>8. DOMAIN t = 1 .. m + 1
  BY <1>6, LenProperties
<1>9. t[p] = x
  BY <1>1, <1>5, <1>6
<1>10. ASSUME NEW k \in 1 .. m
       PROVE  (k < p => t[k] = s[k]) /\ (p <= k => t[k + 1] = s[k])
  <2>1. CASE k < p
    <3>1. k \in 1 .. m + 1 /\ k <= p /\ k \in 1 .. p - 1 /\ ~(p <= k)
      BY <1>1, <1>10, <2>1
    <3>2. QED
      BY <1>5, <1>6, <3>1
  <2>2. CASE p <= k
    <3>1. k + 1 \in 1 .. m + 1 /\ ~(k + 1 <= p) /\ (k + 1) - 1 = k /\ ~(k < p)
      BY <1>1, <1>10, <2>2
    <3>2. QED
      BY <1>6, <3>1
  <2>3. k < p \/ p <= k
    BY <1>1, <1>10
  <2>4. QED
    BY <2>1, <2>2, <2>3
<1>11. QED
  BY <1>1, <1>6, <1>7, <1>8, <1>9, <1>10

LEMMA InsertingAlike ==
    ASSUME NEW R, NEW s \in Seq(R), NEW x \in R, NEW p \in 1 .. Len(s) + 1,
           NEW X, x \notin X
    PROVE  Alike(s, InsertAt(s, p, x), X)
<1>1. PICK m \in Nat : m = Len(s) /\ DOMAIN s = 1 .. m
  BY LenProperties
<1>2. PICK t \in Seq(R) :
          /\ t = InsertAt(s, p, x)
          /\ DOMAIN t = 1 .. m + 1
          /\ t[p] = x
          /\ \A k \in 1 .. m : /\ k < p => t[k] = s[k]
                               /\ p <= k => t[k + 1] = s[k]
  <2>1. /\ InsertAt(s, p, x) \in Seq(R)
        /\ DOMAIN InsertAt(s, p, x) = 1 .. Len(s) + 1
        /\ InsertAt(s, p, x)[p] = x
        /\ \A k \in 1 .. Len(s) :
              /\ k < p => InsertAt(s, p, x)[k] = s[k]
              /\ p <= k => InsertAt(s, p, x)[k + 1] = s[k]
    BY Inserting
  <2>2. QED
    BY <1>1, <2>1
<1> DEFINE e == [k \in 1 .. m |-> IF k < p THEN k ELSE k + 1]
<1>3. e \in [DOMAIN s -> DOMAIN t]
  BY <1>1, <1>2
<1>4. \A i, j \in 1 .. m : i < j => e[i] < e[j]
  BY <1>1
<1>5. \A i \in 1 .. m : t[e[i]] = s[i]
  BY <1>1, <1>2
<1>6. ASSUME NEW k \in 1 .. m + 1, t[k] \in X
      PROVE  \E i \in 1 .. m : e[i] = k
  <2>1. k # p
    BY <1>2, <1>6
  <2>2. CASE k < p
    <3>1. k \in 1 .. m /\ e[k] = k
      BY <1>1, <2>2
    <3>2. QED
      BY <3>1
  <2>3. CASE p < k
    <3>1. k - 1 \in 1 .. m /\ ~(k - 1 < p) /\ (k - 1) + 1 = k
      BY <1>1, <2>3
    <3>2. e[k - 1] = k
      BY <3>1
    <3>3. QED
      BY <3>1, <3>2
  <2>4. QED
    BY <1>1, <2>1, <2>2, <2>3
<1> HIDE DEF e
<1>7. Embeds(e, s, t)
  BY <1>1, <1>3, <1>4, <1>5 DEF Embeds
<1>8. QED
  BY <1>1, <1>2, <1>6, <1>7 DEF Alike

LEMMA InsertingFirst ==
    ASSUME NEW R, NEW s \in Seq(R), NEW x \in R
    PROVE  /\ InsertAt(s, 1, x) \in Seq(R)
           /\ Len(InsertAt(s, 1, x)) = Len(s) + 1
           /\ InsertAt(s, 1, x)[1] = x
           /\ \A k \in 1 .. Len(s) : InsertAt(s, 1, x)[k + 1] = s[k]
<1>1. Len(s) \in Nat
  BY LenProperties
<1>2. 1 \in 1 .. Len(s) + 1 /\ \A k \in 1 .. Len(s) : 1 <= k
  BY <1>1
<1>3. /\ InsertAt(s, 1, x) \in Seq(R)
      /\ Len(InsertAt(s, 1, x)) = Len(s) + 1
      /\ InsertAt(s, 1, x)[1] = x
      /\ \A k \in 1 .. Len(s) : 1 <= k => InsertAt(s, 1, x)[k + 1] = s[k]
  BY <1>2, Inserting
<1>4. QED
  BY <1>2, <1>3

LEMMA InsertingSecond ==
    ASSUME NEW R, NEW s \in Seq(R), NEW x \in R, Len(s) > 0
    PROVE  /\ InsertAt(s, 2, x) \in Seq(R)
           /\ Len(InsertAt(s, 2, x)) = Len(s) + 1
           /\ InsertAt(s, 2, x)[1] = s[1]
           /\ InsertAt(s, 2, x)[2] = x
           /\ \A k \in 2 .. Len(s) : InsertAt(s, 2, x)[k + 1] = s[k]
<1>1. Len(s) \in Nat
  BY LenProperties
<1>2. /\ 2 \in 1 .. Len(s) + 1 /\ 1 \in 1 .. Len(s) /\ 1 < 2
      /\ \A k \in 2 .. Len(s) : k \in 1 .. Len(s) /\ 2 <= k
  BY <1>1
<1>3. /\ InsertAt(s, 2, x) \in Seq(R)
      /\ Len(InsertAt(s, 2, x)) = Len(s) + 1
      /\ InsertAt(s, 2, x)[2] = x
      /\ \A k \in 1 .. Len(s) :
            /\ k < 2 => InsertAt(s, 2, x)[k] = s[k]
            /\ 2 <= k => InsertAt(s, 2, x)[k + 1] = s[k]
  BY <1>2, Inserting
<1>4. QED
  BY <1>2, <1>3

(* A jump on top and what accepts behind it, as the scripts insert them.   *)
LEMMA Stacked ==
    ASSUME NEW R, NEW u \in Seq(R), NEW x \in R, NEW y \in R
    PROVE  \E t \in Seq(R) :
              /\ t = InsertAt(InsertAt(u, 1, x), 2, y)
              /\ Len(t) = Len(u) + 2 /\ DOMAIN t = 1 .. Len(u) + 2
              /\ t[1] = x /\ t[2] = y
              /\ \A k \in 1 .. Len(u) : t[k + 2] = u[k]
<1>1. PICK m \in Nat : m = Len(u)
  BY LenProperties
<1>2. PICK v \in Seq(R) :
          /\ v = InsertAt(u, 1, x) /\ Len(v) = m + 1 /\ v[1] = x
          /\ \A k \in 1 .. m : v[k + 1] = u[k]
  <2>1. /\ InsertAt(u, 1, x) \in Seq(R)
        /\ Len(InsertAt(u, 1, x)) = Len(u) + 1
        /\ InsertAt(u, 1, x)[1] = x
        /\ \A k \in 1 .. Len(u) : InsertAt(u, 1, x)[k + 1] = u[k]
    BY InsertingFirst
  <2>2. QED
    BY <1>1, <2>1
<1>3. PICK t \in Seq(R) :
          /\ t = InsertAt(v, 2, y) /\ Len(t) = m + 2
          /\ t[1] = x /\ t[2] = y
          /\ \A k \in 2 .. m + 1 : t[k + 1] = v[k]
  <2>1. Len(v) > 0 /\ Len(v) + 1 = m + 2
    BY <1>2
  <2>2. /\ InsertAt(v, 2, y) \in Seq(R)
        /\ Len(InsertAt(v, 2, y)) = Len(v) + 1
        /\ InsertAt(v, 2, y)[1] = v[1]
        /\ InsertAt(v, 2, y)[2] = y
        /\ \A k \in 2 .. Len(v) : InsertAt(v, 2, y)[k + 1] = v[k]
    BY <2>1, InsertingSecond
  <2>3. QED
    BY <1>2, <2>1, <2>2
<1>4. ASSUME NEW k \in 1 .. m PROVE t[k + 2] = u[k]
  <2>1. k + 1 \in 2 .. m + 1 /\ (k + 1) + 1 = k + 2
    OBVIOUS
  <2>2. t[(k + 1) + 1] = v[k + 1]
    BY <1>3, <2>1
  <2>3. QED
    BY <1>2, <2>1, <2>2
<1>5. DOMAIN t = 1 .. m + 2
  BY <1>3, LenProperties
<1>6. QED
  BY <1>1, <1>2, <1>3, <1>4, <1>5

LEMMA StackedMore ==
    ASSUME NEW R, NEW s \in Seq(R), NEW y \in R, Len(s) > 0
    PROVE  \E t \in Seq(R) :
              /\ t = InsertAt(s, 2, y)
              /\ Len(t) = Len(s) + 1 /\ DOMAIN t = 1 .. Len(s) + 1
              /\ t[1] = s[1] /\ t[2] = y
              /\ \A k \in 2 .. Len(s) : t[k + 1] = s[k]
<1>1. /\ InsertAt(s, 2, y) \in Seq(R)
      /\ Len(InsertAt(s, 2, y)) = Len(s) + 1
      /\ InsertAt(s, 2, y)[1] = s[1]
      /\ InsertAt(s, 2, y)[2] = y
      /\ \A k \in 2 .. Len(s) : InsertAt(s, 2, y)[k + 1] = s[k]
  BY InsertingSecond
<1>2. DOMAIN InsertAt(s, 2, y) = 1 .. Len(s) + 1
  BY <1>1, LenProperties
<1>3. QED
  BY <1>1, <1>2

LEMMA Removing ==
    ASSUME NEW R, NEW s \in Seq(R), NEW D
    PROVE  /\ Without(s, D) \in Seq(R)
           /\ \E e : /\ Embeds(e, Without(s, D), s)
                     /\ \A k \in DOMAIN s :
                           s[k] \notin D <=>
                               \E i \in DOMAIN Without(s, D) : e[i] = k
<1>1. PICK m \in Nat : m = Len(s) /\ DOMAIN s = 1 .. m /\ s \in [1 .. m -> R]
  BY LenProperties
<1> DEFINE ss == [k \in DOMAIN s |-> IF s[k] \in D THEN <<>> ELSE <<s[k]>>]
<1>2. ss \in Seq(Seq(R)) /\ Len(ss) = m
  <2>1. \A k \in 1 .. m : ss[k] \in Seq(R)
    BY <1>1
  <2>2. ss \in [1 .. m -> Seq(R)]
    BY <1>1, <2>1
  <2> HIDE DEF ss
  <2>3. QED
    BY <2>2
<1>3. Without(s, D) = FlattenSeq(ss)
  BY DEF Without
<1>4. \A k \in 1 .. m : ss[k] = IF s[k] \in D THEN <<>> ELSE <<s[k]>>
  BY <1>1
<1> HIDE DEF ss
<1>5. PICK f : Partial(f, ss) /\ FlattenSeq(ss) = f[m]
  BY <1>2, Flatten
<1> DEFINE
      Kept(n, e) ==
          /\ e \in [DOMAIN f[n] -> 1 .. n]
          /\ \A i \in DOMAIN f[n] : f[n][i] = s[e[i]]
          /\ \A i, j \in DOMAIN f[n] : i < j => e[i] < e[j]
          /\ \A k \in 1 .. n :
                s[k] \notin D <=> \E i \in DOMAIN f[n] : e[i] = k
      Good == {n \in Nat : n <= m => f[n] \in Seq(R) /\ \E e : Kept(n, e)}
<1>6. 0 \in Good
  <2>1. f[0] = <<>> /\ <<>> \in Seq(R) /\ DOMAIN f[0] = {}
    BY <1>5 DEF Partial
  <2>2. Kept(0, <<>>)
    BY <2>1
  <2>3. QED
    BY <2>1, <2>2
<1>7. ASSUME NEW n \in Good PROVE n + 1 \in Good
  <2> SUFFICES ASSUME n + 1 <= m
               PROVE  f[n + 1] \in Seq(R) /\ \E e : Kept(n + 1, e)
    <3>1. n + 1 \in Nat
      BY <1>7
    <3> HIDE DEF Kept
    <3>2. QED
      BY <3>1
  <2>1. n \in Nat /\ n <= m /\ n < m /\ n + 1 \in 1 .. m
    BY <1>1, <1>7
  <2>2. PICK e : f[n] \in Seq(R) /\ Kept(n, e)
    BY <1>7, <2>1
  <2>3. f[n + 1] = f[n] \o ss[n + 1]
    BY <1>2, <1>5, <2>1 DEF Partial
  <2>4. PICK l \in Nat : l = Len(f[n]) /\ DOMAIN f[n] = 1 .. l
    BY <2>2, LenProperties
  <2>5. CASE s[n + 1] \in D
    <3>1. f[n + 1] = f[n]
      BY <1>4, <2>1, <2>2, <2>3, <2>5, ConcatEmptySeq
    <3>2. e \in [DOMAIN f[n] -> 1 .. n + 1]
      BY <2>1, <2>2
    <3>3. ASSUME NEW k \in 1 .. n + 1
          PROVE  s[k] \notin D <=> \E i \in DOMAIN f[n] : e[i] = k
      <4>1. CASE k = n + 1
        BY <2>1, <2>2, <2>5, <4>1
      <4>2. CASE k # n + 1
        BY <2>1, <2>2, <4>2
      <4>3. QED
        BY <4>1, <4>2
    <3>4. Kept(n + 1, e)
      BY <2>2, <3>1, <3>2, <3>3
    <3>5. f[n + 1] \in Seq(R)
      BY <2>2, <3>1
    <3> HIDE DEF Kept
    <3>6. QED
      BY <3>4, <3>5
  <2>6. CASE s[n + 1] \notin D
    <3>1. PICK w \in Seq(R) :
              w = ss[n + 1] /\ Len(w) = 1 /\ w[1] = s[n + 1]
      <4>1. ss[n + 1] = <<s[n + 1]>> /\ s[n + 1] \in R
        BY <1>1, <1>4, <2>1, <2>6
      <4>2. /\ <<s[n + 1]>> \in Seq(R) /\ Len(<<s[n + 1]>>) = 1
            /\ <<s[n + 1]>>[1] = s[n + 1]
        BY <4>1
      <4>3. QED
        BY <4>1, <4>2
    <3>2. PICK g \in Seq(R) :
              /\ g = f[n + 1] /\ DOMAIN g = 1 .. l + 1
              /\ \A i \in 1 .. l : g[i] = f[n][i]
              /\ g[l + 1] = s[n + 1]
      <4>1. /\ f[n] \o w \in Seq(R) /\ Len(f[n] \o w) = l + 1
            /\ \A i \in 1 .. l + 1 :
                  (f[n] \o w)[i] = IF i <= l THEN f[n][i] ELSE w[i - l]
        <5>1. f[n] \in Seq(R)
          BY <2>2
        <5> HIDE DEF Kept
        <5>2. /\ f[n] \o w \in Seq(R)
              /\ Len(f[n] \o w) = Len(f[n]) + Len(w)
              /\ \A i \in 1 .. Len(f[n]) + Len(w) :
                    (f[n] \o w)[i] = IF i <= Len(f[n]) THEN f[n][i]
                                     ELSE w[i - Len(f[n])]
          BY <5>1, ConcatProperties
        <5>3. QED
          BY <2>4, <3>1, <5>2
      <4>2. DOMAIN (f[n] \o w) = 1 .. l + 1
        BY <4>1, LenProperties
      <4>3. (f[n] \o w)[l + 1] = s[n + 1]
        <5>1. ~(l + 1 <= l) /\ (l + 1) - l = 1 /\ l + 1 \in 1 .. l + 1
          BY <2>4
        <5>2. QED
          BY <3>1, <4>1, <5>1
      <4>4. \A i \in 1 .. l : (f[n] \o w)[i] = f[n][i]
        BY <2>4, <4>1
      <4>5. QED
        BY <2>3, <3>1, <4>1, <4>2, <4>3, <4>4
    <3> DEFINE h == [i \in 1 .. l + 1 |-> IF i <= l THEN e[i] ELSE n + 1]
    <3>3. h \in [1 .. l + 1 -> 1 .. n + 1]
      <4>1. ASSUME NEW i \in 1 .. l + 1 PROVE h[i] \in 1 .. n + 1
        <5>1. CASE i <= l
          <6>1. i \in 1 .. l /\ e \in [1 .. l -> 1 .. n]
            BY <2>2, <2>4, <5>1
          <6>2. e[i] \in 1 .. n /\ h[i] = e[i]
            BY <5>1, <6>1
          <6>3. QED
            BY <2>1, <6>2
        <5>2. CASE ~(i <= l)
          BY <2>1, <5>2
        <5>3. QED
          BY <5>1, <5>2
      <4>2. QED
        BY <4>1
    <3>4. h[l + 1] = n + 1 /\ \A i \in 1 .. l : h[i] = e[i] /\ e[i] \in 1 .. n
      <4>1. e \in [1 .. l -> 1 .. n]
        BY <2>2, <2>4
      <4>2. /\ l + 1 \in 1 .. l + 1 /\ ~(l + 1 <= l)
            /\ \A i \in 1 .. l : i \in 1 .. l + 1 /\ i <= l
        BY <2>4
      <4>3. QED
        BY <4>1, <4>2
    <3> HIDE DEF h
    <3>5. \A i \in 1 .. l + 1 : i \in 1 .. l \/ i = l + 1
      BY <2>4
    <3>6. \A i \in 1 .. l + 1 : g[i] = s[h[i]]
      BY <2>2, <2>4, <3>2, <3>4, <3>5
    <3>7. ASSUME NEW i \in 1 .. l + 1, NEW j \in 1 .. l + 1, i < j
          PROVE  h[i] < h[j]
      <4>1. i \in 1 .. l
        BY <2>4, <3>7
      <4>2. CASE j \in 1 .. l
        BY <2>2, <2>4, <3>4, <3>7, <4>1, <4>2
      <4>3. CASE j = l + 1
        BY <2>1, <3>4, <4>1, <4>3
      <4>4. QED
        BY <3>5, <4>2, <4>3
    <3>8. ASSUME NEW k \in 1 .. n + 1
          PROVE  s[k] \notin D <=> \E i \in 1 .. l + 1 : h[i] = k
      <4>1. CASE k = n + 1
        <5>1. l + 1 \in 1 .. l + 1
          BY <2>4
        <5>2. QED
          BY <2>6, <3>4, <4>1, <5>1
      <4>2. CASE k # n + 1
        <5>1. k \in 1 .. n
          BY <2>1, <4>2
        <5>2. (\E i \in 1 .. l + 1 : h[i] = k) <=> (\E i \in 1 .. l : e[i] = k)
          <6>1. 1 .. l \subseteq 1 .. l + 1
            BY <2>4
          <6>2. QED
            BY <3>4, <3>5, <4>2, <6>1
        <5>3. QED
          BY <2>2, <2>4, <5>1, <5>2
      <4>3. QED
        BY <4>1, <4>2
    <3>9. Kept(n + 1, h)
      BY <3>2, <3>3, <3>6, <3>7, <3>8
    <3> HIDE DEF Kept
    <3>10. QED
      BY <3>2, <3>9
  <2>7. QED
    BY <2>5, <2>6
<1>8. Good = Nat
  <2>1. Good \subseteq Nat
    OBVIOUS
  <2> HIDE DEF Good
  <2>2. QED
    BY <1>6, <1>7, <2>1, Induction
<1>9. PICK e : f[m] \in Seq(R) /\ Kept(m, e)
  <2> HIDE DEF Kept
  <2>1. m \in Good /\ m <= m
    BY <1>1, <1>8
  <2>2. QED
    BY <2>1
<1>10. QED
  BY <1>1, <1>3, <1>5, <1>9 DEF Embeds

LEMMA RemovingAlike ==
    ASSUME NEW R, NEW s \in Seq(R), NEW D, NEW X, D \cap X = {}
    PROVE  Alike(Without(s, D), s, X)
<1>1. PICK e : /\ Embeds(e, Without(s, D), s)
               /\ \A k \in DOMAIN s :
                     s[k] \notin D <=>
                         \E i \in DOMAIN Without(s, D) : e[i] = k
  BY Removing
<1>2. QED
  BY <1>1 DEF Alike

LEMMA Removed ==
    ASSUME NEW R, NEW s \in Seq(R), NEW D, NEW x \in D
    PROVE  ~Has(Without(s, D), x)
<1>1. PICK e : /\ Embeds(e, Without(s, D), s)
               /\ \A k \in DOMAIN s :
                     s[k] \notin D <=>
                         \E i \in DOMAIN Without(s, D) : e[i] = k
  BY Removing
<1>2. QED
  BY <1>1 DEF Embeds, Has

(***************************************************************************)
(* Rules, chains and commands                                              *)
(***************************************************************************)
Chains == {"FORWARD", "INPUT", "POSTROUTING"}

Of(i) == {Jump(i), In(i), Out(i)}
FilterRules == Of("wg") \cup Of("raw") \cup {JumpOut("raw")}
                   \cup {Port(p) : p \in Ports}
NatRules == {Masquerade("wg"), Masquerade("raw")}
RulesOf(ch) == IF ch = "POSTROUTING" THEN NatRules ELSE FilterRules

Contents(ch) ==
    {s \in Seq(RulesOf(ch) \cup {Terminal}) :
        Has(s, Terminal) <=> ch # "POSTROUTING"}

Places(ch) == IF ch = "POSTROUTING" THEN {0, 1} ELSE {0, 1, 2}

Parts == {"nat", "policies", "save", "port", "raw", "raw policies", "raw port",
          "hook"}
Adds(ch) == [op : {"add"}, part : Parts, ch : {ch}, rule : RulesOf(ch),
             at : Places(ch), once : BOOLEAN]
Deletes == [op : {"delete"}, part : Parts, rule : SUBSET FilterRules]
Commands == Adds("FORWARD") \cup Adds("INPUT") \cup Adds("POSTROUTING")
                \cup Deletes

(* What a command does to one chain.                                       *)
Effect(c, ch, s) ==
    IF c.op = "delete" THEN Without(s, c.rule)
    ELSE IF c.ch # ch \/ (c.once /\ Contains(s, c.rule)) THEN s
    ELSE InsertAt(s, IF c.at = 0 THEN Len(s) + 1 ELSE c.at, c.rule)

LEMMA Fields ==
    \A i : /\ Jump(i).dir = "in" /\ Jump(i).what = i
           /\ Jump(i).target = "PROFILE"
           /\ JumpOut(i).dir = "out" /\ JumpOut(i).what = i
           /\ JumpOut(i).target = "PROFILE"
           /\ In(i).dir = "in" /\ In(i).what = i /\ In(i).target = "ACCEPT"
           /\ Out(i).dir = "out" /\ Out(i).what = i /\ Out(i).target = "ACCEPT"
           /\ Port(i).dir = "port" /\ Port(i).what = i
           /\ Port(i).target = "ACCEPT"
           /\ Masquerade(i).dir = "src" /\ Masquerade(i).what = i
           /\ Terminal.dir = "any" /\ Terminal.target = "REJECT"
BY DEF Jump, JumpOut, In, Out, Port, Masquerade, Terminal, Rule

LEMMA TerminalOther ==
    \A ch \in Chains : Terminal \notin RulesOf(ch) /\ Terminal \notin FilterRules
<1>1. Terminal \notin NatRules
  BY Fields DEF NatRules
<1>2. Terminal \notin FilterRules
  BY Fields DEF FilterRules, Of
<1>3. QED
  BY <1>1, <1>2 DEF RulesOf

LEMMA CommandCases ==
    ASSUME NEW c \in Commands, NEW ch \in Chains
    PROVE  \/ c.op = "delete" /\ c.rule \in SUBSET FilterRules
           \/ c.op = "add" /\ c.ch # ch
           \/ /\ c.op = "add" /\ c.ch = ch /\ c.rule \in RulesOf(ch)
              /\ c.at \in Places(ch)
<1>1. CASE c \in Deletes
  BY <1>1 DEF Deletes
<1>2. ASSUME NEW h \in Chains, c \in Adds(h)
      PROVE  /\ c.op = "add" /\ c.ch = h /\ c.rule \in RulesOf(h)
             /\ c.at \in Places(h)
  BY <1>2 DEF Adds
<1>3. c \in Deletes \/ \E h \in Chains : c \in Adds(h)
  BY DEF Commands, Chains
<1>4. QED
  BY <1>1, <1>2, <1>3

LEMMA ChainLength ==
    ASSUME NEW ch \in Chains, NEW s \in Contents(ch), NEW at \in Places(ch)
    PROVE  (IF at = 0 THEN Len(s) + 1 ELSE at) \in 1 .. Len(s) + 1
<1>1. PICK m \in Nat : m = Len(s) /\ DOMAIN s = 1 .. m
  BY LenProperties DEF Contents
<1>2. ch # "POSTROUTING" => m # 0
  BY <1>1 DEF Contents, Has
<1>3. QED
  BY <1>1, <1>2 DEF Places

(* A command does nothing to the rules it does not name.                   *)
Spares(c, X) == IF c.op = "delete" THEN c.rule \cap X = {} ELSE c.rule \notin X

LEMMA EffectAlike ==
    ASSUME NEW ch \in Chains, NEW c \in Commands, NEW s \in Contents(ch),
           NEW X, Spares(c, X)
    PROVE  /\ Effect(c, ch, s) \in Seq(RulesOf(ch) \cup {Terminal})
           /\ \/ Effect(c, ch, s) = s
              \/ Alike(s, Effect(c, ch, s), X \cup {Terminal})
              \/ Alike(Effect(c, ch, s), s, X \cup {Terminal})
<1>1. s \in Seq(RulesOf(ch) \cup {Terminal})
  BY DEF Contents
<1>2. CASE c.op = "delete" /\ c.rule \in SUBSET FilterRules
  <2>1. c.rule \cap (X \cup {Terminal}) = {}
    BY <1>2, TerminalOther DEF Spares
  <2>2. Effect(c, ch, s) = Without(s, c.rule)
    BY <1>2 DEF Effect
  <2>3. QED
    BY <1>1, <2>1, <2>2, Removing, RemovingAlike
<1>3. CASE c.op = "add" /\ (c.ch # ch \/ (c.once /\ Contains(s, c.rule)))
  BY <1>1, <1>3 DEF Effect
<1>4. CASE /\ c.op = "add" /\ c.rule \in RulesOf(ch) /\ c.at \in Places(ch)
           /\ ~(c.ch # ch \/ (c.once /\ Contains(s, c.rule)))
  <2>1. PICK p \in 1 .. Len(s) + 1 : p = IF c.at = 0 THEN Len(s) + 1 ELSE c.at
    BY <1>4, ChainLength
  <2>2. Effect(c, ch, s) = InsertAt(s, p, c.rule)
    BY <1>4, <2>1 DEF Effect
  <2>3. c.rule \notin X \cup {Terminal}
    BY <1>4, TerminalOther DEF Spares
  <2>4. InsertAt(s, p, c.rule) \in Seq(RulesOf(ch) \cup {Terminal})
    BY <1>1, <1>4, Inserting
  <2>5. Alike(s, InsertAt(s, p, c.rule), X \cup {Terminal})
    BY <1>1, <1>4, <2>3, InsertingAlike
  <2>6. QED
    BY <2>2, <2>4, <2>5
<1>5. QED
  BY <1>2, <1>3, <1>4, CommandCases

LEMMA EffectKeeps ==
    ASSUME NEW ch \in Chains, NEW c \in Commands, NEW s \in Contents(ch),
           NEW X, Spares(c, X), NEW x \in X \cup {Terminal}
    PROVE  /\ Has(s, x) <=> Has(Effect(c, ch, s), x)
           /\ Single(s, x) <=> Single(Effect(c, ch, s), x)
           /\ Leads(s, x, Terminal) <=> Leads(Effect(c, ch, s), x, Terminal)
           /\ \A P \in SUBSET (X \cup {Terminal}) :
                 Guarded(s, P, x) <=> Guarded(Effect(c, ch, s), P, x)
<1>1. PICK t \in Seq(RulesOf(ch) \cup {Terminal}) :
          /\ t = Effect(c, ch, s)
          /\ \/ t = s
             \/ Alike(s, t, X \cup {Terminal})
             \/ Alike(t, s, X \cup {Terminal})
  BY EffectAlike
<1>2. s \in Seq(RulesOf(ch) \cup {Terminal}) /\ Terminal \in X \cup {Terminal}
  BY DEF Contents
<1>3. CASE t = s
  BY <1>1, <1>3
<1>4. CASE Alike(s, t, X \cup {Terminal})
  BY <1>1, <1>2, <1>4, AlikeHas, AlikeSingle, AlikeLeads, AlikeGuarded
<1>5. CASE Alike(t, s, X \cup {Terminal})
  BY <1>1, <1>2, <1>5, AlikeHas, AlikeSingle, AlikeLeads, AlikeGuarded
<1>6. QED
  BY <1>1, <1>3, <1>4, <1>5

LEMMA EffectType ==
    ASSUME NEW ch \in Chains, NEW c \in Commands, NEW s \in Contents(ch)
    PROVE  Effect(c, ch, s) \in Contents(ch)
<1>1. Spares(c, {}) /\ Terminal \in {} \cup {Terminal}
  BY DEF Spares
<1>2. Has(s, Terminal) <=> Has(Effect(c, ch, s), Terminal)
  BY <1>1, EffectKeeps
<1>3. Effect(c, ch, s) \in Seq(RulesOf(ch) \cup {Terminal})
  BY <1>1, EffectAlike
<1>4. QED
  BY <1>2, <1>3 DEF Contents

(***************************************************************************)
(* What becomes of a chain when commands are given one after the other and *)
(* nobody else writes                                                      *)
(***************************************************************************)
Turns(q, ch, s, t) ==
    \E f : /\ f[0] = s
           /\ \A n \in Nat : n < Len(q) => f[n + 1] = Effect(q[n + 1], ch, f[n])
           /\ f[Len(q)] = t

LEMMA TurnsNone == \A ch, s : Turns(<<>>, ch, s, s)
<1> SUFFICES ASSUME NEW ch, NEW s PROVE Turns(<<>>, ch, s, s)
  OBVIOUS
<1> DEFINE f == [n \in Nat |-> s]
<1>1. Len(<<>>) = 0 /\ f[0] = s /\ \A n \in Nat : ~(n < 0)
  OBVIOUS
<1> HIDE DEF f
<1>2. QED
  BY <1>1 DEF Turns

LEMMA TurnsStep ==
    ASSUME NEW q \in Seq(Commands), q # <<>>, NEW ch, NEW s, NEW t,
           Turns(Tail(q), ch, Effect(Head(q), ch, s), t)
    PROVE  Turns(q, ch, s, t)
<1>1. PICK m \in Nat :
          /\ m = Len(q) /\ m > 0 /\ Len(Tail(q)) = m - 1
          /\ \A i \in 1 .. m - 1 : Tail(q)[i] = q[i + 1]
  BY LenProperties, HeadTailProperties, EmptySeq
<1>2. Head(q) = q[1]
  OBVIOUS
<1>3. PICK f :
          /\ f[0] = Effect(Head(q), ch, s)
          /\ \A n \in Nat : n < Len(Tail(q)) =>
                f[n + 1] = Effect(Tail(q)[n + 1], ch, f[n])
          /\ f[Len(Tail(q))] = t
  BY DEF Turns
<1> DEFINE g == [n \in Nat |-> IF n = 0 THEN s ELSE f[n - 1]]
<1>4. g[0] = s
  OBVIOUS
<1>5. \A n \in Nat : g[n + 1] = f[n]
  <2> SUFFICES ASSUME NEW n \in Nat PROVE g[n + 1] = f[n]
    OBVIOUS
  <2>1. n + 1 \in Nat /\ n + 1 # 0 /\ (n + 1) - 1 = n
    OBVIOUS
  <2>2. QED
    BY <2>1
<1> HIDE DEF g
<1>6. ASSUME NEW n \in Nat, n < m PROVE g[n + 1] = Effect(q[n + 1], ch, g[n])
  <2>1. CASE n = 0
    <3>1. g[0 + 1] = f[0] /\ 0 + 1 = 1
      BY <1>5
    <3>2. QED
      BY <1>2, <1>3, <1>4, <2>1, <3>1
  <2>2. CASE n # 0
    <3>1. PICK k \in Nat : k + 1 = n /\ k < m - 1 /\ n \in 1 .. m - 1
      <4>1. n - 1 \in Nat /\ (n - 1) + 1 = n
        BY <2>2
      <4>2. QED
        BY <1>1, <1>6, <4>1
    <3>2. f[n] = Effect(Tail(q)[n], ch, f[k])
      BY <1>1, <1>3, <3>1
    <3>3. QED
      BY <1>1, <1>5, <3>1, <3>2
  <2>3. QED
    BY <2>1, <2>2
<1>7. g[m] = t
  <2>1. m - 1 \in Nat /\ (m - 1) + 1 = m
    BY <1>1
  <2>2. QED
    BY <1>1, <1>3, <1>5, <2>1
<1>8. QED
  BY <1>1, <1>4, <1>6, <1>7 DEF Turns

LEMMA TurnsConcat ==
    ASSUME NEW q \in Seq(Commands), NEW r \in Seq(Commands), NEW ch, NEW s,
           NEW t, Turns(q \o r, ch, s, t)
    PROVE  \E u : Turns(q, ch, s, u) /\ Turns(r, ch, u, t)
<1>1. PICK m \in Nat, n \in Nat :
          /\ m = Len(q) /\ n = Len(r) /\ Len(q \o r) = m + n
          /\ \A i \in 1 .. m + n : (q \o r)[i] = IF i <= m THEN q[i] ELSE r[i - m]
  <2>1. Len(q) \in Nat /\ Len(r) \in Nat
    BY LenProperties
  <2>2. QED
    BY <2>1, ConcatProperties
<1>2. PICK f :
          /\ f[0] = s
          /\ \A k \in Nat : k < m + n =>
                f[k + 1] = Effect((q \o r)[k + 1], ch, f[k])
          /\ f[m + n] = t
  BY <1>1 DEF Turns
<1>3. ASSUME NEW k \in Nat, k < m PROVE f[k + 1] = Effect(q[k + 1], ch, f[k])
  <2>1. k < m + n /\ k + 1 \in 1 .. m + n /\ k + 1 <= m
    BY <1>3
  <2>2. QED
    BY <1>1, <1>2, <2>1
<1>4. Turns(q, ch, s, f[m])
  BY <1>1, <1>2, <1>3 DEF Turns
<1> DEFINE g == [k \in Nat |-> f[m + k]]
<1>5. \A k \in Nat : g[k] = f[m + k]
  OBVIOUS
<1> HIDE DEF g
<1>6. ASSUME NEW k \in Nat, k < n PROVE g[k + 1] = Effect(r[k + 1], ch, g[k])
  <2>1. PICK j \in Nat : j = m + k /\ j < m + n /\ j + 1 \in 1 .. m + n
    BY <1>6
  <2>2. ~(j + 1 <= m) /\ (j + 1) - m = k + 1 /\ j + 1 = m + (k + 1)
    BY <2>1
  <2>3. f[j + 1] = Effect(r[k + 1], ch, f[j])
    BY <1>1, <1>2, <2>1, <2>2
  <2>4. QED
    BY <1>5, <2>1, <2>2, <2>3
<1>7. g[0] = f[m] /\ g[n] = t
  <2>1. m + 0 = m /\ 0 \in Nat
    OBVIOUS
  <2>2. g[0] = f[m + 0] /\ g[n] = f[m + n]
    BY <1>5, <2>1
  <2>3. QED
    BY <1>2, <2>1, <2>2
<1>8. Turns(r, ch, f[m], t)
  BY <1>1, <1>6, <1>7 DEF Turns
<1>9. QED
  BY <1>4, <1>8

(* What every command keeps is kept.                                       *)
LEMMA TurnsKeep ==
    ASSUME NEW q \in Seq(Commands), NEW ch, NEW s, NEW t, Turns(q, ch, s, t),
           NEW S, s \in S,
           \A k \in DOMAIN q : \A u \in S : Effect(q[k], ch, u) \in S
    PROVE  t \in S
<1>1. PICK m \in Nat : m = Len(q) /\ DOMAIN q = 1 .. m
  BY LenProperties
<1>2. PICK f :
          /\ f[0] = s
          /\ \A n \in Nat : n < m => f[n + 1] = Effect(q[n + 1], ch, f[n])
          /\ f[m] = t
  BY <1>1 DEF Turns
<1> DEFINE N == {n \in Nat : n <= m => f[n] \in S}
<1>3. 0 \in N
  BY <1>2
<1>4. ASSUME NEW n \in N PROVE n + 1 \in N
  <2>1. n + 1 \in Nat
    OBVIOUS
  <2>2. ASSUME n + 1 <= m PROVE f[n + 1] \in S
    <3>1. n < m /\ n <= m /\ n + 1 \in DOMAIN q
      BY <1>1, <2>2
    <3>2. QED
      BY <1>2, <3>1
  <2>3. QED
    BY <2>1, <2>2
<1>5. N = Nat
  <2>1. N \subseteq Nat
    OBVIOUS
  <2> HIDE DEF N
  <2>2. QED
    BY <1>3, <1>4, <2>1, Induction
<1>6. QED
  BY <1>1, <1>2, <1>5

LEMMA TurnsType ==
    ASSUME NEW ch \in Chains, NEW q \in Seq(Commands), NEW s \in Contents(ch),
           NEW t, Turns(q, ch, s, t)
    PROVE  t \in Contents(ch)
<1>1. \A k \in DOMAIN q : q[k] \in Commands
  BY LenProperties, ElementOfSeq
<1>2. \A k \in DOMAIN q : \A u \in Contents(ch) :
          Effect(q[k], ch, u) \in Contents(ch)
  BY <1>1, EffectType
<1>3. QED
  BY <1>2, TurnsKeep

(***************************************************************************)
(* What is kept by commands that are about other rules                     *)
(***************************************************************************)
SparesAll(q, X) == \A k \in DOMAIN q : Spares(q[k], X)

(* What profile hooks and an opened port leave in a chain.                 *)
Wired(ch, i, s) ==
    /\ Guarded(s, {Jump(i), Terminal}, In(i))
    /\ Leads(s, In(i), Terminal)
    /\ ch = "FORWARD" => Leads(s, Out(i), Terminal)
    /\ \A x \in Of(i) : Single(s, x)

Opened(ch, p, s) ==
    /\ Single(s, Port(p))
    /\ ch = "INPUT" => Leads(s, Port(p), Terminal)

LEMMA SparesConcat ==
    ASSUME NEW q \in Seq(Commands), NEW r \in Seq(Commands), NEW X,
           SparesAll(q, X), SparesAll(r, X)
    PROVE  SparesAll(q \o r, X)
<1>1. PICK m \in Nat, n \in Nat :
          /\ m = Len(q) /\ n = Len(r) /\ DOMAIN (q \o r) = 1 .. m + n
          /\ DOMAIN q = 1 .. m /\ DOMAIN r = 1 .. n
          /\ \A i \in 1 .. m + n : (q \o r)[i] = IF i <= m THEN q[i] ELSE r[i - m]
  <2>1. /\ Len(q) \in Nat /\ Len(r) \in Nat
        /\ DOMAIN q = 1 .. Len(q) /\ DOMAIN r = 1 .. Len(r)
    BY LenProperties
  <2>2. q \o r \in Seq(Commands) /\ Len(q \o r) = Len(q) + Len(r)
    BY ConcatProperties
  <2>3. DOMAIN (q \o r) = 1 .. Len(q) + Len(r)
    BY <2>2, LenProperties
  <2>4. \A i \in 1 .. Len(q) + Len(r) :
            (q \o r)[i] = IF i <= Len(q) THEN q[i] ELSE r[i - Len(q)]
    BY ConcatProperties
  <2>5. QED
    BY <2>1, <2>3, <2>4
<1>2. ASSUME NEW i \in 1 .. m + n PROVE Spares((q \o r)[i], X)
  <2>1. CASE i <= m
    <3>1. i \in 1 .. m /\ (q \o r)[i] = q[i]
      BY <1>1, <1>2, <2>1
    <3>2. QED
      BY <1>1, <3>1 DEF SparesAll
  <2>2. CASE ~(i <= m)
    <3>1. i - m \in 1 .. n /\ (q \o r)[i] = r[i - m]
      BY <1>1, <1>2, <2>2
    <3>2. QED
      BY <1>1, <3>1 DEF SparesAll
  <2>3. QED
    BY <2>1, <2>2
<1>3. QED
  BY <1>1, <1>2 DEF SparesAll

LEMMA SparesNone == \A X : SparesAll(<<>>, X)
BY DEF SparesAll

LEMMA WiredKept ==
    ASSUME NEW ch \in Chains, NEW q \in Seq(Commands), NEW s \in Contents(ch),
           NEW t, Turns(q, ch, s, t), NEW i, SparesAll(q, Of(i)),
           Wired(ch, i, s)
    PROVE  Wired(ch, i, t)
<1> DEFINE S == {u \in Contents(ch) : Wired(ch, i, u)}
<1>1. \A k \in DOMAIN q : q[k] \in Commands /\ Spares(q[k], Of(i))
  BY LenProperties, ElementOfSeq DEF SparesAll
<1>2. ASSUME NEW k \in DOMAIN q, NEW u \in Contents(ch), Wired(ch, i, u)
      PROVE  Wired(ch, i, Effect(q[k], ch, u))
  <2>1. /\ In(i) \in Of(i) \cup {Terminal} /\ Out(i) \in Of(i) \cup {Terminal}
        /\ Of(i) \subseteq Of(i) \cup {Terminal}
        /\ {Jump(i), Terminal} \in SUBSET (Of(i) \cup {Terminal})
    BY DEF Of
  <2>2. PICK v : v = Effect(q[k], ch, u)
    OBVIOUS
  <2>3. \A x \in Of(i) \cup {Terminal} :
            /\ Single(u, x) <=> Single(v, x)
            /\ Leads(u, x, Terminal) <=> Leads(v, x, Terminal)
            /\ \A P \in SUBSET (Of(i) \cup {Terminal}) :
                  Guarded(u, P, x) <=> Guarded(v, P, x)
    BY <1>1, <1>2, <2>2, EffectKeeps
  <2>4. Wired(ch, i, v)
    BY <1>2, <2>1, <2>3 DEF Wired
  <2>5. QED
    BY <2>2, <2>4
<1>3. \A k \in DOMAIN q : \A u \in S : Effect(q[k], ch, u) \in S
  BY <1>1, <1>2, EffectType
<1>4. s \in S
  OBVIOUS
<1>5. t \in S
  <2> HIDE DEF S
  <2>1. QED
    BY <1>3, <1>4, TurnsKeep
<1>6. QED
  BY <1>5

LEMMA OpenedKept ==
    ASSUME NEW ch \in Chains, NEW q \in Seq(Commands), NEW s \in Contents(ch),
           NEW t, Turns(q, ch, s, t), NEW p, SparesAll(q, {Port(p)}),
           Opened(ch, p, s)
    PROVE  Opened(ch, p, t)
<1> DEFINE S == {u \in Contents(ch) : Opened(ch, p, u)}
<1>1. \A k \in DOMAIN q : q[k] \in Commands /\ Spares(q[k], {Port(p)})
  BY LenProperties, ElementOfSeq DEF SparesAll
<1>2. ASSUME NEW k \in DOMAIN q, NEW u \in Contents(ch), Opened(ch, p, u)
      PROVE  Opened(ch, p, Effect(q[k], ch, u))
  <2>1. /\ Single(u, Port(p)) <=> Single(Effect(q[k], ch, u), Port(p))
        /\ Leads(u, Port(p), Terminal)
               <=> Leads(Effect(q[k], ch, u), Port(p), Terminal)
    BY <1>1, <1>2, EffectKeeps
  <2>2. QED
    BY <1>2, <2>1 DEF Opened
<1>3. \A k \in DOMAIN q : \A u \in S : Effect(q[k], ch, u) \in S
  BY <1>1, <1>2, EffectType
<1>4. s \in S
  OBVIOUS
<1>5. t \in S
  <2> HIDE DEF S
  <2>1. QED
    BY <1>3, <1>4, TurnsKeep
<1>6. QED
  BY <1>5

(***************************************************************************)
(* The parts of the scripts                                                *)
(***************************************************************************)
LEMMA CommandTypes ==
    /\ \A part \in Parts, once \in BOOLEAN, ch \in Chains :
          \A rule \in RulesOf(ch), at \in Places(ch) :
              Add(part, ch, rule, at, once) \in Commands
    /\ \A part \in Parts, D \in SUBSET FilterRules :
          Delete(part, D) \in Commands
<1>1. ASSUME NEW part \in Parts, NEW once \in BOOLEAN, NEW ch \in Chains,
             NEW rule \in RulesOf(ch), NEW at \in Places(ch)
      PROVE  Add(part, ch, rule, at, once) \in Commands
  <2>1. Add(part, ch, rule, at, once) \in Adds(ch)
    BY <1>1 DEF Add, Adds
  <2>2. QED
    BY <2>1 DEF Commands, Chains
<1>2. ASSUME NEW part \in Parts, NEW D \in SUBSET FilterRules
      PROVE  Delete(part, D) \in Commands
  BY <1>2 DEF Delete, Deletes, Commands
<1>3. QED
  BY <1>1, <1>2

LEMMA FilterCommands ==
    /\ \A part \in Parts, ch \in {"FORWARD", "INPUT"}, rule \in FilterRules :
          /\ Insert(part, ch, rule) \in Commands
          /\ Second(part, ch, rule) \in Commands
          /\ InsertMissing(part, ch, rule) \in Commands
          /\ AppendMissing(part, ch, rule) \in Commands
    /\ \A part \in Parts, rule \in NatRules :
          /\ InsertMissing(part, "POSTROUTING", rule) \in Commands
          /\ AppendMissing(part, "POSTROUTING", rule) \in Commands
    /\ \A i \in {"wg", "raw"} : Of(i) \subseteq FilterRules
    /\ JumpOut("raw") \in FilterRules
    /\ \A p \in Ports : Port(p) \in FilterRules
    /\ Masquerade("wg") \in NatRules /\ Masquerade("raw") \in NatRules
<1>1. ASSUME NEW part \in Parts, NEW ch \in {"FORWARD", "INPUT"},
             NEW rule \in FilterRules
      PROVE  /\ Insert(part, ch, rule) \in Commands
             /\ Second(part, ch, rule) \in Commands
             /\ InsertMissing(part, ch, rule) \in Commands
             /\ AppendMissing(part, ch, rule) \in Commands
  <2>1. /\ ch \in Chains /\ rule \in RulesOf(ch)
        /\ {0, 1, 2} \subseteq Places(ch)
    BY <1>1 DEF Chains, RulesOf, Places
  <2>2. QED
    BY <2>1, CommandTypes DEF Insert, Second, InsertMissing, AppendMissing
<1>2. ASSUME NEW part \in Parts, NEW rule \in NatRules
      PROVE  /\ InsertMissing(part, "POSTROUTING", rule) \in Commands
             /\ AppendMissing(part, "POSTROUTING", rule) \in Commands
  <2>1. /\ "POSTROUTING" \in Chains /\ rule \in RulesOf("POSTROUTING")
        /\ {0, 1} \subseteq Places("POSTROUTING")
    BY <1>2 DEF Chains, RulesOf, Places
  <2>2. QED
    BY <2>1, CommandTypes DEF InsertMissing, AppendMissing
<1>3. QED
  BY <1>1, <1>2 DEF FilterRules, NatRules, Of

LEMMA HooksType ==
    ASSUME NEW part \in Parts, NEW i \in {"wg", "raw"}
    PROVE  /\ Hooks(part, i) \in Seq(Commands)
           /\ \A X : X \cap Of(i) = {} => SparesAll(Hooks(part, i), X)
<1>1. Of(i) \in SUBSET FilterRules
  BY FilterCommands
<1>2. /\ Delete(part, Of(i)) \in Commands
      /\ Insert(part, "FORWARD", Jump(i)) \in Commands
      /\ Insert(part, "INPUT", Jump(i)) \in Commands
      /\ Second(part, "FORWARD", In(i)) \in Commands
      /\ Second(part, "FORWARD", Out(i)) \in Commands
      /\ Second(part, "INPUT", In(i)) \in Commands
  BY <1>1, CommandTypes, FilterCommands DEF Of
<1>3. Hooks(part, i) \in Seq(Commands)
  BY <1>2 DEF Hooks, Of
<1>4. ASSUME NEW X, X \cap Of(i) = {} PROVE SparesAll(Hooks(part, i), X)
  <2>1. /\ Spares(Delete(part, Of(i)), X)
        /\ Spares(Insert(part, "FORWARD", Jump(i)), X)
        /\ Spares(Insert(part, "INPUT", Jump(i)), X)
        /\ Spares(Second(part, "FORWARD", In(i)), X)
        /\ Spares(Second(part, "FORWARD", Out(i)), X)
        /\ Spares(Second(part, "INPUT", In(i)), X)
    BY <1>4 DEF Spares, Delete, Insert, Second, Add, Of
  <2>2. QED
    BY <2>1 DEF SparesAll, Hooks, Of
<1>5. QED
  BY <1>3, <1>4

LEMMA Effects ==
    \A part, h, x, ch, s, D :
        /\ Effect(Delete(part, D), ch, s) = Without(s, D)
        /\ Effect(Insert(part, h, x), ch, s)
               = IF h = ch THEN InsertAt(s, 1, x) ELSE s
        /\ Effect(Second(part, h, x), ch, s)
               = IF h = ch THEN InsertAt(s, 2, x) ELSE s
        /\ Effect(InsertMissing(part, h, x), ch, s)
               = IF h # ch \/ Contains(s, x) THEN s ELSE InsertAt(s, 1, x)
        /\ Effect(AppendMissing(part, h, x), ch, s)
               = IF h # ch \/ Contains(s, x) THEN s
                 ELSE InsertAt(s, Len(s) + 1, x)
BY DEF Effect, Delete, Insert, Second, InsertMissing, AppendMissing, Add

(* The order in which the hooks leave what is about an interface.          *)
LEMMA WiredShape ==
    ASSUME NEW R, NEW t \in Seq(R), NEW i, NEW ch, NEW n \in Nat,
           DOMAIN t = 1 .. n, n >= 3,
           t[1] = Jump(i),
           \/ t[2] = In(i) /\ ch # "FORWARD" /\ t[3] \notin Of(i)
           \/ t[2] = Out(i) /\ t[3] = In(i),
           \A k \in 4 .. n : t[k] \notin Of(i)
    PROVE  Wired(ch, i, t)
<1>1. /\ Jump(i) # In(i) /\ Jump(i) # Out(i) /\ In(i) # Out(i)
      /\ Terminal # Jump(i) /\ Terminal # In(i) /\ Terminal # Out(i)
  BY Fields
<1>2. 1 \in 1 .. n /\ 2 \in 1 .. n /\ 3 \in 1 .. n
  OBVIOUS
<1>3. \A k \in 1 .. n : k \in {1, 2, 3} \/ k \in 4 .. n
  OBVIOUS
<1>4. \A k \in 1 .. n : t[k] \in Of(i) => k \in {1, 2, 3}
  BY <1>3
<1>5. \A x \in Of(i) : Single(t, x)
  BY <1>1, <1>4 DEF Single, Of
<1>6. Guarded(t, {Jump(i), Terminal}, In(i))
  <2>1. ASSUME NEW k \in 1 .. n, t[k] = In(i) PROVE 1 < k
    <3>1. k # 1
      BY <1>1, <2>1
    <3>2. QED
      BY <3>1
  <2>2. QED
    BY <1>2, <2>1 DEF Guarded
<1>7. /\ \A j \in 1 .. n : j < 2 => t[j] # Terminal
      /\ t[2] = Out(i) => \A j \in 1 .. n : j < 3 => t[j] # Terminal
  <2>1. /\ \A j \in 1 .. n : j < 2 => j = 1
        /\ \A j \in 1 .. n : j < 3 => j = 1 \/ j = 2
    OBVIOUS
  <2>2. QED
    BY <1>1, <2>1
<1>8. Leads(t, In(i), Terminal) /\ (ch = "FORWARD" => Leads(t, Out(i), Terminal))
  BY <1>2, <1>7 DEF Leads
<1>9. QED
  BY <1>5, <1>6, <1>8 DEF Wired

(* Whatever was in the chain before.                                       *)
LEMMA HooksWire ==
    ASSUME NEW part \in Parts, NEW i \in {"wg", "raw"},
           NEW ch \in {"FORWARD", "INPUT"}, NEW s \in Contents(ch), NEW t,
           Turns(Hooks(part, i), ch, s, t)
    PROVE  Wired(ch, i, t)
<1>1. PICK q : /\ q = Hooks(part, i) /\ Len(q) = 6
               /\ q[1] = Delete(part, Of(i))
               /\ q[2] = Insert(part, "FORWARD", Jump(i))
               /\ q[3] = Insert(part, "INPUT", Jump(i))
               /\ q[4] = Second(part, "FORWARD", In(i))
               /\ q[5] = Second(part, "FORWARD", Out(i))
               /\ q[6] = Second(part, "INPUT", In(i))
  BY DEF Hooks, Of
<1>2. PICK f : /\ f[0] = s
               /\ \A n \in Nat : n < 6 =>
                     f[n + 1] = Effect(q[n + 1], ch, f[n])
               /\ f[6] = t
  BY <1>1 DEF Turns
<1>3. /\ f[1] = Effect(q[1], ch, s) /\ f[2] = Effect(q[2], ch, f[1])
      /\ f[3] = Effect(q[3], ch, f[2]) /\ f[4] = Effect(q[4], ch, f[3])
      /\ f[5] = Effect(q[5], ch, f[4]) /\ t = Effect(q[6], ch, f[5])
  <2>1. \A n \in {0, 1, 2, 3, 4, 5} : n \in Nat /\ n < 6
    OBVIOUS
  <2>2. 0 + 1 = 1 /\ 1 + 1 = 2 /\ 2 + 1 = 3 /\ 3 + 1 = 4 /\ 4 + 1 = 5 /\ 5 + 1 = 6
    OBVIOUS
  <2>3. \A n \in {0, 1, 2, 3, 4, 5} : f[n + 1] = Effect(q[n + 1], ch, f[n])
    BY <1>2, <2>1
  <2>4. QED
    BY <1>2, <2>2, <2>3
<1>4. PICK R : R = RulesOf(ch) \cup {Terminal}
  OBVIOUS
<1>5. Jump(i) \in R /\ In(i) \in R /\ Out(i) \in R
  BY <1>4, FilterCommands DEF RulesOf, Of
<1>6. s \in Seq(R) /\ f[1] = Without(s, Of(i)) /\ f[1] \in Contents(ch)
  <2>1. Delete(part, Of(i)) \in Commands /\ ch \in Chains
    BY CommandTypes, FilterCommands DEF Chains
  <2>2. f[1] = Without(s, Of(i))
    BY <1>1, <1>3, Effects
  <2>3. f[1] \in Contents(ch)
    BY <1>1, <1>3, <2>1, EffectType
  <2>4. s \in Seq(R)
    BY <1>4 DEF Contents
  <2>5. QED
    BY <2>2, <2>3, <2>4
<1>7. PICK u \in Seq(R), m \in Nat :
          /\ u = f[1] /\ m = Len(u) /\ m > 0
          /\ \A k \in 1 .. m : u[k] \notin Of(i)
  <2>1. PICK u \in Seq(R) : u = f[1] /\ Has(u, Terminal)
    BY <1>4, <1>6 DEF Contents
  <2>2. PICK m \in Nat : m = Len(u) /\ DOMAIN u = 1 .. m
    BY LenProperties
  <2>3. m # 0
    BY <2>1, <2>2 DEF Has
  <2>4. \A x \in Of(i) : ~Has(u, x)
    BY <1>6, <2>1, Removed
  <2>5. \A k \in 1 .. m : u[k] \notin Of(i)
    BY <2>2, <2>4 DEF Has
  <2>6. QED
    BY <2>1, <2>2, <2>3, <2>5
<1>8. CASE ch = "FORWARD"
  <2>1. /\ f[2] = InsertAt(u, 1, Jump(i)) /\ f[3] = f[2]
        /\ f[4] = InsertAt(f[3], 2, In(i))
        /\ f[5] = InsertAt(f[4], 2, Out(i)) /\ t = f[5]
    BY <1>1, <1>3, <1>7, <1>8, Effects
  <2>2. PICK v \in Seq(R) :
            /\ v = f[4] /\ Len(v) = m + 2 /\ v[1] = Jump(i) /\ v[2] = In(i)
            /\ \A k \in 1 .. m : v[k + 2] = u[k]
    <3>1. f[4] = InsertAt(InsertAt(u, 1, Jump(i)), 2, In(i))
      BY <2>1
    <3>2. PICK v \in Seq(R) :
              /\ v = InsertAt(InsertAt(u, 1, Jump(i)), 2, In(i))
              /\ Len(v) = Len(u) + 2 /\ DOMAIN v = 1 .. Len(u) + 2
              /\ v[1] = Jump(i) /\ v[2] = In(i)
              /\ \A k \in 1 .. Len(u) : v[k + 2] = u[k]
      BY <1>5, Stacked
    <3>3. QED
      BY <1>7, <3>1, <3>2
  <2>3. PICK w \in Seq(R) :
            /\ w = t /\ DOMAIN w = 1 .. m + 3
            /\ w[1] = Jump(i) /\ w[2] = Out(i)
            /\ \A k \in 2 .. m + 2 : w[k + 1] = v[k]
    <3>1. Len(v) > 0 /\ Len(v) + 1 = m + 3
      BY <2>2
    <3>2. PICK w \in Seq(R) :
              /\ w = InsertAt(v, 2, Out(i)) /\ DOMAIN w = 1 .. Len(v) + 1
              /\ w[1] = v[1] /\ w[2] = Out(i)
              /\ \A k \in 2 .. Len(v) : w[k + 1] = v[k]
      BY <1>5, <3>1, StackedMore
    <3>3. QED
      BY <2>1, <2>2, <3>1, <3>2
  <2>4. w[3] = In(i)
    <3>1. 2 \in 2 .. m + 2 /\ 2 + 1 = 3
      OBVIOUS
    <3>2. QED
      BY <2>2, <2>3, <3>1
  <2>5. ASSUME NEW k \in 4 .. m + 3 PROVE w[k] \notin Of(i)
    <3>1. PICK j \in 1 .. m : k = j + 3
      <4>1. k - 3 \in 1 .. m /\ k = (k - 3) + 3
        BY <2>5
      <4>2. QED
        BY <4>1
    <3>2. j + 2 \in 2 .. m + 2 /\ (j + 2) + 1 = k
      BY <3>1
    <3>3. QED
      BY <1>7, <2>2, <2>3, <3>2
  <2>6. m + 3 \in Nat /\ m + 3 >= 3
    OBVIOUS
  <2>7. Wired(ch, i, w)
    BY <2>3, <2>4, <2>5, <2>6, WiredShape
  <2>8. QED
    BY <2>3, <2>7
<1>9. CASE ch = "INPUT"
  <2>1. "FORWARD" # "INPUT"
    OBVIOUS
  <2>2. /\ f[2] = u /\ f[3] = InsertAt(f[2], 1, Jump(i))
        /\ f[4] = f[3] /\ f[5] = f[4]
        /\ t = InsertAt(f[5], 2, In(i))
    BY <1>1, <1>3, <1>7, <1>9, <2>1, Effects
  <2>3. PICK w \in Seq(R) :
            /\ w = t /\ DOMAIN w = 1 .. m + 2
            /\ w[1] = Jump(i) /\ w[2] = In(i)
            /\ \A k \in 1 .. m : w[k + 2] = u[k]
    <3>1. t = InsertAt(InsertAt(u, 1, Jump(i)), 2, In(i))
      BY <2>2
    <3>2. PICK v \in Seq(R) :
              /\ v = InsertAt(InsertAt(u, 1, Jump(i)), 2, In(i))
              /\ Len(v) = Len(u) + 2 /\ DOMAIN v = 1 .. Len(u) + 2
              /\ v[1] = Jump(i) /\ v[2] = In(i)
              /\ \A k \in 1 .. Len(u) : v[k + 2] = u[k]
      BY <1>5, Stacked
    <3>3. QED
      BY <1>7, <3>1, <3>2
  <2>4. ASSUME NEW k \in 3 .. m + 2 PROVE w[k] \notin Of(i)
    <3>1. k - 2 \in 1 .. m /\ (k - 2) + 2 = k
      BY <2>4
    <3>2. QED
      BY <1>7, <2>3, <3>1
  <2>5. m + 2 \in Nat /\ m + 2 >= 3 /\ 3 \in 3 .. m + 2
    BY <1>7
  <2>6. \A k \in 4 .. m + 2 : k \in 3 .. m + 2
    OBVIOUS
  <2>7. Wired(ch, i, w)
    BY <1>9, <2>3, <2>4, <2>5, <2>6, WiredShape
  <2>8. QED
    BY <2>3, <2>7
<1>10. QED
  BY <1>8, <1>9

(***************************************************************************)
(* What the hook may write: nothing that lets the tunnel past its jump     *)
(***************************************************************************)
Gentle(c) ==
    IF c.op = "delete" THEN Jump("wg") \notin c.rule
    ELSE c.rule = In("wg") => c.at = 0

HookCommands == {c \in Commands : Gentle(c)}

LEMMA GentleKeeps ==
    ASSUME NEW ch \in {"FORWARD", "INPUT"}, NEW c \in HookCommands,
           NEW s \in Contents(ch),
           Guarded(s, {Jump("wg"), Terminal}, In("wg"))
    PROVE  Guarded(Effect(c, ch, s), {Jump("wg"), Terminal}, In("wg"))
<1> DEFINE P == {Jump("wg"), Terminal}
<1>1. c \in Commands /\ Gentle(c) /\ ch \in Chains
  BY DEF HookCommands, Chains
<1>2. PICK R : R = RulesOf(ch) \cup {Terminal}
  OBVIOUS
<1>3. s \in Seq(R) /\ Has(s, Terminal)
  BY <1>2 DEF Contents
<1>4. CASE c.op = "delete" /\ In("wg") \in c.rule
  <2>1. Effect(c, ch, s) = Without(s, c.rule)
    BY <1>4 DEF Effect
  <2>2. ~Has(Effect(c, ch, s), In("wg"))
    BY <1>3, <1>4, <2>1, Removed
  <2>3. QED
    BY <2>2 DEF Guarded, Has
<1>5. CASE c.op = "delete" /\ In("wg") \notin c.rule
  <2>1. PICK X : X = {Jump("wg"), In("wg")}
    OBVIOUS
  <2>2. /\ Spares(c, X) /\ In("wg") \in X \cup {Terminal}
        /\ P \in SUBSET (X \cup {Terminal})
    BY <1>1, <1>5, <2>1 DEF Spares, Gentle
  <2>3. QED
    BY <1>1, <2>2, EffectKeeps
<1>6. CASE c.op = "add" /\ (c.ch # ch \/ (c.once /\ Contains(s, c.rule)))
  BY <1>6 DEF Effect
<1>7. CASE /\ c.op = "add" /\ c.rule \in RulesOf(ch) /\ c.at \in Places(ch)
           /\ ~(c.ch # ch \/ (c.once /\ Contains(s, c.rule)))
  <2>1. PICK p \in 1 .. Len(s) + 1 : p = IF c.at = 0 THEN Len(s) + 1 ELSE c.at
    BY <1>1, <1>7, ChainLength
  <2>2. Effect(c, ch, s) = InsertAt(s, p, c.rule)
    BY <1>7, <2>1 DEF Effect
  <2>3. c.rule \in R
    BY <1>2, <1>7
  <2>4. CASE c.rule # In("wg")
    <3>1. c.rule \notin {In("wg")}
      BY <2>4
    <3>2. Alike(s, InsertAt(s, p, c.rule), {In("wg")})
      BY <1>3, <2>3, <3>1, InsertingAlike
    <3>3. InsertAt(s, p, c.rule) \in Seq(R)
      BY <1>3, <2>3, Inserting
    <3>4. Guarded(InsertAt(s, p, c.rule), P, In("wg"))
      <4>1. PICK t \in Seq(R) : t = InsertAt(s, p, c.rule)
        BY <3>3
      <4>2. In("wg") \in {In("wg")} /\ Alike(s, t, {In("wg")})
        BY <3>2, <4>1
      <4> HIDE DEF P
      <4>3. Guarded(s, P, In("wg"))
        BY DEF P
      <4>4. Guarded(t, P, In("wg"))
        BY <1>3, <4>2, <4>3, AlikeGuards
      <4>5. QED
        BY <4>1, <4>4
    <3>5. QED
      BY <2>2, <3>4
  <2>5. CASE c.rule = In("wg")
    <3>1. p = Len(s) + 1
      BY <1>1, <1>7, <2>1, <2>5 DEF Gentle
    <3>2. PICK m \in Nat : m = Len(s) /\ DOMAIN s = 1 .. m
      BY <1>3, LenProperties
    <3>3. PICK t : /\ t = InsertAt(s, p, c.rule) /\ DOMAIN t = 1 .. m + 1
                   /\ \A k \in 1 .. m : t[k] = s[k]
      <4>1. /\ DOMAIN InsertAt(s, p, c.rule) = 1 .. Len(s) + 1
            /\ \A k \in 1 .. Len(s) :
                  k < p => InsertAt(s, p, c.rule)[k] = s[k]
        BY <1>3, <2>3, Inserting
      <4>2. QED
        BY <3>1, <3>2, <4>1
    <3>4. ASSUME NEW k \in 1 .. m + 1, t[k] = In("wg")
          PROVE  \E j \in 1 .. m + 1 : j < k /\ t[j] \in P
      <4>1. CASE k \in 1 .. m
        <5>1. PICK j \in 1 .. m : j < k /\ s[j] \in P
          BY <3>2, <3>3, <3>4, <4>1 DEF Guarded
        <5>2. j \in 1 .. m + 1
          BY <5>1
        <5>3. QED
          BY <3>3, <5>1, <5>2
      <4>2. CASE k = m + 1
        <5>1. PICK j \in 1 .. m : s[j] = Terminal
          BY <1>3, <3>2 DEF Has
        <5>2. j \in 1 .. m + 1 /\ j < k
          BY <4>2, <5>1
        <5>3. QED
          BY <3>3, <5>1, <5>2
      <4>3. QED
        BY <4>1, <4>2
    <3>5. QED
      BY <2>2, <3>3, <3>4 DEF Guarded
  <2>6. QED
    BY <2>4, <2>5
<1>8. QED
  BY <1>1, <1>4, <1>5, <1>6, <1>7, CommandCases

(***************************************************************************)
(* Openings of ports                                                       *)
(***************************************************************************)
LEMMA OpenPortType ==
    ASSUME NEW part \in Parts, NEW p \in Ports
    PROVE  /\ OpenPort(part, p) \in Seq(HookCommands)
           /\ \A X : Port(p) \notin X => SparesAll(OpenPort(part, p), X)
<1>1. /\ Delete(part, {Port(p)}) \in Commands
      /\ Insert(part, "INPUT", Port(p)) \in Commands
  BY CommandTypes, FilterCommands
<1>2. Gentle(Delete(part, {Port(p)})) /\ Gentle(Insert(part, "INPUT", Port(p)))
  BY Fields DEF Gentle, Delete, Insert, Add
<1>3. OpenPort(part, p) \in Seq(HookCommands)
  BY <1>1, <1>2 DEF OpenPort, HookCommands
<1>4. ASSUME NEW X, Port(p) \notin X PROVE SparesAll(OpenPort(part, p), X)
  <2>1. /\ Spares(Delete(part, {Port(p)}), X)
        /\ Spares(Insert(part, "INPUT", Port(p)), X)
    BY <1>4 DEF Spares, Delete, Insert, Add
  <2>2. QED
    BY <2>1 DEF SparesAll, OpenPort
<1>5. QED
  BY <1>3, <1>4

LEMMA OpenPortOpens ==
    ASSUME NEW part \in Parts, NEW p \in Ports,
           NEW ch \in {"FORWARD", "INPUT"}, NEW s \in Contents(ch), NEW t,
           Turns(OpenPort(part, p), ch, s, t)
    PROVE  Opened(ch, p, t)
<1>1. PICK q : /\ q = OpenPort(part, p) /\ Len(q) = 2
               /\ q[1] = Delete(part, {Port(p)})
               /\ q[2] = Insert(part, "INPUT", Port(p))
  BY DEF OpenPort
<1>2. PICK f : /\ f[0] = s
               /\ \A n \in Nat : n < 2 =>
                     f[n + 1] = Effect(q[n + 1], ch, f[n])
               /\ f[2] = t
  BY <1>1 DEF Turns
<1>3. f[1] = Effect(q[1], ch, s) /\ t = Effect(q[2], ch, f[1])
  <2>1. 0 < 2 /\ 1 < 2 /\ 0 + 1 = 1 /\ 1 + 1 = 2
    OBVIOUS
  <2>2. f[0 + 1] = Effect(q[0 + 1], ch, f[0]) /\ f[1 + 1] = Effect(q[1 + 1], ch, f[1])
    BY <1>2, <2>1
  <2>3. QED
    BY <1>2, <2>1, <2>2
<1>4. PICK R : R = RulesOf(ch) \cup {Terminal}
  OBVIOUS
<1>5. s \in Seq(R) /\ Port(p) \in R
  BY <1>4, FilterCommands DEF Contents, RulesOf
<1>6. PICK u \in Seq(R) : u = f[1] /\ ~Has(u, Port(p))
  <2>1. f[1] = Without(s, {Port(p)})
    BY <1>1, <1>3, Effects
  <2>2. Port(p) \in {Port(p)}
    OBVIOUS
  <2>3. QED
    BY <1>5, <2>1, <2>2, Removing, Removed
<1>7. CASE ch = "FORWARD"
  <2>1. t = u
    BY <1>1, <1>3, <1>6, <1>7, Effects
  <2>2. QED
    BY <1>6, <1>7, <2>1 DEF Opened, Single, Has
<1>8. CASE ch = "INPUT"
  <2>1. t = InsertAt(u, 1, Port(p))
    BY <1>1, <1>3, <1>6, <1>8, Effects
  <2>2. PICK m \in Nat : m = Len(u) /\ DOMAIN u = 1 .. m
    BY LenProperties
  <2>3. /\ t \in Seq(R) /\ Len(t) = m + 1 /\ t[1] = Port(p)
        /\ \A k \in 1 .. m : t[k + 1] = u[k]
    <3>1. /\ InsertAt(u, 1, Port(p)) \in Seq(R)
          /\ Len(InsertAt(u, 1, Port(p))) = Len(u) + 1
          /\ InsertAt(u, 1, Port(p))[1] = Port(p)
          /\ \A k \in 1 .. Len(u) : InsertAt(u, 1, Port(p))[k + 1] = u[k]
      BY <1>5, InsertingFirst
    <3>2. QED
      BY <2>1, <2>2, <3>1
  <2>4. DOMAIN t = 1 .. m + 1
    BY <2>3, LenProperties
  <2>5. ASSUME NEW k \in 1 .. m + 1, t[k] = Port(p) PROVE k = 1
    <3>1. CASE k # 1
      <4>1. PICK l \in 1 .. m : l + 1 = k
        <5>1. k - 1 \in 1 .. m /\ (k - 1) + 1 = k
          BY <3>1
        <5>2. QED
          BY <5>1
      <4>2. u[l] = Port(p)
        BY <2>3, <2>5, <4>1
      <4>3. QED
        BY <1>6, <2>2, <4>2 DEF Has
    <3>2. QED
      BY <3>1
  <2>6. Single(t, Port(p))
    BY <2>4, <2>5 DEF Single
  <2>7. 1 \in 1 .. m + 1 /\ \A j \in 1 .. m + 1 : ~(j < 1)
    OBVIOUS
  <2>8. Leads(t, Port(p), Terminal)
    BY <2>3, <2>4, <2>7 DEF Leads
  <2>9. QED
    BY <2>6, <2>8 DEF Opened
<1>9. QED
  BY <1>7, <1>8

(***************************************************************************)
(* Translations, which no command deletes                                  *)
(***************************************************************************)
Awaits(q, x) ==
    \E k \in DOMAIN q :
        q[k].op = "add" /\ q[k].ch = "POSTROUTING" /\ q[k].rule = x

LEMMA AwaitsConcat ==
    ASSUME NEW q \in Seq(Commands), NEW r \in Seq(Commands), NEW x,
           Awaits(q, x) \/ Awaits(r, x)
    PROVE  Awaits(q \o r, x)
<1>1. PICK m \in Nat, n \in Nat :
          m = Len(q) /\ n = Len(r) /\ DOMAIN q = 1 .. m /\ DOMAIN r = 1 .. n
  BY LenProperties
<1>2. /\ q \o r \in Seq(Commands) /\ Len(q \o r) = m + n
      /\ \A i \in 1 .. m + n : (q \o r)[i] = IF i <= m THEN q[i] ELSE r[i - m]
  BY <1>1, ConcatProperties
<1>3. DOMAIN (q \o r) = 1 .. m + n
  BY <1>2, LenProperties
<1>4. ASSUME NEW k \in 1 .. m PROVE k \in 1 .. m + n /\ (q \o r)[k] = q[k]
  BY <1>2
<1>5. ASSUME NEW k \in 1 .. n
      PROVE  m + k \in 1 .. m + n /\ (q \o r)[m + k] = r[k]
  <2>1. m + k \in 1 .. m + n /\ ~(m + k <= m) /\ (m + k) - m = k
    OBVIOUS
  <2>2. QED
    BY <1>2, <2>1
<1>6. QED
  BY <1>1, <1>3, <1>4, <1>5 DEF Awaits

LEMMA TurnsHas ==
    ASSUME NEW q \in Seq(Commands), NEW s \in Contents("POSTROUTING"), NEW t,
           Turns(q, "POSTROUTING", s, t), NEW x \in NatRules, Awaits(q, x)
    PROVE  Has(t, x)
<1> DEFINE ch == "POSTROUTING"
<1>1. PICK m \in Nat : m = Len(q) /\ DOMAIN q = 1 .. m
  BY LenProperties
<1>2. PICK f :
          /\ f[0] = s
          /\ \A n \in Nat : n < m => f[n + 1] = Effect(q[n + 1], ch, f[n])
          /\ f[m] = t
  BY <1>1 DEF Turns
<1>3. PICK k \in 1 .. m :
          q[k].op = "add" /\ q[k].ch = ch /\ q[k].rule = x
  BY <1>1 DEF Awaits
<1>4. ch \in Chains /\ x \notin FilterRules
  BY Fields DEF Chains, NatRules, FilterRules, Of
<1>5. ASSUME NEW c \in Commands, NEW u \in Contents(ch),
             Has(u, x) \/ (c.op = "add" /\ c.ch = ch /\ c.rule = x)
      PROVE  Has(Effect(c, ch, u), x)
  <2>1. CASE c.op = "add" /\ c.ch = ch /\ c.rule = x
    <3>1. CASE c.once /\ Contains(u, x)
      <4>1. PICK n \in Nat : n = Len(u) /\ DOMAIN u = 1 .. n
        BY LenProperties DEF Contents
      <4>2. Has(u, x)
        BY <3>1, <4>1 DEF Contains, Has
      <4>3. QED
        BY <2>1, <3>1, <4>2 DEF Effect
    <3>2. CASE ~(c.once /\ Contains(u, x))
      <4>1. c.at \in Places(ch) /\ x \in RulesOf(ch)
        BY <1>4, <2>1, CommandCases DEF RulesOf
      <4>2. PICK p \in 1 .. Len(u) + 1 :
                p = IF c.at = 0 THEN Len(u) + 1 ELSE c.at
        BY <1>4, <4>1, ChainLength
      <4>3. Effect(c, ch, u) = InsertAt(u, p, x)
        BY <2>1, <3>2, <4>2 DEF Effect
      <4>4. PICK R : R = RulesOf(ch) \cup {Terminal}
        OBVIOUS
      <4>5. u \in Seq(R) /\ x \in R
        BY <4>1, <4>4 DEF Contents
      <4>6. /\ DOMAIN InsertAt(u, p, x) = 1 .. Len(u) + 1
            /\ InsertAt(u, p, x)[p] = x
        BY <4>5, Inserting
      <4>7. QED
        BY <4>3, <4>6 DEF Has
    <3>3. QED
      BY <3>1, <3>2
  <2>2. CASE Has(u, x) /\ ~(c.op = "add" /\ c.ch = ch /\ c.rule = x)
    <3>1. CASE c.op = "add" /\ c.ch # ch
      BY <2>2, <3>1 DEF Effect
    <3>2. CASE ~(c.op = "add" /\ c.ch # ch)
      <4>1. Spares(c, {x}) /\ x \in {x} \cup {Terminal}
        BY <1>4, <2>2, <3>2, CommandCases DEF Spares
      <4>2. QED
        BY <1>4, <2>2, <4>1, EffectKeeps
    <3>3. QED
      BY <3>1, <3>2
  <2>3. QED
    BY <1>5, <2>1, <2>2
<1> DEFINE N == {n \in Nat : n <= m =>
                    f[n] \in Contents(ch) /\ (k <= n => Has(f[n], x))}
<1>6. 0 \in N
  BY <1>2, <1>3
<1>7. ASSUME NEW n \in N PROVE n + 1 \in N
  <2>1. n + 1 \in Nat
    OBVIOUS
  <2>2. ASSUME n + 1 <= m
        PROVE  f[n + 1] \in Contents(ch) /\ (k <= n + 1 => Has(f[n + 1], x))
    <3>1. n < m /\ n <= m /\ n + 1 \in 1 .. m
      BY <1>1, <2>2
    <3>2. q[n + 1] \in Commands /\ f[n] \in Contents(ch)
      BY <1>1, <3>1, ElementOfSeq
    <3>3. f[n + 1] = Effect(q[n + 1], ch, f[n])
      BY <1>2, <3>1
    <3>4. f[n + 1] \in Contents(ch)
      BY <1>4, <3>2, <3>3, EffectType
    <3>5. CASE k <= n
      BY <1>5, <3>1, <3>2, <3>3, <3>4, <3>5
    <3>6. CASE k = n + 1
      BY <1>3, <1>5, <3>2, <3>3, <3>4, <3>6
    <3>7. QED
      BY <3>4, <3>5, <3>6
  <2>3. QED
    BY <2>1, <2>2
<1>8. N = Nat
  <2>1. N \subseteq Nat
    OBVIOUS
  <2> HIDE DEF N
  <2>2. QED
    BY <1>6, <1>7, <2>1, Induction
<1>9. m \in N /\ m <= m /\ k <= m
  BY <1>8
<1>10. QED
  BY <1>2, <1>9

(***************************************************************************)
(* The rest of the parts                                                   *)
(***************************************************************************)
LEMMA HookSubset == Seq(HookCommands) \subseteq Seq(Commands)
<1>1. HookCommands \subseteq Commands
  BY DEF HookCommands
<1>2. QED
  BY <1>1, SeqMonotonic

LEMMA NATModeType ==
    /\ NATMode \in Seq(Commands)
    /\ Awaits(NATMode, Masquerade("wg"))
<1>1. /\ "nat" \in Parts
      /\ Jump("wg") \in FilterRules /\ In("wg") \in FilterRules
      /\ Out("wg") \in FilterRules
  BY FilterCommands DEF Of, Parts
<1>2. /\ AppendMissing("nat", "POSTROUTING", Masquerade("wg")) \in Commands
      /\ AppendMissing("nat", "FORWARD", In("wg")) \in Commands
      /\ AppendMissing("nat", "FORWARD", Out("wg")) \in Commands
      /\ AppendMissing("nat", "INPUT", In("wg")) \in Commands
  BY <1>1, FilterCommands
<1>3. NATMode \in Seq(Commands)
  BY <1>2 DEF NATMode
<1>4. 1 \in DOMAIN NATMode /\
      NATMode[1] = AppendMissing("nat", "POSTROUTING", Masquerade("wg"))
  BY DEF NATMode
<1>5. QED
  BY <1>3, <1>4 DEF Awaits, AppendMissing, Add

LEMMA RawTUNType ==
    /\ RawTUN \in Seq(Commands)
    /\ Awaits(RawTUN, Masquerade("raw"))
    /\ \A X : X \cap (Of("raw") \cup {Masquerade("raw")}) = {}
                  => SparesAll(RawTUN, X)
<1>1. /\ "raw" \in Parts
      /\ Jump("raw") \in FilterRules /\ In("raw") \in FilterRules
      /\ Out("raw") \in FilterRules
  BY FilterCommands DEF Of, Parts
<1>2. /\ InsertMissing("raw", "POSTROUTING", Masquerade("raw")) \in Commands
      /\ InsertMissing("raw", "FORWARD", In("raw")) \in Commands
      /\ InsertMissing("raw", "FORWARD", Out("raw")) \in Commands
      /\ InsertMissing("raw", "INPUT", In("raw")) \in Commands
  BY <1>1, FilterCommands
<1>3. RawTUN \in Seq(Commands)
  BY <1>2 DEF RawTUN
<1>4. 1 \in DOMAIN RawTUN /\
      RawTUN[1] = InsertMissing("raw", "POSTROUTING", Masquerade("raw"))
  BY DEF RawTUN
<1>5. Awaits(RawTUN, Masquerade("raw"))
  BY <1>4 DEF Awaits, InsertMissing, Add
<1>6. ASSUME NEW X, X \cap (Of("raw") \cup {Masquerade("raw")}) = {}
      PROVE  SparesAll(RawTUN, X)
  <2>1. /\ Spares(InsertMissing("raw", "POSTROUTING", Masquerade("raw")), X)
        /\ Spares(InsertMissing("raw", "FORWARD", In("raw")), X)
        /\ Spares(InsertMissing("raw", "FORWARD", Out("raw")), X)
        /\ Spares(InsertMissing("raw", "INPUT", In("raw")), X)
    BY <1>6 DEF Spares, InsertMissing, Add, Of
  <2>2. QED
    BY <2>1 DEF SparesAll, RawTUN
<1>7. QED
  BY <1>3, <1>5, <1>6

(* What the hook puts back for the tunnel.                                 *)
Restored ==
    <<InsertMissing("hook", "FORWARD", Jump("wg")),
      InsertMissing("hook", "INPUT", Jump("wg")),
      AppendMissing("hook", "FORWARD", In("wg")),
      AppendMissing("hook", "FORWARD", Out("wg")),
      AppendMissing("hook", "INPUT", In("wg"))>>

LEMMA RestoredType ==
    /\ Restored \in Seq(HookCommands)
    /\ \A X : X \cap Of("wg") = {} => SparesAll(Restored, X)
<1>1. /\ "hook" \in Parts
      /\ Jump("wg") \in FilterRules /\ In("wg") \in FilterRules
      /\ Out("wg") \in FilterRules
  BY FilterCommands DEF Of, Parts
<1>2. /\ InsertMissing("hook", "FORWARD", Jump("wg")) \in Commands
      /\ InsertMissing("hook", "INPUT", Jump("wg")) \in Commands
      /\ AppendMissing("hook", "FORWARD", In("wg")) \in Commands
      /\ AppendMissing("hook", "FORWARD", Out("wg")) \in Commands
      /\ AppendMissing("hook", "INPUT", In("wg")) \in Commands
  BY <1>1, FilterCommands
<1>3. /\ Gentle(InsertMissing("hook", "FORWARD", Jump("wg")))
      /\ Gentle(InsertMissing("hook", "INPUT", Jump("wg")))
      /\ Gentle(AppendMissing("hook", "FORWARD", In("wg")))
      /\ Gentle(AppendMissing("hook", "FORWARD", Out("wg")))
      /\ Gentle(AppendMissing("hook", "INPUT", In("wg")))
  BY Fields DEF Gentle, InsertMissing, AppendMissing, Add
<1>4. Restored \in Seq(HookCommands)
  BY <1>2, <1>3 DEF Restored, HookCommands
<1>5. ASSUME NEW X, X \cap Of("wg") = {} PROVE SparesAll(Restored, X)
  <2>1. /\ Spares(InsertMissing("hook", "FORWARD", Jump("wg")), X)
        /\ Spares(InsertMissing("hook", "INPUT", Jump("wg")), X)
        /\ Spares(AppendMissing("hook", "FORWARD", In("wg")), X)
        /\ Spares(AppendMissing("hook", "FORWARD", Out("wg")), X)
        /\ Spares(AppendMissing("hook", "INPUT", In("wg")), X)
    BY <1>5 DEF Spares, InsertMissing, AppendMissing, Add, Of
  <2>2. QED
    BY <2>1 DEF SparesAll, Restored
<1>6. QED
  BY <1>4, <1>5

RawRules == {Jump("raw"), JumpOut("raw"), In("raw"), Out("raw")}

LEMMA HookRawType ==
    /\ HookRaw \in Seq(HookCommands)
    /\ \A X : X \cap RawRules = {} => SparesAll(HookRaw, X)
<1>1. RawRules \in SUBSET FilterRules
  BY FilterCommands DEF RawRules, Of
<1>2. /\ "hook" \in Parts
      /\ Jump("raw") \in FilterRules /\ In("raw") \in FilterRules
      /\ Out("raw") \in FilterRules
  BY FilterCommands DEF Of, Parts
<1>3. /\ Delete("hook", RawRules) \in Commands
      /\ Insert("hook", "FORWARD", Jump("raw")) \in Commands
      /\ Insert("hook", "FORWARD", JumpOut("raw")) \in Commands
      /\ Insert("hook", "INPUT", Jump("raw")) \in Commands
      /\ Second("hook", "FORWARD", In("raw")) \in Commands
      /\ Second("hook", "FORWARD", Out("raw")) \in Commands
      /\ Second("hook", "INPUT", In("raw")) \in Commands
  BY <1>2, <1>1, CommandTypes, FilterCommands
<1>4. "raw" # "wg" /\ Jump("wg") \notin RawRules
  BY Fields DEF RawRules
<1>5. /\ Gentle(Delete("hook", RawRules))
      /\ Gentle(Insert("hook", "FORWARD", Jump("raw")))
      /\ Gentle(Insert("hook", "FORWARD", JumpOut("raw")))
      /\ Gentle(Insert("hook", "INPUT", Jump("raw")))
      /\ Gentle(Second("hook", "FORWARD", In("raw")))
      /\ Gentle(Second("hook", "FORWARD", Out("raw")))
      /\ Gentle(Second("hook", "INPUT", In("raw")))
  BY <1>4, Fields DEF Gentle, Delete, Insert, Second, Add
<1>6. HookRaw \in Seq(HookCommands)
  BY <1>3, <1>5 DEF HookRaw, HookCommands, RawRules
<1>7. ASSUME NEW X, X \cap RawRules = {} PROVE SparesAll(HookRaw, X)
  <2>1. /\ Spares(Delete("hook", RawRules), X)
        /\ Spares(Insert("hook", "FORWARD", Jump("raw")), X)
        /\ Spares(Insert("hook", "FORWARD", JumpOut("raw")), X)
        /\ Spares(Insert("hook", "INPUT", Jump("raw")), X)
        /\ Spares(Second("hook", "FORWARD", In("raw")), X)
        /\ Spares(Second("hook", "FORWARD", Out("raw")), X)
        /\ Spares(Second("hook", "INPUT", In("raw")), X)
    BY <1>7 DEF Spares, Delete, Insert, Second, Add, RawRules
  <2>2. QED
    BY <2>1 DEF SparesAll, HookRaw, RawRules
<1>8. QED
  BY <1>6, <1>7

LEMMA HookRawLeads ==
    ASSUME NEW s \in Contents("FORWARD"), NEW t,
           Turns(HookRaw, "FORWARD", s, t)
    PROVE  Leads(t, In("raw"), Terminal) /\ Leads(t, Out("raw"), Terminal)
<1> DEFINE ch == "FORWARD"
<1>1. PICK q : /\ q = HookRaw /\ Len(q) = 7
               /\ q[1] = Delete("hook", RawRules)
               /\ q[2] = Insert("hook", "FORWARD", Jump("raw"))
               /\ q[3] = Insert("hook", "FORWARD", JumpOut("raw"))
               /\ q[4] = Insert("hook", "INPUT", Jump("raw"))
               /\ q[5] = Second("hook", "FORWARD", In("raw"))
               /\ q[6] = Second("hook", "FORWARD", Out("raw"))
               /\ q[7] = Second("hook", "INPUT", In("raw"))
  BY DEF HookRaw, RawRules
<1>2. PICK f : /\ f[0] = s
               /\ \A n \in Nat : n < 7 =>
                     f[n + 1] = Effect(q[n + 1], ch, f[n])
               /\ f[7] = t
  BY <1>1 DEF Turns
<1>3. /\ f[1] = Effect(q[1], ch, s) /\ f[2] = Effect(q[2], ch, f[1])
      /\ f[3] = Effect(q[3], ch, f[2]) /\ f[4] = Effect(q[4], ch, f[3])
      /\ f[5] = Effect(q[5], ch, f[4]) /\ f[6] = Effect(q[6], ch, f[5])
      /\ t = Effect(q[7], ch, f[6])
  <2>1. \A n \in {0, 1, 2, 3, 4, 5, 6} : n \in Nat /\ n < 7
    OBVIOUS
  <2>2. /\ 0 + 1 = 1 /\ 1 + 1 = 2 /\ 2 + 1 = 3 /\ 3 + 1 = 4 /\ 4 + 1 = 5
        /\ 5 + 1 = 6 /\ 6 + 1 = 7
    OBVIOUS
  <2>3. \A n \in {0, 1, 2, 3, 4, 5, 6} : f[n + 1] = Effect(q[n + 1], ch, f[n])
    BY <1>2, <2>1
  <2>4. QED
    BY <1>2, <2>2, <2>3
<1>4. PICK R : R = RulesOf(ch) \cup {Terminal}
  OBVIOUS
<1>5. /\ Jump("raw") \in R /\ JumpOut("raw") \in R
      /\ In("raw") \in R /\ Out("raw") \in R
  BY <1>4, FilterCommands DEF RulesOf, Of
<1>6. PICK u \in Seq(R) : u = f[2]
  <2>1. s \in Seq(R)
    BY <1>4 DEF Contents
  <2>2. f[1] = Without(s, RawRules)
    BY <1>1, <1>3, Effects
  <2>3. PICK v \in Seq(R) : v = f[1]
    BY <2>1, <2>2, Removing
  <2>4. f[2] = InsertAt(v, 1, Jump("raw"))
    BY <1>1, <1>3, <2>3, Effects
  <2>5. InsertAt(v, 1, Jump("raw")) \in Seq(R)
    BY <1>5, InsertingFirst
  <2>6. QED
    BY <2>4, <2>5
<1>7. /\ f[5] = InsertAt(InsertAt(u, 1, JumpOut("raw")), 2, In("raw"))
      /\ t = InsertAt(f[5], 2, Out("raw"))
  <2>1. "FORWARD" # "INPUT"
    OBVIOUS
  <2>2. f[3] = InsertAt(u, 1, JumpOut("raw")) /\ f[4] = f[3]
    BY <1>1, <1>3, <1>6, <2>1, Effects
  <2>3. f[5] = InsertAt(f[4], 2, In("raw")) /\ f[6] = InsertAt(f[5], 2, Out("raw"))
    BY <1>1, <1>3, Effects
  <2>4. t = f[6]
    BY <1>1, <1>3, <2>1, Effects
  <2>5. QED
    BY <2>2, <2>3, <2>4
<1>8. PICK v \in Seq(R) :
          /\ v = InsertAt(InsertAt(u, 1, JumpOut("raw")), 2, In("raw"))
          /\ Len(v) = Len(u) + 2 /\ DOMAIN v = 1 .. Len(u) + 2
          /\ v[1] = JumpOut("raw") /\ v[2] = In("raw")
          /\ \A k \in 1 .. Len(u) : v[k + 2] = u[k]
  BY <1>5, Stacked
<1>9. PICK n \in Nat : n = Len(v) /\ n > 0 /\ 2 \in 2 .. n
  <2>1. Len(u) \in Nat
    BY LenProperties
  <2>2. QED
    BY <1>8, <2>1
<1>10. PICK w \in Seq(R) :
           /\ w = InsertAt(v, 2, Out("raw"))
           /\ DOMAIN w = 1 .. Len(v) + 1
           /\ w[1] = v[1] /\ w[2] = Out("raw")
           /\ \A k \in 2 .. Len(v) : w[k + 1] = v[k]
  <2>1. Len(v) > 0
    BY <1>9
  <2>2. PICK x \in R : x = Out("raw")
    BY <1>5
  <2>3. PICK w \in Seq(R) :
            /\ w = InsertAt(v, 2, x)
            /\ DOMAIN w = 1 .. Len(v) + 1
            /\ w[1] = v[1] /\ w[2] = x
            /\ \A k \in 2 .. Len(v) : w[k + 1] = v[k]
    BY <2>1, StackedMore
  <2>4. QED
    BY <2>2, <2>3
<1>11. /\ w[1] = JumpOut("raw") /\ w[2] = Out("raw") /\ w[3] = In("raw")
       /\ DOMAIN w = 1 .. n + 1
  <2>1. 2 + 1 = 3
    OBVIOUS
  <2>2. w[2 + 1] = v[2]
    BY <1>9, <1>10
  <2>3. QED
    BY <1>8, <1>9, <1>10, <2>1, <2>2
<1>12. /\ 2 \in 1 .. n + 1 /\ 3 \in 1 .. n + 1
       /\ \A j \in 1 .. n + 1 : j < 2 => j = 1
       /\ \A j \in 1 .. n + 1 : j < 3 => j = 1 \/ j = 2
  BY <1>9
<1>13. JumpOut("raw") # Terminal /\ Out("raw") # Terminal
  BY Fields
<1>14. t = w
  BY <1>7, <1>8, <1>10
<1>15. QED
  BY <1>11, <1>12, <1>13, <1>14 DEF Leads

(***************************************************************************)
(* The scripts, from whatever is in the chains                             *)
(***************************************************************************)
Settings == [dtls : Ports, raw : Ports \cup {NoPort}, on : BOOLEAN]

(* What actor a leaves in chain ch when it has installed c undisturbed.    *)
Done(a, c, ch, s) ==
    /\ ch = "POSTROUTING" =>
           /\ a \in {"start", "nat"} => Has(s, Masquerade("wg"))
           /\ a = "start" /\ c.on /\ OwnRawPort(c) => Has(s, Masquerade("raw"))
           /\ a = "nat" /\ c.raw # NoPort => Has(s, Masquerade("raw"))
    /\ ch # "POSTROUTING" =>
           /\ a \in {"start", "save"} => Wired(ch, "wg", s)
           /\ a = "save" => Wired(ch, "raw", s)
           /\ a = "start" /\ c.on => Opened(ch, c.dtls, s)
           /\ a = "start" /\ c.on /\ OwnRawPort(c) =>
                  Wired(ch, "raw", s) /\ Opened(ch, c.raw, s)
           /\ a = "filter" => Opened(ch, c.dtls, s)
           /\ a = "filter" /\ c.raw # NoPort =>
                  /\ Opened(ch, c.raw, s)
                  /\ ch = "FORWARD" => /\ Leads(s, In("raw"), Terminal)
                                       /\ Leads(s, Out("raw"), Terminal)

LEMMA Disjoint ==
    /\ \A p : Port(p) \notin Of("wg") /\ Port(p) \notin Of("raw")
    /\ \A p : Port(p) \notin RawRules /\ Port(p) # Masquerade("raw")
    /\ Of("wg") \cap Of("raw") = {} /\ Of("wg") \cap RawRules = {}
    /\ Masquerade("raw") \notin Of("wg")
    /\ \A p, r : p # r => Port(p) # Port(r)
<1>1. "wg" # "raw"
  OBVIOUS
<1>2. QED
  BY <1>1, Fields DEF Of, RawRules

LEMMA PoliciesType ==
    ASSUME NEW part \in Parts
    PROVE  /\ Policies(part, FALSE) \in Seq(Commands)
           /\ Policies(part, TRUE) \in Seq(Commands)
           /\ Policies(part, FALSE) = Hooks(part, "wg")
           /\ Policies(part, TRUE) = Hooks(part, "wg") \o Hooks(part, "raw")
<1>1. Hooks(part, "wg") \in Seq(Commands) /\ Hooks(part, "raw") \in Seq(Commands)
  BY HooksType
<1>2. Policies(part, TRUE) = Hooks(part, "wg") \o Hooks(part, "raw")
  BY DEF Policies
<1>3. Policies(part, FALSE) = Hooks(part, "wg") \o <<>>
  BY DEF Policies
<1>4. QED
  BY <1>1, <1>2, <1>3, ConcatProperties, ConcatEmptySeq

(* The policies with RAW: a save, and the second half of a start.          *)
LEMMA PoliciesWire ==
    ASSUME NEW part \in Parts, NEW ch \in {"FORWARD", "INPUT"},
           NEW s \in Contents(ch), NEW t,
           Turns(Policies(part, TRUE), ch, s, t)
    PROVE  /\ Wired(ch, "wg", t) /\ Wired(ch, "raw", t)
           /\ \A p : Opened(ch, p, s) => Opened(ch, p, t)
<1>1. PICK q \in Seq(Commands), r \in Seq(Commands) :
          q = Hooks(part, "wg") /\ r = Hooks(part, "raw")
  BY HooksType
<1>2. PICK u : Turns(q, ch, s, u) /\ Turns(r, ch, u, t)
  BY <1>1, PoliciesType, TurnsConcat
<1>3. ch \in Chains
  BY DEF Chains
<1>4. u \in Contents(ch)
  BY <1>2, <1>3, TurnsType
<1>5. SparesAll(r, Of("wg"))
  BY <1>1, HooksType, Disjoint
<1>6. Wired(ch, "wg", u) /\ Wired(ch, "raw", t)
  BY <1>1, <1>2, <1>4, HooksWire
<1>7. Wired(ch, "wg", t)
  BY <1>2, <1>3, <1>4, <1>5, <1>6, WiredKept
<1>8. ASSUME NEW p, Opened(ch, p, s) PROVE Opened(ch, p, t)
  <2>1. {Port(p)} \cap Of("wg") = {} /\ {Port(p)} \cap Of("raw") = {}
    BY Disjoint
  <2>2. SparesAll(q, {Port(p)}) /\ SparesAll(r, {Port(p)})
    BY <1>1, <2>1, HooksType
  <2>3. Opened(ch, p, u)
    BY <1>2, <1>3, <1>8, <2>2, OpenedKept
  <2>4. QED
    BY <1>2, <1>3, <1>4, <2>2, <2>3, OpenedKept
<1>9. QED
  BY <1>6, <1>7, <1>8

LEMMA SaveDone ==
    ASSUME NEW c, NEW ch \in Chains, NEW s \in Contents(ch), NEW t,
           Turns(SaveScript, ch, s, t)
    PROVE  Done("save", c, ch, t)
<1>1. CASE ch = "POSTROUTING"
  BY <1>1 DEF Done
<1>2. CASE ch \in {"FORWARD", "INPUT"}
  <2>1. "save" \in Parts
    BY DEF Parts
  <2>2. Wired(ch, "wg", t) /\ Wired(ch, "raw", t)
    BY <1>2, <2>1, PoliciesWire DEF SaveScript
  <2>3. QED
    BY <1>2, <2>2 DEF Done
<1>3. QED
  BY <1>1, <1>2 DEF Chains

(* The parts of a start that depend on the configuration.                  *)
StartPort(c) == IF c.on THEN OpenPort("port", c.dtls) ELSE <<>>
StartTUN(c) == IF c.on /\ c.raw # NoPort THEN RawTUN ELSE <<>>
StartRaw(c) ==
    IF c.on /\ OwnRawPort(c)
    THEN Policies("raw policies", TRUE) \o OpenPort("raw port", c.raw)
    ELSE <<>>

LEMMA StartParts ==
    ASSUME NEW c \in Settings
    PROVE  /\ StartPort(c) \in Seq(Commands) /\ StartTUN(c) \in Seq(Commands)
           /\ StartRaw(c) \in Seq(Commands)
           /\ Hooks("policies", "wg") \in Seq(Commands)
           /\ StartScript(c) = (((NATMode \o Hooks("policies", "wg"))
                                    \o StartPort(c)) \o StartTUN(c)) \o StartRaw(c)
           /\ c.on /\ OwnRawPort(c) => c.raw \in Ports /\ c.raw # c.dtls
           /\ c.dtls \in Ports
<1>1. /\ c.dtls \in Ports /\ c.raw \in Ports \cup {NoPort}
      /\ OwnRawPort(c) => c.raw \in Ports /\ c.raw # c.dtls
  BY DEF Settings, OwnRawPort
<1>2. "policies" \in Parts /\ "port" \in Parts /\ "raw policies" \in Parts
      /\ "raw port" \in Parts
  BY DEF Parts
<1>3. <<>> \in Seq(Commands)
  BY EmptySeq
<1>4. StartPort(c) \in Seq(Commands)
  BY <1>1, <1>2, <1>3, OpenPortType, HookSubset DEF StartPort
<1>5. StartTUN(c) \in Seq(Commands)
  BY <1>3, RawTUNType DEF StartTUN
<1>6. StartRaw(c) \in Seq(Commands)
  <2>1. CASE c.on /\ OwnRawPort(c)
    <3>1. /\ Policies("raw policies", TRUE) \in Seq(Commands)
          /\ OpenPort("raw port", c.raw) \in Seq(Commands)
      BY <1>1, <1>2, <2>1, PoliciesType, OpenPortType, HookSubset
    <3>2. QED
      BY <2>1, <3>1, ConcatProperties DEF StartRaw
  <2>2. CASE ~(c.on /\ OwnRawPort(c))
    BY <1>3, <2>2 DEF StartRaw
  <2>3. QED
    BY <2>1, <2>2
<1>7. Hooks("policies", "wg") \in Seq(Commands)
  BY <1>2, HooksType
<1>8. StartScript(c) = (((NATMode \o Hooks("policies", "wg"))
                             \o StartPort(c)) \o StartTUN(c)) \o StartRaw(c)
  BY <1>2, PoliciesType DEF StartScript, StartPort, StartTUN, StartRaw
<1>9. QED
  BY <1>1, <1>4, <1>5, <1>6, <1>7, <1>8

LEMMA StartType ==
    ASSUME NEW c \in Settings
    PROVE  StartScript(c) \in Seq(Commands)
<1>1. PICK q \in Seq(Commands) : q = NATMode \o Hooks("policies", "wg")
  BY StartParts, NATModeType, ConcatProperties
<1>2. PICK r \in Seq(Commands) : r = q \o StartPort(c)
  BY StartParts, ConcatProperties
<1>3. PICK v \in Seq(Commands) : v = r \o StartTUN(c)
  BY StartParts, ConcatProperties
<1>4. v \o StartRaw(c) \in Seq(Commands)
  BY StartParts, ConcatProperties
<1>5. QED
  BY <1>1, <1>2, <1>3, <1>4, StartParts

LEMMA StartDone ==
    ASSUME NEW c \in Settings, NEW ch \in Chains, NEW s \in Contents(ch),
           NEW t, Turns(StartScript(c), ch, s, t)
    PROVE  Done("start", c, ch, t)
<1>1. PICK h \in Seq(Commands), p \in Seq(Commands), d \in Seq(Commands),
           e \in Seq(Commands) :
          /\ h = Hooks("policies", "wg") /\ p = StartPort(c)
          /\ d = StartTUN(c) /\ e = StartRaw(c)
          /\ StartScript(c) = (((NATMode \o h) \o p) \o d) \o e
  BY StartParts
<1>2. PICK q1 \in Seq(Commands) : q1 = NATMode \o h
  BY NATModeType, ConcatProperties
<1>3. PICK q2 \in Seq(Commands) : q2 = q1 \o p
  BY ConcatProperties
<1>4. PICK q3 \in Seq(Commands) : q3 = q2 \o d
  BY ConcatProperties
<1>5. PICK q4 \in Seq(Commands) : q4 = q3 \o e /\ q4 = StartScript(c)
  BY <1>1, <1>2, <1>3, <1>4, ConcatProperties
<1>6. CASE ch = "POSTROUTING"
  <2>1. Awaits(q1, Masquerade("wg"))
    BY <1>2, NATModeType, AwaitsConcat
  <2>2. Awaits(q2, Masquerade("wg"))
    BY <1>3, <2>1, AwaitsConcat
  <2>3. Awaits(q3, Masquerade("wg"))
    BY <1>4, <2>2, AwaitsConcat
  <2>4. Awaits(q4, Masquerade("wg"))
    BY <1>5, <2>3, AwaitsConcat
  <2>5. Has(t, Masquerade("wg"))
    BY <1>5, <1>6, <2>4, TurnsHas, FilterCommands
  <2>6. ASSUME c.on, OwnRawPort(c) PROVE Has(t, Masquerade("raw"))
    <3>1. Awaits(d, Masquerade("raw"))
      BY <1>1, <2>6, RawTUNType DEF StartTUN, OwnRawPort
    <3>2. Awaits(q3, Masquerade("raw"))
      BY <1>4, <3>1, AwaitsConcat
    <3>3. Awaits(q4, Masquerade("raw"))
      BY <1>5, <3>2, AwaitsConcat
    <3>4. QED
      BY <1>5, <1>6, <3>3, TurnsHas, FilterCommands
  <2>7. QED
    BY <1>6, <2>5, <2>6 DEF Done
<1>7. CASE ch \in {"FORWARD", "INPUT"}
  <2>1. PICK u4 : Turns(q3, ch, s, u4) /\ Turns(e, ch, u4, t)
    BY <1>5, TurnsConcat
  <2>2. PICK u3 : Turns(q2, ch, s, u3) /\ Turns(d, ch, u3, u4)
    BY <1>4, <2>1, TurnsConcat
  <2>3. PICK u2 : Turns(q1, ch, s, u2) /\ Turns(p, ch, u2, u3)
    BY <1>3, <2>2, TurnsConcat
  <2>4. PICK u1 : Turns(NATMode, ch, s, u1) /\ Turns(h, ch, u1, u2)
    BY <1>2, <2>3, NATModeType, TurnsConcat
  <2>5. u1 \in Contents(ch)
    BY <2>4, NATModeType, TurnsType
  <2>6. u2 \in Contents(ch) /\ u3 \in Contents(ch) /\ u4 \in Contents(ch)
    BY <2>1, <2>2, <2>3, TurnsType
  <2>7. "policies" \in Parts /\ "port" \in Parts /\ "raw policies" \in Parts
        /\ "raw port" \in Parts
    BY DEF Parts
  <2>8. SparesAll(d, Of("wg")) /\ \A x : SparesAll(d, {Port(x)})
    <3>1. Of("wg") \cap (Of("raw") \cup {Masquerade("raw")}) = {}
      BY Disjoint
    <3>2. \A x : {Port(x)} \cap (Of("raw") \cup {Masquerade("raw")}) = {}
      BY Disjoint
    <3>3. QED
      BY <1>1, <3>1, <3>2, RawTUNType, SparesNone DEF StartTUN
  <2>9. SparesAll(p, Of("wg"))
    BY <1>1, <2>7, OpenPortType, Disjoint, SparesNone, StartParts DEF StartPort
  <2>10. Wired(ch, "wg", u4)
    <3>1. Wired(ch, "wg", u2)
      BY <1>1, <1>7, <2>4, <2>5, <2>7, HooksWire
    <3>2. Wired(ch, "wg", u3)
      BY <2>3, <2>6, <2>9, <3>1, WiredKept
    <3>3. QED
      BY <2>2, <2>6, <2>8, <3>2, WiredKept
  <2>11. ASSUME c.on PROVE Opened(ch, c.dtls, u4)
    <3>1. Opened(ch, c.dtls, u3)
      BY <1>1, <1>7, <2>3, <2>6, <2>7, <2>11, OpenPortOpens, StartParts
         DEF StartPort
    <3>2. QED
      BY <2>2, <2>6, <2>8, <3>1, OpenedKept
  <2>12. CASE c.on /\ OwnRawPort(c)
    <3>1. PICK v \in Seq(Commands), w \in Seq(Commands) :
              /\ v = Policies("raw policies", TRUE)
              /\ w = OpenPort("raw port", c.raw)
      BY <2>7, <2>12, StartParts, PoliciesType, OpenPortType, HookSubset
    <3>2. e = v \o w
      BY <1>1, <2>12, <3>1 DEF StartRaw
    <3>3. PICK u5 : Turns(v, ch, u4, u5) /\ Turns(w, ch, u5, t)
      BY <2>1, <3>2, TurnsConcat
    <3>4. u5 \in Contents(ch)
      BY <2>6, <3>3, TurnsType
    <3>5. /\ Wired(ch, "wg", u5) /\ Wired(ch, "raw", u5)
          /\ Opened(ch, c.dtls, u5)
      BY <1>7, <2>6, <2>7, <2>11, <2>12, <3>1, <3>3, PoliciesWire
    <3>6. Port(c.raw) \notin Of("wg") /\ Port(c.raw) \notin Of("raw")
          /\ Port(c.raw) \notin {Port(c.dtls)}
      BY <2>12, StartParts, Disjoint
    <3>7. /\ SparesAll(w, Of("wg")) /\ SparesAll(w, Of("raw"))
          /\ SparesAll(w, {Port(c.dtls)})
      BY <2>7, <2>12, <3>1, <3>6, StartParts, OpenPortType
    <3>8. Wired(ch, "wg", t) /\ Wired(ch, "raw", t)
      BY <3>3, <3>4, <3>5, <3>7, WiredKept
    <3>9. Opened(ch, c.dtls, t)
      BY <3>3, <3>4, <3>5, <3>7, OpenedKept
    <3>10. Opened(ch, c.raw, t)
      BY <1>7, <2>7, <2>12, <3>1, <3>3, <3>4, StartParts, OpenPortOpens
    <3>11. QED
      BY <1>7, <3>8, <3>9, <3>10 DEF Done
  <2>13. CASE ~(c.on /\ OwnRawPort(c))
    <3>1. /\ SparesAll(e, Of("wg")) /\ SparesAll(e, {Port(c.dtls)})
      BY <1>1, <2>13, SparesNone DEF StartRaw
    <3>2. Wired(ch, "wg", t)
      BY <2>1, <2>6, <2>10, <3>1, WiredKept
    <3>3. c.on => Opened(ch, c.dtls, t)
      BY <2>1, <2>6, <2>11, <3>1, OpenedKept
    <3>4. QED
      BY <1>7, <2>13, <3>2, <3>3 DEF Done
  <2>14. QED
    BY <2>12, <2>13
<1>8. QED
  BY <1>6, <1>7 DEF Chains

HookPort(c) == IF c.raw # NoPort THEN OpenPort("hook", c.raw) ELSE <<>>
HookRawPart(c) == IF c.raw # NoPort THEN HookRaw ELSE <<>>
NatRaw(c) ==
    IF c.raw # NoPort
    THEN <<InsertMissing("hook", "POSTROUTING", Masquerade("raw"))>>
    ELSE <<>>
NatTunnel == <<AppendMissing("hook", "POSTROUTING", Masquerade("wg"))>>

LEMMA HookParts ==
    ASSUME NEW c \in Settings
    PROVE  /\ OpenPort("hook", c.dtls) \in Seq(HookCommands)
           /\ HookPort(c) \in Seq(HookCommands)
           /\ HookRawPart(c) \in Seq(HookCommands)
           /\ NatRaw(c) \in Seq(HookCommands)
           /\ NatTunnel \in Seq(HookCommands)
           /\ HookFilter(c) = ((OpenPort("hook", c.dtls) \o HookPort(c))
                                   \o Restored) \o HookRawPart(c)
           /\ HookNat(c) = NatTunnel \o NatRaw(c)
           /\ c.dtls \in Ports /\ (c.raw # NoPort => c.raw \in Ports)
           /\ "hook" \in Parts
<1>1. /\ c.dtls \in Ports /\ (c.raw # NoPort => c.raw \in Ports)
      /\ "hook" \in Parts
  BY DEF Settings, Parts
<1>2. <<>> \in Seq(HookCommands)
  BY EmptySeq
<1>3. HookPort(c) \in Seq(HookCommands) /\ HookRawPart(c) \in Seq(HookCommands)
  BY <1>1, <1>2, OpenPortType, HookRawType DEF HookPort, HookRawPart
<1>4. /\ InsertMissing("hook", "POSTROUTING", Masquerade("raw")) \in Commands
      /\ AppendMissing("hook", "POSTROUTING", Masquerade("wg")) \in Commands
  BY <1>1, FilterCommands
<1>5. /\ Gentle(InsertMissing("hook", "POSTROUTING", Masquerade("raw")))
      /\ Gentle(AppendMissing("hook", "POSTROUTING", Masquerade("wg")))
  BY Fields DEF Gentle, InsertMissing, AppendMissing, Add
<1>6. NatRaw(c) \in Seq(HookCommands) /\ NatTunnel \in Seq(HookCommands)
  <2>1. /\ InsertMissing("hook", "POSTROUTING", Masquerade("raw"))
               \in HookCommands
        /\ AppendMissing("hook", "POSTROUTING", Masquerade("wg"))
               \in HookCommands
    BY <1>4, <1>5 DEF HookCommands
  <2>2. NatTunnel \in Seq(HookCommands)
    BY <2>1 DEF NatTunnel
  <2>3. NatRaw(c) \in Seq(HookCommands)
    BY <1>2, <2>1 DEF NatRaw
  <2>4. QED
    BY <2>2, <2>3
<1>7. /\ HookFilter(c) = ((OpenPort("hook", c.dtls) \o HookPort(c))
                              \o Restored) \o HookRawPart(c)
      /\ HookNat(c) = NatTunnel \o NatRaw(c)
  BY DEF HookFilter, HookNat, HookPort, HookRawPart, NatRaw, NatTunnel, Restored
<1>8. QED
  BY <1>1, <1>3, <1>6, <1>7, OpenPortType

LEMMA HookType ==
    ASSUME NEW c \in Settings, NEW table \in {"filter", "nat"}
    PROVE  HookScript(c, table) \in Seq(HookCommands)
<1>1. HookNat(c) \in Seq(HookCommands)
  BY HookParts, ConcatProperties
<1>2. HookFilter(c) \in Seq(HookCommands)
  <2>1. PICK q \in Seq(HookCommands) :
            q = OpenPort("hook", c.dtls) \o HookPort(c)
    BY HookParts, ConcatProperties
  <2>2. PICK r \in Seq(HookCommands) : r = q \o Restored
    BY RestoredType, ConcatProperties
  <2>3. r \o HookRawPart(c) \in Seq(HookCommands)
    BY HookParts, ConcatProperties
  <2>4. HookFilter(c) = r \o HookRawPart(c)
    BY <2>1, <2>2, HookParts
  <2>5. QED
    BY <2>3, <2>4
<1>3. QED
  BY <1>1, <1>2 DEF HookScript

LEMMA HookNatDone ==
    ASSUME NEW c \in Settings, NEW ch \in Chains, NEW s \in Contents(ch),
           NEW t, Turns(HookNat(c), ch, s, t)
    PROVE  Done("nat", c, ch, t)
<1>1. PICK q \in Seq(Commands), r \in Seq(Commands), h \in Seq(Commands) :
          q = NatTunnel /\ r = NatRaw(c) /\ h = q \o r /\ h = HookNat(c)
  BY HookParts, HookSubset, ConcatProperties
<1>2. Awaits(q, Masquerade("wg"))
  BY <1>1 DEF Awaits, NatTunnel, AppendMissing, Add
<1>3. c.raw # NoPort => Awaits(r, Masquerade("raw"))
  BY <1>1 DEF Awaits, NatRaw, InsertMissing, Add
<1>4. /\ Awaits(h, Masquerade("wg"))
      /\ c.raw # NoPort => Awaits(h, Masquerade("raw"))
  BY <1>1, <1>2, <1>3, AwaitsConcat
<1>5. ch = "POSTROUTING" =>
          /\ Has(t, Masquerade("wg"))
          /\ c.raw # NoPort => Has(t, Masquerade("raw"))
  BY <1>1, <1>4, TurnsHas, FilterCommands
<1>6. QED
  BY <1>5 DEF Done

LEMMA HookFilterDone ==
    ASSUME NEW c \in Settings, NEW ch \in Chains, NEW s \in Contents(ch),
           NEW t, Turns(HookFilter(c), ch, s, t)
    PROVE  Done("filter", c, ch, t)
<1>1. CASE ch = "POSTROUTING"
  BY <1>1 DEF Done
<1>2. CASE ch \in {"FORWARD", "INPUT"}
  <2>1. PICK o \in Seq(Commands), p \in Seq(Commands), m \in Seq(Commands),
             r \in Seq(Commands) :
            /\ o = OpenPort("hook", c.dtls) /\ p = HookPort(c)
            /\ m = Restored /\ r = HookRawPart(c)
            /\ HookFilter(c) = ((o \o p) \o m) \o r
    BY HookParts, HookSubset, RestoredType
  <2>2. PICK q1 \in Seq(Commands) : q1 = o \o p
    BY ConcatProperties
  <2>3. PICK q2 \in Seq(Commands) : q2 = q1 \o m
    BY ConcatProperties
  <2>4. HookFilter(c) = q2 \o r
    BY <2>1, <2>2, <2>3
  <2>5. PICK u3 : Turns(q2, ch, s, u3) /\ Turns(r, ch, u3, t)
    BY <2>4, TurnsConcat
  <2>6. PICK u2 : Turns(q1, ch, s, u2) /\ Turns(m, ch, u2, u3)
    BY <2>3, <2>5, TurnsConcat
  <2>7. PICK u1 : Turns(o, ch, s, u1) /\ Turns(p, ch, u1, u2)
    BY <2>2, <2>6, TurnsConcat
  <2>8. /\ u1 \in Contents(ch) /\ u2 \in Contents(ch) /\ u3 \in Contents(ch)
    BY <2>5, <2>6, <2>7, TurnsType
  <2>9. \A x : SparesAll(m, {Port(x)}) /\ SparesAll(r, {Port(x)})
    <3>1. ASSUME NEW x PROVE SparesAll(m, {Port(x)}) /\ SparesAll(r, {Port(x)})
      <4>1. {Port(x)} \cap Of("wg") = {} /\ {Port(x)} \cap RawRules = {}
        BY Disjoint
      <4>2. QED
        BY <2>1, <4>1, RestoredType, HookRawType, SparesNone DEF HookRawPart
    <3>2. QED
      BY <3>1
  <2>10. \A x : Opened(ch, x, u2) => Opened(ch, x, t)
    <3>1. ASSUME NEW x, Opened(ch, x, u2) PROVE Opened(ch, x, t)
      <4>1. Opened(ch, x, u3)
        BY <2>6, <2>8, <2>9, <3>1, OpenedKept
      <4>2. QED
        BY <2>5, <2>8, <2>9, <4>1, OpenedKept
    <3>2. QED
      BY <3>1
  <2>11. Opened(ch, c.dtls, u1)
    BY <1>2, <2>1, <2>7, HookParts, OpenPortOpens
  <2>12. c.raw # NoPort => Opened(ch, c.raw, u2)
    BY <1>2, <2>1, <2>7, <2>8, HookParts, OpenPortOpens DEF HookPort
  <2>13. Opened(ch, c.dtls, u2)
    <3>1. CASE c.raw = c.dtls /\ c.raw # NoPort
      BY <2>12, <3>1
    <3>2. CASE c.raw # c.dtls \/ c.raw = NoPort
      <4>1. c.raw # NoPort => Port(c.raw) \notin {Port(c.dtls)}
        BY <3>2, Disjoint
      <4>2. SparesAll(p, {Port(c.dtls)})
        BY <2>1, <4>1, HookParts, OpenPortType, SparesNone DEF HookPort
      <4>3. QED
        BY <2>7, <2>8, <2>11, <4>2, OpenedKept
    <3>3. QED
      BY <3>1, <3>2
  <2>14. ASSUME c.raw # NoPort, ch = "FORWARD"
         PROVE  Leads(t, In("raw"), Terminal) /\ Leads(t, Out("raw"), Terminal)
    BY <2>1, <2>5, <2>8, <2>14, HookRawLeads DEF HookRawPart
  <2>15. QED
    BY <1>2, <2>10, <2>12, <2>13, <2>14 DEF Done
<1>3. QED
  BY <1>1, <1>2 DEF Chains

(***************************************************************************)
(* The invariant.  Two actors at work have met (Apart).  One that works    *)
(* alone will leave what it should, if nobody comes (Working), and that is *)
(* still there when nobody has come since (Clean).  After an undisturbed   *)
(* install only the hook has written (Solid).                              *)
(***************************************************************************)
Hook == DOMAIN Tables
Filters == {"FORWARD", "INPUT"}
Conf(a) == IF a = "start" THEN launched ELSE stored
Screened(s) == Guarded(s, {Jump("wg"), Terminal}, In("wg"))

Types ==
    /\ stored \in Configs \cup {Initial} /\ launched \in Configs \cup {Initial}
    /\ running \in BOOLEAN /\ disturbed \subseteq Actors
    /\ todo \in [Actors -> Seq(Commands)]
    /\ \A a \in Hook : todo[a] \in Seq(HookCommands)
    /\ DOMAIN chain = Chains
    /\ \A ch \in Chains : chain[ch] \in Contents(ch)

OnlyHook == \A a \in Actors : todo[a] # <<>> => running \/ a \in Hook

Apart ==
    \A a, b \in Actors :
        a # b /\ todo[a] # <<>> /\ todo[b] # <<>> => a \in disturbed

Working ==
    \A a \in Actors \ disturbed : todo[a] # <<>> =>
        \A ch \in Chains : \A t :
            Turns(todo[a], ch, chain[ch], t) => Done(a, Conf(a), ch, t)

Solid ==
    last.solid =>
        /\ todo["start"] = <<>> /\ todo["save"] = <<>>
        /\ \A ch \in Filters : Screened(chain[ch])

Clean ==
    last.clean =>
        /\ last.by \in Actors /\ \A a \in Actors : todo[a] = <<>>
        /\ \A ch \in Chains : Done(last.by, Conf(last.by), ch, chain[ch])

Inv == Types /\ OnlyHook /\ Apart /\ Working /\ Solid /\ Clean

LEMMA Names ==
    /\ Hook = {"filter", "nat"} /\ Actors = {"start", "save", "filter", "nat"}
    /\ Hook \subseteq Actors
    /\ "start" \notin Hook /\ "save" \notin Hook
    /\ Tables["filter"] = Filters /\ Tables["nat"] = {"POSTROUTING"}
    /\ Filters \subseteq Chains
BY DEF Hook, Actors, Tables, Filters, Chains

LEMMA InitInv == Init => Inv
<1> SUFFICES ASSUME Init PROVE Inv
  OBVIOUS
<1>1. \A a \in Actors : todo[a] = <<>>
  BY DEF Init
<1>2. <<>> \in Seq(Commands) /\ <<>> \in Seq(HookCommands)
  BY EmptySeq
<1>3. todo \in [Actors -> Seq(Commands)] /\ \A a \in Hook : todo[a] \in Seq(HookCommands)
  BY <1>1, <1>2, Names DEF Init
<1>4. /\ DOMAIN chain = Chains
      /\ chain["FORWARD"] = <<Terminal>> /\ chain["INPUT"] = <<Terminal>>
      /\ chain["POSTROUTING"] = <<>>
  BY DEF Init, Own, Chains
<1>5. /\ \A ch \in Filters : <<Terminal>> \in Contents(ch)
      /\ <<>> \in Contents("POSTROUTING")
  BY DEF Contents, Has, Filters
<1>6. \A ch \in Chains : chain[ch] \in Contents(ch)
  BY <1>4, <1>5 DEF Chains, Filters
<1>7. Types
  BY <1>3, <1>4, <1>6 DEF Types, Init
<1>8. ~last.solid /\ ~last.clean
  BY DEF Init, Nobody
<1>9. QED
  BY <1>1, <1>7, <1>8 DEF Inv, OnlyHook, Apart, Working, Solid, Clean

(* An actor begins: alone, or with those it disturbs and is disturbed by.  *)
LEMMA BeginInv ==
    ASSUME Inv, NEW a \in Actors, NEW script \in Seq(Commands),
           Begin(a, script),
           a \in Hook => script \in Seq(HookCommands),
           stored' \in Configs \cup {Initial},
           launched' \in Configs \cup {Initial},
           running' \in BOOLEAN, running => running',
           a \in Hook \/ running',
           DOMAIN chain' = Chains, \A ch \in Chains : chain'[ch] \in Contents(ch),
           a \in Hook /\ last.solid => \A ch \in Filters : Screened(chain'[ch]),
           script # <<>> => \A ch \in Chains : \A t :
               Turns(script, ch, chain'[ch], t) => Done(a, Conf(a)', ch, t)
    PROVE  Inv'
<1>1. /\ todo' = [todo EXCEPT ![a] = script]
      /\ disturbed' = IF Others(a) = {} THEN {} ELSE Others(a) \cup {a}
      /\ last' = [Nobody EXCEPT !.solid = last.solid /\ a \in Hook]
  BY DEF Begin, Hook
<1>2. Types
  BY DEF Inv
<1>3. /\ todo'[a] = script
      /\ \A b \in Actors \ {a} : todo'[b] = todo[b]
      /\ \A b \in Actors \ {a} : todo[b] # <<>> => b \in Others(a)
      /\ Others(a) \subseteq Actors \ {a}
  BY <1>1, <1>2 DEF Types, Others
<1>4. Types'
  <2>1. todo' \in [Actors -> Seq(Commands)]
    BY <1>1, <1>2 DEF Types
  <2>2. \A b \in Hook : todo'[b] \in Seq(HookCommands)
    BY <1>2, <1>3, Names DEF Types
  <2>3. disturbed' \subseteq Actors
    BY <1>1, <1>3
  <2>4. QED
    BY <2>1, <2>2, <2>3 DEF Types
<1>5. OnlyHook'
  BY <1>3 DEF Inv, OnlyHook
<1>6. Apart'
  <2>1. ASSUME NEW b \in Actors, NEW d \in Actors, b # d,
               todo'[b] # <<>>, todo'[d] # <<>>
        PROVE  b \in disturbed'
    <3>1. Others(a) # {}
      BY <1>3, <2>1
    <3>2. b = a \/ b \in Others(a)
      BY <1>3, <2>1
    <3>3. QED
      BY <1>1, <3>1, <3>2
  <2>2. QED
    BY <2>1 DEF Apart
<1>7. Working'
  <2>1. ASSUME NEW b \in Actors, b \notin disturbed', todo'[b] # <<>>,
               NEW ch \in Chains, NEW t, Turns(todo'[b], ch, chain'[ch], t)
        PROVE  Done(b, Conf(b)', ch, t)
    <3>1. b = a
      BY <1>1, <1>3, <2>1
    <3>2. todo'[b] = script
      BY <1>3, <3>1
    <3>3. QED
      BY <2>1, <3>1, <3>2
  <2>2. QED
    BY <2>1 DEF Working
<1>8. Solid'
  <2>1. ASSUME last'.solid
        PROVE  /\ todo'["start"] = <<>> /\ todo'["save"] = <<>>
               /\ \A ch \in Filters : Screened(chain'[ch])
    <3>1. last.solid /\ a \in Hook
      BY <1>1, <2>1 DEF Nobody
    <3>2. todo["start"] = <<>> /\ todo["save"] = <<>>
      BY <3>1 DEF Inv, Solid
    <3>3. todo'["start"] = <<>> /\ todo'["save"] = <<>>
      BY <1>3, <3>1, <3>2, Names
    <3>4. QED
      BY <3>1, <3>3
  <2>2. QED
    BY <2>1 DEF Solid, Screened
<1>9. Clean'
  BY <1>1 DEF Clean, Nobody
<1>10. QED
  BY <1>4, <1>5, <1>6, <1>7, <1>8, <1>9 DEF Inv

LEMMA StartInv ==
    ASSUME Inv, NEW c \in Configs \cup {Initial}, Start(c),
           stored' \in Configs \cup {Initial}
    PROVE  Inv'
<1>1. c \in Settings
  BY ConfigsAssumption DEF Settings
<1>2. PICK q \in Seq(Commands) : q = StartScript(c)
  BY <1>1, StartType
<1>3. /\ launched' = c /\ running' = TRUE /\ Begin("start", q) /\ chain' = chain
  BY <1>2 DEF Start
<1>4. DOMAIN chain' = Chains /\ \A ch \in Chains : chain'[ch] \in Contents(ch)
  BY <1>3 DEF Inv, Types
<1>5. \A ch \in Chains : \A t :
          Turns(q, ch, chain'[ch], t) => Done("start", Conf("start")', ch, t)
  BY <1>1, <1>2, <1>3, <1>4, StartDone DEF Conf
<1>6. "start" \in Actors /\ "start" \notin Hook
  BY Names
<1>7. QED
  BY <1>3, <1>4, <1>5, <1>6, BeginInv

LEMMA BootInv == Inv /\ Boot => Inv'
<1> SUFFICES ASSUME Inv, Boot PROVE Inv'
  OBVIOUS
<1>1. stored \in Configs \cup {Initial}
  BY DEF Inv, Types
<1>2. Start(stored) /\ stored' = stored
  BY DEF Boot
<1>3. QED
  BY <1>1, <1>2, StartInv

LEMMA SaveInv ==
    ASSUME Inv, NEW c \in Configs, Save(c)
    PROVE  Inv'
<1>1. stored' = c /\ running
  BY DEF Save
<1>2. CASE RestartRequired(c)
  <2>1. Start(c)
    BY <1>2 DEF Save
  <2>2. QED
    BY <1>1, <2>1, StartInv
<1>3. CASE ~RestartRequired(c)
  <2>1. /\ Begin("save", SaveScript) /\ launched' = launched
        /\ running' = running /\ chain' = chain
    BY <1>3 DEF Save
  <2>2. PICK q \in Seq(Commands) : q = SaveScript
    BY PoliciesType DEF SaveScript, Parts
  <2>3. DOMAIN chain' = Chains /\ \A ch \in Chains : chain'[ch] \in Contents(ch)
    BY <2>1 DEF Inv, Types
  <2>4. \A ch \in Chains : \A t :
            Turns(q, ch, chain'[ch], t) => Done("save", Conf("save")', ch, t)
    BY <2>2, <2>3, SaveDone
  <2>5. "save" \in Actors /\ "save" \notin Hook /\ Begin("save", q)
    BY <2>1, <2>2, Names
  <2>6. /\ launched' \in Configs \cup {Initial} /\ running' = TRUE
    BY <1>1, <2>1 DEF Inv, Types
  <2>7. QED
    BY <1>1, <2>1, <2>3, <2>4, <2>5, <2>6, BeginInv
<1>4. QED
  BY <1>2, <1>3

LEMMA RebuildInv ==
    ASSUME Inv, NEW table \in Hook, Rebuild(table)
    PROVE  Inv'
<1>1. /\ stored' = stored /\ launched' = launched /\ running' = running
      /\ stored \in Configs \cup {Initial} /\ launched \in Configs \cup {Initial}
      /\ running \in BOOLEAN
  BY DEF Rebuild, Inv, Types
<1>2. PICK q \in Seq(HookCommands) :
          q = IF running THEN HookScript(stored, table) ELSE <<>>
  <2>1. stored \in Settings
    BY <1>1, ConfigsAssumption DEF Settings
  <2>2. HookScript(stored, table) \in Seq(HookCommands)
    BY <2>1, HookType, Names
  <2>3. QED
    BY <2>2, EmptySeq
<1>3. q \in Seq(Commands) /\ table \in Actors /\ Begin(table, q)
  BY <1>2, HookSubset, Names DEF Rebuild
<1>4. /\ DOMAIN chain = Chains /\ \A ch \in Chains : chain[ch] \in Contents(ch)
      /\ chain' = [ch \in DOMAIN chain |->
                       IF ch \in Tables[table] THEN Own(table) ELSE chain[ch]]
  BY DEF Inv, Types, Rebuild
<1>5. \A ch \in Tables[table] : Own(table) \in Contents(ch)
  BY Names DEF Own, Contents, Has, Filters
<1>6. DOMAIN chain' = Chains /\ \A ch \in Chains : chain'[ch] \in Contents(ch)
  BY <1>4, <1>5
<1>7. ASSUME last.solid, NEW ch \in Filters PROVE Screened(chain'[ch])
  <2>1. CASE ch \in Tables[table]
    <3>1. table = "filter"
      BY <2>1, Names DEF Filters
    <3>2. chain'[ch] = <<Terminal>>
      BY <1>4, <1>7, <2>1, <3>1, Names DEF Own
    <3>3. QED
      BY <3>2, Fields DEF Screened, Guarded
  <2>2. CASE ch \notin Tables[table]
    BY <1>4, <1>7, <2>2, Names DEF Inv, Solid
  <2>3. QED
    BY <2>1, <2>2
<1>8. ASSUME q # <<>>, NEW ch \in Chains, NEW t, Turns(q, ch, chain'[ch], t)
      PROVE  Done(table, Conf(table)', ch, t)
  <2>1. q = HookScript(stored, table) /\ stored \in Settings
    BY <1>1, <1>2, <1>8, ConfigsAssumption DEF Settings
  <2>2. PICK c \in Settings : c = stored
    BY <2>1
  <2>3. Conf(table)' = c
    BY <1>1, <2>2, Names DEF Conf
  <2>4. CASE table = "nat"
    <3>1. Turns(HookNat(c), ch, chain'[ch], t)
      BY <1>8, <2>1, <2>2, <2>4 DEF HookScript
    <3>2. Done("nat", c, ch, t)
      BY <1>6, <3>1, HookNatDone
    <3>3. QED
      BY <2>3, <2>4, <3>2
  <2>5. CASE table = "filter"
    <3>1. Turns(HookFilter(c), ch, chain'[ch], t)
      BY <1>8, <2>1, <2>2, <2>5 DEF HookScript
    <3>2. Done("filter", c, ch, t)
      BY <1>6, <3>1, HookFilterDone
    <3>3. QED
      BY <2>3, <2>5, <3>2
  <2>6. QED
    BY <2>4, <2>5, Names
<1>9. QED
  BY <1>1, <1>2, <1>3, <1>6, <1>7, <1>8, BeginInv

LEMMA StopInv == Inv /\ Stop => Inv'
<1> SUFFICES ASSUME Inv, Stop PROVE Inv'
  OBVIOUS
<1>1. /\ running' = FALSE
      /\ todo' = [todo EXCEPT !["start"] = <<>>, !["save"] = <<>>]
      /\ disturbed' = disturbed \ {"start", "save"}
      /\ last' = [Nobody EXCEPT !.solid = last.solid]
      /\ stored' = stored /\ launched' = launched /\ chain' = chain
  BY DEF Stop
<1>2. Types
  BY DEF Inv
<1>3. /\ todo'["start"] = <<>> /\ todo'["save"] = <<>>
      /\ \A a \in Hook : todo'[a] = todo[a]
      /\ \A a \in Actors : a \in Hook \/ a \in {"start", "save"}
  BY <1>1, <1>2, Names DEF Types
<1>4. Types'
  <2>1. todo' \in [Actors -> Seq(Commands)]
    BY <1>1, <1>2, EmptySeq DEF Types
  <2>2. QED
    BY <1>1, <1>2, <1>3, <2>1 DEF Types
<1>5. OnlyHook'
  BY <1>3 DEF OnlyHook
<1>6. Apart'
  BY <1>1, <1>3, Names DEF Inv, Apart
<1>7. Working'
  <2>1. ASSUME NEW a \in Actors, a \notin disturbed', todo'[a] # <<>>,
               NEW ch \in Chains, NEW t, Turns(todo'[a], ch, chain'[ch], t)
        PROVE  Done(a, Conf(a)', ch, t)
    <3>1. a \in Hook /\ a \notin disturbed /\ todo'[a] = todo[a]
      BY <1>1, <1>3, <2>1, Names
    <3>2. Conf(a)' = Conf(a)
      BY <1>1 DEF Conf
    <3>3. QED
      BY <1>1, <2>1, <3>1, <3>2 DEF Inv, Working
  <2>2. QED
    BY <2>1 DEF Working
<1>8. Solid'
  BY <1>1, <1>3 DEF Inv, Solid, Nobody, Screened
<1>9. Clean'
  BY <1>1 DEF Clean, Nobody
<1>10. QED
  BY <1>4, <1>5, <1>6, <1>7, <1>8, <1>9 DEF Inv

(* An actor at work goes on.  Whoever it meets has met it already.         *)
LEMMA ContinueInv ==
    ASSUME Inv, NEW a \in Actors, todo[a] # <<>>,
           NEW rest \in Seq(Commands), NEW harmed, Continue(a, rest, harmed),
           disturbed \subseteq harmed, harmed \subseteq Actors,
           stored' = stored, launched' = launched, running' = running,
           a \in Hook => rest \in Seq(HookCommands),
           DOMAIN chain' = Chains, \A ch \in Chains : chain'[ch] \in Contents(ch),
           a \in Hook /\ last.solid => \A ch \in Filters : Screened(chain'[ch]),
           a \notin harmed => \A ch \in Chains : \A t :
               Turns(rest, ch, chain'[ch], t) => Done(a, Conf(a), ch, t)
    PROVE  Inv'
<1>1. /\ todo' = [todo EXCEPT ![a] = rest]
      /\ disturbed' = IF rest = <<>> THEN harmed \ {a} ELSE harmed
      /\ last' = IF rest # <<>> THEN last
                 ELSE [by |-> a, clean |-> a \notin harmed,
                       solid |-> IF a \in Hook THEN last.solid
                                 ELSE a \notin harmed]
  BY DEF Continue, Hook
<1>2. Types
  BY DEF Inv
<1>3. /\ todo'[a] = rest
      /\ \A b \in Actors \ {a} : todo'[b] = todo[b]
  BY <1>1, <1>2 DEF Types
<1>4. \A b \in Actors \ {a} :
          todo[b] # <<>> => a \in harmed /\ b \in disturbed /\ b \in disturbed'
  BY <1>1 DEF Inv, Apart
<1>5. a \notin harmed =>
          /\ \A b \in Actors \ {a} : todo'[b] = <<>>
          /\ rest = <<>> => \A ch \in Chains : Done(a, Conf(a), ch, chain'[ch])
  BY <1>3, <1>4, TurnsNone
<1>6. \A b \in Actors : Conf(b)' = Conf(b)
  BY DEF Conf
<1>7. Types'
  <2>1. todo' \in [Actors -> Seq(Commands)]
    BY <1>1, <1>2 DEF Types
  <2>2. \A b \in Hook : todo'[b] \in Seq(HookCommands)
    BY <1>2, <1>3, Names DEF Types
  <2>3. disturbed' \subseteq Actors
    BY <1>1
  <2>4. QED
    BY <1>2, <2>1, <2>2, <2>3 DEF Types
<1>8. OnlyHook'
  BY <1>3 DEF Inv, OnlyHook
<1>9. Apart'
  <2>1. ASSUME NEW b \in Actors, NEW d \in Actors, b # d,
               todo'[b] # <<>>, todo'[d] # <<>>
        PROVE  b \in disturbed'
    <3>1. CASE b = a
      BY <1>1, <1>3, <1>4, <2>1, <3>1
    <3>2. CASE b # a
      BY <1>3, <1>4, <2>1, <3>2
    <3>3. QED
      BY <3>1, <3>2
  <2>2. QED
    BY <2>1 DEF Apart
<1>10. Working'
  <2>1. ASSUME NEW b \in Actors, b \notin disturbed', todo'[b] # <<>>,
               NEW ch \in Chains, NEW t, Turns(todo'[b], ch, chain'[ch], t)
        PROVE  Done(b, Conf(b)', ch, t)
    <3>1. b = a
      BY <1>3, <1>4, <2>1
    <3>2. a \notin harmed /\ todo'[b] = rest
      BY <1>1, <1>3, <2>1, <3>1
    <3>3. QED
      BY <1>6, <2>1, <3>1, <3>2
  <2>2. QED
    BY <2>1 DEF Working
<1>11. Solid'
  <2>1. ASSUME last'.solid
        PROVE  /\ todo'["start"] = <<>> /\ todo'["save"] = <<>>
               /\ \A ch \in Filters : Screened(chain'[ch])
    <3>1. CASE a \in Hook
      <4>1. last.solid
        BY <1>1, <2>1, <3>1
      <4>2. todo["start"] = <<>> /\ todo["save"] = <<>>
        BY <4>1 DEF Inv, Solid
      <4>3. QED
        BY <1>3, <3>1, <4>1, <4>2, Names
    <3>2. CASE a \notin Hook
      <4>1. a \in {"start", "save"}
        BY <3>2, Names
      <4>2. ~last.solid
        BY <4>1 DEF Inv, Solid
      <4>3. rest = <<>> /\ a \notin harmed
        BY <1>1, <2>1, <3>2, <4>2
      <4>4. \A ch \in Filters : Done(a, Conf(a), ch, chain'[ch])
        BY <1>5, <4>3, Names
      <4>5. \A ch \in Filters : Screened(chain'[ch])
        BY <4>1, <4>4 DEF Done, Wired, Screened, Filters
      <4>6. QED
        BY <1>3, <1>5, <4>1, <4>3, <4>5, Names
    <3>3. QED
      BY <3>1, <3>2
  <2>2. QED
    BY <2>1 DEF Solid, Screened
<1>12. Clean'
  <2>1. ASSUME last'.clean
        PROVE  /\ last'.by \in Actors /\ \A b \in Actors : todo'[b] = <<>>
               /\ \A ch \in Chains :
                     Done(last.by, Conf(last.by), ch, chain[ch])'
    <3>1. ~last.clean
      BY DEF Inv, Clean
    <3>2. rest = <<>> /\ a \notin harmed /\ last'.by = a
      BY <1>1, <2>1, <3>1
    <3>3. last'.by \in Actors /\ \A b \in Actors : todo'[b] = <<>>
      BY <1>3, <1>5, <3>2
    <3>4. Conf(last.by)' = Conf(a)
      BY <3>2 DEF Conf
    <3>5. \A ch \in Chains : Done(last'.by, Conf(last.by)', ch, chain'[ch])
      BY <1>5, <3>2, <3>4
    <3>6. QED
      BY <3>3, <3>5 DEF Done
  <2>2. QED
    BY <2>1 DEF Clean
<1>13. QED
  BY <1>7, <1>8, <1>9, <1>10, <1>11, <1>12 DEF Inv

LEMMA ChangedEffect ==
    ASSUME Types, NEW c \in Commands
    PROVE  /\ DOMAIN Changed(c) = Chains
           /\ \A ch \in Chains : Changed(c)[ch] = Effect(c, ch, chain[ch])
<1>1. DOMAIN chain = Chains
  BY DEF Types
<1>2. CASE c.op = "delete"
  BY <1>1, <1>2 DEF Changed, Effect
<1>3. CASE c.op # "delete"
  <2>1. ASSUME NEW ch \in Chains
        PROVE  Changed(c)[ch] = Effect(c, ch, chain[ch])
    BY <1>1, <1>3 DEF Changed, Effect
  <2>2. DOMAIN Changed(c) = Chains
    BY <1>1, <1>3 DEF Changed
  <2>3. QED
    BY <2>1, <2>2
<1>4. QED
  BY <1>2, <1>3

LEMMA GiveInv ==
    ASSUME Inv, NEW a \in Actors, Give(a)
    PROVE  Inv'
<1>1. PICK q \in Seq(Commands) : q = todo[a] /\ q # <<>>
  BY DEF Inv, Types, Give
<1>2. PICK c \in Commands, rest \in Seq(Commands) :
          c = Head(q) /\ rest = Tail(q)
  BY <1>1, HeadTailProperties
<1>3. a \in Hook => c \in HookCommands /\ rest \in Seq(HookCommands)
  <2>1. SUFFICES ASSUME a \in Hook
                 PROVE  c \in HookCommands /\ rest \in Seq(HookCommands)
    OBVIOUS
  <2>2. q \in Seq(HookCommands)
    BY <1>1, <2>1 DEF Inv, Types
  <2>3. QED
    BY <1>1, <1>2, <2>2, HeadTailProperties
<1>4. Types
  BY DEF Inv
<1>5. /\ DOMAIN chain' = Chains
      /\ \A ch \in Chains : chain'[ch] = Effect(c, ch, chain[ch])
  BY <1>1, <1>2, <1>4, ChangedEffect DEF Give
<1>6. \A ch \in Chains : chain'[ch] \in Contents(ch)
  BY <1>4, <1>5, EffectType DEF Types
<1>7. PICK harmed : /\ harmed = IF chain' = chain THEN disturbed
                                ELSE disturbed \cup Others(a)
                    /\ Continue(a, rest, harmed)
  BY <1>1, <1>2 DEF Give
<1>8. disturbed \subseteq harmed /\ harmed \subseteq Actors
  BY <1>4, <1>7 DEF Types, Others
<1>9. ASSUME a \in Hook, last.solid, NEW ch \in Filters
      PROVE  Screened(chain'[ch])
  <2>1. Screened(chain[ch]) /\ ch \in Chains
    BY <1>9, Names DEF Inv, Solid
  <2>2. PICK s \in Contents(ch) : s = chain[ch]
    BY <1>4, <2>1 DEF Types
  <2>3. Screened(Effect(c, ch, s))
    BY <1>3, <1>9, <2>1, <2>2, GentleKeeps DEF Screened, Filters
  <2>4. QED
    BY <1>5, <2>1, <2>2, <2>3
<1>10. ASSUME a \notin harmed, NEW ch \in Chains, NEW t,
              Turns(rest, ch, chain'[ch], t)
       PROVE  Done(a, Conf(a), ch, t)
  <2>1. Turns(rest, ch, Effect(c, ch, chain[ch]), t)
    BY <1>5, <1>10
  <2>2. Turns(q, ch, chain[ch], t)
    BY <1>1, <1>2, <2>1, TurnsStep
  <2>3. a \notin disturbed
    BY <1>8, <1>10
  <2>4. QED
    BY <1>1, <2>2, <2>3 DEF Inv, Working
<1>11. stored' = stored /\ launched' = launched /\ running' = running
  BY DEF Give
<1>12. QED
  BY <1>1, <1>3, <1>5, <1>6, <1>7, <1>8, <1>9, <1>10, <1>11, ContinueInv

LEMMA FailInv ==
    ASSUME Inv, NEW a \in Actors, Fail(a)
    PROVE  Inv'
<1>1. /\ a \in {"start", "save"} /\ todo[a] # <<>> /\ stored' = stored
      /\ a \notin Hook
  BY Names DEF Fail
<1>2. CASE Head(todo[a]).part = "policies"
  <2>1. Start(launched) /\ launched \in Configs \cup {Initial}
        /\ stored' \in Configs \cup {Initial}
    BY <1>1, <1>2 DEF Fail, Inv, Types
  <2>2. QED
    BY <2>1, StartInv
<1>3. CASE Head(todo[a]).part # "policies"
  <2>1. PICK q \in Seq(Commands) : q = todo[a]
    BY DEF Inv, Types
  <2>2. PICK D : Continue(a, Without(q, D), disturbed \cup {a})
    BY <1>3, <2>1 DEF Fail
  <2>3. Without(q, D) \in Seq(Commands)
    BY Removing
  <2>4. PICK rest \in Seq(Commands) : rest = Without(q, D)
    BY <2>3
  <2>5. PICK harmed : harmed = disturbed \cup {a}
    OBVIOUS
  <2>6. /\ disturbed \subseteq harmed /\ harmed \subseteq Actors /\ a \in harmed
        /\ DOMAIN chain = Chains /\ \A ch \in Chains : chain[ch] \in Contents(ch)
    BY <2>5 DEF Inv, Types
  <2>7. launched' = launched /\ running' = running /\ chain' = chain
    BY <1>3 DEF Fail
  <2>8. Continue(a, rest, harmed)
    BY <2>2, <2>4, <2>5
  <2>9. QED
    BY <1>1, <2>6, <2>7, <2>8, ContinueInv
<1>4. QED
  BY <1>2, <1>3

LEMMA StutterInv == Inv /\ UNCHANGED vars => Inv'
<1> SUFFICES ASSUME Inv, UNCHANGED vars PROVE Inv'
  OBVIOUS
<1>1. /\ stored' = stored /\ launched' = launched /\ running' = running
      /\ todo' = todo /\ chain' = chain /\ disturbed' = disturbed
      /\ last' = last
  BY DEF vars
<1>2. \A a : Conf(a)' = Conf(a)
  BY <1>1 DEF Conf
<1>3. Types' /\ OnlyHook' /\ Apart'
  BY <1>1 DEF Inv, Types, OnlyHook, Apart
<1>4. Working'
  <2>1. ASSUME NEW a \in Actors, a \notin disturbed', todo'[a] # <<>>,
               NEW ch \in Chains, NEW t, Turns(todo'[a], ch, chain'[ch], t)
        PROVE  Done(a, Conf(a)', ch, t)
    BY <1>1, <1>2, <2>1 DEF Inv, Working
  <2>2. QED
    BY <2>1 DEF Working
<1>5. Solid'
  BY <1>1 DEF Inv, Solid, Screened
<1>6. Clean'
  BY <1>1 DEF Inv, Clean, Conf
<1>7. QED
  BY <1>3, <1>4, <1>5, <1>6 DEF Inv

LEMMA NextInv == Inv /\ [Next]_vars => Inv'
<1> SUFFICES ASSUME Inv, [Next]_vars PROVE Inv'
  OBVIOUS
<1>1. CASE Boot
  BY <1>1, BootInv
<1>2. CASE Stop
  BY <1>2, StopInv
<1>3. ASSUME NEW c \in Configs, Save(c) PROVE Inv'
  BY <1>3, SaveInv
<1>4. ASSUME NEW t \in DOMAIN Tables, Rebuild(t) PROVE Inv'
  BY <1>4, RebuildInv DEF Hook
<1>5. ASSUME NEW a \in Actors, Give(a) PROVE Inv'
  BY <1>5, GiveInv
<1>6. ASSUME NEW a \in Actors, Fail(a) PROVE Inv'
  BY <1>6, FailInv
<1>7. CASE UNCHANGED vars
  BY <1>7, StutterInv
<1>8. QED
  BY <1>1, <1>2, <1>3, <1>4, <1>5, <1>6, <1>7 DEF Next

LEMMA Invariance == Spec => []Inv
<1>1. Init => Inv
  BY InitInv
<1>2. Inv /\ [Next]_vars => Inv'
  BY NextInv
<1>3. QED
  BY <1>1, <1>2, PTL DEF Spec

(***************************************************************************)
(* What the invariant says of a packet                                     *)
(***************************************************************************)
LEMMA FilterRule ==
    \A r \in FilterRules :
        /\ r = Rule(r.dir, r.what, r.target)
        /\ r.target \in {"ACCEPT", "PROFILE"}
BY DEF FilterRules, Of, Jump, JumpOut, In, Out, Port, Rule

LEMMA Contained ==
    ASSUME NEW R, NEW s \in Seq(R), NEW x
    PROVE  Contains(s, x) <=> Has(s, x)
BY LenProperties DEF Contains, Has

LEMMA ChainRules ==
    ASSUME Types, NEW ch \in Filters
    PROVE  /\ chain[ch] \in Seq(FilterRules \cup {Terminal})
           /\ chain[ch] \in Contents(ch)
           /\ \A k \in DOMAIN chain[ch] :
                 chain[ch][k] \in FilterRules \/ chain[ch][k] = Terminal
<1>1. /\ chain[ch] \in Contents(ch)
      /\ RulesOf(ch) = FilterRules
  BY Names DEF Types, Filters, RulesOf
<1>2. chain[ch] \in Seq(FilterRules \cup {Terminal})
  BY <1>1 DEF Contents
<1>3. \A k \in DOMAIN chain[ch] : chain[ch][k] \in FilterRules \cup {Terminal}
  BY <1>2, LenProperties, ElementOfSeq
<1>4. QED
  BY <1>1, <1>2, <1>3

(* Guarded is what keeps a packet from being accepted unscreened.          *)
LEMMA GuardedScreens ==
    ASSUME Types, NEW i,
           \A ch \in Filters : Guarded(chain[ch], {Jump(i), Terminal}, In(i))
    PROVE  ~Unscreened(i)
<1> SUFFICES ASSUME NEW ch \in Filters, NEW k \in DOMAIN chain[ch],
                    About(chain[ch][k], "in", i),
                    chain[ch][k].target = "ACCEPT",
                    \A j \in 1 .. k - 1 : ~About(chain[ch][j], "in", i)
             PROVE  FALSE
  BY Names DEF Unscreened
<1>1. PICK s \in Seq(FilterRules \cup {Terminal}) : s = chain[ch]
  BY ChainRules
<1>2. s[k] # Terminal /\ s[k] \in FilterRules
  BY <1>1, ChainRules, Fields
<1>3. s[k].dir = "in" /\ s[k].what = i
  BY <1>1, <1>2 DEF About
<1>4. s[k] = In(i)
  BY <1>1, <1>2, <1>3, FilterRule DEF In
<1>5. PICK j \in DOMAIN s : j < k /\ s[j] \in {Jump(i), Terminal}
  BY <1>1, <1>4 DEF Guarded
<1>6. j \in 1 .. k - 1
  BY <1>1, <1>5, LenProperties
<1>7. About(s[j], "in", i)
  BY <1>5, Fields DEF About
<1>8. QED
  BY <1>1, <1>6, <1>7

(* The first rule that accepts decides if Keenetic's comes later.          *)
LEMMA LeadsAccepts ==
    ASSUME Types, NEW ch \in Filters, NEW x \in FilterRules,
           x.target = "ACCEPT", Leads(chain[ch], x, Terminal)
    PROVE  Accepted(ch, x.dir, x.what)
<1>1. PICK s \in Seq(FilterRules \cup {Terminal}) : s = chain[ch]
  BY ChainRules
<1>2. PICK n \in Nat : DOMAIN s = 1 .. n
  BY LenProperties
<1>3. PICK l \in DOMAIN s : s[l] = x /\ \A j \in DOMAIN s : j < l => s[j] # Terminal
  BY <1>1 DEF Leads
<1>4. PICK k \in DOMAIN s : s[k] = x /\ \A j \in DOMAIN s : s[j] = x => k <= j
  <2> DEFINE K == {j \in DOMAIN s : s[j] = x}
  <2>1. K \subseteq Nat /\ K # {}
    BY <1>2, <1>3
  <2>2. PICK k \in K : \A j \in K : k <= j
    BY <2>1, Least
  <2>3. QED
    BY <2>2
<1>5. ASSUME NEW j \in 1 .. k - 1, About(s[j], x.dir, x.what)
      PROVE  s[j].target = "PROFILE"
  <2>1. j \in DOMAIN s /\ j < k /\ k <= l /\ j < l
    BY <1>2, <1>3, <1>4, <1>5
  <2>2. s[j] # Terminal /\ s[j] # x
    BY <1>2, <1>3, <1>4, <2>1
  <2>3. s[j] \in FilterRules /\ s[j].dir = x.dir /\ s[j].what = x.what
    BY <1>1, <1>5, <2>1, <2>2, ChainRules DEF About
  <2>4. s[j].target = "ACCEPT" => s[j] = x
    BY <2>3, FilterRule
  <2>5. QED
    BY <2>2, <2>3, <2>4, FilterRule
<1>6. About(s[k], x.dir, x.what) /\ s[k].target = "ACCEPT"
  BY <1>4 DEF About
<1>7. QED
  BY <1>1, <1>4, <1>5, <1>6 DEF Accepted

LEMMA WiredCarries ==
    ASSUME Types, NEW i \in {"wg", "raw"},
           \A ch \in Filters : Wired(ch, i, chain[ch])
    PROVE  Carried(i)
<1>1. ~Unscreened(i)
  BY GuardedScreens DEF Wired
<1>2. In(i) \in FilterRules /\ Out(i) \in FilterRules
  BY DEF FilterRules, Of
<1>3. "FORWARD" \in Filters /\ "INPUT" \in Filters
  BY DEF Filters
<1>4. /\ Leads(chain["FORWARD"], In(i), Terminal)
      /\ Leads(chain["INPUT"], In(i), Terminal)
      /\ Leads(chain["FORWARD"], Out(i), Terminal)
  BY <1>3 DEF Wired
<1>5. /\ Accepted("FORWARD", In(i).dir, In(i).what)
      /\ Accepted("INPUT", In(i).dir, In(i).what)
      /\ Accepted("FORWARD", Out(i).dir, Out(i).what)
  BY <1>2, <1>3, <1>4, LeadsAccepts, Fields
<1>6. QED
  BY <1>1, <1>5, Fields DEF Carried

LEMMA OpenedOpens ==
    ASSUME Types, NEW p \in Ports, Opened("INPUT", p, chain["INPUT"])
    PROVE  Open(p)
<1>1. Port(p) \in FilterRules /\ "INPUT" \in Filters
  BY DEF FilterRules, Filters
<1>2. Accepted("INPUT", Port(p).dir, Port(p).what)
  BY <1>1, LeadsAccepts, Fields DEF Opened
<1>3. QED
  BY <1>2, Fields DEF Open

LEMMA HasTranslates ==
    ASSUME Types, NEW i, Has(chain["POSTROUTING"], Masquerade(i))
    PROVE  Translated(i)
<1>1. chain["POSTROUTING"] \in Contents("POSTROUTING")
  BY DEF Types, Chains
<1>2. QED
  BY <1>1, Contained DEF Contents, Translated

(* An undisturbed start leaves one copy of what it has inserted.           *)
LEMMA NoPile ==
    ASSUME Inv, last.by = "start", last.clean, launched.on,
           NEW ch \in Filters, NEW i \in DOMAIN chain[ch],
           NEW j \in DOMAIN chain[ch], chain[ch][i] = chain[ch][j],
           chain[ch][i].what \in {"wg", launched.dtls}
    PROVE  i = j
<1>1. Types /\ launched.dtls \in Ports
  BY ConfigsAssumption DEF Inv, Types
<1>2. PICK r : r = chain[ch][i]
  OBVIOUS
<1>3. Terminal.what = "any"
  BY DEF Terminal, Rule
<1>4. r \in FilterRules
  BY <1>1, <1>2, <1>3, ChainRules, ConfigsAssumption
<1>5. r \in Of("wg") \/ r = Port(launched.dtls)
  <2>1. r \in Of("raw") \cup {JumpOut("raw")} => r.what = "raw"
    BY Fields DEF Of
  <2>2. \A p \in Ports : r = Port(p) => r.what = p /\ p # "wg"
    BY Fields, ConfigsAssumption
  <2>3. "raw" # "wg" /\ "raw" # launched.dtls
    BY <1>1, ConfigsAssumption
  <2>4. QED
    BY <1>2, <1>4, <2>1, <2>2, <2>3 DEF FilterRules
<1>6. Done("start", launched, ch, chain[ch]) /\ ch # "POSTROUTING"
  BY Names DEF Inv, Clean, Conf, Filters
<1>7. Wired(ch, "wg", chain[ch]) /\ Opened(ch, launched.dtls, chain[ch])
  BY <1>6 DEF Done
<1>8. Single(chain[ch], r)
  BY <1>5, <1>7 DEF Wired, Opened
<1>9. QED
  BY <1>2, <1>8 DEF Single

LEMMA InvTypeOK == Inv => TypeOK
<1> SUFFICES ASSUME Inv PROVE TypeOK
  OBVIOUS
<1>1. /\ stored \in Configs \cup {Initial} /\ launched \in Configs \cup {Initial}
      /\ running \in BOOLEAN /\ disturbed \subseteq Actors
      /\ \A a \in Actors : todo[a] # <<>> => running \/ a \in DOMAIN Tables
  BY DEF Inv, Types, OnlyHook, Hook
<1>2. ASSUME NEW t \in DOMAIN Tables, NEW ch \in Tables[t]
      PROVE  Contains(chain[ch], Terminal) <=> t = "filter"
  <2>1. t \in {"filter", "nat"} /\ ch \in Chains
        /\ (t = "filter" <=> ch # "POSTROUTING")
    <3>1. t \in {"filter", "nat"}
      BY <1>2, Names DEF Hook
    <3>2. CASE t = "filter"
      <4>1. ch \in Filters
        BY <1>2, <3>2, Names
      <4>2. QED
        BY <3>2, <4>1 DEF Filters, Chains
    <3>3. CASE t = "nat"
      <4>1. ch = "POSTROUTING"
        BY <1>2, <3>3, Names
      <4>2. QED
        BY <3>3, <4>1 DEF Chains
    <3>4. QED
      BY <3>1, <3>2, <3>3
  <2>2. chain[ch] \in Contents(ch)
    BY <2>1 DEF Inv, Types
  <2>3. chain[ch] \in Seq(RulesOf(ch) \cup {Terminal})
        /\ (Has(chain[ch], Terminal) <=> ch # "POSTROUTING")
    BY <2>2 DEF Contents
  <2>4. QED
    BY <2>1, <2>3, Contained
<1>3. AtRest /\ last.by = "start" /\ last.clean =>
          \A ch \in Tables["filter"] : \A i, j \in DOMAIN chain[ch] :
              /\ chain[ch][i] = chain[ch][j]
              /\ chain[ch][i].what \in {"wg", launched.dtls} /\ launched.on
              => i = j
  BY NoPile, Names
<1>4. QED
  BY <1>1, <1>2, <1>3 DEF TypeOK

LEMMA InvTunnelScreened == Inv => TunnelScreened
<1> SUFFICES ASSUME Inv, last.solid PROVE ~Unscreened("wg")
  BY DEF TunnelScreened
<1>1. \A ch \in Filters :
          Guarded(chain[ch], {Jump("wg"), Terminal}, In("wg"))
  BY DEF Inv, Solid, Screened
<1>2. QED
  BY <1>1, GuardedScreens DEF Inv

LEMMA InvWorkComplete == Inv => WorkComplete
<1> SUFFICES ASSUME Inv, last.clean
             PROVE  /\ last.by \in {"start", "save"} => Carried("wg")
                    /\ last.by = "save" => Carried("raw")
                    /\ last.by = "start" =>
                           /\ Translated("wg")
                           /\ launched.on => Open(launched.dtls)
                           /\ launched.on /\ OwnRawPort(launched) =>
                                  /\ Carried("raw") /\ Translated("raw")
                                  /\ Open(launched.raw)
                    /\ last.by = "filter" =>
                           /\ Open(stored.dtls)
                           /\ stored.raw # NoPort =>
                                  /\ Open(stored.raw)
                                  /\ Accepted("FORWARD", "in", "raw")
                                  /\ Accepted("FORWARD", "out", "raw")
                    /\ last.by = "nat" =>
                           /\ Translated("wg")
                           /\ stored.raw # NoPort => Translated("raw")
  BY DEF WorkComplete
<1>1. Types /\ stored \in Settings /\ launched \in Settings
  BY ConfigsAssumption DEF Inv, Types, Settings
<1>2. PICK a, c : /\ a = last.by /\ c = Conf(a)
                  /\ \A ch \in Chains : Done(a, c, ch, chain[ch])
  BY DEF Inv, Clean
<1>3. c \in Settings
  BY <1>1, <1>2 DEF Conf
<1>4. /\ c.dtls \in Ports /\ (c.raw # NoPort => c.raw \in Ports)
      /\ (OwnRawPort(c) => c.raw # NoPort)
  BY <1>3 DEF Settings, OwnRawPort
<1>5. \A ch \in Filters : ch \in Chains /\ ch # "POSTROUTING"
  BY DEF Filters, Chains
<1>6. "FORWARD" \in Filters /\ "INPUT" \in Filters /\ "POSTROUTING" \in Chains
  BY DEF Filters, Chains
<1>7. a \in {"start", "save"} => Carried("wg")
  <2>1. a \in {"start", "save"} =>
            \A ch \in Filters : Wired(ch, "wg", chain[ch])
    BY <1>2, <1>5 DEF Done
  <2>2. QED
    BY <1>1, <2>1, WiredCarries
<1>8. a = "save" \/ (a = "start" /\ c.on /\ OwnRawPort(c)) => Carried("raw")
  <2>1. a = "save" \/ (a = "start" /\ c.on /\ OwnRawPort(c)) =>
            \A ch \in Filters : Wired(ch, "raw", chain[ch])
    BY <1>2, <1>5 DEF Done
  <2>2. QED
    BY <1>1, <2>1, WiredCarries
<1>9. /\ a \in {"start", "nat"} => Translated("wg")
      /\ a = "start" /\ c.on /\ OwnRawPort(c) => Translated("raw")
      /\ a = "nat" /\ c.raw # NoPort => Translated("raw")
  BY <1>1, <1>2, <1>6, HasTranslates DEF Done
<1>10. a = "filter" \/ (a = "start" /\ c.on) => Open(c.dtls)
  <2>1. a = "filter" \/ (a = "start" /\ c.on) =>
            Opened("INPUT", c.dtls, chain["INPUT"])
    BY <1>2, <1>5, <1>6 DEF Done
  <2>2. QED
    BY <1>1, <1>4, <2>1, OpenedOpens
<1>11. (a = "filter" /\ c.raw # NoPort) \/ (a = "start" /\ c.on /\ OwnRawPort(c))
           => Open(c.raw)
  <2>1. (a = "filter" /\ c.raw # NoPort) \/ (a = "start" /\ c.on /\ OwnRawPort(c))
            => Opened("INPUT", c.raw, chain["INPUT"])
    BY <1>2, <1>5, <1>6 DEF Done
  <2>2. QED
    BY <1>1, <1>4, <2>1, OpenedOpens
<1>12. a = "filter" /\ c.raw # NoPort =>
           /\ Accepted("FORWARD", "in", "raw")
           /\ Accepted("FORWARD", "out", "raw")
  <2>1. SUFFICES ASSUME a = "filter", c.raw # NoPort
                 PROVE  /\ Accepted("FORWARD", "in", "raw")
                        /\ Accepted("FORWARD", "out", "raw")
    OBVIOUS
  <2>2. /\ Leads(chain["FORWARD"], In("raw"), Terminal)
        /\ Leads(chain["FORWARD"], Out("raw"), Terminal)
    BY <1>2, <1>5, <1>6, <2>1 DEF Done
  <2>3. In("raw") \in FilterRules /\ Out("raw") \in FilterRules
    BY DEF FilterRules, Of
  <2>4. /\ Accepted("FORWARD", In("raw").dir, In("raw").what)
        /\ Accepted("FORWARD", Out("raw").dir, Out("raw").what)
    BY <1>1, <1>6, <2>2, <2>3, LeadsAccepts, Fields
  <2>5. QED
    BY <2>4, Fields
<1>13. c = IF a = "start" THEN launched ELSE stored
  BY <1>2 DEF Conf
<1>14. QED
  BY <1>2, <1>7, <1>8, <1>9, <1>10, <1>11, <1>12, <1>13

(***************************************************************************)
(* The theorems                                                            *)
(***************************************************************************)
(* Keenetic's own rule stays at the end of what the server writes, only    *)
(* the hook works while the process is down, and an undisturbed start      *)
(* leaves one copy of each rule, whatever was in the chains (nat.go,       *)
(* EnsureProfileFirewallHooks and openPort delete before they insert).     *)
THEOREM TypeCorrect == Spec => []TypeOK
<1>1. QED
  BY Invariance, InvTypeOK, PTL

(* From an undisturbed install until the next one, through any number of   *)
(* rebuilt tables and hooks, whole or half done, nothing from the tunnel   *)
(* is accepted before it has met the profile chains (nat.go, the hook).    *)
THEOREM TunnelStaysScreened == Spec => []TunnelScreened
<1>1. QED
  BY Invariance, InvTunnelScreened, PTL

(* A start, a save or the hook that nobody disturbed leaves its whole work *)
(* in the chains, whatever it found there: tunnel and RAW screened,        *)
(* accepted and translated, the ports open ahead of Keenetic's rule.       *)
THEOREM WorkIsComplete == Spec => []WorkComplete
<1>1. QED
  BY Invariance, InvWorkComplete, PTL
=============================================================================
