---------------------------- MODULE TagSetProofs ----------------------------
(***************************************************************************)
(* What holds of TagSet for any tags, any versions they denote, any lists  *)
(* of items, and anything a registry may list.                             *)
(***************************************************************************)
EXTENDS TagSet, TLAPS, FiniteSetTheorems, SequenceTheorems, WellFoundedInduction

-----------------------------------------------------------------------------
(* Sequences. The places of a slice are moved around by a swap, by sorting *)
(* and by the random order of a map; what it has stays the same.           *)

OneToOne(s) == \A i, j \in DOMAIN s : s[i] = s[j] => i = j

LEMMA HasLeast ==
    ASSUME NEW T \in SUBSET Nat, T # {}
    PROVE  \E m \in T : \A x \in T : m <= x
<1> DEFINE Less == OpToRel(<, Nat)
<1>1. PICK m \in T : \A x \in T : ~(<<x, m>> \in Less)
  BY NatLessThanWellFounded, WFMin
<1>2. \A x \in T : ~(x < m)
  BY <1>1 DEF OpToRel
<1> QED BY <1>2

LEMMA SetOfSeq ==
    ASSUME NEW S, NEW s \in Seq(S)
    PROVE  /\ DOMAIN s = 1 .. Len(s) /\ Len(s) \in Nat
           /\ s \in [1 .. Len(s) -> S]
           /\ ToSet(s) \subseteq S
           /\ \A x : x \in ToSet(s) <=> \E i \in 1 .. Len(s) : x = s[i]
BY LenProperties DEF ToSet

LEMMA SwappedProperties ==
    ASSUME NEW S, NEW s \in Seq(S), NEW i \in 1 .. Len(s), NEW j \in 1 .. Len(s)
    PROVE  /\ Swapped(s, i, j) \in Seq(S)
           /\ Len(Swapped(s, i, j)) = Len(s)
           /\ \A k \in 1 .. Len(s) :
                 Swapped(s, i, j)[k] = IF k = j THEN s[i]
                                       ELSE IF k = i THEN s[j] ELSE s[k]
           /\ ToSet(Swapped(s, i, j)) = ToSet(s)
           /\ OneToOne(s) => OneToOne(Swapped(s, i, j))
<1> DEFINE r == Swapped(s, i, j)
<1>1. s \in [1 .. Len(s) -> S] /\ DOMAIN s = 1 .. Len(s) /\ Len(s) \in Nat
  BY SetOfSeq
<1>2. /\ r \in [1 .. Len(s) -> S] /\ DOMAIN r = 1 .. Len(s)
      /\ \A k \in 1 .. Len(s) :
            r[k] = IF k = j THEN s[i] ELSE IF k = i THEN s[j] ELSE s[k]
  BY <1>1 DEF Swapped
<1> HIDE DEF r
<1>3. r \in Seq(S) /\ Len(r) = Len(s)
  BY <1>1, <1>2
<1>4. ToSet(r) = ToSet(s)
  <2>1. \A k \in 1 .. Len(s) : \E l \in 1 .. Len(s) : r[k] = s[l]
    BY <1>2
  <2>2. \A l \in 1 .. Len(s) : \E k \in 1 .. Len(s) : r[k] = s[l]
    <3> SUFFICES ASSUME NEW l \in 1 .. Len(s)
                 PROVE  \E k \in 1 .. Len(s) : r[k] = s[l]
        OBVIOUS
    <3>1. CASE l = i
      BY <1>2, <3>1
    <3>2. CASE l = j
      BY <1>2, <3>2
    <3>3. CASE l # i /\ l # j
      BY <1>2, <3>3
    <3> QED BY <3>1, <3>2, <3>3
  <2>3. \A x : x \in ToSet(r) <=> \E k \in 1 .. Len(s) : x = r[k]
    BY <1>2 DEF ToSet
  <2>4. \A x : x \in ToSet(s) <=> \E k \in 1 .. Len(s) : x = s[k]
    BY <1>1 DEF ToSet
  <2>5. ASSUME NEW x \in ToSet(r) PROVE x \in ToSet(s)
    <3>1. PICK k \in 1 .. Len(s) : x = r[k]
      BY <2>3
    <3>2. PICK l \in 1 .. Len(s) : r[k] = s[l]
      BY <2>1
    <3> QED BY <2>4, <3>1, <3>2
  <2>6. ASSUME NEW x \in ToSet(s) PROVE x \in ToSet(r)
    <3>1. PICK l \in 1 .. Len(s) : x = s[l]
      BY <2>4
    <3>2. PICK k \in 1 .. Len(s) : r[k] = s[l]
      BY <2>2
    <3> QED BY <2>3, <3>1, <3>2
  <2> QED BY <2>5, <2>6
<1>5. OneToOne(s) => OneToOne(r)
  BY <1>1, <1>2 DEF OneToOne
<1> QED BY <1>2, <1>3, <1>4, <1>5 DEF r

\* The indices of a slice of length n
LEMMA SizeOfInterval ==
    ASSUME NEW n \in Nat
    PROVE  IsFiniteSet(1 .. n) /\ Cardinality(1 .. n) = n
<1>1. 1 \in Int /\ n \in Int /\ (1 > n => n = 0) /\ n - 1 + 1 = n
  OBVIOUS
<1>2. /\ IsFiniteSet(1 .. n)
      /\ Cardinality(1 .. n) = IF 1 > n THEN 0 ELSE n - 1 + 1
  BY <1>1, FS_Interval
<1> QED BY <1>1, <1>2

\* The sequences that have each member of a set once
LEMMA SetToSeqsProperties ==
    ASSUME NEW S, IsFiniteSet(S), NEW s \in SetToSeqs(S)
    PROVE  s \in Seq(S) /\ Len(s) = Cardinality(S) /\ ToSet(s) = S /\ OneToOne(s)
<1> DEFINE D == 1 .. Cardinality(S)
<1>1. Cardinality(S) \in Nat
  BY FS_CardinalityType
<1>2. s \in [D -> S] /\ \A i, j \in D : i # j => s[i] # s[j]
  BY DEF SetToSeqs
<1>3. s \in Injection(D, S)
  BY <1>2 DEF Injection, IsInjective
<1>4. Cardinality(D) = Cardinality(S) /\ IsFiniteSet(D)
  BY <1>1, FS_Interval
<1>5. s \in Surjection(D, S)
  BY <1>3, <1>4, FS_Injection
<1>6. s \in Seq(S) /\ Len(s) = Cardinality(S)
  BY <1>1, <1>2
<1> QED BY <1>2, <1>5, <1>6 DEF Surjection, ToSet, OneToOne

-----------------------------------------------------------------------------
(* Sorting.                                                                *)

Below(s, t) == Cardinality({i \in DOMAIN s : s[i] < t})
UpTo(s, t) == Cardinality({i \in DOMAIN s : s[i] <= t})
Fits(s, t, k) == Below(s, t) < k /\ k <= UpTo(s, t)

LEMMA AscendingIs ==
    ASSUME NEW s
    PROVE  Ascending(s) = [k \in DOMAIN s |-> CHOOSE t \in ToSet(s) : Fits(s, t, k)]
BY DEF Ascending, Fits, Below, UpTo

LEMMA PlacesAreCounted ==
    ASSUME NEW s \in Seq(Nat)
    PROVE  /\ \A t \in Nat : /\ Below(s, t) \in Nat /\ UpTo(s, t) \in Nat
                             /\ Below(s, t) <= UpTo(s, t) /\ UpTo(s, t) <= Len(s)
           /\ \A t, u \in Nat : t < u => UpTo(s, t) <= Below(s, u)
           /\ \A t \in ToSet(s) : Below(s, t) < UpTo(s, t)
<1> DEFINE D == 1 .. Len(s)
           B(t) == {i \in D : s[i] < t}
           U(t) == {i \in D : s[i] <= t}
<1>1. DOMAIN s = D /\ Len(s) \in Nat /\ \A i \in D : s[i] \in Nat
  BY SetOfSeq
<1>2. IsFiniteSet(D) /\ Cardinality(D) = Len(s)
  BY <1>1, SizeOfInterval
<1>3. \A t : Below(s, t) = Cardinality(B(t)) /\ UpTo(s, t) = Cardinality(U(t))
  BY <1>1 DEF Below, UpTo
<1>4. \A t : /\ B(t) \in SUBSET D /\ U(t) \in SUBSET D
             /\ IsFiniteSet(B(t)) /\ IsFiniteSet(U(t))
  <2>1. \A t : B(t) \in SUBSET D /\ U(t) \in SUBSET D
    OBVIOUS
  <2> HIDE DEF B, U, D
  <2> QED BY <2>1, <1>2, FS_Subset
<1>5. \A t \in Nat : B(t) \in SUBSET U(t)
  BY <1>1
<1>6. \A t, u \in Nat : t < u => U(t) \in SUBSET B(u)
  BY <1>1
<1>7. \A t \in ToSet(s) : t \in Nat /\ \E i : i \in U(t) /\ i \notin B(t)
  BY <1>1, SetOfSeq
<1> HIDE DEF B, U, D
<1>8. \A t \in Nat : /\ Below(s, t) \in Nat /\ UpTo(s, t) \in Nat
                     /\ Below(s, t) <= UpTo(s, t) /\ UpTo(s, t) <= Len(s)
  BY <1>2, <1>3, <1>4, <1>5, FS_Subset, FS_CardinalityType
<1>9. \A t, u \in Nat : t < u => UpTo(s, t) <= Below(s, u)
  BY <1>3, <1>4, <1>6, FS_Subset
<1>10. ASSUME NEW t \in ToSet(s) PROVE Below(s, t) < UpTo(s, t)
  <2>1. t \in Nat
    BY <1>7
  <2>2. Cardinality(B(t)) # Cardinality(U(t))
    BY <1>4, <1>5, <1>7, FS_Subset
  <2>3. Below(s, t) # UpTo(s, t)
    BY <1>3, <2>2
  <2>4. Below(s, t) \in Nat /\ UpTo(s, t) \in Nat /\ Below(s, t) <= UpTo(s, t)
    BY <1>8, <2>1
  <2> QED BY <2>3, <2>4
<1> QED BY <1>8, <1>9, <1>10

\* There is a number for each place: among those that less than k places are
\* below of, the one with the most places up to it.
LEMMA PlaceIsFilled ==
    ASSUME NEW s \in Seq(Nat), NEW k \in 1 .. Len(s)
    PROVE  \E t \in ToSet(s) : Fits(s, t, k)
<1> DEFINE C == {t \in ToSet(s) : Below(s, t) < k}
           R == {Len(s) - UpTo(s, t) : t \in C}
<1>1. /\ ToSet(s) \in SUBSET Nat /\ Len(s) \in Nat
      /\ DOMAIN s = 1 .. Len(s) /\ \A i \in 1 .. Len(s) : s[i] \in Nat
      /\ \A x : x \in ToSet(s) <=> \E i \in 1 .. Len(s) : x = s[i]
  BY SetOfSeq
<1>a. \A t \in Nat : /\ Below(s, t) \in Nat /\ UpTo(s, t) \in Nat
                     /\ UpTo(s, t) <= Len(s)
  BY PlacesAreCounted
<1>b. \A t \in ToSet(s) : Below(s, t) < UpTo(s, t)
  BY PlacesAreCounted
<1>2. C # {}
  <2>1. ToSet(s) # {}
    BY <1>1
  <2>2. PICK m \in ToSet(s) : \A x \in ToSet(s) : m <= x
    BY <1>1, <2>1, HasLeast
  <2>3. {i \in DOMAIN s : s[i] < m} = {}
    <3>1. ASSUME NEW i \in 1 .. Len(s) PROVE ~(s[i] < m)
      <4>1. s[i] \in ToSet(s) /\ s[i] \in Nat /\ m \in Nat
        BY <1>1
      <4> QED BY <2>2, <4>1
    <3> QED BY <1>1, <3>1
  <2>4. Below(s, m) = 0
    BY <2>3, FS_EmptySet DEF Below
  <2> QED BY <2>4
<1>3. R \in SUBSET Nat /\ R # {}
  <2>1. ASSUME NEW t \in C PROVE Len(s) - UpTo(s, t) \in Nat
    <3>1. t \in Nat
      BY <1>1
    <3>2. /\ UpTo(s, t) \in Nat /\ Len(s) \in Nat /\ UpTo(s, t) <= Len(s)
      BY <1>1, <1>a, <3>1
    <3> QED BY <3>2
  <2> QED BY <1>2, <2>1
<1>4. PICK t \in C : \A u \in C : UpTo(s, u) <= UpTo(s, t)
  <2>1. PICK m \in R : \A x \in R : m <= x
    BY <1>3, HasLeast
  <2>2. PICK t \in C : m = Len(s) - UpTo(s, t)
    OBVIOUS
  <2>3. \A u \in C : UpTo(s, u) <= UpTo(s, t)
    <3> SUFFICES ASSUME NEW u \in C PROVE UpTo(s, u) <= UpTo(s, t)
        OBVIOUS
    <3>1. Len(s) - UpTo(s, t) <= Len(s) - UpTo(s, u)
      BY <2>1, <2>2
    <3>2. UpTo(s, t) \in Nat /\ UpTo(s, u) \in Nat
      BY <1>1, <1>a
    <3> QED BY <1>1, <3>1, <3>2
  <2> QED BY <2>3
<1>5. k <= UpTo(s, t)
  <2>a. t \in Nat /\ UpTo(s, t) \in Nat /\ k \in Nat /\ k <= Len(s)
    <3>1. t \in Nat /\ k \in Nat /\ k <= Len(s)
      BY <1>1
    <3> QED BY <1>a, <3>1
  <2> SUFFICES ASSUME UpTo(s, t) < k PROVE FALSE
      BY <2>a
  <2> DEFINE V == {u \in ToSet(s) : u > t}
  <2>1. V # {}
    <3> SUFFICES ASSUME V = {} PROVE FALSE
        OBVIOUS
    <3>1. {i \in DOMAIN s : s[i] <= t} = 1 .. Len(s)
      <4>1. ASSUME NEW i \in 1 .. Len(s) PROVE s[i] <= t
        <5>1. s[i] \in ToSet(s) /\ s[i] \in Nat /\ s[i] \notin V
          BY <1>1
        <5> QED BY <2>a, <5>1
      <4> QED BY <1>1, <4>1
    <3>2. UpTo(s, t) = Cardinality(1 .. Len(s))
      BY <3>1 DEF UpTo
    <3>3. UpTo(s, t) = Len(s)
      BY <1>1, <3>2, FS_Interval
    <3> QED BY <1>1, <2>a, <3>3
  <2>2. PICK u \in V : \A x \in V : u <= x
    BY <1>1, <2>1, HasLeast
  <2>3. {i \in DOMAIN s : s[i] < u} = {i \in DOMAIN s : s[i] <= t}
    <3>1. \A i \in 1 .. Len(s) : s[i] < u <=> s[i] <= t
      <4> SUFFICES ASSUME NEW i \in 1 .. Len(s) PROVE s[i] < u <=> s[i] <= t
          OBVIOUS
      <4>1. s[i] \in ToSet(s) /\ s[i] \in Nat /\ u \in Nat /\ u > t
        BY <1>1
      <4>2. s[i] > t => u <= s[i]
        BY <2>2, <4>1
      <4> QED BY <2>a, <4>1, <4>2
    <3> QED BY <1>1, <3>1
  <2>4. Below(s, u) = UpTo(s, t)
    BY <2>3 DEF Below, UpTo
  <2>5. u \in C
    BY <2>4
  <2>6. UpTo(s, u) > UpTo(s, t)
    BY <1>b, <2>4
  <2>7. UpTo(s, u) <= UpTo(s, t) /\ UpTo(s, u) \in Nat
    BY <1>1, <1>4, <1>a, <2>5
  <2> QED BY <2>a, <2>6, <2>7
<1> QED BY <1>5 DEF Fits

LEMMA PlaceIsFilledOnce ==
    ASSUME NEW s \in Seq(Nat), NEW k \in Nat, NEW t \in Nat, NEW u \in Nat,
           Fits(s, t, k), Fits(s, u, k)
    PROVE  t = u
<1>1. ASSUME NEW v \in Nat, NEW w \in Nat, v < w
      PROVE  ~(Fits(s, v, k) /\ Fits(s, w, k))
  <2>1. UpTo(s, v) <= Below(s, w) /\ UpTo(s, v) \in Nat /\ Below(s, w) \in Nat
    BY <1>1, PlacesAreCounted
  <2> QED BY <2>1 DEF Fits
<1> QED BY <1>1

LEMMA AscendingProperties ==
    ASSUME NEW S \in SUBSET Nat, NEW s \in Seq(S)
    PROVE  /\ Ascending(s) \in Seq(S) /\ Len(Ascending(s)) = Len(s)
           /\ ToSet(Ascending(s)) = ToSet(s)
           /\ \A i, j \in 1 .. Len(s) : i < j => Ascending(s)[i] <= Ascending(s)[j]
           /\ OneToOne(s) => OneToOne(Ascending(s))
<1> DEFINE a == Ascending(s)
           D == 1 .. Len(s)
<1>1. DOMAIN s = D /\ Len(s) \in Nat /\ ToSet(s) \subseteq S /\ s \in Seq(Nat)
  BY SetOfSeq, SeqMonotonic
<1>2. a = [k \in D |-> CHOOSE t \in ToSet(s) : Fits(s, t, k)]
  BY <1>1, AscendingIs
<1>3. \A k \in D : a[k] \in ToSet(s) /\ Fits(s, a[k], k)
  <2> SUFFICES ASSUME NEW k \in D PROVE a[k] \in ToSet(s) /\ Fits(s, a[k], k)
      OBVIOUS
  <2>1. \E t \in ToSet(s) : Fits(s, t, k)
    BY <1>1, PlaceIsFilled
  <2>2. a[k] = CHOOSE t \in ToSet(s) : Fits(s, t, k)
    BY <1>2
  <2> HIDE DEF a
  <2> QED BY <2>1, <2>2
<1>4. a \in [D -> S]
  BY <1>1, <1>2, <1>3
<1> HIDE DEF a
<1>5. a \in Seq(S) /\ Len(a) = Len(s) /\ DOMAIN a = D
  BY <1>1, <1>4
<1>6. ToSet(a) = ToSet(s)
  <2>1. ASSUME NEW t \in ToSet(s) PROVE \E k \in D : a[k] = t
    <3>a. t \in Nat
      BY <1>1
    <3>b. /\ Below(s, t) \in Nat /\ UpTo(s, t) \in Nat /\ UpTo(s, t) <= Len(s)
          /\ Below(s, t) < UpTo(s, t)
      BY <1>1, <3>a, PlacesAreCounted
    <3>1. UpTo(s, t) \in D /\ Fits(s, t, UpTo(s, t))
      BY <1>1, <3>b DEF Fits
    <3>2. a[UpTo(s, t)] \in Nat /\ Fits(s, a[UpTo(s, t)], UpTo(s, t))
      BY <1>1, <1>3, <3>1
    <3>3. a[UpTo(s, t)] = t
      BY <1>1, <3>a, <3>b, <3>1, <3>2, PlaceIsFilledOnce
    <3> QED BY <3>1, <3>3
  <2> QED BY <1>3, <1>5, <2>1 DEF ToSet
<1>7. ASSUME NEW i \in D, NEW j \in D, i < j PROVE a[i] <= a[j]
  <2>1. a[i] \in Nat /\ a[j] \in Nat
    BY <1>1, <1>3
  <2> SUFFICES ASSUME a[j] < a[i] PROVE FALSE
      BY <2>1
  <2>2. UpTo(s, a[j]) <= Below(s, a[i])
    BY <1>1, <2>1, PlacesAreCounted
  <2>3. Below(s, a[i]) < i /\ j <= UpTo(s, a[j])
    BY <1>3 DEF Fits
  <2>4. Below(s, a[i]) \in Nat /\ UpTo(s, a[j]) \in Nat
    BY <1>1, <2>1, PlacesAreCounted
  <2> QED BY <1>7, <2>2, <2>3, <2>4
<1>8. OneToOne(s) => OneToOne(a)
  <2> SUFFICES ASSUME OneToOne(s) PROVE OneToOne(a)
      OBVIOUS
  <2>1. IsFiniteSet(D)
    BY <1>1, FS_Interval
  <2>2. s \in Surjection(D, ToSet(s)) /\ a \in Surjection(D, ToSet(a))
    <3>1. s \in [D -> S] /\ DOMAIN s = D /\ a \in [D -> S] /\ DOMAIN a = D
      BY <1>1, <1>4, SetOfSeq
    <3> QED BY <3>1 DEF Surjection, ToSet
  <2>3. s \in Injection(D, ToSet(s))
    BY <1>1, <2>2 DEF OneToOne, Injection, Surjection, IsInjective
  <2>4. Cardinality(ToSet(s)) = Cardinality(D)
    BY <2>1, <2>2, <2>3, FS_Surjection
  <2>5. a \in Injection(D, ToSet(s))
    BY <1>6, <2>1, <2>2, <2>4, FS_Surjection
  <2> QED BY <1>5, <2>5 DEF OneToOne, Injection, IsInjective
<1> QED BY <1>5, <1>6, <1>7, <1>8 DEF a

LEMMA DescendingProperties ==
    ASSUME NEW S, NEW s \in Seq(S), NEW d \in Descending(s)
    PROVE  /\ d \in Seq(S) /\ Len(d) = Len(s) /\ ToSet(d) = ToSet(s)
           /\ \A i, j \in 1 .. Len(s) : i < j => Version[d[i]] >= Version[d[j]]
           /\ OneToOne(s) => OneToOne(d)
<1> DEFINE D == 1 .. Len(s)
<1>1. DOMAIN s = D /\ Len(s) \in Nat /\ s \in [D -> S]
  BY SetOfSeq
<1>2. IsFiniteSet(D) /\ Cardinality(D) = Len(s)
  BY <1>1, SizeOfInterval
<1>3. PICK p \in SetToSeqs(D) : d = [i \in D |-> s[p[i]]]
  BY <1>1 DEF Descending
<1>4. /\ p \in [D -> D] /\ \A i, j \in D : p[i] = p[j] => i = j
      /\ \A k \in D : \E i \in D : p[i] = k
  <2>1. /\ p \in Seq(D) /\ Len(p) = Len(s) /\ ToSet(p) = D /\ OneToOne(p)
    BY <1>2, SetToSeqsProperties
  <2>2. p \in [D -> D] /\ DOMAIN p = D
    BY <1>1, <2>1
  <2> QED BY <2>1, <2>2 DEF ToSet, OneToOne
<1>5. /\ d \in [D -> S] /\ DOMAIN d = D /\ \A i \in D : d[i] = s[p[i]]
  BY <1>1, <1>3, <1>4
<1>6. d \in Seq(S) /\ Len(d) = Len(s)
  BY <1>1, <1>5
<1>7. ToSet(d) = ToSet(s)
  <2>1. \A i \in D : d[i] \in ToSet(s)
    BY <1>1, <1>4, <1>5 DEF ToSet
  <2>2. ASSUME NEW k \in D PROVE s[k] \in ToSet(d)
    <3>1. PICK i \in D : p[i] = k
      BY <1>4
    <3> QED BY <1>5, <3>1 DEF ToSet
  <2> QED BY <1>1, <1>5, <2>1, <2>2 DEF ToSet
<1>8. \A i, j \in D : i < j => Version[d[i]] >= Version[d[j]]
  BY <1>1, <1>5 DEF Descending
<1>9. OneToOne(s) => OneToOne(d)
  BY <1>1, <1>4, <1>5 DEF OneToOne
<1> QED BY <1>6, <1>7, <1>8, <1>9

\* What the places from m to n have, and how much it can be
Slice(s, m, n) == {s[i] : i \in m .. n}

LEMMA SliceProperties ==
    ASSUME NEW S, NEW s \in Seq(S), NEW m \in Nat \ {0}, NEW n \in Nat,
           m <= n + 1, n <= Len(s)
    PROVE  /\ SubSeq(s, m, n) \in Seq(S) /\ Len(SubSeq(s, m, n)) = n - m + 1
           /\ \A i \in 1 .. n - m + 1 : SubSeq(s, m, n)[i] = s[m + i - 1]
           /\ ToSet(SubSeq(s, m, n)) = Slice(s, m, n)
           /\ Slice(s, m, n) \in SUBSET ToSet(s)
           /\ IsFiniteSet(Slice(s, m, n))
           /\ Cardinality(Slice(s, m, n)) \in Nat
           /\ Cardinality(Slice(s, m, n)) <= n - m + 1
           /\ OneToOne(s) => Cardinality(Slice(s, m, n)) = n - m + 1
<1> DEFINE r == SubSeq(s, m, n)
           D == m .. n
           f == [i \in D |-> s[i]]
<1>1. /\ DOMAIN s = 1 .. Len(s) /\ Len(s) \in Nat
      /\ \A i \in 1 .. Len(s) : s[i] \in S
      /\ D \subseteq 1 .. Len(s)
  BY SetOfSeq
<1>2. r \in Seq(S) /\ Len(r) = n - m + 1
      /\ \A i \in 1 .. n - m + 1 : r[i] = s[m + i - 1]
  <2>1. \A i \in m .. n : s[i] \in S
    BY <1>1
  <2>2. m \in Int /\ n \in Int
    OBVIOUS
  <2> HIDE DEF D
  <2> QED BY <2>1, <2>2, SubSeqProperties
<1> HIDE DEF r
<1>3. ToSet(r) = Slice(s, m, n)
  <2>1. DOMAIN r = 1 .. n - m + 1
    BY <1>2
  <2>2. ASSUME NEW i \in 1 .. n - m + 1 PROVE r[i] \in Slice(s, m, n)
    BY <1>2 DEF Slice
  <2>3. ASSUME NEW i \in m .. n PROVE s[i] \in ToSet(r)
    <3>1. i - m + 1 \in 1 .. n - m + 1 /\ m + (i - m + 1) - 1 = i
      OBVIOUS
    <3>2. r[i - m + 1] = s[i]
      BY <1>2, <3>1
    <3> QED BY <2>1, <3>1, <3>2 DEF ToSet
  <2> QED BY <2>1, <2>2, <2>3 DEF ToSet, Slice
<1>4. Slice(s, m, n) \in SUBSET ToSet(s)
  BY <1>1 DEF Slice, ToSet
<1>5. IsFiniteSet(D) /\ Cardinality(D) = n - m + 1
  <2>1. IsFiniteSet(m .. n) /\ Cardinality(m .. n) = IF m > n THEN 0 ELSE n - m + 1
    BY FS_Interval
  <2>2. m > n => n - m + 1 = 0
    OBVIOUS
  <2> QED BY <2>1, <2>2
<1>6. f \in Surjection(D, Slice(s, m, n))
  BY DEF Slice, Surjection
<1>7. OneToOne(s) => f \in Injection(D, Slice(s, m, n))
  BY <1>1 DEF OneToOne, Injection, IsInjective, Slice
<1> HIDE DEF f, D
<1>8. /\ IsFiniteSet(Slice(s, m, n))
      /\ Cardinality(Slice(s, m, n)) <= n - m + 1
      /\ OneToOne(s) => Cardinality(Slice(s, m, n)) = n - m + 1
  BY <1>5, <1>6, <1>7, FS_Surjection
<1> QED BY <1>2, <1>3, <1>4, <1>8, FS_CardinalityType DEF r

LEMMA SizeOfSeq ==
    ASSUME NEW S, NEW s \in Seq(S)
    PROVE  /\ IsFiniteSet(ToSet(s)) /\ Cardinality(ToSet(s)) \in Nat
           /\ Cardinality(ToSet(s)) <= Len(s)
           /\ OneToOne(s) => Cardinality(ToSet(s)) = Len(s)
<1>1. Len(s) \in Nat /\ SubSeq(s, 1, Len(s)) = s
  BY SetOfSeq, SubSeqFull
<1>2. /\ ToSet(SubSeq(s, 1, Len(s))) = Slice(s, 1, Len(s))
      /\ IsFiniteSet(Slice(s, 1, Len(s)))
      /\ Cardinality(Slice(s, 1, Len(s))) \in Nat
      /\ Cardinality(Slice(s, 1, Len(s))) <= Len(s) - 1 + 1
      /\ OneToOne(s) => Cardinality(Slice(s, 1, Len(s))) = Len(s) - 1 + 1
  BY <1>1, SliceProperties
<1>3. ToSet(s) = Slice(s, 1, Len(s))
  BY <1>1, <1>2, Zenon
<1>4. Len(s) - 1 + 1 = Len(s)
  BY <1>1
<1> QED BY <1>2, <1>3, <1>4

-----------------------------------------------------------------------------
(* Adding the items. The tag set has what the items so far say.            *)

TagSetType ==
    [verbatim : Seq(Tags), semver : SUBSET SUBSET (Tags \cup Nat),
     regex : SUBSET SUBSET Tags, keep : SUBSET SUBSET Tags, keepCount : Nat]

IsName(i) == i.prefix = ""
IsFilter(i) == IsKeep(i) /\ ~IsKeepCount(i)

NamesDiffer(l, k) ==
    \A i, j \in 1 .. k : IsName(l[i]) /\ IsName(l[j]) /\ l[i].set = l[j].set => i = j

\* The tag set c has what the first k items of the list l say.
Added(l, c, k) ==
    /\ c.semver = {l[i].set : i \in {j \in 1 .. k : IsSemver(l[j])}}
    /\ c.regex = {l[i].set : i \in {j \in 1 .. k : IsRegex(l[j])}}
    /\ c.keep = {l[i].set : i \in {j \in 1 .. k : IsFilter(l[j])}}
    /\ \A t : t \in ToSet(c.verbatim) <=> \E i \in 1 .. k : IsName(l[i]) /\ t \in l[i].set
    /\ NamesDiffer(l, k) => OneToOne(c.verbatim)
    /\ IF \E i \in 1 .. k : IsKeepCount(l[i])
       THEN \E i \in 1 .. k :
               /\ IsKeepCount(l[i]) /\ c.keepCount = l[i].n
               /\ \A j \in 1 .. k : IsKeepCount(l[j]) => j <= i
       ELSE c.keepCount = 0

AddingInv ==
    /\ items \in Lists
    /\ next \in 1 .. Len(items) + 1
    /\ ts \in TagSetType
    /\ Added(items, ts, next - 1)
    /\ pc \notin {"add", "rejected"} => next = Len(items) + 1

LEMMA ItemsAreTyped ==
    ASSUME items \in Lists
    PROVE  /\ Len(items) \in Nat /\ DOMAIN items = 1 .. Len(items)
           /\ \A i \in 1 .. Len(items) :
                 /\ items[i] \in Item
                 /\ items[i].prefix # "semver:" => items[i].set \subseteq Tags
                 /\ IsName(items[i]) => \E t \in Tags : items[i].set = {t}
<1>1. items \in Seq(Item)
  BY ListsAssumption
<1>2. /\ Len(items) \in Nat /\ DOMAIN items = 1 .. Len(items)
      /\ items \in [1 .. Len(items) -> Item]
  BY <1>1, SetOfSeq
<1> QED BY <1>2, ListsAssumption DEF IsName

LEMMA TagSetOf ==
    ASSUME NEW v \in Seq(Tags), NEW s \in SUBSET SUBSET (Tags \cup Nat),
           NEW r \in SUBSET SUBSET Tags, NEW k \in SUBSET SUBSET Tags, NEW n \in Nat
    PROVE  [verbatim |-> v, semver |-> s, regex |-> r, keep |-> k, keepCount |-> n]
              \in TagSetType
BY DEF TagSetType

\* What it takes for d to be the tag set c with item i added
IsAdded(d, c, i) ==
    /\ d \in TagSetType
    /\ d.semver = IF IsSemver(i) THEN c.semver \cup {i.set} ELSE c.semver
    /\ d.regex = IF IsRegex(i) THEN c.regex \cup {i.set} ELSE c.regex
    /\ d.keep = IF IsFilter(i) THEN c.keep \cup {i.set} ELSE c.keep
    /\ d.keepCount = IF IsKeepCount(i) THEN i.n ELSE c.keepCount
    /\ IF IsName(i)
       THEN \E t \in Tags : i.set = {t} /\ d.verbatim = Append(c.verbatim, t)
       ELSE d.verbatim = c.verbatim

LEMMA AddProperties ==
    ASSUME NEW c \in TagSetType, NEW i \in Item,
           i.prefix # "semver:" => i.set \subseteq Tags,
           IsName(i) => \E t \in Tags : i.set = {t}
    PROVE  IsAdded(Add(c, i), c, i)
<1> DEFINE d == Add(c, i)
<1> HIDE DEF d
<1> USE DEF IsName, IsFilter, IsSemver, IsRegex, IsKeep, IsKeepCount
<1>0. /\ i.prefix \in {"semver:", "regex:", "keep:", ""}
      /\ i.set \in SUBSET (Tags \cup Nat) /\ i.n \in Nat \cup {NoCount}
  BY DEF Item
<1>a. /\ c.verbatim \in Seq(Tags) /\ c.semver \in SUBSET SUBSET (Tags \cup Nat)
      /\ c.regex \in SUBSET SUBSET Tags /\ c.keep \in SUBSET SUBSET Tags
      /\ c.keepCount \in Nat
      /\ c = [verbatim |-> c.verbatim, semver |-> c.semver, regex |-> c.regex,
              keep |-> c.keep, keepCount |-> c.keepCount]
  BY DEF TagSetType
<1>1. ASSUME IsSemver(i) PROVE IsAdded(d, c, i)
  <2>1. d = [c EXCEPT !.semver = @ \cup {i.set}]
    BY <1>1 DEF Add, d
  <2>2. d = [verbatim |-> c.verbatim, semver |-> c.semver \cup {i.set},
                     regex |-> c.regex, keep |-> c.keep, keepCount |-> c.keepCount]
    BY <1>a, <2>1
  <2>3. c.semver \cup {i.set} \in SUBSET SUBSET (Tags \cup Nat)
    BY <1>0, <1>a
  <2>4. d \in TagSetType
    BY <1>a, <2>2, <2>3, TagSetOf
  <2> QED BY <1>1, <2>2, <2>4 DEF IsAdded
<1>2. ASSUME IsRegex(i) PROVE IsAdded(d, c, i)
  <2>1. d = [c EXCEPT !.regex = @ \cup {i.set}]
    BY <1>2 DEF Add, d
  <2>2. d = [verbatim |-> c.verbatim, semver |-> c.semver,
                     regex |-> c.regex \cup {i.set}, keep |-> c.keep,
                     keepCount |-> c.keepCount]
    BY <1>a, <2>1
  <2>3. c.regex \cup {i.set} \in SUBSET SUBSET Tags
    BY <1>2, <1>a
  <2>4. d \in TagSetType
    BY <1>a, <2>2, <2>3, TagSetOf
  <2> QED BY <1>2, <2>2, <2>4 DEF IsAdded
<1>3. ASSUME IsKeepCount(i) PROVE IsAdded(d, c, i)
  <2>1. d = [c EXCEPT !.keepCount = i.n]
    BY <1>3 DEF Add, SetKeepCount, d
  <2>2. d = [verbatim |-> c.verbatim, semver |-> c.semver,
                     regex |-> c.regex, keep |-> c.keep, keepCount |-> i.n]
    BY <1>a, <2>1
  <2>3. i.n \in Nat
    BY <1>0, <1>3 DEF NoCount
  <2>4. d \in TagSetType
    BY <1>a, <2>2, <2>3, TagSetOf
  <2> QED BY <1>3, <2>2, <2>4 DEF IsAdded
<1>4. ASSUME IsFilter(i) PROVE IsAdded(d, c, i)
  <2>1. d = [c EXCEPT !.keep = @ \cup {i.set}]
    BY <1>4 DEF Add, d
  <2>2. d = [verbatim |-> c.verbatim, semver |-> c.semver,
                     regex |-> c.regex, keep |-> c.keep \cup {i.set},
                     keepCount |-> c.keepCount]
    BY <1>a, <2>1
  <2>3. c.keep \cup {i.set} \in SUBSET SUBSET Tags
    BY <1>4, <1>a
  <2>4. d \in TagSetType
    BY <1>a, <2>2, <2>3, TagSetOf
  <2> QED BY <1>4, <2>2, <2>4 DEF IsAdded
<1>5. ASSUME IsName(i) PROVE IsAdded(d, c, i)
  <2>1. PICK t \in Tags : i.set = {t}
    BY <1>5
  <2>2. (CHOOSE u \in i.set : TRUE) = t
    BY <2>1
  <2>3. d = [c EXCEPT !.verbatim = Append(@, t)]
    BY <1>5, <2>2 DEF Add, d
  <2>4. d = [verbatim |-> Append(c.verbatim, t), semver |-> c.semver,
                     regex |-> c.regex, keep |-> c.keep, keepCount |-> c.keepCount]
    BY <1>a, <2>3
  <2>5. Append(c.verbatim, t) \in Seq(Tags)
    BY <1>a, AppendProperties
  <2>6. d \in TagSetType
    BY <1>a, <2>4, <2>5, TagSetOf
  <2>7. d.verbatim = Append(c.verbatim, t)
    BY <2>4
  <2> QED BY <1>5, <2>1, <2>4, <2>6, <2>7 DEF IsAdded
<1>6. IsAdded(d, c, i)
  BY <1>0, <1>1, <1>2, <1>3, <1>4, <1>5
<1> QED BY <1>6 DEF d

LEMMA InitAddingInv == Init => AddingInv
<1> SUFFICES ASSUME Init PROVE AddingInv
    OBVIOUS
<1>1. items \in Lists /\ next = 1 /\ pc = "add" /\ next - 1 = 0
  BY DEF Init
<1>2. ts = [verbatim |-> <<>>, semver |-> {}, regex |-> {}, keep |-> {}, keepCount |-> 0]
  BY DEF Init
<1>3. ts \in TagSetType
  BY <1>2 DEF TagSetType
<1>4. Len(items) \in Nat
  BY <1>1, ItemsAreTyped
<1>5. Added(items, ts, 0)
  BY <1>2 DEF Added, ToSet, OneToOne
<1> QED BY <1>1, <1>3, <1>4, <1>5 DEF AddingInv

\* One more item, for a tag set c and a list l
LEMMA AddedOneMore ==
    ASSUME NEW c \in TagSetType, NEW k \in Nat, NEW l \in Seq(Item),
           k + 1 \in 1 .. Len(l),
           Added(l, c, k),
           \A i \in 1 .. Len(l) :
              /\ l[i].prefix # "semver:" => l[i].set \subseteq Tags
              /\ IsName(l[i]) => \E t \in Tags : l[i].set = {t}
    PROVE  Add(c, l[k + 1]) \in TagSetType /\ Added(l, Add(c, l[k + 1]), k + 1)
<1> DEFINE m == k + 1
           i == l[m]
           d == Add(c, i)
<1>1. i \in Item
  BY SetOfSeq
<1>2. IsAdded(d, c, i)
  BY <1>1, AddProperties
<1>3. /\ m \in Nat /\ 1 .. m = (1 .. k) \cup {m} /\ m \notin 1 .. k /\ i = l[m]
      /\ m \in 1 .. Len(l) /\ 1 .. k \subseteq 1 .. Len(l) /\ \A j \in 1 .. m : j <= m
  BY LenProperties
<1> HIDE DEF d, i, m
<1>4. d.semver = {l[n].set : n \in {j \in 1 .. m : IsSemver(l[j])}}
  <2>1. c.semver = {l[n].set : n \in {j \in 1 .. k : IsSemver(l[j])}}
    BY DEF Added
  <2>2. d.semver = IF IsSemver(l[m]) THEN c.semver \cup {l[m].set} ELSE c.semver
    BY <1>2, <1>3 DEF IsAdded
  <2>3. {j \in 1 .. m : IsSemver(l[j])} =
          {j \in 1 .. k : IsSemver(l[j])} \cup (IF IsSemver(l[m]) THEN {m} ELSE {})
    BY <1>3
  <2> QED BY <2>1, <2>2, <2>3
<1>5. d.regex = {l[n].set : n \in {j \in 1 .. m : IsRegex(l[j])}}
  <2>1. c.regex = {l[n].set : n \in {j \in 1 .. k : IsRegex(l[j])}}
    BY DEF Added
  <2>2. d.regex = IF IsRegex(l[m]) THEN c.regex \cup {l[m].set} ELSE c.regex
    BY <1>2, <1>3 DEF IsAdded
  <2>3. {j \in 1 .. m : IsRegex(l[j])} =
          {j \in 1 .. k : IsRegex(l[j])} \cup (IF IsRegex(l[m]) THEN {m} ELSE {})
    BY <1>3
  <2> QED BY <2>1, <2>2, <2>3
<1>6. d.keep = {l[n].set : n \in {j \in 1 .. m : IsFilter(l[j])}}
  <2>1. c.keep = {l[n].set : n \in {j \in 1 .. k : IsFilter(l[j])}}
    BY DEF Added
  <2>2. d.keep = IF IsFilter(l[m]) THEN c.keep \cup {l[m].set} ELSE c.keep
    BY <1>2, <1>3 DEF IsAdded
  <2>3. {j \in 1 .. m : IsFilter(l[j])} =
          {j \in 1 .. k : IsFilter(l[j])} \cup (IF IsFilter(l[m]) THEN {m} ELSE {})
    BY <1>3
  <2> QED BY <2>1, <2>2, <2>3
<1>7. /\ \A t : t \in ToSet(d.verbatim) <=>
                   \E n \in 1 .. m : IsName(l[n]) /\ t \in l[n].set
      /\ NamesDiffer(l, m) => OneToOne(d.verbatim)
  <2>0. NamesDiffer(l, m) => NamesDiffer(l, k)
    BY <1>3 DEF NamesDiffer
  <2>1. /\ \A t : t \in ToSet(c.verbatim) <=>
                   \E n \in 1 .. k : IsName(l[n]) /\ t \in l[n].set
        /\ NamesDiffer(l, m) => OneToOne(c.verbatim)
    BY <2>0 DEF Added
  <2>2. CASE ~IsName(i)
    BY <1>2, <1>3, <2>1, <2>2 DEF IsAdded
  <2>3. CASE IsName(i)
    <3>1. PICK t \in Tags : i.set = {t} /\ d.verbatim = Append(c.verbatim, t)
      BY <1>2, <2>3 DEF IsAdded
    <3> DEFINE v == c.verbatim
               w == d.verbatim
    <3>a. v \in Seq(Tags)
      BY DEF TagSetType
    <3>2. /\ Len(v) \in Nat /\ DOMAIN v = 1 .. Len(v)
          /\ w \in Seq(Tags) /\ DOMAIN w = 1 .. Len(v) + 1
          /\ \A j \in 1 .. Len(v) : w[j] = v[j]
          /\ w[Len(v) + 1] = t
      <4>1. w = Append(v, t) /\ w \in Seq(Tags) /\ Len(w) = Len(v) + 1
        BY <3>a, <3>1, AppendProperties
      <4>2. /\ \A j \in 1 .. Len(v) : w[j] = v[j]
            /\ w[Len(v) + 1] = t
        BY <3>a, <4>1, AppendProperties
      <4> QED BY <3>a, <4>1, <4>2, SetOfSeq
    <3> HIDE DEF v, w
    <3>3. ToSet(w) = ToSet(v) \cup {t}
      <4>1. 1 .. Len(v) + 1 = (1 .. Len(v)) \cup {Len(v) + 1}
        BY <3>2
      <4> QED BY <3>2, <4>1 DEF ToSet
    <3>4. \A u : u \in ToSet(w) <=> \E n \in 1 .. m : IsName(l[n]) /\ u \in l[n].set
      <4> SUFFICES ASSUME NEW u
                   PROVE  u \in ToSet(w) <=> \E n \in 1 .. m : IsName(l[n]) /\ u \in l[n].set
          OBVIOUS
      <4>1. u \in ToSet(w) <=> u \in ToSet(v) \/ u = t
        BY <3>3
      <4>2. u \in ToSet(v) <=> \E n \in 1 .. k : IsName(l[n]) /\ u \in l[n].set
        BY <2>1 DEF v
      <4>3. IsName(l[m]) /\ (u \in l[m].set <=> u = t)
        BY <1>3, <2>3, <3>1
      <4> QED BY <1>3, <4>1, <4>2, <4>3
    <3>5. ASSUME NamesDiffer(l, m) PROVE OneToOne(w)
      <4>1. OneToOne(v)
        BY <2>1, <3>5 DEF v
      <4>2. t \notin ToSet(v)
        <5> SUFFICES ASSUME t \in ToSet(v) PROVE FALSE
            OBVIOUS
        <5>1. PICK j \in 1 .. k : IsName(l[j]) /\ t \in l[j].set
          BY <2>1 DEF v
        <5>2. l[j].set = l[m].set
          BY <1>3, <3>1, <5>1
        <5>3. j = m
          BY <1>3, <2>3, <3>5, <5>1, <5>2 DEF NamesDiffer
        <5> QED BY <1>3, <5>3
      <4>3. \A j \in 1 .. Len(v) : v[j] # t
        BY <3>2, <4>2 DEF ToSet
      <4> QED BY <3>2, <4>1, <4>3 DEF OneToOne
    <3> QED BY <3>4, <3>5 DEF w
  <2> QED BY <2>2, <2>3
<1>8. IF \E j \in 1 .. m : IsKeepCount(l[j])
      THEN \E j \in 1 .. m :
              /\ IsKeepCount(l[j]) /\ d.keepCount = l[j].n
              /\ \A n \in 1 .. m : IsKeepCount(l[n]) => n <= j
      ELSE d.keepCount = 0
  <2>1. CASE IsKeepCount(i)
    <3>1. m \in 1 .. m /\ IsKeepCount(l[m]) /\ d.keepCount = l[m].n
      BY <1>2, <1>3, <2>1 DEF IsAdded
    <3> QED BY <1>3, <3>1
  <2>2. CASE ~IsKeepCount(i)
    <3>1. d.keepCount = c.keepCount
      BY <1>2, <2>2 DEF IsAdded
    <3>2. \A j \in 1 .. m : IsKeepCount(l[j]) => j \in 1 .. k
      BY <1>3, <2>2
    <3>3. IF \E j \in 1 .. k : IsKeepCount(l[j])
          THEN \E j \in 1 .. k :
                  /\ IsKeepCount(l[j]) /\ c.keepCount = l[j].n
                  /\ \A n \in 1 .. k : IsKeepCount(l[n]) => n <= j
          ELSE c.keepCount = 0
      BY DEF Added
    <3> QED BY <1>3, <3>1, <3>2, <3>3
  <2> QED BY <2>1, <2>2
<1>9. Added(l, d, m)
  BY <1>4, <1>5, <1>6, <1>7, <1>8 DEF Added
<1> QED BY <1>2, <1>9 DEF IsAdded, d, i, m

LEMMA NextAddingInv == AddingInv /\ [Next]_vars => AddingInv'
<1> SUFFICES ASSUME AddingInv, [Next]_vars PROVE AddingInv'
    OBVIOUS
<1> USE DEF AddingInv
<1>0. items \in Seq(Item) /\ Len(items) \in Nat /\ next \in Nat
  <2>1. items \in Lists /\ next \in 1 .. Len(items) + 1
    OBVIOUS
  <2>2. items \in Seq(Item) /\ Len(items) \in Nat
    BY <2>1, ListsAssumption, ItemsAreTyped
  <2> QED BY <2>1, <2>2
<1>1. CASE AddItem
  <2>1. CASE Malformed(items[next])
    BY <1>1, <2>1 DEF AddItem
  <2>2. CASE ~Malformed(items[next])
    <3>1. /\ items' = items /\ ts' = Add(ts, items[next]) /\ next' = next + 1
          /\ pc' = "add" /\ next <= Len(items)
      BY <1>1, <2>2 DEF AddItem
    <3>2. next - 1 \in Nat /\ (next - 1) + 1 = next /\ next \in 1 .. Len(items)
      BY <1>0, <3>1
    <3>3. ts' \in TagSetType /\ Added(items, ts', next)
      BY <1>0, <3>1, <3>2, AddedOneMore, ItemsAreTyped
    <3>4. next' - 1 = next /\ next' \in 1 .. Len(items) + 1
      BY <1>0, <3>1, <3>2
    <3> QED BY <3>1, <3>3, <3>4
  <2> QED BY <2>1, <2>2
<1>2. CASE AllAdded
  BY <1>0, <1>2 DEF AllAdded
<1>3. ASSUME UNCHANGED <<items, next, ts>>,
             pc \in {"add", "rejected"} => pc' \in {"add", "rejected"}
      PROVE  AddingInv'
  BY <1>3
<1>4. CASE Expand \/ ExpandFails
  BY <1>3, <1>4 DEF Expand, ExpandFails
<1>5. CASE Partition \/ CutSemvers \/ CutStrings
  BY <1>3, <1>5 DEF Partition, CutSemvers, CutStrings
<1>6. CASE UNCHANGED vars
  BY <1>3, <1>6 DEF vars
<1> QED BY <1>1, <1>2, <1>4, <1>5, <1>6 DEF Next

-----------------------------------------------------------------------------
(* What the tag set means: what the items say, all of them having been     *)
(* added.                                                                  *)

LEMMA WantedIs ==
    ASSUME items \in Lists
    PROVE  \A i : i \in Wanted <=> \E k \in 1 .. Len(items) : i = items[k]
BY ItemsAreTyped DEF Wanted, ToSet

LEMMA MeaningOfEmpty ==
    ASSUME AddingInv, next = Len(items) + 1
    PROVE  /\ HasSemver(ts) <=> \E i \in Wanted : i.prefix = "semver:"
           /\ HasRegex(ts) <=> \E i \in Wanted : i.prefix = "regex:"
           /\ IsEmpty(ts) <=> \A i \in Wanted : i.prefix = "keep:"
<1>1. /\ items \in Lists /\ ts \in TagSetType /\ Added(items, ts, Len(items))
      /\ Len(items) \in Nat
  BY ItemsAreTyped DEF AddingInv
<1>2. HasSemver(ts) <=> \E i \in Wanted : i.prefix = "semver:"
  <2>1. ts.semver # {} <=> \E k \in 1 .. Len(items) : IsSemver(items[k])
    BY <1>1 DEF Added
  <2> QED BY <1>1, <2>1, WantedIs DEF HasSemver, IsSemver
<1>3. HasRegex(ts) <=> \E i \in Wanted : i.prefix = "regex:"
  <2>1. ts.regex # {} <=> \E k \in 1 .. Len(items) : IsRegex(items[k])
    BY <1>1 DEF Added
  <2> QED BY <1>1, <2>1, WantedIs DEF HasRegex, IsRegex
<1>4. ts.verbatim = <<>> <=> \A i \in Wanted : i.prefix # ""
  <2>1. ts.verbatim \in Seq(Tags)
    BY <1>1 DEF TagSetType
  <2>2. ts.verbatim = <<>> <=> \A t : t \notin ToSet(ts.verbatim)
    <3>1. ts.verbatim = <<>> <=> Len(ts.verbatim) = 0
      BY <2>1, EmptySeq
    <3>2. /\ Len(ts.verbatim) \in Nat
          /\ \A t : t \in ToSet(ts.verbatim) <=>
                     \E i \in 1 .. Len(ts.verbatim) : t = ts.verbatim[i]
      BY <2>1, SetOfSeq
    <3>3. Len(ts.verbatim) # 0 => ts.verbatim[1] \in ToSet(ts.verbatim)
      BY <3>2
    <3>4. Len(ts.verbatim) = 0 => \A t : t \notin ToSet(ts.verbatim)
      BY <3>2
    <3> QED BY <3>1, <3>3, <3>4
  <2>3. (\A t : t \notin ToSet(ts.verbatim)) <=>
            \A k \in 1 .. Len(items) : IsName(items[k]) => \A t : t \notin items[k].set
    BY <1>1 DEF Added
  <2>4. \A k \in 1 .. Len(items) : IsName(items[k]) => \E t : t \in items[k].set
    BY <1>1, ItemsAreTyped
  <2>5. ts.verbatim = <<>> <=> \A k \in 1 .. Len(items) : ~IsName(items[k])
    BY <2>2, <2>3, <2>4
  <2>6. (\A k \in 1 .. Len(items) : ~IsName(items[k])) <=> \A i \in Wanted : i.prefix # ""
    BY <1>1, WantedIs DEF IsName
  <2> QED BY <2>5, <2>6
<1>5. \A i \in Wanted : i.prefix \in {"semver:", "regex:", "keep:", ""}
  <2>1. \A k \in 1 .. Len(items) : items[k] \in Item
    BY <1>1, ItemsAreTyped
  <2>2. \A k \in 1 .. Len(items) : items[k].prefix \in {"semver:", "regex:", "keep:", ""}
    BY <2>1 DEF Item
  <2> QED BY <1>1, <2>2, WantedIs
<1> QED BY <1>2, <1>3, <1>4, <1>5 DEF IsEmpty

LEMMA MeaningOfFilters ==
    ASSUME AddingInv, next = Len(items) + 1, NEW t \in Tags
    PROVE  /\ (Semver(t) /\ \E range \in ts.semver : Version[t] \in range) <=>
                  \E i \in Wanted : i.prefix = "semver:" /\ Version[t] \in i.set
           /\ (\E r \in ts.regex : t \in r) <=>
                  \E i \in Wanted : i.prefix = "regex:" /\ t \in i.set
           /\ KeepTag(ts, t) <=>
                  \A i \in Wanted : i.prefix = "keep:" /\ ~IsKeepCount(i) => t \in i.set
<1>1. /\ items \in Lists /\ ts \in TagSetType /\ Added(items, ts, Len(items))
      /\ Len(items) \in Nat
  BY ItemsAreTyped DEF AddingInv
<1>2. (\E range \in ts.semver : Version[t] \in range) <=>
          \E i \in Wanted : i.prefix = "semver:" /\ Version[t] \in i.set
  BY <1>1, WantedIs DEF Added, IsSemver
<1>3. ~Semver(t) => \A range \in ts.semver : Version[t] \notin range
  <2>1. \A range \in ts.semver : range \subseteq Nat
    BY <1>1, TagsAssumption DEF TagSetType
  <2> QED BY <2>1 DEF Semver, NoVersion
<1>4. (\E r \in ts.regex : t \in r) <=>
          \E i \in Wanted : i.prefix = "regex:" /\ t \in i.set
  BY <1>1, WantedIs DEF Added, IsRegex
<1>5. KeepTag(ts, t) <=>
          \A i \in Wanted : i.prefix = "keep:" /\ ~IsKeepCount(i) => t \in i.set
  BY <1>1, WantedIs DEF KeepTag, Added, IsFilter, IsKeep
<1> QED BY <1>2, <1>3, <1>4, <1>5

LEMMA MeaningOfExpanded ==
    ASSUME AddingInv, next = Len(items) + 1, listed \subseteq Tags,
           ~NeedsExpansion(ts) => listed = {}
    PROVE  {t \in Expanded(ts, listed) : KeepTag(ts, t)} = Filtered
<1>1. ASSUME NEW t \in listed, NeedsExpansion(ts)
      PROVE  t \in Expanded(ts, listed) <=>
                 \/ \A i \in Wanted : i.prefix = "keep:"
                 \/ \E i \in Wanted : i.prefix = "semver:" /\ Version[t] \in i.set
                 \/ \E i \in Wanted : i.prefix = "regex:" /\ t \in i.set
  <2>1. t \in Tags
    OBVIOUS
  <2>2. t \in ExpandSemver(ts, listed) <=>
            \E i \in Wanted : i.prefix = "semver:" /\ Version[t] \in i.set
    BY <2>1, MeaningOfFilters DEF ExpandSemver
  <2>3. t \in ExpandRegex(ts, listed) <=>
            \E i \in Wanted : i.prefix = "regex:" /\ t \in i.set
    BY <2>1, MeaningOfFilters DEF ExpandRegex
  <2>4. CASE ~HasSemver(ts) /\ ~HasRegex(ts)
    <3>1. \A i \in Wanted : i.prefix = "keep:"
      BY <1>1, <2>4, MeaningOfEmpty DEF NeedsExpansion
    <3> QED BY <1>1, <2>4, <3>1 DEF Expanded
  <2>5. CASE HasSemver(ts) \/ HasRegex(ts)
    <3>1. ~ \A i \in Wanted : i.prefix = "keep:"
      BY <2>5, MeaningOfEmpty
    <3> QED BY <1>1, <2>2, <2>3, <2>5, <3>1 DEF Expanded
  <2> QED BY <2>4, <2>5
<1>2. Expanded(ts, listed) \subseteq listed
  BY DEF Expanded, ExpandSemver, ExpandRegex
<1>3. \A t \in listed : NeedsExpansion(ts)
  OBVIOUS
<1>4. \A t \in listed : KeepTag(ts, t) <=>
          \A i \in Wanted : i.prefix = "keep:" /\ ~IsKeepCount(i) => t \in i.set
  BY MeaningOfFilters
<1> QED BY <1>1, <1>2, <1>3, <1>4 DEF Filtered

LEMMA MeaningOfVerbatim ==
    ASSUME AddingInv, next = Len(items) + 1
    PROVE  /\ ToSet(ts.verbatim) = Verbatim
           /\ NoneTwice => OneToOne(ts.verbatim)
           /\ ts.keepCount = Limit
<1>1. /\ items \in Lists /\ ts \in TagSetType /\ Added(items, ts, Len(items))
      /\ Len(items) \in Nat /\ DOMAIN items = 1 .. Len(items)
  BY ItemsAreTyped DEF AddingInv
<1>2. ToSet(ts.verbatim) = Verbatim
  <2>1. \A t : t \in Verbatim <=> \E i \in Wanted : i.prefix = "" /\ t \in i.set
    BY DEF Verbatim
  <2>2. \A t : t \in ToSet(ts.verbatim) <=>
            \E k \in 1 .. Len(items) : IsName(items[k]) /\ t \in items[k].set
    BY <1>1 DEF Added
  <2>3. \A t : t \in ToSet(ts.verbatim) <=> t \in Verbatim
    <3>1. \A t : (\E i \in Wanted : i.prefix = "" /\ t \in i.set) <=>
                    \E k \in 1 .. Len(items) : IsName(items[k]) /\ t \in items[k].set
      BY <1>1, WantedIs DEF IsName
    <3> QED BY <2>1, <2>2, <3>1
  <2> QED BY <2>3
<1>3. NoneTwice => OneToOne(ts.verbatim)
  <2>1. NoneTwice => NamesDiffer(items, Len(items))
    BY <1>1 DEF NoneTwice, NamesDiffer, IsName
  <2> QED BY <1>1, <2>1 DEF Added
<1>4. ts.keepCount = Limit
  <2>1. CASE LimitItems = {}
    BY <1>1, <2>1 DEF Added, LimitItems, Limit
  <2>2. CASE LimitItems # {}
    <3>1. PICK i \in 1 .. Len(items) :
             /\ IsKeepCount(items[i]) /\ ts.keepCount = items[i].n
             /\ \A j \in 1 .. Len(items) : IsKeepCount(items[j]) => j <= i
      BY <1>1, <2>2 DEF Added, LimitItems
    <3>2. i \in LimitItems /\ \A j \in LimitItems : j <= i
      BY <1>1, <3>1 DEF LimitItems
    <3>3. (CHOOSE l \in LimitItems : \A j \in LimitItems : j <= l) = i
      <4>1. \A l \in LimitItems : l \in Nat
        BY <1>1 DEF LimitItems
      <4>2. \A l \in LimitItems : (\A j \in LimitItems : j <= l) => l = i
        BY <3>2, <4>1
      <4> QED BY <3>2, <4>2
    <3> QED BY <2>2, <3>1, <3>3 DEF Limit
  <2> QED BY <2>1, <2>2
<1> QED BY <1>2, <1>3, <1>4

-----------------------------------------------------------------------------
(* The inductive invariant.                                                *)

\* Before reduce() there is nothing in its variables.
IdleInv ==
    pc \notin {"reduce", "done"} =>
        listed = {} /\ tags = <<>> /\ ix = 1 /\ pivot = 0 /\ vers = <<>>

\* Where reduce() is in the slice: what it has looked at is either left of the
\* pivot or in vers.
PlaceInv ==
    /\ tags \in Seq(Tags) /\ vers \in Seq(Tags)
    /\ ix \in Nat /\ pivot \in Nat /\ ix - 1 = pivot + Len(vers)
    /\ pc # "done" => ix <= Len(tags) + 1

\* If no tag gets into the slice twice, there is none in it twice at any time.
ReduceInv ==
    pc = "reduce" =>
        /\ ToSet(tags) = Selected
        /\ \A i \in 1 .. pivot : ~Semver(tags[i])
        /\ \A i \in pivot + 1 .. ix - 1 : Semver(tags[i])
        /\ Slice(tags, pivot + 1, ix - 1) = ToSet(vers)
        /\ ts.keepCount > 0
        /\ NoneTwice => OneToOne(tags) /\ OneToOne(vers)

IInv ==
    /\ pc \in {"add", "rejected", "expand", "reduce", "done", "failed"}
    /\ AddingInv
    /\ listed \subseteq Tags
    /\ IdleInv
    /\ PlaceInv
    /\ ReduceInv
    /\ KeepsLatest
    /\ NeverTooMany

\* That the whole set is left when there is no limit, or that is not reached
LEMMA AllOfFew ==
    ASSUME NEW S, IsFiniteSet(S), NEW n \in Nat, Cardinality(S) <= n
    PROVE  S \in Latest(n, S)
BY FS_CardinalityType DEF Latest

\* What is promised of the result, as a set
Promised(T) ==
    /\ NoneTwice => T \in Limited(Limit, Selected)
    /\ Limit > 0 =>
          LET semvers == {t \in Selected : Semver(t)}
              limited == IF semvers = {} THEN Selected ELSE semvers
              kept == T \cap limited
          IN  /\ Cardinality(kept) <= Limit
              /\ T = (Selected \ limited) \cup kept
              /\ \A t \in kept, u \in limited \ kept : Newer(t, u)

LEMMA KeepsPromise ==
    ASSUME UNCHANGED <<items, listed>>, Promised(ToSet(tags'))
    PROVE  KeepsLatest' /\ NeverTooMany'
<1>1. Selected' = Selected /\ Limit' = Limit /\ NoneTwice' = NoneTwice
  BY DEF Selected, Filtered, Verbatim, Wanted, Limit, LimitItems, NoneTwice
<1> QED BY <1>1 DEF Promised, KeepsLatest, NeverTooMany

LEMMA PromisedWithSemvers ==
    ASSUME NEW K, Limit \in Nat \ {0},
           {t \in Selected : Semver(t)} # {},
           K \subseteq {t \in Selected : Semver(t)},
           Cardinality(K) <= Limit,
           \A t \in K, u \in {x \in Selected : Semver(x)} \ K : Newer(t, u),
           NoneTwice => K \in Latest(Limit, {t \in Selected : Semver(t)})
    PROVE  Promised({t \in Selected : ~Semver(t)} \cup K)
<1> DEFINE semvers == {t \in Selected : Semver(t)}
           T == {t \in Selected : ~Semver(t)} \cup K
<1>1. T = (Selected \ semvers) \cup K /\ T \cap semvers = K
  OBVIOUS
<1>2. NoneTwice => T \in Limited(Limit, Selected)
  BY <1>1 DEF Limited
<1> QED BY <1>1, <1>2 DEF Promised

LEMMA PromisedWithStrings ==
    ASSUME NEW T, Limit \in Nat \ {0}, {t \in Selected : Semver(t)} = {},
           T \subseteq Selected,
           Cardinality(T) <= Limit,
           \A t \in T, u \in Selected \ T : Newer(t, u),
           NoneTwice => T \in Latest(Limit, Selected)
    PROVE  Promised(T)
<1>1. T \cap Selected = T /\ (Selected \ Selected) \cup T = T
  OBVIOUS
<1>2. NoneTwice => T \in Limited(Limit, Selected)
  BY DEF Limited
<1> QED BY <1>1, <1>2 DEF Promised

\* What Expand comes up with
LEMMA SliceToReduce ==
    ASSUME AddingInv, next = Len(items) + 1, listed \subseteq Tags,
           ~NeedsExpansion(ts) => listed = {},
           NEW order \in SetToSeqs({t \in Expanded(ts, listed) : KeepTag(ts, t)})
    PROVE  /\ order \o ts.verbatim \in Seq(Tags)
           /\ ToSet(order \o ts.verbatim) = Selected
           /\ NoneTwice => OneToOne(order \o ts.verbatim)
<1> DEFINE v == ts.verbatim
           w == order \o v
<1>1. order \in SetToSeqs(Filtered) /\ Filtered \subseteq Tags
  BY MeaningOfExpanded DEF Filtered
<1>2. IsFiniteSet(Filtered)
  BY <1>1, TagsAssumption, FS_Subset
<1>3. /\ order \in Seq(Tags) /\ ToSet(order) = Filtered /\ OneToOne(order)
  BY <1>1, <1>2, SetToSeqsProperties, SeqMonotonic
<1>4. v \in Seq(Tags)
  BY DEF AddingInv, TagSetType
<1>5. ToSet(v) = Verbatim /\ (NoneTwice => OneToOne(v))
  BY MeaningOfVerbatim
<1> HIDE DEF v
<1>6. /\ Len(order) \in Nat /\ Len(v) \in Nat
      /\ DOMAIN order = 1 .. Len(order) /\ DOMAIN v = 1 .. Len(v)
  BY <1>3, <1>4, SetOfSeq
<1>7. /\ w \in Seq(Tags) /\ DOMAIN w = 1 .. Len(order) + Len(v)
      /\ \A i \in 1 .. Len(order) : w[i] = order[i]
      /\ \A i \in 1 .. Len(v) : w[Len(order) + i] = v[i]
  <2>1. w \in Seq(Tags) /\ Len(w) = Len(order) + Len(v)
    BY <1>3, <1>4, ConcatProperties
  <2>2. \A i \in 1 .. Len(order) + Len(v) :
           w[i] = IF i <= Len(order) THEN order[i] ELSE v[i - Len(order)]
    BY <1>3, <1>4, ConcatProperties
  <2> HIDE DEF w
  <2>3. ASSUME NEW i \in 1 .. Len(v) PROVE w[Len(order) + i] = v[i]
    <3>1. /\ Len(order) + i \in 1 .. Len(order) + Len(v)
          /\ ~(Len(order) + i <= Len(order)) /\ (Len(order) + i) - Len(order) = i
      BY <1>6
    <3> QED BY <2>2, <3>1
  <2>4. ASSUME NEW i \in 1 .. Len(order) PROVE w[i] = order[i]
    BY <1>6, <2>2
  <2> QED BY <2>1, <2>3, <2>4, SetOfSeq
<1> HIDE DEF w
<1>8. \A i \in DOMAIN w : i \in 1 .. Len(order) \/ \E j \in 1 .. Len(v) : i = Len(order) + j
  <2> SUFFICES ASSUME NEW i \in 1 .. Len(order) + Len(v), i > Len(order)
               PROVE  \E j \in 1 .. Len(v) : i = Len(order) + j
      BY <1>6, <1>7
  <2>1. i - Len(order) \in 1 .. Len(v) /\ i = Len(order) + (i - Len(order))
    BY <1>6
  <2> QED BY <2>1
<1>9. ToSet(w) = ToSet(order) \cup ToSet(v)
  <2>1. \A i \in 1 .. Len(order) : i \in DOMAIN w
    BY <1>6, <1>7
  <2>2. \A i \in 1 .. Len(v) : Len(order) + i \in DOMAIN w
    BY <1>6, <1>7
  <2>3. \A x \in ToSet(w) : x \in ToSet(order) \/ x \in ToSet(v)
    BY <1>6, <1>7, <1>8 DEF ToSet
  <2>4. \A x \in ToSet(order) : x \in ToSet(w)
    BY <1>6, <1>7, <2>1 DEF ToSet
  <2>5. \A x \in ToSet(v) : x \in ToSet(w)
    BY <1>6, <1>7, <2>2 DEF ToSet
  <2> QED BY <2>3, <2>4, <2>5
<1>10. ASSUME NoneTwice PROVE OneToOne(w)
  <2>1. \A i \in 1 .. Len(order), j \in 1 .. Len(v) : order[i] # v[j]
    <3>1. Filtered \cap Verbatim = {}
      BY <1>10 DEF NoneTwice
    <3> QED BY <1>3, <1>5, <1>6, <3>1 DEF ToSet
  <2> SUFFICES ASSUME NEW i \in DOMAIN w, NEW j \in DOMAIN w, w[i] = w[j]
               PROVE  i = j
      BY DEF OneToOne
  <2>2. CASE i \in 1 .. Len(order) /\ j \in 1 .. Len(order)
    BY <1>3, <1>6, <1>7, <2>2 DEF OneToOne
  <2>3. CASE i \in 1 .. Len(order) /\ j \notin 1 .. Len(order)
    BY <1>7, <1>8, <2>1, <2>3
  <2>4. CASE i \notin 1 .. Len(order) /\ j \in 1 .. Len(order)
    BY <1>7, <1>8, <2>1, <2>4
  <2>5. CASE i \notin 1 .. Len(order) /\ j \notin 1 .. Len(order)
    <3>1. PICK k \in 1 .. Len(v) : i = Len(order) + k
      BY <1>8, <2>5
    <3>2. PICK l \in 1 .. Len(v) : j = Len(order) + l
      BY <1>8, <2>5
    <3>3. v[k] = v[l]
      BY <1>7, <3>1, <3>2
    <3> QED BY <1>5, <1>6, <1>10, <3>1, <3>2, <3>3 DEF OneToOne
  <2> QED BY <2>2, <2>3, <2>4, <2>5
<1>11. ToSet(w) = Selected
  BY <1>3, <1>5, <1>9 DEF Selected
<1> QED BY <1>7, <1>10, <1>11 DEF w, v

\* The same of the tags Expand has come up with: a lemma about any state, thus
\* about the next one, too
ExpandedInv ==
    /\ AddingInv /\ next = Len(items) + 1
    /\ listed \subseteq Tags
    /\ ~NeedsExpansion(ts) => listed = {}

SliceOf(order) ==
    /\ order \o ts.verbatim \in Seq(Tags)
    /\ ToSet(order \o ts.verbatim) = Selected
    /\ NoneTwice => OneToOne(order \o ts.verbatim)
    /\ ts.keepCount = Limit

LEMMA SliceIs ==
    ExpandedInv =>
        \A order \in SetToSeqs({t \in Expanded(ts, listed) : KeepTag(ts, t)}) : SliceOf(order)
BY SliceToReduce, MeaningOfVerbatim DEF ExpandedInv, SliceOf

LEMMA SliceIsNext ==
    ExpandedInv' =>
        (\A order \in SetToSeqs({t \in Expanded(ts, listed) : KeepTag(ts, t)}) : SliceOf(order))'
BY SliceIs, PTL

LEMMA ExpandKeepsIInv == IInv /\ Expand => IInv'
<1> SUFFICES ASSUME IInv, Expand PROVE IInv'
    OBVIOUS
<1>1. /\ pc = "expand" /\ UNCHANGED <<items, next, ts, ix, pivot, vers>>
      /\ ix = 1 /\ pivot = 0 /\ vers = <<>>
  BY DEF IInv, IdleInv, Expand
<1>a. PICK found \in IF NeedsExpansion(ts) THEN Listings ELSE {{}} :
         /\ listed' = found
         /\ \E order \in SetToSeqs({t \in Expanded(ts, found) : KeepTag(ts, t)}) :
               IF ts.keepCount > 0
               THEN pc' = "reduce" /\ tags' = order \o ts.verbatim
               ELSE pc' = "done" /\ tags' = Ascending(order \o ts.verbatim)
  BY DEF Expand
<1>2. PICK order \in SetToSeqs({t \in Expanded(ts, found) : KeepTag(ts, t)}) :
         IF ts.keepCount > 0
         THEN pc' = "reduce" /\ tags' = order \o ts.verbatim
         ELSE pc' = "done" /\ tags' = Ascending(order \o ts.verbatim)
  BY <1>a
<1>3. AddingInv'
  <2>1. [Next]_vars
    BY DEF Next
  <2> QED BY <2>1, NextAddingInv DEF IInv
<1>4. listed' \subseteq Tags /\ (~NeedsExpansion(ts) => listed' = {})
  BY <1>a, ListingsAssumption
<1>5. next = Len(items) + 1
  BY <1>1 DEF IInv, AddingInv
<1>6. ExpandedInv'
  <2>1. NeedsExpansion(ts)' = NeedsExpansion(ts)
    BY <1>1 DEF NeedsExpansion, IsEmpty, HasSemver, HasRegex
  <2> QED BY <1>1, <1>3, <1>4, <1>5, <2>1 DEF ExpandedInv
<1>7. SliceOf(order)'
  <2>1. {t \in Expanded(ts, found) : KeepTag(ts, t)}
            = {t \in Expanded(ts, listed) : KeepTag(ts, t)}'
    BY <1>1, <1>a DEF Expanded, KeepTag, ExpandSemver, ExpandRegex, NeedsExpansion,
                      IsEmpty, HasSemver, HasRegex
  <2> QED BY <1>2, <1>6, <2>1, SliceIsNext
<1> DEFINE w == order \o ts.verbatim
<1>8. /\ w \in Seq(Tags) /\ ToSet(w) = Selected' /\ (NoneTwice' => OneToOne(w))
      /\ ts.keepCount = Limit'
  BY <1>1, <1>7 DEF SliceOf
<1> HIDE DEF w
<1>9. ts.keepCount \in Nat
  BY DEF IInv, AddingInv, TagSetType
<1>10. IdleInv'
  BY <1>2 DEF IdleInv
<1>11. CASE ts.keepCount > 0
  <2>1. pc' = "reduce" /\ tags' = w
    BY <1>2, <1>11 DEF w
  <2>2. PlaceInv'
    <3>1. Len(w) \in Nat /\ <<>> \in Seq(Tags) /\ Len(<<>>) = 0
      BY <1>8, SetOfSeq
    <3> QED BY <1>1, <1>8, <2>1, <3>1 DEF PlaceInv
  <2>3. Slice(tags, pivot + 1, ix - 1)' = ToSet(vers)'
    BY <1>1 DEF Slice, ToSet
  <2>4. ReduceInv'
    <3>1. OneToOne(<<>>)
      BY DEF OneToOne
    <3> QED BY <1>1, <1>8, <1>11, <2>1, <2>3, <3>1 DEF ReduceInv
  <2>5. KeepsLatest' /\ NeverTooMany'
    BY <2>1 DEF KeepsLatest, NeverTooMany
  <2> QED BY <1>3, <1>4, <1>10, <2>1, <2>2, <2>4, <2>5 DEF IInv
<1>12. CASE ~(ts.keepCount > 0)
  <2>1. pc' = "done" /\ tags' = Ascending(w)
    BY <1>2, <1>12 DEF w
  <2>2. tags' \in Seq(Tags) /\ ToSet(tags') = Selected'
    BY <1>8, <2>1, TagsAssumption, AscendingProperties
  <2>3. Limit' = 0
    BY <1>8, <1>9, <1>12
  <2>4. KeepsLatest' /\ NeverTooMany'
    BY <2>2, <2>3 DEF KeepsLatest, NeverTooMany, Limited
  <2>5. PlaceInv'
    BY <1>1, <2>1, <2>2 DEF PlaceInv
  <2>6. ReduceInv'
    BY <2>1 DEF ReduceInv
  <2> QED BY <1>3, <1>4, <1>10, <2>1, <2>4, <2>5, <2>6 DEF IInv
<1> QED BY <1>11, <1>12

\* Steps that only add items, or that fail
LEMMA OtherStepsKeepIInv ==
    IInv /\ (AddItem \/ AllAdded \/ ExpandFails \/ UNCHANGED vars) => IInv'
<1> SUFFICES ASSUME IInv, AddItem \/ AllAdded \/ ExpandFails \/ UNCHANGED vars
             PROVE  IInv'
    OBVIOUS
<1>1. AddingInv'
  <2>1. [Next]_vars
    BY DEF Next
  <2> QED BY <2>1, NextAddingInv DEF IInv
<1>2. CASE AddItem \/ AllAdded \/ ExpandFails
  <2>1. /\ pc \notin {"reduce", "done"} /\ pc' \notin {"reduce", "done"}
        /\ pc' \in {"add", "rejected", "expand", "failed"}
        /\ UNCHANGED <<items, listed, tags, ix, pivot, vers>>
    BY <1>2 DEF AddItem, AllAdded, ExpandFails, expansion
  <2> QED BY <1>1, <2>1 DEF IInv, IdleInv, PlaceInv, ReduceInv, KeepsLatest, NeverTooMany
<1>3. CASE UNCHANGED vars
  <2>1. UNCHANGED <<pc, items, next, ts, listed, tags, ix, pivot, vers>>
    BY <1>3 DEF vars, expansion
  <2>2. Selected' = Selected /\ Limit' = Limit /\ NoneTwice' = NoneTwice
    BY <2>1 DEF Selected, Filtered, Verbatim, Wanted, Limit, LimitItems, NoneTwice
  <2> QED BY <1>1, <2>1, <2>2 DEF IInv, IdleInv, PlaceInv, ReduceInv, KeepsLatest,
                                  NeverTooMany, Slice
<1> QED BY <1>2, <1>3

\* An iteration of the loop in reduce(), by its effect on the slice
LEMMA PartitionSemver ==
    ASSUME NEW s \in Seq(Tags), NEW v \in Seq(Tags), NEW p \in Nat, NEW k \in 1 .. Len(s),
           p < k, Slice(s, p + 1, k - 1) = ToSet(v)
    PROVE  /\ Slice(s, p + 1, k) = ToSet(Append(v, s[k]))
           /\ OneToOne(s) /\ OneToOne(v) => OneToOne(Append(v, s[k]))
<1> DEFINE w == Append(v, s[k])
<1>1. /\ Len(s) \in Nat /\ DOMAIN s = 1 .. Len(s) /\ s[k] \in Tags
      /\ Len(v) \in Nat /\ DOMAIN v = 1 .. Len(v)
  BY SetOfSeq
<1>2. /\ w \in Seq(Tags) /\ Len(w) = Len(v) + 1
      /\ \A i \in 1 .. Len(v) : w[i] = v[i]
      /\ w[Len(v) + 1] = s[k]
  BY <1>1, AppendProperties
<1>3. DOMAIN w = (1 .. Len(v)) \cup {Len(v) + 1} /\ Len(v) + 1 \notin 1 .. Len(v)
  <2>1. DOMAIN w = 1 .. Len(v) + 1
    BY <1>2, SetOfSeq
  <2> QED BY <1>1, <2>1
<1> HIDE DEF w
<1>4. ToSet(w) = ToSet(v) \cup {s[k]}
  BY <1>1, <1>2, <1>3 DEF ToSet
<1>5. p + 1 .. k = (p + 1 .. k - 1) \cup {k}
  BY <1>1
<1>6. Slice(s, p + 1, k) = Slice(s, p + 1, k - 1) \cup {s[k]}
  BY <1>5 DEF Slice
<1>7. ASSUME OneToOne(s), OneToOne(v) PROVE OneToOne(w)
  <2>1. \A i \in p + 1 .. k - 1 : i \in DOMAIN s /\ k \in DOMAIN s /\ i # k
    BY <1>1
  <2>2. s[k] \notin Slice(s, p + 1, k - 1)
    BY <1>7, <2>1 DEF OneToOne, Slice
  <2>3. \A i \in 1 .. Len(v) : v[i] # s[k]
    BY <1>1, <2>2 DEF ToSet
  <2> QED BY <1>1, <1>2, <1>3, <1>7, <2>3 DEF OneToOne
<1> QED BY <1>4, <1>6, <1>7 DEF w

LEMMA PartitionOther ==
    ASSUME NEW s \in Seq(Tags), NEW p \in Nat, NEW k \in 1 .. Len(s), p < k
    PROVE  LET r == Swapped(s, p + 1, k) IN
           /\ \A i \in 1 .. p : r[i] = s[i]
           /\ r[p + 1] = s[k]
           /\ \A i \in p + 2 .. k : r[i] \in Slice(s, p + 1, k - 1)
           /\ Slice(r, p + 2, k) = Slice(s, p + 1, k - 1)
<1> DEFINE r == Swapped(s, p + 1, k)
<1>1. Len(s) \in Nat /\ p + 1 \in 1 .. Len(s) /\ p + 1 <= k
  BY SetOfSeq
<1>2. \A i \in 1 .. Len(s) :
         r[i] = IF i = k THEN s[p + 1] ELSE IF i = p + 1 THEN s[k] ELSE s[i]
  BY <1>1, SwappedProperties
<1> HIDE DEF r
<1>3. \A i \in 1 .. p : r[i] = s[i]
  BY <1>1, <1>2
<1>4. r[p + 1] = s[k]
  BY <1>1, <1>2
<1>5. ASSUME NEW i \in p + 2 .. k PROVE \E j \in p + 1 .. k - 1 : r[i] = s[j]
  <2>1. CASE i = k
    <3>1. p + 1 \in p + 1 .. k - 1 /\ r[i] = s[p + 1]
      BY <1>1, <1>2, <2>1
    <3> QED BY <3>1
  <2>2. CASE i # k
    <3>1. i \in p + 1 .. k - 1 /\ r[i] = s[i]
      BY <1>1, <1>2, <2>2
    <3> QED BY <3>1
  <2> QED BY <2>1, <2>2
<1>6. ASSUME NEW j \in p + 1 .. k - 1 PROVE \E i \in p + 2 .. k : s[j] = r[i]
  <2>1. CASE j = p + 1
    <3>1. k \in p + 2 .. k /\ r[k] = s[j]
      BY <1>1, <1>2, <2>1
    <3> QED BY <3>1
  <2>2. CASE j # p + 1
    <3>1. j \in p + 2 .. k /\ r[j] = s[j]
      BY <1>1, <1>2, <2>2
    <3> QED BY <3>1
  <2> QED BY <2>1, <2>2
<1>7. \A i \in p + 2 .. k : r[i] \in Slice(s, p + 1, k - 1)
  BY <1>5 DEF Slice
<1>8. Slice(r, p + 2, k) = Slice(s, p + 1, k - 1)
  <2>1. \A x \in Slice(s, p + 1, k - 1) : x \in Slice(r, p + 2, k)
    BY <1>6 DEF Slice
  <2>2. \A x \in Slice(r, p + 2, k) : x \in Slice(s, p + 1, k - 1)
    BY <1>7 DEF Slice
  <2> QED BY <2>1, <2>2
<1> QED BY <1>3, <1>4, <1>7, <1>8 DEF r

LEMMA PartitionKeepsIInv == IInv /\ Partition => IInv'
<1> SUFFICES ASSUME IInv, Partition PROVE IInv'
    OBVIOUS
<1>1. /\ pc = "reduce" /\ ix <= Len(tags) /\ ix' = ix + 1
      /\ UNCHANGED <<pc, items, next, ts, listed>>
      /\ Collect(tags[ix])
      /\ tags' = IF pivot' # pivot THEN Swapped(tags, pivot + 1, ix) ELSE tags
  BY DEF Partition
<1>2. Selected' = Selected /\ Limit' = Limit /\ NoneTwice' = NoneTwice
  BY <1>1 DEF Selected, Filtered, Verbatim, Wanted, Limit, LimitItems, NoneTwice
<1>3. AddingInv' /\ IdleInv' /\ KeepsLatest' /\ NeverTooMany'
  <2>1. [Next]_vars
    BY DEF Next
  <2>2. AddingInv'
    BY <2>1, NextAddingInv DEF IInv
  <2> QED BY <1>1, <2>2 DEF IdleInv, KeepsLatest, NeverTooMany
<1>4. /\ tags \in Seq(Tags) /\ vers \in Seq(Tags)
      /\ ix \in Nat /\ pivot \in Nat /\ ix - 1 = pivot + Len(vers)
      /\ Len(tags) \in Nat /\ Len(vers) \in Nat
  BY SetOfSeq DEF IInv, PlaceInv
<1>5. /\ ToSet(tags) = Selected
      /\ \A i \in 1 .. pivot : ~Semver(tags[i])
      /\ \A i \in pivot + 1 .. ix - 1 : Semver(tags[i])
      /\ Slice(tags, pivot + 1, ix - 1) = ToSet(vers)
      /\ ts.keepCount > 0
      /\ NoneTwice => OneToOne(tags) /\ OneToOne(vers)
  BY <1>1 DEF IInv, ReduceInv
<1>6. ix \in 1 .. Len(tags) /\ pivot < ix /\ pivot + 1 \in 1 .. Len(tags)
  BY <1>1, <1>4
<1>7. tags[ix] \in Tags
  BY <1>4, <1>6, SetOfSeq
<1>8. CASE Semver(tags[ix])
  <2>1. vers' = Append(vers, tags[ix]) /\ pivot' = pivot /\ tags' = tags
    BY <1>1, <1>8 DEF Collect
  <2>2. vers' \in Seq(Tags) /\ Len(vers') = Len(vers) + 1
    BY <1>4, <1>7, <2>1, AppendProperties
  <2>3. /\ Slice(tags, pivot + 1, ix) = ToSet(vers')
        /\ OneToOne(tags) /\ OneToOne(vers) => OneToOne(vers')
    BY <1>4, <1>5, <1>6, <2>1, PartitionSemver
  <2>4. PlaceInv'
    BY <1>1, <1>4, <1>6, <2>1, <2>2 DEF PlaceInv
  <2>5. \A i \in pivot + 1 .. ix : Semver(tags[i])
    <3>1. \A i \in pivot + 1 .. ix : i \in pivot + 1 .. ix - 1 \/ i = ix
      BY <1>4
    <3> QED BY <1>5, <1>8, <3>1
  <2>6. ix' - 1 = ix
    BY <1>1, <1>4
  <2>7. ReduceInv'
    BY <1>1, <1>2, <1>5, <2>1, <2>3, <2>5, <2>6 DEF ReduceInv
  <2> QED BY <1>1, <1>3, <2>4, <2>7 DEF IInv
<1>9. CASE ~Semver(tags[ix])
  <2>1. vers' = vers /\ pivot' = pivot + 1
    BY <1>1, <1>9 DEF Collect
  <2> DEFINE r == Swapped(tags, pivot + 1, ix)
  <2>2. tags' = r
    BY <1>1, <1>4, <2>1
  <2>3. /\ r \in Seq(Tags) /\ Len(r) = Len(tags) /\ ToSet(r) = ToSet(tags)
        /\ OneToOne(tags) => OneToOne(r)
    BY <1>4, <1>6, SwappedProperties
  <2>4. /\ \A i \in 1 .. pivot : r[i] = tags[i]
        /\ r[pivot + 1] = tags[ix]
        /\ \A i \in pivot + 2 .. ix : r[i] \in Slice(tags, pivot + 1, ix - 1)
        /\ Slice(r, pivot + 2, ix) = Slice(tags, pivot + 1, ix - 1)
    BY <1>4, <1>6, PartitionOther
  <2> HIDE DEF r
  <2>5. PlaceInv'
    BY <1>1, <1>4, <1>6, <2>1, <2>2, <2>3 DEF PlaceInv
  <2>6. \A i \in 1 .. pivot + 1 : ~Semver(r[i])
    <3>1. \A i \in 1 .. pivot + 1 : i \in 1 .. pivot \/ i = pivot + 1
      BY <1>4
    <3> QED BY <1>5, <1>9, <2>4, <3>1
  <2>7. \A i \in pivot + 2 .. ix : Semver(r[i])
    <3>1. \A t \in Slice(tags, pivot + 1, ix - 1) : Semver(t)
      BY <1>5 DEF Slice
    <3> QED BY <2>4, <3>1
  <2>8. ix' - 1 = ix /\ pivot' + 1 = pivot + 2
    BY <1>1, <1>4, <2>1
  <2>9. ReduceInv'
    BY <1>1, <1>2, <1>5, <2>1, <2>2, <2>3, <2>4, <2>6, <2>7, <2>8 DEF ReduceInv
  <2> QED BY <1>1, <1>3, <2>5, <2>9 DEF IInv
<1> QED BY <1>8, <1>9

\* The state reduce() is in when it has been through the slice: non-semvers are
\* left of the pivot, the semvers right of it.
LEMMA WhenPartitioned ==
    ASSUME IInv, pc = "reduce", ix > Len(tags)
    PROVE  /\ tags \in Seq(Tags) /\ vers \in Seq(Tags)
           /\ Len(tags) \in Nat /\ pivot \in Nat /\ Len(vers) \in Nat
           /\ Len(tags) = pivot + Len(vers)
           /\ ToSet(tags) = Selected /\ IsFiniteSet(Selected)
           /\ Slice(tags, 1, pivot) = {t \in Selected : ~Semver(t)}
           /\ ToSet(vers) = {t \in Selected : Semver(t)}
           /\ Limit \in Nat \ {0} /\ ts.keepCount = Limit
           /\ NoneTwice => OneToOne(tags) /\ OneToOne(vers)
<1> DEFINE n == Len(tags)
<1>1. /\ tags \in Seq(Tags) /\ vers \in Seq(Tags)
      /\ ix \in Nat /\ pivot \in Nat /\ ix - 1 = pivot + Len(vers)
      /\ n \in Nat /\ Len(vers) \in Nat /\ ix <= n + 1
      /\ DOMAIN tags = 1 .. n
  <2>1. /\ tags \in Seq(Tags) /\ vers \in Seq(Tags)
        /\ ix \in Nat /\ pivot \in Nat /\ ix - 1 = pivot + Len(vers)
        /\ ix <= n + 1
    BY DEF IInv, PlaceInv
  <2>2. n \in Nat /\ DOMAIN tags = 1 .. n
    BY <2>1, SetOfSeq
  <2>3. Len(vers) \in Nat
    BY <2>1, SetOfSeq
  <2> QED BY <2>1, <2>2, <2>3
<1>2. ix - 1 = n /\ n = pivot + Len(vers)
  <2>1. ix \in Nat /\ n \in Nat /\ ix <= n + 1 /\ ix > n
    BY <1>1
  <2>2. ix - 1 = n
    BY <2>1
  <2>3. ix - 1 = pivot + Len(vers)
    BY <1>1
  <2> QED BY <2>2, <2>3
<1>3. /\ ToSet(tags) = Selected
      /\ \A i \in 1 .. pivot : ~Semver(tags[i])
      /\ \A i \in pivot + 1 .. n : Semver(tags[i])
      /\ Slice(tags, pivot + 1, n) = ToSet(vers)
      /\ ts.keepCount > 0
      /\ NoneTwice => OneToOne(tags) /\ OneToOne(vers)
  BY <1>2 DEF IInv, ReduceInv
<1>4. \A x : x \in Selected <=> \E i \in 1 .. n : x = tags[i]
  BY <1>1, <1>3, SetOfSeq
<1>5. \A i \in 1 .. n : i \in 1 .. pivot \/ i \in pivot + 1 .. n
  BY <1>1
<1>6. (\A i \in 1 .. pivot : i \in 1 .. n) /\ (\A i \in pivot + 1 .. n : i \in 1 .. n)
  BY <1>1, <1>2
<1>7. Slice(tags, 1, pivot) = {t \in Selected : ~Semver(t)}
  <2>1. \A x \in Slice(tags, 1, pivot) : x \in Selected /\ ~Semver(x)
    BY <1>3, <1>4, <1>6 DEF Slice
  <2>2. \A x \in Selected : ~Semver(x) => x \in Slice(tags, 1, pivot)
    BY <1>3, <1>4, <1>5 DEF Slice
  <2> QED BY <2>1, <2>2
<1>8. ToSet(vers) = {t \in Selected : Semver(t)}
  <2>1. \A x \in Slice(tags, pivot + 1, n) : x \in Selected /\ Semver(x)
    BY <1>3, <1>4, <1>6 DEF Slice
  <2>2. \A x \in Selected : Semver(x) => x \in Slice(tags, pivot + 1, n)
    BY <1>3, <1>4, <1>5 DEF Slice
  <2> QED BY <1>3, <2>1, <2>2
<1>9. ts.keepCount = Limit /\ ts.keepCount \in Nat
  <2>1. next = Len(items) + 1
    BY DEF IInv, AddingInv
  <2> QED BY <2>1, MeaningOfVerbatim DEF IInv, AddingInv, TagSetType
<1>10. IsFiniteSet(Selected)
  BY <1>1, <1>3, SizeOfSeq
<1>11. Limit \in Nat \ {0} /\ ts.keepCount = Limit
  <2>1. ts.keepCount > 0
    BY <1>3
  <2> QED BY <1>9, <2>1
<1>12. NoneTwice => OneToOne(tags) /\ OneToOne(vers)
  BY <1>3
<1>13. ToSet(tags) = Selected
  BY <1>3
<1> HIDE DEF n
<1> QED BY <1>1, <1>2, <1>7, <1>8, <1>10, <1>11, <1>12, <1>13 DEF n

\* What a cut leaves of two parts of a slice, if it is made in the second one
LEMMA SliceOfConcat ==
    ASSUME NEW S, NEW q \in Seq(S), NEW d \in Seq(S), NEW c \in Nat, c <= Len(d)
    PROVE  /\ SubSeq(q \o d, 1, Len(q) + c) \in Seq(S)
           /\ ToSet(SubSeq(q \o d, 1, Len(q) + c)) = ToSet(q) \cup Slice(d, 1, c)
<1> DEFINE w == q \o d
           m == Len(q)
<1>1. /\ m \in Nat /\ Len(d) \in Nat /\ DOMAIN q = 1 .. m
      /\ w \in Seq(S) /\ Len(w) = m + Len(d)
  BY ConcatProperties, SetOfSeq
<1>2. \A i \in 1 .. m + Len(d) : w[i] = IF i <= m THEN q[i] ELSE d[i - m]
  BY ConcatProperties
<1> HIDE DEF w, m
<1>3. \A i \in 1 .. m : i \in 1 .. m + c /\ w[i] = q[i]
  BY <1>1, <1>2
<1>4. \A i \in 1 .. c : m + i \in 1 .. m + c /\ w[m + i] = d[i]
  <2> SUFFICES ASSUME NEW i \in 1 .. c
               PROVE  m + i \in 1 .. m + c /\ w[m + i] = d[i]
      OBVIOUS
  <2>1. /\ m + i \in 1 .. m + Len(d) /\ ~(m + i <= m) /\ (m + i) - m = i
        /\ m + i \in 1 .. m + c
    BY <1>1
  <2> QED BY <1>2, <2>1
<1>5. \A i \in 1 .. m + c : i \in 1 .. m \/ \E j \in 1 .. c : i = m + j
  <2> SUFFICES ASSUME NEW i \in 1 .. m + c, i > m PROVE \E j \in 1 .. c : i = m + j
      BY <1>1
  <2>1. i - m \in 1 .. c /\ i = m + (i - m)
    BY <1>1
  <2> QED BY <2>1
<1>6. Slice(w, 1, m + c) = ToSet(q) \cup Slice(d, 1, c)
  <2>1. ASSUME NEW i \in 1 .. m + c PROVE w[i] \in ToSet(q) \/ w[i] \in Slice(d, 1, c)
    <3>1. CASE i \in 1 .. m
      BY <1>1, <1>3, <3>1 DEF ToSet
    <3>2. CASE \E j \in 1 .. c : i = m + j
      BY <1>4, <3>2 DEF Slice
    <3> QED BY <1>5, <3>1, <3>2
  <2>2. \A x \in ToSet(q) : x \in Slice(w, 1, m + c)
    BY <1>1, <1>3 DEF Slice, ToSet
  <2>3. \A x \in Slice(d, 1, c) : x \in Slice(w, 1, m + c)
    BY <1>4 DEF Slice
  <2>4. \A x \in Slice(w, 1, m + c) : x \in ToSet(q) \/ x \in Slice(d, 1, c)
    BY <2>1 DEF Slice
  <2> QED BY <2>2, <2>3, <2>4
<1>7. m + c \in Nat /\ m + c <= Len(w)
  BY <1>1
<1>8. SubSeq(w, 1, m + c) \in Seq(S) /\ ToSet(SubSeq(w, 1, m + c)) = Slice(w, 1, m + c)
  BY <1>1, <1>7, SliceProperties
<1> QED BY <1>6, <1>8 DEF w, m

\* The first c of the versions in descending order are the latest ones.
LEMMA FirstAreLatest ==
    ASSUME NEW v \in Seq(Tags), \A t \in ToSet(v) : Semver(t),
           NEW d \in Descending(v), NEW c \in Nat, c < Len(v)
    PROVE  /\ Slice(d, 1, c) \subseteq ToSet(v)
           /\ Cardinality(Slice(d, 1, c)) <= c
           /\ \A t \in Slice(d, 1, c), u \in ToSet(v) \ Slice(d, 1, c) : Newer(t, u)
           /\ OneToOne(v) => Slice(d, 1, c) \in Latest(c, ToSet(v))
<1> DEFINE n == Len(v)
           K == Slice(d, 1, c)
<1>1. /\ d \in Seq(Tags) /\ Len(d) = n /\ ToSet(d) = ToSet(v)
      /\ \A i, j \in 1 .. n : i < j => Version[d[i]] >= Version[d[j]]
      /\ OneToOne(v) => OneToOne(d)
  BY DescendingProperties
<1>2. /\ K \subseteq ToSet(d) /\ Cardinality(K) <= c - 1 + 1
      /\ OneToOne(d) => Cardinality(K) = c - 1 + 1
  BY <1>1, SliceProperties, SetOfSeq
<1>3. c - 1 + 1 = c /\ n \in Nat
  BY SetOfSeq
<1>4. OneToOne(v) => Cardinality(ToSet(v)) = n
  BY SizeOfSeq
<1>5. ASSUME NEW t \in K, NEW u \in ToSet(v) \ K PROVE Newer(t, u)
  <2>1. PICK i \in 1 .. c : t = d[i]
    BY DEF Slice
  <2>2. PICK j \in 1 .. n : u = d[j]
    BY <1>1, SetOfSeq
  <2>3. j \notin 1 .. c
    BY <2>2 DEF Slice
  <2>4. i \in 1 .. n /\ i < j
    BY <1>3, <2>3
  <2>5. Semver(t)
    BY <1>1, <1>2
  <2> QED BY <1>1, <2>1, <2>2, <2>4, <2>5 DEF Newer
<1> HIDE DEF K
<1>6. OneToOne(v) => K \in Latest(c, ToSet(v))
  BY <1>1, <1>2, <1>3, <1>4, <1>5 DEF Latest
<1> QED BY <1>1, <1>2, <1>3, <1>5, <1>6 DEF K

\* The last c in ascending order are the latest ones of tags that are no semvers.
LEMMA LastAreLatest ==
    ASSUME NEW s \in Seq(Tags), \A t \in ToSet(s) : ~Semver(t),
           NEW c \in Nat, c < Len(s),
           NEW K, K = Slice(Ascending(s), Len(s) - c + 1, Len(s))
    PROVE  /\ K \subseteq ToSet(s)
           /\ Cardinality(K) <= c
           /\ \A t \in K, u \in ToSet(s) \ K : Newer(t, u)
           /\ OneToOne(s) => K \in Latest(c, ToSet(s))
<1> DEFINE n == Len(s)
           a == Ascending(s)
           m == n - c + 1
<1>1. /\ a \in Seq(Tags) /\ Len(a) = n /\ ToSet(a) = ToSet(s)
      /\ OneToOne(s) => OneToOne(a)
      /\ \A i, j \in 1 .. n : i < j => a[i] <= a[j]
  BY TagsAssumption, AscendingProperties
<1>2. /\ n \in Nat /\ m \in Nat \ {0} /\ m <= n + 1 /\ n - m + 1 = c
      /\ K = Slice(a, m, n)
  BY SetOfSeq
<1> HIDE DEF a, m
<1>3. /\ K \subseteq ToSet(a) /\ Cardinality(K) <= n - m + 1
      /\ OneToOne(a) => Cardinality(K) = n - m + 1
  <2>1. n <= Len(a) /\ a \in Seq(Tags)
    BY <1>1, <1>2
  <2>2. /\ Slice(a, m, n) \subseteq ToSet(a) /\ Cardinality(Slice(a, m, n)) <= n - m + 1
        /\ OneToOne(a) => Cardinality(Slice(a, m, n)) = n - m + 1
    BY <1>2, <2>1, SliceProperties
  <2> QED BY <1>2, <2>2
<1>4. OneToOne(s) => Cardinality(ToSet(s)) = n
  BY SizeOfSeq
<1>5. ASSUME NEW t \in K, NEW u \in ToSet(s) \ K PROVE Newer(t, u)
  <2>1. PICK i \in m .. n : t = a[i]
    BY <1>2 DEF Slice
  <2>2. PICK j \in 1 .. n : u = a[j]
    BY <1>1, SetOfSeq
  <2>3. j \notin m .. n
    BY <1>2, <2>2 DEF Slice
  <2>4. i \in 1 .. n /\ j < i
    BY <1>2, <2>3
  <2>5. ~Semver(t)
    BY <1>1, <1>3
  <2>6. u <= t
    BY <1>1, <2>1, <2>2, <2>4
  <2>7. t \in Nat /\ u \in Nat
    BY <1>1, <2>1, <2>2, <2>4, SetOfSeq, TagsAssumption
  <2> QED BY <2>5, <2>6, <2>7 DEF Newer
<1>6. OneToOne(s) => K \in Latest(c, ToSet(s))
  BY <1>1, <1>2, <1>3, <1>4, <1>5 DEF Latest
<1> QED BY <1>1, <1>2, <1>3, <1>5, <1>6

LEMMA CutSemversPromise ==
    ASSUME IInv, CutSemvers
    PROVE  tags' \in Seq(Tags) /\ Promised(ToSet(tags'))
<1> DEFINE semvers == {t \in Selected : Semver(t)}
           others == {t \in Selected : ~Semver(t)}
           c == ts.keepCount
<1>1. /\ pc = "reduce" /\ ix > Len(tags) /\ vers # <<>>
      /\ IF End < Len(tags)
         THEN \E d \in Descending(vers) :
                 tags' = Ascending(SubSeq(SubSeq(tags, 1, pivot) \o d, 1, End))
         ELSE tags' = Ascending(tags)
  BY DEF CutSemvers
<1>2. /\ tags \in Seq(Tags) /\ vers \in Seq(Tags)
      /\ Len(tags) \in Nat /\ pivot \in Nat /\ Len(vers) \in Nat
      /\ Len(tags) = pivot + Len(vers)
      /\ ToSet(tags) = Selected /\ IsFiniteSet(Selected)
      /\ Slice(tags, 1, pivot) = others
      /\ ToSet(vers) = semvers
      /\ Limit \in Nat \ {0} /\ c = Limit
      /\ NoneTwice => OneToOne(tags) /\ OneToOne(vers)
  BY <1>1, WhenPartitioned
<1>3. semvers # {}
  <2>1. Len(vers) # 0
    BY <1>1, <1>2, EmptySeq
  <2>2. vers[1] \in ToSet(vers)
    BY <1>2, <2>1, SetOfSeq
  <2> QED BY <1>2, <2>2
<1> HIDE DEF semvers, others, c
<1>4. End = pivot + c
  BY DEF End, c
<1>5. CASE End < Len(tags)
  <2>1. PICK d \in Descending(vers) :
           tags' = Ascending(SubSeq(SubSeq(tags, 1, pivot) \o d, 1, End))
    BY <1>1, <1>5
  <2>2. c < Len(vers) /\ c \in Nat
    BY <1>2, <1>4, <1>5
  <2> DEFINE q == SubSeq(tags, 1, pivot)
             K == Slice(d, 1, c)
             r == SubSeq(q \o d, 1, End)
  <2>3. q \in Seq(Tags) /\ Len(q) = pivot /\ ToSet(q) = others
    <3>1. pivot - 1 + 1 = pivot /\ pivot <= Len(tags) /\ 1 <= pivot + 1
      BY <1>2
    <3> QED BY <1>2, <3>1, SliceProperties
  <2>4. d \in Seq(Tags) /\ Len(d) = Len(vers)
    BY <1>2, <2>1, DescendingProperties
  <2> HIDE DEF q
  <2>5. r \in Seq(Tags) /\ ToSet(r) = others \cup K
    <3>1. c <= Len(d) /\ End = Len(q) + c
      BY <1>2, <1>4, <2>2, <2>3, <2>4
    <3>2. /\ SubSeq(q \o d, 1, Len(q) + c) \in Seq(Tags)
          /\ ToSet(SubSeq(q \o d, 1, Len(q) + c)) = ToSet(q) \cup K
      BY <2>2, <2>3, <2>4, <3>1, SliceOfConcat
    <3> QED BY <2>3, <3>1, <3>2
  <2> HIDE DEF r
  <2>6. tags' \in Seq(Tags) /\ ToSet(tags') = others \cup K
    BY <2>1, <2>5, TagsAssumption, AscendingProperties DEF r, q
  <2>7. /\ K \subseteq semvers /\ Cardinality(K) <= c
        /\ \A t \in K, u \in semvers \ K : Newer(t, u)
        /\ NoneTwice => K \in Latest(c, semvers)
    <3>1. \A t \in ToSet(vers) : Semver(t)
      BY <1>2 DEF semvers
    <3> QED BY <1>2, <2>2, <3>1, FirstAreLatest
  <2> HIDE DEF K
  <2>8. Promised(others \cup K)
    BY <1>2, <1>3, <2>7, PromisedWithSemvers DEF semvers, others
  <2> QED BY <2>6, <2>8
<1>6. CASE ~(End < Len(tags))
  <2>1. tags' = Ascending(tags)
    BY <1>1, <1>6
  <2>2. tags' \in Seq(Tags) /\ ToSet(tags') = Selected
    BY <1>2, <2>1, TagsAssumption, AscendingProperties
  <2>3. Selected = others \cup semvers
    BY DEF others, semvers
  <2>4. Cardinality(semvers) <= c /\ IsFiniteSet(semvers)
    <3>1. Len(vers) <= c
      BY <1>2, <1>4, <1>6
    <3>2. /\ Cardinality(semvers) <= Len(vers) /\ IsFiniteSet(semvers)
          /\ Cardinality(semvers) \in Nat
      BY <1>2, SizeOfSeq
    <3> QED BY <1>2, <3>1, <3>2
  <2>5. semvers \in Latest(c, semvers)
    BY <1>2, <2>4, AllOfFew
  <2>6. Promised(others \cup semvers)
    BY <1>2, <1>3, <2>4, <2>5, PromisedWithSemvers DEF semvers, others
  <2> QED BY <2>2, <2>3, <2>6
<1> QED BY <1>5, <1>6

LEMMA CutStringsPromise ==
    ASSUME IInv, CutStrings
    PROVE  tags' \in Seq(Tags) /\ Promised(ToSet(tags'))
<1> DEFINE n == Len(tags)
           c == ts.keepCount
           a == Ascending(tags)
<1>1. /\ pc = "reduce" /\ ix > n /\ vers = <<>>
      /\ tags' = IF n - c > 0 THEN SubSeq(a, n - c + 1, n) ELSE a
  BY DEF CutStrings, Start
<1>2. /\ tags \in Seq(Tags) /\ n \in Nat
      /\ ToSet(tags) = Selected /\ IsFiniteSet(Selected)
      /\ ToSet(vers) = {t \in Selected : Semver(t)}
      /\ Limit \in Nat \ {0} /\ c = Limit
      /\ NoneTwice => OneToOne(tags)
  BY <1>1, WhenPartitioned
<1>3. {t \in Selected : Semver(t)} = {}
  BY <1>1, <1>2 DEF ToSet
<1>4. a \in Seq(Tags) /\ Len(a) = n /\ ToSet(a) = Selected
  BY <1>2, TagsAssumption, AscendingProperties
<1> HIDE DEF n, c
<1>5. CASE n - c > 0
  <2> DEFINE m == n - c + 1
  <2>1. tags' = SubSeq(a, m, n)
    BY <1>1, <1>5
  <2>2. m \in Nat \ {0} /\ m <= n + 1 /\ c < n /\ c \in Nat
    BY <1>2, <1>5
  <2>3. tags' \in Seq(Tags) /\ ToSet(tags') = Slice(a, m, n)
    <3> HIDE DEF a, m
    <3> QED BY <1>2, <1>4, <2>1, <2>2, SliceProperties
  <2> DEFINE K == Slice(a, m, n)
  <2>4. /\ K \subseteq Selected /\ Cardinality(K) <= c
        /\ \A t \in K, u \in Selected \ K : Newer(t, u)
        /\ NoneTwice => K \in Latest(c, Selected)
    <3>1. \A t \in ToSet(tags) : ~Semver(t)
      BY <1>2, <1>3
    <3>2. K = Slice(Ascending(tags), Len(tags) - c + 1, Len(tags))
      BY DEF n
    <3> HIDE DEF K
    <3> QED BY <1>2, <2>2, <3>1, <3>2, LastAreLatest DEF n
  <2> HIDE DEF m, a, K
  <2>5. Promised(K)
    BY <1>2, <1>3, <2>4, PromisedWithStrings
  <2> QED BY <2>3, <2>5 DEF K
<1>6. CASE ~(n - c > 0)
  <2>1. tags' = a
    BY <1>1, <1>6
  <2>2. Cardinality(Selected) <= c
    <3>1. Cardinality(Selected) <= n /\ Cardinality(Selected) \in Nat
      BY <1>2, SizeOfSeq DEF n
    <3>2. n <= c
      BY <1>2, <1>6
    <3> QED BY <1>2, <3>1, <3>2
  <2>3. Selected \in Latest(c, Selected)
    BY <1>2, <2>2, AllOfFew
  <2>4. Promised(Selected)
    <3>1. \A t \in Selected, u \in Selected \ Selected : Newer(t, u)
      OBVIOUS
    <3> QED BY <1>2, <1>3, <2>2, <2>3, <3>1, PromisedWithStrings
  <2> QED BY <1>4, <2>1, <2>4
<1> QED BY <1>5, <1>6

LEMMA CutsKeepIInv == IInv /\ (CutSemvers \/ CutStrings) => IInv'
<1> SUFFICES ASSUME IInv, CutSemvers \/ CutStrings PROVE IInv'
    OBVIOUS
<1>1. /\ pc = "reduce" /\ pc' = "done"
      /\ UNCHANGED <<items, next, ts, listed, ix, pivot, vers>>
  BY DEF CutSemvers, CutStrings
<1>2. tags' \in Seq(Tags) /\ Promised(ToSet(tags'))
  BY CutSemversPromise, CutStringsPromise
<1>3. KeepsLatest' /\ NeverTooMany'
  BY <1>1, <1>2, KeepsPromise
<1>4. AddingInv'
  <2>1. [Next]_vars
    BY DEF Next
  <2> QED BY <2>1, NextAddingInv DEF IInv
<1>5. PlaceInv'
  BY <1>1, <1>2 DEF IInv, PlaceInv
<1>6. IdleInv' /\ ReduceInv'
  BY <1>1 DEF IdleInv, ReduceInv
<1> QED BY <1>1, <1>3, <1>4, <1>5, <1>6 DEF IInv

LEMMA InitIInv == Init => IInv
<1> SUFFICES ASSUME Init PROVE IInv
    OBVIOUS
<1>1. AddingInv
  BY InitAddingInv
<1>2. PlaceInv
  <2>1. <<>> \in Seq(Tags) /\ Len(<<>>) = 0
    BY EmptySeq
  <2> QED BY <2>1 DEF Init, PlaceInv
<1> QED BY <1>1, <1>2 DEF Init, IInv, IdleInv, ReduceInv, KeepsLatest, NeverTooMany

LEMMA NextIInv == IInv /\ [Next]_vars => IInv'
BY ExpandKeepsIInv, OtherStepsKeepIInv, PartitionKeepsIInv, CutsKeepIInv DEF Next

LEMMA Invariance == Spec => []IInv
BY InitIInv, NextIInv, PTL DEF Spec

-----------------------------------------------------------------------------
(* The theorems.                                                           *)

\* The variables have their types; the loop in reduce() stays in the slice,
\* and never has noted more versions than it has looked at tags.
THEOREM TypeCorrect == Spec => []TypeOK
<1>1. IInv => TypeOK
  <2> SUFFICES ASSUME IInv PROVE TypeOK
      OBVIOUS
  <2>1. ts.verbatim \in Seq(Tags) /\ ts.keepCount \in Nat
        /\ \A r \in ts.regex \cup ts.keep : r \subseteq Tags
    BY DEF IInv, AddingInv, TagSetType
  <2>2. /\ tags \in Seq(Tags) /\ vers \in Seq(Tags)
        /\ ix \in Nat /\ pivot \in Nat /\ ix - 1 = pivot + Len(vers)
        /\ Len(tags) \in Nat /\ Len(vers) \in Nat
        /\ pc # "done" => ix <= Len(tags) + 1
    BY SetOfSeq DEF IInv, PlaceInv
  <2>3. /\ ix \in 1 .. Len(tags) + 1 \/ pc = "done"
        /\ pivot \in 0 .. ix - 1
        /\ Len(vers) + pivot < ix
    BY <2>2
  <2> QED BY <2>1, <2>2, <2>3 DEF IInv, AddingInv, TypeOK
<1> QED BY <1>1, Invariance, PTL

\* The loop in reduce() parts the slice at the pivot and collects exactly the
\* semvers; swapping in place, it neither loses a tag nor doubles one.
THEOREM SliceIsParted == Spec => []PartitionInv
<1>1. IInv => PartitionInv
  <2> SUFFICES ASSUME IInv, pc = "reduce" PROVE PartitionInv
      BY DEF PartitionInv
  <2>1. /\ tags \in Seq(Tags) /\ vers \in Seq(Tags)
        /\ ix \in Nat /\ pivot \in Nat /\ ix - 1 = pivot + Len(vers)
        /\ Len(tags) \in Nat /\ Len(vers) \in Nat
        /\ ix <= Len(tags) + 1
    BY SetOfSeq DEF IInv, PlaceInv
  <2>2. ToSet(SubSeq(tags, pivot + 1, ix - 1)) = Slice(tags, pivot + 1, ix - 1)
    <3>1. /\ pivot + 1 \in Nat \ {0} /\ ix - 1 \in Nat
          /\ pivot + 1 <= (ix - 1) + 1 /\ ix - 1 <= Len(tags)
      BY <2>1
    <3> QED BY <2>1, <3>1, SliceProperties
  <2>3. Len(vers) = ix - 1 - pivot
    BY <2>1
  <2> QED BY <2>2, <2>3 DEF IInv, ReduceInv, PartitionInv
<1> QED BY <1>1, Invariance, PTL

\* Expand() keeps the tags the items ask for, and of those the latest n if there
\* is a limit, wherever an item is in the list, and in whatever order Go goes
\* through its map; provided that no tag gets into the slice twice.
THEOREM LatestAreKept == Spec => []KeepsLatest
<1>1. IInv => KeepsLatest
  BY DEF IInv
<1> QED BY <1>1, Invariance, PTL

\* Whether or not tags are selected twice, Expand() never leaves more tags than the
\* limit, or more semvers if there are any, in which case no other tag is dropped
\* for it; and what is dropped is never newer than what is left.
THEOREM LimitIsKept == Spec => []NeverTooMany
<1>1. IInv => NeverTooMany
  BY DEF IInv
<1> QED BY <1>1, Invariance, PTL

-----------------------------------------------------------------------------
(* What the relays are given. Module ImageTags has the expansion of a tag  *)
(* set in one step, for names of which each is older or newer than each    *)
(* other. It is what comes out here, step by step.                         *)

Relays == INSTANCE ImageTags WITH
    Names <- Tags, Images <- {}, None <- NoVersion, TagSets <- {}, MaxChanges <- 0,
    source <- [t \in Tags |-> NoVersion], changes <- 0,
    seen <- [t \in Tags |-> {}], ever <- [t \in Tags |-> {}]

\* The order of strings is that of versions, if the tags are versions.
OneOrder ==
    \A t, u \in Tags :
        /\ Semver(t) <=> Semver(u)
        /\ Semver(t) /\ t < u => Version[t] < Version[u]

Matching(t) ==
    \/ \E i \in Wanted : i.prefix = "semver:" /\ Version[t] \in i.set
    \/ \E i \in Wanted : i.prefix = "regex:" /\ t \in i.set

\* The list of items as a tag set of ImageTags
ForRelays ==
    [filters |-> \E i \in Wanted : i.prefix \in {"semver:", "regex:"},
     matches |-> {t \in Tags : Matching(t)},
     keep |-> {t \in Tags : \A i \in Wanted :
                   i.prefix = "keep:" /\ ~IsKeepCount(i) => t \in i.set},
     limit |-> Limit,
     verbatim |-> {Relays!Plain(t) : t \in Verbatim}]

ExpandsForRelays ==
    OneOrder /\ pc = "done" /\ NoneTwice /\ (Limit > 0 => Verbatim = {}) =>
        {Relays!Plain(t) : t \in ToSet(tags)} = Relays!Expand(ForRelays, listed)

\* There is one set of the latest n, and this is it.
LEMMA LatestIsNewest ==
    ASSUME NEW S \in SUBSET Tags, NEW n \in Nat, NEW K \in SUBSET S,
           Cardinality(K) = IF n < Cardinality(S) THEN n ELSE Cardinality(S),
           \A t \in K, u \in S \ K : t > u
    PROVE  K = {t \in S : Cardinality({u \in S : u > t}) < n}
<1> DEFINE After(t) == {u \in S : u > t}
<1>1. IsFiniteSet(S) /\ IsFiniteSet(K) /\ S \subseteq Nat
  BY TagsAssumption, FS_Subset
<1>2. Cardinality(S) \in Nat /\ Cardinality(K) \in Nat
  BY <1>1, FS_CardinalityType
<1>3. ASSUME NEW t \in S
      PROVE  IsFiniteSet(After(t)) /\ Cardinality(After(t)) \in Nat /\ t \notin After(t)
  <2>1. After(t) \in SUBSET S /\ t \notin After(t)
    BY <1>1
  <2> HIDE DEF After
  <2> QED BY <1>1, <2>1, FS_Subset, FS_CardinalityType
<1> HIDE DEF After
<1>4. ASSUME NEW t \in K PROVE Cardinality(After(t)) < n
  <2>1. t \in S
    OBVIOUS
  <2>2. CASE n < Cardinality(S)
    <3>1. After(t) \in SUBSET K
      <4>1. ASSUME NEW u \in S, u > t, u \notin K PROVE FALSE
        BY <1>1, <4>1
      <4> QED BY <4>1 DEF After
    <3>2. /\ Cardinality(After(t)) <= Cardinality(K)
          /\ Cardinality(After(t)) = Cardinality(K) => After(t) = K
      BY <1>1, <3>1, FS_Subset
    <3>3. After(t) # K
      BY <1>3, <2>1
    <3> QED BY <1>2, <1>3, <2>1, <2>2, <3>2, <3>3
  <2>3. CASE ~(n < Cardinality(S))
    <3>1. After(t) \in SUBSET S /\ After(t) # S
      BY <1>3, <2>1 DEF After
    <3>2. /\ Cardinality(After(t)) <= Cardinality(S)
          /\ Cardinality(After(t)) = Cardinality(S) => After(t) = S
      BY <1>1, <3>1, FS_Subset
    <3> QED BY <1>2, <1>3, <2>1, <2>3, <3>1, <3>2
  <2> QED BY <2>2, <2>3
<1>5. ASSUME NEW t \in S, Cardinality(After(t)) < n PROVE t \in K
  <2> SUFFICES ASSUME t \notin K PROVE FALSE
      OBVIOUS
  <2>1. K # S
    OBVIOUS
  <2>2. n < Cardinality(S)
    <3>1. Cardinality(K) = Cardinality(S) => K = S
      BY <1>1, FS_Subset
    <3> QED BY <2>1, <3>1
  <2>3. K \in SUBSET After(t)
    BY DEF After
  <2>4. Cardinality(K) <= Cardinality(After(t))
    BY <1>3, <2>3, FS_Subset
  <2> QED BY <1>2, <1>3, <1>5, <2>2, <2>4
<1>6. K = {t \in S : Cardinality(After(t)) < n}
  BY <1>4, <1>5
<1> QED BY <1>6 DEF After

\* The instance's Cardinality is the one the module's own facts are about.
LEMMA SameCardinality == ASSUME NEW S PROVE Relays!Cardinality(S) = Cardinality(S)
BY DEF Cardinality, Relays!Cardinality

LEMMA LimitedIsNewest ==
    ASSUME OneOrder, NEW S \in SUBSET Tags, NEW n \in Nat, NEW T \in Limited(n, S)
    PROVE  T = Relays!Newest(n, S)
<1>1. CASE n = 0
  BY <1>1 DEF Limited, Relays!Newest
<1>2. CASE n # 0
  <2> DEFINE semvers == {t \in S : Semver(t)}
  <2>1. semvers = {} \/ semvers = S
    BY DEF OneOrder
  <2>2. T \in Latest(n, S)
    <3>1. CASE semvers = {}
      BY <1>2, <3>1 DEF Limited
    <3>2. CASE semvers # {}
      <4>1. semvers = S
        BY <2>1, <3>2
      <4>2. T \in {(S \ semvers) \cup K : K \in Latest(n, semvers)}
        BY <1>2, <3>2 DEF Limited
      <4>3. S \ semvers = {}
        BY <4>1
      <4> HIDE DEF semvers
      <4>4. PICK K \in Latest(n, semvers) : T = (S \ semvers) \cup K
        BY <4>2
      <4>5. T = K
        BY <4>3, <4>4
      <4> QED BY <4>1, <4>4, <4>5
    <3> QED BY <3>1, <3>2
  <2>3. /\ T \in SUBSET S
        /\ Cardinality(T) = IF n < Cardinality(S) THEN n ELSE Cardinality(S)
        /\ \A t \in T, u \in S \ T : Newer(t, u)
    BY <2>2 DEF Latest
  <2>4. ASSUME NEW t \in T, NEW u \in S \ T PROVE t > u
    <3>1. t \in Tags /\ u \in Tags /\ t \in Nat /\ u \in Nat /\ t # u
      BY <2>3, TagsAssumption
    <3>2. CASE Semver(t)
      <4>1. Version[t] >= Version[u]
        BY <2>3, <3>2 DEF Newer
      <4>2. t < u => Version[t] < Version[u]
        BY <3>1, <3>2 DEF OneOrder
      <4>3. Version[t] \in Int /\ Version[u] \in Int
        BY <3>1, VersionAssumption DEF NoVersion
      <4> QED BY <3>1, <4>1, <4>2, <4>3
    <3>3. CASE ~Semver(t)
      BY <2>3, <3>1, <3>3 DEF Newer
    <3> QED BY <3>2, <3>3
  <2>5. T = {t \in S : Cardinality({u \in S : u > t}) < n}
    BY <2>3, <2>4, LatestIsNewest
  <2>6. Relays!Newest(n, S) = {t \in S : Cardinality({u \in S : u > t}) < n}
    BY <1>2, SameCardinality DEF Relays!Newest
  <2> QED BY <2>5, <2>6
<1> QED BY <1>1, <1>2

\* Under the conditions ImageTags imposes on tag sets - one order of the tags,
\* none selected twice, limits with filters only - its one step has the result
\* of NewTagSet() and Expand(), for every list of items and every order in
\* which Go goes through its map: what the relays are shown to do with it they
\* do with the tags that come out of Expand().
THEOREM RelaysGetLatest == Spec => []ExpandsForRelays
<1>1. IInv => ExpandsForRelays
  <2> SUFFICES ASSUME IInv, OneOrder, pc = "done", NoneTwice, Limit > 0 => Verbatim = {}
               PROVE  {Relays!Plain(t) : t \in ToSet(tags)}
                          = Relays!Expand(ForRelays, listed)
      BY DEF ExpandsForRelays
  <2> DEFINE r == ForRelays
             found == IF ~Relays!NeedsExpansion(r) THEN {}
                      ELSE IF r.filters THEN listed \cap r.matches
                      ELSE listed
  <2>1. AddingInv /\ next = Len(items) + 1 /\ listed \subseteq Tags
    BY DEF IInv, AddingInv
  <2>2. items \in Lists
    BY <2>1 DEF AddingInv
  <2>3. /\ \A i \in Wanted : i.prefix \in {"semver:", "regex:", "keep:", ""}
        /\ \A i \in Wanted : i.prefix = "" => i.set \subseteq Tags /\ i.set # {}
    <3>1. ASSUME NEW k \in 1 .. Len(items)
          PROVE  /\ items[k].prefix \in {"semver:", "regex:", "keep:", ""}
                 /\ items[k].prefix = "" => items[k].set \subseteq Tags /\ items[k].set # {}
      <4>1. items[k] \in Item /\ (IsName(items[k]) => \E t \in Tags : items[k].set = {t})
        BY <2>2, ItemsAreTyped
      <4> QED BY <4>1 DEF Item, IsName
    <3>2. ASSUME NEW i \in Wanted PROVE \E k \in 1 .. Len(items) : i = items[k]
      BY <2>2, WantedIs
    <3> QED BY <3>1, <3>2
  <2>4. Verbatim \subseteq Tags /\ (Verbatim = {} <=> \A i \in Wanted : i.prefix # "")
    <3>1. \A t : t \in Verbatim <=> \E i \in Wanted : i.prefix = "" /\ t \in i.set
      BY DEF Verbatim
    <3>2. Verbatim \subseteq Tags
      BY <2>3, <3>1
    <3>3. ASSUME NEW i \in Wanted, i.prefix = "" PROVE Verbatim # {}
      <4>1. PICK t : t \in i.set
        BY <2>3, <3>3
      <4> QED BY <3>1, <3>3, <4>1
    <3> QED BY <3>1, <3>2, <3>3
  <2>5. found \cap r.keep = Filtered
    <3>0. /\ r.filters <=> \E i \in Wanted : i.prefix \in {"semver:", "regex:"}
          /\ r.matches = {t \in Tags : Matching(t)}
          /\ r.keep = {t \in Tags : \A i \in Wanted :
                          i.prefix = "keep:" /\ ~IsKeepCount(i) => t \in i.set}
          /\ r.verbatim = {} <=> Verbatim = {}
      BY DEF ForRelays
    <3> HIDE DEF r
    <3>1. CASE r.filters
      <4>1. Relays!NeedsExpansion(r)
        BY <3>1 DEF Relays!NeedsExpansion
      <4>2. ~ \A i \in Wanted : i.prefix = "keep:"
        BY <3>0, <3>1
      <4> QED BY <2>1, <3>0, <3>1, <4>1, <4>2 DEF Filtered, Matching
    <3>2. CASE ~r.filters /\ r.verbatim = {}
      <4>1. Relays!NeedsExpansion(r)
        BY <3>2 DEF Relays!NeedsExpansion, Relays!IsEmpty
      <4>2. \A i \in Wanted : i.prefix = "keep:"
        BY <2>3, <2>4, <3>0, <3>2
      <4> QED BY <2>1, <3>0, <3>2, <4>1, <4>2 DEF Filtered
    <3>3. CASE ~r.filters /\ r.verbatim # {}
      <4>1. ~Relays!NeedsExpansion(r)
        BY <3>3 DEF Relays!NeedsExpansion, Relays!IsEmpty
      <4>2. /\ ~ \A i \in Wanted : i.prefix = "keep:"
            /\ \A i \in Wanted : i.prefix \notin {"semver:", "regex:"}
        BY <2>4, <3>0, <3>3
      <4> QED BY <4>1, <4>2 DEF Filtered
    <3> QED BY <3>1, <3>2, <3>3
  <2>6. r.limit = Limit /\ r.verbatim = {Relays!Plain(t) : t \in Verbatim}
    BY DEF ForRelays
  <2>7. Relays!Expand(r, listed)
            = {Relays!Plain(t) : t \in Relays!Newest(Limit, Filtered)}
                  \cup {Relays!Plain(t) : t \in Verbatim}
    <3> HIDE DEF r
    <3> QED BY <2>5, <2>6 DEF Relays!Expand
  <2> HIDE DEF r, found
  <2>8. ToSet(tags) \in Limited(Limit, Selected)
    BY DEF IInv, KeepsLatest
  <2>9. Limit \in Nat
    BY <2>1, MeaningOfVerbatim DEF AddingInv, TagSetType
  <2>10. Selected \in SUBSET Tags
    BY <2>1, <2>4 DEF Selected, Filtered
  <2>11. ToSet(tags) = Relays!Newest(Limit, Selected)
    BY <2>8, <2>9, <2>10, LimitedIsNewest
  <2>12. ToSet(tags) = Relays!Newest(Limit, Filtered) \cup Verbatim
    <3>1. CASE Limit = 0
      BY <2>11, <3>1 DEF Relays!Newest, Selected
    <3>2. CASE Limit > 0
      <4>1. Selected = Filtered /\ Verbatim = {}
        BY <3>2 DEF Selected
      <4> QED BY <2>11, <4>1
    <3> QED BY <2>9, <3>1, <3>2
  <2> QED BY <2>7, <2>12 DEF r
<1> QED BY <1>1, Invariance, PTL
=============================================================================
