----------------------------- MODULE ResMapProofs ---------------------------
(***************************************************************************)
(* What malloc and mfree do to a resource map, for every map, size and     *)
(* address.  A map is described by its entries, their order and their      *)
(* Units; the places of the entries do not show in the theorems.           *)
(***************************************************************************)
EXTENDS ResMap, FiniteSetTheorems, SequenceTheorems, WellFoundedInduction, TLAPS

Entries == [addr : Nat, size : Nat]

-----------------------------------------------------------------------------
\* Numbers and sequences.

\* A set of natural numbers has a least element.
LEMMA Least ==
    ASSUME NEW S \in SUBSET Nat, S # {}
    PROVE  \E m \in S : \A k \in S : m <= k
<1> DEFINE R == OpToRel(<, Nat)
<1>1. IsWellFoundedOn(R, Nat)
  BY NatLessThanWellFounded
<1>2. \A x, y \in Nat : <<x, y>> \in R <=> x < y
  BY DEF OpToRel
<1> HIDE DEF R
<1>3. PICK m \in S : \A k \in S : ~(<<k, m>> \in R)
  BY <1>1, WFMin
<1>4. \A k \in S : ~(k < m)
  BY <1>2, <1>3
<1>5. \A k \in S : m <= k
  BY <1>4
<1> QED
  BY <1>5

\* Min is the least element.
LEMMA MinIsLeast ==
    ASSUME NEW S \in SUBSET Nat, S # {}
    PROVE  Min(S) \in S /\ \A k \in S : Min(S) <= k
<1>1. \E m \in S : \A k \in S : m <= k
  BY Least
<1> QED
  BY <1>1 DEF Min

\* RemoveAt moves what follows one place forward.
LEMMA RemoveAtIs ==
    ASSUME NEW S, NEW s \in Seq(S), NEW i \in 1 .. Len(s)
    PROVE  /\ RemoveAt(s, i) \in Seq(S)
           /\ Len(RemoveAt(s, i)) = Len(s) - 1
           /\ \A j \in 1 .. i - 1 : RemoveAt(s, i)[j] = s[j]
           /\ \A j \in i .. Len(s) - 1 : RemoveAt(s, i)[j] = s[j + 1]
<1> DEFINE u == SubSeq(s, 1, i - 1)
           v == SubSeq(s, i + 1, Len(s))
<1>0. Len(s) \in Nat /\ i \in Nat /\ 1 <= i /\ i <= Len(s)
  BY LenProperties
<1>1. u \in Seq(S) /\ Len(u) = i - 1 /\ \A j \in 1 .. i - 1 : u[j] = s[j]
  <2>1. \A j \in 1 .. i - 1 : s[j] \in S
    BY <1>0, ElementOfSeq
  <2>2. /\ u \in Seq(S) /\ Len(u) = IF 1 <= i - 1 THEN (i - 1) - 1 + 1 ELSE 0
        /\ \A j \in 1 .. (i - 1) - 1 + 1 : u[j] = s[1 + j - 1]
    BY <1>0, <2>1, SubSeqProperties
  <2> HIDE DEF u
  <2> QED
    BY <1>0, <2>2
<1>2. v \in Seq(S) /\ Len(v) = Len(s) - i /\ \A j \in 1 .. Len(s) - i : v[j] = s[i + j]
  <2>1. \A j \in i + 1 .. Len(s) : s[j] \in S
    BY <1>0, ElementOfSeq
  <2>2. /\ v \in Seq(S) /\ Len(v) = IF i + 1 <= Len(s) THEN Len(s) - (i + 1) + 1 ELSE 0
        /\ \A j \in 1 .. Len(s) - (i + 1) + 1 : v[j] = s[(i + 1) + j - 1]
    BY <1>0, <2>1, SubSeqProperties
  <2> HIDE DEF v
  <2> QED
    BY <1>0, <2>2
<1>3. RemoveAt(s, i) = u \o v
  BY DEF RemoveAt
<1> HIDE DEF u, v
<1>4. /\ u \o v \in Seq(S) /\ Len(u \o v) = Len(u) + Len(v)
      /\ \A j \in 1 .. Len(u) + Len(v) : (u \o v)[j] = IF j <= Len(u) THEN u[j] ELSE v[j - Len(u)]
  BY <1>1, <1>2, ConcatProperties
<1>5. \A j \in 1 .. i - 1 : (u \o v)[j] = s[j]
  BY <1>0, <1>1, <1>2, <1>4
<1>6. ASSUME NEW j \in i .. Len(s) - 1 PROVE (u \o v)[j] = s[j + 1]
  <2>1. (u \o v)[j] = v[j - (i - 1)]
    BY <1>0, <1>1, <1>2, <1>4
  <2>2. j - (i - 1) \in 1 .. Len(s) - i /\ i + (j - (i - 1)) = j + 1
    BY <1>0
  <2> QED
    BY <1>2, <2>1, <2>2
<1> QED
  BY <1>0, <1>1, <1>2, <1>3, <1>4, <1>5, <1>6

\* InsertAt moves what follows one place back.
LEMMA InsertAtIs ==
    ASSUME NEW S, NEW s \in Seq(S), NEW i \in 1 .. Len(s) + 1, NEW e \in S
    PROVE  /\ InsertAt(s, i, e) \in Seq(S)
           /\ Len(InsertAt(s, i, e)) = Len(s) + 1
           /\ \A j \in 1 .. i - 1 : InsertAt(s, i, e)[j] = s[j]
           /\ InsertAt(s, i, e)[i] = e
           /\ \A j \in i + 1 .. Len(s) + 1 : InsertAt(s, i, e)[j] = s[j - 1]
<1> DEFINE u == SubSeq(s, 1, i - 1)
           v == SubSeq(s, i, Len(s))
           w == u \o <<e>>
<1>0. Len(s) \in Nat /\ i \in Nat /\ 1 <= i /\ i <= Len(s) + 1
  BY LenProperties
<1>1. u \in Seq(S) /\ Len(u) = i - 1 /\ \A j \in 1 .. i - 1 : u[j] = s[j]
  <2>1. \A j \in 1 .. i - 1 : s[j] \in S
    BY <1>0, ElementOfSeq
  <2>2. /\ u \in Seq(S) /\ Len(u) = IF 1 <= i - 1 THEN (i - 1) - 1 + 1 ELSE 0
        /\ \A j \in 1 .. (i - 1) - 1 + 1 : u[j] = s[1 + j - 1]
    BY <1>0, <2>1, SubSeqProperties
  <2> HIDE DEF u
  <2> QED
    BY <1>0, <2>2
<1>2. v \in Seq(S) /\ Len(v) = Len(s) - i + 1 /\ \A j \in 1 .. Len(s) - i + 1 : v[j] = s[i + j - 1]
  <2>1. \A j \in i .. Len(s) : s[j] \in S
    BY <1>0, ElementOfSeq
  <2>2. /\ v \in Seq(S) /\ Len(v) = IF i <= Len(s) THEN Len(s) - i + 1 ELSE 0
        /\ \A j \in 1 .. Len(s) - i + 1 : v[j] = s[i + j - 1]
    BY <1>0, <2>1, SubSeqProperties
  <2> HIDE DEF v
  <2> QED
    BY <1>0, <2>2
<1>3. InsertAt(s, i, e) = w \o v
  BY DEF InsertAt
<1> HIDE DEF u, v
<1>4. <<e>> \in Seq(S) /\ Len(<<e>>) = 1 /\ <<e>>[1] = e
  OBVIOUS
<1>5. /\ w \in Seq(S) /\ Len(w) = Len(u) + 1
      /\ \A j \in 1 .. Len(u) + 1 : w[j] = IF j <= Len(u) THEN u[j] ELSE <<e>>[j - Len(u)]
  BY <1>1, <1>4, ConcatProperties
<1>6. Len(w) = i /\ w[i] = e /\ \A j \in 1 .. i - 1 : w[j] = s[j]
  BY SMTT(30), <1>0, <1>1, <1>4, <1>5
<1>7. w \in Seq(S)
  BY <1>5
<1> HIDE DEF w
<1>8. /\ w \o v \in Seq(S) /\ Len(w \o v) = Len(w) + Len(v)
      /\ \A j \in 1 .. Len(w) + Len(v) : (w \o v)[j] = IF j <= Len(w) THEN w[j] ELSE v[j - Len(w)]
  BY <1>2, <1>7, ConcatProperties
<1>9. (w \o v)[i] = e /\ \A j \in 1 .. i - 1 : (w \o v)[j] = s[j]
  BY <1>0, <1>2, <1>6, <1>8
<1>10. ASSUME NEW j \in i + 1 .. Len(s) + 1 PROVE (w \o v)[j] = s[j - 1]
  <2>1. (w \o v)[j] = v[j - i]
    BY <1>0, <1>2, <1>6, <1>8
  <2>2. j - i \in 1 .. Len(s) - i + 1 /\ i + (j - i) - 1 = j - 1
    BY <1>0
  <2> QED
    BY <1>2, <2>1, <2>2
<1> QED
  BY <1>0, <1>2, <1>3, <1>6, <1>8, <1>9, <1>10

-----------------------------------------------------------------------------
\* The order of a map.

\* Every entry ends before any later one begins, and they do not touch.
Ordered(m) ==
    /\ \A i \in 1 .. Len(m) : m[i].size > 0
    /\ \A i, j \in 1 .. Len(m) : i < j => m[i].addr + m[i].size < m[j].addr

\* What WellFormed says of neighbours holds of any two entries.
LEMMA NeighboursSuffice ==
    ASSUME NEW m \in Seq(Entries), WellFormed(m)
    PROVE  Ordered(m)
<1>0. Len(m) \in Nat /\ DOMAIN m = 1 .. Len(m) /\ \A i \in 1 .. Len(m) : m[i] \in Entries
  BY LenProperties, ElementOfSeq
<1>1. \A i \in 1 .. Len(m) : m[i].addr \in Nat /\ m[i].size \in Nat /\ m[i].size > 0
  BY <1>0 DEF Entries, WellFormed
<1>2. ASSUME NEW i \in 1 .. Len(m), NEW j \in 1 .. Len(m), i < j
      PROVE  m[i].addr + m[i].size < m[j].addr
  <2> DEFINE Bad == {d \in Nat : /\ i + d \in 1 .. Len(m) /\ d > 0
                                 /\ ~(m[i].addr + m[i].size < m[i + d].addr)}
  <2>1. SUFFICES Bad = {}
    <3>1. i + (j - i) = j /\ j - i \in Nat /\ j - i > 0
      BY <1>0, <1>2
    <3> QED
      BY <2>1, <3>1
  <2>2. SUFFICES ASSUME Bad # {} PROVE FALSE
    OBVIOUS
  <2>3. PICK d \in Bad : \A e \in Bad : d <= e
    <3>1. Bad \in SUBSET Nat
      OBVIOUS
    <3> HIDE DEF Bad
    <3> QED
      BY <2>2, <3>1, Least
  <2>4. d \in Nat /\ d > 0 /\ i + d \in 1 .. Len(m) /\ ~(m[i].addr + m[i].size < m[i + d].addr)
    BY <2>3
  <2>5. \A e \in Nat : e < d /\ e > 0 /\ i + e \in 1 .. Len(m) => m[i].addr + m[i].size < m[i + e].addr
    <3> SUFFICES ASSUME NEW e \in Nat, e < d, e > 0, i + e \in 1 .. Len(m),
                        ~(m[i].addr + m[i].size < m[i + e].addr)
                 PROVE  FALSE
      OBVIOUS
    <3>1. e \in Bad
      OBVIOUS
    <3> HIDE DEF Bad
    <3>2. d <= e
      BY <2>3, <3>1
    <3> QED
      BY <2>4, <3>2
  <2> HIDE DEF Bad
  <2>6. PICK j0 \in 1 .. Len(m) : j0 = i + d
    BY <2>4
  <2>7. j0 \in Nat /\ i \in Nat /\ j0 - 1 \in 1 .. Len(m) - 1 /\ (j0 - 1) + 1 = j0
    BY <1>0, <2>4, <2>6
  <2>8. PICK c \in 1 .. Len(m) - 1 : c = j0 - 1
    BY <2>7
  <2>9. c \in 1 .. Len(m) /\ c + 1 = j0 /\ c = i + (d - 1)
    BY <1>0, <2>4, <2>6, <2>8
  <2>10. m[c].addr + m[c].size < m[j0].addr
    BY <2>9 DEF WellFormed
  <2>11. CASE d = 1
    BY <2>4, <2>6, <2>9, <2>10, <2>11, <1>0
  <2>12. CASE d # 1
    <3>1. d - 1 \in Nat /\ d - 1 < d /\ d - 1 > 0 /\ i + (d - 1) \in 1 .. Len(m)
      BY <2>4, <2>9, <2>12
    <3>2. m[i].addr + m[i].size < m[c].addr
      BY <2>5, <2>9, <3>1
    <3>3. ~(m[i].addr + m[i].size < m[j0].addr)
      BY <2>4, <2>6
    <3>4. /\ m[i].addr \in Nat /\ m[i].size \in Nat /\ m[c].addr \in Nat /\ m[c].size \in Nat
          /\ m[c].size > 0 /\ m[j0].addr \in Nat
      BY <1>1, <2>9
    <3>5. \A u, v, w, x, y \in Nat : u + v < w /\ w + x < y => u + v < y
      OBVIOUS
    <3> QED
      BY <2>10, <3>2, <3>3, <3>4, <3>5
  <2> QED
    BY <2>11, <2>12
<1> QED
  BY <1>1, <1>2 DEF Ordered

LEMMA OrderedIsWellFormed ==
    ASSUME NEW m \in Seq(Entries), Ordered(m)
    PROVE  WellFormed(m)
<1>0. Len(m) \in Nat /\ DOMAIN m = 1 .. Len(m)
  BY LenProperties
<1>1. ASSUME NEW i \in 1 .. Len(m) - 1 PROVE m[i].addr + m[i].size < m[i + 1].addr
  <2>1. i \in 1 .. Len(m) /\ i + 1 \in 1 .. Len(m) /\ i < i + 1
    BY <1>0
  <2> QED
    BY <2>1 DEF Ordered
<1> QED
  BY <1>0, <1>1 DEF Ordered, WellFormed

\* A unit is free if it lies in the run of an entry.
LEMMA UnitsAre ==
    ASSUME NEW m \in Seq(Entries), NEW u
    PROVE  u \in Units(m) <=>
             u \in Int /\ \E i \in 1 .. Len(m) : m[i].addr <= u /\ u < m[i].addr + m[i].size
<1>0. Len(m) \in Nat /\ DOMAIN m = 1 .. Len(m) /\ \A i \in 1 .. Len(m) : m[i] \in Entries
  BY LenProperties, ElementOfSeq
<1>1. \A i \in 1 .. Len(m) : m[i].addr \in Nat /\ m[i].size \in Nat
  BY <1>0 DEF Entries
<1>2. u \in Units(m) <=> \E i \in 1 .. Len(m) : u \in m[i].addr .. m[i].addr + m[i].size - 1
  BY <1>0 DEF Units
<1>3. \A i \in 1 .. Len(m) : u \in m[i].addr .. m[i].addr + m[i].size - 1 <=>
                             u \in Int /\ m[i].addr <= u /\ u < m[i].addr + m[i].size
  BY <1>1
<1> QED
  BY <1>2, <1>3

\* The number of entries that begin at or before a.
Before(m, a) == Cardinality({i \in DOMAIN m : m[i].addr <= a})

\* It is a place in the map, whatever the map.
LEMMA BeforeIsPlace ==
    ASSUME NEW m \in Seq(Entries), NEW a \in Nat
    PROVE  Before(m, a) \in 0 .. Len(m)
<1> DEFINE S == {i \in DOMAIN m : m[i].addr <= a}
<1>0. Len(m) \in Nat /\ DOMAIN m = 1 .. Len(m)
  BY LenProperties
<1>1. S \in SUBSET (1 .. Len(m))
  BY <1>0
<1>2. IsFiniteSet(1 .. Len(m)) /\ Cardinality(1 .. Len(m)) = IF 1 > Len(m) THEN 0 ELSE Len(m) - 1 + 1
  BY SMTT(30), <1>0, FS_Interval
<1> HIDE DEF S
<1>3. IsFiniteSet(S) /\ Cardinality(S) <= Cardinality(1 .. Len(m))
  BY <1>1, <1>2, FS_Subset
<1>4. Cardinality(S) \in Nat
  BY <1>3, FS_CardinalityType
<1>5. Cardinality(S) \in 0 .. Len(m)
  BY <1>0, <1>2, <1>3, <1>4
<1> QED
  BY <1>5 DEF Before, S

\* In an ordered map the entries up to there begin at or before a, the others
\* behind it.
LEMMA BeforeDivides ==
    ASSUME NEW m \in Seq(Entries), NEW a \in Nat, Ordered(m)
    PROVE  /\ \A i \in 1 .. Before(m, a) : m[i].addr <= a
           /\ \A i \in Before(m, a) + 1 .. Len(m) : a < m[i].addr
<1> DEFINE S == {i \in DOMAIN m : m[i].addr <= a}
           T == {n \in Nat : n + 1 \notin S}
<1>0. Len(m) \in Nat /\ DOMAIN m = 1 .. Len(m) /\ \A i \in 1 .. Len(m) : m[i] \in Entries
  BY LenProperties, ElementOfSeq
<1>1. \A i \in 1 .. Len(m) : m[i].addr \in Nat /\ m[i].size \in Nat
  BY <1>0 DEF Entries
<1>2. \A i, j \in 1 .. Len(m) : i < j /\ j \in S => i \in S
  BY SMTT(30), <1>0, <1>1 DEF Ordered
<1>3. Len(m) \in T
  BY <1>0
<1>4. PICK k \in T : \A n \in T : k <= n
  <2>1. T \in SUBSET Nat
    OBVIOUS
  <2> HIDE DEF T
  <2> QED
    BY <1>3, <2>1, Least
<1>5. k \in Nat /\ k <= Len(m) /\ k + 1 \notin S
  BY <1>3, <1>4
<1>6. \A i \in 1 .. k : i \in S
  <2> SUFFICES ASSUME NEW i \in 1 .. k PROVE i \in S
    OBVIOUS
  <2>1. i - 1 \in Nat /\ ~(k <= i - 1) /\ (i - 1) + 1 = i
    BY <1>5
  <2>2. i - 1 \notin T
    <3> HIDE DEF T
    <3> QED
      BY <1>4, <2>1
  <2> QED
    BY <2>1, <2>2
<1>7. \A i \in k + 1 .. Len(m) : i \notin S
  BY <1>0, <1>2, <1>5
<1>8. S = 1 .. k
  BY <1>0, <1>5, <1>6, <1>7
<1>9. Cardinality(1 .. k) = IF 1 > k THEN 0 ELSE k - 1 + 1
  <2>1. 1 \in Int /\ k \in Int
    BY <1>5
  <2> HIDE DEF S, T
  <2> QED
    BY <2>1, FS_Interval
<1>10. Before(m, a) = k
  <2>1. Before(m, a) = Cardinality(S)
    BY DEF Before
  <2> HIDE DEF S, T
  <2>2. Cardinality(S) = IF 1 > k THEN 0 ELSE k - 1 + 1
    BY <1>8, <1>9
  <2>3. k \in Nat
    BY <1>5
  <2> QED
    BY <2>1, <2>2, <2>3
<1>11. \A i \in 1 .. k : m[i].addr <= a
  BY <1>6
<1>12. \A i \in k + 1 .. Len(m) : a < m[i].addr
  BY <1>0, <1>1, <1>5, <1>7
<1> HIDE DEF S, T
<1> QED
  BY <1>10, <1>11, <1>12

-----------------------------------------------------------------------------
\* mfree.

In(u, e) == e.addr <= u /\ u < e.addr + e.size

\* Whatever is returned to whatever map, the result is a map.
LEMMA MfreeType ==
    ASSUME NEW m \in Seq(Entries), NEW n \in Nat, NEW a \in Nat
    PROVE  Mfree(m, n, a) \in Seq(Entries)
<1> DEFINE k == Before(m, a)
           joined == [m EXCEPT ![k] = Entry(@.addr, @.size + n + m[k + 1].size)]
           longer == [m EXCEPT ![k] = Entry(@.addr, @.size + n)]
           lower == [m EXCEPT ![k + 1] = Entry(a, @.size + n)]
           before == k > 0 /\ m[k].addr + m[k].size = a
           after == k < Len(m) /\ a + n = m[k + 1].addr
<1>0. Len(m) \in Nat /\ k \in 0 .. Len(m) /\ \A i \in 1 .. Len(m) : m[i] \in Entries
  BY LenProperties, ElementOfSeq, BeforeIsPlace
<1>1. Mfree(m, n, a) = IF before /\ after THEN RemoveAt(joined, k + 1)
                       ELSE IF before THEN longer ELSE IF after THEN lower
                       ELSE IF n = 0 THEN m ELSE InsertAt(m, k + 1, Entry(a, n))
  BY DEF Mfree, Before
<1> HIDE DEF k
<1>2. CASE before /\ after
  <2>1. k \in 1 .. Len(m) /\ k + 1 \in 1 .. Len(m)
    BY <1>0, <1>2
  <2>2. Entry(m[k].addr, m[k].size + n + m[k + 1].size) \in Entries
    BY SMTT(30), <1>0, <2>1 DEF Entries, Entry
  <2>3. joined \in Seq(Entries) /\ Len(joined) = Len(m)
    BY <2>1, <2>2, ExceptSeq
  <2> HIDE DEF joined
  <2>4. RemoveAt(joined, k + 1) \in Seq(Entries)
    BY <2>1, <2>3, RemoveAtIs
  <2> QED
    BY <1>1, <1>2, <2>4
<1>3. CASE before /\ ~after
  <2>1. k \in 1 .. Len(m)
    BY <1>0, <1>3
  <2>2. Entry(m[k].addr, m[k].size + n) \in Entries
    BY <1>0, <2>1 DEF Entries, Entry
  <2>3. longer \in Seq(Entries)
    BY <2>1, <2>2, ExceptSeq
  <2> QED
    BY <1>1, <1>3, <2>3
<1>4. CASE ~before /\ after
  <2>1. k + 1 \in 1 .. Len(m)
    BY <1>0, <1>4
  <2>2. Entry(a, m[k + 1].size + n) \in Entries
    BY <1>0, <2>1 DEF Entries, Entry
  <2>3. lower \in Seq(Entries)
    BY <2>1, <2>2, ExceptSeq
  <2> QED
    BY <1>1, <1>4, <2>3
<1>5. CASE ~before /\ ~after
  <2>1. k + 1 \in 1 .. Len(m) + 1
    BY <1>0
  <2>2. Entry(a, n) \in Entries
    BY DEF Entries, Entry
  <2>3. InsertAt(m, k + 1, Entry(a, n)) \in Seq(Entries)
    BY <2>1, <2>2, InsertAtIs
  <2> QED
    BY <1>1, <1>5, <2>3
<1> QED
  BY <1>2, <1>3, <1>4, <1>5

\* A run that is not free lies between the entries before it and those behind.
LEMMA RunLiesBetween ==
    ASSUME NEW m \in Seq(Entries), Ordered(m), NEW n \in Nat \ {0}, NEW a \in Nat,
           (a .. a + n - 1) \cap Units(m) = {}
    PROVE  /\ \A i \in 1 .. Before(m, a) : m[i].addr + m[i].size <= a
           /\ \A i \in Before(m, a) + 1 .. Len(m) : a + n <= m[i].addr
<1> DEFINE k == Before(m, a)
<1>0. Len(m) \in Nat /\ k \in 0 .. Len(m) /\ \A i \in 1 .. Len(m) : m[i] \in Entries
  BY LenProperties, ElementOfSeq, BeforeIsPlace
<1>1. /\ \A i \in 1 .. k : m[i].addr <= a
      /\ \A i \in k + 1 .. Len(m) : a < m[i].addr
  BY BeforeDivides
<1> HIDE DEF k
<1>2. \A i \in 1 .. Len(m) : m[i].addr \in Nat /\ m[i].size \in Nat /\ m[i].size > 0
  BY <1>0 DEF Entries, Ordered
<1>3. ASSUME NEW i \in 1 .. k, ~(m[i].addr + m[i].size <= a) PROVE FALSE
  <2>1. i \in 1 .. Len(m) /\ m[i].addr <= a /\ a < m[i].addr + m[i].size
    BY <1>0, <1>1, <1>2, <1>3
  <2>2. a \in Units(m)
    BY <2>1, UnitsAre
  <2> QED
    BY <2>2
<1>4. ASSUME NEW i \in k + 1 .. Len(m), ~(a + n <= m[i].addr) PROVE FALSE
  <2> DEFINE u == m[i].addr
  <2>1. i \in 1 .. Len(m) /\ a < u /\ u < a + n /\ u \in Nat /\ u < m[i].addr + m[i].size
    BY <1>0, <1>1, <1>2, <1>4
  <2>2. u \in Units(m)
    BY <2>1, UnitsAre
  <2>3. u \in a .. a + n - 1
    BY <2>1
  <2> QED
    BY <2>2, <2>3
<1> QED
  BY <1>3, <1>4 DEF k

\* The run joins nothing, and gets an entry of its own.
LEMMA MfreeInserts ==
    ASSUME NEW m \in Seq(Entries), Ordered(m), NEW n \in Nat \ {0}, NEW a \in Nat, NEW k \in 0 .. Len(m),
           \A i \in 1 .. k : m[i].addr + m[i].size < a,
           \A i \in k + 1 .. Len(m) : a + n < m[i].addr
    PROVE  LET r == InsertAt(m, k + 1, Entry(a, n))
           IN  Ordered(r) /\ Units(r) = Units(m) \cup (a .. a + n - 1)
<1> DEFINE e == Entry(a, n)
           r == InsertAt(m, k + 1, e)
<1>0. Len(m) \in Nat /\ k \in Nat /\ k <= Len(m) /\ \A i \in 1 .. Len(m) : m[i] \in Entries
  BY LenProperties, ElementOfSeq
<1>1. e \in Entries /\ e.addr = a /\ e.size = n
  BY DEF Entries, Entry
<1>2. k + 1 \in 1 .. Len(m) + 1
  BY <1>0
<1>3. /\ r \in Seq(Entries) /\ Len(r) = Len(m) + 1 /\ r[k + 1] = e
      /\ \A j \in 1 .. (k + 1) - 1 : r[j] = m[j]
      /\ \A j \in (k + 1) + 1 .. Len(m) + 1 : r[j] = m[j - 1]
  <2>1. e \in Entries
    BY <1>1
  <2> DEFINE i == k + 1
  <2>2. i \in 1 .. Len(m) + 1
    BY <1>2
  <2> HIDE DEF e, i
  <2>3. /\ InsertAt(m, i, e) \in Seq(Entries) /\ Len(InsertAt(m, i, e)) = Len(m) + 1
        /\ InsertAt(m, i, e)[i] = e
        /\ \A j \in 1 .. i - 1 : InsertAt(m, i, e)[j] = m[j]
        /\ \A j \in i + 1 .. Len(m) + 1 : InsertAt(m, i, e)[j] = m[j - 1]
    BY <2>1, <2>2, InsertAtIs
  <2> QED
    BY <2>3 DEF i
<1> HIDE DEF r, e
<1>4. \A i \in 1 .. Len(m) : m[i].addr \in Nat /\ m[i].size \in Nat /\ m[i].size > 0
  BY <1>0 DEF Entries, Ordered
<1>5. \A i \in 1 .. Len(r) : \/ i <= k /\ i \in 1 .. k /\ r[i] = m[i]
                             \/ i = k + 1 /\ r[i] = e
                             \/ i > k + 1 /\ i - 1 \in k + 1 .. Len(m) /\ r[i] = m[i - 1]
  BY <1>0, <1>3
<1>6. \A i \in 1 .. Len(r) : r[i].size > 0
  <2> SUFFICES ASSUME NEW i \in 1 .. Len(r) PROVE r[i].size > 0
    OBVIOUS
  <2>1. CASE i <= k
    <3>1. i \in 1 .. Len(m) /\ r[i] = m[i]
      BY <1>0, <1>3, <2>1
    <3> QED
      BY <1>4, <3>1
  <2>2. CASE i = k + 1
    BY <1>1, <1>3, <2>2
  <2>3. CASE i > k + 1
    <3>1. i - 1 \in 1 .. Len(m) /\ r[i] = m[i - 1]
      BY <1>0, <1>3, <2>3
    <3> QED
      BY <1>4, <3>1
  <2> QED
    BY <1>0, <2>1, <2>2, <2>3
<1>7. ASSUME NEW i \in 1 .. Len(r), NEW j \in 1 .. Len(r), i < j
      PROVE  r[i].addr + r[i].size < r[j].addr
  <2>1. CASE j <= k
    <3>1. i \in 1 .. Len(m) /\ j \in 1 .. Len(m) /\ r[i] = m[i] /\ r[j] = m[j]
      BY <1>0, <1>3, <1>7, <2>1
    <3> QED
      BY <1>7, <3>1 DEF Ordered
  <2>2. CASE j = k + 1
    <3>1. i \in 1 .. k /\ r[i] = m[i] /\ r[j].addr = a
      BY <1>0, <1>1, <1>3, <1>7, <2>2
    <3> QED
      BY <3>1
  <2>3. CASE j > k + 1
    <3>1. j - 1 \in k + 1 .. Len(m) /\ j - 1 \in 1 .. Len(m) /\ r[j] = m[j - 1]
      BY <1>0, <1>3, <2>3
    <3>2. CASE i <= k
      <4>1. i \in 1 .. Len(m) /\ i < j - 1 /\ r[i] = m[i]
        BY <1>0, <1>3, <2>3, <3>1, <3>2
      <4> QED
        BY <3>1, <4>1 DEF Ordered
    <3>3. CASE i = k + 1
      <4>1. r[i].addr = a /\ r[i].size = n
        BY <1>1, <1>3, <3>3
      <4> QED
        BY <3>1, <4>1
    <3>4. CASE i > k + 1
      <4>1. i - 1 \in 1 .. Len(m) /\ i - 1 < j - 1 /\ r[i] = m[i - 1]
        BY <1>0, <1>3, <1>7, <3>4
      <4> QED
        BY <3>1, <4>1 DEF Ordered
    <3> QED
      BY <1>0, <3>2, <3>3, <3>4
  <2> QED
    BY <1>0, <2>1, <2>2, <2>3
<1>8. Ordered(r)
  BY <1>6, <1>7 DEF Ordered
<1>9. ASSUME NEW u \in Int PROVE u \in Units(r) <=> u \in Units(m) \/ u \in a .. a + n - 1
  <2>1. u \in Units(r) <=> \E i \in 1 .. Len(r) : In(u, r[i])
    BY <1>3, UnitsAre DEF In
  <2>2. u \in Units(m) <=> \E i \in 1 .. Len(m) : In(u, m[i])
    BY UnitsAre DEF In
  <2>3. u \in a .. a + n - 1 <=> In(u, e)
    BY <1>1 DEF In
  <2>4. ASSUME NEW i \in 1 .. Len(r), In(u, r[i]) PROVE In(u, e) \/ \E j \in 1 .. Len(m) : In(u, m[j])
    <3>1. (k + 1 .. Len(m)) \subseteq 1 .. Len(m) /\ (1 .. k) \subseteq 1 .. Len(m)
      BY <1>0
    <3> QED
      BY <1>5, <2>4, <3>1
  <2>5. ASSUME NEW i \in 1 .. Len(m), In(u, m[i]) PROVE \E j \in 1 .. Len(r) : In(u, r[j])
    <3>1. CASE i <= k
      <4>1. i \in 1 .. Len(r) /\ r[i] = m[i]
        BY <1>0, <1>3, <3>1
      <4> QED
        BY <2>5, <4>1
    <3>2. CASE i > k
      <4>1. i + 1 \in 1 .. Len(r) /\ r[i + 1] = m[(i + 1) - 1] /\ (i + 1) - 1 = i
        BY <1>0, <1>3, <3>2
      <4> QED
        BY <2>5, <4>1
    <3> QED
      BY <1>0, <3>1, <3>2
  <2>6. In(u, e) => \E j \in 1 .. Len(r) : In(u, r[j])
    <3>1. k + 1 \in 1 .. Len(r)
      BY <1>0, <1>3
    <3> QED
      BY <1>3, <3>1
  <2> QED
    BY <2>1, <2>2, <2>3, <2>4, <2>5, <2>6
<1>10. \A u : u \in Units(r) \/ u \in Units(m) => u \in Int
  BY <1>3, UnitsAre
<1>11. \A u : u \in a .. a + n - 1 => u \in Int
  OBVIOUS
<1>12. Units(r) = Units(m) \cup (a .. a + n - 1)
  BY <1>9, <1>10, <1>11
<1> QED
  BY <1>8, <1>12 DEF r, e

\* The run joins one neighbour: the entry at k becomes e.
LEMMA MfreeExtends ==
    ASSUME NEW m \in Seq(Entries), Ordered(m), NEW k \in 1 .. Len(m), NEW e \in Entries, NEW T \in SUBSET Int,
           e.size > 0,
           \A i \in 1 .. k - 1 : m[i].addr + m[i].size < e.addr,
           \A i \in k + 1 .. Len(m) : e.addr + e.size < m[i].addr,
           \A u \in Int : In(u, e) <=> In(u, m[k]) \/ u \in T
    PROVE  LET r == [m EXCEPT ![k] = e]
           IN  r \in Seq(Entries) /\ Ordered(r) /\ Units(r) = Units(m) \cup T
<1> DEFINE r == [m EXCEPT ![k] = e]
<1>0. Len(m) \in Nat /\ k \in Nat /\ \A i \in 1 .. Len(m) : m[i] \in Entries
  BY LenProperties, ElementOfSeq
<1>1. /\ r \in Seq(Entries) /\ Len(r) = Len(m)
      /\ \A j \in 1 .. Len(m) : r[j] = IF j = k THEN e ELSE m[j]
  BY ExceptSeq
<1> HIDE DEF r
<1>2. r[k] = e /\ \A j \in 1 .. Len(m) : j # k => r[j] = m[j]
  BY <1>1
<1>3. ASSUME NEW i \in 1 .. Len(m), NEW j \in 1 .. Len(m), i < j
      PROVE  r[i].addr + r[i].size < r[j].addr
  <2>1. CASE i = k
    <3>1. j \in k + 1 .. Len(m) /\ r[i] = e /\ r[j] = m[j]
      BY <1>0, <1>2, <1>3, <2>1
    <3> QED
      BY <3>1
  <2>2. CASE j = k
    <3>1. i \in 1 .. k - 1 /\ r[i] = m[i] /\ r[j] = e
      BY <1>0, <1>2, <1>3, <2>2
    <3> QED
      BY <3>1
  <2>3. CASE i # k /\ j # k
    BY <1>2, <1>3, <2>3 DEF Ordered
  <2> QED
    BY <2>1, <2>2, <2>3
<1>4. Ordered(r)
  BY <1>1, <1>2, <1>3 DEF Ordered
<1>5. ASSUME NEW u \in Int PROVE u \in Units(r) <=> u \in Units(m) \/ u \in T
  <2>1. u \in Units(r) <=> \E i \in 1 .. Len(m) : In(u, r[i])
    BY <1>1, UnitsAre DEF In
  <2>2. u \in Units(m) <=> \E i \in 1 .. Len(m) : In(u, m[i])
    BY UnitsAre DEF In
  <2>3. In(u, e) <=> In(u, m[k]) \/ u \in T
    OBVIOUS
  <2> QED
    BY <1>2, <2>1, <2>2, <2>3
<1>6. \A u : u \in Units(r) \/ u \in Units(m) => u \in Int
  BY <1>1, UnitsAre
<1>7. Units(r) = Units(m) \cup T
  BY <1>5, <1>6
<1> QED
  BY <1>1, <1>4, <1>7 DEF r

\* The run fills the gap between two entries, which become one.
LEMMA MfreeJoins ==
    ASSUME NEW m \in Seq(Entries), Ordered(m), NEW n \in Nat \ {0}, NEW a \in Nat, NEW k \in 1 .. Len(m) - 1,
           m[k].addr + m[k].size = a, a + n = m[k + 1].addr
    PROVE  LET r == RemoveAt([m EXCEPT ![k] = Entry(@.addr, @.size + n + m[k + 1].size)], k + 1)
           IN  Ordered(r) /\ Units(r) = Units(m) \cup (a .. a + n - 1)
<1> DEFINE e == Entry(m[k].addr, m[k].size + n + m[k + 1].size)
           l == k + 1
           s == [m EXCEPT ![k] = e]
           r == RemoveAt(s, l)
<1>0. Len(m) \in Nat /\ k \in Nat /\ k \in 1 .. Len(m) /\ l \in 1 .. Len(m) /\ l \in Nat
  BY LenProperties
<1>1. \A i \in 1 .. Len(m) : m[i].addr \in Nat /\ m[i].size \in Nat /\ m[i].size > 0
  <2>1. \A i \in 1 .. Len(m) : m[i] \in Entries
    BY ElementOfSeq
  <2> QED
    BY <2>1 DEF Entries, Ordered
<1>2. /\ m[k].addr \in Nat /\ m[k].size \in Nat /\ m[k].size > 0
      /\ m[l].addr \in Nat /\ m[l].size \in Nat /\ m[l].size > 0
  BY <1>0, <1>1
<1>3. /\ e \in Entries /\ e.addr = m[k].addr /\ e.size = m[k].size + n + m[l].size
      /\ e.addr + e.size = m[l].addr + m[l].size
  <2>1. e.addr = m[k].addr /\ e.size = m[k].size + n + m[l].size
    BY DEF Entry
  <2>2. m[k].size + n + m[l].size \in Nat
    <3> HIDE DEF l
    <3>1. PICK y \in Nat : y = m[k].size
      BY <1>2
    <3>2. PICK w \in Nat : w = m[l].size
      BY <1>2
    <3>3. y + n + w \in Nat
      OBVIOUS
    <3> QED
      BY <3>1, <3>2, <3>3
  <2>3. e \in Entries
    BY <1>2, <2>2 DEF Entry, Entries
  <2>4. m[k].addr + m[k].size = a /\ a + n = m[l].addr
    OBVIOUS
  <2>5. m[k].addr + (m[k].size + n + m[l].size) = m[l].addr + m[l].size
    <3> HIDE DEF l
    <3>1. PICK x \in Nat : x = m[k].addr
      BY <1>2
    <3>2. PICK y \in Nat : y = m[k].size
      BY <1>2
    <3>3. PICK z \in Nat : z = m[l].addr
      BY <1>2
    <3>4. PICK w \in Nat : w = m[l].size
      BY <1>2
    <3>5. x + y = a /\ a + n = z
      BY <2>4, <3>1, <3>2, <3>3
    <3>6. x + (y + n + w) = z + w
      BY <3>5
    <3> QED
      BY <3>1, <3>2, <3>3, <3>4, <3>6
  <2> QED
    BY <2>1, <2>3, <2>5
<1> HIDE DEF e
<1>4. s \in Seq(Entries) /\ Len(s) = Len(m) /\ \A j \in 1 .. Len(m) : s[j] = IF j = k THEN e ELSE m[j]
  BY <1>0, <1>3, ExceptSeq
<1> HIDE DEF s, l
<1>5. /\ r \in Seq(Entries) /\ Len(r) = Len(m) - 1
      /\ \A j \in 1 .. l - 1 : r[j] = s[j]
      /\ \A j \in l .. Len(m) - 1 : r[j] = s[j + 1]
  <2>1. l \in 1 .. Len(s)
    BY <1>0, <1>4
  <2>2. /\ r \in Seq(Entries) /\ Len(r) = Len(s) - 1
        /\ \A j \in 1 .. l - 1 : r[j] = s[j]
        /\ \A j \in l .. Len(s) - 1 : r[j] = s[j + 1]
    BY <1>4, <2>1, RemoveAtIs
  <2> QED
    BY <1>4, <2>2
<1>6. l = k + 1
  BY DEF l
<1> HIDE DEF r
<1>7. /\ r[k] = e
      /\ \A i \in 1 .. k - 1 : i \in 1 .. Len(m) /\ r[i] = m[i]
      /\ \A i \in k + 1 .. Len(r) : i + 1 \in k + 2 .. Len(m) /\ r[i] = m[i + 1]
  <2>1. k \in 1 .. l - 1
    BY <1>0, <1>6
  <2>2. \A i \in 1 .. k - 1 : i \in 1 .. l - 1 /\ i \in 1 .. Len(m) /\ i # k
    BY <1>0, <1>6
  <2>3. \A i \in k + 1 .. Len(r) : i \in l .. Len(m) - 1 /\ i + 1 \in k + 2 .. Len(m)
                                     /\ i + 1 \in 1 .. Len(m) /\ i + 1 # k
    BY <1>0, <1>5, <1>6
  <2> QED
    BY <1>0, <1>4, <1>5, <2>1, <2>2, <2>3
<1>8. \A i \in 1 .. Len(r) : (i < k /\ i \in 1 .. k - 1) \/ i = k \/ (i > k /\ i \in k + 1 .. Len(r))
  BY <1>0, <1>5
<1>9. \A i \in 1 .. Len(r) : r[i].size > 0
  <2> SUFFICES ASSUME NEW i \in 1 .. Len(r) PROVE r[i].size > 0
    OBVIOUS
  <2>1. CASE i < k
    BY SMTT(30), <1>1, <1>7, <1>8, <2>1
  <2>2. CASE i = k
    BY SMTT(30), <1>2, <1>3, <1>7, <2>2
  <2>3. CASE i > k
    <3>1. i + 1 \in 1 .. Len(m) /\ r[i] = m[i + 1]
      BY SMTT(30), <1>0, <1>7, <1>8, <2>3
    <3> QED
      BY <1>1, <3>1
  <2> QED
    BY <1>0, <2>1, <2>2, <2>3
<1>10. ASSUME NEW i \in 1 .. k - 1 PROVE m[i].addr + m[i].size < e.addr
  <2>1. i \in 1 .. Len(m) /\ i < k
    BY <1>0
  <2> QED
    BY <1>0, <1>3, <2>1 DEF Ordered
<1>11. ASSUME NEW j \in k + 2 .. Len(m) PROVE e.addr + e.size < m[j].addr
  <2>1. j \in 1 .. Len(m) /\ l < j
    BY <1>0, <1>6
  <2> QED
    BY <1>0, <1>3, <2>1 DEF Ordered
<1>12. ASSUME NEW i \in 1 .. Len(r), NEW j \in 1 .. Len(r), i < j
       PROVE  r[i].addr + r[i].size < r[j].addr
  <2>1. CASE i < k /\ j < k
    <3>1. i \in 1 .. Len(m) /\ j \in 1 .. Len(m) /\ r[i] = m[i] /\ r[j] = m[j]
      BY <1>7, <1>8, <2>1
    <3> QED
      BY <1>12, <3>1 DEF Ordered
  <2>2. CASE i < k /\ j = k
    BY <1>7, <1>8, <1>10, <2>2
  <2>3. CASE i < k /\ j > k
    <3>1. i \in 1 .. Len(m) /\ j + 1 \in 1 .. Len(m) /\ i < j + 1 /\ r[i] = m[i] /\ r[j] = m[j + 1]
      BY <1>0, <1>7, <1>8, <1>12, <2>3
    <3> QED
      BY <3>1 DEF Ordered
  <2>4. CASE i = k /\ j > k
    <3>1. j \in k + 1 .. Len(r)
      BY <1>8, <2>4
    <3>2. j + 1 \in k + 2 .. Len(m) /\ r[i] = e /\ r[j] = m[j + 1]
      BY <1>7, <2>4, <3>1
    <3> QED
      BY <1>11, <3>2
  <2>5. CASE i > k /\ j > k
    <3>1. i + 1 \in 1 .. Len(m) /\ j + 1 \in 1 .. Len(m) /\ i + 1 < j + 1 /\ r[i] = m[i + 1] /\ r[j] = m[j + 1]
      BY <1>0, <1>7, <1>8, <1>12, <2>5
    <3> QED
      BY <3>1 DEF Ordered
  <2> QED
    BY <1>0, <1>8, <1>12, <2>1, <2>2, <2>3, <2>4, <2>5
<1>13. Ordered(r)
  BY <1>9, <1>12 DEF Ordered
<1>14. ASSUME NEW u \in Int PROVE u \in Units(r) <=> u \in Units(m) \/ u \in a .. a + n - 1
  <2>1. u \in Units(r) <=> \E i \in 1 .. Len(r) : In(u, r[i])
    BY <1>5, UnitsAre DEF In
  <2>2. u \in Units(m) <=> \E i \in 1 .. Len(m) : In(u, m[i])
    BY UnitsAre DEF In
  <2>3. In(u, e) <=> In(u, m[k]) \/ In(u, m[l]) \/ u \in a .. a + n - 1
    <3>2. m[k].addr + m[k].size = a /\ a + n = m[l].addr
      BY <1>6
    <3>3. u \in a .. a + n - 1 <=> a <= u /\ u < a + n
      OBVIOUS
    <3>4. In(u, e) <=> m[k].addr <= u /\ u < m[l].addr + m[l].size
      BY <1>3 DEF In
    <3>5. m[k].addr <= u /\ u < m[l].addr + m[l].size
            <=> \/ m[k].addr <= u /\ u < m[k].addr + m[k].size
                \/ m[l].addr <= u /\ u < m[l].addr + m[l].size
                \/ a <= u /\ u < a + n
      <4>1. PICK x \in Nat : x = m[k].addr
        BY <1>2
      <4>2. PICK y \in Nat : y = m[k].size
        BY <1>2
      <4>3. PICK z \in Nat : z = m[l].addr
        BY <1>2
      <4>4. PICK w \in Nat : w = m[l].size
        BY <1>2
      <4>5. x + y = a /\ a + n = z
        BY <3>2, <4>1, <4>2, <4>3
      <4>6. x <= u /\ u < z + w
              <=> (x <= u /\ u < x + y) \/ (z <= u /\ u < z + w) \/ (a <= u /\ u < a + n)
        BY <4>5
      <4> QED
        BY <4>1, <4>2, <4>3, <4>4, <4>6
    <3> QED
      BY <3>3, <3>4, <3>5, Zenon DEF In
  <2>4. k \in 1 .. Len(r)
    BY <1>0, <1>5, <1>6
  <2>5. ASSUME NEW i \in 1 .. Len(r), In(u, r[i])
        PROVE  u \in a .. a + n - 1 \/ \E j \in 1 .. Len(m) : In(u, m[j])
    <3>1. CASE i < k
      BY <1>7, <1>8, <2>5, <3>1
    <3>2. CASE i = k
      BY <1>0, <1>7, <2>3, <2>5, <3>2
    <3>3. CASE i > k
      <4>1. i + 1 \in 1 .. Len(m) /\ r[i] = m[i + 1]
        BY <1>0, <1>7, <1>8, <3>3
      <4> QED
        BY <2>5, <4>1
    <3> QED
      BY <1>8, <3>1, <3>2, <3>3
  <2>6. ASSUME NEW i \in 1 .. Len(m), In(u, m[i]) PROVE \E j \in 1 .. Len(r) : In(u, r[j])
    <3>1. CASE i < k
      <4>1. i \in 1 .. Len(r) /\ i \in 1 .. k - 1
        BY <1>0, <1>5, <1>6, <3>1
      <4> QED
        BY <1>7, <2>6, <4>1
    <3>2. CASE i = k \/ i = l
      BY <1>7, <2>3, <2>4, <2>6, <3>2
    <3>3. CASE i > l
      <4>1. i - 1 \in k + 1 .. Len(r) /\ i - 1 \in 1 .. Len(r) /\ (i - 1) + 1 = i
        BY <1>0, <1>5, <1>6, <3>3
      <4>2. r[i - 1] = m[i]
        BY <1>7, <4>1
      <4> QED
        BY <2>6, <4>1, <4>2
    <3> QED
      BY <1>0, <1>6, <3>1, <3>2, <3>3
  <2> QED
    BY <1>7, <2>1, <2>2, <2>3, <2>4, <2>5, <2>6
<1>15. \A u : u \in Units(r) \/ u \in Units(m) => u \in Int
  BY <1>5, UnitsAre
<1>16. Units(r) = Units(m) \cup (a .. a + n - 1)
  BY <1>14, <1>15
<1> QED
  BY <1>13, <1>16 DEF r, s, e, l

\* mfree of a run that is not free: the map stays sorted and joined, and what
\* is free afterwards is what was free before and the run.
THEOREM MfreeReturns ==
    ASSUME NEW m \in Seq(Entries), WellFormed(m), NEW n \in Nat \ {0}, NEW a \in Nat,
           (a .. a + n - 1) \cap Units(m) = {}
    PROVE  /\ Mfree(m, n, a) \in Seq(Entries)
           /\ WellFormed(Mfree(m, n, a))
           /\ Units(Mfree(m, n, a)) = Units(m) \cup (a .. a + n - 1)
<1> DEFINE k == Before(m, a)
           before == k > 0 /\ m[k].addr + m[k].size = a
           after == k < Len(m) /\ a + n = m[k + 1].addr
           Right(r) == Ordered(r) /\ Units(r) = Units(m) \cup (a .. a + n - 1)
<1> SUFFICES Right(Mfree(m, n, a))
  BY MfreeType, OrderedIsWellFormed
<1>0. Ordered(m)
  BY NeighboursSuffice
<1>1. Len(m) \in Nat /\ k \in 0 .. Len(m)
  BY LenProperties, BeforeIsPlace
<1>2. \A i \in 1 .. Len(m) : m[i].addr \in Nat /\ m[i].size \in Nat /\ m[i].size > 0
  <2>1. \A i \in 1 .. Len(m) : m[i] \in Entries
    BY ElementOfSeq
  <2> QED
    BY <1>0, <2>1 DEF Entries, Ordered
<1>3. /\ \A i \in 1 .. k : m[i].addr + m[i].size <= a
      /\ \A i \in k + 1 .. Len(m) : a + n <= m[i].addr
  BY <1>0, RunLiesBetween
<1>4. Mfree(m, n, a) = IF before /\ after THEN RemoveAt([m EXCEPT ![k] = Entry(@.addr, @.size + n + m[k + 1].size)], k + 1)
                       ELSE IF before THEN [m EXCEPT ![k] = Entry(@.addr, @.size + n)]
                       ELSE IF after THEN [m EXCEPT ![k + 1] = Entry(a, @.size + n)]
                       ELSE IF n = 0 THEN m ELSE InsertAt(m, k + 1, Entry(a, n))
  BY DEF Mfree, Before
<1> HIDE DEF k
\* The entries before the k-th end before a, those behind the next begin behind
\* the run; so do the neighbours, if they do not touch it.
<1>5. \A i \in 1 .. k - 1 : i \in 1 .. Len(m) /\ m[i].addr + m[i].size < m[k].addr /\ m[k].addr < a
  <2> SUFFICES ASSUME NEW i \in 1 .. k - 1
               PROVE  i \in 1 .. Len(m) /\ m[i].addr + m[i].size < m[k].addr /\ m[k].addr < a
    OBVIOUS
  <2>1. i \in 1 .. Len(m) /\ k \in 1 .. Len(m) /\ k \in 1 .. k /\ i < k
    BY <1>1
  <2>2. m[i].addr + m[i].size < m[k].addr
    BY <1>0, <2>1 DEF Ordered
  <2>3. m[k].addr + m[k].size <= a /\ m[k].addr \in Nat /\ m[k].size \in Nat /\ m[k].size > 0
    BY <1>2, <1>3, <2>1
  <2>4. m[k].addr < a
    BY <2>3
  <2> QED
    BY <2>1, <2>2, <2>4
<1>6. \A i \in k + 2 .. Len(m) : m[k + 1].addr + m[k + 1].size < m[i].addr /\ a + n < m[i].addr
  <2> SUFFICES ASSUME NEW i \in k + 2 .. Len(m)
               PROVE  m[k + 1].addr + m[k + 1].size < m[i].addr /\ a + n < m[i].addr
    OBVIOUS
  <2>1. i \in 1 .. Len(m) /\ k + 1 \in 1 .. Len(m) /\ k + 1 \in k + 1 .. Len(m) /\ k + 1 < i
    BY <1>1
  <2>2. m[k + 1].addr + m[k + 1].size < m[i].addr
    BY <1>0, <2>1 DEF Ordered
  <2> QED
    BY <1>2, <1>3, <2>1, <2>2
<1>7. ~before => \A i \in 1 .. k : m[i].addr + m[i].size < a
  <2> SUFFICES ASSUME ~before, NEW i \in 1 .. k PROVE m[i].addr + m[i].size < a
    OBVIOUS
  <2>0. i \in 1 .. Len(m) /\ m[i].addr + m[i].size <= a /\ m[i].addr \in Nat /\ m[i].size \in Nat
    BY <1>1, <1>2, <1>3
  <2>1. CASE i = k
    <3>1. m[i].addr + m[i].size # a
      BY <1>1, <2>1
    <3> QED
      BY <2>0, <3>1
  <2>2. CASE i # k
    <3>1. i \in 1 .. k - 1 /\ k \in 1 .. Len(m)
      BY <1>1, <2>2
    <3> QED
      BY SMTT(30), <1>2, <1>5, <3>1
  <2> QED
    BY <2>1, <2>2
<1>8. ~after => \A i \in k + 1 .. Len(m) : a + n < m[i].addr
  <2> SUFFICES ASSUME ~after, NEW i \in k + 1 .. Len(m) PROVE a + n < m[i].addr
    OBVIOUS
  <2>1. i \in 1 .. Len(m)
    BY <1>1
  <2>2. CASE i = k + 1
    BY SMTT(30), <1>1, <1>2, <1>3, <2>1, <2>2
  <2>3. CASE i # k + 1
    BY <1>1, <1>6, <2>3
  <2> QED
    BY <2>2, <2>3
<1>9. CASE before /\ after
  <2>1. k \in 1 .. Len(m) - 1
    BY <1>1, <1>9
  <2>2. Right(RemoveAt([m EXCEPT ![k] = Entry(@.addr, @.size + n + m[k + 1].size)], k + 1))
    BY <1>0, <1>9, <2>1, MfreeJoins
  <2> HIDE DEF Right
  <2> QED
    BY <1>4, <1>9, <2>2
<1>10. CASE before /\ ~after
  <2> DEFINE e == Entry(m[k].addr, m[k].size + n)
  <2>1. k \in 1 .. Len(m)
    BY <1>1, <1>10
  <2>0. m[k].addr \in Nat /\ m[k].size \in Nat /\ m[k].addr + m[k].size = a
    BY <1>2, <1>10, <2>1
  <2>2. e \in Entries /\ e.addr = m[k].addr /\ e.size = m[k].size + n /\ e.addr + e.size = a + n
    <3>1. e.addr = m[k].addr /\ e.size = m[k].size + n
      BY DEF Entry
    <3>2. e \in Entries
      BY SMTT(30), <2>0 DEF Entries, Entry
    <3> HIDE DEF e
    <3> QED
      BY <2>0, <3>1, <3>2
  <2>3. \A u \in Int : In(u, e) <=> In(u, m[k]) \/ u \in a .. a + n - 1
    BY <1>2, <1>10, <2>1, <2>2 DEF In
  <2>4. e.size > 0 /\ a .. a + n - 1 \in SUBSET Int
    BY <1>2, <2>1, <2>2
  <2>5. \A i \in 1 .. k - 1 : m[i].addr + m[i].size < e.addr
    BY <1>5, <2>2
  <2>6. \A i \in k + 1 .. Len(m) : e.addr + e.size < m[i].addr
    BY <1>8, <1>10, <2>2
  <2> HIDE DEF e
  <2>7. Right([m EXCEPT ![k] = e])
    BY <1>0, <2>1, <2>2, <2>3, <2>4, <2>5, <2>6, MfreeExtends
  <2> HIDE DEF Right
  <2>8. [m EXCEPT ![k] = e] = [m EXCEPT ![k] = Entry(@.addr, @.size + n)]
    BY DEF e
  <2> QED
    BY <1>4, <1>10, <2>7, <2>8
<1>11. CASE ~before /\ after
  <2> DEFINE l == k + 1
             e == Entry(a, m[l].size + n)
  <2>1. l \in 1 .. Len(m)
    BY <1>1, <1>11
  <2>0. m[l].addr \in Nat /\ m[l].size \in Nat /\ a + n = m[l].addr
    BY <1>2, <1>11, <2>1
  <2>2. e \in Entries /\ e.addr = a /\ e.size = m[l].size + n /\ e.addr + e.size = m[l].addr + m[l].size
    <3>1. e.addr = a /\ e.size = m[l].size + n
      BY DEF Entry
    <3>2. e \in Entries
      BY SMTT(30), <2>0 DEF Entries, Entry
    <3> HIDE DEF e, l
    <3> QED
      BY <2>0, <3>1, <3>2
  <2>3. \A u \in Int : In(u, e) <=> In(u, m[l]) \/ u \in a .. a + n - 1
    BY <1>2, <1>11, <2>1, <2>2 DEF In
  <2>4. e.size > 0 /\ a .. a + n - 1 \in SUBSET Int
    BY <1>2, <2>1, <2>2
  <2>5. \A i \in 1 .. l - 1 : m[i].addr + m[i].size < e.addr
    BY <1>1, <1>7, <1>11, <2>2
  <2>6. \A i \in l + 1 .. Len(m) : e.addr + e.size < m[i].addr
    BY <1>1, <1>6, <2>2
  <2>7. [m EXCEPT ![l] = e] = [m EXCEPT ![k + 1] = Entry(a, @.size + n)]
    OBVIOUS
  <2> HIDE DEF e, l
  <2>8. Right([m EXCEPT ![l] = e])
    <3> DEFINE T == a .. a + n - 1
    <3>1. e \in Entries /\ e.size > 0 /\ T \in SUBSET Int
      BY <2>2, <2>4
    <3>2. \A u \in Int : In(u, e) <=> In(u, m[l]) \/ u \in T
      BY <2>3
    <3> HIDE DEF T
    <3>3. LET r == [m EXCEPT ![l] = e]
          IN  r \in Seq(Entries) /\ Ordered(r) /\ Units(r) = Units(m) \cup T
      BY <1>0, <2>1, <2>5, <2>6, <3>1, <3>2, MfreeExtends
    <3> QED
      BY <3>3 DEF T
  <2> HIDE DEF Right
  <2> QED
    BY <1>4, <1>11, <2>7, <2>8
<1>12. CASE ~before /\ ~after
  <2>1. \A i \in 1 .. k : m[i].addr + m[i].size < a
    BY <1>7, <1>12
  <2>2. \A i \in k + 1 .. Len(m) : a + n < m[i].addr
    BY <1>8, <1>12
  <2>3. Right(InsertAt(m, k + 1, Entry(a, n)))
    BY <1>0, <1>1, <2>1, <2>2, MfreeInserts
  <2> HIDE DEF Right
  <2> QED
    BY <1>4, <1>12, <2>3
<1> HIDE DEF before, after, Right
<1> QED
  BY <1>9, <1>10, <1>11, <1>12

-----------------------------------------------------------------------------
\* malloc.

\* The place malloc finds: 0 if no entry is large enough.
LEMMA FirstFitIs ==
    ASSUME NEW m \in Seq(Entries), NEW n \in Nat
    PROVE  /\ FirstFit(m, n) # 0 => FirstFit(m, n) \in 1 .. Len(m) /\ m[FirstFit(m, n)].size >= n
           /\ FirstFit(m, n) = 0 => \A i \in 1 .. Len(m) : ~(m[i].size >= n)
<1> DEFINE I == {i \in DOMAIN m : m[i].size >= n}
<1>1. Len(m) \in Nat /\ DOMAIN m = 1 .. Len(m)
  BY LenProperties
<1>2. FirstFit(m, n) = IF I = {} THEN 0 ELSE Min(I)
  BY DEF FirstFit
<1>3. CASE I = {}
  BY <1>1, <1>2, <1>3
<1>4. CASE I # {}
  <2>1. I \in SUBSET Nat
    BY <1>1
  <2>2. Min(I) \in I
    <3> HIDE DEF I
    <3> QED
      BY <1>4, <2>1, MinIsLeast
  <2>3. Min(I) \in 1 .. Len(m) /\ m[Min(I)].size >= n
    BY <1>1, <2>2
  <2> HIDE DEF I
  <2>4. Min(I) # 0
    BY <1>1, <2>3
  <2> QED
    BY <1>2, <1>4, <2>3, <2>4
<1> QED
  BY <1>3, <1>4

\* Whatever is asked of whatever map, the result is a map.
LEMMA MallocType ==
    ASSUME NEW m \in Seq(Entries), NEW n \in Nat
    PROVE  Malloc(m, n).addr \in Nat /\ Malloc(m, n).map \in Seq(Entries)
<1> DEFINE i == FirstFit(m, n)
           rest == [m EXCEPT ![i] = Entry(@.addr + n, @.size - n)]
<1>1. Malloc(m, n) = IF i = 0 THEN [addr |-> 0, map |-> m]
                     ELSE [addr |-> m[i].addr, map |-> IF m[i].size = n THEN RemoveAt(m, i) ELSE rest]
  BY DEF Malloc
<1>2. i # 0 => i \in 1 .. Len(m) /\ m[i].size >= n
  BY FirstFitIs
<1> HIDE DEF i
<1>3. CASE i = 0
  BY <1>1, <1>3
<1>4. CASE i # 0
  <2>1. i \in 1 .. Len(m) /\ m[i] \in Entries /\ m[i].size >= n
    BY <1>2, <1>4, ElementOfSeq
  <2>2. RemoveAt(m, i) \in Seq(Entries)
    BY <2>1, RemoveAtIs
  <2>3. Entry(m[i].addr + n, m[i].size - n) \in Entries
    BY SMTT(30), <2>1 DEF Entries, Entry
  <2>4. rest \in Seq(Entries)
    BY <2>1, <2>3, ExceptSeq
  <2>5. m[i].addr \in Nat
    BY <2>1 DEF Entries
  <2> HIDE DEF rest
  <2> QED
    BY <1>1, <1>4, <2>2, <2>4, <2>5
<1> QED
  BY <1>3, <1>4

\* A unit is in one entry only.
LEMMA OneEntry ==
    ASSUME NEW m \in Seq(Entries), Ordered(m), NEW i \in 1 .. Len(m), NEW j \in 1 .. Len(m), NEW u \in Int,
           m[i].addr <= u, u <= m[i].addr + m[i].size, In(u, m[j])
    PROVE  i = j
<1>1. \A l \in 1 .. Len(m) : m[l].addr \in Nat /\ m[l].size \in Nat /\ m[l].size > 0
  <2>1. \A l \in 1 .. Len(m) : m[l] \in Entries
    BY ElementOfSeq
  <2> QED
    BY <2>1 DEF Entries, Ordered
<1>2. m[j].addr <= u /\ u < m[j].addr + m[j].size
  BY DEF In
<1>3. CASE i < j
  <2>1. m[i].addr + m[i].size < m[j].addr
    BY <1>3 DEF Ordered
  <2> QED
    BY <1>1, <1>2, <2>1
<1>4. CASE j < i
  <2>1. m[j].addr + m[j].size < m[i].addr
    BY <1>4 DEF Ordered
  <2> QED
    BY <1>1, <1>2, <2>1
<1> QED
  BY <1>3, <1>4, LenProperties

\* An entry of just the size is taken out.
LEMMA MallocRemoves ==
    ASSUME NEW m \in Seq(Entries), Ordered(m), NEW k \in 1 .. Len(m)
    PROVE  LET r == RemoveAt(m, k)
           IN  /\ r \in Seq(Entries) /\ Ordered(r)
               /\ \A u \in Int : u \in Units(r) <=> u \in Units(m) /\ ~In(u, m[k])
<1> DEFINE r == RemoveAt(m, k)
<1>0. Len(m) \in Nat /\ k \in Nat /\ 1 <= k /\ k <= Len(m)
  BY LenProperties
<1>1. /\ r \in Seq(Entries) /\ Len(r) = Len(m) - 1
      /\ \A j \in 1 .. k - 1 : r[j] = m[j]
      /\ \A j \in k .. Len(m) - 1 : r[j] = m[j + 1]
  BY RemoveAtIs
<1> HIDE DEF r
<1>2. \A j \in 1 .. Len(r) : \/ j < k /\ j \in 1 .. Len(m) /\ r[j] = m[j]
                             \/ j >= k /\ j + 1 \in 1 .. Len(m) /\ r[j] = m[j + 1]
  <2> SUFFICES ASSUME NEW j \in 1 .. Len(r)
               PROVE  \/ j < k /\ j \in 1 .. Len(m) /\ r[j] = m[j]
                      \/ j >= k /\ j + 1 \in 1 .. Len(m) /\ r[j] = m[j + 1]
    OBVIOUS
  <2>1. CASE j < k
    BY <1>0, <1>1, <2>1
  <2>2. CASE j >= k
    BY <1>0, <1>1, <2>2
  <2> QED
    BY <1>0, <2>1, <2>2
<1>3. \A j \in 1 .. Len(r) : r[j].size > 0
  BY <1>2 DEF Ordered
<1>4. ASSUME NEW i \in 1 .. Len(r), NEW j \in 1 .. Len(r), i < j
      PROVE  r[i].addr + r[i].size < r[j].addr
  <2>1. CASE j < k
    <3>1. i \in 1 .. Len(m) /\ r[i] = m[i] /\ j \in 1 .. Len(m) /\ r[j] = m[j]
      BY <1>0, <1>2, <1>4, <2>1
    <3> QED
      BY <1>4, <3>1 DEF Ordered
  <2>2. CASE i < k /\ j >= k
    <3>1. i \in 1 .. Len(m) /\ r[i] = m[i] /\ j + 1 \in 1 .. Len(m) /\ r[j] = m[j + 1] /\ i < j + 1
      BY <1>0, <1>2, <1>4, <2>2
    <3> QED
      BY <3>1 DEF Ordered
  <2>3. CASE i >= k
    <3>1. /\ i + 1 \in 1 .. Len(m) /\ r[i] = m[i + 1] /\ j + 1 \in 1 .. Len(m) /\ r[j] = m[j + 1]
          /\ i + 1 < j + 1
      BY <1>0, <1>2, <1>4, <2>3
    <3> QED
      BY <3>1 DEF Ordered
  <2> QED
    BY <1>0, <2>1, <2>2, <2>3
<1>5. Ordered(r)
  BY <1>3, <1>4 DEF Ordered
<1>6. ASSUME NEW u \in Int PROVE u \in Units(r) <=> u \in Units(m) /\ ~In(u, m[k])
  <2>1. u \in Units(r) <=> \E i \in 1 .. Len(r) : In(u, r[i])
    BY <1>1, UnitsAre DEF In
  <2>2. u \in Units(m) <=> \E i \in 1 .. Len(m) : In(u, m[i])
    BY UnitsAre DEF In
  <2>3. ASSUME NEW i \in 1 .. Len(m), NEW j \in 1 .. Len(m), In(u, m[i]), In(u, m[j]) PROVE i = j
    <3>0. m[i] \in Entries
      BY ElementOfSeq
    <3>1. m[i].addr \in Nat /\ m[i].size \in Nat
      BY <3>0 DEF Entries
    <3>2. m[i].addr <= u /\ u <= m[i].addr + m[i].size
      BY <2>3, <3>1 DEF In
    <3> QED
      BY <2>3, <3>2, OneEntry
  <2>4. ASSUME NEW i \in 1 .. Len(r), In(u, r[i])
        PROVE  ~In(u, m[k]) /\ \E j \in 1 .. Len(m) : In(u, m[j])
    <3>1. CASE i < k
      <4>1. i \in 1 .. Len(m) /\ r[i] = m[i] /\ i # k
        BY <1>0, <1>2, <3>1
      <4> QED
        BY <2>3, <2>4, <4>1
    <3>2. CASE i >= k
      <4>1. i + 1 \in 1 .. Len(m) /\ r[i] = m[i + 1] /\ i + 1 # k
        BY <1>0, <1>2, <3>2
      <4> QED
        BY <2>3, <2>4, <4>1
    <3> QED
      BY <1>0, <3>1, <3>2
  <2>5. ASSUME NEW i \in 1 .. Len(m), In(u, m[i]), ~In(u, m[k]) PROVE \E j \in 1 .. Len(r) : In(u, r[j])
    <3>1. CASE i < k
      <4>1. i \in 1 .. Len(r) /\ i \in 1 .. k - 1
        BY <1>0, <1>1, <3>1
      <4> QED
        BY <1>1, <2>5, <4>1
    <3>2. CASE i > k
      <4>1. i - 1 \in 1 .. Len(r) /\ i - 1 \in k .. Len(m) - 1 /\ (i - 1) + 1 = i
        BY <1>0, <1>1, <3>2
      <4>2. r[i - 1] = m[i]
        BY <1>1, <4>1
      <4> QED
        BY <2>5, <4>1, <4>2
    <3>3. i # k
      BY <2>5
    <3> QED
      BY <1>0, <3>1, <3>2, <3>3
  <2> QED
    BY <2>1, <2>2, <2>4, <2>5
<1> QED
  BY <1>1, <1>5, <1>6 DEF r

\* Of a larger one the beginning is taken.
LEMMA MallocShortens ==
    ASSUME NEW m \in Seq(Entries), Ordered(m), NEW k \in 1 .. Len(m), NEW n \in Nat \ {0}, n < m[k].size
    PROVE  LET r == [m EXCEPT ![k] = Entry(@.addr + n, @.size - n)]
           IN  /\ r \in Seq(Entries) /\ Ordered(r)
               /\ \A u \in Int : u \in Units(r) <=>
                    u \in Units(m) /\ u \notin m[k].addr .. m[k].addr + n - 1
<1> DEFINE e == Entry(m[k].addr + n, m[k].size - n)
           r == [m EXCEPT ![k] = e]
<1>0. Len(m) \in Nat /\ \A l \in 1 .. Len(m) : m[l] \in Entries
  BY LenProperties, ElementOfSeq
<1>1. m[k].addr \in Nat /\ m[k].size \in Nat
  BY <1>0 DEF Entries
<1>2. e.addr = m[k].addr + n /\ e.size = m[k].size - n
  BY DEF Entry
<1>3. e \in Entries
  BY SMTT(30), <1>1 DEF Entries, Entry
<1> HIDE DEF e
<1>4. e.size > 0 /\ e.addr + e.size = m[k].addr + m[k].size /\ m[k].addr <= e.addr
  BY SMTT(30), <1>1, <1>2
<1>5. r \in Seq(Entries) /\ Len(r) = Len(m) /\ r[k] = e /\ \A j \in 1 .. Len(m) : j # k => r[j] = m[j]
  BY <1>3, ExceptSeq
<1> HIDE DEF r
<1>6. ASSUME NEW i \in 1 .. Len(m), NEW j \in 1 .. Len(m), i < j
      PROVE  r[i].addr + r[i].size < r[j].addr
  <2>1. m[i].addr + m[i].size < m[j].addr
    BY <1>6 DEF Ordered
  <2>2. CASE i = k
    <3>1. j # k
      BY <1>6, <2>2
    <3> QED
      BY <1>4, <1>5, <2>1, <2>2, <3>1
  <2>3. CASE j = k
    <3>1. i # k /\ m[i].addr \in Nat /\ m[i].size \in Nat /\ e.addr \in Nat
      BY SMTT(30), <1>0, <1>3, <1>6, <2>3 DEF Entries
    <3>2. r[i] = m[i] /\ r[j] = e /\ m[i].addr + m[i].size < m[k].addr
      BY <1>5, <2>1, <2>3, <3>1
    <3> QED
      BY SMTT(30), <1>1, <1>4, <3>1, <3>2
  <2>4. CASE i # k /\ j # k
    BY <1>5, <2>1, <2>4
  <2> QED
    BY <2>2, <2>3, <2>4
<1>7. Ordered(r)
  <2>1. \A i \in 1 .. Len(r) : r[i].size > 0
    BY <1>4, <1>5 DEF Ordered
  <2> QED
    BY <1>5, <1>6, <2>1 DEF Ordered
<1>8. ASSUME NEW u \in Int
      PROVE  u \in Units(r) <=> u \in Units(m) /\ u \notin m[k].addr .. m[k].addr + n - 1
  <2>1. u \in Units(r) <=> \E i \in 1 .. Len(m) : In(u, r[i])
    BY <1>5, UnitsAre DEF In
  <2>2. u \in Units(m) <=> \E i \in 1 .. Len(m) : In(u, m[i])
    BY UnitsAre DEF In
  <2>3. u \in m[k].addr .. m[k].addr + n - 1 => In(u, m[k])
    BY <1>1 DEF In
  <2>4. In(u, e) <=> In(u, m[k]) /\ u \notin m[k].addr .. m[k].addr + n - 1
    <3>1. PICK x \in Nat : x = m[k].addr
      BY <1>1
    <3>2. PICK y \in Nat : y = m[k].size
      BY <1>1
    <3>3. x + n <= u /\ u < (x + n) + (y - n) <=> (x <= u /\ u < x + y) /\ ~(u \in x .. x + n - 1)
      OBVIOUS
    <3>4. In(u, e) <=> x + n <= u /\ u < (x + n) + (y - n)
      BY <1>2, <3>1, <3>2 DEF In
    <3>5. In(u, m[k]) <=> x <= u /\ u < x + y
      BY <3>1, <3>2 DEF In
    <3> QED
      BY <3>1, <3>3, <3>4, <3>5
  <2>5. ASSUME NEW i \in 1 .. Len(m), i # k, In(u, m[i]) PROVE ~In(u, m[k])
    <3>1. m[i].addr \in Nat /\ m[i].size \in Nat
      BY <1>0 DEF Entries
    <3>2. m[i].addr <= u /\ u <= m[i].addr + m[i].size
      BY <2>5, <3>1 DEF In
    <3> QED
      BY <2>5, <3>2, OneEntry
  <2> QED
    BY <1>5, <2>1, <2>2, <2>3, <2>4, <2>5
<1>9. r = [m EXCEPT ![k] = Entry(@.addr + n, @.size - n)]
  BY DEF r, e
<1> QED
  BY <1>5, <1>7, <1>8, <1>9

\* malloc: the run that it gives was free and is not free any more; the other
\* units are as they were, and the map stays sorted and joined.  It gives none
\* only when no such run is free: since free runs are joined, first fit over
\* the entries finds every one that there is.
THEOREM MallocTakes ==
    ASSUME NEW m \in Seq(Entries), WellFormed(m), 0 \notin Units(m), NEW n \in Nat \ {0}
    PROVE  LET r == Malloc(m, n)
               run == r.addr .. r.addr + n - 1
           IN  /\ r.map \in Seq(Entries) /\ WellFormed(r.map)
               /\ r.addr # 0 => run \subseteq Units(m) /\ Units(r.map) = Units(m) \ run
               /\ r.addr = 0 => r.map = m /\ \A a \in Nat : ~(a .. a + n - 1 \subseteq Units(m))
<1> DEFINE r == Malloc(m, n)
           i == FirstFit(m, n)
           rest == [m EXCEPT ![i] = Entry(@.addr + n, @.size - n)]
<1>0. Ordered(m)
  BY NeighboursSuffice
<1>1. r = IF i = 0 THEN [addr |-> 0, map |-> m]
          ELSE [addr |-> m[i].addr, map |-> IF m[i].size = n THEN RemoveAt(m, i) ELSE rest]
  BY DEF Malloc
<1>2. /\ i # 0 => i \in 1 .. Len(m) /\ m[i].size >= n
      /\ i = 0 => \A j \in 1 .. Len(m) : ~(m[j].size >= n)
  BY FirstFitIs
<1>3. r.map \in Seq(Entries)
  BY MallocType
<1>4. \A l \in 1 .. Len(m) : m[l].addr \in Nat /\ m[l].size \in Nat /\ m[l].size > 0
  <2>1. \A l \in 1 .. Len(m) : m[l] \in Entries
    BY ElementOfSeq
  <2> QED
    BY <1>0, <2>1 DEF Entries, Ordered
<1> HIDE DEF i, r
<1>5. CASE i = 0
  <2>1. r.addr = 0 /\ r.map = m
    BY <1>1, <1>5
  <2>2. ASSUME NEW a \in Nat, a .. a + n - 1 \subseteq Units(m) PROVE FALSE
    <3>1. a \in Units(m)
      BY <2>2
    <3>2. PICK j \in 1 .. Len(m) : m[j].addr <= a /\ a < m[j].addr + m[j].size
      BY <3>1, UnitsAre
    <3>3. m[j].size < n
      BY <1>2, <1>4, <1>5
    <3> DEFINE u == m[j].addr + m[j].size
    <3>4. u \in a .. a + n - 1 /\ u \in Int /\ m[j].addr <= u /\ u <= m[j].addr + m[j].size
      BY <1>4, <3>2, <3>3
    <3>5. u \in Units(m)
      BY <2>2, <3>4
    <3>6. PICK l \in 1 .. Len(m) : In(u, m[l])
      BY <3>5, UnitsAre DEF In
    <3>7. j = l
      BY <1>0, <3>4, <3>6, OneEntry
    <3> QED
      BY <1>4, <3>6, <3>7 DEF In
  <2> QED
    BY <2>1, <2>2 DEF r
<1>6. CASE i # 0
  <2> DEFINE run == r.addr .. r.addr + n - 1
  <2>1. i \in 1 .. Len(m) /\ m[i].size >= n /\ m[i].addr \in Nat /\ m[i].size \in Nat /\ r.addr = m[i].addr
    BY <1>1, <1>2, <1>4, <1>6
  <2>2. run \subseteq Units(m)
    <3>1. \A u \in run : u \in Int /\ m[i].addr <= u /\ u < m[i].addr + m[i].size
      BY <2>1
    <3> QED
      BY <2>1, <3>1, UnitsAre
  <2>3. r.addr # 0
    <3>1. r.addr \in run
      BY <2>1
    <3> QED
      BY <2>2, <3>1
  <2>4. Ordered(r.map) /\ \A u \in Int : u \in Units(r.map) <=> u \in Units(m) /\ u \notin run
    <3>1. CASE m[i].size = n
      <4>1. r.map = RemoveAt(m, i)
        BY <1>1, <1>6, <3>1
      <4>2. \A u \in Int : u \in run <=> In(u, m[i])
        BY <2>1, <3>1 DEF In
      <4> HIDE DEF run
      <4> QED
        BY <1>0, <2>1, <4>1, <4>2, MallocRemoves
    <3>2. CASE m[i].size # n
      <4>1. r.map = rest
        BY <1>1, <1>6, <3>2
      <4>2. n < m[i].size
        BY <2>1, <3>2
      <4>3. Ordered(rest) /\ \A u \in Int : u \in Units(rest) <=>
                               u \in Units(m) /\ u \notin m[i].addr .. m[i].addr + n - 1
        BY <1>0, <2>1, <4>2, MallocShortens
      <4>4. run = m[i].addr .. m[i].addr + n - 1
        BY <2>1
      <4> HIDE DEF run, rest
      <4> QED
        BY <4>1, <4>3, <4>4
    <3> QED
      BY <3>1, <3>2
  <2>5. \A u : u \in Units(r.map) \/ u \in Units(m) => u \in Int
    BY <1>3, UnitsAre
  <2>6. Units(r.map) = Units(m) \ run
    BY <2>4, <2>5
  <2>7. WellFormed(r.map)
    BY <1>3, <2>4, OrderedIsWellFormed
  <2> HIDE DEF run
  <2> QED
    BY <1>3, <2>2, <2>3, <2>6, <2>7 DEF r, run
<1> QED
  BY <1>5, <1>6

=============================================================================
